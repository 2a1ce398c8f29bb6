----------------------------- MODULE KeystoreDoc -----------------------------
(***************************************************************************)
(* The keystore document of src/custom_components/svitgrid/keystore.py and *)
(* what each operation of SvitgridKeystore does to it.                     *)
(*                                                                         *)
(* Every operation of the class is `await self.load()`, a change of the    *)
(* loaded copy, and `await self._write(copy)`.  This module holds the      *)
(* middle part, as functions from a loaded document to the document that   *)
(* is handed to _write, together with each operation's early return: a     *)
(* predicate that says whether it writes at all.  TrustStore and EdgeBoxes *)
(* interleave the loads and the writes of several callers.                 *)
(*                                                                         *)
(* Data: a signing key is a member of Keys and stands for its id and its   *)
(* public key; a phone is a member of Phones and stands for its roster row *)
(* and its island key; api keys and pairing codes are model values.        *)
(* trusted_key_ids is left out: every operation sets it to the keys of     *)
(* trusted_public_keys_hex.  The legacy scalar island_key is left out.     *)
(***************************************************************************)
EXTENDS FiniteSets

CONSTANTS
    Keys,       \* signing keys
    Phones,     \* island roster rows
    Boxes,      \* edge box device ids
    Inverters,  \* inverters a box may hold
    ApiKeys,    \* api keys minted for boxes
    Codes,      \* pairing codes minted for boxes
    None        \* "no value"

ASSUME NoneAssumption == None \notin Phones \cup ApiKeys \cup Codes

\* EdgeBoxEntry.  api = None until the box presents its code.
BoxEntry == [api: ApiKeys \cup {None}, code: Codes \cup {None},
             holds: SUBSET Inverters]

\* KeystoreState.  A box that is not adopted maps to None.
Doc == [trusted: SUBSET Keys,                  \* trusted_public_keys_hex
        revoked: SUBSET Keys,                  \* revoked_key_ids
        island:  SUBSET Phones,                \* island_keys
        link:    [Keys -> Phones \cup {None}], \* key_devices
        boxes:   [Boxes -> BoxEntry \cup {None}],
        pend:    [Keys -> SUBSET Boxes]]       \* box_pending_keys

\* A first install: setup saved the identity, and no phone has joined.
EmptyDoc == [trusted |-> {}, revoked |-> {}, island |-> {},
             link  |-> [k \in Keys |-> None],
             boxes |-> [b \in Boxes |-> None],
             pend  |-> [k \in Keys |-> {}]]

Adopted(d) == {b \in Boxes : d.boxes[b] # None}

\* lan_paired_trusted_keys: trusted, linked to a roster row that exists, and
\* not revoked.
LanPaired(d) == {k \in d.trusted : k \notin d.revoked /\ d.link[k] \in d.island}

\* _write: the one place a write happens drops every revoked id first.
WrittenUnfiltered(d) == d  \* mutant
Written(d) == [d EXCEPT !.trusted = @ \ d.revoked]

-----------------------------------------------------------------------------
\* Phones and signing keys.

AddIslandKey(d, p) == [d EXCEPT !.island = @ \cup {p}]

RevokeIslandKeyWrites(d, p) == p \in d.island
RevokeIslandKey(d, p) == [d EXCEPT !.island = @ \ {p}]

LinkWrites(d, k, p) == d.link[k] # p
LinkSwapped(d, k, p) == [d EXCEPT !.link[k] = k]  \* mutant
LinkSigningKey(d, k, p) == [d EXCEPT !.link[k] = p]

\* Trusts the key, clears it from the revoked ids, and records it as pending
\* on every adopted box.
TrustKey(d, k) ==
    [d EXCEPT !.revoked = @ \ {k},
              !.trusted = @ \cup {k},
              !.pend[k] = IF Adopted(d) = {} THEN @ ELSE Adopted(d)]

\* LastAdminKey is raised for the only trusted key.
LastAdminUnchecked(d, k) == FALSE  \* mutant
LastAdminKey(d, k) == d.trusted = {k}

RevokeSigningKeyWrites(d, k) ==
    ~ (k \notin d.trusted /\ d.link[k] = None /\ k \in d.revoked)

\* Untrusts the key, records it as revoked, and removes the linked phone's
\* island key and the link: all in the document of one write.
RevokeSigningKey(d, k) ==
    [d EXCEPT !.trusted = @ \ {k},
              !.revoked = @ \cup {k},
              !.island  = @ \ {d.link[k]},
              !.link[k] = None]

UntrustWrites(d, k) == k \in d.trusted \/ k \notin d.revoked
UntrustKey(d, k) == [d EXCEPT !.trusted = @ \ {k}, !.revoked = @ \cup {k}]

\* The poller's whole-set write.
UpdateForgetsRevoked(d, K) ==  \* mutant
    [d EXCEPT !.trusted = K, !.revoked = @ \ K]
UpdateTrusted(d, K) == [d EXCEPT !.trusted = K]

\* async_setup_entry's save at a start.  The stored trusted keys win over the
\* entry's pairing-time snapshot whenever there are any; the links, the
\* revoked ids, the island keys and the boxes are kept.
SaveForgetsRevoked(d, paired) ==  \* mutant
    [d EXCEPT !.trusted = IF @ # {} THEN @ ELSE paired, !.revoked = {}]
SaveIdentity(d, paired) ==
    [d EXCEPT !.trusted = IF @ # {} THEN @ ELSE paired]

-----------------------------------------------------------------------------
\* Edge boxes.

AddEdgeBox(d, b, entry) == [d EXCEPT !.boxes[b] = entry]

RemoveEdgeBoxWrites(d, b) == d.boxes[b] # None
RemoveEdgeBox(d, b) == [d EXCEPT !.boxes[b] = None]

\* A new code replaces the box's previous one.
IssuePairCode(d, b, c) == [d EXCEPT !.boxes[b].code = c]

\* The code is single use: binding clears it.
BindSwapped(d, b, a) == [d EXCEPT !.boxes[b].api = d.boxes[b].code, !.boxes[b].code = None]  \* mutant
BindEdgeBox(d, b, a) == [d EXCEPT !.boxes[b].api = a, !.boxes[b].code = None]

\* edge_box_for_pair_code and edge_box_for_api_key.
BoxForCode(d, c) ==
    {b \in Adopted(d) : d.boxes[b].api = None /\ d.boxes[b].code = c}
BoxForApiKey(d, a) == {b \in Adopted(d) : d.boxes[b].api = a}
=============================================================================
