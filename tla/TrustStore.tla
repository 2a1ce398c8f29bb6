----------------------------- MODULE TrustStore ------------------------------
(***************************************************************************)
(* Who may command this Home Assistant: the keystore under concurrent      *)
(* callers, and the command poller's copy of the trusted keys.             *)
(*                                                                         *)
(* SvitgridKeystore has no lock.  An operation loads the document, waits   *)
(* for the load, changes its copy and writes it back, so what another      *)
(* caller wrote between the load and the write is overwritten.  A Request  *)
(* is one LAN request or one approved pairing: a sequence of keystore      *)
(* operations run one after another by one coroutine.  The poller is one   *)
(* more caller; it keeps `cache`, the keys it accepts signed commands      *)
(* from, and a trust listener replaces the cache after every write.        *)
(*                                                                         *)
(* External: Home Assistant's Store.  A load returns the document last     *)
(* handed to async_save; async_save hands over the document at once and    *)
(* returns when its own write reached the disk, writes being done one at a *)
(* time in the order they were asked for.  A crash keeps what the disk     *)
(* holds.                                                                  *)
(***************************************************************************)
EXTENDS KeystoreDoc, Naturals, Sequences

CONSTANTS
    Requests,     \* coroutines that run LAN requests and pairings
    Poller,       \* the command poller of the config entry
    CloudChannel, \* whether setup starts the poller: not on a true island
    Paired,       \* entry.data["trusted_keys"]: the keys of the cloud pairing
    MaxRequests,  \* bound: requests begun in a behaviour
    MaxPolls,     \* bound: trust commands the poller runs
    MaxCrashes    \* bound: restarts of Home Assistant

ASSUME TrustStoreAssumption ==
    /\ Poller \notin Requests
    /\ CloudChannel \in BOOLEAN
    /\ Paired \subseteq Keys
    /\ Keys # {} /\ Phones # {}
    /\ {MaxRequests, MaxPolls, MaxCrashes} \subseteq Nat

VARIABLES
    doc,        \* the document a load returns
    disk,       \* the document on disk
    saves,      \* async_save calls that have not returned, in order
    pc,         \* what a caller does: idle, load, write or saving
    todo,       \* the keystore operations a caller still has to run
    snap,       \* the copy a caller loaded
    key, phone, \* what a caller's operations are about
    pushed,     \* the whole trusted set the poller hands to update_trusted_keys_hex
    mode,       \* where the poller is between keystore operations
    stale,      \* what a resync read before it asked the cloud
    cache,      \* trusted_public_keys_hex of the poller
    spent       \* how much of each bound is used

vars == <<doc, disk, saves, pc, todo, snap, key, phone, pushed, mode, stale,
          cache, spent>>
store == <<doc, disk, saves>>
callers == <<pc, todo, snap, key, phone>>
poller == <<pushed, mode, stale, cache>>

Callers == Requests \cup {Poller}
Operations == {"add_island", "trust", "link", "revoke", "remove_row", "check",
               "update", "untrust"}
SomeKey == CHOOSE k \in Keys : TRUE
SomePhone == CHOOSE p \in Phones : TRUE
NothingRead == [revoked |-> {}, lan |-> {}]

TypeOK ==
    /\ doc \in Doc
    /\ disk \in Doc
    /\ saves \in Seq([by: Callers, doc: Doc])
    /\ pc \in [Callers -> {"idle", "load", "write", "saving"}]
    /\ todo \in [Callers -> Seq(Operations)]
    /\ snap \in [Callers -> Doc]
    /\ key \in [Callers -> Keys]
    /\ phone \in [Callers -> Phones]
    /\ pushed \subseteq Keys
    /\ mode \in {"seed", "resync", "fetch", "ready"}
    /\ stale \in [revoked: SUBSET Keys, lan: SUBSET Keys]
    /\ cache \subseteq Keys
    /\ spent \in [requests: Nat, polls: Nat, crashes: Nat]

\* A start of Home Assistant on `d`: setup saves the identity, and the
\* poller's background task is created.
Started(d) == Written(SaveIdentity(d, Paired))

\* The documents a start may find: none yet, or one in which the keys of the
\* cloud pairing are trusted and one phone has joined over the LAN.
Joined(k, p) == [EmptyDoc EXCEPT !.trusted = Paired \cup {k},
                                 !.island = {p}, !.link[k] = p]
Found == {EmptyDoc} \cup {Joined(k, p) : k \in Keys, p \in Phones}

Init ==
    /\ doc \in {Started(d) : d \in Found}
    /\ disk = doc
    /\ saves = <<>>
    /\ pc = [c \in Callers |-> "idle"]
    /\ todo = [c \in Callers |-> <<>>]
    /\ snap = [c \in Callers |-> EmptyDoc]
    /\ key = [c \in Callers |-> SomeKey]
    /\ phone = [c \in Callers |-> SomePhone]
    /\ pushed = {}
    /\ mode = "seed"
    /\ stale = NothingRead
    /\ cache = {}
    /\ spent = [requests |-> 0, polls |-> 0, crashes |-> 0]

-----------------------------------------------------------------------------
(* One keystore operation: load, change the copy, write. *)

Spend(what, max) == spent[what] < max /\ spent' = [spent EXCEPT ![what] = @ + 1]

\* Caller c starts on a sequence of operations about key k and phone p.
Run(c, ops, k, p) ==
    /\ pc' = [pc EXCEPT ![c] = "load"]
    /\ todo' = [todo EXCEPT ![c] = ops]
    /\ key' = [key EXCEPT ![c] = k]
    /\ phone' = [phone EXCEPT ![c] = p]
    /\ UNCHANGED snap

Load(c) ==
    /\ pc[c] = "load"
    /\ snap' = [snap EXCEPT ![c] = doc]
    /\ pc' = [pc EXCEPT ![c] = "write"]
    /\ UNCHANGED <<store, todo, key, phone, poller, spent>>

\* The coroutine returns, or raises and answers an error.
Return(c) ==
    /\ pc' = [pc EXCEPT ![c] = "idle"]
    /\ todo' = [todo EXCEPT ![c] = <<>>]
    /\ key' = [key EXCEPT ![c] = SomeKey]
    /\ phone' = [phone EXCEPT ![c] = SomePhone]

\* The head of todo is over: go on with the next operation, or return.
Advance(c) ==
    IF Len(todo[c]) > 1
    THEN /\ pc' = [pc EXCEPT ![c] = "load"]
         /\ todo' = [todo EXCEPT ![c] = Tail(@)]
         /\ UNCHANGED <<key, phone>>
    ELSE Return(c)

\* The copy, and the set the poller passed in, are gone with the frame.
Reset(c) ==
    /\ snap' = [snap EXCEPT ![c] = EmptyDoc]
    /\ pushed' = IF c = Poller THEN {} ELSE pushed
    /\ UNCHANGED <<mode, stale, cache, spent>>

\* `await self._write(d)`: the document is handed over at once.
Save(c, d) ==
    /\ doc' = Written(d)
    /\ saves' = Append(saves, [by |-> c, doc |-> Written(d)])
    /\ pc' = [pc EXCEPT ![c] = "saving"]
    /\ Reset(c)
    /\ UNCHANGED <<disk, todo, key, phone>>

\* An early return: nothing is written.
Skip(c) == Advance(c) /\ Reset(c) /\ UNCHANGED store

At(c, op) == pc[c] = "write" /\ Head(todo[c]) = op

AsyncAddIslandKey(c) ==
    At(c, "add_island") /\ Save(c, AddIslandKey(snap[c], phone[c]))

AsyncTrustKey(c) ==
    At(c, "trust") /\ Save(c, TrustKey(snap[c], key[c]))

AsyncLinkSigningKey(c) ==
    /\ At(c, "link")
    /\ IF LinkWrites(snap[c], key[c], phone[c])
       THEN Save(c, LinkSigningKey(snap[c], key[c], phone[c]))
       ELSE Skip(c)

AsyncRevokeSigningKey(c) ==
    /\ At(c, "revoke")
    /\ IF LastAdminKey(snap[c], key[c])
       THEN Return(c) /\ Reset(c) /\ UNCHANGED store
       ELSE IF RevokeSigningKeyWrites(snap[c], key[c])
            THEN Save(c, RevokeSigningKey(snap[c], key[c]))
            ELSE Skip(c)

AsyncRevokeIslandKey(c) ==
    /\ At(c, "remove_row")
    /\ IF RevokeIslandKeyWrites(snap[c], phone[c])
       THEN Save(c, RevokeIslandKey(snap[c], phone[c]))
       ELSE Skip(c)

UpdateTrustedKeysHex(c) ==
    At(c, "update") /\ Save(c, UpdateTrusted(snap[c], pushed))

AsyncUntrustKey(c) ==
    /\ At(c, "untrust")
    /\ IF UntrustWrites(snap[c], key[c])
       THEN Save(c, UntrustKey(snap[c], key[c]))
       ELSE Skip(c)

\* The view's own load before async_trust_key: a revoked key is refused.
CheckNotRevoked(c) ==
    /\ At(c, "check")
    /\ IF key[c] \in snap[c].revoked THEN Return(c) ELSE Advance(c)
    /\ Reset(c)
    /\ UNCHANGED store

Operation(c) ==
    \/ AsyncAddIslandKey(c)
    \/ AsyncTrustKey(c)
    \/ AsyncLinkSigningKey(c)
    \/ AsyncRevokeSigningKey(c)
    \/ AsyncRevokeIslandKey(c)
    \/ UpdateTrustedKeysHex(c)
    \/ AsyncUntrustKey(c)
    \/ CheckNotRevoked(c)

\* The oldest write reached the disk: its caller resumes, the listener
\* replaces the poller's cache, and the operation is over.
WriteDone ==
    /\ saves # <<>>
    /\ LET w == Head(saves) IN
       /\ disk' = w.doc
       /\ cache' = IF mode = "seed" THEN cache ELSE w.doc.trusted
       /\ Advance(w.by)
    /\ saves' = Tail(saves)
    /\ UNCHANGED <<doc, snap, pushed, mode, stale, spent>>

-----------------------------------------------------------------------------
(* LAN requests and pairings. *)

Begin(r, ops, k, p) ==
    /\ pc[r] = "idle"
    /\ Spend("requests", MaxRequests)
    /\ Run(r, ops, k, p)
    /\ UNCHANGED <<store, poller>>

\* signed_lan_request: the caller presented an island key, and a trusted key
\* signed the body.
SignedRequestPossible == doc.island # {} /\ doc.trusted # {}

\* add_phone, after the owner approved the pairing in Home Assistant.
AddPhone(r, k, p) ==
    \/ Begin(r, <<"add_island", "trust", "link">>, k, p)  \* with control
    \/ Begin(r, <<"add_island", "link">>, k, p)           \* view only

\* POST /trust-key.
TrustKeyOverLan(r, k) ==
    SignedRequestPossible /\ Begin(r, <<"check", "trust">>, k, SomePhone)

\* POST /keys/revoke and DELETE /trust-key/{id}.
RevokeKeyOverLan(r, k) ==
    SignedRequestPossible /\ Begin(r, <<"revoke">>, k, SomePhone)

\* POST /island-devices/revoke: an island key is enough.
RemoveRow(r, p) ==
    doc.island # {} /\ Begin(r, <<"remove_row">>, SomeKey, p)

-----------------------------------------------------------------------------
(* The command poller. *)

PollerReady == mode = "ready" /\ pc[Poller] = "idle"

\* The cache a poller starts with: the keystore's keys, or the entry's pairing
\* snapshot when the keystore trusts no key.
SeedFromEntry(d) == Paired  \* mutant
Seed(d) == IF d.trusted # {} THEN d.trusted ELSE Paired

\* run_loop up to its first resync: seed the cache, then follow the keystore.
PollerSeed ==
    /\ CloudChannel
    /\ mode = "seed"
    /\ cache' = Seed(doc)
    /\ mode' = "resync"
    /\ UNCHANGED <<store, callers, pushed, stale, spent>>

\* _resync_trusted_keys up to the request to the cloud.
ResyncSnapshot ==
    /\ mode = "resync"
    /\ stale' = [revoked |-> doc.revoked, lan |-> LanPaired(doc)]
    /\ mode' = "fetch"
    /\ UNCHANGED <<store, callers, pushed, cache, spent>>

\* The cloud's approved list, without the revoked keys and with the LAN
\* paired ones, as the snapshot had them.
Fetched(approved) ==
    LET kept == approved \ stale.revoked
    IN  IF kept = {} THEN {} ELSE kept \cup stale.lan

\* The answer is what the cache holds, or an empty list: nothing changes.
ResyncKeeps(approved) ==
    /\ Fetched(approved) \in {cache, {}}
    /\ UNCHANGED <<store, callers, pushed, cache>>

\* REPLACE: the cache first, then the keystore through the cache.
ResyncReplaces(approved) ==
    /\ Fetched(approved) \notin {cache, {}}
    /\ cache' = Fetched(approved)
    /\ pushed' = Fetched(approved)
    /\ Run(Poller, <<"update">>, SomeKey, SomePhone)
    /\ UNCHANGED store

ResyncAnswered(approved) ==
    /\ mode = "fetch"
    /\ mode' = "ready"
    /\ stale' = NothingRead
    /\ ResyncKeeps(approved) \/ ResyncReplaces(approved)
    /\ UNCHANGED spent

ResyncFails ==
    /\ mode = "fetch"
    /\ mode' = "ready"
    /\ stale' = NothingRead
    /\ UNCHANGED <<store, callers, pushed, cache, spent>>

\* A signed command by a key the cache lacks.  The key may be one nobody here
\* knows, so this can always happen.
ResyncForUnknownKey ==
    /\ PollerReady
    /\ mode' = "resync"
    /\ UNCHANGED <<store, callers, pushed, stale, cache, spent>>

\* add_trusted_key, unless the loaded document has the key revoked.
AddTrustedKey(k) ==
    /\ PollerReady
    /\ Spend("polls", MaxPolls)
    /\ k \notin doc.revoked
    /\ cache' = cache \cup {k}
    /\ pushed' = cache \cup {k}
    /\ Run(Poller, <<"update">>, k, SomePhone)
    /\ UNCHANGED <<store, mode, stale>>

\* revoke_trusted_key.
RevokeTrustedKey(k) ==
    /\ PollerReady
    /\ Spend("polls", MaxPolls)
    /\ cache' = cache \ {k}
    /\ Run(Poller, <<"untrust">>, k, SomePhone)
    /\ UNCHANGED <<store, pushed, mode, stale>>

-----------------------------------------------------------------------------
\* Home Assistant stops, at any moment, and starts again from the disk.
Restart ==
    /\ Spend("crashes", MaxCrashes)
    /\ doc' = Started(disk)
    /\ disk' = Started(disk)
    /\ saves' = <<>>
    /\ pc' = [c \in Callers |-> "idle"]
    /\ todo' = [c \in Callers |-> <<>>]
    /\ snap' = [c \in Callers |-> EmptyDoc]
    /\ key' = [c \in Callers |-> SomeKey]
    /\ phone' = [c \in Callers |-> SomePhone]
    /\ pushed' = {}
    /\ mode' = "seed"
    /\ stale' = NothingRead
    /\ cache' = {}

RequestBegins ==
    \E r \in Requests, k \in Keys :
        \/ \E p \in Phones : AddPhone(r, k, p)
        \/ TrustKeyOverLan(r, k)
        \/ RevokeKeyOverLan(r, k)
RowRemoved == \E r \in Requests, p \in Phones : RemoveRow(r, p)
StoreStep == WriteDone \/ \E c \in Callers : Load(c) \/ Operation(c)
PollerStep ==
    \/ PollerSeed
    \/ ResyncSnapshot
    \/ \E approved \in SUBSET Keys : ResyncAnswered(approved)
    \/ ResyncFails
    \/ ResyncForUnknownKey
    \/ \E k \in Keys : AddTrustedKey(k) \/ RevokeTrustedKey(k)

Next == RequestBegins \/ RowRemoved \/ StoreStep \/ PollerStep \/ Restart

Spec == Init /\ [][Next]_vars
-----------------------------------------------------------------------------
(* Properties. *)

\* A revoked key is never stored as trusted, whichever caller wrote it: not
\* in the document, not on disk, not in a write on its way.  (_write,
\* keystore.py:343-355.)
RevokedNeverTrusted ==
    /\ doc.trusted \cap doc.revoked = {}
    /\ disk.trusted \cap disk.revoked = {}
    /\ \A i \in DOMAIN saves :
           saves[i].doc.trusted \cap saves[i].doc.revoked = {}

\* The poller follows the keystore: whenever it is about to judge a signed
\* command and no write is on its way, it accepts exactly the keys the store
\* trusts, if the store trusts any, whatever order the writes, the resync and
\* the trust commands took.  (subscribe_trust, keystore.py:326-341, and
\* command_poller.py:1203-1216.)
CacheFollowsStore ==
    PollerReady /\ saves = <<>> /\ doc.trusted # {} => cache = doc.trusted

LostInCrash(k) == spent'.crashes # spent.crashes /\ k \notin disk.revoked

\* A revoke is forgotten only by async_trust_key, by a write whose copy was
\* loaded before the revoke was stored, or by a crash before the revoke
\* reached the disk: no other operation, resync or restart drops one.
OnlyTrustOrStaleCopyUnrevokes ==
    [][\A k \in doc.revoked \ doc'.revoked :
          \/ \E c \in Callers :
                /\ pc[c] = "write" /\ pc'[c] = "saving"
                /\ \/ Head(todo[c]) = "trust" /\ key[c] = k
                   \/ k \notin snap[c].revoked
          \/ LostInCrash(k)]_doc

\* What the poller's comment says: "A key revoked over the LAN stays revoked
\* [...] only a LAN pairing the owner approves trusts it again"
\* (command_poller.py:168-170).  A pairing is the only request with a link.
StaysRevoked ==
    [][\A k \in doc.revoked \ doc'.revoked :
          \/ \E c \in Requests :
                At(c, "trust") /\ Len(todo[c]) = 2 /\ key[c] = k
          \/ LostInCrash(k)]_doc

\* A LAN revoke never takes the store from some trusted key to none
\* (LastAdminKey, keystore.py:709-715).
LastAdminKept ==
    [][\A c \in Callers :
          At(c, "revoke") /\ pc'[c] = "saving" /\ doc.trusted # {}
             => doc'.trusted # {}]_doc

\* What the resync's docstring says: "a resync must never be able to disarm a
\* working install" (command_poller.py:1259-1264): its write never takes the
\* store from some trusted key to none.
ResyncNeverDisarms ==
    [][At(Poller, "update") /\ pc'[Poller] = "saving" /\ doc.trusted # {}
          => doc'.trusted # {}]_doc

\* What the resync's comment says of the phones paired over the LAN: "Keep
\* those, or a restart with the cloud copy on takes control away from the
\* phone" (command_poller.py:1296-1299).
ResyncKeepsLanPaired ==
    [][At(Poller, "update") /\ pc'[Poller] = "saving"
          => LanPaired(doc) \subseteq doc'.trusted]_doc

\* What run_loop's comment says of the entry's pairing snapshot: "falling back
\* to the pairing snapshot would resurrect a key the household had
\* deliberately removed" (command_poller.py:1187-1189): a poller about to
\* judge a command, with no write on its way, accepts no revoked key.
NoRevokedKeyAccepted ==
    PollerReady /\ saves = <<>> => cache \cap doc.revoked = {}
=============================================================================
