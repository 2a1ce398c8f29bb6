---------------------------- MODULE Island_proofs ----------------------------
(***************************************************************************)
(* What holds of the keystore for every set of keys, phones, boxes and     *)
(* callers, and every bound; and of the archive of readings for every      *)
(* retention, length of a day and set of timezones.                        *)
(***************************************************************************)
EXTENDS MCIsland, SequenceTheorems, WellFoundedInduction, TLAPS

-----------------------------------------------------------------------------
(* What the operations do to a document. *)

\* Every operation of the keystore makes a document of a document.
LEMMA OperationsMakeDocs ==
    ASSUME NEW d \in Doc, NEW k \in Keys, NEW p \in Phones, NEW K \in SUBSET Keys
    PROVE  /\ AddIslandKey(d, p) \in Doc
           /\ RevokeIslandKey(d, p) \in Doc
           /\ LinkSigningKey(d, k, p) \in Doc
           /\ TrustKey(d, k) \in Doc
           /\ RevokeSigningKey(d, k) \in Doc
           /\ UntrustKey(d, k) \in Doc
           /\ UpdateTrusted(d, K) \in Doc
           /\ SaveIdentity(d, K) \in Doc
           /\ Written(d) \in Doc
<1>1. AddIslandKey(d, p) \in Doc
  BY DEF AddIslandKey, Doc
<1>2. RevokeIslandKey(d, p) \in Doc
  BY DEF RevokeIslandKey, Doc
<1>3. LinkSigningKey(d, k, p) \in Doc
  BY DEF LinkSigningKey, Doc
<1>4. TrustKey(d, k) \in Doc
  <2>1. Adopted(d) \in SUBSET Boxes
    BY DEF Adopted
  <2> QED BY <2>1 DEF TrustKey, Doc
<1>5. RevokeSigningKey(d, k) \in Doc
  BY DEF RevokeSigningKey, Doc
<1>6. UntrustKey(d, k) \in Doc
  BY DEF UntrustKey, Doc
<1>7. UpdateTrusted(d, K) \in Doc
  BY DEF UpdateTrusted, Doc
<1>8. SaveIdentity(d, K) \in Doc
  BY DEF SaveIdentity, Doc
<1>9. Written(d) \in Doc
  BY DEF Written, Doc
<1> QED BY <1>1, <1>2, <1>3, <1>4, <1>5, <1>6, <1>7, <1>8, <1>9

\* _write never hands over a document that trusts a revoked key, and it
\* changes no revoked id.
LEMMA WrittenFilters ==
    ASSUME NEW d \in Doc
    PROVE  /\ Written(d).trusted \cap Written(d).revoked = {}
           /\ Written(d).revoked = d.revoked
BY DEF Written, Doc

LEMMA EmptyDocIsADoc == EmptyDoc \in Doc
<1>1. [k \in Keys |-> None] \in [Keys -> Phones \cup {None}]
  OBVIOUS
<1>2. [b \in Boxes |-> None] \in [Boxes -> BoxEntry \cup {None}]
  OBVIOUS
<1>3. [k \in Keys |-> {}] \in [Keys -> SUBSET Boxes]
  OBVIOUS
<1> QED BY <1>1, <1>2, <1>3 DEF EmptyDoc, Doc

LEMMA SomeArguments == SomeKey \in Keys /\ SomePhone \in Phones
BY TrustStoreAssumption DEF SomeKey, SomePhone

\* What a start hands over is a document that trusts no revoked key.
LEMMA StartedFilters ==
    ASSUME NEW d \in Doc
    PROVE  /\ Started(d) \in Doc
           /\ Started(d).trusted \cap Started(d).revoked = {}
           /\ Started(d).revoked = d.revoked
<1>1. SaveIdentity(d, Paired) \in Doc
  BY OperationsMakeDocs, SomeArguments, TrustStoreAssumption
<1>2. SaveIdentity(d, Paired).revoked = d.revoked
  BY DEF SaveIdentity, Doc
<1> QED BY <1>1, <1>2, OperationsMakeDocs, WrittenFilters, SomeArguments DEF Started

LEMMA FoundAreDocs == Found \subseteq Doc
<1>1. ASSUME NEW k \in Keys, NEW p \in Phones PROVE Joined(k, p) \in Doc
  <2>1. EmptyDoc \in Doc /\ Paired \cup {k} \in SUBSET Keys
    BY EmptyDocIsADoc, TrustStoreAssumption
  <2> QED BY <2>1 DEF Joined, Doc
<1> QED BY <1>1, EmptyDocIsADoc DEF Found

-----------------------------------------------------------------------------
(* Type correctness. *)

LEMMA InitTypeOK == Init => TypeOK
<1> SUFFICES ASSUME Init PROVE TypeOK
  OBVIOUS
<1>1. doc \in Doc
  BY FoundAreDocs, StartedFilters DEF Init
<1>2. [requests |-> 0, polls |-> 0, crashes |-> 0] \in [requests: Nat, polls: Nat, crashes: Nat]
  OBVIOUS
<1> QED BY <1>1, <1>2, EmptyDocIsADoc, SomeArguments DEF Init, TypeOK, NothingRead

\* The parts of TypeOK, by who changes them.
CallersOK ==
    /\ pc \in [Callers -> {"idle", "load", "write", "saving"}]
    /\ todo \in [Callers -> Seq(Operations)]
    /\ snap \in [Callers -> Doc]
    /\ key \in [Callers -> Keys]
    /\ phone \in [Callers -> Phones]
StoreOK == doc \in Doc /\ disk \in Doc /\ saves \in Seq([by: Callers, doc: Doc])
PollerOK ==
    /\ pushed \subseteq Keys
    /\ mode \in {"seed", "resync", "fetch", "ready"}
    /\ stale \in [revoked: SUBSET Keys, lan: SUBSET Keys]
    /\ cache \subseteq Keys
SpentOK == spent \in [requests: Nat, polls: Nat, crashes: Nat]

LEMMA TypeOKParts ==
    /\ TypeOK => CallersOK /\ StoreOK /\ PollerOK /\ SpentOK
    /\ CallersOK' /\ StoreOK' /\ PollerOK' /\ SpentOK' => TypeOK'
BY DEF TypeOK, CallersOK, StoreOK, PollerOK, SpentOK

LEMMA PartsUnchanged ==
    /\ CallersOK /\ UNCHANGED callers => CallersOK'
    /\ StoreOK /\ UNCHANGED store => StoreOK'
    /\ PollerOK /\ UNCHANGED poller => PollerOK'
    /\ SpentOK /\ UNCHANGED spent => SpentOK'
BY DEF CallersOK, StoreOK, PollerOK, SpentOK, callers, store, poller

LEMMA SpendType ==
    ASSUME SpentOK, NEW what \in {"requests", "polls", "crashes"}, NEW max, Spend(what, max)
    PROVE  SpentOK'
BY DEF SpentOK, Spend

LEMMA RunType ==
    ASSUME CallersOK, NEW c \in Callers, NEW ops \in Seq(Operations),
           NEW k \in Keys, NEW p \in Phones, Run(c, ops, k, p)
    PROVE  CallersOK'
BY DEF CallersOK, Run

\* Advance and Return, which leave snap to Reset.
LEMMA AdvanceType ==
    ASSUME CallersOK, NEW c \in Callers, Advance(c) \/ Return(c), snap' \in [Callers -> Doc]
    PROVE  CallersOK'
<1>1. CASE Return(c)
  <2>1. <<>> \in Seq(Operations)
    OBVIOUS
  <2> QED BY <1>1, <2>1, SomeArguments DEF Return, CallersOK
<1>2. CASE Advance(c) /\ Len(todo[c]) > 1
  <2>1. todo[c] \in Seq(Operations) /\ todo[c] # <<>>
    BY <1>2 DEF CallersOK
  <2>2. Tail(todo[c]) \in Seq(Operations)
    BY <2>1
  <2> QED BY <1>2, <2>2 DEF Advance, CallersOK
<1> QED BY <1>1, <1>2 DEF Advance

LEMMA ResetType ==
    ASSUME CallersOK, PollerOK, SpentOK, NEW c \in Callers, Reset(c)
    PROVE  snap' \in [Callers -> Doc] /\ PollerOK' /\ SpentOK'
BY EmptyDocIsADoc DEF Reset, CallersOK, PollerOK, SpentOK

LEMMA SaveType ==
    ASSUME TypeOK, NEW c \in Callers, NEW d \in Doc, Save(c, d)
    PROVE  TypeOK'
<1> USE TypeOKParts
<1>1. Written(d) \in Doc
  BY OperationsMakeDocs, SomeArguments
<1>2. StoreOK'
  BY <1>1 DEF Save, StoreOK
<1>3. snap' \in [Callers -> Doc] /\ PollerOK' /\ SpentOK'
  BY ResetType DEF Save
<1>4. CallersOK'
  BY <1>3 DEF Save, CallersOK
<1> QED BY <1>2, <1>3, <1>4

LEMMA SkipType ==
    ASSUME TypeOK, NEW c \in Callers, Advance(c) \/ Return(c), Reset(c), UNCHANGED store
    PROVE  TypeOK'
BY TypeOKParts, AdvanceType, ResetType, PartsUnchanged

\* A keystore operation either hands over a document or skips to its end.
LEMMA OperationSavesOrSkips ==
    ASSUME TypeOK, NEW c \in Callers, Operation(c)
    PROVE  \/ \E d \in Doc : Save(c, d)
           \/ (Advance(c) \/ Return(c)) /\ Reset(c) /\ UNCHANGED store
<1>1. snap[c] \in Doc /\ key[c] \in Keys /\ phone[c] \in Phones /\ pushed \in SUBSET Keys
  BY DEF TypeOK
<1>2. CASE AsyncAddIslandKey(c)
  BY <1>1, <1>2, OperationsMakeDocs DEF AsyncAddIslandKey
<1>3. CASE AsyncTrustKey(c)
  BY <1>1, <1>3, OperationsMakeDocs DEF AsyncTrustKey
<1>4. CASE AsyncLinkSigningKey(c)
  BY <1>1, <1>4, OperationsMakeDocs DEF AsyncLinkSigningKey, Skip
<1>5. CASE AsyncRevokeSigningKey(c)
  BY <1>1, <1>5, OperationsMakeDocs DEF AsyncRevokeSigningKey, Skip
<1>6. CASE AsyncRevokeIslandKey(c)
  BY <1>1, <1>6, OperationsMakeDocs DEF AsyncRevokeIslandKey, Skip
<1>7. CASE UpdateTrustedKeysHex(c)
  BY <1>1, <1>7, OperationsMakeDocs DEF UpdateTrustedKeysHex
<1>8. CASE AsyncUntrustKey(c)
  BY <1>1, <1>8, OperationsMakeDocs DEF AsyncUntrustKey, Skip
<1>9. CASE CheckNotRevoked(c)
  BY <1>9 DEF CheckNotRevoked
<1> QED BY <1>2, <1>3, <1>4, <1>5, <1>6, <1>7, <1>8, <1>9 DEF Operation

LEMMA LoadType ==
    ASSUME TypeOK, NEW c \in Callers, Load(c)
    PROVE  TypeOK'
<1>1. CallersOK'
  BY DEF TypeOK, Load, CallersOK
<1> QED BY <1>1, PartsUnchanged, TypeOKParts DEF Load

\* The oldest write and those behind it.
LEMMA HeadAndTail ==
    ASSUME NEW S, NEW q \in Seq(S), q # <<>>
    PROVE  /\ Head(q) = q[1] /\ 1 \in DOMAIN q /\ q[1] \in S
           /\ Tail(q) \in Seq(S)
           /\ \A i \in DOMAIN Tail(q) : i + 1 \in DOMAIN q /\ Tail(q)[i] = q[i + 1]
<1>1. Len(q) \in Nat /\ Len(q) >= 1 /\ DOMAIN q = 1 .. Len(q)
  OBVIOUS
<1>2. Head(q) = q[1] /\ 1 \in DOMAIN q /\ q[1] \in S
  BY <1>1
<1>3. Tail(q) \in Seq(S) /\ Len(Tail(q)) = Len(q) - 1
  BY <1>1
<1>4. ASSUME NEW i \in DOMAIN Tail(q)
      PROVE  i + 1 \in DOMAIN q /\ Tail(q)[i] = q[i + 1]
  BY <1>1, <1>3, <1>4
<1> QED BY <1>2, <1>3, <1>4

LEMMA OldestWrite ==
    ASSUME TypeOK, saves # <<>>
    PROVE  /\ Head(saves) = saves[1] /\ 1 \in DOMAIN saves
           /\ saves[1] \in [by: Callers, doc: Doc]
           /\ Tail(saves) \in Seq([by: Callers, doc: Doc])
           /\ \A i \in DOMAIN Tail(saves) :
                 i + 1 \in DOMAIN saves /\ Tail(saves)[i] = saves[i + 1]
<1>1. saves \in Seq([by: Callers, doc: Doc])
  BY DEF TypeOK
<1> QED BY <1>1, HeadAndTail

LEMMA WriteDoneType ==
    ASSUME TypeOK, WriteDone
    PROVE  TypeOK'
<1> DEFINE w == Head(saves)
<1>1. w \in [by: Callers, doc: Doc] /\ Tail(saves) \in Seq([by: Callers, doc: Doc])
  BY OldestWrite DEF WriteDone
<1>2. w.doc.trusted \in SUBSET Keys
  BY <1>1 DEF Doc
<1>3. CallersOK'
  BY <1>1, AdvanceType, TypeOKParts DEF WriteDone, CallersOK
<1>4. StoreOK'
  BY <1>1 DEF TypeOK, WriteDone, StoreOK
<1>5. PollerOK'
  BY <1>2 DEF TypeOK, WriteDone, PollerOK
<1> QED BY <1>3, <1>4, <1>5, PartsUnchanged, TypeOKParts DEF WriteDone

LEMMA BeginType ==
    ASSUME TypeOK, NEW r \in Requests, NEW ops \in Seq(Operations),
           NEW k \in Keys, NEW p \in Phones, Begin(r, ops, k, p)
    PROVE  TypeOK'
<1>1. r \in Callers
  BY DEF Callers
<1>2. CallersOK' /\ SpentOK'
  BY <1>1, RunType, SpendType, TypeOKParts DEF Begin
<1> QED BY <1>2, PartsUnchanged, TypeOKParts DEF Begin

LEMMA RequestType ==
    ASSUME TypeOK, RequestBegins \/ RowRemoved
    PROVE  TypeOK'
<1>1. /\ <<"add_island", "trust", "link">> \in Seq(Operations)
      /\ <<"add_island", "link">> \in Seq(Operations)
      /\ <<"check", "trust">> \in Seq(Operations)
      /\ <<"revoke">> \in Seq(Operations)
      /\ <<"remove_row">> \in Seq(Operations)
  BY DEF Operations
<1>2. ASSUME NEW r \in Requests, NEW k \in Keys, NEW p \in Phones, AddPhone(r, k, p)
      PROVE  TypeOK'
  BY <1>1, <1>2, BeginType DEF AddPhone
<1>3. ASSUME NEW r \in Requests, NEW k \in Keys,
             TrustKeyOverLan(r, k) \/ RevokeKeyOverLan(r, k)
      PROVE  TypeOK'
  BY <1>1, <1>3, BeginType, SomeArguments DEF TrustKeyOverLan, RevokeKeyOverLan
<1>4. ASSUME NEW r \in Requests, NEW p \in Phones, RemoveRow(r, p)
      PROVE  TypeOK'
  BY <1>1, <1>4, BeginType, SomeArguments DEF RemoveRow
<1> QED BY <1>2, <1>3, <1>4 DEF RequestBegins, RowRemoved

LEMMA PollerType ==
    ASSUME TypeOK, PollerStep
    PROVE  TypeOK'
<1> USE TypeOKParts
<1>1. /\ Poller \in Callers /\ SomeKey \in Keys /\ SomePhone \in Phones
      /\ <<"update">> \in Seq(Operations) /\ <<"untrust">> \in Seq(Operations)
  BY SomeArguments DEF Callers, Operations
<1>2. doc.trusted \in SUBSET Keys /\ doc.revoked \in SUBSET Keys /\ cache \in SUBSET Keys
  BY DEF TypeOK, Doc
<1>3. LanPaired(doc) \in SUBSET Keys
  BY <1>2 DEF LanPaired
<1>4. CASE PollerSeed
  <2>1. Seed(doc) \in SUBSET Keys
    BY <1>2, TrustStoreAssumption DEF Seed
  <2>2. PollerOK'
    BY <1>4, <2>1 DEF PollerSeed, PollerOK
  <2> QED BY <1>4, <2>2, PartsUnchanged DEF PollerSeed
<1>5. CASE ResyncSnapshot
  <2>1. PollerOK'
    BY <1>2, <1>3, <1>5 DEF ResyncSnapshot, PollerOK
  <2> QED BY <1>5, <2>1, PartsUnchanged DEF ResyncSnapshot
<1>6. ASSUME NEW approved \in SUBSET Keys, ResyncAnswered(approved)
      PROVE  TypeOK'
  <2>1. NothingRead \in [revoked: SUBSET Keys, lan: SUBSET Keys]
    BY DEF NothingRead
  <2>2. Fetched(approved) \in SUBSET Keys
    BY DEF Fetched, PollerOK
  <2>3. CASE ResyncKeeps(approved)
    <3>1. PollerOK'
      BY <1>6, <2>1, <2>3 DEF ResyncAnswered, ResyncKeeps, PollerOK
    <3> QED BY <1>6, <2>3, <3>1, PartsUnchanged DEF ResyncAnswered, ResyncKeeps
  <2>4. CASE ResyncReplaces(approved)
    <3>1. PollerOK'
      BY <1>6, <2>1, <2>2, <2>4 DEF ResyncAnswered, ResyncReplaces, PollerOK
    <3>2. CallersOK'
      BY <1>1, <2>4, RunType DEF ResyncReplaces
    <3> QED BY <1>6, <2>4, <3>1, <3>2, PartsUnchanged DEF ResyncAnswered, ResyncReplaces
  <2> QED BY <1>6, <2>3, <2>4 DEF ResyncAnswered
<1>7. CASE ResyncFails
  <2>1. PollerOK'
    BY <1>7 DEF ResyncFails, PollerOK, NothingRead
  <2> QED BY <1>7, <2>1, PartsUnchanged DEF ResyncFails
<1>8. CASE ResyncForUnknownKey
  <2>1. PollerOK'
    BY <1>8 DEF ResyncForUnknownKey, PollerOK
  <2> QED BY <1>8, <2>1, PartsUnchanged DEF ResyncForUnknownKey
<1>9. ASSUME NEW k \in Keys, AddTrustedKey(k)
      PROVE  TypeOK'
  <2>1. CallersOK' /\ SpentOK'
    BY <1>1, <1>9, RunType, SpendType DEF AddTrustedKey
  <2>2. PollerOK'
    BY <1>2, <1>9 DEF AddTrustedKey, PollerOK
  <2> QED BY <1>9, <2>1, <2>2, PartsUnchanged DEF AddTrustedKey
<1>10. ASSUME NEW k \in Keys, RevokeTrustedKey(k)
       PROVE  TypeOK'
  <2>1. CallersOK' /\ SpentOK'
    BY <1>1, <1>10, RunType, SpendType DEF RevokeTrustedKey
  <2>2. PollerOK'
    BY <1>2, <1>10 DEF RevokeTrustedKey, PollerOK
  <2> QED BY <1>10, <2>1, <2>2, PartsUnchanged DEF RevokeTrustedKey
<1> QED BY <1>4, <1>5, <1>6, <1>7, <1>8, <1>9, <1>10 DEF PollerStep

LEMMA RestartType ==
    ASSUME TypeOK, Restart
    PROVE  TypeOK'
<1>1. disk \in Doc
  BY DEF TypeOK
<1>2. StoreOK'
  BY <1>1, StartedFilters DEF Restart, StoreOK
<1>3. CallersOK'
  BY EmptyDocIsADoc, SomeArguments DEF Restart, CallersOK
<1>4. PollerOK'
  BY DEF Restart, PollerOK, NothingRead
<1>5. SpentOK'
  BY SpendType, TypeOKParts DEF Restart
<1> QED BY <1>2, <1>3, <1>4, <1>5, TypeOKParts

LEMMA OperationType ==
    ASSUME TypeOK, NEW c \in Callers, Operation(c)
    PROVE  TypeOK'
BY OperationSavesOrSkips, SaveType, SkipType

LEMMA NextTypeOK == TypeOK /\ [Next]_vars => TypeOK'
<1> SUFFICES ASSUME TypeOK, [Next]_vars PROVE TypeOK'
  OBVIOUS
<1>1. CASE RequestBegins \/ RowRemoved
  BY <1>1, RequestType
<1>2. CASE StoreStep
  BY <1>2, WriteDoneType, LoadType, OperationType DEF StoreStep
<1>3. CASE PollerStep
  BY <1>3, PollerType
<1>4. CASE Restart
  BY <1>4, RestartType
<1>5. CASE UNCHANGED vars
  BY <1>5 DEF TypeOK, vars, store, callers, poller
<1> QED BY <1>1, <1>2, <1>3, <1>4, <1>5 DEF Next

\* The keystore document, the writes on their way, every caller's copy and
\* the poller's cache are well formed in every reachable state.
THEOREM TypeCorrect == Spec => []TypeOK
BY InitTypeOK, NextTypeOK, PTL DEF Spec

-----------------------------------------------------------------------------
(* No document trusts a revoked key. *)

\* Whatever a step does to the store, it is one of these.
LEMMA StoreChanges ==
    ASSUME TypeOK, [Next]_vars
    PROVE  \/ UNCHANGED store
           \/ \E c \in Callers, d \in Doc : Save(c, d)
           \/ WriteDone
           \/ Restart
<1>1. CASE RequestBegins \/ RowRemoved
  BY <1>1 DEF RequestBegins, RowRemoved, AddPhone, TrustKeyOverLan, RevokeKeyOverLan,
              RemoveRow, Begin
<1>2. ASSUME NEW c \in Callers, Load(c) \/ Operation(c)
      PROVE  UNCHANGED store \/ \E d \in Doc : Save(c, d)
  BY <1>2, OperationSavesOrSkips DEF Load
<1>3. CASE PollerStep
  BY <1>3 DEF PollerStep, PollerSeed, ResyncSnapshot, ResyncAnswered, ResyncKeeps,
              ResyncReplaces, ResyncFails, ResyncForUnknownKey, AddTrustedKey,
              RevokeTrustedKey
<1>4. CASE UNCHANGED vars
  BY <1>4 DEF vars, store
<1> QED BY <1>1, <1>2, <1>3, <1>4 DEF Next, StoreStep

LEMMA InitRevokedNeverTrusted == Init => RevokedNeverTrusted
<1> SUFFICES ASSUME Init PROVE RevokedNeverTrusted
  OBVIOUS
<1>1. doc.trusted \cap doc.revoked = {}
  BY FoundAreDocs, StartedFilters DEF Init
<1> QED BY <1>1 DEF Init, RevokedNeverTrusted

LEMMA NextRevokedNeverTrusted ==
    TypeOK /\ RevokedNeverTrusted /\ [Next]_vars => RevokedNeverTrusted'
<1> SUFFICES ASSUME TypeOK, RevokedNeverTrusted, [Next]_vars PROVE RevokedNeverTrusted'
  OBVIOUS
<1>1. CASE UNCHANGED store
  BY <1>1 DEF store, RevokedNeverTrusted
\* A document is handed over filtered, and queued behind those on their way.
<1>2. ASSUME NEW c \in Callers, NEW d \in Doc, Save(c, d)
      PROVE  RevokedNeverTrusted'
  <2> DEFINE w == [by |-> c, doc |-> Written(d)]
  <2>1. w.doc.trusted \cap w.doc.revoked = {}
    BY WrittenFilters
  <2>2. saves \in Seq([by: Callers, doc: Doc]) /\ w \in [by: Callers, doc: Doc]
    BY OperationsMakeDocs, SomeArguments DEF TypeOK
  <2>3. \A i \in DOMAIN Append(saves, w) :
           Append(saves, w)[i] = w \/ (i \in DOMAIN saves /\ Append(saves, w)[i] = saves[i])
    BY <2>2
  <2>4. doc' = Written(d) /\ disk' = disk /\ saves' = Append(saves, w)
    BY <1>2 DEF Save
  <2> QED BY <2>1, <2>3, <2>4, WrittenFilters DEF RevokedNeverTrusted
\* The oldest one goes to the disk.
<1>3. CASE WriteDone
  <2>1. /\ doc' = doc /\ saves # <<>>
        /\ disk' = Head(saves).doc /\ saves' = Tail(saves)
    BY <1>3 DEF WriteDone
  <2> QED BY <2>1, OldestWrite DEF RevokedNeverTrusted
\* A start hands over a filtered document.
<1>4. CASE Restart
  <2>1. /\ doc' = Started(disk) /\ disk' = Started(disk) /\ saves' = <<>>
        /\ disk \in Doc
    BY <1>4 DEF Restart, TypeOK
  <2> QED BY <2>1, StartedFilters DEF RevokedNeverTrusted
<1> QED BY <1>1, <1>2, <1>3, <1>4, StoreChanges

\* However many callers interleave their loads and writes, and whenever Home
\* Assistant restarts, no document trusts a revoked key: the filter of _write
\* and of setup is enough, although no caller rechecks anything.
THEOREM RevokedKeysStayOut == Spec => []RevokedNeverTrusted
<1>1. Init => TypeOK /\ RevokedNeverTrusted
  BY InitTypeOK, InitRevokedNeverTrusted
<1>2. TypeOK /\ RevokedNeverTrusted /\ [Next]_vars => (TypeOK /\ RevokedNeverTrusted)'
  BY NextTypeOK, NextRevokedNeverTrusted
<1> QED BY <1>1, <1>2, PTL DEF Spec

-----------------------------------------------------------------------------
(* How a revoke is lost. *)

\* The operations that are not a trust keep the revoked ids of the copy.
LEMMA OperationsKeepRevoked ==
    ASSUME NEW d \in Doc, NEW k \in Keys, NEW p \in Phones, NEW K \in SUBSET Keys
    PROVE  /\ AddIslandKey(d, p).revoked = d.revoked
           /\ RevokeIslandKey(d, p).revoked = d.revoked
           /\ LinkSigningKey(d, k, p).revoked = d.revoked
           /\ RevokeSigningKey(d, k).revoked = d.revoked \cup {k}
           /\ UntrustKey(d, k).revoked = d.revoked \cup {k}
           /\ UpdateTrusted(d, K).revoked = d.revoked
           /\ TrustKey(d, k).revoked = d.revoked \ {k}
BY DEF AddIslandKey, RevokeIslandKey, LinkSigningKey, RevokeSigningKey, UntrustKey,
       UpdateTrusted, TrustKey, Doc

\* The step, as OnlyTrustOrStaleCopyUnrevokes states it.
Unrevoked(k) ==
    \/ \E c \in Callers :
          /\ pc[c] = "write" /\ pc'[c] = "saving"
          /\ \/ Head(todo[c]) = "trust" /\ key[c] = k
             \/ k \notin snap[c].revoked
    \/ LostInCrash(k)

LEMMA SavedRevoked ==
    ASSUME TypeOK, NEW c \in Callers, NEW d \in Doc, Save(c, d)
    PROVE  doc'.revoked = d.revoked /\ pc'[c] = "saving"
BY WrittenFilters DEF Save, TypeOK

LEMMA OperationUnrevokes ==
    ASSUME TypeOK, NEW c \in Callers, Operation(c), NEW k \in doc.revoked \ doc'.revoked
    PROVE  Unrevoked(k)
<1> DEFINE d == snap[c]  kc == key[c]  pn == phone[c]
<1>1. d \in Doc /\ kc \in Keys /\ pn \in Phones /\ pushed \in SUBSET Keys
  BY DEF TypeOK
<1> HIDE DEF d, kc, pn
<1>2. /\ AddIslandKey(d, pn) \in Doc /\ AddIslandKey(d, pn).revoked = d.revoked
      /\ RevokeIslandKey(d, pn) \in Doc /\ RevokeIslandKey(d, pn).revoked = d.revoked
      /\ LinkSigningKey(d, kc, pn) \in Doc /\ LinkSigningKey(d, kc, pn).revoked = d.revoked
      /\ RevokeSigningKey(d, kc) \in Doc /\ d.revoked \subseteq RevokeSigningKey(d, kc).revoked
      /\ UntrustKey(d, kc) \in Doc /\ d.revoked \subseteq UntrustKey(d, kc).revoked
      /\ UpdateTrusted(d, pushed) \in Doc /\ UpdateTrusted(d, pushed).revoked = d.revoked
  <2>1. d.revoked \subseteq d.revoked \cup {kc}
    OBVIOUS
  <2> QED BY <1>1, <2>1, OperationsMakeDocs, OperationsKeepRevoked
<1>3. ASSUME NEW new \in Doc, Save(c, new), pc[c] = "write", d.revoked \subseteq new.revoked
      PROVE  Unrevoked(k)
  <2>1. doc'.revoked = new.revoked /\ pc'[c] = "saving"
    BY <1>3, SavedRevoked
  <2> QED BY <1>3, <2>1 DEF Unrevoked, d
<1>4. ~UNCHANGED store
  BY DEF store
<1>5. CASE AsyncAddIslandKey(c)
  BY <1>2, <1>3, <1>5 DEF AsyncAddIslandKey, At, d, pn
<1>6. CASE AsyncTrustKey(c)
  <2>1. TrustKey(d, kc) \in Doc /\ TrustKey(d, kc).revoked = d.revoked \ {kc}
    BY <1>1, OperationsMakeDocs, OperationsKeepRevoked
  <2>2. At(c, "trust") /\ Save(c, TrustKey(d, kc))
    BY <1>6 DEF AsyncTrustKey, d, kc
  <2>3. doc'.revoked = d.revoked \ {kc} /\ pc'[c] = "saving"
    BY <2>1, <2>2, SavedRevoked
  <2> QED BY <2>2, <2>3 DEF At, Unrevoked, d, kc
<1>7. CASE AsyncLinkSigningKey(c)
  BY <1>2, <1>3, <1>4, <1>7 DEF AsyncLinkSigningKey, Skip, At, d, kc, pn
<1>8. CASE AsyncRevokeSigningKey(c)
  BY <1>2, <1>3, <1>4, <1>8 DEF AsyncRevokeSigningKey, Skip, At, d, kc
<1>9. CASE AsyncRevokeIslandKey(c)
  BY <1>2, <1>3, <1>4, <1>9 DEF AsyncRevokeIslandKey, Skip, At, d, pn
<1>10. CASE UpdateTrustedKeysHex(c)
  BY <1>2, <1>3, <1>10 DEF UpdateTrustedKeysHex, At, d
<1>11. CASE AsyncUntrustKey(c)
  BY <1>2, <1>3, <1>4, <1>11 DEF AsyncUntrustKey, Skip, At, d, kc
<1>12. CASE CheckNotRevoked(c)
  BY <1>4, <1>12 DEF CheckNotRevoked
<1> QED BY <1>5, <1>6, <1>7, <1>8, <1>9, <1>10, <1>11, <1>12 DEF Operation

LEMMA StepUnrevokes ==
    ASSUME TypeOK, [Next]_vars, NEW k \in doc.revoked \ doc'.revoked
    PROVE  Unrevoked(k)
<1>1. doc' # doc
  OBVIOUS
<1>2. CASE \E c \in Callers : Operation(c)
  BY <1>2, OperationUnrevokes
<1>3. CASE Restart
  <2>1. doc'.revoked = disk.revoked
    BY <1>3, StartedFilters DEF Restart, TypeOK
  <2>2. spent'.crashes = spent.crashes + 1 /\ spent.crashes \in Nat
    BY <1>3 DEF Restart, Spend, TypeOK
  <2>3. spent'.crashes # spent.crashes
    BY <2>2
  <2> QED BY <2>1, <2>3 DEF Unrevoked, LostInCrash
<1>4. CASE WriteDone \/ \E c \in Callers : Load(c)
  BY <1>1, <1>4 DEF WriteDone, Load, store
<1>5. CASE RequestBegins \/ RowRemoved
  BY <1>1, <1>5 DEF RequestBegins, RowRemoved, AddPhone, TrustKeyOverLan,
                    RevokeKeyOverLan, RemoveRow, Begin, store
<1>6. CASE PollerStep
  BY <1>1, <1>6 DEF PollerStep, PollerSeed, ResyncSnapshot, ResyncAnswered, ResyncKeeps,
                    ResyncReplaces, ResyncFails, ResyncForUnknownKey, AddTrustedKey,
                    RevokeTrustedKey, store
<1>7. CASE UNCHANGED vars
  BY <1>1, <1>7 DEF vars
<1> QED BY <1>2, <1>3, <1>4, <1>5, <1>6, <1>7 DEF Next, StoreStep

\* A revoke is lost only to an approved trust, to a copy loaded before it, or
\* to a crash before it reached the disk: this bounds the damage of the
\* keystore's missing lock, for any number of callers.
THEOREM RevokesAreKept == Spec => OnlyTrustOrStaleCopyUnrevokes
<1>1. TypeOK /\ [Next]_vars
        => [\A k \in doc.revoked \ doc'.revoked : Unrevoked(k)]_doc
  BY StepUnrevokes
<1> QED BY <1>1, TypeCorrect, PTL DEF Spec, OnlyTrustOrStaleCopyUnrevokes, Unrevoked

-----------------------------------------------------------------------------
(* The poller follows the store. *)

\* The last write on its way is the document.  The poller runs operations of one
\* step, and none while it starts or asks the cloud.  With no write on its way
\* its cache is the trusted set, less the key of a revoke it has yet to store;
\* a copy from which it will conclude that there is nothing to store is the
\* document still.
NewestIsDoc == saves # <<>> => saves[Len(saves)].doc = doc
OneOperation ==
    /\ todo[Poller] \in {<<>>, <<"update">>, <<"untrust">>}
    /\ pc[Poller] \in {"load", "write"} => todo[Poller] # <<>>
    /\ mode # "ready" => pc[Poller] = "idle"
Follows ==
    mode # "seed" /\ saves = <<>> /\ doc.trusted # {} =>
        /\ pc[Poller] = "idle" => cache = doc.trusted
        /\ pc[Poller] = "load" /\ todo[Poller] = <<"untrust">> =>
              cache \in {doc.trusted, doc.trusted \ {key[Poller]}}
        /\ pc[Poller] = "write" /\ todo[Poller] = <<"untrust">> =>
              \/ cache = doc.trusted
              \/ cache = doc.trusted \ {key[Poller]} /\ snap[Poller] = doc
FollowInv == NewestIsDoc /\ OneOperation /\ Follows

LEMMA InitFollowInv == Init => FollowInv
BY DEF Init, FollowInv, NewestIsDoc, OneOperation, Follows, Callers

\* Steps of others that write nothing.
PollerRests ==
    /\ UNCHANGED <<store, mode, cache>>
    /\ pc'[Poller] = pc[Poller] /\ todo'[Poller] = todo[Poller]
    /\ key'[Poller] = key[Poller] /\ snap'[Poller] = snap[Poller]
LEMMA RestsFollowInv == FollowInv /\ PollerRests => FollowInv'
BY DEF FollowInv, NewestIsDoc, OneOperation, Follows, PollerRests, store

LEMMA OthersRest ==
    ASSUME TypeOK, NEW c \in Callers, c # Poller,
           \/ (Advance(c) \/ Return(c)) /\ Reset(c)
           \/ UNCHANGED <<mode, cache>> /\ Load(c)
           \/ UNCHANGED <<mode, cache>> /\ \E ops \in Seq(Operations), k \in Keys, p \in Phones : Run(c, ops, k, p),
           UNCHANGED store
    PROVE  PollerRests
BY DEF TypeOK, PollerRests, Advance, Return, Reset, Load, Run, Callers

LEMMA SaveFollowInv ==
    ASSUME TypeOK, FollowInv, NEW c \in Callers, NEW d \in Doc, pc[c] = "write", Save(c, d)
    PROVE  FollowInv'
<1> DEFINE w == [by |-> c, doc |-> Written(d)]
<1>1. w \in [by: Callers, doc: Doc] /\ saves \in Seq([by: Callers, doc: Doc])
  BY OperationsMakeDocs, SomeArguments DEF TypeOK
<1> HIDE DEF w
<1>2. /\ Append(saves, w) # <<>> /\ Len(Append(saves, w)) = Len(saves) + 1
      /\ Append(saves, w)[Len(saves) + 1] = w
  BY <1>1
<1>3. saves' = Append(saves, w) /\ doc' = w.doc
  BY DEF Save, w
<1>4. NewestIsDoc' /\ saves' # <<>>
  BY <1>2, <1>3 DEF NewestIsDoc
<1>5. OneOperation'
  <2>1. todo' = todo /\ mode' = mode /\ pc' = [pc EXCEPT ![c] = "saving"]
    BY DEF Save, Reset
  <2> QED BY <2>1 DEF FollowInv, OneOperation, TypeOK, Callers
<1> QED BY <1>4, <1>5 DEF FollowInv, Follows

LEMMA LoadFollowInv ==
    ASSUME TypeOK, FollowInv, NEW c \in Callers, Load(c)
    PROVE  FollowInv'
<1>1. CASE c # Poller
  <2>1. PollerRests
    BY <1>1, OthersRest DEF Load, poller
  <2> QED BY <2>1, RestsFollowInv
<1>2. CASE c = Poller
  <2>1. /\ pc[Poller] = "load" /\ pc'[Poller] = "write"
        /\ snap'[Poller] = doc /\ UNCHANGED <<store, todo, key, mode, cache>>
    BY <1>2 DEF Load, TypeOK, poller
  <2>2. NewestIsDoc' /\ OneOperation'
    BY <2>1 DEF FollowInv, NewestIsDoc, OneOperation, store
  <2>3. Follows'
    BY <2>1 DEF FollowInv, Follows, store
  <2> QED BY <2>2, <2>3 DEF FollowInv
<1> QED BY <1>1, <1>2

\* The poller's own operation writes, or is an untrust of a key that its copy
\* does not trust.
LEMMA PollerOperation ==
    ASSUME TypeOK, OneOperation, Operation(Poller)
    PROVE  \/ \E d \in Doc : Save(Poller, d)
           \/ /\ todo[Poller] = <<"untrust">> /\ key[Poller] \notin snap[Poller].trusted
              /\ Return(Poller) /\ Reset(Poller) /\ UNCHANGED store
<1>1. Poller \in Callers
  BY DEF Callers
<1>2. pc[Poller] = "write"
  BY DEF Operation, At, AsyncAddIslandKey, AsyncTrustKey, AsyncLinkSigningKey,
         AsyncRevokeSigningKey, AsyncRevokeIslandKey, UpdateTrustedKeysHex,
         AsyncUntrustKey, CheckNotRevoked
<1>3. todo[Poller] = <<"update">> \/ todo[Poller] = <<"untrust">>
  BY <1>2 DEF OneOperation
<1>4. Head(todo[Poller]) \in {"update", "untrust"} /\ Len(todo[Poller]) = 1
  BY <1>3
<1>5. snap[Poller] \in Doc /\ key[Poller] \in Keys /\ phone[Poller] \in Phones
      /\ pushed \in SUBSET Keys
  BY <1>1 DEF TypeOK
<1>6. UpdateTrustedKeysHex(Poller) \/ AsyncUntrustKey(Poller)
  BY <1>4 DEF Operation, At, AsyncAddIslandKey, AsyncTrustKey, AsyncLinkSigningKey,
              AsyncRevokeSigningKey, AsyncRevokeIslandKey, CheckNotRevoked
<1>7. CASE UpdateTrustedKeysHex(Poller)
  BY <1>5, <1>7, OperationsMakeDocs DEF UpdateTrustedKeysHex
<1>8. CASE AsyncUntrustKey(Poller)
  <2>1. Head(todo[Poller]) = "untrust"
    BY <1>8 DEF AsyncUntrustKey, At
  <2>2. todo[Poller] = <<"untrust">>
    BY <1>3, <2>1
  <2>3. CASE UntrustWrites(snap[Poller], key[Poller])
    BY <1>5, <1>8, <2>3, OperationsMakeDocs DEF AsyncUntrustKey
  <2>4. CASE ~UntrustWrites(snap[Poller], key[Poller])
    BY <1>4, <1>8, <2>2, <2>4 DEF AsyncUntrustKey, UntrustWrites, Skip, Advance
  <2> QED BY <2>3, <2>4
<1> QED BY <1>6, <1>7, <1>8

LEMMA OperationFollowInv ==
    ASSUME TypeOK, FollowInv, NEW c \in Callers, Operation(c)
    PROVE  FollowInv'
<1>1. pc[c] = "write"
  BY DEF Operation, At, AsyncAddIslandKey, AsyncTrustKey, AsyncLinkSigningKey,
         AsyncRevokeSigningKey, AsyncRevokeIslandKey, UpdateTrustedKeysHex,
         AsyncUntrustKey, CheckNotRevoked
<1>2. CASE \E d \in Doc : Save(c, d)
  BY <1>1, <1>2, SaveFollowInv
<1>3. CASE c # Poller /\ (Advance(c) \/ Return(c)) /\ Reset(c) /\ UNCHANGED store
  <2>1. PollerRests
    BY <1>3, OthersRest
  <2> QED BY <2>1, RestsFollowInv
<1>4. CASE c = Poller /\ ~ \E d \in Doc : Save(c, d)
  <2>1. /\ todo[Poller] = <<"untrust">> /\ key[Poller] \notin snap[Poller].trusted
        /\ Return(Poller) /\ Reset(Poller) /\ UNCHANGED store
    BY <1>4, PollerOperation DEF FollowInv
  <2>2. /\ pc'[Poller] = "idle" /\ todo'[Poller] = <<>> /\ UNCHANGED <<store, mode, cache>>
    BY <2>1 DEF Return, Reset, TypeOK, Callers
  <2>3. NewestIsDoc' /\ OneOperation'
    BY <2>2 DEF FollowInv, NewestIsDoc, OneOperation, store
  <2>4. ASSUME mode # "seed", saves = <<>>, doc.trusted # {} PROVE cache = doc.trusted
    BY <1>1, <1>4, <2>1, <2>4 DEF FollowInv, Follows
  <2>5. Follows'
    BY <2>2, <2>4 DEF Follows, store
  <2> QED BY <2>3, <2>5 DEF FollowInv
<1> QED BY <1>2, <1>3, <1>4, OperationSavesOrSkips

\* What remains when the oldest entry of a sequence is taken off.
LEMMA LastOfTail ==
    ASSUME NEW S, NEW s \in Seq(S), s # <<>>
    PROVE  /\ Tail(s) \in Seq(S) /\ Len(s) >= 1
           /\ Tail(s) = <<>> => Len(s) = 1
           /\ Tail(s) # <<>> => Tail(s)[Len(Tail(s))] = s[Len(s)]
<1>1. Len(s) \in Nat /\ Len(s) # 0
  BY EmptySeq
<1>2. Tail(s) \in Seq(S) /\ Len(Tail(s)) = Len(s) - 1
  BY HeadTailProperties
<1>3. Tail(s) # <<>> => Len(Tail(s)) # 0
  BY <1>2, EmptySeq
<1>4. \A i \in 1..Len(Tail(s)) : Tail(s)[i] = s[i + 1]
  BY HeadTailProperties
<1> QED BY <1>1, <1>2, <1>3, <1>4

LEMMA WriteDoneFollowInv ==
    ASSUME TypeOK, FollowInv, WriteDone
    PROVE  FollowInv'
<1> DEFINE w == Head(saves)
<1>1. /\ w = saves[1] /\ w.by \in Callers /\ Tail(saves) \in Seq([by: Callers, doc: Doc])
      /\ saves \in Seq([by: Callers, doc: Doc]) /\ saves # <<>>
  BY OldestWrite DEF WriteDone, TypeOK
<1>2. /\ doc' = doc /\ mode' = mode /\ saves' = Tail(saves)
      /\ mode # "seed" => cache' = w.doc.trusted
      /\ Advance(w.by)
  BY DEF WriteDone
<1> HIDE DEF w
<1>3. /\ Tail(saves) = <<>> => Len(saves) = 1
      /\ Tail(saves) # <<>> => Tail(saves)[Len(Tail(saves))] = saves[Len(saves)]
  BY <1>1, LastOfTail
<1>4. NewestIsDoc'
  BY <1>1, <1>2, <1>3 DEF FollowInv, NewestIsDoc
<1>5. OneOperation'
  <2>1. Len(todo[Poller]) \in {0, 1}
    BY DEF FollowInv, OneOperation
  <2>2. CASE w.by = Poller
    <3>1. pc'[Poller] = "idle" /\ todo'[Poller] = <<>>
      BY <1>2, <2>1, <2>2 DEF Advance, Return, TypeOK, Callers
    <3> QED BY <3>1 DEF OneOperation
  <2>3. CASE w.by # Poller
    <3>1. pc'[Poller] = pc[Poller] /\ todo'[Poller] = todo[Poller]
      BY <1>1, <1>2, <2>3 DEF Advance, Return, TypeOK, Callers
    <3> QED BY <1>2, <3>1 DEF FollowInv, OneOperation
  <2> QED BY <2>2, <2>3
<1>6. ASSUME mode # "seed", Tail(saves) = <<>> PROVE cache' = doc.trusted
  BY <1>1, <1>2, <1>3, <1>6 DEF FollowInv, NewestIsDoc
<1>7. Follows'
  BY <1>2, <1>6 DEF Follows
<1> QED BY <1>4, <1>5, <1>7 DEF FollowInv

LEMMA RequestFollowInv ==
    ASSUME TypeOK, FollowInv, RequestBegins \/ RowRemoved
    PROVE  FollowInv'
<1>1. ASSUME NEW r \in Requests, NEW ops, NEW k, NEW p, Begin(r, ops, k, p)
      PROVE  PollerRests
  BY <1>1, TrustStoreAssumption DEF Begin, Run, PollerRests, poller, TypeOK, Callers
<1>2. PollerRests
  BY <1>1 DEF RequestBegins, RowRemoved, AddPhone, TrustKeyOverLan, RevokeKeyOverLan,
              RemoveRow
<1> QED BY <1>2, RestsFollowInv

LEMMA PollerFollowInv ==
    ASSUME TypeOK, FollowInv, PollerStep
    PROVE  FollowInv'
<1> USE DEF FollowInv
<1>1. Poller \in Callers
  BY DEF Callers
<1>2. CASE PollerSeed
  <2>1. pc[Poller] = "idle" /\ UNCHANGED <<store, callers>> /\ mode' = "resync" /\ cache' = Seed(doc)
    BY <1>2 DEF PollerSeed, OneOperation
  <2> QED BY <2>1 DEF NewestIsDoc, OneOperation, Follows, Seed, store, callers
<1>3. CASE ResyncSnapshot \/ ResyncFails
  <2>1. /\ pc[Poller] = "idle" /\ UNCHANGED <<store, callers, cache>>
        /\ mode # "seed" /\ mode' # "seed"
    BY <1>3 DEF ResyncSnapshot, ResyncFails, OneOperation
  <2> QED BY <2>1 DEF NewestIsDoc, OneOperation, Follows, store, callers
<1>4. CASE ResyncForUnknownKey
  BY <1>4 DEF ResyncForUnknownKey, PollerReady, NewestIsDoc, OneOperation, Follows, store, callers
\* The three that start an operation: an update owes the cache a write.
<1>5. ASSUME NEW k, NEW p, Run(Poller, <<"update">>, k, p), UNCHANGED store, mode' = "ready"
      PROVE  FollowInv'
  <2>1. pc'[Poller] = "load" /\ todo'[Poller] = <<"update">>
    BY <1>1, <1>5 DEF Run, TypeOK
  <2> QED BY <1>5, <2>1 DEF NewestIsDoc, OneOperation, Follows, store
<1>6. ASSUME NEW approved \in SUBSET Keys, ResyncAnswered(approved)
      PROVE  FollowInv'
  <2>1. CASE ResyncKeeps(approved)
    <3>1. /\ pc[Poller] = "idle" /\ UNCHANGED <<store, callers, cache>>
          /\ mode # "seed" /\ mode' = "ready"
      BY <1>6, <2>1 DEF ResyncAnswered, ResyncKeeps, OneOperation
    <3> QED BY <3>1 DEF NewestIsDoc, OneOperation, Follows, store, callers
  <2>2. CASE ResyncReplaces(approved)
    BY <1>5, <1>6, <2>2 DEF ResyncAnswered, ResyncReplaces
  <2> QED BY <1>6, <2>1, <2>2 DEF ResyncAnswered
<1>7. ASSUME NEW k \in Keys, AddTrustedKey(k)
      PROVE  FollowInv'
  BY <1>5, <1>7 DEF AddTrustedKey, PollerReady
<1>8. ASSUME NEW k \in Keys, RevokeTrustedKey(k)
      PROVE  FollowInv'
  <2>1. /\ pc[Poller] = "idle" /\ mode = "ready" /\ UNCHANGED <<store, mode>>
        /\ cache' = cache \ {k} /\ key'[Poller] = k
        /\ pc'[Poller] = "load" /\ todo'[Poller] = <<"untrust">>
    BY <1>1, <1>8 DEF RevokeTrustedKey, PollerReady, Run, TypeOK
  <2> QED BY <2>1 DEF NewestIsDoc, OneOperation, Follows, store
<1> QED BY <1>2, <1>3, <1>4, <1>6, <1>7, <1>8 DEF PollerStep

LEMMA NextFollowInv == TypeOK /\ FollowInv /\ [Next]_vars => FollowInv'
<1> SUFFICES ASSUME TypeOK, FollowInv, [Next]_vars PROVE FollowInv'
  OBVIOUS
<1>1. CASE RequestBegins \/ RowRemoved
  BY <1>1, RequestFollowInv
<1>2. CASE StoreStep
  BY <1>2, WriteDoneFollowInv, LoadFollowInv, OperationFollowInv DEF StoreStep
<1>3. CASE PollerStep
  BY <1>3, PollerFollowInv
<1>4. CASE Restart
  BY <1>4 DEF Restart, FollowInv, NewestIsDoc, OneOperation, Follows, Callers
<1>5. CASE UNCHANGED vars
  BY <1>5, RestsFollowInv DEF vars, PollerRests, store
<1> QED BY <1>1, <1>2, <1>3, <1>4, <1>5 DEF Next

\* The poller's copy cannot drift from the store: whatever LAN requests, resyncs
\* and trust commands interleave their loads and writes, a poller about to judge
\* a signed command accepts exactly the keys that are stored as trusted.
THEOREM PollerFollows == Spec => []CacheFollowsStore
<1>1. FollowInv => CacheFollowsStore
  BY DEF FollowInv, Follows, CacheFollowsStore, PollerReady
<1> QED BY <1>1, InitTypeOK, NextTypeOK, InitFollowInv, NextFollowInv, PTL DEF Spec

-----------------------------------------------------------------------------
(* An island keeps an admin. *)

\* Where no poller runs and the entry was paired with some key, every document,
\* those on their way and those a caller holds a copy of included, trusts one.
Armed(d) == d.trusted # {}
LanOperations == Operations \ {"update", "untrust"}
ArmedInv ==
    /\ mode = "seed"
    /\ Armed(doc) /\ Armed(disk)
    /\ \A i \in DOMAIN saves : Armed(saves[i].doc)
    /\ \A c \in Callers :
          /\ todo[c] \in Seq(LanOperations)
          /\ pc[c] \in {"load", "write"} => todo[c] # <<>>
          /\ pc[c] = "write" =>
                Armed(snap[c]) /\ snap[c].trusted \cap snap[c].revoked = {}

LEMMA StartedArmed ==
    ASSUME NEW d \in Doc, d.trusted \cap d.revoked = {}, Paired # {},
           Armed(d) \/ d.revoked = {}
    PROVE  Armed(Started(d))
<1>1. /\ Started(d).trusted = SaveIdentity(d, Paired).trusted \ d.revoked
      /\ SaveIdentity(d, Paired).trusted = IF d.trusted # {} THEN d.trusted ELSE Paired
  BY DEF Started, Written, SaveIdentity, Doc
<1> QED BY <1>1 DEF Armed

LEMMA InitArmedInv == Paired # {} /\ Init => ArmedInv
<1> SUFFICES ASSUME Paired # {}, Init PROVE ArmedInv
  OBVIOUS
<1>1. ASSUME NEW d \in Found PROVE d.revoked = {} /\ d.trusted \cap d.revoked = {}
  <2>1. EmptyDoc.revoked = {}
    BY DEF EmptyDoc
  <2>2. ASSUME NEW k \in Keys, NEW p \in Phones PROVE Joined(k, p).revoked = {}
    BY EmptyDocIsADoc, <2>1 DEF Joined, Doc
  <2>3. d.revoked = {}
    BY <1>1, <2>1, <2>2 DEF Found
  <2> QED BY <2>3
<1>2. Armed(doc)
  BY <1>1, FoundAreDocs, StartedArmed DEF Init
<1> QED BY <1>2 DEF Init, ArmedInv

LEMMA SaveChanges ==
    ASSUME TypeOK, NEW c, NEW d, Save(c, d)
    PROVE  ~UNCHANGED store
<1>1. saves \in Seq([by: Callers, doc: Doc])
  BY DEF TypeOK
<1>2. \A w : Append(saves, w) # saves
  BY <1>1
<1> QED BY <1>2 DEF Save, store

\* What a LAN request hands over.
LEMMA OperationArmed ==
    ASSUME TypeOK, ArmedInv, NEW c \in Callers, NEW d \in Doc, Operation(c), Save(c, d)
    PROVE  Armed(Written(d))
<1> DEFINE s == snap[c]  k == key[c]  p == phone[c]
<1>1. s \in Doc /\ k \in Keys /\ p \in Phones
  BY DEF TypeOK
<1>2. pc[c] = "write"
  BY DEF Operation, At, AsyncAddIslandKey, AsyncTrustKey, AsyncLinkSigningKey,
         AsyncRevokeSigningKey, AsyncRevokeIslandKey, UpdateTrustedKeysHex,
         AsyncUntrustKey, CheckNotRevoked
<1>3. Armed(s) /\ s.trusted \cap s.revoked = {}
  BY <1>2 DEF ArmedInv
<1>4. Head(todo[c]) \in LanOperations
  BY <1>2 DEF ArmedInv
<1> HIDE DEF s, k, p
<1>5. ASSUME NEW e \in Doc, Save(c, e), Armed(Written(e)) PROVE Armed(Written(d))
  BY <1>5 DEF Save
<1>6. ASSUME NEW e \in Doc, e.trusted = s.trusted, e.revoked = s.revoked
      PROVE  Armed(Written(e))
  BY <1>3, <1>6 DEF Armed, Written, Doc
<1>7. CASE AsyncAddIslandKey(c)
  <2>1. AddIslandKey(s, p) \in Doc /\ AddIslandKey(s, p).trusted = s.trusted
        /\ AddIslandKey(s, p).revoked = s.revoked
    BY <1>1 DEF AddIslandKey, Doc
  <2> QED BY <1>5, <1>6, <1>7, <2>1 DEF AsyncAddIslandKey, s, p
<1>8. CASE AsyncTrustKey(c)
  <2>1. TrustKey(s, k) \in Doc
    BY <1>1, OperationsMakeDocs
  <2>2. k \in TrustKey(s, k).trusted /\ k \notin TrustKey(s, k).revoked
    BY <1>1 DEF TrustKey, Doc
  <2>3. Armed(Written(TrustKey(s, k)))
    BY <2>1, <2>2 DEF Armed, Written, Doc
  <2> QED BY <1>5, <1>8, <2>1, <2>3 DEF AsyncTrustKey, s, k
<1>9. CASE AsyncLinkSigningKey(c)
  <2>1. LinkSigningKey(s, k, p) \in Doc /\ LinkSigningKey(s, k, p).trusted = s.trusted
        /\ LinkSigningKey(s, k, p).revoked = s.revoked
    BY <1>1 DEF LinkSigningKey, Doc
  <2>2. Save(c, LinkSigningKey(s, k, p))
    BY <1>2, <1>9, SaveChanges DEF AsyncLinkSigningKey, Skip, s, k, p
  <2> QED BY <1>5, <1>6, <2>1, <2>2
<1>10. CASE AsyncRevokeSigningKey(c)
  <2>1. RevokeSigningKey(s, k) \in Doc
    BY <1>1, OperationsMakeDocs
  <2>2. /\ RevokeSigningKey(s, k).trusted = s.trusted \ {k}
        /\ RevokeSigningKey(s, k).revoked = s.revoked \cup {k}
    BY <1>1 DEF RevokeSigningKey, Doc
  <2>3. Save(c, RevokeSigningKey(s, k)) /\ ~LastAdminKey(s, k)
    BY <1>10, SaveChanges DEF AsyncRevokeSigningKey, Skip, s, k
  <2>4. \E other \in s.trusted : other # k
    BY <1>3, <2>3 DEF Armed, LastAdminKey
  <2>5. Armed(Written(RevokeSigningKey(s, k)))
    BY <1>3, <2>1, <2>2, <2>4 DEF Armed, Written, Doc
  <2> QED BY <1>5, <2>1, <2>3, <2>5
<1>11. CASE AsyncRevokeIslandKey(c)
  <2>1. RevokeIslandKey(s, p) \in Doc /\ RevokeIslandKey(s, p).trusted = s.trusted
        /\ RevokeIslandKey(s, p).revoked = s.revoked
    BY <1>1 DEF RevokeIslandKey, Doc
  <2>2. Save(c, RevokeIslandKey(s, p))
    BY <1>11, SaveChanges DEF AsyncRevokeIslandKey, Skip, s, p
  <2> QED BY <1>5, <1>6, <2>1, <2>2
<1>12. CASE CheckNotRevoked(c)
  BY <1>12, SaveChanges DEF CheckNotRevoked
<1> QED BY <1>4, <1>7, <1>8, <1>9, <1>10, <1>11, <1>12
     DEF Operation, UpdateTrustedKeysHex, AsyncUntrustKey, At, LanOperations

\* The parts of ArmedInv that a step of one caller can disturb.
CallerArmed(c) ==
    /\ todo[c] \in Seq(LanOperations)
    /\ pc[c] \in {"load", "write"} => todo[c] # <<>>
    /\ pc[c] = "write" => Armed(snap[c]) /\ snap[c].trusted \cap snap[c].revoked = {}

LEMMA AdvanceArmed ==
    ASSUME TypeOK, ArmedInv, NEW c \in Callers, Advance(c) \/ Return(c)
    PROVE  /\ pc'[c] # "write" /\ todo'[c] \in Seq(LanOperations)
           /\ pc'[c] = "load" => todo'[c] # <<>>
           /\ \A other \in Callers \ {c} : pc'[other] = pc[other] /\ todo'[other] = todo[other]
<1>1. todo[c] \in Seq(LanOperations)
  BY DEF ArmedInv
<1>2. CASE Return(c)
  BY <1>2 DEF Return, TypeOK
<1>3. CASE Len(todo[c]) > 1 /\ Advance(c)
  <2>1. Tail(todo[c]) \in Seq(LanOperations) /\ Tail(todo[c]) # <<>>
    <3>1. todo[c] # <<>>
      BY <1>3, Len(<<>>) = 0
    <3>2. Tail(todo[c]) \in Seq(LanOperations) /\ (Tail(todo[c]) = <<>> => Len(todo[c]) = 1)
      BY <1>1, <3>1, LastOfTail, Zenon
    <3>3. ASSUME Tail(todo[c]) = <<>> PROVE FALSE
      <4>1. Len(todo[c]) = 1
        BY <3>2, <3>3, Zenon
      <4> QED BY <1>3, <4>1
    <3> QED BY <3>2, <3>3, Zenon
  <2> QED BY <1>3, <2>1 DEF Advance, TypeOK
<1> QED BY <1>2, <1>3 DEF Advance

LEMMA NextArmedInv ==
    ~CloudChannel /\ TypeOK /\ RevokedNeverTrusted /\ ArmedInv /\ Paired # {} /\ [Next]_vars
        => ArmedInv'
<1> SUFFICES ASSUME ~CloudChannel, TypeOK, RevokedNeverTrusted, ArmedInv, Paired # {}, [Next]_vars
             PROVE  ArmedInv'
  OBVIOUS
<1> USE DEF CallerArmed
<1>1. \A c \in Callers : CallerArmed(c)
  BY DEF ArmedInv
<1>2. ASSUME UNCHANGED <<store, mode>>, \A c \in Callers : CallerArmed(c)'
      PROVE  ArmedInv'
  BY <1>2 DEF ArmedInv, store
\* A request starts on LAN operations.
<1>3. CASE RequestBegins \/ RowRemoved
  <2>1. /\ <<"add_island", "trust", "link">> \in Seq(LanOperations)
        /\ <<"add_island", "link">> \in Seq(LanOperations)
        /\ <<"check", "trust">> \in Seq(LanOperations)
        /\ <<"revoke">> \in Seq(LanOperations)
        /\ <<"remove_row">> \in Seq(LanOperations)
    BY DEF Operations, LanOperations
  <2>2. ASSUME NEW r \in Requests, NEW ops \in Seq(LanOperations), ops # <<>>, NEW k, NEW p,
               Begin(r, ops, k, p)
        PROVE  ArmedInv'
    BY <1>1, <1>2, <2>2 DEF Begin, Run, TypeOK, Callers, poller
  <2> QED BY <1>3, <2>1, <2>2 DEF RequestBegins, RowRemoved, AddPhone, TrustKeyOverLan,
                                  RevokeKeyOverLan, RemoveRow
\* A copy of an armed document, in which no trusted key is revoked, is armed.
<1>4. ASSUME NEW c \in Callers, Load(c) PROVE ArmedInv'
  <2>1. Armed(doc) /\ doc.trusted \cap doc.revoked = {}
    BY DEF ArmedInv, RevokedNeverTrusted
  <2>2. pc[c] = "load" /\ UNCHANGED <<store, mode, todo>>
    BY <1>4 DEF Load, poller
  <2>3. pc' = [pc EXCEPT ![c] = "write"] /\ snap' = [snap EXCEPT ![c] = doc]
    BY <1>4 DEF Load
  <2> QED BY <1>1, <1>2, <2>1, <2>2, <2>3 DEF TypeOK
<1>5. ASSUME NEW c \in Callers, Operation(c) PROVE ArmedInv'
  <2>1. ASSUME (Advance(c) \/ Return(c)) /\ Reset(c) /\ UNCHANGED store PROVE ArmedInv'
    <3>1. \A other \in Callers \ {c} : snap'[other] = snap[other]
      BY <2>1 DEF Reset, TypeOK
    <3> QED BY <1>1, <1>2, <2>1, <3>1, AdvanceArmed DEF Reset
  <2>2. ASSUME NEW d \in Doc, Save(c, d) PROVE ArmedInv'
    <3> DEFINE w == [by |-> c, doc |-> Written(d)]
    <3>1. Armed(w.doc)
      BY <1>5, <2>2, OperationArmed
    <3>2. saves \in Seq([by: Callers, doc: Doc]) /\ w \in [by: Callers, doc: Doc]
      BY OperationsMakeDocs, SomeArguments DEF TypeOK
    <3>3. \A i \in DOMAIN Append(saves, w) :
             Append(saves, w)[i] = w \/ (i \in DOMAIN saves /\ Append(saves, w)[i] = saves[i])
      BY <3>2
    <3>4. /\ doc' = w.doc /\ disk' = disk /\ saves' = Append(saves, w)
          /\ mode' = mode /\ todo' = todo
          /\ pc' = [pc EXCEPT ![c] = "saving"] /\ snap' = [snap EXCEPT ![c] = EmptyDoc]
      BY <2>2 DEF Save, Reset
    <3> HIDE DEF w
    <3>5. \A other \in Callers : CallerArmed(other)'
      BY <1>1, <3>4 DEF TypeOK
    <3>6. \A i \in DOMAIN saves' : Armed(saves'[i].doc)
      BY <3>1, <3>3, <3>4 DEF ArmedInv
    <3> QED BY <3>1, <3>4, <3>5, <3>6 DEF ArmedInv
  <2> QED BY <1>5, <2>1, <2>2, OperationSavesOrSkips
<1>6. CASE WriteDone
  <2>1. /\ doc' = doc /\ saves # <<>> /\ mode' = mode /\ snap' = snap
        /\ disk' = Head(saves).doc /\ saves' = Tail(saves) /\ Advance(Head(saves).by)
    BY <1>6 DEF WriteDone
  <2>2. \A c \in Callers : CallerArmed(c)'
    BY <1>1, <2>1, OldestWrite, AdvanceArmed
  <2> QED BY <2>1, <2>2, OldestWrite DEF ArmedInv
\* No poller: setup starts none.
<1>7. CASE PollerStep
  BY <1>7 DEF ArmedInv, PollerStep, PollerSeed, ResyncSnapshot, ResyncAnswered, ResyncFails,
              ResyncForUnknownKey, AddTrustedKey, RevokeTrustedKey, PollerReady
<1>8. CASE Restart
  <2>1. Armed(Started(disk))
    BY StartedArmed DEF ArmedInv, RevokedNeverTrusted, TypeOK
  <2> QED BY <1>8, <2>1 DEF Restart, ArmedInv
<1>9. CASE UNCHANGED vars
  BY <1>1, <1>2, <1>9 DEF vars, store
<1> QED BY <1>3, <1>4, <1>5, <1>6, <1>7, <1>8, <1>9 DEF Next, StoreStep

\* On an island without the cloud no LAN revoke, however stale the copy it works
\* on, takes the last trusted key away: async_revoke_signing_key's test is enough
\* as every other LAN operation keeps or adds trusted keys.  An entry is created
\* with a key of its pairing.
THEOREM IslandKeepsAnAdmin == ~CloudChannel /\ Paired # {} => (Spec => LastAdminKept)
<1> SUFFICES ASSUME ~CloudChannel, Paired # {} PROVE Spec => LastAdminKept
  OBVIOUS
<1>1. Init => ArmedInv
  BY InitArmedInv
<1>2. TypeOK /\ RevokedNeverTrusted /\ ArmedInv /\ [Next]_vars => ArmedInv'
  BY NextArmedInv
<1>3. ArmedInv' => [\A c \in Callers :
          At(c, "revoke") /\ pc'[c] = "saving" /\ doc.trusted # {} => doc'.trusted # {}]_doc
  BY DEF ArmedInv, Armed
<1> QED BY <1>1, <1>2, <1>3, TypeCorrect, RevokedKeysStayOut, PTL DEF Spec, LastAdminKept

-----------------------------------------------------------------------------
(* The archive: hours, days and zones. *)

LEMMA RollupBounds ==
    /\ DayHours \in Nat \ {0} /\ RawRetention \in Nat /\ HourlyRetention \in Nat
    /\ RawRetention > 2 * DayHours /\ HourlyRetention > RawRetention
    /\ {MaxTime, MaxGaps, MaxMoves, MaxMisses} \subseteq Nat
    /\ UtcZone \in Zones
BY RollupAssumption

LEMMA OffsetIs ==
    ASSUME NEW t \in Int, NEW z \in Zones
    PROVE  Offset(t, z) \in Offsets(z) /\ Offset(t, z) \in Int
BY RollupAssumption DEF Offset, Offsets

\* The part of a division the days need.
LEMMA DayIs ==
    ASSUME NEW t \in Int, NEW z \in Zones
    PROVE  /\ DayOf(t, z) \in Int
           /\ 2 * DayHours * DayOf(t, z) <= t + Offset(t, z)
           /\ t + Offset(t, z) < 2 * DayHours * (DayOf(t, z) + 1)
<1> DEFINE D == 2 * DayHours
           s == t + Offset(t, z)
<1>1. D \in Nat \ {0} /\ s \in Int
  BY RollupBounds, OffsetIs
<1>2. DayOf(t, z) = s \div D
  BY DEF DayOf
<1> HIDE DEF D, s
<1>3. s \div D \in Int /\ D * (s \div D) <= s /\ s < D * (s \div D) + D
  BY <1>1
<1>4. D * (s \div D + 1) = D * (s \div D) + D
  BY <1>1, <1>3
<1> QED BY <1>1, <1>2, <1>3, <1>4 DEF D, s

\* A reading a day later, after what the clock was put back, is of a later day.
LEMMA LaterDay ==
    ASSUME NEW s \in Int, NEW t \in Int, NEW y \in Zones, NEW z \in Zones,
           t + Offset(t, z) - s - Offset(s, y) >= 2 * DayHours
    PROVE  DayOf(s, y) < DayOf(t, z)
<1> DEFINE D == 2 * DayHours
           a == DayOf(s, y)
           b == DayOf(t, z)
           v == s + Offset(s, y)
           w == t + Offset(t, z)
<1>1. D \in Nat \ {0} /\ {a, b, v, w} \subseteq Int
  BY RollupBounds, OffsetIs, DayIs
<1>2. D * a <= v /\ w < D * (b + 1) /\ w - v >= D
  <2>1. w - v = t + Offset(t, z) - s - Offset(s, y)
    BY OffsetIs
  <2> QED BY DayIs, <2>1
<1> HIDE DEF D, a, b, v, w
<1>3. D * (a + 1) = D * a + D
  BY <1>1
<1>4. D * (a + 1) < D * (b + 1)
  <2>1. D * a \in Int /\ D * (b + 1) \in Int
    BY <1>1
  <2> QED BY <1>1, <1>2, <1>3, <2>1
<1>5. a + 1 > b => D * (a + 1) >= D * (b + 1)
  <2>1. ASSUME a + 1 > b PROVE D * (a + 1) >= D * (b + 1)
    <3>1. PICK n \in Nat : a = b + n
      <4>1. a - b \in Nat /\ a = b + (a - b)
        BY <1>1, <2>1
      <4> QED BY <4>1
    <3>2. D * (a + 1) = D * (b + 1) + D * n
      BY <1>1, <3>1
    <3>3. D * n >= 0 /\ D * n \in Int /\ D * (b + 1) \in Int
      BY <1>1, <3>1
    <3> QED BY <3>2, <3>3
  <2> QED BY <2>1
<1>6. ~(a + 1 > b)
  <2>1. D * (a + 1) \in Int /\ D * (b + 1) \in Int
    BY <1>1
  <2> QED BY <1>4, <1>5, <2>1
<1>7. a < b
  BY <1>1, <1>6
<1> QED BY <1>7 DEF a, b

\* What is beyond the retention of raw rows is not of today, ...
LEMMA RawIsPast ==
    ASSUME NEW s \in Int, NEW t \in Int, NEW z \in Zones, t - s >= RawRetention
    PROVE  DayOf(s, z) < DayOf(t, z)
<1>1. Offset(s, z) - Offset(t, z) <= RawRetention - 2 * DayHours
  BY OffsetIs, RollupAssumption
<1>2. t + Offset(t, z) - s - Offset(s, z) >= 2 * DayHours
  BY <1>1, OffsetIs, RollupBounds
<1> QED BY <1>2, LaterDay

\* ... and what is beyond that of the hours is not, whatever the zone becomes.
LEMMA HourIsPast ==
    ASSUME NEW s \in Int, NEW t \in Int, NEW y \in Zones, NEW z \in Zones,
           t - s > HourlyRetention
    PROVE  DayOf(s, y) < DayOf(t, z)
<1>1. Offset(s, y) - Offset(t, z) <= HourlyRetention + 1 - 2 * DayHours
  BY OffsetIs, RollupAssumption
<1>2. t + Offset(t, z) - s - Offset(s, y) >= 2 * DayHours
  BY <1>1, OffsetIs, RollupBounds
<1> QED BY <1>2, LaterDay

\* Every nonempty set of naturals has a least one.
LEMMA LeastNatural ==
    ASSUME NEW S \in SUBSET Nat, S # {}
    PROVE  \E n \in S : \A m \in S : n <= m
<1>1. PICK n \in S : \A m \in S : ~(<<m, n>> \in OpToRel(<, Nat))
  BY NatLessThanWellFounded, WFMin
<1>2. \A m \in S : ~(m < n)
  BY <1>1 DEF OpToRel
<1> QED BY <1>2

LEMMA LeastIs ==
    ASSUME NEW a \in Int, NEW b \in Int, NEW S \in SUBSET (a..b), S # {}
    PROVE  Min(S) \in S /\ \A y \in S : Min(S) <= y
<1> DEFINE T == {x - a : x \in S}
<1>1. T \in SUBSET Nat /\ T # {}
  <2>1. \A x \in S : x \in Int /\ a <= x /\ x - a \in Nat
    OBVIOUS
  <2> QED BY <2>1
<1>2. PICK n \in T : \A m \in T : n <= m
  <2> HIDE DEF T
  <2> QED BY <1>1, LeastNatural
<1>3. n + a \in S /\ \A y \in S : n + a <= y
  <2>1. PICK x \in S : n = x - a
    BY <1>2
  <2>2. n + a = x
    BY <2>1
  <2>3. ASSUME NEW y \in S PROVE n + a <= y
    <3>1. n <= y - a
      BY <1>2
    <3> QED BY <3>1, <2>1
  <2> QED BY <2>2, <2>3
<1> QED BY <1>3 DEF Min

\* A local day has a midnight.
LEMMA MidnightIs ==
    ASSUME NEW d \in Int, NEW z \in Zones
    PROVE  /\ Midnight(d, z) \in Int /\ DayOf(Midnight(d, z), z) = d
           /\ Midnight(d, z) \in (2 * DayHours * (d - 1))..(2 * DayHours * (d + 1))
<1> DEFINE D == 2 * DayHours
           o == z.offset
           p == z.later
           f == z.from
           S == {t \in (D * (d - 1))..(D * (d + 1)) : DayOf(t, z) = d}
<1>1. /\ D \in Nat \ {0} /\ {o, p, f} \subseteq Int /\ -D <= o /\ o <= D /\ -D <= p /\ p <= D
      /\ p - o < D /\ o - p < D
  <2>1. {o, p} \subseteq -D..D /\ f \in Int /\ D \in Nat \ {0}
    BY RollupAssumption, RollupBounds DEF Offsets
  <2>2. p - o < D /\ o - p < D
    BY RollupAssumption DEF Offsets
  <2> QED BY <2>1, <2>2
<1>2. D * d \in Int /\ D * (d - 1) = D * d - D /\ D * (d + 1) = D * d + D
  BY <1>1
<1>3. ASSUME NEW t \in Int, D * d <= t + Offset(t, z), t + Offset(t, z) < D * d + D
      PROVE  DayOf(t, z) = d
  <2> DEFINE e == DayOf(t, z)
             v == t + Offset(t, z)
  <2>1. e \in Int /\ v \in Int /\ D * e <= v /\ v < D * (e + 1) /\ D * d <= v /\ v < D * (d + 1)
    BY DayIs, OffsetIs, <1>2, <1>3
  <2> HIDE DEF e, v, D
  <2>2. e = v \div D
    BY DEF e, v, D, DayOf
  <2>3. D \in Nat \ {0}
    BY <1>1
  <2>4. v - D * d \in 0..(D - 1)
    BY <1>2, <2>1, <2>3
  <2>5. v \div D = d
    <3>1. v = D * d + (v - D * d)
      BY <1>2, <2>1
    <3> QED BY <2>1, <2>3, <2>4, <3>1
  <2> QED BY <2>2, <2>5 DEF e
<1> HIDE DEF D, o, p, f
<1>4. \E t \in (D * d - D)..(D * d + D) : D * d <= t + Offset(t, z) /\ t + Offset(t, z) < D * d + D
  <2>0. \A t \in Int : Offset(t, z) = IF t >= f THEN p ELSE o
    BY DEF Offset, o, p, f
  <2>1. CASE D * d - o < f
    <3> DEFINE t == D * d - o
    <3>1. t \in Int /\ ~(t >= f) /\ t \in (D * d - D)..(D * d + D)
      BY <1>1, <1>2, <2>1
    <3>2. Offset(t, z) = o
      BY <2>0, <3>1
    <3>3. t + o = D * d
      BY <1>1, <1>2
    <3> QED BY <1>1, <1>2, <3>1, <3>2, <3>3
  <2>2. CASE D * d - o >= f /\ D * d - p >= f
    <3> DEFINE t == D * d - p
    <3>1. t \in Int /\ t >= f /\ t \in (D * d - D)..(D * d + D)
      BY <1>1, <1>2, <2>2
    <3>2. Offset(t, z) = p
      BY <2>0, <3>1
    <3>3. t + p = D * d
      BY <1>1, <1>2
    <3> QED BY <1>1, <1>2, <3>1, <3>2, <3>3
  <2>3. CASE D * d - o >= f /\ D * d - p < f
    <3>1. f \in (D * d - D)..(D * d + D) /\ D * d <= f + p /\ f + p < D * d + D
      BY <1>1, <1>2, <2>3
    <3>2. Offset(f, z) = p
      BY <2>0, <1>1
    <3> QED BY <3>1, <3>2
  <2>4. {D * d - o, D * d - p, f} \subseteq Int
    BY <1>1, <1>2
  <2> QED BY <2>1, <2>2, <2>3, <2>4, <1>1
<1>5. PICK t \in (D * d - D)..(D * d + D) : D * d <= t + Offset(t, z) /\ t + Offset(t, z) < D * d + D
  BY <1>4
<1>6. t \in Int /\ DayOf(t, z) = d
  BY <1>2, <1>3, <1>5, <1>1
<1>7. S # {} /\ S \in SUBSET ((D * (d - 1))..(D * (d + 1)))
  BY <1>2, <1>5, <1>6
<1>8. Min(S) \in S
  <2>1. D * (d - 1) \in Int /\ D * (d + 1) \in Int
    BY <1>1
  <2> QED BY <1>7, <2>1, LeastIs
<1>9. Midnight(d, z) = Min(S)
  BY DEF Midnight, D
<1>10. Min(S) \in (D * (d - 1))..(D * (d + 1)) /\ Min(S) \in Int /\ DayOf(Min(S), z) = d
  BY <1>1, <1>8
<1> QED BY <1>9, <1>10 DEF D

-----------------------------------------------------------------------------
(* The archive: what a tick has summed. *)

\* When a tick prunes, each raw row that goes is in the row of its hour, and each
\* hour that goes is in the row of a day that is over in every zone.
SummedFirst ==
    /\ tick.at \in {"rebuild", "marker", "rollup", "prune"} => tick.now = clock
    /\ tick.at = "prune" =>
          /\ \A t \in raw : t < tick.now - RawRetention =>
                HourOf(t) \in DOMAIN hourly /\ t \in hourly[HourOf(t)]
          /\ \A h \in DOMAIN hourly : 2 * h < tick.now - HourlyRetention =>
                \E d \in DOMAIN daily :
                    hourly[h] \subseteq daily[d] /\ \A z \in Zones : d < DayOf(tick.now, z)

ArchiveInv == RollupTypeOK /\ SummedFirst

LEMMA HoursAre ==
    ASSUME NEW t \in Times
    PROVE  /\ t \in Nat /\ HourOf(t) \in Hours
           /\ 2 * HourOf(t) <= t /\ t <= 2 * HourOf(t) + 1 /\ 2 * HourOf(t) \in Times
<1>1. t \in Nat /\ MaxTime \in Nat /\ t <= MaxTime
  BY RollupBounds DEF Times
<1>2. t \div 2 \in Nat /\ 2 * (t \div 2) <= t /\ t <= 2 * (t \div 2) + 1
  BY <1>1
<1>3. t \div 2 <= MaxTime \div 2 /\ MaxTime \div 2 \in Nat
  BY <1>1
<1> QED BY <1>1, <1>2, <1>3 DEF HourOf, Hours, Times

LEMMA HourTimes ==
    ASSUME NEW h \in Hours
    PROVE  h \in Nat /\ 2 * h \in Times /\ 2 * h \in Nat
<1>1. MaxTime \in Nat /\ h \in Nat /\ h <= MaxTime \div 2
  BY RollupBounds DEF Hours
<1>2. 2 * h <= MaxTime
  BY <1>1
<1> QED BY <1>1, <1>2 DEF Times

LEMMA DaysAre ==
    ASSUME NEW t \in Times, NEW z \in Zones
    PROVE  DayOf(t, z) \in Days /\ DayOf(t, z) \in Int
<1>1. t \in Int
  BY DEF Times
<1> QED BY <1>1, DayIs DEF Days

LEMMA DaysAreWhole == Days \subseteq Int
<1>1. \A t \in Times : t \in Int
  BY DEF Times
<1> QED BY <1>1, DayIs DEF Days

LEMMA CompletedAre ==
    ASSUME NEW hours, NEW z \in Zones, NEW now, DOMAIN hours \subseteq Hours
    PROVE  CompletedDays(hours, z, now) \subseteq Days
BY HourTimes, DaysAre DEF CompletedDays, HourDay

LEMMA MergedAre ==
    ASSUME NEW hours, NEW z, NEW d, \A h \in DOMAIN hours : hours[h] \subseteq Times
    PROVE  Merged(hours, d, z) \subseteq Times
BY DEF Merged

LEMMA ArchiveStarts == RollupInit => ArchiveInv
<1> SUFFICES ASSUME RollupInit PROVE ArchiveInv
  OBVIOUS
<1>1. DOMAIN hourly = {} /\ DOMAIN daily = {}
  <2>1. hourly = <<>> /\ daily = <<>>
    BY DEF RollupInit
  <2> QED BY <2>1
<1>2. /\ 0 \in Times /\ UtcZone \in Zones /\ 0 \in 0..MaxGaps /\ 0 \in 0..MaxMoves
      /\ 0 \in 0..MaxMisses
  BY RollupBounds DEF Times
<1>3. RollupTypeOK
  BY <1>1, <1>2 DEF RollupInit, RollupTypeOK, Idle
<1>4. SummedFirst
  BY DEF RollupInit, Idle, SummedFirst
<1> QED BY <1>3, <1>4 DEF ArchiveInv

LEMMA StoreReadingKeeps ==
    ASSUME ArchiveInv, StoreReading
    PROVE  ArchiveInv'
<1>1. RollupTypeOK'
  BY DEF ArchiveInv, RollupTypeOK, StoreReading
<1>2. SummedFirst'
  <2>1. PICK t \in {clock - 1, clock} \cap (Times \ raw) : raw' = raw \cup {t}
    BY DEF StoreReading
  <2>2. clock \in Nat /\ t >= clock - 1 /\ t \in Nat
    BY <2>1 DEF ArchiveInv, RollupTypeOK, Times
  <2>3. ~(t < clock - RawRetention)
    BY <2>2, RollupBounds
  <2>4. UNCHANGED <<clock, hourly, daily, tick>>
    BY DEF StoreReading
  <2>5. SummedFirst
    BY DEF ArchiveInv
  <2> QED BY <2>1, <2>3, <2>4, <2>5 DEF SummedFirst
<1> QED BY <1>1, <1>2 DEF ArchiveInv

LEMMA OthersKeep ==
    ASSUME ArchiveInv, Passes \/ Moves \/ Misses \/ TickStarts \/ SetMarker \/ UNCHANGED rollupVars
    PROVE  ArchiveInv'
<1>0. RollupTypeOK /\ SummedFirst /\ TRUE
  BY DEF ArchiveInv
<1>1. CASE Passes
  <2>1. clock' \in Times
    BY <1>0, <1>1, RollupBounds DEF Passes, RollupTypeOK, Times
  <2>2. slack' \in [gaps: 0..MaxGaps, moves: 0..MaxMoves, misses: 0..MaxMisses]
    BY <1>0, <1>1, RollupBounds DEF Passes, RollupTypeOK
  <2>3. /\ tick' \in [at: {"idle", "due"}, now: Times, zone: Zones]
        /\ tick'.at \in {"idle", "due"}
    BY <1>1, RollupBounds DEF Passes, Idle, Times
  <2> QED BY <1>0, <1>1, <2>1, <2>2, <2>3 DEF Passes, RollupTypeOK, ArchiveInv, SummedFirst
<1>2. CASE Moves
  <2>1. slack' \in [gaps: 0..MaxGaps, moves: 0..MaxMoves, misses: 0..MaxMisses]
    BY <1>0, <1>2, RollupBounds DEF Moves, RollupTypeOK
  <2> QED BY <1>0, <1>2, <2>1 DEF Moves, RollupTypeOK, ArchiveInv, SummedFirst
<1>3. CASE Misses
  <2>1. slack' \in [gaps: 0..MaxGaps, moves: 0..MaxMoves, misses: 0..MaxMisses]
    BY <1>0, <1>3, RollupBounds DEF Misses, RollupTypeOK
  <2>2. tick' \in [at: {"idle"}, now: Times, zone: Zones] /\ tick'.at = "idle"
    BY <1>3, RollupBounds DEF Misses, Idle, Times
  <2> QED BY <1>0, <1>3, <2>1, <2>2 DEF Misses, RollupTypeOK, ArchiveInv, SummedFirst
<1>4. CASE TickStarts
  BY <1>0, <1>4 DEF TickStarts, RollupTypeOK, ArchiveInv, SummedFirst
<1>5. CASE SetMarker
  BY <1>0, <1>5 DEF SetMarker, RollupTypeOK, ArchiveInv, SummedFirst
<1>6. CASE UNCHANGED rollupVars
  BY <1>0, <1>6 DEF rollupVars, RollupTypeOK, ArchiveInv, SummedFirst
<1> QED BY <1>1, <1>2, <1>3, <1>4, <1>5, <1>6

LEMMA RebuildKeeps ==
    ASSUME ArchiveInv, Rebuild
    PROVE  ArchiveInv'
<1>0. RollupTypeOK /\ SummedFirst /\ TRUE
  BY DEF ArchiveInv
<1>1. UNCHANGED <<clock, raw, hourly, marker, zone, parity, slack>> /\ tick.at = "rebuild"
  BY DEF Rebuild
<1>2. tick' \in [at: {"rollup", "marker"}, now: Times, zone: Zones] /\ tick'.now = tick.now
      /\ tick'.at \in {"rollup", "marker"}
  BY <1>0 DEF Rebuild, RollupTypeOK
<1>3. DOMAIN daily' \subseteq Days /\ \A d \in DOMAIN daily' : daily'[d] \subseteq Times
  <2> DEFINE again == {d \in CompletedDays(hourly, zone, tick.now) : d >= FirstWholeDay(zone)}
             gone == {d \in DOMAIN daily : FirstWholeDay(zone) <= d /\ d < DayOf(tick.now, zone)}
             new == [d \in again |-> Merged(hourly, d, zone)]
             old == [d \in DOMAIN daily \ gone |-> daily[d]]
  <2>1. daily' = daily \/ daily' = Over(new, old)
    BY DEF Rebuild
  <2>2. DOMAIN new \subseteq Days
    BY <1>0, CompletedAre DEF RollupTypeOK
  <2>3. DOMAIN old \subseteq Days
    BY <1>0 DEF RollupTypeOK
  <2>4. \A d \in DOMAIN new : new[d] \subseteq Times
    BY <1>0, MergedAre DEF RollupTypeOK
  <2>5. \A d \in DOMAIN old : old[d] \subseteq Times
    BY <1>0 DEF RollupTypeOK
  <2> HIDE DEF new, old
  <2>6. CASE daily' = daily
    BY <1>0, <2>6 DEF RollupTypeOK
  <2>7. CASE daily' = Over(new, old)
    BY <2>2, <2>3, <2>4, <2>5, <2>7 DEF Over
  <2> QED BY <2>1, <2>6, <2>7
<1>4. RollupTypeOK'
  BY <1>0, <1>1, <1>2, <1>3 DEF RollupTypeOK
<1>5. SummedFirst'
  BY <1>0, <1>1, <1>2 DEF SummedFirst
<1> QED BY <1>4, <1>5 DEF ArchiveInv

LEMMA RollupKeeps ==
    ASSUME ArchiveInv, Rollup
    PROVE  ArchiveInv'
<1> DEFINE over == {h \in {HourOf(t) : t \in raw} : h < HourOf(tick.now)}
           sums == [h \in over |-> {t \in raw : HourOf(t) = h}]
           hours == Over(sums, hourly)
           done == CompletedDays(hours, zone, tick.now)
           days == [d \in done |-> Merged(hours, d, zone)]
<1>0. RollupTypeOK /\ SummedFirst /\ TRUE
  BY DEF ArchiveInv
<1>1. /\ UNCHANGED <<clock, raw, marker, zone, parity, slack>> /\ tick.at = "rollup"
      /\ hourly' = hours /\ daily' = Over(days, daily) /\ tick' = [tick EXCEPT !.at = "prune"]
  BY DEF Rollup
<1>2. /\ tick' \in [at: {"prune"}, now: Times, zone: Zones] /\ tick'.now = tick.now
      /\ tick'.at = "prune" /\ tick.now = clock /\ clock \in Times /\ clock \in Nat
  BY <1>0, <1>1 DEF RollupTypeOK, SummedFirst, Times
<1>3. raw \subseteq Times /\ zone \in Zones
  BY <1>0 DEF RollupTypeOK
<1>4. over \subseteq Hours
  BY <1>3, HoursAre
<1>5. \A h \in over : sums[h] \subseteq Times
  BY <1>3
<1>6. /\ DOMAIN sums = over /\ DOMAIN hours = over \cup DOMAIN hourly
      /\ \A h \in over : hours[h] = sums[h]
      /\ \A h \in DOMAIN hourly \ over : hours[h] = hourly[h]
  <2>1. DOMAIN sums = over
    OBVIOUS
  <2> HIDE DEF sums
  <2> QED BY <2>1 DEF Over
<1>7. DOMAIN hours \subseteq Hours /\ \A h \in DOMAIN hours : hours[h] \subseteq Times
  <2>1. DOMAIN hourly \subseteq Hours /\ \A h \in DOMAIN hourly : hourly[h] \subseteq Times
    BY <1>0 DEF RollupTypeOK
  <2> HIDE DEF hours, sums, over
  <2> QED BY <1>4, <1>5, <1>6, <2>1
<1>8. \A t \in raw : t < clock - RawRetention => HourOf(t) \in over /\ t \in hours[HourOf(t)]
  <2> SUFFICES ASSUME NEW t \in raw, t < clock - RawRetention
               PROVE  HourOf(t) \in over /\ t \in hours[HourOf(t)]
    OBVIOUS
  <2>1. t \in Times /\ t \in Nat
    BY <1>3 DEF Times
  <2>2. HourOf(t) \in Nat /\ HourOf(clock) \in Nat /\ 2 * HourOf(t) <= t
        /\ clock <= 2 * HourOf(clock) + 1
    BY <1>2, <2>1, HoursAre DEF Hours
  <2>3. HourOf(t) < HourOf(clock)
    BY <1>2, <2>1, <2>2, RollupBounds
  <2>4. HourOf(t) \in over
    BY <1>2, <2>3
  <2>5. hours[HourOf(t)] = sums[HourOf(t)]
    BY <1>6, <2>4
  <2>6. t \in sums[HourOf(t)]
    BY <2>4
  <2> QED BY <2>4, <2>5, <2>6
<1> HIDE DEF over, sums, hours
<1>9. done \subseteq Days
  BY <1>3, <1>7, CompletedAre
<1>10. \A d \in done : days[d] \subseteq Times
  BY <1>7, MergedAre
<1>11. /\ DOMAIN days = done /\ DOMAIN daily' = done \cup DOMAIN daily
       /\ \A d \in done : daily'[d] = days[d] /\ daily'[d] = Merged(hours, d, zone)
       /\ \A d \in DOMAIN daily \ done : daily'[d] = daily[d]
  <2>1. DOMAIN days = done /\ \A d \in done : days[d] = Merged(hours, d, zone)
    OBVIOUS
  <2>2. daily' = Over(days, daily)
    BY <1>1
  <2> HIDE DEF days, done
  <2> QED BY <2>1, <2>2 DEF Over
<1>12. DOMAIN daily' \subseteq Days /\ \A d \in DOMAIN daily' : daily'[d] \subseteq Times
  <2>1. DOMAIN daily \subseteq Days /\ \A d \in DOMAIN daily : daily[d] \subseteq Times
    BY <1>0 DEF RollupTypeOK
  <2> HIDE DEF days, done
  <2> QED BY <1>9, <1>10, <1>11, <2>1
<1>13. \A h \in DOMAIN hours : 2 * h < clock - HourlyRetention =>
          \E d \in DOMAIN daily' :
              hours[h] \subseteq daily'[d] /\ \A z \in Zones : d < DayOf(clock, z)
  <2> SUFFICES ASSUME NEW h \in DOMAIN hours, 2 * h < clock - HourlyRetention
               PROVE  \E d \in DOMAIN daily' :
                          hours[h] \subseteq daily'[d] /\ \A z \in Zones : d < DayOf(clock, z)
    OBVIOUS
  <2>1. 2 * h \in Int /\ clock - 2 * h > HourlyRetention /\ clock \in Int
    BY <1>2, <1>7, HourTimes, RollupBounds
  <2>2. \A z \in Zones : HourDay(h, zone) < DayOf(clock, z)
    BY <1>3, <2>1, HourIsPast DEF HourDay
  <2>3. HourDay(h, zone) \in done
    BY <1>2, <1>3, <2>2 DEF CompletedDays
  <2>4. hours[h] \subseteq Merged(hours, HourDay(h, zone), zone)
    BY DEF Merged
  <2> QED BY <1>11, <2>2, <2>3, <2>4
<1>14. RollupTypeOK'
  BY <1>0, <1>1, <1>2, <1>7, <1>12 DEF RollupTypeOK
<1>15. SummedFirst'
  <2>1. \A t \in raw' : t < tick'.now - RawRetention =>
            HourOf(t) \in DOMAIN hourly' /\ t \in hourly'[HourOf(t)]
    BY <1>1, <1>2, <1>6, <1>8
  <2>2. \A h \in DOMAIN hourly' : 2 * h < tick'.now - HourlyRetention =>
            \E d \in DOMAIN daily' :
                hourly'[h] \subseteq daily'[d] /\ \A z \in Zones : d < DayOf(tick'.now, z)
    BY <1>1, <1>2, <1>13
  <2>3. tick'.now = clock'
    BY <1>1, <1>2
  <2> QED BY <2>1, <2>2, <2>3 DEF SummedFirst
<1> QED BY <1>14, <1>15 DEF ArchiveInv

LEMMA PruneTypes ==
    ASSUME ArchiveInv, PruneTables
    PROVE  ArchiveInv'
<1>0. RollupTypeOK
  BY DEF ArchiveInv
<1>1. tick' \in [at: {"idle"}, now: Times, zone: Zones] /\ tick'.at = "idle"
  BY RollupBounds DEF PruneTables, Idle, Times
<1>2. /\ raw' \subseteq raw
      /\ DOMAIN hourly' \subseteq DOMAIN hourly
      /\ \A h \in DOMAIN hourly' : hourly'[h] = hourly[h]
      /\ UNCHANGED <<clock, daily, marker, zone, parity, slack>>
  BY DEF PruneTables
<1>3. RollupTypeOK'
  BY <1>0, <1>1, <1>2 DEF RollupTypeOK
<1>4. SummedFirst'
  BY <1>1 DEF SummedFirst
<1> QED BY <1>3, <1>4 DEF ArchiveInv

LEMMA ArchiveKept == ArchiveInv /\ [RollupNext]_rollupVars => ArchiveInv'
BY StoreReadingKeeps, OthersKeep, RebuildKeeps, RollupKeeps, PruneTypes DEF RollupNext

-----------------------------------------------------------------------------
(* The archive: what a prune leaves to be shown. *)

\* What is shown: the raw rows, the days that are over and today's row, and the
\* hours before today that no raw row of today is in.
LEMMA ShownIs ==
    ASSUME RollupTypeOK
    PROVE  \A t : t \in ShownHistory <=>
              \/ t \in raw
              \/ \E d \in DOMAIN daily : d <= Today /\ t \in daily[d]
              \/ \E h \in DOMAIN hourly : /\ 2 * h < Midnight(Today, zone)
                                          /\ h \notin {HourOf(u) : u \in DayChart(Today, zone)}
                                          /\ t \in hourly[h]
<1> DEFINE today == DayChart(Today, zone)
           past == [d \in {e \in DOMAIN daily : e < Today} |-> daily[d]]
           now == [d \in {Today} |-> DayChart(d, zone)]
           fresh == [h \in {HourOf(t) : t \in today} |-> {t \in today : HourOf(t) = h}]
           hours == {g \in DOMAIN hourly : 2 * g < Midnight(Today, zone)}
           sums == [h \in hours |-> hourly[h]]
<1>1. today \subseteq raw /\ Today \in Int
  <2>1. clock \in Int /\ zone \in Zones
    BY DEF RollupTypeOK, Times
  <2> QED BY <2>1, DayIs DEF DayChart, Today
<1>2. UNION {DayChart(d, zone) : d \in Days} = raw
  <2>1. \A t \in raw : t \in Times /\ DayOf(t, zone) \in Days
    BY DaysAre DEF RollupTypeOK
  <2> QED BY <2>1 DEF DayChart
<1>3. /\ DOMAIN History = {e \in DOMAIN daily : e < Today} \cup {Today}
      /\ \A d \in {e \in DOMAIN daily : e < Today} : History[d] = daily[d]
      /\ History[Today] = today
  <2>1. History = Over(past, now)
    BY DEF History
  <2>2. /\ DOMAIN past = {e \in DOMAIN daily : e < Today} /\ DOMAIN now = {Today}
        /\ \A d \in {e \in DOMAIN daily : e < Today} : past[d] = daily[d]
        /\ now[Today] = today
    OBVIOUS
  <2>3. Today \notin DOMAIN past
    BY <1>1, <2>2
  <2> HIDE DEF past, now, today
  <2> QED BY <2>1, <2>2, <2>3 DEF Over
<1>4. /\ DOMAIN MonthHours = {HourOf(t) : t \in today} \cup hours
      /\ \A h \in {HourOf(t) : t \in today} : MonthHours[h] = {t \in today : HourOf(t) = h}
      /\ \A h \in hours \ {HourOf(t) : t \in today} : MonthHours[h] = hourly[h]
  <2>1. MonthHours = Over(fresh, sums)
    BY DEF MonthHours
  <2>2. /\ DOMAIN fresh = {HourOf(t) : t \in today} /\ DOMAIN sums = hours
        /\ \A h \in {HourOf(t) : t \in today} : fresh[h] = {t \in today : HourOf(t) = h}
        /\ \A h \in hours : sums[h] = hourly[h]
    OBVIOUS
  <2> HIDE DEF fresh, sums, hours, today
  <2> QED BY <2>1, <2>2 DEF Over
<1>5. TodaySummary = IF Today \in DOMAIN daily THEN daily[Today] ELSE today
  BY DEF TodaySummary
<1>6. \A d \in DOMAIN daily : d \in Int
  BY DaysAreWhole DEF RollupTypeOK
<1>7. \A t : t \in UNION {History[d] : d \in DOMAIN History} <=>
             t \in today \/ \E d \in DOMAIN daily : d < Today /\ t \in daily[d]
  <2> HIDE DEF today
  <2> QED BY <1>3
<1>8. \A t : t \in UNION {MonthHours[h] : h \in DOMAIN MonthHours} <=>
             \/ t \in today
             \/ \E h \in hours : h \notin {HourOf(u) : u \in today} /\ t \in hourly[h]
  <2> HIDE DEF today, hours
  <2> QED BY <1>4
<1>9. \A t : t \in ShownHistory <=>
             \/ t \in raw \/ t \in TodaySummary
             \/ t \in UNION {History[d] : d \in DOMAIN History}
             \/ t \in UNION {MonthHours[h] : h \in DOMAIN MonthHours}
  <2>1. \A t : t \in ShownHistory <=>
             \/ t \in UNION {DayChart(d, zone) : d \in Days} \/ t \in TodaySummary
             \/ t \in UNION {History[d] : d \in DOMAIN History}
             \/ t \in UNION {MonthHours[h] : h \in DOMAIN MonthHours}
    BY DEF ShownHistory
  <2>2. \A t : t \in UNION {DayChart(d, zone) : d \in Days} <=> t \in raw
    BY <1>2, Zenon
  <2> QED BY <2>1, <2>2, Zenon
<1>10. \A d \in DOMAIN daily : d <= Today <=> d < Today \/ d = Today
  BY <1>1, <1>6
<1> HIDE DEF today
<1>11. \A t : t \in ShownHistory <=>
              \/ t \in raw
              \/ \E d \in DOMAIN daily : d <= Today /\ t \in daily[d]
              \/ \E h \in hours : h \notin {HourOf(u) : u \in today} /\ t \in hourly[h]
  <2> HIDE DEF hours
  <2> QED BY <1>1, <1>5, <1>7, <1>8, <1>9, <1>10
<1> QED BY <1>11 DEF today

\* Half an hour of an hour, of which the other is beyond the retention.
LEMMA SameHour ==
    ASSUME NEW t \in Times, NEW u \in Times, HourOf(t) = HourOf(u), NEW n \in Int,
           t < n, n <= u
    PROVE  u = n /\ u = t + 1
BY HoursAre DEF Hours

LEMMA PruneShows ==
    ASSUME ArchiveInv, PruneTables
    PROVE  ShownHistory \subseteq ShownHistory'
<1>0. RollupTypeOK /\ SummedFirst /\ RollupTypeOK' /\ TRUE
  BY PruneTypes DEF ArchiveInv
<1>1. /\ tick.at = "prune" /\ tick.now = clock /\ clock \in Nat
      /\ raw \subseteq Times /\ zone \in Zones
      /\ DOMAIN hourly \subseteq Hours
  BY <1>0 DEF PruneTables, SummedFirst, RollupTypeOK, Times
<1>2. /\ raw' = {t \in raw : t >= clock - RawRetention}
      /\ DOMAIN hourly' = {g \in DOMAIN hourly : 2 * g >= clock - HourlyRetention}
      /\ \A h \in DOMAIN hourly' : hourly'[h] = hourly[h]
      /\ daily' = daily /\ clock' = clock /\ zone' = zone
  BY <1>1 DEF PruneTables
<1>3. /\ Today' = Today /\ Midnight(Today, zone)' = Midnight(Today, zone)
      /\ DayChart(Today, zone)' \subseteq DayChart(Today, zone)
      /\ DayChart(Today, zone)' \subseteq raw'
      /\ \A u \in DayChart(Today, zone)' : DayOf(u, zone) = Today
  BY <1>2 DEF Today, DayChart
<1>4. Today \in Int /\ Today = DayOf(clock, zone)
  BY <1>1, DayIs DEF Today
<1>5. \A d \in DOMAIN daily : d \in Int
  BY <1>0, DaysAreWhole DEF RollupTypeOK
<1>6. \A t : t \in ShownHistory' <=>
             \/ t \in raw'
             \/ \E d \in DOMAIN daily : d <= Today /\ t \in daily[d]
             \/ \E h \in DOMAIN hourly' : /\ 2 * h < Midnight(Today, zone)
                                          /\ h \notin {HourOf(u) : u \in DayChart(Today, zone)'}
                                          /\ t \in hourly'[h]
  <2>1. (RollupTypeOK => \A t : t \in ShownHistory <=>
              \/ t \in raw
              \/ \E d \in DOMAIN daily : d <= Today /\ t \in daily[d]
              \/ \E h \in DOMAIN hourly : /\ 2 * h < Midnight(Today, zone)
                                          /\ h \notin {HourOf(u) : u \in DayChart(Today, zone)}
                                          /\ t \in hourly[h])'
    BY ShownIs, PTL
  <2> QED BY <1>0, <1>2, <1>3, <2>1
\* An hour that goes is in a day that stays.
<1>7. ASSUME NEW h \in DOMAIN hourly, h \notin DOMAIN hourly', NEW t \in hourly[h]
      PROVE  t \in ShownHistory'
  <2>1. 2 * h < clock - HourlyRetention
    BY <1>1, <1>2, <1>7, HourTimes, RollupBounds
  <2>2. PICK d \in DOMAIN daily : hourly[h] \subseteq daily[d] /\ \A z \in Zones : d < DayOf(clock, z)
    BY <1>0, <1>1, <2>1 DEF SummedFirst
  <2>3. d <= Today
    BY <1>1, <1>4, <1>5, <2>2
  <2> QED BY <1>6, <1>7, <2>2, <2>3
<1>8. ASSUME NEW t \in raw PROVE t \in ShownHistory'
  <2>0. t \in Times /\ t \in Nat
    BY <1>1 DEF Times
  <2>1. CASE t >= clock - RawRetention
    BY <1>2, <1>6, <2>1
  <2>2. CASE t < clock - RawRetention
    <3> DEFINE h == HourOf(t)
    <3>1. h \in DOMAIN hourly /\ t \in hourly[h]
      BY <1>0, <1>1, <2>2 DEF SummedFirst
    <3>2. CASE h \notin DOMAIN hourly'
      BY <1>7, <3>1, <3>2
    <3>3. CASE h \in DOMAIN hourly'
      <4>1. 2 * h < Midnight(Today, zone)
        <5> DEFINE m == Midnight(Today, zone)
        <5>1. m \in Int /\ DayOf(m, zone) = Today
          BY <1>1, <1>4, MidnightIs
        <5>2. 2 * h \in Int /\ 2 * h <= t
          BY <2>0, HoursAre DEF Times
        <5>3. ASSUME ~(2 * h < m) PROVE FALSE
          <6>1. clock - m >= RawRetention
            BY <1>1, <2>0, <2>2, <5>1, <5>2, <5>3, RollupBounds
          <6>2. DayOf(m, zone) < DayOf(clock, zone)
            BY <1>1, <5>1, <6>1, RawIsPast
          <6> QED BY <1>4, <5>1, <6>2
        <5> QED BY <5>3
      <4>2. h \notin {HourOf(u) : u \in DayChart(Today, zone)'}
        <5> SUFFICES ASSUME NEW u \in DayChart(Today, zone)', HourOf(u) = h PROVE FALSE
          OBVIOUS
        <5>1. u \in raw /\ u \in Times /\ u >= clock - RawRetention /\ DayOf(u, zone) = Today
          BY <1>1, <1>2, <1>3
        <5>2. u = clock - RawRetention
          <6>1. HourOf(t) = HourOf(u) /\ clock - RawRetention \in Int
            BY <1>1, RollupBounds
          <6> QED BY <2>0, <2>2, <5>1, <6>1, SameHour
        <5>3. u \in Int /\ clock - u >= RawRetention
          BY <1>1, <5>2, RollupBounds
        <5>4. DayOf(u, zone) < DayOf(clock, zone)
          BY <1>1, <5>3, RawIsPast
        <5> QED BY <1>4, <5>1, <5>4
      <4> HIDE DEF h
      <4> QED BY <1>2, <1>6, <3>1, <3>3, <4>1, <4>2
    <3> QED BY <3>2, <3>3
  <2>3. t \in Int /\ clock - RawRetention \in Int
    BY <1>1, <2>0, RollupBounds
  <2> QED BY <2>1, <2>2, <2>3
<1>9. ASSUME NEW h \in DOMAIN hourly, 2 * h < Midnight(Today, zone),
             h \notin {HourOf(u) : u \in DayChart(Today, zone)}, NEW t \in hourly[h]
      PROVE  t \in ShownHistory'
  <2>1. CASE h \notin DOMAIN hourly'
    BY <1>7, <2>1
  <2>2. CASE h \in DOMAIN hourly'
    BY <1>2, <1>3, <1>6, <1>9, <2>2
  <2> QED BY <2>1, <2>2
<1>10. ASSUME NEW t \in ShownHistory PROVE t \in ShownHistory'
  BY <1>0, <1>6, <1>8, <1>9, <1>10, ShownIs
<1> QED BY <1>10

-----------------------------------------------------------------------------
(* The archive: what upkeep may lose. *)

\* A summed reading is in the raw rows or older than all of them; a day's hours
\* are in the table of hours or older than all of that; and what an hour has lost
\* is older than what it keeps.
Pruned(t) == t < clock - RawRetention /\ \A u \in raw : t < u
Gone(h) == /\ 2 * h < clock - HourlyRetention
           /\ \A g \in DOMAIN hourly : h < g
           /\ \A u \in raw : h < HourOf(u)
HoursHold ==
    \A h \in DOMAIN hourly :
        hourly[h] # {} /\ \A t \in hourly[h] : HourOf(t) = h /\ (t \in raw \/ Pruned(t))
DaysHold ==
    \A d \in DOMAIN daily : \A t \in daily[d] :
        /\ t \in raw \/ Pruned(t)
        /\ HourOf(t) \in DOMAIN hourly \/ Gone(HourOf(t))
        /\ HourOf(t) \in DOMAIN hourly /\ t \notin hourly[HourOf(t)] =>
              t \notin raw /\ \A u \in hourly[HourOf(t)] : t < u
AgesInv == ArchiveInv /\ HoursHold /\ DaysHold

LEMMA AgesStart == RollupInit => AgesInv
<1> SUFFICES ASSUME RollupInit PROVE AgesInv
  OBVIOUS
<1>1. DOMAIN hourly = {} /\ DOMAIN daily = {}
  <2>1. hourly = <<>> /\ daily = <<>>
    BY DEF RollupInit
  <2> QED BY <2>1
<1> QED BY <1>1, ArchiveStarts DEF AgesInv, HoursHold, DaysHold

\* Nothing that is gone is touched by what comes later.
LEMMA AgesAre ==
    ASSUME RollupTypeOK
    PROVE  /\ clock \in Nat /\ raw \subseteq Times /\ Times \subseteq Nat
           /\ \A t \in Times : HourOf(t) \in Nat /\ 2 * HourOf(t) <= t /\ t <= 2 * HourOf(t) + 1
           /\ Hours \subseteq Nat
           /\ DOMAIN hourly \subseteq Hours /\ \A h \in DOMAIN hourly : hourly[h] \subseteq Times
           /\ \A d \in DOMAIN daily : daily[d] \subseteq Times
<1>1. Times \subseteq Nat /\ Hours \subseteq Nat
  BY DEF Times, Hours
<1>2. clock \in Times /\ raw \subseteq Times
  BY DEF RollupTypeOK
<1> QED BY <1>1, <1>2, HoursAre DEF RollupTypeOK

LEMMA StoreReadingAges ==
    ASSUME AgesInv, StoreReading
    PROVE  AgesInv'
<1>0. RollupTypeOK /\ HoursHold /\ DaysHold /\ ArchiveInv'
  BY StoreReadingKeeps DEF AgesInv, ArchiveInv
<1>1. PICK s \in {clock - 1, clock} \cap (Times \ raw) : raw' = raw \cup {s}
  BY DEF StoreReading
<1>2. clock' = clock /\ hourly' = hourly /\ daily' = daily
  BY DEF StoreReading
<1>3. ASSUME NEW t \in Times, Pruned(t) PROVE Pruned(t)' /\ t # s
  <2>1. t \in Nat /\ clock \in Nat /\ s \in Int /\ clock - 1 <= s
    BY <1>0, <1>1, AgesAre
  <2>2. t < s
    BY <1>3, <2>1, RollupBounds DEF Pruned
  <2> QED BY <1>1, <1>2, <1>3, <2>1, <2>2 DEF Pruned
<1>4. ASSUME NEW h \in Nat, Gone(h) PROVE Gone(h)'
  <2>1. clock \in Nat /\ s \in Times /\ clock - 1 <= s
    BY <1>0, <1>1, AgesAre
  <2>2. s \in Nat /\ HourOf(s) \in Nat /\ s <= 2 * HourOf(s) + 1
    BY <2>1, <1>0, AgesAre
  <2>3. 2 * h + 3 <= clock
    BY <1>4, <2>1, RollupBounds DEF Gone
  <2>4. h < HourOf(s)
    BY <2>1, <2>2, <2>3
  <2> QED BY <1>1, <1>2, <1>4, <2>4 DEF Gone
<1>5. HoursHold'
  <2>1. \A h \in DOMAIN hourly : hourly[h] \subseteq Times
    BY <1>0, AgesAre
  <2> QED BY <1>0, <1>1, <1>2, <1>3, <2>1 DEF HoursHold
<1>6. DaysHold'
  <2> SUFFICES ASSUME NEW d \in DOMAIN daily, NEW t \in daily[d]
               PROVE  /\ t \in raw' \/ Pruned(t)'
                      /\ HourOf(t) \in DOMAIN hourly \/ Gone(HourOf(t))'
                      /\ HourOf(t) \in DOMAIN hourly /\ t \notin hourly[HourOf(t)] =>
                            t \notin raw' /\ \A u \in hourly[HourOf(t)] : t < u
    BY <1>2 DEF DaysHold
  <2>1. t \in Times /\ HourOf(t) \in Nat
    BY <1>0, AgesAre
  <2>2. /\ t \in raw \/ Pruned(t)
        /\ HourOf(t) \in DOMAIN hourly \/ Gone(HourOf(t))
        /\ HourOf(t) \in DOMAIN hourly /\ t \notin hourly[HourOf(t)] =>
              t \notin raw /\ \A u \in hourly[HourOf(t)] : t < u
    BY <1>0 DEF DaysHold
  <2>3. t \notin raw => t \notin raw'
    BY <1>1, <1>3, <2>1, <2>2
  <2> QED BY <1>1, <1>3, <1>4, <2>1, <2>2, <2>3
<1> QED BY <1>0, <1>5, <1>6 DEF AgesInv

LEMMA LongerAgo ==
    ASSUME NEW a \in Nat, NEW b \in Nat, a <= b, NEW t \in Nat, NEW r \in Nat, t < a - r
    PROVE  t < b - r
OBVIOUS

LEMMA OthersAge ==
    ASSUME AgesInv, Passes \/ Moves \/ Misses \/ TickStarts \/ SetMarker \/ UNCHANGED rollupVars
    PROVE  AgesInv'
<1>0. RollupTypeOK /\ HoursHold /\ DaysHold /\ ArchiveInv'
  BY OthersKeep DEF AgesInv, ArchiveInv
<1>1. /\ raw' = raw /\ hourly' = hourly /\ daily' = daily
      /\ clock' = clock \/ clock' = clock + 1
  BY DEF Passes, Moves, Misses, TickStarts, SetMarker, rollupVars
<1>2. clock \in Nat /\ clock' \in Nat /\ clock <= clock'
  BY <1>0, <1>1, AgesAre
<1>3. ASSUME NEW t \in Times, Pruned(t) PROVE Pruned(t)'
  <2>1. t \in Nat /\ RawRetention \in Nat
    BY <1>0, AgesAre, RollupBounds
  <2>2. t < clock - RawRetention
    BY <1>3 DEF Pruned
  <2>3. t < clock' - RawRetention
    BY <1>2, <2>1, <2>2, LongerAgo
  <2> QED BY <1>1, <1>3, <2>3 DEF Pruned
<1>4. ASSUME NEW h \in Nat, Gone(h) PROVE Gone(h)'
  <2>1. 2 * h \in Nat /\ HourlyRetention \in Nat
    BY RollupBounds
  <2>2. 2 * h < clock - HourlyRetention
    BY <1>4 DEF Gone
  <2>3. 2 * h < clock' - HourlyRetention
    BY <1>2, <2>1, <2>2, LongerAgo
  <2> QED BY <1>1, <1>4, <2>3 DEF Gone
<1>5. HoursHold'
  <2>1. \A h \in DOMAIN hourly : hourly[h] \subseteq Times
    BY <1>0, AgesAre
  <2> QED BY <1>0, <1>1, <1>3, <2>1 DEF HoursHold
<1>6. DaysHold'
  <2>1. \A d \in DOMAIN daily : \A t \in daily[d] : t \in Times /\ HourOf(t) \in Nat
    BY <1>0, AgesAre
  <2> QED BY <1>0, <1>1, <1>3, <1>4, <2>1 DEF DaysHold
<1> QED BY <1>0, <1>5, <1>6 DEF AgesInv

LEMMA RebuildIs ==
    ASSUME RollupTypeOK, Rebuild
    PROVE  /\ UNCHANGED <<clock, raw, hourly, zone>> /\ tick.at = "rebuild"
           /\ \A d \in DOMAIN daily' : \/ d \in DOMAIN daily /\ daily'[d] = daily[d]
                                       \/ daily'[d] = Merged(hourly, d, zone)
           /\ \/ daily' = daily
              \/ /\ hourly # <<>> /\ DOMAIN hourly # {}
                 /\ \A d \in DOMAIN daily :
                       ~(FirstWholeDay(zone) <= d) => d \in DOMAIN daily' /\ daily'[d] = daily[d]
                 /\ \A d \in CompletedDays(hourly, zone, tick.now) :
                       d >= FirstWholeDay(zone) =>
                          d \in DOMAIN daily' /\ daily'[d] = Merged(hourly, d, zone)
<1> DEFINE again == {d \in CompletedDays(hourly, zone, tick.now) : d >= FirstWholeDay(zone)}
           gone == {d \in DOMAIN daily : FirstWholeDay(zone) <= d /\ d < DayOf(tick.now, zone)}
           new == [d \in again |-> Merged(hourly, d, zone)]
           old == [d \in DOMAIN daily \ gone |-> daily[d]]
<1>1. UNCHANGED <<clock, raw, hourly, zone>> /\ tick.at = "rebuild"
  BY DEF Rebuild
<1>2. daily' = daily \/ (hourly # <<>> /\ again # {} /\ daily' = Over(new, old))
  BY DEF Rebuild
<1>3. /\ DOMAIN new = again /\ \A d \in again : new[d] = Merged(hourly, d, zone)
      /\ DOMAIN old = DOMAIN daily \ gone /\ \A d \in DOMAIN daily \ gone : old[d] = daily[d]
  OBVIOUS
<1>4. ASSUME daily' = Over(new, old)
      PROVE  /\ DOMAIN daily' = again \cup (DOMAIN daily \ gone)
             /\ \A d \in again : daily'[d] = Merged(hourly, d, zone)
             /\ \A d \in (DOMAIN daily \ gone) \ again : daily'[d] = daily[d]
  <2> HIDE DEF new, old, again, gone
  <2> QED BY <1>3, <1>4 DEF Over
<1>5. again # {} => DOMAIN hourly # {}
  BY DEF CompletedDays
<1>6. /\ \A d \in CompletedDays(hourly, zone, tick.now) : d >= FirstWholeDay(zone) => d \in again
      /\ \A d \in DOMAIN daily : ~(FirstWholeDay(zone) <= d) => d \notin gone /\ d \notin again
  OBVIOUS
<1> HIDE DEF new, old, again, gone
<1>7. CASE daily' = daily
  BY <1>1, <1>7
<1>8. CASE hourly # <<>> /\ again # {} /\ daily' = Over(new, old)
  BY <1>1, <1>4, <1>5, <1>6, <1>8
<1> QED BY <1>2, <1>7, <1>8

LEMMA RebuildAges ==
    ASSUME AgesInv, Rebuild
    PROVE  AgesInv'
<1>0. RollupTypeOK /\ HoursHold /\ DaysHold /\ ArchiveInv'
  BY RebuildKeeps DEF AgesInv, ArchiveInv
<1>1. /\ raw' = raw /\ hourly' = hourly /\ clock' = clock
      /\ \A d \in DOMAIN daily' : \/ d \in DOMAIN daily /\ daily'[d] = daily[d]
                                  \/ daily'[d] = Merged(hourly, d, zone)
  BY <1>0, RebuildIs
<1>2. HoursHold'
  BY <1>0, <1>1 DEF HoursHold, Pruned
<1>3. DaysHold'
  <2> SUFFICES ASSUME NEW d \in DOMAIN daily', NEW t \in daily'[d]
               PROVE  /\ t \in raw \/ Pruned(t)
                      /\ HourOf(t) \in DOMAIN hourly \/ Gone(HourOf(t))
                      /\ HourOf(t) \in DOMAIN hourly /\ t \notin hourly[HourOf(t)] =>
                            t \notin raw /\ \A u \in hourly[HourOf(t)] : t < u
    BY <1>1 DEF DaysHold, Pruned, Gone
  <2>1. CASE d \in DOMAIN daily /\ daily'[d] = daily[d]
    BY <1>0, <2>1 DEF DaysHold
  <2>2. CASE daily'[d] = Merged(hourly, d, zone)
    <3>1. PICK h \in DOMAIN hourly : t \in hourly[h]
      BY <2>2 DEF Merged
    <3>2. HourOf(t) = h /\ (t \in raw \/ Pruned(t))
      BY <1>0, <3>1 DEF HoursHold
    <3> QED BY <3>1, <3>2
  <2> QED BY <1>1, <2>1, <2>2
<1> QED BY <1>0, <1>2, <1>3 DEF AgesInv

LEMMA RollupIs ==
    ASSUME ArchiveInv, Rollup
    PROVE  /\ UNCHANGED <<clock, raw, zone>> /\ tick.now = clock
           /\ DOMAIN hourly \subseteq DOMAIN hourly'
           /\ \A h \in DOMAIN hourly' :
                 \/ h \in DOMAIN hourly /\ hourly'[h] = hourly[h]
                 \/ hourly'[h] = {t \in raw : HourOf(t) = h} /\ hourly'[h] # {}
           /\ DOMAIN daily \subseteq DOMAIN daily'
           /\ \A d \in DOMAIN daily' :
                 \/ d \in DOMAIN daily /\ daily'[d] = daily[d]
                 \/ d \in CompletedDays(hourly', zone, clock)
           /\ \A d \in CompletedDays(hourly', zone, clock) :
                 d \in DOMAIN daily' /\ daily'[d] = Merged(hourly', d, zone)
<1> DEFINE over == {h \in {HourOf(t) : t \in raw} : h < HourOf(tick.now)}
           sums == [h \in over |-> {t \in raw : HourOf(t) = h}]
           hours == Over(sums, hourly)
           done == CompletedDays(hours, zone, tick.now)
           days == [d \in done |-> Merged(hours, d, zone)]
<1>1. /\ UNCHANGED <<clock, raw, zone>> /\ tick.now = clock
      /\ hourly' = hours /\ daily' = Over(days, daily)
  BY DEF Rollup, ArchiveInv, SummedFirst
<1>2. DOMAIN sums = over /\ \A h \in over : sums[h] = {t \in raw : HourOf(t) = h}
  OBVIOUS
<1>3. \A h \in over : {t \in raw : HourOf(t) = h} # {}
  OBVIOUS
<1>4. /\ DOMAIN hours = over \cup DOMAIN hourly /\ \A h \in over : hours[h] = sums[h]
      /\ \A h \in DOMAIN hourly \ over : hours[h] = hourly[h]
  <2> HIDE DEF sums, over
  <2> QED BY <1>2 DEF Over
<1> HIDE DEF hours, sums, over
<1>5. DOMAIN days = done /\ \A d \in done : days[d] = Merged(hours, d, zone)
  OBVIOUS
<1> HIDE DEF days, done
<1>6. /\ DOMAIN daily' = done \cup DOMAIN daily /\ \A d \in done : daily'[d] = Merged(hours, d, zone)
      /\ \A d \in DOMAIN daily \ done : daily'[d] = daily[d]
  BY <1>1, <1>5 DEF Over
<1>7. done = CompletedDays(hourly', zone, clock)
  BY <1>1 DEF done
<1>8. \A h \in DOMAIN hours : \/ h \in DOMAIN hourly /\ hours[h] = hourly[h]
                              \/ hours[h] = {t \in raw : HourOf(t) = h} /\ hours[h] # {}
  BY <1>2, <1>3, <1>4
<1> QED BY <1>1, <1>4, <1>6, <1>7, <1>8

LEMMA RollupAges ==
    ASSUME AgesInv, Rollup
    PROVE  AgesInv'
<1>0. ArchiveInv /\ RollupTypeOK /\ HoursHold /\ DaysHold /\ ArchiveInv'
  BY RollupKeeps DEF AgesInv, ArchiveInv
<1>1. /\ raw' = raw /\ clock' = clock /\ DOMAIN hourly \subseteq DOMAIN hourly'
      /\ \A h \in DOMAIN hourly' :
            \/ h \in DOMAIN hourly /\ hourly'[h] = hourly[h]
            \/ hourly'[h] = {t \in raw : HourOf(t) = h} /\ hourly'[h] # {}
      /\ \A d \in DOMAIN daily' : \/ d \in DOMAIN daily /\ daily'[d] = daily[d]
                                  \/ daily'[d] = Merged(hourly', d, zone)
  BY <1>0, RollupIs
<1>2. HoursHold'
  BY <1>0, <1>1 DEF HoursHold, Pruned
<1>3. ASSUME NEW h \in Nat, Gone(h) PROVE Gone(h)'
  <2>1. ASSUME NEW g \in DOMAIN hourly' PROVE h < g
    <3>1. CASE g \in DOMAIN hourly
      BY <1>3, <3>1 DEF Gone
    <3>2. CASE g \notin DOMAIN hourly
      <4>1. PICK u \in raw : HourOf(u) = g
        BY <1>1, <2>1, <3>2
      <4> QED BY <1>3, <4>1 DEF Gone
    <3> QED BY <3>1, <3>2
  <2> QED BY <1>1, <1>3, <2>1 DEF Gone
<1>4. DaysHold'
  <2> SUFFICES ASSUME NEW d \in DOMAIN daily', NEW t \in daily'[d]
               PROVE  /\ t \in raw \/ Pruned(t)
                      /\ HourOf(t) \in DOMAIN hourly' \/ Gone(HourOf(t))'
                      /\ HourOf(t) \in DOMAIN hourly' /\ t \notin hourly'[HourOf(t)] =>
                            t \notin raw /\ \A u \in hourly'[HourOf(t)] : t < u
    BY <1>1 DEF DaysHold, Pruned
  <2>1. CASE d \in DOMAIN daily /\ daily'[d] = daily[d]
    <3>1. t \in raw \/ Pruned(t)
      BY <1>0, <2>1 DEF DaysHold
    <3>2. HourOf(t) \in DOMAIN hourly \/ Gone(HourOf(t))
      BY <1>0, <2>1 DEF DaysHold
    <3>3. HourOf(t) \in Nat
      BY <1>0, <2>1, AgesAre
    <3>4. ASSUME HourOf(t) \in DOMAIN hourly', t \notin hourly'[HourOf(t)]
          PROVE  t \notin raw /\ \A u \in hourly'[HourOf(t)] : t < u
      <4>1. CASE hourly'[HourOf(t)] = {u \in raw : HourOf(u) = HourOf(t)}
        BY <3>1, <3>4, <4>1 DEF Pruned
      <4>2. CASE HourOf(t) \in DOMAIN hourly /\ hourly'[HourOf(t)] = hourly[HourOf(t)]
        BY <1>0, <2>1, <3>4, <4>2 DEF DaysHold
      <4> QED BY <1>1, <3>4, <4>1, <4>2
    <3> QED BY <1>1, <1>3, <3>1, <3>2, <3>3, <3>4
  <2>2. CASE daily'[d] = Merged(hourly', d, zone)
    <3>1. PICK h \in DOMAIN hourly' : t \in hourly'[h]
      BY <2>2 DEF Merged
    <3>2. HourOf(t) = h /\ (t \in raw \/ Pruned(t))
      BY <1>1, <1>2, <3>1 DEF HoursHold, Pruned
    <3> QED BY <3>1, <3>2
  <2> QED BY <1>1, <2>1, <2>2
<1> QED BY <1>0, <1>2, <1>4 DEF AgesInv

LEMMA PruneAges ==
    ASSUME AgesInv, PruneTables
    PROVE  AgesInv'
<1>0. ArchiveInv /\ RollupTypeOK /\ HoursHold /\ DaysHold /\ ArchiveInv'
  BY PruneTypes DEF AgesInv, ArchiveInv
<1>1. /\ raw' = {t \in raw : t >= clock - RawRetention}
      /\ DOMAIN hourly' = {g \in DOMAIN hourly : 2 * g >= clock - HourlyRetention}
      /\ \A h \in DOMAIN hourly' : hourly'[h] = hourly[h]
      /\ daily' = daily /\ clock' = clock
  BY <1>0 DEF PruneTables, ArchiveInv, SummedFirst
<1>2. /\ clock \in Nat /\ RawRetention \in Nat /\ HourlyRetention \in Nat
      /\ HourlyRetention > RawRetention /\ raw \subseteq Nat /\ DOMAIN hourly \subseteq Nat
  BY <1>0, AgesAre, RollupBounds
<1>3. ASSUME NEW t \in Times, t \in raw \/ Pruned(t) PROVE t \in raw' \/ Pruned(t)'
  <2>1. t \in Nat
    BY <1>0, AgesAre
  <2>2. CASE t \in raw /\ ~(t >= clock - RawRetention)
    <3>1. t < clock - RawRetention
      BY <1>2, <2>1, <2>2
    <3>2. \A u \in raw' : t < u
      BY <1>1, <1>2, <2>1, <3>1
    <3> QED BY <1>1, <3>1, <3>2 DEF Pruned
  <2> QED BY <1>1, <1>3, <2>2 DEF Pruned
<1>4. ASSUME NEW h \in Nat, Gone(h) PROVE Gone(h)'
  BY <1>1, <1>4 DEF Gone
<1>5. ASSUME NEW h \in DOMAIN hourly, h \notin DOMAIN hourly' PROVE Gone(h)'
  <2>1. h \in Nat /\ 2 * h < clock - HourlyRetention
    BY <1>1, <1>2, <1>5
  <2>2. \A g \in DOMAIN hourly' : h < g
    BY <1>1, <1>2, <2>1
  <2>3. ASSUME NEW u \in raw' PROVE h < HourOf(u)
    <3>1. u \in Nat /\ u >= clock - RawRetention /\ HourOf(u) \in Nat /\ u <= 2 * HourOf(u) + 1
      BY <1>0, <1>1, <1>2, <2>3, AgesAre
    <3>2. 2 * h + 2 <= u
      BY <1>2, <2>1, <3>1
    <3> QED BY <2>1, <3>1, <3>2
  <2> QED BY <1>1, <2>1, <2>2, <2>3 DEF Gone
<1>6. HoursHold'
  <2> SUFFICES ASSUME NEW h \in DOMAIN hourly'
               PROVE  /\ hourly[h] # {}
                      /\ \A t \in hourly[h] : HourOf(t) = h /\ (t \in raw' \/ Pruned(t)')
    BY <1>1 DEF HoursHold
  <2>1. h \in DOMAIN hourly /\ hourly[h] \subseteq Times
    BY <1>0, <1>1, AgesAre
  <2> QED BY <1>0, <1>3, <2>1 DEF HoursHold
<1>7. DaysHold'
  <2> SUFFICES ASSUME NEW d \in DOMAIN daily, NEW t \in daily[d]
               PROVE  /\ t \in raw' \/ Pruned(t)'
                      /\ HourOf(t) \in DOMAIN hourly' \/ Gone(HourOf(t))'
                      /\ HourOf(t) \in DOMAIN hourly' /\ t \notin hourly'[HourOf(t)] =>
                            t \notin raw' /\ \A u \in hourly'[HourOf(t)] : t < u
    BY <1>1 DEF DaysHold
  <2>1. t \in Times /\ HourOf(t) \in Nat
    BY <1>0, AgesAre
  <2>2. /\ t \in raw \/ Pruned(t)
        /\ HourOf(t) \in DOMAIN hourly \/ Gone(HourOf(t))
        /\ HourOf(t) \in DOMAIN hourly /\ t \notin hourly[HourOf(t)] =>
              t \notin raw /\ \A u \in hourly[HourOf(t)] : t < u
    BY <1>0 DEF DaysHold
  <2>3. t \in raw' \/ Pruned(t)'
    BY <1>3, <2>1, <2>2
  <2>4. HourOf(t) \in DOMAIN hourly' \/ Gone(HourOf(t))'
    BY <1>4, <1>5, <2>1, <2>2
  <2>5. DOMAIN hourly' \subseteq DOMAIN hourly /\ raw' \subseteq raw
    BY <1>1
  <2> QED BY <1>1, <2>2, <2>3, <2>4, <2>5
<1> QED BY <1>0, <1>6, <1>7 DEF AgesInv

LEMMA AgesKept == AgesInv /\ [RollupNext]_rollupVars => AgesInv'
BY StoreReadingAges, OthersAge, RebuildAges, RollupAges, PruneAges DEF RollupNext

\* A reading that is no longer a raw row is not of today.
LEMMA PrunedIsPast ==
    ASSUME RollupTypeOK, NEW t \in Times, Pruned(t)
    PROVE  HourDay(HourOf(t), zone) < Today
<1>1. clock \in Nat /\ t \in Nat /\ zone \in Zones /\ 2 * HourOf(t) <= t /\ HourOf(t) \in Nat
  BY AgesAre DEF RollupTypeOK
<1>2. clock - 2 * HourOf(t) >= RawRetention /\ 2 * HourOf(t) \in Int /\ clock \in Int
  BY <1>1, RollupBounds DEF Pruned
<1> QED BY <1>1, <1>2, RawIsPast DEF HourDay, Today

LEMMA DayShows ==
    ASSUME RollupTypeOK, NEW d \in DOMAIN daily, d <= Today, NEW t \in daily[d]
    PROVE  t \in ShownHistory
BY ShownIs

LEMMA ShownFrom ==
    ASSUME RollupTypeOK, NEW t \in ShownHistory, t \notin raw
    PROVE  \/ \E d \in DOMAIN daily : d <= Today /\ t \in daily[d]
           \/ \E h \in DOMAIN hourly : /\ 2 * h < Midnight(Today, zone)
                                       /\ h \notin {HourOf(u) : u \in DayChart(Today, zone)}
                                       /\ t \in hourly[h]
BY ShownIs

\* What is shown after a step, of whose types only the shape matters.
LEMMA ShownAfter ==
    ASSUME RollupTypeOK'
    PROVE  /\ \A t \in raw' : t \in ShownHistory'
           /\ \A d \in DOMAIN daily' : d <= Today' => \A t \in daily'[d] : t \in ShownHistory'
           /\ \A h \in DOMAIN hourly' :
                 /\ 2 * h < Midnight(Today', zone')
                 /\ h \notin {HourOf(u) : u \in DayChart(Today, zone)'}
                 => \A t \in hourly'[h] : t \in ShownHistory'
<1>1. (RollupTypeOK => \A t : t \in ShownHistory <=>
              \/ t \in raw
              \/ \E d \in DOMAIN daily : d <= Today /\ t \in daily[d]
              \/ \E h \in DOMAIN hourly : /\ 2 * h < Midnight(Today, zone)
                                          /\ h \notin {HourOf(u) : u \in DayChart(Today, zone)}
                                          /\ t \in hourly[h])'
  BY ShownIs, PTL
<1>2. \A t : t \in ShownHistory' <=>
              \/ t \in raw'
              \/ \E d \in DOMAIN daily' : d <= Today' /\ t \in daily'[d]
              \/ \E h \in DOMAIN hourly' : /\ 2 * h < Midnight(Today', zone')
                                           /\ h \notin {HourOf(u) : u \in DayChart(Today, zone)'}
                                           /\ t \in hourly'[h]
  BY <1>1
<1> QED BY <1>2

LEMMA RollupShows ==
    ASSUME AgesInv, Rollup
    PROVE  ShownHistory \ ShownHistory' \subseteq Cut(hourly') \cup Frayed(daily, daily')
<1>0. /\ ArchiveInv /\ RollupTypeOK /\ HoursHold /\ DaysHold
      /\ RollupTypeOK' /\ HoursHold'
  BY RollupAges DEF AgesInv, ArchiveInv
<1>1. /\ UNCHANGED <<clock, raw, zone>>
      /\ DOMAIN hourly \subseteq DOMAIN hourly'
      /\ \A h \in DOMAIN hourly' :
            \/ h \in DOMAIN hourly /\ hourly'[h] = hourly[h]
            \/ hourly'[h] = {t \in raw : HourOf(t) = h} /\ hourly'[h] # {}
      /\ DOMAIN daily \subseteq DOMAIN daily'
      /\ \A d \in DOMAIN daily' :
            \/ d \in DOMAIN daily /\ daily'[d] = daily[d]
            \/ d \in CompletedDays(hourly', zone, clock)
      /\ \A d \in CompletedDays(hourly', zone, clock) :
            d \in DOMAIN daily' /\ daily'[d] = Merged(hourly', d, zone)
  BY <1>0, RollupIs
<1>2. Today' = Today /\ Today = DayOf(clock, zone) /\ Today \in Int
  BY <1>0, <1>1, DayIs, AgesAre DEF Today, RollupTypeOK
<1> SUFFICES ASSUME NEW t \in ShownHistory, t \notin ShownHistory'
             PROVE  t \in Cut(hourly') \cup Frayed(daily, daily')
  OBVIOUS
<1> DEFINE h == HourOf(t)
<1>3. t \notin raw
  BY <1>0, <1>1, ShownAfter
<1>4. \/ \E d \in DOMAIN daily : d <= Today /\ t \in daily[d]
      \/ \E g \in DOMAIN hourly : t \in hourly[g] /\ g = h
  BY <1>0, <1>3, ShownFrom DEF HoursHold
<1>5. t \in Times /\ t \in Nat /\ h \in Nat /\ t <= 2 * h + 1
  BY <1>0, <1>4, AgesAre
<1>6. Pruned(t)
  BY <1>0, <1>3, <1>4 DEF HoursHold, DaysHold
\* A past day is summed from all its hours.
<1>7. ~(h \in DOMAIN hourly' /\ t \in hourly'[h])
  <2> SUFFICES ASSUME h \in DOMAIN hourly', t \in hourly'[h] PROVE FALSE
    OBVIOUS
  <2> DEFINE e == HourDay(h, zone)
  <2>1. e < Today
    BY <1>0, <1>5, <1>6, PrunedIsPast
  <2>2. e \in CompletedDays(hourly', zone, clock)
    BY <1>2, <2>1 DEF CompletedDays
  <2>3. e \in DOMAIN daily' /\ t \in daily'[e]
    BY <1>1, <2>2 DEF Merged
  <2>4. e \in Int
    BY <1>0, <1>5, DayIs DEF HourDay, RollupTypeOK
  <2>5. e <= Today'
    BY <1>2, <2>1, <2>4
  <2> HIDE DEF e
  <2> QED BY <1>0, <2>3, <2>5, ShownAfter
<1>8. CASE h \in DOMAIN hourly'
  <2>1. hourly'[h] = {u \in raw : HourOf(u) = h} /\ hourly'[h] # {}
           => \E u \in hourly'[h] : u > t
    <3> SUFFICES ASSUME hourly'[h] = {u \in raw : HourOf(u) = h}, NEW u \in hourly'[h]
                 PROVE  u > t
      OBVIOUS
    <3>1. u \in raw /\ u \in Nat /\ t < u
      BY <1>0, <1>6, AgesAre DEF Pruned
    <3> QED BY <1>5, <3>1
  <2>2. h \in DOMAIN hourly /\ hourly'[h] = hourly[h] => \E u \in hourly'[h] : u > t
    <3> SUFFICES ASSUME h \in DOMAIN hourly, hourly'[h] = hourly[h]
                 PROVE  \E u \in hourly'[h] : u > t
      OBVIOUS
    <3>1. hourly[h] # {} /\ hourly[h] \subseteq Nat
      BY <1>0, AgesAre DEF HoursHold
    <3>2. t \notin hourly[h]
      BY <1>7, <1>8
    <3>3. \A u \in hourly[h] : t < u
      BY <1>0, <1>4, <3>2 DEF DaysHold
    <3> QED BY <1>5, <3>1, <3>3
  <2>3. \E u \in hourly'[h] : u > t
    BY <1>1, <1>8, <2>1, <2>2
  <2>4. t \in Cut(hourly')
    BY <1>5, <1>7, <1>8, <2>3 DEF Cut
  <2> QED BY <2>4
<1>9. CASE h \notin DOMAIN hourly'
  <2>1. PICK d \in DOMAIN daily : d <= Today /\ t \in daily[d]
    BY <1>1, <1>4, <1>9
  <2>2. Gone(h)
    BY <1>0, <1>1, <1>9, <2>1 DEF DaysHold
  <2>3. d \in DOMAIN daily' /\ t \notin daily'[d]
    BY <1>0, <1>1, <1>2, <2>1, ShownAfter
  <2>4. d \in CompletedDays(hourly', zone, clock) /\ daily'[d] = Merged(hourly', d, zone)
    BY <1>1, <2>1, <2>3
  <2>5. PICK g \in DOMAIN hourly' : HourDay(g, zone) = d
    BY <2>4 DEF CompletedDays
  <2>6. PICK u : u \in hourly'[g]
    BY <1>0, <2>5 DEF HoursHold
  <2>7. u \in daily'[d] /\ HourOf(u) = g
    BY <1>0, <2>4, <2>5, <2>6 DEF Merged, HoursHold
  <2>8. h < g
    BY <1>1, <2>2, <2>6, <2>7 DEF Gone
  <2>9. u \in Nat /\ g \in Nat /\ 2 * g <= u
    <3>1. \A k \in DOMAIN hourly' : hourly'[k] \subseteq Times
      BY <1>0 DEF RollupTypeOK, Times
    <3>2. u \in Times
      BY <1>0, <2>6, <3>1
    <3>3. Times \subseteq Nat /\ HourOf(u) \in Nat /\ 2 * HourOf(u) <= u
      BY <1>0, <3>2, AgesAre
    <3> QED BY <2>7, <3>2, <3>3
  <2>10. u > t
    BY <1>5, <2>8, <2>9
  <2>11. t \in Frayed(daily, daily')
    BY <1>3, <2>1, <2>7, <2>10 DEF Frayed
  <2> QED BY <2>11
<1> QED BY <1>8, <1>9

\* A local day has none of what lies before its midnight.
LEMMA BeforeMidnight ==
    ASSUME NEW d \in Int, NEW z \in Zones, NEW s \in Int, s < Midnight(d, z)
    PROVE  DayOf(s, z) # d
<1> SUFFICES ASSUME DayOf(s, z) = d PROVE FALSE
  OBVIOUS
<1> DEFINE D == 2 * DayHours
           S == {t \in (D * (d - 1))..(D * (d + 1)) : DayOf(t, z) = d}
<1>1. D \in Nat \ {0} /\ Offset(s, z) \in Int /\ -D <= Offset(s, z) /\ Offset(s, z) <= D
  BY OffsetIs, RollupBounds, RollupAssumption DEF Offsets
<1>2. D * d <= s + Offset(s, z)
  BY DayIs
<1>3. Midnight(d, z) = Min(S)
  BY DEF Midnight
<1> HIDE DEF D
<1>4. D * d \in Int /\ D * (d - 1) = D * d - D /\ D * (d + 1) = D * d + D
  BY <1>1
<1>5. S \in SUBSET ((D * d - D)..(D * d + D)) /\ S # {}
  <2>1. Midnight(d, z) \in S
    BY MidnightIs DEF D
  <2> QED BY <1>4, <2>1
<1>6. Min(S) \in S /\ \A y \in S : Min(S) <= y
  <2>1. D * d - D \in Int /\ D * d + D \in Int
    BY <1>1, <1>4
  <2> HIDE DEF S
  <2> QED BY <1>5, <2>1, LeastIs
<1>7. Min(S) \in Int /\ Min(S) <= D * d + D
  BY <1>1, <1>4, <1>6
<1>8. s \in S
  BY <1>1, <1>2, <1>3, <1>4, <1>7
<1> QED BY <1>3, <1>6, <1>7, <1>8

LEMMA FirstWholeIs ==
    ASSUME RollupTypeOK, DOMAIN hourly # {}
    PROVE  /\ FirstWholeDay(zone) \in Int
           /\ ClocksKeepDays =>
                 \A h \in Hours : (\A g \in DOMAIN hourly : h < g) =>
                     HourDay(h, zone) < FirstWholeDay(zone)
<1> DEFINE first == Min(DOMAIN hourly)
           b == HourDay(first, zone)
<1>1. first \in DOMAIN hourly /\ DOMAIN hourly \subseteq Hours /\ zone \in Zones
  <2>1. DOMAIN hourly \in SUBSET (0..(MaxTime \div 2)) /\ MaxTime \div 2 \in Int /\ zone \in Zones
    BY RollupBounds DEF RollupTypeOK, Hours
  <2> DEFINE S == DOMAIN hourly
             m == MaxTime \div 2
  <2>2. 0 \in Int /\ m \in Int /\ S \in SUBSET (0..m) /\ S # {}
    BY <2>1
  <2>3. Min(S) \in S
    <3> HIDE DEF S, m
    <3> QED BY <2>2, LeastIs
  <2> QED BY <2>1, <2>3 DEF Hours
<1>2. FirstWholeDay(zone) = IF 2 * first <= Midnight(b, zone) THEN b ELSE b + 1
  BY DEF FirstWholeDay
<1>3. first \in Hours /\ first \in Nat /\ 2 * first \in Times /\ 2 * first \in Nat
  BY <1>1, HourTimes
<1> HIDE DEF first
<1>4. b \in Int
  BY <1>1, <1>3, DayIs DEF HourDay
<1>5. ASSUME ClocksKeepDays, NEW h \in Hours, \A g \in DOMAIN hourly : h < g
      PROVE  HourDay(h, zone) < FirstWholeDay(zone)
  <2>1. h \in Nat /\ 2 * h \in Times /\ 2 * h \in Nat /\ h < first
    BY <1>1, <1>5, HourTimes DEF first
  <2>2. HourDay(h, zone) <= b
    BY <1>1, <1>3, <1>5, <2>1 DEF ClocksKeepDays, HourDay
  <2>3. HourDay(h, zone) \in Int
    BY <1>1, <2>1, DayIs DEF HourDay
  <2>4. 2 * first <= Midnight(b, zone) => HourDay(h, zone) # b
    <3> SUFFICES ASSUME 2 * first <= Midnight(b, zone) PROVE HourDay(h, zone) # b
      OBVIOUS
    <3>1. Midnight(b, zone) \in Int
      BY <1>1, <1>4, MidnightIs
    <3> HIDE DEF b
    <3>2. 2 * h < Midnight(b, zone) /\ 2 * h \in Int
      BY <1>3, <2>1, <3>1
    <3> QED BY <1>1, <1>4, <3>2, BeforeMidnight DEF HourDay
  <2> HIDE DEF b
  <2> QED BY <1>2, <1>4, <2>2, <2>3, <2>4
<1> HIDE DEF b
<1> QED BY <1>2, <1>4, <1>5

LEMMA RebuildShows ==
    ASSUME ClocksKeepDays, AgesInv, Rebuild
    PROVE  ShownHistory \ ShownHistory' \subseteq Seam \cup Cut(hourly)
<1>0. RollupTypeOK /\ HoursHold /\ DaysHold /\ RollupTypeOK' /\ tick.now = clock
  BY RebuildAges DEF AgesInv, ArchiveInv, SummedFirst, Rebuild
<1>1. /\ UNCHANGED <<clock, raw, hourly, zone>>
      /\ \/ daily' = daily
         \/ /\ hourly # <<>> /\ DOMAIN hourly # {}
            /\ \A d \in DOMAIN daily :
                  ~(FirstWholeDay(zone) <= d) => d \in DOMAIN daily' /\ daily'[d] = daily[d]
            /\ \A d \in CompletedDays(hourly, zone, clock) :
                  d >= FirstWholeDay(zone) =>
                     d \in DOMAIN daily' /\ daily'[d] = Merged(hourly, d, zone)
  BY <1>0, RebuildIs
<1>2. Today' = Today /\ Today = DayOf(clock, zone) /\ Today \in Int
  BY <1>0, <1>1, DayIs, AgesAre DEF Today, RollupTypeOK
<1> SUFFICES ASSUME NEW t \in ShownHistory, t \notin ShownHistory'
             PROVE  t \in Seam \cup Cut(hourly)
  OBVIOUS
<1> DEFINE h == HourOf(t)
           e == HourDay(h, zone)
<1>3. t \notin raw
  BY <1>0, <1>1, ShownAfter
<1>4. \/ \E d \in DOMAIN daily : d <= Today /\ t \in daily[d]
      \/ \E g \in DOMAIN hourly : t \in hourly[g] /\ g = h
  BY <1>0, <1>3, ShownFrom DEF HoursHold
<1>5. t \in Times /\ t \in Nat /\ h \in Hours /\ h \in Nat
  BY <1>0, <1>4, AgesAre, HoursAre
<1>6. Pruned(t)
  BY <1>0, <1>3, <1>4 DEF HoursHold, DaysHold
<1>7. daily' # daily /\ hourly # <<>> /\ DOMAIN hourly # {} /\ FirstWholeDay(zone) \in Int
  <2>1. daily' = daily => ShownHistory' = ShownHistory
    BY <1>1, <1>2 DEF ShownHistory, History, MonthHours, TodaySummary, DayChart
  <2> QED BY <1>0, <1>1, <2>1, FirstWholeIs
\* The hours are where they were, and so are the rows of the days before.
<1>8. e < FirstWholeDay(zone) => t \in Seam
  <2>1. PICK d \in DOMAIN daily : d <= Today /\ t \in daily[d]
    <3>1. DayChart(Today, zone)' = DayChart(Today, zone)
      BY <1>1, <1>2 DEF DayChart
    <3> QED BY <1>0, <1>1, <1>2, <1>3, <3>1, ShownFrom, ShownAfter
  <2>2. FirstWholeDay(zone) <= d
    BY <1>0, <1>1, <1>2, <1>7, <2>1, ShownAfter
  <2> QED BY <1>7, <2>1, <2>2 DEF Seam
<1>9. CASE h \in DOMAIN hourly /\ t \in hourly[h]
  <2>1. e < Today /\ e \in Int
    <3>1. e < Today
      BY <1>0, <1>5, <1>6, PrunedIsPast
    <3>2. zone \in Zones /\ 2 * h \in Int
      BY <1>0, <1>5 DEF RollupTypeOK
    <3>3. e \in Int
      BY <3>2, DayIs DEF HourDay
    <3> QED BY <3>1, <3>3
  <2>2. e \in CompletedDays(hourly, zone, clock)
    BY <1>2, <1>9, <2>1 DEF CompletedDays
  <2>3. t \in Merged(hourly, e, zone)
    BY <1>9 DEF Merged
  <2>4. ~(e >= FirstWholeDay(zone))
    <3> SUFFICES ASSUME e >= FirstWholeDay(zone) PROVE FALSE
      OBVIOUS
    <3> HIDE DEF e
    <3>1. e \in DOMAIN daily' /\ t \in daily'[e]
      BY <1>1, <1>7, <2>2, <2>3
    <3> QED BY <1>0, <1>2, <2>1, <3>1, ShownAfter
  <2> HIDE DEF e
  <2> QED BY <1>7, <1>8, <2>1, <2>4
<1>10. CASE h \in DOMAIN hourly /\ t \notin hourly[h]
  <2>1. hourly[h] # {} /\ hourly[h] \subseteq Nat
    BY <1>0, <1>10, AgesAre DEF HoursHold
  <2>2. \A u \in hourly[h] : t < u
    BY <1>0, <1>4, <1>10 DEF DaysHold
  <2>3. \E u \in hourly[h] : u > t
    BY <1>5, <2>1, <2>2
  <2> QED BY <1>5, <1>10, <2>3 DEF Cut
<1>11. CASE h \notin DOMAIN hourly
  <2>1. \A g \in DOMAIN hourly : h < g
    BY <1>0, <1>4, <1>11 DEF DaysHold, Gone
  <2> QED BY <1>0, <1>5, <1>7, <1>8, <2>1, FirstWholeIs
<1> QED BY <1>9, <1>10, <1>11

-----------------------------------------------------------------------------
(* Both parts of an island. *)

LEMMA IslandMoves ==
    /\ IslandInit => Init /\ RollupInit
    /\ [IslandNext]_islandVars => [Next]_vars /\ [RollupNext]_rollupVars
BY DEF IslandInit, IslandNext, islandVars

LEMMA IslandArchive == IslandSpec => []ArchiveInv
BY IslandMoves, ArchiveStarts, ArchiveKept, PTL DEF IslandSpec

\* The keystore and its callers, and the rows of the archive, are well formed,
\* for any keys, requests, retentions and timezones.
THEOREM IslandTypeCorrect == IslandSpec => []IslandTypeOK
<1>1. IslandSpec => Spec
  BY IslandMoves, PTL DEF IslandSpec, Spec
<1>2. ArchiveInv /\ TypeOK => IslandTypeOK
  BY DEF ArchiveInv, IslandTypeOK
<1> QED BY <1>1, <1>2, TypeCorrect, IslandArchive, PTL

\* The prune takes no reading out of every chart, summary and history
\* (_prune_sync): the same tick has summed it (_rollup_sync), and at such an age
\* that its day is over in any timezone the user may have moved to meanwhile.
THEOREM PruneTakesWhatIsSummed == IslandSpec => [][PruneKeepsHistory]_rollupVars
<1>1. ArchiveInv => [PruneKeepsHistory]_rollupVars
  BY PruneShows DEF PruneKeepsHistory
<1> QED BY <1>1, IslandArchive, PTL

LEMMA IslandAges == IslandSpec => []AgesInv
BY IslandMoves, AgesStart, AgesKept, PTL DEF IslandSpec

\* A roll-up (_rollup_sync) takes no reading out of every answer but the early
\* part of an hour or of a day whose later part it keeps: an hour is summed again
\* only while there are raw rows of it, and a past day from every hour there is.
THEOREM RollupLosesTheCut == IslandSpec => [][RollupKeepsHistory]_rollupVars
<1>1. AgesInv => [RollupKeepsHistory]_rollupVars
  BY RollupShows DEF RollupKeepsHistory
<1> QED BY <1>1, IslandAges, PTL

\* A rebuild for a new timezone (_rebuild_daily_local_sync) clears no row of the
\* days before the first whole one, and of what it clears it loses only the hours
\* of those days and what the rows of the hours had lost already.
THEOREM RebuildKeepsWholeDays ==
    ClocksKeepDays => (IslandSpec => [][RebuildKeepsHistory]_rollupVars)
<1>1. SUFFICES ASSUME ClocksKeepDays
               PROVE  IslandSpec => [][RebuildKeepsHistory]_rollupVars
  OBVIOUS
<1>2. AgesInv => [RebuildKeepsHistory]_rollupVars
  BY <1>1, RebuildShows DEF RebuildKeepsHistory
<1> QED BY <1>2, IslandAges, PTL
=============================================================================
