------------------------- MODULE ReadingOutbox_proofs -------------------------
(***************************************************************************)
(* What a row's state stands for, that the Live gate silences no inverter, *)
(* and that an eviction is final, for any number of readings, any batch    *)
(* and any limits.                                                         *)
(*                                                                         *)
(* Two invariants carry them.  OutboxInv is about the rows: what is marked *)
(* sent, and what has burnt its attempts.  GateInv is about the gate and   *)
(* what the drain holds; what a batch becomes there is a recursive         *)
(* function, which is shown to exist and then followed reading by reading. *)
(***************************************************************************)
EXTENDS ReadingOutbox, NaturalsInduction, WellFoundedInduction, TLAPS

\* The drain is a record, whatever a batch and the gate made of its sets.
IsDrain(d) ==
    d = [at |-> d.at, floor |-> d.floor, send |-> d.send, left |-> d.left,
         retries |-> d.retries, rejected |-> d.rejected, gating |-> d.gating,
         sent |-> d.sent, save |-> d.save]
Rows == [state : {"none", "pending", "failed", "sent", "skipped"}, attempts : Nat]
Shaped ==
    /\ IsDrain(drain)
    /\ row \in [Readings -> Rows]
    /\ refused \in [Readings -> 0..MaxAttempts]

-----------------------------------------------------------------------------
(* The inductive invariant, in three parts. *)

\* What a drain is about to mark sent is known already.
MarksKnown == drain.sent \subseteq uploaded /\ drain.rejected \subseteq withheld

\* The readings whose refusal a drain has heard and not yet stored.
Owed ==
    CASE drain.at = "rejected" -> drain.left
      [] drain.at \in {"accepted", "results"} -> drain.left \ drain.sent
      [] OTHER -> {}

\* Each attempt a row has burnt, and the one a drain is about to burn, is a
\* refusal of the cloud.
BurntByRefusals ==
    \A i \in Readings :
        \/ refused[i] = MaxAttempts
        \/ i \in Owed /\ row[i].attempts < refused[i]
        \/ i \notin Owed /\ row[i].attempts <= refused[i]

\* What the sender is about to store after a 410.
SavesEviction == drain.at = "evicted" => drain.save = "deprovisioned"

OutboxInv ==
    /\ Shaped /\ MarksKnown /\ SentIsKnown
    /\ BurntByRefusals /\ GivenUpOnlyWhenRefused /\ SavesEviction

-----------------------------------------------------------------------------
(* How the rows and the refusals move. *)

\* A store method touches state alone, or attempts as Failed does.
LEMMA MarkSentRows ==
    ASSUME row \in [Readings -> Rows], NEW s, NEW next, next = MarkSent(s)
    PROVE  /\ next \in [Readings -> Rows]
           /\ \A i \in Readings : /\ next[i].attempts = row[i].attempts
                                  /\ next[i].state = "skipped" => row[i].state = "skipped"
                                  /\ next[i].state = "sent" => (row[i].state = "sent" \/ i \in s)
BY DEF MarkSent, Held, Rows

LEMMA MarkFailedRows ==
    ASSUME row \in [Readings -> Rows], NEW s, NEW next, next = MarkFailed(s)
    PROVE  /\ next \in [Readings -> Rows]
           /\ \A i \in Readings :
                 /\ next[i].state = "sent" => row[i].state = "sent"
                 /\ i \notin s => next[i] = row[i]
                 /\ \/ next[i] = row[i]
                    \/ /\ next[i].attempts = row[i].attempts + 1
                       /\ next[i].state = "skipped" => next[i].attempts >= MaxAttempts
<1>1. \A r \in Rows :
         /\ Failed(r) \in Rows
         /\ Failed(r).state # "sent" /\ Failed(r).attempts = r.attempts + 1
         /\ Failed(r).state = "skipped" => Failed(r).attempts >= MaxAttempts
  BY OutboxAssumption DEF Failed, Rows
<1>2. \A i \in Readings : row[i] \in Rows
  OBVIOUS
<1>3. next = [i \in Readings |-> IF i \in Held(s) THEN Failed(row[i]) ELSE row[i]]
  BY DEF MarkFailed
<1>4. \A i \in Readings : \/ i \in s /\ next[i] = Failed(row[i])
                          \/ next[i] = row[i]
  BY <1>3 DEF Held
<1>5. next \in [Readings -> Rows]
  BY <1>1, <1>2, <1>3
<1> QED BY <1>1, <1>2, <1>4, <1>5

LEMMA SkipAgedRows ==
    ASSUME row \in [Readings -> Rows], NEW s, NEW next, next = SkipAged(s)
    PROVE  /\ next \in [Readings -> Rows]
           /\ \A i \in Readings :
                 /\ next[i].attempts = row[i].attempts
                 /\ next[i].state = "skipped" => (row[i].state = "skipped" \/ i \in s)
                 /\ next[i].state = "sent" => row[i].state = "sent"
<1> DEFINE Skipped(r) == [r EXCEPT !.state = "skipped"]
<1>1. \A r \in Rows : /\ Skipped(r) \in Rows /\ Skipped(r).attempts = r.attempts
                      /\ Skipped(r).state = "skipped"
  BY DEF Rows
<1>2. \A i \in Readings : row[i] \in Rows
  OBVIOUS
<1>3. next = [i \in Readings |-> IF i \in s THEN Skipped(row[i]) ELSE row[i]]
  BY DEF SkipAged
<1> HIDE DEF Skipped
<1>4. \A i \in Readings : \/ i \in s /\ next[i] = Skipped(row[i])
                          \/ i \notin s /\ next[i] = row[i]
  BY <1>3
<1>5. next \in [Readings -> Rows]
  BY <1>1, <1>2, <1>3
<1> QED BY <1>1, <1>2, <1>4, <1>5

LEMMA RefuseCounts ==
    ASSUME refused \in [Readings -> 0..MaxAttempts], NEW s, Refuse(s)
    PROVE  /\ refused' \in [Readings -> 0..MaxAttempts]
           /\ \A i \in Readings :
                 /\ refused'[i] >= refused[i]
                 /\ i \in s => (refused'[i] = MaxAttempts \/ refused'[i] = refused[i] + 1)
BY OutboxAssumption DEF Refuse

-----------------------------------------------------------------------------
(* How the drain moves. *)

LEMMA NoDrainIsQuiet ==
    IsDrain(NoDrain) /\ NoDrain.at = "idle" /\ NoDrain.sent = {} /\ NoDrain.rejected = {}
BY DEF NoDrain, IsDrain

\* A drain that begins, and a sender that stopped.
LEMMA NoDrainGoesOn ==
    ASSUME NEW a, NEW f, NEW d,
           d \in {[NoDrain EXCEPT !.at = a], [NoDrain EXCEPT !.at = a, !.floor = f]}
    PROVE  IsDrain(d) /\ d.at = a /\ d.sent = {} /\ d.rejected = {}
<1>1. CASE d = [NoDrain EXCEPT !.at = a]
  BY <1>1, NoDrainIsQuiet DEF IsDrain
<1>2. CASE d = [NoDrain EXCEPT !.at = a, !.floor = f]
  BY <1>2, NoDrainIsQuiet DEF IsDrain
<1> QED BY <1>1, <1>2

\* A drain that goes on with the same sets.
LEMMA DrainGoesOn ==
    ASSUME IsDrain(drain), NEW a, drain' = [drain EXCEPT !.at = a]
    PROVE  /\ IsDrain(drain') /\ drain'.at = a
           /\ drain'.left = drain.left /\ drain'.sent = drain.sent
           /\ drain'.rejected = drain.rejected
BY DEF IsDrain

LEMMA DrainMarks ==
    ASSUME IsDrain(drain), NEW a, NEW s, drain' = [drain EXCEPT !.at = a, !.sent = s]
    PROVE  /\ IsDrain(drain') /\ drain'.at = a /\ drain'.left = drain.left
           /\ drain'.sent = s /\ drain'.rejected = drain.rejected
BY DEF IsDrain

LEMMA DrainSaves ==
    ASSUME IsDrain(drain), NEW a, NEW s, drain' = [drain EXCEPT !.at = a, !.save = s]
    PROVE  /\ IsDrain(drain') /\ drain'.at = a /\ drain'.save = s
           /\ drain'.sent = drain.sent /\ drain'.rejected = drain.rejected
BY DEF IsDrain

LEMMA DrainLeaves ==
    ASSUME IsDrain(drain), NEW a, NEW s, drain' = [drain EXCEPT !.at = a, !.left = s]
    PROVE  /\ IsDrain(drain') /\ drain'.at = a
           /\ drain'.sent = drain.sent /\ drain'.rejected = drain.rejected
BY DEF IsDrain

LEMMA DrainTakes ==
    ASSUME IsDrain(drain), NEW a, NEW s, NEW t,
           drain' = [drain EXCEPT !.at = a, !.send = s, !.left = t]
    PROVE  /\ IsDrain(drain') /\ drain'.at = a
           /\ drain'.sent = drain.sent /\ drain'.rejected = drain.rejected
BY DEF IsDrain

LEMMA OwedBy ==
    /\ drain.at = "rejected" => Owed = drain.left
    /\ drain.at \in {"accepted", "results"} => Owed = drain.left \ drain.sent
    /\ drain.at \notin {"rejected", "accepted", "results"} => Owed = {}
    /\ drain'.at = "rejected" => Owed' = drain'.left
    /\ drain'.at \in {"accepted", "results"} => Owed' = drain'.left \ drain'.sent
    /\ drain'.at \notin {"rejected", "accepted", "results"} => Owed' = {}
BY DEF Owed

-----------------------------------------------------------------------------
(* What a step owes to the invariant. *)

LEMMA StepKeeps ==
    ASSUME OutboxInv,
           row' \in [Readings -> Rows], refused' \in [Readings -> 0..MaxAttempts],
           uploaded \subseteq uploaded', withheld \subseteq withheld', aged \subseteq aged',
           IsDrain(drain'), drain'.sent \subseteq uploaded', drain'.rejected \subseteq withheld',
           SavesEviction', BurntByRefusals',
           \A i \in Readings :
              /\ refused'[i] >= refused[i]
              /\ row'[i].state = "sent" =>
                    (row[i].state = "sent" \/ i \in uploaded' \cup withheld')
              /\ row'[i].state = "skipped" =>
                    (row[i].state = "skipped" \/ i \in aged' \/ refused'[i] >= MaxAttempts)
    PROVE  OutboxInv'
<1>1. Shaped' /\ MarksKnown'
  BY DEF Shaped, MarksKnown
<1>2. SentIsKnown'
  BY DEF OutboxInv, SentIsKnown
<1>3. GivenUpOnlyWhenRefused'
  <2>1. \A i \in Readings : refused[i] \in Nat /\ refused'[i] \in Nat
    BY OutboxAssumption DEF OutboxInv, Shaped
  <2> QED BY <2>1, OutboxAssumption DEF OutboxInv, GivenUpOnlyWhenRefused
<1> QED BY <1>1, <1>2, <1>3 DEF OutboxInv

\* No row burns an attempt and no debt arises.
LEMMA NothingBurnt ==
    ASSUME OutboxInv, refused' = refused, row' \in [Readings -> Rows],
           \A i \in Readings : row'[i].attempts <= row[i].attempts,
           Owed' \subseteq Owed
    PROVE  BurntByRefusals'
<1>1. \A i \in Readings : /\ row[i].attempts \in Nat /\ row'[i].attempts \in Nat
                          /\ refused[i] \in Nat
  BY OutboxAssumption DEF OutboxInv, Shaped, Rows
<1> QED BY <1>1 DEF OutboxInv, BurntByRefusals

\* The rows stay, and a drain that owes nothing new goes to a known place.
LEMMA QuietKeeps ==
    ASSUME OutboxInv, UNCHANGED <<row, refused>>,
           uploaded \subseteq uploaded', withheld \subseteq withheld', aged \subseteq aged',
           IsDrain(drain'), drain'.sent \subseteq uploaded', drain'.rejected \subseteq withheld',
           SavesEviction', Owed' \subseteq Owed
    PROVE  OutboxInv'
<1>1. \A i \in Readings : /\ row[i].attempts <= row[i].attempts /\ refused[i] >= refused[i]
  BY OutboxAssumption DEF OutboxInv, Shaped, Rows
<1>2. BurntByRefusals'
  BY <1>1, NothingBurnt DEF OutboxInv, Shaped
<1> QED BY <1>1, <1>2, StepKeeps DEF OutboxInv, Shaped

\* The attempts that a drain has heard of are burnt, and its debt is paid.
LEMMA DebtIsPaid ==
    ASSUME OutboxInv, row' = MarkFailed(Owed), refused' = refused, Owed' = {},
           UNCHANGED <<uploaded, withheld, aged>>,
           IsDrain(drain'), drain'.sent \subseteq uploaded, drain'.rejected \subseteq withheld,
           SavesEviction'
    PROVE  OutboxInv'
<1>1. /\ row' \in [Readings -> Rows]
      /\ \A i \in Readings :
            /\ row'[i].state = "sent" => row[i].state = "sent"
            /\ i \notin Owed => row'[i] = row[i]
            /\ \/ row'[i] = row[i]
               \/ /\ row'[i].attempts = row[i].attempts + 1
                  /\ row'[i].state = "skipped" => row'[i].attempts >= MaxAttempts
  BY MarkFailedRows DEF OutboxInv, Shaped
<1>2. \A i \in Readings : /\ row[i].attempts \in Nat /\ row'[i].attempts \in Nat
                          /\ refused[i] \in Nat /\ refused[i] <= MaxAttempts
  BY <1>1, OutboxAssumption DEF OutboxInv, Shaped, Rows
<1>3. BurntByRefusals'
  BY <1>1, <1>2 DEF OutboxInv, BurntByRefusals
<1>4. ASSUME NEW i \in Readings, row'[i].state = "skipped", row[i].state # "skipped"
      PROVE  refused[i] >= MaxAttempts
  BY <1>1, <1>2, <1>4, OutboxAssumption DEF OutboxInv, BurntByRefusals
<1>5. \A i \in Readings : refused'[i] >= refused[i]
  BY <1>2
<1> QED BY <1>1, <1>3, <1>4, <1>5, StepKeeps DEF OutboxInv, Shaped

\* What the store marks as sent is known.
LEMMA MarkedIsKnown ==
    ASSUME OutboxInv, NEW s, row' = MarkSent(s), s \subseteq uploaded \cup withheld,
           UNCHANGED <<uploaded, withheld, aged, refused>>, Owed' \subseteq Owed,
           IsDrain(drain'), drain'.sent \subseteq uploaded, drain'.rejected \subseteq withheld,
           SavesEviction'
    PROVE  OutboxInv'
<1>1. /\ row' \in [Readings -> Rows]
      /\ \A i \in Readings : /\ row'[i].attempts = row[i].attempts
                             /\ row'[i].state = "skipped" => row[i].state = "skipped"
                             /\ row'[i].state = "sent" => (row[i].state = "sent" \/ i \in s)
  BY MarkSentRows DEF OutboxInv, Shaped
<1>2. \A i \in Readings : row'[i].attempts <= row[i].attempts /\ refused'[i] >= refused[i]
  BY <1>1, OutboxAssumption DEF OutboxInv, Shaped, Rows
<1>3. BurntByRefusals'
  BY <1>1, <1>2, NothingBurnt
<1> QED BY <1>1, <1>2, <1>3, StepKeeps DEF OutboxInv, Shaped

\* What the cloud has refused is owed from now on.
LEMMA RefusalIsOwed ==
    ASSUME OutboxInv, NEW s, Refuse(s), Owed = {}, Owed' \subseteq s, UNCHANGED row,
           uploaded \subseteq uploaded', UNCHANGED <<withheld, aged>>,
           IsDrain(drain'), drain'.sent \subseteq uploaded', drain'.rejected \subseteq withheld,
           SavesEviction'
    PROVE  OutboxInv'
<1>1. /\ refused' \in [Readings -> 0..MaxAttempts]
      /\ \A i \in Readings :
            /\ refused'[i] >= refused[i]
            /\ i \in s => (refused'[i] = MaxAttempts \/ refused'[i] = refused[i] + 1)
  BY RefuseCounts DEF OutboxInv, Shaped
<1>2. \A i \in Readings : /\ row[i].attempts \in Nat /\ refused[i] \in Nat /\ refused'[i] \in Nat
                          /\ refused'[i] <= MaxAttempts
  BY <1>1, OutboxAssumption DEF OutboxInv, Shaped, Rows
<1>3. BurntByRefusals'
  BY <1>1, <1>2 DEF OutboxInv, BurntByRefusals
<1> QED BY <1>1, <1>3, StepKeeps DEF OutboxInv, Shaped

\* A drain ends, or moves to a place where nothing is owed.
LEMMA EndKeeps ==
    ASSUME OutboxInv, UNCHANGED <<row, refused, withheld, aged>>,
           uploaded \subseteq uploaded', drain' = NoDrain
    PROVE  OutboxInv'
BY NoDrainIsQuiet, OwedBy, QuietKeeps DEF SavesEviction

-----------------------------------------------------------------------------
(* The steps. *)

LEMMA InitHolds == Init => OutboxInv
<1> SUFFICES ASSUME Init PROVE OutboxInv
  OBVIOUS
<1>1. \A i \in Readings : row[i] = NoRow /\ refused[i] = 0
  BY DEF Init
<1>2. Shaped
  BY NoDrainIsQuiet, OutboxAssumption DEF Init, Shaped, Rows, NoRow
<1>3. MarksKnown /\ SavesEviction /\ Owed = {}
  BY NoDrainIsQuiet, OwedBy DEF Init, MarksKnown, SavesEviction
<1>4. SentIsKnown /\ GivenUpOnlyWhenRefused /\ BurntByRefusals
  BY <1>1, <1>3 DEF SentIsKnown, GivenUpOnlyWhenRefused, BurntByRefusals, NoRow
<1> QED BY <1>2, <1>3, <1>4 DEF OutboxInv

LEMMA DrainStarts == ASSUME OutboxInv, DrainBegins PROVE OutboxInv'
<1> DEFINE old == {i \in Readings : row[i].state \in Open /\ i <= floor}
<1>1. /\ drain' = [NoDrain EXCEPT !.at = "aged", !.floor = floor]
      /\ row' = SkipAged(old) /\ aged' = aged \cup old
      /\ UNCHANGED <<uploaded, withheld, refused>>
  BY DEF DrainBegins, Goto, cloud, thin
<1> HIDE DEF old
<1>2. IsDrain(drain') /\ drain'.at = "aged" /\ drain'.sent = {} /\ drain'.rejected = {}
  BY <1>1, NoDrainGoesOn
<1>3. /\ row' \in [Readings -> Rows]
      /\ \A i \in Readings :
            /\ row'[i].attempts = row[i].attempts
            /\ row'[i].state = "skipped" => (row[i].state = "skipped" \/ i \in old)
            /\ row'[i].state = "sent" => row[i].state = "sent"
  BY <1>1, SkipAgedRows DEF OutboxInv, Shaped
<1>4. \A i \in Readings : row'[i].attempts <= row[i].attempts /\ refused'[i] >= refused[i]
  BY <1>1, <1>3, OutboxAssumption DEF OutboxInv, Shaped, Rows
<1>5. BurntByRefusals' /\ SavesEviction'
  BY <1>1, <1>2, <1>3, <1>4, OwedBy, NothingBurnt DEF SavesEviction
<1> QED BY <1>1, <1>2, <1>3, <1>4, <1>5, StepKeeps DEF OutboxInv, Shaped

LEMMA BatchIsRead == ASSUME OutboxInv, DrainReads PROVE OutboxInv'
<1> DEFINE batch == Oldest(Sendable(drain.floor))
           g == GateRows(batch)
           a == IF g.rejected = {} THEN "ready" ELSE "gated"
<1>1. UNCHANGED <<row, refused, uploaded, aged>> /\ drain.at = "aged"
  BY DEF DrainReads, cloud
<1>2. \/ drain' = NoDrain /\ UNCHANGED withheld
      \/ /\ drain' = [drain EXCEPT !.at = a, !.send = g.send, !.left = g.send, !.gating = TRUE,
                                   !.retries = g.retries, !.rejected = g.rejected]
         /\ withheld' = withheld \cup g.rejected
      \/ /\ drain' = [drain EXCEPT !.at = "ready", !.send = batch, !.left = batch]
         /\ UNCHANGED withheld
  BY DEF DrainReads, Goto, thin
<1>3. a \in {"ready", "gated"}
  OBVIOUS
<1> HIDE DEF batch, g, a
\* Whatever a gate rejects, it withholds.
<1>4. /\ IsDrain(drain') /\ drain'.at \in {"idle", "ready", "gated"}
      /\ drain'.sent \subseteq uploaded /\ drain'.rejected \subseteq withheld'
      /\ withheld \subseteq withheld'
  <2>1. CASE drain' = NoDrain /\ UNCHANGED withheld
    <3>1. IsDrain(drain') /\ drain'.at = "idle" /\ drain'.sent = {} /\ drain'.rejected = {}
      BY <2>1, NoDrainIsQuiet
    <3>2. withheld' = withheld
      BY <2>1
    <3> QED BY <3>1, <3>2
  <2>2. CASE /\ drain' = [drain EXCEPT !.at = a, !.send = g.send, !.left = g.send,
                                       !.gating = TRUE, !.retries = g.retries,
                                       !.rejected = g.rejected]
             /\ withheld' = withheld \cup g.rejected
    <3> DEFINE send == g.send
               retries == g.retries
               rejected == g.rejected
    <3>1. /\ IsDrain(drain)
          /\ drain' = [drain EXCEPT !.at = a, !.send = send, !.left = send, !.gating = TRUE,
                                    !.retries = retries, !.rejected = rejected]
      BY <2>2 DEF OutboxInv, Shaped
    <3>2. IsDrain(drain') /\ drain'.at = a /\ drain'.sent = drain.sent
          /\ drain'.rejected = g.rejected
      <4> HIDE DEF send, retries, rejected
      <4>1. IsDrain(drain') /\ drain'.at = a /\ drain'.sent = drain.sent
            /\ drain'.rejected = rejected
        BY ONLY <3>1 DEF IsDrain
      <4> QED BY <4>1 DEF rejected
    <3>3. withheld' = withheld \cup g.rejected
      BY <2>2
    <3>4. drain.sent \subseteq uploaded
      BY DEF OutboxInv, MarksKnown
    <3> QED BY <1>3, <3>2, <3>3, <3>4
  <2>3. CASE /\ drain' = [drain EXCEPT !.at = "ready", !.send = batch, !.left = batch]
             /\ UNCHANGED withheld
    <3>1. IsDrain(drain') /\ drain'.at = "ready" /\ drain'.sent = drain.sent
          /\ drain'.rejected = drain.rejected
      BY <2>3, DrainTakes DEF OutboxInv, Shaped
    <3> QED BY <2>3, <3>1 DEF OutboxInv, MarksKnown
  <2> QED BY <1>2, <2>1, <2>2, <2>3
<1>5. Owed' = {} /\ SavesEviction'
  BY <1>4, OwedBy DEF SavesEviction
<1> QED BY <1>1, <1>4, <1>5, QuietKeeps

LEMMA GateIsMarked == ASSUME OutboxInv, RejectedMarked PROVE OutboxInv'
<1>1. /\ row' = MarkSent(drain.rejected)
      /\ drain' = NoDrain \/ drain' = [drain EXCEPT !.at = "ready"]
      /\ UNCHANGED <<uploaded, withheld, aged, refused>>
  BY DEF RejectedMarked, Goto, cloud, history, thin
<1>2. /\ IsDrain(drain') /\ drain'.at \in {"idle", "ready"}
      /\ drain'.sent \subseteq uploaded /\ drain'.rejected \subseteq withheld
  BY <1>1, NoDrainIsQuiet, DrainGoesOn DEF OutboxInv, Shaped, MarksKnown
<1>3. Owed' = {} /\ SavesEviction'
  BY <1>2, OwedBy DEF SavesEviction
<1> QED BY <1>1, <1>2, <1>3, MarkedIsKnown DEF OutboxInv, MarksKnown

LEMMA BrokerAcks ==
    ASSUME OutboxInv, NEW got, NEW acked, Publish(got, acked) PROVE OutboxInv'
<1>1. /\ drain' = [drain EXCEPT !.at = "published", !.sent = acked]
      /\ uploaded' = uploaded \cup got /\ acked \subseteq got
      /\ UNCHANGED <<row, refused, withheld, aged>>
  BY DEF Publish, Goto, history, thin
<1>2. /\ IsDrain(drain') /\ drain'.at = "published"
      /\ drain'.sent = acked /\ drain'.rejected = drain.rejected
  BY <1>1, DrainMarks DEF OutboxInv, Shaped
<1> QED BY <1>1, <1>2, OwedBy, QuietKeeps DEF OutboxInv, MarksKnown, SavesEviction

LEMMA AcksAreMarked == ASSUME OutboxInv, AckedMarked PROVE OutboxInv'
<1>1. /\ row' = MarkSent(drain.sent)
      /\ \/ drain' = NoDrain
         \/ drain' = [drain EXCEPT !.at = "posting", !.left = drain.send \ drain.sent]
      /\ UNCHANGED <<uploaded, withheld, aged, refused>>
  BY DEF AckedMarked, Finish, Goto, cloud, history, thin
<1>2. /\ IsDrain(drain') /\ drain'.at \in {"idle", "posting"}
      /\ drain'.sent \subseteq uploaded /\ drain'.rejected \subseteq withheld
  BY <1>1, NoDrainIsQuiet, DrainLeaves DEF OutboxInv, Shaped, MarksKnown
<1>3. Owed' = {} /\ SavesEviction'
  BY <1>2, OwedBy DEF SavesEviction
<1> QED BY <1>1, <1>2, <1>3, MarkedIsKnown DEF OutboxInv, MarksKnown

LEMMA PostStarts == ASSUME OutboxInv, PostBegins PROVE OutboxInv'
<1>1. drain' = [drain EXCEPT !.at = "posting"]
      /\ UNCHANGED <<row, refused, uploaded, withheld, aged>>
  BY DEF PostBegins, Goto, cloud, history, thin
<1>2. /\ IsDrain(drain') /\ drain'.at = "posting"
      /\ drain'.sent = drain.sent /\ drain'.rejected = drain.rejected
  BY <1>1, DrainGoesOn DEF OutboxInv, Shaped
<1> QED BY <1>1, <1>2, OwedBy, QuietKeeps DEF OutboxInv, MarksKnown, SavesEviction

\* The cloud takes some of a batch and refuses the rest.
LEMMA AnswerIsOwed ==
    ASSUME OutboxInv, NEW ok, PostAccepted(ok) PROVE OutboxInv'
<1>1. /\ drain.at = "posting" /\ drain' = [drain EXCEPT !.at = "accepted", !.sent = @ \cup ok]
      /\ Refuse(drain.left \ ok) /\ uploaded' = uploaded \cup ok
      /\ UNCHANGED <<row, withheld, aged>>
  BY DEF PostAccepted, Goto, history, thin
<1>2. /\ IsDrain(drain') /\ drain'.at = "accepted" /\ drain'.left = drain.left
      /\ drain'.sent = drain.sent \cup ok /\ drain'.rejected = drain.rejected
  <2> DEFINE s == drain.sent \cup ok
  <2>1. drain' = [drain EXCEPT !.at = "accepted", !.sent = s]
    BY <1>1 DEF OutboxInv, Shaped, IsDrain
  <2> HIDE DEF s
  <2>2. /\ IsDrain(drain') /\ drain'.at = "accepted" /\ drain'.left = drain.left
        /\ drain'.sent = s /\ drain'.rejected = drain.rejected
    BY <2>1, DrainMarks DEF OutboxInv, Shaped
  <2> QED BY <2>2 DEF s
<1>3. Owed = {} /\ Owed' \subseteq drain.left \ ok /\ SavesEviction'
  BY <1>1, <1>2, OwedBy DEF SavesEviction
<1> QED BY <1>1, <1>2, <1>3, RefusalIsOwed DEF OutboxInv, MarksKnown

LEMMA BatchIsRefused == ASSUME OutboxInv, PostRejected PROVE OutboxInv'
<1>1. /\ drain.at = "posting" /\ drain' = [drain EXCEPT !.at = "rejected"]
      /\ Refuse(drain.left) /\ UNCHANGED <<row, uploaded, withheld, aged>>
  BY DEF PostRejected, Goto, history, thin
<1>2. /\ IsDrain(drain') /\ drain'.at = "rejected" /\ drain'.left = drain.left
      /\ drain'.sent = drain.sent /\ drain'.rejected = drain.rejected
  BY <1>1, DrainGoesOn DEF OutboxInv, Shaped
<1>3. Owed = {} /\ Owed' \subseteq drain.left /\ SavesEviction'
  BY <1>1, <1>2, OwedBy DEF SavesEviction
<1> QED BY <1>1, <1>2, <1>3, RefusalIsOwed DEF OutboxInv, MarksKnown

\* An outage ends the drain and leaves every row as it is.
LEMMA OutageKeeps ==
    ASSUME OutboxInv, NEW got, PostUnavailable(got) \/ PostRaises(got) PROVE OutboxInv'
<1>1. /\ drain' = NoDrain /\ uploaded' = uploaded \cup got
      /\ UNCHANGED <<row, refused, withheld, aged>>
  BY DEF PostUnavailable, PostRaises, OutageKeepsRows, Finish, Goto, history, thin
<1> QED BY <1>1, EndKeeps

\* A device that is to stop is told so, and only an eviction is stored as one.
LEMMA StopKeeps ==
    ASSUME OutboxInv, PostStopped \/ PostEvicted PROVE OutboxInv'
<1>1. PICK a \in {"stopped", "evicted"} :
         /\ a = "evicted" => drain' = [drain EXCEPT !.at = a, !.save = "deprovisioned"]
         /\ \E s : drain' = [drain EXCEPT !.at = a, !.save = s]
  BY DEF PostStopped, PostEvicted, PostEnds, Goto, Set
<1>2. UNCHANGED <<row, refused, uploaded, withheld, aged>>
  BY DEF PostStopped, PostEvicted, PostEnds, cloud, history, thin
<1>3. PICK s : /\ drain' = [drain EXCEPT !.at = a, !.save = s]
               /\ a = "evicted" => s = "deprovisioned"
  BY <1>1
<1>4. /\ IsDrain(drain') /\ drain'.at = a /\ drain'.save = s
      /\ drain'.sent = drain.sent /\ drain'.rejected = drain.rejected
  BY <1>3, DrainSaves DEF OutboxInv, Shaped
<1>5. SavesEviction' /\ Owed' = {}
  BY <1>3, <1>4, OwedBy DEF SavesEviction
<1> QED BY <1>2, <1>4, <1>5, QuietKeeps DEF OutboxInv, MarksKnown

LEMMA ResultsAreMarked == ASSUME OutboxInv, AcceptedMarked PROVE OutboxInv'
<1>1. /\ drain.at = "accepted" /\ row' = MarkSent(drain.left \cap drain.sent)
      /\ drain' = NoDrain \/ drain' = [drain EXCEPT !.at = "results"]
      /\ UNCHANGED <<uploaded, withheld, aged, refused>>
  BY DEF AcceptedMarked, MarkAcceptedSent, Answered, Finish, Goto, cloud, history, thin
<1>2. /\ IsDrain(drain') /\ drain'.at \in {"idle", "results"}
      /\ drain'.at = "results" => drain'.left = drain.left /\ drain'.sent = drain.sent
      /\ drain'.sent \subseteq uploaded /\ drain'.rejected \subseteq withheld
  BY <1>1, NoDrainIsQuiet, DrainGoesOn DEF OutboxInv, Shaped, MarksKnown
<1>3. Owed' \subseteq Owed /\ SavesEviction'
  BY <1>1, <1>2, OwedBy DEF SavesEviction
<1> QED BY <1>1, <1>2, <1>3, MarkedIsKnown DEF OutboxInv, MarksKnown

LEMMA RefusalsAreMarked ==
    ASSUME OutboxInv, RefusedMarked \/ BatchMarkedFailed PROVE OutboxInv'
<1>1. /\ row' = MarkFailed(Owed) /\ drain' = NoDrain
      /\ UNCHANGED <<uploaded, withheld, aged, refused>>
  BY OwedBy DEF RefusedMarked, BatchMarkedFailed, Answered, Finish, Goto, cloud, history, thin
<1>2. IsDrain(drain') /\ drain'.sent = {} /\ drain'.rejected = {} /\ Owed' = {} /\ SavesEviction'
  BY <1>1, NoDrainIsQuiet, OwedBy DEF SavesEviction
<1> QED BY <1>1, <1>2, DebtIsPaid

LEMMA SenderStops == ASSUME OutboxInv, SenderSaves \/ SenderEnds PROVE OutboxInv'
<1>1. /\ drain' = NoDrain \/ drain' = [NoDrain EXCEPT !.at = "off"]
      /\ UNCHANGED <<row, refused, uploaded, withheld, aged>>
  BY DEF SenderSaves, SenderEnds, Finish, Goto, cloud, history, thin
<1>2. /\ IsDrain(drain') /\ drain'.at \in {"idle", "off"}
      /\ drain'.sent = {} /\ drain'.rejected = {}
  BY <1>1, NoDrainIsQuiet, NoDrainGoesOn
<1> QED BY <1>1, <1>2, OwedBy, QuietKeeps DEF SavesEviction

\* A restart drops the drain, and with it what it was about to store.
LEMMA SetupKeeps == ASSUME OutboxInv, Setup PROVE OutboxInv'
<1>1. /\ drain' = NoDrain \/ drain' = [NoDrain EXCEPT !.at = "off"]
      /\ UNCHANGED <<row, refused, uploaded, withheld, aged>>
  BY DEF Setup, cloud
<1>2. /\ IsDrain(drain') /\ drain'.at \in {"idle", "off"}
      /\ drain'.sent = {} /\ drain'.rejected = {}
  BY <1>1, NoDrainIsQuiet, NoDrainGoesOn
<1> QED BY <1>1, <1>2, OwedBy, QuietKeeps DEF SavesEviction

\* A reading that comes again starts with a full budget, and one that is pruned
\* has none to burn.
LEMMA RowIsReplaced ==
    ASSUME OutboxInv, NEW i \in Readings, NEW r \in Rows, r.attempts = 0,
           r.state \notin {"sent", "skipped"}, row' = [row EXCEPT ![i] = r],
           UNCHANGED <<refused, uploaded, withheld, aged, drain>>
    PROVE  OutboxInv'
<1>1. row' \in [Readings -> Rows] /\ \A j \in Readings : row'[j] = row[j] \/ row'[j] = r
  BY DEF OutboxInv, Shaped
<1>2. \A j \in Readings : row'[j].attempts <= row[j].attempts /\ refused'[j] >= refused[j]
  BY <1>1, OutboxAssumption DEF OutboxInv, Shaped, Rows
<1>3. BurntByRefusals' /\ SavesEviction'
  <2>1. Owed' = Owed
    BY DEF Owed
  <2> QED BY <1>1, <1>2, <2>1, NothingBurnt DEF OutboxInv, SavesEviction
<1> QED BY <1>1, <1>2, <1>3, StepKeeps DEF OutboxInv, Shaped, MarksKnown

LEMMA StoreKeeps ==
    ASSUME OutboxInv, NEW i \in Readings, AppendReading(i) \/ Prune(i) PROVE OutboxInv'
<1>1. PICK r \in Rows : /\ r.attempts = 0 /\ r.state \notin {"sent", "skipped"}
                        /\ row' = [row EXCEPT ![i] = r]
  BY DEF AppendReading, Prune, Rows, NoRow
<1>2. UNCHANGED <<refused, uploaded, withheld, aged, drain>>
  BY DEF AppendReading, Prune, volatile, cloud, history, thin
<1> QED BY <1>1, <1>2, RowIsReplaced

LEMMA StutterKeeps ==
    ASSUME OutboxInv, UNCHANGED <<row, refused, uploaded, withheld, aged, drain>>
    PROVE  OutboxInv'
BY DEF OutboxInv, Shaped, MarksKnown, SentIsKnown, BurntByRefusals, GivenUpOnlyWhenRefused,
       SavesEviction, Owed

LEMMA InvKept == OutboxInv /\ [Next]_vars => OutboxInv'
<1> SUFFICES ASSUME OutboxInv, [Next]_vars PROVE OutboxInv'
  OBVIOUS
<1>1. CASE SenderStep
  BY <1>1, DrainStarts, BatchIsRead, GateIsMarked, BrokerAcks, AcksAreMarked, PostStarts,
     BatchIsRefused, OutageKeeps, ResultsAreMarked, RefusalsAreMarked, SenderStops
     DEF SenderStep
<1>2. CASE CloudAnswers
  BY <1>2, AnswerIsOwed, StopKeeps DEF CloudAnswers
<1>3. CASE CooldownEnds
  BY <1>3, StutterKeeps DEF CooldownEnds, cloud, history, thin
<1>4. CASE Poller
  BY <1>4, StutterKeeps DEF Poller, PollStopped, PollEvicted, PollEnds, PollerSaves, PollerEnds,
     cloud, history, thin
<1>5. CASE Reload
  BY <1>5, SetupKeeps DEF Reload
<1>6. CASE Environment
  <2>1. CASE \E i \in Readings : AppendReading(i) \/ Prune(i)
    BY <2>1, StoreKeeps
  <2>2. CASE Ages \/ (\E c \in Configs : Config(c)) \/ (\E s \in Servers : Server(s))
    BY <2>2, StutterKeeps DEF Ages, Config, Server, volatile, cloud, history, thin
  <2>3. CASE Crash
    BY <2>3, SetupKeeps DEF Crash
  <2> QED BY <1>6, <2>1, <2>2, <2>3 DEF Environment
<1>7. CASE UNCHANGED vars
  BY <1>7, StutterKeeps DEF vars
<1> QED BY <1>1, <1>2, <1>3, <1>4, <1>5, <1>6, <1>7 DEF Next

-----------------------------------------------------------------------------
(* A batch at the gate: the recursive function, and what it keeps. *)

LEMMA LeastNatural ==
    ASSUME NEW T \in SUBSET Nat, T # {}
    PROVE  \E m \in T : \A k \in T : m <= k
<1>1. PICK m \in T : \A k \in T : <<k, m>> \notin OpToRel(<, Nat)
  BY NatLessThanWellFounded, WFMin
<1>2. \A k \in T : ~(k < m)
  BY <1>1 DEF OpToRel
<1> QED BY <1>2

\* What has been judged before the first reading, and how the next is.
Unjudged == [gate |-> gate, send |-> {}, retries |-> {}, rejected |-> {}]
JudgeNext(acc, i, batch) == IF i \in batch THEN GateRow(acc, i) ELSE acc
Judges(f, n, batch) ==
    f = [i \in 0..n |-> IF i = 0 THEN Unjudged ELSE JudgeNext(f[i - 1], i, batch)]

LEMMA SomeJudges ==
    ASSUME NEW batch, NEW n \in Nat
    PROVE  \E f : Judges(f, n, batch)
<1> DEFINE T == {m \in Nat : ~ \E f : Judges(f, m, batch)}
<1>1. SUFFICES ASSUME T # {} PROVE FALSE
  OBVIOUS
<1>2. PICK m \in T : \A k \in T : m <= k
  BY <1>1, LeastNatural
<1>3. m # 0
  <2> DEFINE z == [i \in 0..0 |-> Unjudged]
  <2>1. Judges(z, 0, batch)
    BY DEF Judges
  <2> QED BY <1>2, <2>1
<1>4. m \in Nat /\ m - 1 \in Nat
  BY <1>2, <1>3
<1>5. PICK f : Judges(f, m - 1, batch)
  <2>1. m - 1 \notin T
    BY <1>2, <1>4
  <2> QED BY <1>4, <2>1
<1> DEFINE last == JudgeNext(f[m - 1], m, batch)
           g == [i \in 0..m |-> IF i = m THEN last ELSE f[i]]
<1>6. \A i \in 0..(m - 1) :
         f[i] = IF i = 0 THEN Unjudged ELSE JudgeNext(f[i - 1], i, batch)
  BY <1>5 DEF Judges
<1>7. \A i \in 0..m :
         g[i] = IF i = 0 THEN Unjudged ELSE JudgeNext(g[i - 1], i, batch)
  <2> TAKE i \in 0..m
  <2>1. CASE i = m
    <3>1. m - 1 \in 0..m /\ m - 1 # m
      BY <1>4
    <3>2. g[m - 1] = f[m - 1] /\ g[i] = last
      BY <2>1, <3>1
    <3> QED BY <1>3, <2>1, <3>2
  <2>2. CASE i # m
    <3>1. i \in 0..(m - 1) /\ (i # 0 => i - 1 \in 0..m /\ i - 1 # m)
      BY <1>4, <2>2
    <3>2. g[i] = f[i] /\ (i # 0 => g[i - 1] = f[i - 1])
      BY <2>2, <3>1
    <3> HIDE DEF g
    <3> QED BY <1>6, <3>1, <3>2
  <2> QED BY <2>1, <2>2
<1>8. Judges(g, m, batch)
  <2> DEFINE h == [i \in 0..m |-> IF i = 0 THEN Unjudged ELSE JudgeNext(g[i - 1], i, batch)]
  <2>1. g = [i \in 0..m |-> g[i]]
    OBVIOUS
  <2>2. g = h
    <3> HIDE DEF g
    <3> QED BY <1>7, <2>1
  <2> HIDE DEF g
  <2> QED BY <2>2 DEF Judges
<1> QED BY <1>2, <1>8

\* The recursive function is defined by its equation.
LEMMA JudgedSteps ==
    ASSUME NEW batch
    PROVE  /\ GateRows(batch) = Judged(batch)[N]
           /\ Judged(batch)[0] = Unjudged
           /\ \A i \in 1..N : Judged(batch)[i] = JudgeNext(Judged(batch)[i - 1], i, batch)
<1>1. Judged(batch) = CHOOSE f : Judges(f, N, batch)
  BY DEF Judged, Judges, Unjudged, JudgeNext
<1>2. N \in Nat
  BY OutboxAssumption
<1>3. Judges(Judged(batch), N, batch)
  BY <1>1, <1>2, SomeJudges
<1> QED BY <1>2, <1>3 DEF Judges, GateRows

Gates == [last : 0..N, failed : BOOLEAN, sent : 0..N]

\* What a gate knows: its last attempt is one it let out, and the last it sent
\* unless it failed.
Settled(g, out) == /\ g \in Gates
                   /\ g.failed \/ g.last = g.sent
                   /\ g.last \in out \cup {0}

\* Less than a heartbeat before i is a reading that was let out.
Near(i, out) == \E j \in out : j < i /\ i - j < Heartbeat

\* What a judgement of some readings of a batch leaves.
Judgement(acc, batch) ==
    /\ acc \in [gate : Gates, send : SUBSET batch, retries : SUBSET batch,
                rejected : SUBSET batch]
    /\ acc.retries \subseteq acc.send
    /\ Settled(acc.gate, passed \cup acc.send)
    /\ \A i \in acc.rejected : Near(i, passed \cup acc.send)

LEMMA NearGrows ==
    ASSUME NEW i, NEW out, NEW more, out \subseteq more, Near(i, out) PROVE Near(i, more)
BY DEF Near

LEMMA RejectedIsNear ==
    ASSUME NEW g, NEW out, Settled(g, out), NEW i \in Readings,
           ~(g.last # 0 /\ i <= g.last), ~ShouldSend(g, i)
    PROVE  Near(i, out)
<1>1. /\ g.last \in Nat /\ g.sent \in Nat /\ g.last # 0 /\ g.last < i /\ i \in Nat
      /\ g.last \in out
  BY DEF Settled, Gates, ShouldSend, Readings
<1>2. i - g.last < Heartbeat
  <2>1. CASE g.failed \/ g.sent = 0
    BY <1>1, <2>1, OutboxAssumption DEF ShouldSend
  <2>2. CASE ~g.failed /\ g.sent # 0
    <3>1. Later(g.sent, g.last) = g.last
      BY <1>1, <2>2 DEF Later, Settled
    <3> QED BY <1>1, <2>2, <3>1, OutboxAssumption DEF ShouldSend
  <2> QED BY <2>1, <2>2
<1> QED BY <1>1, <1>2 DEF Near

LEMMA GateRowKeeps ==
    ASSUME NEW batch, batch \subseteq Readings, NEW acc, Judgement(acc, batch), NEW i \in batch
    PROVE  Judgement(GateRow(acc, i), batch)
<1> DEFINE next == GateRow(acc, i)
           again == [acc EXCEPT !.send = @ \cup {i}, !.retries = @ \cup {i}]
           sent == [acc EXCEPT !.send = @ \cup {i}, !.gate = RecordAttempt(@, i, TRUE)]
           left == [acc EXCEPT !.rejected = @ \cup {i}]
<1>1. i \in Readings /\ i \in 0..N
  BY DEF Readings
<1>2. CASE acc.gate.last # 0 /\ i <= acc.gate.last
  <2>1. next = again
    BY <1>2 DEF GateRow
  <2>2. /\ again \in [gate : Gates, send : SUBSET batch, retries : SUBSET batch,
                      rejected : SUBSET batch]
        /\ again.gate = acc.gate /\ again.send = acc.send \cup {i}
        /\ again.retries = acc.retries \cup {i} /\ again.rejected = acc.rejected
    BY DEF Judgement
  <2> HIDE DEF next, again
  <2>3. Settled(again.gate, passed \cup again.send)
    BY <2>2 DEF Judgement, Settled
  <2>4. \A j \in again.rejected : Near(j, passed \cup again.send)
    BY <2>2, NearGrows DEF Judgement
  <2>5. again.retries \subseteq again.send
    BY <2>2 DEF Judgement
  <2> QED BY <2>1, <2>2, <2>3, <2>4, <2>5 DEF Judgement, next
<1>3. CASE ~(acc.gate.last # 0 /\ i <= acc.gate.last) /\ ShouldSend(acc.gate, i)
  <2>1. next = sent
    BY <1>3 DEF GateRow
  <2> DEFINE att == RecordAttempt(acc.gate, i, TRUE)
             more == acc.send \cup {i}
  <2>2. att = [last |-> i, failed |-> FALSE, sent |-> i] /\ att \in Gates
    BY <1>1 DEF RecordAttempt, Gates
  <2>3. /\ sent \in [gate : Gates, send : SUBSET batch, retries : SUBSET batch,
                     rejected : SUBSET batch]
        /\ sent.gate = [last |-> i, failed |-> FALSE, sent |-> i]
        /\ sent.send = acc.send \cup {i} /\ sent.retries = acc.retries
        /\ sent.rejected = acc.rejected
    <3>1. acc \in [gate : Gates, send : SUBSET batch, retries : SUBSET batch,
                   rejected : SUBSET batch]
      BY DEF Judgement
    <3>2. sent = [acc EXCEPT !.send = more, !.gate = att]
      BY <3>1
    <3>3. more \in SUBSET batch
      BY <3>1
    <3> HIDE DEF sent, more, att
    <3>4. /\ sent \in [gate : Gates, send : SUBSET batch, retries : SUBSET batch,
                       rejected : SUBSET batch]
          /\ sent.gate = att /\ sent.send = more /\ sent.retries = acc.retries
          /\ sent.rejected = acc.rejected
      BY <2>2, <3>1, <3>2, <3>3
    <3> QED BY <2>2, <3>4 DEF more
  <2> HIDE DEF next, sent
  <2>4. Settled(sent.gate, passed \cup sent.send)
    BY <1>1, <2>3 DEF Settled, Gates
  <2>5. \A j \in sent.rejected : Near(j, passed \cup sent.send)
    BY <2>3, NearGrows DEF Judgement
  <2> QED BY <2>1, <2>3, <2>4, <2>5 DEF Judgement, next
<1>4. CASE ~(acc.gate.last # 0 /\ i <= acc.gate.last) /\ ~ShouldSend(acc.gate, i)
  <2>1. next = left
    BY <1>4 DEF GateRow
  <2>2. /\ left \in [gate : Gates, send : SUBSET batch, retries : SUBSET batch,
                     rejected : SUBSET batch]
        /\ left.gate = acc.gate /\ left.send = acc.send /\ left.retries = acc.retries
        /\ left.rejected = acc.rejected \cup {i}
    BY DEF Judgement
  <2> HIDE DEF next, left
  <2>3. Near(i, passed \cup acc.send)
    BY <1>1, <1>4, RejectedIsNear DEF Judgement
  <2> QED BY <2>1, <2>2, <2>3 DEF Judgement, next
<1> QED BY <1>2, <1>3, <1>4

LEMMA BatchIsJudged ==
    ASSUME NEW batch, batch \subseteq Readings, Settled(gate, passed)
    PROVE  Judgement(GateRows(batch), batch)
<1> DEFINE J(i) == Judged(batch)[i]
           T == {m \in Nat : m <= N /\ ~Judgement(J(m), batch)}
<1>0. N \in Nat /\ Readings = 1..N
  BY OutboxAssumption DEF Readings
<1>1. GateRows(batch) = J(N) /\ J(0) = Unjudged
      /\ \A i \in 1..N : J(i) = JudgeNext(J(i - 1), i, batch)
  BY JudgedSteps
<1> HIDE DEF J
<1>2. SUFFICES ASSUME T # {} PROVE FALSE
  BY <1>0, <1>1
<1>3. PICK m \in T : \A k \in T : m <= k
  BY <1>2, LeastNatural
<1>4. m # 0
  <2>1. Judgement(Unjudged, batch)
    BY DEF Judgement, Unjudged, Settled
  <2> QED BY <1>1, <1>3, <2>1
<1>5. m \in 1..N /\ m - 1 \in Nat /\ m - 1 <= N
  BY <1>0, <1>3, <1>4
<1>6. Judgement(J(m - 1), batch)
  BY <1>3, <1>5
<1>7. J(m) = JudgeNext(J(m - 1), m, batch)
  BY <1>1, <1>5
<1>8. Judgement(J(m), batch)
  BY <1>6, <1>7, GateRowKeeps DEF JudgeNext
<1> QED BY <1>3, <1>8

-----------------------------------------------------------------------------
(* The second invariant: the types, what a drain holds, and the gate. *)

RawRows == Row \cup {NoRow}
Drains == [at : {"idle", "aged", "gated", "ready", "published", "posting", "accepted",
                 "results", "rejected", "stopped", "evicted", "off"},
           floor : 0..N, gating : BOOLEAN, save : Lives,
           send : SUBSET Readings, left : SUBSET Readings, sent : SUBSET Readings,
           retries : SUBSET Readings, rejected : SUBSET Readings]

\* The type invariant by the parts of the state.
StoreOK == /\ row \in [Readings -> RawRows] /\ power \in [Readings -> Powers]
           /\ arrivals \in [Readings -> 0..MaxArrivals] /\ floor \in 0..MaxFloor
SenderOK == drain \in Drains /\ gate \in Gates
LoopsOK == /\ control \in [primary : BOOLEAN, bootstrapped : BOOLEAN, live : BOOLEAN]
           /\ cooling \in BOOLEAN /\ {life, stored} \subseteq Lives
           /\ poller \in {"on", "save paused", "save deprovisioned", "off"}
CloudOK == server \in {"serves", "stops", "evicts"} /\ uploaded \subseteq Readings
           /\ refused \in [Readings -> 0..MaxAttempts]
HistoryOK == /\ withheld \subseteq Readings /\ thinned \subseteq Readings
             /\ passed \subseteq Readings /\ aged \subseteq Readings
CrashesOK == crashes \in 0..MaxCrashes

LEMMA TypeParts ==
    TypeOK <=> StoreOK /\ SenderOK /\ LoopsOK /\ CloudOK /\ HistoryOK /\ CrashesOK
BY DEF TypeOK, StoreOK, SenderOK, LoopsOK, CloudOK, HistoryOK, CrashesOK, RawRows, Drains, Gates

\* What a drain holds was let out and has attempts left; a drain that has not
\* read its batch does not gate.
DrainHolds ==
    /\ drain.left \subseteq drain.send
    /\ \A i \in drain.send : row[i].attempts < MaxAttempts
    /\ drain.gating =>
          /\ drain.at # "aged"
          /\ drain.send \subseteq passed /\ drain.retries \subseteq drain.send

\* The gate thins readings out, and no more.
ThinnedNear == \A i \in thinned : Near(i, passed)

GateInv == TypeOK /\ DrainHolds /\ Settled(gate, passed) /\ ThinnedNear

LEMMA RowsFit ==
    ASSUME StoreOK, NEW s \in SUBSET Readings
    PROVE  /\ MarkSent(s) \in [Readings -> RawRows]
           /\ \A i \in Readings : MarkSent(s)[i].attempts = row[i].attempts
           /\ (\A i \in s : row[i].state \in Open) => SkipAged(s) \in [Readings -> RawRows]
           /\ \A i \in Readings : SkipAged(s)[i].attempts = row[i].attempts
           /\ (\A i \in s : row[i].attempts < MaxAttempts)
                 => MarkFailed(s) \in [Readings -> RawRows]
<1>1. \A i \in Readings : row[i] \in RawRows
  BY DEF StoreOK
<1>2. \A r \in RawRows : /\ r.attempts \in Nat /\ r.attempts <= MaxAttempts
                         /\ r = [state |-> r.state, attempts |-> r.attempts]
  BY OutboxAssumption DEF RawRows, Row, NoRow, Open
<1>3. \A r \in RawRows : /\ r # NoRow => [r EXCEPT !.state = "sent"] \in RawRows
                         /\ r.state \in Open => [r EXCEPT !.state = "skipped"] \in RawRows
                         /\ [r EXCEPT !.state = "sent"].attempts = r.attempts
                         /\ [r EXCEPT !.state = "skipped"].attempts = r.attempts
  BY OutboxAssumption DEF RawRows, Row, NoRow, Open
<1>4. \A r \in RawRows : r.attempts < MaxAttempts => Failed(r) \in RawRows
  <2> SUFFICES ASSUME NEW r \in RawRows, r.attempts < MaxAttempts PROVE Failed(r) \in RawRows
    OBVIOUS
  <2>1. r.attempts \in Nat /\ MaxAttempts \in Nat
    BY <1>2, OutboxAssumption
  <2>2. CASE r.attempts + 1 >= MaxAttempts
    BY <2>1, <2>2 DEF Failed, RawRows, Row
  <2>3. CASE ~(r.attempts + 1 >= MaxAttempts)
    <3>1. Failed(r) = [state |-> "failed", attempts |-> r.attempts + 1]
      BY <2>3 DEF Failed
    <3>2. r.attempts + 1 \in 0..(MaxAttempts - 1)
      BY <2>1, <2>3
    <3> QED BY <3>1, <3>2 DEF RawRows, Row, Open
  <2> QED BY <2>2, <2>3
<1>5. /\ MarkSent(s) \in [Readings -> RawRows]
      /\ \A i \in Readings : MarkSent(s)[i].attempts = row[i].attempts
  BY <1>1, <1>3 DEF MarkSent, Held
<1>6. /\ (\A i \in s : row[i].state \in Open) => SkipAged(s) \in [Readings -> RawRows]
      /\ \A i \in Readings : SkipAged(s)[i].attempts = row[i].attempts
  BY <1>1, <1>3 DEF SkipAged
<1>7. (\A i \in s : row[i].attempts < MaxAttempts) => MarkFailed(s) \in [Readings -> RawRows]
  BY <1>1, <1>4 DEF MarkFailed, Held
<1> QED BY <1>5, <1>6, <1>7

LEMMA NoDrainFits ==
    /\ NoDrain \in Drains /\ NoDrain.at = "idle" /\ NoDrain.send = {} /\ NoDrain.left = {}
    /\ NoDrain.retries = {} /\ ~NoDrain.gating
BY OutboxAssumption DEF NoDrain, Drains, Lives

LEMMA GreatestReading ==
    ASSUME NEW T \in SUBSET Readings, T # {}
    PROVE  Max(T) \in T
<1> DEFINE U == {u \in Nat : \A k \in T : k <= u}
<1>1. T \subseteq Nat /\ \A k \in T : 1 <= k /\ k <= N
  BY DEF Readings
<1>2. N \in U
  BY <1>1, OutboxAssumption
<1>3. PICK m \in U : \A u \in U : m <= u
  BY <1>2, LeastNatural
<1>4. m \in T
  <2> SUFFICES ASSUME m \notin T PROVE FALSE
    OBVIOUS
  <2>1. \A k \in T : k <= m - 1
    BY <1>1, <1>3
  <2>2. m - 1 \in Nat
    <3>1. PICK k \in T : 1 <= k /\ k <= m - 1 /\ k \in Nat
      BY <1>1, <2>1
    <3> QED BY <1>3, <3>1
  <2>3. m - 1 \in U
    BY <2>1, <2>2
  <2> QED BY <1>3, <2>3
<1>5. \E x \in T : \A y \in T : x >= y
  BY <1>1, <1>3, <1>4
<1> QED BY <1>5 DEF Max

\* An outcome keeps the gate at a reading it let out.
LEMMA OutcomeSettles ==
    ASSUME Settled(gate, passed), NEW send \in SUBSET Readings, send \subseteq passed,
           NEW retries, retries \subseteq send, NEW sent
    PROVE  Settled(RecordOutcomes(gate, send, retries, sent), passed)
<1> DEFINE again == {i \in retries \cap sent : i >= gate.last}
           after == IF again = {} THEN gate ELSE RecordAttempt(gate, Max(again), TRUE)
           open == send \ sent
<1>1. \A i \in send : i \in 0..N /\ i \in passed
  BY DEF Readings
<1>2. Settled(after, passed)
  <2>1. CASE again = {}
    BY <2>1
  <2>2. CASE again # {}
    <3>1. again \in SUBSET Readings
      OBVIOUS
    <3> HIDE DEF again
    <3>2. Max(again) \in again
      BY <2>2, <3>1, GreatestReading
    <3>3. Max(again) \in send
      BY <3>2 DEF again
    <3>4. after = [last |-> Max(again), failed |-> FALSE, sent |-> Max(again)]
      BY <2>2 DEF RecordAttempt
    <3> HIDE DEF after
    <3> QED BY <1>1, <3>3, <3>4 DEF Settled, Gates
  <2> QED BY <2>1, <2>2
<1> HIDE DEF after
<1>3. CASE send \subseteq sent
  <2>1. RecordOutcomes(gate, send, retries, sent) = after
    BY <1>3 DEF RecordOutcomes, after
  <2> QED BY <1>2, <2>1
<1>4. CASE ~(send \subseteq sent)
  <2>1. RecordOutcomes(gate, send, retries, sent) = RecordAttempt(after, Max(open), FALSE)
    BY <1>4 DEF RecordOutcomes, after
  <2>2. open \in SUBSET Readings /\ open # {}
    BY <1>4
  <2> HIDE DEF open
  <2>3. Max(open) \in open
    BY <2>2, GreatestReading
  <2>4. Max(open) \in send
    BY <2>3 DEF open
  <2>5. RecordAttempt(after, Max(open), FALSE)
           = [last |-> Max(open), failed |-> TRUE, sent |-> after.sent]
    BY DEF RecordAttempt
  <2>6. after.sent \in 0..N
    BY <1>2 DEF Settled, Gates
  <2>7. Settled([last |-> Max(open), failed |-> TRUE, sent |-> after.sent], passed)
    BY <1>1, <2>4, <2>6 DEF Settled, Gates
  <2> QED BY <2>1, <2>5, <2>7
<1> QED BY <1>3, <1>4

-----------------------------------------------------------------------------
(* What a step owes to it, and the steps. *)

\* What the parts of the type invariant owe to a step that leaves them alone.
LEMMA PartsStand ==
    ASSUME GateInv
    PROVE  /\ UNCHANGED <<row, power, arrivals, floor>> => StoreOK'
           /\ UNCHANGED <<drain, gate>> => SenderOK'
           /\ UNCHANGED <<control, cooling, life, stored, poller>> => LoopsOK'
           /\ UNCHANGED cloud => CloudOK'
           /\ UNCHANGED history => HistoryOK'
           /\ UNCHANGED crashes => CrashesOK'
<1>1. StoreOK /\ SenderOK /\ LoopsOK /\ CloudOK /\ HistoryOK /\ CrashesOK
  BY TypeParts DEF GateInv
<1>2. UNCHANGED <<row, power, arrivals, floor>> => StoreOK'
  BY <1>1 DEF StoreOK
<1>3. UNCHANGED <<drain, gate>> => SenderOK'
  BY <1>1 DEF SenderOK
<1>4. UNCHANGED <<control, cooling, life, stored, poller>> => LoopsOK'
  BY <1>1 DEF LoopsOK
<1>5. UNCHANGED cloud => CloudOK'
  BY <1>1 DEF CloudOK, cloud
<1>6. UNCHANGED history => HistoryOK'
  BY <1>1 DEF HistoryOK, history, thin
<1>7. UNCHANGED crashes => CrashesOK'
  BY <1>1 DEF CrashesOK
<1> QED BY <1>2, <1>3, <1>4, <1>5, <1>6, <1>7

LEMMA TypePartsAfter ==
    (StoreOK /\ SenderOK /\ LoopsOK /\ CloudOK /\ HistoryOK /\ CrashesOK)' => TypeOK'
BY DEF TypeOK, StoreOK, SenderOK, LoopsOK, CloudOK, HistoryOK, CrashesOK, RawRows, Drains, Gates

\* A drain that goes on with what it has, while no row loses attempts.
LEMMA DrainStands ==
    ASSUME GateInv, StoreOK', LoopsOK', CloudOK', HistoryOK', CrashesOK',
           UNCHANGED <<gate, thinned, passed>>, drain' \in Drains,
           drain'.send \subseteq drain.send, drain'.left \subseteq drain'.send,
           drain'.gating => /\ drain.gating /\ drain'.at # "aged"
                            /\ drain'.retries \subseteq drain'.send,
           \A i \in Readings : row'[i].attempts <= row[i].attempts
    PROVE  GateInv'
<1>1. TypeOK'
  <2>1. SenderOK'
    BY TypeParts DEF GateInv, SenderOK
  <2> QED BY <2>1, TypePartsAfter
<1>2. DrainHolds'
  <2>1. \A i \in Readings : row[i].attempts \in Nat /\ row'[i].attempts \in Nat
    <3>1. \A r \in RawRows : r.attempts \in Nat
      BY OutboxAssumption DEF RawRows, Row, NoRow
    <3>2. \A i \in Readings : row[i] \in RawRows /\ row'[i] \in RawRows
      BY TypeParts DEF GateInv, StoreOK
    <3> QED BY <3>1, <3>2
  <2>2. \A i \in drain'.send : i \in Readings
    BY DEF Drains
  <2>3. \A i \in drain'.send : row'[i].attempts < MaxAttempts
    BY <2>1, <2>2, OutboxAssumption DEF GateInv, DrainHolds
  <2> QED BY <2>3 DEF GateInv, DrainHolds
<1>3. Settled(gate, passed)' /\ ThinnedNear'
  BY DEF GateInv, Settled, ThinnedNear, Near
<1> QED BY <1>1, <1>2, <1>3 DEF GateInv

\* A drain that ends tells the gate, or does not.
LEMMA DrainEnds ==
    ASSUME GateInv, StoreOK', LoopsOK', CloudOK', HistoryOK', CrashesOK',
           UNCHANGED <<thinned, passed>>, Finish(drain) \/ (drain' = NoDrain /\ UNCHANGED gate)
    PROVE  GateInv'
<1>1. drain' = NoDrain
  BY DEF Finish, Goto
<1>2. DrainHolds'
  BY <1>1, NoDrainFits DEF DrainHolds
<1>3. Settled(gate', passed)
  <2>1. CASE drain.gating /\ gate' = RecordOutcomes(gate, drain.send, drain.retries, drain.sent)
    <3>1. drain.send \in SUBSET Readings
      BY TypeParts DEF GateInv, SenderOK, Drains
    <3>2. /\ Settled(gate, passed) /\ drain.send \subseteq passed
          /\ drain.retries \subseteq drain.send
      BY <2>1 DEF GateInv, DrainHolds
    <3>3. Settled(RecordOutcomes(gate, drain.send, drain.retries, drain.sent), passed)
      BY <3>1, <3>2, OutcomeSettles
    <3> QED BY <2>1, <3>3
  <2>2. CASE gate' = gate
    BY <2>2 DEF GateInv
  <2> QED BY <2>1, <2>2 DEF Finish
<1>4. Settled(gate, passed)' /\ ThinnedNear'
  BY <1>3 DEF GateInv, ThinnedNear, Near, Settled
<1>5. SenderOK'
  BY <1>1, <1>4, NoDrainFits DEF SenderOK, Settled
<1> QED BY <1>2, <1>4, <1>5, TypePartsAfter DEF GateInv

LEMMA GateInit == Init => GateInv
<1> SUFFICES ASSUME Init PROVE GateInv
  OBVIOUS
<1>1. StoreOK
  BY OutboxAssumption DEF Init, StoreOK, RawRows
<1>2. SenderOK
  BY NoDrainFits, OutboxAssumption DEF Init, SenderOK, NewGate, Gates
<1>3. LoopsOK /\ CloudOK /\ HistoryOK /\ CrashesOK
  <2>1. LoopsOK
    BY DEF Init, LoopsOK, NewControl, Lives
  <2>2. CloudOK /\ HistoryOK /\ CrashesOK
    BY OutboxAssumption DEF Init, CloudOK, HistoryOK, CrashesOK
  <2> QED BY <2>1, <2>2
<1>4. DrainHolds
  BY NoDrainFits DEF Init, DrainHolds
<1>5. Settled(gate, passed) /\ ThinnedNear
  BY <1>2 DEF Init, SenderOK, Settled, ThinnedNear, NewGate
<1> QED BY <1>1, <1>2, <1>3, <1>4, <1>5, TypeParts DEF GateInv

\* The store: a reading that comes or goes has its attempts before it.
LEMMA AppendFits ==
    ASSUME GateInv, NEW i \in Readings, AppendReading(i) \/ Prune(i) PROVE GateInv'
<1>1. PICK r \in RawRows : r.attempts = 0 /\ row' = [row EXCEPT ![i] = r]
  BY OutboxAssumption DEF AppendReading, Prune, RawRows, Row, NoRow, Open
<1>2. UNCHANGED <<power, floor, volatile, stored, cloud, crashes, history>>
  BY DEF AppendReading, Prune
<1>3. arrivals' \in [Readings -> 0..MaxArrivals]
  BY TypeParts, OutboxAssumption DEF GateInv, StoreOK, AppendReading, Prune
<1>4. StoreOK'
  BY <1>1, <1>2, <1>3, TypeParts DEF GateInv, StoreOK
<1>5. LoopsOK' /\ CloudOK' /\ HistoryOK' /\ CrashesOK'
  BY <1>2, PartsStand DEF volatile
<1>6. \A j \in Readings : row'[j].attempts <= row[j].attempts
  <2>1. \A j \in Readings : row[j] \in RawRows /\ (row'[j] = row[j] \/ row'[j] = r)
    BY <1>1, TypeParts DEF GateInv, StoreOK
  <2>2. \A q \in RawRows : q.attempts \in Nat
    BY OutboxAssumption DEF RawRows, Row, NoRow
  <2> QED BY <1>1, <2>1, <2>2
<1>7. UNCHANGED <<drain, gate, thinned, passed>>
  BY <1>2 DEF volatile, history, thin
<1>8. /\ drain \in Drains /\ drain.left \subseteq drain.send
      /\ drain.gating => drain.at # "aged" /\ drain.retries \subseteq drain.send
  BY TypeParts DEF GateInv, SenderOK, DrainHolds
<1> QED BY <1>4, <1>5, <1>6, <1>7, <1>8, DrainStands

\* The rows and the drain stand still.
LEMMA OthersFit ==
    ASSUME GateInv, UNCHANGED <<row, drain, gate, thinned, passed>>,
           StoreOK', LoopsOK', CloudOK', HistoryOK', CrashesOK'
    PROVE  GateInv'
<1>1. \A q \in RawRows : q.attempts \in Nat
  BY OutboxAssumption DEF RawRows, Row, NoRow
<1>2. \A j \in Readings : row'[j].attempts <= row[j].attempts
  BY <1>1, TypeParts DEF GateInv, StoreOK
<1>3. /\ drain \in Drains /\ drain.left \subseteq drain.send
      /\ drain.gating => drain.at # "aged" /\ drain.retries \subseteq drain.send
  BY TypeParts DEF GateInv, SenderOK, DrainHolds
<1> QED BY <1>2, <1>3, DrainStands

LEMMA AgesFits == ASSUME GateInv, Ages PROVE GateInv'
<1>1. StoreOK'
  BY TypeParts, OutboxAssumption DEF GateInv, StoreOK, Ages
<1>2. UNCHANGED <<row, volatile, stored, cloud, crashes, history>>
  BY DEF Ages
<1> QED BY <1>1, <1>2, OthersFit, PartsStand DEF volatile, history, thin

LEMMA CooldownFits == ASSUME GateInv, CooldownEnds PROVE GateInv'
<1>1. LoopsOK'
  BY TypeParts DEF GateInv, LoopsOK, CooldownEnds
<1> QED BY <1>1, OthersFit, PartsStand DEF CooldownEnds, history, thin

LEMMA PollerFits == ASSUME GateInv, Poller PROVE GateInv'
<1>1. UNCHANGED <<row, power, arrivals, floor, drain, gate, cloud, crashes, history>>
  BY DEF Poller, PollStopped, PollEvicted, PollEnds, PollerSaves, PollerEnds
<1>2. Set("paused") \in Lives /\ Set("deprovisioned") \in Lives
  BY TypeParts DEF GateInv, LoopsOK, Set, Lives
<1>3. LoopsOK'
  <2>1. LoopsOK
    BY TypeParts DEF GateInv
  <2>2. CASE PollStopped \/ PollEvicted
    BY <1>2, <2>1, <2>2 DEF PollStopped, PollEvicted, PollEnds, LoopsOK
  <2>3. CASE PollerSaves
    BY <2>1, <2>3 DEF PollerSaves, LoopsOK, Lives
  <2>4. CASE PollerEnds
    BY <2>1, <2>4 DEF PollerEnds, LoopsOK
  <2> QED BY <2>2, <2>3, <2>4 DEF Poller
<1> QED BY <1>1, <1>3, OthersFit, PartsStand DEF history, thin

LEMMA ConfiguredFits ==
    ASSUME NEW c \in Configs, NEW b \in BOOLEAN
    PROVE  Configured(c, b) \in [primary : BOOLEAN, bootstrapped : BOOLEAN, live : BOOLEAN]
BY OutboxAssumption DEF Configured

LEMMA ConfigFits == ASSUME GateInv, NEW c \in Configs, Config(c) PROVE GateInv'
<1>1. control.bootstrapped \in BOOLEAN
  BY TypeParts DEF GateInv, LoopsOK
<1>2. LoopsOK'
  BY <1>1, ConfiguredFits, TypeParts DEF GateInv, LoopsOK, Config
<1> QED BY <1>2, OthersFit, PartsStand DEF Config, history, thin

LEMMA ServerFits == ASSUME GateInv, NEW s \in Servers, Server(s) PROVE GateInv'
<1>1. CloudOK'
  BY TypeParts, OutboxAssumption DEF GateInv, CloudOK, Server
<1>2. UNCHANGED <<row, power, arrivals, floor, volatile, stored, crashes, history>>
  BY DEF Server
<1> QED BY <1>1, <1>2, OthersFit, PartsStand DEF volatile, history, thin

LEMMA AttemptsAreNumbers ==
    ASSUME StoreOK PROVE \A i \in Readings : row[i] \in RawRows /\ row[i].attempts \in Nat
<1>1. \A q \in RawRows : q.attempts \in Nat
  BY OutboxAssumption DEF RawRows, Row, NoRow
<1> QED BY <1>1 DEF StoreOK

LEMMA BeginFits == ASSUME GateInv, DrainBegins PROVE GateInv'
<1> DEFINE old == {i \in Readings : row[i].state \in Open /\ i <= floor}
<1>1. /\ row' = SkipAged(old) /\ aged' = aged \cup old
      /\ drain' = [NoDrain EXCEPT !.at = "aged", !.floor = floor]
      /\ UNCHANGED <<power, arrivals, floor, gate, control, cooling, life, stored, poller,
                     cloud, crashes, thin>>
  BY DEF DrainBegins, Goto
<1>2. old \in SUBSET Readings /\ \A i \in old : row[i].state \in Open
  OBVIOUS
<1> HIDE DEF old
<1>3. StoreOK /\ HistoryOK
  BY TypeParts DEF GateInv
<1>4. /\ row' \in [Readings -> RawRows]
      /\ \A i \in Readings : row'[i].attempts = row[i].attempts
  BY <1>1, <1>2, <1>3, RowsFit
<1>5. StoreOK'
  BY <1>1, <1>3, <1>4 DEF StoreOK
<1>6. HistoryOK'
  BY <1>1, <1>2, <1>3 DEF HistoryOK, thin
<1>7. /\ drain' \in Drains /\ drain'.send = {} /\ drain'.retries = {} /\ drain'.left = {}
      /\ ~drain'.gating
  <2>1. floor \in 0..N
    BY <1>3, OutboxAssumption DEF StoreOK
  <2> QED BY <1>1, <2>1, NoDrainFits DEF Drains
<1>8. \A i \in Readings : row'[i].attempts <= row[i].attempts
  BY <1>3, <1>4, AttemptsAreNumbers
<1> QED BY <1>1, <1>5, <1>6, <1>7, <1>8, DrainStands, PartsStand DEF thin

LEMMA ReadFits == ASSUME GateInv, DrainReads PROVE GateInv'
<1> DEFINE batch == Oldest(Sendable(drain.floor))
           g == GateRows(batch)
           a == IF g.rejected = {} THEN "ready" ELSE "gated"
<1>1. /\ UNCHANGED <<row, power, arrivals, floor, control, cooling, life, stored, poller,
                     cloud, crashes, aged>>
      /\ drain.at = "aged"
  BY DEF DrainReads
<1>2. \/ drain' = NoDrain /\ UNCHANGED <<gate, thin>>
      \/ /\ drain' = [drain EXCEPT !.at = a, !.send = g.send, !.left = g.send, !.gating = TRUE,
                                   !.retries = g.retries, !.rejected = g.rejected]
         /\ gate' = g.gate /\ withheld' = withheld \cup g.rejected
         /\ thinned' = thinned \cup g.rejected /\ passed' = passed \cup g.send
      \/ /\ drain' = [drain EXCEPT !.at = "ready", !.send = batch, !.left = batch]
         /\ gate' = NewGate /\ thinned' = {} /\ passed' = {} /\ UNCHANGED withheld
  BY DEF DrainReads, Goto
<1>3. a \in {"ready", "gated"}
  OBVIOUS
<1>4. batch \in SUBSET Readings /\ \A i \in batch : row[i].attempts < MaxAttempts
  BY DEF Oldest, Sendable
<1>5. Settled(gate, passed) /\ ThinnedNear /\ DrainHolds /\ drain \in Drains
  BY TypeParts DEF GateInv, SenderOK
<1>6. HistoryOK
  BY TypeParts DEF GateInv
<1>7. Judgement(g, batch)
  BY <1>4, <1>5, BatchIsJudged
<1> HIDE DEF batch, g, a
<1>8. StoreOK' /\ LoopsOK' /\ CloudOK' /\ CrashesOK'
  BY <1>1, PartsStand
<1>9. CASE drain' = NoDrain /\ UNCHANGED <<gate, thin>>
  <2>1. HistoryOK'
    BY <1>1, <1>6, <1>9 DEF HistoryOK, thin
  <2> QED BY <1>8, <1>9, <2>1, DrainEnds DEF thin
<1>10. CASE /\ drain' = [drain EXCEPT !.at = a, !.send = g.send, !.left = g.send,
                                      !.gating = TRUE, !.retries = g.retries,
                                      !.rejected = g.rejected]
            /\ gate' = g.gate /\ withheld' = withheld \cup g.rejected
            /\ thinned' = thinned \cup g.rejected /\ passed' = passed \cup g.send
  <2> DEFINE send == g.send
             retries == g.retries
             rejected == g.rejected
  <2>1. /\ send \in SUBSET batch /\ retries \in SUBSET send /\ rejected \in SUBSET batch
        /\ Settled(g.gate, passed \cup send) /\ \A i \in rejected : Near(i, passed \cup send)
    BY <1>7 DEF Judgement
  <2>2. /\ drain' = [drain EXCEPT !.at = a, !.send = send, !.left = send, !.gating = TRUE,
                                  !.retries = retries, !.rejected = rejected]
        /\ gate' = g.gate /\ withheld' = withheld \cup rejected
        /\ thinned' = thinned \cup rejected /\ passed' = passed \cup send
    BY <1>10
  <2> HIDE DEF send, retries, rejected
  <2>3. /\ drain' \in Drains /\ drain'.send = send /\ drain'.left = send
        /\ drain'.retries = retries /\ drain'.at = a
    <3>1. send \in SUBSET Readings /\ retries \in SUBSET Readings /\ rejected \in SUBSET Readings
      BY <1>4, <2>1
    <3>2. drain' = [drain EXCEPT !.at = a, !.send = send, !.left = send, !.gating = TRUE,
                                 !.retries = retries, !.rejected = rejected]
      BY <2>2
    <3> QED BY ONLY <1>3, <1>5, <3>1, <3>2 DEF Drains
  <2>4. Settled(gate, passed)' /\ SenderOK'
    BY <2>1, <2>2, <2>3 DEF Settled, SenderOK
  <2>5. ThinnedNear'
    <3>1. \A i \in thinned : Near(i, passed \cup send)
      BY <1>5, NearGrows DEF ThinnedNear
    <3>2. \A i \in thinned' : Near(i, passed \cup send)
      BY <2>1, <2>2, <3>1
    <3> QED BY <2>2, <3>2 DEF ThinnedNear, Near
  <2>6. DrainHolds'
    BY <1>1, <1>3, <1>4, <2>1, <2>2, <2>3 DEF DrainHolds
  <2>7. HistoryOK'
    BY <1>1, <1>4, <1>6, <2>1, <2>2 DEF HistoryOK
  <2> QED BY <1>8, <2>4, <2>5, <2>6, <2>7, TypePartsAfter DEF GateInv
<1>11. CASE /\ drain' = [drain EXCEPT !.at = "ready", !.send = batch, !.left = batch]
            /\ gate' = NewGate /\ thinned' = {} /\ passed' = {} /\ UNCHANGED withheld
  <2>1. /\ drain' \in Drains /\ drain'.send = batch /\ drain'.left = batch
        /\ ~drain'.gating
    BY <1>1, <1>4, <1>5, <1>11 DEF Drains, DrainHolds
  <2>2. DrainHolds'
    BY <1>1, <1>4, <2>1 DEF DrainHolds
  <2>3. Settled(gate, passed)' /\ ThinnedNear' /\ SenderOK'
    <3>1. NewGate \in Gates /\ NewGate.last = 0 /\ NewGate.sent = 0
      BY OutboxAssumption DEF NewGate, Gates
    <3> QED BY <1>11, <2>1, <3>1 DEF Settled, ThinnedNear, SenderOK
  <2>4. HistoryOK'
    BY <1>1, <1>6, <1>11 DEF HistoryOK
  <2> QED BY <1>8, <2>2, <2>3, <2>4, TypePartsAfter DEF GateInv
<1> QED BY <1>2, <1>9, <1>10, <1>11

LEMMA DrainParts ==
    ASSUME GateInv
    PROVE  /\ StoreOK /\ LoopsOK /\ CloudOK /\ HistoryOK /\ CrashesOK
           /\ drain \in Drains /\ drain.left \subseteq drain.send
           /\ \A i \in drain.send : row[i].attempts < MaxAttempts
           /\ drain.gating => drain.retries \subseteq drain.send
           /\ drain.send \in SUBSET Readings /\ drain.left \in SUBSET Readings
           /\ drain.sent \in SUBSET Readings /\ drain.rejected \in SUBSET Readings
BY TypeParts DEF GateInv, SenderOK, DrainHolds, Drains

LEMMA SentFits ==
    ASSUME GateInv, NEW s \in SUBSET Readings, row' = MarkSent(s),
           UNCHANGED <<power, arrivals, floor>>
    PROVE  StoreOK' /\ \A i \in Readings : row'[i].attempts <= row[i].attempts
<1>1. StoreOK
  BY DrainParts
<1>2. /\ row' \in [Readings -> RawRows]
      /\ \A i \in Readings : row'[i].attempts = row[i].attempts
  BY <1>1, RowsFit
<1>3. \A i \in Readings : row'[i].attempts <= row[i].attempts
  BY <1>1, <1>2, AttemptsAreNumbers
<1> QED BY <1>1, <1>2, <1>3 DEF StoreOK

LEMMA FailedFits ==
    ASSUME GateInv, NEW s \in SUBSET drain.left, row' = MarkFailed(s),
           UNCHANGED <<power, arrivals, floor>>
    PROVE  StoreOK'
<1>1. StoreOK /\ s \in SUBSET Readings /\ \A i \in s : row[i].attempts < MaxAttempts
  BY DrainParts
<1>2. row' \in [Readings -> RawRows]
  BY <1>1, RowsFit
<1> QED BY <1>1, <1>2 DEF StoreOK

\* The rows stand still and the drain goes on.
LEMMA QuietFits ==
    ASSUME GateInv, UNCHANGED row, StoreOK', LoopsOK', CloudOK', HistoryOK', CrashesOK',
           UNCHANGED <<gate, thinned, passed>>, drain' \in Drains,
           drain'.send \subseteq drain.send, drain'.left \subseteq drain'.send,
           drain'.gating => /\ drain.gating /\ drain'.at # "aged"
                            /\ drain'.retries \subseteq drain'.send
    PROVE  GateInv'
<1>1. \A i \in Readings : row'[i].attempts <= row[i].attempts
  BY DrainParts, AttemptsAreNumbers
<1> QED BY <1>1, DrainStands

LEMMA RejectedFits == ASSUME GateInv, RejectedMarked PROVE GateInv'
<1>1. /\ row' = MarkSent(drain.rejected)
      /\ drain' = NoDrain \/ drain' = [drain EXCEPT !.at = "ready"]
      /\ UNCHANGED <<power, arrivals, floor, gate, control, cooling, life, stored, poller,
                     cloud, crashes, history>>
  BY DEF RejectedMarked, Goto
<1>2. StoreOK' /\ \A i \in Readings : row'[i].attempts <= row[i].attempts
  BY <1>1, DrainParts, SentFits
<1>3. LoopsOK' /\ CloudOK' /\ HistoryOK' /\ CrashesOK'
  BY <1>1, PartsStand
<1>4. CASE drain' = NoDrain
  BY <1>1, <1>2, <1>3, <1>4, DrainEnds DEF history, thin
<1>5. CASE drain' = [drain EXCEPT !.at = "ready"]
  <2>1. /\ drain' \in Drains /\ drain'.at = "ready" /\ drain'.send = drain.send
        /\ drain'.left = drain.left /\ drain'.retries = drain.retries
        /\ drain'.gating = drain.gating
    BY <1>5, DrainParts DEF Drains
  <2> QED BY <1>1, <1>2, <1>3, <2>1, DrainParts, DrainStands DEF history, thin
<1> QED BY <1>1, <1>4, <1>5

LEMMA PublishFits ==
    ASSUME GateInv, NEW got, NEW acked, Publish(got, acked) PROVE GateInv'
<1>1. /\ acked \subseteq got /\ got \subseteq drain.send /\ uploaded' = uploaded \cup got
      /\ drain' = [drain EXCEPT !.at = "published", !.sent = acked]
      /\ UNCHANGED <<row, power, arrivals, floor, gate, control, cooling, life, stored, poller,
                     server, refused, crashes, history>>
  BY DEF Publish, Goto
<1>2. /\ drain' \in Drains /\ drain'.at = "published" /\ drain'.send = drain.send
      /\ drain'.left = drain.left /\ drain'.retries = drain.retries
      /\ drain'.gating = drain.gating
  BY <1>1, DrainParts DEF Drains
<1>3. CloudOK'
  BY <1>1, DrainParts DEF CloudOK
<1> QED BY <1>1, <1>2, <1>3, DrainParts, PartsStand, QuietFits DEF history, thin

LEMMA AckedFits == ASSUME GateInv, AckedMarked PROVE GateInv'
<1>1. /\ row' = MarkSent(drain.sent)
      /\ \/ Finish(drain)
         \/ /\ drain' = [drain EXCEPT !.at = "posting", !.left = drain.send \ drain.sent]
            /\ UNCHANGED gate
      /\ UNCHANGED <<power, arrivals, floor, control, cooling, life, stored, poller, cloud,
                     crashes, history>>
  BY DEF AckedMarked, Goto
<1>2. StoreOK' /\ \A i \in Readings : row'[i].attempts <= row[i].attempts
  BY <1>1, DrainParts, SentFits
<1>3. LoopsOK' /\ CloudOK' /\ HistoryOK' /\ CrashesOK'
  BY <1>1, PartsStand
<1>4. CASE Finish(drain)
  BY <1>1, <1>2, <1>3, <1>4, DrainEnds DEF history, thin
<1>5. CASE /\ drain' = [drain EXCEPT !.at = "posting", !.left = drain.send \ drain.sent]
           /\ UNCHANGED gate
  <2>1. /\ drain' \in Drains /\ drain'.at = "posting" /\ drain'.send = drain.send
        /\ drain'.left = drain.send \ drain.sent /\ drain'.retries = drain.retries
        /\ drain'.gating = drain.gating
    BY <1>5, DrainParts DEF Drains
  <2> QED BY <1>1, <1>2, <1>3, <1>5, <2>1, DrainParts, DrainStands DEF history, thin
<1> QED BY <1>1, <1>4, <1>5

LEMMA PostFits == ASSUME GateInv, PostBegins PROVE GateInv'
<1>1. /\ drain' \in Drains /\ drain'.at = "posting" /\ drain'.send = drain.send
      /\ drain'.left = drain.left /\ drain'.retries = drain.retries
      /\ drain'.gating = drain.gating
  BY DrainParts DEF PostBegins, Goto, Drains
<1> QED BY <1>1, DrainParts, PartsStand, QuietFits DEF PostBegins, history, thin

LEMMA AcceptFits ==
    ASSUME GateInv, NEW ok, PostAccepted(ok) PROVE GateInv'
<1>1. /\ ok \subseteq drain.left /\ uploaded' = uploaded \cup ok /\ Refuse(drain.left \ ok)
      /\ drain' = [drain EXCEPT !.at = "accepted", !.sent = @ \cup ok]
      /\ UNCHANGED <<row, power, arrivals, floor, gate, control, cooling, life, stored, poller,
                     server, crashes, history>>
  BY DEF PostAccepted, Goto
<1>2. /\ drain' \in Drains /\ drain'.at = "accepted" /\ drain'.send = drain.send
      /\ drain'.left = drain.left /\ drain'.retries = drain.retries
      /\ drain'.gating = drain.gating
  BY <1>1, DrainParts DEF Drains
<1>3. refused' \in [Readings -> 0..MaxAttempts]
  BY <1>1, DrainParts, RefuseCounts DEF CloudOK
<1>4. CloudOK'
  BY <1>1, <1>3, DrainParts DEF CloudOK
<1> QED BY <1>1, <1>2, <1>4, DrainParts, PartsStand, QuietFits DEF history, thin

LEMMA RejectFits == ASSUME GateInv, PostRejected PROVE GateInv'
<1>1. /\ drain' = [drain EXCEPT !.at = "rejected"] /\ Refuse(drain.left)
      /\ UNCHANGED <<row, power, arrivals, floor, gate, control, cooling, life, stored, poller,
                     server, uploaded, crashes, history>>
  BY DEF PostRejected, Goto
<1>2. /\ drain' \in Drains /\ drain'.at = "rejected" /\ drain'.send = drain.send
      /\ drain'.left = drain.left /\ drain'.retries = drain.retries
      /\ drain'.gating = drain.gating
  BY <1>1, DrainParts DEF Drains
<1>3. refused' \in [Readings -> 0..MaxAttempts]
  BY <1>1, DrainParts, RefuseCounts DEF CloudOK
<1>4. CloudOK'
  BY <1>1, <1>3, DrainParts DEF CloudOK
<1> QED BY <1>1, <1>2, <1>4, DrainParts, PartsStand, QuietFits DEF history, thin

LEMMA OutageFits ==
    ASSUME GateInv, NEW got, PostUnavailable(got) \/ PostRaises(got) PROVE GateInv'
<1>1. /\ got \subseteq drain.left /\ uploaded' = uploaded \cup got
      /\ UNCHANGED <<row, power, arrivals, floor, control, life, stored, poller, server,
                     refused, crashes, history>>
      /\ cooling' \in {TRUE, cooling}
      /\ Finish(drain) \/ (drain' = NoDrain /\ UNCHANGED gate)
  BY DEF PostUnavailable, PostRaises, OutageKeepsRows, Goto
<1>2. CloudOK' /\ LoopsOK'
  BY <1>1, DrainParts DEF CloudOK, LoopsOK
<1> QED BY <1>1, <1>2, PartsStand, DrainEnds DEF history, thin

LEMMA StopFits == ASSUME GateInv, PostStopped \/ PostEvicted PROVE GateInv'
<1>1. PICK a \in {"stopped", "evicted"}, s \in {"paused", "deprovisioned"} :
         /\ life' = Set(s) /\ drain' = [drain EXCEPT !.at = a, !.save = Set(s)]
  BY DEF PostStopped, PostEvicted, PostEnds, Goto
<1>2. UNCHANGED <<row, power, arrivals, floor, gate, control, cooling, stored, poller, cloud,
                  crashes, history>>
  BY DEF PostStopped, PostEvicted, PostEnds
<1>3. Set(s) \in Lives
  BY DrainParts DEF LoopsOK, Set, Lives
<1>4. LoopsOK'
  BY <1>1, <1>2, <1>3, DrainParts DEF LoopsOK
<1>5. /\ drain' \in Drains /\ drain'.at = a /\ drain'.send = drain.send
      /\ drain'.left = drain.left /\ drain'.retries = drain.retries
      /\ drain'.gating = drain.gating
  <2> DEFINE save == Set(s)
  <2>1. save \in Lives /\ drain' = [drain EXCEPT !.at = a, !.save = save]
    BY <1>1, <1>3
  <2> HIDE DEF save
  <2> QED BY <2>1, DrainParts DEF Drains
<1> QED BY <1>2, <1>4, <1>5, DrainParts, PartsStand, QuietFits DEF history, thin

LEMMA AnsweredFits == ASSUME GateInv, Answered PROVE
    cooling' \in BOOLEAN /\ Finish(drain)
    /\ control' \in [primary : BOOLEAN, bootstrapped : BOOLEAN, live : BOOLEAN]
BY ConfiguredFits DEF Answered

LEMMA ResultsFit == ASSUME GateInv, AcceptedMarked PROVE GateInv'
<1>1. /\ row' = MarkSent(drain.left \cap drain.sent)
      /\ \/ Answered
         \/ /\ drain' = [drain EXCEPT !.at = "results"] /\ UNCHANGED <<gate, control, cooling>>
      /\ UNCHANGED <<power, arrivals, floor, life, stored, poller, cloud, crashes, history>>
  BY DEF AcceptedMarked, MarkAcceptedSent, Goto
<1>2. StoreOK' /\ \A i \in Readings : row'[i].attempts <= row[i].attempts
  <2>1. drain.left \cap drain.sent \in SUBSET Readings
    BY DrainParts
  <2> QED BY <1>1, <2>1, SentFits
<1>3. CloudOK' /\ HistoryOK' /\ CrashesOK'
  BY <1>1, PartsStand
<1>4. CASE Answered
  <2>1. LoopsOK' /\ Finish(drain)
    BY <1>1, <1>4, AnsweredFits, DrainParts DEF LoopsOK
  <2> QED BY <1>1, <1>2, <1>3, <2>1, DrainEnds DEF history, thin
<1>5. CASE drain' = [drain EXCEPT !.at = "results"] /\ UNCHANGED <<gate, control, cooling>>
  <2>1. /\ drain' \in Drains /\ drain'.at = "results" /\ drain'.send = drain.send
        /\ drain'.left = drain.left /\ drain'.retries = drain.retries
        /\ drain'.gating = drain.gating
    BY <1>5, DrainParts DEF Drains
  <2>2. LoopsOK'
    BY <1>1, <1>5, PartsStand
  <2> QED BY <1>1, <1>2, <1>3, <1>5, <2>1, <2>2, DrainParts, DrainStands DEF history, thin
<1> QED BY <1>1, <1>4, <1>5

LEMMA RefusalsFit == ASSUME GateInv, RefusedMarked \/ BatchMarkedFailed PROVE GateInv'
<1>1. PICK s \in SUBSET drain.left : row' = MarkFailed(s)
  BY DEF RefusedMarked, BatchMarkedFailed
<1>2. UNCHANGED <<power, arrivals, floor, life, stored, poller, cloud, crashes, history>>
  BY DEF RefusedMarked, BatchMarkedFailed
<1>3. StoreOK' /\ CloudOK' /\ HistoryOK' /\ CrashesOK'
  BY <1>1, <1>2, FailedFits, PartsStand
<1>4. LoopsOK' /\ Finish(drain)
  <2>1. CASE RefusedMarked
    BY <1>2, <2>1, AnsweredFits, DrainParts DEF RefusedMarked, LoopsOK
  <2>2. CASE BatchMarkedFailed
    BY <1>2, <2>2, DrainParts DEF BatchMarkedFailed, LoopsOK
  <2> QED BY <2>1, <2>2
<1> QED BY <1>2, <1>3, <1>4, DrainEnds DEF history, thin

LEMMA SavesFits == ASSUME GateInv, SenderSaves PROVE GateInv'
<1>1. /\ stored' = drain.save /\ Finish(drain)
      /\ control' = [control EXCEPT !.bootstrapped = @ \/ drain.at = "stopped"]
      /\ UNCHANGED <<row, power, arrivals, floor, cooling, life, poller, cloud, crashes,
                     history>>
  BY DEF SenderSaves
<1>2. drain.save \in Lives
  BY DrainParts DEF Drains
<1>3. LoopsOK'
  <2>1. control' \in [primary : BOOLEAN, bootstrapped : BOOLEAN, live : BOOLEAN]
    BY <1>1, DrainParts DEF LoopsOK
  <2> QED BY <1>1, <1>2, <2>1, DrainParts DEF LoopsOK
<1> QED BY <1>1, <1>3, DrainEnds, PartsStand DEF history, thin

LEMMA EmptyDrain ==
    ASSUME NEW d, d \in {NoDrain, [NoDrain EXCEPT !.at = "off"]}
    PROVE  d \in Drains /\ d.send = {} /\ d.left = {} /\ ~d.gating
BY NoDrainFits DEF Drains

LEMMA SenderEndFits == ASSUME GateInv, SenderEnds PROVE GateInv'
<1>1. drain' \in Drains /\ drain'.send = {} /\ drain'.left = {} /\ ~drain'.gating
  BY EmptyDrain DEF SenderEnds, Goto
<1> QED BY <1>1, PartsStand, QuietFits DEF SenderEnds, history, thin

\* A restart forgets the gate, and with it what it judged.
LEMMA SetupFits == ASSUME GateInv, Setup, CrashesOK' PROVE GateInv'
<1>1. drain' \in Drains /\ drain'.send = {} /\ drain'.left = {} /\ ~drain'.gating
  BY EmptyDrain DEF Setup
<1>2. UNCHANGED <<row, power, arrivals, floor, stored, cloud, withheld, aged>>
      /\ gate' = NewGate /\ thinned' = {} /\ passed' = {}
  BY DEF Setup
<1>3. NewGate \in Gates /\ NewGate.last = 0 /\ NewGate.sent = 0
  BY OutboxAssumption DEF NewGate, Gates
<1>4. StoreOK' /\ CloudOK'
  BY <1>2, PartsStand
<1>5. HistoryOK'
  BY <1>2, DrainParts DEF HistoryOK
<1>6. LoopsOK'
  <2>1. NewControl \in [primary : BOOLEAN, bootstrapped : BOOLEAN, live : BOOLEAN]
    BY DEF NewControl
  <2> QED BY <2>1, DrainParts DEF Setup, LoopsOK
<1>7. DrainHolds' /\ Settled(gate, passed)' /\ ThinnedNear' /\ SenderOK'
  BY <1>1, <1>2, <1>3 DEF DrainHolds, Settled, ThinnedNear, SenderOK
<1> QED BY <1>4, <1>5, <1>6, <1>7, TypePartsAfter DEF GateInv

LEMMA GateKept == GateInv /\ [Next]_vars => GateInv'
<1> SUFFICES ASSUME GateInv, [Next]_vars PROVE GateInv'
  OBVIOUS
<1>1. CASE SenderStep
  BY <1>1, BeginFits, ReadFits, RejectedFits, PublishFits, AckedFits, PostFits, RejectFits,
     OutageFits, ResultsFit, RefusalsFit, SavesFits, SenderEndFits DEF SenderStep
<1>2. CASE CloudAnswers
  BY <1>2, AcceptFits, StopFits DEF CloudAnswers
<1>3. CASE CooldownEnds
  BY <1>3, CooldownFits
<1>4. CASE Poller
  BY <1>4, PollerFits
<1>5. CASE Reload
  BY <1>5, SetupFits, PartsStand DEF Reload
<1>6. CASE Environment
  <2>1. CASE Crash
    <3>1. CrashesOK'
      BY <2>1, DrainParts, OutboxAssumption DEF Crash, CrashesOK
    <3> QED BY <2>1, <3>1, SetupFits DEF Crash
  <2>2. CASE ~Crash
    BY <1>6, <2>2, AppendFits, AgesFits, ConfigFits, ServerFits DEF Environment
  <2> QED BY <2>1, <2>2
<1>7. CASE UNCHANGED vars
  BY <1>7, OthersFit, PartsStand DEF vars, cloud, history, thin
<1> QED BY <1>1, <1>2, <1>3, <1>4, <1>5, <1>6, <1>7 DEF Next

-----------------------------------------------------------------------------
(* The theorems. *)

LEMMA InvHolds == Spec => []OutboxInv
BY InitHolds, InvKept, PTL DEF Spec

LEMMA GateHolds == Spec => []GateInv
BY GateInit, GateKept, PTL DEF Spec

\* No reading is marked sent that neither the cloud nor the broker has, unless
\* the Live gate withheld it: half of NoneLost (mark_sent in reading_store.py and
\* its callers in reading_sender.py).
THEOREM NothingSentIsLost == Spec => []SentIsKnown
<1>1. OutboxInv => SentIsKnown
  BY DEF OutboxInv
<1> QED BY <1>1, InvHolds, PTL

\* Every variable keeps its type: no row has more attempts than MAX_SEND_ATTEMPTS
\* allows its state, whatever a drain does with rows that come, go or are marked
\* meanwhile (mark_failed in reading_store.py; drain_once in reading_sender.py).
THEOREM OutboxTyped == Spec => []TypeOK
<1>1. GateInv => TypeOK
  BY DEF GateInv
<1> QED BY <1>1, GateHolds, PTL

\* The Live gate thins readings out and silences no inverter: less than a
\* heartbeat before a withheld reading is one it let out, whatever batches, late
\* arrivals and failed uploads came between (_gate_rows and _record_outcomes in
\* reading_sender.py, LiveGate in live_gate.py); and no row is lost by its state.
THEOREM GateSilencesNone == Spec => []NoneLost
<1>1. GateInv /\ OutboxInv => NoneLost
  <2> SUFFICES ASSUME GateInv, OutboxInv, NEW i \in thinned
               PROVE  \E j \in Readings : j < i /\ i - j < Heartbeat /\ LetOut(j)
    BY DEF NoneLost, OutboxInv
  <2>1. PICK j \in passed : j < i /\ i - j < Heartbeat
    BY DEF GateInv, ThinnedNear, Near
  <2>2. j \in Readings /\ row[j] \in RawRows
    BY DrainParts DEF HistoryOK, StoreOK
  <2>3. row[j].state \in Open \/ row[j] = NoRow \/ row[j].state \in {"sent", "skipped"}
    BY <2>2 DEF RawRows, Row
  <2>4. row[j].state = "sent" => j \in uploaded \cup withheld
    BY <2>2 DEF OutboxInv, SentIsKnown
  <2>5. row[j].state = "skipped" => j \in aged \/ refused[j] >= MaxAttempts
    BY <2>2 DEF OutboxInv, GivenUpOnlyWhenRefused
  <2>6. LetOut(j)
    BY <2>1, <2>3, <2>4, <2>5 DEF LetOut
  <2> QED BY <2>1, <2>2, <2>6
<1> QED BY <1>1, GateHolds, InvHolds, PTL

\* Only the cloud's refusals burn a reading's budget (mark_failed and skip_aged in
\* reading_store.py, _http_send in reading_sender.py).
THEOREM OnlyRefusalsGiveUp == Spec => []GivenUpOnlyWhenRefused
<1>1. OutboxInv => GivenUpOnlyWhenRefused
  BY DEF OutboxInv
<1> QED BY <1>1, InvHolds, PTL

\* An eviction that is in force and stored stays so (LifecycleState._set in
\* lifecycle.py, set_lifecycle in reading_store.py).
THEOREM EvictionStays == Spec => EvictionIsFinal
<1> DEFINE gone == life = "deprovisioned" /\ stored = "deprovisioned"
           Final == gone /\ drain.at # "stopped" /\ poller # "save paused"
                    => life' = "deprovisioned" /\ stored' = "deprovisioned"
<1>1. OutboxInv /\ [Next]_vars => [Final]_vars
  <2> SUFFICES ASSUME OutboxInv, Next, gone, drain.at # "stopped", poller # "save paused"
               PROVE  life' = "deprovisioned" /\ stored' = "deprovisioned"
    BY DEF vars
  \* Only a restart and an answer of the cloud set the lifecycle.
  <2>1. life' = "deprovisioned"
    <3>1. CASE SenderStep
      BY <3>1 DEF SenderStep, DrainBegins, DrainReads, RejectedMarked, Publish, AckedMarked,
         PostBegins, PostRejected, PostUnavailable, PostRaises, AcceptedMarked, RefusedMarked,
         BatchMarkedFailed, SenderSaves, SenderEnds
    <3>2. CASE CloudAnswers
      BY <3>2 DEF CloudAnswers, PostAccepted, PostStopped, PostEvicted, PostEnds, Set
    <3>3. CASE CooldownEnds \/ Poller
      BY <3>3 DEF CooldownEnds, Poller, PollStopped, PollEvicted, PollEnds, PollerSaves,
         PollerEnds, Set
    <3>4. CASE Reload \/ Environment
      BY <3>4 DEF Reload, Environment, AppendReading, Prune, Ages, Config, Server, Crash, Setup,
         volatile
    <3> QED BY <3>1, <3>2, <3>3, <3>4 DEF Next
  \* The drain and the poller store nothing older.
  <2>2. stored' = "deprovisioned"
    <3>1. CASE SenderSaves
      BY <3>1 DEF SenderSaves, OutboxInv, SavesEviction
    <3>2. CASE PollerSaves
      BY <3>2 DEF PollerSaves
    <3>3. CASE SenderStep /\ ~SenderSaves
      BY <3>3 DEF SenderStep, DrainBegins, DrainReads, RejectedMarked, Publish, AckedMarked,
         PostBegins, PostRejected, PostUnavailable, PostRaises, AcceptedMarked, RefusedMarked,
         BatchMarkedFailed, SenderEnds
    <3>4. CASE CloudAnswers
      BY <3>4 DEF CloudAnswers, PostAccepted, PostStopped, PostEvicted, PostEnds
    <3>5. CASE CooldownEnds \/ (Poller /\ ~PollerSaves)
      BY <3>5 DEF CooldownEnds, Poller, PollStopped, PollEvicted, PollEnds, PollerEnds
    <3>6. CASE Reload \/ Environment
      BY <3>6 DEF Reload, Environment, AppendReading, Prune, Ages, Config, Server, Crash, Setup
    <3> QED BY <3>1, <3>2, <3>3, <3>4, <3>5, <3>6 DEF Next
  <2> QED BY <2>1, <2>2
<1>2. [][Final]_vars => EvictionIsFinal
  BY PTL DEF EvictionIsFinal
<1> QED BY <1>1, <1>2, InvHolds, PTL DEF Spec
=============================================================================
