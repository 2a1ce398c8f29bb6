----------------------------- MODULE Field_proofs -----------------------------
(***************************************************************************)
(* Theorems about what Home Assistant does in the field, for any callers,  *)
(* collectors, boxes, packs, inverters and requests: a collector           *)
(* connection keeps the promise of SerialLine (CollectorLine); no two      *)
(* sessions are one inverter's (CollectorHub); calls that take a logger's  *)
(* lock do not overlap (HarvestDevice); what is stored of the grid is what *)
(* the box said, and for a time only (EdgeIngest); an epoch tells a box's  *)
(* set of packs (BmsRoster); what is kept of a frame is plausible          *)
(* (ReadingValidation); and all of MCField is well typed.                  *)
(***************************************************************************)
EXTENDS MCField, SequenceTheorems, FiniteSetTheorems, WellFoundedInduction, TLAPS

(***************************************************************************)
(* CollectorLine.                                                          *)
(***************************************************************************)

SchedulerStates == [state : {"idle", "cloud", "ours", "desynced"},
                    queue : Seq(Requests), due : BOOLEAN]

(***************************************************************************)
(* The inductive invariant.  The line of an open connection, for a state s *)
(* of the scheduler, w on the wire, snt and ask the last requests sent and *)
(* made, pos where the callers are and dn which of their futures are done; *)
(* a closed connection is at rest.                                         *)
(***************************************************************************)

\* The scheduler knows whose the request on the line is.
OnLine(s, w, snt) ==
    /\ s.state # "desynced"
    /\ Len(w) <= 1
    /\ s.state = "idle" => w = <<>>
    /\ w # <<>> => /\ w[1][2] <= snt[w[1][1]]
                   /\ w[1][1] = Vendor <=> s.state = "cloud"
\* Queued requests were made and not sent, in order; one of them is ours, if
\* ours is not on the line.
InQueue(s, snt, ask) ==
    /\ \A i \in DOMAIN s.queue : /\ snt[s.queue[i][1]] < s.queue[i][2]
                                 /\ s.queue[i][2] <= ask[s.queue[i][1]]
    /\ \A i, j \in DOMAIN s.queue :
           i < j /\ s.queue[i][1] = s.queue[j][1] => s.queue[i][2] < s.queue[j][2]
    /\ \A i, j \in DOMAIN s.queue :
           s.queue[i][1] # Vendor /\ s.queue[j][1] # Vendor => i = j
    /\ s.state = "ours" => \A i \in DOMAIN s.queue : s.queue[i][1] = Vendor
\* A caller at the lock has made a request that is nowhere yet.
AtLock(s, snt, ask, pos) ==
    /\ \A a \in Askers : snt[a] <= ask[a]
    /\ \A c \in Callers : pos[c] = "lock" =>
           /\ snt[c] < ask[c]
           /\ \A i \in DOMAIN s.queue : s.queue[i][1] = c => s.queue[i][2] < ask[c]
\* What a caller waits for is on the line, or lost from it, or queued.
Awaited(s, w, ask, pos, dn) ==
    \A c \in Callers : pos[c] = "wait" /\ ~dn[c] =>
        \/ s.state = "ours" /\ (w # <<>> => w[1] = <<c, ask[c]>>)
        \/ \E i \in DOMAIN s.queue : s.queue[i] = <<c, ask[c]>>
Sound(s, w, snt, ask, pos, dn) ==
    /\ OnLine(s, w, snt)
    /\ InQueue(s, snt, ask)
    /\ AtLock(s, snt, ask, pos)
    /\ Awaited(s, w, ask, pos, dn)

LineInv ==
    /\ LineTypeOK
    /\ closed => /\ scheduler \in {Free, Desynced}
                 /\ ~link.up
                 /\ Len(wire) <= 1
                 /\ \A c \in Callers : at[c] = "wait" => done[c]
    /\ ~closed => Sound(scheduler, wire, sent, asked, at, done)

-----------------------------------------------------------------------------
\* The next request of the queue goes on the free line.
LEMMA PumpSound ==
    ASSUME NEW s \in SchedulerStates, NEW snt \in [Askers -> Nat], NEW ask \in [Askers -> Nat],
           NEW pos \in [Callers -> {"idle", "lock", "wait"}], NEW dn \in [Callers -> BOOLEAN],
           Sound(s, <<>>, snt, ask, pos, dn), Pumps(s)
    PROVE  LET r == Head(s.queue) IN
           /\ r \in Requests
           /\ snt[r[1]] < r[2] /\ r[2] <= ask[r[1]]
           /\ Pumped(s) \in SchedulerStates
           /\ Sound(Pumped(s), <<r>>, [snt EXCEPT ![r[1]] = r[2]], ask, pos, dn)
<1> DEFINE q == s.queue
           r == Head(q)
           p == Pumped(s)
           snt2 == [snt EXCEPT ![r[1]] = r[2]]
<1>1. q \in Seq(Requests) /\ q # <<>> /\ s.state = "idle"
  BY DEF Pumps, SchedulerStates
<1>2. /\ r = q[1] /\ r \in Requests /\ 1 \in DOMAIN q
      /\ Tail(q) \in Seq(Requests)
      /\ \A i \in DOMAIN Tail(q) : i + 1 \in DOMAIN q /\ Tail(q)[i] = q[i + 1] /\ i + 1 > 1 /\ i \in Nat
  BY <1>1, HeadTailProperties
<1>3. /\ p.state = (IF r[1] = Vendor THEN "cloud" ELSE "ours")
      /\ p.queue = Tail(q) /\ p \in SchedulerStates
  BY <1>1, <1>2 DEF Pumped, SchedulerStates
<1>4. r[1] \in Askers /\ r[2] \in Nat /\ snt[r[1]] < r[2] /\ r[2] <= ask[r[1]]
  BY <1>2 DEF Requests, Sound, InQueue
<1>5. /\ snt2 \in [Askers -> Nat] /\ snt2[r[1]] = r[2]
      /\ \A a \in Askers : a # r[1] => snt2[a] = snt[a]
  BY <1>4
<1>6. \A i \in DOMAIN q : q[i] \in Requests /\ q[i][1] \in Askers /\ q[i][2] \in Nat
  BY <1>1 DEF Requests
<1>a. p.queue \in Seq(Requests) /\ <<r>> # <<>> /\ <<r>>[1] = r /\ Len(<<r>>) = 1
  BY <1>2, <1>3
<1> HIDE DEF p, r, snt2
<1>7. OnLine(p, <<r>>, snt2)
  BY <1>3, <1>4, <1>5, <1>a DEF OnLine
<1>8. InQueue(p, snt2, ask)
  <2> DEFINE t == Tail(q)
  <2>1. ASSUME NEW i \in DOMAIN t
        PROVE  snt2[t[i][1]] < t[i][2] /\ t[i][2] <= ask[t[i][1]]
    <3>1. /\ i + 1 \in DOMAIN q /\ t[i] = q[i + 1] /\ 1 < i + 1
          /\ q[i + 1][1] \in Askers
      BY <1>2, <1>6
    <3>2. snt[q[i+1][1]] < q[i+1][2] /\ q[i+1][2] <= ask[q[i+1][1]]
      BY <3>1 DEF Sound, InQueue
    <3>3. q[i+1][1] = r[1] => r[2] < q[i+1][2]
      BY <1>2, <3>1 DEF Sound, InQueue
    <3> QED BY <1>5, <3>1, <3>2, <3>3
  <2>2. ASSUME NEW i \in DOMAIN t, NEW j \in DOMAIN t
        PROVE  /\ i < j /\ t[i][1] = t[j][1] => t[i][2] < t[j][2]
               /\ t[i][1] # Vendor /\ t[j][1] # Vendor => i = j
    <3>1. /\ i + 1 \in DOMAIN q /\ t[i] = q[i + 1] /\ i \in Nat
          /\ j + 1 \in DOMAIN q /\ t[j] = q[j + 1] /\ j \in Nat
      BY <1>2
    <3>2. /\ i + 1 < j + 1 /\ q[i+1][1] = q[j+1][1] => q[i+1][2] < q[j+1][2]
          /\ q[i+1][1] # Vendor /\ q[j+1][1] # Vendor => i + 1 = j + 1
      BY <3>1 DEF Sound, InQueue
    <3> QED BY <3>1, <3>2
  <2>3. ASSUME p.state = "ours", NEW i \in DOMAIN t
        PROVE  t[i][1] = Vendor
    <3>1. i + 1 \in DOMAIN q /\ t[i] = q[i + 1] /\ i + 1 # 1 /\ r[1] # Vendor
      BY <1>2, <1>3, <2>3
    <3> QED BY <1>2, <3>1 DEF Sound, InQueue
  <2> HIDE DEF t
  <2>4. p.queue = t
    BY <1>3 DEF t
  <2> QED BY <2>1, <2>2, <2>3, <2>4 DEF InQueue
<1>9. AtLock(p, snt2, ask, pos)
  <2>1. \A a \in Askers : snt2[a] <= ask[a]
    BY <1>4, <1>5 DEF Sound, AtLock
  <2>2. ASSUME NEW c \in Callers, pos[c] = "lock"
        PROVE  /\ snt2[c] < ask[c]
               /\ \A i \in DOMAIN Tail(q) : Tail(q)[i][1] = c => Tail(q)[i][2] < ask[c]
    <3>1. snt[c] < ask[c] /\ \A i \in DOMAIN q : q[i][1] = c => q[i][2] < ask[c]
      BY <2>2 DEF Sound, AtLock
    <3>2. r[1] = c => r[2] < ask[c]
      BY <1>2, <3>1
    <3>3. c \in Askers
      BY DEF Askers
    <3> QED BY <1>2, <1>5, <3>1, <3>2, <3>3
  <2> QED BY <1>3, <2>1, <2>2 DEF AtLock
<1>10. Awaited(p, <<r>>, ask, pos, dn)
  <2> SUFFICES ASSUME NEW c \in Callers, pos[c] = "wait", ~dn[c]
               PROVE  \/ p.state = "ours" /\ r = <<c, ask[c]>>
                      \/ \E i \in DOMAIN Tail(q) : Tail(q)[i] = <<c, ask[c]>>
    BY <1>3, <1>a DEF Awaited
  <2>1. PICK i \in DOMAIN q : q[i] = <<c, ask[c]>>
    BY <1>1 DEF Sound, Awaited
  <2>2. CASE i = 1
    BY <1>2, <1>3, <2>1, <2>2, LineAssumption
  <2>3. CASE i # 1
    <3>1. i - 1 \in DOMAIN Tail(q) /\ Tail(q)[i - 1] = q[i]
      BY <1>1, <2>3, HeadTailProperties
    <3> QED BY <2>1, <3>1
  <2> QED BY <2>2, <2>3
<1> QED BY <1>2, <1>3, <1>4, <1>7, <1>8, <1>9, <1>10 DEF Sound, p, r, snt2

\* A request joins the queue.
LEMMA QueueSound ==
    ASSUME NEW s \in SchedulerStates, NEW w \in Seq(Requests),
           NEW snt \in [Askers -> Nat], NEW ask \in [Askers -> Nat],
           NEW pos \in [Callers -> {"idle", "lock", "wait"}], NEW dn \in [Callers -> BOOLEAN],
           Sound(s, w, snt, ask, pos, dn),
           NEW r \in Requests, snt[r[1]] < r[2], r[2] <= ask[r[1]],
           r[1] # Vendor => ~Ours(s) /\ pos[r[1]] # "lock",
           \A i \in DOMAIN s.queue : s.queue[i][1] = r[1] => s.queue[i][2] < r[2]
    PROVE  Queued(s, r) \in SchedulerStates /\ Sound(Queued(s, r), w, snt, ask, pos, dn)
<1> DEFINE q == s.queue
           p == Queued(s, r)
           t == Append(q, r)
           n == Len(q)
<1>1. q \in Seq(Requests) /\ n \in Nat /\ DOMAIN q = 1..n
  BY DEF SchedulerStates
<1>2. /\ t \in Seq(Requests) /\ DOMAIN t = 1..(n + 1) /\ t[n + 1] = r
      /\ \A i \in 1..n : t[i] = q[i]
  BY <1>1, AppendProperties
<1>3. p.state = s.state /\ p.queue = t /\ p \in SchedulerStates
  BY <1>2 DEF Queued, SchedulerStates
<1>4. \A i \in 1..n : q[i][2] \in Nat
  <2>1. \A i \in 1..n : q[i] \in Requests
    BY <1>1
  <2>2. \A x \in Requests : x[2] \in Nat
    BY DEF Requests
  <2> QED BY <2>1, <2>2
<1> HIDE DEF p, t, n
<1>5. \A i \in DOMAIN t : i \in 1..n \/ i = n + 1
  BY <1>1, <1>2
<1>6. OnLine(p, w, snt)
  BY <1>3 DEF Sound, OnLine
<1>7. InQueue(p, snt, ask)
  <2>1. \A i \in DOMAIN t : snt[t[i][1]] < t[i][2] /\ t[i][2] <= ask[t[i][1]]
    BY <1>1, <1>2, <1>5 DEF Sound, InQueue
  <2>2. ASSUME NEW i \in DOMAIN t, NEW j \in DOMAIN t, i < j, t[i][1] = t[j][1]
        PROVE  t[i][2] < t[j][2]
    <3>1. i \in 1..n
      BY <1>1, <1>2, <1>5, <2>2
    <3>2. CASE j \in 1..n
      BY <1>1, <1>2, <2>2, <3>1, <3>2 DEF Sound, InQueue
    <3>3. CASE j = n + 1
      BY <1>1, <1>2, <2>2, <3>1, <3>3
    <3> QED BY <1>5, <3>2, <3>3
  <2>3. ASSUME NEW i \in DOMAIN t, NEW j \in DOMAIN t, t[i][1] # Vendor, t[j][1] # Vendor
        PROVE  i = j
    <3>1. CASE r[1] = Vendor
      <4>1. i \in 1..n /\ j \in 1..n
        BY <1>2, <1>5, <2>3, <3>1
      <4> QED BY <1>1, <1>2, <2>3, <4>1 DEF Sound, InQueue
    <3>2. CASE r[1] # Vendor
      <4>1. \A k \in 1..n : t[k][1] = Vendor
        BY <1>1, <1>2, <3>2 DEF Ours
      <4> QED BY <1>5, <2>3, <4>1
    <3> QED BY <3>1, <3>2
  <2>4. s.state = "ours" => \A i \in DOMAIN t : t[i][1] = Vendor
    BY <1>1, <1>2, <1>5 DEF Sound, InQueue, Ours
  <2> QED BY <1>3, <2>1, <2>2, <2>3, <2>4 DEF InQueue
<1>8. AtLock(p, snt, ask, pos)
  <2>1. ASSUME NEW c \in Callers, pos[c] = "lock", NEW i \in DOMAIN t, t[i][1] = c
        PROVE  t[i][2] < ask[c]
    <3>1. i \in 1..n
      BY <1>2, <1>5, <2>1, LineAssumption
    <3> QED BY <1>1, <1>2, <2>1, <3>1 DEF Sound, AtLock
  <2> QED BY <1>3, <2>1 DEF Sound, AtLock
<1>9. Awaited(p, w, ask, pos, dn)
  <2>1. \A i \in DOMAIN q : i \in DOMAIN t /\ t[i] = q[i]
    BY <1>1, <1>2
  <2> QED BY <1>3, <2>1 DEF Sound, Awaited
<1> QED BY <1>3, <1>6, <1>7, <1>8, <1>9 DEF Sound, p

\* The collector has answered what is on the line.
LEMMA AnswerSound ==
    ASSUME NEW s \in SchedulerStates, s.state \in {"ours", "cloud"}, NEW w \in Seq(Requests),
           NEW snt \in [Askers -> Nat], NEW ask \in [Askers -> Nat],
           NEW pos \in [Callers -> {"idle", "lock", "wait"}],
           NEW dn \in [Callers -> BOOLEAN], NEW dn2 \in [Callers -> BOOLEAN],
           Sound(s, w, snt, ask, pos, dn),
           \A c \in Callers : dn[c] => dn2[c],
           s.state = "ours" => \A c \in Callers : pos[c] = "wait" => dn2[c]
    PROVE  Answered(s) \in SchedulerStates /\ Sound(Answered(s), <<>>, snt, ask, pos, dn2)
<1> DEFINE p == Answered(s)
<1>1. p \in SchedulerStates /\ p.state = "idle" /\ p.queue = s.queue
  BY DEF Answered, SchedulerStates
<1> HIDE DEF p
<1>2. OnLine(p, <<>>, snt)
  BY <1>1 DEF OnLine
<1>3. InQueue(p, snt, ask) /\ AtLock(p, snt, ask, pos)
  BY <1>1 DEF Sound, InQueue, AtLock
<1>4. Awaited(p, <<>>, ask, pos, dn2)
  BY <1>1 DEF Sound, Awaited
<1> QED BY <1>1, <1>2, <1>3, <1>4 DEF Sound, p

LEMMA ShortWire ==
    ASSUME LineInv
    PROVE  /\ wire \in Seq(Requests) /\ (wire = <<>> \/ Tail(wire) = <<>>)
           /\ wire # <<>> => wire[1] = Head(wire) /\ wire[1] \in Requests
<1>1. wire \in Seq(Requests) /\ Len(wire) <= 1
  BY DEF LineInv, LineTypeOK, Sound, OnLine
<1>2. wire = <<>> \/ Tail(wire) = <<>>
  <2>1. CASE wire # <<>>
    BY <1>1, <2>1, HeadTailProperties, EmptySeq
  <2> QED BY <2>1
<1> QED BY <1>1, <1>2

\* What a step may do to the line: nothing, to where an answer or a silence
\* left it, or a request is put on it that was not there before.
Puts(w) ==
    \/ wire' = w /\ sent' = sent
    \/ \E a \in Askers : /\ Promise!PutsOn(a)
                         /\ \A b \in Askers : b # a => sent'[b] = sent[b]

\* _apply, on an open connection whose line is sound.
LEMMA ApplyKeeps ==
    ASSUME LineTypeOK, ~closed, NEW s \in SchedulerStates, NEW w \in Seq(Requests),
           NEW answered, NEW waiting,
           asked' \in [Askers -> Nat], at' \in [Callers -> {"idle", "lock", "wait"}],
           answer' \in [Askers -> Nat],
           Sound(s, w, sent, asked', at', [c \in Callers |-> done[c] \/ c \in answered]),
           \A c \in Callers : at'[c] = "wait" => c \in waiting,
           Apply(s, w, answered, waiting)
    PROVE  LineInv' /\ Puts(w) /\ (closed => closed')
<1> DEFINE dn == [c \in Callers |-> done[c] \/ c \in answered]
<1>1. dn \in [Callers -> BOOLEAN] /\ sent \in [Askers -> Nat] /\ link \in [made : Nat, up : BOOLEAN]
  BY DEF LineTypeOK
<1>2. CASE /\ scheduler' = Pumped(s) /\ done' = dn /\ UNCHANGED <<closed, link>>
           /\ ~Pumps(s) /\ wire' = w /\ UNCHANGED sent
  <2>1. scheduler' = s
    BY <1>2 DEF Pumped
  <2>2. LineTypeOK'
    BY <1>1, <1>2, <2>1 DEF LineTypeOK, SchedulerStates
  <2>3. Sound(scheduler', wire', sent', asked', at', done')
    BY <1>2, <2>1
  <2> QED BY <1>2, <2>2, <2>3 DEF LineInv, Puts
<1>3. CASE /\ scheduler' = Pumped(s) /\ done' = dn /\ UNCHANGED <<closed, link>>
           /\ Pumps(s) /\ wire' = Append(w, Head(s.queue))
           /\ sent' = [sent EXCEPT ![Head(s.queue)[1]] = Head(s.queue)[2]]
  <2>1. w = <<>>
    BY <1>3 DEF Pumps, Sound, OnLine
  <2> DEFINE r == Head(s.queue)
  <2>2. /\ r \in Requests /\ sent[r[1]] < r[2] /\ r[2] <= asked'[r[1]]
        /\ Pumped(s) \in SchedulerStates
        /\ Sound(Pumped(s), <<r>>, [sent EXCEPT ![r[1]] = r[2]], asked', at', dn)
    <3>1. Sound(s, <<>>, sent, asked', at', dn)
      BY <2>1
    <3> HIDE DEF dn
    <3> QED BY <1>1, <1>3, <3>1, PumpSound
  <2>3. wire' = <<r>>
    BY <1>3, <2>1
  <2>4. r[1] \in Askers /\ r[2] \in Nat /\ r = <<r[1], r[2]>>
    BY <2>2 DEF Requests
  <2>5. sent' \in [Askers -> Nat] /\ sent'[r[1]] = r[2] /\ \A b \in Askers : b # r[1] => sent'[b] = sent[b]
    BY <1>1, <1>3, <2>4
  <2> HIDE DEF r
  <2>6. LineTypeOK'
    <3>1. wire' \in Seq(Requests)
      BY <2>2, <2>3
    <3> QED BY <1>1, <1>3, <2>2, <2>5, <3>1 DEF LineTypeOK, SchedulerStates
  <2>7. Sound(scheduler', wire', sent', asked', at', done')
    BY <1>3, <2>2, <2>3 DEF r
  <2>8. Promise!PutsOn(r[1])
    BY <2>2, <2>3, <2>4, <2>5 DEF Promise!PutsOn
  <2> QED BY <1>3, <2>4, <2>5, <2>6, <2>7, <2>8 DEF LineInv, Puts
<1>4. CASE /\ wire' = w /\ closed' = TRUE /\ scheduler' = Free /\ done' = FailPending(waiting)
           /\ link' = [link EXCEPT !.up = FALSE] /\ UNCHANGED sent
  <2>1. link' \in [made : Nat, up : BOOLEAN] /\ ~link'.up
    BY <1>1, <1>4
  <2>2. done' \in [Callers -> BOOLEAN] /\ \A c \in Callers : at'[c] = "wait" => done'[c]
    BY <1>4 DEF FailPending, LineTypeOK
  <2>3. Free \in SchedulerStates
    BY DEF Free, SchedulerStates
  <2>4. LineTypeOK'
    BY <1>1, <1>4, <2>1, <2>2, <2>3 DEF LineTypeOK, SchedulerStates
  <2>5. Len(wire') <= 1
    BY <1>4 DEF Sound, OnLine
  <2> QED BY <1>4, <2>1, <2>2, <2>4, <2>5 DEF LineInv, Puts
<1> QED BY <1>2, <1>3, <1>4 DEF Apply

\* A session closes.
LEMMA CloseKeeps ==
    ASSUME LineInv, NEW s, s \in {Free, Desynced}, Close(s),
           wire' \in Seq(Requests), Len(wire') <= 1,
           UNCHANGED <<at, asked, answer>>
    PROVE  LineInv' /\ UNCHANGED sent /\ (closed => closed')
<1>1. link' \in [made : Nat, up : BOOLEAN] /\ ~link'.up
  BY DEF Close, LineInv, LineTypeOK
<1>2. done' \in [Callers -> BOOLEAN] /\ \A c \in Callers : at'[c] = "wait" => done'[c]
  BY DEF Close, FailPending, Waiting, LineInv, LineTypeOK
<1>3. scheduler' \in {Free, Desynced} /\ closed' = TRUE /\ UNCHANGED sent
  BY DEF Close
<1>4. {Free, Desynced} \subseteq SchedulerStates
  BY DEF Free, Desynced, SchedulerStates
<1>5. LineTypeOK'
  BY <1>1, <1>2, <1>3, <1>4 DEF LineInv, LineTypeOK, SchedulerStates
<1> QED BY <1>1, <1>2, <1>3, <1>5 DEF LineInv

-----------------------------------------------------------------------------
(* The steps. *)

\* The request on the line is answered to a.
Answering(a) ==
    /\ ~closed /\ wire # <<>>
    /\ a = wire[1][1] /\ answer'[a] = wire[1][2]
    /\ a \in Callers => answer'[a] = asked[a]

\* A step that puts on the line and answers as above is one of the promise.
LEMMA StepIs ==
    ASSUME LineInv, LineInv', NEW w \in {wire, <<>>}, Puts(w), closed => closed',
           \A a \in Askers : asked'[a] \in {asked[a], asked[a] + 1},
           \A a \in Askers : answer'[a] = answer[a] \/ (Answering(a) /\ w = <<>>)
    PROVE  Promise!Next
<1>1. /\ \A a \in Askers : sent'[a] = sent[a] \/ Promise!PutsOn(a)
      /\ wire' = w \/ \E a \in Askers : Promise!PutsOn(a)
  BY DEF Puts
<1>2. ASSUME NEW a \in Askers, answer'[a] # answer[a]
      PROVE  Promise!Answers(a)
  <2>1. Answering(a) /\ w = <<>>
    BY <1>2
  <2>2. wire[1][2] <= sent[wire[1][1]] /\ wire[1] \in Requests /\ sent \in [Askers -> Nat]
    BY <2>1, ShortWire DEF Answering, LineInv, LineTypeOK, Sound, OnLine
  <2>3. wire' # wire
    <3>1. CASE wire' = w
      BY <2>1, <3>1 DEF Answering
    <3>2. CASE wire' # w
      <4>1. PICK b \in Askers : Promise!PutsOn(b)
        BY <1>1, <3>2
      <4>2. sent[b] < sent'[b] /\ wire' = <<<<b, sent'[b]>>>>
        BY <4>1 DEF Promise!PutsOn
      <4>3. wire'[1][1] = b /\ wire'[1][2] = sent'[b]
        BY <4>2
      <4>4. sent[b] \in Nat /\ sent'[b] \in Nat
        BY <4>1 DEF LineInv, LineTypeOK
      <4> QED BY <2>2, <4>2, <4>3, <4>4
    <3> QED BY <3>1, <3>2
  <2> QED BY <2>1, <2>3 DEF Answering, Promise!Answers
<1> QED BY <1>1, <1>2 DEF Promise!Next

LEMMA AskKeeps ==
    ASSUME LineInv, NEW c \in Callers, Ask(c)
    PROVE  LineInv' /\ Promise!Next
<1>1. /\ at' = [at EXCEPT ![c] = "lock"] /\ asked' = [asked EXCEPT ![c] = @ + 1]
      /\ at[c] = "idle"
      /\ UNCHANGED <<scheduler, wire, closed, done, link, sent, answer>>
  BY DEF Ask
<1>2. c \in Askers /\ LineTypeOK
  BY DEF Askers, LineInv
<1>3. LineTypeOK' /\ asked'[c] = asked[c] + 1
  BY <1>1, <1>2 DEF LineTypeOK
<1>4. ASSUME ~closed'
      PROVE  Sound(scheduler, wire, sent, asked', at', done)
  <2> DEFINE q == scheduler.queue
  <2>1. Sound(scheduler, wire, sent, asked, at, done)
    BY <1>1, <1>4 DEF LineInv
  <2>2. \A a \in Askers : /\ asked[a] \in Nat /\ asked'[a] \in Nat /\ sent[a] \in Nat
                          /\ asked[a] <= asked'[a] /\ (a # c => asked'[a] = asked[a])
    BY <1>1, <1>2 DEF LineTypeOK
  <2>3. q \in Seq(Requests)
    BY <1>2 DEF LineTypeOK
  <2>4. \A i \in DOMAIN q : q[i][1] \in Askers /\ q[i][2] \in Nat /\ q[i][2] <= asked[q[i][1]]
    BY <2>1, <2>3 DEF Requests, Sound, InQueue
  <2>5. InQueue(scheduler, sent, asked')
    BY <2>1, <2>2, <2>4 DEF Sound, InQueue
  <2>6. AtLock(scheduler, sent, asked', at')
    <3>1. \A a \in Askers : sent[a] <= asked[a]
      BY <2>1 DEF Sound, AtLock
    <3>2. sent[c] < asked'[c]
          /\ \A i \in DOMAIN q : q[i][1] = c => q[i][2] < asked'[c]
      BY <1>2, <1>3, <2>2, <2>4, <3>1
    <3>3. ASSUME NEW d \in Callers, d # c, at'[d] = "lock"
          PROVE  /\ sent[d] < asked'[d]
                 /\ \A i \in DOMAIN q : q[i][1] = d => q[i][2] < asked'[d]
      <4>1. at[d] = "lock" /\ asked'[d] = asked[d]
        BY <1>1, <2>2, <3>3 DEF Askers
      <4> QED BY <2>1, <4>1 DEF Sound, AtLock
    <3> QED BY <2>2, <3>1, <3>2, <3>3 DEF AtLock
  <2>7. Awaited(scheduler, wire, asked', at', done)
    <3>1. \A d \in Callers : at'[d] = "wait" => at[d] = "wait" /\ asked'[d] = asked[d]
      BY <1>1, <1>2, <2>2 DEF LineTypeOK, Askers
    <3> QED BY <2>1, <3>1 DEF Sound, Awaited
  <2> QED BY <2>1, <2>5, <2>6, <2>7 DEF Sound
<1>5. closed' => \A d \in Callers : at'[d] = "wait" => done[d]
  BY <1>1, <1>2 DEF LineInv, LineTypeOK
<1>6. LineInv'
  BY <1>1, <1>3, <1>4, <1>5 DEF LineInv
<1>7. Puts(wire)
  BY <1>1 DEF Puts
<1> QED BY <1>1, <1>2, <1>6, <1>7, StepIs DEF LineTypeOK

\* A caller comes to, or goes, without a request of its own.
LEMMA LeaveKeeps ==
    ASSUME LineInv, NEW c \in Callers, at' = [at EXCEPT ![c] = "idle"],
           done' = done \/ done' = [done EXCEPT ![c] = FALSE],
           UNCHANGED <<scheduler, wire, closed, asked, link, sent, answer>>
    PROVE  LineInv' /\ Promise!Next
<1>1. LineTypeOK'
  BY DEF LineInv, LineTypeOK
<1>2. \A d \in Callers : /\ at'[d] = "wait" => at[d] = "wait" /\ done'[d] = done[d]
                         /\ at'[d] = "lock" => at[d] = "lock"
  BY DEF LineInv, LineTypeOK
<1>3. ~closed' => Sound(scheduler', wire', sent', asked', at', done')
  BY <1>2 DEF LineInv, Sound, AtLock, Awaited
<1>4. LineInv'
  BY <1>1, <1>2, <1>3 DEF LineInv
<1>5. Puts(wire)
  BY DEF Puts
<1> QED BY <1>4, <1>5, StepIs

LEMMA EnterKeeps ==
    ASSUME LineInv, NEW c \in Callers, Enter(c)
    PROVE  LineInv' /\ Promise!Next
<1>1. CASE Refuses
  BY <1>1, LeaveKeeps DEF Enter
<1>2. CASE ~Refuses
  <2> DEFINE r == <<c, asked[c]>>
             s == Queued(scheduler, r)
             dn == [d \in Callers |-> done[d] \/ d \in {}]
  <2>1. /\ at' = [at EXCEPT ![c] = "wait"] /\ Apply(s, wire, {}, {c})
        /\ at[c] = "lock" /\ ~Locked /\ ~closed /\ ~Ours(scheduler)
        /\ UNCHANGED <<asked, answer>>
    BY <1>2 DEF Enter, Refuses
  <2>2. /\ LineTypeOK /\ c \in Askers /\ scheduler \in SchedulerStates /\ wire \in Seq(Requests)
        /\ sent \in [Askers -> Nat] /\ asked \in [Askers -> Nat]
        /\ at' \in [Callers -> {"idle", "lock", "wait"}]
        /\ answer \in [Askers -> Nat]
    BY <2>1 DEF LineInv, LineTypeOK, SchedulerStates, Askers
  <2>3. Sound(scheduler, wire, sent, asked, at, done)
    BY <2>1 DEF LineInv
  <2>4. sent[c] < asked[c] /\ r \in Requests /\ r[1] = c /\ r[2] = asked[c]
    BY <2>1, <2>2, <2>3 DEF Sound, AtLock, Requests
  <2>5. \A d \in Callers : /\ at'[d] = "wait" <=> d = c
                           /\ at'[d] = "lock" => at[d] = "lock"
    BY <2>1, <2>2 DEF Locked, LineTypeOK
  <2>6. dn = done /\ dn \in [Callers -> BOOLEAN]
    BY <2>2 DEF LineTypeOK
  <2> HIDE DEF r
  <2>7. s \in SchedulerStates /\ s.queue = Append(scheduler.queue, r)
        /\ DOMAIN s.queue = 1..(Len(scheduler.queue) + 1)
        /\ s.queue[Len(scheduler.queue) + 1] = r
        /\ Len(scheduler.queue) \in Nat
    <3>1. scheduler.queue \in Seq(Requests)
      BY <2>2 DEF SchedulerStates
    <3>2. /\ Append(scheduler.queue, r) \in Seq(Requests) /\ Len(scheduler.queue) \in Nat
          /\ DOMAIN Append(scheduler.queue, r) = 1..(Len(scheduler.queue) + 1)
          /\ Append(scheduler.queue, r)[Len(scheduler.queue) + 1] = r
      BY <2>4, <3>1, AppendProperties
    <3>3. s.queue = Append(scheduler.queue, r) /\ s \in SchedulerStates
      BY <2>2, <3>2 DEF Queued, SchedulerStates
    <3> HIDE DEF s
    <3> QED BY <3>2, <3>3
  \* With all at rest, the queue takes the request; then its caller waits.
  <2>8. Sound(s, wire, sent, asked, [at EXCEPT ![c] = "idle"], [d \in Callers |-> TRUE])
    <3> DEFINE pos == [at EXCEPT ![c] = "idle"]
               all == [d \in Callers |-> TRUE]
    <3>1. pos \in [Callers -> {"idle", "lock", "wait"}] /\ all \in [Callers -> BOOLEAN]
          /\ pos[c] = "idle" /\ \A d \in Callers : pos[d] = "lock" => at[d] = "lock"
      BY <2>2 DEF LineTypeOK
    <3>2. Sound(scheduler, wire, sent, asked, pos, all)
      <4>1. \A d \in Callers : all[d]
        OBVIOUS
      <4> HIDE DEF pos, all
      <4> QED BY <2>3, <3>1, <4>1 DEF Sound, AtLock, Awaited
    <3>3. \A i \in DOMAIN scheduler.queue : scheduler.queue[i][1] # r[1]
      BY <2>1, <2>4, LineAssumption DEF Ours
    <3> HIDE DEF pos, all
    <3>4. sent[r[1]] < r[2] /\ r[2] <= asked[r[1]]
      BY <2>2, <2>4
    <3> QED BY <2>1, <2>2, <2>4, <3>1, <3>2, <3>3, <3>4, QueueSound DEF pos, all
  <2>9. Sound(s, wire, sent, asked, at', done)
    <3> HIDE DEF s
    <3>1. OnLine(s, wire, sent) /\ InQueue(s, sent, asked)
      BY <2>8 DEF Sound
    <3>2. AtLock(s, sent, asked, at')
      <4>1. \A d \in Callers : at'[d] = "lock" => [at EXCEPT ![c] = "idle"][d] = "lock"
        BY <2>1, <2>2, <2>5 DEF LineTypeOK
      <4> QED BY <2>8, <4>1 DEF Sound, AtLock
    <3>3. Awaited(s, wire, asked, at', done)
      <4>1. r = <<c, asked[c]>>
        BY DEF r
      <4>2. \E i \in DOMAIN s.queue : s.queue[i] = r
        BY <2>7
      <4> QED BY <2>5, <4>1, <4>2 DEF Awaited
    <3> QED BY <3>1, <3>2, <3>3 DEF Sound
  <2>10. Sound(s, wire, sent, asked', at', dn)
    BY <2>1, <2>6, <2>9
  <2> HIDE DEF s
  <2>11. LineInv' /\ Puts(wire) /\ (closed => closed')
    BY <2>1, <2>2, <2>5, <2>7, <2>10, ApplyKeeps
  <2> QED BY <2>1, <2>11, StepIs
<1> QED BY <1>1, <1>2

LEMMA FrameKeeps ==
    ASSUME LineInv, CollectorFrame
    PROVE  LineInv' /\ Promise!Next
<1> DEFINE r == Head(wire)
           s == Answered(scheduler)
<1>1. /\ wire \in Seq(Requests) /\ wire # <<>> /\ Tail(wire) = <<>> /\ r = wire[1]
      /\ r \in Requests /\ UNCHANGED <<at, asked>> /\ LineTypeOK
  <2>1. wire # <<>> /\ UNCHANGED <<at, asked>>
    BY DEF CollectorFrame
  <2> QED BY <2>1, ShortWire DEF LineInv
<1>2. r[1] \in Askers /\ r[2] \in Nat
  BY <1>1 DEF Requests
<1>3. /\ scheduler \in SchedulerStates /\ sent \in [Askers -> Nat] /\ asked \in [Askers -> Nat]
      /\ at \in [Callers -> {"idle", "lock", "wait"}] /\ done \in [Callers -> BOOLEAN]
      /\ answer \in [Askers -> Nat] /\ <<>> \in Seq(Requests)
  BY <1>1 DEF LineTypeOK, SchedulerStates
<1> HIDE DEF r
<1>4. ASSUME scheduler.state \in {"ours", "cloud"}
      PROVE  ~closed /\ Sound(scheduler, wire, sent, asked, at, done)
  BY <1>4 DEF LineInv, Free, Desynced
<1>5. CASE scheduler.state = "ours"
  <2> DEFINE dn == [c \in Callers |-> done[c] \/ c \in Waiting]
  <2>1. /\ answer' = [a \in Askers |-> IF a \in Waiting /\ ~done[a] THEN r[2] ELSE answer[a]]
        /\ Apply(s, Tail(wire), Waiting, Waiting)
    BY <1>5 DEF CollectorFrame, r
  <2>2. /\ dn \in [Callers -> BOOLEAN]
        /\ \A c \in Callers : done[c] => dn[c]
        /\ \A c \in Callers : at[c] = "wait" => dn[c]
    BY <1>3 DEF Waiting
  <2>3. s \in SchedulerStates /\ Sound(s, <<>>, sent, asked, at, dn)
    <3> HIDE DEF dn, s
    <3>1. Sound(scheduler, wire, sent, asked, at, done) /\ scheduler.state \in {"ours", "cloud"}
      BY <1>4, <1>5
    <3> QED BY <1>1, <1>3, <2>2, <3>1, AnswerSound DEF s
  <2>4. answer' \in [Askers -> Nat]
    BY <1>2, <1>3, <2>1
  <2>5. \A c \in Callers : at[c] = "wait" => c \in Waiting
    BY DEF Waiting
  <2>6. LineInv' /\ Puts(<<>>) /\ (closed => closed')
    <3> HIDE DEF s
    <3> QED BY <1>1, <1>3, <1>4, <1>5, <2>1, <2>3, <2>4, <2>5, ApplyKeeps
  <2>7. ASSUME NEW a \in Askers, answer'[a] # answer[a]
        PROVE  Answering(a)
    <3>1. a \in Callers /\ at[a] = "wait" /\ ~done[a] /\ answer'[a] = r[2]
      BY <1>3, <2>1, <2>7 DEF Waiting
    <3>2. ~closed /\ Sound(scheduler, wire, sent, asked, at, done)
      BY <1>4, <1>5
    <3>3. ~ \E i \in DOMAIN scheduler.queue : scheduler.queue[i] = <<a, asked[a]>>
      <4>1. \A i \in DOMAIN scheduler.queue : scheduler.queue[i][1] = Vendor
        BY <1>5, <3>2 DEF Sound, InQueue
      <4> QED BY <3>1, <4>1, LineAssumption
    <3>4. wire[1] = <<a, asked[a]>>
      BY <1>1, <3>1, <3>2, <3>3 DEF Sound, Awaited
    <3> QED BY <1>1, <3>1, <3>2, <3>4 DEF Answering
  <2> QED BY <1>1, <2>6, <2>7, StepIs
<1>6. CASE scheduler.state = "cloud"
  <2> DEFINE dn == [c \in Callers |-> done[c] \/ c \in {}]
  <2>1. /\ answer' = IF link.up THEN [answer EXCEPT ![Vendor] = r[2]] ELSE answer
        /\ Apply(s, Tail(wire), {}, Waiting)
    BY <1>6 DEF CollectorFrame, r
  <2>2. dn = done
    BY <1>3
  <2>3. s \in SchedulerStates /\ Sound(s, <<>>, sent, asked, at, done)
    <3> HIDE DEF s
    <3>1. Sound(scheduler, wire, sent, asked, at, done) /\ scheduler.state \in {"ours", "cloud"}
      BY <1>4, <1>6
    <3> QED BY <1>1, <1>3, <1>6, <3>1, AnswerSound DEF s
  <2>4. answer' \in [Askers -> Nat]
    BY <1>2, <1>3, <2>1
  <2>5. \A c \in Callers : at[c] = "wait" => c \in Waiting
    BY DEF Waiting
  <2>6. LineInv' /\ Puts(<<>>) /\ (closed => closed')
    <3>1. Sound(s, <<>>, sent, asked', at', dn)
      BY <1>1, <2>2, <2>3
    <3> HIDE DEF s
    <3> QED BY <1>1, <1>3, <1>4, <1>6, <2>1, <2>3, <2>4, <2>5, <3>1, ApplyKeeps
  <2>7. ASSUME NEW a \in Askers, answer'[a] # answer[a]
        PROVE  Answering(a)
    <3>1. a = Vendor /\ answer'[a] = r[2]
      BY <1>3, <2>1, <2>7
    <3>2. ~closed /\ wire[1][1] = Vendor
      BY <1>1, <1>4, <1>6 DEF Sound, OnLine
    <3> QED BY <1>1, <3>1, <3>2, LineAssumption DEF Answering
  <2> QED BY <1>1, <2>6, <2>7, StepIs
<1>7. CASE scheduler.state = "idle"
  <2>1. Close(Desynced) /\ wire' = <<>> /\ UNCHANGED answer
    BY <1>1, <1>7 DEF CollectorFrame
  <2>2. LineInv' /\ UNCHANGED sent /\ (closed => closed')
    BY <1>1, <2>1, CloseKeeps
  <2>3. Puts(<<>>)
    BY <2>1, <2>2 DEF Puts
  <2> QED BY <1>1, <2>1, <2>2, <2>3, StepIs
<1>8. CASE scheduler.state = "desynced"
  <2>1. wire' = <<>> /\ UNCHANGED <<scheduler, closed, done, link, sent, answer>>
    BY <1>1, <1>8 DEF CollectorFrame
  <2>2. closed
    BY <1>8 DEF LineInv, Sound, OnLine
  <2>3. LineInv'
    BY <1>1, <2>1, <2>2 DEF LineInv, LineTypeOK
  <2>4. Puts(<<>>)
    BY <2>1 DEF Puts
  <2> QED BY <1>1, <2>1, <2>3, <2>4, StepIs
<1> QED BY <1>5, <1>6, <1>7, <1>8 DEF CollectorFrame

LEMMA SilenceKeeps ==
    ASSUME LineInv, Silence
    PROVE  LineInv' /\ Promise!Next
<1>1. wire' = <<>> /\ UNCHANGED <<scheduler, closed, at, done, asked, link, sent, answer>>
  BY ShortWire DEF Silence
<1>2. LineTypeOK'
  BY <1>1 DEF LineInv, LineTypeOK
<1>3. ~closed => Sound(scheduler, <<>>, sent, asked, at, done)
  BY DEF LineInv, Sound, OnLine, Awaited
<1>4. LineInv'
  BY <1>1, <1>2, <1>3 DEF LineInv
<1>5. Puts(<<>>)
  BY <1>1 DEF Puts
<1> QED BY <1>1, <1>4, <1>5, StepIs

LEMMA CloseOrTickKeeps ==
    ASSUME LineInv, CollectorGone \/ Tick
    PROVE  LineInv' /\ Promise!Next
<1>1. PICK w \in {wire, <<>>} :
          (Close(Free) \/ Close(Desynced)) /\ wire' = w /\ UNCHANGED <<at, asked, answer>>
  BY DEF CollectorGone, Tick
<1>2. wire' \in Seq(Requests) /\ Len(wire') <= 1
  <2>1. wire \in Seq(Requests) /\ Len(wire) <= 1
    BY DEF LineInv, LineTypeOK, Sound, OnLine
  <2>2. CASE w = wire
    BY <1>1, <2>1, <2>2
  <2>3. CASE w = <<>>
    BY <1>1, <2>3
  <2> QED BY <2>2, <2>3
<1>3. LineInv' /\ UNCHANGED sent /\ (closed => closed')
  BY <1>1, <1>2, CloseKeeps
<1>4. Puts(w)
  BY <1>1, <1>3 DEF Puts
<1> QED BY <1>1, <1>3, <1>4, StepIs

LEMMA VendorFrameKeeps ==
    ASSUME LineInv, VendorFrame
    PROVE  LineInv' /\ Promise!Next
<1>1. CASE Close(Free) /\ UNCHANGED <<wire, asked, at, answer>>
  <2>1. wire' \in Seq(Requests) /\ Len(wire') <= 1
    BY <1>1 DEF LineInv, LineTypeOK, Sound, OnLine
  <2>2. LineInv' /\ UNCHANGED sent /\ (closed => closed')
    BY <1>1, <2>1, CloseKeeps
  <2>3. Puts(wire)
    BY <1>1, <2>2 DEF Puts
  <2> QED BY <1>1, <2>2, <2>3, StepIs
<1>2. CASE /\ asked' = [asked EXCEPT ![Vendor] = @ + 1] /\ UNCHANGED <<at, answer>>
           /\ Apply(Queued(scheduler, <<Vendor, asked[Vendor] + 1>>), wire, {}, Waiting)
  <2> DEFINE r == <<Vendor, asked[Vendor] + 1>>
             s == Queued(scheduler, r)
             dn == [d \in Callers |-> done[d] \/ d \in {}]
             q == scheduler.queue
  <2>1. ~closed
    BY DEF VendorFrame, LineInv
  <2>2. /\ LineTypeOK /\ Vendor \in Askers /\ scheduler \in SchedulerStates
        /\ wire \in Seq(Requests) /\ sent \in [Askers -> Nat] /\ asked \in [Askers -> Nat]
        /\ at \in [Callers -> {"idle", "lock", "wait"}] /\ done \in [Callers -> BOOLEAN]
        /\ answer \in [Askers -> Nat]
    BY DEF LineInv, LineTypeOK, SchedulerStates, Askers
  <2>3. asked' \in [Askers -> Nat] /\ asked'[Vendor] = asked[Vendor] + 1
        /\ \A a \in Askers : asked[a] <= asked'[a] /\ (a # Vendor => asked'[a] = asked[a])
    BY <1>2, <2>2
  <2>4. Sound(scheduler, wire, sent, asked, at, done)
    BY <2>1 DEF LineInv
  <2>5. \A i \in DOMAIN q : q[i][1] \in Askers /\ q[i][2] \in Nat /\ q[i][2] <= asked[q[i][1]]
    <3>1. q \in Seq(Requests)
      BY <2>2 DEF SchedulerStates
    <3> QED BY <2>4, <3>1 DEF Requests, Sound, InQueue
  <2>6. dn = done
    BY <2>2
  <2>7. Sound(scheduler, wire, sent, asked', at, done)
    <3>1. InQueue(scheduler, sent, asked')
      <4>1. \A i \in DOMAIN q : sent[q[i][1]] < q[i][2] /\ q[i][2] <= asked'[q[i][1]]
        BY <2>2, <2>3, <2>4, <2>5 DEF Sound, InQueue
      <4> QED BY <2>4, <4>1 DEF Sound, InQueue
    <3>2. AtLock(scheduler, sent, asked', at)
      <4>1. \A a \in Askers : sent[a] <= asked[a] /\ sent[a] \in Nat /\ asked[a] \in Nat /\ asked'[a] \in Nat
        BY <2>2, <2>3, <2>4 DEF Sound, AtLock
      <4>2. \A c \in Callers : c \in Askers /\ asked'[c] = asked[c]
        BY <2>3, LineAssumption DEF Askers
      <4> QED BY <2>3, <2>4, <4>1, <4>2 DEF Sound, AtLock
    <3>3. Awaited(scheduler, wire, asked', at, done)
      <4>1. \A c \in Callers : asked'[c] = asked[c]
        BY <2>3, LineAssumption DEF Askers
      <4> QED BY <2>4, <4>1 DEF Sound, Awaited
    <3> QED BY <2>4, <3>1, <3>2, <3>3 DEF Sound
  <2>8. s \in SchedulerStates /\ Sound(s, wire, sent, asked', at, done)
    <3>1. r \in Requests /\ r[1] = Vendor /\ r[2] = asked[Vendor] + 1 /\ asked[Vendor] \in Nat
      BY <2>2 DEF Requests
    <3>2. sent[Vendor] <= asked[Vendor] /\ sent[Vendor] \in Nat
      BY <2>2, <2>4 DEF Sound, AtLock
    <3> HIDE DEF r
    <3>3. \A i \in DOMAIN q : q[i][1] = r[1] => q[i][2] < r[2]
      BY <2>5, <3>1
    <3>4. sent[r[1]] < r[2] /\ r[2] <= asked'[r[1]]
      BY <2>3, <3>1, <3>2
    <3> QED BY <2>2, <2>3, <2>7, <3>1, <3>3, <3>4, QueueSound
  <2>9. \A c \in Callers : at[c] = "wait" => c \in Waiting
    BY DEF Waiting
  <2>10. LineInv' /\ Puts(wire) /\ (closed => closed')
    <3>1. Sound(s, wire, sent, asked', at', dn)
      BY <1>2, <2>6, <2>8
    <3>2. Apply(s, wire, {}, Waiting) /\ at' = at /\ answer' = answer
      BY <1>2
    <3> HIDE DEF s
    <3> QED BY <2>1, <2>2, <2>3, <2>8, <2>9, <3>1, <3>2, ApplyKeeps
  <2> QED
    <3>1. \A a \in Askers : asked'[a] \in {asked[a], asked[a] + 1}
      BY <2>3
    <3> QED BY <1>2, <2>10, <3>1, StepIs
<1> QED BY <1>1, <1>2 DEF VendorFrame

LEMMA UpstreamKeeps ==
    ASSUME LineInv, Upstream
    PROVE  LineInv' /\ Promise!Next
<1>1. UNCHANGED <<scheduler, wire, closed, at, done, asked, sent, answer>> /\ ~closed
  BY DEF Upstream
<1>2. link' \in [made : Nat, up : BOOLEAN]
  <2>1. link \in [made : Nat, up : BOOLEAN]
    BY DEF LineInv, LineTypeOK
  <2>2. \/ link' = [made |-> link.made + 1, up |-> TRUE]
        \/ link' = [link EXCEPT !.up = FALSE]
    BY DEF Upstream
  <2>3. CASE link' = [made |-> link.made + 1, up |-> TRUE]
    <3>1. link.made + 1 \in Nat
      BY <2>1
    <3> QED BY <2>3, <3>1
  <2>4. CASE link' = [link EXCEPT !.up = FALSE]
    BY <2>1, <2>4
  <2> QED BY <2>2, <2>3, <2>4
<1>3. LineInv'
  BY <1>1, <1>2 DEF LineInv, LineTypeOK
<1>4. Puts(wire)
  BY <1>1 DEF Puts
<1> QED BY <1>1, <1>3, <1>4, StepIs

-----------------------------------------------------------------------------
LEMMA LineInitIs == LineInit => LineInv /\ Promise!Init
<1> SUFFICES ASSUME LineInit PROVE LineInv /\ Promise!Init
  OBVIOUS
<1>1. scheduler = Free /\ Free.state = "idle" /\ Free.queue = <<>> /\ wire = <<>> /\ ~closed
  BY DEF LineInit, Free
<1>2. LineTypeOK
  <2>1. scheduler \in SchedulerStates /\ wire \in Seq(Requests)
    BY DEF LineInit, Free, SchedulerStates
  <2>2. link \in [made : Nat, up : BOOLEAN] /\ closed \in BOOLEAN
    BY DEF LineInit
  <2>3. /\ at \in [Callers -> {"idle", "lock", "wait"}] /\ done \in [Callers -> BOOLEAN]
        /\ asked \in [Askers -> Nat] /\ sent \in [Askers -> Nat] /\ answer \in [Askers -> Nat]
    BY DEF LineInit
  <2> QED BY <2>1, <2>2, <2>3 DEF LineTypeOK, SchedulerStates
<1>3. Sound(scheduler, wire, sent, asked, at, done)
  <2>1. OnLine(scheduler, wire, sent) /\ InQueue(scheduler, sent, asked)
    BY <1>1 DEF OnLine, InQueue
  <2>2. AtLock(scheduler, sent, asked, at) /\ Awaited(scheduler, wire, asked, at, done)
    BY <1>1 DEF LineInit, AtLock, Awaited
  <2> QED BY <2>1, <2>2 DEF Sound
<1>4. Promise!Init
  BY DEF LineInit, Promise!Init
<1> QED BY <1>1, <1>2, <1>3, <1>4 DEF LineInv

LEMMA LineNextIs ==
    ASSUME LineInv, [LineNext]_lineVars
    PROVE  LineInv' /\ [Promise!Next]_Promise!promised
<1>1. ASSUME NEW c \in Callers, Leave(c)
      PROVE  LineInv' /\ Promise!Next
  BY <1>1, LeaveKeeps DEF Leave
<1>2. CASE UNCHANGED lineVars
  <2>1. LineInv'
    <3>1. LineTypeOK' /\ Sound(scheduler, wire, sent, asked, at, done)' <=>
          LineTypeOK /\ Sound(scheduler, wire, sent, asked, at, done)
      BY <1>2 DEF lineVars, LineTypeOK
    <3> QED BY <1>2, <3>1 DEF lineVars, LineInv, LineTypeOK
  <2> QED BY <1>2, <2>1 DEF lineVars, Promise!promised
<1> QED BY <1>1, <1>2, AskKeeps, EnterKeeps, FrameKeeps, SilenceKeeps, CloseOrTickKeeps,
           VendorFrameKeeps, UpstreamKeeps DEF LineNext

\* The line is well typed.
THEOREM LineTypeCorrect == LineSpec => []LineTypeOK
<1>1. LineInv => LineTypeOK
  BY DEF LineInv
<1> QED BY <1>1, LineInitIs, LineNextIs, PTL DEF LineSpec

\* The connection keeps its promise, for any callers, requests and links, up
\* to Serves: the first half of KeepsPromise.
THEOREM LineKeepsPromise == LineSpec => Promise!Spec
BY LineInitIs, LineNextIs, PTL DEF LineSpec, Promise!Spec

\* Nobody waits for an answer on a closed connection (session.close).
THEOREM CloseWakesAll == LineSpec => []ClosedWakesAll
<1>1. LineInv => ClosedWakesAll
  BY DEF LineInv, ClosedWakesAll
<1> QED BY <1>1, LineInitIs, LineNextIs, PTL DEF LineSpec

(***************************************************************************)
(* EdgeIngest.                                                             *)
(***************************************************************************)

-----------------------------------------------------------------------------
(* Least and greatest elements. *)

LEMMA LeastNatural ==
    ASSUME NEW T \in SUBSET Nat, T # {}
    PROVE  \E m \in T : \A k \in T : m <= k
<1>1. PICK m \in T : \A k \in T : <<k, m>> \notin OpToRel(<, Nat)
  BY NatLessThanWellFounded, WFMin
<1>2. \A k \in T : ~(k < m)
  BY <1>1 DEF OpToRel
<1> QED BY <1>2

LEMMA GreatestTime ==
    ASSUME NEW T \in SUBSET Times, T # {}
    PROVE  \E m \in T : \A k \in T : k <= m
<1> DEFINE U == {n \in Nat : \A k \in T : k <= n}
<1>1. T \subseteq Nat /\ \A k \in T : 1 <= k
  BY IngestAssumption DEF Times
<1>2. MaxTime \in U
  BY IngestAssumption DEF Times
<1>3. PICK n \in U : \A u \in U : n <= u
  BY <1>2, LeastNatural
<1>4. CASE n \in T
  BY <1>3, <1>4
<1>5. CASE n \notin T
  <2>1. \A k \in T : k <= n - 1
    BY <1>1, <1>3, <1>5
  <2>2. n - 1 \in Nat
    <3>1. PICK k \in T : 1 <= k /\ k <= n - 1 /\ k \in Nat
      BY <1>1, <2>1
    <3> QED BY <1>3, <3>1
  <2>3. n - 1 \in U
    BY <2>1, <2>2
  <2> QED BY <1>3, <2>3
<1> QED BY <1>4, <1>5

-----------------------------------------------------------------------------
(* The inductive invariant: what is stored, or on its way there, says what *)
(* an event that is kept said, and was taken in time.                      *)

Seen == {r \in Reading : r.ts <= now}
Calls == [at : {"free", "reading", "event", "append", "judge", "insert", "answer"},
          todo : Seq(Seen), row : StoredRow, event : GridEvent \cup {NoEvent}, size : Nat]

Said(row) ==
    row.edge # 0 =>
        \E e \in gridEvents : /\ e.at = row.edge
                              /\ row.present = (IF e.state = "restored" THEN "yes" ELSE "no")
Held(row) == row.edge # 0 => row.ts <= row.edge + StaleAfter

PastKept ==
    \A t \in Times : /\ Said(past[t]) /\ Held(past[t])
                     /\ past[t].edge # 0 => past[t].ts = t
CallKnows(q) ==
    /\ Said(q.row) /\ Held(q.row)
    /\ q.at \in {"event", "append"} => q.todo # <<>>
    /\ q.at \in {"judge", "insert"} => q.event # NoEvent
IngestInv ==
    /\ now \in Times /\ taken \in 0..MaxReadings
    /\ past \in [Times -> StoredRow] /\ PastKept
    /\ gridEvents \subseteq GridEvent
    /\ requests \in [Slots -> Calls] /\ \A s \in Slots : CallKnows(requests[s])
    /\ buffer \in Seq(Seen)
    /\ unsaid \in GridEvent \cup {NoEvent}
    /\ awaited \subseteq Slots

LEMMA NoRowIs ==
    /\ NoRow \in StoredRow /\ NoRow.edge = 0
BY DEF NoRow, StoredRow, Verdicts

LEMMA NewestIs ==
    ASSUME IngestInv
    PROVE  Newest \in StoredRow /\ Said(Newest) /\ Held(Newest)
<1> DEFINE stored == {t \in Times : past[t] # NoRow}
<1>1. CASE stored = {}
  BY <1>1, NoRowIs DEF Newest, Said, Held
<1>2. CASE stored # {}
  <2>1. \E m \in stored : \A k \in stored : k <= m
    BY <1>2, GreatestTime
  <2>2. Max(stored) \in stored
    BY <2>1 DEF Max, Times
  <2>3. Newest = past[Max(stored)]
    BY <1>2 DEF Newest
  <2> HIDE DEF stored
  <2>4. Max(stored) \in Times
    BY <2>2 DEF stored
  <2> QED BY <2>3, <2>4 DEF IngestInv, PastKept
<1> QED BY <1>1, <1>2

LEMMA LatestIs ==
    ASSUME gridEvents \subseteq GridEvent
    PROVE  Latest \in gridEvents \cup {NoEvent}
<1>1. CASE gridEvents = {}
  BY <1>1 DEF Latest
<1>2. CASE gridEvents # {}
  <2> DEFINE ats == {e.at : e \in gridEvents}
  <2>1. ats \subseteq Times /\ ats # {}
    BY <1>2 DEF GridEvent
  <2>2. PICK m \in ats : \A k \in ats : k <= m
    BY <2>1, GreatestTime
  <2>3. \E e \in gridEvents : \A d \in gridEvents : d.at <= e.at
    BY <2>2
  <2> QED BY <1>2, <2>3 DEF Latest
<1> QED BY <1>1, <1>2

\* with_grid_event: what an event says of a row is what it said.
LEMMA WithEventIs ==
    ASSUME NEW prev \in StoredRow, Said(prev), NEW e \in gridEvents \cup {NoEvent},
           gridEvents \subseteq GridEvent
    PROVE  WithEvent(prev, e) \in StoredRow /\ Said(WithEvent(prev, e))
<1> DEFINE state == IF e.state = "restored" THEN "yes" ELSE "no"
           new == [prev EXCEPT !.present = state, !.edge = e.at,
                               !.since = IF prev.present = state THEN @ ELSE e.at]
<1>1. CASE e = NoEvent \/ e.at <= prev.ts
  BY <1>1 DEF WithEvent
<1>2. CASE ~(e = NoEvent \/ e.at <= prev.ts)
  <2>1. e \in gridEvents /\ e \in GridEvent /\ e.at \in Nat
    BY <1>2, IngestAssumption DEF GridEvent, Times
  <2>2. WithEvent(prev, e) = new
    BY <1>2 DEF WithEvent
  <2>3. new \in StoredRow /\ new.edge = e.at /\ new.present = state
    BY <2>1 DEF StoredRow, Verdicts
  <2> HIDE DEF new
  <2> QED BY <2>1, <2>2, <2>3 DEF Said
<1> QED BY <1>1, <1>2

\* What process makes of a reading and the row before.
LEMMA ProcessedIs ==
    ASSUME now \in Times, NEW r \in Seen, NEW prev \in StoredRow, Said(prev)
    PROVE  LET row == Processed(r, prev) IN
           row \in StoredRow /\ Said(row) /\ Held(row) /\ row.ts = r.ts
<1> DEFINE row == Processed(r, prev)
           aggregate == Debounced(Raw(r.frame), prev)
           keep == Keeps(aggregate, prev)
           present == IF keep THEN prev.present ELSE aggregate
<1>1. r.ts \in Nat /\ r.ts <= now /\ now \in Nat
  BY IngestAssumption DEF Seen, Reading, Times
<1>2. Raw(r.frame) \in Verdicts
  BY DEF Raw, Verdicts
<1>3. aggregate \in Verdicts
  BY <1>2 DEF Debounced, StoredRow
<1>4. present \in Verdicts
  BY <1>3 DEF StoredRow
<1>5. keep => now <= prev.edge + StaleAfter
  BY DEF Keeps
<1>6. /\ row.ts = r.ts /\ row.raw = Raw(r.frame) /\ row.present = present
      /\ row.edge = (IF keep THEN prev.edge ELSE 0)
  BY DEF Processed
<1>7. row \in StoredRow
  <2> HIDE DEF aggregate
  <2>1. row = [ts |-> r.ts, raw |-> Raw(r.frame), present |-> present,
               since |-> IF present # prev.present \/ prev.since = 0 THEN r.ts ELSE prev.since,
               edge |-> IF keep THEN prev.edge ELSE 0,
               odd |-> r.frame = "odd"]
    BY DEF Processed, aggregate
  <2> HIDE DEF row, keep, present
  <2> QED BY <1>1, <1>2, <1>4, <2>1 DEF StoredRow
<1> HIDE DEF row, keep, aggregate
<1>8. Said(row)
  BY <1>6 DEF Said
<1>9. Held(row)
  BY <1>1, <1>5, <1>6, IngestAssumption DEF Held, StoredRow
<1> QED BY <1>6, <1>7, <1>8, <1>9 DEF row

-----------------------------------------------------------------------------
(* The steps. *)

LEMMA SeqGrows ==
    ASSUME NEW S, NEW T, S \subseteq T
    PROVE  Seq(S) \subseteq Seq(T)
OBVIOUS

\* One request changes, and nothing else it is judged by.
LEMMA CallChanges ==
    ASSUME IngestInv, NEW s \in Slots, NEW q \in Calls, CallKnows(q),
           requests' = [requests EXCEPT ![s] = q],
           UNCHANGED <<now, past, gridEvents, taken>>,
           buffer' \in Seq(Seen), unsaid' \in GridEvent \cup {NoEvent}, awaited' \subseteq Slots
    PROVE  IngestInv'
<1>1. Seen' = Seen /\ Calls' = Calls
  BY DEF Seen, Calls
<1>2. \A row : Said(row)' <=> Said(row)
  BY DEF Said
<1>3. requests' \in [Slots -> Calls] /\ \A p \in Slots : CallKnows(requests'[p])
  BY DEF IngestInv
<1>4. (\A p \in Slots : CallKnows(requests[p]))'
  BY <1>3 DEF CallKnows, Said, Held
<1>5. PastKept'
  BY DEF IngestInv, PastKept, Said, Held
<1> QED BY <1>1, <1>3, <1>4, <1>5 DEF IngestInv

LEMMA NoCallIs == NoCall \in Calls /\ CallKnows(NoCall)
BY NoRowIs DEF NoCall, Calls, CallKnows, Said, Held

LEMMA ReadPreviousKeeps ==
    ASSUME IngestInv, NEW s \in Slots, ReadPrevious(s)
    PROVE  IngestInv'
<1>1. PICK row : row = Newest
  OBVIOUS
<1>2. row \in StoredRow /\ Said(row) /\ Held(row)
  BY <1>1, NewestIs
<1> DEFINE q == [requests[s] EXCEPT !.at = "event", !.row = row]
<1>3. requests' = [requests EXCEPT ![s] = q]
  BY <1>1 DEF ReadPrevious, IngestInv
<1>4. q \in Calls /\ q.row = row /\ q.at = "event" /\ q.todo = requests[s].todo
  BY <1>2 DEF IngestInv, Calls
<1> HIDE DEF q
<1>5. CallKnows(q)
  BY <1>2, <1>4 DEF CallKnows, ReadPrevious
<1> QED BY <1>3, <1>4, <1>5, CallChanges DEF ReadPrevious, IngestInv

LEMMA ProcessKeeps ==
    ASSUME IngestInv, NEW s \in Slots, Process(s)
    PROVE  IngestInv'
<1> DEFINE c == requests[s]
           r == Head(c.todo)
<1>1. c \in Calls /\ CallKnows(c) /\ c.at = "event" /\ c.todo # <<>>
  BY DEF IngestInv, Process, CallKnows
<1>2. c.todo \in Seq(Seen) /\ c.row \in StoredRow /\ Said(c.row)
  BY <1>1 DEF Calls, CallKnows
<1>3. r \in Seen /\ Tail(c.todo) \in Seq(Seen)
  BY <1>1, <1>2
<1>4. CASE r.frame = "bad"
  <2> DEFINE q == [c EXCEPT !.at = "reading", !.todo = Tail(c.todo), !.row = NoRow]
  <2>1. requests' = [requests EXCEPT ![s] = q]
    BY <1>4 DEF Process, IngestInv
  <2>2. q \in Calls /\ q.at = "reading" /\ q.row = NoRow
    BY <1>1, <1>3, NoRowIs DEF Calls
  <2> HIDE DEF q
  <2>3. CallKnows(q)
    BY <2>2, NoRowIs DEF CallKnows, Said, Held
  <2> QED BY <2>1, <2>2, <2>3, CallChanges DEF Process, IngestInv
<1>5. CASE r.frame # "bad"
  <2>1. PICK row : row = Processed(r, WithEvent(c.row, Latest))
    OBVIOUS
  <2>2. row \in StoredRow /\ Said(row) /\ Held(row)
    <3>1. Latest \in gridEvents \cup {NoEvent}
      BY LatestIs DEF IngestInv
    <3>2. WithEvent(c.row, Latest) \in StoredRow /\ Said(WithEvent(c.row, Latest))
      BY <1>2, <3>1, WithEventIs DEF IngestInv
    <3> QED BY <1>3, <2>1, <3>2, ProcessedIs DEF IngestInv
  <2> DEFINE q == [c EXCEPT !.at = "append", !.row = row]
  <2>3. requests' = [requests EXCEPT ![s] = q]
    BY <1>5, <2>1 DEF Process, IngestInv
  <2>4. q \in Calls /\ q.at = "append" /\ q.row = row /\ q.todo = c.todo
    BY <1>1, <2>2 DEF Calls
  <2> HIDE DEF q
  <2>5. CallKnows(q)
    BY <1>1, <2>2, <2>4 DEF CallKnows
  <2> QED BY <2>3, <2>4, <2>5, CallChanges DEF Process, IngestInv
<1> QED BY <1>4, <1>5

LEMMA AppendKeeps ==
    ASSUME IngestInv, NEW s \in Slots, Append1(s)
    PROVE  IngestInv'
<1> DEFINE c == requests[s]
           q == [c EXCEPT !.at = "reading", !.todo = Tail(c.todo), !.row = NoRow]
<1>1. c \in Calls /\ CallKnows(c) /\ c.at = "append" /\ c.todo # <<>>
  BY DEF IngestInv, Append1, CallKnows
<1>2. Tail(c.todo) \in Seq(Seen) /\ c.row \in StoredRow /\ Said(c.row) /\ Held(c.row)
  BY <1>1 DEF Calls, CallKnows
<1>3. requests' = [requests EXCEPT ![s] = q] /\ past' = [past EXCEPT ![c.row.ts] = c.row]
  BY DEF Append1, IngestInv
<1>4. q \in Calls /\ q.at = "reading" /\ q.row = NoRow
  BY <1>1, <1>2, NoRowIs DEF Calls
<1> HIDE DEF q, c
<1>5. CallKnows(q)
  BY <1>4, NoRowIs DEF CallKnows, Said, Held
<1>6. UNCHANGED <<now, gridEvents, buffer, unsaid, awaited, taken>>
  BY DEF Append1
<1>7. past' \in [Times -> StoredRow]
  BY <1>2, <1>3 DEF IngestInv
<1>8. PastKept'
  BY <1>2, <1>3, <1>6 DEF IngestInv, PastKept, Said, Held
<1>9. requests' \in [Slots -> Calls] /\ \A p \in Slots : CallKnows(requests'[p])
  BY <1>3, <1>4, <1>5 DEF IngestInv
<1>10. Seen' = Seen /\ Calls' = Calls /\ (\A p \in Slots : CallKnows(requests[p]))'
  BY <1>6, <1>9 DEF Seen, Calls, CallKnows, Said, Held
<1> QED BY <1>6, <1>7, <1>8, <1>9, <1>10 DEF IngestInv

LEMMA JudgeKeeps ==
    ASSUME IngestInv, NEW s \in Slots, Judge(s)
    PROVE  IngestInv'
<1> DEFINE c == requests[s]
<1>1. c \in Calls /\ CallKnows(c) /\ c.at = "judge"
  BY DEF IngestInv, Judge
<1>2. PICK x \in {"answer", "insert"} : requests' = [requests EXCEPT ![s].at = x]
  BY DEF Judge
<1> DEFINE q == [c EXCEPT !.at = x]
<1>3. requests' = [requests EXCEPT ![s] = q]
  BY <1>2 DEF IngestInv
<1>4. q \in Calls /\ q.at = x /\ q.row = c.row /\ q.event = c.event
  BY <1>1, <1>2 DEF Calls
<1> HIDE DEF q
<1>5. CallKnows(q)
  BY <1>1, <1>2, <1>4 DEF CallKnows
<1> QED BY <1>3, <1>4, <1>5, CallChanges DEF Judge, IngestInv

LEMMA InsertKeeps ==
    ASSUME IngestInv, NEW s \in Slots, Insert(s)
    PROVE  IngestInv'
<1> DEFINE c == requests[s]
           q == [c EXCEPT !.at = "answer"]
<1>1. c \in Calls /\ CallKnows(c) /\ c.at = "insert" /\ c.event \in GridEvent
  BY DEF IngestInv, Insert, CallKnows, Calls
<1>2. requests' = [requests EXCEPT ![s] = q]
  BY DEF Insert, IngestInv
<1>3. q \in Calls /\ q.at = "answer" /\ q.row = c.row
  BY <1>1 DEF Calls
<1> HIDE DEF q
<1>4. CallKnows(q)
  BY <1>1, <1>3 DEF CallKnows
<1>5. UNCHANGED <<now, past, buffer, unsaid, awaited, taken>>
  BY DEF Insert
<1>6. gridEvents \subseteq gridEvents' /\ gridEvents' \subseteq GridEvent
  BY <1>1 DEF Insert, IngestInv
<1>7. \A row : Said(row) => Said(row)'
  BY <1>6 DEF Said
<1>8. requests' \in [Slots -> Calls] /\ \A p \in Slots : CallKnows(requests'[p])
  BY <1>2, <1>3, <1>4 DEF IngestInv
<1>9. (\A p \in Slots : CallKnows(requests[p]))'
  BY <1>6, <1>8 DEF CallKnows, Said, Held
<1>10. PastKept'
  BY <1>5, <1>6 DEF IngestInv, PastKept, Said, Held
<1>11. Seen' = Seen /\ Calls' = Calls
  BY <1>5 DEF Seen, Calls
<1> QED BY <1>5, <1>6, <1>8, <1>9, <1>10, <1>11 DEF IngestInv

LEMMA RespondKeeps ==
    ASSUME IngestInv, NEW s \in Slots, Respond(s)
    PROVE  IngestInv'
<1>1. requests' = [requests EXCEPT ![s] = NoCall] /\ awaited' \subseteq Slots
      /\ UNCHANGED <<now, past, gridEvents, taken>>
  BY DEF Respond, IngestInv
<1>2. buffer' \in Seq(Seen)
  <2>1. requests[s].size \in Nat /\ buffer \in Seq(Seen)
    BY DEF IngestInv, Calls
  <2>2. SubSeq(buffer, requests[s].size + 1, Len(buffer)) \in Seq(Seen)
    BY <2>1, SubSeqProperties
  <2> QED BY <2>1, <2>2 DEF Respond
<1>3. unsaid' \in GridEvent \cup {NoEvent}
  BY DEF Respond, IngestInv
<1> QED BY <1>1, <1>2, <1>3, NoCallIs, CallChanges

\* The clock goes on; what was seen was seen.
LEMMA ClockKeeps ==
    ASSUME IngestInv, now' \in Times, now <= now', taken' \in 0..MaxReadings,
           UNCHANGED <<past, gridEvents, requests, unsaid, awaited>>, buffer' \in Seq(Seen')
    PROVE  IngestInv'
<1>1. Seen \subseteq Seen'
  BY IngestAssumption DEF Seen, Reading, Times, IngestInv
<1>2. Seq(Seen) \subseteq Seq(Seen')
  BY <1>1, SeqGrows
<1>3. Calls \subseteq Calls'
  BY <1>2 DEF Calls
<1>4. PastKept' /\ (\A s \in Slots : CallKnows(requests[s]))'
  BY DEF IngestInv, PastKept, CallKnows, Said, Held
<1> QED BY <1>3, <1>4 DEF IngestInv

LEMMA TakeKeeps ==
    ASSUME IngestInv, Take
    PROVE  IngestInv'
<1>1. now' \in Times /\ now <= now' /\ taken' \in 0..MaxReadings
  BY IngestAssumption DEF Take, Times, IngestInv
<1>2. PICK f \in Frames : buffer' = Append(buffer, [ts |-> now, frame |-> f])
  BY DEF Take
<1>3. Seen \subseteq Seen'
  BY <1>1, IngestAssumption DEF Seen, Reading, Times, IngestInv
<1>4. buffer \in Seq(Seen')
  BY <1>3, SeqGrows DEF IngestInv
<1>5. [ts |-> now, frame |-> f] \in Seen'
  BY <1>1, IngestAssumption DEF Seen, Reading, IngestInv
<1>6. buffer' \in Seq(Seen')
  BY <1>2, <1>4, <1>5
<1> QED BY <1>1, <1>6, ClockKeeps DEF Take

LEMMA TimePassesKeeps ==
    ASSUME IngestInv, TimePasses
    PROVE  IngestInv'
<1>1. now \in 1..MaxTime /\ MaxTime \in Nat
  BY IngestAssumption DEF IngestInv, Times
<1>2. now' \in {now, now + 1} /\ now' <= MaxTime
  BY <1>1 DEF TimePasses, Min
<1>3. now' \in Times /\ now <= now' /\ UNCHANGED <<past, gridEvents, requests, unsaid, awaited, buffer, taken>>
  BY <1>1, <1>2 DEF TimePasses, Times
<1>4. Seen \subseteq Seen'
  BY <1>1, <1>3 DEF Seen, Reading, Times
<1>5. buffer' \in Seq(Seen')
  BY <1>3, <1>4, SeqGrows DEF IngestInv
<1> QED BY <1>3, <1>5, ClockKeeps DEF IngestInv

LEMMA BoxKeeps ==
    ASSUME IngestInv, NEW s \in Slots, Upload(s) \/ SendEvent(s)
    PROVE  IngestInv'
<1>1. UNCHANGED <<now, past, gridEvents, buffer, unsaid, taken>> /\ awaited' \subseteq Slots
  BY DEF Upload, SendEvent, Sends, IngestInv
<1>2. PICK c \in Calls : c = NoCall
  BY NoCallIs
<1>3. c.row = NoRow
  BY <1>2 DEF NoCall
<1>4. CASE Upload(s)
  <2> DEFINE q == [c EXCEPT !.at = "reading", !.todo = buffer, !.size = Len(buffer)]
  <2>1. requests' = [requests EXCEPT ![s] = q]
    BY <1>2, <1>4, Zenon DEF Upload, Sends
  <2>2. buffer \in Seq(Seen) /\ Len(buffer) \in Nat
    BY DEF IngestInv
  <2> DEFINE a == [c EXCEPT !.at = "reading"]
             b == [a EXCEPT !.todo = buffer]
  <2>3. a \in Calls /\ a.at = "reading" /\ a.row = NoRow
    BY <1>3 DEF Calls
  <2>4. q = [b EXCEPT !.size = Len(buffer)]
    OBVIOUS
  <2> HIDE DEF q, a
  <2>5. b \in Calls /\ b.at = "reading" /\ b.row = NoRow
    BY <2>2, <2>3 DEF Calls
  <2> HIDE DEF b
  <2>6. q \in Calls /\ q.at = "reading" /\ q.row = NoRow
    BY <2>2, <2>4, <2>5 DEF Calls
  <2>7. CallKnows(q)
    BY <2>6, NoRowIs DEF CallKnows, Said, Held
  <2> QED BY <1>1, <2>1, <2>6, <2>7, CallChanges DEF IngestInv
<1>5. CASE SendEvent(s)
  <2> DEFINE q == [c EXCEPT !.at = "judge", !.event = unsaid]
  <2>1. requests' = [requests EXCEPT ![s] = q] /\ unsaid # NoEvent
    BY <1>2, <1>5, Zenon DEF SendEvent, Sends
  <2>2. q \in Calls /\ q.at = "judge" /\ q.row = NoRow /\ q.event = unsaid
    BY <1>2, <1>3 DEF Calls, IngestInv
  <2> HIDE DEF q
  <2>3. CallKnows(q)
    BY <2>1, <2>2, NoRowIs DEF CallKnows, Said, Held
  <2> QED BY <1>1, <2>1, <2>2, <2>3, CallChanges DEF IngestInv
<1> QED BY <1>4, <1>5

LEMMA ConfirmKeeps ==
    ASSUME IngestInv, Confirm
    PROVE  IngestInv'
<1>1. UNCHANGED <<now, past, gridEvents, requests, buffer, awaited, taken>>
  BY DEF Confirm
<1>2. unsaid' \in GridEvent
  BY DEF Confirm, GridEvent, IngestInv
<1>3. Seen' = Seen /\ Calls' = Calls
  BY <1>1 DEF Seen, Calls
<1>4. PastKept' /\ (\A s \in Slots : CallKnows(requests[s]))'
  BY <1>1 DEF IngestInv, PastKept, CallKnows, Said, Held
<1> QED BY <1>1, <1>2, <1>3, <1>4 DEF IngestInv

\* What is stored of the grid says what a kept event said, and names no
\* confirmation that was too old when the reading was taken.
THEOREM IngestInvariant == IngestSpec => []IngestInv
<1>1. IngestInit => IngestInv
  <2> SUFFICES ASSUME IngestInit PROVE IngestInv
    OBVIOUS
  <2>1. now \in Times /\ taken \in 0..MaxReadings /\ past \in [Times -> StoredRow]
    BY NoRowIs, IngestAssumption DEF IngestInit, Times
  <2>2. PastKept
    BY NoRowIs DEF IngestInit, PastKept, Said, Held
  <2>3. requests \in [Slots -> Calls] /\ \A s \in Slots : CallKnows(requests[s])
    BY NoCallIs DEF IngestInit
  <2>4. buffer \in Seq(Seen)
    BY DEF IngestInit
  <2> QED BY <2>1, <2>2, <2>3, <2>4 DEF IngestInit, IngestInv
<1>2. IngestInv /\ [IngestNext]_ingestVars => IngestInv'
  <2> SUFFICES ASSUME IngestInv, [IngestNext]_ingestVars
               PROVE  IngestInv'
    OBVIOUS
  <2>1. ASSUME NEW s \in Slots,
               \/ ReadPrevious(s) \/ Process(s) \/ Append1(s)
               \/ Judge(s) \/ Insert(s) \/ Respond(s)
        PROVE  IngestInv'
    BY <2>1, ReadPreviousKeeps, ProcessKeeps, AppendKeeps, JudgeKeeps, InsertKeeps, RespondKeeps
  <2>2. CASE UNCHANGED ingestVars
    <3>1. Seen' = Seen /\ Calls' = Calls
      BY <2>2 DEF ingestVars, Seen, Calls
    <3>2. PastKept' /\ (\A s \in Slots : CallKnows(requests[s]))'
      BY <2>2 DEF ingestVars, IngestInv, PastKept, CallKnows, Said, Held
    <3> QED BY <2>2, <3>1, <3>2 DEF ingestVars, IngestInv
  <2> QED BY <2>1, <2>2, TakeKeeps, TimePassesKeeps, ConfirmKeeps, BoxKeeps DEF IngestNext
<1> QED BY <1>1, <1>2, PTL DEF IngestSpec

THEOREM IngestTypeCorrect == IngestSpec => []IngestTypeOK
<1>1. IngestInv => IngestTypeOK
  <2>1. Seen \subseteq Reading
    BY DEF Seen
  <2>2. Seq(Seen) \subseteq Seq(Reading)
    BY <2>1, SeqGrows
  <2> QED BY <2>2 DEF IngestInv, IngestTypeOK, Calls
<1> QED BY <1>1, IngestInvariant, PTL

\* No reading carries a confirmation of the box that was too old when it was
\* taken (_should_keep_edge_confirmed), although each takes it over from the row
\* before.
THEOREM ConfirmationsEnd == IngestSpec => []HoldEnds
<1>1. IngestInv => HoldEnds
  BY DEF IngestInv, PastKept, Held, HoldEnds
<1> QED BY <1>1, IngestInvariant, PTL

\* A row that names a confirmation says what that event said, whatever requests
\* overlap and whatever is sent twice (with_grid_event).
THEOREM ConfirmedAsSaid == IngestSpec => []ConfirmedSaysSo
<1>1. IngestInv => ConfirmedSaysSo
  BY DEF IngestInv, PastKept, Said, ConfirmedSaysSo
<1> QED BY <1>1, IngestInvariant, PTL

(***************************************************************************)
(* CollectorHub.                                                           *)
(***************************************************************************)

-----------------------------------------------------------------------------
(* The sessions at some positions. *)

LEMMA GreatestPosition ==
    ASSUME NEW n \in Nat, NEW T \in SUBSET (1..n), T # {}
    PROVE  \E m \in T : \A k \in T : k <= m
<1> DEFINE U == {u \in Nat : \A k \in T : k <= u}
<1>1. T \subseteq Nat /\ \A k \in T : 1 <= k
  OBVIOUS
<1>2. n \in U
  OBVIOUS
<1>3. PICK m \in U : \A u \in U : m <= u
  BY <1>2, LeastNatural
<1>4. CASE m \in T
  BY <1>3, <1>4
<1>5. CASE m \notin T
  <2>1. \A k \in T : k <= m - 1
    BY <1>1, <1>3, <1>5
  <2>2. m - 1 \in Nat
    <3>1. PICK k \in T : 1 <= k /\ k <= m - 1 /\ k \in Nat
      BY <1>1, <2>1
    <3> QED BY <1>3, <3>1
  <2>3. m - 1 \in U
    BY <2>1, <2>2
  <2> QED BY <1>3, <2>3
<1> QED BY <1>4, <1>5

\* The k-th of some positions is one of them, and no two are the same.
LEMMA PlacesAre ==
    ASSUME NEW n \in Nat, NEW ks \in SUBSET (1..n)
    PROVE  /\ Cardinality(ks) \in Nat /\ Cardinality(ks) <= n
           /\ \A i \in 1..Cardinality(ks) : \E k \in ks : Cardinality({j \in ks : j <= k}) = i
<1> DEFINE Upto(k) == {j \in ks : j <= k}
           Place(k) == Cardinality(Upto(k))
<1>1. ks \subseteq 1..n /\ ks \subseteq Nat
  OBVIOUS
<1>2. IsFiniteSet(1..n) /\ Cardinality(1..n) = n
  BY FS_Interval
<1>3. IsFiniteSet(ks) /\ Cardinality(ks) \in Nat /\ Cardinality(ks) <= n
  BY <1>2, FS_Subset, FS_CardinalityType
<1>4. ASSUME NEW P \in SUBSET ks
      PROVE  IsFiniteSet(P) /\ Cardinality(P) \in Nat
  BY <1>3, FS_Subset, FS_CardinalityType
<1>5. ASSUME NEW i \in 1..Cardinality(ks)
      PROVE  \E k \in ks : Place(k) = i
  <2> DEFINE T == {k \in ks : i <= Place(k)}
  <2>1. ks # {}
    BY <1>3, FS_EmptySet
  <2>2. PICK m \in ks : \A k \in ks : k <= m
    BY <2>1, GreatestPosition
  <2>3. Upto(m) = ks
    BY <2>2
  <2>4. Place(m) = Cardinality(ks)
    BY <2>3
  <2>5. \A k \in ks : Place(k) \in Nat
    BY <1>4
  <2> HIDE DEF Place
  <2>6. m \in T
    BY <1>3, <2>4
  <2>7. PICK k \in T : \A t \in T : k <= t
    <3>1. T \in SUBSET Nat /\ T # {}
      BY <1>1, <2>6
    <3> HIDE DEF T
    <3> QED BY <3>1, LeastNatural
  <2>8. k \in ks /\ k \in 1..n /\ Place(k) \in Nat /\ i <= Place(k)
    <3>1. k \in ks /\ i <= Place(k)
      BY <2>7
    <3> HIDE DEF T
    <3> QED BY <2>5, <3>1
  <2>9. i \in Nat /\ (Place(k) = i \/ i < Place(k))
    BY <1>3, <2>8
  <2> SUFFICES ASSUME i < Place(k)
               PROVE  FALSE
    BY <2>8, <2>9, Zenon
  <2> DEFINE L == {j \in ks : j < k}
  <2>10. Upto(k) = L \cup {k} /\ k \notin L /\ L \subseteq ks
    <3>1. k \notin L /\ L \subseteq ks
      BY <1>1, <2>8
    <3>2. \A j \in ks : j <= k <=> j < k \/ j = k
      BY <1>1, <2>8
    <3>3. \A j : j \in Upto(k) <=> j \in L \cup {k}
      BY <2>8, <3>2
    <3> QED BY <3>1, <3>3, Zenon
  <2>11. IsFiniteSet(L) /\ Cardinality(L) \in Nat
    BY <1>4, <2>10
  <2> HIDE DEF L
  <2>12. Place(k) = Cardinality(L) + 1
    BY <2>10, <2>11, FS_AddElement DEF Place
  <2>13. i <= Cardinality(L) /\ L # {}
    BY <2>9, <2>11, <2>12, FS_EmptySet
  <2>14. PICK p \in L : \A j \in L : j <= p
    BY <2>10, <2>13, GreatestPosition
  <2>15. p < k /\ p \in ks /\ p \in 1..n
    BY <2>14 DEF L
  <2>16. Place(p) = Cardinality(L)
    <3>1. \A j \in ks : j < k <=> j <= p
      BY <2>8, <2>14, <2>15 DEF L
    <3>2. Upto(p) = L
      BY <3>1 DEF L
    <3> QED BY <3>2 DEF Place
  <2>17. p \in T
    BY <2>13, <2>15, <2>16
  <2> QED BY <2>7, <2>8, <2>15, <2>17
<1> QED BY <1>3, <1>5

LEMMA KeptIs ==
    ASSUME NEW S, NEW q \in Seq(S), NEW ks \in SUBSET DOMAIN q
    PROVE  /\ Kept(q, ks) \in Seq(S) /\ Len(Kept(q, ks)) <= Len(q)
           /\ \E p \in [DOMAIN Kept(q, ks) -> ks] :
                 /\ \A i \in DOMAIN Kept(q, ks) : Kept(q, ks)[i] = q[p[i]]
                 /\ \A i, j \in DOMAIN Kept(q, ks) : p[i] = p[j] => i = j
<1>1. PICK n \in Nat : n = Len(q) /\ DOMAIN q = 1..n /\ ks \in SUBSET (1..n)
  OBVIOUS
<1> DEFINE places == 1..Cardinality(ks)
           upto(k) == Cardinality({j \in ks : j <= k})
           choice(i) == CHOOSE k \in ks : upto(k) = i
           p == [i \in places |-> choice(i)]
           r == Kept(q, ks)
<1>2. /\ Cardinality(ks) \in Nat /\ Cardinality(ks) <= n
      /\ \A i \in places : \E k \in ks : upto(k) = i
  BY <1>1, PlacesAre
<1>3. r = [i \in places |-> q[choice(i)]]
  BY DEF Kept
<1> HIDE DEF upto
<1>4. \A i \in places : choice(i) \in ks /\ upto(choice(i)) = i
  BY <1>2
<1> HIDE DEF choice
<1>5. /\ p \in [places -> ks] /\ \A i, j \in places : p[i] = p[j] => i = j
      /\ \A i \in places : p[i] = choice(i)
  BY <1>4
<1> HIDE DEF r
<1>6. \A i \in places : r[i] = q[p[i]] /\ r[i] \in S
  BY <1>1, <1>3, <1>4, <1>5
<1> HIDE DEF p
<1>7. r \in Seq(S) /\ Len(r) = Cardinality(ks) /\ DOMAIN r = places
  BY <1>2, <1>3, <1>6
<1> QED BY <1>1, <1>2, <1>5, <1>6, <1>7 DEF r

-----------------------------------------------------------------------------
(* One session at most says it is a given inverter's. *)

OneEach(s) ==
    \A i, j \in DOMAIN s : (s[i].serial = s[j].serial /\ s[i].serial # NoSerial) => i = j
HubInv == HubTypeOK /\ OneSessionPerInverter

LEMMA HubStarts == HubInit => HubInv
BY HubAssumption DEF HubInit, HubInv, HubTypeOK, OneSessionPerInverter

\* Sessions that change and keep what they say they are.
LEMMA SameSerials ==
    ASSUME NEW s \in Seq(Session), OneEach(s), NEW t,
           t = [i \in DOMAIN s |-> t[i]],
           \A i \in DOMAIN s : t[i] \in Session /\ t[i].serial = s[i].serial
    PROVE  t \in Seq(Session) /\ Len(t) = Len(s) /\ OneEach(t)
<1>1. PICK n \in Nat : n = Len(s) /\ DOMAIN s = 1..n
  OBVIOUS
<1>2. t \in Seq(Session) /\ Len(t) = n /\ DOMAIN t = 1..n
  BY <1>1
<1> QED BY <1>1, <1>2 DEF OneEach

LEMMA SomeSerials ==
    ASSUME NEW s \in Seq(Session), OneEach(s), NEW ks \in SUBSET DOMAIN s
    PROVE  Kept(s, ks) \in Seq(Session) /\ Len(Kept(s, ks)) <= Len(s) /\ OneEach(Kept(s, ks))
<1> DEFINE t == Kept(s, ks)
<1>1. t \in Seq(Session) /\ Len(t) <= Len(s)
  BY KeptIs
<1>2. PICK p \in [DOMAIN t -> ks] : /\ \A i \in DOMAIN t : t[i] = s[p[i]]
                                    /\ \A i, j \in DOMAIN t : p[i] = p[j] => i = j
  BY KeptIs
<1> HIDE DEF t
<1>3. OneEach(t)
  BY <1>2 DEF OneEach
<1> QED BY <1>1, <1>3 DEF t

LEMMA HubTypes ==
    ASSUME HubInv
    PROVE  /\ sessions \in Seq(Session) /\ OneEach(sessions) /\ Len(sessions) <= MaxSessions
           /\ MaxSessions \in Nat /\ MaxMishaps \in Nat /\ mishaps \in 0..MaxMishaps
           /\ place \in [Collectors -> Addresses]
BY HubAssumption DEF HubInv, HubTypeOK, OneSessionPerInverter, OneEach

LEMMA HubHolds ==
    ASSUME HubInv, sessions' \in Seq(Session), OneEach(sessions'), Len(sessions') <= MaxSessions,
           known' \subseteq Addresses, place' \in [Collectors -> Addresses],
           aware' \in [Collectors -> BOOLEAN],
           loop' \in [Paired -> {"look", "wait", "poll", "read", "failed"}],
           mishaps' \in 0..MaxMishaps
    PROVE  HubInv'
BY DEF HubInv, HubTypeOK, OneSessionPerInverter, OneEach

\* What a session becomes.
LEMMA SessionIs ==
    ASSUME NEW s \in Session, NEW b \in BOOLEAN, NEW to \in {"asking", "serial", "failed", "done"}
    PROVE  /\ [s EXCEPT !.live = b] \in Session /\ [s EXCEPT !.live = b].serial = s.serial
           /\ [s EXCEPT !.bound = b] \in Session /\ [s EXCEPT !.bound = b].serial = s.serial
           /\ [s EXCEPT !.phase = to] \in Session /\ [s EXCEPT !.phase = to].serial = s.serial
BY DEF Session

LEMMA SessionEnds ==
    ASSUME NEW s \in Session
    PROVE  /\ [s EXCEPT !.open = FALSE, !.live = FALSE] \in Session
           /\ [s EXCEPT !.open = FALSE, !.live = FALSE].serial = s.serial
           /\ [s EXCEPT !.phase = "done", !.serial = s.of] \in Session
           /\ [s EXCEPT !.phase = "done", !.serial = s.of].serial = s.of
BY DEF Session

LEMMA DarkIs ==
    ASSUME HubInv, NEW c, NEW i \in DOMAIN sessions
    PROVE  LET t == [sessions[i] EXCEPT !.live = @ /\ sessions[i].of # c]
           IN  t \in Session /\ t.serial = sessions[i].serial
<1> DEFINE b == sessions[i].live /\ sessions[i].of # c
<1>1. sessions[i] \in Session /\ b \in BOOLEAN
  BY HubTypes
<1> HIDE DEF b
<1>2. [sessions[i] EXCEPT !.live = b] \in Session
      /\ [sessions[i] EXCEPT !.live = b].serial = sessions[i].serial
  BY <1>1, SessionIs
<1> QED BY <1>2 DEF b

LEMMA DialKeeps ==
    ASSUME HubInv, NEW c \in Collectors, Dial(c)
    PROVE  /\ sessions' \in Seq(Session) /\ OneEach(sessions') /\ Len(sessions') <= MaxSessions
           /\ known' \subseteq Addresses
<1> DEFINE before == [i \in DOMAIN sessions |->
                         [sessions[i] EXCEPT !.live = @ /\ sessions[i].of # c]]
           new == [of |-> c, address |-> place[c], serial |-> NoSerial,
                   phase |-> "asking", live |-> TRUE, open |-> TRUE, bound |-> FALSE]
<1>1. \A i \in DOMAIN sessions : before[i] \in Session /\ before[i].serial = sessions[i].serial
  BY DarkIs
<1>2. before \in Seq(Session) /\ Len(before) = Len(sessions) /\ OneEach(before)
  BY <1>1, HubTypes, SameSerials
<1>3. new \in Session /\ new.serial = NoSerial
  BY HubTypes DEF Session
<1>4. IF Len(sessions) >= MaxSessions THEN sessions' = before /\ UNCHANGED known
      ELSE sessions' = Append(before, new) /\ known' = known \cup {place[c]}
  BY DEF Dial
<1>5. known \subseteq Addresses /\ place[c] \in Addresses
  BY DEF HubInv, HubTypeOK
<1> HIDE DEF before, new
<1>6. CASE Len(sessions) >= MaxSessions
  BY <1>2, <1>4, <1>5, <1>6, HubTypes
<1>7. CASE ~(Len(sessions) >= MaxSessions)
  <2>1. sessions' = Append(before, new)
    BY <1>4, <1>7
  <2>2. sessions' \in Seq(Session) /\ Len(sessions') = Len(before) + 1
        /\ \A i \in DOMAIN sessions' : \/ i \in DOMAIN before /\ sessions'[i] = before[i]
                                       \/ sessions'[i] = new
    BY <1>2, <1>3, <2>1
  <2>3. OneEach(sessions')
    BY <1>2, <1>3, <2>2 DEF OneEach
  <2> QED BY <1>2, <1>4, <1>5, <1>7, <2>2, <2>3, HubTypes
<1> QED BY <1>6, <1>7

LEMMA CollectorStepKeeps ==
    ASSUME HubInv, NEW c \in Collectors, Hear(c) \/ Redial(c) \/ PowerCut(c)
    PROVE  HubInv'
<1>1. CASE Hear(c)
  BY <1>1, DialKeeps, HubHolds DEF Hear, HubInv, HubTypeOK
<1>2. CASE Redial(c)
  BY <1>2, DialKeeps, HubHolds DEF Redial, HubInv, HubTypeOK
<1>3. CASE PowerCut(c)
  <2>1. \A i \in DOMAIN sessions :
           sessions'[i] \in Session /\ sessions'[i].serial = sessions[i].serial
    <3>1. sessions' = [i \in DOMAIN sessions |->
                         [sessions[i] EXCEPT !.live = @ /\ sessions[i].of # c]]
      BY <1>3 DEF PowerCut
    <3> TAKE i \in DOMAIN sessions
    <3>2. sessions'[i] = [sessions[i] EXCEPT !.live = @ /\ sessions[i].of # c]
      BY <3>1
    <3> QED BY <3>2, DarkIs
  <2>2. sessions' = [i \in DOMAIN sessions |-> sessions'[i]]
    BY <1>3 DEF PowerCut
  <2>3. sessions' \in Seq(Session) /\ OneEach(sessions') /\ Len(sessions') <= MaxSessions
    BY <2>1, <2>2, HubTypes, SameSerials
  <2>4. /\ place' \in [Collectors -> Addresses] /\ aware' \in [Collectors -> BOOLEAN]
        /\ known' \subseteq Addresses /\ mishaps' \in 0..MaxMishaps
        /\ loop' \in [Paired -> {"look", "wait", "poll", "read", "failed"}]
    <3>1. mishaps' \in 0..MaxMishaps
      BY <1>3, HubTypes DEF PowerCut
    <3>2. \E a \in Addresses : place' = [place EXCEPT ![c] = a]
      BY <1>3 DEF PowerCut
    <3>3. aware' = [aware EXCEPT ![c] = FALSE] \/ aware' = aware
      BY <1>3 DEF PowerCut
    <3> QED BY <1>3, <3>1, <3>2, <3>3 DEF PowerCut, HubInv, HubTypeOK
  <2> QED BY <2>3, <2>4, HubHolds
<1> QED BY <1>1, <1>2, <1>3

LEMMA IdentifyKeeps ==
    ASSUME HubInv, NEW i \in DOMAIN sessions, Identify(i)
    PROVE  sessions' \in Seq(Session) /\ OneEach(sessions') /\ Len(sessions') <= MaxSessions
<1> DEFINE q == Identified(i)
           ks == {j \in DOMAIN sessions : ~Superseded(i, j)}
<1>0. sessions[i] \in Session
  BY HubTypes
<1>1. sessions' = Kept(q, ks)
  BY DEF Identify
<1>2. q \in Seq(Session) /\ Len(q) = Len(sessions) /\ DOMAIN q = DOMAIN sessions
  <2>1. [sessions[i] EXCEPT !.phase = "done", !.serial = sessions[i].of] \in Session
    BY <1>0, SessionEnds
  <2>2. q = [sessions EXCEPT ![i] = [sessions[i] EXCEPT !.phase = "done", !.serial = sessions[i].of]]
    BY HubTypes DEF Identified
  <2> HIDE DEF q
  <2> QED BY <2>1, <2>2, HubTypes
<1>3. /\ q[i].serial = sessions[i].of /\ \A j \in DOMAIN sessions \ {i} : q[j] = sessions[j]
      /\ \A j \in ks \ {i} : q[j].serial # sessions[i].of
  <2>1. q[i] = [sessions[i] EXCEPT !.phase = "done", !.serial = sessions[i].of]
        /\ \A j \in DOMAIN sessions \ {i} : q[j] = sessions[j]
    BY HubTypes DEF Identified
  <2>2. q[i].serial = sessions[i].of
    BY <1>0, <2>1, SessionEnds
  <2> HIDE DEF q
  <2> QED BY <2>1, <2>2 DEF Superseded
<1>4. \A j, k \in ks : (q[j].serial = q[k].serial /\ q[j].serial # NoSerial) => j = k
  BY <1>3, HubTypes DEF OneEach
<1> HIDE DEF q, ks
<1>5. ks \in SUBSET DOMAIN q
  BY <1>2 DEF ks
<1>6. Kept(q, ks) \in Seq(Session) /\ Len(Kept(q, ks)) <= Len(q)
  BY <1>2, <1>5, KeptIs
<1>7. OneEach(Kept(q, ks))
  <2> DEFINE t == Kept(q, ks)
  <2>1. PICK p \in [DOMAIN t -> ks] : /\ \A k \in DOMAIN t : t[k] = q[p[k]]
                                      /\ \A k, m \in DOMAIN t : p[k] = p[m] => k = m
    BY <1>2, <1>5, KeptIs
  <2> HIDE DEF t
  <2>2. OneEach(t)
    BY <1>4, <2>1 DEF OneEach
  <2> QED BY <2>2 DEF t
<1>8. Len(Kept(q, ks)) \in Nat
  BY <1>6
<1> QED BY <1>1, <1>2, <1>6, <1>7, <1>8, HubTypes

LEMMA SessionStepKeeps ==
    ASSUME HubInv, NEW i \in DOMAIN sessions,
           ReadSerial(i) \/ Identify(i) \/ FailToIdentify(i) \/ Break(i) \/ PopSession(i)
    PROVE  HubInv'
<1>1. /\ UNCHANGED <<known, place, aware, loop>> /\ mishaps' \in 0..MaxMishaps
  BY HubTypes DEF ReadSerial, Identify, FailToIdentify, Break, PopSession
<1>2. CASE ReadSerial(i) \/ FailToIdentify(i) \/ Break(i)
  <2>1. /\ sessions' = [j \in DOMAIN sessions |-> sessions'[j]]
        /\ \A j \in DOMAIN sessions \ {i} : sessions'[j] = sessions[j]
        /\ sessions'[i] \in Session /\ sessions'[i].serial = sessions[i].serial
    <3>1. \/ sessions' = [sessions EXCEPT ![i] = [sessions[i] EXCEPT !.phase = "serial"]]
          \/ sessions' = [sessions EXCEPT ![i] = [sessions[i] EXCEPT !.phase = "failed"]]
          \/ sessions' = [sessions EXCEPT ![i] = [sessions[i] EXCEPT !.open = FALSE, !.live = FALSE]]
      BY <1>2, HubTypes DEF ReadSerial, FailToIdentify, Break
    <3>2. sessions[i] \in Session
      BY HubTypes
    <3> QED BY <3>1, <3>2, HubTypes, SessionIs, SessionEnds
  <2>2. sessions' \in Seq(Session) /\ OneEach(sessions') /\ Len(sessions') <= MaxSessions
    BY <2>1, HubTypes, SameSerials
  <2> QED BY <1>1, <2>2, HubHolds DEF HubInv, HubTypeOK
<1>3. CASE Identify(i)
  BY <1>1, <1>3, IdentifyKeeps, HubHolds DEF HubInv, HubTypeOK
<1>4. CASE PopSession(i)
  <2>1. sessions' = Kept(sessions, DOMAIN sessions \ {i})
    BY <1>4 DEF PopSession
  <2>2. sessions' \in Seq(Session) /\ OneEach(sessions') /\ Len(sessions') <= Len(sessions)
    BY <2>1, HubTypes, SomeSerials
  <2>3. Len(sessions') <= MaxSessions
    BY <2>2, HubTypes
  <2> QED BY <1>1, <2>2, <2>3, HubHolds DEF HubInv, HubTypeOK
<1> QED BY <1>2, <1>3, <1>4

LEMMA LoopStepKeeps ==
    ASSUME HubInv, NEW p \in Paired, Look(p) \/ Poll(p) \/ Wake(p)
    PROVE  HubInv'
<1>1. /\ UNCHANGED <<known, place, aware, mishaps>>
      /\ loop' \in [Paired -> {"look", "wait", "poll", "read", "failed"}]
  BY DEF Look, Poll, Wake, HubInv, HubTypeOK
<1>2. CASE Look(p)
  <2>1. /\ sessions' = [j \in DOMAIN sessions |-> sessions'[j]]
        /\ \A j \in DOMAIN sessions :
              sessions'[j] \in Session /\ sessions'[j].serial = sessions[j].serial
    <3>1. sessions' = [j \in DOMAIN sessions |->
                         IF sessions[j].serial = p
                         THEN [sessions[j] EXCEPT !.bound = j \in SessionFor(p)] ELSE sessions[j]]
      BY <1>2 DEF Look
    <3>2. ASSUME NEW j \in DOMAIN sessions
          PROVE  sessions'[j] \in Session /\ sessions'[j].serial = sessions[j].serial
      <4> DEFINE b == j \in SessionFor(p)
      <4>1. b \in BOOLEAN /\ sessions[j] \in Session
        BY HubTypes
      <4>2. sessions'[j] = IF sessions[j].serial = p THEN [sessions[j] EXCEPT !.bound = b]
                           ELSE sessions[j]
        BY <3>1
      <4> HIDE DEF b
      <4> QED BY <4>1, <4>2, SessionIs
    <3> QED BY <3>1, <3>2
  <2>2. sessions' \in Seq(Session) /\ OneEach(sessions') /\ Len(sessions') <= MaxSessions
    BY <2>1, HubTypes, SameSerials
  <2> QED BY <1>1, <2>2, HubHolds DEF HubInv, HubTypeOK
<1>3. CASE Poll(p) \/ Wake(p)
  BY <1>1, <1>3, HubHolds, HubTypes DEF Poll, Wake, HubInv, HubTypeOK
<1> QED BY <1>2, <1>3

LEMMA HubStays == HubInv /\ [HubNext]_hubVars => HubInv'
<1> SUFFICES ASSUME HubInv, [HubNext]_hubVars PROVE HubInv'
  OBVIOUS
<1>1. CASE Restart
  <2>1. sessions' \in Seq(Session) /\ OneEach(sessions') /\ Len(sessions') <= MaxSessions
    BY <1>1, HubTypes DEF Restart, OneEach
  <2> QED BY <1>1, <2>1, HubTypes, HubHolds DEF Restart, HubInv, HubTypeOK
<1>2. CASE UNCHANGED hubVars
  BY <1>2 DEF hubVars, HubInv, HubTypeOK, OneSessionPerInverter
<1> QED BY <1>1, <1>2, CollectorStepKeeps, SessionStepKeeps, LoopStepKeeps DEF HubNext

LEMMA HubInvariant == HubSpec => []HubInv
BY HubStarts, HubStays, PTL DEF HubSpec

\* The sessions, what the inventory knows and where collectors are are well typed.
THEOREM HubTypeCorrect == HubSpec => []HubTypeOK
BY HubInvariant, PTL DEF HubInv

\* However redials, identifications, breaks and restarts interleave, for any number
\* of collectors: no two connections are identified as the same inverter's.
THEOREM OneLoopPerLine == HubSpec => []OneSessionPerInverter
BY HubInvariant, PTL DEF HubInv

(***************************************************************************)
(* HarvestDevice.                                                          *)
(***************************************************************************)

JobSteps == {"idle", "prior", "write", "verify", "verified", "failed"}
AtWork == {"prior", "write", "verify"}
JobsOK ==
    /\ job \in [Writers -> [step : JobSteps, nth : Nat, done : Nat]]
    /\ \A w \in Writers : job[w].nth <= Len(Recipes[w])
LoggerTypes ==
    /\ lock \in Users \cup {"free"}
    /\ call \in [Users -> {"none", "waiting", "open", "stray"}]
    /\ ticker \in {"top", "tick", "wait", "gone"}
    /\ due \in BOOLEAN /\ spec \in BOOLEAN
    /\ request \in [PanelReads -> {"none", "refused", "waiting", "taken", "answered"}]
    /\ JobsOK

\* Who holds the lock has a connection open, and whoever has one open that takes
\* the lock holds it; nobody has a call while at rest, and only what was cancelled
\* at the unload goes on alone.
LockIsOpen == lock # "free" => call[lock] = "open"
OpenLocks == \A c \in Users : call[c] = "open" /\ Locks(c) => lock = c
RestingCalls ==
    /\ \A w \in Writers : job[w].step \notin AtWork => call[w] = "none"
    /\ ticker \in {"top", "wait"} => call["loop"] = "none"
StraysAreLoops == \A c \in Users : call[c] = "stray" => c = "loop" /\ ticker = "gone"
HvInv == LoggerTypes /\ LockIsOpen /\ OpenLocks /\ RestingCalls /\ StraysAreLoops

LEMMA UsersAre ==
    /\ "loop" \in Users /\ "settings" \in Users /\ Writers \subseteq Users
    /\ "free" \notin Users
    /\ \A w \in Writers : w # "loop" /\ w # "settings"
    /\ \A w \in Writers : Len(Recipes[w]) \in Nat /\ 1 <= Len(Recipes[w])
<1>1. \A w \in Writers : Recipes[w] \in Seq([slots : BOOLEAN, words : Nat]) /\ Recipes[w] # <<>>
  BY HarvestAssumption
<1>2. \A w \in Writers : Len(Recipes[w]) \in Nat /\ 1 <= Len(Recipes[w])
  BY <1>1
<1> QED BY <1>2, HarvestAssumption DEF Users

LEMMA HvStarts == HvInit => HvInv
<1> SUFFICES ASSUME HvInit PROVE HvInv
  OBVIOUS
<1>1. JobsOK
  BY UsersAre DEF HvInit, JobsOK, AtRest, JobSteps
<1> QED BY <1>1, UsersAre DEF HvInit, HvInv, LoggerTypes, LockIsOpen, OpenLocks, RestingCalls,
           StraysAreLoops

\* Who locks does not change with the jobs of others.
LEMMA SameLocks ==
    ASSUME NEW c, UNCHANGED job
    PROVE  Locks(c)' <=> Locks(c)
BY DEF Locks, ReadsWords, Recipe

LEMMA ConnectKeeps == ASSUME HvInv, NEW c \in Users, Connect(c) PROVE HvInv'
<1>1. UNCHANGED <<ticker, due, spec, request, job>> /\ call' = [call EXCEPT ![c] = "open"]
      /\ call[c] = "waiting" /\ (Locks(c) => lock = "free")
      /\ lock' = (IF Locks(c) THEN c ELSE lock)
  BY DEF Connect
<1>2. LoggerTypes'
  BY <1>1 DEF HvInv, LoggerTypes, JobsOK
<1>3. LockIsOpen'
  BY <1>1 DEF HvInv, LoggerTypes, LockIsOpen
<1>4. OpenLocks'
  <2> SUFFICES ASSUME NEW d \in Users, call'[d] = "open", Locks(d) PROVE lock' = d
    BY <1>1, SameLocks DEF OpenLocks
  <2>1. CASE d = c
    BY <1>1, <2>1
  <2>2. CASE d # c
    <3>1. lock = d
      BY <1>1, <2>2 DEF HvInv, LoggerTypes, OpenLocks
    <3> QED BY <1>1, <3>1, UsersAre
  <2> QED BY <2>1, <2>2
<1>5. RestingCalls' /\ StraysAreLoops'
  BY <1>1, UsersAre DEF HvInv, LoggerTypes, RestingCalls, StraysAreLoops
<1> QED BY <1>2, <1>3, <1>4, <1>5 DEF HvInv

\* A call that ends frees the lock it holds, whatever its caller does next.
LEMMA CloseFrees ==
    ASSUME HvInv, NEW c \in Users, NEW next \in {"none", "waiting"}, Closes(c, next),
           \A d \in Users \ {c} : Locks(d)' <=> Locks(d)
    PROVE  /\ lock' \in Users \cup {"free"}
           /\ call' \in [Users -> {"none", "waiting", "open", "stray"}]
           /\ LockIsOpen' /\ OpenLocks'
<1>1. call' = [call EXCEPT ![c] = next] /\ lock' = IF lock = c THEN "free" ELSE lock
  BY DEF Closes
<1>2. call' \in [Users -> {"none", "waiting", "open", "stray"}] /\ lock' \in Users \cup {"free"}
  BY <1>1 DEF HvInv, LoggerTypes
<1>3. LockIsOpen'
  BY <1>1 DEF HvInv, LoggerTypes, LockIsOpen
<1>4. OpenLocks'
  BY <1>1 DEF HvInv, LoggerTypes, OpenLocks
<1> QED BY <1>2, <1>3, <1>4

\* A step that touches no lock and no open connection.
LEMMA NoneOpened ==
    ASSUME HvInv, UNCHANGED lock, call' \in [Users -> {"none", "waiting", "open", "stray"}],
           \A c \in Users : call'[c] # call[c] => call[c] # "open" /\ call'[c] # "open",
           \A c \in Users : call[c] = "open" => (Locks(c)' <=> Locks(c))
    PROVE  LockIsOpen' /\ OpenLocks'
BY DEF HvInv, LoggerTypes, LockIsOpen, OpenLocks

LEMMA AcquiresType ==
    ASSUME NEW req \in [PanelReads -> {"none", "refused", "waiting", "taken", "answered"}]
    PROVE  Answers(req) \in [PanelReads -> {"none", "refused", "waiting", "taken", "answered"}]
BY DEF Answers

LEMMA BeginTickKeeps ==
    ASSUME HvInv, BeginTick, ticker \in {"top", "wait"}, UNCHANGED <<lock, spec, job>>,
           due' \in BOOLEAN
    PROVE  HvInv'
<1>1. call["loop"] = "none"
  BY DEF HvInv, RestingCalls
<1>2. Acquires \in [PanelReads -> {"none", "refused", "waiting", "taken", "answered"}]
  BY DEF HvInv, LoggerTypes, Acquires
<1>3. request' \in [PanelReads -> {"none", "refused", "waiting", "taken", "answered"}]
  BY <1>2, AcquiresType DEF BeginTick
<1>4. \/ ticker' = "tick" /\ call' = [call EXCEPT !["loop"] = "waiting"]
      \/ ticker' = "wait" /\ call' = call
  BY DEF BeginTick
<1>5. LoggerTypes'
  BY <1>3, <1>4 DEF HvInv, LoggerTypes, JobsOK
<1>6. LockIsOpen' /\ OpenLocks'
  BY <1>1, <1>4, <1>5, SameLocks, NoneOpened, UsersAre DEF HvInv, LoggerTypes
<1>7. RestingCalls' /\ StraysAreLoops'
  BY <1>1, <1>4, UsersAre DEF HvInv, LoggerTypes, RestingCalls, StraysAreLoops
<1> QED BY <1>5, <1>6, <1>7 DEF HvInv

LEMMA LoopKeeps ==
    ASSUME HvInv, RegularTick \/ EndTick \/ SleepOver \/ WaitOver \/ Unload \/ StrayEnds
    PROVE  HvInv'
<1>1. CASE RegularTick
  BY <1>1, BeginTickKeeps DEF RegularTick
<1>2. CASE EndTick
  <2>1. UNCHANGED <<due, spec, job>> /\ Closes("loop", "none") /\ ticker' = "wait"
        /\ request' = Answers(request) /\ call' = [call EXCEPT !["loop"] = "none"]
    BY <1>2 DEF EndTick, Closes
  <2>2. \A d \in Users : Locks(d)' <=> Locks(d)
    BY <2>1, SameLocks
  <2>3. LockIsOpen' /\ OpenLocks' /\ lock' \in Users \cup {"free"}
        /\ call' \in [Users -> {"none", "waiting", "open", "stray"}]
    BY <2>1, <2>2, CloseFrees, UsersAre
  <2>4. LoggerTypes'
    BY <2>1, <2>3, AcquiresType DEF HvInv, LoggerTypes, JobsOK
  <2>5. ticker # "gone" \/ call["loop"] = "open"
    BY <1>2 DEF EndTick, Closes
  <2>6. RestingCalls' /\ StraysAreLoops'
    BY <2>1, UsersAre DEF HvInv, LoggerTypes, RestingCalls, StraysAreLoops
  <2> QED BY <2>3, <2>4, <2>6 DEF HvInv
<1>3. CASE SleepOver
  <2>1. UNCHANGED <<lock, call, ticker, spec, request, job>> /\ due' = TRUE
    BY <1>3 DEF SleepOver
  <2>2. LockIsOpen' /\ OpenLocks'
    BY <2>1, SameLocks, NoneOpened DEF HvInv, LoggerTypes
  <2> QED BY <2>1, <2>2 DEF HvInv, LoggerTypes, JobsOK, RestingCalls, StraysAreLoops
<1>4. CASE WaitOver
  <2>1. CASE due /\ ticker' = "top" /\ UNCHANGED <<call, request>>
    <3>1. UNCHANGED <<lock, call, due, spec, request, job>> /\ ticker' = "top" /\ ticker = "wait"
      BY <1>4, <2>1 DEF WaitOver
    <3>2. LockIsOpen' /\ OpenLocks'
      BY <3>1, SameLocks, NoneOpened DEF HvInv, LoggerTypes
    <3> QED BY <3>1, <3>2 DEF HvInv, LoggerTypes, JobsOK, RestingCalls, StraysAreLoops
  <2>2. CASE BeginTick
    BY <1>4, <2>2, BeginTickKeeps DEF WaitOver, HvInv, LoggerTypes
  <2> QED BY <1>4, <2>1, <2>2 DEF WaitOver
<1>5. CASE Unload
  <2>1. /\ ticker' = "gone" /\ request' = Answers(request) /\ UNCHANGED <<due, spec, job>>
        /\ lock' = (IF lock = "loop" THEN "free" ELSE lock)
        /\ call' = [call EXCEPT !["loop"] = IF call["loop"] = "open" THEN "stray" ELSE "none"]
    BY <1>5 DEF Unload
  <2>2. LoggerTypes'
    BY <2>1, AcquiresType DEF HvInv, LoggerTypes, JobsOK
  <2>3. LockIsOpen'
    BY <2>1, UsersAre DEF HvInv, LoggerTypes, LockIsOpen
  <2>4. OpenLocks'
    BY <2>1, SameLocks, UsersAre DEF HvInv, LoggerTypes, OpenLocks
  <2>5. RestingCalls' /\ StraysAreLoops'
    BY <2>1, UsersAre DEF HvInv, LoggerTypes, RestingCalls, StraysAreLoops
  <2> QED BY <2>2, <2>3, <2>4, <2>5 DEF HvInv
<1>6. CASE StrayEnds
  <2>1. /\ UNCHANGED <<lock, ticker, due, spec, request, job>> /\ call["loop"] = "stray"
        /\ call' = [call EXCEPT !["loop"] = "none"]
    BY <1>6 DEF StrayEnds
  <2>2. LoggerTypes'
    BY <2>1 DEF HvInv, LoggerTypes, JobsOK
  <2>3. LockIsOpen' /\ OpenLocks'
    BY <2>1, <2>2, SameLocks, NoneOpened, UsersAre DEF HvInv, LoggerTypes
  <2>4. RestingCalls' /\ StraysAreLoops'
    BY <2>1, UsersAre DEF HvInv, LoggerTypes, RestingCalls, StraysAreLoops
  <2> QED BY <2>2, <2>3, <2>4 DEF HvInv
<1> QED BY <1>1, <1>2, <1>3, <1>4, <1>5, <1>6

LEMMA PanelKeeps == ASSUME HvInv, NEW a \in PanelReads, Request(a) PROVE HvInv'
<1>1. UNCHANGED <<lock, call, ticker, due, spec, job>>
      /\ request' \in [PanelReads -> {"none", "refused", "waiting", "taken", "answered"}]
  BY DEF Request, HvInv, LoggerTypes
<1>2. LockIsOpen' /\ OpenLocks'
  BY <1>1, SameLocks, NoneOpened DEF HvInv, LoggerTypes
<1> QED BY <1>1, <1>2 DEF HvInv, LoggerTypes, JobsOK, RestingCalls, StraysAreLoops

LEMMA SettingsReadsKeep == HvInv /\ (SettingsRead \/ SettingsDone) => HvInv'
<1> SUFFICES ASSUME HvInv, SettingsRead \/ SettingsDone PROVE HvInv'
  OBVIOUS
<1>1. UNCHANGED <<ticker, due, spec, request, job>>
  BY DEF SettingsRead, SettingsDone
<1>2. \A d \in Users : Locks(d)' <=> Locks(d)
  BY <1>1, SameLocks
<1>3. PICK next \in {"none", "waiting"} : call' = [call EXCEPT !["settings"] = next]
  BY DEF SettingsRead, SettingsDone, Closes
<1>4. LockIsOpen' /\ OpenLocks' /\ lock' \in Users \cup {"free"}
      /\ call' \in [Users -> {"none", "waiting", "open", "stray"}]
  <2>1. CASE SettingsRead
    <3>1. UNCHANGED lock /\ call["settings"] = "none"
          /\ call' = [call EXCEPT !["settings"] = "waiting"]
      BY <2>1 DEF SettingsRead
    <3>2. call' \in [Users -> {"none", "waiting", "open", "stray"}]
      BY <3>1 DEF HvInv, LoggerTypes
    <3> QED BY <1>2, <3>1, <3>2, NoneOpened, UsersAre DEF HvInv, LoggerTypes
  <2>2. CASE SettingsDone
    BY <1>2, <2>2, CloseFrees, UsersAre DEF SettingsDone
  <2> QED BY <2>1, <2>2
<1>5. LoggerTypes'
  BY <1>1, <1>4 DEF HvInv, LoggerTypes, JobsOK
<1>6. RestingCalls' /\ StraysAreLoops'
  BY <1>1, <1>3, UsersAre DEF HvInv, LoggerTypes, RestingCalls, StraysAreLoops
<1> QED BY <1>4, <1>5, <1>6 DEF HvInv

-----------------------------------------------------------------------------
(* The commands. *)

\* What a step of one command changes, and what it leaves to be shown.
LEMMA CommandMoves ==
    ASSUME HvInv, NEW w \in Writers, NEW to \in [step : JobSteps, nth : Nat, done : Nat],
           NEW next \in {"none", "waiting", "open", "stray"},
           UNCHANGED <<ticker, due, spec, request>>,
           job' = [job EXCEPT ![w] = to], to.nth <= Len(Recipes[w]),
           call' = [call EXCEPT ![w] = next],
           next # "stray", to.step \notin AtWork => next = "none",
           lock' \in Users \cup {"free"}, LockIsOpen', OpenLocks'
    PROVE  HvInv'
<1>1. LoggerTypes'
  BY UsersAre DEF HvInv, LoggerTypes, JobsOK
<1>2. RestingCalls' /\ StraysAreLoops'
  BY UsersAre DEF HvInv, LoggerTypes, JobsOK, RestingCalls, StraysAreLoops
<1> QED BY <1>1, <1>2 DEF HvInv

LEMMA OthersLock ==
    ASSUME HvInv, NEW w \in Writers, NEW to, job' = [job EXCEPT ![w] = to]
    PROVE  \A d \in Users \ {w} : Locks(d)' <=> Locks(d)
<1>1. \A d \in Writers \ {w} : job'[d] = job[d]
  BY DEF HvInv, LoggerTypes, JobsOK
<1> QED BY <1>1 DEF Locks, ReadsWords, Recipe

LEMMA CommandCloses ==
    ASSUME HvInv, NEW w \in Writers, NEW to \in [step : JobSteps, nth : Nat, done : Nat],
           NEW next \in {"none", "waiting"},
           UNCHANGED <<ticker, due, spec, request>>,
           job' = [job EXCEPT ![w] = to], to.nth <= Len(Recipes[w]),
           Closes(w, next), to.step \notin AtWork => next = "none"
    PROVE  HvInv'
<1>1. call' = [call EXCEPT ![w] = next]
  BY DEF Closes
<1>2. LockIsOpen' /\ OpenLocks' /\ lock' \in Users \cup {"free"}
  BY OthersLock, CloseFrees, UsersAre
<1> QED BY <1>1, <1>2, CommandMoves

LEMMA CommandKeeps ==
    ASSUME HvInv, NEW w \in Writers,
           Dispatch(w) \/ ReadPrior(w) \/ WriteWord(w) \/ WritesDone(w) \/ Verify(w)
    PROVE  HvInv'
<1> DEFINE j == job[w]
<1>1. /\ j \in [step : JobSteps, nth : Nat, done : Nat] /\ j.nth <= Len(Recipes[w])
      /\ job \in [Writers -> [step : JobSteps, nth : Nat, done : Nat]]
      /\ UNCHANGED <<ticker, due, spec, request>>
  BY DEF HvInv, LoggerTypes, JobsOK, Dispatch, ReadPrior, WriteWord, WritesDone, Verify
<1>2. ASSUME NEW how \in {"verified", "failed"}, Closes(w, "none"), job' = Ends(w, how)
      PROVE  HvInv'
  <2> DEFINE to == [j EXCEPT !.step = how]
  <2>1. job' = [job EXCEPT ![w] = to]
    BY <1>1, <1>2 DEF Ends
  <2>2. to \in [step : JobSteps, nth : Nat, done : Nat] /\ to.nth = j.nth
    BY <1>1 DEF JobSteps
  <2> HIDE DEF to
  <2> QED BY <1>1, <1>2, <2>1, <2>2, CommandCloses
<1>3. CASE Dispatch(w)
  <2>1. call[w] = "none"
    BY <1>3 DEF Dispatch, HvInv, RestingCalls, AtWork
  <2>2. ASSUME NEW to \in [step : JobSteps, nth : Nat, done : Nat], job' = [job EXCEPT ![w] = to],
               NEW next \in {"none", "waiting"}, call' = [call EXCEPT ![w] = next],
               to.nth <= Len(Recipes[w]), to.step \notin AtWork => next = "none"
        PROVE  HvInv'
    <3>1. UNCHANGED lock
      BY <1>3 DEF Dispatch
    <3>2. call' \in [Users -> {"none", "waiting", "open", "stray"}]
      BY <2>2 DEF HvInv, LoggerTypes
    <3>3. \A c \in Users : call'[c] # call[c] => call[c] # "open" /\ call'[c] # "open"
      BY <2>1, <2>2 DEF HvInv, LoggerTypes
    <3>4. \A c \in Users : call[c] = "open" => (Locks(c)' <=> Locks(c))
      BY <2>1, <2>2, OthersLock
    <3>5. LockIsOpen' /\ OpenLocks' /\ lock' \in Users \cup {"free"}
      BY <3>1, <3>2, <3>3, <3>4, NoneOpened DEF HvInv, LoggerTypes
    <3> QED BY <1>1, <2>2, <3>5, CommandMoves
  <2>3. CASE ~spec
    <3> DEFINE to == [j EXCEPT !.step = "failed"]
    <3>1. job' = [job EXCEPT ![w] = to] /\ call' = [call EXCEPT ![w] = "none"]
      BY <1>1, <1>3, <2>1, <2>3 DEF Dispatch, Ends, HvInv, LoggerTypes
    <3>2. to \in [step : JobSteps, nth : Nat, done : Nat] /\ to.nth = j.nth
      BY <1>1 DEF JobSteps
    <3> HIDE DEF to
    <3> QED BY <1>1, <2>2, <3>1, <3>2
  <2>4. CASE spec
    <3> DEFINE to == [j EXCEPT !.step = "prior", !.nth = 1]
    <3>1. job' = [job EXCEPT ![w] = to] /\ call' = [call EXCEPT ![w] = "waiting"]
      BY <1>1, <1>3, <2>4 DEF Dispatch
    <3>2. to \in [step : JobSteps, nth : Nat, done : Nat] /\ to.nth = 1 /\ to.step = "prior"
      BY <1>1 DEF JobSteps
    <3>3. to.nth <= Len(Recipes[w]) /\ to.step \in AtWork
      BY <3>2, UsersAre DEF AtWork
    <3> HIDE DEF to
    <3> QED BY <2>2, <3>1, <3>2, <3>3
  <2> QED BY <2>3, <2>4
<1>4. CASE ReadPrior(w)
  <2>1. CASE Closes(w, "waiting") /\ job' = [job EXCEPT ![w].step = "write", ![w].done = 0]
    <3> DEFINE to == [j EXCEPT !.step = "write", !.done = 0]
    <3>1. job' = [job EXCEPT ![w] = to]
      BY <1>1, <2>1
    <3>2. to \in [step : JobSteps, nth : Nat, done : Nat] /\ to.nth = j.nth /\ to.step \in AtWork
      BY <1>1 DEF JobSteps, AtWork
    <3> HIDE DEF to
    <3> QED BY <1>1, <2>1, <3>1, <3>2, CommandCloses
  <2> QED BY <1>2, <1>4, <2>1 DEF ReadPrior
<1>5. CASE WriteWord(w)
  <2> DEFINE to == [j EXCEPT !.done = @ + 1]
  <2>1. job' = [job EXCEPT ![w] = to] /\ UNCHANGED <<lock, call>> /\ call[w] = "open"
        /\ j.step = "write"
    BY <1>1, <1>5 DEF WriteWord
  <2>2. to \in [step : JobSteps, nth : Nat, done : Nat] /\ to.nth = j.nth /\ to.step = j.step
    BY <1>1
  <2> HIDE DEF to
  <2>3. Locks(w)' <=> Locks(w)
    BY <1>1, <2>1, <2>2, UsersAre DEF Locks, ReadsWords, Recipe
  <2>4. \A d \in Users : Locks(d)' <=> Locks(d)
    BY <2>1, <2>3, OthersLock
  <2>5. LockIsOpen' /\ OpenLocks' /\ lock' \in Users \cup {"free"}
    BY <2>1, <2>4, NoneOpened DEF HvInv, LoggerTypes
  <2>6. call' = [call EXCEPT ![w] = "open"] /\ to.step \in AtWork
    BY <2>1, <2>2 DEF HvInv, LoggerTypes, AtWork
  <2> QED BY <1>1, <2>1, <2>2, <2>5, <2>6, CommandMoves
<1>6. CASE WritesDone(w)
  <2>1. CASE Closes(w, "waiting") /\ job' = [job EXCEPT ![w].step = "verify"]
    <3> DEFINE to == [j EXCEPT !.step = "verify"]
    <3>1. job' = [job EXCEPT ![w] = to]
      BY <1>1, <2>1
    <3>2. to \in [step : JobSteps, nth : Nat, done : Nat] /\ to.nth = j.nth /\ to.step \in AtWork
      BY <1>1 DEF JobSteps, AtWork
    <3> HIDE DEF to
    <3> QED BY <1>1, <2>1, <3>1, <3>2, CommandCloses
  <2> QED BY <1>2, <1>6, <2>1 DEF WritesDone
<1>7. CASE Verify(w)
  <2>1. CASE /\ j.nth < Len(Recipes[w]) /\ Closes(w, "waiting")
             /\ job' = [job EXCEPT ![w].step = "prior", ![w].nth = @ + 1]
    <3> DEFINE set == [j EXCEPT !.step = "prior"]
               to == [set EXCEPT !.nth = @ + 1]
    <3>0. set \in [step : JobSteps, nth : Nat, done : Nat] /\ set.nth = j.nth
          /\ set.step = "prior"
      BY <1>1 DEF JobSteps
    <3>1. job' = [job EXCEPT ![w] = to]
      BY <1>1, <2>1
    <3> HIDE DEF set
    <3>2. /\ to \in [step : JobSteps, nth : Nat, done : Nat] /\ to.nth = j.nth + 1
          /\ to.step \in AtWork
      BY <3>0, <1>1 DEF AtWork
    <3>3. to.nth <= Len(Recipes[w])
      BY <1>1, <2>1, <3>2, UsersAre
    <3> HIDE DEF to
    <3> QED BY <1>1, <2>1, <3>1, <3>2, <3>3, CommandCloses
  <2> QED BY <1>2, <1>7, <2>1 DEF Verify
<1> QED BY <1>3, <1>4, <1>5, <1>6, <1>7

LEMMA HvStays == HvInv /\ [HvNext]_hvVars => HvInv'
<1> SUFFICES ASSUME HvInv, [HvNext]_hvVars PROVE HvInv'
  OBVIOUS
<1>1. CASE UNCHANGED hvVars
  <2>1. UNCHANGED <<lock, call, ticker, due, spec, request, job>>
    BY <1>1 DEF hvVars
  <2>2. LockIsOpen' /\ OpenLocks'
    BY <2>1, SameLocks, NoneOpened DEF HvInv, LoggerTypes
  <2> QED BY <2>1, <2>2 DEF HvInv, LoggerTypes, JobsOK, RestingCalls, StraysAreLoops
<1> QED BY <1>1, ConnectKeeps, LoopKeeps, PanelKeeps, SettingsReadsKeep, CommandKeeps DEF HvNext

LEMMA HvInvariant == HvSpec => []HvInv
BY HvStarts, HvStays, PTL DEF HvSpec

\* The lock, the calls and the commands of a logger are well typed.
THEOREM LoggerTypeCorrect == HvSpec => []HvTypeOK
<1>1. HvInv => HvTypeOK
  BY UsersAre DEF HvInv, LoggerTypes, JobsOK, JobSteps, HvTypeOK
<1> QED BY <1>1, HvInvariant, PTL

\* Whatever commands, polls, settings reads and panel requests interleave, fail or
\* are cancelled, two calls that take the logger's lock never have it open at once.
THEOREM LockKeepsApart == HvSpec => []LockedNeverMeet
<1>1. HvInv => LockedNeverMeet
  BY DEF HvInv, LockedNeverMeet, Opened, OpenLocks, StraysAreLoops
<1> QED BY <1>1, HvInvariant, PTL

(***************************************************************************)
(* BmsRoster.                                                              *)
(***************************************************************************)

Rosters == [gen : Nat, n : Nat, set : Sets, last : Nat \X Nat]
TaskSteps == {"idle", "change", "look", "regenerate", "read", "supersede", "enqueue", "stamp"}
Delivering == {"supersede", "enqueue", "stamp"}
Tasks == [at : TaskSteps, ask : Asks \cup {<<>>}, todo : SUBSET Boards, force : BOOLEAN,
          to : Boards \cup {"none"}, read : Rosters, held : BOOLEAN]
TaskOK(t) == /\ t \in Tasks
             /\ t.at = "change" => t.ask \in Asks
             /\ t.at \in Delivering => t.to \in Boards

RosterTypes ==
    /\ roster \in [Boards -> Rosters] /\ reported \in [Boards -> Rosters]
    /\ imported \subseteq Packs /\ pendingImports \subseteq Boards \X Packs
    /\ queue \in [Boards -> Seq(Entries)] /\ box \in [Boards -> Entries]
    /\ task = [x \in Boards \cup Views |-> task[x]]
    /\ \A x \in Boards \cup Views : TaskOK(task[x])
    /\ generations \in Nat
    /\ count \in [changes : 0..MaxChanges, losses : 0..MaxLosses]

\* What a box holds, is sent or said, against a roster r where g generations
\* were made: it is the roster's, or older, or of another generation; without
\* a roster, it is what the cloud gave.
Older(r, g, e) ==
    /\ e.gen \in 1..g
    /\ r = NoRoster => e.gen = 1 /\ e.n = 1
    /\ r # NoRoster /\ e.gen = r.gen => /\ e.n <= r.n
                                        /\ e.n = r.n => e.set = r.set
EpochInv ==
    /\ generations >= 1
    /\ \A b \in Boards :
          /\ Managed(b) => roster[b].gen \in 1..generations
          /\ Older(roster[b], generations, box[b])
          /\ reported[b] # NoRoster => Older(roster[b], generations, reported[b])
          /\ \A i \in DOMAIN queue[b] : Older(roster[b], generations, queue[b][i])
          /\ ~Managed(b) => queue[b] = <<>>
    /\ \A x \in Boards \cup Views : task[x].at \in Delivering =>
          roster[task[x].to] # NoRoster /\ Older(roster[task[x].to], generations, task[x].read)
RosterInv == RosterTypes /\ (restored = {} => EpochInv)

-----------------------------------------------------------------------------
(* Rosters, tasks and sets have their shape. *)

LEMMA NoRosterIs ==
    /\ NoRoster \in Rosters /\ NoRoster.gen = 0 /\ NoRoster.n = 0
    /\ NoRoster.set \in Sets /\ \A p \in Packs : NoRoster.set[p] = "none"
BY DEF NoRoster, Rosters, NoEpoch, Sets

LEMMA NoTaskIs == TaskOK(NoTask) /\ NoTask.at \notin Delivering
BY NoRosterIs DEF NoTask, TaskOK, Tasks, TaskSteps, Delivering

LEMMA AskedIs ==
    ASSUME NEW ask \in Asks, NEW r \in Rosters, NEW h \in BOOLEAN
    PROVE  LET t == [NoTask EXCEPT !.at = "change", !.ask = ask, !.read = r, !.held = h]
           IN  TaskOK(t) /\ t.at \notin Delivering
BY NoRosterIs DEF NoTask, TaskOK, Tasks, TaskSteps, Delivering

LEMMA DeliveryIs ==
    ASSUME NEW T \in SUBSET Boards, NEW f \in BOOLEAN
    PROVE  LET t == [NoTask EXCEPT !.at = "read", !.todo = T, !.force = f]
           IN  TaskOK(t) /\ t.at \notin Delivering
BY NoRosterIs DEF NoTask, TaskOK, Tasks, TaskSteps, Delivering

LEMMA LookIs ==
    ASSUME NEW r \in Rosters
    PROVE  LET t == [NoTask EXCEPT !.at = "look", !.read = r]
           IN  TaskOK(t) /\ t.at \notin Delivering
BY NoRosterIs DEF NoTask, TaskOK, Tasks, TaskSteps, Delivering

LEMMA ComparedIs ==
    ASSUME NEW T \in SUBSET Boards, NEW to \in {"regenerate", "read"}
    PROVE  LET t == [NoTask EXCEPT !.at = to, !.todo = T]
           IN  TaskOK(t) /\ t.at \notin Delivering
BY NoRosterIs DEF NoTask, TaskOK, Tasks, TaskSteps, Delivering

LEMMA SendingIs ==
    ASSUME NEW t, TaskOK(t), t.at \in Delivering, NEW to \in {"enqueue", "stamp"}
    PROVE  LET u == [t EXCEPT !.at = to]
           IN  TaskOK(u) /\ u.to = t.to /\ u.read = t.read
BY DEF TaskOK, Tasks, TaskSteps, Delivering

LEMMA RedrivenIs ==
    ASSUME NEW t, TaskOK(t)
    PROVE  LET u == [t EXCEPT !.at = "read", !.force = TRUE]
           IN  TaskOK(u) /\ u.at \notin Delivering
BY DEF TaskOK, Tasks, TaskSteps, Delivering

LEMMA TaskChanges ==
    ASSUME RosterTypes, NEW x \in Boards \cup Views, NEW t, TaskOK(t),
           task' = [task EXCEPT ![x] = t]
    PROVE  /\ task' = [y \in Boards \cup Views |-> task'[y]]
           /\ \A y \in Boards \cup Views : TaskOK(task'[y])
           /\ task'[x] = t /\ \A y \in (Boards \cup Views) \ {x} : task'[y] = task[y]
BY DEF RosterTypes

LEMMA CurrentIs ==
    ASSUME RosterTypes, NEW b \in Boards
    PROVE  Current(b) \in Sets
<1>1. roster[b].set \in Sets /\ reported[b].set \in Sets
  BY DEF RosterTypes, Rosters
<1> QED BY <1>1 DEF Current, Sets

LEMMA EditedIs ==
    ASSUME RosterTypes, NEW ask \in Asks, NEW c \in Boards
    PROVE  Edited(ask, c) \in Sets
<1>1. Current(c) \in Sets /\ Current(ask.of) \in Sets /\ ask.pack \in Packs
  BY CurrentIs DEF Asks
<1>2. \A x \in {"none", "auto", "own"} : [Current(c) EXCEPT ![ask.pack] = x] \in Sets
  BY <1>1 DEF Sets
<1>3. Current(ask.of)[ask.pack] \in {"none", "auto", "own"}
  BY <1>1 DEF Sets
<1> QED BY <1>1, <1>2, <1>3 DEF Edited

\* A box whose list changes gets the next n of its epoch, or a new generation.
LEMMA BaseIs ==
    ASSUME RosterTypes, NEW b \in Boards, NEW g \in Nat
    PROVE  /\ Base(b, g) \in Rosters
           /\ Managed(b) => Base(b, g) = roster[b]
           /\ ~Managed(b) /\ reported[b] # NoRoster =>
                Base(b, g).gen = reported[b].gen /\ Base(b, g).n = reported[b].n
           /\ ~Managed(b) /\ reported[b] = NoRoster => Base(b, g).gen = g /\ Base(b, g).n = 0
<1>1. roster[b] \in Rosters /\ reported[b] \in Rosters
  BY DEF RosterTypes
<1>2. /\ [reported[b] EXCEPT !.last = NoEpoch] \in Rosters
      /\ [reported[b] EXCEPT !.last = NoEpoch].gen = reported[b].gen
      /\ [reported[b] EXCEPT !.last = NoEpoch].n = reported[b].n
  BY <1>1 DEF Rosters, NoEpoch
<1>3. /\ [NoRoster EXCEPT !.gen = g] \in Rosters
      /\ [NoRoster EXCEPT !.gen = g].gen = g /\ [NoRoster EXCEPT !.gen = g].n = 0
  BY NoRosterIs DEF Rosters
<1> QED BY <1>1, <1>2, <1>3 DEF Base

LEMMA NextIs ==
    ASSUME NEW r \in Rosters, NEW set \in Sets
    PROVE  LET s == [r EXCEPT !.n = @ + 1, !.set = set]
           IN  s \in Rosters /\ s.gen = r.gen /\ s.n = r.n + 1 /\ s.set = set
<1> DEFINE m == [r EXCEPT !.n = @ + 1]
<1>1. m \in Rosters /\ m.gen = r.gen /\ m.n = r.n + 1
  BY DEF Rosters
<1> HIDE DEF m
<1>2. LET s == [m EXCEPT !.set = set]
      IN  s \in Rosters /\ s.gen = m.gen /\ s.n = m.n /\ s.set = set
  BY <1>1 DEF Rosters
<1> QED BY <1>1, <1>2 DEF m

LEMMA RewrittenIs ==
    ASSUME RosterTypes, NEW wanted \in [Boards -> Sets]
    PROVE  /\ Rewritten(wanted) \in [Boards -> Rosters]
           /\ \A b \in Boards \ Changed(wanted) : Rewritten(wanted)[b] = roster[b]
           /\ \A b \in Changed(wanted) :
                /\ Rewritten(wanted)[b].gen = Base(b, generations + 1).gen
                /\ Rewritten(wanted)[b].n = Base(b, generations + 1).n + 1
<1> DEFINE r(b) == Base(b, generations + 1)
           s(b) == [r(b) EXCEPT !.n = @ + 1, !.set = wanted[b]]
<1>1. \A b \in Boards : r(b) \in Rosters /\ roster[b] \in Rosters
  <2>1. generations + 1 \in Nat /\ \A b \in Boards : roster[b] \in Rosters
    BY DEF RosterTypes
  <2> QED BY <2>1, BaseIs
<1>3. Rewritten(wanted) = [b \in Boards |-> IF b \in Changed(wanted) THEN s(b) ELSE roster[b]]
  BY DEF Rewritten
<1> HIDE DEF r
<1>2. ASSUME NEW b \in Boards
      PROVE  s(b) \in Rosters /\ s(b).gen = r(b).gen /\ s(b).n = r(b).n + 1
  <2>1. r(b) \in Rosters /\ wanted[b] \in Sets
    BY <1>1
  <2> QED BY <2>1, NextIs
<1> HIDE DEF s
<1>4. Changed(wanted) \subseteq Boards
  BY DEF Changed
<1>5. \A b \in Changed(wanted) : Rewritten(wanted)[b].gen = r(b).gen
                                 /\ Rewritten(wanted)[b].n = r(b).n + 1
  BY <1>2, <1>3, <1>4
<1>6. /\ Rewritten(wanted) \in [Boards -> Rosters]
      /\ \A b \in Boards \ Changed(wanted) : Rewritten(wanted)[b] = roster[b]
  BY <1>1, <1>2, <1>3
<1> QED BY <1>5, <1>6 DEF r

LEMMA ReportedIs ==
    ASSUME NEW e \in Entries
    PROVE  LET r == [NoRoster EXCEPT !.gen = e.gen, !.n = e.n, !.set = e.set]
           IN  r \in Rosters /\ r.gen = e.gen /\ r.n = e.n /\ r.set = e.set
BY NoRosterIs DEF NoRoster, NoEpoch, Rosters, Entries

LEMMA RegeneratedIs ==
    ASSUME NEW r \in Rosters, NEW g \in Nat
    PROVE  LET t == [r EXCEPT !.gen = g, !.n = 1]
           IN  t \in Rosters /\ t.gen = g /\ t.n = 1
<1> DEFINE m == [r EXCEPT !.gen = g]
<1>1. m \in Rosters /\ m.gen = g
  BY DEF Rosters
<1> HIDE DEF m
<1>2. LET t == [m EXCEPT !.n = 1]
      IN  t \in Rosters /\ t.gen = m.gen /\ t.n = 1
  BY <1>1 DEF Rosters
<1> QED BY <1>1, <1>2 DEF m

LEMMA ReportAppliesIs ==
    ASSUME NEW r \in Rosters, NEW set \in Sets
    PROVE  LET t == [r EXCEPT !.set = set, !.n = @ + 1]
           IN  t \in Rosters /\ t.gen = r.gen /\ t.n = r.n + 1
<1> DEFINE m == [r EXCEPT !.set = set]
<1>1. m \in Rosters /\ m.gen = r.gen /\ m.n = r.n
  BY DEF Rosters
<1> HIDE DEF m
<1>2. LET t == [m EXCEPT !.n = @ + 1]
      IN  t \in Rosters /\ t.gen = m.gen /\ t.n = m.n + 1
  BY <1>1 DEF Rosters
<1> QED BY <1>1, <1>2 DEF m

LEMMA StampedIs ==
    ASSUME NEW r \in Rosters, NEW s \in Rosters
    PROVE  LET t == [r EXCEPT !.last = Epoch(s)]
           IN  t \in Rosters /\ t.gen = r.gen /\ t.n = r.n /\ t.set = r.set
BY DEF Rosters, Epoch

-----------------------------------------------------------------------------
(* What is older stays older, as a roster grows. *)

Grown(r, s, g, h) ==
    \/ s = r
    \/ r # NoRoster /\ s.gen = r.gen /\ s.n = r.n /\ s.set = r.set
    \/ r # NoRoster /\ s.gen = r.gen /\ s.n > r.n
    \/ r = NoRoster /\ s.gen = 1 /\ s.n > 1
    \/ s.gen > g /\ s.gen <= h

LEMMA OlderStays ==
    ASSUME NEW r \in Rosters, NEW s \in Rosters, NEW g \in Nat \ {0}, NEW h \in Nat, g <= h,
           Grown(r, s, g, h), r # NoRoster => r.gen \in 1..g
    PROVE  /\ s # NoRoster => s.gen \in 1..h
           /\ r # NoRoster => s # NoRoster
           /\ \A e : e.n \in Nat /\ Older(r, g, e) => Older(s, h, e)
<1>1. /\ r.gen \in Nat /\ r.n \in Nat /\ s.gen \in Nat /\ s.n \in Nat
      /\ s.gen # 0 => s # NoRoster
  BY NoRosterIs DEF Rosters
<1>2. /\ s # NoRoster => s.gen \in 1..h
      /\ r # NoRoster => s # NoRoster
  BY <1>1 DEF Grown
<1>3. ASSUME NEW e, e.n \in Nat, Older(r, g, e) PROVE Older(s, h, e)
  <2>1. e.gen \in 1..g /\ e.gen \in 1..h /\ e.gen \in Nat
    BY <1>3 DEF Older
  <2>2. CASE s = r
    BY <1>3, <2>1, <2>2 DEF Older
  <2>3. CASE r # NoRoster /\ s.gen = r.gen
    <3>1. e.gen = r.gen => e.n <= r.n /\ (e.n = r.n => e.set = r.set)
      BY <1>3, <2>3 DEF Older
    <3>2. CASE s.n = r.n /\ s.set = r.set
      BY <1>2, <2>1, <2>3, <3>1, <3>2 DEF Older
    <3>3. CASE s.n > r.n
      BY <1>1, <1>2, <1>3, <2>1, <2>3, <3>1, <3>3 DEF Older
    <3>4. CASE s.gen > g
      BY <1>1, <2>3, <3>4
    <3> QED BY <2>3, <3>2, <3>3, <3>4, <2>2 DEF Grown
  <2>4. CASE r = NoRoster /\ s.gen = 1 /\ s.n > 1
    BY <1>1, <1>3, <2>1, <2>4 DEF Older
  <2>5. CASE s.gen > g /\ s.gen <= h
    BY <1>1, <1>2, <2>1, <2>5 DEF Older
  <2> QED BY <2>2, <2>3, <2>4, <2>5 DEF Grown
<1> QED BY <1>2, <1>3

LEMMA EpochsStay ==
    ASSUME RosterTypes, RosterTypes', EpochInv, generations <= generations',
           \A b \in Boards :
              /\ Grown(roster[b], roster'[b], generations, generations')
              /\ Older(roster[b], generations, box'[b])
              /\ reported'[b] # NoRoster => Older(roster[b], generations, reported'[b])
              /\ \A i \in DOMAIN queue'[b] : Older(roster[b], generations, queue'[b][i])
              /\ ~Managed(b) => queue'[b] = <<>>,
           \A x \in Boards \cup Views : task'[x].at \in Delivering =>
              /\ roster[task'[x].to] # NoRoster
              /\ Older(roster[task'[x].to], generations, task'[x].read)
    PROVE  EpochInv'
<1>1. /\ generations \in Nat \ {0} /\ generations' \in Nat
      /\ \A b \in Boards : roster[b] # NoRoster => roster[b].gen \in 1..generations
      /\ \A b \in Boards : roster[b] \in Rosters /\ roster'[b] \in Rosters
  BY DEF RosterTypes, EpochInv, Managed
<1>2. \A b \in Boards :
         /\ roster'[b] # NoRoster => roster'[b].gen \in 1..generations'
         /\ roster[b] # NoRoster => roster'[b] # NoRoster
         /\ \A e : e.n \in Nat /\ Older(roster[b], generations, e)
                       => Older(roster'[b], generations', e)
  BY <1>1, OlderStays
<1>3. ASSUME NEW b \in Boards
      PROVE  /\ Managed(b)' => roster'[b].gen \in 1..generations'
             /\ Older(roster'[b], generations', box'[b])
             /\ reported'[b] # NoRoster => Older(roster'[b], generations', reported'[b])
             /\ \A i \in DOMAIN queue'[b] : Older(roster'[b], generations', queue'[b][i])
             /\ ~Managed(b)' => queue'[b] = <<>>
  <2>1. /\ box'[b].n \in Nat /\ reported'[b].n \in Nat
        /\ \A i \in DOMAIN queue'[b] : queue'[b][i].n \in Nat
    <3>1. box'[b] \in Entries /\ reported'[b] \in Rosters /\ queue'[b] \in Seq(Entries)
      BY DEF RosterTypes
    <3>2. \A i \in DOMAIN queue'[b] : queue'[b][i] \in Entries
      BY <3>1
    <3>3. \A e \in Entries : e.n \in Nat
      BY DEF Entries
    <3>4. \A e \in Rosters : e.n \in Nat
      BY DEF Rosters
    <3> QED BY <3>1, <3>2, <3>3, <3>4
  <2>2. Managed(b)' => roster'[b].gen \in 1..generations'
    BY <1>2 DEF Managed
  <2>3. ~Managed(b)' => queue'[b] = <<>>
    BY <1>2 DEF Managed
  <2> QED BY <1>2, <2>1, <2>2, <2>3
<1>4. ASSUME NEW x \in Boards \cup Views, task'[x].at \in Delivering
      PROVE  /\ roster'[task'[x].to] # NoRoster
             /\ Older(roster'[task'[x].to], generations', task'[x].read)
  <2>1. task'[x].to \in Boards /\ task'[x].read.n \in Nat
    BY <1>4 DEF RosterTypes, TaskOK, Tasks, Rosters
  <2>2. roster'[task'[x].to] # NoRoster
    BY <1>2, <1>4, <2>1
  <2>3. Older(roster'[task'[x].to], generations', task'[x].read)
    BY <1>2, <1>4, <2>1
  <2> QED BY <2>2, <2>3
<1>5. generations' >= 1
  BY <1>1
<1> QED BY <1>3, <1>4, <1>5 DEF EpochInv

-----------------------------------------------------------------------------
(* The steps. *)

LEMMA RosterStarts == RosterInit => RosterInv
<1> SUFFICES ASSUME RosterInit PROVE RosterInv
  OBVIOUS
<1>1. PICK sets \in [Boards -> Sets] :
         /\ box = [b \in Boards |->
                     [gen |-> 1, n |-> IF b \in restored THEN 2 ELSE 1, set |-> sets[b]]]
         /\ roster = [b \in Boards |->
                IF b \notin restored THEN NoRoster
                ELSE [gen |-> 1, n |-> 1, last |-> <<1, 1>>, set |-> [p \in Packs |-> "none"]]]
  BY DEF RosterInit
<1>2. /\ box \in [Boards -> Entries] /\ roster \in [Boards -> Rosters]
      /\ \A b \in Boards : box[b].gen = 1 /\ (b \notin restored => box[b].n = 1)
      /\ \A b \in Boards : b \notin restored => roster[b] = NoRoster
  <2>1. [p \in Packs |-> "none"] \in Sets
    BY DEF Sets
  <2>2. [gen |-> 1, n |-> 1, last |-> <<1, 1>>, set |-> [p \in Packs |-> "none"]] \in Rosters
    BY <2>1 DEF Rosters
  <2>3. \A b \in Boards :
           [gen |-> 1, n |-> IF b \in restored THEN 2 ELSE 1, set |-> sets[b]] \in Entries
    BY <1>1 DEF Entries
  <2> QED BY <1>1, <2>2, <2>3, NoRosterIs
<1>3. /\ reported \in [Boards -> Rosters] /\ \A b \in Boards : reported[b] = NoRoster
      /\ imported \subseteq Packs /\ pendingImports \subseteq Boards \X Packs
      /\ queue \in [Boards -> Seq(Entries)] /\ \A b \in Boards : queue[b] = <<>>
      /\ generations = 1
  BY NoRosterIs DEF RosterInit
<1>4. /\ task = [x \in Boards \cup Views |-> task[x]]
      /\ \A x \in Boards \cup Views : TaskOK(task[x]) /\ task[x].at \notin Delivering
  BY NoTaskIs DEF RosterInit
<1>5. count \in [changes : 0..MaxChanges, losses : 0..MaxLosses]
  <2>1. MaxChanges \in Nat /\ MaxLosses \in Nat
    BY RosterAssumption
  <2>2. 0 \in 0..MaxChanges /\ 0 \in 0..MaxLosses
    BY <2>1
  <2> QED BY <2>2 DEF RosterInit
<1>6. RosterTypes
  BY <1>2, <1>3, <1>4, <1>5 DEF RosterTypes
<1>7. ASSUME restored = {} PROVE EpochInv
  <2>1. \A b \in Boards : roster[b] = NoRoster /\ box[b].gen = 1 /\ box[b].n = 1
    BY <1>2, <1>7
  <2>2. \A b \in Boards : /\ ~Managed(b) /\ reported[b] = NoRoster /\ queue[b] = <<>>
                          /\ DOMAIN queue[b] = {}
    BY <1>3, <2>1 DEF Managed
  <2>3. \A b \in Boards : Older(roster[b], generations, box[b])
    BY <1>3, <2>1 DEF Older
  <2>4. generations >= 1
    BY <1>3
  <2>5. \A x \in Boards \cup Views : task[x].at \notin Delivering
    BY <1>4
  <2> QED BY <2>2, <2>3, <2>4, <2>5 DEF EpochInv
<1> QED BY <1>6, <1>7 DEF RosterInv

\* A step that leaves the rosters, the boxes and their queues alone.
LEMMA TaskStep ==
    ASSUME RosterInv, NEW x \in Boards \cup Views, NEW t, TaskOK(t),
           task' = [task EXCEPT ![x] = t],
           t.at \in Delivering /\ restored = {} =>
              roster[t.to] # NoRoster /\ Older(roster[t.to], generations, t.read),
           UNCHANGED <<roster, reported, box, generations, restored>>,
           queue' \in [Boards -> Seq(Entries)],
           restored = {} => \A b \in Boards :
              /\ \A i \in DOMAIN queue'[b] : Older(roster[b], generations, queue'[b][i])
              /\ ~Managed(b) => queue'[b] = <<>>,
           imported' \subseteq Packs, pendingImports' \subseteq Boards \X Packs,
           count' \in [changes : 0..MaxChanges, losses : 0..MaxLosses]
    PROVE  RosterInv'
<1>1. RosterTypes /\ (restored = {} => EpochInv)
  BY DEF RosterInv
<1>2. /\ task' = [y \in Boards \cup Views |-> task'[y]]
      /\ \A y \in Boards \cup Views : TaskOK(task'[y])
      /\ task'[x] = t /\ \A y \in (Boards \cup Views) \ {x} : task'[y] = task[y]
  BY <1>1, TaskChanges
<1>3. RosterTypes'
  BY <1>1, <1>2 DEF RosterTypes
<1>4. ASSUME restored = {} PROVE EpochInv'
  <2>1. EpochInv /\ generations <= generations'
    <3>1. generations \in Nat /\ generations' = generations
      BY <1>1 DEF RosterTypes
    <3> QED BY <1>1, <1>4, <3>1
  <2>2. ASSUME NEW y \in Boards \cup Views, task'[y].at \in Delivering
        PROVE  /\ roster[task'[y].to] # NoRoster
               /\ Older(roster[task'[y].to], generations, task'[y].read)
    BY <1>2, <1>4, <2>1, <2>2 DEF EpochInv
  <2>3. \A b \in Boards :
           /\ Grown(roster[b], roster'[b], generations, generations')
           /\ Older(roster[b], generations, box'[b])
           /\ reported'[b] # NoRoster => Older(roster[b], generations, reported'[b])
    BY <2>1 DEF EpochInv, Grown
  <2> QED BY <1>1, <1>3, <1>4, <2>1, <2>2, <2>3, EpochsStay
<1> QED BY <1>3, <1>4 DEF RosterInv

LEMMA SameBoxes ==
    ASSUME RosterInv, UNCHANGED <<roster, generations, queue>>
    PROVE  /\ queue' \in [Boards -> Seq(Entries)]
           /\ restored = {} => \A b \in Boards :
                /\ \A i \in DOMAIN queue'[b] : Older(roster[b], generations, queue'[b][i])
                /\ ~Managed(b) => queue'[b] = <<>>
BY DEF RosterInv, RosterTypes, EpochInv

LEMMA SpendIs ==
    ASSUME RosterInv
    PROVE  /\ Spend("changes", MaxChanges) => count' \in [changes : 0..MaxChanges, losses : 0..MaxLosses]
           /\ Spend("losses", MaxLosses) => count' \in [changes : 0..MaxChanges, losses : 0..MaxLosses]
<1>1. /\ count \in [changes : 0..MaxChanges, losses : 0..MaxLosses]
      /\ MaxChanges \in Nat /\ MaxLosses \in Nat
  BY RosterAssumption DEF RosterInv, RosterTypes
<1> QED BY <1>1 DEF Spend

LEMMA SubmitKeeps == ASSUME RosterInv, NEW v \in Views, Submit(v) PROVE RosterInv'
<1>1. PICK ask \in Asks :
         task' = [task EXCEPT ![v] =
                [NoTask EXCEPT !.at = "change", !.ask = ask, !.read = roster[ask.of],
                             !.held = Current(ask.of)[ask.pack] # "none"]]
  BY DEF Submit
<1> DEFINE h == Current(ask.of)[ask.pack] # "none"
           t == [NoTask EXCEPT !.at = "change", !.ask = ask, !.read = roster[ask.of], !.held = h]
<1>2. roster[ask.of] \in Rosters /\ h \in BOOLEAN
  BY DEF RosterInv, RosterTypes, Asks
<1> HIDE DEF h
<1>3. TaskOK(t) /\ t.at \notin Delivering
  BY <1>2, AskedIs
<1>4. task' = [task EXCEPT ![v] = t]
  BY <1>1 DEF h
<1> HIDE DEF t
<1>5. /\ UNCHANGED <<roster, reported, imported, pendingImports, queue, box, generations, restored>>
      /\ Spend("changes", MaxChanges)
  BY DEF Submit
<1>6. /\ imported' \subseteq Packs /\ pendingImports' \subseteq Boards \X Packs
      /\ count' \in [changes : 0..MaxChanges, losses : 0..MaxLosses]
  BY <1>5, SpendIs DEF RosterInv, RosterTypes
<1> QED BY <1>3, <1>4, <1>5, <1>6, SameBoxes, TaskStep

LEMMA DeliveredIs ==
    ASSUME RosterInv, NEW x \in Boards \cup Views, NEW b
    PROVE  \E t : /\ TaskOK(t) /\ t.at \notin Delivering
                 /\ Delivered(x, b) = [task EXCEPT ![x] = t]
<1>1. task[x] \in Tasks
  BY DEF RosterInv, RosterTypes, TaskOK
<1>2. task[x].todo \ {b} \in SUBSET Boards /\ task[x].force \in BOOLEAN
  BY <1>1 DEF Tasks
<1>3. CASE task[x].todo = {b}
  <2>1. Delivered(x, b) = [task EXCEPT ![x] = NoTask]
    BY <1>3 DEF Delivered
  <2> QED BY <2>1, NoTaskIs
<1>4. CASE task[x].todo # {b}
  <2> DEFINE t == [NoTask EXCEPT !.at = "read", !.todo = task[x].todo \ {b},
                                !.force = task[x].force]
  <2>1. TaskOK(t) /\ t.at \notin Delivering
    BY <1>2, DeliveryIs
  <2>2. Delivered(x, b) = [task EXCEPT ![x] = t]
    BY <1>4 DEF Delivered
  <2> HIDE DEF t
  <2> QED BY <2>1, <2>2
<1> QED BY <1>3, <1>4

LEMMA ReadRosterKeeps ==
    ASSUME RosterInv, NEW x \in Boards \cup Views, NEW b \in Boards, NEW recent \in BOOLEAN,
           ReadRoster(x, b, recent)
    PROVE  RosterInv'
<1>1. UNCHANGED <<roster, reported, imported, pendingImports, queue, box, generations, count,
                  restored>>
  BY DEF ReadRoster
<1>2. /\ imported' \subseteq Packs /\ pendingImports' \subseteq Boards \X Packs
      /\ count' \in [changes : 0..MaxChanges, losses : 0..MaxLosses]
  BY <1>1 DEF RosterInv, RosterTypes
<1>3. CASE ~Managed(b) \/ (recent /\ ~task[x].force)
  <2>1. task' = Delivered(x, b)
    BY <1>3 DEF ReadRoster
  <2>2. PICK t : /\ TaskOK(t) /\ t.at \notin Delivering
                 /\ Delivered(x, b) = [task EXCEPT ![x] = t]
    BY DeliveredIs
  <2> QED BY <1>1, <1>2, <2>1, <2>2, SameBoxes, TaskStep
<1>4. CASE Managed(b) /\ ~(recent /\ ~task[x].force)
  <2> DEFINE t == [task[x] EXCEPT !.at = "supersede", !.to = b, !.read = roster[b]]
  <2>1. /\ TaskOK(task[x]) /\ roster[b] \in Rosters
        /\ task = [y \in Boards \cup Views |-> task[y]]
    BY DEF RosterInv, RosterTypes
  <2>2. TaskOK(t) /\ t.to = b /\ t.read = roster[b]
    BY <2>1 DEF TaskOK, Tasks, TaskSteps, Delivering
  <2>3. task' = [task EXCEPT ![x] = t]
    BY <1>4, <2>1 DEF ReadRoster
  <2> HIDE DEF t
  <2>4. roster[t.to] # NoRoster
    BY <1>4, <2>2 DEF Managed
  <2>5. ASSUME restored = {} PROVE Older(roster[t.to], generations, t.read)
    BY <1>4, <2>1, <2>2, <2>4, <2>5 DEF RosterInv, EpochInv, Older, Managed, Rosters
  <2> QED BY <1>1, <1>2, <2>2, <2>3, <2>4, <2>5, SameBoxes, TaskStep
<1> QED BY <1>3, <1>4

LEMMA TaskSends ==
    ASSUME RosterInv, NEW x \in Boards \cup Views, task[x].at \in Delivering,
           NEW to \in {"enqueue", "stamp"}
    PROVE  LET u == [task[x] EXCEPT !.at = to]
           IN  /\ TaskOK(u) /\ u.to = task[x].to /\ u.read = task[x].read
               /\ task[x].to \in Boards /\ task[x].read \in Rosters
               /\ restored = {} => /\ roster[u.to] # NoRoster
                                   /\ Older(roster[u.to], generations, u.read)
<1> DEFINE old == task[x]
           u == [old EXCEPT !.at = to]
<1>1. TaskOK(old) /\ old.at \in Delivering
  BY DEF RosterInv, RosterTypes
<1>2. restored = {} => /\ roster[old.to] # NoRoster
                       /\ Older(roster[old.to], generations, old.read)
  BY DEF RosterInv, EpochInv
<1> HIDE DEF old
<1>3. TaskOK(u) /\ u.to = old.to /\ u.read = old.read
  BY <1>1, SendingIs
<1>4. old.to \in Boards /\ old.read \in Rosters
  BY <1>1 DEF TaskOK, Tasks
<1> QED BY <1>2, <1>3, <1>4 DEF old

LEMMA SupersedeKeeps ==
    ASSUME RosterInv, NEW x \in Boards \cup Views, Supersede(x) PROVE RosterInv'
<1> DEFINE t == [task[x] EXCEPT !.at = "enqueue"]
<1>1. task[x].at \in Delivering
  BY DEF Supersede, Delivering
<1>2. /\ TaskOK(t) /\ task[x].to \in Boards
      /\ restored = {} => roster[t.to] # NoRoster /\ Older(roster[t.to], generations, t.read)
  BY <1>1, TaskSends
<1>3. task' = [task EXCEPT ![x] = t] /\ queue' = [queue EXCEPT ![task[x].to] = <<>>]
  BY DEF Supersede
<1> HIDE DEF t
<1>4. UNCHANGED <<roster, reported, imported, pendingImports, box, generations, count, restored>>
  BY DEF Supersede
<1>5. queue' \in [Boards -> Seq(Entries)]
      /\ \A b \in Boards : queue'[b] = queue[b] \/ (queue'[b] = <<>> /\ DOMAIN queue'[b] = {})
  BY <1>2, <1>3 DEF RosterInv, RosterTypes
<1>6. restored = {} => \A b \in Boards :
         /\ \A i \in DOMAIN queue'[b] : Older(roster[b], generations, queue'[b][i])
         /\ ~Managed(b) => queue'[b] = <<>>
  BY <1>5 DEF RosterInv, EpochInv
<1>7. /\ imported' \subseteq Packs /\ pendingImports' \subseteq Boards \X Packs
      /\ count' \in [changes : 0..MaxChanges, losses : 0..MaxLosses]
  BY <1>4 DEF RosterInv, RosterTypes
<1> QED BY <1>2, <1>3, <1>4, <1>5, <1>6, <1>7, TaskStep

LEMMA EnqueueSyncKeeps ==
    ASSUME RosterInv, NEW x \in Boards \cup Views, EnqueueSync(x) PROVE RosterInv'
<1> DEFINE t == [task[x] EXCEPT !.at = "stamp"]
           to == task[x].to
           e == Payload(x)
<1>1. task[x].at \in Delivering
  BY DEF EnqueueSync, Delivering
<1>2. /\ TaskOK(t) /\ to \in Boards /\ t.to = to /\ task[x].read \in Rosters /\ t.read = task[x].read
      /\ restored = {} => roster[t.to] # NoRoster /\ Older(roster[t.to], generations, t.read)
  BY <1>1, TaskSends
<1>3. /\ task' = [task EXCEPT ![x] = t] /\ queue' = [queue EXCEPT ![to] = Append(@, e)]
      /\ UNCHANGED <<roster, reported, imported, pendingImports, box, generations, count, restored>>
  BY DEF EnqueueSync
<1>4. e \in Entries /\ e.gen = task[x].read.gen /\ e.n = task[x].read.n /\ e.set = task[x].read.set
  BY <1>2 DEF Payload, Entries, Rosters
<1> HIDE DEF t, e
<1>5. restored = {} => Managed(to) /\ Older(roster[to], generations, e)
  BY <1>2, <1>4 DEF Older, Managed
<1>6. queue \in [Boards -> Seq(Entries)]
  BY DEF RosterInv, RosterTypes
<1> HIDE DEF to
<1>7. /\ queue' \in [Boards -> Seq(Entries)]
      /\ \A b \in Boards \ {to} : queue'[b] = queue[b]
      /\ queue'[to] = Append(queue[to], e)
  BY <1>2, <1>3, <1>4, <1>6
<1>8. \A i \in DOMAIN queue'[to] : (i \in DOMAIN queue[to] /\ queue'[to][i] = queue[to][i])
                                   \/ queue'[to][i] = e
  BY <1>2, <1>4, <1>6, <1>7
<1>9. restored = {} => \A b \in Boards :
         /\ \A i \in DOMAIN queue'[b] : Older(roster[b], generations, queue'[b][i])
         /\ ~Managed(b) => queue'[b] = <<>>
  BY <1>5, <1>7, <1>8 DEF RosterInv, EpochInv
<1>10. /\ imported' \subseteq Packs /\ pendingImports' \subseteq Boards \X Packs
       /\ count' \in [changes : 0..MaxChanges, losses : 0..MaxLosses]
  BY <1>3 DEF RosterInv, RosterTypes
<1> QED BY <1>2, <1>3, <1>7, <1>9, <1>10, TaskStep

\* A step that leaves the boxes and their queues alone.
LEMMA RosterStep ==
    ASSUME RosterInv, NEW x \in Boards \cup Views, NEW t, TaskOK(t), t.at \notin Delivering,
           task' = [task EXCEPT ![x] = t], UNCHANGED <<queue, box, count, restored>>,
           roster' \in [Boards -> Rosters], generations' \in Nat, generations <= generations',
           restored = {} => \A b \in Boards :
              Grown(roster[b], roster'[b], generations, generations'),
           reported' \in [Boards -> Rosters],
           restored = {} => \A b \in Boards :
              reported'[b] # NoRoster => Older(roster[b], generations, reported'[b]),
           imported' \subseteq Packs, pendingImports' \subseteq Boards \X Packs
    PROVE  RosterInv'
<1>1. RosterTypes /\ (restored = {} => EpochInv)
  BY DEF RosterInv
<1>2. /\ task' = [y \in Boards \cup Views |-> task'[y]]
      /\ \A y \in Boards \cup Views : TaskOK(task'[y])
      /\ task'[x] = t /\ \A y \in (Boards \cup Views) \ {x} : task'[y] = task[y]
  BY <1>1, TaskChanges
<1>3. RosterTypes'
  BY <1>1, <1>2 DEF RosterTypes
<1>4. ASSUME restored = {} PROVE EpochInv'
  <2>1. EpochInv
    BY <1>1, <1>4
  <2>2. ASSUME NEW y \in Boards \cup Views, task'[y].at \in Delivering
        PROVE  /\ roster[task'[y].to] # NoRoster
               /\ Older(roster[task'[y].to], generations, task'[y].read)
    BY <1>2, <2>1, <2>2 DEF EpochInv
  <2>3. \A b \in Boards :
           /\ Older(roster[b], generations, box'[b])
           /\ \A i \in DOMAIN queue'[b] : Older(roster[b], generations, queue'[b][i])
           /\ ~Managed(b) => queue'[b] = <<>>
    BY <2>1 DEF EpochInv
  <2> QED BY <1>1, <1>3, <1>4, <2>1, <2>2, <2>3, EpochsStay
<1> QED BY <1>3, <1>4 DEF RosterInv

LEMMA SameRosters ==
    ASSUME RosterInv
    PROVE  /\ roster \in [Boards -> Rosters] /\ reported \in [Boards -> Rosters]
           /\ generations \in Nat /\ imported \subseteq Packs
           /\ pendingImports \subseteq Boards \X Packs
           /\ restored = {} => \A b \in Boards :
                /\ roster[b] # NoRoster => roster[b].gen \in 1..generations
                /\ reported[b] # NoRoster => Older(roster[b], generations, reported[b])
BY DEF RosterInv, RosterTypes, EpochInv, Managed

LEMMA StampKeeps ==
    ASSUME RosterInv, NEW x \in Boards \cup Views, Stamp(x) PROVE RosterInv'
<1> DEFINE to == task[x].to
           new == [roster[to] EXCEPT !.last = Epoch(task[x].read)]
<1>1. task[x].at \in Delivering /\ "stamp" \in {"enqueue", "stamp"}
  BY DEF Stamp, Delivering
<1>2. /\ to \in Boards /\ task[x].read \in Rosters
      /\ restored = {} => roster[to] # NoRoster
  <2> DEFINE u == [task[x] EXCEPT !.at = "stamp"]
  <2>1. /\ u.to = task[x].to /\ task[x].to \in Boards /\ task[x].read \in Rosters
        /\ restored = {} => roster[u.to] # NoRoster
    BY <1>1, TaskSends
  <2> HIDE DEF u
  <2> QED BY <2>1
<1>3. roster \in [Boards -> Rosters] /\ generations \in Nat
  BY SameRosters
<1>4. /\ new \in Rosters /\ new.gen = roster[to].gen /\ new.n = roster[to].n
      /\ new.set = roster[to].set
  BY <1>2, <1>3, StampedIs
<1>5. roster' = [roster EXCEPT ![to] = new]
  BY <1>2, <1>3 DEF Stamp
<1>6. PICK t : TaskOK(t) /\ t.at \notin Delivering /\ task' = [task EXCEPT ![x] = t]
  <2>1. task' = Delivered(x, task[x].to)
    BY DEF Stamp
  <2> QED BY <2>1, DeliveredIs
<1> HIDE DEF to, new
<1>7. /\ roster' \in [Boards -> Rosters] /\ roster'[to] = new
      /\ \A b \in Boards \ {to} : roster'[b] = roster[b]
  BY <1>2, <1>3, <1>4, <1>5
<1>8. restored = {} => \A b \in Boards : Grown(roster[b], roster'[b], generations, generations)
  BY <1>2, <1>4, <1>7 DEF Grown
<1>9. UNCHANGED <<reported, imported, pendingImports, queue, box, generations, count, restored>>
  BY DEF Stamp
<1>10. generations <= generations'
  BY <1>3, <1>9
<1> QED BY <1>3, <1>6, <1>7, <1>8, <1>9, <1>10, SameRosters, RosterStep

LEMMA ChangedRosters ==
    ASSUME RosterInv, NEW wanted \in [Boards -> Sets], ChangeRosters(wanted)
    PROVE  /\ roster' \in [Boards -> Rosters] /\ generations' \in Nat
           /\ generations <= generations'
           /\ restored = {} => \A b \in Boards :
                Grown(roster[b], roster'[b], generations, generations')
<1>1. RosterTypes /\ generations \in Nat /\ roster' = Rewritten(wanted)
  BY SameRosters DEF ChangeRosters, RosterInv
<1>2. /\ generations' \in {generations, generations + 1}
      /\ \A b \in Changed(wanted) :
            ~Managed(b) /\ reported[b] = NoRoster => generations' = generations + 1
  BY <1>1 DEF ChangeRosters
<1>3. roster' \in [Boards -> Rosters]
  BY <1>1, RewrittenIs
<1>4. ASSUME restored = {}, NEW b \in Boards
      PROVE  Grown(roster[b], roster'[b], generations, generations')
  <2> DEFINE base == Base(b, generations + 1)
  <2>1. CASE b \notin Changed(wanted)
    BY <1>1, <2>1, RewrittenIs DEF Grown
  <2>2. CASE b \in Changed(wanted)
    <3>1. /\ base \in Rosters
          /\ Managed(b) => base = roster[b]
          /\ ~Managed(b) /\ reported[b] # NoRoster =>
                base.gen = reported[b].gen /\ base.n = reported[b].n
          /\ ~Managed(b) /\ reported[b] = NoRoster => base.gen = generations + 1 /\ base.n = 0
      <4>1. generations + 1 \in Nat
        BY <1>1
      <4> QED BY <1>1, <4>1, BaseIs
    <3>2. roster'[b].gen = base.gen /\ roster'[b].n = base.n + 1
      BY <1>1, <2>2, RewrittenIs
    <3> HIDE DEF base
    <3>3. base.n \in Nat
      BY <3>1 DEF Rosters
    <3>4. CASE Managed(b)
      BY <3>1, <3>2, <3>3, <3>4 DEF Grown, Managed
    <3>5. CASE ~Managed(b) /\ reported[b] # NoRoster
      <4>1. reported[b].gen = 1 /\ reported[b].n = 1
        BY <1>4, <3>5, SameRosters DEF Older, Managed
      <4> QED BY <3>1, <3>2, <3>5, <4>1 DEF Grown, Managed
    <3>6. CASE ~Managed(b) /\ reported[b] = NoRoster
      BY <1>1, <1>2, <2>2, <3>1, <3>2, <3>6 DEF Grown
    <3> QED BY <3>4, <3>5, <3>6
  <2> QED BY <2>1, <2>2
<1> QED BY <1>1, <1>2, <1>3, <1>4

LEMMA ChangeKeeps == ASSUME RosterInv, NEW v \in Views, Change(v) PROVE RosterInv'
<1> DEFINE ask == task[v].ask
           b == ask.of
           p == ask.pack
<1>1. RosterTypes /\ ask \in Asks /\ b \in Boards /\ p \in Packs
  <2>1. RosterTypes /\ TaskOK(task[v]) /\ task[v].at = "change"
    BY DEF RosterInv, RosterTypes, Change
  <2>2. ask \in Asks
    BY <2>1 DEF TaskOK
  <2> QED BY <2>1, <2>2 DEF Asks
<1> HIDE DEF ask
<1>2. UNCHANGED <<reported, queue, box, count, restored>>
  BY DEF Change
<1>3. \A held : ImportSettled(b, p, held) \subseteq Boards \X Packs
  BY <1>1, SameRosters DEF ImportSettled
<1>4. TaskOK(NoTask) /\ NoTask.at \notin Delivering
  BY NoTaskIs
<1>5. CASE /\ ChangeRosters(Wanted(ask)) /\ task' = Deliveries(v, Wanted(ask))
           /\ pendingImports' = IF ask.kind = "import" THEN ImportSettled(b, p, TRUE)
                                ELSE pendingImports
           /\ UNCHANGED imported
  <2>1. Wanted(ask) \in [Boards -> Sets]
    BY <1>1, EditedIs DEF Wanted
  <2>2. PICK t : TaskOK(t) /\ t.at \notin Delivering /\ task' = [task EXCEPT ![v] = t]
    <3>1. Changed(Wanted(ask)) \in SUBSET Boards
      BY DEF Changed
    <3> DEFINE t == [NoTask EXCEPT !.at = "read", !.todo = Changed(Wanted(ask)), !.force = TRUE]
    <3>2. TaskOK(t) /\ t.at \notin Delivering
      BY <3>1, DeliveryIs
    <3>3. task' = [task EXCEPT ![v] = NoTask] \/ task' = [task EXCEPT ![v] = t]
      BY <1>5 DEF Deliveries
    <3> HIDE DEF t
    <3> QED BY <1>4, <3>2, <3>3
  <2>3. imported' \subseteq Packs /\ pendingImports' \subseteq Boards \X Packs
    BY <1>3, <1>5, SameRosters
  <2> QED BY <1>2, <1>5, <2>1, <2>2, <2>3, ChangedRosters, SameRosters, RosterStep
<1>6. CASE /\ task' = [task EXCEPT ![v] = NoTask]
           /\ UNCHANGED <<roster, generations>>
           /\ imported' \subseteq Packs /\ pendingImports' \subseteq Boards \X Packs
  <2>1. generations <= generations' /\ \A c \in Boards :
           Grown(roster[c], roster'[c], generations, generations')
    BY <1>6, SameRosters DEF Grown
  <2> QED BY <1>2, <1>4, <1>6, <2>1, SameRosters, RosterStep
<1>7. ASSUME task' = [task EXCEPT ![v] = NoTask], UNCHANGED <<roster, generations>>,
             imported' = imported \/ imported' = imported \cup {p},
             pendingImports' = pendingImports
                \/ pendingImports' = ImportSettled(b, p, task[v].held)
      PROVE  /\ imported' \subseteq Packs /\ pendingImports' \subseteq Boards \X Packs
  BY <1>1, <1>3, <1>7, SameRosters
<1> QED BY <1>5, <1>6, <1>7 DEF Change, ask

LEMMA ReportKeeps == ASSUME RosterInv, NEW b \in Boards, Report(b) PROVE RosterInv'
<1> DEFINE e == box[b]
           said == [NoRoster EXCEPT !.gen = e.gen, !.n = e.n, !.set = e.set]
           t == [NoTask EXCEPT !.at = "look", !.read = said]
           set == [p \in Packs |-> IF p \in Copied(b) /\ roster[b].set[p] # "none" THEN "own"
                                  ELSE roster[b].set[p]]
           new == [roster[b] EXCEPT !.set = set, !.n = roster[b].n + 1]
<1>1. /\ roster \in [Boards -> Rosters] /\ reported \in [Boards -> Rosters]
      /\ generations \in Nat /\ imported \subseteq Packs /\ pendingImports \subseteq Boards \X Packs
  BY SameRosters
<1>2. e \in Entries
  BY DEF RosterInv, RosterTypes
<1>3. said \in Rosters /\ said.gen = e.gen /\ said.n = e.n /\ said.set = e.set
  BY <1>2, ReportedIs
<1>4. /\ reported' = [reported EXCEPT ![b] = said]
      /\ UNCHANGED <<queue, box, generations, count, restored>>
  BY DEF Report
<1>5. reported'[b] = said
  BY <1>1, <1>4
<1>6. task' = [task EXCEPT ![b] = t]
  BY <1>5 DEF Report
<1> HIDE DEF said
<1>7. TaskOK(t) /\ t.at \notin Delivering
  BY <1>3, LookIs
<1>8. set \in Sets /\ new \in Rosters /\ new.gen = roster[b].gen /\ new.n = roster[b].n + 1
  <2>1. set \in Sets
    BY <1>1 DEF Sets, Rosters
  <2> HIDE DEF set
  <2> QED BY <1>1, <2>1, ReportAppliesIs
<1>9. /\ roster' = roster \/ roster' = [roster EXCEPT ![b] = new]
      /\ roster[b] = NoRoster => roster' = roster
  <2>1. roster' = IF set = roster[b].set THEN roster ELSE [roster EXCEPT ![b] = new]
    <3>1. roster' = IF set = roster[b].set THEN roster
                    ELSE [roster EXCEPT ![b] = [@ EXCEPT !.set = set, !.n = roster[b].n + 1]]
      BY DEF Report
    <3> HIDE DEF set
    <3> QED BY <3>1
  <2>2. ASSUME roster[b] = NoRoster PROVE set = roster[b].set
    <3>1. NoRoster.set \in Sets /\ \A p \in Packs : NoRoster.set[p] = "none"
      BY NoRosterIs
    <3>2. set = [p \in Packs |-> NoRoster.set[p]]
      BY <2>2, <3>1
    <3> HIDE DEF set
    <3> QED BY <2>2, <3>1, <3>2 DEF Sets
  <2> HIDE DEF set, new
  <2> QED BY <2>1, <2>2
<1> HIDE DEF e, t, set, new
<1>10. /\ roster' \in [Boards -> Rosters] /\ generations <= generations'
       /\ \A c \in Boards : Grown(roster[c], roster'[c], generations, generations')
  <2>1. roster[b].n \in Nat
    BY <1>1 DEF Rosters
  <2> QED BY <1>1, <1>4, <1>8, <1>9, <2>1 DEF Grown
<1>11. /\ reported' \in [Boards -> Rosters]
       /\ restored = {} => \A c \in Boards :
            reported'[c] # NoRoster => Older(roster[c], generations, reported'[c])
  <2>1. reported' \in [Boards -> Rosters] /\ \A c \in Boards \ {b} : reported'[c] = reported[c]
    BY <1>1, <1>3, <1>4
  <2>2. restored = {} => Older(roster[b], generations, said)
    BY <1>3 DEF RosterInv, EpochInv, Older, e
  <2> QED BY <1>5, <2>1, <2>2, SameRosters
<1>12. imported' \subseteq Packs /\ pendingImports' \subseteq Boards \X Packs
  BY <1>1 DEF Report, Copied
<1> QED BY <1>4, <1>6, <1>7, <1>10, <1>11, <1>12, SameRosters, RosterStep

LEMMA CompareKeeps == ASSUME RosterInv, NEW b \in Boards, Compare(b) PROVE RosterInv'
<1> DEFINE to == IF Ahead(task[b].read, b) THEN "regenerate" ELSE "read"
           t == [NoTask EXCEPT !.at = to, !.todo = {b}]
<1>1. to \in {"regenerate", "read"}
  OBVIOUS
<1>2. task' = [task EXCEPT ![b] = NoTask] \/ task' = [task EXCEPT ![b] = t]
  BY DEF Compare
<1> HIDE DEF to
<1>3. TaskOK(t) /\ t.at \notin Delivering
  BY <1>1, ComparedIs
<1> HIDE DEF t
<1>4. UNCHANGED <<roster, reported, imported, pendingImports, queue, box, generations, count,
                  restored>>
  BY DEF Compare
<1>5. /\ imported' \subseteq Packs /\ pendingImports' \subseteq Boards \X Packs
      /\ count' \in [changes : 0..MaxChanges, losses : 0..MaxLosses]
  BY <1>4 DEF RosterInv, RosterTypes
<1> QED BY <1>2, <1>3, <1>4, <1>5, NoTaskIs, SameBoxes, TaskStep

LEMMA RegenerateKeeps == ASSUME RosterInv, NEW b \in Boards, Regenerate(b) PROVE RosterInv'
<1> DEFINE new == [roster[b] EXCEPT !.gen = generations', !.n = 1]
           t == [task[b] EXCEPT !.at = "read", !.force = TRUE]
<1>1. roster \in [Boards -> Rosters] /\ generations \in Nat /\ generations' = generations + 1
  BY SameRosters DEF Regenerate
<1>2. new \in Rosters /\ new.gen = generations'
  <2>1. roster[b] \in Rosters /\ generations' \in Nat
    BY <1>1
  <2> QED BY <2>1 DEF Rosters
<1>3. roster' = [roster EXCEPT ![b] = new] /\ task' = [task EXCEPT ![b] = t]
  BY DEF Regenerate
<1>4. TaskOK(t) /\ t.at \notin Delivering
  <2>1. TaskOK(task[b])
    BY DEF RosterInv, RosterTypes
  <2> QED BY <2>1 DEF TaskOK, Tasks, TaskSteps, Delivering
<1> HIDE DEF new, t
<1>5. /\ roster' \in [Boards -> Rosters] /\ roster'[b] = new
      /\ \A c \in Boards \ {b} : roster'[c] = roster[c]
  BY <1>1, <1>2, <1>3
<1>6. /\ generations <= generations' /\ generations' \in Nat
      /\ \A c \in Boards : Grown(roster[c], roster'[c], generations, generations')
  BY <1>1, <1>2, <1>5 DEF Grown
<1>7. UNCHANGED <<reported, imported, pendingImports, queue, box, count, restored>>
  BY DEF Regenerate
<1> QED BY <1>3, <1>4, <1>5, <1>6, <1>7, SameRosters, RosterStep

LEMMA TakenIs ==
    ASSUME RosterInv, NEW b \in Boards, queue[b] # <<>>, queue' = [queue EXCEPT ![b] = Tail(@)]
    PROVE  /\ Head(queue[b]) \in Entries
           /\ restored = {} => Older(roster[b], generations, Head(queue[b]))
           /\ queue' \in [Boards -> Seq(Entries)]
           /\ restored = {} => \A c \in Boards :
                /\ \A i \in DOMAIN queue'[c] : Older(roster[c], generations, queue'[c][i])
                /\ ~Managed(c) => queue'[c] = <<>>
<1>1. queue \in [Boards -> Seq(Entries)]
  BY DEF RosterInv, RosterTypes
<1> DEFINE q == queue[b]
<1>2. q \in Seq(Entries) /\ q # <<>>
  BY <1>1
<1>3. restored = {} => /\ Managed(b) /\ \A i \in DOMAIN q : Older(roster[b], generations, q[i])
  BY DEF RosterInv, EpochInv
<1>4. /\ queue' \in [Boards -> Seq(Entries)] /\ queue'[b] = Tail(q)
      /\ \A c \in Boards \ {b} : queue'[c] = queue[c]
  BY <1>1, <1>2
<1> HIDE DEF q
<1>5. /\ Head(q) \in Entries /\ Head(q) = q[1] /\ 1 \in DOMAIN q
      /\ \A i \in DOMAIN Tail(q) : i + 1 \in DOMAIN q /\ Tail(q)[i] = q[i + 1]
  BY <1>2
<1>6. restored = {} => \A i \in DOMAIN Tail(q) : Older(roster[b], generations, Tail(q)[i])
  BY <1>3, <1>5
<1>7. restored = {} => \A c \in Boards \ {b} :
         /\ \A i \in DOMAIN queue[c] : Older(roster[c], generations, queue[c][i])
         /\ ~Managed(c) => queue[c] = <<>>
  BY DEF RosterInv, EpochInv
<1> QED BY <1>3, <1>4, <1>5, <1>6, <1>7 DEF q

LEMMA BoxStepKeeps ==
    ASSUME RosterInv, NEW b \in Boards, TakeSet(b) \/ Lose(b) PROVE RosterInv'
<1>1. /\ queue[b] # <<>> /\ queue' = [queue EXCEPT ![b] = Tail(@)]
      /\ box' = box \/ box' = [box EXCEPT ![b] = Head(queue[b])]
      /\ UNCHANGED <<roster, reported, imported, pendingImports, task, generations, restored>>
  BY DEF TakeSet, Lose
<1>2. count' \in [changes : 0..MaxChanges, losses : 0..MaxLosses]
  BY SpendIs DEF TakeSet, Lose, RosterInv, RosterTypes
<1>3. /\ Head(queue[b]) \in Entries
      /\ restored = {} => Older(roster[b], generations, Head(queue[b]))
      /\ queue' \in [Boards -> Seq(Entries)]
      /\ restored = {} => \A c \in Boards :
           /\ \A i \in DOMAIN queue'[c] : Older(roster[c], generations, queue'[c][i])
           /\ ~Managed(c) => queue'[c] = <<>>
  BY <1>1, TakenIs
<1>4. RosterTypes /\ box \in [Boards -> Entries] /\ generations \in Nat
  BY DEF RosterInv, RosterTypes
<1>5. box' \in [Boards -> Entries] /\ \A c \in Boards : box'[c] = box[c]
                                           \/ (c = b /\ box'[c] = Head(queue[b]))
  BY <1>1, <1>3, <1>4
<1>6. RosterTypes'
  BY <1>1, <1>2, <1>3, <1>4, <1>5 DEF RosterTypes
<1>7. ASSUME restored = {} PROVE EpochInv'
  <2>1. EpochInv
    BY <1>7 DEF RosterInv
  <2>2. generations <= generations' /\ \A x \in Boards \cup Views : task'[x].at \in Delivering =>
           /\ roster[task'[x].to] # NoRoster
           /\ Older(roster[task'[x].to], generations, task'[x].read)
    BY <1>1, <1>4, <2>1 DEF EpochInv
  <2>3. \A c \in Boards :
           /\ Grown(roster[c], roster'[c], generations, generations')
           /\ Older(roster[c], generations, box'[c])
           /\ reported'[c] # NoRoster => Older(roster[c], generations, reported'[c])
    BY <1>1, <1>3, <1>5, <1>7, <2>1 DEF EpochInv, Grown
  <2> QED BY <1>3, <1>4, <1>6, <1>7, <2>1, <2>2, <2>3, EpochsStay
<1> QED BY <1>1, <1>6, <1>7 DEF RosterInv

LEMMA RosterStays == RosterInv /\ [RosterNext]_rosterVars => RosterInv'
<1> SUFFICES ASSUME RosterInv, [RosterNext]_rosterVars PROVE RosterInv'
  OBVIOUS
<1>1. CASE UNCHANGED rosterVars
  <2>1. UNCHANGED <<roster, reported, imported, pendingImports, queue, box, task, generations,
                    count, restored>>
    BY <1>1 DEF rosterVars
  <2>2. RosterTypes'
    BY <2>1 DEF RosterInv, RosterTypes
  <2>3. restored = {} => EpochInv'
    BY <2>1 DEF RosterInv, EpochInv, Managed
  <2> QED BY <2>1, <2>2, <2>3 DEF RosterInv
<1> QED BY <1>1, SubmitKeeps, ChangeKeeps, ReadRosterKeeps, SupersedeKeeps, EnqueueSyncKeeps,
           StampKeeps, ReportKeeps, CompareKeeps, RegenerateKeeps, BoxStepKeeps DEF RosterNext

LEMMA RosterInvariant == RosterSpec => []RosterInv
BY RosterStarts, RosterStays, PTL DEF RosterSpec

\* The rosters, the boxes' entries and the tasks that carry them are well typed.
THEOREM RosterTypeCorrect == RosterSpec => []RosterTypeOK
<1>1. ASSUME RosterTypes PROVE RosterTypeOK
  <2>1. \A x \in Boards \cup Views : task[x].at \in TaskSteps
    BY <1>1 DEF RosterTypes, TaskOK, Tasks
  <2>2. count.changes <= MaxChanges /\ count.losses <= MaxLosses
    <3>1. MaxChanges \in Nat /\ MaxLosses \in Nat
      BY RosterAssumption
    <3>2. count.changes \in 0..MaxChanges /\ count.losses \in 0..MaxLosses
      BY <1>1 DEF RosterTypes
    <3> QED BY <3>1, <3>2
  <2>3. \A b \in Boards : {roster[b], reported[b]} \subseteq Rosters
    BY <1>1 DEF RosterTypes
  <2>4. \A b \in Boards : box[b] \in Entries /\ queue[b] \in Seq(Entries)
    BY <1>1 DEF RosterTypes
  <2>5. imported \subseteq Packs /\ pendingImports \subseteq Boards \X Packs
    BY <1>1 DEF RosterTypes
  <2> QED BY <2>1, <2>2, <2>3, <2>4, <2>5 DEF RosterTypeOK, Rosters, TaskSteps
<1> QED BY <1>1, RosterInvariant, PTL DEF RosterInv

\* However deliveries, reports and losses overlap, for any number of boxes, packs
\* and requests: while no backup was restored, a box that holds the epoch of its
\* roster holds the roster's set, so that the report that says so ("equal", to
\* async_converge) settles it.
THEOREM EpochTellsTheSet == RosterSpec => []SameEpochSameSet
<1>1. RosterInv => SameEpochSameSet
  BY DEF RosterInv, EpochInv, Older, SameEpochSameSet, Managed, Epoch, RosterTypes, Entries, Rosters
<1> QED BY <1>1, RosterInvariant, PTL

(***************************************************************************)
(* ReadingValidation.                                                      *)
(***************************************************************************)

\* The fields of a frame.
Names == {"pv", "s1", "s2", "s3", "grid", "load", "bat", "cur", "gen", "genV", "bat2", "soc",
          "volt", "gridV", "volts", "amps", "watts", "dpv", "imp", "exp", "dld", "mode", "mains",
          "pvCharge", "clock"}
IsFrame(r) == r = [f \in Names |-> r[f]]
Numbered == {"soc", "volt", "imp", "exp", "dpv"}
\* A frame as it is read, and as it is judged and stored: what is kept of it
\* is a number that its field may have.
Readable(r) == IsFrame(r) /\ \A f \in Numbered : r[f] \in Int
Storable(s) == /\ IsFrame(s)
            /\ s.soc \in 0..100 \cup {Absent}
            /\ s.volt \in Nat /\ s.imp \in Nat /\ s.exp \in Nat
Keys == {"s", "fixed", "warned", "open"}
JudgedWell(v) == v = [k \in Keys |-> v[k]] /\ Storable(v.s)
\* A field that takes a number it may have.
May(f, x) == /\ f = "soc" => x \in 0..100 \cup {Absent}
             /\ f \in {"volt", "imp", "exp"} => x \in Nat

LEMMA StorableSets ==
    ASSUME NEW s, Storable(s), NEW f, NEW x, May(f, x)
    PROVE  Storable([s EXCEPT ![f] = x])
BY DEF Storable, IsFrame, May, Names

LEMMA PutIs ==
    ASSUME NEW v, JudgedWell(v), NEW f, NEW x, May(f, x)
    PROVE  JudgedWell(Put(v, f, x))
<1> DEFINE s == [v.s EXCEPT ![f] = x]
           w == Put(v, f, x)
<1>1. Storable(s)
  BY StorableSets DEF JudgedWell
<1>2. w = [s |-> s, fixed |-> v.fixed \cup {f}, warned |-> TRUE, open |-> v.open]
  BY DEF Put, Judged
<1> HIDE DEF s, w
<1>3. w = [k \in Keys |-> w[k]] /\ w.s = s
  BY <1>2 DEF Keys
<1> QED BY <1>1, <1>3 DEF JudgedWell, w

LEMMA JudgedIs ==
    ASSUME NEW s, Storable(s), NEW a, NEW b, NEW c
    PROVE  JudgedWell(Judged(s, a, b, c))
<1> DEFINE w == Judged(s, a, b, c)
<1>2. w = [s |-> s, fixed |-> a, warned |-> b, open |-> c]
  BY DEF Judged
<1> HIDE DEF w
<1>3. w = [k \in Keys |-> w[k]] /\ w.s = s
  BY <1>2 DEF Keys
<1> QED BY <1>3 DEF JudgedWell, w

LEMMA FailIs ==
    ASSUME NEW v, JudgedWell(v), NEW why
    PROVE  JudgedWell(Fail(v, why))
BY JudgedIs DEF Fail, JudgedWell

LEMMA StorableCleared ==
    ASSUME NEW s, Storable(s), NEW F, NEW x, \A f \in F : May(f, x)
    PROVE  Storable([f \in DOMAIN s |-> IF f \in F THEN x ELSE s[f]])
BY DEF Storable, IsFrame, May, Names

LEMMA PutAllIs ==
    ASSUME NEW v, JudgedWell(v), NEW F, NEW x, \A f \in F : May(f, x)
    PROVE  JudgedWell(PutAll(v, F, x))
<1> DEFINE s == [f \in DOMAIN v.s |-> IF f \in F THEN x ELSE v.s[f]]
<1>1. Storable(s)
  BY StorableCleared DEF JudgedWell
<1>2. PutAll(v, F, x) = IF F = {} THEN v ELSE Judged(s, v.fixed \cup F, TRUE, v.open)
  BY DEF PutAll
<1> HIDE DEF s
<1> QED BY <1>1, <1>2, JudgedIs

LEMMA ZeroIs == \A f : May(f, 0)
BY DEF May

LEMMA FlagIs ==
    ASSUME NEW v, JudgedWell(v), NEW b
    PROVE  JudgedWell([v EXCEPT !.warned = b]) /\ JudgedWell([v EXCEPT !.open = b])
<1> DEFINE w == [v EXCEPT !.warned = b]
           u == [v EXCEPT !.open = b]
<1>1. w = [k \in Keys |-> w[k]] /\ w.s = v.s
  BY DEF JudgedWell, Keys
<1>2. u = [k \in Keys |-> u[k]] /\ u.s = v.s
  BY DEF JudgedWell, Keys
<1> HIDE DEF w, u
<1>3. JudgedWell(w) /\ JudgedWell(u)
  BY <1>1, <1>2 DEF JudgedWell
<1> QED BY <1>3 DEF w, u

LEMMA FrameIs ==
    ASSUME NEW v, JudgedWell(v), NEW s, Storable(s)
    PROVE  JudgedWell([v EXCEPT !.s = s])
<1> DEFINE w == [v EXCEPT !.s = s]
<1>1. w = [k \in Keys |-> w[k]] /\ w.s = s
  BY DEF JudgedWell, Keys
<1> HIDE DEF w
<1>3. JudgedWell(w)
  BY <1>1 DEF JudgedWell
<1> QED BY <1>3 DEF w

-----------------------------------------------------------------------------
(* The stages of the validation. *)

LEMMA SignsIs == ASSUME NEW v, JudgedWell(v), NEW d PROVE JudgedWell(Signs(v, d))
<1> DEFINE capped == IF Has(d.soc) /\ d.soc > 100 THEN Put(v, "soc", 100) ELSE v
<1>1. May("soc", 100)
  BY DEF May
<1>2. JudgedWell(capped)
  BY <1>1, PutIs
<1> HIDE DEF capped
<1>3. JudgedWell(PutAll(capped, {f \in {"pv", "load", "soc", "volt"} : d[f] < 0}, 0))
  BY <1>2, ZeroIs, PutAllIs
<1> QED BY <1>3 DEF Signs, capped

LEMMA ErrorCodesIs == ASSUME NEW v, JudgedWell(v), NEW d PROVE JudgedWell(ErrorCodes(v, d))
<1> DEFINE cleared == PutAll(v, {f \in Powers : IsErrorCode(d[f])}, 0)
<1>1. JudgedWell(cleared)
  BY ZeroIs, PutAllIs
<1> HIDE DEF cleared
<1>2. JudgedWell(Fail(cleared, "communicationFailure"))
  BY <1>1, FailIs
<1> QED BY <1>1, <1>2 DEF ErrorCodes, cleared

LEMMA PvLimitsIs == ASSUME NEW v, JudgedWell(v), NEW d PROVE JudgedWell(PvLimits(v, d))
<1> DEFINE w == PutAll(v, {f \in {"pv", "s1", "s2", "s3"} : d[f] > LimitsFromRated.pv}, 0)
           without == Judged([w.s EXCEPT !.s3 = 0], w.fixed \cup {"s3"}, w.warned, w.open)
<1>1. JudgedWell(w)
  BY ZeroIs, PutAllIs
<1> HIDE DEF w
<1>2. Storable([w.s EXCEPT !.s3 = 0])
  <2>1. Storable([w.s EXCEPT !["s3"] = 0])
    BY <1>1, ZeroIs, StorableSets DEF JudgedWell
  <2> QED BY <2>1
<1>3. JudgedWell(without)
  BY <1>2, JudgedIs
<1> HIDE DEF without
<1> QED BY <1>1, <1>3 DEF PvLimits, w, without

LEMMA FreeIs == \A f, x : f \notin {"soc", "volt", "imp", "exp"} => May(f, x)
BY DEF May

LEMMA PhantomIs == ASSUME NEW v, JudgedWell(v) PROVE JudgedWell(Phantom(v))
<1> DEFINE without == Put(v, "s3", 0)
           p == Above(v.s.pv - v.s.s3)
<1>1. JudgedWell(without)
  BY ZeroIs, PutIs
<1> HIDE DEF without, p
<1>2. JudgedWell(Put(without, "pv", p))
  BY <1>1, FreeIs, PutIs
<1> QED BY <1>1, <1>2 DEF Phantom, without, p

LEMMA BelowStringsIs == ASSUME NEW v, JudgedWell(v) PROVE JudgedWell(BelowStrings(v))
<1>1. JudgedWell(Put(v, "pv", StringSum(v.s)))
  BY FreeIs, PutIs
<1> QED BY <1>1 DEF BelowStrings

LEMMA PowerLimitsIs == ASSUME NEW v, JudgedWell(v), NEW d PROVE JudgedWell(PowerLimits(v, d))
<1> DEFINE over(f) == Has(d[f]) /\ Size(d[f]) > LimitsFromRated[f]
           w == PutAll(v, {f \in {"grid", "bat"} : over(f)}, 0)
<1>1. JudgedWell(w)
  BY ZeroIs, PutAllIs
<1> HIDE DEF w
<1>2. JudgedWell(Put(w, "load", Absent))
  BY <1>1, FreeIs, PutIs
<1> QED BY <1>1, <1>2 DEF PowerLimits, w

LEMMA GeneratorIs == ASSUME NEW v, JudgedWell(v), NEW d PROVE JudgedWell(Generator(v, d))
<1> DEFINE w == Put(v, "gen", Unwrapped(v, d))
           b == ~Has(Unwrapped(v, d))
<1>1. JudgedWell(w)
  BY FreeIs, PutIs
<1> HIDE DEF w, b
<1>2. JudgedWell([w EXCEPT !.open = b])
  BY <1>1, FlagIs
<1> QED BY <1>2 DEF Generator, w, b

LEMMA EnergisedIs == ASSUME NEW v, JudgedWell(v) PROVE JudgedWell(Energised(v))
<1>1. JudgedWell(PutAll(v, {"gen", "genV"}, 0))
  BY ZeroIs, PutAllIs
<1> QED BY <1>1 DEF Energised

LEMMA SecondPackIs == ASSUME NEW v, JudgedWell(v) PROVE JudgedWell(SecondPack(v))
<1>1. JudgedWell(Put(v, "bat2", Absent))
  BY FreeIs, PutIs
<1> QED BY <1>1 DEF SecondPack

LEMMA VoltagesIs == ASSUME NEW v, JudgedWell(v), NEW d PROVE JudgedWell(Voltages(v, d))
<1> DEFINE w == IF d.volt > (IF ctx.hv THEN 10000 ELSE 700) THEN Put(v, "volt", 0) ELSE v
<1>1. JudgedWell(w)
  BY ZeroIs, PutIs
<1> HIDE DEF w
<1>2. JudgedWell(Put(w, "gridV", 0))
  BY <1>1, ZeroIs, PutIs
<1> QED BY <1>1, <1>2 DEF Voltages, w

LEMMA MisalignedIs == ASSUME NEW v, JudgedWell(v) PROVE JudgedWell(Misaligned(v))
<1> DEFINE w == [v EXCEPT !.s.gridV = 0]
           x == [i \in DOMAIN v.s.volts |-> 0]
<1>1. JudgedWell(w)
  <2> DEFINE s == [v.s EXCEPT !.gridV = 0]
  <2>1. Storable(s)
    <3>1. Storable([v.s EXCEPT !["gridV"] = 0])
      BY ZeroIs, StorableSets DEF JudgedWell
    <3> QED BY <3>1
  <2>2. w = [v EXCEPT !.s = s]
    OBVIOUS
  <2> HIDE DEF s
  <2> QED BY <2>1, <2>2, FrameIs
<1> HIDE DEF w, x
<1>2. JudgedWell(Put(w, "volts", x))
  BY <1>1, FreeIs, PutIs
<1> QED BY <1>2 DEF Misaligned, w, x

LEMMA OutlierIs == ASSUME NEW v, JudgedWell(v) PROVE JudgedWell(Outlier(v))
<1>1. ASSUME NEW x, NEW y
      PROVE  JudgedWell(Put(v, "volts", x)) /\ JudgedWell(Put(Put(v, "volts", x), "gridV", y))
  <2>1. JudgedWell(Put(v, "volts", x))
    BY FreeIs, PutIs
  <2> QED BY <2>1, FreeIs, PutIs
<1> QED BY <1>1 DEF Outlier

LEMMA UnpoweredIs == ASSUME NEW v, JudgedWell(v) PROVE JudgedWell(Unpowered(v))
<1>1. JudgedWell(Put(v, "amps", <<>>))
  BY FreeIs, PutIs
<1> QED BY <1>1 DEF Unpowered

LEMMA ContradictedIs == ASSUME NEW v, JudgedWell(v) PROVE JudgedWell(Contradicted(v))
<1>1. JudgedWell(PutAll(v, {f \in {"watts", "amps"} : v.s[f] # <<>>}, <<>>))
  BY FreeIs, PutAllIs
<1> QED BY <1>1 DEF Contradicted

LEMMA TooManyAmpsIs == ASSUME NEW v, JudgedWell(v) PROVE JudgedWell(TooManyAmps(v))
<1>1. JudgedWell(Put(v, "amps", <<>>))
  BY FreeIs, PutIs
<1> QED BY <1>1 DEF TooManyAmps

LEMMA CounterLimitsIs == ASSUME NEW v, JudgedWell(v), NEW d PROVE JudgedWell(CounterLimits(v, d))
<1> DEFINE w == IF d.dpv > LimitsFromRated.dpv THEN Put(v, "dpv", Absent) ELSE v
<1>1. JudgedWell(w)
  BY FreeIs, PutIs
<1> HIDE DEF w
<1>2. JudgedWell(PutAll(w, {f \in {"imp", "exp", "dld"} : Has(d[f]) /\ d[f] > 5000}, 0))
  BY <1>1, ZeroIs, PutAllIs
<1> QED BY <1>2 DEF CounterLimits, w

LEMMA MirrorsIs == ASSUME NEW v, JudgedWell(v), NEW d PROVE JudgedWell(Mirrors(v, d))
<1>1. ASSUME NEW w, JudgedWell(w)
      PROVE  /\ JudgedWell(Put(w, "dld", Absent)) /\ JudgedWell(Put(w, "dpv", Absent))
             /\ JudgedWell(Put(w, "exp", 0))
  BY <1>1, FreeIs, ZeroIs, PutIs
<1> DEFINE load == v.s.load
           watts == /\ Has(d.dld) /\ Has(load) /\ load >= 100
                    /\ 50 * Size(d.dld - 10 * load) < 10 * load
           w == IF watts THEN Put(v, "dld", Absent) ELSE v
           crossed == /\ Has(w.s.dpv) /\ w.s.dpv > 5 /\ w.s.pv < 50
                      /\ Size(w.s.dpv - w.s.imp) <= 1
           x == IF crossed THEN Put(w, "dpv", Absent) ELSE w
<1>2. JudgedWell(w)
  BY <1>1
<1> HIDE DEF w
<1>3. JudgedWell(x)
  BY <1>1, <1>2
<1> HIDE DEF x
<1>4. JudgedWell(IF Has(x.s.dpv) /\ x.s.exp > x.s.dpv + 210 THEN Put(x, "exp", 0) ELSE x)
  BY <1>1, <1>3
<1> QED BY <1>4 DEF Mirrors, w, x

LEMMA ZeroedIs == ASSUME NEW v, JudgedWell(v) PROVE JudgedWell(Zeroed(v))
<1> DEFINE s == [f \in DOMAIN v.s |-> IF f \in Powers THEN 0 ELSE v.s[f]]
           w == [v EXCEPT !.s = s]
<1>1. Storable(s)
  BY ZeroIs, StorableCleared DEF JudgedWell
<1> HIDE DEF s
<1>2. JudgedWell(w)
  BY <1>1, FrameIs
<1> HIDE DEF w
<1>3. JudgedWell(Fail(w, "energyBalance"))
  BY <1>2, FailIs
<1> QED BY <1>3 DEF Zeroed, w, s

LEMMA BalanceIs == ASSUME NEW v, JudgedWell(v) PROVE JudgedWell(Balance(v))
<1>1. JudgedWell([v EXCEPT !.warned = TRUE])
  BY FlagIs
<1>2. JudgedWell(Zeroed(v)) /\ JudgedWell(Zeroed(Zeroed(v)))
  BY ZeroedIs
<1>3. Balance(v) \in {[v EXCEPT !.warned = TRUE], v, Zeroed(v), Zeroed(Zeroed(v))}
  BY DEF Balance
<1> QED BY <1>1, <1>2, <1>3

LEMMA FailedIs == ASSUME NEW v, JudgedWell(v), NEW d PROVE JudgedWell(Failed(v, d))
BY FailIs DEF Failed

LEMMA MultipliedIs == ASSUME NEW v, JudgedWell(v), NEW d PROVE JudgedWell(Multiplied(v, d))
BY FailIs DEF Multiplied

LEMMA ClosingIs == ASSUME NEW v, JudgedWell(v), NEW d PROVE JudgedWell(Closing(v, d))
<1> DEFINE warn == [v EXCEPT !.warned = TRUE]
           F == {f \in {"dpv", "imp", "exp", "dld"} : d[f] < 0}
<1>1. JudgedWell(warn)
  BY FlagIs
<1> HIDE DEF warn
<1>2. JudgedWell(PutAll(warn, F, 0)) /\ JudgedWell(PutAll(v, F, 0))
  BY <1>1, ZeroIs, PutAllIs
<1>3. Closing(v, d) \in {PutAll(warn, F, 0), PutAll(v, F, 0)}
  BY DEF Closing, warn
<1> QED BY <1>2, <1>3

LEMMA ValidatedIs == ASSUME NEW d, Storable(d) PROVE JudgedWell(Validated(d))
<1> DEFINE a == Signs(Unjudged(d), d)
           b == PvLimits(ErrorCodes(a, d), d)
           c == PowerLimits(BelowStrings(Phantom(b)), d)
           e == Voltages(SecondPack(Energised(Generator(c, d))), d)
           g == Phases(e)
           h == Balance(Counters(g, d))
<1>1. JudgedWell(a)
  BY JudgedIs, SignsIs DEF Unjudged
<1> HIDE DEF a
<1>2. JudgedWell(b)
  BY <1>1, ErrorCodesIs, PvLimitsIs
<1> HIDE DEF b
<1>3. JudgedWell(c)
  BY <1>2, PhantomIs, BelowStringsIs, PowerLimitsIs
<1> HIDE DEF c
<1>4. JudgedWell(e)
  BY <1>3, GeneratorIs, EnergisedIs, SecondPackIs, VoltagesIs
<1> HIDE DEF e
<1>5. JudgedWell(g)
  <2>1. JudgedWell(Unpowered(Outlier(Misaligned(e))))
    BY <1>4, MisalignedIs, OutlierIs, UnpoweredIs
  <2> QED BY <2>1, ContradictedIs, TooManyAmpsIs DEF Phases
<1> HIDE DEF g
<1>6. JudgedWell(h)
  BY <1>5, CounterLimitsIs, MirrorsIs, BalanceIs DEF Counters
<1> HIDE DEF h
<1>7. JudgedWell(Closing(Multiplied(Failed(h, d), d), d))
  BY <1>6, FailedIs, MultipliedIs, ClosingIs
<1>8. Validated(d) = Closing(Multiplied(Failed(h, d), d), d)
  BY DEF Validated, a, b, c, e, g, h
<1> QED BY <1>7, <1>8

-----------------------------------------------------------------------------
(* Before the validation, and after it. *)

\* A frame the schema takes.
Taken(r) == /\ Readable(r)
            /\ r.soc \in 0..100 \cup {Absent}
            /\ r.volt \in Nat /\ r.imp \in Nat /\ r.exp \in Nat /\ r.dpv \in Nat

LEMMA SchemaIs == ASSUME NEW r, Readable(r), MeetsSchema(r) PROVE Taken(r)
BY DEF Readable, MeetsSchema, Taken, Numbered, Has

LEMMA TakenSets ==
    ASSUME NEW r, Taken(r), NEW f, NEW x, May(f, x), f = "dpv" => x \in Nat
    PROVE  Taken([r EXCEPT ![f] = x])
BY DEF Taken, Readable, IsFrame, May, Names, Numbered, Absent

LEMMA OtherField ==
    ASSUME NEW r, Taken(r), NEW f, f \notin Numbered, NEW x
    PROVE  Taken([r EXCEPT ![f] = x])
BY DEF Taken, Readable, IsFrame, Numbered

LEMMA NormalizedIs == ASSUME NEW r, Taken(r) PROVE Storable(Normalized(r))
<1>1. ASSUME NEW q, Taken(q) PROVE Taken(Coerced(q))
  <2> DEFINE one == [q EXCEPT !.pv = Above(@)]
             two == [one EXCEPT !.load = IF Has(@) THEN Above(@) ELSE @]
  <2>1. Taken(one)
    BY <1>1, OtherField DEF Numbered
  <2> HIDE DEF one
  <2>2. Taken(two)
    BY <2>1, OtherField DEF Numbered
  <2> QED BY <2>2 DEF Coerced, one
<1>2. ASSUME NEW q, Taken(q) PROVE Taken(Oriented(q))
  <2> DEFINE one == [q EXCEPT !.bat = -@]
             two == [one EXCEPT !.cur = -@]
  <2>1. Taken(one)
    BY <1>2, OtherField DEF Numbered
  <2> HIDE DEF one
  <2>2. Taken(two)
    BY <2>1, OtherField DEF Numbered
  <2>3. Taken(Flipped(q))
    BY <2>2 DEF Flipped, one
  <2> QED BY <1>2, <2>3 DEF Oriented
<1>3. ASSUME NEW q, Taken(q) PROVE Taken(Scaled(q))
  <2> DEFINE one == [q EXCEPT !.grid = IF Has(@) THEN @ * ctx.gridScale ELSE @]
             two == [one EXCEPT !.watts = [i \in DOMAIN @ |-> @[i] * ctx.gridScale]]
  <2>1. Taken(one)
    BY <1>3, OtherField DEF Numbered
  <2> HIDE DEF one
  <2>2. Taken(two)
    BY <2>1, OtherField DEF Numbered
  <2> QED BY <2>2 DEF Scaled, one
<1>4. ASSUME NEW q, Taken(q) PROVE Taken(ExportFilled(q))
  <2> DEFINE one == [q EXCEPT !.grid = -q.pv]
             two == [one EXCEPT !.load = 0]
             three == [two EXCEPT !.exp = q.dpv]
             four == [three EXCEPT !.imp = 0]
  <2>1. Taken(one)
    BY <1>4, OtherField DEF Numbered
  <2> HIDE DEF one
  <2>2. Taken(two)
    BY <2>1, OtherField DEF Numbered
  <2> HIDE DEF two
  <2>3. Taken(three)
    <3>1. q.dpv \in Nat
      BY <1>4 DEF Taken
    <3>2. Taken([two EXCEPT !["exp"] = q.dpv])
      BY <2>2, <3>1, TakenSets DEF May
    <3> QED BY <3>2
  <2> HIDE DEF three
  <2>4. Taken(four)
    <3>1. Taken([three EXCEPT !["imp"] = 0])
      BY <2>3, TakenSets DEF May
    <3> QED BY <3>1
  <2> QED BY <1>4, <2>4 DEF ExportFilled, one, two, three
<1>5. ASSUME NEW q, Taken(q) PROVE Taken(Pi30Filled(q))
  <2>1. ASSUME NEW x PROVE Taken([q EXCEPT !.grid = x])
    BY <1>5, OtherField DEF Numbered
  <2> QED BY <1>5, <2>1 DEF Pi30Filled
<1>6. Taken(Normalized(r))
  BY <1>1, <1>2, <1>3, <1>4, <1>5 DEF Normalized
<1> QED BY <1>6 DEF Taken, Storable, Readable

LEMMA StoredIs ==
    ASSUME NEW v, JudgedWell(v), NEW d, Storable(d), kept.imp \in Nat, kept.exp \in Nat
    PROVE  Stored(v, d).stored /\ Storable(Stored(v, d).row)
<1> DEFINE store == IF v.warned THEN v.s ELSE d
           one == [store EXCEPT !.soc = Absent]
           two == [one EXCEPT !.volt = Absent]
           three == [two EXCEPT !.cur = Absent]
           four == [three EXCEPT !.bat = Absent]
           owned == IF ctx.battery THEN store ELSE four
           last == [owned EXCEPT !.exp = Gated(@, kept.exp, Has(owned.grid) /\ owned.grid < -50)]
           row == [last EXCEPT !.imp = Gated(@, kept.imp, Has(owned.grid) /\ owned.grid > 50)]
<1>1. Storable(store)
  BY DEF JudgedWell
<1> HIDE DEF store
<1>2. Absent \in Nat /\ May("soc", Absent) /\ May("volt", Absent) /\ May("cur", Absent)
      /\ May("bat", Absent)
  BY DEF May, Absent
<1>3. Storable(one)
  <2>1. Storable([store EXCEPT !["soc"] = Absent])
    BY <1>1, <1>2, StorableSets
  <2> QED BY <2>1
<1> HIDE DEF one
<1>4. Storable(two)
  <2>1. Storable([one EXCEPT !["volt"] = Absent])
    BY <1>2, <1>3, StorableSets
  <2> QED BY <2>1
<1> HIDE DEF two
<1>5. Storable(three)
  <2>1. Storable([two EXCEPT !["cur"] = Absent])
    BY <1>2, <1>4, StorableSets
  <2> QED BY <2>1
<1> HIDE DEF three
<1>6. Storable(four)
  <2>1. Storable([three EXCEPT !["bat"] = Absent])
    BY <1>2, <1>5, StorableSets
  <2> QED BY <2>1
<1> HIDE DEF four
<1>7. Storable(owned)
  BY <1>1, <1>6
<1> HIDE DEF owned
<1>8. \A new, old \in Nat : \A b : Gated(new, old, b) \in Nat
  BY DEF Gated
<1>9. Storable(last)
  <2> DEFINE x == Gated(owned.exp, kept.exp, Has(owned.grid) /\ owned.grid < -50)
  <2>1. x \in Nat
    BY <1>7, <1>8 DEF Storable
  <2> HIDE DEF x
  <2>2. Storable([owned EXCEPT !["exp"] = x])
    BY <1>7, <2>1, StorableSets DEF May
  <2> QED BY <2>2 DEF x
<1> HIDE DEF last
<1>10. Storable(row)
  <2> DEFINE x == Gated(last.imp, kept.imp, Has(owned.grid) /\ owned.grid > 50)
  <2>1. x \in Nat
    BY <1>8, <1>9 DEF Storable
  <2> HIDE DEF x
  <2>2. Storable([last EXCEPT !["imp"] = x])
    BY <1>9, <2>1, StorableSets DEF May
  <2> QED BY <2>2 DEF x
<1> HIDE DEF row
<1>11. Stored(v, d) = [stored |-> TRUE, row |-> row]
  BY DEF Stored, row, last, owned, four, three, two, one, store
<1> QED BY <1>10, <1>11

LEMMA OutcomeIs ==
    ASSUME NEW r, Readable(r), kept.imp \in Nat, kept.exp \in Nat
    PROVE  /\ Outcome(r).stored \in BOOLEAN
           /\ Outcome(r).stored => Storable(Outcome(r).row)
<1> DEFINE d == Normalized(r)
           v == Validated(d)
<1>1. ASSUME MeetsSchema(r) PROVE Stored(v, d).stored /\ Storable(Stored(v, d).row)
  <2>1. Storable(d)
    BY <1>1, SchemaIs, NormalizedIs
  <2> HIDE DEF d
  <2>2. JudgedWell(v)
    BY <2>1, ValidatedIs
  <2> HIDE DEF v
  <2> QED BY <2>1, <2>2, StoredIs
<1>2. Refused.stored = FALSE
  BY DEF Refused
<1>3. Outcome(r) = Refused \/ (MeetsSchema(r) /\ Outcome(r) = Stored(v, d))
  BY DEF Outcome
<1> HIDE DEF d, v
<1>4. ASSUME Stored(v, d).stored PROVE Stored(v, d).stored \in BOOLEAN
  <2>1. Stored(v, d).stored = TRUE
    BY DEF Stored
  <2> QED BY <2>1
<1> QED BY <1>1, <1>2, <1>3, <1>4

-----------------------------------------------------------------------------
(* What the inverter answers. *)

LEMMA ReadableSets ==
    ASSUME NEW r, Readable(r), NEW f, NEW x, f \in Numbered => x \in Int
    PROVE  Readable([r EXCEPT ![f] = x])
BY DEF Readable, IsFrame, Names, Numbered

LEMMA ReadableOther ==
    ASSUME NEW r, Readable(r), NEW f, f \notin Numbered, NEW x
    PROVE  Readable([r EXCEPT ![f] = x])
BY ReadableSets

LEMMA HouseIs ==
    ASSUME charge \in 20..100, NEW scene
    PROVE  Readable(House(scene))
<1> DEFINE h == House(scene)
           load == IF scene = "genset" THEN 6 * Unit ELSE Unit
           bat == CASE ~ctx.battery -> 0 [] scene = "night" -> -Unit [] OTHER -> Unit
           sold == IF scene = "noon" /\ ~ctx.pi30 THEN 2 * Unit ELSE 0
           pv == IF scene = "noon" THEN load + bat + sold ELSE 0
           gen == IF scene = "genset" THEN load + bat ELSE 0
           grid == load + bat - pv - gen
           volt == IF ctx.hv THEN 4800 + 10 * charge ELSE 480 + charge
           cur == (bat * 100) \div volt
           genV == IF gen > 0 THEN 230 ELSE 0
           amps == Triple(Size(grid) \div (ctx.phases * 230))
           watts == Triple(grid \div ctx.phases)
           mode == IF grid > 0 THEN "L" ELSE "B"
           mains == grid > 0 /\ bat > 0
           s2 == pv \div 2
           s1 == pv - pv \div 2
           volts == Triple(230)
<1>0. h = [pv |-> pv, s1 |-> s1, s2 |-> s2, s3 |-> 0,
           grid |-> grid, load |-> load, bat |-> bat, cur |-> cur,
           gen |-> gen, genV |-> genV, bat2 |-> Absent,
           soc |-> charge, volt |-> volt, gridV |-> 231, volts |-> volts,
           amps |-> amps, watts |-> watts,
           dpv |-> 100, imp |-> 30, exp |-> 50, dld |-> 120,
           mode |-> mode, mains |-> mains, pvCharge |-> 0, clock |-> TRUE]
  BY DEF House
<1>1. h = [f \in Names |-> h[f]]
  <2> HIDE DEF h, load, bat, sold, pv, gen, grid, volt, cur, genV, amps, watts, mode, mains, s2, s1, volts
  <2> QED BY <1>0 DEF Names
<1>2. h.soc = charge /\ h.dpv = 100 /\ h.imp = 30 /\ h.exp = 50
      /\ h.volt = IF ctx.hv THEN 4800 + 10 * charge ELSE 480 + charge
  BY DEF House
<1>3. charge \in Int
  OBVIOUS
<1> HIDE DEF h
<1>4. \A f \in Numbered : h[f] \in Int
  BY <1>2, <1>3 DEF Numbered
<1> QED BY <1>1, <1>4 DEF Readable, IsFrame, h

LEMMA RegistersAre ==
    ASSUME NEW h, Readable(h)
    PROVE  Readable(Registers(h))
<1> DEFINE metered == ~ctx.exportOnly /\ ~ctx.pi30
           one == [h EXCEPT !.gen = Signed(@)]
           two == [one EXCEPT !.grid = IF metered THEN @ \div ctx.gridScale ELSE Absent]
           three == [two EXCEPT !.watts = IF metered THEN Triple(@[1] \div ctx.gridScale) ELSE <<>>]
           four == [three EXCEPT !.load = IF ctx.exportOnly THEN Absent ELSE @]
           five == [four EXCEPT !.soc = IF ctx.battery THEN @ ELSE Absent]
           own == [five EXCEPT !.volt = IF ctx.battery THEN @ ELSE 0]
<1>1. Readable(one)
  BY ReadableOther DEF Numbered
<1> HIDE DEF one
<1>2. Readable(two)
  BY <1>1, ReadableOther DEF Numbered
<1> HIDE DEF two
<1>3. Readable(three)
  BY <1>2, ReadableOther DEF Numbered
<1> HIDE DEF three
<1>4. Readable(four)
  BY <1>3, ReadableOther DEF Numbered
<1> HIDE DEF four
<1>5. Readable(five)
  <2> DEFINE x == IF ctx.battery THEN four.soc ELSE Absent
  <2>1. x \in Int
    BY <1>4 DEF Readable, Numbered, Absent
  <2> HIDE DEF x
  <2>2. Readable([four EXCEPT !["soc"] = x])
    BY <1>4, <2>1, ReadableSets
  <2> QED BY <2>2 DEF x
<1> HIDE DEF five
<1>6. Readable(own)
  <2> DEFINE x == IF ctx.battery THEN five.volt ELSE 0
  <2>1. x \in Int
    BY <1>5 DEF Readable, Numbered
  <2> HIDE DEF x
  <2>2. Readable([five EXCEPT !["volt"] = x])
    BY <1>5, <2>1, ReadableSets
  <2> QED BY <2>2 DEF x
<1> HIDE DEF own
<1>7. Readable(Flipped(own))
  <2> DEFINE bat == [own EXCEPT !.bat = -@]
             cur == [bat EXCEPT !.cur = -@]
  <2>1. Readable(bat)
    BY <1>6, ReadableOther DEF Numbered
  <2> HIDE DEF bat
  <2>2. Readable(cur)
    BY <2>1, ReadableOther DEF Numbered
  <2> QED BY <2>2 DEF Flipped, bat
<1>8. Registers(h) = IF ctx.solarman # ctx.inverted THEN Flipped(own) ELSE own
  BY DEF Registers, own, five, four, three, two, one
<1> QED BY <1>6, <1>7, <1>8

LEMMA JunkIs ==
    ASSUME NEW r, Readable(r), NEW j \in Junk(r)
    PROVE  Readable(j.frame)
<1> DEFINE With(f, xs) == {[field |-> f, frame |-> [r EXCEPT ![f] = x]] : x \in xs}
<1>1. ASSUME NEW f, NEW xs, f \in Numbered => xs \subseteq Int, NEW i \in With(f, xs)
      PROVE  Readable(i.frame)
  <2>1. PICK x \in xs : i = [field |-> f, frame |-> [r EXCEPT ![f] = x]]
    BY <1>1
  <2>2. Readable([r EXCEPT ![f] = x])
    BY <1>1, <2>1, ReadableSets
  <2> QED BY <2>1, <2>2
<1> DEFINE A == UNION {With(f, {65535}) : f \in {"pv", "s1", "s2", "s3", "soc", "volt", "gridV", "dpv", "imp"}}
           B == UNION {With(f, {32767, -32768, 50001}) : f \in {"grid", "bat", "load"}}
           C == IF r.pv = 0 THEN With("dpv", {r.imp}) ELSE {}
           D == IF Len(r.watts) < 2 THEN {}
                ELSE With("watts", {[r.watts EXCEPT ![1] = @ + 30000]})
                     \cup With("volts", {[r.volts EXCEPT ![1] = x] : x \in {20, 130}})
<1>0. Junk(r) = A \cup B \cup With("gen", IF r.gen = 0 THEN {-1, 400} ELSE {-1})
                \cup With("bat2", {32767}) \cup With("exp", {65535, 400})
                \cup With("dld", {65535, 10 * r.load}) \cup With("amps", {[r.amps EXCEPT ![1] = 500]})
                \cup C \cup D
  BY DEF Junk
<1> HIDE DEF With
<1>2. \/ j \in A \/ j \in B
      \/ \E xs : \E f \in {"gen", "bat2", "dld", "amps", "watts", "volts"} : j \in With(f, xs)
      \/ j \in With("exp", {65535, 400}) \/ j \in With("dpv", {r.imp})
  <2>1. j \in D => \E xs : j \in With("watts", xs) \/ j \in With("volts", xs)
    OBVIOUS
  <2>2. j \in C => j \in With("dpv", {r.imp})
    OBVIOUS
  <2> HIDE DEF A, B, C, D
  <2> QED BY <1>0, <2>1, <2>2
<1>3. CASE j \in A
  <2>1. PICK f : j \in With(f, {65535})
    BY <1>3
  <2> QED BY <1>1, <2>1
<1>4. CASE j \in B
  <2>1. PICK f \in {"grid", "bat", "load"} : j \in With(f, {32767, -32768, 50001})
    BY <1>4
  <2> QED BY <1>1, <2>1
<1>5. CASE \E xs : \E f \in {"gen", "bat2", "dld", "amps", "watts", "volts"} : j \in With(f, xs)
  <2>1. PICK xs, f : j \in With(f, xs) /\ f \notin Numbered
    BY <1>5 DEF Numbered
  <2> QED BY <1>1, <2>1
<1>6. CASE j \in With("exp", {65535, 400})
  BY <1>1, <1>6
<1>7. CASE j \in With("dpv", {r.imp})
  <2>1. r.imp \in Int
    BY DEF Readable, Numbered
  <2> QED BY <1>1, <1>7, <2>1
<1> QED BY <1>2, <1>3, <1>4, <1>5, <1>6, <1>7

FaultKinds == {"none", "clock", "codes", "dark", "blank", "halved", "third", "junk"}

LEMMA BlockIs ==
    ASSUME NEW r, Readable(r), NEW x \in Int, NEW y \in Nat \ {0}
    PROVE  Readable(Block(r, x, y))
<1> DEFINE t == Block(r, x, y)
<1>1. t = [f \in DOMAIN r |-> IF f \in Numbers /\ Has(r[f]) THEN (r[f] * x) \div y ELSE r[f]]
  BY DEF Block
<1>2. DOMAIN r = Names
  BY DEF Readable, IsFrame
<1>3. t = [f \in Names |-> t[f]]
  BY <1>1, <1>2
<1>4. ASSUME NEW f \in Numbered PROVE t[f] \in Int
  <2>1. f \in Names /\ r[f] \in Int
    BY DEF Readable, Numbered, Names
  <2>2. t[f] = (r[f] * x) \div y \/ t[f] = r[f]
    BY <1>1, <1>2, <2>1
  <2>3. r[f] * x \in Int
    BY <2>1
  <2>4. (r[f] * x) \div y \in Int
    BY <2>3
  <2> QED BY <2>1, <2>2, <2>4
<1> HIDE DEF t
<1> QED BY <1>3, <1>4 DEF Readable, IsFrame, t

LEMMA FaultIs ==
    ASSUME NEW r, Readable(r), NEW fault \in Faults(r)
    PROVE  Readable(fault.frame) /\ fault.kind \in FaultKinds
<1> DEFINE unset == [r EXCEPT !.clock = FALSE]
           codes == [f \in DOMAIN r |-> IF f \in Powers THEN 32767 ELSE r[f]]
           dark == [r EXCEPT !.pv = 0, !.s1 = 0, !.s2 = 0]
           blank == Block(r, 0, 1)
           halved == Block(r, 1, 2)
           third == Third(r, r.pv)
           more == Third(r, r.pv + Unit)
           junk == {[kind |-> "junk", field |-> j.field, frame |-> j.frame] : j \in Junk(r)}
<1>1. Faults(r) = {Fault("none", r), Fault("clock", unset), Fault("codes", codes),
                   Fault("dark", dark), Fault("blank", blank), Fault("halved", halved),
                   Fault("third", third), Fault("third", more)} \cup junk
  BY DEF Faults
<1>2. Readable(unset)
  BY ReadableOther DEF Numbered
<1>3. Readable(codes)
  BY DEF Readable, IsFrame, Numbered, Powers, Names
<1>4. Readable(dark)
  <2> DEFINE one == [r EXCEPT !.pv = 0]
             two == [one EXCEPT !.s1 = 0]
             three == [two EXCEPT !.s2 = 0]
  <2>1. Readable(one)
    BY ReadableOther DEF Numbered
  <2> HIDE DEF one
  <2>2. Readable(two)
    BY <2>1, ReadableOther DEF Numbered
  <2> HIDE DEF two
  <2>3. Readable(three)
    BY <2>2, ReadableOther DEF Numbered
  <2> QED BY <2>3 DEF two, one
<1>5. Readable(blank) /\ Readable(halved)
  BY BlockIs
<1>6. ASSUME NEW x PROVE Readable(Third(r, x))
  <2> DEFINE one == [r EXCEPT !.s3 = Unit]
             two == [one EXCEPT !.pv = x]
  <2>1. Readable(one)
    BY ReadableOther DEF Numbered
  <2> HIDE DEF one
  <2>2. Readable(two)
    BY <2>1, ReadableOther DEF Numbered
  <2> QED BY <2>2 DEF Third, one
<1>7. CASE fault \in junk
  <2>1. PICK j \in Junk(r) : fault = [kind |-> "junk", field |-> j.field, frame |-> j.frame]
    BY <1>7
  <2>2. Readable(j.frame)
    BY JunkIs
  <2> QED BY <2>1, <2>2 DEF FaultKinds
<1> HIDE DEF unset, codes, dark, blank, halved, junk
<1>8. CASE fault \notin junk
  <2>1. Readable(third) /\ Readable(more)
    BY <1>6
  <2> HIDE DEF third, more
  <2>2. \A kind, frame : Fault(kind, frame).kind = kind /\ Fault(kind, frame).frame = frame
    BY DEF Fault
  <2>3. \E kind \in FaultKinds : \E frame \in {r, unset, codes, dark, blank, halved, third, more} :
           fault = Fault(kind, frame)
    BY <1>1, <1>8 DEF FaultKinds
  <2> QED BY <1>2, <1>3, <1>4, <1>5, <2>1, <2>2, <2>3
<1> QED BY <1>7, <1>8

-----------------------------------------------------------------------------
(* The steps. *)

LEMMA ValidationStarts == ValidationInit => ValidationTypeOK
BY DEF ValidationInit, ValidationTypeOK, NothingKept, NoVerdict

LEMMA JudgesKeeps == ASSUME ValidationTypeOK, Judges PROVE ValidationTypeOK'
<1>0. PICK scene : \E fault \in Faults(Registers(House(scene))) :
         LET got == Outcome(fault.frame) IN
         /\ verdict'.kind = fault.kind
         /\ kept' = IF ~got.stored THEN kept
                    ELSE [soc |-> OrNothing(got.row.soc), volt |-> OrNothing(got.row.volt),
                          imp |-> got.row.imp, exp |-> got.row.exp]
  BY DEF Judges
<1>1. PICK fault \in Faults(Registers(House(scene))) :
         LET got == Outcome(fault.frame) IN
         /\ verdict'.kind = fault.kind
         /\ kept' = IF ~got.stored THEN kept
                    ELSE [soc |-> OrNothing(got.row.soc), volt |-> OrNothing(got.row.volt),
                          imp |-> got.row.imp, exp |-> got.row.exp]
  BY <1>0
<1>2. charge \in 20..100 /\ kept.imp \in Nat /\ kept.exp \in Nat
  BY ValidationAssumption DEF ValidationTypeOK
<1>3. Readable(fault.frame) /\ fault.kind \in FaultKinds
  BY <1>2, HouseIs, RegistersAre, FaultIs
<1> DEFINE got == Outcome(fault.frame)
<1>4. got.stored => Storable(got.row)
  BY <1>2, <1>3, OutcomeIs
<1> HIDE DEF got
<1>5. kept' \in [soc : 0..100, volt : Nat, imp : Nat, exp : Nat]
  <2>1. CASE ~got.stored
    <3>1. kept' = kept
      BY <1>1, <2>1 DEF got
    <3> QED BY <3>1 DEF ValidationTypeOK
  <2>2. CASE got.stored
    <3>1. kept' = [soc |-> OrNothing(got.row.soc), volt |-> OrNothing(got.row.volt),
                   imp |-> got.row.imp, exp |-> got.row.exp]
      BY <1>1, <2>2 DEF got
    <3>2. /\ got.row.soc \in 0..100 \cup {Absent} /\ got.row.volt \in Nat
          /\ got.row.imp \in Nat /\ got.row.exp \in Nat
      BY <1>4, <2>2 DEF Storable
    <3>3. OrNothing(got.row.soc) \in 0..100 /\ OrNothing(got.row.volt) \in Nat
      BY <3>2 DEF OrNothing, Has, Absent
    <3> QED BY <3>1, <3>2, <3>3
  <2> QED BY <2>1, <2>2
<1>6. ctx' \in Inverters /\ charge' \in Charges
  BY DEF Judges, ValidationTypeOK
<1> QED BY <1>1, <1>3, <1>5, <1>6 DEF ValidationTypeOK, FaultKinds

LEMMA ValidationStays == ValidationTypeOK /\ [ValidationNext]_validationVars => ValidationTypeOK'
<1> SUFFICES ASSUME ValidationTypeOK, [ValidationNext]_validationVars PROVE ValidationTypeOK'
  OBVIOUS
<1>1. CASE Passes
  BY <1>1 DEF Passes, ValidationTypeOK, NoVerdict
<1>2. CASE UNCHANGED validationVars
  BY <1>2 DEF validationVars, ValidationTypeOK
<1> QED BY <1>1, <1>2, JudgesKeeps DEF ValidationNext

ValidationBehaves == ValidationInit /\ [][ValidationNext]_validationVars

\* Whatever a frame holds, what is kept of it for the next is a charge of 0 to
\* 100, a voltage and counters that are not negative: each stage of the
\* validation keeps them so, a corrected field included.
THEOREM KeptIsPlausible == ValidationBehaves => []ValidationTypeOK
BY ValidationStarts, ValidationStays, PTL DEF ValidationBehaves

(***************************************************************************)
(* All of them.                                                            *)
(***************************************************************************)

LEMMA FieldMoves ==
    /\ FieldInit => /\ LineInit /\ HubInit /\ HvInit /\ IngestInit /\ RosterInit
                    /\ ValidationInit
    /\ [FieldNext]_fieldVars => /\ [LineNext]_lineVars /\ [HubNext]_hubVars
                                /\ [HvNext]_hvVars /\ [IngestNext]_ingestVars
                                /\ [RosterNext]_rosterVars
                                /\ [ValidationNext]_validationVars
BY DEF FieldInit, FieldNext, fieldVars

\* The line, the hub, the logger, the readings, the packs and the validation are
\* well typed side by side.
THEOREM FieldTypeCorrect == FieldSpec => []FieldTypeOK
<1>1. FieldSpec => /\ LineSpec /\ HubSpec /\ HvSpec /\ IngestSpec /\ RosterSpec
                   /\ ValidationBehaves
  BY FieldMoves, PTL DEF FieldSpec, LineSpec, HubSpec, HvSpec, IngestSpec, RosterSpec,
                         ValidationBehaves
<1>2. (LineTypeOK /\ HubTypeOK /\ HvTypeOK /\ IngestTypeOK /\ RosterTypeOK
      /\ ValidationTypeOK) => FieldTypeOK
  BY DEF FieldTypeOK
<1> QED BY <1>1, <1>2, LineTypeCorrect, HubTypeCorrect, LoggerTypeCorrect, IngestTypeCorrect,
           RosterTypeCorrect, KeptIsPlausible, PTL
=============================================================================
