----------------------- MODULE EdgeCommandQueue_proofs -----------------------
(***************************************************************************)
(* No dispatch sleeps through its answer and a box sees its commands in    *)
(* order, for any number of commands, boxes, requests at once and senders; *)
(* a box that has one request under way at a time is handed a command      *)
(* MaxDeliveries times at most; and the queue implements its promise.      *)
(***************************************************************************)
EXTENDS EdgeCommandQueue, TLAPS

Jobs == [op: {"none", "poll", "ack"}, cmd: Commands \cup {Null},
         wakes: SUBSET Commands, answer: Answers]
Table == [Commands -> Row \cup {Null}]

Waiting(c) == wait[c] \in {"starting", "reading", "read", "asleep"}

\* What is in the table or waited for was queued.
QueuedFirst == \A c \in Commands : rows[c] # Null \/ wait[c] # "none" => c \in ToSet(queued)

\* A half done method is about a command, and only a poll carries ids to wake.
PollsWake ==
    \A q \in Connections : /\ job[q].op # "none" => job[q].cmd \in Commands
                           /\ job[q].op # "poll" => job[q].wakes = {}

\* A dispatched command outlives the wait for it.
OutlivesWait ==
    \A c \in Commands : rows[c] # Null /\ Waiting(c) =>
        IF wait[c] = "asleep"
        THEN timer[c] <= AckTimeout /\ rows[c].left + AckTimeout >= DispatchTtl + timer[c]
        ELSE rows[c].left >= DispatchTtl

\* The row is read before the dispatch sleeps: from then on whatever ends the
\* command has its wake under way.
WakeComes(c) == event[c] \/ c \in waking \/ \E q \in Connections : c \in job[q].wakes
EndIsTold == \A c \in Commands : wait[c] \in {"read", "asleep"} /\ IsDone(c) => WakeComes(c)

QueueInv == QueueTypeOK /\ QueuedFirst /\ PollsWake /\ OutlivesWait /\ EndIsTold

-----------------------------------------------------------------------------
(* Lemmas about rows and the sweep. *)

LEMMA ConstantTypes ==
    /\ AckTimeout \in Nat /\ RedeliverAfter \in Nat /\ DispatchTtl \in Nat /\ MaxDeliveries \in Nat
    /\ AckTimeout > 0 /\ RedeliverAfter > 0 /\ MaxDeliveries > 0 /\ AckTimeout < DispatchTtl
    /\ Ttls \subseteq Nat
  BY QueueAssumption

LEMMA RowTypes ==
    ASSUME rows \in Table, NEW c \in Commands, rows[c] # Null
    PROVE  /\ rows[c] \in Row
           /\ rows[c].box \in Devices /\ rows[c].kind \in {"dedup", "other"}
           /\ rows[c].state \in {"pending", "delivered"} \cup Done
           /\ rows[c].due \in Nat /\ rows[c].left \in Nat /\ rows[c].given \in Nat
  BY DEF Table, Row

\* The sweep keeps a row, but for its state.
LEMMA SweepType ==
    ASSUME rows \in Table, NEW c \in Commands, rows[c] # Null
    PROVE  /\ AfterSweep(c) \in Row
           /\ AfterSweep(c).box = rows[c].box /\ AfterSweep(c).left = rows[c].left
           /\ AfterSweep(c).given = rows[c].given
           /\ AfterSweep(c).state \in {rows[c].state, "pending", "expired"}
<1>1. rows[c] \in Row
  BY RowTypes
<1>2. \A s \in {"pending", "delivered"} \cup Done :
         LET r == [rows[c] EXCEPT !.state = s] IN
           /\ r \in Row /\ r.box = rows[c].box /\ r.left = rows[c].left
           /\ r.given = rows[c].given /\ r.state = s
  BY <1>1 DEF Row
<1>3. "expired" \in {"pending", "delivered"} \cup Done
  BY DEF Done
<1> QED
  BY <1>1, <1>2, <1>3 DEF AfterSweep

\* What the sweep ends and does not list has no time left.
LEMMA SweepEnds ==
    ASSUME rows \in Table, NEW c \in Commands, NEW b \in Devices,
           rows[c] # Null, rows[c].box = b, rows[c].state \notin Done,
           AfterSweep(c).state \in Done
    PROVE  c \in SweepExpires(b) \/ rows[c].left = 0
<1>1. rows[c] \in Row
  BY RowTypes
<1>2. CASE Stale(c) /\ rows[c].given >= MaxDeliveries
  BY <1>2 DEF SweepExpires, Held
<1>3. CASE ~(Stale(c) /\ rows[c].given >= MaxDeliveries) /\ rows[c].left # 0
  <2>1. AfterSweep(c) \in {rows[c], [rows[c] EXCEPT !.state = "pending"]}
    BY <1>3 DEF AfterSweep
  <2>2. [rows[c] EXCEPT !.state = "pending"].state = "pending"
    BY <1>1 DEF Row
  <2> QED
    BY <2>1, <2>2 DEF Done, Answers
<1> QED
  BY <1>2, <1>3

LEMMA AppendSet ==
    ASSUME NEW s \in Seq(Commands), NEW c \in Commands
    PROVE  /\ Append(s, c) \in Seq(Commands)
           /\ ToSet(Append(s, c)) = ToSet(s) \cup {c}
<1>1. /\ Append(s, c) \in Seq(Commands)
      /\ DOMAIN Append(s, c) = (DOMAIN s) \cup {Len(s) + 1}
      /\ \A i \in DOMAIN s : Append(s, c)[i] = s[i]
      /\ Append(s, c)[Len(s) + 1] = c
  OBVIOUS
<1> QED
  BY <1>1 DEF ToSet

-----------------------------------------------------------------------------
(* Type correctness, action by action. *)

LEMMA InitTyped == QueueInit => QueueTypeOK
<1> SUFFICES ASSUME QueueInit PROVE QueueTypeOK
  OBVIOUS
<1>1. job \in [Connections -> Jobs]
  BY DEF QueueInit, Idle, Jobs, Answers
<1> QED
  BY <1>1 DEF QueueInit, QueueTypeOK, Jobs

\* A new row is pending, undelivered, and has its whole time left.
LEMMA EnqueueAdds ==
    ASSUME QueueTypeOK, NEW c \in Commands, NEW b \in Devices,
           NEW kind \in {"dedup", "other"}, NEW ttl \in Nat, Enqueue(c, b, kind, ttl)
    PROVE  /\ rows' \in Table /\ queued' \in Seq(Commands)
           /\ ToSet(queued') = ToSet(queued) \cup {c} /\ c \notin ToSet(queued)
           /\ rows'[c] # Null /\ rows'[c].state = "pending" /\ rows'[c].left = ttl
           /\ rows'[c].given = 0
           /\ \A d \in Commands \ {c} : rows'[d] = rows[d]
<1> DEFINE new == [box |-> b, kind |-> kind, state |-> "pending",
                   due |-> 0, left |-> ttl, given |-> 0]
<1>1. new \in Row /\ new # Null
  BY NullIsNoRow DEF Row, Done
<1>2. rows' = [rows EXCEPT ![c] = new] /\ queued' = Append(queued, c) /\ c \notin ToSet(queued)
  BY DEF Enqueue
<1>3. rows \in Table /\ queued \in Seq(Commands)
  BY DEF QueueTypeOK, Table
<1>4. /\ new.state = "pending" /\ new.left = ttl /\ new.given = 0
  OBVIOUS
<1> HIDE DEF new
<1>5. rows' \in Table /\ rows'[c] = new /\ \A d \in Commands \ {c} : rows'[d] = rows[d]
  BY <1>1, <1>2, <1>3 DEF Table
<1> QED
  BY <1>1, <1>2, <1>3, <1>4, <1>5, AppendSet

LEMMA QueuingTyped ==
    ASSUME QueueTypeOK, NEW c \in Commands, NEW b \in Devices, NEW ttl \in Nat
    PROVE  /\ AsyncEnqueue(c, b, ttl) => QueueTypeOK'
           /\ Dispatch(c, b) => QueueTypeOK'
           /\ \A s \in Senders : EnqueueNewest(s, c, ttl) => QueueTypeOK'
<1>1. CASE AsyncEnqueue(c, b, ttl)
  BY <1>1, EnqueueAdds DEF AsyncEnqueue, waiters, QueueTypeOK, Table
<1>2. CASE Dispatch(c, b)
  <2>1. rows' \in Table /\ queued' \in Seq(Commands)
    BY <1>2, EnqueueAdds, ConstantTypes DEF Dispatch
  <2> QED
    BY <1>2, <2>1 DEF Dispatch, QueueTypeOK, Table
<1>3. ASSUME NEW s \in Senders, EnqueueNewest(s, c, ttl) PROVE QueueTypeOK'
  <2>1. sender[s] \in Devices
    BY <1>3 DEF EnqueueNewest, QueueTypeOK
  <2>2. rows' \in Table /\ queued' \in Seq(Commands)
    BY <1>3, <2>1, EnqueueAdds DEF EnqueueNewest
  <2> QED
    BY <1>3, <2>2 DEF EnqueueNewest, waiters, QueueTypeOK, Table
<1> QED
  BY <1>1, <1>2, <1>3

LEMMA SupersedeTyped ==
    ASSUME QueueTypeOK, NEW s \in Senders, NEW b \in Devices, AsyncSupersede(s, b)
    PROVE  /\ QueueTypeOK'
           /\ \A c \in Commands :
                 \/ rows'[c] = rows[c]
                 \/ /\ rows[c] # Null /\ rows[c].state = "pending" /\ c \in waking'
                    /\ rows'[c] # Null /\ rows'[c].state = "expired"
                    /\ rows'[c].left = rows[c].left /\ rows'[c].given = rows[c].given
                    /\ rows'[c].box = rows[c].box
           /\ waking \subseteq waking'
<1> DEFINE old == {c \in InState("pending") : rows[c].box = b /\ rows[c].kind = "dedup"}
<1>1. /\ rows' = [c \in Commands |->
                     IF c \in old THEN [rows[c] EXCEPT !.state = "expired"] ELSE rows[c]]
      /\ waking' = waking \cup old
      /\ sender' = [sender EXCEPT ![s] = b]
      /\ UNCHANGED <<queued, job, handed, wait, event, timer>>
  BY DEF AsyncSupersede, waiters
<1>2. /\ old \subseteq Commands
      /\ \A c \in old : rows[c] # Null /\ rows[c].state = "pending"
  BY DEF InState, Held
<1> HIDE DEF old
<1>3. ASSUME NEW c \in old
      PROVE  LET r == [rows[c] EXCEPT !.state = "expired"] IN
             r \in Row /\ r # Null /\ r.state = "expired" /\ r.left = rows[c].left
             /\ r.given = rows[c].given /\ r.box = rows[c].box
  <2>1. rows[c] \in Row
    BY <1>2, RowTypes DEF QueueTypeOK, Table
  <2> QED
    BY <2>1, NullIsNoRow DEF Row, Done
<1>4. rows' \in Table
  BY <1>1, <1>3 DEF QueueTypeOK, Table
<1> QED
  BY <1>1, <1>2, <1>3, <1>4 DEF QueueTypeOK, Table

LEMMA ForgetTyped ==
    ASSUME QueueTypeOK, NEW b \in Devices, AsyncForgetDevice(b)
    PROVE  /\ QueueTypeOK'
           /\ \A c \in Commands : rows'[c] = rows[c] \/ (rows'[c] = Null /\ c \in waking')
           /\ waking \subseteq waking'
<1> DEFINE gone == {c \in Held : rows[c].box = b}
<1>1. /\ rows' = [c \in Commands |-> IF c \in gone THEN Null ELSE rows[c]]
      /\ waking' = waking \cup gone /\ gone \subseteq Commands
      /\ UNCHANGED <<queued, job, sender, handed, wait, event, timer>>
  BY DEF AsyncForgetDevice, waiters, Held
<1> HIDE DEF gone
<1>2. rows' \in Table /\ waking' \subseteq Commands
  BY <1>1 DEF QueueTypeOK, Table
<1>3. QueueTypeOK'
  BY <1>1, <1>2 DEF QueueTypeOK, Table
<1>4. \A c \in Commands : rows'[c] = IF c \in gone THEN Null ELSE rows[c]
  BY <1>1
<1>5. waking \subseteq waking' /\ gone \subseteq waking'
  BY <1>1
<1> QED
  BY <1>3, <1>4, <1>5

LEMMA WaiterTyped ==
    ASSUME QueueTypeOK, NEW c \in Commands, WaiterStep(c) \/ Wake(c)
    PROVE  QueueTypeOK'
<1>1. UNCHANGED <<rows, queued, job, sender, handed>>
  BY DEF WaiterStep, WaitStarts, WaitReads, WaitSleeps, WaitEnds, Wake
<1>2. wait' \in [Commands -> {"none", "starting", "reading", "read", "asleep", "over"}]
  BY DEF WaiterStep, WaitStarts, WaitReads, WaitSleeps, WaitEnds, Wake, Return, QueueTypeOK
<1>3. timer' \in [Commands -> Nat]
  BY ConstantTypes
     DEF WaiterStep, WaitStarts, WaitReads, WaitSleeps, WaitEnds, Wake, Return, QueueTypeOK
<1>4. event' \in [Commands -> BOOLEAN] /\ waking' \subseteq Commands
  <2>1. CASE Wake(c)
    <3>1. HasEvent(c) \in BOOLEAN
      BY DEF HasEvent
    <3> QED
      BY <2>1, <3>1 DEF Wake, QueueTypeOK
  <2>2. CASE WaiterStep(c)
    BY <2>2 DEF WaiterStep, WaitStarts, WaitReads, WaitSleeps, WaitEnds, Return, QueueTypeOK
  <2> QED
    BY <2>1, <2>2
<1> QED
  BY <1>1, <1>2, <1>3, <1>4 DEF QueueTypeOK

LEMMA JobTyped ==
    ASSUME QueueTypeOK, NEW q \in Connections
    PROVE  /\ job[q].cmd \in Commands \cup {Null} /\ job[q].wakes \subseteq Commands
           /\ job[q].answer \in Answers
           /\ Idle.op = "none" /\ Idle.wakes = {}
           /\ [job EXCEPT ![q] = Idle] \in [Connections -> Jobs]
           /\ \A c \in Commands, W \in SUBSET Commands, a \in Answers, op \in {"poll", "ack"} :
                 [job EXCEPT ![q] = [op |-> op, cmd |-> c, wakes |-> W, answer |-> a]]
                    \in [Connections -> Jobs]
<1>1. job \in [Connections -> Jobs] /\ Idle \in Jobs /\ Idle.op = "none" /\ Idle.wakes = {}
  BY DEF QueueTypeOK, Jobs, Idle, Answers
<1>2. job[q] \in Jobs
  BY <1>1
<1>3. \A c \in Commands, W \in SUBSET Commands, a \in Answers, op \in {"poll", "ack"} :
        [op |-> op, cmd |-> c, wakes |-> W, answer |-> a] \in Jobs
  BY DEF Jobs
<1>4. job[q].cmd \in Commands \cup {Null} /\ job[q].wakes \subseteq Commands
         /\ job[q].answer \in Answers
  BY <1>2 DEF Jobs
<1> HIDE DEF Jobs
<1> QED
  BY <1>1, <1>3, <1>4

\* A poll keeps the rows but for states; it lists what it ends, or it had no
\* time left.
LEMMA PollSelectsTyped ==
    ASSUME QueueTypeOK, NEW q \in Connections, NEW b \in Devices, PollSelects(q, b)
    PROVE  /\ QueueTypeOK'
           /\ \A c \in Commands :
                 rows[c] # Null => /\ rows'[c] # Null /\ rows'[c].left = rows[c].left
                                   /\ rows'[c].given = rows[c].given
                                   /\ rows'[c].box = rows[c].box
           /\ \A c \in Commands : rows[c] = Null => rows'[c] = Null
           /\ waking \subseteq waking'
           /\ job[q].op = "none"
           /\ \A p \in Connections \ {q} : job'[p] = job[p]
           /\ job' = job \/ (job'[q].op = "poll" /\ job'[q].cmd \in Commands)
           /\ \/ SweepExpires(b) \subseteq waking'
              \/ job'[q].wakes = SweepExpires(b)
<1>1. /\ job[q].op = "none" /\ rows' = Swept(b)
      /\ UNCHANGED <<queued, sender, handed, wait, event, timer>>
  BY DEF PollSelects, waiters
<1>2. rows \in Table /\ job \in [Connections -> Jobs]
  BY DEF QueueTypeOK, Table, Jobs
<1>3. ASSUME NEW c \in Commands
      PROVE  /\ rows'[c] \in Row \cup {Null}
             /\ rows[c] # Null => /\ rows'[c] # Null /\ rows'[c].left = rows[c].left
                                  /\ rows'[c].given = rows[c].given
                                  /\ rows'[c].box = rows[c].box
             /\ rows[c] = Null => rows'[c] = Null
  <2>1. rows'[c] = IF c \in Held /\ rows[c].box = b THEN AfterSweep(c) ELSE rows[c]
    BY <1>1 DEF Swept
  <2>2. CASE c \in Held /\ rows[c].box = b
    <3>1. rows'[c] = AfterSweep(c) /\ rows[c] # Null
      BY <2>1, <2>2 DEF Held
    <3>2. AfterSweep(c) \in Row /\ AfterSweep(c).left = rows[c].left
             /\ AfterSweep(c).given = rows[c].given /\ AfterSweep(c).box = rows[c].box
      BY <3>1, <1>2, SweepType
    <3> QED
      BY <3>1, <3>2, NullIsNoRow
  <2>3. CASE ~(c \in Held /\ rows[c].box = b)
    BY <2>1, <2>3, <1>2 DEF Table
  <2> QED
    BY <2>2, <2>3
<1>4. rows' \in Table
  BY <1>1, <1>3 DEF Swept, Table
<1>5. SweepExpires(b) \in SUBSET Commands
  BY DEF SweepExpires, Held
<1>6. CASE UNCHANGED job /\ waking' = waking \cup SweepExpires(b)
  <2>1. QueueTypeOK'
    BY <1>1, <1>2, <1>4, <1>5, <1>6 DEF QueueTypeOK, Table, Jobs
  <2> QED
    BY <2>1, <1>1, <1>3, <1>6
<1>7. ASSUME NEW c \in Commands, UNCHANGED waking,
             job' = [job EXCEPT ![q] = [op |-> "poll", cmd |-> c,
                                        wakes |-> SweepExpires(b), answer |-> "failed"]]
      PROVE  /\ job' \in [Connections -> Jobs]
             /\ job'[q].op = "poll" /\ job'[q].wakes = SweepExpires(b)
             /\ job'[q].cmd \in Commands
             /\ \A p \in Connections \ {q} : job'[p] = job[p]
  BY <1>2, <1>5, <1>7, JobTyped DEF Answers
<1>8. CASE ~(UNCHANGED job /\ waking' = waking \cup SweepExpires(b))
  <2>1. UNCHANGED waking
    BY <1>8 DEF PollSelects
  <2>2. /\ job' \in [Connections -> Jobs]
        /\ job'[q].op = "poll" /\ job'[q].wakes = SweepExpires(b)
        /\ job'[q].cmd \in Commands
        /\ \A p \in Connections \ {q} : job'[p] = job[p]
    BY <1>7, <1>8 DEF PollSelects
  <2>3. QueueTypeOK'
    BY <1>1, <1>2, <1>4, <2>1, <2>2 DEF QueueTypeOK, Table, Jobs
  <2> QED
    BY <2>1, <2>2, <2>3, <1>1, <1>3
<1> QED
  BY <1>6, <1>8

\* The statement that ends a poll or an ack writes one row, and says so.
LEMMA JobStepTyped ==
    ASSUME QueueTypeOK, NEW q \in Connections, JobStep(q), PollsWake
    PROVE  /\ QueueTypeOK'
           /\ \A c \in Commands :
                 rows[c] # Null => /\ rows'[c] # Null /\ rows'[c].left = rows[c].left
           /\ \A c \in Commands : rows[c] = Null => rows'[c] = Null
           /\ \A c \in Commands :
                 rows'[c] # rows[c] => c \in waking' \/ rows'[c].state = "delivered"
           /\ waking \subseteq waking'
           /\ \A p \in Connections \ {q} : job'[p] = job[p]
           /\ job'[q].op = "none" /\ job'[q].wakes = {}
           /\ job[q].op = "poll" => job[q].wakes \subseteq waking'
<1> DEFINE c == job[q].cmd
<1>1. /\ job[q].op \in {"poll", "ack"} /\ job' = [job EXCEPT ![q] = Idle]
      /\ UNCHANGED <<queued, sender, wait, event, timer>>
      /\ job[q].op = "poll" => waking' = waking \cup job[q].wakes
      /\ waking \subseteq waking' /\ handed \subseteq handed'
  BY DEF JobStep, PollDelivers, AckWrites, waiters
<1>2. /\ job' \in [Connections -> Jobs] /\ job'[q].op = "none" /\ job'[q].wakes = {}
      /\ \A p \in Connections \ {q} : job'[p] = job[p]
      /\ c \in Commands \cup {Null} /\ job[q].wakes \subseteq Commands
      /\ job[q].answer \in Answers
  BY <1>1, JobTyped DEF QueueTypeOK, Jobs
<1>3. rows \in Table
  BY DEF QueueTypeOK, Table
<1>4. c \in Commands
  BY <1>1 DEF PollsWake
<1>5. ASSUME rows[c] # Null
      PROVE  /\ Given(rows[c]) \in Row /\ Given(rows[c]).left = rows[c].left
             /\ Given(rows[c]).state = "delivered"
             /\ Given(rows[c]).given = rows[c].given + 1
             /\ \A a \in Answers : LET r == [rows[c] EXCEPT !.state = a] IN
                   r \in Row /\ r.left = rows[c].left
  <2>1. rows[c] \in Row
    BY <1>3, <1>4, <1>5, RowTypes
  <2> HIDE DEF c
  <2>2. Given(rows[c]) = [rows[c] EXCEPT !.state = "delivered", !.due = RedeliverAfter,
                                         !.given = rows[c].given + 1]
    BY DEF Given
  <2>3. rows[c].given + 1 \in Nat
    BY <2>1 DEF Row
  <2>4. /\ Given(rows[c]) \in Row /\ Given(rows[c]).left = rows[c].left
        /\ Given(rows[c]).state = "delivered"
        /\ Given(rows[c]).given = rows[c].given + 1
    BY <2>1, <2>2, <2>3, ConstantTypes DEF Row
  <2>5. \A a \in Answers : LET r == [rows[c] EXCEPT !.state = a] IN
                   r \in Row /\ r.left = rows[c].left
    BY <2>1 DEF Row, Done
  <2> QED
    BY <2>4, <2>5
<1>6. \/ /\ UNCHANGED rows
         /\ waking' = waking \cup job[q].wakes \/ UNCHANGED waking
         /\ UNCHANGED handed
      \/ /\ rows[c] # Null /\ rows' = [rows EXCEPT ![c] = Given(rows[c])]
         /\ waking' = waking \cup job[q].wakes
         /\ handed' = handed \cup {c}
      \/ /\ rows[c] # Null /\ rows' = [rows EXCEPT ![c].state = job[q].answer]
         /\ waking' = waking \cup {c}
         /\ UNCHANGED handed
  BY DEF JobStep, PollDelivers, AckWrites
<1> HIDE DEF c
<1>7. handed' \subseteq Commands /\ waking' \subseteq Commands
  BY <1>2, <1>4, <1>6 DEF QueueTypeOK
<1>8. \/ UNCHANGED rows
      \/ \E r \in Row : /\ rows[c] # Null /\ rows' = [rows EXCEPT ![c] = r]
                        /\ r.left = rows[c].left
                        /\ (c \in waking' \/ r.state = "delivered")
  BY <1>2, <1>5, <1>6
<1>9. ASSUME NEW r \in Row, rows[c] # Null, rows' = [rows EXCEPT ![c] = r],
             r.left = rows[c].left, c \in waking' \/ r.state = "delivered"
      PROVE  /\ rows' \in Table /\ r # Null
             /\ rows'[c] = r /\ \A d \in Commands \ {c} : rows'[d] = rows[d]
  BY <1>3, <1>4, <1>9, NullIsNoRow DEF Table
<1>12. rows' \in Table
  BY <1>3, <1>8, <1>9
<1>10. QueueTypeOK'
  BY <1>1, <1>2, <1>7, <1>12 DEF QueueTypeOK, Table, Jobs
<1>11. ASSUME NEW d \in Commands
       PROVE  /\ rows[d] # Null => rows'[d] # Null /\ rows'[d].left = rows[d].left
              /\ rows[d] = Null => rows'[d] = Null
              /\ rows'[d] # rows[d] => c = d /\ (c \in waking' \/ rows'[d].state = "delivered")
  <2>1. CASE UNCHANGED rows
    BY <2>1
  <2>2. ASSUME NEW r \in Row, rows[c] # Null, rows' = [rows EXCEPT ![c] = r],
               r.left = rows[c].left, c \in waking' \/ r.state = "delivered"
        PROVE  /\ rows[d] # Null => rows'[d] # Null /\ rows'[d].left = rows[d].left
               /\ rows[d] = Null => rows'[d] = Null
               /\ rows'[d] # rows[d] => c = d /\ (c \in waking' \/ rows'[d].state = "delivered")
    BY <2>2, <1>9
  <2> QED
    BY <1>8, <2>1, <2>2
<1> QED
  BY <1>1, <1>2, <1>10, <1>11

LEMMA AckReadsTyped ==
    ASSUME QueueTypeOK, NEW q \in Connections, NEW b \in Devices, NEW c \in Commands,
           NEW answer \in Answers, AckReads(q, b, c, answer)
    PROVE  /\ QueueTypeOK'
           /\ UNCHANGED <<rows, queued, sender, handed, waiters>>
           /\ waking \subseteq waking'
           /\ job[q].op = "none"
           /\ \A p \in Connections \ {q} : job'[p] = job[p]
           /\ job' = job \/ (job'[q].op = "ack" /\ job'[q].wakes = {} /\ job'[q].cmd = c)
<1>1. /\ job[q].op = "none" /\ waking' \in {waking, waking \cup {c}}
      /\ UNCHANGED <<rows, queued, sender, handed, wait, event, timer>>
      /\ \/ UNCHANGED job
         \/ job' = [job EXCEPT ![q] = [op |-> "ack", cmd |-> c, wakes |-> {},
                                       answer |-> answer]]
  BY DEF AckReads, waiters
<1>2. job \in [Connections -> Jobs]
  BY DEF QueueTypeOK, Jobs
<1>3. /\ job' \in [Connections -> Jobs]
      /\ \A p \in Connections \ {q} : job'[p] = job[p]
      /\ job' = job \/ (job'[q].op = "ack" /\ job'[q].wakes = {} /\ job'[q].cmd = c)
  <2>1. CASE UNCHANGED job
    BY <2>1, <1>2
  <2>2. CASE job' = [job EXCEPT ![q] = [op |-> "ack", cmd |-> c, wakes |-> {},
                                        answer |-> answer]]
    <3>1. job' \in [Connections -> Jobs]
      BY <2>2, JobTyped
    <3> QED
      BY <3>1, <2>2, <1>2
  <2> QED
    BY <1>1, <2>1, <2>2
<1>4. QueueTypeOK'
  BY <1>1, <1>3 DEF QueueTypeOK, Jobs
<1> QED
  BY <1>1, <1>3, <1>4 DEF waiters

\* Time passes when no coroutine is on its way.
LEMMA TickTyped ==
    ASSUME QueueTypeOK, Tick
    PROVE  /\ QueueTypeOK'
           /\ \A c \in Commands : timer'[c] = Less1(timer[c])
           /\ \A c \in Commands : rows[c] = Null => rows'[c] = Null
           /\ \A c \in Commands :
                 rows[c] # Null => /\ rows'[c] # Null /\ rows'[c].state = rows[c].state
                                   /\ rows'[c].left = Less1(rows[c].left)
                                   /\ rows'[c].given = rows[c].given
                                   /\ rows'[c].box = rows[c].box
<1>1. /\ rows' = [c \in Commands |->
                     IF rows[c] = Null THEN Null
                     ELSE [rows[c] EXCEPT !.due = Less1(@), !.left = Less1(@)]]
      /\ timer' = [c \in Commands |-> Less1(timer[c])]
      /\ UNCHANGED <<queued, job, sender, handed, waking, wait, event>>
  BY DEF Tick
<1>2. \A n \in Nat : Less1(n) \in Nat
  BY DEF Less1
<1>3. ASSUME NEW c \in Commands, rows[c] # Null
      PROVE  /\ rows'[c] \in Row /\ rows'[c].state = rows[c].state
             /\ rows'[c].left = Less1(rows[c].left) /\ rows'[c].given = rows[c].given
             /\ rows'[c].box = rows[c].box
  <2>1. rows[c] \in Row
    BY <1>3, RowTypes DEF QueueTypeOK, Table
  <2>2. rows'[c] = [rows[c] EXCEPT !.due = Less1(rows[c].due), !.left = Less1(rows[c].left)]
    BY <1>1, <1>3
  <2>3. Less1(rows[c].due) \in Nat /\ Less1(rows[c].left) \in Nat
    BY <1>2, <2>1 DEF Row
  <2> QED
    BY <2>1, <2>2, <2>3 DEF Row
<1>4. \A c \in Commands : rows[c] = Null => rows'[c] = Null
  BY <1>1
<1>5. rows' \in Table
  <2>1. \A c \in Commands : rows'[c] \in Row \cup {Null}
    BY <1>3, <1>4
  <2> QED
    BY <1>1, <2>1 DEF Table
<1>6. timer' \in [Commands -> Nat]
  BY <1>1, <1>2 DEF QueueTypeOK
<1>7. QueueTypeOK'
  BY <1>1, <1>5, <1>6 DEF QueueTypeOK, Table
<1> QED
  BY <1>1, <1>3, <1>4, <1>7, NullIsNoRow

-----------------------------------------------------------------------------
(* The inductive invariant. *)

LEMMA InitInv == QueueInit => QueueInv
<1> SUFFICES ASSUME QueueInit PROVE QueueInv
  OBVIOUS
<1>1. PollsWake
  BY DEF QueueInit, PollsWake, Idle
<1>2. QueuedFirst /\ OutlivesWait /\ EndIsTold
  BY DEF QueueInit, QueuedFirst, OutlivesWait, EndIsTold
<1> QED
  BY <1>1, <1>2, InitTyped DEF QueueInv

\* A new command is pending with its time ahead, and nobody waited for it.
LEMMA QueuingKeeps ==
    ASSUME QueueInv, NEW c \in Commands, NEW b \in Devices,
           NEW kind \in {"dedup", "other"}, NEW ttl \in Nat, Enqueue(c, b, kind, ttl),
           \/ UNCHANGED wait
           \/ wait' = [wait EXCEPT ![c] = "starting"] /\ ttl = DispatchTtl,
           UNCHANGED <<job, waking, event, timer>>
    PROVE  QueuedFirst' /\ PollsWake' /\ OutlivesWait' /\ EndIsTold'
<1> USE DEF QueueInv
<1>1. /\ ToSet(queued') = ToSet(queued) \cup {c} /\ c \notin ToSet(queued)
      /\ rows'[c] # Null /\ rows'[c].state = "pending" /\ rows'[c].left = ttl
      /\ \A d \in Commands \ {c} : rows'[d] = rows[d]
  BY EnqueueAdds
<1>2. wait[c] = "none" /\ wait \in [Commands -> {"none", "starting", "reading", "read", "asleep",
                                                "over"}]
  BY <1>1 DEF QueuedFirst, QueueTypeOK
<1>3. /\ \A d \in Commands \ {c} : wait'[d] = wait[d]
      /\ wait'[c] = "none" \/ (wait'[c] = "starting" /\ ttl = DispatchTtl)
  BY <1>2
<1>4. QueuedFirst'
  BY <1>1, <1>3 DEF QueuedFirst
<1>5. PollsWake'
  BY DEF PollsWake
<1>6. OutlivesWait'
  <2> SUFFICES ASSUME NEW d \in Commands, rows'[d] # Null, Waiting(d)'
               PROVE  IF wait'[d] = "asleep"
                      THEN /\ timer'[d] <= AckTimeout
                           /\ rows'[d].left + AckTimeout >= DispatchTtl + timer'[d]
                      ELSE rows'[d].left >= DispatchTtl
    BY DEF OutlivesWait
  <2>1. CASE d = c
    BY <2>1, <1>1, <1>3, ConstantTypes DEF Waiting
  <2>2. CASE d # c
    <3>1. rows'[d] = rows[d] /\ wait'[d] = wait[d] /\ timer'[d] = timer[d]
      BY <2>2, <1>1, <1>3
    <3> QED
      BY <3>1 DEF OutlivesWait, Waiting
  <2> QED
    BY <2>1, <2>2
<1>7. EndIsTold'
  <2> SUFFICES ASSUME NEW d \in Commands, wait'[d] \in {"read", "asleep"}, IsDone(d)'
               PROVE  WakeComes(d)'
    BY DEF EndIsTold
  <2>1. d # c
    BY <1>3
  <2>2. rows'[d] = rows[d] /\ wait'[d] = wait[d]
    BY <2>1, <1>1, <1>3
  <2> QED
    BY <2>2 DEF EndIsTold, IsDone, WakeComes
<1> QED
  BY <1>4, <1>5, <1>6, <1>7

\* Steps that only change rows and wake: what they end is told, what they keep
\* keeps its time.
LEMMA RowStepKeeps ==
    ASSUME QueueInv, UNCHANGED <<queued, wait, event, timer>>,
           \A c \in Commands : rows[c] = Null => rows'[c] = Null,
           \A c \in Commands :
              rows'[c] # Null => rows[c] # Null /\ rows'[c].left = rows[c].left,
           \A c \in Commands : WakeComes(c) => WakeComes(c)',
           \A c \in Commands :
              IsDone(c)' /\ ~IsDone(c) /\ Waiting(c) => WakeComes(c)'
    PROVE  QueuedFirst' /\ OutlivesWait' /\ EndIsTold'
<1> USE DEF QueueInv
<1>1. QueuedFirst'
  BY DEF QueuedFirst
<1>2. OutlivesWait'
  BY DEF OutlivesWait, Waiting
<1>3. EndIsTold'
  BY DEF EndIsTold, Waiting
<1> QED
  BY <1>1, <1>2, <1>3

LEMMA CallersKeep ==
    ASSUME QueueInv
    PROVE  /\ CallerQueues => QueueInv'
           /\ \A s \in Senders : SenderStep(s) => QueueInv'
           /\ \A b \in Devices : AsyncForgetDevice(b) => QueueInv'
<1> USE DEF QueueInv
<1>1. ASSUME CallerQueues PROVE QueueInv'
  <2>1. PICK c \in Commands, b \in Devices :
            Dispatch(c, b) \/ \E ttl \in Ttls : AsyncEnqueue(c, b, ttl)
    BY <1>1 DEF CallerQueues
  <2>2. CASE Dispatch(c, b)
    <3>1. QueueTypeOK'
      BY <2>2, QueuingTyped, ConstantTypes
    <3> QED
      BY <3>1, <2>2, QueuingKeeps, ConstantTypes DEF Dispatch
  <2>3. ASSUME NEW ttl \in Ttls, AsyncEnqueue(c, b, ttl) PROVE QueueInv'
    <3>1. ttl \in Nat /\ QueueTypeOK'
      BY <2>3, QueuingTyped, ConstantTypes
    <3> QED
      BY <3>1, <2>3, QueuingKeeps DEF AsyncEnqueue, waiters
  <2> QED
    BY <2>1, <2>2, <2>3
<1>2. ASSUME NEW s \in Senders, SenderStep(s) PROVE QueueInv'
  <2>1. ASSUME NEW b \in Devices, AsyncSupersede(s, b) PROVE QueueInv'
    <3>1. /\ QueueTypeOK' /\ waking \subseteq waking'
          /\ UNCHANGED <<queued, job, wait, event, timer>>
      BY <2>1, SupersedeTyped DEF AsyncSupersede, waiters
    <3>2. \A c \in Commands :
             /\ rows[c] = Null => rows'[c] = Null
             /\ rows'[c] # Null => rows[c] # Null /\ rows'[c].left = rows[c].left
             /\ WakeComes(c) => WakeComes(c)'
             /\ IsDone(c)' /\ ~IsDone(c) => WakeComes(c)'
      BY <2>1, <3>1, SupersedeTyped DEF WakeComes, IsDone
    <3> QED
      BY <3>1, <3>2, RowStepKeeps DEF PollsWake
  <2>2. ASSUME NEW c \in Commands, NEW ttl \in Ttls, EnqueueNewest(s, c, ttl)
        PROVE  QueueInv'
    <3>1. ttl \in Nat /\ QueueTypeOK' /\ sender[s] \in Devices
      BY <2>2, QueuingTyped, ConstantTypes DEF EnqueueNewest, QueueTypeOK
    <3> QED
      BY <3>1, <2>2, QueuingKeeps DEF EnqueueNewest, waiters
  <2> QED
    BY <1>2, <2>1, <2>2 DEF SenderStep
<1>3. ASSUME NEW b \in Devices, AsyncForgetDevice(b) PROVE QueueInv'
  <2>1. /\ QueueTypeOK' /\ waking \subseteq waking'
        /\ UNCHANGED <<queued, job, wait, event, timer>>
    BY <1>3, ForgetTyped DEF AsyncForgetDevice, waiters
  <2>2. \A c \in Commands :
           /\ rows[c] = Null => rows'[c] = Null
           /\ rows'[c] # Null => rows[c] # Null /\ rows'[c].left = rows[c].left
           /\ WakeComes(c) => WakeComes(c)'
           /\ IsDone(c)' /\ ~IsDone(c) => WakeComes(c)'
    BY <1>3, <2>1, ForgetTyped DEF WakeComes, IsDone
  <2> QED
    BY <2>1, <2>2, RowStepKeeps DEF PollsWake
<1> QED
  BY <1>1, <1>2, <1>3

LEMMA RequestsKeep ==
    ASSUME QueueInv, NEW q \in Connections
    PROVE  /\ \A b \in Devices : PollSelects(q, b) => QueueInv'
           /\ \A b \in Devices, c \in Commands, answer \in Answers :
                 AckReads(q, b, c, answer) => QueueInv'
           /\ JobStep(q) => QueueInv'
<1> USE DEF QueueInv
<1>1. ASSUME NEW b \in Devices, PollSelects(q, b) PROVE QueueInv'
  <2>1. /\ QueueTypeOK' /\ waking \subseteq waking' /\ rows' = Swept(b)
        /\ UNCHANGED <<queued, wait, event, timer>>
        /\ job[q].op = "none"
        /\ \A p \in Connections \ {q} : job'[p] = job[p]
        /\ job' = job \/ (job'[q].op = "poll" /\ job'[q].cmd \in Commands)
    BY <1>1, PollSelectsTyped DEF PollSelects, waiters
  <2>2. PollsWake'
    BY <2>1 DEF PollsWake
  <2>3. ASSUME NEW c \in Commands, WakeComes(c) PROVE WakeComes(c)'
    <3>1. c \notin job[q].wakes
      BY <2>1 DEF PollsWake
    <3> QED
      BY <3>1, <2>1, <2>3 DEF WakeComes
  <2>4. ASSUME NEW c \in Commands, IsDone(c)', ~IsDone(c), Waiting(c) PROVE WakeComes(c)'
    <3>1. rows \in Table /\ rows[c] # Null /\ rows[c].state \notin Done
      BY <2>4 DEF IsDone, QueueTypeOK, Table
    <3>2. rows'[c] # Null /\ rows'[c].state \in Done
      BY <3>1, <2>4, <1>1, PollSelectsTyped DEF IsDone
    <3>3. rows[c].box = b /\ rows'[c] = AfterSweep(c)
      BY <2>1, <3>1, <3>2 DEF Swept, Held
    <3>4. c \in SweepExpires(b) \/ rows[c].left = 0
      BY <3>1, <3>2, <3>3, SweepEnds
    <3>5. rows[c].left # 0
      <4>1. rows[c].left \in Nat /\ timer[c] \in Nat
        BY <3>1, RowTypes DEF QueueTypeOK
      <4> QED
        BY <4>1, <3>1, <2>4, ConstantTypes DEF OutlivesWait
    <3>6. c \in SweepExpires(b)
      BY <3>4, <3>5
    <3> QED
      BY <3>6, <1>1, PollSelectsTyped DEF WakeComes
  <2>5. \A c \in Commands :
           /\ rows[c] = Null => rows'[c] = Null
           /\ rows'[c] # Null => rows[c] # Null /\ rows'[c].left = rows[c].left
    BY <1>1, PollSelectsTyped
  <2> QED
    BY <2>1, <2>2, <2>3, <2>4, <2>5, RowStepKeeps
<1>2. ASSUME NEW b \in Devices, NEW c \in Commands, NEW answer \in Answers,
             AckReads(q, b, c, answer)
      PROVE  QueueInv'
  <2>1. /\ QueueTypeOK' /\ waking \subseteq waking'
        /\ UNCHANGED <<rows, queued, wait, event, timer>>
        /\ job[q].op = "none"
        /\ \A p \in Connections \ {q} : job'[p] = job[p]
        /\ job' = job \/ (job'[q].op = "ack" /\ job'[q].wakes = {} /\ job'[q].cmd = c)
    BY <1>2, AckReadsTyped DEF waiters
  <2>2. PollsWake'
    BY <2>1 DEF PollsWake
  <2>3. ASSUME NEW d \in Commands, WakeComes(d) PROVE WakeComes(d)'
    <3>1. d \notin job[q].wakes
      BY <2>1 DEF PollsWake
    <3> QED
      BY <3>1, <2>1, <2>3 DEF WakeComes
  <2>4. \A d \in Commands : rows'[d] = rows[d] /\ (IsDone(d)' <=> IsDone(d))
    BY <2>1 DEF IsDone
  <2> QED
    BY <2>1, <2>2, <2>3, <2>4, RowStepKeeps
<1>3. ASSUME JobStep(q) PROVE QueueInv'
  <2>1. /\ QueueTypeOK' /\ waking \subseteq waking'
        /\ UNCHANGED <<queued, wait, event, timer>>
        /\ \A p \in Connections \ {q} : job'[p] = job[p]
        /\ job'[q].op = "none" /\ job'[q].wakes = {}
        /\ job[q].op = "poll" => job[q].wakes \subseteq waking'
    BY <1>3, JobStepTyped DEF JobStep, PollDelivers, AckWrites, waiters
  <2>2. PollsWake'
    BY <2>1 DEF PollsWake
  <2>3. ASSUME NEW c \in Commands, WakeComes(c) PROVE WakeComes(c)'
    <3>1. c \in job[q].wakes => c \in waking'
      BY <2>1 DEF PollsWake
    <3> QED
      BY <3>1, <2>1, <2>3 DEF WakeComes
  <2>4. ASSUME NEW c \in Commands, IsDone(c)', ~IsDone(c) PROVE WakeComes(c)'
    <3>1. rows[c] # Null /\ rows'[c] # Null /\ rows'[c] # rows[c]
      BY <2>4, <1>3, JobStepTyped DEF IsDone
    <3>2. rows'[c].state # "delivered"
      BY <2>4, <3>1 DEF IsDone, Done, Answers
    <3>3. c \in waking'
      BY <3>1, <3>2, <1>3, JobStepTyped
    <3> QED
      BY <3>3 DEF WakeComes
  <2>5. \A c \in Commands :
           /\ rows[c] = Null => rows'[c] = Null
           /\ rows'[c] # Null => rows[c] # Null /\ rows'[c].left = rows[c].left
    BY <1>3, JobStepTyped
  <2> QED
    BY <2>1, <2>2, <2>3, <2>4, <2>5, RowStepKeeps
<1> QED
  BY <1>1, <1>2, <1>3

\* A dispatch reads its row before it sleeps, and sleeps AckTimeout at most.
LEMMA WaiterKeeps ==
    ASSUME QueueInv, NEW c \in Commands, WaiterStep(c) \/ Wake(c)
    PROVE  QueueInv'
<1> USE DEF QueueInv
<1>1. QueueTypeOK' /\ UNCHANGED <<rows, queued, job>>
  BY WaiterTyped DEF WaiterStep, WaitStarts, WaitReads, WaitSleeps, WaitEnds, Wake
<1>2. \A d \in Commands \ {c} :
         /\ wait'[d] = wait[d] /\ event'[d] = event[d] /\ timer'[d] = timer[d]
         /\ d \in waking => d \in waking'
  BY DEF WaiterStep, WaitStarts, WaitReads, WaitSleeps, WaitEnds, Return, Wake, QueueTypeOK
<1>3. \/ wait[c] = "starting" /\ wait'[c] = "reading"
      \/ wait[c] = "reading" /\ wait'[c] = "read" /\ ~IsDone(c)
      \/ /\ wait[c] = "read" /\ wait'[c] = "asleep" /\ timer'[c] = AckTimeout
         /\ UNCHANGED <<event, waking>>
      \/ wait[c] # "none" /\ wait'[c] = "over"
      \/ /\ UNCHANGED <<wait, timer>>
         /\ wait[c] \in {"read", "asleep"} => event'[c]
  BY DEF WaiterStep, WaitStarts, WaitReads, WaitSleeps, WaitEnds, Return, Wake, HasEvent,
         QueueTypeOK
<1>4. QueuedFirst'
  BY <1>1, <1>2, <1>3 DEF QueuedFirst
<1>5. PollsWake'
  BY <1>1 DEF PollsWake
<1>6. OutlivesWait'
  <2> SUFFICES ASSUME NEW d \in Commands, rows[d] # Null, Waiting(d)'
               PROVE  IF wait'[d] = "asleep"
                      THEN /\ timer'[d] <= AckTimeout
                           /\ rows[d].left + AckTimeout >= DispatchTtl + timer'[d]
                      ELSE rows[d].left >= DispatchTtl
    BY <1>1 DEF OutlivesWait
  <2>1. rows[d].left \in Nat /\ timer[d] \in Nat
    BY RowTypes DEF QueueTypeOK, Table
  <2>2. CASE d = c
    BY <2>1, <2>2, <1>3, ConstantTypes DEF Waiting, OutlivesWait
  <2>3. CASE d # c
    BY <2>3, <1>2 DEF Waiting, OutlivesWait
  <2> QED
    BY <2>2, <2>3
<1>7. EndIsTold'
  <2> SUFFICES ASSUME NEW d \in Commands, wait'[d] \in {"read", "asleep"}, IsDone(d)
               PROVE  WakeComes(d)'
    BY <1>1 DEF EndIsTold, IsDone
  <2>1. CASE d = c
    BY <2>1, <1>1, <1>3 DEF EndIsTold, WakeComes
  <2>2. CASE d # c
    BY <2>2, <1>1, <1>2 DEF EndIsTold, WakeComes
  <2> QED
    BY <2>1, <2>2
<1> QED
  BY <1>1, <1>4, <1>5, <1>6, <1>7

LEMMA TickKeeps == QueueInv /\ Tick => QueueInv'
<1> SUFFICES ASSUME QueueInv, Tick PROVE QueueInv'
  OBVIOUS
<1> USE DEF QueueInv
<1>1. QueueTypeOK' /\ UNCHANGED <<queued, job, waking, wait, event>>
  BY TickTyped DEF Tick
<1>2. \A c \in Commands : rows'[c] # Null => rows[c] # Null /\ rows'[c].state = rows[c].state
  BY TickTyped
<1>3. \A c \in Commands : IsDone(c)' => IsDone(c)
  BY TickTyped DEF IsDone
<1>4. QueuedFirst' /\ PollsWake'
  BY <1>1, <1>2 DEF QueuedFirst, PollsWake
<1>5. EndIsTold'
  BY <1>1, <1>3 DEF EndIsTold, WakeComes
<1>6. OutlivesWait'
  <2> SUFFICES ASSUME NEW c \in Commands, rows'[c] # Null, Waiting(c)
               PROVE  IF wait[c] = "asleep"
                      THEN /\ timer'[c] <= AckTimeout
                           /\ rows'[c].left + AckTimeout >= DispatchTtl + timer'[c]
                      ELSE rows'[c].left >= DispatchTtl
    BY <1>1 DEF OutlivesWait, Waiting
  <2>1. wait[c] = "asleep" /\ timer[c] > 0
    BY DEF Tick, Settled, Waiting
  <2>2. rows[c] # Null /\ rows'[c].left = Less1(rows[c].left) /\ timer'[c] = Less1(timer[c])
    BY TickTyped
  <2>3. rows[c].left \in Nat /\ timer[c] \in Nat
    BY <2>2, RowTypes DEF QueueTypeOK, Table
  <2>4. timer[c] <= AckTimeout /\ rows[c].left + AckTimeout >= DispatchTtl + timer[c]
    BY <2>1, <2>2 DEF OutlivesWait
  <2> QED
    BY <2>1, <2>2, <2>3, <2>4, ConstantTypes DEF Less1
<1> QED
  BY <1>1, <1>4, <1>5, <1>6

LEMMA InvPreserved == QueueInv /\ [QueueNext]_queueVars => QueueInv'
<1> SUFFICES ASSUME QueueInv, [QueueNext]_queueVars PROVE QueueInv'
  OBVIOUS
<1>1. CASE UNCHANGED queueVars
  <2>1. QueueTypeOK'
    BY <1>1 DEF queueVars, QueueInv, QueueTypeOK
  <2>2. QueuedFirst' /\ PollsWake' /\ OutlivesWait' /\ EndIsTold'
    BY <1>1 DEF queueVars, QueueInv, QueuedFirst, PollsWake, OutlivesWait, Waiting, EndIsTold,
                WakeComes, IsDone
  <2> QED
    BY <2>1, <2>2 DEF QueueInv
<1>2. CASE BoxRequests
  BY <1>2, RequestsKeep DEF BoxRequests
<1> QED
  BY <1>1, <1>2, CallersKeep, RequestsKeep, WaiterKeeps, TickKeeps DEF QueueNext

\* The table, the jobs, the senders and the waiters are well typed in every
\* state, whatever requests and callers interleave.
THEOREM QueueTypeCorrect == QueueSpec => []QueueTypeOK
<1>1. QueueInv => QueueTypeOK
  BY DEF QueueInv
<1> QED
  BY <1>1, InitInv, InvPreserved, PTL DEF QueueSpec

\* A dispatch never sleeps through the end of its command: the event is set or
\* on its way (async_wait, edge_command_queue.py:410-423), for any number of
\* boxes, requests at once and callers, and any timings in which a dispatched
\* command outlives the wait for it.
THEOREM WakeupsAreKept == QueueSpec => []NoLostWakeup
<1>1. QueueInv => NoLostWakeup
  BY DEF QueueInv, NoLostWakeup, EndIsTold, WakeComes
<1> QED
  BY <1>1, InitInv, InvPreserved, PTL DEF QueueSpec

-----------------------------------------------------------------------------
(* A box with one request under way at a time.  With two, a poll that has  *)
(* selected a row writes over what the other request made of it.           *)

OneRequest == \A p, q \in Connections : p = q

\* A row that may still be handed out has a delivery left.
DeliveryLeft ==
    /\ \A c \in Commands : rows[c] # Null =>
          /\ rows[c].given <= MaxDeliveries
          /\ rows[c].state = "pending" => rows[c].given < MaxDeliveries
    /\ \A q \in Connections : job[q].op = "poll" /\ rows[job[q].cmd] # Null =>
          rows[job[q].cmd].given < MaxDeliveries

\* What a step makes of a row: it is new, it keeps its count and is pending
\* only if it has a delivery left, or the poll under way hands it out.
LEMMA RowsCount ==
    ASSUME QueueInv, DeliveryLeft, QueueNext, NEW c \in Commands, rows'[c] # Null
    PROVE  \/ rows'[c].given = 0
           \/ /\ rows[c] # Null /\ rows'[c].given = rows[c].given
              /\ rows'[c].state = "pending" => rows[c].given < MaxDeliveries
           \/ \E q \in Connections :
                 /\ job[q].op = "poll" /\ job[q].cmd = c /\ job'[q].op = "none"
                 /\ rows[c] # Null
                 /\ rows'[c].given = rows[c].given + 1 /\ rows'[c].state = "delivered"
<1> USE DEF QueueInv
<1>1. CASE UNCHANGED rows
  BY <1>1 DEF DeliveryLeft
<1>2. ASSUME NEW d \in Commands, NEW b \in Devices, NEW kind \in {"dedup", "other"},
             NEW ttl \in Nat, Enqueue(d, b, kind, ttl)
      PROVE  \/ rows'[c].given = 0
             \/ /\ rows[c] # Null /\ rows'[c].given = rows[c].given
                /\ rows'[c].state = "pending" => rows[c].given < MaxDeliveries
  BY <1>2, EnqueueAdds DEF DeliveryLeft
<1>3. CASE CallerQueues
  <2>1. \E d \in Commands, b \in Devices, ttl \in Nat : Enqueue(d, b, "other", ttl)
    BY <1>3, ConstantTypes DEF CallerQueues, Dispatch, AsyncEnqueue
  <2> QED
    BY <2>1, <1>2
<1>4. ASSUME NEW s \in Senders, SenderStep(s)
      PROVE  \/ rows'[c].given = 0
             \/ /\ rows[c] # Null /\ rows'[c].given = rows[c].given
                /\ rows'[c].state = "pending" => rows[c].given < MaxDeliveries
  <2>1. ASSUME NEW b \in Devices, AsyncSupersede(s, b)
        PROVE  /\ rows[c] # Null /\ rows'[c].given = rows[c].given
               /\ rows'[c].state = "pending" => rows[c].given < MaxDeliveries
    BY <2>1, SupersedeTyped DEF DeliveryLeft
  <2>2. ASSUME NEW d \in Commands, NEW ttl \in Ttls, EnqueueNewest(s, d, ttl)
        PROVE  Enqueue(d, sender[s], "dedup", ttl) /\ sender[s] \in Devices /\ ttl \in Nat
    BY <2>2, ConstantTypes DEF EnqueueNewest, QueueTypeOK
  <2> QED
    BY <1>4, <1>2, <2>1, <2>2 DEF SenderStep
<1>5. ASSUME NEW b \in Devices, AsyncForgetDevice(b) PROVE rows'[c] = rows[c]
  BY <1>5, ForgetTyped
<1>6. ASSUME NEW q \in Connections, NEW b \in Devices, PollSelects(q, b)
      PROVE  /\ rows[c] # Null /\ rows'[c].given = rows[c].given
             /\ rows'[c].state = "pending" => rows[c].given < MaxDeliveries
  <2>1. rows[c] # Null /\ rows'[c].given = rows[c].given
    BY <1>6, PollSelectsTyped
  <2>2. rows'[c] = IF c \in Held /\ rows[c].box = b THEN AfterSweep(c) ELSE rows[c]
    BY <1>6 DEF PollSelects, Swept
  <2>3. rows[c].given \in Nat /\ rows[c] \in Row
    BY <2>1, RowTypes DEF QueueTypeOK, Table
  <2>4. CASE rows'[c] = AfterSweep(c) /\ rows[c].given >= MaxDeliveries
    <3>1. rows[c].state # "pending"
      BY <2>1, <2>3, <2>4, ConstantTypes DEF DeliveryLeft
    <3>2. AfterSweep(c) \in {rows[c], [rows[c] EXCEPT !.state = "expired"]}
      BY <2>4, <3>1 DEF AfterSweep
    <3>3. AfterSweep(c).state # "pending"
      BY <3>1, <3>2, <2>3 DEF Row
    <3> QED
      BY <2>1, <2>4, <3>3
  <2> QED
    BY <2>1, <2>2, <2>3, <2>4, ConstantTypes DEF DeliveryLeft
<1>7. ASSUME NEW q \in Connections, JobStep(q), rows' # rows
      PROVE  \/ /\ rows[c] # Null /\ rows'[c].given = rows[c].given
                /\ rows'[c].state = "pending" => rows[c].given < MaxDeliveries
             \/ /\ job[q].op = "poll" /\ job[q].cmd = c /\ job'[q].op = "none"
                /\ rows[c] # Null
                /\ rows'[c].given = rows[c].given + 1 /\ rows'[c].state = "delivered"
  <2> DEFINE d == job[q].cmd
  <2>1. job'[q].op = "none" /\ rows[c] # Null /\ d \in Commands
    BY <1>7, JobStepTyped DEF PollsWake, JobStep, PollDelivers, AckWrites
  <2>2. rows \in Table /\ rows[c] \in Row /\ job[q].answer \in Answers
    BY <2>1, RowTypes, JobTyped DEF QueueTypeOK, Table
  <2>3. \/ job[q].op = "poll" /\ rows' = [rows EXCEPT ![d] = Given(rows[d])]
        \/ rows' = [rows EXCEPT ![d].state = job[q].answer]
    BY <1>7 DEF JobStep, PollDelivers, AckWrites
  <2> HIDE DEF d
  <2>4. CASE c # d
    BY <2>1, <2>2, <2>3, <2>4 DEF DeliveryLeft, Table
  <2>5. CASE c = d /\ job[q].op = "poll" /\ rows' = [rows EXCEPT ![d] = Given(rows[d])]
    <3>1. rows'[c] = [rows[c] EXCEPT !.state = "delivered", !.due = RedeliverAfter,
                                     !.given = rows[c].given + 1]
      BY <2>1, <2>2, <2>5 DEF Table, Given
    <3>2. rows'[c].given = rows[c].given + 1 /\ rows'[c].state = "delivered"
      BY <3>1, <2>2 DEF Row
    <3> QED
      BY <3>2, <2>1, <2>5 DEF d
  <2>6. CASE c = d /\ rows' = [rows EXCEPT ![d].state = job[q].answer]
    <3>1. rows'[c] = [rows[c] EXCEPT !.state = job[q].answer]
      BY <2>1, <2>2, <2>6 DEF Table
    <3>2. rows'[c].given = rows[c].given /\ rows'[c].state # "pending"
      BY <3>1, <2>2 DEF Row, Answers
    <3> QED
      BY <3>2, <2>1
  <2> QED
    BY <2>3, <2>4, <2>5, <2>6
<1>8. CASE Tick
  BY <1>8, TickTyped DEF DeliveryLeft
<1>9. CASE BoxRequests
  BY <1>9, <1>1, <1>6 DEF BoxRequests, AckReads
<1>10. ASSUME NEW d \in Commands, WaiterStep(d) \/ Wake(d) PROVE UNCHANGED rows
  BY <1>10 DEF WaiterStep, WaitStarts, WaitReads, WaitSleeps, WaitEnds, Wake
<1> QED
  BY <1>1, <1>3, <1>4, <1>5, <1>7, <1>8, <1>9, <1>10 DEF QueueNext, DeliveryLeft

SelectedPending(q) == rows[job[q].cmd] # Null /\ rows[job[q].cmd].state = "pending"

\* A poll goes on with a row that was pending when it selected it.
LEMMA PollsPending ==
    ASSUME QueueInv, QueueNext, NEW q \in Connections, job'[q].op = "poll"
    PROVE  job'[q] = job[q] \/ (job[q].op = "none" /\ SelectedPending(q)')
<1> USE DEF QueueInv
<1>1. CASE UNCHANGED job
  BY <1>1
<1>2. ASSUME NEW p \in Connections, NEW b \in Devices, PollSelects(p, b)
      PROVE  job'[q] = job[q] \/ (job[q].op = "none" /\ SelectedPending(q)')
  <2>1. CASE p # q
    BY <2>1, <1>2, PollSelectsTyped
  <2>2. ASSUME p = q, NEW c \in Commands, OldestOf(c, PendingAfterSweep(b)),
               job' = [job EXCEPT ![q] = [op |-> "poll", cmd |-> c,
                                          wakes |-> SweepExpires(b), answer |-> "failed"]]
        PROVE  job[q].op = "none" /\ SelectedPending(q)'
    <3>1. job'[q].cmd = c
      BY <2>2 DEF QueueTypeOK
    <3>2. c \in Held /\ rows[c].box = b /\ AfterSweep(c).state = "pending"
      BY <2>2 DEF OldestOf, PendingAfterSweep
    <3>3. rows'[c] = AfterSweep(c)
      BY <1>2, <3>2 DEF PollSelects, Swept, Held
    <3> QED
      BY <1>2, <2>2, <3>1, <3>2, <3>3, PollSelectsTyped DEF Held, SelectedPending
  <2> QED
    BY <1>1, <1>2, <2>1, <2>2 DEF PollSelects
<1>3. ASSUME NEW p \in Connections, NEW b \in Devices, NEW c \in Commands,
             NEW answer \in Answers, AckReads(p, b, c, answer)
      PROVE  job'[q] = job[q]
  BY <1>3, AckReadsTyped
<1>4. ASSUME NEW p \in Connections, JobStep(p) PROVE job'[q] = job[q]
  BY <1>4, JobStepTyped
<1>5. CASE BoxRequests
  BY <1>2, <1>3, <1>5 DEF BoxRequests
<1> QED
  BY <1>1, <1>4, <1>5
     DEF QueueNext, CallerQueues, Dispatch, AsyncEnqueue, SenderStep, AsyncSupersede,
         EnqueueNewest, AsyncForgetDevice, WaiterStep, WaitStarts, WaitReads, WaitSleeps,
         WaitEnds, Wake, Tick

LEMMA DeliveryLeftKept ==
    ASSUME OneRequest, QueueInv, QueueInv', DeliveryLeft, [QueueNext]_queueVars
    PROVE  DeliveryLeft'
<1>1. CASE UNCHANGED queueVars
  BY <1>1 DEF queueVars, DeliveryLeft
<1>2. CASE QueueNext
  <2>1. ASSUME NEW c \in Commands, rows'[c] # Null
        PROVE  /\ rows'[c].given <= MaxDeliveries
               /\ rows'[c].state = "pending" => rows'[c].given < MaxDeliveries
    <3>1. rows[c] # Null => rows[c].given \in Nat
      BY RowTypes DEF QueueInv, QueueTypeOK, Table
    <3> QED
      BY <1>2, <2>1, <3>1, RowsCount, ConstantTypes DEF DeliveryLeft, QueueInv, PollsWake
  <2>2. ASSUME NEW q \in Connections, job'[q].op = "poll", rows'[job'[q].cmd] # Null
        PROVE  rows'[job'[q].cmd].given < MaxDeliveries
    <3> DEFINE c == job'[q].cmd
    <3>1. c \in Commands
      BY <2>2 DEF QueueInv, PollsWake
    <3>2. CASE rows'[c].state = "pending"
      BY <2>1, <2>2, <3>1, <3>2
    <3>3. CASE job'[q] = job[q]
      <4>1. \/ rows'[c].given = 0
            \/ rows[c] # Null /\ rows'[c].given = rows[c].given
        BY <1>2, <2>2, <3>1, RowsCount DEF OneRequest
      <4> QED
        BY <4>1, <2>2, <3>3, ConstantTypes DEF DeliveryLeft
    <3> QED
      BY <1>2, <2>2, <3>2, <3>3, PollsPending DEF SelectedPending
  <2> QED
    BY <2>1, <2>2 DEF DeliveryLeft
<1> QED
  BY <1>1, <1>2

\* A box with one request under way at a time is never handed a command more
\* often than MAX_DELIVERIES ("a box that keeps dropping it does not see it
\* forever", edge_command_queue.py:10-13).
THEOREM HandedOutMaxDeliveries == OneRequest => (QueueSpec => []DeliveredAtMostTwice)
<1> SUFFICES ASSUME OneRequest PROVE QueueSpec => []DeliveredAtMostTwice
  OBVIOUS
<1>1. QueueInit => DeliveryLeft
  BY DEF QueueInit, DeliveryLeft, Idle
<1>2. QueueInv /\ DeliveryLeft => DeliveredAtMostTwice
  BY DEF DeliveryLeft, DeliveredAtMostTwice, Held
<1>3. QueueInv /\ DeliveryLeft /\ [QueueNext]_queueVars => QueueInv' /\ DeliveryLeft'
  BY InvPreserved, DeliveryLeftKept
<1> QED
  BY <1>1, <1>2, <1>3, InitInv, PTL DEF QueueSpec

-----------------------------------------------------------------------------
(* The queue implements the promise of its docstring, where nobody         *)
(* supersedes: a superseded row that a poll has selected is handed out     *)
(* although it expired.                                                    *)

Stage(c) == IF rows[c] # Null THEN rows[c].state
            ELSE IF c \in ToSet(queued) THEN "forgotten" ELSE "none"
GivenTo(c) == IF rows[c] = Null THEN 0 ELSE rows[c].given

\* What a half done method read of its row still holds, and a box answers
\* what it was given.
JobHolds(q) ==
    LET c == job[q].cmd IN
    job[q].op # "none" =>
        /\ c \in ToSet(queued)
        /\ rows[c] # Null =>
              /\ job[q].op = "poll" => rows[c].state = "pending"
              /\ job[q].op = "ack" => rows[c].state \notin Answers /\ rows[c].given > 0
ReadsHold ==
    /\ \A q \in Connections : JobHolds(q)
    /\ \A c \in handed : c \in ToSet(queued) /\ (rows[c] # Null => rows[c].given > 0)

PromiseInv == QueueInv /\ DeliveryLeft /\ ReadsHold

Steady(c) == Stage(c)' = Stage(c) /\ GivenTo(c)' = GivenTo(c)
StageMoves(c) ==
    \/ Stage(c) = "none" /\ Stage(c)' = "pending" /\ GivenTo(c)' = GivenTo(c)
    \/ /\ Stage(c) = "pending" /\ Stage(c)' = "delivered"
       /\ GivenTo(c) < MaxDeliveries /\ GivenTo(c)' = GivenTo(c) + 1
    \/ /\ Stage(c) = "delivered" /\ Stage(c)' = "pending"
       /\ GivenTo(c) < MaxDeliveries /\ GivenTo(c)' = GivenTo(c)
    \/ Stage(c) \in {"pending", "delivered"} /\ Stage(c)' = "expired" /\ GivenTo(c)' = GivenTo(c)
    \/ /\ Stage(c) \in {"pending", "delivered", "expired"} /\ Stage(c)' \in {"success", "failed"}
       /\ GivenTo(c) > 0 /\ GivenTo(c)' = GivenTo(c)
    \/ Stage(c) \notin {"none", "forgotten"} /\ Stage(c)' = "forgotten" /\ GivenTo(c)' = 0

\* The moves are those of the promise.
LEMMA MovesArePromised ==
    ASSUME \A c \in Commands : StageMoves(c) \/ Steady(c)
    PROVE  Promise!Next
<1> SUFFICES ASSUME NEW c \in Commands
             PROVE  Promise!Moves(c) \/ (/\ Stage(c)' = Stage(c) /\ GivenTo(c)' = GivenTo(c))
  BY DEF Promise!Next, Promise!Keeps, Stage, GivenTo
<1> QED
  BY DEF StageMoves, Steady, Stage, GivenTo, Promise!Moves, Promise!Queue, Promise!HandOut,
         Promise!GiveBack, Promise!Expire, Promise!Answer, Promise!Forget, Promise!Becomes,
         Promise!Keeps

LEMMA InitPromised == QueueInit => Promise!Init
  BY DEF QueueInit, Promise!Init, ToSet

LEMMA QueuingMoves ==
    ASSUME PromiseInv, NEW d \in Commands, NEW b \in Devices,
           NEW kind \in {"dedup", "other"}, NEW ttl \in Nat, Enqueue(d, b, kind, ttl),
           UNCHANGED <<job, handed>>
    PROVE  /\ \A c \in Commands : StageMoves(c) \/ Steady(c)
           /\ ReadsHold'
<1> USE DEF PromiseInv, QueueInv
<1>1. /\ ToSet(queued') = ToSet(queued) \cup {d} /\ d \notin ToSet(queued)
      /\ rows'[d] # Null /\ rows'[d].state = "pending" /\ rows'[d].given = 0
      /\ \A c \in Commands \ {d} : rows'[c] = rows[c]
  BY EnqueueAdds
<1>2. rows[d] = Null
  BY <1>1 DEF QueuedFirst
<1>3. StageMoves(d)
  BY <1>1, <1>2 DEF StageMoves, Stage, GivenTo
<1>4. \A c \in Commands \ {d} : Steady(c)
  BY <1>1 DEF Steady, Stage, GivenTo
<1>5. handed \subseteq Commands /\ d \notin handed
  BY <1>1 DEF ReadsHold, QueueTypeOK
<1>6. \A c \in handed : c \in ToSet(queued') /\ (rows'[c] # Null => rows'[c].given > 0)
  BY <1>1, <1>5 DEF ReadsHold
<1>7. ASSUME NEW q \in Connections, job[q].op # "none" PROVE JobHolds(q)'
  <2>1. job[q].cmd \in ToSet(queued) /\ job[q].cmd \in Commands \ {d}
    BY <1>1, <1>7 DEF ReadsHold, JobHolds, PollsWake
  <2>2. rows'[job[q].cmd] = rows[job[q].cmd]
    BY <1>1, <2>1
  <2> QED
    BY <1>1, <1>7, <2>1, <2>2 DEF ReadsHold, JobHolds
<1> QED
  BY <1>3, <1>4, <1>6, <1>7 DEF ReadsHold, JobHolds

\* What leaves the table leaves it for good.
LEMMA ForgetMoves ==
    ASSUME PromiseInv, NEW b \in Devices, AsyncForgetDevice(b)
    PROVE  (\A c \in Commands : StageMoves(c) \/ Steady(c)) /\ ReadsHold'
<1> USE DEF PromiseInv, QueueInv
<1>1. UNCHANGED <<queued, job, handed>>
  BY DEF AsyncForgetDevice
<1>2. \A c \in Commands : rows'[c] = rows[c] \/ rows'[c] = Null
  BY ForgetTyped
<1>3. ASSUME NEW c \in Commands PROVE StageMoves(c) \/ Steady(c)
  <2>1. CASE rows'[c] = rows[c]
    BY <2>1, <1>1 DEF Steady, Stage, GivenTo
  <2>2. CASE rows'[c] = Null /\ rows[c] # Null
    <3>1. c \in ToSet(queued) /\ rows[c].state \notin {"none", "forgotten"}
      BY <2>2, RowTypes DEF QueuedFirst, QueueTypeOK, Table, Done, Answers
    <3> QED
      BY <3>1, <2>2, <1>1 DEF StageMoves, Stage, GivenTo
  <2> QED
    BY <2>1, <2>2, <1>2
<1>4. ASSUME NEW q \in Connections PROVE JobHolds(q)'
  <2>1. job[q].op # "none" => job[q].cmd \in Commands
    BY DEF PollsWake
  <2> QED
    BY <2>1, <1>1, <1>2 DEF ReadsHold, JobHolds
<1>5. \A c \in handed : c \in ToSet(queued) /\ (rows'[c] # Null => rows'[c].given > 0)
  BY <1>2 DEF ReadsHold, QueueTypeOK
<1> QED
  BY <1>1, <1>3, <1>4, <1>5 DEF ReadsHold

\* A sweep gives back or expires.
LEMMA PollSelectsMoves ==
    ASSUME OneRequest, PromiseInv, QueueInv', NEW q \in Connections, NEW b \in Devices,
           PollSelects(q, b)
    PROVE  (\A c \in Commands : StageMoves(c) \/ Steady(c)) /\ ReadsHold'
<1> USE DEF PromiseInv, QueueInv
<1>1. /\ UNCHANGED <<queued, handed>> /\ rows' = Swept(b) /\ job[q].op = "none"
      /\ QueueNext
  BY DEF PollSelects, QueueNext, BoxRequests
<1>2. ASSUME NEW c \in Commands PROVE StageMoves(c) \/ Steady(c)
  <2>1. rows'[c] = IF c \in Held /\ rows[c].box = b THEN AfterSweep(c) ELSE rows[c]
    BY <1>1 DEF Swept
  <2>2. CASE rows'[c] = rows[c]
    BY <2>2, <1>1 DEF Steady, Stage, GivenTo
  <2>3. CASE rows'[c] = AfterSweep(c) /\ rows[c] # Null /\ rows'[c] # rows[c]
    <3>1. rows[c] \in Row /\ rows[c].given \in Nat
      BY <2>3, RowTypes DEF QueueTypeOK, Table
    <3>2. rows'[c] # Null /\ rows'[c].given = rows[c].given
      BY <2>3, PollSelectsTyped
    <3>3. \A t \in {"pending", "expired"} : [rows[c] EXCEPT !.state = t].state = t
      BY <3>1 DEF Row
    <3>4. rows[c].state = "pending" => [rows[c] EXCEPT !.state = "pending"] = rows[c]
      BY <3>1 DEF Row
    <3>5. \/ /\ rows[c].state = "delivered" /\ rows'[c].state = "pending"
             /\ rows[c].given < MaxDeliveries
          \/ rows[c].state \in {"pending", "delivered"} /\ rows'[c].state = "expired"
      <4>1. CASE Stale(c) /\ rows[c].given >= MaxDeliveries
        BY <4>1, <2>3, <3>3 DEF AfterSweep, Stale
      <4>2. CASE Stale(c) /\ ~(rows[c].given >= MaxDeliveries)
        BY <4>2, <2>3, <3>1, <3>3, ConstantTypes DEF AfterSweep, Stale
      <4>3. CASE ~Stale(c)
        BY <4>3, <2>3, <3>3, <3>4 DEF AfterSweep
      <4> QED
        BY <4>1, <4>2, <4>3
    <3> QED
      BY <2>3, <3>2, <3>5 DEF StageMoves, Stage, GivenTo
  <2> QED
    BY <2>1, <2>2, <2>3 DEF Held
<1>3. JobHolds(q)'
  <2>1. CASE job'[q].op = "poll"
    <3>1. job'[q].cmd \in Commands /\ SelectedPending(q)'
      BY <1>1, <2>1, PollsPending DEF PollsWake
    <3> QED
      BY <3>1, <2>1 DEF JobHolds, QueuedFirst, SelectedPending
  <2>2. CASE job'[q].op = "none"
    BY <2>2 DEF JobHolds
  <2> QED
    BY <2>1, <2>2, <1>1, PollSelectsTyped
<1>4. ASSUME NEW c \in handed, rows'[c] # Null
      PROVE  rows'[c].given > 0
  <2>1. c \in Commands
    BY DEF QueueTypeOK
  <2> QED
    BY <2>1, <1>4, PollSelectsTyped DEF ReadsHold
<1> QED
  BY <1>1, <1>2, <1>3, <1>4 DEF ReadsHold, OneRequest

LEMMA AckReadsMoves ==
    ASSUME OneRequest, PromiseInv, QueueInv', NEW q \in Connections, NEW b \in Devices,
           NEW c \in Commands, NEW answer \in Answers, AckReads(q, b, c, answer)
    PROVE  (\A d \in Commands : StageMoves(d) \/ Steady(d)) /\ ReadsHold'
<1> USE DEF PromiseInv, QueueInv
<1>1. /\ UNCHANGED <<rows, queued, handed>> /\ job[q].op = "none"
      /\ c \in handed
      /\ \/ job' = job
         \/ /\ job' = [job EXCEPT ![q] = [op |-> "ack", cmd |-> c, wakes |-> {},
                                         answer |-> answer]]
            /\ ~Answered(c)
  BY DEF AckReads
<1>2. \A d \in Commands : Steady(d)
  BY <1>1 DEF Steady, Stage, GivenTo
<1>3. JobHolds(q)'
  <2>1. CASE job' = job
    BY <2>1, <1>1 DEF JobHolds
  <2>2. CASE job' = [job EXCEPT ![q] = [op |-> "ack", cmd |-> c, wakes |-> {},
                                         answer |-> answer]]
    <3>1. job'[q].op = "ack" /\ job'[q].cmd = c
      BY <2>2 DEF QueueTypeOK
    <3>2. CASE job' # job
      BY <3>1, <3>2, <1>1 DEF JobHolds, Answered, ReadsHold
    <3>3. CASE job' = job
      BY <3>3, <1>1 DEF JobHolds
    <3> QED
      BY <3>2, <3>3
  <2> QED
    BY <1>1, <2>1, <2>2
<1> QED
  BY <1>1, <1>2, <1>3 DEF ReadsHold, OneRequest

\* A poll hands a pending row out, an ack answers what was given.
LEMMA JobStepMoves ==
    ASSUME OneRequest, PromiseInv, QueueInv', NEW q \in Connections, JobStep(q)
    PROVE  (\A c \in Commands : StageMoves(c) \/ Steady(c)) /\ ReadsHold'
<1> USE DEF PromiseInv, QueueInv
<1>1. /\ UNCHANGED queued /\ job'[q].op = "none" /\ job[q].cmd \in Commands
      /\ rows \in Table
  BY JobStepTyped
     DEF JobStep, PollDelivers, AckWrites, PollsWake, QueueTypeOK, Table
<1>0. PICK d \in Commands : d = job[q].cmd
  BY <1>1
<1>2. \/ UNCHANGED <<rows, handed>>
      \/ /\ job[q].op = "poll" /\ rows[d] # Null
         /\ rows' = [rows EXCEPT ![d] = Given(rows[d])] /\ handed' = handed \cup {d}
      \/ /\ job[q].op = "ack" /\ rows[d] # Null
         /\ rows' = [rows EXCEPT ![d].state = job[q].answer] /\ UNCHANGED handed
  BY <1>0 DEF JobStep, PollDelivers, AckWrites
<1>3. d \in ToSet(queued)
  BY <1>0 DEF ReadsHold, JobHolds, JobStep, PollDelivers, AckWrites
<1>4. job[q].op = "poll" /\ rows[d] # Null =>
         rows[d].state = "pending" /\ rows[d].given < MaxDeliveries
  BY <1>0 DEF ReadsHold, JobHolds, DeliveryLeft
<1>5. job[q].op = "ack" /\ rows[d] # Null => rows[d].state \notin Answers /\ rows[d].given > 0
  BY <1>0 DEF ReadsHold, JobHolds
<1>6. job[q].answer \in Answers
  BY JobTyped
<1>7. rows[d] # Null => rows[d] \in Row /\ rows[d].given \in Nat
  BY <1>1, RowTypes
<1>8. CASE UNCHANGED <<rows, handed>>
  <2>1. \A c \in Commands : Steady(c)
    BY <1>1, <1>8 DEF Steady, Stage, GivenTo
  <2>2. JobHolds(q)'
    BY <1>1 DEF JobHolds
  <2> QED
    BY <2>1, <2>2, <1>1, <1>8 DEF ReadsHold, OneRequest
<1>9. ASSUME NEW r, r # Null, rows[d] # Null, rows' = [rows EXCEPT ![d] = r],
             handed' \subseteq handed \cup {d}, r.given > 0,
             \/ /\ rows[d].state = "pending" /\ r.state = "delivered"
                /\ rows[d].given < MaxDeliveries /\ r.given = rows[d].given + 1
             \/ /\ rows[d].state \in {"pending", "delivered", "expired"} /\ r.state \in Answers
                /\ r.given = rows[d].given
      PROVE  (\A c \in Commands : StageMoves(c) \/ Steady(c)) /\ ReadsHold'
  <2>1. rows'[d] = r /\ \A c \in Commands \ {d} : rows'[c] = rows[c]
    BY <1>1, <1>9 DEF Table
  <2>2. \A c \in Commands \ {d} : Steady(c)
    BY <2>1, <1>1 DEF Steady, Stage, GivenTo
  <2>3. StageMoves(d)
    <3>1. CASE rows[d].state = "pending" /\ r.state = "delivered"
               /\ rows[d].given < MaxDeliveries /\ r.given = rows[d].given + 1
      BY <2>1, <1>9, <3>1 DEF StageMoves, Stage, GivenTo
    <3>2. CASE rows[d].state \in {"pending", "delivered", "expired"} /\ r.state \in Answers
               /\ r.given = rows[d].given
      <4>1. rows[d].given > 0 /\ r.state \in {"success", "failed"}
        BY <3>2, <1>9 DEF Answers
      <4> QED
        BY <2>1, <1>9, <3>2, <4>1 DEF StageMoves, Stage, GivenTo
    <3> QED
      BY <1>9, <3>1, <3>2
  <2>4. JobHolds(q)'
    BY <1>1 DEF JobHolds
  <2>5. \A c \in handed' : c \in ToSet(queued) /\ (rows'[c] # Null => rows'[c].given > 0)
    BY <1>3, <1>9, <2>1 DEF ReadsHold, QueueTypeOK
  <2> QED
    BY <2>2, <2>3, <2>4, <2>5, <1>1 DEF ReadsHold, OneRequest
<1>10. CASE /\ job[q].op = "poll" /\ rows[d] # Null
            /\ rows' = [rows EXCEPT ![d] = Given(rows[d])] /\ handed' = handed \cup {d}
  <2>1. /\ Given(rows[d]) \in Row
        /\ Given(rows[d]).state = "delivered" /\ Given(rows[d]).given = rows[d].given + 1
    <3>1. Given(rows[d]) = [rows[d] EXCEPT !.state = "delivered", !.due = RedeliverAfter,
                                           !.given = rows[d].given + 1]
      BY DEF Given
    <3>2. rows[d].given + 1 \in Nat /\ rows[d] \in Row
      BY <1>7, <1>10
    <3> QED
      BY <3>1, <3>2, ConstantTypes DEF Row
  <2>2. Given(rows[d]) # Null
    BY <2>1, NullIsNoRow
  <2> QED
    <3> DEFINE r == Given(rows[d])
    <3>1. /\ r # Null /\ rows[d] # Null /\ rows' = [rows EXCEPT ![d] = r]
          /\ handed' \subseteq handed \cup {d} /\ r.given = rows[d].given + 1 /\ r.given > 0
          /\ r.state = "delivered" /\ rows[d].state = "pending"
          /\ rows[d].given < MaxDeliveries
      BY <2>1, <2>2, <1>4, <1>7, <1>10
    <3> HIDE DEF r
    <3> QED
      BY <3>1, <1>9
<1>11. CASE /\ job[q].op = "ack" /\ rows[d] # Null
            /\ rows' = [rows EXCEPT ![d].state = job[q].answer] /\ UNCHANGED handed
  <2> DEFINE r == [rows[d] EXCEPT !.state = job[q].answer]
  <2>1. r \in Row /\ r.state = job[q].answer /\ r.given = rows[d].given
    BY <1>6, <1>7, <1>11 DEF Row, Done
  <2>2. r # Null /\ rows' = [rows EXCEPT ![d] = r]
    BY <2>1, <1>11, NullIsNoRow
  <2>3. rows[d].state \in {"pending", "delivered", "expired"}
    BY <1>5, <1>7, <1>11 DEF Row, Done
  <2> HIDE DEF r
  <2> QED
    BY <2>1, <2>2, <2>3, <1>5, <1>6, <1>9, <1>11
<1> QED
  BY <1>2, <1>8, <1>10, <1>11

LEMMA TickMoves ==
    ASSUME PromiseInv, Tick
    PROVE  (\A c \in Commands : StageMoves(c) \/ Steady(c)) /\ ReadsHold'
<1> USE DEF PromiseInv, QueueInv
<1>1. UNCHANGED <<queued, job, handed>>
  BY DEF Tick
<1>2. \A c \in Commands :
         /\ rows[c] = Null => rows'[c] = Null
         /\ rows[c] # Null => /\ rows'[c] # Null /\ rows'[c].state = rows[c].state
                              /\ rows'[c].given = rows[c].given
  BY TickTyped
<1>3. \A c \in Commands : Steady(c)
  BY <1>1, <1>2 DEF Steady, Stage, GivenTo
<1>4. ASSUME NEW q \in Connections PROVE JobHolds(q)'
  <2>1. job[q].op # "none" => job[q].cmd \in Commands
    BY DEF PollsWake
  <2> QED
    BY <2>1, <1>1, <1>2 DEF ReadsHold, JobHolds
<1>5. \A c \in handed : c \in ToSet(queued) /\ (rows'[c] # Null => rows'[c].given > 0)
  BY <1>2 DEF ReadsHold, QueueTypeOK
<1> QED
  BY <1>1, <1>3, <1>4, <1>5 DEF ReadsHold

LEMMA StepMoves ==
    ASSUME OneRequest, Senders = {}, PromiseInv, QueueInv', [QueueNext]_queueVars
    PROVE  (\A c \in Commands : StageMoves(c) \/ Steady(c)) /\ ReadsHold'
<1>1. CASE UNCHANGED <<rows, queued, job, handed>>
  <2>1. \A c \in Commands : Steady(c)
    BY <1>1 DEF Steady, Stage, GivenTo
  <2>2. ReadsHold'
    BY <1>1 DEF PromiseInv, ReadsHold, JobHolds
  <2> QED
    BY <2>1, <2>2
<1>2. CASE CallerQueues
  <2>1. /\ \E c \in Commands, b \in Devices, ttl \in Nat : Enqueue(c, b, "other", ttl)
        /\ UNCHANGED <<job, handed>>
    BY <1>2, ConstantTypes DEF CallerQueues, Dispatch, AsyncEnqueue
  <2> QED
    BY <2>1, QueuingMoves
<1>3. CASE BoxRequests
  BY <1>3, PollSelectsMoves, AckReadsMoves DEF BoxRequests
<1>4. ASSUME NEW c \in Commands, WaiterStep(c) \/ Wake(c)
      PROVE  UNCHANGED <<rows, queued, job, handed>>
  BY <1>4 DEF WaiterStep, WaitStarts, WaitReads, WaitSleeps, WaitEnds, Wake
<1> QED
  BY <1>1, <1>2, <1>3, <1>4, ForgetMoves, JobStepMoves, TickMoves DEF QueueNext, queueVars

\* With one request of a box under way at a time and nobody superseding, the
\* queue with its split polls and acks and its sweeps implements what its
\* docstring promises of each command (edge_command_queue.py:1-20).
THEOREM ImplementsPromise == OneRequest /\ Senders = {} => (QueueSpec => Promise!Spec)
<1> SUFFICES ASSUME OneRequest, Senders = {} PROVE QueueSpec => Promise!Spec
  OBVIOUS
<1>1. QueueInit => PromiseInv
  <2>1. QueueInit => DeliveryLeft /\ ReadsHold
    BY DEF QueueInit, DeliveryLeft, ReadsHold, JobHolds, Idle
  <2> QED
    BY <2>1, InitInv DEF PromiseInv
<1>2. PromiseInv /\ [QueueNext]_queueVars => PromiseInv'
  BY InvPreserved, DeliveryLeftKept, StepMoves DEF PromiseInv
<1>3. PromiseInv /\ PromiseInv' /\ [QueueNext]_queueVars => [Promise!Next]_(Promise!vars)
  BY StepMoves, MovesArePromised DEF PromiseInv
<1> QED
  BY <1>1, <1>2, <1>3, InitPromised, PTL DEF QueueSpec, Promise!Spec

-----------------------------------------------------------------------------
(* The order in which a box sees its commands, with any number of its      *)
(* requests under way at once.                                             *)

\* Ids are uuids: none is queued twice.
QueuedOnce == \A i, j \in DOMAIN queued : queued[i] = queued[j] => i = j

\* A delivery is counted when it is made.
Untouched == \A c \in Held : rows[c].state = "delivered" => rows[c].given > 0

\* d is a command of c's box that was queued before c and is still alive.
GoesFirst(d, c) ==
    rows[d] # Null /\ Older(d, c) /\ rows[d].box = rows[c].box /\ rows[d].state \notin Done

\* The row a poll has selected stays the next in order until it is handed out,
\* whatever the other requests do in between: what could go first is given.
SelectedFirst ==
    \A q \in Connections : job[q].op = "poll" =>
        /\ job[q].cmd \in ToSet(queued)
        /\ rows[job[q].cmd] # Null =>
              \A d \in Commands : GoesFirst(d, job[q].cmd) => rows[d].given > 0

OrderInv == QueueInv /\ QueuedOnce /\ Untouched /\ SelectedFirst

\* What a step makes of a row that stays: it keeps its box, and it is handed
\* out by a poll that selected it, or it is as alive as it was at most.
GoesOn(c) ==
    /\ rows[c] # Null /\ rows'[c].box = rows[c].box
    /\ \/ /\ rows'[c].given = rows[c].given
          /\ rows'[c].state = "delivered" => rows[c].state = "delivered"
          /\ rows'[c].state \notin Done => rows[c].state \notin Done
       \/ /\ \E q \in Connections : job[q].op = "poll" /\ job[q].cmd = c
          /\ rows'[c].given = rows[c].given + 1
IsNew(c) ==
    rows[c] = Null /\ c \notin ToSet(queued) /\ rows'[c].given = 0 /\ rows'[c].state = "pending"

LEMMA JobStepGoesOn ==
    ASSUME QueueInv, NEW q \in Connections, JobStep(q), NEW c \in Commands, rows'[c] # Null
    PROVE  GoesOn(c)
<1> USE DEF QueueInv
<1> DEFINE d == job[q].cmd
<1>1. rows[c] # Null /\ d \in Commands
  BY JobStepTyped DEF PollsWake, JobStep, PollDelivers, AckWrites
<1>2. rows \in Table /\ rows[c] \in Row /\ job[q].answer \in Answers
  BY <1>1, RowTypes, JobTyped DEF QueueTypeOK, Table
<1>3. \/ UNCHANGED rows
      \/ job[q].op = "poll" /\ rows' = [rows EXCEPT ![d] = Given(rows[d])]
      \/ rows' = [rows EXCEPT ![d].state = job[q].answer]
  BY DEF JobStep, PollDelivers, AckWrites
<1> HIDE DEF d
<1>4. CASE rows'[c] = rows[c]
  BY <1>1, <1>4 DEF GoesOn
<1>5. CASE c # d
  BY <1>2, <1>3, <1>4, <1>5 DEF Table
<1>6. CASE c = d /\ job[q].op = "poll" /\ rows' = [rows EXCEPT ![d] = Given(rows[d])]
  <2>1. rows'[c] = [rows[c] EXCEPT !.state = "delivered", !.due = RedeliverAfter,
                                   !.given = rows[c].given + 1]
    BY <1>2, <1>6 DEF Table, Given
  <2>2. rows'[c].given = rows[c].given + 1 /\ rows'[c].box = rows[c].box
    BY <2>1, <1>2 DEF Row
  <2> QED
    BY <2>2, <1>1, <1>6 DEF d, GoesOn
<1>7. CASE c = d /\ rows' = [rows EXCEPT ![d].state = job[q].answer]
  <2>1. rows'[c] = [rows[c] EXCEPT !.state = job[q].answer]
    BY <1>2, <1>7 DEF Table
  <2>2. rows'[c].given = rows[c].given /\ rows'[c].box = rows[c].box
           /\ rows'[c].state = job[q].answer
    BY <2>1, <1>2 DEF Row
  <2> QED
    BY <2>2, <1>1, <1>2 DEF GoesOn, Done, Answers
<1> QED
  BY <1>3, <1>4, <1>5, <1>6, <1>7

\* The sweep of a poll makes nothing alive that was done.
LEMMA PollSelectsGoesOn ==
    ASSUME QueueInv, NEW q \in Connections, NEW b \in Devices, PollSelects(q, b),
           NEW c \in Commands, rows'[c] # Null
    PROVE  GoesOn(c)
<1> USE DEF QueueInv
<1>1. rows[c] # Null /\ rows'[c].given = rows[c].given /\ rows'[c].box = rows[c].box
  BY PollSelectsTyped
<1>2. rows'[c] \in {rows[c], AfterSweep(c)}
  BY DEF PollSelects, Swept
<1>3. rows[c] \in Row
  BY <1>1, RowTypes DEF QueueTypeOK, Table
<1>4. \/ AfterSweep(c) = rows[c]
      \/ /\ AfterSweep(c).state \in {"pending", "expired"}
         /\ rows[c].state \in {"pending", "delivered"}
  <2>1. \A t \in {"pending", "expired"} : [rows[c] EXCEPT !.state = t].state = t
    BY <1>3 DEF Row
  <2> QED
    BY <2>1 DEF AfterSweep, Stale
<1> QED
  BY <1>1, <1>2, <1>4 DEF GoesOn, Done, Answers

LEMMA RowsGoOn ==
    ASSUME QueueInv, [QueueNext]_queueVars, NEW c \in Commands, rows'[c] # Null
    PROVE  IsNew(c) \/ GoesOn(c)
<1> USE DEF QueueInv
<1>1. CASE rows'[c] = rows[c]
  BY <1>1 DEF GoesOn
<1>2. ASSUME NEW d \in Commands, NEW b \in Devices, NEW kind \in {"dedup", "other"},
             NEW ttl \in Nat, Enqueue(d, b, kind, ttl)
      PROVE  IsNew(c) \/ GoesOn(c)
  <2>1. CASE c # d
    BY <1>1, <1>2, <2>1, EnqueueAdds
  <2>2. CASE c = d
    <3>1. c \notin ToSet(queued) /\ rows'[c].given = 0 /\ rows'[c].state = "pending"
      BY <1>2, <2>2, EnqueueAdds
    <3> QED
      BY <3>1 DEF IsNew, QueuedFirst
  <2> QED
    BY <2>1, <2>2
<1>3. CASE CallerQueues
  <2>1. \E d \in Commands, b \in Devices, ttl \in Nat : Enqueue(d, b, "other", ttl)
    BY <1>3, ConstantTypes DEF CallerQueues, Dispatch, AsyncEnqueue
  <2> QED
    BY <2>1, <1>2
<1>4. ASSUME NEW s \in Senders, SenderStep(s)
      PROVE  IsNew(c) \/ GoesOn(c)
  <2>1. ASSUME NEW b \in Devices, AsyncSupersede(s, b) PROVE GoesOn(c)
    BY <1>1, <2>1, SupersedeTyped DEF GoesOn, Done
  <2>2. ASSUME NEW d \in Commands, NEW ttl \in Ttls, EnqueueNewest(s, d, ttl)
        PROVE  Enqueue(d, sender[s], "dedup", ttl) /\ sender[s] \in Devices /\ ttl \in Nat
    BY <2>2, ConstantTypes DEF EnqueueNewest, QueueTypeOK
  <2> QED
    BY <1>4, <1>2, <2>1, <2>2 DEF SenderStep
<1>5. ASSUME NEW b \in Devices, AsyncForgetDevice(b) PROVE rows'[c] = rows[c]
  BY <1>5, ForgetTyped
<1>6. CASE BoxRequests
  BY <1>1, <1>6, PollSelectsGoesOn DEF BoxRequests, AckReads
<1>7. CASE Tick
  BY <1>7, TickTyped DEF GoesOn
<1>8. ASSUME NEW d \in Commands, WaiterStep(d) \/ Wake(d) PROVE UNCHANGED rows
  BY <1>8 DEF WaiterStep, WaitStarts, WaitReads, WaitSleeps, WaitEnds, Wake
<1> QED
  BY <1>1, <1>3, <1>4, <1>5, <1>6, <1>7, <1>8, JobStepGoesOn DEF QueueNext, queueVars

LEMMA QueueGrows ==
    ASSUME [QueueNext]_queueVars
    PROVE  \/ UNCHANGED queued
           \/ \E e \in Commands : e \notin ToSet(queued) /\ queued' = Append(queued, e)
<1>1. ASSUME NEW c \in Commands, WaiterStep(c) \/ Wake(c) PROVE UNCHANGED queued
  BY <1>1 DEF WaiterStep, WaitStarts, WaitReads, WaitSleeps, WaitEnds, Wake
<1>2. CASE BoxRequests
  BY <1>2 DEF BoxRequests, PollSelects, AckReads
<1>3. ASSUME NEW q \in Connections, JobStep(q) PROVE UNCHANGED queued
  BY <1>3 DEF JobStep, PollDelivers, AckWrites
<1>4. ASSUME NEW s \in Senders, SenderStep(s)
      PROVE  \/ UNCHANGED queued
             \/ \E e \in Commands : e \notin ToSet(queued) /\ queued' = Append(queued, e)
  BY <1>4 DEF SenderStep, AsyncSupersede, EnqueueNewest, Enqueue
<1>5. CASE CallerQueues
  BY <1>5 DEF CallerQueues, Dispatch, AsyncEnqueue, Enqueue
<1> QED
  BY <1>1, <1>2, <1>3, <1>4, <1>5 DEF QueueNext, queueVars, AsyncForgetDevice, Tick

\* The order of what is queued stays.
LEMMA OrderStays ==
    ASSUME OrderInv, [QueueNext]_queueVars
    PROVE  /\ QueuedOnce' /\ ToSet(queued) \subseteq ToSet(queued')
           /\ \A c \in ToSet(queued), d \in Commands :
                 Older(d, c)' => Older(d, c) /\ d \in ToSet(queued)
<1> USE DEF OrderInv, QueueInv
<1>1. CASE UNCHANGED queued
  BY <1>1 DEF QueuedOnce, Older, ToSet
<1>2. ASSUME NEW e \in Commands, e \notin ToSet(queued), queued' = Append(queued, e)
      PROVE  /\ QueuedOnce' /\ ToSet(queued) \subseteq ToSet(queued')
             /\ \A c \in ToSet(queued), d \in Commands :
                   Older(d, c)' => Older(d, c) /\ d \in ToSet(queued)
  <2>1. queued \in Seq(Commands)
    BY DEF QueueTypeOK
  <2>2. /\ DOMAIN queued' = DOMAIN queued \cup {Len(queued) + 1}
        /\ \A i \in DOMAIN queued : queued'[i] = queued[i] /\ i <= Len(queued) /\ i \in Nat
        /\ queued'[Len(queued) + 1] = e /\ Len(queued) \in Nat
    BY <1>2, <2>1
  <2>3. \A i \in DOMAIN queued : queued[i] # e
    BY <1>2 DEF ToSet
  <2>4. QueuedOnce'
    BY <2>2, <2>3 DEF QueuedOnce
  <2>5. ToSet(queued) \subseteq ToSet(queued')
    BY <1>2, <2>1, AppendSet
  <2>6. ASSUME NEW c \in ToSet(queued), NEW d \in Commands, Older(d, c)'
        PROVE  Older(d, c) /\ d \in ToSet(queued)
    <3>1. PICK i, j \in DOMAIN queued' : i < j /\ queued'[i] = d /\ queued'[j] = c
      BY <2>6 DEF Older
    <3>2. j \in DOMAIN queued
      BY <3>1, <2>2, <1>2
    <3>3. i \in DOMAIN queued
      BY <3>1, <3>2, <2>2
    <3> QED
      BY <3>1, <3>2, <3>3, <2>2 DEF Older, ToSet
  <2> QED
    BY <2>4, <2>5, <2>6
<1> QED
  BY <1>1, <1>2, QueueGrows

\* What goes first after a step went first before it, or it was handed out.
LEMMA FirstStays ==
    ASSUME OrderInv, [QueueNext]_queueVars, NEW c \in Commands, c \in ToSet(queued),
           rows'[c] # Null, NEW d \in Commands, GoesFirst(d, c)'
    PROVE  /\ rows[c] # Null
           /\ \/ rows'[d].given > 0
              \/ GoesFirst(d, c) /\ rows[d].given = rows'[d].given
<1> USE DEF OrderInv, QueueInv
<1>1. rows'[d] # Null /\ Older(d, c)' /\ rows'[d].box = rows'[c].box /\ rows'[d].state \notin Done
  BY DEF GoesFirst
<1>2. Older(d, c) /\ d \in ToSet(queued)
  BY <1>1, OrderStays
<1>3. GoesOn(c) /\ GoesOn(d)
  BY <1>1, <1>2, RowsGoOn DEF IsNew
<1>4. rows[d].given \in Nat
  BY <1>3, RowTypes DEF GoesOn, QueueTypeOK, Table
<1> QED
  BY <1>1, <1>2, <1>3, <1>4 DEF GoesOn, GoesFirst

\* A poll selects the oldest pending row of its box.
LEMMA PollsOldest ==
    ASSUME QueueInv, QueueNext, NEW q \in Connections, job'[q].op = "poll", job'[q] # job[q]
    PROVE  \E b \in Devices :
              /\ OldestOf(job'[q].cmd, PendingAfterSweep(b)) /\ rows' = Swept(b)
              /\ UNCHANGED queued
<1> USE DEF QueueInv
<1>1. ASSUME NEW p \in Connections, NEW b \in Devices, PollSelects(p, b)
      PROVE  /\ OldestOf(job'[q].cmd, PendingAfterSweep(b)) /\ rows' = Swept(b)
             /\ UNCHANGED queued
  <2>1. p = q
    BY <1>1, PollSelectsTyped
  <2>2. PICK c \in Commands :
           /\ OldestOf(c, PendingAfterSweep(b))
           /\ job' = [job EXCEPT ![q] = [op |-> "poll", cmd |-> c,
                                         wakes |-> SweepExpires(b), answer |-> "failed"]]
    BY <1>1, <2>1 DEF PollSelects
  <2>3. job'[q].cmd = c
    BY <2>2 DEF QueueTypeOK
  <2> QED
    BY <1>1, <2>2, <2>3 DEF PollSelects
<1>2. ASSUME NEW p \in Connections, NEW b \in Devices, NEW c \in Commands,
             NEW answer \in Answers, AckReads(p, b, c, answer)
      PROVE  FALSE
  BY <1>2, AckReadsTyped
<1>3. ASSUME NEW p \in Connections, JobStep(p) PROVE FALSE
  BY <1>3, JobStepTyped
<1>4. CASE BoxRequests
  BY <1>1, <1>2, <1>4 DEF BoxRequests
<1> QED
  BY <1>3, <1>4
     DEF QueueNext, CallerQueues, Dispatch, AsyncEnqueue, SenderStep, AsyncSupersede,
         EnqueueNewest, AsyncForgetDevice, WaiterStep, WaitStarts, WaitReads, WaitSleeps,
         WaitEnds, Wake, Tick

LEMMA OrderKept ==
    ASSUME OrderInv, [QueueNext]_queueVars
    PROVE  OrderInv'
<1> USE DEF OrderInv, QueueInv
<1>1. QueueInv'
  BY InvPreserved
<1>2. QueuedOnce'
  BY OrderStays
<1>3. Untouched'
  <2> SUFFICES ASSUME NEW c \in Commands, rows'[c] # Null, rows'[c].state = "delivered"
               PROVE  rows'[c].given > 0
    BY DEF Untouched, Held
  <2>1. GoesOn(c)
    BY RowsGoOn DEF IsNew
  <2>2. rows[c].given \in Nat
    BY <2>1, RowTypes DEF GoesOn, QueueTypeOK, Table
  <2> QED
    BY <2>1, <2>2 DEF GoesOn, Untouched, Held
<1>4. SelectedFirst'
  <2> SUFFICES ASSUME NEW q \in Connections, job'[q].op = "poll"
               PROVE  /\ job'[q].cmd \in ToSet(queued')
                      /\ rows'[job'[q].cmd] # Null =>
                            \A d \in Commands : GoesFirst(d, job[q].cmd)' => rows'[d].given > 0
    BY DEF SelectedFirst, GoesFirst, Older
  <2>1. PICK c \in Commands : c = job'[q].cmd
    BY <1>1 DEF PollsWake
  <2>2. CASE job'[q] = job[q]
    <3>1. /\ c \in ToSet(queued) /\ c \in ToSet(queued')
          /\ rows[c] # Null => \A d \in Commands : GoesFirst(d, c) => rows[d].given > 0
      BY <2>1, <2>2, OrderStays DEF SelectedFirst
    <3>2. ASSUME rows'[c] # Null, NEW d \in Commands, GoesFirst(d, c)'
          PROVE  rows'[d].given > 0
      BY <3>1, <3>2, FirstStays
    <3> QED
      BY <2>1, <3>1, <3>2 DEF GoesFirst, Older
  <2>3. CASE job'[q] # job[q]
    <3>1. PICK b \in Devices :
             OldestOf(c, PendingAfterSweep(b)) /\ rows' = Swept(b) /\ UNCHANGED queued
      BY <2>1, <2>3, PollsOldest DEF queueVars
    <3>2. c \in Held /\ rows[c].box = b
      BY <3>1 DEF OldestOf, PendingAfterSweep
    <3>3. c \in ToSet(queued')
      BY <3>1, <3>2 DEF Held, QueuedFirst
    <3>4. ASSUME rows'[c] # Null, NEW d \in Commands, GoesFirst(d, c)'
          PROVE  rows'[d].given > 0
      <4>1. rows'[d] # Null /\ Older(d, c) /\ rows'[d].box = rows'[c].box
               /\ rows'[d].state \notin Done
        BY <3>1, <3>4 DEF GoesFirst, Older
      <4>2. GoesOn(c) /\ d \in ToSet(queued)
        BY <3>2, <3>4, <4>1, RowsGoOn DEF Held, IsNew, Older, ToSet
      <4>3. GoesOn(d)
        BY <4>1, <4>2, RowsGoOn DEF IsNew
      <4>4. rows[d] # Null /\ rows[d].box = b
        BY <3>2, <4>1, <4>2, <4>3 DEF GoesOn
      <4>5. rows'[d] = AfterSweep(d)
        BY <3>1, <4>4 DEF Swept, Held
      <4>6. d # c /\ ~Older(c, d)
        <5>1. PICK i, j \in DOMAIN queued : i < j /\ queued[i] = d /\ queued[j] = c
          BY <4>1 DEF Older
        <5>2. DOMAIN queued \subseteq Nat
          BY DEF QueueTypeOK
        <5> QED
          BY <5>1, <5>2 DEF Older, QueuedOnce
      <4>7. rows'[d].state # "pending"
        BY <3>1, <4>4, <4>5, <4>6 DEF OldestOf, PendingAfterSweep, Held
      <4>8. rows'[d].state = "delivered"
        BY <1>1, <4>1, <4>7 DEF QueueTypeOK, Row
      <4> QED
        BY <1>3, <4>1, <4>8 DEF Untouched, Held
    <3> QED
      BY <2>1, <3>3, <3>4 DEF GoesFirst, Older
  <2> QED
    BY <2>2, <2>3
<1> QED
  BY <1>1, <1>2, <1>3, <1>4

\* When a command is handed out for the first time, each older one of its box
\* that is still alive has been handed out before (edge_command_queue.py:214-218),
\* however many requests of the box are under way and whoever supersedes.
THEOREM HandsOutInOrder == QueueSpec => FirstHandedInOrder
<1>1. QueueInit => OrderInv
  <2> SUFFICES ASSUME QueueInit PROVE OrderInv
    OBVIOUS
  <2>1. QueuedOnce /\ Untouched /\ SelectedFirst
    BY DEF QueueInit, QueuedOnce, Untouched, Held, SelectedFirst, Idle
  <2> QED
    BY <2>1, InitInv DEF OrderInv
<1>2. OrderInv /\ [QueueNext]_queueVars => OrderInv'
  BY OrderKept
<1>3. OrderInv /\ [QueueNext]_queueVars =>
         [\A c, d \in Held :
             HandedOut(c) /\ Older(d, c) /\ rows[d].box = rows[c].box
                /\ rows[d].state \notin Done
                => rows[d].given > 0]_rows
  <2> SUFFICES ASSUME OrderInv, [QueueNext]_queueVars, NEW c \in Held, NEW d \in Held,
                      HandedOut(c), Older(d, c), rows[d].box = rows[c].box,
                      rows[d].state \notin Done
               PROVE  rows[d].given > 0
    OBVIOUS
  <2>1. c \in Commands /\ rows[c] # Null /\ rows'[c] # Null /\ rows'[c].given > rows[c].given
           /\ d \in Commands /\ rows[d] # Null
    BY DEF Held, HandedOut
  <2>2. rows[c].given \in Nat
    BY <2>1, RowTypes DEF OrderInv, QueueInv, QueueTypeOK, Table
  <2>3. GoesOn(c)
    BY <2>1, RowsGoOn DEF OrderInv, IsNew
  <2>4. PICK q \in Connections : job[q].op = "poll" /\ job[q].cmd = c
    BY <2>1, <2>2, <2>3 DEF GoesOn
  <2>5. GoesFirst(d, c)
    BY <2>1 DEF GoesFirst
  <2> QED
    BY <2>1, <2>4, <2>5 DEF OrderInv, SelectedFirst
<1> QED
  BY <1>1, <1>2, <1>3, PTL DEF QueueSpec, FirstHandedInOrder
=============================================================================
