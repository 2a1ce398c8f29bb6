--------------------------- MODULE EdgeCommandQueue ---------------------------
(***************************************************************************)
(* The commands adopted edge boxes drain from this Home Assistant:         *)
(* src/custom_components/svitgrid/edge_command_queue.py, the two views of  *)
(* edge_api.py a box calls, and the callers that wait or supersede.        *)
(*                                                                         *)
(* The queue is a SQLite table.  Its methods run in a thread pool, each on *)
(* its own connection, so two of them interleave between their statements: *)
(* a poll selects a row and then updates it, an ack reads a row and then   *)
(* updates it, and neither update checks the state it read.  When a method *)
(* returns to the event loop, the commands it ended are woken: `waking`    *)
(* holds those whose statement is committed and whose event is not set.    *)
(*                                                                         *)
(* Time is a set of countdowns that Tick runs.  A tick stands for some     *)
(* tens of seconds: it waits for the jobs, wakes and woken coroutines that *)
(* take milliseconds, and for a timeout that is due.                       *)
(***************************************************************************)
EXTENDS Integers, Sequences, SequencesExt

CONSTANTS
    Commands,      \* command ids: uuid4, never used twice
    Devices,         \* device ids of the adopted boxes
    Connections,   \* requests the boxes may have under way at once
    Senders,       \* coroutines that supersede and then enqueue
    Ttls,          \* the ttl_s callers pass, in ticks
    DispatchTtl,   \* DEFAULT_TTL_S, which EdgeBoxExecutor leaves as it is
    RedeliverAfter,\* REDELIVER_AFTER_S
    MaxDeliveries, \* MAX_DELIVERIES
    AckTimeout,    \* EdgeBoxExecutor's ack_timeout_s
    Null

\* 90 s, 120 s and 900 s in the code.
ASSUME QueueAssumption ==
    /\ {AckTimeout, RedeliverAfter, DispatchTtl, MaxDeliveries} \subseteq Nat \ {0}
    /\ AckTimeout < RedeliverAfter /\ RedeliverAfter < DispatchTtl
    /\ Ttls \subseteq Nat \ {0}
    /\ Null \notin Commands \cup Devices

VARIABLES
    rows,    \* the table: a row for each command, or Null
    queued,  \* the ids in the order their rows were inserted
    job,     \* the method a connection's request has half done
    sender,  \* the box a sender superseded for and has yet to enqueue for
    handed,  \* commands whose row a poll returned to the box
    waking,  \* commands to wake once their method is back on the loop
    wait,    \* what the dispatch of a command does
    event,   \* whether the event of a command is set
    timer    \* ticks until a sleeping dispatch times out

queueVars == <<rows, queued, job, sender, handed, waking, wait, event, timer>>
waiters == <<wait, event, timer>>

Answers == {"success", "failed"}
Done == Answers \cup {"expired"}
Row == [box: Devices,
        kind: {"dedup", "other"},   \* dedup: its callers supersede first
        state: {"pending", "delivered"} \cup Done,
        due: Nat,                   \* ticks until a delivery is stale
        left: Nat,                  \* ticks until expires_at
        given: Nat]                 \* deliveries
ASSUME NullIsNoRow == Null \notin Row

Idle == [op |-> "none", cmd |-> Null, wakes |-> {}, answer |-> "failed"]

QueueTypeOK ==
    /\ rows \in [Commands -> Row \cup {Null}]
    /\ queued \in Seq(Commands)
    /\ job \in [Connections -> [op: {"none", "poll", "ack"},
                                cmd: Commands \cup {Null},
                                wakes: SUBSET Commands, answer: Answers]]
    /\ sender \in [Senders -> Devices \cup {Null}]
    /\ handed \subseteq Commands
    /\ waking \subseteq Commands
    /\ wait \in [Commands -> {"none", "starting", "reading", "read", "asleep",
                           "over"}]
    /\ event \in [Commands -> BOOLEAN]
    /\ timer \in [Commands -> Nat]

QueueInit ==
    /\ rows = [c \in Commands |-> Null]
    /\ queued = <<>>
    /\ job = [q \in Connections |-> Idle]
    /\ sender = [s \in Senders |-> Null]
    /\ handed = {}
    /\ waking = {}
    /\ wait = [c \in Commands |-> "none"]
    /\ event = [c \in Commands |-> FALSE]
    /\ timer = [c \in Commands |-> 0]

Held == {c \in Commands : rows[c] # Null}
InState(s) == {c \in Held : rows[c].state = s}
IsDone(c) == rows[c] = Null \/ rows[c].state \in Done

-----------------------------------------------------------------------------
(* Callers that queue. *)

\* _enqueue_sync.
Enqueue(c, b, kind, ttl) ==
    /\ c \notin ToSet(queued)
    /\ rows' = [rows EXCEPT ![c] = [box |-> b, kind |-> kind, state |-> "pending",
                                    due |-> 0, left |-> ttl, given |-> 0]]
    /\ queued' = Append(queued, c)

\* The callers that queue a command and go: trust, revoke, adopt, Zigbee...
AsyncEnqueue(c, b, ttl) ==
    /\ Enqueue(c, b, "other", ttl)
    /\ UNCHANGED <<job, sender, handed, waking, waiters>>

\* async_supersede: its first half of a dedup send.
AsyncSupersede(s, b) ==
    LET old == {c \in InState("pending") : rows[c].box = b /\ rows[c].kind = "dedup"}
    IN  /\ sender[s] = Null
        /\ rows' = [c \in Commands |->
                       IF c \in old THEN [rows[c] EXCEPT !.state = "expired"]
                                    ELSE rows[c]]
        /\ waking' = waking \cup old
        /\ sender' = [sender EXCEPT ![s] = b]
        /\ UNCHANGED <<queued, job, handed, waiters>>

\* ...and the enqueue that follows it.
EnqueueNewest(s, c, ttl) ==
    /\ sender[s] # Null
    /\ Enqueue(c, sender[s], "dedup", ttl)
    /\ sender' = [sender EXCEPT ![s] = Null]
    /\ UNCHANGED <<job, handed, waking, waiters>>

\* async_forget_device: a box forgotten over the LAN, or bound again.
AsyncForgetDevice(b) ==
    LET gone == {c \in Held : rows[c].box = b}
    IN  /\ gone # {}
        /\ rows' = [c \in Commands |-> IF c \in gone THEN Null ELSE rows[c]]
        /\ waking' = waking \cup gone
        /\ UNCHANGED <<queued, job, sender, handed, waiters>>

-----------------------------------------------------------------------------
(* EdgeBoxExecutor.dispatch: queue the command and wait for the answer. *)

Dispatch(c, b) ==
    /\ Enqueue(c, b, "other", DispatchTtl)
    /\ wait' = [wait EXCEPT ![c] = "starting"]
    /\ UNCHANGED <<job, sender, handed, waking, event, timer>>

Return(c) ==
    /\ wait' = [wait EXCEPT ![c] = "over"]
    /\ event' = [event EXCEPT ![c] = FALSE]
    /\ timer' = [timer EXCEPT ![c] = 0]

\* async_wait: the event first...
WaitStarts(c) ==
    /\ wait[c] = "starting"
    /\ wait' = [wait EXCEPT ![c] = "reading"]
    /\ UNCHANGED <<rows, queued, job, sender, handed, waking, event, timer>>

\* ...then the row, which may be done already...
WaitReads(c) ==
    /\ wait[c] = "reading"
    /\ IF IsDone(c)
       THEN Return(c)
       ELSE wait' = [wait EXCEPT ![c] = "read"] /\ UNCHANGED <<event, timer>>
    /\ UNCHANGED <<rows, queued, job, sender, handed, waking>>

\* ...and, once the read is back on the loop, it sleeps.
WaitSleeps(c) ==
    /\ wait[c] = "read"
    /\ wait' = [wait EXCEPT ![c] = "asleep"]
    /\ timer' = [timer EXCEPT ![c] = AckTimeout]
    /\ UNCHANGED <<rows, queued, job, sender, handed, waking, event>>

WokenOrTimedOut(c) == event[c] \/ timer[c] = 0

\* It wakes at the event or the timeout, and reads the row again.
WaitEnds(c) ==
    /\ wait[c] = "asleep"
    /\ WokenOrTimedOut(c)
    /\ Return(c)
    /\ UNCHANGED <<rows, queued, job, sender, handed, waking>>

\* There is an event to set from WaitStarts to Return.
HasEventOnceAsleep(c) == wait[c] = "asleep"  \* mutant
HasEvent(c) == wait[c] \in {"reading", "read", "asleep"}

\* _wake.
Wake(c) ==
    /\ c \in waking
    /\ waking' = waking \ {c}
    /\ event' = [event EXCEPT ![c] = HasEvent(c)]
    /\ UNCHANGED <<rows, queued, job, sender, handed, wait, timer>>

-----------------------------------------------------------------------------
(* The requests of a box: GET /executors/commands, POST .../{id}/ack. *)

Stale(c) == rows[c].state = "delivered" /\ rows[c].due = 0

\* _sweep_sync: the ids it lists as expired...
SweepExpires(b) ==
    {c \in Held : rows[c].box = b /\
        \/ Stale(c) /\ rows[c].given >= MaxDeliveries
        \/ rows[c].state = "pending" /\ rows[c].left = 0}

\* ...and what its three updates make of a row, in their order: a stale
\* delivery goes back to pending or expires, and pending rows past their TTL
\* expire, those just gone back included.
AfterSweepRequeues(c) ==  \* mutant
    IF Stale(c) THEN [rows[c] EXCEPT !.state = "pending"] ELSE rows[c]
AfterSweep(c) ==
    IF Stale(c) /\ rows[c].given >= MaxDeliveries
    THEN [rows[c] EXCEPT !.state = "expired"]
    ELSE IF Stale(c) \/ rows[c].state = "pending"
    THEN [rows[c] EXCEPT !.state = IF rows[c].left = 0 THEN "expired" ELSE "pending"]
    ELSE rows[c]

Swept(b) == [c \in Commands |->
                IF c \in Held /\ rows[c].box = b THEN AfterSweep(c) ELSE rows[c]]

PendingAfterSweep(b) ==
    {c \in Held : rows[c].box = b /\ AfterSweep(c).state = "pending"}

Older(c, d) == \E i, j \in DOMAIN queued : i < j /\ queued[i] = c /\ queued[j] = d
NewestOf(c, S) == c \in S /\ \A d \in S \ {c} : Older(d, c)  \* mutant
OldestOf(c, S) == c \in S /\ \A d \in S \ {c} : Older(c, d)

\* _next_pending_sync up to the SELECT of the oldest pending row.
PollSelects(q, b) ==
    /\ job[q].op = "none"
    /\ rows' = Swept(b)
    /\ \/ /\ PendingAfterSweep(b) = {}
          /\ waking' = waking \cup SweepExpires(b)
          /\ UNCHANGED job
       \/ \E c \in Commands :
             /\ OldestOf(c, PendingAfterSweep(b))
             /\ job' = [job EXCEPT ![q] = [op |-> "poll", cmd |-> c,
                           wakes |-> SweepExpires(b), answer |-> "failed"]]
             /\ UNCHANGED waking
    /\ UNCHANGED <<queued, sender, handed, waiters>>

GivenUncounted(row) ==  \* mutant
    [row EXCEPT !.state = "delivered", !.due = RedeliverAfter]
Given(row) == [row EXCEPT !.state = "delivered", !.due = RedeliverAfter,
                          !.given = @ + 1]

\* ...then the UPDATE by id, whatever the row's state is by now, and the
\* return to the loop.  The response may be lost: the box need not answer.
PollDelivers(q) ==
    LET c == job[q].cmd
    IN  /\ job[q].op = "poll"
        /\ IF rows[c] = Null
           THEN UNCHANGED <<rows, handed>>
           ELSE /\ rows' = [rows EXCEPT ![c] = Given(@)]
                /\ handed' = handed \cup {c}
        /\ waking' = waking \cup job[q].wakes
        /\ job' = [job EXCEPT ![q] = Idle]
        /\ UNCHANGED <<queued, sender, waiters>>

Answered(c) == rows[c].state \in Answers

\* _ack_sync up to its decision.  A box answers what it was handed, and sends
\* its answer again until a request gets through; a command it ran twice may
\* have two answers.  An answered row is returned as it stands, and woken.
AckReads(q, b, c, answer) ==
    /\ job[q].op = "none"
    /\ c \in handed
    /\ rows[c] # Null /\ rows[c].box = b
    /\ IF Answered(c)
       THEN waking' = waking \cup {c} /\ UNCHANGED job
       ELSE /\ job' = [job EXCEPT ![q] = [op |-> "ack", cmd |-> c, wakes |-> {},
                                          answer |-> answer]]
            /\ UNCHANGED waking
    /\ UNCHANGED <<rows, queued, sender, handed, waiters>>

\* ...then the UPDATE by id, and the return to the loop.
AckWrites(q) ==
    LET c == job[q].cmd
    IN  /\ job[q].op = "ack"
        /\ IF rows[c] = Null
           THEN UNCHANGED <<rows, waking>>
           ELSE /\ rows' = [rows EXCEPT ![c].state = job[q].answer]
                /\ waking' = waking \cup {c}
        /\ job' = [job EXCEPT ![q] = Idle]
        /\ UNCHANGED <<queued, sender, handed, waiters>>

-----------------------------------------------------------------------------
Less1(n) == IF n = 0 THEN 0 ELSE n - 1

Settled ==
    /\ \A q \in Connections : job[q].op = "none"
    /\ waking = {}
    /\ \A c \in Commands :
          \/ wait[c] \in {"none", "over"}
          \/ wait[c] = "asleep" /\ ~event[c] /\ timer[c] > 0

Tick ==
    /\ Settled
    /\ rows' = [c \in Commands |->
                   IF rows[c] = Null THEN Null
                   ELSE [rows[c] EXCEPT !.due = Less1(@), !.left = Less1(@)]]
    /\ timer' = [c \in Commands |-> Less1(timer[c])]
    /\ UNCHANGED <<queued, job, sender, handed, waking, wait, event>>

WaiterStep(c) == WaitStarts(c) \/ WaitReads(c) \/ WaitSleeps(c) \/ WaitEnds(c)
JobStep(q) == PollDelivers(q) \/ AckWrites(q)

CallerQueues ==
    \E c \in Commands, b \in Devices :
        Dispatch(c, b) \/ \E ttl \in Ttls : AsyncEnqueue(c, b, ttl)
SenderStep(s) ==
    \/ \E b \in Devices : AsyncSupersede(s, b)
    \/ \E c \in Commands, ttl \in Ttls : EnqueueNewest(s, c, ttl)
BoxRequests ==
    \E q \in Connections, b \in Devices :
        \/ PollSelects(q, b)
        \/ \E c \in Commands, answer \in Answers : AckReads(q, b, c, answer)

QueueNext ==
    \/ CallerQueues
    \/ \E s \in Senders : SenderStep(s)
    \/ \E b \in Devices : AsyncForgetDevice(b)
    \/ BoxRequests
    \/ \E q \in Connections : JobStep(q)
    \/ \E c \in Commands : WaiterStep(c) \/ Wake(c)
    \/ Tick

QueueSpec == QueueInit /\ [][QueueNext]_queueVars

\* Coroutines and thread pool jobs that can go on do; time passes, however
\* often the boxes ask; and an adopted box polls again and again.
QueueFair ==
    /\ \A c \in Commands : WF_queueVars(WaiterStep(c)) /\ WF_queueVars(Wake(c))
    /\ \A q \in Connections : WF_queueVars(JobStep(q))
    /\ \A b \in Devices : SF_queueVars(\E q \in Connections : PollSelects(q, b))
    /\ SF_queueVars(Tick)

-----------------------------------------------------------------------------
(* Properties. *)

\* A box is handed a command at most twice, however often it fails to ack it
\* ("a box that keeps dropping it does not see it forever",
\* edge_command_queue.py:10-13; MAX_DELIVERIES).
DeliveredAtMostTwice == \A c \in Held : rows[c].given <= MaxDeliveries

\* A dispatch asleep on a command that is answered, expired or forgotten has
\* its wake set or on its way: it never sleeps through the box's answer to
\* its timeout (async_wait, edge_command_queue.py:410-423).
NoLostWakeup ==
    \A c \in Commands :
        wait[c] = "asleep" /\ IsDone(c)
           => event[c] \/ c \in waking \/ \E q \in Connections : c \in job[q].wakes

HandedOut(c) == rows[c] # Null /\ rows'[c] # Null /\ rows'[c].given > rows[c].given

\* A box sees its commands in the order they were queued: when one is handed
\* out for the first time, each older one of the box that is still alive has
\* been handed out before (edge_command_queue.py:214-218).
FirstHandedInOrder ==
    [][\A c, d \in Held :
          HandedOut(c) /\ Older(d, c) /\ rows[d].box = rows[c].box
             /\ rows[d].state \notin Done
             => rows[d].given > 0]_rows

\* What async_supersede says: "so the copy queued next is the only one it
\* runs" (edge_command_queue.py:442-443): the box is never handed a copy when
\* a newer one of its kind has been queued.
OnlyTheNewestRuns ==
    [][\A c, d \in Held :
          HandedOut(c) /\ rows[c].kind = "dedup" /\ rows[d].kind = "dedup"
             /\ rows[c].box = rows[d].box
             => ~Older(c, d)]_rows

\* A dispatch always comes back to the phone that asked for it.
DispatchEnds == QueueFair => \A c \in Commands : wait[c] = "starting" ~> wait[c] = "over"

\* The promise of the queue to its callers, command by command; under a box
\* that polls, each command is answered, expires or is forgotten.
Promise == INSTANCE EdgeCommandPromise WITH
    stage <- [c \in Commands |->
                 IF rows[c] # Null THEN rows[c].state
                 ELSE IF c \in ToSet(queued) THEN "forgotten" ELSE "none"],
    given <- [c \in Commands |-> IF rows[c] = Null THEN 0 ELSE rows[c].given]
KeepsPromise == Promise!Spec /\ (QueueFair => Promise!Settles)
=============================================================================
