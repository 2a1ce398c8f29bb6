---------------------------- MODULE CollectorLine ----------------------------
(***************************************************************************)
(* One EyBond collector connection: CollectorSession and its TxnScheduler  *)
(* (eybond_at/session.py, scheduler.py).  The Modbus line behind it has no *)
(* transaction ids, so our own reads and the frames of the vendor's cloud  *)
(* take turns on it, and whoever's turn it is gets the next answer.        *)
(*                                                                         *)
(* A request is <<asker, number>>.  A step is the code between two awaits; *)
(* the writes of _apply do not suspend (frames are far below the buffers'  *)
(* limits), and may fail.                                                  *)
(***************************************************************************)
EXTENDS Naturals, Sequences

CONSTANTS
    Callers,      \* coroutines that read or write registers
    Beat,         \* the one of them that is the hub's heartbeat
    Vendor,       \* the vendor's cloud, behind the upstream connection
    MaxQueued,    \* DEFAULT_MAX_QUEUED
    MaxAsks,      \* bound: requests of each asker
    MaxLinks      \* bound: upstream connections

ASSUME LineAssumption ==
    /\ Vendor \notin Callers
    /\ Beat \in Callers
    /\ MaxQueued \in Nat \ {0}
    /\ MaxAsks \in Nat
    /\ MaxLinks \in Nat

Askers == Callers \cup {Vendor}
Requests == Askers \X (Nat \ {0})

VARIABLES
    scheduler,  \* TxnScheduler: state, queue, whether a deadline runs
    wire,       \* requests the collector was sent and will yet answer
    closed,     \* session._closed
    at,         \* per caller: idle, at the lock, or waiting for its future
    done,       \* per caller: is its future resolved or failed?
    asked,      \* per asker, the number of its present or last request
    link,       \* upstream connections made so far, and whether one is up
    sent,       \* history: per asker, the last request put on the line
    answer      \* history: per asker, the last request answered to it

lineVars == <<scheduler, wire, closed, at, done, asked, link, sent, answer>>

-----------------------------------------------------------------------------
(* The scheduler, a function of its state.                                 *)

Free == [state |-> "idle", queue |-> <<>>, due |-> FALSE]
Desynced == [state |-> "desynced", queue |-> <<>>, due |-> FALSE]

Ours(s) == s.state = "ours" \/ \E i \in DOMAIN s.queue : s.queue[i][1] # Vendor

\* _pump: the line is free and somebody waits for it.
Pumps(s) == s.state = "idle" /\ s.queue # <<>>
Pumped(s) ==
    IF ~Pumps(s) THEN s
    ELSE [state |-> IF Head(s.queue)[1] = Vendor THEN "cloud" ELSE "ours",
          queue |-> Tail(s.queue),
          due |-> TRUE]

Queued(s, r) == [s EXCEPT !.queue = Append(@, r)]
Answered(s) == [s EXCEPT !.state = "idle", !.due = FALSE]

LineInit ==
    /\ scheduler = Free
    /\ wire = <<>>
    /\ closed = FALSE
    /\ at = [c \in Callers |-> "idle"]
    /\ done = [c \in Callers |-> FALSE]
    /\ asked = [a \in Askers |-> 0]
    /\ link = [made |-> 0, up |-> FALSE]
    /\ sent = [a \in Askers |-> 0]
    /\ answer = [a \in Askers |-> 0]

Waiting == {c \in Callers : at[c] = "wait"}

\* session.close: the scheduler is reset and the future that waits fails.
FailPending(waiting) == [c \in Callers |-> done[c] \/ c \in waiting]
Close(s) ==
    /\ closed' = TRUE
    /\ scheduler' = IF closed THEN s ELSE Free
    /\ done' = IF closed THEN done ELSE FailPending(Waiting)
    /\ link' = [link EXCEPT !.up = FALSE]
    /\ UNCHANGED sent

\* The scheduler's next frame goes to the collector, if the line is free for
\* one; `onLine` is what the collector still has to answer, `waiting` who has
\* a future.  A failed write closes the session; a closed one writes nothing.
Apply(s, onLine, answered, waiting) ==
    \/ /\ scheduler' = Pumped(s)
       /\ done' = [c \in Callers |-> done[c] \/ c \in answered]
       /\ IF Pumps(s) /\ ~closed
          THEN /\ wire' = Append(onLine, Head(s.queue))
               /\ sent' = [sent EXCEPT ![Head(s.queue)[1]] = Head(s.queue)[2]]
          ELSE wire' = onLine /\ UNCHANGED sent
       /\ UNCHANGED <<closed, link>>
    \/ /\ Pumps(s) /\ ~closed
       /\ wire' = onLine
       /\ closed' = TRUE
       /\ scheduler' = Free
       /\ done' = FailPending(waiting)
       /\ link' = [link EXCEPT !.up = FALSE]
       /\ UNCHANGED sent

-----------------------------------------------------------------------------
(* Our own transactions: _transact.                                        *)

Locked == \E c \in Callers : at[c] = "wait"

\* A caller comes to the lock.  The heartbeat looks first whether the session
\* is open and the lock is free.
Ask(c) ==
    /\ at[c] = "idle"
    /\ asked[c] < MaxAsks
    /\ c = Beat => ~closed /\ ~Locked
    /\ at' = [at EXCEPT ![c] = "lock"]
    /\ asked' = [asked EXCEPT ![c] = @ + 1]
    /\ UNCHANGED <<scheduler, wire, closed, done, link, sent, answer>>

\* Inside the lock: a closed session fails at once, and so does a line that
\* still has an earlier request of ours, whose caller gave up.
RefusesDesynced == closed \/ scheduler.state = "desynced"  \* mutant
Refuses == closed \/ scheduler.state = "desynced" \/ Ours(scheduler)
Enter(c) ==
    /\ at[c] = "lock"
    /\ ~Locked
    /\ IF Refuses
       THEN /\ at' = [at EXCEPT ![c] = "idle"]
            /\ UNCHANGED <<scheduler, wire, closed, done, link, sent>>
       ELSE /\ at' = [at EXCEPT ![c] = "wait"]
            /\ Apply(Queued(scheduler, <<c, asked[c]>>), wire, {}, {c})
    /\ UNCHANGED <<asked, answer>>

\* The future is done and its coroutine goes on, or wait_for's time is over:
\* the caller leaves, and its request stays where it is.
Leave(c) ==
    /\ at[c] = "wait"
    /\ at' = [at EXCEPT ![c] = "idle"]
    /\ done' = [done EXCEPT ![c] = FALSE]
    /\ UNCHANGED <<scheduler, wire, closed, asked, link, sent, answer>>

-----------------------------------------------------------------------------
(* What the collector and the vendor's cloud do.                           *)

\* on_collector_frame: the answer to what is on the line is fed in.  It goes
\* to whoever the scheduler says is pending; an answer nobody is pending for
\* drops the connection.
CollectorFrame ==
    /\ wire # <<>>
    /\ LET r == Head(wire) IN
       \/ /\ scheduler.state = "ours"
          /\ answer' = [a \in Askers |->
                 IF a \in Waiting /\ ~done[a] THEN r[2] ELSE answer[a]]
          /\ Apply(Answered(scheduler), Tail(wire), Waiting, Waiting)
       \/ /\ scheduler.state = "cloud"
          /\ answer' = IF link.up THEN [answer EXCEPT ![Vendor] = r[2]] ELSE answer
          /\ Apply(Answered(scheduler), Tail(wire), {}, Waiting)
       \/ /\ scheduler.state = "idle"
          /\ Close(Desynced)
          /\ wire' = Tail(wire)
          /\ UNCHANGED answer
       \/ /\ scheduler.state = "desynced"
          /\ wire' = Tail(wire)
          /\ UNCHANGED <<scheduler, closed, done, link, sent, answer>>
    /\ UNCHANGED <<at, asked>>

\* The collector never answers this one.
Silence ==
    /\ wire # <<>>
    /\ wire' = Tail(wire)
    /\ UNCHANGED <<scheduler, closed, at, done, asked, link, sent, answer>>

\* End of stream, or bytes that are no frame.
CollectorGone ==
    /\ ~closed
    /\ Close(Free)
    /\ wire' = <<>>
    /\ UNCHANGED <<at, asked, answer>>

\* on_cloud_frame: a vendor frame waits its turn; a full queue drops the line.
VendorFrame ==
    /\ link.up
    /\ asked[Vendor] < MaxAsks
    /\ IF Len(scheduler.queue) >= MaxQueued
       THEN Close(Free) /\ UNCHANGED <<wire, asked>>
       ELSE /\ asked' = [asked EXCEPT ![Vendor] = @ + 1]
            /\ Apply(Queued(scheduler, <<Vendor, asked[Vendor] + 1>>), wire, {}, Waiting)
    /\ UNCHANGED <<at, answer>>

\* _upstream_loop: a connection to the vendor's cloud comes and goes; frames
\* of the one before stay queued and on the line.
Upstream ==
    /\ ~closed
    /\ \/ /\ ~link.up /\ link.made < MaxLinks
          /\ link' = [made |-> link.made + 1, up |-> TRUE]
       \/ link.up /\ link' = [link EXCEPT !.up = FALSE]
    /\ UNCHANGED <<scheduler, wire, closed, at, done, asked, sent, answer>>

\* on_tick past the deadline.  The loop that ticks is the one that sends the
\* heartbeat, and waits for its answer.
Tick ==
    /\ scheduler.due
    /\ at[Beat] = "idle"
    /\ Close(Desynced)
    /\ UNCHANGED <<wire, at, asked, answer>>

LineNext ==
    \/ \E c \in Callers : Ask(c) \/ Enter(c) \/ Leave(c)
    \/ CollectorFrame \/ Silence \/ CollectorGone
    \/ VendorFrame \/ Upstream \/ Tick

LineSpec == LineInit /\ [][LineNext]_lineVars

\* asyncio wakes who can go on, and its lock in the order of arrival; timers
\* fire.  The tick comes round before each heartbeat.  Neither the collector
\* nor the vendor's cloud need do anything.
LineFair ==
    /\ \A c \in Callers : WF_lineVars(Leave(c)) /\ SF_lineVars(Enter(c))
    /\ SF_lineVars(Tick)

-----------------------------------------------------------------------------
(* Properties.                                                             *)

LineTypeOK ==
    /\ scheduler \in [state : {"idle", "cloud", "ours", "desynced"},
                      queue : Seq(Requests), due : BOOLEAN]
    /\ wire \in Seq(Requests)
    /\ closed \in BOOLEAN
    /\ at \in [Callers -> {"idle", "lock", "wait"}]
    /\ done \in [Callers -> BOOLEAN]
    /\ asked \in [Askers -> Nat]
    /\ link \in [made : Nat, up : BOOLEAN]
    /\ sent \in [Askers -> Nat]
    /\ answer \in [Askers -> Nat]

\* The connection keeps the promise of the line (scheduler.py:1-37): one
\* request at a time, and an answer only to who asked, although callers give
\* up while their request waits or is on the line, and vendor links come and
\* go.  A vendor frame the session accepted is put on the line, or the
\* connection is dropped and the collector redials, even when the collector
\* stops answering: none is discarded silently (scheduler.py:34-37).
Promise == INSTANCE SerialLine
KeepsPromise == Promise!Spec /\ (LineFair => Promise!Serves)

\* Nobody waits for an answer on a closed connection (session.close).
ClosedWakesAll == closed => \A c \in Callers : at[c] = "wait" => done[c]
=============================================================================
