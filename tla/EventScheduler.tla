----------------------------- MODULE EventScheduler -----------------------------
(***************************************************************************)
(* The calendar events of a true island: harvest/event_scheduler_loop.py,  *)
(* the decisions of harvest/event_evaluator.py that write registers, the   *)
(* rows of island_event_store.py and the requests of http_views.py.        *)
(*                                                                         *)
(* One inverter.  An event writes its registers while it is active and     *)
(* puts back, at its end, the values its writes read before they wrote.    *)
(* A register holds a setting of the owner or the value of an event.       *)
(*                                                                         *)
(* A tick works on the rows it listed at its start and writes them back    *)
(* one event at a time; requests of the app, and the restores they start,  *)
(* run beside it.  Both are cut at every command sent to the inverter and  *)
(* at every read and write of the store.                                   *)
(*                                                                         *)
(* External: windows, conditions and the owner.  Left out: the sunset      *)
(* guard, edits of a stored event, fixed restores (generator force), the   *)
(* priority and threshold profiles of edge boxes.                          *)
(***************************************************************************)
EXTENDS Naturals, Sequences, Functions

CONSTANTS
    Events, Registers,
    Settings,    \* what the owner may set a register to
    Writes,      \* the registers an event writes, in order (_event_writes)
    Rules,       \* custom events that recur "always": they have no window
    Sales,       \* sell_to_grid events: they may release inside the window
    Stored,      \* the events a household may start with, as sets of them
    Rank,        \* the owner's order (_rank): lower goes first
    Faults,      \* how a command may fail in this instance
    Tick,        \* the scheduler
    Requests,    \* bound: requests of the app
    Targets,     \* bound: the events they are about
    MaxMishaps,  \* bound: commands that fail and restarts
    None

ASSUME SchedulerAssumption ==
    /\ Writes \in [Events -> Seq(Registers)]
    /\ Stored \subseteq SUBSET Events
    /\ Rules \cup Sales \subseteq Events /\ Rules \cap Sales = {}
    /\ Rank \in [Events -> Nat]
    /\ \A u \in Rules, w \in Events \ Rules : Rank[u] # Rank[w]
    /\ Faults \subseteq {"unwritten", "unverified"}
    /\ Tick \notin Requests
    /\ None \notin Events \cup Settings /\ Events \cap Settings = {}
    /\ Targets \subseteq Events /\ MaxMishaps \in Nat

VARIABLES
    inverter,  \* the registers
    rows,      \* island_events: the stored events
    tick,      \* the scheduler's tick
    job,       \* the commands an actor is sending
    settling,  \* _settling
    asks,      \* the requests
    mishaps,   \* failed commands and restarts so far
    owner,     \* history: what the owner last set
    spoilt     \* history: why a write may have been lost track of (Spoils)

vars == <<inverter, rows, tick, job, settling, asks, mishaps, owner, spoilt>>

Actors == {Tick} \cup Requests
Values == Settings \cup Events
NoPriors == [r \in Registers |-> None]
Fresh == [enabled |-> TRUE, status |-> "idle", prior |-> NoPriors, released |-> FALSE,
          mark |-> "none", backoff |-> FALSE]
Rows == [enabled: BOOLEAN, status: {"idle", "pending", "active"},
         prior: [Registers -> Values \cup {None}], released: BOOLEAN,
         mark: {"none", "delete", "disable"}, backoff: BOOLEAN]
Asleep == [at |-> "asleep", known |-> <<>>, todo |-> {}, window |-> {}]
NoJob == [event |-> None, kind |-> "none", left |-> <<>>, state |-> Fresh,
          next |-> Fresh, read |-> NoPriors, failed |-> FALSE]
NoAsk == [at |-> "new", event |-> None, kind |-> "none", state |-> Fresh]

TypeOK ==
    /\ inverter \in [Registers -> Values]
    /\ DOMAIN rows \subseteq Events /\ \A e \in DOMAIN rows : rows[e] \in Rows
    /\ tick.at \in {"asleep", "settling", "evaluating"}
    /\ DOMAIN tick.known \subseteq Events
    /\ \A e \in DOMAIN tick.known : tick.known[e] \in Rows
    /\ tick.todo \subseteq DOMAIN tick.known /\ tick.window \subseteq Events \ Rules
    /\ \A a \in Actors :
         /\ job[a].event \in Events \cup {None}
         /\ job[a].kind \in {"none", "activate", "end", "settle"}
         /\ \A i \in DOMAIN job[a].left : job[a].left[i] \in Registers \X SUBSET Values
         /\ {job[a].state, job[a].next} \subseteq Rows
         /\ job[a].read \in [Registers -> Values \cup {None}] /\ job[a].failed \in BOOLEAN
    /\ settling \subseteq Events
    /\ asks \in [Requests -> [at: {"new", "asked", "marking", "pending", "settling", "done"},
                              event: Events \cup {None}, state: Rows,
                              kind: {"none", "put", "delete", "disable"}]]
    /\ mishaps \in 0..MaxMishaps
    /\ owner \in [Registers -> Settings]
    /\ spoilt \subseteq {"overlap", "late", "cut", "beside"}

Init ==
    /\ owner \in [Registers -> Settings]
    /\ inverter = owner
    /\ \E S \in Stored : rows = [e \in S |-> Fresh]
    /\ tick = Asleep
    /\ job = [a \in Actors |-> NoJob]
    /\ settling = {}
    /\ asks = [q \in Requests |-> NoAsk]
    /\ mishaps = 0
    /\ spoilt = {}

-----------------------------------------------------------------------------
(* The evaluator. *)

\* Whether a write of the event's run is still on the inverter.
Landed(s) == ~s.released /\ (s.status = "active" \/ \E r \in Registers : s.prior[r] # None)

Others(known, e) == DOMAIN known \ {e}

OwnerFirst(known, e, r) == {}  \* mutant
\* The other events that hold a register, and so get it back.
Holders(known, e, r) ==
    {o \in Others(known, e) :
        /\ known[o].prior[r] # None /\ ~known[o].released /\ known[o].mark = "none"
        /\ r \in Range(Writes[o])}

BackToUnread(known, e, s, r) == {s.prior[r]}  \* mutant
\* What a restore writes to a register: a holder's value (the first listed) or
\* the captured one.  Nothing, when none was captured.
BackTo(known, e, s, r) ==
    IF Holders(known, e, r) # {} THEN Holders(known, e, r) ELSE {s.prior[r]} \ {None}

\* _restore_plan's commands: by position, a register and what it may be set to.
RestorePlan(known, e, s, landedOnly) ==
    [i \in {j \in DOMAIN Writes[e] :
               /\ ~(landedOnly /\ s.released)
               /\ BackTo(known, e, s, Writes[e][j]) # {}} |->
        <<Writes[e][i], BackTo(known, e, s, Writes[e][i])>>]

DropRun(s) == [s EXCEPT !.prior = NoPriors, !.released = FALSE]

Hold(s) == [action |-> "hold", plan |-> <<>>, next |-> s]
Ends(plan, s) == [action |-> "end", plan |-> plan, next |-> s]
Activates(e, s) ==
    [action |-> "activate",
     plan |-> [i \in DOMAIN Writes[e] |-> <<Writes[e][i], {e}>>],
     next |-> [s EXCEPT !.status = "active", !.released = FALSE]]

\* restore_decision: the window end's restore, and a cancel's.
Restore(known, e, s) ==
    Ends(RestorePlan(known, e, s, s.status # "active"), [DropRun(s) EXCEPT !.status = "idle"])

Shares(e, o) == Range(Writes[e]) \cap Range(Writes[o]) # {}
Live(s) == s.enabled /\ s.mark = "none"

\* The windowed events that hold a rule off.
Pausers(known, window, e) ==
    {o \in Others(known, e) \ Rules :
        /\ e \in Rules /\ Shares(e, o) /\ Live(known[o])
        /\ Rank[e] >= Rank[o]
        /\ known[o].status = "active" \/ o \in window}

Paused(known, e, s) ==
    IF Landed(s)
    THEN Ends(RestorePlan(known, e, s, s.status # "active"), [DropRun(s) EXCEPT !.status = "idle"])
    ELSE Hold([s EXCEPT !.status = "idle"])

BlockersBusy(known, e) ==  \* mutant
    {o \in Others(known, e) \cap Rules :
        /\ known[e].status # "active" /\ ~Landed(known[e])
        /\ Shares(e, o) /\ Live(known[o])
        /\ known[o].status # "idle" /\ Rank[e] >= Rank[o]}
\* The rules that still keep a windowed event from its registers: one above it
\* that runs, or one below it whose restore has not run.
Blockers(known, e) ==
    {o \in Others(known, e) \cap Rules :
        /\ known[e].status # "active" /\ ~Landed(known[e])
        /\ Shares(e, o) /\ Live(known[o])
        /\ \/ known[o].status # "idle" /\ Rank[e] >= Rank[o]
           \/ Landed(known[o])}
StandsDown(known, e) ==
    \E o \in Blockers(known, e) : known[o].status # "idle" /\ Rank[e] >= Rank[o]

Blocked(known, e, s) == Hold([s EXCEPT !.status = IF StandsDown(known, e) THEN "idle" ELSE @])

\* A sale that stops inside its window (the battery floor, no sun) keeps its
\* priors for the next start in that window.
SaleMode(known, e, s) ==
    IF s.status = "active"
    THEN {Hold(s), Ends(RestorePlan(known, e, s, FALSE),
                        [s EXCEPT !.status = "pending", !.released = TRUE])}
    ELSE {Hold(s), Activates(e, s)}

\* A condition is met, not met, or being sustained, and a stale reading defers.
ConditionMode(known, e, s) ==
    IF s.status = "active"
    THEN {Hold(s), Ends(RestorePlan(known, e, s, FALSE),
                        [s EXCEPT !.status = "idle", !.prior = NoPriors])}
    ELSE {Hold([s EXCEPT !.status = x]) : x \in {"idle", "pending", s.status}}
           \cup {Activates(e, s)}

\* _eval_mode: of these decisions the mode may take any.
Mode(known, e, s) == IF e \in Sales THEN SaleMode(known, e, s) ELSE ConditionMode(known, e, s)

\* An activation that failed partway and is not tried again is undone.
UndoPartial(known, e, s, d) ==
    IF d.action = "hold" /\ s.status # "active" /\ Landed(s)
    THEN Ends(RestorePlan(known, e, s, TRUE), [d.next EXCEPT !.prior = NoPriors])
    ELSE d

OutOfWindow(known, e, s) ==
    IF Landed(s)
    THEN Restore(known, e, s)
    ELSE Hold([DropRun(s) EXCEPT !.status = IF @ = "pending" THEN "idle" ELSE @])

Decisions(known, window, e) ==
    LET s == known[e]
    IN  IF Pausers(known, window, e) # {}
        THEN {Paused(known, e, s)}
        ELSE IF e \in Rules \/ (e \in window /\ Blockers(known, e) = {})
        THEN {UndoPartial(known, e, s, d) : d \in Mode(known, e, s)}
        ELSE IF e \in window
        THEN {Blocked(known, e, s)}
        ELSE {OutOfWindow(known, e, s)}

-----------------------------------------------------------------------------
(* The store: a state set on a missing row is lost. *)

SetState(e, s) ==
    IF e \in DOMAIN rows
    THEN [rows EXCEPT ![e] = [s EXCEPT !.enabled = rows[e].enabled]]
    ELSE rows

Without(e) == Restrict(rows, DOMAIN rows \ {e})

\* INSERT OR REPLACE keeps the execution state.
Upsert(e, on) ==
    [o \in DOMAIN rows \cup {e} |->
        IF o # e THEN rows[o]
        ELSE IF e \in DOMAIN rows THEN [rows[e] EXCEPT !.enabled = on]
        ELSE [Fresh EXCEPT !.enabled = on]]

-----------------------------------------------------------------------------
(* _dispatch_all: the commands of one decision, one after the other. *)

Starts(a, kind, e, s, plan, next) ==
    job' = [job EXCEPT ![a] = [event |-> e, kind |-> kind, left |-> plan, state |-> s,
                               next |-> next, read |-> NoPriors, failed |-> FALSE]]

Sent(a) == job[a].kind # "none" /\ DOMAIN job[a].left = {}
IsNext(a, i) ==
    /\ job[a].kind # "none" /\ i \in DOMAIN job[a].left
    /\ \A j \in DOMAIN job[a].left : i <= j
Rest(plan, i) == Restrict(plan, DOMAIN plan \ {i})

\* WriteExecutor.dispatch: the register is read, written and read back; the
\* answer reports what the first read saw, which a restore ignores.
CommandLands(a) ==
    /\ \E i \in DOMAIN job[a].left :
         LET r == job[a].left[i][1]
         IN  /\ IsNext(a, i)
             /\ \E v \in job[a].left[i][2] : inverter' = [inverter EXCEPT ![r] = v]
             /\ job' = [job EXCEPT ![a].left = Rest(@, i),
                                   ![a].read[r] = IF job[a].kind = "activate" /\ @ = None
                                                  THEN inverter[r] ELSE @]
    /\ UNCHANGED <<rows, tick, settling, asks, mishaps, owner>>

Fails(a, i) ==
    /\ IsNext(a, i) /\ mishaps < MaxMishaps
    /\ mishaps' = mishaps + 1
    /\ job' = [job EXCEPT ![a].left = Rest(@, i), ![a].failed = TRUE]

\* It raises before it writes...
CommandUnwritten(a) ==
    /\ "unwritten" \in Faults
    /\ \E i \in DOMAIN job[a].left : Fails(a, i)
    /\ UNCHANGED <<inverter, rows, tick, settling, asks, owner>>

\* ...or after, when the read-back fails, and then reports nothing.
CommandUnverified(a) ==
    /\ "unverified" \in Faults
    /\ \E i \in DOMAIN job[a].left :
         /\ Fails(a, i)
         /\ \E v \in job[a].left[i][2] :
               inverter' = [inverter EXCEPT ![job[a].left[i][1]] = v]
    /\ UNCHANGED <<rows, tick, settling, asks, owner>>

FailedState(s) == [s EXCEPT !.backoff = TRUE]

CapturedIfDone(known, j, s) ==  \* mutant
    {[r \in Registers |-> IF s.prior[r] = None /\ ~j.failed THEN j.read[r] ELSE s.prior[r]]}
CapturedAsRead(known, j, s) ==  \* mutant
    {[r \in Registers |-> IF s.prior[r] = None THEN j.read[r] ELSE s.prior[r]]}
\* _handed_over: what another event holds wins over what the command read.
Captured(known, j, s) ==
    {p \in [Registers -> Values \cup {None}] : \A r \in Registers :
        LET handed == {known[o].prior[r] : o \in Others(known, j.event)} \ {None}
        IN  p[r] \in IF s.prior[r] # None \/ j.read[r] = None THEN {s.prior[r]}
                     ELSE IF handed # {} THEN handed ELSE {j.read[r]}}

-----------------------------------------------------------------------------
(* The tick. *)

TickBegins ==
    /\ tick.at = "asleep"
    /\ tick' = [at |-> "settling", known |-> rows, window |-> {},
                todo |-> {e \in DOMAIN rows : rows[e].mark # "none"}]
    /\ UNCHANGED <<inverter, rows, job, settling, asks, mishaps, owner>>

TickAt(phase, e) == tick.at = phase /\ e \in tick.todo /\ job[Tick] = NoJob
TickDone(e) == tick' = [tick EXCEPT !.todo = @ \ {e}]

SettlesAgain(a, known, e) ==  \* mutant
    LET d == Restore(known, e, known[e])
    IN  /\ settling' = settling \cup {e}
        /\ Starts(a, "settle", e, known[e], d.plan, d.next)
\* _settle: the restore of a cancelled event, unless it runs already.
Settles(a, known, e) ==
    LET d == Restore(known, e, known[e])
    IN  /\ e \notin settling
        /\ settling' = settling \cup {e}
        /\ Starts(a, "settle", e, known[e], d.plan, d.next)

TickSettles(e) ==
    /\ TickAt("settling", e)
    /\ Settles(Tick, tick.known, e)
    /\ TickDone(e)
    /\ UNCHANGED <<inverter, rows, asks, mishaps, owner>>

TickLeavesRestore(e) ==
    /\ TickAt("settling", e)
    /\ e \in settling \/ tick.known[e].backoff
    /\ TickDone(e)
    /\ UNCHANGED <<inverter, rows, job, settling, asks, mishaps, owner>>

\* The windows that are open at the tick's time, and the events it evaluates:
\* none when the inverter has no reading.
TickEvaluates(w) ==
    /\ tick.at = "settling" /\ tick.todo = {} /\ job[Tick] = NoJob
    /\ \E enabled \in {{}, {e \in DOMAIN tick.known : Live(tick.known[e])}} :
         tick' = [tick EXCEPT !.at = "evaluating", !.window = w, !.todo = enabled]
    /\ UNCHANGED <<inverter, rows, job, settling, asks, mishaps, owner>>

\* _persist
Persists(e, s) ==
    /\ rows' = SetState(e, s)
    /\ tick' = [tick EXCEPT !.todo = @ \ {e},
                            !.known[e] = [s EXCEPT !.enabled = tick.known[e].enabled]]

EventHolds(e) ==
    /\ TickAt("evaluating", e)
    /\ \E d \in Decisions(tick.known, tick.window, e) :
         d.action = "hold" /\ Persists(e, [d.next EXCEPT !.backoff = FALSE])
    /\ UNCHANGED <<inverter, job, settling, asks, mishaps, owner>>

EventDispatches(e) ==
    /\ TickAt("evaluating", e)
    /\ \E d \in Decisions(tick.known, tick.window, e) :
         d.action # "hold" /\ Starts(Tick, d.action, e, tick.known[e], d.plan, d.next)
    /\ UNCHANGED <<inverter, rows, tick, settling, asks, mishaps, owner>>

EventWaitsRetry(e) ==
    /\ TickAt("evaluating", e)
    /\ tick.known[e].backoff
    /\ \E d \in Decisions(tick.known, tick.window, e) : d.action # "hold"
    /\ TickDone(e)
    /\ UNCHANGED <<inverter, rows, job, settling, asks, mishaps, owner>>

EventDispatched ==
    LET j == job[Tick]
        s == IF j.failed THEN FailedState(j.state) ELSE [j.next EXCEPT !.backoff = FALSE]
    IN  /\ Sent(Tick) /\ j.kind \in {"activate", "end"}
        /\ \E p \in IF j.kind = "activate" THEN Captured(tick.known, j, s) ELSE {s.prior} :
             Persists(j.event, [s EXCEPT !.prior = p])
        /\ job' = [job EXCEPT ![Tick] = NoJob]
        /\ UNCHANGED <<inverter, settling, asks, mishaps, owner>>

TickEnds ==
    /\ tick.at = "evaluating" /\ tick.todo = {} /\ job[Tick] = NoJob
    /\ tick' = Asleep
    /\ UNCHANGED <<inverter, rows, job, settling, asks, mishaps, owner>>

FailureForgetsMark(j) ==  \* mutant
    IF j.failed THEN SetState(j.event, [FailedState(j.state) EXCEPT !.mark = "none"])
    ELSE IF j.state.mark = "delete" THEN Without(j.event)
    ELSE SetState(j.event, [j.next EXCEPT !.mark = "none", !.backoff = FALSE])
\* The end of _settle, in a tick or in a request's background task.
AfterSettle(j) ==
    IF j.failed THEN SetState(j.event, FailedState(j.state))
    ELSE IF j.state.mark = "delete" THEN Without(j.event)
    ELSE SetState(j.event, [j.next EXCEPT !.mark = "none", !.backoff = FALSE])

Settled(a) ==
    /\ Sent(a) /\ job[a].kind = "settle"
    /\ rows' = AfterSettle(job[a])
    /\ settling' = settling \ {job[a].event}
    /\ job' = [job EXCEPT ![a] = NoJob]
    /\ asks' = IF a = Tick THEN asks ELSE [asks EXCEPT ![a] = [NoAsk EXCEPT !.at = "done"]]
    /\ UNCHANGED <<inverter, tick, mishaps, owner>>

-----------------------------------------------------------------------------
(* The requests of the app. *)

AskAt(q, at) == asks' = [asks EXCEPT ![q].at = at]
Answered(q) == asks' = [asks EXCEPT ![q] = [NoAsk EXCEPT !.at = "done"]]

\* POST, and a PUT that leaves the event enabled.
Put(q, e) ==
    /\ asks[q].at = "new"
    /\ rows' = Upsert(e, TRUE)
    /\ Answered(q)
    /\ UNCHANGED <<inverter, tick, job, settling, mishaps, owner>>

\* A PUT that disables the event stores it first.
PutDisabled(q, e) ==
    /\ asks[q].at = "new"
    /\ rows' = Upsert(e, FALSE)
    /\ asks' = [asks EXCEPT ![q] = [at |-> "asked", event |-> e, kind |-> "disable",
                                    state |-> Fresh]]
    /\ UNCHANGED <<inverter, tick, job, settling, mishaps, owner>>

Delete(q, e) ==
    /\ asks[q].at = "new"
    /\ asks' = [asks EXCEPT ![q] = [at |-> "asked", event |-> e, kind |-> "delete",
                                    state |-> Fresh]]
    /\ UNCHANGED <<inverter, rows, tick, job, settling, mishaps, owner>>

\* request_removal reads the event and, in a second call of the store, deletes
\* or marks it.
RemovalReads(q) ==
    /\ asks[q].at = "asked"
    /\ IF asks[q].event \in DOMAIN rows
       THEN asks' = [asks EXCEPT ![q].at = "marking", ![q].state = rows[asks[q].event]]
       ELSE Answered(q)
    /\ UNCHANGED <<inverter, rows, tick, job, settling, mishaps, owner>>

RemovalMarks(q) ==
    /\ asks[q].at = "marking" /\ Landed(asks[q].state)
    /\ rows' = SetState(asks[q].event,
                        [asks[q].state EXCEPT !.mark = asks[q].kind, !.backoff = FALSE])
    /\ asks' = [asks EXCEPT ![q].at = "pending", ![q].state = Fresh]
    /\ UNCHANGED <<inverter, tick, job, settling, mishaps, owner>>

NothingToRestore(q) ==
    /\ asks[q].at = "marking" /\ ~Landed(asks[q].state)
    /\ rows' = IF asks[q].kind = "delete" THEN Without(asks[q].event) ELSE rows
    /\ Answered(q)
    /\ UNCHANGED <<inverter, tick, job, settling, mishaps, owner>>

\* settle_removal, in the background.
RestoreStarts(q) ==
    LET e == asks[q].event
    IN  /\ asks[q].at = "pending"
        /\ e \in DOMAIN rows /\ rows[e].mark # "none"
        /\ Settles(q, rows, e)
        /\ AskAt(q, "settling")
        /\ UNCHANGED <<inverter, rows, tick, mishaps, owner>>

RestoreLeft(q) ==
    LET e == asks[q].event
    IN  /\ asks[q].at = "pending"
        /\ e \in DOMAIN rows => rows[e].mark = "none" \/ e \in settling \/ rows[e].backoff
        /\ Answered(q)
        /\ UNCHANGED <<inverter, rows, tick, job, settling, mishaps, owner>>

-----------------------------------------------------------------------------

\* The owner changes a register no event, stored or listed by the tick, holds.
OwnerSets(r, v) ==
    /\ v # owner[r] /\ inverter[r] = owner[r]
    /\ \A e \in DOMAIN rows : rows[e].prior[r] = None
    /\ \A e \in DOMAIN tick.known : tick.known[e].prior[r] = None
    /\ owner' = [owner EXCEPT ![r] = v]
    /\ inverter' = [inverter EXCEPT ![r] = v]
    /\ UNCHANGED <<rows, tick, job, settling, asks, mishaps>>

\* Home Assistant restarts: tasks and requests are gone, the rows are not.
Restart ==
    /\ mishaps < MaxMishaps
    /\ mishaps' = mishaps + 1
    /\ tick' = Asleep
    /\ job' = [a \in Actors |-> NoJob]
    /\ settling' = {}
    /\ asks' = [q \in Requests |-> IF asks[q].at = "new" THEN asks[q]
                                    ELSE [NoAsk EXCEPT !.at = "done"]]
    /\ UNCHANGED <<inverter, rows, owner>>

-----------------------------------------------------------------------------

Awake == tick.at # "asleep"

\* What may lose track of a write: a cancel or its restore under way during a
\* tick, a cancel that is being recorded during a tick, a restart within an
\* activation or before a cancel is recorded, and two cancels at once.
Overlap == Awake /\ \E q \in Requests : asks[q].at \notin {"new", "done"}
Late == Awake /\ \E q \in Requests : asks[q].at \in {"asked", "marking"}
Beside == \E p, q \in Requests : p # q /\ {asks[p].at, asks[q].at} \cap {"new", "done"} = {}
Cut ==
    /\ Restart
    /\ \/ job[Tick].kind = "activate"
       \/ \E q \in Requests : asks[q].at \in {"asked", "marking"}
Spoils ==
    spoilt' = spoilt \cup {x \in {"overlap", "late", "cut", "beside"} :
                             \/ x = "overlap" /\ Overlap'
                             \/ x = "late" /\ Late'
                             \/ x = "cut" /\ Cut
                             \/ x = "beside" /\ Beside'}

Commands(a) == CommandLands(a) \/ CommandUnwritten(a) \/ CommandUnverified(a)

TickStep ==
    \/ TickBegins
    \/ \E w \in SUBSET (Events \ Rules) : TickEvaluates(w)
    \/ EventDispatched \/ TickEnds
    \/ Commands(Tick) \/ Settled(Tick)
    \/ \E e \in Events :
         \/ TickSettles(e) \/ TickLeavesRestore(e)
         \/ EventHolds(e) \/ EventDispatches(e) \/ EventWaitsRetry(e)

\* What follows of a request once it is taken up.
Serves(q) ==
    \/ RemovalReads(q) \/ RemovalMarks(q) \/ NothingToRestore(q)
    \/ RestoreStarts(q) \/ RestoreLeft(q) \/ Commands(q) \/ Settled(q)

Step ==
    \/ TickStep
    \/ \E q \in Requests : Serves(q)
    \/ \E q \in Requests, e \in Targets : Put(q, e) \/ PutDisabled(q, e) \/ Delete(q, e)
    \/ \E r \in Registers, v \in Settings : OwnerSets(r, v)
    \/ Restart

Next == Step /\ Spoils

Spec == Init /\ [][Next]_vars

\* The loop ticks until Home Assistant stops, tasks run, and a restore that is
\* put off by its backoff is tried in a later tick.
FairSpec ==
    /\ Spec
    /\ WF_vars(TickStep /\ Spoils)
    /\ \A q \in Requests : WF_vars(Serves(q) /\ Spoils)
    /\ \A e \in Events : SF_vars(TickSettles(e) /\ Spoils)

-----------------------------------------------------------------------------

Quiet == spoilt = {} /\ \A a \in Actors : job[a] = NoJob
Holds(e, r) == e \in DOMAIN rows /\ Landed(rows[e]) /\ rows[e].prior[r] # None

\* "putting back exactly those writes" (event_scheduler_loop.py:35-37): a
\* register that is not as the owner set it holds the value of a stored event
\* whose run is still to be undone, and which knows what to put back.  So with
\* no event running the inverter is the owner's again, whatever failed.
SettingsAreOnRecord ==
    Quiet => \A r \in Registers :
        inverter[r] # owner[r] => inverter[r] \in Events /\ Holds(inverter[r], r)

\* "a retry that reads the event's own write back cannot pose as the owner's
\* setting" (event_scheduler_loop.py:26-28), nor can another event's write, nor
\* a value of an earlier run.
HeldPriorIsOwners ==
    Quiet => \A e \in DOMAIN rows, r \in Registers : rows[e].prior[r] \in {None, owner[r]}

\* "An event that ends while another one still holds the register writes that
\* event's value back, not the owner's" (event_scheduler_loop.py:31-33), when it
\* is cancelled too.
HandsBack ==
    [][\A a \in Actors, o \in Events, r \in Registers :
          /\ job[a].kind \in {"end", "settle"} /\ job'[a] = NoJob
          /\ ~job[a].failed /\ spoilt = {} /\ mishaps' = mishaps
          /\ r \in Range(Writes[job[a].event]) /\ o # job[a].event
          /\ Holds(o, r) /\ rows[o].mark = "none"
          => inverter[r] \in Events \ {job[a].event}]_vars

\* A rule stands down for a windowed event above it, and that event waits for
\* the rule's restore (_pauser, _blocked_by_rule): as long as no command fails
\* and no cancel falls into a tick they are never active together.
RuleStandsDown ==
    mishaps = 0 /\ spoilt \subseteq {"beside"} =>
        \A u \in Rules \cap DOMAIN rows, w \in DOMAIN rows \ Rules :
            Shares(u, w) /\ Rank[w] < Rank[u] /\ Live(rows[u]) /\ Live(rows[w])
              => ~(rows[u].status = "active" /\ rows[w].status = "active")

\* "the view's immediate attempt and a tick never write the same restore at once"
\* (event_scheduler_loop.py:84-85).
RestoredByOne ==
    \A a, b \in Actors :
        job[a].kind = "settle" /\ job[b].kind = "settle" /\ job[a].event = job[b].event => a = b

\* A cancelled event is undone: its restore is tried until it has landed, over
\* failures, backoff and restarts.
CancelSettles ==
    \A e \in Events :
        e \in DOMAIN rows /\ Landed(rows[e]) /\ ~Live(rows[e])
          ~> \/ e \in DOMAIN rows => ~Landed(rows[e]) \/ Live(rows[e])
             \/ spoilt \cap {"late", "cut"} # {}

=============================================================================
