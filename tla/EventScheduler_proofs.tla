------------------------- MODULE EventScheduler_proofs -------------------------
(***************************************************************************)
(* Cancelled events are restored by one task, a rule stands down for the   *)
(* event above it, and the owner's settings stay on record and are put     *)
(* back or handed on, for any number of events, registers and requests.    *)
(***************************************************************************)
EXTENDS EventScheduler, TLAPS

-----------------------------------------------------------------------------
(* Types, but for the commands of a plan. *)

IsTable(t) == DOMAIN t \subseteq Events /\ t \in [DOMAIN t -> Rows]
IsJob(j) ==
    /\ j = [event |-> j.event, kind |-> j.kind, left |-> j.left, state |-> j.state,
            next |-> j.next, read |-> j.read, failed |-> j.failed]
    /\ j.kind \in {"none", "activate", "end", "settle"}
    /\ j.state \in Rows /\ j.next \in Rows
Ticks == [at : {"asleep", "settling", "evaluating"}, todo : SUBSET Events,
          window : SUBSET Events]
Asks == [at : {"new", "asked", "marking", "pending", "settling", "done"},
         event : Events \cup {None}, state : Rows, kind : {"none", "put", "delete", "disable"}]
Cancelling == {"asked", "marking"}

Shaped ==
    /\ IsTable(rows) /\ IsTable(tick.known)
    /\ tick = [at |-> tick.at, known |-> tick.known, todo |-> tick.todo, window |-> tick.window]
    /\ tick.todo \subseteq DOMAIN tick.known
    /\ job = [a \in Actors |-> job[a]] /\ \A a \in Actors : IsJob(job[a])
    /\ asks \in [Requests -> Asks]
    /\ \A q \in Requests : asks[q].at \in Cancelling \cup {"pending"} => asks[q].kind \in {"delete", "disable"}
    /\ mishaps \in Nat

-----------------------------------------------------------------------------
(* The inductive invariant. *)

\* Whoever restores an event has it in _settling, and nobody else restores it.
OneRestorer ==
    /\ \A a \in Actors : job[a].kind = "settle" => job[a].event \in settling
    /\ RestoredByOne

\* Nothing has failed, no restart came and no request was under way in a tick.
Calm == mishaps = 0 /\ spoilt \subseteq {"beside"}

NoneOverlaps == Awake => \A q \in Requests : asks[q].at \in {"new", "done"}

\* A run is under way while its event is active, and only then.
RunFits(s) ==
    /\ s.status = "active" => ~s.released
    /\ Landed(s) => s.status = "active"
RunsFit ==
    /\ \A e \in DOMAIN rows : RunFits(rows[e])
    /\ \A e \in DOMAIN tick.known : RunFits(tick.known[e])
    /\ \A q \in Requests : RunFits(asks[q].state)

\* What a job is to store.
JobsFit ==
    /\ \A a \in Actors : ~job[a].failed
    /\ \A a \in Actors : job[a].kind = "settle" => /\ job[a].state.mark # "none"
                                                   /\ job[a].next.status = "idle"
                                                   /\ RunFits(job[a].next)
    /\ \A q \in Requests : /\ job[q].kind \in {"none", "settle"}
                           /\ job[q].kind = "settle" => asks[q].at = "settling"

\* A tick that restores works on a cancelled event; one that evaluates, on one
\* that may run.
TickJob ==
    LET j == job[Tick]
        e == job[Tick].event
    IN
    /\ j.kind # "none" => Awake /\ e \in DOMAIN tick.known
    /\ j.kind = "settle" => tick.known[e].mark # "none"
    /\ j.kind \in {"activate", "end"} =>
          /\ tick.at = "evaluating" /\ e \in tick.todo
          /\ j.next.mark = tick.known[e].mark /\ RunFits(j.next)
    /\ j.kind = "end" => j.next.status # "active"
    /\ j.kind = "activate" =>
          /\ tick.known[e].status # "active" /\ j.next.status = "active"
          /\ Pausers(tick.known, tick.window, e) = {}
          /\ e \notin Rules => Blockers(tick.known, e) = {}
TodoFits ==
    /\ tick.at = "settling" => \A e \in tick.todo : tick.known[e].mark # "none"
    /\ tick.at = "evaluating" => \A e \in tick.todo : Live(tick.known[e])

\* What the tick knows of the events that are not cancelled is so, but for what
\* was enabled meanwhile; the others are not active or cancelled.
Listed(e) == e \in DOMAIN tick.known /\ tick.known[e].mark = "none"
KnownHolds ==
    Awake =>
        /\ \A e \in Events : Listed(e) =>
              /\ e \in DOMAIN rows /\ rows[e].mark = "none"
              /\ rows[e].status = tick.known[e].status
              /\ tick.known[e].enabled => rows[e].enabled
              /\ tick.known[e].status = "active" => tick.known[e].enabled
        /\ \A e \in DOMAIN rows : \/ Listed(e)
                                  \/ rows[e].status # "active" \/ rows[e].mark # "none"

\* An active event that was disabled is about to be cancelled.
Cancels(q, e) ==
    /\ asks[q].event = e
    /\ asks[q].at = "asked" \/ (asks[q].at = "marking" /\ Landed(asks[q].state))
DisabledIsCancelled ==
    \A e \in DOMAIN rows :
        rows[e].status = "active" /\ rows[e].mark = "none" /\ ~rows[e].enabled
          => \E q \in Requests : Cancels(q, e)

\* Enabled or not, a rule and the event above it are not active together.
Runs(e) == rows[e].status = "active" /\ rows[e].mark = "none"
NeverTogether ==
    \A u \in Rules \cap DOMAIN rows, w \in DOMAIN rows \ Rules :
        Shares(u, w) /\ Rank[w] < Rank[u] => ~(Runs(u) /\ Runs(w))

CalmInv ==
    /\ NoneOverlaps /\ RunsFit /\ JobsFit /\ TickJob /\ TodoFits
    /\ KnownHolds /\ DisabledIsCancelled /\ NeverTogether
SchedulerInv == Shaped /\ OneRestorer /\ (Calm => CalmInv)
-----------------------------------------------------------------------------
(* Rows. *)

LEMMA RowFields ==
    ASSUME NEW s \in Rows
    PROVE  /\ s.enabled \in BOOLEAN /\ s.status \in {"idle", "pending", "active"}
           /\ s.released \in BOOLEAN /\ s.mark \in {"none", "delete", "disable"}
           /\ s.backoff \in BOOLEAN /\ s.prior \in [Registers -> Values \cup {None}]
BY DEF Rows

LEMMA FreshIsRow == Fresh \in Rows /\ RunFits(Fresh) /\ Fresh.status = "idle" /\ Fresh.mark = "none"
BY DEF Fresh, Rows, NoPriors, RunFits, Landed

\* What an update of one field leaves alone.
LEMMA StatusSet ==
    ASSUME NEW s \in Rows, NEW x \in {"idle", "pending", "active"}, NEW t,
           t = [s EXCEPT !.status = x]
    PROVE  /\ t \in Rows /\ t.status = x /\ t.released = s.released
           /\ t.prior = s.prior /\ t.mark = s.mark /\ t.enabled = s.enabled
BY DEF Rows

LEMMA EnabledSet ==
    ASSUME NEW s \in Rows, NEW x \in BOOLEAN, NEW t, t = [s EXCEPT !.enabled = x]
    PROVE  /\ t \in Rows /\ t.enabled = x /\ t.status = s.status
           /\ t.released = s.released /\ t.prior = s.prior /\ t.mark = s.mark
BY DEF Rows

LEMMA BackoffSet ==
    ASSUME NEW s \in Rows, NEW x \in BOOLEAN, NEW t, t = [s EXCEPT !.backoff = x]
    PROVE  /\ t \in Rows /\ t.enabled = s.enabled /\ t.status = s.status
           /\ t.released = s.released /\ t.prior = s.prior /\ t.mark = s.mark
BY DEF Rows

LEMMA ReleasedSet ==
    ASSUME NEW s \in Rows, NEW x \in BOOLEAN, NEW t, t = [s EXCEPT !.released = x]
    PROVE  /\ t \in Rows /\ t.enabled = s.enabled /\ t.status = s.status
           /\ t.released = x /\ t.prior = s.prior /\ t.mark = s.mark
BY DEF Rows

LEMMA MarkSet ==
    ASSUME NEW s \in Rows, NEW x \in {"none", "delete", "disable"}, NEW t,
           t = [s EXCEPT !.mark = x]
    PROVE  /\ t \in Rows /\ t.enabled = s.enabled /\ t.status = s.status
           /\ t.released = s.released /\ t.prior = s.prior /\ t.mark = x
BY DEF Rows

LEMMA PriorSet ==
    ASSUME NEW s \in Rows, NEW x \in [Registers -> Values \cup {None}], NEW t,
           t = [s EXCEPT !.prior = x]
    PROVE  /\ t \in Rows /\ t.enabled = s.enabled /\ t.status = s.status
           /\ t.released = s.released /\ t.prior = x /\ t.mark = s.mark
BY DEF Rows

LEMMA NoPriorsTyped == NoPriors \in [Registers -> Values \cup {None}]
BY DEF NoPriors

\* A run that is dropped is none.
LEMMA DropFits ==
    ASSUME NEW s \in Rows
    PROVE  /\ DropRun(s) \in Rows /\ DropRun(s).status = s.status
           /\ DropRun(s).mark = s.mark /\ DropRun(s).prior = NoPriors
<1> DEFINE u == [s EXCEPT !.prior = NoPriors]
<1>1. u \in Rows /\ u.status = s.status /\ u.mark = s.mark /\ u.prior = NoPriors
  BY NoPriorsTyped, PriorSet
<1> DEFINE t == [u EXCEPT !.released = FALSE]
<1>2. DropRun(s) = t
  BY DEF DropRun
<1> HIDE DEF u
<1>3. /\ t \in Rows /\ t.status = u.status /\ t.mark = u.mark /\ t.prior = u.prior
  BY <1>1, ReleasedSet
<1> HIDE DEF t
<1> QED BY <1>1, <1>2, <1>3

\* A row without a captured value has no run.
LEMMA NoRunFits ==
    ASSUME NEW s \in Rows, s.status # "active", s.prior = NoPriors \/ s.released
    PROVE  RunFits(s)
BY DEF RunFits, Landed, NoPriors

LEMMA FitsOfFields ==
    ASSUME NEW s \in Rows, NEW t \in Rows, RunFits(s), t.released = s.released,
           t.prior = s.prior,
           t.status = s.status \/ (s.status # "active" /\ t.status # "active")
    PROVE  RunFits(t)
BY DEF RunFits, Landed

-----------------------------------------------------------------------------
(* The decisions. *)

\* What a decision about an event, from the rows a tick knows, comes to.
Decides(known, window, e, d) ==
    LET s == known[e] IN
    /\ d.next \in Rows /\ d.next.mark = s.mark /\ d.action \in {"hold", "end", "activate"}
    /\ RunFits(s) => RunFits(d.next)
    /\ d.action = "hold" /\ d.next.status = "active" => s.status = "active"
    /\ d.action = "end" => d.next.status # "active"
    /\ d.action = "activate" =>
          /\ s.status # "active" /\ d.next.status = "active"
          /\ Pausers(known, window, e) = {}
          /\ e \notin Rules => Blockers(known, e) = {}

LEMMA HoldDecides ==
    ASSUME NEW known, NEW window, NEW e, NEW t \in Rows, known[e] \in Rows,
           t.mark = known[e].mark,
           RunFits(known[e]) => RunFits(t), t.status = "active" => known[e].status = "active"
    PROVE  Decides(known, window, e, Hold(t))
BY DEF Decides, Hold

LEMMA EndDecides ==
    ASSUME NEW known, NEW window, NEW e, NEW plan, NEW t \in Rows, known[e] \in Rows,
           t.mark = known[e].mark, t.status # "active", t.prior = NoPriors \/ t.released
    PROVE  Decides(known, window, e, Ends(plan, t))
<1>1. RunFits(t)
  BY NoRunFits
<1> QED BY <1>1 DEF Decides, Ends

\* A row that is held at another status, or as it is.
LEMMA HeldDecides ==
    ASSUME NEW known, NEW window, NEW e, known[e] \in Rows,
           NEW x \in {"idle", "pending", known[e].status},
           x = known[e].status \/ ~Landed(known[e])
    PROVE  Decides(known, window, e, Hold([known[e] EXCEPT !.status = x]))
<1> DEFINE s == known[e]
           t == [s EXCEPT !.status = x]
<1>1. x \in {"idle", "pending", "active"}
  BY RowFields
<1>2. t \in Rows /\ t.status = x /\ t.released = s.released /\ t.prior = s.prior /\ t.mark = s.mark
  BY <1>1, StatusSet
<1>3. /\ RunFits(s) => RunFits(t)
      /\ t.status = "active" => s.status = "active"
  BY <1>2 DEF RunFits, Landed
<1> HIDE DEF t
<1>4. Decides(known, window, e, Hold(t))
  BY <1>2, <1>3, HoldDecides
<1> QED BY <1>4 DEF t

\* A run that ends drops what it captured.
LEMMA DroppedDecides ==
    ASSUME NEW known, NEW window, NEW e, NEW plan, known[e] \in Rows
    PROVE  Decides(known, window, e, Ends(plan, [DropRun(known[e]) EXCEPT !.status = "idle"]))
<1> DEFINE u == DropRun(known[e])
           t == [u EXCEPT !.status = "idle"]
<1>1. u \in Rows /\ u.mark = known[e].mark /\ u.prior = NoPriors
  BY DropFits
<1> HIDE DEF u
<1>2. t \in Rows /\ t.status = "idle" /\ t.mark = known[e].mark /\ t.prior = NoPriors
  BY <1>1, StatusSet
<1> HIDE DEF t
<1>3. Decides(known, window, e, Ends(plan, t))
  BY <1>2, EndDecides
<1> QED BY <1>3 DEF t, u

LEMMA RestoreDecides ==
    ASSUME NEW known, NEW window, NEW e, known[e] \in Rows
    PROVE  Decides(known, window, e, Restore(known, e, known[e]))
BY DroppedDecides DEF Restore

LEMMA PausedDecides ==
    ASSUME NEW known, NEW window, NEW e, known[e] \in Rows
    PROVE  Decides(known, window, e, Paused(known, e, known[e]))
BY DroppedDecides, HeldDecides DEF Paused

LEMMA BlockedDecides ==
    ASSUME NEW known, NEW window, NEW e, known[e] \in Rows, Blockers(known, e) # {}
    PROVE  Decides(known, window, e, Blocked(known, e, known[e]))
<1> DEFINE x == IF StandsDown(known, e) THEN "idle" ELSE known[e].status
<1>1. ~Landed(known[e]) /\ x \in {"idle", "pending", known[e].status}
  BY DEF Blockers
<1>2. Blocked(known, e, known[e]) = Hold([known[e] EXCEPT !.status = x])
  BY DEF Blocked
<1> HIDE DEF x
<1> QED BY <1>1, <1>2, HeldDecides

LEMMA OutDecides ==
    ASSUME NEW known, NEW window, NEW e, known[e] \in Rows
    PROVE  Decides(known, window, e, OutOfWindow(known, e, known[e]))
<1>1. CASE Landed(known[e])
  BY <1>1, RestoreDecides DEF OutOfWindow
<1>2. CASE ~Landed(known[e])
  <2> DEFINE u == DropRun(known[e])
             x == IF u.status = "pending" THEN "idle" ELSE u.status
             t == [u EXCEPT !.status = x]
  <2>1. u \in Rows /\ u.mark = known[e].mark /\ u.prior = NoPriors /\ u.status = known[e].status
    BY DropFits
  <2>2. OutOfWindow(known, e, known[e]) = Hold(t)
    BY <1>2 DEF OutOfWindow
  <2> HIDE DEF u
  <2>3. x \in {"idle", "pending", "active"} /\ (x = "active" => known[e].status = "active")
    BY <2>1, RowFields
  <2> HIDE DEF x
  <2>4. t \in Rows /\ t.status = x /\ t.mark = known[e].mark /\ t.prior = NoPriors
    BY <2>1, <2>3, StatusSet
  <2> HIDE DEF t
  <2>5. RunFits(known[e]) => known[e].status # "active"
    BY <1>2 DEF RunFits, Landed
  <2>6. /\ RunFits(known[e]) => RunFits(t)
        /\ t.status = "active" => known[e].status = "active"
    BY <2>3, <2>4, <2>5, NoRunFits
  <2> QED BY <2>2, <2>4, <2>6, HoldDecides
<1> QED BY <1>1, <1>2

\* An event is activated that was not active, with nothing in its way.
LEMMA ActivateDecides ==
    ASSUME NEW known, NEW window, NEW e, known[e] \in Rows, known[e].status # "active",
           Pausers(known, window, e) = {}, e \notin Rules => Blockers(known, e) = {}
    PROVE  Decides(known, window, e, Activates(e, known[e]))
<1> DEFINE s == known[e]
           u == [s EXCEPT !.status = "active"]
           t == [u EXCEPT !.released = FALSE]
<1>1. u \in Rows /\ u.status = "active" /\ u.mark = s.mark
  BY StatusSet
<1>2. Activates(e, s).next = t /\ Activates(e, s).action = "activate"
  BY DEF Activates
<1> HIDE DEF u
<1>3. t \in Rows /\ t.status = "active" /\ t.mark = s.mark /\ t.released = FALSE
  BY <1>1 DEF Rows
<1>4. RunFits(t)
  BY <1>3 DEF RunFits
<1> HIDE DEF t
<1> QED BY <1>2, <1>3, <1>4 DEF Decides

LEMMA ModeDecides ==
    ASSUME NEW known, NEW window, NEW e, known[e] \in Rows,
           Pausers(known, window, e) = {}, e \notin Rules => Blockers(known, e) = {},
           NEW d \in Mode(known, e, known[e])
    PROVE  Decides(known, window, e, d)
<1> DEFINE s == known[e]
<1>1. CASE d = Hold(s)
  BY <1>1, HoldDecides
<1>2. CASE s.status # "active" /\ d = Activates(e, s)
  BY <1>2, ActivateDecides
<1>3. CASE s.status = "active" /\ e \in Sales
           /\ d = Ends(RestorePlan(known, e, s, FALSE),
                       [s EXCEPT !.status = "pending", !.released = TRUE])
  <2> DEFINE plan == RestorePlan(known, e, s, FALSE)
             u == [s EXCEPT !.status = "pending"]
             t == [u EXCEPT !.released = TRUE]
  <2>1. u \in Rows /\ u.status = "pending" /\ u.mark = s.mark
    BY StatusSet
  <2>2. d = Ends(plan, t)
    BY <1>3
  <2> HIDE DEF u, plan
  <2>3. t \in Rows /\ t.status = "pending" /\ t.mark = s.mark /\ t.released = TRUE
    BY <2>1 DEF Rows
  <2> HIDE DEF t
  <2> QED BY <2>2, <2>3, EndDecides
<1>4. CASE s.status = "active"
           /\ d = Ends(RestorePlan(known, e, s, FALSE),
                       [s EXCEPT !.status = "idle", !.prior = NoPriors])
  <2> DEFINE plan == RestorePlan(known, e, s, FALSE)
             u == [s EXCEPT !.status = "idle"]
             t == [u EXCEPT !.prior = NoPriors]
  <2>1. u \in Rows /\ u.status = "idle" /\ u.mark = s.mark
    BY StatusSet
  <2>2. d = Ends(plan, t)
    BY <1>4
  <2> HIDE DEF u, plan
  <2>3. t \in Rows /\ t.status = "idle" /\ t.mark = s.mark /\ t.prior = NoPriors
    BY <2>1, NoPriorsTyped, PriorSet
  <2> HIDE DEF t
  <2> QED BY <2>2, <2>3, EndDecides
\* A condition not met, on an event whose failed start is still to be undone.
<1>5. ASSUME NEW x \in {"idle", "pending", s.status}, s.status # "active",
             d = Hold([s EXCEPT !.status = x])
      PROVE  Decides(known, window, e, d)
  <2> DEFINE t == [s EXCEPT !.status = x]
  <2>1. t \in Rows /\ t.status = x /\ t.mark = s.mark /\ t.released = s.released
        /\ t.prior = s.prior
    BY RowFields, StatusSet
  <2>2. /\ RunFits(s) => RunFits(t)
        /\ t.status = "active" => s.status = "active"
    BY <1>5, <2>1 DEF RunFits, Landed
  <2> HIDE DEF t
  <2>3. Decides(known, window, e, Hold(t))
    BY <2>1, <2>2, HoldDecides
  <2> QED BY <1>5, <2>3 DEF t
<1> QED BY <1>1, <1>2, <1>3, <1>4, <1>5 DEF Mode, SaleMode, ConditionMode

\* A failed start that is undone in place of holding.
LEMMA UndoDecides ==
    ASSUME NEW known, NEW window, NEW e, known[e] \in Rows, NEW d,
           Decides(known, window, e, d)
    PROVE  Decides(known, window, e, UndoPartial(known, e, known[e], d))
<1> DEFINE s == known[e]
<1>1. CASE d.action = "hold" /\ s.status # "active" /\ Landed(s)
  <2> DEFINE plan == RestorePlan(known, e, s, TRUE)
             u == d.next
             t == [u EXCEPT !.prior = NoPriors]
  <2>1. UndoPartial(known, e, s, d) = Ends(plan, t)
    BY <1>1 DEF UndoPartial
  <2>2. u \in Rows /\ u.mark = s.mark /\ u.status # "active"
    BY <1>1 DEF Decides
  <2> HIDE DEF u, plan
  <2>3. t \in Rows /\ t.status = u.status /\ t.mark = u.mark /\ t.prior = NoPriors
    BY <2>2, NoPriorsTyped, PriorSet
  <2> HIDE DEF t
  <2> QED BY <2>1, <2>2, <2>3, EndDecides
<1>2. CASE ~(d.action = "hold" /\ s.status # "active" /\ Landed(s))
  BY <1>2 DEF UndoPartial
<1> QED BY <1>1, <1>2

LEMMA DecisionsDecide ==
    ASSUME NEW known, NEW window, NEW e, known[e] \in Rows, NEW d \in Decisions(known, window, e)
    PROVE  Decides(known, window, e, d)
<1> DEFINE s == known[e]
<1>1. CASE Pausers(known, window, e) # {}
  <2>1. d = Paused(known, e, s)
    BY <1>1 DEF Decisions
  <2> QED BY <2>1, PausedDecides
<1>2. CASE Pausers(known, window, e) = {} /\ (e \in Rules \/ (e \in window /\ Blockers(known, e) = {}))
  <2>1. PICK m \in Mode(known, e, s) : d = UndoPartial(known, e, s, m)
    BY <1>2 DEF Decisions
  <2>2. Decides(known, window, e, m)
    BY <1>2, ModeDecides
  <2> QED BY <2>1, <2>2, UndoDecides
<1>3. CASE Pausers(known, window, e) = {} /\ e \notin Rules /\ e \in window /\ Blockers(known, e) # {}
  <2>1. d = Blocked(known, e, s)
    BY <1>3 DEF Decisions
  <2> QED BY <1>3, <2>1, BlockedDecides
<1>4. CASE Pausers(known, window, e) = {} /\ e \notin Rules /\ e \notin window
  <2>1. d = OutOfWindow(known, e, s)
    BY <1>4 DEF Decisions
  <2> QED BY <2>1, OutDecides
<1> QED BY <1>1, <1>2, <1>3, <1>4

-----------------------------------------------------------------------------
(* The store. *)

\* A row that differs from another in what is enabled or backed off, at most.
Like(t, s) ==
    /\ t \in Rows /\ t.status = s.status /\ t.released = s.released
    /\ t.prior = s.prior /\ t.mark = s.mark

LEMMA LikeFits ==
    ASSUME NEW s, NEW t, Like(t, s), RunFits(s)
    PROVE  RunFits(t)
BY DEF Like, RunFits, Landed

LEMMA SetStateIs ==
    ASSUME IsTable(rows), NEW e, NEW s \in Rows
    PROVE  LET T == SetState(e, s) IN
           /\ IsTable(T) /\ DOMAIN T = DOMAIN rows
           /\ \A o \in DOMAIN rows : o # e => T[o] = rows[o]
           /\ e \in DOMAIN rows => Like(T[e], s) /\ T[e].enabled = rows[e].enabled
<1>1. CASE e \notin DOMAIN rows
  BY <1>1 DEF SetState, IsTable
<1>2. CASE e \in DOMAIN rows
  <2> DEFINE t == [s EXCEPT !.enabled = rows[e].enabled]
  <2>1. rows[e].enabled \in BOOLEAN
    BY <1>2, RowFields DEF IsTable
  <2>2. /\ t \in Rows /\ t.status = s.status /\ t.released = s.released
        /\ t.prior = s.prior /\ t.mark = s.mark /\ t.enabled = rows[e].enabled
    BY <2>1 DEF Rows
  <2>3. SetState(e, s) = [rows EXCEPT ![e] = t]
    BY <1>2 DEF SetState
  <2> HIDE DEF t
  <2>4. /\ DOMAIN SetState(e, s) = DOMAIN rows /\ SetState(e, s)[e] = t
        /\ SetState(e, s) \in [DOMAIN rows -> Rows]
        /\ \A o \in DOMAIN rows : o # e => SetState(e, s)[o] = rows[o]
    BY <1>2, <2>2, <2>3 DEF IsTable
  <2> QED BY <1>2, <2>2, <2>4 DEF Like, IsTable
<1> QED BY <1>1, <1>2

LEMMA WithoutIs ==
    ASSUME IsTable(rows), NEW e
    PROVE  LET T == Without(e) IN
           /\ IsTable(T) /\ DOMAIN T = DOMAIN rows \ {e}
           /\ \A o \in DOMAIN T : T[o] = rows[o]
<1>1. Without(e) = [o \in DOMAIN rows \ {e} |-> rows[o]]
  BY DEF Without, Restrict
<1> QED BY <1>1 DEF IsTable

LEMMA UpsertIs ==
    ASSUME IsTable(rows), NEW e \in Events, NEW on \in BOOLEAN
    PROVE  LET T == Upsert(e, on) IN
           /\ IsTable(T) /\ DOMAIN T = DOMAIN rows \cup {e}
           /\ \A o \in DOMAIN rows : o # e => T[o] = rows[o]
           /\ Like(T[e], IF e \in DOMAIN rows THEN rows[e] ELSE Fresh)
           /\ T[e].enabled = on
<1> DEFINE s == IF e \in DOMAIN rows THEN rows[e] ELSE Fresh
           t == [s EXCEPT !.enabled = on]
           T == [o \in DOMAIN rows \cup {e} |-> IF o # e THEN rows[o] ELSE t]
<1>1. s \in Rows
  BY FreshIsRow DEF IsTable
<1>2. Upsert(e, on) = T
  <2>1. ASSUME NEW o \in DOMAIN rows \cup {e}
        PROVE  (IF o # e THEN rows[o]
                ELSE IF e \in DOMAIN rows THEN [rows[e] EXCEPT !.enabled = on]
                ELSE [Fresh EXCEPT !.enabled = on]) = IF o # e THEN rows[o] ELSE t
    OBVIOUS
  <2> QED BY <2>1 DEF Upsert
<1>3. IsTable(T) /\ T[e] = t /\ Like(t, s) /\ t.enabled = on
  <2> HIDE DEF s
  <2>1. /\ t \in Rows /\ t.status = s.status /\ t.released = s.released
        /\ t.prior = s.prior /\ t.mark = s.mark /\ t.enabled = on
    BY <1>1 DEF Rows
  <2> HIDE DEF t
  <2> QED BY <2>1 DEF IsTable, Like
<1> HIDE DEF t
<1> QED BY <1>2, <1>3

-----------------------------------------------------------------------------
(* The jobs and the tick. *)

LEMMA JobSet ==
    ASSUME Shaped, NEW a \in Actors, NEW j, IsJob(j), job' = [job EXCEPT ![a] = j]
    PROVE  /\ job' = [b \in Actors |-> job'[b]] /\ \A b \in Actors : IsJob(job'[b])
           /\ job'[a] = j /\ \A b \in Actors \ {a} : job'[b] = job[b]
BY DEF Shaped

LEMMA NoJobIsJob == IsJob(NoJob) /\ NoJob.kind = "none" /\ NoJob.failed = FALSE
BY FreshIsRow DEF IsJob, NoJob

LEMMA StartsSets ==
    ASSUME Shaped, NEW a \in Actors, NEW kind \in {"activate", "end", "settle"}, NEW e,
           NEW d, NEW s \in Rows, d.next \in Rows, Starts(a, kind, e, s, d.plan, d.next)
    PROVE  /\ job' = [b \in Actors |-> job'[b]] /\ \A b \in Actors : IsJob(job'[b])
           /\ \A b \in Actors \ {a} : job'[b] = job[b]
           /\ job'[a].event = e /\ job'[a].kind = kind /\ job'[a].state = s
           /\ job'[a].next = d.next /\ job'[a].failed = FALSE
<1> DEFINE j == [event |-> e, kind |-> kind, left |-> d.plan, state |-> s, next |-> d.next,
                 read |-> NoPriors, failed |-> FALSE]
<1>1. job' = [job EXCEPT ![a] = j]
  BY DEF Starts
<1>2. /\ j.event = e /\ j.kind = kind /\ j.state = s /\ j.next = d.next /\ j.failed = FALSE
      /\ IsJob(j)
  BY DEF IsJob
<1> HIDE DEF j
<1> QED BY <1>1, <1>2, JobSet

\* A command that is sent changes what is left of the job, and what it read.
SameJob(j, k) ==
    k.event = j.event /\ k.kind = j.kind /\ k.state = j.state /\ k.next = j.next

LEMMA TodoSet ==
    ASSUME Shaped, NEW T, tick' = [tick EXCEPT !.todo = T]
    PROVE  /\ tick' = [at |-> tick.at, known |-> tick.known, todo |-> T, window |-> tick.window]
           /\ tick'.at = tick.at /\ tick'.known = tick.known /\ tick'.todo = T
           /\ tick'.window = tick.window
BY DEF Shaped

\* _persist, of the store and of what the tick knows.
LEMMA PersistsIs ==
    ASSUME Shaped, NEW e \in tick.todo, NEW s \in Rows, Persists(e, s)
    PROVE  /\ IsTable(rows') /\ DOMAIN rows' = DOMAIN rows
           /\ \A o \in DOMAIN rows : o # e => rows'[o] = rows[o]
           /\ e \in DOMAIN rows => Like(rows'[e], s) /\ rows'[e].enabled = rows[e].enabled
           /\ IsTable(tick'.known) /\ DOMAIN tick'.known = DOMAIN tick.known
           /\ \A o \in DOMAIN tick.known : o # e => tick'.known[o] = tick.known[o]
           /\ Like(tick'.known[e], s) /\ tick'.known[e].enabled = tick.known[e].enabled
           /\ tick'.at = tick.at /\ tick'.window = tick.window /\ tick'.todo = tick.todo \ {e}
           /\ tick' = [at |-> tick'.at, known |-> tick'.known, todo |-> tick'.todo,
                       window |-> tick'.window]
<1> DEFINE t == [s EXCEPT !.enabled = tick.known[e].enabled]
           known == [tick.known EXCEPT ![e] = t]
<1>1. e \in DOMAIN tick.known /\ tick.known[e].enabled \in BOOLEAN
  BY RowFields DEF Shaped, IsTable
<1>2. Like(t, s) /\ t.enabled = tick.known[e].enabled
  <2>1. /\ t \in Rows /\ t.status = s.status /\ t.released = s.released
        /\ t.prior = s.prior /\ t.mark = s.mark /\ t.enabled = tick.known[e].enabled
    BY <1>1 DEF Rows
  <2> HIDE DEF t
  <2> QED BY <2>1 DEF Like
<1>3. tick' = [tick EXCEPT !.todo = tick.todo \ {e}, !.known[e] = t]
  BY DEF Persists
<1> HIDE DEF t
<1>4. tick' = [at |-> tick.at, known |-> known, todo |-> tick.todo \ {e}, window |-> tick.window]
  BY <1>3 DEF Shaped
<1>5. /\ IsTable(known) /\ DOMAIN known = DOMAIN tick.known /\ known[e] = t
      /\ \A o \in DOMAIN tick.known : o # e => known[o] = tick.known[o]
  BY <1>1, <1>2 DEF Shaped, IsTable, Like
<1> HIDE DEF known
<1>6. rows' = SetState(e, s) /\ IsTable(rows)
  BY DEF Persists, Shaped
<1>7. /\ IsTable(rows') /\ DOMAIN rows' = DOMAIN rows
      /\ \A o \in DOMAIN rows : o # e => rows'[o] = rows[o]
      /\ e \in DOMAIN rows => Like(rows'[e], s) /\ rows'[e].enabled = rows[e].enabled
  BY <1>6, SetStateIs
<1> QED BY <1>2, <1>4, <1>5, <1>7

\* A command is off the list; it may have read its register, and may have failed.
Advance(j, left, read, failed) ==
    [event |-> j.event, kind |-> j.kind, left |-> left, state |-> j.state, next |-> j.next,
     read |-> read, failed |-> failed]

LEMMA LeftSet ==
    ASSUME NEW j, IsJob(j), NEW x
    PROVE  [j EXCEPT !.left = x] = Advance(j, x, j.read, j.failed)
<1>1. ASSUME NEW k, k = Advance(j, j.left, j.read, j.failed)
      PROVE  [k EXCEPT !.left = x] = Advance(j, x, j.read, j.failed)
  BY <1>1 DEF Advance
<1> QED BY <1>1 DEF IsJob, Advance

LEMMA ReadSet ==
    ASSUME NEW j, NEW x, NEW y, NEW k, k = Advance(j, x, j.read, j.failed)
    PROVE  [k EXCEPT !.read = y] = Advance(j, x, y, j.failed)
BY DEF Advance

LEMMA FailedSet ==
    ASSUME NEW j, NEW x, NEW y, NEW k, k = Advance(j, x, j.read, j.failed)
    PROVE  [k EXCEPT !.failed = y] = Advance(j, x, j.read, y)
BY DEF Advance

LEMMA AdvanceIs ==
    ASSUME NEW j, IsJob(j), NEW x, NEW y, NEW z
    PROVE  /\ IsJob(Advance(j, x, y, z)) /\ SameJob(j, Advance(j, x, y, z))
           /\ Advance(j, x, y, z).failed = z
BY DEF Advance, IsJob, SameJob

LEMMA LandedSets ==
    ASSUME Shaped, NEW a \in Actors, CommandLands(a)
    PROVE  \E i \in DOMAIN job[a].left :
             LET r == job[a].left[i][1]
                 y == IF job[a].kind = "activate" /\ job[a].read[r] = None
                      THEN inverter[r] ELSE job[a].read[r]
             IN  /\ \E v \in job[a].left[i][2] : inverter' = [inverter EXCEPT ![r] = v]
                 /\ job' = [job EXCEPT ![a] = Advance(job[a], Rest(job[a].left, i),
                                                      [job[a].read EXCEPT ![r] = y], job[a].failed)]
<1>0. PICK i \in DOMAIN job[a].left :
         LET r == job[a].left[i][1] IN
         /\ \E v \in job[a].left[i][2] : inverter' = [inverter EXCEPT ![r] = v]
         /\ job' = [job EXCEPT ![a].left = Rest(@, i),
                               ![a].read[r] = IF job[a].kind = "activate" /\ @ = None
                                              THEN inverter[r] ELSE @]
  BY Zenon DEF CommandLands
<1> DEFINE r == job[a].left[i][1]
           y == IF job[a].kind = "activate" /\ job[a].read[r] = None
                THEN inverter[r] ELSE job[a].read[r]
           x == Rest(job[a].left, i)
           g == [job EXCEPT ![a].left = x]
           h == Advance(job[a], x, job[a].read, job[a].failed)
           z == [job[a].read EXCEPT ![r] = y]
<1>1. job' = [job EXCEPT ![a].left = x, ![a].read[r] = y]
  BY <1>0, Zenon
<1> HIDE DEF r, y, x
<1>2. job' = [g EXCEPT ![a].read[r] = y]
  BY <1>1
<1>3. g = [job EXCEPT ![a] = [job[a] EXCEPT !.left = x]]
  OBVIOUS
<1>4. [job[a] EXCEPT !.left = x] = h
  BY LeftSet DEF Shaped
<1>5. g[a] = h /\ g = [job EXCEPT ![a] = h]
  <2> HIDE DEF h
  <2> QED BY <1>3, <1>4 DEF Shaped
<1>6. job' = [g EXCEPT ![a] = [g[a] EXCEPT !.read = z]]
  <2>1. h.read = job[a].read
    BY DEF Advance
  <2>2. g[a].read = job[a].read
    <3> HIDE DEF g, h
    <3> QED BY <1>5, <2>1
  <2>3. job' = [g EXCEPT ![a] = [g[a] EXCEPT !.read = [g[a].read EXCEPT ![r] = y]]]
    BY <1>2
  <2> QED BY <2>2, <2>3
<1>7. [g[a] EXCEPT !.read = z] = Advance(job[a], x, z, job[a].failed)
  <2> HIDE DEF z, g
  <2> QED BY <1>5, ReadSet
<1> HIDE DEF h
<1>8. job' = [job EXCEPT ![a] = Advance(job[a], x, z, job[a].failed)]
  <2> HIDE DEF g, z
  <2> QED BY <1>5, <1>6, <1>7 DEF Shaped
<1> QED BY <1>0, <1>8 DEF x, y, r

LEMMA FailedSets ==
    ASSUME Shaped, NEW a \in Actors, NEW i, Fails(a, i)
    PROVE  job' = [job EXCEPT ![a] = Advance(job[a], Rest(job[a].left, i), job[a].read, TRUE)]
<1> DEFINE x == Rest(job[a].left, i)
           g == [job EXCEPT ![a].left = x]
           h == Advance(job[a], x, job[a].read, job[a].failed)
<1>1. job' = [job EXCEPT ![a].left = x, ![a].failed = TRUE]
  BY Zenon DEF Fails
<1> HIDE DEF x
<1>2. job' = [g EXCEPT ![a] = [g[a] EXCEPT !.failed = TRUE]]
  BY <1>1
<1>3. g = [job EXCEPT ![a] = [job[a] EXCEPT !.left = x]]
  OBVIOUS
<1>4. [job[a] EXCEPT !.left = x] = h
  BY LeftSet DEF Shaped
<1>5. g[a] = h /\ g = [job EXCEPT ![a] = h]
  <2> HIDE DEF h
  <2> QED BY <1>3, <1>4 DEF Shaped
<1>6. [g[a] EXCEPT !.failed = TRUE] = Advance(job[a], x, job[a].read, TRUE)
  <2> DEFINE y == TRUE
  <2> HIDE DEF g, y
  <2>1. [g[a] EXCEPT !.failed = y] = Advance(job[a], x, job[a].read, y)
    <3>1. ASSUME NEW k, k = Advance(job[a], x, job[a].read, job[a].failed)
          PROVE  [k EXCEPT !.failed = y] = Advance(job[a], x, job[a].read, y)
      BY <3>1, FailedSet
    <3> QED BY <1>5, <3>1
  <2> QED BY <2>1 DEF y
<1> HIDE DEF h
<1>7. job' = [job EXCEPT ![a] = Advance(job[a], x, job[a].read, TRUE)]
  <2> HIDE DEF g
  <2> QED BY <1>2, <1>5, <1>6 DEF Shaped
<1> QED BY <1>7 DEF x

LEMMA CommandsKeep ==
    ASSUME Shaped, NEW a \in Actors, Commands(a)
    PROVE  /\ job' = [b \in Actors |-> job'[b]]
           /\ \A b \in Actors : IsJob(job'[b]) /\ SameJob(job[b], job'[b])
           /\ UNCHANGED <<rows, tick, settling, asks>>
           /\ \/ mishaps' = mishaps + 1
              \/ mishaps' = mishaps /\ \A b \in Actors : job'[b].failed = job[b].failed
<1>1. CASE CommandLands(a)
  <2>1. \E x, z : job' = [job EXCEPT ![a] = Advance(job[a], x, z, job[a].failed)]
    BY <1>1, LandedSets
  <2>2. PICK x, z : job' = [job EXCEPT ![a] = Advance(job[a], x, z, job[a].failed)]
    BY <2>1
  <2> DEFINE k == Advance(job[a], x, z, job[a].failed)
  <2>3. IsJob(k) /\ SameJob(job[a], k) /\ k.failed = job[a].failed
    BY AdvanceIs DEF Shaped
  <2> HIDE DEF k
  <2>4. /\ job' = [b \in Actors |-> job'[b]] /\ \A b \in Actors : IsJob(job'[b])
        /\ job'[a] = k /\ \A b \in Actors \ {a} : job'[b] = job[b]
    BY <2>2, <2>3, JobSet DEF k
  <2> QED BY <1>1, <2>3, <2>4 DEF CommandLands, SameJob
<1>2. CASE CommandUnwritten(a) \/ CommandUnverified(a)
  <2>1. PICK i : Fails(a, i)
    BY <1>2 DEF CommandUnwritten, CommandUnverified
  <2>2. PICK x : job' = [job EXCEPT ![a] = Advance(job[a], x, job[a].read, TRUE)]
    BY <2>1, FailedSets
  <2> DEFINE k == Advance(job[a], x, job[a].read, TRUE)
  <2>3. IsJob(k) /\ SameJob(job[a], k)
    BY AdvanceIs DEF Shaped
  <2> HIDE DEF k
  <2>4. /\ job' = [b \in Actors |-> job'[b]] /\ \A b \in Actors : IsJob(job'[b])
        /\ job'[a] = k /\ \A b \in Actors \ {a} : job'[b] = job[b]
    BY <2>2, <2>3, JobSet DEF k
  <2>5. mishaps' = mishaps + 1 /\ UNCHANGED <<rows, tick, settling, asks>>
    BY <1>2 DEF CommandUnwritten, CommandUnverified, Fails
  <2> QED BY <2>3, <2>4, <2>5 DEF SameJob
<1> QED BY <1>1, <1>2 DEF Commands

-----------------------------------------------------------------------------
(* What the steps do. *)

\* A restore that is started stores what restore_decision says.
LEMMA SettlesIs ==
    ASSUME Shaped, NEW a \in Actors, NEW known, NEW e, known[e] \in Rows, Settles(a, known, e)
    PROVE  /\ e \notin settling /\ settling' = settling \cup {e}
           /\ job' = [b \in Actors |-> job'[b]] /\ \A b \in Actors : IsJob(job'[b])
           /\ \A b \in Actors \ {a} : job'[b] = job[b]
           /\ job'[a].event = e /\ job'[a].kind = "settle" /\ job'[a].state = known[e]
           /\ job'[a].failed = FALSE
           /\ job'[a].next.status = "idle" /\ RunFits(job'[a].next)
<1> DEFINE d == Restore(known, e, known[e])
           u == DropRun(known[e])
           t == [u EXCEPT !.status = "idle"]
<1>1. u \in Rows /\ u.prior = NoPriors
  BY DropFits
<1>2. d.next = t
  BY DEF Restore, Ends
<1> HIDE DEF u
<1>3. t \in Rows /\ t.status = "idle" /\ t.prior = NoPriors
  BY <1>1, StatusSet
<1> HIDE DEF t
<1>4. RunFits(t)
  BY <1>3, NoRunFits
<1>5. Starts(a, "settle", e, known[e], d.plan, d.next)
  BY DEF Settles
<1>6. e \notin settling /\ settling' = settling \cup {e}
  BY DEF Settles
<1> HIDE DEF d
<1>7. d.next \in Rows
  BY <1>2, <1>3
<1>8. /\ job' = [b \in Actors |-> job'[b]] /\ \A b \in Actors : IsJob(job'[b])
      /\ \A b \in Actors \ {a} : job'[b] = job[b]
      /\ job'[a].event = e /\ job'[a].kind = "settle" /\ job'[a].state = known[e]
      /\ job'[a].next = d.next /\ job'[a].failed = FALSE
  BY <1>5, <1>7, StartsSets
<1> QED BY <1>2, <1>3, <1>4, <1>6, <1>8

\* The event of a tick that evaluates, and its decision.
LEMMA TickDecides ==
    ASSUME Shaped, NEW e, TickAt("evaluating", e),
           NEW d \in Decisions(tick.known, tick.window, e)
    PROVE  e \in DOMAIN tick.known /\ tick.known[e] \in Rows /\ Decides(tick.known, tick.window, e, d)
<1>1. e \in DOMAIN tick.known /\ tick.known[e] \in Rows
  BY DEF Shaped, TickAt, IsTable
<1> QED BY <1>1, DecisionsDecide

LEMMA HoldsIs ==
    ASSUME Shaped, NEW e, EventHolds(e)
    PROVE  \E n \in Rows :
             /\ Persists(e, n) /\ n.mark = tick.known[e].mark
             /\ RunFits(tick.known[e]) => RunFits(n)
             /\ n.status = "active" => tick.known[e].status = "active"
             /\ \E d \in Decisions(tick.known, tick.window, e) :
                   d.action = "hold" /\ n.prior = d.next.prior /\ n.released = d.next.released
             /\ e \in tick.todo /\ job[Tick] = NoJob
             /\ UNCHANGED <<inverter, job, settling, asks, mishaps, owner>>
<1>1. PICK d \in Decisions(tick.known, tick.window, e) :
         d.action = "hold" /\ Persists(e, [d.next EXCEPT !.backoff = FALSE])
  BY DEF EventHolds
<1>2. Decides(tick.known, tick.window, e, d)
  BY TickDecides DEF EventHolds
<1> DEFINE n == [d.next EXCEPT !.backoff = FALSE]
<1>3. Like(n, d.next)
  <2>1. /\ n \in Rows /\ n.status = d.next.status /\ n.released = d.next.released
        /\ n.prior = d.next.prior /\ n.mark = d.next.mark
    BY <1>2 DEF Decides, Rows
  <2> HIDE DEF n
  <2> QED BY <2>1 DEF Like
<1> HIDE DEF n
<1>4. RunFits(tick.known[e]) => RunFits(n)
  BY <1>2, <1>3, LikeFits DEF Decides
<1>5. n \in Rows /\ n.mark = tick.known[e].mark
      /\ (n.status = "active" => tick.known[e].status = "active")
  BY <1>1, <1>2, <1>3 DEF Decides, Like
<1>6. Persists(e, n)
  BY <1>1 DEF n
<1>7. n.prior = d.next.prior /\ n.released = d.next.released
  BY <1>3 DEF Like
<1> QED BY <1>1, <1>4, <1>5, <1>6, <1>7 DEF EventHolds, TickAt

LEMMA DispatchesIs ==
    ASSUME Shaped, NEW e, EventDispatches(e)
    PROVE  /\ e \in DOMAIN tick.known /\ e \in tick.todo /\ tick.at = "evaluating"
           /\ UNCHANGED <<inverter, rows, tick, settling, asks, mishaps, owner>>
           /\ job' = [b \in Actors |-> job'[b]] /\ \A b \in Actors : IsJob(job'[b])
           /\ \A b \in Actors \ {Tick} : job'[b] = job[b]
           /\ job'[Tick].event = e /\ job'[Tick].failed = FALSE
           /\ job'[Tick].next.mark = tick.known[e].mark
           /\ RunFits(tick.known[e]) => RunFits(job'[Tick].next)
           /\ job'[Tick].kind \in {"end", "activate"}
           /\ job'[Tick].kind = "end" => job'[Tick].next.status # "active"
           /\ job'[Tick].kind = "activate" =>
                 /\ tick.known[e].status # "active" /\ job'[Tick].next.status = "active"
                 /\ Pausers(tick.known, tick.window, e) = {}
                 /\ e \notin Rules => Blockers(tick.known, e) = {}
<1>1. PICK d \in Decisions(tick.known, tick.window, e) :
         d.action # "hold" /\ Starts(Tick, d.action, e, tick.known[e], d.plan, d.next)
  BY DEF EventDispatches
<1>2. /\ Decides(tick.known, tick.window, e, d) /\ e \in DOMAIN tick.known
      /\ tick.known[e] \in Rows
  BY TickDecides DEF EventDispatches
<1>3. d.next \in Rows /\ d.action \in {"activate", "end"}
  BY <1>1, <1>2 DEF Decides
<1>4. Tick \in Actors
  BY DEF Actors
<1>5. /\ job' = [b \in Actors |-> job'[b]] /\ \A b \in Actors : IsJob(job'[b])
      /\ \A b \in Actors \ {Tick} : job'[b] = job[b]
      /\ job'[Tick].event = e /\ job'[Tick].kind = d.action
      /\ job'[Tick].next = d.next /\ job'[Tick].failed = FALSE
  <2> DEFINE j == [event |-> e, kind |-> d.action, left |-> d.plan, state |-> tick.known[e],
                   next |-> d.next, read |-> NoPriors, failed |-> FALSE]
  <2>1. job' = [job EXCEPT ![Tick] = j]
    BY <1>1 DEF Starts
  <2>2. /\ j.event = e /\ j.kind = d.action /\ j.next = d.next /\ j.failed = FALSE
        /\ IsJob(j)
    BY <1>2, <1>3 DEF IsJob
  <2> HIDE DEF j
  <2> QED BY <1>4, <2>1, <2>2, JobSet
<1>6. /\ UNCHANGED <<inverter, rows, tick, settling, asks, mishaps, owner>>
      /\ e \in tick.todo /\ tick.at = "evaluating"
  BY DEF EventDispatches, TickAt
<1>7. /\ d.next.mark = tick.known[e].mark
      /\ RunFits(tick.known[e]) => RunFits(d.next)
      /\ d.action = "end" => d.next.status # "active"
      /\ d.action = "activate" =>
            /\ tick.known[e].status # "active" /\ d.next.status = "active"
            /\ Pausers(tick.known, tick.window, e) = {}
            /\ e \notin Rules => Blockers(tick.known, e) = {}
  BY <1>2 DEF Decides
<1>8. /\ job'[Tick].next.mark = tick.known[e].mark
      /\ RunFits(tick.known[e]) => RunFits(job'[Tick].next)
  BY <1>5, <1>7
<1>9. /\ job'[Tick].kind \in {"end", "activate"}
      /\ job'[Tick].kind = "end" => job'[Tick].next.status # "active"
  BY <1>3, <1>5, <1>7
<1>10. job'[Tick].kind = "activate" =>
                 /\ tick.known[e].status # "active" /\ job'[Tick].next.status = "active"
                 /\ Pausers(tick.known, tick.window, e) = {}
                 /\ e \notin Rules => Blockers(tick.known, e) = {}
  BY <1>5, <1>7
<1> QED BY <1>2, <1>5, <1>6, <1>8, <1>9, <1>10

LEMMA TickSettlesIs ==
    ASSUME Shaped, NEW e, TickSettles(e)
    PROVE  /\ tick.at = "settling" /\ e \in tick.todo /\ e \in DOMAIN tick.known
           /\ tick.known[e] \in Rows /\ job[Tick] = NoJob
           /\ e \notin settling /\ settling' = settling \cup {e}
           /\ job' = [b \in Actors |-> job'[b]] /\ \A b \in Actors : IsJob(job'[b])
           /\ \A b \in Actors \ {Tick} : job'[b] = job[b]
           /\ job'[Tick].event = e /\ job'[Tick].kind = "settle"
           /\ job'[Tick].state = tick.known[e] /\ job'[Tick].failed = FALSE
           /\ job'[Tick].next.status = "idle" /\ RunFits(job'[Tick].next)
           /\ TickDone(e) /\ UNCHANGED <<inverter, rows, asks, mishaps, owner>>
<1>1. /\ tick.at = "settling" /\ e \in tick.todo /\ e \in DOMAIN tick.known
      /\ tick.known[e] \in Rows /\ job[Tick] = NoJob /\ Tick \in Actors
      /\ TickDone(e) /\ UNCHANGED <<inverter, rows, asks, mishaps, owner>>
  BY DEF TickSettles, TickAt, Shaped, IsTable, Actors
<1>2. PICK known : known = tick.known
  OBVIOUS
<1>3. Settles(Tick, known, e)
  BY <1>2 DEF TickSettles, Settles, Starts
<1>4. known[e] \in Rows
  BY <1>1, <1>2
<1>5. /\ e \notin settling /\ settling' = settling \cup {e}
      /\ job' = [b \in Actors |-> job'[b]] /\ \A b \in Actors : IsJob(job'[b])
      /\ \A b \in Actors \ {Tick} : job'[b] = job[b]
      /\ job'[Tick].event = e /\ job'[Tick].kind = "settle" /\ job'[Tick].state = known[e]
      /\ job'[Tick].failed = FALSE
      /\ job'[Tick].next.status = "idle" /\ RunFits(job'[Tick].next)
  BY <1>1, <1>3, <1>4, SettlesIs
<1> QED BY <1>1, <1>2, <1>5

LEMMA RestoreStartsIs ==
    ASSUME Shaped, NEW q \in Requests, RestoreStarts(q)
    PROVE  LET e == asks[q].event IN
           /\ asks[q].at = "pending" /\ e \in DOMAIN rows /\ rows[e].mark # "none"
           /\ e \notin settling /\ settling' = settling \cup {e}
           /\ job' = [b \in Actors |-> job'[b]] /\ \A b \in Actors : IsJob(job'[b])
           /\ \A b \in Actors \ {q} : job'[b] = job[b]
           /\ job'[q].event = e /\ job'[q].kind = "settle"
           /\ job'[q].state = rows[e] /\ job'[q].failed = FALSE
           /\ job'[q].next.status = "idle" /\ RunFits(job'[q].next)
           /\ AskAt(q, "settling") /\ UNCHANGED <<inverter, rows, tick, mishaps, owner>>
<1>1. PICK e : e = asks[q].event
  OBVIOUS
<1>2. /\ asks[q].at = "pending" /\ e \in DOMAIN rows /\ rows[e].mark # "none"
      /\ rows[e] \in Rows /\ q \in Actors
      /\ AskAt(q, "settling") /\ UNCHANGED <<inverter, rows, tick, mishaps, owner>>
  BY <1>1 DEF RestoreStarts, Shaped, IsTable, Actors
<1>3. PICK known : known = rows
  OBVIOUS
<1>4. Settles(q, known, e)
  BY <1>1, <1>3 DEF RestoreStarts, Settles, Starts
<1>5. known[e] \in Rows
  BY <1>2, <1>3
<1>6. /\ e \notin settling /\ settling' = settling \cup {e}
      /\ job' = [b \in Actors |-> job'[b]] /\ \A b \in Actors : IsJob(job'[b])
      /\ \A b \in Actors \ {q} : job'[b] = job[b]
      /\ job'[q].event = e /\ job'[q].kind = "settle" /\ job'[q].state = known[e]
      /\ job'[q].failed = FALSE
      /\ job'[q].next.status = "idle" /\ RunFits(job'[q].next)
  BY <1>2, <1>4, <1>5, SettlesIs
<1> QED BY <1>1, <1>2, <1>3, <1>6

\* What is stored of a decision whose commands are through.
LEMMA DispatchedIs ==
    ASSUME Shaped, EventDispatched
    PROVE  \E n \in Rows :
             /\ Persists(job[Tick].event, n)
             /\ ~job[Tick].failed => /\ n.status = job[Tick].next.status
                                     /\ n.mark = job[Tick].next.mark
                                     /\ \/ job[Tick].kind = "activate" /\ n.status # "active"
                                        \/ RunFits(job[Tick].next) => RunFits(n)
             /\ \E s \in Rows :
                   /\ Like(s, IF job[Tick].failed THEN job[Tick].state ELSE job[Tick].next)
                   /\ n.status = s.status /\ n.released = s.released /\ n.mark = s.mark
                   /\ n.prior \in IF job[Tick].kind = "activate"
                                  THEN Captured(tick.known, job[Tick], s) ELSE {s.prior}
             /\ job[Tick].kind \in {"activate", "end"}
             /\ job' = [job EXCEPT ![Tick] = NoJob]
             /\ UNCHANGED <<inverter, settling, asks, mishaps, owner>>
<1> DEFINE j == job[Tick]
           s == IF j.failed THEN FailedState(j.state) ELSE [j.next EXCEPT !.backoff = FALSE]
<1>1. /\ IsJob(j) /\ j.kind \in {"activate", "end"} /\ job' = [job EXCEPT ![Tick] = NoJob]
      /\ UNCHANGED <<inverter, settling, asks, mishaps, owner>>
  BY DEF EventDispatched, Shaped, Actors
<1>2. PICK p \in IF j.kind = "activate" THEN Captured(tick.known, j, s) ELSE {s.prior} :
         Persists(j.event, [s EXCEPT !.prior = p])
  BY DEF EventDispatched
<1> HIDE DEF j
<1>3. s \in Rows
  <2>1. j.state \in Rows /\ j.next \in Rows
    BY <1>1 DEF IsJob
  <2>2. FailedState(j.state) \in Rows
    BY <2>1 DEF FailedState, Rows
  <2>3. [j.next EXCEPT !.backoff = FALSE] \in Rows
    BY <2>1 DEF Rows
  <2> QED BY <2>2, <2>3
<1>4. ~j.failed => Like(s, j.next)
  <2> DEFINE t == [j.next EXCEPT !.backoff = FALSE]
  <2>1. j.next \in Rows
    BY <1>1 DEF IsJob
  <2>2. /\ t \in Rows /\ t.status = j.next.status /\ t.released = j.next.released
        /\ t.prior = j.next.prior /\ t.mark = j.next.mark
    BY <2>1 DEF Rows
  <2> HIDE DEF t
  <2>3. Like(t, j.next)
    BY <2>2 DEF Like
  <2>4. ~j.failed => s = t
    BY DEF t
  <2> QED BY <2>3, <2>4
<1>5. j.failed => Like(s, j.state)
  <2> DEFINE t == [j.state EXCEPT !.backoff = TRUE]
  <2>1. j.state \in Rows /\ TRUE \in BOOLEAN
    BY <1>1 DEF IsJob
  <2>2. /\ t \in Rows /\ t.status = j.state.status /\ t.released = j.state.released
        /\ t.prior = j.state.prior /\ t.mark = j.state.mark
    BY <2>1 DEF Rows
  <2> HIDE DEF t
  <2>3. Like(t, j.state)
    BY <2>2 DEF Like
  <2>4. j.failed => s = t
    BY DEF t, FailedState
  <2> QED BY <2>3, <2>4
<1>6. Like(s, IF j.failed THEN j.state ELSE j.next)
  BY <1>4, <1>5
<1> HIDE DEF s
<1>7. p \in [Registers -> Values \cup {None}]
  BY <1>2, <1>3, RowFields DEF Captured
<1> DEFINE n == [s EXCEPT !.prior = p]
<1>8. /\ n \in Rows /\ n.status = s.status /\ n.released = s.released
      /\ n.prior = p /\ n.mark = s.mark
  BY <1>3, <1>7, PriorSet
<1>9. Persists(j.event, n)
  BY <1>2
<1> HIDE DEF n
<1>10. ~j.failed => \/ j.kind = "activate" /\ n.status # "active"
                    \/ RunFits(j.next) => RunFits(n)
  <2>1. CASE j.kind = "activate"
    BY <1>4, <1>8, <2>1 DEF Like, RunFits, Landed
  <2>2. CASE j.kind = "end"
    <3>1. p = s.prior
      BY <1>2, <2>2
    <3>2. Like(n, s)
      BY <1>8, <3>1 DEF Like
    <3> QED BY <1>4, <3>2, LikeFits
  <2> QED BY <1>1, <2>1, <2>2
<1>11. ~j.failed => n.status = j.next.status /\ n.mark = j.next.mark
  BY <1>4, <1>8 DEF Like
<1>12. n.prior \in IF j.kind = "activate" THEN Captured(tick.known, j, s) ELSE {s.prior}
  BY <1>2, <1>8
<1> QED BY <1>1, <1>3, <1>8, <1>9, <1>10, <1>11, <1>6, <1>12 DEF j

LEMMA SettledIs ==
    ASSUME Shaped, NEW a \in Actors, Settled(a)
    PROVE  LET e == job[a].event IN
           /\ job[a].kind = "settle" /\ settling' = settling \ {e}
           /\ IsTable(rows') /\ DOMAIN rows' \subseteq DOMAIN rows
           /\ \A o \in DOMAIN rows : o # e => o \in DOMAIN rows' /\ rows'[o] = rows[o]
           /\ e \in DOMAIN rows' /\ ~job[a].failed =>
                 /\ rows'[e].status = job[a].next.status
                 /\ RunFits(job[a].next) => RunFits(rows'[e])
                 /\ rows'[e].prior = job[a].next.prior /\ rows'[e].released = job[a].next.released
                 /\ rows'[e].mark = "none"
           /\ e \in DOMAIN rows /\ job[a].failed => e \in DOMAIN rows' /\ Like(rows'[e], job[a].state)
           /\ job' = [job EXCEPT ![a] = NoJob]
           /\ asks' = IF a = Tick THEN asks ELSE [asks EXCEPT ![a] = [NoAsk EXCEPT !.at = "done"]]
           /\ UNCHANGED <<inverter, tick, mishaps, owner>>
<1> DEFINE j == job[a]
           e == j.event
<1>1. /\ IsJob(j) /\ IsTable(rows) /\ j.kind = "settle" /\ settling' = settling \ {e}
      /\ rows' = AfterSettle(j) /\ job' = [job EXCEPT ![a] = NoJob]
      /\ asks' = IF a = Tick THEN asks ELSE [asks EXCEPT ![a] = [NoAsk EXCEPT !.at = "done"]]
      /\ UNCHANGED <<inverter, tick, mishaps, owner>>
  BY DEF Settled, Shaped
<1> HIDE DEF j
<1>2. j.state \in Rows /\ j.next \in Rows
  BY <1>1 DEF IsJob
<1>3. CASE j.failed
  <2> DEFINE s == FailedState(j.state)
  <2>1. rows' = SetState(e, s) /\ s = [j.state EXCEPT !.backoff = TRUE] /\ TRUE \in BOOLEAN
    BY <1>1, <1>3 DEF AfterSettle, FailedState
  <2> HIDE DEF s
  <2>2. /\ s \in Rows /\ s.status = j.state.status /\ s.released = j.state.released
        /\ s.prior = j.state.prior /\ s.mark = j.state.mark
    BY <1>2, <2>1, BackoffSet
  <2>3. /\ IsTable(rows') /\ DOMAIN rows' = DOMAIN rows
        /\ \A o \in DOMAIN rows : o # e => rows'[o] = rows[o]
        /\ e \in DOMAIN rows => Like(rows'[e], s)
    <3>1. s \in Rows /\ rows' = SetState(e, s) /\ IsTable(rows)
      BY <1>1, <2>1, <2>2
    <3> QED BY <3>1, SetStateIs
  <2>4. e \in DOMAIN rows => Like(rows'[e], j.state)
    BY <2>2, <2>3 DEF Like
  <2> QED BY <1>1, <1>3, <2>3, <2>4 DEF j
<1>4. CASE ~j.failed /\ j.state.mark = "delete"
  <2>1. rows' = Without(e)
    BY <1>1, <1>4 DEF AfterSettle
  <2>2. /\ IsTable(rows') /\ DOMAIN rows' = DOMAIN rows \ {e}
        /\ \A o \in DOMAIN rows' : rows'[o] = rows[o]
    BY <1>1, <2>1, WithoutIs
  <2> QED BY <1>1, <1>4, <2>2 DEF j
<1>5. CASE ~j.failed /\ j.state.mark # "delete"
  <2> DEFINE u == [j.next EXCEPT !.mark = "none"]
             t == [u EXCEPT !.backoff = FALSE]
  <2>1. rows' = SetState(e, t)
    BY <1>1, <1>5 DEF AfterSettle
  <2>2. u \in Rows /\ u.status = j.next.status /\ u.released = j.next.released
        /\ u.prior = j.next.prior
    BY <1>2, MarkSet
  <2> HIDE DEF u
  <2>3. t \in Rows /\ t.status = u.status /\ t.released = u.released /\ t.prior = u.prior
    BY <2>2 DEF Rows
  <2>4. t.mark = "none"
    <3>1. u.mark = "none"
      BY <1>2, MarkSet DEF u
    <3> QED BY <2>2, <3>1 DEF Rows
  <2> HIDE DEF t
  <2>5. /\ IsTable(rows') /\ DOMAIN rows' = DOMAIN rows
        /\ \A o \in DOMAIN rows : o # e => rows'[o] = rows[o]
        /\ e \in DOMAIN rows => Like(rows'[e], t)
    BY <1>1, <2>1, <2>3, SetStateIs
  <2>6. e \in DOMAIN rows =>
           /\ rows'[e].status = j.next.status /\ (RunFits(j.next) => RunFits(rows'[e]))
           /\ rows'[e].prior = j.next.prior /\ rows'[e].released = j.next.released
           /\ rows'[e].mark = "none"
    BY <2>2, <2>3, <2>5, <2>4 DEF Like, RunFits, Landed
  <2> QED BY <1>1, <1>5, <2>5, <2>6 DEF j
<1> QED BY <1>3, <1>4, <1>5

-----------------------------------------------------------------------------
(* Every step keeps the types. *)

JobsShaped == job = [a \in Actors |-> job[a]] /\ \A a \in Actors : IsJob(job[a])
TickShaped ==
    /\ IsTable(tick.known) /\ tick.todo \subseteq DOMAIN tick.known
    /\ tick = [at |-> tick.at, known |-> tick.known, todo |-> tick.todo, window |-> tick.window]
AsksShaped ==
    /\ asks \in [Requests -> Asks]
    /\ \A q \in Requests : asks[q].at \in Cancelling \cup {"pending"} => asks[q].kind \in {"delete", "disable"}

LEMMA ShapedParts ==
    /\ Shaped <=> IsTable(rows) /\ TickShaped /\ JobsShaped /\ AsksShaped /\ mishaps \in Nat
    /\ Shaped' <=> IsTable(rows') /\ TickShaped' /\ JobsShaped' /\ AsksShaped' /\ mishaps' \in Nat
BY DEF Shaped, TickShaped, JobsShaped, AsksShaped, IsTable, IsJob

LEMMA NoJobSet ==
    ASSUME Shaped, NEW a \in Actors, job' = [job EXCEPT ![a] = NoJob]
    PROVE  JobsShaped' /\ job'[a] = NoJob /\ \A b \in Actors \ {a} : job'[b] = job[b]
<1>1. /\ job' = [b \in Actors |-> job'[b]] /\ \A b \in Actors : IsJob(job'[b])
      /\ job'[a] = NoJob /\ \A b \in Actors \ {a} : job'[b] = job[b]
  BY NoJobIsJob, JobSet
<1> QED BY <1>1 DEF JobsShaped, IsJob

LEMMA TodoShaped ==
    ASSUME Shaped, NEW e, TickDone(e)
    PROVE  TickShaped' /\ tick'.at = tick.at /\ tick'.known = tick.known
           /\ tick'.window = tick.window /\ tick'.todo = tick.todo \ {e}
<1>1. /\ tick' = [at |-> tick.at, known |-> tick.known, todo |-> tick.todo \ {e},
                  window |-> tick.window]
      /\ tick'.at = tick.at /\ tick'.known = tick.known /\ tick'.todo = tick.todo \ {e}
      /\ tick'.window = tick.window
  BY TodoSet DEF TickDone
<1> QED BY <1>1 DEF Shaped, TickShaped, IsTable

LEMMA AskedIs ==
    ASSUME AsksShaped, NEW q \in Requests, Answered(q)
    PROVE  AsksShaped' /\ asks'[q].at = "done" /\ asks'[q].state = Fresh
           /\ \A p \in Requests \ {q} : asks'[p] = asks[p]
<1> DEFINE d == [NoAsk EXCEPT !.at = "done"]
<1>1. d \in Asks /\ d.at = "done" /\ d.state = Fresh
  BY FreshIsRow DEF NoAsk, Asks
<1>2. asks' = [asks EXCEPT ![q] = d]
  BY DEF Answered
<1> HIDE DEF d
<1> QED BY <1>1, <1>2 DEF AsksShaped, Cancelling

LEMMA AsksUnchanged ==
    ASSUME AsksShaped, UNCHANGED asks
    PROVE  AsksShaped'
BY DEF AsksShaped

LEMMA TickUnchanged ==
    ASSUME TickShaped, UNCHANGED tick
    PROVE  TickShaped'
BY DEF TickShaped, IsTable

LEMMA JobsUnchanged ==
    ASSUME JobsShaped, UNCHANGED job
    PROVE  JobsShaped'
BY DEF JobsShaped, IsJob

LEMMA RowsUnchanged ==
    ASSUME IsTable(rows), UNCHANGED rows
    PROVE  IsTable(rows')
BY DEF IsTable

LEMMA ShapedInit == Init => Shaped
<1> SUFFICES ASSUME Init PROVE Shaped
  OBVIOUS
<1>1. IsTable(rows)
  BY SchedulerAssumption, FreshIsRow DEF Init, IsTable
<1>2. TickShaped
  BY DEF Init, Asleep, TickShaped, IsTable
<1>3. JobsShaped
  BY NoJobIsJob DEF Init, JobsShaped
<1>4. AsksShaped
  BY FreshIsRow DEF Init, AsksShaped, NoAsk, Asks, Cancelling
<1>5. mishaps \in Nat
  BY DEF Init
<1> QED BY <1>1, <1>2, <1>3, <1>4, <1>5, ShapedParts

LEMMA PersistsShaped ==
    ASSUME Shaped, NEW e, NEW s \in Rows, Persists(e, s)
    PROVE  IsTable(rows') /\ TickShaped'
<1> DEFINE t == [s EXCEPT !.enabled = tick.known[e].enabled]
           known == [tick.known EXCEPT ![e] = t]
<1>1. /\ IsTable(rows) /\ TickShaped /\ rows' = SetState(e, s)
  BY ShapedParts DEF Persists
<1>2. IsTable(rows')
  BY <1>1, SetStateIs
<1>3. e \in DOMAIN tick.known => t \in Rows
  <2>1. e \in DOMAIN tick.known => tick.known[e].enabled \in BOOLEAN
    BY <1>1, RowFields DEF TickShaped, IsTable
  <2> QED BY <2>1 DEF Rows
<1>4. tick' = [tick EXCEPT !.todo = tick.todo \ {e}, !.known[e] = t]
  BY DEF Persists
<1> HIDE DEF t
<1>5. tick' = [at |-> tick.at, known |-> known, todo |-> tick.todo \ {e}, window |-> tick.window]
  BY <1>1, <1>4 DEF TickShaped
<1>6. IsTable(known) /\ DOMAIN known = DOMAIN tick.known
  BY <1>1, <1>3 DEF TickShaped, IsTable
<1> HIDE DEF known
<1> QED BY <1>1, <1>2, <1>5, <1>6 DEF TickShaped, IsTable

LEMMA CommandsShaped ==
    ASSUME Shaped, NEW a \in Actors, Commands(a)
    PROVE  Shaped' /\ (mishaps' = mishaps \/ mishaps' = mishaps + 1)
<1>1. JobsShaped' /\ UNCHANGED <<rows, tick, asks>> /\ (mishaps' = mishaps \/ mishaps' = mishaps + 1)
  BY CommandsKeep DEF JobsShaped, IsJob
<1> QED BY <1>1, RowsUnchanged, TickUnchanged, AsksUnchanged, ShapedParts

LEMMA SettledShaped ==
    ASSUME Shaped, NEW a \in Actors, Settled(a)
    PROVE  Shaped' /\ mishaps' = mishaps
<1>1. /\ IsTable(rows') /\ UNCHANGED <<tick, mishaps>> /\ job' = [job EXCEPT ![a] = NoJob]
      /\ asks' = IF a = Tick THEN asks ELSE [asks EXCEPT ![a] = [NoAsk EXCEPT !.at = "done"]]
  BY SettledIs
<1>2. JobsShaped'
  BY <1>1, NoJobSet
<1>3. AsksShaped'
  <2>1. CASE a = Tick
    BY <1>1, <2>1, AsksUnchanged, ShapedParts
  <2>2. CASE a # Tick
    BY <1>1, <2>2, AskedIs, ShapedParts DEF Answered, Actors
  <2> QED BY <2>1, <2>2
<1> QED BY <1>1, <1>2, <1>3, TickUnchanged, ShapedParts

LEMMA TickStepShaped ==
    ASSUME Shaped, TickStep
    PROVE  Shaped' /\ (mishaps' = mishaps \/ mishaps' = mishaps + 1)
<1>0. /\ IsTable(rows) /\ TickShaped /\ JobsShaped /\ AsksShaped /\ mishaps \in Nat
      /\ Tick \in Actors
  BY ShapedParts DEF Actors
<1>1. CASE TickBegins
  <2>1. TickShaped'
    BY <1>0, <1>1 DEF TickBegins, TickShaped, IsTable
  <2>2. UNCHANGED <<rows, job, asks, mishaps>>
    BY <1>1 DEF TickBegins
  <2> QED BY <1>0, <2>1, <2>2, RowsUnchanged, JobsUnchanged, AsksUnchanged, ShapedParts
<1>2. ASSUME NEW w \in SUBSET (Events \ Rules), TickEvaluates(w)
      PROVE  Shaped' /\ mishaps' = mishaps
  <2>1. PICK todo : todo \subseteq DOMAIN tick.known
                    /\ tick' = [tick EXCEPT !.at = "evaluating", !.window = w, !.todo = todo]
    BY <1>2 DEF TickEvaluates
  <2>2. tick' = [at |-> "evaluating", known |-> tick.known, todo |-> todo, window |-> w]
    BY <1>0, <2>1 DEF TickShaped
  <2>3. TickShaped'
    BY <1>0, <2>1, <2>2 DEF TickShaped, IsTable
  <2>4. UNCHANGED <<rows, job, asks, mishaps>>
    BY <1>2 DEF TickEvaluates
  <2> QED BY <1>0, <2>3, <2>4, RowsUnchanged, JobsUnchanged, AsksUnchanged, ShapedParts
<1>3. CASE EventDispatched
  <2>1. PICK n \in Rows : Persists(job[Tick].event, n)
    BY <1>3, DispatchedIs
  <2>2. job' = [job EXCEPT ![Tick] = NoJob] /\ UNCHANGED <<asks, mishaps>>
    BY <1>3, DispatchedIs
  <2>3. JobsShaped'
    BY <1>0, <2>2, NoJobSet
  <2>4. IsTable(rows') /\ TickShaped'
    BY <1>0, <2>1, PersistsShaped
  <2> QED BY <1>0, <2>2, <2>3, <2>4, AsksUnchanged, ShapedParts
<1>4. CASE TickEnds
  <2>1. TickShaped'
    BY <1>4 DEF TickEnds, Asleep, TickShaped, IsTable
  <2>2. UNCHANGED <<rows, job, asks, mishaps>>
    BY <1>4 DEF TickEnds
  <2> QED BY <1>0, <2>1, <2>2, RowsUnchanged, JobsUnchanged, AsksUnchanged, ShapedParts
<1>5. CASE Commands(Tick)
  BY <1>0, <1>5, CommandsShaped
<1>6. CASE Settled(Tick)
  BY <1>0, <1>6, SettledShaped
<1>7. ASSUME NEW e \in Events, TickSettles(e)
      PROVE  Shaped' /\ mishaps' = mishaps
  <2>1. JobsShaped' /\ TickDone(e) /\ UNCHANGED <<rows, asks, mishaps>>
    BY <1>7, TickSettlesIs DEF JobsShaped, IsJob
  <2>2. TickShaped'
    BY <2>1, TodoShaped
  <2> QED BY <1>0, <2>1, <2>2, RowsUnchanged, AsksUnchanged, ShapedParts
<1>8. ASSUME NEW e \in Events, TickLeavesRestore(e) \/ EventWaitsRetry(e)
      PROVE  Shaped' /\ mishaps' = mishaps
  <2>1. TickDone(e) /\ UNCHANGED <<rows, job, asks, mishaps>>
    BY <1>8 DEF TickLeavesRestore, EventWaitsRetry
  <2>2. TickShaped'
    BY <2>1, TodoShaped
  <2> QED BY <1>0, <2>1, <2>2, RowsUnchanged, JobsUnchanged, AsksUnchanged, ShapedParts
<1>9. ASSUME NEW e \in Events, EventHolds(e)
      PROVE  Shaped' /\ mishaps' = mishaps
  <2>1. PICK n \in Rows : Persists(e, n)
    BY <1>9, HoldsIs
  <2>2. UNCHANGED <<job, asks, mishaps>>
    BY <1>9 DEF EventHolds
  <2>3. IsTable(rows') /\ TickShaped'
    BY <1>0, <2>1, PersistsShaped
  <2> QED BY <1>0, <2>2, <2>3, JobsUnchanged, AsksUnchanged, ShapedParts
<1>10. ASSUME NEW e \in Events, EventDispatches(e)
       PROVE  Shaped' /\ mishaps' = mishaps
  <2>1. JobsShaped' /\ UNCHANGED <<rows, tick, asks, mishaps>>
    BY <1>10, DispatchesIs DEF JobsShaped, IsJob
  <2> QED BY <1>0, <2>1, RowsUnchanged, TickUnchanged, AsksUnchanged, ShapedParts
<1> QED BY <1>1, <1>2, <1>3, <1>4, <1>5, <1>6, <1>7, <1>8, <1>9, <1>10 DEF TickStep, TickBegins, TickEnds

\* What a request is on, where its cancel is recorded or its restore is due.
LEMMA AskedKind ==
    ASSUME AsksShaped, NEW q \in Requests, asks[q].at \in Cancelling \cup {"pending"}
    PROVE  /\ asks[q].event \in Events \cup {None} /\ asks[q].state \in Rows
           /\ asks[q].kind \in {"delete", "disable"}
BY DEF AsksShaped, Asks

LEMMA AskIs ==
    ASSUME AsksShaped, NEW q \in Requests, NEW e \in Events, NEW kind \in {"delete", "disable"},
           asks' = [asks EXCEPT ![q] = [at |-> "asked", event |-> e, kind |-> kind, state |-> Fresh]]
    PROVE  /\ AsksShaped' /\ asks'[q].at = "asked" /\ asks'[q].event = e /\ asks'[q].state = Fresh
           /\ \A p \in Requests \ {q} : asks'[p] = asks[p]
BY FreshIsRow DEF AsksShaped, Asks, Cancelling

\* A request goes on to its next step.
LEMMA AskOn ==
    ASSUME AsksShaped, NEW q \in Requests, NEW at \in {"marking", "pending", "settling"},
           NEW s \in Rows,
           asks[q].at \in Cancelling \cup {"pending"},
           asks' = [asks EXCEPT ![q].at = at, ![q].state = s]
    PROVE  /\ AsksShaped' /\ asks'[q].at = at /\ asks'[q].event = asks[q].event
           /\ asks'[q].state = s
           /\ \A p \in Requests \ {q} : asks'[p] = asks[p]
BY DEF AsksShaped, Asks

LEMMA AskAtIs ==
    ASSUME AsksShaped, NEW q \in Requests, NEW at \in {"marking", "pending", "settling"},
           asks[q].at \in Cancelling \cup {"pending"}, AskAt(q, at)
    PROVE  /\ AsksShaped' /\ asks'[q].at = at /\ asks'[q].event = asks[q].event
           /\ asks'[q].state = asks[q].state
           /\ \A p \in Requests \ {q} : asks'[p] = asks[p]
BY DEF AsksShaped, Asks, AskAt

\* The row that RemovalMarks stores.
LEMMA MarksIs ==
    ASSUME Shaped, NEW q \in Requests, RemovalMarks(q)
    PROVE  LET e == asks[q].event IN
           /\ asks[q].at = "marking"
           /\ IsTable(rows') /\ DOMAIN rows' = DOMAIN rows
           /\ \A o \in DOMAIN rows : o # e => rows'[o] = rows[o]
           /\ e \in DOMAIN rows => /\ rows'[e].mark # "none"
                                   /\ RunFits(asks[q].state) => RunFits(rows'[e])
                                   /\ rows'[e].status = asks[q].state.status
                                   /\ rows'[e].prior = asks[q].state.prior
                                   /\ rows'[e].released = asks[q].state.released
           /\ AsksShaped' /\ asks'[q].at = "pending" /\ asks'[q].state = Fresh
           /\ asks'[q].event = e /\ \A p \in Requests \ {q} : asks'[p] = asks[p]
           /\ UNCHANGED <<inverter, tick, job, settling, mishaps, owner>>
<1> DEFINE e == asks[q].event
           s == asks[q].state
           u == [s EXCEPT !.mark = asks[q].kind]
           t == [u EXCEPT !.backoff = FALSE]
<1>1. /\ asks[q].at = "marking" /\ rows' = SetState(e, t)
      /\ asks' = [asks EXCEPT ![q].at = "pending", ![q].state = Fresh]
      /\ UNCHANGED <<inverter, tick, job, settling, mishaps, owner>>
  BY DEF RemovalMarks
<1>2. IsTable(rows) /\ AsksShaped
  BY ShapedParts
<1>3. s \in Rows /\ asks[q].kind \in {"delete", "disable"}
  BY <1>1, <1>2, AskedKind DEF Cancelling
<1> HIDE DEF s
<1>4. /\ u \in Rows /\ u.status = s.status /\ u.released = s.released /\ u.prior = s.prior
      /\ u.mark = asks[q].kind
  <2>1. PICK x \in {"delete", "disable"} : x = asks[q].kind
    BY <1>3
  <2> QED BY <1>3, <2>1, MarkSet
<1> HIDE DEF u
<1>5. /\ t \in Rows /\ t.status = u.status /\ t.released = u.released /\ t.prior = u.prior
      /\ t.mark = u.mark
  BY <1>4 DEF Rows
<1> HIDE DEF t
<1>6. /\ IsTable(rows') /\ DOMAIN rows' = DOMAIN rows
      /\ \A o \in DOMAIN rows : o # e => rows'[o] = rows[o]
      /\ e \in DOMAIN rows => Like(rows'[e], t)
  BY <1>1, <1>2, <1>5, SetStateIs
<1>7. e \in DOMAIN rows => /\ rows'[e].mark # "none" /\ (RunFits(s) => RunFits(rows'[e]))
                           /\ rows'[e].status = s.status /\ rows'[e].prior = s.prior
                           /\ rows'[e].released = s.released
  BY <1>3, <1>4, <1>5, <1>6 DEF Like, RunFits, Landed
<1>8. /\ AsksShaped' /\ asks'[q].at = "pending" /\ asks'[q].state = Fresh
      /\ asks'[q].event = e /\ \A p \in Requests \ {q} : asks'[p] = asks[p]
  BY <1>1, <1>2, FreshIsRow, AskOn DEF Cancelling
<1> QED BY <1>1, <1>6, <1>7, <1>8 DEF s

LEMMA ServesShaped ==
    ASSUME Shaped, NEW q \in Requests, Serves(q)
    PROVE  Shaped' /\ (mishaps' = mishaps \/ mishaps' = mishaps + 1)
<1>0. /\ IsTable(rows) /\ TickShaped /\ JobsShaped /\ AsksShaped /\ mishaps \in Nat
      /\ q \in Actors
  BY ShapedParts DEF Actors
<1>1. CASE RemovalReads(q)
  <2>1. UNCHANGED <<rows, tick, job, mishaps>> /\ asks[q].at = "asked"
    BY <1>1 DEF RemovalReads
  <2>2. AsksShaped'
    <3>1. CASE asks[q].event \in DOMAIN rows
      <4>1. PICK s \in Rows : s = rows[asks[q].event]
        BY <1>0, <3>1 DEF IsTable
      <4>2. asks' = [asks EXCEPT ![q].at = "marking", ![q].state = s]
        BY <1>1, <3>1, <4>1 DEF RemovalReads
      <4> QED BY <1>0, <2>1, <4>2, AskOn DEF Cancelling
    <3>2. CASE asks[q].event \notin DOMAIN rows
      BY <1>0, <1>1, <3>2, AskedIs DEF RemovalReads
    <3> QED BY <3>1, <3>2
  <2> QED BY <1>0, <2>1, <2>2, RowsUnchanged, TickUnchanged, JobsUnchanged, ShapedParts
<1>2. CASE RemovalMarks(q)
  <2>1. IsTable(rows') /\ AsksShaped' /\ UNCHANGED <<tick, job, mishaps>>
    BY <1>2, MarksIs
  <2> QED BY <1>0, <2>1, TickUnchanged, JobsUnchanged, ShapedParts
<1>3. CASE NothingToRestore(q)
  <2>1. UNCHANGED <<tick, job, mishaps>> /\ AsksShaped'
    BY <1>0, <1>3, AskedIs DEF NothingToRestore
  <2>2. IsTable(rows')
    <3>1. rows' = Without(asks[q].event) \/ rows' = rows
      BY <1>3 DEF NothingToRestore
    <3> QED BY <1>0, <3>1, WithoutIs, RowsUnchanged
  <2> QED BY <1>0, <2>1, <2>2, TickUnchanged, JobsUnchanged, ShapedParts
<1>4. CASE RestoreStarts(q)
  <2>1. /\ JobsShaped' /\ AskAt(q, "settling") /\ asks[q].at = "pending"
        /\ UNCHANGED <<rows, tick, mishaps>>
    BY <1>4, RestoreStartsIs DEF JobsShaped, IsJob
  <2>2. AsksShaped'
    BY <1>0, <2>1, AskAtIs
  <2> QED BY <1>0, <2>1, <2>2, RowsUnchanged, TickUnchanged, ShapedParts
<1>5. CASE RestoreLeft(q)
  <2>1. AsksShaped' /\ UNCHANGED <<rows, tick, job, mishaps>>
    BY <1>0, <1>5, AskedIs DEF RestoreLeft
  <2> QED BY <1>0, <2>1, RowsUnchanged, TickUnchanged, JobsUnchanged, ShapedParts
<1>6. CASE Commands(q)
  BY <1>0, <1>6, CommandsShaped
<1>7. CASE Settled(q)
  BY <1>0, <1>7, SettledShaped
<1> QED BY <1>1, <1>2, <1>3, <1>4, <1>5, <1>6, <1>7 DEF Serves

LEMMA AskShaped ==
    ASSUME Shaped, NEW q \in Requests, NEW e \in Targets,
           Put(q, e) \/ PutDisabled(q, e) \/ Delete(q, e)
    PROVE  Shaped' /\ mishaps' = mishaps
<1>0. /\ IsTable(rows) /\ TickShaped /\ JobsShaped /\ AsksShaped /\ mishaps \in Nat
      /\ e \in Events
  BY ShapedParts, SchedulerAssumption
<1>1. UNCHANGED <<tick, job, mishaps>>
  BY DEF Put, PutDisabled, Delete
<1>2. IsTable(rows')
  <2>1. rows' = Upsert(e, TRUE) \/ rows' = Upsert(e, FALSE) \/ rows' = rows
    BY DEF Put, PutDisabled, Delete
  <2> QED BY <1>0, <2>1, UpsertIs, RowsUnchanged
<1>3. AsksShaped'
  <2>1. CASE Put(q, e)
    BY <1>0, <2>1, AskedIs DEF Put
  <2>2. CASE PutDisabled(q, e) \/ Delete(q, e)
    BY <1>0, <2>2, AskIs DEF PutDisabled, Delete
  <2> QED BY <2>1, <2>2
<1> QED BY <1>0, <1>1, <1>2, <1>3, TickUnchanged, JobsUnchanged, ShapedParts

LEMMA StepShaped ==
    ASSUME Shaped, Step
    PROVE  Shaped' /\ (mishaps' = mishaps \/ mishaps' = mishaps + 1)
<1>0. IsTable(rows) /\ TickShaped /\ JobsShaped /\ AsksShaped /\ mishaps \in Nat
  BY ShapedParts
<1>1. CASE TickStep
  BY <1>1, TickStepShaped
<1>2. CASE \E q \in Requests : Serves(q)
  BY <1>2, ServesShaped
<1>3. CASE \E q \in Requests, e \in Targets : Put(q, e) \/ PutDisabled(q, e) \/ Delete(q, e)
  BY <1>3, AskShaped
<1>4. CASE \E r \in Registers, v \in Settings : OwnerSets(r, v)
  <2>1. UNCHANGED <<rows, tick, job, asks, mishaps>>
    BY <1>4 DEF OwnerSets
  <2> QED BY <1>0, <2>1, RowsUnchanged, TickUnchanged, JobsUnchanged, AsksUnchanged, ShapedParts
<1>5. CASE Restart
  <2>1. UNCHANGED rows /\ mishaps' = mishaps + 1
    BY <1>5 DEF Restart
  <2>2. TickShaped'
    BY <1>5 DEF Restart, Asleep, TickShaped, IsTable
  <2>3. JobsShaped'
    BY <1>5, NoJobIsJob DEF Restart, JobsShaped, IsJob
  <2>4. AsksShaped'
    <3> DEFINE d == [NoAsk EXCEPT !.at = "done"]
    <3>1. d \in Asks /\ d.at = "done"
      BY FreshIsRow DEF NoAsk, Asks
    <3>2. asks' = [q \in Requests |-> IF asks[q].at = "new" THEN asks[q] ELSE d]
      BY <1>5 DEF Restart
    <3> HIDE DEF d
    <3> QED BY <1>0, <3>1, <3>2 DEF AsksShaped, Cancelling
  <2> QED BY <1>0, <2>1, <2>2, <2>3, <2>4, RowsUnchanged, ShapedParts
<1> QED BY <1>1, <1>2, <1>3, <1>4, <1>5 DEF Step

-----------------------------------------------------------------------------
(* One restorer. *)

\* No job starts to restore, and nothing leaves _settling.
LEMMA RestorersStay ==
    ASSUME OneRestorer, settling \subseteq settling',
           \A a \in Actors : job'[a].kind = "settle" => job[a].kind = "settle" /\ job'[a].event = job[a].event
    PROVE  OneRestorer'
BY DEF OneRestorer, RestoredByOne

LEMMA SettlesOne ==
    ASSUME OneRestorer, NEW a \in Actors, NEW e, e \notin settling, settling' = settling \cup {e},
           job'[a].event = e, \A b \in Actors \ {a} : job'[b] = job[b]
    PROVE  OneRestorer'
BY DEF OneRestorer, RestoredByOne

LEMMA SettledOne ==
    ASSUME Shaped, OneRestorer, NEW a \in Actors, Settled(a)
    PROVE  OneRestorer'
<1>1. /\ job[a].kind = "settle" /\ settling' = settling \ {job[a].event}
      /\ job' = [job EXCEPT ![a] = NoJob]
  BY SettledIs
<1>2. job'[a].kind = "none" /\ \A b \in Actors \ {a} : job'[b] = job[b]
  BY <1>1, NoJobSet, NoJobIsJob
<1> QED BY <1>1, <1>2 DEF OneRestorer, RestoredByOne

LEMMA StepOne ==
    ASSUME Shaped, OneRestorer, Step
    PROVE  OneRestorer'
<1>0. Tick \in Actors /\ \A q \in Requests : q \in Actors
  BY DEF Actors
<1>1. ASSUME UNCHANGED <<job, settling>>
      PROVE  OneRestorer'
  BY <1>1 DEF OneRestorer, RestoredByOne
<1>2. ASSUME NEW a \in Actors, Commands(a)
      PROVE  OneRestorer'
  <2>1. UNCHANGED settling /\ \A b \in Actors : SameJob(job[b], job'[b])
    BY <1>2, CommandsKeep
  <2> QED BY <2>1, RestorersStay DEF SameJob
<1>3. CASE TickStep
  <2>1. CASE EventDispatched
    <3>1. job' = [job EXCEPT ![Tick] = NoJob] /\ UNCHANGED settling
      BY <2>1, DispatchedIs
    <3>2. job'[Tick].kind = "none" /\ \A b \in Actors \ {Tick} : job'[b] = job[b]
      BY <1>0, <3>1, NoJobSet, NoJobIsJob
    <3> QED BY <3>1, <3>2, RestorersStay
  <2>2. ASSUME NEW e \in Events, TickSettles(e)
        PROVE  OneRestorer'
    BY <1>0, <2>2, TickSettlesIs, SettlesOne
  <2>3. ASSUME NEW e \in Events, EventDispatches(e)
        PROVE  OneRestorer'
    BY <2>3, DispatchesIs, RestorersStay
  <2>4. CASE \/ TickBegins \/ TickEnds
             \/ \E w \in SUBSET (Events \ Rules) : TickEvaluates(w)
             \/ \E e \in Events : TickLeavesRestore(e) \/ EventHolds(e) \/ EventWaitsRetry(e)
    <3>1. UNCHANGED <<job, settling>>
      BY <2>4 DEF TickBegins, TickEnds, TickEvaluates, TickLeavesRestore, EventHolds,
                  EventWaitsRetry
    <3> QED BY <1>1, <3>1
  <2> QED BY <1>0, <1>2, <1>3, <2>1, <2>2, <2>3, <2>4, SettledOne DEF TickStep
<1>4. ASSUME NEW q \in Requests, Serves(q)
      PROVE  OneRestorer'
  <2>1. CASE RestoreStarts(q)
    <3>1. PICK e : e = asks[q].event
      OBVIOUS
    <3>2. /\ e \notin settling /\ settling' = settling \cup {e} /\ job'[q].event = e
          /\ \A b \in Actors \ {q} : job'[b] = job[b]
      BY <2>1, <3>1, RestoreStartsIs
    <3> QED BY <1>0, <3>2, SettlesOne
  <2>2. CASE RemovalReads(q) \/ RemovalMarks(q) \/ NothingToRestore(q) \/ RestoreLeft(q)
    <3>1. UNCHANGED <<job, settling>>
      BY <2>2 DEF RemovalReads, RemovalMarks, NothingToRestore, RestoreLeft
    <3> QED BY <1>1, <3>1
  <2> QED BY <1>0, <1>2, <1>4, <2>1, <2>2, SettledOne DEF Serves
<1>5. CASE \/ \E q \in Requests, e \in Targets : Put(q, e) \/ PutDisabled(q, e) \/ Delete(q, e)
           \/ \E r \in Registers, v \in Settings : OwnerSets(r, v)
  <2>1. UNCHANGED <<job, settling>>
    BY <1>5 DEF Put, PutDisabled, Delete, OwnerSets
  <2> QED BY <1>1, <2>1
<1>6. CASE Restart
  BY <1>6, NoJobIsJob DEF Restart, OneRestorer, RestoredByOne
<1> QED BY <1>3, <1>4, <1>5, <1>6 DEF Step

LEMMA InitOne == Init => OneRestorer
BY NoJobIsJob DEF Init, OneRestorer, RestoredByOne

-----------------------------------------------------------------------------
(* While nothing goes wrong. *)

\* What never was calm does not become so, and in calm no request is under way
\* in a tick.
LEMMA CalmBefore ==
    ASSUME Shaped, Step, Spoils, Calm'
    PROVE  Calm /\ NoneOverlaps' /\ mishaps' = mishaps
<1>1. mishaps \in Nat /\ (mishaps' = mishaps \/ mishaps' = mishaps + 1)
  BY StepShaped, ShapedParts
<1>2. mishaps' = 0 /\ spoilt' \subseteq {"beside"}
  BY DEF Calm
<1>3. mishaps = 0 /\ mishaps' = mishaps
  BY <1>1, <1>2
<1>4. spoilt \subseteq {"beside"} /\ ~Overlap'
  <2>1. spoilt \subseteq spoilt' /\ (Overlap' => "overlap" \in spoilt')
    BY Zenon DEF Spoils
  <2>2. "overlap" \notin spoilt'
    BY <1>2
  <2> QED BY <1>2, <2>1, <2>2
<1>5. NoneOverlaps'
  BY <1>4 DEF Overlap, NoneOverlaps
<1> QED BY <1>3, <1>4, <1>5 DEF Calm

\* A request that is under way finds the scheduler asleep.
LEMMA AskAsleep ==
    ASSUME CalmInv, NEW q \in Requests, asks[q].at \notin {"new", "done"}
    PROVE  ~Awake /\ job[Tick].kind = "none"
<1>1. ~Awake
  BY DEF CalmInv, NoneOverlaps
<1> QED BY <1>1 DEF CalmInv, TickJob

LEMMA AsleepKeeps ==
    ASSUME ~Awake, UNCHANGED tick, job'[Tick].kind = "none"
    PROVE  TickJob' /\ TodoFits' /\ KnownHolds'
<1>1. ~Awake' /\ tick'.at = "asleep"
  BY DEF Awake
<1> QED BY <1>1 DEF TickJob, TodoFits, KnownHolds

\* Rows of what runs: none but what ran before.
LEMMA TogetherStays ==
    ASSUME NeverTogether,
           \A e \in DOMAIN rows' : rows'[e].status = "active" /\ rows'[e].mark = "none"
                                     => e \in DOMAIN rows /\ Runs(e)
    PROVE  NeverTogether'
<1> SUFFICES ASSUME NEW u \in Rules \cap DOMAIN rows', NEW w \in DOMAIN rows' \ Rules,
                    Shares(u, w), Rank[w] < Rank[u], Runs(u)', Runs(w)'
             PROVE  FALSE
  BY DEF NeverTogether, Shares
<1>1. /\ u \in DOMAIN rows /\ Runs(u) /\ w \in DOMAIN rows /\ Runs(w)
  BY DEF Runs
<1> QED BY <1>1 DEF NeverTogether

\* The jobs are as they were, but for what is left of them.
LEMMA JobsStay ==
    ASSUME CalmInv, UNCHANGED asks, mishaps' = mishaps,
           \A a \in Actors : SameJob(job[a], job'[a]) /\ job'[a].failed = job[a].failed
    PROVE  JobsFit'
<1>1. \A q \in Requests : q \in Actors
  BY DEF Actors
<1> QED BY <1>1 DEF CalmInv, JobsFit, SameJob

LEMMA CommandsCalm ==
    ASSUME Shaped, CalmInv, NoneOverlaps', NEW a \in Actors, Commands(a), mishaps' = mishaps
    PROVE  CalmInv'
<1>0. Tick \in Actors
  BY DEF Actors
<1>1. /\ \A b \in Actors : SameJob(job[b], job'[b]) /\ job'[b].failed = job[b].failed
      /\ UNCHANGED <<rows, tick, settling, asks>>
  BY CommandsKeep DEF Shaped
<1>2. JobsFit'
  BY <1>1, JobsStay
<1>3. TickJob'
  BY <1>0, <1>1 DEF CalmInv, TickJob, SameJob, Awake, Pausers, Blockers, Others, StandsDown
<1>4. RunsFit' /\ TodoFits' /\ DisabledIsCancelled'
  BY <1>1 DEF CalmInv, RunsFit, TodoFits, DisabledIsCancelled, Cancels
<1>5. KnownHolds' /\ NeverTogether'
  BY <1>1 DEF CalmInv, KnownHolds, Awake, Listed, NeverTogether, Runs
<1> QED BY <1>2, <1>3, <1>4, <1>5 DEF CalmInv

LEMMA OwnerCalm ==
    ASSUME CalmInv, NoneOverlaps', UNCHANGED <<rows, tick, job, settling, asks, mishaps>>
    PROVE  CalmInv'
<1>1. JobsFit' /\ TickJob'
  BY DEF CalmInv, JobsFit, TickJob, Awake
<1>2. RunsFit' /\ TodoFits' /\ DisabledIsCancelled'
  BY DEF CalmInv, RunsFit, TodoFits, DisabledIsCancelled, Cancels
<1>3. KnownHolds' /\ NeverTogether'
  BY DEF CalmInv, KnownHolds, Awake, Listed, NeverTogether, Runs
<1> QED BY <1>1, <1>2, <1>3 DEF CalmInv

LEMMA CalmInit == Init => CalmInv
<1> SUFFICES ASSUME Init PROVE CalmInv
  OBVIOUS
<1>1. NoneOverlaps /\ TodoFits /\ KnownHolds
  BY DEF Init, Asleep, NoneOverlaps, TodoFits, KnownHolds, Awake
<1>2. RunsFit
  BY FreshIsRow DEF Init, Asleep, NoAsk, RunsFit
<1>3. JobsFit /\ TickJob
  BY NoJobIsJob DEF Init, JobsFit, TickJob, Actors
<1>4. DisabledIsCancelled /\ NeverTogether
  BY FreshIsRow DEF Init, DisabledIsCancelled, NeverTogether, Runs
<1> QED BY <1>1, <1>2, <1>3, <1>4 DEF CalmInv

\* Of the jobs, none is another.
LEMMA JobsAsBefore ==
    ASSUME CalmInv, UNCHANGED job, NEW q \in Requests,
           asks[q].at # "settling", \A p \in Requests \ {q} : asks'[p] = asks[p]
    PROVE  JobsFit'
BY DEF CalmInv, JobsFit

\* The cancel of an event is under way as before, of the other requests.
LEMMA CancelStays ==
    ASSUME NEW q \in Requests, \A p \in Requests \ {q} : asks'[p] = asks[p],
           NEW p \in Requests, NEW e, Cancels(p, e), p # q
    PROVE  Cancels(p, e)'
<1>1. asks'[p] = asks[p]
  OBVIOUS
<1> QED BY <1>1 DEF Cancels

LEMMA PutCalm ==
    ASSUME Shaped, CalmInv, NoneOverlaps', NEW q \in Requests, NEW e \in Targets, Put(q, e)
    PROVE  CalmInv'
<1>0. /\ IsTable(rows) /\ e \in Events /\ AsksShaped /\ asks[q].at = "new" /\ rows' = Upsert(e, TRUE)
      /\ UNCHANGED <<tick, job>>
  BY ShapedParts, SchedulerAssumption DEF Put
<1>1. /\ IsTable(rows') /\ DOMAIN rows' = DOMAIN rows \cup {e}
      /\ \A o \in DOMAIN rows : o # e => rows'[o] = rows[o]
      /\ Like(rows'[e], IF e \in DOMAIN rows THEN rows[e] ELSE Fresh)
      /\ rows'[e].enabled = TRUE
  BY <1>0, UpsertIs
<1>2. /\ asks'[q].at = "done" /\ asks'[q].state = Fresh
      /\ \A p \in Requests \ {q} : asks'[p] = asks[p]
  BY <1>0, AskedIs DEF Put
<1>3. RunsFit'
  <2>1. RunFits(rows'[e])
    <3>1. CASE e \in DOMAIN rows
      BY <1>1, <3>1, LikeFits DEF CalmInv, RunsFit
    <3>2. CASE e \notin DOMAIN rows
      BY <1>1, <3>2, LikeFits, FreshIsRow
    <3> QED BY <3>1, <3>2
  <2> QED BY <1>0, <1>1, <1>2, <2>1, FreshIsRow DEF CalmInv, RunsFit
<1>4. JobsFit'
  BY <1>0, <1>2, JobsAsBefore
<1>5. TickJob' /\ TodoFits'
  BY <1>0 DEF CalmInv, TickJob, TodoFits, Awake
<1>6. /\ \A o \in DOMAIN rows : /\ rows'[o].status = rows[o].status /\ rows'[o].mark = rows[o].mark
                                /\ rows[o].enabled => rows'[o].enabled
      /\ e \notin DOMAIN rows => rows'[e].status = "idle"
  BY <1>1, FreshIsRow DEF Like
<1>7. KnownHolds'
  <2>1. ASSUME Awake, NEW o \in Events, Listed(o)
        PROVE  /\ o \in DOMAIN rows /\ rows'[o].mark = "none"
               /\ rows'[o].status = tick.known[o].status
               /\ tick.known[o].enabled => rows'[o].enabled
               /\ tick.known[o].status = "active" => tick.known[o].enabled
    <3>1. /\ o \in DOMAIN rows /\ rows[o].mark = "none" /\ rows[o].status = tick.known[o].status
          /\ tick.known[o].enabled => rows[o].enabled
          /\ tick.known[o].status = "active" => tick.known[o].enabled
      BY <2>1 DEF CalmInv, KnownHolds
    <3> QED BY <1>6, <3>1
  <2>2. ASSUME Awake, NEW o \in DOMAIN rows', ~Listed(o)
        PROVE  rows'[o].status # "active" \/ rows'[o].mark # "none"
    <3>1. CASE o \in DOMAIN rows
      BY <1>6, <2>2, <3>1 DEF CalmInv, KnownHolds
    <3>2. CASE o \notin DOMAIN rows
      BY <1>1, <1>6, <2>2, <3>2
    <3> QED BY <3>1, <3>2
  <2> QED BY <1>0, <1>1, <2>1, <2>2 DEF KnownHolds, Awake, Listed
<1>8. DisabledIsCancelled'
  <2> SUFFICES ASSUME NEW o \in DOMAIN rows', rows'[o].status = "active", rows'[o].mark = "none",
                      ~rows'[o].enabled
               PROVE  \E p \in Requests : Cancels(p, o)'
    BY DEF DisabledIsCancelled
  <2>1. o # e /\ o \in DOMAIN rows /\ rows'[o] = rows[o]
    BY <1>1
  <2>2. PICK p \in Requests : Cancels(p, o)
    BY <2>1 DEF CalmInv, DisabledIsCancelled
  <2>3. p # q
    BY <1>0, <2>2 DEF Cancels
  <2> QED BY <1>2, <2>2, <2>3, CancelStays
<1>9. NeverTogether'
  BY <1>1, <1>6, TogetherStays DEF CalmInv, Runs
<1> QED BY <1>3, <1>4, <1>5, <1>7, <1>8, <1>9 DEF CalmInv

LEMMA PutDisabledCalm ==
    ASSUME Shaped, CalmInv, NoneOverlaps', NEW q \in Requests, NEW e \in Targets, PutDisabled(q, e)
    PROVE  CalmInv'
<1>0. /\ IsTable(rows) /\ e \in Events /\ AsksShaped /\ asks[q].at = "new" /\ rows' = Upsert(e, FALSE)
      /\ UNCHANGED <<tick, job>>
  BY ShapedParts, SchedulerAssumption DEF PutDisabled
<1>1. /\ IsTable(rows') /\ DOMAIN rows' = DOMAIN rows \cup {e}
      /\ \A o \in DOMAIN rows : o # e => rows'[o] = rows[o]
      /\ Like(rows'[e], IF e \in DOMAIN rows THEN rows[e] ELSE Fresh)
  BY <1>0, UpsertIs
<1>2. /\ asks'[q].at = "asked" /\ asks'[q].state = Fresh /\ asks'[q].event = e
      /\ \A p \in Requests \ {q} : asks'[p] = asks[p]
  BY <1>0, AskIs DEF PutDisabled
<1>3. RunsFit'
  <2>1. RunFits(rows'[e])
    <3>1. CASE e \in DOMAIN rows
      BY <1>1, <3>1, LikeFits DEF CalmInv, RunsFit
    <3>2. CASE e \notin DOMAIN rows
      BY <1>1, <3>2, LikeFits, FreshIsRow
    <3> QED BY <3>1, <3>2
  <2> QED BY <1>0, <1>1, <1>2, <2>1, FreshIsRow DEF CalmInv, RunsFit
<1>4. JobsFit'
  BY <1>0, <1>2, JobsAsBefore
<1>5. TickJob' /\ TodoFits' /\ KnownHolds'
  <2>1. ~Awake
    BY <1>0, <1>2 DEF NoneOverlaps, Awake
  <2>2. job[Tick].kind = "none"
    BY <2>1 DEF CalmInv, TickJob
  <2> QED BY <1>0, <2>1, <2>2, AsleepKeeps
<1>6. /\ \A o \in DOMAIN rows : rows'[o].status = rows[o].status /\ rows'[o].mark = rows[o].mark
      /\ e \notin DOMAIN rows => rows'[e].status = "idle"
  BY <1>1, FreshIsRow DEF Like
<1>7. DisabledIsCancelled'
  <2> SUFFICES ASSUME NEW o \in DOMAIN rows', rows'[o].status = "active", rows'[o].mark = "none",
                      ~rows'[o].enabled
               PROVE  \E p \in Requests : Cancels(p, o)'
    BY DEF DisabledIsCancelled
  <2>1. CASE o = e
    BY <1>2, <2>1 DEF Cancels
  <2>2. CASE o # e
    <3>1. o \in DOMAIN rows /\ rows'[o] = rows[o]
      BY <1>1, <2>2
    <3>2. PICK p \in Requests : Cancels(p, o)
      BY <3>1 DEF CalmInv, DisabledIsCancelled
    <3>3. p # q
      BY <1>0, <3>2 DEF Cancels
    <3> QED BY <1>2, <3>2, <3>3, CancelStays
  <2> QED BY <2>1, <2>2
<1>8. NeverTogether'
  BY <1>1, <1>6, TogetherStays DEF CalmInv, Runs
<1> QED BY <1>3, <1>4, <1>5, <1>7, <1>8 DEF CalmInv

LEMMA DeleteCalm ==
    ASSUME Shaped, CalmInv, NoneOverlaps', NEW q \in Requests, NEW e \in Targets, Delete(q, e)
    PROVE  CalmInv'
<1>0. /\ e \in Events /\ AsksShaped /\ asks[q].at = "new" /\ UNCHANGED <<rows, tick, job>>
  BY ShapedParts, SchedulerAssumption DEF Delete
<1>1. /\ asks'[q].at = "asked" /\ asks'[q].state = Fresh
      /\ \A p \in Requests \ {q} : asks'[p] = asks[p]
  BY <1>0, AskIs DEF Delete
<1>2. RunsFit'
  BY <1>0, <1>1, FreshIsRow DEF CalmInv, RunsFit
<1>3. JobsFit'
  BY <1>0, <1>1, JobsAsBefore
<1>4. TickJob' /\ TodoFits' /\ KnownHolds'
  <2>1. ~Awake
    BY <1>0, <1>1 DEF NoneOverlaps, Awake
  <2>2. job[Tick].kind = "none"
    BY <2>1 DEF CalmInv, TickJob
  <2> QED BY <1>0, <2>1, <2>2, AsleepKeeps
<1>5. DisabledIsCancelled'
  <2> SUFFICES ASSUME NEW o \in DOMAIN rows, rows[o].status = "active", rows[o].mark = "none",
                      ~rows[o].enabled
               PROVE  \E p \in Requests : Cancels(p, o)'
    BY <1>0 DEF DisabledIsCancelled
  <2>1. PICK p \in Requests : Cancels(p, o)
    BY DEF CalmInv, DisabledIsCancelled
  <2>2. p # q
    BY <1>0, <2>1 DEF Cancels
  <2> QED BY <1>1, <2>1, <2>2, CancelStays
<1>6. NeverTogether'
  BY <1>0, TogetherStays DEF CalmInv, Runs
<1> QED BY <1>2, <1>3, <1>4, <1>5, <1>6 DEF CalmInv

\* A request that is not, or no longer, about an active event.
LEMMA CancelsStay ==
    ASSUME DisabledIsCancelled, NEW q \in Requests, \A p \in Requests \ {q} : asks'[p] = asks[p],
           \A o \in DOMAIN rows' :
               rows'[o].status = "active" /\ rows'[o].mark = "none" /\ ~rows'[o].enabled
                 => o \in DOMAIN rows /\ rows[o] = rows'[o] /\ (Cancels(q, o) => Cancels(q, o)')
    PROVE  DisabledIsCancelled'
<1> SUFFICES ASSUME NEW o \in DOMAIN rows', rows'[o].status = "active", rows'[o].mark = "none",
                    ~rows'[o].enabled
             PROVE  \E p \in Requests : Cancels(p, o)'
  BY DEF DisabledIsCancelled
<1>1. PICK p \in Requests : Cancels(p, o)
  BY DEF DisabledIsCancelled
<1>2. CASE p = q
  BY <1>1, <1>2
<1>3. CASE p # q
  BY <1>1, <1>3, CancelStays
<1> QED BY <1>2, <1>3

LEMMA ReadsCalm ==
    ASSUME Shaped, CalmInv, NoneOverlaps', NEW q \in Requests, RemovalReads(q)
    PROVE  CalmInv'
<1>0. /\ IsTable(rows) /\ AsksShaped /\ asks[q].at = "asked" /\ UNCHANGED <<rows, tick, job>>
      /\ ~Awake /\ job[Tick].kind = "none"
  BY ShapedParts, AskAsleep DEF RemovalReads
<1>1. CASE asks[q].event \in DOMAIN rows
  <2>1. PICK s \in Rows : s = rows[asks[q].event]
    BY <1>0, <1>1 DEF IsTable
  <2>2. asks' = [asks EXCEPT ![q].at = "marking", ![q].state = s]
    BY <1>1, <2>1 DEF RemovalReads
  <2>3. /\ asks'[q].at = "marking" /\ asks'[q].event = asks[q].event /\ asks'[q].state = s
        /\ \A p \in Requests \ {q} : asks'[p] = asks[p]
    BY <1>0, <2>1, <2>2, AskOn DEF Cancelling
  <2>4. RunFits(s)
    BY <1>1, <2>1 DEF CalmInv, RunsFit
  <2>5. RunsFit'
    BY <1>0, <2>3, <2>4 DEF CalmInv, RunsFit
  <2>6. DisabledIsCancelled'
    <3>1. ASSUME NEW o \in DOMAIN rows, rows[o].status = "active", Cancels(q, o)
          PROVE  Cancels(q, o)'
      <4>1. asks[q].event = o /\ s = rows[o]
        BY <2>1, <3>1 DEF Cancels
      <4>2. Landed(s)
        BY <2>4, <3>1, <4>1 DEF RunFits, Landed
      <4> QED BY <2>3, <4>1, <4>2 DEF Cancels, Landed
    <3> QED BY <1>0, <2>3, <3>1, CancelsStay DEF CalmInv
  <2>7. JobsFit' /\ NeverTogether'
    BY <1>0, <2>3, JobsAsBefore, TogetherStays DEF CalmInv, Runs
  <2> QED BY <1>0, <2>5, <2>6, <2>7, AsleepKeeps DEF CalmInv
<1>2. CASE asks[q].event \notin DOMAIN rows
  <2>1. /\ asks'[q].at = "done" /\ asks'[q].state = Fresh
        /\ \A p \in Requests \ {q} : asks'[p] = asks[p]
    BY <1>0, <1>2, AskedIs DEF RemovalReads
  <2>2. RunsFit'
    BY <1>0, <2>1, FreshIsRow DEF CalmInv, RunsFit
  <2>3. \A o \in DOMAIN rows : ~Cancels(q, o)
    BY <1>2 DEF Cancels
  <2>4. DisabledIsCancelled'
    BY <1>0, <2>1, <2>3, CancelsStay DEF CalmInv
  <2>5. JobsFit' /\ NeverTogether'
    BY <1>0, <2>1, JobsAsBefore, TogetherStays DEF CalmInv, Runs
  <2> QED BY <1>0, <2>2, <2>4, <2>5, AsleepKeeps DEF CalmInv
<1> QED BY <1>1, <1>2

LEMMA MarksCalm ==
    ASSUME Shaped, CalmInv, NoneOverlaps', NEW q \in Requests, RemovalMarks(q)
    PROVE  CalmInv'
<1> DEFINE e == asks[q].event
<1>1. /\ asks[q].at = "marking"
      /\ IsTable(rows') /\ DOMAIN rows' = DOMAIN rows
      /\ \A o \in DOMAIN rows : o # e => rows'[o] = rows[o]
      /\ e \in DOMAIN rows => /\ rows'[e].mark # "none"
                              /\ RunFits(asks[q].state) => RunFits(rows'[e])
      /\ asks'[q].at = "pending" /\ asks'[q].state = Fresh
      /\ asks'[q].event = e /\ \A p \in Requests \ {q} : asks'[p] = asks[p]
      /\ UNCHANGED <<tick, job>>
  BY MarksIs
<1>2. ~Awake /\ job[Tick].kind = "none"
  BY <1>1, AskAsleep
<1>3. \A o \in Events : Cancels(q, o) => o = e
  BY DEF Cancels
<1> HIDE DEF e
<1>4. RunsFit'
  BY <1>1, FreshIsRow DEF CalmInv, RunsFit
<1>5. DisabledIsCancelled'
  <2>1. ASSUME NEW o \in DOMAIN rows', rows'[o].mark = "none"
        PROVE  o \in DOMAIN rows /\ rows'[o] = rows[o] /\ ~Cancels(q, o)
    <3>1. o \in Events /\ o # e
      BY <1>1, <2>1 DEF IsTable
    <3> QED BY <1>1, <1>3, <3>1
  <2> QED BY <1>1, <2>1, CancelsStay DEF CalmInv
<1>6. NeverTogether'
  BY <1>1, TogetherStays DEF CalmInv, Runs
<1>7. JobsFit'
  BY <1>1, JobsAsBefore
<1> QED BY <1>1, <1>2, <1>4, <1>5, <1>6, <1>7, AsleepKeeps DEF CalmInv

LEMMA NothingCalm ==
    ASSUME Shaped, CalmInv, NoneOverlaps', NEW q \in Requests, NothingToRestore(q)
    PROVE  CalmInv'
<1>0. /\ IsTable(rows) /\ AsksShaped /\ asks[q].at = "marking" /\ ~Landed(asks[q].state)
      /\ UNCHANGED <<tick, job>> /\ Answered(q)
      /\ rows' = Without(asks[q].event) \/ rows' = rows
      /\ ~Awake /\ job[Tick].kind = "none"
  BY ShapedParts, AskAsleep DEF NothingToRestore
<1>1. /\ asks'[q].at = "done" /\ asks'[q].state = Fresh
      /\ \A p \in Requests \ {q} : asks'[p] = asks[p]
  BY <1>0, AskedIs
<1>2. DOMAIN rows' \subseteq DOMAIN rows /\ \A o \in DOMAIN rows' : rows'[o] = rows[o]
  <2>1. CASE rows' = rows
    BY <2>1
  <2>2. CASE rows' = Without(asks[q].event)
    BY <1>0, <2>2, WithoutIs
  <2> QED BY <1>0, <2>1, <2>2
<1>3. RunsFit'
  BY <1>0, <1>1, <1>2, FreshIsRow DEF CalmInv, RunsFit
<1>4. \A o : ~Cancels(q, o)
  BY <1>0 DEF Cancels
<1>5. DisabledIsCancelled'
  BY <1>1, <1>2, <1>4, CancelsStay DEF CalmInv
<1>6. NeverTogether'
  BY <1>2, TogetherStays DEF CalmInv, Runs
<1>7. JobsFit'
  BY <1>0, <1>1, JobsAsBefore
<1> QED BY <1>0, <1>3, <1>5, <1>6, <1>7, AsleepKeeps DEF CalmInv

LEMMA LeftCalm ==
    ASSUME Shaped, CalmInv, NoneOverlaps', NEW q \in Requests, RestoreLeft(q)
    PROVE  CalmInv'
<1>0. /\ AsksShaped /\ asks[q].at = "pending" /\ UNCHANGED <<rows, tick, job>>
      /\ ~Awake /\ job[Tick].kind = "none"
  BY ShapedParts, AskAsleep DEF RestoreLeft
<1>1. /\ asks'[q].at = "done" /\ asks'[q].state = Fresh
      /\ \A p \in Requests \ {q} : asks'[p] = asks[p]
  BY <1>0, AskedIs DEF RestoreLeft
<1>2. RunsFit'
  BY <1>0, <1>1, FreshIsRow DEF CalmInv, RunsFit
<1>3. \A o : ~Cancels(q, o)
  BY <1>0 DEF Cancels
<1>4. DisabledIsCancelled'
  BY <1>0, <1>1, <1>3, CancelsStay DEF CalmInv
<1>5. NeverTogether' /\ JobsFit'
  BY <1>0, <1>1, JobsAsBefore, TogetherStays DEF CalmInv, Runs
<1> QED BY <1>0, <1>2, <1>4, <1>5, AsleepKeeps DEF CalmInv

LEMMA RestoreCalm ==
    ASSUME Shaped, CalmInv, NoneOverlaps', NEW q \in Requests, RestoreStarts(q)
    PROVE  CalmInv'
<1> DEFINE e == asks[q].event
<1>0. /\ AsksShaped /\ asks[q].at = "pending" /\ e \in DOMAIN rows /\ rows[e].mark # "none"
      /\ \A b \in Actors \ {q} : job'[b] = job[b]
      /\ job'[q].kind = "settle" /\ job'[q].state = rows[e] /\ job'[q].failed = FALSE
      /\ job'[q].next.status = "idle" /\ RunFits(job'[q].next)
      /\ AskAt(q, "settling") /\ UNCHANGED <<rows, tick>>
  BY ShapedParts, RestoreStartsIs
<1>1. ~Awake /\ job[Tick].kind = "none" /\ q # Tick /\ Tick \in Actors
  BY <1>0, AskAsleep, SchedulerAssumption DEF Actors
<1>2. /\ asks'[q].at = "settling" /\ asks'[q].state = asks[q].state
      /\ \A p \in Requests \ {q} : asks'[p] = asks[p]
  BY <1>0, AskAtIs DEF Cancelling
<1> HIDE DEF e
<1>3. RunsFit'
  BY <1>0, <1>2 DEF CalmInv, RunsFit
<1>4. JobsFit'
  BY <1>0, <1>2 DEF CalmInv, JobsFit, Actors
<1>5. \A o : ~Cancels(q, o)
  BY <1>0 DEF Cancels
<1>6. DisabledIsCancelled'
  BY <1>0, <1>2, <1>5, CancelsStay DEF CalmInv
<1>7. NeverTogether'
  BY <1>0, TogetherStays DEF CalmInv, Runs
<1> QED BY <1>0, <1>1, <1>3, <1>4, <1>6, <1>7, AsleepKeeps DEF CalmInv

LEMMA SettledCalm ==
    ASSUME Shaped, CalmInv, NoneOverlaps', NEW a \in Actors, Settled(a)
    PROVE  CalmInv'
<1> DEFINE e == job[a].event
<1>0. Tick \in Actors /\ Tick \notin Requests /\ AsksShaped
  BY SchedulerAssumption, ShapedParts DEF Actors
<1>1. /\ job[a].kind = "settle"
      /\ IsTable(rows') /\ DOMAIN rows' \subseteq DOMAIN rows
      /\ \A o \in DOMAIN rows : o # e => o \in DOMAIN rows' /\ rows'[o] = rows[o]
      /\ e \in DOMAIN rows' /\ ~job[a].failed =>
            rows'[e].status = job[a].next.status /\ (RunFits(job[a].next) => RunFits(rows'[e]))
      /\ job' = [job EXCEPT ![a] = NoJob]
      /\ asks' = IF a = Tick THEN asks ELSE [asks EXCEPT ![a] = [NoAsk EXCEPT !.at = "done"]]
      /\ UNCHANGED tick
  BY SettledIs
<1>2. job'[a] = NoJob /\ \A b \in Actors \ {a} : job'[b] = job[b]
  BY <1>1, NoJobSet
<1>3. ~job[a].failed /\ job[a].next.status = "idle" /\ RunFits(job[a].next)
  BY <1>1 DEF CalmInv, JobsFit
<1>4. e \in DOMAIN rows' => rows'[e].status = "idle" /\ RunFits(rows'[e])
  BY <1>1, <1>3
<1>5. NeverTogether'
  BY <1>1, <1>4, TogetherStays DEF CalmInv, Runs
<1>6. CASE a = Tick
  <2>1. UNCHANGED asks
    BY <1>1, <1>6
  <2>2. Awake /\ tick.known[e].mark # "none"
    BY <1>1, <1>6 DEF CalmInv, TickJob
  <2> HIDE DEF e
  <2>3. RunsFit'
    BY <1>1, <1>4, <2>1 DEF CalmInv, RunsFit
  <2>4. JobsFit'
    <3>1. \A q \in Requests : job'[q] = job[q]
      BY <1>0, <1>2, <1>6 DEF Actors
    <3>2. \A b \in Actors : b # Tick => job'[b] = job[b]
      BY <1>2, <1>6
    <3> QED BY <1>2, <1>6, <2>1, <3>1, <3>2, NoJobIsJob DEF CalmInv, JobsFit
  <2>5. TickJob' /\ TodoFits'
    BY <1>1, <1>2, <1>6, NoJobIsJob DEF CalmInv, TickJob, TodoFits
  <2>6. KnownHolds'
    <3>1. \A o \in Events : Listed(o) => o # e /\ o \in DOMAIN rows' /\ rows'[o] = rows[o]
      BY <1>1, <2>2 DEF CalmInv, KnownHolds, Listed
    <3>2. \A o \in DOMAIN rows' : ~Listed(o) => rows'[o].status # "active" \/ rows'[o].mark # "none"
      BY <1>1, <1>4, <2>2 DEF CalmInv, KnownHolds
    <3> QED BY <1>1, <2>2, <3>1, <3>2 DEF CalmInv, KnownHolds, Awake, Listed
  <2>7. DisabledIsCancelled'
    <3>1. \A o \in DOMAIN rows' : rows'[o].status = "active" => o \in DOMAIN rows /\ rows'[o] = rows[o]
      BY <1>1, <1>4
    <3> QED BY <2>1, <3>1 DEF CalmInv, DisabledIsCancelled, Cancels
  <2> QED BY <1>5, <2>3, <2>4, <2>5, <2>6, <2>7 DEF CalmInv
<1>7. CASE a # Tick
  <2>1. a \in Requests /\ asks[a].at = "settling"
    BY <1>1, <1>7 DEF Actors, CalmInv, JobsFit
  <2>2. /\ asks'[a].at = "done" /\ asks'[a].state = Fresh
        /\ \A p \in Requests \ {a} : asks'[p] = asks[p]
    BY <1>0, <1>1, <1>7, <2>1, AskedIs DEF Answered
  <2>3. ~Awake /\ job[Tick].kind = "none"
    BY <2>1, AskAsleep
  <2> HIDE DEF e
  <2>4. RunsFit'
    BY <1>1, <1>4, <2>2, FreshIsRow DEF CalmInv, RunsFit
  <2>5. JobsFit'
    BY <1>2, <2>2, NoJobIsJob DEF CalmInv, JobsFit, Actors
  <2>6. \A o : ~Cancels(a, o)
    BY <2>1 DEF Cancels
  <2>7. DisabledIsCancelled'
    BY <1>1, <1>4, <2>1, <2>2, <2>6, CancelsStay DEF CalmInv
  <2> QED BY <1>0, <1>1, <1>2, <1>5, <1>7, <2>3, <2>4, <2>5, <2>7, AsleepKeeps DEF CalmInv
<1> QED BY <1>6, <1>7

LEMMA BeginsCalm ==
    ASSUME Shaped, CalmInv, NoneOverlaps', TickBegins
    PROVE  CalmInv'
<1>1. /\ tick.at = "asleep" /\ tick'.at = "settling" /\ tick'.known = rows
      /\ tick'.todo = {e \in DOMAIN rows : rows[e].mark # "none"}
      /\ UNCHANGED <<rows, job, asks>>
  BY DEF TickBegins
<1>2. job[Tick].kind = "none"
  BY <1>1 DEF CalmInv, TickJob, Awake
<1>3. RunsFit' /\ JobsFit'
  BY <1>1 DEF CalmInv, RunsFit, JobsFit
<1>4. TickJob' /\ TodoFits'
  BY <1>1, <1>2 DEF TickJob, TodoFits
<1>5. DisabledIsCancelled' /\ NeverTogether'
  BY <1>1, TogetherStays DEF CalmInv, DisabledIsCancelled, Cancels, Runs
<1>6. \A e \in DOMAIN rows : rows[e].status = "active" /\ rows[e].mark = "none" => rows[e].enabled
  <2>1. \A q \in Requests : asks[q].at \in {"new", "done"}
    BY <1>1 DEF NoneOverlaps, Awake
  <2> QED BY <2>1 DEF CalmInv, DisabledIsCancelled, Cancels
<1>7. KnownHolds'
  BY <1>1, <1>6 DEF KnownHolds, Listed
<1> QED BY <1>3, <1>4, <1>5, <1>7 DEF CalmInv

\* The tick goes on, and knows what it knew.
LEMMA TickGoesOn ==
    ASSUME CalmInv, NoneOverlaps', UNCHANGED <<rows, job, asks>>, tick'.known = tick.known,
           Awake, job[Tick] = NoJob, TodoFits'
    PROVE  CalmInv'
<1>1. RunsFit' /\ JobsFit'
  BY DEF CalmInv, RunsFit, JobsFit
<1>2. TickJob'
  BY NoJobIsJob DEF TickJob
<1>3. DisabledIsCancelled' /\ NeverTogether'
  BY TogetherStays DEF CalmInv, DisabledIsCancelled, Cancels, Runs
<1>4. KnownHolds'
  BY DEF CalmInv, KnownHolds, Listed
<1> QED BY <1>1, <1>2, <1>3, <1>4 DEF CalmInv

LEMMA EvaluatesCalm ==
    ASSUME Shaped, CalmInv, NoneOverlaps', NEW w \in SUBSET (Events \ Rules), TickEvaluates(w)
    PROVE  CalmInv'
<1>1. /\ tick.at = "settling" /\ job[Tick] = NoJob /\ UNCHANGED <<rows, job, asks>>
  BY DEF TickEvaluates
<1>2. PICK todo \in {{}, {e \in DOMAIN tick.known : Live(tick.known[e])}} :
         tick' = [tick EXCEPT !.at = "evaluating", !.window = w, !.todo = todo]
  BY DEF TickEvaluates
<1>3. tick' = [at |-> "evaluating", known |-> tick.known, todo |-> todo, window |-> w]
  BY <1>2 DEF Shaped
<1>4. TodoFits'
  BY <1>2, <1>3 DEF TodoFits, Live
<1> QED BY <1>1, <1>3, <1>4, TickGoesOn DEF Awake

LEMMA LeavesCalm ==
    ASSUME Shaped, CalmInv, NoneOverlaps', NEW e, TickLeavesRestore(e) \/ EventWaitsRetry(e)
    PROVE  CalmInv'
<1>1. /\ Awake /\ job[Tick] = NoJob /\ UNCHANGED <<rows, job, asks>> /\ TickDone(e)
  BY DEF TickLeavesRestore, EventWaitsRetry, TickAt, Awake
<1>2. /\ tick'.at = tick.at /\ tick'.known = tick.known /\ tick'.todo = tick.todo \ {e}
  BY <1>1, TodoShaped
<1>3. TodoFits'
  BY <1>2 DEF CalmInv, TodoFits
<1> QED BY <1>1, <1>2, <1>3, TickGoesOn

LEMMA EndsCalm ==
    ASSUME Shaped, CalmInv, NoneOverlaps', TickEnds
    PROVE  CalmInv'
<1>1. /\ job[Tick] = NoJob /\ tick' = Asleep /\ UNCHANGED <<rows, job, asks>>
  BY DEF TickEnds
<1>2. RunsFit' /\ JobsFit'
  BY <1>1 DEF CalmInv, RunsFit, JobsFit, Asleep
<1>3. TickJob' /\ TodoFits' /\ KnownHolds'
  BY <1>1, NoJobIsJob DEF TickJob, TodoFits, KnownHolds, Awake, Asleep
<1>4. DisabledIsCancelled' /\ NeverTogether'
  BY <1>1, TogetherStays DEF CalmInv, DisabledIsCancelled, Cancels, Runs
<1> QED BY <1>2, <1>3, <1>4 DEF CalmInv

LEMMA TickSettlesCalm ==
    ASSUME Shaped, CalmInv, NoneOverlaps', NEW e, TickSettles(e)
    PROVE  CalmInv'
<1>0. Tick \in Actors /\ Tick \notin Requests
  BY SchedulerAssumption DEF Actors
<1>1. /\ tick.at = "settling" /\ e \in tick.todo /\ e \in DOMAIN tick.known
      /\ \A b \in Actors \ {Tick} : job'[b] = job[b]
      /\ job'[Tick].event = e /\ job'[Tick].kind = "settle"
      /\ job'[Tick].state = tick.known[e] /\ job'[Tick].failed = FALSE
      /\ job'[Tick].next.status = "idle" /\ RunFits(job'[Tick].next)
      /\ TickDone(e) /\ UNCHANGED <<rows, asks>>
  BY TickSettlesIs
<1>2. /\ tick'.at = tick.at /\ tick'.known = tick.known /\ tick'.todo = tick.todo \ {e}
  BY <1>1, TodoShaped
<1>3. tick.known[e].mark # "none"
  BY <1>1 DEF CalmInv, TodoFits
<1>4. RunsFit'
  BY <1>1, <1>2 DEF CalmInv, RunsFit
<1>5. JobsFit'
  BY <1>0, <1>1, <1>3 DEF CalmInv, JobsFit, Actors
<1>6. TickJob' /\ TodoFits'
  BY <1>1, <1>2, <1>3 DEF CalmInv, TickJob, TodoFits, Awake
<1>7. KnownHolds'
  BY <1>1, <1>2 DEF CalmInv, KnownHolds, Awake, Listed
<1>8. DisabledIsCancelled' /\ NeverTogether'
  BY <1>1, TogetherStays DEF CalmInv, DisabledIsCancelled, Cancels, Runs
<1> QED BY <1>4, <1>5, <1>6, <1>7, <1>8 DEF CalmInv

\* Nothing is in the way of an event: what runs above it, or must be restored
\* for it, is none of its registers.
Clear(e) ==
    /\ tick.known[e].status # "active"
    /\ Pausers(tick.known, tick.window, e) = {}
    /\ e \notin Rules => Blockers(tick.known, e) = {}

\* What runs in the store, the tick knows of: it runs and is enabled.
LEMMA RunsKnown ==
    ASSUME Shaped, CalmInv, Awake, NEW o \in DOMAIN rows, Runs(o)
    PROVE  /\ o \in DOMAIN tick.known /\ Live(tick.known[o])
           /\ tick.known[o].status = "active" /\ Landed(tick.known[o])
<1>1. Listed(o)
  <2>1. \A x \in DOMAIN rows : Listed(x) \/ rows[x].status # "active" \/ rows[x].mark # "none"
    BY DEF CalmInv, KnownHolds
  <2> QED BY <2>1 DEF Runs
<1>2. o \in DOMAIN tick.known /\ tick.known[o].mark = "none"
  BY <1>1 DEF Listed
<1>3. tick.known[o].status = "active" /\ tick.known[o].enabled
  <2>1. o \in Events
    BY DEF Shaped, IsTable
  <2> QED BY <1>1, <1>2, <2>1 DEF CalmInv, KnownHolds, Runs
<1>4. RunFits(tick.known[o])
  BY <1>2 DEF CalmInv, RunsFit
<1> QED BY <1>2, <1>3, <1>4 DEF Live, RunFits, Landed

\* So a rule is clear to run only with no event above it running...
LEMMA RuleClear ==
    ASSUME Shaped, CalmInv, Awake, NEW u \in Rules, Clear(u),
           NEW w \in DOMAIN rows \ Rules, Runs(w), Shares(u, w), Rank[w] < Rank[u]
    PROVE  FALSE
<1>1. w \in DOMAIN tick.known /\ Live(tick.known[w]) /\ tick.known[w].status = "active"
  BY RunsKnown
<1>2. Rank[u] >= Rank[w]
  BY SchedulerAssumption DEF Shaped, IsTable
<1>3. w \in Pausers(tick.known, tick.window, u)
  BY <1>1, <1>2 DEF Pausers, Others
<1> QED BY <1>3 DEF Clear

\* ...and the event above, only with that rule at rest.
LEMMA EventClear ==
    ASSUME Shaped, CalmInv, Awake, NEW w \in DOMAIN tick.known \ Rules, Clear(w),
           NEW u \in Rules \cap DOMAIN rows, Runs(u), Shares(u, w)
    PROVE  FALSE
<1>1. /\ u \in DOMAIN tick.known /\ Live(tick.known[u]) /\ Landed(tick.known[u])
  BY RunsKnown
<1>2. ~Landed(tick.known[w])
  BY DEF Clear, CalmInv, RunsFit, RunFits
<1>3. Shares(w, u)
  BY DEF Shares
<1>4. u \in Blockers(tick.known, w)
  BY <1>1, <1>2, <1>3 DEF Blockers, Others, Clear
<1> QED BY <1>4 DEF Clear

LEMMA PersistsCalm ==
    ASSUME Shaped, CalmInv, NoneOverlaps', NEW e \in tick.todo, NEW n \in Rows,
           tick.at = "evaluating", Persists(e, n), n.mark = tick.known[e].mark, RunFits(n),
           n.status = "active" => tick.known[e].status = "active" \/ Clear(e),
           job'[Tick] = NoJob, \A b \in Actors \ {Tick} : job'[b] = job[b], UNCHANGED asks
    PROVE  CalmInv'
<1>0. Tick \in Actors /\ Tick \notin Requests /\ Awake /\ e \in DOMAIN tick.known /\ e \in Events
  BY SchedulerAssumption DEF Actors, Awake, Shaped, IsTable
<1>1. /\ DOMAIN rows' = DOMAIN rows
      /\ \A o \in DOMAIN rows : o # e => rows'[o] = rows[o]
      /\ e \in DOMAIN rows => Like(rows'[e], n) /\ rows'[e].enabled = rows[e].enabled
      /\ DOMAIN tick'.known = DOMAIN tick.known
      /\ \A o \in DOMAIN tick.known : o # e => tick'.known[o] = tick.known[o]
      /\ Like(tick'.known[e], n) /\ tick'.known[e].enabled = tick.known[e].enabled
      /\ tick'.at = tick.at /\ tick'.window = tick.window /\ tick'.todo = tick.todo \ {e}
  BY PersistsIs
<1>2. Live(tick.known[e])
  BY DEF CalmInv, TodoFits
<1>3. /\ e \in DOMAIN rows /\ rows[e].mark = "none" /\ rows[e].enabled
      /\ rows[e].status = tick.known[e].status
  BY <1>0, <1>2 DEF CalmInv, KnownHolds, Listed, Live
<1>4. RunsFit'
  <2>1. RunFits(rows'[e]) /\ RunFits(tick'.known[e])
    BY <1>1, <1>3, LikeFits
  <2> QED BY <1>1, <2>1 DEF CalmInv, RunsFit
<1>5. JobsFit'
  <2>1. \A q \in Requests : job'[q] = job[q]
    BY <1>0 DEF Actors
  <2>2. \A b \in Actors : b # Tick => job'[b] = job[b]
    OBVIOUS
  <2> QED BY <2>1, <2>2, NoJobIsJob DEF CalmInv, JobsFit
<1>6. TickJob'
  BY NoJobIsJob DEF TickJob
<1>7. TodoFits'
  <2>1. \A o \in tick.todo : o \in DOMAIN tick.known /\ Live(tick.known[o])
    BY DEF Shaped, CalmInv, TodoFits
  <2> QED BY <1>1, <2>1 DEF TodoFits
<1>8. /\ rows'[e].status = n.status /\ rows'[e].mark = "none" /\ rows'[e].enabled
      /\ tick'.known[e].status = n.status /\ tick'.known[e].mark = "none" /\ tick'.known[e].enabled
  BY <1>1, <1>2, <1>3 DEF Like, Live
<1>9. KnownHolds'
  <2>1. \A o \in Events : Listed(o)' => Listed(o)
    BY <1>1, <1>2 DEF Listed, Live
  <2>2. ASSUME NEW o \in Events, Listed(o)'
        PROVE  /\ o \in DOMAIN rows' /\ rows'[o].mark = "none"
               /\ rows'[o].status = tick'.known[o].status
               /\ tick'.known[o].enabled => rows'[o].enabled
               /\ tick'.known[o].status = "active" => tick'.known[o].enabled
    <3>1. CASE o = e
      BY <1>1, <1>3, <1>8, <3>1
    <3>2. CASE o # e
      <4>1. Listed(o) /\ o \in DOMAIN tick.known /\ tick'.known[o] = tick.known[o]
        BY <1>1, <2>1, <2>2, <3>2 DEF Listed
      <4>2. /\ o \in DOMAIN rows /\ rows[o].mark = "none" /\ rows[o].status = tick.known[o].status
            /\ tick.known[o].enabled => rows[o].enabled
            /\ tick.known[o].status = "active" => tick.known[o].enabled
        BY <1>0, <4>1 DEF CalmInv, KnownHolds
      <4> QED BY <1>1, <3>2, <4>1, <4>2
    <3> QED BY <3>1, <3>2
  <2>3. ASSUME NEW o \in DOMAIN rows', ~Listed(o)'
        PROVE  rows'[o].status # "active" \/ rows'[o].mark # "none"
    <3>1. o # e
      BY <1>0, <1>1, <1>8, <2>3 DEF Listed
    <3>2. ~Listed(o)
      BY <1>1, <2>3, <3>1 DEF Listed
    <3> QED BY <1>0, <1>1, <3>1, <3>2 DEF CalmInv, KnownHolds
  <2> QED BY <2>2, <2>3 DEF KnownHolds
<1>10. DisabledIsCancelled'
  <2>1. \A o \in DOMAIN rows' : ~rows'[o].enabled => o \in DOMAIN rows /\ rows'[o] = rows[o]
    BY <1>1, <1>8
  <2> QED BY <2>1 DEF CalmInv, DisabledIsCancelled, Cancels
<1>11. NeverTogether'
  <2> SUFFICES ASSUME NEW u \in Rules \cap DOMAIN rows', NEW w \in DOMAIN rows' \ Rules,
                      Shares(u, w), Rank[w] < Rank[u], Runs(u)', Runs(w)'
               PROVE  FALSE
    BY DEF NeverTogether, Shares
  <2>1. \A o \in DOMAIN rows : Runs(o)' /\ o # e => Runs(o)
    BY <1>1 DEF Runs
  <2>2. Runs(e)' => Runs(e) \/ Clear(e)
    BY <1>3, <1>8 DEF Runs
  <2>3. u \in DOMAIN rows /\ w \in DOMAIN rows /\ u # w
    BY <1>1
  <2>4. CASE Runs(u) /\ Runs(w)
    BY <2>3, <2>4 DEF CalmInv, NeverTogether
  <2>5. CASE u = e /\ Clear(e) /\ Runs(w)
    BY <1>0, <2>3, <2>5, RuleClear
  <2>6. CASE w = e /\ Clear(e) /\ Runs(u)
    BY <1>0, <2>3, <2>6, EventClear
  <2> QED BY <2>1, <2>2, <2>3, <2>4, <2>5, <2>6
<1> QED BY <1>4, <1>5, <1>6, <1>7, <1>9, <1>10, <1>11 DEF CalmInv

LEMMA HoldsCalm ==
    ASSUME Shaped, CalmInv, NoneOverlaps', NEW e, EventHolds(e)
    PROVE  CalmInv'
<1>1. PICK n \in Rows :
         /\ Persists(e, n) /\ n.mark = tick.known[e].mark
         /\ RunFits(tick.known[e]) => RunFits(n)
         /\ n.status = "active" => tick.known[e].status = "active"
         /\ e \in tick.todo /\ job[Tick] = NoJob
         /\ UNCHANGED <<inverter, job, settling, asks, mishaps, owner>>
  BY HoldsIs
<1>2. tick.at = "evaluating"
  BY DEF EventHolds, TickAt
<1>3. RunFits(n)
  BY <1>1 DEF CalmInv, RunsFit, Shaped
<1> QED BY <1>1, <1>2, <1>3, PersistsCalm

LEMMA DispatchedCalm ==
    ASSUME Shaped, CalmInv, NoneOverlaps', EventDispatched
    PROVE  CalmInv'
<1>0. Tick \in Actors
  BY DEF Actors
<1>1. PICK n \in Rows :
         /\ Persists(job[Tick].event, n)
         /\ ~job[Tick].failed => /\ n.status = job[Tick].next.status
                                 /\ n.mark = job[Tick].next.mark
                                 /\ \/ job[Tick].kind = "activate" /\ n.status # "active"
                                    \/ RunFits(job[Tick].next) => RunFits(n)
         /\ job[Tick].kind \in {"activate", "end"}
         /\ job' = [job EXCEPT ![Tick] = NoJob]
         /\ UNCHANGED <<inverter, settling, asks, mishaps, owner>>
  BY DispatchedIs
<1>2. PICK e : e = job[Tick].event
  OBVIOUS
<1>3. ~job[Tick].failed
  BY <1>0 DEF CalmInv, JobsFit
<1>4. /\ tick.at = "evaluating" /\ e \in tick.todo
      /\ job[Tick].next.mark = tick.known[e].mark /\ RunFits(job[Tick].next)
      /\ job[Tick].kind = "end" => job[Tick].next.status # "active"
      /\ job[Tick].kind = "activate" => job[Tick].next.status = "active" /\ Clear(e)
  BY <1>1, <1>2 DEF CalmInv, TickJob, Clear
<1>5. /\ n.mark = tick.known[e].mark /\ RunFits(n)
      /\ n.status = "active" => Clear(e)
  BY <1>1, <1>3, <1>4
<1>6. job'[Tick] = NoJob /\ \A b \in Actors \ {Tick} : job'[b] = job[b]
  BY <1>0, <1>1, NoJobSet
<1>7. Persists(e, n)
  BY <1>1, <1>2 DEF Persists, SetState
<1> QED BY <1>1, <1>4, <1>5, <1>6, <1>7, PersistsCalm

LEMMA DispatchesCalm ==
    ASSUME Shaped, CalmInv, NoneOverlaps', NEW e, EventDispatches(e)
    PROVE  CalmInv'
<1>0. Tick \in Actors /\ Tick \notin Requests
  BY SchedulerAssumption DEF Actors
<1>1. /\ e \in DOMAIN tick.known /\ e \in tick.todo /\ tick.at = "evaluating"
      /\ UNCHANGED <<inverter, rows, tick, settling, asks, mishaps, owner>>
      /\ \A b \in Actors \ {Tick} : job'[b] = job[b]
      /\ job'[Tick].event = e /\ job'[Tick].failed = FALSE
      /\ job'[Tick].next.mark = tick.known[e].mark
      /\ RunFits(tick.known[e]) => RunFits(job'[Tick].next)
      /\ job'[Tick].kind \in {"end", "activate"}
      /\ job'[Tick].kind = "end" => job'[Tick].next.status # "active"
      /\ job'[Tick].kind = "activate" =>
            /\ tick.known[e].status # "active" /\ job'[Tick].next.status = "active"
            /\ Pausers(tick.known, tick.window, e) = {}
            /\ e \notin Rules => Blockers(tick.known, e) = {}
  BY DispatchesIs
<1>2. RunFits(job'[Tick].next)
  BY <1>1 DEF CalmInv, RunsFit
<1>3. RunsFit' /\ TodoFits'
  BY <1>1 DEF CalmInv, RunsFit, TodoFits
<1>4. JobsFit'
  <2>1. \A q \in Requests : job'[q] = job[q]
    BY <1>0, <1>1 DEF Actors
  <2>2. \A b \in Actors : b # Tick => job'[b] = job[b]
    BY <1>1
  <2> QED BY <1>1, <2>1, <2>2 DEF CalmInv, JobsFit
<1>5. TickJob'
  BY <1>1, <1>2 DEF TickJob, Awake
<1>6. KnownHolds'
  BY <1>1 DEF CalmInv, KnownHolds, Awake, Listed
<1>7. DisabledIsCancelled' /\ NeverTogether'
  BY <1>1, TogetherStays DEF CalmInv, DisabledIsCancelled, Cancels, Runs
<1> QED BY <1>3, <1>4, <1>5, <1>6, <1>7 DEF CalmInv

LEMMA StepCalm ==
    ASSUME Shaped, CalmInv, NoneOverlaps', mishaps' = mishaps, Step
    PROVE  CalmInv'
<1>0. Tick \in Actors /\ \A q \in Requests : q \in Actors
  BY DEF Actors
<1>1. CASE TickStep
  BY <1>0, <1>1, BeginsCalm, EvaluatesCalm, DispatchedCalm, EndsCalm, CommandsCalm, SettledCalm,
     TickSettlesCalm, LeavesCalm, HoldsCalm, DispatchesCalm DEF TickStep
<1>2. ASSUME NEW q \in Requests, Serves(q)
      PROVE  CalmInv'
  BY <1>0, <1>2, ReadsCalm, MarksCalm, NothingCalm, RestoreCalm, LeftCalm, CommandsCalm, SettledCalm
     DEF Serves
<1>3. ASSUME NEW q \in Requests, NEW e \in Targets, Put(q, e) \/ PutDisabled(q, e) \/ Delete(q, e)
      PROVE  CalmInv'
  BY <1>3, PutCalm, PutDisabledCalm, DeleteCalm
<1>4. ASSUME NEW r \in Registers, NEW v \in Settings, OwnerSets(r, v)
      PROVE  CalmInv'
  <2>1. UNCHANGED <<rows, tick, job, settling, asks, mishaps>>
    BY <1>4 DEF OwnerSets
  <2> QED BY <2>1, OwnerCalm
<1>5. ~Restart
  <2>1. mishaps' # mishaps + 1
    BY DEF Shaped
  <2> QED BY <2>1 DEF Restart
<1> QED BY <1>1, <1>2, <1>3, <1>4, <1>5 DEF Step

-----------------------------------------------------------------------------
(* The theorems about restores and rules. *)

\* The invariant both theorems rest on: rows, tick, jobs and requests keep their
\* shape, an event is in the _settling of the one task that restores it, and while
\* nothing fails what a tick listed and decided is still so when it acts on it.
THEOREM SchedulerInvariant == Spec => []SchedulerInv
<1>1. Init => SchedulerInv
  BY ShapedInit, InitOne, CalmInit DEF SchedulerInv
<1>2. SchedulerInv /\ [Next]_vars => SchedulerInv'
  <2> SUFFICES ASSUME SchedulerInv, [Next]_vars
               PROVE  SchedulerInv'
    OBVIOUS
  <2>1. CASE Next
    <3>1. Shaped' /\ OneRestorer'
      BY <2>1, StepShaped, StepOne DEF SchedulerInv, Next
    <3>2. ASSUME Calm'
          PROVE  CalmInv'
      BY <2>1, <3>2, CalmBefore, StepCalm DEF SchedulerInv, Next
    <3> QED BY <3>1, <3>2 DEF SchedulerInv
  <2>2. CASE UNCHANGED vars
    <3>1. Shaped'
      BY <2>2, ShapedParts, RowsUnchanged, TickUnchanged, JobsUnchanged, AsksUnchanged
         DEF SchedulerInv, vars
    <3>2. OneRestorer' /\ (Calm' => Calm)
      BY <2>2 DEF SchedulerInv, vars, OneRestorer, RestoredByOne, Calm
    <3>3. CalmInv => NoneOverlaps'
      BY <2>2 DEF vars, CalmInv, NoneOverlaps, Awake
    <3>4. CalmInv => CalmInv'
      BY <2>2, <3>3, OwnerCalm DEF vars
    <3> QED BY <3>1, <3>2, <3>4 DEF SchedulerInv
  <2> QED BY <2>1, <2>2 DEF Next
<1> QED BY <1>1, <1>2, PTL DEF Spec

\* The restore of an event is never sent by two tasks at once (_settling in
\* event_scheduler_loop.py), whatever fails and whenever it restarts.
THEOREM NeverRestoredTwice == Spec => []RestoredByOne
<1>1. SchedulerInv => RestoredByOne
  BY DEF SchedulerInv, OneRestorer
<1> QED BY <1>1, SchedulerInvariant, PTL

\* A rule and the windowed event above it are not active together (_pauser and
\* _blocked_by_rule in event_evaluator.py), as long as nothing failed and no
\* request was under way in a tick.
THEOREM RulesStandDown == Spec => []RuleStandsDown
<1>1. SchedulerInv => RuleStandsDown
  BY DEF SchedulerInv, Calm, CalmInv, NeverTogether, RuleStandsDown, Runs, Live
<1> QED BY <1>1, SchedulerInvariant, PTL

-----------------------------------------------------------------------------
(* The second invariant: where the owner's settings are.  It holds until a *)
(* write may be lost track of (spoilt), where no command fails after it    *)
(* wrote and a sale writes one register.                                   *)

Tame == Faults \subseteq {"unwritten"} /\ \A e \in Sales : Len(Writes[e]) <= 1

\* How a row of an event may look: what it captured is the owner's.
Fits(own, e, s) ==
    /\ \A r \in Registers : /\ s.prior[r] \in {None, own[r]}
                            /\ s.prior[r] # None => r \in Range(Writes[e])
    /\ s.released => e \in Sales /\ s.status # "active"
    /\ s.mark # "none" => ~s.released

\* By a table of rows, an event has something to put back into a register.
Keeps(t, e, r) == e \in DOMAIN t /\ t[e].prior[r] # None /\ ~t[e].released
Claimed(t, r) == \E o \in DOMAIN t : t[o].prior[r] # None
Listing(t, e, r) == e \in DOMAIN t /\ t[e].prior[r] # None

\* The tick works alone, or one request does.
TakenUp(q) == asks[q].at \notin {"new", "done"}
OneAsk == \A p, q \in Requests : TakenUp(p) /\ TakenUp(q) => p = q
JobsOwned ==
    /\ \A q \in Requests : job[q].kind # "none" => asks[q].at = "settling" /\ job[q].kind = "settle"
    /\ job[Tick].kind # "none" => Awake
Alone == NoneOverlaps /\ OneAsk /\ JobsOwned

Typed ==
    /\ inverter \in [Registers -> Values] /\ owner \in [Registers -> Settings]
    /\ \A a \in Actors : job[a].read \in [Registers -> Values \cup {None}]

TableFits(own, t) == \A e \in DOMAIN t : Fits(own, e, t[e])

\* A request that goes on to mark an event has read its row as it is.
AskFits(t, k) == k.at = "marking" => k.event \in DOMAIN t /\ Like(t[k.event], k.state)

\* What the tick knows of an event it may still work on is so, and of all events
\* that have something to put back.
Accurate(t, k) ==
    k.at # "asleep" =>
        /\ \A e \in DOMAIN k.known :
              k.known[e].mark = "none" \/ (k.at = "settling" /\ e \in k.todo)
                => e \in DOMAIN t /\ Like(t[e], k.known[e])
        /\ \A e \in DOMAIN t, r \in Registers :
              t[e].prior[r] # None => e \in DOMAIN k.known /\ Like(t[e], k.known[e])
        /\ \A e \in k.todo : /\ k.at = "settling" => k.known[e].mark # "none"
                             /\ k.at = "evaluating" => k.known[e].mark = "none"

\* A restore writes what is the owner's or a holder's...
PlanFits(left, e, t, own) ==
    \A i \in DOMAIN left :
        LET r == left[i][1] IN
        /\ r \in Range(Writes[e]) /\ Claimed(t, r)
        /\ \A v \in left[i][2] : v = own[r] \/ (v \in Events \ {e} /\ Keeps(t, v, r))

\* ...and has still to write the registers that hold its event's values, or that
\* others hold.
LeftFor(left, r) == \E i \in DOMAIN left : left[i][1] = r
PlanSuffices(left, e, t, inv) ==
    /\ \A r \in Registers : inv[r] = e => LeftFor(left, r)
    /\ \A r \in Range(Writes[e]), o \in Events \ {e} :
          Keeps(t, o, r) /\ t[o].mark = "none" =>
              /\ inv[r] \in Events \ {e} \/ LeftFor(left, r)
              /\ \A i \in DOMAIN left : left[i][1] = r => left[i][2] \subseteq Events \ {e}

\* What an end stores: the run is dropped, or kept by a sale that is released.
EndsAs(e, kind, s, n) ==
    \/ n.prior = NoPriors /\ ~n.released
    \/ kind = "end" /\ e \in Sales /\ n.status = "pending" /\ n.prior = s.prior /\ n.released

Restoring(j, t, inv, own) ==
    /\ ~j.state.released
    /\ PlanFits(j.left, j.event, t, own)
    /\ ~j.failed => PlanSuffices(j.left, j.event, t, inv)
    /\ EndsAs(j.event, j.kind, j.state, j.next)

\* An activation: what it read is the owner's, or an event has the owner's.
Starting(j, inv, own, known) ==
    /\ \A i \in DOMAIN j.left : j.left[i][1] \in Range(Writes[j.event]) /\ j.left[i][2] = {j.event}
    /\ \A r \in Registers : j.read[r] # None =>
          /\ inv[r] = j.event /\ r \in Range(Writes[j.event])
          /\ \/ j.read[r] = own[r] \/ j.state.prior[r] # None
             \/ \E o \in Events \ {j.event} : Listing(known, o, r)
    /\ j.event \in Sales =>
          /\ DOMAIN j.left \subseteq {1}
          /\ j.failed \/ j.read # NoPriors => DOMAIN j.left = {}
          /\ j.failed => j.read = NoPriors
    /\ j.next.prior = j.state.prior /\ ~j.next.released

JobFits(j, t, inv, own, known) ==
    j.kind # "none" =>
        /\ j.event \in DOMAIN t /\ Like(t[j.event], j.state)
        /\ IF j.kind = "activate" THEN Starting(j, inv, own, known) ELSE Restoring(j, t, inv, own)

\* The tick's job is about an event it works on.
TickWorks(j, k) ==
    /\ j.kind = "settle" => /\ k.at = "settling" /\ j.event \in DOMAIN k.known \ k.todo
                            /\ k.known[j.event].mark # "none"
    /\ j.kind \in {"activate", "end"} =>
          k.at = "evaluating" /\ j.event \in k.todo /\ j.next.mark = "none"

OnRecord(t, inv, own, j) ==
    \A r \in Registers : inv[r] # own[r] =>
        \/ inv[r] \in Events /\ Keeps(t, inv[r], r)
        \/ j.kind = "activate" /\ inv[r] = j.event /\ j.read[r] # None

RecordInv ==
    /\ Alone /\ Typed
    /\ TableFits(owner, rows) /\ TableFits(owner, tick.known)
    /\ \A q \in Requests : AskFits(rows, asks[q])
    /\ Accurate(rows, tick)
    /\ \A a \in Actors : JobFits(job[a], rows, inverter, owner, tick.known)
    /\ TickWorks(job[Tick], tick)
    /\ OnRecord(rows, inverter, owner, job[Tick])

\* What a decision does with the values that were captured.
Records(known, e, d) ==
    LET s == known[e] IN
    /\ d.action = "hold" =>
          \/ d.next.prior = s.prior /\ d.next.released = s.released
          \/ ~Landed(s) /\ d.next.prior = NoPriors /\ ~d.next.released
    /\ d.action = "end" =>
          /\ ~s.released /\ EndsAs(e, "end", s, d.next)
          /\ \E landedOnly \in BOOLEAN : d.plan = RestorePlan(known, e, s, landedOnly)
    /\ d.action = "activate" =>
          /\ d.plan = [i \in DOMAIN Writes[e] |-> <<Writes[e][i], {e}>>]
          /\ d.next.prior = s.prior /\ ~d.next.released

LEMMA EndRecords ==
    ASSUME NEW known, NEW e, NEW t, NEW landedOnly \in BOOLEAN,
           ~known[e].released, EndsAs(e, "end", known[e], t)
    PROVE  Records(known, e, Ends(RestorePlan(known, e, known[e], landedOnly), t))
BY DEF Records, Ends

LEMMA HeldRecords ==
    ASSUME NEW known, NEW e, known[e] \in Rows, NEW x \in {"idle", "pending", known[e].status}
    PROVE  Records(known, e, Hold([known[e] EXCEPT !.status = x]))
<1> DEFINE t == [known[e] EXCEPT !.status = x]
<1>1. x \in {"idle", "pending", "active"}
  BY RowFields
<1>2. t.prior = known[e].prior /\ t.released = known[e].released
  BY <1>1, StatusSet
<1> HIDE DEF t
<1>3. Records(known, e, Hold(t))
  BY <1>2 DEF Records, Hold
<1> QED BY <1>3 DEF t

LEMMA DropIs ==
    ASSUME NEW s \in Rows
    PROVE  /\ DropRun(s) \in Rows /\ DropRun(s).status = s.status /\ ~DropRun(s).released
           /\ DropRun(s).mark = s.mark /\ DropRun(s).prior = NoPriors
<1> DEFINE u == [s EXCEPT !.prior = NoPriors]
           t == [u EXCEPT !.released = FALSE]
<1>1. u \in Rows
  BY NoPriorsTyped, PriorSet
<1>2. DropRun(s) = t
  BY DEF DropRun
<1> HIDE DEF u
<1>3. t.released = FALSE
  BY <1>1, ReleasedSet
<1> HIDE DEF t
<1> QED BY <1>2, <1>3, DropFits

LEMMA DroppedRecords ==
    ASSUME NEW known, NEW e, known[e] \in Rows, ~known[e].released, NEW landedOnly \in BOOLEAN
    PROVE  Records(known, e, Ends(RestorePlan(known, e, known[e], landedOnly),
                                  [DropRun(known[e]) EXCEPT !.status = "idle"]))
<1> DEFINE u == DropRun(known[e])
           t == [u EXCEPT !.status = "idle"]
<1>1. u \in Rows /\ u.prior = NoPriors /\ ~u.released
  BY DropIs
<1> HIDE DEF u
<1>2. EndsAs(e, "end", known[e], t)
  BY <1>1, StatusSet DEF EndsAs
<1> HIDE DEF t
<1>3. Records(known, e, Ends(RestorePlan(known, e, known[e], landedOnly), t))
  BY <1>2, EndRecords
<1> QED BY <1>3 DEF t, u

LEMMA LandedKeeps ==
    ASSUME NEW s \in Rows, Landed(s)
    PROVE  ~s.released
BY DEF Landed

LEMMA ActivateRecords ==
    ASSUME NEW known, NEW e, known[e] \in Rows
    PROVE  Records(known, e, Activates(e, known[e]))
<1> DEFINE s == known[e]
           u == [s EXCEPT !.status = "active"]
           t == [u EXCEPT !.released = FALSE]
           plan == [i \in DOMAIN Writes[e] |-> <<Writes[e][i], {e}>>]
<1>1. u \in Rows /\ u.prior = s.prior
  BY StatusSet
<1>2. /\ Activates(e, s).next = t /\ Activates(e, s).action = "activate"
      /\ Activates(e, s).plan = plan
  BY DEF Activates
<1> HIDE DEF u
<1>3. t.prior = s.prior /\ t.released = FALSE
  BY <1>1, ReleasedSet
<1> HIDE DEF t
<1> QED BY <1>2, <1>3 DEF Records

LEMMA ModeRecords ==
    ASSUME NEW known, NEW e, known[e] \in Rows, NEW d \in Mode(known, e, known[e]),
           known[e].released => known[e].status # "active"
    PROVE  Records(known, e, d)
<1> DEFINE s == known[e]
<1>1. CASE d = Hold(s)
  BY <1>1 DEF Records, Hold
<1>2. CASE d = Activates(e, s)
  BY <1>2, ActivateRecords
<1>3. CASE s.status = "active" /\ e \in Sales
           /\ d = Ends(RestorePlan(known, e, s, FALSE),
                       [s EXCEPT !.status = "pending", !.released = TRUE])
  <2> DEFINE u == [s EXCEPT !.status = "pending"]
             t == [u EXCEPT !.released = TRUE]
  <2>1. u \in Rows /\ u.status = "pending" /\ u.prior = s.prior
    BY StatusSet
  <2>2. d = Ends(RestorePlan(known, e, s, FALSE), t)
    BY <1>3
  <2> HIDE DEF u
  <2>3. t.status = "pending" /\ t.released = TRUE /\ t.prior = s.prior
    <3>1. TRUE \in BOOLEAN
      OBVIOUS
    <3> QED BY <2>1, <3>1, ReleasedSet
  <2> HIDE DEF t
  <2>4. EndsAs(e, "end", s, t)
    BY <1>3, <2>3 DEF EndsAs
  <2> QED BY <1>3, <2>2, <2>4, EndRecords
<1>4. CASE s.status = "active"
           /\ d = Ends(RestorePlan(known, e, s, FALSE),
                       [s EXCEPT !.status = "idle", !.prior = NoPriors])
  <2> DEFINE u == [s EXCEPT !.status = "idle"]
             t == [u EXCEPT !.prior = NoPriors]
  <2>1. u \in Rows /\ u.released = s.released
    BY StatusSet
  <2>2. d = Ends(RestorePlan(known, e, s, FALSE), t)
    BY <1>4
  <2> HIDE DEF u
  <2>3. t.released = s.released /\ t.prior = NoPriors
    BY <2>1, NoPriorsTyped, PriorSet
  <2> HIDE DEF t
  <2>4. EndsAs(e, "end", s, t)
    BY <1>4, <2>3 DEF EndsAs
  <2> QED BY <1>4, <2>2, <2>4, EndRecords
<1>5. ASSUME NEW x \in {"idle", "pending", s.status}, d = Hold([s EXCEPT !.status = x])
      PROVE  Records(known, e, d)
  BY <1>5, HeldRecords
<1> QED BY <1>1, <1>2, <1>3, <1>4, <1>5 DEF Mode, SaleMode, ConditionMode

LEMMA UndoRecords ==
    ASSUME NEW known, NEW e, known[e] \in Rows, NEW d, d.next \in Rows, Records(known, e, d)
    PROVE  Records(known, e, UndoPartial(known, e, known[e], d))
<1> DEFINE s == known[e]
<1>1. CASE d.action = "hold" /\ s.status # "active" /\ Landed(s)
  <2> DEFINE u == d.next
             t == [u EXCEPT !.prior = NoPriors]
  <2>1. UndoPartial(known, e, s, d) = Ends(RestorePlan(known, e, s, TRUE), t)
    BY <1>1 DEF UndoPartial
  <2>2. u \in Rows /\ ~u.released /\ ~s.released
    BY <1>1, LandedKeeps DEF Records
  <2> HIDE DEF u
  <2>3. ~t.released /\ t.prior = NoPriors
    BY <2>2, NoPriorsTyped, PriorSet
  <2> HIDE DEF t
  <2>4. EndsAs(e, "end", s, t)
    BY <2>3 DEF EndsAs
  <2> QED BY <2>1, <2>2, <2>4, EndRecords
<1>2. CASE ~(d.action = "hold" /\ s.status # "active" /\ Landed(s))
  BY <1>2 DEF UndoPartial
<1> QED BY <1>1, <1>2

LEMMA PausedRecords ==
    ASSUME NEW known, NEW e, known[e] \in Rows
    PROVE  Records(known, e, Paused(known, e, known[e]))
<1>1. (known[e].status # "active") \in BOOLEAN
  OBVIOUS
<1> QED BY <1>1, DroppedRecords, LandedKeeps, HeldRecords DEF Paused

LEMMA RestoreRecords ==
    ASSUME NEW known, NEW e, known[e] \in Rows, ~known[e].released
    PROVE  Records(known, e, Restore(known, e, known[e]))
<1>1. (known[e].status # "active") \in BOOLEAN
  OBVIOUS
<1> QED BY <1>1, DroppedRecords DEF Restore

LEMMA OutRecords ==
    ASSUME NEW known, NEW e, known[e] \in Rows
    PROVE  Records(known, e, OutOfWindow(known, e, known[e]))
<1>1. CASE Landed(known[e])
  BY <1>1, RestoreRecords, LandedKeeps DEF OutOfWindow
<1>2. CASE ~Landed(known[e])
  <2> DEFINE u == DropRun(known[e])
             x == IF u.status = "pending" THEN "idle" ELSE u.status
             t == [u EXCEPT !.status = x]
  <2>1. u \in Rows /\ u.prior = NoPriors /\ ~u.released
    BY DropIs
  <2>2. OutOfWindow(known, e, known[e]) = Hold(t)
    BY <1>2 DEF OutOfWindow
  <2> HIDE DEF u
  <2>3. x \in {"idle", "pending", "active"}
    BY <2>1, RowFields
  <2> HIDE DEF x
  <2>4. t.prior = NoPriors /\ ~t.released
    BY <2>1, <2>3, StatusSet
  <2> HIDE DEF t
  <2> QED BY <1>2, <2>2, <2>4 DEF Records, Hold
<1> QED BY <1>1, <1>2

LEMMA DecisionsRecord ==
    ASSUME NEW known, NEW window, NEW e, known[e] \in Rows, NEW d \in Decisions(known, window, e),
           known[e].released => known[e].status # "active"
    PROVE  Records(known, e, d)
<1> DEFINE s == known[e]
<1>1. CASE Pausers(known, window, e) # {}
  <2>1. d = Paused(known, e, s)
    BY <1>1 DEF Decisions
  <2> QED BY <2>1, PausedRecords
<1>2. CASE Pausers(known, window, e) = {} /\ (e \in Rules \/ (e \in window /\ Blockers(known, e) = {}))
  <2>1. PICK m \in Mode(known, e, s) : d = UndoPartial(known, e, s, m)
    BY <1>2 DEF Decisions
  <2>2. Records(known, e, m)
    BY ModeRecords
  <2>3. m.next \in Rows
    BY <1>2, ModeDecides DEF Decides
  <2> QED BY <2>1, <2>2, <2>3, UndoRecords
<1>3. CASE Pausers(known, window, e) = {} /\ e \notin Rules /\ e \in window /\ Blockers(known, e) # {}
  <2> DEFINE x == IF StandsDown(known, e) THEN "idle" ELSE s.status
  <2>1. x \in {"idle", "pending", s.status} /\ d = Hold([s EXCEPT !.status = x])
    BY <1>3 DEF Decisions, Blocked
  <2> HIDE DEF x
  <2> QED BY <2>1, HeldRecords
<1>4. CASE Pausers(known, window, e) = {} /\ e \notin Rules /\ e \notin window
  <2>1. d = OutOfWindow(known, e, s)
    BY <1>4 DEF Decisions
  <2> QED BY <2>1, OutRecords
<1> QED BY <1>1, <1>2, <1>3, <1>4

\* A plan has the registers for which there is something to put back.
LEMMA PlanIs ==
    ASSUME NEW known, NEW e, NEW s, NEW landedOnly, ~s.released
    PROVE  LET p == RestorePlan(known, e, s, landedOnly) IN
           /\ \A i \in DOMAIN p : /\ i \in DOMAIN Writes[e] /\ p[i][1] = Writes[e][i]
                                  /\ p[i][2] = BackTo(known, e, s, Writes[e][i]) /\ p[i][2] # {}
           /\ \A i \in DOMAIN Writes[e] : BackTo(known, e, s, Writes[e][i]) # {} => i \in DOMAIN p
BY DEF RestorePlan

LEMMA RangeIs ==
    ASSUME NEW e \in Events
    PROVE  /\ Range(Writes[e]) \subseteq Registers
           /\ \A i \in DOMAIN Writes[e] : Writes[e][i] \in Range(Writes[e])
           /\ \A r \in Range(Writes[e]) : \E i \in DOMAIN Writes[e] : Writes[e][i] = r
<1>1. Writes[e] \in Seq(Registers)
  BY SchedulerAssumption
<1>2. Writes[e] \in [DOMAIN Writes[e] -> Registers]
  BY <1>1
<1> QED BY <1>2 DEF Range

\* The rows a decision is made from say of the stored ones what a plan needs.
Source(t, known) ==
    /\ \A o \in DOMAIN known : known[o].mark = "none" => o \in DOMAIN t /\ Like(t[o], known[o])
    /\ \A o \in DOMAIN t, r \in Registers :
          t[o].prior[r] # None => o \in DOMAIN known /\ Like(t[o], known[o])

LEMMA HoldersKeep ==
    ASSUME IsTable(rows), NEW known, Source(rows, known), NEW e, NEW r,
           NEW o \in Holders(known, e, r)
    PROVE  o \in Events \ {e} /\ Keeps(rows, o, r)
BY DEF Holders, Others, Source, Like, Keeps, IsTable

LEMMA KeepersHold ==
    ASSUME TableFits(owner, rows), NEW known, Source(rows, known), NEW e, NEW r \in Registers,
           NEW o \in Events \ {e}, Keeps(rows, o, r), rows[o].mark = "none"
    PROVE  o \in Holders(known, e, r)
BY DEF Holders, Others, Source, Like, Keeps, TableFits, Fits

LEMMA PlanRestores ==
    ASSUME IsTable(rows), TableFits(owner, rows), NEW known, Source(rows, known),
           \A r \in Registers : inverter[r] \in Events => Keeps(rows, inverter[r], r),
           NEW e \in DOMAIN rows, NEW s, Like(rows[e], s), ~s.released, NEW landedOnly
    PROVE  /\ PlanFits(RestorePlan(known, e, s, landedOnly), e, rows, owner)
           /\ PlanSuffices(RestorePlan(known, e, s, landedOnly), e, rows, inverter)
<1> DEFINE p == RestorePlan(known, e, s, landedOnly)
<1>1. /\ \A i \in DOMAIN p : /\ i \in DOMAIN Writes[e] /\ p[i][1] = Writes[e][i]
                             /\ p[i][2] = BackTo(known, e, s, Writes[e][i]) /\ p[i][2] # {}
      /\ \A i \in DOMAIN Writes[e] : BackTo(known, e, s, Writes[e][i]) # {} => i \in DOMAIN p
  BY PlanIs
<1> HIDE DEF p
<1>2. /\ e \in Events /\ Range(Writes[e]) \subseteq Registers
      /\ \A i \in DOMAIN Writes[e] : Writes[e][i] \in Range(Writes[e])
      /\ \A r \in Range(Writes[e]) : \E i \in DOMAIN Writes[e] : Writes[e][i] = r
  BY RangeIs DEF IsTable
<1>3. s.prior = rows[e].prior /\ ~rows[e].released /\ Fits(owner, e, rows[e])
  BY DEF Like, TableFits
<1>4. ASSUME NEW r \in Registers, NEW v \in BackTo(known, e, s, r)
      PROVE  /\ Claimed(rows, r)
             /\ v = owner[r] \/ (v \in Events \ {e} /\ Keeps(rows, v, r))
  <2>1. CASE Holders(known, e, r) # {}
    <3>1. v \in Events \ {e} /\ Keeps(rows, v, r)
      BY <1>4, <2>1, HoldersKeep DEF BackTo
    <3> QED BY <3>1 DEF Keeps, Claimed
  <2>2. CASE Holders(known, e, r) = {}
    <3>1. v = rows[e].prior[r] /\ v # None
      BY <1>3, <1>4, <2>2 DEF BackTo
    <3> QED BY <1>3, <3>1 DEF Claimed, Fits
  <2> QED BY <2>1, <2>2
<1>5. PlanFits(p, e, rows, owner)
  <2> SUFFICES ASSUME NEW i \in DOMAIN p
               PROVE  /\ p[i][1] \in Range(Writes[e]) /\ Claimed(rows, p[i][1])
                      /\ \A v \in p[i][2] : \/ v = owner[p[i][1]]
                                            \/ v \in Events \ {e} /\ Keeps(rows, v, p[i][1])
    BY DEF PlanFits
  <2>1. PICK r \in Registers : /\ r = p[i][1] /\ r \in Range(Writes[e])
                               /\ p[i][2] = BackTo(known, e, s, r) /\ p[i][2] # {}
    BY <1>1, <1>2
  <2>2. \A v \in p[i][2] : /\ Claimed(rows, r)
                           /\ v = owner[r] \/ (v \in Events \ {e} /\ Keeps(rows, v, r))
    BY <1>4, <2>1
  <2> QED BY <2>1, <2>2
<1>6. ASSUME NEW r \in Range(Writes[e]), BackTo(known, e, s, r) # {}
      PROVE  LeftFor(p, r)
  BY <1>1, <1>2, <1>6 DEF LeftFor
<1>7. ASSUME NEW r \in Registers, inverter[r] = e
      PROVE  LeftFor(p, r)
  <2>1. Keeps(rows, e, r)
    BY <1>2, <1>7
  <2>2. s.prior[r] # None /\ r \in Range(Writes[e])
    BY <1>3, <2>1 DEF Keeps, Fits
  <2>3. BackTo(known, e, s, r) # {}
    BY <2>2 DEF BackTo
  <2> QED BY <1>6, <2>2, <2>3
<1>8. ASSUME NEW r \in Range(Writes[e]), NEW o \in Events \ {e}, Keeps(rows, o, r),
             rows[o].mark = "none"
      PROVE  /\ LeftFor(p, r)
             /\ \A i \in DOMAIN p : p[i][1] = r => p[i][2] \subseteq Events \ {e}
  <2>1. r \in Registers
    BY <1>2
  <2>2. o \in Holders(known, e, r)
    BY <1>8, <2>1, KeepersHold
  <2>3. BackTo(known, e, s, r) = Holders(known, e, r)
    BY <2>2 DEF BackTo
  <2>4. LeftFor(p, r)
    BY <1>6, <2>2, <2>3
  <2>5. Holders(known, e, r) \subseteq Events \ {e}
    BY HoldersKeep
  <2> QED BY <1>1, <2>3, <2>4, <2>5
<1>9. PlanSuffices(p, e, rows, inverter)
  BY <1>7, <1>8 DEF PlanSuffices
<1> QED BY <1>5, <1>9 DEF p

\* The two tables decisions are made from: the store's and the tick's.
LEMMA RowsSource ==
    ASSUME IsTable(rows)
    PROVE  Source(rows, rows)
BY DEF Source, Like, IsTable

LEMMA KnownSource ==
    ASSUME Accurate(rows, tick), Awake
    PROVE  Source(rows, tick.known)
BY DEF Source, Accurate, Awake

\* With no activation under way, a value of an event is one it is to undo.
LEMMA ValueKept ==
    ASSUME Typed, OnRecord(rows, inverter, owner, job[Tick]), job[Tick].kind # "activate"
    PROVE  \A r \in Registers : inverter[r] \in Events => Keeps(rows, inverter[r], r)
<1> SUFFICES ASSUME NEW r \in Registers, inverter[r] \in Events
             PROVE  Keeps(rows, inverter[r], r)
  OBVIOUS
<1>1. inverter[r] # owner[r]
  BY SchedulerAssumption DEF Typed
<1> QED BY <1>1 DEF OnRecord

\* A job that starts to restore.
LEMMA StartsRestoring ==
    ASSUME IsTable(rows), TableFits(owner, rows), NEW known, Source(rows, known),
           \A r \in Registers : inverter[r] \in Events => Keeps(rows, inverter[r], r),
           NEW j, j.event \in DOMAIN rows, Like(rows[j.event], j.state), ~j.state.released,
           \E landedOnly \in BOOLEAN : j.left = RestorePlan(known, j.event, j.state, landedOnly),
           j.kind \in {"end", "settle"}, EndsAs(j.event, j.kind, j.state, j.next), NEW k
    PROVE  JobFits(j, rows, inverter, owner, k)
<1>1. PICK landedOnly \in BOOLEAN : j.left = RestorePlan(known, j.event, j.state, landedOnly)
  OBVIOUS
<1>2. PlanFits(j.left, j.event, rows, owner) /\ PlanSuffices(j.left, j.event, rows, inverter)
  BY <1>1, PlanRestores
<1>3. Restoring(j, rows, inverter, owner)
  BY <1>2 DEF Restoring
<1> QED BY <1>3 DEF JobFits

-----------------------------------------------------------------------------
(* The steps of the requests, and what leaves the record as it is. *)

\* While no write may be lost track of, no request is under way in a tick or
\* beside another, and no restart cut an activation short.
LEMMA UnspoiltBefore ==
    ASSUME Spoils, spoilt' = {}
    PROVE  spoilt = {} /\ NoneOverlaps' /\ OneAsk' /\ ~Cut
<1>1. /\ spoilt \subseteq spoilt' /\ (Overlap' => "overlap" \in spoilt')
      /\ (Beside' => "beside" \in spoilt') /\ (Cut => "cut" \in spoilt')
  BY Zenon DEF Spoils
<1>2. spoilt = {} /\ ~Overlap' /\ ~Beside' /\ ~Cut
  BY <1>1
<1>3. NoneOverlaps'
  BY <1>2 DEF Overlap, NoneOverlaps
<1>4. OneAsk'
  BY <1>2 DEF Beside, OneAsk, TakenUp
<1> QED BY <1>2, <1>3, <1>4

\* What an activation read aside, a job does not depend on what the tick knows.
LEMMA KnownAside ==
    ASSUME NEW j, NEW k, NEW l, JobFits(j, rows, inverter, owner, k), j.kind # "activate"
    PROVE  JobFits(j, rows, inverter, owner, l)
BY DEF JobFits

LEMMA NoJobFits ==
    ASSUME NEW j, j.kind = "none", NEW t, NEW k
    PROVE  JobFits(j, t, inverter, owner, k)
BY DEF JobFits

\* Requests and the tick go on; inverter, rows and jobs are as they were.
LEMMA SameRecord ==
    ASSUME RecordInv, NoneOverlaps', OneAsk', JobsOwned', UNCHANGED <<inverter, rows, owner, job>>,
           TableFits(owner, tick'.known), tick'.known = tick.known \/ job[Tick].kind = "none",
           Accurate(rows, tick'), TickWorks(job[Tick], tick'),
           \A q \in Requests : AskFits(rows, asks'[q])
    PROVE  RecordInv'
<1>1. Alone' /\ Typed'
  BY DEF RecordInv, Alone, Typed
<1>2. ASSUME NEW a \in Actors
      PROVE  JobFits(job[a], rows, inverter, owner, tick'.known)
  <2>1. JobFits(job[a], rows, inverter, owner, tick.known)
    BY DEF RecordInv
  <2>2. tick'.known = tick.known \/ job[a].kind # "activate"
    BY DEF RecordInv, Alone, JobsOwned, Actors
  <2> QED BY <2>1, <2>2, KnownAside
<1> QED BY <1>1, <1>2 DEF RecordInv

\* A request that goes on while the tick is as it was.
LEMMA AskRecord ==
    ASSUME RecordInv, NoneOverlaps', OneAsk', UNCHANGED <<inverter, rows, owner, job, tick>>,
           NEW q \in Requests, asks[q].at # "settling", AskFits(rows, asks'[q]),
           \A p \in Requests \ {q} : asks'[p] = asks[p]
    PROVE  RecordInv'
<1>1. JobsOwned'
  BY DEF RecordInv, Alone, JobsOwned, Awake
<1>2. \A p \in Requests : AskFits(rows, asks'[p])
  BY DEF RecordInv
<1> QED BY <1>1, <1>2, SameRecord DEF RecordInv

LEMMA DeleteRecord ==
    ASSUME Shaped, RecordInv, NoneOverlaps', OneAsk', NEW q \in Requests, NEW e \in Targets,
           Delete(q, e)
    PROVE  RecordInv'
<1>1. /\ e \in Events /\ AsksShaped /\ asks[q].at = "new"
      /\ UNCHANGED <<inverter, rows, tick, job, owner>>
  BY ShapedParts, SchedulerAssumption DEF Delete
<1>2. asks'[q].at = "asked" /\ \A p \in Requests \ {q} : asks'[p] = asks[p]
  BY <1>1, AskIs DEF Delete
<1>3. AskFits(rows, asks'[q])
  BY <1>2 DEF AskFits
<1> QED BY <1>1, <1>2, <1>3, AskRecord

LEMMA ReadsRecord ==
    ASSUME Shaped, RecordInv, NoneOverlaps', OneAsk', NEW q \in Requests, RemovalReads(q)
    PROVE  RecordInv'
<1>1. /\ AsksShaped /\ IsTable(rows) /\ asks[q].at = "asked"
      /\ UNCHANGED <<inverter, rows, tick, job, owner>>
  BY ShapedParts DEF RemovalReads
<1>2. CASE asks[q].event \in DOMAIN rows
  <2>1. PICK s \in Rows : s = rows[asks[q].event]
    BY <1>1, <1>2 DEF IsTable
  <2>2. asks' = [asks EXCEPT ![q].at = "marking", ![q].state = s]
    BY <1>2, <2>1 DEF RemovalReads
  <2>3. /\ asks'[q].event = asks[q].event /\ asks'[q].state = s
        /\ \A p \in Requests \ {q} : asks'[p] = asks[p]
    BY <1>1, <2>2, AskOn DEF Cancelling
  <2>4. AskFits(rows, asks'[q])
    BY <1>2, <2>1, <2>3 DEF AskFits, Like
  <2> QED BY <1>1, <2>3, <2>4, AskRecord
<1>3. CASE asks[q].event \notin DOMAIN rows
  <2>1. asks'[q].at = "done" /\ \A p \in Requests \ {q} : asks'[p] = asks[p]
    BY <1>1, <1>3, AskedIs DEF RemovalReads
  <2>2. AskFits(rows, asks'[q])
    BY <2>1 DEF AskFits
  <2> QED BY <1>1, <2>1, <2>2, AskRecord
<1> QED BY <1>2, <1>3

LEMMA LeftRecord ==
    ASSUME Shaped, RecordInv, NoneOverlaps', OneAsk', NEW q \in Requests, RestoreLeft(q)
    PROVE  RecordInv'
<1>1. AsksShaped /\ asks[q].at = "pending" /\ UNCHANGED <<inverter, rows, tick, job, owner>>
  BY ShapedParts DEF RestoreLeft
<1>2. asks'[q].at = "done" /\ \A p \in Requests \ {q} : asks'[p] = asks[p]
  BY <1>1, AskedIs DEF RestoreLeft
<1>3. AskFits(rows, asks'[q])
  BY <1>2 DEF AskFits
<1> QED BY <1>1, <1>2, <1>3, AskRecord

-----------------------------------------------------------------------------
(* The tick's steps that store nothing. *)

LEMMA BeginsRecord ==
    ASSUME Shaped, RecordInv, NoneOverlaps', OneAsk', TickBegins
    PROVE  RecordInv'
<1>1. /\ ~Awake /\ tick'.known = rows /\ tick'.at = "settling"
      /\ tick'.todo = {e \in DOMAIN rows : rows[e].mark # "none"}
      /\ UNCHANGED <<inverter, rows, job, asks, owner>>
  BY DEF TickBegins, Awake
<1>2. job[Tick].kind = "none" /\ \A e \in DOMAIN rows : rows[e] \in Rows
  BY <1>1 DEF RecordInv, Alone, JobsOwned, Shaped, IsTable
<1>3. JobsOwned'
  BY <1>1, <1>2 DEF RecordInv, Alone, JobsOwned
<1>4. Accurate(rows, tick')
  BY <1>1, <1>2 DEF Accurate, Like
<1>5. TickWorks(job[Tick], tick')
  BY <1>2 DEF TickWorks
<1>6. \A q \in Requests : AskFits(rows, asks'[q])
  BY <1>1 DEF RecordInv
<1>7. TableFits(owner, tick'.known)
  BY <1>1 DEF RecordInv
<1> QED BY <1>1, <1>2, <1>3, <1>4, <1>5, <1>6, <1>7, SameRecord

LEMMA EndsRecord ==
    ASSUME Shaped, RecordInv, NoneOverlaps', OneAsk', TickEnds
    PROVE  RecordInv'
<1>1. /\ tick'.at = "asleep" /\ tick'.known = <<>> /\ job[Tick].kind = "none"
      /\ UNCHANGED <<inverter, rows, job, asks, owner>>
  BY NoJobIsJob DEF TickEnds, Asleep
<1>2. TableFits(owner, tick'.known)
  BY <1>1 DEF TableFits
<1>3. JobsOwned' /\ Accurate(rows, tick') /\ TickWorks(job[Tick], tick')
  BY <1>1 DEF RecordInv, Alone, JobsOwned, Accurate, TickWorks
<1>4. \A q \in Requests : AskFits(rows, asks'[q])
  BY <1>1 DEF RecordInv
<1> QED BY <1>1, <1>2, <1>3, <1>4, SameRecord

LEMMA EvaluatesRecord ==
    ASSUME Shaped, RecordInv, NoneOverlaps', OneAsk', NEW w \in SUBSET (Events \ Rules),
           TickEvaluates(w)
    PROVE  RecordInv'
<1>1. /\ tick.at = "settling" /\ job[Tick].kind = "none"
      /\ UNCHANGED <<inverter, rows, job, asks, owner>>
  BY NoJobIsJob DEF TickEvaluates
<1>2. PICK enabled \in {{}, {e \in DOMAIN tick.known : Live(tick.known[e])}} :
         tick' = [tick EXCEPT !.at = "evaluating", !.window = w, !.todo = enabled]
  BY DEF TickEvaluates
<1>3. tick'.known = tick.known /\ tick'.at = "evaluating" /\ tick'.todo = enabled
  BY <1>2 DEF Shaped
<1>4. JobsOwned' /\ TickWorks(job[Tick], tick')
  BY <1>1, <1>3 DEF RecordInv, Alone, JobsOwned, TickWorks
<1>5. Accurate(rows, tick')
  <2>1. Accurate(rows, tick)
    BY DEF RecordInv
  <2>2. \A e \in enabled : tick.known[e].mark = "none"
    BY <1>2 DEF Live
  <2> QED BY <1>1, <1>3, <2>1, <2>2 DEF Accurate
<1>6. TableFits(owner, tick'.known) /\ \A q \in Requests : AskFits(rows, asks'[q])
  BY <1>1, <1>3 DEF RecordInv
<1> QED BY <1>1, <1>3, <1>4, <1>5, <1>6, SameRecord

LEMMA LeavesRecord ==
    ASSUME Shaped, RecordInv, NoneOverlaps', OneAsk', NEW e,
           TickLeavesRestore(e) \/ EventWaitsRetry(e)
    PROVE  RecordInv'
<1>1. /\ job[Tick].kind = "none" /\ TickDone(e)
      /\ UNCHANGED <<inverter, rows, job, asks, owner>>
  BY NoJobIsJob DEF TickLeavesRestore, EventWaitsRetry, TickAt
<1>2. tick'.at = tick.at /\ tick'.known = tick.known /\ tick'.todo = tick.todo \ {e}
  BY <1>1, TodoShaped
<1>3. JobsOwned' /\ TickWorks(job[Tick], tick')
  BY <1>1, <1>2 DEF RecordInv, Alone, JobsOwned, TickWorks
<1>4. Accurate(rows, tick')
  <2>1. Accurate(rows, tick)
    BY DEF RecordInv
  <2> QED BY <1>2, <2>1 DEF Accurate
<1>5. TableFits(owner, tick'.known) /\ \A q \in Requests : AskFits(rows, asks'[q])
  BY <1>1, <1>2 DEF RecordInv
<1> QED BY <1>1, <1>2, <1>3, <1>4, <1>5, SameRecord

-----------------------------------------------------------------------------
(* Rows that are marked, deleted and stored by requests. *)

\* A request that records a cancel finds no job under way.
LEMMA NoJobs ==
    ASSUME Alone, NEW q \in Requests, TakenUp(q), asks[q].at # "settling"
    PROVE  ~Awake /\ \A a \in Actors : job[a].kind = "none"
<1>1. ~Awake
  BY DEF Alone, NoneOverlaps, TakenUp
<1>2. \A p \in Requests : asks[p].at # "settling"
  BY DEF Alone, OneAsk, TakenUp
<1> QED BY <1>1, <1>2 DEF Alone, JobsOwned, Actors

LEMMA CancelRecord ==
    ASSUME RecordInv, NoneOverlaps', OneAsk', UNCHANGED <<inverter, tick, job, owner>>,
           NEW q \in Requests, TakenUp(q), asks[q].at # "settling", asks'[q].at # "marking",
           \A p \in Requests \ {q} : asks'[p] = asks[p], TableFits(owner, rows'),
           \A r \in Registers : \A o : Keeps(rows, o, r) => Keeps(rows', o, r)
    PROVE  RecordInv'
<1>1. ~Awake /\ (\A a \in Actors : job[a].kind = "none") /\ Tick \in Actors
      /\ \A p \in Requests : p \in Actors
  BY NoJobs DEF RecordInv, Actors
<1>2. Alone' /\ Typed'
  BY <1>1 DEF RecordInv, Alone, JobsOwned, Typed
<1>3. \A p \in Requests : AskFits(rows', asks'[p])
  BY DEF RecordInv, Alone, OneAsk, TakenUp, AskFits
<1>4. Accurate(rows', tick)
  BY <1>1 DEF Accurate, Awake
<1>5. \A a \in Actors : JobFits(job[a], rows', inverter, owner, tick.known)
  BY <1>1, NoJobFits
<1>6. TickWorks(job[Tick], tick) /\ OnRecord(rows', inverter, owner, job[Tick])
  BY <1>1 DEF RecordInv, TickWorks, OnRecord
<1> QED BY <1>2, <1>3, <1>4, <1>5, <1>6 DEF RecordInv

LEMMA MarksRecord ==
    ASSUME Shaped, RecordInv, NoneOverlaps', OneAsk', NEW q \in Requests, RemovalMarks(q)
    PROVE  RecordInv'
<1>1. PICK e : e = asks[q].event
  OBVIOUS
<1>2. PICK s : s = asks[q].state
  OBVIOUS
<1>3. /\ asks[q].at = "marking" /\ Landed(s)
      /\ IsTable(rows') /\ DOMAIN rows' = DOMAIN rows
      /\ \A o \in DOMAIN rows : o # e => rows'[o] = rows[o]
      /\ e \in DOMAIN rows => /\ rows'[e].status = s.status /\ rows'[e].prior = s.prior
                              /\ rows'[e].released = s.released
      /\ asks'[q].at = "pending" /\ \A p \in Requests \ {q} : asks'[p] = asks[p]
      /\ UNCHANGED <<inverter, tick, job, owner>>
  BY <1>1, <1>2, MarksIs DEF RemovalMarks
<1>4. e \in DOMAIN rows /\ Like(rows[e], s)
  BY <1>1, <1>2, <1>3 DEF RecordInv, AskFits
<1>5. rows'[e].prior = rows[e].prior /\ rows'[e].released = rows[e].released /\ ~s.released
      /\ rows'[e].status = rows[e].status
  BY <1>3, <1>4 DEF Like, Landed
<1>6. TableFits(owner, rows')
  <2>1. Fits(owner, e, rows'[e])
    <3>1. Fits(owner, e, rows[e])
      BY <1>4 DEF RecordInv, TableFits
    <3> QED BY <1>3, <1>4, <1>5, <3>1 DEF Fits
  <2> QED BY <1>3, <2>1 DEF RecordInv, TableFits
<1>7. ASSUME NEW r \in Registers, NEW o, Keeps(rows, o, r)
      PROVE  Keeps(rows', o, r)
  BY <1>3, <1>5, <1>7 DEF Keeps
<1>8. TakenUp(q)
  BY <1>3 DEF TakenUp
<1> QED BY <1>3, <1>6, <1>7, <1>8, CancelRecord

LEMMA NothingRecord ==
    ASSUME Shaped, RecordInv, NoneOverlaps', OneAsk', NEW q \in Requests, NothingToRestore(q)
    PROVE  RecordInv'
<1>1. PICK e : e = asks[q].event
  OBVIOUS
<1>2. /\ asks[q].at = "marking" /\ ~Landed(asks[q].state) /\ AsksShaped /\ IsTable(rows)
      /\ rows' = Without(e) \/ rows' = rows
      /\ UNCHANGED <<inverter, tick, job, owner>>
  BY <1>1, ShapedParts DEF NothingToRestore
<1>3. asks'[q].at = "done" /\ \A p \in Requests \ {q} : asks'[p] = asks[p]
  BY <1>2, AskedIs DEF NothingToRestore
<1>4. e \in DOMAIN rows /\ Like(rows[e], asks[q].state)
  BY <1>1, <1>2 DEF RecordInv, AskFits
<1>5. \A r \in Registers : ~Keeps(rows, e, r)
  BY <1>2, <1>4 DEF Landed, Like, Keeps
<1>6. /\ DOMAIN rows' \subseteq DOMAIN rows /\ DOMAIN rows \ {e} \subseteq DOMAIN rows'
      /\ \A o \in DOMAIN rows' : rows'[o] = rows[o]
  BY <1>2, WithoutIs
<1>7. TableFits(owner, rows')
  BY <1>6 DEF RecordInv, TableFits
<1>8. ASSUME NEW r \in Registers, NEW o, Keeps(rows, o, r)
      PROVE  Keeps(rows', o, r)
  <2>1. o # e
    BY <1>5, <1>8
  <2> QED BY <1>6, <1>8, <2>1 DEF Keeps
<1>9. TakenUp(q)
  BY <1>2 DEF TakenUp
<1> QED BY <1>2, <1>3, <1>7, <1>8, <1>9, CancelRecord

\* A table with another's rows, enabled or not, and fresh ones.
Regards(t, u) ==
    /\ DOMAIN t \subseteq DOMAIN u /\ \A o \in DOMAIN t : Like(u[o], t[o])
    /\ \A o \in DOMAIN u \ DOMAIN t : u[o].prior = NoPriors /\ ~u[o].released /\ u[o].mark = "none"

LEMMA RegardsKeeps ==
    ASSUME Regards(rows, rows'), NEW r \in Registers
    PROVE  /\ \A o : Keeps(rows', o, r) <=> Keeps(rows, o, r)
           /\ Claimed(rows, r) => Claimed(rows', r)
BY DEF Regards, Keeps, Claimed, Like, NoPriors

LEMMA RegardsLike ==
    ASSUME Regards(rows, rows'), NEW o \in DOMAIN rows, NEW s, Like(rows[o], s)
    PROVE  o \in DOMAIN rows' /\ Like(rows'[o], s)
BY DEF Regards, Like

LEMMA RegardsJob ==
    ASSUME Regards(rows, rows'), IsTable(rows), NEW j, NEW k, JobFits(j, rows, inverter, owner, k)
    PROVE  JobFits(j, rows', inverter, owner, k)
<1> SUFFICES ASSUME j.kind # "none"
             PROVE  JobFits(j, rows', inverter, owner, k)
  BY DEF JobFits
<1>1. j.event \in DOMAIN rows /\ Like(rows[j.event], j.state) /\ j.event \in Events
  BY DEF JobFits, IsTable
<1>2. j.event \in DOMAIN rows' /\ Like(rows'[j.event], j.state)
  BY <1>1, RegardsLike
<1>3. CASE j.kind = "activate"
  BY <1>2, <1>3 DEF JobFits
<1>4. CASE j.kind # "activate"
  <2>1. Restoring(j, rows, inverter, owner) /\ Range(Writes[j.event]) \subseteq Registers
    BY <1>1, <1>4, RangeIs DEF JobFits
  <2>2. PlanFits(j.left, j.event, rows', owner)
    BY <2>1, RegardsKeeps DEF Restoring, PlanFits
  <2>3. ASSUME ~j.failed
        PROVE  PlanSuffices(j.left, j.event, rows', inverter)
    <3>1. PlanSuffices(j.left, j.event, rows, inverter)
      BY <2>1, <2>3 DEF Restoring
    <3>2. \A r \in Range(Writes[j.event]), o \in Events \ {j.event} :
             Keeps(rows', o, r) /\ rows'[o].mark = "none" => Keeps(rows, o, r) /\ rows[o].mark = "none"
      BY <2>1, RegardsKeeps DEF Keeps, Regards, Like
    <3> QED BY <3>1, <3>2 DEF PlanSuffices
  <2>4. Restoring(j, rows', inverter, owner)
    BY <2>1, <2>2, <2>3 DEF Restoring
  <2> QED BY <1>2, <1>4, <2>4 DEF JobFits
<1> QED BY <1>3, <1>4

LEMMA UpsertRegards ==
    ASSUME IsTable(rows), NEW e \in Events, NEW on \in BOOLEAN, rows' = Upsert(e, on)
    PROVE  Regards(rows, rows')
<1>1. /\ DOMAIN rows' = DOMAIN rows \cup {e}
      /\ \A o \in DOMAIN rows : o # e => rows'[o] = rows[o]
      /\ Like(rows'[e], IF e \in DOMAIN rows THEN rows[e] ELSE Fresh)
  BY UpsertIs
<1>2. Fresh.prior = NoPriors /\ ~Fresh.released /\ Fresh.mark = "none"
  BY DEF Fresh
<1>3. \A o \in DOMAIN rows : rows[o] \in Rows
  BY DEF IsTable
<1> QED BY <1>1, <1>2, <1>3 DEF Regards, Like

LEMMA StoredRecord ==
    ASSUME IsTable(rows), RecordInv, NoneOverlaps', OneAsk', UNCHANGED <<inverter, tick, job,
           owner>>,
           Regards(rows, rows'), NEW q \in Requests, asks[q].at = "new", asks'[q].at # "marking",
           \A p \in Requests \ {q} : asks'[p] = asks[p]
    PROVE  RecordInv'
<1>1. Alone' /\ Typed'
  BY DEF RecordInv, Alone, JobsOwned, Typed, Awake
<1>2. TableFits(owner, rows')
  <2>1. ASSUME NEW o \in DOMAIN rows, Fits(owner, o, rows[o])
        PROVE  Fits(owner, o, rows'[o])
    BY <2>1 DEF Regards, Fits, Like
  <2>2. ASSUME NEW o \in DOMAIN rows' \ DOMAIN rows
        PROVE  Fits(owner, o, rows'[o])
    BY <2>2 DEF Regards, Fits, NoPriors
  <2> QED BY <2>1, <2>2 DEF RecordInv, TableFits
<1>3. \A p \in Requests : AskFits(rows', asks'[p])
  <2>1. \A p \in Requests : AskFits(rows, asks'[p])
    BY DEF RecordInv, AskFits
  <2> QED BY <2>1, RegardsLike DEF AskFits
<1>4. Accurate(rows', tick)
  <2>1. Accurate(rows, tick)
    BY DEF RecordInv
  <2>2. \A o \in DOMAIN rows', r \in Registers :
           rows'[o].prior[r] # None => o \in DOMAIN rows /\ rows[o].prior[r] # None
    BY DEF Regards, Like, NoPriors
  <2> QED BY <2>1, <2>2, RegardsLike DEF Accurate
<1>5. \A a \in Actors : JobFits(job[a], rows', inverter, owner, tick.known)
  BY RegardsJob DEF RecordInv
<1>6. OnRecord(rows', inverter, owner, job[Tick])
  BY RegardsKeeps DEF RecordInv, OnRecord
<1>7. TableFits(owner, tick.known) /\ TickWorks(job[Tick], tick)
  BY DEF RecordInv
<1> QED BY <1>1, <1>2, <1>3, <1>4, <1>5, <1>6, <1>7 DEF RecordInv

LEMMA PutRecord ==
    ASSUME Shaped, RecordInv, NoneOverlaps', OneAsk', NEW q \in Requests, NEW e \in Targets,
           Put(q, e)
    PROVE  RecordInv'
<1>1. /\ IsTable(rows) /\ e \in Events /\ AsksShaped /\ asks[q].at = "new"
      /\ rows' = Upsert(e, TRUE) /\ TRUE \in BOOLEAN /\ UNCHANGED <<inverter, tick, job, owner>>
  BY ShapedParts, SchedulerAssumption DEF Put
<1>2. asks'[q].at = "done" /\ \A p \in Requests \ {q} : asks'[p] = asks[p]
  BY <1>1, AskedIs DEF Put
<1>3. Regards(rows, rows')
  BY <1>1, UpsertRegards
<1> QED BY <1>1, <1>2, <1>3, StoredRecord

LEMMA PutDisabledRecord ==
    ASSUME Shaped, RecordInv, NoneOverlaps', OneAsk', NEW q \in Requests, NEW e \in Targets,
           PutDisabled(q, e)
    PROVE  RecordInv'
<1>1. /\ IsTable(rows) /\ e \in Events /\ AsksShaped /\ asks[q].at = "new"
      /\ rows' = Upsert(e, FALSE) /\ FALSE \in BOOLEAN /\ UNCHANGED <<inverter, tick, job, owner>>
  BY ShapedParts, SchedulerAssumption DEF PutDisabled
<1>2. asks'[q].at = "asked" /\ \A p \in Requests \ {q} : asks'[p] = asks[p]
  BY <1>1, AskIs DEF PutDisabled
<1>3. Regards(rows, rows')
  BY <1>1, UpsertRegards
<1> QED BY <1>1, <1>2, <1>3, StoredRecord

-----------------------------------------------------------------------------
(* The owner, a restart, and the start. *)

LEMMA OwnerRecord ==
    ASSUME Shaped, RecordInv, NoneOverlaps', OneAsk',
           NEW r \in Registers, NEW v \in Settings, OwnerSets(r, v)
    PROVE  RecordInv'
<1>1. /\ inverter[r] = owner[r]
      /\ \A e \in DOMAIN rows : rows[e].prior[r] = None
      /\ \A e \in DOMAIN tick.known : tick.known[e].prior[r] = None
      /\ owner' = [owner EXCEPT ![r] = v] /\ inverter' = [inverter EXCEPT ![r] = v]
      /\ UNCHANGED <<rows, tick, job, asks>>
  BY DEF OwnerSets
<1>2. /\ inverter \in [Registers -> Values] /\ owner \in [Registers -> Settings]
      /\ v \in Values /\ v \notin Events /\ owner[r] \notin Events /\ IsTable(rows)
  BY SchedulerAssumption, ShapedParts DEF RecordInv, Typed, Values
<1>3. /\ owner' \in [Registers -> Settings] /\ inverter' \in [Registers -> Values]
      /\ owner'[r] = v /\ inverter'[r] = v
      /\ \A s \in Registers : s # r => owner'[s] = owner[s] /\ inverter'[s] = inverter[s]
  BY <1>1, <1>2
<1>4. Alone' /\ Typed'
  BY <1>1, <1>3 DEF RecordInv, Alone, JobsOwned, Typed, Awake
<1>5. ASSUME NEW e, NEW s, Fits(owner, e, s), s.prior[r] = None
      PROVE  Fits(owner', e, s)
  BY <1>3, <1>5 DEF Fits
<1>6. TableFits(owner', rows') /\ TableFits(owner', tick'.known)
  BY <1>1, <1>5 DEF RecordInv, TableFits
<1>7. OnRecord(rows', inverter', owner', job'[Tick])
  BY <1>1, <1>3 DEF RecordInv, OnRecord
<1>8. ASSUME NEW j, NEW k, JobFits(j, rows, inverter, owner, k), j.kind # "none"
      PROVE  JobFits(j, rows, inverter', owner', k)
  <2>1. j.event \in DOMAIN rows /\ Like(rows[j.event], j.state) /\ j.event \in Events
    BY <1>2, <1>8 DEF JobFits, IsTable
  <2>2. CASE j.kind = "activate"
    <3>1. Starting(j, inverter, owner, k)
      BY <1>8, <2>2 DEF JobFits
    <3>2. j.read[r] = None
      BY <1>1, <1>2, <2>1, <3>1 DEF Starting
    <3>3. Starting(j, inverter', owner', k)
      BY <1>3, <3>1, <3>2 DEF Starting
    <3> QED BY <2>1, <2>2, <3>3 DEF JobFits
  <2>3. CASE j.kind # "activate"
    <3>1. /\ Restoring(j, rows, inverter, owner) /\ PlanFits(j.left, j.event, rows, owner)
          /\ Range(Writes[j.event]) \subseteq Registers
      BY <1>8, <2>1, <2>3, RangeIs DEF JobFits, Restoring
    <3>2. \A i \in DOMAIN j.left : j.left[i][1] # r /\ j.left[i][1] \in Registers
      BY <1>1, <3>1 DEF PlanFits, Claimed
    <3>3. PlanFits(j.left, j.event, rows, owner')
      BY <1>3, <3>1, <3>2 DEF PlanFits
    <3>4. ASSUME PlanSuffices(j.left, j.event, rows, inverter)
          PROVE  PlanSuffices(j.left, j.event, rows, inverter')
      <4>1. \A o : ~Keeps(rows, o, r)
        BY <1>1 DEF Keeps
      <4>2. j.event # v
        BY <1>2, <2>1
      <4> QED BY <1>3, <3>1, <3>4, <4>1, <4>2 DEF PlanSuffices
    <3>5. Restoring(j, rows, inverter', owner')
      BY <3>1, <3>3, <3>4 DEF Restoring
    <3> QED BY <2>1, <2>3, <3>5 DEF JobFits
  <2> QED BY <2>2, <2>3
<1>9. ASSUME NEW a \in Actors
      PROVE  JobFits(job[a], rows, inverter', owner', tick.known)
  <2>1. JobFits(job[a], rows, inverter, owner, tick.known)
    BY DEF RecordInv
  <2>2. CASE job[a].kind = "none"
    BY <2>2 DEF JobFits
  <2> QED BY <1>8, <2>1, <2>2
<1>10. /\ \A q \in Requests : AskFits(rows, asks[q])
       /\ Accurate(rows, tick) /\ TickWorks(job[Tick], tick)
  BY DEF RecordInv
<1> QED BY <1>1, <1>4, <1>6, <1>7, <1>9, <1>10 DEF RecordInv

LEMMA RestartRecord ==
    ASSUME Shaped, RecordInv, NoneOverlaps', OneAsk', Restart, ~Cut
    PROVE  RecordInv'
<1>1. /\ tick'.at = "asleep" /\ tick'.known = <<>>
      /\ job' = [a \in Actors |-> NoJob] /\ job[Tick].kind # "activate"
      /\ asks' = [q \in Requests |-> IF asks[q].at = "new" THEN asks[q]
                                      ELSE [NoAsk EXCEPT !.at = "done"]]
      /\ UNCHANGED <<inverter, rows, owner>>
  BY DEF Restart, Cut, Asleep
<1>2. /\ Tick \in Actors /\ \A q \in Requests : q \in Actors
      /\ \A a \in Actors : job'[a].kind = "none" /\ job'[a].read = NoPriors
  BY <1>1, NoJobIsJob DEF Actors, NoJob
<1>3. \A q \in Requests : asks'[q].at \in {"new", "done"}
  BY <1>1 DEF NoAsk
<1>4. Alone'
  BY <1>2 DEF Alone, JobsOwned
<1>5. Typed'
  BY <1>1, <1>2, NoPriorsTyped DEF RecordInv, Typed
<1>6. TableFits(owner, tick'.known) /\ Accurate(rows, tick')
  BY <1>1 DEF TableFits, Accurate
<1>7. TickWorks(job'[Tick], tick') /\ OnRecord(rows, inverter, owner, job'[Tick])
  BY <1>1, <1>2 DEF RecordInv, TickWorks, OnRecord
<1>8. \A q \in Requests : AskFits(rows, asks'[q])
  BY <1>3 DEF AskFits
<1>9. \A a \in Actors : JobFits(job'[a], rows, inverter, owner, tick'.known)
  BY <1>2 DEF JobFits
<1> QED BY <1>1, <1>4, <1>5, <1>6, <1>7, <1>8, <1>9 DEF RecordInv

LEMMA RecordInit == Init => RecordInv
<1> SUFFICES ASSUME Init PROVE RecordInv
  OBVIOUS
<1>1. /\ tick.at = "asleep" /\ tick.known = <<>>
      /\ \A a \in Actors : job[a].kind = "none" /\ job[a].read = NoPriors
      /\ \A q \in Requests : asks[q].at = "new"
      /\ Tick \in Actors /\ \A q \in Requests : q \in Actors
  BY NoJobIsJob DEF Init, Asleep, NoAsk, Actors, NoJob
<1>2. /\ inverter = owner /\ owner \in [Registers -> Settings]
      /\ \A e \in DOMAIN rows : rows[e] = Fresh
  BY DEF Init
<1>3. Alone
  BY <1>1 DEF Alone, NoneOverlaps, OneAsk, TakenUp, JobsOwned
<1>4. Typed
  BY <1>1, <1>2, NoPriorsTyped DEF Typed, Values
<1>5. TableFits(owner, rows)
  BY <1>2 DEF TableFits, Fits, Fresh, NoPriors
<1>6. TableFits(owner, tick.known) /\ Accurate(rows, tick)
  BY <1>1 DEF TableFits, Accurate
<1>7. TickWorks(job[Tick], tick) /\ OnRecord(rows, inverter, owner, job[Tick])
  BY <1>1, <1>2 DEF TickWorks, OnRecord
<1>8. \A q \in Requests : AskFits(rows, asks[q])
  BY <1>1 DEF AskFits
<1>9. \A a \in Actors : JobFits(job[a], rows, inverter, owner, tick.known)
  BY <1>1 DEF JobFits
<1> QED BY <1>3, <1>4, <1>5, <1>6, <1>7, <1>8, <1>9 DEF RecordInv

-----------------------------------------------------------------------------
(* A job starts. *)

LEMMA SettlesPlan ==
    ASSUME Shaped, NEW a \in Actors, NEW known, NEW e, known[e] \in Rows, Settles(a, known, e)
    PROVE  /\ \E landedOnly \in BOOLEAN :
                 job'[a].left = RestorePlan(known, e, known[e], landedOnly)
           /\ job'[a].read = NoPriors /\ job'[a].next.prior = NoPriors /\ ~job'[a].next.released
<1> DEFINE d == Restore(known, e, known[e])
           u == DropRun(known[e])
           t == [u EXCEPT !.status = "idle"]
           j == [event |-> e, kind |-> "settle", left |-> d.plan, state |-> known[e],
                 next |-> d.next, read |-> NoPriors, failed |-> FALSE]
<1>1. d.next = t /\ d.plan = RestorePlan(known, e, known[e], known[e].status # "active")
  BY DEF Restore, Ends
<1>2. u \in Rows /\ u.prior = NoPriors /\ ~u.released
  BY DropIs
<1>3. job' = [job EXCEPT ![a] = j]
  BY DEF Settles, Starts
<1> HIDE DEF u
<1>4. t.prior = NoPriors /\ ~t.released
  BY <1>2, StatusSet
<1> HIDE DEF t, d
<1>5. j.left = d.plan /\ j.read = NoPriors /\ j.next = d.next
  OBVIOUS
<1> HIDE DEF j
<1>6. job'[a] = j
  BY <1>3 DEF Shaped
<1>7. (known[e].status # "active") \in BOOLEAN
  OBVIOUS
<1> QED BY <1>1, <1>4, <1>5, <1>6, <1>7

\* The record with one job that was none before.
LEMMA JobStarts ==
    ASSUME RecordInv, NoneOverlaps', OneAsk', UNCHANGED <<inverter, rows, owner>>,
           tick'.known = tick.known, NEW a \in Actors, job[a].kind = "none",
           \A b \in Actors \ {a} : job'[b] = job[b], job'[a].read = NoPriors,
           JobsOwned', Accurate(rows, tick'), TickWorks(job'[Tick], tick'),
           JobFits(job'[a], rows, inverter, owner, tick.known),
           \A q \in Requests : AskFits(rows, asks'[q])
    PROVE  RecordInv'
<1>1. Alone'
  BY DEF Alone
<1>2. Typed'
  BY NoPriorsTyped DEF RecordInv, Typed
<1>3. \A b \in Actors : JobFits(job'[b], rows, inverter, owner, tick.known)
  BY DEF RecordInv
<1>4. OnRecord(rows, inverter, owner, job'[Tick])
  BY DEF RecordInv, OnRecord, Actors
<1>5. TableFits(owner, rows) /\ TableFits(owner, tick'.known)
  BY DEF RecordInv
<1> QED BY <1>1, <1>2, <1>3, <1>4, <1>5 DEF RecordInv

LEMMA TickSettlesRecord ==
    ASSUME Shaped, RecordInv, NoneOverlaps', OneAsk', NEW e, TickSettles(e)
    PROVE  RecordInv'
<1>1. /\ tick.at = "settling" /\ e \in tick.todo /\ e \in DOMAIN tick.known
      /\ tick.known[e] \in Rows /\ job[Tick] = NoJob
      /\ \A b \in Actors \ {Tick} : job'[b] = job[b]
      /\ job'[Tick].event = e /\ job'[Tick].kind = "settle" /\ job'[Tick].state = tick.known[e]
      /\ TickDone(e) /\ UNCHANGED <<inverter, rows, asks, owner>>
  BY TickSettlesIs
<1>2. PICK known : known = tick.known
  OBVIOUS
<1>3. Settles(Tick, known, e) /\ Tick \in Actors /\ known[e] \in Rows
  BY <1>1, <1>2 DEF TickSettles, Settles, Starts, Actors
<1>4. /\ \E landedOnly \in BOOLEAN : job'[Tick].left = RestorePlan(known, e, known[e], landedOnly)
      /\ job'[Tick].read = NoPriors /\ job'[Tick].next.prior = NoPriors /\ ~job'[Tick].next.released
  BY <1>3, SettlesPlan
<1>5. tick'.at = tick.at /\ tick'.known = tick.known /\ tick'.todo = tick.todo \ {e}
  BY <1>1, TodoShaped
<1>6. Accurate(rows, tick) /\ Awake /\ TableFits(owner, tick.known) /\ TableFits(owner, rows)
  BY <1>1 DEF RecordInv, Awake
<1>7. e \in DOMAIN rows /\ Like(rows[e], tick.known[e]) /\ tick.known[e].mark # "none"
  BY <1>1, <1>6 DEF Accurate
<1>8. ~tick.known[e].released
  BY <1>1, <1>6, <1>7 DEF TableFits, Fits
<1>9. job[Tick].kind = "none"
  BY <1>1, NoJobIsJob
<1>10. \A r \in Registers : inverter[r] \in Events => Keeps(rows, inverter[r], r)
  BY <1>9, ValueKept DEF RecordInv
<1>11. IsTable(rows) /\ Source(rows, known)
  BY <1>2, <1>6, KnownSource, ShapedParts
<1>12. PICK j : j = job'[Tick]
  OBVIOUS
<1>13. /\ j.event = e /\ j.state = known[e] /\ j.kind = "settle"
       /\ \E landedOnly \in BOOLEAN : j.left = RestorePlan(known, j.event, j.state, landedOnly)
       /\ EndsAs(j.event, j.kind, j.state, j.next)
  BY <1>1, <1>2, <1>4, <1>12 DEF EndsAs
<1>14. JobFits(j, rows, inverter, owner, known)
  BY <1>2, <1>6, <1>7, <1>8, <1>10, <1>11, <1>13, StartsRestoring
<1>15. JobsOwned'
  <2>1. \A q \in Requests : job'[q] = job[q]
    BY <1>1, SchedulerAssumption DEF Actors
  <2> QED BY <1>1, <1>5, <1>6, <2>1 DEF RecordInv, Alone, JobsOwned, Awake
<1>16. Accurate(rows, tick') /\ TickWorks(job'[Tick], tick')
  BY <1>1, <1>5, <1>6, <1>7 DEF Accurate, TickWorks
<1>17. \A q \in Requests : AskFits(rows, asks'[q])
  BY <1>1 DEF RecordInv
<1> QED BY <1>1, <1>2, <1>3, <1>4, <1>5, <1>9, <1>12, <1>14, <1>15, <1>16, <1>17, JobStarts

LEMMA RestoreStartsRecord ==
    ASSUME Shaped, RecordInv, NoneOverlaps', OneAsk', NEW q \in Requests, RestoreStarts(q)
    PROVE  RecordInv'
<1>1. PICK e : e = asks[q].event
  OBVIOUS
<1>2. /\ asks[q].at = "pending" /\ e \in DOMAIN rows /\ rows[e].mark # "none"
      /\ \A b \in Actors \ {q} : job'[b] = job[b]
      /\ job'[q].event = e /\ job'[q].kind = "settle" /\ job'[q].state = rows[e]
      /\ AskAt(q, "settling") /\ UNCHANGED <<inverter, rows, tick, owner>>
  BY <1>1, RestoreStartsIs
<1>3. PICK known : known = rows
  OBVIOUS
<1>4. Settles(q, known, e) /\ q \in Actors /\ known[e] \in Rows
  BY <1>1, <1>2, <1>3 DEF RestoreStarts, Settles, Starts, Actors, Shaped, IsTable
<1>5. /\ \E landedOnly \in BOOLEAN : job'[q].left = RestorePlan(known, e, known[e], landedOnly)
      /\ job'[q].read = NoPriors /\ job'[q].next.prior = NoPriors /\ ~job'[q].next.released
  BY <1>4, SettlesPlan
<1>6. ~Awake /\ \A a \in Actors : job[a].kind = "none"
  BY <1>2, NoJobs DEF RecordInv, TakenUp
<1>7. /\ asks'[q].at = "settling" /\ \A p \in Requests \ {q} : asks'[p] = asks[p]
  BY <1>2, ShapedParts, AskAtIs
<1>8. TableFits(owner, rows) /\ ~rows[e].released /\ Like(rows[e], rows[e])
  BY <1>2 DEF RecordInv, TableFits, Fits, Shaped, IsTable, Like
<1>9. Tick \in Actors /\ Tick # q
  BY SchedulerAssumption DEF Actors
<1>10. \A r \in Registers : inverter[r] \in Events => Keeps(rows, inverter[r], r)
  BY <1>6, <1>9, ValueKept DEF RecordInv
<1>11. IsTable(rows) /\ Source(rows, known)
  BY <1>3, RowsSource, ShapedParts
<1>12. PICK j : j = job'[q]
  OBVIOUS
<1>13. /\ j.event = e /\ j.state = known[e] /\ j.kind = "settle"
       /\ \E landedOnly \in BOOLEAN : j.left = RestorePlan(known, j.event, j.state, landedOnly)
       /\ EndsAs(j.event, j.kind, j.state, j.next)
  BY <1>2, <1>3, <1>5, <1>12 DEF EndsAs
<1>14. PICK k : k = tick.known
  OBVIOUS
<1>15. JobFits(j, rows, inverter, owner, k)
  BY <1>2, <1>3, <1>8, <1>10, <1>11, <1>13, StartsRestoring
<1>16. JobsOwned'
  BY <1>2, <1>6, <1>7, <1>9 DEF RecordInv, Alone, JobsOwned, Awake, Actors
<1>17. Accurate(rows, tick') /\ TickWorks(job'[Tick], tick')
  BY <1>2, <1>6, <1>9 DEF Accurate, Awake, TickWorks
<1>18. \A p \in Requests : AskFits(rows, asks'[p])
  BY <1>7 DEF RecordInv, AskFits
<1> QED BY <1>2, <1>4, <1>5, <1>6, <1>12, <1>14, <1>15, <1>16, <1>17, <1>18, JobStarts

LEMMA DispatchesRecord ==
    ASSUME Tame, Shaped, RecordInv, NoneOverlaps', OneAsk', NEW e, EventDispatches(e)
    PROVE  RecordInv'
<1>1. /\ e \in DOMAIN tick.known /\ e \in tick.todo /\ tick.at = "evaluating"
      /\ \A b \in Actors \ {Tick} : job'[b] = job[b]
      /\ job'[Tick].next.mark = tick.known[e].mark
      /\ UNCHANGED <<inverter, rows, tick, asks, owner>>
  BY DispatchesIs
<1>2. PICK known : known = tick.known
  OBVIOUS
<1>3. PICK d \in Decisions(tick.known, tick.window, e) :
         d.action # "hold" /\ Starts(Tick, d.action, e, tick.known[e], d.plan, d.next)
  BY DEF EventDispatches
<1>4. known[e] \in Rows /\ Decides(tick.known, tick.window, e, d)
  BY <1>2, <1>3, TickDecides DEF EventDispatches
<1>5. PICK j : j = [event |-> e, kind |-> d.action, left |-> d.plan, state |-> known[e],
                    next |-> d.next, read |-> NoPriors, failed |-> FALSE]
  OBVIOUS
<1>6. /\ j.event = e /\ j.kind = d.action /\ j.left = d.plan /\ j.state = known[e]
      /\ j.next = d.next /\ j.read = NoPriors /\ j.failed = FALSE
  BY <1>5
<1>7. Tick \in Actors /\ job'[Tick] = j
  <2>1. job' = [job EXCEPT ![Tick] = j]
    BY <1>2, <1>3, <1>5 DEF Starts
  <2> QED BY <2>1 DEF Shaped, Actors
<1>8. Accurate(rows, tick) /\ Awake /\ TableFits(owner, known) /\ TableFits(owner, rows)
  BY <1>1, <1>2 DEF RecordInv, Awake
<1>9. e \in DOMAIN rows /\ Like(rows[e], known[e]) /\ known[e].mark = "none" /\ e \in Events
  BY <1>1, <1>2, <1>8 DEF Accurate, Shaped, IsTable
<1>10. known[e].released => known[e].status # "active"
  BY <1>1, <1>2, <1>8 DEF TableFits, Fits
<1>11. Records(known, e, d)
  <2>1. PICK window : window = tick.window
    OBVIOUS
  <2>2. d \in Decisions(known, window, e)
    BY <1>2, <2>1
  <2> QED BY <1>4, <1>10, <2>2, DecisionsRecord
<1>12. job[Tick].kind = "none" /\ d.action \in {"end", "activate"}
  BY <1>3, <1>4, NoJobIsJob DEF EventDispatches, TickAt, Decides
<1>13. ASSUME d.action = "end"
       PROVE  JobFits(j, rows, inverter, owner, known)
  <2>1. \A r \in Registers : inverter[r] \in Events => Keeps(rows, inverter[r], r)
    BY <1>12, ValueKept DEF RecordInv
  <2>2. IsTable(rows) /\ Source(rows, known)
    BY <1>2, <1>8, KnownSource, ShapedParts
  <2>3. /\ ~j.state.released /\ EndsAs(j.event, j.kind, j.state, j.next)
        /\ \E landedOnly \in BOOLEAN : j.left = RestorePlan(known, j.event, j.state, landedOnly)
    BY <1>6, <1>11, <1>13 DEF Records
  <2>4. JobFits(j, rows, inverter, owner, known)
    BY <1>6, <1>8, <1>9, <1>13, <2>1, <2>2, <2>3, StartsRestoring
  <2> QED BY <2>4
<1>14. ASSUME d.action = "activate"
       PROVE  JobFits(j, rows, inverter, owner, known)
  <2>1. /\ j.left = [i \in DOMAIN Writes[e] |-> <<Writes[e][i], {e}>>]
        /\ j.next.prior = j.state.prior /\ ~j.next.released
    BY <1>6, <1>11, <1>14 DEF Records
  <2>2. \A i \in DOMAIN Writes[e] : Writes[e][i] \in Range(Writes[e])
    BY <1>9, RangeIs
  <2>3. e \in Sales => DOMAIN Writes[e] \subseteq {1}
    <3>1. Writes[e] \in Seq(Registers)
      BY <1>9, SchedulerAssumption
    <3> QED BY <3>1 DEF Tame
  <2>4. \A i \in DOMAIN j.left : j.left[i][1] \in Range(Writes[e]) /\ j.left[i][2] = {e}
    BY <2>1, <2>2
  <2>5. \A r \in Registers : j.read[r] = None
    BY <1>6 DEF NoPriors
  <2>6. Starting(j, inverter, owner, known)
    BY <1>6, <2>1, <2>3, <2>4, <2>5 DEF Starting
  <2> QED BY <1>6, <1>9, <1>14, <2>6 DEF JobFits
<1>15. JobFits(j, rows, inverter, owner, known)
  BY <1>12, <1>13, <1>14
<1>16. JobsOwned'
  <2>1. \A q \in Requests : job'[q] = job[q]
    BY <1>1, SchedulerAssumption DEF Actors
  <2> QED BY <1>1, <1>8, <2>1 DEF RecordInv, Alone, JobsOwned, Awake
<1>17. Accurate(rows, tick') /\ TickWorks(job'[Tick], tick')
  BY <1>1, <1>2, <1>6, <1>7, <1>8, <1>9, <1>12 DEF TickWorks
<1>18. \A q \in Requests : AskFits(rows, asks'[q])
  BY <1>1 DEF RecordInv
<1> QED BY <1>1, <1>2, <1>6, <1>7, <1>12, <1>15, <1>16, <1>17, <1>18, JobStarts


-----------------------------------------------------------------------------
(* A command of a job. *)

\* The one job there is goes on.
LEMMA JobAdvances ==
    ASSUME RecordInv, NoneOverlaps', OneAsk', UNCHANGED <<rows, tick, asks, owner>>, Typed',
           NEW a \in Actors, job[a].kind # "none", \A b \in Actors \ {a} : job'[b] = job[b],
           job'[a].kind = job[a].kind, job'[a].event = job[a].event, job'[a].next = job[a].next,
           JobFits(job'[a], rows, inverter', owner, tick.known),
           OnRecord(rows, inverter', owner, job'[a])
    PROVE  RecordInv'
<1>1. Tick \in Actors /\ (\A q \in Requests : q \in Actors) /\ a \in {Tick} \cup Requests
  BY DEF Actors
<1>2. \A b \in Actors \ {a} : job[b].kind = "none"
  BY <1>1 DEF RecordInv, Alone, JobsOwned, NoneOverlaps, OneAsk, TakenUp, Awake, Actors
<1>3. JobsOwned'
  BY <1>1 DEF RecordInv, Alone, JobsOwned, Awake
<1>4. Alone'
  BY <1>3 DEF Alone
<1>5. \A b \in Actors : JobFits(job'[b], rows, inverter', owner, tick.known)
  BY <1>2 DEF JobFits
<1>6. TickWorks(job'[Tick], tick)
  BY <1>1 DEF RecordInv, TickWorks
<1>7. OnRecord(rows, inverter', owner, job'[Tick])
  <2>1. CASE a = Tick
    BY <2>1
  <2>2. CASE a # Tick
    BY <1>1, <2>2 DEF RecordInv, Alone, JobsOwned, OnRecord
  <2> QED BY <2>1, <2>2
<1> QED BY <1>4, <1>5, <1>6, <1>7 DEF RecordInv

\* Of j a command is sent, which sets r to v; k is what is left of it.
Sends(j, k, i, r, v, inv) ==
    /\ i \in DOMAIN j.left /\ r = j.left[i][1] /\ v \in j.left[i][2]
    /\ k.event = j.event /\ k.kind = j.kind /\ k.state = j.state /\ k.next = j.next
    /\ k.left = Rest(j.left, i) /\ k.failed = j.failed
    /\ k.read = [j.read EXCEPT ![r] = IF j.kind = "activate" /\ j.read[r] = None
                                      THEN inv[r] ELSE j.read[r]]

\* A command lands: one register is set, and the job has one command less.
LEMMA LandsIs ==
    ASSUME Shaped, NEW a \in Actors, CommandLands(a)
    PROVE  /\ job[a].kind \in {"activate", "end", "settle"} /\ job'[a].kind = job[a].kind
           /\ job'[a].event = job[a].event /\ job'[a].next = job[a].next
           /\ UNCHANGED <<rows, tick, asks, owner>> /\ \A b \in Actors \ {a} : job'[b] = job[b]
           /\ \E j, k, r, v, i :
                 /\ j = job[a] /\ k = job'[a] /\ inverter' = [inverter EXCEPT ![r] = v]
                 /\ Sends(j, k, i, r, v, inverter)
<1>1. PICK j : j = job[a]
  OBVIOUS
<1>2. PICK i \in DOMAIN j.left :
         LET r == j.left[i][1]
             y == IF j.kind = "activate" /\ j.read[r] = None THEN inverter[r] ELSE j.read[r]
         IN  /\ \E v \in j.left[i][2] : inverter' = [inverter EXCEPT ![r] = v]
             /\ job' = [job EXCEPT ![a] = Advance(j, Rest(j.left, i),
                                                  [j.read EXCEPT ![r] = y], j.failed)]
  BY <1>1, LandedSets
<1>3. PICK r : r = j.left[i][1]
  OBVIOUS
<1>4. PICK y : y = IF j.kind = "activate" /\ j.read[r] = None THEN inverter[r] ELSE j.read[r]
  OBVIOUS
<1>5. PICK v \in j.left[i][2] : inverter' = [inverter EXCEPT ![r] = v]
  BY <1>2, <1>3
<1>6. PICK k : k = Advance(j, Rest(j.left, i), [j.read EXCEPT ![r] = y], j.failed)
  OBVIOUS
<1>7. job'[a] = k /\ \A b \in Actors \ {a} : job'[b] = job[b]
  BY <1>2, <1>3, <1>4, <1>6 DEF Shaped
<1>8. /\ k.event = j.event /\ k.kind = j.kind /\ k.state = j.state /\ k.next = j.next
      /\ k.left = Rest(j.left, i) /\ k.failed = j.failed /\ k.read = [j.read EXCEPT ![r] = y]
  BY <1>6 DEF Advance
<1>9. /\ j.kind \in {"activate", "end", "settle"} /\ UNCHANGED <<rows, tick, asks, owner>>
  <2>1. IsJob(j) /\ j.kind # "none"
    BY <1>1 DEF CommandLands, IsNext, Shaped
  <2> QED BY <2>1 DEF IsJob, CommandLands
<1>10. Sends(j, k, i, r, v, inverter)
  BY <1>3, <1>4, <1>5, <1>8 DEF Sends
<1> QED BY <1>1, <1>5, <1>7, <1>8, <1>9, <1>10

\* Only the tick activates, and then it is awake.
LEMMA TickOnly ==
    ASSUME RecordInv, NEW a \in Actors, job[a].kind = "activate"
    PROVE  a = Tick /\ Awake
BY DEF RecordInv, Alone, JobsOwned, Actors

\* An activation's command lands: what it read is in nobody's hands, or it is
\* on record.
LEMMA ActivationLands ==
    ASSUME Shaped, RecordInv, NEW a \in Actors, CommandLands(a), job[a].kind = "activate"
    PROVE  /\ JobFits(job'[a], rows, inverter', owner, tick.known)
           /\ OnRecord(rows, inverter', owner, job'[a])
           /\ inverter' \in [Registers -> Values] /\ job'[a].read \in [Registers -> Values \cup {None}]
<1>0. PICK j, k, r, v, i : /\ j = job[a] /\ k = job'[a] /\ inverter' = [inverter EXCEPT ![r] = v]
                           /\ Sends(j, k, i, r, v, inverter)
  BY LandsIs
<1> USE DEF Sends
<1>1. j = job[Tick] /\ Awake /\ OnRecord(rows, inverter, owner, j)
  BY <1>0, TickOnly DEF RecordInv
<1>2. /\ j.event \in DOMAIN rows /\ Like(rows[j.event], j.state) /\ j.event \in Events
      /\ Starting(j, inverter, owner, tick.known)
  <2>1. JobFits(j, rows, inverter, owner, tick.known) /\ IsTable(rows)
    BY <1>0, ShapedParts DEF RecordInv
  <2> QED BY <1>0, <2>1 DEF JobFits, IsTable
<1>3. r \in Range(Writes[j.event]) /\ r \in Registers /\ v = j.event
  BY <1>0, <1>2, RangeIs DEF Starting
<1>4. /\ inverter \in [Registers -> Values] /\ j.read \in [Registers -> Values \cup {None}]
      /\ j.event \in Values /\ inverter[r] # None /\ inverter[r] \in Values
  BY <1>0, <1>2, <1>3, SchedulerAssumption DEF RecordInv, Typed, Values
<1>5. /\ inverter' = [inverter EXCEPT ![r] = j.event]
      /\ k.read = [j.read EXCEPT ![r] = IF j.read[r] = None THEN inverter[r] ELSE j.read[r]]
  BY <1>0, <1>3
<1>6. /\ inverter' \in [Registers -> Values] /\ k.read \in [Registers -> Values \cup {None}]
      /\ inverter'[r] = j.event /\ k.read[r] # None
      /\ k.read[r] = IF j.read[r] = None THEN inverter[r] ELSE j.read[r]
      /\ \A s \in Registers : s # r => inverter'[s] = inverter[s] /\ k.read[s] = j.read[s]
  BY <1>3, <1>4, <1>5
<1>7. OnRecord(rows, inverter', owner, k)
  <2> SUFFICES ASSUME NEW s \in Registers, inverter'[s] # owner[s]
               PROVE  \/ inverter'[s] \in Events /\ Keeps(rows, inverter'[s], s)
                      \/ k.kind = "activate" /\ inverter'[s] = k.event /\ k.read[s] # None
    BY DEF OnRecord
  <2>1. CASE s = r
    BY <1>0, <1>6, <2>1
  <2>2. CASE s # r
    <3>1. \/ inverter[s] \in Events /\ Keeps(rows, inverter[s], s)
          \/ j.kind = "activate" /\ inverter[s] = j.event /\ j.read[s] # None
      <4>1. OnRecord(rows, inverter, owner, j)
        BY <1>1
      <4>2. inverter[s] # owner[s]
        BY <1>6, <2>2
      <4> QED BY <4>1, <4>2 DEF OnRecord
    <3> QED BY <1>0, <1>6, <2>2, <3>1
  <2> QED BY <2>1, <2>2
<1>8. /\ DOMAIN k.left = DOMAIN j.left \ {i}
      /\ \A l \in DOMAIN k.left : k.left[l] = j.left[l]
  BY <1>0 DEF Rest, Restrict
<1>9. ASSUME j.read[r] = None, inverter[r] # owner[r]
      PROVE  \/ j.state.prior[r] # None
             \/ \E o \in Events \ {j.event} : Listing(tick.known, o, r)
  <2>1. inverter[r] \in Events /\ Keeps(rows, inverter[r], r)
    BY <1>3, <1>9, <1>1 DEF OnRecord
  <2>2. CASE inverter[r] = j.event
    BY <1>2, <2>1, <2>2 DEF Keeps, Like
  <2>3. CASE inverter[r] # j.event
    <3>1. PICK o \in Events : o = inverter[r] /\ o # j.event /\ Keeps(rows, o, r)
      BY <2>1, <2>3
    <3>2. Accurate(rows, tick) /\ Awake
      BY <1>1 DEF RecordInv
    <3>3. o \in DOMAIN rows /\ rows[o].prior[r] # None
      BY <3>1 DEF Keeps
    <3>4. o \in DOMAIN tick.known /\ Like(rows[o], tick.known[o])
      BY <1>3, <3>2, <3>3 DEF Accurate, Awake
    <3>5. Listing(tick.known, o, r)
      BY <3>3, <3>4 DEF Listing, Like
    <3> QED BY <3>1, <3>5
  <2> QED BY <2>2, <2>3
<1>10. Starting(k, inverter', owner, tick.known)
  <2>1. \A l \in DOMAIN k.left : k.left[l][1] \in Range(Writes[k.event]) /\ k.left[l][2] = {k.event}
    BY <1>0, <1>2, <1>8 DEF Starting
  <2>2. ASSUME NEW s \in Registers, k.read[s] # None
        PROVE  /\ inverter'[s] = k.event /\ s \in Range(Writes[k.event])
               /\ \/ k.read[s] = owner[s] \/ k.state.prior[s] # None
                  \/ \E o \in Events \ {k.event} : Listing(tick.known, o, s)
    <3>1. \/ j.read[s] # None
          \/ s = r /\ j.read[r] = None /\ k.read[r] = inverter[r]
      BY <1>6, <2>2
    <3>2. CASE j.read[s] # None
      <4>1. /\ inverter[s] = j.event /\ s \in Range(Writes[j.event])
            /\ \/ j.read[s] = owner[s] \/ j.state.prior[s] # None
               \/ \E o \in Events \ {j.event} : Listing(tick.known, o, s)
        BY <1>2, <3>2 DEF Starting
      <4>2. k.read[s] = j.read[s] /\ inverter'[s] = j.event
        BY <1>6, <3>2, <4>1
      <4> QED BY <1>0, <4>1, <4>2
    <3>3. CASE s = r /\ j.read[r] = None /\ k.read[r] = inverter[r]
      BY <1>0, <1>3, <1>6, <1>9, <3>3
    <3> QED BY <3>1, <3>2, <3>3
  <2>3. k.event \in Sales =>
          /\ DOMAIN k.left \subseteq {1}
          /\ k.failed \/ k.read # NoPriors => DOMAIN k.left = {}
          /\ k.failed => k.read = NoPriors
    BY <1>0, <1>2, <1>8 DEF Starting
  <2> QED BY <1>0, <1>2, <2>1, <2>2, <2>3 DEF Starting
<1>11. JobFits(k, rows, inverter', owner, tick.known)
  BY <1>0, <1>2, <1>10 DEF JobFits
<1> QED BY <1>0, <1>6, <1>7, <1>11

\* A restore's command lands: the register is the owner's or a holder's.
LEMMA RestoreLands ==
    ASSUME Shaped, RecordInv, NEW a \in Actors, CommandLands(a), job[a].kind \in {"end", "settle"}
    PROVE  /\ JobFits(job'[a], rows, inverter', owner, tick.known)
           /\ OnRecord(rows, inverter', owner, job'[a])
           /\ inverter' \in [Registers -> Values] /\ job'[a].read \in [Registers -> Values \cup {None}]
<1>0. PICK j, k, r, v, i : /\ j = job[a] /\ k = job'[a] /\ inverter' = [inverter EXCEPT ![r] = v]
                           /\ Sends(j, k, i, r, v, inverter)
  BY LandsIs
<1> USE DEF Sends
<1>1. /\ j.event \in DOMAIN rows /\ Like(rows[j.event], j.state) /\ j.event \in Events
      /\ Restoring(j, rows, inverter, owner) /\ PlanFits(j.left, j.event, rows, owner)
  <2>1. JobFits(j, rows, inverter, owner, tick.known) /\ IsTable(rows)
    BY <1>0, ShapedParts DEF RecordInv
  <2> QED BY <1>0, <2>1 DEF JobFits, IsTable, Restoring
<1>2. /\ r \in Range(Writes[j.event]) /\ r \in Registers
      /\ v = owner[r] \/ (v \in Events \ {j.event} /\ Keeps(rows, v, r))
  BY <1>0, <1>1, RangeIs DEF PlanFits
<1>3. inverter \in [Registers -> Values] /\ owner[r] \in Settings /\ v \in Values /\ v # j.event
  BY <1>0, <1>1, <1>2, SchedulerAssumption DEF RecordInv, Typed, Values
<1>4. /\ inverter' \in [Registers -> Values] /\ inverter'[r] = v
      /\ \A s \in Registers : s # r => inverter'[s] = inverter[s]
  BY <1>0, <1>2, <1>3
<1>5. OnRecord(rows, inverter', owner, k)
  <2>1. job[Tick].kind # "activate"
    BY <1>0, SchedulerAssumption DEF RecordInv, Alone, JobsOwned, NoneOverlaps, Awake, Actors
  <2> QED BY <1>2, <1>4, <2>1 DEF RecordInv, OnRecord
<1>6. /\ DOMAIN k.left = DOMAIN j.left \ {i}
      /\ \A l \in DOMAIN k.left : k.left[l] = j.left[l]
  BY <1>0 DEF Rest, Restrict
<1>7. PlanFits(k.left, k.event, rows, owner)
  <2> SUFFICES ASSUME NEW l \in DOMAIN k.left
               PROVE  LET s == k.left[l][1] IN
                      /\ s \in Range(Writes[k.event]) /\ Claimed(rows, s)
                      /\ \A w \in k.left[l][2] :
                            w = owner[s] \/ (w \in Events \ {k.event} /\ Keeps(rows, w, s))
    BY DEF PlanFits
  <2>1. l \in DOMAIN j.left /\ k.left[l] = j.left[l] /\ k.event = j.event
    BY <1>0, <1>6
  <2> QED BY <1>1, <2>1 DEF PlanFits
<1>8. ASSUME PlanSuffices(j.left, j.event, rows, inverter)
      PROVE  PlanSuffices(k.left, j.event, rows, inverter')
  <2>1. \A s \in Registers : s # r /\ LeftFor(j.left, s) => LeftFor(k.left, s)
    BY <1>0, <1>6 DEF LeftFor
  <2>2. ASSUME NEW s \in Registers, inverter'[s] = j.event
        PROVE  LeftFor(k.left, s)
    BY <1>3, <1>4, <1>8, <2>1, <2>2 DEF PlanSuffices
  <2>3. ASSUME NEW s \in Range(Writes[j.event]), NEW o \in Events \ {j.event},
               Keeps(rows, o, s), rows[o].mark = "none"
        PROVE  /\ inverter'[s] \in Events \ {j.event} \/ LeftFor(k.left, s)
               /\ \A l \in DOMAIN k.left : k.left[l][1] = s => k.left[l][2] \subseteq Events \ {j.event}
    <3>1. /\ inverter[s] \in Events \ {j.event} \/ LeftFor(j.left, s)
          /\ \A l \in DOMAIN j.left : j.left[l][1] = s => j.left[l][2] \subseteq Events \ {j.event}
      BY <1>8, <2>3 DEF PlanSuffices
    <3>2. s \in Registers
      BY <1>1, RangeIs
    <3> QED BY <1>0, <1>4, <1>6, <2>1, <3>1, <3>2
  <2> QED BY <2>2, <2>3 DEF PlanSuffices
<1>9. Restoring(k, rows, inverter', owner)
  BY <1>0, <1>1, <1>7, <1>8 DEF Restoring
<1>10. JobFits(k, rows, inverter', owner, tick.known)
  BY <1>0, <1>1, <1>9 DEF JobFits
<1>11. k.read \in [Registers -> Values \cup {None}]
  <2>1. j.read \in [Registers -> Values \cup {None}]
    BY <1>0 DEF RecordInv, Typed
  <2>2. k.read = [j.read EXCEPT ![r] = j.read[r]]
    BY <1>0
  <2> QED BY <2>1, <2>2
<1> QED BY <1>0, <1>4, <1>5, <1>10, <1>11

LEMMA LandsRecord ==
    ASSUME Shaped, RecordInv, NoneOverlaps', OneAsk', NEW a \in Actors, CommandLands(a)
    PROVE  RecordInv'
<1>1. /\ job[a].kind \in {"activate", "end", "settle"} /\ job'[a].kind = job[a].kind
      /\ job'[a].event = job[a].event /\ job'[a].next = job[a].next
      /\ UNCHANGED <<rows, tick, asks, owner>> /\ \A b \in Actors \ {a} : job'[b] = job[b]
  BY LandsIs
<1>2. /\ JobFits(job'[a], rows, inverter', owner, tick.known)
      /\ OnRecord(rows, inverter', owner, job'[a])
      /\ inverter' \in [Registers -> Values] /\ job'[a].read \in [Registers -> Values \cup {None}]
  BY <1>1, ActivationLands, RestoreLands
<1>3. Typed'
  BY <1>1, <1>2 DEF RecordInv, Typed
<1> QED BY <1>1, <1>2, <1>3, JobAdvances

LEMMA UnwrittenRecord ==
    ASSUME Shaped, RecordInv, NoneOverlaps', OneAsk', NEW a \in Actors, CommandUnwritten(a)
    PROVE  RecordInv'
<1>1. PICK j : j = job[a]
  OBVIOUS
<1>2. PICK i \in DOMAIN j.left : Fails(a, i)
  BY <1>1 DEF CommandUnwritten
<1>3. PICK k : k = Advance(j, Rest(j.left, i), j.read, TRUE)
  OBVIOUS
<1>4. job' = [job EXCEPT ![a] = k]
  BY <1>1, <1>2, <1>3, FailedSets
<1>5. /\ job'[a] = k /\ \A b \in Actors \ {a} : job'[b] = job[b]
      /\ UNCHANGED <<inverter, rows, tick, asks, owner>> /\ j.kind # "none"
  BY <1>1, <1>2, <1>4 DEF Shaped, CommandUnwritten, Fails, IsNext
<1>6. /\ k.event = j.event /\ k.kind = j.kind /\ k.state = j.state /\ k.next = j.next
      /\ k.left = Rest(j.left, i) /\ k.failed = TRUE /\ k.read = j.read
  BY <1>3 DEF Advance
<1>7. /\ DOMAIN k.left = DOMAIN j.left \ {i}
      /\ \A l \in DOMAIN k.left : k.left[l] = j.left[l]
  BY <1>6 DEF Rest, Restrict
<1>8. Typed'
  BY <1>1, <1>5, <1>6 DEF RecordInv, Typed
<1>9. JobFits(j, rows, inverter, owner, tick.known)
  BY <1>1 DEF RecordInv
<1>10. JobFits(k, rows, inverter, owner, tick.known)
  <2>1. CASE j.kind = "activate"
    <3>1. Starting(j, inverter, owner, tick.known)
      BY <1>9, <2>1 DEF JobFits
    <3>2. Starting(k, inverter, owner, tick.known)
      BY <1>6, <1>7, <3>1 DEF Starting
    <3> QED BY <1>6, <1>9, <2>1, <3>2 DEF JobFits
  <2>2. CASE j.kind # "activate"
    <3>1. Restoring(j, rows, inverter, owner)
      BY <1>5, <1>9, <2>2 DEF JobFits
    <3>2. Restoring(k, rows, inverter, owner)
      BY <1>6, <1>7, <3>1 DEF Restoring, PlanFits
    <3> QED BY <1>5, <1>6, <1>9, <2>2, <3>2 DEF JobFits
  <2> QED BY <2>1, <2>2
<1>11. OnRecord(rows, inverter, owner, k)
  <2>1. CASE a = Tick
    BY <1>1, <1>6, <2>1 DEF RecordInv, OnRecord
  <2>2. CASE a # Tick
    BY <1>1, <1>5, <2>2 DEF RecordInv, Alone, JobsOwned, NoneOverlaps, Awake, Actors, OnRecord
  <2> QED BY <2>1, <2>2
<1> QED BY <1>1, <1>5, <1>6, <1>8, <1>10, <1>11, JobAdvances

LEMMA CommandsRecord ==
    ASSUME Tame, Shaped, RecordInv, NoneOverlaps', OneAsk', NEW a \in Actors, Commands(a)
    PROVE  RecordInv'
<1>1. ~CommandUnverified(a)
  BY DEF CommandUnverified, Tame
<1> QED BY <1>1, LandsRecord, UnwrittenRecord DEF Commands

-----------------------------------------------------------------------------
(* The ends of jobs. *)

\* The state of an event that the tick works on is stored and known.
LEMMA StateRecord ==
    ASSUME Shaped, RecordInv, NoneOverlaps', OneAsk', UNCHANGED <<inverter, asks, owner>>,
           tick.at = "evaluating", NEW e \in tick.todo, NEW n \in Rows, Persists(e, n),
           n.mark = "none", Fits(owner, e, n),
           job'[Tick].kind = "none", job'[Tick].read \in [Registers -> Values \cup {None}],
           \A q \in Requests : job'[q] = job[q],
           \A r \in Registers : inverter[r] # owner[r] =>
               /\ inverter[r] \in Events
               /\ IF inverter[r] = e THEN n.prior[r] # None /\ ~n.released
                  ELSE Keeps(rows, inverter[r], r)
    PROVE  RecordInv'
<1>1. /\ IsTable(rows') /\ DOMAIN rows' = DOMAIN rows
      /\ \A o \in DOMAIN rows : o # e => rows'[o] = rows[o]
      /\ e \in DOMAIN rows => Like(rows'[e], n)
      /\ DOMAIN tick'.known = DOMAIN tick.known
      /\ \A o \in DOMAIN tick.known : o # e => tick'.known[o] = tick.known[o]
      /\ Like(tick'.known[e], n)
      /\ tick'.at = tick.at /\ tick'.todo = tick.todo \ {e}
  BY PersistsIs
<1>2. Accurate(rows, tick) /\ Awake /\ e \in DOMAIN tick.known /\ e \in DOMAIN rows
  BY DEF RecordInv, Accurate, Awake, Shaped
<1>3. \A q \in Requests : asks[q].at \in {"new", "done"} /\ job[q].kind = "none"
  BY <1>2 DEF RecordInv, Alone, NoneOverlaps, JobsOwned
<1>4. \A a \in Actors : job'[a].kind = "none"
  BY <1>3 DEF Actors
<1>5. Alone' /\ Typed'
  <2>1. JobsOwned'
    BY <1>4 DEF JobsOwned, Actors
  <2>2. \A a \in Actors : job'[a].read \in [Registers -> Values \cup {None}]
    BY DEF RecordInv, Typed, Actors
  <2> QED BY <2>1, <2>2 DEF Alone, RecordInv, Typed
<1>6. ASSUME NEW s, Like(s, n)
      PROVE  Fits(owner, e, s)
  BY <1>6 DEF Fits, Like
<1>7. TableFits(owner, rows') /\ TableFits(owner, tick'.known)
  BY <1>1, <1>2, <1>6 DEF RecordInv, TableFits
<1>8. Accurate(rows', tick')
  <2>1. Like(rows'[e], tick'.known[e])
    BY <1>1, <1>2 DEF Like
  <2>2. \A o \in DOMAIN tick'.known : o # e =>
           /\ tick'.known[o] = tick.known[o] /\ o \in DOMAIN tick.known
           /\ o \in DOMAIN rows => rows'[o] = rows[o]
    BY <1>1
  <2>3. \A o \in DOMAIN tick'.known :
           tick'.known[o].mark = "none" => o \in DOMAIN rows' /\ Like(rows'[o], tick'.known[o])
    BY <1>1, <1>2, <2>1, <2>2 DEF Accurate, Awake
  <2>4. ASSUME NEW o \in DOMAIN rows', NEW r \in Registers, rows'[o].prior[r] # None
        PROVE  o \in DOMAIN tick'.known /\ Like(rows'[o], tick'.known[o])
    <3>1. CASE o = e
      BY <1>1, <1>2, <2>1, <3>1
    <3>2. CASE o # e
      BY <1>1, <1>2, <2>2, <2>4, <3>2 DEF Accurate, Awake
    <3> QED BY <3>1, <3>2
  <2>5. \A o \in tick'.todo : tick'.known[o].mark = "none"
    BY <1>1, <1>2 DEF Accurate, Shaped
  <2> QED BY <1>1, <2>3, <2>4, <2>5 DEF Accurate
<1>9. \A q \in Requests : AskFits(rows', asks'[q])
  BY <1>3 DEF AskFits
<1>10. \A a \in Actors : JobFits(job'[a], rows', inverter, owner, tick'.known)
  BY <1>4 DEF JobFits
<1>11. TickWorks(job'[Tick], tick')
  BY DEF TickWorks
<1>12. OnRecord(rows', inverter, owner, job'[Tick])
  <2> SUFFICES ASSUME NEW r \in Registers, inverter[r] # owner[r]
               PROVE  inverter[r] \in Events /\ Keeps(rows', inverter[r], r)
    BY DEF OnRecord
  <2>1. CASE inverter[r] = e
    BY <1>1, <1>2, <2>1 DEF Keeps, Like
  <2>2. CASE inverter[r] # e
    BY <1>1, <2>2 DEF Keeps
  <2> QED BY <2>1, <2>2
<1> QED BY <1>5, <1>7, <1>8, <1>9, <1>10, <1>11, <1>12 DEF RecordInv

LEMMA HoldsRecord ==
    ASSUME Shaped, RecordInv, NoneOverlaps', OneAsk', NEW e, EventHolds(e)
    PROVE  RecordInv'
<1>1. PICK n \in Rows :
         /\ Persists(e, n) /\ n.mark = tick.known[e].mark
         /\ n.status = "active" => tick.known[e].status = "active"
         /\ \E d \in Decisions(tick.known, tick.window, e) :
               d.action = "hold" /\ n.prior = d.next.prior /\ n.released = d.next.released
         /\ e \in tick.todo /\ job[Tick] = NoJob
         /\ UNCHANGED <<inverter, job, asks, owner>>
  BY HoldsIs
<1>2. PICK known : known = tick.known
  OBVIOUS
<1>3. PICK window : window = tick.window
  OBVIOUS
<1>4. PICK d \in Decisions(known, window, e) :
         d.action = "hold" /\ n.prior = d.next.prior /\ n.released = d.next.released
  BY <1>1, <1>2, <1>3
<1>5. /\ tick.at = "evaluating" /\ known[e] \in Rows /\ e \in DOMAIN known
      /\ Decides(known, window, e, d)
  BY <1>1, <1>2, <1>3, <1>4, TickDecides DEF EventHolds, TickAt
<1>6. Accurate(rows, tick) /\ TableFits(owner, known)
  BY <1>2 DEF RecordInv
<1>7. e \in DOMAIN rows /\ Like(rows[e], known[e]) /\ known[e].mark = "none"
  BY <1>1, <1>2, <1>5, <1>6 DEF Accurate
<1>8. Fits(owner, e, known[e])
  BY <1>5, <1>6 DEF TableFits
<1>9. Records(known, e, d)
  BY <1>4, <1>5, <1>8, DecisionsRecord DEF Fits
<1>10. \/ n.prior = known[e].prior /\ n.released = known[e].released
       \/ ~Landed(known[e]) /\ n.prior = NoPriors /\ ~n.released
  BY <1>4, <1>9 DEF Records
<1>11. n.mark = "none" /\ Fits(owner, e, n)
  <2>1. n.mark = "none" /\ (n.status = "active" => known[e].status = "active")
    BY <1>1, <1>2, <1>7
  <2> QED BY <1>8, <1>10, <2>1 DEF Fits, NoPriors
<1>12. job'[Tick].kind = "none" /\ job'[Tick].read \in [Registers -> Values \cup {None}]
  BY <1>1, NoJobIsJob DEF RecordInv, Typed, Actors
<1>13. ASSUME NEW r \in Registers, inverter[r] # owner[r]
       PROVE  /\ inverter[r] \in Events
              /\ IF inverter[r] = e THEN n.prior[r] # None /\ ~n.released
                 ELSE Keeps(rows, inverter[r], r)
  <2>1. inverter[r] \in Events /\ Keeps(rows, inverter[r], r)
    BY <1>1, <1>13, NoJobIsJob DEF RecordInv, OnRecord
  <2>2. Keeps(rows, e, r) => n.prior[r] # None /\ ~n.released
    BY <1>7, <1>10 DEF Keeps, Like, Landed
  <2> QED BY <2>1, <2>2
<1>14. \A q \in Requests : job'[q] = job[q]
  BY <1>1
<1> QED BY <1>1, <1>5, <1>11, <1>12, <1>13, <1>14, StateRecord

\* What an activation stores of the values it read.
LEMMA CapturedFits ==
    ASSUME RecordInv, NEW j, j = job[Tick], j.kind = "activate", j.event \in Events,
           Fits(owner, j.event, j.state), NEW s, s.prior = j.state.prior,
           NEW p \in Captured(tick.known, j, s), NEW r \in Registers
    PROVE  /\ p[r] \in {None, owner[r]} /\ (p[r] # None => r \in Range(Writes[j.event]))
           /\ j.state.prior[r] # None => p[r] = j.state.prior[r]
           /\ j.read[r] # None => p[r] # None
<1> DEFINE handed == {tick.known[o].prior[r] : o \in Others(tick.known, j.event)} \ {None}
<1>1. p[r] \in IF j.state.prior[r] # None \/ j.read[r] = None THEN {j.state.prior[r]}
              ELSE IF handed # {} THEN handed ELSE {j.read[r]}
  BY DEF Captured
<1>2. Starting(j, inverter, owner, tick.known) /\ TableFits(owner, tick.known)
  <2>1. JobFits(j, rows, inverter, owner, tick.known)
    BY DEF RecordInv, Actors
  <2> QED BY <2>1 DEF JobFits, RecordInv
<1>3. \A x \in handed : x = owner[r]
  BY <1>2 DEF TableFits, Fits, Others
<1>4. ASSUME j.state.prior[r] = None, j.read[r] # None, handed = {}
      PROVE  j.read[r] = owner[r]
  <2>1. \/ j.read[r] = owner[r]
        \/ \E o \in Events \ {j.event} : Listing(tick.known, o, r)
    BY <1>2, <1>4 DEF Starting
  <2>2. \A o \in Events \ {j.event} : Listing(tick.known, o, r) => tick.known[o].prior[r] \in handed
    BY DEF Listing, Others
  <2> QED BY <1>4, <2>1, <2>2
<1>5. j.read[r] # None => r \in Range(Writes[j.event])
  BY <1>2 DEF Starting
<1>6. j.state.prior[r] \in {None, owner[r]}
      /\ (j.state.prior[r] # None => r \in Range(Writes[j.event]))
  BY DEF Fits
<1>7. None \notin handed
  OBVIOUS
<1> HIDE DEF handed
<1> QED BY <1>1, <1>3, <1>4, <1>5, <1>6, <1>7

LEMMA DispatchedRecord ==
    ASSUME Shaped, RecordInv, NoneOverlaps', OneAsk', EventDispatched
    PROVE  RecordInv'
<1>1. PICK j : j = job[Tick]
  OBVIOUS
<1>2. PICK n \in Rows :
         /\ Persists(j.event, n)
         /\ \E s \in Rows :
               /\ Like(s, IF j.failed THEN j.state ELSE j.next)
               /\ n.status = s.status /\ n.released = s.released /\ n.mark = s.mark
               /\ n.prior \in IF j.kind = "activate" THEN Captured(tick.known, j, s) ELSE {s.prior}
         /\ j.kind \in {"activate", "end"} /\ job' = [job EXCEPT ![Tick] = NoJob]
         /\ UNCHANGED <<inverter, asks, owner>>
  BY <1>1, DispatchedIs
<1>3. PICK s \in Rows :
         /\ Like(s, IF j.failed THEN j.state ELSE j.next)
         /\ n.status = s.status /\ n.released = s.released /\ n.mark = s.mark
         /\ n.prior \in IF j.kind = "activate" THEN Captured(tick.known, j, s) ELSE {s.prior}
  BY <1>2
<1>4. DOMAIN j.left = {} /\ Tick \in Actors
  BY <1>1 DEF EventDispatched, Sent, Actors
<1>5. PICK e : e = j.event
  OBVIOUS
<1>6. /\ tick.at = "evaluating" /\ e \in tick.todo /\ j.next.mark = "none" /\ e \in DOMAIN tick.known
      /\ tick.known[e].mark = "none" /\ Accurate(rows, tick) /\ Awake
  BY <1>1, <1>2, <1>5 DEF RecordInv, TickWorks, Accurate, Awake, Shaped
<1>7. /\ e \in DOMAIN rows /\ e \in Events /\ Like(rows[e], j.state) /\ Fits(owner, e, rows[e])
      /\ IF j.kind = "activate" THEN Starting(j, inverter, owner, tick.known)
         ELSE Restoring(j, rows, inverter, owner)
  <2>1. JobFits(j, rows, inverter, owner, tick.known) /\ IsTable(rows) /\ TableFits(owner, rows)
    BY <1>1, <1>4, ShapedParts DEF RecordInv
  <2> QED BY <1>2, <1>5, <2>1 DEF JobFits, IsTable, TableFits
<1>8. j.state.mark = "none"
  BY <1>6, <1>7 DEF Accurate, Like
<1>9. Fits(owner, e, j.state)
  BY <1>7 DEF Fits, Like
<1>10. /\ job'[Tick].kind = "none" /\ job'[Tick].read = NoPriors
       /\ \A q \in Requests : job'[q] = job[q]
  BY <1>2, <1>4, NoJobIsJob, SchedulerAssumption DEF Shaped, Actors, NoJob
<1>11. n.mark = "none"
  BY <1>3, <1>6, <1>8 DEF Like
<1>12. ASSUME j.kind = "activate"
       PROVE  /\ Fits(owner, e, n)
              /\ \A r \in Registers : inverter[r] # owner[r] =>
                    /\ inverter[r] \in Events
                    /\ IF inverter[r] = e THEN n.prior[r] # None /\ ~n.released
                       ELSE Keeps(rows, inverter[r], r)
  <2>1. /\ Starting(j, inverter, owner, tick.known) /\ n.prior \in Captured(tick.known, j, s)
        /\ s.prior = j.state.prior /\ j.next.prior = j.state.prior /\ ~j.next.released
    BY <1>3, <1>7, <1>12 DEF Like, Starting
  <2>2. ASSUME NEW r \in Registers
        PROVE  /\ n.prior[r] \in {None, owner[r]} /\ (n.prior[r] # None => r \in Range(Writes[e]))
               /\ j.state.prior[r] # None => n.prior[r] = j.state.prior[r]
               /\ j.read[r] # None => n.prior[r] # None
    <3>1. PICK p \in Captured(tick.known, j, s) : p = n.prior
      BY <2>1
    <3>2. /\ p[r] \in {None, owner[r]} /\ (p[r] # None => r \in Range(Writes[j.event]))
          /\ j.state.prior[r] # None => p[r] = j.state.prior[r]
          /\ j.read[r] # None => p[r] # None
      BY <1>1, <1>5, <1>7, <1>9, <1>12, <2>1, CapturedFits
    <3> QED BY <1>5, <3>1, <3>2
  <2>3. n.released => j.failed /\ j.state.released /\ n.status = j.state.status
    BY <1>3, <2>1 DEF Like
  <2>4. Fits(owner, e, n)
    BY <1>9, <1>11, <2>2, <2>3 DEF Fits
  <2>5. ASSUME NEW r \in Registers, inverter[r] # owner[r]
        PROVE  /\ inverter[r] \in Events
               /\ IF inverter[r] = e THEN n.prior[r] # None /\ ~n.released
                  ELSE Keeps(rows, inverter[r], r)
    <3>1. \/ inverter[r] \in Events /\ Keeps(rows, inverter[r], r)
          \/ inverter[r] = e /\ j.read[r] # None
      BY <1>1, <1>5, <2>5 DEF RecordInv, OnRecord
    <3>2. CASE inverter[r] # e
      BY <3>1, <3>2
    <3>3. CASE inverter[r] = e /\ Keeps(rows, e, r)
      BY <1>7, <2>2, <2>3, <3>3 DEF Keeps, Like
    <3>4. CASE inverter[r] = e /\ j.read[r] # None
      <4>1. j.read # NoPriors
        BY <3>4 DEF NoPriors
      <4>2. j.failed => e \notin Sales
        BY <1>5, <2>1, <4>1 DEF Starting
      <4>3. ~n.released
        BY <1>9, <2>3, <4>2 DEF Fits
      <4> QED BY <1>7, <2>2, <3>4, <4>3
    <3> QED BY <3>1, <3>2, <3>3, <3>4
  <2> QED BY <2>4, <2>5
<1>13. ASSUME j.kind = "end"
       PROVE  /\ Fits(owner, e, n)
              /\ \A r \in Registers : inverter[r] # owner[r] =>
                    /\ inverter[r] \in Events
                    /\ IF inverter[r] = e THEN n.prior[r] # None /\ ~n.released
                       ELSE Keeps(rows, inverter[r], r)
  <2>1. Restoring(j, rows, inverter, owner) /\ n.prior = s.prior
    BY <1>3, <1>7, <1>13
  <2>2. \A r \in Registers : inverter[r] # owner[r] =>
           inverter[r] \in Events /\ Keeps(rows, inverter[r], r)
    BY <1>1, <1>13 DEF RecordInv, OnRecord
  <2>3. CASE j.failed
    <3>1. n.prior = j.state.prior /\ n.released = j.state.released /\ n.status = j.state.status
      BY <1>3, <2>1, <2>3 DEF Like
    <3>2. Fits(owner, e, n)
      BY <1>9, <1>11, <3>1 DEF Fits
    <3>3. \A r \in Registers : Keeps(rows, e, r) => n.prior[r] # None /\ ~n.released
      BY <1>7, <3>1 DEF Keeps, Like
    <3> QED BY <2>2, <3>2, <3>3
  <2>4. CASE ~j.failed
    <3>1. /\ n.prior = j.next.prior /\ n.released = j.next.released /\ n.status = j.next.status
          /\ EndsAs(e, "end", j.state, j.next)
      BY <1>3, <1>5, <1>13, <2>1, <2>4 DEF Like, Restoring
    <3>2. Fits(owner, e, n)
      BY <1>9, <1>11, <3>1 DEF Fits, EndsAs, NoPriors
    <3>3. \A r \in Registers : inverter[r] # e
      <4>1. PlanSuffices(j.left, e, rows, inverter)
        BY <1>5, <2>1, <2>4 DEF Restoring
      <4> QED BY <1>4, <4>1 DEF PlanSuffices, LeftFor
    <3> QED BY <2>2, <3>2, <3>3
  <2> QED BY <2>3, <2>4
<1>14. job'[Tick].read \in [Registers -> Values \cup {None}]
  BY <1>10, NoPriorsTyped
<1>15. /\ Fits(owner, e, n)
       /\ \A r \in Registers : inverter[r] # owner[r] =>
             /\ inverter[r] \in Events
             /\ IF inverter[r] = e THEN n.prior[r] # None /\ ~n.released
                ELSE Keeps(rows, inverter[r], r)
  BY <1>2, <1>12, <1>13
<1>16. Persists(e, n) /\ UNCHANGED <<inverter, asks, owner>>
  BY <1>2, <1>5
<1> QED BY <1>6, <1>10, <1>11, <1>14, <1>15, <1>16, StateRecord

LEMMA SettledRecord ==
    ASSUME Shaped, RecordInv, NoneOverlaps', OneAsk', NEW a \in Actors, Settled(a)
    PROVE  RecordInv'
<1>1. PICK j : j = job[a]
  OBVIOUS
<1>2. PICK e : e = j.event
  OBVIOUS
<1>3. /\ j.kind = "settle" /\ DOMAIN rows' \subseteq DOMAIN rows
      /\ \A o \in DOMAIN rows : o # e => o \in DOMAIN rows' /\ rows'[o] = rows[o]
      /\ e \in DOMAIN rows' /\ ~j.failed => /\ rows'[e].prior = j.next.prior
                                            /\ rows'[e].released = j.next.released
                                            /\ rows'[e].mark = "none"
      /\ e \in DOMAIN rows /\ j.failed => e \in DOMAIN rows' /\ Like(rows'[e], j.state)
      /\ job' = [job EXCEPT ![a] = NoJob]
      /\ asks' = IF a = Tick THEN asks ELSE [asks EXCEPT ![a] = [NoAsk EXCEPT !.at = "done"]]
      /\ UNCHANGED <<inverter, tick, owner>>
  BY <1>1, <1>2, SettledIs
<1>4. DOMAIN j.left = {}
  BY <1>1 DEF Settled, Sent
<1>5. /\ e \in DOMAIN rows /\ e \in Events /\ Like(rows[e], j.state) /\ Fits(owner, e, rows[e])
      /\ Restoring(j, rows, inverter, owner)
  <2>1. JobFits(j, rows, inverter, owner, tick.known) /\ IsTable(rows) /\ TableFits(owner, rows)
    BY <1>1, ShapedParts DEF RecordInv
  <2> QED BY <1>2, <1>3, <2>1 DEF JobFits, IsTable, TableFits
<1>6. ~j.failed /\ e \in DOMAIN rows' =>
         rows'[e].prior = NoPriors /\ ~rows'[e].released /\ rows'[e].mark = "none"
  BY <1>3, <1>5 DEF Restoring, EndsAs
<1>7. a = Tick \/ (a \in Requests /\ asks[a].at = "settling" /\ a # Tick)
  BY <1>1, <1>3, SchedulerAssumption DEF RecordInv, Alone, JobsOwned, Actors
<1>8. a = Tick => Awake
  BY <1>1, <1>3 DEF RecordInv, Alone, JobsOwned
<1>9. a # Tick => ~Awake
  BY <1>7 DEF RecordInv, Alone, NoneOverlaps
<1>10. /\ \A b \in Actors : job'[b].kind = "none"
       /\ job'[a].read = NoPriors /\ \A b \in Actors \ {a} : job'[b] = job[b]
  <2>1. \A b \in Actors \ {a} : job[b].kind = "none"
    BY <1>7, <1>8, <1>9 DEF RecordInv, Alone, JobsOwned, NoneOverlaps, OneAsk, TakenUp, Actors
  <2>2. job'[a] = NoJob /\ \A b \in Actors \ {a} : job'[b] = job[b]
    BY <1>3 DEF Shaped
  <2> QED BY <2>1, <2>2, NoJobIsJob DEF NoJob
<1>11. Alone' /\ Typed'
  <2>1. JobsOwned'
    BY <1>10 DEF JobsOwned, Actors
  <2>2. \A b \in Actors : job'[b].read \in [Registers -> Values \cup {None}]
    BY <1>10, NoPriorsTyped DEF RecordInv, Typed
  <2> QED BY <1>3, <2>1, <2>2 DEF Alone, RecordInv, Typed
<1>12. TableFits(owner, rows')
  <2>1. ASSUME e \in DOMAIN rows'
        PROVE  Fits(owner, e, rows'[e])
    <3>1. CASE j.failed
      BY <1>3, <1>5, <3>1 DEF Fits, Like
    <3>2. CASE ~j.failed
      BY <1>6, <2>1, <3>2 DEF Fits, NoPriors
    <3> QED BY <3>1, <3>2
  <2>2. \A o \in DOMAIN rows' : o # e => Fits(owner, o, rows'[o])
    BY <1>3 DEF RecordInv, TableFits
  <2> QED BY <2>1, <2>2 DEF TableFits
<1>13. \A q \in Requests : AskFits(rows', asks'[q])
  <2>1. \A q \in Requests : asks'[q].at # "marking"
    <3>1. CASE a = Tick
      BY <1>3, <1>8, <3>1 DEF RecordInv, Alone, NoneOverlaps
    <3>2. CASE a # Tick
      <4>1. PICK k : k = [NoAsk EXCEPT !.at = "done"]
        OBVIOUS
      <4>2. k.at = "done"
        BY <4>1 DEF NoAsk
      <4>3. asks' = [asks EXCEPT ![a] = k] /\ AsksShaped
        BY <1>3, <3>2, <4>1, ShapedParts
      <4>4. \A q \in Requests : q # a => asks[q].at \in {"new", "done"}
        BY <1>7, <3>2 DEF RecordInv, Alone, OneAsk, TakenUp
      <4> QED BY <4>2, <4>3, <4>4 DEF AsksShaped
    <3> QED BY <3>1, <3>2
  <2> QED BY <2>1 DEF AskFits
<1>14. Accurate(rows', tick)
  <2>1. CASE a # Tick
    BY <1>9, <2>1 DEF Accurate, Awake
  <2>2. CASE a = Tick
    <3>1. /\ Accurate(rows, tick) /\ tick.at = "settling" /\ e \in DOMAIN tick.known \ tick.todo
          /\ tick.known[e].mark # "none"
      BY <1>1, <1>2, <1>3, <2>2 DEF RecordInv, TickWorks
    <3>2. \A o \in DOMAIN tick.known : tick.known[o].mark = "none" \/ o \in tick.todo =>
             o \in DOMAIN rows' /\ Like(rows'[o], tick.known[o])
      BY <1>3, <3>1 DEF Accurate
    <3>3. ASSUME NEW o \in DOMAIN rows', NEW r \in Registers, rows'[o].prior[r] # None
          PROVE  o \in DOMAIN tick.known /\ Like(rows'[o], tick.known[o])
      <4>1. CASE o # e
        BY <1>3, <3>1, <3>3, <4>1 DEF Accurate
      <4>2. CASE o = e
        <5>1. j.failed
          BY <1>6, <3>3, <4>2 DEF NoPriors
        <5>2. Like(rows'[e], j.state)
          BY <1>3, <1>5, <5>1
        <5>3. rows[e].prior[r] # None
          BY <1>5, <3>3, <4>2, <5>2 DEF Like
        <5>4. Like(rows[e], tick.known[e])
          BY <1>5, <3>1, <5>3 DEF Accurate
        <5> QED BY <1>5, <3>1, <4>2, <5>2, <5>4 DEF Like
      <4> QED BY <4>1, <4>2
    <3> QED BY <3>1, <3>2, <3>3 DEF Accurate
  <2> QED BY <2>1, <2>2
<1>15. OnRecord(rows', inverter, owner, job'[Tick])
  <2> SUFFICES ASSUME NEW r \in Registers, inverter[r] # owner[r]
               PROVE  inverter[r] \in Events /\ Keeps(rows', inverter[r], r)
    BY DEF OnRecord
  <2>1. inverter[r] \in Events /\ Keeps(rows, inverter[r], r)
    <3>1. job[Tick].kind # "activate"
      BY <1>1, <1>3, <1>9 DEF RecordInv, Alone, JobsOwned
    <3> QED BY <3>1 DEF RecordInv, OnRecord
  <2>2. CASE inverter[r] # e
    BY <1>3, <2>1, <2>2 DEF Keeps
  <2>3. CASE inverter[r] = e
    <3>1. j.failed
      <4>1. ~j.failed => PlanSuffices(j.left, e, rows, inverter)
        BY <1>2, <1>5 DEF Restoring
      <4> QED BY <1>4, <2>3, <4>1 DEF PlanSuffices, LeftFor
    <3>2. e \in DOMAIN rows' /\ Like(rows'[e], j.state)
      BY <1>3, <1>5, <3>1
    <3> QED BY <1>5, <2>1, <2>3, <3>2 DEF Keeps, Like
  <2> QED BY <2>2, <2>3
<1>16. \A b \in Actors : JobFits(job'[b], rows', inverter, owner, tick.known)
  BY <1>10 DEF JobFits
<1>17. TickWorks(job'[Tick], tick)
  BY <1>10 DEF TickWorks, Actors
<1>18. TableFits(owner, tick.known)
  BY DEF RecordInv
<1> QED BY <1>3, <1>11, <1>12, <1>13, <1>14, <1>15, <1>16, <1>17, <1>18 DEF RecordInv

-----------------------------------------------------------------------------
(* Every step keeps the record. *)

LEMMA StepRecord ==
    ASSUME Tame, Shaped, RecordInv, Next, spoilt' = {}
    PROVE  RecordInv'
<1>1. NoneOverlaps' /\ OneAsk' /\ ~Cut
  BY UnspoiltBefore DEF Next
<1>2. Tick \in Actors /\ \A q \in Requests : q \in Actors
  BY DEF Actors
<1>3. ASSUME TickStep
      PROVE  RecordInv'
  <2>1. ASSUME NEW e, \/ TickSettles(e) \/ TickLeavesRestore(e)
                      \/ EventHolds(e) \/ EventDispatches(e) \/ EventWaitsRetry(e)
        PROVE  RecordInv'
    BY <1>1, <2>1, TickSettlesRecord, LeavesRecord, HoldsRecord, DispatchesRecord
  <2>2. CASE TickBegins \/ EventDispatched \/ TickEnds
    BY <1>1, <2>2, BeginsRecord, DispatchedRecord, EndsRecord
  <2>3. CASE Commands(Tick) \/ Settled(Tick)
    BY <1>1, <1>2, <2>3, CommandsRecord, SettledRecord
  <2>4. CASE \E w \in SUBSET (Events \ Rules) : TickEvaluates(w)
    BY <1>1, <2>4, EvaluatesRecord
  <2> QED BY <1>3, <2>1, <2>2, <2>3, <2>4 DEF TickStep
<1>4. ASSUME NEW q \in Requests, Serves(q)
      PROVE  RecordInv'
  BY <1>1, <1>2, <1>4, ReadsRecord, MarksRecord, NothingRecord, RestoreStartsRecord, LeftRecord,
     CommandsRecord, SettledRecord DEF Serves
<1>5. ASSUME NEW q \in Requests, NEW e \in Targets, Put(q, e) \/ PutDisabled(q, e) \/ Delete(q, e)
      PROVE  RecordInv'
  BY <1>1, <1>5, PutRecord, PutDisabledRecord, DeleteRecord
<1>6. ASSUME NEW r \in Registers, NEW v \in Settings, OwnerSets(r, v)
      PROVE  RecordInv'
  BY <1>1, <1>6, OwnerRecord
<1>7. CASE Restart
  BY <1>1, <1>7, RestartRecord
<1> QED BY <1>3, <1>4, <1>5, <1>6, <1>7 DEF Next, Step

LEMMA SameStateRecord ==
    ASSUME RecordInv, UNCHANGED vars
    PROVE  RecordInv'
<1>1. Alone' /\ Typed'
  BY DEF vars, RecordInv, Alone, NoneOverlaps, OneAsk, TakenUp, JobsOwned, Awake, Typed
<1> QED BY <1>1 DEF vars, RecordInv

-----------------------------------------------------------------------------
(* The theorems about the owner's settings. *)

\* The invariant they rest on: until a write may be lost track of, what is not as
\* the owner set it holds the value of an event that has something to put back,
\* what an event has to put back is the owner's, and what is left of a restore
\* is all there is to undo.
THEOREM RecordIsKept ==
    ASSUME Tame
    PROVE  Spec => [](spoilt = {} => RecordInv)
<1> DEFINE Kept == spoilt = {} => RecordInv
<1>1. Init => Kept
  BY RecordInit
<1>2. SchedulerInv /\ Kept /\ [Next]_vars => Kept'
  <2> SUFFICES ASSUME SchedulerInv, Kept, [Next]_vars, spoilt' = {}
               PROVE  RecordInv'
    OBVIOUS
  <2>1. CASE Next
    <3>1. spoilt = {}
      BY <2>1, UnspoiltBefore DEF Next
    <3> QED BY <2>1, <3>1, StepRecord DEF SchedulerInv
  <2>2. CASE UNCHANGED vars
    <3>1. spoilt = {}
      BY <2>2 DEF vars
    <3> QED BY <2>2, <3>1, SameStateRecord
  <2> QED BY <2>1, <2>2
<1> QED BY <1>1, <1>2, SchedulerInvariant, PTL DEF Spec

\* A register that is not as the owner set it holds the value of a stored event
\* whose run is still to be undone, whatever commands fail and whenever Home
\* Assistant restarts outside an activation.
THEOREM SettingsStayOnRecord ==
    ASSUME Tame
    PROVE  Spec => []SettingsAreOnRecord
<1>1. (spoilt = {} => RecordInv) => SettingsAreOnRecord
  <2> SUFFICES ASSUME RecordInv, Quiet, NEW r \in Registers, inverter[r] # owner[r]
               PROVE  inverter[r] \in Events /\ Holds(inverter[r], r)
    BY DEF SettingsAreOnRecord, Quiet
  <2>1. job[Tick].kind = "none"
    BY NoJobIsJob DEF Quiet, Actors
  <2>2. inverter[r] \in Events /\ Keeps(rows, inverter[r], r)
    BY <2>1 DEF RecordInv, OnRecord
  <2> QED BY <2>2 DEF Keeps, Holds, Landed
<1> QED BY <1>1, RecordIsKept, PTL

\* What an event has captured is the owner's setting, never a value that an event
\* wrote, its own of an earlier try included.
THEOREM PriorsAreOwners ==
    ASSUME Tame
    PROVE  Spec => []HeldPriorIsOwners
<1>1. (spoilt = {} => RecordInv) => HeldPriorIsOwners
  BY DEF HeldPriorIsOwners, Quiet, RecordInv, TableFits, Fits
<1> QED BY <1>1, RecordIsKept, PTL

LEMMA RestoreEnds ==
    ASSUME Shaped, Next, mishaps' = mishaps, NEW a \in Actors,
           job[a].kind \in {"end", "settle"}, job'[a] = NoJob
    PROVE  DOMAIN job[a].left = {}
<1>1. a \in {Tick} \cup Requests /\ Tick \notin Requests /\ NoJob.kind = "none"
      /\ Tick \in Actors /\ \A q \in Requests : q \in Actors
  BY SchedulerAssumption, NoJobIsJob DEF Actors
<1>2. ASSUME job' = job
      PROVE  FALSE
  BY <1>1, <1>2
<1>3. ASSUME NEW b \in Actors, Commands(b)
      PROVE  FALSE
  <2>1. \A c \in Actors : SameJob(job[c], job'[c])
    BY <1>3, CommandsKeep
  <2> QED BY <1>1, <2>1 DEF SameJob
<1>4. ASSUME NEW b \in Actors, Settled(b)
      PROVE  DOMAIN job[a].left = {}
  <2>1. \A c \in Actors \ {b} : job'[c] = job[c]
    BY <1>4 DEF Settled, Shaped
  <2>2. a = b
    BY <1>1, <2>1
  <2> QED BY <1>4, <2>2 DEF Settled, Sent
<1>5. CASE TickStep
  <2>1. ASSUME NEW e, TickSettles(e)
        PROVE  FALSE
    BY <1>1, <2>1, TickSettlesIs
  <2>2. ASSUME NEW e, EventDispatches(e)
        PROVE  FALSE
    <3>1. /\ job'[Tick].kind \in {"end", "activate"} /\ \A b \in Actors \ {Tick} : job'[b] = job[b]
      BY <2>2, DispatchesIs
    <3> QED BY <1>1, <3>1
  <2>3. ASSUME NEW e, TickLeavesRestore(e) \/ EventHolds(e) \/ EventWaitsRetry(e)
        PROVE  FALSE
    BY <1>2, <2>3 DEF TickLeavesRestore, EventHolds, EventWaitsRetry
  <2>4. ASSUME TickBegins \/ TickEnds \/ \E w \in SUBSET (Events \ Rules) : TickEvaluates(w)
        PROVE  FALSE
    BY <1>2, <2>4 DEF TickBegins, TickEnds, TickEvaluates
  <2>5. CASE EventDispatched
    <3>1. \A c \in Actors \ {Tick} : job'[c] = job[c]
      BY <2>5 DEF EventDispatched, Shaped
    <3>2. a = Tick
      BY <1>1, <3>1
    <3> QED BY <2>5, <3>2 DEF EventDispatched, Sent
  <2> QED BY <1>1, <1>3, <1>4, <1>5, <2>1, <2>2, <2>3, <2>4, <2>5 DEF TickStep
<1>6. ASSUME NEW q \in Requests, Serves(q)
      PROVE  DOMAIN job[a].left = {}
  <2>1. ASSUME RestoreStarts(q)
        PROVE  FALSE
    BY <1>1, <2>1, RestoreStartsIs
  <2>2. ASSUME RemovalReads(q) \/ RemovalMarks(q) \/ NothingToRestore(q) \/ RestoreLeft(q)
        PROVE  FALSE
    BY <1>2, <2>2 DEF RemovalReads, RemovalMarks, NothingToRestore, RestoreLeft
  <2> QED BY <1>1, <1>3, <1>4, <1>6, <2>1, <2>2 DEF Serves
<1>7. ASSUME NEW q \in Requests, NEW e \in Targets, Put(q, e) \/ PutDisabled(q, e) \/ Delete(q, e)
      PROVE  FALSE
  BY <1>2, <1>7 DEF Put, PutDisabled, Delete
<1>8. ASSUME NEW r \in Registers, NEW v \in Settings, OwnerSets(r, v)
      PROVE  FALSE
  BY <1>2, <1>8 DEF OwnerSets
<1>9. ~Restart
  BY DEF Restart, Shaped
<1> QED BY <1>5, <1>6, <1>7, <1>8, <1>9 DEF Next, Step

\* An event that ends while another one holds a register of it leaves another
\* event's value there.
THEOREM HeldRegistersAreHandedBack ==
    ASSUME Tame
    PROVE  Spec => HandsBack
<1> DEFINE Kept == spoilt = {} => RecordInv
           Handed == \A a \in Actors, o \in Events, r \in Registers :
                        /\ job[a].kind \in {"end", "settle"} /\ job'[a] = NoJob
                        /\ ~job[a].failed /\ spoilt = {} /\ mishaps' = mishaps
                        /\ r \in Range(Writes[job[a].event]) /\ o # job[a].event
                        /\ Holds(o, r) /\ rows[o].mark = "none"
                        => inverter[r] \in Events \ {job[a].event}
<1>1. SchedulerInv /\ Kept /\ [Next]_vars => [Handed]_vars
  <2> SUFFICES ASSUME SchedulerInv, Kept, Next,
                      NEW a \in Actors, NEW o \in Events, NEW r \in Registers,
                      job[a].kind \in {"end", "settle"}, job'[a] = NoJob,
                      ~job[a].failed, spoilt = {}, mishaps' = mishaps,
                      r \in Range(Writes[job[a].event]), o # job[a].event,
                      Holds(o, r), rows[o].mark = "none"
               PROVE  inverter[r] \in Events \ {job[a].event}
    OBVIOUS
  <2>1. DOMAIN job[a].left = {}
    BY RestoreEnds DEF SchedulerInv
  <2>2. PlanSuffices(job[a].left, job[a].event, rows, inverter)
    <3>1. JobFits(job[a], rows, inverter, owner, tick.known)
      BY DEF RecordInv
    <3> QED BY <3>1 DEF JobFits, Restoring
  <2>3. Keeps(rows, o, r)
    BY DEF Holds, Landed, Keeps
  <2> QED BY <2>1, <2>2, <2>3 DEF PlanSuffices, LeftFor
<1>2. Spec => []Kept
  BY RecordIsKept
<1>3. Spec => [][Handed]_vars
  <2> HIDE DEF Handed, Kept
  <2> QED BY <1>1, <1>2, SchedulerInvariant, PTL DEF Spec
<1> QED BY <1>3 DEF HandsBack

-----------------------------------------------------------------------------
(* The types that Shaped leaves out. *)

PlanTyped(p) == \A i \in DOMAIN p : p[i] \in Registers \X SUBSET Values
JobTyped(j) ==
    /\ j.event \in Events \cup {None} /\ PlanTyped(j.left)
    /\ j.read \in [Registers -> Values \cup {None}] /\ j.failed \in BOOLEAN
Bounded ==
    /\ inverter \in [Registers -> Values] /\ owner \in [Registers -> Settings]
    /\ tick.at \in {"asleep", "settling", "evaluating"} /\ tick.window \subseteq Events \ Rules
    /\ \A a \in Actors : JobTyped(job[a])
    /\ settling \subseteq Events /\ mishaps <= MaxMishaps

LEMMA RestoreTyped ==
    ASSUME NEW known, IsTable(known), NEW e \in Events, NEW s \in Rows, NEW landedOnly
    PROVE  PlanTyped(RestorePlan(known, e, s, landedOnly))
<1>1. \A r \in Registers : BackTo(known, e, s, r) \subseteq Values
  <2> SUFFICES ASSUME NEW r \in Registers
               PROVE  BackTo(known, e, s, r) \subseteq Values
    OBVIOUS
  <2>1. Holders(known, e, r) \subseteq Values
    BY DEF Holders, Others, IsTable, Values
  <2>2. {s.prior[r]} \ {None} \subseteq Values
    BY RowFields
  <2> QED BY <2>1, <2>2 DEF BackTo
<1>2. \A i \in DOMAIN Writes[e] : Writes[e][i] \in Registers
  BY RangeIs
<1> QED BY <1>1, <1>2 DEF PlanTyped, RestorePlan

LEMMA ActivationTyped ==
    ASSUME NEW e \in Events, NEW s
    PROVE  PlanTyped(Activates(e, s).plan)
<1>1. \A i \in DOMAIN Writes[e] : Writes[e][i] \in Registers
  BY RangeIs
<1> QED BY <1>1 DEF PlanTyped, Activates, Values

LEMMA ModeTyped ==
    ASSUME NEW known, IsTable(known), NEW e \in DOMAIN known, NEW d \in Mode(known, e, known[e])
    PROVE  PlanTyped(d.plan)
<1> DEFINE s == known[e]
<1>1. e \in Events /\ s \in Rows
  BY DEF IsTable
<1>2. \/ \E n : d = Hold(n)
      \/ \E n : d = Ends(RestorePlan(known, e, s, FALSE), n)
      \/ d = Activates(e, s)
  <2>1. d \in SaleMode(known, e, s) \/ d \in ConditionMode(known, e, s)
    BY DEF Mode
  <2>2. CASE d \in SaleMode(known, e, s)
    BY <2>2, Zenon DEF SaleMode
  <2>3. CASE d \in ConditionMode(known, e, s)
    BY <2>3, Zenon DEF ConditionMode
  <2> QED BY <2>1, <2>2, <2>3
<1>3. PlanTyped(RestorePlan(known, e, s, FALSE)) /\ PlanTyped(Activates(e, s).plan)
  BY <1>1, RestoreTyped, ActivationTyped
<1>4. \A n : PlanTyped(Hold(n).plan)
  BY DEF PlanTyped, Hold
<1>5. \A p, n : Ends(p, n).plan = p
  BY DEF Ends
<1> HIDE DEF s
<1> QED BY <1>2, <1>3, <1>4, <1>5

LEMMA DecisionsTyped ==
    ASSUME NEW known, IsTable(known), NEW window, NEW e \in DOMAIN known,
           NEW d \in Decisions(known, window, e)
    PROVE  PlanTyped(d.plan)
<1> DEFINE s == known[e]
<1>1. e \in Events /\ s \in Rows
  BY DEF IsTable
<1>2. \/ \E m \in Mode(known, e, s) : d = m
      \/ \E n : d = Hold(n)
      \/ \E n, landedOnly : d = Ends(RestorePlan(known, e, s, landedOnly), n)
  BY DEF Decisions, Paused, UndoPartial, Blocked, OutOfWindow, Restore
<1>3. \A landedOnly : PlanTyped(RestorePlan(known, e, s, landedOnly))
  BY <1>1, RestoreTyped
<1>4. \A m \in Mode(known, e, s) : PlanTyped(m.plan)
  BY ModeTyped
<1>5. \A n : PlanTyped(Hold(n).plan)
  BY DEF PlanTyped, Hold
<1>6. \A p, n : Ends(p, n).plan = p
  BY DEF Ends
<1> HIDE DEF s
<1> QED BY <1>2, <1>3, <1>4, <1>5, <1>6

\* A job that starts, with a plan that is typed.
LEMMA StartsTyped ==
    ASSUME Shaped, Bounded, NEW a \in Actors, NEW kind, NEW e \in Events, NEW s, NEW plan, NEW next,
           PlanTyped(plan), Starts(a, kind, e, s, plan, next)
    PROVE  \A b \in Actors : JobTyped(job'[b])
<1> DEFINE j == [event |-> e, kind |-> kind, left |-> plan, state |-> s, next |-> next,
                 read |-> NoPriors, failed |-> FALSE]
<1>1. JobTyped(j)
  BY NoPriorsTyped DEF JobTyped
<1>2. job' = [job EXCEPT ![a] = j]
  BY DEF Starts
<1> HIDE DEF j
<1> QED BY <1>1, <1>2 DEF Shaped, Bounded

LEMMA SettlesTyped ==
    ASSUME Shaped, Bounded, NEW a \in Actors, NEW known, IsTable(known), NEW e \in DOMAIN known,
           Settles(a, known, e)
    PROVE  (\A b \in Actors : JobTyped(job'[b])) /\ settling' \subseteq Events
<1>1. e \in Events /\ known[e] \in Rows
  BY DEF IsTable
<1>2. PlanTyped(Restore(known, e, known[e]).plan)
  BY <1>1, RestoreTyped DEF Restore, Ends
<1>3. Starts(a, "settle", e, known[e], Restore(known, e, known[e]).plan,
             Restore(known, e, known[e]).next)
  BY DEF Settles
<1>4. settling' = settling \cup {e}
  BY DEF Settles
<1> QED BY <1>1, <1>2, <1>3, <1>4, StartsTyped DEF Bounded

LEMMA RestTyped ==
    ASSUME NEW p, PlanTyped(p), NEW i
    PROVE  PlanTyped(Rest(p, i))
BY DEF PlanTyped, Rest, Restrict

LEMMA FailsTyped ==
    ASSUME Shaped, Bounded, NEW a \in Actors, NEW i, Fails(a, i)
    PROVE  (\A b \in Actors : JobTyped(job'[b])) /\ mishaps' <= MaxMishaps
<1> DEFINE k == Advance(job[a], Rest(job[a].left, i), job[a].read, TRUE)
<1>1. JobTyped(k)
  BY RestTyped DEF Bounded, JobTyped, Advance
<1>2. job' = [job EXCEPT ![a] = k]
  BY FailedSets
<1>3. mishaps' <= MaxMishaps
  BY SchedulerAssumption DEF Fails, Shaped
<1> HIDE DEF k
<1> QED BY <1>1, <1>2, <1>3 DEF Bounded, Shaped

LEMMA CommandsTyped ==
    ASSUME Shaped, Bounded, NEW a \in Actors, Commands(a)
    PROVE  Bounded'
<1>1. UNCHANGED <<tick, settling, owner>>
  BY DEF Commands, CommandLands, CommandUnwritten, CommandUnverified
<1>2. CASE CommandLands(a)
  <2>1. PICK j, k, r, v, i :
           /\ j = job[a] /\ k = job'[a] /\ inverter' = [inverter EXCEPT ![r] = v]
           /\ Sends(j, k, i, r, v, inverter)
    BY <1>2, LandsIs
  <2>2. r \in Registers /\ v \in Values
    BY <2>1 DEF Sends, Bounded, JobTyped, PlanTyped
  <2>3. inverter' \in [Registers -> Values]
    BY <2>1, <2>2 DEF Bounded
  <2>4. JobTyped(k)
    <3>1. JobTyped(j)
      BY <2>1 DEF Bounded
    <3>2. PlanTyped(k.left)
      BY <2>1, <3>1, RestTyped DEF Sends, JobTyped
    <3>3. k.read \in [Registers -> Values \cup {None}]
      BY <2>1, <2>2, <3>1 DEF Sends, JobTyped, Bounded
    <3> QED BY <2>1, <3>1, <3>2, <3>3 DEF Sends, JobTyped
  <2>5. \A b \in Actors \ {a} : job'[b] = job[b]
    BY <1>2, LandsIs
  <2>6. mishaps' = mishaps
    BY <1>2 DEF CommandLands
  <2> QED BY <1>1, <2>1, <2>3, <2>4, <2>5, <2>6 DEF Bounded
<1>3. CASE CommandUnwritten(a) \/ CommandUnverified(a)
  <2>1. PICK i \in DOMAIN job[a].left :
           /\ Fails(a, i)
           /\ \/ UNCHANGED inverter
              \/ \E v \in job[a].left[i][2] : inverter' = [inverter EXCEPT ![job[a].left[i][1]] = v]
    BY <1>3 DEF CommandUnwritten, CommandUnverified
  <2>2. inverter' \in [Registers -> Values]
    <3>1. job[a].left[i] \in Registers \X SUBSET Values
      BY DEF Bounded, JobTyped, PlanTyped
    <3> QED BY <2>1, <3>1 DEF Bounded
  <2> QED BY <1>1, <2>1, <2>2, FailsTyped DEF Bounded
<1> QED BY <1>2, <1>3 DEF Commands

LEMMA NoJobTyped == JobTyped(NoJob)
<1>1. PlanTyped(<<>>)
  BY DEF PlanTyped
<1> QED BY <1>1, NoPriorsTyped DEF JobTyped, NoJob

LEMMA JobEndsTyped ==
    ASSUME Shaped, Bounded, NEW a \in Actors, job' = [job EXCEPT ![a] = NoJob]
    PROVE  \A b \in Actors : JobTyped(job'[b])
<1>1. job'[a] = NoJob /\ \A b \in Actors \ {a} : job'[b] = job[b]
  BY NoJobSet
<1> QED BY <1>1, NoJobTyped DEF Bounded

LEMMA SettledTyped ==
    ASSUME Shaped, Bounded, NEW a \in Actors, Settled(a)
    PROVE  Bounded'
<1>1. /\ UNCHANGED <<inverter, tick, mishaps, owner>> /\ settling' \subseteq settling
      /\ job' = [job EXCEPT ![a] = NoJob]
  BY DEF Settled
<1> QED BY <1>1, JobEndsTyped DEF Bounded

LEMMA TickStepTyped ==
    ASSUME Shaped, Bounded, TickStep
    PROVE  Bounded'
<1>0. Tick \in Actors /\ IsTable(tick.known) /\ tick.todo \subseteq DOMAIN tick.known
  BY DEF Actors, Shaped
<1>1. CASE TickBegins
  BY <1>1 DEF TickBegins, Bounded
<1>2. ASSUME NEW w \in SUBSET (Events \ Rules), TickEvaluates(w)
      PROVE  Bounded'
  <2>1. PICK enabled : tick' = [tick EXCEPT !.at = "evaluating", !.window = w, !.todo = enabled]
    BY <1>2 DEF TickEvaluates
  <2>2. tick'.at = "evaluating" /\ tick'.window = w
    BY <2>1 DEF Shaped
  <2> QED BY <1>2, <2>2 DEF TickEvaluates, Bounded
<1>3. CASE EventDispatched
  <2>1. PICK n \in Rows : Persists(job[Tick].event, n)
    BY <1>3, DispatchedIs
  <2>2. tick'.at = tick.at /\ tick'.window = tick.window
    <3>1. \E todo, known : tick' = [tick EXCEPT !.todo = todo, !.known = known]
      BY <2>1 DEF Persists
    <3> QED BY <3>1 DEF Shaped
  <2>3. /\ job' = [job EXCEPT ![Tick] = NoJob]
        /\ UNCHANGED <<inverter, settling, mishaps, owner>>
    BY <1>3 DEF EventDispatched
  <2> QED BY <1>0, <2>2, <2>3, JobEndsTyped DEF Bounded
<1>4. CASE TickEnds
  BY <1>4 DEF TickEnds, Asleep, Bounded
<1>5. CASE Commands(Tick) \/ Settled(Tick)
  BY <1>0, <1>5, CommandsTyped, SettledTyped
<1>6. ASSUME NEW e, TickSettles(e)
      PROVE  Bounded'
  <2>1. /\ e \in tick.todo /\ TickDone(e) /\ UNCHANGED <<inverter, mishaps, owner>>
        /\ Settles(Tick, tick.known, e)
    BY <1>6 DEF TickSettles, TickAt
  <2>2. (\A b \in Actors : JobTyped(job'[b])) /\ settling' \subseteq Events
    BY <1>0, <2>1, SettlesTyped
  <2>3. tick'.at = tick.at /\ tick'.window = tick.window
    BY <2>1, TodoShaped
  <2> QED BY <2>1, <2>2, <2>3 DEF Bounded
<1>7. ASSUME NEW e, TickLeavesRestore(e) \/ EventWaitsRetry(e)
      PROVE  Bounded'
  <2>1. TickDone(e) /\ UNCHANGED <<inverter, job, settling, mishaps, owner>>
    BY <1>7 DEF TickLeavesRestore, EventWaitsRetry
  <2>2. tick'.at = tick.at /\ tick'.window = tick.window
    BY <2>1, TodoShaped
  <2> QED BY <2>1, <2>2 DEF Bounded
<1>8. ASSUME NEW e, EventHolds(e)
      PROVE  Bounded'
  <2>1. PICK n \in Rows : Persists(e, n) /\ e \in tick.todo
    BY <1>8, HoldsIs
  <2>2. tick'.at = tick.at /\ tick'.window = tick.window
    BY <2>1, PersistsIs
  <2> QED BY <1>8, <2>2 DEF Bounded, EventHolds
<1>9. ASSUME NEW e, EventDispatches(e)
      PROVE  Bounded'
  <2>1. PICK d \in Decisions(tick.known, tick.window, e) :
           Starts(Tick, d.action, e, tick.known[e], d.plan, d.next)
    BY <1>9 DEF EventDispatches
  <2>2. e \in DOMAIN tick.known /\ e \in Events
    BY <1>0, <1>9 DEF EventDispatches, TickAt, IsTable
  <2>3. \A b \in Actors : JobTyped(job'[b])
    BY <1>0, <2>1, <2>2, DecisionsTyped, StartsTyped
  <2> QED BY <1>9, <2>3 DEF Bounded, EventDispatches
<1> QED BY <1>1, <1>2, <1>3, <1>4, <1>5, <1>6, <1>7, <1>8, <1>9 DEF TickStep

LEMMA StepTyped ==
    ASSUME Shaped, Bounded, Step
    PROVE  Bounded'
<1>1. CASE TickStep
  BY <1>1, TickStepTyped
<1>2. ASSUME NEW q \in Requests, Serves(q)
      PROVE  Bounded'
  <2>1. CASE RemovalReads(q) \/ RemovalMarks(q) \/ NothingToRestore(q) \/ RestoreLeft(q)
    BY <2>1 DEF RemovalReads, RemovalMarks, NothingToRestore, RestoreLeft, Bounded
  <2>2. CASE RestoreStarts(q)
    <3>1. /\ Settles(q, rows, asks[q].event) /\ asks[q].event \in DOMAIN rows
          /\ UNCHANGED <<inverter, tick, mishaps, owner>>
      BY <2>2 DEF RestoreStarts
    <3>2. q \in Actors /\ IsTable(rows)
      BY DEF Actors, Shaped
    <3>3. (\A b \in Actors : JobTyped(job'[b])) /\ settling' \subseteq Events
      BY <3>1, <3>2, SettlesTyped
    <3> QED BY <3>1, <3>3 DEF Bounded
  <2>3. CASE Commands(q) \/ Settled(q)
    BY <2>3, CommandsTyped, SettledTyped DEF Actors
  <2> QED BY <1>2, <2>1, <2>2, <2>3 DEF Serves
<1>3. ASSUME NEW q \in Requests, NEW e \in Targets, Put(q, e) \/ PutDisabled(q, e) \/ Delete(q, e)
      PROVE  Bounded'
  BY <1>3 DEF Put, PutDisabled, Delete, Bounded
<1>4. ASSUME NEW r \in Registers, NEW v \in Settings, OwnerSets(r, v)
      PROVE  Bounded'
  <2>1. v \in Values
    BY DEF Values
  <2>2. inverter' \in [Registers -> Values] /\ owner' \in [Registers -> Settings]
    BY <1>4, <2>1 DEF OwnerSets, Bounded
  <2> QED BY <1>4, <2>2 DEF OwnerSets, Bounded
<1>5. CASE Restart
  <2>1. \A a \in Actors : JobTyped(job'[a])
    BY <1>5, NoJobTyped DEF Restart
  <2>2. mishaps' <= MaxMishaps
    BY <1>5, SchedulerAssumption DEF Restart, Shaped
  <2> QED BY <1>5, <2>1, <2>2 DEF Restart, Asleep, Bounded
<1> QED BY <1>1, <1>2, <1>3, <1>4, <1>5 DEF Step

LEMMA BoundedInit == Init => Bounded
<1> SUFFICES ASSUME Init PROVE Bounded
  OBVIOUS
<1>1. \A a \in Actors : JobTyped(job[a])
  BY NoJobTyped DEF Init
<1>2. inverter \in [Registers -> Values] /\ owner \in [Registers -> Settings]
  BY DEF Init, Values
<1> QED BY <1>1, <1>2, SchedulerAssumption DEF Init, Asleep, Bounded

\* Every state is well typed.
THEOREM SchedulerTypeCorrect == Spec => []TypeOK
<1> DEFINE Typing == Bounded /\ spoilt \subseteq {"overlap", "late", "cut", "beside"}
<1>1. Init => Typing
  BY BoundedInit DEF Init
<1>2. SchedulerInv /\ Typing /\ [Next]_vars => Typing'
  <2> SUFFICES ASSUME SchedulerInv, Typing, [Next]_vars
               PROVE  Typing'
    OBVIOUS
  <2>1. CASE Next
    <3>1. Bounded'
      BY <2>1, StepTyped DEF SchedulerInv, Next
    <3>2. spoilt' \subseteq {"overlap", "late", "cut", "beside"}
      BY <2>1 DEF Next, Spoils
    <3> QED BY <3>1, <3>2
  <2>2. CASE UNCHANGED vars
    BY <2>2 DEF vars, Bounded
  <2> QED BY <2>1, <2>2
<1>3. SchedulerInv /\ Typing => TypeOK
  <2> SUFFICES ASSUME Shaped, Typing
               PROVE  TypeOK
    BY DEF SchedulerInv
  <2>1. /\ DOMAIN rows \subseteq Events /\ \A e \in DOMAIN rows : rows[e] \in Rows
        /\ DOMAIN tick.known \subseteq Events /\ \A e \in DOMAIN tick.known : tick.known[e] \in Rows
        /\ tick.todo \subseteq DOMAIN tick.known
    BY DEF Shaped, IsTable
  <2>2. \A a \in Actors :
           /\ job[a].event \in Events \cup {None}
           /\ job[a].kind \in {"none", "activate", "end", "settle"}
           /\ \A i \in DOMAIN job[a].left : job[a].left[i] \in Registers \X SUBSET Values
           /\ {job[a].state, job[a].next} \subseteq Rows
           /\ job[a].read \in [Registers -> Values \cup {None}] /\ job[a].failed \in BOOLEAN
    BY DEF Shaped, IsJob, Bounded, JobTyped, PlanTyped
  <2>3. asks \in [Requests -> Asks] /\ mishaps \in 0..MaxMishaps
    BY SchedulerAssumption DEF Shaped, Bounded
  <2> QED BY <2>1, <2>2, <2>3 DEF TypeOK, Asks, Bounded
<1> QED BY <1>1, <1>2, <1>3, SchedulerInvariant, PTL DEF Spec
=============================================================================
