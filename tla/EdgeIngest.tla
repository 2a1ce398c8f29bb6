------------------------------ MODULE EdgeIngest ------------------------------
(***************************************************************************)
(* What an adopted edge box reports of the grid of one inverter: readings, *)
(* which edge_reading_pipeline.process derives from the stored one before, *)
(* and grid events, which are kept apart and merged into it (edge_api.py,  *)
(* reading_store.py).  Requests are served concurrently; a step is the     *)
(* code between two awaits of a request.                                   *)
(*                                                                         *)
(* Of a reading only what it sees of the grid is kept.  The box's clock is *)
(* the server's.                                                           *)
(***************************************************************************)
EXTENDS Naturals, Sequences, FiniteSets, FiniteSetsExt

CONSTANTS
    Frames,       \* what a reading may be: among those below
    MaxRequests,  \* bound: requests that run at a time
    StaleAfter,        \* EDGE_CONFIRM_STALENESS_MS
    SourceAllowed,\* the inverter's grid_confirmed_source_allowed
    MaxTime,      \* bound: of the clock
    MaxReadings,  \* bound: readings
    MaxEvents     \* bound: grid events

\* The grid is there, is not, cannot be seen; cannot be seen and the pack
\* voltage contradicts the charge; a frame the pipeline refuses.
FrameKinds == {"up", "down", "blind", "odd", "bad"}

ASSUME IngestAssumption ==
    /\ Frames \subseteq FrameKinds
    /\ SourceAllowed \in BOOLEAN
    /\ {MaxRequests, StaleAfter, MaxReadings, MaxEvents} \subseteq Nat
    /\ MaxTime \in Nat \ {0}

VARIABLES
    now,
    past,       \* readings_raw of the inverter, by timestamp
    gridEvents, \* the table grid_events
    requests,   \* per slot, the request it serves
    buffer,     \* the box: readings it has no answer for
    unsaid,      \*          the grid event it has no answer for
    awaited,    \*          the requests whose answers it waits for
    taken       \*          readings so far

ingestVars == <<now, past, gridEvents, requests, buffer, unsaid, awaited,
                taken>>

Slots == 1..MaxRequests
Times == 1..MaxTime
Verdicts == {"yes", "no", "unknown"}
Reading == [ts : Times, frame : FrameKinds]
GridEvent == [at : Times, state : {"lost", "restored"}]

\* A stored reading: what it saw, what it says, since when, and the time of
\* the box's confirmation it holds on to, if any.
NoRow == [ts |-> 0, raw |-> "unknown", present |-> "unknown", since |-> 0, edge |-> 0,
          odd |-> FALSE]
NoEvent == [at |-> 0, state |-> "none"]
NoCall == [at |-> "free", todo |-> <<>>, row |-> NoRow, event |-> NoEvent, size |-> 0]

IngestInit ==
    /\ now = 1
    /\ past = [t \in Times |-> NoRow]
    /\ gridEvents = {}
    /\ requests = [s \in Slots |-> NoCall]
    /\ buffer = <<>>
    /\ unsaid = NoEvent
    /\ awaited = {}
    /\ taken = 0

-----------------------------------------------------------------------------
(* The pipeline: pure functions of a reading, the row before and the time. *)

\* derive_grid_present
RawUnmapped(f) == CASE f = "up" -> "yes" [] f = "down" -> "no" [] OTHER -> f  \* mutant
Raw(f) == CASE f = "up" -> "yes" [] f = "down" -> "no" [] OTHER -> "unknown"

\* with_grid_event: an event no newer than the row is in it already.
WithEvent(prev, e) ==
    LET state == IF e.state = "restored" THEN "yes" ELSE "no" IN
    IF e = NoEvent \/ e.at <= prev.ts THEN prev
    ELSE [prev EXCEPT !.present = state, !.edge = e.at,
                      !.since = IF prev.present = state THEN @ ELSE e.at]

\* A first "down" holds the prior state.
PrevRaw(prev) == IF prev.raw # "unknown" THEN prev.raw ELSE prev.present
Debounced(raw, prev) ==
    IF raw = "no" /\ PrevRaw(prev) # "no" THEN prev.present ELSE raw

\* _should_keep_edge_confirmed
KeepsForEver(aggregate, prev) ==  \* mutant
    SourceAllowed /\ aggregate = "unknown" /\ prev.edge # 0 /\ prev.edge <= now
Keeps(aggregate, prev) ==
    /\ SourceAllowed
    /\ aggregate = "unknown"
    /\ prev.edge # 0
    /\ prev.edge <= now /\ now <= prev.edge + StaleAfter

Processed(r, prev) ==
    LET aggregate == Debounced(Raw(r.frame), prev)
        keep == Keeps(aggregate, prev)
        present == IF keep THEN prev.present ELSE aggregate
    IN  [ts |-> r.ts, raw |-> Raw(r.frame), present |-> present,
         since |-> IF present # prev.present \/ prev.since = 0 THEN r.ts ELSE prev.since,
         edge |-> IF keep THEN prev.edge ELSE 0,
         odd |-> r.frame = "odd"]

\* grid_event_veto, of a plausible event: the row before contradicts itself.
Vetoed(e, prev) == e.state = "lost" /\ prev.odd

-----------------------------------------------------------------------------
(* The requests.                                                           *)

\* live_snapshot and latest_grid_event
Newest ==
    LET stored == {t \in Times : past[t] # NoRow} IN
    IF stored = {} THEN NoRow ELSE past[Max(stored)]
Latest ==
    IF gridEvents = {} THEN NoEvent
    ELSE CHOOSE e \in gridEvents : \A d \in gridEvents : d.at <= e.at

\* _ingest_one: the row before is read, then the event; then the reading is
\* processed, and stored unless it is refused.
ReadPrevious(s) ==
    /\ requests[s].at = "reading"
    /\ requests[s].todo # <<>>
    /\ requests' = [requests EXCEPT ![s].at = "event", ![s].row = Newest]
    /\ UNCHANGED <<now, past, gridEvents, buffer, unsaid, awaited, taken>>
Process(s) ==
    /\ requests[s].at = "event"
    /\ LET r == Head(requests[s].todo) IN
       requests' = IF r.frame = "bad"
           THEN [requests EXCEPT ![s].at = "reading", ![s].todo = Tail(@), ![s].row = NoRow]
           ELSE [requests EXCEPT ![s].at = "append",
                                 ![s].row = Processed(r, WithEvent(@, Latest))]
    /\ UNCHANGED <<now, past, gridEvents, buffer, unsaid, awaited, taken>>
Append1(s) ==
    /\ requests[s].at = "append"
    /\ past' = [past EXCEPT ![requests[s].row.ts] = requests[s].row]
    /\ requests' = [requests EXCEPT ![s].at = "reading", ![s].todo = Tail(@), ![s].row = NoRow]
    /\ UNCHANGED <<now, gridEvents, buffer, unsaid, awaited, taken>>

\* EdgeGridEventView.post: the veto asks for the row before, then the event is
\* stored, once per confirmation time.
Judge(s) ==
    /\ requests[s].at = "judge"
    /\ requests' = [requests EXCEPT
           ![s].at = IF Vetoed(requests[s].event, Newest) THEN "answer" ELSE "insert"]
    /\ UNCHANGED <<now, past, gridEvents, buffer, unsaid, awaited, taken>>
Known(e) == \E d \in gridEvents : d.at = e.at
Insert(s) ==
    /\ requests[s].at = "insert"
    /\ gridEvents' = IF Known(requests[s].event) THEN gridEvents
                     ELSE gridEvents \cup {requests[s].event}
    /\ requests' = [requests EXCEPT ![s].at = "answer"]
    /\ UNCHANGED <<now, past, buffer, unsaid, awaited, taken>>

\* The request is answered; the box may have given it up.
Respond(s) ==
    /\ requests[s].at = "answer" \/ (requests[s].at = "reading" /\ requests[s].todo = <<>>)
    /\ IF s \in awaited
       THEN /\ buffer' = SubSeq(buffer, requests[s].size + 1, Len(buffer))
            /\ unsaid' = IF requests[s].event = unsaid THEN NoEvent ELSE unsaid
       ELSE UNCHANGED <<buffer, unsaid>>
    /\ requests' = [requests EXCEPT ![s] = NoCall]
    /\ awaited' = awaited \ {s}
    /\ UNCHANGED <<now, past, gridEvents, taken>>

-----------------------------------------------------------------------------
(* The box.                                                                *)

\* A reading of the inverter; time passes until the next one may be taken.
Take ==
    /\ taken < MaxReadings /\ now < MaxTime
    /\ taken' = taken + 1
    /\ now' = now + 1
    /\ \E f \in Frames : buffer' = Append(buffer, [ts |-> now, frame |-> f])
    /\ UNCHANGED <<past, gridEvents, requests, unsaid, awaited>>
TimePasses ==
    /\ now' = Min({now + 1, MaxTime})
    /\ UNCHANGED <<past, gridEvents, requests, buffer, unsaid, awaited, taken>>

\* It confirms that the grid was lost, or is back.
Confirm ==
    /\ unsaid = NoEvent
    /\ Cardinality(gridEvents) < MaxEvents
    /\ \E st \in {"lost", "restored"} : unsaid' = [at |-> now, state |-> st]
    /\ UNCHANGED <<now, past, gridEvents, requests, buffer, awaited, taken>>

\* It sends what it has no answer for, again when it waited too long.
Sends(s, request, former) ==
    /\ s = Min({t \in Slots : requests[t] = NoCall})
    /\ requests' = [requests EXCEPT ![s] = request]
    /\ awaited' = (awaited \ former) \cup {s}
    /\ UNCHANGED <<now, past, gridEvents, buffer, unsaid, taken>>
Upload(s) ==
    /\ requests[s] = NoCall
    /\ buffer # <<>>
    /\ Sends(s, [NoCall EXCEPT !.at = "reading", !.todo = buffer, !.size = Len(buffer)],
             {t \in Slots : requests[t].size > 0})
SendEvent(s) ==
    /\ requests[s] = NoCall
    /\ unsaid # NoEvent
    /\ Sends(s, [NoCall EXCEPT !.at = "judge", !.event = unsaid],
             {t \in Slots : requests[t].event # NoEvent})

-----------------------------------------------------------------------------
IngestNext ==
    \/ Take \/ TimePasses \/ Confirm
    \/ \E s \in Slots : \/ ReadPrevious(s) \/ Process(s) \/ Append1(s)
                         \/ Judge(s) \/ Insert(s) \/ Respond(s)
                         \/ Upload(s) \/ SendEvent(s)
IngestSpec == IngestInit /\ [][IngestNext]_ingestVars

-----------------------------------------------------------------------------
(* Properties.                                                             *)

StoredRow == [ts : Nat, raw : Verdicts, present : Verdicts, since : Nat, edge : Nat, odd : BOOLEAN]
IngestTypeOK ==
    /\ now \in Times /\ taken \in 0..MaxReadings
    /\ past \in [Times -> StoredRow]
    /\ gridEvents \subseteq GridEvent
    /\ requests \in [Slots -> [at : {"free", "reading", "event", "append", "judge", "insert",
                                     "answer"},
                               todo : Seq(Reading), row : StoredRow,
                               event : GridEvent \cup {NoEvent}, size : Nat]]
    /\ buffer \in Seq(Reading)
    /\ unsaid \in GridEvent \cup {NoEvent}
    /\ awaited \subseteq Slots

\* A row that names a confirmation of the box says what that event said, also
\* when the confirmation came over from row to row, requests overlapped, a
\* reading was sent twice or the events were out of order.
ConfirmedSaysSo ==
    \A t \in Times : past[t].edge # 0 =>
        \E e \in gridEvents : /\ e.at = past[t].edge
                              /\ past[t].present = (IF e.state = "restored" THEN "yes" ELSE "no")

\* A confirmation is held for a time only: no reading taken later than that
\* carries it, although each row takes it over from the one before.
HoldEnds == \A t \in Times : past[t].edge # 0 => t <= past[t].edge + StaleAfter

\* "a first `down` holds the prior state" (_debounce_grid_present): not when
\* the box sends it again, since the row before it is then itself.
FirstDownHolds ==
    \A t \in Times :
        (past[t].present = "no" /\ past[t].raw = "no" /\ gridEvents = {})
            => \E u \in Times : u < t /\ past[u].raw = "no"

\* A reading from before the loss does not say the grid is gone.
NotGoneBefore == \A t \in Times : past[t].edge <= past[t].ts
=============================================================================
