----------------------------- MODULE ReadingOutbox -----------------------------
(***************************************************************************)
(* How readings leave for the cloud: the rows of reading_store.py, the     *)
(* drain of reading_sender.py with its Live gate (live_gate.py), and the   *)
(* lifecycle (lifecycle.py) that this drain and the command poller end.    *)
(*                                                                         *)
(* One inverter.  A reading is its timestamp, and timestamps count the     *)
(* instants at which one may be taken.  Rows are appended, aged and pruned *)
(* while a drain is under way; each store method is one statement in a     *)
(* thread pool, so a drain is cut wherever it awaits one, the broker or    *)
(* the cloud.                                                              *)
(*                                                                         *)
(* External: the cloud, which answers any POST in any way it may, and the  *)
(* broker.  `uploaded` is what either of them has received.                *)
(***************************************************************************)
EXTENDS Naturals, FiniteSetsExt

CONSTANTS
    N,            \* readings 1..N
    Powers,       \* powers that differ by deltaW or more
    BatchMax,     \* INGEST_BATCH_MAX
    MaxAttempts,  \* MAX_SEND_ATTEMPTS
    Heartbeat,    \* heartbeatSec
    Configs,      \* what the server sets: [primary, live]
    Servers,      \* what it thinks of the device in this instance
    MaxArrivals,  \* bound: times a box sends the same reading
    MaxFloor,     \* bound: readings that may get too old
    MaxCrashes    \* bound: restarts while something runs

ASSUME OutboxAssumption ==
    /\ {N, BatchMax, MaxAttempts, Heartbeat} \subseteq Nat \ {0}
    /\ {MaxArrivals, MaxCrashes} \subseteq Nat /\ MaxFloor \in 0..N
    /\ Configs \subseteq [primary: BOOLEAN, live: BOOLEAN]
    /\ Servers \subseteq {"serves", "stops", "evicts"}

VARIABLES
    row,       \* readings_raw: the row of a reading, or NoRow
    power,     \* the power a reading carries
    arrivals,  \* how often it was appended
    floor,     \* the readings up to it are beyond the backfill cap
    drain,     \* the drain under way
    gate,      \* the inverter's LiveGate
    control,   \* MqttControlState
    cooling,   \* SenderHealth.in_cooldown
    life,      \* LifecycleState.state
    stored,    \* the lifecycle_state row
    poller,    \* the command poller: on, saving or off
    server,    \* external: what the cloud thinks of this device
    crashes,   \* restarts so far
    uploaded,  \* history: readings the cloud or the broker received
    withheld,  \* history: readings the Live gate rejected
    thinned,   \* history: those of them that the present gate rejected
    passed,    \* history: readings the present gate let out
    aged,      \* history: readings skip_aged skipped
    refused    \* history: how often the cloud refused a reading

volatile == <<drain, gate, control, cooling, life, poller>>
cloud == <<server, uploaded, refused>>
thin == <<withheld, thinned, passed>>
history == <<thin, aged>>
vars == <<row, power, arrivals, floor, drain, gate, control, cooling, life,
          stored, poller, server, crashes, uploaded, withheld, thinned, passed, aged,
          refused>>

Readings == 1..N
NoRow == [state |-> "none", attempts |-> 0]
Open == {"pending", "failed"}
Row == [state: Open, attempts: 0..(MaxAttempts - 1)]
       \cup [state: {"sent", "skipped"}, attempts: 0..MaxAttempts]
Lives == {"active", "paused", "deprovisioned"}
NoDrain == [at |-> "idle", floor |-> 0, send |-> {}, left |-> {}, retries |-> {},
            rejected |-> {}, gating |-> FALSE, sent |-> {}, save |-> "active"]
NewGate == [last |-> 0, failed |-> FALSE, sent |-> 0]   \* 0: none yet
NewControl == [primary |-> FALSE, bootstrapped |-> FALSE, live |-> FALSE]

TypeOK ==
    /\ row \in [Readings -> Row \cup {NoRow}]
    /\ power \in [Readings -> Powers]
    /\ arrivals \in [Readings -> 0..MaxArrivals]
    /\ floor \in 0..MaxFloor
    /\ drain \in [at: {"idle", "aged", "gated", "ready", "published", "posting",
                       "accepted", "results", "rejected", "stopped", "evicted", "off"},
                  floor: 0..N, gating: BOOLEAN, save: Lives,
                  send: SUBSET Readings, left: SUBSET Readings, sent: SUBSET Readings,
                  retries: SUBSET Readings, rejected: SUBSET Readings]
    /\ gate \in [last: 0..N, failed: BOOLEAN, sent: 0..N]
    /\ control \in [primary: BOOLEAN, bootstrapped: BOOLEAN, live: BOOLEAN]
    /\ cooling \in BOOLEAN
    /\ {life, stored} \subseteq Lives
    /\ poller \in {"on", "save paused", "save deprovisioned", "off"}
    /\ server \in {"serves", "stops", "evicts"}
    /\ crashes \in 0..MaxCrashes
    /\ uploaded \subseteq Readings /\ withheld \subseteq Readings
    /\ thinned \subseteq Readings /\ passed \subseteq Readings /\ aged \subseteq Readings
    /\ refused \in [Readings -> 0..MaxAttempts]

Init ==
    /\ row = [i \in Readings |-> NoRow]
    /\ power \in [Readings -> Powers]
    /\ arrivals = [i \in Readings |-> 0]
    /\ floor = 0
    /\ drain = NoDrain
    /\ gate = NewGate
    /\ control = NewControl
    /\ cooling = FALSE
    /\ life = "active" /\ stored = "active"
    /\ poller = "on"
    /\ server = "serves"
    /\ crashes = 0
    /\ uploaded = {} /\ withheld = {} /\ thinned = {} /\ passed = {} /\ aged = {}
    /\ refused = [i \in Readings |-> 0]

-----------------------------------------------------------------------------
(* The store. *)

\* INSERT OR REPLACE: a reading that comes again is pending again.
AppendReading(i) ==
    /\ arrivals[i] < MaxArrivals
    /\ arrivals' = [arrivals EXCEPT ![i] = @ + 1]
    /\ row' = [row EXCEPT ![i] = [state |-> "pending", attempts |-> 0]]
    /\ UNCHANGED <<power, floor, volatile, stored, cloud, crashes, history>>

\* Time moves the backfill cap over the oldest readings...
Ages ==
    /\ floor < MaxFloor
    /\ floor' = floor + 1
    /\ UNCHANGED <<row, power, arrivals, volatile, stored, cloud, crashes, history>>

\* ...and, 12 days later, the retention of raw rows (the rollup timer, which an
\* entry set up as deprovisioned lacks).
Prune(i) ==
    /\ i <= floor /\ row[i] # NoRow
    /\ row' = [row EXCEPT ![i] = NoRow]
    /\ UNCHANGED <<power, arrivals, floor, volatile, stored, cloud, crashes, history>>

Held(s) == {i \in s : row[i] # NoRow}
MarkSent(s) ==
    [i \in Readings |-> IF i \in Held(s) THEN [row[i] EXCEPT !.state = "sent"] ELSE row[i]]

FailedForever(r) == [state |-> "failed", attempts |-> r.attempts]  \* mutant
FailedOnceMore(r) ==  \* mutant
    LET n == r.attempts + 1
    IN  [state |-> IF n > MaxAttempts THEN "skipped" ELSE "failed", attempts |-> n]
Failed(r) ==
    LET n == r.attempts + 1
    IN  [state |-> IF n >= MaxAttempts THEN "skipped" ELSE "failed", attempts |-> n]
MarkFailed(s) ==
    [i \in Readings |-> IF i \in Held(s) THEN Failed(row[i]) ELSE row[i]]

SkipAged(s) ==
    [i \in Readings |-> IF i \in s THEN [row[i] EXCEPT !.state = "skipped"] ELSE row[i]]

Sendable(above) ==
    {i \in Readings : row[i].state \in Open /\ row[i].attempts < MaxAttempts /\ i > above}

\* The oldest BatchMax of a set of readings.
Oldest(s) == {i \in s : Cardinality({j \in s : j < i}) < BatchMax}

-----------------------------------------------------------------------------
(* The Live gate. *)

Later(a, b) == IF a < b THEN b ELSE a

\* should_send, for a reading later than the gate's last attempt.
ShouldSend(g, i) ==
    \/ g.last = 0
    \/ i - g.last >= Heartbeat /\ (g.sent = 0 \/ g.failed)
    \/ /\ g.sent # 0 /\ ~g.failed
       /\ \/ i - Later(g.sent, g.last) >= Heartbeat
          \/ power[i] # power[g.sent]

RecordAttempt(g, i, ok) ==
    [last |-> i, failed |-> ~ok, sent |-> IF ok THEN i ELSE g.sent]

\* One row of _gate_rows; a row not later than the last attempt is a retry.
GateRowRestarts(acc, i) ==  \* mutant: a rejected row restarts the heartbeat
    IF acc.gate.last # 0 /\ i <= acc.gate.last
    THEN [acc EXCEPT !.send = @ \cup {i}, !.retries = @ \cup {i}]
    ELSE IF ShouldSend(acc.gate, i)
    THEN [acc EXCEPT !.send = @ \cup {i}, !.gate = RecordAttempt(@, i, TRUE)]
    ELSE [acc EXCEPT !.rejected = @ \cup {i}, !.gate = [@ EXCEPT !.last = i]]
GateRow(acc, i) ==
    IF acc.gate.last # 0 /\ i <= acc.gate.last
    THEN [acc EXCEPT !.send = @ \cup {i}, !.retries = @ \cup {i}]
    ELSE IF ShouldSend(acc.gate, i)
    THEN [acc EXCEPT !.send = @ \cup {i}, !.gate = RecordAttempt(@, i, TRUE)]
    ELSE [acc EXCEPT !.rejected = @ \cup {i}]

\* _gate_rows: oldest first, each judged by what went before.
Judged(batch) ==
    LET upTo[i \in 0..N] ==
          IF i = 0 THEN [gate |-> gate, send |-> {}, retries |-> {}, rejected |-> {}]
          ELSE IF i \in batch THEN GateRow(upTo[i - 1], i) ELSE upTo[i - 1]
    IN  upTo
GateRows(batch) == Judged(batch)[N]

\* _record_outcomes: the latest retry that went out, then the latest failure.
RecordOutcomes(g, send, retries, sent) ==
    LET again == {i \in retries \cap sent : i >= g.last}
        after == IF again = {} THEN g ELSE RecordAttempt(g, Max(again), TRUE)
    IN  IF send \subseteq sent THEN after
        ELSE RecordAttempt(after, Max(send \ sent), FALSE)

-----------------------------------------------------------------------------
(* drain_once. *)

Goto(d) == drain' = d

\* A drain begins unless the loop ends or cools down, and ages rows out.
DrainBegins ==
    LET old == {i \in Readings : row[i].state \in Open /\ i <= floor}
    IN  /\ drain.at = "idle" /\ life = "active" /\ ~cooling
        /\ row' = SkipAged(old)
        /\ aged' = aged \cup old
        /\ Goto([NoDrain EXCEPT !.at = "aged", !.floor = floor])
        /\ UNCHANGED <<power, arrivals, floor, gate, control, cooling, life, stored,
                       poller, cloud, crashes, thin>>

\* The batch is read and, back on the loop, gated at once.
DrainReads ==
    LET batch == Oldest(Sendable(drain.floor))
        g == GateRows(batch)
        gated == [drain EXCEPT !.at = IF g.rejected = {} THEN "ready" ELSE "gated",
                               !.send = g.send, !.left = g.send, !.gating = TRUE,
                               !.retries = g.retries, !.rejected = g.rejected]
    IN  /\ drain.at = "aged"
        /\ IF batch = {}
           THEN Goto(NoDrain) /\ UNCHANGED <<gate, thin>>
           ELSE IF control.live
           THEN /\ Goto(gated)
                /\ gate' = g.gate
                /\ withheld' = withheld \cup g.rejected
                /\ thinned' = thinned \cup g.rejected
                /\ passed' = passed \cup g.send
           ELSE /\ Goto([drain EXCEPT !.at = "ready", !.send = batch, !.left = batch])
                /\ gate' = NewGate /\ thinned' = {} /\ passed' = {}
                /\ UNCHANGED withheld
        /\ UNCHANGED <<row, power, arrivals, floor, control, cooling, life, stored,
                       poller, cloud, crashes, aged>>

\* What the gate rejected is marked sent.
RejectedMarked ==
    /\ drain.at = "gated"
    /\ row' = MarkSent(drain.rejected)
    /\ Goto(IF drain.send = {} THEN NoDrain ELSE [drain EXCEPT !.at = "ready"])
    /\ UNCHANGED <<power, arrivals, floor, gate, control, cooling, life, stored,
                   poller, cloud, crashes, history>>

MqttReady == control.primary /\ control.bootstrapped

\* MQTT first, if the server wants it, HTTP is proven and the broker is there.
Publish(got, acked) ==
    /\ drain.at = "ready" /\ MqttReady
    /\ acked \subseteq got /\ got \subseteq drain.send
    /\ uploaded' = uploaded \cup got
    /\ Goto([drain EXCEPT !.at = "published", !.sent = acked])
    /\ UNCHANGED <<row, power, arrivals, floor, gate, control, cooling, life, stored,
                   poller, server, refused, crashes, history>>

\* The end of a drain that met no exception, with `d` as its record.
Finish(d) ==
    /\ Goto(NoDrain)
    /\ gate' = IF d.gating THEN RecordOutcomes(gate, d.send, d.retries, d.sent) ELSE gate

\* Acknowledged rows are sent; the others go over HTTP.
AckedMarked ==
    LET left == drain.send \ drain.sent
    IN  /\ drain.at = "published"
        /\ row' = MarkSent(drain.sent)
        /\ IF left = {} THEN Finish(drain)
           ELSE Goto([drain EXCEPT !.at = "posting", !.left = left]) /\ UNCHANGED gate
        /\ UNCHANGED <<power, arrivals, floor, control, cooling, life, stored, poller,
                       cloud, crashes, history>>

\* Or HTTP at once.
PostBegins ==
    /\ drain.at = "ready"
    /\ Goto([drain EXCEPT !.at = "posting"])
    /\ UNCHANGED <<row, power, arrivals, floor, gate, control, cooling, life, stored,
                   poller, cloud, crashes, history>>

-----------------------------------------------------------------------------
(* The cloud's answer to the POST (_http_send). *)

Configured(c, bootstrapped) ==
    [primary |-> c.primary, live |-> c.live, bootstrapped |-> bootstrapped]

Refuse(s) ==
    refused' = [i \in Readings |-> IF i \in s /\ refused[i] < MaxAttempts
                                   THEN refused[i] + 1 ELSE refused[i]]

\* 2xx: a result for each reading, `ok` of which it took; without results, all.
PostAccepted(ok) ==
    /\ drain.at = "posting" /\ server = "serves"
    /\ ok \subseteq drain.left
    /\ uploaded' = uploaded \cup ok
    /\ Refuse(drain.left \ ok)
    /\ Goto([drain EXCEPT !.at = "accepted", !.sent = @ \cup ok])
    /\ UNCHANGED <<row, power, arrivals, floor, gate, control, cooling, life, stored,
                   poller, server, crashes, history>>

\* A 4xx other than 401 and 410 refuses them all.
PostRejected ==
    /\ drain.at = "posting"
    /\ Refuse(drain.left)
    /\ Goto([drain EXCEPT !.at = "rejected"])
    /\ UNCHANGED <<row, power, arrivals, floor, gate, control, cooling, life, stored,
                   poller, server, uploaded, crashes, history>>

\* 401, or 5xx from a cloud that may have kept some: the rows stay as they are.
OutageBurnsAttempts == row' = MarkFailed(drain.left)  \* mutant
OutageKeepsRows == UNCHANGED row
PostUnavailable(got) ==
    /\ drain.at = "posting"
    /\ got \subseteq drain.left
    /\ uploaded' = uploaded \cup got
    /\ OutageKeepsRows
    /\ cooling' = TRUE
    /\ Finish(drain)
    /\ UNCHANGED <<power, arrivals, floor, control, life, stored, poller, server,
                   refused, crashes, history>>

\* A transport error ends the drain where it is, without a cooldown.
PostRaises(got) ==
    /\ drain.at = "posting"
    /\ got \subseteq drain.left
    /\ uploaded' = uploaded \cup got
    /\ Goto(NoDrain)
    /\ UNCHANGED <<row, power, arrivals, floor, gate, control, cooling, life, stored,
                   poller, server, refused, crashes, history>>

\* LifecycleState._set: deprovisioned is terminal.
SetAny(s) == s  \* mutant
Set(s) == IF life = "deprovisioned" THEN life ELSE s

\* 410, or 2xx `stopped`: the lifecycle moves at once, then it is stored.  A
\* `stopped` answer may be older than the eviction.
PostEnds(answer, s) ==
    /\ drain.at = "posting"
    /\ life' = Set(s)
    /\ Goto([drain EXCEPT !.at = answer, !.save = Set(s)])
    /\ UNCHANGED <<row, power, arrivals, floor, gate, control, cooling, stored, poller,
                   cloud, crashes, history>>
PostStopped == server # "serves" /\ PostEnds("stopped", "paused")
PostEvicted == server = "evicts" /\ PostEnds("evicted", "deprovisioned")

\* The end of an accepted batch: backoff, MQTT-primary and mode from the answer.
Answered ==
    /\ cooling' = (drain.left \cap drain.sent = {})
    /\ \E c \in Configs : control' = Configured(c, TRUE)
    /\ Finish(drain)

MarkAcceptedSent == MarkSent(drain.left \cap drain.sent)

\* The results: accepted rows are marked sent...
AcceptedMarked ==
    /\ drain.at = "accepted"
    /\ row' = MarkAcceptedSent
    /\ IF drain.left \subseteq drain.sent THEN Answered
       ELSE Goto([drain EXCEPT !.at = "results"]) /\ UNCHANGED <<gate, control, cooling>>
    /\ UNCHANGED <<power, arrivals, floor, life, stored, poller, cloud, crashes, history>>

\* ...then the others failed.
RefusedMarked ==
    /\ drain.at = "results"
    /\ row' = MarkFailed(drain.left \ drain.sent)
    /\ Answered
    /\ UNCHANGED <<power, arrivals, floor, life, stored, poller, cloud, crashes, history>>

\* A rejected batch fails as a whole.
BatchMarkedFailed ==
    /\ drain.at = "rejected"
    /\ row' = MarkFailed(drain.left)
    /\ cooling' = TRUE
    /\ Finish(drain)
    /\ UNCHANGED <<power, arrivals, floor, control, life, stored, poller, cloud, crashes,
                   history>>

\* set_lifecycle; a `stopped` answer is a real one and proves the HTTP path.
SenderSaves ==
    /\ drain.at \in {"stopped", "evicted"}
    /\ stored' = drain.save
    /\ control' = [control EXCEPT !.bootstrapped = @ \/ drain.at = "stopped"]
    /\ Finish(drain)
    /\ UNCHANGED <<row, power, arrivals, floor, cooling, life, poller, cloud, crashes,
                   history>>

\* The head of run_sender_loop.
SenderEnds ==
    /\ drain.at = "idle" /\ life # "active"
    /\ Goto([NoDrain EXCEPT !.at = "off"])
    /\ UNCHANGED <<row, power, arrivals, floor, gate, control, cooling, life, stored,
                   poller, cloud, crashes, history>>

CooldownEnds ==
    /\ cooling
    /\ cooling' = FALSE
    /\ UNCHANGED <<row, power, arrivals, floor, drain, gate, control, life, stored,
                   poller, cloud, crashes, history>>

-----------------------------------------------------------------------------
(* The command poller, MQTT config, the cloud and the entry's setup. *)

\* A poll answered 410 or stopped ends the poller, which stores the lifecycle.
PollEnds(s) ==
    /\ poller = "on"
    /\ life' = Set(s)
    /\ poller' = IF Set(s) = "paused" THEN "save paused" ELSE "save deprovisioned"
    /\ UNCHANGED <<row, power, arrivals, floor, drain, gate, control, cooling, stored,
                   cloud, crashes, history>>
PollStopped == server = "stops" /\ PollEnds("paused")
PollEvicted == server = "evicts" /\ PollEnds("deprovisioned")

PollerSaves ==
    /\ poller \notin {"on", "off"}
    /\ stored' = IF poller = "save paused" THEN "paused" ELSE "deprovisioned"
    /\ poller' = "off"
    /\ UNCHANGED <<row, power, arrivals, floor, drain, gate, control, cooling, life,
                   cloud, crashes, history>>

\* The head of run_command_poller.
PollerEnds ==
    /\ poller = "on" /\ life # "active"
    /\ poller' = "off"
    /\ UNCHANGED <<row, power, arrivals, floor, drain, gate, control, cooling, life,
                   stored, cloud, crashes, history>>

\* apply_config, or apply_cadence with a poll's answer.
Config(c) ==
    /\ control' = Configured(c, control.bootstrapped)
    /\ UNCHANGED <<row, power, arrivals, floor, drain, gate, cooling, life, stored,
                   poller, cloud, crashes, history>>

\* An operator stops and re-enables the device; its household is deleted.
Server(s) ==
    /\ server # "evicts" /\ server # s
    /\ server' = s
    /\ UNCHANGED <<row, power, arrivals, floor, volatile, stored, uploaded, refused,
                   crashes, history>>

\* Setup: the stored lifecycle, and loops unless it is deprovisioned.
Setup ==
    LET runs == stored # "deprovisioned"
    IN  /\ life' = stored
        /\ drain' = IF runs THEN NoDrain ELSE [NoDrain EXCEPT !.at = "off"]
        /\ poller' = IF runs THEN "on" ELSE "off"
        /\ gate' = NewGate /\ control' = NewControl /\ cooling' = FALSE
        /\ thinned' = {} /\ passed' = {}
        /\ UNCHANGED <<row, power, arrivals, floor, stored, cloud, withheld, aged>>

Crash ==
    /\ crashes < MaxCrashes
    /\ crashes' = crashes + 1
    /\ Setup

\* A user reloads the entry once both loops have stopped.
Reload ==
    /\ drain.at = "off" /\ poller = "off"
    /\ Setup
    /\ UNCHANGED crashes

-----------------------------------------------------------------------------
SenderStep ==
    \/ DrainBegins \/ DrainReads \/ RejectedMarked
    \/ \E got \in SUBSET drain.send, acked \in SUBSET drain.send : Publish(got, acked)
    \/ AckedMarked \/ PostBegins
    \/ PostRejected
    \/ \E got \in SUBSET drain.left : PostUnavailable(got) \/ PostRaises(got)
    \/ AcceptedMarked \/ RefusedMarked \/ BatchMarkedFailed
    \/ SenderSaves \/ SenderEnds

\* The answers that settle a batch.
CloudAnswers ==
    (\E ok \in SUBSET drain.left : PostAccepted(ok)) \/ PostStopped \/ PostEvicted

Poller == PollStopped \/ PollEvicted \/ PollerSaves \/ PollerEnds

Environment ==
    \/ \E i \in Readings : AppendReading(i) \/ Prune(i)
    \/ Ages
    \/ \E c \in Configs : Config(c)
    \/ \E s \in Servers : Server(s)
    \/ Crash

Next == SenderStep \/ CloudAnswers \/ CooldownEnds \/ Poller \/ Reload \/ Environment

Spec == Init /\ [][Next]_vars

\* The loops run, a cooldown is a time, and a cloud asked again and again
\* settles a batch some time.  Nothing must arrive, age, stop or restart.
FairSpec ==
    /\ Spec
    /\ WF_vars(SenderStep) /\ WF_vars(CooldownEnds) /\ WF_vars(Poller)
    /\ SF_vars(CloudAnswers)

-----------------------------------------------------------------------------
\* A row that is not aged out is given up only after MaxAttempts refusals by the
\* cloud: outages, dead keys, transport errors and stops never burn its budget.
GivenUpOnlyWhenRefused ==
    \A i \in Readings :
        row[i].state = "skipped" => i \in aged \/ refused[i] >= MaxAttempts

\* A row is marked sent only if the cloud or the broker has the reading, or the
\* Live gate withheld it: no answer, and no mix of MQTT acks and HTTP results,
\* loses one (mark_sent's three callers in drain_once and _http_send).
SentIsKnown == \A i \in Readings : row[i].state = "sent" => i \in uploaded \cup withheld

\* Nothing is lost: a row marked sent is known, and the Live gate thins readings
\* out and never silences an inverter: less than a heartbeat before a reading it
\* withheld there is one it let out, whatever uploads failed in between, and what
\* it let out is with the cloud, or still to be sent, or given up, or was judged
\* a second time.  (A gate that is cleared forgets what it judged.)
LetOut(j) ==
    /\ j \in passed
    /\ \/ j \in uploaded \cup aged \cup withheld \/ row[j].state \in Open
       \/ row[j] = NoRow \/ refused[j] >= MaxAttempts
NoneLost ==
    /\ SentIsKnown
    /\ \A i \in thinned : \E j \in Readings : j < i /\ i - j < Heartbeat /\ LetOut(j)

\* _gate_rows: a row the gate passed is a retry from then on, "and it goes out
\* ungated"; drain_once: "A reading is NEVER dropped: un-acked rows always still
\* go over HTTP".
PassedGoesOut == passed \cap withheld = {}

\* A reading is settled sooner or later, whatever lies before it in the queue
\* (give-up in mark_failed), unless the device is stopped or evicted.
NothingBlocksTheQueue ==
    \A i \in Readings : (row[i].state \in Open) ~> (row[i].state \notin Open \/ life # "active")

\* Eviction is terminal (C4 of LifecycleState._set): once memory and the table
\* agree on it and no older state waits to be stored, nothing undoes it, be it a
\* late `stopped` answer, a restart or a reload.
EvictionIsFinal ==
    [][LET gone == life = "deprovisioned" /\ stored = "deprovisioned"
       IN  gone /\ drain.at # "stopped" /\ poller # "save paused"
           => life' = "deprovisioned" /\ stored' = "deprovisioned"]_vars

\* command_poller.py tells the user to re-enable the device and reload the
\* integration to resume, and __init__.py has a paused device's loops run for it.
ReenabledResumes ==
    (life = "paused" /\ server = "serves") ~> (life # "paused" \/ server # "serves")
=============================================================================
