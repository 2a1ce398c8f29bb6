---------------------------- MODULE EntryUpdates ----------------------------
(***************************************************************************)
(* How a config entry changes under a running integration: the commands of *)
(* the cloud that write entry.data (command_poller.process_command), the   *)
(* LAN routes and the options flow that do, Home Assistant's update        *)
(* listener, the flags that tell it not to reload, and the reloads, which  *)
(* cancel the poller that asked for them.                                  *)
(*                                                                         *)
(* One command of each kind; a command sets its field of entry.data to 1,  *)
(* or appends an inverter.  `map` stands for what the options flow edits.  *)
(***************************************************************************)
EXTENDS Naturals

CONSTANTS
    Changes,        \* of the commands: among those below
    MaxOptionEdits,     \* bound: options edits, cadence and LAN changes
    MaxMishaps     \* bound: acks lost or refused, probes that fail

CommandKinds == {"endpoint", "conn", "add", "ingest"}

ASSUME EntryAssumption ==
    /\ Changes \subseteq CommandKinds
    /\ {MaxOptionEdits, MaxMishaps} \subseteq Nat

Fields == CommandKinds \cup {"map", "cadence"}

VARIABLES
    data,       \* entry.data
    running,    \* entry.data as the last setup read it
    phase,      \* of the entry: loaded, down, or starting (no listener yet)
    reloads,    \* reload tasks that have not begun
    skipOnce,   \* hass.data[DOMAIN]["_skip_reload_once"]
    cadenceOnly,\* hass.data[DOMAIN]["_cadence_only_update"]
    cloud,      \* per command, its status there
    runner,     \* the command poller: where it is, with which command
    used        \* edits and faults so far

euVars == <<data, running, phase, reloads, skipOnce, cadenceOnly, cloud, runner, used>>

Resting == [at |-> "idle", cmd |-> "none", verdict |-> "none"]

EuInit ==
    /\ data = [f \in Fields |-> 0]
    /\ running = data
    /\ phase = "loaded"
    /\ reloads = 0
    /\ skipOnce = FALSE /\ cadenceOnly = FALSE
    /\ cloud = [c \in Changes |-> "pending"]
    /\ runner = Resting
    /\ used = [edits |-> 0, faults |-> 0]

Spend(what, limit) == used[what] < limit /\ used' = [used EXCEPT ![what] = @ + 1]
Mishap == Spend("faults", MaxMishaps)

-----------------------------------------------------------------------------
(* Home Assistant and the flags of its listener.                           *)

\* async_update_entry: a change fires the listener, if one is registered, at
\* once.  It reloads, unless told not to: by its caller for this update
\* (`skips`), or by a flag, which it takes.  `own` reloads the caller asks for.
Update(new, skips, own, once, cadence) ==
    LET fires == new # data /\ phase = "loaded" /\ ~skips
        flagged == once \/ cadence
    IN  /\ data' = new
        /\ skipOnce' = (once /\ ~fires)
        /\ cadenceOnly' = (cadence /\ ~fires)
        /\ reloads' = reloads + own + (IF fires /\ ~flagged THEN 1 ELSE 0)

\* The reload takes the setup lock; unload cancels the poller, whose ack may
\* be on its way.
Unload ==
    /\ phase = "loaded" /\ reloads > 0
    /\ reloads' = reloads - 1
    /\ phase' = "down"
    /\ cloud' \in {cloud} \cup
          (IF runner.at = "ack" THEN {[cloud EXCEPT ![runner.cmd] = runner.verdict]} ELSE {})
    /\ runner' = Resting
    /\ UNCHANGED <<data, running, skipOnce, cadenceOnly, used>>

\* async_setup_entry reads the entry, starts the poller, and registers the
\* listener last.
SetupReads ==
    /\ phase = "down"
    /\ phase' = "starting"
    /\ running' = data
    /\ UNCHANGED <<data, reloads, skipOnce, cadenceOnly, cloud, runner, used>>
SetupEnds ==
    /\ phase = "starting"
    /\ phase' = "loaded"
    /\ UNCHANGED <<data, running, reloads, skipOnce, cadenceOnly, cloud, runner, used>>

-----------------------------------------------------------------------------
(* The poller.                                                             *)

Probes(c) == c \in {"endpoint", "conn"}
Present == data["add"] > 0

\* A command the cloud has seen no ack for is delivered, again if need be.
\* An inverter that is there already is acked without being added.
JudgedAnew(c) == "success"  \* mutant
Judged(c) == IF c = "add" /\ Present THEN "present" ELSE "success"
Poll(c) ==
    /\ phase # "down" /\ runner.at = "idle"
    /\ cloud[c] \in {"pending", "delivered"}
    /\ cloud' = [cloud EXCEPT ![c] = "delivered"]
    /\ runner' = [at |-> IF Probes(c) THEN "probe" ELSE "ack", cmd |-> c,
                  verdict |-> Judged(c)]
    /\ UNCHANGED <<data, running, phase, reloads, skipOnce, cadenceOnly, used>>

\* The endpoint or the inverter answers, or the command is rejected.
Probe ==
    /\ runner.at = "probe"
    /\ \/ runner' = [runner EXCEPT !.at = "ack"] /\ UNCHANGED used
       \/ Mishap /\ runner' = [runner EXCEPT !.at = "ack", !.verdict = "rejected"]
    /\ UNCHANGED <<data, running, phase, reloads, skipOnce, cadenceOnly, cloud>>

\* The ack goes before the change: afterwards the reload would cancel it.
Applies == runner.verdict = "success"
AfterAck == IF Applies THEN [runner EXCEPT !.at = "apply"] ELSE Resting
Ack ==
    /\ runner.at = "ack"
    /\ cloud' = [cloud EXCEPT ![runner.cmd] = runner.verdict]
    /\ runner' = AfterAck
    /\ UNCHANGED <<data, running, phase, reloads, skipOnce, cadenceOnly, used>>

\* The server refuses the ack, and the change is made all the same; or the ack
\* fails, having arrived or not, and the iteration ends.
AckFails ==
    /\ runner.at = "ack"
    /\ Mishap
    /\ \/ runner' = AfterAck /\ UNCHANGED cloud
       \/ /\ runner' = Resting
          /\ cloud' \in {cloud, [cloud EXCEPT ![runner.cmd] = runner.verdict]}
    /\ UNCHANGED <<data, running, phase, reloads, skipOnce, cadenceOnly>>

\* apply_harvest_config_change, apply_add_inverter, set_cloud_ingest and the
\* island commands; apply_cloud_endpoint_change asks the endpoint again, and
\* leaves the listener its reload.
Applied(c) == [data EXCEPT ![c] = IF c = "add" THEN @ + 1 ELSE 1]
OwnReload == 1
Apply ==
    /\ runner.at = "apply"
    /\ LET c == runner.cmd IN
       \/ /\ c \in {"conn", "add"}
          /\ Update(Applied(c), FALSE, OwnReload, TRUE, cadenceOnly)
          /\ UNCHANGED used
       \/ /\ c = "ingest"
          /\ Update(Applied(c), TRUE, OwnReload, skipOnce, cadenceOnly)
          /\ UNCHANGED used
       \/ /\ c = "endpoint" /\ data[c] = 0
          /\ Update(Applied(c), FALSE, OwnReload, skipOnce, cadenceOnly)
          /\ UNCHANGED used
       \/ /\ c = "endpoint"
          /\ IF data[c] = 0 THEN Mishap ELSE UNCHANGED used
          /\ UNCHANGED <<data, reloads, skipOnce, cadenceOnly>>
    /\ runner' = Resting
    /\ UNCHANGED <<running, phase, cloud>>

-----------------------------------------------------------------------------
(* The owner.                                                              *)

\* The options flow leaves the reload to the listener.
OptionsEdit ==
    /\ Spend("edits", MaxOptionEdits)
    /\ Update([data EXCEPT !["map"] = 1 - @], FALSE, 0, skipOnce, cadenceOnly)
    /\ UNCHANGED <<running, phase, cloud, runner>>

\* PUT cadence, the same or another: the loops read it live.
CadencePut ==
    /\ phase = "loaded"
    /\ Spend("edits", MaxOptionEdits)
    /\ \E v \in {0, 1} : Update([data EXCEPT !["cadence"] = v], FALSE, 0, skipOnce, TRUE)
    /\ UNCHANGED <<running, phase, cloud, runner>>

\* set_cloud_ingest over the LAN, the cloud copy, leaving an island.
LanIngest ==
    /\ Spend("edits", MaxOptionEdits)
    /\ \E v \in {0, 1} :
          Update([data EXCEPT !["ingest"] = v], TRUE, OwnReload, skipOnce, cadenceOnly)
    /\ UNCHANGED <<running, phase, cloud, runner>>

-----------------------------------------------------------------------------
ReloadStep == Unload \/ SetupReads \/ SetupEnds
PollerStep == Probe \/ Ack \/ AckFails \/ Apply

EuNext ==
    \/ ReloadStep \/ PollerStep
    \/ \E c \in Changes : Poll(c)
    \/ OptionsEdit \/ CadencePut \/ LanIngest

EuSpec == EuInit /\ [][EuNext]_euVars

\* Tasks go on; the cloud delivers again what it saw no ack for.  An ack takes
\* a round trip and is not favoured over a reload.
EuFair ==
    /\ WF_euVars(ReloadStep) /\ WF_euVars(PollerStep)
    /\ \A c \in Changes : SF_euVars(Poll(c))
EuFairSpec == EuSpec /\ EuFair

-----------------------------------------------------------------------------
(* Properties.                                                             *)

Verdicts == {"success", "present", "rejected"}
EuTypeOK ==
    /\ data \in [Fields -> Nat] /\ running \in [Fields -> Nat]
    /\ phase \in {"loaded", "down", "starting"}
    /\ reloads \in Nat
    /\ skipOnce \in BOOLEAN /\ cadenceOnly \in BOOLEAN
    /\ cloud \in [Changes -> {"pending", "delivered"} \cup Verdicts]
    /\ runner \in [at : {"idle", "probe", "ack", "apply"}, cmd : Changes \cup {"none"},
                   verdict : Verdicts \cup {"none"}]

\* What a command or a LAN route changed is what runs once the reloads are
\* over, whatever flags were left and whenever the entry was starting
\* (entry_reload.py:20-28: never a missed reload); and a redelivered
\* add_inverter has added nothing: "appending twice would poll the inverter
\* twice" (command_poller.py:492-497).
Settled == reloads = 0 /\ phase = "loaded"
ChangesTakeEffect ==
    /\ Settled => \A c \in CommandKinds : running[c] = data[c]
    /\ data["add"] <= 1

\* No command is stranded in `delivered`: it is answered although reloads,
\* its own among them, cancel the poller (command_poller.py:831-839).
CommandsAnswered ==
    EuFair => \A c \in Changes : <>(cloud[c] \in Verdicts)

\* "Tell the config-entry update-listener to SKIP its reload for the next
\* async_update_entry" (harvest_config_apply.py:18-22): the next that fires
\* it, which may be an edit of the owner, then not loaded.
EditsTakeEffect == Settled => running["map"] = data["map"]

\* "reaching here means the apply is safe to promise"
\* (command_poller.py:838-839): not when the ack arrives and its answer does
\* not, or a reload cancels the poller meanwhile.
PromisesKept == EuFair => \A c \in Changes : <>(cloud[c] = "success" => data[c] > 0)
=============================================================================
