---------------------------- MODULE HarvestDevice ----------------------------
(***************************************************************************)
(* One inverter logger and those who connect to it: the direct-harvest     *)
(* loop with its "read now" trigger (harvest/engine.py, read_now.py), the  *)
(* settings reads (settings_sync.py) and the commands (write_executor.py), *)
(* over transport.py under the logger's lock (device_lock.py).             *)
(*                                                                         *)
(* A transport call runs in a thread: it connects, exchanges and closes,   *)
(* and the coroutine goes on.  What the registers hold is left out.        *)
(* How long the loop sleeps is abstracted to "its time is not up yet".     *)
(***************************************************************************)
EXTENDS Naturals, Sequences, FiniteSets

CONSTANTS
    Writers,      \* commands, from the cloud, the LAN or the event scheduler
    Recipes,      \* per writer, its recipe, after its companion's if it has
                  \* one: how many words each writes, and whether they are
                  \* slots of a table
    PanelReads    \* "read now" requests

ASSUME HarvestAssumption ==
    /\ {"loop", "settings", "free"} \cap Writers = {}
    /\ Recipes \in [Writers -> Seq([slots : BOOLEAN, words : Nat]) \ {<<>>}]

Users == Writers \cup {"loop", "settings"}

VARIABLES
    lock,      \* logger_lock: who holds it, or "free"
    call,      \* per caller, its transport call: none, waiting or open
    ticker,    \* run_direct_harvest_loop: where it is
    due,       \* is its sleep over?
    spec,      \* spec_holder.spec: is there one?
    request,   \* per "read now" request, how far it is
    job        \* per writer, its dispatch

hvVars == <<lock, call, ticker, due, spec, request, job>>

AtRest == [step |-> "idle", nth |-> 0, done |-> 0]

HvInit ==
    /\ lock = "free"
    /\ call = [c \in Users |-> "none"]
    /\ ticker = "top"
    /\ due = FALSE
    /\ spec \in BOOLEAN
    /\ request = [a \in PanelReads |-> "none"]
    /\ job = [w \in Writers |-> AtRest]

-----------------------------------------------------------------------------
(* Transport calls: read_raw, read_word, read_holding_blocks and           *)
(* write_registers hold the lock while the connection is open; read_words  *)
(* does not.                                                               *)

Recipe(w) == Recipes[w][job[w].nth]
ReadsWords(w) == job[w].step = "verify" \/ (job[w].step = "prior" /\ Recipe(w).slots)
Locks(c) == c \notin Writers \/ ~ReadsWords(c)

Connect(c) ==
    /\ call[c] = "waiting"
    /\ Locks(c) => lock = "free"
    /\ lock' = IF Locks(c) THEN c ELSE lock
    /\ call' = [call EXCEPT ![c] = "open"]
    /\ UNCHANGED <<ticker, due, spec, request, job>>

ClosesLocked(c, next) ==  \* mutant
    call[c] = "open" /\ call' = [call EXCEPT ![c] = next] /\ UNCHANGED lock
Closes(c, next) ==
    /\ call[c] = "open"
    /\ lock' = IF lock = c THEN "free" ELSE lock
    /\ call' = [call EXCEPT ![c] = next]

-----------------------------------------------------------------------------
(* The harvest loop and its trigger.                                         *)

InFlight == ticker = "tick"
Requested == \E a \in PanelReads : request[a] = "waiting"

\* ReadNowTrigger.request: refused while a poll is in flight.
Request(a) ==
    /\ ticker # "gone"
    /\ request[a] = "none"
    /\ request' = [request EXCEPT ![a] = IF InFlight THEN "refused" ELSE "waiting"]
    /\ UNCHANGED <<lock, call, ticker, due, spec, job>>

\* begin_tick takes the requests it will answer; end_tick answers them.
Acquires == [a \in PanelReads |-> IF request[a] = "waiting" THEN "taken" ELSE request[a]]
Answers(req) == [a \in PanelReads |-> IF req[a] = "taken" THEN "answered" ELSE req[a]]

\* A tick without a spec ends at once; the others read the inverter.
BeginTick ==
    IF spec
    THEN /\ ticker' = "tick" /\ request' = Acquires
         /\ call' = [call EXCEPT !["loop"] = "waiting"]
    ELSE ticker' = "wait" /\ request' = Answers(Acquires) /\ UNCHANGED call

RegularTick ==
    /\ ticker = "top"
    /\ BeginTick
    /\ due' = FALSE
    /\ UNCHANGED <<lock, spec, job>>

\* The poll is stored, gated, or fails: the outcomes differ in how long the
\* loop sleeps.
EndTick ==
    /\ Closes("loop", "none")
    /\ ticker' = "wait"
    /\ request' = Answers(request)
    /\ UNCHANGED <<due, spec, job>>

SleepOver ==
    /\ ticker # "top" /\ ~due
    /\ due' = TRUE
    /\ UNCHANGED <<lock, call, ticker, spec, request, job>>

\* The wait ends at its deadline, else with a request, which runs one extra
\* tick and leaves the deadline as it is.
WaitOver ==
    /\ ticker = "wait"
    /\ \/ due /\ ticker' = "top" /\ UNCHANGED <<call, request>>
       \/ ~due /\ Requested /\ BeginTick
    /\ UNCHANGED <<lock, due, spec, job>>

\* The task is cancelled at unload: a tick under way ends with its requests
\* answered, and the thread goes on alone.
Unload ==
    /\ ticker # "gone"
    /\ ticker' = "gone"
    /\ request' = Answers(request)
    /\ lock' = IF lock = "loop" THEN "free" ELSE lock
    /\ call' = [call EXCEPT !["loop"] = IF @ = "open" THEN "stray" ELSE "none"]
    /\ UNCHANGED <<due, spec, job>>
StrayEnds ==
    /\ call["loop"] = "stray"
    /\ call' = [call EXCEPT !["loop"] = "none"]
    /\ UNCHANGED <<lock, ticker, due, spec, request, job>>

\* read_config_registers and read_holding_blocks.
SettingsRead ==
    /\ call["settings"] = "none"
    /\ call' = [call EXCEPT !["settings"] = "waiting"]
    /\ UNCHANGED <<lock, ticker, due, spec, request, job>>
SettingsDone ==
    /\ Closes("settings", "none")
    /\ UNCHANGED <<ticker, due, spec, request, job>>

-----------------------------------------------------------------------------
(* The commands: WriteExecutor.dispatch and _execute.                      *)

Ends(w, how) == [job EXCEPT ![w].step = how]

\* No spec, and a recipe that is missing, refuse before anything is read.
Dispatch(w) ==
    /\ job[w].step = "idle"
    /\ IF ~spec
       THEN job' = Ends(w, "failed") /\ UNCHANGED call
       ELSE /\ job' = [job EXCEPT ![w].step = "prior", ![w].nth = 1]
            /\ call' = [call EXCEPT ![w] = "waiting"]
    /\ UNCHANGED <<lock, ticker, due, spec, request>>

\* A read of this step's words, of which any may not answer.
ReadPrior(w) ==
    /\ job[w].step = "prior"
    /\ \/ /\ Closes(w, "waiting")
          /\ job' = [job EXCEPT ![w].step = "write", ![w].done = 0]
       \/ Closes(w, "none") /\ job' = Ends(w, "failed")
    /\ UNCHANGED <<ticker, due, spec, request>>

\* The words are written one by one; the first that fails ends the command, its
\* answer lost or not.
WriteWord(w) ==
    /\ job[w].step = "write" /\ call[w] = "open"
    /\ job[w].done < Recipe(w).words
    /\ job' = [job EXCEPT ![w].done = @ + 1]
    /\ UNCHANGED <<lock, call, ticker, due, spec, request>>
WritesDone(w) ==
    /\ job[w].step = "write"
    /\ \/ /\ job[w].done = Recipe(w).words
          /\ Closes(w, "waiting")
          /\ job' = [job EXCEPT ![w].step = "verify"]
       \/ Closes(w, "none") /\ job' = Ends(w, "failed")
    /\ UNCHANGED <<ticker, due, spec, request>>

\* Every word written must read back as written, which another's write may
\* have changed; then the next recipe.
Verify(w) ==
    /\ job[w].step = "verify"
    /\ \/ /\ IF job[w].nth < Len(Recipes[w])
             THEN /\ Closes(w, "waiting")
                  /\ job' = [job EXCEPT ![w].step = "prior", ![w].nth = @ + 1]
             ELSE Closes(w, "none") /\ job' = Ends(w, "verified")
       \/ Closes(w, "none") /\ job' = Ends(w, "failed")
    /\ UNCHANGED <<ticker, due, spec, request>>

-----------------------------------------------------------------------------
HvNext ==
    \/ \E c \in Users : Connect(c)
    \/ \E a \in PanelReads : Request(a)
    \/ RegularTick \/ EndTick \/ SleepOver \/ WaitOver \/ Unload \/ StrayEnds
    \/ SettingsRead \/ SettingsDone
    \/ \E w \in Writers : \/ Dispatch(w) \/ ReadPrior(w) \/ WriteWord(w)
                          \/ WritesDone(w) \/ Verify(w)

HvSpec == HvInit /\ [][HvNext]_hvVars

\* A call returns, having a timeout, coroutines go on, and the lock is given
\* in the order of arrival.
HvFair ==
    /\ \A c \in Users : SF_hvVars(Connect(c))
    /\ WF_hvVars(RegularTick \/ EndTick \/ WaitOver)
    /\ WF_hvVars(SleepOver) /\ WF_hvVars(SettingsDone)
    /\ \A w \in Writers : WF_hvVars(ReadPrior(w) \/ WriteWord(w) \/ WritesDone(w) \/ Verify(w))

-----------------------------------------------------------------------------
(* Properties.                                                             *)

HvTypeOK ==
    /\ lock \in Users \cup {"free"}
    /\ call \in [Users -> {"none", "waiting", "open", "stray"}]
    /\ ticker \in {"top", "tick", "wait", "gone"}
    /\ due \in BOOLEAN /\ spec \in BOOLEAN
    /\ request \in [PanelReads -> {"none", "refused", "waiting", "taken", "answered"}]
    /\ \A w \in Writers :
          /\ job[w].step \in {"idle", "prior", "write", "verify", "verified", "failed"}
          /\ job[w].nth \in 0..Len(Recipes[w])

\* What takes the lock never meets another that takes it on the logger, even
\* when a call fails or its task is cancelled (device_lock.py:1-7).
Opened == {c \in Users : call[c] \in {"open", "stray"}}
LockedNeverMeet ==
    ticker # "gone" => \A c, d \in Opened : Locks(c) /\ Locks(d) => c = d

\* A "read now" that was not refused is polled: the wake it sets is neither
\* cleared by a tick that does not answer it nor slept over (read_now.py).
ReadNowPolls ==
    \A a \in PanelReads : (request[a] = "waiting") ~> (request[a] = "answered" \/ ticker = "gone")
\* Every command ends, with whatever polls and reads it queues behind.
CommandsEnd ==
    \A w \in Writers : (job[w].step \notin {"idle", "verified", "failed"})
                          ~> (job[w].step \in {"verified", "failed"})
\* Both of those who wait for the logger come to it, while the other and the
\* regular polls want it too.
LoggerServesAll == HvFair => ReadNowPolls /\ CommandsEnd

\* "Every device read or write for a harvest target now holds the lock for
\* that target, so the calls queue instead of colliding" (device_lock.py:6-7):
\* the slot table and the read-back of a command do not.
OneConnection == ticker # "gone" => Cardinality(Opened) <= 1
=============================================================================
