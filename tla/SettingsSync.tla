---------------------------- MODULE SettingsSync ----------------------------
(***************************************************************************)
(* The settings of the inverters of one entry: settings_sync_loop reads    *)
(* them, serves them on the LAN (`served`), saves them in the reading      *)
(* store and uploads them; the app hands in what it read while onboarding  *)
(* (settings_sync.py).  A step is the code between two awaits.             *)
(*                                                                         *)
(* Register values are the two values of a setting; a hash is its value.   *)
(* The order in which a pass goes through the inverters is left open.      *)
(***************************************************************************)
EXTENDS Naturals, FiniteSets

CONSTANTS
    Units,        \* inverters of the entry
    Models,       \* models with a settings read plan
    DeyeModels,   \* those whose settings are uploaded
    NoRead,       \* stands for "none"
    Retries,      \* Len(_FIRST_READ_RETRY_S)
    MaxEdits,     \* bound: changes of a model, or removals
    MaxChanges,   \* bound: settings changed on an inverter
    MaxSeeds,     \* bound: onboarding reads the app hands in
    MaxTroubles   \* bound: failed reads and uploads, reloads

\* What is served or stored: of which model, and who read it.
Snapshots == [model : Models, value : {0, 1}, by : {"read", "store", "phone"}]

ASSUME SettingsAssumption ==
    /\ DeyeModels \subseteq Models
    /\ NoRead \notin Models \cup {0, 1} \cup Snapshots
    /\ {Retries, MaxEdits, MaxChanges, MaxSeeds, MaxTroubles} \subseteq Nat

VARIABLES
    conf,       \* per inverter, the model the entry lists, or NoRead
    edited,     \* has the entry changed since its setup?
    setting,    \* per inverter, the value of its settings
    served,     \* settings_snapshots: what the LAN view answers
    stored,     \* the rows of the reading store
    ingest,     \* the entry's cloud_ingest_enabled
    pass,       \* settings_sync_loop: where it is, and its local variables
    cache,      \* per inverter, the hash last uploaded
    beat,       \* inverters whose heartbeat upload is due
    backoff,    \* inverters whose uploads are held off after a 4xx
    remote,     \* per inverter, the settings the cloud has
    seeding,    \* onboarding reads on their way to the store
    tally       \* of edits, changes, seeds and troubles so far

ssVars == <<conf, edited, setting, served, stored, ingest, pass, cache, beat,
            backoff, remote, seeding, tally>>

Snap(m, v, by) == [model |-> m, value |-> v, by |-> by]
Listed == {u \in Units : conf[u] # NoRead}
Nothing == [u \in Units |-> NoRead]

\* A loop that has just started.
Started == [at |-> "top", seeded |-> FALSE, retrying |-> FALSE, retries |-> 0,
            read |-> {}, todo |-> {}, listed |-> Nothing, new |-> {},
            upload |-> FALSE, unit |-> NoRead, resized |-> FALSE]

SsInit ==
    /\ conf \in [Units -> Models]
    /\ edited = FALSE
    /\ setting = [u \in Units |-> 0]
    /\ served = Nothing /\ stored = Nothing
    /\ ingest = TRUE
    /\ pass = Started
    /\ cache = Nothing /\ beat = {} /\ backoff = {}
    /\ remote = Nothing
    /\ seeding = Nothing
    /\ tally = [edits |-> 0, changes |-> 0, seeds |-> 0, troubles |-> 0]

Count(what, limit) == tally[what] < limit /\ tally' = [tally EXCEPT ![what] = @ + 1]
Trouble == Count("troubles", MaxTroubles)

-----------------------------------------------------------------------------
(* One pass of the loop.                                                   *)

\* What is served of inverters the entry no longer lists is dropped; the
\* first pass then takes what is stored.
PassBegins ==
    /\ pass.at = "top"
    /\ served' = [u \in Units |-> IF u \in Listed THEN served[u] ELSE NoRead]
    /\ pass' = [pass EXCEPT !.at = IF pass.seeded THEN "begin" ELSE "seed",
                            !.seeded = TRUE, !.listed = conf,
                            !.todo = IF pass.seeded THEN {}
                                     ELSE {u \in Listed : served'[u] = NoRead}]
    /\ UNCHANGED <<conf, edited, setting, stored, ingest, cache, beat, backoff, remote,
                   seeding, tally>>

\* _seed_snapshots: a stored read of this model is served, unless the store
\* fails.  Whether the inverter is served already was asked before the await.
SeedTakes(u, row) == row # NoRead /\ row.model = pass.listed[u]
SeedOne(u) ==
    /\ pass.at = "seed" /\ u \in pass.todo
    /\ served' = IF SeedTakes(u, stored[u])
                 THEN [served EXCEPT ![u] = [stored[u] EXCEPT !.by = "store"]] ELSE served
    /\ pass' = [pass EXCEPT !.todo = @ \ {u}]
    /\ UNCHANGED <<conf, edited, setting, stored, ingest, cache, beat, backoff, remote,
                   seeding, tally>>

\* The inverters to read: the unread ones when this is a retry.  What is
\* served from here on is new, the cloud flag is read once for the pass.
Due == {u \in Units : pass.listed[u] # NoRead /\ (pass.retrying => u \notin pass.read)}
ReadsBegin ==
    /\ pass.at = "begin" \/ (pass.at = "seed" /\ pass.todo = {})
    /\ pass' = [pass EXCEPT !.at = "read", !.todo = Due, !.new = {}, !.upload = ingest]
    /\ UNCHANGED <<conf, edited, setting, served, stored, ingest, cache, beat, backoff,
                   remote, seeding, tally>>

\* sync_inverter_once.  An inverter held off is skipped without a read; the
\* others are read, and a read that succeeds is served.
Skips(u) == pass.listed[u] \in DeyeModels /\ pass.upload /\ u \in backoff
UploadsChanges(u, v) == cache[u] = NoRead \/ cache[u] # v  \* mutant
ShouldUpload(u, v) == cache[u] = NoRead \/ cache[u] # v \/ u \in beat
Uploads(u) ==
    pass.listed[u] \in DeyeModels /\ pass.upload /\ ShouldUpload(u, setting[u])
ReadUnit(u) ==
    /\ pass.at = "read" /\ u \in pass.todo
    /\ \/ /\ ~Skips(u)
          /\ served' = [served EXCEPT ![u] = Snap(pass.listed[u], setting[u], "read")]
          /\ pass' = [pass EXCEPT !.todo = @ \ {u}, !.new = @ \cup {u},
                                  !.at = IF Uploads(u) THEN "post" ELSE "read",
                                  !.unit = IF Uploads(u) THEN u ELSE NoRead]
          /\ UNCHANGED tally
       \/ /\ IF Skips(u) THEN UNCHANGED tally ELSE Trouble
          /\ pass' = [pass EXCEPT !.todo = @ \ {u}]
          /\ UNCHANGED served
    /\ UNCHANGED <<conf, edited, setting, stored, ingest, cache, beat, backoff, remote,
                   seeding>>

\* The upload of what was read: accepted; accepted with the answer lost;
\* failed; or refused, which holds the next ones off.
PostEnds ==
    /\ pass.at = "post"
    /\ LET u == pass.unit
           v == served[u].value
       IN  \/ /\ remote' = [remote EXCEPT ![u] = v]
              /\ cache' = [cache EXCEPT ![u] = v]
              /\ beat' = beat \ {u}
              /\ UNCHANGED <<backoff, tally>>
           \/ /\ Trouble
              /\ remote' \in {remote, [remote EXCEPT ![u] = v]}
              /\ UNCHANGED <<cache, beat, backoff>>
           \/ /\ Trouble
              /\ backoff' = backoff \cup {u}
              /\ UNCHANGED <<cache, beat, remote>>
    /\ pass' = [pass EXCEPT !.at = "read", !.unit = NoRead]
    /\ UNCHANGED <<conf, edited, setting, served, stored, ingest, seeding>>

\* What is new counts as read in this run, whoever put it there, and is saved
\* one by one.  The saves iterate over what is served: an inverter added to it
\* meanwhile ends the loop for good.
SavesBegin ==
    /\ pass.at = "read" /\ pass.todo = {}
    /\ pass' = [pass EXCEPT !.at = "save", !.todo = pass.new, !.resized = FALSE]
    /\ UNCHANGED <<conf, edited, setting, served, stored, ingest, cache, beat, backoff,
                   remote, seeding, tally>>
Saved(u) == [stored EXCEPT ![u] = served[u]]
SaveOne(u) ==
    /\ pass.at = "save" /\ u \in pass.todo
    /\ stored' = Saved(u)
    /\ pass' = [pass EXCEPT !.todo = @ \ {u}, !.read = @ \cup {u},
                            !.at = IF pass.resized THEN "dead" ELSE "save"]
    /\ UNCHANGED <<conf, edited, setting, served, ingest, cache, beat, backoff, remote,
                   seeding, tally>>

\* A short sleep while an inverter of this pass is unread and retries remain.
Unread == \E u \in Units : pass.listed[u] # NoRead /\ u \notin pass.read
PassEnds ==
    /\ pass.at = "save" /\ pass.todo = {}
    /\ LET retry == Unread /\ pass.retries < Retries IN
       pass' = [pass EXCEPT !.at = "sleep", !.retrying = retry,
                            !.retries = IF retry THEN @ + 1 ELSE @,
                            !.listed = Nothing, !.new = {}]
    /\ UNCHANGED <<conf, edited, setting, served, stored, ingest, cache, beat, backoff,
                   remote, seeding, tally>>
PassWakes ==
    /\ pass.at = "sleep"
    /\ pass' = [pass EXCEPT !.at = "top"]
    /\ UNCHANGED <<conf, edited, setting, served, stored, ingest, cache, beat, backoff,
                   remote, seeding, tally>>

-----------------------------------------------------------------------------
(* What happens around the loop.                                           *)

\* seed_onboarding_settings: the app's read is served if nothing is yet, and
\* on its way to the store.  (Not modelled between an edit and its reload.)
SeedRefused(u) == served[u] # NoRead
SeedOnboarding(u) ==
    /\ ~edited /\ u \in Listed /\ seeding[u] = NoRead
    /\ ~SeedRefused(u)
    /\ Count("seeds", MaxSeeds)
    /\ \E v \in {0, 1} : served' = [served EXCEPT ![u] = Snap(conf[u], v, "phone")]
    /\ seeding' = [seeding EXCEPT ![u] = served'[u]]
    /\ pass' = [pass EXCEPT !.new = IF pass.at \in {"read", "post"} THEN @ \cup {u} ELSE @,
                            !.resized = @ \/ (pass.at = "save" /\ served[u] = NoRead)]
    /\ UNCHANGED <<conf, edited, setting, stored, ingest, cache, beat, backoff, remote>>
SeedSaved(u) ==
    /\ seeding[u] # NoRead
    /\ stored' = [stored EXCEPT ![u] = seeding[u]]
    /\ seeding' = [seeding EXCEPT ![u] = NoRead]
    /\ UNCHANGED <<conf, edited, setting, served, ingest, pass, cache, beat, backoff,
                   remote, tally>>

\* The owner changes a setting on the inverter.
SettingChanges(u) ==
    /\ Count("changes", MaxChanges)
    /\ setting' = [setting EXCEPT ![u] = 1 - @]
    /\ UNCHANGED <<conf, edited, served, stored, ingest, pass, cache, beat, backoff,
                   remote, seeding>>

\* Half an hour since an upload, six hours since a 4xx.
BeatDue(u) ==
    /\ cache[u] # NoRead /\ u \notin beat
    /\ beat' = beat \cup {u}
    /\ UNCHANGED <<conf, edited, setting, served, stored, ingest, pass, cache, backoff,
                   remote, seeding, tally>>
BackoffOver(u) ==
    /\ u \in backoff
    /\ backoff' = backoff \ {u}
    /\ UNCHANGED <<conf, edited, setting, served, stored, ingest, pass, cache, beat,
                   remote, seeding, tally>>

\* The entry lists another model, or no longer lists the inverter; its update
\* listener will reload it.  The cloud flag changes without a reload.
EditEntry(u) ==
    /\ Count("edits", MaxEdits)
    /\ \E m \in Models \cup {NoRead} : m # conf[u] /\ conf' = [conf EXCEPT ![u] = m]
    /\ edited' = TRUE
    /\ UNCHANGED <<setting, served, stored, ingest, pass, cache, beat, backoff, remote,
                   seeding>>
SetIngest ==
    /\ Trouble
    /\ ingest' = ~ingest
    /\ UNCHANGED <<conf, edited, setting, served, stored, pass, cache, beat, backoff,
                   remote, seeding>>

\* A new setup; the loop is cancelled wherever it is, the save it waits for
\* may still happen.
ReloadEntry ==
    /\ IF edited THEN UNCHANGED tally ELSE Trouble
    /\ stored' \in {stored} \cup
          {Saved(u) : u \in IF pass.at = "save" THEN pass.todo ELSE {}}
    /\ edited' = FALSE
    /\ served' = Nothing
    /\ pass' = Started
    /\ cache' = Nothing /\ beat' = {} /\ backoff' = {}
    /\ UNCHANGED <<conf, setting, ingest, remote, seeding>>

-----------------------------------------------------------------------------
PassStep ==
    \/ PassBegins \/ ReadsBegin \/ PostEnds \/ SavesBegin \/ PassEnds \/ PassWakes
    \/ \E u \in Units : SeedOne(u) \/ ReadUnit(u) \/ SaveOne(u)

SsNext ==
    \/ PassStep
    \/ \E u \in Units : \/ SeedOnboarding(u) \/ SeedSaved(u) \/ SettingChanges(u)
                         \/ BeatDue(u) \/ BackoffOver(u) \/ EditEntry(u)
    \/ SetIngest \/ ReloadEntry

SsSpec == SsInit /\ [][SsNext]_ssVars

\* The loop goes on, time passes, and an edited entry is reloaded.  Reads and
\* uploads fail a bounded number of times.
SsFair ==
    /\ WF_ssVars(PassStep)
    /\ WF_ssVars(edited /\ ReloadEntry)
    /\ \A u \in Units : WF_ssVars(BeatDue(u)) /\ WF_ssVars(BackoffOver(u))
SsFairSpec == SsSpec /\ SsFair

-----------------------------------------------------------------------------
(* Properties.                                                             *)

Snaps == Snapshots \cup {NoRead}
SsTypeOK ==
    /\ conf \in [Units -> Models \cup {NoRead}]
    /\ edited \in BOOLEAN /\ ingest \in BOOLEAN
    /\ setting \in [Units -> {0, 1}]
    /\ {served, stored, seeding} \subseteq [Units -> Snaps]
    /\ pass \in [at : {"top", "seed", "begin", "read", "post", "save", "sleep", "dead"},
                 seeded : BOOLEAN, retrying : BOOLEAN, retries : 0..Retries,
                 read : SUBSET Units, todo : SUBSET Units, new : SUBSET Units,
                 listed : [Units -> Models \cup {NoRead}], upload : BOOLEAN,
                 unit : Units \cup {NoRead}, resized : BOOLEAN]
    /\ {cache, remote} \subseteq [Units -> {0, 1, NoRead}]
    /\ beat \subseteq Units /\ backoff \subseteq Units

\* What the LAN view answers is of the model the entry lists, through model
\* changes, restarts and the rows an earlier setup stored ("its registers
\* describe another address map", _seed_snapshots).
ServedIsOfModel ==
    ~edited => \A u \in Listed : served[u] # NoRead => served[u].model = conf[u]

\* "a read it already made is fresher than the phone's and is never replaced"
\* (seed_onboarding_settings), nor by a stored one, in one run of the loop.
ReadIsKept ==
    [][\A u \in Units :
          (served[u] # NoRead /\ served[u].by = "read" /\ served'[u] # NoRead)
             => served'[u].by = "read"]_ssVars

\* Settings that stay as they are reach the cloud and stay there, although an
\* upload may be accepted with its answer lost, the settings return to the
\* value of the last upload on record, uploads are refused for a while and the
\* entry is reloaded: unless the loop is dead.
SettingsReachCloud ==
    SsFair => \A u \in Units, v \in {0, 1} :
        <>[](setting[u] = v /\ conf[u] \in DeyeModels /\ ingest)
            => <>[](remote[u] = v \/ pass.at = "dead")

\* "the settings view serves them until the settings loop's own first read
\* replaces them" (seed_onboarding_settings): not after a seed that falls into
\* the saves of a pass.
SeedIsReplaced ==
    SsFair => \A u \in Units :
        (served[u] # NoRead /\ served[u].by = "phone")
            ~> (served[u] = NoRead \/ served[u].by # "phone")
=============================================================================
