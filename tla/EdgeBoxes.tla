------------------------------ MODULE EdgeBoxes -------------------------------
(***************************************************************************)
(* Adopting, binding and forgetting edge boxes: the adopt and forget views *)
(* of src/custom_components/svitgrid/island_lan.py, the authentication and *)
(* the binding of edge_api.py, and the reload that follows an adoption.    *)
(*                                                                         *)
(* A box is adopted unbound, with a pairing code the app carries to it.    *)
(* The first request in which it presents an api key and the code binds    *)
(* the key.  EDGE_BOX_LOCK serialises adopt, forget and bind, which are    *)
(* several keystore round trips each; update-inverter-ip does not take it. *)
(* Each keystore operation is a load and a write, as in TrustStore; the    *)
(* disk and the other callers of the keystore are there.                   *)
(*                                                                         *)
(* External: config_entries reloads an entry by unloading it and running   *)
(* its setup again; the edge queue exists from the end of a setup that     *)
(* found boxes to the next unload.                                         *)
(***************************************************************************)
EXTENDS KeystoreDoc, Naturals

CONSTANTS
    Requests,     \* coroutines that serve requests
    Served        \* the requests made in this instance

ASSUME EdgeBoxesAssumption == None \notin Requests \cup Boxes \cup BoxEntry

VARIABLES
    doc,      \* the keystore document
    lock,     \* who holds EDGE_BOX_LOCK
    at,       \* where a request's coroutine is
    arg,      \* what it is about: box, key, code, inverters
    snap,     \* the document its keystore operation loaded
    entry,    \* the config entry: loaded, setup (unloaded), read
    reload,   \* whether a reload of the entry is scheduled
    seen,     \* the boxes the entry's setup read
    minted,   \* codes issued so far
    lapsed,   \* codes whose ten minutes have passed
    used,     \* history: codes a key was bound with
    prepared  \* history: boxes whose queue was prepared since they bound

boxesVars == <<doc, lock, at, arg, snap, entry, reload, seen, minted, lapsed, used,
          prepared>>
setup == <<entry, reload, seen>>
codes == <<minted, lapsed, used>>

Points == {"idle", "adopt", "add", "add_write", "issue", "issue_write", "answer",
           "forget", "remove_write", "bind", "bind_load", "bind_write", "prepare",
           "ip", "ip_write"}
Args == [box: Boxes \cup {None}, api: ApiKeys \cup {None}, code: Codes \cup {None},
         entry: BoxEntry \cup {None}]
NoArg == [box |-> None, api |-> None, code |-> None, entry |-> None]

BoxesTypeOK ==
    /\ doc \in Doc
    /\ lock \in Requests \cup {None}
    /\ at \in [Requests -> Points]
    /\ arg \in [Requests -> Args]
    /\ snap \in [Requests -> Doc]
    /\ entry \in {"loaded", "setup", "read"}
    /\ reload \in BOOLEAN
    /\ seen \subseteq Boxes
    /\ lapsed \subseteq minted /\ minted \subseteq Codes
    /\ used \subseteq minted
    /\ prepared \subseteq Boxes

BoxesInit ==
    /\ doc = EmptyDoc
    /\ lock = None
    /\ at = [r \in Requests |-> "idle"]
    /\ arg = [r \in Requests |-> NoArg]
    /\ snap = [r \in Requests |-> EmptyDoc]
    /\ entry = "loaded" /\ reload = FALSE /\ seen = {}
    /\ minted = {} /\ lapsed = {} /\ used = {}
    /\ prepared = {}

-----------------------------------------------------------------------------
\* Steps of a coroutine.

LockIgnored == TRUE  \* mutant
LockFree == lock = None

Begin(r, point, a) ==
    /\ at[r] = "idle"
    /\ at' = [at EXCEPT ![r] = point]
    /\ arg' = [arg EXCEPT ![r] = a]
    /\ UNCHANGED snap

Goto(r, point) == at' = [at EXCEPT ![r] = point] /\ UNCHANGED arg

\* The coroutine answers its request; the lock goes with its `async with`.
LockLeaks(r) == lock  \* mutant
LockAfter(r) == IF lock = r THEN None ELSE lock
Answer(r) ==
    /\ at' = [at EXCEPT ![r] = "idle"]
    /\ arg' = [arg EXCEPT ![r] = NoArg]
    /\ snap' = [snap EXCEPT ![r] = EmptyDoc]
    /\ lock' = LockAfter(r)

\* A keystore operation loads the document.
Load(r, from, to) ==
    /\ at[r] = from
    /\ snap' = [snap EXCEPT ![r] = doc]
    /\ Goto(r, to)
    /\ UNCHANGED <<doc, lock, setup, codes, prepared>>

\* _schedule_edge_reload: only an entry that is set up is reloaded.
ScheduleReload ==
    /\ reload' = (reload \/ entry = "loaded")
    /\ UNCHANGED <<entry, seen>>

-----------------------------------------------------------------------------
(* POST /edge/adopt. *)

\* Bound: an adoption begins only while Codes has one left for each of those
\* under way.
CodeLeft ==
    Cardinality({q \in Requests : at[q] \in {"adopt", "add", "add_write", "issue", "issue_write"}})
        < Cardinality(Codes \ minted)

Adopt(r, b, held) ==
    /\ "adopt" \in Served
    /\ CodeLeft
    /\ Begin(r, "adopt", [NoArg EXCEPT !.box = b,
                             !.entry = [api |-> None, code |-> None, holds |-> held]])
    /\ UNCHANGED <<doc, lock, setup, codes, prepared>>

HeldByOther(b, held) ==
    \E other \in Adopted(doc) \ {b} : doc.boxes[other].holds \cap held # {}

\* With the lock: 409 when another box holds one of the inverters.
AdoptChecks(r) ==
    /\ at[r] = "adopt" /\ LockFree
    /\ IF HeldByOther(arg[r].box, arg[r].entry.holds)
       THEN Answer(r)
       ELSE lock' = r /\ Goto(r, "add") /\ UNCHANGED snap
    /\ UNCHANGED <<doc, setup, codes, prepared>>

\* async_add_edge_box: the entry replaces the box's previous one, key and all.
AdoptWrites(r) ==
    /\ at[r] = "add_write"
    /\ doc' = Written(AddEdgeBox(snap[r], arg[r].box, arg[r].entry))
    /\ Goto(r, "issue")
    /\ UNCHANGED <<lock, snap, setup, codes, prepared>>

\* async_issue_pair_code: a KeyError when the box is gone.
AdoptIssues(r, c) ==
    /\ at[r] = "issue_write"
    /\ c \notin minted
    /\ IF arg[r].box \notin Adopted(snap[r])
       THEN Answer(r) /\ UNCHANGED <<doc, codes>>
       ELSE /\ doc' = Written(IssuePairCode(snap[r], arg[r].box, c))
            /\ minted' = minted \cup {c}
            /\ Goto(r, "answer")
            /\ UNCHANGED <<lock, snap, lapsed, used>>
    /\ UNCHANGED <<setup, prepared>>

\* The lock is released, and the answer carries the code to the app.
AdoptAnswers(r) ==
    /\ at[r] = "answer"
    /\ Answer(r)
    /\ ScheduleReload
    /\ UNCHANGED <<doc, codes, prepared>>

-----------------------------------------------------------------------------
(* POST /edge/forget. *)

Forget(r, b) ==
    /\ "forget" \in Served
    /\ Begin(r, "forget", [NoArg EXCEPT !.box = b])
    /\ UNCHANGED <<doc, lock, setup, codes, prepared>>

\* With the lock: async_remove_edge_box loads...
ForgetLoads(r) ==
    /\ at[r] = "forget" /\ LockFree
    /\ lock' = r
    /\ snap' = [snap EXCEPT ![r] = doc]
    /\ Goto(r, "remove_write")
    /\ UNCHANGED <<doc, setup, codes, prepared>>

\* ...and writes if the box was there; then the box's queue is dropped.
ForgetWrites(r) ==
    /\ at[r] = "remove_write"
    /\ IF RemoveEdgeBoxWrites(snap[r], arg[r].box)
       THEN doc' = Written(RemoveEdgeBox(snap[r], arg[r].box)) /\ ScheduleReload
       ELSE UNCHANGED <<doc, setup>>
    /\ Answer(r)
    /\ UNCHANGED <<codes, prepared>>

-----------------------------------------------------------------------------
(* Any request of a box: _EdgeView._box and _bind. *)

\* A key no box is bound to, with a pairing code.
Contact(r, a, c) ==
    /\ "contact" \in Served
    /\ Adopted(doc) # {} /\ BoxForApiKey(doc, a) = {}
    /\ c \in minted
    /\ Begin(r, "bind", [NoArg EXCEPT !.api = a, !.code = c])
    /\ UNCHANGED <<doc, lock, setup, codes, prepared>>

\* Whether _bind, which loads again, finds a box to bind: the key is still
\* unbound, and the code is the live code of an unbound box.
BindsUnchecked(a, c) == c \notin lapsed /\ BoxForCode(doc, c) # {}  \* mutant
Binds(a, c) ==
    BoxForApiKey(doc, a) = {} /\ c \notin lapsed /\ BoxForCode(doc, c) # {}

\* The lock is held from the check to the end of the request's authentication.
TakeLock(r) == lock' = r

BindChecks(r) ==
    /\ at[r] = "bind" /\ LockFree
    /\ \/ /\ ~Binds(arg[r].api, arg[r].code)
          /\ Answer(r)
       \/ \E b \in BoxForCode(doc, arg[r].code) :
             /\ Binds(arg[r].api, arg[r].code)
             /\ TakeLock(r)
             /\ at' = [at EXCEPT ![r] = "bind_load"]
             /\ arg' = [arg EXCEPT ![r].box = b]
             /\ UNCHANGED snap
    /\ UNCHANGED <<doc, setup, codes, prepared>>

\* async_bind_edge_box: a KeyError when the box is gone.
BindWrites(r) ==
    LET b == arg[r].box
    IN  /\ at[r] = "bind_write"
        /\ IF b \notin Adopted(snap[r])
           THEN Answer(r) /\ UNCHANGED <<doc, codes, prepared>>
           ELSE /\ doc' = Written(BindEdgeBox(snap[r], b, arg[r].api))
                /\ used' = used \cup {arg[r].code}
                /\ prepared' = prepared \ {b}
                /\ Goto(r, "prepare")
                /\ UNCHANGED <<lock, snap, minted, lapsed>>
        /\ UNCHANGED setup

QueueUp == entry = "loaded" /\ seen # {}

\* _prepare_bound_box: drop what waits for the box and queue its inverters,
\* if there is a queue.
Prepare(r) ==
    /\ at[r] = "prepare"
    /\ prepared' = IF QueueUp THEN prepared \cup {arg[r].box} ELSE prepared
    /\ Answer(r)
    /\ UNCHANGED <<doc, setup, codes>>

\* POST update-inverter-ip by a bound box: the entry the key was looked up in
\* is the one written back, with the inverter's new address.
UpdateInverterIp(r, b) ==
    /\ "ip" \in Served
    /\ b \in Adopted(doc) /\ doc.boxes[b].api # None /\ doc.boxes[b].holds # {}
    /\ Begin(r, "ip", [NoArg EXCEPT !.box = b, !.entry = doc.boxes[b]])
    /\ UNCHANGED <<doc, lock, setup, codes, prepared>>

IpWrites(r) ==
    /\ at[r] = "ip_write"
    /\ doc' = Written(AddEdgeBox(snap[r], arg[r].box, arg[r].entry))
    /\ Answer(r)
    /\ UNCHANGED <<setup, codes, prepared>>

\* A code's ten minutes pass.
CodeLapses(c) ==
    /\ c \in minted \ lapsed
    /\ lapsed' = lapsed \cup {c}
    /\ UNCHANGED <<doc, lock, at, arg, snap, setup, minted, used, prepared>>

-----------------------------------------------------------------------------
(* The reload of the config entry. *)

Requestless == <<doc, lock, at, arg, snap, codes, prepared>>

\* _async_reload_entry: the entry's data or options changed.
EntryUpdated ==
    /\ "update" \in Served
    /\ ScheduleReload
    /\ UNCHANGED Requestless

ReloadStarts ==
    /\ reload /\ entry = "loaded"
    /\ reload' = FALSE /\ entry' = "setup"
    /\ UNCHANGED <<seen, Requestless>>

\* async_setup_entry reads the boxes...
SetupReads ==
    /\ entry = "setup"
    /\ entry' = "read" /\ seen' = Adopted(doc)
    /\ UNCHANGED <<reload, Requestless>>

\* ...and ends, some awaits later, with the queue and executors for those.
SetupEnds ==
    /\ entry = "read"
    /\ entry' = "loaded"
    /\ UNCHANGED <<reload, seen, Requestless>>

RequestStep(r) ==
    \/ AdoptChecks(r) \/ Load(r, "add", "add_write") \/ AdoptWrites(r)
    \/ Load(r, "issue", "issue_write") \/ (\E c \in Codes : AdoptIssues(r, c))
    \/ AdoptAnswers(r)
    \/ ForgetLoads(r) \/ ForgetWrites(r)
    \/ BindChecks(r) \/ Load(r, "bind_load", "bind_write") \/ BindWrites(r) \/ Prepare(r)
    \/ Load(r, "ip", "ip_write") \/ IpWrites(r)
RequestBegins ==
    \E r \in Requests, b \in Boxes :
        \/ \E held \in SUBSET Inverters : Adopt(r, b, held)
        \/ Forget(r, b)
        \/ UpdateInverterIp(r, b)
        \/ \E a \in ApiKeys, c \in Codes : Contact(r, a, c)
Reload == ReloadStarts \/ SetupReads \/ SetupEnds

BoxesNext ==
    \/ RequestBegins
    \/ \E r \in Requests : RequestStep(r)
    \/ \E c \in Codes : CodeLapses(c)
    \/ EntryUpdated
    \/ Reload

BoxesSpec == BoxesInit /\ [][BoxesNext]_boxesVars

\* asyncio runs every coroutine that can go on; EDGE_BOX_LOCK is granted in
\* the order it was asked for.
BoxesFair == WF_boxesVars(Reload) /\ \A r \in Requests : SF_boxesVars(RequestStep(r))
-----------------------------------------------------------------------------
(* Properties. *)

\* No two boxes answer to one api key: edge_box_for_api_key takes the first,
\* and the other box's commands would go to it (keystore.py:190-205).  And no
\* inverter is held by two boxes: both would read and command it (409
\* inverter_held_by_other_box, island_lan.py:844-853).
NothingShared ==
    /\ \A a \in ApiKeys : \A b, c \in BoxForApiKey(doc, a) : b = c
    /\ \A b, c \in Adopted(doc) :
          b # c => doc.boxes[b].holds \cap doc.boxes[c].holds = {}

\* The lock is there "so a box is never bound while it is being replaced or
\* removed" (edge_api.py:264-267).  "The code is single use"
\* (async_bind_edge_box, keystore.py:497-507): no two bindings are made with
\* one code, not even of two requests that both found it live.  And a
\* forgotten box is removed: no step but an adoption brings back a box that is
\* not adopted.
LockGuards ==
    [][/\ \A r \in Requests :
             at[r] = "bind_write" /\ at'[r] = "prepare" => arg[r].code \notin used
       /\ \A b \in Adopted(doc)' \ Adopted(doc) :
             \E r \in Requests : at[r] = "add_write" /\ at'[r] = "issue" /\ arg[r].box = b]_<<at, doc>>

\* "a new box gets its inverters, which nothing else can give it", and a stale
\* command must not send it straight back out (edge_api.py:127-133): a bound
\* box has had its queue prepared.
BoundBoxPrepared ==
    \A b \in Adopted(doc) :
        doc.boxes[b].api # None
           => b \in prepared \/ \E r \in Requests : at[r] = "prepare" /\ arg[r].box = b

\* "Setup reads the edge boxes [...] and stops harvesting what a box holds"
\* (_schedule_edge_reload, island_lan.py:778-786): once nothing is under way
\* the loaded setup serves the adopted boxes.
SetupServesBoxes ==
    (entry = "loaded" /\ ~reload /\ \A r \in Requests : at[r] = "idle")
        => seen = Adopted(doc)

\* Every request is answered, whoever holds the lock.
RequestsEnd == BoxesFair => \A r \in Requests : at[r] # "idle" ~> at[r] = "idle"
=============================================================================
