----------------------------- MODULE ZigbeeRoster -----------------------------
(***************************************************************************)
(* The Zigbee devices of the adopted edge boxes: the roster the boxes'     *)
(* reports keep (edge_api.py, zigbee_devices.py), the pairing windows, the *)
(* owner's commands (zigbee_lan.py), the devices an adoption brings        *)
(* (island_lan.py), and the Home Assistant entities that follow the roster *)
(* (edge_entities.py).                                                     *)
(*                                                                         *)
(* Every request reads, decides and writes in separate executor jobs, so   *)
(* each has a step per job, and what it read stays with it.  A short       *)
(* address is given anew at every join.  The box's queue is modelled in    *)
(* EdgeCommandQueue; here it delivers a command or gives it up.            *)
(***************************************************************************)
EXTENDS Naturals, FiniteSets

CONSTANTS
    Things,     \* Zigbee devices, by IEEE address
    Sensing,    \* those of them that are sensors; the others are plugs
    Hubs,       \* edge boxes
    ShortAddrs, \* short addresses on a mesh
    Unlisted,   \* no row
    MaxJoins,   \* bound: joins reported
    MaxActs     \* bound: reports, owner's requests, refreshes and reloads together

RosterRow ==
    [hub : Hubs, addr : ShortAddrs, on : BOOLEAN, reach : BOOLEAN, since : BOOLEAN, use : BOOLEAN]

ASSUME ZigbeeAssumption ==
    /\ Sensing \subseteq Things
    /\ {MaxJoins, MaxActs} \subseteq Nat
    /\ "none" \notin Hubs /\ Unlisted \notin RosterRow

JoinIds == 1..MaxJoins
Away == [hub |-> "none", addr |-> "none"]

VARIABLES
    roster,     \* zigbee_devices: per device its row
    measured,   \* the stored readings: which device's, of which kind
    told,       \* the devices with a history of commands
    window,     \* zigbee_permit_join: the boxes open for pairing now
    held,       \* the adopted boxes
    mesh,       \* where each device really is
    orders,     \* pending remove_device commands, per box and device
    switching,  \* set_state commands queued or delivered, not yet answered
    joining,    \* per reported join: where its request is
    report,     \* the state report in its handler
    tap,        \* the owner's request in its handler
    adopting,   \* an adoption that stores its box's devices
    entities,   \* what the entity tracker added, by kind
    registry,   \* Home Assistant's entity registry
    roll,       \* the rows a refresh of the entities has read
    strays,     \* ghost: devices left on a mesh by a cause named below
    spent       \* of MaxActs

zbVars == <<roster, measured, told, window, held, mesh, orders, switching, joining, report,
            tap, adopting, entities, registry, roll, strays, spent>>

OnRoster(z) == roster[z] # Unlisted
Quiet == [at |-> "idle", hub |-> "none", thing |-> "none", addr |-> "none", on |-> FALSE,
          reach |-> "absent", was |-> TRUE, moved |-> FALSE]
NoTap == [at |-> "idle", cmd |-> "none", thing |-> "none", hub |-> "none", on |-> FALSE]
NoSeed == [hub |-> "none", left |-> {}, at |-> "idle", thing |-> "none"]
NoJoin == [at |-> "none", thing |-> "none", hub |-> "none", addr |-> "none"]

ZbInit ==
    /\ roster = [z \in Things |-> Unlisted]
    /\ measured = {} /\ told = {} /\ window = {}
    /\ held \in SUBSET Hubs
    /\ mesh = [z \in Things |-> Away]
    /\ orders = [h \in Hubs |-> [z \in Things |-> 0]]
    /\ switching = {}
    /\ joining = [j \in JoinIds |-> NoJoin]
    /\ report = Quiet /\ tap = NoTap
    /\ adopting = NoSeed
    /\ entities = {} /\ registry = {} /\ roll = {}
    /\ strays = {}
    /\ spent = 0

Acts == spent < MaxActs /\ spent' = spent + 1

\* The store: an update of a row that is gone changes nothing, an insert of one
\* that is there fails.
Updated(z, row) == IF OnRoster(z) THEN [roster EXCEPT ![z] = row] ELSE roster
NewRow(hub, addr) == [hub |-> hub, addr |-> addr, on |-> FALSE, reach |-> TRUE,
                      since |-> FALSE, use |-> FALSE]
Inserted(z, hub, addr) ==
    IF OnRoster(z) THEN roster ELSE [roster EXCEPT ![z] = NewRow(hub, addr)]

-----------------------------------------------------------------------------
(* The meshes.                                                             *)

\* A device joins a box's mesh, anew or from another, at a free address; the
\* box of an adopted mesh reports it.  On a mesh Home Assistant does not hold
\* nothing is reported.
Arrives(z, h, a) ==
    /\ \A y \in Things \ {z} : mesh[y] # [hub |-> h, addr |-> a]
    /\ mesh' = [mesh EXCEPT ![z] = [hub |-> h, addr |-> a]]
    /\ strays' = strays \ {z}
    /\ \E j \in JoinIds :
          /\ joining[j] = NoJoin /\ \A i \in 1..(j - 1) : joining[i] # NoJoin
          /\ joining' = [joining EXCEPT ![j] =
                 [at |-> "sent", thing |-> z, hub |-> h, addr |-> a]]
    /\ UNCHANGED <<roster, measured, told, window, held, orders, switching, report, tap,
                   adopting, entities, registry, roll, spent>>

\* The box runs a remove_device it polled.
Removed(h, z) ==
    /\ h \in held /\ orders[h][z] > 0
    /\ orders' = [orders EXCEPT ![h][z] = @ - 1]
    /\ mesh' = IF mesh[z].hub = h THEN [mesh EXCEPT ![z] = Away] ELSE mesh
    /\ UNCHANGED <<roster, measured, told, window, held, switching, joining, report, tap,
                   adopting, entities, registry, roll, strays, spent>>

\* The command's time runs out, or its delivery failed twice.
GivenUp(h, z) ==
    /\ orders[h][z] > 0
    /\ orders' = [orders EXCEPT ![h][z] = @ - 1]
    /\ strays' = IF mesh[z].hub = h THEN strays \cup {z} ELSE strays
    /\ UNCHANGED <<roster, measured, told, window, held, mesh, switching, joining, report,
                   tap, adopting, entities, registry, roll, spent>>

WindowEnds(h) ==
    /\ h \in window
    /\ window' = window \ {h}
    /\ UNCHANGED <<roster, measured, told, held, mesh, orders, switching, joining, report, tap,
                   adopting, entities, registry, roll, strays, spent>>

-----------------------------------------------------------------------------
(* device-joined.                                                          *)

JoinStep(j, from, to) ==
    /\ joining[j].at = from
    /\ joining' = [joining EXCEPT ![j].at = to]

\* Where a device is, its join is being handled.
Expected(z) == \E j \in JoinIds :
    joining[j].thing = z /\ joining[j].hub = mesh[z].hub /\ joining[j].at # "over"
\* A device left without a row and without a command to remove it.
Forsaken(z) ==
    IF mesh[z] # Away /\ orders[mesh[z].hub][z] = 0 THEN strays \cup {z} ELSE strays

\* A box that is not adopted is refused; the others look the device up.
LooksUp(j) ==
    LET b == joining[j] IN
    /\ JoinStep(j, "sent", IF b.hub \notin held THEN "over"
                           ELSE IF OnRoster(b.thing) THEN "known" ELSE "unknown")
    /\ UNCHANGED <<roster, measured, told, window, held, mesh, orders, switching, report, tap,
                   adopting, entities, registry, roll, strays, spent>>

\* Its row moves to the box, if there still is one.
Moves(row, b) == [row EXCEPT !.hub = b.hub, !.addr = b.addr, !.reach = TRUE, !.since = FALSE]
Repoints(j) ==
    LET b == joining[j] IN
    /\ JoinStep(j, "known", "over")
    /\ roster' = Updated(b.thing, Moves(roster[b.thing], b))
    /\ strays' = IF OnRoster(b.thing) THEN strays ELSE Forsaken(b.thing)
    /\ UNCHANGED <<measured, told, window, held, mesh, orders, switching, report, tap,
                   adopting, entities, registry, roll, spent>>

ChecksWindow(j) ==
    /\ JoinStep(j, "unknown", IF joining[j].hub \in window THEN "invited" ELSE "rogue")
    /\ UNCHANGED <<roster, measured, told, window, held, mesh, orders, switching, report, tap,
                   adopting, entities, registry, roll, strays, spent>>

\* The insert fails when a row came meanwhile; the box is answered 500.
Adds(j) ==
    LET b == joining[j] IN
    /\ JoinStep(j, "invited", "over")
    /\ roster' = Inserted(b.thing, b.hub, b.addr)
    /\ UNCHANGED <<measured, told, window, held, mesh, orders, switching, report, tap,
                   adopting, entities, registry, roll, strays, spent>>

\* _kick_unpaired: one pending remove_device for the device is enough.
AnyWaits(h, z) == \E y \in Things : orders[h][y] > 0  \* mutant
KickWaits(h, z) == orders[h][z] > 0
SeesPending(j) ==
    /\ JoinStep(j, "rogue", IF KickWaits(joining[j].hub, joining[j].thing) THEN "over" ELSE "kick")
    /\ UNCHANGED <<roster, measured, told, window, held, mesh, orders, switching, report, tap,
                   adopting, entities, registry, roll, strays, spent>>
Kicks(j) ==
    /\ JoinStep(j, "kick", "over")
    /\ orders' = [orders EXCEPT ![joining[j].hub][joining[j].thing] = @ + 1]
    /\ UNCHANGED <<roster, measured, told, window, held, mesh, switching, report, tap,
                   adopting, entities, registry, roll, strays, spent>>

-----------------------------------------------------------------------------
(* state-update and the readings.                                          *)

\* A report names the device by its IEEE address, or by the short one alone:
\* the row of the box at that address, whichever device is there now.
At(h, a) == {z \in Things : OnRoster(z) /\ roster[z].hub = h /\ roster[z].addr = a}
Finds(z) ==
    LET p == mesh[z] IN
    At(p.hub, p.addr) \cup (IF OnRoster(z) /\ roster[z].hub = p.hub THEN {z} ELSE {})

\* What the report changes is worked out from the row it found.
ReportFound(z, found) ==
    /\ report.at = "idle" /\ mesh[z].hub \in held /\ found \in Finds(z)
    /\ Acts
    /\ \E on \in BOOLEAN, reach \in {"yes", "no", "absent"} :
          report' = [at |-> "found", hub |-> mesh[z].hub, thing |-> found,
                     addr |-> mesh[z].addr, on |-> on, reach |-> reach,
                     was |-> roster[found].reach,
                     moved |-> roster[found].addr # mesh[z].addr]
    /\ UNCHANGED <<roster, measured, told, window, held, mesh, orders, switching, joining, tap,
                   adopting, entities, registry, roll, strays>>

\* Only `reachable` reflects a live exchange: its absence clears no verdict.
StateFields(row, r) ==
    [row EXCEPT
        !.on = r.on,
        !.addr = IF r.moved THEN r.addr ELSE @,
        !.reach = IF r.reach = "absent" THEN @ ELSE r.reach = "yes",
        !.since = IF r.reach = "yes" THEN FALSE
                  ELSE IF r.reach = "no" /\ r.was THEN TRUE ELSE @]
ReportStored ==
    /\ report.at = "found"
    /\ report' = Quiet
    /\ roster' = Updated(report.thing, StateFields(roster[report.thing], report))
    /\ UNCHANGED <<measured, told, window, held, mesh, orders, switching, joining, tap,
                   adopting, entities, registry, roll, strays, spent>>

\* A reading is stored under the row at its address, in one job; one with no
\* row is dropped, for it would bring back a device the owner removed.
NoRowNeeded(h, a) == {z \in Things : mesh[z] = [hub |-> h, addr |-> a]}  \* mutant
RowsFor(h, a) == At(h, a)
SensorReading(z) ==
    /\ z \in Sensing /\ mesh[z].hub \in held
    /\ Acts
    /\ \E y \in RowsFor(mesh[z].hub, mesh[z].addr) :
          measured' = measured \cup {<<y, "sensor">>}
    /\ UNCHANGED <<roster, told, window, held, mesh, orders, switching, joining, report, tap,
                   adopting, entities, registry, roll, strays>>

\* A plug's rides an ingest of its box, and proves the plug reachable.
PlugReading(z) ==
    /\ z \notin Sensing /\ mesh[z].hub \in held
    /\ Acts
    /\ \E y \in At(mesh[z].hub, mesh[z].addr) :
          /\ measured' = measured \cup {<<y, "plug">>}
          /\ roster' = Updated(y, [roster[y] EXCEPT !.reach = TRUE, !.since = FALSE])
    /\ UNCHANGED <<told, window, held, mesh, orders, switching, joining, report, tap, adopting,
                   entities, registry, roll, strays>>

-----------------------------------------------------------------------------
(* The owner's requests.                                                   *)

\* A trusted key opens a box's window, queueing permit_join for the box.
PermitJoin(h) ==
    /\ tap.at = "idle" /\ h \in held
    /\ Acts
    /\ window' = window \cup {h}
    /\ UNCHANGED <<roster, measured, told, held, mesh, orders, switching, joining, report, tap,
                   adopting, entities, registry, roll, strays>>

\* Of the box-wide commands a trusted key's zigbee_factory_reset empties the
\* mesh; the others change nothing here.
Resets(h) ==
    /\ h \in held
    /\ Acts
    /\ mesh' = [z \in Things |-> IF mesh[z].hub = h THEN Away ELSE mesh[z]]
    /\ UNCHANGED <<roster, measured, told, window, held, orders, switching, joining, report,
                   tap, adopting, entities, registry, roll, strays>>

\* A device command: the row is read, and its box must be an adopted one.  A
\* PATCH needs a row only.
TapFound(z, cmd) ==
    /\ tap.at = "idle" /\ OnRoster(z) /\ held # {}
    /\ cmd = "patch" \/ roster[z].hub \in held
    /\ Acts
    /\ \E on \in BOOLEAN :
          /\ cmd \in {"remove", "leave"} => on
          /\ cmd = "patch" /\ on => <<z, "sensor">> \notin measured
          /\ tap' = [at |-> "found", cmd |-> cmd, thing |-> z, hub |-> roster[z].hub,
                     on |-> on]
    /\ UNCHANGED <<roster, measured, told, window, held, mesh, orders, switching, joining,
                   report, adopting, entities, registry, roll, strays>>

\* remove_device and leave_hub queue the same command for the box of the row.
Orders(hub, z) == [orders EXCEPT ![hub][z] = @ + 1]
TapQueued ==
    LET z == tap.thing IN
    /\ tap.at = "found" /\ tap.cmd # "patch"
    /\ \/ tap.cmd \in {"remove", "leave"}
          /\ orders' = Orders(tap.hub, z)
          /\ UNCHANGED switching
       \/ tap.cmd = "switch"
          /\ switching' = switching \cup {[hub |-> tap.hub, thing |-> z, on |-> tap.on]}
          /\ UNCHANGED orders
    /\ tap' = IF tap.cmd = "leave" THEN NoTap ELSE [tap EXCEPT !.at = "queued"]
    /\ UNCHANGED <<roster, measured, told, window, held, mesh, joining, report, adopting,
                   entities, registry, roll, strays, spent>>

\* remove_device forgets the device, its readings and its history; set_state
\* records itself in the history; a PATCH writes the row, if there is one.
Erase(z) ==
    /\ roster' = [roster EXCEPT ![z] = Unlisted]
    /\ measured' = {m \in measured : m[1] # z}
    /\ told' = told \ {z}
TapWritten ==
    LET z == tap.thing IN
    /\ tap.at = "queued" \/ (tap.at = "found" /\ tap.cmd = "patch")
    /\ tap' = NoTap
    /\ \/ /\ tap.cmd = "remove"
          /\ Erase(z)
          /\ strays' = IF Expected(z) THEN strays ELSE Forsaken(z)
       \/ /\ tap.cmd = "switch"
          /\ told' = told \cup {z}
          /\ UNCHANGED <<roster, measured, strays>>
       \/ /\ tap.cmd = "patch"
          /\ roster' = Updated(z, [roster[z] EXCEPT !.use = tap.on])
          /\ UNCHANGED <<measured, told, strays>>
    /\ UNCHANGED <<window, held, mesh, orders, switching, joining, report, adopting, entities,
                   registry, roll, spent>>

\* The box answers a set_state it carried out, perhaps twice, or it did not.
Switched(s) ==
    /\ s \in switching /\ s.hub \in held
    /\ \/ roster' = Updated(s.thing, [roster[s.thing] EXCEPT !.on = s.on])
          /\ switching' \in {switching, switching \ {s}}
       \/ roster' = roster /\ switching' = switching \ {s}
    /\ UNCHANGED <<measured, told, window, held, mesh, orders, joining, report, tap, adopting,
                   entities, registry, roll, strays, spent>>

-----------------------------------------------------------------------------
(* Adopting and forgetting a box.                                          *)

\* Before the box is one of ours, the devices its app lists are stored under
\* it; the box then binds, and those left out stay on its mesh unknown.
Takeover(h) ==
    /\ held' = held \cup {h}
    /\ strays' = strays \cup {z \in Things : mesh[z].hub = h /\ roster'[z] = Unlisted}
    /\ adopting' = NoSeed
AdoptHub(h, list) ==
    /\ adopting = NoSeed /\ h \notin held
    /\ Acts
    /\ UNCHANGED roster
    /\ IF list = {} THEN Takeover(h)
       ELSE /\ adopting' = [hub |-> h, left |-> list, at |-> "get", thing |-> "none"]
            /\ UNCHANGED <<held, strays>>
    /\ UNCHANGED <<measured, told, window, mesh, orders, switching, joining, report, tap,
                   entities, registry, roll>>

\* Per device: look it up, add it if there is no row, then write its row.
SeedGet(z) ==
    /\ adopting.at = "get" /\ z \in adopting.left
    /\ adopting' = [adopting EXCEPT !.at = IF OnRoster(z) THEN "write" ELSE "add",
                                    !.thing = z]
    /\ UNCHANGED <<roster, measured, told, window, held, mesh, orders, switching, joining,
                   report, tap, entities, registry, roll, strays, spent>>

\* The insert fails when a row came meanwhile, and with it the adoption.
SeedAdd(a) ==
    LET z == adopting.thing IN
    /\ adopting.at = "add"
    /\ IF OnRoster(z) THEN adopting' = NoSeed /\ UNCHANGED roster
       ELSE /\ adopting' = [adopting EXCEPT !.at = "write"]
            /\ roster' = Inserted(z, adopting.hub, a)
    /\ UNCHANGED <<measured, told, window, held, mesh, orders, switching, joining, report, tap,
                   entities, registry, roll, strays, spent>>

SeedWrite(a) ==
    LET z == adopting.thing
        left == adopting.left \ {z}
    IN
    /\ adopting.at = "write"
    /\ roster' = Updated(z, [roster[z] EXCEPT !.hub = adopting.hub, !.addr = a])
    /\ IF left = {} THEN Takeover(adopting.hub)
       ELSE /\ adopting' = [adopting EXCEPT !.at = "get", !.left = left, !.thing = "none"]
            /\ UNCHANGED <<held, strays>>
    /\ UNCHANGED <<measured, told, window, mesh, orders, switching, joining, report, tap,
                   entities, registry, roll, spent>>

\* Forgetting a box empties its queue; the rows of its devices stay.
ForgetHub(h) ==
    /\ h \in held /\ adopting = NoSeed
    /\ Acts
    /\ held' = held \ {h}
    /\ orders' = [orders EXCEPT ![h] = [z \in Things |-> 0]]
    /\ switching' = {s \in switching : s.hub # h}
    /\ UNCHANGED <<roster, measured, told, window, mesh, joining, report, tap, adopting,
                   entities, registry, roll, strays>>

-----------------------------------------------------------------------------
(* The entities.                                                           *)

\* The coordinator lists the rows, then reads each one's latest readings.
RollCall ==
    /\ roll = {} /\ \E z \in Things : OnRoster(z)
    /\ Acts
    /\ roll' = {z \in Things : OnRoster(z)}
    /\ UNCHANGED <<roster, measured, told, window, held, mesh, orders, switching, joining,
                   report, tap, adopting, entities, registry, strays>>

\* A device is a sensor once it sent a reading, or its capabilities say so.
IsSensor(z, discovered) == <<z, "sensor">> \in measured \/ z \in discovered
\* The tracker takes away what it added and the rows no longer call for.
Wanted(discovered) ==
    LET sensors == {z \in roll : IsSensor(z, discovered)}
    IN  sensors \X {"sensor"} \cup (roll \ sensors) \X {"plug"}
Sync ==
    /\ roll # {}
    /\ roll' = {}
    /\ \E discovered \in SUBSET (roll \cap Sensing) :
          /\ entities' = Wanted(discovered)
          /\ registry' = (registry \ entities) \cup Wanted(discovered)
    /\ UNCHANGED <<roster, measured, told, window, held, mesh, orders, switching, joining,
                   report, tap, adopting, strays, spent>>

\* A reload of the entry: a new tracker has added nothing.
Reboot ==
    /\ entities # {} \/ roll # {}
    /\ Acts
    /\ entities' = {} /\ roll' = {}
    /\ UNCHANGED <<roster, measured, told, window, held, mesh, orders, switching, joining,
                   report, tap, adopting, registry, strays>>

\* The bound is reached: what was begun may still end.
Rests == spent = MaxActs /\ UNCHANGED zbVars

-----------------------------------------------------------------------------
ZbNext ==
    \/ \E z \in Things, h \in Hubs :
          \/ Removed(h, z) \/ GivenUp(h, z)
          \/ \E a \in ShortAddrs : Arrives(z, h, a)
    \/ \E h \in Hubs :
          \/ WindowEnds(h) \/ PermitJoin(h) \/ Resets(h) \/ ForgetHub(h)
          \/ \E list \in SUBSET Things : AdoptHub(h, list)
    \/ \E j \in JoinIds :
          \/ LooksUp(j) \/ Repoints(j) \/ ChecksWindow(j) \/ Adds(j)
          \/ SeesPending(j) \/ Kicks(j)
    \/ \E z \in Things :
          \/ \E y \in Things : ReportFound(z, y)
          \/ SensorReading(z) \/ PlugReading(z) \/ SeedGet(z)
          \/ \E cmd \in {"remove", "leave", "switch", "patch"} : TapFound(z, cmd)
    \/ ReportStored \/ TapQueued \/ TapWritten
    \/ \E s \in switching : Switched(s)
    \/ \E a \in ShortAddrs : SeedAdd(a) \/ SeedWrite(a)
    \/ RollCall \/ Sync \/ Reboot \/ Rests

ZbSpec == ZbInit /\ [][ZbNext]_zbVars

-----------------------------------------------------------------------------
(* Properties.                                                             *)

ZbTypeOK ==
    /\ roster \in [Things -> RosterRow \cup {Unlisted}]
    /\ measured \subseteq Things \X {"plug", "sensor"}
    /\ told \subseteq Things /\ strays \subseteq Things
    /\ window \subseteq Hubs /\ held \subseteq Hubs
    /\ mesh \in [Things -> [hub : Hubs, addr : ShortAddrs] \cup {Away}]
    /\ orders \in [Hubs -> [Things -> Nat]]
    /\ switching \subseteq [hub : Hubs, thing : Things, on : BOOLEAN]
    /\ {entities, registry} \subseteq SUBSET (Things \X {"plug", "sensor"})

\* A device nobody paired does not stay on a box's mesh
\* (EdgeZigbeeDeviceJoinedView): while it has no row, its join is on the way or
\* a remove_device for it is pending, whatever other joins, owner's requests and
\* commands run at once, except where `strays` says why.  And nothing is kept
\* of a device without a row: no reading survives its removal to show up when it
\* is paired again.
NoStowaway ==
    /\ \A z \in Things :
          mesh[z].hub \in held /\ ~OnRoster(z) =>
              Expected(z) \/ orders[mesh[z].hub][z] > 0 \/ z \in strays
    /\ \A m \in measured : OnRoster(m[1])
=============================================================================
