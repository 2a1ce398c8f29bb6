------------------------------ MODULE Edge_proofs ------------------------------
(***************************************************************************)
(* No stowaways among the Zigbee devices, for any number of devices, boxes,*)
(* joins and requests; and the types of all that concerns the edge boxes,  *)
(* with what EdgeCommandQueue_proofs and EdgeBoxes_proofs say of theirs.   *)
(***************************************************************************)
EXTENDS MCEdge, EdgeCommandQueue_proofs, EdgeBoxes_proofs, TLAPS

\* The requests under way, with what each has read.
JoinSteps == {"sent", "known", "unknown", "invited", "rogue", "kick", "over"}
Joins == [at : JoinSteps, thing : Things, hub : Hubs, addr : ShortAddrs]
Taps == [at : {"found", "queued"}, cmd : {"remove", "leave", "switch", "patch"},
         thing : Things, hub : Hubs, on : BOOLEAN]
Reports == [at : {"found"}, hub : Hubs, thing : Things, addr : ShortAddrs, on : BOOLEAN,
            reach : {"yes", "no", "absent"}, was : BOOLEAN, moved : BOOLEAN]
Seeds == [hub : Hubs, left : SUBSET Things, at : {"get"}, thing : {"none"}]
         \cup [hub : Hubs, left : SUBSET Things, at : {"add", "write"}, thing : Things]
Spots == [hub : Hubs, addr : ShortAddrs] \cup {Away}
Switches == [hub : Hubs, thing : Things, on : BOOLEAN]

-----------------------------------------------------------------------------
(* The inductive invariant. *)

Meshes == mesh \in [Things -> Spots] /\ held \subseteq Hubs
          /\ orders \in [Hubs -> [Things -> Nat]]
Rows == roster \in [Things -> RosterRow \cup {Unlisted}]
UnderWay ==
    /\ joining \in [JoinIds -> Joins \cup {NoJoin}]
    /\ tap \in Taps \cup {NoTap} /\ report \in Reports \cup {Quiet}
    /\ adopting \in Seeds \cup {NoSeed} /\ switching \subseteq Switches
Shaped == Meshes /\ Rows /\ UnderWay /\ measured \subseteq Things \X {"plug", "sensor"}

\* A device without a row is accounted for where it is.
Accounted(z) == Expected(z) \/ orders[mesh[z].hub][z] > 0 \/ z \in strays
AllAccounted == \A z \in Things : mesh[z].hub \in held /\ ~OnRoster(z) => Accounted(z)
NothingKept == \A m \in measured : OnRoster(m[1])

ZbInv == Shaped /\ AllAccounted /\ NothingKept

-----------------------------------------------------------------------------
(* The rows. *)

\* An update keeps the rows there are, and brings none.
LEMMA UpdateKeepsRows ==
    ASSUME Rows, NEW z \in Things, NEW r, OnRoster(z) => r \in RosterRow, roster' = Updated(z, r)
    PROVE  Rows' /\ \A y \in Things : OnRoster(y)' <=> OnRoster(y)
BY ZigbeeAssumption DEF Rows, Updated, OnRoster

LEMMA InsertAddsRow ==
    ASSUME Rows, NEW z \in Things, NEW h \in Hubs, NEW a \in ShortAddrs,
           roster' = Inserted(z, h, a)
    PROVE  /\ Rows' /\ OnRoster(z)'
           /\ \A y \in Things : OnRoster(y) => OnRoster(y)'
<1>1. NewRow(h, a) \in RosterRow
  BY DEF NewRow, RosterRow
<1> QED BY <1>1, ZigbeeAssumption DEF Rows, Inserted, OnRoster

LEMMA SameRows ==
    ASSUME UNCHANGED roster
    PROVE  \A y : OnRoster(y)' <=> OnRoster(y)
BY DEF OnRoster

-----------------------------------------------------------------------------
(* Joins. *)

\* A device at a place of Home Assistant's is expected by a real join.
LEMMA JoinMoves ==
    ASSUME UnderWay, NEW j \in JoinIds, NEW from \in JoinSteps, NEW to \in JoinSteps,
           JoinStep(j, from, to)
    PROVE  /\ joining[j] \in Joins /\ joining[j].at = from
           /\ joining' \in [JoinIds -> Joins \cup {NoJoin}]
           /\ joining'[j].at = to /\ joining'[j].thing = joining[j].thing
           /\ joining'[j].hub = joining[j].hub
           /\ \A i \in JoinIds \ {j} : joining'[i] = joining[i]
<1>1. joining[j] \in Joins /\ joining[j].at = from
  BY DEF UnderWay, JoinStep, NoJoin, JoinSteps
<1> DEFINE w == [joining[j] EXCEPT !.at = to]
<1>2. w \in Joins /\ w.at = to /\ w.thing = joining[j].thing /\ w.hub = joining[j].hub
  BY <1>1 DEF Joins
<1>3. joining' = [joining EXCEPT ![j] = w]
  BY DEF JoinStep
<1> HIDE DEF w
<1> QED BY <1>1, <1>2, <1>3 DEF UnderWay

\* A request that goes on keeps every device expected; one that is over, all but
\* its own where it joined.
LEMMA ExpectedStays ==
    ASSUME UnderWay, NEW j \in JoinIds, NEW from \in JoinSteps, NEW to \in JoinSteps,
           JoinStep(j, from, to), UNCHANGED mesh
    PROVE  \A z \in Things :
              Expected(z) => \/ Expected(z)'
                             \/ to = "over" /\ z = joining[j].thing
                                /\ mesh[z].hub = joining[j].hub
<1> SUFFICES ASSUME NEW z \in Things, Expected(z),
                    ~(to = "over" /\ z = joining[j].thing /\ mesh[z].hub = joining[j].hub)
             PROVE  Expected(z)'
  OBVIOUS
<1>1. PICK i \in JoinIds :
         joining[i].thing = z /\ joining[i].hub = mesh[z].hub /\ joining[i].at # "over"
  BY DEF Expected
<1>2. joining'[i].thing = z /\ joining'[i].hub = mesh'[z].hub /\ joining'[i].at # "over"
  BY <1>1, JoinMoves
<1> QED BY <1>2 DEF Expected

LEMMA SameExpected ==
    ASSUME UNCHANGED <<joining, mesh>>
    PROVE  \A z : Expected(z)' <=> Expected(z)
BY DEF Expected

-----------------------------------------------------------------------------
(* What keeps every device accounted for. *)

\* Nothing moves, no row goes and no command ends: only joins go on.
LEMMA NothingMoves ==
    ASSUME ZbInv, UNCHANGED <<mesh, held, orders>>, strays \subseteq strays',
           \A z \in Things : OnRoster(z) => OnRoster(z)',
           \A z \in Things : Expected(z) => Accounted(z)' \/ OnRoster(z)'
    PROVE  AllAccounted'
BY DEF ZbInv, AllAccounted, Accounted

\* Rows stay, and so do the devices: a request reads, or writes a row.
LEMMA RowsStay ==
    ASSUME ZbInv, UNCHANGED <<mesh, held, orders, joining>>, strays \subseteq strays',
           Shaped', \A z \in Things : OnRoster(z) => OnRoster(z)',
           \A m \in measured' : m \in measured \/ roster'[m[1]] # Unlisted
    PROVE  ZbInv'
<1>1. AllAccounted'
  BY NothingMoves, SameExpected DEF Accounted
<1>2. NothingKept'
  BY DEF ZbInv, Shaped, NothingKept, OnRoster
<1> QED BY <1>1, <1>2 DEF ZbInv

\* A command for a device is one reason more to account for it.
LEMMA OrderGrows ==
    ASSUME ZbInv, NEW h \in Hubs, NEW z \in Things, orders' = [orders EXCEPT ![h][z] = @ + 1],
           UNCHANGED <<mesh, held, roster, measured, strays>>, UnderWay',
           \A y \in Things : Expected(y) => Expected(y)' \/ (y = z /\ mesh[y].hub = h)
    PROVE  ZbInv'
<1>1. /\ orders' \in [Hubs -> [Things -> Nat]] /\ orders'[h][z] > 0
      /\ \A g \in Hubs, y \in Things : orders[g][y] > 0 => orders'[g][y] > 0
  BY DEF ZbInv, Shaped, Meshes
<1>2. Shaped'
  BY <1>1 DEF ZbInv, Shaped, Meshes, Rows
<1>3. AllAccounted'
  <2> SUFFICES ASSUME NEW y \in Things, mesh[y].hub \in held, ~OnRoster(y) PROVE Accounted(y)'
    BY DEF AllAccounted, OnRoster
  <2>1. Accounted(y) /\ mesh[y].hub \in Hubs
    BY DEF ZbInv, AllAccounted, Shaped, Meshes
  <2> QED BY <1>1, <2>1 DEF Accounted
<1>4. NothingKept'
  BY DEF ZbInv, NothingKept, OnRoster
<1> QED BY <1>2, <1>3, <1>4 DEF ZbInv

LEMMA JoinGoesOn ==
    ASSUME ZbInv, NEW j \in JoinIds, NEW from \in JoinSteps, NEW to \in JoinSteps,
           JoinStep(j, from, to), UNCHANGED <<mesh, held, orders, tap, report, adopting, switching,
                                              measured>>,
           strays \subseteq strays', Rows', \A z \in Things : OnRoster(z) => OnRoster(z)',
           to = "over" => \/ joining[j].hub \notin held \/ OnRoster(joining[j].thing)'
                          \/ joining[j].thing \in strays'
                          \/ mesh[joining[j].thing].hub \notin held
                          \/ orders[joining[j].hub][joining[j].thing] > 0
                          \/ orders[mesh[joining[j].thing].hub][joining[j].thing] > 0
    PROVE  ZbInv'
<1>1. UnderWay /\ UnderWay'
  BY JoinMoves DEF ZbInv, Shaped, UnderWay
<1>2. Shaped'
  BY <1>1 DEF ZbInv, Shaped, Meshes
<1>3. AllAccounted'
  <2> SUFFICES ASSUME NEW z \in Things, mesh[z].hub \in held, ~OnRoster(z)' PROVE Accounted(z)'
    BY DEF AllAccounted
  <2>1. Accounted(z)
    BY DEF ZbInv, AllAccounted
  <2>2. \/ Expected(z)' \/ orders[mesh[z].hub][z] > 0 \/ z \in strays
        \/ to = "over" /\ z = joining[j].thing /\ mesh[z].hub = joining[j].hub
    BY <1>1, <2>1, ExpectedStays DEF Accounted
  <2>3. CASE Expected(z)'
    BY <2>3 DEF Accounted
  <2>4. CASE orders[mesh[z].hub][z] > 0
    BY <2>4 DEF Accounted
  <2>5. CASE z \in strays
    BY <2>5 DEF Accounted
  <2>6. CASE to = "over" /\ z = joining[j].thing /\ mesh[z].hub = joining[j].hub
    <3>1. z \in strays' \/ orders[mesh[z].hub][z] > 0
      BY <1>1, <2>6, JoinMoves DEF OnRoster
    <3> QED BY <3>1 DEF Accounted
  <2> QED BY <2>2, <2>3, <2>4, <2>5, <2>6
<1>4. NothingKept'
  BY DEF ZbInv, Shaped, NothingKept
<1> QED BY <1>2, <1>3, <1>4 DEF ZbInv

-----------------------------------------------------------------------------
(* The steps. *)

LEMMA InitHolds == ZbInit => ZbInv
<1> SUFFICES ASSUME ZbInit PROVE ZbInv
  OBVIOUS
<1>1. Shaped
  BY DEF ZbInit, Shaped, Meshes, Rows, UnderWay, Spots, Away
<1>2. AllAccounted
  BY ZigbeeAssumption DEF ZbInit, AllAccounted, Away
<1> QED BY <1>1, <1>2 DEF ZbInv, ZbInit, NothingKept

\* A join is reported where the device came: it is expected there.
LEMMA ArrivalIsExpected ==
    ASSUME ZbInv, NEW z \in Things, NEW h \in Hubs, NEW a \in ShortAddrs, Arrives(z, h, a)
    PROVE  ZbInv'
<1> DEFINE b == [at |-> "sent", thing |-> z, hub |-> h, addr |-> a]
<1>1. PICK j \in JoinIds : joining[j] = NoJoin /\ joining' = [joining EXCEPT ![j] = b]
  BY DEF Arrives
<1>2. /\ b \in Joins /\ b.at = "sent" /\ b.thing = z /\ b.hub = h
  BY DEF Joins, JoinSteps
<1>3. /\ mesh' = [mesh EXCEPT ![z] = [hub |-> h, addr |-> a]] /\ strays' = strays \ {z}
      /\ UNCHANGED <<roster, measured, held, orders, switching, report, tap, adopting>>
  BY DEF Arrives
<1> HIDE DEF b
<1>4. joining' \in [JoinIds -> Joins \cup {NoJoin}] /\ joining'[j] = b
      /\ \A i \in JoinIds \ {j} : joining'[i] = joining[i]
  BY <1>1, <1>2 DEF ZbInv, Shaped, UnderWay
<1>5. /\ mesh' \in [Things -> Spots] /\ mesh'[z].hub = h
      /\ \A y \in Things \ {z} : mesh'[y] = mesh[y]
  BY <1>3 DEF ZbInv, Shaped, Meshes, Spots
<1>6. Shaped'
  BY <1>3, <1>4, <1>5 DEF ZbInv, Shaped, Meshes, Rows, UnderWay
<1>7. AllAccounted'
  <2> SUFFICES ASSUME NEW y \in Things, mesh'[y].hub \in held, ~OnRoster(y) PROVE Accounted(y)'
    BY <1>3 DEF AllAccounted, OnRoster
  <2>1. CASE y = z
    <3>1. joining'[j].thing = z /\ joining'[j].hub = mesh'[z].hub /\ joining'[j].at # "over"
      BY <1>2, <1>4, <1>5
    <3> QED BY <2>1, <3>1 DEF Accounted, Expected
  <2>2. CASE y # z
    <3>1. mesh'[y] = mesh[y] /\ Accounted(y)
      BY <1>5, <2>2 DEF ZbInv, AllAccounted
    <3>2. ASSUME Expected(y) PROVE Expected(y)'
      <4>1. PICK i \in JoinIds : /\ joining[i].thing = y /\ joining[i].hub = mesh[y].hub
                                 /\ joining[i].at # "over"
        BY <3>2 DEF Expected
      <4>2. joining[j].hub = "none" /\ mesh[y].hub # "none"
        BY <1>1, <3>1, ZigbeeAssumption DEF NoJoin, ZbInv, Shaped, Meshes
      <4>3. joining'[i] = joining[i]
        BY <1>4, <4>1, <4>2
      <4> QED BY <3>1, <4>1, <4>3 DEF Expected
    <3> QED BY <1>3, <2>2, <3>1, <3>2 DEF Accounted
  <2> QED BY <2>1, <2>2
<1>8. NothingKept'
  BY <1>3 DEF ZbInv, NothingKept, OnRoster
<1> QED BY <1>6, <1>7, <1>8 DEF ZbInv

\* A command ends: the device is away, or left behind.
LEMMA OrderEnds ==
    ASSUME ZbInv, NEW z \in Things, NEW h \in Hubs, Removed(h, z) \/ GivenUp(h, z)
    PROVE  ZbInv'
<1>1. /\ orders[h][z] > 0 /\ orders' = [orders EXCEPT ![h][z] = @ - 1]
      /\ UNCHANGED <<roster, measured, held, switching, joining, report, tap, adopting>>
  BY DEF Removed, GivenUp
<1>2. /\ \A y \in Things \ {z} : mesh'[y] = mesh[y] /\ (y \in strays => y \in strays')
      /\ \/ mesh'[z] = Away
         \/ mesh'[z] = mesh[z] /\ (mesh[z].hub = h => z \in strays') /\ strays \subseteq strays'
      /\ mesh' \in [Things -> Spots]
  BY DEF Removed, GivenUp, ZbInv, Shaped, Meshes, Spots
<1>3. /\ orders' \in [Hubs -> [Things -> Nat]]
      /\ \A g \in Hubs, y \in Things : <<g, y>> # <<h, z>> => orders'[g][y] = orders[g][y]
  BY <1>1 DEF ZbInv, Shaped, Meshes
<1>4. Shaped'
  BY <1>1, <1>2, <1>3 DEF ZbInv, Shaped, Meshes, Rows, UnderWay
<1>5. AllAccounted'
  <2> SUFFICES ASSUME NEW y \in Things, mesh'[y].hub \in held, ~OnRoster(y) PROVE Accounted(y)'
    BY <1>1 DEF AllAccounted, OnRoster
  <2>1. mesh'[y] = mesh[y] /\ mesh[y].hub \in Hubs
    BY <1>2, ZigbeeAssumption DEF Away, ZbInv, Shaped, Meshes
  <2>2. Accounted(y)
    BY <2>1 DEF ZbInv, AllAccounted
  <2>3. Expected(y) => Expected(y)'
    BY <1>1, <2>1 DEF Expected
  <2>4. y \in strays => y \in strays'
    BY <1>2, <2>1, ZigbeeAssumption DEF Away
  <2>5. CASE y = z /\ mesh[y].hub = h
    BY <1>2, <2>1, <2>5, ZigbeeAssumption DEF Accounted, Away
  <2>6. CASE ~(y = z /\ mesh[y].hub = h)
    <3>1. orders'[mesh[y].hub][y] = orders[mesh[y].hub][y]
      BY <1>3, <2>1, <2>6
    <3> QED BY <2>1, <2>2, <2>3, <2>4, <3>1 DEF Accounted
  <2> QED BY <2>5, <2>6
<1>6. NothingKept'
  BY <1>1 DEF ZbInv, NothingKept, OnRoster
<1> QED BY <1>4, <1>5, <1>6 DEF ZbInv

LEMMA JoinKeeps ==
    ASSUME ZbInv, NEW j \in JoinIds,
           LooksUp(j) \/ ChecksWindow(j) \/ Repoints(j) \/ Adds(j) \/ SeesPending(j)
    PROVE  ZbInv'
<1>1. ASSUME NEW from \in JoinSteps, NEW to \in JoinSteps, JoinStep(j, from, to)
      PROVE  /\ joining[j].thing \in Things /\ joining[j].hub \in Hubs
             /\ joining[j].addr \in ShortAddrs /\ joining'[j].thing = joining[j].thing
  BY <1>1, JoinMoves DEF ZbInv, Shaped, Joins
<1>2. CASE LooksUp(j)
  <2> DEFINE to == IF joining[j].hub \notin held THEN "over"
                   ELSE IF OnRoster(joining[j].thing) THEN "known" ELSE "unknown"
  <2>1. /\ JoinStep(j, "sent", to) /\ "sent" \in JoinSteps /\ to \in JoinSteps
        /\ to = "over" => joining[j].hub \notin held
    BY <1>2 DEF LooksUp, JoinSteps
  <2>2. UNCHANGED <<mesh, held, orders, tap, report, adopting, switching, measured, roster, strays>>
    BY <1>2 DEF LooksUp
  <2> HIDE DEF to
  <2>3. Rows' /\ \A z \in Things : OnRoster(z) => OnRoster(z)'
    BY <2>2 DEF ZbInv, Shaped, Rows, OnRoster
  <2> QED BY <2>1, <2>2, <2>3, JoinGoesOn
<1>3. CASE ChecksWindow(j)
  <2> DEFINE to == IF joining[j].hub \in window THEN "invited" ELSE "rogue"
  <2>1. /\ JoinStep(j, "unknown", to) /\ "unknown" \in JoinSteps /\ to \in JoinSteps
        /\ to # "over"
    BY <1>3 DEF ChecksWindow, JoinSteps
  <2>2. UNCHANGED <<mesh, held, orders, tap, report, adopting, switching, measured, roster, strays>>
    BY <1>3 DEF ChecksWindow
  <2> HIDE DEF to
  <2>3. Rows' /\ \A z \in Things : OnRoster(z) => OnRoster(z)'
    BY <2>2 DEF ZbInv, Shaped, Rows, OnRoster
  <2> QED BY <2>1, <2>2, <2>3, JoinGoesOn
<1>4. CASE SeesPending(j)
  <2> DEFINE to == IF KickWaits(joining[j].hub, joining[j].thing) THEN "over" ELSE "kick"
  <2>1. /\ JoinStep(j, "rogue", to) /\ "rogue" \in JoinSteps /\ to \in JoinSteps
        /\ to = "over" => orders[joining[j].hub][joining[j].thing] > 0
    BY <1>4 DEF SeesPending, KickWaits, JoinSteps
  <2>2. UNCHANGED <<mesh, held, orders, tap, report, adopting, switching, measured, roster, strays>>
    BY <1>4 DEF SeesPending
  <2> HIDE DEF to
  <2>3. Rows' /\ \A z \in Things : OnRoster(z) => OnRoster(z)'
    BY <2>2 DEF ZbInv, Shaped, Rows, OnRoster
  <2> QED BY <2>1, <2>2, <2>3, JoinGoesOn
\* A row that is gone by now leaves the device to a stray cause.
<1>5. CASE Repoints(j)
  <2> DEFINE b == joining[j]
             r == Moves(roster[b.thing], b)
  <2>1. /\ JoinStep(j, "known", "over") /\ "known" \in JoinSteps /\ "over" \in JoinSteps
        /\ roster' = Updated(b.thing, r)
        /\ strays' = IF OnRoster(b.thing) THEN strays ELSE Forsaken(b.thing)
        /\ UNCHANGED <<mesh, held, orders, tap, report, adopting, switching, measured>>
    BY <1>5 DEF Repoints, JoinSteps
  <2>2. b.thing \in Things /\ b.hub \in Hubs /\ b.addr \in ShortAddrs
        /\ joining'[j].thing = b.thing
    BY <1>1, <2>1
  <2>3. OnRoster(b.thing) => r \in RosterRow
    BY <2>2 DEF ZbInv, Shaped, Rows, OnRoster, Moves, RosterRow
  <2> HIDE DEF r
  <2>4. Rows' /\ \A z \in Things : OnRoster(z)' <=> OnRoster(z)
    BY <2>1, <2>2, <2>3, UpdateKeepsRows DEF ZbInv, Shaped
  <2>5. strays \subseteq strays'
    BY <2>1 DEF Forsaken
  <2>6. \/ OnRoster(b.thing) \/ b.thing \in strays' \/ mesh[b.thing].hub \notin held
        \/ orders[mesh[b.thing].hub][b.thing] > 0
    <3> SUFFICES ASSUME ~OnRoster(b.thing), mesh[b.thing].hub \in held,
                        ~(orders[mesh[b.thing].hub][b.thing] > 0)
                 PROVE  b.thing \in strays'
      OBVIOUS
    <3>1. mesh[b.thing] # Away
      BY ZigbeeAssumption DEF Away, ZbInv, Shaped, Meshes
    <3>2. orders[mesh[b.thing].hub][b.thing] = 0
      BY <2>2 DEF ZbInv, Shaped, Meshes
    <3> QED BY <2>1, <3>1, <3>2 DEF Forsaken
  <2>7. OnRoster(b.thing) => OnRoster(b.thing)'
    BY <2>2, <2>4 DEF OnRoster
  <2> QED BY <2>1, <2>4, <2>5, <2>6, <2>7, JoinGoesOn
<1>6. CASE Adds(j)
  <2> DEFINE b == joining[j]
  <2>1. /\ JoinStep(j, "invited", "over") /\ "invited" \in JoinSteps /\ "over" \in JoinSteps
        /\ roster' = Inserted(b.thing, b.hub, b.addr)
        /\ UNCHANGED <<mesh, held, orders, tap, report, adopting, switching, measured, strays>>
    BY <1>6 DEF Adds, JoinSteps
  <2>2. b.thing \in Things /\ b.hub \in Hubs /\ b.addr \in ShortAddrs
        /\ joining'[j].thing = b.thing
    BY <1>1, <2>1
  <2>3. /\ Rows' /\ roster'[b.thing] # Unlisted
        /\ \A z \in Things : OnRoster(z) => OnRoster(z)'
    BY <2>1, <2>2, InsertAddsRow DEF ZbInv, Shaped, OnRoster
  <2> QED BY <2>1, <2>2, <2>3, JoinGoesOn DEF OnRoster
<1> QED BY <1>2, <1>3, <1>4, <1>5, <1>6

\* Where a join is over, a command to remove the device begins.
LEMMA KickKeeps == ASSUME ZbInv, NEW j \in JoinIds, Kicks(j) PROVE ZbInv'
<1>1. /\ JoinStep(j, "kick", "over") /\ "kick" \in JoinSteps /\ "over" \in JoinSteps
      /\ orders' = [orders EXCEPT ![joining[j].hub][joining[j].thing] = @ + 1]
      /\ UNCHANGED <<mesh, held, roster, measured, strays, tap, report, adopting, switching>>
  BY DEF Kicks, JoinSteps
<1>2. UnderWay /\ UnderWay' /\ joining[j].thing \in Things /\ joining[j].hub \in Hubs
  BY <1>1, JoinMoves DEF ZbInv, Shaped, UnderWay, Joins
<1>3. \A y \in Things :
         Expected(y) => Expected(y)' \/ (y = joining[j].thing /\ mesh[y].hub = joining[j].hub)
  BY <1>1, <1>2, ExpectedStays
<1> QED BY <1>1, <1>2, <1>3, OrderGrows

\* Windows, entities and what a request has read say nothing of the rows.
LEMMA ReadsKeep ==
    ASSUME ZbInv, UNCHANGED <<mesh, held, orders, joining, roster, measured, strays>>, UnderWay'
    PROVE  ZbInv'
<1>1. Shaped' /\ \A z \in Things : OnRoster(z) => OnRoster(z)'
  BY DEF ZbInv, Shaped, Meshes, Rows, OnRoster
<1> QED BY <1>1, RowsStay

LEMMA EntitiesKeep ==
    ASSUME ZbInv, \/ \E h \in Hubs : WindowEnds(h) \/ PermitJoin(h)
                  \/ RollCall \/ Sync \/ Reboot \/ UNCHANGED zbVars
    PROVE  ZbInv'
<1>1. UNCHANGED <<mesh, held, orders, joining, roster, measured, strays, tap, report, adopting,
                  switching>>
  BY DEF WindowEnds, PermitJoin, RollCall, Sync, Reboot, zbVars
<1>2. UnderWay'
  BY <1>1 DEF ZbInv, Shaped, UnderWay
<1> QED BY <1>1, <1>2, ReadsKeep

\* A mesh without devices has none that nobody paired.
LEMMA ResetKeeps == ASSUME ZbInv, NEW h \in Hubs, Resets(h) PROVE ZbInv'
<1>1. /\ \A z \in Things : mesh'[z] = Away \/ mesh'[z] = mesh[z]
      /\ mesh' \in [Things -> Spots]
      /\ UNCHANGED <<roster, measured, held, orders, switching, joining, report, tap, adopting,
                     strays>>
  BY DEF Resets, ZbInv, Shaped, Meshes, Spots
<1>2. Shaped'
  BY <1>1 DEF ZbInv, Shaped, Meshes, Rows, UnderWay
<1>3. AllAccounted'
  <2> SUFFICES ASSUME NEW z \in Things, mesh'[z].hub \in held, ~OnRoster(z) PROVE Accounted(z)'
    BY <1>1 DEF AllAccounted, OnRoster
  <2>1. mesh'[z] = mesh[z]
    BY <1>1, ZigbeeAssumption DEF Away, ZbInv, Shaped, Meshes
  <2>2. Accounted(z)
    BY <2>1 DEF ZbInv, AllAccounted
  <2> QED BY <1>1, <2>1, <2>2 DEF Accounted, Expected
<1>4. NothingKept'
  BY <1>1 DEF ZbInv, NothingKept, OnRoster
<1> QED BY <1>2, <1>3, <1>4 DEF ZbInv

\* A report reads a row...
LEMMA ReportKeeps ==
    ASSUME ZbInv, NEW z \in Things, NEW found \in Things, ReportFound(z, found) PROVE ZbInv'
<1>1. UNCHANGED <<mesh, held, orders, joining, roster, measured, strays, tap, adopting, switching>>
  BY DEF ReportFound
<1>2. OnRoster(found) /\ mesh[z] \in [hub : Hubs, addr : ShortAddrs]
  BY ZigbeeAssumption DEF ReportFound, Finds, At, ZbInv, Shaped, Meshes, Spots, Away
<1>3. roster[found] \in RosterRow
  BY <1>2 DEF OnRoster, ZbInv, Shaped, Rows
<1>4. report' \in Reports
  BY <1>2, <1>3 DEF ReportFound, Reports, RosterRow
<1>5. UnderWay'
  BY <1>1, <1>4 DEF ZbInv, Shaped, UnderWay
<1> QED BY <1>1, <1>5, ReadsKeep

\* ...and what it changes of it leaves a row.
LEMMA StateIsRow ==
    ASSUME NEW row \in RosterRow, NEW r \in Reports
    PROVE  StateFields(row, r) \in RosterRow
<1> DEFINE addr == IF r.moved THEN r.addr ELSE row.addr
           reach == IF r.reach = "absent" THEN row.reach ELSE r.reach = "yes"
           since == IF r.reach = "yes" THEN FALSE
                    ELSE IF r.reach = "no" /\ r.was THEN TRUE ELSE row.since
<1>1. /\ addr \in ShortAddrs /\ reach \in BOOLEAN /\ since \in BOOLEAN /\ r.on \in BOOLEAN
  BY DEF RosterRow, Reports
<1>2. StateFields(row, r) =
         [row EXCEPT !.on = r.on, !.addr = addr, !.reach = reach, !.since = since]
  BY DEF StateFields, RosterRow
<1> HIDE DEF addr, reach, since
<1>3. [row EXCEPT !.on = r.on, !.addr = addr, !.reach = reach, !.since = since] \in RosterRow
  BY <1>1 DEF RosterRow
<1> QED BY <1>2, <1>3

\* A write of a row that is there, or of none.
LEMMA WriteKeeps ==
    ASSUME ZbInv, NEW z \in Things, NEW r, OnRoster(z) => r \in RosterRow, roster' = Updated(z, r),
           UNCHANGED <<mesh, held, orders, joining, strays>>, UnderWay',
           measured' \subseteq Things \X {"plug", "sensor"},
           \A m \in measured' : m \in measured \/ OnRoster(m[1])
    PROVE  ZbInv'
<1>1. Rows' /\ \A y \in Things : OnRoster(y)' <=> OnRoster(y)
  BY UpdateKeepsRows DEF ZbInv, Shaped
<1>2. Shaped'
  BY <1>1 DEF ZbInv, Shaped, Meshes
<1>3. \A m \in measured' : m[1] \in Things
  OBVIOUS
<1>4. \A m \in measured' : m \in measured \/ roster'[m[1]] # Unlisted
  BY <1>1, <1>3 DEF OnRoster
<1> QED BY <1>1, <1>2, <1>4, RowsStay

LEMMA StoreKeeps == ASSUME ZbInv, ReportStored PROVE ZbInv'
<1> DEFINE z == report.thing
           r == StateFields(roster[z], report)
<1>1. /\ report.at = "found" /\ report' = Quiet /\ roster' = Updated(z, r)
      /\ UNCHANGED <<mesh, held, orders, joining, strays, measured, tap, adopting, switching>>
  BY DEF ReportStored
<1>2. report \in Reports /\ z \in Things
  BY <1>1 DEF ZbInv, Shaped, UnderWay, Reports, Quiet
<1>3. OnRoster(z) => r \in RosterRow
  BY <1>2, StateIsRow DEF OnRoster, ZbInv, Shaped, Rows
<1>4. UnderWay' /\ measured' \subseteq Things \X {"plug", "sensor"}
  BY <1>1 DEF ZbInv, Shaped, UnderWay
<1> HIDE DEF z, r
<1> QED BY <1>1, <1>2, <1>3, <1>4, WriteKeeps

\* A reading is kept for a device with a row only.
LEMMA ReadingKeeps ==
    ASSUME ZbInv, NEW z \in Things, SensorReading(z) \/ PlugReading(z) PROVE ZbInv'
<1>1. UNCHANGED <<mesh, held, orders, joining, strays, tap, report, adopting, switching>>
  BY DEF SensorReading, PlugReading
<1>2. PICK y \in Things :
         /\ OnRoster(y) /\ measured' \subseteq measured \cup {<<y, "sensor">>, <<y, "plug">>}
         /\ \/ roster' = roster
            \/ roster' = Updated(y, [roster[y] EXCEPT !.reach = TRUE, !.since = FALSE])
  BY DEF SensorReading, PlugReading, RowsFor, At
<1>3. UnderWay' /\ measured' \subseteq Things \X {"plug", "sensor"}
  BY <1>1, <1>2 DEF ZbInv, Shaped, UnderWay
<1>4. roster[y] \in RosterRow
  BY <1>2 DEF OnRoster, ZbInv, Shaped, Rows
<1>5. PICK r \in RosterRow : roster' = Updated(y, r)
  <2>1. CASE roster' = roster
    <3>1. roster' = Updated(y, roster[y])
      BY <2>1 DEF Updated, ZbInv, Shaped, Rows
    <3> QED BY <1>4, <3>1
  <2>2. CASE roster' = Updated(y, [roster[y] EXCEPT !.reach = TRUE, !.since = FALSE])
    <3>1. [roster[y] EXCEPT !.reach = TRUE, !.since = FALSE] \in RosterRow
      BY <1>4 DEF RosterRow
    <3> QED BY <2>2, <3>1
  <2> QED BY <1>2, <2>1, <2>2
<1>6. \A m \in measured' : m \in measured \/ OnRoster(m[1])
  BY <1>2
<1> QED BY <1>1, <1>3, <1>5, <1>6, WriteKeeps

LEMMA TapKeeps ==
    ASSUME ZbInv, NEW z \in Things, NEW cmd \in {"remove", "leave", "switch", "patch"},
           TapFound(z, cmd)
    PROVE  ZbInv'
<1>1. UNCHANGED <<mesh, held, orders, joining, roster, measured, strays, report, adopting,
                  switching>>
  BY DEF TapFound
<1>2. roster[z] \in RosterRow
  BY DEF TapFound, OnRoster, ZbInv, Shaped, Rows
<1>3. tap' \in Taps
  BY <1>2 DEF TapFound, Taps, RosterRow
<1>4. UnderWay'
  BY <1>1, <1>3 DEF ZbInv, Shaped, UnderWay
<1> QED BY <1>1, <1>4, ReadsKeep

LEMMA QueueKeeps == ASSUME ZbInv, TapQueued PROVE ZbInv'
<1>1. tap \in Taps
  BY DEF TapQueued, ZbInv, Shaped, UnderWay, NoTap
<1>2. UNCHANGED <<mesh, held, joining, roster, measured, strays, report, adopting>>
  BY DEF TapQueued
<1>3. tap' \in Taps \cup {NoTap}
  <2>1. [tap EXCEPT !.at = "queued"] \in Taps
    BY <1>1 DEF Taps
  <2> QED BY <2>1 DEF TapQueued
<1>4. switching' \subseteq Switches
  BY <1>1 DEF TapQueued, Taps, Switches, ZbInv, Shaped, UnderWay
<1>5. UnderWay'
  BY <1>2, <1>3, <1>4 DEF ZbInv, Shaped, UnderWay
<1>6. tap.hub \in Hubs /\ tap.thing \in Things
  BY <1>1 DEF Taps
<1>7. CASE orders' = [orders EXCEPT ![tap.hub][tap.thing] = @ + 1]
  BY <1>2, <1>5, <1>6, <1>7, SameExpected, OrderGrows
<1>8. CASE UNCHANGED orders
  BY <1>2, <1>5, <1>8, ReadsKeep
<1> QED BY <1>7, <1>8 DEF TapQueued, Orders

\* What the owner removed is forgotten, and accounted for where it still is.
LEMMA EraseKeeps ==
    ASSUME ZbInv, NEW z \in Things, Erase(z),
           strays' = IF Expected(z) THEN strays ELSE Forsaken(z), UnderWay',
           UNCHANGED <<mesh, held, orders, joining>>
    PROVE  ZbInv'
<1>1. /\ roster' \in [Things -> RosterRow \cup {Unlisted}] /\ measured' \subseteq measured
      /\ \A y \in Things \ {z} : roster'[y] = roster[y]
      /\ \A m \in measured' : m[1] # z
  BY DEF Erase, ZbInv, Shaped, Rows
<1>2. Shaped'
  BY <1>1 DEF ZbInv, Shaped, Meshes, Rows
<1>3. strays \subseteq strays'
  BY DEF Forsaken
<1>4. AllAccounted'
  <2> SUFFICES ASSUME NEW y \in Things, mesh[y].hub \in held, roster'[y] = Unlisted
               PROVE  Accounted(y)'
    BY DEF AllAccounted, OnRoster
  <2>1. CASE y = z
    <3>1. mesh[z] # Away /\ orders[mesh[z].hub][z] \in Nat
      BY <2>1, ZigbeeAssumption DEF Away, ZbInv, Shaped, Meshes
    <3>2. Expected(z) \/ orders[mesh[z].hub][z] > 0 \/ z \in strays'
      BY <3>1 DEF Forsaken
    <3> QED BY <2>1, <3>2, SameExpected DEF Accounted
  <2>2. CASE y # z
    BY <1>1, <1>3, <2>2, SameExpected DEF ZbInv, AllAccounted, OnRoster, Accounted
  <2> QED BY <2>1, <2>2
<1>5. NothingKept'
  <2> SUFFICES ASSUME NEW m \in measured' PROVE roster'[m[1]] # Unlisted
    BY DEF NothingKept, OnRoster
  <2>1. m[1] \in Things /\ roster[m[1]] # Unlisted
    BY <1>1 DEF ZbInv, Shaped, NothingKept, OnRoster
  <2> QED BY <1>1, <2>1
<1> QED BY <1>2, <1>4, <1>5 DEF ZbInv

LEMMA WrittenKeeps == ASSUME ZbInv, TapWritten PROVE ZbInv'
<1>1. tap \in Taps /\ tap.thing \in Things /\ tap.on \in BOOLEAN
  BY DEF TapWritten, ZbInv, Shaped, UnderWay, NoTap, Taps
<1>2. UNCHANGED <<mesh, held, orders, joining, report, adopting, switching>> /\ tap' = NoTap
  BY DEF TapWritten
<1>3. UnderWay'
  BY <1>2 DEF ZbInv, Shaped, UnderWay
<1>4. CASE Erase(tap.thing) /\ strays' = IF Expected(tap.thing) THEN strays
                                         ELSE Forsaken(tap.thing)
  BY <1>1, <1>2, <1>3, <1>4, EraseKeeps
<1>5. CASE UNCHANGED <<roster, measured, strays>>
  BY <1>2, <1>3, <1>5, ReadsKeep
<1>6. CASE /\ roster' = Updated(tap.thing, [roster[tap.thing] EXCEPT !.use = tap.on])
           /\ UNCHANGED <<measured, strays>>
  <2>1. OnRoster(tap.thing) => [roster[tap.thing] EXCEPT !.use = tap.on] \in RosterRow
    BY <1>1 DEF OnRoster, ZbInv, Shaped, Rows, RosterRow
  <2>2. measured' \subseteq Things \X {"plug", "sensor"}
    BY <1>6 DEF ZbInv, Shaped
  <2> QED BY <1>1, <1>2, <1>3, <1>6, <2>1, <2>2, WriteKeeps
<1> QED BY <1>4, <1>5, <1>6 DEF TapWritten

LEMMA SwitchKeeps == ASSUME ZbInv, NEW s \in switching, Switched(s) PROVE ZbInv'
<1>1. s.thing \in Things /\ s.on \in BOOLEAN
  BY DEF ZbInv, Shaped, UnderWay, Switches
<1>2. UNCHANGED <<mesh, held, orders, joining, measured, strays, tap, report, adopting>>
  BY DEF Switched
<1>3. UnderWay'
  BY <1>2 DEF Switched, ZbInv, Shaped, UnderWay
<1>4. CASE roster' = roster
  BY <1>2, <1>3, <1>4, ReadsKeep
<1>5. CASE roster' = Updated(s.thing, [roster[s.thing] EXCEPT !.on = s.on])
  <2>1. OnRoster(s.thing) => [roster[s.thing] EXCEPT !.on = s.on] \in RosterRow
    BY <1>1 DEF OnRoster, ZbInv, Shaped, Rows, RosterRow
  <2>2. measured' \subseteq Things \X {"plug", "sensor"}
    BY <1>2 DEF ZbInv, Shaped
  <2> QED BY <1>1, <1>2, <1>3, <1>5, <2>1, <2>2, WriteKeeps
<1> QED BY <1>4, <1>5 DEF Switched

\* What an adoption does not list is left on the mesh and named a stray.
LEMMA TakeoverKeeps ==
    ASSUME ZbInv, NEW h \in Hubs, Takeover(h), Rows',
           \A z \in Things : OnRoster(z) => OnRoster(z)',
           UNCHANGED <<mesh, orders, joining, measured, tap, report, switching>>
    PROVE  ZbInv'
<1>1. /\ held' = held \cup {h} /\ adopting' = NoSeed
      /\ strays' = strays \cup {z \in Things : mesh[z].hub = h /\ roster'[z] = Unlisted}
  BY DEF Takeover
<1>2. Shaped'
  BY <1>1 DEF ZbInv, Shaped, Meshes, UnderWay
<1>3. AllAccounted'
  <2> SUFFICES ASSUME NEW z \in Things, mesh[z].hub \in held', roster'[z] = Unlisted
               PROVE  Accounted(z)'
    BY DEF AllAccounted, OnRoster
  <2>1. CASE mesh[z].hub = h
    BY <1>1, <2>1 DEF Accounted
  <2>2. CASE mesh[z].hub \in held
    <3>1. Accounted(z)
      BY <2>2 DEF ZbInv, AllAccounted, OnRoster
    <3> QED BY <1>1, <3>1, SameExpected DEF Accounted
  <2> QED BY <1>1, <2>1, <2>2
<1>4. NothingKept'
  BY DEF ZbInv, Shaped, NothingKept
<1> QED BY <1>2, <1>3, <1>4 DEF ZbInv

LEMMA AdoptKeeps ==
    ASSUME ZbInv, NEW h \in Hubs, NEW list \in SUBSET Things, AdoptHub(h, list) PROVE ZbInv'
<1>1. UNCHANGED <<mesh, orders, joining, roster, measured, tap, report, switching>>
  BY DEF AdoptHub
<1>2. Rows' /\ \A z \in Things : OnRoster(z) => OnRoster(z)'
  BY <1>1 DEF ZbInv, Shaped, Rows, OnRoster
<1>3. CASE Takeover(h)
  BY <1>1, <1>2, <1>3, TakeoverKeeps
<1>4. CASE adopting' \in Seeds /\ UNCHANGED <<held, strays>>
  <2>1. UnderWay'
    BY <1>1, <1>4 DEF ZbInv, Shaped, UnderWay
  <2> QED BY <1>1, <1>4, <2>1, ReadsKeep
<1> QED BY <1>3, <1>4 DEF AdoptHub, Seeds

\* An adoption that has a device in hand.
Seeding == [hub : Hubs, left : SUBSET Things, at : {"add", "write"}, thing : Things]

LEMMA SeedKeeps ==
    ASSUME ZbInv, NEW z \in Things, SeedGet(z) PROVE ZbInv'
<1>1. UNCHANGED <<mesh, held, orders, joining, roster, measured, strays, tap, report, switching>>
  BY DEF SeedGet
<1>2. adopting' \in Seeds
  <2>1. adopting \in [hub : Hubs, left : SUBSET Things, at : {"get"}, thing : {"none"}]
    BY DEF SeedGet, ZbInv, Shaped, UnderWay, Seeds, NoSeed
  <2> DEFINE to == IF OnRoster(z) THEN "write" ELSE "add"
  <2>2. adopting' = [adopting EXCEPT !.at = to, !.thing = z] /\ to \in {"add", "write"}
    BY DEF SeedGet
  <2> HIDE DEF to
  <2>3. [adopting EXCEPT !.at = to, !.thing = z] \in Seeding
    BY <2>1, <2>2 DEF Seeding
  <2> QED BY <2>2, <2>3 DEF Seeding, Seeds
<1>3. UnderWay'
  BY <1>1, <1>2 DEF ZbInv, Shaped, UnderWay
<1> QED BY <1>1, <1>3, ReadsKeep

LEMMA AddKeeps ==
    ASSUME ZbInv, NEW a \in ShortAddrs, SeedAdd(a) PROVE ZbInv'
<1>1. /\ UNCHANGED <<mesh, held, orders, joining, measured, strays, tap, report, switching>>
      /\ adopting.at = "add"
  BY DEF SeedAdd
<1>2. adopting \in Seeding
  BY <1>1 DEF ZbInv, Shaped, UnderWay, Seeds, NoSeed, Seeding
<1>3. /\ adopting.thing \in Things /\ adopting.hub \in Hubs
      /\ [adopting EXCEPT !.at = "write"] \in Seeds
  BY <1>2 DEF Seeding, Seeds
<1>4. UnderWay'
  BY <1>1, <1>3 DEF SeedAdd, ZbInv, Shaped, UnderWay
<1>5. CASE UNCHANGED roster
  BY <1>1, <1>4, <1>5, ReadsKeep
<1>6. CASE roster' = Inserted(adopting.thing, adopting.hub, a)
  <2>1. Rows' /\ \A y \in Things : OnRoster(y) => OnRoster(y)'
    BY <1>3, <1>6, InsertAddsRow DEF ZbInv, Shaped
  <2>2. Shaped'
    BY <1>1, <1>4, <2>1 DEF ZbInv, Shaped, Meshes
  <2> QED BY <1>1, <2>1, <2>2, RowsStay
<1> QED BY <1>5, <1>6 DEF SeedAdd

LEMMA SeedWriteKeeps ==
    ASSUME ZbInv, NEW a \in ShortAddrs, SeedWrite(a) PROVE ZbInv'
<1> DEFINE z == adopting.thing
           r == [roster[z] EXCEPT !.hub = adopting.hub, !.addr = a]
           left == adopting.left \ {z}
<1>1. /\ UNCHANGED <<mesh, orders, joining, measured, tap, report, switching>>
      /\ adopting.at = "write" /\ roster' = Updated(z, r)
  BY DEF SeedWrite
<1>2. adopting \in Seeding
  BY <1>1 DEF ZbInv, Shaped, UnderWay, Seeds, NoSeed, Seeding
<1>3. z \in Things /\ adopting.hub \in Hubs /\ left \in SUBSET Things
  BY <1>2 DEF Seeding
<1>4. OnRoster(z) => r \in RosterRow
  BY <1>3 DEF OnRoster, ZbInv, Shaped, Rows, RosterRow
<1>5. \/ Takeover(adopting.hub)
      \/ /\ adopting' = [adopting EXCEPT !.at = "get", !.left = left, !.thing = "none"]
         /\ UNCHANGED <<held, strays>>
  BY DEF SeedWrite
<1> HIDE DEF r
<1>6. Rows' /\ \A y \in Things : OnRoster(y)' <=> OnRoster(y)
  BY <1>1, <1>3, <1>4, UpdateKeepsRows DEF ZbInv, Shaped
<1>7. CASE Takeover(adopting.hub)
  BY <1>1, <1>3, <1>6, <1>7, TakeoverKeeps
<1>8. CASE /\ adopting' = [adopting EXCEPT !.at = "get", !.left = left, !.thing = "none"]
           /\ UNCHANGED <<held, strays>>
  <2> HIDE DEF left, z
  <2>1. adopting' \in Seeds
    <3> DEFINE u == [adopting EXCEPT !.at = "get"]
    <3>1. u \in [hub : Hubs, left : SUBSET Things, at : {"get"}, thing : Things]
      BY <1>2 DEF Seeding
    <3> HIDE DEF u
    <3> DEFINE v == [u EXCEPT !.left = left]
    <3>2. v \in [hub : Hubs, left : SUBSET Things, at : {"get"}, thing : Things]
      BY <1>3, <3>1
    <3> HIDE DEF v
    <3>3. [v EXCEPT !.thing = "none"] \in Seeds
      BY <3>2 DEF Seeds
    <3>4. adopting' = [v EXCEPT !.thing = "none"]
      BY <1>8 DEF u, v
    <3> QED BY <3>3, <3>4
  <2>2. UnderWay'
    BY <1>1, <2>1 DEF ZbInv, Shaped, UnderWay
  <2>3. Shaped'
    BY <1>1, <1>6, <1>8, <2>2 DEF ZbInv, Shaped, Meshes
  <2> QED BY <1>1, <1>6, <1>8, <2>3, RowsStay
<1> QED BY <1>5, <1>7, <1>8

\* The devices of a box that is forgotten are nobody's; those of the others keep
\* their commands.
LEMMA ForgetKeeps == ASSUME ZbInv, NEW h \in Hubs, ForgetHub(h) PROVE ZbInv'
<1>1. /\ held' = held \ {h} /\ orders' = [orders EXCEPT ![h] = [z \in Things |-> 0]]
      /\ switching' \subseteq switching
      /\ UNCHANGED <<roster, measured, mesh, joining, report, tap, adopting, strays>>
  BY DEF ForgetHub
<1>2. /\ orders' \in [Hubs -> [Things -> Nat]]
      /\ \A g \in Hubs \ {h} : orders'[g] = orders[g]
  BY <1>1 DEF ZbInv, Shaped, Meshes
<1>3. Shaped'
  BY <1>1, <1>2 DEF ZbInv, Shaped, Meshes, Rows, UnderWay
<1>4. AllAccounted'
  <2> SUFFICES ASSUME NEW z \in Things, mesh[z].hub \in held \ {h}, ~OnRoster(z)
               PROVE  Accounted(z)'
    BY <1>1 DEF AllAccounted, OnRoster
  <2>1. Accounted(z) /\ mesh[z].hub \in Hubs \ {h}
    BY DEF ZbInv, AllAccounted, Shaped, Meshes
  <2> QED BY <1>1, <1>2, <2>1, SameExpected DEF Accounted
<1>5. NothingKept'
  BY <1>1 DEF ZbInv, NothingKept, OnRoster
<1> QED BY <1>3, <1>4, <1>5 DEF ZbInv

-----------------------------------------------------------------------------
(* The theorem. *)

LEMMA NextHolds == ZbInv /\ [ZbNext]_zbVars => ZbInv'
<1> SUFFICES ASSUME ZbInv, [ZbNext]_zbVars PROVE ZbInv'
  OBVIOUS
<1>1. CASE \E z \in Things, h \in Hubs :
              \/ Removed(h, z) \/ GivenUp(h, z)
              \/ \E a \in ShortAddrs : Arrives(z, h, a)
  BY <1>1, OrderEnds, ArrivalIsExpected
<1>2. CASE \E h \in Hubs : \/ WindowEnds(h) \/ PermitJoin(h) \/ Resets(h) \/ ForgetHub(h)
                           \/ \E list \in SUBSET Things : AdoptHub(h, list)
  BY <1>2, EntitiesKeep, ResetKeeps, ForgetKeeps, AdoptKeeps
<1>3. CASE \E j \in JoinIds : \/ LooksUp(j) \/ Repoints(j) \/ ChecksWindow(j) \/ Adds(j)
                              \/ SeesPending(j) \/ Kicks(j)
  BY <1>3, JoinKeeps, KickKeeps
<1>4. CASE \E z \in Things :
              \/ \E y \in Things : ReportFound(z, y)
              \/ SensorReading(z) \/ PlugReading(z) \/ SeedGet(z)
              \/ \E cmd \in {"remove", "leave", "switch", "patch"} : TapFound(z, cmd)
  BY <1>4, ReportKeeps, ReadingKeeps, SeedKeeps, TapKeeps
<1>5. CASE ReportStored \/ TapQueued \/ TapWritten
  BY <1>5, StoreKeeps, QueueKeeps, WrittenKeeps
<1>6. CASE \E s \in switching : Switched(s)
  BY <1>6, SwitchKeeps
<1>7. CASE \E a \in ShortAddrs : SeedAdd(a) \/ SeedWrite(a)
  BY <1>7, AddKeeps, SeedWriteKeeps
<1>8. CASE RollCall \/ Sync \/ Reboot \/ Rests \/ UNCHANGED zbVars
  BY <1>8, EntitiesKeep DEF Rests
<1> QED BY <1>1, <1>2, <1>3, <1>4, <1>5, <1>6, <1>7, <1>8 DEF ZbNext

\* No device stays on a mesh that nobody paired, and nothing is kept of one that
\* was removed (EdgeZigbeeDeviceJoinedView and _kick_unpaired in edge_api.py,
\* remove_device in zigbee_lan.py and zigbee_devices.py).
THEOREM NobodyStowsAway == ZbSpec => []NoStowaway
<1>1. ZbInv => NoStowaway
  BY DEF ZbInv, AllAccounted, Accounted, NothingKept, NoStowaway
<1> QED BY <1>1, InitHolds, NextHolds, PTL DEF ZbSpec

-----------------------------------------------------------------------------
(* The types of all parts. *)

Kinds == Things \X {"plug", "sensor"}
Remembered ==
    /\ told \subseteq Things /\ strays \subseteq Things /\ roll \subseteq Things
    /\ window \subseteq Hubs
    /\ entities \subseteq Kinds /\ registry \subseteq Kinds

LEMMA ZbTypesHold == ZbInv /\ Remembered => ZbTypeOK
BY DEF ZbInv, Shaped, Meshes, Rows, UnderWay, Spots, Switches, Remembered, Kinds, ZbTypeOK

LEMMA RememberedStarts == ZbInit => Remembered
BY DEF ZbInit, Remembered

\* What the meshes, the joins, the reports and the readings do.
LEMMA MeshRemembers ==
    ASSUME ZbInv, Remembered
    PROVE  /\ \A z \in Things, h \in Hubs :
                 Removed(h, z) \/ GivenUp(h, z) \/ (\E a \in ShortAddrs : Arrives(z, h, a)) => Remembered'
           /\ \A j \in JoinIds :
                 LooksUp(j) \/ Repoints(j) \/ ChecksWindow(j) \/ Adds(j) \/ SeesPending(j) \/ Kicks(j)
                 => Remembered'
           /\ \A z, y \in Things : ReportFound(z, y) \/ SensorReading(z) \/ PlugReading(z) => Remembered'
           /\ ReportStored => Remembered'
<1>1. \A z \in Things, h \in Hubs :
          Removed(h, z) \/ GivenUp(h, z) \/ (\E a \in ShortAddrs : Arrives(z, h, a)) => Remembered'
  BY DEF Remembered, Removed, GivenUp, Arrives
<1>2. ASSUME NEW j \in JoinIds, Repoints(j) PROVE Remembered'
  <2>1. joining[j].thing \in Things
    BY <1>2 DEF Repoints, JoinStep, ZbInv, Shaped, UnderWay, Joins, NoJoin
  <2> QED BY <1>2, <2>1 DEF Repoints, Forsaken, Remembered
<1>3. \A j \in JoinIds :
          LooksUp(j) \/ ChecksWindow(j) \/ Adds(j) \/ SeesPending(j) \/ Kicks(j) => Remembered'
  BY DEF LooksUp, ChecksWindow, Adds, SeesPending, Kicks, Remembered
<1>4. \A z, y \in Things : ReportFound(z, y) \/ SensorReading(z) \/ PlugReading(z) => Remembered'
  BY DEF ReportFound, SensorReading, PlugReading, Remembered
<1>5. ReportStored => Remembered'
  BY DEF ReportStored, Remembered
<1> QED BY <1>1, <1>2, <1>3, <1>4, <1>5

\* What the owner's requests and the adoptions do.
LEMMA OwnerRemembers ==
    ASSUME ZbInv, Remembered
    PROVE  /\ \A h \in Hubs : WindowEnds(h) \/ PermitJoin(h) \/ Resets(h) \/ ForgetHub(h) => Remembered'
           /\ \A h \in Hubs, list \in SUBSET Things : AdoptHub(h, list) => Remembered'
           /\ \A z \in Things : SeedGet(z) \/ (\E cmd \in {"remove", "leave", "switch", "patch"} :
                 TapFound(z, cmd)) => Remembered'
           /\ TapQueued \/ TapWritten => Remembered'
           /\ \A s \in switching : Switched(s) => Remembered'
           /\ \A a \in ShortAddrs : SeedAdd(a) \/ SeedWrite(a) => Remembered'
<1>1. \A h \in Hubs : WindowEnds(h) \/ PermitJoin(h) \/ Resets(h) \/ ForgetHub(h) => Remembered'
  BY DEF WindowEnds, PermitJoin, Resets, ForgetHub, Remembered
<1>2. \A h \in Hubs, list \in SUBSET Things : AdoptHub(h, list) => Remembered'
  BY DEF AdoptHub, Takeover, Remembered
<1>3. \A z \in Things : SeedGet(z) \/ (\E cmd \in {"remove", "leave", "switch", "patch"} :
          TapFound(z, cmd)) => Remembered'
  BY DEF SeedGet, TapFound, Remembered
<1>4. TapQueued => Remembered'
  BY DEF TapQueued, Remembered
<1>5. ASSUME TapWritten PROVE Remembered'
  <2>1. tap.thing \in Things
    BY <1>5 DEF TapWritten, ZbInv, Shaped, UnderWay, Taps, NoTap
  <2> QED BY <1>5, <2>1 DEF TapWritten, Erase, Forsaken, Remembered
<1>6. \A s \in switching : Switched(s) => Remembered'
  BY DEF Switched, Remembered
<1>7. \A a \in ShortAddrs : SeedAdd(a) \/ SeedWrite(a) => Remembered'
  BY DEF SeedAdd, SeedWrite, Takeover, Remembered
<1> QED BY <1>1, <1>2, <1>3, <1>4, <1>5, <1>6, <1>7

\* What the refreshes of the entities do.
LEMMA EntitiesRemember ==
    ASSUME Remembered, RollCall \/ Sync \/ Reboot \/ Rests \/ UNCHANGED zbVars
    PROVE  Remembered'
<1>1. CASE Sync
  <2>1. \A d \in SUBSET (roll \cap Sensing) : Wanted(d) \subseteq Kinds
    BY DEF Wanted, Remembered, Kinds
  <2> QED BY <1>1, <2>1 DEF Sync, Remembered
<1>2. CASE RollCall \/ Reboot \/ Rests \/ UNCHANGED zbVars
  BY <1>2 DEF RollCall, Reboot, Rests, zbVars, Remembered
<1> QED BY <1>1, <1>2

LEMMA RememberedKept == ZbInv /\ Remembered /\ [ZbNext]_zbVars => Remembered'
BY MeshRemembers, OwnerRemembers, EntitiesRemember DEF ZbNext

LEMMA EdgeMoves ==
    /\ EdgeInit => QueueInit /\ BoxesInit /\ ZbInit
    /\ [EdgeNext]_edgeVars => [QueueNext]_queueVars /\ [BoxesNext]_boxesVars /\ [ZbNext]_zbVars
BY DEF EdgeInit, EdgeNext, edgeVars

\* The queue's rows, requests and waiters, the document of the boxes and the
\* requests on it, and the rows, meshes and entities of the Zigbee devices are
\* well formed, for any commands, boxes, devices and requests.
THEOREM EdgeTypeCorrect == EveryWriterLocks => (EdgeSpec => []EdgeTypeOK)
<1> SUFFICES ASSUME EveryWriterLocks PROVE EdgeSpec => []EdgeTypeOK
  OBVIOUS
<1>1. EdgeSpec => QueueSpec /\ BoxesSpec
  BY EdgeMoves, PTL DEF EdgeSpec, QueueSpec, BoxesSpec
<1>2. EdgeSpec => [](ZbInv /\ Remembered)
  BY EdgeMoves, InitHolds, NextHolds, RememberedStarts, RememberedKept, PTL DEF EdgeSpec
<1>3. QueueTypeOK /\ BoxesTypeOK /\ ZbInv /\ Remembered => EdgeTypeOK
  BY ZbTypesHold DEF EdgeTypeOK
<1> QED BY <1>1, <1>2, <1>3, QueueTypeCorrect, NothingIsShared, PTL
=============================================================================
