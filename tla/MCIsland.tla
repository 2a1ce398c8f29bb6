------------------------------- MODULE MCIsland -------------------------------
(***************************************************************************)
(* A house without the cloud: who may command it, and the archive of its   *)
(* readings.  Each is checked on its own: a behaviour is one of the part   *)
(* it starts with, and the other stands still.                             *)
(***************************************************************************)
EXTENDS MCTrustStore, Rollups

\* UTC, zones that start their days later and earlier than it (the second
\* changes its clock), and one that cuts its days in the middle of an hour.
Utc == [offset |-> 0, later |-> 0, from |-> 0]
West == [offset |-> -2, later |-> -2, from |-> 0]
East == [offset |-> 2, later |-> 0, from |-> 9]
Half == [offset |-> 1, later |-> 1, from |-> 0]
FourZones == {Utc, West, East, Half}

VARIABLE part

islandVars == <<part, vars, rollupVars>>

IslandInit ==
    /\ part \in {"keystore", "archive"}
    /\ Init /\ RollupInit
    /\ part = "archive" => doc = Started(EmptyDoc)
    /\ part = "keystore" => zone = UtcZone /\ parity = 0

IslandNext ==
    /\ UNCHANGED part
    /\ \/ part = "keystore" /\ Next /\ UNCHANGED rollupVars
       \/ part = "archive" /\ RollupNext /\ UNCHANGED vars

IslandSpec == IslandInit /\ [][IslandNext]_islandVars

IslandTypeOK == TypeOK /\ RollupTypeOK
=============================================================================
