-------------------------------- MODULE MCEdge --------------------------------
(***************************************************************************)
(* The queue of the edge boxes, their bindings and the Zigbee devices on   *)
(* their meshes, each checked on its own: a behaviour is one of the part it*)
(* starts with, and the others stand still.                                *)
(***************************************************************************)
EXTENDS EdgeCommandQueue, EdgeBoxes, ZigbeeRoster, TLC

VARIABLE part

edgeVars == <<part, queueVars, boxesVars, zbVars>>

EdgeInit ==
    /\ part \in {"queue", "boxes", "zigbee"}
    /\ part = "zigbee" => Hubs # {}
    /\ QueueInit /\ BoxesInit /\ ZbInit
    /\ held = IF part = "zigbee" THEN {CHOOSE h \in Hubs : TRUE} ELSE {}

EdgeNext ==
    /\ UNCHANGED part
    /\ \/ part = "queue" /\ QueueNext /\ UNCHANGED <<boxesVars, zbVars>>
       \/ part = "boxes" /\ BoxesNext /\ UNCHANGED <<queueVars, zbVars>>
       \/ part = "zigbee" /\ ZbNext /\ UNCHANGED <<queueVars, boxesVars>>

EdgeSpec == EdgeInit /\ [][EdgeNext]_edgeVars

EdgeTypeOK == QueueTypeOK /\ BoxesTypeOK /\ ZbTypeOK

\* Every caller is answered: a dispatch comes back to the phone that asked for
\* it, and a request ends whoever holds the lock.
CallersAnswered == DispatchEnds /\ RequestsEnd

\* Command ids, requests and codes are interchangeable.
Symmetry == Permutations(Commands) \cup Permutations(Requests) \cup Permutations(Codes)
=============================================================================
