------------------------------- MODULE MCField --------------------------------
(***************************************************************************)
(* What Home Assistant does with the devices in the field: a collector's   *)
(* line, the collectors it calls, an inverter's logger, the readings of an *)
(* edge box, what is checked of each, and the packs it reads.  Each is     *)
(* checked on its own: a behaviour is one of the part it starts with, and  *)
(* the others stand still.                                                 *)
(***************************************************************************)
EXTENDS CollectorLine, CollectorHub, HarvestDevice, EdgeIngest, BmsRoster,
        ReadingValidation, TLC

CONSTANTS byCloud, byApp   \* those who write to the inverter

\* A slot table of two words, and one register.
TwoRecipes == (byCloud :> <<[slots |-> TRUE, words |-> 2]>>)
           @@ (byApp :> <<[slots |-> FALSE, words |-> 1]>>)

\* A single-phase hybrid that measures its grid in tens, a high-voltage
\* one read through Solarman, an off-grid one and a string inverter.
Hybrid == [rated |-> 6000, gridMax |-> 9000, hv |-> FALSE, battery |-> TRUE,
           exportOnly |-> FALSE, pi30 |-> FALSE, solarman |-> FALSE, inverted |-> TRUE,
           gridScale |-> 10, phases |-> 1]
FourInverters ==
    {Hybrid,
     [Hybrid EXCEPT !.rated = 30000, !.gridMax = 45000, !.hv = TRUE,
                    !.solarman = TRUE, !.inverted = FALSE, !.gridScale = 1, !.phases = 3],
     [Hybrid EXCEPT !.rated = 5000, !.gridMax = 7500, !.pi30 = TRUE, !.inverted = FALSE,
                    !.gridScale = 1],
     [Hybrid EXCEPT !.rated = 15000, !.gridMax = 22500, !.battery = FALSE,
                    !.exportOnly = TRUE, !.inverted = FALSE, !.gridScale = 1, !.phases = 3]}

VARIABLE part

fieldVars == <<part, lineVars, hubVars, hvVars, ingestVars, rosterVars,
               validationVars>>

FieldInit ==
    /\ part \in {"line", "hub", "logger", "ingest", "roster", "validation"}
    /\ LineInit /\ HubInit /\ HvInit /\ IngestInit /\ RosterInit /\ ValidationInit
    /\ part = "hub" \/ place = CHOOSE f \in [Collectors -> Addresses] : \A c, d \in Collectors : f[c] = f[d] => c = d
    /\ part = "logger" \/ spec
    /\ part = "roster" \/ (restored = {} /\ \A b \in Boards : Members(box[b].set) = {})
    /\ part = "validation" \/ (ctx = Hybrid /\ charge = Max(Charges))

FieldNext ==
    /\ UNCHANGED part
    /\ \/ /\ UNCHANGED validationVars
          /\ \/ part = "line" /\ LineNext /\ UNCHANGED <<hubVars, hvVars, ingestVars, rosterVars>>
             \/ part = "hub" /\ HubNext /\ UNCHANGED <<lineVars, hvVars, ingestVars, rosterVars>>
             \/ part = "logger" /\ HvNext /\ UNCHANGED <<lineVars, hubVars, ingestVars, rosterVars>>
             \/ part = "ingest" /\ IngestNext /\ UNCHANGED <<lineVars, hubVars, hvVars, rosterVars>>
             \/ part = "roster" /\ RosterNext /\ UNCHANGED <<lineVars, hubVars, hvVars, ingestVars>>
       \/ /\ part = "validation"
          /\ ValidationNext
          /\ UNCHANGED <<lineVars, hubVars, hvVars, ingestVars, rosterVars>>

FieldSpec == FieldInit /\ [][FieldNext]_fieldVars

FieldTypeOK ==
    /\ LineTypeOK /\ HubTypeOK /\ HvTypeOK /\ IngestTypeOK /\ RosterTypeOK
    /\ ValidationTypeOK
=============================================================================
