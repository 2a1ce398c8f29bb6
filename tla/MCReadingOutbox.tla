--------------------------- MODULE MCReadingOutbox ----------------------------
\* ReadingOutbox with few readings, a small batch and an early give-up.
EXTENDS ReadingOutbox, TLC

AllConfigs == [primary: BOOLEAN, live: BOOLEAN]
IntervalConfigs == [primary: {FALSE}, live: {FALSE}]
Symmetry == Permutations(Powers)

\* The reloads a user makes when the integration stays silent.
ReloadSpec == FairSpec /\ WF_vars(Reload)
=============================================================================
