--------------------------- MODULE MCEventScheduler ---------------------------
\* EventScheduler with an event of two registers, a rule below it on one of
\* them, and a sale on the other.
EXTENDS EventScheduler, TLC

CONSTANTS charge, rule, sale, r1, r2

MCWrites == Restrict(charge :> <<r1, r2>> @@ rule :> <<r2>> @@ sale :> <<r1>>, Events)
MCRank == Restrict(charge :> 1 @@ rule :> 2 @@ sale :> 3, Events)
Symmetry == Permutations(Settings)
=============================================================================
