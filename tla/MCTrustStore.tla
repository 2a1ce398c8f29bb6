---------------------------- MODULE MCTrustStore -----------------------------
\* TrustStore on a few keys and phones, without edge boxes (EdgeBoxes has them).
EXTENDS TrustStore, TLC

\* The coroutines are interchangeable.
Symmetry == Permutations(Requests)
=============================================================================
