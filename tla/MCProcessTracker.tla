--------------------------- MODULE MCProcessTracker ---------------------------
EXTENDS ProcessTracker, TLC

\* The requests other than main's are interchangeable.
Symmetry == Permutations(Req \ {First})
=============================================================================
