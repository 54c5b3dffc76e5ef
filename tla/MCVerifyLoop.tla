---------------------------- MODULE MCVerifyLoop ----------------------------
\* The verify loop on one and two tasks.  The cycles and the check states are
\* interchangeable: no action orders them.
EXTENDS VerifyLoop, TLC

CONSTANTS k1, k2, o1, o2, o3
Symmetry == Permutations(Ticks) \cup Permutations(Rounds)
=============================================================================
