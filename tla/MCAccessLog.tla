----------------------------- MODULE MCAccessLog -----------------------------
EXTENDS AccessLog, TLC

Symmetry == Permutations(Requests)
=============================================================================
