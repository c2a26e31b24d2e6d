------------------------------ MODULE MCAccess ------------------------------
EXTENDS Access, TLC

Symmetry == Permutations(Isolate) \cup Permutations(Call)
=============================================================================
