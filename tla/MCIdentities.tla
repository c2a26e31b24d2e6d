---------------------------- MODULE MCIdentities ----------------------------
EXTENDS Identities, TLC

Symmetry == Permutations(Isolate) \cup Permutations(Call) \cup Permutations(Id)
=============================================================================
