---------------------------- MODULE MCSessionKey ----------------------------
EXTENDS SessionKey, TLC

Symmetry == Permutations(Isolate) \cup Permutations(Call) \cup Permutations(Key)

=============================================================================
