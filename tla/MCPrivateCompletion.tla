------------------------- MODULE MCPrivateCompletion -------------------------
EXTENDS PrivateCompletion, TLC

\* Calls and nullifiers are interchangeable in the safety runs.
Symmetry == Permutations(Call) \cup Permutations(Nullifier)
=============================================================================
