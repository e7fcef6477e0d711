-------------------------- MODULE MCNullifierCache --------------------------
(* Four nullifiers compete  for a cache of two entries; the timeout is long *)
(* enough for a mark to be asked about, promoted and only then to expire.   *)
EXTENDS NullifierCache, TLC

Symmetry == Permutations(Nullifier)
=============================================================================
