-------------------------- MODULE MCLifecycleSummary --------------------------
(* Two workers, so that one completes while the other still claims, and two  *)
(* disputes, so that work goes on between them.                              *)
EXTENDS LifecycleSummary, TLC

\* Workers and disputes are interchangeable.
Symmetry == Permutations(Worker) \cup Permutations(Dispute)
=============================================================================
