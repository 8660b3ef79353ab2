------------------------ MODULE MCSlidingWindowCounter ------------------------
(* Constants of the models of SlidingWindowCounter. *)
EXTENDS SlidingWindowCounter, TLC

WorkerSymmetry == Permutations(Workers)

=============================================================================
