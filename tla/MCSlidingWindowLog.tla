-------------------------- MODULE MCSlidingWindowLog --------------------------
(* Constants of the models of SlidingWindowLog. *)
EXTENDS SlidingWindowLog, TLC

WorkerSymmetry == Permutations(Workers)

=============================================================================
