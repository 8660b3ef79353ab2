------------------------- MODULE MCFixedWindowCounter -------------------------
(* Constants of the models of FixedWindowCounter. *)
EXTENDS FixedWindowCounter, TLC

WorkerSymmetry == Permutations(Workers)

=============================================================================
