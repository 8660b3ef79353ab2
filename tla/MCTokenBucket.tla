---------------------------- MODULE MCTokenBucket -----------------------------
(* Constants of the models of TokenBucket. *)
EXTENDS TokenBucket, TLC

WorkerSymmetry == Permutations(Workers)

=============================================================================
