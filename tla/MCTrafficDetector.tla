-------------------------- MODULE MCTrafficDetector --------------------------
(* Constants of the models of TrafficDetector. *)
EXTENDS TrafficDetector

WorkerSymmetry == Permutations(Workers)

=============================================================================
