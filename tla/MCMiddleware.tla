---------------------------- MODULE MCMiddleware ----------------------------
(* Constants of the models of Middleware. *)
EXTENDS Middleware, TLC

Symmetry == Permutations(Instances) \cup Permutations(Senders)

=============================================================================
