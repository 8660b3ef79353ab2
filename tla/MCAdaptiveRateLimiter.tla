------------------------ MODULE MCAdaptiveRateLimiter ------------------------
(* Constants of the models of AdaptiveRateLimiter. *)
EXTENDS AdaptiveRateLimiter, TLC

\* All workers are threads of one process.
OneProcess == [w \in Workers |-> CHOOSE i \in Instances : TRUE]

\* One worker is a process of its own, the others are threads of another.
Lone == CHOOSE w \in Workers : TRUE

TwoProcesses ==
  LET i == CHOOSE i \in Instances : TRUE
      j == CHOOSE j \in Instances : j # i
  IN  [w \in Workers |-> IF w = Lone THEN i ELSE j]

ThreadSymmetry == Permutations(Workers \ {Lone})

\* A policy of the caller's that uses three algorithms.
MixedPolicy ==
  [StrictPolicy EXCEPT !["ramping"] = "token_bucket"]

=============================================================================
