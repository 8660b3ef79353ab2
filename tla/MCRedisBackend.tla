---------------------------- MODULE MCRedisBackend ----------------------------
(***************************************************************************)
(* The Redis backend running the step of the Fixed Window Counter.         *)
(***************************************************************************)
EXTENDS RedisBackend, Integers

CONSTANTS Limit, Window

FixedWindow == INSTANCE Algorithms

FixedWindowStep(e, t) == FixedWindow!FixedWindowOp(e, t)

FixedWindowEntries ==
  [w : {FixedWindow!WindowOf(t) : t \in Times}, c : 0..Limit]

=============================================================================
