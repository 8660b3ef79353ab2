--------------------------- MODULE MCMemoryBackend ---------------------------
(***************************************************************************)
(* The in-memory backend running the step of the Fixed Window Counter for  *)
(* two clients.  The entries are those the step can store.                 *)
(***************************************************************************)
EXTENDS MemoryBackend, Integers

CONSTANTS Limit, Window

FixedWindow == INSTANCE Algorithms

FixedWindowStep(e, t) == FixedWindow!FixedWindowOp(e, t)

FixedWindowEntries ==
  [w : {FixedWindow!WindowOf(t) : t \in Times}, c : 0..Limit]

=============================================================================
