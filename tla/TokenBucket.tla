----------------------------- MODULE TokenBucket -----------------------------
(***************************************************************************)
(* The Token Bucket: each step refills the bucket for the time since the   *)
(* last one, up to its capacity, and admits if a whole token is there to   *)
(* spend.                                                                  *)
(***************************************************************************)
EXTENDS RateLimiter

CONSTANTS
  Token,       \* units that make one token
  Capacity,    \* units the bucket holds
  RefillRate   \* units it gains in one tick

ASSUME BucketAssumption ==
  /\ Token \in Nat \ {0}
  /\ Capacity \in Nat
  /\ RefillRate \in Nat

VARIABLE entry   \* the client's entry in the store, None until its first step

vars == <<flow, entry>>

\* The arguments the limiter was built with.
TheBucket == [token |-> Token, capacity |-> Capacity, rate |-> RefillRate]

TypeOK ==
  /\ FlowTypeOK
  /\ entry \in TokenBucketEntry \cup {None}

Init ==
  /\ FlowInit
  /\ entry = None

\* backend.execute runs the step atomically and the verdict is returned.
Execute(w) ==
  /\ now[w] # None
  /\ LET result == TokenBucketOp(TheBucket, entry, now[w]) IN
       /\ entry' = result.entry
       /\ Respond(w, result.allowed)

Next ==
  \/ Tick /\ UNCHANGED entry
  \/ \E w \in Workers : ReadClock(w) /\ UNCHANGED entry
  \/ \E w \in Workers : Execute(w)

Spec == Init /\ [][Next]_vars

-----------------------------------------------------------------------------

\* Over any interval the tokens spent by requests stamped within it are at
\* most a full bucket and what the interval refills.  It holds whatever the
\* order of the steps: a late step takes back the refill it has no right to.
BurstPlusRateBound ==
  \A lo, hi \in Time :
    lo <= hi => Token * Cardinality(Within(lo, hi))
                  <= Capacity + (hi - lo) * RefillRate

\* A late step may leave the bucket in debt, but never deeper than the time
\* since the newest timestamp refills; and the bucket never overflows.
DebtIsBacked ==
  entry # None =>
    /\ entry.tokens <= Capacity
    /\ entry.tokens + (newest - entry.last) * RefillRate >= 0

\* A client that lets the time of one token pass after the newest timestamp
\* is admitted, even if late steps have left a debt.
AdmitsAfterRefill ==
  [][\A w \in Workers :
       /\ Capacity >= Token
       /\ newest # -1
       /\ now[w] # None /\ now'[w] = None
       /\ (now[w] - newest) * RefillRate >= Token
       => Admits(w)]_vars

=============================================================================
