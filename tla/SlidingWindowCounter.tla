------------------------- MODULE SlidingWindowCounter -------------------------
(***************************************************************************)
(* The Sliding Window Counter: the counts of the stored window and of the  *)
(* one before it.  A step of the next window shifts them, a step of any    *)
(* other window, an earlier one included, forgets both.                    *)
(***************************************************************************)
EXTENDS RateLimiter

VARIABLE entry   \* the client's entry in the store, None until its first step

vars == <<flow, entry>>

TypeOK ==
  /\ FlowTypeOK
  /\ entry \in SlidingCounterEntry \cup {None}

Init ==
  /\ FlowInit
  /\ entry = None

\* backend.execute runs the step atomically and the verdict is returned.
Execute(w) ==
  /\ now[w] # None
  /\ LET result == SlidingCounterOp(entry, now[w]) IN
       /\ entry' = result.entry
       /\ Respond(w, result.allowed)

Next ==
  \/ Tick /\ UNCHANGED entry
  \/ \E w \in Workers : ReadClock(w) /\ UNCHANGED entry
  \/ \E w \in Workers : Execute(w)

Spec == Init /\ [][Next]_vars

-----------------------------------------------------------------------------

\* A clock-aligned window admits at most Limit requests, and each late step
\* costs at most one more allowance.
LateStepsBoundedOvershoot ==
  \A k \in WindowIndices : Cardinality(InWindow(k)) <= Limit * (1 + late)

\* The approximation error is bounded by what the weight forgives: as long as
\* steps run in timestamp order, a window-long interval that ends in window k
\* at offset o exceeds Limit by less than one request plus the share o/Window
\* of the requests admitted in window k-1.
OvershootBoundedByWeight ==
  late = 0 =>
    \A x \in Time :
      Window * Cardinality(Trailing(x))
        < Window * (Limit + 1)
          + Elapsed(x) * Cardinality(InWindow(WindowOf(x) - 1))

\* A request is rejected only if its own window and the one before it have
\* together admitted Limit, whatever the order of the steps.
RejectsOnlyWhenFull ==
  [][\A w \in Workers :
       Rejects(w) =>
         LET k == WindowOf(now[w]) IN
           Cardinality(InWindow(k)) + Cardinality(InWindow(k - 1)) >= Limit]_vars

\* While steps run in timestamp order, the two integers are what the docs say
\* (sliding_window_counter.py:3), the counts of the stored window and of the one
\* before it: shifting them neither loses a request nor keeps one too long.
CountsAreTrueInOrder ==
  entry # None /\ late = 0 =>
    /\ entry.c = Cardinality(InWindow(entry.w))
    /\ entry.p = Cardinality(InWindow(entry.w - 1))

=============================================================================
