-------------------------- MODULE FixedWindowCounter --------------------------
(***************************************************************************)
(* The Fixed Window Counter: a count per clock-aligned window, which       *)
(* starts again whenever the step's window is not the stored one.          *)
(***************************************************************************)
EXTENDS RateLimiter

VARIABLE entry   \* the client's entry in the store, None until its first step

vars == <<flow, entry>>

TypeOK ==
  /\ FlowTypeOK
  /\ entry \in FixedWindowEntry \cup {None}

Init ==
  /\ FlowInit
  /\ entry = None

\* backend.execute runs the step atomically and the verdict is returned.
Execute(w) ==
  /\ now[w] # None
  /\ LET result == FixedWindowOp(entry, now[w]) IN
       /\ entry' = result.entry
       /\ Respond(w, result.allowed)

Next ==
  \/ Tick /\ UNCHANGED entry
  \/ \E w \in Workers : ReadClock(w) /\ UNCHANGED entry
  \/ \E w \in Workers : Execute(w)

Spec == Init /\ [][Next]_vars

-----------------------------------------------------------------------------

\* A window admits at most Limit requests, and a step that comes late, after
\* one with a newer timestamp, costs at most one more allowance: moving the
\* stored window back is the only way its count is forgotten.
LateStepsBoundedOvershoot ==
  \A k \in WindowIndices : Cardinality(InWindow(k)) <= Limit * (1 + late)

\* The known weakness of the algorithm and its extent: as long as steps run
\* in timestamp order, at most twice the limit in any window-long interval.
BoundaryBurstBounded ==
  late = 0 => \A x \in Time : Cardinality(Trailing(x)) <= 2 * Limit

\* A request is rejected only if its own window has really admitted Limit,
\* whatever the order of the steps.
RejectsOnlyWhenFull ==
  [][\A w \in Workers :
       Rejects(w) => Cardinality(InWindow(WindowOf(now[w]))) >= Limit]_vars


=============================================================================
