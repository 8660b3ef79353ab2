--------------------------- MODULE SlidingWindowLog ---------------------------
(***************************************************************************)
(* The Sliding Window Log: the stamps of the requests admitted in the last *)
(* Window ticks.  A step drops the stamps that have aged out as of its own *)
(* timestamp, and admits if fewer than Limit remain.                       *)
(***************************************************************************)
EXTENDS RateLimiter

VARIABLE log   \* the client's stamps, store.get(key, [])

logVars == <<flow, log>>

LogTypeOK ==
  /\ FlowTypeOK
  /\ log \in SUBSET [t : Time, n : Nat]

LogInit ==
  /\ FlowInit
  /\ log = {}

\* backend.execute runs the step atomically and the verdict is returned.
LogExecute(w) ==
  /\ now[w] # None
  /\ LET result == SlidingLogOp(log, now[w], NextNumber) IN
       /\ log' = result.entry
       /\ Respond(w, result.allowed)

LogNext ==
  \/ Tick /\ UNCHANGED log
  \/ \E w \in Workers : ReadClock(w) /\ UNCHANGED log
  \/ \E w \in Workers : LogExecute(w)

LogSpec == LogInit /\ [][LogNext]_logVars

-----------------------------------------------------------------------------

\* The window that ends now, or later, never holds more than Limit admitted
\* requests: whatever the order of the steps, dropping stamps forgets none
\* that still counts for the newest timestamp seen.
NewestWindowExact ==
  \A x \in Time : x >= newest => Cardinality(Trailing(x)) <= Limit

\* A late step may find the stamps of its own window dropped already.  Each
\* one adds at most one request to a window that is past.
LateStepsAddOneEach ==
  \A x \in Time : Cardinality(Trailing(x)) <= Limit + late

\* The stored log never outgrows the limit: the O(limit) memory of the docs.
LogBounded == Cardinality(log) <= Limit

\* A request that is not late is rejected only if Limit requests were really
\* admitted in the window it ends.
RejectsOnlyWhenTrailingFull ==
  [][\A w \in Workers :
       Rejects(w) /\ now[w] >= newest
         => Cardinality(Trailing(now[w])) >= Limit]_logVars

=============================================================================
