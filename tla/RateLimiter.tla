----------------------------- MODULE RateLimiter -----------------------------
(***************************************************************************)
(* The flow every algorithm shares, RateLimiter.allow_request: a worker    *)
(* reads the wall clock, and only then runs the algorithm's step on the    *)
(* client's entry, which the backend makes atomic.  Between the two the    *)
(* clock and the other workers move on, so steps may reach the entry out   *)
(* of timestamp order.                                                     *)
(*                                                                         *)
(* Workers are the threads of a process over a MemoryBackend, or processes *)
(* over one RedisBackend.  A single worker is the event loop of the        *)
(* middleware, which awaits nothing inside allow_request.  One client is   *)
(* followed: a step touches the entry of its own key only.                 *)
(*                                                                         *)
(* A module of an algorithm extends this one and adds the entry and the    *)
(* Execute action.                                                         *)
(***************************************************************************)
EXTENDS Algorithms

CONSTANTS
  Workers,   \* the threads or processes that call allow_request
  MaxTime    \* bound of the model: the clock stops here

ASSUME MaxTimeAssumption == MaxTime \in Nat

VARIABLES
  clock,     \* the wall clock, time.time()
  now,       \* now[w]: the timestamp of w's call, None when w is in no call
  (* History variables, which no step of the code reads. *)
  admitted,  \* every request admitted: its timestamp and a number of its own
  newest,    \* the greatest timestamp a step has run with, -1 before any
  late       \* how many steps ran with a timestamp older than that

flow == <<clock, now, admitted, newest, late>>

Time == 0..MaxTime

FlowTypeOK ==
  /\ clock \in Time
  /\ now \in [Workers -> Time \cup {None}]
  /\ admitted \in SUBSET [t : Time, n : Nat]
  /\ newest \in Time \cup {-1}
  /\ late \in Nat

FlowInit ==
  /\ clock = 0
  /\ now = [w \in Workers |-> None]
  /\ admitted = {}
  /\ newest = -1
  /\ late = 0

\* Time passes.
Tick ==
  /\ clock < MaxTime
  /\ clock' = clock + 1
  /\ UNCHANGED <<now, admitted, newest, late>>

\* Mutant: the clock is rounded up.
ReadClockCeiled(w) ==
  /\ now[w] = None
  /\ now' = [now EXCEPT ![w] = clock + 1]
  /\ UNCHANGED <<clock, admitted, newest, late>>

\* now = time.time()
ReadClock(w) ==
  /\ now[w] = None
  /\ now' = [now EXCEPT ![w] = clock]
  /\ UNCHANGED <<clock, admitted, newest, late>>

\* The number that tells the next admitted request from those before it.
NextNumber == Cardinality(admitted) + 1

\* The caller of w gets its verdict: return bool(result[0]).
Respond(w, allowed) ==
  /\ now' = [now EXCEPT ![w] = None]
  /\ admitted' = IF allowed
                   THEN admitted \cup {[t |-> now[w], n |-> NextNumber]}
                   ELSE admitted
  /\ newest' = IF now[w] > newest THEN now[w] ELSE newest
  /\ late' = IF now[w] < newest THEN late + 1 ELSE late
  /\ UNCHANGED clock

-----------------------------------------------------------------------------
(* What the properties of the algorithms speak about.                      *)

\* The requests admitted with a timestamp from lo to hi.
Within(lo, hi) == {a \in admitted : lo <= a.t /\ a.t <= hi}

\* Those of the window of length Window that ends at x.
Trailing(x) == Within(x - Window + 1, x)

\* Those of the clock-aligned window k.
InWindow(k) == {a \in admitted : WindowOf(a.t) = k}

\* The clock-aligned windows the model reaches.
WindowIndices == {WindowOf(t) : t \in Time}

\* Worker w is turned away in this step, or let in.
Rejects(w) == now[w] # None /\ now'[w] = None /\ admitted' = admitted
Admits(w) == now[w] # None /\ now'[w] = None /\ admitted' # admitted

=============================================================================
