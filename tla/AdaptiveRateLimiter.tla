------------------------- MODULE AdaptiveRateLimiter -------------------------
(***************************************************************************)
(* The adaptive limiter: a worker looks up its process's record of the     *)
(* client, feeds the detector, on the first request of a window re-selects *)
(* the algorithm the client is routed to, and then runs that algorithm.    *)
(*                                                                         *)
(* The backend makes the steps of the algorithms atomic; nothing guards    *)
(* the record.  So each line that another thread's could come before or    *)
(* after is an action, and a call is the path                              *)
(*                                                                         *)
(*   lookup (-> create) -> append -> test (-> head (-> drop -> test))* ->  *)
(*     check (-> claim -> classify -> decide (-> stay | -> compare ->      *)
(*     again|anew -> dwell (-> switch -> clear -> prime)))                 *)
(*     -> route -> execute                                                 *)
(*                                                                         *)
(* What a single line reads and writes of the record is one step: += 1,    *)
(* and the pair of pending and pending_count.  So is classify, but that it *)
(* raises when another thread changes the arrivals it iterates over.       *)
(***************************************************************************)
EXTENDS RateLimiter, Sequences

CONSTANTS
  HorizonWindows, BinsPerWindow, MinSamples,   \* the detector's arguments
  SteadyRatio, BurstyRatio, RampRatio,
  Instances,   \* the processes; their detectors and selections are their own
  Home,        \* Home[w]: the process w is a thread of
  Policy,      \* Policy[shape]: the algorithm that shape is routed to
  MinDwell,    \* checks a new shape must persist for
  MaxCalls     \* bound of the model: calls made

Algos ==
  {"fixed_window", "sliding_window_log", "sliding_window_counter", "token_bucket"}

Detector == INSTANCE TrafficShapes

ASSUME AdaptiveAssumption ==
  /\ HorizonWindows \in Nat \ {0}
  /\ Policy \in [Detector!Shapes -> Algos]
  /\ Home \in [Workers -> Instances]
  /\ MinDwell \in Nat \ {0}
  /\ MaxCalls \in Nat
  /\ None \notin Workers \cup Algos

DefaultPolicy ==
  [shape \in Detector!Shapes |->
     IF shape = "bursty" THEN "token_bucket" ELSE "sliding_window_counter"]

StrictPolicy == [DefaultPolicy EXCEPT !["bursty"] = "sliding_window_log"]

\* The algorithms the policy can select, each with storage of its own.
Needed == {Policy[shape] : shape \in Detector!Shapes}

VARIABLES
  pc,        \* pc[w]: where w is in allow_request
  records,   \* records[w]: the _ClientState w has created, if it has
  current,   \* current[i]: whose record self._state of process i holds
  mine,      \* mine[w]: its local st, named by the worker that created it
  picked,    \* picked[w]: the algorithm its locals name: desired, then active
  entries,   \* entries[a]: what the backend stores for algorithm a
  calls,     \* calls made
  (* History variables. *)
  governed,  \* the pairs of a clock-aligned window and an algorithm that ran in it
  switches,  \* every switch: its process, timestamp, old and new algorithm,
             \* and the windows whose checks asked for it
  settled,   \* settled[i][t]: arrivals at t observed in the record of process i
             \* while none of its calls was about to create another
  latePrimes \* primings of an algorithm that came after a newer step

adaptive == <<pc, records, current, mine, picked, entries, calls>>
history == <<governed, switches, settled, latePrimes>>
vars == <<flow, adaptive, history>>

ClientState ==
  [ts : Seq(Time), active : Needed, lastCheck : Int,
   pending : Needed \cup {None}, count : Nat,
   (* History: the algorithm asked for by the latest checks in a row, when it
      is not the active one, and their windows; the newest arrival that was
      observed, and how often a thread was about to drop what another had found
      old, too. *)
   asked : Needed \cup {None}, since : SUBSET Int,
   latest : Time \cup {-1}, contested : Nat]

ASSUME NoneIsNoClientState == None \notin ClientState

\* What the backend may hold for an algorithm.
EntriesOf(a) ==
  CASE a = "fixed_window"           -> FixedWindowEntry \cup {None}
    [] a = "sliding_window_log"     -> SUBSET [t : Time, n : -Limit..MaxCalls]
    [] a = "sliding_window_counter" -> SlidingCounterEntry \cup {None}
    [] a = "token_bucket"           -> TokenBucketEntry \cup {None}

\* What the algorithm a finds before its first step or priming.
NoEntry(a) == IF a = "sliding_window_log" THEN {} ELSE None

TypeOK ==
  /\ FlowTypeOK
  /\ pc \in [Workers -> {"idle", "lookup", "create", "append", "test", "head",
                         "drop", "check", "claim", "classify", "decide", "stay",
                         "compare", "again", "anew", "dwell", "switch", "clear",
                         "prime", "route", "execute"}]
  /\ records \in [Workers -> ClientState \cup {None}]
  /\ current \in [Instances -> Workers \cup {None}]
  /\ mine \in [Workers -> Workers \cup {None}]
  /\ picked \in [Workers -> Needed \cup {None}]
  /\ DOMAIN entries = Needed /\ \A a \in Needed : entries[a] \in EntriesOf(a)
  /\ calls \in 0..MaxCalls
  /\ settled \in [Instances -> [Time -> 0..MaxCalls]]
  /\ latePrimes \in Nat

Init ==
  /\ FlowInit
  /\ pc = [w \in Workers |-> "idle"]
  /\ records = [w \in Workers |-> None]
  /\ current = [i \in Instances |-> None]
  /\ mine = [w \in Workers |-> None]
  /\ picked = [w \in Workers |-> None]
  /\ entries = [a \in Needed |-> NoEntry(a)]
  /\ calls = 0
  /\ governed = {}
  /\ switches = {}
  /\ settled = [i \in Instances |-> [t \in Time |-> 0]]
  /\ latePrimes = 0

-----------------------------------------------------------------------------

Goto(w, from, to) ==
  /\ pc[w] = from
  /\ pc' = [pc EXCEPT ![w] = to]

\* The call ends with an exception.
Raise(w, from) ==
  /\ Goto(w, from, "idle")
  /\ now' = [now EXCEPT ![w] = None]
  /\ mine' = [mine EXCEPT ![w] = None]
  /\ UNCHANGED <<clock, admitted, newest, late, records, current, picked, entries,
                 calls, history>>

\* The record w works on, and its replacement.
St(w) == records[mine[w]]
SetSt(w, st) == records' = [records EXCEPT ![mine[w]] = st]

\* now = time.time(); w = math.floor(now / self.window)
Begin(w) ==
  /\ calls < MaxCalls
  /\ Goto(w, "idle", "lookup")
  /\ ReadClock(w)
  /\ calls' = calls + 1
  /\ UNCHANGED <<records, current, mine, picked, entries, history>>

\* Mutant: a record last written by another thread is not found.
LookupOwn(w) ==
  /\ mine' = [mine EXCEPT ![w] = IF current[Home[w]] = w THEN w ELSE None]
  /\ Goto(w, "lookup", IF mine'[w] = None THEN "create" ELSE "append")
  /\ UNCHANGED <<flow, records, current, picked, entries, calls, history>>

\* st = self._state.get(client_id)
Lookup(w) ==
  /\ mine' = [mine EXCEPT ![w] = current[Home[w]]]
  /\ Goto(w, "lookup", IF mine'[w] = None THEN "create" ELSE "append")
  /\ UNCHANGED <<flow, records, current, picked, entries, calls, history>>

\* st = _ClientState(...); self._state[client_id] = st.  No worker is here
\* twice: the record it has created is in self._state, or another is.
Create(w) ==
  /\ Goto(w, "create", "append")
  /\ records' = [records EXCEPT ![w] =
       [ts |-> <<>>, active |-> Policy["warmup"], lastCheck |-> WindowOf(now[w]),
        pending |-> None, count |-> 0,
        asked |-> None, since |-> {}, latest |-> -1, contested |-> 0]]
  /\ current' = [current EXCEPT ![Home[w]] = w]
  /\ mine' = [mine EXCEPT ![w] = w]
  /\ UNCHANGED <<flow, picked, entries, calls, history>>

\* Whether w works on its process's record while no other call of the process
\* that found none is about to create one.
Undisputed(w) ==
  /\ mine[w] = current[Home[w]]
  /\ \A v \in Workers : Home[v] = Home[w] => pc[v] # "create"

\* st.detector.observe(now): self._ts.append(now)
AppendArrival(w) ==
  /\ Goto(w, "append", "test")
  /\ SetSt(w, [St(w) EXCEPT !.ts = Append(@, now[w]),
                            !.latest = IF now[w] > @ THEN now[w] ELSE @])
  /\ settled' = IF Undisputed(w)
                   THEN [settled EXCEPT ![Home[w]][now[w]] = @ + 1]
                   ELSE settled
  /\ UNCHANGED <<flow, current, mine, picked, entries, calls, governed, switches,
                 latePrimes>>

\* self._ts: whether there is an arrival to look at.
Test(w) ==
  /\ Goto(w, "test", IF St(w).ts = <<>> THEN "check" ELSE "head")
  /\ UNCHANGED <<flow, records, current, mine, picked, entries, calls, history>>

\* self._ts[0] < cutoff
HeadIsOld(w) == Head(St(w).ts) < now[w] - Detector!Horizon

\* Whether another thread on the same record is at one of the points given.
AnotherAt(w, points) == \E v \in Workers \ {w} : mine[v] = mine[w] /\ pc[v] \in points

\* The head is looked at, if it is there still: IndexError if not.
LookAtHead(w) ==
  /\ pc[w] = "head"
  /\ IF St(w).ts = <<>> THEN Raise(w, "head")
     ELSE /\ Goto(w, "head", IF HeadIsOld(w) THEN "drop" ELSE "check")
          /\ SetSt(w, [St(w) EXCEPT !.contested =
                          @ + IF HeadIsOld(w) /\ AnotherAt(w, {"drop"})
                                THEN 1 ELSE 0])
          /\ UNCHANGED <<flow, current, mine, picked, entries, calls, history>>

\* self._ts.popleft(), whatever is first by now; IndexError if nothing is.
Drop(w) ==
  /\ pc[w] = "drop"
  /\ IF St(w).ts = <<>> THEN Raise(w, "drop")
     ELSE /\ Goto(w, "drop", "test")
          /\ SetSt(w, [St(w) EXCEPT !.ts = Tail(@)])
          /\ UNCHANGED <<flow, current, mine, picked, entries, calls, history>>

\* Mutant: every request re-selects.
CheckAlways(w) ==
  /\ Goto(w, "check", "claim")
  /\ UNCHANGED <<flow, records, current, mine, picked, entries, calls, history>>

\* if w != st.last_check_window
Check(w) ==
  /\ Goto(w, "check",
          IF WindowOf(now[w]) # St(w).lastCheck THEN "claim" ELSE "route")
  /\ UNCHANGED <<flow, records, current, mine, picked, entries, calls, history>>

\* st.last_check_window = w
Claim(w) ==
  /\ Goto(w, "claim", "classify")
  /\ SetSt(w, [St(w) EXCEPT !.lastCheck = WindowOf(now[w])])
  /\ UNCHANGED <<flow, current, mine, picked, entries, calls, history>>

\* shape = st.detector.classify(); desired = self.policy.get(shape, st.active)
ClassifyTraffic(w) ==
  /\ Goto(w, "classify", "decide")
  /\ MinSamples = 0 => St(w).ts # <<>>
  /\ picked' = [picked EXCEPT ![w] = Policy[Detector!Classify(St(w).ts)]]
  /\ UNCHANGED <<flow, records, current, mine, entries, calls, history>>

\* Another thread appends or drops an arrival while classify iterates, or there
\* is no newest one: the exception leaves allow_request, and the check of this
\* window is gone.
ClassifyRaises(w) ==
  /\ Raise(w, "classify")
  /\ AnotherAt(w, {"append", "drop"}) \/ (MinSamples = 0 /\ St(w).ts = <<>>)

\* For the history, the windows of the checks in a row that have asked for what
\* is desired, this one included.
AskedSince(w) ==
  (IF St(w).asked = picked[w] THEN St(w).since ELSE {}) \cup {WindowOf(now[w])}

\* if desired == st.active
Decide(w) ==
  LET wanted == picked[w] # St(w).active IN
    /\ Goto(w, "decide", IF wanted THEN "compare" ELSE "stay")
    /\ SetSt(w, [St(w) EXCEPT !.asked = IF wanted THEN picked[w] ELSE None,
                              !.since = IF wanted THEN AskedSince(w) ELSE {}])
    /\ UNCHANGED <<flow, current, mine, picked, entries, calls, history>>

\* Mutant: what was pending stays so.
StayPending(w) ==
  /\ Goto(w, "stay", "route")
  /\ UNCHANGED <<flow, records, current, mine, picked, entries, calls, history>>

\* st.pending, st.pending_count = None, 0
Stay(w) ==
  /\ Goto(w, "stay", "route")
  /\ SetSt(w, [St(w) EXCEPT !.pending = None, !.count = 0])
  /\ UNCHANGED <<flow, current, mine, picked, entries, calls, history>>

\* if st.pending == desired
Compare(w) ==
  /\ Goto(w, "compare", IF St(w).pending = picked[w] THEN "again" ELSE "anew")
  /\ UNCHANGED <<flow, records, current, mine, picked, entries, calls, history>>

\* st.pending_count += 1
CountAgain(w) ==
  /\ Goto(w, "again", "dwell")
  /\ SetSt(w, [St(w) EXCEPT !.count = @ + 1])
  /\ UNCHANGED <<flow, current, mine, picked, entries, calls, history>>

\* st.pending, st.pending_count = desired, 1
CountAnew(w) ==
  /\ Goto(w, "anew", "dwell")
  /\ SetSt(w, [St(w) EXCEPT !.pending = picked[w], !.count = 1])
  /\ UNCHANGED <<flow, current, mine, picked, entries, calls, history>>

\* if st.pending_count >= self.min_dwell_windows
Dwell(w) ==
  /\ Goto(w, "dwell", IF St(w).count >= MinDwell THEN "switch" ELSE "route")
  /\ UNCHANGED <<flow, records, current, mine, picked, entries, calls, history>>

\* st.active = desired: active before it is primed.
Switch(w) ==
  /\ Goto(w, "switch", "clear")
  /\ SetSt(w, [St(w) EXCEPT !.active = picked[w]])
  /\ switches' = switches \cup {[by |-> Home[w], t |-> now[w],
                                 from |-> St(w).active, to |-> picked[w],
                                 windows |-> St(w).since]}
  /\ UNCHANGED <<flow, current, mine, picked, entries, calls, governed, settled,
                 latePrimes>>

\* st.pending, st.pending_count = None, 0
Clear(w) ==
  /\ Goto(w, "clear", "prime")
  /\ SetSt(w, [St(w) EXCEPT !.pending = None, !.count = 0])
  /\ UNCHANGED <<flow, current, mine, picked, entries, calls, history>>

\* Mutant: priming wipes the entry.
PrimedAfresh(a, t) == NoEntry(a)

\* Mutant: the new algorithm starts with what it has.
Unprimed(a, t) == entries[a]

\* What priming leaves: a full log, an empty bucket; of the counters, what
\* they held.
Primed(a, t) ==
  CASE a = "sliding_window_log" -> SlidingLogPrime(t)
    [] a = "token_bucket"       -> TokenBucketPrime(t)
    [] OTHER                    -> entries[a]

\* self._algos[desired].prime(client_id, now)
Prime(w) ==
  /\ Goto(w, "prime", "route")
  /\ entries' = [entries EXCEPT ![picked[w]] = Primed(picked[w], now[w])]
  /\ latePrimes' = latePrimes + IF now[w] < newest THEN 1 ELSE 0
  /\ UNCHANGED <<flow, records, current, mine, picked, calls, governed, switches,
                 settled>>

\* self._algos[st.active]
Route(w) ==
  /\ Goto(w, "route", "execute")
  /\ picked' = [picked EXCEPT ![w] = St(w).active]
  /\ UNCHANGED <<flow, records, current, mine, entries, calls, history>>

StepOf(a, t) ==
  LET e == entries[a] IN
    CASE a = "fixed_window"           -> FixedWindowOp(e, t)
      [] a = "sliding_window_log"     -> SlidingLogOp(e, t, NextNumber)
      [] a = "sliding_window_counter" -> SlidingCounterOp(e, t)
      [] a = "token_bucket"           -> TokenBucketOp(DefaultBucket, e, t)

\* .allow_request(client_id, now=now): the algorithm's atomic step.
Execute(w) ==
  /\ Goto(w, "execute", "idle")
  /\ LET result == StepOf(picked[w], now[w]) IN
       /\ entries' = [entries EXCEPT ![picked[w]] = result.entry]
       /\ Respond(w, result.allowed)
  /\ mine' = [mine EXCEPT ![w] = None]
  /\ picked' = [picked EXCEPT ![w] = None]
  /\ governed' = governed \cup {<<WindowOf(now[w]), picked[w]>>}
  /\ UNCHANGED <<records, current, calls, switches, settled, latePrimes>>

AllowRequest(w) ==
  \/ Begin(w)
  \/ Lookup(w)
  \/ Create(w)
  \/ AppendArrival(w)
  \/ Test(w)
  \/ LookAtHead(w)
  \/ Drop(w)
  \/ Check(w)
  \/ Claim(w)
  \/ ClassifyTraffic(w)
  \/ ClassifyRaises(w)
  \/ Decide(w)
  \/ Stay(w)
  \/ Compare(w)
  \/ CountAgain(w)
  \/ CountAnew(w)
  \/ Dwell(w)
  \/ Switch(w)
  \/ Clear(w)
  \/ Prime(w)
  \/ Route(w)
  \/ Execute(w)

Next ==
  \/ Tick /\ UNCHANGED <<adaptive, history>>
  \/ \E w \in Workers : AllowRequest(w)

Spec == Init /\ [][Next]_vars

-----------------------------------------------------------------------------
(* What the calls of several threads and processes, over one backend, may  *)
(* do to each other.                                                       *)

\* Processes that route a client to different algorithms, and threads that
\* re-select in mid-window or run on an algorithm that is not primed yet, admit
\* at most the limit for each algorithm that ran in the window, and for each
\* step or priming that came late.  The bucket also admits what it refills.
WindowBoundedByItsGovernors ==
  \A k \in WindowIndices :
    LET governors == {a \in Needed : <<k, a>> \in governed}
        refill    == IF "token_bucket" \in governors THEN (Window - 1) * Limit ELSE 0
    IN  Window * Cardinality(InWindow(k))
          <= Window * Limit * (Cardinality(governors) + late + latePrimes) + refill

\* How many of the arrivals kept are at t.
Count(ts, t) == Cardinality({n \in DOMAIN ts : ts[n] = t})

\* Of each timestamp within the horizon of the newest arrival, as many numbers
\* as there are settled arrivals of process i that are not kept any more.
Lost(i) ==
  LET st == records[current[i]] IN
    {p \in Time \X (1..MaxCalls) :
       /\ p[1] >= st.latest - Detector!Horizon
       /\ p[2] <= settled[i][p[1]] - Count(st.ts, p[1])}

\* When two threads both create the record, the arrivals in the one replaced
\* are lost.  But once a record is found by a call and no other is about to
\* create one, the arrivals within the horizon are never lost, but one for each
\* time that two threads were about to drop the same arrival.
SettledArrivalsAreKept ==
  \A i \in Instances :
    current[i] # None => Cardinality(Lost(i)) <= records[current[i]].contested

-----------------------------------------------------------------------------
(* What follows holds when the calls of a process come one after the other *)
(* with growing timestamps, as from the event loop of the middleware, and  *)
(* fails as soon as they overlap.                                          *)

\* A clock-aligned window is governed by one algorithm, so that no allowance
\* starts anew within it (adaptive.py:16).
OneAlgorithmPerWindow ==
  \A g, h \in governed : g[1] = h[1] => g[2] = h[2]

\* A switch was asked for in MinDwell different windows, not MinDwell times.
SwitchNeedsDwell ==
  \A s \in switches : Cardinality(s.windows) >= MinDwell

\* The window-long intervals that straddle the switch s, up to the next one,
\* by their last tick.
Straddling(s) ==
  {x \in Time : /\ s.t <= x /\ x < s.t + Window
                /\ ~ \E r \in switches : s.t < r.t /\ r.t <= x}

\* What an algorithm that was primed at the switch s may add until x.
RefillSince(s, x) == IF s.to = "token_bucket" THEN (x - s.t) * Limit ELSE 0

\* A switch from the counter to the bucket or the log grants nothing on top of
\* what the counter has granted in the adjacent window, but the refill of the
\* time since.
PrimedHandOffAddsNoBurst ==
  \A s \in switches : \A x \in Straddling(s) :
    s.from = "sliding_window_counter" /\ s.to # "fixed_window" =>
      Window * Cardinality(Trailing(x)) <= Window * Limit + RefillSince(s, x)

\* The claim that a switch does not show as twice the limit in a window that
\* straddles it (base.py:90).
NoDoubleAllowanceAtSwitch ==
  \A s \in switches : \A x \in Straddling(s) :
    Cardinality(Trailing(x)) < 2 * Limit

=============================================================================
