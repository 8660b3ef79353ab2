--------------------------- MODULE TrafficDetector ---------------------------
(***************************************************************************)
(* The detector of one client, used by the threads of its process without  *)
(* a lock: each operation on the deque is atomic, and between two of them  *)
(* another thread may do its own.  A call is the path                      *)
(*                                                                         *)
(*   append -> test (-> head (-> drop -> test))* ->                        *)
(*     measure (-> newest -> iterate)                                      *)
(*                                                                         *)
(* A worker reads the clock before it comes to observe, so arrivals may be *)
(* observed out of timestamp order.  An iteration sees the deque as it was *)
(* when it began, or raises since it has changed; so it is taken as one    *)
(* step, and a change may end the iterations under way.                    *)
(***************************************************************************)
EXTENDS TrafficShapes

CONSTANTS
  Workers,      \* the threads that handle the client's requests
  None,         \* no request in hand
  MaxTime,      \* bound of the model: the clock stops here
  MaxArrivals,  \* bound of the model: arrivals observed
  MaxLag        \* bound of the model: ticks that pass while a call holds a now

ASSUME BoundsAssumption == {MaxTime, MaxArrivals} \subseteq Nat

VARIABLES
  clock,        \* the wall clock
  pc,           \* pc[w]: where w is in observe or classify
  now,          \* now[w]: its local now, the arrival's or the newest one
  ts,           \* self._ts
  (* History variables. *)
  observed,     \* every arrival observed, in the order of observation
  late,         \* whether one was observed after a newer one
  contested     \* how often a thread was about to drop what another had
                \* found old, too

locals == <<pc, now>>
history == <<observed, late, contested>>
vars == <<clock, locals, ts, history>>

Time == 0..MaxTime

TypeOK ==
  /\ clock \in Time
  /\ pc \in [Workers -> {"idle", "append", "test", "head", "drop", "measure",
                         "newest", "iterate"}]
  /\ now \in [Workers -> Time \cup {None}]
  /\ ts \in Seq(Time)
  /\ observed \in Seq(Time) /\ Len(observed) <= MaxArrivals
  /\ late \in BOOLEAN
  /\ contested \in Nat

Init ==
  /\ clock = 0
  /\ pc = [w \in Workers |-> "idle"]
  /\ now = [w \in Workers |-> None]
  /\ ts = <<>>
  /\ observed = <<>>
  /\ late = FALSE
  /\ contested = 0

-----------------------------------------------------------------------------

Tick ==
  /\ clock < MaxTime
  /\ \A w \in Workers : pc[w] # "idle" => clock < now[w] + MaxLag
  /\ clock' = clock + 1
  /\ UNCHANGED <<locals, ts, history>>

Goto(w, from, to) ==
  /\ pc[w] = from
  /\ pc' = [pc EXCEPT ![w] = to]

\* The call ends here, with an exception or not.
End(w, from) ==
  /\ Goto(w, from, "idle")
  /\ now' = [now EXCEPT ![w] = None]
  /\ UNCHANGED <<clock, ts, history>>

\* w changes the deque and goes on.  Others that iterate over it may raise,
\* RuntimeError: deque mutated during iteration.
Mutate(w, from, to) ==
  /\ pc[w] = from
  /\ \E raising \in SUBSET {v \in Workers : pc[v] = "iterate"} :
       /\ pc' = [v \in Workers |-> IF v \in raising THEN "idle"
                                   ELSE IF v = w THEN to ELSE pc[v]]
       /\ now' = [v \in Workers |-> IF v \in raising THEN None ELSE now[v]]
  /\ UNCHANGED clock

\* Mutant: the clock is rounded up.
ReadClockCeiled(w) ==
  /\ Goto(w, "idle", "append")
  /\ now' = [now EXCEPT ![w] = clock + 1]
  /\ UNCHANGED <<clock, ts, history>>

ReadClock(w) ==
  /\ Goto(w, "idle", "append")
  /\ now' = [now EXCEPT ![w] = clock]
  /\ UNCHANGED <<clock, ts, history>>

\* self._ts.append(now)
AppendArrival(w) ==
  /\ Len(observed) < MaxArrivals
  /\ Mutate(w, "append", "test")
  /\ ts' = Append(ts, now[w])
  /\ observed' = Append(observed, now[w])
  /\ late' = (late \/ \E i \in DOMAIN observed : observed[i] > now[w])
  /\ UNCHANGED contested

\* self._ts: whether there is an arrival to look at.
Test(w) ==
  /\ Goto(w, "test", IF ts = <<>> THEN "measure" ELSE "head")
  /\ UNCHANGED <<clock, now, ts, history>>

\* Mutant: the arrival exactly at the horizon is dropped.
HeadIsOldOrAtEdge(w) == Head(ts) <= now[w] - Horizon

\* self._ts[0] < cutoff
HeadIsOld(w) == Head(ts) < now[w] - Horizon

\* The head is looked at, if it is there still: IndexError if not.
LookAtHead(w) ==
  IF ts = <<>> THEN End(w, "head")
  ELSE /\ Goto(w, "head", IF HeadIsOld(w) THEN "drop" ELSE "measure")
       /\ contested' = contested +
            IF HeadIsOld(w) /\ \E v \in Workers : pc[v] = "drop" THEN 1 ELSE 0
       /\ UNCHANGED <<clock, now, ts, observed, late>>

\* self._ts.popleft(), whatever is first by now; IndexError if nothing is.
Drop(w) ==
  /\ Mutate(w, "drop", IF ts = <<>> THEN "idle" ELSE "test")
  /\ ts' = IF ts = <<>> THEN ts ELSE Tail(ts)
  /\ UNCHANGED history

\* The caller does not classify with this arrival, or n = len(self._ts) is too
\* small: warmup.
Leave(w) == End(w, "measure")

\* n = len(self._ts) is enough.
Measure(w) ==
  /\ Goto(w, "measure", "newest")
  /\ Len(ts) >= MinSamples
  /\ UNCHANGED <<clock, now, ts, history>>

\* now = self._ts[-1]; IndexError if there is none.
ReadNewest(w) ==
  /\ Goto(w, "newest", IF ts = <<>> THEN "idle" ELSE "iterate")
  /\ now' = [now EXCEPT ![w] = IF ts = <<>> THEN None ELSE ts[Len(ts)]]
  /\ UNCHANGED <<clock, ts, history>>

\* for t in self._ts, to the end; w is told Told(w).
Iterate(w) == End(w, "iterate")

Told(w) == ShapeOf(ts, now[w])

Next ==
  \/ Tick
  \/ \E w \in Workers :
       \/ ReadClock(w) \/ AppendArrival(w) \/ Test(w) \/ LookAtHead(w) \/ Drop(w)
       \/ Leave(w) \/ Measure(w) \/ ReadNewest(w) \/ Iterate(w)

Spec == Init /\ [][Next]_vars

-----------------------------------------------------------------------------

\* How many arrivals have been dropped.
Dropped == Len(observed) - Len(ts)

\* An arrival at t is within the horizon of every arrival observed.
InView(t) == \A i \in DOMAIN observed : t >= observed[i] - Horizon

\* What is kept is the last of what was observed.  Of the arrivals within the
\* horizon of the newest one none is ever dropped, whatever the order of
\* observation, but one for each time that two threads were about to drop the
\* same arrival.  Observed in order and undisturbed, exactly those are kept.
HorizonKept ==
  /\ ts = SubSeq(observed, Dropped + 1, Len(observed))
  /\ Cardinality({i \in 1..Dropped : InView(observed[i])}) <= contested
  /\ ~late /\ contested = 0 /\ (\A w \in Workers : pc[w] \notin {"test", "head", "drop"})
       => \A i \in DOMAIN observed : i > Dropped <=> InView(observed[i])

\* The arrivals in view fit in a third of the horizon.
Clustered ==
  /\ ts # <<>>
  /\ \A i, j \in DOMAIN ts : BinsPerWindow * (ts[i] - ts[j]) <= Third * Window

\* What w has read as the newest arrival is kept still, or only later ones are.
\* Otherwise arrivals that are later observed than it but older were all that
\* races left of the deque.
UpToDate(w) ==
  \/ \E i \in DOMAIN ts : ts[i] = now[w]
  \/ \A i \in DOMAIN ts : ts[i] >= now[w]

\* A cluster with nothing else in view is bursty however it falls on the bins,
\* late arrivals and those that came while it was classified included.
ClustersAreBursty ==
  \A w \in Workers :
    pc[w] = "iterate" /\ Clustered /\ UpToDate(w) => Told(w) = "bursty"

\* Arrivals one step apart, over at least the whole horizon.
EvenlySpaced ==
  /\ ts # <<>> /\ ts[Len(ts)] - ts[1] = Horizon
  /\ \E step \in 1..Window :
       /\ BinsPerWindow * step <= Window
       /\ \A i \in 2..Len(ts) : ts[i] - ts[i - 1] = step

\* A client that sends evenly, at least once a bin, is not routed to the
\* algorithm of bursts nor taken for a ramp, unless another arrival comes
\* between the reading of the newest one and the iteration.
EvenIsNeitherBurstyNorRamping ==
  \A w \in Workers :
    pc[w] = "iterate" /\ EvenlySpaced /\ now[w] = ts[Len(ts)]
      => Told(w) \notin {"bursty", "ramping"}

=============================================================================
