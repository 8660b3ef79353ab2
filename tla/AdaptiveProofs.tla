----------------------------- MODULE AdaptiveProofs -----------------------------
(***************************************************************************)
(* Theorems about the adaptive limiter, for every policy, dwell, limit and *)
(* window.  The first two and the last hold for any number of threads and  *)
(* processes, the others when the calls come one after the other.          *)
(***************************************************************************)
EXTENDS AdaptiveRateLimiter, RateLimiterProofs, FunctionTheorems, SequenceTheorems

-----------------------------------------------------------------------------
(* The points of a call.                                                   *)

Points == {"idle", "lookup", "create", "append", "test", "head", "drop", "check",
           "claim", "classify", "decide", "stay", "compare", "again", "anew",
           "dwell", "switch", "clear", "prime", "route", "execute"}

\* Those where it has no record yet, in the loop of the detector, where another
\* algorithm is wanted, from the check's record to the switch, from the switch to
\* the priming, and where its locals name an algorithm.
Homeless == {"idle", "lookup", "create"}
Looping  == {"test", "head", "drop"}
Wanting  == {"compare", "again", "anew", "dwell", "switch"}
Deciding == {"classify", "decide"} \cup Wanting
Priming  == {"clear", "prime"}
Naming   == {"decide", "stay", "execute"} \cup Wanting \cup Priming

USE DEF Points, Homeless, Looping, Wanting, Deciding, Priming, Naming

-----------------------------------------------------------------------------
(* The steps by what they change.                                          *)

\* Where the call is, and no more.
Moving(w) == Test(w) \/ Check(w) \/ Compare(w) \/ Dwell(w)

\* The record, but neither its arrivals nor its active algorithm.
Noting(w) ==
  Claim(w) \/ Decide(w) \/ Stay(w) \/ CountAgain(w) \/ CountAnew(w) \/ Clear(w)

\* The arrivals.
Looking(w) == LookAtHead(w) /\ St(w).ts # <<>>
Dropping(w) == Drop(w) /\ St(w).ts # <<>>
Observing(w) == AppendArrival(w) \/ Looking(w) \/ Dropping(w)

\* The call is given up.
Raising(w) == \E from \in {"head", "drop", "classify"} :
                /\ Raise(w, from)
                /\ from = "drop" => St(w).ts = <<>>

\* Two records with the same arrivals, and with the same selection.
SameArrivals(st, old) ==
  st.ts = old.ts /\ st.latest = old.latest /\ st.contested = old.contested

SameSelection(st, old) ==
  /\ st.active = old.active /\ st.lastCheck = old.lastCheck
  /\ st.pending = old.pending /\ st.count = old.count
  /\ st.asked = old.asked /\ st.since = old.since

\* One that neither begins nor ends the call, nor comes to its record.
Inner(w) ==
  \/ Observing(w) \/ Moving(w) \/ Noting(w) \/ ClassifyTraffic(w) \/ Switch(w)
  \/ Prime(w) \/ Route(w)

-----------------------------------------------------------------------------
(* The invariants.                                                         *)

\* What the locals of w are at each point of its call.
Locals(w) ==
  /\ now[w] = None <=> pc[w] = "idle"
  /\ mine[w] = None <=> pc[w] \in Homeless
  /\ mine[w] # None => Home[mine[w]] = Home[w] /\ records[mine[w]] # None
  /\ pc[w] \in Naming => picked[w] # None
  /\ pc[w] \in Looping => now[w] <= records[mine[w]].latest

\* A worker creates a record once, and its process has one from then on.
Fresh(w) == records[w] # None => current[Home[w]] # None /\ pc[w] # "create"

\* The record process i holds is one that its own thread created.
Owned(i) == current[i] # None => Home[current[i]] = i /\ records[current[i]] # None

\* The calls under way, and those of them that have not been observed.
InFlight == {w \in Workers : pc[w] # "idle"}
Unobserved == {w \in Workers : pc[w] \in {"lookup", "create", "append"}}

\* Every call under way, and every request admitted, has been counted.
CallsCounted ==
  /\ IsFiniteSet(InFlight)
  /\ Cardinality(admitted) + Cardinality(InFlight) <= calls
  /\ \A i \in Instances : \A t \in Time :
       settled[i][t] + Cardinality(Unobserved) <= calls

\* Nothing is settled while a record may still be replaced.
NothingSettled(i) ==
  (current[i] = None \/ \E w \in Workers : Home[w] = i /\ pc[w] = "create")
    => \A t \in Time : settled[i][t] = 0

\* The threads about to drop an arrival of the record that c created, and
\* whether the head is old, so that one of them drops nothing that is in view.
Droppers(c) == {w \in Workers : mine[w] = c /\ pc[w] = "drop"}

Forfeit(c) ==
  LET st == records[c] IN
    IF Droppers(c) # {} /\ st.ts # <<>> /\ Head(st.ts) < st.latest - Detector!Horizon
      THEN 1 ELSE 0

\* The settled arrivals that process i has lost, and those it may lose by the
\* drops under way, are accounted for.
Accounted(i) ==
  LET c == current[i] IN
    c # None => Cardinality(Lost(i)) + Cardinality(Droppers(c))
                  <= records[c].contested + Forfeit(c)

\* The inductive invariant, for any number of threads and processes.
IInv ==
  /\ TypeOK
  /\ FlowInv
  /\ \A w \in Workers : Locals(w) /\ Fresh(w)
  /\ \A i \in Instances : Owned(i) /\ NothingSettled(i) /\ Accounted(i)
  /\ CallsCounted

-----------------------------------------------------------------------------
(* One call at a time.                                                     *)

OneThread == \A v, w \in Workers : v = w

\* The record of the process of w.
Rec(w) == records[current[Home[w]]]

\* Where w stands: the time only moves on, and a call works on the record that
\* its process holds.
InOrder(w) ==
  /\ newest <= clock
  /\ pc[w] # "idle" => newest <= now[w] /\ now[w] <= clock
  /\ mine[w] # None => mine[w] = current[Home[w]]
  /\ pc[w] = "create" => current[Home[w]] = None
  /\ current[Home[w]] = None =>
       governed = {} /\ switches = {} /\ admitted = {} /\ newest = -1

\* The last check is of the window of the newest step, or of this call.
Checked(w) ==
  current[Home[w]] # None =>
    /\ Rec(w).lastCheck <= WindowOf(clock)
    /\ newest # -1 => WindowOf(newest) <= Rec(w).lastCheck
    /\ pc[w] # "idle" => Rec(w).lastCheck <= WindowOf(now[w])
    /\ pc[w] = "claim" => Rec(w).lastCheck < WindowOf(now[w])
    /\ pc[w] \in Deciding \cup Priming \cup {"stay", "route", "execute"}
         => Rec(w).lastCheck = WindowOf(now[w])
    /\ pc[w] \in Deciding \cup Priming /\ newest # -1
         => WindowOf(newest) < WindowOf(now[w])

\* The algorithm of the newest window is the active one, until a switch.
Governing(w) ==
  current[Home[w]] # None =>
    /\ \A g \in governed :
         /\ newest # -1
         /\ g[1] <= WindowOf(newest)
         /\ g[1] = WindowOf(newest) =>
              \/ g[2] = Rec(w).active
              \/ /\ pc[w] \in Priming \cup {"route", "execute"}
                 /\ WindowOf(newest) < WindowOf(now[w])
    /\ pc[w] \in Priming \cup {"execute"} => picked[w] = Rec(w).active
    /\ pc[w] \in Wanting => picked[w] # Rec(w).active

\* The count of the hysteresis does not exceed the windows of the checks in a
\* row that have asked for what is pending.
Dwelling(w) ==
  current[Home[w]] # None =>
    LET st == Rec(w) IN
      /\ IsFiniteSet(st.since)
      /\ \A k \in st.since : k <= st.lastCheck
      /\ pc[w] \in {"classify", "decide"} => \A k \in st.since : k < st.lastCheck
      /\ pc[w] \notin {"stay", "compare", "again", "anew"} /\ st.pending # None
           => st.pending = st.asked /\ st.count <= Cardinality(st.since)
      /\ pc[w] \in Wanting => st.asked = picked[w]
      /\ pc[w] \in {"compare", "again", "anew"} => 1 <= Cardinality(st.since)
      /\ pc[w] \in {"compare", "again"} /\ st.pending = picked[w]
           => st.count + 1 <= Cardinality(st.since)
      /\ pc[w] \in {"again", "dwell", "switch"} => st.pending = picked[w]
      /\ pc[w] = "switch" => st.count >= MinDwell

OneThreadInv ==
  /\ \A w \in Workers :
       InOrder(w) /\ Checked(w) /\ Governing(w) /\ Dwelling(w)
  /\ \A g \in governed : g = <<g[1], g[2]>> /\ g[1] \in Int /\ g[2] \in Needed
  /\ OneAlgorithmPerWindow
  /\ SwitchNeedsDwell

\* What switches there are: at most one in a window, and none after now.
SwitchType ==
  [by : Instances, t : Time, from : Needed, to : Needed, windows : SUBSET Int]

Latest(s) == \A r \in switches : r.t <= s.t

SwitchesInOrder ==
  /\ switches \subseteq SwitchType
  /\ \A r, s \in switches : WindowOf(r.t) = WindowOf(s.t) => r = s
  /\ \A s \in switches : s.from # s.to
  /\ \A w \in Workers : \A s \in switches :
       /\ s.t <= clock
       /\ WindowOf(s.t) <= Rec(w).lastCheck
       /\ pc[w] # "idle" => s.t <= now[w]
       /\ pc[w] \in Deciding => WindowOf(s.t) < WindowOf(now[w])
       /\ Latest(s) => Rec(w).active = s.to
       /\ pc[w] \in Priming /\ Latest(s) => s.t = now[w]
  /\ \A w \in Workers : pc[w] \in Priming => switches # {}

\* The counter: its entry is the truth of the windows it governs.
CounterIsTrue ==
  LET e == entries["sliding_window_counter"] IN
  "sliding_window_counter" \in Needed =>
    /\ e # None => /\ <<e.w, "sliding_window_counter">> \in governed
                   /\ e.c = Cardinality(InWindow(e.w))
    /\ \A g \in governed : g[2] = "sliding_window_counter" =>
         e # None /\ g[1] <= e.w /\ Cardinality(InWindow(g[1])) <= Limit

\* Every admitted request was let in by the algorithm of its window.
AdmittedIsGoverned ==
  \A a \in admitted : \E g \in governed : g[1] = WindowOf(a.t)

\* Before the switch s nothing was admitted in its window, and no more than
\* the limit in the one before, if that was the counter's.
QuietBefore(s) ==
  /\ \A a \in admitted : WindowOf(a.t) = WindowOf(s.t) => a.t >= s.t
  /\ s.from = "sliding_window_counter"
       => Cardinality(InWindow(WindowOf(s.t) - 1)) <= Limit

\* What the algorithm primed at s has admitted since, up to the next switch.
GrantedSince(s) ==
  \A x \in Straddling(s) :
    /\ s.to = "token_bucket" =>
         Window * Cardinality(Within(s.t, x)) <= (x - s.t) * Limit
    /\ s.to = "sliding_window_log" => Within(s.t, x) = {}

\* What the algorithm primed at the latest switch can still admit: the bucket
\* what it has refilled and not spent, the log nothing for a window.
Spendable(s) ==
  /\ s.to = "token_bucket" =>
       LET e == entries["token_bucket"] IN
         /\ e # None /\ e.last >= newest
         /\ Window * Cardinality(Within(s.t, e.last)) + e.tokens <= (e.last - s.t) * Limit
  /\ s.to = "sliding_window_log" /\ newest < s.t + Window =>
       entries["sliding_window_log"] = SlidingLogPrime(s.t)

HandOffInv ==
  /\ SwitchesInOrder
  /\ CounterIsTrue
  /\ AdmittedIsGoverned
  /\ \A s \in switches : QuietBefore(s) /\ GrantedSince(s)
  /\ \A s \in switches : \A w \in Workers :
       Latest(s) /\ pc[w] \notin Priming => Spendable(s)
  /\ \A s \in switches : \A w \in Workers :
       Latest(s) /\ pc[w] \in Priming => newest < s.t

-----------------------------------------------------------------------------
(* How many arrivals of a timestamp are kept.                              *)

\* The number of arrivals at u is finite.
LEMMA CountFinite ==
  ASSUME NEW ts \in Seq(Time), NEW u
  PROVE  /\ IsFiniteSet({n \in DOMAIN ts : ts[n] = u})
         /\ Count(ts, u) \in Nat
<1>1. IsFiniteSet(1..Len(ts)) /\ DOMAIN ts = 1..Len(ts)
  BY FS_Interval
<1>2. QED
  BY <1>1, FS_Subset, FS_CardinalityType DEF Count

\* Appending an arrival counts it.
LEMMA CountAppend ==
  ASSUME NEW ts \in Seq(Time), NEW t \in Time, NEW u
  PROVE  Count(Append(ts, t), u) = Count(ts, u) + IF u = t THEN 1 ELSE 0
<1> DEFINE app == Append(ts, t)
           A == {n \in DOMAIN app : app[n] = u}
           B == {n \in DOMAIN ts : ts[n] = u}
           last == Len(ts) + 1
<1>1. /\ app \in Seq(Time) /\ DOMAIN app = 1..last /\ app[last] = t
      /\ DOMAIN ts = 1..Len(ts) /\ \A n \in 1..Len(ts) : app[n] = ts[n]
      /\ Len(ts) \in Nat
  OBVIOUS
<1>2. last \notin B /\ DOMAIN app = (DOMAIN ts) \cup {last}
  BY <1>1
<1> HIDE DEF app, last
<1>3. IF u = t THEN A = B \cup {last} ELSE A = B
  BY <1>1, <1>2
<1>4. IsFiniteSet(B) /\ Cardinality(B) \in Nat
  BY CountFinite DEF Count
<1>5. Cardinality(A) = Cardinality(B) + IF u = t THEN 1 ELSE 0
  <2>1. last \notin B
    BY <1>2
  <2> HIDE DEF A, B
  <2>2. Cardinality(B \cup {last}) = Cardinality(B) + 1
    BY <2>1, <1>4, CountNewRequest
  <2>3. CASE u = t
    BY <2>2, <2>3, <1>3, <1>4
  <2>4. CASE u # t
    BY <2>4, <1>3, <1>4
  <2>5. QED
    BY <2>3, <2>4
<1>6. QED
  BY <1>5 DEF Count, app

\* Dropping a beginning without an arrival at u keeps the count of u.
\* Dropping the head counts it no more.
LEMMA CountTail ==
  ASSUME NEW seq \in Seq(Time), seq # <<>>, NEW u
  PROVE  Count(seq, u) = Count(Tail(seq), u) + IF u = Head(seq) THEN 1 ELSE 0
<1> DEFINE new == Tail(seq)
           A == {n \in DOMAIN new : new[n] = u}
           B == {n \in DOMAIN seq : seq[n] = u}
           C == B \ {1}
           f == [n \in C |-> n - 1]
<1>1. /\ DOMAIN seq = 1..Len(seq) /\ Len(seq) \in Nat \ {0}
      /\ new \in Seq(Time) /\ DOMAIN new = 1..Len(seq) - 1
      /\ \A n \in 1..Len(seq) - 1 : new[n] = seq[n + 1]
      /\ Head(seq) = seq[1]
  OBVIOUS
<1> HIDE DEF new
<1>2. \A n \in C : n \in 2..Len(seq)
  BY <1>1
<1>3. f \in [C -> A]
  <2> SUFFICES ASSUME NEW n \in C PROVE n - 1 \in A
    OBVIOUS
  <2>1. n \in 2..Len(seq) /\ seq[n] = u
    BY <1>2
  <2>2. n - 1 \in 1..Len(seq) - 1 /\ (n - 1) + 1 = n
    BY <2>1, <1>1
  <2>3. QED
    BY <2>1, <2>2, <1>1
<1>4. \A a, b \in C : f[a] = f[b] => a = b
  BY <1>2
<1>5. \A k \in A : \E n \in C : f[n] = k
  <2> SUFFICES ASSUME NEW k \in A PROVE \E n \in C : f[n] = k
    OBVIOUS
  <2>1. k \in 1..Len(seq) - 1 /\ seq[k + 1] = u
    BY <1>1
  <2>2. k + 1 \in C /\ (k + 1) - 1 = k
    BY <2>1, <1>1
  <2>3. QED
    BY <2>2
<1>6. ExistsBijection(C, A)
  <2> HIDE DEF A, C, f
  <2>1. f \in Bijection(C, A)
    BY <1>3, <1>4, <1>5, Fun_IsBij
  <2>2. QED
    BY <2>1 DEF ExistsBijection
<1>7. IsFiniteSet(B)
  BY CountFinite
<1>8. IsFiniteSet(C) /\ Cardinality(A) = Cardinality(C)
  BY <1>6, <1>7, FS_Subset, FS_Bijection
<1>9. Cardinality(B) = Cardinality(A) + IF u = Head(seq) THEN 1 ELSE 0
  <2>1. 1 \in B <=> u = Head(seq)
    BY <1>1
  <2>2. (1 \in B => B = C \cup {1}) /\ (1 \notin B => B = C)
    OBVIOUS
  <2>3. 1 \notin C
    OBVIOUS
  <2> HIDE DEF A, B, C
  <2>4. Cardinality(C) \in Nat /\ Cardinality(C \cup {1}) = Cardinality(C) + 1
    BY <2>3, <1>8, CountNewRequest
  <2>5. CASE 1 \in B
    BY <2>1, <2>2, <2>4, <2>5, <1>8
  <2>6. CASE 1 \notin B
    BY <2>1, <2>2, <2>4, <2>6, <1>8
  <2>7. QED
    BY <2>5, <2>6
<1>10. Count(seq, u) = Cardinality(B) /\ Count(new, u) = Cardinality(A)
  BY DEF Count
<1>11. QED
  <2> HIDE DEF A, B
  <2>1. QED
    BY <1>9, <1>10 DEF new

\* The policy knows every shape the detector tells.
LEMMA ClassifyType == \A ts : Policy[Detector!Classify(ts)] \in Needed
<1>1. \A ts : Detector!Classify(ts) \in Detector!Shapes
  BY DEF Detector!Classify, Detector!ShapeOf, Detector!Shapes
<1>2. QED
  BY <1>1 DEF Needed

-----------------------------------------------------------------------------
(* Types.                                                                  *)

\* A log is finite.
LEMMA LogFinite ==
  ASSUME NEW log \in SUBSET [t : Time, n : -Limit..MaxCalls]
  PROVE  IsFiniteSet(log) /\ Cardinality(log) \in Nat
<1> DEFINE R == [t : Time, n : -Limit..MaxCalls]
           P == Time \X (-Limit..MaxCalls)
           f == [r \in R |-> <<r.t, r.n>>]
<1>1. IsFiniteSet(Time) /\ IsFiniteSet(-Limit..MaxCalls)
  BY FS_Interval, MaxTimeAssumption, ConfigAssumption, AdaptiveAssumption DEF Time
<1>2. IsFiniteSet(P)
  BY <1>1, FS_Product
<1>3. f \in [R -> P]
  OBVIOUS
<1>4. \A r, s \in R : f[r] = f[s] => r = s
  OBVIOUS
<1>5. f \in Injection(R, P)
  <2> HIDE DEF f, R, P
  <2>1. QED
    BY <1>3, <1>4, Fun_IsInj
<1>6. IsFiniteSet(R)
  <2> HIDE DEF f, R, P
  <2>1. QED
    BY <1>2, <1>5, FS_Injection
<1>7. QED
  BY <1>6, FS_Subset, FS_CardinalityType

\* The policy names algorithms only.
LEMMA NeededType == Needed \subseteq Algos /\ None \notin Needed
BY AdaptiveAssumption DEF Needed

\* The step of any algorithm returns an entry of its own type, and a verdict.
LEMMA StepOfType ==
  ASSUME TypeOK, NEW a \in Needed, NEW t \in Time, NextNumber \in 1..MaxCalls
  PROVE  /\ StepOf(a, t).entry \in EntriesOf(a)
         /\ StepOf(a, t).allowed \in BOOLEAN
<1>1. /\ t \in Int /\ a \in Algos /\ entries[a] \in EntriesOf(a)
      /\ NextNumber \in Nat
  BY NeededType, AdaptiveAssumption, MaxTimeAssumption DEF TypeOK, Time
<1>2. CASE a = "fixed_window"
  <2>1. entries[a] \in FixedWindowEntry \cup {None}
    BY <1>1, <1>2 DEF EntriesOf
  <2>2. StepOf(a, t) = FixedWindowOp(entries[a], t)
    BY <1>2 DEF StepOf
  <2>3. QED
    BY <1>1, <1>2, <2>1, <2>2, FixedWindowStep DEF EntriesOf
<1>3. CASE a = "sliding_window_log"
  <2> PICK log \in SUBSET [t : Time, n : -Limit..MaxCalls] : log = entries[a]
    BY <1>1, <1>3 DEF EntriesOf
  <2> PICK n \in 1..MaxCalls : n = NextNumber
    OBVIOUS
  <2>1. Kept(log, t) \in SUBSET [t : Time, n : -Limit..MaxCalls]
    BY DEF Kept
  <2>2. Cardinality(Kept(log, t)) \in Nat
    BY <2>1, LogFinite
  <2>3. StepOf(a, t) = SlidingLogOp(log, t, n)
    BY <1>3 DEF StepOf
  <2>4. [t |-> t, n |-> n] \in [t : Time, n : -Limit..MaxCalls]
    BY ConfigAssumption, AdaptiveAssumption
  <2>5. LET r == SlidingLogOp(log, t, n)
        IN  /\ r.allowed \in BOOLEAN
            /\ r.entry = IF r.allowed THEN Kept(log, t) \cup {[t |-> t, n |-> n]}
                                      ELSE Kept(log, t)
    BY <1>1, <2>2, SlidingLogStep
  <2>6. StepOf(a, t).entry \in SUBSET [t : Time, n : -Limit..MaxCalls]
    BY <2>1, <2>3, <2>4, <2>5
  <2>7. QED
    BY <1>3, <2>3, <2>5, <2>6 DEF EntriesOf
<1>4. CASE a = "sliding_window_counter"
  <2>1. entries[a] \in SlidingCounterEntry \cup {None}
    BY <1>1, <1>4 DEF EntriesOf
  <2>2. StepOf(a, t) = SlidingCounterOp(entries[a], t)
    BY <1>4 DEF StepOf
  <2>3. QED
    BY <1>1, <1>4, <2>1, <2>2, SlidingCounterStep DEF EntriesOf
<1>5. CASE a = "token_bucket"
  <2>1. entries[a] \in TokenBucketEntry \cup {None}
    BY <1>1, <1>5 DEF EntriesOf
  <2>2. StepOf(a, t) = TokenBucketOp(DefaultBucket, entries[a], t)
    BY <1>5 DEF StepOf
  <2>3. Window \in Nat \ {0} /\ Limit \in Nat /\ Limit * Window \in Nat
    BY ConfigAssumption
  <2>4. LET r == TokenBucketOp(DefaultBucket, entries[a], t)
        IN  r.allowed \in BOOLEAN /\ r.entry \in TokenBucketEntry
    BY <1>1, <2>1, <2>3, TokenBucketStep DEF DefaultBucket
  <2>5. QED
    BY <1>5, <2>2, <2>4 DEF EntriesOf
<1>6. QED
  BY <1>1, <1>2, <1>3, <1>4, <1>5 DEF Algos

\* So does priming.
LEMMA PrimedType ==
  ASSUME TypeOK, NEW a \in Needed, NEW t \in Time
  PROVE  Primed(a, t) \in EntriesOf(a)
<1>1. /\ t \in Int /\ entries[a] \in EntriesOf(a)
      /\ Limit \in Nat /\ MaxCalls \in Nat
  BY MaxTimeAssumption, ConfigAssumption, AdaptiveAssumption DEF TypeOK, Time
<1>2. CASE a = "sliding_window_log"
  <2>1. SlidingLogPrime(t) \subseteq [t : Time, n : -Limit..MaxCalls]
    BY <1>1 DEF SlidingLogPrime
  <2>2. QED
    BY <1>2, <2>1 DEF Primed, EntriesOf
<1>3. CASE a = "token_bucket"
  BY <1>1, <1>3 DEF Primed, EntriesOf, TokenBucketPrime, TokenBucketEntry
<1>4. CASE a # "sliding_window_log" /\ a # "token_bucket"
  BY <1>1, <1>4 DEF Primed
<1>5. QED
  BY <1>2, <1>3, <1>4

\* A call that has found or created its record has one to work on.
LEMMA AtWork ==
  ASSUME IInv, NEW w \in Workers, pc[w] \notin Homeless
  PROVE  /\ mine[w] \in Workers
         /\ Home[mine[w]] = Home[w]
         /\ St(w) \in ClientState
         /\ now[w] \in Time
         /\ WindowOf(now[w]) \in Int
<1>1. mine[w] # None /\ now[w] # None
  BY DEF IInv, TypeOK, Locals
<1>2. /\ mine[w] \in Workers /\ now[w] \in Time /\ Home[mine[w]] = Home[w]
      /\ records[mine[w]] # None
  BY <1>1 DEF IInv, TypeOK, FlowTypeOK, Locals
<1>3. now[w] \in Int
  BY <1>2, MaxTimeAssumption DEF Time
<1>4. WindowOf(now[w]) \in Int
  BY <1>3, WindowAndOffset
<1>5. QED
  BY <1>2, <1>4 DEF IInv, TypeOK, St

\* Replacing the record of w by another.
LEMMA SetStType ==
  ASSUME IInv, NEW w \in Workers, mine[w] \in Workers, NEW st \in ClientState, SetSt(w, st)
  PROVE  /\ records' \in [Workers -> ClientState \cup {None}]
         /\ records'[mine[w]] = st
         /\ \A v \in Workers : v # mine[w] => records'[v] = records[v]
         /\ \A v \in Workers : records[v] # None => records'[v] # None
<1>1. records \in [Workers -> ClientState \cup {None}] /\ st # None
  BY NoneIsNoClientState DEF IInv, TypeOK
<1>2. QED
  BY <1>1 DEF SetSt

\* A request that is admitted has been called for.
LEMMA NumberBounded ==
  ASSUME IInv, NEW w \in Workers, pc[w] # "idle"
  PROVE  NextNumber \in 1..MaxCalls
<1>1. w \in InFlight /\ IsFiniteSet(InFlight) /\ IsFiniteSet(admitted)
  BY DEF InFlight, IInv, CallsCounted, FlowInv
<1>2. Cardinality(InFlight) \in Nat /\ Cardinality(admitted) \in Nat
  BY <1>1, FS_CardinalityType
<1>3. Cardinality(InFlight) # 0
  BY <1>1, FS_EmptySet
<1>4. Cardinality(admitted) + Cardinality(InFlight) <= calls /\ calls \in 0..MaxCalls
  BY DEF IInv, CallsCounted, TypeOK
<1>5. QED
  BY <1>2, <1>3, <1>4, AdaptiveAssumption DEF NextNumber

-----------------------------------------------------------------------------
(* What the steps change.                                                  *)

\* Every step is of one of these kinds.
LEMMA Kinds ==
  ASSUME NEW w \in Workers, AllowRequest(w)
  PROVE  \/ Begin(w) \/ Lookup(w) \/ Create(w) \/ Observing(w) \/ Moving(w) \/ Noting(w)
         \/ ClassifyTraffic(w) \/ Switch(w) \/ Prime(w) \/ Route(w) \/ Execute(w)
         \/ Raising(w)
<1>1. LookAtHead(w) => Looking(w) \/ Raising(w)
  BY DEF LookAtHead, Looking, Raising
<1>2. Drop(w) => Dropping(w) \/ Raising(w)
  BY DEF Drop, Dropping, Raising
<1>3. ClassifyRaises(w) => Raising(w)
  BY DEF ClassifyRaises, Raising, Raise, Goto
<1>4. QED
  BY <1>1, <1>2, <1>3 DEF AllowRequest, Moving, Noting, Observing

\* What each kind leaves alone, and where it leads.
LEMMA MovingFrame ==
  ASSUME NEW w \in Workers, Moving(w)
  PROVE  /\ UNCHANGED <<flow, records, current, mine, picked, entries, calls, history>>
         /\ \/ Goto(w, "test", "check") \/ Goto(w, "test", "head")
            \/ Goto(w, "check", "claim") \/ Goto(w, "check", "route")
            \/ Goto(w, "compare", "again") \/ Goto(w, "compare", "anew")
            \/ Goto(w, "dwell", "switch") \/ Goto(w, "dwell", "route")
BY DEF Moving, Test, Check, Compare, Dwell

LEMMA NotingFrame ==
  ASSUME NEW w \in Workers, Noting(w)
  PROVE  /\ UNCHANGED <<flow, current, mine, picked, entries, calls, history>>
         /\ \/ Goto(w, "claim", "classify")
            \/ Goto(w, "decide", "compare") \/ Goto(w, "decide", "stay")
            \/ Goto(w, "stay", "route")
            \/ Goto(w, "again", "dwell") \/ Goto(w, "anew", "dwell")
            \/ Goto(w, "clear", "prime")
BY DEF Noting, Claim, Decide, Stay, CountAgain, CountAnew, Clear

LEMMA SwitchFrame ==
  ASSUME NEW w \in Workers, Switch(w)
  PROVE  /\ UNCHANGED <<flow, current, mine, picked, entries, calls, governed, settled,
                        latePrimes>>
         /\ Goto(w, "switch", "clear")
BY DEF Switch

LEMMA ObservingFrame ==
  ASSUME NEW w \in Workers, Observing(w)
  PROVE  /\ UNCHANGED <<flow, current, mine, picked, entries, calls, governed, switches,
                        latePrimes>>
         /\ ~ AppendArrival(w) => UNCHANGED settled
         /\ \/ Goto(w, "append", "test")
            \/ Goto(w, "head", "drop") \/ Goto(w, "head", "check")
            \/ Goto(w, "drop", "test")
<1>1. CASE AppendArrival(w)
  BY <1>1 DEF AppendArrival
<1>2. CASE Looking(w)
  BY <1>2 DEF Looking, LookAtHead, history
<1>3. CASE Dropping(w)
  BY <1>3 DEF Dropping, Drop, history
<1>4. QED
  BY <1>1, <1>2, <1>3 DEF Observing

LEMMA RaisingFrame ==
  ASSUME NEW w \in Workers, Raising(w)
  PROVE  /\ UNCHANGED <<clock, admitted, newest, late, records, current, picked, entries,
                        calls, history>>
         /\ now' = [now EXCEPT ![w] = None]
         /\ mine' = [mine EXCEPT ![w] = None]
         /\ pc' = [pc EXCEPT ![w] = "idle"]
         /\ pc[w] \in {"head", "drop", "classify"}
         /\ pc[w] = "drop" => St(w).ts = <<>>
BY DEF Raising, Raise, Goto

\* What is written to a record after the arrival is observed keeps its type and
\* its arrivals.
LEMMA RecordWritten ==
  ASSUME IInv, NEW w \in Workers, Noting(w) \/ Switch(w)
  PROVE  \E st \in ClientState : SetSt(w, st) /\ SameArrivals(st, St(w))
<1>1. pc[w] \in {"claim", "decide", "stay", "again", "anew", "switch", "clear"}
  BY NotingFrame, SwitchFrame DEF Goto
<1>2. /\ St(w) \in ClientState /\ WindowOf(now[w]) \in Int
      /\ pc[w] \in Naming => picked[w] \in Needed
  BY <1>1, AtWork DEF IInv, TypeOK, Locals
<1> PICK st : st = St(w)
  OBVIOUS
<1> PICK k \in Int : k = WindowOf(now[w])
  BY <1>2
<1>3. CASE Claim(w)
  <2> DEFINE new == [st EXCEPT !.lastCheck = k]
  <2>1. new \in ClientState /\ SameArrivals(new, st)
    BY <1>2 DEF ClientState, SameArrivals
  <2>2. SetSt(w, new)
    BY <1>3 DEF Claim
  <2>3. QED
    BY <2>1, <2>2
<1>4. CASE Decide(w)
  <2>1. picked[w] \in Needed /\ AskedSince(w) \in SUBSET Int
    BY <1>2, <1>4 DEF Decide, Goto, AskedSince, ClientState
  <2> PICK a \in Needed \cup {None}, since \in SUBSET Int :
        /\ a = IF picked[w] # St(w).active THEN picked[w] ELSE None
        /\ since = IF picked[w] # St(w).active THEN AskedSince(w) ELSE {}
    BY <2>1
  <2> DEFINE new == [st EXCEPT !.asked = a, !.since = since]
  <2>2. new \in ClientState /\ SameArrivals(new, st)
    BY <1>2 DEF ClientState, SameArrivals
  <2>3. SetSt(w, new)
    BY <1>4 DEF Decide
  <2>4. QED
    BY <2>2, <2>3
<1>5. CASE Stay(w) \/ Clear(w)
  <2> DEFINE new == [st EXCEPT !.pending = None, !.count = 0]
  <2>1. new \in ClientState /\ SameArrivals(new, st)
    BY <1>2 DEF ClientState, SameArrivals
  <2>2. SetSt(w, new)
    BY <1>5 DEF Stay, Clear
  <2>3. QED
    BY <2>1, <2>2
<1>6. CASE CountAgain(w)
  <2> DEFINE new == [st EXCEPT !.count = @ + 1]
  <2>1. new \in ClientState /\ SameArrivals(new, st)
    BY <1>2 DEF ClientState, SameArrivals
  <2>2. SetSt(w, new)
    BY <1>6 DEF CountAgain
  <2>3. QED
    BY <2>1, <2>2
<1>7. CASE CountAnew(w)
  <2> DEFINE new == [st EXCEPT !.pending = picked[w], !.count = 1]
  <2>1. picked[w] \in Needed
    BY <1>2, <1>7 DEF CountAnew, Goto
  <2>2. new \in ClientState /\ SameArrivals(new, st)
    BY <1>2, <2>1 DEF ClientState, SameArrivals
  <2>3. SetSt(w, new)
    BY <1>7 DEF CountAnew
  <2>4. QED
    BY <2>2, <2>3
<1>8. CASE Switch(w)
  <2> DEFINE new == [st EXCEPT !.active = picked[w]]
  <2>1. picked[w] \in Needed
    BY <1>2, <1>8 DEF Switch, Goto
  <2>2. new \in ClientState /\ SameArrivals(new, st)
    BY <1>2, <2>1 DEF ClientState, SameArrivals
  <2>3. SetSt(w, new)
    BY <1>8 DEF Switch
  <2>4. QED
    BY <2>2, <2>3
<1>9. QED
  BY <1>3, <1>4, <1>5, <1>6, <1>7, <1>8 DEF Noting

\* An observation keeps the type of the record and the selection; and this is
\* what it makes of the arrivals.
LEMMA ArrivalsWritten ==
  ASSUME IInv, NEW w \in Workers, Observing(w)
  PROVE  \E st \in ClientState :
           /\ SetSt(w, st)
           /\ SameSelection(st, St(w))
           /\ AppendArrival(w) =>
                /\ st.ts = Append(St(w).ts, now[w])
                /\ st.latest = IF now[w] > St(w).latest THEN now[w] ELSE St(w).latest
                /\ st.contested = St(w).contested
           /\ Looking(w) =>
                /\ st.ts = St(w).ts /\ st.latest = St(w).latest
                /\ st.contested = St(w).contested
                     + IF HeadIsOld(w) /\ AnotherAt(w, {"drop"}) THEN 1 ELSE 0
           /\ Dropping(w) =>
                /\ st.ts = Tail(St(w).ts) /\ st.latest = St(w).latest
                /\ st.contested = St(w).contested
<1>1. pc[w] \in {"append", "head", "drop"}
  BY ObservingFrame DEF Goto
<1>2. St(w) \in ClientState /\ now[w] \in Time
  BY <1>1, AtWork
<1> PICK st : st = St(w)
  OBVIOUS
<1>3. st.ts \in Seq(Time) /\ st.latest \in Time \cup {-1} /\ st.contested \in Nat
  BY <1>2 DEF ClientState
<1>4. CASE AppendArrival(w)
  <2> DEFINE new == [st EXCEPT !.ts = Append(@, now[w]),
                               !.latest = IF now[w] > @ THEN now[w] ELSE @]
  <2>1. Append(st.ts, now[w]) \in Seq(Time)
    BY <1>2, <1>3
  <2>2. new \in ClientState /\ SameSelection(new, st)
    BY <1>2, <1>3, <2>1 DEF ClientState, SameSelection
  <2>3. /\ new.ts = Append(st.ts, now[w]) /\ new.contested = st.contested
        /\ new.latest = IF now[w] > st.latest THEN now[w] ELSE st.latest
    BY <1>2 DEF ClientState
  <2>4. SetSt(w, new) /\ ~ Looking(w) /\ ~ Dropping(w)
    BY <1>4 DEF AppendArrival, Looking, LookAtHead, Dropping, Drop, Goto
  <2>5. QED
    BY <2>2, <2>3, <2>4
<1>5. CASE Looking(w)
  <2> PICK k \in Nat :
        k = st.contested + IF HeadIsOld(w) /\ AnotherAt(w, {"drop"}) THEN 1 ELSE 0
    BY <1>3
  <2> DEFINE new == [st EXCEPT !.contested = k]
  <2>1. new \in ClientState /\ SameSelection(new, st)
    BY <1>2 DEF ClientState, SameSelection
  <2>2. new.ts = st.ts /\ new.latest = st.latest /\ new.contested = k
    BY <1>2 DEF ClientState
  <2>3. SetSt(w, new) /\ ~ AppendArrival(w) /\ ~ Dropping(w)
    BY <1>5 DEF AppendArrival, Looking, LookAtHead, Dropping, Drop, Goto
  <2>4. QED
    BY <2>1, <2>2, <2>3
<1>6. CASE Dropping(w)
  <2> DEFINE new == [st EXCEPT !.ts = Tail(@)]
  <2>1. Tail(st.ts) \in Seq(Time)
    BY <1>3, <1>6 DEF Dropping
  <2>2. new \in ClientState /\ SameSelection(new, st)
    BY <1>2, <2>1 DEF ClientState, SameSelection
  <2>3. /\ new.ts = Tail(st.ts) /\ new.contested = st.contested
        /\ new.latest = st.latest
    BY <1>2 DEF ClientState
  <2>4. SetSt(w, new) /\ ~ AppendArrival(w) /\ ~ Looking(w)
    BY <1>6 DEF AppendArrival, Looking, LookAtHead, Dropping, Drop, Goto
  <2>5. QED
    BY <2>2, <2>3, <2>4
<1>7. QED
  BY <1>4, <1>5, <1>6 DEF Observing

-----------------------------------------------------------------------------
(* The steps, for any number of threads and processes.                     *)

\* A verdict of the algorithm is one that the flow knows.
LEMMA ExecuteResponds ==
  ASSUME IInv, NEW w \in Workers, Execute(w)
  PROVE  LET result == StepOf(picked[w], now[w])
         IN  /\ picked[w] \in Needed /\ now[w] \in Time /\ now[w] # None
             /\ result.allowed \in BOOLEAN
             /\ result.entry \in EntriesOf(picked[w])
             /\ entries' = [entries EXCEPT ![picked[w]] = result.entry]
             /\ Respond(w, result.allowed)
<1>1. pc[w] = "execute"
  BY DEF Execute, Goto
<1>2. picked[w] \in Needed /\ now[w] \in Time /\ now[w] # None
  BY <1>1, AtWork DEF IInv, TypeOK, Locals
<1>3. NextNumber \in 1..MaxCalls
  BY <1>1, NumberBounded
<1>4. TypeOK
  BY DEF IInv
<1>5. /\ StepOf(picked[w], now[w]).allowed \in BOOLEAN
      /\ StepOf(picked[w], now[w]).entry \in EntriesOf(picked[w])
  BY <1>2, <1>3, <1>4, StepOfType
<1>6. QED
  BY <1>2, <1>5 DEF Execute

\* The flow's invariant is kept by every step.
LEMMA FlowStep ==
  ASSUME IInv, NEW w \in Workers, AllowRequest(w)
  PROVE  FlowInv'
<1>0. FlowInv
  BY DEF IInv
<1>1. CASE Begin(w)
  BY <1>0, <1>1, ClockStepInv DEF Begin
<1>2. CASE Execute(w)
  BY <1>0, <1>2, ExecuteResponds, RespondInv
<1>3. CASE Raising(w)
  BY <1>0, <1>3, RaisingFrame DEF FlowInv, FlowTypeOK
<1>4. CASE UNCHANGED flow
  BY <1>0, <1>4, ClockStepInv
<1>5. QED
  BY <1>1, <1>2, <1>3, <1>4, Kinds, MovingFrame, NotingFrame, SwitchFrame, ObservingFrame
     DEF Lookup, Create, ClassifyTraffic, Prime, Route

\* A record is created in its initial state.
LEMMA CreatedType ==
  ASSUME IInv, NEW w \in Workers, pc[w] = "create"
  PROVE  [ts |-> <<>>, active |-> Policy["warmup"], lastCheck |-> WindowOf(now[w]),
          pending |-> None, count |-> 0,
          asked |-> None, since |-> {}, latest |-> -1, contested |-> 0] \in ClientState
<1>1. now[w] \in Int
  BY MaxTimeAssumption DEF IInv, TypeOK, FlowTypeOK, Locals, Time
<1>2. WindowOf(now[w]) \in Int
  BY <1>1, WindowAndOffset
<1>3. Policy["warmup"] \in Needed
  BY DEF Needed, Detector!Shapes
<1>4. <<>> \in Seq(Time) /\ {} \in SUBSET Int
  OBVIOUS
<1>5. QED
  BY <1>2, <1>3, <1>4 DEF ClientState

\* Creating a record leaves the others alone.
LEMMA CreatedRecord ==
  ASSUME IInv, NEW w \in Workers, Create(w)
  PROVE  /\ records' \in [Workers -> ClientState \cup {None}]
         /\ records[w] = None /\ records'[w] # None
         /\ records'[w].ts = <<>> /\ records'[w].contested = 0
         /\ \A v \in Workers \ {w} : records'[v] = records[v]
<1> PICK st : st = [ts |-> <<>>, active |-> Policy["warmup"], lastCheck |-> WindowOf(now[w]),
                    pending |-> None, count |-> 0,
                    asked |-> None, since |-> {}, latest |-> -1, contested |-> 0]
  OBVIOUS
<1>1. st \in ClientState /\ st.ts = <<>> /\ st.contested = 0 /\ st # None
  BY CreatedType, NoneIsNoClientState DEF Create, Goto
<1>2. records' = [records EXCEPT ![w] = st] /\ records \in [Workers -> ClientState \cup {None}]
  BY DEF Create, IInv, TypeOK
<1>3. records[w] = None
  BY DEF Create, Goto, IInv, Fresh
<1>4. QED
  BY <1>1, <1>2, <1>3

\* No record is ever deleted, only an observation changes its arrivals, and the
\* newest of them is replaced by a newer one.
LEMMA RecordsKept ==
  ASSUME IInv, NEW w \in Workers, AllowRequest(w), NEW v \in Workers, records[v] # None
  PROVE  /\ records'[v] # None
         /\ records'[v].latest >= records[v].latest
         /\ ~ (Observing(w) /\ mine[w] = v) => SameArrivals(records'[v], records[v])
<1>0. records[v].latest \in Int
  BY MaxTimeAssumption DEF IInv, TypeOK, ClientState, Time
<1>1. CASE Create(w)
  <2>1. v # w /\ records'[v] = records[v]
    BY <1>1, CreatedRecord
  <2>2. QED
    BY <2>1, <1>0 DEF SameArrivals
<1>2. CASE Observing(w)
  <2>1. mine[w] \in Workers /\ now[w] \in Time
    BY <1>2, ObservingFrame, AtWork DEF Goto
  <2>2. PICK st \in ClientState :
          /\ SetSt(w, st)
          /\ AppendArrival(w) =>
               st.latest = IF now[w] > St(w).latest THEN now[w] ELSE St(w).latest
          /\ Looking(w) \/ Dropping(w) => st.latest = St(w).latest
    BY <1>2, ArrivalsWritten
  <2>3. /\ records'[mine[w]] = st /\ records'[v] # None
        /\ v # mine[w] => records'[v] = records[v]
    BY <2>1, <2>2, SetStType
  <2>4. CASE v = mine[w]
    <3>1. records[v] = St(w) /\ records'[v] = st /\ now[w] \in Int
      BY <2>1, <2>3, <2>4, MaxTimeAssumption DEF St, Time
    <3>2. st.latest >= St(w).latest
      BY <1>0, <1>2, <2>2, <3>1 DEF Observing
    <3>3. QED
      BY <1>2, <2>3, <2>4, <3>1, <3>2
  <2>5. CASE v # mine[w]
    BY <1>0, <2>3, <2>5 DEF SameArrivals
  <2>6. QED
    BY <2>4, <2>5
<1>3. CASE Noting(w) \/ Switch(w)
  <2>1. mine[w] \in Workers
    BY <1>3, NotingFrame, SwitchFrame, AtWork DEF Goto
  <2>2. PICK st \in ClientState : SetSt(w, st) /\ SameArrivals(st, St(w))
    BY <1>3, RecordWritten
  <2>3. /\ records'[mine[w]] = st /\ records'[v] # None
        /\ v # mine[w] => records'[v] = records[v]
    BY <2>1, <2>2, SetStType
  <2>4. SameArrivals(records'[v], records[v])
    BY <2>2, <2>3 DEF SameArrivals, St
  <2>5. QED
    BY <1>0, <2>3, <2>4 DEF SameArrivals
<1>4. CASE UNCHANGED records
  BY <1>0, <1>4 DEF SameArrivals
<1>5. QED
  BY <1>1, <1>2, <1>3, <1>4, Kinds, MovingFrame, RaisingFrame
     DEF Begin, Lookup, ClassifyTraffic, Prime, Route, Execute

\* Every step keeps the types.
LEMMA TypeStep ==
  ASSUME IInv, NEW w \in Workers, AllowRequest(w)
  PROVE  TypeOK'
<1>0. /\ TypeOK /\ FlowTypeOK' /\ Policy \in [Detector!Shapes -> Algos]
      /\ Home \in [Workers -> Instances] /\ MaxCalls \in Nat
      /\ pc \in [Workers -> Points]
  BY FlowStep, AdaptiveAssumption DEF IInv, FlowInv, TypeOK
<1>k. \/ Begin(w) \/ Lookup(w) \/ Create(w) \/ Observing(w) \/ Moving(w) \/ Noting(w)
      \/ ClassifyTraffic(w) \/ Switch(w) \/ Prime(w) \/ Route(w) \/ Execute(w)
      \/ Raising(w)
  BY Kinds
<1>pc. pc' \in [Workers -> Points]
  BY <1>k, <1>0, MovingFrame, NotingFrame, SwitchFrame, ObservingFrame, RaisingFrame
     DEF Begin, Lookup, Create, ClassifyTraffic, Prime, Route, Execute, Goto
<1>rec. records' \in [Workers -> ClientState \cup {None}]
  <2>1. CASE Create(w)
    BY <2>1, CreatedRecord
  <2>2. CASE Observing(w) \/ Noting(w) \/ Switch(w)
    <3>1. mine[w] \in Workers
      BY <2>2, ObservingFrame, NotingFrame, SwitchFrame, AtWork DEF Goto
    <3>2. \E st \in ClientState : SetSt(w, st)
      BY <2>2, ArrivalsWritten, RecordWritten
    <3>3. QED
      BY <3>1, <3>2, SetStType
  <2>3. CASE UNCHANGED records
    BY <2>3, <1>0 DEF TypeOK
  <2>4. QED
    BY <2>1, <2>2, <2>3, <1>k, MovingFrame, RaisingFrame
       DEF Begin, Lookup, ClassifyTraffic, Prime, Route, Execute
<1>cur. current' \in [Instances -> Workers \cup {None}]
  <2>1. CASE Create(w)
    BY <2>1, <1>0 DEF Create, TypeOK
  <2>2. CASE UNCHANGED current
    BY <2>2, <1>0 DEF TypeOK
  <2>3. QED
    BY <2>1, <2>2, <1>k, MovingFrame, NotingFrame, SwitchFrame, ObservingFrame, RaisingFrame
       DEF Begin, Lookup, ClassifyTraffic, Prime, Route, Execute
<1>min. mine' \in [Workers -> Workers \cup {None}]
  <2>1. CASE Lookup(w) \/ Create(w) \/ Execute(w) \/ Raising(w)
    BY <2>1, <1>0, RaisingFrame DEF Lookup, Create, Execute, TypeOK
  <2>2. CASE UNCHANGED mine
    BY <2>2, <1>0 DEF TypeOK
  <2>3. QED
    BY <2>1, <2>2, <1>k, MovingFrame, NotingFrame, SwitchFrame, ObservingFrame
       DEF Begin, ClassifyTraffic, Prime, Route
<1>pic. picked' \in [Workers -> Needed \cup {None}]
  <2>1. CASE ClassifyTraffic(w)
    <3>1. Policy[Detector!Classify(St(w).ts)] \in Needed
      BY ClassifyType
    <3>2. QED
      BY <2>1, <3>1, <1>0 DEF ClassifyTraffic, TypeOK
  <2>2. CASE Route(w)
    <3>1. St(w) \in ClientState
      BY <2>2, AtWork DEF Route, Goto
    <3>2. QED
      BY <2>2, <3>1, <1>0 DEF Route, TypeOK, ClientState
  <2>3. CASE Execute(w) \/ UNCHANGED picked
    BY <2>3, <1>0 DEF Execute, TypeOK
  <2>4. QED
    BY <2>1, <2>2, <2>3, <1>k, MovingFrame, NotingFrame, SwitchFrame, ObservingFrame,
       RaisingFrame DEF Begin, Lookup, Create, Prime
<1>ent. DOMAIN entries' = Needed /\ \A a \in Needed : entries'[a] \in EntriesOf(a)
  <2>1. CASE Prime(w)
    <3>1. picked[w] \in Needed /\ now[w] \in Time
      BY <2>1, AtWork DEF Prime, Goto, IInv, TypeOK, Locals
    <3>2. Primed(picked[w], now[w]) \in EntriesOf(picked[w])
      BY <3>1, <1>0, PrimedType
    <3>3. QED
      BY <2>1, <3>1, <3>2, <1>0 DEF Prime, TypeOK
  <2>2. CASE Execute(w)
    BY <2>2, <1>0, ExecuteResponds DEF TypeOK
  <2>3. CASE UNCHANGED entries
    BY <2>3, <1>0 DEF TypeOK
  <2>4. QED
    BY <2>1, <2>2, <2>3, <1>k, MovingFrame, NotingFrame, SwitchFrame, ObservingFrame,
       RaisingFrame DEF Begin, Lookup, Create, ClassifyTraffic, Route
<1>cal. calls' \in 0..MaxCalls
  <2>1. CASE Begin(w)
    BY <2>1, <1>0 DEF Begin, TypeOK
  <2>2. CASE UNCHANGED calls
    BY <2>2, <1>0 DEF TypeOK
  <2>3. QED
    BY <2>1, <2>2, <1>k, MovingFrame, NotingFrame, SwitchFrame, ObservingFrame, RaisingFrame
       DEF Lookup, Create, ClassifyTraffic, Prime, Route, Execute
<1>set. settled' \in [Instances -> [Time -> 0..MaxCalls]]
  <2>1. CASE AppendArrival(w)
    <3>1. now[w] \in Time /\ pc[w] = "append"
      BY <2>1, AtWork DEF AppendArrival, Goto
    <3>2. settled[Home[w]][now[w]] + 1 \in 0..MaxCalls
      <4>1. w \in Unobserved /\ Unobserved \subseteq InFlight
        BY <3>1 DEF Unobserved, InFlight
      <4>2. IsFiniteSet(Unobserved)
        BY <4>1, FS_Subset DEF IInv, CallsCounted
      <4>3. Cardinality(Unobserved) \in Nat \ {0}
        BY <4>1, <4>2, FS_CardinalityType, FS_EmptySet
      <4>4. settled[Home[w]][now[w]] + Cardinality(Unobserved) <= calls
        BY <3>1, <1>0 DEF IInv, CallsCounted
      <4>5. settled[Home[w]][now[w]] \in 0..MaxCalls /\ calls \in 0..MaxCalls
        BY <3>1, <1>0 DEF TypeOK
      <4>6. QED
        BY <4>3, <4>4, <4>5, <1>0
    <3>3. CASE UNCHANGED settled
      BY <3>3, <1>0 DEF TypeOK
    <3>4. CASE settled' = [settled EXCEPT ![Home[w]][now[w]] = @ + 1]
      BY <3>1, <3>2, <3>4, <1>0 DEF TypeOK
    <3>5. QED
      BY <2>1, <3>3, <3>4 DEF AppendArrival
  <2>2. CASE UNCHANGED settled
    BY <2>2, <1>0 DEF TypeOK
  <2>3. QED
    BY <2>1, <2>2, <1>k, MovingFrame, NotingFrame, SwitchFrame, ObservingFrame, RaisingFrame
       DEF Begin, Lookup, Create, ClassifyTraffic, Prime, Route, Execute, history
<1>lp. latePrimes' \in Nat
  <2>1. CASE Prime(w)
    BY <2>1, <1>0 DEF Prime, TypeOK
  <2>2. CASE UNCHANGED latePrimes
    BY <2>2, <1>0 DEF TypeOK
  <2>3. QED
    BY <2>1, <2>2, <1>k, MovingFrame, NotingFrame, SwitchFrame, ObservingFrame, RaisingFrame
       DEF Begin, Lookup, Create, ClassifyTraffic, Route, Execute, history
<1>q. QED
  BY <1>0, <1>pc, <1>rec, <1>cur, <1>min, <1>pic, <1>ent, <1>cal, <1>set, <1>lp DEF TypeOK

\* A step of w leaves the locals of the others alone.
LEMMA OnlyOwnLocals ==
  ASSUME IInv, NEW w \in Workers, AllowRequest(w), NEW v \in Workers \ {w}
  PROVE  /\ pc'[v] = pc[v] /\ now'[v] = now[v]
         /\ mine'[v] = mine[v] /\ picked'[v] = picked[v]
<1>0. /\ pc \in [Workers -> Points] /\ now \in [Workers -> Time \cup {None}]
      /\ mine \in [Workers -> Workers \cup {None}]
      /\ picked \in [Workers -> Needed \cup {None}]
  BY DEF IInv, TypeOK, FlowTypeOK
<1>1. CASE Begin(w) \/ Lookup(w) \/ Create(w) \/ ClassifyTraffic(w) \/ Prime(w) \/ Route(w)
             \/ Execute(w)
  BY <1>0, <1>1 DEF Begin, Lookup, Create, ClassifyTraffic, Prime, Route, Execute, Goto,
                    ReadClock, Respond, flow
<1>2. CASE Moving(w) \/ Noting(w) \/ Switch(w) \/ Observing(w) \/ Raising(w)
  BY <1>0, <1>2, MovingFrame, NotingFrame, SwitchFrame, ObservingFrame, RaisingFrame
     DEF Goto, flow
<1>3. QED
  BY <1>1, <1>2, Kinds

\* The locals stay what the point of the call says.
LEMMA LocalsStep ==
  ASSUME IInv, NEW w \in Workers, AllowRequest(w), NEW v \in Workers
  PROVE  Locals(v)'
<1>0. /\ TypeOK /\ TypeOK' /\ Locals(v) /\ Locals(w) /\ None \notin Workers /\ None \notin Int
      /\ None \notin Needed /\ Time \subseteq Int
  BY TypeStep, AdaptiveAssumption, ConfigAssumption, MaxTimeAssumption, NeededType
     DEF IInv, Time
<1>1. \A u \in Workers : records[u] # None =>
        records'[u] # None /\ records'[u].latest >= records[u].latest
  BY RecordsKept
<1>l. \A u \in Workers : /\ records[u] # None => records[u].latest \in Int
                         /\ records'[u] # None => records'[u].latest \in Int
  <2>1. \A st \in ClientState : st.latest \in Int
    BY MaxTimeAssumption DEF ClientState, Time
  <2>2. QED
    BY <2>1, <1>0 DEF TypeOK
<1>2. CASE v # w
  <2>1. /\ pc'[v] = pc[v] /\ now'[v] = now[v]
        /\ mine'[v] = mine[v] /\ picked'[v] = picked[v]
    BY <1>2, OnlyOwnLocals
  <2>2. mine[v] # None => mine[v] \in Workers
    BY <1>0 DEF TypeOK
  <2>3. now[v] # None => now[v] \in Int
    BY <1>0 DEF TypeOK, FlowTypeOK
  <2>4. QED
    BY <2>1, <2>2, <2>3, <1>0, <1>1, <1>l DEF Locals
<1>3. CASE v = w
  <2>0. /\ pc \in [Workers -> Points]
        /\ now \in [Workers -> Time \cup {None}] /\ mine \in [Workers -> Workers \cup {None}]
        /\ picked \in [Workers -> Needed \cup {None}]
        /\ clock \in Time
    BY <1>0 DEF TypeOK, FlowTypeOK
  <2>m. mine[w] # None => mine[w] \in Workers
    BY <2>0
  <2>1. CASE Begin(w)
    BY <2>1, <2>0, <1>0, <1>3 DEF Begin, Goto, ReadClock, Locals
  <2>2. CASE Lookup(w)
    <3>1. current[Home[w]] # None => /\ Home[current[Home[w]]] = Home[w]
                                     /\ records[current[Home[w]]] # None
      BY AdaptiveAssumption DEF IInv, Owned
    <3>2. mine'[w] = current[Home[w]] /\ UNCHANGED <<records, now, picked>>
      BY <2>2, <2>0 DEF Lookup, flow
    <3>3. pc'[w] = IF mine'[w] = None THEN "create" ELSE "append"
      BY <2>2, <2>0 DEF Lookup, Goto
    <3>4. pc[w] = "lookup"
      BY <2>2 DEF Lookup, Goto
    <3>5. QED
      BY <3>1, <3>2, <3>3, <3>4, <1>0, <1>3 DEF Locals
  <2>3. CASE Create(w)
    <3>1. records'[w] # None
      BY <2>3, CreatedRecord
    <3>2. QED
      BY <2>3, <3>1, <2>0, <1>0, <1>3 DEF Create, Goto, Locals, flow
  <2>4. CASE Raising(w)
    BY <2>4, <2>0, <1>0, <1>3, RaisingFrame DEF Locals
  <2>5. CASE Execute(w)
    BY <2>5, <2>0, <1>0, <1>3 DEF Execute, Goto, Respond, Locals
  <2>6. CASE ClassifyTraffic(w)
    <3>1. Policy[Detector!Classify(St(w).ts)] \in Needed
      BY ClassifyType
    <3>2. QED
      BY <2>6, <3>1, <2>0, <2>m, <1>0, <1>1, <1>3 DEF ClassifyTraffic, Goto, Locals, flow
  <2>7. CASE Route(w)
    <3>1. St(w).active \in Needed
      BY <2>7, AtWork DEF Route, Goto, ClientState
    <3>2. QED
      BY <2>7, <3>1, <2>0, <2>m, <1>0, <1>1, <1>3 DEF Route, Goto, Locals, flow
  <2>8. CASE Observing(w)
    <3>1. /\ UNCHANGED <<now, mine, picked>>
          /\ pc[w] \in {"append", "head", "drop"}
          /\ pc'[w] \in {"test", "drop", "check"}
      BY <2>8, <2>0, ObservingFrame DEF Goto, flow
    <3>2. pc'[w] \in Looping => now[w] <= records'[mine[w]].latest
      <4>1. CASE AppendArrival(w)
        <5>1. mine[w] \in Workers /\ now[w] \in Time /\ St(w).latest \in Int
          BY <4>1, <3>1, <1>0, AtWork DEF AppendArrival, Goto, ClientState
        <5>2. PICK st \in ClientState :
                /\ SetSt(w, st)
                /\ st.latest = IF now[w] > St(w).latest THEN now[w] ELSE St(w).latest
          BY <2>8, <4>1, ArrivalsWritten
        <5>3. records'[mine[w]] = st
          BY <5>1, <5>2, SetStType
        <5>4. now[w] \in Int /\ now[w] <= st.latest
          BY <5>1, <5>2, MaxTimeAssumption DEF Time
        <5>5. QED
          BY <5>3, <5>4
      <4>2. CASE ~ AppendArrival(w)
        <5>1. pc[w] \in {"head", "drop"}
          BY <2>8, <4>2 DEF Observing, Looking, LookAtHead, Dropping, Drop, Goto
        <5>2. now[w] \in Int /\ mine[w] \in Workers
          BY <5>1, <1>0, AtWork
        <5>3. QED
          BY <5>1, <5>2, <1>0, <1>1, <1>l DEF Locals
      <4>3. QED
        BY <4>1, <4>2
    <3>3. QED
      BY <3>1, <3>2, <2>m, <1>0, <1>1, <1>3 DEF Locals
  <2>9. CASE Moving(w) \/ Noting(w) \/ Switch(w) \/ Prime(w)
    <3>1. UNCHANGED <<now, mine, picked>>
      BY <2>9, MovingFrame, NotingFrame, SwitchFrame DEF Prime, flow
    <3>2. /\ pc[w] \notin Homeless /\ pc'[w] \notin Homeless
          /\ pc'[w] \in Naming => pc[w] \in Naming
          /\ pc'[w] \in Looping => pc[w] \in Looping
      BY <2>9, <2>0, MovingFrame, NotingFrame, SwitchFrame DEF Prime, Goto
    <3>3. now[w] \in Int /\ mine[w] \in Workers
      BY <3>2, <1>0, AtWork
    <3>4. QED
      BY <3>1, <3>2, <3>3, <1>0, <1>1, <1>l, <1>3 DEF Locals
  <2>10. QED
    BY <2>1, <2>2, <2>3, <2>4, <2>5, <2>6, <2>7, <2>8, <2>9, Kinds
<1>4. QED
  BY <1>2, <1>3

\* Who has created a record does not come to create another.
LEMMA FreshStep ==
  ASSUME IInv, NEW w \in Workers, AllowRequest(w), NEW v \in Workers
  PROVE  Fresh(v)'
<1>0. /\ TypeOK /\ Fresh(v) /\ Home \in [Workers -> Instances] /\ None \notin Workers
      /\ pc \in [Workers -> Points]
      /\ current \in [Instances -> Workers \cup {None}]
      /\ mine \in [Workers -> Workers \cup {None}]
  BY AdaptiveAssumption DEF IInv, TypeOK
<1>1. CASE Create(w)
  <2>1. /\ current' = [current EXCEPT ![Home[w]] = w]
        /\ pc' = [pc EXCEPT ![w] = "append"]
        /\ \A u \in Workers \ {w} : records'[u] = records[u]
    BY <1>1, CreatedRecord DEF Create, Goto
  <2>2. QED
    BY <2>1, <1>0 DEF Fresh
<1>2. CASE Lookup(w)
  <2>1. UNCHANGED <<records, current>>
    BY <1>2 DEF Lookup
  <2>2. pc' = [pc EXCEPT ![w] = IF current[Home[w]] = None THEN "create" ELSE "append"]
    BY <1>0, <1>2 DEF Lookup, Goto
  <2>3. QED
    BY <2>1, <2>2, <1>0 DEF Fresh
<1>3. CASE Observing(w) \/ Noting(w) \/ Switch(w)
  <2>1. /\ UNCHANGED current
        /\ pc'[v] = "create" => pc[v] = "create"
    BY <1>0, <1>3, ObservingFrame, NotingFrame, SwitchFrame DEF Goto
  <2>2. records'[v] # None => records[v] # None
    <3>1. mine[w] \in Workers /\ records[mine[w]] # None
      BY <1>3, ObservingFrame, NotingFrame, SwitchFrame, AtWork, NoneIsNoClientState
         DEF Goto, St
    <3>2. \E st \in ClientState : SetSt(w, st)
      BY <1>3, ArrivalsWritten, RecordWritten
    <3>3. v # mine[w] => records'[v] = records[v]
      BY <3>1, <3>2, SetStType
    <3>4. QED
      BY <3>1, <3>3
  <2>3. QED
    BY <2>1, <2>2, <1>0 DEF Fresh
<1>4. CASE UNCHANGED <<records, current>> /\ (pc'[v] = "create" => pc[v] = "create")
  BY <1>0, <1>4 DEF Fresh
<1>5. CASE Begin(w) \/ Moving(w) \/ ClassifyTraffic(w) \/ Prime(w) \/ Route(w) \/ Execute(w)
           \/ Raising(w)
  <2>1. UNCHANGED <<records, current>> /\ (pc'[v] = "create" => pc[v] = "create")
    BY <1>0, <1>5, MovingFrame, RaisingFrame
       DEF Begin, ClassifyTraffic, Prime, Route, Execute, Goto
  <2>2. QED
    BY <1>4, <2>1
<1>6. QED
  BY <1>1, <1>2, <1>3, <1>5, Kinds

\* The calls stay counted.
LEMMA CallsStep ==
  ASSUME IInv, NEW w \in Workers, AllowRequest(w)
  PROVE  CallsCounted'
<1>0. /\ TypeOK /\ CallsCounted
      /\ pc \in [Workers -> Points]
      /\ settled \in [Instances -> [Time -> 0..MaxCalls]] /\ calls \in 0..MaxCalls
      /\ calls \in Int /\ \A i \in Instances : \A t \in Time : settled[i][t] \in Int
      /\ Home \in [Workers -> Instances]
  BY AdaptiveAssumption DEF IInv, TypeOK
<1>1. /\ IsFiniteSet(InFlight) /\ Cardinality(InFlight) \in Nat
      /\ IsFiniteSet(Unobserved) /\ Cardinality(Unobserved) \in Nat
      /\ IsFiniteSet(admitted) /\ Cardinality(admitted) \in Nat
  <2>1. Unobserved \subseteq InFlight
    BY DEF Unobserved, InFlight
  <2>2. QED
    BY <2>1, <1>0, FS_Subset, FS_CardinalityType DEF CallsCounted, IInv, FlowInv
<1>2. /\ Cardinality(admitted) + Cardinality(InFlight) <= calls
      /\ \A i \in Instances : \A t \in Time : settled[i][t] + Cardinality(Unobserved) <= calls
  BY <1>0 DEF CallsCounted
<1>3. CASE Begin(w)
  <2>1. /\ pc[w] = "idle" /\ pc' = [pc EXCEPT ![w] = "lookup"] /\ calls' = calls + 1
        /\ UNCHANGED <<admitted, settled>>
    BY <1>3 DEF Begin, Goto, ReadClock, history
  <2>2. InFlight' = InFlight \cup {w} /\ Unobserved' = Unobserved \cup {w}
    BY <2>1, <1>0 DEF InFlight, Unobserved
  <2>3. /\ IsFiniteSet(InFlight') /\ Cardinality(InFlight') \in Nat
        /\ Cardinality(Unobserved') \in Nat
        /\ Cardinality(InFlight') <= Cardinality(InFlight) + 1
        /\ Cardinality(Unobserved') <= Cardinality(Unobserved) + 1
    BY <2>2, <1>1, CountNewRequest
  <2>4. Cardinality(admitted') + Cardinality(InFlight') <= calls'
    BY <2>1, <2>3, <1>0, <1>1, <1>2
  <2>5. \A i \in Instances : \A t \in Time : settled'[i][t] + Cardinality(Unobserved') <= calls'
    BY <2>1, <2>3, <1>0, <1>1, <1>2
  <2>6. QED
    BY <2>3, <2>4, <2>5 DEF CallsCounted
<1>4. CASE Raising(w) \/ Execute(w)
  <2>1. /\ pc[w] \in {"head", "drop", "classify", "execute"}
        /\ pc' = [pc EXCEPT ![w] = "idle"]
        /\ UNCHANGED <<calls, settled>>
    BY <1>4, RaisingFrame DEF Execute, Goto, history
  <2>2. InFlight' = InFlight \ {w} /\ Unobserved' = Unobserved /\ w \in InFlight
    BY <2>1, <1>0 DEF InFlight, Unobserved
  <2>3. IsFiniteSet(InFlight') /\ Cardinality(InFlight') = Cardinality(InFlight) - 1
    BY <2>2, <1>1, FS_RemoveElement
  <2>4. Cardinality(admitted') \in Nat /\ Cardinality(admitted') <= Cardinality(admitted) + 1
    <3>1. CASE Raising(w)
      BY <3>1, <1>1, RaisingFrame
    <3>2. CASE Execute(w)
      <4>1. admitted' = admitted \/ admitted' = admitted \cup {NewRequest(w)}
        BY <3>2, ExecuteResponds, RespondInv DEF IInv
      <4>2. QED
        BY <4>1, <1>1, CountNewRequest
    <3>3. QED
      BY <1>4, <3>1, <3>2
  <2>5. QED
    BY <2>1, <2>2, <2>3, <2>4, <1>0, <1>1, <1>2 DEF CallsCounted
<1>5. CASE AppendArrival(w)
  <2>1. /\ pc[w] = "append" /\ pc' = [pc EXCEPT ![w] = "test"]
        /\ UNCHANGED <<calls, admitted>> /\ now[w] \in Time
    BY <1>5, AtWork DEF AppendArrival, Goto, flow
  <2>2. InFlight' = InFlight /\ Unobserved' = Unobserved \ {w} /\ w \in Unobserved
    BY <2>1, <1>0 DEF InFlight, Unobserved
  <2>3. Cardinality(Unobserved') = Cardinality(Unobserved) - 1
    BY <2>2, <1>1, FS_RemoveElement
  <2>4. ASSUME NEW i \in Instances, NEW t \in Time
        PROVE  settled'[i][t] = settled[i][t] \/ settled'[i][t] = settled[i][t] + 1
    BY <2>1, <1>0, <1>5 DEF AppendArrival
  <2>5. ASSUME NEW i \in Instances, NEW t \in Time
        PROVE  settled'[i][t] + Cardinality(Unobserved') <= calls'
    BY <2>1, <2>3, <2>4, <1>0, <1>1, <1>2
  <2>6. QED
    BY <2>1, <2>2, <2>5, <1>1, <1>2 DEF CallsCounted
<1>6. CASE \/ Lookup(w) \/ Create(w) \/ (Observing(w) /\ ~ AppendArrival(w)) \/ Moving(w)
           \/ Noting(w) \/ ClassifyTraffic(w) \/ Switch(w) \/ Prime(w) \/ Route(w)
  <2>1. UNCHANGED <<admitted, calls, settled>>
    BY <1>6, ObservingFrame, MovingFrame, NotingFrame, SwitchFrame
       DEF Lookup, Create, ClassifyTraffic, Prime, Route, flow, history
  <2>2. /\ pc[w] # "idle" /\ pc'[w] # "idle"
        /\ pc[w] \in {"lookup", "create", "append"}
             <=> pc'[w] \in {"lookup", "create", "append"}
        /\ \A v \in Workers \ {w} : pc'[v] = pc[v]
    <3>1. CASE Observing(w) /\ ~ AppendArrival(w)
      <4>1. pc[w] # "append"
        BY <3>1 DEF Observing, Looking, LookAtHead, Dropping, Drop, Goto
      <4>2. QED
        BY <3>1, <4>1, <1>0, ObservingFrame DEF Goto
    <3>2. CASE Moving(w) \/ Noting(w) \/ Switch(w)
      BY <3>2, <1>0, MovingFrame, NotingFrame, SwitchFrame DEF Goto
    <3>3. CASE Lookup(w) \/ Create(w) \/ ClassifyTraffic(w) \/ Prime(w) \/ Route(w)
      BY <3>3, <1>0 DEF Lookup, Create, ClassifyTraffic, Prime, Route, Goto
    <3>4. QED
      BY <1>6, <3>1, <3>2, <3>3
  <2>3. InFlight' = InFlight /\ Unobserved' = Unobserved
    BY <2>2 DEF InFlight, Unobserved
  <2>4. QED
    BY <2>1, <2>3, <1>0 DEF CallsCounted
<1>7. QED
  BY <1>3, <1>4, <1>5, <1>6, Kinds

\* The record a process holds stays one of its own.
LEMMA OwnedStep ==
  ASSUME IInv, NEW w \in Workers, AllowRequest(w), NEW i \in Instances
  PROVE  Owned(i)'
<1>0. TypeOK /\ Owned(i) /\ Home \in [Workers -> Instances] /\ None \notin Workers
  BY AdaptiveAssumption DEF IInv
<1>1. \A u \in Workers : records[u] # None => records'[u] # None
  BY RecordsKept
<1>2. current[i] # None => current[i] \in Workers
  BY <1>0 DEF TypeOK
<1>3. CASE Create(w)
  <2>1. records'[w] # None
    BY <1>3, CreatedRecord
  <2>2. current' = [current EXCEPT ![Home[w]] = w] /\ current \in [Instances -> Workers \cup {None}]
    BY <1>0, <1>3 DEF Create, TypeOK
  <2>3. current'[i] = IF i = Home[w] THEN w ELSE current[i]
    BY <2>2
  <2>4. QED
    BY <2>1, <2>3, <1>0, <1>1, <1>2 DEF Owned
<1>4. CASE UNCHANGED current
  BY <1>0, <1>1, <1>2, <1>4 DEF Owned
<1>5. QED
  BY <1>3, <1>4, Kinds, MovingFrame, NotingFrame, SwitchFrame, ObservingFrame, RaisingFrame
     DEF Begin, Lookup, ClassifyTraffic, Prime, Route, Execute

\* Nothing is settled for a process as long as a record may be replaced: once
\* one is held, no call comes to create another.
LEMMA NothingSettledStep ==
  ASSUME IInv, NEW w \in Workers, AllowRequest(w), NEW i \in Instances
  PROVE  NothingSettled(i)'
<1>0. /\ TypeOK /\ NothingSettled(i) /\ Home \in [Workers -> Instances] /\ None \notin Workers
      /\ pc \in [Workers -> Points]
      /\ current \in [Instances -> Workers \cup {None}]
      /\ settled \in [Instances -> [Time -> 0..MaxCalls]]
      /\ mine \in [Workers -> Workers \cup {None}]
  BY AdaptiveAssumption DEF IInv, TypeOK
<1>1. CASE Lookup(w)
  <2>1. UNCHANGED <<current, settled>>
    BY <1>1 DEF Lookup, history
  <2>2. mine'[w] = current[Home[w]]
    BY <1>0, <1>1 DEF Lookup
  <2>3. pc' = [pc EXCEPT ![w] = IF current[Home[w]] = None THEN "create" ELSE "append"]
    BY <2>2, <1>1 DEF Lookup, Goto
  <2>4. \A v \in Workers : pc'[v] = "create" =>
          pc[v] = "create" \/ (v = w /\ current[Home[w]] = None)
    BY <2>3, <1>0
  <2>5. QED
    BY <2>1, <2>4, <1>0 DEF NothingSettled
<1>2. CASE Create(w)
  <2>1. /\ pc[w] = "create" /\ pc' = [pc EXCEPT ![w] = "append"]
        /\ current' = [current EXCEPT ![Home[w]] = w] /\ UNCHANGED settled
    BY <1>2 DEF Create, Goto, history
  <2>2. QED
    BY <2>1, <1>0 DEF NothingSettled
<1>3. CASE AppendArrival(w)
  <2>1. /\ pc[w] = "append" /\ pc' = [pc EXCEPT ![w] = "test"] /\ UNCHANGED current
        /\ mine[w] \in Workers /\ now[w] \in Time
    BY <1>3, AtWork DEF AppendArrival, Goto
  <2>2. \A v \in Workers : pc'[v] = "create" <=> pc[v] = "create"
    BY <2>1, <1>0
  <2>3. CASE UNCHANGED settled
    BY <2>1, <2>2, <2>3, <1>0 DEF NothingSettled
  <2>4. CASE Undisputed(w) /\ settled' = [settled EXCEPT ![Home[w]][now[w]] = @ + 1]
    <3>1. CASE i = Home[w]
      BY <3>1, <2>1, <2>2, <2>4, <1>0 DEF NothingSettled, Undisputed
    <3>2. CASE i # Home[w]
      <4>1. settled'[i] = settled[i]
        BY <3>2, <2>4, <1>0
      <4>2. QED
        BY <4>1, <2>1, <2>2, <1>0 DEF NothingSettled
    <3>3. QED
      BY <3>1, <3>2
  <2>5. QED
    BY <1>3, <2>3, <2>4 DEF AppendArrival
<1>4. CASE /\ UNCHANGED <<current, settled>>
           /\ \A v \in Workers : pc'[v] = "create" => pc[v] = "create"
  BY <1>0, <1>4 DEF NothingSettled
<1>5. CASE \/ Begin(w) \/ (Observing(w) /\ ~ AppendArrival(w)) \/ Moving(w) \/ Noting(w)
           \/ ClassifyTraffic(w) \/ Switch(w) \/ Prime(w) \/ Route(w) \/ Execute(w)
           \/ Raising(w)
  <2>1. UNCHANGED <<current, settled>>
    BY <1>5, ObservingFrame, MovingFrame, NotingFrame, SwitchFrame, RaisingFrame
       DEF Begin, ClassifyTraffic, Prime, Route, Execute, history
  <2>2. \A v \in Workers : pc'[v] = "create" => pc[v] = "create"
    BY <1>0, <1>5, ObservingFrame, MovingFrame, NotingFrame, SwitchFrame, RaisingFrame
       DEF Begin, ClassifyTraffic, Prime, Route, Execute, Goto
  <2>3. QED
    BY <1>4, <2>1, <2>2
<1>6. QED
  BY <1>1, <1>2, <1>3, <1>5, Kinds

-----------------------------------------------------------------------------
(* The account of the settled arrivals.                                    *)

\* The sets counted are finite.
LEMMA CountedSets ==
  ASSUME IInv, NEW i \in Instances, NEW c \in Workers
  PROVE  /\ IsFiniteSet(Lost(i)) /\ Cardinality(Lost(i)) \in Nat
         /\ IsFiniteSet(Droppers(c)) /\ Cardinality(Droppers(c)) \in Nat
<1>1. IsFiniteSet(Time) /\ IsFiniteSet(1..MaxCalls)
  BY FS_Interval, MaxTimeAssumption, AdaptiveAssumption DEF Time
<1>2. IsFiniteSet(Time \X (1..MaxCalls))
  BY <1>1, FS_Product
<1>3. Lost(i) \subseteq Time \X (1..MaxCalls)
  BY DEF Lost
<1>4. Droppers(c) \subseteq InFlight /\ IsFiniteSet(InFlight)
  BY DEF Droppers, InFlight, IInv, CallsCounted
<1>5. QED
  BY <1>2, <1>3, <1>4, FS_Subset, FS_CardinalityType

\* A step that leaves the arrivals of process i alone, and the threads about to
\* drop one of them, leaves its account as it is.
LEMMA AccountUntouched ==
  ASSUME IInv, NEW w \in Workers, AllowRequest(w), NEW i \in Instances,
         current'[i] = current[i], settled'[i] = settled[i],
         ~ (Observing(w) /\ mine[w] = current[i]),
         current[i] # None => Droppers(current[i])' = Droppers(current[i])
  PROVE  Accounted(i)'
<1>1. Accounted(i) /\ Owned(i) /\ None \notin Workers
      /\ current[i] \in Workers \cup {None}
  BY AdaptiveAssumption DEF IInv, TypeOK
<1>2. CASE current[i] = None
  BY <1>2 DEF Accounted
<1>3. CASE current[i] # None
  <2> PICK c \in Workers : c = current[i]
    BY <1>1, <1>3
  <2>1. SameArrivals(records'[c], records[c])
    BY <1>1, <1>3, RecordsKept DEF Owned
  <2>2. Lost(i)' = Lost(i)
    BY <2>1 DEF Lost, SameArrivals, Count, Time
  <2>3. Droppers(c)' = Droppers(c)
    BY <1>3
  <2>4. Forfeit(c)' = Forfeit(c)
    BY <2>1, <2>3 DEF Forfeit, SameArrivals
  <2>5. records'[c].contested = records[c].contested
    BY <2>1 DEF SameArrivals
  <2> HIDE DEF Lost, Droppers, Forfeit
  <2>6. QED
    BY <1>1, <2>2, <2>3, <2>4, <2>5 DEF Accounted
<1>4. QED
  BY <1>2, <1>3

\* A new arrival is settled as it is kept, and the head stays as old.
LEMMA AppendAccount ==
  ASSUME IInv, NEW w \in Workers, AppendArrival(w), mine[w] = current[Home[w]]
  PROVE  Accounted(Home[w])'
<1> PICK i \in Instances : i = Home[w]
  BY AdaptiveAssumption
<1>1. /\ pc[w] = "append" /\ pc' = [pc EXCEPT ![w] = "test"] /\ UNCHANGED <<current, mine>>
      /\ mine[w] \in Workers /\ St(w) \in ClientState /\ now[w] \in Time
      /\ pc \in [Workers -> Points] /\ None \notin Workers
      /\ settled \in [Instances -> [Time -> 0..MaxCalls]]
  <2>1. /\ pc[w] = "append" /\ pc' = [pc EXCEPT ![w] = "test"]
        /\ UNCHANGED <<current, mine>>
    BY DEF AppendArrival, Goto
  <2>2. QED
    BY <2>1, AtWork, AdaptiveAssumption DEF IInv, TypeOK
<1> PICK c \in Workers : c = mine[w]
  BY <1>1
<1> PICK t \in Time : t = now[w]
  BY <1>1
<1> PICK ts \in Seq(Time) : ts = St(w).ts
  BY <1>1 DEF ClientState
<1> PICK latest \in Int : latest = St(w).latest
  BY <1>1, MaxTimeAssumption DEF ClientState, Time
<1>2. PICK st \in ClientState :
        /\ SetSt(w, st) /\ st.ts = Append(ts, t)
        /\ st.latest = IF t > latest THEN t ELSE latest
        /\ st.contested = St(w).contested
  BY ArrivalsWritten DEF Observing
<1>3. records[c] = St(w) /\ records'[c] = st
  BY <1>1, <1>2, SetStType DEF St
<1>4. current[i] = c /\ current'[i] = c /\ Accounted(i) /\ c # None
  BY <1>1 DEF IInv
<1>5. st.latest \in Int /\ latest <= st.latest
  BY <1>1, <1>2, MaxTimeAssumption DEF Time
<1>h. Detector!Horizon \in Int
  BY AdaptiveAssumption, ConfigAssumption DEF Detector!Horizon
<1>l. /\ Lost(i) = {p \in Time \X (1..MaxCalls) :
                     /\ p[1] >= latest - Detector!Horizon
                     /\ p[2] <= settled[i][p[1]] - Count(ts, p[1])}
      /\ Lost(i)' = {p \in Time \X (1..MaxCalls) :
                     /\ p[1] >= st.latest - Detector!Horizon
                     /\ p[2] <= settled'[i][p[1]] - Count(Append(ts, t), p[1])}
  <2>1. Lost(i)' = {p \in Time \X (1..MaxCalls) :
                     /\ p[1] >= records'[current'[i]].latest - Detector!Horizon
                     /\ p[2] <= settled'[i][p[1]] - Count(records'[current'[i]].ts, p[1])}
    BY DEF Lost, Count, Time
  <2>2. QED
    BY <2>1, <1>2, <1>3, <1>4 DEF Lost
<1>6. Lost(i)' \subseteq Lost(i)
  <2> SUFFICES ASSUME NEW u \in Time, NEW n \in 1..MaxCalls,
                      u >= st.latest - Detector!Horizon,
                      n <= settled'[i][u] - Count(Append(ts, t), u)
               PROVE  /\ u >= latest - Detector!Horizon
                      /\ n <= settled[i][u] - Count(ts, u)
    BY <1>l
  <2>1. u \in Int /\ u >= latest - Detector!Horizon
    BY <1>5, <1>h, MaxTimeAssumption DEF Time
  <2>2. Count(Append(ts, t), u) = Count(ts, u) + IF u = t THEN 1 ELSE 0
    BY CountAppend
  <2>3. settled' = settled \/ settled' = [settled EXCEPT ![i][t] = @ + 1]
    BY DEF AppendArrival
  <2>4. settled[i][u] \in Int
    BY <1>1
  <2>5. \/ settled'[i][u] = settled[i][u]
        \/ u = t /\ settled'[i][u] = settled[i][u] + 1
    BY <2>3, <1>1
  <2>6. n <= settled[i][u] - Count(ts, u)
    <3> PICK k \in Nat : k = Count(ts, u)
      BY CountFinite
    <3>1. QED
      BY <2>2, <2>4, <2>5
  <2>7. QED
    BY <2>1, <2>6
<1>7. Droppers(c)' = Droppers(c)
  BY <1>1 DEF Droppers
<1>8. Forfeit(c) <= Forfeit(c)' /\ Forfeit(c) \in Int /\ Forfeit(c)' \in Int
  <2>1. Forfeit(c) \in {0, 1} /\ Forfeit(c)' \in {0, 1}
    BY DEF Forfeit
  <2>2. ASSUME Forfeit(c) = 1 PROVE Forfeit(c)' = 1
    <3>1. Droppers(c) # {} /\ ts # <<>> /\ Head(ts) < latest - Detector!Horizon
      BY <2>2, <1>3 DEF Forfeit
    <3>2. Append(ts, t) # <<>> /\ Head(Append(ts, t)) = Head(ts)
      BY <3>1
    <3> PICK h \in Time : h = Head(ts)
      BY <3>1
    <3>3. h < st.latest - Detector!Horizon
      BY <3>1, <1>5, <1>h, MaxTimeAssumption DEF Time
    <3>4. QED
      BY <3>1, <3>2, <3>3, <1>2, <1>3, <1>7 DEF Forfeit
  <2>3. QED
    BY <2>1, <2>2
<1>9. /\ IsFiniteSet(Lost(i)) /\ Cardinality(Lost(i)) \in Nat
      /\ Cardinality(Droppers(c)) \in Nat
  BY CountedSets
<1>10. Cardinality(Lost(i)') \in Nat /\ Cardinality(Lost(i)') <= Cardinality(Lost(i))
  BY <1>6, <1>9, FS_Subset, FS_CardinalityType
<1>11. records'[c].contested = records[c].contested /\ records[c].contested \in Nat
  BY <1>1, <1>2, <1>3 DEF ClientState
<1> HIDE DEF Lost, Droppers, Forfeit
<1>12. QED
  BY <1>4, <1>7, <1>8, <1>9, <1>10, <1>11 DEF Accounted

\* Who finds the head old is the only one to drop it, or is counted.
LEMMA LookAccount ==
  ASSUME IInv, NEW w \in Workers, Looking(w), mine[w] = current[Home[w]]
  PROVE  Accounted(Home[w])'
<1> PICK i \in Instances : i = Home[w]
  BY AdaptiveAssumption
<1>1. /\ pc[w] = "head" /\ UNCHANGED <<current, mine, settled>>
      /\ pc' = [pc EXCEPT ![w] = IF HeadIsOld(w) THEN "drop" ELSE "check"]
      /\ mine[w] \in Workers /\ St(w) \in ClientState /\ now[w] \in Time
      /\ pc \in [Workers -> Points] /\ None \notin Workers
      /\ now[w] <= St(w).latest /\ St(w).ts # <<>>
  <2>1. /\ pc[w] = "head" /\ UNCHANGED <<current, mine, settled>>
        /\ pc' = [pc EXCEPT ![w] = IF HeadIsOld(w) THEN "drop" ELSE "check"]
        /\ St(w).ts # <<>>
    BY DEF Looking, LookAtHead, Goto, history
  <2>2. now[w] <= St(w).latest
    BY <2>1 DEF IInv, Locals, St
  <2>3. QED
    BY <2>1, <2>2, AtWork, AdaptiveAssumption DEF IInv, TypeOK
<1> PICK c \in Workers : c = mine[w]
  BY <1>1
<1> PICK ts \in Seq(Time) : ts = St(w).ts
  BY <1>1 DEF ClientState
<1> PICK latest \in Int : latest = St(w).latest
  BY <1>1, MaxTimeAssumption DEF ClientState, Time
<1>2. PICK st \in ClientState :
        /\ SetSt(w, st) /\ st.ts = ts /\ st.latest = latest
        /\ st.contested = St(w).contested
             + IF HeadIsOld(w) /\ AnotherAt(w, {"drop"}) THEN 1 ELSE 0
  BY ArrivalsWritten DEF Observing
<1>3. records[c] = St(w) /\ records'[c] = st
  BY <1>1, <1>2, SetStType DEF St
<1>4. current[i] = c /\ current'[i] = c /\ Accounted(i) /\ c # None
  BY <1>1 DEF IInv
<1>5. Lost(i)' = Lost(i)
  <2>1. Lost(i)' = {p \in Time \X (1..MaxCalls) :
                     /\ p[1] >= records'[current'[i]].latest - Detector!Horizon
                     /\ p[2] <= settled'[i][p[1]] - Count(records'[current'[i]].ts, p[1])}
    BY DEF Lost, Count, Time
  <2>2. QED
    BY <2>1, <1>1, <1>2, <1>3, <1>4 DEF Lost
<1>6. /\ Cardinality(Lost(i)) \in Nat /\ IsFiniteSet(Droppers(c))
      /\ Cardinality(Droppers(c)) \in Nat
      /\ records[c].contested \in Nat
      /\ Droppers(c) = {} => Cardinality(Droppers(c)) = 0
  BY <1>1, <1>3, CountedSets, FS_EmptySet DEF ClientState
<1>7. Cardinality(Lost(i)) + Cardinality(Droppers(c)) <= records[c].contested + Forfeit(c)
  BY <1>4 DEF Accounted
<1>8. w \notin Droppers(c)
  BY <1>1 DEF Droppers
<1>9. CASE HeadIsOld(w)
  <2>1. Droppers(c)' = Droppers(c) \cup {w}
    BY <1>1, <1>9 DEF Droppers
  <2>2. Cardinality(Droppers(c)') = Cardinality(Droppers(c)) + 1
    BY <2>1, <1>6, <1>8, CountNewRequest
  <2>3. AnotherAt(w, {"drop"}) <=> Droppers(c) # {}
    BY <1>8 DEF AnotherAt, Droppers
  <2>4. records'[c].contested
          = records[c].contested + IF Droppers(c) # {} THEN 1 ELSE 0
    BY <1>2, <1>3, <1>9, <2>3
  <2>5. Forfeit(c)' = 1
    <3>1. Head(ts) < now[w] - Detector!Horizon
      BY <1>9 DEF HeadIsOld
    <3> PICK h \in Time : h = Head(ts)
      BY <1>1
    <3>2. Detector!Horizon \in Int
      BY AdaptiveAssumption, ConfigAssumption DEF Detector!Horizon
    <3> PICK t \in Time : t = now[w]
      BY <1>1
    <3>3. h < t - Detector!Horizon /\ t <= latest
      BY <3>1, <1>1
    <3>4. h \in Int /\ t \in Int
      BY MaxTimeAssumption DEF Time
    <3>5. h < latest - Detector!Horizon
      BY <3>2, <3>3, <3>4
    <3>6. Droppers(c)' # {} /\ ts # <<>>
      BY <2>1, <1>1
    <3> HIDE DEF Droppers
    <3>7. QED
      BY <3>5, <3>6, <1>2, <1>3 DEF Forfeit
  <2>6. Forfeit(c) \in {0, 1} /\ (Droppers(c) = {} => Forfeit(c) = 0)
    BY DEF Forfeit
  <2> HIDE DEF Lost, Droppers, Forfeit
  <2>7. CASE Droppers(c) = {}
    <3>1. Cardinality(Lost(i)) <= records[c].contested
      BY <2>6, <2>7, <1>6, <1>7
    <3>2. QED
      BY <3>1, <2>2, <2>4, <2>5, <2>7, <1>4, <1>5, <1>6 DEF Accounted
  <2>8. CASE Droppers(c) # {}
    <3>1. Cardinality(Lost(i)) + Cardinality(Droppers(c)) <= records[c].contested + 1
      BY <2>6, <1>6, <1>7
    <3>2. QED
      BY <3>1, <2>2, <2>4, <2>5, <2>8, <1>4, <1>5, <1>6 DEF Accounted
  <2>9. QED
    BY <2>7, <2>8
<1>10. CASE ~ HeadIsOld(w)
  <2>1. Droppers(c)' = Droppers(c)
    BY <1>1, <1>10 DEF Droppers
  <2>2. records'[c].contested = records[c].contested
    BY <1>2, <1>3, <1>6, <1>10
  <2>3. Forfeit(c)' = Forfeit(c)
    BY <2>1, <1>2, <1>3 DEF Forfeit
  <2> HIDE DEF Lost, Droppers, Forfeit
  <2>4. QED
    BY <2>1, <2>2, <2>3, <1>4, <1>5, <1>7 DEF Accounted
<1>11. QED
  BY <1>9, <1>10

\* A drop takes an old head, or was counted as one too many.
LEMMA DropAccount ==
  ASSUME IInv, NEW w \in Workers, Dropping(w), mine[w] = current[Home[w]]
  PROVE  Accounted(Home[w])'
<1> PICK i \in Instances : i = Home[w]
  BY AdaptiveAssumption
<1>1. /\ pc[w] = "drop" /\ UNCHANGED <<current, mine, settled>>
      /\ pc' = [pc EXCEPT ![w] = "test"]
      /\ mine[w] \in Workers /\ St(w) \in ClientState
      /\ pc \in [Workers -> Points] /\ None \notin Workers
      /\ settled \in [Instances -> [Time -> 0..MaxCalls]]
      /\ St(w).ts # <<>>
  <2>1. /\ pc[w] = "drop" /\ UNCHANGED <<current, mine, settled>>
        /\ pc' = [pc EXCEPT ![w] = "test"] /\ St(w).ts # <<>>
    BY DEF Dropping, Drop, Goto, history
  <2>2. QED
    BY <2>1, AtWork, AdaptiveAssumption DEF IInv, TypeOK
<1> PICK c \in Workers : c = mine[w]
  BY <1>1
<1> PICK ts \in Seq(Time) : ts = St(w).ts
  BY <1>1 DEF ClientState
<1> PICK latest \in Int : latest = St(w).latest
  BY <1>1, MaxTimeAssumption DEF ClientState, Time
<1> PICK h \in Time : h = Head(ts)
  BY <1>1
<1>2. PICK st \in ClientState :
        /\ SetSt(w, st) /\ st.ts = Tail(ts) /\ st.latest = latest
        /\ st.contested = St(w).contested
  BY ArrivalsWritten DEF Observing
<1>3. records[c] = St(w) /\ records'[c] = st
  BY <1>1, <1>2, SetStType DEF St
<1>4. current[i] = c /\ current'[i] = c /\ Accounted(i) /\ c # None
  BY <1>1 DEF IInv
<1>5. /\ IsFiniteSet(Lost(i)) /\ Cardinality(Lost(i)) \in Nat
      /\ IsFiniteSet(Droppers(c)) /\ Cardinality(Droppers(c)) \in Nat
      /\ records[c].contested \in Nat /\ records'[c].contested = records[c].contested
  BY <1>1, <1>2, <1>3, CountedSets DEF ClientState
<1>6. Cardinality(Lost(i)) + Cardinality(Droppers(c)) <= records[c].contested + Forfeit(c)
  BY <1>4 DEF Accounted
<1>7. /\ Droppers(c)' = Droppers(c) \ {w} /\ w \in Droppers(c)
  BY <1>1 DEF Droppers
<1>8. Cardinality(Droppers(c)') = Cardinality(Droppers(c)) - 1
  <2> HIDE DEF Droppers
  <2>1. Cardinality(Droppers(c) \ {w}) = Cardinality(Droppers(c)) - 1
    BY <1>5, <1>7, FS_RemoveElement
  <2>2. QED
    BY <2>1, <1>7
<1>9. Forfeit(c) \in {0, 1} /\ Forfeit(c)' \in {0, 1}
  BY DEF Forfeit
<1>h. Detector!Horizon \in Int
  BY AdaptiveAssumption, ConfigAssumption DEF Detector!Horizon
<1>10. \A u \in Time : /\ Count(ts, u) = Count(Tail(ts), u) + IF u = h THEN 1 ELSE 0
                       /\ Count(Tail(ts), u) \in Nat /\ settled[i][u] \in Int
  <2> TAKE u \in Time
  <2>1. Tail(ts) \in Seq(Time)
    BY <1>1
  <2>2. Count(ts, u) = Count(Tail(ts), u) + IF u = h THEN 1 ELSE 0
    BY <1>1, CountTail
  <2>3. Count(Tail(ts), u) \in Nat
    BY <2>1, CountFinite
  <2>4. settled[i][u] \in Int
    BY <1>1
  <2>5. QED
    BY <2>2, <2>3, <2>4
<1>11. /\ Lost(i) = {p \in Time \X (1..MaxCalls) :
                       /\ p[1] >= latest - Detector!Horizon
                       /\ p[2] <= settled[i][p[1]] - Count(ts, p[1])}
       /\ Lost(i)' = {p \in Time \X (1..MaxCalls) :
                       /\ p[1] >= latest - Detector!Horizon
                       /\ p[2] <= settled[i][p[1]] - Count(Tail(ts), p[1])}
  <2>1. Lost(i)' = {p \in Time \X (1..MaxCalls) :
                     /\ p[1] >= records'[current'[i]].latest - Detector!Horizon
                     /\ p[2] <= settled'[i][p[1]] - Count(records'[current'[i]].ts, p[1])}
    BY DEF Lost, Count, Time
  <2>2. QED
    BY <2>1, <1>1, <1>2, <1>3, <1>4 DEF Lost
<1>12. CASE h < latest - Detector!Horizon
  <2>1. Lost(i)' \subseteq Lost(i)
    <3> SUFFICES ASSUME NEW p \in Time \X (1..MaxCalls),
                        p[1] >= latest - Detector!Horizon,
                        p[2] <= settled[i][p[1]] - Count(Tail(ts), p[1])
                 PROVE  p[2] <= settled[i][p[1]] - Count(ts, p[1])
      BY <1>11
    <3>1. p[1] \in Time /\ p[1] # h
      BY <1>12, <1>h, MaxTimeAssumption DEF Time
    <3>2. Count(ts, p[1]) = Count(Tail(ts), p[1])
      BY <3>1, <1>10
    <3>3. QED
      BY <3>2
  <2>2. Cardinality(Lost(i)') \in Nat /\ Cardinality(Lost(i)') <= Cardinality(Lost(i))
    BY <2>1, <1>5, FS_Subset, FS_CardinalityType
  <2> HIDE DEF Lost, Droppers, Forfeit
  <2>3. QED
    BY <2>2, <1>4, <1>5, <1>6, <1>8, <1>9 DEF Accounted
<1>13. CASE ~ (h < latest - Detector!Horizon)
  <2>1. Forfeit(c) = 0
    BY <1>3, <1>13 DEF Forfeit
  <2> PICK k \in Int : k = settled[i][h] - Count(Tail(ts), h)
    BY <1>10
  <2>2. Lost(i)' \subseteq Lost(i) \cup {<<h, k>>}
    <3> SUFFICES ASSUME NEW u \in Time, NEW n \in 1..MaxCalls,
                        u >= latest - Detector!Horizon,
                        n <= settled[i][u] - Count(Tail(ts), u),
                        ~ (n <= settled[i][u] - Count(ts, u))
                 PROVE  u = h /\ n = k
      BY <1>11
    <3> PICK m \in Nat : m = Count(Tail(ts), u)
      BY <1>10
    <3>1. Count(ts, u) = m + (IF u = h THEN 1 ELSE 0) /\ settled[i][u] \in Int
      BY <1>10
    <3>2. u = h
      BY <3>1
    <3>3. QED
      BY <3>1, <3>2
  <2>3. /\ Cardinality(Lost(i) \cup {<<h, k>>}) <= Cardinality(Lost(i)) + 1
        /\ Cardinality(Lost(i) \cup {<<h, k>>}) \in Nat
        /\ IsFiniteSet(Lost(i) \cup {<<h, k>>})
    BY <1>5, CountNewRequest
  <2>4. Cardinality(Lost(i)') \in Nat /\ Cardinality(Lost(i)') <= Cardinality(Lost(i)) + 1
    BY <1>5, <2>2, <2>3, FS_Subset, FS_CardinalityType
  <2> HIDE DEF Lost, Droppers, Forfeit
  <2>5. QED
    BY <2>1, <2>4, <1>4, <1>5, <1>6, <1>8, <1>9 DEF Accounted
<1>14. QED
  BY <1>12, <1>13

\* The settled arrivals lost stay accounted for.
LEMMA AccountedStep ==
  ASSUME IInv, NEW w \in Workers, AllowRequest(w), NEW i \in Instances
  PROVE  Accounted(i)'
<1>0. /\ TypeOK /\ Accounted(i) /\ NothingSettled(i) /\ Owned(i)
      /\ Home \in [Workers -> Instances] /\ None \notin Workers
      /\ current \in [Instances -> Workers \cup {None}]
      /\ settled \in [Instances -> [Time -> 0..MaxCalls]]
      /\ mine \in [Workers -> Workers \cup {None}]
      /\ pc \in [Workers -> Points]
  BY AdaptiveAssumption DEF IInv, TypeOK
<1>1. CASE Create(w)
  <2>1. /\ pc[w] = "create" /\ pc' = [pc EXCEPT ![w] = "append"]
        /\ current' = [current EXCEPT ![Home[w]] = w] /\ mine' = [mine EXCEPT ![w] = w]
        /\ UNCHANGED settled
    BY <1>1 DEF Create, Goto, history
  <2>2. CASE i = Home[w]
    <3>1. current'[i] = w /\ records'[w].contested = 0 /\ records'[w].ts = <<>>
      BY <2>1, <2>2, <1>0, <1>1, CreatedRecord
    <3>2. \A t \in Time : settled'[i][t] = 0
      BY <2>1, <2>2, <1>0 DEF NothingSettled
    <3>3. Lost(i)' = {}
      <4> SUFFICES ASSUME NEW t \in Time, NEW n \in 1..MaxCalls,
                          n <= settled'[i][t] - Count(records'[w].ts, t)
                   PROVE  FALSE
        BY <3>1 DEF Lost, Count, Time
      <4>1. <<>> \in Seq(Time)
        OBVIOUS
      <4>2. PICK none \in Seq(Time) : none = <<>>
        BY <4>1
      <4>3. Count(none, t) \in Nat
        BY CountFinite
      <4>4. QED
        BY <4>2, <4>3, <3>1, <3>2
    <3>4. Droppers(w)' = {}
      <4> SUFFICES ASSUME NEW v \in Workers, mine'[v] = w, pc'[v] = "drop"
                   PROVE  FALSE
        BY DEF Droppers
      <4>1. v # w /\ mine[v] = w
        BY <2>1, <1>0
      <4>2. records[w] # None
        BY <4>1, <1>0 DEF IInv, Locals
      <4>3. QED
        BY <4>2, <1>1, CreatedRecord
    <3>5. Cardinality(Lost(i)') = 0 /\ Cardinality(Droppers(w)') = 0
      BY <3>3, <3>4, FS_EmptySet
    <3>6. Forfeit(w)' \in {0, 1}
      BY DEF Forfeit
    <3> HIDE DEF Lost, Droppers, Forfeit
    <3>7. QED
      BY <3>1, <3>5, <3>6 DEF Accounted
  <2>3. CASE i # Home[w]
    <3>1. current'[i] = current[i] /\ settled'[i] = settled[i] /\ ~ Observing(w)
      BY <2>1, <2>3, <1>0, ObservingFrame DEF Goto
    <3>2. current[i] # w /\ pc[w] # "drop" /\ pc'[w] # "drop"
      BY <2>1, <2>3, <1>0 DEF Owned
    <3>3. Droppers(current[i])' = Droppers(current[i])
      BY <2>1, <3>1, <3>2, <1>0 DEF Droppers
    <3>4. QED
      BY <3>1, <3>3, AccountUntouched
  <2>4. QED
    BY <2>2, <2>3
<1>2. CASE Observing(w) /\ mine[w] = current[i]
  <2>1. mine[w] \in Workers /\ Home[mine[w]] = Home[w]
    BY <1>2, ObservingFrame, AtWork DEF Goto
  <2>2. i = Home[w]
    BY <1>0, <1>2, <2>1 DEF Owned
  <2>3. QED
    BY <1>2, <2>2, AppendAccount, LookAccount, DropAccount DEF Observing
<1>3. CASE Observing(w) /\ mine[w] # current[i]
  <2>1. UNCHANGED <<current, mine>> /\ \A v \in Workers \ {w} : pc'[v] = pc[v]
    BY <1>0, <1>3, ObservingFrame DEF Goto
  <2>2. settled'[i] = settled[i]
    <3>1. CASE AppendArrival(w)
      <4>1. CASE i = Home[w]
        BY <3>1, <4>1, <1>3 DEF AppendArrival, Undisputed
      <4>2. CASE i # Home[w]
        BY <3>1, <4>2, <1>0 DEF AppendArrival
      <4>3. QED
        BY <4>1, <4>2
    <3>2. CASE ~ AppendArrival(w)
      BY <1>3, <3>2, ObservingFrame
    <3>3. QED
      BY <3>1, <3>2
  <2>3. Droppers(current[i])' = Droppers(current[i])
    BY <1>3, <2>1 DEF Droppers
  <2>4. QED
    BY <1>3, <2>1, <2>2, <2>3, AccountUntouched
<1>4. CASE Raising(w) /\ pc[w] = "drop" /\ mine[w] = current[i]
  <2>1. /\ UNCHANGED <<records, current, settled>> /\ mine' = [mine EXCEPT ![w] = None]
        /\ pc' = [pc EXCEPT ![w] = "idle"] /\ St(w).ts = <<>>
    BY <1>4, RaisingFrame DEF history
  <2>2. mine[w] \in Workers
    BY <1>4, AtWork
  <2> PICK c \in Workers : c = mine[w]
    BY <2>2
  <2>3. /\ records'[c] = records[c] /\ records[c].ts = <<>>
        /\ current[i] = c /\ current'[i] = c
    BY <2>1, <1>4 DEF St
  <2>4. Forfeit(c) = 0 /\ Forfeit(c)' = 0
    BY <2>3 DEF Forfeit
  <2>5. Lost(i)' = Lost(i)
    BY <2>1 DEF Lost, Count, Time
  <2>6. Droppers(c)' = Droppers(c) \ {w} /\ w \in Droppers(c)
    BY <2>1, <1>0, <1>4 DEF Droppers
  <2>7. /\ IsFiniteSet(Droppers(c)) /\ Cardinality(Droppers(c)) \in Nat
        /\ Cardinality(Lost(i)) \in Nat
    BY CountedSets
  <2>8. records[c].contested \in Int
    BY <1>4, AtWork DEF St, ClientState
  <2> HIDE DEF Lost, Droppers, Forfeit
  <2>9. Cardinality(Droppers(c) \ {w}) = Cardinality(Droppers(c)) - 1
    BY <2>6, <2>7, FS_RemoveElement
  <2>10. QED
    BY <2>3, <2>4, <2>5, <2>6, <2>7, <2>8, <2>9, <1>0 DEF Accounted
<1>5. CASE /\ UNCHANGED <<current, settled>> /\ ~ Observing(w)
           /\ \A v \in Workers \ {w} : pc'[v] = pc[v] /\ mine'[v] = mine[v]
           /\ pc'[w] # "drop" /\ (pc[w] = "drop" => mine[w] # current[i])
  <2>1. Droppers(current[i])' = Droppers(current[i])
    BY <1>5 DEF Droppers
  <2>2. QED
    BY <1>5, <2>1, AccountUntouched
<1>6. CASE \/ Begin(w) \/ Lookup(w) \/ Moving(w) \/ Noting(w) \/ ClassifyTraffic(w)
           \/ Switch(w) \/ Prime(w) \/ Route(w) \/ Execute(w)
           \/ Raising(w) /\ ~ (pc[w] = "drop" /\ mine[w] = current[i])
  <2>1. UNCHANGED <<current, settled>>
    BY <1>6, MovingFrame, NotingFrame, SwitchFrame, RaisingFrame
       DEF Begin, Lookup, ClassifyTraffic, Prime, Route, Execute, history
  <2>2. \A v \in Workers \ {w} : pc'[v] = pc[v] /\ mine'[v] = mine[v]
    BY OnlyOwnLocals
  <2>3. pc'[w] # "drop" /\ (pc[w] = "drop" => mine[w] # current[i])
    <3>1. CASE Begin(w) \/ Lookup(w) \/ ClassifyTraffic(w) \/ Prime(w) \/ Route(w) \/ Execute(w)
      BY <3>1, <1>0 DEF Begin, Lookup, ClassifyTraffic, Prime, Route, Execute, Goto
    <3>2. CASE Moving(w) \/ Noting(w) \/ Switch(w)
      BY <3>2, <1>0, MovingFrame, NotingFrame, SwitchFrame DEF Goto
    <3>3. CASE Raising(w) /\ ~ (pc[w] = "drop" /\ mine[w] = current[i])
      BY <3>3, <1>0, RaisingFrame
    <3>4. QED
      BY <1>6, <3>1, <3>2, <3>3
  <2>4. CASE Observing(w)
    BY <2>4, <1>2, <1>3
  <2>5. CASE ~ Observing(w)
    BY <2>1, <2>2, <2>3, <2>5, <1>5
  <2>6. QED
    BY <2>4, <2>5
<1>7. QED
  BY <1>1, <1>2, <1>3, <1>4, <1>6, Kinds

-----------------------------------------------------------------------------
(* The theorems for any number of threads and processes.                   *)

LEMMA InitInv == Init => IInv
<1> SUFFICES ASSUME Init PROVE IInv
  OBVIOUS
<1>1. FlowInv /\ Cardinality(admitted) = 0
  BY FlowInitInv DEF Init
<1>2. /\ None \in Needed \cup {None} /\ 0 \in 0..MaxCalls /\ 0 \in Nat
      /\ \A a \in Needed : NoEntry(a) \in EntriesOf(a)
  BY NeededType, AdaptiveAssumption DEF NoEntry, EntriesOf, Algos
<1>3. TypeOK
  BY <1>1, <1>2 DEF Init, TypeOK, FlowInv
<1>4. InFlight = {} /\ Unobserved = {}
  BY DEF Init, InFlight, Unobserved
<1>5. CallsCounted
  BY <1>1, <1>4, FS_EmptySet DEF Init, CallsCounted
<1>6. QED
  BY <1>1, <1>3, <1>5
     DEF Init, FlowInit, IInv, Locals, Fresh, Owned, NothingSettled, Accounted

LEMMA NextInv == IInv /\ [Next]_vars => IInv'
<1> SUFFICES ASSUME IInv, [Next]_vars PROVE IInv'
  OBVIOUS
<1>1. ASSUME NEW w \in Workers, AllowRequest(w)
      PROVE  IInv'
  <2>1. TypeOK' /\ FlowInv' /\ CallsCounted'
    BY <1>1, TypeStep, FlowStep, CallsStep
  <2>2. \A v \in Workers : Locals(v)' /\ Fresh(v)'
    BY <1>1, LocalsStep, FreshStep
  <2>3. \A i \in Instances : Owned(i)' /\ NothingSettled(i)' /\ Accounted(i)'
    BY <1>1, OwnedStep, NothingSettledStep, AccountedStep
  <2>4. QED
    BY <2>1, <2>2, <2>3 DEF IInv
<1>2. CASE (Tick /\ UNCHANGED <<adaptive, history>>) \/ UNCHANGED vars
  <2>1. UNCHANGED <<now, adaptive, history>> /\ (Tick \/ UNCHANGED flow)
    BY <1>2 DEF Tick, vars, flow
  <2>2. FlowInv' /\ UNCHANGED admitted
    BY <2>1, ClockStepInv DEF IInv
  <2>3. TypeOK'
    BY <2>1, <2>2 DEF IInv, TypeOK, FlowInv, adaptive, history, Time, ClientState
  <2>4. CallsCounted'
    BY <2>1, <2>2 DEF IInv, CallsCounted, InFlight, Unobserved, adaptive, history, Time
  <2>5. \A w \in Workers : Locals(w)' /\ Fresh(w)'
    BY <2>1 DEF IInv, Locals, Fresh, adaptive
  <2>6. \A i \in Instances : Owned(i)' /\ NothingSettled(i)'
    BY <2>1 DEF IInv, Owned, NothingSettled, adaptive, history, Time
  <2>7. ASSUME NEW i \in Instances
        PROVE  Accounted(i)'
    <3>1. UNCHANGED <<pc, records, current, mine, settled>> /\ Accounted(i)
      BY <2>1 DEF IInv, adaptive, history
    <3>2. Lost(i)' = Lost(i)
      BY <3>1 DEF Lost, Count, Time
    <3>3. \A c : Droppers(c)' = Droppers(c)
      BY <3>1 DEF Droppers
    <3>4. \A c : Forfeit(c)' = Forfeit(c)
      BY <3>1, <3>3 DEF Forfeit
    <3> HIDE DEF Lost, Droppers, Forfeit
    <3>5. QED
      BY <3>1, <3>2, <3>3, <3>4 DEF Accounted
  <2>8. QED
    BY <2>2, <2>3, <2>4, <2>5, <2>6, <2>7 DEF IInv
<1>3. QED
  BY <1>1, <1>2 DEF Next

\* Type correctness of the adaptive limiter: whatever the calls of other threads
\* and processes do in between, a call that has found or created its record has
\* one to work on, and the number of a new request is fresh.
THEOREM TypeCorrect == Spec => []TypeOK
<1>1. IInv => TypeOK
  BY DEF IInv
<1>2. QED
  BY <1>1, InitInv, NextInv, PTL DEF Spec

\* Once a record is found by a call and no other is about to create one, the
\* arrivals within the horizon are never lost, however many threads share it,
\* but one for each time that two of them were about to drop the same arrival.
THEOREM SettledArrivalsKept == Spec => []SettledArrivalsAreKept
<1>1. IInv => SettledArrivalsAreKept
  <2> SUFFICES ASSUME IInv, NEW i \in Instances, current[i] # None
               PROVE  Cardinality(Lost(i)) <= records[current[i]].contested
    BY DEF SettledArrivalsAreKept
  <2> PICK c \in Workers : c = current[i]
    BY DEF IInv, TypeOK
  <2>1. records[c] \in ClientState
    BY DEF IInv, TypeOK, Owned
  <2>2. Cardinality(Lost(i)) + Cardinality(Droppers(c)) <= records[c].contested + Forfeit(c)
    BY DEF IInv, Accounted
  <2>3. /\ Cardinality(Lost(i)) \in Nat /\ IsFiniteSet(Droppers(c))
        /\ Cardinality(Droppers(c)) \in Nat
    BY CountedSets
  <2>4. Forfeit(c) <= Cardinality(Droppers(c)) /\ Forfeit(c) \in {0, 1}
    <3>1. Droppers(c) # {} => Cardinality(Droppers(c)) # 0
      BY <2>3, FS_EmptySet
    <3> HIDE DEF Droppers
    <3>2. QED
      BY <3>1, <2>3 DEF Forfeit
  <2> HIDE DEF Lost, Droppers, Forfeit
  <2>5. QED
    BY <2>1, <2>2, <2>3, <2>4 DEF ClientState
<1>2. QED
  BY <1>1, InitInv, NextInv, PTL DEF Spec

-----------------------------------------------------------------------------
(* One call at a time.                                                     *)

\* A call that has found or created its record works on the one its process
\* holds.
LEMMA OneRecord ==
  ASSUME OneThread, IInv, OneThreadInv, NEW w \in Workers, pc[w] \notin Homeless
  PROVE  /\ current[Home[w]] # None
         /\ mine[w] = current[Home[w]] /\ mine[w] \in Workers
         /\ St(w) = Rec(w)
         /\ Rec(w) \in ClientState
<1>1. mine[w] \in Workers /\ St(w) \in ClientState /\ mine[w] # None
  BY AtWork, AdaptiveAssumption
<1>2. mine[w] = current[Home[w]]
  BY <1>1 DEF OneThreadInv, InOrder
<1>3. QED
  BY <1>1, <1>2 DEF St, Rec

\* The steps in between.
LEMMA InnerFrame ==
  ASSUME IInv, NEW w \in Workers, Inner(w)
  PROVE  /\ UNCHANGED <<clock, now, admitted, newest, governed, current, mine>>
         /\ pc[w] \notin Homeless \cup {"execute"} /\ pc'[w] \notin Homeless
         /\ ~ Switch(w) => switches' = switches
         /\ ~ ClassifyTraffic(w) /\ ~ Route(w) => picked' = picked
         /\ ~ Prime(w) => entries' = entries
<1>0. pc \in [Workers -> Points]
  BY DEF IInv, TypeOK
<1>1. CASE Observing(w) \/ Moving(w) \/ Noting(w) \/ Switch(w)
  BY <1>0, <1>1, ObservingFrame, MovingFrame, NotingFrame, SwitchFrame DEF Goto, flow, history
<1>2. CASE ClassifyTraffic(w) \/ Prime(w) \/ Route(w)
  BY <1>0, <1>2 DEF ClassifyTraffic, Prime, Route, Goto, flow, history
<1>3. QED
  BY <1>1, <1>2 DEF Inner

\* Where they lead.
LEMMA InnerPath ==
  ASSUME IInv, NEW w \in Workers, Inner(w)
  PROVE  \/ pc[w] = "append" /\ pc'[w] = "test"
         \/ pc[w] = "test" /\ pc'[w] \in {"head", "check"}
         \/ pc[w] = "head" /\ pc'[w] \in {"drop", "check"}
         \/ pc[w] = "drop" /\ pc'[w] = "test"
         \/ pc[w] = "check" /\ pc'[w] \in {"claim", "route"}
         \/ pc[w] = "claim" /\ pc'[w] = "classify"
         \/ pc[w] = "classify" /\ pc'[w] = "decide"
         \/ pc[w] = "decide" /\ pc'[w] \in {"stay", "compare"}
         \/ pc[w] = "stay" /\ pc'[w] = "route"
         \/ pc[w] = "compare" /\ pc'[w] \in {"again", "anew"}
         \/ pc[w] \in {"again", "anew"} /\ pc'[w] = "dwell"
         \/ pc[w] = "dwell" /\ pc'[w] \in {"switch", "route"}
         \/ pc[w] = "switch" /\ pc'[w] = "clear"
         \/ pc[w] = "clear" /\ pc'[w] = "prime"
         \/ pc[w] = "prime" /\ pc'[w] = "route"
         \/ pc[w] = "route" /\ pc'[w] = "execute"
<1>0. pc \in [Workers -> Points]
  BY DEF IInv, TypeOK
<1>1. CASE Observing(w) \/ Switch(w)
  BY <1>0, <1>1, ObservingFrame, SwitchFrame DEF Goto
<1>2. CASE Moving(w)
  BY <1>0, <1>2, MovingFrame DEF Goto
<1>3. CASE Noting(w)
  BY <1>0, <1>3, NotingFrame DEF Goto
<1>4. CASE ClassifyTraffic(w) \/ Prime(w) \/ Route(w)
  BY <1>0, <1>4 DEF ClassifyTraffic, Prime, Route, Goto
<1>5. QED
  BY <1>1, <1>2, <1>3, <1>4 DEF Inner

\* Which step it is that leaves a point.
LEMMA InnerAt ==
  ASSUME IInv, NEW w \in Workers, Inner(w)
  PROVE  /\ pc[w] = "check" <=> Check(w)
         /\ pc[w] = "claim" <=> Claim(w)
         /\ pc[w] = "classify" <=> ClassifyTraffic(w)
         /\ pc[w] = "decide" <=> Decide(w)
         /\ pc[w] = "stay" <=> Stay(w)
         /\ pc[w] = "compare" <=> Compare(w)
         /\ pc[w] = "again" <=> CountAgain(w)
         /\ pc[w] = "anew" <=> CountAnew(w)
         /\ pc[w] = "dwell" <=> Dwell(w)
         /\ pc[w] = "switch" <=> Switch(w)
         /\ pc[w] = "clear" <=> Clear(w)
         /\ pc[w] = "prime" <=> Prime(w)
         /\ pc[w] = "route" <=> Route(w)
<1>1. /\ Observing(w) => pc[w] \in {"append", "head", "drop"}
      /\ Test(w) => pc[w] = "test"
      /\ Check(w) => pc[w] = "check"
      /\ Compare(w) => pc[w] = "compare"
      /\ Dwell(w) => pc[w] = "dwell"
      /\ Claim(w) => pc[w] = "claim"
      /\ Decide(w) => pc[w] = "decide"
      /\ Stay(w) => pc[w] = "stay"
      /\ CountAgain(w) => pc[w] = "again"
      /\ CountAnew(w) => pc[w] = "anew"
      /\ Clear(w) => pc[w] = "clear"
      /\ Switch(w) => pc[w] = "switch"
      /\ Prime(w) => pc[w] = "prime"
      /\ Route(w) => pc[w] = "route"
      /\ ClassifyTraffic(w) => pc[w] = "classify"
  BY ObservingFrame
     DEF Test, Check, Compare, Dwell, Claim, Decide, Stay, CountAgain, CountAnew, Clear,
         Switch, Prime, Route, ClassifyTraffic, Goto
<1>2. QED
  BY <1>1 DEF Inner, Moving, Noting

\* What the step of w does to the record its process holds.
LEMMA RecordMoves ==
  ASSUME OneThread, IInv, OneThreadInv, NEW w \in Workers, AllowRequest(w)
  PROVE  /\ ~ Create(w) => current' = current
         /\ Create(w) => /\ current'[Home[w]] = w
                         /\ Rec(w)' \in ClientState
                         /\ Rec(w)'.lastCheck = WindowOf(now[w])
                         /\ Rec(w)'.pending = None /\ Rec(w)'.since = {}
         /\ ~ Create(w) /\ ~ Noting(w) /\ ~ Switch(w) => SameSelection(Rec(w)', Rec(w))
         /\ Claim(w) =>
              /\ Rec(w)'.active = Rec(w).active /\ Rec(w)'.lastCheck = WindowOf(now[w])
              /\ Rec(w)'.pending = Rec(w).pending /\ Rec(w)'.count = Rec(w).count
              /\ Rec(w)'.asked = Rec(w).asked /\ Rec(w)'.since = Rec(w).since
         /\ Decide(w) =>
              /\ Rec(w)'.active = Rec(w).active /\ Rec(w)'.lastCheck = Rec(w).lastCheck
              /\ Rec(w)'.pending = Rec(w).pending /\ Rec(w)'.count = Rec(w).count
              /\ IF picked[w] # Rec(w).active
                   THEN Rec(w)'.asked = picked[w] /\ Rec(w)'.since = AskedSince(w)
                   ELSE Rec(w)'.asked = None /\ Rec(w)'.since = {}
         /\ Stay(w) \/ Clear(w) \/ CountAgain(w) \/ CountAnew(w) \/ Switch(w) =>
              /\ Rec(w)'.lastCheck = Rec(w).lastCheck
              /\ Rec(w)'.asked = Rec(w).asked /\ Rec(w)'.since = Rec(w).since
              /\ ~ Switch(w) => Rec(w)'.active = Rec(w).active
         /\ Stay(w) \/ Clear(w) => Rec(w)'.pending = None
         /\ CountAgain(w) => Rec(w)'.pending = Rec(w).pending /\ Rec(w)'.count = Rec(w).count + 1
         /\ CountAnew(w) => Rec(w)'.pending = picked[w] /\ Rec(w)'.count = 1
         /\ Switch(w) => /\ Rec(w)'.active = picked[w]
                         /\ Rec(w)'.pending = Rec(w).pending /\ Rec(w)'.count = Rec(w).count
<1>0. TypeOK /\ Home \in [Workers -> Instances]
  BY AdaptiveAssumption DEF IInv
<1>3. ~ Create(w) => current' = current
  BY Kinds, MovingFrame, NotingFrame, SwitchFrame, ObservingFrame, RaisingFrame
     DEF Begin, Lookup, ClassifyTraffic, Prime, Route, Execute
<1>4. ASSUME Create(w)
      PROVE  /\ current'[Home[w]] = w
             /\ Rec(w)' \in ClientState
             /\ Rec(w)'.lastCheck = WindowOf(now[w])
             /\ Rec(w)'.pending = None /\ Rec(w)'.since = {}
  <2> PICK st : st = [ts |-> <<>>, active |-> Policy["warmup"], lastCheck |-> WindowOf(now[w]),
                      pending |-> None, count |-> 0,
                      asked |-> None, since |-> {}, latest |-> -1, contested |-> 0]
    OBVIOUS
  <2>1. /\ st \in ClientState /\ st.lastCheck = WindowOf(now[w])
        /\ st.pending = None /\ st.since = {}
    BY <1>4, CreatedType DEF Create, Goto
  <2>2. current'[Home[w]] = w /\ records'[w] = st
    BY <1>0, <1>4 DEF Create, TypeOK
  <2>3. QED
    BY <2>1, <2>2 DEF Rec
<1>5. ASSUME Noting(w) \/ Switch(w) \/ Observing(w)
      PROVE  /\ St(w) = Rec(w) /\ Rec(w) \in ClientState
             /\ \A st : SetSt(w, st) => Rec(w)' = st
  <2>1. pc[w] \notin Homeless /\ UNCHANGED current
    BY <1>5, NotingFrame, SwitchFrame, ObservingFrame DEF Goto
  <2>2. /\ mine[w] = current[Home[w]] /\ mine[w] \in Workers
        /\ St(w) = Rec(w) /\ Rec(w) \in ClientState
    BY <2>1, OneRecord
  <2>3. ASSUME NEW st, SetSt(w, st)
        PROVE  Rec(w)' = st
    <3>1. records'[mine[w]] = st
      BY <1>0, <2>2, <2>3 DEF SetSt, TypeOK
    <3>2. QED
      BY <2>1, <2>2, <3>1 DEF Rec
  <2>4. QED
    BY <2>2, <2>3
<1>6. ~ Create(w) /\ ~ Noting(w) /\ ~ Switch(w) => SameSelection(Rec(w)', Rec(w))
  <2>1. CASE Observing(w)
    <3>1. PICK st \in ClientState : SetSt(w, st) /\ SameSelection(st, St(w))
      BY <2>1, ArrivalsWritten
    <3>2. QED
      BY <2>1, <3>1, <1>5
  <2>2. CASE UNCHANGED <<records, current>>
    BY <2>2 DEF Rec, SameSelection
  <2>3. QED
    BY <2>1, <2>2, Kinds, MovingFrame, RaisingFrame
       DEF Begin, Lookup, ClassifyTraffic, Prime, Route, Execute
<1> PICK st : st = Rec(w)
  OBVIOUS
<1>7. ASSUME Claim(w)
      PROVE  /\ Rec(w)'.active = st.active /\ Rec(w)'.lastCheck = WindowOf(now[w])
             /\ Rec(w)'.pending = st.pending /\ Rec(w)'.count = st.count
             /\ Rec(w)'.asked = st.asked /\ Rec(w)'.since = st.since
  <2>1. Rec(w)' = [st EXCEPT !.lastCheck = WindowOf(now[w])] /\ st \in ClientState
    BY <1>5, <1>7 DEF Noting, Claim
  <2>2. QED
    BY <2>1 DEF ClientState
<1>8. ASSUME Decide(w)
      PROVE  /\ Rec(w)'.active = st.active /\ Rec(w)'.lastCheck = st.lastCheck
             /\ Rec(w)'.pending = st.pending /\ Rec(w)'.count = st.count
             /\ IF picked[w] # st.active
                  THEN Rec(w)'.asked = picked[w] /\ Rec(w)'.since = AskedSince(w)
                  ELSE Rec(w)'.asked = None /\ Rec(w)'.since = {}
  <2> PICK a : a = IF picked[w] # st.active THEN picked[w] ELSE None
    OBVIOUS
  <2> PICK ks : ks = IF picked[w] # st.active THEN AskedSince(w) ELSE {}
    OBVIOUS
  <2>1. Rec(w)' = [st EXCEPT !.asked = a, !.since = ks] /\ st \in ClientState
    BY <1>5, <1>8 DEF Noting, Decide
  <2>2. QED
    BY <2>1 DEF ClientState
<1>9. ASSUME Stay(w) \/ Clear(w)
      PROVE  /\ Rec(w)'.lastCheck = st.lastCheck /\ Rec(w)'.active = st.active
             /\ Rec(w)'.asked = st.asked /\ Rec(w)'.since = st.since
             /\ Rec(w)'.pending = None
  <2>1. Rec(w)' = [st EXCEPT !.pending = None, !.count = 0] /\ st \in ClientState
    BY <1>5, <1>9 DEF Noting, Stay, Clear
  <2>2. QED
    BY <2>1 DEF ClientState
<1>10. ASSUME CountAgain(w)
       PROVE  /\ Rec(w)'.lastCheck = st.lastCheck /\ Rec(w)'.active = st.active
              /\ Rec(w)'.asked = st.asked /\ Rec(w)'.since = st.since
              /\ Rec(w)'.pending = st.pending /\ Rec(w)'.count = st.count + 1
  <2>1. Rec(w)' = [st EXCEPT !.count = @ + 1] /\ st \in ClientState
    BY <1>5, <1>10 DEF Noting, CountAgain
  <2>2. QED
    BY <2>1 DEF ClientState
<1>11. ASSUME CountAnew(w)
       PROVE  /\ Rec(w)'.lastCheck = st.lastCheck /\ Rec(w)'.active = st.active
              /\ Rec(w)'.asked = st.asked /\ Rec(w)'.since = st.since
              /\ Rec(w)'.pending = picked[w] /\ Rec(w)'.count = 1
  <2>1. Rec(w)' = [st EXCEPT !.pending = picked[w], !.count = 1] /\ st \in ClientState
    BY <1>5, <1>11 DEF Noting, CountAnew
  <2>2. QED
    BY <2>1 DEF ClientState
<1>12. ASSUME Switch(w)
       PROVE  /\ Rec(w)'.lastCheck = st.lastCheck /\ Rec(w)'.active = picked[w]
              /\ Rec(w)'.asked = st.asked /\ Rec(w)'.since = st.since
              /\ Rec(w)'.pending = st.pending /\ Rec(w)'.count = st.count
  <2>1. Rec(w)' = [st EXCEPT !.active = picked[w]] /\ st \in ClientState
    BY <1>5, <1>12 DEF Switch
  <2>2. QED
    BY <2>1 DEF ClientState
<1>13. QED
  BY <1>3, <1>4, <1>6, <1>7, <1>8, <1>9, <1>10, <1>11, <1>12

\* What the step of w does to where it is.
LEMMA CallMoves ==
  ASSUME IInv, NEW w \in Workers, AllowRequest(w)
  PROVE  /\ Begin(w) \/ Lookup(w) \/ Create(w) \/ Inner(w) \/ Execute(w) \/ Raising(w)
         /\ clock' = clock
         /\ Begin(w) => /\ pc[w] = "idle" /\ pc'[w] = "lookup"
                        /\ now'[w] = clock /\ mine' = mine
         /\ Lookup(w) => /\ pc[w] = "lookup" /\ mine'[w] = current[Home[w]] /\ now' = now
                         /\ pc'[w] = IF current[Home[w]] = None THEN "create" ELSE "append"
         /\ Create(w) => /\ pc[w] = "create" /\ pc'[w] = "append"
                         /\ mine'[w] = w /\ now' = now
         /\ Execute(w) => pc[w] = "execute" /\ pc'[w] = "idle" /\ mine'[w] = None
         /\ Raising(w) => /\ pc[w] \in {"head", "drop", "classify"} /\ pc'[w] = "idle"
                          /\ mine'[w] = None
         /\ ~ Execute(w) => UNCHANGED <<governed, admitted, newest>>
         /\ ~ Switch(w) => switches' = switches
<1>0. /\ pc \in [Workers -> Points] /\ now \in [Workers -> Time \cup {None}]
      /\ mine \in [Workers -> Workers \cup {None}]
  BY DEF IInv, TypeOK, FlowTypeOK
<1>1. Begin(w) \/ Lookup(w) \/ Create(w) \/ Inner(w) \/ Execute(w) \/ Raising(w)
  BY Kinds DEF Inner
<1>2. CASE Begin(w)
  BY <1>0, <1>1, <1>2, RaisingFrame
     DEF Begin, ReadClock, Goto, history, Lookup, Create, Execute
<1>3. CASE Lookup(w)
  <2>1. mine'[w] = current[Home[w]]
    BY <1>0, <1>3 DEF Lookup
  <2>2. QED
    BY <1>0, <1>1, <1>3, <2>1, RaisingFrame
       DEF Lookup, Goto, flow, history, Begin, Create, Execute
<1>4. CASE Create(w)
  BY <1>0, <1>1, <1>4, RaisingFrame
     DEF Create, Goto, flow, history, Begin, Lookup, Execute
<1>5. CASE Inner(w)
  <2>1. /\ pc[w] \notin Homeless \cup {"execute"} /\ pc'[w] \notin Homeless
        /\ UNCHANGED <<clock, now, admitted, newest, governed>>
        /\ ~ Switch(w) => switches' = switches
    BY <1>5, InnerFrame
  <2>2. ~ Raising(w)
    BY <1>0, <2>1, RaisingFrame
  <2>3. QED
    BY <1>1, <2>1, <2>2 DEF Begin, Lookup, Create, Execute, Goto
<1>6. CASE Execute(w)
  BY <1>0, <1>1, <1>6, RaisingFrame
     DEF Execute, Respond, Goto, history, Begin, Lookup, Create
<1>7. CASE Raising(w)
  BY <1>0, <1>1, <1>7, RaisingFrame
     DEF history, Goto, Begin, Lookup, Create, Execute
<1>8. QED
  BY <1>1, <1>2, <1>3, <1>4, <1>5, <1>6, <1>7

\* What the steps in between read of the record.
LEMMA InnerReads ==
  ASSUME OneThread, IInv, OneThreadInv, NEW w \in Workers, Inner(w)
  PROVE  /\ Check(w) => pc'[w] = IF WindowOf(now[w]) # Rec(w).lastCheck
                                   THEN "claim" ELSE "route"
         /\ Decide(w) => pc'[w] = IF picked[w] # Rec(w).active THEN "compare" ELSE "stay"
         /\ Compare(w) => pc'[w] = IF Rec(w).pending = picked[w] THEN "again" ELSE "anew"
         /\ Dwell(w) => pc'[w] = IF Rec(w).count >= MinDwell THEN "switch" ELSE "route"
         /\ Route(w) => picked'[w] = Rec(w).active
         /\ Switch(w) => switches' = switches \cup {[by |-> Home[w], t |-> now[w],
                                                     from |-> Rec(w).active, to |-> picked[w],
                                                     windows |-> Rec(w).since]}
         /\ Decide(w) => /\ AskedSince(w) = (IF Rec(w).asked = picked[w] THEN Rec(w).since ELSE {})
                                              \cup {WindowOf(now[w])}
<1>0. pc \in [Workers -> Points] /\ picked \in [Workers -> Needed \cup {None}]
  BY DEF IInv, TypeOK
<1>1. St(w) = Rec(w)
  BY InnerFrame, OneRecord
<1>2. QED
  BY <1>0, <1>1 DEF Check, Decide, Compare, Dwell, Route, Switch, AskedSince, Goto

\* The numbers that the order of a call compares.
LEMMA Standing ==
  ASSUME IInv, NEW w \in Workers
  PROVE  /\ clock \in Int /\ newest \in Int /\ WindowOf(clock) \in Int /\ WindowOf(newest) \in Int
         /\ pc[w] # "idle" => now[w] \in Time /\ now[w] \in Int /\ WindowOf(now[w]) \in Int
         /\ \A t \in Time : t \in Int /\ t # -1
         /\ \A s, t \in Int : s <= t => WindowOf(s) <= WindowOf(t)
         /\ current[Home[w]] # None => Rec(w) \in ClientState /\ Rec(w).lastCheck \in Int
<1>1. TypeOK /\ FlowTypeOK /\ Locals(w) /\ Time \subseteq Int /\ -1 \notin Time
  BY MaxTimeAssumption DEF IInv, TypeOK, Time
<1>2. clock \in Int /\ newest \in Int /\ (pc[w] # "idle" => now[w] \in Time)
  BY <1>1 DEF Locals, TypeOK, FlowTypeOK
<1>3. \A s, t \in Int : s <= t => WindowOf(s) <= WindowOf(t)
  BY WindowOfMonotone
<1>4. current[Home[w]] # None => Rec(w) \in ClientState
  <2>1. Home[w] \in Instances
    BY AdaptiveAssumption
  <2>2. QED
    BY <2>1 DEF IInv, TypeOK, Owned, Rec
<1>5. current[Home[w]] # None => Rec(w).lastCheck \in Int
  BY <1>4 DEF ClientState
<1>6. QED
  BY <1>1, <1>2, <1>3, <1>4, <1>5, WindowAndOffset

\* The step of the algorithm makes its timestamp the newest.
LEMMA NewestMoves ==
  ASSUME IInv, NEW w \in Workers, InOrder(w), Execute(w)
  PROVE  /\ newest' = now[w]
         /\ governed' = governed \cup {<<WindowOf(now[w]), picked[w]>>}
         /\ picked[w] \in Needed
<1>1. pc[w] = "execute"
  BY DEF Execute, Goto
<1>2. newest <= now[w] /\ now[w] \in Int /\ newest \in Int
  BY <1>1, Standing DEF InOrder
<1>3. newest' = IF now[w] > newest THEN now[w] ELSE newest
  BY DEF Execute, Respond
<1>4. newest' = now[w]
  BY <1>2, <1>3
<1>5. governed' = governed \cup {<<WindowOf(now[w]), picked[w]>>}
  BY DEF Execute
<1>6. picked[w] \in Needed
  BY ExecuteResponds
<1>7. QED
  BY <1>4, <1>5, <1>6

\* The time only moves on.
LEMMA InOrderStep ==
  ASSUME OneThread, IInv, OneThreadInv, NEW w \in Workers, AllowRequest(w)
  PROVE  InOrder(w)'
<1>0. /\ InOrder(w) /\ Locals(w) /\ None \notin Workers
      /\ ~ Create(w) => current' = current
      /\ Create(w) => current'[Home[w]] = w
  BY RecordMoves, AdaptiveAssumption DEF IInv, OneThreadInv
<1>1. clock \in Int /\ newest \in Int /\ (pc[w] # "idle" => now[w] \in Int)
  BY Standing
<1>2. CASE Begin(w) \/ Lookup(w)
  <2>1. pc[w] \in {"idle", "lookup"} /\ mine[w] = None
    BY <1>0, <1>2 DEF Begin, Lookup, Goto, Locals
  <2>2. ~ Create(w) /\ ~ Execute(w) /\ ~ Switch(w)
    BY <2>1 DEF Create, Execute, Switch, Goto
  <2>3. UNCHANGED <<governed, admitted, newest, switches, clock, current>>
    BY <1>0, <2>2, CallMoves
  <2>4. CASE Begin(w)
    <3>1. pc'[w] = "lookup" /\ now'[w] = clock /\ mine'[w] = None
      BY <2>1, <2>4, CallMoves
    <3>2. QED
      BY <3>1, <2>3, <1>0, <1>1 DEF InOrder
  <2>5. CASE Lookup(w)
    <3>1. /\ pc'[w] = IF current[Home[w]] = None THEN "create" ELSE "append"
          /\ pc[w] = "lookup" /\ now'[w] = now[w] /\ mine'[w] = current[Home[w]]
      BY <2>5, CallMoves
    <3>2. QED
      BY <3>1, <2>3, <1>0, <1>1 DEF InOrder
  <2>6. QED
    BY <1>2, <2>4, <2>5
<1>3. CASE Create(w)
  BY <1>0, <1>1, <1>3, CallMoves DEF InOrder, Execute, Switch, Create, Goto
<1>4. CASE Execute(w)
  <2>1. pc[w] = "execute"
    BY <1>4 DEF Execute, Goto
  <2>2. newest' = now[w] /\ current[Home[w]] # None
    BY <1>0, <1>4, <2>1, NewestMoves, OneRecord
  <2>3. QED
    BY <1>0, <1>1, <1>4, <2>1, <2>2, CallMoves DEF InOrder, Create, Goto
<1>5. CASE Inner(w)
  <2>1. /\ pc[w] \notin Homeless /\ pc'[w] \notin Homeless
        /\ UNCHANGED <<clock, now, newest, current, mine>>
    BY <1>5, InnerFrame
  <2>2. current[Home[w]] # None
    BY <2>1, OneRecord
  <2>3. QED
    BY <1>0, <1>1, <2>1, <2>2 DEF InOrder
<1>6. CASE Raising(w)
  <2>1. pc[w] \in {"head", "drop", "classify"} /\ pc'[w] = "idle" /\ mine'[w] = None
    BY <1>6, CallMoves
  <2>2. current[Home[w]] # None
    BY <2>1, OneRecord
  <2>3. ~ Create(w) /\ UNCHANGED <<clock, newest>>
    BY <1>6, <2>1, RaisingFrame DEF Create, Goto
  <2>4. newest <= clock
    BY <1>0 DEF InOrder
  <2>5. QED
    BY <1>0, <2>1, <2>2, <2>3, <2>4 DEF InOrder
<1>7. QED
  BY <1>2, <1>3, <1>4, <1>5, <1>6, CallMoves

\* A window is checked once.
LEMMA CheckedStep ==
  ASSUME OneThread, IInv, OneThreadInv, NEW w \in Workers, AllowRequest(w)
  PROVE  Checked(w)'
<1>0. InOrder(w) /\ Checked(w)
  BY DEF OneThreadInv
<1>1. /\ clock \in Int /\ newest \in Int /\ WindowOf(clock) \in Int /\ WindowOf(newest) \in Int
      /\ pc[w] # "idle" => now[w] \in Int /\ WindowOf(now[w]) \in Int
      /\ \A s, t \in Int : s <= t => WindowOf(s) <= WindowOf(t)
      /\ current[Home[w]] # None => Rec(w).lastCheck \in Int
  BY Standing
<1>2. CASE Begin(w) \/ Lookup(w)
  <2>1. pc[w] \in {"idle", "lookup"}
    BY <1>2 DEF Begin, Lookup, Goto
  <2>2. ~ Create(w) /\ ~ Execute(w) /\ ~ Noting(w) /\ ~ Switch(w)
    BY <2>1, NotingFrame DEF Create, Execute, Switch, Goto
  <2>3. UNCHANGED <<newest, clock, current>> /\ Rec(w)'.lastCheck = Rec(w).lastCheck
    BY <2>2, CallMoves, RecordMoves DEF SameSelection
  <2>4. pc'[w] \in {"lookup", "create", "append"}
    BY <1>2, CallMoves
  <2>5. now'[w] = clock \/ (pc[w] # "idle" /\ now'[w] = now[w])
    BY <1>2, CallMoves
  <2>6. QED
    BY <2>3, <2>4, <2>5, <1>0, <1>1 DEF Checked, InOrder
<1>3. CASE Create(w)
  <2>1. pc[w] = "create" /\ newest = -1
    BY <1>0, <1>3 DEF Create, Goto, InOrder
  <2>2. UNCHANGED <<newest, clock>> /\ pc'[w] = "append" /\ now'[w] = now[w]
    BY <1>3, <2>1, CallMoves DEF Execute, Goto
  <2>3. Rec(w)'.lastCheck = WindowOf(now[w])
    BY <1>3, RecordMoves
  <2>4. now[w] <= clock
    BY <2>1, <1>0 DEF InOrder
  <2>5. QED
    BY <2>1, <2>2, <2>3, <2>4, <1>1 DEF Checked
<1>4. CASE Execute(w) \/ Raising(w)
  <2>1. /\ pc[w] \in {"head", "drop", "classify", "execute"} /\ pc'[w] = "idle"
        /\ clock' = clock
    BY <1>4, CallMoves
  <2>2. ~ Create(w) /\ ~ Switch(w) /\ ~ Noting(w)
    <3>1. CASE Execute(w)
      BY <3>1, NotingFrame DEF Execute, Create, Switch, Goto
    <3>2. CASE Raising(w)
      <4>1. ~ Inner(w)
        <5>1. pc'[w] \notin Homeless \/ ~ Inner(w)
          BY InnerFrame
        <5>2. QED
          BY <5>1, <2>1
      <4>2. QED
        BY <4>1, <2>1 DEF Inner, Create, Goto
    <3>3. QED
      BY <1>4, <3>1, <3>2
  <2>3. current[Home[w]] # None /\ UNCHANGED current /\ Rec(w)'.lastCheck = Rec(w).lastCheck
    BY <2>1, <2>2, OneRecord, RecordMoves DEF SameSelection
  <2>4. newest' = newest \/ (newest' = now[w] /\ pc[w] = "execute")
    BY <1>0, <1>4, <2>1, NewestMoves, RaisingFrame, CallMoves
  <2>5. QED
    BY <2>1, <2>3, <2>4, <1>0, <1>1 DEF Checked
<1>5. CASE Inner(w)
  <2>1. /\ pc[w] \notin Homeless \cup {"execute"} /\ pc'[w] \notin Homeless
        /\ UNCHANGED <<clock, now, newest, current>>
    BY <1>5, InnerFrame
  <2>2. current[Home[w]] # None /\ Rec(w).lastCheck \in Int
    BY <2>1, <1>1, OneRecord
  <2>3. newest <= now[w] /\ now[w] <= clock
    BY <2>1, <1>0 DEF InOrder
  <2>4. CASE Claim(w)
    <3>1. pc[w] = "claim" /\ pc'[w] = "classify" /\ Rec(w)'.lastCheck = WindowOf(now[w])
      BY <1>5, <2>4, InnerAt, InnerPath, RecordMoves
    <3>2. QED
      BY <3>1, <2>1, <2>2, <2>3, <1>0, <1>1 DEF Checked
  <2>5. CASE ~ Claim(w)
    <3>1. Rec(w)'.lastCheck = Rec(w).lastCheck
      <4>1. ~ Create(w)
        BY <2>1 DEF Create, Goto
      <4>2. QED
        BY <4>1, <2>5, RecordMoves DEF Noting, SameSelection
    <3>2. CASE Check(w)
      <4>1. /\ pc[w] = "check"
            /\ pc'[w] = IF WindowOf(now[w]) # Rec(w).lastCheck THEN "claim" ELSE "route"
        BY <1>5, <3>2, InnerAt, InnerReads
      <4>2. QED
        BY <3>1, <4>1, <2>1, <2>2, <2>3, <1>0, <1>1 DEF Checked
    <3>3. CASE ~ Check(w)
      <4>1. \/ pc[w] \in {"append", "test", "head", "drop"}
               /\ pc'[w] \in {"test", "head", "drop", "check"}
            \/ pc[w] \in Deciding /\ pc'[w] \in Deciding \cup {"stay", "clear", "route"}
            \/ pc[w] \in {"stay", "prime"} /\ pc'[w] = "route"
            \/ pc[w] = "clear" /\ pc'[w] = "prime"
            \/ pc[w] = "route" /\ pc'[w] = "execute"
        BY <1>5, <3>3, <2>5, InnerAt, InnerPath
      <4>2. QED
        BY <3>1, <4>1, <2>1, <2>2, <2>3, <1>0, <1>1 DEF Checked
    <3>4. QED
      BY <3>2, <3>3
  <2>6. QED
    BY <2>4, <2>5
<1>6. QED
  BY <1>2, <1>3, <1>4, <1>5, CallMoves

\* The algorithm that ran is the one that is active until the next window.
LEMMA GoverningStep ==
  ASSUME OneThread, IInv, OneThreadInv, NEW w \in Workers, AllowRequest(w)
  PROVE  /\ Governing(w)'
         /\ OneAlgorithmPerWindow'
         /\ \A g \in governed' : g = <<g[1], g[2]>> /\ g[1] \in Int /\ g[2] \in Needed
<1>0. /\ InOrder(w) /\ Checked(w) /\ Governing(w) /\ OneAlgorithmPerWindow
      /\ \A g \in governed : g = <<g[1], g[2]>> /\ g[1] \in Int /\ g[2] \in Needed
  BY DEF OneThreadInv
<1>1. /\ newest \in Int /\ WindowOf(newest) \in Int
      /\ pc[w] # "idle" => now[w] \in Int /\ now[w] # -1 /\ WindowOf(now[w]) \in Int
      /\ \A s, t \in Int : s <= t => WindowOf(s) <= WindowOf(t)
  BY Standing
<1>2. CASE Execute(w)
  <2>1. /\ pc[w] = "execute" /\ pc'[w] = "idle" /\ newest' = now[w]
        /\ governed' = governed \cup {<<WindowOf(now[w]), picked[w]>>} /\ picked[w] \in Needed
    BY <1>0, <1>2, NewestMoves, CallMoves
  <2>2. /\ current[Home[w]] # None /\ UNCHANGED current
        /\ Rec(w)'.active = Rec(w).active
    BY <1>2, <2>1, OneRecord, RecordMoves, NotingFrame
       DEF SameSelection, Create, Switch, Goto
  <2>3. newest <= now[w] /\ WindowOf(newest) <= WindowOf(now[w])
    BY <2>1, <1>0, <1>1 DEF InOrder
  <2> PICK k \in Int : k = WindowOf(now[w])
    BY <2>1, <1>1
  <2> PICK a \in Needed : a = picked[w]
    BY <2>1
  <2>4. a = Rec(w).active
    BY <2>1, <2>2, <1>0 DEF Governing
  <2>5. \A g \in governed : g[1] <= k /\ (g[1] = k => g[2] = a)
    BY <2>1, <2>2, <2>3, <2>4, <1>0, <1>1 DEF Governing
  <2>6. \A g \in governed' : g[1] <= k /\ (g[1] = k => g[2] = a)
    BY <2>1, <2>5
  <2>7. Governing(w)'
    BY <2>1, <2>2, <2>4, <2>6, <1>1 DEF Governing
  <2>8. OneAlgorithmPerWindow'
    BY <2>1, <2>5, <1>0 DEF OneAlgorithmPerWindow
  <2>9. \A g \in governed' : g = <<g[1], g[2]>> /\ g[1] \in Int /\ g[2] \in Needed
    BY <2>1, <1>0
  <2>10. QED
    BY <2>7, <2>8, <2>9
<1>3. CASE ~ Execute(w)
  <2>1. UNCHANGED <<governed, newest>>
    BY <1>3, CallMoves
  <2>2. CASE Create(w)
    <3>1. governed = {} /\ pc'[w] = "append"
      BY <2>2, <1>0, CallMoves DEF Create, Goto, InOrder
    <3>2. QED
      BY <3>1, <2>1, <1>0 DEF Governing, OneAlgorithmPerWindow
  <2>3. CASE Switch(w)
    <3>1. /\ pc[w] = "switch" /\ pc'[w] = "clear" /\ now'[w] = now[w]
          /\ UNCHANGED <<picked, current>>
      BY <2>3, InnerAt, InnerPath, InnerFrame DEF Inner, ClassifyTraffic, Route, Goto
    <3>2. Rec(w)'.active = picked[w]
      BY <2>3, RecordMoves
    <3>3. /\ current[Home[w]] # None
          /\ newest # -1 => WindowOf(newest) < WindowOf(now[w])
      BY <3>1, <1>0, OneRecord DEF Checked
    <3>4. QED
      BY <3>1, <3>2, <3>3, <2>1, <1>0 DEF Governing, OneAlgorithmPerWindow
  <2>4. CASE ~ Create(w) /\ ~ Switch(w)
    <3>1. current' = current /\ Rec(w)'.active = Rec(w).active
      BY <2>4, RecordMoves DEF SameSelection, Noting
    <3>2. CASE Begin(w) \/ Lookup(w) \/ Raising(w)
      <4>1. /\ pc'[w] \in {"idle", "lookup", "create", "append"}
            /\ pc[w] \in {"idle", "lookup", "head", "drop", "classify"}
        BY <3>2, CallMoves
      <4>2. QED
        BY <3>1, <4>1, <2>1, <1>0 DEF Governing, OneAlgorithmPerWindow
    <3>3. CASE Inner(w)
      <4>1. /\ now' = now /\ current[Home[w]] # None
            /\ ~ ClassifyTraffic(w) /\ ~ Route(w) => picked' = picked
        BY <3>3, InnerFrame, OneRecord
      <4>2. CASE Decide(w) \/ Route(w)
        <5>1. CASE Decide(w)
          <6>1. /\ pc'[w] = IF picked[w] # Rec(w).active THEN "compare" ELSE "stay"
                /\ pc[w] = "decide" /\ picked' = picked
            BY <3>3, <5>1, <4>1, InnerReads, InnerAt
          <6>2. QED
            BY <6>1, <3>1, <4>1, <2>1, <1>0 DEF Governing, OneAlgorithmPerWindow
        <5>2. CASE Route(w)
          <6>1. pc[w] = "route" /\ pc'[w] = "execute" /\ picked'[w] = Rec(w).active
            BY <3>3, <5>2, InnerAt, InnerPath, InnerReads
          <6>2. QED
            BY <6>1, <3>1, <4>1, <2>1, <1>0 DEF Governing, OneAlgorithmPerWindow
        <5>3. QED
          BY <4>2, <5>1, <5>2
      <4>3. CASE ~ Decide(w) /\ ~ Route(w)
        <5>1. /\ pc'[w] \notin {"execute", "clear"}
              /\ pc'[w] = "prime" => pc[w] = "clear"
              /\ pc'[w] \in Wanting => pc[w] \in Wanting
              /\ pc[w] \in Priming => pc'[w] \in Priming \cup {"route"}
              /\ pc[w] \notin {"route", "execute"}
              /\ ClassifyTraffic(w) => pc'[w] = "decide"
          BY <3>3, <4>3, <2>4, InnerAt, InnerPath
        <5>2. QED
          BY <5>1, <3>1, <4>1, <4>3, <2>1, <1>0 DEF Governing, OneAlgorithmPerWindow
      <4>4. QED
        BY <4>2, <4>3
    <3>4. QED
      BY <3>2, <3>3, <1>3, <2>4, CallMoves
  <2>5. QED
    BY <2>2, <2>3, <2>4
<1>4. QED
  BY <1>2, <1>3

\* The count of the hysteresis counts windows, and so a switch takes MinDwell
\* of them.
LEMMA DwellingStep ==
  ASSUME OneThread, IInv, OneThreadInv, NEW w \in Workers, AllowRequest(w)
  PROVE  Dwelling(w)' /\ SwitchNeedsDwell'
<1>0. /\ InOrder(w) /\ Checked(w) /\ Governing(w) /\ Dwelling(w) /\ Locals(w)
      /\ SwitchNeedsDwell
  BY DEF OneThreadInv, IInv
<1>1. pc[w] # "idle" => WindowOf(now[w]) \in Int
  BY Standing
<1>2. CASE Create(w)
  <2>1. Rec(w)'.pending = None /\ Rec(w)'.since = {} /\ pc'[w] = "append"
    BY <1>2, RecordMoves, CallMoves
  <2>2. switches' = switches
    BY <1>2 DEF Create, history
  <2>3. QED
    BY <2>1, <2>2, <1>0, FS_EmptySet DEF Dwelling, SwitchNeedsDwell
<1>3. CASE ~ Create(w) /\ ~ Inner(w)
  <2>1. ~ Noting(w) /\ ~ Switch(w)
    BY <1>3 DEF Inner
  <2>2. /\ current' = current /\ SameSelection(Rec(w)', Rec(w)) /\ switches' = switches
        /\ pc'[w] \in {"lookup", "create", "append", "idle"}
        /\ pc[w] \notin {"stay", "compare", "again", "anew"}
    BY <1>3, <2>1, RecordMoves, CallMoves
  <2>3. QED
    BY <2>2, <1>0 DEF SameSelection, Dwelling, SwitchNeedsDwell
<1>4. CASE Inner(w)
  <2>1. /\ current[Home[w]] # None /\ current' = current /\ Rec(w) \in ClientState
        /\ pc[w] \notin Homeless \cup {"execute"}
    BY <1>4, InnerFrame, OneRecord
  <2> PICK st \in ClientState : st = Rec(w)
    BY <2>1
  <2> PICK k \in Int : k = WindowOf(now[w])
    BY <2>1, <1>1
  <2>2. /\ IsFiniteSet(st.since) /\ st.since \in SUBSET Int /\ st.lastCheck \in Int
        /\ Cardinality(st.since) \in Nat /\ st.count \in Nat
        /\ \A j \in st.since : j <= st.lastCheck
    <3>1. IsFiniteSet(st.since) /\ \A j \in st.since : j <= st.lastCheck
      BY <2>1, <1>0 DEF Dwelling
    <3>2. QED
      BY <3>1, FS_CardinalityType DEF ClientState
  <2>3. ~ Create(w)
    BY <2>1 DEF Create, Goto
  <2>4. CASE Observing(w) \/ Moving(w) \/ ClassifyTraffic(w) \/ Prime(w) \/ Route(w)
    <3>1. ~ Noting(w) /\ ~ Switch(w)
      <4>1. pc[w] \in {"append", "test", "head", "drop", "check", "compare", "dwell",
                       "classify", "prime", "route"}
        BY <2>4, ObservingFrame, MovingFrame DEF Goto, ClassifyTraffic, Prime, Route
      <4>2. QED
        BY <4>1, NotingFrame DEF Switch, Goto
    <3>2. SameSelection(Rec(w)', st) /\ switches' = switches
      BY <2>3, <3>1, RecordMoves, CallMoves
    <3>3. CASE pc[w] = "compare"
      <4>1. pc'[w] = (IF st.pending = picked[w] THEN "again" ELSE "anew") /\ picked' = picked
        BY <1>4, <3>3, InnerAt, InnerReads, InnerFrame DEF ClassifyTraffic, Route, Goto
      <4>2. QED
        BY <3>2, <3>3, <4>1, <2>1, <2>2, <1>0 DEF SameSelection, Dwelling, SwitchNeedsDwell
    <3>4. CASE pc[w] = "dwell"
      <4>1. pc'[w] = (IF st.count >= MinDwell THEN "switch" ELSE "route") /\ picked' = picked
        BY <1>4, <3>4, InnerAt, InnerReads, InnerFrame DEF ClassifyTraffic, Route, Goto
      <4>2. QED
        BY <3>2, <3>4, <4>1, <2>1, <2>2, <1>0 DEF SameSelection, Dwelling, SwitchNeedsDwell
    <3>5. CASE pc[w] \notin {"compare", "dwell"}
      <4>1. /\ pc[w] \notin Wanting \cup {"stay", "claim", "decide", "clear"}
        BY <1>4, <3>1, <3>5, InnerAt DEF Noting
      <4>2. /\ pc'[w] \notin Wanting \cup {"stay"}
            /\ pc'[w] \in {"classify", "decide"} => pc[w] \in {"classify", "decide"}
        BY <1>4, <4>1, InnerPath
      <4>3. QED
        BY <3>2, <4>1, <4>2, <2>1, <2>2, <1>0 DEF SameSelection, Dwelling, SwitchNeedsDwell
    <3>6. QED
      BY <3>3, <3>4, <3>5
  <2>5. CASE Claim(w)
    <3>1. /\ pc[w] = "claim" /\ pc'[w] = "classify"
          /\ Rec(w)'.lastCheck = k /\ Rec(w)'.since = st.since
          /\ Rec(w)'.pending = st.pending /\ Rec(w)'.count = st.count
          /\ Rec(w)'.asked = st.asked
      BY <1>4, <2>5, InnerAt, InnerPath, RecordMoves
    <3>2. switches' = switches
      BY <3>1, CallMoves DEF Switch, Goto
    <3>3. st.lastCheck < k
      BY <3>1, <2>1, <1>0 DEF Checked
    <3>4. \A j \in st.since : j < k /\ j <= k
      BY <2>2, <3>3
    <3>5. QED
      BY <3>1, <3>2, <3>4, <2>1, <2>2, <1>0 DEF Dwelling, SwitchNeedsDwell
  <2>6. CASE Decide(w)
    <3>1. /\ pc[w] = "decide" /\ picked' = picked
          /\ pc'[w] = IF picked[w] # st.active THEN "compare" ELSE "stay"
          /\ Rec(w)'.lastCheck = st.lastCheck
          /\ Rec(w)'.pending = st.pending /\ Rec(w)'.count = st.count
          /\ IF picked[w] # st.active
               THEN Rec(w)'.asked = picked[w] /\ Rec(w)'.since = AskedSince(w)
               ELSE Rec(w)'.asked = None /\ Rec(w)'.since = {}
      BY <1>4, <2>6, InnerAt, InnerReads, RecordMoves, InnerFrame
         DEF ClassifyTraffic, Route, Goto
    <3>2. switches' = switches
      BY <3>1, CallMoves DEF Switch, Goto
    <3>3. st.lastCheck = k /\ \A j \in st.since : j < k
      BY <3>1, <2>1, <1>0 DEF Checked, Dwelling
    <3>4. st.pending # None => st.pending = st.asked /\ st.count <= Cardinality(st.since)
      BY <3>1, <2>1, <1>0 DEF Dwelling
    <3>5. CASE picked[w] # st.active
      <4> PICK ks : ks = IF st.asked = picked[w] THEN st.since ELSE {}
        OBVIOUS
      <4>1. AskedSince(w) = ks \cup {k}
        BY <1>4, <2>6, InnerReads
      <4>2. IsFiniteSet(ks) /\ k \notin ks
        BY <2>2, <3>3, FS_EmptySet
      <4>3. /\ IsFiniteSet(ks \cup {k}) /\ Cardinality(ks) \in Nat
            /\ Cardinality(ks \cup {k}) = Cardinality(ks) + 1
        BY <4>2, FS_AddElement, FS_CardinalityType
      <4>4. \A j \in ks \cup {k} : j <= st.lastCheck
        BY <2>2, <3>3
      <4>5. st.pending = picked[w] => st.count + 1 <= Cardinality(ks \cup {k})
        <5>1. picked[w] # None
          BY <3>1, <1>0 DEF Locals
        <5>2. QED
          BY <5>1, <3>4, <4>3, <2>2
      <4>6. /\ pc'[w] = "compare" /\ Rec(w)'.since = ks \cup {k}
            /\ Rec(w)'.asked = picked[w]
        BY <3>1, <3>5, <4>1
      <4>7. QED
        BY <3>1, <3>2, <4>3, <4>4, <4>5, <4>6, <2>1, <1>0 DEF Dwelling, SwitchNeedsDwell
    <3>6. CASE picked[w] = st.active
      <4>1. pc'[w] = "stay" /\ Rec(w)'.since = {}
        BY <3>1, <3>6
      <4>2. QED
        BY <4>1, <3>2, <2>1, <1>0, FS_EmptySet DEF Dwelling, SwitchNeedsDwell
    <3>7. QED
      BY <3>5, <3>6
  <2>7. CASE Stay(w) \/ Clear(w)
    <3>1. /\ pc'[w] \in {"route", "prime"} /\ Rec(w)'.pending = None
          /\ Rec(w)'.lastCheck = st.lastCheck /\ Rec(w)'.since = st.since
      BY <1>4, <2>7, InnerAt, InnerPath, RecordMoves
    <3>2. switches' = switches
      BY <1>4, <2>7, InnerAt, CallMoves DEF Switch, Goto
    <3>3. QED
      BY <3>1, <3>2, <2>1, <2>2, <1>0 DEF Dwelling, SwitchNeedsDwell
  <2>8. CASE CountAgain(w) \/ CountAnew(w)
    <3>1. /\ pc[w] \in {"again", "anew"} /\ pc'[w] = "dwell" /\ picked' = picked
          /\ Rec(w)'.lastCheck = st.lastCheck /\ Rec(w)'.since = st.since
          /\ Rec(w)'.asked = st.asked
      BY <1>4, <2>8, InnerAt, InnerPath, RecordMoves, InnerFrame
         DEF ClassifyTraffic, Route, Goto
    <3>2. switches' = switches
      BY <3>1, CallMoves DEF Switch, Goto
    <3>3. 1 <= Cardinality(st.since) /\ st.asked = picked[w]
      BY <3>1, <2>1, <1>0 DEF Dwelling
    <3>4. Rec(w)'.pending = picked[w] /\ Rec(w)'.count <= Cardinality(st.since)
      <4>1. CASE CountAgain(w)
        <5>1. /\ pc[w] = "again" /\ Rec(w)'.pending = st.pending
              /\ Rec(w)'.count = st.count + 1
          BY <1>4, <4>1, InnerAt, RecordMoves
        <5>2. QED
          BY <5>1, <2>1, <1>0 DEF Dwelling
      <4>2. CASE CountAnew(w)
        BY <4>2, <3>3, RecordMoves
      <4>3. QED
        BY <2>8, <4>1, <4>2
    <3>5. QED
      BY <3>1, <3>2, <3>3, <3>4, <2>1, <2>2, <1>0 DEF Dwelling, SwitchNeedsDwell
  <2>9. CASE Switch(w)
    <3>1. /\ pc[w] = "switch" /\ pc'[w] = "clear" /\ picked' = picked
          /\ Rec(w)'.lastCheck = st.lastCheck /\ Rec(w)'.since = st.since
          /\ Rec(w)'.asked = st.asked
          /\ Rec(w)'.pending = st.pending /\ Rec(w)'.count = st.count
      BY <1>4, <2>9, InnerAt, InnerPath, RecordMoves, InnerFrame
         DEF ClassifyTraffic, Route, Goto
    <3> PICK s : s = [by |-> Home[w], t |-> now[w], from |-> st.active,
                      to |-> picked[w], windows |-> st.since]
      OBVIOUS
    <3>2. switches' = switches \cup {s} /\ s.windows = st.since
      BY <1>4, <2>9, InnerReads
    <3>3. /\ st.pending = picked[w] /\ st.count >= MinDwell /\ picked[w] # None
          /\ st.pending # None => st.pending = st.asked /\ st.count <= Cardinality(st.since)
      BY <3>1, <2>1, <1>0 DEF Dwelling, Locals
    <3>4. Cardinality(s.windows) >= MinDwell
      BY <3>2, <3>3, <2>2, AdaptiveAssumption
    <3>5. SwitchNeedsDwell'
      BY <3>2, <3>4, <1>0 DEF SwitchNeedsDwell
    <3>6. QED
      BY <3>1, <3>3, <3>5, <2>1, <2>2, <1>0 DEF Dwelling
  <2>10. QED
    BY <1>4, <2>4, <2>5, <2>6, <2>7, <2>8, <2>9 DEF Inner, Noting
<1>5. QED
  BY <1>2, <1>3, <1>4

LEMMA OneThreadStep ==
  ASSUME OneThread, IInv, OneThreadInv, NEW w \in Workers, AllowRequest(w)
  PROVE  OneThreadInv'
<1>1. ASSUME NEW v \in Workers
      PROVE  (InOrder(v) /\ Checked(v) /\ Governing(v) /\ Dwelling(v))'
  BY InOrderStep, CheckedStep, GoverningStep, DwellingStep DEF OneThread
<1>2. QED
  BY <1>1, GoverningStep, DwellingStep DEF OneThreadInv

LEMMA InitOneThreadInv == Init => OneThreadInv
<1> SUFFICES ASSUME Init PROVE OneThreadInv
  OBVIOUS
<1>1. ASSUME NEW w \in Workers
      PROVE  InOrder(w) /\ Checked(w) /\ Governing(w) /\ Dwelling(w)
  <2>1. current[Home[w]] = None /\ pc[w] = "idle" /\ mine[w] = None
    BY AdaptiveAssumption DEF Init
  <2>2. InOrder(w)
    BY <2>1 DEF Init, FlowInit, InOrder
  <2>3. QED
    BY <2>1, <2>2 DEF Checked, Governing, Dwelling
<1>2. QED
  BY <1>1 DEF Init, OneThreadInv, OneAlgorithmPerWindow, SwitchNeedsDwell

LEMMA NextOneThreadInv ==
  ASSUME OneThread PROVE IInv /\ OneThreadInv /\ [Next]_vars => OneThreadInv'
<1> SUFFICES ASSUME IInv, OneThreadInv, [Next]_vars PROVE OneThreadInv'
  OBVIOUS
<1>1. CASE \E w \in Workers : AllowRequest(w)
  BY <1>1, OneThreadStep
<1>2. CASE (Tick /\ UNCHANGED <<adaptive, history>>) \/ UNCHANGED vars
  <2>1. UNCHANGED <<now, admitted, newest, adaptive, history>> /\ (Tick \/ UNCHANGED clock)
    BY <1>2 DEF Tick, vars, flow
  <2>2. clock \in Int /\ clock <= clock' /\ clock' \in Int
    <3>1. clock \in Int
      BY MaxTimeAssumption DEF IInv, TypeOK, FlowTypeOK, Time
    <3>2. QED
      BY <2>1, <3>1 DEF Tick
  <2>3. WindowOf(clock) <= WindowOf(clock')
    BY <2>2, WindowOfMonotone
  <2>4. ASSUME NEW w \in Workers
        PROVE  (InOrder(w) /\ Checked(w) /\ Governing(w) /\ Dwelling(w))'
    <3>1. /\ InOrder(w) /\ Checked(w) /\ Governing(w) /\ Dwelling(w)
          /\ newest \in Int /\ WindowOf(clock) \in Int /\ WindowOf(clock') \in Int
          /\ pc[w] # "idle" => now[w] \in Int
      BY <2>2, Standing, WindowAndOffset DEF OneThreadInv
    <3>2. Rec(w)' = Rec(w)
      BY <2>1 DEF adaptive, Rec
    <3>3. InOrder(w)'
      BY <3>1, <2>1, <2>2 DEF InOrder, adaptive, history
    <3>4. current[Home[w]] # None => Rec(w).lastCheck \in Int
      <4>1. Home[w] \in Instances
        BY AdaptiveAssumption
      <4>2. current[Home[w]] # None => Rec(w) \in ClientState
        BY <4>1 DEF IInv, TypeOK, Owned, Rec
      <4>3. QED
        BY <4>2 DEF ClientState
    <3>5. Checked(w)'
      BY <3>1, <3>2, <3>4, <2>1, <2>3 DEF Checked, adaptive, history
    <3>6. Governing(w)' /\ Dwelling(w)'
      BY <3>1, <3>2, <2>1 DEF Governing, Dwelling, adaptive, history
    <3>7. QED
      BY <3>3, <3>5, <3>6
  <2>5. QED
    BY <2>1, <2>4 DEF OneThreadInv, OneAlgorithmPerWindow, SwitchNeedsDwell, history
<1>3. QED
  BY <1>1, <1>2 DEF Next

\* When the calls come one after the other, a clock-aligned window is governed
\* by one algorithm, so that no allowance starts anew within it.
THEOREM WindowHasOneAlgorithm ==
  ASSUME OneThread PROVE Spec => []OneAlgorithmPerWindow
<1>1. OneThreadInv => OneAlgorithmPerWindow
  BY DEF OneThreadInv
<1>2. QED
  BY <1>1, InitInv, NextInv, InitOneThreadInv, NextOneThreadInv, PTL DEF Spec

\* When the calls come one after the other, a switch was asked for in MinDwell
\* different windows.
THEOREM SwitchDwells ==
  ASSUME OneThread PROVE Spec => []SwitchNeedsDwell
<1>1. OneThreadInv => SwitchNeedsDwell
  BY DEF OneThreadInv
<1>2. QED
  BY <1>1, InitInv, NextInv, InitOneThreadInv, NextOneThreadInv, PTL DEF Spec

-----------------------------------------------------------------------------
(* The hand-off at a switch.                                               *)

\* Before a step of the algorithm, its window has been governed by no other.
LEMMA GovernedBefore ==
  ASSUME OneThread, IInv, OneThreadInv, NEW w \in Workers,
         pc[w] \in Deciding \cup {"execute"}
  PROVE  \A g \in governed :
           /\ g[1] \in Int /\ g[1] <= WindowOf(newest) /\ newest # -1
           /\ g[1] <= WindowOf(now[w])
           /\ pc[w] = "execute" /\ g[1] = WindowOf(now[w]) => g[2] = picked[w]
           /\ pc[w] # "execute" => g[1] < WindowOf(now[w])
           /\ pc[w] # "execute" /\ g[1] = WindowOf(newest) => g[2] = Rec(w).active
<1>0. /\ InOrder(w) /\ Checked(w) /\ Governing(w) /\ current[Home[w]] # None
      /\ \A g \in governed : g[1] \in Int
  BY OneRecord DEF OneThreadInv
<1>1. /\ newest \in Int /\ WindowOf(newest) \in Int /\ now[w] \in Int /\ WindowOf(now[w]) \in Int
      /\ newest <= now[w] /\ WindowOf(newest) <= WindowOf(now[w])
  BY <1>0, Standing DEF InOrder
<1>2. \A g \in governed : g[1] \in Int /\ g[1] <= WindowOf(newest) /\ newest # -1
  BY <1>0 DEF Governing
<1>3. CASE pc[w] = "execute"
  BY <1>0, <1>1, <1>2, <1>3 DEF Governing
<1>4. CASE pc[w] \in Deciding
  <2>1. newest # -1 => WindowOf(newest) < WindowOf(now[w])
    BY <1>0, <1>4 DEF Checked
  <2>2. QED
    BY <2>1, <1>0, <1>1, <1>2, <1>4 DEF Governing
<1>5. QED
  BY <1>3, <1>4

\* The step of the algorithm adds the call's request, if any, to its window.
LEMMA ExecuteAdds ==
  ASSUME OneThread, IInv, OneThreadInv, NEW w \in Workers, Execute(w)
  PROVE  /\ pc[w] = "execute" /\ pc'[w] = "idle"
         /\ picked[w] \in Needed /\ picked[w] = Rec(w).active
         /\ now[w] \in Time /\ newest' = now[w] /\ newest <= now[w]
         /\ governed' = governed \cup {<<WindowOf(now[w]), picked[w]>>}
         /\ switches' = switches
         /\ \A a \in admitted' : a \in admitted \/ a.t = now[w]
         /\ admitted' = admitted \/ admitted' = admitted \cup {NewRequest(w)}
<1>1. pc[w] = "execute" /\ pc'[w] = "idle" /\ switches' = switches
  BY DEF Execute, Goto, IInv, TypeOK
<1>2. picked[w] = Rec(w).active
  BY <1>1, OneRecord DEF OneThreadInv, Governing
<1>3. newest <= now[w] /\ InOrder(w)
  BY <1>1 DEF OneThreadInv, InOrder
<1>4. picked[w] \in Needed /\ now[w] \in Time
  BY ExecuteResponds
<1>5. admitted' = admitted \/ admitted' = admitted \cup {NewRequest(w)}
  BY ExecuteResponds, RespondInv DEF IInv
<1>6. \A a \in admitted' : a \in admitted \/ a.t = now[w]
  BY <1>5 DEF NewRequest
<1>7. QED
  BY <1>1, <1>2, <1>3, <1>4, <1>5, <1>6, NewestMoves

\* Every request is admitted by the algorithm of its window.
LEMMA AdmittedStep ==
  ASSUME OneThread, IInv, OneThreadInv, AdmittedIsGoverned,
         NEW w \in Workers, AllowRequest(w)
  PROVE  AdmittedIsGoverned'
<1>1. CASE Execute(w)
  <2> PICK k : k = WindowOf(now[w])
    OBVIOUS
  <2>1. /\ governed' = governed \cup {<<k, picked[w]>>}
        /\ \A a \in admitted' : a \in admitted \/ WindowOf(a.t) = k
    BY <1>1, ExecuteAdds
  <2>2. <<k, picked[w]>> \in governed' /\ <<k, picked[w]>>[1] = k
    BY <2>1
  <2>3. QED
    BY <2>1, <2>2 DEF AdmittedIsGoverned, WindowOf
<1>2. CASE ~ Execute(w)
  BY <1>2, CallMoves DEF AdmittedIsGoverned
<1>3. QED
  BY <1>1, <1>2

\* Before the step of a call whose algorithm has not run in its window, nothing
\* is admitted there.
LEMMA UngovernedIsEmpty ==
  ASSUME IInv, AdmittedIsGoverned, NEW k, \A g \in governed : g[1] # k
  PROVE  InWindow(k) = {} /\ Cardinality(InWindow(k)) = 0
<1>1. InWindow(k) = {}
  BY DEF AdmittedIsGoverned, InWindow
<1>2. QED
  BY <1>1, FS_EmptySet

\* How a call comes to the points around a switch, and from them.
LEMMA Onward ==
  ASSUME IInv, NEW w \in Workers, AllowRequest(w)
  PROVE  /\ Switch(w) => /\ pc[w] = "switch" /\ pc'[w] = "clear"
                         /\ UNCHANGED <<now, picked, current, newest>>
                         /\ ~ Create(w) /\ ~ Execute(w)
         /\ pc'[w] \in Deciding => Claim(w) \/ pc[w] \in Deciding
         /\ pc'[w] \in Priming /\ ~ Switch(w) => pc[w] = "clear" /\ pc'[w] = "prime"
         /\ pc[w] \in Priming => pc'[w] = "prime" \/ Prime(w)
         /\ pc'[w] \in Deciding \cup Priming => now' = now
         /\ pc'[w] # "idle" => now'[w] = clock \/ (pc[w] # "idle" /\ now'[w] = now[w])
         /\ ~ Execute(w) /\ ~ Prime(w) => entries' = entries
<1>1. CASE Inner(w)
  <2>1. Switch(w) => ~ Create(w) /\ ~ Execute(w) /\ ~ ClassifyTraffic(w) /\ ~ Route(w)
    BY DEF Switch, Create, Execute, ClassifyTraffic, Route, Goto
  <2>2. QED
    BY <1>1, <2>1, InnerFrame, InnerPath, InnerAt
<1>2. CASE ~ Inner(w)
  <2>1. /\ ~ Switch(w) /\ ~ Prime(w)
        /\ Begin(w) \/ Lookup(w) \/ Create(w) \/ Execute(w) \/ Raising(w)
    BY <1>2, CallMoves DEF Inner
  <2>2. /\ pc'[w] \notin Deciding \cup Priming /\ pc[w] \notin Priming
        /\ pc'[w] # "idle" => now'[w] = clock \/ (pc[w] # "idle" /\ now'[w] = now[w])
    BY <2>1, CallMoves
  <2>3. ~ Execute(w) => entries' = entries
    BY <2>1, RaisingFrame DEF Begin, Lookup, Create
  <2>4. QED
    BY <2>1, <2>2, <2>3, <1>2 DEF Inner
<1>3. QED
  BY <1>1, <1>2

\* The switch that a call makes.
LEMMA NewSwitch ==
  ASSUME OneThread, IInv, OneThreadInv, NEW w \in Workers, Switch(w)
  PROVE  switches' = switches \cup {[by |-> Home[w], t |-> now[w], from |-> Rec(w).active,
                                     to |-> picked[w], windows |-> Rec(w).since]}
BY InnerReads DEF Inner

\* The order of the switches.
LEMMA SwitchesStep ==
  ASSUME OneThread, IInv, OneThreadInv, SwitchesInOrder, NEW w \in Workers, AllowRequest(w)
  PROVE  SwitchesInOrder'
<1>0. /\ InOrder(w) /\ Checked(w) /\ Governing(w) /\ \A v \in Workers : v = w
      /\ clock' = clock
  BY CallMoves DEF OneThreadInv, OneThread
<1>1. /\ clock \in Int /\ newest \in Int /\ WindowOf(clock) \in Int
      /\ pc[w] # "idle" => now[w] \in Time /\ now[w] \in Int /\ WindowOf(now[w]) \in Int
      /\ \A t \in Time : t \in Int
      /\ \A s, t \in Int : s <= t => WindowOf(s) <= WindowOf(t)
  BY Standing
<1>2. \A s \in switches : /\ s.t \in Int /\ s.t <= clock /\ WindowOf(s.t) \in Int
                          /\ WindowOf(s.t) <= Rec(w).lastCheck
                          /\ (pc[w] # "idle" => s.t <= now[w])
                          /\ (pc[w] \in Deciding => WindowOf(s.t) < WindowOf(now[w]))
                          /\ (Latest(s) => Rec(w).active = s.to)
                          /\ (pc[w] \in Priming /\ Latest(s) => s.t = now[w])
  BY <1>1, WindowAndOffset DEF SwitchesInOrder, SwitchType
<1>3. CASE Switch(w)
  <2>1. pc[w] = "switch" /\ pc'[w] = "clear" /\ UNCHANGED <<current, picked, now>>
    BY <1>3, Onward
  <2>2. now'[w] = now[w]
    BY <2>1
  <2>3. /\ Rec(w)'.active = picked[w] /\ Rec(w)'.lastCheck = Rec(w).lastCheck
        /\ Rec(w).lastCheck = WindowOf(now[w]) /\ now[w] <= clock
        /\ Rec(w) \in ClientState /\ picked[w] # Rec(w).active
    BY <1>3, <2>1, <1>0, RecordMoves, OneRecord DEF Checked, InOrder, Governing
  <2> PICK t \in Time : t = now[w]
    BY <2>1, <1>1
  <2> PICK s : s = [by |-> Home[w], t |-> t, from |-> Rec(w).active, to |-> picked[w],
                    windows |-> Rec(w).since]
    OBVIOUS
  <2>4. switches' = switches \cup {s} /\ s.t = t /\ s.to = picked[w] /\ s.from # s.to
    BY <1>3, <2>3, NewSwitch
  <2>5. s \in SwitchType
    <3>1. Rec(w).since \in SUBSET Int
      BY <2>3 DEF ClientState
    <3>2. Rec(w).active \in Needed
      BY <2>3 DEF ClientState
    <3>3. picked[w] \in Needed
      BY <2>1 DEF IInv, TypeOK, Locals
    <3>4. Home[w] \in Instances
      BY AdaptiveAssumption
    <3>5. QED
      BY <3>1, <3>2, <3>3, <3>4 DEF SwitchType
  <2>6. ASSUME NEW r \in switches
        PROVE  /\ r.t \in Int /\ r.t < t /\ WindowOf(r.t) < WindowOf(t) /\ r.t <= clock
               /\ ~ Latest(r)'
    <3>1. /\ r.t \in Int /\ WindowOf(r.t) < WindowOf(t) /\ r.t <= clock
          /\ WindowOf(r.t) \in Int /\ WindowOf(t) \in Int
      BY <2>1, <1>1, <1>2
    <3>2. r.t < t
      <4>1. t \in Int /\ (t <= r.t => WindowOf(t) <= WindowOf(r.t))
        BY <3>1, <1>1
      <4>2. QED
        BY <4>1, <3>1
    <3>3. ~ Latest(r)'
      BY <3>1, <3>2, <2>4, <1>1 DEF Latest
    <3>4. QED
      BY <3>1, <3>2, <3>3
  <2>7. switches' \subseteq SwitchType /\ \A r \in switches' : r.from # r.to
    BY <2>4, <2>5 DEF SwitchesInOrder
  <2>8. \A q, r \in switches' : WindowOf(q.t) = WindowOf(r.t) => q = r
    <3>1. \A q, r \in switches : WindowOf(q.t) = WindowOf(r.t) => q = r
      BY DEF SwitchesInOrder
    <3>2. \A r \in switches : WindowOf(r.t) # WindowOf(t)
      <4>1. \A r \in switches : WindowOf(r.t) \in Int /\ WindowOf(t) \in Int
        BY <1>1, <1>2, WindowAndOffset
      <4>2. QED
        BY <4>1, <2>6
    <3>3. QED
      BY <3>1, <3>2, <2>4
  <2>9. ASSUME NEW r \in switches'
        PROVE  /\ r.t <= clock /\ WindowOf(r.t) <= Rec(w)'.lastCheck
               /\ r.t <= now'[w]
               /\ Latest(r)' => Rec(w)'.active = r.to /\ r.t = now'[w]
    <3>1. CASE r = s
      BY <3>1, <2>1, <2>2, <2>3, <2>4, <1>1
    <3>2. CASE r \in switches
      BY <3>2, <2>2, <2>3, <2>6, <1>1, <1>2
    <3>3. QED
      BY <3>1, <3>2, <2>4
  <2>10. QED
    BY <2>1, <2>4, <2>7, <2>8, <2>9, <1>0 DEF SwitchesInOrder
<1>4. CASE ~ Switch(w)
  <2>1. switches' = switches
    BY <1>4, CallMoves
  <2>2. pc'[w] \in Priming => pc[w] \in Priming /\ now' = now
    BY <1>4, Onward
  <2>4. CASE switches = {}
    BY <2>1, <2>2, <2>4, <1>0 DEF SwitchesInOrder
  <2>5. CASE switches # {}
    <3>1. ~ Create(w)
      BY <2>5, <1>0 DEF Create, Goto, InOrder
    <3>2. /\ Rec(w)'.active = Rec(w).active
          /\ ~ Claim(w) => Rec(w)'.lastCheck = Rec(w).lastCheck
          /\ Claim(w) => Rec(w)'.lastCheck = WindowOf(now[w])
      BY <3>1, <1>4, RecordMoves DEF Noting, SameSelection
    <3>3. Claim(w) => /\ pc[w] = "claim" /\ now' = now
                      /\ Rec(w).lastCheck \in Int /\ Rec(w).lastCheck < WindowOf(now[w])
      <4>1. Claim(w) => pc[w] = "claim" /\ now' = now
        BY DEF Claim, Goto, flow
      <4>2. pc[w] = "claim" => /\ Rec(w) \in ClientState
                               /\ Rec(w).lastCheck < WindowOf(now[w])
        BY <1>0, OneRecord DEF Checked
      <4>3. QED
        BY <4>1, <4>2 DEF ClientState
    <3>5. ASSUME NEW s \in switches
          PROVE  /\ s.t <= clock
                 /\ WindowOf(s.t) <= Rec(w)'.lastCheck
                 /\ pc'[w] # "idle" => s.t <= now'[w]
                 /\ pc'[w] \in Deciding => WindowOf(s.t) < WindowOf(now'[w])
                 /\ Latest(s) => Rec(w)'.active = s.to
                 /\ pc'[w] \in Priming /\ Latest(s) => s.t = now'[w]
      <4>1. /\ pc'[w] # "idle" => s.t <= now'[w]
            /\ pc'[w] \in Priming /\ Latest(s) => s.t = now'[w]
        BY <2>2, Onward, <1>2
      <4>2. CASE Claim(w)
        BY <4>1, <4>2, <3>2, <3>3, <1>1, <1>2
      <4>3. CASE ~ Claim(w)
        <5>1. pc'[w] \in Deciding => now' = now /\ pc[w] \in Deciding
          BY <4>3, Onward
        <5>2. QED
          BY <5>1, <4>1, <4>3, <3>2, <1>2
      <4>4. QED
        BY <4>2, <4>3
    <3>6. \A s \in switches : Latest(s)' <=> Latest(s)
      BY <2>1 DEF Latest
    <3>7. QED
      BY <2>1, <2>2, <3>5, <3>6, <1>0 DEF SwitchesInOrder
  <2>6. QED
    BY <2>4, <2>5
<1>5. QED
  BY <1>3, <1>4

\* The step of the counter counts what its window admits; the other algorithms
\* do not run in its windows.
LEMMA CounterStep ==
  ASSUME OneThread, IInv, OneThreadInv, AdmittedIsGoverned, CounterIsTrue,
         NEW w \in Workers, AllowRequest(w)
  PROVE  CounterIsTrue'
<1> DEFINE SWC == "sliding_window_counter"
<1> SUFFICES ASSUME SWC \in Needed PROVE CounterIsTrue'
  BY DEF CounterIsTrue
<1>0. /\ FlowInv /\ DOMAIN entries = Needed
      /\ entries[SWC] \in SlidingCounterEntry \cup {None}
  BY DEF IInv, TypeOK, EntriesOf
<1> PICK e \in SlidingCounterEntry \cup {None} : e = entries[SWC]
  BY <1>0
<1>1. /\ e # None => /\ <<e.w, SWC>> \in governed /\ e.c = Cardinality(InWindow(e.w))
                     /\ e.w \in Int
      /\ \A g \in governed : g[2] = SWC =>
           e # None /\ g[1] <= e.w /\ Cardinality(InWindow(g[1])) <= Limit
  <2>1. e # None => e.w \in Int
    BY DEF SlidingCounterEntry
  <2>2. QED
    BY <2>1 DEF CounterIsTrue
<1>2. CASE Execute(w)
  <2>0. /\ pc[w] = "execute" /\ now[w] \in Int /\ now[w] # None /\ picked[w] \in Needed
        /\ governed' = governed \cup {<<WindowOf(now[w]), picked[w]>>}
    BY <1>2, ExecuteAdds, ExecuteResponds, Standing DEF IInv
  <2> PICK t \in Int : t = now[w]
    BY <2>0
  <2> PICK k \in Int : k = WindowOf(t)
    BY WindowAndOffset
  <2> PICK a \in Needed : a = picked[w]
    BY <2>0
  <2>1. \A g \in governed : g[1] \in Int /\ g[1] <= k /\ (g[1] = k => g[2] = a)
    BY <2>0, GovernedBefore
  <2> PICK result : result = StepOf(a, t)
    OBVIOUS
  <2>2. /\ result.allowed \in BOOLEAN /\ Respond(w, result.allowed)
        /\ entries' = [entries EXCEPT ![a] = result.entry]
    BY <1>2, ExecuteResponds
  <2>3. \A j : /\ (j # k \/ ~ result.allowed) => InWindow(j)' = InWindow(j)
               /\ (j = k /\ result.allowed)
                    => Cardinality(InWindow(j)') = Cardinality(InWindow(j)) + 1
    BY <1>0, <2>0, <2>2, InWindowStep
  <2>4. governed' = governed \cup {<<k, a>>}
    BY <2>0
  <2>5. CASE a # SWC
    <3>1. entries'[SWC] = e
      BY <2>2, <2>5, <1>0
    <3>2. \A g \in governed : g[2] = SWC => InWindow(g[1])' = InWindow(g[1])
      BY <2>1, <2>3, <2>5
    <3>3. e # None => InWindow(e.w)' = InWindow(e.w) /\ <<e.w, SWC>> \in governed'
      <4>1. e # None => <<e.w, SWC>>[1] = e.w /\ <<e.w, SWC>>[2] = SWC
        OBVIOUS
      <4>2. QED
        BY <4>1, <3>2, <2>4, <1>1
    <3>4. \A g \in governed' : g[2] = SWC => g \in governed
      BY <2>4, <2>5
    <3>5. QED
      BY <3>1, <3>2, <3>3, <3>4, <1>1 DEF CounterIsTrue
  <2>6. CASE a = SWC
    <3> DEFINE cc == CurrentCount(e, WindowOf(t))
               pv == PreviousCount(e, WindowOf(t))
    <3>1. result = SlidingCounterOp(e, t)
      BY <2>6 DEF StepOf
    <3>2. /\ cc \in Nat /\ pv \in Nat
          /\ result.allowed <=> Estimate(cc, pv, t) < Limit * Window
          /\ result.entry \in SlidingCounterEntry
          /\ result.entry.w = k
          /\ result.entry.c = IF result.allowed THEN cc + 1 ELSE cc
      BY <3>1, SlidingCounterStep
    <3> PICK count \in Nat : count = cc
      BY <3>2
    <3>3. result.allowed => count < Limit
      BY <3>2, EstimateBounds
    <3>4. Cardinality(InWindow(k)) = count /\ count <= Limit
      <4>1. CASE e # None /\ e.w = k
        <5>1. count = e.c
          BY <4>1 DEF CurrentCount
        <5>2. e.c = Cardinality(InWindow(k)) /\ <<k, SWC>> \in governed
          BY <4>1, <1>1
        <5>3. <<k, SWC>>[1] = k /\ <<k, SWC>>[2] = SWC
          OBVIOUS
        <5>4. Cardinality(InWindow(k)) <= Limit
          BY <5>2, <5>3, <1>1
        <5>5. QED
          BY <5>1, <5>2, <5>4
      <4>2. CASE ~ (e # None /\ e.w = k)
        <5>1. count = 0
          BY <4>2 DEF CurrentCount
        <5>2. \A g \in governed : g[1] # k
          <6> SUFFICES ASSUME NEW g \in governed, g[1] = k
                       PROVE  FALSE
            OBVIOUS
          <6>1. e # None /\ k <= e.w
            BY <2>1, <2>6, <1>1
          <6>2. <<e.w, SWC>> \in governed /\ <<e.w, SWC>>[1] = e.w
            BY <6>1, <1>1
          <6>3. e.w <= k
            BY <6>2, <2>1
          <6>4. QED
            BY <6>1, <6>3, <4>2, <1>1
        <5>3. QED
          BY <5>1, <5>2, UngovernedIsEmpty, ConfigAssumption
      <4>3. QED
        BY <4>1, <4>2
    <3>5. Cardinality(InWindow(k)') = result.entry.c /\ Cardinality(InWindow(k)') <= Limit
      <4>1. CASE result.allowed
        <5>1. Cardinality(InWindow(k)') = Cardinality(InWindow(k)) + 1
          BY <4>1, <2>3
        <5>2. QED
          BY <4>1, <5>1, <3>2, <3>3, <3>4, ConfigAssumption
      <4>2. CASE ~ result.allowed
        <5>1. InWindow(k)' = InWindow(k)
          BY <4>2, <2>3
        <5>2. QED
          BY <4>2, <5>1, <3>2, <3>4
      <4>3. QED
        BY <4>1, <4>2, <3>2
    <3>6. entries'[SWC] = result.entry
      BY <2>2, <2>6, <1>0
    <3>7. result.entry # None
      BY <3>2, NoneIsNoSlidingCounterEntry
    <3>8. ASSUME NEW g \in governed', g[2] = SWC
          PROVE  g[1] <= k /\ Cardinality(InWindow(g[1])') <= Limit
      <4>1. CASE g[1] = k
        BY <4>1, <3>5
      <4>2. CASE g[1] # k
        <5>1. g \in governed
          BY <4>2, <2>4
        <5>2. QED
          BY <5>1, <4>2, <3>8, <2>1, <2>3, <1>1
      <4>3. QED
        BY <4>1, <4>2
    <3>9. <<k, SWC>> \in governed'
      BY <2>4, <2>6
    <3>10. QED
      BY <3>2, <3>5, <3>6, <3>7, <3>8, <3>9 DEF CounterIsTrue
  <2>7. QED
    BY <2>5, <2>6
<1>3. CASE ~ Execute(w)
  <2>1. UNCHANGED <<governed, admitted>>
    BY <1>3, CallMoves
  <2>2. entries'[SWC] = e
    <3>1. CASE Prime(w)
      <4> PICK new : new = Primed(picked[w], now[w])
        OBVIOUS
      <4>1. entries' = [entries EXCEPT ![picked[w]] = new]
        BY <3>1 DEF Prime
      <4>2. picked[w] = SWC => new = e
        BY DEF Primed
      <4>3. QED
        BY <4>1, <4>2, <1>0
    <3>2. CASE ~ Prime(w)
      BY <1>3, <3>2, Onward
    <3>3. QED
      BY <3>1, <3>2
  <2>3. \A j : InWindow(j)' = InWindow(j)
    BY <2>1 DEF InWindow
  <2>4. QED
    BY <2>1, <2>2, <2>3, <1>1 DEF CounterIsTrue
<1>4. QED
  BY <1>2, <1>3

\* A primed log holds Limit stamps.
LEMMA PrimedLogIsFull ==
  ASSUME NEW t \in Int
  PROVE  Cardinality(SlidingLogPrime(t)) = Limit
<1> DEFINE L == SlidingLogPrime(t)
           f == [i \in 1..Limit |-> [t |-> t, n |-> -i]]
<1>1. IsFiniteSet(1..Limit) /\ Cardinality(1..Limit) = Limit
  BY FS_Interval, ConfigAssumption
<1>2. f \in [1..Limit -> L]
  BY DEF SlidingLogPrime
<1>3. \A i, j \in 1..Limit : f[i] = f[j] => i = j
  <2> SUFFICES ASSUME NEW i \in 1..Limit, NEW j \in 1..Limit, f[i] = f[j]
               PROVE  i = j
    OBVIOUS
  <2>1. f[i].n = -i /\ f[j].n = -j
    OBVIOUS
  <2>2. -i = -j /\ i \in Int /\ j \in Int
    BY <2>1
  <2>3. QED
    BY <2>2
<1>4. \A r \in L : \E i \in 1..Limit : f[i] = r
  BY DEF SlidingLogPrime
<1>5. f \in Bijection(1..Limit, L)
  <2> HIDE DEF f, L
  <2>1. QED
    BY <1>2, <1>3, <1>4, Fun_IsBij
<1>6. ExistsBijection(1..Limit, L)
  <2> HIDE DEF f, L
  <2>1. QED
    BY <1>5 DEF ExistsBijection
<1>7. QED
  <2> HIDE DEF f, L
  <2>1. Cardinality(L) = Limit
    BY <1>1, <1>6, FS_Bijection
  <2>2. QED
    BY <2>1 DEF L

\* A primed log admits nothing for a window, and stays as it is.
LEMMA PrimedLogRejects ==
  ASSUME NEW s \in Int, NEW t \in Int, s <= t, t < s + Window, NEW n \in Nat
  PROVE  LET r == SlidingLogOp(SlidingLogPrime(s), t, n)
         IN  ~ r.allowed /\ r.entry = SlidingLogPrime(s)
<1>1. Limit \in Nat /\ Window \in Int
  BY ConfigAssumption
<1> PICK log : log = SlidingLogPrime(s)
  OBVIOUS
<1>2. \A r \in log : r.t = s
  BY DEF SlidingLogPrime
<1>3. s > t - Window
  BY <1>1
<1>4. Kept(log, t) = log
  BY <1>2, <1>3 DEF Kept
<1>5. Cardinality(Kept(log, t)) = Limit
  BY <1>4, PrimedLogIsFull
<1>6. LET r == SlidingLogOp(log, t, n)
      IN  /\ r.allowed \in BOOLEAN
          /\ r.allowed <=> Cardinality(Kept(log, t)) < Limit
          /\ r.entry = IF r.allowed THEN Kept(log, t) \cup {[t |-> t, n |-> n]}
                                    ELSE Kept(log, t)
  BY <1>1, <1>5, SlidingLogStep
<1>7. QED
  BY <1>1, <1>4, <1>5, <1>6

\* Where the switches stand to a call under way.
LEMMA SwitchesBefore ==
  ASSUME IInv, OneThreadInv, SwitchesInOrder, NEW w \in Workers, pc[w] # "idle"
  PROVE  \A s \in switches : /\ s.t \in Int /\ s.t <= now[w]
                             /\ WindowOf(s.t) \in Int /\ WindowOf(s.t) <= WindowOf(now[w])
                             /\ (pc[w] \in Deciding => s.t < now[w])
<1> SUFFICES ASSUME NEW s \in switches
             PROVE  /\ s.t \in Int /\ s.t <= now[w]
                    /\ WindowOf(s.t) \in Int /\ WindowOf(s.t) <= WindowOf(now[w])
                    /\ (pc[w] \in Deciding => s.t < now[w])
  OBVIOUS
<1>1. s.t \in Int /\ s.t <= now[w] /\ now[w] \in Int
  BY Standing DEF SwitchesInOrder, SwitchType
<1>2. WindowOf(s.t) \in Int /\ WindowOf(s.t) <= WindowOf(now[w])
  BY <1>1, WindowOfMonotone
<1>3. pc[w] \in Deciding => WindowOf(s.t) < WindowOf(now[w])
  BY DEF SwitchesInOrder
<1>4. pc[w] \in Deciding => s.t # now[w]
  BY <1>2, <1>3
<1>5. QED
  BY <1>1, <1>2, <1>4

\* Around a switch nothing more is admitted before it.
LEMMA QuietStep ==
  ASSUME OneThread, IInv, OneThreadInv, HandOffInv, NEW w \in Workers, AllowRequest(w),
         NEW s \in switches'
  PROVE  QuietBefore(s)'
<1>0. /\ SwitchesInOrder /\ CounterIsTrue /\ AdmittedIsGoverned
      /\ \A r \in switches : QuietBefore(r)
      /\ FlowInv /\ Limit \in Nat
  BY ConfigAssumption DEF HandOffInv, IInv
<1>1. CASE Execute(w)
  <2>0. /\ pc[w] = "execute" /\ now[w] \in Int /\ now[w] # None /\ s \in switches
    BY <1>1, ExecuteAdds, ExecuteResponds, Standing
  <2> PICK t \in Int : t = now[w]
    BY <2>0
  <2>1. s.t \in Int /\ s.t <= t /\ WindowOf(s.t) <= WindowOf(t) /\ WindowOf(s.t) \in Int
        /\ WindowOf(t) \in Int
    BY <2>0, <1>0, SwitchesBefore, WindowAndOffset
  <2>2. \A a \in admitted' : a \in admitted \/ a.t = t
    BY <1>1, ExecuteAdds
  <2> PICK k \in Int : k = WindowOf(s.t)
    BY <2>1
  <2>3. \A a \in admitted' : WindowOf(a.t) = k => a.t >= s.t
    BY <2>0, <2>1, <2>2, <1>0 DEF QuietBefore
  <2>4. InWindow(k - 1)' = InWindow(k - 1)
    <3>1. k - 1 # WindowOf(t)
      BY <2>1
    <3> PICK result : result = StepOf(picked[w], t)
      OBVIOUS
    <3>2. result.allowed \in BOOLEAN /\ Respond(w, result.allowed)
      BY <1>1, ExecuteResponds
    <3> PICK j : j = k - 1
      OBVIOUS
    <3>3. InWindow(j)' = InWindow(j)
      BY <3>1, <3>2, <2>0, <1>0, InWindowStep
    <3>4. QED
      BY <3>3 DEF InWindow
  <2>5. s.from = "sliding_window_counter" => Cardinality(InWindow(k - 1)') <= Limit
    BY <2>0, <2>4, <1>0 DEF QuietBefore
  <2>6. QED
    BY <2>3, <2>5 DEF QuietBefore, InWindow, WindowOf
<1>2. CASE ~ Execute(w)
  <2>1. UNCHANGED admitted
    BY <1>2, CallMoves
  <2>2. CASE s \in switches
    BY <2>1, <2>2, <1>0 DEF QuietBefore, InWindow
  <2>3. CASE s \notin switches
    <3>1. Switch(w)
      BY <2>3, CallMoves
    <3>2. pc[w] = "switch"
      BY <3>1, Onward
    <3>3. /\ Rec(w).active \in Needed
          /\ now[w] \in Int /\ WindowOf(now[w]) \in Int
          /\ newest \in Int /\ WindowOf(newest) \in Int
      BY <3>2, OneRecord, Standing DEF ClientState
    <3> PICK t \in Int : t = now[w]
      BY <3>3
    <3> PICK k \in Int : k = WindowOf(t)
      BY <3>3
    <3> PICK new : new = [by |-> Home[w], t |-> t, from |-> Rec(w).active, to |-> picked[w],
                          windows |-> Rec(w).since]
      OBVIOUS
    <3>4. s = new
      BY <3>1, <2>3, NewSwitch
    <3>5. s.t = t /\ s.from = Rec(w).active
      BY <3>4
    <3>6. \A g \in governed : /\ g[1] < k /\ g[1] \in Int /\ g[1] <= WindowOf(newest)
                              /\ (g[1] = WindowOf(newest) => g[2] = Rec(w).active)
                              /\ WindowOf(newest) < k
      <4>1. newest # -1 => WindowOf(newest) < k
        BY <3>2, OneRecord DEF OneThreadInv, Checked
      <4>2. QED
        BY <3>2, <4>1, GovernedBefore
    <3>7. \A a \in admitted : WindowOf(a.t) # k
      BY <3>6, <1>0 DEF AdmittedIsGoverned
    <3>8. ASSUME s.from = "sliding_window_counter"
          PROVE  Cardinality(InWindow(k - 1)) <= Limit
      <4>1. CASE \A g \in governed : g[1] # k - 1
        BY <4>1, <1>0, UngovernedIsEmpty
      <4>2. CASE \E g \in governed : g[1] = k - 1
        <5> PICK g \in governed : g[1] = k - 1
          BY <4>2
        <5>1. g[1] = WindowOf(newest)
          BY <3>3, <3>6
        <5>2. g[2] = "sliding_window_counter" /\ g[2] \in Needed
          BY <5>1, <3>3, <3>5, <3>6, <3>8
        <5>3. QED
          BY <5>2, <1>0 DEF CounterIsTrue
      <4>3. QED
        BY <4>1, <4>2
    <3>9. InWindow(k - 1)' = InWindow(k - 1)
      BY <2>1 DEF InWindow
    <3>10. QED
      BY <2>1, <3>5, <3>7, <3>8, <3>9 DEF QuietBefore, InWindow, WindowOf
  <2>4. QED
    BY <2>2, <2>3
<1>3. QED
  BY <1>1, <1>2

\* The requests of an interval up to the newest timestamp or beyond are those
\* since its start.
LEMMA WithinNewest ==
  ASSUME FlowInv, newest \in Int, NEW lo \in Int, NEW x \in Int, newest <= x
  PROVE  /\ Within(lo, x) = {a \in admitted : lo <= a.t}
         /\ newest < lo => Within(lo, x) = {}
<1>1. \A a \in admitted : a.t \in Int /\ a.t <= newest
  BY MaxTimeAssumption DEF FlowInv, FlowTypeOK, Time
<1>2. QED
  BY <1>1 DEF Within

\* What the step of the bucket or the log, primed at the latest switch, admits,
\* is paid by what has been refilled since; the log admits nothing.
LEMMA GrantStep ==
  ASSUME OneThread, IInv, OneThreadInv, HandOffInv, NEW w \in Workers, Execute(w),
         NEW s \in switches, Latest(s)
  PROVE  /\ Spendable(s)'
         /\ s.to = "token_bucket" =>
              \/ admitted' = admitted
              \/ \A t \in Int : t = now[w] =>
                   Window * Cardinality(Within(s.t, t)') <= (t - s.t) * Limit
         /\ s.to = "sliding_window_log" /\ now[w] < s.t + Window => admitted' = admitted
<1>0. /\ SwitchesInOrder /\ FlowInv /\ FlowInv' /\ OneThreadInv
      /\ Window \in Nat \ {0} /\ Limit \in Nat
      /\ DOMAIN entries = Needed /\ \A a \in Needed : entries[a] \in EntriesOf(a)
  BY FlowStep, ConfigAssumption DEF HandOffInv, IInv, AllowRequest, TypeOK
<1>1. /\ pc[w] = "execute" /\ now[w] \in Int /\ now[w] # None /\ picked[w] \in Needed
      /\ newest' = now[w] /\ newest <= now[w] /\ newest \in Int
      /\ NextNumber \in Nat
  BY ExecuteAdds, ExecuteResponds, Standing, NumberBounded, AdaptiveAssumption
<1>2. s.to = picked[w]
  BY <1>0, ExecuteAdds DEF SwitchesInOrder
<1>3. Spendable(s)
  BY <1>1 DEF HandOffInv
<1> PICK t \in Int : t = now[w]
  BY <1>1
<1> PICK from \in Int : from = s.t /\ from <= t
  BY <1>0, <1>1, SwitchesBefore
<1> PICK a \in Needed : a = picked[w]
  BY <1>1
<1> PICK result : result = StepOf(a, t)
  OBVIOUS
<1>4. /\ result.allowed \in BOOLEAN /\ Respond(w, result.allowed)
      /\ entries' = [entries EXCEPT ![a] = result.entry]
  BY ExecuteResponds
<1>5. entries'[a] = result.entry
  BY <1>0, <1>4
<1>6. /\ result.allowed => admitted' = admitted \cup {NewRequest(w)}
      /\ ~ result.allowed => admitted' = admitted
      /\ NewRequest(w) \notin admitted
  BY <1>0, <1>1, <1>4, RespondInv
<1>7. CASE a = "token_bucket"
  <2> PICK e \in TokenBucketEntry : /\ e = entries[a] /\ e # None /\ e.last >= newest
                                    /\ Window * Cardinality(Within(from, e.last)) + e.tokens
                                         <= (e.last - from) * Limit
    BY <1>0, <1>2, <1>3, <1>7 DEF Spendable, EntriesOf
  <2> PICK tokens \in Int : tokens = e.tokens
    BY DEF TokenBucketEntry
  <2> PICK last \in Int : last = e.last
    BY DEF TokenBucketEntry
  <2> DEFINE Since == {r \in admitted : from <= r.t}
  <2>1. Within(from, last) = Since
    BY <1>0, <1>1, WithinNewest
  <2>2. IsFiniteSet(Since) /\ Cardinality(Since) \in Nat
    BY <2>1, <1>0, PartsFinite
  <2> PICK n \in Nat : n = Cardinality(Since)
    BY <2>2
  <2>m. Window * n \in Int
    BY <1>0
  <2>3. Window * n + tokens <= (last - from) * Limit
    BY <2>1
  <2>4. result = TokenBucketOp(DefaultBucket, e, t)
    BY <1>7 DEF StepOf
  <2>5. Limit * Window \in Nat
    BY <1>0
  <2>6. \E level \in Int :
          /\ level <= tokens + (t - last) * Limit
          /\ result.allowed <=> level >= Window
          /\ result.entry \in TokenBucketEntry
          /\ result.entry.last = t
          /\ result.entry.tokens = IF result.allowed THEN level - Window ELSE level
    <3> DEFINE level == IF e = None THEN Limit * Window ELSE Refilled(DefaultBucket, e, t)
               worth == e.tokens + (t - e.last) * Limit
    <3>1. /\ level \in Int
          /\ level <= worth
          /\ result.allowed <=> level >= Window
          /\ result.entry \in TokenBucketEntry
          /\ result.entry.last = t
          /\ result.entry.tokens = IF result.allowed THEN level - Window ELSE level
      BY <1>0, <2>4, <2>5, TokenBucketStep DEF DefaultBucket
    <3> HIDE DEF level
    <3>2. QED
      BY <3>1
  <2> PICK level \in Int :
          /\ level <= tokens + (t - last) * Limit
          /\ result.allowed <=> level >= Window
          /\ result.entry \in TokenBucketEntry
          /\ result.entry.last = t
          /\ result.entry.tokens = IF result.allowed THEN level - Window ELSE level
    BY <2>6
  <2>7. (t - from) * Limit = (last - from) * Limit + (t - last) * Limit
    BY <1>0
  <2>8. Window * n + level <= (t - from) * Limit
    <3> PICK p \in Int : p = (last - from) * Limit
      BY <1>0
    <3> PICK q \in Int : q = (t - last) * Limit
      BY <1>0
    <3> PICK m \in Int : m = Window * n
      BY <2>m
    <3>1. m + tokens <= p /\ level <= tokens + q /\ (t - from) * Limit = p + q
      BY <2>3, <2>7
    <3>2. m + level <= p + q
      BY <3>1
    <3>3. QED
      BY <3>1, <3>2
  <2>9. Within(from, t)' = {r \in admitted' : from <= r.t}
    <3>1. newest' \in Int /\ newest' <= t
      BY <1>1
    <3>2. \A r \in admitted' : r.t \in Int /\ r.t <= newest'
      BY <1>0, MaxTimeAssumption DEF FlowInv, FlowTypeOK, Time
    <3>3. QED
      BY <3>1, <3>2 DEF Within
  <2> PICK after : after = {r \in admitted' : from <= r.t}
    OBVIOUS
  <2> PICK c : c = Cardinality(after)
    OBVIOUS
  <2>10. /\ c \in Nat
         /\ Window * c + result.entry.tokens <= (t - from) * Limit
         /\ result.allowed => Window * c <= (t - from) * Limit
    <3>1. CASE result.allowed
      <4>1. after = Since \cup {NewRequest(w)}
        <5>1. NewRequest(w).t = t
          BY DEF NewRequest
        <5>2. QED
          BY <5>1, <1>6, <3>1
      <4>2. c = n + 1
        BY <4>1, <2>2, <1>6, CountNewRequest
      <4>3. Window * (n + 1) = Window * n + Window
        BY <1>0
      <4>4. result.entry.tokens = level - Window /\ level >= Window
        BY <3>1
      <4> PICK m \in Int : m = Window * n
        BY <2>m
      <4> PICK v \in Int : v = (t - from) * Limit
        BY <1>0
      <4>5. m + level <= v /\ Window * c = m + Window
        BY <2>8, <4>2, <4>3
      <4>6. m + Window + (level - Window) <= v /\ m + Window <= v
        BY <1>0, <4>4, <4>5
      <4>7. QED
        BY <4>2, <4>4, <4>5, <4>6
    <3>2. CASE ~ result.allowed
      <4>1. after = Since /\ c = n
        BY <1>6, <3>2
      <4>2. QED
        BY <3>2, <4>1, <2>8
    <3>3. QED
      BY <3>1, <3>2
  <2>11. Within(from, t)' = after
    BY <2>9
  <2>12. result.entry # None
    BY NoneIsNoTokenBucketEntry
  <2>13. Spendable(s)'
    <3> PICK tb : tb = entries'["token_bucket"]
      OBVIOUS
    <3>1. tb = result.entry /\ tb.last = t /\ tb # None
      BY <1>5, <1>7, <2>12
    <3>2. tb.last >= newest'
      BY <1>1, <3>1
    <3>3. Window * Cardinality(Within(s.t, tb.last)') + tb.tokens <= (tb.last - s.t) * Limit
      BY <2>10, <2>11, <3>1
    <3>4. s.to # "sliding_window_log"
      BY <1>2, <1>7
    <3>5. QED
      BY <3>1, <3>2, <3>3, <3>4 DEF Spendable, Within
  <2>14. result.allowed => \A u \in Int : u = now[w] =>
                             Window * Cardinality(Within(s.t, u)') <= (u - s.t) * Limit
    BY <2>10, <2>11
  <2>15. QED
    BY <1>2, <1>6, <1>7, <2>13, <2>14
<1>8. CASE a = "sliding_window_log"
  <2>1. ASSUME t < from + Window
        PROVE  admitted' = admitted /\ entries'[a] = SlidingLogPrime(from)
    <3>1. entries[a] = SlidingLogPrime(from)
      <4>1. newest < from + Window
        BY <2>1, <1>0, <1>1
      <4>2. QED
        BY <4>1, <1>2, <1>3, <1>8 DEF Spendable
    <3> PICK n \in Nat : n = NextNumber
      BY <1>1
    <3>2. result = SlidingLogOp(SlidingLogPrime(from), t, n)
      BY <3>1, <1>8 DEF StepOf
    <3>3. ~ result.allowed /\ result.entry = SlidingLogPrime(from)
      BY <2>1, <3>2, PrimedLogRejects
    <3>4. QED
      BY <3>3, <1>5, <1>6
  <2>2. Spendable(s)'
    BY <2>1, <1>1, <1>2, <1>8 DEF Spendable
  <2>3. QED
    BY <2>1, <2>2, <1>2, <1>8
<1>9. CASE a # "token_bucket" /\ a # "sliding_window_log"
  BY <1>2, <1>9 DEF Spendable
<1>10. QED
  BY <1>7, <1>8, <1>9

\* What was primed at a switch grants no more than has been refilled, up to the
\* next switch.
LEMMA GrantedStep ==
  ASSUME OneThread, IInv, OneThreadInv, HandOffInv, NEW w \in Workers, AllowRequest(w),
         NEW s \in switches'
  PROVE  GrantedSince(s)'
<1>0. /\ SwitchesInOrder /\ SwitchesInOrder' /\ FlowInv /\ FlowInv'
      /\ Window \in Nat \ {0} /\ Limit \in Nat /\ Time \subseteq Int
      /\ \A r \in switches : GrantedSince(r)
  BY SwitchesStep, FlowStep, ConfigAssumption, MaxTimeAssumption
     DEF HandOffInv, IInv, Time
<1> SUFFICES ASSUME NEW x \in Time, s.t <= x, x < s.t + Window,
                    ~ \E r \in switches' : s.t < r.t /\ r.t <= x
             PROVE  /\ s.to = "token_bucket" =>
                         Window * Cardinality(Within(s.t, x)') <= (x - s.t) * Limit
                    /\ s.to = "sliding_window_log" => Within(s.t, x)' = {}
  <2>1. \A y \in Straddling(s)' : /\ y \in Time /\ s.t <= y /\ y < s.t + Window
                                  /\ ~ \E r \in switches' : s.t < r.t /\ r.t <= y
    BY DEF Straddling, Time
  <2>2. QED
    BY <2>1 DEF GrantedSince, Within
<1> PICK from \in Int : from = s.t
  BY <1>0 DEF SwitchesInOrder, SwitchType
<1>1. s \in switches => /\ s.to = "token_bucket" =>
                             Window * Cardinality(Within(from, x)) <= (x - from) * Limit
                        /\ s.to = "sliding_window_log" => Within(from, x) = {}
  <2>1. switches \subseteq switches'
    BY CallMoves DEF Switch
  <2>2. s \in switches => x \in Straddling(s)
    BY <2>1 DEF Straddling
  <2>3. QED
    BY <2>2, <1>0 DEF GrantedSince
<1>2. CASE admitted' = admitted
  <2>1. Within(from, x)' = Within(from, x)
    BY <1>2 DEF Within
  <2>2. CASE s \in switches
    BY <2>1, <2>2, <1>1
  <2>3. CASE s \notin switches
    <3>1. Switch(w)
      BY <2>3, CallMoves
    <3>2. pc[w] = "switch" /\ s.t = now[w]
      BY <3>1, <2>3, Onward, NewSwitch
    <3>3. newest \in Int /\ newest < from
      <4>1. newest \in Int /\ now[w] \in Time /\ now[w] \in Int /\ newest <= now[w]
        BY <3>2, Standing DEF OneThreadInv, InOrder
      <4>2. newest # -1 => newest # now[w]
        <5>1. newest # -1 => WindowOf(newest) < WindowOf(now[w])
          BY <3>2, OneRecord DEF OneThreadInv, Checked
        <5>2. WindowOf(newest) \in Int
          BY <4>1, WindowAndOffset
        <5>3. QED
          BY <5>1, <5>2
      <4>3. now[w] # -1
        BY <3>2, Standing
      <4>4. QED
        BY <3>2, <4>1, <4>2, <4>3
    <3>4. Within(from, x) = {}
      <4>1. \A a \in admitted : a.t \in Int /\ a.t <= newest
        BY <1>0 DEF FlowInv, FlowTypeOK
      <4>2. QED
        BY <4>1, <3>3 DEF Within
    <3>5. Cardinality(Within(from, x)) = 0 /\ Window * 0 = 0
      BY <3>4, <1>0, FS_EmptySet
    <3>6. 0 <= (x - from) * Limit
      <4>1. x - from \in Nat
        BY <1>0
      <4>2. QED
        BY <4>1, <1>0
    <3>7. QED
      BY <2>1, <3>4, <3>5, <3>6
  <2>4. QED
    BY <2>2, <2>3
<1>3. CASE admitted' # admitted
  <2>0. Execute(w)
    BY <1>3, CallMoves
  <2>1. /\ pc[w] = "execute" /\ now[w] \in Int /\ switches' = switches /\ newest' = now[w]
        /\ \A a \in admitted' : a \in admitted \/ a.t = now[w]
    BY <2>0, ExecuteAdds, Standing
  <2> PICK t \in Int : t = now[w]
    BY <2>1
  <2>2. \A r \in switches : r.t \in Int /\ r.t <= t
    BY <2>1, <1>0, SwitchesBefore
  <2>3. CASE x < t
    <3>1. Within(from, x)' = Within(from, x)
      <4>1. admitted \subseteq admitted'
        BY <2>0, ExecuteAdds
      <4>2. \A a \in admitted' : a.t \in Int
        BY <1>0 DEF FlowInv, FlowTypeOK
      <4>3. QED
        BY <4>1, <4>2, <2>1, <2>3, <1>0 DEF Within
    <3>2. QED
      BY <3>1, <2>1, <1>1
  <2>4. CASE t <= x
    <3>1. Latest(s)
      BY <2>1, <2>2, <2>4, <1>0 DEF Latest
    <3>2. /\ s.to = "token_bucket" =>
                Window * Cardinality(Within(from, t)') <= (t - from) * Limit
          /\ s.to # "sliding_window_log"
      <4>1. t < from + Window
        BY <2>4, <1>0
      <4>2. QED
        BY <2>0, <2>1, <3>1, <4>1, <1>3, GrantStep
    <3>3. Within(from, x)' = Within(from, t)'
      <4>1. \A a \in admitted' : a.t \in Int /\ a.t <= t
        BY <1>0, <2>1 DEF FlowInv, FlowTypeOK
      <4>2. QED
        BY <4>1, <2>4, <1>0 DEF Within
    <3>4. (t - from) * Limit <= (x - from) * Limit
      <4>1. from <= t
        BY <2>1, <2>2
      <4>2. t - from \in Nat /\ x - from \in Nat /\ t - from <= x - from
        BY <4>1, <2>4, <1>0
      <4> PICK p \in Nat : p = t - from
        BY <4>2
      <4> PICK q \in Nat : q = x - from
        BY <4>2
      <4>3. Limit * p <= Limit * q
        BY <4>2, <1>0, ProductMonotone
      <4>4. QED
        BY <4>3, <1>0
    <3>5. IsFiniteSet(admitted') => Cardinality(Within(from, t)') \in Nat
      <4>1. Within(from, t)' \subseteq admitted'
        BY DEF Within
      <4>2. QED
        BY <4>1, FS_Subset, FS_CardinalityType
    <3>6. s.to = "token_bucket" => Window * Cardinality(Within(from, x)') <= (x - from) * Limit
      <4> SUFFICES ASSUME s.to = "token_bucket"
                   PROVE  Window * Cardinality(Within(from, x)') <= (x - from) * Limit
        OBVIOUS
      <4> PICK n \in Nat : n = Cardinality(Within(from, t)')
        BY <3>5, <1>0 DEF FlowInv
      <4>1. Window * n <= (t - from) * Limit
        BY <3>2
      <4>2. Window * n \in Int /\ (t - from) * Limit \in Int /\ (x - from) * Limit \in Int
        BY <1>0
      <4>3. Window * n <= (x - from) * Limit
        BY <4>1, <4>2, <3>4
      <4>4. QED
        BY <4>3, <3>3
    <3>7. QED
      BY <3>2, <3>6
  <2>5. QED
    BY <2>3, <2>4, <1>0
<1>4. QED
  BY <1>2, <1>3

\* What can be spent after the latest switch.
LEMMA SpendableStep ==
  ASSUME OneThread, IInv, OneThreadInv, HandOffInv, NEW w \in Workers, AllowRequest(w),
         NEW s \in switches', Latest(s)'
  PROVE  IF pc'[w] \in Priming THEN newest' < s.t ELSE Spendable(s)'
<1>0. /\ SwitchesInOrder /\ SwitchesInOrder' /\ FlowInv
      /\ Window \in Nat \ {0} /\ Limit \in Nat /\ Time \subseteq Int
  BY SwitchesStep, ConfigAssumption, MaxTimeAssumption DEF HandOffInv, IInv, Time
<1>1. CASE Switch(w)
  <2>1. /\ pc[w] = "switch" /\ pc'[w] = "clear" /\ newest' = newest /\ now'[w] = now[w]
    BY <1>1, Onward
  <2>2. s.t = now[w]
    BY <2>1, <1>0 DEF SwitchesInOrder
  <2>3. /\ newest \in Int /\ now[w] \in Int /\ newest <= now[w] /\ now[w] # -1
        /\ WindowOf(newest) \in Int
    BY <2>1, Standing DEF OneThreadInv, InOrder
  <2>4. newest # -1 => WindowOf(newest) < WindowOf(now[w])
    BY <2>1, OneRecord DEF OneThreadInv, Checked
  <2>5. newest # now[w]
    BY <2>3, <2>4
  <2>6. QED
    BY <2>1, <2>2, <2>3, <2>5
<1>2. CASE ~ Switch(w) /\ pc'[w] \in Priming
  <2>1. pc[w] \in Priming /\ switches' = switches /\ newest' = newest
    BY <1>2, Onward, CallMoves DEF Execute, Goto
  <2>2. s \in switches /\ Latest(s)
    BY <2>1 DEF Latest
  <2>3. QED
    BY <1>2, <2>1, <2>2 DEF HandOffInv
<1>3. CASE ~ Switch(w) /\ pc'[w] \notin Priming
  <2>1. /\ switches' = switches /\ pc'[w] \notin Priming
        /\ pc[w] \in Priming => Prime(w)
    BY <1>3, Onward, CallMoves
  <2>2. s \in switches /\ Latest(s)
    BY <2>1 DEF Latest
  <2>3. CASE Execute(w)
    BY <2>1, <2>2, <2>3, GrantStep
  <2>4. CASE Prime(w)
    <3>1. pc[w] = "prime"
      BY <2>4 DEF Prime, Goto
    <3>2. /\ newest < s.t /\ s.t = now[w] /\ s.to = Rec(w).active
          /\ picked[w] = Rec(w).active
      BY <2>2, <3>1, <1>0, OneRecord DEF HandOffInv, SwitchesInOrder, OneThreadInv, Governing
    <3>3. UNCHANGED <<admitted, newest>> /\ newest \in Int /\ now[w] \in Int
      BY <2>4, <3>1, <1>0, CallMoves, Standing DEF Execute, Goto
    <3> PICK t \in Int : t = now[w]
      BY <3>3
    <3>4. /\ entries' = [entries EXCEPT ![s.to] = Primed(s.to, t)]
          /\ s.to \in DOMAIN entries
      <4>1. s.to \in Needed /\ DOMAIN entries = Needed
        BY <2>2, <1>0 DEF SwitchesInOrder, SwitchType, IInv, TypeOK
      <4>2. QED
        BY <4>1, <2>4, <3>2 DEF Prime
    <3>5. CASE s.to = "token_bucket"
      <4>1. entries'["token_bucket"] = [tokens |-> 0, last |-> t]
        BY <3>4, <3>5 DEF Primed, TokenBucketPrime
      <4>2. [tokens |-> 0, last |-> t] # None
        BY NoneIsNoTokenBucketEntry DEF TokenBucketEntry
      <4> PICK e : e = entries'["token_bucket"]
        OBVIOUS
      <4>3. e # None /\ e.last = t /\ e.tokens = 0
        BY <4>1, <4>2
      <4>4. Within(s.t, t)' = {}
        <5>1. \A a \in admitted : a.t \in Int /\ a.t <= newest
          BY <1>0 DEF FlowInv, FlowTypeOK
        <5>2. QED
          BY <5>1, <3>2, <3>3 DEF Within
      <4>5. Window * Cardinality(Within(s.t, t)') + 0 <= (t - s.t) * Limit
        <5>1. Window * 0 + 0 <= (t - t) * Limit
          BY <1>0
        <5>2. QED
          BY <5>1, <4>4, <3>2, FS_EmptySet
      <4>6. QED
        BY <2>1, <3>2, <3>3, <3>5, <4>3, <4>5 DEF Spendable, Within
    <3>6. CASE s.to = "sliding_window_log"
      <4>1. entries'["sliding_window_log"] = SlidingLogPrime(t)
        BY <3>4, <3>6 DEF Primed
      <4>2. QED
        BY <2>1, <3>2, <3>6, <4>1 DEF Spendable
    <3>7. CASE s.to # "token_bucket" /\ s.to # "sliding_window_log"
      BY <2>1, <3>7 DEF Spendable
    <3>8. QED
      BY <3>5, <3>6, <3>7
  <2>5. CASE ~ Execute(w) /\ ~ Prime(w)
    <3>1. pc[w] \notin Priming /\ Spendable(s)
      BY <2>1, <2>2, <2>5 DEF HandOffInv
    <3>2. UNCHANGED <<admitted, newest, entries>>
      <4>1. UNCHANGED <<admitted, newest>>
        BY <2>5, CallMoves
      <4>2. UNCHANGED entries
        BY <2>5, Onward
      <4>3. QED
        BY <4>1, <4>2
    <3>3. QED
      BY <2>1, <3>1, <3>2 DEF Spendable, Within
  <2>6. QED
    BY <2>3, <2>4, <2>5
<1>4. QED
  BY <1>1, <1>2, <1>3

LEMMA InitHandOffInv == Init => HandOffInv
<1> SUFFICES ASSUME Init PROVE HandOffInv
  OBVIOUS
<1>1. switches = {} /\ governed = {} /\ admitted = {} /\ \A w \in Workers : pc[w] = "idle"
  BY DEF Init, FlowInit
<1>2. CounterIsTrue
  BY <1>1 DEF CounterIsTrue, Init, NoEntry
<1>3. QED
  BY <1>1, <1>2 DEF HandOffInv, SwitchesInOrder, AdmittedIsGoverned

LEMMA NextHandOffInv ==
  ASSUME OneThread PROVE IInv /\ OneThreadInv /\ HandOffInv /\ [Next]_vars => HandOffInv'
<1> SUFFICES ASSUME IInv, OneThreadInv, HandOffInv, [Next]_vars PROVE HandOffInv'
  OBVIOUS
<1>1. ASSUME NEW w \in Workers, AllowRequest(w)
      PROVE  HandOffInv'
  <2>1. SwitchesInOrder' /\ CounterIsTrue' /\ AdmittedIsGoverned'
    BY <1>1, SwitchesStep, CounterStep, AdmittedStep DEF HandOffInv
  <2>2. \A s \in switches' : QuietBefore(s)' /\ GrantedSince(s)'
    BY <1>1, QuietStep, GrantedStep
  <2>3. \A s \in switches' : Latest(s)' =>
          IF pc'[w] \in Priming THEN newest' < s.t ELSE Spendable(s)'
    BY <1>1, SpendableStep
  <2>4. \A v \in Workers : v = w
    BY DEF OneThread
  <2>5. QED
    BY <2>1, <2>2, <2>3, <2>4 DEF HandOffInv
<1>2. CASE (Tick /\ UNCHANGED <<adaptive, history>>) \/ UNCHANGED vars
  <2>1. UNCHANGED <<now, admitted, newest, adaptive, history>> /\ (Tick \/ UNCHANGED clock)
    BY <1>2 DEF Tick, vars, flow
  <2>2. clock \in Int /\ clock <= clock'
    <3>1. clock \in Int
      BY MaxTimeAssumption DEF IInv, TypeOK, FlowTypeOK, Time
    <3>2. QED
      BY <2>1, <3>1 DEF Tick
  <2>3. SwitchesInOrder'
    <3>1. ASSUME NEW w \in Workers, NEW s \in switches
          PROVE  s.t <= clock'
      <4>1. s.t \in Int /\ s.t <= clock
        BY MaxTimeAssumption DEF HandOffInv, SwitchesInOrder, SwitchType, Time
      <4>2. clock' \in Int
        BY <2>1, <2>2 DEF Tick
      <4>3. QED
        BY <4>1, <4>2, <2>2
    <3>2. SwitchesInOrder /\ \A w \in Workers : Rec(w)' = Rec(w)
      BY <2>1 DEF HandOffInv, adaptive, Rec
    <3>3. QED
      BY <2>1, <3>1, <3>2 DEF SwitchesInOrder, SwitchType, Latest, adaptive, history, Time
  <2>4. CounterIsTrue' /\ AdmittedIsGoverned'
    BY <2>1 DEF HandOffInv, CounterIsTrue, AdmittedIsGoverned, InWindow, adaptive, history, WindowOf
  <2>5. ASSUME NEW s \in switches
        PROVE  /\ QuietBefore(s)' /\ GrantedSince(s)'
               /\ (Latest(s)' <=> Latest(s)) /\ (Spendable(s)' <=> Spendable(s))
    BY <2>1 DEF HandOffInv, QuietBefore, GrantedSince, Straddling, Latest, Spendable,
       InWindow, Within, Time, adaptive, history, WindowOf
  <2>6. QED
    BY <2>1, <2>3, <2>4, <2>5 DEF HandOffInv, adaptive, history
<1>3. QED
  BY <1>1, <1>2 DEF Next

\* When the calls come one after the other, a switch from the counter to the
\* bucket or the log grants nothing on top of what the counter has granted in
\* the adjacent window, but the refill of the time since.
THEOREM HandOffAddsNoBurst ==
  ASSUME OneThread PROVE Spec => []PrimedHandOffAddsNoBurst
<1>1. IInv /\ OneThreadInv /\ HandOffInv => PrimedHandOffAddsNoBurst
  <2> SUFFICES ASSUME IInv, HandOffInv,
                      NEW s \in switches, NEW x \in Straddling(s),
                      s.from = "sliding_window_counter", s.to # "fixed_window"
               PROVE  Window * Cardinality(Trailing(x)) <= Window * Limit + RefillSince(s, x)
    BY DEF PrimedHandOffAddsNoBurst
  <2>0. /\ FlowInv /\ Window \in Nat \ {0} /\ Limit \in Nat /\ Time \subseteq Int
    BY ConfigAssumption, MaxTimeAssumption DEF IInv, Time
  <2>1. /\ s.t \in Int /\ x \in Int /\ s.t <= x /\ x < s.t + Window
        /\ s.to \in {"token_bucket", "sliding_window_log"}
    BY <2>0, NeededType DEF HandOffInv, SwitchesInOrder, SwitchType, Straddling, Algos
  <2> PICK from \in Int : from = s.t
    BY <2>1
  <2> PICK k \in Int : k = WindowOf(from)
    BY WindowAndOffset
  <2> DEFINE A == InWindow(k - 1)
             B == Within(from, x)
  <2>2. /\ IsFiniteSet(A) /\ Cardinality(A) \in Nat
        /\ IsFiniteSet(B) /\ Cardinality(B) \in Nat
    BY <2>0, PartsFinite
  <2>3. Cardinality(A) <= Limit
    BY DEF HandOffInv, QuietBefore
  <2>4. Window * Cardinality(B) <= RefillSince(s, x)
    <3>1. GrantedSince(s)
      BY DEF HandOffInv
    <3>2. CASE s.to = "token_bucket"
      BY <3>1, <3>2 DEF GrantedSince, RefillSince
    <3>3. CASE s.to = "sliding_window_log"
      <4>1. B = {} /\ RefillSince(s, x) = 0
        BY <3>1, <3>3 DEF GrantedSince, RefillSince
      <4>2. Cardinality(B) = 0 /\ Window * 0 = 0
        BY <4>1, <2>0, FS_EmptySet
      <4>3. QED
        BY <4>1, <4>2
    <3>4. QED
      BY <3>2, <3>3, <2>1
  <2>5. ASSUME NEW a \in Trailing(x)
        PROVE  a \in A \cup B
    <3>1. a \in admitted /\ x - Window + 1 <= a.t /\ a.t <= x /\ a.t \in Int
      BY <2>0 DEF Trailing, Within, FlowInv, FlowTypeOK
    <3>2. CASE a.t >= from
      BY <3>1, <3>2 DEF Within
    <3>3. CASE a.t < from
      <4>1. from - Window + 1 <= a.t /\ a.t <= from
        BY <3>1, <3>3, <2>0, <2>1
      <4>2. WindowOf(a.t) = k \/ WindowOf(a.t) = k - 1
        BY <4>1, <3>1, TwoWindows
      <4>3. WindowOf(a.t) # k
        BY <3>1, <3>3 DEF HandOffInv, QuietBefore
      <4>4. QED
        BY <4>2, <4>3, <3>1 DEF InWindow
    <3>4. QED
      BY <3>1, <3>2, <3>3
  <2>6. Cardinality(Trailing(x)) \in Nat
        /\ Cardinality(Trailing(x)) <= Cardinality(A) + Cardinality(B)
    <3> DEFINE T == Trailing(x)
    <3> HIDE DEF A, B, T
    <3>1. T \subseteq A \cup B
      BY <2>5 DEF T
    <3>2. IsFiniteSet(A \cap B) /\ Cardinality(A \cap B) \in Nat
      BY <2>2, FS_Intersection, FS_CardinalityType
    <3>3. /\ IsFiniteSet(A \cup B) /\ Cardinality(A \cup B) \in Nat
          /\ Cardinality(A \cup B) = Cardinality(A) + Cardinality(B) - Cardinality(A \cap B)
      BY <2>2, FS_Union, FS_CardinalityType
    <3>4. Cardinality(T) \in Nat /\ Cardinality(T) <= Cardinality(A \cup B)
      BY <3>1, <3>3, FS_Subset, FS_CardinalityType
    <3>5. QED
      BY <2>2, <3>2, <3>3, <3>4 DEF T
  <2>7. QED
    <3> PICK n \in Nat : n = Cardinality(Trailing(x))
      BY <2>6
    <3> PICK p \in Nat : p = Cardinality(A)
      BY <2>2
    <3> PICK q \in Nat : q = Cardinality(B)
      BY <2>2
    <3>1. n <= p + q /\ p <= Limit
      BY <2>3, <2>6
    <3>2. n <= Limit + q
      BY <3>1, <2>0
    <3>3. Window * n <= Window * (Limit + q) /\ Window * n \in Nat /\ Window * q \in Nat
      BY <3>2, <2>0, ProductMonotone
    <3>4. Window * (Limit + q) = Window * Limit + Window * q /\ Window * Limit \in Nat
      BY <2>0
    <3>5. Window * q <= RefillSince(s, x) /\ RefillSince(s, x) \in Int
      BY <2>4, <2>0, <2>1 DEF RefillSince
    <3> PICK r \in Int : r = RefillSince(s, x)
      BY <3>5
    <3>6. Window * n <= Window * Limit + r
      BY <3>3, <3>4, <3>5
    <3>7. QED
      BY <3>6
<1>2. QED
  BY <1>1, InitInv, NextInv, InitOneThreadInv, NextOneThreadInv, InitHandOffInv,
     NextHandOffInv, PTL DEF Spec

-----------------------------------------------------------------------------
(* The share of a window, for any number of threads and processes.         *)

\* What the bucket is worth at r.
Level(e, r) == IF e = None THEN Limit * Window ELSE Refilled(DefaultBucket, e, r)

\* What the entry of another algorithm says is spent of window k, or of a
\* later one.
Used(a, e, k) ==
  IF a = "sliding_window_log" THEN Cardinality({s \in e : WindowOf(s.t) >= k})
                              ELSE CurrentCount(e, k)

\* What algorithm a can still admit at r, in units of which Window make a request.
Room(a, e, r) ==
  IF a = "token_bucket" THEN IF Level(e, r) > 0 THEN Level(e, r) ELSE 0
                        ELSE Window * (Limit - Used(a, e, WindowOf(r)))

\* What it may admit until r in the window of r.
ShareUntil(a, r) == Window * Limit + IF a = "token_bucket" THEN Elapsed(r) * Limit ELSE 0

\* That it admitted n requests in window k by the newest step, r, is covered by
\* its share of the window and by a limit for each of y late steps.
Bounded(a, e, n, y, r, k) ==
  /\ k > WindowOf(r) => n = 0
  /\ k = WindowOf(r) => Window * n + Room(a, e, r) <= ShareUntil(a, r) + Window * Limit * y
  /\ k < WindowOf(r) => Window * n <= ShareUntil(a, Window - 1) + Window * Limit * y

\* No entry tells of more than the limit, and its stamps are numbered up to n.
Sound(a, e, n) ==
  /\ a = "sliding_window_log" => Cardinality(e) <= Limit /\ \A s \in e : s.n <= n
  /\ a \in {"fixed_window", "sliding_window_counter"} /\ e # None => e.c <= Limit

\* The four algorithms together.
Total(f) == f["fixed_window"] + f["sliding_window_log"]
              + f["sliding_window_counter"] + f["token_bucket"]

\* The algorithms that ran in window k have admitted g of its requests, and x
\* of their steps and primings came late.
Shared(k, g, x) ==
  /\ Total(x) <= late + latePrimes
  /\ Cardinality(InWindow(k)) <= Total(g)
  /\ \A a \in Algos : g[a] > 0 => a \in Needed /\ <<k, a>> \in governed
  /\ \A a \in Needed : Bounded(a, entries[a], g[a], x[a], newest, k)

SharesInv ==
  /\ \A a \in Needed : Sound(a, entries[a], Cardinality(admitted))
  /\ \A k \in Int : \E g, x \in [Algos -> Nat] : Shared(k, g, x)

\* A window apart in time, two timestamps are in different windows.
LEMMA WindowsApart ==
  ASSUME NEW s \in Int, NEW t \in Int, s <= t - Window
  PROVE  /\ WindowOf(s) \in Int /\ WindowOf(t) \in Int
         /\ WindowOf(s) < WindowOf(t)
<1>0. PICK W \in Nat \ {0} : W = Window
  BY ConfigAssumption
<1>1. PICK q \in Int, i \in 0..W - 1 : q = WindowOf(s) /\ s = W * q + i
  BY <1>0, WindowAndOffset
<1>2. PICK k \in Int, j \in 0..W - 1 : k = WindowOf(t) /\ t = W * k + j
  BY <1>0, WindowAndOffset
<1>3. q < k
  <2> SUFFICES ASSUME ~ (q < k) PROVE FALSE
    OBVIOUS
  <2>1. PICK d \in Nat : d = q - k
    OBVIOUS
  <2>2. q = k + d
    BY <2>1
  <2>3. W * q = W * k + W * d
    BY <2>2
  <2>4. PICK x \in Int : x = W * k
    OBVIOUS
  <2>5. PICK y \in Nat : y = W * d
    OBVIOUS
  <2>6. s = x + y + i /\ t = x + j /\ s <= t - W
    BY <1>0, <1>1, <1>2, <2>3, <2>4, <2>5
  <2>7. QED
    BY <2>6
<1>4. QED
  BY <1>1, <1>2, <1>3

\* What is spent of a window is no more than the limit.
LEMMA UsedBounded ==
  ASSUME NEW a \in Algos, a # "token_bucket", NEW e \in EntriesOf(a),
         NEW n, Sound(a, e, n), NEW k
  PROVE  Used(a, e, k) \in 0..Limit
<1>0. Limit \in Nat
  BY ConfigAssumption
<1>1. CASE a = "sliding_window_log"
  <2> DEFINE marks == {s \in e : WindowOf(s.t) >= k}
  <2>1. IsFiniteSet(e) /\ Cardinality(e) \in Nat /\ Cardinality(e) <= Limit
    BY <1>1, LogFinite DEF EntriesOf, Sound
  <2>2. Cardinality(marks) \in Nat /\ Cardinality(marks) <= Cardinality(e)
    BY <2>1, FS_Subset, FS_CardinalityType
  <2>3. Used(a, e, k) = Cardinality(marks)
    BY <1>1 DEF Used
  <2> HIDE DEF marks
  <2>4. QED
    BY <1>0, <2>1, <2>2, <2>3
<1>2. CASE a = "fixed_window"
  BY <1>0, <1>2 DEF Used, CurrentCount, Sound, EntriesOf, FixedWindowEntry
<1>3. CASE a = "sliding_window_counter"
  BY <1>0, <1>3 DEF Used, CurrentCount, Sound, EntriesOf, SlidingCounterEntry
<1>4. QED
  BY <1>1, <1>2, <1>3 DEF Algos

\* A bucket gains no more than its rate, and no time costs it anything.
LEMMA LevelGrows ==
  ASSUME NEW e \in TokenBucketEntry \cup {None}, NEW r \in Int, NEW q \in Int, r <= q
  PROVE  /\ Level(e, r) \in Int /\ Level(e, q) \in Int
         /\ Level(e, r) <= Limit * Window /\ Level(e, q) <= Limit * Window
         /\ Level(e, r) <= Level(e, q)
         /\ Level(e, q) <= Level(e, r) + (q - r) * Limit
<1>0. Limit \in Nat /\ Window \in Nat /\ Limit * Window \in Nat
  BY ConfigAssumption
<1>1. PICK cap \in Nat : cap = Limit * Window
  BY <1>0
<1>2. PICK gain \in Nat : gain = (q - r) * Limit
  BY <1>0
<1>3. CASE e = None
  BY <1>1, <1>2, <1>3 DEF Level
<1>4. CASE e # None
  <2>1. e.tokens \in Int /\ e.last \in Int
    BY <1>4 DEF TokenBucketEntry
  <2>2. PICK x \in Int : x = e.tokens + (r - e.last) * Limit
    BY <2>1, <1>0
  <2>3. (q - e.last) * Limit = (r - e.last) * Limit + (q - r) * Limit
    BY <2>1, <1>0
  <2>4. (r - e.last) * Limit \in Int
    BY <2>1, <1>0
  <2>5. e.tokens + (q - e.last) * Limit = x + gain
    BY <2>1, <2>2, <2>3, <2>4, <1>2
  <2>6. Level(e, r) = IF x > cap THEN cap ELSE x
    BY <1>1, <1>4, <2>2 DEF Level, Refilled, Capped, DefaultBucket
  <2>7. PICK y \in Int : y = x + gain
    OBVIOUS
  <2>8. Level(e, q) = IF y > cap THEN cap ELSE y
    BY <1>1, <1>4, <2>5, <2>7 DEF Level, Refilled, Capped, DefaultBucket
  <2>9. QED
    BY <1>1, <1>2, <2>6, <2>7, <2>8
<1>5. QED
  BY <1>3, <1>4

\* There is room for no less than nothing, and for no more than the limit.
LEMMA RoomRange ==
  ASSUME NEW a \in Algos, NEW e \in EntriesOf(a), NEW n, Sound(a, e, n), NEW r \in Int
  PROVE  /\ Room(a, e, r) \in Int
         /\ 0 <= Room(a, e, r) /\ Room(a, e, r) <= Window * Limit
<1>0. /\ Limit \in Nat /\ Window \in Nat \ {0} /\ Limit * Window \in Nat
      /\ Window * Limit = Limit * Window
  BY ConfigAssumption
<1>1. CASE a = "token_bucket"
  <2>1. e \in TokenBucketEntry \cup {None} /\ r <= r
    BY <1>1 DEF EntriesOf
  <2>2. Level(e, r) \in Int /\ Level(e, r) <= Limit * Window
    BY <2>1, LevelGrows
  <2>3. QED
    BY <1>0, <1>1, <2>2 DEF Room
<1>2. CASE a # "token_bucket"
  <2>1. PICK u \in 0..Limit : u = Used(a, e, WindowOf(r))
    BY <1>2, UsedBounded
  <2>2. PICK v \in Nat : v = Limit - u
    BY <1>0
  <2>3. v * Window \in Nat /\ v * Window <= Limit * Window
    <3>1. v <= Limit
      BY <1>0, <2>2
    <3>2. QED
      BY <1>0, <3>1, ProductMonotone
  <2>4. Room(a, e, r) = v * Window
    BY <1>0, <1>2, <2>1, <2>2 DEF Room
  <2>5. QED
    BY <1>0, <2>3, <2>4
<1>3. QED
  BY <1>1, <1>2

\* What the step of an algorithm other than the bucket adds to what is spent.
LEMMA StepUses ==
  ASSUME NEW a \in Needed, a # "token_bucket", TypeOK, FlowInv,
         NextNumber \in 1..MaxCalls, NEW e, e = entries[a],
         NEW n \in Nat, n = Cardinality(admitted), Sound(a, e, n),
         NEW t \in Time, NEW k \in Int, k = WindowOf(t),
         NEW f, f = StepOf(a, t).entry,
         NEW yes \in BOOLEAN, yes = StepOf(a, t).allowed,
         NEW d \in 0..1, d = IF yes THEN 1 ELSE 0
  PROVE  /\ Sound(a, f, n + d)
         /\ Used(a, e, k) + d <= Used(a, f, k)
         /\ yes => Used(a, e, k) < Limit
<1>0. /\ Limit \in Nat /\ Window \in Nat \ {0} /\ t \in Int /\ a \in Algos
      /\ e \in EntriesOf(a) /\ f \in EntriesOf(a)
  BY ConfigAssumption, MaxTimeAssumption, NeededType, StepOfType DEF Time, TypeOK
<1>1. Used(a, e, k) \in 0..Limit
  BY <1>0, UsedBounded
<1>2. CASE a = "fixed_window"
  <2>1. e \in FixedWindowEntry \cup {None} /\ StepOf(a, t) = FixedWindowOp(e, t)
    BY <1>0, <1>2 DEF EntriesOf, StepOf
  <2> DEFINE count == IF e # None /\ e.w = k THEN e.c ELSE 0
  <2>2. Used(a, e, k) = count
    BY <1>2 DEF Used, CurrentCount
  <2>3. /\ yes <=> count < Limit
        /\ f \in FixedWindowEntry /\ f.w = k
        /\ f.c = IF yes THEN count + 1 ELSE count
    BY <1>0, <2>1, FixedWindowStep
  <2> HIDE DEF count
  <2>4. Used(a, f, k) = f.c
    BY <1>2, <2>3, NoneIsNoFixedWindowEntry DEF Used, CurrentCount
  <2>5. f.c = count + d /\ f.c <= Limit
    BY <1>0, <1>1, <2>2, <2>3
  <2>6. Sound(a, f, n + d)
    BY <1>2, <2>5 DEF Sound
  <2>7. QED
    BY <1>1, <2>2, <2>3, <2>4, <2>5, <2>6
<1>3. CASE a = "sliding_window_counter"
  <2>1. e \in SlidingCounterEntry \cup {None} /\ StepOf(a, t) = SlidingCounterOp(e, t)
    BY <1>0, <1>3 DEF EntriesOf, StepOf
  <2> DEFINE cc == CurrentCount(e, k)
             pc_ == PreviousCount(e, k)
  <2>2. Used(a, e, k) = cc
    BY <1>3 DEF Used
  <2>3. /\ cc \in Nat /\ pc_ \in Nat
        /\ yes <=> Estimate(cc, pc_, t) < Limit * Window
        /\ f \in SlidingCounterEntry /\ f.w = k
        /\ f.c = IF yes THEN cc + 1 ELSE cc
    BY <1>0, <2>1, SlidingCounterStep
  <2>4. yes => cc < Limit
    BY <1>0, <2>3, EstimateBounds
  <2> HIDE DEF cc, pc_
  <2>5. Used(a, f, k) = f.c
    BY <1>3, <2>3, NoneIsNoSlidingCounterEntry DEF Used, CurrentCount
  <2>6. f.c = cc + d /\ f.c <= Limit
    BY <1>0, <1>1, <2>2, <2>3, <2>4
  <2>7. Sound(a, f, n + d)
    BY <1>3, <2>6 DEF Sound
  <2>8. QED
    BY <1>1, <2>2, <2>4, <2>5, <2>6, <2>7
<1>4. CASE a = "sliding_window_log"
  <2> PICK number \in Nat : number = NextNumber
    OBVIOUS
  <2> DEFINE new == [t |-> t, n |-> number]
             kept == Kept(e, t)
             A == {s \in e : WindowOf(s.t) >= k}
             B == {s \in f : WindowOf(s.t) >= k}
  <2>1. /\ StepOf(a, t) = SlidingLogOp(e, t, number) /\ number = n + 1
        /\ e \in SUBSET [t : Time, n : -Limit..MaxCalls]
        /\ f \in SUBSET [t : Time, n : -Limit..MaxCalls]
    BY <1>0, <1>4 DEF EntriesOf, StepOf, NextNumber
  <2>2. /\ IsFiniteSet(e) /\ Cardinality(e) \in Nat /\ Cardinality(e) <= Limit
        /\ \A s \in e : s.n <= n /\ s.n \in Int /\ s.t \in Int
        /\ IsFiniteSet(f) /\ Cardinality(f) \in Nat
    <3>1. /\ IsFiniteSet(e) /\ Cardinality(e) \in Nat
          /\ IsFiniteSet(f) /\ Cardinality(f) \in Nat
      BY <2>1, LogFinite
    <3>2. \A s \in e : s.n \in Int /\ s.t \in Int
      BY <2>1, <1>0, MaxTimeAssumption, AdaptiveAssumption DEF Time
    <3>3. QED
      BY <3>1, <3>2, <1>4 DEF Sound
  <2>3. kept \subseteq e /\ new.t = t /\ new.n = n + 1
    BY <2>1 DEF Kept
  <2>4. IsFiniteSet(kept) /\ Cardinality(kept) \in Nat /\ Cardinality(kept) <= Limit
    BY <2>2, <2>3, <1>0, FS_Subset, FS_CardinalityType
  <2>5. LET r == SlidingLogOp(e, t, number)
        IN  /\ r.allowed \in BOOLEAN
            /\ r.allowed <=> Cardinality(kept) < Limit
            /\ r.entry = IF r.allowed THEN kept \cup {new} ELSE kept
    BY <1>0, <2>4, SlidingLogStep
  <2>6. /\ yes <=> Cardinality(kept) < Limit
        /\ f = IF yes THEN kept \cup {new} ELSE kept
    BY <2>1, <2>5
  <2>7. \A s \in e : WindowOf(s.t) >= k => s.t > t - Window
    <3> SUFFICES ASSUME NEW s \in e, WindowOf(s.t) >= k, ~ (s.t > t - Window)
                 PROVE  FALSE
      OBVIOUS
    <3> PICK u \in Int : u = s.t
      BY <2>2
    <3>1. u <= t - Window
      BY <1>0
    <3>2. WindowOf(u) < k /\ WindowOf(u) \in Int
      BY <1>0, <3>1, WindowsApart
    <3>3. QED
      BY <3>2
  <2>8. A \subseteq kept
    BY <2>7 DEF Kept
  <2>9. new \notin e
    BY <2>2, <2>3
  <2>10. k >= k
    OBVIOUS
  <2> HIDE DEF kept, new
  <2>11. /\ IsFiniteSet(A) /\ Cardinality(A) \in Nat
         /\ IsFiniteSet(B) /\ Cardinality(B) \in Nat
         /\ Cardinality(A) <= Cardinality(kept)
    BY <2>2, <2>4, <2>8, FS_Subset, FS_CardinalityType
  <2>12. Used(a, e, k) = Cardinality(A) /\ Used(a, f, k) = Cardinality(B)
    BY <1>4 DEF Used
  <2>13. CASE ~ yes
    <3>1. A \subseteq B
      BY <2>6, <2>8, <2>13
    <3>2. Cardinality(A) <= Cardinality(B)
      BY <3>1, <2>11, FS_Subset
    <3>3. Sound(a, f, n + d)
      BY <1>4, <2>2, <2>3, <2>4, <2>6, <2>13 DEF Sound
    <3> HIDE DEF A, B
    <3>4. QED
      BY <3>2, <3>3, <2>11, <2>12, <2>13
  <2>14. CASE yes
    <3>1. A \cup {new} \subseteq B /\ new \notin A
      BY <2>3, <2>6, <2>8, <2>9, <2>10, <2>14
    <3>2. /\ IsFiniteSet(A \cup {new}) /\ Cardinality(A \cup {new}) = Cardinality(A) + 1
      BY <2>11, <3>1, FS_AddElement
    <3>3. Cardinality(A) + 1 <= Cardinality(B)
      BY <3>1, <3>2, <2>11, FS_Subset
    <3>4. new \notin kept /\ Cardinality(kept \cup {new}) = Cardinality(kept) + 1
      BY <2>3, <2>4, <2>9, FS_AddElement
    <3>5. Cardinality(f) <= Limit
      BY <2>4, <2>6, <2>14, <3>4, <1>0
    <3>6. \A s \in f : s.n <= n + 1
      BY <2>2, <2>3, <2>6, <2>14
    <3>7. Sound(a, f, n + d)
      BY <1>4, <2>14, <3>5, <3>6 DEF Sound
    <3> HIDE DEF A, B
    <3>8. QED
      BY <1>0, <2>4, <2>6, <2>11, <2>12, <2>14, <3>3, <3>7
  <2>15. QED
    BY <2>13, <2>14
<1>5. QED
  BY <1>0, <1>2, <1>3, <1>4 DEF Algos

\* What the step of the bucket takes from what it is worth.
LEMMA StepTakes ==
  ASSUME "token_bucket" \in Needed, TypeOK, NextNumber \in 1..MaxCalls,
         NEW e, e = entries["token_bucket"], NEW t \in Time,
         NEW f, f = StepOf("token_bucket", t).entry,
         NEW yes \in BOOLEAN, yes = StepOf("token_bucket", t).allowed,
         NEW d \in 0..1, d = IF yes THEN 1 ELSE 0
  PROVE  /\ yes => Window <= Level(e, t)
         /\ Level(f, t) = Level(e, t) - Window * d
<1>0. /\ Limit \in Nat /\ Window \in Nat \ {0} /\ Limit * Window \in Nat /\ t \in Int
      /\ e \in TokenBucketEntry \cup {None}
      /\ StepOf("token_bucket", t) = TokenBucketOp(DefaultBucket, e, t)
  BY ConfigAssumption, MaxTimeAssumption DEF Time, TypeOK, EntriesOf, StepOf
<1>1. PICK level \in Int : level = Level(e, t) /\ level <= Limit * Window
  <2>1. t <= t
    BY <1>0
  <2>2. QED
    BY <1>0, <2>1, LevelGrows
<1>2. /\ yes <=> level >= Window
      /\ f \in TokenBucketEntry /\ f.last = t
      /\ f.tokens = IF yes THEN level - Window ELSE level
  BY <1>0, <1>1, TokenBucketStep DEF DefaultBucket, Level
<1>3. f # None /\ f.tokens \in Int /\ f.tokens <= Limit * Window
  BY <1>0, <1>1, <1>2, NoneIsNoTokenBucketEntry DEF TokenBucketEntry
<1>4. f.tokens + (t - f.last) * Limit = f.tokens
  BY <1>0, <1>2, <1>3
<1>5. Level(f, t) = f.tokens
  <2>1. PICK x \in Int : x = f.tokens
    BY <1>3
  <2>2. Level(f, t) = IF x > Limit * Window THEN Limit * Window ELSE x
    BY <1>3, <1>4, <2>1 DEF Level, Refilled, Capped, DefaultBucket
  <2>3. QED
    BY <1>0, <1>3, <2>1, <2>2
<1>6. Window * d = IF yes THEN Window ELSE 0
  BY <1>0
<1>7. QED
  BY <1>0, <1>1, <1>2, <1>5, <1>6

\* As time passes within a window only the bucket gains room, at its rate.
LEMMA RoomGrows ==
  ASSUME NEW a \in Algos, NEW e \in EntriesOf(a), NEW n, Sound(a, e, n),
         NEW r \in Int, NEW q \in Int, r <= q, WindowOf(r) = WindowOf(q)
  PROVE  Room(a, e, q) - ShareUntil(a, q) <= Room(a, e, r) - ShareUntil(a, r)
<1>0. Limit \in Nat /\ Window \in Nat \ {0} /\ Window * Limit \in Nat
  BY ConfigAssumption
<1>1. CASE a = "token_bucket"
  <2>1. PICK x \in Int, y \in Int :
          /\ x = Level(e, r) /\ y = Level(e, q)
          /\ x <= y /\ y <= x + (q - r) * Limit
    BY <1>1, LevelGrows DEF EntriesOf
  <2>2. PICK v \in Int, i \in Nat, j \in Nat :
          i = Elapsed(r) /\ j = Elapsed(q) /\ r = v + i /\ q = v + j
    <3>1. WindowOf(r) \in Int /\ Window * WindowOf(r) \in Int
      BY WindowAndOffset, <1>0
    <3>2. /\ Elapsed(r) \in Nat /\ Elapsed(q) \in Nat
          /\ r = Window * WindowOf(r) + Elapsed(r)
          /\ q = Window * WindowOf(r) + Elapsed(q)
      BY WindowAndOffset, <1>0
    <3>3. QED
      BY <3>1, <3>2
  <2>3. (q - r) * Limit = j * Limit - i * Limit
    <3>1. q - r = j - i
      BY <2>2
    <3>2. QED
      BY <3>1, <2>2, <1>0
  <2>4. i * Limit \in Nat /\ j * Limit \in Nat /\ i * Limit <= j * Limit
    <3>1. i <= j
      BY <2>2
    <3>2. Limit * i \in Nat /\ Limit * j \in Nat /\ Limit * i <= Limit * j
      BY <1>0, <3>1, ProductMonotone
    <3>3. QED
      BY <1>0, <3>2
  <2>5. /\ ShareUntil(a, r) = Window * Limit + i * Limit
        /\ ShareUntil(a, q) = Window * Limit + j * Limit
    BY <1>1, <2>2 DEF ShareUntil
  <2>6. /\ Room(a, e, r) = IF x > 0 THEN x ELSE 0
        /\ Room(a, e, q) = IF y > 0 THEN y ELSE 0
    BY <1>1, <2>1 DEF Room
  <2>7. QED
    <3> PICK p \in Nat : p = i * Limit
      BY <2>4
    <3> PICK s \in Nat : s = j * Limit
      BY <2>4
    <3> PICK b \in Nat : b = Window * Limit
      BY <1>0
    <3>1. /\ x <= y /\ y <= x + (s - p) /\ p <= s
          /\ ShareUntil(a, r) = b + p /\ ShareUntil(a, q) = b + s
      BY <2>1, <2>3, <2>4, <2>5
    <3>2. QED
      BY <3>1, <2>6
<1>2. CASE a # "token_bucket"
  <2>1. ShareUntil(a, r) = Window * Limit /\ ShareUntil(a, q) = Window * Limit
    BY <1>0, <1>2 DEF ShareUntil
  <2>2. Room(a, e, r) = Room(a, e, q)
    BY <1>2 DEF Room
  <2>3. QED
    BY <1>0, <2>1, <2>2, RoomRange
<1>3. QED
  BY <1>1, <1>2

\* What a window may admit until its last tick is what it may admit in all, and
\* at least what it may admit until r.
LEMMA ShareUntilBounded ==
  ASSUME NEW a, NEW r \in Int
  PROVE  /\ ShareUntil(a, r) \in Int /\ Window * Limit <= ShareUntil(a, r)
         /\ ShareUntil(a, r) <= ShareUntil(a, Window - 1)
         /\ ShareUntil(a, Window - 1)
              = Window * Limit + IF a = "token_bucket" THEN (Window - 1) * Limit ELSE 0
<1>0. Limit \in Nat /\ Window \in Nat \ {0} /\ Window * Limit \in Nat
  BY ConfigAssumption
<1>1. PICK i \in Nat : i = Elapsed(r) /\ i <= Window - 1
  BY WindowAndOffset, <1>0
<1>2. i * Limit \in Nat /\ (Window - 1) * Limit \in Nat /\ i * Limit <= (Window - 1) * Limit
  <2>1. PICK m \in Nat : m = Window - 1
    BY <1>0
  <2>2. Limit * i \in Nat /\ Limit * m \in Nat /\ Limit * i <= Limit * m
    BY <1>0, <1>1, <2>1, ProductMonotone
  <2>3. QED
    BY <1>0, <2>1, <2>2
<1>3. Elapsed(Window - 1) = Window - 1
  <2>1. (Window - 1) \div Window = 0
    BY <1>0
  <2>2. QED
    BY <2>1, <1>0 DEF Elapsed, WindowOf
<1>4. QED
  BY <1>0, <1>1, <1>2, <1>3 DEF ShareUntil

\* Every late step adds a limit to the bound.
LEMMA ExtraGrows ==
  ASSUME NEW x \in Nat, NEW y \in Nat, x <= y
  PROVE  /\ Window * Limit \in Nat
         /\ Window * Limit * x \in Nat /\ Window * Limit * y \in Nat
         /\ Window * Limit * x <= Window * Limit * y
         /\ y = x + 1 => Window * Limit * y = Window * Limit * x + Window * Limit
<1>1. PICK p \in Nat : p = Window * Limit
  BY ConfigAssumption
<1>2. /\ p * x \in Nat /\ p * y \in Nat /\ p * x <= p * y
      /\ y = x + 1 => p * y = p * x + p
  BY ProductMonotone
<1>3. QED
  BY <1>1, <1>2

\* What a step admits is taken from the room there was.
LEMMA RoomSpent ==
  ASSUME NEW a \in Needed, TypeOK, FlowInv,
         NextNumber \in 1..MaxCalls, NEW e, e = entries[a],
         NEW n \in Nat, n = Cardinality(admitted), Sound(a, e, n),
         NEW t \in Time, NEW f, f = StepOf(a, t).entry,
         NEW yes \in BOOLEAN, yes = StepOf(a, t).allowed,
         NEW d \in 0..1, d = IF yes THEN 1 ELSE 0
  PROVE  /\ Sound(a, f, n + d)
         /\ Room(a, f, t) + Window * d <= Room(a, e, t)
         /\ yes => Window <= Window * Limit
         /\ \A r \in Int : yes /\ t <= r /\ WindowOf(r) = WindowOf(t) => Window <= Room(a, e, r)
<1>0. /\ Limit \in Nat /\ Window \in Nat \ {0} /\ Limit * Window \in Nat /\ t \in Int
      /\ a \in Algos /\ e \in EntriesOf(a) /\ f \in EntriesOf(a)
      /\ Window * Limit = Limit * Window
  BY ConfigAssumption, MaxTimeAssumption, NeededType, StepOfType DEF Time, TypeOK
<1>1. CASE a = "token_bucket"
  <2>0. /\ e \in TokenBucketEntry \cup {None} /\ f \in TokenBucketEntry \cup {None}
        /\ t <= t
    BY <1>0, <1>1 DEF EntriesOf
  <2>1. /\ yes => Window <= Level(e, t)
        /\ Level(f, t) = Level(e, t) - Window * d
    BY <1>1, StepTakes
  <2>2. PICK x \in Int, y \in Int :
          x = Level(e, t) /\ y = Level(f, t) /\ x <= Limit * Window
    BY <1>0, <2>0, LevelGrows
  <2>3. Window * d = IF yes THEN Window ELSE 0
    BY <1>0
  <2>4. Room(a, e, t) = (IF x > 0 THEN x ELSE 0) /\ Room(a, f, t) = (IF y > 0 THEN y ELSE 0)
    BY <1>1, <2>2 DEF Room
  <2>5. Room(a, f, t) + Window * d <= Room(a, e, t)
    BY <1>0, <2>1, <2>2, <2>3, <2>4
  <2>6. yes => Window <= Window * Limit
    BY <1>0, <2>1, <2>2
  <2>7. ASSUME NEW r \in Int, yes, t <= r
        PROVE  Window <= Room(a, e, r)
    <3>1. Level(e, r) \in Int /\ Level(e, t) <= Level(e, r)
      BY <1>0, <2>0, <2>7, LevelGrows
    <3>2. PICK z \in Int : z = Level(e, r) /\ x <= z
      BY <2>2, <3>1
    <3>3. Window <= z
      BY <1>0, <2>1, <2>2, <2>7, <3>2
    <3>4. QED
      BY <1>0, <1>1, <3>2, <3>3 DEF Room
  <2>8. Sound(a, f, n + d)
    BY <1>1 DEF Sound
  <2>9. QED
    BY <2>5, <2>6, <2>7, <2>8
<1>2. CASE a # "token_bucket"
  <2>1. PICK k \in Int : k = WindowOf(t)
    BY <1>0, WindowAndOffset
  <2>2. /\ Sound(a, f, n + d)
        /\ Used(a, e, k) + d <= Used(a, f, k)
        /\ yes => Used(a, e, k) < Limit
    BY <1>2, <2>1, StepUses
  <2>3. PICK u \in 0..Limit, v \in 0..Limit : u = Used(a, e, k) /\ v = Used(a, f, k)
    BY <1>0, <1>2, <2>2, UsedBounded
  <2>4. /\ Room(a, f, t) = Window * (Limit - v) /\ Room(a, e, t) = Window * (Limit - u)
        /\ \A r \in Int : WindowOf(r) = WindowOf(t) => Room(a, e, r) = Window * (Limit - u)
    BY <1>2, <2>1, <2>3 DEF Room
  <2>5. PICK i \in Nat, j \in Nat : i = Limit - u /\ j = Limit - v /\ j + d <= i
    BY <1>0, <2>2, <2>3
  <2>6. Window * j + Window * d <= Window * i
    <3>1. j + d \in Nat
      OBVIOUS
    <3>2. Window * (j + d) <= Window * i
      BY <1>0, <2>5, <3>1, ProductMonotone
    <3>3. Window * (j + d) = Window * j + Window * d
      BY <1>0
    <3>4. QED
      BY <3>2, <3>3
  <2>7. yes => Window <= Window * i /\ Window <= Window * Limit
    <3> SUFFICES ASSUME yes PROVE Window <= Window * i /\ Window <= Window * Limit
      OBVIOUS
    <3> PICK one \in Nat : one = 1
      OBVIOUS
    <3>1. one <= i /\ one <= Limit
      BY <1>0, <2>2, <2>3, <2>5
    <3>2. Window * one <= Window * i /\ Window * one <= Window * Limit
      BY <1>0, <3>1, ProductMonotone
    <3>3. Window * one = Window
      BY <1>0
    <3>4. QED
      BY <3>2, <3>3
  <2>8. QED
    BY <2>2, <2>4, <2>5, <2>6, <2>7
<1>3. QED
  BY <1>1, <1>2

\* Priming leaves no more room than there was, at any time before it.
LEMMA PrimedRoom ==
  ASSUME NEW a \in Needed, TypeOK, FlowInv, NEW e, e = entries[a],
         NEW n \in Nat, n = Cardinality(admitted), Sound(a, e, n),
         NEW t \in Time, NEW f, f = Primed(a, t)
  PROVE  /\ Sound(a, f, n)
         /\ \A r \in Int : r <= t => Room(a, f, r) <= Room(a, e, r)
<1>0. /\ Limit \in Nat /\ Window \in Nat \ {0} /\ t \in Int
      /\ a \in Algos /\ e \in EntriesOf(a) /\ f \in EntriesOf(a)
  BY ConfigAssumption, MaxTimeAssumption, NeededType, PrimedType DEF Time, TypeOK
<1>1. CASE a = "sliding_window_log"
  <2>1. f = SlidingLogPrime(t) /\ Cardinality(f) = Limit
    BY <1>0, <1>1, PrimedLogIsFull DEF Primed
  <2>2. \A s \in f : s.t = t /\ s.n <= 0 /\ s.n \in Int
    BY <2>1, <1>0 DEF SlidingLogPrime
  <2>3. Sound(a, f, n)
    <3>1. \A s \in f : s.n <= n
      BY <2>2
    <3>2. QED
      BY <1>0, <1>1, <2>1, <3>1 DEF Sound
  <2>4. ASSUME NEW r \in Int, r <= t
        PROVE  Room(a, f, r) <= Room(a, e, r)
    <3>1. WindowOf(r) <= WindowOf(t)
      BY <1>0, <2>4, WindowOfMonotone
    <3>2. {s \in f : WindowOf(s.t) >= WindowOf(r)} = f
      <4>1. WindowOf(r) \in Int /\ WindowOf(t) \in Int /\ WindowOf(t) >= WindowOf(r)
        BY <1>0, <3>1, WindowAndOffset
      <4>2. QED
        BY <2>2, <4>1
    <3>3. Used(a, f, WindowOf(r)) = Limit
      BY <1>1, <2>1, <3>2 DEF Used
    <3>4. Room(a, f, r) = 0
      <4>1. Window * (Limit - Limit) = 0
        BY <1>0
      <4>2. QED
        BY <1>1, <3>3, <4>1 DEF Room
    <3>5. QED
      BY <1>0, <3>4, RoomRange
  <2>5. QED
    BY <2>3, <2>4
<1>2. CASE a = "token_bucket"
  <2>1. f = [tokens |-> 0, last |-> t]
    BY <1>2 DEF Primed, TokenBucketPrime
  <2>2. f # None /\ f.tokens = 0 /\ f.last = t
    <3>1. [tokens |-> 0, last |-> t] \in TokenBucketEntry
      BY <1>0 DEF TokenBucketEntry
    <3>2. QED
      BY <2>1, <3>1, NoneIsNoTokenBucketEntry
  <2>3. ASSUME NEW r \in Int, r <= t
        PROVE  Room(a, f, r) <= Room(a, e, r)
    <3>1. (r - t) * Limit \in Int /\ (r - t) * Limit <= 0
      <4>1. PICK d \in Nat : d = t - r
        BY <1>0, <2>3
      <4>2. Limit * d \in Nat /\ (r - t) * Limit = - (Limit * d)
        BY <1>0, <4>1
      <4>3. QED
        BY <4>2
    <3>2. PICK x \in Int : x = f.tokens + (r - f.last) * Limit /\ x <= 0
      BY <2>2, <3>1
    <3>3. Limit * Window \in Nat
      BY <1>0
    <3>4. Level(f, r) = x
      BY <2>2, <3>2, <3>3 DEF Level, Refilled, Capped, DefaultBucket
    <3>5. Room(a, f, r) = 0
      BY <1>2, <3>2, <3>4 DEF Room
    <3>6. QED
      BY <1>0, <3>5, RoomRange
  <2>4. QED
    BY <1>2, <2>3 DEF Sound
<1>3. CASE a # "sliding_window_log" /\ a # "token_bucket"
  <2>1. f = e
    BY <1>3 DEF Primed
  <2>2. QED
    BY <1>0, <2>1, RoomRange
<1>4. QED
  BY <1>1, <1>2, <1>3

\* The bound holds on as time passes.
LEMMA BoundedLater ==
  ASSUME NEW a \in Algos, NEW e \in EntriesOf(a), NEW n, Sound(a, e, n),
         NEW g \in Nat, NEW x \in Nat,
         NEW r \in Int, NEW q \in Int, r <= q, NEW k \in Int, Bounded(a, e, g, x, r, k)
  PROVE  Bounded(a, e, g, x, q, k)
<1>1. /\ WindowOf(r) \in Int /\ WindowOf(q) \in Int /\ WindowOf(r) <= WindowOf(q)
      /\ Window \in Nat
  BY WindowOfMonotone, ConfigAssumption
<1>2. PICK p \in Nat, i \in Nat : p = Window * Limit /\ i = Window * Limit * x
  BY ExtraGrows
<1>3. PICK d \in Int, f \in Int, h \in Int :
        /\ d = ShareUntil(a, r) /\ f = ShareUntil(a, q) /\ h = ShareUntil(a, Window - 1)
        /\ p <= d /\ p <= f /\ p <= h /\ d <= h /\ f <= h
  <2>1. Window - 1 \in Int
    BY <1>1
  <2>2. QED
    BY <1>2, <2>1, ShareUntilBounded
<1>4. PICK u \in Int, v \in Int :
        /\ u = Room(a, e, r) /\ v = Room(a, e, q)
        /\ 0 <= u /\ 0 <= v /\ u <= p /\ v <= p
  BY <1>2, RoomRange
<1>5. PICK z \in Int : z = Window * g /\ (g = 0 => z = 0)
  BY <1>1
<1>6. /\ k > WindowOf(r) => g = 0
      /\ k = WindowOf(r) => z + u <= d + i
      /\ k < WindowOf(r) => z <= h + i
  BY <1>2, <1>3, <1>4, <1>5 DEF Bounded
<1>7. WindowOf(r) = WindowOf(q) => v - f <= u - d
  BY <1>3, <1>4, RoomGrows
<1>8. k > WindowOf(q) => g = 0
  BY <1>1, <1>6
<1>9. k = WindowOf(q) => z + v <= f + i
  <2>1. CASE WindowOf(r) = WindowOf(q)
    BY <2>1, <1>2, <1>6, <1>7
  <2>2. CASE WindowOf(r) # WindowOf(q)
    BY <2>2, <1>1, <1>2, <1>3, <1>4, <1>5, <1>6
  <2>3. QED
    BY <2>1, <2>2
<1>10. k < WindowOf(q) => z <= h + i
  <2>1. CASE k > WindowOf(r)
    BY <2>1, <1>2, <1>3, <1>5, <1>6
  <2>2. CASE k = WindowOf(r)
    BY <2>2, <1>2, <1>3, <1>4, <1>6
  <2>3. CASE k < WindowOf(r)
    BY <2>3, <1>2, <1>6
  <2>4. QED
    BY <1>1, <2>1, <2>2, <2>3
<1>11. QED
  BY <1>2, <1>3, <1>4, <1>5, <1>8, <1>9, <1>10 DEF Bounded

\* It holds on when the entry changes at r and takes from the room what is
\* admitted then; a step that comes late may take a limit more.
LEMMA BoundedChange ==
  ASSUME NEW a \in Algos, NEW e \in EntriesOf(a), NEW n, Sound(a, e, n),
         NEW f \in EntriesOf(a), NEW m, Sound(a, f, m),
         NEW g \in Nat, NEW x \in Nat, NEW r \in Int, NEW k \in Int,
         Bounded(a, e, g, x, r, k),
         NEW y \in 0..1, NEW d \in 0..1, d = 1 => k <= WindowOf(r),
         d = 1 /\ k < WindowOf(r) => y = 1 /\ Window <= Window * Limit,
         k = WindowOf(r) => Room(a, f, r) + Window * d <= Room(a, e, r) + Window * Limit * y
  PROVE  Bounded(a, f, g + d, x + y, r, k)
<1>1. Window \in Nat \ {0} /\ Limit \in Nat /\ WindowOf(r) \in Int
  BY ConfigAssumption, WindowAndOffset
<1>2. PICK i \in Nat, j \in Nat, b \in Nat :
        /\ i = Window * Limit * x /\ j = Window * Limit * (x + y)
        /\ b = Window * Limit * y /\ j = i + b
        /\ y = 1 => b = Window * Limit
  <2>1. PICK p \in Nat : p = Window * Limit
    BY <1>1
  <2>2. p * x \in Nat /\ p * y \in Nat /\ p * (x + y) = p * x + p * y /\ (y = 1 => p * y = p)
    BY <2>1
  <2>3. QED
    BY <2>1, <2>2
<1>3. PICK z \in Nat, s \in Nat : z = Window * g /\ s = Window * d /\ Window * (g + d) = z + s
  <2>1. Window * (g + d) = Window * g + Window * d /\ Window * g \in Nat /\ Window * d \in Nat
    BY <1>1
  <2>2. QED
    BY <2>1
<1>4. PICK c \in Int, h \in Int : c = ShareUntil(a, r) /\ h = ShareUntil(a, Window - 1)
  <2>1. Window - 1 \in Int
    BY <1>1
  <2>2. QED
    BY <2>1, ShareUntilBounded
<1>5. PICK u \in Int, v \in Int : u = Room(a, e, r) /\ v = Room(a, f, r)
  BY RoomRange
<1>6. /\ k > WindowOf(r) => g = 0
      /\ k = WindowOf(r) => z + u <= c + i
      /\ k < WindowOf(r) => z <= h + i
  BY <1>2, <1>3, <1>4, <1>5 DEF Bounded
<1>7. k > WindowOf(r) => g + d = 0
  BY <1>1, <1>6
<1>8. k = WindowOf(r) => (z + s) + v <= c + j
  <2>1. k = WindowOf(r) => v + s <= u + b
    BY <1>2, <1>3, <1>5
  <2>2. QED
    BY <2>1, <1>2, <1>3, <1>4, <1>5, <1>6
<1>9. k < WindowOf(r) => z + s <= h + j
  <2>1. CASE d = 0
    <3>1. s = 0
      BY <1>1, <1>3, <2>1
    <3>2. QED
      BY <3>1, <1>2, <1>3, <1>4, <1>6
  <2>2. CASE d = 1 /\ k < WindowOf(r)
    <3>1. s = Window /\ s <= b
      BY <1>1, <1>2, <1>3, <2>2
    <3>2. QED
      BY <3>1, <1>2, <1>3, <1>4, <1>6
  <2>3. QED
    BY <2>1, <2>2
<1>10. QED
  BY <1>2, <1>3, <1>4, <1>5, <1>7, <1>8, <1>9 DEF Bounded

\* So does a step: one that comes late is counted in y.
LEMMA BoundedStep ==
  ASSUME NEW a \in Needed, TypeOK, FlowInv,
         NextNumber \in 1..MaxCalls, NEW e, e = entries[a],
         NEW n \in Nat, n = Cardinality(admitted), Sound(a, e, n),
         NEW t \in Time, NEW f, f = StepOf(a, t).entry,
         NEW yes \in BOOLEAN, yes = StepOf(a, t).allowed,
         NEW g \in Nat, NEW x \in Nat, NEW r \in Int, NEW k \in Int,
         Bounded(a, e, g, x, r, k),
         NEW y \in 0..1, y = IF t < r THEN 1 ELSE 0,
         NEW d \in 0..1, d = IF yes /\ k = WindowOf(t) THEN 1 ELSE 0,
         NEW q \in Int, q = IF t < r THEN r ELSE t
  PROVE  Bounded(a, f, g + d, x + y, q, k)
<1>0. /\ Limit \in Nat /\ Window \in Nat \ {0} /\ t \in Int /\ Window * Limit \in Nat
      /\ a \in Algos /\ e \in EntriesOf(a) /\ f \in EntriesOf(a)
      /\ WindowOf(t) \in Int /\ WindowOf(q) \in Int
  <2>1. Limit \in Nat /\ Window \in Nat \ {0} /\ t \in Int /\ Window * Limit \in Nat
    BY ConfigAssumption, MaxTimeAssumption DEF Time
  <2>2. a \in Algos /\ e \in EntriesOf(a) /\ f \in EntriesOf(a)
    BY NeededType, StepOfType DEF TypeOK
  <2>3. QED
    BY <2>1, <2>2, WindowAndOffset
<1>1. r <= q /\ t <= q /\ WindowOf(t) <= WindowOf(q)
  BY <1>0, WindowOfMonotone
<1>2. PICK c \in 0..1 : c = IF yes THEN 1 ELSE 0
  OBVIOUS
<1>3. /\ Sound(a, f, n + c)
      /\ Room(a, f, t) + Window * c <= Room(a, e, t)
      /\ yes => Window <= Window * Limit
      /\ \A s \in Int : yes /\ t <= s /\ WindowOf(s) = WindowOf(t) => Window <= Room(a, e, s)
  BY <1>2, RoomSpent
<1>4. Bounded(a, e, g, x, q, k)
  BY <1>0, <1>1, BoundedLater
<1>5. d = 1 => k <= WindowOf(q)
  BY <1>1
<1>6. d = 1 /\ k < WindowOf(q) => y = 1 /\ Window <= Window * Limit
  BY <1>0, <1>1, <1>3
<1>7. PICK u \in Int, v \in Int :
        /\ u = Room(a, e, q) /\ v = Room(a, f, q)
        /\ 0 <= u /\ v <= Window * Limit
  BY <1>0, <1>3, RoomRange
<1>8. k = WindowOf(q) => v + Window * d <= u + Window * Limit * y
  <2> SUFFICES ASSUME k = WindowOf(q) PROVE v + Window * d <= u + Window * Limit * y
    OBVIOUS
  <2>1. CASE t < r
    <3>1. y = 1 /\ Window * Limit * y = Window * Limit
      BY <1>0, <2>1
    <3>2. CASE d = 1
      <4>1. yes /\ WindowOf(q) = WindowOf(t)
        BY <3>2
      <4>2. Window <= u
        BY <1>1, <1>3, <1>7, <4>1
      <4>3. Window * d = Window
        BY <1>0, <3>2
      <4>4. QED
        BY <1>0, <1>7, <3>1, <4>2, <4>3
    <3>3. CASE d = 0
      <4>1. Window * d = 0
        BY <1>0, <3>3
      <4>2. QED
        BY <1>0, <1>7, <3>1, <4>1
    <3>4. QED
      BY <3>2, <3>3
  <2>2. CASE ~ (t < r)
    <3>1. q = t /\ y = 0 /\ d = c /\ Window * Limit * y = 0
      BY <1>0, <1>2, <2>2
    <3>2. Window * d \in Nat
      BY <1>0
    <3>3. v + Window * d <= u
      BY <1>3, <1>7, <3>1
    <3>4. QED
      BY <1>7, <3>1, <3>2, <3>3
  <2>3. QED
    BY <2>1, <2>2
<1>9. QED
  BY <1>0, <1>3, <1>4, <1>5, <1>6, <1>7, <1>8, BoundedChange

\* And priming.
LEMMA BoundedPrime ==
  ASSUME NEW a \in Needed, TypeOK, FlowInv, NEW e, e = entries[a],
         NEW n \in Nat, n = Cardinality(admitted), Sound(a, e, n),
         NEW t \in Time, NEW f, f = Primed(a, t),
         NEW g \in Nat, NEW x \in Nat, NEW r \in Int, NEW k \in Int,
         Bounded(a, e, g, x, r, k),
         NEW y \in 0..1, y = IF t < r THEN 1 ELSE 0
  PROVE  Bounded(a, f, g, x + y, r, k)
<1>0. /\ Limit \in Nat /\ Window \in Nat \ {0} /\ t \in Int /\ Window * Limit \in Nat
      /\ a \in Algos /\ e \in EntriesOf(a) /\ f \in EntriesOf(a)
  BY ConfigAssumption, MaxTimeAssumption, NeededType, PrimedType DEF Time, TypeOK
<1>1. Sound(a, f, n) /\ (r <= t => Room(a, f, r) <= Room(a, e, r))
  BY PrimedRoom
<1>2. PICK u \in Int, v \in Int :
        /\ u = Room(a, e, r) /\ v = Room(a, f, r)
        /\ 0 <= u /\ v <= Window * Limit
  BY <1>0, <1>1, RoomRange
<1>3. v <= u + Window * Limit * y
  <2>1. CASE t < r
    <3>1. Window * Limit * y = Window * Limit
      BY <1>0, <2>1
    <3>2. QED
      BY <1>0, <1>2, <3>1
  <2>2. CASE ~ (t < r)
    <3>1. Window * Limit * y = 0 /\ r <= t
      BY <1>0, <2>2
    <3>2. QED
      BY <1>1, <1>2, <3>1
  <2>3. QED
    BY <2>1, <2>2
<1>4. PICK zero \in 0..1 : zero = 0
  OBVIOUS
<1>5. Window * zero = 0 /\ g + zero = g
  BY <1>0, <1>4
<1>6. Room(a, f, r) + Window * zero <= Room(a, e, r) + Window * Limit * y
  BY <1>2, <1>3, <1>5
<1>7. /\ zero = 1 => k <= WindowOf(r)
      /\ zero = 1 /\ k < WindowOf(r) => y = 1 /\ Window <= Window * Limit
      /\ k = WindowOf(r) => Room(a, f, r) + Window * zero <= Room(a, e, r) + Window * Limit * y
  <2>1. zero # 1
    BY <1>4
  <2>2. QED
    BY <1>6, <2>1
<1>8. Bounded(a, f, g + zero, x + y, r, k)
  BY Zenon, <1>0, <1>1, <1>7, BoundedChange
<1>9. QED
  BY <1>5, <1>8

\* One more of one algorithm is one more in total.
LEMMA TotalAdds ==
  ASSUME NEW g \in [Algos -> Nat], NEW h \in [Algos -> Nat], NEW a \in Algos, NEW d \in Nat,
         h[a] = g[a] + d, \A b \in Algos \ {a} : h[b] = g[b]
  PROVE  Total(h) = Total(g) + d
<1>2. \A b \in Algos : g[b] \in Nat /\ h[b] \in Nat
  OBVIOUS
<1>3. CASE a = "fixed_window"
  BY <1>2, <1>3 DEF Total, Algos
<1>4. CASE a = "sliding_window_log"
  BY <1>2, <1>4 DEF Total, Algos
<1>5. CASE a = "sliding_window_counter"
  BY <1>2, <1>5 DEF Total, Algos
<1>6. CASE a = "token_bucket"
  BY <1>2, <1>6 DEF Total, Algos
<1>7. QED
  BY <1>3, <1>4, <1>5, <1>6 DEF Algos

\* Nothing is admitted at first.
LEMMA InitSharesInv == Init => SharesInv
<1> SUFFICES ASSUME Init PROVE SharesInv
  OBVIOUS
<1>0. /\ Limit \in Nat /\ Window \in Nat \ {0} /\ Window * Limit \in Nat
      /\ Needed \subseteq Algos /\ IInv
  BY ConfigAssumption, NeededType, InitInv
<1>1. /\ admitted = {} /\ newest = -1 /\ late = 0 /\ latePrimes = 0
      /\ \A a \in Needed : entries[a] = NoEntry(a) /\ entries[a] \in EntriesOf(a)
  BY <1>0 DEF Init, FlowInit, IInv, TypeOK
<1>2. Cardinality(admitted) = 0
  BY <1>1, FS_EmptySet
<1>3. ASSUME NEW a \in Needed
      PROVE  Sound(a, entries[a], Cardinality(admitted))
  BY <1>0, <1>1, FS_EmptySet DEF Sound, NoEntry
<1>4. ASSUME NEW k \in Int
      PROVE  \E g, x \in [Algos -> Nat] : Shared(k, g, x)
  <2> DEFINE zero == [a \in Algos |-> 0]
  <2>1. zero \in [Algos -> Nat] /\ \A a \in Algos : zero[a] = 0
    OBVIOUS
  <2> HIDE DEF zero
  <2>2. Total(zero) = 0
    BY <2>1 DEF Total, Algos
  <2>3. Cardinality(InWindow(k)) = 0
    BY <1>1, FS_EmptySet DEF InWindow
  <2>4. ASSUME NEW a \in Needed
        PROVE  Bounded(a, entries[a], zero[a], zero[a], newest, k)
    <3> PICK none \in Nat : none = 0
      OBVIOUS
    <3>1. Window * none = 0 /\ Window * Limit * none = 0
      BY <1>0
    <3>2. newest \in Int /\ Window - 1 \in Int
      BY <1>0, <1>1
    <3>3. /\ Room(a, entries[a], newest) \in Int
          /\ Room(a, entries[a], newest) <= Window * Limit
      BY <1>0, <1>1, <1>3, <3>2, RoomRange
    <3>4. /\ ShareUntil(a, newest) \in Int /\ Window * Limit <= ShareUntil(a, newest)
          /\ ShareUntil(a, Window - 1) \in Int /\ Window * Limit <= ShareUntil(a, Window - 1)
      BY <3>2, ShareUntilBounded
    <3>5. Bounded(a, entries[a], none, none, newest, k)
      BY <1>0, <3>1, <3>3, <3>4 DEF Bounded
    <3>6. QED
      BY <1>0, <2>1, <3>5
  <2>5. Shared(k, zero, zero)
    BY <1>1, <2>1, <2>2, <2>3, <2>4 DEF Shared
  <2>6. QED
    BY <2>1, <2>5
<1>5. QED
  BY <1>3, <1>4 DEF SharesInv

\* The step of an algorithm adds to what it has admitted, and counts as late if
\* a newer one has run.
LEMMA ExecuteShares ==
  ASSUME IInv, SharesInv, NEW w \in Workers, Execute(w)
  PROVE  SharesInv'
<1> PICK a : a = picked[w]
  OBVIOUS
<1> PICK t : t = now[w]
  OBVIOUS
<1> PICK e : e = entries[a]
  OBVIOUS
<1> PICK f : f = StepOf(a, t).entry
  OBVIOUS
<1>1. /\ a \in Needed /\ t \in Time /\ now[w] # None
      /\ StepOf(a, t).allowed \in BOOLEAN
      /\ entries' = [entries EXCEPT ![a] = f]
      /\ Respond(w, StepOf(a, t).allowed)
  BY ExecuteResponds
<1> PICK yes \in BOOLEAN : yes = StepOf(a, t).allowed
  BY <1>1
<1>2. /\ TypeOK /\ FlowInv /\ a \in Algos /\ t \in Int /\ WindowOf(t) \in Int
      /\ DOMAIN entries = Needed /\ f \in EntriesOf(a) /\ e \in EntriesOf(a)
      /\ NextNumber \in 1..MaxCalls /\ Needed \subseteq Algos
      /\ newest \in Int /\ late \in Nat /\ latePrimes \in Nat
  <2>1. TypeOK /\ FlowInv /\ a \in Algos /\ t \in Int /\ Needed \subseteq Algos
    BY <1>1, NeededType, MaxTimeAssumption DEF IInv, Time
  <2>2. /\ DOMAIN entries = Needed /\ e \in EntriesOf(a)
        /\ newest \in Int /\ late \in Nat /\ latePrimes \in Nat
    BY <1>1, <2>1, MaxTimeAssumption DEF TypeOK, FlowTypeOK, Time
  <2>3. NextNumber \in 1..MaxCalls
    <3>1. pc[w] # "idle"
      BY DEF Execute, Goto
    <3>2. QED
      BY <3>1, NumberBounded
  <2>4. f \in EntriesOf(a)
    BY <1>1, <2>1, <2>3, StepOfType
  <2>5. QED
    BY <2>1, <2>2, <2>3, <2>4, WindowAndOffset
<1> PICK r \in Int : r = newest
  BY <1>2
<1> PICK q \in Int : q = IF t < r THEN r ELSE t
  BY <1>2
<1> PICK y \in 0..1 : y = IF t < r THEN 1 ELSE 0
  OBVIOUS
<1> PICK c \in 0..1 : c = IF yes THEN 1 ELSE 0
  OBVIOUS
<1>3. newest' = q /\ late' = late + y /\ latePrimes' = latePrimes
  BY <1>1, <1>2 DEF Respond, Execute
<1>4. governed' = governed \cup {<<WindowOf(t), a>>}
  BY DEF Execute
<1> PICK n \in Nat : n = Cardinality(admitted)
  BY <1>2, FS_CardinalityType DEF FlowInv
<1>5. Cardinality(admitted') = n + c
  <2>1. /\ NewRequest(w) \notin admitted
        /\ yes => admitted' = admitted \cup {NewRequest(w)}
        /\ ~yes => admitted' = admitted
    BY <1>1, <1>2, RespondInv
  <2>2. IsFiniteSet(admitted)
    BY <1>2 DEF FlowInv
  <2>3. Cardinality(admitted \cup {NewRequest(w)}) = n + 1
    BY <2>1, <2>2, CountNewRequest
  <2>4. CASE yes
    <3>1. admitted' = admitted \cup {NewRequest(w)} /\ c = 1
      BY <2>1, <2>4
    <3>2. QED
      BY <2>3, <3>1
  <2>5. CASE ~yes
    <3>1. admitted' = admitted /\ c = 0 /\ n + 0 = n
      BY <2>1, <2>5
    <3>2. QED
      BY <3>1
  <2>6. QED
    BY <2>4, <2>5
<1>6. Sound(a, e, n) /\ Sound(a, f, n + c)
  <2>1. Sound(a, e, n)
    BY <1>1 DEF SharesInv
  <2>2. QED
    BY <1>1, <1>2, <2>1, RoomSpent
<1>7. entries'[a] = f /\ \A b \in Needed \ {a} : entries'[b] = entries[b]
  BY <1>1, <1>2
<1>8. ASSUME NEW b \in Needed
      PROVE  Sound(b, entries[b], n + c) /\ Sound(b, entries'[b], n + c)
  <2>1. Sound(b, entries[b], n) /\ entries[b] \in EntriesOf(b) /\ b \in Algos
    BY <1>2 DEF SharesInv, TypeOK
  <2>2. Sound(b, entries[b], n + c)
    <3>1. CASE b = "sliding_window_log"
      <4>1. entries[b] \in SUBSET [t : Time, n : -Limit..MaxCalls]
        BY <2>1, <3>1 DEF EntriesOf
      <4>2. \A s \in entries[b] : s.n \in Int /\ s.n <= n
        BY <2>1, <3>1, <4>1, ConfigAssumption, AdaptiveAssumption DEF Sound
      <4>3. \A s \in entries[b] : s.n <= n + c
        BY <4>2
      <4>4. QED
        BY <2>1, <3>1, <4>3 DEF Sound
    <3>2. CASE b # "sliding_window_log"
      BY <2>1, <3>2 DEF Sound
    <3>3. QED
      BY <3>1, <3>2
  <2>3. QED
    BY <1>6, <1>7, <2>2
<1>9. ASSUME NEW k \in Int
      PROVE  \E g, x \in [Algos -> Nat] : Shared(k, g, x)'
  <2> PICK g \in [Algos -> Nat], x \in [Algos -> Nat] : Shared(k, g, x)
    BY DEF SharesInv
  <2> PICK d \in 0..1 : d = IF yes /\ k = WindowOf(t) THEN 1 ELSE 0
    OBVIOUS
  <2> DEFINE h == [g EXCEPT ![a] = @ + d]
             z == [x EXCEPT ![a] = @ + y]
  <2>1. d \in Nat /\ y \in Nat
    OBVIOUS
  <2>2. /\ h[a] = g[a] + d /\ z[a] = x[a] + y
        /\ \A b \in Algos \ {a} : h[b] = g[b] /\ z[b] = x[b]
        /\ h \in [Algos -> Nat] /\ z \in [Algos -> Nat]
    BY <1>2, <2>1
  <2> HIDE DEF h, z
  <2>3. Total(h) = Total(g) + d
    BY <1>2, <2>1, <2>2, TotalAdds
  <2>4. Total(z) = Total(x) + y
    BY <1>2, <2>1, <2>2, TotalAdds
  <2>5. Total(g) \in Nat /\ Total(x) \in Nat
    BY DEF Total, Algos
  <2>6. (Total(z) <= late + latePrimes)'
    <3>1. Total(x) <= late + latePrimes
      BY DEF Shared
    <3>2. Total(x) + y <= (late + y) + latePrimes
      BY <1>2, <2>5, <3>1
    <3>3. QED
      BY <1>3, <2>4, <3>2
  <2>7. Cardinality(InWindow(k)') <= Total(h)
    <3>1. /\ (k # WindowOf(t) \/ ~yes) => InWindow(k)' = InWindow(k)
          /\ (k = WindowOf(t) /\ yes)
               => Cardinality(InWindow(k)') = Cardinality(InWindow(k)) + 1
      BY <1>1, <1>2, InWindowStep
    <3>2. Cardinality(InWindow(k)) \in Nat /\ Cardinality(InWindow(k)) <= Total(g)
      BY <1>2, PartsFinite DEF Shared
    <3>3. Cardinality(InWindow(k)') = Cardinality(InWindow(k)) + d
      BY <3>1, <3>2
    <3>4. QED
      BY <2>3, <2>5, <3>2, <3>3
  <2>8. ASSUME NEW b \in Algos, h[b] > 0
        PROVE  b \in Needed /\ <<k, b>> \in governed'
    <3>1. g[b] > 0 => b \in Needed /\ <<k, b>> \in governed
      BY DEF Shared
    <3>2. CASE g[b] > 0
      BY <1>4, <3>1, <3>2
    <3>3. CASE ~ (g[b] > 0)
      <4>1. g[b] = 0
        BY <3>3
      <4>2. b = a /\ k = WindowOf(t)
        BY <2>2, <2>8, <4>1
      <4>3. QED
        BY <1>1, <1>4, <4>2
    <3>4. QED
      BY <3>2, <3>3
  <2>9. ASSUME NEW b \in Needed
        PROVE  Bounded(b, entries'[b], h[b], z[b], q, k)
    <3>1. Bounded(b, entries[b], g[b], x[b], r, k) /\ g[b] \in Nat /\ x[b] \in Nat
      BY <1>2 DEF Shared
    <3>2. CASE b = a
      <4>1. Bounded(a, f, g[a] + d, x[a] + y, q, k)
        BY <1>1, <1>2, <1>6, <3>1, <3>2, BoundedStep
      <4>2. QED
        BY <1>7, <2>2, <3>2, <4>1
    <3>3. CASE b # a
      <4>1. r <= q
        BY <1>2
      <4>2. entries[b] \in EntriesOf(b) /\ Sound(b, entries[b], n) /\ b \in Algos
        BY <1>2 DEF TypeOK, SharesInv
      <4>3. Bounded(b, entries[b], g[b], x[b], q, k)
        BY <3>1, <4>1, <4>2, BoundedLater
      <4>4. QED
        BY <1>2, <1>7, <2>2, <3>3, <4>3
    <3>4. QED
      BY <3>2, <3>3
  <2>10. Shared(k, h, z)'
    BY <1>3, <2>6, <2>7, <2>8, <2>9 DEF Shared
  <2>11. QED
    BY <2>2, <2>10
<1>10. QED
  BY <1>5, <1>8, <1>9 DEF SharesInv

\* Priming adds nothing to what has been admitted, and counts as late if a newer
\* step has run.
LEMMA PrimeShares ==
  ASSUME IInv, SharesInv, NEW w \in Workers, Prime(w)
  PROVE  SharesInv'
<1> PICK a : a = picked[w]
  OBVIOUS
<1> PICK t : t = now[w]
  OBVIOUS
<1> PICK f : f = Primed(a, t)
  OBVIOUS
<1>1. /\ a \in Needed /\ t \in Time
      /\ entries' = [entries EXCEPT ![a] = f]
      /\ UNCHANGED <<admitted, newest, late, governed>>
      /\ latePrimes' = latePrimes + IF t < newest THEN 1 ELSE 0
  <2>1. pc[w] = "prime"
    BY DEF Prime, Goto
  <2>2. a \in Needed /\ t \in Time
    BY <2>1, AtWork DEF IInv, TypeOK, Locals
  <2>3. QED
    BY <2>2 DEF Prime, flow
<1>2. /\ TypeOK /\ FlowInv /\ a \in Algos /\ t \in Int
      /\ DOMAIN entries = Needed /\ Needed \subseteq Algos
      /\ newest \in Int /\ late \in Nat /\ latePrimes \in Nat
  <2>1. TypeOK /\ FlowInv /\ a \in Algos /\ t \in Int /\ Needed \subseteq Algos
    BY <1>1, NeededType, MaxTimeAssumption DEF IInv, Time
  <2>2. /\ DOMAIN entries = Needed
        /\ newest \in Int /\ late \in Nat /\ latePrimes \in Nat
    BY <2>1, MaxTimeAssumption DEF TypeOK, FlowTypeOK, Time
  <2>3. QED
    BY <2>1, <2>2
<1> PICK r \in Int : r = newest
  BY <1>2
<1> PICK y \in 0..1 : y = IF t < r THEN 1 ELSE 0
  OBVIOUS
<1> PICK n \in Nat : n = Cardinality(admitted)
  BY <1>2, FS_CardinalityType DEF FlowInv
<1>3. entries'[a] = f /\ \A b \in Needed \ {a} : entries'[b] = entries[b]
  BY <1>1, <1>2
<1>4. \A b \in Needed : Sound(b, entries[b], n)
  BY DEF SharesInv
<1>5. Sound(a, f, n)
  BY <1>1, <1>2, <1>4, PrimedRoom
<1>6. \A b \in Needed : Sound(b, entries'[b], n)
  BY <1>3, <1>4, <1>5
<1>7. ASSUME NEW k \in Int
      PROVE  \E g, x \in [Algos -> Nat] : Shared(k, g, x)'
  <2> PICK g \in [Algos -> Nat], x \in [Algos -> Nat] : Shared(k, g, x)
    BY DEF SharesInv
  <2> DEFINE z == [x EXCEPT ![a] = @ + y]
  <2>1. y \in Nat
    OBVIOUS
  <2>2. /\ z[a] = x[a] + y /\ z \in [Algos -> Nat]
        /\ \A b \in Algos \ {a} : z[b] = x[b]
    BY <1>2, <2>1
  <2> HIDE DEF z
  <2>3. Total(z) = Total(x) + y
    BY <1>2, <2>1, <2>2, TotalAdds
  <2>4. Total(x) \in Nat
    BY DEF Total, Algos
  <2>5. Total(z) <= late + latePrimes'
    <3>1. Total(x) <= late + latePrimes
      BY DEF Shared
    <3>2. Total(x) + y <= late + (latePrimes + y)
      BY <1>2, <2>4, <3>1
    <3>3. latePrimes' = latePrimes + y
      BY <1>1
    <3>4. QED
      BY <2>3, <3>2, <3>3
  <2>6. ASSUME NEW b \in Needed
        PROVE  Bounded(b, entries'[b], g[b], z[b], r, k)
    <3>1. Bounded(b, entries[b], g[b], x[b], r, k) /\ g[b] \in Nat /\ x[b] \in Nat
      BY <1>2 DEF Shared
    <3>2. CASE b = a
      <4>1. Bounded(a, f, g[a], x[a] + y, r, k)
        BY <1>1, <1>2, <1>4, <3>1, <3>2, BoundedPrime
      <4>2. QED
        BY <1>3, <2>2, <3>2, <4>1
    <3>3. CASE b # a
      BY <1>2, <1>3, <2>2, <3>1, <3>3
    <3>4. QED
      BY <3>2, <3>3
  <2>7. InWindow(k)' = InWindow(k)
    BY <1>1 DEF InWindow, WindowOf
  <2>8. Shared(k, g, z)'
    BY <1>1, <2>5, <2>6, <2>7 DEF Shared
  <2>9. QED
    BY <2>2, <2>8
<1>8. QED
  BY <1>1, <1>6, <1>7 DEF SharesInv

LEMMA NextSharesInv == IInv /\ SharesInv /\ [Next]_vars => SharesInv'
<1> SUFFICES ASSUME IInv, SharesInv, [Next]_vars PROVE SharesInv'
  OBVIOUS
<1>1. ASSUME NEW w \in Workers, Execute(w) PROVE SharesInv'
  BY <1>1, ExecuteShares
<1>2. ASSUME NEW w \in Workers, Prime(w) PROVE SharesInv'
  BY <1>2, PrimeShares
<1>3. CASE UNCHANGED <<entries, admitted, newest, late, latePrimes, governed>>
  <2>1. \A k : InWindow(k)' = InWindow(k)
    BY <1>3 DEF InWindow, WindowOf
  <2>2. ASSUME NEW k \in Int
        PROVE  \E g, x \in [Algos -> Nat] : Shared(k, g, x)'
    <3> PICK g \in [Algos -> Nat], x \in [Algos -> Nat] : Shared(k, g, x)
      BY DEF SharesInv
    <3>1. Shared(k, g, x)'
      BY <1>3, <2>1 DEF Shared
    <3>2. QED
      BY <3>1
  <2>3. QED
    BY <1>3, <2>2 DEF SharesInv
<1>4. ASSUME NEW w \in Workers, AllowRequest(w), ~ Execute(w), ~ Prime(w)
      PROVE  UNCHANGED <<entries, admitted, newest, late, latePrimes, governed>>
  BY <1>4, Kinds, MovingFrame, NotingFrame, SwitchFrame, ObservingFrame, RaisingFrame
     DEF flow, history, Begin, ReadClock, Lookup, Create, ClassifyTraffic, Route
<1>5. QED
  BY <1>1, <1>2, <1>3, <1>4 DEF Next, vars, flow, adaptive, history, Tick

\* The members of a set of algorithms, one by one.
LEMMA AlgorithmsCounted ==
  ASSUME NEW G \in SUBSET Algos, NEW one \in [Algos -> 0..1],
         \A a \in Algos : one[a] = IF a \in G THEN 1 ELSE 0
  PROVE  Cardinality(G) = Total(one)
<1> DEFINE F == {"fixed_window"}
           L == F \cup {"sliding_window_log"}
           C == L \cup {"sliding_window_counter"}
<1>1. IsFiniteSet({}) /\ Cardinality({}) = 0
  BY FS_EmptySet
<1>2. ASSUME NEW S, NEW a \in Algos, a \notin S,
             IsFiniteSet(G \cap S), Cardinality(G \cap S) \in Nat
      PROVE  /\ IsFiniteSet(G \cap (S \cup {a}))
             /\ Cardinality(G \cap (S \cup {a})) = Cardinality(G \cap S) + one[a]
  <2>1. CASE a \in G
    <3>1. G \cap (S \cup {a}) = (G \cap S) \cup {a} /\ a \notin G \cap S /\ one[a] = 1
      BY <1>2, <2>1
    <3>2. QED
      BY <1>2, <3>1, FS_AddElement
  <2>2. CASE a \notin G
    <3>1. G \cap (S \cup {a}) = G \cap S /\ one[a] = 0
      BY <1>2, <2>2
    <3> PICK m \in Nat : m = Cardinality(G \cap S)
      BY <1>2
    <3>2. Cardinality(G \cap (S \cup {a})) = m /\ m + 0 = m
      BY <3>1
    <3>3. QED
      BY <1>2, <3>1, <3>2
  <2>3. QED
    BY <2>1, <2>2
<1>3. \A a \in Algos : one[a] \in Nat
  OBVIOUS
<1>4. IsFiniteSet(G \cap F) /\ Cardinality(G \cap F) = one["fixed_window"]
  <2>1. G \cap {} = {} /\ {} \cup {"fixed_window"} = F
    OBVIOUS
  <2>2. "fixed_window" \in Algos /\ "fixed_window" \notin {}
    BY DEF Algos
  <2>3. IsFiniteSet(G \cap {}) /\ Cardinality(G \cap {}) = 0
    BY <1>1, <2>1
  <2>4. /\ IsFiniteSet(G \cap ({} \cup {"fixed_window"}))
        /\ Cardinality(G \cap ({} \cup {"fixed_window"}))
             = Cardinality(G \cap {}) + one["fixed_window"]
    BY <1>2, <2>2, <2>3
  <2>5. QED
    BY <1>3, <2>1, <2>2, <2>3, <2>4
<1>5. /\ IsFiniteSet(G \cap L)
      /\ Cardinality(G \cap L) = one["fixed_window"] + one["sliding_window_log"]
  <2>1. "sliding_window_log" \in Algos /\ "sliding_window_log" \notin F
        /\ "fixed_window" \in Algos
    BY DEF Algos
  <2> HIDE DEF F
  <2>2. QED
    BY <1>2, <1>3, <1>4, <2>1
<1>6. /\ IsFiniteSet(G \cap C)
      /\ Cardinality(G \cap C) = one["fixed_window"] + one["sliding_window_log"]
                                   + one["sliding_window_counter"]
  <2>1. "sliding_window_counter" \in Algos /\ "sliding_window_counter" \notin L
        /\ "fixed_window" \in Algos /\ "sliding_window_log" \in Algos
    BY DEF Algos
  <2> HIDE DEF L
  <2>2. QED
    BY <1>2, <1>3, <1>5, <2>1
<1>7. Cardinality(G \cap (C \cup {"token_bucket"})) = Total(one)
  <2>1. "token_bucket" \in Algos /\ "token_bucket" \notin C /\ "fixed_window" \in Algos
        /\ "sliding_window_log" \in Algos /\ "sliding_window_counter" \in Algos
    BY DEF Algos
  <2> HIDE DEF C
  <2>2. Cardinality(G \cap C) \in Nat
    BY <1>3, <1>6, <2>1
  <2>3. Cardinality(G \cap (C \cup {"token_bucket"}))
          = Cardinality(G \cap C) + one["token_bucket"]
    BY <1>2, <1>6, <2>1, <2>2
  <2>4. QED
    BY <1>6, <2>3 DEF Total
<1>8. G \cap (C \cup {"token_bucket"}) = G
  BY DEF Algos
<1>9. QED
  BY <1>7, <1>8

\* Processes that route a client to different algorithms, and threads that
\* re-select in mid-window or run on an algorithm that is not primed yet, admit
\* at most the limit for each algorithm that ran in the window, and for each
\* step or priming that came late, besides what the bucket refills.
THEOREM WindowBounded == Spec => []WindowBoundedByItsGovernors
<1>1. IInv /\ SharesInv => WindowBoundedByItsGovernors
  <2> SUFFICES ASSUME IInv, SharesInv, NEW k \in WindowIndices
               PROVE  LET governors == {a \in Needed : <<k, a>> \in governed}
                          refill    == IF "token_bucket" \in governors
                                         THEN (Window - 1) * Limit ELSE 0
                      IN  Window * Cardinality(InWindow(k))
                            <= Window * Limit * (Cardinality(governors) + late + latePrimes)
                                 + refill
    BY DEF WindowBoundedByItsGovernors
  <2> DEFINE G == {a \in Needed : <<k, a>> \in governed}
             one == [a \in Algos |-> IF a \in G THEN 1 ELSE 0]
  <2>0. /\ Window \in Nat \ {0} /\ Limit \in Nat /\ FlowInv /\ k \in Int
        /\ newest \in Int /\ WindowOf(newest) \in Int /\ late \in Nat /\ latePrimes \in Nat
    <3>1. \A t \in Time : WindowOf(t) \in Int
      BY MaxTimeAssumption, WindowAndOffset DEF Time
    <3>2. newest \in Int /\ late \in Nat /\ latePrimes \in Nat
      BY MaxTimeAssumption DEF IInv, TypeOK, FlowTypeOK, Time
    <3>3. QED
      BY <3>1, <3>2, WindowAndOffset, ConfigAssumption DEF WindowIndices, IInv
  <2> PICK g \in [Algos -> Nat], x \in [Algos -> Nat] : Shared(k, g, x)
    BY <2>0 DEF SharesInv
  <2> PICK p \in Nat : p = Window * Limit
    BY <2>0
  <2> PICK s \in Nat : s = (Window - 1) * Limit
    BY <2>0
  <2>1. one \in [Algos -> 0..1] /\ \A a \in Algos : one[a] = IF a \in G THEN 1 ELSE 0
    OBVIOUS
  <2> HIDE DEF one
  <2>2. G \subseteq Algos
    BY NeededType
  <2> HIDE DEF G
  <2>3. Cardinality(G) = Total(one)
    BY <2>1, <2>2, AlgorithmsCounted
  <2>4. ASSUME NEW a \in Algos
        PROVE  /\ Window * g[a] \in Nat /\ p * one[a] \in Nat /\ p * x[a] \in Nat
               /\ Window * g[a] <= p * one[a] + p * x[a]
                                     + IF a = "token_bucket" /\ a \in G THEN s ELSE 0
    <3> PICK n \in Nat, u \in Nat, v \in 0..1 : n = g[a] /\ u = x[a] /\ v = one[a]
      BY <2>1
    <3>1. Window * n \in Nat /\ p * v \in Nat /\ p * u \in Nat
      BY <2>0
    <3>2. CASE n = 0
      <4>1. Window * n = 0
        BY <2>0, <3>2
      <4>2. \A c, d \in Nat : 0 <= c + d + (IF a = "token_bucket" /\ a \in G THEN s ELSE 0)
        OBVIOUS
      <4>3. 0 <= p * v + p * u + (IF a = "token_bucket" /\ a \in G THEN s ELSE 0)
        BY <3>1, <4>2
      <4>4. QED
        BY <3>1, <4>1, <4>3
    <3>3. CASE n # 0
      <4>1. a \in Needed /\ a \in G /\ Bounded(a, entries[a], n, u, newest, k)
        BY <3>3 DEF Shared, G
      <4>2. v = 1 /\ p * v = p
        BY <2>1, <4>1
      <4>3. /\ ShareUntil(a, Window - 1) = p + IF a = "token_bucket" THEN s ELSE 0
            /\ ShareUntil(a, newest) \in Int
            /\ ShareUntil(a, newest) <= ShareUntil(a, Window - 1)
        BY <2>0, ShareUntilBounded
      <4>4. Window * n <= ShareUntil(a, Window - 1) + p * u
        <5>1. CASE k < WindowOf(newest)
          BY <4>1, <5>1 DEF Bounded
        <5>2. CASE k = WindowOf(newest)
          <6>1. Window * n + Room(a, entries[a], newest) <= ShareUntil(a, newest) + p * u
            BY <4>1, <5>2 DEF Bounded
          <6>2. Room(a, entries[a], newest) \in Int /\ 0 <= Room(a, entries[a], newest)
            <7>1. entries[a] \in EntriesOf(a) /\ Sound(a, entries[a], Cardinality(admitted))
              BY <4>1 DEF IInv, TypeOK, SharesInv
            <7>2. QED
              BY <2>0, <7>1, RoomRange
          <6>3. QED
            <7> PICK c \in Nat : c = p * u
              BY <3>1
            <7> PICK z \in Nat : z = Window * n
              BY <3>1
            <7> PICK h \in Int : h = ShareUntil(a, Window - 1)
              BY <4>3
            <7> PICK m \in Int : m = ShareUntil(a, newest)
              BY <4>3
            <7> PICK i \in Int : i = Room(a, entries[a], newest)
              BY <6>2
            <7>1. z + i <= m + c /\ 0 <= i /\ m <= h
              BY <4>3, <6>1, <6>2
            <7>2. z <= h + c
              BY <7>1
            <7>3. QED
              BY <7>2
        <5>3. CASE k > WindowOf(newest)
          BY <3>3, <4>1, <5>3 DEF Bounded
        <5>4. QED
          BY <2>0, <5>1, <5>2, <5>3
      <4>5. QED
        <5> PICK c \in Nat : c = p * u
          BY <3>1
        <5> PICK z \in Nat : z = Window * n
          BY <3>1
        <5>1. z <= p + c + (IF a = "token_bucket" /\ a \in G THEN s ELSE 0)
          BY <4>1, <4>3, <4>4
        <5>2. QED
          BY <3>1, <4>2, <5>1
    <3>4. QED
      BY <3>2, <3>3
  <2> PICK refill \in Nat : refill = IF "token_bucket" \in G THEN s ELSE 0
    OBVIOUS
  <2>5. Window * Total(g) <= p * Total(one) + p * Total(x) + refill
    <3> DEFINE In(a) == Window * g[a]
               Of(a) == p * one[a]
               Late(a) == p * x[a]
    <3>1. \A a \in Algos : g[a] \in Nat /\ x[a] \in Nat /\ one[a] \in Nat
      BY <2>1
    <3>2. /\ Window * Total(g) = In("fixed_window") + In("sliding_window_log")
                                   + In("sliding_window_counter") + In("token_bucket")
          /\ p * Total(one) = Of("fixed_window") + Of("sliding_window_log")
                                + Of("sliding_window_counter") + Of("token_bucket")
          /\ p * Total(x) = Late("fixed_window") + Late("sliding_window_log")
                              + Late("sliding_window_counter") + Late("token_bucket")
      <4>1. ASSUME NEW c \in Nat, NEW f, \A a \in Algos : f[a] \in Nat
            PROVE  c * Total(f) = c * f["fixed_window"] + c * f["sliding_window_log"]
                                    + c * f["sliding_window_counter"] + c * f["token_bucket"]
        <5> PICK i \in Nat, j \in Nat, m \in Nat, n \in Nat :
              /\ i = f["fixed_window"] /\ j = f["sliding_window_log"]
              /\ m = f["sliding_window_counter"] /\ n = f["token_bucket"]
          BY <4>1 DEF Algos
        <5>1. c * (i + j + m + n) = c * i + c * j + c * m + c * n
          OBVIOUS
        <5>2. QED
          BY <5>1 DEF Total
      <4>2. QED
        BY <2>0, <3>1, <4>1
    <3>3. \A a \in Algos : /\ In(a) \in Nat /\ Of(a) \in Nat /\ Late(a) \in Nat
                           /\ In(a) <= Of(a) + Late(a)
                                         + IF a = "token_bucket" /\ a \in G THEN s ELSE 0
      BY <2>4
    <3> HIDE DEF In, Of, Late
    <3>4. /\ In("fixed_window") <= Of("fixed_window") + Late("fixed_window")
          /\ In("sliding_window_log") <= Of("sliding_window_log") + Late("sliding_window_log")
          /\ In("sliding_window_counter")
               <= Of("sliding_window_counter") + Late("sliding_window_counter")
          /\ In("token_bucket") <= Of("token_bucket") + Late("token_bucket") + refill
      BY <3>3 DEF Algos
    <3>5. \A a \in {"fixed_window", "sliding_window_log", "sliding_window_counter",
                    "token_bucket"} : In(a) \in Nat /\ Of(a) \in Nat /\ Late(a) \in Nat
      BY <3>3 DEF Algos
    <3>6. QED
      BY <3>2, <3>4, <3>5
  <2>6. Total(g) \in Nat /\ Total(x) \in Nat /\ Total(one) \in Nat
    BY <2>1 DEF Total, Algos
  <2> PICK n \in Nat : n = Total(g)
    BY <2>6
  <2> PICK u \in Nat : u = Total(x)
    BY <2>6
  <2> PICK v \in Nat : v = Total(one)
    BY <2>6
  <2> PICK m \in Nat : m = Cardinality(InWindow(k))
    BY <2>0, PartsFinite
  <2> PICK w \in Nat : w = late + latePrimes
    BY <2>0
  <2>7. Window * m <= Window * n
    <3>1. m <= n
      BY DEF Shared
    <3>2. QED
      BY <2>0, <3>1, ProductMonotone
  <2>8. p * u <= p * w
    <3>1. u <= w
      BY DEF Shared
    <3>2. QED
      BY <3>1, ProductMonotone
  <2>9. p * (v + w) = p * v + p * w
    OBVIOUS
  <2>10. Window * m <= p * (v + w) + refill
    <3> PICK i \in Nat : i = Window * m
      BY <2>0
    <3> PICK j \in Nat : j = Window * n
      BY <2>0
    <3> PICK c \in Nat : c = p * u
      OBVIOUS
    <3> PICK d \in Nat : d = p * w
      OBVIOUS
    <3> PICK z \in Nat : z = p * v
      OBVIOUS
    <3>1. i <= j /\ c <= d /\ j <= z + c + refill
      BY <2>5, <2>7, <2>8
    <3>2. i <= z + d + refill
      BY <3>1
    <3>3. QED
      BY <2>9, <3>2
  <2>11. v + w = Cardinality(G) + late + latePrimes
    BY <2>0, <2>3
  <2>12. QED
    BY <2>10, <2>11 DEF G
<1>2. QED
  BY <1>1, InitInv, NextInv, InitSharesInv, NextSharesInv, PTL DEF Spec

=============================================================================
