---------------------------- MODULE DetectorProofs ----------------------------
(***************************************************************************)
(* Theorems about the traffic detector, for every number of threads,       *)
(* horizon and bound of the model.                                         *)
(***************************************************************************)
EXTENDS TrafficDetector, FiniteSetTheorems, SequenceTheorems,
        WellFoundedInduction, TLAPS

-----------------------------------------------------------------------------
(* The inductive invariant.                                                *)

\* What is kept is the last of what was observed.
Suffix ==
  /\ Len(ts) <= Len(observed)
  /\ \A i \in 1..Len(ts) : ts[i] = observed[Dropped + i]

\* Where a thread may be, and where it is in the loop of observe.
Points == {"idle", "append", "test", "head", "drop", "measure", "newest", "iterate"}
Looping == {"test", "head", "drop"}

USE DEF Points, Looping

\* A thread that has not left the call holds a timestamp, and from append on
\* it is one observed.
Locals(w) ==
  /\ pc[w] # "idle" => now[w] \in Time
  /\ pc[w] \in Looping =>
       \E i \in DOMAIN observed : observed[i] = now[w]

\* The arrivals that were dropped though they are in view.
Missing == {i \in 1..Dropped : InView(observed[i])}

\* The threads about to drop an arrival.
Droppers == {w \in Workers : pc[w] = "drop"}

\* One of them has found the head past the horizon, and may drop it.
Forfeit ==
  IF Droppers # {} /\ ts # <<>> /\ ~InView(ts[1]) THEN 1 ELSE 0

\* Each thread about to drop costs an arrival in view at most, but for the one
\* that drops what is past the horizon.
Accounted ==
  /\ IsFiniteSet(Droppers)
  /\ Cardinality(Missing) + Cardinality(Droppers) <= contested + Forfeit

\* Observed in order, the arrivals lie in order, and what is past the horizon
\* of one of them is gone unless a thread is still at dropping it.
Sorted ==
  \A i, j \in DOMAIN observed : i <= j => observed[i] <= observed[j]

InTheLoop(w, t) == pc[w] \in Looping /\ now[w] >= t

Tidy ==
  \A i \in DOMAIN observed :
    \/ \E w \in Workers : InTheLoop(w, observed[i])
    \/ ts = <<>>
    \/ ts[1] >= observed[i] - Horizon

IInv ==
  /\ TypeOK
  /\ Suffix
  /\ \A w \in Workers : Locals(w)
  /\ Accounted
  /\ ~late => Sorted /\ Tidy

-----------------------------------------------------------------------------
(* The parts of a state.                                                   *)

\* The types of what the proofs calculate with.
LEMMA Basics ==
  ASSUME IInv
  PROVE  /\ Time \subseteq Nat /\ Horizon \in Nat
         /\ observed \in Seq(Time) /\ Len(observed) \in Nat
         /\ DOMAIN observed = 1..Len(observed)
         /\ ts \in Seq(Time) /\ Len(ts) \in Nat
         /\ Dropped \in Nat /\ Dropped = Len(observed) - Len(ts)
         /\ contested \in Nat /\ late \in BOOLEAN
         /\ \A i \in 1..Len(observed) : observed[i] \in Nat
         /\ ts # <<>> => Len(ts) >= 1 /\ ts[1] \in Nat
<1>1. Time \subseteq Nat
  BY BoundsAssumption DEF Time
<1>2. \A a, b \in Nat : a * b \in Nat
  OBVIOUS
<1>3. Horizon \in Nat
  BY <1>2, DetectorAssumption DEF Horizon
<1>4. observed \in Seq(Time) /\ ts \in Seq(Time)
  BY DEF IInv, TypeOK
<1>5. \A i \in 1..Len(observed) : observed[i] \in Nat
  BY <1>1, <1>4, ElementOfSeq
<1>6. ts # <<>> => Len(ts) >= 1 /\ ts[1] \in Nat
  <2> SUFFICES ASSUME ts # <<>> PROVE Len(ts) >= 1 /\ ts[1] \in Nat
    OBVIOUS
  <2>1. Len(ts) \in Nat /\ Len(ts) # 0
    BY <1>4, EmptySeq
  <2>2. 1 \in 1..Len(ts)
    BY <2>1
  <2>3. ts[1] \in Time
    BY <1>4, <2>2, ElementOfSeq
  <2>4. ts[1] \in Nat
    BY <1>1, <2>3
  <2>5. Len(ts) >= 1
    BY <2>1
  <2>6. QED
    BY <2>4, <2>5
<1>7. QED
  BY <1>1, <1>3, <1>4, <1>5, <1>6 DEF IInv, TypeOK, Suffix, Dropped

\* The missing arrivals are finite in number.
LEMMA MissingFinite ==
  ASSUME IInv
  PROVE  /\ IsFiniteSet(Missing) /\ Cardinality(Missing) \in Nat
         /\ IsFiniteSet(Droppers) /\ Cardinality(Droppers) \in Nat
<1>1. IsFiniteSet(1..Dropped)
  BY Basics, FS_Interval
<1>2. Missing \subseteq 1..Dropped
  BY DEF Missing
<1>3. IsFiniteSet(Missing)
  BY <1>1, <1>2, FS_Subset
<1>4. QED
  BY <1>3, FS_CardinalityType DEF IInv, Accounted

\* A step that leaves the deque and the threads in its loop alone keeps the
\* invariant if it keeps the types.
LEMMA QuietStep ==
  ASSUME IInv, TypeOK', UNCHANGED <<ts, history>>,
         \A w \in Workers : pc'[w] # "idle" => now'[w] \in Time,
         \A w \in Workers : pc'[w] = "drop" <=> pc[w] = "drop",
         \A w \in Workers : pc'[w] \in Looping => pc[w] \in Looping /\ now'[w] = now[w],
         \A w \in Workers : pc[w] \in Looping /\ ts # <<>>
                              => pc'[w] \in Looping /\ now'[w] = now[w]
  PROVE  IInv'
<1>1. UNCHANGED <<ts, observed, late, contested>>
  BY DEF history
<1>2. Suffix'
  BY <1>1 DEF IInv, Suffix, Dropped
<1>3. \A w \in Workers : Locals(w)'
  BY <1>1 DEF IInv, Locals
<1>4. Missing' = Missing
  BY <1>1 DEF Missing, Dropped, InView
<1>5. Droppers' = Droppers
  BY DEF Droppers
<1>6. Forfeit' = Forfeit
  BY <1>1, <1>5 DEF Forfeit, InView
<1>7. Accounted'
  BY <1>1, <1>4, <1>5, <1>6 DEF IInv, Accounted
<1>8. Sorted' <=> Sorted
  BY <1>1 DEF Sorted
<1>9. ASSUME NEW w \in Workers, NEW t, InTheLoop(w, t), ts # <<>>
      PROVE  InTheLoop(w, t)'
  BY <1>9 DEF InTheLoop
<1>10. Tidy => Tidy'
  BY <1>1, <1>9 DEF Tidy
<1>11. QED
  BY <1>1, <1>2, <1>3, <1>7, <1>8, <1>10 DEF IInv

\* What changing the deque does to the threads.
LEMMA MutateStep ==
  ASSUME IInv, NEW w \in Workers, NEW from, NEW to, Mutate(w, from, to),
         from # "iterate", from # "idle",
         to \in {"idle", "test"}
  PROVE  /\ clock' = clock
         /\ pc' \in [Workers -> Points]
         /\ now' \in [Workers -> Time \cup {None}]
         /\ pc[w] = from /\ pc'[w] = to /\ now'[w] = now[w] /\ now[w] \in Time
         /\ \A v \in Workers : pc'[v] # "idle" => now'[v] \in Time
         /\ \A v \in Workers \ {w} :
              pc[v] \in Looping \/ pc'[v] \in Looping
                => pc'[v] = pc[v] /\ now'[v] = now[v]
<1>1. PICK raising \in SUBSET {v \in Workers : pc[v] = "iterate"} :
        /\ pc' = [v \in Workers |-> IF v \in raising THEN "idle"
                                    ELSE IF v = w THEN to ELSE pc[v]]
        /\ now' = [v \in Workers |-> IF v \in raising THEN None ELSE now[v]]
  BY DEF Mutate
<1>2. /\ clock' = clock /\ pc[w] = from /\ w \notin raising
  BY <1>1 DEF Mutate
<1>3. /\ pc \in [Workers -> Points]
      /\ now \in [Workers -> Time \cup {None}]
      /\ \A v \in Workers : pc[v] # "idle" => now[v] \in Time
  BY DEF IInv, TypeOK, Locals
<1>4. now[w] \in Time
  BY <1>2, <1>3
<1>5. /\ pc' \in [Workers -> Points]
      /\ pc'[w] = to
  BY <1>1, <1>2, <1>3
<1>6. /\ now' \in [Workers -> Time \cup {None}]
      /\ now'[w] = now[w]
  BY <1>1, <1>2, <1>3
<1>7. ASSUME NEW v \in Workers, pc'[v] # "idle"
      PROVE  now'[v] \in Time
  <2>1. v \notin raising
    BY <1>1, <1>7
  <2>2. pc[v] # "idle"
    BY <2>1, <1>1, <1>2, <1>7
  <2>3. QED
    BY <2>1, <2>2, <1>1, <1>3
<1>8. ASSUME NEW v \in Workers \ {w},
             pc[v] \in Looping \/ pc'[v] \in Looping
      PROVE  pc'[v] = pc[v] /\ now'[v] = now[v]
  BY <1>1, <1>8
<1>9. QED
  BY <1>2, <1>4, <1>5, <1>6, <1>7, <1>8

-----------------------------------------------------------------------------
(* The steps that matter.                                                  *)

\* An arrival is observed: what is in view may get less, never more.
LEMMA AppendInv ==
  ASSUME IInv, NEW w \in Workers, AppendArrival(w)
  PROVE  IInv'
<1>1. /\ Mutate(w, "append", "test")
      /\ ts' = Append(ts, now[w])
      /\ observed' = Append(observed, now[w])
      /\ late' = (late \/ \E i \in DOMAIN observed : observed[i] > now[w])
      /\ contested' = contested
      /\ Len(observed) < MaxArrivals
  BY DEF AppendArrival
<1>2. /\ clock' = clock
      /\ pc' \in [Workers -> Points]
      /\ now' \in [Workers -> Time \cup {None}]
      /\ pc[w] = "append" /\ pc'[w] = "test" /\ now'[w] = now[w] /\ now[w] \in Time
      /\ \A v \in Workers : pc'[v] # "idle" => now'[v] \in Time
      /\ \A v \in Workers \ {w} :
           pc[v] \in Looping \/ pc'[v] \in Looping
             => pc'[v] = pc[v] /\ now'[v] = now[v]
  BY <1>1, MutateStep
<1> PICK t \in Time : t = now[w]
  BY <1>2
<1> PICK n \in Nat : n = Len(observed)
  BY Basics
<1> PICK k \in Nat : k = Len(ts)
  BY Basics
<1> PICK d \in Nat : d = Dropped
  BY Basics
<1>3. /\ Horizon \in Nat /\ t \in Nat
      /\ observed \in Seq(Time) /\ DOMAIN observed = 1..n
      /\ \A i \in 1..n : observed[i] \in Nat
      /\ ts \in Seq(Time) /\ n = d + k
      /\ contested \in Nat
  <2>1. Time \subseteq Nat /\ d = n - k
    BY Basics
  <2>2. n = d + k
    BY <2>1
  <2>3. QED
    BY <2>1, <2>2, Basics
<1>4. /\ observed' \in Seq(Time) /\ Len(observed') = n + 1
      /\ DOMAIN observed' = 1..n + 1
      /\ \A i \in 1..n : observed'[i] = observed[i]
      /\ observed'[n + 1] = t
  BY <1>1, <1>3, AppendProperties
<1>5. /\ ts' \in Seq(Time) /\ Len(ts') = k + 1 /\ ts' # <<>>
      /\ \A i \in 1..k : ts'[i] = ts[i]
      /\ ts'[k + 1] = t
  BY <1>1, <1>3, AppendProperties
<1>6. Dropped' = d
  BY <1>3, <1>4, <1>5 DEF Dropped
<1>7. TypeOK'
  <2>1. late' \in BOOLEAN
    BY Basics, <1>1
  <2>2. MaxArrivals \in Nat
    BY BoundsAssumption
  <2>3. Len(observed') <= MaxArrivals
    BY <1>1, <1>4, <2>2
  <2>4. clock' \in Time /\ contested' \in Nat
    BY <1>1, <1>2, <1>3 DEF IInv, TypeOK
  <2>5. QED
    BY <1>2, <1>4, <1>5, <2>1, <2>3, <2>4 DEF TypeOK
<1>8. Suffix'
  <2>1. ASSUME NEW i \in 1..k + 1
        PROVE  ts'[i] = observed'[d + i]
    <3>1. CASE i = k + 1
      BY <3>1, <1>3, <1>4, <1>5
    <3>2. CASE i \in 1..k
      <4>1. ts[i] = observed[d + i]
        BY <3>2 DEF IInv, Suffix
      <4>2. d + i \in 1..n
        BY <3>2, <1>3
      <4>3. QED
        BY <3>2, <4>1, <4>2, <1>4, <1>5
    <3>3. QED
      BY <3>1, <3>2
  <2>2. Len(ts') <= Len(observed')
    BY <1>3, <1>4, <1>5
  <2>3. QED
    BY <1>5, <1>6, <2>1, <2>2 DEF Suffix
<1>9. ASSUME NEW v \in Workers
      PROVE  Locals(v)'
  <2>1. ASSUME pc'[v] \in Looping
        PROVE  \E i \in DOMAIN observed' : observed'[i] = now'[v]
    <3>1. CASE v = w
      <4>1. n + 1 \in DOMAIN observed'
        BY <1>4
      <4>2. observed'[n + 1] = now'[v]
        BY <3>1, <1>2, <1>4
      <4>3. QED
        BY <4>1, <4>2
    <3>2. CASE v # w
      <4>1. pc[v] \in Looping /\ now'[v] = now[v]
        BY <2>1, <3>2, <1>2
      <4>2. PICK i \in 1..n : observed[i] = now[v]
        BY <4>1, <1>3 DEF IInv, Locals
      <4>3. i \in 1..n + 1 /\ observed'[i] = observed[i]
        BY <1>4
      <4>4. QED
        BY <4>1, <4>2, <4>3, <1>4
    <3>3. QED
      BY <3>1, <3>2
  <2>2. QED
    BY <2>1, <1>2 DEF Locals
<1>10. Missing' \subseteq Missing
  <2> SUFFICES ASSUME NEW i \in Missing'
               PROVE  i \in Missing
    OBVIOUS
  <2>1. i \in 1..Dropped' /\ InView(observed[i])'
    BY DEF Missing
  <2>2. i \in 1..d /\ observed'[i] = observed[i]
    BY <2>1, <1>3, <1>4, <1>6
  <2>3. \A j \in DOMAIN observed' : observed'[i] >= observed'[j] - Horizon
    BY <2>1 DEF InView
  <2>4. InView(observed[i])
    BY <2>2, <2>3, <1>3, <1>4 DEF InView
  <2>5. QED
    BY <2>2, <2>4 DEF Missing
<1>11. Droppers' = Droppers
  BY <1>2 DEF Droppers
<1>12. Forfeit' \in {0, 1} /\ Forfeit' >= Forfeit
  <2>1. CASE Forfeit = 1
    <3>1. Droppers # {} /\ ts # <<>> /\ ~InView(ts[1])
      BY <2>1 DEF Forfeit
    <3>2. k >= 1
      BY <3>1, <1>3
    <3>3. ts'[1] = ts[1]
      BY <3>2, <1>5
    <3>4. ~InView(ts[1])'
      BY <3>1, <3>3, <1>3, <1>4 DEF InView
    <3>5. QED
      BY <2>1, <3>1, <3>4, <1>5, <1>11 DEF Forfeit
  <2>2. CASE Forfeit = 0
    BY <2>2 DEF Forfeit
  <2>3. QED
    BY <2>1, <2>2 DEF Forfeit
<1>13. Accounted'
  <2>1. /\ Cardinality(Missing) \in Nat /\ Cardinality(Droppers) \in Nat
        /\ Cardinality(Missing') \in Nat
        /\ Cardinality(Missing') <= Cardinality(Missing)
    BY <1>10, MissingFinite, FS_Subset, FS_CardinalityType
  <2>2. /\ IsFiniteSet(Droppers)
        /\ Cardinality(Missing) + Cardinality(Droppers) <= contested + Forfeit
        /\ Forfeit \in {0, 1}
    BY DEF IInv, Accounted, Forfeit
  <2>3. QED
    BY <2>1, <2>2, <1>1, <1>3, <1>11, <1>12 DEF Accounted
<1>14. ASSUME ~late'
       PROVE  Sorted' /\ Tidy'
  <2>1. ~late /\ \A i \in 1..n : ~(observed[i] > t)
    BY <1>14, <1>1, <1>3
  <2>2. \A i \in 1..n : observed[i] \in Nat /\ observed[i] <= t
    BY <2>1, <1>3
  <2>3. Sorted
    BY <2>1 DEF IInv
  <2>4. \A i \in 1..n + 1 : observed'[i] \in Nat /\ observed'[i] <= t
    BY <2>2, <1>3, <1>4
  <2>5. ASSUME NEW i \in 1..n + 1, NEW j \in 1..n + 1, i <= j
        PROVE  observed'[i] <= observed'[j]
    <3>1. CASE j = n + 1
      BY <3>1, <2>4, <1>4
    <3>2. CASE j \in 1..n
      <4>1. i \in 1..n
        BY <3>2, <2>5
      <4>2. observed[i] <= observed[j]
        BY <4>1, <3>2, <2>3, <2>5, <1>3 DEF Sorted
      <4>3. QED
        BY <4>1, <4>2, <3>2, <1>4
    <3>3. QED
      BY <3>1, <3>2
  <2>6. Sorted'
    BY <2>5, <1>4 DEF Sorted
  <2>7. ASSUME NEW i \in 1..n + 1
        PROVE  InTheLoop(w, observed[i])'
    BY <2>4, <1>2 DEF InTheLoop
  <2>8. Tidy'
    BY <2>7, <1>4 DEF Tidy
  <2>9. QED
    BY <2>6, <2>8
<1>15. QED
  BY <1>7, <1>8, <1>9, <1>13, <1>14 DEF IInv

\* A thread looks at the head, and finds it past the horizon or leaves the loop.
LEMMA LookAtHeadInv ==
  ASSUME IInv, NEW w \in Workers, LookAtHead(w), ts # <<>>
  PROVE  IInv'
<1> PICK c \in Nat : c = contested
  BY Basics
<1> PICK n \in Nat : n = Len(observed)
  BY Basics
<1>1. /\ pc[w] = "head"
      /\ pc' = [pc EXCEPT ![w] = IF HeadIsOld(w) THEN "drop" ELSE "measure"]
      /\ contested' = contested +
           IF HeadIsOld(w) /\ \E v \in Workers : pc[v] = "drop" THEN 1 ELSE 0
      /\ UNCHANGED <<clock, now, ts, observed, late>>
  BY DEF LookAtHead, End, Goto
<1>2. /\ pc \in [Workers -> Points]
      /\ \A v \in Workers : Locals(v)
  BY DEF IInv, TypeOK
<1>3. /\ Time \subseteq Nat /\ Horizon \in Nat
      /\ observed \in Seq(Time) /\ DOMAIN observed = 1..n
      /\ \A i \in 1..n : observed[i] \in Nat
      /\ ts \in Seq(Time) /\ now[w] \in Nat
  BY <1>1, <1>2, Basics DEF Locals
<1>4. /\ pc' \in [Workers -> Points]
      /\ pc'[w] = IF HeadIsOld(w) THEN "drop" ELSE "measure"
      /\ \A v \in Workers \ {w} : pc'[v] = pc[v]
  BY <1>1, <1>2
<1>5. contested' \in Nat
  BY <1>1
<1>6. TypeOK'
  BY <1>1, <1>4, <1>5 DEF IInv, TypeOK
<1>7. Suffix'
  BY <1>1 DEF IInv, Suffix, Dropped
<1>8. \A v \in Workers : Locals(v)'
  BY <1>1, <1>2, <1>4 DEF Locals
<1>9. Missing' = Missing /\ \A x : InView(x)' <=> InView(x)
  BY <1>1 DEF Missing, Dropped, InView
<1>10. Accounted'
  <2>1. /\ IsFiniteSet(Droppers) /\ Cardinality(Droppers) \in Nat
        /\ Cardinality(Missing) \in Nat
        /\ Cardinality(Missing) + Cardinality(Droppers) <= c + Forfeit
        /\ Forfeit \in {0, 1}
    BY MissingFinite DEF IInv, Accounted, Forfeit
  <2>2. CASE ~HeadIsOld(w)
    <3>1. Droppers' = Droppers
      BY <2>2, <1>1, <1>4 DEF Droppers
    <3>2. Forfeit' = Forfeit
      BY <3>1, <1>1, <1>9 DEF Forfeit
    <3>3. contested' = c
      BY <2>2, <1>1
    <3>4. QED
      BY <2>1, <3>1, <3>2, <3>3, <1>9 DEF Accounted
  <2>3. CASE HeadIsOld(w)
    <3>1. Droppers' = Droppers \cup {w} /\ w \notin Droppers
      BY <2>3, <1>1, <1>4 DEF Droppers
    <3>2. /\ IsFiniteSet(Droppers')
          /\ Cardinality(Droppers') = Cardinality(Droppers) + 1
      BY <2>1, <3>1, FS_AddElement
    <3>3. ts # <<>> /\ ts[1] < now[w] - Horizon
      BY <2>3, <1>3 DEF HeadIsOld
    <3>4. ~InView(ts[1])
      <4>1. PICK i \in 1..n : observed[i] = now[w]
        BY <1>1, <1>2, <1>3 DEF Locals
      <4>2. ts[1] \in Nat
        BY <3>3, Basics
      <4>3. ~(ts[1] >= observed[i] - Horizon)
        BY <4>1, <4>2, <3>3, <1>3
      <4>4. i \in DOMAIN observed
        BY <4>1, <1>3
      <4>5. QED
        BY <4>3, <4>4 DEF InView
    <3>5. Forfeit' = 1
      BY <3>1, <3>3, <3>4, <1>1, <1>9 DEF Forfeit
    <3>6. CASE Droppers = {}
      <4>1. Forfeit = 0 /\ contested' = c
        BY <3>6, <2>3, <1>1 DEF Forfeit, Droppers
      <4>2. QED
        BY <4>1, <2>1, <3>2, <3>5, <1>9 DEF Accounted
    <3>7. CASE Droppers # {}
      <4>1. contested' = c + 1
        BY <3>7, <2>3, <1>1 DEF Droppers
      <4>2. QED
        BY <4>1, <2>1, <3>2, <3>5, <1>9 DEF Accounted
    <3>8. QED
      BY <3>6, <3>7
  <2>4. QED
    BY <2>2, <2>3
<1>11. ASSUME ~late'
       PROVE  Sorted' /\ Tidy'
  <2>1. Sorted /\ Tidy
    BY <1>1, <1>11 DEF IInv
  <2>2. ASSUME NEW i \in 1..n
        PROVE  \/ \E v \in Workers : InTheLoop(v, observed[i])'
               \/ ts' = <<>>
               \/ ts'[1] >= observed'[i] - Horizon
    <3>1. CASE ts = <<>> \/ ts[1] >= observed[i] - Horizon
      BY <3>1, <1>1
    <3>2. CASE ts # <<>> /\ ~(ts[1] >= observed[i] - Horizon)
      <4>1. PICK v \in Workers : InTheLoop(v, observed[i])
        BY <3>2, <2>1, <1>3 DEF Tidy
      <4>2. CASE v # w
        BY <4>1, <4>2, <1>1, <1>4 DEF InTheLoop
      <4>3. CASE v = w
        <5>1. ts[1] \in Nat /\ observed[i] \in Nat
          BY <3>2, Basics
        <5>2. now[w] >= observed[i]
          BY <4>1, <4>3 DEF InTheLoop
        <5>3. ts[1] < now[w] - Horizon
          BY <5>1, <5>2, <3>2, <1>3
        <5>4. HeadIsOld(w)
          BY <5>3, <3>2, <1>3 DEF HeadIsOld
        <5>5. pc'[w] = "drop" /\ now' = now /\ observed' = observed
          BY <5>4, <1>1, <1>4
        <5>6. InTheLoop(w, observed[i])'
          BY <5>2, <5>5 DEF InTheLoop
        <5>7. QED
          BY <5>6
      <4>4. QED
        BY <4>2, <4>3
    <3>3. QED
      BY <3>1, <3>2
  <2>3. QED
    BY <2>1, <2>2, <1>1, <1>3 DEF Sorted, Tidy, InTheLoop
<1>12. QED
  BY <1>6, <1>7, <1>8, <1>10, <1>11 DEF IInv

\* A thread drops the head, which is a loss only if the head is in view.
LEMMA DropInv ==
  ASSUME IInv, NEW w \in Workers, Drop(w)
  PROVE  IInv'
<1>1. /\ Mutate(w, "drop", IF ts = <<>> THEN "idle" ELSE "test")
      /\ ts' = IF ts = <<>> THEN ts ELSE Tail(ts)
      /\ UNCHANGED <<observed, late, contested>>
  BY DEF Drop, history
<1>2. /\ clock' = clock
      /\ pc' \in [Workers -> Points]
      /\ now' \in [Workers -> Time \cup {None}]
      /\ pc[w] = "drop" /\ now'[w] = now[w]
      /\ pc'[w] = IF ts = <<>> THEN "idle" ELSE "test"
      /\ \A v \in Workers : pc'[v] # "idle" => now'[v] \in Time
      /\ \A v \in Workers \ {w} :
           pc[v] \in Looping \/ pc'[v] \in Looping
             => pc'[v] = pc[v] /\ now'[v] = now[v]
  BY <1>1, MutateStep
<1> PICK n \in Nat : n = Len(observed)
  BY Basics
<1> PICK k \in Nat : k = Len(ts)
  BY Basics
<1> PICK d \in Nat : d = Dropped
  BY Basics
<1> PICK c \in Nat : c = contested
  BY Basics
<1>3. /\ Horizon \in Nat
      /\ observed \in Seq(Time) /\ DOMAIN observed = 1..n
      /\ \A i \in 1..n : observed[i] \in Nat
      /\ ts \in Seq(Time) /\ n = d + k
  <2>1. d = n - k
    BY Basics
  <2>2. n = d + k
    BY <2>1
  <2>3. QED
    BY <2>2, Basics
<1>4. ASSUME NEW v \in Workers
      PROVE  Locals(v)'
  <2>1. ASSUME pc'[v] \in Looping
        PROVE  pc[v] \in Looping /\ now'[v] = now[v]
    BY <2>1, <1>2
  <2>2. QED
    BY <2>1, <1>1, <1>2 DEF IInv, Locals
<1>5. /\ Droppers' = Droppers \ {w} /\ w \in Droppers
      /\ IsFiniteSet(Droppers') /\ Cardinality(Droppers') = Cardinality(Droppers) - 1
  <2>1. Droppers' = Droppers \ {w} /\ w \in Droppers
    BY <1>2 DEF Droppers
  <2>2. QED
    BY <2>1, MissingFinite, FS_RemoveElement
<1>6. /\ Cardinality(Missing) \in Nat /\ Cardinality(Droppers) \in Nat
      /\ Cardinality(Missing) + Cardinality(Droppers) <= c + Forfeit
      /\ Forfeit \in {0, 1} /\ Forfeit' \in {0, 1}
  BY MissingFinite DEF IInv, Accounted, Forfeit
<1>7. CASE ts = <<>>
  <2>1. UNCHANGED <<ts, observed, late, contested>>
    BY <1>1, <1>7
  <2>2. Suffix'
    BY <2>1 DEF IInv, Suffix, Dropped
  <2>3. TypeOK'
    BY <2>1, <1>2 DEF IInv, TypeOK
  <2>4. Missing' = Missing
    BY <2>1 DEF Missing, Dropped, InView
  <2>5. Forfeit = 0
    BY <1>7 DEF Forfeit
  <2>6. Accounted'
    BY <2>1, <2>4, <2>5, <1>5, <1>6 DEF Accounted
  <2>7. ~late' => Sorted' /\ Tidy'
    BY <2>1, <1>7 DEF IInv, Sorted, Tidy
  <2>8. QED
    BY <2>2, <2>3, <2>6, <2>7, <1>4 DEF IInv
<1>8. CASE ts # <<>>
  <2>1. ts' = Tail(ts) /\ pc'[w] = "test"
    BY <1>1, <1>2, <1>8
  <2>2. k >= 1 /\ ts[1] \in Nat
    BY <1>8, Basics
  <2>3. /\ ts' \in Seq(Time) /\ Len(ts') = k - 1
        /\ \A i \in 1..k - 1 : ts'[i] = ts[i + 1]
    BY <2>1, <1>3, <1>8, HeadTailProperties
  <2>4. Dropped' = d + 1
    BY <2>2, <2>3, <1>1, <1>3 DEF Dropped
  <2>5. \A i \in 1..k : ts[i] = observed[d + i]
    BY DEF IInv, Suffix
  <2>6. ts[1] = observed[d + 1] /\ d + 1 \in 1..n
    BY <2>2, <2>5, <1>3
  <2>7. Suffix'
    <3>1. ASSUME NEW i \in 1..k - 1
          PROVE  ts'[i] = observed[d + 1 + i]
      <4>1. i + 1 \in 1..k /\ d + (i + 1) = d + 1 + i
        OBVIOUS
      <4>2. ts[i + 1] = observed[d + (i + 1)]
        BY <4>1, <2>5
      <4>3. QED
        BY <4>1, <4>2, <2>3
    <3>2. Len(ts') <= Len(observed')
      BY <2>2, <2>3, <1>1, <1>3
    <3>3. QED
      BY <3>1, <3>2, <2>3, <2>4, <1>1 DEF Suffix
  <2>8. TypeOK'
    BY <2>3, <1>1, <1>2 DEF IInv, TypeOK
  <2>9. Missing' = {i \in 1..d + 1 : InView(observed[i])}
    BY <2>4, <1>1 DEF Missing, InView
  <2>10. Accounted'
    <3>1. CASE InView(ts[1])
      <4>1. Missing' \subseteq Missing \cup {d + 1}
        BY <2>9 DEF Missing
      <4>2. /\ IsFiniteSet(Missing \cup {d + 1})
            /\ Cardinality(Missing \cup {d + 1}) \in Nat
            /\ Cardinality(Missing \cup {d + 1}) <= Cardinality(Missing) + 1
        <5>1. PICK m : m = d + 1
          OBVIOUS
        <5>2. /\ IsFiniteSet(Missing \cup {m})
              /\ Cardinality(Missing \cup {m}) = Cardinality(Missing)
                 \/ Cardinality(Missing \cup {m}) = Cardinality(Missing) + 1
          BY MissingFinite, FS_AddElement
        <5>3. QED
          BY <5>1, <5>2, <1>6
      <4>3. /\ Cardinality(Missing') \in Nat
            /\ Cardinality(Missing') <= Cardinality(Missing \cup {d + 1})
        BY <4>1, <4>2, FS_Subset, FS_CardinalityType
      <4>4. Forfeit = 0
        BY <3>1 DEF Forfeit
      <4>5. QED
        BY <4>2, <4>3, <4>4, <1>1, <1>5, <1>6 DEF Accounted
    <3>2. CASE ~InView(ts[1])
      <4>1. Missing' = Missing
        BY <3>2, <2>6, <2>9 DEF Missing
      <4>2. QED
        BY <4>1, <1>1, <1>5, <1>6 DEF Accounted
    <3>3. QED
      BY <3>1, <3>2
  <2>11. ASSUME ~late'
         PROVE  Sorted' /\ Tidy'
    <3>1. Sorted /\ Tidy
      BY <2>11, <1>1 DEF IInv
    <3>2. ASSUME NEW i \in 1..n
          PROVE  \/ \E v \in Workers : InTheLoop(v, observed[i])'
                 \/ ts' = <<>>
                 \/ ts'[1] >= observed'[i] - Horizon
      <4>1. CASE \E v \in Workers : InTheLoop(v, observed[i])
        <5>1. PICK v \in Workers : InTheLoop(v, observed[i])
          BY <4>1
        <5>2. pc'[v] \in Looping /\ now'[v] = now[v]
          BY <5>1, <2>1, <1>2 DEF InTheLoop
        <5>3. InTheLoop(v, observed[i])'
          BY <5>1, <5>2, <1>1 DEF InTheLoop
        <5>4. QED
          BY <5>3
      <4>2. CASE ts' # <<>> /\ ts[1] >= observed[i] - Horizon
        <5>1. k >= 2 /\ 1 \in 1..k - 1
          <6>1. Len(ts') # 0
            BY <4>2, <2>3, EmptySeq
          <6>2. QED
            BY <6>1, <2>2, <2>3
        <5>2. ts'[1] = ts[2] /\ ts[2] = observed[d + 2]
          BY <5>1, <2>3, <2>5
        <5>3. d + 1 \in 1..n /\ d + 2 \in 1..n
          BY <5>1, <1>3
        <5>4. observed[d + 1] <= observed[d + 2]
          <6>1. \A j1, j2 \in 1..n : j1 <= j2 => observed[j1] <= observed[j2]
            BY <3>1, <1>3 DEF Sorted
          <6>2. d + 1 <= d + 2
            OBVIOUS
          <6>3. QED
            BY <5>3, <6>1, <6>2
        <5>5. /\ observed[d + 1] \in Nat /\ observed[d + 2] \in Nat
              /\ observed[i] \in Nat
          BY <5>3, <1>3
        <5>6. ts'[1] >= observed[i] - Horizon
          BY <5>2, <5>4, <5>5, <4>2, <2>6, <1>3
        <5>7. QED
          BY <5>6, <1>1
      <4>3. QED
        BY <4>1, <4>2, <3>1, <1>3, <1>8 DEF Tidy
    <3>3. Sorted'
      BY <3>1, <1>1 DEF Sorted
    <3>4. Tidy'
      BY <3>2, <1>1, <1>3 DEF Tidy, InTheLoop
    <3>5. QED
      BY <3>3, <3>4
  <2>12. QED
    BY <2>7, <2>8, <2>10, <2>11, <1>4 DEF IInv
<1>9. QED
  BY <1>7, <1>8

-----------------------------------------------------------------------------
(* The invariant holds.                                                    *)

\* The invariant holds initially.
LEMMA InitInv == Init => IInv
<1> SUFFICES ASSUME Init PROVE IInv
  OBVIOUS
<1>1. /\ clock = 0 /\ ts = <<>> /\ observed = <<>> /\ late = FALSE /\ contested = 0
      /\ pc = [w \in Workers |-> "idle"] /\ now = [w \in Workers |-> None]
  BY DEF Init
<1>2. /\ <<>> \in Seq(Time) /\ Len(<<>>) = 0 /\ 0 \in Time
      /\ Len(observed) <= MaxArrivals
  BY <1>1, BoundsAssumption DEF Time
<1>3. TypeOK
  BY <1>1, <1>2 DEF TypeOK
<1>4. Suffix
  BY <1>1, <1>2 DEF Suffix
<1>5. \A w \in Workers : Locals(w)
  BY <1>1 DEF Locals
<1>6. Missing = {} /\ Droppers = {}
  BY <1>1, <1>2 DEF Missing, Droppers, Dropped
<1>7. Accounted
  BY <1>1, <1>6, FS_EmptySet DEF Accounted, Forfeit
<1>8. Sorted /\ Tidy
  BY <1>1, <1>2 DEF Sorted, Tidy
<1>9. QED
  BY <1>3, <1>4, <1>5, <1>7, <1>8 DEF IInv

\* A step of a thread's own.
LEMMA LocalStep ==
  ASSUME IInv, NEW w \in Workers,
         \/ ReadClock(w) \/ Leave(w) \/ Measure(w) \/ ReadNewest(w) \/ Iterate(w)
  PROVE  IInv'
<1>1. /\ pc \in [Workers -> Points]
      /\ now \in [Workers -> Time \cup {None}]
      /\ clock \in Time
      /\ \A v \in Workers : pc[v] # "idle" => now[v] \in Time
  BY DEF IInv, TypeOK, Locals
<1>2. \E to \in {"idle", "append", "newest", "iterate"}, t \in Time \cup {None} :
        /\ pc[w] \notin Looping
        /\ pc' = [pc EXCEPT ![w] = to] /\ now' = [now EXCEPT ![w] = t]
        /\ to # "idle" => t \in Time
        /\ UNCHANGED <<clock, ts, history>>
  <2>1. CASE ReadClock(w)
    BY <2>1, <1>1 DEF ReadClock, Goto
  <2>2. CASE Leave(w) \/ Iterate(w)
    BY <2>2 DEF Leave, Iterate, End, Goto
  <2>3. CASE Measure(w)
    <3>1. now' = [now EXCEPT ![w] = now[w]] /\ now[w] \in Time
      BY <2>3, <1>1 DEF Measure, Goto
    <3>2. QED
      BY <2>3, <3>1 DEF Measure, Goto
  <2>4. CASE ReadNewest(w) /\ ts = <<>>
    BY <2>4 DEF ReadNewest, Goto
  <2>5. CASE ReadNewest(w) /\ ts # <<>>
    <3>1. ts[Len(ts)] \in Time
      <4>1. Len(ts) \in 1..Len(ts)
        BY <2>5, Basics
      <4>2. QED
        BY <4>1, Basics, ElementOfSeq
    <3>2. QED
      BY <2>5, <3>1 DEF ReadNewest, Goto
  <2>6. QED
    BY <2>1, <2>2, <2>3, <2>4, <2>5
<1>3. PICK to \in {"idle", "append", "newest", "iterate"}, t \in Time \cup {None} :
        /\ pc[w] \notin Looping
        /\ pc' = [pc EXCEPT ![w] = to] /\ now' = [now EXCEPT ![w] = t]
        /\ to # "idle" => t \in Time
        /\ UNCHANGED <<clock, ts, history>>
  BY <1>2
<1>4. /\ pc' \in [Workers -> Points]
      /\ now' \in [Workers -> Time \cup {None}]
  BY <1>1, <1>3
<1>5. TypeOK'
  BY <1>3, <1>4 DEF IInv, TypeOK, history
<1>6. /\ \A v \in Workers : pc'[v] # "idle" => now'[v] \in Time
      /\ \A v \in Workers : pc[v] \in Looping \/ pc'[v] \in Looping
                              => pc'[v] = pc[v] /\ now'[v] = now[v]
  BY <1>1, <1>3
<1>7. \A v \in Workers : pc'[v] = "drop" <=> pc[v] = "drop"
  BY <1>6
<1>8. QED
  BY <1>3, <1>5, <1>6, <1>7, QuietStep

\* The test of whether there is an arrival, and the exception of a look at a
\* deque that has been emptied since: only a thread that finds none leaves the
\* loop.
LEMMA TestInv ==
  ASSUME IInv, NEW w \in Workers,
         Test(w) \/ (LookAtHead(w) /\ ts = <<>>)
  PROVE  IInv'
<1>1. /\ pc \in [Workers -> Points]
      /\ now \in [Workers -> Time \cup {None}]
      /\ \A v \in Workers : pc[v] # "idle" => now[v] \in Time
  BY DEF IInv, TypeOK, Locals
<1>2. \E to \in {"idle", "head", "measure"}, t \in Time \cup {None} :
        /\ pc[w] \in {"test", "head"}
        /\ pc' = [pc EXCEPT ![w] = to] /\ now' = [now EXCEPT ![w] = t]
        /\ to # "idle" => t = now[w]
        /\ to = "head" <=> ts # <<>>
        /\ UNCHANGED <<clock, ts, history>>
  <2>1. CASE Test(w)
    <3>1. now' = [now EXCEPT ![w] = now[w]] /\ now[w] \in Time
      BY <2>1, <1>1 DEF Test, Goto
    <3>2. QED
      BY <2>1, <3>1 DEF Test, Goto
  <2>2. CASE LookAtHead(w) /\ ts = <<>>
    BY <2>2 DEF LookAtHead, End, Goto
  <2>3. QED
    BY <2>1, <2>2
<1>3. PICK to \in {"idle", "head", "measure"}, t \in Time \cup {None} :
        /\ pc[w] \in {"test", "head"}
        /\ pc' = [pc EXCEPT ![w] = to] /\ now' = [now EXCEPT ![w] = t]
        /\ to # "idle" => t = now[w]
        /\ to = "head" <=> ts # <<>>
        /\ UNCHANGED <<clock, ts, history>>
  BY <1>2
<1>4. /\ pc' \in [Workers -> Points]
      /\ now' \in [Workers -> Time \cup {None}]
  BY <1>1, <1>3
<1>5. TypeOK'
  BY <1>3, <1>4 DEF IInv, TypeOK, history
<1>6. \A v \in Workers \ {w} : pc'[v] = pc[v] /\ now'[v] = now[v]
  BY <1>1, <1>3
<1>7. pc'[w] = to /\ now'[w] = t
  BY <1>1, <1>3
<1>8. \A v \in Workers : pc'[v] # "idle" => now'[v] \in Time
  BY <1>1, <1>3, <1>6, <1>7
<1>9. \A v \in Workers : pc'[v] = "drop" <=> pc[v] = "drop"
  BY <1>3, <1>6, <1>7
<1>10. \A v \in Workers : pc'[v] \in Looping => pc[v] \in Looping /\ now'[v] = now[v]
  BY <1>3, <1>6, <1>7
<1>11. \A v \in Workers : pc[v] \in Looping /\ ts # <<>>
                            => pc'[v] \in Looping /\ now'[v] = now[v]
  BY <1>3, <1>6, <1>7
<1>12. QED
  BY <1>3, <1>5, <1>8, <1>9, <1>10, <1>11, QuietStep

\* Every step keeps the invariant.
LEMMA NextInv == IInv /\ [Next]_vars => IInv'
<1> SUFFICES ASSUME IInv, [Next]_vars PROVE IInv'
  OBVIOUS
<1>1. CASE Tick \/ UNCHANGED vars
  <2>1. UNCHANGED <<pc, now, ts, history>>
    BY <1>1 DEF Tick, vars, locals
  <2>2. clock' \in Time
    BY <1>1, BoundsAssumption DEF IInv, TypeOK, Tick, vars, Time
  <2>3. TypeOK'
    BY <2>1, <2>2 DEF IInv, TypeOK, history
  <2>4. \A w \in Workers : pc'[w] # "idle" => now'[w] \in Time
    BY <2>1 DEF IInv, Locals
  <2>5. QED
    BY <2>1, <2>3, <2>4, QuietStep
<1>2. ASSUME NEW w \in Workers,
             ReadClock(w) \/ Leave(w) \/ Measure(w) \/ ReadNewest(w) \/ Iterate(w)
      PROVE  IInv'
  BY <1>2, LocalStep
<1>3. ASSUME NEW w \in Workers,
             AppendArrival(w) \/ Test(w) \/ LookAtHead(w) \/ Drop(w)
      PROVE  IInv'
  BY <1>3, AppendInv, TestInv, LookAtHeadInv, DropInv
<1>4. QED
  BY <1>1, <1>2, <1>3 DEF Next

-----------------------------------------------------------------------------
(* The theorems.                                                           *)

\* Type correctness of the detector.
THEOREM TypeCorrect == Spec => []TypeOK
<1>1. IInv => TypeOK
  BY DEF IInv
<1>2. QED
  BY <1>1, InitInv, NextInv, PTL DEF Spec

\* Threads that find the same arrival past the horizon lose one in view for each
\* that was there before, and nothing else is lost; in order and undisturbed, the
\* deque is the horizon.
THEOREM HorizonIsKept == Spec => []HorizonKept
<1>1. IInv => HorizonKept
  <2> SUFFICES ASSUME IInv PROVE HorizonKept
    OBVIOUS
  <2> PICK n \in Nat : n = Len(observed)
    BY Basics
  <2> PICK k \in Nat : k = Len(ts)
    BY Basics
  <2> PICK d \in Nat : d = Dropped
    BY Basics
  <2>1. /\ Horizon \in Nat
        /\ observed \in Seq(Time) /\ DOMAIN observed = 1..n
        /\ \A i \in 1..n : observed[i] \in Nat
        /\ ts \in Seq(Time) /\ contested \in Nat /\ n = d + k
    <3>1. d = n - k
      BY Basics
    <3>2. n = d + k
      BY <3>1
    <3>3. QED
      BY <3>2, Basics
  <2>2. \A i \in 1..k : ts[i] = observed[d + i]
    BY DEF IInv, Suffix
  <2>3. ts = SubSeq(observed, d + 1, n)
    <3>1. \A i \in d + 1..n : observed[i] \in Time
      BY <2>1, ElementOfSeq
    <3>2. /\ SubSeq(observed, d + 1, n) \in Seq(Time)
          /\ Len(SubSeq(observed, d + 1, n)) = k
          /\ \A i \in 1..k : SubSeq(observed, d + 1, n)[i] = observed[d + 1 + i - 1]
      BY <2>1, <3>1, SubSeqProperties
    <3>3. \A i \in 1..k : d + 1 + i - 1 = d + i
      OBVIOUS
    <3>4. \A i \in 1..k : ts[i] = SubSeq(observed, d + 1, n)[i]
      BY <2>2, <3>2, <3>3
    <3>5. QED
      BY <2>1, <3>2, <3>4, SeqEqual
  <2>4. Cardinality(Missing) <= contested
    <3>1. /\ Cardinality(Missing) \in Nat /\ Cardinality(Droppers) \in Nat
          /\ Cardinality(Missing) + Cardinality(Droppers) <= contested + Forfeit
      BY MissingFinite DEF IInv, Accounted
    <3>2. CASE Droppers = {}
      BY <3>1, <3>2, <2>1 DEF Forfeit
    <3>3. CASE Droppers # {}
      <4>1. Cardinality(Droppers) # 0
        BY <3>3, MissingFinite, FS_EmptySet
      <4>2. Forfeit \in {0, 1}
        BY DEF Forfeit
      <4>3. QED
        BY <3>1, <4>1, <4>2, <2>1
    <3>4. QED
      BY <3>2, <3>3
  <2>5. ASSUME ~late, contested = 0,
               \A w \in Workers : pc[w] \notin Looping,
               NEW i \in 1..n
        PROVE  i > d <=> InView(observed[i])
    <3>1. Sorted /\ Tidy
      BY <2>5 DEF IInv
    <3>2. CASE i > d
      <4>1. k >= 1 /\ ts # <<>>
        BY <3>2, <2>1, EmptySeq
      <4>2. ts[1] = observed[d + 1] /\ d + 1 \in 1..n
        BY <4>1, <2>1, <2>2
      <4>3. observed[d + 1] <= observed[i]
        BY <3>1, <3>2, <4>2, <2>1 DEF Sorted
      <4>4. ASSUME NEW j \in 1..n
            PROVE  observed[i] >= observed[j] - Horizon
        <5>1. observed[d + 1] >= observed[j] - Horizon
          BY <3>1, <4>1, <4>2, <2>1, <2>5 DEF Tidy, InTheLoop
        <5>2. /\ observed[d + 1] \in Nat /\ observed[i] \in Nat
              /\ observed[j] \in Nat
          BY <4>2, <2>1
        <5>3. QED
          BY <5>1, <5>2, <4>3, <2>1
      <4>5. QED
        BY <3>2, <4>4, <2>1 DEF InView
    <3>3. CASE ~(i > d)
      <4>1. Missing = {}
        <5>1. Cardinality(Missing) = 0
          BY <2>4, <2>5, MissingFinite
        <5>2. QED
          BY <5>1, MissingFinite, FS_EmptySet
      <4>2. i \in 1..d
        BY <3>3
      <4>3. QED
        BY <3>3, <4>1, <4>2 DEF Missing
    <3>4. QED
      BY <3>2, <3>3
  <2>6. QED
    BY <2>1, <2>3, <2>4, <2>5 DEF HorizonKept, Missing
<1>2. QED
  BY <1>1, InitInv, NextInv, PTL DEF Spec

-----------------------------------------------------------------------------
(* Numbers, and how many arrivals fall in a bin.                           *)

LEMMA ProductMonotone ==
  ASSUME NEW a \in Int, NEW b \in Int, NEW c \in Nat, a <= b
  PROVE  a * c \in Int /\ b * c \in Int /\ a * c <= b * c
<1>1. (b - a) * c \in Nat
  <2>1. \A x, y \in Nat : x * y \in Nat
    OBVIOUS
  <2>2. b - a \in Nat
    OBVIOUS
  <2>3. QED
    BY <2>1, <2>2
<1>2. b * c = a * c + (b - a) * c
  OBVIOUS
<1>3. a * c \in Int /\ b * c \in Int
  OBVIOUS
<1>4. QED
  BY <1>1, <1>2, <1>3

\* A factor may be divided out, even when less than itself is missing.
LEMMA Cancel ==
  ASSUME NEW a \in Int, NEW b \in Int, NEW c \in Nat \ {0}, a * c < b * c + c
  PROVE  a <= b
<1> SUFFICES ASSUME b + 1 <= a PROVE FALSE
  OBVIOUS
<1>1. (b + 1) * c <= a * c /\ a * c \in Int /\ (b + 1) * c \in Int
  BY ProductMonotone
<1>2. (b + 1) * c = b * c + c
  OBVIOUS
<1>3. QED
  BY <1>1, <1>2

LEMMA DivBounds ==
  ASSUME NEW x \in Int, NEW y \in Nat \ {0}
  PROVE  /\ x \div y \in Int /\ (x \div y) * y \in Int
         /\ (x \div y) * y <= x /\ x < (x \div y) * y + y
OBVIOUS

LEMMA DivOrder ==
  ASSUME NEW x \in Int, NEW y \in Nat \ {0}, NEW k \in Int
  PROVE  /\ x \div y \in Int
         /\ k * y <= x <=> k <= x \div y
         /\ x < k * y <=> x \div y < k
<1> PICK d \in Int : d = x \div y /\ d * y <= x /\ x < d * y + y /\ d * y \in Int
  BY DivBounds
<1>1. k * y \in Int
  OBVIOUS
<1>2. k * y <= x => k <= d
  <2> SUFFICES ASSUME k * y <= x PROVE k <= d
    OBVIOUS
  <2>1. k * y < d * y + y
    BY <1>1
  <2>2. QED
    BY <2>1, Cancel
<1>3. k <= d => k * y <= x
  <2> SUFFICES ASSUME k <= d PROVE k * y <= x
    OBVIOUS
  <2>1. k * y <= d * y
    BY ProductMonotone
  <2>2. QED
    BY <2>1, <1>1
<1>4. QED
  BY <1>1, <1>2, <1>3

LEMMA LeastNumber ==
  ASSUME NEW S \in SUBSET Nat, S # {}
  PROVE  \E m \in S : \A n \in S : m <= n
<1>1. PICK m \in S : \A n \in S : ~ (<<n, m>> \in OpToRel(<, Nat))
  BY WFMin, NatLessThanWellFounded
<1>2. \A n \in S : ~ (n < m)
  BY <1>1 DEF OpToRel
<1>3. QED
  BY <1>2

\* The greatest of a set of numbers that has a bound.
LEMMA GreatestNumber ==
  ASSUME NEW S \in SUBSET Nat, S # {}, NEW k \in Nat, \A x \in S : x <= k
  PROVE  Max(S) \in S /\ \A x \in S : x <= Max(S)
<1> DEFINE D == {k - x : x \in S}
<1>1. D \in SUBSET Nat /\ D # {}
  OBVIOUS
<1>2. PICK d \in D : \A e \in D : d <= e
  BY <1>1, LeastNumber
<1>3. PICK m \in S : d = k - m
  OBVIOUS
<1>4. ASSUME NEW x \in S
      PROVE  m >= x
  <2>1. k - x \in D
    OBVIOUS
  <2>2. k - m <= k - x
    BY <1>2, <1>3, <2>1
  <2>3. QED
    BY <2>2
<1>5. Max(S) \in S /\ \A x \in S : Max(S) >= x
  BY <1>3, <1>4 DEF Max
<1>6. QED
  BY <1>5

LEMMA GreaterOfTwo ==
  ASSUME NEW a \in Int, NEW b \in Int
  PROVE  Max({a, b}) = IF a >= b THEN a ELSE b
<1>1. \E x \in {a, b} : \A y \in {a, b} : x >= y
  OBVIOUS
<1>2. Max({a, b}) \in {a, b} /\ \A y \in {a, b} : Max({a, b}) >= y
  BY <1>1 DEF Max
<1>3. QED
  BY <1>2

LEMMA LesserOfTwo ==
  ASSUME NEW a \in Int, NEW b \in Int
  PROVE  Min({a, b}) = IF a <= b THEN a ELSE b
<1>1. \E x \in {a, b} : \A y \in {a, b} : x =< y
  OBVIOUS
<1>2. Min({a, b}) \in {a, b} /\ \A y \in {a, b} : Min({a, b}) =< y
  BY <1>1 DEF Min
<1>3. QED
  BY <1>2

\* Numbers that differ by q at most are no more than q + 1.
LEMMA Spread ==
  ASSUME NEW S \in SUBSET Nat, NEW q \in Nat, \A i, j \in S : i - j <= q
  PROVE  IsFiniteSet(S) /\ Cardinality(S) \in Nat /\ Cardinality(S) <= q + 1
<1>1. CASE S = {}
  BY <1>1, FS_EmptySet
<1>2. CASE S # {}
  <2>1. PICK m \in S : \A n \in S : m <= n
    BY <1>2, LeastNumber
  <2>2. S \subseteq m..m + q
    BY <2>1
  <2>3. /\ IsFiniteSet(m..m + q) /\ Cardinality(m..m + q) \in Nat
        /\ Cardinality(m..m + q) = q + 1
    <3>1. /\ IsFiniteSet(m..m + q)
          /\ Cardinality(m..m + q) = IF m > m + q THEN 0 ELSE (m + q) - m + 1
      BY FS_Interval
    <3>2. QED
      BY <3>1
  <2>4. QED
    BY <2>2, <2>3, FS_Subset, FS_CardinalityType
<1>3. QED
  BY <1>1, <1>2

\* The numbers the detector is set up with.
LEMMA Numbers ==
  /\ Window \in Nat \ {0} /\ BinsPerWindow \in Nat \ {0}
  /\ NumBins \in Nat \ {0} /\ Horizon \in Nat \ {0}
  /\ Horizon * BinsPerWindow = NumBins * Window
<1>1. \A a, b \in Nat \ {0} : a * b \in Nat \ {0}
  OBVIOUS
<1>2. PICK h \in Nat \ {0}, b \in Nat \ {0}, w \in Nat \ {0} :
        h = HorizonWindows /\ b = BinsPerWindow /\ w = Window
  BY DetectorAssumption
<1>3. NumBins = h * b /\ Horizon = h * w
  BY <1>2 DEF NumBins, Horizon
<1>4. (h * w) * b = (h * b) * w
  OBVIOUS
<1>5. QED
  BY <1>1, <1>2, <1>3, <1>4

\* A third of the bins, if there are three.
LEMMA ThirdOfBins ==
  ASSUME NumBins >= 3
  PROVE  /\ Third \in Nat \ {0} /\ 3 * Third <= NumBins /\ Third < NumBins
         /\ NumBins >= 6 => Third >= 2
<1> PICK m \in Nat : m = NumBins
  BY Numbers
<1>1. m \div 3 \in Int /\ 3 * (m \div 3) <= m /\ m < 3 * (m \div 3) + 3
  OBVIOUS
<1> PICK d \in Int : d = m \div 3
  BY <1>1
<1>2. d >= 1 /\ 3 * d <= m /\ m < 3 * d + 3
  BY <1>1
<1>3. Third = d
  BY <1>2, GreaterOfTwo DEF Third
<1>4. QED
  BY <1>2, <1>3

\* The bin of an arrival, from its distance to the beginning of the horizon.
LEMMA BinOfArrival ==
  ASSUME NEW t \in Int, NEW v \in Int
  PROVE  LET x == (t - (v - Horizon)) * BinsPerWindow
         IN  /\ x \in Int /\ x \div Window \in Int
             /\ BinOf(t, v) = IF x \div Window < 0 THEN 0
                              ELSE IF x \div Window >= NumBins THEN NumBins - 1
                              ELSE x \div Window
<1> PICK m \in Nat \ {0} : m = NumBins
  BY Numbers
<1> PICK x \in Int : x = (t - (v - Horizon)) * BinsPerWindow
  BY Numbers
<1> PICK d \in Int : d = x \div Window
  BY Numbers, DivBounds
<1>1. BinOf(t, v) = Max({0, Min({d, m - 1})})
  BY DEF BinOf
<1>2. PICK l \in Int : l = Min({d, m - 1}) /\ l = IF d <= m - 1 THEN d ELSE m - 1
  BY LesserOfTwo
<1>3. Max({0, l}) = IF 0 >= l THEN 0 ELSE l
  BY GreaterOfTwo
<1>4. BinOf(t, v) = IF 0 >= l THEN 0 ELSE l
  BY <1>1, <1>2, <1>3
<1>5. BinOf(t, v) = IF d < 0 THEN 0 ELSE IF d >= m THEN m - 1 ELSE d
  BY <1>2, <1>4
<1>6. QED
  BY <1>5

-----------------------------------------------------------------------------
(* Even traffic.                                                           *)

\* Where the arrival number i of n falls when the arrivals lie c / Window of a
\* bin apart: the last one on the upper edge of the last bin.
EvenBin(n, c, i) == IF i = n THEN NumBins - 1 ELSE ((i - 1) * c) \div Window

InBins(n, c, bins) == {i \in 1..n : EvenBin(n, c, i) \in bins}

\* The arrivals of even traffic cover the horizon, one in each bin at least.
Even(n, c) ==
  /\ n \in Nat \ {0} /\ c \in Nat \ {0} /\ c <= Window
  /\ (n - 1) * c = NumBins * Window

\* A bin has no more of them than fit, one for its lower edge, and the newest.
LEMMA EvenPeak ==
  ASSUME NEW n, NEW c, Even(n, c), NEW b \in Int
  PROVE  LET inBin == {i \in 1..n : EvenBin(n, c, i) = b}
         IN  /\ Window \div c \in Nat
             /\ IsFiniteSet(inBin) /\ Cardinality(inBin) \in Nat
             /\ Cardinality(inBin) <= (Window \div c) + 2
<1> PICK w \in Nat \ {0} : w = Window
  BY Numbers
<1>1. n \in Nat \ {0} /\ c \in Nat \ {0}
  BY DEF Even
<1> PICK q \in Int : q = w \div c /\ q * c <= w /\ w < q * c + c
  BY <1>1, DivBounds
<1>2. q \in Nat
  <2>1. 0 * c <= w
    BY <1>1
  <2>2. QED
    BY <1>1, <2>1, DivOrder
<1> DEFINE inBin == {i \in 1..n : EvenBin(n, c, i) = b}
           below == {i \in 1..n - 1 : ((i - 1) * c) \div w = b}
<1>3. inBin \subseteq below \cup {n}
  BY <1>1 DEF EvenBin
<1>4. ASSUME NEW i \in below, NEW j \in below
      PROVE  i - j <= q
  <2>1. PICK x \in Int, y \in Int : /\ x = (i - 1) * c /\ y = (j - 1) * c
                                    /\ x \div w = b /\ y \div w = b
    BY <1>1
  <2>2. x < (b + 1) * w /\ b * w <= y
    <3>1. x < (b + 1) * w
      <4> PICK a \in Int : a = b + 1
        OBVIOUS
      <4>1. x < a * w <=> x \div w < a
        BY <2>1, DivOrder
      <4>2. x \div w < a
        BY <2>1
      <4>3. QED
        BY <4>1, <4>2
    <3>2. b * w <= y <=> b <= y \div w
      BY <2>1, DivOrder
    <3>3. b * w <= y
      BY <2>1, <3>2
    <3>4. QED
      BY <3>1, <3>3
  <2>3. (b + 1) * w = b * w + w /\ b * w \in Int
    OBVIOUS
  <2>4. x - y < w
    BY <2>2, <2>3
  <2>5. (i - j) * c = x - y
    BY <2>1, <1>1
  <2>6. (i - j) * c < q * c + c
    <3>1. q * c \in Int
      BY <1>1
    <3>2. QED
      BY <2>4, <2>5, <3>1, <1>1
  <2>7. QED
    BY <2>6, <1>1, Cancel
<1>5. below \in SUBSET Nat
  BY <1>1
<1> HIDE DEF inBin, below
<1>6. IsFiniteSet(below) /\ Cardinality(below) \in Nat /\ Cardinality(below) <= q + 1
  BY <1>2, <1>4, <1>5, Spread
<1>7. /\ IsFiniteSet(below \cup {n}) /\ Cardinality(below \cup {n}) \in Nat
      /\ Cardinality(below \cup {n}) <= q + 2
  <2>1. IsFiniteSet(below \cup {n})
    BY <1>6, FS_AddElement
  <2>2. Cardinality(below \cup {n}) = IF n \in below THEN Cardinality(below)
                                      ELSE Cardinality(below) + 1
    BY <1>6, FS_AddElement
  <2> PICK a \in Int : a = Cardinality(below)
    BY <1>6
  <2>3. a <= q + 1
    BY <1>6
  <2>4. Cardinality(below \cup {n}) = a \/ Cardinality(below \cup {n}) = a + 1
    BY <2>2
  <2>5. Cardinality(below \cup {n}) <= q + 2
    BY <2>3, <2>4
  <2>6. QED
    BY <2>1, <2>5, FS_CardinalityType
<1>8. /\ IsFiniteSet(inBin) /\ Cardinality(inBin) \in Nat
      /\ Cardinality(inBin) <= Cardinality(below \cup {n})
  BY <1>3, <1>7, FS_Subset, FS_CardinalityType
<1>9. Cardinality(inBin) <= q + 2
  BY <1>2, <1>7, <1>8
<1>10. QED
  BY <1>2, <1>8, <1>9 DEF inBin

LEMMA FirstNumbers ==
  ASSUME NEW n \in Nat
  PROVE  IsFiniteSet(1..n) /\ Cardinality(1..n) = n
<1> PICK one \in Int : one = 1
  OBVIOUS
<1>1. IsFiniteSet(one..n) /\ Cardinality(one..n) = IF one > n THEN 0 ELSE n - one + 1
  BY FS_Interval
<1>2. Cardinality(one..n) = n
  BY <1>1
<1>3. QED
  BY <1>1, <1>2

\* The last k + 1 numbers up to n.
LEMMA LastNumbers ==
  ASSUME NEW n \in Int, NEW k \in Nat
  PROVE  IsFiniteSet(n - k..n) /\ Cardinality(n - k..n) = k + 1
<1> PICK lo \in Int : lo = n - k
  OBVIOUS
<1>1. IsFiniteSet(lo..n) /\ Cardinality(lo..n) = IF lo > n THEN 0 ELSE n - lo + 1
  BY FS_Interval
<1>2. Cardinality(lo..n) = k + 1
  BY <1>1
<1>3. QED
  BY <1>1, <1>2

\* The last bins have one more of them at most than as many first ones.
LEMMA EvenThirds ==
  ASSUME NEW n, NEW c, Even(n, c), NEW k \in Nat, k >= 1, k < NumBins
  PROVE  \E p \in Nat :
           /\ k <= p
           /\ p <= Cardinality(InBins(n, c, 0..k - 1))
           /\ Cardinality(InBins(n, c, NumBins - k..NumBins - 1)) <= p + 1
           /\ Cardinality(InBins(n, c, 0..k - 1)) \in Nat
           /\ Cardinality(InBins(n, c, NumBins - k..NumBins - 1)) \in Nat
<1> PICK w \in Nat \ {0} : w = Window
  BY Numbers
<1> PICK m \in Nat \ {0} : m = NumBins
  BY Numbers
<1>1. n \in Nat \ {0} /\ c \in Nat \ {0} /\ c <= w /\ (n - 1) * c = m * w
  BY DEF Even
<1> PICK z \in Int : z = k * w
  OBVIOUS
<1> PICK all \in Int : all = m * w /\ all = (n - 1) * c
  BY <1>1
<1> PICK p \in Int : p = z \div c /\ p * c <= z /\ z < p * c + c
  BY <1>1, DivBounds
<1>2. k <= p
  <2>1. k * c <= k * w /\ k * c = c * k /\ k * w = w * k
    <3>1. c * k <= w * k
      BY <1>1, ProductMonotone
    <3>2. QED
      BY <3>1, <1>1
  <2>2. k * c <= z
    BY <2>1
  <2>3. QED
    BY <2>2, <1>1, DivOrder
<1>3. p \in Nat
  BY <1>2
<1>4. z < all
  <2>1. (k + 1) * w <= m * w
    BY ProductMonotone
  <2>2. (k + 1) * w = z + w
    OBVIOUS
  <2>3. QED
    BY <2>1, <2>2
<1>5. p < n - 1
  <2>1. p * c < (n - 1) * c
    BY <1>4, <1>1
  <2>2. ~(n - 1 <= p)
    <3>1. n - 1 <= p => (n - 1) * c <= p * c
      BY <1>1, ProductMonotone
    <3>2. (n - 1) * c \in Int /\ p * c \in Int
      BY <1>1
    <3>3. QED
      BY <2>1, <3>1, <3>2
  <2>3. QED
    BY <2>2, <1>1
<1> DEFINE early == {i \in 1..n : EvenBin(n, c, i) \in 0..k - 1}
           recent == {i \in 1..n : EvenBin(n, c, i) \in m - k..m - 1}
<1>6. IsFiniteSet(1..n) /\ IsFiniteSet(1..p) /\ Cardinality(1..p) = p
  <2>1. n \in Nat
    BY <1>1
  <2>2. QED
    BY <2>1, <1>3, FirstNumbers
<1>7. early \subseteq 1..n /\ recent \subseteq 1..n
  OBVIOUS
<1>8. 1..p \subseteq early
  <2> SUFFICES ASSUME NEW i \in 1..p
               PROVE  i \in early
    OBVIOUS
  <2>1. i \in 1..n /\ i # n
    BY <1>1, <1>5
  <2>2. PICK x \in Int : x = (i - 1) * c
    BY <1>1
  <2>3. x < z
    <3>1. i * c <= p * c
      BY <1>1, ProductMonotone
    <3>2. i * c = x + c /\ i * c \in Int /\ p * c \in Int
      BY <2>2, <1>1
    <3>3. QED
      BY <3>1, <3>2, <1>1
  <2>4. 0 * w <= x
    <3>1. 0 * c <= (i - 1) * c
      BY <1>1, ProductMonotone
    <3>2. QED
      BY <3>1, <2>2, <1>1
  <2>5. x \div w \in Int /\ 0 <= x \div w /\ x \div w < k
    BY <2>3, <2>4, DivOrder
  <2>6. EvenBin(n, c, i) = x \div w
    BY <2>1, <2>2 DEF EvenBin
  <2>7. QED
    BY <2>1, <2>5, <2>6
<1>9. recent \subseteq n - p..n
  <2> SUFFICES ASSUME NEW i \in recent
               PROVE  i \in n - p..n
    OBVIOUS
  <2>1. CASE i = n
    BY <2>1, <1>1, <1>3
  <2>2. CASE i # n
    <3>1. i \in 1..n
      OBVIOUS
    <3>2. PICK x \in Int : x = (i - 1) * c
      BY <3>1, <1>1
    <3>3. EvenBin(n, c, i) = x \div w
      BY <2>2, <3>2 DEF EvenBin
    <3>4. x \div w \in m - k..m - 1
      BY <3>3
    <3>5. (m - k) * w <= x
      <4> PICK a \in Int : a = m - k
        OBVIOUS
      <4>1. a * w <= x <=> a <= x \div w
        BY DivOrder
      <4>2. QED
        BY <4>1, <3>4
    <3>6. (m - k) * w = all - z
      OBVIOUS
    <3>7. (n - i) * c = all - x
      <4>1. (n - i) * c = (n - 1) * c - (i - 1) * c
        BY <3>1, <1>1
      <4>2. QED
        BY <4>1, <3>2
    <3>8. (n - i) * c <= z
      BY <3>5, <3>6, <3>7
    <3>9. (n - i) * c < p * c + c
      BY <3>7, <3>8, <1>1
    <3>10. n - i <= p
      BY <3>1, <3>9, <1>1, Cancel
    <3>11. QED
      BY <3>1, <3>10, <1>1
  <2>3. QED
    BY <2>1, <2>2
<1> HIDE DEF early, recent
<1>10. Cardinality(early) \in Nat /\ p <= Cardinality(early)
  <2>1. IsFiniteSet(early)
    BY <1>6, <1>7, FS_Subset
  <2>2. Cardinality(1..p) <= Cardinality(early) /\ Cardinality(early) \in Nat
    BY <2>1, <1>8, FS_Subset, FS_CardinalityType
  <2>3. QED
    BY <2>2, <1>6
<1>11. Cardinality(recent) \in Nat /\ Cardinality(recent) <= p + 1
  <2>1. IsFiniteSet(n - p..n) /\ Cardinality(n - p..n) = p + 1
    <3>1. n \in Int
      BY <1>1
    <3>2. QED
      BY <3>1, <1>3, LastNumbers
  <2>2. IsFiniteSet(recent) /\ Cardinality(recent) <= Cardinality(n - p..n)
    BY <2>1, <1>9, FS_Subset
  <2>3. Cardinality(recent) \in Nat
    BY <2>2, FS_CardinalityType
  <2>4. QED
    BY <2>1, <2>2, <2>3, <1>3
<1>12. QED
  BY <1>2, <1>3, <1>10, <1>11 DEF early, recent, InBins


\* Arrivals one step apart lie where the steps put them.
LEMMA Steps ==
  ASSUME NEW s \in Seq(Int), NEW d \in Nat,
         \A i \in 2..Len(s) : s[i] - s[i - 1] = d
  PROVE  \A i \in 1..Len(s) : s[i] = s[1] + (i - 1) * d
<1> PICK n \in Nat : n = Len(s) /\ \A i \in 1..n : s[i] \in Int
  OBVIOUS
<1> DEFINE astray == {i \in 1..n : s[i] # s[1] + (i - 1) * d}
<1> SUFFICES ASSUME astray # {} PROVE FALSE
  OBVIOUS
<1>1. astray \in SUBSET Nat
  OBVIOUS
<1>2. PICK m \in astray : \A i \in astray : m <= i
  BY <1>1, LeastNumber
<1>3. m \in 1..n /\ s[m] # s[1] + (m - 1) * d
  OBVIOUS
<1>4. m # 1
  <2>1. (1 - 1) * d = 0
    OBVIOUS
  <2>2. m = 1 => s[m] = s[1] + 0
    BY <1>3
  <2>3. QED
    BY <1>3, <2>1, <2>2
<1>5. m - 1 \in 1..n /\ m \in 2..n
  BY <1>3, <1>4
<1>6. m - 1 \notin astray
  BY <1>2, <1>3
<1>7. s[m - 1] = s[1] + (m - 2) * d
  <2>1. s[m - 1] = s[1] + ((m - 1) - 1) * d
    BY <1>5, <1>6
  <2>2. ((m - 1) - 1) * d = (m - 2) * d
    BY <1>3
  <2>3. QED
    BY <2>1, <2>2
<1>8. s[m] = s[m - 1] + d
  BY <1>5
<1>9. (m - 2) * d + d = (m - 1) * d /\ (m - 2) * d \in Int /\ (m - 1) * d \in Int
  BY <1>3
<1>10. s[1] \in Int
  BY <1>3
<1>11. PICK a \in Int, b \in Int : a = (m - 2) * d /\ b = (m - 1) * d /\ a + d = b
  BY <1>9
<1>12. s[m] = s[1] + b
  BY <1>7, <1>8, <1>10, <1>11
<1>13. QED
  BY <1>3, <1>11, <1>12

\* The premise of EvenIsNeitherBurstyNorRamping, of a sequence of arrivals.
EvenSteps(s) ==
  /\ s # <<>> /\ s[Len(s)] - s[1] = Horizon
  /\ \E step \in 1..Window :
       /\ BinsPerWindow * step <= Window
       /\ \A i \in 2..Len(s) : s[i] - s[i - 1] = step

\* They fall in the bins as the lemmas above take it.
LEMMA EvenBins ==
  ASSUME NEW s \in Seq(Int), EvenSteps(s)
  PROVE  \E c \in Nat : /\ Even(Len(s), c)
                        /\ \A i \in 1..Len(s) :
                             BinOf(s[i], s[Len(s)]) = EvenBin(Len(s), c, i)
<1> PICK w \in Nat \ {0}, per \in Nat \ {0}, m \in Nat \ {0}, h \in Nat \ {0} :
      /\ w = Window /\ per = BinsPerWindow /\ m = NumBins /\ h = Horizon
      /\ h * per = m * w
  BY Numbers
<1> PICK n \in Nat : n = Len(s) /\ \A i \in 1..n : s[i] \in Int
  OBVIOUS
<1>1. n >= 1 /\ s[n] - s[1] = h
  BY DEF EvenSteps
<1>2. PICK d \in 1..w : /\ per * d <= w
                        /\ \A i \in 2..n : s[i] - s[i - 1] = d
  BY DEF EvenSteps
<1>3. \A i \in 1..n : s[i] = s[1] + (i - 1) * d
  <2>1. d \in Nat
    BY <1>2
  <2>2. \A i \in 2..Len(s) : s[i] - s[i - 1] = d
    BY <1>2
  <2>3. \A i \in 1..Len(s) : s[i] = s[1] + (i - 1) * d
    BY <2>1, <2>2, Steps
  <2>4. QED
    BY <2>3
<1>4. PICK c \in Nat \ {0} : c = d * per /\ c <= w
  <2>1. \A a, b \in Nat \ {0} : a * b \in Nat \ {0} /\ a * b = b * a
    OBVIOUS
  <2>2. d \in Nat \ {0}
    BY <1>2
  <2>3. QED
    BY <1>2, <2>1, <2>2
<1>5. \A i \in 1..n : (s[i] - s[1]) * per = (i - 1) * c
  <2> SUFFICES ASSUME NEW i \in 1..n
               PROVE  (s[i] - s[1]) * per = (i - 1) * c
    OBVIOUS
  <2>1. PICK j \in Int : j = i - 1
    OBVIOUS
  <2>2. PICK a \in Int : a = j * d
    BY <1>2, <2>1
  <2>3. s[i] = s[1] + a /\ s[i] \in Int /\ s[1] \in Int
    BY <1>1, <1>3, <2>1, <2>2
  <2>4. s[i] - s[1] = a
    BY <2>3
  <2>5. (j * d) * per = j * (d * per)
    BY <1>2, <2>1
  <2>6. QED
    BY <1>4, <2>1, <2>2, <2>4, <2>5
<1>6. (n - 1) * c = m * w
  <2>1. (s[n] - s[1]) * per = (n - 1) * c
    BY <1>1, <1>5
  <2>2. QED
    BY <1>1, <2>1
<1>7. Even(n, c)
  BY <1>1, <1>4, <1>6 DEF Even
<1>8. ASSUME NEW i \in 1..n
      PROVE  BinOf(s[i], s[n]) = EvenBin(n, c, i)
  <2>1. PICK x \in Int, b \in Int : /\ x = (i - 1) * c /\ b = x \div w
    BY <1>4, DivBounds
  <2>2. s[i] \in Int /\ s[n] \in Int /\ s[1] \in Int /\ s[n] - h = s[1]
    BY <1>1
  <2>3. (s[i] - (s[n] - h)) * per = x
    BY <1>5, <2>1, <2>2
  <2>4. BinOf(s[i], s[n]) = IF b < 0 THEN 0 ELSE IF b >= m THEN m - 1 ELSE b
    <3> PICK t \in Int, v \in Int : t = s[i] /\ v = s[n]
      BY <2>2
    <3>1. BinOf(t, v) = IF ((t - (v - Horizon)) * BinsPerWindow) \div Window < 0 THEN 0
                        ELSE IF ((t - (v - Horizon)) * BinsPerWindow) \div Window >= NumBins
                        THEN NumBins - 1
                        ELSE ((t - (v - Horizon)) * BinsPerWindow) \div Window
      BY BinOfArrival
    <3>2. ((t - (v - Horizon)) * BinsPerWindow) \div Window = b
      BY <2>1, <2>3
    <3>3. QED
      BY <3>1, <3>2
  <2>5. CASE i = n
    <3>1. m * w <= x
      BY <1>6, <2>1, <2>5
    <3>2. m <= b
      BY <2>1, <3>1, DivOrder
    <3>3. QED
      BY <2>4, <2>5, <3>2 DEF EvenBin
  <2>6. CASE i # n
    <3>1. 0 * w <= x
      <4>1. 0 * c <= (i - 1) * c
        BY <1>4, ProductMonotone
      <4>2. QED
        BY <2>1, <4>1
    <3>2. 0 <= b
      BY <2>1, <3>1, DivOrder
    <3>3. i * c <= (n - 1) * c
      BY <1>1, <1>4, <2>6, ProductMonotone
    <3>4. i * c = x + c
      BY <1>4, <2>1
    <3>5. x < m * w
      <4>1. m * w \in Int
        OBVIOUS
      <4>2. QED
        BY <1>4, <1>6, <3>3, <3>4, <4>1
    <3>6. b < m
      BY <2>1, <3>5, DivOrder
    <3>7. EvenBin(n, c, i) = b
      BY <2>1, <2>6 DEF EvenBin
    <3>8. QED
      BY <2>4, <3>2, <3>6, <3>7
  <2>7. QED
    BY <2>5, <2>6
<1>9. QED
  BY <1>4, <1>7, <1>8

\* The fullest bin has as many arrivals as some bin, and no bin more.
LEMMA FullestBin ==
  ASSUME NEW s \in Seq(Int), NEW v \in Int
  PROVE  \E M \in Nat :
           /\ Peakedness(s, v) = 10 * NumBins * M
           /\ \E b \in 0..NumBins - 1 : M = CountIn(s, v, {b})
           /\ \A b \in 0..NumBins - 1 : CountIn(s, v, {b}) <= M
<1> PICK m \in Nat \ {0} : m = NumBins
  BY Numbers
<1> PICK n \in Nat : n = Len(s)
  OBVIOUS
<1> DEFINE counts == {CountIn(s, v, {b}) : b \in 0..m - 1}
<1>1. IsFiniteSet(1..n) /\ Cardinality(1..n) = n
  BY FirstNumbers
<1>2. \A b : CountIn(s, v, {b}) \in Nat /\ CountIn(s, v, {b}) <= n
  <2> TAKE b
  <2> DEFINE inBin == {i \in DOMAIN s : BinOf(s[i], v) \in {b}}
  <2>1. inBin \subseteq 1..n
    OBVIOUS
  <2>2. CountIn(s, v, {b}) = Cardinality(inBin)
    BY DEF CountIn
  <2> HIDE DEF inBin
  <2>3. IsFiniteSet(inBin) /\ Cardinality(inBin) <= Cardinality(1..n)
    BY <1>1, <2>1, FS_Subset
  <2>4. Cardinality(inBin) \in Nat /\ Cardinality(1..n) \in Nat
    BY <1>1, <2>3, FS_CardinalityType
  <2>5. QED
    BY <1>1, <2>2, <2>3, <2>4
<1>3. counts \in SUBSET Nat /\ \A x \in counts : x <= n
  BY <1>2
<1>4. CountIn(s, v, {0}) \in counts
  <2>1. 0 \in 0..m - 1
    OBVIOUS
  <2>2. QED
    BY <2>1
<1>5. Peakedness(s, v) = 10 * m * Max(counts)
  BY DEF Peakedness
<1>6. \A b \in 0..m - 1 : CountIn(s, v, {b}) \in counts
  OBVIOUS
<1>7. \A x \in counts : \E b \in 0..m - 1 : x = CountIn(s, v, {b})
  OBVIOUS
<1> HIDE DEF counts
<1>8. PICK M : M = Max(counts) /\ M \in counts /\ \A x \in counts : x <= M
  BY <1>3, <1>4, GreatestNumber
<1>9. QED
  BY <1>3, <1>5, <1>6, <1>7, <1>8

\* No bin of even traffic stands out.
LEMMA EvenIsFlat ==
  ASSUME NEW s \in Seq(Int), EvenSteps(s), BurstyRatio >= 30
  PROVE  ~Spiky(s, s[Len(s)])
<1> PICK w \in Nat \ {0}, m \in Nat \ {0}, r \in Nat :
      w = Window /\ m = NumBins /\ r = BurstyRatio /\ r >= 30
  BY Numbers, DetectorAssumption
<1> PICK n \in Nat : n = Len(s) /\ \A i \in 1..n : s[i] \in Int
  OBVIOUS
<1>1. PICK c \in Nat : Even(n, c) /\ \A i \in 1..n : BinOf(s[i], s[n]) = EvenBin(n, c, i)
  BY EvenBins
<1>2. n \in Nat \ {0} /\ c \in Nat \ {0} /\ c <= w
  BY <1>1 DEF Even
<1>3. s[n] \in Int
  BY <1>2
<1>4. PICK M \in Nat, b \in 0..m - 1 :
        /\ Peakedness(s, s[n]) = 10 * m * M
        /\ M = CountIn(s, s[n], {b})
  BY <1>3, FullestBin
<1>5. PICK q \in Int : q = w \div c /\ q * c <= w
  <2>1. w \in Int /\ c \in Nat \ {0}
    BY <1>2
  <2>2. w \div c \in Int /\ (w \div c) * c <= w
    BY <2>1, DivBounds
  <2>3. QED
    BY <2>2
<1>6. M <= q + 2
  <2> DEFINE inBin == {i \in 1..n : EvenBin(n, c, i) = b}
  <2>1. {i \in DOMAIN s : BinOf(s[i], s[n]) \in {b}} = inBin
    BY <1>1
  <2>2. M = Cardinality(inBin)
    BY <1>4, <2>1 DEF CountIn
  <2>3. Cardinality(inBin) <= q + 2
    BY <1>1, <1>5, EvenPeak
  <2>4. QED
    BY <2>2, <2>3
<1>7. q >= 1
  <2>1. 1 * c <= w
    BY <1>2
  <2>2. QED
    BY <1>2, <1>5, <2>1, DivOrder
<1>8. PICK all \in Int : all = m * q /\ m <= all
  <2>1. 1 * m <= q * m /\ 1 * m = m /\ q * m = m * q
    BY <1>7, ProductMonotone
  <2>2. QED
    BY <2>1
<1>9. all <= n - 1
  <2>1. (q * c) * m <= w * m
    BY <1>2, <1>5, ProductMonotone
  <2>2. (q * c) * m = (m * q) * c /\ w * m = (n - 1) * c
    <3>1. (q * c) * m = (m * q) * c /\ w * m = m * w
      BY <1>2
    <3>2. (n - 1) * c = m * w
      BY <1>1 DEF Even
    <3>3. QED
      BY <3>1, <3>2
  <2>3. all * c <= (n - 1) * c
    BY <1>2, <1>8, <2>1, <2>2
  <2>4. all * c \in Int /\ (n - 1) * c \in Int
    BY <1>2
  <2>5. all * c < (n - 1) * c + c
    BY <1>2, <2>3, <2>4
  <2>6. QED
    BY <1>2, <2>5, Cancel
<1>10. PICK peak \in Int : peak = m * M /\ peak <= all + 2 * m
  <2>1. M * m <= (q + 2) * m
    BY <1>6, ProductMonotone
  <2>2. (q + 2) * m = m * q + 2 * m /\ M * m = m * M
    OBVIOUS
  <2>3. QED
    BY <1>8, <2>1, <2>2
<1>11. 10 * m * M = 10 * peak
  BY <1>10
<1>12. PICK most \in Int : most = r * n /\ 30 * n <= most
  <2>1. 30 * n <= r * n
    BY ProductMonotone
  <2>2. QED
    BY <2>1
<1>13. 10 * peak < most
  <2>1. peak <= all + 2 * m /\ m <= all /\ 30 * n <= most
    BY <1>8, <1>10, <1>12
  <2>2. QED
    BY <1>9, <2>1
<1>14. QED
  BY <1>4, <1>11, <1>12, <1>13 DEF Spiky

\* Its last third has hardly more arrivals than the first.
LEMMA EvenIsNoRamp ==
  ASSUME NEW s \in Seq(Int), EvenSteps(s), RampRatio >= 16, NumBins >= 6
  PROVE  ~Climbing(s, s[Len(s)])
<1> PICK n \in Nat : n = Len(s)
  OBVIOUS
<1>1. PICK c \in Nat : Even(n, c) /\ \A i \in 1..n : BinOf(s[i], s[n]) = EvenBin(n, c, i)
  BY EvenBins
<1>2. PICK m \in Nat \ {0}, r \in Nat : m = NumBins /\ r = RampRatio /\ r >= 16
  BY Numbers, DetectorAssumption
<1>3. PICK k \in Nat : k = Third /\ k >= 2 /\ k < m
  BY <1>2, ThirdOfBins
<1>4. PICK p \in Nat :
        /\ k <= p
        /\ p <= Cardinality(InBins(n, c, 0..k - 1))
        /\ Cardinality(InBins(n, c, NumBins - k..NumBins - 1)) <= p + 1
        /\ Cardinality(InBins(n, c, 0..k - 1)) \in Nat
        /\ Cardinality(InBins(n, c, NumBins - k..NumBins - 1)) \in Nat
  <2>1. k >= 1 /\ k < NumBins
    BY <1>2, <1>3
  <2>2. Even(n, c)
    BY <1>1
  <2>3. QED
    BY <2>1, <2>2, EvenThirds
<1>5. \A B : CountIn(s, s[n], B) = Cardinality(InBins(n, c, B))
  <2> TAKE B
  <2>1. {i \in DOMAIN s : BinOf(s[i], s[n]) \in B} = InBins(n, c, B)
    BY <1>1 DEF InBins
  <2>2. QED
    BY <2>1 DEF CountIn
<1>6. PICK early \in Nat, recent \in Nat :
        /\ early = CountIn(s, s[n], 0..k - 1)
        /\ recent = CountIn(s, s[n], NumBins - k..NumBins - 1)
        /\ p <= early /\ recent <= p + 1
  BY <1>4, <1>5
<1>7. PICK least \in Int : least = r * early /\ 16 * early <= least
  <2>1. 16 * early <= r * early
    BY <1>2, ProductMonotone
  <2>2. QED
    BY <2>1
<1>8. 10 * recent < least
  <2>1. p >= 2
    BY <1>3, <1>4
  <2>2. p <= early /\ recent <= p + 1 /\ 16 * early <= least
    BY <1>6, <1>7
  <2>3. QED
    BY <2>1, <2>2
<1>9. QED
  BY <1>2, <1>3, <1>6, <1>7, <1>8 DEF Climbing

\* A client that sends evenly, at least once a bin, is told neither bursty nor
\* ramping, however its arrivals fall on the bins.
THEOREM EvenTraffic ==
  ASSUME BurstyRatio >= 30, RampRatio >= 16, NumBins >= 6
  PROVE  Spec => []EvenIsNeitherBurstyNorRamping
<1>1. IInv => EvenIsNeitherBurstyNorRamping
  <2> SUFFICES ASSUME IInv, NEW w \in Workers, EvenlySpaced, now[w] = ts[Len(ts)]
               PROVE  Told(w) \notin {"bursty", "ramping"}
    BY DEF EvenIsNeitherBurstyNorRamping
  <2>1. ts \in Seq(Int)
    BY Basics
  <2>2. PICK s \in Seq(Int) : s = ts
    BY <2>1
  <2>3. EvenSteps(s)
    BY <2>2 DEF EvenlySpaced, EvenSteps
  <2>4. ~Spiky(s, s[Len(s)]) /\ ~Climbing(s, s[Len(s)]) /\ s # <<>>
    BY <2>3, EvenIsFlat, EvenIsNoRamp DEF EvenSteps
  <2>5. Told(w) = ShapeOf(s, s[Len(s)])
    BY <2>2 DEF Told
  <2>6. QED
    BY <2>4, <2>5 DEF ShapeOf
<1>2. QED
  BY <1>1, InitInv, NextInv, PTL DEF Spec

-----------------------------------------------------------------------------
(* Clusters.                                                               *)

LEMMA CountOfNone ==
  ASSUME NEW s, NEW v
  PROVE  CountIn(s, v, {}) = 0
<1>1. {i \in DOMAIN s : BinOf(s[i], v) \in {}} = {}
  OBVIOUS
<1>2. QED
  BY <1>1, FS_EmptySet DEF CountIn

\* Two sets of bins together hold no more than each has.
LEMMA CountOfBoth ==
  ASSUME NEW s \in Seq(Int), NEW v, NEW B, NEW C
  PROVE  /\ CountIn(s, v, B) \in Nat /\ CountIn(s, v, C) \in Nat
         /\ CountIn(s, v, B \cup C) \in Nat
         /\ CountIn(s, v, B \cup C) <= CountIn(s, v, B) + CountIn(s, v, C)
<1> DEFINE inB == {i \in DOMAIN s : BinOf(s[i], v) \in B}
           inC == {i \in DOMAIN s : BinOf(s[i], v) \in C}
<1>1. PICK n \in Nat : n = Len(s)
  OBVIOUS
<1>2. inB \in SUBSET (1..n) /\ inC \in SUBSET (1..n)
  BY <1>1
<1>3. CountIn(s, v, B) = Cardinality(inB) /\ CountIn(s, v, C) = Cardinality(inC)
  BY DEF CountIn
<1>4. CountIn(s, v, B \cup C) = Cardinality(inB \cup inC)
  <2>1. {i \in DOMAIN s : BinOf(s[i], v) \in B \cup C} = inB \cup inC
    OBVIOUS
  <2>2. QED
    BY <2>1 DEF CountIn
<1> HIDE DEF inB, inC
<1>5. IsFiniteSet(1..n)
  BY FirstNumbers
<1>6. IsFiniteSet(inB) /\ IsFiniteSet(inC)
  BY <1>2, <1>5, FS_Subset
<1>7. /\ IsFiniteSet(inB \cup inC)
      /\ Cardinality(inB \cup inC) =
           Cardinality(inB) + Cardinality(inC) - Cardinality(inB \cap inC)
  BY <1>6, FS_Union
<1>8. IsFiniteSet(inB \cap inC)
  <2>1. inB \cap inC \in SUBSET inB
    OBVIOUS
  <2>2. QED
    BY <1>6, <2>1, FS_Subset
<1>9. PICK x \in Nat, y \in Nat, z \in Nat, u \in Nat :
        /\ x = Cardinality(inB) /\ y = Cardinality(inC)
        /\ z = Cardinality(inB \cap inC) /\ u = Cardinality(inB \cup inC)
  BY <1>6, <1>7, <1>8, FS_CardinalityType
<1>10. u = x + y - z
  BY <1>7, <1>9
<1>11. QED
  BY <1>3, <1>4, <1>9, <1>10

\* k bins in a row hold k times as many as the fullest one at most.
LEMMA RowOfBins ==
  ASSUME NEW s \in Seq(Int), NEW v \in Int, NEW lo \in Nat, NEW k \in Nat,
         lo + k <= NumBins,
         NEW M \in Nat, \A b \in 0..NumBins - 1 : CountIn(s, v, {b}) <= M
  PROVE  CountIn(s, v, lo..lo + k - 1) <= k * M
<1> PICK m \in Nat \ {0} : m = NumBins
  BY Numbers
<1> DEFINE full == {j \in 0..k : ~(CountIn(s, v, lo..lo + j - 1) <= j * M)}
<1> SUFFICES ASSUME full # {} PROVE FALSE
  <2>1. k \in 0..k
    OBVIOUS
  <2>2. QED
    BY <2>1
<1>1. PICK j \in full : \A i \in full : j <= i
  <2>1. full \in SUBSET Nat
    OBVIOUS
  <2>2. QED
    BY <2>1, LeastNumber
<1>2. j \in 0..k /\ ~(CountIn(s, v, lo..lo + j - 1) <= j * M)
  OBVIOUS
<1>3. j # 0
  <2>1. lo..lo + 0 - 1 = {} /\ 0 * M = 0
    OBVIOUS
  <2>2. j = 0 => lo..lo + j - 1 = {} /\ j * M = 0
    BY <2>1
  <2>3. QED
    BY <1>2, <2>2, CountOfNone
<1> HIDE DEF full
<1>4. PICK h \in Nat : h = j - 1 /\ h \in 0..k /\ h \notin full
  <2>1. j - 1 \in Nat /\ j - 1 \in 0..k /\ ~(j <= j - 1)
    BY <1>2, <1>3
  <2>2. QED
    BY <1>1, <2>1
<1>5. CountIn(s, v, lo..lo + h - 1) <= h * M
  BY <1>4 DEF full
<1>6. PICK b \in 0..m - 1 : b = lo + h
  BY <1>2, <1>4
<1>7. lo..lo + j - 1 = (lo..lo + h - 1) \cup {b}
  <2>1. j \in Nat /\ lo + j - 1 = lo + h
    BY <1>2, <1>4
  <2>2. lo..lo + h = (lo..lo + h - 1) \cup {lo + h}
    OBVIOUS
  <2>3. QED
    BY <2>1, <2>2, <1>6
<1>8. CountIn(s, v, {b}) <= M
  OBVIOUS
<1>9. PICK x \in Nat, y \in Nat, z \in Nat :
        /\ x = CountIn(s, v, lo..lo + h - 1) /\ y = CountIn(s, v, {b})
        /\ z = CountIn(s, v, (lo..lo + h - 1) \cup {b}) /\ z <= x + y
  BY CountOfBoth
<1>10. PICK a \in Int : a = h * M
  OBVIOUS
<1>11. j * M = a + M
  BY <1>2, <1>4, <1>10
<1>12. x <= a /\ y <= M
  BY <1>5, <1>8, <1>9, <1>10
<1>13. ~(z <= a + M)
  BY <1>2, <1>7, <1>9, <1>11
<1>14. QED
  BY <1>9, <1>12, <1>13

\* Arrivals that all fall in the last third of the bins are bursty.
LEMMA LastThirdIsSpiky ==
  ASSUME NEW s \in Seq(Int), NEW v \in Int, NumBins >= 3, BurstyRatio <= 30,
         \A i \in 1..Len(s) : BinOf(s[i], v) \in NumBins - Third..NumBins - 1
  PROVE  Spiky(s, v)
<1> PICK n \in Nat : n = Len(s)
  OBVIOUS
<1>1. PICK m \in Nat \ {0}, r \in Nat : m = NumBins /\ r = BurstyRatio /\ r <= 30
  BY Numbers, DetectorAssumption
<1>2. PICK k \in Nat : k = Third /\ 3 * k <= m
  BY <1>1, ThirdOfBins
<1>3. PICK lo \in Nat : lo = m - k
  BY <1>2
<1>4. PICK M \in Nat : /\ Peakedness(s, v) = 10 * m * M
                       /\ \A b \in 0..NumBins - 1 : CountIn(s, v, {b}) <= M
  BY <1>1, FullestBin
<1>5. CountIn(s, v, lo..lo + k - 1) <= k * M
  <2>1. lo + k <= NumBins
    BY <1>1, <1>3
  <2>2. QED
    BY <1>4, <2>1, RowOfBins
<1>6. CountIn(s, v, lo..lo + k - 1) = n
  <2>1. lo..lo + k - 1 = NumBins - Third..NumBins - 1
    BY <1>1, <1>2, <1>3
  <2>2. \A i \in 1..n : BinOf(s[i], v) \in lo..lo + k - 1
    BY <2>1
  <2>3. DOMAIN s = 1..n
    OBVIOUS
  <2>4. {i \in DOMAIN s : BinOf(s[i], v) \in lo..lo + k - 1} = 1..n
    BY <2>2, <2>3
  <2>5. QED
    BY <2>4, FirstNumbers DEF CountIn
<1>7. PICK x \in Int, y \in Int, z \in Int : x = k * M /\ y = m * M /\ z = r * n
  OBVIOUS
<1>8. 3 * x <= y
  <2>1. (3 * k) * M <= m * M
    BY <1>2, ProductMonotone
  <2>2. (3 * k) * M = 3 * x
    BY <1>7
  <2>3. QED
    BY <1>7, <2>1, <2>2
<1>9. z <= 30 * n
  BY <1>1, <1>7, ProductMonotone
<1>10. n <= x
  BY <1>5, <1>6, <1>7
<1>11. 10 * m * M = 10 * y
  BY <1>7
<1>12. 10 * y >= z
  BY <1>8, <1>9, <1>10
<1>13. QED
  BY <1>1, <1>4, <1>7, <1>11, <1>12 DEF Spiky

\* Where an arrival falls that the newest one, at v, follows by no more than a
\* third of the horizon, if it does not come before it.
LEMMA BinOfRecent ==
  ASSUME NEW t \in Int, NEW v \in Int, NumBins >= 3,
         BinsPerWindow * (v - t) <= Third * Window
  PROVE  BinOf(t, v) \in NumBins - Third..NumBins - 1
<1> PICK w \in Nat \ {0}, per \in Nat \ {0}, m \in Nat \ {0}, h \in Nat \ {0} :
      /\ w = Window /\ per = BinsPerWindow /\ m = NumBins /\ h = Horizon
      /\ h * per = m * w
  BY Numbers
<1> PICK k \in Nat \ {0} : k = Third /\ k < m
  BY ThirdOfBins
<1>1. PICK x \in Int, b \in Int : x = (t - (v - h)) * per /\ b = x \div w
  BY DivBounds
<1>2. BinOf(t, v) = IF b < 0 THEN 0 ELSE IF b >= m THEN m - 1 ELSE b
  BY <1>1, BinOfArrival
<1>3. PICK y \in Int, z \in Int, all \in Int :
        y = per * (v - t) /\ z = k * w /\ all = m * w /\ y <= z
  OBVIOUS
<1>4. x = all - y
  <2>1. (t - (v - h)) * per = h * per - per * (v - t)
    OBVIOUS
  <2>2. QED
    BY <1>1, <1>3, <2>1
<1>5. PICK a \in Int : a = m - k
  OBVIOUS
<1>6. a * w = all - z
  BY <1>3, <1>5
<1>7. a * w <= x
  BY <1>3, <1>4, <1>6
<1>8. a <= b
  BY <1>1, <1>7, DivOrder
<1>9. QED
  BY <1>2, <1>5, <1>8

\* Arrivals that fit in a third of the horizon are bursty however they fall on
\* the bins, and whatever came while they were classified.
THEOREM Clusters ==
  ASSUME NumBins >= 3, BurstyRatio <= 30
  PROVE  Spec => []ClustersAreBursty
<1>1. IInv => ClustersAreBursty
  <2> SUFFICES ASSUME IInv, NEW w \in Workers, pc[w] = "iterate", Clustered, UpToDate(w)
               PROVE  Told(w) = "bursty"
    BY DEF ClustersAreBursty
  <2>1. ts \in Seq(Int) /\ now[w] \in Int
    BY Basics DEF IInv, Locals
  <2>2. PICK s \in Seq(Int), v \in Int : s = ts /\ v = now[w]
    BY <2>1
  <2>3. s # <<>> /\ \A i \in 1..Len(s) : s[i] \in Int
    BY <2>2 DEF Clustered
  <2>4. \A i, j \in 1..Len(s) : BinsPerWindow * (s[i] - s[j]) <= Third * Window
    BY <2>2 DEF Clustered
  <2>5. ASSUME NEW i \in 1..Len(s)
        PROVE  BinOf(s[i], v) \in NumBins - Third..NumBins - 1
    <3>1. BinsPerWindow * (v - s[i]) <= Third * Window
      <4>1. CASE \E j \in 1..Len(s) : s[j] = v
        BY <2>4, <4>1
      <4>2. CASE \A j \in 1..Len(s) : s[j] >= v
        <5>1. v - s[i] <= 0 /\ v - s[i] \in Int
          BY <2>3, <4>2
        <5>2. PICK per \in Nat, d \in Int : per = BinsPerWindow /\ d = v - s[i] /\ d <= 0
          BY <5>1, Numbers
        <5>3. d * per <= 0 * per /\ per * d = d * per /\ 0 * per = 0
          BY <5>2, ProductMonotone
        <5>4. PICK a \in Nat, b \in Nat : a = Third /\ b = Window
          BY Numbers, ThirdOfBins
        <5>5. 0 <= a * b
          BY ProductMonotone
        <5>6. BinsPerWindow * (v - s[i]) <= 0 /\ 0 <= Third * Window
          BY <5>2, <5>3, <5>4, <5>5
        <5>7. BinsPerWindow * (v - s[i]) \in Int /\ Third * Window \in Int
          BY <5>2, <5>4
        <5>8. QED
          BY <5>6, <5>7
      <4>3. QED
        BY <2>2, <4>1, <4>2 DEF UpToDate
    <3>2. s[i] \in Int
      BY <2>3
    <3>3. QED
      BY <3>1, <3>2, BinOfRecent
  <2>6. Spiky(s, v)
    BY <2>5, LastThirdIsSpiky
  <2>7. Told(w) = ShapeOf(s, v)
    BY <2>2 DEF Told
  <2>8. QED
    BY <2>3, <2>6, <2>7 DEF ShapeOf
<1>2. QED
  BY <1>1, InitInv, NextInv, PTL DEF Spec
=============================================================================
