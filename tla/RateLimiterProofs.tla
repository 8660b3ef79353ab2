--------------------------- MODULE RateLimiterProofs ---------------------------
(***************************************************************************)
(* What the shared flow guarantees to every algorithm: the type of its     *)
(* variables, and that each admission adds one new request to the history, *)
(* so that the properties may count it.  And what the step of each of the  *)
(* four algorithms returns, for the proofs about the algorithm by itself   *)
(* and for those about the adaptive limiter, which runs all of them.       *)
(***************************************************************************)
EXTENDS RateLimiter, FiniteSetTheorems, TLAPS

\* Every admitted request has a number no later one will get, and a timestamp
\* no newer than the newest.
FlowInv ==
  /\ FlowTypeOK
  /\ IsFiniteSet(admitted)
  /\ \A a \in admitted : a.n <= Cardinality(admitted) /\ a.t <= newest

\* The record Respond adds when it admits.
NewRequest(w) == [t |-> now[w], n |-> NextNumber]

\* The window index grows with the timestamp, and is an integer.
LEMMA WindowOfMonotone ==
  ASSUME NEW s \in Int, NEW t \in Int, s <= t
  PROVE  /\ WindowOf(s) \in Int
         /\ WindowOf(t) \in Int
         /\ WindowOf(s) <= WindowOf(t)
BY ConfigAssumption, SMTT(30) DEF WindowOf

\* A timestamp lies in its window, at an offset smaller than Window.
LEMMA WindowAndOffset ==
  ASSUME NEW t \in Int
  PROVE  /\ WindowOf(t) \in Int
         /\ Elapsed(t) \in 0..Window - 1
         /\ t = Window * WindowOf(t) + Elapsed(t)
<1>0. PICK W \in Nat \ {0} : W = Window
  BY ConfigAssumption
<1>1. t \div W \in Int
  BY SMTT(30)
<1>2. W * (t \div W) <= t /\ t < W * (t \div W) + W
  BY SMTT(30)
<1>3. PICK k \in Int : k = t \div W
  BY <1>1
<1>4. W * k \in Int /\ k * W = W * k
  OBVIOUS
<1>5. /\ W * k <= t /\ t < W * k + W
      /\ Elapsed(t) = t - k * W
  BY <1>0, <1>2, <1>3 DEF Elapsed, WindowOf
<1>6. Elapsed(t) \in 0..W - 1 /\ t = W * k + Elapsed(t)
  BY <1>4, <1>5
<1>7. QED
  BY <1>0, <1>3, <1>6 DEF WindowOf

\* An interval of the length of a window meets two of the clock-aligned ones.
LEMMA TwoWindows ==
  ASSUME NEW s \in Int, NEW x \in Int, x - Window + 1 <= s, s <= x
  PROVE  WindowOf(s) = WindowOf(x) \/ WindowOf(s) = WindowOf(x) - 1
<1>1. PICK k \in Int : k = WindowOf(x)
  BY WindowAndOffset
<1>2. PICK q \in Int : q = WindowOf(s)
  BY WindowAndOffset
<1>3. Window \in Nat \ {0}
  BY ConfigAssumption
<1>4. q <= k
  BY <1>1, <1>2, WindowOfMonotone
<1>5. ~(q <= k - 2)
  <2> SUFFICES ASSUME q <= k - 2 PROVE FALSE
    OBVIOUS
  <2>1. PICK d \in Nat : k = q + 2 + d
    <3>1. k - q - 2 \in Nat /\ k = q + 2 + (k - q - 2)
      OBVIOUS
    <3>2. QED
      BY <3>1
  <2>2. Window * k = Window * q + 2 * Window + Window * d /\ Window * d \in Nat
    BY <2>1, <1>3
  <2>3. Window * q \in Int
    BY <1>3
  <2>4. s < Window * q + Window
    <3>1. PICK o \in 0..Window - 1 : s = Window * q + o
      <4>1. Elapsed(s) \in 0..Window - 1 /\ s = Window * q + Elapsed(s)
        BY <1>2, WindowAndOffset
      <4>2. QED
        BY <4>1
    <3>2. QED
      BY <3>1, <2>3, <1>3
  <2>5. x >= Window * k
    <3>1. PICK o \in 0..Window - 1 : x = Window * k + o
      <4>1. Elapsed(x) \in 0..Window - 1 /\ x = Window * k + Elapsed(x)
        BY <1>1, WindowAndOffset
      <4>2. QED
        BY <4>1
    <3>2. QED
      BY <3>1, <2>2, <2>3, <1>3
  <2>6. QED
    BY <2>2, <2>3, <2>4, <2>5, <1>3
<1>6. QED
  BY <1>1, <1>2, <1>4, <1>5

\* How the total of one allowance per late step grows with their number.
LEMMA ProductMonotone ==
  ASSUME NEW L \in Nat, NEW m \in Nat, NEW n \in Nat, m <= n
  PROVE  /\ L * m \in Nat
         /\ L * n \in Nat
         /\ L * m <= L * n
         /\ n = m + 1 => L * n = L * m + L
<1>1. L * m \in Nat /\ L * n \in Nat
  OBVIOUS
<1>2. PICK d \in Nat : n = m + d
  <2>1. n - m \in Nat /\ n = m + (n - m)
    OBVIOUS
  <2>2. QED
    BY <2>1
<1>3. L * n = L * m + L * d /\ L * d \in Nat
  BY <1>2
<1>4. n = m + 1 => L * n = L * m + L
  OBVIOUS
<1>5. QED
  BY <1>1, <1>3, <1>4

\* A set of admitted requests grows by at most one in a step, and by exactly
\* one if the new request belongs to it.
LEMMA CountNewRequest ==
  ASSUME NEW S, IsFiniteSet(S), NEW r
  PROVE  /\ IsFiniteSet(S \cup {r})
         /\ Cardinality(S) \in Nat
         /\ Cardinality(S \cup {r}) \in Nat
         /\ Cardinality(S \cup {r}) <= Cardinality(S) + 1
         /\ r \notin S => Cardinality(S \cup {r}) = Cardinality(S) + 1
<1>1. /\ IsFiniteSet(S \cup {r})
      /\ Cardinality(S \cup {r})
           = IF r \in S THEN Cardinality(S) ELSE Cardinality(S) + 1
  BY FS_AddElement
<1>2. Cardinality(S) \in Nat
  BY FS_CardinalityType
<1>3. QED
  BY <1>1, <1>2

\* The parts of the history the properties count are finite.
LEMMA PartsFinite ==
  ASSUME FlowInv
  PROVE  /\ \A lo, hi : /\ IsFiniteSet(Within(lo, hi))
                        /\ Cardinality(Within(lo, hi)) \in Nat
         /\ \A k : /\ IsFiniteSet(InWindow(k))
                   /\ Cardinality(InWindow(k)) \in Nat
BY FS_Subset, FS_CardinalityType DEF FlowInv, Within, InWindow

\* The flow starts with an empty history.
LEMMA FlowInitInv ==
  ASSUME FlowInit
  PROVE  FlowInv /\ Cardinality(admitted) = 0
<1>1. FlowTypeOK
  BY MaxTimeAssumption DEF FlowInit, FlowTypeOK, Time
<1>2. QED
  BY <1>1, FS_EmptySet DEF FlowInit, FlowInv

\* Time passing and reading the clock leave the history alone.
LEMMA ClockStepInv ==
  ASSUME FlowInv, Tick \/ (\E w \in Workers : ReadClock(w)) \/ UNCHANGED flow
  PROVE  FlowInv' /\ UNCHANGED <<admitted, newest, late>>
<1>1. CASE Tick
  BY <1>1, MaxTimeAssumption DEF Tick, FlowInv, FlowTypeOK, Time
<1>2. ASSUME NEW w \in Workers, ReadClock(w)
      PROVE  FlowInv' /\ UNCHANGED <<admitted, newest, late>>
  BY <1>2 DEF ReadClock, FlowInv, FlowTypeOK
<1>3. CASE UNCHANGED flow
  BY <1>3 DEF flow, FlowInv, FlowTypeOK
<1>4. QED
  BY <1>1, <1>2, <1>3

\* A verdict keeps the invariant of the flow, and tells how the history, the
\* newest timestamp and the count of late steps move.
LEMMA RespondInv ==
  ASSUME FlowInv, NEW w \in Workers, now[w] # None, NEW allowed \in BOOLEAN,
         Respond(w, allowed)
  PROVE  /\ FlowInv'
         /\ now[w] \in Time
         /\ NewRequest(w) \notin admitted
         /\ allowed => admitted' = admitted \cup {NewRequest(w)}
         /\ ~allowed => admitted' = admitted
         /\ newest <= newest' /\ now[w] <= newest'
         /\ newest' = newest \/ newest' = now[w]
         /\ late <= late'
         /\ now[w] < newest => late' = late + 1
<1> DEFINE r == NewRequest(w)
<1>1. now[w] \in Time /\ now[w] \in Int /\ newest \in Int /\ late \in Nat
  BY ConfigAssumption, MaxTimeAssumption DEF FlowInv, FlowTypeOK, Time
<1>2. Cardinality(admitted) \in Nat
  BY FS_CardinalityType DEF FlowInv
<1>3. r \notin admitted
  BY <1>2 DEF FlowInv, NewRequest, NextNumber
<1>4. /\ IsFiniteSet(admitted \cup {r})
      /\ Cardinality(admitted \cup {r}) = Cardinality(admitted) + 1
  BY <1>3, CountNewRequest DEF FlowInv
<1>5. /\ allowed => admitted' = admitted \cup {r}
      /\ ~allowed => admitted' = admitted
  BY DEF Respond, NewRequest
<1>6. /\ newest <= newest' /\ now[w] <= newest'
      /\ newest' = newest \/ newest' = now[w]
      /\ late <= late'
      /\ now[w] < newest => late' = late + 1
  BY <1>1 DEF Respond
<1>7. FlowTypeOK'
  <2>1. admitted' \in SUBSET [t : Time, n : Nat]
    BY <1>1, <1>2, <1>5 DEF FlowInv, FlowTypeOK, NewRequest, NextNumber
  <2>2. QED
    BY <1>1, <2>1 DEF FlowInv, FlowTypeOK, Respond
<1>8. \A a \in admitted' : a.n <= Cardinality(admitted') /\ a.t <= newest'
  <2>1. CASE allowed
    <3>1. ASSUME NEW a \in admitted
          PROVE  a.n <= Cardinality(admitted') /\ a.t <= newest'
      <4>1. /\ a.n \in Nat /\ a.t \in Int
            /\ a.n <= Cardinality(admitted) /\ a.t <= newest
        BY DEF FlowInv, FlowTypeOK, Time
      <4>2. Cardinality(admitted') = Cardinality(admitted) + 1 /\ newest' \in Int
        BY <2>1, <1>1, <1>4, <1>5, <1>6
      <4>3. QED
        BY <4>1, <4>2, <1>1, <1>2, <1>6
    <3>2. r.n <= Cardinality(admitted') /\ r.t <= newest'
      BY <2>1, <1>2, <1>4, <1>5, <1>6 DEF NewRequest, NextNumber
    <3>3. QED
      BY <2>1, <1>5, <3>1, <3>2
  <2>2. CASE ~allowed
    BY <2>2, <1>1, <1>5, <1>6 DEF FlowInv, FlowTypeOK, Time
  <2>3. QED
    BY <2>1, <2>2
<1>9. IsFiniteSet(admitted')
  BY <1>4, <1>5 DEF FlowInv
<1>10. QED
  BY <1>1, <1>3, <1>5, <1>6, <1>7, <1>8, <1>9 DEF FlowInv

\* The requests of an interval of the length of a window are requests of the
\* window it ends in and of the one before.
LEMMA TrailingSplit ==
  ASSUME FlowInv, NEW x \in Int
  PROVE  /\ Trailing(x) \subseteq InWindow(WindowOf(x)) \cup InWindow(WindowOf(x) - 1)
         /\ Cardinality(Trailing(x))
              <= Cardinality(InWindow(WindowOf(x)))
                 + Cardinality(InWindow(WindowOf(x) - 1))
<1> DEFINE A == InWindow(WindowOf(x))
           B == InWindow(WindowOf(x) - 1)
<1>1. Trailing(x) \subseteq A \cup B
  <2> SUFFICES ASSUME NEW a \in Trailing(x)
               PROVE  a \in A \cup B
    OBVIOUS
  <2>1. a \in admitted /\ x - Window + 1 <= a.t /\ a.t <= x
    BY DEF Trailing, Within
  <2>2. a.t \in Int
    BY <2>1, MaxTimeAssumption DEF FlowInv, FlowTypeOK, Time
  <2>3. WindowOf(a.t) = WindowOf(x) \/ WindowOf(a.t) = WindowOf(x) - 1
    BY <2>1, <2>2, TwoWindows
  <2>4. QED
    BY <2>1, <2>3 DEF InWindow
<1>2. /\ IsFiniteSet(A) /\ Cardinality(A) \in Nat
      /\ IsFiniteSet(B) /\ Cardinality(B) \in Nat
  BY PartsFinite
<1>3. IsFiniteSet(A \cap B) /\ Cardinality(A \cap B) \in Nat
  BY <1>2, FS_Intersection, FS_CardinalityType
<1>4. /\ IsFiniteSet(A \cup B) /\ Cardinality(A \cup B) \in Nat
      /\ Cardinality(A \cup B) = Cardinality(A) + Cardinality(B) - Cardinality(A \cap B)
  BY <1>2, FS_Union, FS_CardinalityType
<1>5. Cardinality(Trailing(x)) \in Nat /\ Cardinality(Trailing(x)) <= Cardinality(A \cup B)
  BY <1>1, <1>4, FS_Subset, FS_CardinalityType
<1>6. QED
  BY <1>1, <1>2, <1>3, <1>4, <1>5

\* No window beyond that of the newest timestamp has admitted a request.
LEMMA NothingBeyond ==
  ASSUME FlowInv, newest \in Int, NEW j \in Int, j > WindowOf(newest)
  PROVE  Cardinality(InWindow(j)) = 0
<1>1. ASSUME NEW a \in InWindow(j)
      PROVE  FALSE
  <2>1. a \in admitted /\ WindowOf(a.t) = j
    BY DEF InWindow
  <2>2. a.t \in Int /\ a.t <= newest
    BY <2>1, MaxTimeAssumption DEF FlowInv, FlowTypeOK, Time
  <2>3. WindowOf(a.t) <= WindowOf(newest) /\ WindowOf(newest) \in Int
    BY <2>2, WindowOfMonotone
  <2>4. QED
    BY <2>1, <2>3
<1>2. InWindow(j) = {}
  BY <1>1
<1>3. QED
  BY <1>2, FS_EmptySet

\* How a verdict changes what a clock-aligned window has admitted.
LEMMA InWindowStep ==
  ASSUME FlowInv, NEW w \in Workers, now[w] # None, NEW allowed \in BOOLEAN,
         Respond(w, allowed), NEW k
  PROVE  /\ (k # WindowOf(now[w]) \/ ~allowed) => InWindow(k)' = InWindow(k)
         /\ (k = WindowOf(now[w]) /\ allowed)
              => Cardinality(InWindow(k)') = Cardinality(InWindow(k)) + 1
<1> DEFINE r == NewRequest(w)
<1>1. /\ allowed => admitted' = admitted \cup {r}
      /\ ~allowed => admitted' = admitted
      /\ r \notin admitted
  BY RespondInv
<1>2. CASE allowed
  <2>1. InWindow(k)' = IF k = WindowOf(now[w]) THEN InWindow(k) \cup {r}
                                               ELSE InWindow(k)
    BY <1>1, <1>2 DEF InWindow, NewRequest, WindowOf
  <2>2. r \notin InWindow(k)
    BY <1>1 DEF InWindow
  <2>3. IsFiniteSet(InWindow(k))
    BY PartsFinite
  <2>4. QED
    BY <1>2, <2>1, <2>2, <2>3, CountNewRequest
<1>3. CASE ~allowed
  BY <1>1, <1>3 DEF InWindow
<1>4. QED
  BY <1>2, <1>3

-----------------------------------------------------------------------------
(* The steps of the four algorithms, in terms of what they find.           *)

\* The Fixed Window Counter: the entry moves to the timestamp's window, and
\* counts one more exactly when it admits.
LEMMA FixedWindowStep ==
  ASSUME NEW t \in Int, NEW e \in FixedWindowEntry \cup {None}
  PROVE  LET r == FixedWindowOp(e, t)
             count == IF e # None /\ e.w = WindowOf(t) THEN e.c ELSE 0
         IN  /\ r.allowed \in BOOLEAN
             /\ r.allowed <=> count < Limit
             /\ r.entry \in FixedWindowEntry
             /\ r.entry.w = WindowOf(t)
             /\ r.entry.c = IF r.allowed THEN count + 1 ELSE count
<1> DEFINE count == IF e # None /\ e.w = WindowOf(t) THEN e.c ELSE 0
           r == FixedWindowOp(e, t)
<1>1. WindowOf(t) \in Int
  BY WindowOfMonotone
<1>2. count \in Nat
  BY DEF FixedWindowEntry
<1>3. r = [entry |-> [w |-> WindowOf(t),
                      c |-> IF count < Limit THEN count + 1 ELSE count],
           allowed |-> count < Limit]
  BY DEF FixedWindowOp, CurrentCount, Permits, Result
<1> HIDE DEF r, count
<1>4. /\ r.entry.w = WindowOf(t)
      /\ r.entry = [w |-> WindowOf(t),
                    c |-> IF count < Limit THEN count + 1 ELSE count]
  BY <1>3
<1>5. r.entry \in FixedWindowEntry
  BY <1>1, <1>2, <1>4 DEF FixedWindowEntry
<1>6. r.allowed \in BOOLEAN /\ (r.allowed <=> count < Limit)
  <2>1. CASE count < Limit
    <3>1. (count < Limit) = TRUE
      BY <2>1
    <3>2. QED
      BY <3>1, <2>1, <1>3
  <2>2. CASE ~(count < Limit)
    <3>1. (count < Limit) = FALSE
      BY <2>2
    <3>2. QED
      BY <3>1, <2>2, <1>3
  <2>3. QED
    BY <2>1, <2>2
<1>7. r.entry.c = IF r.allowed THEN count + 1 ELSE count
  BY <1>4, <1>6
<1>8. QED
  BY <1>4, <1>5, <1>6, <1>7 DEF r, count

\* The Sliding Window Log, in terms of the stamps it keeps: it admits if they
\* are fewer than Limit, and then adds its own.
LEMMA SlidingLogStep ==
  ASSUME NEW S, NEW t \in Int, NEW n \in Nat,
         Cardinality(Kept(S, t)) \in Nat
  PROVE  LET r == SlidingLogOp(S, t, n)
         IN  /\ r.allowed \in BOOLEAN
             /\ r.allowed <=> Cardinality(Kept(S, t)) < Limit
             /\ r.entry = IF r.allowed THEN Kept(S, t) \cup {[t |-> t, n |-> n]}
                                       ELSE Kept(S, t)
<1> DEFINE r == SlidingLogOp(S, t, n)
<1> PICK kept : kept = Kept(S, t)
  OBVIOUS
<1>1. r = [entry |-> IF Cardinality(kept) < Limit
                       THEN kept \cup {[t |-> t, n |-> n]} ELSE kept,
           allowed |-> Cardinality(kept) < Limit]
  BY DEF SlidingLogOp, Permits, Result
<1> HIDE DEF r
<1>2. CASE Cardinality(kept) < Limit
  <2>1. (Cardinality(kept) < Limit) = TRUE
    BY <1>2
  <2>2. r.allowed = TRUE /\ r.entry = kept \cup {[t |-> t, n |-> n]}
    BY <1>1, <2>1
  <2>3. QED
    BY <1>2, <2>2 DEF r
<1>3. CASE ~(Cardinality(kept) < Limit)
  <2>1. (Cardinality(kept) < Limit) = FALSE
    BY <1>3
  <2>2. r.allowed = FALSE /\ r.entry = kept
    BY <1>1, <2>1
  <2>3. QED
    BY <1>3, <2>2 DEF r
<1>4. QED
  BY <1>2, <1>3

\* What an estimate below the limit, or not below it, says of the counts.
LEMMA EstimateBounds ==
  ASSUME NEW cc \in Nat, NEW pc \in Nat, NEW t \in Int
  PROVE  /\ Estimate(cc, pc, t) < Limit * Window =>
              /\ cc < Limit
              /\ Window * (cc + pc + 1) < Window * (Limit + 1) + Elapsed(t) * pc
         /\ ~(Estimate(cc, pc, t) < Limit * Window) => cc + pc >= Limit
<1>0. PICK W \in Nat \ {0} : W = Window
  BY ConfigAssumption
<1>1. PICK o \in 0..W - 1 : o = Elapsed(t)
  BY <1>0, WindowAndOffset
<1>2. PICK L \in Nat : L = Limit
  BY ConfigAssumption
<1>3. Estimate(cc, pc, t) = pc * (W - o) + cc * W
  BY <1>0, <1>1 DEF Estimate
<1>4. /\ pc * (W - o) = W * pc - o * pc
      /\ cc * W = W * cc
      /\ L * W = W * L
      /\ W * (cc + pc + 1) = W * cc + W * pc + W
      /\ W * (L + 1) = W * L + W
  OBVIOUS
<1>5. /\ W * cc \in Nat /\ W * pc \in Nat /\ W * L \in Nat /\ o * pc \in Nat
      /\ pc * (W - o) \in Nat
  <2>1. W - o \in Nat
    OBVIOUS
  <2>2. QED
    BY <2>1
<1>6. ASSUME Estimate(cc, pc, t) < Limit * Window
      PROVE  /\ cc < Limit
             /\ Window * (cc + pc + 1) < Window * (Limit + 1) + Elapsed(t) * pc
  <2>1. W * pc - o * pc + W * cc < W * L /\ W * cc < W * L
    BY <1>0, <1>2, <1>3, <1>4, <1>5, <1>6
  <2>2. cc < L
    <3> SUFFICES ASSUME L <= cc PROVE FALSE
      OBVIOUS
    <3>1. W * L <= W * cc
      BY ProductMonotone
    <3>2. QED
      BY <2>1, <3>1, <1>5
  <2>3. W * (cc + pc + 1) < W * (L + 1) + o * pc
    BY <2>1, <1>4, <1>5
  <2>4. QED
    BY <2>2, <2>3, <1>0, <1>1, <1>2
<1>7. ASSUME ~(Estimate(cc, pc, t) < Limit * Window)
      PROVE  cc + pc >= Limit
  <2>1. W * pc + W * cc >= W * L
    BY <1>0, <1>2, <1>3, <1>4, <1>5, <1>7
  <2>2. ASSUME cc + pc < L
        PROVE  FALSE
    <3>1. W * (cc + pc + 1) <= W * L
      BY <2>2, ProductMonotone
    <3>2. QED
      BY <2>1, <3>1, <1>4, <1>5
  <2>3. QED
    BY <2>2, <1>2
<1>8. QED
  BY <1>6, <1>7

\* The Sliding Window Counter, in terms of the two counts it works with.
LEMMA SlidingCounterStep ==
  ASSUME NEW t \in Int, NEW e \in SlidingCounterEntry \cup {None}
  PROVE  LET r  == SlidingCounterOp(e, t)
             cc == CurrentCount(e, WindowOf(t))
             pc == PreviousCount(e, WindowOf(t))
         IN  /\ cc \in Nat /\ pc \in Nat
             /\ r.allowed \in BOOLEAN
             /\ r.allowed <=> Estimate(cc, pc, t) < Limit * Window
             /\ r.entry \in SlidingCounterEntry
             /\ r.entry.w = WindowOf(t)
             /\ r.entry.c = IF r.allowed THEN cc + 1 ELSE cc
             /\ r.entry.p = pc
<1> DEFINE r == SlidingCounterOp(e, t)
<1> PICK cc : cc = CurrentCount(e, WindowOf(t))
  OBVIOUS
<1> PICK pc : pc = PreviousCount(e, WindowOf(t))
  OBVIOUS
<1> PICK est : est = Estimate(cc, pc, t)
  OBVIOUS
<1>1. WindowOf(t) \in Int
  BY WindowOfMonotone
<1>2. cc \in Nat /\ pc \in Nat
  BY DEF CurrentCount, PreviousCount, SlidingCounterEntry
<1>3. r = [entry |-> [w |-> WindowOf(t),
                      c |-> IF est < Limit * Window THEN cc + 1 ELSE cc, p |-> pc],
           allowed |-> est < Limit * Window]
  BY DEF SlidingCounterOp, Result
<1> HIDE DEF r
<1>4. r.entry = [w |-> WindowOf(t),
                 c |-> IF est < Limit * Window THEN cc + 1 ELSE cc, p |-> pc]
  BY <1>3
<1>5. r.entry \in SlidingCounterEntry
  BY <1>1, <1>2, <1>4 DEF SlidingCounterEntry
<1>6. r.allowed \in BOOLEAN /\ (r.allowed <=> est < Limit * Window)
  <2>1. CASE est < Limit * Window
    <3>1. (est < Limit * Window) = TRUE
      BY <2>1
    <3>2. QED
      BY <3>1, <2>1, <1>3
  <2>2. CASE ~(est < Limit * Window)
    <3>1. (est < Limit * Window) = FALSE
      BY <2>2
    <3>2. QED
      BY <3>1, <2>2, <1>3
  <2>3. QED
    BY <2>1, <2>2
<1>7. /\ r.entry.w = WindowOf(t) /\ r.entry.p = pc
      /\ r.entry.c = IF r.allowed THEN cc + 1 ELSE cc
  BY <1>4, <1>6
<1>8. QED
  BY <1>2, <1>5, <1>6, <1>7 DEF r

\* The Token Bucket, in terms of the level it finds: it admits if that is a
\* token or more, and stores what is left together with its timestamp.
LEMMA TokenBucketStep ==
  ASSUME NEW token \in Nat \ {0}, NEW capacity \in Nat, NEW rate \in Nat,
         NEW t \in Int, NEW e \in TokenBucketEntry \cup {None}
  PROVE  LET b     == [token |-> token, capacity |-> capacity, rate |-> rate]
             level == IF e = None THEN capacity ELSE Refilled(b, e, t)
             worth == e.tokens + (t - e.last) * rate
             r     == TokenBucketOp(b, e, t)
         IN  /\ level \in Int
             /\ level <= capacity
             /\ e # None => level <= worth /\ (level = capacity \/ level = worth)
             /\ r.allowed \in BOOLEAN
             /\ r.allowed <=> level >= token
             /\ r.entry \in TokenBucketEntry
             /\ r.entry.last = t
             /\ r.entry.tokens = IF r.allowed THEN level - token ELSE level
<1> DEFINE b == [token |-> token, capacity |-> capacity, rate |-> rate]
           r == TokenBucketOp(b, e, t)
           worth == e.tokens + (t - e.last) * rate
<1> PICK level : level = IF e = None THEN capacity ELSE Refilled(b, e, t)
  OBVIOUS
<1>1. e # None => /\ worth \in Int
                  /\ level = IF worth > capacity THEN capacity ELSE worth
  <2> SUFFICES ASSUME e # None
               PROVE  /\ worth \in Int
                      /\ level = IF worth > capacity THEN capacity ELSE worth
    OBVIOUS
  <2>1. e.tokens \in Int /\ e.last \in Int
    BY DEF TokenBucketEntry
  <2>2. (t - e.last) * rate \in Int
    BY <2>1
  <2>3. QED
    BY <2>1, <2>2 DEF Refilled, Capped
<1>2. /\ level \in Int
      /\ level <= capacity
      /\ e # None => level <= worth /\ (level = capacity \/ level = worth)
  <2> HIDE DEF worth
  <2>1. QED
    BY <1>1
<1>3. r = [entry |-> [tokens |-> IF level >= token THEN level - token ELSE level,
                      last |-> t],
           allowed |-> level >= token]
  BY DEF TokenBucketOp, Result
<1> HIDE DEF r
<1>4. /\ r.entry.last = t
      /\ r.entry.tokens = IF level >= token THEN level - token ELSE level
  BY <1>3
<1>5. r.entry \in TokenBucketEntry
  <2>1. (IF level >= token THEN level - token ELSE level) \in Int
    BY <1>2
  <2>2. QED
    BY <1>3, <2>1 DEF TokenBucketEntry
<1>6. r.allowed \in BOOLEAN /\ (r.allowed <=> level >= token)
  <2>1. CASE level >= token
    <3>1. (level >= token) = TRUE
      BY <2>1
    <3>2. QED
      BY <3>1, <2>1, <1>3
  <2>2. CASE ~(level >= token)
    <3>1. (level >= token) = FALSE
      BY <2>2
    <3>2. QED
      BY <3>1, <2>2, <1>3
  <2>3. QED
    BY <2>1, <2>2
<1>7. QED
  BY <1>2, <1>4, <1>5, <1>6 DEF r

=============================================================================
