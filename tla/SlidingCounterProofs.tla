-------------------------- MODULE SlidingCounterProofs --------------------------
(***************************************************************************)
(* Theorems about the Sliding Window Counter, for every number of workers, *)
(* limit and window.                                                       *)
(***************************************************************************)
EXTENDS SlidingWindowCounter, RateLimiterProofs

\* What a window may have admitted, told by where the stored window is, as for
\* the Fixed Window Counter: nothing is forgotten of the stored window's count
\* but by a late step.
Allowance(k) ==
  IF k > entry.w THEN Limit * late
  ELSE IF k = entry.w THEN Limit * late + entry.c
  ELSE Limit * late + Limit

\* OvershootBoundedByWeight at x.
WeightBound(x) ==
  Window * Cardinality(Trailing(x))
    < Window * (Limit + 1)
      + Elapsed(x) * Cardinality(InWindow(WindowOf(x) - 1))

\* The inductive invariant.  The stored counts never exceed what their windows
\* have admitted, and are the truth until a step is late; the windows are
\* within their allowances, and the intervals, until a step is late, within
\* what the weight forgives.
IInv ==
  /\ FlowInv
  /\ TypeOK
  /\ entry = None => admitted = {}
  /\ entry # None =>
       /\ entry.c <= Limit
       /\ entry.c <= Cardinality(InWindow(entry.w))
       /\ entry.p <= Cardinality(InWindow(entry.w - 1))
       /\ entry.w <= WindowOf(newest)
       /\ \A k \in Int : Cardinality(InWindow(k)) <= Allowance(k)
  /\ entry # None /\ late = 0 =>
       /\ entry.w = WindowOf(newest)
       /\ entry.c = Cardinality(InWindow(entry.w))
       /\ entry.p = Cardinality(InWindow(entry.w - 1))
  /\ late = 0 => \A x \in Int : WeightBound(x)

\* The counts the step works with never exceed what was admitted, and are the
\* truth as long as no step has been late.
LEMMA CountsBounded ==
  ASSUME IInv, NEW t \in Int
  PROVE  LET cur == WindowOf(t)
             cc  == CurrentCount(entry, cur)
             pc  == PreviousCount(entry, cur)
         IN  /\ cc <= Limit
             /\ cc <= Cardinality(InWindow(cur))
             /\ pc <= Cardinality(InWindow(cur - 1))
             /\ late = 0 /\ t >= newest =>
                  /\ cc = Cardinality(InWindow(cur))
                  /\ pc = Cardinality(InWindow(cur - 1))
<1> PICK cur \in Int : cur = WindowOf(t)
  BY WindowAndOffset
<1> PICK cc : cc = CurrentCount(entry, cur)
  OBVIOUS
<1> PICK pc : pc = PreviousCount(entry, cur)
  OBVIOUS
<1>1. /\ entry \in SlidingCounterEntry \cup {None}
      /\ newest \in Int
  BY MaxTimeAssumption DEF IInv, TypeOK, FlowInv, FlowTypeOK, Time
<1>2. \A k : Cardinality(InWindow(k)) \in Nat
  BY PartsFinite DEF IInv
<1>3. CASE entry = None
  <2>1. cc = 0 /\ pc = 0
    BY <1>3 DEF CurrentCount, PreviousCount
  <2>2. \A k : Cardinality(InWindow(k)) = 0
    BY <1>3, FS_EmptySet DEF IInv, InWindow
  <2>3. QED
    BY <2>1, <2>2, ConfigAssumption
<1>4. CASE entry # None
  <2>1. /\ entry.w \in Int /\ entry.c \in Nat /\ entry.p \in Nat
        /\ entry.c <= Limit
        /\ entry.c <= Cardinality(InWindow(entry.w))
        /\ entry.p <= Cardinality(InWindow(entry.w - 1))
    BY <1>1, <1>4 DEF IInv, SlidingCounterEntry
  <2>2. CASE cur = entry.w
    <3>1. cc = entry.c /\ pc = entry.p
      BY <1>4, <2>2 DEF CurrentCount, PreviousCount
    <3>2. QED
      BY <2>1, <2>2, <3>1, <1>4 DEF IInv
  <2>3. CASE cur # entry.w
    <3>1. cc = 0
      BY <2>3 DEF CurrentCount
    <3>2. pc = IF entry.w = cur - 1 THEN entry.c ELSE 0
      BY <1>4, <2>3 DEF PreviousCount
    <3>3. cc <= Limit /\ cc <= Cardinality(InWindow(cur))
      BY <3>1, <1>2, ConfigAssumption
    <3>4. pc <= Cardinality(InWindow(cur - 1))
      BY <2>1, <3>2, <1>2
    <3>5. ASSUME late = 0, t >= newest
          PROVE  /\ cc = Cardinality(InWindow(cur))
                 /\ pc = Cardinality(InWindow(cur - 1))
      <4>1. entry.w = WindowOf(newest) /\ entry.c = Cardinality(InWindow(entry.w))
        BY <1>4, <3>5 DEF IInv
      <4>2. cur > entry.w
        BY <4>1, <2>1, <2>3, <3>5, <1>1, WindowOfMonotone
      <4>3. \A j \in Int : j > entry.w => Cardinality(InWindow(j)) = 0
        BY <4>1, <1>1, NothingBeyond DEF IInv
      <4>4. Cardinality(InWindow(cur)) = 0
        BY <4>2, <4>3
      <4>5. entry.w # cur - 1 => Cardinality(InWindow(cur - 1)) = 0
        BY <4>2, <4>3, <2>1
      <4>6. QED
        BY <3>1, <3>2, <4>1, <4>4, <4>5
    <3>6. QED
      BY <3>3, <3>4, <3>5
  <2>4. QED
    BY <2>2, <2>3
<1>5. QED
  BY <1>3, <1>4

\* An execution keeps the invariant.
LEMMA ExecuteInv ==
  ASSUME IInv, NEW w \in Workers, Execute(w)
  PROVE  IInv'
<1> DEFINE result == SlidingCounterOp(entry, now[w])
           r == NewRequest(w)
<1> PICK t : t = now[w]
  OBVIOUS
<1>1. /\ t \in Time /\ t \in Int /\ t # None
      /\ newest \in Int /\ late \in Nat /\ Limit \in Nat /\ Window \in Nat \ {0}
  BY ConfigAssumption, MaxTimeAssumption
     DEF Execute, IInv, FlowInv, FlowTypeOK, Time
<1>2. entry \in SlidingCounterEntry \cup {None}
  BY DEF IInv, TypeOK
<1> PICK cur \in Int : cur = WindowOf(t)
  BY <1>1, WindowOfMonotone
<1> PICK cc : cc = CurrentCount(entry, cur)
  OBVIOUS
<1> PICK pc : pc = PreviousCount(entry, cur)
  OBVIOUS
<1>3. /\ cc \in Nat /\ pc \in Nat
      /\ result.allowed \in BOOLEAN
      /\ result.allowed <=> Estimate(cc, pc, t) < Limit * Window
      /\ result.entry \in SlidingCounterEntry
      /\ result.entry.w = cur
      /\ result.entry.c = IF result.allowed THEN cc + 1 ELSE cc
      /\ result.entry.p = pc
  BY <1>1, <1>2, SlidingCounterStep
<1>4. entry' = result.entry /\ Respond(w, result.allowed)
  BY DEF Execute
<1>5. /\ FlowInv'
      /\ r \notin admitted
      /\ result.allowed => admitted' = admitted \cup {r}
      /\ ~result.allowed => admitted' = admitted
      /\ newest <= newest' /\ t <= newest'
      /\ newest' = newest \/ newest' = t
      /\ late <= late'
      /\ t < newest => late' = late + 1
  BY <1>1, <1>3, <1>4, RespondInv DEF IInv
<1>6. TypeOK'
  BY <1>3, <1>4, <1>5 DEF TypeOK, FlowInv
<1>7. entry' # None
  BY <1>3, <1>4, NoneIsNoSlidingCounterEntry
<1>8. /\ entry'.w = cur /\ entry'.p = pc
      /\ entry'.c = IF result.allowed THEN cc + 1 ELSE cc
      /\ entry'.c \in Nat
  BY <1>3, <1>4
<1>9. newest' \in Int /\ late' \in Nat
  BY <1>5, MaxTimeAssumption DEF FlowInv, FlowTypeOK, Time
<1>10. /\ cc <= Limit
       /\ cc <= Cardinality(InWindow(cur))
       /\ pc <= Cardinality(InWindow(cur - 1))
       /\ late = 0 /\ t >= newest =>
            /\ cc = Cardinality(InWindow(cur))
            /\ pc = Cardinality(InWindow(cur - 1))
  BY <1>1, CountsBounded
<1>11. result.allowed =>
         /\ cc < Limit
         /\ Window * (cc + pc + 1) < Window * (Limit + 1) + Elapsed(t) * pc
  BY <1>1, <1>3, EstimateBounds
<1>12. entry'.c <= Limit
  BY <1>1, <1>3, <1>8, <1>10, <1>11
<1>13. entry'.w <= WindowOf(newest')
  BY <1>1, <1>5, <1>8, <1>9, WindowOfMonotone
<1>14. \A k : Cardinality(InWindow(k)) \in Nat
  BY PartsFinite DEF IInv
<1>15. ASSUME NEW k \in Int
       PROVE  /\ (k # cur \/ ~result.allowed) => InWindow(k)' = InWindow(k)
              /\ (k = cur /\ result.allowed)
                   => Cardinality(InWindow(k)') = Cardinality(InWindow(k)) + 1
  BY <1>1, <1>3, <1>4, InWindowStep DEF IInv
<1>16. (entry.c <= Cardinality(InWindow(entry.w)))'
  <2>1. entry'.c <= Cardinality(InWindow(cur)')
    BY <1>3, <1>8, <1>10, <1>14, <1>15
  <2>2. QED
    BY <1>8, <2>1 DEF InWindow
<1>17. (entry.p <= Cardinality(InWindow(entry.w - 1)))'
  <2>1. cur - 1 \in Int /\ cur - 1 # cur
    OBVIOUS
  <2>2. InWindow(cur - 1)' = InWindow(cur - 1)
    BY <2>1, <1>15
  <2>3. QED
    BY <1>8, <1>10, <2>2 DEF InWindow
<1>18. /\ Limit * late \in Nat
       /\ Limit * late' \in Nat
       /\ Limit * late <= Limit * late'
       /\ t < newest => Limit * late' = Limit * late + Limit
  BY <1>1, <1>5, <1>9, ProductMonotone
<1>19. \A k \in Int : Cardinality(InWindow(k)') <= Allowance(k)'
  <2> SUFFICES ASSUME NEW k \in Int
               PROVE  Cardinality(InWindow(k)') <= Allowance(k)'
    OBVIOUS
  <2>0. Allowance(k)' = IF k > cur THEN Limit * late'
                        ELSE IF k = cur THEN Limit * late' + entry'.c
                        ELSE Limit * late' + Limit
    BY <1>8 DEF Allowance
  <2>1. CASE entry = None
    <3>1. Cardinality(InWindow(k)) = 0
      BY <2>1, FS_EmptySet DEF IInv, InWindow
    <3>2. cc = 0
      BY <2>1 DEF CurrentCount
    <3>3. QED
      BY <2>0, <3>1, <3>2, <1>1, <1>8, <1>14, <1>15, <1>18
  <2>2. CASE entry # None
    <3>1. /\ entry.w \in Int /\ entry.c \in Nat /\ entry.c <= Limit
          /\ entry.w <= WindowOf(newest)
          /\ Cardinality(InWindow(k)) <= Allowance(k)
      BY <2>2, <1>2 DEF IInv, SlidingCounterEntry
    <3>2. cur < entry.w => t < newest
      BY <3>1, <1>1, WindowOfMonotone
    <3>3. cc = IF cur = entry.w THEN entry.c ELSE 0
      BY <2>2 DEF CurrentCount
    <3>4. CASE cur < entry.w
      <4>1. Cardinality(InWindow(k)) <= Limit * late + Limit
        BY <3>1, <1>1, <1>14, <1>18 DEF Allowance
      <4>2. Limit * late' = Limit * late + Limit /\ cc = 0
        BY <3>1, <3>2, <3>3, <3>4, <1>18
      <4>3. QED
        BY <2>0, <4>1, <4>2, <1>1, <1>8, <1>14, <1>15, <1>18
    <3>5. CASE cur = entry.w
      <4>1. cc = entry.c
        BY <3>3, <3>5
      <4>2. k = cur => Cardinality(InWindow(k)) <= Limit * late + cc
        BY <3>1, <3>5, <4>1 DEF Allowance
      <4>3. k # cur => Cardinality(InWindow(k))
                         <= IF k > cur THEN Limit * late ELSE Limit * late + Limit
        BY <3>1, <3>5 DEF Allowance
      <4>4. QED
        BY <2>0, <4>2, <4>3, <1>1, <1>3, <1>8, <1>14, <1>15, <1>18
    <3>6. CASE cur > entry.w
      <4>1. cc = 0
        BY <3>1, <3>3, <3>6
      <4>2. QED
        BY <2>0, <4>1, <3>1, <3>6, <1>1, <1>8, <1>14, <1>15, <1>18 DEF Allowance
    <3>7. QED
      BY <3>1, <3>4, <3>5, <3>6
  <2>3. QED
    BY <2>1, <2>2
<1>20. ASSUME late' = 0
       PROVE  /\ late = 0 /\ t >= newest /\ newest' = t
              /\ cc = Cardinality(InWindow(cur))
              /\ pc = Cardinality(InWindow(cur - 1))
  <2>1. late = 0 /\ t >= newest
    BY <1>1, <1>5, <1>20
  <2>2. newest' = t
    BY <1>1, <1>5, <2>1
  <2>3. QED
    BY <2>1, <2>2, <1>10
<1>21. ASSUME late' = 0
       PROVE  (/\ entry.w = WindowOf(newest)
               /\ entry.c = Cardinality(InWindow(entry.w))
               /\ entry.p = Cardinality(InWindow(entry.w - 1)))'
  <2>1. entry'.w = WindowOf(newest')
    BY <1>8, <1>20, <1>21
  <2>2. entry'.c = Cardinality(InWindow(cur)')
    BY <1>3, <1>8, <1>15, <1>20, <1>21
  <2>3. cur - 1 \in Int /\ cur - 1 # cur
    OBVIOUS
  <2>4. InWindow(cur - 1)' = InWindow(cur - 1)
    BY <2>3, <1>15
  <2>5. entry'.p = Cardinality(InWindow(cur - 1)')
    BY <1>8, <1>20, <1>21, <2>4
  <2>6. QED
    BY <2>1, <2>2, <2>5, <1>8 DEF InWindow
<1>22. ASSUME late' = 0, NEW x \in Int
       PROVE  WeightBound(x)'
  <2> PICK k \in Int : k = WindowOf(x)
    BY WindowAndOffset
  <2> PICK o \in 0..Window - 1 : o = Elapsed(x)
    BY WindowAndOffset
  <2> PICK n : n = Cardinality(Trailing(x))
    OBVIOUS
  <2> PICK q : q = Cardinality(InWindow(k - 1))
    OBVIOUS
  <2>1. n \in Nat /\ q \in Nat /\ IsFiniteSet(Trailing(x))
    BY PartsFinite DEF IInv, Trailing
  <2>2. Window * n < Window * (Limit + 1) + o * q
    BY <1>20, <1>22 DEF IInv, WeightBound
  <2>3. PICK q1 \in Nat : q1 = Cardinality(InWindow(k - 1)') /\ q <= q1
    <3>1. PICK j \in Int : j = k - 1
      OBVIOUS
    <3>2. \/ InWindow(j)' = InWindow(j)
          \/ Cardinality(InWindow(j)') = Cardinality(InWindow(j)) + 1
      BY <1>15
    <3>3. InWindow(j)' = InWindow(k - 1)' /\ q = Cardinality(InWindow(j))
      BY <3>1 DEF InWindow
    <3>4. Cardinality(InWindow(k - 1)') \in Nat /\ q <= Cardinality(InWindow(k - 1)')
      BY <3>2, <3>3, <2>1
    <3>5. QED
      BY <3>4
  <2>4. o * q <= o * q1 /\ o * q \in Nat /\ o * q1 \in Nat
    BY <2>1, <2>3, <1>1, ProductMonotone
  <2>5. Window * n \in Nat /\ Window * (Limit + 1) \in Nat
    BY <2>1, <1>1
  <2>6. CASE Trailing(x)' = Trailing(x)
    <3>1. Window * n < Window * (Limit + 1) + o * q1
      BY <2>2, <2>4, <2>5
    <3>2. QED
      BY <2>3, <2>6, <3>1 DEF WeightBound, InWindow
  <2>7. CASE Trailing(x)' # Trailing(x)
    <3>1. result.allowed /\ x - Window + 1 <= t /\ t <= x
      BY <2>7, <1>5 DEF Trailing, Within, NewRequest
    <3>2. Trailing(x)' = Trailing(x) \cup {r} /\ r \notin Trailing(x)
      BY <3>1, <1>5 DEF Trailing, Within, NewRequest
    <3>3. Cardinality(Trailing(x)') = n + 1
      BY <3>2, <2>1, CountNewRequest
    <3>4. n <= Cardinality(InWindow(k)) + q
      BY TrailingSplit DEF IInv
    <3>5. cur = k \/ cur = k - 1
      BY <3>1, <1>1, TwoWindows
    <3>6. Window * (n + 1) < Window * (Limit + 1) + o * q1
      <4>1. CASE cur = k
        <5>1. q = pc /\ n + 1 <= cc + pc + 1
          BY <3>4, <4>1, <2>1, <1>3, <1>20, <1>22
        <5>2. Window * (n + 1) <= Window * (cc + pc + 1)
          BY <5>1, <2>1, <1>1, <1>3, ProductMonotone
        <5>3. PICK ot \in 0..Window - 1 : ot = Elapsed(t)
          BY <1>1, WindowAndOffset
        <5>4. ot <= o
          <6>1. t = Window * cur + ot /\ x = Window * k + o
            BY <5>3, <1>1, WindowAndOffset
          <6>2. Window * k \in Int
            BY <1>1
          <6>3. QED
            BY <6>1, <6>2, <4>1, <3>1, <1>1
        <5>5. ot * pc <= o * pc /\ ot * pc \in Nat
          <6>1. pc * ot <= pc * o /\ pc * ot \in Nat
            BY <5>4, <1>1, <1>3, ProductMonotone
          <6>2. pc * ot = ot * pc /\ pc * o = o * pc
            BY <1>1, <1>3
          <6>3. QED
            BY <6>1, <6>2
        <5>6. Window * (cc + pc + 1) < Window * (Limit + 1) + ot * pc
          BY <5>3, <3>1, <1>11
        <5>7. Window * (n + 1) \in Nat /\ Window * (cc + pc + 1) \in Nat
          BY <2>1, <1>1, <1>3
        <5>8. o * q = o * pc
          BY <5>1
        <5>9. QED
          BY <5>2, <5>5, <5>6, <5>7, <5>8, <2>4, <2>5
      <4>2. CASE cur = k - 1
        <5>1. k > WindowOf(newest)
          <6>1. /\ WindowOf(newest) \in Int /\ WindowOf(newest) <= cur
            BY <1>1, <1>20, <1>22, WindowOfMonotone
          <6>2. QED
            BY <4>2, <6>1
        <5>2. Cardinality(InWindow(k)) = 0
          BY <5>1, <1>1, NothingBeyond DEF IInv
        <5>3. q = cc
          BY <4>2, <1>20, <1>22
        <5>4. n + 1 < Limit + 1
          BY <5>2, <5>3, <3>1, <3>4, <2>1, <1>1, <1>3, <1>11
        <5>5. Window * (n + 1) + Window <= Window * (Limit + 1)
          <6>1. /\ Window * (n + 1 + 1) <= Window * (Limit + 1)
                /\ Window * (n + 1 + 1) = Window * (n + 1) + Window
            BY <5>4, <2>1, <1>1, ProductMonotone
          <6>2. QED
            BY <6>1
        <5>6. Window * (n + 1) \in Nat
          BY <2>1, <1>1
        <5>7. QED
          BY <5>5, <5>6, <2>4, <2>5, <1>1
      <4>3. QED
        BY <3>5, <4>1, <4>2
    <3>7. QED
      BY <2>3, <3>3, <3>6 DEF WeightBound, InWindow
  <2>8. QED
    BY <2>6, <2>7
<1>23. QED
  BY <1>5, <1>6, <1>7, <1>12, <1>13, <1>16, <1>17, <1>19, <1>21, <1>22 DEF IInv

\* The invariant holds initially.
LEMMA InitInv == Init => IInv
<1> SUFFICES ASSUME Init PROVE IInv
  OBVIOUS
<1>1. FlowInv
  BY FlowInitInv DEF Init
<1>2. TypeOK /\ entry = None /\ admitted = {}
  BY <1>1 DEF Init, FlowInit, TypeOK, FlowInv
<1>3. ASSUME NEW x \in Int
      PROVE  WeightBound(x)
  <2>1. Trailing(x) = {} /\ InWindow(WindowOf(x) - 1) = {}
    BY <1>2 DEF Trailing, Within, InWindow
  <2>2. PICK o \in Int : o = Elapsed(x)
    BY WindowAndOffset
  <2>3. /\ Window * 0 = 0 /\ o * 0 = 0
        /\ Window * (Limit + 1) = Window * Limit + Window
        /\ Window * Limit \in Nat
    BY <2>2, ConfigAssumption
  <2>4. QED
    BY <2>1, <2>2, <2>3, FS_EmptySet, ConfigAssumption DEF WeightBound
<1>4. QED
  BY <1>1, <1>2, <1>3 DEF IInv

\* Every step keeps the invariant.
LEMMA NextInv == IInv /\ [Next]_vars => IInv'
<1> SUFFICES ASSUME IInv, [Next]_vars PROVE IInv'
  OBVIOUS
<1>1. CASE /\ Tick \/ (\E w \in Workers : ReadClock(w)) \/ UNCHANGED flow
           /\ UNCHANGED entry
  <2>1. FlowInv' /\ UNCHANGED <<admitted, newest, late>>
    BY <1>1, ClockStepInv DEF IInv
  <2>2. TypeOK'
    BY <1>1, <2>1 DEF IInv, TypeOK, FlowInv
  <2>3. QED
    BY <1>1, <2>1, <2>2
       DEF IInv, InWindow, Allowance, WeightBound, Trailing, Within
<1>2. ASSUME NEW w \in Workers, Execute(w)
      PROVE  IInv'
  BY <1>2, ExecuteInv
<1>3. QED
  BY <1>1, <1>2 DEF Next, vars

\* Type correctness of the limiter.
THEOREM TypeCorrect == Spec => []TypeOK
<1>1. IInv => TypeOK
  BY DEF IInv
<1>2. QED
  BY <1>1, InitInv, NextInv, PTL DEF Spec

\* A window admits one limit, and one more for every late step.
THEOREM LateStepsBounded == Spec => []LateStepsBoundedOvershoot
<1>1. IInv => LateStepsBoundedOvershoot
  <2> SUFFICES ASSUME IInv, NEW k \in WindowIndices
               PROVE  Cardinality(InWindow(k)) <= Limit * (1 + late)
    BY DEF LateStepsBoundedOvershoot
  <2>1. k \in Int
    BY WindowOfMonotone, MaxTimeAssumption DEF WindowIndices, Time
  <2>2. late \in Nat /\ Limit \in Nat
    BY ConfigAssumption DEF IInv, FlowInv, FlowTypeOK
  <2>3. /\ Limit * (1 + late) = Limit * late + Limit
        /\ Limit * late \in Nat
    BY <2>2
  <2>4. Cardinality(InWindow(k)) \in Nat
    BY PartsFinite DEF IInv
  <2>5. CASE entry = None
    <3>1. InWindow(k) = {}
      BY <2>5 DEF IInv, InWindow
    <3>2. QED
      BY <3>1, <2>2, <2>3, FS_EmptySet
  <2>6. CASE entry # None
    <3>1. /\ entry.w \in Int /\ entry.c \in Nat /\ entry.c <= Limit
          /\ Cardinality(InWindow(k)) <= Allowance(k)
      BY <2>1, <2>6 DEF IInv, TypeOK, SlidingCounterEntry
    <3>2. QED
      BY <3>1, <2>1, <2>2, <2>3, <2>4 DEF Allowance
  <2>7. QED
    BY <2>5, <2>6
<1>2. QED
  BY <1>1, InitInv, NextInv, PTL DEF Spec

\* The error of the approximation is what the weight of the previous window
\* forgives, as long as steps run in timestamp order.
THEOREM OvershootBounded == Spec => []OvershootBoundedByWeight
<1>1. IInv => OvershootBoundedByWeight
  <2>1. Time \subseteq Int
    BY MaxTimeAssumption DEF Time
  <2>2. QED
    BY <2>1 DEF IInv, WeightBound, OvershootBoundedByWeight
<1>2. QED
  BY <1>1, InitInv, NextInv, PTL DEF Spec

\* The two stored integers are the counts of two windows, as long as steps run
\* in timestamp order.
THEOREM CountsAreTrue == Spec => []CountsAreTrueInOrder
<1>1. IInv => CountsAreTrueInOrder
  BY DEF IInv, CountsAreTrueInOrder
<1>2. QED
  BY <1>1, InitInv, NextInv, PTL DEF Spec

\* A request is turned away only when its window and the one before it have
\* together admitted the limit.
THEOREM RejectsOnlyWhenFullHolds == Spec => RejectsOnlyWhenFull
<1> DEFINE A == \A w \in Workers :
                  Rejects(w) =>
                    LET k == WindowOf(now[w]) IN
                      Cardinality(InWindow(k)) + Cardinality(InWindow(k - 1)) >= Limit
<1>1. IInv /\ [Next]_vars => [A]_vars
  <2> SUFFICES ASSUME IInv, Next, NEW w \in Workers, Rejects(w),
                      NEW k, k = WindowOf(now[w])
               PROVE  Cardinality(InWindow(k)) + Cardinality(InWindow(k - 1)) >= Limit
    BY DEF vars
  <2> DEFINE result == SlidingCounterOp(entry, now[w])
  <2>1. Execute(w)
    <3>1. now'[w] # now[w]
      BY DEF Rejects
    <3>2. ~Tick /\ ~(\E v \in Workers : ReadClock(v))
      BY <3>1 DEF Tick, ReadClock, Rejects, IInv, FlowInv, FlowTypeOK
    <3>3. PICK v \in Workers : Execute(v)
      BY <3>2 DEF Next
    <3>4. v = w
      BY <3>1, <3>3 DEF Execute, Respond, IInv, FlowInv, FlowTypeOK
    <3>5. QED
      BY <3>3, <3>4
  <2>2. now[w] # None
    BY DEF Rejects
  <2>3. PICK t \in Int : t = now[w]
    BY MaxTimeAssumption DEF Rejects, IInv, FlowInv, FlowTypeOK, Time
  <2>4. PICK cc : cc = CurrentCount(entry, k)
    OBVIOUS
  <2>5. PICK pc : pc = PreviousCount(entry, k)
    OBVIOUS
  <2>6. /\ cc \in Nat /\ pc \in Nat
        /\ result.allowed \in BOOLEAN
        /\ result.allowed <=> Estimate(cc, pc, t) < Limit * Window
    BY <2>3, <2>4, <2>5, SlidingCounterStep DEF IInv, TypeOK
  <2>7. ~result.allowed
    BY <2>1, <2>2, <2>6, RespondInv DEF Execute, IInv, Rejects
  <2>8. cc + pc >= Limit
    BY <2>3, <2>6, <2>7, EstimateBounds
  <2>9. cc <= Cardinality(InWindow(k)) /\ pc <= Cardinality(InWindow(k - 1))
    BY <2>3, <2>4, <2>5, CountsBounded
  <2>10. /\ Cardinality(InWindow(k)) \in Nat
         /\ Cardinality(InWindow(k - 1)) \in Nat
    BY PartsFinite DEF IInv
  <2>11. QED
    BY <2>6, <2>8, <2>9, <2>10, ConfigAssumption
<1>2. QED
  BY <1>1, InitInv, NextInv, PTL DEF Spec, RejectsOnlyWhenFull

=============================================================================
