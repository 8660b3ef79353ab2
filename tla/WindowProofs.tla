----------------------------- MODULE WindowProofs -----------------------------
(***************************************************************************)
(* Theorems about the Fixed Window Counter and the Sliding Window Log, for *)
(* every number of workers, limit and window.                              *)
(***************************************************************************)
EXTENDS FixedWindowCounter, SlidingWindowLog, RateLimiterProofs

-----------------------------------------------------------------------------
(* The Fixed Window Counter.                                               *)

\* How much a window may have admitted, told by where the stored window is.
\* A window above it was left by a late step; the stored one is being counted;
\* one below it may have been counted in full since the last late step.
Allowance(k) ==
  IF k > entry.w THEN Limit * late
  ELSE IF k = entry.w THEN Limit * late + entry.c
  ELSE Limit * late + Limit

\* The inductive invariant.  The count is bounded by the limit and never
\* exceeds what its window has admitted, the stored window is not above that
\* of the newest timestamp, and every window is within its allowance.
IInv ==
  /\ FlowInv
  /\ TypeOK
  /\ entry = None => admitted = {}
  /\ entry # None =>
       /\ entry.c <= Limit
       /\ entry.c <= Cardinality(InWindow(entry.w))
       /\ entry.w <= WindowOf(newest)
       /\ \A k \in Int : Cardinality(InWindow(k)) <= Allowance(k)

\* An execution keeps the invariant.
LEMMA ExecuteInv ==
  ASSUME IInv, NEW w \in Workers, Execute(w)
  PROVE  IInv'
<1> DEFINE t == now[w]
           result == FixedWindowOp(entry, t)
           r == NewRequest(w)
<1>1. t \in Time /\ t \in Int /\ t # None /\ newest \in Int /\ late \in Nat
  BY ConfigAssumption, MaxTimeAssumption
     DEF Execute, IInv, FlowInv, FlowTypeOK, Time
<1>2. entry \in FixedWindowEntry \cup {None}
  BY DEF IInv, TypeOK
<1> PICK cur \in Int : cur = WindowOf(t)
  BY <1>1, WindowOfMonotone
<1> DEFINE count == IF entry # None /\ entry.w = cur THEN entry.c ELSE 0
<1>3. /\ result.allowed \in BOOLEAN
      /\ result.allowed <=> count < Limit
      /\ result.entry \in FixedWindowEntry
      /\ result.entry.w = cur
      /\ result.entry.c = IF result.allowed THEN count + 1 ELSE count
  BY <1>1, <1>2, FixedWindowStep
<1>4. entry' = result.entry /\ Respond(w, result.allowed)
  BY DEF Execute
<1>5. /\ FlowInv'
      /\ r \notin admitted
      /\ result.allowed => admitted' = admitted \cup {r}
      /\ ~result.allowed => admitted' = admitted
      /\ newest <= newest' /\ t <= newest'
      /\ newest' = newest \/ newest' = t
      /\ late <= late'
      /\ t < newest => late' = late + 1
  BY <1>1, <1>3, <1>4, RespondInv DEF IInv
<1>6. TypeOK'
  BY <1>3, <1>4, <1>5 DEF TypeOK, FlowInv
<1>7. entry' # None
  BY <1>3, <1>4, NoneIsNoFixedWindowEntry
<1>8. cur \in Int /\ count \in Nat
  BY <1>2 DEF FixedWindowEntry
<1>9. /\ entry'.w = cur
      /\ entry'.c = IF result.allowed THEN count + 1 ELSE count
      /\ entry'.c \in Nat
  BY <1>3, <1>4 DEF FixedWindowEntry
<1>10. newest' \in Int /\ late' \in Nat
  BY <1>5, ConfigAssumption, MaxTimeAssumption DEF FlowInv, FlowTypeOK, Time
<1>11. count <= Limit
  BY ConfigAssumption DEF IInv
<1>12. entry'.c <= Limit
  BY <1>3, <1>8, <1>9, <1>11, ConfigAssumption
<1>13. entry'.w <= WindowOf(newest')
  BY <1>1, <1>5, <1>9, <1>10, WindowOfMonotone
<1>14. \A k : /\ Cardinality(InWindow(k)) \in Nat
              /\ IsFiniteSet(InWindow(k))
  BY PartsFinite DEF IInv
<1>15. ASSUME NEW k \in Int
       PROVE  /\ (k # cur \/ ~result.allowed) => InWindow(k)' = InWindow(k)
              /\ (k = cur /\ result.allowed)
                   => Cardinality(InWindow(k)') = Cardinality(InWindow(k)) + 1
  BY <1>1, <1>3, <1>4, InWindowStep DEF IInv
<1>16. count <= Cardinality(InWindow(cur))
  BY <1>8, <1>14 DEF IInv
<1>17. (entry.c <= Cardinality(InWindow(entry.w)))'
  <2>1. entry'.c <= Cardinality(InWindow(cur)')
    BY <1>8, <1>9, <1>14, <1>15, <1>16
  <2>2. QED
    BY <1>9, <2>1 DEF InWindow
<1>18. /\ Limit * late \in Nat
       /\ Limit * late' \in Nat
       /\ Limit * late <= Limit * late'
       /\ t < newest => Limit * late' = Limit * late + Limit
  BY <1>1, <1>5, <1>10, ProductMonotone, ConfigAssumption
<1>19. \A k \in Int : Cardinality(InWindow(k)') <= Allowance(k)'
  <2> SUFFICES ASSUME NEW k \in Int
               PROVE  Cardinality(InWindow(k)') <= Allowance(k)'
    OBVIOUS
  <2>0. Allowance(k)' = IF k > cur THEN Limit * late'
                        ELSE IF k = cur THEN Limit * late' + entry'.c
                        ELSE Limit * late' + Limit
    BY <1>9 DEF Allowance
  <2>1. CASE entry = None
    <3>1. Cardinality(InWindow(k)) = 0
      BY <2>1, FS_EmptySet DEF IInv, InWindow
    <3>2. count = 0
      BY <2>1
    <3>3. QED
      BY <2>0, <3>1, <3>2, <1>8, <1>9, <1>14, <1>15, <1>18, ConfigAssumption
  <2>2. CASE entry # None
    <3>1. /\ entry.w \in Int /\ entry.c \in Nat /\ entry.c <= Limit
          /\ entry.w <= WindowOf(newest)
          /\ Cardinality(InWindow(k)) <= Allowance(k)
      BY <2>2, <1>2 DEF IInv, FixedWindowEntry
    <3>2. cur < entry.w => t < newest
      BY <3>1, <1>1, <1>8, WindowOfMonotone
    <3>3. CASE cur < entry.w
      <4>1. Cardinality(InWindow(k)) <= Limit * late + Limit
        BY <3>1, <1>1, <1>14, <1>18, ConfigAssumption DEF Allowance
      <4>2. Limit * late' = Limit * late + Limit /\ count = 0
        BY <3>2, <3>3, <3>1, <1>8, <1>18
      <4>3. QED
        BY <2>0, <4>1, <4>2, <1>8, <1>9, <1>14, <1>15, <1>18, ConfigAssumption
    <3>4. CASE cur = entry.w
      <4>1. count = entry.c
        BY <2>2, <3>4
      <4>2. QED
        BY <2>0, <4>1, <3>1, <3>4, <1>8, <1>9, <1>14, <1>15, <1>18,
           ConfigAssumption DEF Allowance
    <3>5. CASE cur > entry.w
      <4>1. count = 0
        BY <3>1, <3>5, <1>8
      <4>2. QED
        BY <2>0, <4>1, <3>1, <3>5, <1>8, <1>9, <1>14, <1>15, <1>18,
           ConfigAssumption DEF Allowance
    <3>6. QED
      BY <3>1, <3>3, <3>4, <3>5, <1>8
  <2>3. QED
    BY <2>1, <2>2
<1>20. QED
  BY <1>5, <1>6, <1>7, <1>12, <1>13, <1>17, <1>19 DEF IInv

\* The invariant holds initially.
LEMMA InitInv == Init => IInv
<1> SUFFICES ASSUME Init PROVE IInv
  OBVIOUS
<1>1. FlowInv
  BY FlowInitInv DEF Init
<1>2. TypeOK /\ entry = None /\ admitted = {}
  BY <1>1 DEF Init, FlowInit, TypeOK, FlowInv
<1>3. QED
  BY <1>1, <1>2 DEF IInv

\* Every step keeps the invariant.
LEMMA NextInv == IInv /\ [Next]_vars => IInv'
<1> SUFFICES ASSUME IInv, [Next]_vars PROVE IInv'
  OBVIOUS
<1>1. CASE /\ Tick \/ (\E w \in Workers : ReadClock(w)) \/ UNCHANGED flow
           /\ UNCHANGED entry
  <2>1. FlowInv' /\ UNCHANGED <<admitted, newest, late>>
    BY <1>1, ClockStepInv DEF IInv
  <2>2. TypeOK'
    BY <1>1, <2>1 DEF IInv, TypeOK, FlowInv
  <2>3. QED
    BY <1>1, <2>1, <2>2 DEF IInv, InWindow, Allowance
<1>2. ASSUME NEW w \in Workers, Execute(w)
      PROVE  IInv'
  BY <1>2, ExecuteInv
<1>3. QED
  BY <1>1, <1>2 DEF Next, vars

\* Type correctness of the limiter.
THEOREM TypeCorrect == Spec => []TypeOK
<1>1. IInv => TypeOK
  BY DEF IInv
<1>2. QED
  BY <1>1, InitInv, NextInv, PTL DEF Spec

\* A window admits at most Limit requests, and at most Limit more for every
\* step that came late, for every number of workers and every interleaving.
THEOREM LateStepsBounded == Spec => []LateStepsBoundedOvershoot
<1>1. IInv => LateStepsBoundedOvershoot
  <2> SUFFICES ASSUME IInv, NEW k \in WindowIndices
               PROVE  Cardinality(InWindow(k)) <= Limit * (1 + late)
    BY DEF LateStepsBoundedOvershoot
  <2>1. k \in Int
    BY WindowOfMonotone, MaxTimeAssumption DEF WindowIndices, Time
  <2>2. late \in Nat /\ Limit \in Nat
    BY ConfigAssumption DEF IInv, FlowInv, FlowTypeOK
  <2>3. Limit * (1 + late) = Limit * late + Limit /\ Limit * late \in Nat
    BY <2>2, SMTT(30)
  <2>4. Cardinality(InWindow(k)) \in Nat
    BY PartsFinite DEF IInv
  <2>5. CASE entry = None
    <3>1. Cardinality(InWindow(k)) = 0
      BY <2>5, FS_EmptySet DEF IInv, InWindow
    <3>2. QED
      BY <3>1, <2>2, <2>3
  <2>6. CASE entry # None
    <3>1. /\ Cardinality(InWindow(k)) <= Allowance(k)
          /\ entry.c \in Nat /\ entry.c <= Limit
      BY <2>1, <2>6 DEF IInv, TypeOK, FixedWindowEntry
    <3>2. QED
      BY <3>1, <2>2, <2>3, <2>4 DEF Allowance
  <2>7. QED
    BY <2>5, <2>6
<1>2. QED
  BY <1>1, InitInv, NextInv, PTL DEF Spec

\* While steps run in timestamp order, no window-long interval admits more
\* than twice the limit: it meets two windows, each within its allowance.
THEOREM BoundaryBurst == Spec => []BoundaryBurstBounded
<1>1. IInv => BoundaryBurstBounded
  <2> SUFFICES ASSUME IInv, late = 0, NEW x \in Time
               PROVE  Cardinality(Trailing(x)) <= 2 * Limit
    BY DEF BoundaryBurstBounded
  <2>1. x \in Int
    BY MaxTimeAssumption DEF Time
  <2>2. PICK k \in Int : k = WindowOf(x)
    BY <2>1, WindowAndOffset
  <2>3. ASSUME NEW j \in Int
        PROVE  Cardinality(InWindow(j)) \in Nat /\ Cardinality(InWindow(j)) <= Limit
    <3>1. Cardinality(InWindow(j)) \in Nat
      BY PartsFinite DEF IInv
    <3>2. CASE entry = None
      <4>1. InWindow(j) = {}
        BY <3>2 DEF IInv, InWindow
      <4>2. QED
        BY <3>1, <4>1, FS_EmptySet, ConfigAssumption
    <3>3. CASE entry # None
      <4>1. /\ entry.w \in Int /\ entry.c \in Nat /\ entry.c <= Limit
            /\ Cardinality(InWindow(j)) <= Allowance(j)
        BY <3>3 DEF IInv, TypeOK, FixedWindowEntry
      <4>2. Limit * late = 0
        BY ConfigAssumption
      <4>3. QED
        BY <3>1, <4>1, <4>2, ConfigAssumption DEF Allowance
    <3>4. QED
      BY <3>2, <3>3
  <2>4. Cardinality(Trailing(x))
          <= Cardinality(InWindow(k)) + Cardinality(InWindow(k - 1))
    BY <2>1, <2>2, TrailingSplit DEF IInv
  <2>5. /\ Cardinality(InWindow(k)) \in Nat /\ Cardinality(InWindow(k)) <= Limit
        /\ Cardinality(InWindow(k - 1)) \in Nat
        /\ Cardinality(InWindow(k - 1)) <= Limit
    BY <2>3
  <2>6. Cardinality(Trailing(x)) \in Nat
    BY PartsFinite DEF IInv, Trailing
  <2>7. QED
    BY <2>4, <2>5, <2>6, ConfigAssumption
<1>2. QED
  BY <1>1, InitInv, NextInv, PTL DEF Spec

\* A request is turned away only when its own window is full.
THEOREM RejectsOnlyWhenFullHolds == Spec => RejectsOnlyWhenFull
<1> DEFINE A == \A w \in Workers :
                  Rejects(w) => Cardinality(InWindow(WindowOf(now[w]))) >= Limit
<1>1. IInv /\ [Next]_vars => [A]_vars
  <2> SUFFICES ASSUME IInv, Next, NEW w \in Workers, Rejects(w)
               PROVE  Cardinality(InWindow(WindowOf(now[w]))) >= Limit
    BY DEF vars
  <2> DEFINE result == FixedWindowOp(entry, now[w])
             count == IF entry # None /\ entry.w = WindowOf(now[w])
                        THEN entry.c ELSE 0
  <2>1. Execute(w)
    <3>1. now'[w] # now[w]
      BY DEF Rejects
    <3>2. ~Tick /\ ~(\E v \in Workers : ReadClock(v))
      BY <3>1 DEF Tick, ReadClock, Rejects, IInv, FlowInv, FlowTypeOK
    <3>3. PICK v \in Workers : Execute(v)
      BY <3>2 DEF Next
    <3>4. v = w
      BY <3>1, <3>3 DEF Execute, Respond, IInv, FlowInv, FlowTypeOK
    <3>5. QED
      BY <3>3, <3>4
  <2>2. now[w] \in Int /\ now[w] # None
    BY MaxTimeAssumption DEF Rejects, IInv, FlowInv, FlowTypeOK, Time
  <2>3. entry \in FixedWindowEntry \cup {None}
    BY DEF IInv, TypeOK
  <2>4. result.allowed \in BOOLEAN /\ (result.allowed <=> count < Limit)
    BY <2>2, <2>3, FixedWindowStep
  <2>5. Respond(w, result.allowed)
    BY <2>1 DEF Execute
  <2>6. ~result.allowed
    BY <2>2, <2>4, <2>5, RespondInv DEF IInv, Rejects
  <2>7. count \in Nat /\ WindowOf(now[w]) \in Int
    BY <2>2, <2>3, WindowOfMonotone DEF FixedWindowEntry
  <2>8. Cardinality(InWindow(WindowOf(now[w]))) \in Nat
    BY PartsFinite DEF IInv
  <2>9. count <= Cardinality(InWindow(WindowOf(now[w])))
    BY <2>7, <2>8 DEF IInv
  <2>10. QED
    BY <2>4, <2>6, <2>7, <2>8, <2>9, ConfigAssumption
<1>2. QED
  BY <1>1, InitInv, NextInv, PTL DEF Spec, RejectsOnlyWhenFull

-----------------------------------------------------------------------------
(* The Sliding Window Log.                                                 *)

\* The inductive invariant.  The log holds admitted requests only, and all of
\* those that are less than a window older than the newest timestamp; it never
\* holds more than Limit; and late steps account for what past windows have
\* in excess.
LogInv ==
  /\ FlowInv
  /\ LogTypeOK
  /\ log \subseteq admitted
  /\ \A a \in admitted : a.t > newest - Window => a \in log
  /\ Cardinality(log) <= Limit
  /\ \A x \in Int : Cardinality(Trailing(x)) <= Limit + late

\* Part of the log is finite and no larger.
LEMMA KeptSmaller ==
  ASSUME LogInv, NEW t
  PROVE  /\ Kept(log, t) \subseteq log
         /\ IsFiniteSet(Kept(log, t))
         /\ IsFiniteSet(log)
         /\ Cardinality(Kept(log, t)) \in Nat
         /\ Cardinality(log) \in Nat
         /\ Cardinality(Kept(log, t)) <= Cardinality(log)
<1>1. Kept(log, t) \subseteq log
  BY DEF Kept
<1>2. IsFiniteSet(log)
  BY FS_Subset DEF LogInv, FlowInv
<1>3. QED
  BY <1>1, <1>2, FS_Subset, FS_CardinalityType

\* An execution keeps the invariant.
LEMMA LogExecuteInv ==
  ASSUME LogInv, NEW w \in Workers, LogExecute(w)
  PROVE  LogInv'
<1> DEFINE result == SlidingLogOp(log, now[w], NextNumber)
           r == NewRequest(w)
<1> PICK t : t = now[w]
  OBVIOUS
<1> PICK kept : kept = Kept(log, t)
  OBVIOUS
<1>1. /\ t \in Time /\ t \in Int /\ t # None
      /\ newest \in Int /\ late \in Nat /\ Limit \in Nat /\ Window \in Nat \ {0}
  BY ConfigAssumption, MaxTimeAssumption
     DEF LogExecute, LogInv, FlowInv, FlowTypeOK, Time
<1>2. NextNumber \in Nat
  BY FS_CardinalityType DEF LogInv, FlowInv, NextNumber
<1>3. /\ kept \subseteq log /\ IsFiniteSet(kept)
      /\ Cardinality(kept) \in Nat /\ Cardinality(kept) <= Limit
  BY KeptSmaller, ConfigAssumption DEF LogInv
<1>4. /\ result.allowed \in BOOLEAN
      /\ result.allowed <=> Cardinality(kept) < Limit
      /\ result.entry = IF result.allowed THEN kept \cup {r} ELSE kept
  BY <1>1, <1>2, <1>3, SlidingLogStep DEF NewRequest
<1>5. log' = result.entry /\ Respond(w, result.allowed)
  BY DEF LogExecute
<1>6. /\ FlowInv'
      /\ r \notin admitted
      /\ result.allowed => admitted' = admitted \cup {r}
      /\ ~result.allowed => admitted' = admitted
      /\ newest <= newest' /\ t <= newest'
      /\ newest' = newest \/ newest' = t
      /\ late <= late'
      /\ t < newest => late' = late + 1
  BY <1>1, <1>4, <1>5, RespondInv DEF LogInv
<1>7. newest' \in Int /\ late' \in Nat
  BY <1>6, ConfigAssumption, MaxTimeAssumption DEF FlowInv, FlowTypeOK, Time
<1>8. r = [t |-> t, n |-> NextNumber] /\ r.t = t
  BY DEF NewRequest
<1>9. log' \subseteq admitted'
  BY <1>3, <1>4, <1>5, <1>6 DEF LogInv
<1>10. LogTypeOK'
  BY <1>6, <1>9 DEF LogTypeOK, FlowInv, FlowTypeOK
<1>11. ASSUME NEW a \in admitted', a.t > newest' - Window
       PROVE  a \in log'
  <2>1. CASE a \in admitted
    <3>1. a.t \in Int
      BY <2>1, MaxTimeAssumption DEF LogInv, FlowInv, FlowTypeOK, Time
    <3>2. a.t > newest - Window /\ a.t > t - Window
      BY <1>1, <1>6, <1>7, <1>11, <3>1
    <3>3. a \in log
      BY <2>1, <3>2 DEF LogInv
    <3>4. a \in kept
      BY <3>2, <3>3 DEF Kept
    <3>5. QED
      BY <3>4, <1>4, <1>5
  <2>2. CASE a \notin admitted
    BY <2>2, <1>4, <1>5, <1>6
  <2>3. QED
    BY <2>1, <2>2
<1>12. IsFiniteSet(log') /\ Cardinality(log') <= Limit
  <2>1. CASE result.allowed
    <3>1. log' = kept \cup {r}
      BY <2>1, <1>4, <1>5
    <3>2. /\ IsFiniteSet(kept \cup {r})
          /\ Cardinality(kept \cup {r}) \in Nat
          /\ Cardinality(kept \cup {r}) <= Cardinality(kept) + 1
      BY <1>3, CountNewRequest
    <3>3. QED
      BY <3>1, <3>2, <2>1, <1>1, <1>3, <1>4
  <2>2. CASE ~result.allowed
    BY <2>2, <1>3, <1>4, <1>5
  <2>3. QED
    BY <2>1, <2>2
<1>13. ASSUME NEW x \in Int
       PROVE  Cardinality(Trailing(x)') <= Limit + late'
  <2>1. /\ IsFiniteSet(Trailing(x)) /\ Cardinality(Trailing(x)) \in Nat
        /\ Cardinality(Trailing(x)) <= Limit + late
    BY PartsFinite DEF LogInv, Trailing
  <2>2. CASE ~result.allowed
    <3>1. Trailing(x)' = Trailing(x)
      BY <2>2, <1>6 DEF Trailing, Within
    <3>2. QED
      BY <2>1, <3>1, <1>1, <1>6, <1>7
  <2>3. CASE result.allowed /\ ~(x - Window + 1 <= t /\ t <= x)
    <3>1. Trailing(x)' = Trailing(x)
      BY <2>3, <1>6, <1>8 DEF Trailing, Within
    <3>2. QED
      BY <2>1, <3>1, <1>1, <1>6, <1>7
  <2>4. CASE result.allowed /\ t < newest
    <3>1. Trailing(x)' \subseteq Trailing(x) \cup {r}
      BY <2>4, <1>6 DEF Trailing, Within
    <3>2. /\ IsFiniteSet(Trailing(x) \cup {r})
          /\ Cardinality(Trailing(x) \cup {r}) \in Nat
          /\ Cardinality(Trailing(x) \cup {r}) <= Cardinality(Trailing(x)) + 1
      BY <2>1, CountNewRequest
    <3>3. /\ Cardinality(Trailing(x)') \in Nat
          /\ Cardinality(Trailing(x)') <= Cardinality(Trailing(x) \cup {r})
      BY <3>1, <3>2, FS_Subset, FS_CardinalityType
    <3>4. late' = late + 1
      BY <2>4, <1>6
    <3>5. QED
      BY <2>1, <3>2, <3>3, <3>4, <1>1
  <2>5. CASE x - Window + 1 <= t /\ t <= x /\ t >= newest
    <3>1. newest' = t
      BY <2>5, <1>1, <1>6
    <3>2. Trailing(x)' \subseteq log'
      <4> SUFFICES ASSUME NEW a \in Trailing(x)'
                   PROVE  a \in log'
        OBVIOUS
      <4>1. a \in admitted' /\ x - Window + 1 <= a.t
        BY DEF Trailing, Within
      <4>2. a.t \in Int
        BY <4>1, <1>6, MaxTimeAssumption DEF FlowInv, FlowTypeOK, Time
      <4>3. a.t > newest' - Window
        BY <3>1, <4>1, <4>2, <2>5, <1>1
      <4>4. QED
        BY <4>1, <4>3, <1>11
    <3>3. /\ Cardinality(Trailing(x)') \in Nat
          /\ Cardinality(log') \in Nat
          /\ Cardinality(Trailing(x)') <= Cardinality(log')
      BY <3>2, <1>12, FS_Subset, FS_CardinalityType
    <3>4. QED
      BY <3>3, <1>1, <1>7, <1>12
  <2>6. QED
    BY <2>2, <2>3, <2>4, <2>5, <1>1
<1>14. QED
  BY <1>6, <1>9, <1>10, <1>11, <1>12, <1>13 DEF LogInv

\* The invariant holds initially.
LEMMA LogInitInv == LogInit => LogInv
<1> SUFFICES ASSUME LogInit PROVE LogInv
  OBVIOUS
<1>1. FlowInv
  BY FlowInitInv DEF LogInit
<1>2. LogTypeOK /\ log = {} /\ admitted = {} /\ late = 0
  BY <1>1 DEF LogInit, FlowInit, LogTypeOK, FlowInv
<1>3. ASSUME NEW x \in Int
      PROVE  Trailing(x) = {}
  BY <1>2 DEF Trailing, Within
<1>4. QED
  BY <1>1, <1>2, <1>3, FS_EmptySet, ConfigAssumption DEF LogInv

\* Every step keeps the invariant.
LEMMA LogNextInv == LogInv /\ [LogNext]_logVars => LogInv'
<1> SUFFICES ASSUME LogInv, [LogNext]_logVars PROVE LogInv'
  OBVIOUS
<1>1. CASE /\ Tick \/ (\E w \in Workers : ReadClock(w)) \/ UNCHANGED flow
           /\ UNCHANGED log
  <2>1. FlowInv' /\ UNCHANGED <<admitted, newest, late>>
    BY <1>1, ClockStepInv DEF LogInv
  <2>2. LogTypeOK'
    BY <1>1, <2>1 DEF LogInv, LogTypeOK, FlowInv
  <2>3. QED
    BY <1>1, <2>1, <2>2 DEF LogInv, Trailing, Within
<1>2. ASSUME NEW w \in Workers, LogExecute(w)
      PROVE  LogInv'
  BY <1>2, LogExecuteInv
<1>3. QED
  BY <1>1, <1>2 DEF LogNext, logVars

\* Type correctness of the limiter.
THEOREM LogTypeCorrect == LogSpec => []LogTypeOK
<1>1. LogInv => LogTypeOK
  BY DEF LogInv
<1>2. QED
  BY <1>1, LogInitInv, LogNextInv, PTL DEF LogSpec

\* The window that ends at the newest timestamp, or later, never holds more
\* than Limit admitted requests, whatever the order of the steps.
THEOREM NewestWindowIsExact == LogSpec => []NewestWindowExact
<1>1. LogInv => NewestWindowExact
  <2> SUFFICES ASSUME LogInv, NEW x \in Time, x >= newest
               PROVE  Cardinality(Trailing(x)) <= Limit
    BY DEF NewestWindowExact
  <2>1. x \in Int /\ newest \in Int /\ Window \in Nat \ {0}
    BY ConfigAssumption, MaxTimeAssumption DEF LogInv, FlowInv, FlowTypeOK, Time
  <2>2. Trailing(x) \subseteq log
    <3> SUFFICES ASSUME NEW a \in Trailing(x)
                 PROVE  a \in log
      OBVIOUS
    <3>1. a \in admitted /\ x - Window + 1 <= a.t /\ a.t \in Int
      BY MaxTimeAssumption DEF Trailing, Within, LogInv, FlowInv, FlowTypeOK, Time
    <3>2. a.t > newest - Window
      BY <2>1, <3>1
    <3>3. QED
      BY <3>1, <3>2 DEF LogInv
  <2>3. IsFiniteSet(log) /\ Cardinality(log) \in Nat /\ Cardinality(log) <= Limit
    BY KeptSmaller DEF LogInv
  <2>4. /\ Cardinality(Trailing(x)) \in Nat
        /\ Cardinality(Trailing(x)) <= Cardinality(log)
    BY <2>2, <2>3, FS_Subset, FS_CardinalityType
  <2>5. QED
    BY <2>3, <2>4, ConfigAssumption
<1>2. QED
  BY <1>1, LogInitInv, LogNextInv, PTL DEF LogSpec

\* A window of the past exceeds the limit by one request for each late step at
\* most.
THEOREM LateStepsAddOneEachHolds == LogSpec => []LateStepsAddOneEach
<1>1. LogInv => LateStepsAddOneEach
  <2>1. Time \subseteq Int
    BY MaxTimeAssumption DEF Time
  <2>2. QED
    BY <2>1 DEF LogInv, LateStepsAddOneEach
<1>2. QED
  BY <1>1, LogInitInv, LogNextInv, PTL DEF LogSpec

\* The log never outgrows the limit.
THEOREM LogStaysBounded == LogSpec => []LogBounded
<1>1. LogInv => LogBounded
  BY DEF LogInv, LogBounded
<1>2. QED
  BY <1>1, LogInitInv, LogNextInv, PTL DEF LogSpec

\* A request that is not late is turned away only when Limit requests were
\* admitted in the window it ends.
THEOREM RejectsOnlyWhenTrailingFullHolds == LogSpec => RejectsOnlyWhenTrailingFull
<1> DEFINE A == \A w \in Workers :
                  Rejects(w) /\ now[w] >= newest
                    => Cardinality(Trailing(now[w])) >= Limit
<1>1. LogInv /\ [LogNext]_logVars => [A]_logVars
  <2> SUFFICES ASSUME LogInv, LogNext, NEW w \in Workers, Rejects(w), now[w] >= newest
               PROVE  Cardinality(Trailing(now[w])) >= Limit
    BY DEF logVars
  <2> DEFINE result == SlidingLogOp(log, now[w], NextNumber)
  <2>1. LogExecute(w)
    <3>1. now'[w] # now[w]
      BY DEF Rejects
    <3>2. ~Tick /\ ~(\E v \in Workers : ReadClock(v))
      BY <3>1 DEF Tick, ReadClock, Rejects, LogInv, FlowInv, FlowTypeOK
    <3>3. PICK v \in Workers : LogExecute(v)
      BY <3>2 DEF LogNext
    <3>4. v = w
      BY <3>1, <3>3 DEF LogExecute, Respond, LogInv, FlowInv, FlowTypeOK
    <3>5. QED
      BY <3>3, <3>4
  <2>2. PICK t \in Int : t = now[w]
    BY MaxTimeAssumption DEF Rejects, LogInv, FlowInv, FlowTypeOK, Time
  <2>3. PICK kept : kept = Kept(log, t)
    OBVIOUS
  <2>4. NextNumber \in Nat
    BY FS_CardinalityType DEF LogInv, FlowInv, NextNumber
  <2>5. kept \subseteq log /\ IsFiniteSet(kept) /\ Cardinality(kept) \in Nat
    BY <2>3, KeptSmaller
  <2>6. /\ result.allowed \in BOOLEAN
        /\ result.allowed <=> Cardinality(kept) < Limit
    BY <2>2, <2>3, <2>4, <2>5, SlidingLogStep
  <2>7. ~result.allowed
    BY <2>1, <2>6, RespondInv DEF LogExecute, LogInv, Rejects
  <2>8. kept \subseteq Trailing(t)
    <3> SUFFICES ASSUME NEW a \in kept
                 PROVE  a \in Trailing(t)
      OBVIOUS
    <3>1. a \in admitted /\ a.t > t - Window
      BY <2>3 DEF Kept, LogInv
    <3>2. a.t \in Int /\ newest \in Int /\ Window \in Int /\ a.t <= newest
      BY <3>1, ConfigAssumption, MaxTimeAssumption
         DEF LogInv, FlowInv, FlowTypeOK, Time
    <3>3. t - Window + 1 <= a.t /\ a.t <= t
      BY <2>2, <3>1, <3>2
    <3>4. QED
      BY <3>1, <3>3 DEF Trailing, Within
  <2>9. IsFiniteSet(Trailing(t)) /\ Cardinality(Trailing(t)) \in Nat
    BY PartsFinite DEF LogInv, Trailing
  <2>10. Cardinality(kept) <= Cardinality(Trailing(t))
    BY <2>8, <2>9, FS_Subset
  <2>11. QED
    BY <2>2, <2>5, <2>6, <2>7, <2>9, <2>10, ConfigAssumption
<1>2. QED
  BY <1>1, LogInitInv, LogNextInv, PTL DEF LogSpec, RejectsOnlyWhenTrailingFull

=============================================================================
