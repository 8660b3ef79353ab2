--------------------------- MODULE TokenBucketProofs ---------------------------
(***************************************************************************)
(* Theorems about the Token Bucket, for every number of workers, size of a *)
(* token, capacity and refill rate.                                        *)
(***************************************************************************)
EXTENDS TokenBucket, RateLimiterProofs

\* What the bucket gains from a to b, and gives back if b is before a.
Gain(a, b) == (b - a) * RefillRate

\* What the requests of the interval have spent.
Spent(lo, hi) == Token * Cardinality(Within(lo, hi))

\* The inductive invariant.  The tokens spent from lo on and those left come
\* to no more than a full bucket and the gain since lo; it takes a request of
\* the interval for that, since before it the bucket may have been full.
IInv ==
  /\ FlowInv
  /\ TypeOK
  /\ entry = None => admitted = {}
  /\ entry # None => /\ entry.last <= newest
                     /\ entry.tokens <= Capacity
                     /\ 0 <= entry.tokens + Gain(entry.last, newest)
  /\ \A lo, hi \in Int :
       lo <= hi => /\ Spent(lo, hi) <= Capacity + Gain(lo, hi)
                   /\ Within(lo, hi) # {} =>
                        Spent(lo, hi) + entry.tokens
                          <= Capacity + Gain(lo, entry.last)

\* Gains are not negative over time that passes.
LEMMA GainType ==
  ASSUME NEW a \in Int, NEW b \in Int
  PROVE  /\ Gain(a, b) \in Int
         /\ a <= b => Gain(a, b) >= 0
<1> RefillRate \in Nat
  BY BucketAssumption
<1>1. Gain(a, b) \in Int
  BY DEF Gain
<1>2. ASSUME a <= b
      PROVE  Gain(a, b) >= 0
  <2>1. b - a \in Nat
    BY <1>2
  <2>2. (b - a) * RefillRate \in Nat
    BY <2>1
  <2>3. QED
    BY <2>2 DEF Gain
<1>3. QED
  BY <1>1, <1>2

\* Gains add up.
LEMMA GainAdds ==
  ASSUME NEW a \in Int, NEW b \in Int, NEW c \in Int
  PROVE  Gain(a, c) = Gain(a, b) + Gain(b, c)
<1> RefillRate \in Nat
  BY BucketAssumption
<1> QED
  BY DEF Gain

\* One request more costs one token more.
LEMMA CostOfOne ==
  ASSUME NEW n \in Nat
  PROVE  /\ Token * n \in Nat
         /\ Token * (n + 1) = Token * n + Token
         /\ Token * 0 = 0
         /\ Token * 1 = Token
BY BucketAssumption

\* What the entry e is worth at t, before the request is decided.
Level(e, t) == IF e = None THEN Capacity ELSE Refilled(TheBucket, e, t)

\* The step in terms of the level it finds: it admits if that is a token or
\* more, and stores what is left together with its timestamp.
LEMMA StepResult ==
  ASSUME NEW t \in Int, NEW e \in TokenBucketEntry \cup {None}
  PROVE  LET r == TokenBucketOp(TheBucket, e, t)
         IN  /\ Level(e, t) \in Int
             /\ Level(e, t) <= Capacity
             /\ e = None => Level(e, t) = Capacity
             /\ e # None =>
                  /\ Level(e, t) <= e.tokens + Gain(e.last, t)
                  /\ \/ Level(e, t) = Capacity
                     \/ Level(e, t) = e.tokens + Gain(e.last, t)
             /\ r.allowed \in BOOLEAN
             /\ r.allowed <=> Level(e, t) >= Token
             /\ r.entry \in TokenBucketEntry
             /\ r.entry.last = t
             /\ r.entry.tokens =
                  IF r.allowed THEN Level(e, t) - Token ELSE Level(e, t)
BY BucketAssumption, TokenBucketStep DEF Level, Gain, TheBucket

\* An execution keeps the invariant.
LEMMA ExecuteInv ==
  ASSUME IInv, NEW w \in Workers, Execute(w)
  PROVE  IInv'
<1> DEFINE result == TokenBucketOp(TheBucket, entry, now[w])
           r == NewRequest(w)
<1> PICK t : t = now[w]
  OBVIOUS
<1> PICK level : level = Level(entry, t)
  OBVIOUS
<1>1. t \in Time /\ t \in Int /\ t # None /\ newest \in Int
  BY ConfigAssumption, MaxTimeAssumption
     DEF Execute, IInv, FlowInv, FlowTypeOK, Time
<1>2. entry \in TokenBucketEntry \cup {None}
  BY DEF IInv, TypeOK
<1>3. /\ level \in Int
      /\ level <= Capacity
      /\ entry = None => level = Capacity
      /\ entry # None => /\ level <= entry.tokens + Gain(entry.last, t)
                         /\ \/ level = Capacity
                            \/ level = entry.tokens + Gain(entry.last, t)
      /\ result.allowed \in BOOLEAN
      /\ result.allowed <=> level >= Token
      /\ result.entry \in TokenBucketEntry
      /\ result.entry.last = t
      /\ result.entry.tokens = IF result.allowed THEN level - Token ELSE level
  BY <1>1, <1>2, StepResult
<1>4. entry' = result.entry /\ Respond(w, result.allowed)
  BY DEF Execute
<1>5. /\ FlowInv'
      /\ r \notin admitted
      /\ result.allowed => admitted' = admitted \cup {r}
      /\ ~result.allowed => admitted' = admitted
      /\ newest <= newest' /\ t <= newest'
      /\ newest' = newest \/ newest' = t
  BY <1>1, <1>3, <1>4, RespondInv DEF IInv
<1>6. TypeOK'
  BY <1>3, <1>4, <1>5 DEF TypeOK, FlowInv
<1>7. entry' # None /\ entry'.last = t /\ entry'.tokens \in Int
  BY <1>3, <1>4, NoneIsNoTokenBucketEntry DEF TokenBucketEntry
<1>8. entry'.tokens = IF result.allowed THEN level - Token ELSE level
  BY <1>3, <1>4
<1>9. newest' \in Int
  BY <1>5, ConfigAssumption, MaxTimeAssumption DEF FlowInv, FlowTypeOK, Time
<1>10. Token \in Nat \ {0} /\ Capacity \in Nat
  BY BucketAssumption
<1>11. entry # None => entry.tokens \in Int /\ entry.last \in Int
  BY <1>2 DEF TokenBucketEntry
<1>12. entry'.last <= newest' /\ entry'.tokens <= Capacity
  BY <1>3, <1>5, <1>7, <1>8, <1>10
<1>13. 0 <= entry'.tokens + Gain(t, newest')
  <2> PICK m \in Int : m = newest'
    BY <1>9
  <2>1. Gain(t, m) \in Int /\ Gain(t, m) >= 0
    BY <1>1, <1>5, GainType
  <2>2. CASE result.allowed \/ level >= 0
    BY <2>1, <2>2, <1>3, <1>7, <1>8, <1>10
  <2>3. CASE ~result.allowed /\ level < 0
    <3>1. entry # None /\ level = entry.tokens + Gain(entry.last, t)
      BY <2>3, <1>3, <1>10
    <3>2. 0 <= entry.tokens + Gain(entry.last, newest)
      BY <3>1 DEF IInv
    <3>3. PICK last \in Int : last = entry.last
      BY <3>1, <1>11
    <3>4. Gain(last, m) = Gain(last, t) + Gain(t, m)
      BY <1>1, GainAdds
    <3>5. Gain(last, m) = Gain(last, newest) + Gain(newest, m)
      BY <1>1, GainAdds
    <3>6. /\ Gain(newest, m) \in Int /\ Gain(newest, m) >= 0
          /\ Gain(last, newest) \in Int /\ Gain(last, t) \in Int
          /\ Gain(t, m) \in Int
      BY <1>1, <1>5, GainType
    <3>7. 0 <= level + Gain(t, m)
      BY <3>1, <3>2, <3>3, <3>4, <3>5, <3>6, <1>11
    <3>8. QED
      BY <2>3, <3>7, <1>8
  <2>4. QED
    BY <2>2, <2>3, <1>3
<1>14. ASSUME NEW lo \in Int, NEW hi \in Int, lo <= hi
       PROVE  /\ Spent(lo, hi)' <= Capacity + Gain(lo, hi)
              /\ Within(lo, hi)' # {} =>
                   Spent(lo, hi)' + entry'.tokens <= Capacity + Gain(lo, t)
  <2> DEFINE W == Within(lo, hi)
             n == Cardinality(W)
  <2>1. n \in Nat /\ IsFiniteSet(W)
    BY PartsFinite DEF IInv
  <2>2. /\ Spent(lo, hi) = Token * n
        /\ Spent(lo, hi) <= Capacity + Gain(lo, hi)
        /\ W # {} => Token * n + entry.tokens <= Capacity + Gain(lo, entry.last)
    BY <1>14 DEF IInv, Spent
  <2>3. /\ Token * n \in Nat
        /\ Token * (n + 1) = Token * n + Token
    BY <2>1, CostOfOne
  <2>4. /\ Gain(lo, hi) \in Int /\ Gain(lo, t) \in Int
        /\ Gain(t, hi) \in Int
        /\ Gain(lo, hi) = Gain(lo, t) + Gain(t, hi)
        /\ lo <= t => Gain(lo, t) >= 0
        /\ t <= hi => Gain(t, hi) >= 0
    BY <1>1, GainType, GainAdds
  <2>5. W # {} => entry # None
    BY DEF IInv, Within
  <2>6. W # {} => Token * n + level <= Capacity + Gain(lo, t)
    <3> SUFFICES ASSUME W # {}
                 PROVE  Token * n + level <= Capacity + Gain(lo, t)
      OBVIOUS
    <3> PICK last \in Int : last = entry.last
      BY <2>5, <1>11
    <3>1. /\ level <= entry.tokens + Gain(last, t)
          /\ Token * n + entry.tokens <= Capacity + Gain(lo, last)
          /\ entry.tokens \in Int
      BY <2>2, <2>5, <1>3, <1>11
    <3>2. Gain(lo, t) = Gain(lo, last) + Gain(last, t)
      BY <1>1, GainAdds
    <3>3. Gain(lo, last) \in Int /\ Gain(last, t) \in Int
      BY <1>1, GainType
    <3>4. QED
      BY <3>1, <3>2, <3>3, <2>3, <2>4, <1>3, <1>10
  <2>7. CASE ~result.allowed \/ ~(lo <= t /\ t <= hi)
    <3>1. Within(lo, hi)' = W
      BY <2>7, <1>5, <1>1 DEF Within, NewRequest
    <3>2. Spent(lo, hi)' = Token * n
      BY <3>1 DEF Spent
    <3>3. entry'.tokens <= level
      BY <1>3, <1>8, <1>10
    <3>4. QED
      BY <3>1, <3>2, <3>3, <2>2, <2>3, <2>4, <2>6, <1>3, <1>7, <1>10
  <2>8. CASE result.allowed /\ lo <= t /\ t <= hi
    <3>1. Within(lo, hi)' = W \cup {r} /\ r \notin W
      BY <2>8, <1>5, <1>1 DEF Within, NewRequest
    <3>2. Spent(lo, hi)' = Token * n + Token
      <4>1. Cardinality(W \cup {r}) = n + 1
        BY <3>1, <2>1, CountNewRequest
      <4>2. QED
        BY <3>1, <4>1, <2>3 DEF Spent
    <3>3. Token * n + level <= Capacity + Gain(lo, t)
      <4>1. CASE W = {}
        <5>1. Token * n = 0
          BY <4>1, FS_EmptySet, CostOfOne
        <5>2. QED
          BY <5>1, <2>4, <2>8, <1>3, <1>10
      <4>2. QED
        BY <4>1, <2>6
    <3>4. entry'.tokens = level - Token /\ level >= Token
      BY <2>8, <1>3, <1>8
    <3>5. QED
      BY <3>2, <3>3, <3>4, <2>3, <2>4, <2>8, <1>3, <1>10
  <2>9. QED
    BY <2>7, <2>8
<1>15. QED
  BY <1>5, <1>6, <1>7, <1>12, <1>13, <1>14 DEF IInv

\* The invariant holds initially.
LEMMA InitInv == Init => IInv
<1> SUFFICES ASSUME Init PROVE IInv
  OBVIOUS
<1>1. FlowInv
  BY FlowInitInv DEF Init
<1>2. TypeOK /\ entry = None /\ admitted = {}
  BY <1>1 DEF Init, FlowInit, TypeOK, FlowInv
<1>3. ASSUME NEW lo \in Int, NEW hi \in Int, lo <= hi
      PROVE  Spent(lo, hi) <= Capacity + Gain(lo, hi) /\ Within(lo, hi) = {}
  <2>1. Within(lo, hi) = {}
    BY <1>2 DEF Within
  <2>2. Spent(lo, hi) = 0
    BY <2>1, FS_EmptySet, CostOfOne DEF Spent
  <2>3. Gain(lo, hi) \in Int /\ Gain(lo, hi) >= 0
    BY <1>3, GainType
  <2>4. QED
    BY <2>1, <2>2, <2>3, BucketAssumption
<1>4. QED
  BY <1>1, <1>2, <1>3 DEF IInv

\* Every step keeps the invariant.
LEMMA NextInv == IInv /\ [Next]_vars => IInv'
<1> SUFFICES ASSUME IInv, [Next]_vars PROVE IInv'
  OBVIOUS
<1>1. CASE /\ Tick \/ (\E w \in Workers : ReadClock(w)) \/ UNCHANGED flow
           /\ UNCHANGED entry
  <2>1. FlowInv' /\ UNCHANGED <<admitted, newest, late>>
    BY <1>1, ClockStepInv DEF IInv
  <2>2. TypeOK'
    BY <1>1, <2>1 DEF IInv, TypeOK, FlowInv
  <2>3. QED
    BY <1>1, <2>1, <2>2 DEF IInv, Spent, Within, Gain
<1>2. ASSUME NEW w \in Workers, Execute(w)
      PROVE  IInv'
  BY <1>2, ExecuteInv
<1>3. QED
  BY <1>1, <1>2 DEF Next, vars

\* Type correctness of the limiter.
THEOREM TypeCorrect == Spec => []TypeOK
<1>1. IInv => TypeOK
  BY DEF IInv
<1>2. QED
  BY <1>1, InitInv, NextInv, PTL DEF Spec

\* Whatever the order of the steps, an interval spends no more than a full
\* bucket and what the interval refills.
THEOREM BurstPlusRate == Spec => []BurstPlusRateBound
<1>1. IInv => BurstPlusRateBound
  <2>1. Time \subseteq Int
    BY MaxTimeAssumption DEF Time
  <2>2. QED
    BY <2>1 DEF IInv, BurstPlusRateBound, Spent, Gain
<1>2. QED
  BY <1>1, InitInv, NextInv, PTL DEF Spec

\* A late step's debt is covered by the refill up to the newest timestamp,
\* and the bucket never overflows.
THEOREM DebtBacked == Spec => []DebtIsBacked
<1>1. IInv => DebtIsBacked
  BY DEF IInv, DebtIsBacked, Gain
<1>2. QED
  BY <1>1, InitInv, NextInv, PTL DEF Spec

\* A client that lets the time of a token pass after the newest timestamp is
\* admitted: the debt, if any, is backed by the refill up to that timestamp.
THEOREM AdmitsAfterRefillHolds == Spec => AdmitsAfterRefill
<1>1. ASSUME IInv, [Next]_vars, NEW w \in Workers,
             Capacity >= Token, newest # -1, now[w] # None, now'[w] = None,
             (now[w] - newest) * RefillRate >= Token
      PROVE  Admits(w)
  <2> DEFINE result == TokenBucketOp(TheBucket, entry, now[w])
  <2>1. Execute(w)
    <3>1. ~UNCHANGED vars
      BY <1>1 DEF vars, flow
    <3>2. ~Tick /\ ~(\E v \in Workers : ReadClock(v))
      BY <1>1 DEF Tick, ReadClock, IInv, FlowInv, FlowTypeOK
    <3>3. PICK v \in Workers : Execute(v)
      BY <1>1, <3>1, <3>2 DEF Next
    <3>4. v = w
      BY <1>1, <3>3 DEF Execute, Respond, IInv, FlowInv, FlowTypeOK
    <3>5. QED
      BY <3>3, <3>4
  <2>2. PICK t \in Int : t = now[w]
    BY <1>1, MaxTimeAssumption DEF IInv, FlowInv, FlowTypeOK, Time
  <2>3. PICK new \in Int : new = newest
    BY <1>1, MaxTimeAssumption DEF IInv, FlowInv, FlowTypeOK, Time
  <2>4. entry \in TokenBucketEntry \cup {None}
    BY <1>1 DEF IInv, TypeOK
  <2>5. Gain(new, t) >= Token
    BY <1>1, <2>2, <2>3 DEF Gain
  <2>6. PICK level : level = Level(entry, t)
    OBVIOUS
  <2>7. /\ level \in Int
        /\ entry = None => level = Capacity
        /\ entry # None => \/ level = Capacity
                           \/ level = entry.tokens + Gain(entry.last, t)
        /\ result.allowed \in BOOLEAN
        /\ result.allowed <=> level >= Token
    BY <2>2, <2>4, <2>6, StepResult
  <2>8. level >= Token
    <3>1. CASE level = Capacity
      BY <1>1, <3>1
    <3>2. CASE entry # None /\ level = entry.tokens + Gain(entry.last, t)
      <4>1. entry.tokens \in Int
        BY <2>4, <3>2 DEF TokenBucketEntry
      <4>2. PICK last \in Int : last = entry.last
        BY <2>4, <3>2 DEF TokenBucketEntry
      <4>3. 0 <= entry.tokens + Gain(last, new)
        BY <1>1, <2>3, <3>2, <4>2 DEF IInv
      <4>4. Gain(last, t) = Gain(last, new) + Gain(new, t)
        BY GainAdds
      <4>5. Gain(last, new) \in Int /\ Gain(new, t) \in Int
        BY GainType
      <4>6. QED
        BY <2>5, <3>2, <4>1, <4>2, <4>3, <4>4, <4>5, BucketAssumption
    <3>3. QED
      BY <2>7, <3>1, <3>2
  <2>9. Respond(w, result.allowed) /\ result.allowed
    BY <2>1, <2>7, <2>8 DEF Execute
  <2>10. admitted' = admitted \cup {NewRequest(w)} /\ NewRequest(w) \notin admitted
    BY <1>1, <2>7, <2>9, RespondInv DEF IInv
  <2>11. QED
    BY <1>1, <2>10 DEF Admits
<1>2. IInv /\ [Next]_vars => [\A w \in Workers :
         /\ Capacity >= Token
         /\ newest # -1
         /\ now[w] # None /\ now'[w] = None
         /\ (now[w] - newest) * RefillRate >= Token
         => Admits(w)]_vars
  BY <1>1
<1>3. QED
  BY <1>2, InitInv, NextInv, PTL DEF Spec, AdmitsAfterRefill

=============================================================================
