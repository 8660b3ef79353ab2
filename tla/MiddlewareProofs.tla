--------------------------- MODULE MiddlewareProofs ---------------------------
(***************************************************************************)
(* Theorems about the demo app, for every number of instances and senders, *)
(* every limit and window, and every length of a second: its variables     *)
(* keep their types; Redis answers as memory would, though its scripts are *)
(* written anew and its keys expire; a window lets through one share; and  *)
(* who heeds Retry-After is let in.                                        *)
(***************************************************************************)
EXTENDS Middleware, FiniteSetTheorems, TLAPS

\* What an entry of algorithm a may be when its last step ran at the server's
\* time s: it tells of nothing later than s, and a bucket's debt is one that
\* the refill until s has paid.
Backed(a, e, s) ==
  CASE a = "fixed_window"           -> e \in FixedWindowEntry /\ e.w <= WindowOf(s)
    [] a = "sliding_window_log"     -> \A x \in e : x.t \in Int /\ x.t <= s
    [] a = "sliding_window_counter" -> e \in SlidingCounterEntry /\ e.w <= WindowOf(s)
    [] a = "token_bucket"           -> /\ e \in TokenBucketEntry
                                       /\ e.tokens <= Limit * Window
                                       /\ e.tokens + (s - e.last) * Limit >= 0

\* What the steps leave of the entry e of algorithm a, when the newest of their
\* timestamps is m: no count exceeds the limit, the numbers of the stamps of an
\* instant are the first ones, and the refill until m has paid a bucket's debt.
Sound(a, e, m) ==
  CASE a = "fixed_window"           -> e \in FixedWindowEntry /\ e.c <= Limit
    [] a = "sliding_window_log"     ->
         /\ e \in Logs /\ IsFiniteSet(e) /\ Cardinality(e) <= Limit
         /\ \A x \in e : x.n <= Cardinality({y \in e : y.t = x.t})
    [] a = "sliding_window_counter" ->
         e \in SlidingCounterEntry /\ e.c <= Limit /\ e.p <= Limit
    [] a = "token_bucket"           ->
         /\ e \in TokenBucketEntry
         /\ e.tokens <= Limit * Window
         /\ e.tokens + (m - e.last) * Limit >= 0

\* What a step of algorithm a at r may still admit in its window, going by the
\* entry e, in units of which Window make a request.
Room(a, e, r) ==
  CASE a = "sliding_window_log" ->
         Window * (Limit - Cardinality({x \in (IF e = None THEN {} ELSE e) :
                                          WindowOf(x.t) = WindowOf(r)}))
    [] a = "token_bucket" ->
         IF e = None THEN Limit * Window ELSE Refilled(DefaultBucket, e, r)
    [] OTHER -> Window * (Limit - CurrentCount(e, WindowOf(r)))

\* What a window may admit until r.
ShareUntil(a, r) ==
  Window * Limit + IF a = "token_bucket" THEN Elapsed(r) * Limit ELSE 0

\* The g requests let through in window w, and those that the entry e leaves
\* room for, are within a share and one limit for each of x excused steps, when
\* no other step has a timestamp below r.
Bounded(a, e, g, x, r, w) ==
  /\ w > WindowOf(r) => g = 0
  /\ w = WindowOf(r) =>
       Window * g + Room(a, e, r) <= ShareUntil(a, r) + Window * Limit * x
  /\ w < WindowOf(r) =>
       Window * g <= ShareUntil(a, Window - 1) + Window * Limit * x

\* The number a step gives the stamp it adds.
NumberOf(a, e, t) == IF a = "sliding_window_log" THEN FreshNumber(e, t) ELSE 0

-----------------------------------------------------------------------------
(* Arithmetic.                                                             *)

LEMMA CeilDivCovers ==
  ASSUME NEW x \in Nat, NEW y \in Nat \ {0}
  PROVE  CeilDiv(x, y) \in Nat /\ CeilDiv(x, y) * y >= x
<1> DEFINE q == (x + y - 1) \div y
<1>1. q \in Int /\ q * y <= x + y - 1 /\ x + y - 1 < q * y + y
  OBVIOUS
<1>2. q >= 0
  OBVIOUS
<1> HIDE DEF q
<1>3. QED
  BY <1>1, <1>2 DEF CeilDiv, q

LEMMA ProductMonotone ==
  ASSUME NEW x \in Int, NEW y \in Int, NEW l \in Nat, x <= y
  PROVE  x * l \in Int /\ y * l \in Int /\ x * l <= y * l
<1>1. PICK d \in Nat : y = x + d
  <2>1. y - x \in Nat /\ y = x + (y - x)
    OBVIOUS
  <2>2. QED
    BY <2>1
<1>2. y * l = x * l + d * l /\ d * l >= 0
  BY <1>1
<1>3. QED
  BY <1>2

LEMMA CeilSecondsCovers ==
  ASSUME NEW x \in Nat
  PROVE  CeilSeconds(x) \in Nat /\ CeilSeconds(x) >= x
BY CeilDivCovers, RedisAssumption DEF CeilSeconds

LEMMA WindowOfMonotone ==
  ASSUME NEW x \in Int, NEW y \in Int
  PROVE  /\ WindowOf(x) \in Int
         /\ x <= y => WindowOf(x) <= WindowOf(y)
         /\ x + Window <= y => WindowOf(x) + 1 <= WindowOf(y)
         /\ x + 2 * Window <= y => WindowOf(x) + 2 <= WindowOf(y)
BY ConfigAssumption DEF WindowOf

\* The bucket is full after TimeToFill.
LEMMA TimeToFillFills ==
  /\ TimeToFill(DefaultBucket) \in Nat
  /\ TimeToFill(DefaultBucket) * Limit >= Limit * Window
<1>1. Limit \in Nat \ {0} /\ Limit * Window \in Nat
  BY ConfigAssumption, RedisAssumption
<1>2. TimeToFill(DefaultBucket) = CeilDiv(Limit * Window, Limit)
  BY DEF TimeToFill, DefaultBucket
<1>3. QED
  BY <1>1, <1>2, CeilDivCovers

\* The time to live of a key exceeds the time its entry bears on others by as
\* much as Tolerance.
LEMMA TtlCovers ==
  /\ \A a \in ALGORITHMS : Ttl(a) \in Nat /\ Tolerance(a) \in Nat
  /\ Ttl("fixed_window") - Tolerance("fixed_window") >= Window
  /\ Ttl("sliding_window_log") - Tolerance("sliding_window_log") >= Window
  /\ Ttl("sliding_window_counter") - Tolerance("sliding_window_counter") >= 2 * Window
  /\ Ttl("token_bucket") - Tolerance("token_bucket") >= TimeToFill(DefaultBucket)
<1>1. Window \in Nat /\ 2 * Window \in Nat /\ Second \in Nat
  BY ConfigAssumption, RedisAssumption
<1>2. /\ CeilSeconds(Window) \in Nat /\ CeilSeconds(Window) >= Window
      /\ CeilSeconds(2 * Window) \in Nat /\ CeilSeconds(2 * Window) >= 2 * Window
  BY <1>1, CeilSecondsCovers
<1>3. /\ CeilSeconds(TimeToFill(DefaultBucket)) \in Nat
      /\ CeilSeconds(TimeToFill(DefaultBucket)) >= TimeToFill(DefaultBucket)
      /\ TimeToFill(DefaultBucket) \in Nat
  BY CeilSecondsCovers, TimeToFillFills
<1>4. QED
  BY <1>1, <1>2, <1>3 DEF Ttl, Tolerance, ALGORITHMS

-----------------------------------------------------------------------------
(* The steps.                                                              *)

\* A step that runs at c, with an earlier timestamp, leaves a backed entry.
LEMMA StepBacks ==
  ASSUME NEW a \in ALGORITHMS, NEW e, NEW s \in Int, NEW c \in Int, s <= c,
         e = None \/ Backed(a, e, s), NEW t \in Int, t <= c, NEW n
  PROVE  Backed(a, Step(a, e, t, n).entry, c)
<1>w. WindowOf(t) \in Int /\ WindowOf(t) <= WindowOf(c)
  BY WindowOfMonotone
<1>1. CASE a = "fixed_window"
  <2>1. e = None \/ e \in FixedWindowEntry
    BY <1>1 DEF Backed
  <2>2. CurrentCount(e, WindowOf(t)) \in Nat
    BY <2>1 DEF CurrentCount, FixedWindowEntry
  <2> DEFINE f == FixedWindowOp(e, t).entry
  <2>3. f \in FixedWindowEntry /\ f.w = WindowOf(t)
    BY <2>2, <1>w DEF FixedWindowOp, Result, FixedWindowEntry
  <2>4. Step(a, e, t, n).entry = f
    BY <1>1 DEF Step
  <2> HIDE DEF f
  <2>5. QED
    BY <1>1, <1>w, <2>3, <2>4 DEF Backed
<1>2. CASE a = "sliding_window_log"
  <2> DEFINE log == IF e = None THEN {} ELSE e
             f == SlidingLogOp(log, t, n).entry
  <2>1. \A x \in log : x.t \in Int /\ x.t <= c
    BY <1>2 DEF Backed
  <2>2. f = Kept(log, t) \/ f = Kept(log, t) \cup {[t |-> t, n |-> n]}
    BY DEF SlidingLogOp, Result
  <2>3. Kept(log, t) \subseteq log
    BY DEF Kept
  <2>4. Step(a, e, t, n).entry = f
    BY <1>2 DEF Step
  <2> HIDE DEF f, log
  <2>5. \A x \in f : x.t \in Int /\ x.t <= c
    BY <2>1, <2>2, <2>3
  <2>6. QED
    BY <1>2, <2>4, <2>5 DEF Backed
<1>3. CASE a = "sliding_window_counter"
  <2>1. e = None \/ e \in SlidingCounterEntry
    BY <1>3 DEF Backed
  <2>2. CurrentCount(e, WindowOf(t)) \in Nat /\ PreviousCount(e, WindowOf(t)) \in Nat
    BY <2>1 DEF CurrentCount, PreviousCount, SlidingCounterEntry
  <2> DEFINE f == SlidingCounterOp(e, t).entry
  <2>3. f \in SlidingCounterEntry /\ f.w = WindowOf(t)
    BY <2>2, <1>w DEF SlidingCounterOp, Result, SlidingCounterEntry
  <2>4. Step(a, e, t, n).entry = f
    BY <1>3 DEF Step
  <2> HIDE DEF f
  <2>5. QED
    BY <1>3, <1>w, <2>3, <2>4 DEF Backed
<1>4. CASE a = "token_bucket"
  <2> DEFINE tokens == IF e = None THEN DefaultBucket.capacity
                       ELSE Refilled(DefaultBucket, e, t)
             f == TokenBucketOp(DefaultBucket, e, t).entry
  <2>1. Limit \in Nat /\ Window \in Nat /\ Limit * Window \in Nat
    BY ConfigAssumption
  <2>2. (c - t) * Limit \in Nat
    BY <2>1
  <2>3. tokens \in Int /\ tokens <= Limit * Window /\ tokens + (c - t) * Limit >= 0
    <3>1. CASE e = None
      BY <3>1, <2>1, <2>2 DEF DefaultBucket
    <3>2. CASE e # None
      <4>1. /\ e.tokens \in Int /\ e.last \in Int
            /\ e.tokens + (s - e.last) * Limit >= 0
        BY <1>4, <3>2 DEF Backed, TokenBucketEntry
      <4> DEFINE r == e.tokens + (t - e.last) * Limit
      <4>2. r \in Int
        BY <4>1, <2>1
      <4>3. (s - e.last) * Limit <= (c - e.last) * Limit
        BY <4>1, <2>1, ProductMonotone
      <4>4. (c - e.last) * Limit = (t - e.last) * Limit + (c - t) * Limit
        BY <4>1, <2>1
      <4>5. r + (c - t) * Limit >= 0
        BY <4>1, <4>3, <4>4, <2>1
      <4>6. tokens = IF r > Limit * Window THEN Limit * Window ELSE r
        BY <3>2 DEF Refilled, Capped, DefaultBucket
      <4> HIDE DEF r, tokens
      <4>7. QED
        BY <4>2, <4>5, <4>6, <2>1, <2>2
    <3>3. QED
      BY <3>1, <3>2
  <2>4. /\ f = [tokens |-> IF tokens >= Window THEN tokens - Window ELSE tokens,
                last |-> t]
    BY DEF TokenBucketOp, Result, DefaultBucket
  <2>5. Step(a, e, t, n).entry = f
    BY <1>4 DEF Step
  <2> HIDE DEF f, tokens
  <2>6. f \in TokenBucketEntry /\ f.tokens <= Limit * Window
        /\ f.tokens + (c - f.last) * Limit >= 0
    BY <2>1, <2>2, <2>3, <2>4 DEF TokenBucketEntry
  <2>7. QED
    BY <1>4, <2>5, <2>6 DEF Backed
<1>5. QED
  BY <1>1, <1>2, <1>3, <1>4 DEF ALGORITHMS

\* A script does what its Python twin does.
LEMMA ScriptIsStep ==
  ASSUME NEW a \in ALGORITHMS, NEW e, NEW s \in Int, e = None \/ Backed(a, e, s),
         NEW t \in Int, NEW n
  PROVE  Script(a, e, t, n) = Step(a, e, t, n)
<1>1. CASE a = "fixed_window"
  <2>1. FixedWindowScript(e, t) = FixedWindowOp(e, t)
    BY DEF FixedWindowScript, FixedWindowOp, CurrentCount
  <2>2. QED
    BY <1>1, <2>1 DEF Script, Step
<1>2. CASE a = "sliding_window_log"
  <2> DEFINE zset == IF e = None THEN {} ELSE e
  <2>1. \A x \in zset : x.t \in Int
    BY <1>2 DEF Backed
  <2>2. zset \ {x \in zset : x.t <= t - Window} = Kept(zset, t)
    BY <2>1, ConfigAssumption DEF Kept
  <2>3. SlidingLogScript(e, t, n) = SlidingLogOp(zset, t, n)
    BY <2>2 DEF SlidingLogScript, SlidingLogOp
  <2>4. QED
    BY <1>2, <2>3 DEF Script, Step
<1>3. CASE a = "sliding_window_counter"
  <2>1. WindowOf(t) \in Int
    BY WindowOfMonotone
  <2>2. SlidingCounterScript(e, t) = SlidingCounterOp(e, t)
    BY <2>1 DEF SlidingCounterScript, SlidingCounterOp, CurrentCount, PreviousCount
  <2>3. QED
    BY <1>3, <2>2 DEF Script, Step
<1>4. CASE a = "token_bucket"
  <2> DEFINE full == [tokens |-> DefaultBucket.capacity, last |-> t]
  <2>1. Limit \in Nat /\ Limit * Window \in Int
    BY ConfigAssumption
  <2>2. Refilled(DefaultBucket, full, t) = DefaultBucket.capacity
    BY <2>1 DEF Refilled, Capped, DefaultBucket
  <2>3. TokenBucketScript(DefaultBucket, e, t) = TokenBucketOp(DefaultBucket, e, t)
    BY <2>2 DEF TokenBucketScript, TokenBucketOp
  <2>4. QED
    BY <1>4, <2>3 DEF Script, Step
<1>5. QED
  BY <1>1, <1>2, <1>3, <1>4 DEF ALGORITHMS

\* A bucket whose key has expired is full.
LEMMA ExpiredBucketIsFull ==
  ASSUME NEW e, NEW s \in Int, Backed("token_bucket", e, s),
         NEW t \in Int, t >= s + Ttl("token_bucket") - Tolerance("token_bucket")
  PROVE  Refilled(DefaultBucket, e, t) = Limit * Window
<1> DEFINE fill == TimeToFill(DefaultBucket)
           r == e.tokens + (t - e.last) * Limit
<1>c. Ttl("token_bucket") \in Nat /\ Tolerance("token_bucket") \in Nat
  BY TtlCovers DEF ALGORITHMS
<1>1. Limit \in Nat /\ Limit * Window \in Nat /\ fill \in Nat
      /\ fill * Limit >= Limit * Window
  BY ConfigAssumption, TimeToFillFills
<1>2. fill <= t - s
  BY <1>c, <1>1, TtlCovers
<1>3. fill * Limit <= (t - s) * Limit
  BY <1>1, <1>2, ProductMonotone
<1>4. /\ e.tokens \in Int /\ e.last \in Int
      /\ e.tokens + (s - e.last) * Limit >= 0
  BY DEF Backed, TokenBucketEntry
<1>5. (t - e.last) * Limit = (t - s) * Limit + (s - e.last) * Limit
  BY <1>1, <1>4
<1>6. r \in Int /\ r >= Limit * Window
  BY <1>1, <1>3, <1>4, <1>5
<1>7. Refilled(DefaultBucket, e, t) = IF r > Limit * Window THEN Limit * Window ELSE r
  BY DEF Refilled, Capped, DefaultBucket
<1> HIDE DEF r
<1>8. QED
  BY <1>1, <1>6, <1>7

\* Once it has expired, a backed entry means no more than none.
LEMMA ExpiredMeansNothing ==
  ASSUME NEW a \in ALGORITHMS, NEW e, NEW s \in Int, Backed(a, e, s),
         NEW t \in Int, t >= s + Ttl(a) - Tolerance(a)
  PROVE  Step(a, e, t, 1) = Step(a, None, t, 1)
<1>w. Window \in Nat /\ WindowOf(s) \in Int /\ WindowOf(t) \in Int
  BY WindowOfMonotone, ConfigAssumption
<1>c. Ttl(a) \in Nat /\ Tolerance(a) \in Nat
  BY TtlCovers
<1>1. CASE a = "fixed_window"
  <2>1. s + Window <= t
    BY <1>1, <1>w, <1>c, TtlCovers
  <2>2. WindowOf(s) + 1 <= WindowOf(t)
    BY <2>1, WindowOfMonotone
  <2>3. e.w \in Int /\ e.w <= WindowOf(s)
    BY <1>1 DEF Backed, FixedWindowEntry
  <2>4. CurrentCount(e, WindowOf(t)) = CurrentCount(None, WindowOf(t))
    BY <1>w, <2>2, <2>3 DEF CurrentCount
  <2>5. QED
    BY <1>1, <2>4 DEF Step, FixedWindowOp
<1>2. CASE a = "sliding_window_log"
  <2>1. s + Window <= t
    BY <1>2, <1>w, <1>c, TtlCovers
  <2>2. \A x \in e : x.t \in Int /\ x.t <= s
    BY <1>2 DEF Backed
  <2>3. \A x \in e : ~(x.t > t - Window)
    BY <1>w, <2>1, <2>2
  <2>4. Kept(e, t) = {} /\ Kept({}, t) = {}
    BY <2>3 DEF Kept
  <2>5. SlidingLogOp(e, t, 1) = SlidingLogOp({}, t, 1)
    BY <2>4 DEF SlidingLogOp
  <2>6. QED
    BY <1>2, <2>5 DEF Step
<1>3. CASE a = "sliding_window_counter"
  <2>1. s + 2 * Window <= t
    BY <1>3, <1>w, <1>c, TtlCovers
  <2>2. WindowOf(s) + 2 <= WindowOf(t)
    BY <2>1, WindowOfMonotone
  <2>3. e.w \in Int /\ e.w <= WindowOf(s)
    BY <1>3 DEF Backed, SlidingCounterEntry
  <2>4. e.w # WindowOf(t) /\ e.w # WindowOf(t) - 1
    BY <1>w, <2>2, <2>3
  <2>5. /\ CurrentCount(e, WindowOf(t)) = CurrentCount(None, WindowOf(t))
        /\ PreviousCount(e, WindowOf(t)) = PreviousCount(None, WindowOf(t))
    BY <2>4 DEF CurrentCount, PreviousCount
  <2>6. QED
    BY <1>3, <2>5 DEF Step, SlidingCounterOp
<1>4. CASE a = "token_bucket"
  <2>7. e # None => Refilled(DefaultBucket, e, t) = DefaultBucket.capacity
    BY <1>4, ExpiredBucketIsFull DEF DefaultBucket
  <2>8. TokenBucketOp(DefaultBucket, e, t) = TokenBucketOp(DefaultBucket, None, t)
    BY <2>7 DEF TokenBucketOp
  <2>9. QED
    BY <1>4, <2>8 DEF Step
<1>5. QED
  BY <1>1, <1>2, <1>3, <1>4 DEF ALGORITHMS

-----------------------------------------------------------------------------
(* What a step leaves room for.                                            *)

\* A timestamp lies in its window, at an offset smaller than Window.
LEMMA WindowAndOffset ==
  ASSUME NEW t \in Int
  PROVE  /\ WindowOf(t) \in Int
         /\ Elapsed(t) \in 0..Window - 1
         /\ t = WindowOf(t) * Window + Elapsed(t)
<1>0. PICK W \in Nat \ {0} : W = Window
  BY ConfigAssumption
<1>1. t \div W \in Int /\ W * (t \div W) <= t /\ t < W * (t \div W) + W
  BY SMTT(30)
<1>2. PICK k \in Int : k = t \div W
  BY <1>1
<1>3. W * k \in Int /\ k * W = W * k
  OBVIOUS
<1>4. /\ W * k <= t /\ t < W * k + W
      /\ Elapsed(t) = t - k * W
  BY <1>0, <1>1, <1>2 DEF Elapsed, WindowOf
<1>5. Elapsed(t) \in 0..W - 1 /\ t = k * W + Elapsed(t)
  BY <1>3, <1>4
<1>6. QED
  BY <1>0, <1>2, <1>5 DEF WindowOf

\* The counts that an entry tells of a window are no greater than the limit.
LEMMA CountsBounded ==
  ASSUME NEW a \in {"fixed_window", "sliding_window_counter"}, NEW e, NEW m,
         e = None \/ Sound(a, e, m), NEW k
  PROVE  /\ CurrentCount(e, k) \in 0..Limit
         /\ a = "sliding_window_counter" => PreviousCount(e, k) \in 0..Limit
<1>0. Limit \in Nat
  BY ConfigAssumption
<1>1. e # None => e.c \in 0..Limit
  <2>1. CASE a = "fixed_window"
    BY <1>0, <2>1 DEF Sound, FixedWindowEntry
  <2>2. CASE a = "sliding_window_counter"
    BY <1>0, <2>2 DEF Sound, SlidingCounterEntry
  <2>3. QED
    BY <2>1, <2>2
<1>2. e # None /\ a = "sliding_window_counter" => e.p \in 0..Limit
  BY <1>0 DEF Sound, SlidingCounterEntry
<1>3. QED
  BY <1>0, <1>1, <1>2 DEF CurrentCount, PreviousCount

\* The step of the Fixed Window Counter, in terms of the count it finds.
LEMMA FixedWindowOutcome ==
  ASSUME NEW e, NEW m, e = None \/ Sound("fixed_window", e, m), NEW t \in Int, NEW n
  PROVE  LET r == Step("fixed_window", e, t, n)
             count == CurrentCount(e, WindowOf(t))
         IN  /\ r.allowed \in BOOLEAN /\ (r.allowed <=> count < Limit)
             /\ r.entry \in FixedWindowEntry
             /\ r.entry.w = WindowOf(t)
             /\ r.entry.c = IF r.allowed THEN count + 1 ELSE count
<1> PICK count : count = CurrentCount(e, WindowOf(t))
  OBVIOUS
<1>0. CurrentCount(e, WindowOf(t)) \in 0..Limit
  BY CountsBounded
<1>1. count \in Nat /\ WindowOf(t) \in Int /\ Limit \in Nat
  BY <1>0, WindowAndOffset, ConfigAssumption
<1> PICK yes \in BOOLEAN : yes <=> count < Limit
  OBVIOUS
<1>2. (count < Limit) = yes
  OBVIOUS
<1>3. Step("fixed_window", e, t, n)
        = [entry |-> [w |-> WindowOf(t), c |-> IF yes THEN count + 1 ELSE count],
           allowed |-> yes]
  BY <1>2 DEF Step, FixedWindowOp, Result, Permits
<1>4. [w |-> WindowOf(t), c |-> IF yes THEN count + 1 ELSE count] \in FixedWindowEntry
  BY <1>1 DEF FixedWindowEntry
<1>5. QED
  BY <1>3, <1>4

\* That of the Sliding Window Counter, in terms of the counts it finds.
LEMMA SlidingCounterOutcome ==
  ASSUME NEW e, NEW m, e = None \/ Sound("sliding_window_counter", e, m),
         NEW t \in Int, NEW n
  PROVE  LET r == Step("sliding_window_counter", e, t, n)
             cc == CurrentCount(e, WindowOf(t))
             pc == PreviousCount(e, WindowOf(t))
         IN  /\ r.allowed \in BOOLEAN /\ (r.allowed <=> Estimate(cc, pc, t) < Limit * Window)
             /\ r.allowed => cc < Limit
             /\ r.entry \in SlidingCounterEntry
             /\ r.entry.w = WindowOf(t) /\ r.entry.p = pc
             /\ r.entry.c = IF r.allowed THEN cc + 1 ELSE cc
<1> PICK cc : cc = CurrentCount(e, WindowOf(t))
  OBVIOUS
<1> PICK pc : pc = PreviousCount(e, WindowOf(t))
  OBVIOUS
<1>0. CurrentCount(e, WindowOf(t)) \in 0..Limit /\ PreviousCount(e, WindowOf(t)) \in 0..Limit
  BY CountsBounded
<1>1. cc \in Nat /\ pc \in Nat /\ WindowOf(t) \in Int /\ Limit \in Nat /\ Window \in Nat \ {0}
  BY <1>0, WindowAndOffset, ConfigAssumption
<1> PICK yes \in BOOLEAN : yes <=> Estimate(cc, pc, t) < Limit * Window
  OBVIOUS
<1>2. (Estimate(cc, pc, t) < Limit * Window) = yes
  OBVIOUS
<1>3. Step("sliding_window_counter", e, t, n)
        = [entry |-> [w |-> WindowOf(t), c |-> IF yes THEN cc + 1 ELSE cc, p |-> pc],
           allowed |-> yes]
  BY <1>2 DEF Step, SlidingCounterOp, Result
<1>4. [w |-> WindowOf(t), c |-> IF yes THEN cc + 1 ELSE cc, p |-> pc] \in SlidingCounterEntry
  BY <1>1 DEF SlidingCounterEntry
<1>5. yes => cc < Limit
  <2>1. PICK left \in Nat : left = Window - Elapsed(t)
    BY <1>1, WindowAndOffset
  <2>2. pc * left \in Nat /\ cc * Window \in Nat /\ Limit * Window \in Nat
    BY <1>1, <2>1
  <2>3. Estimate(cc, pc, t) = pc * left + cc * Window
    BY <2>1 DEF Estimate
  <2>4. cc >= Limit => cc * Window >= Limit * Window
    BY <1>1, ProductMonotone
  <2>5. QED
    BY <1>1, <2>2, <2>3, <2>4
<1>6. QED
  BY <1>3, <1>4, <1>5

\* That of the Sliding Window Log, in terms of the stamps it keeps.
LEMMA SlidingLogOutcome ==
  ASSUME NEW e, NEW m, e = None \/ Sound("sliding_window_log", e, m), NEW t \in Int, NEW n
  PROVE  LET r == Step("sliding_window_log", e, t, n)
             kept == Kept(IF e = None THEN {} ELSE e, t)
         IN  /\ r.allowed \in BOOLEAN /\ (r.allowed <=> Cardinality(kept) < Limit)
             /\ r.entry = IF r.allowed THEN kept \cup {[t |-> t, n |-> n]} ELSE kept
<1> PICK kept : kept = Kept(IF e = None THEN {} ELSE e, t)
  OBVIOUS
<1> PICK yes \in BOOLEAN : yes <=> Cardinality(kept) < Limit
  OBVIOUS
<1>1. (Cardinality(kept) < Limit) = yes
  OBVIOUS
<1>2. Step("sliding_window_log", e, t, n)
        = [entry |-> IF yes THEN kept \cup {[t |-> t, n |-> n]} ELSE kept, allowed |-> yes]
  BY <1>1 DEF Step, SlidingLogOp, Result, Permits
<1>3. QED
  BY <1>2

\* That of the Token Bucket, in terms of what it finds in the bucket.
LEMMA TokenBucketOutcome ==
  ASSUME NEW e, NEW m, e = None \/ Sound("token_bucket", e, m), NEW t \in Int, NEW n
  PROVE  LET r == Step("token_bucket", e, t, n)
             tokens == Room("token_bucket", e, t)
         IN  /\ tokens \in Int /\ tokens <= Limit * Window
             /\ e # None => tokens <= e.tokens + (t - e.last) * Limit
             /\ e # None => \/ tokens = Limit * Window
                            \/ tokens = e.tokens + (t - e.last) * Limit
             /\ r.allowed \in BOOLEAN /\ (r.allowed <=> tokens >= Window)
             /\ r.entry \in TokenBucketEntry
             /\ r.entry.last = t
             /\ r.entry.tokens = IF r.allowed THEN tokens - Window ELSE tokens
<1> PICK tokens : tokens = Room("token_bucket", e, t)
  OBVIOUS
<1>0. Limit * Window \in Int /\ Window \in Int /\ Limit \in Int
  BY ConfigAssumption
<1>1. /\ tokens \in Int /\ tokens <= Limit * Window
      /\ e # None => tokens <= e.tokens + (t - e.last) * Limit
      /\ e # None => \/ tokens = Limit * Window
                     \/ tokens = e.tokens + (t - e.last) * Limit
  <2>1. CASE e = None
    BY <2>1, <1>0 DEF Room
  <2>2. CASE e # None
    <3>1. PICK x \in Int : x = e.tokens + (t - e.last) * Limit
      BY <2>2, <1>0 DEF Sound, TokenBucketEntry
    <3>2. tokens = IF x > Limit * Window THEN Limit * Window ELSE x
      BY <2>2, <3>1 DEF Room, Refilled, Capped, DefaultBucket
    <3>3. QED
      BY <3>1, <3>2, <1>0
  <2>3. QED
    BY <2>1, <2>2
<1> PICK yes \in BOOLEAN : yes <=> tokens >= Window
  OBVIOUS
<1>2. (tokens >= Window) = yes
  OBVIOUS
<1>3. Step("token_bucket", e, t, n)
        = [entry |-> [tokens |-> IF yes THEN tokens - Window ELSE tokens, last |-> t],
           allowed |-> yes]
  BY <1>2 DEF Step, TokenBucketOp, Result, DefaultBucket, Room
<1>4. [tokens |-> IF yes THEN tokens - Window ELSE tokens, last |-> t] \in TokenBucketEntry
  BY <1>0, <1>1 DEF TokenBucketEntry
<1>5. QED
  BY <1>1, <1>3, <1>4

\* A verdict is yes or no.
LEMMA AllowedType ==
  ASSUME NEW a \in ALGORITHMS, NEW e, NEW m, e = None \/ Sound(a, e, m), NEW t \in Int, NEW n
  PROVE  Step(a, e, t, n).allowed \in BOOLEAN
<1>1. CASE a = "fixed_window"
  BY <1>1, FixedWindowOutcome
<1>2. CASE a = "sliding_window_log"
  BY <1>2, SlidingLogOutcome
<1>3. CASE a = "sliding_window_counter"
  BY <1>3, SlidingCounterOutcome
<1>4. CASE a = "token_bucket"
  BY <1>4, TokenBucketOutcome
<1>5. QED
  BY <1>1, <1>2, <1>3, <1>4 DEF ALGORITHMS

\* The entry keeps sound.
LEMMA StepSound ==
  ASSUME NEW a \in ALGORITHMS, NEW e, NEW m \in Int, e = None \/ Sound(a, e, m),
         NEW t \in Time, NEW u \in Int, m <= u, t <= u
  PROVE  LET f == Step(a, e, t, NumberOf(a, e, t)).entry
         IN  f # None /\ Sound(a, f, u)
<1> PICK n : n = NumberOf(a, e, t)
  OBVIOUS
<1> DEFINE r == Step(a, e, t, n)
<1>0. t \in Int /\ Limit \in Nat \ {0} /\ Window \in Nat \ {0} /\ Limit * Window \in Nat
  BY ConfigAssumption, RedisAssumption, MiddlewareAssumption DEF Time
<1>1. CASE a = "fixed_window"
  <2>1. CurrentCount(e, WindowOf(t)) \in 0..Limit
    BY <1>1, CountsBounded
  <2>2. /\ r.allowed <=> CurrentCount(e, WindowOf(t)) < Limit
        /\ r.entry \in FixedWindowEntry
        /\ r.entry.c = IF r.allowed THEN CurrentCount(e, WindowOf(t)) + 1
                       ELSE CurrentCount(e, WindowOf(t))
    BY <1>0, <1>1, FixedWindowOutcome
  <2> HIDE DEF r
  <2>3. r.entry.c <= Limit
    BY <2>1, <2>2, <1>0
  <2>4. Sound("fixed_window", r.entry, u)
    BY <2>2, <2>3 DEF Sound
  <2>5. QED
    BY <1>1, <2>2, <2>4, NoneIsNoFixedWindowEntry DEF r
<1>2. CASE a = "sliding_window_log"
  <2> DEFINE log == IF e = None THEN {} ELSE e
             kept == Kept(log, t)
             new == [t |-> t, n |-> n]
             Same(S, x) == {y \in S : y.t = x.t}
  <2>1. /\ log \in Logs /\ IsFiniteSet(log) /\ Cardinality(log) <= Limit
        /\ \A x \in log : x.n <= Cardinality(Same(log, x))
    <3>1. CASE e = None
      BY <3>1, <1>0, FS_EmptySet DEF Logs
    <3>2. CASE e # None
      BY <3>2, <1>2 DEF Sound
    <3>3. QED
      BY <3>1, <3>2
  <2>2. n = 1 + Cardinality({y \in log : y.t = t})
    <3>1. CASE e = None
      BY <3>1, <1>2, FS_EmptySet DEF NumberOf, FreshNumber
    <3>2. CASE e # None
      BY <3>2, <1>2 DEF NumberOf, FreshNumber
    <3>3. QED
      BY <3>1, <3>2
  <2>3. /\ r.allowed \in BOOLEAN /\ (r.allowed <=> Cardinality(kept) < Limit)
        /\ r.entry = IF r.allowed THEN kept \cup {new} ELSE kept
    BY <1>0, <1>2, SlidingLogOutcome
  <2> HIDE DEF log, r
  <2>4. kept \subseteq log /\ \A x \in log : x.t \in Int
    BY <2>1, MiddlewareAssumption DEF Kept, Logs, Time
  <2>5. IsFiniteSet(kept) /\ Cardinality(kept) \in Nat /\ Cardinality(kept) <= Limit
    <3>1. IsFiniteSet(kept) /\ Cardinality(kept) <= Cardinality(log)
      BY <2>1, <2>4, FS_Subset
    <3>2. Cardinality(kept) \in Nat /\ Cardinality(log) \in Nat
      BY <3>1, <2>1, FS_CardinalityType
    <3>3. QED
      BY <3>1, <3>2, <2>1, <1>0
  <2>6. \A x \in kept : Same(kept, x) = Same(log, x)
    BY <2>4 DEF Kept
  <2>7. Sound("sliding_window_log", kept, u)
    BY <2>1, <2>4, <2>5, <2>6 DEF Sound, Logs
  <2>8. CASE ~r.allowed
    BY <1>2, <2>3, <2>7, <2>8, NoneIsNoLog DEF r, Sound
  <2>9. CASE r.allowed
    <3> DEFINE at_t == {y \in kept : y.t = t}
               all == kept \cup {new}
    <3>1. {y \in log : y.t = t} = at_t
      BY <1>0, <2>4, ConfigAssumption DEF Kept
    <3>2. IsFiniteSet(at_t) /\ Cardinality(at_t) \in Nat /\ Cardinality(at_t) <= Cardinality(kept)
      BY <2>5, FS_Subset, FS_CardinalityType
    <3>3. n = 1 + Cardinality(at_t)
      BY <2>2, <3>1
    <3>4. n \in 1..Limit
      BY <2>3, <2>5, <2>9, <3>2, <3>3, <1>0
    <3>5. new \in [t : Time, n : 1..Limit] /\ new.t = t /\ new.n = n
      BY <3>4
    <3>6. new \notin kept
      <4>1. ASSUME new \in kept PROVE FALSE
        <5>1. new.n <= Cardinality(Same(log, new))
          BY <2>1, <2>4, <4>1
        <5>2. Same(log, new) = at_t
          BY <3>1, <3>5
        <5>3. n <= Cardinality(at_t)
          BY <5>1, <5>2, <3>5
        <5>4. QED
          BY <5>3, <3>2, <3>3
      <4>2. QED
        BY <4>1
    <3>7. /\ IsFiniteSet(all) /\ Cardinality(all) = Cardinality(kept) + 1
          /\ Cardinality(all) <= Limit
      <4>1. IsFiniteSet(all) /\ Cardinality(all) = Cardinality(kept) + 1
        BY <2>5, <3>6, FS_AddElement
      <4>2. QED
        BY <4>1, <2>3, <2>5, <2>9, <1>0
    <3>8. ASSUME NEW x \in all PROVE x.n <= Cardinality(Same(all, x))
      <4>1. IsFiniteSet(Same(all, x))
        BY <3>7, FS_Subset
      <4>2. CASE x.t = t
        <5>1. Same(all, x) = at_t \cup {new} /\ new \notin at_t
          BY <3>5, <3>6, <4>2
        <5>2. Cardinality(Same(all, x)) = Cardinality(at_t) + 1
          BY <5>1, <3>2, FS_AddElement
        <5>3. CASE x = new
          BY <5>2, <5>3, <3>2, <3>3, <3>5
        <5>4. CASE x \in kept
          <6>1. x.n <= Cardinality(Same(log, x)) /\ Same(log, x) = at_t /\ x.n \in Int
            BY <2>1, <2>4, <3>1, <4>2, <5>4, <1>0 DEF Logs
          <6>2. x.n <= Cardinality(at_t)
            BY <6>1
          <6>3. PICK p \in Nat : p = Cardinality(at_t)
            BY <3>2
          <6>4. x.n \in Int /\ x.n <= p /\ Cardinality(Same(all, x)) = p + 1
            BY <5>2, <6>1, <6>2, <6>3
          <6> HIDE DEF all, Same
          <6>5. QED
            BY <6>4
        <5>5. QED
          BY <5>3, <5>4
      <4>3. CASE x.t # t
        <5>1. x \in kept /\ Same(all, x) = Same(log, x)
          BY <2>6, <3>5, <4>3
        <5>2. QED
          BY <5>1, <2>1, <2>4
      <4>4. QED
        BY <4>2, <4>3
    <3>9. all \in Logs
      BY <2>1, <2>4, <3>5 DEF Logs
    <3>10. Sound("sliding_window_log", all, u)
      BY <3>7, <3>8, <3>9 DEF Sound
    <3>11. QED
      BY <1>2, <2>3, <2>9, <3>9, <3>10, NoneIsNoLog DEF r
  <2>10. QED
    BY <2>8, <2>9
<1>3. CASE a = "sliding_window_counter"
  <2>1. /\ CurrentCount(e, WindowOf(t)) \in 0..Limit
        /\ PreviousCount(e, WindowOf(t)) \in 0..Limit
    BY <1>3, CountsBounded
  <2>2. /\ r.allowed => CurrentCount(e, WindowOf(t)) < Limit
        /\ r.entry \in SlidingCounterEntry
        /\ r.entry.p = PreviousCount(e, WindowOf(t))
        /\ r.entry.c = IF r.allowed THEN CurrentCount(e, WindowOf(t)) + 1
                       ELSE CurrentCount(e, WindowOf(t))
    BY <1>0, <1>3, SlidingCounterOutcome
  <2> HIDE DEF r
  <2>3. r.entry.c <= Limit /\ r.entry.p <= Limit
    BY <2>1, <2>2, <1>0
  <2>4. Sound("sliding_window_counter", r.entry, u)
    BY <2>2, <2>3 DEF Sound
  <2>5. QED
    BY <1>3, <2>2, <2>4, NoneIsNoSlidingCounterEntry DEF r
<1>4. CASE a = "token_bucket"
  <2> DEFINE tokens == Room("token_bucket", e, t)
  <2>1. /\ tokens \in Int /\ tokens <= Limit * Window
        /\ e # None => \/ tokens = Limit * Window
                       \/ tokens = e.tokens + (t - e.last) * Limit
        /\ r.allowed \in BOOLEAN /\ (r.allowed <=> tokens >= Window)
        /\ r.entry \in TokenBucketEntry
        /\ r.entry.last = t
        /\ r.entry.tokens = IF r.allowed THEN tokens - Window ELSE tokens
    BY <1>0, <1>4, TokenBucketOutcome
  <2>2. e = None => tokens = Limit * Window
    BY DEF Room
  <2> HIDE DEF tokens, r
  <2>3. (u - t) * Limit \in Nat
    BY <1>0
  <2>4. tokens + (u - t) * Limit >= 0
    <3>1. CASE tokens = Limit * Window
      BY <3>1, <2>3, <1>0
    <3>2. CASE e # None /\ tokens = e.tokens + (t - e.last) * Limit
      <4>1. e.tokens \in Int /\ e.last \in Int /\ e.tokens + (m - e.last) * Limit >= 0
        BY <1>4, <3>2 DEF Sound, TokenBucketEntry
      <4>2. (m - e.last) * Limit <= (u - e.last) * Limit
        BY <4>1, <1>0, ProductMonotone
      <4>3. (u - e.last) * Limit = (t - e.last) * Limit + (u - t) * Limit
        BY <4>1, <1>0
      <4>4. (m - e.last) * Limit \in Int /\ (t - e.last) * Limit \in Int
        BY <4>1, <1>0
      <4>5. QED
        BY <3>2, <4>1, <4>2, <4>3, <4>4, <2>3
    <3>3. QED
      BY <3>1, <3>2, <2>1, <2>2
  <2>5. r.entry.tokens <= Limit * Window
    BY <2>1, <1>0
  <2>6. r.entry.tokens + (u - r.entry.last) * Limit >= 0
    BY <2>1, <2>3, <2>4, <1>0
  <2>7. Sound("token_bucket", r.entry, u)
    BY <2>1, <2>5, <2>6 DEF Sound
  <2>8. QED
    BY <1>4, <2>1, <2>7, NoneIsNoTokenBucketEntry DEF r
<1>5. QED
  BY <1>1, <1>2, <1>3, <1>4 DEF ALGORITHMS

\* The stamps of a log in one window.
Marks(e, k) == {x \in (IF e = None THEN {} ELSE e) : WindowOf(x.t) = k}

LEMMA MarksBounded ==
  ASSUME NEW e, NEW m, e = None \/ Sound("sliding_window_log", e, m), NEW k
  PROVE  IsFiniteSet(Marks(e, k)) /\ Cardinality(Marks(e, k)) \in 0..Limit
<1> DEFINE log == IF e = None THEN {} ELSE e
<1>0. Limit \in Nat
  BY ConfigAssumption
<1>1. IsFiniteSet(log) /\ Cardinality(log) <= Limit
  <2>1. CASE e = None
    BY <2>1, <1>0, FS_EmptySet
  <2>2. CASE e # None
    BY <2>2 DEF Sound
  <2>3. QED
    BY <2>1, <2>2
<1> HIDE DEF log
<1>2. Marks(e, k) \subseteq log
  BY DEF Marks, log
<1>3. /\ IsFiniteSet(Marks(e, k)) /\ Cardinality(Marks(e, k)) <= Cardinality(log)
      /\ Cardinality(Marks(e, k)) \in Nat /\ Cardinality(log) \in Nat
  BY <1>1, <1>2, FS_Subset, FS_CardinalityType
<1>4. QED
  BY <1>0, <1>1, <1>3

\* There is room for no less than nothing, and for no more than the limit.
LEMMA RoomRange ==
  ASSUME NEW a \in ALGORITHMS, NEW e, NEW m \in Int, e = None \/ Sound(a, e, m),
         NEW r \in Int, m <= r
  PROVE  /\ Room(a, e, r) \in Int
         /\ 0 <= Room(a, e, r) /\ Room(a, e, r) <= Window * Limit
<1>0. /\ Limit \in Nat \ {0} /\ Window \in Nat \ {0} /\ Limit * Window \in Nat
      /\ Window * Limit = Limit * Window
  BY ConfigAssumption, RedisAssumption
<1>1. ASSUME NEW c \in 0..Limit
      PROVE  /\ Window * (Limit - c) \in Int
             /\ 0 <= Window * (Limit - c) /\ Window * (Limit - c) <= Window * Limit
  <2>1. c * Window \in Nat
    BY <1>0
  <2>2. Window * (Limit - c) = Limit * Window - c * Window
    BY <1>0
  <2>3. c * Window <= Limit * Window
    BY <1>0, ProductMonotone
  <2>4. QED
    BY <1>0, <2>1, <2>2, <2>3
<1>2. CASE a \in {"fixed_window", "sliding_window_counter"}
  <2>1. CurrentCount(e, WindowOf(r)) \in 0..Limit
    BY <1>2, CountsBounded
  <2>2. Room(a, e, r) = Window * (Limit - CurrentCount(e, WindowOf(r)))
    BY <1>2 DEF Room
  <2>3. QED
    BY <1>1, <2>1, <2>2
<1>3. CASE a = "sliding_window_log"
  <2>1. Cardinality(Marks(e, WindowOf(r))) \in 0..Limit
    BY <1>3, MarksBounded
  <2>2. Room(a, e, r) = Window * (Limit - Cardinality(Marks(e, WindowOf(r))))
    BY <1>3 DEF Room, Marks
  <2>3. QED
    BY <1>1, <2>1, <2>2
<1>4. CASE a = "token_bucket"
  <2>1. CASE e = None
    BY <1>0, <1>4, <2>1 DEF Room
  <2>2. CASE e # None
    <3>1. e.tokens \in Int /\ e.last \in Int /\ e.tokens + (m - e.last) * Limit >= 0
      BY <1>4, <2>2 DEF Sound, TokenBucketEntry
    <3>2. (m - e.last) * Limit \in Int /\ (r - e.last) * Limit \in Int
          /\ (m - e.last) * Limit <= (r - e.last) * Limit
      BY <3>1, <1>0, ProductMonotone
    <3>3. PICK x \in Int : x = e.tokens + (r - e.last) * Limit
      BY <3>1, <3>2
    <3>4. x >= 0
      BY <3>1, <3>2, <3>3
    <3>5. Room(a, e, r) = IF x > Limit * Window THEN Limit * Window ELSE x
      BY <1>4, <2>2, <3>3 DEF Room, Refilled, Capped, DefaultBucket
    <3>6. QED
      BY <3>4, <3>5, <1>0
  <2>3. QED
    BY <2>1, <2>2
<1>5. QED
  BY <1>2, <1>3, <1>4 DEF ALGORITHMS

\* What the step of the log keeps, and adds, of a window.
LEMMA MarksStep ==
  ASSUME NEW e, NEW m \in Int, e = None \/ Sound("sliding_window_log", e, m),
         NEW t \in Time, NEW k \in Int
  PROVE  LET r == Step("sliding_window_log", e, t, NumberOf("sliding_window_log", e, t))
         IN  /\ k = WindowOf(t) =>
                  Cardinality(Marks(e, k)) + (IF r.allowed THEN 1 ELSE 0)
                    <= Cardinality(Marks(r.entry, k))
             /\ r.entry # None /\ Sound("sliding_window_log", r.entry, IF t > m THEN t ELSE m)
<1> PICK n : n = NumberOf("sliding_window_log", e, t)
  OBVIOUS
<1> DEFINE r == Step("sliding_window_log", e, t, n)
           log == IF e = None THEN {} ELSE e
           kept == Kept(log, t)
           new == [t |-> t, n |-> n]
           u == IF t > m THEN t ELSE m
           A == Marks(e, k)
           B == Marks(r.entry, k)
<1>0. t \in Int /\ u \in Int /\ m <= u /\ t <= u
  BY MiddlewareAssumption DEF Time
<1>1. r.entry # None /\ Sound("sliding_window_log", r.entry, u)
  BY <1>0, StepSound DEF ALGORITHMS
<1>2. /\ r.allowed \in BOOLEAN
      /\ r.entry = IF r.allowed THEN kept \cup {new} ELSE kept
  BY <1>0, SlidingLogOutcome
<1>3. \A x \in log : x.t \in Int
  BY MiddlewareAssumption DEF Sound, Logs, Time
<1> HIDE DEF r, u
<1>4. ASSUME k = WindowOf(t)
      PROVE  Cardinality(A) + (IF r.allowed THEN 1 ELSE 0) <= Cardinality(B)
  <2>1. \A x \in log : WindowOf(x.t) = k => x.t > t - Window
    <3> SUFFICES ASSUME NEW x \in log, WindowOf(x.t) = k, ~(x.t > t - Window)
                 PROVE  FALSE
      OBVIOUS
    <3>1. x.t \in Int /\ x.t + Window <= t
      BY <1>0, <1>3, ConfigAssumption
    <3>2. WindowOf(x.t) + 1 <= WindowOf(t)
      BY <3>1, <1>0, WindowOfMonotone
    <3>3. QED
      BY <1>4, <3>2
  <2>2. A \subseteq kept
    BY <2>1 DEF Marks, Kept
  <2>3. IsFiniteSet(A) /\ Cardinality(A) \in Nat
    BY MarksBounded
  <2>4. IsFiniteSet(B) /\ Cardinality(B) \in Nat
    BY <1>1, MarksBounded
  <2>5. CASE ~r.allowed
    <3>1. A \subseteq B
      BY <1>1, <1>2, <2>2, <2>5 DEF Marks
    <3>2. QED
      BY <2>3, <2>4, <2>5, <3>1, FS_Subset
  <2>6. CASE r.allowed
    <3>1. new.t = t /\ new.n = n
      OBVIOUS
    <3>2. A \cup {new} \subseteq B
      BY <1>1, <1>2, <2>2, <2>6, <3>1, <1>4 DEF Marks
    <3>3. new \notin A
      <4> SUFFICES ASSUME new \in A PROVE FALSE
        OBVIOUS
      <4>1. e # None /\ new \in e
        BY DEF Marks
      <4>2. new.n <= Cardinality({y \in e : y.t = new.t})
        BY <4>1 DEF Sound
      <4>3. PICK p : p = Cardinality({y \in e : y.t = t})
        OBVIOUS
      <4>4. n = 1 + p
        BY <4>1, <4>3 DEF NumberOf, FreshNumber
      <4>5. IsFiniteSet({y \in e : y.t = t})
        BY <4>1, FS_Subset DEF Sound
      <4>6. p \in Nat
        BY <4>3, <4>5, FS_CardinalityType
      <4>7. n <= p
        BY <4>2, <4>3, <3>1
      <4>8. QED
        BY <4>4, <4>6, <4>7
    <3>4. Cardinality(A \cup {new}) = Cardinality(A) + 1
      BY <2>3, <3>3, FS_AddElement
    <3>5. Cardinality(A \cup {new}) <= Cardinality(B)
      BY <2>4, <3>2, FS_Subset
    <3>6. QED
      BY <2>6, <3>4, <3>5
  <2>7. QED
    BY <1>2, <2>5, <2>6
<1>5. QED
  BY <1>1, <1>4 DEF r, u

\* What a step admits is taken from the room there was.
LEMMA RoomSpent ==
  ASSUME NEW a \in ALGORITHMS, NEW e, NEW m \in Int, e = None \/ Sound(a, e, m),
         NEW t \in Time, m <= t
  PROVE  LET r == Step(a, e, t, NumberOf(a, e, t))
         IN  Room(a, r.entry, t) + (IF r.allowed THEN Window ELSE 0) <= Room(a, e, t)
<1> PICK n : n = NumberOf(a, e, t)
  OBVIOUS
<1> DEFINE r == Step(a, e, t, n)
<1>0. /\ t \in Int /\ Limit \in Nat \ {0} /\ Window \in Nat \ {0} /\ Limit * Window \in Nat
      /\ WindowOf(t) \in Int
  BY ConfigAssumption, RedisAssumption, MiddlewareAssumption, WindowAndOffset DEF Time
<1>1. r.entry # None /\ Sound(a, r.entry, t)
  BY <1>0, StepSound
<1>2. ASSUME NEW x \in Int, NEW y \in Int, NEW g \in BOOLEAN, x + (IF g THEN 1 ELSE 0) <= y
      PROVE  Window * (Limit - y) + (IF g THEN Window ELSE 0) <= Window * (Limit - x)
  <2>1. PICK d \in {0, 1} : d = IF g THEN 1 ELSE 0
    OBVIOUS
  <2>2. (IF g THEN Window ELSE 0) = d * Window
    BY <2>1, <1>0
  <2>3. (x + d) * Window <= y * Window
    BY <1>0, <1>2, <2>1, ProductMonotone
  <2>4. /\ x * Window \in Int /\ y * Window \in Int /\ d * Window \in Int
        /\ (x + d) * Window = x * Window + d * Window
        /\ Window * (Limit - y) = Limit * Window - y * Window
        /\ Window * (Limit - x) = Limit * Window - x * Window
    BY <1>0
  <2>5. QED
    BY <1>0, <2>2, <2>3, <2>4
<1>3. CASE a = "fixed_window"
  <2>1. CurrentCount(e, WindowOf(t)) \in 0..Limit
    BY <1>3, CountsBounded
  <2>2. /\ r.allowed \in BOOLEAN /\ r.entry.w = WindowOf(t)
        /\ r.entry.c = IF r.allowed THEN CurrentCount(e, WindowOf(t)) + 1
                       ELSE CurrentCount(e, WindowOf(t))
    BY <1>0, <1>3, FixedWindowOutcome
  <2> HIDE DEF r
  <2>3. CurrentCount(r.entry, WindowOf(t)) = r.entry.c
    BY <1>1, <2>2 DEF CurrentCount
  <2>4. /\ Room(a, e, t) = Window * (Limit - CurrentCount(e, WindowOf(t)))
        /\ Room(a, r.entry, t) = Window * (Limit - r.entry.c)
    BY <1>3, <2>3 DEF Room
  <2>5. QED
    BY <1>2, <2>1, <2>2, <2>4 DEF r
<1>4. CASE a = "sliding_window_log"
  <2> DEFINE A == Cardinality(Marks(e, WindowOf(t)))
             B == Cardinality(Marks(r.entry, WindowOf(t)))
  <2>1. r.allowed \in BOOLEAN /\ A + (IF r.allowed THEN 1 ELSE 0) <= B
    BY <1>0, <1>4, MarksStep, SlidingLogOutcome
  <2>2. A \in 0..Limit /\ B \in 0..Limit
    BY <1>1, <1>4, MarksBounded
  <2>3. Room(a, e, t) = Window * (Limit - A) /\ Room(a, r.entry, t) = Window * (Limit - B)
    BY <1>4 DEF Room, Marks
  <2> HIDE DEF A, B, r
  <2>4. QED
    BY <1>2, <2>1, <2>2, <2>3 DEF r
<1>5. CASE a = "sliding_window_counter"
  <2>1. CurrentCount(e, WindowOf(t)) \in 0..Limit
    BY <1>5, CountsBounded
  <2>2. /\ r.allowed \in BOOLEAN /\ r.entry.w = WindowOf(t)
        /\ r.entry.c = IF r.allowed THEN CurrentCount(e, WindowOf(t)) + 1
                       ELSE CurrentCount(e, WindowOf(t))
    BY <1>0, <1>5, SlidingCounterOutcome
  <2> HIDE DEF r
  <2>3. CurrentCount(r.entry, WindowOf(t)) = r.entry.c
    BY <1>1, <2>2 DEF CurrentCount
  <2>4. /\ Room(a, e, t) = Window * (Limit - CurrentCount(e, WindowOf(t)))
        /\ Room(a, r.entry, t) = Window * (Limit - r.entry.c)
    BY <1>5, <2>3 DEF Room
  <2>5. QED
    BY <1>2, <2>1, <2>2, <2>4 DEF r
<1>6. CASE a = "token_bucket"
  <2> DEFINE tokens == Room("token_bucket", e, t)
  <2>0. t \in Int /\ (e = None \/ Sound("token_bucket", e, m))
    BY <1>0, <1>6
  <2>a. r = Step("token_bucket", e, t, n)
    BY <1>6
  <2> HIDE DEF r
  <2>1. /\ tokens \in Int /\ tokens <= Limit * Window
        /\ r.allowed \in BOOLEAN
        /\ r.entry.last = t
        /\ r.entry.tokens = IF r.allowed THEN tokens - Window ELSE tokens
    BY <2>0, <2>a, TokenBucketOutcome
  <2> HIDE DEF tokens
  <2>2. r.entry.tokens \in Int /\ r.entry.tokens <= Limit * Window
    BY <2>1, <1>0
  <2>3. Room("token_bucket", r.entry, t) = r.entry.tokens
    <3>1. r.entry.tokens + (t - t) * Limit = r.entry.tokens
      BY <2>2, <1>0
    <3>2. PICK f : f = r.entry
      OBVIOUS
    <3>3. f # None /\ f.last = t /\ f.tokens + (t - t) * Limit = f.tokens
      BY <1>1, <2>1, <3>1, <3>2 DEF r
    <3>x. f.tokens + (t - f.last) * Limit = f.tokens
      BY <3>3
    <3>y. Refilled(DefaultBucket, f, t)
            = IF f.tokens > Limit * Window THEN Limit * Window ELSE f.tokens
      BY <3>x DEF Refilled, Capped, DefaultBucket
    <3>4. Refilled(DefaultBucket, f, t) = f.tokens
      BY <2>2, <3>2, <3>y, <1>0
    <3>5. QED
      BY <3>2, <3>3, <3>4 DEF Room
  <2>4. QED
    BY <1>6, <2>1, <2>3, <1>0 DEF tokens, r
<1>7. QED
  BY <1>3, <1>4, <1>5, <1>6 DEF ALGORITHMS

\* As time passes within a window only the bucket gains room, at its rate.
LEMMA RoomGrows ==
  ASSUME NEW a \in ALGORITHMS, NEW e, NEW m \in Int, e = None \/ Sound(a, e, m),
         NEW r \in Int, NEW q \in Int, m <= r, r <= q, WindowOf(r) = WindowOf(q)
  PROVE  /\ ShareUntil(a, r) \in Int /\ ShareUntil(a, q) \in Int
         /\ Room(a, e, q) - ShareUntil(a, q) <= Room(a, e, r) - ShareUntil(a, r)
<1>0. /\ Limit \in Nat \ {0} /\ Window \in Nat \ {0} /\ Limit * Window \in Nat
      /\ Window * Limit \in Nat
  BY ConfigAssumption, RedisAssumption
<1>1. PICK x \in Int : x = Room(a, e, r)
  BY RoomRange
<1>2. PICK y \in Int : y = Room(a, e, q) /\ y <= Window * Limit
  <2>1. m <= q
    OBVIOUS
  <2>2. QED
    BY <2>1, RoomRange
<1>3. CASE a # "token_bucket"
  <2>1. ShareUntil(a, r) = Window * Limit /\ ShareUntil(a, q) = Window * Limit
    BY <1>0, <1>3 DEF ShareUntil
  <2>2. Room(a, e, r) = Room(a, e, q)
    BY <1>3 DEF Room
  <2>3. QED
    BY <1>0, <1>1, <2>1, <2>2
<1>4. CASE a = "token_bucket"
  <2>1. PICK v \in Int, i \in Nat, j \in Nat :
          i = Elapsed(r) /\ j = Elapsed(q) /\ r = v + i /\ q = v + j
    <3>1. WindowOf(r) \in Int /\ WindowOf(r) * Window \in Int
      BY WindowAndOffset, <1>0
    <3>2. /\ Elapsed(r) \in Nat /\ Elapsed(q) \in Nat
          /\ r = WindowOf(r) * Window + Elapsed(r)
          /\ q = WindowOf(r) * Window + Elapsed(q)
      BY WindowAndOffset, <1>0
    <3>3. QED
      BY <3>1, <3>2
  <2>2. /\ ShareUntil(a, r) = Window * Limit + i * Limit
        /\ ShareUntil(a, q) = Window * Limit + j * Limit
    BY <1>4, <2>1 DEF ShareUntil
  <2>3. i * Limit \in Nat /\ j * Limit \in Nat /\ i * Limit <= j * Limit
    BY <1>0, <2>1, ProductMonotone
  <2>4. y - j * Limit <= x - i * Limit
    <3>1. CASE e = None
      <4>1. x = Limit * Window /\ y = Limit * Window
        BY <1>1, <1>2, <1>4, <3>1 DEF Room
      <4>2. QED
        BY <4>1, <2>3, <1>0
    <3>2. CASE e # None
      <4>1. e.tokens \in Int /\ e.last \in Int
        BY <1>4, <3>2 DEF Sound, TokenBucketEntry
      <4>2. PICK b \in Int : b = e.tokens + (r - e.last) * Limit
        BY <4>1, <1>0
      <4>3. (q - e.last) * Limit = (r - e.last) * Limit + (j * Limit - i * Limit)
        BY <4>1, <2>1, <1>0
      <4>4. (r - e.last) * Limit \in Int
        BY <4>1, <1>0
      <4>5. e.tokens + (q - e.last) * Limit = b + (j * Limit - i * Limit)
        BY <4>1, <4>2, <4>3, <4>4, <2>3
      <4>6. x = IF b > Limit * Window THEN Limit * Window ELSE b
        BY <1>1, <1>4, <3>2, <4>2 DEF Room, Refilled, Capped, DefaultBucket
      <4>7. PICK d \in Int : d = b + (j * Limit - i * Limit)
        BY <4>2, <2>3
      <4>8. y = IF d > Limit * Window THEN Limit * Window ELSE d
        BY <1>2, <1>4, <3>2, <4>5, <4>7 DEF Room, Refilled, Capped, DefaultBucket
      <4>9. QED
        BY <4>6, <4>7, <4>8, <2>3, <1>0
    <3>3. QED
      BY <3>1, <3>2
  <2>5. QED
    BY <1>0, <1>1, <1>2, <2>2, <2>3, <2>4
<1>5. QED
  BY <1>3, <1>4

\* What a window may admit until its last tick is what it may admit in all, and
\* at least what it may admit until r.
LEMMA ShareUntilBounded ==
  ASSUME NEW a, NEW r \in Int
  PROVE  /\ ShareUntil(a, r) \in Int /\ Window * Limit <= ShareUntil(a, r)
         /\ ShareUntil(a, r) <= ShareUntil(a, Window - 1)
         /\ ShareUntil(a, Window - 1)
              = Window * Limit + IF a = "token_bucket" THEN (Window - 1) * Limit ELSE 0
<1>0. Limit \in Nat /\ Window \in Nat \ {0} /\ Window * Limit \in Nat
  BY ConfigAssumption
<1>1. PICK i \in 0..Window - 1 : i = Elapsed(r)
  BY WindowAndOffset
<1>2. i * Limit \in Nat /\ (Window - 1) * Limit \in Nat /\ i * Limit <= (Window - 1) * Limit
  <2>1. i \in Int /\ Window - 1 \in Int /\ i <= Window - 1 /\ i \in Nat
    BY <1>0
  <2>2. i * Limit \in Nat
    BY <1>0, <2>1
  <2>3. QED
    BY <1>0, <2>1, <2>2, ProductMonotone
<1>3. Elapsed(Window - 1) = Window - 1
  <2>1. (Window - 1) \div Window = 0
    BY <1>0
  <2>2. QED
    BY <2>1, <1>0 DEF Elapsed, WindowOf
<1>4. QED
  BY <1>0, <1>1, <1>2, <1>3 DEF ShareUntil

\* A step that comes late, or finds nothing where there was an entry that meant
\* nothing, gives away no more than one limit.
LEMMA RoomExcused ==
  ASSUME NEW a \in ALGORITHMS, NEW e, NEW m \in Int, e = None \/ Sound(a, e, m),
         NEW t \in Time, NEW r \in Int, m <= r, t <= r,
         NEW f, f = e \/ f = None,
         f = e \/ (a = "token_bucket" => Room(a, e, r) = Limit * Window)
  PROVE  LET s == Step(a, f, t, NumberOf(a, f, t))
         IN  /\ s.entry # None /\ Sound(a, s.entry, r)
             /\ Room(a, s.entry, r)
                  + (IF s.allowed /\ WindowOf(t) = WindowOf(r) THEN Window ELSE 0)
                    <= Room(a, e, r) + Window * Limit
<1> PICK n : n = NumberOf(a, f, t)
  OBVIOUS
<1> DEFINE s == Step(a, f, t, n)
<1>0. /\ t \in Int /\ Limit \in Nat \ {0} /\ Window \in Nat \ {0} /\ Limit * Window \in Nat
      /\ WindowOf(t) \in Int /\ WindowOf(r) \in Int /\ Window * Limit = Limit * Window
  BY ConfigAssumption, RedisAssumption, MiddlewareAssumption, WindowAndOffset DEF Time
<1>f. f = None \/ Sound(a, f, m)
  OBVIOUS
<1>1. s.entry # None /\ Sound(a, s.entry, r)
  BY <1>0, <1>f, StepSound
<1>2. PICK x \in Int : x = Room(a, e, r) /\ 0 <= x /\ x <= Window * Limit
  BY RoomRange
<1>3. PICK y \in Int : y = Room(a, s.entry, r) /\ 0 <= y /\ y <= Window * Limit
  BY <1>0, <1>1, RoomRange
<1>4. ASSUME NEW c \in 1..Limit
      PROVE  Window * (Limit - c) + Window <= Window * Limit
  <2>1. 1 * Window <= c * Window /\ c * Window \in Int
    BY <1>0, ProductMonotone
  <2>2. Window * (Limit - c) = Window * Limit - c * Window
    BY <1>0
  <2>3. QED
    BY <1>0, <2>1, <2>2
<1>5. ASSUME a # "token_bucket", s.allowed, WindowOf(t) = WindowOf(r)
      PROVE  y + Window <= Window * Limit
  <2>1. CASE a = "fixed_window"
    <3>1. CurrentCount(f, WindowOf(t)) \in 0..Limit
      BY <1>f, <2>1, CountsBounded
    <3>2. /\ s.entry.w = WindowOf(t)
          /\ s.entry.c = CurrentCount(f, WindowOf(t)) + 1
      BY <1>0, <1>5, <1>f, <2>1, FixedWindowOutcome
    <3> HIDE DEF s
    <3>3. CurrentCount(s.entry, WindowOf(r)) = s.entry.c
      BY <1>1, <1>5, <3>2 DEF CurrentCount
    <3>4. s.entry.c \in 1..Limit
      <4>1. CurrentCount(s.entry, WindowOf(r)) \in 0..Limit
        BY <1>1, <2>1, CountsBounded
      <4>2. QED
        BY <4>1, <3>1, <3>2, <3>3, <1>0
    <3>5. y = Window * (Limit - s.entry.c)
      BY <1>3, <2>1, <3>3 DEF Room
    <3>6. QED
      BY <1>4, <3>4, <3>5
  <2>2. CASE a = "sliding_window_log"
    <3> DEFINE A == Cardinality(Marks(f, WindowOf(t)))
               B == Cardinality(Marks(s.entry, WindowOf(t)))
    <3>1. A + 1 <= B
      BY <1>0, <1>5, <1>f, <2>2, MarksStep
    <3>2. A \in 0..Limit /\ B \in 0..Limit
      BY <1>1, <1>f, <2>2, MarksBounded
    <3>3. y = Window * (Limit - B)
      BY <1>3, <1>5, <2>2 DEF Room, Marks
    <3> HIDE DEF A, B, s
    <3>4. B \in 1..Limit
      BY <3>1, <3>2, <1>0
    <3>5. QED
      BY <1>4, <3>3, <3>4
  <2>3. CASE a = "sliding_window_counter"
    <3>1. CurrentCount(f, WindowOf(t)) \in 0..Limit
      BY <1>f, <2>3, CountsBounded
    <3>2. /\ s.entry.w = WindowOf(t)
          /\ s.entry.c = CurrentCount(f, WindowOf(t)) + 1
      BY <1>0, <1>5, <1>f, <2>3, SlidingCounterOutcome
    <3> HIDE DEF s
    <3>3. CurrentCount(s.entry, WindowOf(r)) = s.entry.c
      BY <1>1, <1>5, <3>2 DEF CurrentCount
    <3>4. s.entry.c \in 1..Limit
      <4>1. CurrentCount(s.entry, WindowOf(r)) \in 0..Limit
        BY <1>1, <2>3, CountsBounded
      <4>2. QED
        BY <4>1, <3>1, <3>2, <3>3, <1>0
    <3>5. y = Window * (Limit - s.entry.c)
      BY <1>3, <2>3, <3>3 DEF Room
    <3>6. QED
      BY <1>4, <3>4, <3>5
  <2>4. QED
    BY <1>5, <2>1, <2>2, <2>3 DEF ALGORITHMS
<1>6. ASSUME a = "token_bucket"
      PROVE  y <= x
  <2>1. PICK k \in Int : /\ k = Room("token_bucket", f, t) /\ k <= Limit * Window
                         /\ f # None => k <= f.tokens + (t - f.last) * Limit
    BY <1>0, <1>6, <1>f, TokenBucketOutcome
  <2>2. /\ s.entry.last = t
        /\ s.entry.tokens \in Int /\ s.entry.tokens <= k
    <3>0. f = None \/ Sound("token_bucket", f, m)
      BY <1>6, <1>f
    <3>a. s = Step("token_bucket", f, t, n)
      BY <1>6
    <3>b. t \in Int /\ k = Room("token_bucket", f, t)
      BY <1>0, <2>1
    <3> HIDE DEF s
    <3>c. LET o == Step("token_bucket", f, t, n)
              tokens == Room("token_bucket", f, t)
          IN  /\ o.entry.last = t
              /\ o.entry.tokens = IF o.allowed THEN tokens - Window ELSE tokens
      BY <3>0, <3>b, TokenBucketOutcome
    <3>1. /\ s.entry.last = t
          /\ s.entry.tokens = IF s.allowed THEN k - Window ELSE k
      BY <3>a, <3>b, <3>c
    <3>2. QED
      BY <3>1, <1>0
  <2>3. CASE f # e
    BY <1>2, <1>3, <1>6, <1>0, <2>3
  <2>4. CASE f = e /\ e = None
    <3>1. x = Limit * Window
      BY <1>2, <1>6, <2>4 DEF Room
    <3>2. QED
      BY <3>1, <1>3, <1>0
  <2>5. CASE f = e /\ e # None
    <3>1. e.tokens \in Int /\ e.last \in Int
      BY <1>6, <2>5 DEF Sound, TokenBucketEntry
    <3>2. /\ (t - e.last) * Limit \in Int /\ (r - t) * Limit \in Int
          /\ (r - e.last) * Limit = (t - e.last) * Limit + (r - t) * Limit
      BY <3>1, <1>0
    <3>3. PICK b \in Int : b = e.tokens + (r - e.last) * Limit
      BY <3>1, <3>2
    <3>4. x = IF b > Limit * Window THEN Limit * Window ELSE b
      BY <1>2, <1>6, <2>5, <3>3 DEF Room, Refilled, Capped, DefaultBucket
    <3>5. PICK d \in Int : d = s.entry.tokens + (r - t) * Limit
      BY <2>2, <3>2
    <3>6. y = IF d > Limit * Window THEN Limit * Window ELSE d
      <4>1. PICK g : g = s.entry
        OBVIOUS
      <4>2. g # None /\ g.tokens + (r - g.last) * Limit = d
        BY <1>1, <2>2, <3>5, <4>1
      <4>3. y = Refilled(DefaultBucket, g, r)
        BY <1>3, <1>6, <4>1, <4>2 DEF Room
      <4>4. QED
        BY <4>2, <4>3 DEF Refilled, Capped, DefaultBucket
    <3>7. d <= b
      BY <2>1, <2>2, <2>5, <3>1, <3>2, <3>3, <3>5
    <3>8. QED
      BY <3>4, <3>6, <3>7, <1>0
  <2>6. QED
    BY <2>3, <2>4, <2>5
<1>7. y + (IF s.allowed /\ WindowOf(t) = WindowOf(r) THEN Window ELSE 0)
        <= x + Window * Limit
  <2> HIDE DEF s
  <2>1. Window <= Window * Limit
    <3>1. 1 * Window <= Limit * Window
      BY <1>0, ProductMonotone
    <3>2. QED
      BY <1>0, <3>1
  <2>2. CASE a = "token_bucket"
    BY <1>0, <1>2, <1>3, <1>6, <2>1, <2>2
  <2>3. CASE a # "token_bucket"
    BY <1>0, <1>2, <1>3, <1>5, <2>3
  <2>4. QED
    BY <2>2, <2>3
<1>8. QED
  BY <1>1, <1>2, <1>3, <1>7

-----------------------------------------------------------------------------
(* The invariant.                                                          *)

KeyBacked(key) == key = None \/
  /\ key.expires - Ttl(algorithm) \in Int
  /\ key.expires \in Int
  /\ key.expires - Ttl(algorithm) <= clock
  /\ Backed(algorithm, key.entry, key.expires - Ttl(algorithm))

\* The inductive invariant.  The key of a client was last written at a time
\* of the server that its expiry tells, and its entry is backed by then; and
\* no call carries a timestamp that is still to come.
IInv ==
  /\ TypeOK
  /\ \A s \in Senders : now[s] # None => now[s] <= clock
  /\ \A s \in Senders : at[s] # None => now[s] # None
  /\ \A k \in Stores, c \in Clients : KeyBacked(keys[k][c])

EntryIn(key) == IF key = None THEN None ELSE key.entry

\* No step for c that is not excused has a timestamp below this.
Reach(c) ==
  IF clock - Tolerance(algorithm) > newest[c] THEN clock - Tolerance(algorithm)
  ELSE newest[c]

\* How many limits are granted on top of the shares.
Extras == excused + losses

\* What the store k has let c through for in window w, and what it may still.
WithinShare(k, c, w) ==
  Bounded(algorithm, EntryIn(keys[k][c]), granted[k][c][w], Extras, Reach(c), w)

\* The stores whose steps granted[k] counts.
Counted == IF backend = "redis" THEN {"redis"} ELSE Instances

ShareInv ==
  /\ \A k \in Counted, c \in Clients :
       keys[k][c] # None =>
         keys[k][c].entry # None /\ Sound(algorithm, keys[k][c].entry, newest[c])
  /\ \A k \in Counted, c \in Clients, w \in Windows : WithinShare(k, c, w)

\* When s was told to wait for the first of the refusals it has had in a row,
\* or later: what every one of its waits so far adds up to, before now.
Since(s) == resume[s] - refused[s] * RetryAfter

\* All that the entry e of algorithm a counts was let in by the time d.
SpentBy(a, e, d) ==
  CASE a = "fixed_window"           -> e.w <= WindowOf(d)
    [] a = "sliding_window_log"     -> \A x \in e : x.t <= d
    [] a = "sliding_window_counter" ->
         \/ e.w <= WindowOf(d)
         \/ e.w = WindowOf(d) + 1 /\ e.c = 0
    [] a = "token_bucket"           -> e.tokens + (d - e.last) * Limit >= 0

\* A sender calls when it may; while it is refused nothing more is spent, and
\* it is not refused for longer than that lasts.
Patient(s) ==
  /\ at[s] # None => now[s] >= resume[s]
  /\ \A k \in Counted :
       LET key == keys[k][KeyFunc(s)] IN
       refused[s] # 0 /\ Alone(s) /\ key # None =>
         SpentBy(algorithm, key.entry, Since(s))
  /\ Alone(s) /\ refused[s] # 0
       => \/ Waited(s) < Window
          \/ Waited(s) = Window /\ algorithm = "sliding_window_counter"

PatienceInv == \A s \in Senders : Patient(s)

\* Every key is some sender's, and every store some instance's.
LEMMA KeyFuncType ==
  ASSUME TypeOK, NEW s \in Senders
  PROVE  KeyFunc(s) \in Clients
BY DEF TypeOK, KeyFunc, DefaultKeyFunc, Clients

LEMMA StoreOfType ==
  ASSUME NEW i \in Instances
  PROVE  StoreOf(i) \in Stores
BY DEF StoreOf, Stores

\* Retry-After never asks for more than a window.
LEMMA RetryAfterBounded == RetryAfter \in Nat /\ RetryAfter <= Window
<1>1. Window \in Nat /\ Second \in Nat \ {0}
  BY ConfigAssumption, RedisAssumption
<1>2. Window \div Second \in Nat /\ (Window \div Second) * Second <= Window
  BY <1>1
<1>3. QED
  BY <1>1, <1>2 DEF RetryAfter

LEMMA InitInv == Init => IInv
<1> SUFFICES ASSUME Init PROVE IInv
  OBVIOUS
<1>1. /\ 0 \in Time /\ 0 \in 0..MaxRequests /\ 0 \in 0..MaxFailures
      /\ 0 \in 0..(0 + Window)
  BY MiddlewareAssumption, ConfigAssumption DEF Time
<1>2. TypeOK
  BY <1>1 DEF Init, TypeOK
<1>3. QED
  BY <1>2 DEF Init, IInv, KeyBacked

\* A step of the limiter for s writes a backed entry to one key.
LEMMA EffectBacks ==
  ASSUME IInv, NEW s \in Senders, at[s] # None, TakeEffect(s), clock' = clock,
         UNCHANGED config
  PROVE  /\ DOMAIN keys' = Stores /\ \A k \in Stores : DOMAIN keys'[k] = Clients
         /\ \A k \in Stores, c \in Clients : KeyBacked(keys[k][c])'
         /\ newest' \in [Clients -> Time \cup {-1}]
         /\ excused' \in Nat
<1>1. /\ TypeOK /\ at[s] \in Instances /\ now[s] \in Time
      /\ now[s] \in Int /\ now[s] <= clock /\ clock \in Int
      /\ algorithm \in ALGORITHMS
  BY MiddlewareAssumption DEF IInv, TypeOK, Time
<1> DEFINE k0 == StoreOf(at[s])
           c0 == KeyFunc(s)
           e  == EntryOf(s)
           f  == ResultOf(s).entry
           x  == clock + Ttl(algorithm)
<1>2. k0 \in Stores /\ c0 \in Clients
  BY <1>1, KeyFuncType, StoreOfType
<1>3. Ttl(algorithm) \in Nat
  BY <1>1, TtlCovers
<1>4. PICK u \in Int : u <= clock /\ (e = None \/ Backed(algorithm, e, u))
  <2> DEFINE key == keys[k0][c0]
  <2>1. KeyBacked(key)
    BY <1>2 DEF IInv
  <2>2. e = None \/ (key # None /\ e = key.entry)
    BY DEF EntryOf, Value
  <2>3. CASE e = None
    BY <2>3, <1>1
  <2>4. CASE key # None /\ e = key.entry
    BY <2>1, <2>4 DEF KeyBacked
  <2>5. QED
    BY <2>2, <2>3, <2>4
<1>5. Backed(algorithm, f, clock)
  <2> HIDE DEF e
  <2>1. PICK n : ResultOf(s) = Step(algorithm, e, now[s], n)
    <3>1. \A n : Script(algorithm, e, now[s], n) = Step(algorithm, e, now[s], n)
      BY <1>1, <1>4, ScriptIsStep
    <3>2. QED
      BY <3>1 DEF ResultOf, e
  <2>2. QED
    BY <1>1, <1>4, <2>1, StepBacks
<1>6. keys' = [keys EXCEPT ![k0][c0] = Key(f, x)]
  BY DEF TakeEffect
<1>7. PICK key : key = Key(f, x)
  OBVIOUS
<1>8. KeyBacked(key)'
  <2>1. x \in Int /\ x - Ttl(algorithm) = clock
    BY <1>1, <1>3
  <2>2. algorithm' = algorithm
    BY DEF config
  <2> HIDE DEF f, x
  <2>3. key.entry = f /\ key.expires = x
    BY <1>7 DEF Key
  <2>4. /\ key.expires - Ttl(algorithm) = clock /\ key.expires \in Int
        /\ Backed(algorithm, key.entry, clock)
    BY <2>1, <2>3, <1>5
  <2>5. QED
    BY <1>1, <2>2, <2>4 DEF KeyBacked
<1>9. /\ DOMAIN keys' = Stores /\ \A k \in Stores : DOMAIN keys'[k] = Clients
      /\ \A k \in Stores, c \in Clients : KeyBacked(keys[k][c])'
  <2> HIDE DEF f, x
  <2>0. PICK k1 \in Stores, c1 \in Clients : k1 = k0 /\ c1 = c0
    BY <1>2
  <2>1. keys' = [keys EXCEPT ![k1][c1] = key]
    BY <1>6, <1>7, <2>0
  <2>2. DOMAIN keys = Stores /\ \A k \in Stores : DOMAIN keys[k] = Clients
    BY <1>1 DEF TypeOK
  <2>3. ASSUME NEW k \in Stores
        PROVE  keys'[k] = IF k = k1 THEN [keys[k] EXCEPT ![c1] = key] ELSE keys[k]
    BY <2>1, <2>2
  <2>4. DOMAIN keys' = Stores /\ \A k \in Stores : DOMAIN keys'[k] = Clients
    BY <2>1, <2>2, <2>3
  <2>5. ASSUME NEW k \in Stores, NEW c \in Clients
        PROVE  KeyBacked(keys[k][c])'
    <3>1. keys'[k][c] = key \/ keys'[k][c] = keys[k][c]
      BY <2>2, <2>3
    <3>2. KeyBacked(keys[k][c])
      BY DEF IInv
    <3>3. PICK old : old = keys[k][c]
      OBVIOUS
    <3>4. KeyBacked(old)'
      BY <3>2, <3>3 DEF KeyBacked, config
    <3>5. PICK new : new = keys'[k][c]
      OBVIOUS
    <3>6. KeyBacked(new)'
      BY <3>1, <3>3, <3>4, <3>5, <1>8
    <3>7. QED
      BY <3>5, <3>6 DEF KeyBacked
  <2>6. QED
    BY <2>4, <2>5
<1>10. newest' \in [Clients -> Time \cup {-1}]
  <2> HIDE DEF f, x
  <2>1. newest' = [newest EXCEPT ![c0] = IF now[s] > newest[c0] THEN now[s]
                                         ELSE newest[c0]]
    BY DEF TakeEffect
  <2>2. newest[c0] \in Time \cup {-1}
    BY <1>1, <1>2 DEF TypeOK
  <2>3. QED
    BY <1>1, <2>1, <2>2 DEF TypeOK
<1>11. excused' \in Nat
  <2>1. excused' = excused + 1 \/ excused' = excused + 0
    BY DEF TakeEffect
  <2>2. QED
    BY <1>1, <2>1 DEF TypeOK
<1>12. QED
  BY <1>9, <1>10, <1>11

\* What can become of a call of the limiter: in all but one case it is done.
Answered(s) == Admit(s) \/ Refuse(s) \/ Resend(s) \/ Fail(s)

\* What all of them have in common.
LEMMA AnsweredFrame ==
  ASSUME NEW s \in Senders, Answered(s)
  PROVE  /\ at[s] # None
         /\ UNCHANGED <<config, algorithm, backend, header, host, clock, requests>>
         /\ \/ /\ at' = [at EXCEPT ![s] = None]
               /\ now' = [now EXCEPT ![s] = None]
            \/ UNCHANGED <<at, now>>
         /\ TakeEffect(s) \/ UNCHANGED <<keys, newest, excused, losses, granted, refused>>
         /\ Admit(s) \/ UNCHANGED granted
         /\ Refuse(s) \/ UNCHANGED resume
         /\ losses' = losses
         /\ failures' = failures \/ Failing
<1>1. CASE Admit(s)
  BY <1>1 DEF Admit, Done, TakeEffect, config
<1>2. CASE Refuse(s)
  BY <1>2 DEF Refuse, Done, TakeEffect, config
<1>3. CASE Resend(s)
  BY <1>3 DEF Resend, TakeEffectUntold, TakeEffect, config
<1>4. CASE Fail(s)
  <2>1. CASE TakeEffectUntold(s)
    BY <1>4, <2>1 DEF Fail, Done, TakeEffectUntold, TakeEffect, config
  <2>2. CASE UNCHANGED <<keys, newest, excused, losses, refused>>
    BY <1>4, <2>2 DEF Fail, Done, config
  <2>3. QED
    BY <1>4, <2>1, <2>2 DEF Fail
<1>5. QED
  BY <1>1, <1>2, <1>3, <1>4 DEF Answered

\* What a request let through adds to the history.
LEMMA GrantedMoves ==
  ASSUME IInv, NEW s \in Senders, Admit(s)
  PROVE  /\ granted' \in [Stores -> [Clients -> [Windows -> Nat]]]
         /\ WindowOf(now[s]) \in Windows
         /\ \A k \in Stores, c \in Clients, w \in Windows :
              granted'[k][c][w] =
                IF k = Grantor(at[s]) /\ c = KeyFunc(s) /\ w = WindowOf(now[s])
                  THEN granted[k][c][w] + 1 ELSE granted[k][c][w]
<1>1. /\ at[s] \in Instances /\ now[s] \in Time /\ KeyFunc(s) \in Clients
      /\ granted \in [Stores -> [Clients -> [Windows -> Nat]]]
  BY KeyFuncType DEF Admit, IInv, TypeOK
<1>2. PICK i \in Stores : i = Grantor(at[s])
  BY <1>1 DEF Stores, Grantor
<1>3. PICK v \in Windows : v = WindowOf(now[s])
  BY <1>1 DEF Windows
<1>4. PICK d \in Clients : d = KeyFunc(s)
  BY <1>1
<1>5. granted' = [granted EXCEPT ![i][d][v] = @ + 1]
  BY <1>2, <1>3, <1>4 DEF Admit
<1>6. ASSUME NEW k \in Stores
      PROVE  granted'[k] = IF k = i THEN [granted[k] EXCEPT ![d][v] = @ + 1]
                           ELSE granted[k]
  BY <1>1, <1>2, <1>5
<1>7. ASSUME NEW k \in Stores
      PROVE  /\ granted'[k] \in [Clients -> [Windows -> Nat]]
             /\ \A c \in Clients, w \in Windows :
                  granted'[k][c][w] = IF k = i /\ c = d /\ w = v
                                        THEN granted[k][c][w] + 1 ELSE granted[k][c][w]
  <2>1. PICK f \in [Clients -> [Windows -> Nat]] : f = granted[k]
    BY <1>1
  <2>2. PICK g : g = [f EXCEPT ![d][v] = @ + 1]
    OBVIOUS
  <2>3. /\ g \in [Clients -> [Windows -> Nat]]
        /\ \A c \in Clients, w \in Windows :
             g[c][w] = IF c = d /\ w = v THEN f[c][w] + 1 ELSE f[c][w]
    BY <2>2
  <2>4. CASE k = i
    <3>1. granted'[k] = g
      BY <1>6, <2>1, <2>2, <2>4
    <3>2. QED
      BY <3>1, <2>1, <2>3, <2>4
  <2>5. CASE k # i
    <3>1. granted'[k] = f
      BY <1>6, <2>1, <2>5
    <3>2. QED
      BY <3>1, <2>1, <2>5
  <2>6. QED
    BY <2>4, <2>5
<1>8. granted' \in [Stores -> [Clients -> [Windows -> Nat]]]
  <2>1. granted' = [k \in Stores |-> granted'[k]]
    BY <1>1, <1>5
  <2>2. QED
    BY <2>1, <1>7
<1>9. QED
  BY <1>2, <1>3, <1>4, <1>7, <1>8

\* A restart of Redis empties its keys and no others.
LEMMA KeysLost ==
  ASSUME TypeOK, LoseKeys
  PROVE  /\ DOMAIN keys' = Stores /\ \A k \in Stores : DOMAIN keys'[k] = Clients
         /\ \A k \in Stores, c \in Clients :
              keys'[k][c] = IF k = "redis" THEN None ELSE keys[k][c]
<1>1. "redis" \in Stores /\ keys' = [keys EXCEPT !["redis"] = [c \in Clients |-> None]]
  BY DEF LoseKeys, Stores
<1>2. DOMAIN keys = Stores /\ \A k \in Stores : DOMAIN keys[k] = Clients
  BY DEF TypeOK
<1>3. ASSUME NEW k \in Stores
      PROVE  keys'[k] = IF k = "redis" THEN [c \in Clients |-> None] ELSE keys[k]
  BY <1>1, <1>2
<1>4. QED
  BY <1>1, <1>2, <1>3

LEMMA StepTyped ==
  ASSUME IInv, Next
  PROVE  TypeOK'
<1>t. /\ TypeOK /\ Window \in Nat /\ clock \in Nat /\ MaxRequests \in Nat
      /\ MaxFailures \in Nat
  BY ConfigAssumption, MiddlewareAssumption DEF IInv, TypeOK, Time
<1>1. CASE Tick
  <2>1. clock' \in Time /\ clock' = clock + 1
    BY <1>1, <1>t, MiddlewareAssumption DEF Tick, Time
  <2>2. 0..clock + Window \subseteq 0..clock' + Window
    BY <2>1, <1>t
  <2>3. QED
    BY <1>1, <1>t, <2>1, <2>2 DEF Tick, config, history, TypeOK
<1>2. ASSUME NEW s \in Senders, NEW i \in Instances, Dispatch(s, i)
      PROVE  TypeOK'
  <2>1. requests' \in 0..MaxRequests
    BY <1>2, <1>t DEF Dispatch, TypeOK
  <2>2. at' \in [Senders -> Instances \cup {None}] /\ now' \in [Senders -> Time \cup {None}]
    BY <1>2, <1>t DEF Dispatch, TypeOK
  <2>3. QED
    BY <1>2, <1>t, <2>1, <2>2 DEF Dispatch, config, history, TypeOK
<1>f. Failing => failures' \in 0..MaxFailures
  BY <1>t DEF Failing, TypeOK
<1>3. ASSUME NEW s \in Senders, Answered(s)
      PROVE  TypeOK'
  <2>1. at[s] # None /\ clock' = clock /\ UNCHANGED config
    BY <1>3, AnsweredFrame
  <2>2. at' \in [Senders -> Instances \cup {None}] /\ now' \in [Senders -> Time \cup {None}]
    BY <1>3, <1>t, AnsweredFrame DEF TypeOK
  <2>3. /\ DOMAIN keys' = Stores /\ \A k \in Stores : DOMAIN keys'[k] = Clients
        /\ newest' \in [Clients -> Time \cup {-1}]
        /\ excused' \in Nat
    <3>1. CASE TakeEffect(s)
      BY <3>1, <2>1, EffectBacks
    <3>2. CASE UNCHANGED <<keys, newest, excused>>
      BY <3>2, <1>t DEF TypeOK
    <3>3. QED
      BY <1>3, <3>1, <3>2, AnsweredFrame
  <2>4. resume' \in [Senders -> 0..clock + Window]
    <3>1. clock + RetryAfter \in 0..clock + Window
      BY <1>t, RetryAfterBounded
    <3>2. CASE UNCHANGED resume
      BY <3>2, <1>t DEF TypeOK
    <3>3. CASE Refuse(s)
      BY <3>1, <3>3, <1>t DEF Refuse, TypeOK
    <3>4. QED
      BY <1>3, <3>2, <3>3, AnsweredFrame
  <2>5. refused' \in [Senders -> Nat]
    <3>1. CASE Admit(s)
      BY <3>1, <1>t DEF Admit, TypeOK
    <3>2. CASE Refuse(s)
      BY <3>2, <1>t DEF Refuse, TypeOK
    <3>3. CASE TakeEffectUntold(s)
      BY <3>3, <1>t DEF TakeEffectUntold, TypeOK
    <3>4. CASE UNCHANGED refused
      BY <3>4, <1>t DEF TypeOK
    <3>5. QED
      BY <1>3, <3>1, <3>2, <3>3, <3>4 DEF Answered, Resend, Fail
  <2>6. granted' \in [Stores -> [Clients -> [Windows -> Nat]]]
    <3>1. CASE UNCHANGED granted
      BY <3>1, <1>t DEF TypeOK
    <3>2. CASE Admit(s)
      BY <3>2, <1>t, GrantedMoves DEF TypeOK
    <3>3. QED
      BY <1>3, <3>1, <3>2, AnsweredFrame
  <2>7. failures' \in 0..MaxFailures
    BY <1>3, <1>f, <1>t, AnsweredFrame DEF TypeOK
  <2>8. UNCHANGED <<algorithm, backend, header, host, clock, requests, losses>>
    BY <1>3, AnsweredFrame
  <2>9. QED
    BY <2>2, <2>3, <2>4, <2>5, <2>6, <2>7, <2>8, <1>t DEF TypeOK
<1>4. CASE LoseKeys
  <2>1. DOMAIN keys' = Stores /\ \A k \in Stores : DOMAIN keys'[k] = Clients
    BY <1>4, <1>t, KeysLost
  <2>2. losses' \in Nat /\ failures' \in 0..MaxFailures
    BY <1>4, <1>f, <1>t DEF LoseKeys, TypeOK
  <2>3. QED
    BY <1>4, <1>t, <2>1, <2>2 DEF LoseKeys, config, TypeOK
<1>5. QED
  BY <1>1, <1>2, <1>3, <1>4 DEF Next, Answered

\* Every step keeps the invariant.
LEMMA NextInv == IInv /\ [Next]_vars => IInv'
<1> SUFFICES ASSUME IInv, [Next]_vars PROVE IInv'
  OBVIOUS
<1>0. CASE UNCHANGED vars
  BY <1>0 DEF vars, config, history, IInv, TypeOK, Windows, Time, Clients, Stores, KeyBacked
<1> SUFFICES ASSUME Next PROVE IInv'
  BY <1>0
<1>t. TypeOK' /\ TypeOK /\ clock \in Nat
  BY StepTyped, MiddlewareAssumption DEF IInv, TypeOK, Time
<1>1. CASE Tick
  <2>1. clock' = clock + 1 /\ UNCHANGED <<algorithm, keys, at, now>>
    BY <1>1 DEF Tick, config
  <2>2. \A s \in Senders : now[s] # None => now[s] <= clock'
    <3> SUFFICES ASSUME NEW s \in Senders, now[s] # None PROVE now[s] <= clock'
      OBVIOUS
    <3>1. now[s] \in Int /\ now[s] <= clock
      BY <1>t, MiddlewareAssumption DEF IInv, TypeOK, Time
    <3>2. QED
      BY <1>t, <2>1, <3>1
  <2>3. ASSUME NEW k \in Stores, NEW c \in Clients
        PROVE  KeyBacked(keys[k][c])'
    <3>1. PICK old : old = keys[k][c]
      OBVIOUS
    <3>2. KeyBacked(old)
      BY <3>1 DEF IInv
    <3>3. KeyBacked(old)'
      BY <3>2, <2>1, <1>t DEF KeyBacked
    <3>4. old = keys'[k][c]
      BY <3>1, <2>1
    <3>5. QED
      BY <3>3, <3>4 DEF KeyBacked
  <2>4. QED
    BY <1>t, <2>1, <2>2, <2>3 DEF IInv, Stores, Clients
<1>2. ASSUME NEW s \in Senders, NEW i \in Instances, Dispatch(s, i)
      PROVE  IInv'
  <2>1. /\ at' = [at EXCEPT ![s] = i] /\ now' = [now EXCEPT ![s] = clock]
        /\ UNCHANGED <<algorithm, keys, clock>>
    BY <1>2 DEF Dispatch, config
  <2>2. clock # None
    BY <1>t, ConfigAssumption
  <2>3. \A v \in Senders : now'[v] # None => now'[v] <= clock'
    BY <1>t, <2>1 DEF IInv, TypeOK
  <2>4. \A v \in Senders : at'[v] # None => now'[v] # None
    BY <1>t, <2>1, <2>2 DEF IInv, TypeOK
  <2>5. \A k \in Stores, c \in Clients : KeyBacked(keys[k][c])'
    BY <2>1 DEF IInv, KeyBacked
  <2>6. QED
    BY <1>t, <2>3, <2>4, <2>5 DEF IInv, Stores, Clients
<1>3. ASSUME NEW s \in Senders, Answered(s)
      PROVE  IInv'
  <2>1. at[s] # None /\ UNCHANGED <<config, algorithm, clock>>
    BY <1>3, AnsweredFrame
  <2>2. \/ at' = [at EXCEPT ![s] = None] /\ now' = [now EXCEPT ![s] = None]
        \/ UNCHANGED <<at, now>>
    BY <1>3, AnsweredFrame
  <2>3. \A v \in Senders : now'[v] # None => now'[v] <= clock'
    BY <1>t, <2>1, <2>2 DEF IInv, TypeOK
  <2>4. \A v \in Senders : at'[v] # None => now'[v] # None
    BY <1>t, <2>2 DEF IInv, TypeOK
  <2>5. \A k \in Stores, c \in Clients : KeyBacked(keys[k][c])'
    <3>1. CASE TakeEffect(s)
      BY <3>1, <2>1, EffectBacks
    <3>2. CASE UNCHANGED keys
      BY <3>2, <2>1 DEF IInv, KeyBacked
    <3>3. QED
      BY <1>3, <3>1, <3>2, AnsweredFrame
  <2>6. QED
    BY <1>t, <2>3, <2>4, <2>5 DEF IInv, Stores, Clients
<1>4. CASE LoseKeys
  <2>1. UNCHANGED <<algorithm, clock, at, now>>
    BY <1>4 DEF LoseKeys, config
  <2>2. ASSUME NEW k \in Stores, NEW c \in Clients
        PROVE  KeyBacked(keys[k][c])'
    <3>1. keys'[k][c] = None \/ keys'[k][c] = keys[k][c]
      BY <1>4, <1>t, KeysLost
    <3>2. KeyBacked(keys[k][c])
      BY DEF IInv
    <3>3. QED
      BY <2>1, <3>1, <3>2 DEF KeyBacked
  <2>3. QED
    BY <1>t, <2>1, <2>2 DEF IInv, Stores, Clients
<1>5. QED
  BY <1>1, <1>2, <1>3, <1>4 DEF Next, Answered

\* Type correctness of the demo app; Retry-After never asks for more than a
\* window.
THEOREM TypeCorrect == Spec => []TypeOK
<1>1. IInv => TypeOK
  BY DEF IInv
<1>2. QED
  BY <1>1, InitInv, NextInv, PTL DEF Spec

\* Over Redis every verdict and every entry is what the Python step makes of
\* the entry as it was left, expired or not: each script does what its twin
\* does, and the TTLs of the four are long enough, for every limit and window,
\* fractions of a second included.
THEOREM RedisAnswersAsMemoryHolds == Spec => []RedisAnswersAsMemory
<1>1. IInv => RedisAnswersAsMemory
  <2> SUFFICES ASSUME IInv, NEW c \in Clients, NEW lag \in 0..Tolerance(algorithm),
                      keys["redis"][c] # None
               PROVE  Script(algorithm, Value(keys["redis"][c], clock), clock - lag, 1)
                        = Step(algorithm, keys["redis"][c].entry, clock - lag, 1)
    BY DEF RedisAnswersAsMemory
  <2>1. algorithm \in ALGORITHMS /\ clock \in Int
    BY MiddlewareAssumption DEF IInv, TypeOK, Time
  <2>2. PICK key : key = keys["redis"][c]
    OBVIOUS
  <2>3. KeyBacked(key) /\ key # None
    BY <2>2 DEF IInv, Stores
  <2>4. PICK u \in Int : /\ u = key.expires - Ttl(algorithm) /\ key.expires \in Int
                         /\ Backed(algorithm, key.entry, u)
    BY <2>3 DEF KeyBacked
  <2>5. Ttl(algorithm) \in Nat /\ Tolerance(algorithm) \in Nat
    BY <2>1, TtlCovers
  <2>6. PICK t \in Int : t = clock - lag
    BY <2>1, <2>5
  <2>7. CASE clock < key.expires
    <3>1. Value(key, clock) = key.entry
      BY <2>3, <2>7 DEF Value
    <3>2. Script(algorithm, key.entry, t, 1) = Step(algorithm, key.entry, t, 1)
      BY <2>1, <2>4, ScriptIsStep
    <3>3. QED
      BY <2>2, <2>6, <3>1, <3>2
  <2>8. CASE ~(clock < key.expires)
    <3>1. Value(key, clock) = None
      BY <2>8 DEF Value
    <3>2. t >= u + Ttl(algorithm) - Tolerance(algorithm)
      BY <2>1, <2>4, <2>5, <2>6, <2>8
    <3>3. Step(algorithm, key.entry, t, 1) = Step(algorithm, None, t, 1)
      BY <2>1, <2>4, <3>2, ExpiredMeansNothing
    <3>4. Script(algorithm, None, t, 1) = Step(algorithm, None, t, 1)
      BY <2>1, ScriptIsStep
    <3>5. QED
      BY <2>2, <2>6, <3>1, <3>3, <3>4
  <2>9. QED
    BY <2>7, <2>8
<1>2. QED
  BY <1>1, InitInv, NextInv, PTL DEF Spec

-----------------------------------------------------------------------------
(* The share of a window.                                                  *)

\* Excused steps add to the bound.
LEMMA ExtraGrows ==
  ASSUME NEW x \in Nat, NEW y \in Nat, x <= y
  PROVE  /\ Window * Limit \in Nat
         /\ Window * Limit * x \in Nat /\ Window * Limit * y \in Nat
         /\ Window * Limit * x <= Window * Limit * y
         /\ y = x + 1 => Window * Limit * y = Window * Limit * x + Window * Limit
<1>1. PICK p \in Nat : p = Window * Limit
  BY ConfigAssumption
<1>2. x * p \in Nat /\ y * p \in Nat /\ x * p <= y * p
  BY ProductMonotone
<1>3. p * x = x * p /\ p * y = y * p /\ (y = x + 1 => p * y = p * x + p)
  OBVIOUS
<1>4. QED
  BY <1>1, <1>2, <1>3

\* The bound holds on as time passes.
LEMMA BoundedLater ==
  ASSUME NEW a \in ALGORITHMS, NEW e, NEW m \in Int, e = None \/ Sound(a, e, m),
         NEW g \in Nat, NEW x \in Nat, NEW y \in Nat, x <= y,
         NEW r \in Int, NEW q \in Int, m <= r, r <= q,
         NEW w \in Int, Bounded(a, e, g, x, r, w)
  PROVE  Bounded(a, e, g, y, q, w)
<1>1. /\ WindowOf(r) \in Int /\ WindowOf(q) \in Int /\ WindowOf(r) <= WindowOf(q)
      /\ Window \in Nat
  BY WindowOfMonotone, ConfigAssumption
<1>2. PICK p \in Nat, i \in Nat, j \in Nat :
        /\ p = Window * Limit /\ i = Window * Limit * x /\ j = Window * Limit * y
        /\ i <= j
  BY ExtraGrows
<1>3. PICK d \in Int, f \in Int, h \in Int :
        /\ d = ShareUntil(a, r) /\ f = ShareUntil(a, q) /\ h = ShareUntil(a, Window - 1)
        /\ p <= d /\ p <= f /\ p <= h /\ d <= h /\ f <= h
  <2>1. Window - 1 \in Int
    BY <1>1
  <2>2. QED
    BY <1>2, <2>1, ShareUntilBounded
<1>4. PICK u \in Int, v \in Int :
        /\ u = Room(a, e, r) /\ v = Room(a, e, q)
        /\ 0 <= u /\ 0 <= v /\ u <= p /\ v <= p
  <2>1. m <= q
    OBVIOUS
  <2>2. QED
    BY <1>2, <2>1, RoomRange
<1>5. PICK z \in Int : z = Window * g /\ (g = 0 => z = 0)
  BY <1>1
<1>6. /\ w > WindowOf(r) => g = 0
      /\ w = WindowOf(r) => z + u <= d + i
      /\ w < WindowOf(r) => z <= h + i
  BY <1>2, <1>3, <1>4, <1>5 DEF Bounded
<1>7. WindowOf(r) = WindowOf(q) => v - f <= u - d
  BY <1>3, <1>4, RoomGrows
<1>8. w > WindowOf(q) => g = 0
  BY <1>1, <1>6
<1>9. w = WindowOf(q) => z + v <= f + j
  <2>1. CASE WindowOf(r) = WindowOf(q)
    BY <2>1, <1>2, <1>6, <1>7
  <2>2. CASE WindowOf(r) # WindowOf(q)
    BY <2>2, <1>1, <1>2, <1>3, <1>4, <1>5, <1>6
  <2>3. QED
    BY <2>1, <2>2
<1>10. w < WindowOf(q) => z <= h + j
  <2>1. CASE w > WindowOf(r)
    BY <2>1, <1>2, <1>3, <1>5, <1>6
  <2>2. CASE w = WindowOf(r)
    BY <2>2, <1>2, <1>3, <1>4, <1>6
  <2>3. CASE w < WindowOf(r)
    BY <2>3, <1>2, <1>6
  <2>4. QED
    BY <1>1, <2>1, <2>2, <2>3
<1>11. QED
  BY <1>2, <1>3, <1>4, <1>5, <1>8, <1>9, <1>10 DEF Bounded

\* It holds on when a step runs with a timestamp in order.
LEMMA BoundedStep ==
  ASSUME NEW a \in ALGORITHMS, NEW e, NEW m \in Int, e = None \/ Sound(a, e, m),
         NEW g \in Nat, NEW x \in Nat, NEW t \in Time, m <= t,
         NEW w \in Int, Bounded(a, e, g, x, t, w),
         NEW yes \in BOOLEAN, yes = Step(a, e, t, NumberOf(a, e, t)).allowed,
         NEW f, f = Step(a, e, t, NumberOf(a, e, t)).entry,
         NEW h \in Nat, h = IF yes /\ w = WindowOf(t) THEN g + 1 ELSE g
  PROVE  Bounded(a, f, h, x, t, w)
<1>1. /\ t \in Int /\ Window \in Nat /\ Window * g \in Nat
      /\ Window * (g + 1) = Window * g + Window
  BY MiddlewareAssumption, ConfigAssumption DEF Time
<1>2. CASE w # WindowOf(t)
  BY <1>2 DEF Bounded
<1>3. CASE w = WindowOf(t)
  <2>1. Room(a, f, t) + (IF yes THEN Window ELSE 0) <= Room(a, e, t)
    BY RoomSpent
  <2>2. PICK u \in Int : u = Room(a, e, t)
    BY <1>1, RoomRange
  <2>3. PICK v \in Int : v = Room(a, f, t)
    <3>1. f # None /\ Sound(a, f, t)
      BY <1>1, StepSound
    <3>2. QED
      BY <1>1, <3>1, RoomRange
  <2>4. PICK b \in Int : b = ShareUntil(a, t) + Window * Limit * x
    BY <1>1, ExtraGrows, ShareUntilBounded
  <2>5. Window * g + u <= b
    BY <1>3, <2>2, <2>4 DEF Bounded
  <2>6. Window * h = Window * g + (IF yes THEN Window ELSE 0)
    BY <1>1, <1>3
  <2>7. Window * h + v <= b
    <3>1. PICK i \in Int : i = (IF yes THEN Window ELSE 0)
      BY <1>1
    <3>2. PICK z \in Int : z = Window * g
      BY <1>1
    <3>3. Window * h = z + i /\ z + u <= b /\ v + i <= u
      BY <2>1, <2>2, <2>3, <2>5, <2>6, <3>1, <3>2
    <3>4. QED
      BY <3>3
  <2>8. QED
    BY <1>3, <2>3, <2>4, <2>7 DEF Bounded
<1>4. QED
  BY <1>2, <1>3

\* And when the entry is lost.
LEMMA BoundedForgotten ==
  ASSUME NEW a \in ALGORITHMS, NEW e, NEW m \in Int, e = None \/ Sound(a, e, m),
         NEW g \in Nat, NEW x \in Nat, NEW r \in Int, m <= r,
         NEW w \in Int, Bounded(a, e, g, x, r, w)
  PROVE  Bounded(a, None, g, x + 1, r, w)
<1>1. PICK p \in Nat, i \in Nat, j \in Nat :
        /\ p = Window * Limit /\ i = Window * Limit * x /\ j = Window * Limit * (x + 1)
        /\ j = i + p
  <2>1. x + 1 \in Nat /\ x <= x + 1 /\ x + 1 = x + 1
    OBVIOUS
  <2>2. QED
    BY <2>1, ExtraGrows
<1>2. PICK u \in Nat, v \in Nat :
        u = Room(a, e, r) /\ v = Room(a, None, r) /\ v <= p
  <2>1. Room(a, e, r) \in Nat
    BY RoomRange
  <2>2. Room(a, None, r) \in Nat /\ Room(a, None, r) <= Window * Limit
    <3>1. None = None \/ Sound(a, None, m)
      OBVIOUS
    <3>2. QED
      BY <3>1, RoomRange
  <2>3. QED
    BY <1>1, <2>1, <2>2
<1>3. PICK z \in Int : z = Window * g
  BY ConfigAssumption
<1>4. PICK b \in Int, d \in Int : b = ShareUntil(a, r) /\ d = ShareUntil(a, Window - 1)
  <2>1. Window - 1 \in Int
    BY ConfigAssumption
  <2>2. QED
    BY <2>1, ShareUntilBounded
<1>5. /\ w > WindowOf(r) => g = 0
      /\ w = WindowOf(r) => z + u <= b + i
      /\ w < WindowOf(r) => z <= d + i
  BY <1>1, <1>2, <1>3, <1>4 DEF Bounded
<1>6. /\ w = WindowOf(r) => z + v <= b + j
      /\ w < WindowOf(r) => z <= d + j
  BY <1>1, <1>2, <1>5
<1>7. QED
  BY <1>1, <1>2, <1>3, <1>4, <1>5, <1>6 DEF Bounded

\* And when one runs that is excused.
LEMMA BoundedExcused ==
  ASSUME NEW a \in ALGORITHMS, NEW e, NEW m \in Int, e = None \/ Sound(a, e, m),
         NEW g \in Nat, NEW x \in Nat, NEW t \in Time, NEW r \in Int, m <= r, t <= r,
         NEW w \in Int, Bounded(a, e, g, x, r, w),
         NEW o, o = e \/ o = None,
         o = e \/ (a = "token_bucket" => Room(a, e, r) = Limit * Window),
         NEW yes \in BOOLEAN, yes = Step(a, o, t, NumberOf(a, o, t)).allowed,
         NEW f, f = Step(a, o, t, NumberOf(a, o, t)).entry,
         NEW h \in Nat, h = IF yes /\ w = WindowOf(t) THEN g + 1 ELSE g
  PROVE  Bounded(a, f, h, x + 1, r, w)
<1>1. /\ t \in Int /\ Window \in Nat /\ Window - 1 \in Int
      /\ WindowOf(t) \in Int /\ WindowOf(r) \in Int /\ WindowOf(t) <= WindowOf(r)
  BY MiddlewareAssumption, ConfigAssumption, WindowOfMonotone DEF Time
<1>2. PICK p \in Nat, i \in Nat, j \in Nat :
        /\ p = Window * Limit /\ i = Window * Limit * x /\ j = Window * Limit * (x + 1)
        /\ j = i + p
  <2>1. x + 1 \in Nat /\ x <= x + 1 /\ x + 1 = x + 1
    OBVIOUS
  <2>2. QED
    BY <2>1, ExtraGrows
<1>3. PICK z \in Int, n \in Int :
        /\ z = Window * g /\ n = Window * h
        /\ n = z + (IF yes /\ w = WindowOf(t) THEN Window ELSE 0)
  <2>1. Window * g \in Int /\ Window * (g + 1) = Window * g + Window
    BY <1>1
  <2>2. QED
    BY <2>1, <1>1
<1>4. PICK u \in Int, v \in Int :
        /\ u = Room(a, e, r) /\ v = Room(a, f, r)
        /\ v + (IF yes /\ WindowOf(t) = WindowOf(r) THEN Window ELSE 0) <= u + p
  <2>1. /\ f # None /\ Sound(a, f, r)
        /\ Room(a, f, r) + (IF yes /\ WindowOf(t) = WindowOf(r) THEN Window ELSE 0)
             <= Room(a, e, r) + Window * Limit
    BY RoomExcused
  <2>2. Room(a, e, r) \in Int
    BY RoomRange
  <2>3. Room(a, f, r) \in Int
    <3>1. r <= r
      OBVIOUS
    <3>2. QED
      BY <2>1, <3>1, RoomRange
  <2>4. QED
    BY <1>2, <2>1, <2>2, <2>3
<1>5. PICK b \in Int, d \in Int : b = ShareUntil(a, r) /\ d = ShareUntil(a, Window - 1)
  BY <1>1, ShareUntilBounded
<1>6. /\ w > WindowOf(r) => g = 0
      /\ w = WindowOf(r) => z + u <= b + i
      /\ w < WindowOf(r) => z <= d + i
  BY <1>2, <1>3, <1>4, <1>5 DEF Bounded
<1>7. Window <= p
  <2>1. 1 \in Int /\ Limit \in Int /\ 1 <= Limit
    BY ConfigAssumption, RedisAssumption
  <2>2. 1 * Window <= Limit * Window
    BY <1>1, <2>1, ProductMonotone
  <2>3. QED
    BY <1>1, <1>2, <2>1, <2>2
<1>8. w > WindowOf(r) => h = 0
  BY <1>1, <1>6
<1>9. w = WindowOf(r) => n + v <= b + j
  BY <1>1, <1>2, <1>3, <1>4, <1>6
<1>10. w < WindowOf(r) => n <= d + j
  BY <1>1, <1>2, <1>3, <1>6, <1>7
<1>11. QED
  BY <1>2, <1>3, <1>4, <1>5, <1>8, <1>9, <1>10 DEF Bounded

\* The same of a step that numbers its stamp.
LEMMA ExpiredNumbersFromOne ==
  ASSUME NEW a \in ALGORITHMS, NEW e, NEW s \in Int, Backed(a, e, s),
         NEW t \in Int, t >= s + Ttl(a) - Tolerance(a)
  PROVE  Step(a, e, t, NumberOf(a, e, t)) = Step(a, None, t, NumberOf(a, None, t))
<1>1. Step(a, e, t, 1) = Step(a, None, t, 1)
  BY ExpiredMeansNothing
<1>2. CASE a # "sliding_window_log"
  <2>1. ASSUME NEW f PROVE Step(a, f, t, 0) = Step(a, f, t, 1)
    BY <1>2 DEF Step, ALGORITHMS
  <2>2. NumberOf(a, e, t) = 0 /\ NumberOf(a, None, t) = 0
    BY <1>2 DEF NumberOf
  <2>3. QED
    BY <1>1, <2>1, <2>2
<1>3. CASE a = "sliding_window_log"
  <2>1. /\ Ttl(a) \in Nat /\ Tolerance(a) \in Nat /\ Ttl(a) - Tolerance(a) >= Window
        /\ Window \in Nat \ {0}
    BY <1>3, TtlCovers, ConfigAssumption
  <2>2. s < t
    BY <2>1
  <2>3. \A x \in e : x.t \in Int /\ x.t <= s
    BY <1>3 DEF Backed
  <2>4. {x \in e : x.t = t} = {}
    BY <2>2, <2>3
  <2>5. FreshNumber(e, t) = 1 /\ FreshNumber(None, t) = 1
    <3>1. Cardinality({x \in e : x.t = t}) = 0
      BY <2>4, FS_EmptySet
    <3>2. FreshNumber(e, t) = 1 + IF e = None THEN 0 ELSE Cardinality({x \in e : x.t = t})
      BY DEF FreshNumber
    <3>3. FreshNumber(None, t) = 1 + 0
      BY DEF FreshNumber
    <3>4. QED
      BY <3>1, <3>2, <3>3
  <2>6. QED
    BY <1>1, <1>3, <2>5 DEF NumberOf
<1>4. QED
  BY <1>2, <1>3

\* The step of s is late, or long after its timestamp.
Excusable(s) == now[s] < newest[KeyFunc(s)] \/ now[s] < clock - Tolerance(algorithm)

LEMMA ReachType ==
  ASSUME TypeOK, NEW c \in Clients
  PROVE  /\ Reach(c) \in Int /\ newest[c] \in Int /\ newest[c] <= Reach(c)
         /\ clock - Tolerance(algorithm) \in Int /\ clock - Tolerance(algorithm) <= Reach(c)
<1>1. clock \in Int /\ newest[c] \in Int /\ Tolerance(algorithm) \in Nat
  BY TtlCovers, MiddlewareAssumption DEF TypeOK, Time
<1>2. QED
  BY <1>1 DEF Reach

\* What a step finds: the entry of its key or, when Redis has dropped it, none;
\* which makes no difference to one whose timestamp is in order.
LEMMA ResultIsStep ==
  ASSUME IInv, NEW s \in Senders, at[s] # None,
         NEW e, e = EntryIn(keys[StoreOf(at[s])][KeyFunc(s)])
  PROVE  LET o == EntryOf(s)
         IN  /\ o = e \/ o = None
             /\ ResultOf(s) = Step(algorithm, o, now[s], NumberOf(algorithm, o, now[s]))
             /\ ~Excusable(s) => ResultOf(s)
                  = Step(algorithm, e, now[s], NumberOf(algorithm, e, now[s]))
             /\ o = e \/ (algorithm = "token_bucket" =>
                            Room(algorithm, e, Reach(KeyFunc(s))) = Limit * Window)
<1>1. /\ TypeOK /\ at[s] \in Instances /\ now[s] \in Int /\ clock \in Int
      /\ algorithm \in ALGORITHMS
  BY MiddlewareAssumption DEF IInv, TypeOK, Time
<1> PICK c \in Clients : c = KeyFunc(s)
  BY <1>1, KeyFuncType
<1> PICK key : key = keys[StoreOf(at[s])][c]
  OBVIOUS
<1> PICK o : o = EntryOf(s)
  OBVIOUS
<1> PICK t \in Int : t = now[s]
  BY <1>1
<1>2. KeyBacked(key)
  BY <1>1, StoreOfType DEF IInv
<1>3. /\ e = IF key = None THEN None ELSE key.entry
      /\ o = IF backend = "redis" THEN Value(key, clock) ELSE e
  BY DEF EntryIn, EntryOf
<1>4. o = e \/ (o = None /\ key # None /\ ~(clock < key.expires) /\ e = key.entry)
  BY <1>3 DEF Value
<1>5. Ttl(algorithm) \in Nat /\ Tolerance(algorithm) \in Nat
  BY <1>1, TtlCovers
<1>6. ResultOf(s) = Step(algorithm, o, t, NumberOf(algorithm, o, t))
  <2>1. PICK n : n = NumberOf(algorithm, o, t)
    OBVIOUS
  <2>2. ResultOf(s) = IF backend = "redis" THEN Script(algorithm, o, t, n)
                      ELSE Step(algorithm, o, t, n)
    BY <2>1 DEF ResultOf, NumberOf
  <2>3. PICK u \in Int : o = None \/ Backed(algorithm, o, u)
    <3>1. CASE o = None
      BY <3>1, <1>1
    <3>2. CASE o # None
      BY <3>2, <1>2, <1>3, <1>4 DEF KeyBacked
    <3>3. QED
      BY <3>1, <3>2
  <2>4. Script(algorithm, o, t, n) = Step(algorithm, o, t, n)
    BY <1>1, <2>3, ScriptIsStep
  <2>5. QED
    BY <2>1, <2>2, <2>4
<1>7. ASSUME o # e
      PROVE  /\ ~Excusable(s) => Step(algorithm, o, t, NumberOf(algorithm, o, t))
                                   = Step(algorithm, e, t, NumberOf(algorithm, e, t))
             /\ algorithm = "token_bucket" =>
                  Room(algorithm, e, Reach(c)) = Limit * Window
  <2>1. o = None /\ key # None /\ ~(clock < key.expires) /\ e = key.entry
    BY <1>4, <1>7
  <2>2. PICK u \in Int : /\ Backed(algorithm, e, u)
                         /\ clock - Tolerance(algorithm)
                              >= u + Ttl(algorithm) - Tolerance(algorithm)
    <3>1. /\ key.expires \in Int /\ key.expires - Ttl(algorithm) \in Int
          /\ Backed(algorithm, e, key.expires - Ttl(algorithm))
      BY <1>2, <2>1 DEF KeyBacked
    <3>2. PICK u \in Int : u = key.expires - Ttl(algorithm)
      BY <3>1
    <3>3. clock - Tolerance(algorithm) >= u + Ttl(algorithm) - Tolerance(algorithm)
      BY <1>1, <1>5, <2>1, <3>1, <3>2
    <3>4. QED
      BY <3>1, <3>2, <3>3
  <2>3. ASSUME ~Excusable(s)
        PROVE  Step(algorithm, o, t, NumberOf(algorithm, o, t))
                 = Step(algorithm, e, t, NumberOf(algorithm, e, t))
    <3>1. t >= clock - Tolerance(algorithm)
      BY <2>3, <1>1, <1>5 DEF Excusable
    <3>2. t >= u + Ttl(algorithm) - Tolerance(algorithm)
      BY <2>2, <3>1, <1>1, <1>5
    <3>3. QED
      BY <1>1, <2>1, <2>2, <3>2, ExpiredNumbersFromOne
  <2>4. ASSUME algorithm = "token_bucket"
        PROVE  Room(algorithm, e, Reach(c)) = Limit * Window
    <3>1. PICK r \in Int : r = Reach(c) /\ r >= clock - Tolerance(algorithm)
      BY <1>1, ReachType
    <3>2. r >= u + Ttl(algorithm) - Tolerance(algorithm)
      BY <2>2, <3>1, <1>1, <1>5
    <3>3. Refilled(DefaultBucket, e, r) = Limit * Window
      BY <2>2, <2>4, <3>2, ExpiredBucketIsFull
    <3>4. QED
      BY <2>1, <2>4, <1>7, <3>1, <3>3 DEF Room
  <2>5. QED
    BY <2>3, <2>4
<1>8. QED
  BY <1>4, <1>6, <1>7

\* Time passes, and requests are taken up.
LEMMA ShareWaits ==
  ASSUME TypeOK, TypeOK', ShareInv,
         UNCHANGED <<algorithm, backend, keys, granted, newest, excused, losses>>,
         clock <= clock'
  PROVE  ShareInv'
<1>1. /\ algorithm \in ALGORITHMS /\ clock \in Int /\ clock' \in Int
      /\ Tolerance(algorithm) \in Nat
  BY TtlCovers, MiddlewareAssumption DEF TypeOK, Time
<1>x. PICK x \in Nat : x = Extras /\ x = Extras'
  BY DEF TypeOK, Extras
<1>2. Counted' = Counted /\ Clients' = Clients /\ Windows' = Windows
  BY DEF Counted, Clients, Windows, Time
<1>3. ASSUME NEW k \in Counted, NEW c \in Clients,
             keys'[k][c] # None
      PROVE  keys'[k][c].entry # None /\ Sound(algorithm', keys'[k][c].entry, newest'[c])
  BY <1>3 DEF ShareInv
<1>4. ASSUME NEW k \in Counted, NEW c \in Clients, NEW w \in Windows
      PROVE  WithinShare(k, c, w)'
  <2>1. PICK e : e = EntryIn(keys[k][c])
    OBVIOUS
  <2>2. PICK r \in Int, m \in Int : r = Reach(c) /\ m = newest[c] /\ m <= r
    BY ReachType
  <2>3. PICK q \in Int : q = Reach(c)' /\ r <= q
    <3>1. clock - Tolerance(algorithm) <= clock' - Tolerance(algorithm)
      BY <1>1
    <3>2. clock - Tolerance(algorithm) \in Int /\ clock' - Tolerance(algorithm) \in Int
      BY <1>1
    <3>3. /\ r = IF clock - Tolerance(algorithm) > m THEN clock - Tolerance(algorithm) ELSE m
          /\ Reach(c)' = IF clock' - Tolerance(algorithm) > m THEN clock' - Tolerance(algorithm)
                         ELSE m
      BY <2>2 DEF Reach
    <3>4. QED
      BY <2>2, <3>1, <3>2, <3>3
  <2>4. PICK g \in Nat : g = granted[k][c][w]
    BY DEF Counted, Stores, TypeOK
  <2>5. e = None \/ Sound(algorithm, e, m)
    BY <2>1, <2>2 DEF ShareInv, EntryIn
  <2>6. Bounded(algorithm, e, g, x, r, w)
    BY <1>x, <2>1, <2>2, <2>4 DEF ShareInv, WithinShare
  <2>7. w \in Int
    BY WindowOfMonotone, MiddlewareAssumption DEF Windows, Time
  <2>8. Bounded(algorithm, e, g, x, q, w)
    <3>1. x <= x
      OBVIOUS
    <3>2. QED
      BY <1>1, <2>2, <2>3, <2>5, <2>6, <2>7, <3>1, BoundedLater
  <2>9. e = EntryIn(keys'[k][c]) /\ g = granted'[k][c][w]
    BY <2>1, <2>4
  <2>10. QED
    BY <1>x, <2>3, <2>8, <2>9 DEF WithinShare, EntryIn
<1>5. QED
  BY <1>2, <1>3, <1>4 DEF ShareInv

\* What a step does to the keys, and to what bounds the timestamps to come.
LEMMA EffectMoves ==
  ASSUME IInv, NEW s \in Senders, at[s] # None, TakeEffect(s), clock' = clock,
         UNCHANGED config, TypeOK',
         NEW k0 \in Stores, k0 = StoreOf(at[s]), NEW c0 \in Clients, c0 = KeyFunc(s),
         NEW t \in Time, t = now[s]
  PROVE  /\ \A k \in Stores, c \in Clients :
              keys'[k][c] = IF k = k0 /\ c = c0
                              THEN Key(ResultOf(s).entry, clock + Ttl(algorithm))
                              ELSE keys[k][c]
         /\ \A c \in Clients : newest'[c] = IF c = c0 /\ t > newest[c] THEN t ELSE newest[c]
         /\ \A c \in Clients : c # c0 => Reach(c)' = Reach(c)
         /\ Excusable(s) => /\ excused' = excused + 1
                            /\ Reach(c0)' = Reach(c0) /\ t <= Reach(c0)
         /\ ~Excusable(s) => /\ excused' = excused
                             /\ Reach(c0)' = t /\ Reach(c0) <= t
         /\ Reach(c0) <= Reach(c0)'
<1>1. /\ TypeOK /\ clock \in Int /\ t \in Int /\ newest[c0] \in Int
      /\ Tolerance(algorithm) \in Nat /\ excused \in Nat
      /\ newest \in [Clients -> Time \cup {-1}]
  BY TtlCovers, MiddlewareAssumption DEF IInv, TypeOK, Time
<1>2. algorithm' = algorithm /\ clock' = clock
  BY DEF config
<1>3. \A k \in Stores, c \in Clients :
        keys'[k][c] = IF k = k0 /\ c = c0
                        THEN Key(ResultOf(s).entry, clock + Ttl(algorithm))
                        ELSE keys[k][c]
  <2>1. PICK key : key = Key(ResultOf(s).entry, clock + Ttl(algorithm))
    OBVIOUS
  <2>2. keys' = [keys EXCEPT ![k0][c0] = key]
    BY <2>1 DEF TakeEffect
  <2>3. DOMAIN keys = Stores /\ \A k \in Stores : DOMAIN keys[k] = Clients
    BY <1>1 DEF TypeOK
  <2>4. ASSUME NEW k \in Stores
        PROVE  keys'[k] = IF k = k0 THEN [keys[k] EXCEPT ![c0] = key] ELSE keys[k]
    BY <2>2, <2>3
  <2>5. QED
    BY <2>1, <2>3, <2>4
<1>4. newest' = [newest EXCEPT ![c0] = IF t > newest[c0] THEN t ELSE newest[c0]]
  BY DEF TakeEffect
<1>5. \A c \in Clients : newest'[c] = IF c = c0 /\ t > newest[c] THEN t ELSE newest[c]
  BY <1>1, <1>4
<1>6. \A c \in Clients : c # c0 => Reach(c)' = Reach(c)
  BY <1>2, <1>5 DEF Reach
<1>7. PICK n \in Int, d \in Int : n = newest[c0] /\ d = clock - Tolerance(algorithm)
  BY <1>1
<1>8. Reach(c0) = IF d > n THEN d ELSE n
  BY <1>7 DEF Reach
<1>9. Reach(c0)' = IF d > (IF t > n THEN t ELSE n) THEN d ELSE (IF t > n THEN t ELSE n)
  <2>1. PICK v : v = newest'[c0]
    OBVIOUS
  <2>2. v = IF t > n THEN t ELSE n
    BY <1>5, <1>7, <2>1
  <2>3. Reach(c0)' = IF d > v THEN d ELSE v
    BY <1>2, <1>7, <2>1 DEF Reach
  <2>4. QED
    BY <2>2, <2>3
<1>10. Excusable(s) <=> t < n \/ t < d
  BY <1>7 DEF Excusable
<1>11. excused' = excused + IF Excusable(s) THEN 1 ELSE 0
  BY DEF TakeEffect, Excusable
<1>12. /\ Excusable(s) => /\ excused' = excused + 1
                          /\ Reach(c0)' = Reach(c0) /\ t <= Reach(c0)
       /\ ~Excusable(s) => /\ excused' = excused
                           /\ Reach(c0)' = t /\ Reach(c0) <= t
       /\ Reach(c0) <= Reach(c0)'
  BY <1>1, <1>8, <1>9, <1>10, <1>11
<1>13. QED
  BY <1>3, <1>5, <1>6, <1>12

LEMMA SoundLater ==
  ASSUME NEW a \in ALGORITHMS, NEW e, NEW m \in Int, Sound(a, e, m), NEW u \in Int, m <= u
  PROVE  Sound(a, e, u)
<1>1. CASE a # "token_bucket"
  BY <1>1 DEF Sound, ALGORITHMS
<1>2. CASE a = "token_bucket"
  <2>1. /\ e \in TokenBucketEntry /\ e.tokens <= Limit * Window
        /\ e.tokens + (m - e.last) * Limit >= 0
        /\ e.tokens \in Int /\ e.last \in Int
    BY <1>2 DEF Sound, TokenBucketEntry
  <2>2. /\ (m - e.last) * Limit \in Int /\ (u - e.last) * Limit \in Int
        /\ (m - e.last) * Limit <= (u - e.last) * Limit
    BY <2>1, ConfigAssumption, ProductMonotone
  <2>3. e.tokens + (u - e.last) * Limit >= 0
    BY <2>1, <2>2
  <2>4. QED
    BY <1>2, <2>1, <2>3 DEF Sound
<1>3. QED
  BY <1>1, <1>2

LEMMA BoundedLess ==
  ASSUME NEW a, NEW e, NEW g \in Nat, NEW h \in Nat, g <= h, NEW x \in Nat,
         NEW r \in Int, NEW w \in Int, Room(a, e, r) \in Int,
         Bounded(a, e, h, x, r, w)
  PROVE  Bounded(a, e, g, x, r, w)
<1>1. PICK z \in Int, n \in Int : z = Window * g /\ n = Window * h /\ z <= n
  <2>1. g * Window \in Int /\ h * Window \in Int /\ g * Window <= h * Window
    BY ConfigAssumption, ProductMonotone
  <2>2. g * Window = Window * g /\ h * Window = Window * h
    BY ConfigAssumption
  <2>3. QED
    BY <2>1, <2>2
<1>2. PICK b \in Int, d \in Int, i \in Int :
        /\ b = ShareUntil(a, r) /\ d = ShareUntil(a, Window - 1) /\ i = Window * Limit * x
  <2>1. Window - 1 \in Int
    BY ConfigAssumption
  <2>2. ShareUntil(a, r) \in Int /\ ShareUntil(a, Window - 1) \in Int
    BY <2>1, ShareUntilBounded
  <2>3. Window * Limit * x \in Int
    BY ExtraGrows
  <2>4. QED
    BY <2>2, <2>3
<1>3. PICK u \in Int : u = Room(a, e, r)
  OBVIOUS
<1>4. /\ w > WindowOf(r) => h = 0
      /\ w = WindowOf(r) => n + u <= b + i
      /\ w < WindowOf(r) => n <= d + i
  BY <1>1, <1>2, <1>3 DEF Bounded
<1>5. /\ w > WindowOf(r) => g = 0
      /\ w = WindowOf(r) => z + u <= b + i
      /\ w < WindowOf(r) => z <= d + i
  BY <1>1, <1>4
<1>6. QED
  BY <1>1, <1>2, <1>3, <1>5 DEF Bounded

\* The store that a step of s works on is one that is counted.
LEMMA StoreCounted ==
  ASSUME TypeOK, NEW s \in Senders, at[s] # None
  PROVE  /\ StoreOf(at[s]) \in Counted /\ Counted \subseteq Stores
         /\ StoreOf(at[s]) = Grantor(at[s])
BY DEF TypeOK, StoreOf, Grantor, Counted, Stores

\* A step of the limiter keeps within the shares, whether its verdict reaches
\* the sender or not.
LEMMA ShareStep ==
  ASSUME IInv, TypeOK', ShareInv, NEW s \in Senders, at[s] # None, TakeEffect(s),
         clock' = clock, UNCHANGED config, granted' = granted \/ Admit(s)
  PROVE  ShareInv'
<1>1. /\ TypeOK /\ algorithm \in ALGORITHMS
      /\ at[s] \in Instances /\ now[s] \in Time
  BY DEF IInv, TypeOK
<1>2. PICK k0 \in Stores : k0 = StoreOf(at[s]) /\ k0 \in Counted
  BY <1>1, StoreCounted
<1>3. PICK c0 \in Clients : c0 = KeyFunc(s)
  BY <1>1, KeyFuncType
<1>4. PICK t \in Time : t = now[s]
  BY <1>1
<1>5. t \in Int /\ WindowOf(t) \in Int
  BY WindowOfMonotone, MiddlewareAssumption DEF Time
<1>6. UNCHANGED <<algorithm, backend, clock>>
  BY DEF config
<1>7. /\ \A k \in Stores, c \in Clients :
           keys'[k][c] = IF k = k0 /\ c = c0
                           THEN Key(ResultOf(s).entry, clock + Ttl(algorithm))
                           ELSE keys[k][c]
      /\ \A c \in Clients : newest'[c] = IF c = c0 /\ t > newest[c] THEN t ELSE newest[c]
      /\ \A c \in Clients : c # c0 => Reach(c)' = Reach(c)
      /\ Excusable(s) => /\ excused' = excused + 1
                         /\ Reach(c0)' = Reach(c0) /\ t <= Reach(c0)
      /\ ~Excusable(s) => /\ excused' = excused
                          /\ Reach(c0)' = t /\ Reach(c0) <= t
      /\ Reach(c0) <= Reach(c0)'
  BY <1>2, <1>3, <1>4, EffectMoves
<1>x. PICK x \in Nat, y \in Nat :
        /\ x = Extras /\ y = Extras' /\ x <= y
        /\ Excusable(s) => y = x + 1
        /\ ~Excusable(s) => y = x
  <2>1. losses' = losses /\ losses \in Nat /\ excused \in Nat
    BY <1>1 DEF TakeEffect, TypeOK
  <2>2. /\ Excusable(s) => Extras' = Extras + 1
        /\ ~Excusable(s) => Extras' = Extras
    BY <1>7, <2>1 DEF Extras
  <2>3. Extras \in Nat
    BY <2>1 DEF Extras
  <2>4. QED
    BY <2>2, <2>3
<1>8. Counted' = Counted /\ Clients' = Clients /\ Windows' = Windows /\ Stores' = Stores
  BY <1>6 DEF Counted, Clients, Windows, Time, Stores
<1>9. \A k \in Counted, c \in Clients, w \in Windows :
        /\ granted'[k][c][w] \in Nat /\ granted[k][c][w] \in Nat
        /\ granted'[k][c][w] = granted[k][c][w]
           \/ /\ k = k0 /\ c = c0 /\ w = WindowOf(t) /\ ResultOf(s).allowed
              /\ granted'[k][c][w] = granted[k][c][w] + 1
  <2>1. Counted \subseteq Stores /\ k0 = Grantor(at[s])
    BY <1>1, <1>2, StoreCounted
  <2>2. granted \in [Stores -> [Clients -> [Windows -> Nat]]]
    BY <1>1 DEF TypeOK
  <2>3. CASE granted' = granted
    BY <2>1, <2>2, <2>3
  <2>4. CASE Admit(s)
    <3>1. /\ granted' \in [Stores -> [Clients -> [Windows -> Nat]]]
          /\ \A k \in Stores, c \in Clients, w \in Windows :
               granted'[k][c][w] =
                 IF k = Grantor(at[s]) /\ c = c0 /\ w = WindowOf(t)
                   THEN granted[k][c][w] + 1 ELSE granted[k][c][w]
      BY <2>4, <1>3, <1>4, GrantedMoves
    <3>2. ResultOf(s).allowed
      BY <2>4 DEF Admit
    <3>3. QED
      BY <2>1, <2>2, <3>1, <3>2
  <2>5. QED
    BY <2>3, <2>4
<1>10. ASSUME NEW c \in Clients
       PROVE  /\ newest[c] \in Int /\ newest'[c] \in Int
              /\ Reach(c) \in Int /\ Reach(c)' \in Int
              /\ newest[c] <= newest'[c] /\ newest'[c] <= Reach(c)'
              /\ Reach(c) <= Reach(c)' /\ newest[c] <= Reach(c)
  <2>1. newest[c] \in Int /\ Reach(c) \in Int /\ newest[c] <= Reach(c)
    BY <1>1, ReachType
  <2>2. newest'[c] \in Int /\ newest[c] <= newest'[c]
    BY <1>5, <1>7, <2>1
  <2>3. Reach(c)' \in Int /\ Reach(c) <= Reach(c)'
    BY <1>5, <1>7, <2>1
  <2>4. newest'[c] <= Reach(c)'
    <3>1. CASE c # c0
      BY <3>1, <1>7, <2>1
    <3>2. CASE c = c0
      BY <3>2, <1>5, <1>7, <2>1, <2>2, <2>3
    <3>3. QED
      BY <3>1, <3>2
  <2>5. QED
    BY <2>1, <2>2, <2>3, <2>4
<1> PICK e : e = EntryIn(keys[k0][c0])
  OBVIOUS
<1>11. e = None \/ Sound(algorithm, e, newest[c0])
  BY <1>2 DEF ShareInv, EntryIn
<1>12. PICK o : /\ o = e \/ o = None
                /\ ResultOf(s) = Step(algorithm, o, t, NumberOf(algorithm, o, t))
                /\ ~Excusable(s) => ResultOf(s) = Step(algorithm, e, t, NumberOf(algorithm, e, t))
                /\ o = e \/ (algorithm = "token_bucket" =>
                               Room(algorithm, e, Reach(c0)) = Limit * Window)
  BY <1>2, <1>3, <1>4, ResultIsStep
<1> PICK f : f = ResultOf(s).entry
  OBVIOUS
<1>13. f # None /\ Sound(algorithm, f, newest'[c0])
  <2>1. newest'[c0] \in Int /\ newest[c0] <= newest'[c0] /\ t <= newest'[c0]
    BY <1>5, <1>7, <1>10
  <2>2. o = None \/ Sound(algorithm, o, newest[c0])
    BY <1>11, <1>12
  <2>3. QED
    BY <1>1, <1>10, <1>12, <2>1, <2>2, StepSound
<1>140. f \in Entries /\ clock + Ttl(algorithm) \in Int
  <2>1. f \in Entries
    BY <1>1, <1>13 DEF Sound, Entries, ALGORITHMS
  <2>2. clock \in Int /\ Ttl(algorithm) \in Int
    BY <1>1, TtlCovers, MiddlewareAssumption DEF TypeOK, Time
  <2>3. QED
    BY <2>1, <2>2
<1>14. ASSUME NEW k \in Counted, NEW c \in Clients, keys'[k][c] # None
       PROVE  keys'[k][c].entry # None /\ Sound(algorithm, keys'[k][c].entry, newest'[c])
  <2>1. k \in Stores
    BY <1>1, StoreCounted
  <2>2. CASE k = k0 /\ c = c0
    <3>1. keys'[k][c].entry = f
      BY <1>7, <2>1, <2>2 DEF Key
    <3>2. QED
      BY <1>13, <2>2, <3>1
  <2>3. CASE ~(k = k0 /\ c = c0)
    <3>1. PICK key : key = keys[k][c] /\ key = keys'[k][c]
      BY <1>7, <2>1, <2>3
    <3>2. key.entry # None /\ Sound(algorithm, key.entry, newest[c])
      BY <1>14, <3>1 DEF ShareInv
    <3>3. Sound(algorithm, key.entry, newest'[c])
      BY <1>1, <1>10, <3>2, SoundLater
    <3>4. QED
      BY <3>1, <3>2, <3>3
  <2>4. QED
    BY <2>2, <2>3
<1>15. ASSUME NEW k \in Counted, NEW c \in Clients, NEW w \in Windows
       PROVE  Bounded(algorithm, EntryIn(keys'[k][c]), granted'[k][c][w], y, Reach(c)', w)
  <2>1. k \in Stores /\ w \in Int
    BY <1>1, StoreCounted, WindowOfMonotone, MiddlewareAssumption DEF Windows, Time
  <2>2. PICK g \in Nat : g = granted[k][c][w]
    BY <1>9
  <2>3. PICK r \in Int, q \in Int : r = Reach(c) /\ q = Reach(c)' /\ r <= q
    BY <1>10
  <2>4. PICK m \in Int : m = newest[c] /\ m <= r
    BY <1>10, <2>3
  <2>5. PICK d : d = EntryIn(keys[k][c])
    OBVIOUS
  <2>6. d = None \/ Sound(algorithm, d, m)
    BY <2>4, <2>5 DEF ShareInv, EntryIn
  <2>7. Bounded(algorithm, d, g, x, r, w)
    BY <1>x, <2>2, <2>3, <2>5 DEF ShareInv, WithinShare
  <2>8. CASE ~(k = k0 /\ c = c0)
    <3>1. EntryIn(keys'[k][c]) = d
      BY <1>7, <2>1, <2>5, <2>8
    <3>2. granted'[k][c][w] = g
      BY <1>9, <2>2, <2>8
    <3>3. x <= y
      BY <1>x
    <3>4. Bounded(algorithm, d, g, y, q, w)
      BY <1>1, <2>1, <2>3, <2>4, <2>6, <2>7, <3>3, BoundedLater
    <3>5. QED
      BY <2>3, <3>1, <3>2, <3>4
  <2>9. CASE k = k0 /\ c = c0
    <3>0. PICK yes \in BOOLEAN : yes <=> ResultOf(s).allowed
      OBVIOUS
    <3>1. PICK h \in Nat : h = IF yes /\ w = WindowOf(t) THEN g + 1 ELSE g
      OBVIOUS
    <3>2. d = e /\ EntryIn(keys'[k][c]) = f
      <4>1. keys'[k][c] = Key(f, clock + Ttl(algorithm))
        BY <1>7, <2>1, <2>9
      <4>2. PICK key : key = keys'[k][c]
        OBVIOUS
      <4>3. key.entry = f
        BY <4>1, <4>2 DEF Key
      <4>4. key # None
        BY <1>140, <4>1, <4>2, NoneIsNoKey DEF Key
      <4>5. QED
        BY <2>5, <2>9, <4>2, <4>3, <4>4 DEF EntryIn
    <3>3. granted'[k][c][w] \in Nat /\ granted'[k][c][w] <= h
      BY <1>9, <2>2, <3>0, <3>1
    <3>4. Bounded(algorithm, f, h, y, q, w)
      <4>1. CASE Excusable(s)
        <5>1. q = r /\ t <= r /\ y = x + 1
          BY <1>7, <1>x, <2>3, <2>9, <4>1
        <5>2. PICK res : res = Step(algorithm, o, t, NumberOf(algorithm, o, t))
          OBVIOUS
        <5>3. res.allowed \in BOOLEAN /\ f = res.entry /\ res = ResultOf(s)
          <6>1. o = None \/ Sound(algorithm, o, m)
            BY <1>12, <2>6, <3>2
          <6>2. res.allowed \in BOOLEAN
            BY <1>1, <1>5, <5>2, <6>1, AllowedType
          <6>3. QED
            BY <1>12, <5>2, <6>2
        <5>4. yes = res.allowed
          BY <3>0, <5>3
        <5>5. o = d \/ o = None
          BY <1>12, <3>2
        <5>6. o = d \/ (algorithm = "token_bucket" => Room(algorithm, d, r) = Limit * Window)
          BY <1>12, <2>3, <2>9, <3>2
        <5>7. Bounded(algorithm, f, h, x + 1, r, w)
          <6>1. r \in Int /\ m <= r /\ t <= r /\ w \in Int
            BY <2>1, <2>3, <2>4, <5>1
          <6>2. /\ yes = Step(algorithm, o, t, NumberOf(algorithm, o, t)).allowed
                /\ f = Step(algorithm, o, t, NumberOf(algorithm, o, t)).entry
            BY <5>2, <5>3, <5>4
          <6>3. QED
            BY <1>1, <2>6, <2>7, <3>1, <5>5, <5>6, <6>1, <6>2, BoundedExcused
        <5>8. QED
          BY <5>1, <5>7
      <4>2. CASE ~Excusable(s)
        <5>1. q = t /\ r <= t /\ y = x
          BY <1>7, <1>x, <2>3, <2>9, <4>2
        <5>2. PICK res : res = Step(algorithm, d, t, NumberOf(algorithm, d, t))
          OBVIOUS
        <5>3. res.allowed \in BOOLEAN /\ f = res.entry /\ res = ResultOf(s)
          <6>1. res.allowed \in BOOLEAN
            BY <1>1, <1>5, <2>6, <5>2, AllowedType
          <6>2. QED
            BY <1>12, <3>2, <4>2, <5>2, <6>1
        <5>4. yes = res.allowed
          BY <3>0, <5>3
        <5>5. Bounded(algorithm, d, g, x, t, w) /\ m <= t
          <6>1. x <= x /\ r <= t /\ m <= r /\ m <= t
            BY <1>5, <2>4, <5>1
          <6>2. QED
            BY <1>1, <1>5, <2>1, <2>6, <2>7, <6>1, BoundedLater
        <5>6. QED
          BY <1>1, <2>1, <2>4, <2>6, <3>1, <5>1, <5>2, <5>3, <5>4, <5>5, BoundedStep
      <4>3. QED
        BY <4>1, <4>2
    <3>5. Room(algorithm, f, q) \in Int
      BY <1>1, <1>10, <1>13, <2>3, <2>9, RoomRange
    <3>6. Bounded(algorithm, f, granted'[k][c][w], y, q, w)
      BY <1>1, <2>1, <2>3, <3>1, <3>3, <3>4, <3>5, BoundedLess
    <3>7. QED
      BY <2>3, <3>2, <3>6
  <2>10. QED
    BY <2>8, <2>9
<1>16. \A k \in Counted, c \in Clients, w \in Windows : WithinShare(k, c, w)'
  BY <1>6, <1>x, <1>15 DEF WithinShare, EntryIn
<1>17. QED
  BY <1>6, <1>8, <1>14, <1>16 DEF ShareInv

LEMMA InitShare == Init => ShareInv
<1> SUFFICES ASSUME Init PROVE ShareInv
  OBVIOUS
<1>1. TypeOK /\ algorithm \in ALGORITHMS
  BY InitInv DEF IInv, TypeOK
<1>2. ASSUME NEW k \in Counted, NEW c \in Clients, NEW w \in Windows
      PROVE  keys[k][c] = None /\ WithinShare(k, c, w)
  <2>1. k \in Stores
    BY DEF Counted, Stores
  <2>2. keys[k][c] = None /\ granted[k][c][w] = 0 /\ Extras = 0
    BY <2>1 DEF Init, Extras
  <2>3. PICK r \in Int : r = Reach(c)
    BY <1>1, ReachType
  <2>4. /\ Room(algorithm, None, r) \in Int /\ Room(algorithm, None, r) <= Window * Limit
        /\ Window * Limit \in Nat /\ Window * Limit * 0 = 0 /\ Window * 0 = 0
    <3>1. r <= r
      OBVIOUS
    <3>2. Room(algorithm, None, r) \in Int /\ Room(algorithm, None, r) <= Window * Limit
      BY <1>1, <3>1, RoomRange
    <3>3. Window * Limit \in Nat /\ Window * 0 = 0
      BY ConfigAssumption
    <3>4. PICK p \in Nat : p = Window * Limit
      BY <3>3
    <3>5. p * 0 = 0
      OBVIOUS
    <3>6. QED
      BY <3>2, <3>3, <3>4, <3>5
  <2>5. /\ ShareUntil(algorithm, r) \in Int /\ Window * Limit <= ShareUntil(algorithm, r)
        /\ ShareUntil(algorithm, r) <= ShareUntil(algorithm, Window - 1)
        /\ ShareUntil(algorithm, Window - 1) \in Int
    <3>1. Window - 1 \in Int
      BY ConfigAssumption
    <3>2. QED
      BY <3>1, ShareUntilBounded
  <2>6. PICK p \in Nat, b \in Int, d \in Int, u \in Int :
          /\ p = Window * Limit /\ b = ShareUntil(algorithm, r)
          /\ d = ShareUntil(algorithm, Window - 1) /\ u = Room(algorithm, None, r)
          /\ u <= p /\ p <= b /\ b <= d
    BY <2>4, <2>5
  <2>7. 0 + u <= b + 0 /\ 0 <= d + 0
    BY <2>6
  <2>8. Bounded(algorithm, None, 0, 0, r, w)
    BY <2>4, <2>6, <2>7 DEF Bounded
  <2>9. QED
    BY <2>2, <2>3, <2>8 DEF WithinShare, EntryIn
<1>3. 0 \in Time /\ \A k \in Counted, c \in Clients : keys[k][c] = None
  <2>1. 0 \in Time
    BY MiddlewareAssumption DEF Time
  <2>2. WindowOf(0) \in Windows
    BY <2>1 DEF Windows
  <2>3. QED
    BY <1>2, <2>1, <2>2
<1>4. QED
  BY <1>2, <1>3 DEF ShareInv

\* Lost keys leave room for one limit more.
LEMMA ShareLost ==
  ASSUME TypeOK, TypeOK', ShareInv, LoseKeys
  PROVE  ShareInv'
<1>1. /\ algorithm \in ALGORITHMS /\ Counted = {"redis"} /\ "redis" \in Stores
      /\ UNCHANGED <<algorithm, backend, clock, newest, granted>>
  BY DEF LoseKeys, config, TypeOK, Counted, Stores
<1>2. PICK x \in Nat : x = Extras /\ x + 1 = Extras'
  <2>1. excused \in Nat /\ losses \in Nat /\ excused' = excused /\ losses' = losses + 1
    BY DEF LoseKeys, TypeOK
  <2>2. QED
    BY <2>1 DEF Extras
<1>3. Counted' = Counted /\ Clients' = Clients /\ Windows' = Windows
  BY <1>1 DEF Counted, Clients, Windows, Time
<1>4. \A k \in Counted, c \in Clients : keys'[k][c] = None
  BY <1>1, KeysLost
<1>5. ASSUME NEW k \in Counted, NEW c \in Clients, NEW w \in Windows
      PROVE  WithinShare(k, c, w)'
  <2>1. PICK e : e = EntryIn(keys[k][c])
    OBVIOUS
  <2>2. PICK r \in Int, m \in Int : r = Reach(c) /\ m = newest[c] /\ m <= r
    BY ReachType
  <2>3. PICK g \in Nat : g = granted[k][c][w]
    BY <1>1 DEF TypeOK
  <2>4. e = None \/ Sound(algorithm, e, m)
    BY <2>1, <2>2 DEF ShareInv, EntryIn
  <2>5. Bounded(algorithm, e, g, x, r, w)
    BY <1>2, <2>1, <2>2, <2>3 DEF ShareInv, WithinShare
  <2>6. w \in Int
    BY WindowOfMonotone, MiddlewareAssumption DEF Windows, Time
  <2>7. Bounded(algorithm, None, g, x + 1, r, w)
    BY <1>1, <2>2, <2>4, <2>5, <2>6, BoundedForgotten
  <2>8. EntryIn(keys'[k][c]) = None
    BY <1>4 DEF EntryIn
  <2>9. r = Reach(c)' /\ g = granted'[k][c][w]
    BY <1>1, <2>2, <2>3 DEF Reach
  <2>10. QED
    BY <1>1, <1>2, <2>7, <2>8, <2>9 DEF WithinShare, EntryIn
<1>6. QED
  BY <1>3, <1>4, <1>5 DEF ShareInv

LEMMA NextShare == IInv /\ IInv' /\ ShareInv /\ [Next]_vars => ShareInv'
<1> SUFFICES ASSUME IInv, IInv', ShareInv, [Next]_vars PROVE ShareInv'
  OBVIOUS
<1>t. TypeOK /\ TypeOK' /\ clock \in Int
  BY MiddlewareAssumption DEF IInv, TypeOK, Time
<1>0. CASE UNCHANGED vars
  BY <1>0, <1>t, ShareWaits DEF vars, config, history
<1>1. CASE Tick
  BY <1>1, <1>t, ShareWaits DEF Tick, config, history
<1>2. ASSUME NEW s \in Senders, NEW i \in Instances, Dispatch(s, i)
      PROVE  ShareInv'
  BY <1>2, <1>t, ShareWaits DEF Dispatch, config, history
<1>3. ASSUME NEW s \in Senders, Answered(s)
      PROVE  ShareInv'
  <2>1. /\ at[s] # None /\ UNCHANGED <<config, algorithm, backend, clock>>
        /\ (granted' = granted \/ Admit(s))
    BY <1>3, AnsweredFrame
  <2>2. CASE TakeEffect(s)
    BY <1>t, <2>1, <2>2, ShareStep
  <2>3. CASE ~TakeEffect(s)
    <3>1. UNCHANGED <<keys, newest, excused, losses, granted>>
      BY <1>3, <2>3, AnsweredFrame
    <3>2. QED
      BY <1>t, <2>1, <3>1, ShareWaits
  <2>4. QED
    BY <2>2, <2>3
<1>4. CASE LoseKeys
  BY <1>4, <1>t, ShareLost
<1>5. QED
  BY <1>0, <1>1, <1>2, <1>3, <1>4 DEF Next, Answered

\* In a clock-aligned window a client gets no more than one share of a store,
\* over Redis whatever the number of instances and however often answers are
\* lost and scripts run again: a limit, and for the bucket what it gains in the
\* window besides.  On top of that comes one limit for each step that runs
\* late, or longer after its timestamp than the expiry of its key allows for,
\* and one for each time Redis loses its keys.  It holds for every algorithm,
\* limit and window.
THEOREM SharedLimitHolds == Spec => []SharedLimit
<1>1. IInv /\ ShareInv => SharedLimit
  <2> SUFFICES ASSUME IInv, ShareInv, NEW c \in Clients, NEW w \in Windows, NEW k \in Counted
               PROVE  Window * granted[k][c][w] <= Share + Window * Limit * Extras
    BY DEF SharedLimit, Counted, Extras
  <2>1. TypeOK /\ algorithm \in ALGORITHMS /\ Extras \in Nat
    BY DEF IInv, TypeOK, Extras
  <2>2. PICK g \in Nat : g = granted[k][c][w]
    BY <2>1 DEF Counted, Stores, TypeOK
  <2>3. PICK r \in Int, m \in Int : r = Reach(c) /\ m = newest[c] /\ m <= r
    BY <2>1, ReachType
  <2>4. PICK e : e = EntryIn(keys[k][c])
    OBVIOUS
  <2>5. e = None \/ Sound(algorithm, e, m)
    BY <2>3, <2>4 DEF ShareInv, EntryIn
  <2>6. Bounded(algorithm, e, g, Extras, r, w)
    BY <2>2, <2>3, <2>4 DEF ShareInv, WithinShare
  <2>7. PICK u \in Nat : u = Room(algorithm, e, r)
    BY <2>1, <2>3, <2>5, RoomRange
  <2>8. PICK z \in Int : z = Window * g /\ (g = 0 => z = 0)
    BY ConfigAssumption
  <2>9. PICK i \in Nat : i = Window * Limit * Extras
    BY <2>1, ExtraGrows
  <2>10. PICK b \in Int, d \in Nat :
           b = ShareUntil(algorithm, r) /\ d = ShareUntil(algorithm, Window - 1) /\ b <= d
    <3>1. Window - 1 \in Int /\ Window * Limit \in Nat
      BY ConfigAssumption
    <3>2. /\ ShareUntil(algorithm, Window - 1) \in Int /\ ShareUntil(algorithm, r) \in Int
          /\ Window * Limit <= ShareUntil(algorithm, Window - 1)
          /\ ShareUntil(algorithm, r) <= ShareUntil(algorithm, Window - 1)
      BY <3>1, ShareUntilBounded
    <3>3. QED
      BY <3>1, <3>2
  <2>11. d = Share
    <3>1. Window - 1 \in Int
      BY ConfigAssumption
    <3>2. QED
      BY <2>10, <3>1, ShareUntilBounded DEF Share
  <2>12. w \in Int /\ WindowOf(r) \in Int
    BY WindowOfMonotone, MiddlewareAssumption DEF Windows, Time
  <2>13. /\ w > WindowOf(r) => g = 0
         /\ w = WindowOf(r) => z + u <= b + i
         /\ w < WindowOf(r) => z <= d + i
    BY <2>6, <2>7, <2>8, <2>9, <2>10 DEF Bounded
  <2>14. z <= d + i
    <3>1. (g = 0 => z = 0) /\ b <= d
      BY <2>8, <2>10
    <3>2. CASE w > WindowOf(r)
      BY <2>13, <3>1, <3>2
    <3>3. CASE w = WindowOf(r)
      BY <2>13, <3>1, <3>3
    <3>4. CASE w < WindowOf(r)
      BY <2>13, <3>4
    <3>5. QED
      BY <2>12, <3>2, <3>3, <3>4
  <2>15. QED
    BY <2>2, <2>8, <2>9, <2>11, <2>14
<1>2. QED
  BY <1>1, InitInv, NextInv, InitShare, NextShare, PTL DEF Spec

-----------------------------------------------------------------------------
(* Patience.                                                               *)

\* What a step that admits nothing finds: a whole window of the limit spent,
\* and not long ago.
LEMMA RefusalsEnd ==
  ASSUME NEW a \in ALGORITHMS, NEW e, NEW m \in Int, e = None \/ Sound(a, e, m),
         NEW d \in Int, e # None => SpentBy(a, e, d),
         NEW t \in Int, NEW n, ~Step(a, e, t, n).allowed
  PROVE  /\ e # None
         /\ a = "sliding_window_counter" => t <= d + Window
         /\ a # "sliding_window_counter" => t < d + Window
<1>0. /\ Limit \in Nat \ {0} /\ Window \in Nat \ {0} /\ Limit * Window \in Nat
      /\ WindowOf(t) \in Int /\ WindowOf(d) \in Int
  BY ConfigAssumption, RedisAssumption, WindowAndOffset
<1>1. CASE a = "fixed_window"
  <2>1. ~(CurrentCount(e, WindowOf(t)) < Limit)
    BY <1>1, FixedWindowOutcome
  <2>2. e # None /\ e.w = WindowOf(t)
    BY <2>1, <1>0 DEF CurrentCount
  <2>3. WindowOf(t) <= WindowOf(d)
    BY <1>1, <2>2 DEF SpentBy
  <2>4. ~(d + Window <= t)
    BY <1>0, <2>3, WindowOfMonotone
  <2>5. QED
    BY <1>0, <1>1, <2>2, <2>4
<1>2. CASE a = "sliding_window_log"
  <2> DEFINE kept == Kept(IF e = None THEN {} ELSE e, t)
  <2>1. ~(Cardinality(kept) < Limit)
    BY <1>2, SlidingLogOutcome
  <2>2. kept # {}
    BY <2>1, <1>0, FS_EmptySet
  <2>3. PICK x \in kept : TRUE
    BY <2>2
  <2>4. e # None /\ x \in e /\ x.t > t - Window
    BY <2>3 DEF Kept
  <2>5. x.t \in Int /\ x.t <= d
    BY <1>2, <2>4, MiddlewareAssumption DEF SpentBy, Sound, Logs, Time
  <2>6. QED
    BY <1>0, <1>2, <2>4, <2>5
<1>3. CASE a = "sliding_window_counter"
  <2> DEFINE cc == CurrentCount(e, WindowOf(t))
             pc == PreviousCount(e, WindowOf(t))
  <2>1. ~(Estimate(cc, pc, t) < Limit * Window) /\ cc \in 0..Limit /\ pc \in 0..Limit
    BY <1>3, SlidingCounterOutcome, CountsBounded
  <2>2. PICK left \in Int : left = Window - Elapsed(t) /\ Elapsed(t) = Window - left
                            /\ left <= Window /\ 1 <= left
    BY <1>0, WindowAndOffset
  <2>3. Estimate(cc, pc, t) = pc * left + cc * Window
    BY <2>2 DEF Estimate
  <2>4. ~(cc = 0 /\ pc = 0)
    BY <2>1, <2>3, <2>2, <1>0
  <2>5. cc = 0 => left = Window
    <3> SUFFICES ASSUME cc = 0, left <= Window - 1 PROVE FALSE
      BY <2>2, <1>0
    <3>1. pc * left >= Limit * Window
      BY <2>1, <2>2, <2>3, <1>0
    <3>2. pc * left <= pc * (Window - 1)
      <4>1. left * pc <= (Window - 1) * pc
        BY <2>1, <2>2, <1>0, ProductMonotone
      <4>2. left * pc = pc * left /\ (Window - 1) * pc = pc * (Window - 1)
        BY <2>1, <2>2, <1>0
      <4>3. QED
        BY <4>1, <4>2
    <3>3. pc * (Window - 1) <= Limit * (Window - 1)
      <4>1. pc \in Int /\ Limit \in Int /\ Window - 1 \in Nat /\ pc <= Limit
        BY <2>1, <1>0
      <4>2. QED
        BY <4>1, ProductMonotone
    <3>4. Limit * (Window - 1) < Limit * Window
      <4>1. Limit * (Window - 1) = Limit * Window - Limit
        BY <1>0
      <4>2. QED
        BY <4>1, <1>0
    <3>5. pc * left \in Int /\ pc * (Window - 1) \in Int /\ Limit * (Window - 1) \in Int
      BY <2>1, <2>2, <1>0
    <3>6. QED
      BY <3>1, <3>2, <3>3, <3>4, <3>5, <1>0
  <2>6. e # None /\ (e.w = WindowOf(t) \/ e.w = WindowOf(t) - 1)
    BY <2>4 DEF CurrentCount, PreviousCount
  <2>7. \/ e.w <= WindowOf(d)
        \/ e.w = WindowOf(d) + 1 /\ e.c = 0
    BY <1>3, <2>6 DEF SpentBy
  <2>8. e.w \in Int
    BY <1>3, <2>6 DEF Sound, SlidingCounterEntry
  <2>9. CASE WindowOf(t) <= WindowOf(d)
    <3>1. ~(d + Window <= t)
      BY <1>0, <2>9, WindowOfMonotone
    <3>2. QED
      BY <1>0, <1>3, <2>6, <3>1
  <2>10. CASE WindowOf(t) > WindowOf(d)
    <3>1. WindowOf(t) = WindowOf(d) + 1 /\ cc = 0
      <4>1. CASE e.w = WindowOf(t)
        <5>1. e.w = WindowOf(d) + 1 /\ e.c = 0
          BY <2>7, <2>10, <4>1, <1>0
        <5>2. QED
          BY <4>1, <5>1 DEF CurrentCount
      <4>2. CASE e.w = WindowOf(t) - 1
        <5>1. cc = 0 /\ pc = e.c
          BY <2>6, <4>2, <1>0 DEF CurrentCount, PreviousCount
        <5>2. e.c # 0
          BY <2>4, <5>1
        <5>3. QED
          BY <2>7, <2>10, <4>2, <5>1, <5>2, <1>0
      <4>3. QED
        BY <2>6, <4>1, <4>2
    <3>2. Elapsed(t) = 0
      BY <2>2, <2>5, <3>1, <1>0
    <3>3. PICK v \in Int : v = WindowOf(d) * Window /\ (WindowOf(d) + 1) * Window = v + Window
      BY <1>0
    <3>4. PICK i \in Nat : i = Elapsed(d) /\ d = v + i
      BY <3>3, WindowAndOffset, <1>0
    <3>5. t = v + Window
      <4>1. t = WindowOf(t) * Window + Elapsed(t)
        BY WindowAndOffset
      <4>2. QED
        BY <4>1, <3>1, <3>2, <3>3, <1>0
    <3>6. QED
      BY <1>0, <1>3, <2>6, <3>4, <3>5
  <2>11. QED
    BY <1>0, <2>9, <2>10
<1>4. CASE a = "token_bucket"
  <2>1. PICK k \in Int : /\ k = Room("token_bucket", e, t) /\ ~(k >= Window)
                         /\ e # None => \/ k = Limit * Window
                                        \/ k = e.tokens + (t - e.last) * Limit
    BY <1>4, TokenBucketOutcome
  <2>2. Window <= Limit * Window
    <3>1. 1 * Window <= Limit * Window
      BY <1>0, ProductMonotone
    <3>2. QED
      BY <3>1, <1>0
  <2>3. e # None
    <3>1. e = None => k = Limit * Window
      BY <2>1 DEF Room
    <3>2. QED
      BY <2>1, <2>2, <3>1, <1>0
  <2>4. /\ k = e.tokens + (t - e.last) * Limit
        /\ e.tokens \in Int /\ e.last \in Int
        /\ e.tokens + (d - e.last) * Limit >= 0
    <3>1. k # Limit * Window
      BY <2>1, <2>2, <1>0
    <3>2. QED
      BY <1>4, <2>1, <2>3, <3>1 DEF Sound, SpentBy, TokenBucketEntry
  <2>5. ~(d + Window <= t)
    <3> SUFFICES ASSUME d + Window <= t PROVE FALSE
      OBVIOUS
    <3>1. (t - e.last) * Limit = (d - e.last) * Limit + (t - d) * Limit
      BY <2>4, <1>0
    <3>2. Window * Limit <= (t - d) * Limit
      BY <1>0, ProductMonotone
    <3>3. /\ (d - e.last) * Limit \in Int /\ (t - d) * Limit \in Int
          /\ Window * Limit = Limit * Window
      BY <2>4, <1>0
    <3>4. k >= Limit * Window
      BY <2>4, <3>1, <3>2, <3>3, <1>0
    <3>5. QED
      BY <2>1, <2>2, <3>4, <1>0
  <2>6. QED
    BY <1>0, <1>4, <2>3, <2>5
<1>5. QED
  BY <1>1, <1>2, <1>3, <1>4 DEF ALGORITHMS

\* Such a step leaves nothing that was spent later.
LEMMA RefusalSpendsNothing ==
  ASSUME NEW a \in ALGORITHMS, NEW e, NEW m \in Int, e = None \/ Sound(a, e, m),
         NEW d \in Int, e # None => SpentBy(a, e, d),
         NEW t \in Int, NEW n, ~Step(a, e, t, n).allowed,
         NEW f, f = Step(a, e, t, n).entry, NEW q \in Int, d <= q
  PROVE  SpentBy(a, f, q)
<1>0. /\ Limit \in Nat \ {0} /\ Window \in Nat \ {0} /\ Limit * Window \in Nat
      /\ WindowOf(t) \in Int /\ WindowOf(d) \in Int /\ WindowOf(q) \in Int
      /\ WindowOf(d) <= WindowOf(q)
  BY ConfigAssumption, RedisAssumption, WindowOfMonotone
<1>e. e # None /\ SpentBy(a, e, d) /\ Sound(a, e, m)
  BY RefusalsEnd
<1>1. CASE a = "fixed_window"
  <2>1. ~(CurrentCount(e, WindowOf(t)) < Limit) /\ f.w = WindowOf(t)
    BY <1>1, FixedWindowOutcome
  <2>2. e.w = WindowOf(t)
    BY <2>1, <1>0 DEF CurrentCount
  <2>3. QED
    BY <1>0, <1>1, <1>e, <2>1, <2>2 DEF SpentBy
<1>2. CASE a = "sliding_window_log"
  <2>1. f = Kept(e, t)
    BY <1>2, <1>e, SlidingLogOutcome
  <2>2. \A x \in f : x \in e /\ x.t \in Int /\ x.t <= d
    BY <1>2, <1>e, <2>1, MiddlewareAssumption DEF SpentBy, Sound, Logs, Time, Kept
  <2>3. QED
    BY <1>2, <2>2 DEF SpentBy
<1>3. CASE a = "sliding_window_counter"
  <2> DEFINE cc == CurrentCount(e, WindowOf(t))
             pc == PreviousCount(e, WindowOf(t))
  <2>1. /\ ~(Estimate(cc, pc, t) < Limit * Window) /\ cc \in 0..Limit /\ pc \in 0..Limit
        /\ f.w = WindowOf(t) /\ f.c = cc
    BY <1>3, SlidingCounterOutcome, CountsBounded
  <2>2. ~(cc = 0 /\ pc = 0)
    <3>1. PICK left \in Int : left = Window - Elapsed(t)
      BY <1>0, WindowAndOffset
    <3>2. Estimate(cc, pc, t) = pc * left + cc * Window
      BY <3>1 DEF Estimate
    <3>3. 0 < Limit * Window
      <4>1. 1 * Window <= Limit * Window
        BY <1>0, ProductMonotone
      <4>2. QED
        BY <4>1, <1>0
    <3>4. QED
      BY <2>1, <3>1, <3>2, <3>3, <1>0
  <2>3. e.w = WindowOf(t) \/ e.w = WindowOf(t) - 1
    BY <2>2 DEF CurrentCount, PreviousCount
  <2>4. \/ e.w <= WindowOf(d)
        \/ e.w = WindowOf(d) + 1 /\ e.c = 0
    BY <1>3, <1>e DEF SpentBy
  <2>5. e.w = WindowOf(t) => cc = e.c
    BY <1>e DEF CurrentCount
  <2>6. e.w = WindowOf(t) - 1 => cc = 0 /\ pc = e.c
    BY <1>0, <1>e DEF CurrentCount, PreviousCount
  <2> HIDE DEF cc, pc
  <2>7. \/ f.w <= WindowOf(q)
        \/ f.w = WindowOf(q) + 1 /\ f.c = 0
    <3>1. CASE e.w = WindowOf(t)
      BY <1>0, <2>1, <2>4, <2>5, <3>1
    <3>2. CASE e.w = WindowOf(t) - 1
      BY <1>0, <2>1, <2>2, <2>4, <2>6, <3>2
    <3>3. QED
      BY <2>3, <3>1, <3>2
  <2>8. QED
    BY <1>3, <2>7 DEF SpentBy
<1>4. CASE a = "token_bucket"
  <2>0. e = None \/ Sound("token_bucket", e, m)
    BY <1>4
  <2>1. LET o == Step("token_bucket", e, t, n)
            k == Room("token_bucket", e, t)
        IN  /\ k \in Int
            /\ e # None => k = Limit * Window \/ k = e.tokens + (t - e.last) * Limit
            /\ o.allowed \in BOOLEAN /\ (o.allowed <=> k >= Window)
            /\ o.entry.last = t
            /\ o.entry.tokens = IF o.allowed THEN k - Window ELSE k
    BY <2>0, TokenBucketOutcome
  <2>2. PICK k \in Int : k = Room("token_bucket", e, t)
    BY <2>1
  <2>3. /\ ~(k >= Window) /\ f.last = t /\ f.tokens = k
        /\ k = Limit * Window \/ k = e.tokens + (t - e.last) * Limit
    BY <1>4, <1>e, <2>1, <2>2
  <2>4. Window <= Limit * Window
    <3>1. 1 * Window <= Limit * Window
      BY <1>0, ProductMonotone
    <3>2. QED
      BY <3>1, <1>0
  <2>5. /\ k = e.tokens + (t - e.last) * Limit
        /\ e.tokens \in Int /\ e.last \in Int
        /\ e.tokens + (d - e.last) * Limit >= 0
    <3>1. k # Limit * Window
      BY <2>3, <2>4, <1>0
    <3>2. e.tokens \in Int /\ e.last \in Int /\ e.tokens + (d - e.last) * Limit >= 0
      BY <1>4, <1>e DEF Sound, SpentBy, TokenBucketEntry
    <3>3. QED
      BY <2>3, <3>1, <3>2
  <2>6. f.tokens + (q - f.last) * Limit >= 0
    <3>1. (d - e.last) * Limit <= (q - e.last) * Limit
      BY <2>5, <1>0, ProductMonotone
    <3>2. (q - e.last) * Limit = (t - e.last) * Limit + (q - t) * Limit
      BY <2>5, <1>0
    <3>3. /\ (d - e.last) * Limit \in Int /\ (q - t) * Limit \in Int
          /\ (t - e.last) * Limit \in Int
      BY <2>5, <1>0
    <3>4. k + (q - t) * Limit >= 0
      BY <2>5, <3>1, <3>2, <3>3
    <3>5. QED
      BY <2>3, <3>4
  <2>7. QED
    BY <1>4, <2>6 DEF SpentBy
<1>5. QED
  BY <1>1, <1>2, <1>3, <1>4 DEF ALGORITHMS

\* What was spent by the time a backed entry was left was spent by then.
LEMMA BackedIsSpent ==
  ASSUME NEW a \in ALGORITHMS, NEW e, NEW s \in Int, Backed(a, e, s), NEW d \in Int, s <= d
  PROVE  SpentBy(a, e, d)
<1>0. WindowOf(s) \in Int /\ WindowOf(d) \in Int /\ WindowOf(s) <= WindowOf(d)
  BY WindowOfMonotone
<1>1. CASE a = "fixed_window"
  BY <1>0, <1>1 DEF Backed, SpentBy, FixedWindowEntry
<1>2. CASE a = "sliding_window_log"
  <2>1. \A x \in e : x.t \in Int /\ x.t <= s
    BY <1>2 DEF Backed
  <2>2. \A x \in e : x.t <= d
    BY <2>1
  <2>3. QED
    BY <1>2, <2>2 DEF SpentBy
<1>3. CASE a = "sliding_window_counter"
  BY <1>0, <1>3 DEF Backed, SpentBy, SlidingCounterEntry
<1>4. CASE a = "token_bucket"
  <2>1. e.tokens \in Int /\ e.last \in Int /\ e.tokens + (s - e.last) * Limit >= 0
    BY <1>4 DEF Backed, TokenBucketEntry
  <2>2. /\ (s - e.last) * Limit \in Int /\ (d - e.last) * Limit \in Int
        /\ (s - e.last) * Limit <= (d - e.last) * Limit
    BY <2>1, ConfigAssumption, ProductMonotone
  <2>3. e.tokens + (d - e.last) * Limit >= 0
    BY <2>1, <2>2
  <2>4. QED
    BY <1>4, <2>3 DEF SpentBy
<1>5. QED
  BY <1>1, <1>2, <1>3, <1>4 DEF ALGORITHMS

LEMMA SpentLater ==
  ASSUME NEW a \in ALGORITHMS, NEW e, NEW m, Sound(a, e, m), NEW d \in Int, SpentBy(a, e, d),
         NEW q \in Int, d <= q
  PROVE  SpentBy(a, e, q)
<1>0. WindowOf(d) \in Int /\ WindowOf(q) \in Int /\ WindowOf(d) <= WindowOf(q)
  BY WindowOfMonotone
<1>1. CASE a = "fixed_window"
  BY <1>0, <1>1 DEF Sound, SpentBy, FixedWindowEntry
<1>2. CASE a = "sliding_window_log"
  <2>1. \A x \in e : x.t \in Int /\ x.t <= d
    BY <1>2, MiddlewareAssumption DEF SpentBy, Sound, Logs, Time
  <2>2. \A x \in e : x.t <= q
    BY <2>1
  <2>3. QED
    BY <1>2, <2>2 DEF SpentBy
<1>3. CASE a = "sliding_window_counter"
  BY <1>0, <1>3 DEF Sound, SpentBy, SlidingCounterEntry
<1>4. CASE a = "token_bucket"
  <2>1. e.tokens \in Int /\ e.last \in Int /\ e.tokens + (d - e.last) * Limit >= 0
    BY <1>4 DEF Sound, SpentBy, TokenBucketEntry
  <2>2. /\ (d - e.last) * Limit \in Int /\ (q - e.last) * Limit \in Int
        /\ (d - e.last) * Limit <= (q - e.last) * Limit
    BY <2>1, ConfigAssumption, ProductMonotone
  <2>3. e.tokens + (q - e.last) * Limit >= 0
    BY <2>1, <2>2
  <2>4. QED
    BY <1>4, <2>3 DEF SpentBy
<1>5. QED
  BY <1>1, <1>2, <1>3, <1>4 DEF ALGORITHMS


\* What others do bears on nobody who is counted alone.
LEMMA PatientWaits ==
  ASSUME NEW s \in Senders, Patient(s), UNCHANGED config,
         resume'[s] = resume[s], refused'[s] = refused[s],
         at'[s] # None => now'[s] >= resume'[s],
         Alone(s) => \A k \in Counted : keys'[k][KeyFunc(s)] = keys[k][KeyFunc(s)]
  PROVE  Patient(s)'
<1>1. UNCHANGED <<algorithm, backend, header, host>>
  BY DEF config
<1>2. Counted' = Counted /\ KeyFunc(s)' = KeyFunc(s) /\ (Alone(s)' <=> Alone(s))
  BY <1>1 DEF Counted, KeyFunc, DefaultKeyFunc, Alone
<1>3. Since(s)' = Since(s) /\ Waited(s)' = Waited(s)
  BY DEF Since, Waited
<1>4. ASSUME NEW k \in Counted, refused'[s] # 0, Alone(s), keys'[k][KeyFunc(s)] # None
      PROVE  SpentBy(algorithm, keys'[k][KeyFunc(s)].entry, Since(s))
  <2>1. PICK key : key = keys[k][KeyFunc(s)] /\ key = keys'[k][KeyFunc(s)]
    BY <1>4
  <2>2. SpentBy(algorithm, key.entry, Since(s))
    BY <1>4, <2>1 DEF Patient
  <2>3. QED
    BY <2>1, <2>2
<1>5. QED
  BY <1>1, <1>2, <1>3, <1>4 DEF Patient

\* A sender that has not been refused yet, or is let in.
LEMMA PatientAfresh ==
  ASSUME NEW s \in Senders, refused'[s] = 0, at'[s] # None => now'[s] >= resume'[s]
  PROVE  Patient(s)'
BY DEF Patient

\* What is held when a sender that has been refused is refused again: the step
\* found nothing that was spent after the first of its waits, and leaves nothing.
LEMMA RefusalKept ==
  ASSUME IInv, TypeOK', ShareInv, NEW s \in Senders, Patient(s), at[s] # None,
         TakeEffect(s), clock' = clock, UNCHANGED config,
         ~ResultOf(s).allowed, refused[s] # 0, Alone(s),
         NEW d \in Int, d = Since(s), NEW q \in Int, d <= q
  PROVE  /\ \A k \in Counted : keys'[k][KeyFunc(s)] # None
              => SpentBy(algorithm, keys'[k][KeyFunc(s)].entry, q)
         /\ algorithm = "sliding_window_counter" => now[s] <= d + Window
         /\ algorithm # "sliding_window_counter" => now[s] < d + Window
<1>1. /\ TypeOK /\ algorithm \in ALGORITHMS
      /\ at[s] \in Instances /\ now[s] \in Time
  BY DEF IInv, TypeOK
<1>2. PICK k0 \in Stores : k0 = StoreOf(at[s]) /\ k0 \in Counted
  BY <1>1, StoreCounted
<1>3. PICK c0 \in Clients : c0 = KeyFunc(s)
  BY <1>1, KeyFuncType
<1>4. PICK t \in Time : t = now[s] /\ t \in Int
  BY <1>1, MiddlewareAssumption DEF Time
<1>5. \A k \in Stores :
        keys'[k][c0] = IF k = k0 THEN Key(ResultOf(s).entry, clock + Ttl(algorithm))
                       ELSE keys[k][c0]
  BY <1>2, <1>3, <1>4, EffectMoves
<1>6. Counted \subseteq Stores
  BY <1>1, StoreCounted
<1> PICK e : e = EntryIn(keys[k0][c0])
  OBVIOUS
<1>7. PICK o : /\ o = e \/ o = None
               /\ ResultOf(s) = Step(algorithm, o, t, NumberOf(algorithm, o, t))
  BY <1>2, <1>3, <1>4, ResultIsStep
<1>8. PICK u \in Int : u = newest[c0]
  BY <1>1, ReachType
<1>9. o = None \/ Sound(algorithm, o, u)
  BY <1>2, <1>7, <1>8 DEF ShareInv, EntryIn
<1>10. PICK n : n = NumberOf(algorithm, o, t)
  OBVIOUS
<1>11. ~Step(algorithm, o, t, n).allowed
  BY <1>7, <1>10
<1>12. \A k \in Counted : keys[k][c0] # None => SpentBy(algorithm, keys[k][c0].entry, d)
  BY <1>3 DEF Patient
<1>13. o # None => SpentBy(algorithm, o, d)
  BY <1>2, <1>7, <1>12 DEF EntryIn
<1>14. /\ algorithm = "sliding_window_counter" => t <= d + Window
       /\ algorithm # "sliding_window_counter" => t < d + Window
  BY <1>1, <1>4, <1>9, <1>11, <1>13, RefusalsEnd
<1>15. PICK f : f = Step(algorithm, o, t, n).entry
  OBVIOUS
<1>16. SpentBy(algorithm, f, q)
  BY <1>1, <1>4, <1>9, <1>11, <1>13, <1>15, RefusalSpendsNothing
<1>17. ASSUME NEW k \in Counted, keys'[k][c0] # None
       PROVE  SpentBy(algorithm, keys'[k][c0].entry, q)
  <2>1. CASE k = k0
    <3>1. keys'[k][c0] = Key(ResultOf(s).entry, clock + Ttl(algorithm))
      BY <1>5, <1>6, <2>1
    <3>2. keys'[k][c0].entry = f
      BY <1>7, <1>10, <1>15, <3>1 DEF Key
    <3>3. QED
      BY <1>16, <3>2
  <2>2. CASE k # k0
    <3>1. PICK key : key = keys[k][c0] /\ key = keys'[k][c0]
      BY <1>5, <1>6, <2>2
    <3>2. SpentBy(algorithm, key.entry, d) /\ Sound(algorithm, key.entry, u)
      BY <1>8, <1>12, <1>17, <3>1 DEF ShareInv
    <3>3. SpentBy(algorithm, key.entry, q)
      BY <1>1, <3>2, SpentLater
    <3>4. QED
      BY <3>1, <3>3
  <2>3. QED
    BY <2>1, <2>2
<1>18. QED
  BY <1>3, <1>4, <1>14, <1>17

\* A 429.  What is held when a sender is first refused was spent by then; when it
\* is refused again it has waited, and the step found nothing that was spent since.
LEMMA RefusedAgain ==
  ASSUME IInv, IInv', ShareInv, NEW s \in Senders, Patient(s), Refuse(s)
  PROVE  Patient(s)'
<1>1. /\ TypeOK /\ algorithm \in ALGORITHMS /\ clock \in Int
      /\ at[s] \in Instances /\ now[s] \in Time
      /\ resume[s] \in Int /\ refused[s] \in Nat
      /\ now[s] \in Int /\ now[s] <= clock /\ now[s] >= resume[s]
  BY MiddlewareAssumption DEF Refuse, IInv, TypeOK, Time, Patient
<1>2. UNCHANGED <<config, algorithm, backend, header, host, clock>> /\ at[s] # None
      /\ TakeEffect(s) /\ Done(s) /\ ~ResultOf(s).allowed /\ TypeOK'
  BY DEF Refuse, Done, config, IInv
<1>3. Counted' = Counted /\ KeyFunc(s)' = KeyFunc(s) /\ (Alone(s)' <=> Alone(s))
  BY <1>2 DEF Counted, KeyFunc, DefaultKeyFunc, Alone
<1>4. PICK c0 \in Clients : c0 = KeyFunc(s)
  BY <1>1, KeyFuncType
<1>5. Counted \subseteq Stores
  BY <1>1, <1>2, StoreCounted
<1> PICK m \in Nat : m = refused[s]
  BY <1>1
<1> PICK r \in Nat : r = RetryAfter
  BY RetryAfterBounded
<1>6. PICK p \in Nat : p = m * r
  OBVIOUS
<1>7. PICK d \in Int, q \in Int : /\ d = Since(s) /\ q = Since(s)'
                                  /\ d = resume[s] - p /\ q = clock - p /\ d <= q
  <2>1. resume' = [resume EXCEPT ![s] = clock + r] /\ refused' = [refused EXCEPT ![s] = m + 1]
    BY DEF Refuse
  <2>2. resume'[s] = clock + r /\ refused'[s] = m + 1
    BY <1>1, <2>1 DEF TypeOK
  <2>3. Since(s)' = resume'[s] - refused'[s] * RetryAfter' /\ RetryAfter' = RetryAfter
    BY Zenon DEF Since, RetryAfter
  <2>4. (m + 1) * r = p + r
    BY <1>6
  <2>5. Since(s)' = clock - p
    <3>1. PICK u \in Int, v \in Int : /\ u = resume'[s] /\ v = refused'[s] * RetryAfter'
                                      /\ u = clock + r /\ v = p + r
      <4>1. refused'[s] * RetryAfter' = (m + 1) * r
        BY Zenon, <2>2, <2>3
      <4>2. QED
        BY <1>1, <1>6, <2>2, <2>4, <4>1
    <3>2. QED
      BY <1>1, <2>3, <3>1
  <2>6. Since(s) = resume[s] - p
    BY <1>6 DEF Since
  <2>7. QED
    BY <1>1, <2>5, <2>6
<1>8. at'[s] = None /\ refused'[s] = m + 1
  BY <1>1 DEF Refuse, Done, TypeOK
<1>9. Waited(s)' = p
  <2>1. Waited(s)' = (refused'[s] - 1) * RetryAfter'
    BY Zenon DEF Waited
  <2>2. RetryAfter' = r
    BY DEF RetryAfter
  <2>3. refused'[s] - 1 = m
    BY <1>8
  <2>4. QED
    BY <1>6, <2>1, <2>2, <2>3
<1>10. ASSUME Alone(s) => \A k \in Counted : keys'[k][c0] # None
                                   => SpentBy(algorithm, keys'[k][c0].entry, q),
              Alone(s) => \/ p < Window
                          \/ p = Window /\ algorithm = "sliding_window_counter"
       PROVE  Patient(s)'
  <2>1. Alone(s)' => \A k \in Counted' : keys'[k][KeyFunc(s)'] # None
                              => SpentBy(algorithm, keys'[k][KeyFunc(s)'].entry, Since(s)')
    BY <1>3, <1>4, <1>7, <1>10
  <2>2. algorithm' = algorithm
    BY <1>2
  <2>3. \A k \in Counted' :
          refused'[s] # 0 /\ Alone(s)' /\ keys'[k][KeyFunc(s)'] # None =>
            SpentBy(algorithm', keys'[k][KeyFunc(s)'].entry, Since(s)')
    BY <2>1, <2>2
  <2>4. Alone(s)' /\ refused'[s] # 0
          => \/ Waited(s)' < Window
             \/ Waited(s)' = Window /\ algorithm' = "sliding_window_counter"
    BY <1>3, <1>9, <1>10, <2>2
  <2>5. QED
    BY Zenon, <1>8, <2>3, <2>4 DEF Patient
<1>11. CASE m = 0
  <2>1. q = clock /\ p = 0 /\ 0 < Window
    <3>1. p = 0
      BY <1>6, <1>11
    <3>2. QED
      BY <1>1, <1>7, <3>1, ConfigAssumption
  <2>2. ASSUME NEW k \in Counted, keys'[k][c0] # None
        PROVE  SpentBy(algorithm, keys'[k][c0].entry, q)
    <3>1. PICK key : key = keys'[k][c0]
      OBVIOUS
    <3>2. KeyBacked(keys[k][c0])'
      <4>1. \A l \in Stores, c \in Clients : KeyBacked(keys[l][c])'
        BY <1>2 DEF IInv, Stores, Clients
      <4>2. QED
        BY <1>5, <4>1
    <3>3. /\ key.expires - Ttl(algorithm) \in Int
          /\ key.expires - Ttl(algorithm) <= clock
          /\ Backed(algorithm, key.entry, key.expires - Ttl(algorithm))
      BY <1>2, <2>2, <3>1, <3>2 DEF KeyBacked
    <3>4. SpentBy(algorithm, key.entry, q)
      BY <1>1, <2>1, <3>3, BackedIsSpent
    <3>5. QED
      BY <3>1, <3>4
  <2>3. QED
    BY <1>10, <2>1, <2>2
<1>12. CASE m # 0
  <2>1. CASE Alone(s)
    <3>1. /\ \A k \in Counted : keys'[k][c0] # None
                => SpentBy(algorithm, keys'[k][c0].entry, q)
          /\ algorithm = "sliding_window_counter" => now[s] <= d + Window
          /\ algorithm # "sliding_window_counter" => now[s] < d + Window
      BY <1>2, <1>4, <1>7, <1>12, <2>1, RefusalKept
    <3>2. \/ p < Window
          \/ p = Window /\ algorithm = "sliding_window_counter"
      <4>1. PICK W \in Nat, t \in Int : W = Window /\ t = now[s] /\ t >= d + p
        BY <1>1, <1>7, ConfigAssumption
      <4>2. QED
        BY <3>1, <4>1
    <3>3. QED
      BY <1>10, <3>1, <3>2
  <2>2. CASE ~Alone(s)
    BY <1>10, <2>2
  <2>3. QED
    BY <2>1, <2>2
<1>13. QED
  BY <1>11, <1>12

\* A step whose answer is lost starts a new count if it lets the sender in, and
\* keeps what is held if not.
LEMMA UntoldStays ==
  ASSUME IInv, TypeOK', ShareInv, NEW s \in Senders, Patient(s), at[s] # None,
         TakeEffectUntold(s), clock' = clock, UNCHANGED <<config, resume>>,
         at'[s] # None => now'[s] >= resume'[s]
  PROVE  Patient(s)'
<1>1. TypeOK /\ TakeEffect(s) /\ UNCHANGED config
  BY DEF IInv, TakeEffectUntold
<1>2. CASE ResultOf(s).allowed
  <2>1. refused'[s] = 0
    BY <1>1, <1>2 DEF TakeEffectUntold, TypeOK
  <2>2. QED
    BY <2>1, PatientAfresh
<1>3. CASE ~ResultOf(s).allowed
  <2>1. refused'[s] = refused[s] /\ resume'[s] = resume[s] /\ refused[s] \in Nat
        /\ resume[s] \in Int
    BY <1>1, <1>3, MiddlewareAssumption DEF TakeEffectUntold, TypeOK, Time
  <2>2. CASE refused[s] = 0
    BY <2>1, <2>2, PatientAfresh
  <2>3. CASE refused[s] # 0
    <3>1. UNCHANGED <<algorithm, backend, header, host>>
      BY <1>1 DEF config
    <3>2. Counted' = Counted /\ KeyFunc(s)' = KeyFunc(s) /\ (Alone(s)' <=> Alone(s))
      BY <3>1 DEF Counted, KeyFunc, DefaultKeyFunc, Alone
    <3>3. Since(s)' = Since(s) /\ Waited(s)' = Waited(s)
      BY <2>1 DEF Since, Waited
    <3>4. PICK d \in Int : d = Since(s) /\ d <= d
      <4>1. PICK m \in Nat, r \in Nat : m = refused[s] /\ r = RetryAfter
        BY <2>1, RetryAfterBounded
      <4>2. m * r \in Int
        OBVIOUS
      <4>3. QED
        BY <2>1, <4>1, <4>2 DEF Since
    <3>5. Alone(s) => \A k \in Counted : keys'[k][KeyFunc(s)] # None
                        => SpentBy(algorithm, keys'[k][KeyFunc(s)].entry, d)
      BY <1>1, <1>3, <2>3, <3>4, RefusalKept
    <3>6. QED
      BY <2>1, <3>1, <3>2, <3>3, <3>4, <3>5 DEF Patient
  <2>4. QED
    BY <2>2, <2>3
<1>4. QED
  BY <1>2, <1>3

LEMMA InitPatience == Init => PatienceInv
<1> SUFFICES ASSUME Init, NEW s \in Senders PROVE Patient(s)
  BY DEF PatienceInv
<1>1. at[s] = None /\ refused[s] = 0
  BY DEF Init
<1>2. QED
  BY <1>1 DEF Patient

LEMMA NextPatience ==
  IInv /\ IInv' /\ ShareInv /\ PatienceInv /\ [Next]_vars => PatienceInv'
<1> SUFFICES ASSUME IInv, IInv', ShareInv, PatienceInv, [Next]_vars, NEW s \in Senders
             PROVE  Patient(s)'
  BY DEF PatienceInv
<1>t. /\ TypeOK /\ TypeOK' /\ Patient(s) /\ clock \in Int
      /\ at \in [Senders -> Instances \cup {None}] /\ now \in [Senders -> Time \cup {None}]
  BY MiddlewareAssumption DEF IInv, TypeOK, Time, PatienceInv
<1>p. at[s] # None => now[s] >= resume[s]
  BY <1>t DEF Patient
<1>0. CASE UNCHANGED vars
  BY <1>0, <1>t, <1>p, PatientWaits DEF vars, history
<1>1. CASE Tick
  BY <1>1, <1>t, <1>p, PatientWaits DEF Tick, history
<1>2. ASSUME NEW o \in Senders, NEW i \in Instances, Dispatch(o, i)
      PROVE  Patient(s)'
  <2>1. /\ at' = [at EXCEPT ![o] = i] /\ now' = [now EXCEPT ![o] = clock]
        /\ clock >= resume[o] /\ UNCHANGED <<config, keys, resume, refused>>
    BY <1>2 DEF Dispatch, history
  <2>2. at'[s] # None => now'[s] >= resume'[s]
    BY <1>t, <1>p, <2>1
  <2>3. QED
    BY <1>t, <2>1, <2>2, PatientWaits
<1>3. ASSUME NEW o \in Senders, Answered(o)
      PROVE  Patient(s)'
  <2>1. /\ at[o] # None /\ UNCHANGED <<config, clock>>
        /\ \/ at' = [at EXCEPT ![o] = None] /\ now' = [now EXCEPT ![o] = None]
           \/ UNCHANGED <<at, now>>
        /\ TakeEffect(o) \/ UNCHANGED <<keys, refused>>
    BY <1>3, AnsweredFrame
  <2>2. CASE o = s
    <3>1. CASE Refuse(s)
      BY <1>t, <3>1, RefusedAgain
    <3>2. CASE ~Refuse(s)
      <4>1. resume' = resume
        BY <1>3, <2>2, <3>2, AnsweredFrame
      <4>2. at'[s] # None => now'[s] >= resume'[s]
        BY <1>t, <1>p, <2>1, <2>2, <4>1
      <4>3. CASE Admit(s)
        <5>1. refused'[s] = 0
          BY <1>t, <4>3 DEF Admit, TypeOK
        <5>2. QED
          BY <4>2, <5>1, PatientAfresh
      <4>4. CASE TakeEffectUntold(s)
        BY <1>t, <2>1, <2>2, <4>1, <4>2, <4>4, UntoldStays
      <4>5. CASE UNCHANGED <<keys, refused>>
        BY <1>t, <2>1, <4>1, <4>2, <4>5, PatientWaits
      <4>6. QED
        BY <1>3, <2>2, <3>2, <4>3, <4>4, <4>5 DEF Answered, Resend, Fail
    <3>3. QED
      BY <3>1, <3>2
  <2>3. CASE o # s
    <3>1. resume'[s] = resume[s]
      <4>1. CASE Refuse(o)
        BY <1>t, <2>3, <4>1 DEF Refuse, TypeOK
      <4>2. QED
        BY <1>3, <4>1, AnsweredFrame
    <3>2. refused'[s] = refused[s]
      BY <1>3, <1>t, <2>3 DEF Answered, Admit, Refuse, Resend, Fail, TakeEffectUntold, TypeOK
    <3>3. at'[s] = at[s] /\ now'[s] = now[s]
      BY <1>t, <2>1, <2>3
    <3>4. ASSUME Alone(s), NEW k \in Counted
          PROVE  keys'[k][KeyFunc(s)] = keys[k][KeyFunc(s)]
      <4>1. PICK c \in Clients, c0 \in Clients : c = KeyFunc(s) /\ c0 = KeyFunc(o) /\ c # c0
        BY <1>t, <2>3, <3>4, KeyFuncType DEF Alone
      <4>2. PICK k0 \in Stores, t \in Time : k0 = StoreOf(at[o]) /\ t = now[o]
        BY <1>t, <2>1, StoreCounted DEF IInv, TypeOK
      <4>3. CASE TakeEffect(o)
        <5>1. k \in Stores
          BY <1>t, <2>1, StoreCounted
        <5>2. \A l \in Stores, d \in Clients :
                keys'[l][d] = IF l = k0 /\ d = c0
                                THEN Key(ResultOf(o).entry, clock + Ttl(algorithm))
                                ELSE keys[l][d]
          BY <1>t, <2>1, <4>1, <4>2, <4>3, EffectMoves
        <5>3. QED
          BY <4>1, <5>1, <5>2
      <4>4. CASE UNCHANGED keys
        BY <4>4
      <4>5. QED
        BY <2>1, <4>3, <4>4
    <3>5. QED
      BY <1>t, <1>p, <2>1, <3>1, <3>2, <3>3, <3>4, PatientWaits
  <2>4. QED
    BY <2>2, <2>3
<1>4. CASE LoseKeys
  <2>1. UNCHANGED <<config, at, now, resume, refused, algorithm, backend, header, host>>
    BY <1>4 DEF LoseKeys, config
  <2>2. Counted' = {"redis"} /\ KeyFunc(s)' \in Clients /\ "redis" \in Stores
    BY <1>4, <1>t, <2>1, KeyFuncType DEF Counted, Stores, LoseKeys, KeyFunc, DefaultKeyFunc
  <2>3. \A k \in Counted' : keys'[k][KeyFunc(s)'] = None
    BY <1>4, <1>t, <2>2, KeysLost
  <2>4. (Alone(s)' <=> Alone(s)) /\ Waited(s)' = Waited(s)
    BY <2>1 DEF Alone, KeyFunc, DefaultKeyFunc, Waited
  <2>5. QED
    BY <1>t, <1>p, <2>1, <2>3, <2>4 DEF Patient
<1>5. QED
  BY <1>0, <1>1, <1>2, <1>3, <1>4 DEF Next, Answered

\* A sender that heeds Retry-After and shares its key with nobody is not refused
\* any more once its waits add up to a window, counted from its last request
\* that the store let in, whether the sender was told of that or not; the Sliding
\* Window Counter may refuse it at a wait of just a window.  It holds for every
\* limit, window and number of instances, whatever other senders do, however
\* often answers are lost, and whatever part of a window Retry-After cuts off.
THEOREM PatienceIsRewardedHolds == Spec => []PatienceIsRewarded
<1>1. PatienceInv => PatienceIsRewarded
  BY DEF PatienceInv, Patient, PatienceIsRewarded
<1>2. QED
  BY <1>1, InitInv, NextInv, InitShare, NextShare, InitPatience, NextPatience, PTL DEF Spec
=============================================================================
