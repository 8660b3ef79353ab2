---------------------------- MODULE RedisScripts ----------------------------
(***************************************************************************)
(* The Lua scripts of the four algorithms, beside the Python steps they    *)
(* are the twins of.  A script gives the key a time to live, counted by    *)
(* the server's clock from the moment it runs, while the timestamp it      *)
(* works with is the caller's and older.                                   *)
(***************************************************************************)
EXTENDS Algorithms

CONSTANT Second   \* ticks in a second, the unit of EXPIRE

\* A limit of zero would make a bucket that never fills, whose time to live
\* the script cannot compute.
ASSUME RedisAssumption ==
  /\ Second \in Nat \ {0}
  /\ Limit > 0

\* The registry of build_limiter.
ALGORITHMS ==
  {"fixed_window", "sliding_window_log", "sliding_window_counter", "token_bucket"}

\* The Python step of algorithm a, on an entry or on None.
Step(a, e, t, n) ==
  CASE a = "fixed_window"           -> FixedWindowOp(e, t)
    [] a = "sliding_window_log"     -> SlidingLogOp(IF e = None THEN {} ELSE e, t, n)
    [] a = "sliding_window_counter" -> SlidingCounterOp(e, t)
    [] a = "token_bucket"           -> TokenBucketOp(DefaultBucket, e, t)

-----------------------------------------------------------------------------
(* The scripts.  e is the value of KEYS[1], or None.                       *)

\* HMGET w c: a count of another window, or none, is zero.
FixedWindowScript(e, t) ==
  LET current == WindowOf(t)
      count   == IF e = None \/ e.w # current THEN 0 ELSE e.c
      allowed == Permits(count)
  IN  Result([w |-> current, c |-> IF allowed THEN count + 1 ELSE count], allowed)

\* ZREMRANGEBYSCORE -inf cutoff, ZCARD, and ZADD with a member numbered n.
SlidingLogScript(e, t, n) ==
  LET zset    == IF e = None THEN {} ELSE e
      left    == zset \ {x \in zset : x.t <= t - Window}
      allowed == Permits(Cardinality(left))
  IN  Result(IF allowed THEN left \cup {[t |-> t, n |-> n]} ELSE left, allowed)

\* A number that no member at t of the sorted set e bears, as INCR gives it.
FreshNumber(e, t) ==
  1 + IF e = None THEN 0 ELSE Cardinality({s \in e : s.t = t})

\* HMGET w c p, moved on to the current window.
SlidingCounterScript(e, t) ==
  LET current == WindowOf(t)
      moved   == IF e = None               THEN [cc |-> 0, pc |-> 0]
                 ELSE IF e.w = current     THEN [cc |-> e.c, pc |-> e.p]
                 ELSE IF e.w = current - 1 THEN [cc |-> 0, pc |-> e.c]
                 ELSE [cc |-> 0, pc |-> 0]
      allowed == Estimate(moved.cc, moved.pc, t) < Limit * Window
  IN  Result([w |-> current, c |-> IF allowed THEN moved.cc + 1 ELSE moved.cc,
              p |-> moved.pc], allowed)

\* Mutant: a rejected request spends a token, too.
TokenBucketScriptSpendsAlways(b, e, t) ==
  LET last    == IF e = None THEN [tokens |-> b.capacity, last |-> t] ELSE e
      tokens  == Refilled(b, last, t)
      allowed == tokens >= b.token
  IN  Result([tokens |-> tokens - b.token, last |-> t], allowed)

\* HMGET t ts: a bucket that is not there is full, and is refilled as well.
TokenBucketScript(b, e, t) ==
  LET last    == IF e = None THEN [tokens |-> b.capacity, last |-> t] ELSE e
      tokens  == Refilled(b, last, t)
      allowed == tokens >= b.token
  IN  Result([tokens |-> IF allowed THEN tokens - b.token ELSE tokens, last |-> t],
             allowed)

\* The script of algorithm a.
Script(a, e, t, n) ==
  CASE a = "fixed_window"           -> FixedWindowScript(e, t)
    [] a = "sliding_window_log"     -> SlidingLogScript(e, t, n)
    [] a = "sliding_window_counter" -> SlidingCounterScript(e, t)
    [] a = "token_bucket"           -> TokenBucketScript(DefaultBucket, e, t)

-----------------------------------------------------------------------------
(* Their keys.                                                             *)

CeilDiv(x, y) == (x + y - 1) \div y

\* math.ceil of a number of seconds, in ticks.
CeilSeconds(x) == CeilDiv(x, Second) * Second

\* The time in which the bucket b fills.
TimeToFill(b) == CeilDiv(b.capacity, b.rate)

\* Mutant: every key lives for a window.
TtlOneWindow(a) == CeilSeconds(Window)

\* The argument of EXPIRE.
Ttl(a) ==
  CASE a = "fixed_window"           -> CeilSeconds(2 * Window)
    [] a = "sliding_window_log"     -> CeilSeconds(Window)
    [] a = "sliding_window_counter" -> CeilSeconds(2 * Window)
    [] a = "token_bucket"           -> CeilSeconds(TimeToFill(DefaultBucket)) + Second

\* A key of the server: its value and when it expires.
Key(e, expires) == [entry |-> e, expires |-> expires]

\* The value of a key at the server's time s.
Value(key, s) == IF key # None /\ s < key.expires THEN key.entry ELSE None

-----------------------------------------------------------------------------

\* How far the timestamp of a step may lie behind the server's clock before
\* the expiry of a key shows: the fixed window keeps its key for longer than
\* it needs, the others hardly.
Tolerance(a) ==
  CASE a = "fixed_window" -> Window
    [] a = "token_bucket" -> Second
    [] OTHER              -> 0

=============================================================================
