------------------------------ MODULE Algorithms ------------------------------
(***************************************************************************)
(* The atomic "read the counter, decide, write it back" step of each of    *)
(* the four algorithms, as a function from the stored entry and the        *)
(* request's timestamp to the new entry and the verdict, and the two       *)
(* priming steps of an adaptive switch.                                    *)
(*                                                                         *)
(* Time is counted in ticks, Window of them to a window.  What the code    *)
(* computes with fractions is computed here on a common denominator: the   *)
(* weighted estimate is multiplied by Window, and tokens are counted in    *)
(* units small enough for the refill of one tick to be a whole number.     *)
(***************************************************************************)
EXTENDS Integers, FiniteSets

CONSTANTS
  Limit,       \* requests permitted per window
  Window,      \* length of a window, in ticks
  None         \* what store.get returns for a key it does not hold

ASSUME ConfigAssumption ==
  /\ Limit \in Nat
  /\ Window \in Nat \ {0}
  /\ None \notin Int

\* math.floor(now / window): the index of the clock-aligned window t falls in.
WindowOf(t) == t \div Window

\* now - current * window: how far t is into its window.
Elapsed(t) == t - WindowOf(t) * Window

\* The step's result list: the entry it stores, and whether it admits.
Result(entry, allowed) == [entry |-> entry, allowed |-> allowed]

\* Mutant: one request too many is permitted.
PermitsOneMore(count) == count <= Limit

\* Whether a count of admitted requests leaves room for another.
Permits(count) == count < Limit

-----------------------------------------------------------------------------
(* Fixed Window Counter: the window last counted in, and its count.        *)

FixedWindowEntry == [w : Int, c : Nat]

ASSUME NoneIsNoFixedWindowEntry == None \notin FixedWindowEntry

\* Mutant: the count survives the window it was made in.
CountNeverReset(e, current) == IF e # None THEN e.c ELSE 0

\* The count of the window current as the entry e tells it.
CurrentCount(e, current) == IF e # None /\ e.w = current THEN e.c ELSE 0

FixedWindowOp(e, t) ==
  LET current == WindowOf(t)
      count   == CurrentCount(e, current)
      allowed == Permits(count)
  IN  Result([w |-> current, c |-> IF allowed THEN count + 1 ELSE count], allowed)

-----------------------------------------------------------------------------
(* Sliding Window Log: one stamp per admitted request.  A stamp carries a  *)
(* number besides its time, as a member of the Redis sorted set does, so   *)
(* that requests admitted at the same instant stay distinct.               *)

Stamp == [t : Int, n : Int]

\* Mutant: stamps are dropped a tick early.
KeptTooShort(log, t) == {s \in log : s.t > t - Window + 1}

\* Mutant: a stamp exactly a window old still counts.
KeptTooLong(log, t) == {s \in log : s.t >= t - Window}

\* The stamps that have not aged out at t.
Kept(log, t) == {s \in log : s.t > t - Window}

SlidingLogOp(log, t, n) ==
  LET kept    == Kept(log, t)
      allowed == Permits(Cardinality(kept))
  IN  Result(IF allowed THEN kept \cup {[t |-> t, n |-> n]} ELSE kept, allowed)

\* Filling the log at a switch: Limit stamps at t, numbered below any request.
SlidingLogPrime(t) == {[t |-> t, n |-> -i] : i \in 1..Limit}

-----------------------------------------------------------------------------
(* Sliding Window Counter: the counts of the current window and of the one *)
(* before it, the latter weighted by what is left of it in the last Window *)
(* ticks.                                                                  *)

SlidingCounterEntry == [w : Int, c : Nat, p : Nat]

ASSUME NoneIsNoSlidingCounterEntry == None \notin SlidingCounterEntry

\* Mutant: the counts are shifted however many windows have passed.
ShiftedAcrossGaps(e, current) ==
  IF e = None THEN 0 ELSE IF e.w = current THEN e.p ELSE e.c

\* Mutant: nothing is carried over from the window before.
NothingCarriedOver(e, current) == 0

\* The count of the window before current as the entry e tells it.
PreviousCount(e, current) ==
  CASE e # None /\ e.w = current     -> e.p
    [] e # None /\ e.w = current - 1 -> e.c
    [] OTHER                         -> 0

\* Mutant: admits one request too many.
EstimateOffByOne(cc, pc, t) == pc * (Window - Elapsed(t)) + (cc - 1) * Window

\* The estimate of the rolling count, in units of which Window make a request.
Estimate(cc, pc, t) == pc * (Window - Elapsed(t)) + cc * Window

SlidingCounterOp(e, t) ==
  LET current == WindowOf(t)
      cc      == CurrentCount(e, current)
      pc      == PreviousCount(e, current)
      allowed == Estimate(cc, pc, t) < Limit * Window
  IN  Result([w |-> current, c |-> IF allowed THEN cc + 1 ELSE cc, p |-> pc], allowed)

-----------------------------------------------------------------------------
(* Token Bucket: the tokens left and when they were counted.  A bucket b   *)
(* says how many units make a token, how many the bucket holds and how     *)
(* many it gains in a tick.                                                *)

Bucket == [token : Nat \ {0}, capacity : Nat, rate : Nat]

\* The bucket derived from limit and window: it holds Limit tokens and gains
\* as many in a window, in units of which Window make a token.
DefaultBucket == [token |-> Window, capacity |-> Limit * Window, rate |-> Limit]

TokenBucketEntry == [tokens : Int, last : Int]

ASSUME NoneIsNoTokenBucketEntry == None \notin TokenBucketEntry

Capped(b, tokens) == IF tokens > b.capacity THEN b.capacity ELSE tokens

\* Mutant: time is taken not to go back, though last does.
RefilledForwardOnly(b, e, t) ==
  Capped(b, IF t > e.last THEN e.tokens + (t - e.last) * b.rate ELSE e.tokens)

\* Mutant: a bucket left alone overflows.
RefilledUncapped(b, e, t) == e.tokens + (t - e.last) * b.rate

\* What a stored entry is worth at t.  The refill is negative when t is before
\* the time of the last count; only the capacity caps it.
Refilled(b, e, t) == Capped(b, e.tokens + (t - e.last) * b.rate)

\* Mutant: a rejected request spends a token, too.
TokenBucketSpendsAlways(b, e, t) ==
  LET tokens  == IF e = None THEN b.capacity ELSE Refilled(b, e, t)
      allowed == tokens >= b.token
  IN  Result([tokens |-> tokens - b.token, last |-> t], allowed)

TokenBucketOp(b, e, t) ==
  LET tokens  == IF e = None THEN b.capacity ELSE Refilled(b, e, t)
      allowed == tokens >= b.token
  IN  Result([tokens |-> IF allowed THEN tokens - b.token ELSE tokens, last |-> t],
             allowed)

\* Emptying the bucket at a switch.
TokenBucketPrime(t) == [tokens |-> 0, last |-> t]

=============================================================================
