# Rate limiters, modelled and proved

TLA+ models of `ratelimiter/`: four rate-limiting algorithms with one interface,
the backends that make their steps atomic, the detector of traffic shapes, the
adaptive limiter that switches algorithms by what the detector sees, and the
middleware of the demo app. TLC checks the models on small instances; TLAPS
proves the theorems described below, every invariant and action property of the
runs among them, for every value of the constants.

Paths below are relative to `src/`.

## The system

| Component | State | Operations | Modelled in |
|---|---|---|---|
| shared flow (`ratelimiter/base.py`) | none of its own | `allow_request`, `prime` | `RateLimiter` |
| Fixed Window Counter (`fixed_window.py`) | `(window, count)` per client | atomic step | `Algorithms`, `FixedWindowCounter` |
| Sliding Window Log (`sliding_window_log.py`) | a list of timestamps per client | atomic step, `prime` | `Algorithms`, `SlidingWindowLog` |
| Sliding Window Counter (`sliding_window_counter.py`) | `(window, count, previous count)` | atomic step | `Algorithms`, `SlidingWindowCounter` |
| Token Bucket (`token_bucket.py`) | `(tokens, last)` | atomic step, `prime` | `Algorithms`, `TokenBucket` |
| backend contract (`backends/base.py`) | a store | `execute`, `reset` | `AtomicStore`, `RemoteStore` |
| in-memory backend (`backends/memory.py`) | a dict and a lock | `execute`, `reset`, `raw` | `MemoryBackend` |
| Redis backend (`backends/redis_backend.py`) | Redis keys with TTLs, the script cache | `execute`, `reset`, `key_bytes` | `RedisBackend`, `RedisScripts` |
| traffic detector (`traffic_detector.py`) | a deque of timestamps per client | `observe`, `classify` | `TrafficShapes`, `TrafficDetector` |
| adaptive limiter (`adaptive.py`) | a record per client in each process | `allow_request`, `_reselect` | `AdaptiveRateLimiter` |
| middleware (`middleware.py`) | none | `dispatch` | `Middleware` |
| factory, demo app (`__init__.py`, `demo_app/`) | settings | the choice of algorithm and backend, `key_func` | `Middleware` |
| benchmark (`benchmark/`) | lists of timestamps and verdicts | measures, load generators | no |

How they interact. `allow_request` reads the wall clock (`base.py:78`), builds
the arguments, and hands the algorithm's step to `backend.execute`, which runs it
atomically: `MemoryBackend` under a lock, Redis as a Lua script. The adaptive
limiter owns one limiter per algorithm its policy can select, over one backend
but under different keys, and calls theirs. The middleware calls
`allow_request` synchronously on the event loop and answers 429 on `False`.

What is hard about it:

* **The timestamp is older than the step.** It is read before the step takes
  effect, and other threads or processes take theirs in between. A step that runs
  after one with a newer timestamp is called *late* here. No test runs one. Each
  algorithm answers lateness differently: the Fixed Window Counter goes back to
  the older window and forgets the newer count; the Sliding Window Log has
  dropped stamps the late step would have counted; the Sliding Window Counter
  forgets both counts; the Token Bucket takes refill back, into debt.
* **Boundaries.** Window edges, stamps exactly a window old, weights of zero and
  one, fractions of a token, an arrival at the very end of the horizon.
* **A cached decision.** The adaptive limiter keeps, per process and without a
  lock, when it last checked, which algorithm is active and which is pending.
* **The hand-off.** A freshly activated algorithm knows nothing of what its
  predecessor has admitted, and `prime` repairs this for two algorithms of four.
* **Atomicity.** It rests on one lock, and in Redis on scripts. Around a script,
  everything can fail: the connection before or after it has run, the script
  cache, the server. The redis client asks again when a connection breaks, so that
  one `allow_request` may run its script several times.
* **Two of everything.** Each step is written twice, in Python and in Lua, and the
  Lua one's keys expire by another clock than its timestamps.

What makes each component correct:

| Component | Correct if |
|---|---|
| Fixed Window Counter | a window admits at most `Limit` while steps are in order, late steps cost a bounded amount, nobody is rejected without cause |
| Sliding Window Log | the trailing window is exact for the newest timestamp; the log stays bounded |
| Sliding Window Counter | its error is what the weighting explains and no more; its two counts are true |
| Token Bucket | a burst plus the rate, over every interval; debts do not last |
| backends | each call takes effect once, at one instant between call and return; if connections break, a bounded number of times; calls complete |
| detector | it remembers exactly its horizon; clusters are bursty and even traffic is not |
| adaptive limiter | one algorithm governs a window; switches take the dwell; a switch grants no second allowance; what races add is bounded |
| scripts | they answer as their Python twins do, expired keys included |
| middleware | instances over Redis share one limit; who waits for Retry-After gets in |

`PROJECT.json` lists the hazards by line.

## The modules and the code

`Algorithms` holds the four atomic steps as functions from the stored entry and
the timestamp to the new entry and the verdict (`FixedWindowOp`, `SlidingLogOp`,
`SlidingCounterOp`, `TokenBucketOp`), and the two priming steps. It has no state,
so that the modules of the algorithms, the backend and the adaptive limiter
share one translation of the code.

Numbers. Time is an integer of ticks. The weighted estimate of the Sliding Window
Counter is multiplied by `Window`, the Token Bucket counts in units of which
`Token` make one token, and the detector's ratios are given in tenths: every
fraction of the code becomes a comparison of integers, equal to the code's up to
the rounding of floats, which is not modelled. Window indices are integer
division, as `math.floor(now / window)`.

Identity. Admitted requests are numbered, so that two of one instant are two. The
in-memory log is a list of timestamps, the Redis one a sorted set whose members
carry a sequence number; both are a set of numbered stamps here. The list is in the
order of the steps, not of time, but the code filters it and counts it, and
neither depends on the order.

`RateLimiter` is `allow_request` for any algorithm: `ReadClock(w)` is
`base.py:79`, and `Respond(w, allowed)` what returning the verdict does. In
between come `Tick` and the other workers. A worker is a thread, or a process
over one Redis. The modules of the algorithms extend it, add the client's entry,
and `Execute(w)`. The client's key is the only one a step touches, so one client
is followed. `admitted`, `newest` and `late` are history variables: no guard of a
step reads them, but for `NextNumber`, which supplies the identity of a stamp.

`Backend` has what both backends are given: the callers, the keys, the step `Op`,
and the calls and replies made of them. The operators of `MemoryBackend` that its
sibling has too are called `Memory...` (`MemoryNext`, `MemoryTypeOK`), and those of
the Sliding Window Log likewise `Log...`, so that one module of proofs can extend
both.

`AtomicStore` is the contract of a backend: a call is invoked, takes effect in
one step (`Apply`), and returns. `MemoryBackend` splits this into what threads
interleave on: taking the lock, `store.get`, the write, leaving the `with` block.
Its state maps to the abstract one by name, so `ImplementsAtomicStore` needs no
mapping beyond the identity; a call is in effect abstractly when `Put` or
`Clear` writes. The lock is a plain `threading.Lock()` (`memory.py:19`), though
the module's docstring calls it re-entrant; no step calls the backend again, so
the difference cannot show.

`RemoteStore` adds to `AtomicStore` what a server behind connections may do to a
call: end it in an exception, have it asked again, lose the data. `RedisBackend`
implements it. One of its callers is a thread that waits for one command at a
time: `EVALSHA`, and if the script is missing `SCRIPT LOAD` and `EVALSHA` once
more. `execute` itself is a few lines; the commands, the fallback and the retries
are the redis client's, modelled from how `execute` uses it. `requirements.txt`
takes any client from version 5 on, which sends a command again not at all, and
from version 6 on three times: `Retries` is a constant. The mapping to
`RemoteStore` is by name but for the reply: `NOSCRIPT` and `SCRIPT LOAD`'s answer
are none, and a verdict counts as given while it is on its way.

`RedisScripts` has the four Lua steps, written from the Lua text and not from the
Python beside it, and the TTL each gives its key; a key is its value and the time
it expires. `Second` is the unit of `EXPIRE`, to which `math.ceil` rounds.

`Middleware` composes the steps of the algorithms, the stores and `dispatch`. One
instance of the app is an event loop, and `allow_request` runs on it without an `await`:
`Dispatch` reads the clock and takes the loop, and `Admit`, `Refuse` or `Fail` gives it
back; in between, other instances and the clock go on. The environment of
`demo_app/main.py` is chosen in `Init`: any algorithm, either backend, and requests with
and without an `X-Client-Id` or an address. Over Redis three more things happen.
`Resend`: the script has run, its answer is lost, and the redis client sends it again
with the same timestamp, so that a call may count several times and be refused on
account of itself. `Fail`: the call ends in an exception, its script run or not.
`LoseKeys`: the server restarts without its data. Where `RedisBackend` bounds the
retries of a call, `Resend` may happen any number of times but for the bound of the
model, which takes in every version of the client. Senders are external: they send one
request at a time, and after a 429 not before `Retry-After` is over. `granted` counts
what each instance has let through, and over Redis, under "redis", what all of them have
together. `refused` counts the 429s of a sender since a step of its was last let in,
whether it was told so or not.

`TrafficShapes` is `classify` as operators on the timestamps kept.
`TrafficDetector` splits them into what threads of one process interleave on: `append`,
`while self._ts` (`Test`), the look at `self._ts[0]` (`LookAtHead`, which raises if
another thread has emptied the deque since), `popleft`, `len`, `_ts[-1]`, the iteration.
A deque that changes during the iteration makes it raise, so the iteration is one step
at its beginning, and each change (`Mutate`) may end those under way. `observed` is the
history of all arrivals, of which the deque is always the last ones.

`AdaptiveRateLimiter` has one action for every access to a client's record that
another thread's could fall between. `records[w]` is the `_ClientState` that
worker `w` created, `current[i]` the one process `i` keeps in `_state`, and
`mine[w]` the worker's local `st`: two threads that both find no record leave
one of them working on a record that is lost. `Home` says which process a worker is
a thread of; detectors and selections are per process, `entries` is shared.
`observe` is split as in `TrafficDetector`, and `_reselect` into its statements: two
threads may both drop an arrival, both count towards the dwell, both switch and
both prime. What one statement reads and writes of the record is one step, which
concerns `pending_count += 1` and the assignments of the pair `pending,
pending_count`. `classify` is one step, too, but that it raises
while another thread is changing the deque: `ClassifyRaises`, which leaves
`allow_request` after the window has been claimed. `prime` is the step of the
backend or of Redis that it is in the code. `contested` counts, as in
`TrafficDetector`, how often a thread finds a head old that another is about to drop.

## The runs

| Run | Question | Bounds |
|---|---|---|
| `fixed_window` | overshoot of late steps, the boundary burst, no rejection without cause | 2 workers, limit 2, 3 windows of 2 ticks |
| `fixed_window_late` | *violated*: no window above the limit, whatever the order | 2 workers, limit 1 |
| `sliding_log` | exactness for the newest window, overshoot of late steps, size of the log | 2 workers, limit 2, window 3, 7 ticks |
| `sliding_counter` | error of the approximation, overshoot of late steps, truth of the counts | the same |
| `token_bucket` | burst plus rate in any order, debt, recovery | 2 workers, a token of 3 units, refill 2, capacity 6 |
| `memory_backend` | refinement of `AtomicStore`, calls complete | 3 threads, 2 keys, 2 timestamps |
| `detector` | what a race loses, what is bursty, what even traffic is not | 2 threads, 7 arrivals, horizon 6, lag 1 |
| `adaptive` | one governor per window, dwell, hand-offs to the log and the bucket | 1 worker, 8 calls, dwell 2, a policy of 3 algorithms |
| `adaptive_switch_back` | *violated*: no 2x in a window that straddles a switch | 1 worker, default policy |
| `adaptive_races` | what a window admits, which arrivals are lost | 2 threads of one process and 1 of another, limit 1, 3 calls, 4 ticks |
| `redis_backend` | refinement of `RemoteStore`, how often a call is counted, calls end | 2 callers, 1 key, 1 retry |
| `middleware` | one limit over Redis, scripts and expiry, `Retry-After` | 2 instances, 2 senders, 3 requests, 1 failure, limit 1, window 3, seconds of 2 ticks, lag 3 |

What the properties say that may not be expected:

* `HorizonKept`: the deque is the last of what was observed. When two threads have found
  the same head old, both call `popleft`, and the second drops an arrival that is not
  old. That costs one arrival each time (`contested`) and nothing else does. In order
  and undisturbed, what is kept is the horizon exactly.
* `ClustersAreBursty` asks that the newest arrival the thread has read is still kept,
  or only later ones (`UpToDate`). Races may have dropped it by the time of the
  iteration; what is left may then be a handful of late arrivals from before it,
  spread over the bins of a horizon that ends at an arrival no longer there.
* `EvenIsNeitherBurstyNorRamping` holds of an iteration that ends with the arrival
  read before as the newest. If another arrival comes between `_ts[-1]` and the
  loop, it falls on the upper edge as well, and even traffic may be "ramping".
* `WindowBoundedByItsGovernors`: threads and processes that disagree on the
  algorithm admit at most a limit for each algorithm that ran in the window and one
  for each late step and each priming that came after a newer step, besides the
  `refill` of the bucket, `(Window - 1) * Limit / Window`, if that is among them.
* `SettledArrivalsAreKept`: an arrival is *settled* if no other call of the process
  was about to replace the record when it was observed. Settled arrivals in view are
  lost only by threads that were about to drop the same head, one each time; what is
  lost with a replaced record is not settled.
* `EffectsBounded`: with `Retries` retries a request can be counted
  `2 * Retries + 1` times, though both `EVALSHA`s may be sent `Retries + 1` times
  each: one of them must have missed the script.
* `SharedLimit` is about clock-aligned windows: what instances over Redis let through
  together, and over memory each by itself, is a limit (the bucket's is the limit and
  what a window gains), and one more for each step that ran late or long after its
  timestamp (`excused`) and for each loss of the keys (`losses`). Neither lost
  answers nor scripts that run again nor keys that expire add to it. Trailing windows
  are the algorithms' own matter (`BoundaryBurstBounded`, `NewestWindowExact`,
  `OvershootBoundedByWeight`, `BurstPlusRateBound`).
* `PatienceIsRewarded` is about a sender that shares its key with nobody. If it waits
  as told it is admitted once its waits add up to a window, but that the
  Sliding Window Counter may refuse once more: at the very first tick of a window
  the previous one still has its full weight. The waits count from the last step of
  the sender that was let in. A call whose admission was lost and that was sent
  again may be refused on account of itself, at a limit of 1 at once; the waits
  then start from that admission, of which the sender never heard, and it gets one
  series of 429s more than it can explain, but not more than one for each such loss.

The bounds. Two workers suffice for a late step, and since a worker may keep its
timestamp for as long as it likes, the second worker can perform any sequence of
in-order calls meanwhile. Three windows let an entry be of the current window, of the
one before, of an older and, by a late step, of a later one: all the cases the steps
distinguish. A limit of 2 tells "one below the limit" from "empty", and two admissions
at one instant occur. Refill 2 against a token of 3 makes bucket levels that are no
whole token. The backend's three threads are one that holds the lock, one that waits and
one that comes late; two keys show that a step writes no other. The detector's horizon
is cut into 6 bins, thirds of two, which is the least that tells early, middle and late
apart, and 7 arrivals cover arrivals dropped and kept; `MaxLag` lets one tick pass while
a call holds its timestamp, which is enough for late arrivals and late cutoffs.
`adaptive` needs 3 calls to leave "warmup", a dwell of 2 windows to switch, and the
limit again on either side. `adaptive_races` has the least numbers with which two
threads race on one record while another process has a selection of its own; 3 calls are
one whose arrival grows old and two that race to drop it, or one that admits and two
that race to create the record, to re-select or to prime; the horizon is one window, so
that arrivals are dropped. The `IndexError`s of `observe` and of `_ts[-1]` need an
emptied deque, for which a call must hold its timestamp for longer than the horizon: the
steps are in both modules and the proofs cover them, but no run's bounds reach one.
`redis_backend` has one retry, with which each command is sent, lost and sent again in
both of the attempts. In `middleware` a limit of 1 makes the second request of a window
a refusal, and a lost admission that is sent again one. A window there is 3 ticks and a
second 2, so that `Retry-After` is cut to 2 and comes too early, and TTLs are rounded
up; 6 ticks are two windows and the expiry of what the first left. Three requests are
one that is let in, one refused and one that returns after the wait, or three that are
refused after the first one's admission was lost. The names that the header may have are
none in this run: a key that two senders share is "anonymous" there. A call holds its
timestamp for 3 ticks at most (`MaxLag`), a tick more than the bucket tolerates and just
what the fixed window does. One thing fails in a behaviour. The proofs hold for any
number of failures, every lag, header and `Second`, and only they reach the case of a
wait of just a window (`Retry-After` uncut).

Symmetry is declared among the threads of the detector, the two threads of one
process, and the instances and the senders of the middleware; nothing but the
identity tells them apart. No run with a temporal property uses it.

Bounds live in guards (`MaxTime`, `MaxArrivals`, `MaxLag`, `MaxCalls`,
`MaxRequests`, `MaxFailures`). Deadlock is checked in the runs of the algorithms and of the
backends, which never stop: workers go on
calling when the clock no longer moves. The runs with a bound on calls, arrivals or
requests stop there, and turn it off.

Fairness is assumed in the two backends. In `MemoryBackend` it is weak fairness of
each thread's steps, since a thread that can run is scheduled at last. A thread
that waits for the lock is not assumed to get it, because `threading.Lock` is not
fair; so `SomeCallCompletes` promises that some call completes, not each one. In
`RedisBackend` it is weak fairness of each call's steps: the server serves each
connection at last, and a caller that has its answer goes on. Connections may
break and the server restart forever; the retries are bounded, so `EveryCallEnds`
needs no end to the failures. A server that hangs without closing a connection is
excluded: `from_url` is given no socket timeout, and the call would wait forever.

The two runs marked *violated* check what a docstring says and what the code
does not do; the findings in `PROJECT.json` quote both:

* `fixed_window_late`. `adaptive.py:17-18` speaks of "the "<= limit per window"
  invariant each algorithm enforces". With a limit of 1, a step of window 0 is
  admitted, then one of window 1, and then a late one of window 0: it finds window 1
  stored, and `fixed_window.py:55` counts its window from zero, so that window 0 has
  admitted two. `LateStepsBoundedOvershoot` says how far this can go. That the step
  itself is atomic, which is what `redis_backend.py:5-7` is about, holds, and is
  not the point: the timestamps come out of order.
* `adaptive_switch_back`. `base.py:93-94` takes windowed counters to be correct
  when fresh at a boundary. The Fixed Window Counter is no worse fresh than
  not; the Sliding Window Counter is: it relies on the previous count it does
  not have.

More limits of what the code promises show in the models as bounds, not as runs. The
Sliding Window Log is exact for the newest window only; a late step may add one to a
past one (`LateStepsAddOneEach`). And a window of the Token Bucket admits up to a full
bucket plus the refill (`BurstPlusRateBound`), so that `adaptive.py:17`'s "<= limit per
window" invariant of each algorithm is, for the bucket, the limit and the `refill` of
`WindowBoundedByItsGovernors`. `OneAlgorithmPerWindow` is checked and proved for calls
that come one after the other: with two threads, the slower one moves
`last_check_window` back, and a client is re-selected in mid-window, against
`adaptive.py:16`. And at exactly one arrival per bin, even traffic is "moderate" and not
the "steady" of `traffic_detector.py:13`, since the newest arrival shares the last bin
with its predecessor; both policies route the two alike. A request whose reply is lost
may be counted more than once (`EffectsBounded`), and refused by its own first attempt.

## The proofs

Every invariant and every action property of the passing runs is a theorem, and so
are the refinements of both backends. They hold for every number of workers,
callers, instances and senders, every limit, window, policy and time bound.

Assumed is what the modules assume of their constants, which TLC evaluates in the
runs: a limit, a positive window (`ConfigAssumption`), counts that are numbers
(`DetectorAssumption`, `BoundsAssumption`, `BucketAssumption`, `RetriesAssumption`,
`MaxTimeAssumption`), a policy that maps shapes to algorithms, a thread that belongs
to a process and a positive dwell (`AdaptiveAssumption`), a positive second and limit
for Redis (`RedisAssumption`: a bucket that never fills has no TTL), a step that
stores entries and returns a verdict (`OpAssumption`), and that `None` and "redis"
are none of the values they are told from (`None...`, `MiddlewareAssumption`). Five
theorems assume more than their module does:

* `WindowHasOneAlgorithm`, `SwitchDwells` and `HandOffAddsNoBurst` assume
  `OneThread`, one worker, so that calls come one after the other: from the event
  loop of one instance of the middleware they do, and the properties fail as soon as
  calls overlap, of threads or of processes. What overlapping calls still guarantee
  is `WindowBounded`, which does not assume it.
* `EvenTraffic` assumes `BurstyRatio >= 30`, `RampRatio >= 16` (in tenths) and
  `NumBins >= 6`, `Clusters` `BurstyRatio <= 30` and `NumBins >= 3`. The code has 30
  bins, 3.0 and 1.8 (`traffic_detector.py`), so that both hold of it. The ratio of
  3.0 is the only one both allow: a cluster that fills a third of the horizon need
  not exceed it, and it is up to there that the proof bounds the peak of even traffic.

`RateLimiterProofs` has the lemmas the limiters share: the type of the variables of
the flow; that an admission adds one new request to the history, and how `newest`
and `late` move (`RespondInv`); that a window-long interval meets two clock-aligned
windows (`TwoWindows`, `TrailingSplit`); and what one step of each algorithm
answers and leaves (`FixedWindowStep`, `SlidingLogStep`, `SlidingCounterStep`,
`TokenBucketStep`), for the algorithms by themselves and under the adaptive limiter
alike. Each module below states an inductive invariant `IInv`, proves that `Init`
implies it and that a step keeps it, and derives its theorems.

* `WindowProofs`, the Fixed Window Counter. `LateStepsBoundedOvershoot` is not
  inductive: it does not say how much of a window's allowance is used up. `IInv`
  gives each window an allowance by where the stored window is: `Limit * late` for
  windows above it, which only late steps have left; that and the stored count for
  the stored one; that and a `Limit` for windows below. A late step moves the stored
  window down, and raises the allowance of the windows above by exactly the `Limit`
  it pays with `late + 1`. `BoundaryBurst` follows for `late = 0` from two windows.
* `WindowProofs`, the Sliding Window Log. `LogInv`: the log holds admitted requests
  only and every one within a window of the newest timestamp. An admission that is
  not late therefore counts all there is; a late one adds one, and `late` pays.
* `SlidingCounterProofs`. The same allowances, and for `late = 0` that both counts are
  true. `OvershootBounded` needs the arithmetic of one admission
  (`EstimateBounds`): an estimate below the limit bounds the two counts together by
  the limit and the part of the previous count the weight has let go.
* `TokenBucketProofs`. For each interval that has admitted something, the tokens
  spent in it and those left come to at most the capacity and what was gained from
  its start to the last step. The empty intervals are excluded since the bucket may
  have been full all along. The debt is bounded by the gain from the last step to
  the newest timestamp, which is what makes the debt temporary.
* `BackendProofs`, in memory. `MemoryIInv`: only the owner of the lock is in the
  `with` block, and where a thread is tells whether it has a call and a reply. From
  that, `MemoryRefinement`: `Put` and `Clear` are `Apply` of `AtomicStore`, `Invoke`
  and `Return` are themselves, and the other steps leave it alone.
* `BackendProofs`, Redis. `IInv` ties the command a caller waits for to its call and to
  what has been answered, and `effects` to the attempt: on the first `EVALSHA` it is
  at most one for each time that was sent, and a caller that got to load the script
  missed it the last time. `Refinement`: `RunScript` and `Flush` are `Apply`,
  `Break` with an answer on its way is `AskAgain`, `Raise` is `GiveUp`, `Restart`
  is `LoseData` or nothing.
* `MiddlewareProofs`. Each entry is *backed*: it tells of nothing later than the
  server's time at which its last step ran, which is the key's expiry less its TTL, and
  a bucket's debt is paid by then. From that, `ExpiredMeansNothing`: past the TTL less
  the `Tolerance` of the algorithm the entry bears on no step. With `ScriptIsStep`, that
  each Lua step equals its Python twin, this gives `RedisAnswersAsMemoryHolds`.
  `Tolerance` is how late a step may be: none for the log and the sliding counter, whose
  TTLs are exact; a second for the bucket, a window for the fixed window. `ShareInv` is
  about what a store that counts has let through in each window: until the window is
  over, that and the `Room` its entry still leaves come to a share at most, and a limit
  for each excused step and each loss of the keys (`Extras`). A script that runs again
  only takes room away. It takes an entry that says how much of the window is spent,
  which is `IInv`'s part: only excused steps meet a key that expired too early.
  `SharedLimitHolds` follows. `PatienceInv` is about a sender that has been refused: all
  its entry counts was let in before the first of these waits began (`SpentBy`,
  `Since`), so that once they add up to a window nothing is left to refuse it for. A
  refusal that it is told or not told of keeps that (`RefusalKept`, `UntoldStays`), an
  admission that it is told or not told of starts it afresh (`PatientAfresh`), and keys
  that are lost count nothing (`KeysLost`). `PatienceIsRewardedHolds` follows.
* `DetectorProofs`. For `HorizonIsKept`, the deque is a suffix of what was observed
  (`Suffix`). What races have dropped in view is counted against the threads that
  are about to drop something: each costs one arrival at most, and all but one of
  them were counted in `contested` when they came (`Accounted`, `Forfeit`). As long
  as arrivals come in order, they lie in order, and the head is within the horizon
  of every one of them, but for those whose thread is still dropping (`Sorted`,
  `Tidy`). For `EvenTraffic`, the bins of an even sequence are computed (`EvenBins`):
  a bin holds as many as fit, one for its lower edge and the newest one at most
  (`EvenPeak`), and the last third holds at most one more than the first, which has
  two or more (`EvenThirds`). For `Clusters`, arrivals within a third of the horizon of
  the one the thread has read, or newer, all fall in the last third of the bins
  (`BinOfRecent`), so that one of these holds its share of a third at least, three times
  the mean (`RowOfBins`, `LastThirdIsSpiky`).
* `AdaptiveProofs`, for any number of threads and processes. `IInv` says where a
  worker's local record comes from (`Locals`, `Owned`), that nothing is settled while a
  record may still be replaced (`NothingSettled`), and for each process (`Accounted`)
  that the settled arrivals it has lost, and the threads about to drop one more, come to
  no more than `contested`, and one if the head is old (`Forfeit`): a drop turns one of
  the threads into an arrival lost, or spends the old head. `SettledArrivalsKept`
  follows. `SharesInv` is behind `WindowBounded`: for each window there are numbers of
  admissions, one for each algorithm that ran in it, and of late steps and primings,
  such that each algorithm's admissions and the room its entry leaves are within its
  share and a limit for each of its late steps. It is a statement that such numbers
  exist, since the history does not tell who admitted what; a step raises one of them. A
  priming only takes room away, unless it is late.
* `AdaptiveProofs`, one call at a time. `OneThreadInv`: time moves on and every call
  works on the record its process holds (`InOrder`), the last check is that of the
  newest window, and a switch is only under way in a window in which nothing has run
  (`Checked`, `Governing`); the hysteresis counts different windows (`Dwelling`).
  `WindowHasOneAlgorithm` and `SwitchDwells` follow. `HandOffInv` adds what a switch
  finds and leaves: the counter's entry is the truth of the windows it governs
  (`CounterIsTrue`), so that the window before the switch has admitted no more than
  the limit, and the switch's own window nothing before the switch (`QuietBefore`);
  from then on the bucket has admitted no more than it has refilled, and the log
  nothing for a window (`GrantedSince`, `Spendable`). `HandOffAddsNoBurst` follows.

Only model-checked: `SomeCallCompletes` and `EveryCallEnds`, since liveness under
fairness is out of the prover's reach. The lemmas on the detector's sequences go
around induction over data: they count positions, and where a least or a last one is
needed they take it from the well-foundedness of the numbers.

## Not modelled

* Floating-point rounding; `stats`, `snapshot`, `raw` and `key_bytes`, which only
  read; routes and their responses; the wall clock stepping back, which is one more
  way to be late.
* Redis: a server that hangs; a restart from a snapshot older than the last write
  (the keys are all kept or all lost here); a command of a broken connection that the server
  executes after the client has sent it again. The sequence key `:seq` of the log is
  taken as a supply of fresh numbers. Rate zero in the bucket's script, which
  divides by it (`token_bucket.py:72`).
* `RL_ALGORITHM=adaptive` behind the middleware: an event loop is one thread, and
  `AdaptiveRateLimiter` covers more. Over Redis, its instances are the processes of
  `adaptive_races`, but with a backend that does not fail.
* With a window below a second `Retry-After` is 0, and `PatienceIsRewarded` says
  nothing.
* The benchmark: a single-threaded harness that generates timestamps, measures and
  plots; nothing in it is state of the library.

## The plan

* The adaptive limiter over a Redis that fails: a `prime` that is lost after the new
  algorithm has become active, and an `execute` that raises out of `allow_request`.
* The bounds of `HandOffAddsNoBurst` with late steps, as `WindowBounded` has them for
  clock-aligned windows.
