----------------------------- MODULE Middleware -----------------------------
(***************************************************************************)
(* The demo app: instances of it, each an event loop with the middleware   *)
(* in front of the app, over stores of their own or over one Redis, and    *)
(* senders of requests that obey Retry-After.                              *)
(*                                                                         *)
(* dispatch calls the limiter synchronously: from reading the clock to the *)
(* verdict the loop does nothing else.  When the answer of Redis is lost,  *)
(* the redis client sends the script again, with the same timestamp, and   *)
(* the script counts again.  A call may fail in the end, whether its       *)
(* script has run or not; nothing catches that, and the sender gets a 500. *)
(* Redis may restart and lose the keys.                                    *)
(*                                                                         *)
(* Once the limiter has let a request through, it is the app's,            *)
(* and the loop takes others: what the app does bears on nothing here, but *)
(* that its sender may take any time until the next request.               *)
(***************************************************************************)
EXTENDS RedisScripts

CONSTANTS
  Instances,     \* the processes that run the app
  Senders,       \* who sends requests, one after the other
  Headers,       \* the values of X-Client-Id in use
  MaxTime,       \* bound of the model: the clock stops here
  MaxLag,        \* bound of the model: ticks that pass while a call is in hand
  MaxRequests,   \* bound of the model: requests sent
  MaxFailures    \* bound of the model: lost answers, failed calls, restarts

ASSUME MiddlewareAssumption ==
  /\ MaxTime \in Nat /\ MaxRequests \in Nat /\ MaxFailures \in Nat
  /\ "redis" \notin Instances /\ None \notin Instances

VARIABLES
  algorithm,   \* RL_ALGORITHM
  backend,     \* RL_BACKEND
  header,      \* header[s]: the X-Client-Id that s sends, or None
  host,        \* host[s]: the address its requests come from, or None
  clock,
  keys,        \* keys[k][c]: what the store k holds for client c
  at,          \* at[s]: the instance that has the request of s in hand
  now,         \* now[s]: the timestamp of its call of the limiter
  resume,      \* resume[s]: when s may send again
  requests,    \* requests sent
  failures,    \* answers lost, calls failed and restarts
  (* History variables. *)
  granted,     \* granted[k][c][w]: requests of client c let through in window
               \* w by the instance k, or, over Redis, by all of them (k = "redis")
  newest,      \* newest[c]: the greatest timestamp of a step of client c
  excused,     \* steps that ran late, or long after their timestamp
  losses,      \* restarts that lost the keys
  refused      \* refused[s]: how often s was told 429 since a step of its was
               \* last let in, whether s was told of that or not

config == <<algorithm, backend, header, host>>
history == <<granted, newest, excused, losses, refused>>
vars == <<config, clock, keys, at, now, resume, requests, failures, history>>

Time == 0..MaxTime

\* What a key may hold: of the Sliding Window Log, the stamps of Limit requests
\* at most.
Logs == SUBSET [t : Time, n : 1..Limit]

Entries == Logs \cup FixedWindowEntry \cup SlidingCounterEntry \cup TokenBucketEntry

ASSUME NoneIsNoLog == \A log \in Logs : log # None

ASSUME NoneIsNoKey == None \notin [entry : Entries, expires : Int]

Windows == {WindowOf(t) : t \in Time}

Clients == Senders \cup Headers \cup {"anonymous"}

Stores == Instances \cup {"redis"}

\* default_key_func: the address.
DefaultKeyFunc(s) == IF host[s] # None THEN host[s] ELSE "anonymous"

\* Whom a request is counted for: its header, else its address.
KeyFunc(s) == IF header[s] # None THEN header[s] ELSE DefaultKeyFunc(s)

\* Mutant: the backend is always the instance's own.
StoreAlwaysOwn(i) == i

\* The store that build_limiter gives the instance i.
StoreOf(i) == IF backend = "redis" THEN "redis" ELSE i

\* Mutant: always rounded up to the next second.
RetryAfterNext == (Window \div Second + 1) * Second

\* For the history: who grants what the instance i lets through, the one Redis
\* for all of them or i by itself, whichever store a step really ran on.
Grantor(i) == IF backend = "redis" THEN "redis" ELSE i

\* Seconds are whole in the Retry-After header.
RetryAfter == (Window \div Second) * Second

TypeOK ==
  /\ algorithm \in ALGORITHMS /\ backend \in {"memory", "redis"}
  /\ header \in [Senders -> Headers \cup {None}]
  /\ host \in [Senders -> Senders \cup {None}]
  /\ clock \in Time
  /\ DOMAIN keys = Stores /\ \A k \in Stores : DOMAIN keys[k] = Clients
  /\ at \in [Senders -> Instances \cup {None}]
  /\ now \in [Senders -> Time \cup {None}]
  /\ resume \in [Senders -> 0..clock + Window]
  /\ requests \in 0..MaxRequests /\ failures \in 0..MaxFailures
  /\ granted \in [Stores -> [Clients -> [Windows -> Nat]]]
  /\ newest \in [Clients -> Time \cup {-1}]
  /\ excused \in Nat /\ losses \in Nat
  /\ refused \in [Senders -> Nat]

Init ==
  /\ algorithm \in ALGORITHMS /\ backend \in {"memory", "redis"}
  /\ header \in [Senders -> Headers \cup {None}]
  /\ host \in [Senders -> Senders \cup {None}]
  /\ \A s \in Senders : host[s] = s \/ (host[s] = None /\ header[s] = None)
  /\ clock = 0
  /\ keys = [k \in Stores |-> [c \in Clients |-> None]]
  /\ at = [s \in Senders |-> None]
  /\ now = [s \in Senders |-> None]
  /\ resume = [s \in Senders |-> 0]
  /\ requests = 0 /\ failures = 0
  /\ granted = [k \in Stores |-> [c \in Clients |-> [w \in Windows |-> 0]]]
  /\ newest = [c \in Clients |-> -1]
  /\ excused = 0 /\ losses = 0
  /\ refused = [s \in Senders |-> 0]

Tick ==
  /\ clock < MaxTime
  /\ \A s \in Senders : at[s] # None => clock < now[s] + MaxLag
  /\ clock' = clock + 1
  /\ UNCHANGED <<config, keys, at, now, resume, requests, failures, history>>

\* The loop of i takes up a request of s: key_func, and now = time.time().
Dispatch(s, i) ==
  /\ requests < MaxRequests
  /\ at[s] = None /\ clock >= resume[s]
  /\ \A o \in Senders : at[o] # i
  /\ at' = [at EXCEPT ![s] = i]
  /\ now' = [now EXCEPT ![s] = clock]
  /\ requests' = requests + 1
  /\ UNCHANGED <<config, clock, keys, resume, failures, history>>

\* What the step of s reads and computes, and the key it leaves.
EntryOf(s) ==
  LET key == keys[StoreOf(at[s])][KeyFunc(s)] IN
    IF backend = "redis" THEN Value(key, clock)
    ELSE IF key = None THEN None ELSE key.entry

ResultOf(s) ==
  LET n == IF algorithm = "sliding_window_log" THEN FreshNumber(EntryOf(s), now[s]) ELSE 0
  IN  IF backend = "redis" THEN Script(algorithm, EntryOf(s), now[s], n)
      ELSE Step(algorithm, EntryOf(s), now[s], n)

\* The step of s takes effect.
TakeEffect(s) ==
  /\ keys' = [keys EXCEPT ![StoreOf(at[s])][KeyFunc(s)] =
                Key(ResultOf(s).entry, clock + Ttl(algorithm))]
  /\ newest' = [newest EXCEPT ![KeyFunc(s)] = IF now[s] > @ THEN now[s] ELSE @]
  /\ excused' = excused + IF \/ now[s] < newest[KeyFunc(s)]
                             \/ now[s] < clock - Tolerance(algorithm)
                            THEN 1 ELSE 0
  /\ UNCHANGED losses

\* It does, and s is not told: what s was refused before it counts no more
\* once it is let in.
TakeEffectUntold(s) ==
  /\ TakeEffect(s)
  /\ refused' = [refused EXCEPT ![s] = IF ResultOf(s).allowed THEN 0 ELSE @]

\* The limiter is done with the request of s.
Done(s) ==
  /\ at' = [at EXCEPT ![s] = None]
  /\ now' = [now EXCEPT ![s] = None]
  /\ UNCHANGED <<config, clock, requests>>

\* It lets the request through: await call_next(request).
Admit(s) ==
  /\ at[s] # None /\ ResultOf(s).allowed
  /\ TakeEffect(s)
  /\ Done(s)
  /\ granted' = [granted EXCEPT
                   ![Grantor(at[s])][KeyFunc(s)][WindowOf(now[s])] = @ + 1]
  /\ refused' = [refused EXCEPT ![s] = 0]
  /\ UNCHANGED <<resume, failures>>

\* A 429, with Retry-After.
Refuse(s) ==
  /\ at[s] # None /\ ~ResultOf(s).allowed
  /\ TakeEffect(s)
  /\ Done(s)
  /\ resume' = [resume EXCEPT ![s] = clock + RetryAfter]
  /\ refused' = [refused EXCEPT ![s] = @ + 1]
  /\ UNCHANGED <<granted, failures>>

\* One more thing goes wrong.
Failing == failures < MaxFailures /\ failures' = failures + 1

\* The script has run and its answer is lost: the redis client sends it again.
\* How often it does so depends on its version; here nothing but MaxFailures
\* bounds it.
Resend(s) ==
  /\ at[s] # None /\ backend = "redis"
  /\ TakeEffectUntold(s)
  /\ Failing
  /\ UNCHANGED <<config, clock, at, now, resume, requests, granted>>

\* Redis cannot be reached, or its answer is lost for good: a 500.
Fail(s) ==
  /\ at[s] # None /\ backend = "redis"
  /\ TakeEffectUntold(s) \/ UNCHANGED <<keys, newest, excused, losses, refused>>
  /\ Done(s)
  /\ Failing
  /\ UNCHANGED <<resume, granted>>

\* Redis restarts without its keys.
LoseKeys ==
  /\ backend = "redis"
  /\ keys' = [keys EXCEPT !["redis"] = [c \in Clients |-> None]]
  /\ losses' = losses + 1
  /\ Failing
  /\ UNCHANGED <<config, clock, at, now, resume, requests,
                 granted, newest, excused, refused>>

Next ==
  \/ Tick
  \/ \E s \in Senders :
       \/ \E i \in Instances : Dispatch(s, i)
       \/ Admit(s)
       \/ Refuse(s)
       \/ Resend(s)
       \/ Fail(s)
  \/ LoseKeys

Spec == Init /\ [][Next]_vars

-----------------------------------------------------------------------------

\* Redis answers as memory would: for a step within Tolerance of the server's
\* clock, the script finds the same verdict and leaves the same entry, on a key
\* that may have expired, as its Python twin on the entry it would have kept.
RedisAnswersAsMemory ==
  \A c \in Clients : \A lag \in 0..Tolerance(algorithm) :
    LET key == keys["redis"][c]
        t   == clock - lag
    IN  key # None
          => Script(algorithm, Value(key, clock), t, 1) = Step(algorithm, key.entry, t, 1)

\* What one store admits of one client in a clock-aligned window, in units of
\* which Window make a request.
Share ==
  Window * Limit + IF algorithm = "token_bucket" THEN (Window - 1) * Limit ELSE 0

\* In a clock-aligned window the instances over Redis let through one share
\* together, over memory each its own.  Answers lost, and scripts run again for
\* them, take nothing from it, and expired keys add nothing to it.  A step that
\* is excused costs one more limit at most, and so does a loss of the keys.
SharedLimit ==
  \A c \in Clients, w \in Windows :
    \A k \in IF backend = "redis" THEN {"redis"} ELSE Instances :
      Window * granted[k][c][w] <= Share + Window * Limit * (excused + losses)

\* No other sender is counted with s.
Alone(s) == \A o \in Senders \ {s} : KeyFunc(o) # KeyFunc(s)

\* What s has waited for as it was told, and then been refused nevertheless.
Waited(s) == (refused[s] - 1) * RetryAfter

\* Who waits for as long as Retry-After says, and shares its allowance with
\* nobody, is not refused any more once its waits add up to a window.  They
\* count from its last request that was let in, or that was counted as such and
\* whose answer was lost: what others send, failed calls, scripts that ran
\* again and lost keys do not prolong them.  The Sliding Window Counter may
\* refuse at a wait of just a window, the first tick of the next one.
PatienceIsRewarded ==
  \A s \in Senders :
    Alone(s) /\ refused[s] # 0
      => \/ Waited(s) < Window
         \/ Waited(s) = Window /\ algorithm = "sliding_window_counter"

=============================================================================
