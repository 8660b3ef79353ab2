---------------------------- MODULE BackendProofs ----------------------------
(***************************************************************************)
(* Theorems about the two backends, for every number of callers and keys,  *)
(* and every step an algorithm may have them run: of the in-memory one for *)
(* every interleaving of its threads, of the Redis one for every number of *)
(* retries and every pattern of broken connections and restarts.           *)
(***************************************************************************)
EXTENDS MemoryBackend, RedisBackend, Integers, TLAPS

-----------------------------------------------------------------------------
(* The in-memory backend.                                                  *)

\* The lock belongs to the thread that is between Acquire and Release.
Holding(w) == pc[w] \in {"locked", "read", "written"}

\* A thread has a reply from its write to its return.
HasReply(w) == pc[w] \in {"written", "left"}

\* The inductive invariant.  Only the owner of the lock is in the with block,
\* and an entry in hand is the one stored; where a thread is tells whether it
\* has a call and a reply.
MemoryIInv ==
  /\ MemoryTypeOK
  /\ \A w \in Workers : Holding(w) => lock = w
  /\ \A w \in Workers : pc[w] = "read" => call[w].op = "execute"
  /\ FoundIsCurrent
  /\ \A w \in Workers : call[w] = None <=> pc[w] = "idle"
  /\ \A w \in Workers : reply[w] = None <=> ~HasReply(w)

\* A call of execute carries a key and a timestamp, and its step has a result.
LEMMA MemoryExecuteArguments ==
  ASSUME MemoryTypeOK, NEW w \in Workers, call[w] # None, call[w].op = "execute"
  PROVE  /\ call[w].key \in Keys
         /\ call[w].t \in Times
         /\ Op(found[w], call[w].t).entry \in Entries
         /\ Op(found[w], call[w].t).allowed \in BOOLEAN
<1>1. call[w] \in Calls
  BY DEF MemoryTypeOK
<1>2. call[w].key \in Keys /\ call[w].t \in Times
  <2>1. call[w] # [op |-> "reset"]
    OBVIOUS
  <2>2. call[w] \in [op : {"execute"}, key : Keys, t : Times]
    BY <1>1, <2>1 DEF Calls
  <2>3. QED
    BY <2>2
<1>3. found[w] \in Entries \cup {None}
  BY DEF MemoryTypeOK
<1>4. QED
  BY <1>2, <1>3, OpAssumption

\* Two threads are never in the with block together.
LEMMA OneHolder ==
  ASSUME MemoryIInv, NEW v \in Workers, NEW w \in Workers, Holding(v), Holding(w)
  PROVE  v = w
BY DEF MemoryIInv

\* The replies of a call.
LEMMA ReplyTypes ==
  /\ \A b \in BOOLEAN : Verdict(b) \in Replies
  /\ "wiped" \in Replies
BY DEF Verdict, Replies

LEMMA MemoryInitInv == MemoryInit => MemoryIInv
BY DEF MemoryInit, MemoryIInv, MemoryTypeOK, Holding, HasReply, FoundIsCurrent

\* What every action leaves to do: the type of the variables it changes.
LEMMA MemoryStepTyped ==
  ASSUME MemoryIInv, MemoryNext
  PROVE  MemoryTypeOK'
<1>1. ASSUME NEW w \in Workers, MemoryInvoke(w)
      PROVE  MemoryTypeOK'
  BY <1>1 DEF MemoryInvoke, Goto, MemoryIInv, MemoryTypeOK
<1>2. ASSUME NEW w \in Workers, Acquire(w)
      PROVE  MemoryTypeOK'
  BY <1>2 DEF Acquire, Goto, MemoryIInv, MemoryTypeOK
<1>3. ASSUME NEW w \in Workers, Get(w)
      PROVE  MemoryTypeOK'
  <2>1. call[w] # None
    BY <1>3 DEF Get, Goto, MemoryIInv
  <2>2. call[w].key \in Keys
    BY <1>3, <2>1, MemoryExecuteArguments DEF Get, MemoryIInv
  <2>3. QED
    BY <1>3, <2>2 DEF Get, Goto, MemoryIInv, MemoryTypeOK
<1>4. ASSUME NEW w \in Workers, Put(w)
      PROVE  MemoryTypeOK'
  <2> DEFINE result == Op(found[w], call[w].t)
  <2>1. call[w] # None /\ call[w].op = "execute"
    BY <1>4 DEF Put, Goto, MemoryIInv
  <2>2. result.entry \in Entries /\ result.allowed \in BOOLEAN
    BY <2>1, MemoryExecuteArguments DEF MemoryIInv
  <2>3. Verdict(result.allowed) \in Replies
    BY <2>2, ReplyTypes
  <2>4. /\ store' = [store EXCEPT ![call[w].key] = result.entry]
        /\ reply' = [reply EXCEPT ![w] = Verdict(result.allowed)]
        /\ pc' = [pc EXCEPT ![w] = "written"]
        /\ UNCHANGED <<lock, found, call>>
    BY <1>4 DEF Put, Goto
  <2> HIDE DEF result
  <2>5. QED
    BY <2>2, <2>3, <2>4 DEF MemoryIInv, MemoryTypeOK
<1>5. ASSUME NEW w \in Workers, Clear(w)
      PROVE  MemoryTypeOK'
  BY <1>5, ReplyTypes DEF Clear, Goto, MemoryIInv, MemoryTypeOK
<1>6. ASSUME NEW w \in Workers, Release(w)
      PROVE  MemoryTypeOK'
  BY <1>6 DEF Release, Goto, MemoryIInv, MemoryTypeOK
<1>7. ASSUME NEW w \in Workers, MemoryReturn(w)
      PROVE  MemoryTypeOK'
  BY <1>7 DEF MemoryReturn, Goto, MemoryIInv, MemoryTypeOK
<1>8. QED
  BY <1>1, <1>2, <1>3, <1>4, <1>5, <1>6, <1>7 DEF MemoryNext, MemoryProceed

\* Every step keeps the invariant.
LEMMA MemoryNextInv == MemoryIInv /\ [MemoryNext]_MemoryVars => MemoryIInv'
<1> SUFFICES ASSUME MemoryIInv, [MemoryNext]_MemoryVars PROVE MemoryIInv'
  OBVIOUS
<1>0. CASE UNCHANGED MemoryVars
  BY <1>0 DEF MemoryVars, MemoryIInv, MemoryTypeOK, Holding, HasReply, FoundIsCurrent
<1> SUFFICES ASSUME MemoryNext PROVE MemoryIInv'
  BY <1>0
<1>t. MemoryTypeOK' /\ MemoryTypeOK
  BY MemoryStepTyped DEF MemoryIInv
<1>1. ASSUME NEW w \in Workers, MemoryInvoke(w)
      PROVE  MemoryIInv'
  <2>1. /\ pc[w] = "idle" /\ pc' = [pc EXCEPT ![w] = "called"]
        /\ call'[w] # None
        /\ \A v \in Workers \ {w} : call'[v] = call[v]
        /\ UNCHANGED <<store, lock, found, reply>>
    BY <1>1, <1>t, NoneIsNoCallOrReply, NoneIsNoWorker DEF MemoryInvoke, Goto, MemoryTypeOK
  <2>2. QED
    BY <2>1, <1>t DEF MemoryIInv, MemoryTypeOK, Holding, HasReply, FoundIsCurrent
<1>2. ASSUME NEW w \in Workers, Acquire(w)
      PROVE  MemoryIInv'
  <2>1. /\ pc[w] = "called" /\ pc' = [pc EXCEPT ![w] = "locked"]
        /\ lock = None /\ lock' = w
        /\ UNCHANGED <<store, found, call, reply>>
    BY <1>2 DEF Acquire, Goto
  <2>2. \A v \in Workers : ~Holding(v)
    BY <2>1, NoneIsNoCallOrReply, NoneIsNoWorker DEF MemoryIInv
  <2>3. QED
    BY <2>1, <2>2, <1>t DEF MemoryIInv, MemoryTypeOK, Holding, HasReply, FoundIsCurrent
<1>3. ASSUME NEW w \in Workers, Get(w)
      PROVE  MemoryIInv'
  BY <1>3, <1>t DEF Get, Goto, MemoryIInv, MemoryTypeOK, Holding, HasReply, FoundIsCurrent
<1>4. ASSUME NEW w \in Workers, Put(w)
      PROVE  MemoryIInv'
  <2> DEFINE result == Op(found[w], call[w].t)
  <2>1. /\ pc[w] = "read" /\ pc' = [pc EXCEPT ![w] = "written"]
        /\ reply' = [reply EXCEPT ![w] = Verdict(result.allowed)]
        /\ UNCHANGED <<lock, found, call>>
    BY <1>4 DEF Put, Goto
  <2>2. \A v \in Workers : Holding(v) => v = w
    BY <2>1, OneHolder DEF Holding
  <2>3. \A v \in Workers : pc'[v] # "read"
    BY <2>1, <2>2, <1>t DEF Holding, MemoryTypeOK
  <2>4. reply'[w] # None
    <3>1. call[w] # None /\ call[w].op = "execute"
      BY <2>1 DEF MemoryIInv
    <3>2. result.allowed \in BOOLEAN
      BY <3>1, <1>t, MemoryExecuteArguments
    <3>3. QED
      BY <2>1, <3>2, <1>t, ReplyTypes, NoneIsNoCallOrReply, NoneIsNoWorker DEF MemoryTypeOK
  <2>5. \A v \in Workers \ {w} : reply'[v] = reply[v]
    BY <2>1, <1>t DEF MemoryTypeOK
  <2>6. QED
    BY <2>1, <2>3, <2>4, <2>5, <1>t
       DEF MemoryIInv, MemoryTypeOK, Holding, HasReply, FoundIsCurrent
<1>5. ASSUME NEW w \in Workers, Clear(w)
      PROVE  MemoryIInv'
  <2>1. /\ pc[w] = "locked" /\ pc' = [pc EXCEPT ![w] = "written"]
        /\ reply' = [reply EXCEPT ![w] = "wiped"]
        /\ UNCHANGED <<lock, found, call>>
    BY <1>5 DEF Clear, Goto
  <2>2. \A v \in Workers : Holding(v) => v = w
    BY <2>1, OneHolder DEF Holding
  <2>3. \A v \in Workers : pc'[v] # "read"
    BY <2>1, <2>2, <1>t DEF Holding, MemoryTypeOK
  <2>4. "wiped" # None
    BY ReplyTypes, NoneIsNoCallOrReply, NoneIsNoWorker
  <2>5. QED
    BY <2>1, <2>3, <2>4, <1>t
       DEF MemoryIInv, MemoryTypeOK, Holding, HasReply, FoundIsCurrent
<1>6. ASSUME NEW w \in Workers, Release(w)
      PROVE  MemoryIInv'
  <2>1. /\ pc[w] = "written" /\ pc' = [pc EXCEPT ![w] = "left"]
        /\ lock' = None
        /\ UNCHANGED <<store, found, call, reply>>
    BY <1>6 DEF Release, Goto
  <2>2. \A v \in Workers : Holding(v) => v = w
    BY <2>1, OneHolder DEF Holding
  <2>3. QED
    BY <2>1, <2>2, <1>t DEF MemoryIInv, MemoryTypeOK, Holding, HasReply, FoundIsCurrent
<1>7. ASSUME NEW w \in Workers, MemoryReturn(w)
      PROVE  MemoryIInv'
  BY <1>7, <1>t DEF MemoryReturn, Goto, MemoryIInv, MemoryTypeOK, Holding, HasReply, FoundIsCurrent
<1>8. QED
  BY <1>1, <1>2, <1>3, <1>4, <1>5, <1>6, <1>7 DEF MemoryNext, MemoryProceed

\* Type correctness of the backend.
THEOREM MemoryTypeCorrect == MemorySpec => []MemoryTypeOK
<1>1. MemoryIInv => MemoryTypeOK
  BY DEF MemoryIInv
<1>2. QED
  BY <1>1, MemoryInitInv, MemoryNextInv, PTL DEF MemorySpec

\* What a thread has read under the lock is what is stored until it writes.
THEOREM FoundStaysCurrent == MemorySpec => []FoundIsCurrent
<1>1. MemoryIInv => FoundIsCurrent
  BY DEF MemoryIInv
<1>2. QED
  BY <1>1, MemoryInitInv, MemoryNextInv, PTL DEF MemorySpec

\* Every step of a thread is a step of the atomic store or leaves it alone.
LEMMA MemoryStepRefines ==
  ASSUME MemoryIInv, [MemoryNext]_MemoryVars
  PROVE  [Store!Next]_(Store!vars)
<1>0. CASE UNCHANGED MemoryVars
  BY <1>0 DEF MemoryVars, Store!vars
<1> SUFFICES ASSUME MemoryNext PROVE [Store!Next]_(Store!vars)
  BY <1>0
<1>1. ASSUME NEW w \in Workers, MemoryInvoke(w)
      PROVE  Store!Invoke(w)
  BY <1>1 DEF MemoryInvoke, Goto, Store!Invoke, Store!Calls, Calls, MemoryIInv
<1>2. ASSUME NEW w \in Workers, Acquire(w) \/ Get(w) \/ Release(w)
      PROVE  UNCHANGED Store!vars
  BY <1>2 DEF Acquire, Get, Release, Store!vars
<1>3. ASSUME NEW w \in Workers, Put(w)
      PROVE  Store!Apply(w)
  <2>1. pc[w] = "read"
    BY <1>3 DEF Put, Goto
  <2>2. /\ call[w] # None /\ call[w].op = "execute" /\ reply[w] = None
        /\ found[w] = store[call[w].key]
    BY <2>1 DEF MemoryIInv, HasReply, FoundIsCurrent
  <2>3. QED
    BY <1>3, <2>2 DEF Put, Store!Apply, Store!Verdict, Verdict
<1>4. ASSUME NEW w \in Workers, Clear(w)
      PROVE  Store!Apply(w)
  <2>1. pc[w] = "locked"
    BY <1>4 DEF Clear, Goto
  <2>2. call[w] # None /\ reply[w] = None
    BY <2>1 DEF MemoryIInv, HasReply
  <2>3. QED
    BY <1>4, <2>2 DEF Clear, Store!Apply
<1>5. ASSUME NEW w \in Workers, MemoryReturn(w)
      PROVE  Store!Return(w)
  BY <1>5 DEF MemoryReturn, Goto, Store!Return, MemoryIInv, HasReply
<1>6. QED
  BY <1>1, <1>2, <1>3, <1>4, <1>5 DEF MemoryNext, MemoryProceed, Store!Next

\* The backend implements the atomic store: each call takes effect once, at
\* one instant between its invocation and its return.
THEOREM MemoryRefinement == MemorySpec => ImplementsAtomicStore
<1>1. MemoryInit => Store!Init
  BY DEF MemoryInit, Store!Init
<1>2. MemoryIInv /\ [MemoryNext]_MemoryVars => [Store!Next]_(Store!vars)
  BY MemoryStepRefines
<1>3. QED
  BY <1>1, <1>2, MemoryInitInv, MemoryNextInv, PTL DEF MemorySpec, ImplementsAtomicStore

-----------------------------------------------------------------------------
(* The Redis backend.                                                      *)

\* The commands of a call of execute.
Executing == {"evalsha", "load", "again"}

\* The answers each command may get.
AnswersFit(w) ==
  /\ answer[w] \in Replies => command[w] \in {"evalsha", "again", "flushdb"}
  /\ answer[w] = "noscript" => command[w] \in {"evalsha", "again"}
  /\ answer[w] = "loaded" => command[w] = "load"

\* Where a call is, as the command tells it and as the wire does.
Progress(w) ==
  /\ call[w] = None <=> command[w] = "none"
  /\ call[w] = None <=> wire[w] = "quiet"
  /\ answer[w] # None <=> wire[w] = "answered"
  /\ command[w] \in Executing => call[w].op = "execute"
  /\ command[w] = "flushdb" => call[w].op = "reset"
  /\ AnswersFit(w)

\* How often the current command has come to be served at most.
Sends(w) == tries[w] + IF wire[w] = "sent" THEN 0 ELSE 1

\* What the commands so far can have brought about: each at most one effect
\* every time it was sent, but none when it found the script missing.
EffectsCounted(w) ==
  /\ command[w] \in {"evalsha", "flushdb"} => effects[w] <= Sends(w)
  /\ command[w] = "evalsha" /\ answer[w] = "noscript" => effects[w] <= tries[w]
  /\ command[w] = "load" => effects[w] <= Retries
  /\ command[w] = "again" => effects[w] <= Retries + Sends(w)
  /\ command[w] = "none" => effects[w] <= 2 * Retries + 1

ExactlyOnce(w) ==
  call[w] # None /\ ~broke[w]
    => effects[w] = IF answer[w] \in Replies THEN 1 ELSE 0

\* The inductive invariant.
IInv ==
  /\ TypeOK
  /\ \A w \in Workers : Progress(w) /\ EffectsCounted(w) /\ ExactlyOnce(w)

\* The answers are told apart from each other and from None.
LEMMA AnswerTypes ==
  /\ \A b \in BOOLEAN : Verdict(b) \in Replies
  /\ "wiped" \in Replies
  /\ None \notin Replies
  /\ "noscript" \notin Replies /\ "loaded" \notin Replies
  /\ None # "noscript" /\ None # "loaded"
  /\ \A c \in Calls : c # None
BY NoneIsNoCallOrReply, NoneIsNoError DEF Verdict, Replies

\* A call of execute carries a key and a timestamp, and its step has a result.
LEMMA ExecuteArguments ==
  ASSUME TypeOK, NEW w \in Workers, call[w] # None, call[w].op = "execute"
  PROVE  /\ call[w].key \in Keys
         /\ call[w].t \in Times
         /\ Op(store[call[w].key], call[w].t).entry \in Entries
         /\ Op(store[call[w].key], call[w].t).allowed \in BOOLEAN
<1>1. call[w] \in Calls
  BY DEF TypeOK
<1>2. call[w].key \in Keys /\ call[w].t \in Times
  <2>1. call[w] # [op |-> "reset"]
    OBVIOUS
  <2>2. call[w] \in [op : {"execute"}, key : Keys, t : Times]
    BY <1>1, <2>1 DEF Calls
  <2>3. QED
    BY <2>2
<1>3. store[call[w].key] \in Entries \cup {None}
  BY <1>2 DEF TypeOK
<1>4. QED
  BY <1>2, <1>3, OpAssumption

\* Where a step is that of one caller, the others keep their place.
Others(w) ==
  \A v \in Workers \ {w} :
    /\ call'[v] = call[v] /\ command'[v] = command[v] /\ wire'[v] = wire[v]
    /\ answer'[v] = answer[v] /\ tries'[v] = tries[v]
    /\ effects'[v] = effects[v] /\ broke'[v] = broke[v]

\* So it is enough to look at that caller.
LEMMA OneCaller ==
  ASSUME IInv, TypeOK', NEW w \in Workers, Others(w),
         Progress(w)', EffectsCounted(w)', ExactlyOnce(w)'
  PROVE  IInv'
BY DEF IInv, Others, Progress, AnswersFit, EffectsCounted, Sends, ExactlyOnce

\* The type of each variable after each step.
LEMMA StepTyped ==
  ASSUME IInv, Next
  PROVE  TypeOK'
<1> USE AnswerTypes, RetriesAssumption
<1>1. ASSUME NEW w \in Workers, Invoke(w)
      PROVE  TypeOK'
  <2>1. PICK c \in Calls :
          /\ call' = [call EXCEPT ![w] = c]
          /\ Send(w, IF c.op = "execute" THEN "evalsha" ELSE "flushdb")
    BY <1>1 DEF Invoke
  <2>2. QED
    BY <1>1, <2>1 DEF Invoke, Send, IInv, TypeOK
<1>2. ASSUME NEW w \in Workers, FallBack(w)
      PROVE  TypeOK'
  BY <1>2 DEF FallBack, Send, IInv, TypeOK
<1>3. ASSUME NEW w \in Workers, Resend(w)
      PROVE  TypeOK'
  BY <1>3 DEF Resend, IInv, TypeOK
<1>4. ASSUME NEW w \in Workers, EndCall(w)
      PROVE  TypeOK'
  BY <1>4 DEF EndCall, IInv, TypeOK
<1>5. ASSUME NEW w \in Workers, RunScript(w)
      PROVE  TypeOK'
  <2> DEFINE result == Op(store[call[w].key], call[w].t)
  <2>1. call[w] # None /\ call[w].op = "execute"
    BY <1>5 DEF RunScript, IInv, Progress, Executing
  <2>2. result.entry \in Entries /\ result.allowed \in BOOLEAN
    BY <2>1, ExecuteArguments DEF IInv
  <2>3. Verdict(result.allowed) \in Replies
    BY <2>2
  <2>4. /\ store' = [store EXCEPT ![call[w].key] = result.entry]
        /\ wire' = [wire EXCEPT ![w] = "answered"]
        /\ answer' = [answer EXCEPT ![w] = Verdict(result.allowed)]
        /\ effects' = [effects EXCEPT ![w] = @ + 1]
        /\ UNCHANGED <<cached, call, command, tries, broke>>
    BY <1>5 DEF RunScript, Answer
  <2> HIDE DEF result
  <2>5. TypeOK
    BY DEF IInv
  <2>6. store' \in [Keys -> Entries \cup {None}]
    BY <2>2, <2>4, <2>5 DEF TypeOK
  <2>7. answer' \in [Workers -> Replies \cup {"noscript", "loaded", None}]
    BY <2>3, <2>4, <2>5 DEF TypeOK
  <2>8. effects' \in [Workers -> Nat]
    BY <2>4, <2>5 DEF TypeOK
  <2>9. QED
    BY <2>4, <2>5, <2>6, <2>7, <2>8 DEF TypeOK
<1>6. ASSUME NEW w \in Workers, MissScript(w) \/ LoadScript(w)
      PROVE  TypeOK'
  BY <1>6 DEF MissScript, LoadScript, Answer, IInv, TypeOK
<1>7. ASSUME NEW w \in Workers, Flush(w)
      PROVE  TypeOK'
  BY <1>7 DEF Flush, Answer, IInv, TypeOK
<1>8. ASSUME NEW w \in Workers, Break(w)
      PROVE  TypeOK'
  BY <1>8 DEF Break, IInv, TypeOK
<1>9. ASSUME Restart
      PROVE  TypeOK'
  <2>1. store' \in [Keys -> Entries \cup {None}]
    BY <1>9 DEF Restart, IInv, TypeOK
  <2>2. wire' \in [Workers -> {"quiet", "sent", "answered", "broken"}]
    BY <1>9 DEF Restart, IInv, TypeOK
  <2>3. broke' \in [Workers -> BOOLEAN]
    BY <1>9 DEF Restart, IInv, TypeOK
  <2>4. QED
    BY <1>9, <2>1, <2>2, <2>3 DEF Restart, IInv, TypeOK
<1>10. QED
  BY <1>1, <1>2, <1>3, <1>4, <1>5, <1>6, <1>7, <1>8, <1>9
     DEF Next, Proceed, Serve, Return, Raise

LEMMA InitInv == Init => IInv
<1> SUFFICES ASSUME Init PROVE IInv
  OBVIOUS
<1>1. TypeOK
  <2>1. 0 \in 0..Retries /\ 0 \in Nat
    BY RetriesAssumption
  <2>2. QED
    BY <2>1 DEF Init, TypeOK
<1>2. ASSUME NEW w \in Workers
      PROVE  Progress(w) /\ EffectsCounted(w) /\ ExactlyOnce(w)
  <2>1. /\ call[w] = None /\ command[w] = "none" /\ wire[w] = "quiet"
        /\ answer[w] = None /\ effects[w] = 0
    BY DEF Init
  <2>2. QED
    BY <2>1, AnswerTypes, RetriesAssumption
       DEF Progress, AnswersFit, EffectsCounted, ExactlyOnce, Executing
<1>3. QED
  BY <1>1, <1>2 DEF IInv

\* Every step keeps the invariant.
LEMMA NextInv == IInv /\ [Next]_vars => IInv'
<1> SUFFICES ASSUME IInv, [Next]_vars PROVE IInv'
  OBVIOUS
<1> USE AnswerTypes, RetriesAssumption
    DEF Progress, AnswersFit, EffectsCounted, Sends, ExactlyOnce, Executing
<1>0. CASE UNCHANGED vars
  BY <1>0 DEF vars, protocol, IInv, TypeOK
<1> SUFFICES ASSUME Next PROVE IInv'
  BY <1>0
<1>t. TypeOK' /\ TypeOK
  BY StepTyped DEF IInv
<1>i. \A w \in Workers : Progress(w) /\ EffectsCounted(w) /\ ExactlyOnce(w)
  BY DEF IInv
<1>1. ASSUME NEW w \in Workers, Invoke(w)
      PROVE  IInv'
  <2>1. PICK c \in Calls :
          /\ call' = [call EXCEPT ![w] = c]
          /\ Send(w, IF c.op = "execute" THEN "evalsha" ELSE "flushdb")
    BY <1>1 DEF Invoke
  <2>2. Others(w)
    BY <1>1, <2>1, <1>t DEF Invoke, Send, Others, TypeOK
  <2>3. c.op \in {"execute", "reset"}
    BY DEF Calls
  <2>4. /\ call'[w] = c /\ wire'[w] = "sent" /\ answer'[w] = None /\ tries'[w] = 0
        /\ command'[w] = IF c.op = "execute" THEN "evalsha" ELSE "flushdb"
        /\ effects'[w] = 0
    BY <1>1, <2>1, <1>t DEF Invoke, Send, TypeOK
  <2>5. QED
    BY <2>2, <2>3, <2>4, <1>t, OneCaller
<1>2. ASSUME NEW w \in Workers, FallBack(w)
      PROVE  IInv'
  <2>1. Others(w)
    BY <1>2, <1>t DEF FallBack, Send, Others, TypeOK
  <2>2. /\ wire'[w] = "sent" /\ answer'[w] = None /\ tries'[w] = 0
        /\ call'[w] = call[w] /\ effects'[w] = effects[w] /\ broke'[w] = broke[w]
        /\ \/ /\ answer[w] = "noscript" /\ command[w] = "evalsha"
              /\ command'[w] = "load"
           \/ answer[w] = "loaded" /\ command'[w] = "again"
    BY <1>2, <1>t DEF FallBack, Send, TypeOK
  <2>3. effects[w] \in Nat /\ tries[w] \in 0..Retries
    BY <1>t DEF TypeOK
  <2>4. effects[w] <= Retries
    BY <2>2, <2>3, <1>i
  <2>5. QED
    BY <2>1, <2>2, <2>3, <2>4, <1>t, <1>i, OneCaller
<1>3. ASSUME NEW w \in Workers, Resend(w)
      PROVE  IInv'
  <2>1. Others(w)
    BY <1>3, <1>t DEF Resend, Others, TypeOK
  <2>2. /\ wire[w] = "broken" /\ wire'[w] = "sent" /\ tries'[w] = tries[w] + 1
        /\ call'[w] = call[w] /\ command'[w] = command[w]
        /\ answer'[w] = answer[w]
        /\ effects'[w] = effects[w] /\ broke'[w] = broke[w]
    BY <1>3, <1>t DEF Resend, TypeOK
  <2>3. effects[w] \in Nat /\ tries[w] \in 0..Retries
    BY <1>t DEF TypeOK
  <2>4. QED
    BY <2>1, <2>2, <2>3, <1>t, <1>i, OneCaller
<1>4. ASSUME NEW w \in Workers, Return(w) \/ Raise(w)
      PROVE  IInv'
  <2>1. EndCall(w) /\ call[w] # None
    BY <1>4, <1>i DEF Return, Raise
  <2>2. Others(w)
    BY <2>1, <1>t DEF EndCall, Others, TypeOK
  <2>3. /\ call'[w] = None /\ command'[w] = "none" /\ wire'[w] = "quiet"
        /\ answer'[w] = None /\ effects'[w] = effects[w]
    BY <2>1, <1>t DEF EndCall, TypeOK
  <2>4. effects[w] \in Nat /\ tries[w] \in 0..Retries
    BY <1>t DEF TypeOK
  <2>5. command[w] \in {"evalsha", "load", "again", "flushdb"}
    BY <2>1, <1>t, <1>i DEF TypeOK
  <2>6. effects[w] <= 2 * Retries + 1
    BY <2>4, <2>5, <1>i
  <2>7. QED
    BY <2>2, <2>3, <2>6, <1>t, OneCaller
<1>5. ASSUME NEW w \in Workers, NEW a \in Replies, Answer(w, a),
             command[w] \in {"evalsha", "again", "flushdb"},
             effects' = [effects EXCEPT ![w] = @ + 1]
      PROVE  IInv'
  <2>1. Others(w)
    BY <1>5, <1>t DEF Answer, Others, TypeOK
  <2>2. /\ wire[w] = "sent" /\ wire'[w] = "answered" /\ answer'[w] = a
        /\ call'[w] = call[w] /\ command'[w] = command[w] /\ tries'[w] = tries[w]
        /\ effects'[w] = effects[w] + 1 /\ broke'[w] = broke[w]
    BY <1>5, <1>t DEF Answer, TypeOK
  <2>3. effects[w] \in Nat /\ tries[w] \in 0..Retries
    BY <1>t DEF TypeOK
  <2>4. answer[w] = None /\ a # None /\ a # "noscript" /\ a # "loaded"
    BY <2>2, <1>i
  <2>5. QED
    BY <1>5, <2>1, <2>2, <2>3, <2>4, <1>t, <1>i, OneCaller
<1>6. ASSUME NEW w \in Workers, MissScript(w) \/ LoadScript(w)
      PROVE  IInv'
  <2>1. Others(w)
    BY <1>6, <1>t DEF MissScript, LoadScript, Answer, Others, TypeOK
  <2>2. /\ wire[w] = "sent" /\ wire'[w] = "answered"
        /\ call'[w] = call[w] /\ command'[w] = command[w] /\ tries'[w] = tries[w]
        /\ effects'[w] = effects[w] /\ broke'[w] = broke[w]
        /\ \/ answer'[w] = "noscript" /\ command[w] \in {"evalsha", "again"}
           \/ answer'[w] = "loaded" /\ command[w] = "load"
    BY <1>6, <1>t DEF MissScript, LoadScript, Answer, TypeOK
  <2>3. effects[w] \in Nat /\ tries[w] \in 0..Retries
    BY <1>t DEF TypeOK
  <2>4. answer[w] = None
    BY <2>2, <1>i
  <2>5. QED
    BY <2>1, <2>2, <2>3, <2>4, <1>t, <1>i, OneCaller
<1>7. ASSUME NEW w \in Workers, Break(w)
      PROVE  IInv'
  <2>1. Others(w)
    BY <1>7, <1>t DEF Break, Others, TypeOK
  <2>2. /\ wire[w] \in {"sent", "answered"} /\ wire'[w] = "broken"
        /\ answer'[w] = None /\ broke'[w] = TRUE
        /\ call'[w] = call[w] /\ command'[w] = command[w] /\ tries'[w] = tries[w]
        /\ effects'[w] = effects[w]
    BY <1>7, <1>t DEF Break, TypeOK
  <2>3. effects[w] \in Nat /\ tries[w] \in 0..Retries
    BY <1>t DEF TypeOK
  <2>4. QED
    BY <2>1, <2>2, <2>3, <1>t, <1>i, OneCaller
<1>8. ASSUME Restart
      PROVE  IInv'
  <2>1. ASSUME NEW w \in Workers
        PROVE  Progress(w)' /\ EffectsCounted(w)' /\ ExactlyOnce(w)'
    <3>1. /\ call'[w] = call[w] /\ command'[w] = command[w]
          /\ answer'[w] = answer[w] /\ tries'[w] = tries[w]
          /\ effects'[w] = effects[w]
          /\ wire'[w] = IF wire[w] = "sent" THEN "broken" ELSE wire[w]
          /\ broke'[w] = (broke[w] \/ wire[w] = "sent")
      BY <1>8, <1>t DEF Restart, TypeOK
    <3>2. effects[w] \in Nat /\ tries[w] \in 0..Retries
      BY <1>t DEF TypeOK
    <3>3. Progress(w)'
      BY <3>1, <1>i
    <3>4. EffectsCounted(w)'
      BY <3>1, <3>2, <1>i
    <3>5. ExactlyOnce(w)'
      <4>1. broke[w] \in BOOLEAN
        BY <1>t DEF TypeOK
      <4>2. CASE wire[w] = "sent"
        <5>1. broke'[w] = TRUE
          BY <3>1, <4>2
        <5>2. QED
          BY <5>1
      <4>3. CASE wire[w] # "sent"
        <5>1. broke'[w] = broke[w]
          BY <3>1, <4>1, <4>3
        <5>2. QED
          BY <3>1, <5>1, <1>i
      <4>4. QED
        BY <4>2, <4>3
    <3>6. QED
      BY <3>3, <3>4, <3>5
  <2>2. QED
    BY <2>1, <1>t DEF IInv
<1>9. ASSUME NEW w \in Workers, RunScript(w)
      PROVE  IInv'
  <2> DEFINE result == Op(store[call[w].key], call[w].t)
  <2>1. call[w] # None /\ call[w].op = "execute"
    BY <1>9, <1>i DEF RunScript
  <2>2. result.allowed \in BOOLEAN
    BY <2>1, <1>t, ExecuteArguments
  <2>3. Verdict(result.allowed) \in Replies
    BY <2>2
  <2>4. QED
    BY <1>9, <2>3, <1>5 DEF RunScript
<1>10. ASSUME NEW w \in Workers, Flush(w)
       PROVE  IInv'
  BY <1>10, <1>5 DEF Flush
<1>11. QED
  BY <1>1, <1>2, <1>3, <1>4, <1>6, <1>7, <1>8, <1>9, <1>10
     DEF Next, Proceed, Serve

\* Type correctness of the backend and its protocol.
THEOREM TypeCorrect == Spec => []TypeOK
<1>1. IInv => TypeOK
  BY DEF IInv
<1>2. QED
  BY <1>1, InitInv, NextInv, PTL DEF Spec

\* While no connection breaks, an answered request is counted exactly once and
\* an unanswered one not at all, restarts and missing scripts included.
THEOREM ExactlyOnceHolds == Spec => []ExactlyOnceUnlessBroken
<1>1. IInv => ExactlyOnceUnlessBroken
  BY DEF IInv, ExactlyOnce, ExactlyOnceUnlessBroken
<1>2. QED
  BY <1>1, InitInv, NextInv, PTL DEF Spec

\* A request is never counted more than 2 * Retries + 1 times.
THEOREM EffectsBoundedHolds == Spec => []EffectsBounded
<1>1. IInv => EffectsBounded
  <2> SUFFICES ASSUME IInv, NEW w \in Workers PROVE effects[w] <= 2 * Retries + 1
    BY DEF EffectsBounded
  <2>1. TypeOK /\ Progress(w) /\ EffectsCounted(w)
    BY DEF IInv
  <2>2. effects[w] \in Nat /\ tries[w] \in 0..Retries
    BY <2>1 DEF TypeOK
  <2>3. command[w] \in {"none", "evalsha", "load", "again", "flushdb"}
    BY <2>1 DEF TypeOK
  <2>4. QED
    BY <2>1, <2>2, <2>3, RetriesAssumption DEF EffectsCounted, Sends
<1>2. QED
  BY <1>1, InitInv, NextInv, PTL DEF Spec

-----------------------------------------------------------------------------

\* What RemoteStore sees as the replies.
Reply == [w \in Workers |->
            IF answer[w] \in {"noscript", "loaded"} THEN None ELSE answer[w]]

\* A change of one answer is one of the replies.
LEMMA ReplyChange ==
  ASSUME TypeOK, NEW w \in Workers, NEW a, answer' = [answer EXCEPT ![w] = a]
  PROVE  Reply' = [Reply EXCEPT ![w] =
                     IF a \in {"noscript", "loaded"} THEN None ELSE a]
BY DEF Reply, TypeOK

LEMMA ReplySame ==
  ASSUME TypeOK, NEW w \in Workers, NEW a, answer' = [answer EXCEPT ![w] = a],
         a \in {"noscript", "loaded", None},
         answer[w] \in {"noscript", "loaded", None}
  PROVE  Reply' = Reply
BY DEF Reply, TypeOK

LEMMA Unreplied ==
  ASSUME NEW w \in Workers, answer[w] \in {"noscript", "loaded", None}
  PROVE  Reply[w] = None
BY DEF Reply

LEMMA Replied ==
  ASSUME NEW w \in Workers, answer[w] \in Replies
  PROVE  Reply[w] # None
BY AnswerTypes DEF Reply

\* Every step of the backend or the server is one of the remote store, or
\* leaves it alone.
LEMMA StepRefines ==
  ASSUME IInv, [Next]_vars
  PROVE  [Remote!RemoteNext]_(Remote!vars)
<1> DEFINE Stutter == UNCHANGED <<store, call, Reply>>
<1>s. Stutter => UNCHANGED Remote!vars
  BY DEF Remote!vars, Reply
<1> HIDE DEF Stutter
<1>0. CASE UNCHANGED vars
  BY <1>0 DEF vars, protocol, Remote!vars
<1> SUFFICES ASSUME Next PROVE Remote!RemoteNext \/ Stutter
  BY <1>0, <1>s
<1>t. TypeOK /\ \A w \in Workers : Progress(w)
  BY DEF IInv
<1> USE DEF Remote!RemoteNext, Remote!Next
<1>1. ASSUME NEW w \in Workers, Invoke(w)
      PROVE  Remote!Invoke(w)
  <2>1. PICK c \in Calls :
          /\ call' = [call EXCEPT ![w] = c]
          /\ answer' = [answer EXCEPT ![w] = None]
    BY <1>1 DEF Invoke, Send
  <2>2. answer[w] = None
    BY <1>1, <1>t DEF Invoke, Progress
  <2>3. Reply' = Reply
    BY <2>1, <2>2, <1>t, ReplySame
  <2>4. QED
    BY <1>1, <2>1, <2>3 DEF Invoke, Remote!Invoke, Remote!Calls, Calls, Reply
<1>2. ASSUME NEW w \in Workers, FallBack(w)
      PROVE  Stutter
  <2>1. answer' = [answer EXCEPT ![w] = None] /\ answer[w] \in {"noscript", "loaded"}
    BY <1>2 DEF FallBack, Send
  <2>2. QED
    BY <1>2, <2>1, <1>t, ReplySame DEF FallBack, Stutter
<1>3. ASSUME NEW w \in Workers, Resend(w)
      PROVE  Stutter
  BY <1>3 DEF Resend, Stutter, Reply
<1>4. ASSUME NEW w \in Workers, Return(w)
      PROVE  Remote!Return(w)
  <2>1. Reply' = [Reply EXCEPT ![w] = None]
    BY <1>4, <1>t, ReplyChange DEF Return, EndCall
  <2>2. Reply[w] # None
    BY <1>4, Replied DEF Return
  <2>3. QED
    BY <1>4, <2>1, <2>2 DEF Return, EndCall, Remote!Return, Reply
<1>5. ASSUME NEW w \in Workers, Raise(w)
      PROVE  Remote!GiveUp(w)
  <2>1. Reply' = [Reply EXCEPT ![w] = None]
    BY <1>5, <1>t, ReplyChange DEF Raise, EndCall
  <2>2. call[w] # None
    BY <1>5, <1>t DEF Raise, Progress
  <2>3. QED
    BY <1>5, <2>1, <2>2 DEF Raise, EndCall, Remote!GiveUp, Reply
<1>6. ASSUME NEW w \in Workers, RunScript(w)
      PROVE  Remote!Apply(w)
  <2> DEFINE result == Op(store[call[w].key], call[w].t)
             verdict == Verdict(result.allowed)
  <2>1. call[w] # None /\ call[w].op = "execute" /\ answer[w] = None
    BY <1>6, <1>t DEF RunScript, Answer, Progress, Executing
  <2>2. verdict \in Replies
    BY <2>1, <1>t, ExecuteArguments, AnswerTypes
  <2>3. answer' = [answer EXCEPT ![w] = verdict]
    BY <1>6 DEF RunScript, Answer
  <2>4. verdict \notin {"noscript", "loaded"}
    BY <2>2, AnswerTypes
  <2>5. Reply' = [Reply EXCEPT ![w] = verdict]
    <3> HIDE DEF verdict
    <3> QED
      BY <2>3, <2>4, <1>t, ReplyChange
  <2>6. Reply[w] = None
    BY <2>1, Unreplied
  <2>7. QED
    BY <1>6, <2>1, <2>5, <2>6 DEF RunScript, Answer, Remote!Apply, Remote!Verdict, Verdict, Reply
<1>7. ASSUME NEW w \in Workers, MissScript(w) \/ LoadScript(w)
      PROVE  Stutter
  <2>1. answer[w] = None
    BY <1>7, <1>t DEF MissScript, LoadScript, Answer, Progress
  <2>2. PICK a \in {"noscript", "loaded"} : answer' = [answer EXCEPT ![w] = a]
    BY <1>7 DEF MissScript, LoadScript, Answer
  <2>3. Reply' = Reply
    BY <2>1, <2>2, <1>t, ReplySame
  <2>4. QED
    BY <1>7, <2>3 DEF MissScript, LoadScript, Answer, Stutter
<1>8. ASSUME NEW w \in Workers, Flush(w)
      PROVE  Remote!Apply(w)
  <2>1. call[w] # None /\ call[w].op = "reset" /\ answer[w] = None
    BY <1>8, <1>t DEF Flush, Answer, Progress
  <2>2. answer' = [answer EXCEPT ![w] = "wiped"]
    BY <1>8 DEF Flush, Answer
  <2>3. Reply' = [Reply EXCEPT ![w] = "wiped"]
    BY <2>2, <1>t, ReplyChange
  <2>4. Reply[w] = None
    BY <2>1, Unreplied
  <2>5. QED
    BY <1>8, <2>1, <2>3, <2>4 DEF Flush, Answer, Remote!Apply, Reply
<1>9. ASSUME NEW w \in Workers, Break(w)
      PROVE  Remote!AskAgain(w) \/ Stutter
  <2>1. answer' = [answer EXCEPT ![w] = None]
    BY <1>9 DEF Break
  <2>2. CASE answer[w] \in Replies
    <3>1. Reply' = [Reply EXCEPT ![w] = None]
      BY <2>1, <1>t, ReplyChange
    <3>2. Reply[w] # None
      BY <2>2, Replied
    <3>3. QED
      BY <1>9, <3>1, <3>2 DEF Break, Remote!AskAgain, Reply
  <2>3. CASE answer[w] \notin Replies
    <3>1. answer[w] \in {"noscript", "loaded", None}
      BY <2>3, <1>t DEF TypeOK
    <3>2. Reply' = Reply
      BY <2>1, <3>1, <1>t, ReplySame
    <3>3. QED
      BY <1>9, <3>2 DEF Break, Stutter
  <2>4. QED
    BY <2>2, <2>3
<1>10. ASSUME Restart
       PROVE  Remote!LoseData \/ Stutter
  BY <1>10 DEF Restart, Remote!LoseData, Stutter, Reply
<1>11. QED
  BY <1>1, <1>2, <1>3, <1>4, <1>5, <1>6, <1>7, <1>8, <1>9, <1>10
     DEF Next, Proceed, Serve

\* The backend implements the remote store: each effect is one atomic step of
\* a call under way, and failures do no more to a call than end it in an
\* exception, have it asked again, or lose the data.
THEOREM Refinement == Spec => ImplementsRemoteStore
<1>1. Init => Remote!Init
  BY AnswerTypes DEF Init, Remote!Init
<1>2. IInv /\ [Next]_vars => [Remote!RemoteNext]_(Remote!vars)
  BY StepRefines
<1>3. QED
  BY <1>1, <1>2, InitInv, NextInv, PTL DEF Spec, ImplementsRemoteStore

=============================================================================
