---------------------------- MODULE MemoryBackend ----------------------------
(***************************************************************************)
(* The in-process store: a dict, and one lock held across the whole step.  *)
(* Threads are preempted anywhere, so the look-up and the assignment of    *)
(* the step, and the taking and releasing of the lock, are actions of      *)
(* their own.  The names that the backends have in common carry a prefix   *)
(* here, so that one module may speak of both.                             *)
(***************************************************************************)
EXTENDS Backend

VARIABLES
  lock,      \* self._lock: the worker that holds it, or None
  pc,        \* pc[w]: where w is in execute or reset
  found,     \* found[w]: its local entry, what store.get returned
  reply      \* reply[w]: the result it has computed

MemoryVars == <<store, lock, pc, found, call, reply>>

Store == INSTANCE AtomicStore

ASSUME NoneIsNoWorker == None \notin Workers

MemoryTypeOK ==
  /\ store \in [Keys -> Entries \cup {None}]
  /\ lock \in Workers \cup {None}
  /\ pc \in [Workers -> {"idle", "called", "locked", "read", "written", "left"}]
  /\ found \in [Workers -> Entries \cup {None}]
  /\ call \in [Workers -> Calls \cup {None}]
  /\ reply \in [Workers -> Replies \cup {None}]

MemoryInit ==
  /\ store = [k \in Keys |-> None]
  /\ lock = None
  /\ pc = [w \in Workers |-> "idle"]
  /\ found = [w \in Workers |-> None]
  /\ call = [w \in Workers |-> None]
  /\ reply = [w \in Workers |-> None]

Goto(w, from, to) ==
  /\ pc[w] = from
  /\ pc' = [pc EXCEPT ![w] = to]

MemoryInvoke(w) ==
  /\ Goto(w, "idle", "called")
  /\ \E c \in Calls : call' = [call EXCEPT ![w] = c]
  /\ UNCHANGED <<store, lock, found, reply>>

\* Mutant: there is no lock.
AcquireUnlocked(w) ==
  /\ Goto(w, "called", "locked")
  /\ lock' = w
  /\ UNCHANGED <<store, found, call, reply>>

\* with self._lock:
Acquire(w) ==
  /\ Goto(w, "called", "locked")
  /\ lock = None
  /\ lock' = w
  /\ UNCHANGED <<store, found, call, reply>>

\* entry = store.get(key)
Get(w) ==
  /\ Goto(w, "locked", "read")
  /\ call[w].op = "execute"
  /\ found' = [found EXCEPT ![w] = store[call[w].key]]
  /\ UNCHANGED <<store, lock, call, reply>>

\* Mutant: what is stored is the result, not the entry.
PutResult(w) ==
  /\ Goto(w, "read", "written")
  /\ LET result == Op(found[w], call[w].t) IN
       /\ store' = [store EXCEPT ![call[w].key] = result]
       /\ reply' = [reply EXCEPT ![w] = Verdict(result.allowed)]
  /\ UNCHANGED <<lock, found, call>>

\* Mutant: a rejected request tries again, with the lock in hand.
PutOrRetry(w) ==
  LET result == Op(found[w], call[w].t) IN
    /\ Goto(w, "read", IF result.allowed THEN "written" ELSE "locked")
    /\ store' = [store EXCEPT ![call[w].key] = result.entry]
    /\ reply' = [reply EXCEPT ![w] =
         IF result.allowed THEN Verdict(result.allowed) ELSE None]
    /\ UNCHANGED <<lock, found, call>>

\* The decision, a matter of locals, and store[key] = ...
Put(w) ==
  /\ Goto(w, "read", "written")
  /\ LET result == Op(found[w], call[w].t) IN
       /\ store' = [store EXCEPT ![call[w].key] = result.entry]
       /\ reply' = [reply EXCEPT ![w] = Verdict(result.allowed)]
  /\ UNCHANGED <<lock, found, call>>

\* self.store.clear()
Clear(w) ==
  /\ Goto(w, "locked", "written")
  /\ call[w].op = "reset"
  /\ store' = [k \in Keys |-> None]
  /\ reply' = [reply EXCEPT ![w] = "wiped"]
  /\ UNCHANGED <<lock, found, call>>

\* The end of the with block.
Release(w) ==
  /\ Goto(w, "written", "left")
  /\ lock' = None
  /\ UNCHANGED <<store, found, call, reply>>

MemoryReturn(w) ==
  /\ Goto(w, "left", "idle")
  /\ found' = [found EXCEPT ![w] = None]
  /\ call' = [call EXCEPT ![w] = None]
  /\ reply' = [reply EXCEPT ![w] = None]
  /\ UNCHANGED <<store, lock>>

\* The steps of a call under way.
MemoryProceed(w) ==
  \/ Acquire(w)
  \/ Get(w)
  \/ Put(w)
  \/ Clear(w)
  \/ Release(w)
  \/ MemoryReturn(w)

MemoryNext == \E w \in Workers : MemoryInvoke(w) \/ MemoryProceed(w)

\* A thread that can run is run at last.  Nothing is assumed of who gets the
\* lock: threading.Lock is not fair.
MemoryFairness == \A w \in Workers : WF_MemoryVars(MemoryProceed(w))

MemorySpec == MemoryInit /\ [][MemoryNext]_MemoryVars /\ MemoryFairness

-----------------------------------------------------------------------------

\* Each call takes effect at one instant, its write: the lock makes the
\* look-up, the decision and the write of two threads one after the other.
ImplementsAtomicStore == Store!Init /\ [][Store!Next]_(Store!vars)

\* While a thread has an entry in hand, no other thread changes what is
\* stored under that key: no update is lost, and none comes back after reset.
FoundIsCurrent ==
  \A w \in Workers : pc[w] = "read" => found[w] = store[call[w].key]

\* While a call waits for the lock, calls keep completing: every path through
\* execute and reset, of a rejected request too, lets the lock go.
SomeCallCompletes ==
  \A w \in Workers : pc[w] = "called" ~> \E v \in Workers : pc[v] = "left"

=============================================================================
