----------------------------- MODULE AtomicStore -----------------------------
(***************************************************************************)
(* What a backend promises (backends/base.py): execute runs the step of an *)
(* algorithm atomically, somewhere between the call and its return, and    *)
(* reset wipes everything, as atomically.                                  *)
(***************************************************************************)
EXTENDS Backend

VARIABLE
  reply      \* reply[w]: its result, None until it has taken effect

vars == <<store, call, reply>>

Init ==
  /\ store = [k \in Keys |-> None]
  /\ call = [w \in Workers |-> None]
  /\ reply = [w \in Workers |-> None]

Invoke(w) ==
  /\ call[w] = None
  /\ \E c \in Calls : call' = [call EXCEPT ![w] = c]
  /\ UNCHANGED <<store, reply>>

\* The instant at which the call takes effect.
Apply(w) ==
  /\ call[w] # None
  /\ reply[w] = None
  /\ \/ /\ call[w].op = "execute"
        /\ LET result == Op(store[call[w].key], call[w].t) IN
             /\ store' = [store EXCEPT ![call[w].key] = result.entry]
             /\ reply' = [reply EXCEPT ![w] = Verdict(result.allowed)]
     \/ /\ call[w].op = "reset"
        /\ store' = [k \in Keys |-> None]
        /\ reply' = [reply EXCEPT ![w] = "wiped"]
  /\ UNCHANGED call

Return(w) ==
  /\ reply[w] # None
  /\ call' = [call EXCEPT ![w] = None]
  /\ reply' = [reply EXCEPT ![w] = None]
  /\ UNCHANGED store

Next == \E w \in Workers : Invoke(w) \/ Apply(w) \/ Return(w)

Spec == Init /\ [][Next]_vars

=============================================================================
