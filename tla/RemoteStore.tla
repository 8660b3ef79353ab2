----------------------------- MODULE RemoteStore -----------------------------
(***************************************************************************)
(* What is left of the promise of AtomicStore when the store is a server   *)
(* behind connections that break.  Every effect is still that of one       *)
(* atomic step.  But a call may end in an exception, whether or not it has *)
(* taken effect; one whose reply is lost may be asked again, and take      *)
(* effect again; and the server may lose what it holds.                    *)
(***************************************************************************)
EXTENDS AtomicStore

\* The reply is lost on its way, and the client asks again.
AskAgain(w) ==
  /\ reply[w] # None
  /\ reply' = [reply EXCEPT ![w] = None]
  /\ UNCHANGED <<store, call>>

\* The call ends in an exception.
GiveUp(w) ==
  /\ call[w] # None
  /\ call' = [call EXCEPT ![w] = None]
  /\ reply' = [reply EXCEPT ![w] = None]
  /\ UNCHANGED store

\* The server restarts without its data.
LoseData ==
  /\ store' = [k \in Keys |-> None]
  /\ UNCHANGED <<call, reply>>

RemoteNext ==
  \/ Next
  \/ LoseData
  \/ \E w \in Workers : AskAgain(w) \/ GiveUp(w)

RemoteSpec == Init /\ [][RemoteNext]_vars

=============================================================================
