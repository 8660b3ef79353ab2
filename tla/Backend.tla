------------------------------- MODULE Backend -------------------------------
(***************************************************************************)
(* The interface of a backend (backends/base.py): callers run the step of  *)
(* an algorithm on the entry under a key with execute, and wipe everything *)
(* with reset.  The backend knows nothing of the algorithm, which is the   *)
(* parameter Op.                                                           *)
(***************************************************************************)

CONSTANTS
  Workers,   \* the threads or processes that call the backend
  Keys,      \* one key per limiter and client
  Times,     \* the timestamps the calls carry, in no particular order
  Entries,   \* what Op may store under a key
  None,      \* no entry, no call, no reply
  Op(_, _)   \* the step: from an entry or None, and a timestamp, to a result

\* The step stores entries and returns a verdict.
ASSUME OpAssumption ==
  \A e \in Entries \cup {None}, t \in Times :
    /\ Op(e, t).entry \in Entries
    /\ Op(e, t).allowed \in BOOLEAN

Calls == [op : {"execute"}, key : Keys, t : Times] \cup {[op |-> "reset"]}

Replies == {"admit", "reject", "wiped"}

Verdict(allowed) == IF allowed THEN "admit" ELSE "reject"

ASSUME NoneIsNoCallOrReply == None \notin Calls \cup Replies

VARIABLES
  store,     \* what is kept under each key
  call       \* call[w]: the arguments of the call w is in

=============================================================================
