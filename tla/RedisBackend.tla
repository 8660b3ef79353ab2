---------------------------- MODULE RedisBackend ----------------------------
(***************************************************************************)
(* The Redis store.  execute and reset send commands over a connection and *)
(* wait for the answers:                                                   *)
(*                                                                         *)
(*   EVALSHA (-> NOSCRIPT -> SCRIPT LOAD -> EVALSHA)        FLUSHDB        *)
(*                                                                         *)
(* The server runs one command at a time, a script to its end.  It may     *)
(* restart, without its scripts and perhaps without its data.  A           *)
(* connection may break at any time; a command it has not brought to the   *)
(* server by then is lost, and the redis client sends it again up to       *)
(* Retries times before it raises: not at all before its version 6, three  *)
(* times since (requirements.txt takes either).                            *)
(***************************************************************************)
EXTENDS Backend, Naturals

CONSTANT
  Retries     \* how often a command is sent again

ASSUME RetriesAssumption == Retries \in Nat

VARIABLES
  cached,     \* whether its script cache holds the script
  command,    \* command[w]: the command w is waiting for
  wire,       \* wire[w]: where that command, or its answer, is
  answer,     \* answer[w]: what the server has answered and w not yet read
  tries,      \* tries[w]: how often the command has been sent again
  (* History variables. *)
  effects,    \* effects[w]: how often the call has taken effect
  broke       \* broke[w]: whether a connection has broken during the call

protocol == <<command, wire, answer, tries>>
vars == <<store, cached, call, protocol, effects, broke>>

\* A verdict the server has sent off counts as given; one that is lost, not.
Remote == INSTANCE RemoteStore WITH
  store <- store,
  call  <- call,
  reply <- [w \in Workers |->
              IF answer[w] \in {"noscript", "loaded"} THEN None ELSE answer[w]]

ASSUME NoneIsNoError == None \notin {"noscript", "loaded"}

TypeOK ==
  /\ store \in [Keys -> Entries \cup {None}]
  /\ cached \in BOOLEAN
  /\ call \in [Workers -> Calls \cup {None}]
  /\ command \in [Workers -> {"none", "evalsha", "load", "again", "flushdb"}]
  /\ wire \in [Workers -> {"quiet", "sent", "answered", "broken"}]
  /\ answer \in [Workers -> Replies \cup {"noscript", "loaded", None}]
  /\ tries \in [Workers -> 0..Retries]
  /\ effects \in [Workers -> Nat]
  /\ broke \in [Workers -> BOOLEAN]

Init ==
  /\ store = [k \in Keys |-> None]
  /\ cached = FALSE
  /\ call = [w \in Workers |-> None]
  /\ command = [w \in Workers |-> "none"]
  /\ wire = [w \in Workers |-> "quiet"]
  /\ answer = [w \in Workers |-> None]
  /\ tries = [w \in Workers |-> 0]
  /\ effects = [w \in Workers |-> 0]
  /\ broke = [w \in Workers |-> FALSE]

-----------------------------------------------------------------------------
(* The caller: RedisBackend and the redis client it uses.                  *)

Send(w, c) ==
  /\ command' = [command EXCEPT ![w] = c]
  /\ wire' = [wire EXCEPT ![w] = "sent"]
  /\ answer' = [answer EXCEPT ![w] = None]
  /\ tries' = [tries EXCEPT ![w] = 0]

\* execute and reset are called, and send their first command.  Registering
\* the script in self._scripts takes a hash of it and sends nothing.
Invoke(w) ==
  /\ call[w] = None
  /\ \E c \in Calls :
       /\ call' = [call EXCEPT ![w] = c]
       /\ Send(w, IF c.op = "execute" THEN "evalsha" ELSE "flushdb")
  /\ effects' = [effects EXCEPT ![w] = 0]
  /\ broke' = [broke EXCEPT ![w] = FALSE]
  /\ UNCHANGED <<store, cached>>

\* The script is missing: it is loaded, once, and run again.
FallBack(w) ==
  /\ wire[w] = "answered"
  /\ \/ answer[w] = "noscript" /\ command[w] = "evalsha" /\ Send(w, "load")
     \/ answer[w] = "loaded" /\ Send(w, "again")
  /\ UNCHANGED <<store, cached, call, effects, broke>>

\* Mutant: one time too many.
ResendOnceMore(w) ==
  /\ wire[w] = "broken"
  /\ tries[w] <= Retries
  /\ wire' = [wire EXCEPT ![w] = "sent"]
  /\ tries' = [tries EXCEPT ![w] = @ + 1]
  /\ UNCHANGED <<store, cached, call, command, answer, effects, broke>>

\* The client connects anew and sends the command again.
Resend(w) ==
  /\ wire[w] = "broken"
  /\ tries[w] < Retries
  /\ wire' = [wire EXCEPT ![w] = "sent"]
  /\ tries' = [tries EXCEPT ![w] = @ + 1]
  /\ UNCHANGED <<store, cached, call, command, answer, effects, broke>>

EndCall(w) ==
  /\ call' = [call EXCEPT ![w] = None]
  /\ command' = [command EXCEPT ![w] = "none"]
  /\ wire' = [wire EXCEPT ![w] = "quiet"]
  /\ answer' = [answer EXCEPT ![w] = None]
  /\ tries' = [tries EXCEPT ![w] = 0]
  /\ UNCHANGED <<store, cached, effects, broke>>

\* Mutant: a rejected request is sent again.
ReturnIfAdmitted(w) ==
  /\ wire[w] = "answered"
  /\ answer[w] \in Replies
  /\ IF answer[w] = Verdict(FALSE)
       THEN Send(w, "evalsha") /\ UNCHANGED <<store, cached, call, effects, broke>>
       ELSE EndCall(w)

\* return script(keys=keys, args=args)
Return(w) ==
  /\ wire[w] = "answered"
  /\ answer[w] \in Replies
  /\ EndCall(w)

\* Mutant: the exception is caught and the call made again.
RaiseAndRetry(w) ==
  /\ wire[w] = "broken" /\ tries[w] = Retries
  /\ Send(w, IF call[w].op = "execute" THEN "evalsha" ELSE "flushdb")
  /\ UNCHANGED <<store, cached, call, effects, broke>>

\* Mutant: a script that is missing after it was loaded goes unnoticed.
RaiseUnlessMissing(w) ==
  /\ wire[w] = "broken" /\ tries[w] = Retries
  /\ EndCall(w)

\* No answer, or no script even after it was loaded: execute catches nothing.
Raise(w) ==
  /\ \/ wire[w] = "broken" /\ tries[w] = Retries
     \/ wire[w] = "answered" /\ answer[w] = "noscript" /\ command[w] = "again"
  /\ EndCall(w)

-----------------------------------------------------------------------------
(* The server.                                                             *)

Answer(w, a) ==
  /\ wire[w] = "sent"
  /\ wire' = [wire EXCEPT ![w] = "answered"]
  /\ answer' = [answer EXCEPT ![w] = a]
  /\ UNCHANGED <<call, command, tries, broke>>

\* The step of the algorithm, which no other command comes between.
RunScript(w) ==
  /\ command[w] \in {"evalsha", "again"} /\ cached
  /\ LET result == Op(store[call[w].key], call[w].t) IN
       /\ store' = [store EXCEPT ![call[w].key] = result.entry]
       /\ Answer(w, Verdict(result.allowed))
  /\ effects' = [effects EXCEPT ![w] = @ + 1]
  /\ UNCHANGED cached

MissScript(w) ==
  /\ command[w] \in {"evalsha", "again"} /\ ~cached
  /\ Answer(w, "noscript")
  /\ UNCHANGED <<store, cached, effects>>

LoadScript(w) ==
  /\ command[w] = "load"
  /\ Answer(w, "loaded")
  /\ cached' = TRUE
  /\ UNCHANGED <<store, effects>>

\* Mutant: another database is flushed.
FlushAnother(w) ==
  /\ command[w] = "flushdb"
  /\ Answer(w, "wiped")
  /\ effects' = [effects EXCEPT ![w] = @ + 1]
  /\ UNCHANGED <<store, cached>>

\* self.client.flushdb(): the keys, not the scripts.
Flush(w) ==
  /\ command[w] = "flushdb"
  /\ Answer(w, "wiped")
  /\ store' = [k \in Keys |-> None]
  /\ effects' = [effects EXCEPT ![w] = @ + 1]
  /\ UNCHANGED cached

Serve(w) == RunScript(w) \/ MissScript(w) \/ LoadScript(w) \/ Flush(w)

-----------------------------------------------------------------------------
(* Failures.                                                               *)

\* The connection breaks before the command or before the answer has come.
Break(w) ==
  /\ wire[w] \in {"sent", "answered"}
  /\ wire' = [wire EXCEPT ![w] = "broken"]
  /\ answer' = [answer EXCEPT ![w] = None]
  /\ broke' = [broke EXCEPT ![w] = TRUE]
  /\ UNCHANGED <<store, cached, call, command, tries, effects>>

\* The server restarts, with the data it saved or with none.  Commands it has
\* not served are lost with their connections.
Restart ==
  /\ store' \in {store, [k \in Keys |-> None]}
  /\ cached' = FALSE
  /\ wire' = [w \in Workers |-> IF wire[w] = "sent" THEN "broken" ELSE wire[w]]
  /\ broke' = [w \in Workers |-> broke[w] \/ wire[w] = "sent"]
  /\ UNCHANGED <<call, command, answer, tries, effects>>

-----------------------------------------------------------------------------

\* The steps of a call under way.
Proceed(w) == Serve(w) \/ FallBack(w) \/ Resend(w) \/ Return(w) \/ Raise(w)

Next ==
  \/ \E w \in Workers : Invoke(w) \/ Proceed(w) \/ Break(w)
  \/ Restart

\* The server serves every connection at last, and a client that has its
\* answer goes on.  No timeout is set: a server that hangs is not covered.
Fairness == \A w \in Workers : WF_vars(Proceed(w))

Spec == Init /\ [][Next]_vars /\ Fairness

-----------------------------------------------------------------------------

\* Every call is atomic, and what failures can do to it is what RemoteStore
\* says: end it in an exception, apply it again, or lose the data.
ImplementsRemoteStore ==
  Remote!Init /\ [][Remote!RemoteNext]_(Remote!vars)

\* A request is counted exactly once if it is answered, and not at all before,
\* unless a connection has broken: a missing script never counts it twice.
ExactlyOnceUnlessBroken ==
  \A w \in Workers :
    call[w] # None /\ ~broke[w]
      => effects[w] = IF answer[w] \in Replies THEN 1 ELSE 0

\* However often connections break and the server restarts, a request is
\* counted at most once for each time its script was sent: the retries of both
\* EVALSHAs count, but one of those must have missed the script.
EffectsBounded ==
  \A w \in Workers : effects[w] <= 2 * Retries + 1

\* Every call returns or raises, however often connections break: the
\* retries and the fallback are bounded.
EveryCallEnds ==
  \A w \in Workers : call[w] # None ~> call[w] = None

=============================================================================
