---------------------------- MODULE TaskService ----------------------------
(***************************************************************************)
(* What a remote service promises of the commands it is given, whatever    *)
(* its queue, its pools and its threads do:                                *)
(*                                                                         *)
(*   - a command it takes in waits, runs once at most, and when it ends    *)
(*     its guid has been answered by an operation report;                  *)
(*   - an interrupt may answer a guid at any time, and changes nothing     *)
(*     else: the command it names waits or runs on;                        *)
(*   - a command may be dropped before it runs, and a restart drops all    *)
(*     that wait or run, without an answer.                                *)
(*                                                                         *)
(* RemoteQueue implements this specification; CentralDispatch relies on it.*)
(***************************************************************************)
CONSTANTS
  Task,     \* deliveries of commands
  Guid,     \* report guids
  guid      \* guid[t]: the guid the end of t is reported under

VARIABLES
  phase,    \* phase[t]: new, waiting, running, over or lost
  answered  \* guids an operation report was sent for

vars == <<phase, answered>>

Phase == {"new", "waiting", "running", "over", "lost"}

Init ==
  /\ phase = [t \in Task |-> "new"]
  /\ answered = {}

Moves(t, from, to) == phase[t] = from /\ phase' = [phase EXCEPT ![t] = to]

Accept(t) == Moves(t, "new", "waiting") /\ UNCHANGED answered
Start(t)  == Moves(t, "waiting", "running") /\ UNCHANGED answered
Forget(t) == Moves(t, "waiting", "lost") /\ UNCHANGED answered

End(t) == Moves(t, "running", "over") /\ answered' = answered \cup {guid[t]}

\* A refused command is answered in the same way.
Interrupt(g) == answered' = answered \cup {g} /\ UNCHANGED phase

Restart ==
  /\ phase' = [t \in Task |-> IF phase[t] \in {"waiting", "running"}
                                THEN "lost" ELSE phase[t]]
  /\ UNCHANGED answered

Next ==
  \/ \E t \in Task : Accept(t) \/ Start(t) \/ Forget(t) \/ End(t)
  \/ \E g \in Guid : Interrupt(g)
  \/ Restart

Spec == Init /\ [][Next]_vars

\* As long as the process lives, a command that waits gets its turn, and a
\* strategy that runs comes to its end.
Fairness ==
  \A t \in Task : WF_vars(Start(t) \/ Forget(t)) /\ WF_vars(End(t))
FairSpec == Spec /\ Fairness
=============================================================================
