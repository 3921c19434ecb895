--------------------------- MODULE CentralDispatch ---------------------------
(***************************************************************************)
(* RemoteServicesManager: how the central service sends commands, records  *)
(* them as rows of the Report table, takes in reports, and interrupts and  *)
(* checks tasks.                                                           *)
(*                                                                         *)
(* A lane is a base with a component (Exchange, ExtDirectories,            *)
(* MlgCollect): the key under which the database is asked for the last     *)
(* report.  Callers are threads: the scheduler's jobs and the calls of the *)
(* control service.  Reports are handled concurrently                      *)
(* (ConcurrencyMode.Multiple), each in one transaction.                    *)
(*                                                                         *)
(* The remote service is a TaskService, reached over calls that may fail   *)
(* or be repeated and answered by reports that may be lost or overtake one *)
(* another.  The database procedures appear as this code uses them.  Every *)
(* lane has a remote service (serviceBases).                               *)
(***************************************************************************)
EXTENDS Integers, Sequences, FiniteSets

CONSTANTS
  Lane,
  Guid,
  laneOf,       \* laneOf[g]: the lane of the command that gets guid g
  Caller,
  NoGuid,       \* no report row; or a new guid of which no row will know
  Attempts,     \* attempts of RemoteServiceProxy
  MaxInbox,     \* bound: calls under way to the remote service
  Launches,     \* TRUE: tasks get as far as their launch reports
  CanFail,      \* TRUE: a call may end in an exception, undelivered, and the
                \*   row of a command that was sent not be written
  FalseFailure, \* TRUE: a call may end in an exception although delivered
  CanLose,      \* TRUE: a report may be lost (the remote gives up after retries)
  Silent,       \* TRUE: the remote service may drop a command or an interrupt
                \*   unanswered, as it does without a configuration
  CentralStops, \* TRUE: the central service may stop and start at any moment
  RemoteStops   \* TRUE: the remote service may

ASSUME CentralDispatchAssumption ==
  /\ laneOf \in [Guid -> Lane]
  /\ NoGuid \notin Guid
  /\ Attempts \in Nat \ {0}
  /\ MaxInbox \in Nat \ {0}
  /\ {Launches, CanFail, FalseFailure, CanLose, Silent} \subseteq BOOLEAN
  /\ {CentralStops, RemoteStops} \subseteq BOOLEAN

VARIABLES
  row,      \* row[g]: no Report row, one without date_complete, or with it
  last,     \* last[l]: guid of the lane's last row
  launched, \* guids with a Launch1C row
  pc,       \* where a caller is
  cmd,      \* reportGuid of the command the caller holds
  attempts, \* attempts the caller's proxy has left
  inbox,    \* calls on their way to the remote service, in order
  reports,  \* reports on their way to the central service, in any order
  interrupted, \* guids an interrupt was sent for (history)
  resent,      \* guids of commands whose call failed though it was delivered
  raced,       \* guids of commands two callers were sending to one lane at a
               \* time (both history)
  phase,    \* phase[d]: delivery d of a command at the remote service
  answered  \* guids the remote service has reported the end of (history)

\* The n-th delivery of the command with guid g: attempts repeat a call that
\* failed, though it may have arrived.
Delivery == Guid \X (1..Attempts)

Remote == INSTANCE TaskService WITH
  Task <- Delivery, Guid <- Guid \cup {NoGuid}, guid <- [d \in Delivery |-> d[1]]

db      == <<row, last, launched, interrupted>>
history == <<resent, raced>>
callers == <<pc, cmd, attempts>>
remote  == <<phase, answered>>
net     == <<inbox, reports, remote>>
vars    == <<db, callers, net, history>>

Pc      == {"idle", "transmit", "record", "prepare", "interrupt", "sleep", "check"}
CallMsg == [type : {"execute"}, guid : Guid]
             \cup [type : {"interrupt"}, guid : Guid \cup {NoGuid}]
Report  == [type : {"launch", "operation"}, guid : Guid \cup {NoGuid}]

TypeOK ==
  /\ row \in [Guid -> {"none", "open", "complete"}]
  /\ last \in [Lane -> Guid \cup {NoGuid}]
  /\ launched \subseteq Guid
  /\ pc \in [Caller -> Pc]
  /\ cmd \in [Caller -> Guid \cup {NoGuid}]
  /\ attempts \in [Caller -> 1..Attempts]
  /\ inbox \in Seq(CallMsg)
  /\ reports \subseteq Report
  /\ interrupted \subseteq Guid
  /\ resent \subseteq Guid /\ raced \subseteq Guid
  /\ phase \in [Delivery -> Remote!Phase]
  /\ answered \subseteq Guid \cup {NoGuid}

Init ==
  /\ row = [g \in Guid |-> "none"]
  /\ last = [l \in Lane |-> NoGuid]
  /\ launched = {}
  /\ pc = [c \in Caller |-> "idle"]
  /\ cmd = [c \in Caller |-> NoGuid]
  /\ attempts = [c \in Caller |-> Attempts]
  /\ inbox = <<>>
  /\ reports = {}
  /\ interrupted = {} /\ resent = {} /\ raced = {}
  /\ Remote!Init

\* The lane's last row has no date_complete.
Unfinished(l) == last[l] # NoGuid /\ row[last[l]] = "open"

\* Guid.NewGuid: a guid nobody has.
NewGuid(g) ==
  /\ row[g] = "none" /\ g \notin answered \cup resent \cup raced
  /\ \A d \in Delivery : d[1] = g => phase[d] = "new"
  /\ \A c \in Caller : cmd[c] # g
  /\ \A i \in DOMAIN inbox : inbox[i].guid # g

Goes(c, s, g) == /\ pc' = [pc EXCEPT ![c] = s]
                 /\ cmd' = [cmd EXCEPT ![c] = g]
                 /\ attempts' = [attempts EXCEPT ![c] = Attempts]
-----------------------------------------------------------------------------
(***************************************************************************)
(* SendCommand.  Definitions named Mut... are faulty variants of the one   *)
(* that follows, used by no specification.                                 *)
(***************************************************************************)
Sends(c) == pc[c] \in {"transmit", "record"}

\* The commands being sent to a lane.
Sending(l) == {h \in Guid : laneOf[h] = l /\ \E c \in Caller : Sends(c) /\ cmd[c] = h}

\* PrepareCommand and the test of commandDate: while the last command of the
\* lane is unfinished the new one is refused, and nothing changes.
Races(g) == raced' = IF Sending(laneOf[g]) = {} THEN raced
                     ELSE raced \cup Sending(laneOf[g]) \cup {g}

MutPrepareCommand(c, g) ==
  /\ pc[c] = "idle" /\ NewGuid(g)
  /\ Goes(c, "transmit", g) /\ Races(g)
  /\ UNCHANGED <<db, net, resent>>
PrepareCommand(c, g) ==
  /\ pc[c] = "idle" /\ NewGuid(g)
  /\ ~Unfinished(laneOf[g])
  /\ Goes(c, "transmit", g) /\ Races(g)
  /\ UNCHANGED <<db, net, resent>>

Send(msg) == Len(inbox) < MaxInbox /\ inbox' = Append(inbox, msg)

\* An attempt of the proxy ends in an exception; after the last one the caller
\* raises an alarm and gives up.
MutAttemptFails(c) ==
  IF attempts[c] = 0 THEN Goes(c, "idle", NoGuid)
  ELSE attempts' = [attempts EXCEPT ![c] = @ - 1] /\ UNCHANGED <<pc, cmd>>
AttemptFails(c) ==
  IF attempts[c] = 1 THEN Goes(c, "idle", NoGuid)
  ELSE attempts' = [attempts EXCEPT ![c] = @ - 1] /\ UNCHANGED <<pc, cmd>>

MutCommandExecute(c) ==
  /\ pc[c] = "transmit"
  /\ Send([type |-> "execute", guid |-> cmd[c]])
  /\ \/ Goes(c, "record", cmd[c])
     \/ AttemptFails(c)
  /\ UNCHANGED <<db, reports, remote, history>>
CommandExecute(c) ==
  /\ pc[c] = "transmit"
  /\ LET msg == [type |-> "execute", guid |-> cmd[c]]
     IN \/ Send(msg) /\ Goes(c, "record", cmd[c]) /\ UNCHANGED resent
        \/ CanFail /\ AttemptFails(c) /\ UNCHANGED <<inbox, resent>>
        \/ /\ FalseFailure /\ AttemptFails(c) /\ Send(msg)
           /\ resent' = resent \cup {cmd[c]}
  /\ UNCHANGED <<db, reports, remote, raced>>

\* SetCommandReport: the row is written after the command was sent.
SetCommandReport(c) ==
  /\ pc[c] = "record"
  /\ row' = [row EXCEPT ![cmd[c]] = "open"]
  /\ last' = [last EXCEPT ![laneOf[cmd[c]]] = cmd[c]]
  /\ Goes(c, "idle", NoGuid)
  /\ UNCHANGED <<launched, interrupted, net, history>>

\* The database does not answer: the exception leaves SendCommand, and the
\* command stays without a row.
RecordFails(c) ==
  /\ CanFail /\ pc[c] = "record"
  /\ Goes(c, "idle", NoGuid)
  /\ UNCHANGED <<db, net, history>>
-----------------------------------------------------------------------------
(***************************************************************************)
(* InterruptCommand and CheckProcess.                                      *)
(***************************************************************************)
\* GetLaunchReport; only an unfinished task is interrupted, or checked.
InterruptCommand(c, l) ==
  /\ pc[c] = "idle" /\ Unfinished(l)
  /\ Goes(c, "prepare", last[l])
  /\ UNCHANGED <<db, net, history>>

\* The second query: if the task was completed meanwhile, a new guid.
PrepareInterrupt(c) ==
  /\ pc[c] = "prepare"
  /\ LET l == laneOf[cmd[c]]
     IN Goes(c, "interrupt", IF Unfinished(l) THEN last[l] ELSE NoGuid)
  /\ UNCHANGED <<db, net, history>>

InterruptProcess(c) ==
  /\ pc[c] = "interrupt"
  /\ LET msg == [type |-> "interrupt", guid |-> cmd[c]]
     IN \/ /\ Send(msg) /\ interrupted' = interrupted \cup ({cmd[c]} \cap Guid)
           /\ Goes(c, "idle", NoGuid) \/ (FalseFailure /\ AttemptFails(c))
        \/ CanFail /\ AttemptFails(c) /\ UNCHANGED <<inbox, interrupted>>
  /\ UNCHANGED <<row, last, launched, reports, remote, history>>

\* A task without startDate is not checked: the branch that should do it
\* compares a DateTime with null.
CheckProcess(c, l) ==
  /\ pc[c] = "idle" /\ Unfinished(l) /\ last[l] \in launched
  /\ Goes(c, "sleep", last[l])
  /\ UNCHANGED <<db, net, history>>

\* Thread.Sleep until delay_check after the start, then the call.
SleepEnds(c) ==
  /\ pc[c] = "sleep"
  /\ Goes(c, "check", cmd[c])
  /\ UNCHANGED <<db, net, history>>

\* The remote service answers LongProcess when the task runs, Miss otherwise;
\* either raises an alarm.
CheckAnswered(c) ==
  /\ pc[c] = "check"
  /\ Goes(c, "idle", NoGuid)
  /\ UNCHANGED <<db, net, history>>

CheckFails(c) ==
  /\ pc[c] = "check" /\ CanFail
  /\ AttemptFails(c)
  /\ UNCHANGED <<db, net, history>>
-----------------------------------------------------------------------------
(***************************************************************************)
(* HandleReport: an update of the row, which does nothing without the row. *)
(***************************************************************************)
SetLaunchReport(g) ==
  /\ [type |-> "launch", guid |-> g] \in reports
  /\ reports' = reports \ {[type |-> "launch", guid |-> g]}
  /\ launched' = IF row[g] = "none" THEN launched ELSE launched \cup {g}
  /\ UNCHANGED <<row, last, interrupted, callers, inbox, remote, history>>

MutSetReport(g) ==
  /\ [type |-> "operation", guid |-> g] \in reports
  /\ reports' = reports \ {[type |-> "operation", guid |-> g]}
  /\ UNCHANGED <<db, callers, inbox, remote, history>>
SetReport(g) ==
  /\ [type |-> "operation", guid |-> g] \in reports
  /\ reports' = reports \ {[type |-> "operation", guid |-> g]}
  /\ row' = [row EXCEPT ![g] = IF @ = "none" THEN "none" ELSE "complete"]
  /\ UNCHANGED <<last, launched, interrupted, callers, inbox, remote, history>>

\* A report for no row this service ever wrote.
IgnoreReport ==
  /\ [type |-> "operation", guid |-> NoGuid] \in reports
  /\ reports' = reports \ {[type |-> "operation", guid |-> NoGuid]}
  /\ UNCHANGED <<db, callers, inbox, remote, history>>

\* The remote service's three attempts fail, or the host was being reopened.
LoseReport ==
  /\ CanLose
  /\ \E m \in reports : reports' = reports \ {m}
  /\ UNCHANGED <<db, callers, inbox, remote, history>>

\* The central service stops: its callers are gone, the database stays.
StopCentral ==
  /\ CentralStops
  /\ pc' = [c \in Caller |-> "idle"]
  /\ cmd' = [c \in Caller |-> NoGuid]
  /\ attempts' = [c \in Caller |-> Attempts]
  /\ UNCHANGED <<db, net, history>>
-----------------------------------------------------------------------------
(***************************************************************************)
(* The remote service takes calls in order.  It may refuse a command, for  *)
(* want of a configuration or because of an update, and answers it then as *)
(* it answers an interrupt: with an operation report, if at all.           *)
(***************************************************************************)
Reports(type, g) == reports' = reports \cup {[type |-> type, guid |-> g]}

Takes(type) == /\ inbox # <<>> /\ Head(inbox).type = type
               /\ inbox' = Tail(inbox)
               /\ UNCHANGED <<db, callers, history>>

RemoteAccept ==
  /\ Takes("execute")
  /\ \E n \in 1..Attempts :
       /\ \A m \in 1..n-1 : phase[<<Head(inbox).guid, m>>] # "new"
       /\ Remote!Accept(<<Head(inbox).guid, n>>)
  /\ UNCHANGED reports

RemoteAnswers ==
  /\ Takes("execute") \/ Takes("interrupt")
  /\ \/ Remote!Interrupt(Head(inbox).guid) /\ Reports("operation", Head(inbox).guid)
     \/ Silent /\ UNCHANGED <<reports, remote>>

RemoteStart(d) ==
  Remote!Start(d) /\ UNCHANGED <<db, callers, inbox, reports, history>>

\* 1C may be started more than once.
RemoteLaunch(d) ==
  /\ Launches /\ phase[d] = "running"
  /\ Reports("launch", d[1])
  /\ UNCHANGED <<db, callers, inbox, remote, history>>

MutRemoteEnd(d) ==
  /\ Remote!Start(d)
  /\ Reports("operation", d[1])
  /\ UNCHANGED <<db, callers, inbox, history>>
RemoteEnd(d) ==
  /\ Remote!End(d)
  /\ Reports("operation", d[1])
  /\ UNCHANGED <<db, callers, inbox, history>>

RemoteForget(d) ==
  /\ Silent /\ Remote!Forget(d)
  /\ UNCHANGED <<db, callers, inbox, reports, history>>

StopRemote ==
  /\ RemoteStops /\ Remote!Restart
  /\ UNCHANGED <<db, callers, inbox, reports, history>>
-----------------------------------------------------------------------------
CallerStep(c) ==
  \/ CommandExecute(c) \/ SetCommandReport(c) \/ RecordFails(c)
  \/ PrepareInterrupt(c) \/ InterruptProcess(c)
  \/ SleepEnds(c) \/ CheckAnswered(c) \/ CheckFails(c)

CallerStarts(c) ==
  \/ \E g \in Guid : PrepareCommand(c, g)
  \/ \E l \in Lane : InterruptCommand(c, l) \/ CheckProcess(c, l)

HandleReport ==
  \/ \E g \in Guid : SetLaunchReport(g) \/ SetReport(g)
  \/ IgnoreReport

RemoteStep == RemoteAccept \/ RemoteAnswers

Next ==
  \/ \E c \in Caller : CallerStarts(c) \/ CallerStep(c)
  \/ HandleReport
  \/ RemoteStep
  \/ \E d \in Delivery :
       RemoteStart(d) \/ RemoteLaunch(d) \/ RemoteEnd(d) \/ RemoteForget(d)
  \/ LoseReport \/ StopCentral \/ StopRemote

Spec == Init /\ [][Next]_vars

\* Threads run on; the remote service works off its calls, and has the
\* fairness of a TaskService.
Fairness ==
  /\ \A c \in Caller : WF_vars(CallerStep(c))
  /\ \A g \in Guid : WF_vars(SetReport(g))
  /\ WF_vars(HandleReport)
  /\ WF_vars(RemoteStep)
  /\ \A d \in Delivery :
       WF_vars(RemoteStart(d) \/ RemoteForget(d)) /\ WF_vars(RemoteEnd(d))
FairSpec == Spec /\ Fairness
-----------------------------------------------------------------------------
(***************************************************************************)
(* Properties.                                                             *)
(***************************************************************************)
\* At the remote service, or on its way there.
UnderWay(g) ==
  \/ \E d \in Delivery : d[1] = g /\ phase[d] \in {"waiting", "running"}
  \/ \E i \in DOMAIN inbox : inbox[i] = [type |-> "execute", guid |-> g]

\* A row is completed only when its task will not run (any more), unless an
\* interrupt was sent for it or its call was repeated although it had arrived,
\* so that it runs twice: no other report frees a lane too soon
\* (RemoteServicesManager.cs:145, RemoteServiceProxy.cs:60-75, DataHandler.cs:60).
CompleteMeansEnded ==
  \A g \in Guid :
    row[g] = "complete" => ~UnderWay(g) \/ g \in interrupted \cup resent

\* One command of a lane at a time: "предыдущая задача не завершена"
\* (RemoteServicesManager.cs:218), "не закончена предыдущая операция, поэтому
\* новая команда отправлена быть не может" (DataHandler.cs:60).
LaneExclusive ==
  \A g, h \in Guid :
    laneOf[g] = laneOf[h] /\ UnderWay(g) /\ UnderWay(h) => g = h

\* Of commands that have a row that holds, whatever fails or stops, but in three
\* cases, each an event in the past of one of them: an interrupt was sent for it,
\* whose report frees the lane before the thread has ended; its call was repeated
\* although it had arrived; or it was sent while another caller was sending one
\* to the lane, so that both found it free (RemoteServicesManager.cs:208, 231).
RecordedExclusive ==
  \A g, h \in Guid :
    laneOf[g] = laneOf[h] /\ UnderWay(g) /\ UnderWay(h)
      /\ row[g] # "none" /\ row[h] # "none" =>
        g = h \/ {g, h} \cap (interrupted \cup resent \cup raced) # {}

\* A recorded task that runs has its row completed in the end, so that the
\* lane takes commands again.
LaneReopens ==
  \A g \in Guid : (row[g] = "open" /\ UnderWay(g)) ~> (row[g] = "complete")
=============================================================================
