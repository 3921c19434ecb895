------------------------ MODULE CentralDispatchProofs ------------------------
(***************************************************************************)
(* Proofs about CentralDispatch for every number of lanes, commands and    *)
(* callers, whatever fails, stops or is repeated: types; that no report    *)
(* completes a row too early; and that the recorded commands of a lane     *)
(* exclude one another, but for those an event in the past excuses.        *)
(***************************************************************************)
EXTENDS CentralDispatch, SequenceTheorems, TLAPS

LEMMA DispatchConstants ==
  /\ laneOf \in [Guid -> Lane]
  /\ NoGuid \notin Guid
  /\ Attempts \in Nat \ {0}
BY CentralDispatchAssumption DEF CentralDispatchAssumption

Execute(g) == [type |-> "execute", guid |-> g]
-----------------------------------------------------------------------------
(***************************************************************************)
(* Types.  A caller that will send or record a command, or ask about one   *)
(* again, holds the guid of a row and not the placeholder.                 *)
(***************************************************************************)
CallersHold ==
  \A c \in Caller : pc[c] \in {"transmit", "record", "prepare"} => cmd[c] \in Guid

TypeInv == TypeOK /\ CallersHold

LEMMA InboxSend ==
  ASSUME TypeInv, NEW msg \in CallMsg, Send(msg)
  PROVE  /\ inbox' \in Seq(CallMsg)
         /\ Len(inbox) + 1 \in DOMAIN inbox' /\ inbox'[Len(inbox) + 1] = msg
         /\ \A i \in DOMAIN inbox : i \in DOMAIN inbox' /\ inbox'[i] = inbox[i]
         /\ \A i \in DOMAIN inbox' :
              i = Len(inbox) + 1 \/ (i \in DOMAIN inbox /\ i # Len(inbox) + 1)
<1>1. inbox \in Seq(CallMsg) /\ inbox' = Append(inbox, msg)
  BY DEF TypeInv, TypeOK, Send
<1>2. /\ inbox' \in Seq(CallMsg) /\ Len(inbox) \in Nat
      /\ Len(inbox') = Len(inbox) + 1
      /\ \A i \in 1..Len(inbox) : inbox'[i] = inbox[i]
      /\ inbox'[Len(inbox) + 1] = msg
  BY <1>1, AppendProperties
<1>3. DOMAIN inbox = 1..Len(inbox) /\ DOMAIN inbox' = 1..Len(inbox) + 1
  BY <1>1, <1>2
<1> QED
  BY <1>2, <1>3

LEMMA InboxTakes ==
  ASSUME TypeInv, NEW type, Takes(type)
  PROVE  /\ inbox' \in Seq(CallMsg)
         /\ 1 \in DOMAIN inbox /\ inbox[1] = Head(inbox)
         /\ Head(inbox) \in CallMsg /\ Head(inbox).type = type
         /\ \A i \in DOMAIN inbox' :
              i \in Nat /\ i + 1 \in DOMAIN inbox /\ i + 1 # 1 /\ inbox'[i] = inbox[i + 1]
<1>1. inbox \in Seq(CallMsg) /\ inbox # <<>> /\ inbox' = Tail(inbox)
  BY DEF TypeInv, TypeOK, Takes
<1>2. Len(inbox) \in Nat /\ Len(inbox) > 0 /\ DOMAIN inbox = 1..Len(inbox)
  BY <1>1, EmptySeq
<1>3. /\ inbox' \in Seq(CallMsg) /\ DOMAIN inbox' = 1..Len(inbox) - 1
      /\ \A i \in 1..Len(inbox) - 1 : inbox'[i] = inbox[i + 1]
      /\ Head(inbox) = inbox[1]
  BY <1>1, <1>2
<1> QED
  BY <1>1, <1>2, <1>3 DEF Takes

LEMMA GoesTypes ==
  ASSUME TypeInv, NEW c \in Caller, NEW s \in Pc, NEW g \in Guid \cup {NoGuid},
         s \in {"transmit", "record", "prepare"} => g \in Guid, Goes(c, s, g)
  PROVE  /\ pc' \in [Caller -> Pc]
         /\ cmd' \in [Caller -> Guid \cup {NoGuid}]
         /\ attempts' \in [Caller -> 1..Attempts]
         /\ CallersHold'
BY DispatchConstants DEF TypeInv, TypeOK, Goes, CallersHold

LEMMA AttemptFailsTypes ==
  ASSUME TypeInv, NEW c \in Caller, AttemptFails(c)
  PROVE  /\ pc' \in [Caller -> Pc]
         /\ cmd' \in [Caller -> Guid \cup {NoGuid}]
         /\ attempts' \in [Caller -> 1..Attempts]
         /\ CallersHold'
<1>1. CASE Goes(c, "idle", NoGuid)
  BY <1>1, GoesTypes DEF Pc
<1>2. CASE attempts[c] # 1 /\ attempts' = [attempts EXCEPT ![c] = @ - 1]
           /\ UNCHANGED <<pc, cmd>>
  <2>1. attempts[c] - 1 \in 1..Attempts
    BY <1>2, DispatchConstants DEF TypeInv, TypeOK
  <2> QED
    BY <1>2, <2>1 DEF TypeInv, TypeOK, CallersHold
<1> QED
  BY <1>1, <1>2 DEF AttemptFails

LEMMA TypeCallerStarts ==
  ASSUME TypeInv, NEW c \in Caller, CallerStarts(c) PROVE TypeInv'
<1>1. UNCHANGED <<db, net, resent>> /\ raced' \subseteq Guid
  BY DEF CallerStarts, PrepareCommand, InterruptCommand, CheckProcess, Races, Sending,
         history, TypeInv, TypeOK
<1>2. ASSUME NEW s \in {"transmit", "prepare", "sleep"}, NEW g \in Guid,
             Goes(c, s, g)
      PROVE  TypeInv'
  BY <1>1, <1>2, GoesTypes DEF TypeInv, TypeOK, Pc, db, net, remote
<1>3. \A l \in Lane : Unfinished(l) => last[l] \in Guid
  BY DEF Unfinished, TypeInv, TypeOK
<1> QED
  BY <1>2, <1>3 DEF CallerStarts, PrepareCommand, InterruptCommand, CheckProcess

LEMMA TypeCallerStep ==
  ASSUME TypeInv, NEW c \in Caller, CallerStep(c) PROVE TypeInv'
<1>1. cmd[c] \in Guid \cup {NoGuid}
      /\ (pc[c] \in {"transmit", "record", "prepare"} => cmd[c] \in Guid)
  BY DEF TypeInv, TypeOK, CallersHold
<1> USE DEF db, net, remote, history
<1>2. CASE CommandExecute(c)
  <2>1. inbox' \in Seq(CallMsg)
    <3>1. Execute(cmd[c]) \in CallMsg
      BY <1>1, <1>2 DEF CommandExecute, CallMsg, Execute
    <3>2. Send(Execute(cmd[c])) \/ inbox' = inbox
      BY <1>2 DEF CommandExecute, Execute
    <3> QED
      BY <3>1, <3>2, InboxSend DEF TypeInv, TypeOK
  <2>2. Goes(c, "record", cmd[c]) \/ AttemptFails(c)
    BY <1>2 DEF CommandExecute
  <2>3. pc[c] = "transmit" /\ "record" \in Pc
    BY <1>2 DEF CommandExecute, Pc
  <2>4. pc' \in [Caller -> Pc] /\ cmd' \in [Caller -> Guid \cup {NoGuid}]
        /\ attempts' \in [Caller -> 1..Attempts] /\ CallersHold'
    BY <1>1, <2>2, <2>3, GoesTypes, AttemptFailsTypes
  <2>5. resent' \subseteq Guid
    BY <1>1, <1>2 DEF CommandExecute, TypeInv, TypeOK
  <2> QED
    BY <1>2, <2>1, <2>4, <2>5 DEF CommandExecute, TypeInv, TypeOK
<1>3. CASE SetCommandReport(c)
  <2>1. cmd[c] \in Guid /\ Goes(c, "idle", NoGuid) /\ "idle" \in Pc
    BY <1>1, <1>3 DEF SetCommandReport, Pc
  <2>2. pc' \in [Caller -> Pc] /\ cmd' \in [Caller -> Guid \cup {NoGuid}]
        /\ attempts' \in [Caller -> 1..Attempts] /\ CallersHold'
    BY <2>1, GoesTypes
  <2>3. row' \in [Guid -> {"none", "open", "complete"}]
        /\ last' \in [Lane -> Guid \cup {NoGuid}]
    BY <1>3, <2>1, DispatchConstants DEF SetCommandReport, TypeInv, TypeOK
  <2> QED
    BY <1>3, <2>2, <2>3 DEF SetCommandReport, TypeInv, TypeOK
<1>4. CASE PrepareInterrupt(c)
  <2>1. \A l \in Lane : Unfinished(l) => last[l] \in Guid
    BY DEF Unfinished, TypeInv, TypeOK
  <2>2. laneOf[cmd[c]] \in Lane
    BY <1>1, <1>4, DispatchConstants DEF PrepareInterrupt
  <2>3. PICK g \in Guid \cup {NoGuid} : Goes(c, "interrupt", g)
    BY <1>4, <2>1, <2>2 DEF PrepareInterrupt
  <2> QED
    BY <1>4, <2>3, GoesTypes DEF PrepareInterrupt, TypeInv, TypeOK, Pc
<1>5. CASE InterruptProcess(c)
  <2> DEFINE msg == [type |-> "interrupt", guid |-> cmd[c]]
  <2>1. msg \in CallMsg
    BY <1>1 DEF CallMsg
  <2>2. Send(msg) \/ inbox' = inbox
    BY <1>5 DEF InterruptProcess
  <2>3. inbox' \in Seq(CallMsg)
    BY <2>1, <2>2, InboxSend DEF TypeInv, TypeOK
  <2>4. Goes(c, "idle", NoGuid) \/ AttemptFails(c)
    BY <1>5 DEF InterruptProcess
  <2>5. pc' \in [Caller -> Pc] /\ cmd' \in [Caller -> Guid \cup {NoGuid}]
        /\ attempts' \in [Caller -> 1..Attempts] /\ CallersHold'
    BY <2>4, GoesTypes, AttemptFailsTypes DEF Pc
  <2>6. interrupted' \subseteq Guid
    BY <1>5 DEF InterruptProcess, TypeInv, TypeOK
  <2> QED
    BY <1>5, <2>3, <2>5, <2>6 DEF InterruptProcess, TypeInv, TypeOK
<1>6. CASE RecordFails(c) \/ SleepEnds(c) \/ CheckAnswered(c) \/ CheckFails(c)
  <2>1. Goes(c, "check", cmd[c]) \/ Goes(c, "idle", NoGuid) \/ AttemptFails(c)
    BY <1>6 DEF RecordFails, SleepEnds, CheckAnswered, CheckFails
  <2>2. pc' \in [Caller -> Pc] /\ cmd' \in [Caller -> Guid \cup {NoGuid}]
        /\ attempts' \in [Caller -> 1..Attempts] /\ CallersHold'
    BY <1>1, <2>1, GoesTypes, AttemptFailsTypes DEF Pc
  <2>3. UNCHANGED <<db, net, history>>
    BY <1>6 DEF RecordFails, SleepEnds, CheckAnswered, CheckFails
  <2> QED
    BY <2>2, <2>3 DEF TypeInv, TypeOK
<1> QED
  BY <1>2, <1>3, <1>4, <1>5, <1>6 DEF CallerStep

LEMMA TypeHandleReport ==
  ASSUME TypeInv, HandleReport \/ LoseReport \/ StopCentral PROVE TypeInv'
<1> USE DEF TypeInv, TypeOK, CallersHold, db, callers, net, remote, history
<1>1. ASSUME NEW g \in Guid, SetLaunchReport(g) PROVE TypeInv'
  BY <1>1 DEF SetLaunchReport
<1>2. ASSUME NEW g \in Guid, SetReport(g) PROVE TypeInv'
  BY <1>2 DEF SetReport
<1>3. CASE IgnoreReport \/ LoseReport
  BY <1>3 DEF IgnoreReport, LoseReport
<1>4. CASE StopCentral
  BY <1>4, DispatchConstants DEF StopCentral, Pc
<1> QED
  BY <1>1, <1>2, <1>3, <1>4 DEF HandleReport

LEMMA TypeRemote ==
  ASSUME TypeInv,
         \/ RemoteStep \/ StopRemote
         \/ \E d \in Delivery :
              RemoteStart(d) \/ RemoteLaunch(d) \/ RemoteEnd(d) \/ RemoteForget(d)
  PROVE  TypeInv'
<1>1. ASSUME UNCHANGED <<db, callers, history>>, inbox' \in Seq(CallMsg),
             phase' \in [Delivery -> Remote!Phase],
             answered' \subseteq Guid \cup {NoGuid}, reports' \subseteq Report
      PROVE  TypeInv'
  BY <1>1 DEF TypeInv, TypeOK, CallersHold, db, callers, history
<1>2. /\ inbox \in Seq(CallMsg) /\ phase \in [Delivery -> Remote!Phase]
      /\ answered \subseteq Guid \cup {NoGuid} /\ reports \subseteq Report
  BY DEF TypeInv, TypeOK
<1>3. ASSUME NEW d \in Delivery PROVE d[1] \in Guid
  BY DEF Delivery
<1>4. \A m \in CallMsg : m.guid \in Guid \cup {NoGuid}
  BY DEF CallMsg
<1> USE DEF Remote!Moves, Remote!Phase, remote
<1>5. CASE RemoteAccept
  BY <1>1, <1>2, <1>5, InboxTakes DEF RemoteAccept, Takes, Remote!Accept
<1>6. CASE RemoteAnswers
  <2>1. PICK type \in {"execute", "interrupt"} : Takes(type)
    BY <1>6 DEF RemoteAnswers
  <2>2. inbox' \in Seq(CallMsg) /\ Head(inbox).guid \in Guid \cup {NoGuid}
        /\ UNCHANGED <<db, callers, history>>
    BY <1>4, <2>1, InboxTakes DEF Takes
  <2>3. phase' = phase /\ answered' \subseteq Guid \cup {NoGuid} /\ reports' \subseteq Report
    BY <1>2, <1>6, <2>2 DEF RemoteAnswers, Remote!Interrupt, Reports, Report
  <2> QED
    BY <1>1, <1>2, <2>2, <2>3
<1>7. ASSUME NEW d \in Delivery, RemoteStart(d) PROVE TypeInv'
  BY <1>1, <1>2, <1>7 DEF RemoteStart, Remote!Start
<1>8. ASSUME NEW d \in Delivery, RemoteLaunch(d) PROVE TypeInv'
  BY <1>1, <1>2, <1>3, <1>8 DEF RemoteLaunch, Reports, Report
<1>9. ASSUME NEW d \in Delivery, RemoteEnd(d) PROVE TypeInv'
  <2>1. answered' = answered \cup {d[1]}
    BY <1>9 DEF RemoteEnd, Remote!End
  <2> QED
    BY <1>1, <1>2, <1>3, <1>9, <2>1 DEF RemoteEnd, Remote!End, Reports, Report
<1>10. ASSUME NEW d \in Delivery, RemoteForget(d) PROVE TypeInv'
  BY <1>1, <1>2, <1>10 DEF RemoteForget, Remote!Forget
<1>11. CASE StopRemote
  BY <1>1, <1>2, <1>11 DEF StopRemote, Remote!Restart
<1> QED
  BY <1>5, <1>6, <1>7, <1>8, <1>9, <1>10, <1>11 DEF RemoteStep

LEMMA TypeInit == Init => TypeInv
<1> SUFFICES ASSUME Init PROVE TypeInv
  OBVIOUS
<1>1. inbox \in Seq(CallMsg)
  BY DEF Init
<1>2. phase \in [Delivery -> Remote!Phase] /\ answered = {}
  BY DEF Init, Remote!Init, Remote!Phase
<1>3. attempts \in [Caller -> 1..Attempts]
  BY DispatchConstants DEF Init
<1> QED
  BY <1>1, <1>2, <1>3 DEF Init, TypeInv, TypeOK, CallersHold, Pc

LEMMA TypeStep == TypeInv /\ [Next]_vars => TypeInv'
<1>1. TypeInv /\ UNCHANGED vars => TypeInv'
  BY DEF vars, db, callers, net, remote, history, TypeInv, TypeOK, CallersHold
<1> QED
  BY <1>1, TypeCallerStarts, TypeCallerStep, TypeHandleReport, TypeRemote DEF Next

LEMMA TypeInvariant == Spec => []TypeInv
BY TypeInit, TypeStep, PTL DEF Spec

\* Every variable keeps its type: no row, call or report ever names a command
\* that was not prepared, whichever call fails or process stops
\* (RemoteServicesManager.cs:145, 218).
THEOREM DispatchTypeCorrect == Spec => []TypeOK
BY TypeInvariant, PTL DEF TypeInv
-----------------------------------------------------------------------------
(***************************************************************************)
(* No report completes a row too early.  A guid is answered only once its  *)
(* command has left the queue of calls and every thread, or once an        *)
(* interrupt was sent, unless the call was repeated although it had        *)
(* arrived: any other command reaches the remote service once.             *)
(***************************************************************************)
\* The guid of a command about to be sent is no other caller's, is in no row,
\* and the remote service knows of it only from an earlier attempt.
Unheard(g) ==
  /\ g \notin answered
  /\ \A d \in Delivery : d[1] = g => phase[d] = "new"
  /\ \A i \in DOMAIN inbox : inbox[i].guid # g
Fresh(c) ==
  /\ row[cmd[c]] = "none"
  /\ \A b \in Caller : b # c => cmd[b] # cmd[c]
  /\ cmd[c] \notin resent => Unheard(cmd[c])
SendsFresh == \A c \in Caller : pc[c] = "transmit" => Fresh(c)

\* A command that was not repeated is on its way once, and only while no
\* delivery of it arrived.
IsExecute(i) == inbox[i].type = "execute"
SentOnce ==
  /\ \A i, j \in DOMAIN inbox :
       IsExecute(i) /\ IsExecute(j) /\ inbox[i].guid = inbox[j].guid
         => i = j \/ inbox[i].guid \in resent
  /\ \A i \in DOMAIN inbox : IsExecute(i) /\ inbox[i].guid \notin resent =>
       \A d \in Delivery : d[1] = inbox[i].guid => phase[d] = "new"
  /\ \A d, e \in Delivery :
       d[1] = e[1] /\ phase[d] # "new" /\ phase[e] # "new"
         => d = e \/ d[1] \in resent

InterruptNoted ==
  \A i \in DOMAIN inbox :
    ~IsExecute(i) => inbox[i].guid \in interrupted \cup {NoGuid}

AnsweredEnded ==
  \A g \in answered \cap Guid : ~UnderWay(g) \/ g \in interrupted \cup resent

OnlyAnswered ==
  /\ \A g \in Guid : [type |-> "operation", guid |-> g] \in reports => g \in answered
  /\ \A g \in Guid : row[g] = "complete" => g \in answered

SentInv ==
  SendsFresh /\ SentOnce /\ InterruptNoted /\ AnsweredEnded /\ OnlyAnswered

\* UnderWay in terms of the tests above.
LEMMA UnderWayIff ==
  ASSUME TypeInv, NEW g \in Guid
  PROVE  UnderWay(g) <=>
           \/ \E d \in Delivery : d[1] = g /\ phase[d] \in {"waiting", "running"}
           \/ \E i \in DOMAIN inbox : IsExecute(i) /\ inbox[i].guid = g
<1>1. ASSUME NEW m \in CallMsg
      PROVE  m = Execute(g) <=> m.type = "execute" /\ m.guid = g
  BY DEF CallMsg, Execute
<1>2. \A i \in DOMAIN inbox : inbox[i] \in CallMsg
  BY DEF TypeInv, TypeOK
<1> QED
  BY <1>1, <1>2 DEF UnderWay, IsExecute, Execute

\* A caller moves on; the commands others are about to send stay unknown.
LEMMA FreshFrame ==
  ASSUME TypeInv, SendsFresh, NEW c \in Caller, NEW s, NEW g, Goes(c, s, g),
         s # "transmit", UNCHANGED <<answered, phase, resent>>,
         \A b \in Caller : b # c /\ pc[b] = "transmit" =>
           /\ cmd[b] # g /\ row'[cmd[b]] = "none"
           /\ cmd[b] \notin resent => \A i \in DOMAIN inbox' : inbox'[i].guid # cmd[b]
  PROVE  SendsFresh'
BY DEF TypeInv, TypeOK, SendsFresh, Fresh, Unheard, Goes

\* The calls, the deliveries and the rows stay as they are.
LEMMA CallerFrame ==
  ASSUME TypeInv, SentInv, NEW c \in Caller, NEW s, NEW g, Goes(c, s, g),
         s # "transmit", UNCHANGED <<db, net, history>>,
         g # NoGuid /\ g # cmd[c] => g \in Guid /\ row[g] # "none"
  PROVE  SentInv'
<1>1. ASSUME NEW b \in Caller, b # c, pc[b] = "transmit"
      PROVE  /\ cmd[b] # g /\ row[cmd[b]] = "none" /\ cmd[b] # cmd[c]
             /\ cmd[b] \notin resent => \A i \in DOMAIN inbox : inbox[i].guid # cmd[b]
  BY <1>1, DispatchConstants DEF SentInv, SendsFresh, Fresh, Unheard, TypeInv, CallersHold
<1>2. SendsFresh'
  BY <1>1, FreshFrame DEF SentInv, db, net, remote, history
<1> QED
  BY <1>2 DEF SentInv, SentOnce, InterruptNoted, AnsweredEnded, OnlyAnswered,
              UnderWay, IsExecute, db, net, remote, history

\* An attempt that failed undelivered changes the caller only.
LEMMA FailureFrame ==
  ASSUME TypeInv, SentInv, NEW c \in Caller, AttemptFails(c),
         UNCHANGED <<db, net, history>>
  PROVE  SentInv'
<1>1. CASE Goes(c, "idle", NoGuid)
  BY <1>1, CallerFrame
<1>2. CASE UNCHANGED <<pc, cmd>>
  BY <1>2 DEF SentInv, SendsFresh, Fresh, Unheard, SentOnce, InterruptNoted,
              AnsweredEnded, OnlyAnswered, UnderWay, IsExecute, db, net, remote, history
<1> QED
  BY <1>1, <1>2 DEF AttemptFails

LEMMA SentCallerStarts ==
  ASSUME TypeInv, SentInv, NEW c \in Caller, CallerStarts(c) PROVE SentInv'
<1>1. ASSUME NEW g \in Guid, PrepareCommand(c, g) PROVE SentInv'
  <2>1. NewGuid(g) /\ Goes(c, "transmit", g) /\ UNCHANGED <<db, net, resent>>
    BY <1>1 DEF PrepareCommand
  <2>2. SendsFresh'
    BY <2>1 DEF NewGuid, Goes, SentInv, SendsFresh, Fresh, Unheard, TypeInv, TypeOK, db,
                net, remote
  <2> QED
    BY <2>1, <2>2 DEF SentInv, SentOnce, InterruptNoted, AnsweredEnded, OnlyAnswered,
                      UnderWay, IsExecute, db, net, remote
<1>2. ASSUME NEW l \in Lane, NEW s \in {"prepare", "sleep"}, Unfinished(l),
             Goes(c, s, last[l]), UNCHANGED <<db, net, history>>
      PROVE  SentInv'
  <2>1. last[l] \in Guid /\ row[last[l]] # "none"
    BY <1>2 DEF Unfinished, TypeInv, TypeOK
  <2> QED
    BY <1>2, <2>1, CallerFrame
<1> QED
  BY <1>1, <1>2 DEF CallerStarts, InterruptCommand, CheckProcess

\* A command joins the calls under way: a fresh one, or one repeated from here on.
LEMMA SentExecute ==
  ASSUME TypeInv, SentInv, NEW c \in Caller, pc[c] = "transmit",
         Send(Execute(cmd[c])), UNCHANGED <<db, reports, remote>>,
         \/ Goes(c, "record", cmd[c]) /\ resent' = resent
         \/ AttemptFails(c) /\ resent' = resent \cup {cmd[c]}
  PROVE  SentInv'
<1> DEFINE g == cmd[c]
<1>1. g \in Guid /\ Fresh(c) /\ Execute(g) \in CallMsg
  BY DEF TypeInv, CallersHold, SentInv, SendsFresh, CallMsg, Execute
<1>2. PICK n \in DOMAIN inbox' :
        /\ n \notin DOMAIN inbox /\ inbox'[n] = Execute(g)
        /\ \A i \in DOMAIN inbox : i \in DOMAIN inbox' /\ inbox'[i] = inbox[i]
        /\ \A i \in DOMAIN inbox' : i = n \/ i \in DOMAIN inbox
  <2>1. Len(inbox) + 1 \notin DOMAIN inbox
    BY DEF TypeInv, TypeOK
  <2> QED
    BY <1>1, <2>1, InboxSend
<1>3. inbox'[n].type = "execute" /\ inbox'[n].guid = g
  BY <1>2 DEF Execute
<1>4. /\ \A b \in Caller : b # c => pc'[b] = pc[b] /\ cmd'[b] = cmd[b]
      /\ cmd'[c] \in {g, NoGuid}
      /\ pc'[c] = "transmit" => cmd'[c] = g /\ g \in resent'
      /\ resent \subseteq resent' /\ resent' \subseteq resent \cup {g}
  BY DEF Goes, AttemptFails, TypeInv, TypeOK
<1>5. g \in resent' \/ (resent' = resent /\ Unheard(g))
  BY <1>1 DEF Fresh
<1> USE DEF db, remote
<1> HIDE DEF g
<1>6. SendsFresh'
  <2>1. ASSUME NEW b \in Caller, b # c, pc[b] = "transmit"
        PROVE  Fresh(b)'
    <3>1. /\ cmd[b] \in Guid /\ cmd[b] # g /\ row[cmd[b]] = "none"
          /\ \A d \in Caller : d # b => cmd[d] # cmd[b]
          /\ cmd[b] \notin resent => Unheard(cmd[b])
      BY <2>1 DEF SentInv, SendsFresh, Fresh, TypeInv, CallersHold, g
    <3>2. cmd[b] \notin resent' => Unheard(cmd[b])'
      BY <1>2, <1>3, <1>4, <2>1, <3>1 DEF Unheard
    <3> QED
      BY <1>4, <2>1, <3>1, <3>2, DispatchConstants DEF Fresh
  <2>2. ASSUME pc'[c] = "transmit" PROVE Fresh(c)'
    BY <1>1, <1>4, <2>2 DEF Fresh, g
  <2> QED
    BY <1>4, <2>1, <2>2 DEF SendsFresh
<1>7. SentOnce'
  <2>1. ASSUME NEW i \in DOMAIN inbox', NEW j \in DOMAIN inbox',
               IsExecute(i)', IsExecute(j)', inbox'[i].guid = inbox'[j].guid,
               inbox'[i].guid \notin resent'
        PROVE  i = j
    BY <1>2, <1>3, <1>4, <1>5, <2>1 DEF SentInv, SentOnce, Unheard, IsExecute
  <2>2. ASSUME NEW i \in DOMAIN inbox', IsExecute(i)', inbox'[i].guid \notin resent',
               NEW d \in Delivery, d[1] = inbox'[i].guid
        PROVE  phase'[d] = "new"
    BY <1>2, <1>3, <1>4, <1>5, <2>2 DEF SentInv, SentOnce, Unheard, IsExecute
  <2> QED
    BY <1>4, <2>1, <2>2 DEF SentInv, SentOnce
<1>8. InterruptNoted'
  BY <1>2, <1>3 DEF SentInv, InterruptNoted, IsExecute
<1>9. AnsweredEnded'
  <2>1. ASSUME NEW h \in Guid, h # g PROVE UnderWay(h)' => UnderWay(h)
    BY <1>2, <2>1 DEF UnderWay, Execute
  <2>2. g \notin answered \/ g \in resent'
    BY <1>5 DEF Unheard
  <2> QED
    BY <1>4, <2>1, <2>2 DEF SentInv, AnsweredEnded
<1>10. OnlyAnswered'
  BY DEF SentInv, OnlyAnswered
<1> QED
  BY <1>6, <1>7, <1>8, <1>9, <1>10 DEF SentInv

LEMMA SentInterrupt ==
  ASSUME TypeInv, SentInv, NEW c \in Caller, InterruptProcess(c)
  PROVE  SentInv'
<1> DEFINE msg == [type |-> "interrupt", guid |-> cmd[c]]
<1>1. CASE CanFail /\ AttemptFails(c) /\ UNCHANGED <<inbox, interrupted>>
  BY <1>1, FailureFrame DEF InterruptProcess, db, net
<1>2. CASE Send(msg) /\ interrupted' = interrupted \cup ({cmd[c]} \cap Guid)
           /\ (Goes(c, "idle", NoGuid) \/ AttemptFails(c))
  <2>1. /\ msg \in CallMsg /\ cmd[c] \in Guid \cup {NoGuid} /\ pc[c] = "interrupt"
        /\ UNCHANGED <<row, last, launched, reports, phase, answered, resent>>
    BY DEF InterruptProcess, TypeInv, TypeOK, CallMsg, remote, history
  <2>2. PICK n \in DOMAIN inbox' :
          /\ n \notin DOMAIN inbox /\ inbox'[n] = msg
          /\ \A i \in DOMAIN inbox : i \in DOMAIN inbox' /\ inbox'[i] = inbox[i]
          /\ \A i \in DOMAIN inbox' : i = n \/ i \in DOMAIN inbox
    <3>1. Len(inbox) + 1 \notin DOMAIN inbox
      BY DEF TypeInv, TypeOK
    <3> QED
      BY <1>2, <2>1, <3>1, InboxSend
  <2>3. inbox'[n].type # "execute" /\ inbox'[n].guid = cmd[c]
    BY <2>2
  <2>4. /\ \A b \in Caller : b # c => pc'[b] = pc[b] /\ cmd'[b] = cmd[b]
        /\ pc'[c] # "transmit" /\ cmd'[c] \in {cmd[c], NoGuid}
    BY <1>2, <2>1 DEF Goes, AttemptFails, TypeInv, TypeOK
  <2>5. SendsFresh'
    <3>1. ASSUME NEW b \in Caller, b # c, pc[b] = "transmit" PROVE Fresh(b)'
      <4>1. Fresh(b) /\ cmd[b] \in Guid
        BY <3>1 DEF SentInv, SendsFresh, TypeInv, CallersHold
      <4>2. Unheard(cmd[b]) => Unheard(cmd[b])'
        BY <2>1, <2>2, <2>3, <2>4, <3>1, <4>1 DEF Unheard, Fresh
      <4> QED
        BY <2>1, <2>4, <3>1, <4>1, <4>2, DispatchConstants DEF Fresh
    <3> QED
      BY <2>4, <3>1 DEF SendsFresh
  <2>6. SentOnce' /\ OnlyAnswered'
    BY <1>2, <2>1, <2>2, <2>3 DEF SentInv, SentOnce, OnlyAnswered, IsExecute
  <2>7. InterruptNoted'
    BY <1>2, <2>1, <2>2, <2>3 DEF SentInv, InterruptNoted, IsExecute
  <2>8. AnsweredEnded'
    <3>1. ASSUME NEW h \in Guid PROVE UnderWay(h)' => UnderWay(h)
      BY <2>1, <2>2 DEF UnderWay
    <3> QED
      BY <1>2, <2>1, <3>1 DEF SentInv, AnsweredEnded
  <2> QED
    BY <2>5, <2>6, <2>7, <2>8 DEF SentInv
<1> QED
  BY <1>1, <1>2 DEF InterruptProcess

LEMMA SentCallerStep ==
  ASSUME TypeInv, SentInv, NEW c \in Caller, CallerStep(c)
  PROVE  SentInv'
<1>1. CASE CommandExecute(c)
  <2>1. CASE CanFail /\ AttemptFails(c) /\ UNCHANGED <<inbox, resent>>
    BY <1>1, <2>1, FailureFrame DEF CommandExecute, net, history
  <2>2. \/ CanFail /\ AttemptFails(c) /\ UNCHANGED <<inbox, resent>>
        \/ Send(Execute(cmd[c])) /\ Goes(c, "record", cmd[c]) /\ resent' = resent
        \/ Send(Execute(cmd[c])) /\ AttemptFails(c) /\ resent' = resent \cup {cmd[c]}
    BY <1>1 DEF CommandExecute, Execute
  <2> QED
    BY <1>1, <2>1, <2>2, SentExecute DEF CommandExecute
<1>2. CASE SetCommandReport(c)
  <2>1. /\ cmd[c] \in Guid /\ Goes(c, "idle", NoGuid)
        /\ UNCHANGED <<interrupted, inbox, reports, phase, answered, resent>>
        /\ row' = [row EXCEPT ![cmd[c]] = "open"]
    BY <1>2 DEF SetCommandReport, TypeInv, CallersHold, net, remote, history
  <2>2. SendsFresh'
    <3>1. ASSUME NEW b \in Caller, b # c, pc[b] = "transmit"
          PROVE  /\ cmd[b] # NoGuid /\ row'[cmd[b]] = "none"
                 /\ cmd[b] \notin resent => \A i \in DOMAIN inbox : inbox[i].guid # cmd[b]
      BY <2>1, <3>1, DispatchConstants
         DEF SentInv, SendsFresh, Fresh, Unheard, TypeInv, TypeOK, CallersHold
    <3> QED
      BY <2>1, <3>1, FreshFrame DEF SentInv
  <2>3. OnlyAnswered'
    BY <2>1 DEF SentInv, OnlyAnswered, TypeInv, TypeOK
  <2> QED
    BY <2>1, <2>2, <2>3 DEF SentInv, SentOnce, InterruptNoted, AnsweredEnded,
                            UnderWay, IsExecute
<1>3. CASE PrepareInterrupt(c)
  <2>1. laneOf[cmd[c]] \in Lane
    BY <1>3, DispatchConstants DEF PrepareInterrupt, TypeInv, CallersHold
  <2>2. \A l \in Lane : Unfinished(l) => last[l] \in Guid /\ row[last[l]] # "none"
    BY DEF Unfinished, TypeInv, TypeOK
  <2> QED
    BY <1>3, <2>1, <2>2, CallerFrame DEF PrepareInterrupt
<1>4. CASE InterruptProcess(c)
  BY <1>4, SentInterrupt
<1>5. CASE RecordFails(c) \/ SleepEnds(c) \/ CheckAnswered(c) \/ CheckFails(c)
  BY <1>5, CallerFrame, FailureFrame DEF RecordFails, SleepEnds, CheckAnswered, CheckFails
<1> QED
  BY <1>1, <1>2, <1>3, <1>4, <1>5 DEF CallerStep

LEMMA SentHandleReport ==
  ASSUME TypeInv, SentInv, HandleReport \/ LoseReport \/ StopCentral PROVE SentInv'
<1>1. ASSUME UNCHANGED <<interrupted, inbox, phase, answered, pc, cmd, resent>>,
             \A g \in Guid : row'[g] = row[g]
               \/ (row[g] # "none" /\ g \in answered),
             reports' \subseteq reports
      PROVE  SentInv'
  <2>1. SendsFresh'
    BY <1>1 DEF SentInv, SendsFresh, Fresh, Unheard, TypeInv, CallersHold
  <2> QED
    BY <1>1, <2>1 DEF SentInv, SentOnce, InterruptNoted, AnsweredEnded, OnlyAnswered,
                      UnderWay, IsExecute
<1> USE DEF db, callers, net, remote, history
<1>2. ASSUME NEW g \in Guid, SetLaunchReport(g) PROVE SentInv'
  BY <1>1, <1>2 DEF SetLaunchReport
<1>3. ASSUME NEW g \in Guid, SetReport(g) PROVE SentInv'
  <2>1. g \in answered
    BY <1>3 DEF SetReport, SentInv, OnlyAnswered
  <2> QED
    BY <1>1, <1>3, <2>1 DEF SetReport, TypeInv, TypeOK
<1>4. CASE IgnoreReport \/ LoseReport
  BY <1>1, <1>4 DEF IgnoreReport, LoseReport
<1>5. CASE StopCentral
  BY <1>5 DEF StopCentral, SentInv, SendsFresh, SentOnce, InterruptNoted,
              AnsweredEnded, OnlyAnswered, UnderWay, IsExecute
<1> QED
  BY <1>2, <1>3, <1>4, <1>5 DEF HandleReport

\* The first call leaves the inbox.
LEMMA SentTakes ==
  ASSUME TypeInv, SentInv, NEW type, Takes(type)
  PROVE  /\ \A i \in DOMAIN inbox' : \E k \in DOMAIN inbox :
              k # 1 /\ inbox'[i] = inbox[k]
         /\ \A i, j \in DOMAIN inbox' : \E k, m \in DOMAIN inbox :
              inbox'[i] = inbox[k] /\ inbox'[j] = inbox[m] /\ (k = m => i = j)
         /\ UNCHANGED <<row, interrupted, pc, cmd, resent>>
         /\ Head(inbox) = inbox[1] /\ 1 \in DOMAIN inbox
         /\ Head(inbox).guid \in Guid \cup {NoGuid}
         /\ type = "execute" => IsExecute(1) /\ Head(inbox).guid \in Guid
         /\ type = "interrupt" => ~IsExecute(1)
<1>1. /\ 1 \in DOMAIN inbox /\ inbox[1] = Head(inbox)
      /\ Head(inbox) \in CallMsg /\ Head(inbox).type = type
      /\ \A i \in DOMAIN inbox' :
           i \in Nat /\ i + 1 \in DOMAIN inbox /\ i + 1 # 1 /\ inbox'[i] = inbox[i + 1]
  BY InboxTakes
<1>2. /\ Head(inbox).guid \in Guid \cup {NoGuid}
      /\ Head(inbox).type = "execute" => Head(inbox).guid \in Guid
  BY <1>1 DEF CallMsg
<1>3. \A i, j \in DOMAIN inbox' : i + 1 = j + 1 => i = j
  BY <1>1
<1> QED
  BY <1>1, <1>2, <1>3 DEF IsExecute, Takes, db, callers, history

\* What a call less under way leaves true.
LEMMA SentTakesFrame ==
  ASSUME TypeInv, SentInv, NEW type, Takes(type)
  PROVE  /\ SentOnce /\ UNCHANGED phase => SentOnce'
         /\ InterruptNoted'
         /\ \A h \in Guid : UnderWay(h)' =>
              \/ \E d \in Delivery : d[1] = h /\ phase'[d] \in {"waiting", "running"}
              \/ \E k \in DOMAIN inbox : k # 1 /\ IsExecute(k) /\ inbox[k].guid = h
<1>1. SentOnce /\ UNCHANGED phase => SentOnce'
  BY SentTakes DEF SentOnce, IsExecute
<1>2. InterruptNoted'
  BY SentTakes DEF SentInv, InterruptNoted, IsExecute
<1>3. ASSUME NEW h \in Guid, NEW i \in DOMAIN inbox', inbox'[i] = Execute(h)
      PROVE  \E k \in DOMAIN inbox : k # 1 /\ IsExecute(k) /\ inbox[k].guid = h
  BY <1>3, SentTakes DEF IsExecute, Execute
<1> QED
  BY <1>1, <1>2, <1>3 DEF UnderWay, Execute

LEMMA SentAccept == ASSUME TypeInv, SentInv, RemoteAccept PROVE SentInv'
<1> DEFINE g == Head(inbox).guid
<1>1. Takes("execute") /\ UNCHANGED <<reports, answered>>
  BY DEF RemoteAccept, Remote!Accept
<1>2. PICK n \in 1..Attempts : phase' = [phase EXCEPT ![<<g, n>>] = "waiting"]
  BY DEF RemoteAccept, Remote!Accept, Remote!Moves
<1>3. /\ g \in Guid /\ 1 \in DOMAIN inbox /\ IsExecute(1) /\ inbox[1].guid = g
      /\ UNCHANGED <<row, interrupted, pc, cmd, resent>>
  BY <1>1, SentTakes
<1>4. <<g, n>> \in Delivery /\ <<g, n>>[1] = g
  BY <1>3 DEF Delivery
<1>5. g \notin resent =>
        /\ \A d \in Delivery : d[1] = g => phase[d] = "new"
        /\ \A k \in DOMAIN inbox : k # 1 /\ IsExecute(k) => inbox[k].guid # g
  BY <1>3 DEF SentInv, SentOnce
<1>6. \A d \in Delivery : d # <<g, n>> => phase'[d] = phase[d]
  BY <1>2, <1>4 DEF TypeInv, TypeOK
<1> HIDE DEF g
<1>7. SendsFresh'
  <2>1. ASSUME NEW c \in Caller, pc[c] = "transmit", cmd[c] \notin resent
        PROVE  cmd[c] # g
    BY <1>3, <2>1 DEF SentInv, SendsFresh, Fresh, Unheard
  <2> QED
    BY <1>1, <1>3, <1>4, <1>6, <2>1, SentTakes DEF SentInv, SendsFresh, Fresh, Unheard
<1>8. SentOnce'
  <2>1. ASSUME NEW i \in DOMAIN inbox', NEW j \in DOMAIN inbox',
               IsExecute(i)', IsExecute(j)', inbox'[i].guid = inbox'[j].guid,
               inbox'[i].guid \notin resent
        PROVE  i = j
    BY <1>1, <2>1, SentTakes DEF SentInv, SentOnce, IsExecute
  <2>2. ASSUME NEW i \in DOMAIN inbox', IsExecute(i)', NEW d \in Delivery,
               d[1] = inbox'[i].guid, d[1] \notin resent
        PROVE  phase'[d] = "new"
    <3>1. PICK k \in DOMAIN inbox : k # 1 /\ inbox'[i] = inbox[k]
      BY <1>1, SentTakes
    <3>2. IsExecute(k) /\ d[1] = inbox[k].guid /\ d[1] # g
      BY <1>5, <2>2, <3>1 DEF IsExecute
    <3> QED
      BY <1>4, <1>6, <2>2, <3>2 DEF SentInv, SentOnce
  <2>3. ASSUME NEW d \in Delivery, NEW e \in Delivery, d[1] = e[1],
               phase'[d] # "new", phase'[e] # "new", d[1] \notin resent
        PROVE  d = e
    BY <1>4, <1>5, <1>6, <2>3 DEF SentInv, SentOnce
  <2> QED
    BY <1>3, <2>1, <2>2, <2>3 DEF SentOnce
<1>9. AnsweredEnded'
  <2>1. ASSUME NEW h \in Guid, UnderWay(h)' PROVE UnderWay(h)
    BY <1>1, <1>3, <1>4, <1>6, <2>1, SentTakesFrame, UnderWayIff
  <2> QED
    BY <1>1, <1>3, <2>1 DEF SentInv, AnsweredEnded
<1> QED
  BY <1>1, <1>3, <1>7, <1>8, <1>9, SentTakesFrame DEF SentInv, OnlyAnswered

LEMMA SentAnswers == ASSUME TypeInv, SentInv, RemoteAnswers PROVE SentInv'
<1>1. PICK type \in {"execute", "interrupt"} : Takes(type)
  BY DEF RemoteAnswers
<1>0. PICK g \in Guid \cup {NoGuid} : g = Head(inbox).guid
  BY <1>1, SentTakes
<1>2. /\ phase' = phase
      /\ \/ answered' = answered \cup {g} /\ Reports("operation", g)
         \/ UNCHANGED <<answered, reports>>
  BY <1>0 DEF RemoteAnswers, Remote!Interrupt, remote
<1>3. /\ g \in Guid \cup {NoGuid} /\ 1 \in DOMAIN inbox /\ inbox[1].guid = g
      /\ UNCHANGED <<row, interrupted, pc, cmd, resent>>
      /\ type = "interrupt" => ~IsExecute(1)
      /\ type = "execute" => IsExecute(1)
  BY <1>0, <1>1, SentTakes
<1>4. SendsFresh'
  <2>1. ASSUME NEW c \in Caller, pc[c] = "transmit", cmd[c] \notin resent
        PROVE  cmd[c] # g
    BY <1>3, <2>1 DEF SentInv, SendsFresh, Fresh, Unheard
  <2> QED
    BY <1>1, <1>2, <1>3, <2>1, SentTakes DEF SentInv, SendsFresh, Fresh, Unheard
<1>5. SentOnce' /\ InterruptNoted'
  BY <1>1, <1>2, SentTakesFrame DEF SentInv
<1>6. AnsweredEnded'
  <2>1. ASSUME NEW h \in Guid, UnderWay(h)' PROVE UnderWay(h)
    BY <1>1, <1>2, <2>1, SentTakesFrame, UnderWayIff
  \* A refused command is neither taken in nor called for again.
  <2>2. g \in Guid => ~UnderWay(g)' \/ g \in interrupted \cup resent
    <3>1. CASE IsExecute(1) /\ g \notin resent
      <4>1. /\ \A d \in Delivery : d[1] = g => phase[d] = "new"
            /\ \A k \in DOMAIN inbox : k # 1 /\ IsExecute(k) => inbox[k].guid # g
        BY <1>3, <3>1 DEF SentInv, SentOnce
      <4> QED
        BY <1>1, <1>2, <4>1, SentTakesFrame
    <3>2. CASE ~IsExecute(1)
      BY <1>3, <3>2, DispatchConstants DEF SentInv, InterruptNoted
    <3> QED
      BY <3>1, <3>2
  <2> QED
    BY <1>2, <1>3, <2>1, <2>2 DEF SentInv, AnsweredEnded
<1>7. OnlyAnswered'
  BY <1>2, <1>3 DEF SentInv, OnlyAnswered, Reports
<1> QED
  BY <1>4, <1>5, <1>6, <1>7 DEF SentInv

\* A delivery that was taken in moves on, or all that wait or run are lost.
LEMMA SentDelivery ==
  ASSUME TypeInv, SentInv, UNCHANGED <<db, callers, inbox, history>>,
         \A d \in Delivery : phase[d] = "new" <=> phase'[d] = "new",
         \A d \in Delivery : phase'[d] \in {"waiting", "running"}
           => phase[d] \in {"waiting", "running"},
         NEW G \in SUBSET Guid, answered' = answered \cup G,
         \A g \in G : /\ ~UnderWay(g)' \/ g \in resent
                      /\ \E d \in Delivery : d[1] = g /\ phase[d] # "new",
         \A g \in Guid : [type |-> "operation", guid |-> g] \in reports' \ reports
           => g \in answered'
  PROVE  SentInv'
<1> USE DEF db, callers, history
<1>1. SendsFresh'
  BY DEF TypeInv, CallersHold, SentInv, SendsFresh, Fresh, Unheard
<1>2. SentOnce' /\ InterruptNoted' /\ OnlyAnswered'
  BY DEF SentInv, SentOnce, InterruptNoted, OnlyAnswered, IsExecute
<1>3. \A h \in Guid : UnderWay(h)' => UnderWay(h)
  BY DEF UnderWay
<1>4. AnsweredEnded'
  BY <1>3 DEF SentInv, AnsweredEnded
<1> QED
  BY <1>1, <1>2, <1>4 DEF SentInv

LEMMA SentRemote ==
  ASSUME TypeInv, SentInv,
         \/ RemoteStep \/ StopRemote
         \/ \E d \in Delivery :
              RemoteStart(d) \/ RemoteLaunch(d) \/ RemoteEnd(d) \/ RemoteForget(d)
  PROVE  SentInv'
<1>1. CASE RemoteStep
  BY <1>1, SentAccept, SentAnswers DEF RemoteStep
<1> USE DEF TypeInv, TypeOK, Remote!Moves, remote
\* Deliveries that move on without an answer.
<1>2. ASSUME UNCHANGED <<db, callers, inbox, answered, history>>,
             \A d \in Delivery : phase[d] = "new" <=> phase'[d] = "new",
             \A d \in Delivery : phase'[d] \in {"waiting", "running"}
               => phase[d] \in {"waiting", "running"},
             \A g \in Guid : [type |-> "operation", guid |-> g] \in reports'
               => [type |-> "operation", guid |-> g] \in reports
      PROVE  SentInv'
  <2>1. {} \in SUBSET Guid /\ answered' = answered \cup {}
    BY <1>2
  <2> QED
    BY <1>2, <2>1, SentDelivery
<1>3. CASE StopRemote
  BY <1>3, <1>2 DEF StopRemote, Remote!Restart
<1>4. ASSUME NEW d \in Delivery,
             RemoteStart(d) \/ RemoteLaunch(d) \/ RemoteForget(d)
      PROVE  SentInv'
  <2>1. /\ UNCHANGED <<db, callers, inbox, answered, history>>
        /\ \A g \in Guid : [type |-> "operation", guid |-> g] \in reports'
             => [type |-> "operation", guid |-> g] \in reports
        /\ \/ phase' = [phase EXCEPT ![d] = "running"] /\ phase[d] = "waiting"
           \/ phase' = [phase EXCEPT ![d] = "lost"] /\ phase[d] = "waiting"
           \/ phase' = phase
    BY <1>4 DEF RemoteStart, RemoteLaunch, RemoteForget, Remote!Start, Remote!Forget,
                Reports
  <2> QED
    BY <2>1, <1>2
<1>5. ASSUME NEW d \in Delivery, RemoteEnd(d) PROVE SentInv'
  <2>1. /\ UNCHANGED <<db, callers, inbox, history>> /\ answered' = answered \cup {d[1]}
        /\ phase[d] = "running" /\ phase' = [phase EXCEPT ![d] = "over"]
        /\ reports' = reports \cup {[type |-> "operation", guid |-> d[1]]}
    BY <1>5 DEF RemoteEnd, Remote!End, Reports
  <2>2. d[1] \in Guid
    BY DEF Delivery
  \* The delivery that ends was the only one of its command, if not repeated.
  <2>3. ASSUME d[1] \notin resent PROVE ~UnderWay(d[1])'
    <3>1. \A e \in Delivery : e[1] = d[1] => phase'[e] \notin {"waiting", "running"}
      BY <2>1, <2>3 DEF SentInv, SentOnce
    <3>2. \A i \in DOMAIN inbox : IsExecute(i) => inbox[i].guid # d[1]
      BY <2>1, <2>3 DEF SentInv, SentOnce
    <3>3. \A i \in DOMAIN inbox : inbox[i] # Execute(d[1])
      BY <3>2 DEF IsExecute, Execute
    <3> QED
      BY <2>1, <3>1, <3>3 DEF UnderWay, Execute
  <2>4. /\ \A e \in Delivery : phase[e] = "new" <=> phase'[e] = "new"
        /\ \A e \in Delivery : phase'[e] \in {"waiting", "running"}
             => phase[e] \in {"waiting", "running"}
        /\ \A g \in Guid : [type |-> "operation", guid |-> g] \in reports' \ reports
             => g \in answered'
    BY <2>1
  <2>5. {d[1]} \in SUBSET Guid
        /\ \A g \in {d[1]} : /\ ~UnderWay(g)' \/ g \in resent
                             /\ \E e \in Delivery : e[1] = g /\ phase[e] # "new"
    BY <2>1, <2>2, <2>3
  <2> QED
    BY <2>1, <2>4, <2>5, SentDelivery
<1> QED
  BY <1>1, <1>3, <1>4, <1>5

LEMMA SentInit == Init => SentInv
BY DEF Init, Remote!Init, SentInv, SendsFresh, SentOnce, InterruptNoted,
       AnsweredEnded, OnlyAnswered

LEMMA SentStep == TypeInv /\ SentInv /\ [Next]_vars => SentInv'
<1>1. SentInv /\ UNCHANGED vars => SentInv'
  BY DEF vars, db, callers, net, remote, history, SentInv, SendsFresh, Fresh, Unheard,
         SentOnce, InterruptNoted, AnsweredEnded, OnlyAnswered, UnderWay, IsExecute
<1> QED
  BY <1>1, SentCallerStarts, SentCallerStep, SentHandleReport, SentRemote DEF Next

LEMMA SentInvariant == Spec => []SentInv
BY SentInit, SentStep, TypeInvariant, PTL DEF Spec

\* Whatever calls fail or are repeated, reports are lost or overtake one another,
\* rows are not written and services restart: a row is completed only when its
\* task has ended or will not run, after an interrupt, or when its call was
\* repeated although it had arrived, so that the task runs twice
\* (RemoteServicesManager.cs:145, RemoteServiceProxy.cs:60-75, DataHandler.cs:60).
THEOREM NoEarlyCompletion == Spec => []CompleteMeansEnded
<1>1. SentInv => CompleteMeansEnded
  BY DEF SentInv, OnlyAnswered, AnsweredEnded, CompleteMeansEnded
<1> QED
  BY <1>1, SentInvariant, PTL
-----------------------------------------------------------------------------
(***************************************************************************)
(* One command of a lane at a time, of those that have a row.  Between the *)
(* test of the lane's last row and the new row only another caller can     *)
(* come, and then both commands are raced; so the last row of a lane is    *)
(* that of the command under way, and unfinished.                          *)
(***************************************************************************)
Excused(g) == g \in interrupted \cup resent \cup raced

\* Two callers that send to one lane have raced.
RacedNoted ==
  \A c, d \in Caller :
    Sends(c) /\ Sends(d) /\ c # d /\ laneOf[cmd[c]] = laneOf[cmd[d]] => cmd[c] \in raced

\* While a caller sends, any other recorded command of the lane that is under
\* way is excused.
SenderAlone ==
  \A c \in Caller : Sends(c) =>
    \A g \in Guid :
      laneOf[g] = laneOf[cmd[c]] /\ g # cmd[c] /\ UnderWay(g) /\ row[g] # "none"
        => Excused(g)

\* A recorded command under way is the lane's last row, unfinished.
Recorded ==
  \A g \in Guid : UnderWay(g) /\ row[g] # "none" /\ ~Excused(g) =>
    row[g] = "open" /\ last[laneOf[g]] = g

LaneInv == RacedNoted /\ SenderAlone /\ Recorded

\* Steps that prepare and record nothing.
LEMMA LaneFrame ==
  ASSUME LaneInv, UNCHANGED <<row, last>>, \A g \in Guid : Excused(g) => Excused(g)',
         raced \subseteq raced',
         \A g \in Guid : UnderWay(g)' /\ row[g] # "none" => UnderWay(g),
         \A c \in Caller : Sends(c)' => Sends(c) /\ cmd'[c] = cmd[c]
  PROVE  LaneInv'
<1>1. RacedNoted'
  BY DEF LaneInv, RacedNoted
<1>2. SenderAlone'
  BY DEF LaneInv, SenderAlone
<1>3. Recorded'
  BY DEF LaneInv, Recorded
<1> QED
  BY <1>1, <1>2, <1>3 DEF LaneInv

\* A caller moves on, sends, gives up, or asks again.
LEMMA LaneCaller ==
  ASSUME TypeInv, LaneInv, NEW c \in Caller,
         \/ AttemptFails(c)
         \/ \E s, g : Goes(c, s, g) /\ s \notin {"transmit", "record"}
         \/ Goes(c, "record", cmd[c]) /\ Sends(c),
         UNCHANGED <<row, last>>, \A g \in Guid : Excused(g) => Excused(g)',
         raced \subseteq raced',
         \A g \in Guid : UnderWay(g)' /\ row[g] # "none" => UnderWay(g)
  PROVE  LaneInv'
<1>1. \/ UNCHANGED <<pc, cmd>>
      \/ \E s, g : Goes(c, s, g) /\ s \notin {"transmit", "record"}
      \/ Goes(c, "record", cmd[c]) /\ Sends(c)
  BY DEF AttemptFails
<1>2. \A b \in Caller : Sends(b)' => Sends(b) /\ cmd'[b] = cmd[b]
  BY <1>1 DEF Goes, Sends, TypeInv, TypeOK
<1> QED
  BY <1>2, LaneFrame

LEMMA LaneCallerStarts ==
  ASSUME TypeInv, LaneInv, NEW c \in Caller, CallerStarts(c)
  PROVE  LaneInv'
<1>1. UNCHANGED <<db, net, resent>>
  BY DEF CallerStarts, PrepareCommand, InterruptCommand, CheckProcess, history
<1>2. \A h \in Guid : UnderWay(h)' <=> UnderWay(h)
  BY <1>1 DEF UnderWay, net, remote
<1>3. ASSUME NEW g \in Guid, PrepareCommand(c, g) PROVE LaneInv'
  <2>1. pc[c] = "idle" /\ ~Unfinished(laneOf[g]) /\ Goes(c, "transmit", g) /\ Races(g)
    BY <1>3 DEF PrepareCommand
  <2>2. /\ pc'[c] = "transmit" /\ cmd'[c] = g
        /\ \A b \in Caller : b # c => pc'[b] = pc[b] /\ cmd'[b] = cmd[b]
        /\ \A b \in Caller : b # c /\ Sends(b)' => Sends(b)
    BY <2>1 DEF Goes, Sends, TypeInv, TypeOK
  <2>3. raced \subseteq raced' /\ \A h \in Guid : Excused(h) => Excused(h)'
    BY <1>1, <2>1 DEF Races, Excused, db
  <2>4. ASSUME NEW b \in Caller, b # c, Sends(b), laneOf[cmd[b]] = laneOf[g]
        PROVE  cmd[b] \in raced' /\ g \in raced'
    <3>1. cmd[b] \in Sending(laneOf[g])
      BY <2>4 DEF Sending, Sends, TypeInv, CallersHold
    <3> QED
      BY <2>1, <3>1 DEF Races
  <2>5. RacedNoted'
    BY <2>2, <2>3, <2>4 DEF LaneInv, RacedNoted
  <2>6. Recorded'
    BY <1>1, <1>2, <2>3 DEF LaneInv, Recorded, db
  <2>7. ASSUME NEW h \in Guid, laneOf[h] = laneOf[g], UnderWay(h), row[h] # "none"
        PROVE  Excused(h)
    <3>1. ~(row[h] = "open" /\ last[laneOf[h]] = h)
      BY <2>1, <2>7, DispatchConstants DEF Unfinished
    <3> QED
      BY <2>7, <3>1 DEF LaneInv, Recorded
  <2>8. SenderAlone'
    BY <1>1, <1>2, <2>2, <2>3, <2>7 DEF LaneInv, SenderAlone, db
  <2> QED
    BY <2>5, <2>6, <2>8 DEF LaneInv
<1>4. ASSUME NEW l \in Lane, NEW s \in {"prepare", "sleep"},
             Goes(c, s, last[l]), UNCHANGED history
      PROVE  LaneInv'
  BY <1>1, <1>2, <1>4, LaneCaller DEF db, history, Excused
<1> QED
  BY <1>3, <1>4 DEF CallerStarts, InterruptCommand, CheckProcess

LEMMA LaneCallerStep ==
  ASSUME TypeInv, SentInv, LaneInv, NEW c \in Caller, CallerStep(c)
  PROVE  LaneInv'
<1> USE DEF db, net, remote, history
<1>1. CASE CommandExecute(c)
  <2>1. /\ UNCHANGED <<row, last, interrupted, raced, phase>> /\ resent \subseteq resent'
        /\ Sends(c)
        /\ AttemptFails(c) \/ Goes(c, "record", cmd[c])
    BY <1>1 DEF CommandExecute, Sends
  <2>2. Send(Execute(cmd[c])) \/ inbox' = inbox
    BY <1>1 DEF CommandExecute, Execute
  <2>3. Execute(cmd[c]) \in CallMsg /\ cmd[c] \in Guid /\ row[cmd[c]] = "none"
    BY <1>1 DEF CommandExecute, TypeInv, CallersHold, CallMsg, Execute, SentInv,
                SendsFresh, Fresh
  <2>4. \A h \in Guid : UnderWay(h)' => UnderWay(h) \/ h = cmd[c]
    BY <2>1, <2>2, <2>3, InboxSend DEF UnderWay, Execute
  <2>5. \A h \in Guid : Excused(h) => Excused(h)'
    BY <2>1 DEF Excused
  <2>6. \A h \in Guid : UnderWay(h)' /\ row[h] # "none" => UnderWay(h)
    BY <2>3, <2>4
  <2> QED
    BY <2>1, <2>5, <2>6, LaneCaller
<1>2. CASE SetCommandReport(c)
  <2>1. PICK g \in Guid : g = cmd[c]
    BY <1>2 DEF SetCommandReport, TypeInv, CallersHold
  <2>2. /\ row'[g] = "open" /\ last'[laneOf[g]] = g
        /\ \A h \in Guid : h # g => row'[h] = row[h]
        /\ \A l \in Lane : l # laneOf[g] => last'[l] = last[l]
    BY <1>2, <2>1, DispatchConstants DEF SetCommandReport, TypeInv, TypeOK
  <2>3. /\ Sends(c) /\ UNCHANGED <<interrupted, resent, raced>>
        /\ \A b \in Caller : Sends(b)' => b # c /\ Sends(b) /\ cmd'[b] = cmd[b]
    BY <1>2 DEF SetCommandReport, Goes, Sends, TypeInv, TypeOK
  <2>4. /\ \A h \in Guid : UnderWay(h)' <=> UnderWay(h)
        /\ \A h \in Guid : Excused(h)' <=> Excused(h)
    BY <1>2, <2>3 DEF SetCommandReport, UnderWay, Excused
  <2>5. RacedNoted'
    BY <2>3 DEF LaneInv, RacedNoted
  <2>6. SenderAlone'
    <3>1. ASSUME NEW b \in Caller, Sends(b)', laneOf[cmd[b]] = laneOf[g]
          PROVE  Excused(g)
      BY <2>1, <2>3, <3>1 DEF LaneInv, RacedNoted, Excused
    <3> QED
      BY <2>2, <2>3, <2>4, <3>1 DEF LaneInv, SenderAlone
  <2>7. ASSUME NEW h \in Guid, h # g, UnderWay(h), row[h] # "none", ~Excused(h)
        PROVE  row'[h] = "open" /\ last'[laneOf[h]] = h
    <3>1. laneOf[h] # laneOf[g]
      BY <2>1, <2>3, <2>7 DEF LaneInv, SenderAlone
    <3> QED
      BY <2>2, <2>7, <3>1, DispatchConstants DEF LaneInv, Recorded
  <2>8. Recorded'
    BY <2>2, <2>4, <2>7 DEF Recorded
  <2> QED
    BY <2>5, <2>6, <2>8 DEF LaneInv
<1>3. CASE \/ RecordFails(c) \/ PrepareInterrupt(c)
           \/ SleepEnds(c) \/ CheckAnswered(c) \/ CheckFails(c)
  <2> USE DEF RecordFails, PrepareInterrupt, SleepEnds, CheckAnswered, CheckFails
  <2>1. UNCHANGED <<db, net, history>>
    BY <1>3
  <2>2. \/ AttemptFails(c)
        \/ \E s, g : Goes(c, s, g) /\ s \notin {"transmit", "record"}
    BY <1>3
  <2>3. /\ \A h \in Guid : UnderWay(h)' => UnderWay(h)
        /\ \A h \in Guid : Excused(h) => Excused(h)'
    BY <2>1 DEF UnderWay, Excused
  <2> QED
    BY <2>1, <2>2, <2>3, LaneCaller
<1>4. CASE InterruptProcess(c)
  <2> DEFINE msg == [type |-> "interrupt", guid |-> cmd[c]]
  <2>1. /\ msg \in CallMsg /\ UNCHANGED <<row, last, phase, history>>
        /\ \A h \in Guid : Excused(h) => Excused(h)'
        /\ AttemptFails(c) \/ Goes(c, "idle", NoGuid)
    BY <1>4 DEF InterruptProcess, TypeInv, TypeOK, CallMsg, Excused
  <2>2. Send(msg) \/ inbox' = inbox
    BY <1>4 DEF InterruptProcess
  <2>3. \A h \in Guid : UnderWay(h)' => UnderWay(h)
    BY <2>1, <2>2, InboxSend DEF UnderWay
  <2> QED
    BY <2>1, <2>3, LaneCaller
<1> QED
  BY <1>1, <1>2, <1>3, <1>4 DEF CallerStep

LEMMA LaneHandleReport ==
  ASSUME TypeInv, SentInv, LaneInv, HandleReport \/ LoseReport \/ StopCentral
  PROVE  LaneInv'
<1> USE DEF db, callers, net, remote, history
<1>1. UNCHANGED <<last, interrupted, inbox, phase, resent, raced>>
  BY DEF HandleReport, LoseReport, IgnoreReport, SetLaunchReport, SetReport, StopCentral
<1>2. /\ \A h \in Guid : UnderWay(h)' <=> UnderWay(h)
      /\ \A h \in Guid : Excused(h)' <=> Excused(h)
  BY <1>1 DEF UnderWay, Excused
<1>3. \A b \in Caller : Sends(b)' => Sends(b) /\ cmd'[b] = cmd[b]
  BY DEF HandleReport, LoseReport, IgnoreReport, SetLaunchReport, SetReport, StopCentral,
         Sends
<1>4. CASE UNCHANGED row
  BY <1>1, <1>2, <1>3, <1>4, LaneFrame
<1>5. ASSUME NEW g \in Guid, SetReport(g) PROVE LaneInv'
  <2>1. /\ \A h \in Guid : h # g => row'[h] = row[h]
        /\ row'[g] = "none" <=> row[g] = "none"
    BY <1>5 DEF SetReport, TypeInv, TypeOK
  <2>2. ~UnderWay(g) \/ Excused(g)
    BY <1>5 DEF SetReport, SentInv, OnlyAnswered, AnsweredEnded, Excused
  <2>3. Recorded'
    BY <1>1, <1>2, <2>1, <2>2 DEF LaneInv, Recorded
  <2>4. SenderAlone'
    BY <1>2, <1>3, <2>1 DEF LaneInv, SenderAlone
  <2>5. RacedNoted'
    BY <1>1, <1>3 DEF LaneInv, RacedNoted
  <2> QED
    BY <2>3, <2>4, <2>5 DEF LaneInv
<1> QED
  BY <1>4, <1>5 DEF HandleReport, LoseReport, IgnoreReport, SetLaunchReport, StopCentral

LEMMA LaneRemote ==
  ASSUME TypeInv, SentInv, LaneInv,
         \/ RemoteStep \/ StopRemote
         \/ \E d \in Delivery :
              RemoteStart(d) \/ RemoteLaunch(d) \/ RemoteEnd(d) \/ RemoteForget(d)
  PROVE  LaneInv'
<1>1. UNCHANGED <<db, callers, history>>
  BY DEF RemoteStep, RemoteAccept, RemoteAnswers, Takes, StopRemote, RemoteStart,
         RemoteLaunch, RemoteEnd, RemoteForget
<1>2. ASSUME NEW h \in Guid, UnderWay(h)' PROVE UnderWay(h)
  <2> USE DEF TypeInv, TypeOK, Remote!Moves, remote
  <2>1. CASE RemoteAccept
    <3>1. Takes("execute") /\ 1 \in DOMAIN inbox /\ IsExecute(1)
          /\ inbox[1] = Head(inbox)
      BY <2>1, SentTakes DEF RemoteAccept
    <3>2. ASSUME NEW d \in Delivery, d[1] = h, phase'[d] \in {"waiting", "running"}
          PROVE  phase[d] \in {"waiting", "running"} \/ inbox[1].guid = h
      BY <2>1, <3>1, <3>2 DEF RemoteAccept, Remote!Accept
    <3> QED
      BY <1>2, <3>1, <3>2, SentTakesFrame, UnderWayIff
  <2>2. CASE RemoteAnswers
    <3>1. PICK type \in {"execute", "interrupt"} : Takes(type)
      BY <2>2 DEF RemoteAnswers
    <3>2. phase' = phase
      BY <2>2 DEF RemoteAnswers, Remote!Interrupt
    <3> QED
      BY <1>2, <3>1, <3>2, SentTakesFrame, UnderWayIff
  <2>3. CASE StopRemote \/ \E d \in Delivery :
              RemoteStart(d) \/ RemoteLaunch(d) \/ RemoteEnd(d) \/ RemoteForget(d)
    <3>1. inbox' = inbox
          /\ \A d \in Delivery : phase'[d] \in {"waiting", "running"}
               => phase[d] \in {"waiting", "running"}
      BY <2>3 DEF StopRemote, Remote!Restart, RemoteStart, Remote!Start, RemoteLaunch,
                  RemoteEnd, Remote!End, RemoteForget, Remote!Forget
    <3> QED
      BY <1>2, <3>1 DEF UnderWay
  <2> QED
    BY <2>1, <2>2, <2>3 DEF RemoteStep
<1> QED
  BY <1>1, <1>2, LaneFrame DEF Excused, db, callers, history, Sends

LEMMA LaneInit == Init => LaneInv
BY DEF Init, Remote!Init, LaneInv, RacedNoted, SenderAlone, Recorded, Sends, UnderWay

LEMMA LaneStep == TypeInv /\ SentInv /\ LaneInv /\ [Next]_vars => LaneInv'
<1>1. LaneInv /\ UNCHANGED vars => LaneInv'
  BY LaneFrame DEF vars, db, callers, net, remote, history, Sends, UnderWay, Excused
<1> QED
  BY <1>1, LaneCallerStarts, LaneCallerStep, LaneHandleReport, LaneRemote DEF Next

\* Of two commands of one lane that have rows and are both under way, one was
\* interrupted, was repeated although it had arrived, or was sent while another
\* caller sent one to the lane: nothing else breaks the rule of DataHandler.cs:60
\* and RemoteServicesManager.cs:218, whatever fails, is lost, stops or restarts.
THEOREM LaneExcludes == Spec => []RecordedExclusive
<1>1. LaneInv => RecordedExclusive
  BY DEF LaneInv, Recorded, Excused, RecordedExclusive
<1> QED
  BY <1>1, LaneInit, LaneStep, TypeInvariant, SentInvariant, PTL DEF Spec
=============================================================================
