----------------------- MODULE RemoteQueueRefinement -----------------------
(***************************************************************************)
(* RemoteQueue implements TaskService under the mapping Phase: what the    *)
(* central service relies on holds for every set of commands, pools and    *)
(* configurations.                                                         *)
(***************************************************************************)
EXTENDS RemoteQueueProofs

\* The three kinds of steps the service sees: none, one command moves on, one
\* guid is answered.
LEMMA Stutters ==
  ASSUME UNCHANGED answered, \A t \in Task : Phase(t)' = Phase(t)
  PROVE  UNCHANGED TS!vars
BY DEF TS!vars

LEMMA PhaseMoves ==
  ASSUME NEW t \in Task, NEW from, NEW to,
         Phase(t) = from, Phase(t)' = to,
         \A u \in Task \ {t} : Phase(u)' = Phase(u)
  PROVE  TS!Moves(t, from, to)
BY DEF TS!Moves

LEMMA Interrupts ==
  ASSUME NEW t \in Task, Answers(t), UNCHANGED pc
  PROVE  [TS!Next]_TS!vars
<1>1. \A u \in Task : Phase(u)' = Phase(u)
  BY DEF Phase
<1>2. TS!Interrupt(guid[t]) /\ guid[t] \in Guid
  BY <1>1, Constants DEF Answers, TS!Interrupt
<1> QED
  BY <1>2 DEF TS!Next

\* A move of one thread.
LEMMA GotoPhase ==
  ASSUME TypeInv, NEW t \in Task, NEW from, NEW to, Goto(t, from, to)
  PROVE  /\ pc[t] = from /\ pc'[t] = to
         /\ \A u \in Task \ {t} : Phase(u)' = Phase(u)
BY DEF Goto, Phase, TypeInv, TypeOK

LEMMA GotoStutters ==
  ASSUME TypeInv, NEW t \in Task, NEW from, NEW to, Goto(t, from, to),
         UNCHANGED answered,
         \/ from \in InLaunch \ Reported /\ to \in InLaunch \ Reported
         \/ from \in Reported /\ to \in Reported
  PROVE  UNCHANGED TS!vars
<1>1. /\ pc[t] = from /\ pc'[t] = to
      /\ \A u \in Task \ {t} : Phase(u)' = Phase(u)
  BY GotoPhase
<1>2. Phase(t)' = Phase(t)
  BY <1>1 DEF Phase, InLaunch, Reported
<1> QED
  BY <1>1, <1>2, Stutters

\* ChangeQueue starts a waiting command or does nothing, in the service's eyes.
LEMMA ChangeQueueRefines ==
  ASSUME TypeInv, NEW f \in [Task -> TaskPc], ChangeQueue(f), UNCHANGED answered,
         \A t \in Task : f[t] = pc[t] \/ (pc[t] = "change" /\ f[t] = "done")
  PROVE  [TS!Next]_TS!vars
<1>1. CASE pc' = f
  BY <1>1, Stutters DEF Phase, Reported
<1>2. ASSUME NEW i \in DOMAIN queue, pc' = [f EXCEPT ![queue[i]] = "prepare"]
      PROVE  [TS!Next]_TS!vars
  <2>1. PICK t \in Task : t = queue[i] /\ pc[t] = "queued"
    BY DEF TypeInv, TypeOK, QueueHoldsWaiting
  <2>2. /\ pc'[t] = "prepare"
        /\ \A u \in Task \ {t} : pc'[u] = f[u]
    BY <1>2, <2>1 DEF TypeInv, TypeOK
  <2>3. Phase(t) = "waiting" /\ Phase(t)' = "running"
    BY <2>1, <2>2 DEF Phase, Reported
  <2>4. \A u \in Task \ {t} : Phase(u)' = Phase(u)
    BY <2>2 DEF Phase, Reported
  <2>5. TS!Moves(t, "waiting", "running")
    BY <2>3, <2>4, PhaseMoves
  <2> QED
    BY <2>5 DEF TS!Start, TS!Next
<1> QED
  BY <1>1, <1>2 DEF ChangeQueue

LEMMA ChangeQueueThrowsRefines ==
  ASSUME TypeInv, ChangeQueueThrows, UNCHANGED answered
  PROVE  [TS!Next]_TS!vars
<1>1. CASE UNCHANGED pc
  BY <1>1, Stutters DEF Phase
<1>2. ASSUME NEW i \in DOMAIN queue, pc' = [pc EXCEPT ![queue[i]] = "lost"]
      PROVE  [TS!Next]_TS!vars
  <2>1. PICK t \in Task : t = queue[i] /\ pc[t] = "queued"
    BY DEF TypeInv, TypeOK, QueueHoldsWaiting
  <2>2. /\ pc'[t] = "lost"
        /\ \A u \in Task \ {t} : pc'[u] = pc[u]
    BY <1>2, <2>1 DEF TypeInv, TypeOK
  <2>3. Phase(t) = "waiting" /\ Phase(t)' = "lost"
    BY <2>1, <2>2 DEF Phase, Reported
  <2>4. \A u \in Task \ {t} : Phase(u)' = Phase(u)
    BY <2>2 DEF Phase, Reported
  <2>5. TS!Moves(t, "waiting", "lost")
    BY <2>3, <2>4, PhaseMoves
  <2> QED
    BY <2>5 DEF TS!Forget, TS!Next
<1> QED
  BY <1>1, <1>2 DEF ChangeQueueThrows

\* The end of the process loses all that wait or run.
LEMMA ExitRefines == ASSUME TypeInv, Exit PROVE [TS!Next]_TS!vars
<1>1. \A t \in Task :
        Phase(t)' = IF Phase(t) \in {"waiting", "running"} THEN "lost" ELSE Phase(t)
  BY DEF Exit, Phase, Reported
<1>2. TS!Restart
  BY <1>1 DEF Exit, TS!Restart
<1> QED
  BY <1>2 DEF TS!Next
-----------------------------------------------------------------------------
LEMMA ServiceCallRefines == ASSUME TypeInv, ServiceCall PROVE [TS!Next]_TS!vars
<1>1. ASSUME NEW c \in Answer, Configure(c) PROVE [TS!Next]_TS!vars
  BY <1>1, Stutters DEF Configure, history, Phase
<1>2. ASSUME NEW t \in Task, AddOperation(t) PROVE [TS!Next]_TS!vars
  <2>1. Goto(t, "new", "queued") /\ UNCHANGED answered
    BY <1>2 DEF AddOperation, history
  <2>2. /\ pc[t] = "new" /\ pc'[t] = "queued"
        /\ \A u \in Task \ {t} : Phase(u)' = Phase(u)
    BY <2>1, GotoPhase
  <2>3. Phase(t) = "new" /\ Phase(t)' = "waiting"
    BY <2>2 DEF Phase
  <2>4. TS!Moves(t, "new", "waiting")
    BY <2>2, <2>3, PhaseMoves
  <2> QED
    BY <2>1, <2>4 DEF TS!Accept, TS!Next
<1>3. ASSUME NEW t \in Killable, KillQueued(t) PROVE [TS!Next]_TS!vars
  BY <1>3, Constants, Interrupts DEF KillQueued
<1>4. ASSUME NEW t \in Killable, KillSearch(t) PROVE [TS!Next]_TS!vars
  BY <1>4, Stutters DEF KillSearch, history, Phase
<1> QED
  BY <1>1, <1>2, <1>3, <1>4 DEF ServiceCall

LEMMA ServiceStepRefines == ASSUME TypeInv, ServiceStep PROVE [TS!Next]_TS!vars
<1>1. CASE ServiceChangeQueue
  <2>1. UNCHANGED answered /\ (ChangeQueue(pc) \/ ChangeQueueThrows)
    BY <1>1 DEF ServiceChangeQueue
  <2>2. pc \in [Task -> TaskPc]
    BY DEF TypeInv, TypeOK
  <2> QED
    BY <2>1, <2>2, ChangeQueueRefines, ChangeQueueThrowsRefines
<1>2. ASSUME NEW t \in Task, KillInterrupt(t) PROVE [TS!Next]_TS!vars
  BY <1>2, Stutters DEF KillInterrupt, history, Phase
<1>3. CASE KillUnknown
  <2>1. PICK t \in Task : t = svcTask
    BY <1>3 DEF KillUnknown, TypeInv, KillHasTask
  <2> QED
    BY <1>3, <2>1, Interrupts DEF KillUnknown, Answers
<1>4. CASE KillScanThrows
  BY <1>4, Stutters DEF KillScanThrows, history, Phase
<1>5. CASE KillReport
  <2>1. PICK t \in Task : t = svcTask
    BY <1>5 DEF KillReport, TypeInv, KillHasTask
  <2> QED
    BY <1>5, <2>1, Interrupts DEF KillReport, Answers
<1>6. CASE KillReportThrows \/ KillRemove
  BY <1>6, Stutters DEF KillReportThrows, KillRemove, history, Phase
<1> QED
  BY <1>1, <1>2, <1>3, <1>4, <1>5, <1>6 DEF ServiceStep

LEMMA TaskStepRefines ==
  ASSUME TypeInv, NEW t \in Task, TaskStep(t) PROVE [TS!Next]_TS!vars
<1> USE GotoStutters DEF shared, history, InLaunch, Reported
<1>1. CASE Prepare(t) \/ LoopTest(t)
  BY <1>1 DEF Prepare, LoopTest
<1>2. CASE StartLaunch(t) \/ SendLaunchReport(t)
  BY <1>2 DEF StartLaunch, SendLaunchReport
<1>3. CASE EndLaunch(t) \/ Conclusion(t)
  BY <1>3 DEF EndLaunch, Conclusion
<1>4. CASE BuildReport(t) \/ ExitTest(t)
  BY <1>4 DEF BuildReport, ExitTest
<1>5. CASE SendReport(t)
  <2>1. PICK from \in {"sendFinished", "sendInterrupted"} : Goto(t, from, "exit")
    BY <1>5 DEF SendReport
  <2>2. /\ pc[t] = from /\ pc'[t] = "exit"
        /\ \A u \in Task \ {t} : Phase(u)' = Phase(u)
    BY <2>1, GotoPhase
  <2>3. Phase(t) = "running" /\ Phase(t)' = "over"
    BY <2>1, <2>2 DEF Phase
  <2>4. TS!Moves(t, "running", "over")
    BY <2>2, <2>3, PhaseMoves
  <2>5. TS!End(t)
    BY <1>5, <2>4 DEF SendReport, Answers, TS!End
  <2> QED
    BY <2>5 DEF TS!Next
<1>6. CASE RemoveTask(t)
  BY <1>6 DEF RemoveTask
<1>7. CASE TaskChangeQueue(t)
  <2> DEFINE f == [pc EXCEPT ![t] = "done"]
  <2>1. /\ f \in [Task -> TaskPc]
        /\ \A u \in Task : f[u] = pc[u] \/ (pc[u] = "change" /\ f[u] = "done")
    BY <1>7 DEF TaskChangeQueue, TaskPc, TypeInv, TypeOK
  <2>2. ChangeQueue(f) /\ UNCHANGED answered
    BY <1>7 DEF TaskChangeQueue
  <2> HIDE DEF f
  <2> QED
    BY <2>1, <2>2, ChangeQueueRefines
<1>8. CASE TaskChangeQueueThrows(t)
  BY <1>8, ExitRefines DEF TaskChangeQueueThrows
<1> QED
  BY <1>1, <1>2, <1>3, <1>4, <1>5, <1>6, <1>7, <1>8 DEF TaskStep

LEMMA RefinesInit == Init => TS!Init
BY DEF Init, TS!Init, Phase

LEMMA RefinesStep == TypeInv /\ [Next]_vars => [TS!Next]_TS!vars
<1> SUFFICES ASSUME TypeInv, [Next]_vars PROVE [TS!Next]_TS!vars
  OBVIOUS
<1>1. CASE UNCHANGED vars
  BY <1>1, Stutters DEF vars, Phase
<1>2. CASE Next
  BY <1>2, ServiceCallRefines, ServiceStepRefines, TaskStepRefines, ExitRefines
     DEF Next, Restart
<1> QED
  BY <1>1, <1>2

\* The queue, its pools, KillTask and the task threads keep the promises of
\* TaskService: a command runs once at most and has been answered when it ends
\* (QueueManager.cs:77-206).
THEOREM QueueIsTaskService == Spec => ImplementsTaskService
BY RefinesInit, RefinesStep, TypeInvariant, PTL
   DEF Spec, TS!Spec, ImplementsTaskService
=============================================================================
