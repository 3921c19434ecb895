------------------------- MODULE RemoteQueueProofs -------------------------
(***************************************************************************)
(* Proofs about RemoteQueue for every set of commands, pools and           *)
(* configurations: type correctness, no leaked slot, the pool limit.       *)
(***************************************************************************)
EXTENDS RemoteQueue, SequenceTheorems, FiniteSetTheorems, TLAPS

\* What List.Remove of the command at position i leaves of the queue.
LEMMA RemoveAtProperties ==
  ASSUME NEW S, NEW s \in Seq(S), NEW i \in DOMAIN s
  PROVE  /\ RemoveAt(s, i) \in Seq(S)
         /\ Len(RemoveAt(s, i)) = Len(s) - 1
         /\ \A j \in 1..Len(s) - 1 :
              RemoveAt(s, i)[j] = IF j < i THEN s[j] ELSE s[j + 1]
<1> DEFINE a == SubSeq(s, 1, i - 1)
           b == SubSeq(s, i + 1, Len(s))
<1>1. Len(s) \in Nat /\ i \in 1..Len(s)
  OBVIOUS
<1>2. /\ a \in Seq(S) /\ Len(a) = i - 1
      /\ \A j \in 1..i - 1 : a[j] = s[j]
  BY <1>1
<1>3. /\ b \in Seq(S) /\ Len(b) = Len(s) - i
      /\ \A j \in 1..Len(s) - i : b[j] = s[i + j]
  BY <1>1
<1> HIDE DEF a, b
<1>4. /\ a \o b \in Seq(S) /\ Len(a \o b) = Len(s) - 1
      /\ \A j \in 1..Len(s) - 1 : (a \o b)[j] = IF j < i THEN s[j] ELSE s[j + 1]
  BY <1>1, <1>2, <1>3
<1>5. RemoveAt(s, i) = a \o b
  BY DEF RemoveAt, a, b
<1> QED
  BY <1>4, <1>5

-----------------------------------------------------------------------------
(***************************************************************************)
(* Type correctness.  launches[t] is bounded because a thread is about to  *)
(* launch only below the bound; that a launched task comes from the queue, *)
(* once, needs the queue to hold waiting commands without repetition.      *)
(***************************************************************************)
LaunchBound ==
  \A t \in Task :
    pc[t] \in {"new", "queued", "prepare", "check", "start"}
      => launches[t] < MaxLaunch

QueueHoldsWaiting ==
  /\ \A i \in DOMAIN queue : pc[queue[i]] = "queued"
  /\ \A i, j \in DOMAIN queue : queue[i] = queue[j] => i = j

KillHasTask == svcPc \in {"scan", "interrupted", "reported"} => svcTask \in Task

TypeInv == TypeOK /\ LaunchBound /\ QueueHoldsWaiting /\ KillHasTask

LEMMA Constants ==
  /\ MaxLaunch \in Nat \ {0}
  /\ guid \in [Task -> Guid]
  /\ Killable \subseteq Task
  /\ IsFiniteSet(Task)
  /\ \A c \in Answer \ {NoConfig} : c.maxThreads \in Nat
BY RemoteQueueAssumption DEF RemoteQueueAssumption, Configuration

LEMMA TypeInit == Init => TypeInv
<1> SUFFICES ASSUME Init PROVE TypeInv
  OBVIOUS
<1>1. queue \in Seq(Task) /\ executing \subseteq Task
  BY DEF Init
<1>2. pc \in [Task -> TaskPc] /\ svcPc \in SvcPc
  BY DEF Init, TaskPc, SvcPc
<1>3. launches \in [Task -> 0..MaxLaunch] /\ LaunchBound
  BY Constants DEF Init, LaunchBound
<1>4. QueueHoldsWaiting /\ KillHasTask
  BY DEF Init, QueueHoldsWaiting, KillHasTask
<1> QED
  BY <1>1, <1>2, <1>3, <1>4 DEF Init, TypeInv, TypeOK

\* Taking the command at position i out of the queue, launched or lost.
LEMMA QueueRemoveAt ==
  ASSUME TypeInv, NEW i \in DOMAIN queue,
         queue' = RemoveAt(queue, i),
         \A t \in Task : pc[t] = "queued" /\ t # queue[i] => pc'[t] = "queued"
  PROVE  queue' \in Seq(Task) /\ QueueHoldsWaiting'
<1>1. queue \in Seq(Task) /\ i \in 1..Len(queue) /\ Len(queue) \in Nat
  BY DEF TypeInv, TypeOK
<1>2. /\ queue' \in Seq(Task) /\ Len(queue') = Len(queue) - 1
      /\ \A j \in 1..Len(queue) - 1 :
           queue'[j] = IF j < i THEN queue[j] ELSE queue[j + 1]
  BY <1>1, RemoveAtProperties
<1>3. DOMAIN queue' = 1..Len(queue) - 1 /\ DOMAIN queue = 1..Len(queue)
  BY <1>1, <1>2
<1> DEFINE was(j) == IF j < i THEN j ELSE j + 1
<1>4. ASSUME NEW j \in DOMAIN queue'
      PROVE  was(j) \in DOMAIN queue /\ was(j) # i /\ queue'[j] = queue[was(j)]
  BY <1>1, <1>2, <1>3
<1>5. ASSUME NEW j \in DOMAIN queue' PROVE pc'[queue'[j]] = "queued"
  <2>1. queue[was(j)] \in Task /\ pc[queue[was(j)]] = "queued"
    BY <1>1, <1>4 DEF TypeInv, QueueHoldsWaiting
  <2>2. queue[was(j)] # queue[i]
    BY <1>4 DEF TypeInv, QueueHoldsWaiting
  <2> QED
    BY <1>4, <2>1, <2>2
<1>6. ASSUME NEW j \in DOMAIN queue', NEW k \in DOMAIN queue',
             queue'[j] = queue'[k]
      PROVE  j = k
  <2>1. was(j) = was(k)
    BY <1>4, <1>6 DEF TypeInv, QueueHoldsWaiting
  <2> QED
    BY <1>1, <1>3, <2>1
<1> QED
  BY <1>2, <1>5, <1>6 DEF QueueHoldsWaiting

\* ChangeQueue, run by a thread that moves from pc to f.
LEMMA TypeChangeQueue ==
  ASSUME TypeInv, NEW f \in [Task -> TaskPc], ChangeQueue(f),
         UNCHANGED launches,
         \A t \in Task : f[t] = pc[t] \/ (pc[t] = "change" /\ f[t] = "done")
  PROVE  /\ queue' \in Seq(Task)
         /\ executing' \subseteq Task
         /\ pc' \in [Task -> TaskPc]
         /\ LaunchBound' /\ QueueHoldsWaiting'
<1> USE DEF TypeInv, TypeOK
<1>1. CASE NothingToLaunch /\ pc' = f /\ UNCHANGED <<queue, executing>>
  <2>1. LaunchBound'
    BY <1>1 DEF LaunchBound
  <2>2. QueueHoldsWaiting'
    <3>1. ASSUME NEW i \in DOMAIN queue PROVE pc'[queue[i]] = "queued"
      <4>1. queue[i] \in Task /\ pc[queue[i]] = "queued"
        BY DEF QueueHoldsWaiting
      <4> QED
        BY <1>1, <4>1
    <3> QED
      BY <1>1, <3>1 DEF QueueHoldsWaiting
  <2> QED
    BY <1>1, <2>1, <2>2
<1>2. ASSUME NEW i \in DOMAIN queue,
             queue' = RemoveAt(queue, i),
             executing' = executing \cup {queue[i]},
             pc' = [f EXCEPT ![queue[i]] = "prepare"]
      PROVE  /\ queue' \in Seq(Task)
             /\ executing' \subseteq Task
             /\ pc' \in [Task -> TaskPc]
             /\ LaunchBound' /\ QueueHoldsWaiting'
  <2>1. queue[i] \in Task /\ pc[queue[i]] = "queued"
    BY DEF QueueHoldsWaiting
  <2>2. pc' \in [Task -> TaskPc]
    BY <1>2 DEF TaskPc, InLaunch
  <2>3. LaunchBound'
    BY <1>2, <2>1 DEF LaunchBound
  <2>4. queue' \in Seq(Task) /\ QueueHoldsWaiting'
    BY <1>2, QueueRemoveAt
  <2> QED
    BY <1>2, <2>1, <2>2, <2>3, <2>4
<1> QED
  BY <1>1, <1>2 DEF ChangeQueue

\* The exception path of ChangeQueue on the service thread.
LEMMA TypeChangeQueueThrows ==
  ASSUME TypeInv, ChangeQueueThrows, UNCHANGED launches
  PROVE  /\ queue' \in Seq(Task)
         /\ pc' \in [Task -> TaskPc]
         /\ LaunchBound' /\ QueueHoldsWaiting'
<1> USE DEF TypeInv, TypeOK
<1>1. CASE UNCHANGED <<queue, pc>>
  BY <1>1 DEF LaunchBound, QueueHoldsWaiting
<1>2. ASSUME NEW i \in DOMAIN queue,
             queue' = RemoveAt(queue, i),
             pc' = [pc EXCEPT ![queue[i]] = "lost"]
      PROVE  /\ queue' \in Seq(Task)
             /\ pc' \in [Task -> TaskPc]
             /\ LaunchBound' /\ QueueHoldsWaiting'
  <2>1. pc' \in [Task -> TaskPc] /\ LaunchBound'
    BY <1>2 DEF TaskPc, LaunchBound
  <2>2. queue' \in Seq(Task) /\ QueueHoldsWaiting'
    BY <1>2, QueueRemoveAt
  <2> QED
    BY <2>1, <2>2
<1> QED
  BY <1>1, <1>2 DEF ChangeQueueThrows

\* A thread moves between points inside TaskLaunch: the queue is untouched.
LEMMA QueueGoto ==
  ASSUME TypeInv, NEW t \in Task, NEW from, NEW to, Goto(t, from, to),
         from # "queued", UNCHANGED queue
  PROVE  QueueHoldsWaiting'
<1>1. ASSUME NEW i \in DOMAIN queue PROVE pc'[queue[i]] = "queued"
  <2>1. queue[i] \in Task /\ pc[queue[i]] = "queued"
    BY DEF TypeInv, TypeOK, QueueHoldsWaiting
  <2> QED
    BY <2>1 DEF Goto, TypeInv, TypeOK
<1> QED
  BY <1>1 DEF TypeInv, QueueHoldsWaiting

\* The steps of the service thread preserve the type invariant.
LEMMA TypeServiceCall == TypeInv /\ ServiceCall => TypeInv'
<1> SUFFICES ASSUME TypeInv, ServiceCall PROVE TypeInv'
  OBVIOUS
<1> USE DEF TypeInv, TypeOK
<1>1. ASSUME NEW c \in Answer, Configure(c) PROVE TypeInv'
  BY <1>1 DEF Configure, svcVars, history, LaunchBound, QueueHoldsWaiting,
              KillHasTask
<1>2. ASSUME NEW t \in Task, AddOperation(t) PROVE TypeInv'
  <2>1. /\ queue' \in Seq(Task) /\ Len(queue) \in Nat
        /\ Len(queue') = Len(queue) + 1
        /\ \A i \in 1..Len(queue) : queue'[i] = queue[i]
        /\ queue'[Len(queue) + 1] = t
    BY <1>2, AppendProperties DEF AddOperation
  <2>2. DOMAIN queue = 1..Len(queue) /\ DOMAIN queue' = 1..Len(queue) + 1
    BY <2>1
  <2>3. pc' \in [Task -> TaskPc] /\ LaunchBound'
    BY <1>2 DEF AddOperation, Goto, TaskPc, LaunchBound
  <2>4. \A i \in DOMAIN queue : queue[i] \in Task /\ pc[queue[i]] = "queued"
    BY DEF QueueHoldsWaiting
  <2>5. pc[t] = "new" /\ pc' = [pc EXCEPT ![t] = "queued"]
    BY <1>2 DEF AddOperation, Goto
  <2>6. \A i \in DOMAIN queue' :
          \/ i \in DOMAIN queue /\ queue'[i] = queue[i] /\ queue[i] # t
          \/ i = Len(queue) + 1 /\ queue'[i] = t
    BY <2>1, <2>2, <2>4, <2>5
  <2>7. /\ \A i \in DOMAIN queue' : pc'[queue'[i]] = "queued"
        /\ \A i, j \in DOMAIN queue' : queue'[i] = queue'[j] => i = j
    BY <2>4, <2>5, <2>6 DEF QueueHoldsWaiting
  <2>8. QueueHoldsWaiting' /\ KillHasTask'
    BY <1>2, <2>7 DEF AddOperation, QueueHoldsWaiting, KillHasTask
  <2> QED
    BY <1>2, <2>1, <2>3, <2>8 DEF AddOperation, SvcPc, history
<1>3. ASSUME NEW t \in Killable, KillQueued(t) PROVE TypeInv'
  BY <1>3, Constants DEF KillQueued, Answers, SvcPc, LaunchBound,
                         QueueHoldsWaiting, KillHasTask
<1>4. ASSUME NEW t \in Killable, KillSearch(t) PROVE TypeInv'
  BY <1>4, Constants DEF KillSearch, SvcPc, history, LaunchBound,
                         QueueHoldsWaiting, KillHasTask
<1> QED
  BY <1>1, <1>2, <1>3, <1>4 DEF ServiceCall

LEMMA TypeServiceStep == TypeInv /\ ServiceStep => TypeInv'
<1> SUFFICES ASSUME TypeInv, ServiceStep PROVE TypeInv'
  OBVIOUS
<1> USE DEF TypeInv, TypeOK
<1>1. CASE ServiceChangeQueue
  <2>1. svcPc' = "idle" /\ UNCHANGED <<config, launches, interrupted, svcTask,
                                      seen, answered, excluded>>
    BY <1>1 DEF ServiceChangeQueue
  <2>2. CASE ChangeQueue(pc) /\ UNCHANGED faulted
    <3>1. /\ queue' \in Seq(Task) /\ executing' \subseteq Task
          /\ pc' \in [Task -> TaskPc]
          /\ LaunchBound' /\ QueueHoldsWaiting'
      BY <2>1, <2>2, TypeChangeQueue
    <3> QED
      BY <2>1, <2>2, <3>1 DEF SvcPc, KillHasTask
  <2>3. CASE ChangeQueueThrows /\ faulted' = TRUE /\ UNCHANGED executing
    <3>1. /\ queue' \in Seq(Task) /\ pc' \in [Task -> TaskPc]
          /\ LaunchBound' /\ QueueHoldsWaiting'
      BY <2>1, <2>3, TypeChangeQueueThrows
    <3> QED
      BY <2>1, <2>3, <3>1 DEF SvcPc, KillHasTask
  <2> QED
    BY <1>1, <2>2, <2>3 DEF ServiceChangeQueue
<1> USE DEF SvcPc, KillHasTask, LaunchBound, QueueHoldsWaiting
<1>2. ASSUME NEW t \in Task, KillInterrupt(t) PROVE TypeInv'
  BY <1>2 DEF KillInterrupt, history
<1>3. CASE KillUnknown
  BY <1>3, Constants DEF KillUnknown, Answers
<1>4. CASE KillScanThrows
  BY <1>4 DEF KillScanThrows, history
<1>5. CASE KillReport
  BY <1>5, Constants DEF KillReport, Answers
<1>6. CASE KillReportThrows
  BY <1>6 DEF KillReportThrows, history
<1>7. CASE KillRemove
  BY <1>7 DEF KillRemove, history
<1> QED
  BY <1>1, <1>2, <1>3, <1>4, <1>5, <1>6, <1>7 DEF ServiceStep

\* The steps of the threads and the end of the process.
LEMMA TypeExit == TypeInv /\ Exit => TypeInv'
<1> SUFFICES ASSUME TypeInv, Exit PROVE TypeInv'
  OBVIOUS
<1> USE DEF TypeInv, TypeOK, Exit
<1>1. pc' \in [Task -> TaskPc]
  BY DEF TaskPc
<1>2. launches' \in [Task -> 0..MaxLaunch] /\ LaunchBound'
  BY Constants DEF LaunchBound
<1>3. queue' \in Seq(Task) /\ QueueHoldsWaiting' /\ KillHasTask'
  BY DEF QueueHoldsWaiting, KillHasTask
<1> QED
  BY <1>1, <1>2, <1>3 DEF SvcPc

LEMMA TypeTaskStep ==
  ASSUME NEW t \in Task PROVE TypeInv /\ TaskStep(t) => TypeInv'
<1> SUFFICES ASSUME TypeInv, TaskStep(t) PROVE TypeInv'
  OBVIOUS
<1> USE DEF TypeInv, TypeOK
\* A move inside TaskLaunch to a point where no launch is imminent, or
\* from a point with the same bound on launches.
<1>1. ASSUME NEW from, NEW to \in TaskPc, Goto(t, from, to), from # "queued",
             to \notin {"new", "queued", "prepare"},
             to \in {"check", "start"} => launches[t] < MaxLaunch,
             UNCHANGED <<queue, launches, svcPc, svcTask>>
      PROVE  /\ pc' \in [Task -> TaskPc] /\ LaunchBound'
             /\ QueueHoldsWaiting' /\ KillHasTask'
  <2>1. pc' \in [Task -> TaskPc] /\ LaunchBound' /\ KillHasTask'
    BY <1>1 DEF Goto, LaunchBound, KillHasTask
  <2>2. QueueHoldsWaiting'
    BY <1>1, QueueGoto
  <2> QED
    BY <2>1, <2>2
<1> USE DEF shared, svcVars, history
<1>2. CASE Prepare(t)
  <2>1. launches[t] < MaxLaunch
    BY <1>2 DEF Prepare, Goto, LaunchBound
  <2>2. "check" \in TaskPc /\ "build" \in TaskPc
    BY DEF TaskPc, InLaunch
  <2> QED
    BY <1>1, <1>2, <2>1, <2>2 DEF Prepare
<1>3. CASE LoopTest(t)
  <2>1. launches[t] < MaxLaunch
    BY <1>3 DEF LoopTest, Goto, LaunchBound
  <2>2. "conclude" \in TaskPc /\ "start" \in TaskPc
    BY DEF TaskPc, InLaunch
  <2> QED
    BY <1>1, <1>3, <2>1, <2>2 DEF LoopTest
<1>4. CASE StartLaunch(t)
  <2>1. pc[t] = "start" /\ launches[t] \in 0..MaxLaunch /\ launches[t] < MaxLaunch
    BY <1>4 DEF StartLaunch, Goto, LaunchBound
  <2>2. CASE Goto(t, "start", "launched")
               /\ launches' = [launches EXCEPT ![t] = @ + 1]
    <3>1. pc' \in [Task -> TaskPc] /\ launches' \in [Task -> 0..MaxLaunch]
      BY <2>1, <2>2, Constants DEF Goto, TaskPc, InLaunch
    <3>2. LaunchBound'
      BY <2>2 DEF Goto, LaunchBound
    <3>3. QueueHoldsWaiting'
      BY <1>4, <2>2, QueueGoto DEF StartLaunch
    <3> QED
      BY <1>4, <3>1, <3>2, <3>3 DEF StartLaunch, KillHasTask
  <2>3. CASE Goto(t, "start", "build") /\ UNCHANGED launches
    <3>1. "build" \in TaskPc
      BY DEF TaskPc, InLaunch
    <3> QED
      BY <1>1, <1>4, <2>3, <3>1 DEF StartLaunch
  <2> QED
    BY <1>4, <2>2, <2>3 DEF StartLaunch
<1>5. CASE SendLaunchReport(t)
  BY <1>1, <1>5 DEF SendLaunchReport, TaskPc, InLaunch
<1>6. CASE EndLaunch(t)
  BY <1>1, <1>6 DEF EndLaunch, TaskPc, InLaunch
<1>7. CASE Conclusion(t)
  BY <1>1, <1>7 DEF Conclusion, TaskPc, InLaunch
<1>8. CASE BuildReport(t)
  BY <1>1, <1>8 DEF BuildReport, TaskPc, InLaunch
<1>9. CASE SendReport(t)
  BY <1>1, <1>9, Constants DEF SendReport, Answers, TaskPc, InLaunch
<1>10. CASE ExitTest(t)
  BY <1>1, <1>10 DEF ExitTest, TaskPc, InLaunch
<1>11. CASE RemoveTask(t)
  BY <1>1, <1>11 DEF RemoveTask, TaskPc
<1>12. CASE TaskChangeQueue(t)
  <2> DEFINE f == [pc EXCEPT ![t] = "done"]
  <2>1. /\ f \in [Task -> TaskPc]
        /\ \A u \in Task : f[u] = pc[u] \/ (pc[u] = "change" /\ f[u] = "done")
    BY <1>12 DEF TaskChangeQueue, TaskPc
  <2>2. ChangeQueue(f) /\ UNCHANGED <<launches, config, interrupted, svcPc, svcTask,
                                     seen, answered, excluded, faulted>>
    BY <1>12 DEF TaskChangeQueue
  <2> HIDE DEF f
  <2>3. /\ queue' \in Seq(Task) /\ executing' \subseteq Task
        /\ pc' \in [Task -> TaskPc]
        /\ LaunchBound' /\ QueueHoldsWaiting'
    BY <2>1, <2>2, TypeChangeQueue
  <2> QED
    BY <2>2, <2>3 DEF KillHasTask
<1>13. CASE TaskChangeQueueThrows(t)
  BY <1>13, TypeExit DEF TaskChangeQueueThrows
<1> QED
  BY <1>2, <1>3, <1>4, <1>5, <1>6, <1>7, <1>8, <1>9, <1>10, <1>11, <1>12, <1>13
     DEF TaskStep

LEMMA TypeStep == TypeInv /\ [Next]_vars => TypeInv'
<1>1. TypeInv /\ UNCHANGED vars => TypeInv'
  BY DEF vars, TypeInv, TypeOK, LaunchBound, QueueHoldsWaiting, KillHasTask
<1> QED
  BY <1>1, TypeServiceCall, TypeServiceStep, TypeTaskStep, TypeExit
     DEF Next, Restart

LEMMA TypeInvariant == Spec => []TypeInv
BY TypeInit, TypeStep, PTL DEF Spec

\* Every variable keeps its type in every interleaving; in particular a
\* command that is launched is one that was queued (QueueManager.cs:116-160).
THEOREM TypeCorrect == Spec => []TypeOK
BY TypeInvariant, PTL DEF TypeInv
-----------------------------------------------------------------------------
(***************************************************************************)
(* Slots.  ActiveTaskListed and NoLeakedSlot are not inductive: one must   *)
(* know that only launched tasks are ever interrupted, and that a task     *)
(* that is interrupted and still listed is the one KillTask is busy with,  *)
(* or may be one whose report KillTask failed to build.                    *)
(***************************************************************************)
OnlyLaunched ==
  \A t \in executing \cup interrupted \cup seen : pc[t] \notin {"new", "queued"}

VictimListed ==
  \A t \in executing \cap interrupted :
    \/ svcPc \in {"interrupted", "reported"} /\ svcTask = t
    \/ t \in Volatile

VictimFlagged == svcPc \in {"interrupted", "reported"} => svcTask \in interrupted

SlotHeld ==
  \A t \in executing : pc[t] \in InLaunch \/ (pc[t] = "done" /\ t \in interrupted)

SlotInv ==
  OnlyLaunched /\ VictimListed /\ VictimFlagged /\ SlotHeld /\ ActiveTaskListed

LEMMA SlotInit == Init => SlotInv
BY DEF Init, SlotInv, OnlyLaunched, VictimListed, VictimFlagged, SlotHeld,
       ActiveTaskListed, InLaunch

LEMMA SlotExit == SlotInv /\ Exit => SlotInv'
BY DEF Exit, SlotInv, OnlyLaunched, VictimListed, VictimFlagged, SlotHeld,
       ActiveTaskListed, InLaunch

\* A step of the service thread that launches nothing and frees nothing.
LEMMA SlotChangeQueue ==
  ASSUME TypeInv, SlotInv, NEW f \in [Task -> TaskPc], ChangeQueue(f),
         UNCHANGED <<interrupted, seen, svcTask>>,
         svcPc' = svcPc \/ (svcPc \in {"change", "excluded"} /\ svcPc' = "idle"),
         \A t \in Task : f[t] = pc[t] \/ (pc[t] = "change" /\ f[t] = "done")
  PROVE  SlotInv'
<1> USE DEF SlotInv, OnlyLaunched, VictimListed, VictimFlagged, SlotHeld,
            ActiveTaskListed
<1>1. executing \subseteq Task /\ interrupted \subseteq Task /\ seen \subseteq Task
      /\ pc \in [Task -> TaskPc]
  BY DEF TypeInv, TypeOK
<1>2. CASE NothingToLaunch /\ pc' = f /\ UNCHANGED <<queue, executing>>
  BY <1>1, <1>2 DEF InLaunch
<1>3. ASSUME NEW i \in DOMAIN queue,
             executing' = executing \cup {queue[i]},
             pc' = [f EXCEPT ![queue[i]] = "prepare"]
      PROVE  SlotInv'
  <2>1. queue[i] \in Task /\ pc[queue[i]] = "queued"
    BY DEF TypeInv, TypeOK, QueueHoldsWaiting
  <2>2. queue[i] \notin executing \cup interrupted \cup seen
    BY <2>1
  <2>3. /\ pc'[queue[i]] = "prepare"
        /\ \A t \in Task \ {queue[i]} :
             pc'[t] = pc[t] \/ (pc[t] = "change" /\ pc'[t] = "done")
    BY <1>3, <2>1
  <2> QED
    BY <1>1, <1>3, <2>1, <2>2, <2>3 DEF InLaunch
<1> QED
  BY <1>2, <1>3 DEF ChangeQueue

LEMMA SlotServiceCall == TypeInv /\ SlotInv /\ ServiceCall => SlotInv'
<1> SUFFICES ASSUME TypeInv, SlotInv, ServiceCall PROVE SlotInv'
  OBVIOUS
<1> USE DEF SlotInv, OnlyLaunched, VictimListed, VictimFlagged, SlotHeld,
            ActiveTaskListed, TypeInv, TypeOK
<1>1. ASSUME NEW c \in Answer, Configure(c) PROVE SlotInv'
  BY <1>1 DEF Configure, svcVars
<1>2. ASSUME NEW t \in Task, AddOperation(t) PROVE SlotInv'
  BY <1>2 DEF AddOperation, Goto, InLaunch
<1>3. ASSUME NEW t \in Killable, KillQueued(t) PROVE SlotInv'
  BY <1>3 DEF KillQueued
<1>4. ASSUME NEW t \in Killable, KillSearch(t) PROVE SlotInv'
  BY <1>4 DEF KillSearch
<1> QED
  BY <1>1, <1>2, <1>3, <1>4 DEF ServiceCall

LEMMA SlotServiceStep == TypeInv /\ SlotInv /\ ServiceStep => SlotInv'
<1> SUFFICES ASSUME TypeInv, SlotInv, ServiceStep PROVE SlotInv'
  OBVIOUS
<1> USE DEF TypeInv, TypeOK
<1>1. CASE ServiceChangeQueue
  <2>1. CASE ChangeQueue(pc)
    BY <1>1, <2>1, SlotChangeQueue DEF ServiceChangeQueue
  <2>2. CASE ChangeQueueThrows /\ UNCHANGED executing
    <3>1. \A t \in Task : pc'[t] = pc[t] \/ (pc[t] = "queued" /\ pc'[t] = "lost")
      BY <2>2 DEF ChangeQueueThrows, QueueHoldsWaiting
    <3> QED
      BY <1>1, <2>2, <3>1
         DEF ServiceChangeQueue, SlotInv, OnlyLaunched, VictimListed,
             VictimFlagged, SlotHeld, ActiveTaskListed, InLaunch
  <2> QED
    BY <1>1, <2>1, <2>2 DEF ServiceChangeQueue
<1> USE DEF SlotInv, OnlyLaunched, VictimListed, VictimFlagged, SlotHeld,
            ActiveTaskListed
<1>2. ASSUME NEW t \in Task, KillInterrupt(t) PROVE SlotInv'
  BY <1>2 DEF KillInterrupt
<1>3. CASE KillUnknown
  BY <1>3 DEF KillUnknown
<1>4. CASE KillScanThrows
  BY <1>4 DEF KillScanThrows
<1>5. CASE KillReport
  BY <1>5 DEF KillReport
<1>6. CASE KillReportThrows
  BY <1>6 DEF KillReportThrows
<1>7. CASE KillRemove
  BY <1>7 DEF KillRemove
<1> QED
  BY <1>1, <1>2, <1>3, <1>4, <1>5, <1>6, <1>7 DEF ServiceStep

LEMMA SlotTaskStep ==
  ASSUME NEW t \in Task PROVE TypeInv /\ SlotInv /\ TaskStep(t) => SlotInv'
<1> SUFFICES ASSUME TypeInv, SlotInv, TaskStep(t) PROVE SlotInv'
  OBVIOUS
\* A move inside TaskLaunch.
<1>1. ASSUME NEW from \in InLaunch, NEW to \in InLaunch, Goto(t, from, to),
             UNCHANGED <<executing, interrupted, svcPc, svcTask, seen>>
      PROVE  SlotInv'
  <2>1. pc[t] \in InLaunch /\ pc' = [pc EXCEPT ![t] = to]
    BY <1>1 DEF Goto
  <2> QED
    BY <1>1, <2>1 DEF SlotInv, OnlyLaunched, VictimListed, VictimFlagged, SlotHeld,
                      ActiveTaskListed, TypeInv, TypeOK, InLaunch
<1> USE DEF shared, svcVars
<1>2. CASE Prepare(t)
  BY <1>1, <1>2 DEF Prepare, InLaunch
<1>3. CASE LoopTest(t)
  BY <1>1, <1>3 DEF LoopTest, InLaunch
<1>4. CASE StartLaunch(t)
  BY <1>1, <1>4 DEF StartLaunch, InLaunch
<1>5. CASE SendLaunchReport(t)
  BY <1>1, <1>5 DEF SendLaunchReport, InLaunch
<1>6. CASE EndLaunch(t)
  BY <1>1, <1>6 DEF EndLaunch, InLaunch
<1>7. CASE Conclusion(t)
  BY <1>1, <1>7 DEF Conclusion, InLaunch
<1>8. CASE BuildReport(t)
  BY <1>1, <1>8 DEF BuildReport, InLaunch
<1>9. CASE SendReport(t)
  BY <1>1, <1>9 DEF SendReport, InLaunch
<1>10. CASE ExitTest(t)
  <2>1. CASE t \in interrupted
    BY <1>10, <2>1 DEF ExitTest, Goto, SlotInv, OnlyLaunched, VictimListed,
                       VictimFlagged, SlotHeld, ActiveTaskListed, TypeInv, TypeOK,
                       InLaunch
  <2>2. CASE t \notin interrupted
    BY <1>1, <1>10, <2>2 DEF ExitTest, InLaunch
  <2> QED
    BY <2>1, <2>2
<1>11. CASE RemoveTask(t)
  BY <1>11 DEF RemoveTask, Goto, SlotInv, OnlyLaunched, VictimListed,
               VictimFlagged, SlotHeld, ActiveTaskListed, TypeInv, TypeOK, InLaunch
<1>12. CASE TaskChangeQueue(t)
  <2> DEFINE f == [pc EXCEPT ![t] = "done"]
  <2>1. /\ f \in [Task -> TaskPc]
        /\ \A u \in Task : f[u] = pc[u] \/ (pc[u] = "change" /\ f[u] = "done")
    BY <1>12 DEF TaskChangeQueue, TaskPc, TypeInv, TypeOK
  <2>2. ChangeQueue(f) /\ UNCHANGED <<interrupted, seen, svcTask, svcPc>>
    BY <1>12 DEF TaskChangeQueue
  <2> HIDE DEF f
  <2> QED
    BY <2>1, <2>2, SlotChangeQueue
<1>13. CASE TaskChangeQueueThrows(t)
  BY <1>13, SlotExit DEF TaskChangeQueueThrows
<1> QED
  BY <1>2, <1>3, <1>4, <1>5, <1>6, <1>7, <1>8, <1>9, <1>10, <1>11, <1>12, <1>13
     DEF TaskStep

LEMMA SlotStep == TypeInv /\ SlotInv /\ [Next]_vars => SlotInv'
<1>1. SlotInv /\ UNCHANGED vars => SlotInv'
  BY DEF vars, SlotInv, OnlyLaunched, VictimListed, VictimFlagged, SlotHeld,
         ActiveTaskListed
<1> QED
  BY <1>1, SlotServiceCall, SlotServiceStep, SlotTaskStep, SlotExit
     DEF Next, Restart

LEMMA SlotInvariant == Spec => []SlotInv
BY SlotInit, SlotStep, TypeInvariant, PTL DEF Spec

\* executedProcess overlooks a running task only if it was interrupted.
THEOREM ActiveListed == Spec => []ActiveTaskListed
BY SlotInvariant, PTL DEF SlotInv

\* A slot that no thread holds any more is about to be freed by the KillTask
\* that interrupted its task, or is that of a task whose report could not be
\* built; every other slot belongs to a live thread.
THEOREM NoSlotLeaks == Spec => []NoLeakedSlot
<1>1. SlotInv => NoLeakedSlot
  BY DEF SlotInv, SlotHeld, VictimListed, NoLeakedSlot
<1> QED
  BY <1>1, SlotInvariant, PTL
-----------------------------------------------------------------------------
(***************************************************************************)
(* The pool limit.  It is inductive on top of type correctness: a slot is  *)
(* taken only under the limit of the configuration in force, and every     *)
(* other step leaves the slots as they are or frees some.                  *)
(***************************************************************************)
LEMMA HoldersFinite ==
  ASSUME TypeInv, NEW p
  PROVE  IsFiniteSet(Holders(p)) /\ Cardinality(Holders(p)) \in Nat
<1>1. Holders(p) \subseteq Task
  BY DEF Holders, TypeInv, TypeOK
<1> QED
  BY <1>1, Constants, FS_Subset, FS_CardinalityType

\* A step that takes no slot keeps the limit.
LEMMA LimitShrink ==
  ASSUME TypeInv, PoolLimit, executing' \subseteq executing
  PROVE  PoolLimit'
<1> SUFFICES ASSUME NEW p \in Pool, Holders(p)' # {}
             PROVE  \E c \in Answer \ {NoConfig} :
                      Cardinality(Holders(p)') <= c.maxThreads
  BY DEF PoolLimit
<1>1. Holders(p)' \subseteq Holders(p)
  BY DEF Holders
<1>2. PICK c \in Answer \ {NoConfig} : Cardinality(Holders(p)) <= c.maxThreads
  BY <1>1 DEF PoolLimit
<1>3. Cardinality(Holders(p)') <= Cardinality(Holders(p))
      /\ Cardinality(Holders(p)') \in Nat
  BY <1>1, HoldersFinite, FS_Subset, FS_CardinalityType
<1> QED
  BY <1>2, <1>3, HoldersFinite, Constants

\* A launch takes slots only in pools that have one left.
LEMMA LimitLaunch ==
  ASSUME TypeInv, PoolLimit, NEW i \in DOMAIN queue, Waiting(i),
         executing' = executing \cup {queue[i]}
  PROVE  PoolLimit'
<1> SUFFICES ASSUME NEW p \in Pool, Holders(p)' # {}
             PROVE  \E c \in Answer \ {NoConfig} :
                      Cardinality(Holders(p)') <= c.maxThreads
  BY DEF PoolLimit
<1>1. CASE p \in pools[queue[i]]
  <2>1. Holders(p)' = Holders(p) \cup {queue[i]}
    BY <1>1 DEF Holders
  <2>2. Cardinality(Holders(p)') <= Cardinality(Holders(p)) + 1
        /\ Cardinality(Holders(p)') \in Nat
    <3>1. /\ IsFiniteSet(Holders(p)) /\ Cardinality(Holders(p)) \in Nat
      BY HoldersFinite
    <3>2. Cardinality(Holders(p) \cup {queue[i]}) =
            IF queue[i] \in Holders(p) THEN Cardinality(Holders(p))
                                       ELSE Cardinality(Holders(p)) + 1
      BY <3>1, FS_AddElement
    <3> QED
      BY <2>1, <3>1, <3>2
  <2>3. config \in Answer \ {NoConfig} /\ Cardinality(Holders(p)) < config.maxThreads
    BY <1>1 DEF Waiting, Fits, TypeInv, TypeOK
  <2>4. Cardinality(Holders(p)') <= config.maxThreads
    BY <2>2, <2>3, HoldersFinite, Constants
  <2> QED
    BY <2>3, <2>4
<1>2. CASE p \notin pools[queue[i]]
  <2>1. Holders(p)' = Holders(p)
    BY <1>2 DEF Holders
  <2> QED
    BY <2>1 DEF PoolLimit
<1> QED
  BY <1>1, <1>2

LEMMA LimitChangeQueue ==
  ASSUME TypeInv, PoolLimit, NEW f, ChangeQueue(f) PROVE PoolLimit'
BY LimitShrink, LimitLaunch DEF ChangeQueue

LEMMA LimitStep == TypeInv /\ PoolLimit /\ [Next]_vars => PoolLimit'
<1> SUFFICES ASSUME TypeInv, PoolLimit, [Next]_vars PROVE PoolLimit'
  OBVIOUS
<1>1. CASE ServiceCall
  BY <1>1, LimitShrink
     DEF ServiceCall, Configure, AddOperation, KillQueued, KillSearch
<1>2. CASE ServiceStep
  <2>1. CASE ServiceChangeQueue
    <3>1. ChangeQueue(pc) \/ executing' = executing
      BY <2>1 DEF ServiceChangeQueue
    <3> QED
      BY <3>1, LimitChangeQueue, LimitShrink
  <2>2. CASE ~ServiceChangeQueue
    BY <1>2, <2>2, LimitShrink
       DEF ServiceStep, KillInterrupt, KillUnknown, KillScanThrows, KillReport,
           KillReportThrows, KillRemove
  <2> QED
    BY <2>1, <2>2
<1>3. ASSUME NEW t \in Task, TaskStep(t) PROVE PoolLimit'
  <2>1. CASE TaskChangeQueue(t)
    BY <2>1, LimitChangeQueue DEF TaskChangeQueue
  <2>2. CASE ~TaskChangeQueue(t)
    <3>1. executing' \subseteq executing
      BY <1>3, <2>2
         DEF TaskStep, Prepare, LoopTest, StartLaunch, SendLaunchReport, EndLaunch,
             Conclusion, BuildReport, SendReport, ExitTest, RemoveTask,
             TaskChangeQueueThrows, Exit, shared
    <3> QED
      BY <3>1, LimitShrink
  <2> QED
    BY <2>1, <2>2
<1>4. CASE Restart
  BY <1>4, LimitShrink DEF Restart, Exit
<1>5. CASE UNCHANGED vars
  BY <1>5, LimitShrink DEF vars
<1> QED
  BY <1>1, <1>2, <1>3, <1>4, <1>5 DEF Next

\* No pool ever has more slots taken than a configuration that was handed out
\* allows (QueueManager.cs:139-143), for any number of commands and pools.
THEOREM PoolsRespected == Spec => []PoolLimit
<1>1. Init => PoolLimit
  BY DEF Init, PoolLimit, Holders
<1> QED
  BY <1>1, LimitStep, TypeInvariant, PTL DEF Spec
-----------------------------------------------------------------------------
(***************************************************************************)
(* The order of the queue.  A launch leaves the queue's order behind only  *)
(* for a command that fits where an earlier one does not, and one that     *)
(* needs less fits whenever one that needs more does.                      *)
(***************************************************************************)
LEMMA FitsMonotone ==
  ASSUME NEW t, NEW u, pools[t] \subseteq pools[u], Fits(u) PROVE Fits(t)
BY DEF Fits

\* A command that moves from the queue to its thread was the one chosen.
LEMMA LaunchIsFirstFit ==
  ASSUME TypeInv, NEW f \in [Task -> TaskPc], ChangeQueue(f),
         \A t \in Task : f[t] = "prepare" => pc[t] = "prepare",
         NEW j \in DOMAIN queue, pc'[queue[j]] = "prepare"
  PROVE  Waiting(j) /\ config # NoConfig
<1>1. queue[j] \in Task /\ pc[queue[j]] = "queued"
  BY DEF TypeInv, TypeOK, QueueHoldsWaiting
<1>2. f[queue[j]] # "prepare"
  BY <1>1
<1>3. PICK i \in DOMAIN queue : Waiting(i) /\ pc' = [f EXCEPT ![queue[i]] = "prepare"]
  BY <1>2 DEF ChangeQueue
<1>4. queue[i] = queue[j]
  BY <1>1, <1>2, <1>3
<1>5. i = j
  BY <1>4 DEF TypeInv, QueueHoldsWaiting
<1> QED
  BY <1>3, <1>5 DEF Waiting

\* Only ChangeQueue turns a waiting command into a thread.
LEMMA OnlyChangeQueueLaunches ==
  ASSUME TypeInv, [Next]_vars,
         NEW j \in DOMAIN queue, pc'[queue[j]] = "prepare"
  PROVE  Waiting(j)
<1>1. queue[j] \in Task /\ pc[queue[j]] = "queued" /\ pc \in [Task -> TaskPc]
  BY DEF TypeInv, TypeOK, QueueHoldsWaiting
<1>2. PICK u \in Task : u = queue[j] /\ pc[u] = "queued" /\ pc'[u] = "prepare"
  BY <1>1
<1>3. CASE ServiceCall
  BY <1>1, <1>2, <1>3
     DEF ServiceCall, Configure, AddOperation, Goto, KillQueued, KillSearch
<1>4. CASE ServiceStep
  <2>1. CASE ServiceChangeQueue /\ ChangeQueue(pc)
    BY <1>1, <2>1, LaunchIsFirstFit
  <2>2. CASE ServiceChangeQueue /\ ChangeQueueThrows
    BY <1>1, <1>2, <2>2 DEF ChangeQueueThrows
  <2>3. QED
    BY <1>2, <1>4, <2>1, <2>2
       DEF ServiceStep, ServiceChangeQueue, KillInterrupt, KillUnknown,
           KillScanThrows, KillReport, KillReportThrows, KillRemove
<1>5. ASSUME NEW t \in Task, TaskStep(t) PROVE Waiting(j)
  <2>1. CASE TaskChangeQueue(t)
    <3> DEFINE f == [pc EXCEPT ![t] = "done"]
    <3>1. f \in [Task -> TaskPc] /\ \A v \in Task : f[v] = "prepare" => pc[v] = "prepare"
      BY <1>1 DEF TaskPc
    <3>2. ChangeQueue(f)
      BY <2>1 DEF TaskChangeQueue
    <3> HIDE DEF f
    <3> QED
      BY <3>1, <3>2, LaunchIsFirstFit
  <2>2. CASE TaskChangeQueueThrows(t)
    BY <1>2, <2>2 DEF TaskChangeQueueThrows, Exit
  <2>3. CASE ~TaskChangeQueue(t) /\ ~TaskChangeQueueThrows(t)
    BY <1>1, <1>2, <1>5, <2>3
       DEF TaskStep, Goto, Prepare, LoopTest, StartLaunch, SendLaunchReport,
           EndLaunch, Conclusion, BuildReport, SendReport, ExitTest, RemoveTask
  <2>4. QED BY <2>1, <2>2, <2>3
<1>6. CASE Restart
  BY <1>2, <1>6 DEF Restart, Exit
<1>7. CASE UNCHANGED vars
  BY <1>2, <1>7 DEF vars
<1> QED
  BY <1>3, <1>4, <1>5, <1>6, <1>7 DEF Next

\* In no interleaving does a command overtake an earlier one that needs no
\* pool it does not need itself (QueueManager.cs:139-143).
THEOREM OrderKept == Spec => NoOvertaking
<1> DEFINE Order == \A i, j \in DOMAIN queue :
                      (i < j /\ pools[queue[i]] \subseteq pools[queue[j]]
                             /\ pc'[queue[j]] = "prepare")
                        => pc'[queue[i]] # "queued"
<1>1. TypeInv /\ [Next]_vars => Order
  <2> SUFFICES ASSUME TypeInv, [Next]_vars,
                      NEW i \in DOMAIN queue, NEW j \in DOMAIN queue, i < j,
                      pools[queue[i]] \subseteq pools[queue[j]],
                      pc'[queue[j]] = "prepare"
               PROVE  FALSE
    OBVIOUS
  <2>1. Waiting(j)
    BY OnlyChangeQueueLaunches
  <2>2. Fits(queue[j]) /\ ~Fits(queue[i])
    <3>1. DOMAIN queue = 1..Len(queue) /\ Len(queue) \in Nat
      BY DEF TypeInv, TypeOK
    <3>2. i \in 1..j-1
      BY <3>1
    <3> QED
      BY <2>1, <3>2 DEF Waiting
  <2> QED
    BY <2>2, FitsMonotone
<1>2. TypeInv /\ [Next]_vars => [Order]_vars
  BY <1>1
<1> QED
  BY <1>2, TypeInvariant, PTL DEF Spec, NoOvertaking
-----------------------------------------------------------------------------
(***************************************************************************)
(* No lost wake-up.  With no slot taken every command fits, so the         *)
(* ChangeQueue that is owed launches one or fails; the wake-up is inductive *)
(* on top of type correctness because a slot is freed before the ChangeQueue *)
(* of the thread that frees it.                                            *)
(***************************************************************************)
LEMMA AllFitWhenIdle ==
  ASSUME config \in Configuration, executing = {}, NEW t \in Task PROVE Fits(t)
<1>1. config.maxThreads \in Nat \ {0}
  BY DEF Configuration
<1>2. \A p : Holders(p) = {}
  BY DEF Holders
<1> QED
  BY <1>1, <1>2, FS_EmptySet DEF Fits

\* A ChangeQueue that returns leaves the queue empty or a slot taken.
LEMMA WakeupServed ==
  ASSUME TypeInv, NEW f, ChangeQueue(f) PROVE queue' = <<>> \/ executing' # {}
<1>1. CASE NothingToLaunch /\ UNCHANGED <<queue, executing>>
  <2>1. SUFFICES ASSUME queue # <<>>, executing = {} PROVE FALSE
    BY <1>1
  <2>2. config \in Configuration /\ \A i \in DOMAIN queue : ~Fits(queue[i])
    BY <1>1, <2>1, RemoteQueueAssumption
       DEF NothingToLaunch, TypeInv, TypeOK, RemoteQueueAssumption
  <2>3. 1 \in DOMAIN queue /\ queue[1] \in Task
    BY <2>1 DEF TypeInv, TypeOK
  <2> QED
    BY <2>1, <2>2, <2>3, AllFitWhenIdle
<1> QED
  BY <1>1 DEF ChangeQueue

LEMMA WakeupStep == TypeInv /\ NoLostWakeup /\ [Next]_vars => NoLostWakeup'
<1> SUFFICES ASSUME TypeInv, NoLostWakeup, [Next]_vars PROVE NoLostWakeup'
  OBVIOUS
<1> USE DEF NoLostWakeup, TypeInv, TypeOK
<1>1. CASE ServiceCall
  BY <1>1 DEF ServiceCall, Configure, AddOperation, KillQueued, KillSearch,
              Goto, svcVars, history
<1>2. CASE ServiceStep
  <2>1. CASE ServiceChangeQueue
    BY <2>1, WakeupServed DEF ServiceChangeQueue
  <2>2. CASE ~ServiceChangeQueue
    BY <1>2, <2>2
       DEF ServiceStep, KillInterrupt, KillUnknown, KillScanThrows, KillReport,
           KillReportThrows, KillRemove, history
  <2> QED
    BY <2>1, <2>2
<1>3. ASSUME NEW t \in Task, TaskStep(t) PROVE NoLostWakeup'
  <2>1. CASE TaskChangeQueue(t)
    BY <2>1, WakeupServed DEF TaskChangeQueue
  <2>2. CASE TaskChangeQueueThrows(t)
    BY <2>2 DEF TaskChangeQueueThrows, Exit
  <2>3. CASE RemoveTask(t)
    BY <2>3 DEF RemoveTask, Goto
  <2>4. CASE ~TaskChangeQueue(t) /\ ~TaskChangeQueueThrows(t) /\ ~RemoveTask(t)
    <3>1. UNCHANGED <<queue, executing, svcPc, faulted>>
      BY <1>3, <2>4
         DEF TaskStep, Prepare, LoopTest, StartLaunch, SendLaunchReport, EndLaunch,
             Conclusion, BuildReport, SendReport, ExitTest, shared, svcVars, history
    <3>2. \A u \in Task : pc[u] = "change" => pc'[u] = "change"
      BY <1>3, <2>4
         DEF TaskStep, Prepare, LoopTest, StartLaunch, SendLaunchReport, EndLaunch,
             Conclusion, BuildReport, SendReport, ExitTest, Goto
    <3> QED
      BY <3>1, <3>2
  <2> QED
    BY <2>1, <2>2, <2>3, <2>4
<1>4. CASE Restart
  BY <1>4 DEF Restart, Exit
<1>5. CASE UNCHANGED vars
  BY <1>5 DEF vars
<1> QED
  BY <1>1, <1>2, <1>3, <1>4, <1>5 DEF Next

\* While commands wait a slot is taken or a ChangeQueue is to come, unless one
\* has thrown on the service thread (QueueManager.cs:92, 105, 204-205).
THEOREM WakeupNotLost == Spec => []NoLostWakeup
<1>1. Init => NoLostWakeup
  BY DEF Init, NoLostWakeup
<1> QED
  BY <1>1, WakeupStep, TypeInvariant, PTL DEF Spec
=============================================================================
