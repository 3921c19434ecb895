---------------------------- MODULE RemoteQueue ----------------------------
(***************************************************************************)
(* QueueExecuteManager: the queue of commands of a remote service, the     *)
(* list of running tasks, and the slots the tasks take in thread pools.    *)
(*                                                                         *)
(* Processes: the WCF service thread (RemoteService is a singleton with    *)
(* ConcurrencyMode.Single, so one handler runs at a time) and one thread   *)
(* per launched task (TaskLaunch.BeginInvoke).  A step is the code between *)
(* two points at which the other threads can be observed: an access to the *)
(* queue under its lock, to executedProcess, to a strategy's interrupt     *)
(* flag, or a report sent to the central service.                          *)
(***************************************************************************)
EXTENDS Integers, Sequences, FiniteSets, SequencesExt

CONSTANTS
  Task,       \* ExecuteCommand objects delivered to the service
  Guid,       \* report guids
  Base,       \* 1C databases
  Pool,       \* thread pools
  guid,       \* guid[t]: reportGuid; a retried delivery shares its guid
  base,       \* base[t]: baseId
  pools,      \* pools[t]: pools the task takes a slot in
  Volatile,   \* tasks that add to a list their report enumerates: copies of
              \* directories and collections of logs
  Answer,     \* what RequestConfiguration may return
  NoTask,     \* KillTask is not running
  NoConfig,   \* remoteConfiguration = null: all three attempts failed
  MaxLaunch,  \* bound: launches of one task before its strategy completes
  Killable,   \* bound: the commands whose guids are interrupted
  CanRestart  \* TRUE: the service process may stop and start at any moment

\* RemoteConfiguration: its main.max_threads and the bases it has an entry for.
Configuration == [bases : SUBSET Base, maxThreads : Nat \ {0}]

ASSUME RemoteQueueAssumption ==
  /\ IsFiniteSet(Task)
  /\ guid \in [Task -> Guid]
  /\ base \in [Task -> Base]
  /\ pools \in [Task -> (SUBSET Pool) \ {{}}]
  /\ Volatile \subseteq Task
  /\ Answer \subseteq Configuration \cup {NoConfig}
  /\ NoConfig \notin Configuration
  /\ NoTask \notin Task
  /\ MaxLaunch \in Nat \ {0}
  /\ Killable \subseteq Task
  /\ CanRestart \in BOOLEAN

VARIABLES
  queue,        \* queueTasks
  executing,    \* executedProcess; its order matters only among equal guids
  config,       \* RemoteConfigurationManager.remoteConfiguration
  pc,           \* pc[t]: where the command or its TaskLaunch thread is
  launches,     \* launches[t]: StartLaunch calls of the thread
  interrupted,  \* tasks whose strategy has IsInterrupt set
  svcPc,        \* where the service thread is in its handler
  svcTask,      \* the command KillTask works on, then the task it has found
  seen,         \* executedProcess when KillTask began to enumerate it
  answered,     \* guids an operation report was sent for (history)
  excluded,     \* guids reported as excluded from the queue (history)
  faulted       \* ChangeQueue has thrown on the service thread (history)

vars == <<queue, executing, config, pc, launches, interrupted,
          svcPc, svcTask, seen, answered, excluded, faulted>>
svcVars == <<svcPc, svcTask, seen>>
history == <<answered, excluded, faulted>>
shared  == <<queue, executing, config, interrupted, svcVars, history>>

\* The thread is inside TaskLaunch and has not yet given its slot back.
InLaunch == {"prepare", "check", "start", "launched", "end", "conclude",
             "build", "sendFinished", "sendInterrupted", "exit", "remove"}
\* The thread has sent its operation report.
Reported == {"exit", "remove", "change", "done"}
TaskPc   == InLaunch \cup {"new", "queued", "change", "done", "lost"}
SvcPc    == {"idle", "change", "excluded", "scan", "interrupted", "reported"}

TypeOK ==
  /\ queue \in Seq(Task)
  /\ executing \subseteq Task
  /\ config \in Answer \cup {NoConfig}
  /\ pc \in [Task -> TaskPc]
  /\ launches \in [Task -> 0..MaxLaunch]
  /\ interrupted \subseteq Task
  /\ svcPc \in SvcPc
  /\ svcTask \in Task \cup {NoTask}
  /\ seen \subseteq Task
  /\ answered \subseteq Guid
  /\ excluded \subseteq Guid
  /\ faulted \in BOOLEAN

Init ==
  /\ queue = <<>>
  /\ executing = {}
  /\ config = NoConfig
  /\ pc = [t \in Task |-> "new"]
  /\ launches = [t \in Task |-> 0]
  /\ interrupted = {}
  /\ svcPc = "idle"
  /\ svcTask = NoTask
  /\ seen = {}
  /\ answered = {}
  /\ excluded = {}
  /\ faulted = FALSE

Goto(t, from, to) == pc[t] = from /\ pc' = [pc EXCEPT ![t] = to]
Answers(t)        == answered' = answered \cup {guid[t]}
-----------------------------------------------------------------------------
(***************************************************************************)
(* Definitions named Mut... are faulty variants of the one that follows;   *)
(* no specification uses them, they only show that a property can fail.    *)
(***************************************************************************)

(***************************************************************************)
(* ChangeQueue: first task, in queue order, that finds a free slot in each *)
(* of its pools.  One call launches at most one task.                      *)
(***************************************************************************)
Holders(p) == {e \in executing : p \in pools[e]}

MutFits(t) == \E p \in pools[t] : Cardinality(Holders(p)) < config.maxThreads
Fits(t) == \A p \in pools[t] : Cardinality(Holders(p)) < config.maxThreads

MutWaiting(i) == /\ config # NoConfig
                 /\ Fits(queue[i])
                 /\ \A j \in i+1..Len(queue) : ~Fits(queue[j])
Waiting(i) == /\ config # NoConfig
              /\ Fits(queue[i])
              /\ \A j \in 1..i-1 : ~Fits(queue[j])

NothingToLaunch ==
  \/ queue = <<>>
  \/ config # NoConfig /\ \A i \in DOMAIN queue : ~Fits(queue[i])

\* BuildCommandStrategy succeeds: the configuration is there and has the base.
Configured(t) == config # NoConfig /\ base[t] \in config.bases

\* ChangeQueue as run by a caller whose own step turns pc into pcNext.
ChangeQueue(pcNext) ==
  \/ /\ NothingToLaunch
     /\ pc' = pcNext
     /\ UNCHANGED <<queue, executing>>
  \/ \E i \in DOMAIN queue :
       /\ Waiting(i)
       /\ Configured(queue[i])
       /\ queue' = RemoveAt(queue, i)
       /\ executing' = executing \cup {queue[i]}
       /\ pc' = [pcNext EXCEPT ![queue[i]] = "prepare"]

\* ChangeQueue throws: there is no configuration, or no entry for the base of
\* the chosen task, which has left the queue by then and is forgotten.
ChangeQueueThrows ==
  \/ /\ queue # <<>> /\ config = NoConfig
     /\ UNCHANGED <<queue, pc>>
  \/ \E i \in DOMAIN queue :
       /\ Waiting(i)
       /\ ~Configured(queue[i])
       /\ queue' = RemoveAt(queue, i)
       /\ pc' = [pc EXCEPT ![queue[i]] = "lost"]

\* KillTask keeps lock(queueTasks) while it reports an excluded task.
QueueUnlocked == svcPc # "excluded"
-----------------------------------------------------------------------------
(***************************************************************************)
(* The service thread.                                                     *)
(***************************************************************************)
\* A handler begins with RequireConfiguration, which may install another
\* configuration, or none when the central service does not answer.
Configure(c) ==
  /\ svcPc = "idle"
  /\ c # config
  /\ config' = c
  /\ UNCHANGED <<queue, executing, pc, launches, interrupted, svcVars,
                 history>>

\* AddOperation, lines under the lock.  ServiceCommandSender calls it only
\* when the last request for a configuration has succeeded.
MutAddOperation(t) ==
  /\ svcPc = "idle" /\ config # NoConfig
  /\ Goto(t, "new", "queued")
  /\ queue' = Append(queue, guid[t])
  /\ svcPc' = "change"
  /\ UNCHANGED <<executing, config, launches, interrupted, svcTask, seen,
                 history>>
AddOperation(t) ==
  /\ svcPc = "idle" /\ config # NoConfig
  /\ Goto(t, "new", "queued")
  /\ queue' = Append(queue, t)
  /\ svcPc' = "change"
  /\ UNCHANGED <<executing, config, launches, interrupted, svcTask, seen,
                 history>>

\* ChangeQueue at the end of AddOperation and of KillTask.
MutServiceChangeQueue ==
  /\ svcPc \in {"change", "excluded"}
  /\ svcPc' = "idle"
  /\ UNCHANGED <<queue, executing, pc, config, launches, interrupted, svcTask,
                 seen, history>>
MutServiceAwaitsConfig ==
  /\ svcPc \in {"change", "excluded"}
  /\ svcPc' = "idle"
  /\ ChangeQueue(pc)
  /\ UNCHANGED <<config, launches, interrupted, svcTask, seen, history>>
ServiceChangeQueue ==
  /\ svcPc \in {"change", "excluded"}
  /\ svcPc' = "idle"
  /\ \/ ChangeQueue(pc) /\ UNCHANGED faulted
     \/ ChangeQueueThrows /\ faulted' = TRUE /\ UNCHANGED executing
  /\ UNCHANGED <<config, launches, interrupted, svcTask, seen, answered,
                 excluded>>

Queued(g)  == {i \in DOMAIN queue : guid[queue[i]] = g}

\* KillTask finds the guid in the queue: it reports the task as excluded and
\* leaves it where it is.
KillQueued(t) ==
  /\ svcPc = "idle" /\ Configured(t)
  /\ Queued(guid[t]) # {}
  /\ Answers(t)
  /\ excluded' = excluded \cup {guid[t]}
  /\ svcPc' = "excluded"
  /\ UNCHANGED <<queue, executing, config, pc, launches, interrupted, svcTask,
                 seen, faulted>>

\* KillTask does not find the guid in the queue, gives the lock back and
\* begins to enumerate executedProcess, without a lock.
KillSearch(t) ==
  /\ svcPc = "idle" /\ Configured(t)
  /\ Queued(guid[t]) = {}
  /\ svcPc' = "scan"
  /\ svcTask' = t
  /\ seen' = executing
  /\ UNCHANGED <<queue, executing, config, pc, launches, interrupted,
                 history>>

\* The enumeration meets the guid, in the list or in what it was when the
\* enumeration began: task.CommandStrategy.Interrupt().
MutKillInterrupt(t) ==
  /\ svcPc = "scan"
  /\ t \in seen /\ guid[t] = guid[svcTask]
  /\ svcPc' = "interrupted"
  /\ svcTask' = t
  /\ seen' = {}
  /\ UNCHANGED <<queue, executing, config, pc, launches, interrupted, history>>
KillInterrupt(t) ==
  /\ svcPc = "scan"
  /\ t \in seen /\ guid[t] = guid[svcTask]
  /\ interrupted' = interrupted \cup {t}
  /\ svcPc' = "interrupted"
  /\ svcTask' = t
  /\ seen' = {}
  /\ UNCHANGED <<queue, executing, config, pc, launches, history>>

\* The enumeration ends without a match: the task is reported unknown.
KillUnknown ==
  /\ svcPc = "scan" /\ executing = seen
  /\ \A t \in seen : guid[t] # guid[svcTask]
  /\ Answers(svcTask)
  /\ svcPc' = "idle"
  /\ svcTask' = NoTask
  /\ seen' = {}
  /\ UNCHANGED <<queue, executing, config, pc, launches, interrupted,
                 excluded, faulted>>

\* Another thread changed the list: the enumerator throws and the handler
\* ends with nothing interrupted and nothing reported.
KillScanThrows ==
  /\ svcPc = "scan" /\ executing # seen
  /\ svcPc' = "idle"
  /\ svcTask' = NoTask
  /\ seen' = {}
  /\ UNCHANGED <<queue, executing, config, pc, launches, interrupted,
                 history>>

KillReport ==
  /\ svcPc = "interrupted"
  /\ Answers(svcTask)
  /\ svcPc' = "reported"
  /\ UNCHANGED <<queue, executing, config, pc, launches, interrupted, svcTask,
                 seen, excluded, faulted>>

\* GetOperationReport enumerates a list to which EndLaunch adds on the thread
\* of the task: the enumerator throws.  The handler ends with the task flagged,
\* unreported and in executedProcess, where its thread will leave it.
KillReportThrows ==
  /\ svcPc = "interrupted"
  /\ svcTask \in Volatile /\ pc[svcTask] = "end"
  /\ svcPc' = "idle"
  /\ svcTask' = NoTask
  /\ UNCHANGED <<queue, executing, config, pc, launches, interrupted, seen,
                 history>>

MutKillRemove ==
  /\ svcPc = "reported"
  /\ svcPc' = "change"
  /\ svcTask' = NoTask
  /\ UNCHANGED <<executing, queue, config, pc, launches, interrupted, seen,
                 history>>
KillRemove ==
  /\ svcPc = "reported"
  /\ executing' = executing \ {svcTask}
  /\ svcPc' = "change"
  /\ svcTask' = NoTask
  /\ UNCHANGED <<queue, config, pc, launches, interrupted, seen, history>>
-----------------------------------------------------------------------------
(***************************************************************************)
(* The thread of task t: TaskLaunch.  Prepare, StartLaunch, EndLaunch and  *)
(* Conclusion belong to the strategy; any of them may throw, and the       *)
(* exception leads to the operation report.                                *)
(***************************************************************************)
Prepare(t) ==
  /\ \/ Goto(t, "prepare", "check")
     \/ Goto(t, "prepare", "build")
  /\ UNCHANGED <<shared, launches>>

LoopTest(t) ==
  /\ IF t \in interrupted THEN Goto(t, "check", "conclude")
                          ELSE Goto(t, "check", "start")
  /\ UNCHANGED <<shared, launches>>

StartLaunch(t) ==
  /\ \/ /\ Goto(t, "start", "launched")
        /\ launches' = [launches EXCEPT ![t] = @ + 1]
     \/ /\ Goto(t, "start", "build")
        /\ UNCHANGED launches
  /\ UNCHANGED shared

SendLaunchReport(t) ==
  /\ Goto(t, "launched", "end")
  /\ UNCHANGED <<shared, launches>>

EndLaunch(t) ==
  /\ \/ Goto(t, "end", "conclude")
     \/ launches[t] < MaxLaunch /\ Goto(t, "end", "check")
     \/ Goto(t, "end", "build")
  /\ UNCHANGED <<shared, launches>>

Conclusion(t) ==
  /\ Goto(t, "conclude", "build")
  /\ UNCHANGED <<shared, launches>>

\* GetOperationReport reads the interrupt flag before the report is sent.
MutBuildReport(t) ==
  /\ Goto(t, "build", "exit")
  /\ UNCHANGED <<shared, launches>>
BuildReport(t) ==
  /\ IF t \in interrupted THEN Goto(t, "build", "sendInterrupted")
                          ELSE Goto(t, "build", "sendFinished")
  /\ UNCHANGED <<shared, launches>>

SendReport(t) ==
  /\ \/ Goto(t, "sendFinished", "exit")
     \/ Goto(t, "sendInterrupted", "exit")
  /\ Answers(t)
  /\ UNCHANGED <<queue, executing, config, launches, interrupted, excluded,
                 faulted, svcVars>>

\* An interrupted task leaves its slot for KillTask to free.
ExitTest(t) ==
  /\ IF t \in interrupted THEN Goto(t, "exit", "done")
                          ELSE Goto(t, "exit", "remove")
  /\ UNCHANGED <<shared, launches>>

RemoveTask(t) ==
  /\ Goto(t, "remove", "change")
  /\ executing' = executing \ {t}
  /\ UNCHANGED <<queue, config, launches, interrupted, svcVars, history>>

MutTaskChangeQueue(t) ==
  /\ Goto(t, "change", "done")
  /\ UNCHANGED <<shared, launches>>
TaskChangeQueue(t) ==
  /\ pc[t] = "change" /\ QueueUnlocked
  /\ ChangeQueue([pc EXCEPT ![t] = "done"])
  /\ UNCHANGED <<config, launches, interrupted, svcVars, history>>

\* The process ends: all but what has been sent is lost.  The service
\* starts again without a configuration.
Exit ==
  /\ queue' = <<>>
  /\ executing' = {}
  /\ config' = NoConfig
  /\ pc' = [t \in Task |-> IF pc[t] \in Reported THEN "done"
                          ELSE IF pc[t] = "new" THEN "new" ELSE "lost"]
  /\ launches' = [t \in Task |-> 0]
  /\ interrupted' = {}
  /\ svcPc' = "idle"
  /\ svcTask' = NoTask
  /\ seen' = {}
  /\ faulted' = FALSE
  /\ UNCHANGED <<answered, excluded>>

\* An exception of ChangeQueue on a task's thread is rethrown by EndInvoke in
\* the completion callback, where nothing catches it: the process ends.
TaskChangeQueueThrows(t) ==
  /\ pc[t] = "change" /\ QueueUnlocked
  /\ queue # <<>>
  /\ \/ config = NoConfig
     \/ \E i \in DOMAIN queue : Waiting(i) /\ ~Configured(queue[i])
  /\ Exit

Restart == CanRestart /\ Exit
-----------------------------------------------------------------------------
TaskStep(t) ==
  \/ Prepare(t)
  \/ LoopTest(t)
  \/ StartLaunch(t)
  \/ SendLaunchReport(t)
  \/ EndLaunch(t)
  \/ Conclusion(t)
  \/ BuildReport(t)
  \/ SendReport(t)
  \/ ExitTest(t)
  \/ RemoveTask(t)
  \/ TaskChangeQueue(t)
  \/ TaskChangeQueueThrows(t)

\* The handler that is running goes on.
ServiceStep ==
  \/ ServiceChangeQueue
  \/ \E t \in Task : KillInterrupt(t)
  \/ KillUnknown
  \/ KillScanThrows
  \/ KillReport
  \/ KillReportThrows
  \/ KillRemove

ServiceCall ==
  \/ \E c \in Answer : Configure(c)
  \/ \E t \in Task : AddOperation(t)
  \/ \E t \in Killable : KillQueued(t)
  \/ \E t \in Killable : KillSearch(t)

Next ==
  \/ ServiceCall
  \/ ServiceStep
  \/ \E t \in Task : TaskStep(t)
  \/ Restart

Spec == Init /\ [][Next]_vars

\* Threads are scheduled, a handler that began ends, and a strategy's calls
\* return (the 1C process exits, the FTP server answers or refuses).
Fairness == WF_vars(ServiceStep) /\ \A t \in Task : WF_vars(TaskStep(t))
FairSpec == Spec /\ Fairness
-----------------------------------------------------------------------------
(***************************************************************************)
(* Properties.                                                             *)
(***************************************************************************)
\* No pool ever has more slots taken than some configuration that was handed
\* out allows, whatever the interleaving of launches, ends and interrupts of
\* tasks (the check in ChangeQueue, QueueManager.cs:139).  With one value of
\* main.max_threads this is the limit itself.
PoolLimit ==
  \A p \in Pool : Holders(p) # {} =>
    \E c \in Answer \ {NoConfig} : Cardinality(Holders(p)) <= c.maxThreads

\* A thread inside TaskLaunch has its task in executedProcess unless the task
\* was interrupted; so ExecutedProcessCount and IsProcessLaunch overlook only
\* interrupted tasks (QueueManager.cs:24, 64).
ActiveTaskListed ==
  \A t \in Task : pc[t] \in InLaunch => t \in executing \cup interrupted

\* A slot whose thread has ended is about to be freed by the KillTask that
\* interrupted it.  So no slot leaks, but that of a task whose report KillTask
\* could not build (QueueManager.cs:103-104, 202-204).
NoLeakedSlot ==
  \A t \in executing :
    \/ pc[t] \in InLaunch
    \/ svcPc \in {"interrupted", "reported"} /\ svcTask = t
    \/ t \in interrupted \cap Volatile

\* No lost wake-up: while commands wait, a slot is taken or a ChangeQueue is
\* still to come, unless an earlier ChangeQueue threw on the service thread.
\* ChangeQueue launches one task per call, so this needs the slots of a
\* finished task to be free before its ChangeQueue (QueueManager.cs:204-205).
NoLostWakeup ==
  queue # <<>> =>
    \/ executing # {}
    \/ svcPc \in {"change", "excluded"}
    \/ \E t \in Task : pc[t] = "change"
    \/ faulted

\* A waiting command is never overtaken by a later one that needs every pool
\* it needs: the first-fit search lets only commands on other pools pass.
NoOvertaking ==
  [][\A i, j \in DOMAIN queue :
       (i < j /\ pools[queue[i]] \subseteq pools[queue[j]]
              /\ pc'[queue[j]] = "prepare")
         => pc'[queue[i]] # "queued"]_vars

\* The slot of an interrupted task is eventually freed, whichever of KillTask
\* and TaskLaunch comes first, if its report can be built (QueueManager.cs:103,
\* 104, 202).
InterruptedSlotFreed ==
  \A t \in Task \ Volatile : (t \in interrupted) ~> (t \notin executing)

\* What the central service sees of all this is a TaskService: each command
\* runs once at most and is answered when it ends, interrupted or not, and in
\* no interleaving does a thread end without its report or a command run again
\* (QueueManager.cs:97, 148, 181, 197).
Phase(t) == IF pc[t] \in {"new", "lost"} THEN pc[t]
            ELSE IF pc[t] = "queued" THEN "waiting"
            ELSE IF pc[t] \in Reported THEN "over" ELSE "running"
TS == INSTANCE TaskService WITH phase <- [t \in Task |-> Phase(t)]
ImplementsTaskService == TS!Spec

\* The same with the fairness of TaskService, while the process lives and the
\* configuration knows the bases: every command taken in runs and ends.
ImplementsFairTaskService == TS!FairSpec

\* A task reported as excluded from the queue ("Задача исключена из очереди",
\* QueueManager.cs:90) is not launched afterwards.
ExcludedNeverLaunched ==
  [][\A t \in Task : guid[t] \in excluded =>
       ~(pc[t] = "queued" /\ pc'[t] = "prepare")]_vars
=============================================================================
