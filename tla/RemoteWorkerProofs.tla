------------------------- MODULE RemoteWorkerProofs -------------------------
(***************************************************************************)
(* Theorems about RemoteWorker: its handlers use the queue as RemoteQueue  *)
(* allows, so that all that is proved of the queue holds of the service;   *)
(* and no command is queued under a configuration older than the one the   *)
(* central service had when it sent the command.                           *)
(***************************************************************************)
EXTENDS RemoteWorker, RemoteQueueRefinement

LEMMA WorkerConstants ==
  /\ MaxDate \in Nat \ {0}
  /\ confAt \in [1..MaxDate -> Answer \ {NoConfig}]
  /\ CentralFails => NoConfig \in Answer
  /\ Killable = Task
BY RemoteWorkerAssumption
-----------------------------------------------------------------------------
(***************************************************************************)
(* The worker implements the queue's specification.                        *)
(***************************************************************************)
\* Installing a configuration is the queue's Configure, or changes nothing.
LEMMA InstallConfigures ==
  ASSUME NEW c \in Answer, svcPc = "idle", Install(c)
  PROVE  ServiceCall \/ UNCHANGED vars
<1>1. CASE c = config
  BY <1>1 DEF Install, vars, svcVars, history
<1>2. CASE c # config
  <2>1. Configure(c)
    BY <1>2 DEF Install, Configure
  <2>2. QED BY <2>1 DEF ServiceCall
<1>3. QED BY <1>1, <1>2

\* The handler and the queue share one thread: while a handler is before its
\* call of the queue, the queue's part of the thread is idle.
HandlerAlone == stage # "idle" => svcPc = "idle"

\* The configuration the handler works with.
ConfInv ==
  /\ centralDate \in 1..MaxDate
  /\ installed \in 0..centralDate
  /\ confDate \in Nat
  /\ installed > 0 => config # NoConfig
  /\ stage # "idle" => call \in Call /\ call.date <= centralDate
  /\ ~failedConfig => confDate <= installed
  /\ stage = "prepare" => call.date <= installed
  /\ stage = "dispatch" /\ ~updateRequire /\ ~failedConfig =>
       call.date <= confDate

WInv == HandlerAlone /\ ConfInv

LEMMA WInvInit == WInit => WInv
BY WorkerConstants DEF WInit, Init, WInv, HandlerAlone, ConfInv

\* Steps that leave handler and configuration alone keep the invariant, if
\* they leave the service thread alone while a handler runs.
LEMMA WInvFrame ==
  ASSUME WInv, UNCHANGED <<handlerVars, confVars, outerVars, config>>,
         stage # "idle" => svcPc' = svcPc
  PROVE  WInv'
BY DEF WInv, HandlerAlone, ConfInv, handlerVars, confVars, outerVars

LEMMA WInvServiceStep == ASSUME WInv, WServiceStep PROVE WInv'
<1>1. UNCHANGED <<handlerVars, confVars, outerVars, config>>
  BY DEF WServiceStep, Quiet, Reports, workerVars, ServiceChangeQueue,
         KillInterrupt, KillUnknown, KillScanThrows, KillReport,
     KillReportThrows, KillRemove
<1>2. svcPc # "idle"
  BY DEF WServiceStep, ServiceChangeQueue, KillInterrupt, KillUnknown,
         KillScanThrows, KillReport, KillReportThrows, KillRemove
<1>3. QED
  BY <1>1, <1>2, WInvFrame DEF WInv, HandlerAlone

\* After a restart there is no handler and no configuration.
LEMMA WInvRestart ==
  ASSUME WInv, Exit, NEW v, WorkerRestart(v) PROVE WInv'
BY DEF WInv, HandlerAlone, ConfInv, Exit, WorkerRestart

LEMMA WInvTaskStep ==
  ASSUME WInv, NEW t \in Task, WTaskStep(t) PROVE WInv'
<1>1. CASE TaskChangeQueueThrows(t) /\ WorkerRestart(version)
  BY <1>1, WInvRestart DEF TaskChangeQueueThrows
<1>2. CASE ~(TaskChangeQueueThrows(t) /\ WorkerRestart(version))
  <2>1. UNCHANGED <<handlerVars, confVars, outerVars>>
    BY <1>2 DEF WTaskStep, Quiet, Reports, ReportsLaunch, workerVars
  <2>2. UNCHANGED <<config, svcPc>>
    BY <1>2 DEF WTaskStep, Prepare, LoopTest, StartLaunch, SendLaunchReport,
            EndLaunch, Conclusion, BuildReport, SendReport, ExitTest,
            RemoveTask, TaskChangeQueue, shared, svcVars
  <2>3. QED BY <2>1, <2>2, WInvFrame
<1>3. QED BY <1>1, <1>2

LEMMA WInvHandlerStep == ASSUME WInv, HandlerStep PROVE WInv'
<1> USE DEF WInv, HandlerAlone, ConfInv, confVars, outerVars, handlerVars,
            vars, svcVars, RequireDone, UpToDate
<1>1. CASE RequireSkip
  BY <1>1 DEF RequireSkip, Call
<1>2. CASE RequestFails
  BY <1>2 DEF RequestFails, Install
<1>3. CASE RequestConfiguration
  BY <1>3, WorkerConstants DEF RequestConfiguration, Install, Call
<1>4. CASE PrepareSystem
  BY <1>4, WorkerConstants DEF PrepareSystem, Call
<1>5. CASE Refuse
  BY <1>5 DEF Refuse, Dispatching
<1>6. CASE Enqueue
  BY <1>6 DEF Enqueue, AddOperation, HandlerEnds
<1>7. CASE KillTask
  BY <1>7 DEF KillTask, KillQueued, KillSearch, HandlerEnds
<1>8. CASE ProcessCheck
  BY <1>8 DEF ProcessCheck, HandlerEnds
<1>9. QED
  BY <1>1, <1>2, <1>3, <1>4, <1>5, <1>6, <1>7, <1>8 DEF HandlerStep

LEMMA WInvStep == WInv /\ [WNext]_wvars => WInv'
<1> SUFFICES ASSUME WInv, [WNext]_wvars PROVE WInv'
  OBVIOUS
<1>1. CASE Reconfigure
  BY <1>1, WorkerConstants DEF Reconfigure, WInv, HandlerAlone, ConfInv, Call,
                               vars, svcVars, handlerVars, confVars
<1>2. ASSUME NEW c \in Call, Receive(c) PROVE WInv'
  BY <1>2 DEF Receive, WInv, HandlerAlone, ConfInv, vars, svcVars, confVars,
              outerVars
<1>3. CASE HandlerStep
  BY <1>3, WInvHandlerStep
<1>4. CASE WServiceStep
  BY <1>4, WInvServiceStep
<1>5. ASSUME NEW s, CheckExecuted(s) PROVE WInv'
  BY <1>5, WInvFrame DEF CheckExecuted, vars, svcVars
<1>6. ASSUME NEW t \in Task, WTaskStep(t) PROVE WInv'
  BY <1>6, WInvTaskStep
<1>7. CASE WRestart
  BY <1>7, WInvRestart DEF WRestart, Restart
<1>8. CASE UpdaterRestarts
  BY <1>8, WInvRestart DEF UpdaterRestarts
<1>9. CASE UNCHANGED wvars
  BY <1>9, WInvFrame DEF wvars, workerVars, vars, svcVars
<1>10. QED
  BY <1>1, <1>2, <1>3, <1>4, <1>5, <1>6, <1>7, <1>8, <1>9 DEF WNext

LEMMA WInvariant == WSpec => []WInv
BY WInvInit, WInvStep, PTL DEF WSpec

\* The date the service remembers is never newer than its configuration.
THEOREM DateHonest == WSpec => []ConfDateHonest
<1>1. WInv => ConfDateHonest
  BY DEF WInv, ConfInv, ConfDateHonest
<1> QED
  BY <1>1, WInvariant, PTL

\* A handler about to queue a command has a configuration.
THEOREM HasConfig == WSpec => []EnqueueHasConfig
<1>1. WInv => EnqueueHasConfig
  BY DEF WInv, ConfInv, EnqueueHasConfig, Dispatching, Call
<1> QED
  BY <1>1, WInvariant, PTL
-----------------------------------------------------------------------------
(***************************************************************************)
(* A command is queued by one step only, and under a configuration at      *)
(* least as new as the command.                                            *)
(***************************************************************************)
\* A step of the queue other than AddOperation queues nothing.
LEMMA QueuesNothing ==
  ASSUME TypeInv, ServiceStep \/ (\E t \in Task : TaskStep(t)) \/ Exit,
         NEW u \in Task, pc[u] = "new"
  PROVE  pc'[u] # "queued"
<1> USE DEF TypeInv, TypeOK
<1>1. ASSUME NEW f \in [Task -> TaskPc], f[u] # "queued", ChangeQueue(f)
      PROVE  pc'[u] # "queued"
  BY <1>1 DEF ChangeQueue
<1>2. CASE ServiceStep
  BY <1>1, <1>2 DEF ServiceStep, ServiceChangeQueue, ChangeQueueThrows,
     KillInterrupt, KillUnknown, KillScanThrows, KillReport,
     KillReportThrows, KillRemove
<1>3. CASE Exit
  BY <1>3 DEF Exit
<1>4. ASSUME NEW t \in Task, TaskStep(t) PROVE pc'[u] # "queued"
  <2>1. CASE TaskChangeQueue(t)
    <3>1. /\ [pc EXCEPT ![t] = "done"] \in [Task -> TaskPc]
          /\ [pc EXCEPT ![t] = "done"][u] # "queued"
      BY DEF TaskPc, InLaunch
    <3>2. QED BY <1>1, <2>1, <3>1 DEF TaskChangeQueue
  <2>2. CASE ~TaskChangeQueue(t)
    BY <1>3, <1>4, <2>2
       DEF TaskStep, Goto, Prepare, LoopTest, StartLaunch, SendLaunchReport,
           EndLaunch, Conclusion, BuildReport, SendReport, ExitTest, RemoveTask,
           TaskChangeQueueThrows
  <2>3. QED BY <2>1, <2>2
<1>5. QED BY <1>2, <1>3, <1>4

LEMMA QueueingIsFresh ==
  ASSUME WInv, TypeInv, [WNext]_wvars,
         NEW t \in Task, pc[t] = "new", pc'[t] = "queued"
  PROVE  config # NoConfig /\ installed >= call.date
<1>1. Enqueue
  <2>1. pc' # pc
    BY DEF TypeInv, TypeOK
  <2>2. CASE HandlerStep
    BY <2>1, <2>2
       DEF HandlerStep, RequireSkip, RequestFails, RequestConfiguration, Install,
           PrepareSystem, Refuse, KillTask, KillQueued, KillSearch,
           ProcessCheck, vars
  <2>3. CASE WServiceStep
    <3>1. ServiceStep
      BY <2>3 DEF WServiceStep, ServiceStep
    <3>2. QED BY <3>1, QueuesNothing
  <2>4. ASSUME NEW u \in Task, WTaskStep(u) PROVE FALSE
    <3>1. TaskStep(u)
      BY <2>4 DEF WTaskStep, TaskStep
    <3>2. QED BY <3>1, QueuesNothing
  <2>5. CASE WRestart \/ UpdaterRestarts
    BY <2>5, QueuesNothing DEF WRestart, Restart, UpdaterRestarts
  <2>6. QED
    BY <2>1, <2>2, <2>3, <2>4, <2>5
       DEF WNext, Reconfigure, Receive, CheckExecuted, vars, wvars
<1>2. /\ call \in Call /\ call.date <= confDate /\ confDate <= installed
      /\ installed > 0 => config # NoConfig
      /\ installed \in Nat /\ confDate \in Nat
  BY <1>1 DEF Enqueue, Dispatching, WInv, ConfInv
<1>3. QED
  BY <1>2, WorkerConstants DEF Call
-----------------------------------------------------------------------------
(***************************************************************************)
(* Each step of the worker is a step of the queue, or none.                *)
(***************************************************************************)
LEMMA HandlerRefines ==
  ASSUME WInv, HandlerStep PROVE ServiceCall \/ UNCHANGED vars
<1>1. CASE RequireSkip \/ PrepareSystem \/ Refuse \/ ProcessCheck
  BY <1>1 DEF RequireSkip, PrepareSystem, Refuse, ProcessCheck
<1>2. CASE RequestFails
  <2>1. NoConfig \in Answer /\ Install(NoConfig) /\ svcPc = "idle"
    BY <1>2, WorkerConstants DEF RequestFails, WInv, HandlerAlone
  <2>2. QED BY <2>1, InstallConfigures
<1>3. CASE RequestConfiguration
  <2>1. Install(confAt[centralDate]) /\ svcPc = "idle"
    BY <1>3 DEF RequestConfiguration, WInv, HandlerAlone
  <2>2. confAt[centralDate] \in Answer
    BY WorkerConstants DEF WInv, ConfInv
  <2>3. QED BY <2>1, <2>2, InstallConfigures
<1>4. CASE Enqueue
  <2>1. call.task \in Task
    BY <1>4 DEF Enqueue, Dispatching, WInv, ConfInv, Call
  <2>2. QED BY <1>4, <2>1 DEF Enqueue, ServiceCall
<1>5. CASE KillTask
  <2>1. call.task \in Killable
    BY <1>5, WorkerConstants DEF KillTask, Dispatching, WInv, ConfInv, Call
  <2>2. QED BY <1>5, <2>1 DEF KillTask, ServiceCall
<1>6. QED
  BY <1>1, <1>2, <1>3, <1>4, <1>5 DEF HandlerStep

\* A step of the worker is a step of the queue, the end of its process, or none.
LEMMA StepOfQueue ==
  WInv /\ [WNext]_wvars => [ServiceCall \/ ServiceStep \/ \E t \in Task : TaskStep(t)]_vars
                             \/ Exit
<1> SUFFICES ASSUME WInv, WNext
             PROVE  \/ ServiceCall \/ ServiceStep \/ \E t \in Task : TaskStep(t)
                    \/ Exit \/ UNCHANGED vars
  BY DEF wvars
<1>1. CASE Reconfigure \/ \E c \in Call : Receive(c)
  BY <1>1 DEF Reconfigure, Receive
<1>2. CASE HandlerStep
  BY <1>2, HandlerRefines
<1>3. CASE WServiceStep
  BY <1>3 DEF WServiceStep, ServiceStep
<1>4. ASSUME NEW s, CheckExecuted(s) PROVE UNCHANGED vars
  BY <1>4 DEF CheckExecuted
<1>5. ASSUME NEW t \in Task, WTaskStep(t) PROVE TaskStep(t)
  BY <1>5 DEF WTaskStep, TaskStep
<1>6. CASE WRestart \/ UpdaterRestarts
  BY <1>6 DEF WRestart, Restart, UpdaterRestarts
<1>7. QED
  BY <1>1, <1>2, <1>3, <1>4, <1>5, <1>6 DEF WNext

LEMMA StepRefines ==
  ASSUME CanRestart PROVE WInv /\ [WNext]_wvars => [Next]_vars
BY StepOfQueue DEF Next, Restart

\* The remote worker implements the queue's specification.
THEOREM WorkerRefinesQueue == ASSUME CanRestart PROVE WSpec => Spec
<1>1. WInit => Init
  BY DEF WInit
<1> QED
  BY <1>1, StepRefines, WInvariant, PTL DEF WSpec, Spec

-----------------------------------------------------------------------------
(***************************************************************************)
(* What is proved of the queue holds of the service: the queue's invariants *)
(* survive the end of the process too, so this needs no refinement.        *)
(***************************************************************************)
LEMMA QueueInit == WInit => TypeInv /\ SlotInv /\ PoolLimit /\ NoLostWakeup
<1>1. WInit => Init
  BY DEF WInit
<1>2. Init => PoolLimit /\ NoLostWakeup
  BY DEF Init, PoolLimit, Holders, NoLostWakeup
<1> QED
  BY <1>1, <1>2, TypeInit, SlotInit

LEMMA QueueExit ==
  ASSUME TypeInv, SlotInv, PoolLimit, Exit
  PROVE  TypeInv' /\ SlotInv' /\ PoolLimit' /\ NoLostWakeup'
<1>1. executing' \subseteq executing /\ NoLostWakeup'
  BY DEF Exit, NoLostWakeup
<1> QED
  BY <1>1, TypeExit, SlotExit, LimitShrink

LEMMA QueueStep ==
  WInv /\ TypeInv /\ SlotInv /\ PoolLimit /\ NoLostWakeup /\ [WNext]_wvars
    => (TypeInv /\ SlotInv /\ PoolLimit /\ NoLostWakeup)'
<1> SUFFICES ASSUME WInv, TypeInv, SlotInv, PoolLimit, NoLostWakeup, [WNext]_wvars
             PROVE  (TypeInv /\ SlotInv /\ PoolLimit /\ NoLostWakeup)'
  OBVIOUS
<1>1. [Next]_vars \/ Exit
  BY StepOfQueue DEF Next
<1> QED
  BY <1>1, QueueExit, TypeStep, SlotStep, LimitStep, WakeupStep

LEMMA QueueInvariants ==
  WSpec => [](TypeInv /\ SlotInv /\ PoolLimit /\ NoLostWakeup)
BY QueueInit, QueueStep, WInvariant, PTL DEF WSpec

\* No configuration change, update or refusal makes the service exceed a limit
\* of its pools, lose a slot, or leave commands waiting with nothing to wake
\* them.
THEOREM WorkerKeepsSlots == WSpec => [](PoolLimit /\ NoLeakedSlot /\ NoLostWakeup)
<1>1. SlotInv => NoLeakedSlot
  BY DEF SlotInv, SlotHeld, VictimListed, NoLeakedSlot
<1> QED
  BY <1>1, QueueInvariants, PTL

\* The whole remote service, with its handlers, callbacks, configuration and
\* updates, keeps the promises of TaskService on which the central service
\* relies.
THEOREM WorkerIsTaskService ==
  ASSUME CanRestart PROVE WSpec => ImplementsTaskService
BY WorkerRefinesQueue, QueueIsTaskService, PTL

\* A command is queued only under a configuration as new as the command.
THEOREM FreshQueueing == WSpec => NoStaleQueueing
<1> DEFINE Fresh == \A t \in Task : pc[t] = "new" /\ pc'[t] = "queued" =>
                      config # NoConfig /\ installed >= call.date
<1>1. WInv /\ TypeInv /\ [WNext]_wvars => Fresh
  BY QueueingIsFresh
<1>2. WInv /\ TypeInv /\ [WNext]_wvars => [Fresh]_wvars
  BY <1>1
<1> QED
  BY <1>2, WInvariant, QueueInvariants, PTL DEF WSpec, NoStaleQueueing
-----------------------------------------------------------------------------
(***************************************************************************)
(* Types.  A handler works with a command as long as it runs (ConfInv), so *)
(* what it stores of it is a task, or a date, that exists.                 *)
(***************************************************************************)
WorkerTypes ==
  /\ stage \in {"idle", "require", "prepare", "dispatch", "kill"}
  /\ call \in Call \cup {NoCall}
  /\ delivered \subseteq Task
  /\ confDate \in 0..MaxDate
  /\ updateRequire \in BOOLEAN
  /\ failedConfig \in BOOLEAN
  /\ interruptedTask \subseteq Task
  /\ checking \subseteq Task \cup {Service}
  /\ version \in Version
  /\ updating \in BOOLEAN

LEMMA WTypesInit == WInit => WorkerTypes
<1> SUFFICES ASSUME WInit PROVE WorkerTypes
  OBVIOUS
<1>1. confDate \in 0..MaxDate /\ version \in Version
  BY RemoteWorkerAssumption DEF WInit, RemoteWorkerAssumption
<1> QED
  BY <1>1 DEF WInit, WorkerTypes

LEMMA WTypesFrame ==
  ASSUME WorkerTypes, UNCHANGED <<handlerVars, confVars, outerVars, updating>>,
         interruptedTask' \subseteq Task, checking' \subseteq Task \cup {Service}
  PROVE  WorkerTypes'
BY DEF WorkerTypes, handlerVars, confVars, outerVars

LEMMA CallbackTypes ==
  ASSUME WorkerTypes, NEW thread \in Task \cup {Service}, NEW g, Callback(thread, g)
  PROVE  interruptedTask' \subseteq Task /\ checking' \subseteq Task \cup {Service}
BY DEF Callback, WorkerTypes

LEMMA RestartTypes ==
  ASSUME WorkerTypes, NEW v \in Version, WorkerRestart(v), updating' \in BOOLEAN
  PROVE  WorkerTypes'
<1>1. confDate' \in 0..MaxDate
  BY WorkerConstants DEF WorkerRestart
<1> QED
  BY <1>1 DEF WorkerRestart, WorkerTypes

LEMMA WTypesHandlerStep == ASSUME WInv, WorkerTypes, HandlerStep PROVE WorkerTypes'
<1>1. stage # "idle" /\ call \in Call
  BY DEF HandlerStep, RequireSkip, RequestFails, RequestConfiguration, PrepareSystem,
         Refuse, Enqueue, KillTask, ProcessCheck, Dispatching, WInv, ConfInv
<1>2. call.task \in Task /\ call.date \in 0..MaxDate
  BY <1>1, WorkerConstants DEF Call
<1> USE <1>1, <1>2 DEF WorkerTypes, RequireDone, confVars, reportVars, outerVars
<1>3. CASE RequireSkip
  BY <1>3 DEF RequireSkip
<1>4. CASE RequestFails
  BY <1>4 DEF RequestFails
<1>5. CASE RequestConfiguration
  BY <1>5 DEF RequestConfiguration
<1>6. CASE PrepareSystem
  BY <1>6 DEF PrepareSystem
<1>7. CASE Refuse
  BY <1>7 DEF Refuse
<1>8. CASE Enqueue
  BY <1>8 DEF Enqueue, HandlerEnds
<1>9. CASE KillTask
  BY <1>9, CallbackTypes DEF KillTask, HandlerEnds
<1>10. CASE ProcessCheck
  BY <1>10 DEF ProcessCheck, HandlerEnds
<1> QED
  BY <1>3, <1>4, <1>5, <1>6, <1>7, <1>8, <1>9, <1>10 DEF HandlerStep

LEMMA WTypesStep == WInv /\ WorkerTypes /\ [WNext]_wvars => WorkerTypes'
<1> SUFFICES ASSUME WInv, WorkerTypes, [WNext]_wvars PROVE WorkerTypes'
  OBVIOUS
<1>1. CASE Reconfigure
  BY <1>1 DEF Reconfigure, WorkerTypes, handlerVars, confVars, reportVars
<1>2. ASSUME NEW c \in Call, Receive(c) PROVE WorkerTypes'
  BY <1>2 DEF Receive, WorkerTypes, confVars, reportVars, outerVars, Call
<1>3. CASE HandlerStep
  BY <1>3, WTypesHandlerStep
<1>4. CASE WServiceStep
  <2>1. CASE Quiet
    BY <2>1, WTypesFrame DEF Quiet, workerVars, reportVars, WorkerTypes
  <2>2. ASSUME NEW g, Reports(Service, g) PROVE WorkerTypes'
    BY <2>2, CallbackTypes, WTypesFrame DEF Reports
  <2> QED
    BY <1>4, <2>1, <2>2 DEF WServiceStep
<1>5. ASSUME NEW s \in Task \cup {Service}, CheckExecuted(s) PROVE WorkerTypes'
  BY <1>5 DEF CheckExecuted, WorkerTypes, handlerVars, confVars, outerVars
<1>6. ASSUME NEW t \in Task, WTaskStep(t) PROVE WorkerTypes'
  <2>1. CASE Quiet
    BY <2>1, WTypesFrame DEF Quiet, workerVars, reportVars, WorkerTypes
  <2>2. CASE ReportsLaunch(t)
    BY <2>2, WTypesFrame DEF ReportsLaunch, WorkerTypes
  <2>3. CASE Reports(t, guid[t])
    BY <2>3, CallbackTypes, WTypesFrame DEF Reports
  <2>4. CASE WorkerRestart(version) /\ UNCHANGED updating
    BY <2>4, RestartTypes DEF WorkerTypes
  <2> QED
    BY <1>6, <2>1, <2>2, <2>3, <2>4 DEF WTaskStep
<1>7. CASE WRestart
  BY <1>7, RestartTypes DEF WRestart, WorkerTypes
<1>8. CASE UpdaterRestarts
  <2>1. version \in Version /\ versionAt[centralDate] \in Version
    BY RemoteWorkerAssumption DEF WorkerTypes, WInv, ConfInv, RemoteWorkerAssumption
  <2> QED
    BY <1>8, <2>1, RestartTypes DEF UpdaterRestarts
<1>9. CASE UNCHANGED wvars
  BY <1>9, WTypesFrame DEF wvars, workerVars, reportVars, WorkerTypes
<1> QED
  BY <1>1, <1>2, <1>3, <1>4, <1>5, <1>6, <1>7, <1>8, <1>9 DEF WNext

\* Every variable of the service keeps its type, whatever arrives, fails or is
\* updated; so the date remembered never exceeds what the central service has.
THEOREM WorkerTypeCorrect == WSpec => []WTypeOK
<1>1. TypeInv /\ WInv /\ WorkerTypes => WTypeOK
  BY WorkerConstants DEF TypeInv, WInv, ConfInv, WorkerTypes, WTypeOK
<1> QED
  BY <1>1, WTypesInit, WTypesStep, WInvariant, QueueInvariants, PTL DEF WSpec
=============================================================================
