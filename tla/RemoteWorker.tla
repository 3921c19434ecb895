---------------------------- MODULE RemoteWorker ----------------------------
(***************************************************************************)
(* URBDRemoteWorker: the handlers of the remote service around the queue   *)
(* of RemoteQueue.  Every handler first brings the configuration up to     *)
(* date; an execute command is then queued, or refused while an update or  *)
(* a working configuration is awaited.  Every report passes through        *)
(* OperationCallback, which also starts the updater.                       *)
(*                                                                         *)
(* The handlers run on the service thread, one at a time, so the stages of *)
(* a handler interleave with task threads only.                            *)
(***************************************************************************)
EXTENDS RemoteQueue

CONSTANTS
  MaxDate,       \* bound: changes of the configuration on the central service
  confAt,        \* confAt[d]: the configuration the central service has at date d
  Version,       \* versions of the remote service
  versionAt,     \* versionAt[d]: main.remote_service_version at date d
  CentralFails,  \* TRUE: RequestConfiguration may fail three times
  PrepareFails,  \* TRUE: PrepareSystem of some builder may throw
  Interruptible, \* bound: the commands the central service interrupts
  NoCall         \* no handler is running

ASSUME RemoteWorkerAssumption ==
  /\ MaxDate \in Nat \ {0}
  /\ confAt \in [1..MaxDate -> Answer \ {NoConfig}]
  /\ versionAt \in [1..MaxDate -> Version]
  /\ CentralFails \in BOOLEAN
  /\ PrepareFails \in BOOLEAN
  /\ CentralFails => NoConfig \in Answer
  /\ Interruptible \subseteq Task
  /\ Killable = Task

Op   == {"execute", "interrupt", "check"}
Call == [op : Op, task : Task, date : 1..MaxDate]

ASSUME NoCallAssumption == NoCall \notin Call

VARIABLES
  stage,           \* where the handler is: before, in or after RequireConfiguration
  call,            \* the command it was called with
  delivered,       \* execute commands that have arrived
  confDate,        \* configurationChangeDate; 0 is DateTime.MinValue
  updateRequire,   \* isUpdateRequire
  failedConfig,    \* isFailedConfig
  interruptedTask, \* interruptedTask: commands refused because of an update
  checking,        \* threads between a report and the test of ExecutedProcessCount
  version,         \* currentVersion
  centralDate,     \* date of the configuration the central service has
  updating,        \* updater.exe has been started
  installed        \* centralDate when config was fetched (history)

handlerVars == <<stage, call, delivered>>
confVars    == <<confDate, updateRequire, failedConfig, installed>>
reportVars  == <<interruptedTask, checking>>
outerVars   == <<version, centralDate>>
workerVars  == <<handlerVars, confVars, reportVars, outerVars, updating>>
wvars       == <<vars, workerVars>>

Service == NoTask   \* the service thread, as a member of checking

WTypeOK ==
  /\ TypeOK
  /\ stage \in {"idle", "require", "prepare", "dispatch", "kill"}
  /\ call \in Call \cup {NoCall}
  /\ delivered \subseteq Task
  /\ confDate \in 0..MaxDate
  /\ updateRequire \in BOOLEAN
  /\ failedConfig \in BOOLEAN
  /\ interruptedTask \subseteq Task
  /\ checking \subseteq Task \cup {Service}
  /\ version \in Version
  /\ centralDate \in 1..MaxDate
  /\ updating \in BOOLEAN
  /\ installed \in 0..MaxDate

WInit ==
  /\ Init
  /\ stage = "idle"
  /\ call = NoCall
  /\ delivered = {}
  /\ confDate = 0
  /\ updateRequire = FALSE
  /\ failedConfig = FALSE
  /\ interruptedTask = {}
  /\ checking = {}
  /\ version = versionAt[1]
  /\ centralDate = 1
  /\ updating = FALSE
  /\ installed = 0
-----------------------------------------------------------------------------
(***************************************************************************)
(* The world outside: the central service, whose configuration changes and *)
(* which stamps each command with the date of the configuration it knows.  *)
(***************************************************************************)
Reconfigure ==
  /\ centralDate < MaxDate
  /\ centralDate' = centralDate + 1
  /\ UNCHANGED <<vars, handlerVars, confVars, reportVars, version, updating>>

\* A command arrives, perhaps late: its date may be out of date by now.  An
\* execute command arrives once; a retried one is another element of Task.
Receive(c) ==
  /\ stage = "idle" /\ svcPc = "idle" /\ Service \notin checking
  /\ c.date <= centralDate
  /\ \/ c.op = "execute"   /\ c.task \notin delivered
     \/ c.op = "interrupt" /\ c.task \in Interruptible
     \/ c.op = "check"     /\ c.task \in Interruptible
  /\ stage' = "require"
  /\ call' = c
  /\ delivered' = IF c.op = "execute" THEN delivered \cup {c.task} ELSE delivered
  /\ UNCHANGED <<vars, confVars, reportVars, outerVars, updating>>
-----------------------------------------------------------------------------
(***************************************************************************)
(* RequireConfiguration.                                                   *)
(***************************************************************************)
RequireDone(s) == stage' = s /\ UNCHANGED <<call, delivered>>
MutUpToDate == confDate > 0 \/ updateRequire
UpToDate    == call.date <= confDate \/ updateRequire

RequireSkip ==
  /\ stage = "require" /\ UpToDate
  /\ RequireDone("dispatch")
  /\ UNCHANGED <<vars, confVars, reportVars, outerVars, updating>>

\* remoteConfigurationManager.RemoteConfiguration = c, seen at once by the queue.
MutInstall(c) ==
  /\ config' = c /\ queue' = <<>>
  /\ UNCHANGED <<executing, pc, launches, interrupted, svcVars, history>>
Install(c) ==
  /\ config' = c
  /\ UNCHANGED <<queue, executing, pc, launches, interrupted, svcVars, history>>

\* The three attempts fail: null replaces the configuration that was there.
MutRequestFails ==
  /\ stage = "require" /\ ~UpToDate
  /\ CentralFails
  /\ Install(NoConfig)
  /\ installed' = 0
  /\ RequireDone("dispatch")
  /\ UNCHANGED <<confDate, updateRequire, failedConfig, reportVars, outerVars,
                 updating>>
RequestFails ==
  /\ stage = "require" /\ ~UpToDate
  /\ CentralFails
  /\ Install(NoConfig)
  /\ installed' = 0
  /\ failedConfig' = TRUE
  /\ RequireDone("dispatch")
  /\ UNCHANGED <<confDate, updateRequire, reportVars, outerVars, updating>>

\* The central service answers with the configuration it has now; a version
\* other than this one's ends the handler's search for a configuration.
RequestConfiguration ==
  /\ stage = "require" /\ ~UpToDate
  /\ Install(confAt[centralDate])
  /\ installed' = centralDate
  /\ IF versionAt[centralDate] # version
       THEN updateRequire' = TRUE /\ RequireDone("dispatch")
       ELSE RequireDone("prepare") /\ UNCHANGED updateRequire
  /\ UNCHANGED <<confDate, failedConfig, reportVars, outerVars, updating>>

\* PrepareSystem of the builders.  The date taken is the command's, not that
\* of the configuration fetched, which may be newer.
MutPrepareSystem ==
  /\ stage = "prepare"
  /\ confDate' = centralDate
  /\ failedConfig' = FALSE
  /\ RequireDone("dispatch")
  /\ UNCHANGED <<vars, installed, updateRequire, reportVars, outerVars,
                 updating>>
PrepareSystem ==
  /\ stage = "prepare"
  /\ \/ confDate' = call.date /\ failedConfig' = FALSE
     \/ PrepareFails /\ failedConfig' = TRUE /\ UNCHANGED confDate
     \* main.max_graphobject_items does not parse, after the date was taken
     \/ PrepareFails /\ failedConfig' = TRUE /\ confDate' = call.date
  /\ RequireDone("dispatch")
  /\ UNCHANGED <<vars, installed, updateRequire, reportVars, outerVars,
                 updating>>
-----------------------------------------------------------------------------
(***************************************************************************)
(* OperationCallback: the message is replaced, the report sent, and the    *)
(* updater started if no task is listed as running any more.               *)
(***************************************************************************)
Callback(thread, g) ==
  LET marked == {t \in interruptedTask : guid[t] = g}
  IN /\ IF updateRequire /\ marked # {}
          THEN \E t \in marked : interruptedTask' = interruptedTask \ {t}
          ELSE UNCHANGED interruptedTask
     /\ checking' = checking \cup {thread}

\* Lines after the report: the count of running tasks is read later than the
\* report is sent, and the thread goes on only after that.
CheckExecuted(thread) ==
  /\ thread \in checking
  /\ checking' = checking \ {thread}
  /\ updating' = (updating \/ (updateRequire /\ executing = {}))
  /\ UNCHANGED <<vars, handlerVars, confVars, interruptedTask, outerVars>>
-----------------------------------------------------------------------------
(***************************************************************************)
(* The second half of the handlers.                                        *)
(***************************************************************************)
Dispatching(op) == stage = "dispatch" /\ call.op = op
MutHandlerEnds  == stage' = "idle" /\ call' = call.task /\ UNCHANGED delivered
HandlerEnds     == stage' = "idle" /\ call' = NoCall /\ UNCHANGED delivered

Refuse ==
  /\ Dispatching("execute") /\ (updateRequire \/ failedConfig)
  /\ interruptedTask' = IF updateRequire THEN interruptedTask \cup {call.task}
                                         ELSE interruptedTask
  /\ RequireDone("kill")
  /\ UNCHANGED <<vars, confVars, checking, outerVars, updating>>

Enqueue ==
  /\ Dispatching("execute") /\ ~updateRequire /\ ~failedConfig
  /\ AddOperation(call.task)
  /\ HandlerEnds
  /\ UNCHANGED <<confVars, reportVars, outerVars, updating>>

\* KillTask up to its first report or to the search of executedProcess, for a
\* refused command or an interrupt.  It throws when it cannot build a strategy:
\* no configuration, or none for the base.
KillTask ==
  /\ stage = "kill" \/ Dispatching("interrupt")
  /\ \/ ~Configured(call.task) /\ UNCHANGED <<vars, reportVars>>
     \/ KillQueued(call.task) /\ Callback(Service, guid[call.task])
     \/ KillSearch(call.task) /\ UNCHANGED reportVars
  /\ HandlerEnds
  /\ UNCHANGED <<confVars, outerVars, updating>>

\* ServiceProcessCheck only reads.
ProcessCheck ==
  /\ Dispatching("check")
  /\ HandlerEnds
  /\ UNCHANGED <<vars, confVars, reportVars, outerVars, updating>>
-----------------------------------------------------------------------------
(***************************************************************************)
(* Steps of the queue, with the callback of those that send a report.      *)
(***************************************************************************)
Quiet == UNCHANGED workerVars

Reports(thread, g) ==
  /\ Callback(thread, g)
  /\ UNCHANGED <<handlerVars, confVars, outerVars, updating>>

\* A launch report: only the test of the running tasks applies to it.
ReportsLaunch(t) ==
  /\ checking' = checking \cup {t}
  /\ UNCHANGED <<handlerVars, confVars, interruptedTask, outerVars,
                 updating>>

WServiceStep ==
  /\ Service \notin checking
  /\ \/ ServiceChangeQueue /\ Quiet
     \/ (\E t \in Task : KillInterrupt(t)) /\ Quiet
     \/ KillUnknown /\ Reports(Service, guid[svcTask])
     \/ KillScanThrows /\ Quiet
     \/ KillReport /\ Reports(Service, guid[svcTask])
     \/ KillReportThrows /\ Quiet
     \/ KillRemove /\ Quiet

\* The process has gone; what the worker keeps in memory starts afresh, in
\* version v.
WorkerRestart(v) ==
  /\ stage' = "idle" /\ call' = NoCall /\ UNCHANGED delivered
  /\ confDate' = 0 /\ installed' = 0
  /\ updateRequire' = FALSE /\ failedConfig' = FALSE
  /\ interruptedTask' = {} /\ checking' = {}
  /\ version' = v
  /\ UNCHANGED centralDate

WTaskStep(t) ==
  /\ t \notin checking
  /\ \/ /\ \/ Prepare(t) \/ LoopTest(t) \/ StartLaunch(t) \/ EndLaunch(t)
           \/ Conclusion(t) \/ BuildReport(t) \/ ExitTest(t) \/ RemoveTask(t)
           \/ TaskChangeQueue(t)
        /\ Quiet
     \/ SendLaunchReport(t) /\ ReportsLaunch(t)
     \/ SendReport(t) /\ Reports(t, guid[t])
     \/ /\ TaskChangeQueueThrows(t)
        /\ WorkerRestart(version) /\ UNCHANGED updating

WRestart == Restart /\ WorkerRestart(version) /\ UNCHANGED updating

\* The updater stops the service, running tasks or not, copies the files the
\* central service publishes and starts the new version.  If it copies nothing,
\* or breaks off and leaves the service stopped, with no call to answer, until
\* somebody starts what is there, this may be the old version.
UpdaterRestarts ==
  /\ updating /\ updating' = FALSE
  /\ Exit
  /\ \E v \in {version, versionAt[centralDate]} : WorkerRestart(v)
-----------------------------------------------------------------------------
HandlerStep ==
  \/ RequireSkip \/ RequestFails \/ RequestConfiguration \/ PrepareSystem
  \/ Refuse \/ Enqueue \/ KillTask \/ ProcessCheck

WNext ==
  \/ Reconfigure
  \/ \E c \in Call : Receive(c)
  \/ HandlerStep
  \/ WServiceStep
  \/ \E thread \in Task \cup {Service} : CheckExecuted(thread)
  \/ \E t \in Task : WTaskStep(t)
  \/ WRestart
  \/ UpdaterRestarts

WSpec == WInit /\ [][WNext]_wvars

\* As for the queue; the updater too ends its work.
WFairness ==
  /\ WF_wvars(HandlerStep) /\ WF_wvars(WServiceStep)
  /\ WF_wvars(CheckExecuted(Service)) /\ WF_wvars(UpdaterRestarts)
  /\ \A t \in Task : WF_wvars(CheckExecuted(t)) /\ WF_wvars(WTaskStep(t))
WFairSpec == WSpec /\ WFairness
-----------------------------------------------------------------------------
(***************************************************************************)
(* Properties.                                                             *)
(***************************************************************************)
\* A command is queued only under a configuration at least as new as the one
\* the central service had when it sent the command, however late commands
\* arrive and whatever failed before (URBDRemoteWorker.cs:123, 147).
NoStaleQueueing ==
  [][\A t \in Task : pc[t] = "new" /\ pc'[t] = "queued" =>
       config # NoConfig /\ installed >= call.date]_wvars

\* The date remembered never promises more than the configuration holds: the
\* service does not skip a request it needs (URBDRemoteWorker.cs:147).
ConfDateHonest == confDate > 0 /\ ~failedConfig => confDate <= installed

\* A handler about to queue a command has a configuration, so the exception of
\* a missing one cannot strike between AddOperation and its ChangeQueue; only
\* the tasks queued before are exposed to it (URBDRemoteWorker.cs:77, 86).
EnqueueHasConfig ==
  Dispatching("execute") /\ ~updateRequire /\ ~failedConfig => config # NoConfig

\* The single service thread always comes back: no chain of lock, callback and
\* exception leaves the service deaf (RemoteService.cs:18).
HandlerReturns ==
  (stage # "idle" \/ svcPc # "idle" \/ Service \in checking)
    ~> (stage = "idle" /\ svcPc = "idle" /\ Service \notin checking)
=============================================================================
