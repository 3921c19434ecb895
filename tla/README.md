# URBD: TLA+ models and proofs

URBD distributes work over 1C:Enterprise 7.7 databases ("bases").  One *central
service* keeps the schedule, the configuration and the results in a database; a
*remote service* on every 1C server receives commands, queues them, and runs
each as a task on a thread of its own: an exchange that starts 1C in batch
mode, a copy of external directories over FTP, a collection of 1C message logs.
The services call each other over WCF, through one-way and request/reply
operations that are retried when they fail.

This directory models the two services where they are concurrent or meet
something that is: the remote service's queue and handlers, the three kinds of
task, the central service's dispatch of commands and its schedule.  TLC checks
small instances; TLAPS proves every safety property those checks pass, and the
refinements, for every instance.

Paths below leave out the prefix `src/Ugoria.URBD.`.

## 1. The system

| component | state | operations | talks to |
| --- | --- | --- | --- |
| **Queue** `RemoteService/QueueManager.cs` | `queueTasks`, `executedProcess`, each strategy's interrupt flag | `AddOperation`, `ChangeQueue`, `TaskLaunch` (a thread per task), `KillTask` | strategies; callback to the worker |
| **Remote worker** `RemoteService/URBDRemoteWorker.cs`, `Services/RemoteService.cs` | configuration and its date, `isUpdateRequire`, `isFailedConfig`, `interruptedTask` | handlers for execute, interrupt and check; `RequireConfiguration`; `OperationCallback` | queue; central service; updater |
| **Exchange** `RemoteService/Strategy/ExchangeStrategy.cs`, `Strategy/Exchange/**`, `Kit/ProcessLauncherKit.cs` | packets on disk and on the FTP server, `report.log`, the 1C process, what the mode remembers of earlier launches | prepare, start, wait, verify, repeat, conclude, report; interrupt from another thread | 1C, FTP server |
| **External directories** `RemoteService/Strategy/ExtDirectoriesStrategy.cs`, `Kit/FtpKit.cs` | files of the base, place in the recursion, attempts left | list, descend, download, unpack, report; interrupt | FTP server |
| **Log collection** `RemoteService/Strategy/MlgCollectStrategy.cs`, `CentralService/DataProvider/MlgCollectDataHandler.cs` | unread part of the log, cache, messages; `mlg_date_log` in the database | read backwards, split into lines, join, report; store | 1C (its log), database |
| **Central dispatch** `CentralService/Services/RemoteServicesManager.cs`, `WCFMessageHandler.cs`, `DataProvider/*DataHandler.cs` | rows of the Report and Launch1C tables (in the database) | `SendCommand`, `InterruptCommand`, `CheckProcess`, `HandleReport` | remote services; database |
| **Proxies** `CentralService/Services/RemoteServiceProxy.cs`, `RemoteService/Services/CentralServiceProxy.cs` | attempts left | three attempts, 30 s apart | the other service |
| **Scheduler** `CentralService/Scheduler/SchedulerManager.cs` | Quartz jobs, triggers and listeners | schedule, unschedule, schedule a check | central worker |
| **Central worker, control service** `CentralService/URBDCentralWorker.cs`, `Services/ControlService.cs` | running or stopped, addresses of bases | start, stop, reconfigure; commands of the web site | dispatch, scheduler |
| **Updater** `Updater/Program.cs` | the files of the remote service | stop service, copy, start | Windows services, FTP |
| **Web control** `WebControl/**` | none but the database | pages; save a base, then reconfigure | control service |
| contracts, alarms, logs, hosts | none | data types, mail and SMS, wrappers | |

How they interact.  The scheduler's jobs and the control service are *callers*
of the dispatch.  `SendCommand` asks the database whether the base's last
report of that component is complete, sends `CommandExecute`, then writes a new
Report row.  The remote service is a WCF singleton with
`ConcurrencyMode.Single`: it handles one call at a time, fetches a newer
configuration if the command's date calls for one, and queues the task.
`ChangeQueue` starts the first task that finds a free slot in every thread pool
it needs.  The task's thread calls its strategy: `Prepare`, then `StartLaunch`
and `EndLaunch` until the latter is content, then `Conclusion`.  It sends a
launch report (`NoticePID1C`) for every start and one operation report
(`NoticeReport`) at its end; the central service handles reports concurrently
(`ConcurrencyMode.Multiple`) and completes the row, which frees the lane (base
and component) for the next command.  A check of the task is scheduled when the
command was sent.

What is hard in it, and the properties that answer it:

- *Threads of tasks against the service thread.* `KillTask` and the end of
  `TaskLaunch` both decide who frees a slot, by a flag the other one changes;
  the list of running tasks is read without its lock. (No slot leaks, none is
  taken twice, no interrupted task keeps one whose report can be built.)
  `Interrupt` may come while 1C is being started, while a directory is listed,
  while messages are pushed. (No 1C is left behind; at most one more step is
  begun.)
- *Wake-ups.*  One `ChangeQueue` launches one task only.  (Nothing waits for
  ever while slots are free; no task overtakes one that needs the same pools.)
- *Messages late, lost and repeated.*  A command carries the date of the
  configuration its sender knew; reports come in any order, before the row they
  belong to is written, or not at all.  (No command is queued under an old
  configuration; no row is completed early; lanes open again; no log entry is
  stored twice.)
- *Check, then act.*  Two callers, or a query and a later write, or a listing
  and a later download, or a schedule read and installed later.  (One command
  of a lane at a time; a reconfiguration that meets no other heals the schedule.)
- *Others at work on the same files.*  1C writes the log that is read; the FTP
  server changes under a download.  (A success is what it says.)
- *Partial failure and restart.*  A failed request replaces the configuration
  by null; a file is deleted before the new one is there; the updater stops the
  service whatever runs.  (The service thread comes back; losses are noted; the
  queue's invariants survive.)

`PROJECT.json` lists these hazards line by line with the properties that cover
each, and the components with what is modelled of them.

## 2. Modules

| module | what it is | models |
| --- | --- | --- |
| `TaskService` | abstract specification | what a remote service promises of a command: it runs once at most and is answered |
| `RemoteQueue` | specification, implements `TaskService` | `QueueExecuteManager` |
| `RemoteWorker` | specification, EXTENDS `RemoteQueue`, implements it | `URBDRemoteWorker`, `OperationCallback`, the updater |
| `CentralDispatch` | specification, uses an INSTANCE of `TaskService` | `RemoteServicesManager`, `RemoteServiceProxy`, data handlers; the database as it is used there |
| `ExchangeStrategy` | specification | an exchange task: strategy, modes, verifier, 1C |
| `ExtDirectories` | specification | tasks that copy directories: strategy, FTP kit, server |
| `MlgCollect` | specification | collections of a log: strategy, 1C writing, storing |
| `Scheduler` | specification | `SchedulerManager`, the reconfiguration of a base, checks |
| `MC...` | instances | values of the constants for TLC |
| `RemoteQueueProofs` | proofs | types, slots, pool limit, order and wake-ups of the queue |
| `RemoteQueueRefinement` | proofs | the queue implements `TaskService` |
| `RemoteWorkerProofs` | proofs | types, configuration dates; the worker implements the queue, hence `TaskService` |
| `CentralDispatchProofs` | proofs | types, completed rows, one command of a lane |
| `ExchangeStrategyProofs` | proofs | types, the 1C process, what reports say, files and message |
| `ExtDirectoriesProofs` | proofs | types, what success means, losses, the interrupt |
| `SchedulerProofs` | proofs | types, the schedule after a reconfiguration |
| `MlgCollectProofs` | proofs | types, what a collection reads, what the database has |

    CentralDispatch  --uses-->  TaskService  <--implements--  RemoteQueue
                                                                  ^ implements
    Scheduler (callers of the dispatch)                      RemoteWorker
                                                                  | calls
                          ExchangeStrategy, ExtDirectories, MlgCollect

A definition `MutX` is `X` with a plausible bug in it.  No specification uses
one; replacing `X` by it shows that a property can fail.  Each is defined just
before the definition it varies.

### TaskService

A delivery of a command is new, waiting, running, over or lost; when it ends,
the guid it carries is answered.  An interrupt answers a guid and changes
nothing else: that is all the queue guarantees, since an excluded task runs
nevertheless (`queue_excluded`).  Restarts lose what waits and runs.

### RemoteQueue

`queue` and `executing` are `queueTasks` and `executedProcess`; `config` is the
configuration manager's current configuration (only its bases and
`main.max_threads` matter here); `pc[t]` is where the thread of task `t` is in
`TaskLaunch`, and `svcPc`, `svcTask`, `seen` where the service thread is in
`AddOperation` or `KillTask`.  A step reaches from one access to shared data
to the next, so that every order of those accesses is explored: the flag is
read in `LoopTest`, `BuildReport` and `ExitTest` and set in `KillInterrupt`;
the enumeration of the list of tasks begins in `KillSearch` and finds the task
(`KillInterrupt`), nothing (`KillUnknown`), or a list changed under it
(`KillScanThrows`).  `lock(queueTasks)`, held by `KillTask` while it sends a
report, is the conjunct `QueueUnlocked`.

The strategies appear through the calls `TaskLaunch` makes on them; `Prepare`,
`StartLaunch` and `EndLaunch` may also throw, which leads straight to the
report.  `ChangeQueue` may throw too (no configuration, or no entry for the
base): on the service thread the handler ends (`faulted`), on a task's thread
the exception is rethrown by `EndInvoke` in the callback and the process ends
(`TaskChangeQueueThrows`).  `KillTask` builds a report of a task that still
runs; for those that add to a list this enumerates (`Volatile`: copies of
directories, collections of logs) it may throw while they are in `EndLaunch`,
and then neither side frees the slot (`KillReportThrows`): `NoLeakedSlot` and
`InterruptedSlotFreed` except just these tasks.

`IsProcessLaunch` and `ExecutedProcessCount` change nothing and are read where
the worker uses them.  `answered`, `excluded` and `faulted` are history
variables.

The refinement mapping is `Phase`: a task with a place in the queue waits, one
whose thread has sent its report is over, everything between runs; `answered`
is `answered`.

### RemoteWorker

Adds the stages of a handler (`stage`, `call`), what `RequireConfiguration`
keeps (`confDate`, `updateRequire`, `failedConfig`) and what
`OperationCallback` keeps.  The central service's configuration is `confAt[d]`
at date `d`, dates being ordinal numbers; commands carry any date up to the
present one, which is a late command.  Every step of the queue that sends a
report also runs the callback; the test whether tasks still run comes after
the report and is a step of its own (`CheckExecuted`), and the thread goes on
only then.  `AddOperation`, `KillQueued` and `KillSearch` are the queue's
actions, taken as parts of the handlers.  The updater (`UpdaterRestarts`)
brings the service back in the new version or, when its listing of the FTP
server came back empty or the copy had to be repeated, in the old one.

### CentralDispatch

`row`, `last`, `launched` are the Report and Launch1C tables; `pc`, `cmd`,
`attempts` are callers, each a thread; `inbox` and `reports` are calls under
way, in order to the remote service and in any order back.  The remote service
is an instance of `TaskService`, one task per delivery, so that what is shown
of the dispatch holds with any remote service that implements it, and the queue
is shown to.  `Silent` adds what the queue does without a configuration:
commands that vanish and interrupts that are not answered.  The database
procedures are not in the repository: a lane without a row is taken to be free,
as after a completed one, and an update of a missing row does nothing.

### ExchangeStrategy

One task, its 1C process, and the service thread in `Interrupt()`.  `next`
walks through the packets in `Prepare` and again in `Conclusion`; `ftp` and
`local` are a packet's two copies, told apart by where they come from; `log` is
`report.log`, `mlgReport` what the verifier has gathered over all launches.
What 1C loads, produces and logs is any combination the verifier can tell
apart, also when it is killed.  The fields of `DefaultMode` and of the derived
mode that share a name are `mdAttempt` and `attempt`.  `EndLaunch` ends in
`CompleteExchange`, or in an exception on its way (`CutShort`): an `IOException`
has 1C started again (`CheckBlocked`), any other leads to the report.  `launches`
counts the starts of 1C but for those that follow a blocked one, and `blocked`
and `relaunched` remember that there was one, and that 1C was started again.

### ExtDirectories

Tasks, one after the other.  `todo` holds the directories of the
configuration, `stack` the calls of the recursion `CopyFiles`, each a directory
and the set of names its listing still has, since a server lists in any order.
The server changes between listing, download and its end.

A file of the base is a version and `covers`, the newest version of the server
whose date is not later than the file's.  The listing gives dates to the minute
and by the server's clock (`FtpKit.cs:113`), the file has the local time of its
writing, and the two are compared to the second (`FtpKit.cs:155`): so a version
that comes while the file is fetched is covered, one that comes later may be,
within the minute or by a clock that is behind (`ChangeFtp`), and by a clock
that is ahead not even the version fetched is (`Fetched`).  Files in `SameSize`
keep their size when they change, so that only the date tells them apart.

A download that fails for good is deleted and marked in the `catch` of
`CopyFiles` (`GiveUp`).  The deletion may throw itself, before the file is marked
(`ExtDirectoriesStrategy.cs:149`): the exception then ends the loop over the
directory, and the loop around it marks the directory, or, where there is none,
the task fails (`GiveUpThrows`).

### MlgCollect

The log is a sequence of tokens: head and tail of an entry, and the two
characters of a line break. It starts empty, and the base is collected first
once `OldEntries` entries are written. 1C writes it token by token, and
sometimes breaks a line within an entry; the strategy reads blocks of `Block`
tokens from the end, and takes lines off the end of `cache`. The test of ten
fields is left as: head and tail are both there. `stored` and `dateLog` are the
database, `open` the lane's last row. A command is prepared with the date of the
last collection (`Prepare`), and sent and recorded later (`Command`): two callers
may prepare theirs before either has a row, and a call that was repeated although
it had arrived puts one command into the queue twice (`Repeat`). `KillTask`
enumerates the messages while the thread pushes more. `extras` counts the
disturbances: interrupts, repeated and raced commands, repeated reports.

### Scheduler

One base.  Quartz is three sets, of jobs, triggers and listeners, and each call
of it a step; a job goes with its last trigger.  Requests of the web site save
the base and call `ReconfigureBaseOfService`, which runs concurrently with
itself, with triggers that fire, and with checks.  `ScheduleIsDb` says what a
reconfiguration is for: one that met no other leaves what the database says,
whatever was there before.  A run is one command, sent by a trigger (`Fire`) or
a user (`AddExchangeTask`), with its check.  `excused` remembers the runs that
met one of the events by which the code loses checks; it is set when the event
happens, whether a check is lost by it or not.

## 3. Runs

Passing runs:

| run | instance | states | shows |
| --- | --- | --- | --- |
| `queue_safety` | 3 commands, 2 pools of 1 slot, one guid delivered twice, configurations that lose a base or do not come, interrupts, one of which may fail at its report, restarts | 2.7 million | `PoolLimit`, `ActiveTaskListed`, `NoLeakedSlot`, `NoLostWakeup`, `ImplementsTaskService` |
| `queue_live` | 3 commands that all need one pool, up to 2 launches each, one interruptible, fair threads | 133 thousand | `InterruptedSlotFreed`, `NoOvertaking`, `ImplementsFairTaskService` |
| `worker_safety` | 2 commands on one pool, 3 dates: a base is lost, then comes back with a new version; requests and preparation that fail, updates, restarts | 586 thousand | `NoStaleQueueing`, `ConfDateHonest`, `HandlerReturns`, and that the worker implements the queue (`Spec`) |
| `central_safety` | 2 callers, 2 commands of one lane; calls that fail, delivered or not, rows that are not written, lost reports, unanswered commands, restarts of both services | 8.5 million | `CompleteMeansEnded`, `RecordedExclusive` |
| `central_live` | 2 callers, 1 command, 3 attempts, calls repeated although delivered, rows that are not written, restarts of the central service, fairness | 540 thousand | `LaneReopens` |
| `exchange` | a packet to load, perhaps with a new configuration, one to unload; both modes, deletion or not; 1C that fails, breaks off or is killed; a log that is wiped, a log or a message file that cannot be opened, any number of times | 2.7 million | `SuccessVerified`, `LaunchBound`, `NoProcessLeft`, `RecordedTransferred`, `NoStaleUpload`, `MessageFileRemoved`, `TaskEnds` |
| `ext_directories` | 3 tasks, 2 directories: one with a file of constant size and a directory that holds a pack, one empty; listings in any order, 2 versions whose dates may not tell them apart, 2 attempts, parts that cannot be deleted; interrupts, stops | 2.2 million | `SuccessCopied`, `SuccessUnpacked`, `LossNoted`, `OneLateDownload`, `TaskEnds` |
| `mlg_collect` | 2 collections, up to 2 entries and 2 seconds, blocks of 3 tokens; reports late or lost, and one disturbance: an interrupt, a command repeated or raced, a report handled twice | 2.9 million | `ReadsAll`, `NoGap`, `StoredOnce`, `CollectionEnds` |
| `scheduler` | 2 requests, 2 components at one time, 3 settings (one with a malformed address), a command of the schedule and one of a user, restarts | 2.7 million | `ScheduleIsDb`, `CheckFollows` |

The type invariants are checked where the instance is richest: `TypeOK` of the
queue in `queue_safety`, `WTypeOK` in `worker_safety`, `TypeOK` of the dispatch
in `central_live`, the others in the one run of their module.

Runs that show the program doing other than what its comments and messages say
(`findings` in `PROJECT.json` quotes the lines):

| run | property refuted | what happens |
| --- | --- | --- |
| `queue_excluded` | `ExcludedNeverLaunched` | An interrupted task that waits is reported as excluded from the queue, is not removed from it, and is launched later. |
| `central_race` | `LaneExclusive` | Two callers find a lane free before either has written its row: both commands run. |
| `mlg_collect_empty` | `LinesLoopEnds` | The first line of a new log is no complete entry: the loop over the lines takes it out of the cache and puts it back for ever, deaf to an interrupt. |

So some positive statements say exactly what such runs leave of the rule.
`RecordedExclusive` speaks of commands that have a row (one whose row was not
written, as the central service stopped or the database did not answer, is
unknown to the lane), and `CompleteMeansEnded` and `RecordedExclusive` excuse a
command by an event in its past, kept in a history variable: it was interrupted,
its call was repeated although it had arrived (`resent`), or another caller was
sending to its lane at the same time (`raced`).  Nothing is switched off for
them.  `CheckFollows` excuses a check in the same way (`excused`), and
`StoredOnce` allows an entry one more copy for each disturbance.  `LaneReopens`
speaks of tasks recorded while they run, without lost
reports; `mlg_collect` collects first when a complete entry is in the log.

### Bounds, and why they are enough

- *Tasks, pools.*  Three tasks and two pools of one slot: a task can wait
  behind a running one, a later one can pass it on another pool, and a third
  can be interrupted meanwhile; with a shared guid, a repeated delivery
  meets the first one in the queue, running and ended.  The worker adds
  handlers, not pools, and is checked with two tasks on one.  The theorems
  of section 4 have none of these bounds.
- `Volatile` holds one task in `queue_safety` and `worker_safety`, so that the
  failing report meets tasks that have none; it is empty in `queue_live`, as a
  slot that is kept for ever leaves no liveness to check.
- `MaxLaunch` bounds the restarts of 1C by one task; `Killable` and
  `Interruptible` the commands that are interrupted; `MaxDate` the changes of
  the configuration (three: working, broken, working in a new version).
- *Lanes.*  A lane shares nothing with another one but the remote service, so
  one is enough.  `Attempts` is 2, one repetition, in `central_safety`, and 3, as
  in the code, in `central_live`.  `central_safety` has one call under way at a
  time (`MaxInbox` 1) and no launch reports (`Launches`: every task fails before
  it launches, so that none is checked), which only multiply its states;
  `central_live` has three calls under way, launches and checks.
- *Packets.*  One to load and one to unload meet every branch; a third would be
  a second of either, and packets are independent but for the order in which
  `Conclusion` reaches them.  Nothing bounds how often a log or a message file
  is found blocked: a start in place of a blocked one is not counted (`launches`),
  so that the states stay finitely many.
- *Files.*  Three tasks, so that a later one finds what an earlier left, of a
  file that one may have left as it was; versions up to 2, so that a file can
  change once, at any moment; a file at the top and one below, so that an
  interrupt, and an exception, meets a recursion.
- *Log.*  Blocks of 3 tokens are shorter than a line of 4 and longer than a
  broken one of 3, and cut lines at every place.  Two entries and two
  collections: the second begins where the first has stopped, with an entry of
  the same second or a later one.  One disturbance (`MaxExtra`), of any kind and
  at any time, which is what a run of this size can hold; the theorems have
  no such bound.
- *Schedule.*  Two requests overlap in every order; one change of the database
  makes them read different settings; nothing bounds the restarts.  Two commands,
  so that the end of one check meets the other one while it is scheduled.
- *Symmetry.*  `central_safety` exchanges guids (all of one lane) and
  callers; runs that check liveness use no symmetry.
- `CHECK_DEADLOCK FALSE` where the bounded supply of guids, tasks or runs is
  used up in the end.

### Fairness

Weak fairness only, and only of what the code keeps going by itself: a thread
that is able to go on does (the CLR schedules it), a handler that began goes
on, calls of a strategy return, the updater ends, the remote service works off
its calls, reports that arrive are handled, Quartz fires what is due.
`ServiceStep`, `TaskStep`, `HandlerStep`, `CallerStep`, `Copies`, `Collects`,
`Checks` are made of such steps.  Nothing is assumed of what
starts anything: arrivals, interrupts, changes of the configuration, callers,
restarts, 1C's entries, changes of the server.  That `EndLaunch` of an exchange
returns is an assumption about 1C (`ProcessExits`): the code waits for the
process without a timeout (`RemoteService/Kit/ProcessLauncherKit.cs:87`), and
1C runs in batch mode.

### Refinement

`RemoteQueue` implements `TaskService` under the mapping `Phase`, safety and
fairness (`ImplementsTaskService`, `ImplementsFairTaskService`, both checked by
TLC); `RemoteWorker` implements `RemoteQueue` with the identity on its
variables (checked as the property `Spec` in `worker_safety`, proved as
`WorkerRefinesQueue`).  `CentralDispatch` is written over `TaskService`.
The safety half of the first is proved too (`QueueIsTaskService`), and with the
latter it carries over to the worker (`WorkerIsTaskService`): every remote
service the dispatch meets is the one it is modelled with, up to `Silent`.

## 4. Proofs

For every value of the constants that satisfies the assumption named in the
module (`RemoteQueueAssumption`, `CentralDispatchAssumption`, ...), which ask no
more than that sets, functions and numbers are of their kind; only tasks of the
queue are assumed finite in number.  Three numbers are at least one: the
attempts of a call, which are three in the code; those of a download, as with
none it would not end (section 6); and the size of a pool.

| module | theorem | statement |
| --- | --- | --- |
| `RemoteQueueProofs` | `TypeCorrect` | `Spec => []TypeOK` |
| | `ActiveListed` | `Spec => []ActiveTaskListed` |
| | `NoSlotLeaks` | `Spec => []NoLeakedSlot` |
| | `PoolsRespected` | `Spec => []PoolLimit` |
| | `OrderKept` | `Spec => NoOvertaking` |
| | `WakeupNotLost` | `Spec => []NoLostWakeup` |
| `RemoteQueueRefinement` | `QueueIsTaskService` | `Spec => ImplementsTaskService` |
| `RemoteWorkerProofs` | `WorkerTypeCorrect` | `WSpec => []WTypeOK` |
| | `DateHonest` | `WSpec => []ConfDateHonest` |
| | `HasConfig` | `WSpec => []EnqueueHasConfig` |
| | `FreshQueueing` | `WSpec => NoStaleQueueing` |
| | `WorkerKeepsSlots` | `WSpec => [](PoolLimit /\ NoLeakedSlot /\ NoLostWakeup)` |
| | `WorkerRefinesQueue` | `WSpec => Spec`, if `CanRestart` |
| | `WorkerIsTaskService` | `WSpec => ImplementsTaskService`, if `CanRestart` |
| `CentralDispatchProofs` | `DispatchTypeCorrect` | `Spec => []TypeOK` |
| | `NoEarlyCompletion` | `Spec => []CompleteMeansEnded` |
| | `LaneExcludes` | `Spec => []RecordedExclusive` |
| `ExchangeStrategyProofs` | `ExchangeTypeCorrect` | `Spec => []TypeOK` |
| | `ProcessEndsFirst` | `Spec => []NoProcessLeft` |
| | `LaunchesBounded` | `Spec => []LaunchBound` |
| | `SuccessIsVerified` | `Spec => []SuccessVerified` |
| | `MessageIsRemoved` | `Spec => []MessageFileRemoved` |
| | `StaleFilesStay` | `Spec => []NoStaleUpload` |
| | `RecordedIsTransferred` | `Spec => []RecordedTransferred` |
| `ExtDirectoriesProofs` | `CopyTypeCorrect` | `Spec => []TypeOK` |
| | `OneDownloadAfterInterrupt` | `Spec => []OneLateDownload` |
| | `PacksAreUnpacked` | `Spec => []SuccessUnpacked` |
| | `SuccessIsCopied` | `Spec => []SuccessCopied` |
| | `LossIsNoted` | `Spec => []LossNoted` |
| `SchedulerProofs` | `ScheduleTypeCorrect` | `Spec => []TypeOK` |
| | `LoneRequestHeals` | `Spec => []ScheduleIsDb` |
| | `ChecksNotMissed` | `Spec => []MissedExcused` |
| `MlgCollectProofs` | `CollectTypeCorrect` | `Spec => []TypeOK` |
| | `CollectionReadsAll` | `Spec => []ReadsAll` |
| | `EntriesStoredOnce` | `Spec => []StoredOnce` |
| | `NothingIsMissed` | `Spec => []NoGap` |

These are all the invariants of the passing runs, their action properties and
two of their three refinements.  The argument, module by module.

### Queue

- *Types.*  `TypeOK` is not inductive: that a command taken from the queue can
  be launched needs `QueueHoldsWaiting` (the queue holds waiting commands, none
  twice), `LaunchBound` and `KillHasTask`.  `TypeInv` is their conjunction;
  `RemoveAtProperties` and `QueueRemoveAt` say what taking a command out of the
  middle of the queue leaves.
- *Slots.*  `SlotInv` adds that only launched tasks are listed, interrupted or
  enumerated (`OnlyLaunched`), that a listed task with its flag set is the one
  `KillTask` is busy with, or one of `Volatile` whose report it could not build
  (`VictimListed`, `VictimFlagged`), and that the
  thread of a listed task is running, or ended because it saw the flag
  (`SlotHeld`).  The last two make the race harmless: whichever way the thread
  reads the flag, exactly one side is left to free the slot, or both free the
  same one, unless the report of `KillTask` has failed.
- *Pool limit.*  Inductive over `TypeInv`: `LimitLaunch` (a launch finds a
  free slot in each of its pools under the configuration in force) and
  `LimitShrink` (all else frees slots or leaves them).
- *Order.*  A command leaves the queue for its thread only as the first that
  fits (`OnlyChangeQueueLaunches`, `LaunchIsFirstFit`), and one that needs fewer
  pools fits where one that needs more does (`FitsMonotone`).  `TypeInv` is
  needed again, for a command that stood in the queue twice could be overtaken
  by itself.
- *Wake-ups.*  `NoLostWakeup` is inductive over `TypeInv`: who frees the last
  slot, or queues into an idle service, still has a `ChangeQueue` before it, and
  while no slot is taken every command fits (`AllFitWhenIdle`), so that this
  `ChangeQueue` launches one (`WakeupServed`).
- *The abstract service.*  A step of the queue moves one command on, answers
  one guid, or is neither seen (`PhaseMoves`, `Interrupts`, `Stutters`).
  `ChangeQueue` on a task's thread moves two `pc`s at once; only the launched
  one changes its phase, and it was waiting because of `QueueHoldsWaiting`.
  `Exit` is `TaskService`'s `Restart` (`ExitRefines`).  So what `central_...`
  runs show with an instance of `TaskService` rests on a proof on this side.

### Worker

- *Configuration.*  `WInv` says that the queue's part of the service thread is
  idle while a handler is before its call of the queue (`HandlerAlone`), and
  how the dates of the command, of the last successful request and of the
  configuration in use are ordered at each stage (`ConfInv`).  `ConfDateHonest`
  is about the last two only, and does not follow without the first.  Only
  `Enqueue` queues anything (`QueueingIsFresh`), which gives `NoStaleQueueing`.
- *Refinement.*  Every step of the worker is a step of the queue, the end of
  its process, or leaves the queue's variables as they are (`StepOfQueue`, from
  `HandlerAlone`).  The queue's `Restart` is guarded by `CanRestart`, and the
  updater restarts the service: hence the assumption of the two refinements.
  `WorkerKeepsSlots` does without it, as the queue's invariants survive the end
  of the process in any case (`QueueExit`).

`EnqueueHasConfig` is not checked by a run of its own, as `NoStaleQueueing`
says it of the step that queues.

### Dispatch

- *Types* need that a caller past the choice of a command holds a guid and not
  the placeholder (`CallersHold`).
- *Completed rows.* `SentInv`: a guid about to be sent has no row, and nobody
  else knows it unless an earlier attempt arrived (`SendsFresh`); a command that
  was not repeated is on its way or delivered once (`SentOnce`); every interrupt
  under way is recorded (`InterruptNoted`), and only what has ended, was
  interrupted or was repeated is answered (`AnsweredEnded`). A command repeated
  although it was delivered runs twice, and the report of the first run
  completes the row while the second one runs: that is the code's behaviour, and
  why `resent` is excused.
- *Lanes.*  `LaneInv`: of two callers that send to one lane both commands are
  `raced` (`RacedNoted`); while a caller sends, any other recorded command of its
  lane that is under way is excused (`SenderAlone`); and a recorded command under
  way that is not excused is the lane's last row, unfinished (`Recorded`), so
  that there is one at most.  A command that was sent and has no row, as the
  central service stopped or the database did not answer, appears nowhere in it:
  the lane looks free, as it does to the code.

### Exchange

Lemmas first say which steps change what: only verification changes the
verdict, only `Conclusion` the list of the report and the server.  Then each
property has an invariant of its own: where the process can be alive
(`ProcInv`), how many launches a place in the loop allows (`LoopInv`, one more
after the mode's second `attempt`, however many were blocked), that the verdict is what the mode found in what
the verifier gathered (`VerdictInv`), which attempt leaves the message to the
users (`MessageInv`), where a file left over can still be (`StaleInv`), and that a
success in the log comes from a launch that is over, with its packet where that
launch left it (`ProducedInv`, `RecordedInv`).

### External directories

The tree is any function from directories to names, cyclic or not; only what
the loops still hold matters (`Pending`), so that no proof recurses; what a loop
holds, and the file worked on, are entries of its directory (`Level`, `AtFile`),
which is the one marked when its loop is left by an exception.  `SeenInv`
relates a file's listed version to the server's, to the one being fetched and to
the one fetched; `CopyInv` says that every listed file is still to come, worked
on, or settled, unless the task was cut short, and `EndInv` what the end of a
task says about that.  `LossInv` says the same of a file that was deleted to be
fetched anew; `LateInv` and `UnpackInv` carry the two others.

### Scheduler

`FoundInv` says what a request has in hand, on which the types rest. `HealInv`
follows one request that meets no other: while it removes, every trigger
belongs to a job it has still to visit or is in the list it works on; while it
adds, what it is done with is in place and is earlier in the order of rows
(`Placed`), so that the listener of a time is that of the last row (`LastAt`);
at the end the schedule is the database's (`Installed`).

`MissedExcused` is the safety half of `CheckFollows`: a check is missed, or the
trigger of a pending one is gone, only with an excuse.  `HeardInv` says that
while nothing is reconfigured the last row of a time is heard, also when the
database has changed or its address is malformed, which `HealInv` leaves open;
`ExcuseInv` follows a command without an excuse: its listener, then the checks'
job, then its trigger are in place.

### Log collection

- *The file.*  `LogInv` says what 1C has written: line breaks are whole, a tail
  follows its head with a line break at most in between (`Formed`), entries are
  in order (`Ordered`), a head begins a line (`Starts`), nothing of an entry is
  there before all of the ones before it (`NoHole`), and the rest to be written
  fits what is there (`RestInv`).
- *Reading.*  What remains of a collection is the unread part of the file
  followed by the cache (`Remaining`), and a block read from the file leaves it
  unchanged.  `LeftOK`: what remains is older than what was pushed, and all that
  is new is in either.  Taking a line off the end splits the remainder at its
  last line break (`LastBreak`, `LineBefore`), putting back a line that is no entry
  joins it to the one before it (`Joins`); that what remains has the form of a
  log after each of these steps is most of the work.  `MessagesOK` says that the
  pushed entries are of the log and descending, `ReportOK` what a collection has
  read when it is over.
- *No induction.*  That a sequence has a last line break is the only place where
  one would induct over data.  `LastExists` takes the positions from each one on
  and picks the smallest such set, which is well-founded.
- *Storing.*  `StoredOnce` counts: an entry is stored once, and once more for
  each disturbance at most.  `StoreInv` counts the ways by which an entry may
  still be stored (`Ways`: collections that run and began before its second,
  their reports, and the next command unless the lane's own brings it), and says
  that with what is stored already they are no more than one and the
  disturbances.  Each step has a lemma that says which of them it moves
  (`CommandWays`, `RepeatWays`, `GetReportWays`, `KillWays`, `ReportWays`, ...).
  `LaneInv` says what a command, its lane and its report have in common: a guid,
  and a date from which all it reports is newer.
  `GapInv`: as long as nothing was interrupted or failed, what is stored covers
  the seconds up to the stored date and up to the date every collection began
  with, and what a report holds covers, with it, those up to its newest entry.
  `Covered` is about a prefix of the entries of each second, since the code
  compares dates of one second's width and loses the others of a second it has
  begun (section 6).

### Only model-checked

Liveness, with its fairness and its ENABLED, is beyond the prover:
`InterruptedSlotFreed`, `HandlerReturns`, `LaneReopens`, `CheckFollows` (but for
its safety half, `ChecksNotMissed`),
`CollectionEnds`, `TaskEnds` of the exchange and of the directories, and
`ImplementsFairTaskService`, of which `QueueIsTaskService` is the safety half.
The three runs that refute a property are counterexamples, not theorems.

## 5. Not modelled

- *Database procedures* (`urbd_*`), Quartz, 1C, FTP servers: not in the
  repository; where they matter they are modelled as the code uses them.
- *Scripts of the web site* (`WebControl/Scripts/**`, all of the repository's
  JavaScript): jQuery, jQuery UI, DataTables, SignalR and validation, vendored.
  The program is written in C#; its pages hold no state beyond the database.
- *Host of the central service*: its reopening when the configuration changes
  (`RemoteServicesManager.cs:55`), under calls that use its channel factory.
  The effect, calls and reports that fail, is in `CentralDispatch`.
  `ReconfigureRemoteService` repeats `AddBaseService`; `ReconfigureCentralService`
  reads a configuration.
- *Updater*: the copy is one step; a mix of old and new files, and a service
  that stays stopped after an exception, are left out.
- *Reading and formatting*: configuration tables, detail rows of the exchange
  and directory reports, message texts, the release number.  Two texts are
  worth a note: while `isFailedConfig` is set, `OperationCallback` replaces the
  message of every operation report, also that of a task that ran to its end
  (`URBDRemoteWorker.cs:191`); and `GetOperationReport` of the exchange joins
  the mode's message instead of the list it has just put together
  (`ExchangeStrategyBuilder.cs:190`).
- *Memory-level races*: lists used by several threads without a lock could be
  torn; their operations are atomic here, except for enumerations.
- *Clock values*: the margin of one second when dates are compared, the sleep
  until `delay_check`.
- *The log cut short*: that 1C's log is truncated while it is read, or that
  reading the log of an exchange breaks off in the middle.
- *Hosts, alarms, logging, contracts*: input and output without state of their
  own.

## 6. Met while modelling

What the models do because the code does, stated by no property because the
repository promises nothing else, or because no code would make up for it.

Remote service:

- A configuration that has become null ends the process from `ChangeQueue` on a
  task's thread, though tasks are meant to wait for one (`QueueManager.cs:119`
  tests the manager, not its configuration).
- A command refused for want of a configuration gets no report: `KillTask`,
  called "для отправления отчета по полученной задаче"
  (`URBDRemoteWorker.cs:80`), needs that configuration as well.
- The end of the last task never starts the updater (`URBDRemoteWorker.cs:199`):
  in the callback of its own report the task still counts as running.  An update
  may start while the thread of an interrupted task still runs.
- The report of `KillTask` enumerates the files or messages that the task is
  adding to; if that throws, the task keeps its slot until it is interrupted
  once more, as neither side removes it (`QueueManager.cs:103`, `202`).
- "В любом случае" (`QueueManager.cs:183`), `Conclusion` is skipped after an
  exception.
- After `main.max_graphobject_items` failed to parse, commands are refused until
  the configuration changes again (`URBDRemoteWorker.cs:149`).
- Building a strategy has effects and may fail, and `KillTask` does it before
  anything else, whatever the interrupt is for.

Central service:

- A report handled before its row is written is lost, and the lane refuses
  commands for good (`RemoteServicesManager.cs:221`, `231`).
- The answer Miss, taken for a restart (`URBDRemoteWorker.cs:215`), also comes
  for a task that ended during the checker's sleep.  The branch for a task that
  was never launched compares a `DateTime` with null and is dead
  (`RemoteServicesManager.cs:354`).
- An interrupt of a task completed between the two queries goes out under a new
  guid (`RemoteServicesManager.cs:409`).

Exchange:

- With `exchange.delete_packet` a packet is deleted whether it was loaded or
  not; if it was, `GetFileDateTime` of the deleted packet throws, the rest of
  `Conclusion` is skipped, and the task is reported as failed
  (`ExchangeStrategy.cs:203`, `238`).
- `Interrupt` may miss a 1C that is about to start: it then runs to its
  end (`NoProcessLeft` says that the thread waits for it).
- A file of an unload that broke off is put on the server like a whole one, and
  only then deleted (`ExchangeStrategy.cs:216`, `243`).
- Every strategy that is built for a base, that of an interrupt included,
  empties `report.log` (`Verifier.cs:75`), perhaps before it is read.
- A log that cannot be opened has 1C started again without a bound
  (`ExchangeStrategy.cs:119`).  The same handler catches the exceptions of the
  message to the users: if that file cannot be written or, once the exchange has
  succeeded, be deleted (`DefaultMode.cs:99`, `111`), 1C is started again, every
  30 seconds, and neither mode counts it.
- `waitTime` is always 1: the constructor ignores its argument
  (`DefaultMode.cs:51`).

External directories:

- With no attempts configured a failing download is repeated for ever
  (`FtpKit.cs:75`); the model assumes at least one.
- A listing that fails is an empty one, and the task a success (`FtpKit.cs:97`).
- A file replaced on the server by one of the same size is never fetched again
  when that happens during its download or in the minute after it, and the task
  reports a success; the listing's dates have no seconds (`FtpKit.cs:113`,
  `155`).  A pack whose unpacking broke off is never unpacked.
- The part of a file that cannot be deleted after the last attempt is not
  marked: the rest of its directory is passed over, and the directory is marked,
  or the whole task fails (`ExtDirectoriesStrategy.cs:149`).
- A file that may not be replaced, without being read-only, counts as copied
  (`ExtDirectoriesStrategy.cs:108`).
- An interrupt is not heard between the attempts of one download.

Log collection:

- A collection that was interrupted or failed reports what it has read, the
  newest entries, and moves the date past the others
  (`MlgCollectDataHandler.cs:61`).
- An interrupted task reports twice, a report may be handled twice, a command may
  reach the queue twice (`RemoteServiceProxy.cs:70`), and two callers may send one
  each with the same date (`RemoteServicesManager.cs:208`): entries are stored
  twice.  Entries of a second whose first part was collected are never read.

Scheduler:

- Reconfigurations that overlap leave a stale or mixed schedule, or a part of it.
- Two components at one time share a listener, whose name lacks the component:
  commands of the first are never checked (`SchedulerManager.cs:63`).
- The filter that should spare pending checks compares their job, "checker",
  with "CheckCommand": they are unscheduled (`SchedulerManager.cs:121`).
- The last check to end takes the checks' job with it, perhaps while another is
  being scheduled; checks do not outlive a restart.
- An address without a port throws, though a default is provided
  (`RemoteServicesManager.cs:197`); the base then keeps its old schedule.  When
  the call of the web site fails, it keeps it until the next one
  (`BaseController.cs:78`).

## 7. Plan

Done: the models of section 2, and the proofs of every safety property and
action property the runs check.  Open:

1. *Composition.*  That a log collection or a copy, as its strategy describes
   it, is what a thread of the queue calls: its interrupt flag is the queue's,
   and its end the end of `EndLaunch`.
2. *Dispatch.*  A bound on the commands of a lane that can be under way after so
   many interrupts, repetitions, races and commands without a row.
3. *Liveness by hand.*  Ranking arguments for `CollectionEnds` and `TaskEnds`:
   the non-temporal half (no step but these raises the rank) is in reach of the
   prover.
4. *Models.*  The reopening of the central service's host under its calls; the
   updater's copy file by file, once it matters which files are new.
