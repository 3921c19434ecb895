----------------------------- MODULE Scheduler -----------------------------
(***************************************************************************)
(* SchedulerManager with its user URBDCentralWorker: the schedule of one   *)
(* base, its reconfiguration by calls of the control service, and the      *)
(* checks scheduled after each command that was sent.                      *)
(*                                                                         *)
(* The schedule is held in memory by Quartz: triggers, each of a job, and  *)
(* listeners told when a job has run.  Quartz locks each single call, and  *)
(* deletes a job with its last trigger.  Calls of the control service run  *)
(* concurrently (ConcurrencyMode.Multiple), also with Quartz's own threads.*)
(*                                                                         *)
(* What a command carries but base and component is left out; that each    *)
(* check gets a name of its own (the time to the microsecond) is assumed.  *)
(***************************************************************************)
EXTENDS Integers, Sequences, Functions

CONSTANTS
  Time,
  components,   \* Exchange, ExtDirectories, MlgCollect, in this order
  Setting,      \* settings of the base: [rows : SUBSET Row, address : ...]
  NoBase,       \* in the place of a setting or an address: none
  Malformed,    \* addresses without a port
  NoComponent, Checker,
  Request,      \* requests of the web site to change the base
  Run,          \* commands sent
  UserRun,      \* those a user sends; the others are sent by triggers
  MaxSaves      \* bound of the changes of the database

Component == Range(components)
Row       == Component \X Time

ASSUME SchedulerAssumption ==
  /\ components \in Seq(Component) /\ IsInjective(components)
  /\ \A s \in Setting : s.rows \subseteq Row
  /\ NoBase \notin Setting
  /\ {NoComponent, Checker} \cap Component = {}
  /\ Run \cap Row = {} /\ UserRun \subseteq Run
  /\ MaxSaves \in Nat

VARIABLES
  db,        \* the base in the database
  address,   \* serviceBases: where commands for the base go
  jobs,      \* jobs of the base
  triggers,  \* triggers of these jobs: a row each, and a run for its check
  listener,  \* listener[t]: whose trigger the listener of base and time t hears
  pc, read, todo, found, \* of a request: place, setting, work left, what it looks at
  state, of, \* of a run: what became of it, the row that fires it
  saves,
  overlap,   \* the last request to read the database met another (history)
  unread,    \* the database was changed and not read since (history)
  excused    \* runs that met what may cost them their check (history)

quartz   == <<jobs, triggers, listener>>
requests == <<pc, read, todo, found>>
runs     == <<state, of>>
history  == <<overlap, unread, excused>>
vars == <<db, address, quartz, requests, runs, saves, history>>

JobOf(t) == IF t \in Run THEN Checker ELSE t[1]
Valid(s) == s.address \notin Malformed

\* Rows are installed in the order of their components: the last one of a time
\* keeps the listener, whose name is made of base and time.
Rank(c) == CHOOSE i \in DOMAIN components : components[i] = c
LastAt(rows, t, c) == /\ <<c, t>> \in rows
                      /\ \A o \in Component : <<o, t>> \in rows => Rank(o) <= Rank(c)
Heard(rows, t) ==
  IF \E c \in Component : LastAt(rows, t, c)
    THEN CHOOSE c \in Component : LastAt(rows, t, c) ELSE NoComponent

TypeOK ==
  /\ db \in Setting
  /\ address \in {s.address : s \in Setting} \cup {NoBase}
  /\ jobs \subseteq Component \cup {Checker}
  /\ triggers \subseteq Row \cup Run
  /\ \A t \in triggers : JobOf(t) \in jobs
  /\ listener \in [Time -> Component \cup {NoComponent}]
  /\ pc \in [Request -> {"idle", "call", "read", "remove", "unschedule",
                         "add", "exists", "schedule", "listen"}]
  /\ read \in [Request -> Setting \cup {NoBase}]
  /\ todo \in [Request -> SUBSET (Component \cup {Checker} \cup Row)]
  /\ found \in [Request -> SUBSET (Row \cup Run)]
  /\ state \in [Run -> {"new", "sent", "detail", "pending", "due", "checked",
                         "missed"}]
  /\ of \in [Run -> Row \cup {NoComponent}]
  /\ saves \in 0..MaxSaves
  /\ {overlap, unread} \subseteq BOOLEAN /\ excused \subseteq Run

\* Init of the worker: the schedule in the database, before anything runs.
\* A base with a malformed address, and those after it, get none.
Installs(s) ==
  LET rows == IF Valid(s) THEN s.rows ELSE {}
  IN /\ address' = IF Valid(s) THEN s.address ELSE NoBase
     /\ triggers' = rows
     /\ jobs' = {r[1] : r \in rows}
     /\ listener' = [t \in Time |-> Heard(rows, t)]

Init ==
  /\ db \in Setting /\ Valid(db)
  /\ address = db.address
  /\ triggers = db.rows /\ jobs = {r[1] : r \in db.rows}
  /\ listener = [t \in Time |-> Heard(db.rows, t)]
  /\ pc = [r \in Request |-> "idle"] /\ read = [r \in Request |-> NoBase]
  /\ todo = [r \in Request |-> {}] /\ found = [r \in Request |-> {}]
  /\ state = [n \in Run |-> "new"] /\ of = [n \in Run |-> NoComponent]
  /\ saves = 0
  /\ overlap = FALSE /\ unread = FALSE /\ excused = {}

Goto(r, from, to) == pc[r] = from /\ pc' = [pc EXCEPT ![r] = to]
Busy(r)  == pc[r] \notin {"idle", "call"}
UnderWay == {n \in Run : state[n] \in {"sent", "detail", "pending", "due"}}
Becomes(n, from, to) == state[n] = from /\ state' = [state EXCEPT ![n] = to]
-----------------------------------------------------------------------------
(***************************************************************************)
(* A request of the web site: it saves the base, then calls                *)
(* ReconfigureBaseOfService.  Definitions named Mut... are faulty variants *)
(* of the one that follows, used by no specification.                      *)
(***************************************************************************)
\* What is saved need not differ from what was there.  A base is never deleted.
Save(r, s) ==
  /\ Goto(r, "idle", "call")
  /\ IF s = db THEN saves' = saves
     ELSE saves < MaxSaves /\ saves' = saves + 1
  /\ db' = s /\ unread' = TRUE
  /\ UNCHANGED <<address, quartz, read, todo, found, runs, overlap,
                 excused>>

\* The call does not arrive: the page shows why; what was saved is saved.
CallFails(r) ==
  /\ Goto(r, "call", "idle")
  /\ UNCHANGED <<db, address, quartz, read, todo, found, runs, saves, history>>

\* AddBaseService throws.
ReadFails(r) ==
  /\ ~Valid(db)
  /\ Goto(r, "call", "idle")
  /\ UNCHANGED <<db, address, quartz, read, todo, found, runs, saves, history>>

Read(r) ==
  /\ Valid(db)
  /\ Goto(r, "call", "read")
  /\ read' = [read EXCEPT ![r] = db]
  /\ unread' = FALSE
  /\ overlap' = \E o \in Request \ {r} : Busy(o)
  /\ excused' = excused \cup UnderWay
  /\ UNCHANGED <<db, address, quartz, todo, found, runs, saves>>

\* AddBaseService, then the jobs RemoveScheduleLaunch will look at.  Its
\* filter lets the job of the checks through.
MutAddBase(r) ==
  /\ Goto(r, "read", "add")
  /\ address' = read[r].address
  /\ todo' = [todo EXCEPT ![r] = read[r].rows]
  /\ UNCHANGED <<db, quartz, read, found, runs, saves, history>>
AddBase(r) ==
  /\ Goto(r, "read", "remove")
  /\ address' = read[r].address
  /\ todo' = [todo EXCEPT ![r] = jobs]
  /\ UNCHANGED <<db, quartz, read, found, runs, saves, history>>

\* GetTriggersOfJob.
TriggersOf(r, j) ==
  /\ j \in todo[r]
  /\ Goto(r, "remove", "unschedule")
  /\ todo' = [todo EXCEPT ![r] = @ \ {j}]
  /\ found' = [found EXCEPT ![r] = {t \in triggers : JobOf(t) = j}]
  /\ UNCHANGED <<db, address, quartz, read, runs, saves, history>>

\* Quartz takes triggers out, and with the last one of a job the job.
Removes(gone) ==
  /\ triggers' = triggers \ gone
  /\ jobs' = {j \in jobs : \/ \A t \in triggers \cap gone : JobOf(t) # j
                           \/ \E t \in triggers' : JobOf(t) = j}

\* UnscheduleJobs.  A check that is running runs on.
Unschedule(r) ==
  /\ Goto(r, "unschedule", "remove")
  /\ Removes(found[r])
  /\ state' = [n \in Run |-> IF n \in found[r] /\ state[n] = "pending"
                               THEN "missed" ELSE state[n]]
  /\ found' = [found EXCEPT ![r] = {}]
  /\ UNCHANGED <<db, address, listener, read, todo, of, saves, history>>

Removed(r) ==
  /\ todo[r] = {}
  /\ Goto(r, "remove", "add")
  /\ todo' = [todo EXCEPT ![r] = read[r].rows]
  /\ UNCHANGED <<db, address, quartz, read, found, runs, saves, history>>

\* The row AddScheduleLaunch is at: those of the components in their order.
First(row, rows) == row \in rows /\ \A o \in rows : Rank(row[1]) <= Rank(o[1])

\* GetJobDetail, for a row of the schedule.
Add(r, row) ==
  /\ First(row, todo[r])
  /\ Goto(r, "add", "exists")
  /\ todo' = [todo EXCEPT ![r] = @ \ {row}]
  /\ found' = [found EXCEPT ![r] = {row}]
  /\ jobs' = jobs \cup {row[1]}
  /\ UNCHANGED <<db, address, triggers, listener, read, runs, saves, history>>

\* CheckExists: a trigger of this key, whoever put it there, stays.
Exists(r) ==
  /\ Goto(r, "exists", IF found[r] \subseteq triggers THEN "listen" ELSE "schedule")
  /\ UNCHANGED <<db, address, quartz, read, todo, found, runs, saves, history>>

\* ScheduleJob.  It throws if there is such a trigger by now, or the job is
\* there no more; then the rest of the schedule is not installed.
MutSchedule(r) ==
  /\ Goto(r, "schedule", "listen")
  /\ \A row \in found[r] : row \notin triggers
  /\ triggers' = triggers \cup found[r]
  /\ UNCHANGED <<db, address, jobs, listener, read, todo, found, runs, saves,
                 history>>
Schedule(r) ==
  /\ Goto(r, "schedule", "listen")
  /\ \A row \in found[r] : row \notin triggers /\ row[1] \in jobs
  /\ triggers' = triggers \cup found[r]
  /\ UNCHANGED <<db, address, jobs, listener, read, todo, found, runs, saves,
                 history>>

ScheduleThrows(r) ==
  /\ Goto(r, "schedule", "idle")
  /\ \E row \in found[r] : row \in triggers \/ row[1] \notin jobs
  /\ todo' = [todo EXCEPT ![r] = {}] /\ found' = [found EXCEPT ![r] = {}]
  /\ read' = [read EXCEPT ![r] = NoBase]
  /\ UNCHANGED <<db, address, quartz, runs, saves, history>>

\* AddTriggerListener: replaces the listener of the same name.
Listen(r) ==
  /\ Goto(r, "listen", "add")
  /\ \E row \in found[r] : listener' = [listener EXCEPT ![row[2]] = row[1]]
  /\ found' = [found EXCEPT ![r] = {}]
  /\ UNCHANGED <<db, address, jobs, triggers, read, todo, runs, saves, history>>

Added(r) ==
  /\ todo[r] = {}
  /\ Goto(r, "add", "idle")
  /\ read' = [read EXCEPT ![r] = NoBase]
  /\ UNCHANGED <<db, address, quartz, todo, found, runs, saves, history>>
-----------------------------------------------------------------------------
(***************************************************************************)
(* Commands and their checks.                                              *)
(***************************************************************************)
\* No reconfiguration is under way, and the last one ran alone.
Settled == ~overlap /\ \A r \in Request : ~Busy(r)

\* A trigger fires: CommandJob sends the command.
Fire(n, row) ==
  /\ n \notin UserRun /\ row \in triggers \cap Row
  /\ Becomes(n, "new", "sent")
  /\ of' = [of EXCEPT ![n] = row]
  /\ excused' = IF Settled /\ LastAt(triggers \cap Row, row[2], row[1])
                  THEN excused ELSE excused \cup {n}
  /\ UNCHANGED <<db, address, quartz, requests, saves, overlap, unread>>

\* AddExchangeTask: a user's command is sent.
AddExchangeTask(n) ==
  /\ n \in UserRun
  /\ Becomes(n, "new", "sent")
  /\ excused' = IF \E r \in Request : Busy(r) THEN excused \cup {n} ELSE excused
  /\ UNCHANGED <<db, address, quartz, requests, of, saves, overlap, unread>>

Watched(n) == of[n] # NoComponent => listener[of[n][2]] = of[n][1]

\* The check is asked for, by the listener or by AddExchangeTask: GetJobDetail.
GetChecker(n) ==
  /\ Watched(n)
  /\ Becomes(n, "sent", "detail")
  /\ of' = [of EXCEPT ![n] = NoComponent]
  /\ jobs' = jobs \cup {Checker}
  /\ UNCHANGED <<db, address, triggers, listener, requests, saves, history>>

NoListener(n) ==
  /\ ~Watched(n)
  /\ Becomes(n, "sent", "missed")
  /\ of' = [of EXCEPT ![n] = NoComponent]
  /\ UNCHANGED <<db, address, quartz, requests, saves, history>>

\* ScheduleJob throws if the job of the checks has gone with its last trigger.
MutScheduleCheck(n) ==
  LET new == Checker \in jobs /\ triggers \cap Run = {}
  IN /\ Becomes(n, "detail", IF new THEN "pending" ELSE "missed")
     /\ triggers' = IF new THEN triggers \cup {n} ELSE triggers
     /\ UNCHANGED <<db, address, jobs, listener, requests, of, saves, history>>
ScheduleCheck(n) ==
  /\ Becomes(n, "detail", IF Checker \in jobs THEN "pending" ELSE "missed")
  /\ triggers' = IF Checker \in jobs THEN triggers \cup {n} ELSE triggers
  /\ UNCHANGED <<db, address, jobs, listener, requests, of, saves, history>>

\* delayCheck minutes later; the trigger stays until the check has run.
CheckDue(n) ==
  /\ n \in triggers
  /\ Becomes(n, "pending", "due")
  /\ UNCHANGED <<db, address, quartz, requests, of, saves, history>>

CheckEnds(n) ==
  /\ Becomes(n, "due", "checked")
  /\ Removes({n})
  /\ excused' = (excused \ {n}) \cup {m \in Run : state[m] = "detail"}
  /\ UNCHANGED <<db, address, listener, requests, of, saves, overlap, unread>>

\* The service stops and starts anew: Quartz kept all in memory, and web
\* requests that wait for an answer get an exception.
Restart ==
  /\ Installs(db)
  /\ pc' = [r \in Request |-> IF Busy(r) THEN "idle" ELSE pc[r]]
  /\ read' = [r \in Request |-> NoBase]
  /\ todo' = [r \in Request |-> {}] /\ found' = [r \in Request |-> {}]
  /\ state' = [n \in Run |-> IF n \in UnderWay THEN "missed" ELSE state[n]]
  /\ of' = [n \in Run |-> NoComponent]
  /\ overlap' = FALSE /\ unread' = FALSE /\ excused' = excused \cup UnderWay
  /\ UNCHANGED <<db, saves>>
-----------------------------------------------------------------------------
Reconfigures(r) ==
  \/ Read(r) \/ ReadFails(r)
  \/ AddBase(r)
  \/ \E j \in Component \cup {Checker} : TriggersOf(r, j)
  \/ Unschedule(r) \/ Removed(r)
  \/ \E row \in Row : Add(r, row)
  \/ Exists(r) \/ Schedule(r) \/ ScheduleThrows(r) \/ Listen(r) \/ Added(r)

Checks(n) ==
  \/ GetChecker(n) \/ NoListener(n) \/ ScheduleCheck(n)
  \/ CheckDue(n) \/ CheckEnds(n)

Next ==
  \/ \E r \in Request : \/ \E s \in Setting : Save(r, s)
                        \/ Reconfigures(r)
                        \/ CallFails(r)
  \/ \E n \in Run : \/ \E row \in Row : Fire(n, row)
                    \/ AddExchangeTask(n)
                    \/ Checks(n)
  \/ Restart

Spec == Init /\ [][Next]_vars

\* Quartz fires what is due, and the thread of a command goes on.
FairSpec == Spec /\ \A n \in Run : WF_vars(Checks(n))
-----------------------------------------------------------------------------
(***************************************************************************)
(* Properties.                                                             *)
(***************************************************************************)
\* Whatever earlier requests left behind by running into one another or being
\* broken off (SchedulerManager.cs:61-62), one that meets no other heals it:
\* unless the base was changed since, the base then has the triggers, the
\* listeners and the address that the database says, and no more
\* (URBDCentralWorker.cs:182-201).
ScheduleIsDb ==
  (\A r \in Request : ~Busy(r)) /\ ~overlap /\ ~unread /\ Valid(db) =>
    /\ triggers \cap Row = db.rows
    /\ address = db.address
    /\ \A t \in Time, c \in Component : LastAt(db.rows, t, c) => listener[t] = c

\* Every command, of the schedule or of a user, is followed by its check
\* (SchedulerManager.cs:71-94), with no other excuse than these events: a
\* reconfiguration of the base ran while it was under way, or the last one had
\* met another; a later component has a row at the same time; another check
\* ended while this one was being scheduled; the service stopped.
CheckFollows ==
  []<>(\A n \in Run : state[n] \in {"new", "checked"} \/ n \in excused)
=============================================================================
