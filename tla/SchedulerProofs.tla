-------------------------- MODULE SchedulerProofs --------------------------
(***************************************************************************)
(* Proofs about Scheduler for any number of requests, commands, settings,  *)
(* components and times: types, that a request which meets no other makes  *)
(* the schedule what the database says, and that no check is missed        *)
(* without an excuse.                                                      *)
(***************************************************************************)
EXTENDS Scheduler, TLAPS

LEMMA Constants ==
  /\ components \in Seq(Component)
  /\ \A i, j \in DOMAIN components : components[i] = components[j] => i = j
  /\ \A s \in Setting : s.rows \subseteq Row
  /\ NoBase \notin Setting
  /\ NoComponent \notin Component /\ Checker \notin Component
  /\ \A n \in Run : n \notin Row
  /\ MaxSaves \in Nat /\ UserRun \subseteq Run
BY SchedulerAssumption DEF SchedulerAssumption, IsInjective
-----------------------------------------------------------------------------
(***************************************************************************)
(* Rows, and the last one of a time.                                       *)
(***************************************************************************)
LEMMA Ranks ==
  /\ \A c \in Component : Rank(c) \in Int /\ components[Rank(c)] = c
  /\ \A c, o \in Component : Rank(c) <= Rank(o) /\ Rank(o) <= Rank(c) => c = o
<1>1. \A c \in Component : \E i \in DOMAIN components : components[i] = c
  BY DEF Component, Range
<1>2. \A c \in Component : Rank(c) \in DOMAIN components /\ components[Rank(c)] = c
  BY <1>1 DEF Rank
<1>3. DOMAIN components \subseteq Int
  BY Constants
<1> QED
  BY <1>2, <1>3

LEMMA RowParts ==
  /\ \A row \in Row : row[1] \in Component /\ row[2] \in Time /\ row = <<row[1], row[2]>>
  /\ \A row \in Row : row \notin Run /\ JobOf(row) = row[1]
  /\ \A n \in Run : JobOf(n) = Checker
BY Constants DEF Row, JobOf

\* There is one last row of a time, and Heard finds it.
LEMMA HeardLast ==
  ASSUME NEW rows, NEW t, NEW c \in Component, LastAt(rows, t, c)
  PROVE  Heard(rows, t) = c
<1> DEFINE h == CHOOSE o \in Component : LastAt(rows, t, o)
<1>1. h \in Component /\ LastAt(rows, t, h)
  OBVIOUS
<1>2. Heard(rows, t) = h
  BY DEF Heard
<1> HIDE DEF h
<1>3. Rank(h) <= Rank(c) /\ Rank(c) <= Rank(h)
  BY <1>1 DEF LastAt
<1> QED
  BY <1>1, <1>2, <1>3, Ranks

LEMMA HeardType ==
  ASSUME NEW rows, NEW t PROVE Heard(rows, t) \in Component \cup {NoComponent}
<1>1. (\E c \in Component : LastAt(rows, t, c)) =>
         (CHOOSE c \in Component : LastAt(rows, t, c)) \in Component
  OBVIOUS
<1> QED
  BY <1>1 DEF Heard
-----------------------------------------------------------------------------
(***************************************************************************)
(* Types.                                                                  *)
(***************************************************************************)
TypeQuartz ==
  /\ db \in Setting
  /\ address \in {s.address : s \in Setting} \cup {NoBase}
  /\ jobs \subseteq Component \cup {Checker}
  /\ triggers \subseteq Row \cup Run
  /\ \A t \in triggers : JobOf(t) \in jobs
  /\ listener \in [Time -> Component \cup {NoComponent}]

TypeRequests ==
  /\ pc \in [Request -> {"idle", "call", "read", "remove", "unschedule",
                         "add", "exists", "schedule", "listen"}]
  /\ read \in [Request -> Setting \cup {NoBase}]
  /\ todo \in [Request -> SUBSET (Component \cup {Checker} \cup Row)]
  /\ found \in [Request -> SUBSET (Row \cup Run)]

TypeRuns ==
  /\ state \in [Run -> {"new", "sent", "detail", "pending", "due", "checked",
                         "missed"}]
  /\ of \in [Run -> Row \cup {NoComponent}]

TypeCounts ==
  /\ saves \in 0..MaxSaves
  /\ {overlap, unread} \subseteq BOOLEAN /\ excused \subseteq Run

LEMMA TypeParts == TypeOK <=> TypeQuartz /\ TypeRequests /\ TypeRuns /\ TypeCounts
BY DEF TypeOK, TypeQuartz, TypeRequests, TypeRuns, TypeCounts

\* What a request looks at: nothing but while it removes or adds; then, while it
\* adds, one row, and what is left are rows, and it has read a base.
FoundInv ==
  \A r \in Request :
    /\ pc[r] \in {"idle", "call", "read", "remove", "add"} => found[r] = {}
    /\ pc[r] \in {"add", "exists", "schedule", "listen"} => todo[r] \subseteq Row
    /\ pc[r] \in {"exists", "schedule", "listen"} => \E row \in Row : found[r] = {row}
    /\ Busy(r) => read[r] \in Setting

TypeInv == TypeQuartz /\ TypeRequests /\ TypeRuns /\ TypeCounts /\ FoundInv

LEMMA InstallTypes ==
  ASSUME NEW rows \in SUBSET Row
  PROVE  /\ {r[1] : r \in rows} \subseteq Component
         /\ \A t \in rows : JobOf(t) \in {r[1] : r \in rows}
         /\ [t \in Time |-> Heard(rows, t)] \in [Time -> Component \cup {NoComponent}]
BY RowParts, HeardType

LEMMA TypeInit == Init => TypeInv
<1> SUFFICES ASSUME Init PROVE TypeInv
  OBVIOUS
<1>1. db \in Setting /\ db.rows \subseteq Row
  BY Constants DEF Init
<1>2. TypeQuartz
  BY <1>1, InstallTypes DEF Init, TypeQuartz
<1>3. TypeRequests /\ FoundInv
  BY DEF Init, TypeRequests, FoundInv, Busy
<1>4. TypeRuns
  BY DEF Init, TypeRuns
<1>5. saves \in 0..MaxSaves /\ excused \subseteq Run
  BY Constants DEF Init
<1>6. {overlap, unread} \subseteq BOOLEAN
  BY Zenon DEF Init
<1> QED
  BY <1>2, <1>3, <1>4, <1>5, <1>6 DEF TypeInv, TypeCounts

\* Quartz keeps a job as long as it has triggers.
LEMMA RemovesKeeps ==
  ASSUME TypeQuartz, NEW gone, Removes(gone)
  PROVE  /\ jobs' \subseteq jobs /\ triggers' = triggers \ gone
         /\ \A t \in triggers' : JobOf(t) \in jobs'
BY DEF TypeQuartz, Removes

LEMMA QuartzStep == ASSUME TypeInv, [Next]_vars PROVE TypeQuartz'
<1> USE DEF TypeInv, quartz
<1>1. CASE UNCHANGED <<db, address, quartz>>
  BY <1>1 DEF TypeQuartz
<1>2. ASSUME NEW r \in Request, NEW s \in Setting, Save(r, s)
      PROVE  TypeQuartz'
  BY <1>2 DEF Save, TypeQuartz
<1>3. ASSUME NEW r \in Request, AddBase(r) PROVE TypeQuartz'
  <2>1. read[r] \in Setting
    BY <1>3 DEF AddBase, Goto, FoundInv, Busy
  <2> QED
    BY <1>3, <2>1 DEF AddBase, TypeQuartz
<1>4. ASSUME NEW r \in Request, Unschedule(r) PROVE TypeQuartz'
  BY <1>4, RemovesKeeps DEF Unschedule, TypeQuartz
<1>5. ASSUME NEW r \in Request, NEW row \in Row, Add(r, row) PROVE TypeQuartz'
  BY <1>5, RowParts DEF Add, TypeQuartz
<1>6. ASSUME NEW r \in Request, Schedule(r) PROVE TypeQuartz'
  <2>1. PICK row \in Row : found[r] = {row}
    BY <1>6 DEF Schedule, Goto, FoundInv
  <2> QED
    BY <1>6, <2>1, RowParts DEF Schedule, TypeQuartz
<1>7. ASSUME NEW r \in Request, Listen(r) PROVE TypeQuartz'
  <2>1. PICK row \in Row : found[r] = {row}
    BY <1>7 DEF Listen, Goto, FoundInv
  <2> QED
    BY <1>7, <2>1, RowParts DEF Listen, TypeQuartz
<1>8. ASSUME NEW n \in Run, GetChecker(n) \/ ScheduleCheck(n) PROVE TypeQuartz'
  BY <1>8, RowParts DEF GetChecker, ScheduleCheck, TypeQuartz
<1>9. ASSUME NEW n \in Run, CheckEnds(n) PROVE TypeQuartz'
  BY <1>9, RemovesKeeps DEF CheckEnds, TypeQuartz
<1>10. CASE Restart
  <2>1. CASE Valid(db)
    <3>1. db \in Setting /\ db.rows \subseteq Row
      BY <2>1, Constants DEF Valid, TypeQuartz
    <3>2. /\ triggers' = db.rows /\ jobs' = {r[1] : r \in db.rows}
          /\ listener' = [t \in Time |-> Heard(db.rows, t)]
          /\ address' = db.address /\ db' = db
      BY <1>10, <2>1 DEF Restart, Installs
    <3> QED
      BY <3>1, <3>2, InstallTypes DEF TypeQuartz
  <2>2. CASE ~Valid(db)
    <3>1. /\ triggers' = {} /\ jobs' = {r[1] : r \in {}}
          /\ listener' = [t \in Time |-> Heard({}, t)]
          /\ address' = NoBase /\ db' = db
      BY <1>10, <2>2 DEF Restart, Installs
    <3> QED
      BY <3>1, InstallTypes DEF TypeQuartz
  <2> QED
    BY <2>1, <2>2
<1> QED
  BY <1>1, <1>2, <1>3, <1>4, <1>5, <1>6, <1>7, <1>8, <1>9, <1>10
     DEF Next, Reconfigures, Checks, CallFails, Read, ReadFails, TriggersOf, Removed,
         Exists, ScheduleThrows, Added, Fire, AddExchangeTask, NoListener, CheckDue, vars

LEMMA RequestTypes == ASSUME TypeInv, [Next]_vars PROVE TypeRequests' /\ FoundInv'
<1> USE DEF TypeInv, TypeRequests, FoundInv, Goto, Busy, requests
<1>1. CASE UNCHANGED requests
  BY <1>1
<1>2. ASSUME NEW r \in Request, NEW s \in Setting, Save(r, s)
      PROVE  TypeRequests' /\ FoundInv'
  BY <1>2 DEF Save
<1>3. ASSUME NEW r \in Request, CallFails(r) \/ ReadFails(r) \/ Added(r)
      PROVE  TypeRequests' /\ FoundInv'
  BY <1>3 DEF CallFails, ReadFails, Added
<1>4. ASSUME NEW r \in Request, Read(r)
      PROVE  TypeRequests' /\ FoundInv'
  BY <1>4 DEF Read, Valid, TypeQuartz
<1>5. ASSUME NEW r \in Request, AddBase(r) PROVE TypeRequests' /\ FoundInv'
  BY <1>5 DEF AddBase, TypeQuartz
<1>6. ASSUME NEW r \in Request, NEW j \in Component \cup {Checker}, TriggersOf(r, j)
      PROVE  TypeRequests' /\ FoundInv'
  BY <1>6 DEF TriggersOf, TypeQuartz
<1>7. ASSUME NEW r \in Request, Unschedule(r) PROVE TypeRequests' /\ FoundInv'
  BY <1>7 DEF Unschedule
<1>8. ASSUME NEW r \in Request, Removed(r) PROVE TypeRequests' /\ FoundInv'
  <2>1. read[r].rows \subseteq Row
    BY <1>8, Constants DEF Removed
  <2> QED
    BY <1>8, <2>1 DEF Removed
<1>9. ASSUME NEW r \in Request, NEW row \in Row, Add(r, row)
      PROVE  TypeRequests' /\ FoundInv'
  BY <1>9 DEF Add, First
<1>10. ASSUME NEW r \in Request, Exists(r) PROVE TypeRequests' /\ FoundInv'
  BY <1>10 DEF Exists
<1>11. ASSUME NEW r \in Request, Schedule(r) \/ ScheduleThrows(r) \/ Listen(r)
       PROVE  TypeRequests' /\ FoundInv'
  BY <1>11 DEF Schedule, ScheduleThrows, Listen
<1>12. CASE Restart
  BY <1>12 DEF Restart
<1> QED
  BY <1>1, <1>2, <1>3, <1>4, <1>5, <1>6, <1>7, <1>8, <1>9, <1>10, <1>11, <1>12
     DEF Next, Reconfigures, Checks, Fire, AddExchangeTask, GetChecker, NoListener,
         ScheduleCheck, CheckDue, CheckEnds, vars

LEMMA RunTypes == ASSUME TypeInv, [Next]_vars PROVE TypeRuns' /\ TypeCounts'
<1> USE DEF TypeInv, TypeRuns, Becomes, runs
<1>1. TypeRuns'
  <2>1. ASSUME NEW r \in Request, Unschedule(r) PROVE TypeRuns'
    BY <2>1 DEF Unschedule
  <2>2. ASSUME NEW n \in Run, NEW row \in Row, Fire(n, row) PROVE TypeRuns'
    BY <2>2 DEF Fire
  <2>3. ASSUME NEW n \in Run, AddExchangeTask(n) \/ Checks(n) PROVE TypeRuns'
    BY <2>3 DEF AddExchangeTask, Checks, GetChecker, NoListener, ScheduleCheck, CheckDue,
                CheckEnds
  <2>4. CASE Restart
    BY <2>4 DEF Restart
  <2>5. CASE UNCHANGED runs
    BY <2>5
  <2> QED
    BY <2>1, <2>2, <2>3, <2>4, <2>5
       DEF Next, Reconfigures, Save, CallFails, Read, ReadFails, AddBase, TriggersOf,
           Removed, Add, Exists, Schedule, ScheduleThrows, Listen, Added, vars
<1>2. saves' \in 0..MaxSaves
  <2>1. saves \in 0..MaxSaves
    BY DEF TypeCounts
  <2>2. ASSUME NEW r \in Request, NEW s \in Setting, Save(r, s)
        PROVE  saves' \in 0..MaxSaves
    <3>1. saves' = saves \/ (saves < MaxSaves /\ saves' = saves + 1)
      BY <2>2 DEF Save
    <3> QED
      BY <2>1, <3>1, Constants
  <2>3. CASE saves' = saves
    BY <2>1, <2>3
  <2> QED
    BY <2>2, <2>3
       DEF Next, Restart, Reconfigures, Checks, CallFails, Read, ReadFails, AddBase, TriggersOf,
           Unschedule, Removed, Add, Exists, Schedule, ScheduleThrows, Listen, Added, Fire,
           AddExchangeTask, GetChecker, NoListener, ScheduleCheck, CheckDue, CheckEnds, vars
<1>3. {overlap', unread'} \subseteq BOOLEAN
  <2>1. overlap \in BOOLEAN /\ unread \in BOOLEAN
    BY Zenon DEF TypeCounts
  <2>2. ASSUME NEW r \in Request, Read(r) PROVE overlap' \in BOOLEAN /\ unread' \in BOOLEAN
    BY <2>2, Zenon DEF Read
  <2>3. ASSUME NEW r \in Request, NEW s \in Setting, Save(r, s)
        PROVE  overlap' = overlap /\ unread' \in BOOLEAN
    BY <2>3, Zenon DEF Save
  <2>4. CASE Restart
    BY <2>4, Zenon DEF Restart
  <2>5. overlap' \in BOOLEAN /\ unread' \in BOOLEAN
    <3>1. CASE UNCHANGED <<overlap, unread>>
      BY <2>1, <3>1
    <3> QED
      BY <2>1, <2>2, <2>3, <2>4, <3>1
         DEF Next, Reconfigures, Checks, CallFails, ReadFails, AddBase, TriggersOf,
           Unschedule, Removed, Add, Exists, Schedule, ScheduleThrows, Listen, Added, Fire,
           AddExchangeTask, GetChecker, NoListener, ScheduleCheck, CheckDue, CheckEnds, vars,
           history
  <2> QED
    BY <2>5, Zenon
<1>4. excused' \subseteq Run
  <2>1. excused \subseteq Run
    BY DEF TypeCounts
  <2>2. ASSUME NEW n \in Run, AddExchangeTask(n) \/ CheckEnds(n)
        PROVE  excused' \subseteq Run
    BY <2>1, <2>2 DEF Fire, AddExchangeTask, CheckEnds
  <2>3. ASSUME NEW n \in Run, NEW row \in Row, Fire(n, row) PROVE excused' \subseteq Run
    BY <2>1, <2>3 DEF Fire
  <2>4. ASSUME NEW r \in Request, Read(r) PROVE excused' \subseteq Run
    BY <2>1, <2>4 DEF Read, UnderWay
  <2>5. CASE Restart
    BY <2>1, <2>5 DEF Restart, UnderWay
  <2>6. CASE excused' = excused
    BY <2>1, <2>6
  <2> QED
    BY <2>2, <2>3, <2>4, <2>5, <2>6
       DEF Next, Reconfigures, Checks, CallFails, Save, ReadFails, AddBase, TriggersOf,
           Unschedule, Removed, Add, Exists, Schedule, ScheduleThrows, Listen, Added,
           GetChecker, NoListener, ScheduleCheck, CheckDue, vars, history
<1> QED
  BY <1>1, <1>2, <1>3, <1>4 DEF TypeCounts

LEMMA TypeStep == TypeInv /\ [Next]_vars => TypeInv'
BY QuartzStep, RequestTypes, RunTypes DEF TypeInv

LEMMA TypesKept == Spec => []TypeInv
BY TypeInit, TypeStep, PTL DEF Spec

\* Every variable keeps its type; above all no trigger is left without its job,
\* which Quartz would not fire, however requests, checks and restarts interleave
\* (SchedulerManager.cs:61-94, 96-126).
THEOREM ScheduleTypeCorrect == Spec => []TypeOK
<1>1. TypeInv => TypeOK
  BY TypeParts DEF TypeInv
<1> QED
  BY <1>1, TypesKept, PTL
-----------------------------------------------------------------------------
(***************************************************************************)
(* A request that meets no other.                                          *)
(***************************************************************************)
Installed(s) ==
  /\ triggers \cap Row = s.rows
  /\ address = s.address
  /\ \A t \in Time, c \in Component : LastAt(s.rows, t, c) => listener[t] = c

Removing(r) == pc[r] \in {"remove", "unschedule"}
Adding(r)   == pc[r] \in {"add", "exists", "schedule", "listen"}

\* While rows are added: those that are done are in place, in their order, and
\* the last one of a time has its listener; the one at work has its trigger
\* once it gets to its listener.
Placed(r) ==
  LET rows == read[r].rows
  IN /\ todo[r] \subseteq rows /\ found[r] \subseteq rows \ todo[r]
     /\ triggers \cap Row =
          rows \ (todo[r] \cup (IF pc[r] = "listen" THEN {} ELSE found[r]))
     /\ \A a \in rows \ todo[r], b \in todo[r] \cup found[r] : Rank(a[1]) <= Rank(b[1])
     /\ \A t \in Time, c \in Component :
          LastAt(rows \ (todo[r] \cup found[r]), t, c) => listener[t] = c

\* How far request r has got: no trigger escapes it while it removes, and what
\* it has added stands.
Heals(r) ==
  /\ pc[r] # "read" => address = read[r].address
  /\ Removing(r) => \A t \in triggers \cap Row : t[1] \in todo[r] \/ t \in found[r]
  /\ Adding(r) => Placed(r)
  /\ pc[r] \in {"exists", "schedule"} => \A row \in found[r] : row[1] \in jobs

HealInv ==
  ~overlap =>
    /\ \A r, o \in Request : Busy(r) /\ Busy(o) => r = o
    /\ \A r \in Request : Busy(r) => Heals(r) /\ (~unread => read[r] = db)
    /\ ~unread /\ (\A r \in Request : ~Busy(r)) /\ Valid(db) => Installed(db)

\* What the service installs when it starts.
LEMMA StartInstalls ==
  ASSUME NEW s \in Setting
  PROVE  /\ s.rows \cap Row = s.rows
         /\ \A t \in Time, c \in Component :
              LastAt(s.rows, t, c) => [u \in Time |-> Heard(s.rows, u)][t] = c
BY Constants, HeardLast

\* The step of a request that is alone decides by itself what holds after it.
LEMMA AloneStep ==
  ASSUME TypeInv, HealInv, ~overlap, NEW r \in Request, Busy(r),
         UNCHANGED <<db, history>>,
         \A o \in Request \ {r} : pc'[o] = pc[o],
         Busy(r)' => Heals(r)' /\ read'[r] = read[r],
         ~Busy(r)' /\ ~unread /\ Valid(db) => Installed(db)'
  PROVE  HealInv'
<1>1. \A o \in Request \ {r} : ~Busy(o)'
  BY DEF HealInv, Busy
<1>2. Valid(db)' <=> Valid(db)
  BY DEF Valid
<1> QED
  BY <1>1, <1>2 DEF HealInv, history, Installed

LEMMA HealsWhileRemoving ==
  ASSUME TypeInv, NEW r \in Request, Heals(r),
         \/ AddBase(r) \/ Unschedule(r) \/ Removed(r)
         \/ \E j \in Component \cup {Checker} : TriggersOf(r, j)
  PROVE  Heals(r)' /\ Busy(r)' /\ read'[r] = read[r]
<1> USE DEF TypeInv, TypeRequests, Goto, Heals, Busy, Removing, Adding, FoundInv
<1>1. CASE AddBase(r)
  BY <1>1, RowParts DEF AddBase, TypeQuartz, quartz
<1>2. CASE Unschedule(r)
  BY <1>2 DEF Unschedule, Removes
<1>3. CASE Removed(r)
  <2>1. triggers \cap Row = {} /\ found[r] = {} /\ triggers' = triggers
    BY <1>3 DEF Removed, quartz
  <2>2. todo'[r] = read[r].rows /\ found'[r] = {} /\ read'[r] = read[r] /\ pc'[r] = "add"
    BY <1>3, <2>1 DEF Removed
  <2>3. Placed(r)'
    BY <2>1, <2>2 DEF Placed, LastAt
  <2>4. address' = read'[r].address
    BY <1>3 DEF Removed
  <2> QED
    BY <2>2, <2>3, <2>4
<1>4. ASSUME NEW j \in Component \cup {Checker}, TriggersOf(r, j)
      PROVE  Heals(r)' /\ Busy(r)' /\ read'[r] = read[r]
  BY <1>4, RowParts DEF TriggersOf, quartz
<1> QED
  BY <1>1, <1>2, <1>3, <1>4

LEMMA HealsAdd ==
  ASSUME TypeInv, NEW r \in Request, Heals(r), NEW row \in Row, Add(r, row)
  PROVE  Heals(r)' /\ Busy(r)' /\ read'[r] = read[r]
<1> DEFINE rows == read[r].rows
<1>1. /\ pc[r] = "add" /\ found[r] = {} /\ todo[r] \subseteq Row /\ row \in todo[r]
      /\ \A o \in todo[r] : Rank(row[1]) <= Rank(o[1])
  BY DEF Add, First, Goto, TypeInv, FoundInv
<1>2. /\ pc'[r] = "exists" /\ todo'[r] = todo[r] \ {row} /\ found'[r] = {row}
      /\ read' = read /\ triggers' = triggers /\ listener' = listener
      /\ address' = address /\ jobs' = jobs \cup {row[1]}
  BY DEF Add, Goto, TypeInv, TypeRequests
<1>3. Placed(r)
  BY <1>1 DEF Heals, Adding
<1>4. /\ todo[r] \subseteq rows /\ triggers \cap Row = rows \ todo[r]
      /\ \A a \in rows \ todo[r], b \in todo[r] : Rank(a[1]) <= Rank(b[1])
      /\ rows \ (todo[r] \cup found[r]) = rows \ todo[r]
  BY <1>1, <1>3 DEF Placed
<1>5. rows \ (todo'[r] \cup found'[r]) = rows \ todo[r] /\ read'[r].rows = rows
  BY <1>1, <1>2, <1>4
<1>6. Rank(row[1]) <= Rank(row[1])
  BY Ranks, RowParts
<1>7. \A a \in rows \ todo'[r], b \in todo'[r] \cup found'[r] : Rank(a[1]) <= Rank(b[1])
  BY <1>1, <1>2, <1>4, <1>6
<1>8. \A t \in Time, c \in Component :
        LastAt(rows \ (todo'[r] \cup found'[r]), t, c) => listener'[t] = c
  BY <1>2, <1>3, <1>4, <1>5 DEF Placed
<1>9. /\ todo'[r] \subseteq rows /\ found'[r] \subseteq rows \ todo'[r]
      /\ triggers' \cap Row = rows \ (todo'[r] \cup found'[r])
  BY <1>1, <1>2, <1>4, <1>5
<1>10. Placed(r)'
  BY <1>2, <1>5, <1>7, <1>8, <1>9 DEF Placed
<1> QED
  BY <1>1, <1>2, <1>10 DEF Heals, Removing, Adding, Busy

LEMMA HealsSchedule ==
  ASSUME TypeInv, NEW r \in Request, Heals(r), Exists(r) \/ Schedule(r)
  PROVE  Heals(r)' /\ Busy(r)' /\ read'[r] = read[r]
<1>1. pc[r] \in {"exists", "schedule"} /\ Placed(r)
  BY DEF Exists, Schedule, Goto, Heals, Adding
<1>2. PICK row \in Row : found[r] = {row}
  BY <1>1 DEF TypeInv, FoundInv
<1>3. row \notin triggers
  BY <1>1, <1>2 DEF Placed
<1>4. /\ pc'[r] = IF pc[r] = "exists" THEN "schedule" ELSE "listen"
      /\ triggers' = IF pc[r] = "exists" THEN triggers ELSE triggers \cup {row}
      /\ UNCHANGED <<read, todo, found, listener, address, jobs>>
  BY <1>2, <1>3 DEF Exists, Schedule, Goto, TypeInv, TypeRequests, quartz
<1>5. Placed(r)'
  BY <1>1, <1>2, <1>3, <1>4 DEF Placed
<1> QED
  BY <1>1, <1>4, <1>5 DEF Heals, Removing, Adding, Busy

LEMMA NothingThrows ==
  ASSUME TypeInv, NEW r \in Request, Heals(r) PROVE ~ScheduleThrows(r)
BY DEF ScheduleThrows, Goto, Heals, Adding, Placed, TypeInv, FoundInv

\* The row added last of a time is the last one of that time.
LEMMA HealsListen ==
  ASSUME TypeInv, NEW r \in Request, Heals(r), Listen(r)
  PROVE  Heals(r)' /\ Busy(r)' /\ read'[r] = read[r]
<1> DEFINE rows == read[r].rows
<1>1. pc[r] = "listen" /\ Placed(r)
  BY DEF Listen, Goto, Heals, Adding
<1>2. PICK row \in Row : found[r] = {row}
  BY <1>1 DEF TypeInv, FoundInv
<1>3. /\ pc'[r] = "add" /\ found'[r] = {} /\ read' = read /\ todo' = todo
      /\ listener' = [listener EXCEPT ![row[2]] = row[1]]
      /\ triggers' = triggers /\ address' = address
  BY <1>2 DEF Listen, Goto, TypeInv, TypeRequests
<1>4. row \in rows \ todo[r] /\ row[1] \in Component /\ row[2] \in Time
      /\ row = <<row[1], row[2]>>
  BY <1>1, <1>2, RowParts DEF Placed
<1>5. ASSUME NEW t \in Time, NEW c \in Component, LastAt(rows \ todo[r], t, c)
      PROVE  listener'[t] = c
  <2>1. <<c, t>> \in rows \ todo[r]
    BY <1>5 DEF LastAt
  <2>2. CASE t = row[2]
    <3>1. Rank(row[1]) <= Rank(c)
      BY <1>4, <1>5, <2>2 DEF LastAt
    <3>2. Rank(c) <= Rank(row[1])
      <4>1. \A a \in rows \ todo[r] : Rank(a[1]) <= Rank(row[1])
        BY <1>1, <1>2 DEF Placed
      <4> QED
        BY <2>1, <4>1
    <3>3. c = row[1]
      BY <1>4, <3>1, <3>2, Ranks
    <3> QED
      BY <1>3, <2>2, <3>3 DEF TypeInv, TypeQuartz
  <2>3. CASE t # row[2]
    <3>1. LastAt(rows \ (todo[r] \cup found[r]), t, c)
      BY <1>2, <1>4, <1>5, <2>1, <2>3 DEF LastAt
    <3>2. listener[t] = c
      BY <1>1, <3>1 DEF Placed
    <3> QED
      BY <1>3, <2>3, <3>2 DEF TypeInv, TypeQuartz
  <2> QED
    BY <2>2, <2>3
<1>6. rows \ (todo'[r] \cup found'[r]) = rows \ todo[r] /\ read'[r].rows = rows
  BY <1>3
<1>7. \A a \in rows \ todo'[r], b \in todo'[r] \cup found'[r] : Rank(a[1]) <= Rank(b[1])
  BY <1>1, <1>3 DEF Placed
<1>8. /\ todo'[r] \subseteq rows /\ found'[r] \subseteq rows \ todo'[r]
      /\ triggers' \cap Row = rows \ (todo'[r] \cup found'[r])
  BY <1>1, <1>3 DEF Placed
<1>9. Placed(r)'
  BY <1>3, <1>5, <1>6, <1>7, <1>8 DEF Placed
<1> QED
  BY <1>1, <1>3, <1>9 DEF Heals, Removing, Adding, Busy

LEMMA HealsInstalled ==
  ASSUME TypeInv, NEW r \in Request, Heals(r), Added(r)
  PROVE  ~Busy(r)' /\ Installed(read[r]) /\ UNCHANGED <<triggers, address, listener>>
<1>1. pc[r] = "add" /\ pc'[r] = "idle" /\ todo[r] = {} /\ found[r] = {}
  BY DEF Added, Goto, TypeInv, TypeRequests, FoundInv
<1>2. read[r].rows \ {} = read[r].rows /\ {} \cup {} = {}
  OBVIOUS
<1> QED
  BY <1>1, <1>2 DEF Added, Heals, Adding, Placed, Installed, Busy, quartz

LEMMA HealInit == Init => HealInv
<1> SUFFICES ASSUME Init PROVE HealInv
  OBVIOUS
<1>1. \A r \in Request : ~Busy(r)
  BY DEF Init, Busy
<1>2. db \in Setting
  BY DEF Init
<1>3. Installed(db)
  BY <1>2, StartInstalls DEF Init, Installed
<1> QED
  BY <1>1, <1>3 DEF HealInv

LEMMA HealRestart == ASSUME TypeInv, Restart PROVE HealInv'
<1>1. \A r \in Request : ~Busy(r)'
  BY DEF Restart, Busy
<1>2. ASSUME Valid(db) PROVE Installed(db)'
  <2>1. db \in Setting
    BY <1>2 DEF Valid, TypeInv, TypeQuartz
  <2>2. /\ triggers' = db.rows /\ address' = db.address /\ db' = db
        /\ listener' = [t \in Time |-> Heard(db.rows, t)]
    BY <1>2 DEF Restart, Installs
  <2> QED
    BY <2>1, <2>2, StartInstalls DEF Installed
<1>3. Valid(db)' <=> Valid(db)
  BY DEF Restart, Valid
<1> QED
  BY <1>1, <1>2, <1>3 DEF HealInv

\* Commands and checks touch no trigger of the schedule, nor its jobs.
LEMMA HealUntouched ==
  ASSUME TypeInv, HealInv,
         UNCHANGED <<db, address, listener, requests, overlap, unread>>,
         triggers' \cap Row = triggers \cap Row,
         jobs \cap Component \subseteq jobs'
  PROVE  HealInv'
<1>1. \A r \in Request : Placed(r) => Placed(r)'
  BY DEF Placed, requests
<1>2. \A r \in Request : pc[r] \in {"exists", "schedule"} =>
         \A row \in found[r] : row[1] \in Component
  BY RowParts DEF TypeInv, FoundInv
<1>3. \A r \in Request : Heals(r) => Heals(r)'
  BY <1>1, <1>2 DEF Heals, Removing, Adding, requests
<1>4. \A r \in Request : Busy(r)' <=> Busy(r)
  BY DEF Busy, requests
<1>5. /\ Installed(db) => Installed(db)'
      /\ Valid(db)' <=> Valid(db)
  BY DEF Installed, Valid
<1> QED
  BY <1>3, <1>4, <1>5 DEF HealInv, requests

LEMMA HealRuns ==
  ASSUME TypeInv, HealInv, NEW n \in Run,
         \/ \E row \in Row : Fire(n, row)
         \/ AddExchangeTask(n) \/ Checks(n)
  PROVE  HealInv'
<1>1. UNCHANGED <<db, address, listener, requests, overlap, unread>>
  BY DEF Fire, AddExchangeTask, Checks, GetChecker, NoListener, ScheduleCheck, CheckDue,
         CheckEnds, quartz, history
<1>2. triggers' \cap Row = triggers \cap Row /\ jobs \cap Component \subseteq jobs'
  <2>1. CASE CheckEnds(n)
    BY <2>1, RowParts, Constants DEF CheckEnds, Removes
  <2>2. CASE ~CheckEnds(n)
    <3>1. triggers' = triggers \/ triggers' = triggers \cup {n}
      BY <2>2 DEF Fire, AddExchangeTask, Checks, GetChecker, NoListener, ScheduleCheck,
                  CheckDue, quartz
    <3>2. jobs \subseteq jobs'
      BY <2>2 DEF Fire, AddExchangeTask, Checks, GetChecker, NoListener, ScheduleCheck,
                  CheckDue, quartz
    <3> QED
      BY <3>1, <3>2, RowParts
  <2> QED
    BY <2>1, <2>2
<1> QED
  BY <1>1, <1>2, HealUntouched

LEMMA HealReads ==
  ASSUME TypeInv, HealInv, NEW r \in Request, Read(r) PROVE HealInv'
<1>1. /\ pc[r] = "call" /\ pc' = [pc EXCEPT ![r] = "read"] /\ Valid(db)
      /\ read' = [read EXCEPT ![r] = db] /\ db' = db
      /\ overlap' = \E o \in Request \ {r} : Busy(o)
  BY DEF Read, Goto
<1> SUFFICES ASSUME ~overlap' PROVE HealInv'
  BY DEF HealInv
<1>2. \A o \in Request \ {r} : ~Busy(o)
  BY <1>1
<1>3. \A o \in Request \ {r} : ~Busy(o)'
  BY <1>1, <1>2 DEF Busy
<1>4. Busy(r)' /\ pc'[r] = "read" /\ read'[r] = db /\ db \in Setting
  BY <1>1 DEF Busy, TypeInv, TypeRequests, TypeQuartz, Valid
<1>5. Heals(r)'
  BY <1>4 DEF Heals, Removing, Adding
<1> QED
  BY <1>1, <1>3, <1>4, <1>5 DEF HealInv

\* A request that only fails to begin, or saves.
LEMMA HealIdle ==
  ASSUME TypeInv, HealInv, NEW r \in Request,
         \/ \E s \in Setting : Save(r, s)
         \/ CallFails(r) \/ ReadFails(r)
  PROVE  HealInv'
<1>1. /\ \A o \in Request : Busy(o)' <=> Busy(o)
      /\ \A o \in Request : pc'[o] = pc[o] \/ ~Busy(o)
      /\ UNCHANGED <<address, quartz, read, todo, found, overlap>>
      /\ unread' \/ (unread' = unread /\ db' = db)
  BY DEF Save, CallFails, ReadFails, Goto, Busy, TypeInv, TypeRequests, history
<1>2. \A o \in Request : Busy(o) /\ Heals(o) => Heals(o)'
  BY <1>1 DEF Heals, Removing, Adding, Placed, quartz
<1>3. db' = db => (Valid(db)' <=> Valid(db)) /\ (Installed(db) => Installed(db)')
  BY <1>1 DEF Valid, Installed, quartz
<1> QED
  BY <1>1, <1>2, <1>3 DEF HealInv

LEMMA HealStep == TypeInv /\ HealInv /\ [Next]_vars => HealInv'
<1> SUFFICES ASSUME TypeInv, HealInv, [Next]_vars PROVE HealInv'
  OBVIOUS
<1>1. ASSUME NEW r \in Request,
             \/ AddBase(r) \/ Unschedule(r) \/ Removed(r)
             \/ \E j \in Component \cup {Checker} : TriggersOf(r, j)
             \/ \E row \in Row : Add(r, row)
             \/ Exists(r) \/ Schedule(r) \/ ScheduleThrows(r) \/ Listen(r) \/ Added(r)
      PROVE  HealInv'
  <2>1. /\ Busy(r) /\ UNCHANGED <<db, history>>
        /\ \A o \in Request \ {r} : pc'[o] = pc[o]
    BY <1>1 DEF AddBase, Unschedule, Removed, TriggersOf, Add, Exists, Schedule,
                ScheduleThrows, Listen, Added, Goto, Busy, TypeInv, TypeRequests
  <2>2. CASE overlap
    BY <2>1, <2>2 DEF HealInv, history
  <2>3. CASE ~overlap
    <3>1. Heals(r) /\ (~unread => read[r] = db)
      BY <2>1, <2>3 DEF HealInv
    <3>2. CASE Added(r)
      <4>1. ~Busy(r)' /\ Installed(read[r]) /\ UNCHANGED <<triggers, address, listener>>
        BY <3>1, <3>2, HealsInstalled
      <4>2. ~unread => Installed(db)'
        BY <2>1, <3>1, <4>1 DEF Installed
      <4> QED
        BY <2>1, <2>3, <4>1, <4>2, AloneStep
    <3>3. CASE ~Added(r)
      <4>1. Heals(r)' /\ Busy(r)' /\ read'[r] = read[r]
        BY <1>1, <3>1, <3>3, HealsWhileRemoving, HealsAdd, HealsSchedule, NothingThrows,
           HealsListen
      <4> QED
        BY <2>1, <2>3, <4>1, AloneStep
    <3> QED
      BY <3>2, <3>3
  <2> QED
    BY <2>2, <2>3
<1>2. CASE UNCHANGED vars
  BY <1>2, HealUntouched DEF vars, quartz, history
<1> QED
  BY <1>1, <1>2, HealIdle, HealReads, HealRuns, HealRestart DEF Next, Reconfigures

\* Whatever earlier requests left behind, one that meets no other makes
\* triggers, listeners and address those of the database, for any number of
\* components and times, whatever commands, checks and restarts come between
\* its steps (SchedulerManager.cs:61-69, 96-126; URBDCentralWorker.cs:182-201).
THEOREM LoneRequestHeals == Spec => []ScheduleIsDb
<1>1. HealInv => ScheduleIsDb
  BY DEF HealInv, ScheduleIsDb, Installed
<1> QED
  BY <1>1, HealInit, HealStep, TypesKept, PTL DEF Spec
-----------------------------------------------------------------------------
(***************************************************************************)
(* Checks.                                                                 *)
(***************************************************************************)
\* While nothing is reconfigured, the last row of a time has its listener,
\* whether the database has changed since or its address is malformed.
HeardInv ==
  Settled => \A t \in Time, c \in Component :
               LastAt(triggers \cap Row, t, c) => listener[t] = c

\* What a command without an excuse has on its way to its check.
ExcuseInv ==
  /\ (\E r \in Request : Busy(r)) => UnderWay \subseteq excused
  /\ \A n \in Run : state[n] = "new" => of[n] = NoComponent
  /\ \A n \in Run \ excused :
       /\ state[n] # "missed"
       /\ state[n] = "sent" => Watched(n)
       /\ state[n] = "detail" => Checker \in jobs
       /\ state[n] = "pending" => n \in triggers

\* The safety half of CheckFollows.
MissedExcused ==
  \A n \in Run : /\ state[n] = "missed" => n \in excused
                 /\ state[n] = "pending" => n \in triggers \cup excused

LEMMA HeardStep == ASSUME TypeInv, HealInv, HeardInv, [Next]_vars PROVE HeardInv'
<1> SUFFICES ASSUME Settled',
                    NEW t \in Time, NEW c \in Component, LastAt(triggers \cap Row, t, c)'
             PROVE  listener'[t] = c
  BY DEF HeardInv
<1>1. CASE Restart
  <2>1. DEFINE rows == IF Valid(db) THEN db.rows ELSE {}
  <2>2. triggers' = rows /\ listener' = [u \in Time |-> Heard(rows, u)] /\ rows \subseteq Row
    BY <1>1, Constants DEF Restart, Installs, TypeInv, TypeQuartz
  <2>3. LastAt(rows, t, c)
    BY <2>2 DEF LastAt
  <2> QED
    BY <2>2, <2>3, HeardLast
<1>2. ASSUME NEW r \in Request, Added(r) PROVE listener'[t] = c
  <2>1. Busy(r) /\ overlap' = overlap
    BY <1>2 DEF Added, Goto, Busy, history
  <2>2. Heals(r)
    BY <2>1 DEF HealInv, Settled
  <2>3. Installed(read[r]) /\ UNCHANGED <<triggers, listener>>
    BY <1>2, <2>2, HealsInstalled
  <2> QED
    BY <2>3 DEF Installed, LastAt
<1>3. ASSUME NEW r \in Request, ScheduleThrows(r) PROVE listener'[t] = c
  <2>1. Busy(r) /\ overlap' = overlap
    BY <1>3 DEF ScheduleThrows, Goto, Busy, history
  <2> QED
    BY <1>3, <2>1, NothingThrows DEF HealInv, Settled
<1>4. ASSUME NEW r \in Request,
             \/ Read(r) \/ AddBase(r) \/ Unschedule(r) \/ Removed(r)
             \/ \E j \in Component \cup {Checker} : TriggersOf(r, j)
             \/ \E row \in Row : Add(r, row)
             \/ Exists(r) \/ Schedule(r) \/ Listen(r)
      PROVE  FALSE
  BY <1>4 DEF Read, AddBase, Unschedule, Removed, TriggersOf, Add, Exists, Schedule, Listen,
              Goto, Busy, Settled, TypeInv, TypeRequests
<1>5. CASE /\ UNCHANGED <<listener, overlap>> /\ triggers' \cap Row = triggers \cap Row
           /\ \A r \in Request : Busy(r)' <=> Busy(r)
  BY <1>5 DEF HeardInv, Settled, LastAt
<1>6. ASSUME NEW n \in Run, CheckEnds(n) PROVE listener'[t] = c
  BY <1>5, <1>6, RowParts, Constants DEF CheckEnds, Removes, requests, Busy
<1>7. ASSUME NEW n \in Run, ScheduleCheck(n) PROVE listener'[t] = c
  BY <1>5, <1>7, RowParts, Constants DEF ScheduleCheck, requests, history, Busy
<1>8. ASSUME NEW n \in Run, \/ \E row \in Row : Fire(n, row)
                           \/ AddExchangeTask(n) \/ GetChecker(n) \/ NoListener(n) \/ CheckDue(n)
      PROVE  listener'[t] = c
  BY <1>5, <1>8 DEF Fire, AddExchangeTask, GetChecker, NoListener, CheckDue, quartz, requests,
                    history, Busy
<1>9. ASSUME NEW r \in Request,
             \/ \E s \in Setting : Save(r, s)
             \/ CallFails(r) \/ ReadFails(r)
      PROVE  listener'[t] = c
  <2>1. UNCHANGED <<listener, overlap, triggers>> /\ \A o \in Request : Busy(o)' <=> Busy(o)
    BY <1>9 DEF Save, CallFails, ReadFails, Goto, Busy, TypeInv, TypeRequests, quartz, history
  <2> QED
    BY <1>5, <2>1
<1>10. CASE UNCHANGED vars
  BY <1>5, <1>10 DEF vars, quartz, requests, history, Busy
<1> QED
  BY <1>1, <1>2, <1>3, <1>4, <1>6, <1>7, <1>8, <1>9, <1>10 DEF Next, Reconfigures, Checks

\* A request reads the database and then removes and adds rows: whatever is
\* under way meanwhile is excused.
LEMMA ExcuseRequests ==
  ASSUME TypeInv, ExcuseInv, NEW r \in Request,
         \/ \E s \in Setting : Save(r, s)
         \/ CallFails(r) \/ Reconfigures(r)
  PROVE  ExcuseInv'
<1>1. CASE Busy(r)
  <2>1. UnderWay \subseteq excused
    BY <1>1 DEF ExcuseInv
  <2>2. excused' = excused
    BY <1>1 DEF Save, CallFails, Reconfigures, Read, ReadFails, AddBase, TriggersOf, Unschedule,
                Removed, Add, Exists, Schedule, ScheduleThrows, Listen, Added, Goto, Busy, history
  <2>3. \A n \in Run : state'[n] = state[n] \/ (n \in UnderWay /\ state'[n] = "missed")
    <3>1. CASE Unschedule(r)
      BY <3>1 DEF Unschedule, UnderWay, TypeInv, TypeRuns
    <3>2. CASE ~Unschedule(r)
      BY <3>2 DEF Save, CallFails, Reconfigures, Read, ReadFails, AddBase, TriggersOf,
                  Removed, Add, Exists, Schedule, ScheduleThrows, Listen, Added, runs
    <3> QED
      BY <3>1, <3>2
  <2>4. \A n \in Run : n \notin excused => state'[n] = state[n] /\ n \notin UnderWay
    BY <2>1, <2>3
  <2>5. of' = of
    BY DEF Save, CallFails, Reconfigures, Read, ReadFails, AddBase, TriggersOf, Unschedule,
           Removed, Add, Exists, Schedule, ScheduleThrows, Listen, Added, runs
  <2>6. UnderWay' \subseteq excused'
    BY <2>1, <2>2, <2>3 DEF UnderWay
  <2> QED
    BY <2>2, <2>3, <2>4, <2>5, <2>6 DEF ExcuseInv, UnderWay
<1>2. CASE ~Busy(r)
  <2>1. CASE Read(r)
    <3>1. excused' = excused \cup UnderWay /\ UNCHANGED <<state, of, listener, triggers, jobs>>
      BY <2>1 DEF Read, runs, quartz
    <3> QED
      BY <3>1 DEF ExcuseInv, UnderWay, Watched
  <2>2. CASE ~Read(r)
    <3>1. /\ UNCHANGED <<state, of, listener, triggers, jobs, excused>>
          /\ \A o \in Request : Busy(o)' => Busy(o)
      BY <1>2, <2>2 DEF Save, CallFails, Reconfigures, ReadFails, AddBase, TriggersOf, Unschedule,
             Removed, Add, Exists, Schedule, ScheduleThrows, Listen, Added, Goto, Busy, history,
             runs, quartz, TypeInv, TypeRequests
    <3> QED
      BY <3>1 DEF ExcuseInv, UnderWay, Watched
  <2> QED
    BY <2>1, <2>2
<1> QED
  BY <1>1, <1>2

LEMMA ExcuseRuns ==
  ASSUME TypeInv, ExcuseInv, HeardInv, NEW n \in Run,
         \/ \E row \in Row : Fire(n, row)
         \/ AddExchangeTask(n) \/ Checks(n)
  PROVE  ExcuseInv'
<1> USE DEF TypeInv, TypeRuns, Becomes
<1>1. ASSUME NEW row \in Row, Fire(n, row) PROVE ExcuseInv'
  <2>1. /\ state[n] = "new" /\ state' = [state EXCEPT ![n] = "sent"]
        /\ of' = [of EXCEPT ![n] = row] /\ row \in triggers
        /\ UNCHANGED <<pc, jobs, triggers, listener>>
        /\ \A m \in Run : m # n => (m \in excused' <=> m \in excused)
        /\ n \notin excused' => Settled /\ LastAt(triggers \cap Row, row[2], row[1])
        /\ excused \subseteq excused'
    BY <1>1 DEF Fire, quartz, requests
  <2>2. n \notin excused' => Watched(n)'
    <3>1. of'[n] = row /\ row[1] \in Component /\ row[2] \in Time
      BY <2>1, RowParts
    <3> QED
      BY <2>1, <3>1 DEF HeardInv, Watched
  <2>3. (\E r \in Request : Busy(r)) => UnderWay' \subseteq excused'
    BY <2>1 DEF ExcuseInv, UnderWay, Settled
  <2>4. \A m \in Run : m # n => state'[m] = state[m] /\ (Watched(m)' <=> Watched(m))
    BY <2>1 DEF Watched
  <2> QED
    BY <2>1, <2>2, <2>3, <2>4 DEF ExcuseInv, Busy
<1>2. CASE AddExchangeTask(n)
  <2>1. /\ state[n] = "new" /\ state' = [state EXCEPT ![n] = "sent"]
        /\ UNCHANGED <<pc, jobs, triggers, listener, of>>
        /\ \A m \in Run : m # n => (m \in excused' <=> m \in excused)
        /\ of[n] = NoComponent
        /\ (\E r \in Request : Busy(r)) => n \in excused'
        /\ excused \subseteq excused'
    BY <1>2 DEF AddExchangeTask, quartz, requests, ExcuseInv
  <2>2. n \notin excused' => Watched(n)'
    BY <2>1 DEF Watched
  <2>3. (\E r \in Request : Busy(r)) => UnderWay' \subseteq excused'
    BY <2>1 DEF ExcuseInv, UnderWay
  <2>4. \A m \in Run : m # n => state'[m] = state[m] /\ (Watched(m)' <=> Watched(m))
    BY <2>1 DEF Watched
  <2> QED
    BY <2>1, <2>2, <2>3, <2>4 DEF ExcuseInv, Busy
<1>3. CASE CheckEnds(n)
  <2>1. /\ state[n] = "due" /\ state' = [state EXCEPT ![n] = "checked"]
        /\ UNCHANGED <<pc, listener, of>> /\ triggers' = triggers \ {n}
        /\ excused' = (excused \ {n}) \cup {m \in Run : state[m] = "detail"}
    BY <1>3 DEF CheckEnds, Removes, requests
  <2> QED
    BY <2>1 DEF ExcuseInv, UnderWay, Watched, Busy
<1>4. CASE GetChecker(n) \/ NoListener(n) \/ ScheduleCheck(n) \/ CheckDue(n)
  <2>1. /\ UNCHANGED <<pc, listener, excused>> /\ triggers \subseteq triggers'
        /\ jobs \subseteq jobs'
        /\ \A m \in Run \ {n} : state'[m] = state[m] /\ of'[m] = of[m]
    BY <1>4 DEF GetChecker, NoListener, ScheduleCheck, CheckDue, quartz, requests, history, runs
  <2>2. n \in UnderWay
    BY <1>4 DEF GetChecker, NoListener, ScheduleCheck, CheckDue, UnderWay
  <2>3. ASSUME n \notin excused
        PROVE  \/ state'[n] = "detail" /\ Checker \in jobs'
               \/ state'[n] = "pending" /\ n \in triggers'
               \/ state'[n] = "due"
    BY <1>4, <2>3 DEF GetChecker, NoListener, ScheduleCheck, CheckDue, ExcuseInv
  <2>4. (\E r \in Request : Busy(r)) => UnderWay' \subseteq excused'
    BY <2>1, <2>2 DEF ExcuseInv, UnderWay
  <2>5. \A m \in Run \ {n} : Watched(m)' <=> Watched(m)
    BY <2>1 DEF Watched
  <2>6. state'[n] # "new"
    BY <1>4 DEF GetChecker, NoListener, ScheduleCheck, CheckDue
  <2> QED
    BY <2>1, <2>3, <2>4, <2>5, <2>6 DEF ExcuseInv, Busy
<1> QED
  BY <1>1, <1>2, <1>3, <1>4 DEF Checks

LEMMA ExcuseStep == ASSUME TypeInv, ExcuseInv, HeardInv, [Next]_vars PROVE ExcuseInv'
<1>1. CASE Restart
  <2>1. /\ \A r \in Request : ~Busy(r)'
        /\ excused' = excused \cup UnderWay
        /\ \A n \in Run : state'[n] = IF n \in UnderWay THEN "missed" ELSE state[n]
    BY <1>1, Zenon DEF Restart, Busy
  <2>2. ASSUME NEW n \in Run \ excused'
        PROVE  n \notin excused /\ n \notin UnderWay /\ state'[n] = state[n]
    BY <2>1
  <2>3. \A n \in Run : of'[n] = NoComponent
    BY <1>1 DEF Restart
  <2> QED
    BY <2>1, <2>2, <2>3 DEF ExcuseInv, UnderWay
<1>2. CASE UNCHANGED vars
  BY <1>2 DEF vars, quartz, requests, runs, history, ExcuseInv, UnderWay, Watched, Busy
<1> QED
  BY <1>1, <1>2, ExcuseRequests, ExcuseRuns DEF Next

LEMMA CheckInit == Init => HeardInv /\ ExcuseInv
<1> SUFFICES ASSUME Init PROVE HeardInv /\ ExcuseInv
  OBVIOUS
<1>1. db \in Setting
  BY DEF Init
<1>2. db.rows \cap Row = db.rows /\ triggers = db.rows
  BY <1>1, Constants DEF Init
<1>3. HeardInv
  BY <1>2, HeardLast DEF Init, HeardInv
<1>4. ExcuseInv
  BY DEF Init, ExcuseInv, Busy, UnderWay
<1> QED
  BY <1>3, <1>4

\* No command misses its check, nor loses the trigger of one that is pending,
\* without one of the excuses of CheckFollows, for any number of commands,
\* requests, components and times (SchedulerManager.cs:61-94, 96-126).
THEOREM ChecksNotMissed == Spec => []MissedExcused
<1>1. ExcuseInv => MissedExcused
  BY DEF ExcuseInv, MissedExcused
<1>2. TypeInv /\ HealInv /\ HeardInv /\ ExcuseInv /\ [Next]_vars => HeardInv' /\ ExcuseInv'
  BY HeardStep, ExcuseStep
<1> QED
  BY <1>1, <1>2, CheckInit, HealInit, HealStep, TypesKept, PTL DEF Spec
=============================================================================
