----------------------------- MODULE MlgCollect -----------------------------
(***************************************************************************)
(* The collection of the log of 1C: MlgCollectStrategy reads 1cv7.mlg from *)
(* its end back to the date collected last, MlgCollectDataHandler stores   *)
(* what was read and the new date.  1C writes on while its log is read; a  *)
(* task may be interrupted or fail, a command arrive twice, two callers    *)
(* start one each, a report be handled more than once.                     *)
(*                                                                         *)
(* An entry is a head, with date and kind, and a tail; 1C sometimes breaks *)
(* the line between them.  A line of the file is an entry only with both:  *)
(* this is what is left of the test for ten fields.  Dates are seconds;    *)
(* the clock of 1C does not go back.                                       *)
(***************************************************************************)
EXTENDS Integers, Sequences, FiniteSetsExt

CONSTANTS
  MaxEntry, MaxDate, \* bounds: entries, seconds
  Block,             \* buffSize: what is read at a time
  MaxTask,           \* bound: collections of the base
  MaxExtra,          \* bound on extras where a disturbance begins
  OldEntries         \* entries in the log when it is collected first

ASSUME MlgCollectAssumption ==
  /\ MaxEntry \in Nat \ {0} /\ MaxDate \in Nat \ {0}
  /\ Block \in Nat \ {0}
  /\ MaxTask \in Nat \ {0} /\ MaxExtra \in Nat
  /\ OldEntries \in 0..MaxEntry

Entry == 1..MaxEntry
Task  == 1..MaxTask
CR    == <<"return", 0>>
LF    == <<"feed", 0>>
Text(i)  == <<<<"head", i>>, <<"tail", i>>, CR, LF>>
Split(i) == <<<<"head", i>>, CR, LF, <<"tail", i>>, CR, LF>>

VARIABLES
  date,         \* date[i]: of the i-th entry, in the order 1C made them
  file, rest,   \* 1cv7.mlg; what of the last entry is not written yet
  task,         \* what is known of each collection
  open,         \* guid of the last command of the lane; 0: it is complete
  reports,      \* operation reports on their way
  stored,       \* stored[i]: how often the database has the entry
  dateLog,      \* mlg_date_log; 0: none
  extras        \* what disturbed the one-by-one of command and report (history)

log  == <<date, file, rest>>
db   == <<open, stored, dateLog, extras>>
vars == <<log, task, reports, db>>

Token   == {CR, LF} \cup ({"head", "tail"} \X Entry)
Message == [entry : Entry, clean : BOOLEAN]
State   == [pc : {"none", "prepared", "start", "read", "lines", "report", "over"},
            guid : 0..MaxTask,          \* of its command
            prev : 0..MaxDate,          \* context.PrevDateLog
            size : Nat, unread : Nat,   \* mlgFile.Length, unreadByteCount
            cache : Seq(Token),         \* lineCache
            last : 0..MaxDate+1,        \* lastMessageDate
            messages : Seq(Message),    \* context.Messages, as pushed
            isInterrupt : BOOLEAN, failed : BOOLEAN,
            killer : {"none", "flagged", "enumerates", "done", "threw"},
            seen : Nat]                 \* messages when the killer began
Report  == [task : Task, killed : BOOLEAN, messages : Seq(Message)]

TypeOK ==
  /\ Len(date) <= MaxEntry /\ \A i \in DOMAIN date : date[i] \in 1..MaxDate
  /\ file \in Seq(Token) /\ rest \in Seq(Token)
  /\ task \in [Task -> State]
  /\ open \in 0..MaxTask
  /\ reports \subseteq Report
  /\ stored \in [Entry -> Nat]
  /\ dateLog \in 0..MaxDate
  /\ extras \in Nat

NoTask == [pc |-> "none", guid |-> 0, prev |-> 0, size |-> 0, unread |-> 0,
           cache |-> <<>>, last |-> MaxDate + 1, messages |-> <<>>, isInterrupt |-> FALSE,
           failed |-> FALSE, killer |-> "none", seen |-> 0]

Init ==
  /\ date = <<>> /\ file = <<>> /\ rest = <<>>
  /\ task = [k \in Task |-> NoTask]
  /\ open = 0
  /\ reports = {}
  /\ stored = [i \in Entry |-> 0] /\ dateLog = 0
  /\ extras = 0
-----------------------------------------------------------------------------
(***************************************************************************)
(* 1C.                                                                     *)
(***************************************************************************)
\* The clock does not go back.
Log(d) ==
  /\ rest = <<>> /\ Len(date) < MaxEntry
  /\ \A i \in DOMAIN date : date[i] <= d
  /\ date' = Append(date, d)
  /\ rest' \in {Text(Len(date')), Split(Len(date'))}
  /\ UNCHANGED <<file, task, reports, db>>

\* Part by part; a line break is written at once.
Write ==
  /\ rest # <<>>
  /\ IF Head(rest) = CR
       THEN file' = file \o <<CR, LF>> /\ rest' = Tail(Tail(rest))
       ELSE file' = file \o <<Head(rest)>> /\ rest' = Tail(rest)
  /\ UNCHANGED <<date, task, reports, db>>
-----------------------------------------------------------------------------
(***************************************************************************)
(* EndLaunch.  Definitions named Mut... are faulty variants of the one     *)
(* that follows, used by no specification.                                 *)
(***************************************************************************)
\* The length of the file is taken once; what is written later is not read.
Open(k) ==
  /\ task[k].pc = "start" /\ ~task[k].isInterrupt
  /\ task' = [task EXCEPT ![k].pc = "read", ![k].size = Len(file),
                          ![k].unread = Len(file)]
  /\ UNCHANGED <<log, reports, db>>

MutReads(t) == t.unread >= Block /\ t.last > t.prev /\ ~t.isInterrupt
Reads(t) == t.unread > 0 /\ t.last > t.prev /\ ~t.isInterrupt

\* The block before the one read last goes to the front of the cache.
MutReadBlock(k) ==
  /\ task[k].pc = "read" /\ Reads(task[k])
  /\ LET t    == task[k]
         from == t.unread - Block
     IN task' = [task EXCEPT
          ![k].pc = "lines", ![k].unread = from,
          ![k].cache = SubSeq(file, IF from < 0 THEN 1 ELSE from + 1, t.unread)
                         \o t.cache]
  /\ UNCHANGED <<log, reports, db>>
ReadBlock(k) ==
  /\ task[k].pc = "read" /\ Reads(task[k])
  /\ LET t    == task[k]
         from == IF t.unread >= Block THEN t.unread - Block ELSE 0
     IN task' = [task EXCEPT
          ![k].pc = "lines", ![k].unread = from,
          ![k].cache = SubSeq(file, from + 1, t.unread) \o t.cache]
  /\ UNCHANGED <<log, reports, db>>

\* GetLineStart: what follows the last line break; 0 without one.
LineStart(s) ==
  LET feeds == {i \in DOMAIN s : s[i] = LF}
  IN IF feeds = {} THEN 0 ELSE Max(feeds)

\* The last line of the cache is there in full.
MutHasLine(t) == t.cache # <<>> /\ LineStart(t.cache) # 1
HasLine(t) == /\ t.cache # <<>>
              /\ \/ LineStart(t.cache) > 1
                 \/ LineStart(t.cache) = 0 /\ t.unread = 0

Line(t) == SubSeq(t.cache, LineStart(t.cache) + 1, Len(t.cache))
Before(t) == SubSeq(t.cache, 1, LineStart(t.cache) - 2)

\* No line break at either end.
Trim(line) ==
  LET text == {i \in DOMAIN line : line[i] \notin {CR, LF}}
  IN IF text = {} THEN <<>> ELSE SubSeq(line, Min(text), Max(text))
IsEntry(line) == Len(line) > 1 /\ line[1][1] = "head" /\ line[2][1] = "tail"

\* BuildMlgMessage: a line that is no entry is joined to the one before it.
MutTakeLine(k) ==
  /\ task[k].pc = "lines" /\ HasLine(task[k])
  /\ LET t    == task[k]
         line == Line(t)
     IN task' = IF IsEntry(line)
                THEN [task EXCEPT
                  ![k].cache = Before(t), ![k].last = date[line[1][2]],
                  ![k].messages = Append(@, [entry |-> line[1][2],
                                             clean |-> Len(line) = 2])]
                ELSE [task EXCEPT ![k].cache = Before(t) \o Trim(line)]
  /\ UNCHANGED <<log, reports, db>>
TakeLine(k) ==
  /\ task[k].pc = "lines" /\ HasLine(task[k])
  /\ LET t    == task[k]
         line == Line(t)
         d    == date[line[1][2]]
     IN task' = IF IsEntry(line)
                THEN [task EXCEPT
                  ![k].cache = Before(t), ![k].last = d,
                  ![k].messages = IF d <= t.prev THEN @
                                  ELSE Append(@, [entry |-> line[1][2],
                                                  clean |-> Len(line) = 2])]
                ELSE [task EXCEPT ![k].cache = Before(t) \o Trim(line)]
  /\ UNCHANGED <<log, reports, db>>

\* A tail joined with a part of the next entry may have fields enough, but no
\* date; or the file cannot be opened or read.
Throws(k) ==
  /\ \/ task[k].pc \in {"start", "read"} /\ ~task[k].isInterrupt
     \/ /\ task[k].pc = "lines" /\ HasLine(task[k])
        /\ LET line == Line(task[k])
           IN Len(line) > 1 /\ line[1][1] = "tail"
  /\ task' = [task EXCEPT ![k].pc = "report", ![k].failed = TRUE]
  /\ UNCHANGED <<log, reports, db>>

LinesTaken(k) ==
  /\ task[k].pc = "lines" /\ ~HasLine(task[k])
  /\ task' = [task EXCEPT ![k].pc = "read"]
  /\ UNCHANGED <<log, reports, db>>

\* The loop ends, or, after an interrupt, was never entered; Conclusion.
Conclude(k) ==
  /\ \/ task[k].pc = "read" /\ ~Reads(task[k])
     \/ task[k].pc = "start" /\ task[k].isInterrupt
  /\ task' = [task EXCEPT ![k].pc = "report"]
  /\ UNCHANGED <<log, reports, db>>

Reports(k, killed) == reports' = reports \cup
  {[task |-> k, killed |-> killed, messages |-> task[k].messages]}

\* What nobody looks at any more is reset.
GetOperationReport(k) ==
  /\ task[k].pc = "report"
  /\ task' = [task EXCEPT ![k].pc = "over", ![k].size = 0, ![k].unread = 0,
                          ![k].cache = <<>>, ![k].last = MaxDate + 1]
  /\ Reports(k, FALSE)
  /\ UNCHANGED <<log, db>>
-----------------------------------------------------------------------------
(***************************************************************************)
(* KillTask, for a task that runs: it makes a report of its own out of the *)
(* messages that the thread of the task may still be pushing.              *)
(***************************************************************************)
Runs(t) == t.pc \in {"start", "read", "lines", "report"}

\* Bound: one call of KillTask.
NoKill == (\A k \in Task : task[k].killer = "none") /\ extras < MaxExtra

Interrupt(k) ==
  /\ Runs(task[k]) /\ open = task[k].guid /\ NoKill
  /\ task' = [task EXCEPT ![k].isInterrupt = TRUE, ![k].killer = "flagged"]
  /\ UNCHANGED <<log, reports, db>>

Enumerate(k) ==
  /\ task[k].killer = "flagged"
  /\ task' = [task EXCEPT ![k].killer = "enumerates",
                          ![k].seen = Len(task[k].messages)]
  /\ UNCHANGED <<log, reports, db>>

\* The enumerator of the Stack throws if something was pushed meanwhile: no
\* report, and the task stays listed as running.
KillReports(k) ==
  /\ task[k].killer = "enumerates"
  /\ IF task[k].seen = Len(task[k].messages)
     THEN /\ task' = [task EXCEPT ![k].killer = "done"] /\ Reports(k, TRUE)
          /\ extras' = extras + 1
     ELSE task' = [task EXCEPT ![k].killer = "threw"] /\ UNCHANGED <<reports, extras>>
  /\ UNCHANGED <<log, open, stored, dateLog>>
-----------------------------------------------------------------------------
(***************************************************************************)
(* The central service: MlgCollectDataHandler, and the callers that make   *)
(* commands.  A command whose row was not written is left out: its report  *)
(* finds no row and changes nothing.                                       *)
(***************************************************************************)
\* Entry i is in the file, with its line break.
Written(i) == i < Len(date) \/ (i = Len(date) /\ rest = <<>>)

Fresh(k) == task[k].pc = "none" /\ \A o \in Task : o < k => task[o].pc # "none"

\* GetPreparedCommand: the lane is free, the date is that of the base.
Prepare(k) ==
  /\ Written(OldEntries) /\ Fresh(k) /\ open = 0
  /\ task' = [task EXCEPT ![k].pc = "prepared", ![k].guid = k, ![k].prev = dateLog]
  /\ UNCHANGED <<log, reports, db>>

\* Since the lane was found free, another caller has been there.
Raced(k) == open # 0 \/ task[k].prev # dateLog

\* The call that puts the command into the queue, and its row.
Command(k) ==
  /\ task[k].pc = "prepared"
  /\ IF Raced(k) THEN extras < MaxExtra /\ extras' = extras + 1 ELSE UNCHANGED extras
  /\ open' = k
  /\ task' = [task EXCEPT ![k].pc = "start"]
  /\ UNCHANGED <<log, reports, stored, dateLog>>

\* The call timed out, though it was delivered, and is made again: one command
\* is in the queue twice.  If the repetition comes later, it is as though it
\* had waited there until then.
Repeat(k) ==
  /\ Fresh(k)
  /\ extras < MaxExtra /\ extras' = extras + 1
  /\ \E o \in Task :
       /\ task[o].pc = "start"
       /\ task' = [task EXCEPT ![k].pc = "start", ![k].guid = task[o].guid,
                               ![k].prev = task[o].prev]
  /\ UNCHANGED <<log, reports, open, stored, dateLog>>

Count(m, i) == Cardinality({n \in DOMAIN m : m[n].entry = i})

\* SetReport: what it stores and the date of the last message, which is the
\* one pushed first.  The remote service repeats a call that timed out, though
\* it may have been handled.  A report may also be late, or never come.
MutSetReport(r) ==
  /\ r \in reports
  /\ \/ reports' = reports \ {r} /\ UNCHANGED extras
     \/ extras < MaxExtra /\ extras' = extras + 1 /\ UNCHANGED reports
  /\ stored' = [i \in Entry |-> stored[i] + Count(r.messages, i)]
  /\ dateLog' = IF r.messages = <<>> THEN dateLog
                ELSE date[r.messages[Len(r.messages)].entry]
  /\ open' = IF open = task[r.task].guid THEN 0 ELSE open
  /\ UNCHANGED <<log, task>>
SetReport(r) ==
  /\ r \in reports
  /\ \/ reports' = reports \ {r} /\ UNCHANGED extras
     \/ extras < MaxExtra /\ extras' = extras + 1 /\ UNCHANGED reports
  /\ stored' = [i \in Entry |-> stored[i] + Count(r.messages, i)]
  /\ dateLog' = IF r.messages = <<>> THEN dateLog
                ELSE date[r.messages[1].entry]
  /\ open' = IF open = task[r.task].guid THEN 0 ELSE open
  /\ UNCHANGED <<log, task>>

\* A task that is over but, its report lost or late, unfinished in the database
\* is interrupted by an operator: answered without messages.
AnswerLost(k) ==
  /\ open # 0 /\ task[k].guid = open /\ NoKill
  /\ \A o \in Task : task[o].guid = open => task[o].pc = "over"
  /\ open' = 0 /\ extras' = extras + 1
  /\ task' = [task EXCEPT ![k].killer = "done"]
  /\ UNCHANGED <<log, reports, stored, dateLog>>
-----------------------------------------------------------------------------
Collects(k) ==
  \/ Open(k) \/ ReadBlock(k) \/ TakeLine(k) \/ LinesTaken(k) \/ Conclude(k)
  \/ GetOperationReport(k)

Next ==
  \/ \E d \in 1..MaxDate : Log(d)
  \/ Write
  \/ \E k \in Task : \/ Prepare(k) \/ Command(k) \/ Repeat(k)
                     \/ Collects(k) \/ Throws(k) \/ Interrupt(k) \/ Enumerate(k)
                     \/ KillReports(k) \/ AnswerLost(k)
  \/ \E r \in reports : SetReport(r)

Spec == Init /\ [][Next]_vars

\* The thread of a task runs on.
FairSpec == Spec /\ \A k \in Task : WF_vars(Collects(k))
-----------------------------------------------------------------------------
(***************************************************************************)
(* Properties.                                                             *)
(***************************************************************************)
\* Entry i is within the first n characters of the file.
Within(i, n) == \E j \in 1..n : file[j] = <<"tail", i>>

\* Wherever the blocks cut the lines and 1C breaks them, a collection that
\* reads on to its end pushes exactly the entries that were in the file, are
\* newer than the last collection, the newest first; they are as 1C wrote
\* them, but for the newest if 1C was at the next one
\* (MlgCollectStrategy.cs:63-105).
ReadsAll ==
  \A k \in Task : LET t == task[k]
                      new == {i \in DOMAIN date : Within(i, t.size) /\ date[i] > t.prev}
                  IN t.pc = "report" /\ ~t.isInterrupt /\ ~t.failed =>
    /\ {t.messages[n].entry : n \in DOMAIN t.messages} = new
    /\ \A n, m \in DOMAIN t.messages :
         n < m => t.messages[n].entry > t.messages[m].entry
    /\ \A n \in DOMAIN t.messages : n > 1 => t.messages[n].clean

\* The date of a collection stands for all that is older: as long as no
\* collection was interrupted or has failed, the database has every entry up
\* to it, but for those that followed another within the same second
\* (MlgCollectDataHandler.cs:63-64, MlgCollectStrategy.cs:102-105).
NoGap ==
  (\A k \in Task : ~task[k].isInterrupt /\ ~task[k].failed) =>
    \A i \in DOMAIN date : date[i] <= dateLog =>
      \/ stored[i] > 0
      \/ \E j \in 1..i-1 : date[j] = date[i] /\ stored[j] > 0

\* Whatever overlaps, an entry is stored once, and once more for each thing that
\* disturbed the one-by-one of command and report at most: a command that came
\* twice or from a second caller, a report handled again, a report of KillTask
\* beside that of the task, a command answered for in place of its report.
\* Without them no entry is stored that is newer than the date
\* (MlgCollectDataHandler.cs:52-67, RemoteServiceProxy.cs:60-75,
\* RemoteServicesManager.cs:208-231, QueueManager.cs:99-106).
StoredOnce ==
  /\ \A i \in DOMAIN date : stored[i] <= 1 + extras
  /\ extras = 0 => \A i \in DOMAIN date : stored[i] = 1 => date[i] <= dateLog

\* However 1C writes on and whatever is repeated, a collection that has begun
\* comes to its end (MlgCollectStrategy.cs:65-106).
CollectionEnds == []<>(\A k \in Task : ~Runs(task[k]))

\* The loop over the lines of the cache goes on only "пока он полон и
\* поканаходятся новые переносы строк (lineStart>0)"
\* (MlgCollectStrategy.cs:74): it is left again, whatever is in the cache.
LinesLoopEnds == \A k \in Task : task[k].pc = "lines" ~> task[k].pc # "lines"
=============================================================================
