--------------------------- MODULE ExtDirectories ---------------------------
(***************************************************************************)
(* ExtDirectoriesStrategy with FtpKit: the tasks that, one after the other,*)
(* copy directories of the FTP server into those of a base.  A task lists a*)
(* directory, descends into the directories in it, fetches the files that  *)
(* are newer than its own or of another size, and unpacks some of them.    *)
(*                                                                         *)
(* The server is changed by others at any moment, between a listing and    *)
(* the download or during the download; calls fail; the task may be        *)
(* interrupted, and the service may stop.  Files are versions; those of a  *)
(* file in SameSize are told apart by their date only.                     *)
(***************************************************************************)
EXTENDS Integers, Sequences

CONSTANTS
  File, Dir,
  roots,       \* context.Directories: sequence of directories
  entries,     \* entries[d]: the files and directories that may be in d
  Pack,        \* files named packNNNNNNNN.zip
  SameSize,
  Attempts,    \* main.ftp_attempt_count
  NoFile,
  MaxVersion, MaxRuns \* bounds

ASSUME ExtDirectoriesAssumption ==
  /\ roots \in Seq(Dir) /\ entries \in [Dir -> SUBSET (File \cup Dir)]
  /\ File \cap Dir = {}
  /\ Pack \subseteq File /\ SameSize \subseteq File
  /\ NoFile \notin File
  \* with 0 attempts a download that fails is repeated for ever
  /\ Attempts \in Nat \ {0}
  /\ MaxVersion \in Nat \ {0} /\ MaxRuns \in Nat \ {0}

VARIABLES
  ftp,         \* ftp[f]: its version on the server; 0: not there
  local,       \* local[f]: the file of the base
  unpacked,    \* unpacked[f]: the version of the pack whose files are there
  pc, current, \* where the task is; the file it is at
  todo,        \* directories of the task not begun
  stack,       \* the directories begun, the innermost first, with what is
               \* left of each; the server lists it in any order
  listed,      \* listed[f]: the version the listing showed in this task
  attempts, fetching, \* unitAttempts; the version the server is sending
  isInterrupt,
  copied, failed, \* context.Files: those copied; those marked as not copied
  report,
  run, late,   \* number of the task; downloads begun since isInterrupt
  had, denied, \* files there at its begin; not replaced for want of rights
  troubled     \* packs whose unpacking broke off in this task or an earlier one

progress == <<todo, stack, listed>>
download == <<attempts, fetching>>
files    == <<copied, failed>>
disk     == <<local, unpacked>>
history  == <<run, late, had, denied, troubled>>
vars == <<ftp, disk, pc, current, progress, download, isInterrupt, files,
          report, history>>

\* A file of the base: the version it holds, 0 for none and -1 for a part of
\* one, and the newest version of the server whose date is not later than that
\* of the file.
NoLocal == [version |-> 0, covers |-> 0]
Local   == [version : -1..MaxVersion, covers : 0..MaxVersion]

\* A call of CopyFiles.
Level == {l \in [dir : Dir, left : SUBSET (File \cup Dir)] :
            l.left \subseteq entries[l.dir]}

TypeOK ==
  /\ ftp \in [File -> 0..MaxVersion]
  /\ local \in [File -> Local]
  /\ unpacked \in [File -> 0..MaxVersion]
  /\ pc \in {"next", "file", "fetch", "send", "add", "report", "over"}
  /\ current \in File \cup {NoFile}
  /\ todo \in Seq(Dir) /\ stack \in Seq(Level)
  /\ listed \in [File -> 0..MaxVersion]
  /\ attempts \in 1..Attempts /\ fetching \in 0..MaxVersion
  /\ isInterrupt \in BOOLEAN
  /\ copied \subseteq File /\ failed \subseteq File \cup Dir
  /\ report \in {"none", "Interrupt", "Fail", "Warning", "Success"}
  /\ run \in 1..MaxRuns /\ late \in Nat
  /\ had \subseteq File /\ denied \subseteq File /\ troubled \subseteq Pack

Init ==
  /\ ftp \in [File -> {0, 1}]
  /\ local = [f \in File |-> NoLocal] /\ unpacked = [f \in File |-> 0]
  /\ pc = "next" /\ current = NoFile
  /\ todo = roots /\ stack = <<>> /\ listed = [f \in File |-> 0]
  /\ attempts = Attempts /\ fetching = 0
  /\ isInterrupt = FALSE
  /\ copied = {} /\ failed = {} /\ report = "none"
  /\ run = 1 /\ late = 0 /\ had = {} /\ denied = {} /\ troubled = {}

Goto(from, to) == pc = from /\ pc' = to
-----------------------------------------------------------------------------
(***************************************************************************)
(* EndLaunch and CopyFiles.  Definitions named Mut... are faulty variants  *)
(* of the one that follows, used by no specification.                      *)
(***************************************************************************)
\* GetListEntrys: what is in d now, or nothing if the server does not answer.
There(d) == {e \in entries[d] : e \in Dir \/ ftp[e] > 0}
Lists(d, rest) ==
  \/ /\ stack' = <<[dir |-> d, left |-> There(d)]>> \o rest
     /\ listed' = [f \in File |-> IF f \in entries[d] THEN ftp[f] ELSE listed[f]]
  \/ stack' = <<[dir |-> d, left |-> {}]>> \o rest /\ UNCHANGED listed

NextRoot ==
  /\ pc = "next" /\ stack = <<>> /\ todo # <<>>
  /\ Lists(Head(todo), <<>>)
  /\ todo' = Tail(todo)
  /\ UNCHANGED <<ftp, disk, pc, current, download, isInterrupt, files, report,
                 history>>

\* The directory cannot be created, or its listing not be understood.
RootThrows ==
  /\ stack = <<>> /\ todo # <<>> /\ Goto("next", "report")
  /\ UNCHANGED <<ftp, disk, current, progress, download, isInterrupt, files,
                 report, history>>

AtEntry(e) == pc = "next" /\ stack # <<>> /\ e \in Head(stack).left
Rest(e)    == <<[dir |-> Head(stack).dir, left |-> Head(stack).left \ {e}]>> \o Tail(stack)

EnterDirectory(d) ==
  /\ AtEntry(d) /\ ~isInterrupt
  /\ \/ Lists(d, Rest(d)) /\ UNCHANGED failed
     \/ stack' = Rest(d) /\ failed' = failed \cup {d} /\ UNCHANGED listed
  /\ UNCHANGED <<ftp, disk, pc, current, todo, download, isInterrupt, copied,
                 report, history>>

MutTakeFile(f) ==
  /\ AtEntry(f)
  /\ pc' = "file" /\ current' = f /\ stack' = Rest(f)
  /\ UNCHANGED <<ftp, disk, todo, listed, download, isInterrupt, files, report,
                 history>>
TakeFile(f) ==
  /\ AtEntry(f) /\ ~isInterrupt
  /\ pc' = "file" /\ current' = f /\ stack' = Rest(f)
  /\ UNCHANGED <<ftp, disk, todo, listed, download, isInterrupt, files, report,
                 history>>

\* The end of a directory; an interrupt breaks the loops one by one.
Leave ==
  /\ pc = "next" /\ stack # <<>> /\ (Head(stack).left = {} \/ isInterrupt)
  /\ stack' = Tail(stack)
  /\ UNCHANGED <<ftp, disk, pc, current, todo, listed, download, isInterrupt,
                 files, report, history>>
-----------------------------------------------------------------------------
(***************************************************************************)
(* DownloadFile and ExchangeFile, for the current file.                    *)
(***************************************************************************)
\* The listing gives dates to the minute and by the clock of the server; the
\* date of the file is that of its writing, to the second.
UpToDate(f) == /\ local[f].version > 0
               /\ listed[f] <= local[f].covers
               /\ f \in SameSize \/ listed[f] = local[f].version

Skip ==
  /\ Goto("file", "next")
  /\ UpToDate(current)
  /\ current' = NoFile
  /\ UNCHANGED <<ftp, disk, progress, download, isInterrupt, files, report,
                 history>>

\* The old file is deleted before the new one is fetched.
Delete ==
  /\ Goto("file", "fetch")
  /\ ~UpToDate(current)
  /\ local' = [local EXCEPT ![current] = NoLocal]
  /\ late' = IF isInterrupt THEN late + 1 ELSE late
  /\ attempts' = Attempts
  /\ UNCHANGED <<ftp, unpacked, current, progress, fetching, isInterrupt, files,
                 report, run, had, denied, troubled>>

\* UnauthorizedAccessException, and the file is not read-only: it counts as
\* copied, though it is the old one.
DeleteDenied ==
  /\ Goto("file", "add")
  /\ ~UpToDate(current) /\ local[current].version # 0
  /\ denied' = denied \cup {current}
  /\ UNCHANGED <<ftp, disk, current, progress, download, isInterrupt, files,
                 report, run, late, had, troubled>>

\* Any other exception, as from a file in use.
DeleteThrows ==
  /\ Goto("file", "next")
  /\ ~UpToDate(current) /\ local[current].version # 0
  /\ failed' = failed \cup {current} /\ current' = NoFile
  /\ UNCHANGED <<ftp, disk, progress, download, isInterrupt, copied, report,
                 history>>

Fetch ==
  /\ Goto("fetch", "send")
  /\ fetching' = ftp[current]
  /\ local' = [local EXCEPT ![current] = [version |-> -1, covers |-> 0]]
  /\ UNCHANGED <<ftp, unpacked, current, progress, attempts, isInterrupt, files,
                 report, history>>

\* What the server has by now is not newer, unless its clock is ahead.
Fetched ==
  /\ Goto("send", "add")
  /\ \E v \in {0, ftp[current]} :
       local' = [local EXCEPT ![current] = [version |-> fetching, covers |-> v]]
  /\ UNCHANGED <<ftp, unpacked, current, progress, download, isInterrupt, files,
                 report, history>>

\* An attempt fails; the next one comes after a pause.
MutAttemptFailsOn ==
  /\ attempts' = attempts - 1
  /\ Goto("send", "fetch")
  /\ UNCHANGED <<ftp, disk, current, progress, fetching, isInterrupt, files,
                 report, history>>
MutAttemptFails ==
  /\ Goto("send", "fetch")
  /\ local' = [local EXCEPT ![current] = NoLocal]
  /\ UNCHANGED <<ftp, unpacked, current, progress, download, isInterrupt, files,
                 report, history>>
AttemptFails ==
  /\ Goto("send", "fetch")
  /\ attempts > 1 /\ attempts' = attempts - 1
  /\ local' \in {local, [local EXCEPT ![current] = NoLocal]}
  /\ UNCHANGED <<ftp, unpacked, current, progress, fetching, isInterrupt, files,
                 report, history>>

\* The last one: what is there of the file is deleted, the file is marked.
MutGiveUpSilently ==
  /\ Goto("send", "next")
  /\ attempts = 1
  /\ local' = [local EXCEPT ![current] = NoLocal]
  /\ current' = NoFile
  /\ UNCHANGED <<ftp, unpacked, progress, download, isInterrupt, files, report,
                 history>>
GiveUp ==
  /\ Goto("send", "next")
  /\ attempts = 1
  /\ local' = [local EXCEPT ![current] = NoLocal]
  /\ failed' = failed \cup {current} /\ current' = NoFile
  /\ UNCHANGED <<ftp, unpacked, progress, download, isInterrupt, copied, report,
                 history>>

\* What is there of it cannot be deleted: the exception ends the loop over its
\* directory, and the loop around that one marks the directory.
GiveUpThrows ==
  /\ pc = "send" /\ attempts = 1
  /\ current' = NoFile
  /\ stack' = Tail(stack)
  /\ \/ Len(stack) = 1 /\ pc' = "report" /\ UNCHANGED failed
     \/ Len(stack) > 1 /\ pc' = "next" /\ failed' = failed \cup {Head(stack).dir}
  /\ UNCHANGED <<ftp, disk, todo, listed, download, isInterrupt, copied, report,
                 history>>

\* UnzipFile, for a pack; then the file is noted.
Add ==
  /\ Goto("add", "next")
  /\ copied' = copied \cup {current} /\ current' = NoFile
  /\ \/ current \notin Pack /\ UNCHANGED unpacked
     \/ /\ current \in Pack /\ local[current].version > 0
        /\ unpacked' = [unpacked EXCEPT ![current] = local[current].version]
  /\ UNCHANGED <<ftp, local, progress, download, isInterrupt, failed, report,
                 history>>

\* The pack cannot be unpacked, or not to its end; it stays.
MutUnzipThrows ==
  /\ Goto("add", "next")
  /\ current \in Pack
  /\ copied' = copied \cup {current} /\ current' = NoFile
  /\ UNCHANGED <<ftp, disk, progress, download, isInterrupt, failed, report,
                 history>>
UnzipThrows ==
  /\ Goto("add", "next")
  /\ current \in Pack
  /\ failed' = failed \cup {current} /\ current' = NoFile
  /\ troubled' = troubled \cup {current}
  /\ UNCHANGED <<ftp, disk, progress, download, isInterrupt, copied, report, run,
                 late, had, denied>>
-----------------------------------------------------------------------------
(***************************************************************************)
(* The end of the task, and what happens to it.                            *)
(***************************************************************************)
\* Conclusion, then GetOperationReport.
MutStatus == IF isInterrupt THEN "Interrupt"
             ELSE IF copied # {} THEN "Success"
             ELSE IF failed # {} THEN "Warning" ELSE "Success"
Status == IF isInterrupt THEN "Interrupt"
          ELSE IF failed # {} THEN "Warning" ELSE "Success"

Conclude ==
  /\ stack = <<>> /\ todo = <<>>
  /\ Goto("next", "over")
  /\ report' = Status
  /\ UNCHANGED <<ftp, disk, current, progress, download, isInterrupt, files,
                 history>>

\* Without Conclusion: Interrupt or Fail.
ReportFailure ==
  /\ Goto("report", "over")
  /\ report' = IF isInterrupt THEN "Interrupt" ELSE "Fail"
  /\ UNCHANGED <<ftp, disk, current, progress, download, isInterrupt, files,
                 history>>

Interrupt ==
  /\ pc # "over" /\ ~isInterrupt /\ isInterrupt' = TRUE
  /\ UNCHANGED <<ftp, disk, pc, current, progress, download, files, report,
                 history>>

\* The service stops; the disk stays as it is.
Stop ==
  /\ pc # "over" /\ pc' = "over"
  /\ report' = "none"
  /\ troubled' = IF pc = "add" /\ current \in Pack THEN troubled \cup {current}
                 ELSE troubled
  /\ UNCHANGED <<ftp, disk, current, progress, download, isInterrupt, files, run,
                 late, had, denied>>

\* The next task for the base.
Begin ==
  /\ pc = "over" /\ run < MaxRuns
  /\ pc' = "next" /\ current' = NoFile
  /\ todo' = roots /\ stack' = <<>> /\ listed' = [f \in File |-> 0]
  /\ attempts' = Attempts /\ fetching' = 0
  /\ isInterrupt' = FALSE
  /\ copied' = {} /\ failed' = {} /\ report' = "none"
  /\ run' = run + 1 /\ late' = 0 /\ denied' = {}
  /\ had' = {f \in File : local[f].version # 0}
  /\ UNCHANGED <<ftp, disk, troubled>>

\* Somebody puts a new version on the server.  Its date is later than that of
\* the file, or, within the minute or by a clock that is behind, it is not.
ChangeFtp(f) ==
  /\ ftp[f] < MaxVersion
  /\ ftp' = [ftp EXCEPT ![f] = @ + 1]
  /\ \/ UNCHANGED local
     \/ /\ local[f].version > 0 /\ local[f].covers = ftp[f]
        /\ local' = [local EXCEPT ![f].covers = ftp[f] + 1]
  /\ UNCHANGED <<unpacked, pc, current, progress, download, isInterrupt, files,
                 report, history>>
-----------------------------------------------------------------------------
Transfers ==
  \/ Skip \/ Delete \/ DeleteDenied \/ DeleteThrows
  \/ Fetch \/ Fetched \/ AttemptFails \/ GiveUp \/ GiveUpThrows \/ Add \/ UnzipThrows

Copies ==
  \/ NextRoot \/ RootThrows
  \/ \E d \in Dir : EnterDirectory(d)
  \/ \E f \in File : TakeFile(f)
  \/ Leave \/ Transfers
  \/ Conclude \/ ReportFailure

Next ==
  \/ Copies
  \/ Interrupt \/ Stop \/ Begin
  \/ \E f \in File : ChangeFtp(f)

Spec == Init /\ [][Next]_vars

\* The thread of the task runs on.
FairSpec == Spec /\ WF_vars(Copies)
-----------------------------------------------------------------------------
(***************************************************************************)
(* Properties.                                                             *)
(***************************************************************************)
\* A task reported as a success has, of every file it saw in a listing, that
\* version or a newer one; the exceptions are a file it was not allowed to
\* replace, and one of the same size that came while the older one was fetched,
\* or so soon after it that its date, given to the minute, is not later
\* (FtpKit.cs:113, FtpKit.cs:155, ExtDirectoriesStrategy.cs:108-119).
SuccessCopied ==
  pc = "over" /\ report = "Success" =>
    \A f \in File : listed[f] > 0 =>
      \/ local[f].version >= listed[f]
      \/ f \in denied
      \/ f \in SameSize /\ local[f].version < local[f].covers

\* It has also unpacked the packs among them, except for those where this was
\* broken off before: no later task tries again (ExtDirectoriesStrategy.cs:105).
SuccessUnpacked ==
  pc = "over" /\ report = "Success" =>
    \A f \in Pack : listed[f] > 0 /\ local[f].version >= listed[f] =>
      unpacked[f] = local[f].version \/ f \in troubled

\* f is marked as not copied, or the directory it is in.
Noted(f) == f \in failed \/ \E d \in failed \cap Dir : f \in entries[d]

\* A file is deleted before the new one is there; a task that loses one in this
\* way marks it as not copied, also if it is interrupted or fails.  Where it
\* ends with a part of a file, it has marked the file or, when the part could
\* not be deleted, its directory; or it was not allowed to replace it, or says
\* that it was interrupted or failed (ExtDirectoriesStrategy.cs:144-156).
LossNoted ==
  pc = "over" /\ report # "none" =>
    /\ \A f \in had : local[f].version = 0 => f \in failed
    /\ \A f \in File : listed[f] > 0 /\ local[f].version < 0 =>
         Noted(f) \/ f \in denied \/ report \in {"Interrupt", "Fail"}

\* After an interrupt one more download is begun at most, at whatever depth of
\* the directories it comes (ExtDirectoriesStrategy.cs:92-93).
OneLateDownload == late <= 1

\* A task comes to its end, also while every call fails (FtpKit.cs:53-81).
TaskEnds == []<>(pc = "over")
=============================================================================
