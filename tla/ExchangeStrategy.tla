-------------------------- MODULE ExchangeStrategy --------------------------
(***************************************************************************)
(* One exchange task: ExchangeStrategy with its mode and verifier, run by  *)
(* the thread of TaskLaunch, interrupted by KillTask on the service thread.*)
(*                                                                         *)
(* The thread fetches packets from the FTP server, starts 1C, waits for it,*)
(* reads its log, starts 1C again if the mode asks for it, and puts the    *)
(* packets 1C produced on the server.  1C is a process of its own: what it *)
(* loads, produces and logs is any of the outcomes the verifier tells      *)
(* apart, also when it is killed.                                          *)
(***************************************************************************)
EXTENDS Integers, Sequences

CONSTANTS
  Packet,
  packets,     \* packets of the base, in the order of its configuration
  Load,        \* those to load into the base; the others are unloaded from it
  WithMD,      \* load packets whose archive holds a new configuration (MD)
  Wiped        \* TRUE: another strategy may be built for the base meanwhile

ASSUME ExchangeAssumption ==
  /\ packets \in Seq(Packet)
  /\ \A i, j \in DOMAIN packets : packets[i] = packets[j] => i = j
  /\ WithMD \subseteq Load /\ Load \subseteq Packet
  /\ Wiped \in BOOLEAN

VARIABLES
  setup,       \* modeType of the command and exchange.delete_packet of the base
  pc, next,    \* where the thread is; the packet Prepare or Conclusion is at
  killer,      \* where KillTask is in Interrupt()
  isInterrupt,
  launchGuid,  \* context.LaunchGuid # Guid.Empty
  process,     \* the 1C process
  launches,    \* starts of 1C, but for those in place of a blocked one
  blocked,     \* EndLaunch of the last one met a file it could not open
  relaunched,  \* 1C has been started again, whatever for
  ftp,         \* ftp[p]: the packet on the server
  local,       \* local[p]: its file in the directory of the base
  haveMD,
  log,         \* log[p]: what report.log says of p
  mlgReport,   \* what the verifier has gathered
  isSuccess, isWarning, mdAttempt, attempt, \* fields of the mode
  messageFile, \* !md_message_urbd.txt asks users to leave the base
  isComplete, failed, \* Conclusion came to its end; a call has thrown
  recorded,    \* packets with date and size, which the report lists
  report       \* status of the operation report

fileVars == <<ftp, local, haveMD, recorded>>
modeVars == <<mlgReport, isSuccess, isWarning, mdAttempt, attempt, messageFile>>
procVars == <<launchGuid, process, launches, relaunched, log>>
killVars == <<killer, isInterrupt>>
endVars  == <<isComplete, failed, report>>
vars == <<setup, pc, next, blocked, killVars, procVars, fileVars, modeVars,
          endVars>>

\* What 1C writes of a packet: nothing, the begin of its transfer, an error,
\* that it was loaded before ("уже загружались"), success.
Result == {"none", "begun", "error", "already", "success"}

\* A packet as it was on the server, left over by an earlier task, produced by
\* this one, or a part of it.
File == {"none", "packet", "stale", "new", "part"}

TypeOK ==
  /\ setup \in [mode : {"Normal", "Passive"}, deletePacket : BOOLEAN]
  /\ pc \in {"prepare", "test", "start", "started", "wait", "check",
             "conclude", "build", "over"}
  /\ next \in 1..Len(packets)+1
  /\ killer \in {"none", "flagged", "kill", "done"}
  /\ {isInterrupt, launchGuid, blocked, relaunched, haveMD, isSuccess, isWarning}
       \subseteq BOOLEAN
  /\ {mdAttempt, attempt, messageFile, isComplete, failed} \subseteq BOOLEAN
  /\ process \in {"none", "running", "exited"}
  /\ launches \in Nat
  /\ {ftp, local} \subseteq [Packet -> File]
  /\ log \in [Packet -> Result] /\ mlgReport \in [Packet -> Result]
  /\ recorded \subseteq Packet
  /\ report \in {"none", "Interrupt", "Fail", "Warning", "Success"}

Init ==
  /\ setup \in [mode : {"Normal", "Passive"}, deletePacket : BOOLEAN]
  /\ pc = "prepare" /\ next = 1
  /\ killer = "none" /\ isInterrupt = FALSE
  /\ launchGuid = FALSE /\ process = "none"
  /\ launches = 0 /\ blocked = FALSE /\ relaunched = FALSE
  \* packets to load may be missing; files of earlier tasks may be left over
  /\ ftp \in [Packet -> {"none", "packet"}] /\ \A p \in Packet \ Load : ftp[p] = "none"
  /\ local \in [Packet -> {"none", "stale"}]
  /\ haveMD = FALSE
  /\ log = [p \in Packet |-> "none"] /\ mlgReport = log
  /\ isSuccess = TRUE /\ isWarning = FALSE
  /\ mdAttempt = FALSE /\ attempt = FALSE /\ messageFile \in BOOLEAN
  /\ isComplete = FALSE /\ failed = FALSE
  /\ recorded = {} /\ report = "none"

Goto(from, to) == pc = from /\ pc' = to

\* An exception leads TaskLaunch past the rest to the report.
Throws(from) == /\ Goto(from, "build")
                /\ failed' = TRUE
                /\ UNCHANGED <<isComplete, report>>
-----------------------------------------------------------------------------
(***************************************************************************)
(* Prepare.  Definitions named Mut... are faulty variants of the one that  *)
(* follows, used by no specification.                                      *)
(***************************************************************************)
\* The packet's file is deleted; a load packet is fetched if the server has
\* it.  After an error the file is gone, or stays without being looked into.
MutPrepare ==
  /\ pc = "prepare" /\ ~isInterrupt /\ next <= Len(packets)
  /\ LET p == packets[next]
     IN \/ /\ local' = [local EXCEPT ![p] = IF p \in Load THEN "none" ELSE @]
           /\ UNCHANGED haveMD
        \/ /\ p \in Load /\ ftp[p] # "none"
           /\ local' = [local EXCEPT ![p] = "packet"]
           /\ haveMD' \in {haveMD, haveMD \/ p \in WithMD}
  /\ next' = next + 1
  /\ UNCHANGED <<setup, pc, blocked, killVars, procVars, ftp, recorded, modeVars,
                 endVars>>
Prepare ==
  /\ pc = "prepare" /\ ~isInterrupt /\ next <= Len(packets)
  /\ LET p == packets[next]
     IN \/ /\ local' = [local EXCEPT ![p] = "none"]
           /\ UNCHANGED haveMD
        \/ /\ p \in Load /\ ftp[p] # "none"
           /\ local' = [local EXCEPT ![p] = "packet"]
           /\ haveMD' \in {haveMD, haveMD \/ p \in WithMD}
  /\ next' = next + 1
  /\ UNCHANGED <<setup, pc, blocked, killVars, procVars, ftp, recorded, modeVars,
                 endVars>>

\* The file that is there cannot be deleted.
PrepareThrows ==
  /\ next <= Len(packets) /\ local[packets[next]] # "none" /\ ~isInterrupt
  /\ Throws("prepare")
  /\ UNCHANGED <<setup, next, blocked, killVars, procVars, fileVars, modeVars>>

MutPrepareEnds ==
  /\ next > Len(packets)
  /\ Goto("prepare", "test")
  /\ UNCHANGED <<setup, next, blocked, killVars, procVars, fileVars, modeVars,
                 endVars>>
PrepareEnds ==
  /\ isInterrupt \/ next > Len(packets)
  /\ Goto("prepare", "test")
  /\ UNCHANGED <<setup, next, blocked, killVars, procVars, fileVars, modeVars,
                 endVars>>
-----------------------------------------------------------------------------
(***************************************************************************)
(* The loop of TaskLaunch, StartLaunch and EndLaunch.                      *)
(***************************************************************************)
MutLoopTest ==
  /\ IF isInterrupt THEN Goto("test", "conclude") /\ next' = 0
                    ELSE Goto("test", "start") /\ UNCHANGED next
  /\ UNCHANGED <<setup, blocked, killVars, procVars, fileVars, modeVars, endVars>>
LoopTest ==
  /\ IF isInterrupt THEN Goto("test", "conclude") /\ next' = 1
                    ELSE Goto("test", "start") /\ UNCHANGED next
  /\ UNCHANGED <<setup, blocked, killVars, procVars, fileVars, modeVars, endVars>>

\* process.Start(); the launch guid is set after that.
BeginStart ==
  /\ Goto("start", "started")
  /\ process' = "running"
  /\ launches' = IF blocked THEN launches ELSE launches + 1
  /\ relaunched' = (process # "none")
  /\ blocked' = FALSE
  /\ UNCHANGED <<setup, next, killVars, launchGuid, log, fileVars, modeVars,
                 endVars>>

StartThrows ==
  /\ Throws("start")
  /\ UNCHANGED <<setup, next, blocked, killVars, procVars, fileVars, modeVars>>

SetLaunchGuid ==
  /\ Goto("started", "wait")
  /\ launchGuid' = TRUE
  /\ UNCHANGED <<setup, next, blocked, killVars, process, launches, relaunched,
                 log, fileVars, modeVars, endVars>>

\* EndStart: WaitForExit.
MutEndStart ==
  /\ Goto("wait", "check")
  /\ UNCHANGED <<setup, next, blocked, killVars, procVars, fileVars, modeVars,
                 endVars>>
EndStart ==
  /\ process = "exited"
  /\ Goto("wait", "check")
  /\ UNCHANGED <<setup, next, blocked, killVars, procVars, fileVars, modeVars,
                 endVars>>

\* Verification keeps what earlier launches have reported: a success stands.
Verified(p) == IF log[p] = "none" \/ mlgReport[p] = "success" THEN mlgReport[p]
               ELSE IF log[p] = "begun" /\ mlgReport[p] # "none" THEN mlgReport[p]
               ELSE log[p]

\* DefaultMode.CompleteExchange: no packet failed, and there was one.
MutSucceeds(m) == \A p \in Packet : m[p] \notin {"begun", "error"}
Succeeds(m) == /\ \A p \in Packet : m[p] \notin {"begun", "error"}
               /\ \E p \in Packet : m[p] # "none"

\* Its first half: what is gathered, and the verdict on it.
Verifies == /\ mlgReport' = [p \in Packet |-> Verified(p)]
            /\ isSuccess' = Succeeds(mlgReport')
            /\ isWarning' = (isWarning \/ \E p \in Packet : mlgReport'[p] = "already")

\* Users are asked to leave the base, so that a new configuration can be loaded.
Asks == ~isSuccess' /\ haveMD /\ ~mdAttempt

\* A call throws: the log cannot be opened, or the message file be written or,
\* if there is one, be deleted.  Neither mode counts the attempt.
CutShort ==
  /\ \/ UNCHANGED <<mlgReport, isSuccess, isWarning, messageFile>>
     \/ /\ Verifies
        /\ IF Asks THEN messageFile' \in {messageFile, TRUE}
                   ELSE messageFile /\ UNCHANGED messageFile
  /\ UNCHANGED <<mdAttempt, attempt>>

\* An IOException, of the log or of the message file: after a pause 1C is
\* started again.
CheckBlocked ==
  /\ CutShort
  /\ Goto("check", "test") /\ blocked' = TRUE
  /\ UNCHANGED <<setup, next, killVars, procVars, fileVars, endVars>>

\* Any other exception.
CheckThrows ==
  /\ CutShort
  /\ Throws("check")
  /\ UNCHANGED <<setup, next, blocked, killVars, procVars, fileVars>>

\* CompleteExchange of the mode, and what it sets in attempt.
MutCompletes(success) ==
  IF setup.mode = "Normal" THEN success
                           ELSE ~haveMD \/ attempt \/ success
Completes(success) ==
  IF setup.mode = "Normal" THEN success \/ attempt
                           ELSE ~haveMD \/ attempt \/ success
Attempted(success) ==
  IF setup.mode = "Normal" THEN ~success ELSE haveMD

MutCompleteExchange ==
  /\ Verifies
  /\ messageFile' = (Asks \/ messageFile) /\ mdAttempt' = (mdAttempt \/ Asks)
  /\ attempt' = (attempt \/ Attempted(isSuccess'))
  /\ IF Completes(isSuccess') THEN Goto("check", "conclude") /\ next' = 1
                              ELSE Goto("check", "test") /\ UNCHANGED next
  /\ UNCHANGED <<setup, blocked, killVars, procVars, fileVars, endVars>>
CompleteExchange ==
  /\ Verifies
  /\ messageFile' = Asks /\ mdAttempt' = (mdAttempt \/ Asks)
  /\ attempt' = (attempt \/ Attempted(isSuccess'))
  /\ IF Completes(isSuccess') THEN Goto("check", "conclude") /\ next' = 1
                              ELSE Goto("check", "test") /\ UNCHANGED next
  /\ UNCHANGED <<setup, blocked, killVars, procVars, fileVars, endVars>>
-----------------------------------------------------------------------------
(***************************************************************************)
(* Conclusion: one packet at a time.                                       *)
(***************************************************************************)
Concludes   == pc = "conclude" /\ next <= Len(packets)
NextPacket  == /\ next' = next + 1
               /\ UNCHANGED <<setup, pc, blocked, killVars, procVars, haveMD,
                              modeVars, endVars>>

\* Delete the packet from the server if so configured, whether it was loaded or
\* not; then take its date from there, which fails if it was deleted.
ConcludeLoad ==
  /\ Concludes
  /\ LET p == packets[next]
     IN /\ p \in Load
        /\ setup.deletePacket => ftp[p] # "none" /\ mlgReport[p] # "success"
        /\ ftp' = IF setup.deletePacket THEN [ftp EXCEPT ![p] = "none"] ELSE ftp
        /\ IF mlgReport[p] = "success"
             THEN ftp[p] # "none" /\ recorded' = recorded \cup {p} /\ UNCHANGED local
             ELSE local' = [local EXCEPT ![p] = "none"] /\ UNCHANGED recorded
  /\ NextPacket

\* An unload packet is put on the server if there is a file, whoever left it.
MutConcludeUnload ==
  /\ Concludes
  /\ LET p == packets[next]
     IN /\ p \notin Load
        /\ \/ /\ local[p] # "none"
              /\ ftp' = [ftp EXCEPT ![p] = local[p]]
              /\ recorded' = recorded \cup {p} /\ UNCHANGED local
           \/ UNCHANGED <<ftp, local, recorded>>
  /\ NextPacket
ConcludeUnload ==
  /\ Concludes
  /\ LET p == packets[next]
     IN /\ p \notin Load
        /\ \/ /\ local[p] # "none"
              /\ ftp' = [ftp EXCEPT ![p] = local[p]]
              /\ IF mlgReport[p] = "success"
                   THEN recorded' = recorded \cup {p} /\ UNCHANGED local
                   ELSE local' = [local EXCEPT ![p] = "none"] /\ UNCHANGED recorded
           \* there is none, or the upload fails
           \/ UNCHANGED <<ftp, local, recorded>>
  /\ NextPacket

\* A call of the FTP server that is not guarded fails, perhaps after it has
\* deleted the packet; or the release number cannot be read.
ConcludeThrows ==
  /\ Throws("conclude")
  /\ \/ UNCHANGED ftp
     \/ /\ next <= Len(packets) /\ packets[next] \in Load /\ setup.deletePacket
        /\ ftp' = [ftp EXCEPT ![packets[next]] = "none"]
  /\ UNCHANGED <<setup, next, blocked, killVars, procVars, local, haveMD, recorded,
                 modeVars>>

Concluded ==
  /\ next > Len(packets)
  /\ Goto("conclude", "build")
  /\ isComplete' = isSuccess
  /\ UNCHANGED <<failed, report, setup, next, blocked, killVars, procVars,
                 fileVars, modeVars>>

\* GetOperationReport; Critical is a Fail with more to say.
Outlook == IF isWarning THEN "Warning" ELSE IF isSuccess THEN "Success" ELSE "Fail"

BuildReport ==
  /\ Goto("build", "over")
  /\ report' = IF isInterrupt THEN "Interrupt"
               ELSE IF isComplete THEN Outlook ELSE "Fail"
  /\ UNCHANGED <<isComplete, failed, setup, next, blocked, killVars, procVars,
                 fileVars, modeVars>>
-----------------------------------------------------------------------------
(***************************************************************************)
(* The 1C process, and the service thread in Interrupt().                  *)
(***************************************************************************)
\* What the log may say of p after a launch: a success stands.
Outcome(p) ==
  IF log[p] = "success" \/ (p \in Load /\ local[p] = "none") THEN {log[p]}
  ELSE {log[p], "error", "success"}
         \cup (IF log[p] = "none" THEN {"begun"} ELSE {})
         \cup (IF p \in Load THEN {"already"} ELSE {})

\* The process ends, by itself or killed.  It may have loaded what is there,
\* produced packets or parts of them, or have come to neither.
ProcessEnds ==
  /\ process = "running" /\ process' = "exited"
  /\ log' \in [Packet -> Result]
  /\ \A p \in Packet : log'[p] \in Outcome(p)
  /\ local' \in [Packet -> File]
  /\ \A p \in Packet :
       IF p \in Load \/ log'[p] = "none" THEN local'[p] = local[p]
       ELSE IF log'[p] # log[p] /\ log'[p] = "success" THEN local'[p] = "new"
       ELSE local'[p] \in {local[p], "part"}
  /\ UNCHANGED <<setup, pc, next, blocked, launchGuid, launches, relaunched,
                 ftp, haveMD, recorded, modeVars, endVars>>

ProcessExits == ProcessEnds /\ UNCHANGED killVars

\* The builder of another strategy for this base empties report.log.
WipeLog ==
  /\ Wiped /\ log # [p \in Packet |-> "none"]
  /\ log' = [p \in Packet |-> "none"]
  /\ UNCHANGED <<setup, pc, next, blocked, killVars, launchGuid, process, launches,
                 relaunched, fileVars, modeVars, endVars>>

Killer(from, to) == killer = from /\ killer' = to

Interrupt ==
  /\ pc # "over" /\ Killer("none", "flagged")
  /\ isInterrupt' = TRUE
  /\ UNCHANGED <<setup, pc, next, blocked, procVars, fileVars, modeVars, endVars>>

InterruptTest ==
  /\ Killer("flagged", IF launchGuid THEN "kill" ELSE "done")
  /\ UNCHANGED <<setup, pc, next, blocked, isInterrupt, procVars, fileVars,
                 modeVars, endVars>>

\* HasExited or Kill; if Kill comes too late its exception is swallowed.
Kill ==
  /\ Killer("kill", "done")
  /\ IF process = "running"
       THEN ProcessEnds /\ UNCHANGED isInterrupt
       ELSE UNCHANGED <<setup, pc, next, blocked, isInterrupt, procVars, fileVars,
                        modeVars, endVars>>
-----------------------------------------------------------------------------
TaskStep ==
  \/ Prepare \/ PrepareThrows \/ PrepareEnds
  \/ LoopTest \/ BeginStart \/ StartThrows \/ SetLaunchGuid \/ EndStart
  \/ CheckBlocked \/ CheckThrows \/ CompleteExchange
  \/ ConcludeLoad \/ ConcludeUnload \/ ConcludeThrows \/ Concluded
  \/ BuildReport

Next ==
  \/ TaskStep
  \/ ProcessExits \/ WipeLog
  \/ Interrupt \/ InterruptTest \/ Kill

Spec == Init /\ [][Next]_vars

\* The thread runs on, and 1C in batch mode comes to an end by itself.
FairSpec == Spec /\ WF_vars(TaskStep) /\ WF_vars(ProcessExits)
-----------------------------------------------------------------------------
(***************************************************************************)
(* Properties.                                                             *)
(***************************************************************************)
\* A task is reported as a success, or as one with warnings, only if it was not
\* interrupted, 1C has logged packets, and none of them is left failed or
\* broken off by whichever launch came last; "Success" also means that no
\* launch met a packet loaded before (DefaultMode.cs:62, 83;
\* ExchangeStrategy.cs:246; ExchangeStrategyBuilder.cs:157-182).
SuccessVerified ==
  report \in {"Success", "Warning"} =>
    /\ ~isInterrupt
    /\ \E p \in Packet : mlgReport[p] # "none"
    /\ \A p \in Packet : mlgReport[p] \notin {"begun", "error"}
    /\ report = "Success" => \A p \in Packet : mlgReport[p] # "already"

\* The modes have 1C started twice at most; a start in place of one whose
\* EndLaunch met a log or a message file that could not be opened is not counted,
\* for nothing bounds those (NormalMode.cs:19, PassiveMode.cs:18, DefaultMode.cs:99,
\* 111, ExchangeStrategy.cs:119-129).
LaunchBound == launches <= 2

\* The thread never goes on to verify, start again or report while its 1C runs,
\* however Interrupt() and the start of the process interleave: no two 1C work
\* on the base for one task (ExchangeStrategy.cs:49-63, 88-112).
NoProcessLeft == process = "running" => pc \in {"started", "wait"}

\* Packets listed in the report were transferred by this task: a load packet is
\* still on the server, an unload packet is there as 1C produced it, unless a
\* second launch broke off while it produced it again (Verifier.cs:51,
\* ExchangeStrategy.cs:235-240).
RecordedTransferred ==
  \A p \in recorded :
    /\ mlgReport[p] = "success"
    /\ IF p \in Load THEN ftp[p] # "none"
                      ELSE ftp[p] = "new" \/ (ftp[p] = "part" /\ relaunched)

\* A file an earlier task left over is put on the server only by a task that
\* was interrupted before it had deleted it (ExchangeStrategy.cs:270-278).
NoStaleUpload == (\E p \in Packet : ftp[p] = "stale") => isInterrupt

\* Users are not left asked to leave the base after the task has ended, unless
\* it was interrupted or a call has thrown (DefaultMode.cs:95-112).
MessageFileRemoved == pc = "over" /\ messageFile => isInterrupt \/ failed

\* The task comes to its report whatever fails and whenever it is interrupted,
\* unless its log or its message file is found blocked again and again: then 1C
\* is started without end (QueueManager.cs:174-183, ExchangeStrategy.cs:119-129).
TaskEnds == []<><<CheckBlocked>>_vars \/ <>(pc = "over")
=============================================================================
