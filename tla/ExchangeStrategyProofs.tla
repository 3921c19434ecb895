----------------------- MODULE ExchangeStrategyProofs -----------------------
(***************************************************************************)
(* Proofs about ExchangeStrategy for every list of packets and any number  *)
(* of files found blocked: types, the launches of 1C, the verdict and the  *)
(* packets listed in the report, and the files left behind.                *)
(***************************************************************************)
EXTENDS ExchangeStrategy, TLAPS

LEMMA PacketConstants ==
  /\ packets \in Seq(Packet) /\ Len(packets) \in Nat
  /\ DOMAIN packets = 1..Len(packets)
  /\ \A i \in DOMAIN packets : packets[i] \in Packet
  /\ \A i, j \in DOMAIN packets : packets[i] = packets[j] => i = j
BY ExchangeAssumption DEF ExchangeAssumption
-----------------------------------------------------------------------------
(***************************************************************************)
(* Types.                                                                  *)
(***************************************************************************)
\* The parts of TypeOK: control, the flags, the packets.
TypeControl ==
  /\ setup \in [mode : {"Normal", "Passive"}, deletePacket : BOOLEAN]
  /\ pc \in {"prepare", "test", "start", "started", "wait", "check",
             "conclude", "build", "over"}
  /\ next \in 1..Len(packets)+1
  /\ killer \in {"none", "flagged", "kill", "done"}
  /\ process \in {"none", "running", "exited"}
  /\ launches \in Nat
  /\ report \in {"none", "Interrupt", "Fail", "Warning", "Success"}

TypeFlags ==
  /\ isInterrupt \in BOOLEAN /\ launchGuid \in BOOLEAN
  /\ blocked \in BOOLEAN /\ relaunched \in BOOLEAN
  /\ isComplete \in BOOLEAN /\ failed \in BOOLEAN
TypeMode ==
  /\ haveMD \in BOOLEAN /\ isSuccess \in BOOLEAN /\ isWarning \in BOOLEAN
  /\ mdAttempt \in BOOLEAN /\ attempt \in BOOLEAN /\ messageFile \in BOOLEAN

TypePackets ==
  /\ ftp \in [Packet -> File] /\ local \in [Packet -> File]
  /\ log \in [Packet -> Result] /\ mlgReport \in [Packet -> Result]
  /\ recorded \subseteq Packet

LEMMA TypeParts == TypeOK <=> TypeControl /\ TypeFlags /\ TypeMode /\ TypePackets
<1>1. {isInterrupt, launchGuid, blocked, relaunched, haveMD, isSuccess, isWarning}
        \subseteq BOOLEAN
      <=> /\ isInterrupt \in BOOLEAN /\ launchGuid \in BOOLEAN /\ haveMD \in BOOLEAN
          /\ blocked \in BOOLEAN /\ relaunched \in BOOLEAN
          /\ isSuccess \in BOOLEAN /\ isWarning \in BOOLEAN
  BY Zenon
<1>2. {mdAttempt, attempt, messageFile, isComplete, failed} \subseteq BOOLEAN
      <=> /\ mdAttempt \in BOOLEAN /\ attempt \in BOOLEAN /\ messageFile \in BOOLEAN
          /\ isComplete \in BOOLEAN /\ failed \in BOOLEAN
  BY Zenon
<1>3. {ftp, local} \subseteq [Packet -> File]
      <=> ftp \in [Packet -> File] /\ local \in [Packet -> File]
  BY Zenon
<1> QED
  BY <1>1, <1>2, <1>3 DEF TypeOK, TypeControl, TypeFlags, TypeMode, TypePackets

LEMMA TypeInit == Init => TypeOK
<1> SUFFICES ASSUME Init PROVE TypeOK
  OBVIOUS
<1>1. next \in 1..Len(packets)+1
  BY PacketConstants DEF Init
<1>2. TypeControl
  BY <1>1 DEF Init, TypeControl
<1>3. TypeFlags /\ TypeMode
  BY DEF Init, TypeFlags, TypeMode
<1>4. TypePackets
  BY DEF Init, TypePackets, File, Result
<1> QED
  BY <1>2, <1>3, <1>4, TypeParts

-----------------------------------------------------------------------------
(***************************************************************************)
(* Which steps change what: only the verification changes the verdict, only *)
(* Conclusion the report's list and the server, and so on.                 *)
(***************************************************************************)
Concluding == ConcludeLoad \/ ConcludeUnload \/ ConcludeThrows

Checking == CompleteExchange \/ CheckBlocked \/ CheckThrows

LEMMA ModeChanges ==
  [Next]_vars => Checking \/ UNCHANGED modeVars
BY DEF Next, TaskStep, Prepare, PrepareThrows, PrepareEnds, LoopTest, BeginStart,
       StartThrows, SetLaunchGuid, EndStart, Checking, ConcludeLoad,
       ConcludeUnload, NextPacket, ConcludeThrows, Concluded, BuildReport,
       ProcessExits, ProcessEnds, WipeLog, Interrupt, InterruptTest, Kill, vars

LEMMA FileChanges ==
  [Next]_vars =>
    /\ Prepare \/ UNCHANGED haveMD
    /\ Concluding \/ UNCHANGED <<ftp, recorded>>
    /\ Prepare \/ Concluding \/ ProcessEnds \/ UNCHANGED local
BY DEF Next, TaskStep, PrepareThrows, PrepareEnds, LoopTest, BeginStart,
       StartThrows, SetLaunchGuid, EndStart, CheckBlocked, CheckThrows, CompleteExchange,
       Concluded, BuildReport, ProcessExits, WipeLog, Interrupt, InterruptTest, Kill,
       Prepare, ProcessEnds, Concluding, ConcludeLoad, ConcludeUnload, NextPacket,
       ConcludeThrows, fileVars, vars

LEMMA ProcessChanges ==
  [Next]_vars =>
    /\ ProcessEnds \/ WipeLog \/ UNCHANGED log
    /\ ProcessEnds \/ BeginStart \/ UNCHANGED process
    /\ BeginStart \/ UNCHANGED <<launches, relaunched>>
    /\ BeginStart \/ CheckBlocked \/ UNCHANGED blocked
    /\ isInterrupt' \in {isInterrupt, TRUE} /\ launchGuid' \in {launchGuid, TRUE}
BY DEF Next, TaskStep, Prepare, PrepareThrows, PrepareEnds, LoopTest, BeginStart,
       StartThrows, SetLaunchGuid, EndStart, CheckBlocked, CheckThrows,
       CompleteExchange, ConcludeLoad, ConcludeUnload, NextPacket, ConcludeThrows,
       Concluded, BuildReport, ProcessExits, ProcessEnds, WipeLog, Interrupt,
       InterruptTest, Kill, killVars, procVars, vars

LEMMA EndChanges ==
  [Next]_vars =>
    /\ Concluded \/ UNCHANGED isComplete
    /\ BuildReport \/ UNCHANGED report
    /\ failed' \in {failed, TRUE}
BY DEF Next, TaskStep, Prepare, PrepareThrows, PrepareEnds, LoopTest, BeginStart,
       StartThrows, SetLaunchGuid, EndStart, CheckBlocked, CheckThrows,
       CompleteExchange, ConcludeLoad, ConcludeUnload, NextPacket, ConcludeThrows,
       Concluded, BuildReport, ProcessExits, ProcessEnds, WipeLog, Interrupt,
       InterruptTest, Kill, Throws, endVars, vars

\* Where the thread is changes by its own steps only.
LEMMA ThreadChanges ==
  [Next]_vars => TaskStep \/ UNCHANGED <<pc, next>>
BY DEF Next, ProcessExits, ProcessEnds, WipeLog, Interrupt, InterruptTest, Kill, vars
-----------------------------------------------------------------------------
(***************************************************************************)
(* Every step keeps the types.                                             *)
(***************************************************************************)
LEMMA TypeThread == ASSUME TypeOK, TaskStep PROVE TypeControl'
<1>1. TypeControl
  BY TypeParts
<1> USE <1>1, PacketConstants DEF TypeControl, Goto, Throws
<1>2. CASE Prepare
  BY <1>2 DEF Prepare, killVars, procVars, endVars
<1>3. CASE PrepareThrows \/ StartThrows \/ CheckThrows
  BY <1>3 DEF PrepareThrows, StartThrows, CheckThrows, killVars, procVars
<1>4. CASE PrepareEnds \/ LoopTest \/ EndStart
  BY <1>4 DEF PrepareEnds, LoopTest, EndStart, killVars, procVars, endVars
<1>5. CASE BeginStart \/ SetLaunchGuid \/ CheckBlocked
  BY <1>5 DEF BeginStart, SetLaunchGuid, CheckBlocked, killVars, procVars, endVars
<1>6. CASE CompleteExchange
  BY <1>6 DEF CompleteExchange, killVars, procVars, endVars
<1>7. CASE ConcludeLoad \/ ConcludeUnload
  BY <1>7 DEF ConcludeLoad, ConcludeUnload, Concludes, NextPacket, killVars, procVars,
              endVars
<1>8. CASE ConcludeThrows \/ Concluded \/ BuildReport
  BY <1>8 DEF ConcludeThrows, Concluded, BuildReport, Outlook, killVars, procVars
<1> QED
  BY <1>2, <1>3, <1>4, <1>5, <1>6, <1>7, <1>8 DEF TaskStep

LEMMA TypeOthers ==
  ASSUME TypeOK, ProcessExits \/ WipeLog \/ Interrupt \/ InterruptTest \/ Kill
  PROVE  TypeControl'
<1>1. TypeControl
  BY TypeParts
<1> QED
  BY <1>1 DEF TypeControl, ProcessExits, ProcessEnds, WipeLog, Interrupt, InterruptTest,
              Kill, Killer, killVars, procVars, endVars

LEMMA TypeModeStep == ASSUME TypeOK, [Next]_vars PROVE TypeMode'
<1>1. TypeMode
  BY TypeParts
<1>2. CASE CompleteExchange
  <2>1. isSuccess' \in BOOLEAN /\ isWarning' \in BOOLEAN /\ attempt' \in BOOLEAN
    BY <1>2, Zenon DEF CompleteExchange, Verifies, Succeeds
  <2>2. messageFile' \in BOOLEAN /\ mdAttempt' \in BOOLEAN
    BY <1>2, Zenon DEF CompleteExchange, Asks
  <2>3. haveMD' = haveMD
    BY <1>2 DEF CompleteExchange, fileVars
  <2> QED
    BY <1>1, <2>1, <2>2, <2>3 DEF TypeMode
<1>4. CASE CheckBlocked \/ CheckThrows
  <2>1. CutShort /\ haveMD' = haveMD
    BY <1>4 DEF CheckBlocked, CheckThrows, fileVars
  <2>2. UNCHANGED <<isSuccess, isWarning, messageFile>>
        \/ (Verifies /\ messageFile' \in {messageFile, TRUE})
    BY <2>1 DEF CutShort
  <2>3. Verifies => isSuccess' \in BOOLEAN /\ isWarning' \in BOOLEAN
    BY Zenon DEF Verifies, Succeeds
  <2> QED
    BY <1>1, <2>1, <2>2, <2>3 DEF TypeMode, CutShort
<1>3. CASE UNCHANGED modeVars
  <2>1. haveMD' \in BOOLEAN
    BY <1>1, FileChanges DEF Prepare, TypeMode
  <2> QED
    BY <1>1, <1>3, <2>1 DEF TypeMode, modeVars
<1> QED
  BY <1>2, <1>3, <1>4, ModeChanges DEF Checking

LEMMA TypePacketsStep == ASSUME TypeOK, [Next]_vars PROVE TypePackets'
<1>1. TypePackets /\ TypeControl
  BY TypeParts
<1>2. next <= Len(packets) => packets[next] \in Packet
  BY <1>1, PacketConstants DEF TypeControl
<1>3. mlgReport' \in [Packet -> Result]
  <2>1. CASE Checking
    BY <1>1, <2>1
       DEF Checking, CompleteExchange, CheckBlocked, CheckThrows, CutShort, Verifies,
           Verified, TypePackets
  <2> QED
    BY <1>1, <2>1, ModeChanges DEF modeVars, TypePackets
<1>4. log' \in [Packet -> Result]
  BY <1>1, ProcessChanges DEF ProcessEnds, WipeLog, TypePackets, Result
<1>5. ftp' \in [Packet -> File] /\ recorded' \subseteq Packet
  <2>1. CASE ConcludeLoad \/ ConcludeUnload
    BY <1>1, <1>2, <2>1
       DEF ConcludeLoad, ConcludeUnload, Concludes, TypePackets, File
  <2>2. CASE ConcludeThrows
    BY <1>1, <1>2, <2>2 DEF ConcludeThrows, TypePackets, File
  <2> QED
    BY <1>1, <2>1, <2>2, FileChanges DEF Concluding, TypePackets
<1>6. local' \in [Packet -> File]
  <2>1. CASE Prepare
    BY <1>1, <1>2, <2>1 DEF Prepare, TypePackets, File
  <2>2. CASE Concluding
    BY <1>1, <1>2, <2>2
       DEF Concluding, ConcludeLoad, ConcludeUnload, ConcludeThrows, Concludes,
           TypePackets, File
  <2>3. CASE ProcessEnds
    BY <2>3 DEF ProcessEnds
  <2> QED
    BY <1>1, <2>1, <2>2, <2>3, FileChanges DEF TypePackets
<1> QED
  BY <1>3, <1>4, <1>5, <1>6 DEF TypePackets

LEMMA TypeStep == TypeOK /\ [Next]_vars => TypeOK'
<1> SUFFICES ASSUME TypeOK, [Next]_vars PROVE TypeOK'
  OBVIOUS
<1>1. TypeControl /\ TypeFlags /\ TypeMode
  BY TypeParts
<1>2. TypeControl'
  <2>1. CASE UNCHANGED vars
    BY <1>1, <2>1 DEF vars, killVars, procVars, endVars, TypeControl
  <2> QED
    BY <2>1, TypeThread, TypeOthers DEF Next
<1>3. isComplete' \in {isComplete, isSuccess}
  BY EndChanges DEF Concluded
<1>6. blocked' \in BOOLEAN /\ relaunched' \in BOOLEAN
  BY <1>1, ProcessChanges DEF BeginStart, CheckBlocked, TypeFlags
<1>4. TypeFlags'
  BY <1>1, <1>3, <1>6, ProcessChanges, EndChanges DEF TypeFlags, TypeMode
<1>5. TypeMode' /\ TypePackets'
  BY TypeModeStep, TypePacketsStep
<1> QED
  BY <1>2, <1>4, <1>5, TypeParts, PTL

\* Every variable keeps its type, in every interleaving of the thread, of 1C
\* and of the interrupt (ExchangeStrategy.cs:49-129).
THEOREM ExchangeTypeCorrect == Spec => []TypeOK
BY TypeInit, TypeStep, PTL DEF Spec
-----------------------------------------------------------------------------
(***************************************************************************)
(* The process and its launches.                                           *)
(***************************************************************************)
\* There is a process only after a launch, and it runs only while the thread
\* starts it or waits for it.
ProcInv ==
  /\ NoProcessLeft
  /\ pc \in {"started", "wait", "check"} => process # "none"
  /\ pc = "prepare" => process = "none"

\* Launches allowed where the thread is: one, and one more once the mode has
\* made its second attempt; the one in place of a blocked one is counted already.
LoopInv ==
  /\ LaunchBound
  /\ pc \in {"prepare", "test", "start"} =>
       launches <= (IF blocked THEN 1 ELSE 0) + (IF attempt THEN 1 ELSE 0)
  /\ pc \in {"started", "wait", "check"} => launches <= IF attempt THEN 2 ELSE 1

LEMMA ProcessStep == ASSUME TypeOK, ProcInv, [Next]_vars PROVE ProcInv'
<1>1. TypeControl
  BY TypeParts
<1> USE <1>1 DEF ProcInv, NoProcessLeft, TypeControl, Goto, Throws, procVars, killVars
<1>2. CASE BeginStart
  BY <1>2 DEF BeginStart
<1>3. CASE ProcessEnds
  BY <1>3 DEF ProcessEnds
<1>4. CASE UNCHANGED <<process, launches>>
  <2>1. CASE Prepare \/ PrepareThrows \/ PrepareEnds \/ LoopTest
    BY <1>4, <2>1 DEF Prepare, PrepareThrows, PrepareEnds, LoopTest
  <2>2. CASE StartThrows \/ SetLaunchGuid \/ EndStart
    BY <1>4, <2>2 DEF StartThrows, SetLaunchGuid, EndStart
  <2>3. CASE CheckBlocked \/ CheckThrows \/ CompleteExchange
    BY <1>4, <2>3 DEF CheckBlocked, CheckThrows, CompleteExchange
  <2>4. CASE Concluding \/ Concluded \/ BuildReport
    BY <1>4, <2>4 DEF Concluding, ConcludeLoad, ConcludeUnload, Concludes, NextPacket,
                      ConcludeThrows, Concluded, BuildReport
  <2>5. CASE UNCHANGED pc
    BY <1>4, <2>5
  <2> QED
    BY <1>2, <2>1, <2>2, <2>3, <2>4, <2>5, ThreadChanges DEF TaskStep, Concluding
<1> QED
  BY <1>2, <1>3, <1>4, ProcessChanges

LEMMA LaunchStep ==
  ASSUME TypeOK, LoopInv, [Next]_vars PROVE LoopInv'
<1>1. TypeControl /\ TypeMode
  BY TypeParts
<1> USE <1>1 DEF LoopInv, LaunchBound, TypeControl, Goto, Throws
<1>2. CASE BeginStart
  BY <1>2 DEF BeginStart, modeVars
<1>3. CASE CheckBlocked
  BY <1>3 DEF CheckBlocked, CutShort, procVars
<1>4. CASE CompleteExchange
  <2>1. UNCHANGED <<launches, blocked>> /\ pc = "check"
    BY <1>4 DEF CompleteExchange, procVars
  <2>2. attempt => pc' = "conclude"
    BY <1>4, Zenon DEF CompleteExchange, Completes
  <2>3. pc' = "test" => attempt' = TRUE
    <3> SUFFICES ASSUME pc' = "test" PROVE attempt' = TRUE
      OBVIOUS
    <3>1. ~Completes(isSuccess')
      BY <1>4 DEF CompleteExchange
    <3>2. Attempted(isSuccess')
      BY <3>1, Zenon DEF Completes, Attempted
    <3> QED
      BY <1>4, <3>2, Zenon DEF CompleteExchange
  <2>4. pc' \in {"conclude", "test"}
    BY <1>4 DEF CompleteExchange
  <2> QED
    BY <2>1, <2>2, <2>3, <2>4 DEF TypeMode
<1>5. CASE UNCHANGED <<launches, blocked, attempt>>
  <2>1. CASE Prepare \/ PrepareThrows \/ PrepareEnds \/ LoopTest
    BY <1>5, <2>1 DEF Prepare, PrepareThrows, PrepareEnds, LoopTest
  <2>2. CASE StartThrows \/ SetLaunchGuid \/ EndStart \/ CheckThrows
    BY <1>5, <2>2 DEF StartThrows, SetLaunchGuid, EndStart, CheckThrows
  <2>3. CASE Concluding \/ Concluded \/ BuildReport
    BY <1>5, <2>3 DEF Concluding, ConcludeLoad, ConcludeUnload, Concludes, NextPacket,
                      ConcludeThrows, Concluded, BuildReport
  <2>4. CASE UNCHANGED pc
    BY <1>5, <2>4
  <2> QED
    BY <1>2, <1>3, <1>4, <2>1, <2>2, <2>3, <2>4, ThreadChanges DEF TaskStep, Concluding
<1>6. CheckThrows => UNCHANGED attempt
  BY DEF CheckThrows, CutShort
<1> QED
  BY <1>2, <1>3, <1>4, <1>5, <1>6, ModeChanges, ProcessChanges DEF modeVars, Checking

\* The thread never goes on to verify, start again or report while its 1C runs
\* (ExchangeStrategy.cs:49-63, 88-112).
THEOREM ProcessEndsFirst == Spec => []NoProcessLeft
<1>1. Init => ProcInv
  BY DEF Init, ProcInv, NoProcessLeft
<1>2. TypeOK /\ ProcInv /\ [Next]_vars => ProcInv'
  BY ProcessStep
<1>3. ProcInv => NoProcessLeft
  BY DEF ProcInv
<1> QED
  BY <1>1, <1>2, <1>3, ExchangeTypeCorrect, PTL DEF Spec

\* The modes have 1C started twice at most; a start in place of one whose
\* EndLaunch met a file it could not open is not counted, however many those are
\* (NormalMode.cs:19, PassiveMode.cs:18, DefaultMode.cs:99, 111,
\* ExchangeStrategy.cs:119-129).
THEOREM LaunchesBounded == Spec => []LaunchBound
<1>1. Init => LoopInv
  BY DEF Init, LoopInv, LaunchBound
<1>2. TypeOK /\ LoopInv /\ [Next]_vars => LoopInv'
  BY LaunchStep
<1>3. LoopInv => LaunchBound
  BY DEF LoopInv
<1> QED
  BY <1>1, <1>2, <1>3, ExchangeTypeCorrect, PTL DEF Spec
-----------------------------------------------------------------------------
(***************************************************************************)
(* The verdict.                                                            *)
(***************************************************************************)
\* Where the thread comes from: into Conclusion from a verification or by an
\* interrupt, and it never leaves the report again.
LEMMA Moves ==
  ASSUME TypeOK, [Next]_vars
  PROVE  /\ pc' = "prepare" => pc = "prepare"
         /\ pc' = "conclude" => \/ pc = "conclude" /\ next' \in {next, next + 1}
                                \/ isInterrupt /\ isInterrupt'
                                \/ CompleteExchange
         /\ pc' = "over" => pc = "over" \/ BuildReport
         /\ pc \in {"build", "over"} => pc' \in {"build", "over"} /\ next' = next
         /\ pc = "conclude" => pc' \in {"conclude", "build"}
         /\ pc = "over" => pc' = "over" /\ UNCHANGED isInterrupt
<1>1. TypeControl
  BY TypeParts
<1> USE DEF Goto, Throws, killVars
<1>2. CASE Prepare \/ PrepareThrows \/ PrepareEnds
  BY <1>2 DEF Prepare, PrepareThrows, PrepareEnds
<1>3. CASE LoopTest
  BY <1>3, Zenon DEF LoopTest
<1>4. CASE BeginStart \/ StartThrows \/ SetLaunchGuid \/ EndStart
  BY <1>4 DEF BeginStart, StartThrows, SetLaunchGuid, EndStart
<1>5. CASE CheckBlocked \/ CheckThrows \/ CompleteExchange
  BY <1>5 DEF CheckBlocked, CheckThrows, CompleteExchange
<1>6. CASE Concluding
  BY <1>6 DEF Concluding, ConcludeLoad, ConcludeUnload, Concludes, NextPacket,
              ConcludeThrows
<1>7. CASE Concluded \/ BuildReport
  BY <1>7 DEF Concluded, BuildReport
<1>8. CASE ProcessExits \/ WipeLog \/ Kill
  BY <1>8 DEF ProcessExits, ProcessEnds, WipeLog, Kill
<1>9. CASE Interrupt \/ InterruptTest \/ UNCHANGED vars
  BY <1>9 DEF Interrupt, InterruptTest, vars
<1> QED
  BY <1>2, <1>3, <1>4, <1>5, <1>6, <1>7, <1>8, <1>9 DEF Next, TaskStep, Concluding

\* The task is complete only past Conclusion, and what the mode found holds of
\* what the verifier has gathered, unless the interrupt cut it short.
VerdictInv ==
  /\ isComplete => pc \in {"build", "over"}
  /\ pc = "conclude" /\ isSuccess => isInterrupt \/ Succeeds(mlgReport)
  /\ isComplete => isInterrupt \/ Succeeds(mlgReport)
  /\ \A p \in Packet : mlgReport[p] = "already" => isWarning
  /\ report # "none" => pc = "over"
  /\ SuccessVerified

\* A verification that ends the loop leaves a verdict that holds.
LEMMA VerdictChecked ==
  ASSUME TypeOK, VerdictInv, CompleteExchange PROVE VerdictInv'
<1>1. pc = "check" /\ pc' \in {"conclude", "test"}
      /\ UNCHANGED <<isComplete, report, isInterrupt>>
  BY DEF CompleteExchange, Goto, killVars, endVars
<1>2. ~isComplete /\ report = "none"
  BY <1>1 DEF VerdictInv
<1>3. isSuccess' = Succeeds(mlgReport')
  BY Zenon DEF CompleteExchange, Verifies
<1>4. \A p \in Packet : mlgReport'[p] = "already" => isWarning'
  BY Zenon DEF CompleteExchange, Verifies
<1> QED
  BY <1>1, <1>2, <1>3, <1>4 DEF VerdictInv, SuccessVerified, Succeeds

\* A check that throws leaves none that counts.
LEMMA VerdictCutShort ==
  ASSUME TypeOK, VerdictInv, CheckBlocked \/ CheckThrows PROVE VerdictInv'
<1>1. pc = "check" /\ pc' \in {"test", "build"} /\ CutShort
      /\ UNCHANGED <<isComplete, report, isInterrupt>>
  BY DEF CheckBlocked, CheckThrows, Throws, Goto, killVars, endVars
<1>2. ~isComplete /\ report = "none"
  BY <1>1 DEF VerdictInv
<1>3. Verifies => \A p \in Packet : mlgReport'[p] = "already" => isWarning'
  BY Zenon DEF Verifies
<1>4. \A p \in Packet : mlgReport'[p] = "already" => isWarning'
  <2>1. CASE Verifies
    BY <1>3, <2>1
  <2>2. CASE UNCHANGED <<mlgReport, isWarning>>
    BY <2>2, Zenon DEF VerdictInv
  <2>3. Verifies \/ UNCHANGED <<mlgReport, isWarning>>
    BY <1>1 DEF CutShort
  <2> QED
    BY <2>1, <2>2, <2>3
<1> QED
  BY <1>1, <1>2, <1>4 DEF VerdictInv, SuccessVerified

LEMMA VerdictReported == ASSUME TypeOK, VerdictInv, BuildReport PROVE VerdictInv'
<1>1. /\ pc = "build" /\ pc' = "over"
      /\ UNCHANGED <<isComplete, isInterrupt, isSuccess, isWarning, mlgReport>>
  BY DEF BuildReport, Goto, killVars, modeVars
<1>2. ASSUME report' \in {"Success", "Warning"}
      PROVE  ~isInterrupt /\ isComplete
  BY <1>2 DEF BuildReport
<1>3. report' = "Success" => ~isWarning
  BY DEF BuildReport, Outlook
<1>4. SuccessVerified'
  BY <1>1, <1>2, <1>3 DEF VerdictInv, SuccessVerified, Succeeds
<1> QED
  BY <1>1, <1>4 DEF VerdictInv, Succeeds

LEMMA VerdictStep == ASSUME TypeOK, VerdictInv, [Next]_vars PROVE VerdictInv'
<1>1. CASE UNCHANGED modeVars /\ UNCHANGED report
  <2>1. isInterrupt => isInterrupt'
    BY ProcessChanges
  <2>2. isComplete' => pc' \in {"build", "over"}
    BY Moves, EndChanges DEF VerdictInv, Concluded, Goto
  <2>3. pc' = "conclude" /\ isSuccess' => isInterrupt' \/ Succeeds(mlgReport')
    <3>1. CASE CompleteExchange
      BY <1>1, <3>1, VerdictChecked DEF VerdictInv
    <3> QED
      BY <1>1, <2>1, <3>1, Moves DEF VerdictInv, modeVars
  <2>4. isComplete' => isInterrupt' \/ Succeeds(mlgReport')
    BY <1>1, <2>1, EndChanges DEF VerdictInv, Concluded, Goto, modeVars
  <2>5. report' # "none" => pc' = "over"
    BY <1>1, Moves DEF VerdictInv
  <2>6. SuccessVerified'
    BY <1>1, Moves DEF VerdictInv, SuccessVerified, modeVars
  <2> QED
    BY <1>1, <2>2, <2>3, <2>4, <2>5, <2>6 DEF VerdictInv, modeVars
<1>2. CASE BuildReport
  BY <1>2, VerdictReported
<1>3. CASE Checking
  BY <1>3, VerdictChecked, VerdictCutShort DEF Checking
<1> QED
  BY <1>1, <1>2, <1>3, ModeChanges, EndChanges

\* A task is reported as a success, or as one with warnings, only if it was not
\* interrupted and 1C has logged packets none of which is left failed or broken
\* off (DefaultMode.cs:62, 83; ExchangeStrategyBuilder.cs:157-182).
THEOREM SuccessIsVerified == Spec => []SuccessVerified
<1>1. Init => VerdictInv
  BY DEF Init, VerdictInv, SuccessVerified
<1>2. TypeOK /\ VerdictInv /\ [Next]_vars => VerdictInv'
  BY VerdictStep
<1>3. VerdictInv => SuccessVerified
  BY DEF VerdictInv
<1> QED
  BY <1>1, <1>2, <1>3, ExchangeTypeCorrect, PTL DEF Spec
-----------------------------------------------------------------------------
(***************************************************************************)
(* The message to the users, and files of earlier tasks.                   *)
(***************************************************************************)
Looping == {"test", "start", "started", "wait", "check"}
Ending  == {"conclude", "build", "over"}

\* The mode asks the users to leave at its first attempt with a new
\* configuration; a second attempt, which ends the loop, takes that back.
MessageInv ==
  /\ pc = "prepare" => ~attempt
  /\ pc \in Looping /\ attempt /\ haveMD => mdAttempt
  /\ pc \in Ending /\ messageFile => isInterrupt \/ failed

LEMMA MessageChecked ==
  ASSUME TypeOK, MessageInv, CompleteExchange PROVE MessageInv'
<1>1. pc = "check" /\ pc' \in {"conclude", "test"} /\ UNCHANGED haveMD
  BY DEF CompleteExchange, Goto, fileVars
<1>2. attempt /\ haveMD => mdAttempt
  BY <1>1 DEF MessageInv, Looping
<1>3. /\ messageFile' = (~isSuccess' /\ haveMD /\ ~mdAttempt)
      /\ mdAttempt' = (mdAttempt \/ (~isSuccess' /\ haveMD /\ ~mdAttempt))
      /\ attempt' = (attempt \/ Attempted(isSuccess'))
  BY Zenon DEF CompleteExchange, Asks
<1>4. ASSUME pc' = "conclude" PROVE ~messageFile'
  <2>1. Completes(isSuccess')
    BY <1>4 DEF CompleteExchange, Goto
  <2>2. haveMD => attempt \/ isSuccess'
    BY <2>1, Zenon DEF Completes
  <2> QED
    BY <1>2, <1>3, <2>2, Zenon
<1>5. ASSUME pc' = "test", attempt', haveMD PROVE mdAttempt'
  <2>1. ~Completes(isSuccess')
    BY <1>5 DEF CompleteExchange, Goto
  <2>2. ~isSuccess'
    BY <2>1, Zenon DEF Completes
  <2> QED
    BY <1>3, <1>5, <2>2, Zenon
<1> QED
  BY <1>1, <1>4, <1>5 DEF MessageInv, Looping, Ending

LEMMA MessageStep == ASSUME TypeOK, MessageInv, [Next]_vars PROVE MessageInv'
<1>1. TypeControl
  BY TypeParts
<1>2. isInterrupt => isInterrupt'
  BY ProcessChanges
<1>3. failed => failed'
  BY EndChanges
<1>5. CASE CheckBlocked
  <2>1. /\ pc = "check" /\ pc' = "test"
        /\ UNCHANGED <<haveMD, mdAttempt, attempt>>
    BY <1>5 DEF CheckBlocked, CutShort, Goto, fileVars
  <2> QED
    BY <2>1 DEF MessageInv, Looping, Ending
<1>6. CASE CheckThrows
  <2>1. failed' /\ pc' = "build"
    BY <1>6 DEF CheckThrows, Throws, Goto
  <2> QED
    BY <2>1 DEF MessageInv, Looping
<1>4. CASE UNCHANGED modeVars /\ ~Checking
  <2>1. pc' = "prepare" => ~attempt'
    BY <1>4, Moves DEF MessageInv, modeVars
  <2>2. CASE Prepare \/ UNCHANGED pc
    <3>1. pc' = pc /\ (pc # "prepare" => haveMD' = haveMD)
      BY <2>2, FileChanges DEF Prepare
    <3> QED
      BY <1>2, <1>3, <1>4, <2>1, <3>1 DEF MessageInv, modeVars, Looping, Ending
  <2>3. CASE PrepareThrows \/ StartThrows \/ ConcludeThrows
    <3>1. failed' /\ pc' = "build"
      BY <2>3 DEF PrepareThrows, StartThrows, ConcludeThrows, Throws, Goto
    <3> QED
      BY <3>1 DEF MessageInv, Looping
  <2>4. CASE PrepareEnds
    <3>1. pc = "prepare" /\ pc' = "test"
      BY <2>4 DEF PrepareEnds, Goto
    <3> QED
      BY <1>4, <3>1 DEF MessageInv, modeVars, Ending
  <2>5. CASE LoopTest
    <3>1. pc = "test" /\ (pc' = "start" \/ (pc' = "conclude" /\ isInterrupt))
          /\ UNCHANGED haveMD
      BY <2>5, Zenon DEF LoopTest, Goto, fileVars
    <3> QED
      BY <1>2, <1>4, <3>1 DEF MessageInv, modeVars, Looping, Ending
  <2>6. CASE BeginStart \/ SetLaunchGuid \/ EndStart
    <3>1. pc \in Looping /\ pc' \in Looping \ {"prepare"} /\ UNCHANGED haveMD
      BY <2>6 DEF BeginStart, SetLaunchGuid, EndStart, Goto, fileVars, Looping
    <3> QED
      BY <1>4, <3>1 DEF MessageInv, modeVars, Looping, Ending
  <2>7. CASE ConcludeLoad \/ ConcludeUnload \/ Concluded \/ BuildReport
    <3>1. pc \in Ending /\ pc' \in Ending
      BY <2>7 DEF ConcludeLoad, ConcludeUnload, Concludes, NextPacket, Concluded,
                  BuildReport, Goto, Ending
    <3> QED
      BY <1>2, <1>3, <1>4, <3>1 DEF MessageInv, modeVars, Looping, Ending
  <2> QED
    BY <1>4, <2>2, <2>3, <2>4, <2>5, <2>6, <2>7, ThreadChanges DEF TaskStep, Checking
<1> QED
  BY <1>4, <1>5, <1>6, MessageChecked, ModeChanges DEF Checking

\* Users are not left asked to leave the base after the task has ended, unless
\* it was interrupted or a call has thrown (DefaultMode.cs:95-112).
THEOREM MessageIsRemoved == Spec => []MessageFileRemoved
<1>1. Init => MessageInv
  BY DEF Init, MessageInv, Looping, Ending
<1>2. TypeOK /\ MessageInv /\ [Next]_vars => MessageInv'
  BY MessageStep
<1>3. MessageInv => MessageFileRemoved
  BY DEF MessageInv, MessageFileRemoved, Ending
<1> QED
  BY <1>1, <1>2, <1>3, ExchangeTypeCorrect, PTL DEF Spec

\* A file left over is there only until Prepare comes to it, or for good once
\* the task is interrupted or has failed; then Conclusion does not see it.
StaleInv ==
  /\ NoStaleUpload
  /\ \A i \in DOMAIN packets : local[packets[i]] = "stale" =>
       isInterrupt \/ (pc = "prepare" /\ next <= i) \/ pc \in {"build", "over"}

LEMMA StaleStays ==
  ASSUME TypeOK, [Next]_vars, NEW i \in DOMAIN packets,
         local'[packets[i]] = "stale"
  PROVE  local[packets[i]] = "stale" /\ ~(Prepare /\ next = i)
<1>1. TypeControl /\ TypePackets /\ packets[i] \in Packet
  BY TypeParts, PacketConstants
<1>2. CASE Prepare
  BY <1>1, <1>2, PacketConstants DEF Prepare, TypeControl, TypePackets
<1>3. CASE Concluding
  BY <1>1, <1>3, PacketConstants
     DEF Concluding, ConcludeLoad, ConcludeUnload, ConcludeThrows, Concludes, Prepare,
         Throws, Goto, TypeControl, TypePackets
<1>4. CASE ProcessEnds
  BY <1>1, <1>4, PacketConstants DEF ProcessEnds, Prepare, procVars
<1> QED
  BY <1>2, <1>3, <1>4, FileChanges

LEMMA StaleStep == ASSUME TypeOK, StaleInv, [Next]_vars PROVE StaleInv'
<1>1. TypeControl /\ TypePackets
  BY TypeParts
<1>2. isInterrupt => isInterrupt'
  BY ProcessChanges
<1>3. NoStaleUpload'
  <2> SUFFICES ASSUME NEW p \in Packet, ftp'[p] = "stale" PROVE isInterrupt
    BY <1>2 DEF NoStaleUpload
  <2>1. CASE ftp[p] = "stale"
    BY <2>1 DEF StaleInv, NoStaleUpload
  <2>2. CASE ftp[p] # "stale"
    <3>1. ConcludeUnload /\ p = packets[next] /\ local[p] = "stale"
      BY <1>1, <2>2, FileChanges, PacketConstants
         DEF Concluding, ConcludeLoad, ConcludeUnload, ConcludeThrows, Concludes,
             TypeControl, TypePackets
    <3>2. pc = "conclude" /\ next \in DOMAIN packets
      BY <1>1, <3>1, PacketConstants DEF ConcludeUnload, Concludes, TypeControl
    <3> QED
      BY <3>1, <3>2 DEF StaleInv
  <2> QED
    BY <2>1, <2>2
<1>4. ASSUME NEW i \in DOMAIN packets, local'[packets[i]] = "stale",
             ~isInterrupt'
      PROVE  (pc' = "prepare" /\ next' <= i) \/ pc' \in {"build", "over"}
  <2>1. local[packets[i]] = "stale" /\ ~(Prepare /\ next = i) /\ ~isInterrupt
    BY <1>2, <1>4, StaleStays
  <2>2. CASE pc \in {"build", "over"}
    BY <2>2, Moves
  <2>3. CASE pc = "prepare" /\ next <= i
    <3>1. CASE Prepare
      BY <1>1, <2>1, <2>3, <3>1, PacketConstants DEF Prepare, TypeControl
    <3>2. CASE PrepareThrows
      BY <3>2 DEF PrepareThrows, Throws, Goto
    <3>3. CASE PrepareEnds
      BY <1>1, <2>1, <2>3, <3>3, PacketConstants DEF PrepareEnds, TypeControl
    <3>4. CASE TaskStep /\ ~Prepare /\ ~PrepareThrows /\ ~PrepareEnds
      BY <2>3, <3>4
         DEF TaskStep, LoopTest, BeginStart, StartThrows, SetLaunchGuid, EndStart,
             CheckBlocked, CheckThrows, CompleteExchange, ConcludeLoad, ConcludeUnload,
             Concludes, ConcludeThrows, Concluded, BuildReport, Goto, Throws
    <3> QED
      BY <2>3, <3>1, <3>2, <3>3, <3>4, ThreadChanges
  <2> QED
    BY <2>1, <2>2, <2>3 DEF StaleInv
<1> QED
  BY <1>3, <1>4 DEF StaleInv

\* A file an earlier task left over is put on the server only by a task that
\* was interrupted before it had deleted it (ExchangeStrategy.cs:270-278).
THEOREM StaleFilesStay == Spec => []NoStaleUpload
<1>1. Init => StaleInv
  BY PacketConstants DEF Init, StaleInv, NoStaleUpload
<1>2. TypeOK /\ StaleInv /\ [Next]_vars => StaleInv'
  BY StaleStep
<1>3. StaleInv => NoStaleUpload
  BY DEF StaleInv
<1> QED
  BY <1>1, <1>2, <1>3, ExchangeTypeCorrect, PTL DEF Spec
-----------------------------------------------------------------------------
(***************************************************************************)
(* What 1C produced, and what the report lists.                            *)
(***************************************************************************)
Produced(p) == local[p] = "new" \/ (local[p] = "part" /\ relaunched)

\* A success in the log, or gathered from it, comes from a launch that is over,
\* and the packet it stands for is still where that launch or a second one
\* left it.
ProducedInv ==
  \A p \in Packet :
    /\ mlgReport[p] = "success" \/ log[p] = "success" =>
         process # "none" /\ (process = "running" => relaunched)
    /\ p \notin Load /\ (mlgReport[p] = "success"
                         \/ (log[p] = "success" /\ pc \notin Ending)) => Produced(p)

\* What the report lists was transferred by this Conclusion, which has gone on.
RecordedInv ==
  /\ recorded # {} => pc \in Ending
  /\ \A p \in recorded : \E i \in DOMAIN packets : p = packets[i] /\ i < next
  /\ RecordedTransferred

\* From Conclusion on nothing is started or verified, and it only goes on.
LEMMA EndingSteps ==
  ASSUME TypeOK, [Next]_vars
  PROVE  /\ pc \in Ending => /\ pc' \in Ending /\ next' \in {next, next + 1}
                             /\ UNCHANGED <<mlgReport, relaunched>>
         /\ Concluding => pc = "conclude"
<1>1. TypeControl
  BY TypeParts
<1>2. Concluding => pc = "conclude"
  BY DEF Concluding, ConcludeLoad, ConcludeUnload, ConcludeThrows, Concludes, Throws, Goto
<1>3. ASSUME pc \in Ending
      PROVE  pc' \in Ending /\ UNCHANGED <<mlgReport, relaunched>>
  <2>1. pc' \in Ending
    BY <1>3, Moves DEF Ending
  <2> QED
    BY <1>3, <2>1, ModeChanges, ProcessChanges
       DEF Ending, Checking, CompleteExchange, CheckBlocked, CheckThrows, BeginStart,
           Goto, Throws, modeVars
<1>4. ASSUME pc \in Ending PROVE next' \in {next, next + 1}
  <2>1. CASE ConcludeLoad \/ ConcludeUnload
    BY <2>1 DEF ConcludeLoad, ConcludeUnload, NextPacket
  <2>2. CASE ConcludeThrows \/ Concluded \/ BuildReport
    BY <2>2 DEF ConcludeThrows, Concluded, BuildReport
  <2>3. ~Prepare /\ ~PrepareThrows /\ ~PrepareEnds /\ ~LoopTest /\ ~BeginStart
        /\ ~StartThrows /\ ~SetLaunchGuid
    BY <1>4 DEF Ending, Goto, Throws, Prepare, PrepareThrows, PrepareEnds, LoopTest,
                BeginStart, StartThrows, SetLaunchGuid
  <2>4. ~EndStart /\ ~CheckBlocked /\ ~CheckThrows /\ ~CompleteExchange
    BY <1>4 DEF Ending, Goto, Throws, EndStart, CheckBlocked, CheckThrows, CompleteExchange
  <2> QED
    BY <2>1, <2>2, <2>3, <2>4, ThreadChanges DEF TaskStep
<1> QED
  BY <1>2, <1>3, <1>4

\* What a run of 1C leaves: successes only after it has ended, their packets in
\* place; and the verifier takes its successes from the log.
LEMMA ProducedByProcess ==
  ASSUME TypeOK, ProcInv, ProducedInv, ProcessEnds PROVE ProducedInv'
<1>1. process = "running" /\ process' = "exited" /\ UNCHANGED <<pc, relaunched, mlgReport>>
  BY DEF ProcessEnds, modeVars
<1>2. pc \notin Ending
  BY <1>1 DEF ProcInv, NoProcessLeft, Ending
<1> SUFFICES ASSUME NEW p \in Packet, p \notin Load,
                    mlgReport[p] = "success" \/ log'[p] = "success"
             PROVE  Produced(p)'
  BY <1>1, <1>2 DEF ProducedInv
<1>3. CASE log'[p] = "none"
  <2>1. local'[p] = local[p] /\ mlgReport[p] = "success"
    BY <1>3 DEF ProcessEnds
  <2> QED
    BY <1>1, <2>1 DEF ProducedInv, Produced
<1>4. CASE log'[p] # log[p] /\ log'[p] = "success"
  BY <1>4 DEF ProcessEnds, Produced
<1>5. CASE log'[p] # "none" /\ (log'[p] = log[p] \/ log'[p] # "success")
  <2>1. local'[p] \in {local[p], "part"}
    BY <1>5 DEF ProcessEnds
  <2>2. relaunched /\ Produced(p)
    BY <1>1, <1>2, <1>5 DEF ProducedInv
  <2> QED
    BY <1>1, <2>1, <2>2 DEF Produced
<1> QED
  BY <1>3, <1>4, <1>5

LEMMA ProducedVerified ==
  ASSUME TypeOK, ProducedInv, Checking PROVE ProducedInv'
<1>1. pc = "check" /\ UNCHANGED <<process, relaunched, log, local>>
  BY DEF Checking, CompleteExchange, CheckBlocked, CheckThrows, Goto, Throws, procVars,
         fileVars
<1>2. \A p \in Packet : mlgReport'[p] \in {mlgReport[p], log[p]}
  BY DEF Checking, CompleteExchange, CheckBlocked, CheckThrows, CutShort, Verifies,
         Verified
<1> QED
  BY <1>1, <1>2 DEF ProducedInv, Produced, Ending

LEMMA ProducedConcluded ==
  ASSUME TypeOK, ProducedInv, Concluding PROVE ProducedInv'
<1>1. TypeControl /\ TypePackets
  BY TypeParts
<1>2. pc = "conclude" /\ UNCHANGED <<process, relaunched, log, mlgReport>> /\ pc' \in Ending
  BY DEF Concluding, ConcludeLoad, ConcludeUnload, ConcludeThrows, Concludes, NextPacket,
         Throws, Goto, procVars, modeVars, Ending
<1>3. \A p \in Packet : local'[p] = local[p] \/ p \in Load \/ mlgReport[p] # "success"
  BY <1>1, PacketConstants
     DEF Concluding, ConcludeLoad, ConcludeUnload, ConcludeThrows, Concludes,
         TypeControl, TypePackets
<1> QED
  BY <1>2, <1>3 DEF ProducedInv, Produced, Ending

LEMMA ProducedStep ==
  ASSUME TypeOK, ProcInv, ProducedInv, [Next]_vars PROVE ProducedInv'
<1>1. TypeControl /\ TypePackets
  BY TypeParts
<1>2. CASE Prepare
  <2>1. pc = "prepare" /\ process = "none"
        /\ UNCHANGED <<process, relaunched, log, mlgReport>>
    BY <1>2 DEF Prepare, ProcInv, procVars, modeVars
  <2> QED
    BY <2>1 DEF ProducedInv
<1>3. CASE BeginStart
  <2>1. /\ relaunched' = (process # "none") /\ process' = "running"
        /\ pc = "start" /\ UNCHANGED <<log, local, mlgReport>>
    BY <1>3 DEF BeginStart, Goto, fileVars, modeVars
  <2> QED
    BY <2>1 DEF ProducedInv, Produced, Ending
<1>4. CASE WipeLog
  <2>1. UNCHANGED <<process, relaunched, local, mlgReport, pc>>
        /\ \A p \in Packet : log'[p] # "success"
    BY <1>4 DEF WipeLog, fileVars, modeVars
  <2> QED
    BY <2>1 DEF ProducedInv, Produced
<1>5. CASE UNCHANGED <<process, relaunched, log, mlgReport, local>>
  <2>1. pc' \notin Ending => pc \notin Ending
    BY EndingSteps
  <2> QED
    BY <1>5, <2>1 DEF ProducedInv, Produced
<1> QED
  BY <1>2, <1>3, <1>4, <1>5, ProducedByProcess, ProducedVerified, ProducedConcluded,
     ModeChanges, FileChanges, ProcessChanges DEF modeVars

LEMMA RecordedStep ==
  ASSUME TypeOK, ProducedInv, RecordedInv, [Next]_vars PROVE RecordedInv'
<1>1. TypeControl /\ TypePackets /\ next \in Nat
  BY TypeParts DEF TypeControl
<1>2. CASE UNCHANGED <<ftp, recorded>>
  <2>1. CASE recorded = {}
    BY <1>2, <2>1 DEF RecordedInv, RecordedTransferred
  <2>2. CASE recorded # {}
    <3>1. /\ pc' \in Ending /\ next' \in {next, next + 1}
          /\ UNCHANGED <<mlgReport, relaunched>>
      BY <2>2, EndingSteps DEF RecordedInv
    <3>2. \A p \in recorded : \E i \in DOMAIN packets : p = packets[i] /\ i < next'
      BY <1>1, <3>1, PacketConstants DEF RecordedInv
    <3> QED
      BY <1>2, <3>1, <3>2 DEF RecordedInv, RecordedTransferred
  <2> QED
    BY <2>1, <2>2
<1>3. CASE Concluding
  <2>1. /\ pc = "conclude" /\ pc' \in Ending /\ next' \in {next, next + 1}
        /\ UNCHANGED <<mlgReport, relaunched>>
    BY <1>3, EndingSteps DEF Ending
  <2>2. \A p \in recorded : next <= Len(packets) => p # packets[next]
    BY <1>1, PacketConstants DEF RecordedInv, TypeControl
  <2>3. \A p \in recorded : ftp'[p] = ftp[p]
    BY <1>1, <1>3, <2>2, PacketConstants
       DEF Concluding, ConcludeLoad, ConcludeUnload, ConcludeThrows, Concludes, RecordedInv,
           TypeControl, TypePackets
  <2>4. ASSUME NEW p \in recorded' \ recorded
        PROVE  /\ next <= Len(packets) /\ p = packets[next] /\ next' = next + 1
               /\ mlgReport[p] = "success"
               /\ IF p \in Load
                    THEN ftp'[p] # "none"
                    ELSE ftp'[p] = "new" \/ (ftp'[p] = "part" /\ relaunched)
    <3>1. CASE ConcludeLoad
      <4>1. /\ next <= Len(packets) /\ p = packets[next] /\ next' = next + 1
            /\ mlgReport[p] = "success" /\ p \in Load
        BY <2>4, <3>1 DEF ConcludeLoad, Concludes, NextPacket
      <4>2. ftp[p] # "none" /\ ftp' = ftp
        BY <3>1, <4>1 DEF ConcludeLoad
      <4> QED
        BY <4>1, <4>2
    <3>2. CASE ConcludeUnload
      <4>1. /\ next <= Len(packets) /\ p = packets[next] /\ next' = next + 1
            /\ mlgReport[p] = "success" /\ p \notin Load
            /\ ftp' = [ftp EXCEPT ![p] = local[p]]
        BY <2>4, <3>2 DEF ConcludeUnload, Concludes, NextPacket
      <4>2. p \in Packet
        BY <1>1, <4>1, PacketConstants DEF TypeControl
      <4>3. Produced(p)
        BY <4>1, <4>2 DEF ProducedInv
      <4> QED
        BY <1>1, <4>1, <4>2, <4>3 DEF Produced, TypePackets
    <3>3. CASE ConcludeThrows
      BY <2>4, <3>3 DEF ConcludeThrows
    <3> QED
      BY <1>3, <3>1, <3>2, <3>3 DEF Concluding
  <2>5. \A p \in recorded' : \E i \in DOMAIN packets : p = packets[i] /\ i < next'
    <3> SUFFICES ASSUME NEW p \in recorded'
                 PROVE  \E i \in DOMAIN packets : p = packets[i] /\ i < next'
      OBVIOUS
    <3>1. CASE p \in recorded
      BY <1>1, <2>1, <3>1, PacketConstants DEF RecordedInv
    <3>2. CASE p \notin recorded
      BY <1>1, <2>4, <3>2, PacketConstants DEF TypeControl
    <3> QED
      BY <3>1, <3>2
  <2>6. RecordedTransferred'
    BY <2>1, <2>3, <2>4 DEF RecordedInv, RecordedTransferred
  <2> QED
    BY <2>1, <2>5, <2>6 DEF RecordedInv
<1> QED
  BY <1>2, <1>3, FileChanges

\* Packets listed in the report were transferred by this task: a load packet is
\* still on the server, an unload packet is there as 1C produced it, unless a
\* second launch broke off while it produced it again (Verifier.cs:51,
\* ExchangeStrategy.cs:235-240).
THEOREM RecordedIsTransferred == Spec => []RecordedTransferred
<1> DEFINE Inv == ProcInv /\ ProducedInv /\ RecordedInv
<1>1. Init => Inv
  <2> SUFFICES ASSUME Init PROVE Inv
    OBVIOUS
  <2>1. ProcInv
    BY DEF Init, ProcInv, NoProcessLeft
  <2>2. ProducedInv /\ RecordedInv
    BY DEF Init, ProducedInv, RecordedInv, RecordedTransferred
  <2> QED
    BY <2>1, <2>2
<1>2. TypeOK /\ Inv /\ [Next]_vars => Inv'
  BY ProcessStep, ProducedStep, RecordedStep
<1>3. Inv => RecordedTransferred
  BY DEF RecordedInv
<1> QED
  BY <1>1, <1>2, <1>3, ExchangeTypeCorrect, PTL DEF Spec
=============================================================================
