------------------------ MODULE ExtDirectoriesProofs ------------------------
(***************************************************************************)
(* Proofs about ExtDirectories for every tree of files and directories,    *)
(* number of attempts, of versions and of tasks.                           *)
(***************************************************************************)
EXTENDS ExtDirectories, SequenceTheorems, TLAPS

LEMMA Constants ==
  /\ roots \in Seq(Dir) /\ entries \in [Dir -> SUBSET (File \cup Dir)]
  /\ File \cap Dir = {} /\ Pack \subseteq File /\ SameSize \subseteq File
  /\ NoFile \notin File
  /\ Attempts \in Nat /\ Attempts > 0
  /\ MaxVersion \in Nat /\ MaxVersion > 0 /\ MaxRuns \in Nat /\ MaxRuns > 0
BY ExtDirectoriesAssumption DEF ExtDirectoriesAssumption
-----------------------------------------------------------------------------
(***************************************************************************)
(* What is left of the listings.                                           *)
(***************************************************************************)
\* f is still to come in one of the listings q.
In(f, q)   == \E i \in DOMAIN q : f \in q[i].left
Pending(f) == In(f, stack)

LEMMA Pushed ==
  ASSUME NEW s \in Level, NEW rest \in Seq(Level)
  PROVE  /\ <<s>> \o rest \in Seq(Level)
         /\ <<s>> \o rest # <<>> /\ Head(<<s>> \o rest) = s
         /\ \A f : In(f, <<s>> \o rest) <=> f \in s.left \/ In(f, rest)
<1> DEFINE q == <<s>> \o rest
<1>1. <<s>> \in Seq(Level) /\ Len(<<s>>) = 1 /\ <<s>>[1] = s
  OBVIOUS
<1>2. q \in Seq(Level) /\ Len(q) = Len(rest) + 1
  BY <1>1
<1>3. q[1] = s /\ \A i \in 1..Len(rest) : q[i + 1] = rest[i]
  BY <1>1
<1>4. DOMAIN q = 1..Len(rest)+1 /\ DOMAIN rest = 1..Len(rest) /\ Len(rest) \in Nat
  BY <1>2
<1> HIDE DEF q
<1>5. ASSUME NEW f, In(f, q) PROVE f \in s.left \/ In(f, rest)
  <2>1. PICK i \in DOMAIN q : f \in q[i].left
    BY <1>5 DEF In
  <2>2. CASE i = 1
    BY <1>3, <2>1, <2>2
  <2>3. CASE i # 1
    <3>1. i - 1 \in 1..Len(rest) /\ rest[i - 1] = q[i]
      BY <1>3, <1>4, <2>1, <2>3
    <3> QED
      BY <1>4, <2>1, <3>1 DEF In
  <2> QED
    BY <2>2, <2>3
<1>6. ASSUME NEW f, f \in s.left \/ In(f, rest) PROVE In(f, q)
  <2>1. CASE f \in s.left
    BY <1>3, <1>4, <2>1 DEF In
  <2>2. CASE In(f, rest)
    <3>1. PICK i \in 1..Len(rest) : f \in rest[i].left
      BY <1>4, <2>2 DEF In
    <3>2. i + 1 \in DOMAIN q /\ f \in q[i + 1].left
      BY <1>3, <1>4, <3>1
    <3> QED
      BY <3>2 DEF In
  <2> QED
    BY <1>6, <2>1, <2>2
<1>7. q # <<>> /\ Head(q) = s
  BY <1>2, <1>3
<1> QED
  BY <1>2, <1>5, <1>6, <1>7 DEF q

LEMMA Popped ==
  ASSUME NEW q \in Seq(Level), q # <<>>
  PROVE  /\ Head(q) \in Level /\ Tail(q) \in Seq(Level)
         /\ \A f : In(f, q) <=> f \in Head(q).left \/ In(f, Tail(q))
<1>1. Head(q) \in Level /\ Tail(q) \in Seq(Level) /\ q = <<Head(q)>> \o Tail(q)
  BY HeadTailProperties
<1> QED
  BY <1>1, Pushed

LEMMA PendingRest ==
  ASSUME stack \in Seq(Level), stack # <<>>, NEW e
  PROVE  /\ Rest(e) \in Seq(Level)
         /\ Rest(e) # <<>> /\ Head(Rest(e)).dir = Head(stack).dir
         /\ \A f : In(f, Rest(e)) => Pending(f)
         /\ \A f : Pending(f) /\ f # e => In(f, Rest(e))
<1> DEFINE h == [dir |-> Head(stack).dir, left |-> Head(stack).left \ {e}]
<1>0. Head(stack) \in Level /\ Tail(stack) \in Seq(Level)
  BY Popped
<1>1. h \in Level /\ h.left = Head(stack).left \ {e} /\ h.dir = Head(stack).dir
  BY <1>0 DEF Level
<1> HIDE DEF h
<1>5. Rest(e) = <<h>> \o Tail(stack)
  BY DEF Rest, h
<1>6. /\ <<h>> \o Tail(stack) \in Seq(Level) /\ <<h>> \o Tail(stack) # <<>>
      /\ Head(<<h>> \o Tail(stack)) = h
      /\ \A f : In(f, <<h>> \o Tail(stack)) <=> f \in h.left \/ In(f, Tail(stack))
  BY <1>0, <1>1, Pushed
<1>2. \A f : In(f, Rest(e)) <=> f \in Head(stack).left \ {e} \/ In(f, Tail(stack))
  BY <1>1, <1>5, <1>6
<1>3. \A f : Pending(f) <=> f \in Head(stack).left \/ In(f, Tail(stack))
  BY Popped DEF Pending
<1>4. Rest(e) \in Seq(Level) /\ Rest(e) # <<>> /\ Head(Rest(e)).dir = Head(stack).dir
  BY <1>1, <1>5, <1>6
<1> QED
  BY <1>2, <1>3, <1>4

\* A listing shows what it lists in a version of the server.
LEMMA Listed ==
  ASSUME TypeOK, NEW d \in Dir, NEW rest \in Seq(Level), Lists(d, rest)
  PROVE  /\ stack' \in Seq(Level)
         /\ listed' \in [File -> 0..MaxVersion]
         /\ \A f \in File : listed'[f] \in {listed[f], ftp[f]}
         /\ \A f \in File : In(f, rest) => In(f, stack')
         /\ \A f \in File : \/ listed'[f] = listed[f]
                            \/ listed'[f] = 0 \/ In(f, stack')
         /\ \A f \in File : In(f, stack') => In(f, rest) \/ (listed'[f] = ftp[f] /\ ftp[f] > 0)
<1> DEFINE shown == [dir |-> d, left |-> There(d)]
           none  == [dir |-> d, left |-> {}]
<1>1. /\ shown \in Level /\ shown.left = There(d)
      /\ none \in Level /\ none.left = {}
  BY Constants DEF Level, There
<1> HIDE DEF shown, none
<1>2. ftp \in [File -> 0..MaxVersion] /\ listed \in [File -> 0..MaxVersion]
  BY DEF TypeOK
<1>3. CASE /\ stack' = <<shown>> \o rest
           /\ listed' = [f \in File |-> IF f \in entries[d] THEN ftp[f] ELSE listed[f]]
  <2>1. /\ stack' \in Seq(Level)
        /\ \A f : In(f, stack') <=> f \in There(d) \/ In(f, rest)
    BY <1>1, <1>3, Pushed
  <2>2. \A f \in File : f \in There(d) <=> f \in entries[d] /\ ftp[f] > 0
    BY Constants DEF There
  <2> QED
    BY <1>2, <1>3, <2>1, <2>2
<1>4. CASE stack' = <<none>> \o rest /\ listed' = listed
  <2>1. /\ stack' \in Seq(Level)
        /\ \A f : In(f, stack') <=> f \in {} \/ In(f, rest)
    BY <1>1, <1>4, Pushed
  <2> QED
    BY <1>2, <1>4, <2>1
<1> QED
  BY <1>3, <1>4 DEF Lists, shown, none
-----------------------------------------------------------------------------
(***************************************************************************)
(* Types.                                                                  *)
(***************************************************************************)
\* While a file is worked on there is one, of the innermost directory.
AtFile ==
  pc \in {"file", "fetch", "send", "add"} =>
    current \in File /\ stack # <<>> /\ current \in entries[Head(stack).dir]

TypeInv == TypeOK /\ AtFile

LEMMA TypeInit == Init => TypeInv
<1> SUFFICES ASSUME Init PROVE TypeInv
  OBVIOUS
<1>1. ftp \in [File -> 0..MaxVersion]
  BY Constants DEF Init
<1>2. NoLocal \in Local
  BY Constants DEF Local, NoLocal
<1>3. local \in [File -> Local] /\ unpacked \in [File -> 0..MaxVersion]
      /\ listed \in [File -> 0..MaxVersion]
  BY <1>2, Constants DEF Init
<1>4. todo \in Seq(Dir) /\ stack \in Seq(Level)
  BY Constants DEF Init
<1>5. attempts \in 1..Attempts /\ fetching \in 0..MaxVersion /\ run \in 1..MaxRuns
  BY Constants DEF Init
<1> QED
  BY <1>1, <1>3, <1>4, <1>5 DEF Init, TypeInv, TypeOK, AtFile

LEMMA TypeCopies == ASSUME TypeInv, Copies PROVE TypeInv'
<1> USE Constants DEF TypeInv, TypeOK, AtFile, Goto, disk, progress, download, files, history
<1>1. CASE NextRoot
  <2>1. Head(todo) \in Dir /\ Tail(todo) \in Seq(Dir) /\ <<>> \in Seq(Level)
    BY <1>1 DEF NextRoot
  <2>2. stack' \in Seq(Level) /\ listed' \in [File -> 0..MaxVersion]
    BY <1>1, <2>1, Listed DEF NextRoot
  <2> QED
    BY <1>1, <2>1, <2>2 DEF NextRoot
<1>2. CASE RootThrows \/ Conclude \/ ReportFailure
  BY <1>2 DEF RootThrows, Conclude, ReportFailure, Status
<1>3. ASSUME NEW d \in Dir, EnterDirectory(d) PROVE TypeInv'
  <2>1. Rest(d) \in Seq(Level)
    BY <1>3, PendingRest DEF EnterDirectory, AtEntry
  <2>2. stack' \in Seq(Level) /\ listed' \in [File -> 0..MaxVersion]
    BY <1>3, <2>1, Listed DEF EnterDirectory
  <2> QED
    BY <1>3, <2>2 DEF EnterDirectory, AtEntry
<1>4. ASSUME NEW f \in File, TakeFile(f) PROVE TypeInv'
  <2>1. /\ Rest(f) \in Seq(Level) /\ Rest(f) # <<>>
        /\ Head(Rest(f)).dir = Head(stack).dir
    BY <1>4, PendingRest DEF TakeFile, AtEntry
  <2>2. f \in entries[Head(stack).dir]
    BY <1>4, Popped DEF TakeFile, AtEntry, Level
  <2> QED
    BY <1>4, <2>1, <2>2 DEF TakeFile
<1>5. CASE Leave
  <2>1. Tail(stack) \in Seq(Level)
    BY <1>5, Popped DEF Leave
  <2> QED
    BY <1>5, <2>1 DEF Leave
<1>6. CASE Skip \/ DeleteDenied \/ DeleteThrows
  BY <1>6 DEF Skip, DeleteDenied, DeleteThrows
<1>7. CASE Delete \/ AttemptFails \/ GiveUp
  <2>1. NoLocal \in Local
    BY DEF Local, NoLocal
  <2>2. CASE Delete
    BY <2>1, <2>2 DEF Delete
  <2>3. CASE AttemptFails
    <3>1. local' \in [File -> Local]
      <4>1. [local EXCEPT ![current] = NoLocal] \in [File -> Local]
        BY <2>1
      <4> QED
        BY <2>3, <4>1 DEF AttemptFails
    <3> QED
      BY <2>3, <3>1 DEF AttemptFails
  <2>4. CASE GiveUp
    BY <2>1, <2>4 DEF GiveUp
  <2> QED
    BY <1>7, <2>2, <2>3, <2>4
<1>8. CASE Fetch
  <2>1. [version |-> -1, covers |-> 0] \in Local
    BY DEF Local
  <2> QED
    BY <1>8, <2>1 DEF Fetch
<1>9. CASE Fetched
  <2>1. \A v \in {0, ftp[current]} : [version |-> fetching, covers |-> v] \in Local
    BY <1>9 DEF Fetched, Local
  <2>2. local' \in [File -> Local]
    BY <1>9, <2>1 DEF Fetched
  <2> QED
    BY <1>9, <2>2 DEF Fetched
<1>10. CASE Add \/ UnzipThrows
  <2>1. \A f \in File : local[f].version > 0 => local[f].version \in 0..MaxVersion
    BY DEF Local
  <2>2. unpacked' \in [File -> 0..MaxVersion]
    BY <1>10, <2>1 DEF Add, UnzipThrows
  <2> QED
    BY <1>10, <2>2 DEF Add, UnzipThrows
<1>11. CASE GiveUpThrows
  <2>1. Head(stack) \in Level /\ Tail(stack) \in Seq(Level)
    BY <1>11, Popped DEF GiveUpThrows
  <2>2. Head(stack).dir \in Dir
    BY <2>1 DEF Level
  <2> QED
    BY <1>11, <2>1, <2>2 DEF GiveUpThrows
<1> QED
  BY <1>1, <1>2, <1>3, <1>4, <1>5, <1>6, <1>7, <1>8, <1>9, <1>10, <1>11
     DEF Copies, Transfers

LEMMA TypeStep == TypeInv /\ [Next]_vars => TypeInv'
<1> SUFFICES ASSUME TypeInv, [Next]_vars PROVE TypeInv'
  OBVIOUS
<1> USE Constants DEF TypeInv, TypeOK, AtFile, disk, progress, download, files, history
<1>1. CASE Interrupt \/ Stop
  BY <1>1 DEF Interrupt, Stop
<1>2. CASE Begin
  <2>1. stack' \in Seq(Level) /\ todo' \in Seq(Dir)
    BY <1>2 DEF Begin
  <2>2. run' \in 1..MaxRuns /\ attempts' \in 1..Attempts /\ fetching' \in 0..MaxVersion
    BY <1>2 DEF Begin
  <2>3. listed' \in [File -> 0..MaxVersion]
    BY <1>2 DEF Begin
  <2>4. isInterrupt' \in BOOLEAN /\ had' \subseteq File
    BY <1>2, Zenon DEF Begin
  <2>5. /\ UNCHANGED <<ftp, local, unpacked, troubled>> /\ pc' = "next"
        /\ current' = NoFile /\ copied' = {} /\ failed' = {} /\ denied' = {}
        /\ report' = "none" /\ late' = 0
    BY <1>2 DEF Begin
  <2> QED
    BY <2>1, <2>2, <2>3, <2>4, <2>5
<1>3. ASSUME NEW f \in File, ChangeFtp(f) PROVE TypeInv'
  <2>1. ftp[f] + 1 \in 0..MaxVersion
    BY <1>3 DEF ChangeFtp
  <2>2. ftp' \in [File -> 0..MaxVersion]
    BY <1>3, <2>1 DEF ChangeFtp
  <2>3. local' \in [File -> Local]
    <3>1. CASE UNCHANGED local
      BY <3>1
    <3>2. CASE local' = [local EXCEPT ![f].covers = ftp[f] + 1]
      BY <2>1, <3>2 DEF Local
    <3> QED
      BY <1>3, <3>1, <3>2 DEF ChangeFtp
  <2> QED
    BY <1>3, <2>2, <2>3 DEF ChangeFtp
<1>4. CASE UNCHANGED vars
  BY <1>4 DEF vars
<1> QED
  BY <1>1, <1>2, <1>3, <1>4, TypeCopies DEF Next

LEMMA TypesKept == Spec => []TypeInv
BY TypeInit, TypeStep, PTL DEF Spec

\* Every variable keeps its type: the attempts of a download stay between one
\* and what is configured, and no step undoes what was read of the server
\* (FtpKit.cs:53-81, ExtDirectoriesStrategy.cs:85-158).
THEOREM CopyTypeCorrect == Spec => []TypeOK
<1>1. TypeInv => TypeOK
  BY DEF TypeInv
<1> QED
  BY <1>1, TypesKept, PTL
-----------------------------------------------------------------------------
(***************************************************************************)
(* Which steps change what.                                                *)
(***************************************************************************)
\* The files of the base change only in the transfer of the current one; of any
\* other only what its date means may change.
LEMMA LocalChanges ==
  ASSUME TypeInv, [Next]_vars, NEW f \in File
  PROVE  \/ local'[f] = local[f]
         \/ current = f /\ (Delete \/ AttemptFails \/ GiveUp) /\ local'[f] = NoLocal
         \/ current = f /\ Fetch /\ local'[f].version = -1
         \/ /\ current = f /\ Fetched
            /\ local'[f].version = fetching
         \/ /\ ChangeFtp(f) /\ local'[f].version = local[f].version
            /\ local[f].covers \in Int /\ local'[f].covers = local[f].covers + 1
<1> USE DEF TypeInv, TypeOK, disk
<1>1. CASE Delete \/ AttemptFails \/ GiveUp
  BY <1>1 DEF Delete, AttemptFails, GiveUp
<1>2. CASE Fetch
  BY <1>2 DEF Fetch
<1>3. CASE Fetched
  <2>1. PICK v : local' = [local EXCEPT ![current] = [version |-> fetching, covers |-> v]]
    BY <1>3 DEF Fetched
  <2> QED
    BY <1>3, <2>1
<1>4. CASE UNCHANGED local
  BY <1>4
<1>5. ASSUME NEW g \in File, ChangeFtp(g)
      PROVE  \/ local'[f] = local[f]
             \/ /\ ChangeFtp(f) /\ local'[f].version = local[f].version
                /\ local[f].covers \in Int /\ local'[f].covers = local[f].covers + 1
  <2>1. CASE UNCHANGED local
    BY <2>1
  <2>2. CASE /\ local[g].covers = ftp[g]
             /\ local' = [local EXCEPT ![g].covers = ftp[g] + 1]
    <3>1. CASE g = f
      BY <1>5, <2>2, <3>1
    <3>2. CASE g # f
      BY <2>2, <3>2
    <3> QED
      BY <3>1, <3>2
  <2> QED
    BY <1>5, <2>1, <2>2 DEF ChangeFtp
<1> QED
  BY <1>1, <1>2, <1>3, <1>4, <1>5
     DEF Next, Copies, Transfers, NextRoot, RootThrows, EnterDirectory, TakeFile, Leave,
         Skip, DeleteDenied, DeleteThrows, Add, UnzipThrows, Conclude, ReportFailure,
         GiveUpThrows, Interrupt, Stop, Begin, vars

LEMMA VersionsKept ==
  ASSUME TypeInv, NEW g \in File, ChangeFtp(g)
  PROVE  \A f \in File : local'[f].version = local[f].version
<1>1. local \in [File -> [version : -1..MaxVersion, covers : 0..MaxVersion]]
  BY DEF TypeInv, TypeOK, Local
<1>2. CASE local' = [local EXCEPT ![g].covers = ftp[g] + 1]
  BY <1>1, <1>2
<1> QED
  BY <1>2 DEF ChangeFtp
-----------------------------------------------------------------------------
(***************************************************************************)
(* After an interrupt.                                                     *)
(***************************************************************************)
\* A file taken before the interrupt is the only one still fetched after it.
LateInv ==
  /\ OneLateDownload
  /\ late > 0 => isInterrupt
  /\ pc = "file" => late = 0

LEMMA LateStep == TypeInv /\ LateInv /\ [Next]_vars => LateInv'
<1> SUFFICES ASSUME TypeInv, LateInv, [Next]_vars PROVE LateInv'
  OBVIOUS
<1> USE DEF TypeInv, TypeOK, LateInv, OneLateDownload, Goto, history
<1>1. CASE Delete
  BY <1>1 DEF Delete
<1>2. ASSUME NEW f \in File, TakeFile(f) PROVE LateInv'
  BY <1>2 DEF TakeFile
<1>3. ASSUME NEW d \in Dir, EnterDirectory(d) PROVE LateInv'
  BY <1>3 DEF EnterDirectory
<1>4. CASE NextRoot \/ RootThrows \/ Leave \/ Conclude \/ ReportFailure
  BY <1>4 DEF NextRoot, RootThrows, Leave, Conclude, ReportFailure
<1>5. CASE Skip \/ DeleteDenied \/ DeleteThrows \/ Fetch \/ Fetched
  BY <1>5 DEF Skip, DeleteDenied, DeleteThrows, Fetch, Fetched
<1>6. CASE AttemptFails \/ GiveUp \/ GiveUpThrows \/ Add \/ UnzipThrows
  BY <1>6 DEF AttemptFails, GiveUp, GiveUpThrows, Add, UnzipThrows
<1>7. CASE Interrupt \/ Stop \/ Begin
  BY <1>7 DEF Interrupt, Stop, Begin
<1>8. CASE (\E f \in File : ChangeFtp(f)) \/ UNCHANGED vars
  BY <1>8 DEF ChangeFtp, vars
<1> QED
  BY <1>1, <1>2, <1>3, <1>4, <1>5, <1>6, <1>7, <1>8 DEF Next, Copies, Transfers

\* After an interrupt one more download is begun at most, at whatever depth of
\* the directories it comes (ExtDirectoriesStrategy.cs:92-93).
THEOREM OneDownloadAfterInterrupt == Spec => []OneLateDownload
<1>1. Init => LateInv
  BY DEF Init, LateInv, OneLateDownload
<1>2. LateInv => OneLateDownload
  BY DEF LateInv
<1> QED
  BY <1>1, <1>2, LateStep, TypesKept, PTL DEF Spec
-----------------------------------------------------------------------------
(***************************************************************************)
(* Packs.                                                                  *)
(***************************************************************************)
\* A pack is unpacked as soon as it is there, or its trouble is on record.
UnpackInv ==
  \A f \in Pack : local[f].version > 0 =>
    unpacked[f] = local[f].version \/ f \in troubled \/ (current = f /\ pc = "add")

LEMMA UnpackStep == TypeInv /\ UnpackInv /\ [Next]_vars => UnpackInv'
<1> SUFFICES ASSUME TypeInv, UnpackInv, [Next]_vars PROVE UnpackInv'
  OBVIOUS
<1> USE Constants DEF TypeInv, TypeOK, AtFile, UnpackInv, Goto, disk, history
<1>1. CASE Delete \/ AttemptFails \/ GiveUp \/ Fetch
  <2>1. /\ UNCHANGED <<unpacked, troubled>> /\ pc \notin {"add"}
        /\ \A f \in File : local'[f] = local[f] \/ ~(local'[f].version > 0)
    BY <1>1, LocalChanges DEF Delete, AttemptFails, GiveUp, Fetch, Fetched, NoLocal
  <2> QED
    BY <2>1
<1>2. CASE Fetched
  BY <1>2 DEF Fetched
<1>3. CASE Add \/ UnzipThrows
  BY <1>3 DEF Add, UnzipThrows
<1>4. CASE DeleteDenied \/ Skip \/ DeleteThrows
  BY <1>4 DEF DeleteDenied, Skip, DeleteThrows
<1>5. CASE Stop
  BY <1>5 DEF Stop
<1>6. CASE Begin \/ Interrupt
  BY <1>6 DEF Begin, Interrupt
<1>7. CASE NextRoot \/ RootThrows \/ Leave \/ Conclude \/ ReportFailure
  BY <1>7 DEF NextRoot, RootThrows, Leave, Conclude, ReportFailure
<1>8. ASSUME NEW f \in File, TakeFile(f) PROVE UnpackInv'
  BY <1>8 DEF TakeFile, AtEntry
<1>9. ASSUME NEW d \in Dir, EnterDirectory(d) PROVE UnpackInv'
  BY <1>9 DEF EnterDirectory
<1>10. CASE UNCHANGED vars
  BY <1>10 DEF vars
<1>11. ASSUME NEW g \in File, ChangeFtp(g) PROVE UnpackInv'
  <2>1. UNCHANGED <<unpacked, troubled, current, pc>>
    BY <1>11 DEF ChangeFtp
  <2>2. \A f \in File : local'[f].version = local[f].version
    BY <1>11, VersionsKept
  <2> QED
    BY <2>1, <2>2
<1>12. CASE GiveUpThrows
  BY <1>12 DEF GiveUpThrows
<1> QED
  BY <1>1, <1>2, <1>3, <1>4, <1>5, <1>6, <1>7, <1>8, <1>9, <1>10, <1>11, <1>12
     DEF Next, Copies, Transfers

\* A task reported as a success has unpacked the packs it has copied, except
\* for those where this was broken off, in this task or an earlier one
\* (ExtDirectoriesStrategy.cs:105, 121-142).
THEOREM PacksAreUnpacked == Spec => []SuccessUnpacked
<1>1. Init => UnpackInv
  BY Constants DEF Init, UnpackInv, NoLocal
<1>2. TypeInv /\ UnpackInv => SuccessUnpacked
  <2> SUFFICES ASSUME TypeInv, UnpackInv, pc = "over",
                      NEW f \in Pack, listed[f] > 0, local[f].version >= listed[f]
               PROVE  unpacked[f] = local[f].version \/ f \in troubled
    BY DEF SuccessUnpacked
  <2>1. listed[f] \in Int /\ local[f].version \in Int
    BY Constants DEF TypeInv, TypeOK, Local
  <2> QED
    BY <2>1 DEF UnpackInv
<1> QED
  BY <1>1, <1>2, UnpackStep, TypesKept, PTL DEF Spec
-----------------------------------------------------------------------------
(***************************************************************************)
(* How a task gets on.                                                     *)
(***************************************************************************)
Work == {"file", "fetch", "send", "add"}

\* A step of others, or none.
Idle == /\ UNCHANGED <<pc, current, stack, listed, fetching, isInterrupt, failed, denied,
                       had, report>>
        /\ \A f \in File : local'[f].version = local[f].version

LEMMA OthersIdle ==
  ASSUME TypeInv, (\E f \in File : ChangeFtp(f)) \/ UNCHANGED vars
  PROVE  Idle
<1>1. ASSUME NEW f \in File, ChangeFtp(f) PROVE Idle
  BY <1>1, VersionsKept DEF ChangeFtp, Idle, progress, download, files, history
<1>2. CASE UNCHANGED vars
  BY <1>2 DEF vars, Idle, disk, progress, download, files, history
<1> QED
  BY <1>1, <1>2

\* The server only goes forward.
LEMMA FtpGrows ==
  ASSUME TypeInv, [Next]_vars, NEW f \in File
  PROVE  ftp[f] <= ftp'[f]
<1>1. ftp[f] \in Int
  BY DEF TypeInv, TypeOK
<1>2. CASE \E g \in File : ChangeFtp(g)
  BY <1>1, <1>2 DEF ChangeFtp, TypeInv, TypeOK
<1>3. CASE UNCHANGED ftp
  BY <1>1, <1>3
<1> QED
  BY <1>2, <1>3
     DEF Next, Copies, Transfers, NextRoot, RootThrows, EnterDirectory, TakeFile, Leave,
         Skip, Delete, DeleteDenied, DeleteThrows, Fetch, Fetched, AttemptFails, GiveUp, GiveUpThrows,
         Add, UnzipThrows, Conclude, ReportFailure, Interrupt, Stop, Begin, vars

\* From one place of a transfer to the next.
LEMMA WorkSteps ==
  ASSUME TypeInv, [Next]_vars
  PROVE  /\ pc' = "file" => (pc = "next" /\ TakeFile(current')) \/ Idle \/ Interrupt
         /\ pc' = "fetch" => Delete \/ AttemptFails \/ Idle \/ Interrupt
         /\ pc' = "send" => Fetch \/ Idle \/ Interrupt
         /\ pc' = "add" => Fetched \/ DeleteDenied \/ Idle \/ Interrupt
<1> USE DEF Goto
<1>1. CASE NextRoot \/ RootThrows \/ Leave \/ Conclude \/ ReportFailure
  BY <1>1 DEF NextRoot, RootThrows, Leave, Conclude, ReportFailure
<1>2. ASSUME NEW d \in Dir, EnterDirectory(d) PROVE pc' = "next"
  BY <1>2 DEF EnterDirectory, AtEntry
<1>3. ASSUME NEW f \in File, TakeFile(f)
      PROVE  pc' = "file" /\ pc = "next" /\ TakeFile(current')
  BY <1>3 DEF TakeFile, AtEntry
<1>4. CASE Skip \/ Delete \/ DeleteDenied \/ DeleteThrows \/ Fetch
  BY <1>4 DEF Skip, Delete, DeleteDenied, DeleteThrows, Fetch
<1>5. CASE Fetched \/ AttemptFails \/ GiveUp \/ GiveUpThrows \/ Add \/ UnzipThrows
  BY <1>5 DEF Fetched, AttemptFails, GiveUp, GiveUpThrows, Add, UnzipThrows
<1>6. CASE Stop \/ Begin
  BY <1>6 DEF Stop, Begin
<1> QED
  BY <1>1, <1>2, <1>3, <1>4, <1>5, <1>6, OthersIdle DEF Next, Copies, Transfers

\* A file is listed in a version of the server, and leaves the listings only
\* when it is taken or by an interrupt.
LEMMA ListingSteps ==
  ASSUME TypeInv, [Next]_vars, NEW f \in File
  PROVE  \/ Begin
         \/ /\ listed'[f] \in {listed[f], ftp[f]}
            /\ listed'[f] # listed[f] => listed'[f] = 0 \/ In(f, stack')
            /\ pc \in Work \/ pc' \in Work => listed' = listed
            /\ In(f, stack') => Pending(f) \/ (listed'[f] = ftp[f] /\ ftp[f] > 0)
            /\ Pending(f) => \/ In(f, stack') \/ isInterrupt
                             \/ TakeFile(f)
                             \/ GiveUpThrows /\ f \in Head(stack).left
<1> USE DEF TypeInv
<1>1. stack \in Seq(Level) /\ todo \in Seq(Dir) /\ f \notin Dir
  BY Constants DEF TypeOK
<1>2. CASE NextRoot
  <2>1. /\ Head(todo) \in Dir /\ <<>> \in Seq(Level) /\ Lists(Head(todo), <<>>)
        /\ stack = <<>> /\ pc = "next" /\ pc' = "next"
    BY <1>1, <1>2 DEF NextRoot
  <2>2. \A g : ~In(g, <<>>)
    BY DEF In
  <2> QED
    BY <2>1, <2>2, Listed DEF Pending, Work
<1>3. ASSUME NEW d \in Dir, EnterDirectory(d)
      PROVE  /\ listed'[f] \in {listed[f], ftp[f]}
             /\ listed'[f] # listed[f] => listed'[f] = 0 \/ In(f, stack')
             /\ pc = "next" /\ pc' = "next"
             /\ In(f, stack') => Pending(f) \/ (listed'[f] = ftp[f] /\ ftp[f] > 0)
             /\ Pending(f) => In(f, stack')
  <2>1. stack # <<>> /\ pc = "next" /\ pc' = "next"
    BY <1>3 DEF EnterDirectory, AtEntry
  <2>2. /\ Rest(d) \in Seq(Level)
        /\ In(f, Rest(d)) => Pending(f)
        /\ Pending(f) => In(f, Rest(d))
    BY <1>1, <2>1, PendingRest
  <2>3. CASE Lists(d, Rest(d))
    BY <2>1, <2>2, <2>3, Listed
  <2>4. CASE stack' = Rest(d) /\ listed' = listed
    BY <2>1, <2>2, <2>4
  <2> QED
    BY <1>3, <2>3, <2>4 DEF EnterDirectory
<1>4. ASSUME NEW g \in File, TakeFile(g)
      PROVE  /\ listed' = listed
             /\ In(f, stack') => Pending(f)
             /\ Pending(f) => In(f, stack') \/ f = g
  <2>1. stack # <<>> /\ stack' = Rest(g) /\ listed' = listed
    BY <1>4 DEF TakeFile, AtEntry
  <2> QED
    BY <1>1, <2>1, PendingRest
<1>5. CASE Leave
  <2>1. /\ stack # <<>> /\ stack' = Tail(stack) /\ listed' = listed
        /\ Head(stack).left = {} \/ isInterrupt
    BY <1>5 DEF Leave
  <2> QED
    BY <1>1, <2>1, Popped DEF Pending
<1>6. CASE UNCHANGED <<stack, listed>>
  BY <1>6 DEF Pending
<1>7. CASE GiveUpThrows
  <2>1. stack # <<>> /\ stack' = Tail(stack) /\ listed' = listed
    BY <1>7 DEF GiveUpThrows, TypeOK, AtFile
  <2> QED
    BY <1>1, <1>7, <2>1, Popped DEF Pending
<1> QED
  BY <1>2, <1>3, <1>4, <1>5, <1>6, <1>7, OthersIdle
     DEF Next, Copies, Transfers, RootThrows, Skip, Delete, DeleteDenied, DeleteThrows,
         Fetch, Fetched, AttemptFails, GiveUp, Add, UnzipThrows, Conclude,
         ReportFailure, Interrupt, Stop, Idle, Work, progress
-----------------------------------------------------------------------------
(***************************************************************************)
(* What a task has seen of the server, and its end.                        *)
(***************************************************************************)
\* The server holds what was listed or something newer, and only listed files
\* are taken; what is fetched, and what is then added, is not older.
SeenInv ==
  /\ \A f \in File : listed[f] <= ftp[f]
  /\ \A f \in File : Pending(f) => listed[f] > 0
  /\ pc \in Work => listed[current] > 0
  /\ pc = "send" => listed[current] <= fetching
  /\ pc = "add" => local[current].version >= listed[current] \/ current \in denied

LEMMA SeenStep == TypeInv /\ SeenInv /\ [Next]_vars => SeenInv'
<1> SUFFICES ASSUME TypeInv, SeenInv, [Next]_vars PROVE SeenInv'
  OBVIOUS
<1>1. /\ ftp \in [File -> 0..MaxVersion] /\ listed \in [File -> 0..MaxVersion]
      /\ local \in [File -> Local] /\ fetching \in 0..MaxVersion
      /\ (pc \in Work => current \in File)
  BY DEF TypeInv, TypeOK, AtFile, Work
<1>2. /\ ftp' \in [File -> 0..MaxVersion] /\ listed' \in [File -> 0..MaxVersion]
      /\ (pc' \in Work => current' \in File)
  BY TypeStep DEF TypeInv, TypeOK, AtFile, Work
<1>3. CASE Begin
  <2>1. /\ \A f \in File : listed'[f] = 0
        /\ stack' = <<>> /\ pc' = "next"
    BY <1>3 DEF Begin
  <2>2. \A f \in File : ~In(f, stack')
    BY <2>1 DEF In
  <2> QED
    BY <1>1, <1>2, <2>1, <2>2 DEF SeenInv, Pending, Work
<1>4. CASE ~Begin
  <2>1. \A f \in File : listed'[f] <= ftp'[f]
    <3> SUFFICES ASSUME NEW f \in File PROVE listed'[f] <= ftp'[f]
      OBVIOUS
    <3>1. listed'[f] <= ftp[f] /\ ftp[f] <= ftp'[f]
      BY <1>1, <1>4, ListingSteps, FtpGrows DEF SeenInv
    <3> QED
      BY <1>1, <1>2, <3>1
  <2>2. \A f \in File : In(f, stack') => listed'[f] > 0
    <3> SUFFICES ASSUME NEW f \in File, In(f, stack') PROVE listed'[f] > 0
      OBVIOUS
    <3>1. listed'[f] \in {listed[f], ftp[f]}
          /\ (Pending(f) \/ (listed'[f] = ftp[f] /\ ftp[f] > 0))
      BY <1>4, ListingSteps
    <3>2. CASE Pending(f)
      <4>1. listed[f] > 0 /\ ftp[f] >= listed[f]
        BY <3>2 DEF SeenInv
      <4> QED
        BY <1>1, <3>1, <4>1
    <3> QED
      BY <3>1, <3>2
  <2>3. ASSUME pc' \in Work PROVE listed'[current'] > 0
    <3>0. listed' = listed
      BY <1>2, <1>4, <2>3, ListingSteps
    <3>1. CASE TakeFile(current')
      <4>1. Pending(current')
        <5>1. stack \in Seq(Level) /\ stack # <<>> /\ current' \in Head(stack).left
          BY <3>1 DEF TakeFile, AtEntry, TypeInv, TypeOK
        <5> QED
          BY <5>1, Popped DEF Pending
      <4> QED
        BY <1>2, <2>3, <3>0, <4>1 DEF SeenInv
    <3>2. CASE pc \in Work /\ current' = current
      BY <3>0, <3>2 DEF SeenInv
    <3>3. \/ TakeFile(current')
          \/ Idle \/ Interrupt \/ Delete \/ AttemptFails \/ Fetch \/ Fetched \/ DeleteDenied
      BY <2>3, WorkSteps DEF Work
    <3> QED
      BY <2>3, <3>1, <3>2, <3>3
         DEF Idle, Interrupt, Delete, AttemptFails, Fetch, Fetched, DeleteDenied, Goto, Work
  <2>4. ASSUME pc' = "send" PROVE listed'[current'] <= fetching'
    <3>0. listed' = listed
      BY <1>2, <1>4, <2>4, ListingSteps DEF Work
    <3>1. CASE Fetch
      <4>1. current \in File /\ fetching' = ftp[current] /\ current' = current
        BY <1>1, <3>1 DEF Fetch, Goto, Work
      <4> QED
        BY <3>0, <4>1 DEF SeenInv
    <3>2. CASE Idle \/ Interrupt
      BY <2>4, <3>0, <3>2 DEF Idle, Interrupt, SeenInv, download
    <3> QED
      BY <2>4, <3>1, <3>2, WorkSteps
  <2>5. ASSUME pc' = "add"
        PROVE  local'[current'].version >= listed'[current'] \/ current' \in denied'
    <3>0. listed' = listed
      BY <1>2, <1>4, <2>5, ListingSteps DEF Work
    <3>1. CASE Fetched
      <4>1. /\ pc = "send" /\ current \in File /\ current' = current
            /\ \E v : local' = [local EXCEPT ![current] = [version |-> fetching,
                                                            covers |-> v]]
        BY <1>1, <3>1 DEF Fetched, Goto, Work
      <4>2. local'[current'].version = fetching /\ listed[current] <= fetching
        BY <1>1, <4>1 DEF SeenInv
      <4> QED
        BY <1>1, <3>0, <4>1, <4>2
    <3>2. CASE DeleteDenied
      BY <3>2 DEF DeleteDenied
    <3>3. CASE Idle \/ Interrupt
      BY <1>1, <2>5, <3>0, <3>3 DEF Idle, Interrupt, SeenInv, Work, disk, history
    <3> QED
      BY <2>5, <3>1, <3>2, <3>3, WorkSteps
  <2> QED
    BY <2>1, <2>2, <2>3, <2>4, <2>5 DEF SeenInv, Pending
<1> QED
  BY <1>3, <1>4

\* What the report of a task says of its end.
EndInv ==
  /\ pc # "over" => report = "none"
  /\ report = "Interrupt" => isInterrupt
  /\ report \in {"Success", "Warning"} => stack = <<>> /\ ~isInterrupt
  /\ report = "Success" => failed = {}

LEMMA EndStep == TypeInv /\ EndInv /\ [Next]_vars => EndInv'
<1> SUFFICES ASSUME TypeInv, EndInv, [Next]_vars PROVE EndInv'
  OBVIOUS
<1>1. CASE Conclude \/ ReportFailure \/ Stop \/ Begin
  BY <1>1 DEF EndInv, Conclude, ReportFailure, Stop, Begin, Status, Goto, progress, files
<1>2. CASE Idle
  BY <1>2 DEF EndInv, Idle
<1>3. CASE Interrupt
  BY <1>3 DEF EndInv, Interrupt
<1>4. CASE pc # "over" /\ pc' # "over" /\ report' = report
  BY <1>4 DEF EndInv
<1>5. CASE NextRoot \/ RootThrows \/ Leave \/ (\E d \in Dir : EnterDirectory(d))
           \/ (\E f \in File : TakeFile(f))
  BY <1>4, <1>5 DEF NextRoot, RootThrows, Leave, EnterDirectory, TakeFile, AtEntry, Goto
<1>6. CASE Transfers
  BY <1>4, <1>6 DEF Transfers, Skip, Delete, DeleteDenied, DeleteThrows, Fetch, Fetched,
                    AttemptFails, GiveUp, GiveUpThrows, Add, UnzipThrows, Goto
<1> QED
  BY <1>1, <1>2, <1>3, <1>5, <1>6, OthersIdle DEF Next, Copies
-----------------------------------------------------------------------------
(***************************************************************************)
(* What was copied, and what was lost.                                     *)
(***************************************************************************)
Working(f) == current = f /\ pc \in Work

\* The task is through with f: it has the version listed, or is known not to.
Settled(f) ==
  \/ local[f].version >= listed[f]
  \/ f \in denied \/ Noted(f)
  \/ /\ f \in SameSize /\ local[f].version > 0
     /\ local[f].version < local[f].covers

Stopped == pc = "over" /\ report = "none"

\* A file that was listed is still to come, or worked on, or settled, unless
\* the task was cut short.
Accounted(f) ==
  \/ Pending(f) \/ Working(f) \/ Settled(f)
  \/ isInterrupt \/ Stopped \/ pc = "report" \/ report = "Fail"

CopyInv == \A f \in File : listed[f] > 0 => Accounted(f)

\* Where a task goes on that is cut short.
LEMMA CutShort ==
  ASSUME TypeInv, EndInv, [Next]_vars, ~Begin,
         isInterrupt \/ Stopped \/ pc = "report" \/ report = "Fail"
  PROVE  isInterrupt' \/ Stopped' \/ pc' = "report" \/ report' = "Fail"
<1>1. CASE isInterrupt
  <2>1. isInterrupt'
    BY <1>1 DEF Next, Copies, Transfers, NextRoot, RootThrows, EnterDirectory, TakeFile,
         Leave, Skip, Delete, DeleteDenied, DeleteThrows, Fetch, Fetched, AttemptFails,
         GiveUp, GiveUpThrows, Add, UnzipThrows, Conclude, ReportFailure, Interrupt, Stop, ChangeFtp, vars
  <2> QED
    BY <2>1
<1>2. CASE pc = "over"
  <2>1. CASE Idle
    BY <1>1, <1>2, <2>1 DEF Idle, Stopped
  <2>2. Idle
    BY <1>2, OthersIdle
       DEF Next, Copies, Transfers, NextRoot, RootThrows, EnterDirectory, TakeFile,
         AtEntry, Leave, Skip, Delete, DeleteDenied, DeleteThrows, Fetch, Fetched,
         AttemptFails, GiveUp, GiveUpThrows, Add, UnzipThrows, Conclude, ReportFailure, Interrupt, Stop, Goto
  <2> QED
    BY <2>1, <2>2
<1>3. CASE pc = "report"
  <2>1. CASE ReportFailure
    BY <2>1 DEF ReportFailure, Stopped
  <2>2. CASE Stop
    BY <2>2 DEF Stop, Stopped
  <2>3. CASE Idle \/ Interrupt
    BY <1>3, <2>3 DEF Idle, Interrupt
  <2> QED
    BY <1>3, <2>1, <2>2, <2>3, OthersIdle
       DEF Next, Copies, Transfers, NextRoot, RootThrows, EnterDirectory, TakeFile,
         AtEntry, Leave, Skip, Delete, DeleteDenied, DeleteThrows, Fetch, Fetched,
         AttemptFails, GiveUp, GiveUpThrows, Add, UnzipThrows, Conclude, Goto
<1> QED
  BY <1>1, <1>2, <1>3 DEF Stopped, EndInv

\* The transfer of a file settles it, or goes on.
LEMMA WorkSettles ==
  ASSUME TypeInv, SeenInv, [Next]_vars, NEW f \in File, listed[f] > 0, Working(f)
  PROVE  \/ Working(f)'
         \/ UNCHANGED <<local, listed, denied>> /\ failed \subseteq failed' /\ Settled(f)
         \/ Noted(f)' \/ pc' = "report" \/ Stopped'
<1> USE DEF Working, Work, Goto, Stopped, Noted
<1>1. CASE Skip
  <2>1. Settled(f)
    <3>1. /\ local[f].version > 0 /\ listed[f] <= local[f].covers
          /\ f \in SameSize \/ listed[f] = local[f].version
      BY <1>1 DEF Skip, UpToDate
    <3>2. /\ local[f].version \in Int /\ local[f].covers \in Int /\ listed[f] \in Int
      BY DEF TypeInv, TypeOK, Local
    <3> QED
      BY <3>1, <3>2 DEF Settled
  <2> QED
    BY <1>1, <2>1 DEF Skip, disk, progress, files, history
<1>2. CASE Delete \/ DeleteDenied \/ Fetch \/ Fetched \/ AttemptFails
  BY <1>2 DEF Delete, DeleteDenied, Fetch, Fetched, AttemptFails
<1>3. CASE DeleteThrows \/ GiveUp \/ UnzipThrows
  BY <1>3 DEF DeleteThrows, GiveUp, UnzipThrows
<1>7. CASE GiveUpThrows
  <2>1. /\ stack \in Seq(Level) /\ stack # <<>> /\ f \in entries[Head(stack).dir]
        /\ Head(stack) \in Level
    BY <1>7, Popped DEF GiveUpThrows, TypeInv, TypeOK, AtFile
  <2>2. Head(stack).dir \in Dir
    BY <2>1 DEF Level
  <2> QED
    BY <1>7, <2>1, <2>2 DEF GiveUpThrows
<1>4. CASE Add
  <2>1. pc = "add" /\ UNCHANGED <<local, listed, denied, failed>>
    BY <1>4 DEF Add, progress, history
  <2>2. Settled(f)
    BY <2>1 DEF SeenInv, Settled
  <2> QED
    BY <2>1, <2>2
<1>5. CASE Stop
  BY <1>5 DEF Stop
<1>6. CASE Idle \/ Interrupt
  BY <1>6 DEF Idle, Interrupt
<1> QED
  BY <1>1, <1>2, <1>3, <1>4, <1>5, <1>6, <1>7, OthersIdle
     DEF Next, Copies, Transfers, NextRoot, RootThrows, EnterDirectory, TakeFile, AtEntry,
         Leave, Conclude, ReportFailure, Begin

\* Within a task nothing is taken off the record.
LEMMA RecordGrows ==
  ASSUME [Next]_vars, ~Begin
  PROVE  /\ failed \subseteq failed' /\ denied \subseteq denied' /\ had' = had
<1>1. CASE EnterDirectory(current) \/ UNCHANGED <<failed, denied, had>>
  BY <1>1 DEF EnterDirectory, history
<1> QED
  BY <1>1
     DEF Next, Copies, Transfers, NextRoot, RootThrows, EnterDirectory, TakeFile, Leave,
         Skip, Delete, DeleteDenied, DeleteThrows, Fetch, Fetched, AttemptFails, GiveUp, GiveUpThrows,
         Add, UnzipThrows, Conclude, ReportFailure, Interrupt, Stop, ChangeFtp, vars,
         files, history

LEMMA CopyStep == TypeInv /\ SeenInv /\ EndInv /\ CopyInv /\ [Next]_vars => CopyInv'
<1> SUFFICES ASSUME TypeInv, SeenInv, EndInv, CopyInv, [Next]_vars,
                    NEW f \in File, listed'[f] > 0
             PROVE  Accounted(f)'
  BY DEF CopyInv
<1>1. ~Begin
  BY DEF Begin
<1>2. CASE listed'[f] # listed[f]
  <2>1. In(f, stack')
    BY <1>1, <1>2, ListingSteps
  <2> QED
    BY <2>1 DEF Accounted, Pending
<1>3. CASE listed'[f] = listed[f]
  <2>1. Accounted(f)
    BY <1>3 DEF CopyInv
  <2>2. CASE Pending(f)
    <3>1. CASE In(f, stack')
      BY <3>1 DEF Accounted, Pending
    <3>2. CASE isInterrupt
      BY <1>1, <3>2, CutShort DEF Accounted
    <3>3. CASE TakeFile(f)
      BY <3>3 DEF TakeFile, Accounted, Working, Work
    <3>4. CASE GiveUpThrows /\ f \in Head(stack).left
      <4>1. stack \in Seq(Level) /\ stack # <<>>
        BY <3>4 DEF GiveUpThrows, TypeInv, TypeOK, AtFile
      <4>2. Head(stack).dir \in Dir /\ f \in entries[Head(stack).dir]
        BY <3>4, <4>1, Popped DEF Level
      <4>3. pc' = "report" \/ Head(stack).dir \in failed'
        BY <3>4 DEF GiveUpThrows
      <4> QED
        BY <4>2, <4>3 DEF Accounted, Settled, Noted
    <3>5. \/ In(f, stack') \/ isInterrupt \/ TakeFile(f)
          \/ (GiveUpThrows /\ f \in Head(stack).left)
      BY <1>1, <2>2, ListingSteps
    <3> QED
      BY <3>1, <3>2, <3>3, <3>4, <3>5
  <2>3. CASE Working(f)
    <3>1. failed \subseteq failed' /\ Noted(f) => Noted(f)'
      BY DEF Noted
    <3>2. CASE Working(f)' \/ Noted(f)' \/ pc' = "report" \/ Stopped'
      BY <3>2 DEF Accounted, Settled
    <3>3. CASE /\ UNCHANGED <<local, listed, denied>> /\ failed \subseteq failed'
               /\ Settled(f)
      BY <3>1, <3>3 DEF Accounted, Settled
    <3> QED
      BY <1>3, <2>3, <3>2, <3>3, WorkSettles
  <2>4. CASE Settled(f) /\ ~Working(f)
    <3>1. \/ local'[f] = local[f]
          \/ /\ local'[f].version = local[f].version
             /\ local[f].covers \in Int /\ local'[f].covers = local[f].covers + 1
      BY <2>4, LocalChanges
         DEF Working, Work, Goto, Delete, AttemptFails, GiveUp, Fetch, Fetched
    <3>2. local[f].version \in Int /\ local[f].covers \in Int
      BY DEF TypeInv, TypeOK, Local
    <3>3. Noted(f) => Noted(f)'
      BY <1>1, RecordGrows DEF Noted
    <3> QED
      BY <1>1, <1>3, <2>4, <3>1, <3>2, <3>3, RecordGrows DEF Accounted, Settled
  <2>5. CASE isInterrupt \/ Stopped \/ pc = "report" \/ report = "Fail"
    BY <1>1, <2>5, CutShort DEF Accounted
  <2> QED
    BY <2>1, <2>2, <2>3, <2>4, <2>5 DEF Accounted
<1> QED
  BY <1>2, <1>3

\* A file that was there is away only while it is fetched anew, or on record.
LossInv ==
  \A f \in had : local[f].version = 0 =>
    \/ f \in failed \/ Stopped
    \/ (current = f /\ pc = "fetch")

LEMMA LossStep == TypeInv /\ SeenInv /\ LossInv /\ [Next]_vars => LossInv'
<1> SUFFICES ASSUME TypeInv, SeenInv, LossInv, [Next]_vars
             PROVE  LossInv'
  OBVIOUS
<1>1. CASE Begin
  BY <1>1 DEF Begin, LossInv, disk
<1>2. CASE ~Begin
  <2> SUFFICES ASSUME NEW f \in had, local'[f].version = 0
               PROVE  \/ f \in failed' \/ Stopped'
                      \/ (current' = f /\ pc' = "fetch")
    BY <1>2, RecordGrows DEF LossInv
  <2>1. f \in File
    BY DEF TypeInv, TypeOK
  <2>2. CASE current = f /\ (Delete \/ AttemptFails \/ GiveUp)
    BY <2>2 DEF Delete, AttemptFails, GiveUp, Goto
  <2>3. CASE Fetched /\ current = f
    <3>1. local'[f].version = fetching /\ listed[f] <= fetching /\ listed[f] > 0
      BY <2>1, <2>3 DEF Fetched, Goto, SeenInv, Work, TypeInv, TypeOK
    <3>2. listed[f] \in Int /\ fetching \in Int
      BY <2>1 DEF TypeInv, TypeOK
    <3> QED
      BY <3>1, <3>2
  <2>4. CASE local'[f].version = local[f].version
    <3>1. CASE f \in failed
      BY <1>2, <3>1, RecordGrows
    <3>2. CASE Stopped
      <4>1. Idle
        BY <1>2, <3>2, OthersIdle
           DEF Stopped, Next, Copies, Transfers, NextRoot, RootThrows, EnterDirectory,
             TakeFile, AtEntry, Leave, Skip, Delete, DeleteDenied, DeleteThrows, Fetch,
             Fetched, AttemptFails, GiveUp, GiveUpThrows, Add, UnzipThrows, Conclude, ReportFailure,
             Interrupt, Stop, Goto
      <4> QED
        BY <3>2, <4>1 DEF Idle, Stopped
    <3>3. CASE current = f /\ pc = "fetch"
      <4>1. CASE Idle \/ Interrupt
        BY <3>3, <4>1 DEF Idle, Interrupt, Goto
      <4>3. CASE Fetch
        BY <2>1, <2>4, <3>3, <4>3 DEF Fetch, TypeInv, TypeOK
      <4>2. CASE Stop
        BY <4>2 DEF Stop, Stopped
      <4> QED
        BY <1>2, <2>2, <2>3, <3>3, <4>1, <4>2, <4>3, OthersIdle
           DEF Next, Copies, Transfers, NextRoot, RootThrows, EnterDirectory, TakeFile,
             AtEntry, Leave, Skip, DeleteDenied, DeleteThrows, Fetched, GiveUp,
             GiveUpThrows, Add, UnzipThrows, Conclude, ReportFailure, Goto
    <3> QED
      BY <2>4, <3>1, <3>2, <3>3 DEF LossInv
  <2>5. CASE local'[f].version = -1
    BY <2>5
  <2> QED
    BY <2>1, <2>2, <2>3, <2>4, <2>5, LocalChanges
<1> QED
  BY <1>1, <1>2

CopyInvariant == SeenInv /\ EndInv /\ CopyInv /\ LossInv

LEMMA CopiesAccounted == Spec => []CopyInvariant
<1>1. Init => CopyInvariant
  <2> SUFFICES ASSUME Init PROVE CopyInvariant
    OBVIOUS
  <2>1. \A f : ~In(f, stack)
    <3>1. stack = <<>>
      BY DEF Init
    <3> QED
      BY <3>1 DEF In
  <2>2. \A f \in File : listed[f] = 0 /\ ftp[f] \in {0, 1}
    BY DEF Init
  <2>3. SeenInv /\ CopyInv
    BY <2>1, <2>2 DEF Init, SeenInv, CopyInv, Pending, Work
  <2>4. EndInv /\ LossInv
    BY DEF Init, EndInv, LossInv
  <2> QED
    BY <2>3, <2>4 DEF CopyInvariant
<1>2. TypeInv /\ CopyInvariant /\ [Next]_vars => CopyInvariant'
  BY SeenStep, EndStep, CopyStep, LossStep DEF CopyInvariant
<1> QED
  BY <1>1, <1>2, TypesKept, PTL DEF Spec

\* A task reported as a success has, of every file it saw in a listing, that
\* version or a newer one; the exceptions are a file it was not allowed to
\* replace, and one of the same size that came while the older one was fetched,
\* or so soon after it that its date, given to the minute, is not later
\* (FtpKit.cs:113, FtpKit.cs:155, ExtDirectoriesStrategy.cs:108-119).
THEOREM SuccessIsCopied == Spec => []SuccessCopied
<1>1. TypeInv /\ CopyInvariant => SuccessCopied
  <2> SUFFICES ASSUME TypeInv, CopyInvariant, pc = "over", report = "Success",
                      NEW f \in File, listed[f] > 0
               PROVE  \/ local[f].version >= listed[f] \/ f \in denied
                      \/ (f \in SameSize /\ local[f].version < local[f].covers)
    BY DEF SuccessCopied
  <2>1. stack = <<>> /\ ~isInterrupt /\ failed = {}
    BY DEF CopyInvariant, EndInv
  <2>2. ~Pending(f) /\ ~Working(f)
    BY <2>1 DEF Pending, In, Working, Work
  <2> QED
    BY <2>1, <2>2 DEF CopyInvariant, CopyInv, Accounted, Settled, Noted, Stopped
<1> QED
  BY <1>1, CopiesAccounted, TypesKept, PTL

\* A task that loses a file it deletes to fetch it anew marks it as not copied,
\* also if it is interrupted or fails; where it ends with a part of a file, it
\* has marked the file or its directory, or was not allowed to replace it, or
\* says that it was interrupted or failed (ExtDirectoriesStrategy.cs:144-156).
THEOREM LossIsNoted == Spec => []LossNoted
<1>1. TypeInv /\ CopyInvariant => LossNoted
  <2> SUFFICES ASSUME TypeInv, CopyInvariant, pc = "over", report # "none"
               PROVE  /\ \A f \in had : local[f].version = 0 => f \in failed
                      /\ \A f \in File : listed[f] > 0 /\ local[f].version < 0 =>
                           Noted(f) \/ f \in denied \/ report \in {"Interrupt", "Fail"}
    BY DEF LossNoted
  <2>1. \A f \in had : local[f].version = 0 => f \in failed
    BY DEF CopyInvariant, LossInv, Stopped
  <2>2. ASSUME NEW f \in File, listed[f] > 0, local[f].version < 0,
               report \notin {"Interrupt", "Fail"}
        PROVE  Noted(f) \/ f \in denied
    <3>0. ~isInterrupt
      BY <2>2 DEF TypeInv, TypeOK, CopyInvariant, EndInv
    <3>1. report \in {"Success", "Warning"}
      BY <2>2 DEF TypeInv, TypeOK, CopyInvariant, EndInv
    <3>2. ~Pending(f) /\ ~Working(f)
      BY <3>1 DEF CopyInvariant, EndInv, Pending, In, Working, Work
    <3>3. Settled(f)
      BY <2>2, <3>0, <3>2 DEF CopyInvariant, CopyInv, Accounted, Stopped
    <3>4. listed[f] \in Int /\ local[f].version \in Int
      BY DEF TypeInv, TypeOK, Local
    <3> QED
      BY <2>2, <3>3, <3>4 DEF Settled
  <2> QED
    BY <2>1, <2>2
<1> QED
  BY <1>1, CopiesAccounted, TypesKept, PTL
=============================================================================
