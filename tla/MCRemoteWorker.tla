--------------------------- MODULE MCRemoteWorker ---------------------------
(***************************************************************************)
(* Instances of RemoteWorker for TLC: two commands on one pool, and a      *)
(* configuration the central service changes twice.                        *)
(***************************************************************************)
EXTENDS RemoteWorker

CONSTANTS t1, t2, t3, p1, b1, b2

GuidOf  == Restrict((t1 :> "g1") @@ (t2 :> "g2") @@ (t3 :> "g3"), Task)
BaseOf  == Restrict((t1 :> b1) @@ (t2 :> b2) @@ (t3 :> b1), Task)
PoolsOf == [t \in Task |-> {p1}]

AllBases == [bases |-> {b1, b2}, maxThreads |-> 1]
NoBase2  == [bases |-> {b1}, maxThreads |-> 1]

AnswerAll == {AllBases, NoBase2, NoConfig}

\* The second configuration loses a base, the third has it again.
ConfAt == <<AllBases, NoBase2, AllBases>>

\* A new version at the third date.
VersionLate == <<"v1", "v1", "v2">>
=============================================================================
