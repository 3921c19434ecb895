---------------------------- MODULE MCRemoteQueue ----------------------------
(***************************************************************************)
(* Instances of RemoteQueue for TLC: up to three commands, two pools.      *)
(***************************************************************************)
EXTENDS RemoteQueue

CONSTANTS t1, t2, t3, p1, p2, b1, b2

\* Every command has a guid of its own, or t3 is a second delivery of t1.
GuidDistinct == Restrict((t1 :> "g1") @@ (t2 :> "g2") @@ (t3 :> "g3"), Task)
GuidRetried  == Restrict((t1 :> "g1") @@ (t2 :> "g2") @@ (t3 :> "g1"), Task)

BaseOf     == Restrict((t1 :> b1) @@ (t2 :> b2) @@ (t3 :> b2), Task)
\* First-fit passes over t2, or all commands wait for the same pool.
PoolsMixed  == Restrict((t1 :> {p1}) @@ (t2 :> {p1, p2}) @@ (t3 :> {p2}), Task)
PoolsShared == Restrict((t1 :> {p1}) @@ (t2 :> {p1, p2}) @@ (t3 :> {p1}), Task)

OneThread  == [bases |-> {b1, b2}, maxThreads |-> 1]
NoBase2    == [bases |-> {b1}, maxThreads |-> 1]

AnswerStable   == {OneThread}
AnswerChanging == {OneThread, NoBase2, NoConfig}
=============================================================================
