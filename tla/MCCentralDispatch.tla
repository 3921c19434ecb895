-------------------------- MODULE MCCentralDispatch --------------------------
(***************************************************************************)
(* Instances of CentralDispatch for TLC: up to three commands of one lane, *)
(* one caller or two.                                                      *)
(***************************************************************************)
EXTENDS CentralDispatch, TLC

CONSTANTS g1, g2, g3, l1, c1, c2

OneLane  == [g \in Guid |-> l1]

\* Guids of one lane are interchangeable.
Symmetry == Permutations(Caller) \cup Permutations(Guid)
=============================================================================
