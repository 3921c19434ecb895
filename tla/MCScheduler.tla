---------------------------- MODULE MCScheduler ----------------------------
(***************************************************************************)
(* Instance of Scheduler for TLC: two components, settings with the same  *)
(* time for both, with one of them only, and with an address that has no   *)
(* port.                                                                   *)
(***************************************************************************)
EXTENDS Scheduler

CONSTANTS exchange, ext, t1, a1, a2, a3

Components == <<exchange, ext>>

Settings == {[rows |-> {<<exchange, t1>>, <<ext, t1>>}, address |-> a1],
             [rows |-> {<<exchange, t1>>}, address |-> a2],
             [rows |-> {}, address |-> a3]}

=============================================================================
