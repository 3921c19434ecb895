-------------------------- MODULE MCExtDirectories --------------------------
(***************************************************************************)
(* Instance of ExtDirectories for TLC: two directories to copy, the first  *)
(* with a file and a directory, in which there is a pack; the second is     *)
(* empty.                                                                  *)
(***************************************************************************)
EXTENDS ExtDirectories

CONSTANTS f, pack, root, sub, other

Roots   == <<root, other>>
Entries == [d \in Dir |-> CASE d = root  -> {f, sub}
                            [] d = sub   -> {pack}
                            [] d = other -> {}]
=============================================================================
