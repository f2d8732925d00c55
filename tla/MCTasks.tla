------------------------------ MODULE MCTasks ------------------------------
(***************************************************************************)
(* One kernel thread and three user tasks, five pids: the pids wrap around *)
(* and are used again.                                                     *)
(***************************************************************************)
EXTENDS Tasks, TLC

CONSTANTS k1, u1, u2, u3

MCKThreads == <<k1>>
MCUsers == {u1, u2, u3}
Symmetry == Permutations(MCUsers)
=============================================================================
