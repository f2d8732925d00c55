---------------------------- MODULE MCTaskMemory ----------------------------
(***************************************************************************)
(* Nine pages, one kernel thread, three user tasks of one to three pages:  *)
(* memory runs out in the middle of a fork.  In a second initial state     *)
(* there is nothing left for the tasks.  An unset variable holds NULL or   *)
(* the address of a page; the search ends where a block has been given     *)
(* back with it, and nothing more is said of the memory.                   *)
(***************************************************************************)
EXTENDS TaskMemory, TLC

MCPages  == 0..(NrPages - 1)
MCUsable == 1..(NrPages - 1)
MCUntil  == ~misfreed               \* bound
Symmetry == Permutations(Users \ {init})
=============================================================================
