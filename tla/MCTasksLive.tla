---------------------------- MODULE MCTasksLive ----------------------------
(***************************************************************************)
(* Two kernel threads, which sleep, compute or end, and the init task;     *)
(* there is no room for another task, so every later fork fails.           *)
(***************************************************************************)
EXTENDS Tasks

CONSTANTS k1, k2

MCKThreads == <<k1, k2>>
=============================================================================
