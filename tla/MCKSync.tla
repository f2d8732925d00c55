------------------------------ MODULE MCKSync ------------------------------
(***************************************************************************)
(* Three kernel threads and a semaphore like the io_sema of drivers/ide.c, *)
(* which starts at 0 (ide.c:560).                                          *)
(***************************************************************************)
EXTENDS KSync

CONSTANTS k1, k2, k3

MCThreads == <<k1, k2, k3>>
=============================================================================
