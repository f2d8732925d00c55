----------------------------- MODULE MCRamDisk -----------------------------
(***************************************************************************)
(* A client that creates and destroys disks and a thread that reads, in    *)
(* either role, with memory that is used again.                            *)
(***************************************************************************)
EXTENDS RamDisk, TLC

Sym == Permutations(Thread) \cup Permutations(Instance) \cup Permutations(Page)
=============================================================================
