------------------------------- MODULE MCIDE -------------------------------
(***************************************************************************)
(* A controller with two disks, a CD drive or nothing; two threads make    *)
(* requests of one or two blocks for ever to devices that fail and answer  *)
(* late; wait queues that start empty or with a stray object.              *)
(***************************************************************************)
EXTENDS IDEProbe

MCLeftover == {<< >>, <<stray>>}

Cables(a, b) == [p \in Position |-> IF p = 0 THEN a ELSE b]
MCCabling == {Cables("ata", "ata"), Cables("atapi", "none"), NULL}
=============================================================================
