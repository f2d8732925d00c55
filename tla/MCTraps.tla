------------------------------ MODULE MCTraps ------------------------------
(***************************************************************************)
(* Instance of Traps: two user tasks, two kernel threads; the clock, on    *)
(* the master controller, and the first IDE channel, on the slave; a       *)
(* division by zero and a protection fault.                                *)
(***************************************************************************)
EXTENDS Traps

MCSources == {IRQ_TIMER, IRQ_PRIMARY_IDE}
MCFaults  == {0, 13}
=============================================================================
