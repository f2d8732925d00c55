------------------------------ MODULE IDEProbe ------------------------------
(***************************************************************************)
(* The boot-time half of drivers/ide.c, in front of the requests of        *)
(* IDE.tla: init_ide_devices looks for a device at both positions of a     *)
(* controller (identify_ide_device) and registers the disks it finds.      *)
(*                                                                         *)
(* What hangs on the controller is external.  With no device at position 1 *)
(* the one at position 0 may answer for it, with a status of 0.  Devices   *)
(* may be slow, or report an error to any command; what the probe leaves   *)
(* in the status register is where the requests start.                     *)
(***************************************************************************)
EXTENDS IDE

CONSTANTS
    NULL,
    Cabling     \* bound: what there may be at the positions, or NULL when
                \* there is no controller

Position == {0, 1}

\* A position holds a disk, a CD drive or nothing.
ASSUME CablingAssumption ==
    Cabling \subseteq [Position -> {"ata", "atapi", "none"}] \cup {NULL}

VARIABLES
    attached,           \* one of Cabling
    at, j,              \* the step of the probe, and the position
    SRST,               \* the reset bit of the control register
    present, atapi,     \* of the devices
    info,               \* whose answer to IDENTIFY a device structure holds
    registered,         \* the minor numbers registered
    alone               \* history: no two threads have used the controller at once

seen  == <<present, atapi, info, registered>>
probe == <<attached, at, j, SRST, seen>>
rest  == <<mutex, io_sema, woken, pc, req, done, alone>>

ProbeInit ==
    /\ Init
    /\ attached \in Cabling
    /\ at = "sector_count" /\ j = 0
    /\ SRST = FALSE
    /\ present = {} /\ atapi = {} /\ registered = {}
    /\ info = [p \in Position |-> NULL]
    /\ alone = TRUE

\* Leave identify_ide_device: on to the other position, or to the interrupts.
Continue ==
    IF j = 0 THEN j' = 1 /\ at' = "sector_count" ELSE j' = j /\ at' = "irq"

Rest == [BSY |-> FALSE, DRQ |-> FALSE, ERR |-> FALSE, cmd |-> NoRequest,
         left |-> 0]
-----------------------------------------------------------------------------
\* A value written to the sector count sticks if there is a controller.
SectorCount ==
    /\ at = "sector_count"
    /\ present' = present \ {j}
    /\ IF attached = NULL THEN Continue ELSE at' = "reset" /\ j' = j
    /\ UNCHANGED <<rest, device, irq, attached, SRST, atapi, info, registered>>

\* reset_controller; nobody looks at what it returns.  The first wait is one
\* look at BSY: when it comes too early the reset bit stays.  Then the devices
\* get ready, or stay busy beyond the time that is given to them.
reset_controller ==
    /\ at = "reset"
    /\ \E early, slow \in BOOLEAN :
          /\ SRST' = early
          /\ device' = [Rest EXCEPT !.BSY = early \/ slow]
    /\ irq' = FALSE
    /\ at' = "select"
    /\ UNCHANGED <<rest, attached, j, seen>>

\* Slow devices are ready in the end, unless the reset bit holds them.
ResetEnds ==
    /\ device.BSY /\ device.cmd = NoRequest /\ ~SRST /\ at # "reset"
    /\ device' = Rest
    /\ UNCHANGED <<rest, irq, probe>>

ProbeSelect ==
    /\ at = "select"
    /\ IF select_device THEN at' = "signature" /\ j' = j ELSE Continue
    /\ UNCHANGED <<rest, device, irq, attached, SRST, seen>>

\* The signature in the registers when position p is selected.
Signatures(p) ==
    IF attached[p] # "none" THEN {attached[p]}
    ELSE {"none"} \cup {s \in {attached[0]} : s = "atapi"}

Signature ==
    /\ at = "signature"
    /\ \E s \in Signatures(j) :
          IF s = "none"
          THEN Continue /\ UNCHANGED <<present, atapi, device>>
          ELSE /\ present' = present \cup {j}
               /\ atapi' = IF s = "atapi" THEN atapi \cup {j} ELSE atapi
               /\ device' = [Rest EXCEPT
                                !.BSY = attached[j] # "none",
                                !.cmd = [NoRequest EXCEPT !.type = "identify"]]
               /\ at' = "wait" /\ j' = j
    /\ UNCHANGED <<rest, irq, attached, SRST, info, registered>>

\* The device has the data ready, or reports an error.
IdentifyEnds ==
    /\ device.BSY /\ device.cmd.type = "identify" /\ ~irq
    /\ \E error \in BOOLEAN :
          device' = [device EXCEPT !.BSY = FALSE, !.ERR = error, !.DRQ = ~error]
    /\ irq' = TRUE
    /\ UNCHANGED <<rest, probe>>

\* Mutant: the answer of wait_for_controller is not looked at.
Identified_Always(ok) == TRUE

Identified(ok) == ok

\* Waiting for the answer.  A look at the status drops the interrupt.
Identify ==
    /\ at = "wait"
    /\ \E ok \in wait_for_controller(~device.BSY /\ device.DRQ /\ ~device.ERR) :
          IF Identified(ok)
          THEN at' = "collect" /\ UNCHANGED <<j, present>>
          ELSE Continue /\ present' = present \ {j}
    /\ irq' = FALSE
    /\ UNCHANGED <<rest, device, attached, SRST, atapi, info, registered>>

\* Collect the data; a disk is registered with the capacity they hold.
Collect ==
    /\ at = "collect"
    /\ device' = [device EXCEPT !.DRQ = FALSE]
    /\ info' = [info EXCEPT ![j] = IF device.DRQ THEN attached[j] ELSE NULL]
    /\ registered' = IF j \in atapi THEN registered ELSE registered \cup {j}
    /\ Continue
    /\ UNCHANGED <<rest, irq, attached, SRST, present, atapi>>

\* The handler is set and the line enabled.
EnableIrq ==
    /\ at = "irq"
    /\ at' = "done"
    /\ UNCHANGED <<rest, device, irq, attached, j, SRST, seen>>

Probe ==
    \/ SectorCount \/ reset_controller \/ ProbeSelect \/ Signature \/ Identify
    \/ Collect \/ EnableIrq
-----------------------------------------------------------------------------
\* Requests come from the kernel threads, for disks that are present.
Requests ==
    /\ at = "done" /\ registered # {}
    /\ Next
    /\ alone' = (alone /\ MutexExcludes')
    /\ UNCHANGED probe

NothingFound == at = "done" /\ registered = {} /\ UNCHANGED <<vars, probe, alone>>

ProbeNext ==
    Probe \/ ResetEnds \/ IdentifyEnds \/ Requests \/ NothingFound

ProbeSpec == ProbeInit /\ [][ProbeNext]_<<vars, probe, alone>>

\* A minor number is registered only for a disk that is there, and its size comes
\* from that disk's own answer: neither a device that answers for an absent one
\* nor one that fails, or is late, gets through identify_ide_device.
DisksAreReal ==
    \A p \in registered : attached # NULL /\ attached[p] = "ata" /\ info[p] = "ata"

\* For as long as one thread at a time uses the controller, what
\* ide_read_write_blocks copies first from the data register is the block it was
\* asked for, and the device holds it ready: also after requests that failed, timed
\* out, or left blocks behind, when the device answers late and io_sema counts
\* interrupts nobody waited for.
ReadFresh == alone => FirstBlockReady

\* What the probe leaves behind lets the driver work: no position is left with
\* data nobody collects, which select_device would refuse for ever.
ControllerUsable == at = "done" /\ req = [t \in Thread |-> NoRequest] => ~device.DRQ
=============================================================================
