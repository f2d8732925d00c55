-------------------------------- MODULE IDE --------------------------------
(***************************************************************************)
(* Requests to one IDE controller: ide_read_write_blocks of drivers/ide.c, *)
(* its interrupt handler, and the mutex and the semaphore (kernel/ksync.c) *)
(* they meet on.                                                           *)
(*                                                                         *)
(* The threads are kernel threads and can be preempted between any two     *)
(* steps, or never run again (what sleeping in ksema_down does to the task *)
(* list is in KSync.tla); ksema_down and ksema_up run with interrupts off. *)
(* The wait queues are sequences.  ksema_init leaves their heads as they   *)
(* are in the object it gets, which is not filled with zeros: a queue      *)
(* starts with the free objects that word leads to, and ksema_up takes     *)
(* these first.                                                            *)
(*                                                                         *)
(* The device is external: it answers a command as the PIO protocols the   *)
(* code cites say, block after block, or reports an error, or is too slow  *)
(* for wait_for_controller.                                                *)
(***************************************************************************)
EXTENDS Naturals, Sequences, FiniteSets

CONSTANTS
    Thread,
    stray,              \* an object in a wait queue that is no thread
    Leftover,           \* the queues that ksema_init may leave behind
    capacity,           \* of the device, in blocks
    MAX_NBLOCKS,
    MaxStale            \* bound: units of io_sema no request has consumed,
                        \* before an error or a request of several blocks

ASSUME IDEAssumption ==
    /\ stray \notin Thread /\ IsFiniteSet(Thread)
    /\ Leftover \subseteq Seq({stray})
    /\ {capacity, MAX_NBLOCKS, MaxStale} \subseteq Nat /\ MAX_NBLOCKS > 0

Word == 8               \* bound: an unsigned int holds 0..(Word - 1)

VARIABLES
    mutex, io_sema,     \* of the controller: a value and a wait queue
    woken,              \* threads in ksema_down that have been made runnable
    pc, req,            \* of the threads
    done,               \* the blocks a thread has copied
    device,             \* BSY, DRQ and ERR, the command, and the blocks of it
                        \* that have not gone through the data register
    irq                 \* the interrupt line

vars == <<mutex, io_sema, woken, pc, req, done, device, irq>>

\* What is asked for, with the number of blocks cut to MAX_NBLOCKS.
Request ==
    {r \in [type : {"read", "write"}, block : 0..capacity, nblocks : 1..MAX_NBLOCKS] :
        r.block + r.nblocks <= capacity}
NoRequest == [type |-> "none", block |-> 0, nblocks |-> 0]

Init ==
    /\ \E q \in Leftover : mutex = [value |-> 1, queue |-> q]
    /\ \E q \in Leftover : io_sema = [value |-> 0, queue |-> q]
    /\ woken = {}
    /\ pc = [t \in Thread |-> "idle"]
    /\ req = [t \in Thread |-> NoRequest]
    /\ done = [t \in Thread |-> 0]
    /\ device = [BSY |-> FALSE, DRQ |-> FALSE, ERR |-> FALSE,
                 cmd |-> NoRequest, left |-> 0]
    /\ irq = FALSE

Goto(t, label) == pc' = [pc EXCEPT ![t] = label]
-----------------------------------------------------------------------------
\* ksema_down up to schedule(): the answer is the semaphore, and the label the
\* thread goes to.
ksema_down(sem, t, then, asleep) ==
    IF sem.value # 0
    THEN [sem |-> [sem EXCEPT !.value = @ - 1], label |-> then]
    ELSE [sem |-> [sem EXCEPT !.queue = Append(@, t)], label |-> asleep]

\* The end of ksema_down, after schedule().
ksema_resume(sem) == [sem EXCEPT !.value = (@ + Word - 1) % Word]

ksema_up(sem) ==
    [value |-> (sem.value + 1) % Word,
     queue |-> IF sem.queue = << >> THEN << >> ELSE Tail(sem.queue)]
First(sem) == IF sem.queue = << >> THEN {} ELSE {Head(sem.queue)} \ {stray}
-----------------------------------------------------------------------------
\* The call, with the tests that come before the mutex passed, and kmutex_lock.
Lock(t) ==
    /\ pc[t] = "idle"
    /\ \E r \in Request :
          /\ r.nblocks > 1 => io_sema.value < MaxStale
          /\ req' = [req EXCEPT ![t] = r]
    /\ done' = [done EXCEPT ![t] = 0]
    /\ LET down == ksema_down(mutex, t, "select", "lock")
       IN  mutex' = down.sem /\ Goto(t, down.label)
    /\ UNCHANGED <<io_sema, woken, device, irq>>

Locked(t) ==
    /\ pc[t] = "lock" /\ t \in woken
    /\ mutex' = ksema_resume(mutex)
    /\ woken' = woken \ {t}
    /\ Goto(t, "select")
    /\ UNCHANGED <<io_sema, req, done, device, irq>>

\* Both reads of the status register must find BSY and DRQ clear.
select_device == ~device.BSY /\ ~device.DRQ

Select(t) ==
    /\ pc[t] = "select"
    /\ Goto(t, IF select_device THEN "command" ELSE "unlock")
    /\ UNCHANGED <<mutex, io_sema, woken, req, done, device, irq>>

Command(t) ==
    /\ pc[t] = "command"
    /\ device' = [BSY |-> TRUE, DRQ |-> FALSE, ERR |-> FALSE,
                  cmd |-> req[t], left |-> req[t].nblocks]
    /\ Goto(t, "poll")
    /\ UNCHANGED <<mutex, io_sema, woken, req, done, irq>>

\* What wait_for_controller answers, when ready says that the bits of the status
\* have the value: zero if the time is over, or if the byte it returns is the
\* low byte, by chance 0, of the microseconds left.
wait_for_controller(ready) == IF ready THEN BOOLEAN ELSE {FALSE}

\* Mutant: a read goes on without waiting for BSY to be cleared.
Poll_ReadNoWait(t) ==
    /\ pc[t] = "poll"
    /\ \E ok \in wait_for_controller(~device.BSY \/ req[t].type = "read") :
          Goto(t, IF ~ok \/ device.ERR THEN "unlock"
                  ELSE IF req[t].type = "write" THEN "data_out" ELSE "down")
    /\ UNCHANGED <<mutex, io_sema, woken, req, done, device, irq>>

Poll(t) ==
    /\ pc[t] = "poll"
    /\ \E ok \in wait_for_controller(~device.BSY) :
          Goto(t, IF ~ok \/ device.ERR THEN "unlock"
                  ELSE IF req[t].type = "write" THEN "data_out" ELSE "down")
    /\ UNCHANGED <<mutex, io_sema, woken, req, done, device, irq>>

\* A block goes through the data register, if the device is ready for it: else
\* what is written is lost, and what is read is garbage.  The device is busy
\* with a block that was written, or with the next one to be read.
Transfer ==
    device' = IF device.DRQ
              THEN [device EXCEPT !.DRQ = FALSE, !.left = @ - 1,
                                  !.BSY = device.cmd.type = "write" \/ device.left > 1]
              ELSE device

\* The loops over the words of the buffer, a block at a time: they do not look at
\* the status between two blocks.
Copy(t, then) ==
    /\ Transfer
    /\ done' = [done EXCEPT ![t] = @ + 1]
    /\ Goto(t, IF done'[t] = req[t].nblocks THEN then ELSE pc[t])
    /\ UNCHANGED <<mutex, io_sema, woken, req, irq>>

DataOut(t) == pc[t] = "data_out" /\ Copy(t, "down")

Down(t) ==
    /\ pc[t] = "down"
    /\ LET down == ksema_down(io_sema, t, "check", "wait")
       IN  io_sema' = down.sem /\ Goto(t, down.label)
    /\ UNCHANGED <<mutex, woken, req, done, device, irq>>

Resumed(t) ==
    /\ pc[t] = "wait" /\ t \in woken
    /\ io_sema' = ksema_resume(io_sema)
    /\ woken' = woken \ {t}
    /\ Goto(t, "check")
    /\ UNCHANGED <<mutex, req, done, device, irq>>

\* Mutant: after an error it returns and keeps the mutex.
Check_KeepsMutex(t) ==
    /\ pc[t] = "check"
    /\ Goto(t, IF device.ERR THEN "idle"
               ELSE IF req[t].type = "read" THEN "data_in" ELSE "unlock")
    /\ UNCHANGED <<mutex, io_sema, woken, req, done, device, irq>>

\* The status is read again.
Check(t) ==
    /\ pc[t] = "check"
    /\ Goto(t, IF device.ERR THEN "unlock"
               ELSE IF req[t].type = "read" THEN "data_in" ELSE "unlock")
    /\ UNCHANGED <<mutex, io_sema, woken, req, done, device, irq>>

DataIn(t) == pc[t] = "data_in" /\ Copy(t, "unlock")

Unlock(t) ==
    /\ pc[t] = "unlock"
    /\ mutex' = ksema_up(mutex)
    /\ woken' = woken \cup First(mutex)
    /\ Goto(t, "idle")
    /\ req' = [req EXCEPT ![t] = NoRequest]
    /\ done' = [done EXCEPT ![t] = 0]
    /\ UNCHANGED <<io_sema, device, irq>>
-----------------------------------------------------------------------------
\* handle_ide_controller_interrupt.
Interrupt ==
    /\ irq
    /\ irq' = FALSE
    /\ io_sema' = ksema_up(io_sema)
    /\ woken' = woken \cup First(io_sema)
    /\ UNCHANGED <<mutex, pc, req, done, device>>

\* The device finishes what it is busy with.  It has a block ready for a read, or
\* asks for the next one of a write; it raises an interrupt each time but for the
\* first block of a write, and at the end of a write, or after an error.
DeviceAnswers ==
    /\ device.BSY /\ ~irq /\ device.cmd \in Request
    /\ \/ /\ device' = [device EXCEPT !.BSY = FALSE, !.DRQ = device.left > 0]
          /\ irq' = (device.cmd.type = "read" \/ device.left < device.cmd.nblocks)
       \/ /\ io_sema.value < MaxStale
          /\ device' = [device EXCEPT !.BSY = FALSE, !.ERR = TRUE]
          /\ irq' = TRUE
    /\ UNCHANGED <<mutex, io_sema, woken, pc, req, done>>

Step(t) ==
    \/ Locked(t) \/ Select(t) \/ Command(t) \/ Poll(t) \/ DataOut(t)
    \/ Down(t) \/ Resumed(t) \/ Check(t) \/ DataIn(t) \/ Unlock(t)

Next ==
    \/ \E t \in Thread : Lock(t) \/ Step(t)
    \/ Interrupt
    \/ DeviceAnswers

Spec == Init /\ [][Next]_vars
-----------------------------------------------------------------------------
Using(t) == pc[t] \notin {"idle", "lock"}

\* The variables keep the types of ide.c and ksync.c.
TypeOK ==
    /\ \A s \in {mutex, io_sema} :
          s.value \in 0..(Word - 1) /\ s.queue \in Seq(Thread \cup {stray})
    /\ woken \subseteq Thread
    /\ pc \in [Thread -> {"idle", "lock", "select", "command", "poll", "data_out",
                          "down", "wait", "check", "data_in", "unlock"}]
    /\ req \in [Thread -> Request \cup {NoRequest}]
    /\ done \in [Thread -> 0..MAX_NBLOCKS]
    /\ irq \in BOOLEAN

\* ide.c:152-153: "A controller can serve only one request at a time. This mutex
\* protects the controller while it's being used by another task."
MutexExcludes ==
    \A t, u \in Thread : Using(t) /\ Using(u) => t = u

\* The block in the data register.
Presented == device.cmd.block + device.cmd.nblocks - device.left

\* The first block a read copies is the one it was asked for, held ready.
FirstBlockReady ==
    \A t \in Thread :
        pc[t] = "data_in" /\ done[t] = 0 =>
            device.DRQ /\ device.cmd.type = "read" /\ Presented = req[t].block

\* Every way through ide_read_write_blocks that takes a unit of the mutex gives
\* one back, however the requests overlap and whoever overtakes whom: the value
\* of the mutex and the threads in the controller always add up to one.
UnitsBalanced ==
    (mutex.value + Cardinality({t \in Thread : Using(t)})) % Word = 1

\* ide.c:483-484, after ksema_down: "Either the device completed the operation
\* very quickly, or we went to sleep and just got woken up by the IRQ handler."
CompletedWhenChecked ==
    \A t \in Thread : pc[t] = "check" => ~device.BSY
=============================================================================
