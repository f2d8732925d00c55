------------------------------- MODULE Traps -------------------------------
(***************************************************************************)
(* How the processor enters and leaves the kernel: the gates (kernel/      *)
(* idt.c), the interrupt controllers (irq.c), the wrappers of isr.S and    *)
(* syscall.S, task_switch.S with update_tss_ldt and init_multitasking      *)
(* (sched.c), and the order in which simplix_main (main.c) sets them up.   *)
(*                                                                         *)
(* A kernel stack is the sequence of the contexts saved on it; what is     *)
(* kept of a context is the vector that made it, the privilege level in    *)
(* its cs and the interrupt flag.  cpu.at says where the processor is:     *)
(*   "boot"     in simplix_main                                            *)
(*   "code"     in the code of a user task or kernel thread                *)
(*   "entry"    in a wrapper, before the end-of-interrupt command          *)
(*   "handler"  in a system call or an exception handler, or about to call *)
(*              an interrupt handler                                       *)
(*   "leave"    in a wrapper, after the handler has returned               *)
(*   "restore"  in a kernel thread, before a restore_hwint                 *)
(*   "fault"    at a vector without a gate or without a handler            *)
(*   "hung"     in a list_for_each that goes round for ever or has left    *)
(*              the tasks, with interrupts off: nothing more is followed   *)
(* Which task schedule() elects is modelled in Tasks.tla; here it is any   *)
(* runnable task, and idle if there is none.  A thread that sleeps in      *)
(* ksema_down is linked into the wait queue with the pointers of the task  *)
(* list (KSync.tla): from then on the list may leave out any task, and a   *)
(* traversal may not end.                                                  *)
(***************************************************************************)
EXTENDS Integers, Sequences

CONSTANTS
    idle, KThreads, Users,
    NULL,
    Sources,            \* bound: the lines that devices raise
    Faults              \* bound: the exceptions that tasks cause

Task == {idle} \cup KThreads \cup Users
IsUser(t) == t \in Users \cup {idle}

NR_IRQS == 16
NR_EXCEPTIONS == 32
IRQ_OFFSET == 32
IRQ_TIMER == 0
IRQ_KEYBOARD == 1
SLAVE_PIC == 2
IRQ_PRIMARY_IDE == 14
IRQ_SECONDARY_IDE == 15
SYSCALL_INT_NUM == 128
KERN_PRIVILEGE_LEVEL == 0
USER_PRIVILEGE_LEVEL == 3

Line   == 0..(NR_IRQS - 1)
Vector == 0..(IRQ_OFFSET + NR_IRQS - 1) \cup {SYSCALL_INT_NUM}

\* Contexts that no vector made: by task_switch, and the first of a thread.
SWITCH == 256
START  == 257

ASSUME TrapsAssumption ==
    /\ idle \notin KThreads \cup Users /\ KThreads \cap Users = {}
    /\ Sources \subseteq Line \ {SLAVE_PIC}
    /\ Faults \subseteq 0..(NR_EXCEPTIONS - 1)
    /\ NULL \notin Task \cup {KERN_PRIVILEGE_LEVEL, USER_PRIVILEGE_LEVEL}

VARIABLES
    boot,               \* the call of simplix_main that is next in BootCalls
    idt,                \* for each vector, the DPL of its gate, or NULL
    irq_handler_array, exception_handler_array,     \* the entries that are set
    tr,                 \* the task register holds the TSS
    imr, irr, isr,      \* lines masked, requested and in service, of both PICs
    cpu,                \* privilege level, interrupt flag, position
    current, runnable, live,
    whole,              \* no wait queue has taken the links of a task
    kstack,             \* the contexts on the kernel stack of each task
    tss                 \* the task that tss.esp0 and the LDTR belong to

pics  == <<imr, irr, isr>>
table == <<tr, idt, irq_handler_array, exception_handler_array>>
tasks == <<current, runnable, live, whole, kstack, tss>>
vars  == <<boot, pics, table, cpu, tasks>>

\* The context saved last on a stack, and those below it.
Top(s)   == s[Len(s)]
Below(s) == SubSeq(s, 1, Len(s) - 1)

Context(v, level, flag) == [vector |-> v, rpl |-> level, hwint |-> flag]
-----------------------------------------------------------------------------
\* The boot loader leaves interrupts off.
BootCalls == <<"init_pic", "init_idt", "init_gdt", "init_ide_devices", "init_kbd",
               "init_exceptions", "init_timer", "kernel_thread", "init_multitasking",
               "fork">>

Init ==
    /\ boot = 1 /\ tr = FALSE
    /\ idt = [v \in Vector |-> NULL]
    /\ irq_handler_array = {} /\ exception_handler_array = {}
    /\ imr = {} /\ irr = {} /\ isr = {}
    /\ cpu = [rpl |-> KERN_PRIVILEGE_LEVEL, hwint |-> FALSE, at |-> "boot"]
    /\ current = NULL
    /\ live = {} /\ runnable = {} /\ whole = TRUE
    /\ kstack = [t \in Task |-> << >>]
    /\ tss = NULL

idt_set_handler(vectors, dpl) ==
    idt' = [v \in Vector |-> IF v \in vectors THEN dpl ELSE idt[v]]

\* irq_set_handler with a handler, for the lines of one driver.
irq_set_handler(lines) ==
    /\ irq_handler_array' = irq_handler_array \cup lines
    /\ idt_set_handler({IRQ_OFFSET + l : l \in lines}, KERN_PRIVILEGE_LEVEL)

enable_irq_line(lines) == imr' = imr \ lines

Driver(lines) ==
    /\ irq_set_handler(lines) /\ enable_irq_line(lines)
    /\ UNCHANGED <<tr, irr, isr, exception_handler_array, cpu, tasks>>

init_pic ==
    /\ imr' = Line \ {SLAVE_PIC} /\ isr' = {}
    /\ UNCHANGED <<irr, table, cpu, tasks>>

init_idt ==
    /\ idt' = [v \in Vector |-> NULL]
    /\ UNCHANGED <<tr, pics, irq_handler_array, exception_handler_array, cpu, tasks>>

init_gdt ==
    /\ tr' = TRUE
    /\ UNCHANGED <<idt, irq_handler_array, exception_handler_array, pics, cpu, tasks>>

exception_set_handler(vectors) ==
    /\ exception_handler_array' = exception_handler_array \cup vectors
    /\ idt_set_handler(vectors, KERN_PRIVILEGE_LEVEL)

\* The exceptions that get a handler: all but the double fault (8) and those
\* that the processor reserves.
Handled == 0..7 \cup 9..14 \cup 16..18

init_exceptions ==
    /\ exception_set_handler(Handled)
    /\ UNCHANGED <<tr, pics, irq_handler_array, cpu, tasks>>

\* The first context of a thread is the one kernel_thread writes.
kernel_thread ==
    /\ live' = KThreads /\ runnable' = KThreads
    /\ kstack' = [t \in Task |-> IF t \in KThreads
                                 THEN <<Context(START, KERN_PRIVILEGE_LEVEL, TRUE)>>
                                 ELSE kstack[t]]
    /\ UNCHANGED <<table, pics, cpu, current, whole, tss>>

\* The boot code goes on as the idle task, in user mode.
init_multitasking ==
    /\ idt_set_handler({SYSCALL_INT_NUM}, USER_PRIVILEGE_LEVEL)
    /\ tss' = idle /\ current' = idle
    /\ live' = live \cup {idle} /\ runnable' = runnable \cup {idle}
    /\ cpu' = [rpl |-> USER_PRIVILEGE_LEVEL, hwint |-> TRUE, at |-> "code"]
    /\ UNCHANGED <<tr, pics, irq_handler_array, exception_handler_array, whole,
                   kstack>>

Calls(f) == cpu.at = "boot" /\ BootCalls[boot] = f

BootStep ==
    /\ \/ Calls("init_pic")          /\ init_pic
       \/ Calls("init_idt")          /\ init_idt
       \/ Calls("init_gdt")          /\ init_gdt
       \/ Calls("init_ide_devices")  /\ Driver({IRQ_PRIMARY_IDE, IRQ_SECONDARY_IDE})
       \/ Calls("init_kbd")          /\ Driver({IRQ_KEYBOARD})
       \/ Calls("init_exceptions")   /\ init_exceptions
       \/ Calls("init_timer")        /\ Driver({IRQ_TIMER})
       \/ Calls("kernel_thread")     /\ kernel_thread
       \/ Calls("init_multitasking") /\ init_multitasking
    /\ boot' = boot + 1
-----------------------------------------------------------------------------
\* The interrupt controllers: fully nested, the slave on line 2 of the master.
\* A line is offered to the processor when neither it nor one that comes before
\* it is in service on its controller, and on the master for the slave.
Master == {l \in Line : l < 8}
Slave  == Line \ Master
OnMaster(l) == IF l \in Slave THEN SLAVE_PIC ELSE l

Offered ==
    {l \in irr \ imr :
        /\ \A x \in isr \cap Master : OnMaster(l) < x
        /\ l \in Slave => /\ SLAVE_PIC \notin imr
                          /\ \A x \in isr \cap Slave : l < x}

First(lines) ==
    {l \in lines : \A x \in lines : \/ OnMaster(l) < OnMaster(x)
                                    \/ OnMaster(l) = OnMaster(x) /\ l <= x}

\* A device raises its line.
Raise(l) ==
    /\ l \notin irr /\ cpu.at # "hung"
    /\ irr' = irr \cup {l}
    /\ UNCHANGED <<boot, imr, isr, table, cpu, tasks>>

\* The end-of-interrupt command drops the first line in service of a controller.
Eoi(inService) == {l \in inService : \E x \in inService : x < l}

\* Mutant: interrupts stay on in the wrapper, as with a trap gate.
Flag_TrapGate == cpu.hwint

\* The gates are interrupt gates.
Flag == FALSE

\* The processor goes through the gate of v: onto the stack of the TSS when it
\* comes from user mode, onto the one in use otherwise.
Enter(v, at) ==
    LET c == Context(v, cpu.rpl, cpu.hwint)
    IN  IF idt[v] = NULL \/ (v = SYSCALL_INT_NUM /\ idt[v] < cpu.rpl) \/ ~tr
        THEN cpu' = [cpu EXCEPT !.at = "fault"] /\ UNCHANGED kstack
        ELSE /\ cpu' = [rpl |-> KERN_PRIVILEGE_LEVEL, hwint |-> Flag, at |-> at]
             /\ kstack' = IF cpu.rpl = USER_PRIVILEGE_LEVEL
                          THEN [kstack EXCEPT ![tss] = <<c>>]
                          ELSE [kstack EXCEPT ![current] = Append(@, c)]

Interrupt(l) ==
    /\ cpu.hwint /\ cpu.at # "fault"
    /\ l \in First(Offered)
    /\ irr' = irr \ {l} /\ isr' = isr \cup {l, OnMaster(l)}
    /\ Enter(IRQ_OFFSET + l, "entry")
    /\ UNCHANGED <<boot, imr, table, current, runnable, live, whole, tss>>

\* int $0x80.  The only call of the idle task is the first fork.
Syscall ==
    /\ cpu.at = "code" /\ IsUser(current)
    /\ current = idle => boot = Len(BootCalls)
    /\ boot' = IF current = idle THEN boot + 1 ELSE boot
    /\ Enter(SYSCALL_INT_NUM, "handler")
    /\ UNCHANGED <<pics, table, current, runnable, live, whole, tss>>

Exception(v) ==
    /\ cpu.at = "code" /\ current # idle
    /\ Enter(v, "handler")
    /\ UNCHANGED <<boot, pics, table, current, runnable, live, whole, tss>>
-----------------------------------------------------------------------------
Cause == Top(kstack[current]).vector
IsIrq(v) == v \in IRQ_OFFSET..(IRQ_OFFSET + NR_IRQS - 1)

\* Mutant: the wrapper of the slave's lines commands only the master.
Acknowledge_OnePic ==
    /\ cpu.at = "entry"
    /\ isr' = Eoi(isr \cap Master) \cup (isr \cap Slave)
    /\ cpu' = [cpu EXCEPT !.at = IF Cause - IRQ_OFFSET \in irq_handler_array
                                 THEN "handler" ELSE "fault"]
    /\ UNCHANGED <<boot, imr, irr, table, tasks>>

\* The wrapper of an interrupt, up to the call of the handler: the slave gets
\* its command when the line is one of its, then the master.
Acknowledge ==
    /\ cpu.at = "entry"
    /\ isr' = Eoi(isr \cap Master) \cup
              IF Cause - IRQ_OFFSET \in Slave THEN Eoi(isr \cap Slave)
              ELSE isr \cap Slave
    /\ cpu' = [cpu EXCEPT !.at = IF Cause - IRQ_OFFSET \in irq_handler_array
                                 THEN "handler" ELSE "fault"]
    /\ UNCHANGED <<boot, imr, irr, table, tasks>>

\* Mutant: the TSS and the LDTR are left alone.
update_tss_ldt_Never(t, c) == tss' = tss

update_tss_ldt(t, c) == tss' = IF c.rpl = USER_PRIVILEGE_LEVEL THEN t ELSE tss

\* The end of a wrapper.
Leave ==
    /\ cpu.at = "leave"
    /\ LET c == Top(kstack[current])
       IN  /\ update_tss_ldt(current, c)
           /\ kstack' = [kstack EXCEPT ![current] = Below(@)]
           /\ cpu' = [rpl |-> c.rpl, hwint |-> c.hwint, at |-> "code"]
    /\ UNCHANGED <<boot, pics, table, current, runnable, live, whole>>
-----------------------------------------------------------------------------
\* Where a task goes on when task_switch returns to it: in the function that
\* called schedule, or, in a new task, after the iret.
Resumed(c, rest) ==
    CASE c.vector # SWITCH                -> "code"
      [] c.vector = SWITCH /\ rest = << >> -> IF c.hwint THEN "code" ELSE "restore"
      [] OTHER -> IF IsIrq(Top(rest).vector) THEN "leave" ELSE "handler"

\* task_switch, with flag the interrupt flag that schedule has saved and will
\* restore; stacks are the kernel stacks, without that of a task that has ended.
task_switch(t, stacks, flag) ==
    LET from == [stacks EXCEPT ![current] =
                    Append(@, Context(SWITCH, KERN_PRIVILEGE_LEVEL, flag))]
        c    == Top(from[t])
        rest == Below(from[t])
    IN  /\ current' = t
        /\ update_tss_ldt(t, c)
        /\ kstack' = [from EXCEPT ![t] = rest]
        /\ cpu' = [rpl |-> c.rpl, hwint |-> c.hwint, at |-> Resumed(c, rest)]

\* The tasks schedule may elect when those of run are runnable and list says
\* whether the task list is whole.
Electable(run, list) ==
    (IF run \subseteq {idle} \/ ~list THEN {idle} ELSE {}) \cup (run \ {idle})

Hang(list) ==
    /\ ~list
    /\ cpu' = [cpu EXCEPT !.hwint = FALSE, !.at = "hung"]
    /\ UNCHANGED <<current, kstack, tss>>

\* schedule, when the tasks of run are runnable; at is where its caller goes on.
schedule(run, stacks, at) ==
    \/ \E t \in Electable(run, whole) :
          IF t = current
          THEN /\ cpu' = [cpu EXCEPT !.at = at]
               /\ UNCHANGED <<current, kstack, tss>>
          ELSE task_switch(t, stacks, cpu.hwint)
    \/ Hang(whole)

Asleep == live \ runnable

\* An interrupt handler may wake tasks; that of the clock may call schedule.
Handle ==
    /\ cpu.at = "handler" /\ IsIrq(Cause)
    /\ \E woken \in SUBSET Asleep :
          /\ runnable' = runnable \cup woken
          /\ \/ cpu' = [cpu EXCEPT !.at = "leave"]
                /\ UNCHANGED <<current, kstack, tss>>
             \/ Cause = IRQ_OFFSET + IRQ_TIMER
                /\ schedule(runnable \cup woken, kstack, "leave")
    /\ UNCHANGED <<boot, pics, table, live, whole>>

InSyscall == cpu.at = "handler" /\ Cause = SYSCALL_INT_NUM

\* A system call that returns at once.
Return ==
    /\ InSyscall
    /\ cpu' = [cpu EXCEPT !.at = "leave"]
    /\ UNCHANGED <<boot, pics, table, tasks>>

\* sys_sleep and sys_waitpid.
Block ==
    /\ InSyscall /\ current # idle
    /\ runnable' = runnable \ {current}
    /\ schedule(runnable', kstack, "handler")
    /\ UNCHANGED <<boot, pics, table, live, whole>>

\* sys_fork: the child has a copy of the stack; its first context is the one at
\* the base.
Fork(t) ==
    /\ InSyscall
    /\ live' = live \cup {t} /\ runnable' = runnable \cup {t}
    /\ kstack' = [kstack EXCEPT ![t] = <<kstack[current][1]>>]
    /\ cpu' = [cpu EXCEPT !.at = "leave"]
    /\ UNCHANGED <<boot, pics, table, current, whole, tss>>

\* Every exception handler ends the task that caused the exception.
handle_exception == cpu.at = "handler" /\ Cause \in exception_handler_array

\* do_exit, from exit, an exception or a kernel thread that has finished.  The
\* stack it still runs on has been given back; the parent may be woken.
do_exit ==
    /\ current # idle
    /\ \/ InSyscall
       \/ handle_exception
       \/ cpu.at = "code" /\ current \in KThreads
    /\ \E woken \in SUBSET Asleep :
          /\ runnable' = (runnable \ {current}) \cup woken
          /\ live' = live \ {current}
          /\ schedule(runnable', [kstack EXCEPT ![current] = << >>], "handler")
    /\ UNCHANGED <<boot, pics, table, whole>>

\* A kernel thread goes to sleep: in do_sleep interrupts are on when it calls
\* schedule, in ksema_down, which moves its links to a wait queue, they are off.
ThreadSleeps(flag) ==
    /\ cpu.at = "code" /\ current \in KThreads
    /\ runnable' = runnable \ {current}
    /\ whole' = (whole /\ flag)
    /\ \/ \E t \in Electable(runnable', whole') : task_switch(t, kstack, flag)
       \/ Hang(whole')
    /\ UNCHANGED <<boot, pics, table, live>>


\* The end of ksema_down.
restore_hwint ==
    /\ cpu.at = "restore"
    /\ cpu' = [cpu EXCEPT !.hwint = TRUE, !.at = "code"]
    /\ UNCHANGED <<boot, pics, table, tasks>>

Hung == cpu.at = "hung" /\ UNCHANGED vars
-----------------------------------------------------------------------------
Kernel ==
    Acknowledge \/ Handle \/ Leave \/ Return \/ Block
        \/ (\E t \in Users \ live : Fork(t))
        \/ (cpu.at = "handler" /\ do_exit) \/ restore_hwint

Next ==
    \/ BootStep \/ Kernel
    \/ \E l \in Sources : Raise(l) \/ Interrupt(l)
    \/ Syscall \/ \E v \in Faults : Exception(v)
    \/ cpu.at = "code" /\ do_exit
    \/ \E flag \in BOOLEAN : ThreadSleeps(flag)
    \/ Hung

\* The kernel's own steps go on; the processor takes a request that is offered
\* again and again at the boundaries of its instructions.
Spec ==
    /\ Init /\ [][Next]_vars
    /\ WF_vars(BootStep) /\ WF_vars(Kernel)
    /\ SF_vars(Interrupt(IRQ_TIMER))
-----------------------------------------------------------------------------
Frame == [vector : Vector \cup {SWITCH, START},
          rpl : {KERN_PRIVILEGE_LEVEL, USER_PRIVILEGE_LEVEL}, hwint : BOOLEAN]

\* The variables have their types.
TypeOK ==
    /\ boot \in 1..(Len(BootCalls) + 1) /\ tr \in BOOLEAN
    /\ idt \in [Vector -> {NULL, KERN_PRIVILEGE_LEVEL, USER_PRIVILEGE_LEVEL}]
    /\ irq_handler_array \subseteq Line
    /\ exception_handler_array \subseteq 0..(NR_EXCEPTIONS - 1)
    /\ imr \subseteq Line /\ irr \subseteq Line /\ isr \subseteq Line
    /\ cpu \in [rpl : {KERN_PRIVILEGE_LEVEL, USER_PRIVILEGE_LEVEL}, hwint : BOOLEAN,
                at : {"boot", "code", "entry", "handler", "leave", "restore",
                      "fault", "hung"}]
    /\ current \in Task \cup {NULL} /\ tss \in Task \cup {NULL}
    /\ live \subseteq Task /\ runnable \subseteq live /\ whole \in BOOLEAN
    /\ kstack \in [Task -> Seq(Frame)]

\* When a task is in user mode the stack its next interrupt goes to and the
\* segments of its LDT are its own, nothing is left on that stack, and
\* interrupts are on: update_tss_ldt on every way back (sched.c).
UserModeIntact ==
    cpu.rpl = USER_PRIVILEGE_LEVEL =>
        tss = current /\ kstack[current] = << >> /\ cpu.hwint /\ IsUser(current)

\* A kernel stack, which is one page, never holds more than one context of an
\* interrupt and one of task_switch, whatever interrupts arrive (isr.S).
StackBounded ==
    \A t \in live :
        LET s == kstack[t]
        IN  /\ Len(s) <= 2
            /\ Len(s) = 2 => s[1].vector # SWITCH /\ s[2].vector = SWITCH

\* Outside the first lines of a wrapper no line is in service, so that the clock
\* goes on even when its handler has switched to another task (isr.S); and every
\* interrupt, exception and system call finds a gate and a handler from the
\* moment the processor can take it (main.c's order of initialisation).
NoLineStuck == cpu.at # "fault" /\ (cpu.at # "entry" => isr = {})

=============================================================================
