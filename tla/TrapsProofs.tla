---------------------------- MODULE TrapsProofs ----------------------------
(***************************************************************************)
(* Proofs about Traps, for every set of threads and user tasks, all lines  *)
(* of the interrupt controllers and all exceptions that have a handler:    *)
(* the kernel stacks stay within two contexts, user mode is entered with   *)
(* the stack and the segments of the right task, and no interrupt finds    *)
(* the kernel unprepared.                                                  *)
(***************************************************************************)
EXTENDS Traps, TLAPS

Level(t) == IF IsUser(t) THEN USER_PRIVILEGE_LEVEL ELSE KERN_PRIVILEGE_LEVEL

\* The context of an interrupt, an exception or a system call in the code of t.
Trap(t, f) ==
    /\ f \in Frame /\ f.vector \in Vector
    /\ f.rpl = Level(t) /\ f.hwint = TRUE
    /\ f.vector = SYSCALL_INT_NUM => IsUser(t)

Ready  == Context(START, KERN_PRIVILEGE_LEVEL, TRUE)
Switched(flag) == Context(SWITCH, KERN_PRIVILEGE_LEVEL, flag)

\* The stack s of a task t that waits for the CPU: as kernel_thread has made it
\* or of a thread that sleeps, as sys_fork has made it, or switched from inside
\* a handler.
Parked(t, s) ==
    \/ t \in KThreads /\ Len(s) = 1 /\ s[1] \in {Ready, Switched(TRUE), Switched(FALSE)}
    \/ t \in Users /\ Len(s) = 1 /\ Trap(t, s[1])
    \/ Len(s) = 2 /\ Trap(t, s[1]) /\ s[2] = Switched(FALSE)

InWrapper == {"entry", "handler", "leave"}

\* The processor c, the stack s and the TSS x while t has the CPU.
Running(t, c, s, x) ==
    \/ /\ c.at = "code" /\ c.rpl = Level(t) /\ c.hwint = TRUE
       /\ Len(s) = 0 /\ (IsUser(t) => x = t)
    \/ /\ c.at = "restore" /\ c.rpl = KERN_PRIVILEGE_LEVEL /\ c.hwint = FALSE
       /\ Len(s) = 0 /\ t \in KThreads
    \/ /\ c.at \in InWrapper /\ c.rpl = KERN_PRIVILEGE_LEVEL /\ c.hwint = FALSE
       /\ Len(s) = 1 /\ Trap(t, s[1])

Processor ==
    [rpl : {KERN_PRIVILEGE_LEVEL, USER_PRIVILEGE_LEVEL}, hwint : BOOLEAN,
     at : {"boot", "code", "restore"} \cup InWrapper]

Typed ==
    /\ boot \in 1..11 /\ tr \in BOOLEAN
    /\ idt \in [Vector -> {NULL, KERN_PRIVILEGE_LEVEL, USER_PRIVILEGE_LEVEL}]
    /\ cpu \in Processor
    /\ live \subseteq Task /\ runnable \subseteq live
    /\ kstack \in [Task -> Seq(Frame)]

\* simplix_main, before it becomes the idle task.
Booting ==
    cpu.at = "boot" =>
        /\ boot \in 1..9 /\ current = NULL /\ idle \notin live
        /\ cpu.hwint = FALSE /\ cpu.rpl = KERN_PRIVILEGE_LEVEL
        /\ live \subseteq KThreads /\ (boot <= 8 => live = {})
        /\ \A t \in live : Len(kstack[t]) = 1 /\ kstack[t][1] = Ready
        /\ Len(kstack[idle]) = 0

\* Afterwards somebody has the CPU, and the others wait for it.
Multitasking ==
    cpu.at # "boot" =>
        /\ boot \in 10..11 /\ idle \in runnable /\ current \in runnable
        /\ Running(current, cpu, kstack[current], tss)
        /\ \A t \in live \ {current} : Parked(t, kstack[t])

\* What simplix_main has set up before its call number boot.
Prepared ==
    /\ boot >= 2 => \A l \in Line \ {SLAVE_PIC} : l \notin imr =>
                        l \in irq_handler_array /\ idt[IRQ_OFFSET + l] # NULL
    /\ boot \in 2..3 => imr = Line \ {SLAVE_PIC}
    /\ boot >= 4 => tr = TRUE
    /\ boot >= 7 => \A v \in Handled : idt[v] # NULL
    /\ boot >= 10 => idt[SYSCALL_INT_NUM] = USER_PRIVILEGE_LEVEL

\* A line is in service only until its wrapper has sent the commands.
InService ==
    IF cpu.at = "entry"
    THEN \E l \in Line \cap irq_handler_array :
            Cause = IRQ_OFFSET + l /\ isr = {l, OnMaster(l)}
    ELSE isr = {}

TrInv == Typed /\ Booting /\ Multitasking /\ Prepared /\ InService

\* A traversal of the task list hangs in the kernel.
Halted ==
    /\ cpu.at = "hung" /\ cpu.rpl = KERN_PRIVILEGE_LEVEL /\ cpu.hwint = FALSE
    /\ isr = {}
    /\ \A t \in live : Len(kstack[t]) \in {0, 1} \/ Parked(t, kstack[t])

TrapInv == TrInv \/ Halted
-----------------------------------------------------------------------------
\* The privilege levels are those of the two kinds of tasks.
LEMMA Levels ==
    /\ \A t \in KThreads : ~IsUser(t) /\ Level(t) = KERN_PRIVILEGE_LEVEL
    /\ \A t \in Users \cup {idle} : IsUser(t) /\ Level(t) = USER_PRIVILEGE_LEVEL
    /\ \A t \in Task : t \in KThreads \/ t \in Users \cup {idle}
  BY TrapsAssumption DEF IsUser, Level, Task

\* A context on an empty stack, or on one that holds another.
LEMMA Pushed ==
    ASSUME NEW s \in Seq(Frame), NEW f \in Frame
    PROVE  /\ Append(s, f) \in Seq(Frame)
           /\ Len(s) = 0 => Len(Append(s, f)) = 1 /\ Append(s, f)[1] = f
           /\ Len(s) = 1 => /\ Len(Append(s, f)) = 2
                            /\ Append(s, f)[1] = s[1] /\ Append(s, f)[2] = f
<1> DEFINE a == Append(s, f)
<1>1. /\ a \in Seq(Frame) /\ Len(a) = Len(s) + 1
      /\ \A i \in 1..Len(s) : a[i] = s[i]
      /\ a[Len(s) + 1] = f
  OBVIOUS
<1> HIDE DEF a
<1>2. Len(s) = 0 => Len(a) = 1 /\ a[1] = f
  BY <1>1
<1>3. Len(s) = 1 => Len(a) = 2 /\ a[1] = s[1] /\ a[2] = f
  BY <1>1
<1> QED  BY <1>1, <1>2, <1>3 DEF a

\* The last context of a stack, and what is left without it.
LEMMA Popped ==
    ASSUME NEW s \in Seq(Frame)
    PROVE  /\ Len(s) = 1 => Top(s) = s[1] /\ Below(s) = << >> /\ s[1] \in Frame
           /\ Len(s) = 2 => /\ Top(s) = s[2] /\ Below(s) \in Seq(Frame)
                            /\ Len(Below(s)) = 1 /\ Below(s)[1] = s[1]
                            /\ s[1] \in Frame /\ s[2] \in Frame
           /\ Len(s) = 0 <=> s = << >>
  BY DEF Top, Below

\* A stack with one context.
LEMMA Single ==
    ASSUME NEW f \in Frame
    PROVE  <<f>> \in Seq(Frame) /\ Len(<<f>>) = 1 /\ <<f>>[1] = f
  OBVIOUS

\* A context is a record of its three parts.
LEMMA Contexts ==
    ASSUME NEW v \in Vector \cup {SWITCH, START}, NEW b \in BOOLEAN,
           NEW l \in {KERN_PRIVILEGE_LEVEL, USER_PRIVILEGE_LEVEL}
    PROVE  /\ Context(v, l, b) \in Frame /\ Context(v, l, b).vector = v
           /\ Context(v, l, b).rpl = l /\ Context(v, l, b).hwint = b
  BY Zenon DEF Context, Frame

\* What task_switch finds on the stack of a task that waits lets it run on.
LEMMA Resumes ==
    ASSUME NEW t \in Task, NEW s \in Seq(Frame), Parked(t, s), NEW x,
           NEW c, c = Top(s), NEW rest, rest = Below(s)
    PROVE  /\ c \in Frame /\ rest \in Seq(Frame)
           /\ Resumed(c, rest) \in {"code", "restore", "handler", "leave"}
           /\ Running(t, [rpl |-> c.rpl, hwint |-> c.hwint, at |-> Resumed(c, rest)],
                      rest, IF c.rpl = USER_PRIVILEGE_LEVEL THEN t ELSE x)
<1> USE Levels
<1>e. Len(<< >>) = 0 /\ << >> \in Seq(Frame)
  OBVIOUS
<1>r. /\ Ready \in Frame /\ Ready.vector = START /\ Ready.hwint = TRUE
      /\ Ready.rpl = KERN_PRIVILEGE_LEVEL
      /\ \A b \in BOOLEAN : /\ Switched(b) \in Frame /\ Switched(b).vector = SWITCH
                            /\ Switched(b).rpl = KERN_PRIVILEGE_LEVEL
                            /\ Switched(b).hwint = b
  BY Contexts, Zenon DEF Ready, Switched
<1>1. CASE t \in KThreads /\ Len(s) = 1 /\ s[1] \in {Ready, Switched(TRUE), Switched(FALSE)}
  <2>1. c = s[1] /\ rest = << >>
    BY <1>1, Popped
  <2>2. CASE c = Ready
    <3>1. Resumed(c, rest) = "code"
      BY <2>2, <1>r DEF Resumed, START, SWITCH
    <3> QED  BY <1>1, <1>r, <1>e, <2>1, <2>2, <3>1 DEF Running
  <2>3. CASE c = Switched(TRUE)
    <3>1. Resumed(c, rest) = "code"
      BY <2>1, <2>3, <1>r, Zenon DEF Resumed
    <3> QED  BY <1>1, <1>r, <1>e, <2>1, <2>3, <3>1, Zenon DEF Running
  <2>4. CASE c = Switched(FALSE)
    <3>1. Resumed(c, rest) = "restore"
      BY <2>1, <2>4, <1>r, Zenon DEF Resumed
    <3> QED  BY <1>1, <1>r, <1>e, <2>1, <2>4, <3>1, Zenon DEF Running, KERN_PRIVILEGE_LEVEL, USER_PRIVILEGE_LEVEL
  <2> QED  BY <1>1, <2>1, <2>2, <2>3, <2>4, Zenon
<1>2. CASE t \in Users /\ Len(s) = 1 /\ Trap(t, s[1])
  <2>1. /\ c \in Frame /\ c.vector \in Vector /\ c.rpl = USER_PRIVILEGE_LEVEL
        /\ c.hwint = TRUE /\ rest = << >>
    BY <1>2, Popped DEF Trap
  <2>2. Resumed(c, rest) = "code"
    BY <2>1 DEF Resumed, SWITCH, Vector, IRQ_OFFSET, NR_IRQS, SYSCALL_INT_NUM
  <2> QED  BY <1>2, <1>e, <2>1, <2>2 DEF Running
<1>3. CASE Len(s) = 2 /\ Trap(t, s[1]) /\ s[2] = Switched(FALSE)
  <2>1. /\ c = Switched(FALSE) /\ rest \in Seq(Frame) /\ Len(rest) = 1 /\ rest[1] = s[1]
    BY <1>3, Popped, Zenon
  <2>2. Resumed(c, rest) \in {"handler", "leave"}
    <3>1. rest # << >>
      BY <2>1, Popped
    <3>2. c.vector = SWITCH
      BY <2>1, <1>r, Zenon
    <3>3. Resumed(c, rest) = IF IsIrq(Top(rest).vector) THEN "leave" ELSE "handler"
      BY <3>1, <3>2 DEF Resumed
    <3> QED  BY <3>3
  <2> QED  BY <1>3, <1>r, <2>1, <2>2, Zenon DEF Running, InWrapper, KERN_PRIVILEGE_LEVEL, USER_PRIVILEGE_LEVEL
<1> QED  BY <1>1, <1>2, <1>3, Zenon DEF Parked

\* task_switch, from one task to another that waits.
LEMMA Switches ==
    ASSUME NEW t \in Task, current \in Task, t # current,
           NEW stacks \in [Task -> Seq(Frame)], Parked(t, stacks[t]),
           NEW flag \in BOOLEAN, task_switch(t, stacks, flag)
    PROVE  /\ current' = t /\ kstack' \in [Task -> Seq(Frame)]
           /\ cpu' \in Processor /\ cpu'.at \notin {"boot", "entry"}
           /\ Running(t, cpu', kstack'[t], tss')
           /\ kstack'[current] = Append(stacks[current], Switched(flag))
           /\ \A u \in Task \ {current, t} : kstack'[u] = stacks[u]
<1> DEFINE from == [stacks EXCEPT ![current] = Append(@, Switched(flag))]
           c    == Top(stacks[t])
           rest == Below(stacks[t])
<1>1. Switched(flag) \in Frame
  BY Contexts, Zenon DEF Switched
<1>2. /\ from \in [Task -> Seq(Frame)] /\ from[t] = stacks[t]
      /\ from[current] = Append(stacks[current], Switched(flag))
      /\ \A u \in Task \ {current} : from[u] = stacks[u]
  BY <1>1, Pushed
<1>3. /\ c \in Frame /\ rest \in Seq(Frame)
      /\ Resumed(c, rest) \in {"code", "restore", "handler", "leave"}
      /\ Running(t, [rpl |-> c.rpl, hwint |-> c.hwint, at |-> Resumed(c, rest)],
                 rest, IF c.rpl = USER_PRIVILEGE_LEVEL THEN t ELSE tss)
  BY Resumes, Zenon
<1>4. /\ current' = t /\ kstack' = [from EXCEPT ![t] = rest]
      /\ tss' = IF c.rpl = USER_PRIVILEGE_LEVEL THEN t ELSE tss
      /\ cpu' = [rpl |-> c.rpl, hwint |-> c.hwint, at |-> Resumed(c, rest)]
  BY <1>2 DEF task_switch, Switched, update_tss_ldt
<1> HIDE DEF from, c, rest
<1>5. /\ kstack' \in [Task -> Seq(Frame)] /\ kstack'[t] = rest
      /\ \A u \in Task \ {t} : kstack'[u] = from[u]
  BY <1>2, <1>3, <1>4
<1>6. cpu' \in Processor /\ cpu'.at \notin {"boot", "entry"}
  BY <1>3, <1>4 DEF Processor, Frame, InWrapper
<1> QED  BY <1>2, <1>3, <1>4, <1>5, <1>6

\* A step that leaves the tables and the controllers alone.
LEMMA Kept ==
    ASSUME TrInv, cpu.at \notin {"boot", "entry"}, cpu'.at \notin {"boot", "entry"},
           UNCHANGED <<boot, pics, table>>
    PROVE  Booting' /\ Prepared' /\ InService'
<1>1. Booting'
  BY DEF Booting
<1>2. Prepared'
  BY DEF TrInv, Prepared, pics, table
<1>3. InService'
  BY DEF TrInv, InService, pics
<1> QED  BY <1>1, <1>2, <1>3

\* schedule, when it gives the CPU to another task.
LEMMA Elected ==
    ASSUME TrInv, cpu.at \notin {"boot", "entry"}, UNCHANGED <<boot, pics, table>>,
           live' \subseteq live, runnable' \subseteq live', idle \in runnable',
           NEW t \in runnable', t # current, NEW flag \in BOOLEAN,
           NEW stacks \in [Task -> Seq(Frame)],
           \A u \in Task \ {current} : stacks[u] = kstack[u],
           current \in live' => Parked(current, Append(stacks[current], Switched(flag))),
           task_switch(t, stacks, flag)
    PROVE  TrInv'
<1>1. /\ t \in live /\ t \in Task /\ current \in Task /\ live \subseteq Task
      /\ Parked(t, stacks[t]) /\ boot \in 10..11
      /\ \A u \in live \ {current} : Parked(u, kstack[u])
  BY DEF TrInv, Typed, Multitasking
<1>2. /\ current' = t /\ kstack' \in [Task -> Seq(Frame)]
      /\ cpu' \in Processor /\ cpu'.at \notin {"boot", "entry"}
      /\ Running(t, cpu', kstack'[t], tss')
      /\ kstack'[current] = Append(stacks[current], Switched(flag))
      /\ \A u \in Task \ {current, t} : kstack'[u] = stacks[u]
  BY <1>1, Switches
<1>3. Booting' /\ Prepared' /\ InService'
  BY <1>2, Kept
<1>4. ASSUME NEW u \in live' \ {t} PROVE Parked(u, kstack'[u])
  BY <1>1, <1>2, <1>4, Zenon
<1>5. Multitasking'
  BY <1>1, <1>2, <1>4 DEF Multitasking
<1>6. Typed'
  BY <1>1, <1>2 DEF TrInv, Typed, table
<1> QED  BY <1>3, <1>5, <1>6 DEF TrInv

\* schedule, when it elects a task other than the current one.
LEMMA Elects ==
    ASSUME NEW run, idle \in run, NEW list, NEW t \in Electable(run, list)
    PROVE  t \in run
  BY DEF Electable
-----------------------------------------------------------------------------
\* A task in user mode or a kernel thread goes through a gate.
LEMMA Enters ==
    ASSUME TrInv, cpu.at = "code", NEW v \in Vector, NEW at \in {"entry", "handler"},
           idt[v] # NULL, v = SYSCALL_INT_NUM => IsUser(current) /\ idt[v] = USER_PRIVILEGE_LEVEL,
           Enter(v, at), UNCHANGED <<table, current, runnable, live, tss>>,
           boot' \in 10..11
    PROVE  /\ Typed' /\ Booting' /\ Multitasking'
           /\ cpu'.at = at /\ kstack'[current] \in Seq(Frame)
           /\ Len(kstack'[current]) = 1 /\ kstack'[current][1].vector = v
<1> DEFINE f == Context(v, Level(current), TRUE)
<1>1. /\ current \in Task /\ cpu.rpl = Level(current) /\ cpu.hwint = TRUE
      /\ Len(kstack[current]) = 0 /\ (IsUser(current) => tss = current)
      /\ boot \in 10..11 /\ tr = TRUE /\ kstack \in [Task -> Seq(Frame)]
      /\ \A u \in live \ {current} : Parked(u, kstack[u])
  <2>1. Running(current, cpu, kstack[current], tss) /\ current \in Task
    BY DEF TrInv, Typed, Multitasking
  <2>2. /\ cpu.rpl = Level(current) /\ cpu.hwint = TRUE
        /\ Len(kstack[current]) = 0 /\ (IsUser(current) => tss = current)
    BY <2>1, Zenon DEF Running, InWrapper
  <2>3. boot \in 10..11 /\ \A u \in live \ {current} : Parked(u, kstack[u])
    BY DEF TrInv, Multitasking
  <2>4. tr = TRUE /\ kstack \in [Task -> Seq(Frame)]
    BY <2>3 DEF TrInv, Prepared, Typed
  <2> QED  BY <2>1, <2>2, <2>3, <2>4
<1>2. Level(current) \in {KERN_PRIVILEGE_LEVEL, USER_PRIVILEGE_LEVEL}
  BY DEF Level
<1>3. /\ f \in Frame /\ f.vector = v /\ f.rpl = Level(current) /\ f.hwint = TRUE
  BY <1>2, Contexts, Zenon
<1>4. Trap(current, f)
  BY <1>3, Zenon DEF Trap
<1>5. /\ cpu' = [rpl |-> KERN_PRIVILEGE_LEVEL, hwint |-> FALSE, at |-> at]
      /\ \/ kstack' = [kstack EXCEPT ![current] = <<f>>]
         \/ kstack' = [kstack EXCEPT ![current] = Append(kstack[current], f)]
  <2>1. ~(idt[v] = NULL \/ (v = SYSCALL_INT_NUM /\ idt[v] < cpu.rpl) \/ ~tr)
    BY <1>1, Levels DEF USER_PRIVILEGE_LEVEL, KERN_PRIVILEGE_LEVEL, Level
  <2>2. cpu.rpl = USER_PRIVILEGE_LEVEL => tss = current
    BY <1>1 DEF Level, USER_PRIVILEGE_LEVEL, KERN_PRIVILEGE_LEVEL
  <2> QED  BY <1>1, <2>1, <2>2, Zenon DEF Enter, Flag
<1> HIDE DEF f
<1>6. /\ kstack' \in [Task -> Seq(Frame)] /\ Len(kstack'[current]) = 1
      /\ kstack'[current][1] = f /\ \A u \in Task \ {current} : kstack'[u] = kstack[u]
  <2>1. CASE kstack' = [kstack EXCEPT ![current] = <<f>>]
    BY <1>1, <1>3, <2>1, Single
  <2>2. CASE kstack' = [kstack EXCEPT ![current] = Append(kstack[current], f)]
    BY <1>1, <1>3, <2>2, Pushed
  <2> QED  BY <1>5, <2>1, <2>2
<1>7. cpu'.at = at /\ cpu' \in Processor
  BY <1>5 DEF Processor, InWrapper
<1>8. Running(current, cpu', kstack'[current], tss')
  BY <1>4, <1>5, <1>6 DEF Running, InWrapper
<1>9. Typed'
  BY <1>6, <1>7 DEF TrInv, Typed, table
<1>10. Booting'
  BY <1>7 DEF Booting
<1>11. Multitasking'
  <2>1. \A u \in live \ {current} : kstack'[u] = kstack[u]
    BY <1>6 DEF TrInv, Typed
  <2> QED  BY <1>1, <1>7, <1>8, <2>1 DEF TrInv, Multitasking
<1> QED  BY <1>1, <1>3, <1>6, <1>7, <1>9, <1>10, <1>11

\* After simplix_main the gates are in place, and interrupts are on only in the
\* code of a task.
LEMMA Gates ==
    ASSUME TrInv, cpu.at # "boot"
    PROVE  /\ boot \in 10..11 /\ cpu.at # "fault"
           /\ \A l \in Line \ {SLAVE_PIC} : l \notin imr =>
                  l \in irq_handler_array /\ idt[IRQ_OFFSET + l] # NULL
           /\ \A v \in Handled : idt[v] # NULL
           /\ idt[SYSCALL_INT_NUM] = USER_PRIVILEGE_LEVEL
           /\ cpu.hwint = TRUE => cpu.at = "code" /\ isr = {}
<1>1. boot \in 10..11 /\ Running(current, cpu, kstack[current], tss)
  BY DEF TrInv, Multitasking
<1>2. cpu.hwint = TRUE => cpu.at = "code"
  BY <1>1 DEF Running
<1>3. cpu.at = "code" => isr = {}
  BY DEF TrInv, InService
<1> QED  BY <1>1, <1>2, <1>3 DEF TrInv, Prepared, Typed, Processor, InWrapper

\* A request that is offered finds its gate and its handler.
LEMMA InterruptKeeps ==
    ASSUME TrInv, NEW l \in Sources, Interrupt(l)
    PROVE  TrInv'
<1>1. cpu.at # "boot"
  BY DEF TrInv, Booting, Interrupt
<1>2. /\ l \in Line \ {SLAVE_PIC} /\ l \notin imr
  BY TrapsAssumption DEF Interrupt, First, Offered
<1>3. /\ cpu.at = "code" /\ isr = {} /\ boot \in 10..11
      /\ l \in irq_handler_array /\ idt[IRQ_OFFSET + l] # NULL
  BY <1>1, <1>2, Gates DEF Interrupt, TrInv, Typed, Processor
<1>4. IRQ_OFFSET + l \in Vector /\ IRQ_OFFSET + l # SYSCALL_INT_NUM
  BY <1>2 DEF Vector, IRQ_OFFSET, NR_IRQS, SYSCALL_INT_NUM, Line
<1>5. /\ Typed' /\ Booting' /\ Multitasking'
      /\ cpu'.at = "entry" /\ kstack'[current] \in Seq(Frame)
      /\ Len(kstack'[current]) = 1 /\ kstack'[current][1].vector = IRQ_OFFSET + l
  BY <1>3, <1>4, Enters DEF Interrupt
<1>6. Prepared'
  BY DEF TrInv, Prepared, Interrupt, table
<1>7. Cause' = IRQ_OFFSET + l
  BY <1>5, Popped DEF Cause, Interrupt
<1>8. isr' = {l, OnMaster(l)}
  BY <1>3 DEF Interrupt
<1>9. InService'
  BY <1>2, <1>3, <1>5, <1>7, <1>8 DEF InService, Interrupt, table
<1> QED  BY <1>5, <1>6, <1>9 DEF TrInv

\* int $0x80 finds its gate, from user mode only.
LEMMA SyscallKeeps ==
    ASSUME TrInv, Syscall
    PROVE  TrInv'
<1>1. boot \in 10..11 /\ idt[SYSCALL_INT_NUM] = USER_PRIVILEGE_LEVEL
  BY Gates DEF Syscall
<1>2. boot' \in 10..11
  BY <1>1 DEF Syscall, BootCalls
<1>3. Typed' /\ Booting' /\ Multitasking' /\ cpu'.at = "handler"
  BY <1>1, <1>2, Enters, TrapsAssumption, Zenon DEF Syscall, Vector
<1>4. Prepared'
  BY <1>1, <1>2 DEF TrInv, Prepared, Syscall, table, pics
<1>5. InService'
  BY <1>3 DEF TrInv, InService, Syscall, pics
<1> QED  BY <1>3, <1>4, <1>5 DEF TrInv

\* An exception that has a handler.
LEMMA ExceptionKeeps ==
    ASSUME TrInv, NEW v \in Handled, Exception(v)
    PROVE  TrInv'
<1>1. boot \in 10..11 /\ idt[v] # NULL
  BY Gates DEF Exception
<1>2. v \in Vector /\ v # SYSCALL_INT_NUM
  BY DEF Handled, Vector, IRQ_OFFSET, NR_IRQS, SYSCALL_INT_NUM
<1>3. Typed' /\ Booting' /\ Multitasking' /\ cpu'.at = "handler"
  BY <1>1, <1>2, Enters DEF Exception
<1>4. Booting' /\ Prepared' /\ InService'
  BY <1>3, Kept DEF Exception
<1> QED  BY <1>3, <1>4 DEF TrInv
-----------------------------------------------------------------------------
\* What is known inside a wrapper.
LEMMA Inside ==
    ASSUME TrInv, cpu.at \in InWrapper
    PROVE  /\ current \in Task /\ current \in runnable /\ runnable \subseteq live
           /\ live \subseteq Task /\ idle \in runnable
           /\ cpu.rpl = KERN_PRIVILEGE_LEVEL /\ cpu.hwint = FALSE
           /\ kstack \in [Task -> Seq(Frame)] /\ Len(kstack[current]) = 1
           /\ Trap(current, kstack[current][1])
           /\ Top(kstack[current]) = kstack[current][1]
           /\ Cause = kstack[current][1].vector
           /\ \A u \in live \ {current} : Parked(u, kstack[u])
           /\ boot \in 10..11
<1>1. /\ current \in Task /\ current \in runnable /\ idle \in runnable
      /\ Running(current, cpu, kstack[current], tss)
      /\ boot \in 10..11 /\ \A u \in live \ {current} : Parked(u, kstack[u])
  BY DEF TrInv, Typed, Multitasking, InWrapper
<1>2. /\ cpu.rpl = KERN_PRIVILEGE_LEVEL /\ cpu.hwint = FALSE
      /\ Len(kstack[current]) = 1 /\ Trap(current, kstack[current][1])
  BY <1>1 DEF Running, InWrapper
<1>3. /\ kstack \in [Task -> Seq(Frame)] /\ runnable \subseteq live /\ live \subseteq Task
  BY DEF TrInv, Typed
<1>4. Top(kstack[current]) = kstack[current][1]
  BY <1>1, <1>2, <1>3, Popped
<1> QED  BY <1>1, <1>2, <1>3, <1>4 DEF Cause

\* The stack of a task that is switched away from inside a wrapper.
LEMMA SwitchedAway ==
    ASSUME NEW t \in Task, NEW s \in Seq(Frame), Len(s) = 1, Trap(t, s[1]),
           NEW flag, flag = FALSE
    PROVE  Parked(t, Append(s, Switched(flag)))
<1>1. Switched(flag) \in Frame
  BY Contexts, Zenon DEF Switched
<1>2. /\ Len(Append(s, Switched(flag))) = 2 /\ Append(s, Switched(flag))[1] = s[1]
      /\ Append(s, Switched(flag))[2] = Switched(flag)
  BY <1>1, Pushed
<1> QED  BY <1>2, Zenon DEF Parked

\* schedule, when it does not come back.
LEMMA Hangs ==
    ASSUME TrInv, NEW list, Hang(list), UNCHANGED pics, live' \subseteq live,
           cpu.at = "handler" \/ (cpu.at = "code" /\ current \in KThreads)
    PROVE  Halted'
<1>1. /\ current \in Task /\ Running(current, cpu, kstack[current], tss)
      /\ \A u \in live \ {current} : Parked(u, kstack[u])
  BY DEF TrInv, Typed, Multitasking
<1>2. cpu.rpl = KERN_PRIVILEGE_LEVEL /\ Len(kstack[current]) \in {0, 1}
  BY <1>1, Levels DEF Running, InWrapper
<1>3. kstack' = kstack /\ isr' = {}
  BY DEF Hang, TrInv, InService, pics
<1>4. /\ cpu'.at = "hung" /\ cpu'.rpl = KERN_PRIVILEGE_LEVEL /\ cpu'.hwint = FALSE
  BY <1>2 DEF Hang, TrInv, Typed, Processor
<1>5. \A t \in live' : Len(kstack'[t]) \in {0, 1} \/ Parked(t, kstack'[t])
  BY <1>1, <1>2, <1>3
<1> QED  BY <1>3, <1>4, <1>5 DEF Halted

\* A step inside a wrapper that only moves on.
LEMMA MovesOn ==
    ASSUME TrInv, cpu.at \in {"handler", "leave"}, NEW at \in {"handler", "leave"},
           cpu' = [cpu EXCEPT !.at = at], runnable \subseteq runnable',
           runnable' \subseteq live', live' \subseteq Task, live \subseteq live',
           kstack' \in [Task -> Seq(Frame)],
           \A u \in live : kstack'[u] = kstack[u],
           \A u \in live' \ live : Parked(u, kstack'[u]),
           UNCHANGED <<boot, pics, table, current, tss>>
    PROVE  TrInv'
<1>1. cpu.at \in InWrapper
  BY DEF InWrapper
<1>2. cpu' \in Processor /\ cpu'.at = at /\ cpu'.rpl = cpu.rpl /\ cpu'.hwint = cpu.hwint
  BY Zenon DEF TrInv, Typed, Processor, InWrapper
<1>3. kstack'[current] = kstack[current]
  BY <1>1, Inside, Zenon
<1>4. Running(current, cpu', kstack'[current], tss')
  BY <1>1, <1>2, <1>3, Inside, Zenon DEF Running, InWrapper
<1>5. Booting' /\ Prepared' /\ InService'
  BY <1>2, Kept
<1>6. Typed'
  BY <1>2 DEF TrInv, Typed, table
<1>7. \A u \in live' \ {current} : Parked(u, kstack'[u])
  BY <1>1, Inside, Zenon
<1>8. Multitasking'
  BY <1>1, <1>2, <1>4, <1>7, Inside, Zenon DEF Multitasking
<1> QED  BY <1>5, <1>6, <1>8 DEF TrInv

\* The commands of a wrapper end the service of its line, on both controllers.
LEMMA Acknowledged ==
    ASSUME NEW l \in Line, isr = {l, OnMaster(l)}
    PROVE  /\ Eoi(isr \cap Master) = {}
           /\ l \in Slave => Eoi(isr \cap Slave) = {}
           /\ l \notin Slave => isr \cap Slave = {}
<1>1. CASE l \in Master
  <2>1. OnMaster(l) = l /\ isr = {l} /\ l \notin Slave
    BY <1>1 DEF OnMaster, Slave
  <2> QED  BY <1>1, <2>1 DEF Eoi, Slave, Line
<1>2. CASE l \in Slave
  <2>1. OnMaster(l) = SLAVE_PIC /\ SLAVE_PIC \in Master
    BY <1>2 DEF OnMaster, SLAVE_PIC, Master, Line, NR_IRQS
  <2>2. isr \cap Master = {SLAVE_PIC} /\ isr \cap Slave = {l}
    BY <1>2, <2>1 DEF Slave
  <2> QED  BY <1>2, <2>2 DEF Eoi, SLAVE_PIC, Line
<1> QED  BY <1>1, <1>2 DEF Slave

\* The first lines of a wrapper.
LEMMA AcknowledgeKeeps ==
    ASSUME TrInv, Acknowledge
    PROVE  TrInv'
<1>1. cpu.at \in InWrapper /\ cpu.at = "entry"
  BY DEF Acknowledge, InWrapper
<1>2. PICK l \in Line \cap irq_handler_array :
            Cause = IRQ_OFFSET + l /\ isr = {l, OnMaster(l)}
  BY <1>1 DEF TrInv, InService
<1>3. Cause - IRQ_OFFSET = l
  BY <1>2 DEF IRQ_OFFSET, Line
<1>4. isr' = {}
  BY <1>2, <1>3, Acknowledged DEF Acknowledge
<1>5. cpu' = [cpu EXCEPT !.at = "handler"]
  BY <1>2, <1>3 DEF Acknowledge
<1>6. /\ cpu' \in Processor /\ cpu'.at = "handler"
      /\ cpu'.rpl = cpu.rpl /\ cpu'.hwint = cpu.hwint
  BY <1>5 DEF TrInv, Typed, Processor, InWrapper
<1>7. Booting' /\ InService'
  BY <1>4, <1>6 DEF Booting, InService
<1>8. Prepared'
  BY DEF TrInv, Prepared, Acknowledge, table
<1>9. Typed'
  BY <1>6 DEF TrInv, Typed, Acknowledge, table, tasks
<1>10. Running(current, cpu', kstack[current], tss)
  BY <1>1, <1>6, Inside, Zenon DEF Running, InWrapper
<1>11. Multitasking'
  BY <1>1, <1>6, <1>10, Inside DEF Multitasking, Acknowledge, tasks
<1> QED  BY <1>7, <1>8, <1>9, <1>11 DEF TrInv

\* The end of a wrapper.
LEMMA LeaveKeeps ==
    ASSUME TrInv, Leave
    PROVE  TrInv'
<1> DEFINE c == kstack[current][1]
<1>1. cpu.at \in InWrapper
  BY DEF Leave, InWrapper
<1>2. /\ c \in Frame /\ c.rpl = Level(current) /\ c.hwint = TRUE
  BY <1>1, Inside, Zenon DEF Trap
<1>3. /\ tss' = IF c.rpl = USER_PRIVILEGE_LEVEL THEN current ELSE tss
      /\ kstack' = [kstack EXCEPT ![current] = << >>]
      /\ cpu' = [rpl |-> c.rpl, hwint |-> c.hwint, at |-> "code"]
  BY <1>1, Inside, Popped, Zenon DEF Leave, update_tss_ldt
<1> HIDE DEF c
<1>4. cpu' \in Processor /\ cpu'.at = "code" /\ cpu'.rpl = Level(current) /\ cpu'.hwint = TRUE
  BY <1>2, <1>3 DEF Processor, Frame
<1>5. /\ kstack' \in [Task -> Seq(Frame)] /\ Len(kstack'[current]) = 0
      /\ \A u \in Task \ {current} : kstack'[u] = kstack[u]
  <2>1. << >> \in Seq(Frame) /\ Len(<< >>) = 0
    OBVIOUS
  <2>2. current \in Task /\ kstack \in [Task -> Seq(Frame)]
    BY <1>1, Inside, Zenon
  <2> QED  BY <1>3, <2>1, <2>2
<1>6. IsUser(current) => tss' = current
  BY <1>2, <1>3 DEF Level
<1>7. Booting' /\ Prepared' /\ InService'
  BY <1>4, Kept DEF Leave
<1>8. Typed'
  BY <1>4, <1>5 DEF TrInv, Typed, Leave, table
<1>9. Running(current, cpu', kstack'[current], tss')
  BY <1>4, <1>5, <1>6 DEF Running
<1>10. \A u \in live \ {current} : Parked(u, kstack'[u])
  BY <1>1, <1>5, Inside, Zenon
<1>11. Multitasking'
  BY <1>1, <1>4, <1>9, <1>10, Inside DEF Multitasking, Leave
<1> QED  BY <1>7, <1>8, <1>11 DEF TrInv

\* The handler of an interrupt, with or without a switch.
LEMMA HandleKeeps ==
    ASSUME TrInv, Handle
    PROVE  TrapInv'
<1>1. cpu.at \in InWrapper /\ cpu.at = "handler"
  BY DEF Handle, InWrapper
<1>2. PICK woken \in SUBSET Asleep :
          /\ runnable' = runnable \cup woken
          /\ \/ cpu' = [cpu EXCEPT !.at = "leave"]
                /\ UNCHANGED <<current, kstack, tss>>
             \/ schedule(runnable \cup woken, kstack, "leave")
  BY Zenon DEF Handle
<1>3. /\ runnable \subseteq runnable' /\ runnable' \subseteq live /\ live' = live
      /\ UNCHANGED <<boot, pics, table>>
  BY <1>1, <1>2, Inside DEF Asleep, Handle
<1>4. ASSUME cpu' = [cpu EXCEPT !.at = "leave"], UNCHANGED <<current, kstack, tss>>
      PROVE  TrInv'
  BY <1>1, <1>3, <1>4, Inside, MovesOn
<1>5. ASSUME NEW t \in Electable(runnable', whole),
             IF t = current
             THEN /\ cpu' = [cpu EXCEPT !.at = "leave"]
                  /\ UNCHANGED <<current, kstack, tss>>
             ELSE task_switch(t, kstack, cpu.hwint)
      PROVE  TrInv'
  <2>1. idle \in runnable'
    BY <1>1, <1>3, Inside
  <2>2. t \in runnable'
    BY <2>1, Elects
  <2>3. CASE t # current
    <3>1. Parked(current, Append(kstack[current], Switched(cpu.hwint)))
      BY <1>1, Inside, SwitchedAway, Zenon
    <3> QED  BY <1>1, <1>3, <1>5, <2>2, <2>3, <3>1, Inside, Elected, Zenon
  <2> QED  BY <1>4, <1>5, <2>3
<1>6. CASE Hang(whole)
  BY <1>1, <1>3, <1>6, Hangs DEF TrapInv
<1> QED  BY <1>2, <1>4, <1>5, <1>6 DEF schedule, TrapInv

\* A system call that returns at once.
LEMMA ReturnKeeps ==
    ASSUME TrInv, Return
    PROVE  TrInv'
<1>1. cpu.at \in InWrapper /\ cpu.at = "handler"
  BY DEF Return, InSyscall, InWrapper
<1> QED  BY <1>1, Inside, MovesOn DEF Return, tasks

\* A system call that puts its task to sleep.
LEMMA BlockKeeps ==
    ASSUME TrInv, Block
    PROVE  TrapInv'
<1>1. cpu.at \in InWrapper /\ cpu.at = "handler" /\ current # idle
  BY DEF Block, InSyscall, InWrapper
<1>2. /\ runnable' = runnable \ {current} /\ live' = live
      /\ UNCHANGED <<boot, pics, table>>
  BY DEF Block
<1>3. idle \in runnable' /\ current \notin runnable' /\ runnable' \subseteq live
  BY <1>1, <1>2, Inside
<1>4. Parked(current, Append(kstack[current], Switched(cpu.hwint)))
  BY <1>1, Inside, SwitchedAway, Zenon
<1>5. ASSUME NEW t \in Electable(runnable', whole), t # current,
             task_switch(t, kstack, cpu.hwint)
      PROVE  TrInv'
  <2>1. t \in runnable'
    BY <1>3, Elects
  <2> QED  BY <1>1, <1>2, <1>3, <1>4, <1>5, <2>1, Inside, Elected, Zenon
<1>6. CASE Hang(whole)
  BY <1>1, <1>2, <1>6, Hangs DEF TrapInv
<1>7. \A t \in Electable(runnable', whole) : t # current
  BY <1>3, Elects
<1> QED  BY <1>5, <1>6, <1>7 DEF Block, schedule, TrapInv

\* sys_fork: the child waits with the context of its parent.
LEMMA ForkKeeps ==
    ASSUME TrInv, NEW t \in Users \ live, Fork(t)
    PROVE  TrInv'
<1> DEFINE f == kstack[current][1]
<1>1. cpu.at \in InWrapper /\ cpu.at = "handler" /\ Cause = SYSCALL_INT_NUM
  BY DEF Fork, InSyscall, InWrapper
<1>2. f \in Frame /\ Trap(current, f) /\ f.vector = SYSCALL_INT_NUM
  BY <1>1, Inside, Zenon DEF Trap
<1>3. Trap(t, f)
  BY <1>2, Levels DEF Trap, IsUser, Level
<1>4. kstack' = [kstack EXCEPT ![t] = <<f>>] /\ t \in Task
  BY DEF Fork, Task
<1> HIDE DEF f
<1>5. /\ kstack' \in [Task -> Seq(Frame)] /\ Len(kstack'[t]) = 1 /\ kstack'[t][1] = f
      /\ \A u \in Task \ {t} : kstack'[u] = kstack[u]
  BY <1>1, <1>2, <1>4, Inside, Single
<1>6. \A u \in live' \ live : Parked(u, kstack'[u])
  BY <1>3, <1>5, Zenon DEF Fork, Parked
<1> QED  BY <1>1, <1>4, <1>5, <1>6, Inside, MovesOn DEF Fork

\* The end of a task.
LEMMA ExitKeeps ==
    ASSUME TrInv, do_exit
    PROVE  TrapInv'
<1> DEFINE stacks == [kstack EXCEPT ![current] = << >>]
<1>1. /\ cpu.at = "handler" \/ (cpu.at = "code" /\ current \in KThreads)
      /\ current # idle
  BY DEF do_exit, InSyscall, handle_exception
<1>2. /\ current \in Task /\ current \in runnable /\ idle \in runnable
      /\ runnable \subseteq live /\ cpu.hwint \in BOOLEAN
      /\ kstack \in [Task -> Seq(Frame)]
  BY <1>1 DEF TrInv, Typed, Multitasking, Processor
<1>3. PICK woken \in SUBSET Asleep :
          /\ runnable' = (runnable \ {current}) \cup woken
          /\ live' = live \ {current}
          /\ schedule(runnable', stacks, "handler")
  BY Zenon DEF do_exit
<1>4. UNCHANGED <<boot, pics, table>>
  BY DEF do_exit
<1>5. runnable' \subseteq live' /\ idle \in runnable' /\ current \notin runnable'
  BY <1>1, <1>2, <1>3 DEF Asleep
<1>6. CASE Hang(whole)
  BY <1>1, <1>3, <1>4, <1>6, Hangs DEF TrapInv
<1>7. \A t \in Electable(runnable', whole) : t \in runnable' /\ t # current
  BY <1>5, Elects
<1>8. stacks \in [Task -> Seq(Frame)] /\ \A u \in Task \ {current} : stacks[u] = kstack[u]
  <2>1. << >> \in Seq(Frame)
    OBVIOUS
  <2> QED  BY <1>2, <2>1
<1> HIDE DEF stacks
<1>9. ASSUME NEW t \in Electable(runnable', whole), task_switch(t, stacks, cpu.hwint)
      PROVE  TrInv'
  BY <1>1, <1>2, <1>3, <1>4, <1>5, <1>7, <1>8, <1>9, Elected
<1> QED  BY <1>3, <1>6, <1>7, <1>9 DEF schedule, TrapInv

\* What is known in the code of a kernel thread.
LEMMA InThread ==
    ASSUME TrInv, cpu.at \in {"code", "restore"}, current \in KThreads
    PROVE  /\ current \in Task /\ current \in runnable /\ idle \in runnable
           /\ runnable \subseteq live /\ kstack \in [Task -> Seq(Frame)]
           /\ Len(kstack[current]) = 0 /\ cpu.rpl = KERN_PRIVILEGE_LEVEL
           /\ \A u \in live \ {current} : Parked(u, kstack[u])
           /\ boot \in 10..11
<1>1. /\ current \in runnable /\ idle \in runnable
      /\ Running(current, cpu, kstack[current], tss)
      /\ boot \in 10..11 /\ \A u \in live \ {current} : Parked(u, kstack[u])
  BY DEF TrInv, Multitasking
<1>2. Len(kstack[current]) = 0 /\ cpu.rpl = KERN_PRIVILEGE_LEVEL
  BY <1>1, Levels DEF Running, InWrapper
<1> QED  BY <1>1, <1>2 DEF TrInv, Typed, Task

\* A kernel thread goes to sleep.
LEMMA SleepKeeps ==
    ASSUME TrInv, NEW flag \in BOOLEAN, ThreadSleeps(flag)
    PROVE  TrapInv'
<1>1. cpu.at = "code" /\ current \in KThreads /\ current # idle
  BY TrapsAssumption DEF ThreadSleeps
<1>2. runnable' = runnable \ {current} /\ live' = live /\ UNCHANGED <<boot, pics, table>>
  BY DEF ThreadSleeps
<1>3. idle \in runnable' /\ current \notin runnable' /\ runnable' \subseteq live
  BY <1>1, <1>2, InThread
<1>4. CASE Hang(whole')
  BY <1>1, <1>2, <1>4, Hangs DEF TrapInv
<1>5. Parked(current, Append(kstack[current], Switched(flag)))
  <2>1. Switched(flag) \in Frame
    BY Contexts, Zenon DEF Switched
  <2>2. /\ Len(Append(kstack[current], Switched(flag))) = 1
        /\ Append(kstack[current], Switched(flag))[1] = Switched(flag)
    BY <1>1, <2>1, InThread, Pushed
  <2>3. Switched(flag) \in {Ready, Switched(TRUE), Switched(FALSE)}
    BY Zenon
  <2> QED  BY <1>1, <2>2, <2>3, Zenon DEF Parked
<1>6. ASSUME NEW t \in Electable(runnable', whole'), task_switch(t, kstack, flag)
      PROVE  TrInv'
  <2>1. t \in runnable' /\ t # current
    BY <1>3, Elects
  <2> QED  BY <1>1, <1>2, <1>3, <1>5, <1>6, <2>1, InThread, Elected, Zenon
<1> QED  BY <1>4, <1>6 DEF ThreadSleeps, TrapInv

\* The end of ksema_down.
LEMMA RestoreKeeps ==
    ASSUME TrInv, restore_hwint
    PROVE  TrInv'
<1>1. cpu.at = "restore" /\ UNCHANGED <<boot, pics, table, tasks>>
  BY DEF restore_hwint
<1>2. current \in KThreads
  <2>1. Running(current, cpu, kstack[current], tss)
    BY <1>1 DEF TrInv, Multitasking
  <2> QED  BY <1>1, <2>1 DEF Running, InWrapper
<1>3. /\ cpu' \in Processor /\ cpu'.at = "code"
      /\ cpu'.rpl = cpu.rpl /\ cpu'.hwint = TRUE
  BY Zenon DEF TrInv, Typed, Processor, restore_hwint
<1>4. Booting' /\ Prepared' /\ InService'
  BY <1>1, <1>3, Kept
<1>5. Typed'
  BY <1>1, <1>3 DEF TrInv, Typed, table, tasks
<1>6. Running(current, cpu', kstack[current], tss)
  BY <1>1, <1>2, <1>3, InThread, Levels DEF Running
<1>7. Multitasking'
  BY <1>1, <1>2, <1>3, <1>6, InThread DEF Multitasking, tasks
<1> QED  BY <1>4, <1>5, <1>7 DEF TrInv

\* A device raises a line, or nothing happens.
LEMMA RaiseKeeps ==
    ASSUME TrInv, UNCHANGED <<boot, imr, isr, table, cpu, tasks>>
    PROVE  TrInv'
<1>1. Typed'
  BY DEF TrInv, Typed, table, tasks
<1>2. Booting'
  BY DEF TrInv, Booting, tasks
<1>3. Multitasking'
  BY DEF TrInv, Multitasking, tasks
<1>4. Prepared'
  BY DEF TrInv, Prepared, table
<1>5. InService'
  BY DEF TrInv, InService, Cause, table, tasks
<1> QED  BY <1>1, <1>2, <1>3, <1>4, <1>5 DEF TrInv
-----------------------------------------------------------------------------
\* Which call of simplix_main has which number.
LEMMA BootOrder ==
    ASSUME boot \in 1..9
    PROVE  /\ BootCalls[boot] = "init_pic" => boot = 1
           /\ BootCalls[boot] = "init_idt" => boot = 2
           /\ BootCalls[boot] = "init_gdt" => boot = 3
           /\ BootCalls[boot] = "init_ide_devices" => boot = 4
           /\ BootCalls[boot] = "init_kbd" => boot = 5
           /\ BootCalls[boot] = "init_exceptions" => boot = 6
           /\ BootCalls[boot] = "init_timer" => boot = 7
           /\ BootCalls[boot] = "kernel_thread" => boot = 8
           /\ BootCalls[boot] = "init_multitasking" => boot = 9
<1>1. boot = 1 \/ boot = 2 \/ boot = 3 \/ boot = 4 \/ boot = 5 \/ boot = 6 \/ boot = 7
        \/ boot = 8 \/ boot = 9
  OBVIOUS
<1> QED  BY <1>1 DEF BootCalls

\* A gate that is set stays set.
LEMMA GatesStay ==
    ASSUME Typed, NEW vectors, NEW dpl \in {KERN_PRIVILEGE_LEVEL, USER_PRIVILEGE_LEVEL},
           idt_set_handler(vectors, dpl)
    PROVE  /\ idt' \in [Vector -> {NULL, KERN_PRIVILEGE_LEVEL, USER_PRIVILEGE_LEVEL}]
           /\ \A v \in Vector : idt[v] # NULL => idt'[v] # NULL
           /\ \A v \in Vector \cap vectors : idt'[v] = dpl /\ idt'[v] # NULL
  BY TrapsAssumption DEF Typed, idt_set_handler

\* A call that leaves the tasks alone.
LEMMA BootCallKeeps ==
    ASSUME TrInv, cpu.at = "boot", boot \in 1..7, boot' = boot + 1,
           UNCHANGED <<cpu, tasks>>, isr' = {}, tr' \in BOOLEAN,
           idt' \in [Vector -> {NULL, KERN_PRIVILEGE_LEVEL, USER_PRIVILEGE_LEVEL}],
           Prepared'
    PROVE  TrInv'
<1>1. Typed'
  BY DEF TrInv, Typed, tasks
<1>2. Booting'
  BY DEF TrInv, Booting, tasks
<1>3. Multitasking' /\ InService'
  BY DEF Multitasking, InService
<1> QED  BY <1>1, <1>2, <1>3 DEF TrInv

\* A driver gives its lines a handler before it takes them out of the mask.
LEMMA DriverKeeps ==
    ASSUME TrInv, cpu.at = "boot", boot \in {4, 5, 7}, boot' = boot + 1,
           NEW lines \in SUBSET Line, Driver(lines)
    PROVE  TrInv'
<1>1. /\ idt' \in [Vector -> {NULL, KERN_PRIVILEGE_LEVEL, USER_PRIVILEGE_LEVEL}]
      /\ \A v \in Vector : idt[v] # NULL => idt'[v] # NULL
      /\ \A v \in Vector \cap {IRQ_OFFSET + l : l \in lines} : idt'[v] # NULL
  BY GatesStay DEF TrInv, Driver, irq_set_handler
<1>2. /\ irq_handler_array' = irq_handler_array \cup lines /\ imr' = imr \ lines
      /\ tr' = tr /\ isr' = isr /\ UNCHANGED <<cpu, tasks>>
  BY DEF Driver, irq_set_handler, enable_irq_line
<1>3. ASSUME NEW l \in Line \ {SLAVE_PIC}, l \notin imr'
      PROVE  l \in irq_handler_array' /\ idt'[IRQ_OFFSET + l] # NULL
  <2>1. IRQ_OFFSET + l \in Vector
    BY DEF Vector, Line, IRQ_OFFSET, NR_IRQS
  <2>2. CASE l \in lines
    BY <1>1, <1>2, <2>1, <2>2
  <2>3. CASE l \notin lines
    <3>1. l \in irq_handler_array /\ idt[IRQ_OFFSET + l] # NULL
      BY <1>2, <1>3, <2>3 DEF TrInv, Prepared
    <3> QED  BY <1>1, <1>2, <2>1, <3>1
  <2> QED  BY <2>2, <2>3
<1>4. boot >= 7 => \A v \in Handled : idt'[v] # NULL
  BY <1>1 DEF TrInv, Prepared, Handled, Vector, IRQ_OFFSET, NR_IRQS
<1>5. Prepared'
  BY <1>2, <1>3, <1>4 DEF TrInv, Prepared
<1>6. isr' = {} /\ tr' \in BOOLEAN
  BY <1>2 DEF TrInv, Typed, InService
<1> QED  BY <1>1, <1>2, <1>5, <1>6, BootCallKeeps

\* kernel_thread, called for each thread.
LEMMA ThreadsKeep ==
    ASSUME TrInv, cpu.at = "boot", boot = 8, boot' = 9, kernel_thread
    PROVE  TrInv'
<1>1. /\ UNCHANGED <<table, pics, cpu, current, tss>>
      /\ live' = KThreads /\ runnable' = KThreads
      /\ kstack' = [t \in Task |-> IF t \in KThreads THEN <<Ready>> ELSE kstack[t]]
  BY DEF kernel_thread, Ready
<1>2. Ready \in Frame
  BY Contexts, Zenon DEF Ready
<1>3. /\ kstack' \in [Task -> Seq(Frame)]
      /\ \A t \in KThreads : Len(kstack'[t]) = 1 /\ kstack'[t][1] = Ready
      /\ kstack'[idle] = kstack[idle]
  BY <1>1, <1>2, Single, TrapsAssumption DEF TrInv, Typed, Task
<1>4. Typed'
  BY <1>1, <1>3 DEF TrInv, Typed, table, Task
<1>5. Booting'
  BY <1>1, <1>3, TrapsAssumption DEF TrInv, Booting
<1>6. Multitasking' /\ InService'
  BY <1>1 DEF TrInv, Multitasking, InService, pics
<1>7. Prepared'
  <2>1. UNCHANGED <<tr, idt, irq_handler_array, imr>>
    BY <1>1 DEF table, pics
  <2> QED  BY <2>1 DEF TrInv, Prepared
<1> QED  BY <1>4, <1>5, <1>6, <1>7 DEF TrInv

\* init_multitasking: from now on the idle task runs.
LEMMA MultitaskingKeeps ==
    ASSUME TrInv, cpu.at = "boot", boot = 9, boot' = 10, init_multitasking
    PROVE  TrInv'
<1>1. /\ tss' = idle /\ current' = idle
      /\ live' = live \cup {idle} /\ runnable' = runnable \cup {idle}
      /\ cpu' = [rpl |-> USER_PRIVILEGE_LEVEL, hwint |-> TRUE, at |-> "code"]
      /\ UNCHANGED <<tr, pics, irq_handler_array, exception_handler_array, kstack>>
  BY DEF init_multitasking
<1>2. /\ idt' \in [Vector -> {NULL, KERN_PRIVILEGE_LEVEL, USER_PRIVILEGE_LEVEL}]
      /\ \A v \in Vector : idt[v] # NULL => idt'[v] # NULL
      /\ \A v \in Vector \cap {SYSCALL_INT_NUM} : idt'[v] = USER_PRIVILEGE_LEVEL
  BY GatesStay DEF TrInv, init_multitasking
<1>3. cpu' \in Processor /\ cpu'.at = "code"
  BY <1>1 DEF Processor
<1>4. Typed'
  BY <1>1, <1>2, <1>3 DEF TrInv, Typed, Task
<1>5. Booting' /\ InService'
  BY <1>1, <1>3 DEF TrInv, Booting, InService, pics
<1>6. Prepared'
  <2>1. \A l \in Line : IRQ_OFFSET + l \in Vector
    BY DEF Vector, Line, IRQ_OFFSET, NR_IRQS
  <2>2. Handled \subseteq Vector /\ SYSCALL_INT_NUM \in Vector
    BY DEF Handled, Vector, IRQ_OFFSET, NR_IRQS
  <2> QED  BY <1>1, <1>2, <2>1, <2>2 DEF TrInv, Prepared, pics
<1>7. Running(idle, cpu', kstack[idle], tss')
  BY <1>1, <1>3, Levels DEF TrInv, Booting, Running
<1>8. ASSUME NEW t \in live PROVE Parked(t, kstack[t])
  BY Zenon DEF TrInv, Booting, Parked
<1>9. Multitasking'
  BY <1>1, <1>3, <1>7, <1>8 DEF Multitasking
<1> QED  BY <1>4, <1>5, <1>6, <1>9 DEF TrInv

\* The calls of simplix_main, in their order.
LEMMA BootKeeps ==
    ASSUME TrInv, BootStep
    PROVE  TrInv'
<1>1. cpu.at = "boot" /\ boot' = boot + 1
  BY DEF BootStep, Calls
<1>2. boot \in 1..9 /\ isr = {} /\ tr \in BOOLEAN
  BY <1>1 DEF TrInv, Booting, InService, Typed
<1>3. idt \in [Vector -> {NULL, KERN_PRIVILEGE_LEVEL, USER_PRIVILEGE_LEVEL}]
  BY DEF TrInv, Typed
<1>4. CASE Calls("init_pic") /\ init_pic
  <2>1. boot = 1
    BY <1>2, <1>4, BootOrder DEF Calls
  <2>2. Prepared'
    BY <1>1, <1>4, <2>1 DEF Prepared, init_pic
  <2> QED  BY <1>1, <1>2, <1>3, <1>4, <2>1, <2>2, BootCallKeeps DEF init_pic, table
<1>5. CASE Calls("init_idt") /\ init_idt
  <2>1. boot = 2
    BY <1>2, <1>5, BootOrder DEF Calls
  <2>2. Prepared'
    BY <1>1, <1>5, <2>1 DEF TrInv, Prepared, init_idt, pics
  <2>3. idt' \in [Vector -> {NULL, KERN_PRIVILEGE_LEVEL, USER_PRIVILEGE_LEVEL}]
    BY <1>5 DEF init_idt
  <2> QED  BY <1>1, <1>2, <1>5, <2>1, <2>2, <2>3, BootCallKeeps DEF init_idt, pics
<1>6. CASE Calls("init_gdt") /\ init_gdt
  <2>1. boot = 3
    BY <1>2, <1>6, BootOrder DEF Calls
  <2>2. Prepared'
    BY <1>1, <1>6, <2>1 DEF TrInv, Prepared, init_gdt, pics
  <2> QED  BY <1>1, <1>2, <1>3, <1>6, <2>1, <2>2, BootCallKeeps DEF init_gdt, pics
<1>7. CASE Calls("init_ide_devices") /\ Driver({IRQ_PRIMARY_IDE, IRQ_SECONDARY_IDE})
  <2>1. boot = 4
    BY <1>2, <1>7, BootOrder DEF Calls
  <2>2. {IRQ_PRIMARY_IDE, IRQ_SECONDARY_IDE} \in SUBSET Line
    BY DEF IRQ_PRIMARY_IDE, IRQ_SECONDARY_IDE, Line, NR_IRQS
  <2> QED  BY <1>1, <1>7, <2>1, <2>2, DriverKeeps
<1>8. CASE Calls("init_kbd") /\ Driver({IRQ_KEYBOARD})
  <2>1. boot = 5
    BY <1>2, <1>8, BootOrder DEF Calls
  <2>2. {IRQ_KEYBOARD} \in SUBSET Line
    BY DEF IRQ_KEYBOARD, Line, NR_IRQS
  <2> QED  BY <1>1, <1>8, <2>1, <2>2, DriverKeeps
<1>9. CASE Calls("init_exceptions") /\ init_exceptions
  <2>1. boot = 6
    BY <1>2, <1>9, BootOrder DEF Calls
  <2>2. /\ idt' \in [Vector -> {NULL, KERN_PRIVILEGE_LEVEL, USER_PRIVILEGE_LEVEL}]
        /\ \A v \in Vector : idt[v] # NULL => idt'[v] # NULL
        /\ \A v \in Vector \cap Handled : idt'[v] # NULL
    BY <1>9, GatesStay DEF TrInv, init_exceptions, exception_set_handler
  <2>3. Prepared'
    <3>1. Handled \subseteq Vector /\ \A l \in Line : IRQ_OFFSET + l \in Vector
      BY DEF Handled, Vector, Line, IRQ_OFFSET, NR_IRQS
    <3> QED  BY <1>1, <1>9, <2>1, <2>2, <3>1 DEF TrInv, Prepared, init_exceptions, pics
  <2> QED  BY <1>1, <1>2, <1>9, <2>1, <2>2, <2>3, BootCallKeeps DEF init_exceptions, pics
<1>10. CASE Calls("init_timer") /\ Driver({IRQ_TIMER})
  <2>1. boot = 7
    BY <1>2, <1>10, BootOrder DEF Calls
  <2>2. {IRQ_TIMER} \in SUBSET Line
    BY DEF IRQ_TIMER, Line, NR_IRQS
  <2> QED  BY <1>1, <1>10, <2>1, <2>2, DriverKeeps
<1>11. CASE Calls("kernel_thread") /\ kernel_thread
  BY <1>1, <1>2, <1>11, BootOrder, ThreadsKeep DEF Calls
<1>12. CASE Calls("init_multitasking") /\ init_multitasking
  BY <1>1, <1>2, <1>12, BootOrder, MultitaskingKeeps DEF Calls
<1> QED  BY <1>4, <1>5, <1>6, <1>7, <1>8, <1>9, <1>10, <1>11, <1>12 DEF BootStep
-----------------------------------------------------------------------------
\* The boot loader starts simplix_main with TrInv.
LEMMA InitTrInv == Init => TrInv
<1> SUFFICES ASSUME Init PROVE TrInv
  OBVIOUS
<1>1. << >> \in Seq(Frame) /\ Len(<< >>) = 0
  OBVIOUS
<1>2. cpu \in Processor /\ cpu.at = "boot"
  BY DEF Init, Processor
<1>3. Typed
  <2>1. tr \in BOOLEAN
    BY Zenon DEF Init
  <2>2. /\ boot \in 1..11 /\ live \subseteq Task /\ runnable \subseteq live
        /\ idt \in [Vector -> {NULL, KERN_PRIVILEGE_LEVEL, USER_PRIVILEGE_LEVEL}]
        /\ kstack \in [Task -> Seq(Frame)]
    BY <1>1 DEF Init
  <2> QED  BY <1>2, <2>1, <2>2 DEF Typed
<1>4. Booting
  BY <1>1 DEF Init, Booting, Task
<1>5. Multitasking /\ InService
  BY <1>2 DEF Init, Multitasking, InService
<1>6. Prepared
  BY DEF Init, Prepared
<1> QED  BY <1>3, <1>4, <1>5, <1>6 DEF TrInv

\* Nothing happens after a traversal hangs.
LEMMA HaltedStays ==
    ASSUME Halted, [Next]_vars
    PROVE  Halted'
<1>1. UNCHANGED vars
  BY DEF Halted, Next, Kernel, BootStep, Calls, Acknowledge, Handle, Leave, Return,
         Block, InSyscall, Fork, do_exit, handle_exception, restore_hwint, Raise,
         Interrupt, Syscall, Exception, ThreadSleeps, Hung
<1> QED  BY <1>1 DEF Halted, vars, pics, tasks

\* Every step keeps TrInv, or hangs, when only exceptions with a handler are caused.
LEMMA NextTrInv ==
    ASSUME Faults \subseteq Handled, TrInv, [Next]_vars
    PROVE  TrapInv'
<1> USE DEF TrapInv
<1>1. CASE BootStep
  BY <1>1, BootKeeps
<1>2. CASE Kernel
  <2>1. CASE Acknowledge
    BY <2>1, AcknowledgeKeeps
  <2>2. CASE Handle
    BY <2>2, HandleKeeps
  <2>3. CASE Leave
    BY <2>3, LeaveKeeps
  <2>4. CASE Return
    BY <2>4, ReturnKeeps
  <2>5. CASE Block
    BY <2>5, BlockKeeps
  <2>6. CASE \E t \in Users \ live : Fork(t)
    BY <2>6, ForkKeeps
  <2>7. CASE do_exit
    BY <2>7, ExitKeeps
  <2>8. CASE restore_hwint
    BY <2>8, RestoreKeeps
  <2> QED  BY <1>2, <2>1, <2>2, <2>3, <2>4, <2>5, <2>6, <2>7, <2>8 DEF Kernel
<1>3. CASE \E l \in Sources : Raise(l)
  BY <1>3, RaiseKeeps DEF Raise
<1>4. CASE \E l \in Sources : Interrupt(l)
  BY <1>4, InterruptKeeps
<1>5. CASE Syscall
  BY <1>5, SyscallKeeps
<1>6. CASE \E v \in Faults : Exception(v)
  BY <1>6, ExceptionKeeps
<1>7. CASE do_exit
  BY <1>7, ExitKeeps
<1>8. CASE \E flag \in BOOLEAN : ThreadSleeps(flag)
  BY <1>8, SleepKeeps
<1>9. CASE UNCHANGED vars
  BY <1>9, RaiseKeeps DEF vars, pics
<1> QED  BY <1>1, <1>2, <1>3, <1>4, <1>5, <1>6, <1>7, <1>8, <1>9 DEF Next, Hung

\* In every reachable state the processor, the stacks of the kernel, the TSS, the
\* tables and the interrupt controllers fit together, or a traversal of the task
\* list that ksema_down has damaged hangs in the kernel (KSync.tla).
THEOREM TrapInvariance ==
    ASSUME Faults \subseteq Handled
    PROVE  Spec => []TrapInv
<1>1. TrapInv /\ [Next]_vars => TrapInv'
  BY NextTrInv, HaltedStays DEF TrapInv
<1>2. Init => TrapInv
  BY InitTrInv DEF TrapInv
<1> QED  BY <1>1, <1>2, PTL DEF Spec

\* Whatever interrupts, system calls and switches led to it, a task in user mode
\* has its own stack in the TSS, its own LDT, an empty kernel stack and interrupts
\* on: update_tss_ldt in the wrappers (isr.S, syscall.S) and in task_switch.
THEOREM UserModeStaysIntact ==
    ASSUME Faults \subseteq Handled
    PROVE  Spec => []UserModeIntact
<1>1. Halted => UserModeIntact
  BY DEF Halted, UserModeIntact, USER_PRIVILEGE_LEVEL, KERN_PRIVILEGE_LEVEL
<1>2. TrInv => UserModeIntact
  <2> SUFFICES ASSUME TrInv, cpu.rpl = USER_PRIVILEGE_LEVEL
               PROVE  /\ tss = current /\ kstack[current] = << >>
                      /\ cpu.hwint /\ IsUser(current)
    BY DEF UserModeIntact
  <2>1. cpu.at # "boot"
    BY DEF TrInv, Booting, USER_PRIVILEGE_LEVEL, KERN_PRIVILEGE_LEVEL
  <2>2. Running(current, cpu, kstack[current], tss) /\ kstack[current] \in Seq(Frame)
    BY <2>1 DEF TrInv, Typed, Multitasking
  <2>3. /\ cpu.hwint = TRUE /\ Len(kstack[current]) = 0 /\ Level(current) = USER_PRIVILEGE_LEVEL
        /\ (IsUser(current) => tss = current)
    BY <2>2, SMTT(60) DEF Running, USER_PRIVILEGE_LEVEL, KERN_PRIVILEGE_LEVEL
  <2>4. IsUser(current)
    BY <2>3 DEF Level, USER_PRIVILEGE_LEVEL, KERN_PRIVILEGE_LEVEL
  <2> QED  BY <2>2, <2>3, <2>4, Popped
<1>3. TrapInv => UserModeIntact
  BY <1>1, <1>2 DEF TrapInv
<1> QED  BY <1>3, TrapInvariance, PTL

\* However many interrupts arrive, a kernel stack holds the context of one trap and
\* one of task_switch: the gates keep interrupts off until the wrapper's iret.
THEOREM StacksStayBounded ==
    ASSUME Faults \subseteq Handled
    PROVE  Spec => []StackBounded
<1>1. TrapInv => StackBounded
  <2> SUFFICES ASSUME TrapInv, NEW t \in live
               PROVE  /\ Len(kstack[t]) <= 2
                      /\ Len(kstack[t]) = 2 => /\ kstack[t][1].vector # SWITCH
                                               /\ kstack[t][2].vector = SWITCH
    BY DEF StackBounded
  <2>1. Len(kstack[t]) \in {0, 1} \/ Parked(t, kstack[t])
    <3>1. CASE Halted
      BY <3>1 DEF Halted
    <3>2. CASE TrInv /\ cpu.at = "boot"
      BY <3>2 DEF TrInv, Booting
    <3>3. CASE TrInv /\ cpu.at # "boot" /\ t = current
      <4>1. Running(t, cpu, kstack[t], tss)
        BY <3>3 DEF TrInv, Multitasking
      <4> QED  BY <4>1 DEF Running
    <3>4. CASE TrInv /\ cpu.at # "boot" /\ t # current
      BY <3>4 DEF TrInv, Multitasking
    <3> QED  BY <3>1, <3>2, <3>3, <3>4 DEF TrapInv
  <2>2. CASE Len(kstack[t]) \in {0, 1}
    <3>1. CASE Len(kstack[t]) = 0
      BY <3>1
    <3>2. CASE Len(kstack[t]) = 1
      BY <3>2
    <3> QED  BY <2>2, <3>1, <3>2, Zenon
  <2>3. CASE Len(kstack[t]) = 2 /\ Trap(t, kstack[t][1]) /\ kstack[t][2] = Switched(FALSE)
    <3>1. kstack[t][1].vector # SWITCH
      <4>1. kstack[t][1].vector \in Vector
        BY <2>3 DEF Trap
      <4>2. SWITCH \notin Vector
        BY DEF Vector, SWITCH, IRQ_OFFSET, NR_IRQS, SYSCALL_INT_NUM
      <4> QED  BY <4>1, <4>2
    <3>2. kstack[t][2].vector = SWITCH
      BY <2>3, Contexts, Zenon DEF Switched
    <3>3. Len(kstack[t]) <= 2
      BY <2>3
    <3> QED  BY <3>1, <3>2, <3>3
  <2>4. Parked(t, kstack[t]) => Len(kstack[t]) = 1 \/
            (Len(kstack[t]) = 2 /\ Trap(t, kstack[t][1]) /\ kstack[t][2] = Switched(FALSE))
    BY Zenon DEF Parked
  <2>5. Len(kstack[t]) = 1 => Len(kstack[t]) \in {0, 1}
    OBVIOUS
  <2> QED  BY <2>1, <2>2, <2>3, <2>4, <2>5, Zenon
<1> QED  BY <1>1, TrapInvariance, PTL

\* No line of the interrupt controllers stays in service when a handler switches
\* tasks, and every trap finds its gate and its handler: the order of the calls in
\* simplix_main, and the commands that isr.S sends before it calls the handler.
THEOREM LinesAreFreed ==
    ASSUME Faults \subseteq Handled
    PROVE  Spec => []NoLineStuck
<1>1. TrInv => NoLineStuck
  BY DEF TrInv, Typed, Processor, InWrapper, InService, NoLineStuck
<1>2. Halted => NoLineStuck
  BY DEF Halted, NoLineStuck
<1>3. TrapInv => NoLineStuck
  BY <1>1, <1>2 DEF TrapInv
<1> QED  BY <1>3, TrapInvariance, PTL
=============================================================================
