----------------------------- MODULE TaskMemory -----------------------------
(***************************************************************************)
(* The physical memory of tasks: kernel_thread, do_exit and do_waitpid     *)
(* (kernel/task.c), init_multitasking (sched.c), sys_fork and sys_brk      *)
(* (sys.c), as clients of the page allocator, of which they see what       *)
(* PageMap.tla promises.                                                   *)
(*                                                                         *)
(* All of these run with interrupts off (in simplix_main, behind an        *)
(* interrupt gate, or after cli), so one call runs at a time: call holds   *)
(* its local variables, and each request to the allocator is a step.       *)
(* Sizes are in pages: the linker script and PAGE_ALIGN_SUP see to it that *)
(* the segment descriptors, which drop the low 12 bits, lose nothing.      *)
(***************************************************************************)
EXTENDS Integers, FiniteSets

CONSTANTS
    NrPages, Usable, MaxRequest,    \* of PageMap
    idle, KThreads, Users, init,    \* init is one of Users
    KSTACK_PAGES,
    cs_size, ds_size,               \* __e_text and __idle_ustack
    Others,                         \* pages other parts of the kernel hold
    BrkSizes,                       \* bound: the sizes tasks ask brk for
    Junk                            \* what an unset local variable may hold

Task == {idle} \cup KThreads \cup Users
NoAddr == 0                         \* NULL; page 0 is never given out

ASSUME TaskMemoryAssumption ==
    /\ NrPages \in Nat /\ Usable \subseteq 0..(NrPages - 1) /\ Usable # {}
    /\ IsFiniteSet(KThreads \cup Users)
    /\ idle \notin KThreads \cup Users /\ KThreads \cap Users = {}
    /\ init \in Users /\ NoAddr \notin Usable
    /\ {KSTACK_PAGES, cs_size, ds_size} \cup Others \subseteq Nat \ {0}
    /\ cs_size <= ds_size /\ BrkSizes \subseteq Nat

VARIABLES
    owner, reply, stopped,          \* of PageMap
    state,                          \* "none", "alive" or "dead"
    kstack,                         \* t->kstack
    ldt,                            \* of t->ldt: the bases and sizes of cs, ds
    call,                           \* the call in progress
    misfreed                        \* history: a fork that failed has given back
                                    \* a block at the address it never set

Mem == INSTANCE PageMap

memory == <<owner, reply, stopped>>
vars   == <<memory, state, kstack, ldt, call, misfreed>>

Idle == [op |-> "none", t |-> idle, p |-> idle, step |-> "none", ds |-> NoAddr]

Segments(base, cs, ds) == [cs_addr |-> base, cs |-> cs, ds_addr |-> base, ds |-> ds]

\* The block of the other parts, the first to be given out.
other == CHOOSE b \in Usable : \A a \in Usable : b <= a

\* The image of the kernel, with the code and data of the first task, is at 0.
\* The caches of kmalloc and the RAM disks have their pages before the tasks.
Init ==
    /\ \E n \in Others : owner = Mem!Give([b \in {} |-> 0], other, n)
    /\ reply = [op |-> "none", addr |-> 0, n |-> 0, old |-> 0, res |-> "none"]
    /\ stopped = "no"
    /\ state = [t \in Task |-> "none"]
    /\ kstack = [t \in Task |-> NoAddr]
    /\ ldt = [t \in Task |-> Segments(NoAddr, 0, 0)]
    /\ call = Idle /\ misfreed = FALSE

Alive == {t \in Task : state[t] = "alive"}
Booting == idle \notin Alive

Begin(op, t, p, step, ds) ==
    /\ stopped = "no" /\ call = Idle
    /\ call' = [op |-> op, t |-> t, p |-> p, step |-> step, ds |-> ds]

At(op, step) == stopped = "no" /\ call.op = op /\ call.step = step
Goto(step) == call' = [call EXCEPT !.step = step]

panic == stopped' = "panic" /\ UNCHANGED <<owner, reply, state, kstack, ldt, call>>

\* A request outside the promise of PageMap stops the kernel.
free_physmem_block(b) ==
    /\ Mem!Free(b)
    /\ IF stopped' = "no" THEN TRUE ELSE UNCHANGED <<owner, reply>>
realloc_physmem_block(b, n) ==
    /\ Mem!Realloc(b, n)
    /\ IF stopped' = "undefined" THEN UNCHANGED <<owner, reply>> ELSE TRUE

\* The new task is complete and goes on the list of tasks.
Started(t) ==
    /\ state' = [state EXCEPT ![t] = "alive"]
    /\ call' = Idle
-----------------------------------------------------------------------------
\* kmalloc clears the new descriptor, or fails.
AfterKmalloc == {"kstack", "free_ds"}

\* kernel_thread, at boot.
kernel_thread(t) ==
    /\ Booting /\ state[t] = "none"
    /\ \E step \in AfterKmalloc : Begin("thread", t, idle, step, NoAddr)
    /\ UNCHANGED <<memory, state, kstack, ldt>>

init_multitasking ==
    /\ Booting
    /\ Begin("idle", idle, idle, "kstack", NoAddr)
    /\ UNCHANGED <<memory, state, kstack, ldt>>

\* sys_fork: a descriptor for t.  new_ds_addr is not initialised.
sys_fork(p, t) ==
    /\ p \in Alive \cap (Users \cup {idle}) /\ state[t] = "none"
    /\ p = idle <=> t = init
    /\ \E step \in AfterKmalloc, junk \in Junk : Begin("fork", t, p, step, junk)
    /\ UNCHANGED <<memory, state, kstack, ldt>>

\* The kernel stack of a new task.
AllocStack ==
    /\ \E op \in {"thread", "idle", "fork"} : At(op, "kstack")
    /\ Mem!Alloc(KSTACK_PAGES)
    /\ \/ /\ reply'.res = "S_OK"
          /\ kstack' = [kstack EXCEPT ![call.t] = reply'.addr]
          /\ \/ call.op = "thread" /\ Started(call.t) /\ ldt' = ldt
             \/ /\ call.op = "idle" /\ Started(idle)
                /\ ldt' = [ldt EXCEPT ![idle] = Segments(NoAddr, cs_size, ds_size)]
             \/ call.op = "fork" /\ Goto("segment") /\ UNCHANGED <<state, ldt>>
       \/ /\ reply'.res = "E_NOMEM" /\ call.op # "idle"
          /\ Goto("free_ds") /\ UNCHANGED <<state, kstack, ldt>>

\* init_multitasking has no other way out.
AllocStackFails ==
    /\ At("idle", "kstack") /\ Mem!NoRoom(KSTACK_PAGES)
    /\ panic

\* sys_fork and sys_brk panic otherwise: see SegmentsJoined.
Joined(t) == ldt[t].cs_addr = ldt[t].ds_addr /\ ldt[t].cs <= ldt[t].ds

\* The segment of the child, as large as that of the parent.
AllocSegment ==
    /\ At("fork", "segment") /\ Joined(call.p)
    /\ Mem!Alloc(ldt[call.p].ds)
    /\ \/ /\ reply'.res = "S_OK" /\ Started(call.t)
          /\ ldt' = [ldt EXCEPT ![call.t] =
                        Segments(reply'.addr, ldt[call.p].cs, ldt[call.p].ds)]
       \/ reply'.res = "E_NOMEM" /\ Goto("free_ds") /\ UNCHANGED <<state, ldt>>
    /\ kstack' = kstack

\* The error paths of sys_fork and kernel_thread; the latter has no segment.  The
\* former has not set new_ds_addr: whatever it gives back is somebody else's.
FreeSegment ==
    /\ \E op \in {"fork", "thread"} : At(op, "free_ds")
    /\ IF call.ds = NoAddr THEN UNCHANGED memory ELSE free_physmem_block(call.ds)
    /\ misfreed' = (misfreed \/ owner' # owner)
    /\ Goto("free_kstack")
    /\ UNCHANGED <<state, kstack, ldt>>

\* Mutant: the kernel stack of the child that was not made is kept.
FreeStack_Kept ==
    /\ \E op \in {"fork", "thread"} : At(op, "free_kstack")
    /\ call' = Idle
    /\ UNCHANGED <<memory, state, kstack, ldt>>

FreeStack ==
    /\ \E op \in {"fork", "thread"} : At(op, "free_kstack")
    /\ IF kstack[call.t] = NoAddr THEN UNCHANGED memory
       ELSE free_physmem_block(kstack[call.t])
    /\ call' = Idle
    /\ kstack' = [kstack EXCEPT ![call.t] = NoAddr]
    /\ UNCHANGED <<state, ldt>>
-----------------------------------------------------------------------------
\* do_exit; idle and init never call it.
do_exit(t) ==
    /\ ~Booting /\ t \in Alive \ {idle, init}
    /\ Begin("exit", t, t, "kstack", NoAddr)
    /\ state' = [state EXCEPT ![t] = "dead"]
    /\ UNCHANGED <<memory, kstack, ldt>>

ExitStack ==
    /\ At("exit", "kstack") /\ free_physmem_block(kstack[call.t])
    /\ IF call.t \in Users THEN Goto("segment") ELSE call' = Idle
    /\ UNCHANGED <<state, kstack, ldt>>

ExitSegment ==
    /\ At("exit", "segment") /\ free_physmem_block(ldt[call.t].cs_addr)
    /\ call' = Idle
    /\ UNCHANGED <<state, kstack, ldt>>

\* do_waitpid has found t dead: kfree(t), after which the descriptor is no more.
Reap(t) ==
    /\ call = Idle /\ stopped = "no" /\ state[t] = "dead"
    /\ state' = [state EXCEPT ![t] = "none"]
    /\ kstack' = [kstack EXCEPT ![t] = NoAddr]
    /\ ldt' = [ldt EXCEPT ![t] = Segments(NoAddr, 0, 0)]
    /\ UNCHANGED <<memory, call>>

\* Mutant: the code segment stays where it was.
Resize_DataOnly(t, addr, n) ==
    ldt' = [ldt EXCEPT ![t].ds_addr = addr, ![t].ds = n]

Resize(t, addr, n) == ldt' = [ldt EXCEPT ![t] = Segments(addr, @.cs, n)]

\* sys_brk with a size that is not below that of the code.
sys_brk(t, n) ==
    /\ stopped = "no" /\ call = Idle /\ t \in Alive \cap Users
    /\ Joined(t) /\ n >= ldt[t].cs
    /\ realloc_physmem_block(ldt[t].ds_addr, n)
    /\ \/ stopped' = "no" /\ reply'.res = "S_OK" /\ Resize(t, reply'.addr, n)
       \/ (stopped' # "no" \/ reply'.res # "S_OK") /\ ldt' = ldt
    /\ UNCHANGED <<state, kstack, call>>
-----------------------------------------------------------------------------
Stopped == stopped # "no" /\ UNCHANGED vars

Next ==
    \/ FreeSegment
    \/ Stopped
    \/ /\ \/ \E t \in KThreads : kernel_thread(t)
          \/ init_multitasking
          \/ \E p \in Task, t \in Users : sys_fork(p, t)
          \/ AllocStack \/ AllocStackFails \/ AllocSegment \/ FreeStack
          \/ \E t \in KThreads \cup Users : do_exit(t) \/ Reap(t)
          \/ ExitStack \/ ExitSegment
          \/ \E t \in Users, n \in BrkSizes : sys_brk(t, n)
       /\ UNCHANGED misfreed

Spec == Init /\ [][Next]_vars
-----------------------------------------------------------------------------
Pages(b, n) == b..(b + n - 1)

\* Between calls the blocks handed out to tasks are exactly the kernel stacks and the
\* segments of the living tasks, each of the size the task believes it has: no
\* path through fork, brk and exit loses a block or gives one back twice, until the
\* error path of a fork gives back a block at the unset new_ds_addr.
MemoryExact ==
    call = Idle /\ stopped = "no" /\ ~misfreed =>
        LET stacks   == {kstack[t] : t \in Alive}
            segments == {ldt[t].ds_addr : t \in Alive \cap Users}
        IN  /\ DOMAIN owner = {other} \cup stacks \cup segments
            /\ Cardinality(DOMAIN owner) =
                  1 + Cardinality(Alive) + Cardinality(Alive \cap Users)
            /\ \A t \in Alive : owner[kstack[t]] = KSTACK_PAGES
            /\ \A t \in Alive \cap Users : owner[ldt[t].ds_addr] = ldt[t].ds

\* The code and the data of a living user task start at the same page and the
\* data is no smaller than the code, so sys_fork and sys_brk never panic.
SegmentsJoined == \A t \in Alive \cap Users : Joined(t)

\* sys.c:121, on the error path of sys_fork: "Free the memory we allocated."
FreesWhatItTook == ~misfreed
=============================================================================
