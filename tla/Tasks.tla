------------------------------- MODULE Tasks -------------------------------
(***************************************************************************)
(* Tasks, their states and the scheduler: kernel/sched.c, kernel/task.c,   *)
(* the task system calls of kernel/sys.c and the clock handler of          *)
(* kernel/timer.c.                                                         *)
(*                                                                         *)
(* There is one CPU.  System calls and exceptions of user tasks enter the  *)
(* kernel through interrupt gates, with interrupts off: each is one step,  *)
(* up to the point where it gives up the CPU.  Kernel threads run with     *)
(* interrupts on, so the clock interrupt can come between two statements   *)
(* of do_sleep.  pc[t] says where t is:                                    *)
(*   "boot"     idle, before it has forked the init task (main.c:105)      *)
(*   "run"      outside the functions modelled here, interrupts on         *)
(*   "armed"    a kernel thread in do_sleep that has set its timeout       *)
(*   "parked"   the same, after sleep_on has set its state                 *)
(*   "waitpid"  in do_waitpid after a sleep, interrupts off                *)
(* The memory a task takes is modelled in PhysMem.tla; here an allocation  *)
(* may fail at any time.                                                   *)
(***************************************************************************)
EXTENDS Sequences, FiniteSetsExt

CONSTANTS
    idle,                   \* the idle task
    KThreads,               \* the kernel threads started at boot, in order
    Users,                  \* bound: room for this many user tasks
    MAX_PID, SCHED_TICKS,
    INITIAL_TIMESLICE, TIMESLICE_INCREMENT, MAX_TIMESLICE,
    HZ, MsPerSec,           \* ticks, and milliseconds, in a second
    Word,                   \* an unsigned long holds 0..(Word - 1)
    SleepArgs               \* bound: the times passed to sleep, in ms

KThread == Range(KThreads)
Task    == {idle} \cup KThread \cup Users

IDLE_TASK_PID == 0
INIT_TASK_PID == 1
NoPid         == -1

ASSUME TasksAssumption ==
    /\ MAX_PID \in Nat /\ SleepArgs \subseteq Nat \ {0}
    /\ {SCHED_TICKS, INITIAL_TIMESLICE, TIMESLICE_INCREMENT, MAX_TIMESLICE,
        HZ, MsPerSec, Word} \subseteq Nat \ {0}
    /\ INITIAL_TIMESLICE <= MAX_TIMESLICE
    /\ IsFiniteSet(Users) /\ idle \notin KThread \cup Users
    /\ KThreads \in Seq(KThread) /\ IsInjective(KThreads)
    /\ KThread \cap Users = {}
    \* bound: no more tasks, dead or alive, than pids; alloc_pid spins on one more
    /\ MAX_PID >= Cardinality(Task)

VARIABLES
    task_list,                                  \* task_list_head, in order
    pid, ppid, state, timeslice, timeout,       \* struct task_struct
    current, next_pid, sched_ticks,
    pc, wait_pid,                               \* the argument of do_waitpid
    owed,       \* history: ticks the task still has to sleep, as it asked
    halted      \* a failed ASSERT has stopped the machine

fields == <<pid, ppid, state, timeslice, timeout>>
vars   == <<task_list, fields, current, next_pid, sched_ticks, pc, wait_pid,
            owed, halted>>

Listed == Range(task_list)

TypeOK ==
    /\ task_list \in Seq(Task)
    /\ pid \in [Task -> NoPid..MAX_PID] /\ ppid \in [Task -> NoPid..MAX_PID]
    /\ state \in [Task -> {"FREE", "RUNNABLE", "INTERRUPTIBLE",
                           "UNINTERRUPTIBLE", "DEAD"}]
    /\ timeslice \in [Task -> 0..MAX_TIMESLICE]
    /\ timeout \in [Task -> 0..(Word - 1)] /\ owed \in [Task -> Nat]
    /\ current \in Listed /\ next_pid \in INIT_TASK_PID..MAX_PID
    /\ sched_ticks \in 1..SCHED_TICKS
    /\ pc \in [Task -> {"boot", "run", "armed", "parked", "waitpid"}]
    /\ wait_pid \in [Task -> NoPid..MAX_PID]
    /\ halted \in BOOLEAN

-----------------------------------------------------------------------------
(***************************************************************************)
(* At the iret of init_multitasking: kernel_thread has started KThreads,   *)
(* idle is appended after them and runs.                                   *)
(***************************************************************************)
Init ==
    /\ task_list = KThreads \o <<idle>>
    /\ pid = [t \in Task |->
                CASE t = idle -> IDLE_TASK_PID
                  [] t \in KThread ->
                        INIT_TASK_PID + (CHOOSE i \in DOMAIN KThreads : KThreads[i] = t)
                  [] OTHER -> NoPid]
    /\ ppid = [t \in Task |-> NoPid]
    /\ state = [t \in Task |-> IF t \in Users THEN "FREE" ELSE "RUNNABLE"]
    /\ timeslice =
          [t \in Task |-> IF t \in KThread THEN INITIAL_TIMESLICE ELSE 0]
    /\ timeout = [t \in Task |-> 0]
    /\ current = idle
    /\ next_pid = INIT_TASK_PID + Len(KThreads)
    /\ sched_ticks = SCHED_TICKS
    /\ pc = [t \in Task |-> IF t = idle THEN "boot" ELSE "run"]
    /\ wait_pid = [t \in Task |-> 0]
    /\ owed = [t \in Task |-> 0]
    /\ halted = FALSE
-----------------------------------------------------------------------------
\* schedule(), for the states st and time slices ts.  The first loop keeps the
\* first of the runnable tasks with the most time left;
WithTime(st, ts) ==
    {i \in DOMAIN task_list :
        st[task_list[i]] = "RUNNABLE" /\ ts[task_list[i]] > 0}

MostTime(S, ts) ==
    CHOOSE i \in S : \A j \in S :
        \/ ts[task_list[j]] < ts[task_list[i]]
        \/ ts[task_list[j]] = ts[task_list[i]] /\ i <= j

\* if there is none, the second loop keeps the last runnable one,
Waiting(st) ==
    {i \in DOMAIN task_list :
        st[task_list[i]] = "RUNNABLE" /\ task_list[i] # idle}

elect(st, ts) ==
    LET S == WithTime(st, ts)
    IN  CASE S # {} -> task_list[MostTime(S, ts)]
          [] S = {} /\ Waiting(st) # {} -> task_list[Max(Waiting(st))]
          [] OTHER -> idle

\* Mutant: the time slices are never refilled.
refill_Never(st, ts) == ts

\* and gives more time to every task, those that sleep included.
refill(st, ts) ==
    IF WithTime(st, ts) # {} THEN ts
    ELSE [t \in Task |->
            IF t \in Listed \ {idle}
            THEN Min({ts[t] + TIMESLICE_INCREMENT, MAX_TIMESLICE})
            ELSE ts[t]]

schedule(st, ts) ==
    /\ current' = elect(st, ts)
    /\ timeslice' = refill(st, ts)

\* Interrupts are on.
IF_on == pc[current] # "waitpid"
-----------------------------------------------------------------------------
\* The ASSERT of the clock handler, for every task with a timeout.
AssertFails ==
    \E t \in Listed : timeout[t] # 0 /\ state[t] # "UNINTERRUPTIBLE"

Decrement(n) == IF n = 0 THEN 0 ELSE n - 1

\* Mutants: no task is made runnable; one is one tick early.
expire_Never == state
expire_Early ==
    [t \in Task |-> IF t \in Listed /\ timeout[t] \in {1, 2} THEN "RUNNABLE"
                    ELSE state[t]]

expire ==
    [t \in Task |-> IF t \in Listed /\ timeout[t] = 1 THEN "RUNNABLE"
                    ELSE state[t]]

\* handle_timer_interrupt
TimerInterrupt ==
    /\ ~halted /\ IF_on
    /\ \/ /\ AssertFails
          /\ halted' = TRUE
          /\ UNCHANGED <<fields, current, sched_ticks, owed>>
       \/ /\ ~AssertFails
          /\ timeout' = [t \in Task |-> Decrement(timeout[t])]
          /\ owed' = [t \in Task |-> Decrement(owed[t])]
          /\ state' = expire
          /\ LET ts == [timeslice EXCEPT ![current] = Decrement(@)]
             IN  IF sched_ticks = 1
                 THEN sched_ticks' = SCHED_TICKS /\ schedule(expire, ts)
                 ELSE /\ sched_ticks' = sched_ticks - 1
                      /\ timeslice' = ts
                      /\ current' = current
          /\ UNCHANGED <<pid, ppid, halted>>
    /\ UNCHANGED <<task_list, next_pid, pc, wait_pid>>
-----------------------------------------------------------------------------
\* alloc_pid: the next pid no task of the list has, from next_pid on, starting
\* again at INIT_TASK_PID after MAX_PID.
Unused == (INIT_TASK_PID..MAX_PID) \ {pid[t] : t \in Listed}

\* Mutant: the pids still in the list are not looked at.
alloc_pid_NoScan == IF next_pid < MAX_PID THEN next_pid + 1 ELSE INIT_TASK_PID

alloc_pid ==
    LET later == {p \in Unused : p > next_pid}
    IN  IF later # {} THEN Min(later) ELSE Min(Unused)

\* A user task is running its own code.
InUser(t) == t = current /\ t \in Users /\ pc[t] = "run" /\ ~halted

\* sys_fork.  The child t gets the time slice of its parent.
fork_pid(p) == IF p = idle THEN INIT_TASK_PID ELSE alloc_pid

Fork(p, t) ==
    /\ t \notin Listed
    /\ pid'       = [pid EXCEPT ![t] = fork_pid(p)]
    /\ ppid'      = [ppid EXCEPT ![t] = pid[p]]
    /\ state'     = [state EXCEPT ![t] = "RUNNABLE"]
    /\ timeslice' = [timeslice EXCEPT ![t] = timeslice[p]]
    /\ task_list' = Append(task_list, t)
    /\ next_pid'  = IF p = idle THEN next_pid ELSE fork_pid(p)

\* No memory: before or after the pid was taken.
ForkFails(p) ==
    /\ next_pid' \in {next_pid} \cup (IF p = idle THEN {} ELSE {fork_pid(p)})
    /\ UNCHANGED <<fields, task_list>>

sys_fork(p) ==
    /\ InUser(p) \/ (p = idle /\ current = idle /\ pc[idle] = "boot" /\ ~halted)
    /\ ForkFails(p) \/ \E t \in Users : Fork(p, t)
    /\ pc' = [pc EXCEPT ![p] = "run"]
    /\ UNCHANGED <<timeout, current, sched_ticks, wait_pid, owed, halted>>

-----------------------------------------------------------------------------
\* do_exit, of a kernel thread, a user task that calls exit, or one that caused
\* an exception.  The init task does not end.
Heir(t) == IF ppid[t] = NoPid THEN INIT_TASK_PID ELSE ppid[t]

\* Mutant: the children keep their parent.
reparent_None(t) == [ppid EXCEPT ![t] = Heir(t)]

reparent(t) ==
    [x \in Task |-> IF x = t \/ (x \in Listed /\ ppid[x] = pid[t])
                    THEN Heir(t) ELSE ppid[x]]

\* Mutant: the parent is not woken.
wake_parent_Never(st, t) == st

wake_parent(st, t) ==
    [x \in Task |-> IF /\ x \in Listed /\ pid[x] = Heir(t)
                       /\ st[x] = "INTERRUPTIBLE"
                    THEN "RUNNABLE" ELSE st[x]]

do_exit(t) ==
    /\ \/ InUser(t) /\ pid[t] # INIT_TASK_PID
       \/ t = current /\ t \in KThread /\ pc[t] = "run" /\ ~halted
    /\ ppid' = reparent(t)
    /\ state' = wake_parent([state EXCEPT ![t] = "DEAD"], t)
    /\ schedule(state', timeslice)
    /\ UNCHANGED <<task_list, pid, timeout, next_pid, sched_ticks, pc, wait_pid,
                   owed, halted>>

\* do_waitpid: one scan of the list.
Children(t, w) ==
    {i \in DOMAIN task_list : /\ ppid[task_list[i]] = pid[t]
                              /\ w \in {NoPid, pid[task_list[i]]}}

\* Mutant: any dead task will do.
DeadChildren_Any(t, w) ==
    {i \in DOMAIN task_list : state[task_list[i]] = "DEAD"}

DeadChildren(t, w) == {i \in Children(t, w) : state[task_list[i]] = "DEAD"}

\* The list without its i-th node.
list_remove(s, i) == SubSeq(s, 1, i - 1) \o SubSeq(s, i + 1, Len(s))

\* The first dead child leaves the list and its descriptor is freed.
Reap(t, w) ==
    /\ DeadChildren(t, w) # {}
    /\ LET i == Min(DeadChildren(t, w))
           c == task_list[i]
       IN  /\ task_list' = list_remove(task_list, i)
           /\ state'     = [state EXCEPT ![c] = "FREE"]
           /\ pid'       = [pid EXCEPT ![c] = NoPid]
           /\ ppid'      = [ppid EXCEPT ![c] = NoPid]
           /\ timeslice' = [timeslice EXCEPT ![c] = 0]
    /\ pc' = [pc EXCEPT ![t] = "run"]
    /\ wait_pid' = [wait_pid EXCEPT ![t] = 0]
    /\ current' = current

NothingToWaitFor(t, w) ==
    /\ Children(t, w) = {}
    /\ pc' = [pc EXCEPT ![t] = "run"]
    /\ wait_pid' = [wait_pid EXCEPT ![t] = 0]
    /\ UNCHANGED <<fields, task_list, current>>

WaitForChild(t, w) ==
    /\ Children(t, w) # {} /\ DeadChildren(t, w) = {}
    /\ state' = [state EXCEPT ![t] = "INTERRUPTIBLE"]
    /\ pc' = [pc EXCEPT ![t] = "waitpid"]
    /\ wait_pid' = [wait_pid EXCEPT ![t] = w]
    /\ schedule(state', timeslice)
    /\ UNCHANGED <<task_list, pid, ppid>>

do_waitpid(t, w) ==
    /\ Reap(t, w) \/ NothingToWaitFor(t, w) \/ WaitForChild(t, w)
    /\ UNCHANGED <<timeout, next_pid, sched_ticks, owed, halted>>

sys_waitpid(t) ==
    /\ InUser(t)
    /\ \E w \in {NoPid} \cup (INIT_TASK_PID..MAX_PID) : do_waitpid(t, w)

\* The task was woken and looks again; interrupts are still off.
WaitpidRepeat(t) ==
    /\ t = current /\ pc[t] = "waitpid"
    /\ do_waitpid(t, wait_pid[t])
-----------------------------------------------------------------------------
\* do_sleep.  msec * HZ is computed in an unsigned long.
TimeoutOf(msec) == ((msec * HZ) % Word) \div MsPerSec
TicksOf(msec)   == (msec * HZ) \div MsPerSec

SetTimeout(t, msec) ==
    /\ timeout' = [timeout EXCEPT ![t] = TimeoutOf(msec)]
    /\ owed' = [owed EXCEPT ![t] = TicksOf(msec)]

\* A user task, with interrupts off.
sys_sleep(t) ==
    /\ InUser(t)
    /\ \E msec \in SleepArgs : SetTimeout(t, msec)
    /\ state' = [state EXCEPT ![t] = "UNINTERRUPTIBLE"]
    /\ schedule(state', timeslice)
    /\ UNCHANGED <<task_list, pid, ppid, next_pid, sched_ticks, pc, wait_pid,
                   halted>>

\* A kernel thread, statement by statement.
Goto(t, from, to) ==
    /\ t = current /\ t \in KThread /\ pc[t] = from /\ ~halted
    /\ pc' = [pc EXCEPT ![t] = to]

SleepArm(t) ==
    /\ Goto(t, "run", "armed")
    /\ \E msec \in SleepArgs : SetTimeout(t, msec)
    /\ UNCHANGED <<task_list, pid, ppid, state, timeslice, current, next_pid,
                   sched_ticks, wait_pid, halted>>

SleepPark(t) ==
    /\ Goto(t, "armed", "parked")
    /\ state' = [state EXCEPT ![t] = "UNINTERRUPTIBLE"]
    /\ UNCHANGED <<task_list, pid, ppid, timeslice, timeout, current, next_pid,
                   sched_ticks, wait_pid, owed, halted>>

SleepSchedule(t) ==
    /\ Goto(t, "parked", "run")
    /\ schedule(state, timeslice)
    /\ UNCHANGED <<task_list, pid, ppid, state, timeout, next_pid, sched_ticks,
                   wait_pid, owed, halted>>
-----------------------------------------------------------------------------
Halted == halted /\ UNCHANGED vars

KernelStep(t) == WaitpidRepeat(t) \/ SleepPark(t) \/ SleepSchedule(t)

Next ==
    \/ TimerInterrupt
    \/ \E t \in Task :
          \/ sys_fork(t) \/ do_exit(t) \/ sys_waitpid(t) \/ sys_sleep(t)
          \/ SleepArm(t) \/ KernelStep(t)
    \/ Halted

Spec == Init /\ [][Next]_vars

\* The clock keeps ticking, and a task in the kernel goes on.  Nothing is
\* assumed of what the tasks do outside the kernel.
Fairness == WF_vars(TimerInterrupt) /\ WF_vars(\E t \in Task : KernelStep(t))

FairSpec == Spec /\ Fairness
-----------------------------------------------------------------------------
IsUser(t) == t \in Listed \cap Users
Alive(t)  == t \in Listed /\ state[t] # "DEAD"

\* Two tasks of the list never have the same pid, however often the pids wrap
\* around (alloc_pid, sched.c:100-108, and the fixed pid of init, sys.c:60-64).
PidsUnique ==
    \A t, u \in Listed : pid[t] = pid[u] => t = u

\* The ppid of a user task, dead or alive, is the pid of a task that is alive:
\* it never names a task that is gone, nor one that was given its pid later
\* (the re-parenting of task.c:112-118).
ParentsAlive ==
    \A t \in Listed :
        IsUser(t) => \E p \in Listed : Alive(p) /\ pid[p] = ppid[t]

\* No wake-up is lost: a task that sleeps in do_waitpid has a child it waits
\* for, and none of these children is dead (task.c:131-135, 158-180).
NoLostWakeup ==
    \A t \in Listed : state[t] = "INTERRUPTIBLE" =>
        Children(t, wait_pid[t]) # {} /\ DeadChildren(t, wait_pid[t]) = {}

\* A task is runnable again only after all of the ticks it asked for.  do_sleep
\* says "at least msec milliseconds" (task.c:187) and that "We use a 64-bit
\* variable to deal with a possible overflow" (task.c:191-192).
SleepLongEnough ==
    \A t \in Listed :
        owed[t] # 0 => state[t] = "UNINTERRUPTIBLE" \/ pc[t] = "armed"

\* A task leaves the list only when it is dead, and then by the hand of the task
\* that is its parent; a dead task changes in no other way (task.c:158-170).
ReapedByParent ==
    [][\A t \in Listed :
          /\ t \notin Listed' => state[t] = "DEAD" /\ ppid[t] = pid[current]
          /\ state[t] = "DEAD" /\ t \in Listed' => state'[t] = "DEAD"]_vars

\* Every sleep ends (timer.c:209-215), unless a failed ASSERT stops the machine.
SleepersWake ==
    \A t \in Task :
        state[t] = "UNINTERRUPTIBLE" ~> (state[t] = "RUNNABLE" \/ halted)

\* Every runnable task gets the CPU, when no task is forked any more
\* (schedule, sched.c:231-270).
NoStarvation ==
    \A t \in Task \ {idle} :
        state[t] = "RUNNABLE" ~> (current = t \/ halted)

\* timer.c:211: ASSERT(t->state == TASK_UNINTERRUPTIBLE) for every task with a
\* timeout.
TimerAssertHolds == ~halted
=============================================================================
