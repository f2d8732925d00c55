------------------------------- MODULE KSync -------------------------------
(***************************************************************************)
(* A kernel semaphore (kernel/ksync.c) at the level of the list pointers:  *)
(* the wait queue of the semaphore and the global task list link the same  *)
(* prev and next members of struct task_struct.                            *)
(*                                                                         *)
(* Kernel threads call ksema_down; ksema_up is called by threads and by an *)
(* interrupt handler (drivers/ide.c:527).  schedule() is modelled by what  *)
(* it reads: the runnable tasks list_for_each meets on the task list, one  *)
(* of which gets the CPU (which one is in Tasks.tla).                      *)
(*                                                                         *)
(* ksema_init sets the value and leaves the head of the wait queue as it   *)
(* is in the object it gets: NULL, or a pointer to something that is no    *)
(* task.  What the list macros and schedule do with that is undefined: the *)
(* first call that follows the pointer ends the behaviour.                 *)
(***************************************************************************)
EXTENDS Lists, Functions

CONSTANTS
    idle,           \* the idle task
    Threads,        \* the kernel threads, in the order of the task list
    stray,          \* what a head that was not initialised may point to
    initval         \* the initial value of the semaphore

Task == Range(Threads) \cup {idle}
NrTasks == Len(Threads) + 1         \* bound: steps of a traversal that ends
Word == 16                          \* an unsigned int holds 0..(Word - 1)

VARIABLES
    links,              \* the prev and next members of the tasks
    task_list_head, waiting_task_list_head,
    value,              \* sem->value
    state, current,
    in_down,            \* the tasks inside ksema_down, after schedule()
    hung,               \* a list_for_each with interrupts off does not end
    undefined           \* the stray pointer has been followed

vars == <<links, task_list_head, waiting_task_list_head, value, state, current,
          in_down, hung, undefined>>

\* A head and the links are a list of Lists.tla.
List(head, lk) == [head |-> head, prev |-> lk.prev, next |-> lk.next]
Links(L)       == [prev |-> L.prev, next |-> L.next]

EmptyLinks ==
    LET self == [t \in Task \cup {stray} |-> t] IN [prev |-> self, next |-> self]

\* The task list as kernel_thread and init_multitasking build it.
TaskListUpTo[i \in Nat] ==
    IF i = 0 THEN List(NULL, EmptyLinks)
    ELSE list_append(TaskListUpTo[i - 1],
                     IF i <= Len(Threads) THEN Threads[i] ELSE idle)

Init ==
    /\ links = Links(TaskListUpTo[NrTasks])
    /\ task_list_head = Threads[1]
    /\ waiting_task_list_head \in {NULL, stray}
    /\ value = initval
    /\ state = [t \in Task |-> "RUNNABLE"]
    /\ current = idle
    /\ in_down = {}
    /\ hung = FALSE /\ undefined = FALSE

\* schedule(), with the links lk and the states st.
schedule(lk, st) ==
    LET L == List(task_list_head, lk)
        met == Range(list_for_each(L, NrTasks))
        ready == {t \in met \ {idle} : st[t] = "RUNNABLE"}
    IN  IF Returns(L, NrTasks)
        THEN current' \in (IF ready = {} THEN {idle} ELSE ready) /\ hung' = hung
        ELSE hung' = TRUE /\ current' = current

Stopped == hung \/ undefined

\* The current thread runs outside the kernel's critical sections.
Running(t) == t = current /\ t \notin in_down /\ ~Stopped

ksema_down(t) ==
    /\ Running(t) /\ t # idle
    /\ IF value # 0
       THEN /\ value' = value - 1
            /\ UNCHANGED <<links, waiting_task_list_head, state, current,
                           in_down, hung, undefined>>
       ELSE LET W == list_append(List(waiting_task_list_head, links), t)
            IN  /\ links' = Links(W)
                /\ waiting_task_list_head' = W.head
                /\ state' = [state EXCEPT ![t] = "UNINTERRUPTIBLE"]
                /\ in_down' = in_down \cup {t}
                /\ undefined' = (waiting_task_list_head = stray)
                /\ IF undefined' THEN UNCHANGED <<current, hung>>
                                 ELSE schedule(links', state')
                /\ value' = value
    /\ UNCHANGED task_list_head

\* The rest of ksema_down, once the task has been woken and has the CPU.
ksema_down_resume(t) ==
    /\ t = current /\ t \in in_down /\ ~Stopped
    /\ value' = (value + Word - 1) % Word
    /\ in_down' = in_down \ {t}
    /\ UNCHANGED <<links, task_list_head, waiting_task_list_head, state, current,
                   hung, undefined>>

\* By the current thread, or by an interrupt handler on top of it.
ksema_up ==
    /\ current \notin in_down /\ ~Stopped
    /\ value < Word - 1                  \* bound
    /\ value' = value + 1
    /\ undefined' = (waiting_task_list_head = stray)
    /\ IF waiting_task_list_head \in {NULL, stray}
       THEN UNCHANGED <<links, waiting_task_list_head, state>>
       ELSE LET W == list_pop_head(List(waiting_task_list_head, links))
            IN  /\ links' = Links(W)
                /\ waiting_task_list_head' = W.head
                /\ state' = [state EXCEPT ![waiting_task_list_head] = "RUNNABLE"]
    /\ UNCHANGED <<task_list_head, current, in_down, hung>>

\* The clock interrupt schedules.
TimerInterrupt ==
    /\ current \notin in_down /\ ~Stopped
    /\ schedule(links, state)
    /\ UNCHANGED <<links, task_list_head, waiting_task_list_head, value, state,
                   in_down, undefined>>

Next ==
    \/ \E t \in Task : ksema_down(t) \/ ksema_down_resume(t)
    \/ ksema_up
    \/ TimerInterrupt

Spec == Init /\ [][Next]_vars
-----------------------------------------------------------------------------
\* task.h:72 calls prev and next the "Linkage pointers in the global task
\* list", and list.h:103-104 says that with them "a single structure cannot
\* participate in more than one list at a time": whatever is done with the
\* semaphore, list_for_each over the task list meets every task.
TaskListComplete ==
    LET L == List(task_list_head, links)
    IN  Returns(L, NrTasks) /\ Range(list_for_each(L, NrTasks)) = Task
=============================================================================
