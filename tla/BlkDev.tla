------------------------------- MODULE BlkDev -------------------------------
(***************************************************************************)
(* Registration and use of block devices, kernel/blkdev.c: one class, the  *)
(* list of its instances, and the reference counts that keep an instance   *)
(* from being freed while a thread reads or writes.                        *)
(*                                                                         *)
(* Callers are kernel threads.  They run with interrupts on, so they can   *)
(* be preempted wherever the code does not disable interrupts: every       *)
(* critical section is one step, and the code between two of them, which   *)
(* only touches variables of the caller, goes with the second one.  What   *)
(* blkdev_read and blkdev_write do between taking and releasing their      *)
(* reference is in BlkIO.tla.                                              *)
(***************************************************************************)
EXTENDS Sequences, FiniteSetsExt

CONSTANTS
    Thread, Minor,
    Instance,       \* the objects __kmalloc can return for an instance
    NULL,
    MaxRefcnt       \* bound: references leaked by unregister

ASSUME BlkDevAssumption ==
    NULL \notin Instance /\ IsFiniteSet(Thread) /\ MaxRefcnt \in Nat

VARIABLES
    registered,     \* the class is registered
    instances,      \* drv->instance_list_head: the list, as a sequence
    minor, refcnt,  \* of the instances
    heap,           \* the free objects of that size
    pc, arg, dev,   \* of each thread: where it is, the minor it was called
                    \* with, and the instance it has
    reply,          \* its answer
    halted          \* an ASSERT failed

vars == <<registered, instances, minor, refcnt, heap, pc, arg, dev, reply,
          halted>>

Init ==
    /\ registered = FALSE
    /\ instances = << >>
    /\ minor = [d \in Instance |-> NULL]
    /\ refcnt = [d \in Instance |-> 0]
    /\ heap = Instance
    /\ pc = [t \in Thread |-> "idle"]
    /\ arg = [t \in Thread |-> NULL]
    /\ dev = [t \in Thread |-> NULL]
    /\ reply = [t \in Thread |-> "none"]
    /\ halted = FALSE

At(t, label) == pc[t] = label /\ ~halted
Goto(t, label) == pc' = [pc EXCEPT ![t] = label]
Answer(t, res) == reply' = [reply EXCEPT ![t] = res]
Return(t, res) == Goto(t, "idle") /\ Answer(t, res)

\* What list_for_each of get_blkdev_instance stops at: the first instance with
\* that minor number.
Lookup(m) ==
    LET found == {i \in DOMAIN instances : minor[instances[i]] = m}
    IN  IF found = {} THEN NULL ELSE instances[Min(found)]

-----------------------------------------------------------------------------
register_blkdev_class(t) ==
    /\ At(t, "idle")
    /\ \/ registered /\ Return(t, "E_FAIL") /\ UNCHANGED registered
       \/ ~registered /\ Return(t, "E_NOMEM") /\ UNCHANGED registered
       \/ ~registered /\ Return(t, "S_OK") /\ registered' = TRUE
    /\ UNCHANGED <<instances, minor, refcnt, heap, arg, dev, halted>>

\* Mutant: the reference is not counted.
get_blkdev_instance_NoCount(t, m) ==
    dev' = [dev EXCEPT ![t] = Lookup(m)] /\ refcnt' = refcnt

get_blkdev_instance(t, m) ==
    LET d == Lookup(m)
    IN  /\ dev' = [dev EXCEPT ![t] = d]
        /\ refcnt' = IF d = NULL THEN refcnt ELSE [refcnt EXCEPT ![d] = @ + 1]

\* register_blkdev_instance up to the answer of get_blkdev_instance.
Register(t, m) ==
    /\ At(t, "idle")
    /\ arg' = [arg EXCEPT ![t] = m]
    /\ IF registered
       THEN /\ get_blkdev_instance(t, m)
            /\ Goto(t, IF dev'[t] = NULL THEN "create" ELSE "release")
            /\ Answer(t, "S_OK")
       ELSE Return(t, "E_INVALIDARG") /\ UNCHANGED <<dev, refcnt>>
    /\ UNCHANGED <<registered, instances, minor, heap, halted>>

\* __kmalloc is a critical section of its own.
RegisterCreate(t) ==
    /\ At(t, "create")
    /\ \/ /\ Return(t, "E_NOMEM")
          /\ UNCHANGED <<dev, heap>>
       \/ \E d \in heap :
             /\ dev' = [dev EXCEPT ![t] = d]
             /\ heap' = heap \ {d}
             /\ Goto(t, "append")
             /\ Answer(t, "S_OK")
    /\ UNCHANGED <<registered, instances, minor, refcnt, arg, halted>>

RegisterAppend(t) ==
    /\ At(t, "append")
    /\ minor' = [minor EXCEPT ![dev[t]] = arg[t]]
    /\ refcnt' = [refcnt EXCEPT ![dev[t]] = 0]
    /\ instances' = Append(instances, dev[t])
    /\ dev' = [dev EXCEPT ![t] = NULL]
    /\ Goto(t, "idle")
    /\ UNCHANGED <<registered, heap, arg, reply, halted>>

\* Mutant: the reference taken by unregister itself is not in the count that
\* is tested.
Busy_OneUser(d) == refcnt[d] > 1

\* unregister_blkdev_instance finds refcnt > 1 after its own increment.
Busy(d) == refcnt[d] + 1 > 1

\* Mutant: freed, but left in the list.
remove_instance_KeepsLink(d) ==
    heap' = heap \cup {d} /\ instances' = instances

\* The list without its i-th node.
list_remove(s, i) == SubSeq(s, 1, i - 1) \o SubSeq(s, i + 1, Len(s))

\* list_remove and kfree.
remove_instance(d) ==
    /\ instances' = list_remove(instances, CHOOSE i \in DOMAIN instances : instances[i] = d)
    /\ heap' = heap \cup {d}

\* The whole of unregister_blkdev_instance is a critical section.  When the
\* instance is busy the reference it took is not given back.
unregister_blkdev_instance(t, m) ==
    LET d == Lookup(m)
    IN  /\ At(t, "idle")
        /\ IF ~registered \/ d = NULL
           THEN /\ Return(t, "E_INVALIDARG")
                /\ UNCHANGED <<instances, refcnt, heap>>
           ELSE IF Busy(d)
           THEN /\ refcnt[d] < MaxRefcnt
                /\ refcnt' = [refcnt EXCEPT ![d] = @ + 1]
                /\ Return(t, "E_BUSY")
                /\ UNCHANGED <<instances, heap>>
           ELSE /\ remove_instance(d)
                /\ refcnt' = [refcnt EXCEPT ![d] = @ + 1]
                /\ Return(t, "S_OK")
        /\ UNCHANGED <<registered, minor, arg, dev, halted>>

\* blkdev_read and blkdev_write: take a reference...
Use(t, m) ==
    /\ At(t, "idle")
    /\ arg' = [arg EXCEPT ![t] = m]
    /\ IF registered
       THEN /\ get_blkdev_instance(t, m)
            /\ IF dev'[t] = NULL
               THEN Return(t, "E_INVALIDARG")
               ELSE Goto(t, "using") /\ UNCHANGED reply
       ELSE Return(t, "E_INVALIDARG") /\ UNCHANGED <<dev, refcnt>>
    /\ UNCHANGED <<registered, instances, minor, heap, halted>>

\* ... transfer, in as many steps as it takes (BlkIO.tla)...
Transfer(t) ==
    /\ At(t, "using")
    /\ \E res \in {"S_OK", "E_FAIL"} : Answer(t, res)
    /\ Goto(t, "release")
    /\ UNCHANGED <<registered, instances, minor, refcnt, heap, arg, dev, halted>>

\* ... and release the reference, with an ASSERT.  When it fails the machine
\* stops for good; TLC would report a deadlock.
release_blkdev_instance(t) ==
    /\ At(t, "release")
    /\ IF refcnt[dev[t]] > 0
       THEN /\ refcnt' = [refcnt EXCEPT ![dev[t]] = @ - 1]
            /\ dev' = [dev EXCEPT ![t] = NULL]
            /\ Goto(t, "idle")
            /\ UNCHANGED halted
       ELSE halted' = TRUE /\ UNCHANGED <<refcnt, dev, pc>>
    /\ UNCHANGED <<registered, instances, minor, heap, arg, reply>>

Next ==
    \E t \in Thread :
        \/ register_blkdev_class(t)
        \/ RegisterCreate(t)
        \/ RegisterAppend(t)
        \/ Transfer(t)
        \/ release_blkdev_instance(t)
        \/ \E m \in Minor :
              Register(t, m) \/ unregister_blkdev_instance(t, m) \/ Use(t, m)

Spec == Init /\ [][Next]_vars
-----------------------------------------------------------------------------
Registered == Range(instances)

\* Where a thread can be; "list" and "copy" are steps of a driver, RamDisk.tla.
Label   == {"idle", "create", "append", "using", "release", "list", "copy"}
Holding == {"using", "copy", "release"}

Holders(d) == {t \in Thread : pc[t] \in Holding /\ dev[t] = d}
Creator == {t \in Thread : pc[t] = "append"}
Created == {dev[t] : t \in Creator}

\* The variables of blkdev.c keep the types of their declarations.
TypeOK ==
    /\ registered \in BOOLEAN /\ halted \in BOOLEAN
    /\ instances \in Seq(Instance)
    /\ minor \in [Instance -> Minor \cup {NULL}]
    /\ refcnt \in [Instance -> 0..(MaxRefcnt + Cardinality(Thread) + 1)]
    /\ heap \subseteq Instance
    /\ pc \in [Thread -> Label]
    /\ dev \in [Thread -> Instance \cup {NULL}]

\* A thread between get_blkdev_instance and release_blkdev_instance works on an
\* instance that is still registered and counts at least the threads that are
\* using it: unregister_blkdev_instance frees none under their hands, and the
\* ASSERT of release_blkdev_instance never fails.
UsesCounted ==
    \A t \in Thread : pc[t] \in Holding =>
        /\ dev[t] \in Registered
        /\ refcnt[dev[t]] >= Cardinality(Holders(dev[t]))

\* An object of the heap is free, or being filled in by one thread, or in the
\* list once: no instance is lost, freed twice, or reused while it is listed.
InstancesOwned ==
    /\ heap \cup Created \cup Registered = Instance
    /\ heap \cap (Created \cup Registered) = {} /\ Created \cap Registered = {}
    /\ \A t, u \in Creator : dev[t] = dev[u] => t = u
    /\ IsInjective(instances)

\* blkdev.c:83-84: "Reference counter. This instance can be safely unregistered
\* only when this reference counter reaches 0."  So it counts the users.
RefcntIsUsers ==
    \A d \in Registered : refcnt[d] = Cardinality(Holders(d))

\* blkdev.c:70-71: "The minor number, along with the corresponding class' major
\* number, uniquely identifies a block device instance."
MinorsUnique ==
    \A d, e \in Registered : minor[d] = minor[e] => d = e
=============================================================================
