------------------------------ MODULE RamDisk ------------------------------
(***************************************************************************)
(* RAM disks (drivers/ramdisk.c) behind the block device layer (BlkDev).   *)
(*                                                                         *)
(* destroy_ramdisk frees the memory of a disk without asking whether a     *)
(* transfer is under way: ramdisk_read_write_blocks looks its disk up with *)
(* interrupts off and copies with interrupts on.  What keeps the two apart *)
(* is the reference count of the device instance, for a client that makes  *)
(* its calls in this order, each one after the one before has succeeded:   *)
(* create_ramdisk, register_blkdev_instance, unregister_blkdev_instance,   *)
(* destroy_ramdisk.  No file of the kernel creates a RAM disk yet; the     *)
(* order is that of the interface, and `stage' holds a client to it.  A    *)
(* client may also register a disk again that it has registered before.    *)
(***************************************************************************)
EXTENDS BlkDev

CONSTANT Page       \* the blocks of memory alloc_physmem_block can return

ASSUME RamDiskAssumption ==
    /\ NULL \notin Page
    /\ IsFiniteSet(Minor) /\ Minor = 0..(Cardinality(Minor) - 1)

VARIABLES
    n,              \* the next minor number
    disk,           \* the listed disks: their memory by minor number
    freemem,        \* pages of no disk
    rd,             \* of each thread: the page of the disk it works on
    owner, stage    \* of each disk: its client, and the last call of this
                    \* client that succeeded

rdvars == <<n, disk, freemem, rd, owner, stage>>
allvars == <<vars, rdvars>>

RdInit ==
    /\ Init
    /\ n = 0
    /\ disk = [m \in Minor |-> NULL]
    /\ freemem = Page
    /\ rd = [t \in Thread |-> NULL]
    /\ owner = [m \in Minor |-> NULL]
    /\ stage = [m \in Minor |-> "none"]

Listed == {m \in Minor : disk[m] # NULL}
Creating == {t \in Thread : pc[t] = "list"}
Advance(m, s) == stage' = [stage EXCEPT ![m] = s]
-----------------------------------------------------------------------------
\* __kmalloc and alloc_physmem_block, or E_NOMEM with nothing kept.
CreateAlloc(t) ==
    /\ At(t, "idle")
    /\ n + Cardinality(Creating) \in Minor         \* bound: disks ever created
    /\ \/ Return(t, "E_NOMEM") /\ UNCHANGED <<freemem, rd>>
       \/ \E p \in freemem :
             /\ freemem' = freemem \ {p}
             /\ rd' = [rd EXCEPT ![t] = p]
             /\ Goto(t, "list") /\ UNCHANGED reply
    /\ UNCHANGED <<registered, instances, minor, refcnt, heap, arg, dev, halted,
                   n, disk, owner, stage>>

\* The critical section of create_ramdisk.
CreateList(t) ==
    /\ At(t, "list")
    /\ n' = n + 1
    /\ disk' = [disk EXCEPT ![n] = rd[t]]
    /\ rd' = [rd EXCEPT ![t] = NULL]
    /\ owner' = [owner EXCEPT ![n] = t]
    /\ Advance(n, "created")
    /\ Return(t, "S_OK")
    /\ UNCHANGED <<registered, instances, minor, refcnt, heap, arg, dev, halted,
                   freemem>>

\* get_ramdisk_instance, called by ramdisk_read_write_blocks.
get_ramdisk_instance(t) ==
    /\ At(t, "using")
    /\ rd' = [rd EXCEPT ![t] = disk[arg[t]]]
    /\ IF arg[t] \in Listed
       THEN Goto(t, "copy") /\ UNCHANGED reply
       ELSE Goto(t, "release") /\ Answer(t, "E_FAIL")
    /\ UNCHANGED <<registered, instances, minor, refcnt, heap, arg, dev, halted,
                   n, disk, freemem, owner, stage>>

\* The call-back returns 0 (out of range) or has copied; blkdev_read calls it
\* again for the next part, or is done.
ramdisk_read_write_blocks(t) ==
    /\ At(t, "copy")
    /\ rd' = [rd EXCEPT ![t] = NULL]
    /\ \/ Goto(t, "using") /\ UNCHANGED reply
       \/ \E res \in {"S_OK", "E_FAIL"} : Goto(t, "release") /\ Answer(t, res)
    /\ UNCHANGED <<registered, instances, minor, refcnt, heap, arg, dev, halted,
                   n, disk, freemem, owner, stage>>

\* Mutant: the disk leaves the list but keeps its memory.
remove_disk_Leaks(m) ==
    disk' = [disk EXCEPT ![m] = NULL] /\ UNCHANGED freemem

\* free_physmem_block, list_remove and kfree.
remove_disk(m) ==
    /\ freemem' = freemem \cup {disk[m]}
    /\ disk' = [disk EXCEPT ![m] = NULL]

destroy_ramdisk(t, m) ==
    /\ At(t, "idle")
    /\ owner[m] = t /\ stage[m] = "unregistered"
    /\ IF m \in Listed THEN remove_disk(m) ELSE UNCHANGED <<disk, freemem>>
    /\ Advance(m, "destroyed")
    /\ UNCHANGED <<vars, n, rd, owner>>
-----------------------------------------------------------------------------
\* The calls of the block device layer, with what they mean for the client.
RdRegister(t, m) ==
    /\ owner[m] = t /\ stage[m] \in {"created", "registered"}
    /\ Register(t, m)
    /\ UNCHANGED rdvars

RdRegisterAppend(t) ==
    /\ RegisterAppend(t)
    /\ Advance(arg[t], "registered")
    /\ UNCHANGED <<n, disk, freemem, rd, owner>>

RdUnregister(t, m) ==
    /\ owner[m] = t /\ stage[m] = "registered"
    /\ unregister_blkdev_instance(t, m)
    /\ IF reply'[t] = "S_OK" THEN Advance(m, "unregistered") ELSE UNCHANGED stage
    /\ UNCHANGED <<n, disk, freemem, rd, owner>>

RdNext ==
    \E t \in Thread :
        \/ CreateAlloc(t)
        \/ CreateList(t)
        \/ get_ramdisk_instance(t)
        \/ ramdisk_read_write_blocks(t)
        \/ RdRegisterAppend(t)
        \/ /\ register_blkdev_class(t) \/ RegisterCreate(t)
              \/ release_blkdev_instance(t)
           /\ UNCHANGED rdvars
        \/ \E m \in Minor :
              \/ RdRegister(t, m) \/ RdUnregister(t, m) \/ destroy_ramdisk(t, m)
              \/ Use(t, m) /\ UNCHANGED rdvars

RdSpec == RdInit /\ [][RdNext]_allvars
-----------------------------------------------------------------------------
\* A thread that is copying copies to or from the memory of the disk it was
\* called for, and this disk is still there: the reference its instance counts
\* keeps unregister, and so destroy_ramdisk, away until the copy is over.
CopyInDisk ==
    \A t \in Thread : pc[t] = "copy" => rd[t] = disk[arg[t]]

\* The pages are those that are free, those of a disk being created, and one
\* for each listed disk: no disk is lost with its memory, and no two share it.
MemoryOwned ==
    LET creating == {rd[t] : t \in Creating}
        listed   == {disk[m] : m \in Listed}
    IN  /\ freemem \cup creating \cup listed = Page
        /\ freemem \cap (creating \cup listed) = {} /\ creating \cap listed = {}
        /\ \A t, u \in Creating : rd[t] = rd[u] => t = u
        /\ \A m, k \in Listed : disk[m] = disk[k] => m = k
=============================================================================
