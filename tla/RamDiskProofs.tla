---------------------------- MODULE RamDiskProofs ----------------------------
(***************************************************************************)
(* Proofs about BlkDev and RamDisk together, for every set of threads,     *)
(* instances, minor numbers and pages: an instance is not freed while it   *)
(* is used, and a copy does not outlive its disk.                          *)
(***************************************************************************)
EXTENDS RamDiskInvariant

\* get_blkdev_instance finds an instance, for blkdev_read, blkdev_write or
\* register_blkdev_instance.
LEMMA TakenKeeps ==
    ASSUME RdInv, NEW t \in Thread, NEW m \in Minor, NEW l \in {"using", "release"},
           pc[t] = "idle", Lookup(m) # NULL, get_blkdev_instance(t, m),
           arg' = [arg EXCEPT ![t] = m], Goto(t, l), reply' \in [Thread -> Reply],
           UNCHANGED <<registered, instances, minor, heap, halted>>, UNCHANGED rdvars
    PROVE  RdInv'
<1>1. PICK d \in Registered : d = Lookup(m) /\ d \in Instance /\ minor[d] = m
  BY LookupFacts DEF RdInv, Typed
<1>2. dev' = [dev EXCEPT ![t] = d] /\ refcnt' = [refcnt EXCEPT ![d] = @ + 1]
  BY <1>1 DEF get_blkdev_instance
<1> USE DEF rdvars, Goto
<1>3. Typed'
  BY <1>1, <1>2 DEF RdInv, Typed, Label
<1>4. /\ Registered' = Registered /\ Created' = Created /\ Creator' = Creator
      /\ Creating' = Creating
  BY <1>2 DEF RdInv, Typed, Registered, Created, Creator, Creating
<1>5. Uses'
  BY <1>1, <1>2, <1>4 DEF RdInv, Typed, Uses, Holding
<1>6. Creators' /\ Instances'
  BY <1>2, <1>4 DEF RdInv, Typed, Creators, Instances
<1>7. InstancesOwned'
  BY <1>2, <1>4 DEF RdInv, Typed, InstancesOwned, Creator
<1>8. Counted'
  <2>1. t \notin Holders(d) /\ Holders(d)' = Holders(d) \cup {t}
    BY <1>1, <1>2 DEF RdInv, Typed, Holders, Holding
  <2>2. Cardinality(Holders(d)') = Cardinality(Holders(d)) + 1
    BY <2>1, Finite, FS_AddElement, Zenon
  <2>3. \A e : e # d => Holders(e)' = Holders(e)
    BY <1>2 DEF RdInv, Typed, Holders, Holding
  <2>4. ASSUME NEW e \in Registered
        PROVE  refcnt'[e] >= Cardinality(Holders(e)')
    <3>1. /\ refcnt[e] >= Cardinality(Holders(e)) /\ refcnt[e] \in Nat
          /\ refcnt'[e] = IF e = d THEN refcnt[e] + 1 ELSE refcnt[e]
          /\ Cardinality(Holders(e)) \in Nat
      BY <1>1, <1>2, Finite, LookupFacts DEF RdInv, Typed, Counted
    <3>2. CASE e = d
      <4>1. Cardinality(Holders(e)') = Cardinality(Holders(e)) + 1
        BY <2>2, <3>2, Zenon
      <4>2. refcnt'[e] = refcnt[e] + 1
        BY <3>1, <3>2, Zenon
      <4> HIDE DEF rdvars, Goto
      <4> QED  BY <3>1, <4>1, <4>2
    <3>3. CASE e # d
      <4>1. Holders(e)' = Holders(e)
        BY <2>3, <3>3
      <4> QED  BY <3>1, <3>3, <4>1
    <3> QED  BY <3>2, <3>3
  <2> QED  BY <1>4, <2>4 DEF Counted
<1>9. CopyInDisk'
  BY DEF RdInv, Typed, CopyInDisk
<1>10. Numbers' /\ MemoryOwned'
  BY <1>4, DisksKept DEF RdInv
<1> QED  BY <1>3, <1>5, <1>6, <1>7, <1>8, <1>9, <1>10 DEF RdInv

\* A call that fails: it has taken no reference, or leaves a count too high.
LEMMA FailureKeeps ==
    ASSUME RdInv, NEW t \in Thread, NEW m \in Minor, pc[t] = "idle",
           arg' = arg \/ arg' = [arg EXCEPT ![t] = m], UNCHANGED pc,
           dev' = dev \/ dev' = [dev EXCEPT ![t] = NULL],
           reply' \in [Thread -> Reply], refcnt' \in [Instance -> Nat],
           \A d \in Instance : refcnt'[d] >= refcnt[d],
           UNCHANGED <<registered, instances, minor, heap, halted>>,
           UNCHANGED rdvars
    PROVE  RdInv'
<1> USE DEF rdvars
<1>1. Typed'
  BY Zenon DEF RdInv, Typed
<1>2. /\ Registered' = Registered /\ Created' = Created /\ Creator' = Creator
      /\ Creating' = Creating /\ \A d : Holders(d)' = Holders(d)
  BY DEF RdInv, Typed, Registered, Created, Creator, Creating, Holders, Holding
<1>3. Uses' /\ Creators' /\ Instances' /\ CopyInDisk'
  BY <1>2 DEF RdInv, Typed, Uses, Creators, Instances, CopyInDisk, Holding
<1>4. Counted'
  <2>1. ASSUME NEW d \in Registered
        PROVE  refcnt'[d] >= Cardinality(Holders(d)')
    <3>1. /\ refcnt[d] >= Cardinality(Holders(d)) /\ refcnt'[d] >= refcnt[d]
          /\ refcnt[d] \in Nat /\ refcnt'[d] \in Nat
          /\ Cardinality(Holders(d)) \in Nat
      BY Finite, LookupFacts, Zenon DEF RdInv, Typed, Counted
    <3> QED  BY <1>2, <3>1
  <2> QED  BY <1>2, <2>1 DEF Counted
<1>5. InstancesOwned'
  BY <1>2, Zenon DEF RdInv, Typed, InstancesOwned, Creator
<1>6. Numbers' /\ MemoryOwned'
  BY <1>2, DisksKept DEF RdInv
<1> QED  BY <1>1, <1>3, <1>4, <1>5, <1>6 DEF RdInv

\* blkdev_read and blkdev_write take their reference.
LEMMA UseKeeps ==
    ASSUME RdInv, NEW t \in Thread, NEW m \in Minor, Use(t, m), UNCHANGED rdvars
    PROVE  RdInv'
<1>1. CASE registered /\ Lookup(m) # NULL
  <2>1. /\ get_blkdev_instance(t, m) /\ dev'[t] # NULL /\ pc[t] = "idle"
        /\ arg' = [arg EXCEPT ![t] = m]
        /\ UNCHANGED <<registered, instances, minor, heap, halted>>
    BY <1>1 DEF Use, At, get_blkdev_instance, RdInv, Typed
  <2>2. Goto(t, "using") /\ reply' \in [Thread -> Reply]
    BY <1>1, <2>1 DEF Use, RdInv, Typed
  <2> QED  BY <1>1, <2>1, <2>2, TakenKeeps, Zenon
<1>2. CASE ~(registered /\ Lookup(m) # NULL)
  <2>1. /\ pc[t] = "idle" /\ arg' = [arg EXCEPT ![t] = m]
        /\ UNCHANGED <<registered, instances, minor, heap, halted, refcnt>>
        /\ dev' = dev \/ dev' = [dev EXCEPT ![t] = NULL]
    BY <1>2 DEF Use, At, get_blkdev_instance, RdInv, Typed
  <2>2. Return(t, "E_INVALIDARG")
    BY <1>2 DEF Use, get_blkdev_instance, RdInv, Typed
  <2>3. pc' = pc /\ reply' \in [Thread -> Reply]
    BY <2>1, <2>2 DEF Return, Goto, Answer, Reply, RdInv, Typed
  <2>4. refcnt' \in [Instance -> Nat] /\ \A d \in Instance : refcnt'[d] >= refcnt[d]
    BY <2>1 DEF RdInv, Typed
  <2> QED  BY <2>1, <2>3, <2>4, FailureKeeps, Zenon
<1> QED  BY <1>1, <1>2

\* register_blkdev_instance up to the answer of get_blkdev_instance.
LEMMA RegisterKeeps ==
    ASSUME RdInv, NEW t \in Thread, NEW m \in Minor, RdRegister(t, m)
    PROVE  RdInv'
<1>1. /\ pc[t] = "idle" /\ arg' = [arg EXCEPT ![t] = m] /\ UNCHANGED rdvars
      /\ UNCHANGED <<registered, instances, minor, heap, halted>>
      /\ owner[m] = t /\ stage[m] \in {"created", "registered"}
  BY Zenon DEF RdRegister, Register, At
<1>2. CASE registered /\ Lookup(m) # NULL
  <2>1. get_blkdev_instance(t, m) /\ dev'[t] # NULL
    BY <1>2 DEF RdRegister, Register, get_blkdev_instance, RdInv, Typed
  <2>2. Goto(t, "release") /\ reply' \in [Thread -> Reply]
    BY <1>2, <2>1, Zenon DEF RdRegister, Register, Answer, Reply, RdInv, Typed
  <2> QED  BY <1>1, <1>2, <2>1, <2>2, TakenKeeps, Zenon
<1>3. CASE registered /\ Lookup(m) = NULL
  <2>1. dev' = [dev EXCEPT ![t] = NULL] /\ refcnt' = refcnt
    BY <1>3 DEF RdRegister, Register, get_blkdev_instance
  <2>2. pc' = [pc EXCEPT ![t] = "create"] /\ reply' \in [Thread -> Reply]
    BY <1>3, <2>1, Zenon DEF RdRegister, Register, Goto, Answer, Reply, RdInv, Typed
  <2>3. \A d \in Registered : minor[d] # m
    <3>1. NULL \notin Registered
      BY BlkDevAssumption, LookupFacts, Zenon DEF RdInv, Typed
    <3> QED  BY <1>3, <3>1, LookupFacts DEF RdInv, Typed
  <2>4. Typed'
    BY <1>1, <2>1, <2>2 DEF RdInv, Typed, Label, rdvars
  <2>5. /\ Registered' = Registered /\ Created' = Created /\ Creator' = Creator
        /\ Creating' = Creating /\ \A d : Holders(d)' = Holders(d)
    BY <1>1, <2>1, <2>2 DEF RdInv, Typed, Registered, Created, Creator, Creating,
           Holders, Holding
  <2>6. Uses' /\ Instances' /\ CopyInDisk'
    BY <1>1, <2>1, <2>2, <2>5
    DEF RdInv, Typed, Uses, Instances, CopyInDisk, Holding, rdvars
  <2>7. Creators'
    BY <1>1, <2>1, <2>2, <2>3, <2>5 DEF RdInv, Typed, Creators, rdvars
  <2>8. Counted' /\ InstancesOwned'
    BY <1>1, <2>1, <2>5 DEF RdInv, Typed, Counted, InstancesOwned, Creator
  <2>9. Numbers' /\ MemoryOwned'
    BY <1>1, <2>5, DisksKept DEF RdInv, rdvars
  <2> QED  BY <2>4, <2>6, <2>7, <2>8, <2>9 DEF RdInv
<1>4. CASE ~registered
  <2>1. Return(t, "E_INVALIDARG") /\ UNCHANGED <<dev, refcnt>>
    BY <1>4 DEF RdRegister, Register
  <2>2. pc' = pc /\ reply' \in [Thread -> Reply]
    BY <1>1, <2>1 DEF Return, Goto, Answer, Reply, RdInv, Typed
  <2>3. refcnt' \in [Instance -> Nat] /\ \A d \in Instance : refcnt'[d] >= refcnt[d]
    BY <2>1 DEF RdInv, Typed
  <2> QED  BY <1>1, <2>1, <2>2, <2>3, FailureKeeps, Zenon
<1> QED  BY <1>2, <1>3, <1>4

\* release_blkdev_instance: its ASSERT holds.
LEMMA ReleaseKeeps ==
    ASSUME RdInv, NEW t \in Thread, release_blkdev_instance(t), UNCHANGED rdvars
    PROVE  RdInv'
<1>1. PICK d \in Registered : d = dev[t] /\ d \in Instance
  BY LookupFacts, Zenon DEF RdInv, Typed, Uses, release_blkdev_instance, At, Holding
<1>2. t \in Holders(d) /\ pc[t] = "release"
  BY <1>1 DEF release_blkdev_instance, At, Holders, Holding
<1>3. /\ Cardinality(Holders(d)) >= 1
      /\ Cardinality(Holders(d) \ {t}) = Cardinality(Holders(d)) - 1
  BY <1>2, Finite, OneLess
<1>4. refcnt[d] \in Nat /\ refcnt[d] > 0
  BY <1>1, <1>3, Finite DEF RdInv, Typed, Counted
<1>5. /\ refcnt' = [refcnt EXCEPT ![d] = @ - 1]
      /\ dev' = [dev EXCEPT ![t] = NULL] /\ pc' = [pc EXCEPT ![t] = "idle"]
      /\ UNCHANGED <<registered, instances, minor, heap, arg, reply, halted>>
  BY <1>1, <1>4 DEF release_blkdev_instance, Goto
<1> USE DEF rdvars
<1>6. Typed'
  BY <1>1, <1>4, <1>5 DEF RdInv, Typed, Label
<1>7. /\ Registered' = Registered /\ Created' = Created /\ Creator' = Creator
      /\ Creating' = Creating
  <2>1. Registered' = Registered
    BY <1>5 DEF Registered
  <2>2. Creator' = Creator /\ Creating' = Creating /\ t \notin Creator
    BY <1>2, <1>5 DEF RdInv, Typed, Creator, Creating
  <2>3. \A u \in Creator : dev'[u] = dev[u]
    BY <1>5, <2>2 DEF RdInv, Typed, Creator
  <2> QED  BY <2>1, <2>2, <2>3 DEF Created
<1>8. Uses' /\ Creators'
  <2>1. Uses'
    BY <1>2, <1>5, <1>7 DEF RdInv, Typed, Uses, Holding
  <2>2. Creators'
    BY <1>2, <1>5, <1>7 DEF RdInv, Typed, Creators
  <2> QED  BY <2>1, <2>2
<1>9. Instances' /\ CopyInDisk'
  BY <1>5, <1>7 DEF RdInv, Typed, Instances, CopyInDisk
<1>10. Counted'
  <2>1. Holders(d)' = Holders(d) \ {t} /\ \A e : e # d => Holders(e)' = Holders(e)
    BY <1>1, <1>2, <1>5 DEF RdInv, Typed, Holders, Holding
  <2>2. ASSUME NEW e \in Registered
        PROVE  refcnt'[e] >= Cardinality(Holders(e)')
    <3>1. /\ refcnt[e] >= Cardinality(Holders(e)) /\ refcnt[e] \in Nat
          /\ refcnt'[e] = IF e = d THEN refcnt[e] - 1 ELSE refcnt[e]
          /\ Cardinality(Holders(e)) \in Nat
      BY <1>1, <1>5, Finite, LookupFacts, Zenon DEF RdInv, Typed, Counted
    <3>2. CASE e = d
      <4>1. Cardinality(Holders(e)') = Cardinality(Holders(e)) - 1
        BY <1>3, <2>1, <3>2
      <4> QED  BY <3>1, <3>2, <4>1
    <3>3. CASE e # d
      <4>1. Holders(e)' = Holders(e)
        BY <2>1, <3>3
      <4> QED  BY <3>1, <3>3, <4>1
    <3> QED  BY <3>2, <3>3
  <2> QED  BY <1>7, <2>2 DEF Counted
<1>11. InstancesOwned'
  BY <1>2, <1>5, <1>7 DEF RdInv, Typed, InstancesOwned, Creator
<1>12. Numbers' /\ MemoryOwned'
  BY <1>7, DisksKept DEF RdInv
<1> QED  BY <1>6, <1>8, <1>9, <1>10, <1>11, <1>12 DEF RdInv

\* destroy_ramdisk: the disk is not registered any more, so nobody copies.
LEMMA DestroyKeeps ==
    ASSUME RdInv, NEW t \in Thread, NEW m \in Minor, destroy_ramdisk(t, m)
    PROVE  RdInv'
<1>1. /\ owner[m] = t /\ stage[m] = "unregistered"
      /\ stage' = [stage EXCEPT ![m] = "destroyed"]
      /\ UNCHANGED vars /\ UNCHANGED <<n, rd, owner>>
      /\ \/ m \in Listed /\ remove_disk(m)
         \/ m \notin Listed /\ UNCHANGED <<disk, freemem>>
  BY DEF destroy_ramdisk, Advance
<1>2. Typed'
  <2>1. disk' \in [Minor -> Page \cup {NULL}] /\ freemem' \subseteq Page
    BY <1>1 DEF RdInv, Typed, Listed, remove_disk
  <2>2. stage' \in [Minor -> Stage]
    BY <1>1 DEF RdInv, Typed, Stage
  <2> QED  BY <1>1, <2>1, <2>2, Zenon DEF RdInv, Typed, vars
<1>3. \A d \in Registered : minor[d] # m
  BY <1>1 DEF RdInv, Instances
<1>4. \A u \in Thread : pc[u] \in {"create", "append"} => arg[u] # m
  BY <1>1 DEF RdInv, Creators
<1>5. \A u \in Thread : pc[u] = "copy" => arg[u] # m /\ arg[u] \in Minor
  BY <1>3 DEF RdInv, Uses, Instances, Holding
<1>6. /\ Uses' /\ Counted' /\ InstancesOwned'
      /\ Registered' = Registered /\ Creating' = Creating
  BY <1>1, LayerKept DEF vars
<1>7. Creators' /\ Instances'
  <2>1. \A k \in Minor : k # m => stage'[k] = stage[k]
    BY <1>1 DEF RdInv, Typed
  <2>2. UNCHANGED <<pc, arg, dev, minor, owner>>
    BY <1>1 DEF vars
  <2>3. Creators'
    BY <1>4, <1>6, <2>1, <2>2 DEF RdInv, Creators
  <2>4. Instances'
    BY <1>3, <1>6, <2>1, <2>2 DEF RdInv, Instances
  <2> QED  BY <2>3, <2>4
<1>8. CopyInDisk'
  BY <1>1, <1>5 DEF RdInv, Typed, vars, CopyInDisk, remove_disk
<1>9. Creating' = Creating /\ ~(m >= n)
  BY <1>1, <1>6 DEF RdInv, Numbers
<1>10. Numbers'
  BY <1>1, <1>9 DEF RdInv, Typed, Numbers, remove_disk
<1>11. MemoryOwned'
  <2> DEFINE creating == {rd[u] : u \in Creating}
  <2>1. rd' = rd /\ {rd'[u] : u \in Creating'} = creating
    BY <1>1, <1>9
  <2>2. /\ freemem \cup creating \cup {disk[k] : k \in Listed} = Page
        /\ freemem \cap (creating \cup {disk[k] : k \in Listed}) = {}
        /\ creating \cap {disk[k] : k \in Listed} = {}
        /\ \A u, v \in Creating : rd[u] = rd[v] => u = v
        /\ \A j, k \in Listed : disk[j] = disk[k] => j = k
    BY Zenon DEF RdInv, MemoryOwned
  <2>3. CASE m \notin Listed
    <3>1. Listed' = Listed /\ disk' = disk /\ freemem' = freemem
      BY <1>1, <2>3 DEF Listed
    <3>2. {disk'[k] : k \in Listed'} = {disk[k] : k \in Listed}
      BY <3>1
    <3> HIDE DEF creating
    <3> QED  BY <1>9, <2>1, <2>2, <3>1, <3>2 DEF MemoryOwned
  <2>4. CASE m \in Listed
    <3>1. /\ Listed' = Listed \ {m} /\ freemem' = freemem \cup {disk[m]}
          /\ \A k \in Listed' : disk'[k] = disk[k]
      BY <1>1, <2>4 DEF RdInv, Typed, Listed, remove_disk
    <3>2. {disk'[k] : k \in Listed'} = {disk[k] : k \in Listed} \ {disk[m]}
      BY <2>4, <3>1, <2>2
    <3>3. disk[m] \in {disk[k] : k \in Listed}
      BY <2>4
    <3> HIDE DEF creating
    <3>4. /\ freemem' \cup creating \cup {disk'[k] : k \in Listed'} = Page
          /\ freemem' \cap (creating \cup {disk'[k] : k \in Listed'}) = {}
          /\ creating \cap {disk'[k] : k \in Listed'} = {}
      BY <3>1, <2>2, <3>2, <3>3, SMTT(60)
    <3>5. \A j, k \in Listed' : disk'[j] = disk'[k] => j = k
      BY <3>1, <2>2
    <3> QED  BY <1>9, <2>1, <2>2, <3>4, <3>5 DEF MemoryOwned
  <2> QED  BY <2>3, <2>4
<1> QED  BY <1>2, <1>6, <1>7, <1>8, <1>10, <1>11 DEF RdInv

\* unregister_blkdev_instance: an instance it frees has no user.
LEMMA UnregisterKeeps ==
    ASSUME RdInv, NEW t \in Thread, NEW m \in Minor, RdUnregister(t, m)
    PROVE  RdInv'
<1>1. /\ pc[t] = "idle" /\ owner[m] = t /\ stage[m] = "registered"
      /\ UNCHANGED <<registered, minor, arg, dev, halted, n, disk, freemem, rd, owner>>
  BY DEF RdUnregister, unregister_blkdev_instance, At
<1>2. CASE ~registered \/ Lookup(m) = NULL
  <2>1. Return(t, "E_INVALIDARG") /\ UNCHANGED <<instances, refcnt, heap>>
    BY <1>2, Zenon DEF RdUnregister, unregister_blkdev_instance
  <2>2. /\ pc' = pc /\ reply' \in [Thread -> Reply]
        /\ reply'[t] = "E_INVALIDARG"
    BY <1>1, <2>1 DEF Return, Goto, Answer, Reply, RdInv, Typed
  <2>3. refcnt' \in [Instance -> Nat] /\ \A d \in Instance : refcnt'[d] >= refcnt[d]
    BY <2>1 DEF RdInv, Typed
  <2>4. UNCHANGED rdvars
    BY <1>1, <2>2 DEF RdUnregister, rdvars
  <2> QED  BY <1>1, <2>1, <2>2, <2>3, <2>4, FailureKeeps
<1>3. CASE registered /\ Lookup(m) # NULL
  <2>1. PICK d \in Registered : d = Lookup(m) /\ d \in Instance /\ minor[d] = m
    BY <1>3, LookupFacts DEF RdInv, Typed
  <2>2. refcnt' = [refcnt EXCEPT ![d] = @ + 1] /\ refcnt[d] \in Nat
    BY <1>3, <2>1 DEF RdUnregister, unregister_blkdev_instance, RdInv, Typed
  <2>3. refcnt' \in [Instance -> Nat] /\ \A e \in Instance : refcnt'[e] >= refcnt[e]
    BY <2>1, <2>2 DEF RdInv, Typed
  <2>4. CASE Busy(d)
    <3>1. Return(t, "E_BUSY") /\ UNCHANGED <<instances, heap>>
      BY <1>3, <2>1, <2>4, Zenon DEF RdUnregister, unregister_blkdev_instance
    <3>2. pc' = pc /\ reply' \in [Thread -> Reply] /\ reply'[t] = "E_BUSY"
      BY <1>1, <3>1 DEF Return, Goto, Answer, Reply, RdInv, Typed
    <3>3. UNCHANGED rdvars
      BY <1>1, <3>2 DEF RdUnregister, rdvars
    <3> QED  BY <1>1, <2>3, <3>1, <3>2, <3>3, FailureKeeps, Zenon
  <2>5. CASE ~Busy(d)
    <3>1. Return(t, "S_OK") /\ remove_instance(d)
      BY <1>3, <2>1, <2>5 DEF RdUnregister, unregister_blkdev_instance
    <3>2. pc' = pc /\ reply' \in [Thread -> Reply] /\ reply'[t] = "S_OK"
      BY <1>1, <3>1 DEF Return, Goto, Answer, Reply, RdInv, Typed
    <3>3. stage' = [stage EXCEPT ![m] = "unregistered"]
      BY <3>2 DEF RdUnregister, Advance
    <3>4. /\ instances' \in Seq(Instance) /\ IsInjective(instances')
          /\ Registered' = Registered \ {d}
      <4> DEFINE k == CHOOSE i \in DOMAIN instances : instances[i] = d
      <4>1. k \in DOMAIN instances /\ instances[k] = d
        BY <2>1 DEF RdInv, Typed, Registered, Range
      <4>2. instances' = list_remove(instances, k)
        BY <3>1 DEF remove_instance
      <4> HIDE DEF k
      <4> QED  BY <4>1, <4>2, Removed DEF RdInv, Typed, InstancesOwned, Registered
    <3>5. Typed'
      BY <1>1, <2>1, <2>3, <3>1, <3>2, <3>3, <3>4
      DEF RdInv, Typed, Stage, remove_instance
    <3>6. Holders(d) = {}
      <4>1. Cardinality(Holders(d)) = 0
        BY <2>1, <2>2, <2>5, Finite DEF RdInv, Counted, Busy
      <4> QED  BY <4>1, Finite, FS_EmptySet
    <3>7. /\ Created' = Created /\ Creator' = Creator /\ Creating' = Creating
          /\ \A e : Holders(e)' = Holders(e)
      BY <1>1, <3>2 DEF Created, Creator, Creating, Holders
    <3>8. Uses'
      BY <1>1, <3>2, <3>4, <3>6, Zenon DEF RdInv, Uses, Holders
    <3>9. Counted'
      <4>1. ASSUME NEW e \in Registered
            PROVE  refcnt'[e] >= Cardinality(Holders(e)')
        <5>1. /\ refcnt[e] >= Cardinality(Holders(e)) /\ refcnt'[e] >= refcnt[e]
              /\ refcnt[e] \in Nat /\ refcnt'[e] \in Nat
              /\ Cardinality(Holders(e)) \in Nat
          BY <2>3, Finite, LookupFacts, Zenon DEF RdInv, Typed, Counted
        <5>2. Holders(e)' = Holders(e)
          BY <3>7
        <5> QED  BY <5>1, <5>2
      <4> QED  BY <3>4, <4>1 DEF Counted
    <3>10. Creators'
      <4>1. \A u \in Thread : pc[u] \in {"create", "append"} => arg[u] # m
        BY <1>1 DEF RdInv, Creators
      <4> QED  BY <1>1, <3>2, <3>3, <3>4, <4>1 DEF RdInv, Typed, Creators
    <3>11. Instances'
      BY <1>1, <2>1, <3>3, <3>4 DEF RdInv, Typed, Instances
    <3>12. Numbers' /\ MemoryOwned'
      <4>1. ~(m >= n)
        BY <1>1, Zenon DEF RdInv, Numbers
      <4> QED  BY <1>1, <3>3, <3>7, <4>1, DisksKept, Zenon DEF RdInv, Typed
    <3>13. InstancesOwned'
      BY <1>1, <2>1, <3>1, <3>4, <3>7, Zenon DEF RdInv, InstancesOwned, remove_instance
    <3>14. CopyInDisk'
      BY <1>1, <3>2 DEF RdInv, CopyInDisk
    <3> QED  BY <3>5, <3>8, <3>9, <3>10, <3>11, <3>12, <3>13, <3>14 DEF RdInv
  <2> QED  BY <2>4, <2>5
<1> QED  BY <1>2, <1>3
-----------------------------------------------------------------------------
\* Nothing is registered and no disk exists when the kernel starts.
LEMMA InitRdInv == RdInit => RdInv
<1> SUFFICES ASSUME RdInit PROVE RdInv
  OBVIOUS
<1> USE DEF RdInit, Init
<1>1. Typed
  <2>1. registered \in BOOLEAN /\ halted = FALSE
    BY Zenon
  <2>2. instances \in Seq(Instance) /\ heap \subseteq Instance /\ n \in Nat
    OBVIOUS
  <2>3. /\ minor \in [Instance -> Minor \cup {NULL}] /\ refcnt \in [Instance -> Nat]
        /\ pc \in [Thread -> Label] /\ arg \in [Thread -> Minor \cup {NULL}]
        /\ dev \in [Thread -> Instance \cup {NULL}] /\ reply \in [Thread -> Reply]
    BY DEF Label, Reply
  <2>4. /\ freemem \subseteq Page /\ disk \in [Minor -> Page \cup {NULL}]
        /\ rd \in [Thread -> Page \cup {NULL}]
        /\ owner \in [Minor -> Thread \cup {NULL}] /\ stage \in [Minor -> Stage]
    BY DEF Stage
  <2> QED  BY <2>1, <2>2, <2>3, <2>4 DEF Typed
<1>2. Registered = {} /\ Creator = {} /\ Created = {} /\ Creating = {} /\ Listed = {}
  BY DEF Registered, Range, Creator, Created, Creating, Listed
<1>3. Uses /\ Counted /\ Creators /\ Instances /\ CopyInDisk
  BY <1>2 DEF Uses, Counted, Creators, Instances, CopyInDisk, Holding
<1>4. Numbers
  <2>1. Cardinality(Creating) = 0 /\ Cardinality(Minor) \in Nat
    BY <1>2, Finite, FS_EmptySet
  <2>2. n = 0 /\ \A m \in Minor : stage[m] = "none" /\ disk[m] = NULL
    OBVIOUS
  <2> QED  BY <1>2, <2>1, <2>2 DEF Numbers
<1>5. InstancesOwned
  BY <1>2 DEF InstancesOwned, IsInjective
<1>6. MemoryOwned
  BY <1>2 DEF MemoryOwned
<1> QED  BY <1>1, <1>3, <1>4, <1>5, <1>6 DEF RdInv

\* Every step of a client, a reader or a writer keeps the invariant.
LEMMA NextRdInv == RdInv /\ [RdNext]_allvars => RdInv'
<1> SUFFICES ASSUME RdInv, [RdNext]_allvars PROVE RdInv'
  OBVIOUS
<1>1. CASE UNCHANGED allvars
  <2> USE <1>1 DEF allvars, vars, rdvars
  <2>1. Typed'
    BY DEF RdInv, Typed
  <2>2. /\ Uses' /\ Counted' /\ InstancesOwned'
        /\ Registered' = Registered /\ Creating' = Creating
    BY LayerKept
  <2>3. Creators' /\ Instances' /\ CopyInDisk'
    BY <2>2 DEF RdInv, Creators, Instances, CopyInDisk
  <2>4. Numbers' /\ MemoryOwned'
    BY <2>2, DisksKept
  <2> QED  BY <2>1, <2>2, <2>3, <2>4 DEF RdInv
<1>2. ASSUME NEW t \in Thread,
             \/ CreateAlloc(t) \/ CreateList(t)
             \/ get_ramdisk_instance(t) \/ ramdisk_read_write_blocks(t)
             \/ RdRegisterAppend(t)
      PROVE  RdInv'
  BY <1>2, CreateAllocKeeps, CreateListKeeps, TransferKeeps, RegisterAppendKeeps
<1>3. ASSUME NEW t \in Thread, UNCHANGED rdvars,
             \/ register_blkdev_class(t) \/ RegisterCreate(t)
             \/ release_blkdev_instance(t)
      PROVE  RdInv'
  BY <1>3, ClassKeeps, RegisterCreateKeeps, ReleaseKeeps
<1>4. ASSUME NEW t \in Thread, NEW m \in Minor,
             \/ RdRegister(t, m) \/ RdUnregister(t, m) \/ destroy_ramdisk(t, m)
             \/ Use(t, m) /\ UNCHANGED rdvars
      PROVE  RdInv'
  BY <1>4, RegisterKeeps, UnregisterKeeps, DestroyKeeps, UseKeeps
<1> QED  BY <1>1, <1>2, <1>3, <1>4 DEF RdNext

\* RdInv is an inductive invariant of the block device layer and its RAM disks.
THEOREM RdInvariance == RdSpec => []RdInv
  BY InitRdInv, NextRdInv, PTL DEF RdSpec

\* An instance stays registered, and its count covers its users, as long as a
\* thread is between get_blkdev_instance and release_blkdev_instance; the ASSERT
\* of release_blkdev_instance never fails.
THEOREM InstanceOutlivesItsUsers == RdSpec => [](UsesCounted /\ ~halted)
<1>1. RdInv => UsesCounted /\ ~halted
  BY DEF RdInv, Typed, Uses, Counted, UsesCounted
<1> QED  BY <1>1, RdInvariance, PTL

\* register_blkdev_instance and unregister_blkdev_instance lose no object, free
\* none twice and list none twice.
THEOREM NoInstanceLost == RdSpec => []InstancesOwned
<1>1. RdInv => InstancesOwned
  BY DEF RdInv
<1> QED  BY <1>1, RdInvariance, PTL

\* blkdev.c:70-71, "uniquely identifies a block device instance", for clients
\* that register no minor number but their own.
THEOREM OwnersKeepMinorsUnique == RdSpec => []MinorsUnique
<1>1. RdInv => MinorsUnique
  BY DEF RdInv, Instances, MinorsUnique
<1> QED  BY <1>1, RdInvariance, PTL

\* ramdisk_read_write_blocks never copies to or from the memory of a disk that
\* destroy_ramdisk has freed.
THEOREM CopyStaysInDisk == RdSpec => []CopyInDisk
<1>1. RdInv => CopyInDisk
  BY DEF RdInv
<1> QED  BY <1>1, RdInvariance, PTL

\* create_ramdisk and destroy_ramdisk lose no page and give none to two disks.
THEOREM NoPageLost == RdSpec => []MemoryOwned
<1>1. RdInv => MemoryOwned
  BY DEF RdInv
<1> QED  BY <1>1, RdInvariance, PTL
=============================================================================
