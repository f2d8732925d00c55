-------------------------- MODULE RamDiskInvariant --------------------------
(***************************************************************************)
(* The inductive invariant RdInv of BlkDev and RamDisk together, and the   *)
(* proof that the steps which create, list, copy and register keep it.     *)
(* RamDiskProofs.tla has the steps that take and give back a reference,    *)
(* and the theorems.                                                       *)
(***************************************************************************)
EXTENDS RamDisk, FiniteSetTheorems, TLAPS

Stage == {"none", "created", "registered", "unregistered", "destroyed"}
Reply == {"none", "S_OK", "E_FAIL", "E_NOMEM", "E_INVALIDARG", "E_BUSY"}

\* The types, with no bound on the reference counts; no ASSERT has failed.
Typed ==
    /\ registered \in BOOLEAN /\ halted = FALSE
    /\ instances \in Seq(Instance) /\ heap \subseteq Instance
    /\ minor \in [Instance -> Minor \cup {NULL}]
    /\ refcnt \in [Instance -> Nat]
    /\ pc \in [Thread -> Label]
    /\ arg \in [Thread -> Minor \cup {NULL}]
    /\ dev \in [Thread -> Instance \cup {NULL}]
    /\ reply \in [Thread -> Reply]
    /\ n \in Nat /\ freemem \subseteq Page
    /\ disk \in [Minor -> Page \cup {NULL}]
    /\ rd \in [Thread -> Page \cup {NULL}]
    /\ owner \in [Minor -> Thread \cup {NULL}]
    /\ stage \in [Minor -> Stage]

\* A thread that uses an instance was called for its minor number.
Uses ==
    \A t \in Thread : pc[t] \in Holding =>
        dev[t] \in Registered /\ minor[dev[t]] = arg[t]

Counted == \A d \in Registered : refcnt[d] >= Cardinality(Holders(d))

\* A thread that registers a disk owns it, and nobody has registered it.
Creators ==
    \A t \in Thread : pc[t] \in {"create", "append"} =>
        /\ arg[t] \in Minor /\ owner[arg[t]] = t
        /\ stage[arg[t]] \in {"created", "registered"}
        /\ \A d \in Registered : minor[d] # arg[t]
        /\ pc[t] = "append" => dev[t] \in Instance

\* A registered instance has a minor number of its own, and its disk is there.
Instances ==
    /\ \A d \in Registered : minor[d] \in Minor /\ stage[minor[d]] = "registered"
    /\ \A d, e \in Registered : minor[d] = minor[e] => d = e

\* Minor numbers are given out in order, and there is one for every disk that
\* is being created.
Numbers ==
    /\ \A m \in Minor : m >= n => stage[m] = "none" /\ disk[m] = NULL
    /\ n + Cardinality(Creating) <= Cardinality(Minor)
    /\ \A t \in Creating : rd[t] \in Page

RdInv ==
    /\ Typed /\ Uses /\ Counted /\ Creators /\ Instances /\ Numbers
    /\ InstancesOwned /\ CopyInDisk /\ MemoryOwned
-----------------------------------------------------------------------------
\* A set of indices that is not empty has a least one, so Lookup finds the first
\* match of the list_for_each of get_blkdev_instance.
LEMMA MinIsLeast ==
    ASSUME NEW S \in SUBSET Nat, S # {}
    PROVE  Min(S) \in S /\ \A i \in S : Min(S) <= i
<1>1. IsWellFoundedOn(OpToRel(<, Nat), Nat)
  BY NatLessThanWellFounded, Zenon
<1>2. PICK x \in S : \A y \in S : ~(<<y, x>> \in OpToRel(<, Nat))
  BY <1>1, WFMin, Zenon
<1>3. \A y \in S : ~(y < x)
  BY <1>2, ZenonT(30) DEF OpToRel
<1>4. \A y \in S : x <= y
  BY <1>3
<1> QED  BY <1>4, Zenon DEF Min

\* get_blkdev_instance returns a registered instance with that minor number,
\* when there is one.
LEMMA LookupFacts ==
    ASSUME NEW m, instances \in Seq(Instance)
    PROVE  /\ Registered \subseteq Instance
           /\ \/ Lookup(m) = NULL /\ \A d \in Registered : minor[d] # m
              \/ Lookup(m) \in Registered /\ minor[Lookup(m)] = m
<1> DEFINE found == {i \in DOMAIN instances : minor[instances[i]] = m}
<1>1. Registered \subseteq Instance
  BY DEF Registered, Range
<1>2. CASE found = {}
  BY <1>1, <1>2 DEF Registered, Range, Lookup
<1>3. CASE found # {}
  <2>1. found \in SUBSET Nat
    OBVIOUS
  <2>2. Min(found) \in found
    BY <1>3, <2>1, MinIsLeast, Zenon
  <2> QED  BY <1>1, <1>3, <2>2, Zenon DEF Registered, Range, Lookup
<1> QED  BY <1>2, <1>3

\* list_append, on a list without that node.
LEMMA Appended ==
    ASSUME NEW S, NEW s \in Seq(S), NEW e \in S, IsInjective(s), e \notin Range(s)
    PROVE  /\ Append(s, e) \in Seq(S) /\ IsInjective(Append(s, e))
           /\ Range(Append(s, e)) = Range(s) \cup {e}
  BY DEF Range, IsInjective

\* list_remove.
LEMMA Removed ==
    ASSUME NEW S, NEW s \in Seq(S), IsInjective(s), NEW k \in DOMAIN s
    PROVE  /\ list_remove(s, k) \in Seq(S) /\ IsInjective(list_remove(s, k))
           /\ Range(list_remove(s, k)) = Range(s) \ {s[k]}
<1> DEFINE a == SubSeq(s, 1, k - 1)
           b == SubSeq(s, k + 1, Len(s))
           r == a \o b
<1>1. /\ a \in Seq(S) /\ Len(a) = k - 1
      /\ \A i \in 1..(k - 1) : a[i] = s[i]
  OBVIOUS
<1>2. /\ b \in Seq(S) /\ Len(b) = Len(s) - k
      /\ \A i \in 1..(Len(s) - k) : b[i] = s[k + i]
  OBVIOUS
<1> HIDE DEF a, b
<1>3. /\ r \in Seq(S) /\ Len(r) = Len(s) - 1
      /\ \A i \in 1..Len(r) : r[i] = IF i < k THEN s[i] ELSE s[i + 1]
  <2>1. r \in Seq(S) /\ Len(r) = Len(s) - 1
    BY <1>1, <1>2
  <2>2. ASSUME NEW i \in 1..Len(r)
        PROVE  r[i] = IF i < k THEN s[i] ELSE s[i + 1]
    <3>1. CASE i < k
      <4>1. i \in 1..Len(a) /\ r[i] = a[i]
        BY <3>1, <2>1, <1>1, <1>2
      <4> HIDE DEF r
      <4> QED  BY <3>1, <4>1, <1>1
    <3>2. CASE i >= k
      <4>1. i - Len(a) \in 1..Len(b) /\ r[i] = b[i - Len(a)]
        BY <3>2, <2>1, <1>1, <1>2, SMTT(20)
      <4> HIDE DEF r
      <4>2. b[i - Len(a)] = s[k + (i - Len(a))]
        BY <4>1, <1>2
      <4>3. k + (i - Len(a)) = i + 1
        BY <1>1, <2>1
      <4> QED  BY <3>2, <4>1, <4>2, <4>3, <2>1
    <3> HIDE DEF r
    <3> QED  BY <3>1, <3>2, <2>1
  <2> QED  BY <2>1, <2>2
<1> HIDE DEF r
<1>4. IsInjective(r)
  <2>1. ASSUME NEW i \in 1..Len(r), NEW j \in 1..Len(r), r[i] = r[j]
        PROVE  i = j
    <3> DEFINE up(x) == IF x < k THEN x ELSE x + 1
    <3>1. s[up(i)] = s[up(j)] /\ up(i) \in 1..Len(s) /\ up(j) \in 1..Len(s)
      BY <2>1, <1>3, SMTT(20)
    <3>2. up(i) = up(j)
      BY <3>1 DEF IsInjective
    <3> QED  BY <3>2, <1>3
  <2> QED  BY <2>1, <1>3 DEF IsInjective
<1>5. Range(r) \subseteq Range(s) \ {s[k]}
  BY <1>3 DEF Range, IsInjective
<1>6. ASSUME NEW i \in 1..Len(s), i # k
      PROVE  s[i] \in Range(r)
  <2>1. CASE i < k
    BY <2>1, <1>3, <1>6 DEF Range
  <2>2. CASE i > k
    <3>1. i - 1 \in 1..Len(r) /\ r[i - 1] = s[i]
      BY <2>2, <1>3
    <3> QED  BY <3>1, <1>3 DEF Range
  <2> QED  BY <2>1, <2>2, <1>6
<1>7. Range(s) \ {s[k]} \subseteq Range(r)
  BY <1>6 DEF Range
<1>8. list_remove(s, k) = r
  BY DEF list_remove, r, a, b
<1> QED  BY <1>3, <1>4, <1>5, <1>7, <1>8
-----------------------------------------------------------------------------
\* The users of an instance, and the threads that are creating a disk, are
\* finitely many.
LEMMA Finite ==
    /\ \A d : IsFiniteSet(Holders(d)) /\ Cardinality(Holders(d)) \in Nat
    /\ IsFiniteSet(Creating) /\ Cardinality(Creating) \in Nat
    /\ Cardinality(Minor) \in Nat
<1>1. \A T \in SUBSET Thread : IsFiniteSet(T) /\ Cardinality(T) \in Nat
  BY BlkDevAssumption, FS_Subset, FS_CardinalityType
<1>2. Creating \in SUBSET Thread /\ \A d : Holders(d) \in SUBSET Thread
  BY DEF Creating, Holders
<1> QED  BY <1>1, <1>2, RamDiskAssumption, FS_CardinalityType

\* A member taken away counts for one.
LEMMA OneLess ==
    ASSUME NEW S, IsFiniteSet(S), NEW x \in S
    PROVE  Cardinality(S) >= 1 /\ Cardinality(S \ {x}) = Cardinality(S) - 1
<1>1. IsFiniteSet(S \ {x}) /\ Cardinality(S \ {x}) = Cardinality(S) - 1
  BY FS_RemoveElement
<1>2. Cardinality(S) \in Nat /\ Cardinality(S \ {x}) \in Nat
  BY <1>1, FS_CardinalityType
<1> QED  BY <1>1, <1>2

\* create_ramdisk up to its critical section.
LEMMA CreateAllocKeeps ==
    ASSUME RdInv, NEW t \in Thread, CreateAlloc(t)
    PROVE  RdInv'
<1>1. Typed'
  <2>1. pc' \in [Thread -> Label] /\ reply' \in [Thread -> Reply]
    BY Zenon DEF RdInv, Typed, CreateAlloc, Goto, Return, Answer, Label, Reply
  <2>2. freemem' \subseteq Page /\ rd' \in [Thread -> Page \cup {NULL}]
    BY DEF RdInv, Typed, CreateAlloc
  <2> QED  BY <2>1, <2>2, Zenon DEF RdInv, Typed, CreateAlloc
<1>2. /\ Registered' = Registered /\ Created' = Created /\ Creator' = Creator
      /\ \A d : Holders(d)' = Holders(d)
  BY DEF RdInv, Typed, CreateAlloc, At, Goto, Return, Answer, Registered,
         Created, Creator, Holders, Holding
<1>3. Uses' /\ Creators'
  BY <1>2 DEF RdInv, Typed, CreateAlloc, At, Goto, Return, Uses, Creators, Holding
<1>4. Instances' /\ CopyInDisk'
  BY <1>2 DEF RdInv, Typed, CreateAlloc, At, Goto, Return, Instances, CopyInDisk
<1>5. Counted' /\ InstancesOwned'
  BY <1>2 DEF RdInv, CreateAlloc, Counted, InstancesOwned
<1>6. Numbers' /\ MemoryOwned'
  <2>1. CASE Return(t, "E_NOMEM") /\ UNCHANGED <<freemem, rd>>
    <3>1. Creating' = Creating
      BY <2>1 DEF RdInv, Typed, CreateAlloc, At, Return, Goto, Creating
    <3> QED  BY <2>1, <3>1 DEF RdInv, CreateAlloc, Numbers, MemoryOwned, Listed
  <2>2. ASSUME NEW p \in freemem, freemem' = freemem \ {p},
               rd' = [rd EXCEPT ![t] = p], Goto(t, "list")
        PROVE  Numbers' /\ MemoryOwned'
    <3>1. t \notin Creating /\ Creating' = Creating \cup {t}
      BY <2>2 DEF RdInv, Typed, CreateAlloc, At, Goto, Creating
    <3>2. /\ rd'[t] = p /\ p \in Page
          /\ \A u \in Creating : u # t /\ rd'[u] = rd[u]
      BY <2>2, <3>1 DEF RdInv, Typed, Creating
    <3>3. Cardinality(Creating') = Cardinality(Creating) + 1
      BY <3>1, Finite, FS_AddElement
    <3>4. n + Cardinality(Creating) < Cardinality(Minor)
      BY RamDiskAssumption, Finite DEF CreateAlloc, RdInv, Typed
    <3>5. Numbers'
      BY <3>1, <3>2, <3>3, <3>4, Finite DEF RdInv, Typed, CreateAlloc, Numbers
    <3>6. Listed' = Listed
      BY DEF CreateAlloc, Listed
    <3>7. MemoryOwned'
      BY <2>2, <3>1, <3>2, <3>6 DEF RdInv, CreateAlloc, MemoryOwned
    <3> QED  BY <3>5, <3>7
  <2> QED  BY <2>1, <2>2 DEF CreateAlloc
<1> QED  BY <1>1, <1>3, <1>4, <1>5, <1>6 DEF RdInv

\* The critical section of create_ramdisk.
LEMMA CreateListKeeps ==
    ASSUME RdInv, NEW t \in Thread, CreateList(t)
    PROVE  RdInv'
<1>1. t \in Creating /\ rd[t] \in Page
  BY DEF RdInv, Numbers, CreateList, At, Creating
<1>2. /\ Cardinality(Creating) >= 1
      /\ Cardinality(Creating \ {t}) = Cardinality(Creating) - 1
  BY <1>1, Finite, OneLess
<1>3. n \in Minor /\ stage[n] = "none" /\ disk[n] = NULL
  BY <1>2, Finite, RamDiskAssumption DEF RdInv, Typed, Numbers
<1>4. Typed'
  BY <1>1, <1>3 DEF RdInv, Typed, CreateList, At, Goto, Return, Answer, Label,
         Reply, Advance, Stage
<1>5. /\ Registered' = Registered /\ Created' = Created /\ Creator' = Creator
      /\ \A d : Holders(d)' = Holders(d)
  BY DEF RdInv, Typed, CreateList, At, Goto, Return, Registered,
         Created, Creator, Holders, Holding
<1>6. Uses' /\ Creators'
  BY <1>3, <1>5 DEF RdInv, Typed, CreateList, At, Goto, Return, Advance, Uses,
         Creators, Holding
<1>7. Instances'
  BY <1>3, <1>5 DEF RdInv, Typed, CreateList, Advance, Instances
<1>8. Counted' /\ InstancesOwned'
  BY <1>5 DEF RdInv, CreateList, Counted, InstancesOwned
<1>9. CopyInDisk'
  BY <1>3 DEF RdInv, Typed, CreateList, At, Goto, Return, CopyInDisk, Uses,
         Instances, Holding
<1>10. Numbers' /\ MemoryOwned'
  <2>1. Creating' = Creating \ {t}
    BY DEF RdInv, Typed, CreateList, At, Return, Goto, Creating
  <2>2. \A u \in Creating' : rd'[u] = rd[u]
    BY <2>1 DEF RdInv, Typed, CreateList, Creating
  <2>3. Numbers'
    BY <1>2, <1>3, <2>1, <2>2, Finite
    DEF RdInv, Typed, CreateList, Advance, Numbers
  <2>4. Listed' = Listed \cup {n} /\ n \notin Listed
    BY <1>1, <1>3, RamDiskAssumption DEF RdInv, Typed, CreateList, Listed
  <2>5. disk'[n] = rd[t] /\ \A m \in Listed : disk'[m] = disk[m]
    BY <1>3, <2>4 DEF RdInv, Typed, CreateList, Listed
  <2>6. MemoryOwned'
    BY <1>1, <2>1, <2>2, <2>4, <2>5 DEF RdInv, CreateList, MemoryOwned
  <2> QED  BY <2>3, <2>6
<1> QED  BY <1>4, <1>6, <1>7, <1>8, <1>9, <1>10 DEF RdInv

\* A step that creates and destroys no disk.
LEMMA DisksKept ==
    ASSUME RdInv, UNCHANGED <<n, disk, freemem>>, Creating' = Creating,
           \A t \in Creating : rd'[t] = rd[t],
           \A m \in Minor : m >= n => stage'[m] = stage[m]
    PROVE  Numbers' /\ MemoryOwned'
<1>1. Listed' = Listed
  BY DEF Listed
<1> QED  BY <1>1 DEF RdInv, Numbers, MemoryOwned

\* A step that leaves the block device layer alone, but for the class.
LEMMA LayerKept ==
    ASSUME RdInv, UNCHANGED <<instances, minor, refcnt, heap, pc, arg, dev>>
    PROVE  /\ Uses' /\ Counted' /\ InstancesOwned'
           /\ Registered' = Registered /\ Creating' = Creating
<1>1. Registered' = Registered
  BY DEF Registered
<1>2. Creator' = Creator /\ Creating' = Creating
  BY DEF Creator, Creating
<1>3. Created' = Created
  BY <1>2 DEF Created
<1>4. Uses'
  BY <1>1 DEF RdInv, Uses
<1>5. ASSUME NEW d \in Registered PROVE refcnt'[d] >= Cardinality(Holders(d)')
  <2>1. Holders(d)' = Holders(d)
    BY DEF Holders
  <2> QED  BY <2>1 DEF RdInv, Counted
<1>6. Counted'
  BY <1>1, <1>5 DEF Counted
<1>7. InstancesOwned'
  BY <1>1, <1>2, <1>3 DEF RdInv, InstancesOwned
<1> QED  BY <1>1, <1>2, <1>4, <1>6, <1>7

\* A transfer, from get_ramdisk_instance to the end of the copy.
LEMMA TransferKeeps ==
    ASSUME RdInv, NEW t \in Thread,
           get_ramdisk_instance(t) \/ ramdisk_read_write_blocks(t)
    PROVE  RdInv'
<1> USE DEF get_ramdisk_instance, ramdisk_read_write_blocks
<1>1. pc[t] \in {"using", "copy"} /\ dev[t] \in Registered /\ arg[t] \in Minor
  BY DEF RdInv, At, Uses, Instances, Holding
<1>2. Typed'
  <2>1. pc' \in [Thread -> Label]
    BY Zenon DEF RdInv, Typed, Goto, Label
  <2>2. reply' \in [Thread -> Reply] /\ rd' \in [Thread -> Page \cup {NULL}]
    BY <1>1, Zenon DEF RdInv, Typed, Answer, Reply
  <2>3. UNCHANGED <<registered, instances, minor, refcnt, heap, arg, dev, halted,
                    n, disk, freemem, owner, stage>>
    BY Zenon
  <2> QED  BY <2>1, <2>2, <2>3, Zenon DEF RdInv, Typed
<1>3. /\ Registered' = Registered /\ Created' = Created /\ Creator' = Creator
      /\ Creating' = Creating /\ \A d : Holders(d)' = Holders(d)
  BY <1>1 DEF RdInv, Typed, Goto, Registered, Created, Creator, Creating,
         Holders, Holding
<1>4. Uses' /\ Creators' /\ Instances'
  BY <1>1, <1>3 DEF RdInv, Typed, At, Goto, Uses, Creators, Instances, Holding
<1>5. Counted' /\ InstancesOwned'
  BY <1>3, Zenon DEF RdInv, Counted, InstancesOwned
<1>6. CopyInDisk'
  BY <1>1 DEF RdInv, Typed, At, Goto, CopyInDisk
<1>7. Numbers' /\ MemoryOwned'
  BY <1>1, <1>3, DisksKept, Zenon DEF RdInv, Typed, Creating
<1> QED  BY <1>2, <1>4, <1>5, <1>6, <1>7 DEF RdInv

\* register_blkdev_class.
LEMMA ClassKeeps ==
    ASSUME RdInv, NEW t \in Thread, register_blkdev_class(t), UNCHANGED rdvars
    PROVE  RdInv'
<1> USE DEF register_blkdev_class, rdvars
<1>1. Typed' /\ pc' = pc
  <2>1. registered' \in BOOLEAN
    BY Zenon DEF RdInv, Typed
  <2>2. pc' = pc /\ reply' \in [Thread -> Reply]
    BY DEF RdInv, Typed, At, Goto, Return, Answer, Reply
  <2> QED  BY <2>1, <2>2 DEF RdInv, Typed
<1>2. /\ Uses' /\ Counted' /\ InstancesOwned'
      /\ Registered' = Registered /\ Creating' = Creating
  BY <1>1, LayerKept
<1>3. Creators' /\ Instances' /\ CopyInDisk'
  BY <1>1, <1>2, Zenon DEF RdInv, Creators, Instances, CopyInDisk
<1>4. Numbers' /\ MemoryOwned'
  BY <1>2, DisksKept
<1> QED  BY <1>1, <1>2, <1>3, <1>4 DEF RdInv

\* The __kmalloc of register_blkdev_instance: the object is of one thread.
LEMMA RegisterCreateKeeps ==
    ASSUME RdInv, NEW t \in Thread, RegisterCreate(t), UNCHANGED rdvars
    PROVE  RdInv'
<1> USE DEF RegisterCreate, rdvars
<1>1. Typed'
  <2>1. heap' \subseteq Instance /\ dev' \in [Thread -> Instance \cup {NULL}]
    BY DEF RdInv, Typed
  <2>2. pc' \in [Thread -> Label] /\ reply' \in [Thread -> Reply]
    BY Zenon DEF RdInv, Typed, Goto, Return, Answer, Label, Reply
  <2> QED  BY <2>1, <2>2 DEF RdInv, Typed
<1>2. /\ Registered' = Registered /\ Creating' = Creating
      /\ \A d : Holders(d)' = Holders(d)
  BY DEF RdInv, Typed, At, Goto, Return, Registered, Creating, Holders, Holding
<1>3. Uses'
  BY <1>2 DEF RdInv, Typed, At, Goto, Return, Uses, Holding
<1>4. Creators' /\ Instances'
  BY <1>2 DEF RdInv, Typed, At, Goto, Return, Creators, Instances
<1>5. Counted'
  BY <1>2 DEF RdInv, Counted
<1>6. CopyInDisk'
  BY DEF RdInv, Typed, At, Goto, Return, CopyInDisk
<1>7. Numbers' /\ MemoryOwned'
  BY <1>2, DisksKept DEF RdInv
<1>8. InstancesOwned'
  <2>1. CASE Return(t, "E_NOMEM") /\ UNCHANGED <<dev, heap>>
    <3>1. Creator' = Creator /\ Created' = Created
      BY <2>1 DEF RdInv, Typed, At, Goto, Return, Creator, Created
    <3> QED  BY <1>2, <2>1, <3>1 DEF RdInv, InstancesOwned
  <2>2. ASSUME NEW d \in heap, dev' = [dev EXCEPT ![t] = d],
               heap' = heap \ {d}, Goto(t, "append")
        PROVE  InstancesOwned'
    <3>1. t \notin Creator /\ Creator' = Creator \cup {t}
      BY <2>2 DEF RdInv, Typed, At, Goto, Creator
    <3>2. dev'[t] = d /\ \A u \in Creator : dev'[u] = dev[u]
      BY <2>2, <3>1 DEF RdInv, Typed, Creator
    <3>3. Created' = Created \cup {d}
      BY <3>1, <3>2 DEF Created
    <3>4. \A u \in Creator : dev[u] \in Created
      BY DEF Created
    <3> QED  BY <1>2, <2>2, <3>1, <3>2, <3>3, <3>4 DEF RdInv, Typed, InstancesOwned
  <2> QED  BY <2>1, <2>2
<1> QED  BY <1>1, <1>3, <1>4, <1>5, <1>6, <1>7, <1>8 DEF RdInv

\* list_append, in register_blkdev_instance: nobody else can have registered
\* that minor number since get_blkdev_instance did not find it.
LEMMA RegisterAppendKeeps ==
    ASSUME RdInv, NEW t \in Thread, RdRegisterAppend(t)
    PROVE  RdInv'
<1> USE DEF RdRegisterAppend, RegisterAppend, Advance
<1> DEFINE d == dev[t]
           m == arg[t]
<1>1. /\ d \in Instance /\ m \in Minor /\ owner[m] = t /\ stage[m] # "none"
      /\ \A e \in Registered : minor[e] # m
  BY DEF RdInv, At, Creators
<1>2. t \in Creator /\ d \in Created /\ d \notin Registered
  BY DEF RdInv, At, Created, Creator, InstancesOwned
<1>3. /\ instances' \in Seq(Instance) /\ IsInjective(instances')
      /\ Registered' = Registered \cup {d}
  BY <1>1, <1>2, Appended DEF RdInv, Typed, InstancesOwned, Registered
<1>4. Typed'
  BY <1>1, <1>3 DEF RdInv, Typed, At, Goto, Label, Stage
<1>5. Creating' = Creating /\ \A e : Holders(e)' = Holders(e)
  BY DEF RdInv, Typed, At, Goto, Creating, Holders, Holding
<1>6. Uses'
  BY <1>1, <1>2, <1>3 DEF RdInv, Typed, At, Goto, Uses, Holding
<1>7. Creators'
  BY <1>1, <1>2, <1>3 DEF RdInv, Typed, At, Goto, Creators
<1>8. Instances'
  BY <1>1, <1>2, <1>3 DEF RdInv, Typed, Instances
<1>9. Counted'
  <2>1. Holders(d) = {}
    BY <1>2, Zenon DEF RdInv, Uses, Holders
  <2>2. Cardinality(Holders(d)) = 0
    BY <2>1, FS_EmptySet
  <2> QED  BY <1>1, <1>2, <1>3, <1>5, <2>2 DEF RdInv, Typed, Counted
<1>10. CopyInDisk'
  BY DEF RdInv, Typed, At, Goto, CopyInDisk
<1>11. Numbers' /\ MemoryOwned'
  <2>1. ~(m >= n)
    BY <1>1 DEF RdInv, Numbers
  <2> QED  BY <2>1, <1>5, DisksKept, Zenon DEF RdInv, Typed
<1>12. InstancesOwned'
  <2>1. Creator' = Creator \ {t}
    BY DEF RdInv, Typed, At, Goto, Creator
  <2>2. \A u \in Creator' : dev'[u] = dev[u]
    BY <2>1 DEF RdInv, Typed, Creator
  <2>3. Created' = Created \ {d}
    BY <1>2, <2>1, <2>2 DEF RdInv, InstancesOwned, Created
  <2>4. /\ heap \cup Created \cup Registered = Instance
        /\ heap \cap (Created \cup Registered) = {} /\ Created \cap Registered = {}
        /\ \A u, v \in Creator : dev[u] = dev[v] => u = v
    BY DEF RdInv, InstancesOwned
  <2>5. /\ heap' \cup Created' \cup Registered' = Instance
        /\ heap' \cap (Created' \cup Registered') = {} /\ Created' \cap Registered' = {}
    BY <1>2, <1>3, <2>3, <2>4
  <2>6. \A u, v \in Creator' : dev'[u] = dev'[v] => u = v
    BY <2>1, <2>2, <2>4
  <2> QED  BY <1>3, <2>5, <2>6 DEF InstancesOwned
<1> QED  BY <1>4, <1>6, <1>7, <1>8, <1>9, <1>10, <1>11, <1>12 DEF RdInv
=============================================================================
