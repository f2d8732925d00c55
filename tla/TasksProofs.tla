---------------------------- MODULE TasksProofs ----------------------------
(***************************************************************************)
(* Proofs about Tasks, for any number of kernel threads and user tasks and *)
(* every choice of the time slices: pids stay unique, every user task has  *)
(* a live parent, no wake-up of do_waitpid is lost, sleeps are long        *)
(* enough, and only a kernel thread that was interrupted in do_sleep makes *)
(* the ASSERT of the clock handler fail.                                   *)
(*                                                                         *)
(* The parents are the hard part: do_exit hands the children to the parent *)
(* of the task, and nothing in the code says that this is not the task     *)
(* itself or the child.  It is the order of the task list that says so: a  *)
(* parent stands before its children.                                      *)
(***************************************************************************)
EXTENDS Tasks, FiniteSetTheorems, TLAPS

\* p stands before t in the list s.
Before(s, p, t) ==
    \E i, k \in 1..Len(s) : k < i /\ s[k] = p /\ s[i] = t

Order == IsInjective(task_list) /\ idle \in Listed

Pids ==
    /\ pid[idle] = IDLE_TASK_PID
    /\ \A t \in Listed \ {idle} : pid[t] >= INIT_TASK_PID
    /\ PidsUnique

\* Before idle forks init there is no user task, and init's pid is free.
Booting ==
    pc[idle] = "boot" =>
        \A t \in Listed : t \notin Users /\ pid[t] # INIT_TASK_PID

Labels ==
    /\ pc[idle] \in {"boot", "run"}
    /\ \A t \in Task : /\ pc[t] \in {"armed", "parked"} => t \in KThread
                       /\ pc[t] = "waitpid" => t \in Users

\* p is the parent of t.
Parent(p, t) ==
    /\ p \in Listed /\ p \in Users \cup {idle} /\ state[p] # "DEAD"
    /\ pid[p] = ppid[t] /\ Before(task_list, p, t)

Parents == \A t \in Listed \cap Users : \E p \in Task : Parent(p, t)

\* The running task is runnable, unless it is on its way into a sleep.
Running ==
    /\ state[idle] = "RUNNABLE"
    /\ \/ state[current] = "RUNNABLE"
       \/ pc[current] = "parked" /\ state[current] = "UNINTERRUPTIBLE"

\* x is a child that t waits for.
Awaited(t, x) ==
    /\ x \in Listed /\ ppid[x] = pid[t]
    /\ wait_pid[t] \in {NoPid, pid[x]}

Waiters ==
    \A t \in Listed : state[t] = "INTERRUPTIBLE" =>
        /\ \E x \in Task : Awaited(t, x)
        /\ \A x \in Task : Awaited(t, x) => state[x] # "DEAD"

Timeouts ==
    \A t \in Task : timeout[t] # 0 =>
        /\ t \in Listed /\ state[t] # "DEAD"
        /\ state[t] = "UNINTERRUPTIBLE" \/ pc[t] = "armed"

\* The machine stops only in a clock interrupt, at the ASSERT.
Stopped ==
    halted => IF_on /\ \E t \in KThread : pc[t] = "armed"

TasksInv ==
    /\ TypeOK /\ Order /\ Pids /\ Booting /\ Labels /\ Parents /\ Running
    /\ Waiters /\ Timeouts /\ Stopped

\* What a task has still to sleep is what its timeout says.
Exact == \A t \in Task : owed[t] = timeout[t]
-----------------------------------------------------------------------------
\* The least member of a set of natural numbers.
LEMMA MinIsLeast ==
    ASSUME NEW S \in SUBSET Nat, S # {}
    PROVE  Min(S) \in S /\ \A i \in S : Min(S) <= i
<1>1. IsWellFoundedOn(OpToRel(<, Nat), Nat)
  BY NatLessThanWellFounded, Zenon
<1>2. PICK x \in S : \A y \in S : ~(<<y, x>> \in OpToRel(<, Nat))
  BY <1>1, WFMin, Zenon
<1>3. \A y \in S : ~(y < x)
  BY <1>2, ZenonT(30) DEF OpToRel
<1>4. \A y \in S : x <= y
  BY <1>3
<1> QED  BY <1>4, Zenon DEF Min

\* The greatest member of a bounded one.
LEMMA MaxIsGreatest ==
    ASSUME NEW n \in Nat, NEW S \in SUBSET (0..n), S # {}
    PROVE  Max(S) \in S
<1> DEFINE T == {n - x : x \in S}
<1>1. T \in SUBSET Nat /\ T # {}
  <2>1. \A x \in S : n - x \in Nat
    OBVIOUS
  <2> QED  BY <2>1, Zenon
<1>2. Min(T) \in T /\ \A i \in T : Min(T) <= i
  BY <1>1, MinIsLeast, Zenon
<1>3. PICK x \in S : Min(T) = n - x
  BY <1>2, Zenon
<1>4. \A y \in S : x >= y
  BY <1>2, <1>3
<1> QED  BY <1>4, Zenon DEF Max

\* list_append.
LEMMA Appended ==
    ASSUME NEW S, NEW s \in Seq(S), NEW e \in S, IsInjective(s), e \notin Range(s)
    PROVE  /\ Append(s, e) \in Seq(S) /\ IsInjective(Append(s, e))
           /\ Range(Append(s, e)) = Range(s) \cup {e}
           /\ \A p, t : Before(s, p, t) => Before(Append(s, e), p, t)
           /\ \A p \in Range(s) : Before(Append(s, e), p, e)
<1> DEFINE r == Append(s, e)
<1>1. /\ r \in Seq(S) /\ Len(r) = Len(s) + 1 /\ r[Len(s) + 1] = e
      /\ \A i \in 1..Len(s) : r[i] = s[i] /\ i \in 1..Len(r)
      /\ \A i \in 1..Len(r) : i \in 1..Len(s) \/ i = Len(s) + 1
  OBVIOUS
<1> HIDE DEF r
<1>2. IsInjective(r) /\ Range(r) = Range(s) \cup {e}
  BY <1>1 DEF Range, IsInjective
<1>3. \A p, t : Before(s, p, t) => Before(r, p, t)
  BY <1>1 DEF Before
<1>4. \A p \in Range(s) : Before(r, p, e)
  BY <1>1 DEF Before, Range
<1> QED  BY <1>1, <1>2, <1>3, <1>4 DEF r

\* list_remove.
LEMMA Removed ==
    ASSUME NEW S, NEW s \in Seq(S), IsInjective(s), NEW k \in DOMAIN s
    PROVE  /\ list_remove(s, k) \in Seq(S) /\ IsInjective(list_remove(s, k))
           /\ Range(list_remove(s, k)) = Range(s) \ {s[k]}
           /\ \A p, t : p # s[k] /\ t # s[k] /\ Before(s, p, t)
                        => Before(list_remove(s, k), p, t)
<1> DEFINE a == SubSeq(s, 1, k - 1)
           b == SubSeq(s, k + 1, Len(s))
           r == a \o b
<1>1. /\ a \in Seq(S) /\ Len(a) = k - 1
      /\ \A i \in 1..(k - 1) : a[i] = s[i]
  OBVIOUS
<1>2. /\ b \in Seq(S) /\ Len(b) = Len(s) - k
      /\ \A i \in 1..(Len(s) - k) : b[i] = s[k + i]
  OBVIOUS
<1> HIDE DEF a, b
<1>3. /\ r \in Seq(S) /\ Len(r) = Len(s) - 1
      /\ \A i \in 1..Len(r) : r[i] = IF i < k THEN s[i] ELSE s[i + 1]
  <2>1. r \in Seq(S) /\ Len(r) = Len(s) - 1
    BY <1>1, <1>2
  <2>2. ASSUME NEW i \in 1..Len(r)
        PROVE  r[i] = IF i < k THEN s[i] ELSE s[i + 1]
    <3>1. CASE i < k
      <4>1. i \in 1..Len(a) /\ r[i] = a[i]
        BY <3>1, <2>1, <1>1, <1>2
      <4> HIDE DEF r
      <4> QED  BY <3>1, <4>1, <1>1
    <3>2. CASE i >= k
      <4>1. i - Len(a) \in 1..Len(b) /\ r[i] = b[i - Len(a)]
        BY <3>2, <2>1, <1>1, <1>2, SMTT(20)
      <4> HIDE DEF r
      <4>2. b[i - Len(a)] = s[k + (i - Len(a))]
        BY <4>1, <1>2
      <4>3. k + (i - Len(a)) = i + 1
        BY <1>1, <2>1
      <4> QED  BY <3>2, <4>1, <4>2, <4>3, <2>1
    <3> HIDE DEF r
    <3> QED  BY <3>1, <3>2, <2>1
  <2> QED  BY <2>1, <2>2
<1> HIDE DEF r
<1>4. IsInjective(r)
  <2>1. ASSUME NEW i \in 1..Len(r), NEW j \in 1..Len(r), r[i] = r[j]
        PROVE  i = j
    <3> DEFINE up(x) == IF x < k THEN x ELSE x + 1
    <3>1. s[up(i)] = s[up(j)] /\ up(i) \in 1..Len(s) /\ up(j) \in 1..Len(s)
      BY <2>1, <1>3, SMTT(20)
    <3>2. up(i) = up(j)
      BY <3>1 DEF IsInjective
    <3> QED  BY <3>2, <1>3
  <2> QED  BY <2>1, <1>3 DEF IsInjective
<1>5. Range(r) \subseteq Range(s) \ {s[k]}
  BY <1>3 DEF Range, IsInjective
<1>6. ASSUME NEW i \in 1..Len(s), i # k
      PROVE  s[i] \in Range(r)
  <2>1. CASE i < k
    BY <2>1, <1>3, <1>6 DEF Range
  <2>2. CASE i > k
    <3>1. i - 1 \in 1..Len(r) /\ r[i - 1] = s[i]
      BY <2>2, <1>3
    <3> QED  BY <3>1, <1>3 DEF Range
  <2> QED  BY <2>1, <2>2, <1>6
<1>7. Range(s) \ {s[k]} \subseteq Range(r)
  BY <1>6 DEF Range
<1>8. list_remove(s, k) = r
  BY DEF list_remove, r, a, b
<1>9. ASSUME NEW p, NEW t, p # s[k], t # s[k], Before(s, p, t)
      PROVE  Before(r, p, t)
  <2>1. PICK i \in 1..Len(s), l \in 1..Len(s) : l < i /\ s[l] = p /\ s[i] = t
    BY <1>9 DEF Before
  <2> DEFINE down(x) == IF x < k THEN x ELSE x - 1
  <2>2. /\ down(i) \in 1..Len(r) /\ down(l) \in 1..Len(r) /\ down(l) < down(i)
        /\ r[down(l)] = s[l] /\ r[down(i)] = s[i]
    BY <1>3, <1>9, <2>1, SMTT(20)
  <2> QED  BY <2>1, <2>2, SMTT(30) DEF Before
<1> QED  BY <1>3, <1>4, <1>5, <1>7, <1>8, <1>9

\* In a list without duplicates, to stand before is an order.
LEMMA BeforeIsOrder ==
    ASSUME NEW S, NEW s \in Seq(S), IsInjective(s), NEW p, NEW t, Before(s, p, t)
    PROVE  /\ p # t /\ p \in Range(s) /\ t \in Range(s)
           /\ \A x : Before(s, t, x) => Before(s, p, x)
<1>1. PICK i \in 1..Len(s), k \in 1..Len(s) : k < i /\ s[k] = p /\ s[i] = t
  BY DEF Before
<1>2. p # t /\ p \in Range(s) /\ t \in Range(s)
  BY <1>1 DEF IsInjective, Range
<1>3. ASSUME NEW x, Before(s, t, x)
      PROVE  Before(s, p, x)
  <2>1. PICK l \in 1..Len(s), m \in 1..Len(s) : m < l /\ s[m] = t /\ s[l] = x
    BY <1>3 DEF Before
  <2>2. m = i
    BY <1>1, <2>1 DEF IsInjective
  <2> QED  BY <1>1, <2>1, <2>2 DEF Before
<1> QED  BY <1>2, <1>3
-----------------------------------------------------------------------------
\* There are as many kernel threads as KThreads lists, and finitely many tasks.
LEMMA TasksFinite ==
    /\ IsFiniteSet(Task) /\ Cardinality(Task) \in Nat
    /\ INIT_TASK_PID + Len(KThreads) <= MAX_PID /\ MAX_PID \in Nat
<1>1. KThreads \in Bijection(1..Len(KThreads), KThread)
  <2>1. KThreads \in [1..Len(KThreads) -> KThread]
    BY TasksAssumption
  <2> QED  BY <2>1, TasksAssumption DEF Bijection, Injection, Surjection, KThread, Range
<1>2. Len(KThreads) \in Nat
  BY TasksAssumption
<1>3. IsFiniteSet(1..Len(KThreads)) /\ Cardinality(1..Len(KThreads)) = Len(KThreads)
  <2>1. 1 \in Int /\ Len(KThreads) \in Int
    BY <1>2
  <2>2. /\ IsFiniteSet(1..Len(KThreads))
        /\ Cardinality(1..Len(KThreads)) =
              IF 1 > Len(KThreads) THEN 0 ELSE Len(KThreads) - 1 + 1
    BY <2>1, FS_Interval, Zenon
  <2> QED  BY <1>2, <2>2
<1>4. IsFiniteSet(KThread) /\ Cardinality(KThread) = Len(KThreads)
  BY <1>1, <1>3, FS_Bijection DEF ExistsBijection
<1> DEFINE K == KThread \cup {idle}
<1>5. IsFiniteSet(K) /\ Cardinality(K) = Len(KThreads) + 1
  BY <1>2, <1>4, TasksAssumption, FS_AddElement, Zenon
<1>6. IsFiniteSet(Task)
  <2>1. IsFiniteSet(K \cup Users)
    BY <1>5, TasksAssumption, FS_Union, Zenon
  <2>2. Task = K \cup Users
    BY DEF Task
  <2> QED  BY <2>1, <2>2
<1>7. Cardinality(K) <= Cardinality(Task) /\ Cardinality(Task) \in Nat
  <2>1. K \in SUBSET Task
    BY DEF Task
  <2> QED  BY <1>6, <2>1, FS_Subset, FS_CardinalityType
<1> QED  BY <1>2, <1>5, <1>6, <1>7, TasksAssumption DEF INIT_TASK_PID

\* The pid of init is one a task can have.
LEMMA InitPid ==
    INIT_TASK_PID \in INIT_TASK_PID..MAX_PID /\ INIT_TASK_PID \in NoPid..MAX_PID
<1>1. Len(KThreads) \in Nat
  BY TasksAssumption
<1> QED  BY <1>1, TasksFinite DEF INIT_TASK_PID, NoPid

\* The values that are no pid of a task are in the range of the pids.
LEMMA NoPids == 0 \in NoPid..MAX_PID /\ NoPid \in NoPid..MAX_PID
<1>1. MAX_PID \in Nat
  BY TasksAssumption, Zenon
<1> QED  BY <1>1 DEF NoPid

\* The types, as the proofs below use them.
LEMMA TypeFacts ==
    ASSUME TypeOK
    PROVE  /\ task_list \in Seq(Task) /\ Listed \subseteq Task /\ current \in Listed
           /\ pid \in [Task -> NoPid..MAX_PID] /\ ppid \in [Task -> NoPid..MAX_PID]
           /\ state \in [Task -> {"FREE", "RUNNABLE", "INTERRUPTIBLE", "UNINTERRUPTIBLE",
                                  "DEAD"}]
           /\ timeslice \in [Task -> 0..MAX_TIMESLICE]
           /\ timeout \in [Task -> 0..(Word - 1)] /\ owed \in [Task -> Nat]
           /\ pc \in [Task -> {"boot", "run", "armed", "parked", "waitpid"}]
           /\ wait_pid \in [Task -> NoPid..MAX_PID]
           /\ idle \in Task /\ KThread \subseteq Task /\ Users \subseteq Task
           /\ idle \notin KThread /\ idle \notin Users /\ KThread \cap Users = {}
           /\ current \in Task
<1>1. /\ task_list \in Seq(Task) /\ current \in Listed
      /\ pid \in [Task -> NoPid..MAX_PID] /\ ppid \in [Task -> NoPid..MAX_PID]
      /\ state \in [Task -> {"FREE", "RUNNABLE", "INTERRUPTIBLE", "UNINTERRUPTIBLE",
                             "DEAD"}]
      /\ timeslice \in [Task -> 0..MAX_TIMESLICE]
      /\ timeout \in [Task -> 0..(Word - 1)] /\ owed \in [Task -> Nat]
      /\ pc \in [Task -> {"boot", "run", "armed", "parked", "waitpid"}]
      /\ wait_pid \in [Task -> NoPid..MAX_PID]
  BY DEF TypeOK
<1>2. Listed \subseteq Task
  <2>1. task_list \in Seq(Task)
    BY <1>1
  <2> QED  BY <2>1 DEF Listed, Range
<1>3. /\ idle \in Task /\ KThread \subseteq Task /\ Users \subseteq Task
      /\ idle \notin KThread /\ idle \notin Users /\ KThread \cap Users = {}
  BY TasksAssumption, Zenon DEF Task
<1> QED  BY <1>1, <1>2, <1>3, Zenon

\* schedule() elects a runnable task of the list, or idle.
LEMMA Elected ==
    ASSUME task_list \in Seq(Task), NEW st, NEW ts \in [Task -> 0..MAX_TIMESLICE]
    PROVE  \/ elect(st, ts) = idle
           \/ elect(st, ts) \in Listed /\ st[elect(st, ts)] = "RUNNABLE"
<1> DEFINE S == WithTime(st, ts)
           W == Waiting(st)
<1>1. MAX_TIMESLICE \in Nat
  BY TasksAssumption
<1>2. ASSUME S # {}
      PROVE  MostTime(S, ts) \in S
  <2> DEFINE left(i) == MAX_TIMESLICE - ts[task_list[i]]
             A == {left(i) : i \in S}
             B == {i \in S : left(i) = Min(A)}
  <2>1. S \subseteq DOMAIN task_list /\ S \in SUBSET Nat
    BY DEF WithTime
  <2>2. \A i \in S : ts[task_list[i]] \in 0..MAX_TIMESLICE /\ left(i) \in Nat
    BY <1>1, <2>1
  <2>3. A \in SUBSET Nat /\ A # {}
    BY <1>2, <2>2
  <2>4. Min(A) \in A /\ \A a \in A : Min(A) <= a
    BY <2>3, MinIsLeast, Zenon
  <2>5. B \in SUBSET Nat /\ B # {}
    BY <2>1, <2>4, Zenon
  <2>6. Min(B) \in B /\ \A i \in B : Min(B) <= i
    BY <2>5, MinIsLeast, Zenon
  <2> DEFINE i == Min(B)
  <2>7. i \in S /\ left(i) = Min(A)
    BY <2>6
  <2>8. \A j \in S : left(i) <= left(j) /\ (left(j) = left(i) => i <= j)
    BY <2>4, <2>6, <2>7, Zenon
  <2>9. \A j \in S : \/ ts[task_list[j]] < ts[task_list[i]]
                     \/ ts[task_list[j]] = ts[task_list[i]] /\ i <= j
    <3> HIDE DEF i, A, B, S
    <3> QED  BY <1>1, <2>2, <2>7, <2>8, SMTT(30)
  <2> HIDE DEF i, S
  <2> QED  BY <2>7, <2>9, Zenon DEF MostTime
<1>3. ASSUME W # {}
      PROVE  Max(W) \in W
  <2>1. W \in SUBSET (0..Len(task_list)) /\ Len(task_list) \in Nat
    BY DEF Waiting
  <2> QED  BY <1>3, <2>1, MaxIsGreatest, Zenon
<1>4. CASE S # {}
  <2>1. elect(st, ts) = task_list[MostTime(S, ts)]
    BY <1>4 DEF elect
  <2> QED  BY <1>2, <1>4, <2>1, Zenon DEF WithTime, Listed, Range
<1>5. CASE S = {} /\ W # {}
  <2>1. elect(st, ts) = task_list[Max(W)]
    BY <1>5 DEF elect
  <2> QED  BY <1>3, <1>5, <2>1, Zenon DEF Waiting, Listed, Range
<1>6. CASE S = {} /\ W = {}
  BY <1>6 DEF elect
<1> QED  BY <1>4, <1>5, <1>6

\* schedule() keeps the time slices within their bound.
LEMMA Refilled ==
    ASSUME NEW st, NEW ts \in [Task -> 0..MAX_TIMESLICE]
    PROVE  refill(st, ts) \in [Task -> 0..MAX_TIMESLICE]
<1>1. MAX_TIMESLICE \in Nat /\ TIMESLICE_INCREMENT \in Nat
  BY TasksAssumption
<1>2. ASSUME NEW t \in Task
      PROVE  Min({ts[t] + TIMESLICE_INCREMENT, MAX_TIMESLICE}) \in 0..MAX_TIMESLICE
  <2> DEFINE S == {ts[t] + TIMESLICE_INCREMENT, MAX_TIMESLICE}
  <2>1. S \in SUBSET Nat /\ S # {} /\ MAX_TIMESLICE \in S
    BY <1>1
  <2>2. Min(S) \in S /\ \A i \in S : Min(S) <= i
    BY <2>1, MinIsLeast, Zenon
  <2>3. Min(S) \in Nat /\ Min(S) <= MAX_TIMESLICE
    BY <2>1, <2>2
  <2> HIDE DEF S
  <2>4. Min(S) \in 0..MAX_TIMESLICE
    BY <1>1, <2>3
  <2> QED  BY <2>4 DEF S
<1> QED  BY <1>2 DEF refill

\* alloc_pid finds a pid that no task of the list has.
LEMMA Allocated ==
    ASSUME TypeOK, Pids
    PROVE  /\ alloc_pid \in INIT_TASK_PID..MAX_PID
           /\ \A t \in Listed : pid[t] # alloc_pid
<1>1. MAX_PID \in Nat /\ MAX_PID >= Cardinality(Task) /\ idle \in Task
  BY TasksAssumption DEF Task
<1>2. Listed \subseteq Task /\ pid \in [Task -> NoPid..MAX_PID] /\ pid[idle] = 0
  BY TypeFacts DEF Pids, IDLE_TASK_PID
<1>3. Unused # {}
  <2> SUFFICES ASSUME Unused = {} PROVE FALSE
    OBVIOUS
  <2> DEFINE T == {t \in Listed : pid[t] \in 1..MAX_PID}
             f == [t \in T |-> pid[t]]
  <2>1. f \in Surjection(T, 1..MAX_PID)
    <3>1. \A n \in 1..MAX_PID : \E t \in T : f[t] = n
      BY DEF Unused, INIT_TASK_PID
    <3>2. f \in [T -> 1..MAX_PID]
      OBVIOUS
    <3> QED  BY <3>1, <3>2 DEF Surjection
  <2>2. T \in SUBSET (Task \ {idle})
    BY <1>2
  <2>3. /\ IsFiniteSet(Task \ {idle}) /\ Cardinality(Task \ {idle}) = Cardinality(Task) - 1
        /\ Cardinality(Task) \in Nat
    BY <1>1, TasksFinite, FS_RemoveElement
  <2>4. IsFiniteSet(T) /\ Cardinality(T) <= Cardinality(Task) - 1 /\ Cardinality(T) \in Nat
    <3> HIDE DEF T
    <3> QED  BY <2>2, <2>3, FS_Subset, FS_CardinalityType
  <2>5. Cardinality(1..MAX_PID) <= Cardinality(T)
    <3> HIDE DEF T, f
    <3> QED  BY <2>1, <2>4, FS_Surjection, Zenon
  <2>6. Cardinality(1..MAX_PID) = MAX_PID
    <3>1. 1 \in Int /\ MAX_PID \in Int
      BY <1>1
    <3>2. Cardinality(1..MAX_PID) = IF 1 > MAX_PID THEN 0 ELSE MAX_PID - 1 + 1
      BY <3>1, FS_Interval, Zenon
    <3> QED  BY <1>1, <3>2
  <2> HIDE DEF T
  <2> QED  BY <1>1, <2>3, <2>4, <2>5, <2>6
<1>4. Unused \in SUBSET Nat
  BY <1>1 DEF Unused, INIT_TASK_PID
<1>5. Min(Unused) \in Unused
  BY <1>3, <1>4, MinIsLeast, Zenon
<1> DEFINE later == {p \in Unused : p > next_pid}
<1>6. later # {} => Min(later) \in Unused
  <2>1. later \in SUBSET Nat
    BY <1>4, Zenon
  <2>2. later # {} => Min(later) \in later
    BY <2>1, MinIsLeast, Zenon
  <2> QED  BY <2>2
<1>7. alloc_pid \in Unused
  BY <1>5, <1>6 DEF alloc_pid
<1> QED  BY <1>7 DEF Unused
-----------------------------------------------------------------------------
\* The task that gets the CPU is runnable.
LEMMA Scheduled ==
    ASSUME TypeOK, Order, NEW st, NEW ts \in [Task -> 0..MAX_TIMESLICE],
           st[idle] = "RUNNABLE", schedule(st, ts)
    PROVE  /\ current' \in Listed /\ st[current'] = "RUNNABLE"
           /\ timeslice' \in [Task -> 0..MAX_TIMESLICE]
<1>1. current' = elect(st, ts) /\ timeslice' = refill(st, ts)
  BY DEF schedule
<1>2. \/ elect(st, ts) = idle
      \/ elect(st, ts) \in Listed /\ st[elect(st, ts)] = "RUNNABLE"
  BY TypeFacts, Elected, Zenon
<1>3. timeslice' \in [Task -> 0..MAX_TIMESLICE]
  BY <1>1, Refilled, Zenon
<1> QED  BY <1>1, <1>2, <1>3, Zenon DEF Order

\* A step that leaves the list, the pids and the parents alone, and ends no task.
LEMMA SameTree ==
    ASSUME TasksInv, UNCHANGED <<task_list, pid, ppid>>,
           pc'[idle] = pc[idle] \/ pc'[idle] # "boot",
           \A t \in Task : state'[t] = "DEAD" => state[t] = "DEAD"
    PROVE  Order' /\ Pids' /\ Booting' /\ Parents' /\ Listed' = Listed
<1>1. Listed' = Listed
  BY DEF Listed
<1>2. Order' /\ Pids'
  BY <1>1 DEF TasksInv, Order, Pids, PidsUnique
<1>3. Booting'
  BY <1>1 DEF TasksInv, Booting
<1>4. \A p, t \in Task : Parent(p, t) => Parent(p, t)'
  BY <1>1 DEF Parent
<1>5. Parents'
  BY <1>1, <1>4, TypeFacts DEF TasksInv, Parents
<1> QED  BY <1>1, <1>2, <1>3, <1>5

\* The same, when no task begins to wait for a child either.
LEMMA SameWaiters ==
    ASSUME TasksInv, UNCHANGED <<task_list, pid, ppid>>,
           \A t \in Task : state'[t] = "DEAD" => state[t] = "DEAD",
           \A t \in Listed : state'[t] = "INTERRUPTIBLE" =>
               state[t] = "INTERRUPTIBLE" /\ wait_pid'[t] = wait_pid[t]
    PROVE  Waiters'
<1>1. Listed' = Listed
  BY DEF Listed
<1> SUFFICES ASSUME NEW t \in Listed, state'[t] = "INTERRUPTIBLE"
             PROVE  /\ \E x \in Task : Awaited(t, x)'
                    /\ \A x \in Task : Awaited(t, x)' => state'[x] # "DEAD"
  BY <1>1 DEF Waiters
<1>2. \A x \in Task : Awaited(t, x)' <=> Awaited(t, x)
  BY <1>1 DEF Awaited
<1> QED  BY <1>2 DEF TasksInv, Waiters

\* The bounds, and what the clock handler does to a counter.
LEMMA Counters ==
    /\ MAX_TIMESLICE \in Nat /\ Word - 1 \in Nat
    /\ \A n \in Nat : Decrement(n) \in Nat /\ \A m \in 0..n : Decrement(m) \in 0..n
<1>1. MAX_TIMESLICE \in Nat /\ Word \in Nat \ {0}
  BY TasksAssumption
<1> QED  BY <1>1 DEF Decrement

\* The clock interrupt.  A task with a timeout is asleep, or a kernel thread that
\* was interrupted in do_sleep; then the ASSERT fails.
LEMMA TimerKeeps ==
    ASSUME TasksInv, TimerInterrupt
    PROVE  TasksInv'
<1> USE TypeFacts
<1>1. ~halted /\ IF_on /\ UNCHANGED <<task_list, next_pid, pc, wait_pid>> /\ TypeOK
  BY DEF TimerInterrupt, TasksInv
<1>2. CASE AssertFails /\ halted' = TRUE /\ UNCHANGED <<fields, current, sched_ticks, owed>>
  <2>1. UNCHANGED <<pid, ppid, state, timeslice, timeout>>
    BY <1>2 DEF fields
  <2>2. Order' /\ Pids' /\ Booting' /\ Parents' /\ Waiters' /\ Listed' = Listed
    BY <1>1, <2>1, SameTree, SameWaiters
  <2>3. TypeOK'
    BY <1>1, <1>2, <2>1, <2>2, Zenon DEF TypeOK
  <2>4. Labels' /\ Running' /\ Timeouts'
    BY <1>1, <1>2, <2>1, <2>2 DEF TasksInv, Labels, Running, Timeouts
  <2>5. Stopped'
    <3>1. PICK t \in Listed : timeout[t] # 0 /\ state[t] # "UNINTERRUPTIBLE"
      BY <1>2 DEF AssertFails
    <3>2. t \in KThread /\ pc[t] = "armed"
      BY <1>1, <3>1 DEF TasksInv, Timeouts, Labels
    <3> QED  BY <1>1, <1>2, <3>2 DEF Stopped, IF_on
  <2> QED  BY <2>2, <2>3, <2>4, <2>5 DEF TasksInv
<1>3. CASE /\ ~AssertFails
           /\ timeout' = [t \in Task |-> Decrement(timeout[t])]
           /\ owed' = [t \in Task |-> Decrement(owed[t])]
           /\ state' = expire
           /\ LET ts == [timeslice EXCEPT ![current] = Decrement(@)]
              IN  IF sched_ticks = 1
                  THEN sched_ticks' = SCHED_TICKS /\ schedule(expire, ts)
                  ELSE /\ sched_ticks' = sched_ticks - 1
                       /\ timeslice' = ts
                       /\ current' = current
           /\ UNCHANGED <<pid, ppid, halted>>
  <2> DEFINE ts == [timeslice EXCEPT ![current] = Decrement(@)]
  <2>1. /\ state' = expire /\ UNCHANGED <<pid, ppid, halted>>
        /\ timeout' = [t \in Task |-> Decrement(timeout[t])]
        /\ owed' = [t \in Task |-> Decrement(owed[t])]
    BY <1>3
  <2>2. \A t \in Listed : timeout[t] # 0 => state[t] = "UNINTERRUPTIBLE"
    BY <1>3 DEF AssertFails
  <2>3. /\ state' \in [Task -> {"FREE", "RUNNABLE", "INTERRUPTIBLE", "UNINTERRUPTIBLE",
                                "DEAD"}]
        /\ \A t \in Task : state'[t] = state[t] \/ state'[t] = "RUNNABLE"
        /\ \A t \in Task : timeout[t] # 1 => state'[t] = state[t]
    BY <1>1, <2>1 DEF expire
  <2>4. state'[idle] = "RUNNABLE"
    BY <1>1, <2>3 DEF TasksInv, Running
  <2>5. ts \in [Task -> 0..MAX_TIMESLICE]
    BY <1>1, Counters, Zenon
  <2>6. /\ current' \in Listed /\ timeslice' \in [Task -> 0..MAX_TIMESLICE]
        /\ sched_ticks' \in 1..SCHED_TICKS
        /\ state'[current'] = "RUNNABLE" \/ current' = current
    <3>1. sched_ticks \in 1..SCHED_TICKS /\ SCHED_TICKS \in Nat \ {0} /\ Order
      BY TasksAssumption DEF TasksInv, TypeOK
    <3>2. CASE sched_ticks = 1
      <4>1. sched_ticks' = SCHED_TICKS /\ schedule(expire, ts)
        BY <1>3, <3>2
      <4>2. /\ current' \in Listed /\ expire[current'] = "RUNNABLE"
            /\ timeslice' \in [Task -> 0..MAX_TIMESLICE]
        <5> HIDE DEF ts
        <5> QED  BY <1>1, <2>1, <2>4, <2>5, <3>1, <4>1, Scheduled, Zenon
      <4> QED  BY <2>1, <3>1, <4>1, <4>2
    <3>3. CASE sched_ticks # 1
      <4>1. sched_ticks' = sched_ticks - 1 /\ timeslice' = ts /\ current' = current
        BY <1>3, <3>3
      <4> HIDE DEF ts
      <4> QED  BY <1>1, <2>5, <3>1, <3>3, <4>1
    <3> QED  BY <3>2, <3>3
  <2> HIDE DEF ts
  <2>7. Order' /\ Pids' /\ Booting' /\ Parents' /\ Waiters' /\ Listed' = Listed
    <3>1. \A t \in Task : /\ state'[t] = "DEAD" => state[t] = "DEAD"
                          /\ state'[t] = "INTERRUPTIBLE" => state[t] = "INTERRUPTIBLE"
      BY <2>3
    <3> QED  BY <1>1, <2>1, <3>1, SameTree, SameWaiters, Zenon
  <2>8. timeout' \in [Task -> 0..(Word - 1)] /\ owed' \in [Task -> Nat]
    BY <1>1, <2>1, Counters, Zenon
  <2>9. TypeOK'
    BY <1>1, <2>1, <2>3, <2>6, <2>7, <2>8, Zenon DEF TypeOK
  <2>10. Labels'
    BY <1>1 DEF TasksInv, Labels
  <2>11. Running'
    BY <1>1, <2>3, <2>4, <2>6 DEF TasksInv, Running
  <2>12. Timeouts'
    <3> SUFFICES ASSUME NEW t \in Task, timeout'[t] # 0
                 PROVE  t \in Listed /\ state'[t] = "UNINTERRUPTIBLE"
      BY <2>7 DEF Timeouts
    <3>1. timeout[t] # 0 /\ timeout[t] # 1
      BY <1>1, <2>1 DEF Decrement
    <3> QED  BY <2>2, <2>3, <3>1 DEF TasksInv, Timeouts
  <2>13. Stopped'
    BY <1>1, <2>1 DEF Stopped
  <2> QED  BY <2>7, <2>9, <2>10, <2>11, <2>12, <2>13 DEF TasksInv
<1> QED  BY <1>2, <1>3, Zenon DEF TimerInterrupt
-----------------------------------------------------------------------------
\* do_sleep: the ticks fit into an unsigned long.
LEMMA TimeoutFits ==
    ASSUME NEW msec \in SleepArgs
    PROVE  TimeoutOf(msec) \in 0..(Word - 1) /\ TicksOf(msec) \in Nat
<1>1. msec \in Nat /\ HZ \in Nat /\ Word \in Nat \ {0} /\ MsPerSec \in Nat \ {0}
  BY TasksAssumption
<1> DEFINE n == msec * HZ
<1>2. n \in Nat
  BY <1>1
<1> HIDE DEF n
<1>3. n % Word \in 0..(Word - 1)
  BY <1>1, <1>2
<1> DEFINE m == n % Word
<1>4. \A x \in Nat : x \div MsPerSec \in Nat /\ x \div MsPerSec <= x
  BY <1>1
<1>5. m \in Nat /\ m <= Word - 1 /\ Word - 1 \in Nat
  BY <1>1, <1>3
<1> HIDE DEF m
<1>6. m \div MsPerSec \in 0..(Word - 1) /\ n \div MsPerSec \in Nat
  <2>1. m \div MsPerSec \in Nat /\ m \div MsPerSec <= m
    BY <1>4, <1>5
  <2> HIDE <1>1, <1>4
  <2> DEFINE q == m \div MsPerSec
  <2> HIDE DEF q
  <2>2. q \in 0..(Word - 1)
    <3>1. q \in Nat /\ q <= m
      BY <2>1 DEF q
    <3> QED  BY <1>5, <3>1
  <2>3. n \div MsPerSec \in Nat
    BY <1>2, <1>4
  <2> QED  BY <2>2, <2>3 DEF q
<1> QED  BY <1>6 DEF TimeoutOf, TicksOf, m, n

\* sys_sleep, with interrupts off.
LEMMA SleepKeeps ==
    ASSUME TasksInv, NEW t \in Task, sys_sleep(t)
    PROVE  TasksInv'
<1> USE TypeFacts
<1>1. /\ t = current /\ t \in Users /\ pc[t] = "run" /\ ~halted
      /\ state' = [state EXCEPT ![t] = "UNINTERRUPTIBLE"]
      /\ schedule(state', timeslice)
      /\ UNCHANGED <<task_list, pid, ppid, next_pid, sched_ticks, pc, wait_pid, halted>>
      /\ TypeOK /\ Order
  BY DEF sys_sleep, InUser, TasksInv
<1>2. PICK msec \in SleepArgs : SetTimeout(t, msec)
  BY DEF sys_sleep
<1>3. timeout' \in [Task -> 0..(Word - 1)] /\ owed' \in [Task -> Nat]
  BY <1>1, <1>2, TimeoutFits DEF SetTimeout
<1>4. \A x \in Task : x # t => state'[x] = state[x] /\ timeout'[x] = timeout[x]
  BY <1>1, <1>2 DEF SetTimeout
<1>5. state'[t] = "UNINTERRUPTIBLE" /\ state'[idle] = "RUNNABLE"
  BY <1>1, <1>4 DEF TasksInv, Running
<1>6. /\ current' \in Listed /\ state'[current'] = "RUNNABLE"
      /\ timeslice' \in [Task -> 0..MAX_TIMESLICE]
  BY <1>1, <1>5, Scheduled, Zenon
<1>7. Order' /\ Pids' /\ Booting' /\ Parents' /\ Waiters' /\ Listed' = Listed
  <2>1. \A x \in Task : /\ state'[x] = "DEAD" => state[x] = "DEAD"
                        /\ state'[x] = "INTERRUPTIBLE" => state[x] = "INTERRUPTIBLE"
    BY <1>4, <1>5
  <2> QED  BY <1>1, <2>1, SameTree, SameWaiters
<1>8. TypeOK'
  <2>1. state' \in [Task -> {"FREE", "RUNNABLE", "INTERRUPTIBLE", "UNINTERRUPTIBLE", "DEAD"}]
    BY <1>1
  <2> QED  BY <1>1, <1>3, <1>6, <1>7, <2>1, Zenon DEF TypeOK
<1>9. Labels' /\ Running'
  BY <1>1, <1>5, <1>6 DEF TasksInv, Labels, Running
<1>10. Timeouts'
  BY <1>1, <1>4, <1>5, <1>7, ZenonT(40) DEF TasksInv, Timeouts
<1>11. Stopped'
  BY <1>1 DEF Stopped
<1> QED  BY <1>7, <1>8, <1>9, <1>10, <1>11 DEF TasksInv

\* The three statements of do_sleep in a kernel thread.
LEMMA KernelSleepKeeps ==
    ASSUME TasksInv, NEW t \in Task, SleepArm(t) \/ SleepPark(t) \/ SleepSchedule(t)
    PROVE  TasksInv'
<1> USE TypeFacts
<1>1. /\ t = current /\ t \in KThread /\ t # idle /\ ~halted
      /\ UNCHANGED <<task_list, pid, ppid, next_pid, sched_ticks, wait_pid, halted>>
      /\ TypeOK /\ Order
  BY TasksAssumption, Zenon DEF SleepArm, SleepPark, SleepSchedule, Goto, TasksInv
<1>2. /\ pc' \in [Task -> {"boot", "run", "armed", "parked", "waitpid"}]
      /\ pc'[t] \in {"armed", "parked", "run"}
      /\ \A x \in Task : x # t => pc'[x] = pc[x]
  BY <1>1, Zenon DEF SleepArm, SleepPark, SleepSchedule, Goto
<1>3. Labels' /\ Stopped'
  BY <1>1, <1>2, Zenon DEF TasksInv, Labels, Stopped
<1>4. ASSUME \A x \in Task : /\ state'[x] = "DEAD" => state[x] = "DEAD"
                             /\ state'[x] = "INTERRUPTIBLE" => state[x] = "INTERRUPTIBLE"
      PROVE  Order' /\ Pids' /\ Booting' /\ Parents' /\ Waiters' /\ Listed' = Listed
  BY <1>1, <1>2, <1>4, SameTree, SameWaiters
<1>5. CASE SleepArm(t)
  <2>1. PICK msec \in SleepArgs : SetTimeout(t, msec)
    BY <1>5 DEF SleepArm
  <2>2. UNCHANGED <<state, timeslice, current>> /\ pc[t] = "run" /\ pc'[t] = "armed"
    BY <1>1, <1>5 DEF SleepArm, Goto
  <2>3. timeout' \in [Task -> 0..(Word - 1)] /\ owed' \in [Task -> Nat]
    BY <1>1, <2>1, TimeoutFits DEF SetTimeout
  <2>4. \A x \in Task : x # t => timeout'[x] = timeout[x]
    BY <1>1, <2>1 DEF SetTimeout
  <2>5. Order' /\ Pids' /\ Booting' /\ Parents' /\ Waiters' /\ Listed' = Listed
    BY <1>4, <2>2
  <2>6. TypeOK'
    BY <1>1, <1>2, <2>2, <2>3, <2>5, Zenon DEF TypeOK
  <2>7. Running'
    BY <1>1, <1>2, <2>2 DEF TasksInv, Running
  <2>8. Timeouts'
    BY <1>1, <1>2, <2>2, <2>4, <2>5, Zenon DEF TasksInv, Timeouts, Running
  <2> QED  BY <1>3, <2>5, <2>6, <2>7, <2>8 DEF TasksInv
<1>6. CASE SleepPark(t)
  <2>1. /\ state' = [state EXCEPT ![t] = "UNINTERRUPTIBLE"]
        /\ UNCHANGED <<timeslice, timeout, current, owed>> /\ pc'[t] = "parked"
    BY <1>1, <1>6 DEF SleepPark, Goto
  <2>2. /\ \A x \in Task : x # t => state'[x] = state[x]
        /\ state'[t] = "UNINTERRUPTIBLE"
        /\ state' \in [Task -> {"FREE", "RUNNABLE", "INTERRUPTIBLE", "UNINTERRUPTIBLE",
                                "DEAD"}]
    BY <1>1, <2>1
  <2>3. Order' /\ Pids' /\ Booting' /\ Parents' /\ Waiters' /\ Listed' = Listed
    BY <1>4, <2>2
  <2>4. TypeOK'
    BY <1>1, <1>2, <2>1, <2>2, <2>3, Zenon DEF TypeOK
  <2>5. Running'
    BY <1>1, <2>1, <2>2 DEF TasksInv, Running
  <2>6. Timeouts'
    BY <1>1, <1>2, <2>1, <2>2, <2>3 DEF TasksInv, Timeouts
  <2> QED  BY <1>3, <2>3, <2>4, <2>5, <2>6 DEF TasksInv
<1>7. CASE SleepSchedule(t)
  <2>1. /\ schedule(state, timeslice) /\ UNCHANGED <<state, timeout, owed>>
        /\ pc[t] = "parked" /\ pc'[t] = "run"
    BY <1>1, <1>7 DEF SleepSchedule, Goto
  <2>2. state[idle] = "RUNNABLE"
    BY DEF TasksInv, Running
  <2>3. /\ current' \in Listed /\ state[current'] = "RUNNABLE"
        /\ timeslice' \in [Task -> 0..MAX_TIMESLICE]
    BY <1>1, <2>1, <2>2, Scheduled, Zenon
  <2>4. Order' /\ Pids' /\ Booting' /\ Parents' /\ Waiters' /\ Listed' = Listed
    BY <1>4, <2>1
  <2>5. TypeOK'
    BY <1>1, <1>2, <2>1, <2>3, <2>4, Zenon DEF TypeOK
  <2>6. Running'
    BY <2>1, <2>2, <2>3 DEF Running
  <2>7. Timeouts'
    BY <1>1, <1>2, <2>1, <2>4 DEF TasksInv, Timeouts
  <2> QED  BY <1>3, <2>4, <2>5, <2>6, <2>7 DEF TasksInv
<1> QED  BY <1>5, <1>6, <1>7
-----------------------------------------------------------------------------
\* sys_fork, of idle or of a user task.  The child stands last in the list, so its
\* parent stands before it, and nobody who waits gets a child.
LEMMA ForkKeeps ==
    ASSUME TasksInv, NEW p \in Task, sys_fork(p)
    PROVE  TasksInv'
<1> USE TypeFacts
<1>1. /\ p = current /\ pc[p] \in {"run", "boot"} /\ ~halted
      /\ p \in Users \/ (p = idle /\ pc[p] = "boot")
      /\ pc' = [pc EXCEPT ![p] = "run"]
      /\ UNCHANGED <<timeout, current, sched_ticks, wait_pid, owed, halted>>
      /\ TypeOK /\ Order /\ Pids
  BY Zenon DEF sys_fork, InUser, TasksInv
<1>2. state[p] = "RUNNABLE" /\ p \in Listed /\ state[idle] = "RUNNABLE"
  BY <1>1 DEF TasksInv, Running
<1>3. /\ pc' \in [Task -> {"boot", "run", "armed", "parked", "waitpid"}]
      /\ pc'[p] = "run" /\ pc'[idle] # "boot"
      /\ \A x \in Task : x # p => pc'[x] = pc[x]
  BY <1>1, <1>2 DEF TasksInv, Booting
<1>4. fork_pid(p) \in INIT_TASK_PID..MAX_PID /\ \A x \in Listed : pid[x] # fork_pid(p)
  <2>1. CASE p = idle
    <3>1. \A x \in Listed : pid[x] # INIT_TASK_PID
      BY <1>1, <2>1 DEF TasksInv, Booting
    <3> QED  BY <2>1, <3>1, InitPid DEF fork_pid
  <2>2. CASE p # idle
    BY <1>1, <2>2, Allocated DEF fork_pid
  <2> QED  BY <2>1, <2>2
<1>5. next_pid \in INIT_TASK_PID..MAX_PID
  BY <1>1 DEF TypeOK
<1>6. Labels' /\ Stopped'
  BY <1>1, <1>3 DEF TasksInv, Labels, Stopped
<1>7. CASE ForkFails(p)
  <2>1. UNCHANGED <<task_list, pid, ppid, state, timeslice>>
    BY <1>7 DEF ForkFails, fields
  <2>2. next_pid' \in INIT_TASK_PID..MAX_PID
    BY <1>4, <1>5, <1>7 DEF ForkFails
  <2>3. Order' /\ Pids' /\ Booting' /\ Parents' /\ Waiters' /\ Listed' = Listed
    BY <1>1, <1>3, <2>1, SameTree, SameWaiters
  <2>4. TypeOK'
    BY <1>1, <1>3, <2>1, <2>2, <2>3, Zenon DEF TypeOK
  <2>5. Running'
    BY <1>1, <1>2, <2>1 DEF Running
  <2>6. Timeouts'
    BY <1>1, <1>3, <2>1, <2>3 DEF TasksInv, Timeouts
  <2> QED  BY <1>6, <2>3, <2>4, <2>5, <2>6 DEF TasksInv
<1>8. CASE \E t \in Users : Fork(p, t)
  <2>1. PICK t \in Users : Fork(p, t)
    BY <1>8
  <2>2. /\ t \notin Listed /\ t \in Task /\ t # p /\ t # idle
        /\ pid' = [pid EXCEPT ![t] = fork_pid(p)]
        /\ ppid' = [ppid EXCEPT ![t] = pid[p]]
        /\ state' = [state EXCEPT ![t] = "RUNNABLE"]
        /\ timeslice' = [timeslice EXCEPT ![t] = timeslice[p]]
        /\ task_list' = Append(task_list, t)
        /\ next_pid' \in {next_pid, fork_pid(p)}
    BY <1>1, <1>2, <2>1, Zenon DEF Fork
  <2>3. /\ task_list' \in Seq(Task) /\ IsInjective(task_list')
        /\ Listed' = Listed \cup {t}
        /\ \A q, x : Before(task_list, q, x) => Before(task_list', q, x)
        /\ \A q \in Listed : Before(task_list', q, t)
    <3>1. /\ task_list \in Seq(Task) /\ t \in Task /\ IsInjective(task_list)
          /\ t \notin Range(task_list)
      BY <1>1, <2>2 DEF Listed, Order
    <3>2. /\ Append(task_list, t) \in Seq(Task) /\ IsInjective(Append(task_list, t))
          /\ Range(Append(task_list, t)) = Range(task_list) \cup {t}
          /\ \A q, x : Before(task_list, q, x) => Before(Append(task_list, t), q, x)
          /\ \A q \in Range(task_list) : Before(Append(task_list, t), q, t)
      BY <3>1, Appended, Zenon
    <3> QED  BY <2>2, <3>2, Zenon DEF Listed
  <2>4. /\ \A x \in Task : x # t => /\ pid'[x] = pid[x] /\ ppid'[x] = ppid[x]
                                    /\ state'[x] = state[x]
        /\ pid'[t] = fork_pid(p) /\ ppid'[t] = pid[p] /\ state'[t] = "RUNNABLE"
    BY <1>1, <2>2
  <2>5. Order' /\ Booting'
    BY <1>1, <1>3, <2>3 DEF Order, Booting
  <2>6. Pids'
    <3>1. fork_pid(p) >= INIT_TASK_PID
      BY <1>4 DEF INIT_TASK_PID
    <3>2. \A x \in Listed' : x = t \/ (x \in Listed /\ x # t /\ pid'[x] = pid[x])
      BY <1>1, <2>2, <2>3, <2>4, Zenon
    <3>3. pid'[idle] = IDLE_TASK_PID /\ \A x \in Listed' \ {idle} : pid'[x] >= INIT_TASK_PID
      BY <1>1, <2>2, <2>4, <3>1, <3>2, ZenonT(40) DEF Pids
    <3>4. PidsUnique'
      <4>1. \A x, y \in Listed : pid[x] = pid[y] => x = y
        BY <1>1, Zenon DEF Pids, PidsUnique
      <4> HIDE TypeFacts
      <4> QED  BY <1>4, <2>4, <3>2, <4>1 DEF PidsUnique
    <3> QED  BY <3>3, <3>4 DEF Pids
  <2>7. Parents'
    <3> SUFFICES ASSUME NEW x \in Listed', x \in Users
                 PROVE  \E q \in Task : Parent(q, x)'
      BY DEF Parents
    <3>1. CASE x = t
      <4>1. Parent(p, t)'
        BY <1>1, <1>2, <2>2, <2>3, <2>4 DEF Parent
      <4> QED  BY <3>1, <4>1
    <3>2. CASE x # t
      <4>1. x \in Listed /\ x \in Task
        BY <1>1, <2>3, <3>2
      <4>2. PICK q \in Task : Parent(q, x)
        BY <4>1 DEF TasksInv, Parents
      <4>3. Parent(q, x)'
        BY <2>2, <2>3, <2>4, <3>2, <4>1, <4>2 DEF Parent
      <4> QED  BY <4>3
    <3> QED  BY <3>1, <3>2
  <2>8. Running'
    BY <1>1, <1>2, <2>2, <2>4 DEF Running
  <2>9. Waiters'
    <3> SUFFICES ASSUME NEW u \in Listed', state'[u] = "INTERRUPTIBLE"
                 PROVE  /\ \E x \in Task : Awaited(u, x)'
                        /\ \A x \in Task : Awaited(u, x)' => state'[x] # "DEAD"
      BY DEF Waiters
    <3>1. u \in Listed /\ u \in Task /\ u # t /\ u # p /\ state[u] = "INTERRUPTIBLE"
      BY <1>1, <1>2, <2>3, <2>4, Zenon
    <3>2. pid[u] # pid[p]
      BY <1>1, <1>2, <3>1 DEF Pids, PidsUnique
    <3>3. \A x \in Task : Awaited(u, x)' <=> Awaited(u, x)
      BY <1>1, <2>2, <2>3, <2>4, <3>1, <3>2, Zenon DEF Awaited
    <3>4. \A x \in Task : Awaited(u, x) => x # t
      BY <2>2 DEF Awaited
    <3> QED  BY <2>4, <3>1, <3>3, <3>4, Zenon DEF TasksInv, Waiters
  <2>10. Timeouts'
    <3>1. timeout[t] = 0 /\ pc'[p] # "armed" /\ timeout[p] = 0
      BY <1>1, <1>2, <1>3, <2>2, Zenon DEF TasksInv, Timeouts
    <3>2. \A x \in Task : timeout'[x] = timeout[x]
      BY <1>1
    <3> QED  BY <1>3, <2>3, <2>4, <3>1, <3>2, ZenonT(40) DEF TasksInv, Timeouts
  <2>11. TypeOK'
    <3>1. fork_pid(p) \in NoPid..MAX_PID
      BY <1>4 DEF INIT_TASK_PID, NoPid
    <3>2. pid' \in [Task -> NoPid..MAX_PID] /\ ppid' \in [Task -> NoPid..MAX_PID]
      BY <1>1, <2>2, <3>1, Zenon
    <3>3. /\ state' \in [Task -> {"FREE", "RUNNABLE", "INTERRUPTIBLE", "UNINTERRUPTIBLE",
                                  "DEAD"}]
          /\ timeslice' \in [Task -> 0..MAX_TIMESLICE]
      BY <1>1, <2>2, Zenon
    <3>4. next_pid' \in INIT_TASK_PID..MAX_PID /\ current' \in Listed'
      BY <1>1, <1>2, <1>4, <1>5, <2>2, <2>3, Zenon
    <3> QED  BY <1>1, <1>3, <2>3, <3>2, <3>3, <3>4, Zenon DEF TypeOK
  <2> QED  BY <1>6, <2>5, <2>6, <2>7, <2>8, <2>9, <2>10, <2>11 DEF TasksInv
<1> QED  BY <1>7, <1>8 DEF sys_fork
-----------------------------------------------------------------------------
\* A task of the list has a pid.
LEMMA RealPids ==
    ASSUME Pids
    PROVE  \A u \in Listed : pid[u] # NoPid
<1> SUFFICES ASSUME NEW u \in Listed PROVE pid[u] # NoPid
  OBVIOUS
<1>1. pid[u] = IDLE_TASK_PID \/ pid[u] >= INIT_TASK_PID
  BY DEF Pids
<1> QED  BY <1>1 DEF IDLE_TASK_PID, INIT_TASK_PID, NoPid

\* do_exit.  The children go to the parent of the task, who stands before it and so
\* is neither the task nor a child; whoever waits for one of them is woken.
LEMMA ExitKeeps ==
    ASSUME TasksInv, NEW t \in Task, do_exit(t)
    PROVE  TasksInv'
<1> USE TypeFacts
<1>1. /\ t = current /\ pc[t] = "run" /\ ~halted /\ t \in Users \cup KThread
      /\ ppid' = reparent(t)
      /\ state' = wake_parent([state EXCEPT ![t] = "DEAD"], t)
      /\ schedule(state', timeslice)
      /\ UNCHANGED <<task_list, pid, timeout, next_pid, sched_ticks, pc, wait_pid, owed,
                     halted>>
      /\ TypeOK /\ Order /\ Pids
  BY DEF do_exit, InUser, TasksInv
<1>2. t \in Listed /\ t # idle /\ state[t] = "RUNNABLE" /\ Listed' = Listed
  BY <1>1 DEF TasksInv, Running, Listed
<1>3. /\ \A x \in Task : x # t /\ x \in Listed /\ pid[x] = Heir(t)
                         /\ state[x] = "INTERRUPTIBLE" => state'[x] = "RUNNABLE"
      /\ \A x \in Task : x # t => state'[x] = state[x] \/ (state'[x] = "RUNNABLE"
                                                            /\ state[x] = "INTERRUPTIBLE")
      /\ state'[t] = "DEAD"
      /\ state' \in [Task -> {"FREE", "RUNNABLE", "INTERRUPTIBLE", "UNINTERRUPTIBLE", "DEAD"}]
  BY <1>1, <1>2, Zenon DEF wake_parent
<1>4. /\ \A x \in Task : ppid'[x] = IF x = t \/ (x \in Listed /\ ppid[x] = pid[t])
                                    THEN Heir(t) ELSE ppid[x]
      /\ Heir(t) \in NoPid..MAX_PID
      /\ ppid' \in [Task -> NoPid..MAX_PID]
  <2>2. Heir(t) \in NoPid..MAX_PID
    BY <1>1, InitPid DEF Heir
  <2> QED  BY <1>1, <2>2 DEF reparent
<1>5. state'[idle] = "RUNNABLE"
  BY <1>1, <1>2, <1>3, Zenon DEF TasksInv, Running
<1>6. /\ current' \in Listed /\ state'[current'] = "RUNNABLE"
      /\ timeslice' \in [Task -> 0..MAX_TIMESLICE]
  BY <1>1, <1>5, Scheduled, Zenon
<1>7. Order' /\ Pids' /\ Booting' /\ Labels' /\ Stopped'
  BY <1>1, <1>2, SMTT(60) DEF TasksInv, Order, Pids, PidsUnique, Booting, Labels, Stopped
<1>8. Running'
  BY <1>5, <1>6 DEF Running
<1>9. TypeOK'
  BY <1>1, <1>2, <1>3, <1>4, <1>6, Zenon DEF TypeOK
<1>10. Parents'
  <2> SUFFICES ASSUME NEW x \in Listed, x \in Users
               PROVE  \E q \in Task : Parent(q, x)'
    BY <1>2 DEF Parents
  <2>1. PICK q \in Task : Parent(q, x)
    BY DEF TasksInv, Parents
  <2>2. q # x /\ pid[q] = ppid[x] /\ q \in Listed /\ q \in Users \cup {idle}
        /\ state[q] # "DEAD" /\ Before(task_list, q, x)
    BY <1>1, <2>1, BeforeIsOrder DEF Parent, Order
  <2>3. \A y \in Listed : y \in Users => ppid[y] # NoPid
    <3> SUFFICES ASSUME NEW y \in Listed, y \in Users PROVE ppid[y] # NoPid
      OBVIOUS
    <3>1. PICK r \in Task : Parent(r, y)
      BY DEF TasksInv, Parents
    <3> QED  BY <1>1, <3>1, RealPids, Zenon DEF Parent
  <2>4. ASSUME NEW g \in Task, g \in Listed, g \in Users \cup {idle}, g # t,
               state[g] # "DEAD", pid[g] = ppid'[x], Before(task_list, g, x)
        PROVE  Parent(g, x)'
    BY <1>1, <1>2, <1>3, <2>4, Zenon DEF Parent
  <2>5. CASE x = t
    <3>1. ppid'[x] = pid[q]
      BY <1>4, <2>2, <2>3, <2>5 DEF Heir
    <3> QED  BY <2>2, <2>4, <2>5, <3>1
  <2>6. CASE x # t /\ ppid[x] = pid[t]
    <3>1. q = t
      BY <1>1, <1>2, <2>2, <2>6 DEF Pids, PidsUnique
    <3>2. t \in Users
      BY <1>2, <2>2, <3>1
    <3>3. PICK g \in Task : Parent(g, t)
      BY <1>2, <3>2 DEF TasksInv, Parents
    <3>4. /\ g # t /\ g \in Listed /\ g \in Users \cup {idle} /\ state[g] # "DEAD"
          /\ pid[g] = ppid[t] /\ Before(task_list, g, x)
      BY <1>1, <2>2, <3>1, <3>3, BeforeIsOrder, SMTT(30) DEF Parent, Order
    <3>5. ppid'[x] = pid[g]
      BY <1>1, <1>2, <1>4, <2>3, <2>6, <3>2, <3>4 DEF Heir
    <3> QED  BY <2>4, <3>4, <3>5
  <2>7. CASE x # t /\ ppid[x] # pid[t]
    <3>1. ppid'[x] = pid[q] /\ q # t
      BY <1>1, <1>4, <2>2, <2>7
    <3> QED  BY <2>2, <2>4, <3>1
  <2> QED  BY <2>5, <2>6, <2>7
<1>11. Waiters'
  <2> SUFFICES ASSUME NEW u \in Listed, state'[u] = "INTERRUPTIBLE"
               PROVE  /\ \E x \in Task : Awaited(u, x)'
                      /\ \A x \in Task : Awaited(u, x)' => state'[x] # "DEAD"
    BY <1>2 DEF Waiters
  <2>1. u # t /\ state[u] = "INTERRUPTIBLE" /\ pid[u] # Heir(t) /\ pid[u] # pid[t]
    <3>1. u # t
      BY <1>3
    <3>2. state[u] = "INTERRUPTIBLE"
      BY <1>1, <1>3, <3>1, Zenon
    <3> QED  BY <1>1, <1>2, <1>3, <3>1, <3>2, Zenon DEF Pids, PidsUnique
  <2>2. \A x \in Task : Awaited(u, x)' <=> Awaited(u, x)
    <3>1. \A x \in Task : ppid'[x] = pid[u] => ppid[x] = pid[u]
      BY <1>4, <2>1
    <3>2. \A x \in Listed : ppid[x] = pid[u] => ppid'[x] = pid[u]
      <4> SUFFICES ASSUME NEW x \in Listed, ppid[x] = pid[u] PROVE ppid'[x] = pid[u]
        OBVIOUS
      <4>1. x = t => Heir(t) = pid[u]
        <5>1. pid[u] # NoPid
          BY <1>1, RealPids, Zenon
        <5> QED  BY <5>1 DEF Heir
      <4> QED  BY <1>1, <1>4, <2>1, <4>1
    <3> QED  BY <1>1, <1>2, <3>1, <3>2, Zenon DEF Awaited
  <2>3. ~Awaited(u, t)'
    BY <1>1, <1>4, <2>1 DEF Awaited
  <2>4. /\ \E x \in Task : Awaited(u, x)
        /\ \A x \in Task : Awaited(u, x) => state[x] # "DEAD"
    BY <2>1, Zenon DEF TasksInv, Waiters
  <2>5. \A x \in Task : x # t /\ state[x] # "DEAD" => state'[x] # "DEAD"
    BY <1>3
  <2> QED  BY <2>2, <2>3, <2>4, <2>5, Zenon
<1>12. Timeouts'
  <2>1. timeout[t] = 0
    BY <1>1, <1>2, Zenon DEF TasksInv, Timeouts
  <2> QED  BY <1>1, <1>2, <1>3, <2>1, ZenonT(40) DEF TasksInv, Timeouts
<1> QED  BY <1>7, <1>8, <1>9, <1>10, <1>11, <1>12 DEF TasksInv
-----------------------------------------------------------------------------
\* What a scan of the list by do_waitpid finds.
LEMMA Scan ==
    ASSUME TypeOK, NEW t, NEW w
    PROVE  /\ \A i \in Children(t, w) :
                 /\ task_list[i] \in Listed /\ ppid[task_list[i]] = pid[t]
                 /\ w \in {NoPid, pid[task_list[i]]}
           /\ \A x \in Listed :
                 ppid[x] = pid[t] /\ w \in {NoPid, pid[x]}
                 => \E i \in Children(t, w) : task_list[i] = x
<1>1. task_list \in Seq(Task)
  BY TypeFacts
<1> QED  BY <1>1 DEF Children, Listed, Range

\* The child that do_waitpid reaps: a dead one, not idle and not the caller.
LEMMA Reaped ==
    ASSUME TasksInv, NEW t \in Listed, state[t] = "RUNNABLE", NEW w,
           DeadChildren(t, w) # {}
    PROVE  LET i == Min(DeadChildren(t, w))
               c == task_list[i]
           IN  /\ i \in DOMAIN task_list /\ c \in Listed /\ c \in Task
               /\ state[c] = "DEAD" /\ ppid[c] = pid[t] /\ c # t /\ c # idle
<1> DEFINE i == Min(DeadChildren(t, w))
           c == task_list[i]
<1>1. TypeOK /\ task_list \in Seq(Task) /\ Listed \subseteq Task /\ state[idle] = "RUNNABLE"
  BY TypeFacts DEF TasksInv, Running
<1>2. DeadChildren(t, w) \in SUBSET Nat
  BY <1>1 DEF DeadChildren, Children
<1>3. i \in DeadChildren(t, w)
  BY <1>2, MinIsLeast, Zenon
<1>4. i \in Children(t, w) /\ i \in DOMAIN task_list /\ state[c] = "DEAD"
  BY <1>3, Zenon DEF DeadChildren, Children
<1>5. c \in Listed /\ ppid[c] = pid[t]
  BY <1>1, <1>4, Scan, ZenonT(40)
<1> QED  BY <1>1, <1>4, <1>5

\* do_waitpid, as it takes a dead child off the list: nobody else waits for it, and
\* it is nobody's parent.
LEMMA ReapKeeps ==
    ASSUME TasksInv, NEW t \in Task, t = current, t \in Users, ~halted,
           pc[t] \in {"run", "waitpid"}, NEW w, Reap(t, w),
           UNCHANGED <<timeout, next_pid, sched_ticks, owed, halted>>
    PROVE  TasksInv'
<1> USE TypeFacts
<1> DEFINE i == Min(DeadChildren(t, w))
           c == task_list[i]
<1>1. TypeOK /\ Order /\ Pids /\ t \in Listed /\ state[t] = "RUNNABLE" /\ t # idle
      /\ state[idle] = "RUNNABLE"
  BY DEF TasksInv, Running
<1>2. /\ i \in DOMAIN task_list /\ c \in Listed /\ c \in Task
      /\ state[c] = "DEAD" /\ ppid[c] = pid[t] /\ c # t /\ c # idle
  BY <1>1, Reaped, ZenonT(40) DEF Reap
<1>3. /\ task_list' = list_remove(task_list, i)
      /\ state' = [state EXCEPT ![c] = "FREE"] /\ pid' = [pid EXCEPT ![c] = NoPid]
      /\ ppid' = [ppid EXCEPT ![c] = NoPid] /\ timeslice' = [timeslice EXCEPT ![c] = 0]
      /\ pc' = [pc EXCEPT ![t] = "run"] /\ wait_pid' = [wait_pid EXCEPT ![t] = 0]
      /\ current' = current
  BY Zenon DEF Reap
<1>4. /\ task_list' \in Seq(Task) /\ IsInjective(task_list')
      /\ Listed' = Listed \ {c}
      /\ \A p, x : p # c /\ x # c /\ Before(task_list, p, x) => Before(task_list', p, x)
  <2>1. task_list \in Seq(Task) /\ IsInjective(task_list) /\ i \in DOMAIN task_list
    BY <1>1, <1>2, Zenon DEF Order
  <2>2. /\ list_remove(task_list, i) \in Seq(Task) /\ IsInjective(list_remove(task_list, i))
        /\ Range(list_remove(task_list, i)) = Range(task_list) \ {c}
        /\ \A p, x : p # c /\ x # c /\ Before(task_list, p, x)
                     => Before(list_remove(task_list, i), p, x)
    <3> HIDE TypeFacts
    <3> HIDE DEF i
    <3> QED  BY <2>1, Removed, Zenon DEF c
  <2> QED  BY <1>3, <2>2, Zenon DEF Listed
<1> HIDE DEF i, c
<1>5. /\ \A x \in Task : x # c => /\ pid'[x] = pid[x] /\ ppid'[x] = ppid[x]
                                  /\ state'[x] = state[x]
      /\ \A x \in Task : x # t => pc'[x] = pc[x] /\ wait_pid'[x] = wait_pid[x]
      /\ pc'[t] = "run"
  BY <1>1, <1>2, <1>3
<1>6. \A x \in Listed' : x \in Listed /\ x \in Task /\ x # c
  BY <1>1, <1>4
<1>7. TypeOK'
  <2>1. 0 \in NoPid..MAX_PID /\ NoPid \in NoPid..MAX_PID
    BY NoPids, Zenon
  <2>2. 0 \in 0..MAX_TIMESLICE
    BY TasksAssumption, SMTT(60)
  <2>3. /\ pid' \in [Task -> NoPid..MAX_PID] /\ ppid' \in [Task -> NoPid..MAX_PID]
        /\ wait_pid' \in [Task -> NoPid..MAX_PID]
    BY <1>1, <1>3, <2>1, Zenon
  <2>4. /\ state' \in [Task -> {"FREE", "RUNNABLE", "INTERRUPTIBLE", "UNINTERRUPTIBLE",
                                "DEAD"}]
        /\ timeslice' \in [Task -> 0..MAX_TIMESLICE]
        /\ pc' \in [Task -> {"boot", "run", "armed", "parked", "waitpid"}]
    BY <1>1, <1>3, <2>2, Zenon
  <2>5. current' \in Listed'
    BY <1>1, <1>2, <1>3, <1>4
  <2> QED  BY <1>1, <1>4, <2>3, <2>4, <2>5, Zenon DEF TypeOK
<1>8. Order' /\ Booting' /\ Labels' /\ Stopped'
  <2>1. Order'
    BY <1>1, <1>2, <1>4 DEF Order
  <2>2. Booting' /\ Labels' /\ Stopped'
    BY <1>1, <1>5, <1>6, Zenon DEF TasksInv, Booting, Labels, Stopped
  <2> QED  BY <2>1, <2>2
<1>9. Pids'
  <2>1. idle \in Task
    BY <1>1
  <2> HIDE TypeFacts
  <2>2. PidsUnique /\ pid[idle] = IDLE_TASK_PID /\ pid'[idle] = pid[idle]
        /\ \A x \in Listed \ {idle} : pid[x] >= INIT_TASK_PID
    BY <1>1, <1>2, <1>5, <2>1 DEF Pids
  <2>3. \A x \in Listed' : pid'[x] = pid[x] /\ x \in Listed
    BY <1>5, <1>6
  <2> QED  BY <2>2, <2>3, Zenon DEF Pids, PidsUnique
<1>10. Parents'
  <2> SUFFICES ASSUME NEW x \in Listed', x \in Users
               PROVE  \E q \in Task : Parent(q, x)'
    BY DEF Parents
  <2>1. PICK q \in Task : Parent(q, x)
    BY <1>6 DEF TasksInv, Parents
  <2>2. q # c
    BY <1>2, <2>1 DEF Parent
  <2>3. Parent(q, x)'
    BY <1>4, <1>5, <1>6, <2>1, <2>2, ZenonT(40) DEF Parent
  <2> QED  BY <2>3
<1>11. Running'
  BY <1>1, <1>2, <1>3, <1>5 DEF Running
<1>12. Waiters'
  <2> SUFFICES ASSUME NEW u \in Listed', state'[u] = "INTERRUPTIBLE"
               PROVE  /\ \E x \in Task : Awaited(u, x)'
                      /\ \A x \in Task : Awaited(u, x)' => state'[x] # "DEAD"
    BY DEF Waiters
  <2>1. u \in Listed /\ u \in Task /\ u # c /\ u # t /\ state[u] = "INTERRUPTIBLE"
    BY <1>1, <1>5, <1>6, ZenonT(40)
  <2>2. /\ \E x \in Task : Awaited(u, x)
        /\ \A x \in Task : Awaited(u, x) => state[x] # "DEAD"
    BY <2>1, Zenon DEF TasksInv, Waiters
  <2>3. ~Awaited(u, c)
    BY <1>2, <2>2
  <2>4. \A x \in Task : Awaited(u, x)' <=> Awaited(u, x) /\ x # c
    BY <1>1, <1>4, <1>5, <2>1, Zenon DEF Awaited
  <2> QED  BY <1>5, <2>2, <2>3, <2>4, ZenonT(40)
<1>13. Timeouts'
  <2>1. timeout[c] = 0 /\ timeout[t] = 0
    BY <1>1, <1>2 DEF TasksInv, Timeouts, Labels
  <2>2. \A x \in Task : timeout'[x] = timeout[x]
    OBVIOUS
  <2> QED  BY <1>4, <1>5, <2>1, <2>2, ZenonT(40) DEF TasksInv, Timeouts
<1> QED  BY <1>7, <1>8, <1>9, <1>10, <1>11, <1>12, <1>13 DEF TasksInv

\* The rest of do_waitpid: there is no such child, or the task goes to sleep.
LEMMA WaitpidKeeps ==
    ASSUME TasksInv, NEW t \in Task, t = current, t \in Users, ~halted,
           pc[t] \in {"run", "waitpid"}, NEW w \in NoPid..MAX_PID, do_waitpid(t, w)
    PROVE  TasksInv'
<1> USE TypeFacts
<1>1. TypeOK /\ Order /\ Pids /\ t \in Listed /\ state[t] = "RUNNABLE" /\ t # idle
      /\ state[idle] = "RUNNABLE"
      /\ UNCHANGED <<timeout, next_pid, sched_ticks, owed, halted>>
  BY DEF TasksInv, Running, do_waitpid
<1>2. timeout[t] = 0
  BY <1>1, Zenon DEF TasksInv, Timeouts
<1>3. CASE Reap(t, w)
  BY <1>1, <1>3, ReapKeeps, Zenon
<1>4. CASE NothingToWaitFor(t, w)
  <2>1. /\ pc' = [pc EXCEPT ![t] = "run"] /\ wait_pid' = [wait_pid EXCEPT ![t] = 0]
        /\ UNCHANGED <<pid, ppid, state, timeslice, task_list, current>>
    BY <1>4 DEF NothingToWaitFor, fields
  <2>2. /\ \A x \in Task : x # t => pc'[x] = pc[x] /\ wait_pid'[x] = wait_pid[x]
        /\ pc'[t] = "run" /\ pc' \in [Task -> {"boot", "run", "armed", "parked", "waitpid"}]
    BY <1>1, <2>1, Zenon
  <2>3. 0 \in NoPid..MAX_PID
    BY NoPids, Zenon
  <2>4. wait_pid' \in [Task -> NoPid..MAX_PID]
    BY <1>1, <2>1, <2>3
  <2>5. Order' /\ Pids' /\ Booting' /\ Parents' /\ Listed' = Listed
    BY <1>1, <2>1, <2>2, SameTree
  <2>6. TypeOK'
    BY <1>1, <2>1, <2>2, <2>4, <2>5, Zenon DEF TypeOK
  <2>7. Labels' /\ Running' /\ Stopped'
    BY <1>1, <2>1, <2>2 DEF TasksInv, Labels, Running, Stopped
  <2>8. Waiters'
    BY <1>1, <2>1, <2>2, SameWaiters
  <2>9. Timeouts'
    BY <1>1, <1>2, <2>1, <2>2, <2>5 DEF TasksInv, Timeouts
  <2> QED  BY <2>5, <2>6, <2>7, <2>8, <2>9 DEF TasksInv
<1>5. CASE WaitForChild(t, w)
  <2>1. /\ state' = [state EXCEPT ![t] = "INTERRUPTIBLE"]
        /\ pc' = [pc EXCEPT ![t] = "waitpid"] /\ wait_pid' = [wait_pid EXCEPT ![t] = w]
        /\ schedule(state', timeslice)
        /\ UNCHANGED <<task_list, pid, ppid>>
        /\ Children(t, w) # {} /\ DeadChildren(t, w) = {}
    BY <1>5 DEF WaitForChild
  <2>2. /\ \A x \in Task : x # t => /\ pc'[x] = pc[x] /\ wait_pid'[x] = wait_pid[x]
                                    /\ state'[x] = state[x]
        /\ pc'[t] = "waitpid" /\ wait_pid'[t] = w /\ state'[t] = "INTERRUPTIBLE"
        /\ pc' \in [Task -> {"boot", "run", "armed", "parked", "waitpid"}]
        /\ wait_pid' \in [Task -> NoPid..MAX_PID]
        /\ state' \in [Task -> {"FREE", "RUNNABLE", "INTERRUPTIBLE", "UNINTERRUPTIBLE",
                                "DEAD"}]
    BY <1>1, <2>1
  <2>3. state'[idle] = "RUNNABLE"
    BY <1>1, <2>2
  <2>4. /\ current' \in Listed /\ state'[current'] = "RUNNABLE"
        /\ timeslice' \in [Task -> 0..MAX_TIMESLICE]
    BY <1>1, <2>1, <2>3, Scheduled, Zenon
  <2>5. Order' /\ Pids' /\ Booting' /\ Parents' /\ Listed' = Listed
    BY <1>1, <2>1, <2>2, SameTree, Zenon
  <2>6. TypeOK'
    BY <1>1, <2>1, <2>2, <2>4, <2>5, Zenon DEF TypeOK
  <2>7. Labels' /\ Running' /\ Stopped'
    BY <1>1, <2>2, <2>3, <2>4, Zenon DEF TasksInv, Labels, Running, Stopped
  <2>8. Waiters'
    <3> SUFFICES ASSUME NEW u \in Listed, state'[u] = "INTERRUPTIBLE"
                 PROVE  /\ \E x \in Task : Awaited(u, x)'
                        /\ \A x \in Task : Awaited(u, x)' => state'[x] # "DEAD"
      BY <2>5, Zenon DEF Waiters
    <3>1. CASE u # t
      <4>1. state[u] = "INTERRUPTIBLE" /\ u \in Task
        BY <1>1, <2>2, <3>1
      <4>2. \A x \in Task : Awaited(u, x)' <=> Awaited(u, x)
        BY <1>1, <2>1, <2>2, <2>5, <3>1, <4>1 DEF Awaited
      <4>3. /\ \E x \in Task : Awaited(u, x)
            /\ \A x \in Task : Awaited(u, x) => state[x] # "DEAD"
        BY <4>1, Zenon DEF TasksInv, Waiters
      <4> QED  BY <2>2, <4>2, <4>3
    <3>2. CASE u = t
      <4>1. \A x \in Task : Awaited(t, x)' <=>
                /\ x \in Listed /\ ppid[x] = pid[t] /\ w \in {NoPid, pid[x]}
        BY <2>1, <2>2, <2>5 DEF Awaited
      <4>2. /\ \E x \in Listed : ppid[x] = pid[t] /\ w \in {NoPid, pid[x]}
            /\ \A x \in Listed : ppid[x] = pid[t] /\ w \in {NoPid, pid[x]}
                               => state[x] # "DEAD"
        <5>1. TypeOK
          BY <1>1
        <5> HIDE TypeFacts
        <5>2. \A i \in Children(t, w) : state[task_list[i]] # "DEAD"
          BY <2>1, Zenon DEF DeadChildren
        <5>3. /\ \A i \in Children(t, w) :
                    /\ task_list[i] \in Listed /\ ppid[task_list[i]] = pid[t]
                    /\ w \in {NoPid, pid[task_list[i]]}
              /\ \A x \in Listed :
                    ppid[x] = pid[t] /\ w \in {NoPid, pid[x]}
                    => \E i \in Children(t, w) : task_list[i] = x
          BY <5>1, Scan, ZenonT(40)
        <5>4. PICK i : i \in Children(t, w)
          BY <2>1
        <5> QED  BY <5>2, <5>3, <5>4, ZenonT(40)
      <4>3. \A x \in Task : state[x] # "DEAD" => state'[x] # "DEAD"
        BY <2>2
      <4> QED  BY <1>1, <3>2, <4>1, <4>2, <4>3, Zenon
    <3> QED  BY <3>1, <3>2
  <2>9. Timeouts'
    BY <1>1, <1>2, <2>2, <2>5, ZenonT(40) DEF TasksInv, Timeouts
  <2> QED  BY <2>5, <2>6, <2>7, <2>8, <2>9 DEF TasksInv
<1> QED  BY <1>3, <1>4, <1>5 DEF do_waitpid
-----------------------------------------------------------------------------
\* Where the kernel threads and idle stand, and their pids, at the start.
LEMMA InitKeeps == Init => TasksInv
<1> SUFFICES ASSUME Init PROVE TasksInv
  OBVIOUS
<1> DEFINE n == Len(KThreads)
<1>1. /\ KThreads \in Seq(KThread) /\ n \in Nat /\ IsInjective(KThreads)
      /\ idle \notin KThread /\ idle \notin Users /\ KThread \cap Users = {}
      /\ idle \in Task /\ KThread \subseteq Task /\ Users \subseteq Task
      /\ KThread = Range(KThreads) /\ DOMAIN KThreads = 1..n
  BY TasksAssumption, SMTT(60) DEF Task, KThread
<1>2. /\ task_list = KThreads \o <<idle>> /\ task_list \in Seq(Task) /\ Len(task_list) = n + 1
      /\ \A i \in 1..n : task_list[i] = KThreads[i]
      /\ task_list[n + 1] = idle
  <2>1. KThreads \in Seq(Task) /\ <<idle>> \in Seq(Task)
    BY <1>1
  <2> QED  BY <1>1, <2>1 DEF Init
<1> HIDE DEF n
<1>3. Listed = KThread \cup {idle}
  <2>1. Listed = {task_list[i] : i \in 1..(n + 1)} /\ KThread = {KThreads[i] : i \in 1..n}
    BY <1>1, <1>2, SMTT(60) DEF Listed, Range
  <2>2. \A i \in 1..(n + 1) : i \in 1..n \/ i = n + 1
    BY <1>1
  <2>3. n + 1 \in 1..(n + 1) /\ \A i \in 1..n : i \in 1..(n + 1)
    BY <1>1
  <2> QED  BY <1>2, <2>1, <2>2, <2>3, Zenon
<1>4. IsInjective(task_list)
  <2> SUFFICES ASSUME NEW i \in 1..(n + 1), NEW j \in 1..(n + 1), task_list[i] = task_list[j]
               PROVE  i = j
    BY <1>2 DEF IsInjective
  <2>1. \A k \in 1..n : KThreads[k] # idle
    BY <1>1
  <2>2. i \in 1..n \/ i = n + 1
    BY <1>1
  <2>3. j \in 1..n \/ j = n + 1
    BY <1>1
  <2> QED  BY <1>1, <1>2, <2>1, <2>2, <2>3 DEF IsInjective
<1>5. \A t \in KThread : \E i \in 1..n : KThreads[i] = t /\ pid[t] = INIT_TASK_PID + i
  <2> SUFFICES ASSUME NEW t \in KThread
               PROVE  \E i \in 1..n : KThreads[i] = t /\ pid[t] = INIT_TASK_PID + i
    OBVIOUS
  <2>2. \E i \in DOMAIN KThreads : KThreads[i] = t
    BY <1>1 DEF Range
  <2> DEFINE k == CHOOSE i \in DOMAIN KThreads : KThreads[i] = t
  <2>3. k \in DOMAIN KThreads /\ KThreads[k] = t
    BY <2>2, Zenon
  <2>4. pid[t] = INIT_TASK_PID + k
    BY <1>1 DEF Init
  <2> HIDE DEF k
  <2> QED  BY <1>1, <2>3, <2>4
<1>6. pid[idle] = IDLE_TASK_PID /\ \A t \in Users : pid[t] = NoPid
  BY <1>1 DEF Init
<1>7. 1 + n <= MAX_PID /\ MAX_PID \in Nat
  BY TasksFinite DEF INIT_TASK_PID, n
<1>8. \A t \in KThread : pid[t] \in 2..MAX_PID
  <2> SUFFICES ASSUME NEW t \in KThread PROVE pid[t] \in 2..MAX_PID
    OBVIOUS
  <2>1. PICK i \in 1..n : pid[t] = INIT_TASK_PID + i
    BY <1>5
  <2> QED  BY <1>1, <1>7, <2>1 DEF INIT_TASK_PID
<1>9. TypeOK
  <2>1. \A t \in Task : t = idle \/ t \in KThread \/ t \in Users
    BY DEF Task
  <2>2. \A t \in Task : pid[t] \in NoPid..MAX_PID
    BY <1>6, <1>7, <1>8, <2>1 DEF NoPid, IDLE_TASK_PID
  <2>3. pid \in [Task -> NoPid..MAX_PID]
    <3>1. pid = [t \in Task |-> pid[t]]
      BY DEF Init
    <3> QED  BY <2>2, <3>1
  <2>4. 0 \in NoPid..MAX_PID /\ NoPid \in NoPid..MAX_PID
    BY <1>7 DEF NoPid
  <2>5. 0 \in 0..(Word - 1) /\ SCHED_TICKS \in 1..SCHED_TICKS
        /\ 0 \in 0..MAX_TIMESLICE /\ INITIAL_TIMESLICE \in 0..MAX_TIMESLICE
    BY TasksAssumption
  <2>6. /\ ppid \in [Task -> NoPid..MAX_PID] /\ wait_pid \in [Task -> NoPid..MAX_PID]
        /\ timeout \in [Task -> 0..(Word - 1)] /\ owed \in [Task -> Nat]
        /\ timeslice \in [Task -> 0..MAX_TIMESLICE]
    BY <2>4, <2>5 DEF Init
  <2>7. /\ state \in [Task -> {"FREE", "RUNNABLE", "INTERRUPTIBLE", "UNINTERRUPTIBLE", "DEAD"}]
        /\ pc \in [Task -> {"boot", "run", "armed", "parked", "waitpid"}]
    BY DEF Init
  <2>8. next_pid \in INIT_TASK_PID..MAX_PID
    BY <1>1, <1>7 DEF Init, INIT_TASK_PID, n
  <2>9. current \in Listed /\ sched_ticks \in 1..SCHED_TICKS /\ halted \in BOOLEAN
    BY <1>3, <2>5, Zenon DEF Init
  <2> QED  BY <1>2, <2>3, <2>6, <2>7, <2>8, <2>9, Zenon DEF TypeOK
<1>10. Order
  BY <1>3, <1>4 DEF Order
<1>11. Pids
  <2>1. \A t \in Listed \ {idle} : pid[t] >= INIT_TASK_PID
    BY <1>3, <1>7, <1>8 DEF INIT_TASK_PID
  <2>2. \A t, u \in KThread : pid[t] = pid[u] => t = u
    <3> SUFFICES ASSUME NEW t \in KThread, NEW u \in KThread, pid[t] = pid[u] PROVE t = u
      OBVIOUS
    <3>1. PICK i \in 1..n : KThreads[i] = t /\ pid[t] = INIT_TASK_PID + i
      BY <1>5
    <3>2. PICK j \in 1..n : KThreads[j] = u /\ pid[u] = INIT_TASK_PID + j
      BY <1>5
    <3>3. i = j
      <4>1. 1 + i = 1 + j
        BY <3>1, <3>2, Zenon DEF INIT_TASK_PID
      <4>2. i \in Int /\ j \in Int
        BY <1>1
      <4> QED  BY <4>1, <4>2
    <3> QED  BY <3>1, <3>2, <3>3
  <2>3. \A t \in KThread : pid[t] # pid[idle]
    BY <1>6, <1>7, <1>8 DEF IDLE_TASK_PID
  <2>4. PidsUnique
    BY <1>3, <2>2, <2>3, Zenon DEF PidsUnique
  <2> QED  BY <1>6, <2>1, <2>4 DEF Pids
<1>12. Booting
  <2>1. \A t \in Listed : pid[t] # INIT_TASK_PID
    BY <1>3, <1>6, <1>7, <1>8 DEF IDLE_TASK_PID, INIT_TASK_PID
  <2> QED  BY <1>1, <1>3, <2>1, Zenon DEF Booting
<1>13. Labels /\ Running /\ Waiters /\ Timeouts /\ Stopped
  BY <1>1, <1>3 DEF Init, Labels, Running, Waiters, Timeouts, Stopped
<1>14. Parents
  BY <1>1, <1>3, Zenon DEF Parents
<1> QED  BY <1>9, <1>10, <1>11, <1>12, <1>13, <1>14 DEF TasksInv
-----------------------------------------------------------------------------
\* Every step of the system keeps the invariant.
LEMMA NextKeeps ==
    ASSUME TasksInv, [Next]_vars
    PROVE  TasksInv'
<1>1. CASE TimerInterrupt
  BY <1>1, TimerKeeps
<1>2. ASSUME NEW t \in Task, sys_waitpid(t)
      PROVE  TasksInv'
  <2>1. PICK w \in {NoPid} \cup (INIT_TASK_PID..MAX_PID) : do_waitpid(t, w)
    BY <1>2 DEF sys_waitpid
  <2>2. w \in NoPid..MAX_PID
    BY TasksAssumption DEF NoPid, INIT_TASK_PID
  <2>3. t = current /\ t \in Users /\ ~halted /\ pc[t] \in {"run", "waitpid"}
    BY <1>2 DEF sys_waitpid, InUser
  <2> QED  BY <2>1, <2>2, <2>3, WaitpidKeeps, Zenon
<1>3. ASSUME NEW t \in Task, WaitpidRepeat(t)
      PROVE  TasksInv'
  <2>1. t = current /\ pc[t] = "waitpid" /\ do_waitpid(t, wait_pid[t])
    BY <1>3 DEF WaitpidRepeat
  <2>2. t \in Users /\ ~halted
    BY <2>1 DEF TasksInv, Labels, Stopped, IF_on
  <2>3. wait_pid[t] \in NoPid..MAX_PID
    BY TypeFacts DEF TasksInv
  <2> QED  BY <2>1, <2>2, <2>3, WaitpidKeeps, Zenon
<1>4. CASE \E t \in Task : KernelStep(t)
  BY <1>3, <1>4, KernelSleepKeeps DEF KernelStep
<1>5. CASE \E t \in Task : sys_fork(t) \/ do_exit(t) \/ sys_sleep(t) \/ SleepArm(t)
  BY <1>5, ForkKeeps, ExitKeeps, SleepKeeps, KernelSleepKeeps
<1>6. CASE UNCHANGED vars
  <2>1. UNCHANGED <<task_list, pid, ppid, state, timeslice, timeout, current, next_pid,
                    sched_ticks, pc, wait_pid, owed, halted>>
    BY <1>6 DEF vars, fields
  <2>2. Order' /\ Pids' /\ Booting' /\ Parents' /\ Waiters' /\ Listed' = Listed
    BY <2>1, SameTree, SameWaiters
  <2> QED  BY <2>1, <2>2, Zenon DEF TasksInv, TypeOK, Labels, Running, Timeouts, Stopped, IF_on
<1> QED  BY <1>1, <1>2, <1>4, <1>5, <1>6 DEF Next, Halted

\* The inductive invariant.
THEOREM TasksInvariance == Spec => []TasksInv
<1>1. Init => TasksInv
  BY InitKeeps
<1>2. TasksInv /\ [Next]_vars => TasksInv'
  BY NextKeeps
<1> QED  BY <1>1, <1>2, PTL DEF Spec
-----------------------------------------------------------------------------
\* Two tasks of the list never have the same pid, however many tasks are forked and
\* reaped and however often alloc_pid wraps around (sched.c:100-108).
THEOREM PidsNeverShared == Spec => []PidsUnique
<1>1. TasksInv => PidsUnique
  BY DEF TasksInv, Pids
<1> QED  BY <1>1, TasksInvariance, PTL

\* A user task always has a parent that is alive, whichever of its ancestors exit
\* (do_exit, task.c:112-118): re-parenting never names the task that exits or its
\* child, since a parent stands before its children in the task list.
THEOREM OrphansAreAdopted == Spec => []ParentsAlive
<1>1. TasksInv => ParentsAlive
  <2> SUFFICES ASSUME TasksInv, NEW t \in Listed, t \in Users
               PROVE  \E p \in Listed : Alive(p) /\ pid[p] = ppid[t]
    BY DEF ParentsAlive, IsUser
  <2>1. PICK p \in Task : Parent(p, t)
    BY DEF TasksInv, Parents
  <2> QED  BY <2>1 DEF Parent, Alive
<1> QED  BY <1>1, TasksInvariance, PTL

\* No wake-up is lost: while a task sleeps in do_waitpid, it has a child it waits for
\* and none of these is dead, whichever tasks exit, fork or reap in between
\* (task.c:131-135, 158-180).
THEOREM WakeupsAreNotLost == Spec => []NoLostWakeup
<1>1. TasksInv => NoLostWakeup
  <2> SUFFICES ASSUME TasksInv, NEW t \in Listed, state[t] = "INTERRUPTIBLE"
               PROVE  /\ Children(t, wait_pid[t]) # {}
                      /\ DeadChildren(t, wait_pid[t]) = {}
    BY DEF NoLostWakeup
  <2>1. TypeOK /\ Listed \subseteq Task
    BY TypeFacts DEF TasksInv
  <2> DEFINE w == wait_pid[t]
  <2>2. /\ \A i \in Children(t, w) :
              /\ task_list[i] \in Listed /\ ppid[task_list[i]] = pid[t]
              /\ w \in {NoPid, pid[task_list[i]]}
        /\ \A x \in Listed :
              ppid[x] = pid[t] /\ w \in {NoPid, pid[x]}
              => \E i \in Children(t, w) : task_list[i] = x
    BY <2>1, Scan, ZenonT(40)
  <2>3. /\ \E x \in Task : Awaited(t, x)
        /\ \A x \in Task : Awaited(t, x) => state[x] # "DEAD"
    BY Zenon DEF TasksInv, Waiters
  <2>4. Children(t, w) # {}
    BY <2>2, <2>3 DEF Awaited
  <2>5. \A i \in Children(t, w) : state[task_list[i]] # "DEAD"
    BY <2>1, <2>2, <2>3, Zenon DEF Awaited
  <2> QED  BY <2>4, <2>5 DEF DeadChildren
<1> QED  BY <1>1, TasksInvariance, PTL

\* The ASSERT of the clock handler (timer.c:211) fails only while a kernel thread
\* stands between the two statements of do_sleep that set its timeout and its state
\* (task.c:194-197): the sleep of a user task never stops the machine.
THEOREM OnlyKernelThreadsTripTheAssert ==
    Spec => [](halted => \E t \in KThread : pc[t] = "armed")
<1>1. TasksInv => (halted => \E t \in KThread : pc[t] = "armed")
  BY DEF TasksInv, Stopped
<1> QED  BY <1>1, TasksInvariance, PTL
-----------------------------------------------------------------------------
\* Where msec * HZ does not overflow, the timeout is what the task asked for, and the
\* clock counts both down.
LEMMA ExactKept ==
    ASSUME TasksInv, Exact, [Next]_vars, \A m \in SleepArgs : m * HZ < Word
    PROVE  Exact'
<1>1. timeout \in [Task -> 0..(Word - 1)] /\ owed \in [Task -> Nat]
  BY TypeFacts DEF TasksInv
<1>2. \A m \in SleepArgs : TimeoutOf(m) = TicksOf(m)
  <2> SUFFICES ASSUME NEW m \in SleepArgs PROVE TimeoutOf(m) = TicksOf(m)
    OBVIOUS
  <2>1. m \in Nat /\ HZ \in Nat /\ Word \in Nat \ {0}
    BY TasksAssumption
  <2> DEFINE n == m * HZ
  <2>2. n \in Nat /\ n < Word
    BY <2>1
  <2> HIDE DEF n
  <2>3. n % Word = n
    BY <2>1, <2>2
  <2> QED  BY <2>3 DEF TimeoutOf, TicksOf, n
<1>3. CASE UNCHANGED <<timeout, owed>>
  BY <1>3, Zenon DEF Exact
<1>4. ASSUME NEW t \in Task, NEW m \in SleepArgs, SetTimeout(t, m)
      PROVE  Exact'
  BY <1>1, <1>2, <1>4 DEF SetTimeout, Exact
<1>5. CASE TimerInterrupt
  BY <1>3, <1>5, <1>1 DEF TimerInterrupt, fields, Exact
<1>6. CASE \E t \in Task : sys_sleep(t) \/ SleepArm(t)
  BY <1>4, <1>6, Zenon DEF sys_sleep, SleepArm
<1>7. CASE \E t \in Task : \/ sys_fork(t) \/ do_exit(t) \/ sys_waitpid(t)
                           \/ KernelStep(t)
  BY <1>3, <1>7, Zenon DEF sys_fork, do_exit, sys_waitpid, do_waitpid, KernelStep, WaitpidRepeat,
                    SleepPark, SleepSchedule
<1>8. CASE UNCHANGED vars
  BY <1>3, <1>8 DEF vars, fields
<1> QED  BY <1>5, <1>6, <1>7, <1>8 DEF Next, Halted

\* A sleep lasts at least as many ticks as the task asked for (do_sleep,
\* task.c:186-199), when the product msec * HZ fits an unsigned long.  Without that
\* the property is false.
THEOREM SleepsAreLongEnough ==
    ASSUME \A m \in SleepArgs : m * HZ < Word
    PROVE  Spec => []SleepLongEnough
<1>1. Init => Exact
  BY DEF Init, Exact
<1>2. TasksInv /\ Exact /\ [Next]_vars => Exact'
  BY ExactKept
<1>3. TasksInv /\ Exact => SleepLongEnough
  <2> SUFFICES ASSUME TasksInv, Exact PROVE SleepLongEnough
    OBVIOUS
  <2>1. Listed \subseteq Task
    BY TypeFacts DEF TasksInv
  <2> QED  BY <2>1, Zenon DEF TasksInv, Exact, Timeouts, SleepLongEnough
<1> QED  BY <1>1, <1>2, <1>3, TasksInvariance, PTL DEF Spec
-----------------------------------------------------------------------------
\* A task leaves the list only when it is dead and only by the hand of its parent, and
\* a dead task is never run or woken again (task.c:158-170): neither the clock nor
\* wake_parent reaches it, and do_waitpid does not reap another task's child.
THEOREM OnlyParentsReap == Spec => ReapedByParent
<1> DEFINE Reaping == \A t \in Listed :
               /\ t \notin Listed' => state[t] = "DEAD" /\ ppid[t] = pid[current]
               /\ state[t] = "DEAD" /\ t \in Listed' => state'[t] = "DEAD"
<1>1. TasksInv /\ [Next]_vars => [Reaping]_vars
  <2> SUFFICES ASSUME TasksInv, Next PROVE Reaping
    BY ZenonT(40)
  <2>1. /\ TypeOK /\ Listed \subseteq Task /\ current \in Listed /\ state[current] # "DEAD"
        /\ state \in [Task -> {"FREE", "RUNNABLE", "INTERRUPTIBLE", "UNINTERRUPTIBLE",
                               "DEAD"}]
    BY TypeFacts DEF TasksInv, Running
  <2>2. ASSUME UNCHANGED task_list,
               \A x \in Task : state[x] = "DEAD" => state'[x] = "DEAD"
        PROVE  Reaping
    BY <2>1, <2>2 DEF Listed
  <2>3. CASE TimerInterrupt
    <3>1. UNCHANGED task_list /\ (state' = state \/ state' = expire)
      BY <2>3 DEF TimerInterrupt, fields
    <3>2. \A x \in Task : state[x] = "DEAD" => timeout[x] = 0
      BY Zenon DEF TasksInv, Timeouts
    <3> QED  BY <2>2, <3>1, <3>2 DEF expire
  <2>4. ASSUME NEW t \in Task, sys_fork(t)
        PROVE  Reaping
    <3>1. CASE ForkFails(t)
      BY <2>2, <3>1, Zenon DEF ForkFails, fields
    <3>2. ASSUME NEW c \in Users, Fork(t, c)
          PROVE  Reaping
      <4>1. /\ c \notin Listed /\ task_list' = Append(task_list, c)
            /\ state' = [state EXCEPT ![c] = "RUNNABLE"]
        BY <3>2 DEF Fork
      <4>2. Listed \subseteq Listed'
        <5>1. task_list \in Seq(Task) /\ c \in Task
          BY <2>1, TypeFacts
        <5> QED  BY <4>1, <5>1, SMTT(60) DEF Listed, Range
      <4> QED  BY <2>1, <4>1, <4>2
    <3> QED  BY <2>4, <3>1, <3>2 DEF sys_fork
  <2>5. ASSUME NEW t \in Task, do_exit(t)
        PROVE  Reaping
    <3>1. t = current /\ UNCHANGED task_list
          /\ state' = wake_parent([state EXCEPT ![t] = "DEAD"], t)
      BY <2>5, Zenon DEF do_exit, InUser
    <3> QED  BY <2>1, <2>2, <3>1 DEF wake_parent
  <2>6. ASSUME NEW t \in Task, NEW w, t = current, state[t] = "RUNNABLE", do_waitpid(t, w)
        PROVE  Reaping
    <3>1. CASE Reap(t, w)
      <4> DEFINE i == Min(DeadChildren(t, w))
                 c == task_list[i]
      <4>1. /\ i \in DOMAIN task_list /\ c \in Listed /\ c \in Task
            /\ state[c] = "DEAD" /\ ppid[c] = pid[t]
        BY <2>1, <2>6, <3>1, Reaped, Zenon DEF Reap
      <4>2. task_list' = list_remove(task_list, i) /\ state' = [state EXCEPT ![c] = "FREE"]
        BY <3>1 DEF Reap
      <4>3. task_list \in Seq(Task) /\ IsInjective(task_list)
        BY TypeFacts DEF TasksInv, Order
      <4> HIDE DEF i
      <4>4. Listed' = Listed \ {c}
        BY <4>1, <4>2, <4>3, Removed, ZenonT(40) DEF Listed
      <4> HIDE DEF c
      <4> QED  BY <2>1, <2>6, <4>1, <4>2, <4>4
    <3>2. CASE NothingToWaitFor(t, w)
      BY <2>2, <3>2 DEF NothingToWaitFor, fields
    <3>3. CASE WaitForChild(t, w)
      BY <2>1, <2>2, <2>6, <3>3, Zenon DEF WaitForChild
    <3> QED  BY <2>6, <3>1, <3>2, <3>3, ZenonT(40) DEF do_waitpid
  <2>7. ASSUME NEW t \in Task, sys_waitpid(t) \/ WaitpidRepeat(t)
        PROVE  Reaping
    <3>1. t = current /\ pc[t] # "parked" /\ \E w : do_waitpid(t, w)
      BY <2>7 DEF sys_waitpid, InUser, WaitpidRepeat
    <3>2. state[t] = "RUNNABLE"
      BY <3>1 DEF TasksInv, Running
    <3> QED  BY <2>6, <3>1, <3>2, Zenon
  <2>8. ASSUME NEW t \in Task,
               sys_sleep(t) \/ SleepArm(t) \/ SleepPark(t) \/ SleepSchedule(t)
        PROVE  Reaping
    <3>1. /\ t = current /\ UNCHANGED task_list
          /\ state' = state \/ state' = [state EXCEPT ![t] = "UNINTERRUPTIBLE"]
      BY <2>8 DEF sys_sleep, InUser, SleepArm, SleepPark, SleepSchedule, Goto
    <3> QED  BY <2>1, <2>2, <3>1
  <2>9. CASE Halted
    BY <2>2, <2>9 DEF Halted, vars, fields
  <2> QED  BY <2>3, <2>4, <2>5, <2>7, <2>8, <2>9, ZenonT(40) DEF Next, KernelStep
<1>2. TasksInv /\ [Next]_vars => [\A t \in Listed :
          /\ t \notin Listed' => state[t] = "DEAD" /\ ppid[t] = pid[current]
          /\ state[t] = "DEAD" /\ t \in Listed' => state'[t] = "DEAD"]_vars
  BY <1>1
<1> QED  BY <1>2, TasksInvariance, PTL DEF Spec, ReapedByParent
=============================================================================
