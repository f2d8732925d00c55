--------------------------- MODULE PhysMemProofs ---------------------------
(***************************************************************************)
(* The theorems about the physical memory allocator: init_physmem builds a *)
(* well-formed ring, every operation keeps it (PhysMemRing.tla), and the   *)
(* properties of PhysMem.tla follow; the allocator implements the map of   *)
(* PageMap.tla; and its calls keep what the blocks hold.                   *)
(***************************************************************************)
EXTENDS PhysMemRing, PhysMemContents, WellFoundedInduction

-----------------------------------------------------------------------------
(***************************************************************************)
(* init_physmem builds a well-formed ring when the layout is aligned.      *)
(***************************************************************************)
\* What AlignedLayout says about the four segments of init_physmem.
LEMMA LayoutFacts ==
    ASSUME AlignedLayout
    PROVE  /\ First(1) = 0 /\ First(2) \in Nat /\ First(3) \in Nat
           /\ First(4) \in Nat
           /\ 0 < First(2) /\ First(2) < First(3) /\ First(3) < First(4)
           /\ First(4) < NrPages
           /\ Past(1) = First(2) /\ Past(2) = First(3) /\ Past(3) = First(4)
           /\ Past(4) = NrPages
           /\ Layout[1].hole = FALSE /\ Layout[2].hole = TRUE
           /\ Layout[3].hole = FALSE /\ Layout[4].hole = TRUE
<1>1. /\ Layout[1].hole = FALSE /\ Layout[2].hole = TRUE
      /\ Layout[3].hole = FALSE /\ Layout[4].hole = TRUE
  BY DEF Layout, Segment
<1>2. descriptor_array_end \in Nat
  BY SizesAssumption, NrPagesNat DEF descriptor_array_end
<1>3. /\ Layout[2].start \in Nat /\ Layout[3].start \in Nat
      /\ Layout[4].start \in Nat
  BY <1>2, SizesAssumption DEF Layout, Segment
<1>4. \A a \in Nat : a \div PAGE_SIZE \in Nat
  BY SizesAssumption
<1>5. First(2) \in Nat /\ First(3) \in Nat /\ First(4) \in Nat
  BY <1>3, <1>4 DEF First, PAGE_ALIGN_INF
<1>6. /\ First(1) = 0 /\ Past(4) = NrPages
      /\ Past(1) = First(2) /\ Past(2) = First(3) /\ Past(3) = First(4)
      /\ First(1) < Past(1) /\ First(2) < Past(2) /\ First(3) < Past(3)
      /\ First(4) < Past(4)
  BY DEF AlignedLayout
<1> QED BY <1>1, <1>5, <1>6

\* What add_block stores in the descriptor b once it is linked.
IsSet(I, b, k, v, A) ==
    /\ A \in Descriptors /\ A.head = I.head
    /\ A.prev = I.prev /\ A.next = I.next
    /\ \A x \in Page : x \in A.linked <=> x \in I.linked \/ x = b
    /\ \A x \in Page : A.pages[x] = IF x = b THEN k ELSE I.pages[x]
    /\ \A x \in Page : A.available[x] = IF x = b THEN v ELSE I.available[x]

IsAdd(M, b, k, v, A) ==
    /\ A \in Descriptors /\ A.head = 0
    /\ \A x \in Page : x \in A.linked <=> x \in M.linked \/ x = b
    /\ \A x \in Page : A.prev[x] = IF x = 0 THEN b
                                    ELSE IF x = b THEN M.prev[0] ELSE M.prev[x]
    /\ \A x \in Page : A.next[x] = IF x = M.prev[0] THEN b
                                    ELSE IF x = b THEN 0 ELSE M.next[x]
    /\ \A x \in Page : A.pages[x] = IF x = b THEN k ELSE M.pages[x]
    /\ \A x \in Page : A.available[x] = IF x = b THEN v ELSE M.available[x]

\* The stores of add_block to pages and available (physmem.c:120-122).
LEMMA SetFields ==
    ASSUME NEW I \in Descriptors, NEW b \in Page, NEW k \in Nat, NEW v \in BOOLEAN
    PROVE  IsSet(I, b, k, v, [I EXCEPT !.pages[b] = k, !.available[b] = v,
                                       !.linked = @ \cup {b}])
<1> DEFINE A == [I EXCEPT !.pages[b] = k, !.available[b] = v,
                          !.linked = @ \cup {b}]
<1>1. /\ A \in Descriptors /\ A.head = I.head
      /\ A.linked = I.linked \cup {b}
      /\ A.prev = I.prev /\ A.next = I.next
      /\ A.pages = [I.pages EXCEPT ![b] = k]
      /\ A.available = [I.available EXCEPT ![b] = v]
  BY Zenon DEF Descriptors
<1> HIDE DEF A
<1>2. I.pages \in [Page -> Nat] /\ I.available \in [Page -> BOOLEAN]
  BY DEF Descriptors
<1>3. \A x \in Page : A.pages[x] = IF x = b THEN k ELSE I.pages[x]
  BY <1>1, <1>2
<1>4. \A x \in Page : A.available[x] = IF x = b THEN v ELSE I.available[x]
  BY <1>1, <1>2, Zenon
<1>5. \A x \in Page : x \in A.linked <=> x \in I.linked \/ x = b
  BY <1>1
<1>6. IsSet(I, b, k, v, A)
  BY <1>1, <1>3, <1>4, <1>5 DEF IsSet
<1> QED BY <1>6 DEF A

\* add_block on a list that has a head, at page 0.
LEMMA AddFields ==
    ASSUME NEW M \in Descriptors, M.head = 0, NEW i, First(i) \in Page,
           M.prev[0] # First(i), First(i) # 0,
           Past(i) - First(i) \in Nat, Layout[i].hole \in BOOLEAN
    PROVE  IsAdd(M, First(i), Past(i) - First(i), Layout[i].hole, add_block(M, i))
<1> DEFINE I == list_append(M, First(i))
           A == add_block(M, i)
<1>1. 0 \in Page /\ M.head # NULL
  BY NrPagesNat, SizesAssumption DEF Page
<1>2. M.prev[0] \in Page
  BY <1>1 DEF Descriptors
<1>3. I = list_insert_before(M, 0, First(i))
  BY <1>1 DEF list_append, list_empty
<1>4. A = [I EXCEPT !.pages[First(i)] = Past(i) - First(i),
                    !.available[First(i)] = Layout[i].hole,
                    !.linked = @ \cup {First(i)}]
  BY DEF add_block
<1> HIDE DEF I, A
<1>5. /\ I \in Descriptors /\ I.head = 0 /\ I.linked = M.linked
      /\ I.prev = [[M.prev EXCEPT ![First(i)] = M.prev[0]]
                          EXCEPT ![0] = First(i)]
      /\ I.next = [[M.next EXCEPT ![First(i)] = 0]
                          EXCEPT ![M.prev[0]] = First(i)]
      /\ I.pages = M.pages /\ I.available = M.available
  BY <1>1, <1>2, <1>3, Zenon DEF list_insert_before, Descriptors
<1>6. IsSet(I, First(i), Past(i) - First(i), Layout[i].hole, A)
  <2> DEFINE b == First(i)
             k == Past(i) - First(i)
             v == Layout[i].hole
  <2>1. b \in Page /\ k \in Nat /\ v \in BOOLEAN
    OBVIOUS
  <2>2. A = [I EXCEPT !.pages[b] = k, !.available[b] = v, !.linked = @ \cup {b}]
    BY <1>4
  <2> HIDE DEF b, k, v
  <2>4. ASSUME v = TRUE PROVE IsSet(I, b, k, v, A)
    <3>1. A = [I EXCEPT !.pages[b] = k, !.available[b] = TRUE, !.linked = @ \cup {b}]
      BY <2>2, <2>4
    <3>2. IsSet(I, b, k, TRUE, A)
      BY <3>1, <2>1, <1>5, SetFields, Zenon
    <3> QED BY <3>2, <2>4, Zenon
  <2>5. ASSUME v = FALSE PROVE IsSet(I, b, k, v, A)
    <3>1. A = [I EXCEPT !.pages[b] = k, !.available[b] = FALSE, !.linked = @ \cup {b}]
      BY <2>2, <2>5, Zenon
    <3>2. IsSet(I, b, k, FALSE, A)
      BY <3>1, <2>1, <1>5, SetFields, Zenon
    <3> QED BY <3>2, <2>5, Zenon
  <2>3. IsSet(I, b, k, v, A)
    BY <2>1, <2>4, <2>5, Zenon
  <2> QED BY <2>3 DEF b, k, v
<1>7. M.prev \in [Page -> Page] /\ M.next \in [Page -> Page]
  BY DEF Descriptors
<1>8. \A x \in Page : I.prev[x] = IF x = 0 THEN First(i)
                                   ELSE IF x = First(i) THEN M.prev[0]
                                   ELSE M.prev[x]
  BY <1>1, <1>5, <1>7
<1>9. \A x \in Page : I.next[x] = IF x = M.prev[0] THEN First(i)
                                   ELSE IF x = First(i) THEN 0 ELSE M.next[x]
  BY <1>2, <1>5, <1>7
<1>10. IsAdd(M, First(i), Past(i) - First(i), Layout[i].hole, A)
  BY <1>5, <1>6, <1>8, <1>9 DEF IsSet, IsAdd
<1> QED BY <1>10 DEF A

IsInit(M, f2, f3, f4) ==
    /\ M \in Descriptors /\ M.head = 0 /\ M.linked = {0, f2, f3, f4}
    /\ M.next[0] = f2 /\ M.next[f2] = f3 /\ M.next[f3] = f4 /\ M.next[f4] = 0
    /\ M.prev[0] = f4 /\ M.prev[f2] = 0 /\ M.prev[f3] = f2 /\ M.prev[f4] = f3
    /\ M.pages[0] = f2 /\ M.pages[f2] = f3 - f2
    /\ M.pages[f3] = f4 - f3 /\ M.pages[f4] = NrPages - f4
    /\ M.available[0] = FALSE /\ M.available[f2] = TRUE
    /\ M.available[f3] = FALSE /\ M.available[f4] = TRUE
    /\ \A p \in Page \ M.linked : M.pages[p] = 0

\* init_physmem links four blocks, in the order of their addresses.
LEMMA InitFields ==
    ASSUME AlignedLayout
    PROVE  IsInit(init_physmem, First(2), First(3), First(4))
<1> DEFINE f2 == First(2) f3 == First(3) f4 == First(4)
<1> DEFINE M1 == add_block(RawDescriptors, 1)
           M2 == add_block(M1, 2)
           M3 == add_block(M2, 3)
           M4 == add_block(M3, 4)
<1>1. /\ f2 \in Nat /\ f3 \in Nat /\ f4 \in Nat /\ 0 < f2 /\ f2 < f3 /\ f3 < f4
      /\ f4 < NrPages
  BY LayoutFacts
<1>2. /\ 0 \in Page /\ f2 \in Page /\ f3 \in Page /\ f4 \in Page
      /\ f2 # 0 /\ f3 # 0 /\ f4 # 0 /\ f3 # f2 /\ f4 # f3 /\ f4 # f2
      /\ f3 - f2 \in Nat /\ f4 - f3 \in Nat /\ NrPages - f4 \in Nat
  BY <1>1, NrPagesNat DEF Page
<1>3. /\ First(1) = 0 /\ Past(1) - First(1) = f2
      /\ Past(2) - First(2) = f3 - f2 /\ Past(3) - First(3) = f4 - f3
      /\ Past(4) - First(4) = NrPages - f4
      /\ Layout[1].hole = FALSE /\ Layout[2].hole = TRUE
      /\ Layout[3].hole = FALSE /\ Layout[4].hole = TRUE
  <2>1. /\ First(1) = 0 /\ Past(1) = f2 /\ Past(2) = f3 /\ Past(3) = f4
        /\ Past(4) = NrPages
        /\ Layout[1].hole = FALSE /\ Layout[2].hole = TRUE
        /\ Layout[3].hole = FALSE /\ Layout[4].hole = TRUE
    BY LayoutFacts, Zenon
  <2>2. Past(1) - First(1) = f2
    BY <2>1, <1>1
  <2> QED BY <2>1, <2>2
<1>4. /\ M1 \in Descriptors /\ M1.head = 0
      /\ \A x \in Page : x \in M1.linked <=> x = 0
      /\ \A x \in Page : M1.prev[x] = 0 /\ M1.next[x] = 0
      /\ \A x \in Page : M1.pages[x] = IF x = 0 THEN f2 ELSE 0
      /\ \A x \in Page : M1.available[x] = FALSE
  <2> DEFINE I == list_append(RawDescriptors, First(1))
  <2>1. I = list_init([RawDescriptors EXCEPT !.head = First(1)])
    BY DEF list_append, list_empty, RawDescriptors
  <2>2. /\ I \in Descriptors /\ I.head = 0 /\ I.linked = {}
        /\ I.prev = [p \in Page |-> 0] /\ I.next = [p \in Page |-> 0]
        /\ I.pages = [p \in Page |-> 0] /\ I.available = [p \in Page |-> FALSE]
    <3> HIDE DEF I
    <3> QED BY <2>1, <1>2, <1>3, Zenon
       DEF list_init, RawDescriptors, Descriptors
  <2>3. M1 = [I EXCEPT !.pages[First(1)] = Past(1) - First(1),
                       !.available[First(1)] = Layout[1].hole,
                       !.linked = @ \cup {First(1)}]
    BY DEF add_block
  <2> HIDE DEF M1, I
  <2>4. M1 = [I EXCEPT !.pages[0] = f2, !.available[0] = FALSE,
                       !.linked = @ \cup {0}]
    BY <2>3, <1>3, Zenon
  <2>5. IsSet(I, 0, f2, FALSE, M1)
    BY <2>4, <2>2, <1>1, <1>2, SetFields, Zenon
  <2>6. \A x \in Page : M1.available[x] = FALSE
    BY <2>2, <2>5, ZenonT(30) DEF IsSet
  <2> QED BY <2>2, <2>5, <2>6, <1>2 DEF IsSet
<1>5. IsAdd(M1, f2, f3 - f2, TRUE, M2)
  <2> HIDE DEF M1
  <2>1. M1.prev[0] = 0
    BY <1>2, <1>4
  <2> QED BY <2>1, <1>2, <1>3, <1>4, AddFields, Zenon
<1>6. M2.prev[0] = f2
  BY <1>2, <1>5 DEF IsAdd
<1>7. IsAdd(M2, f3, f4 - f3, FALSE, M3)
  <2> HIDE DEF M2
  <2>1. M2 \in Descriptors /\ M2.head = 0
    BY <1>5 DEF IsAdd
  <2> QED BY <2>1, <1>2, <1>3, <1>6, AddFields, Zenon
<1>8. M3.prev[0] = f3
  BY <1>2, <1>7 DEF IsAdd
<1>9. IsAdd(M3, f4, NrPages - f4, TRUE, M4)
  <2> HIDE DEF M3
  <2>1. M3 \in Descriptors /\ M3.head = 0
    BY <1>7 DEF IsAdd
  <2> QED BY <2>1, <1>2, <1>3, <1>8, AddFields, ZenonT(30)
<1>10. init_physmem = M4
  BY DEF init_physmem
<1> HIDE DEF M1, M2, M3, M4
<1>11. M1.prev[0] = 0
  BY <1>2, <1>4
<1>12. /\ M4.prev[0] = f4 /\ M4.prev[f2] = 0 /\ M4.prev[f3] = f2
       /\ M4.prev[f4] = f3
  BY <1>2, <1>5, <1>6, <1>7, <1>8, <1>9, <1>11 DEF IsAdd
<1>13. /\ M4.next[0] = f2 /\ M4.next[f2] = f3 /\ M4.next[f3] = f4
       /\ M4.next[f4] = 0
  BY <1>2, <1>5, <1>6, <1>7, <1>8, <1>9, <1>11, SMTT(30) DEF IsAdd
<1>14. /\ M4.pages[0] = f2 /\ M4.pages[f2] = f3 - f2
       /\ M4.pages[f3] = f4 - f3 /\ M4.pages[f4] = NrPages - f4
  BY <1>2, <1>4, <1>5, <1>7, <1>9 DEF IsAdd
<1>15. \A p \in Page \ M4.linked : M4.pages[p] = 0
  BY <1>4, <1>5, <1>7, <1>9 DEF IsAdd
<1>16. /\ M4.available[0] = FALSE /\ M4.available[f2] = TRUE
       /\ M4.available[f3] = FALSE /\ M4.available[f4] = TRUE
  <2>1. /\ \A x \in Page : M1.available[x] = FALSE
        /\ \A x \in Page : M2.available[x] = IF x = f2 THEN TRUE
                                              ELSE M1.available[x]
        /\ \A x \in Page : M3.available[x] = IF x = f3 THEN FALSE
                                              ELSE M2.available[x]
        /\ \A x \in Page : M4.available[x] = IF x = f4 THEN TRUE
                                              ELSE M3.available[x]
    BY <1>4, <1>5, <1>7, <1>9, Zenon DEF IsAdd
  <2>2. M2.available[0] = FALSE /\ M2.available[f2] = TRUE
    BY <2>1, <1>2, Zenon
  <2>3. /\ M3.available[0] = FALSE /\ M3.available[f2] = TRUE
        /\ M3.available[f3] = FALSE
    BY <2>1, <2>2, <1>2, ZenonT(30)
  <2> QED BY <2>1, <2>3, <1>2, Zenon
<1>17. M4.linked = {0, f2, f3, f4}
  <2>1. M4.linked \subseteq Page
    BY <1>9 DEF IsAdd, Descriptors
  <2>2. \A x \in Page : x \in M4.linked <=> x \in {0, f2, f3, f4}
    BY <1>4, <1>5, <1>7, <1>9, SMTT(30) DEF IsAdd
  <2> QED BY <2>1, <2>2, <1>2
<1>18. IsInit(M4, f2, f3, f4)
  BY <1>9, <1>12, <1>13, <1>14, <1>15, <1>16, <1>17, ZenonT(30)
     DEF IsAdd, IsInit
<1> QED BY <1>10, <1>18

\* init_physmem leaves the blocks well formed.
LEMMA InitWellFormed ==
    ASSUME AlignedLayout
    PROVE  WellFormed(init_physmem) /\ 0 \in Page
<1> DEFINE M == init_physmem
           f2 == First(2) f3 == First(3) f4 == First(4)
<1>1. /\ f2 \in Nat /\ f3 \in Nat /\ f4 \in Nat /\ 0 < f2 /\ f2 < f3 /\ f3 < f4
      /\ f4 < NrPages /\ First(1) = 0
  BY LayoutFacts
<1>2. IsInit(M, f2, f3, f4)
  BY InitFields
<1>3. Reserved = {0, f3}
  BY <1>1 DEF Reserved
<1> HIDE DEF M, f2, f3, f4
<1>4. 0 \in Page
  BY <1>1, NrPagesNat, SMTT(30) DEF Page
<1>5. ASSUME NEW b \in M.linked
      PROVE  BlockOK(M.linked, M.prev, M.next, M.pages, b)
  BY <1>1, <1>2, NrPagesNat DEF BlockOK, IsInit
<1>6. Disjoint(M.linked, M.pages)
  BY <1>1, <1>2 DEF Disjoint, IsInit
<1>7. Covered(M.linked, M.pages)
  <2> SUFFICES ASSUME NEW p \in Page
               PROVE  \E b \in M.linked : b <= p /\ p < b + M.pages[b]
    BY DEF Covered
  <2>1. p \in Nat /\ p < NrPages
    BY NrPagesNat DEF Page
  <2>2. CASE p < f2
    BY <2>1, <2>2, <1>1, <1>2 DEF IsInit
  <2>3. CASE f2 <= p /\ p < f3
    BY <2>1, <2>3, <1>1, <1>2 DEF IsInit
  <2>4. CASE f3 <= p /\ p < f4
    BY <2>1, <2>4, <1>1, <1>2 DEF IsInit
  <2>5. CASE f4 <= p
    BY <2>1, <2>5, <1>1, <1>2, NrPagesNat, SMTT(30) DEF IsInit
  <2> QED BY <2>1, <2>2, <2>3, <2>4, <2>5, <1>1
<1>8. Shape(M)
  BY <1>2, <1>5, <1>6, <1>7 DEF Shape, Ring, IsInit
<1>9. Maximal(M)
  BY <1>1, <1>2 DEF Maximal, HoleAfter, IsInit
<1>10. Stale(M) /\ Kept(M)
  BY <1>2, <1>3 DEF Stale, Kept, IsInit
<1> QED BY <1>4, <1>8, <1>9, <1>10 DEF WellFormed, M

-----------------------------------------------------------------------------
(***************************************************************************)
(* IInv is an invariant.                                                   *)
(***************************************************************************)
\* A non-empty set of natural numbers has a least element.
LEMMA LowestExists ==
    ASSUME NEW S \in SUBSET Nat, S # {}
    PROVE  \E x \in S : \A y \in S : x <= y
<1>1. IsWellFoundedOn(OpToRel(<, Nat), Nat)
  BY NatLessThanWellFounded, Zenon
<1>2. PICK x \in S : \A y \in S : ~(<<y, x>> \in OpToRel(<, Nat))
  BY <1>1, WFMin, Zenon
<1>3. \A y \in S : ~(y < x)
  BY <1>2, ZenonT(30) DEF OpToRel
<1> QED BY <1>3

\* The first-fit search of __alloc_physmem_block returns a hole that is large
\* enough, and the lowest one.
LEMMA FirstFitFits ==
    ASSUME NEW M, Shape(M), NEW n, Holes(M, n) # {}
    PROVE  /\ FirstFit(M, n) \in Holes(M, n)
           /\ \A c \in Holes(M, n) : FirstFit(M, n) <= c
<1>1. Holes(M, n) \subseteq Nat
  BY ShapeBlock DEF Holes
<1>2. \E b \in Holes(M, n) : \A c \in Holes(M, n) : b <= c
  BY <1>1, LowestExists
<1> QED BY <1>2 DEF FirstFit

\* __alloc_physmem_block keeps the invariant.
LEMMA AllocStep ==
    ASSUME IInv, NEW n \in 1..MaxRequest, Alloc(n)
    PROVE  IInv'
<1>1. /\ stopped = "no" /\ stopped' = "no" /\ Defined /\ Defined'
      /\ WellFormed(mm) /\ n \in Nat /\ 0 < n
  BY SizesAssumption DEF IInv, Alloc, Defined
<1>2. CASE Holes(mm, n) = {} /\ mm' = mm /\ Answer("alloc", 0, n, 0, "E_NOMEM")
  <2>1. 0 \in Page
    BY <1>1, ShapeTypes DEF WellFormed, Ring
  <2>2. reply'.n = n
    BY <1>2 DEF Answer
  <2>3. TypeOK'
    BY <1>1, <1>2, <2>1 DEF IInv, TypeOK, Answer, Results
  <2> QED BY <1>1, <1>2, <2>2, <2>3 DEF IInv
<1>3. CASE /\ Holes(mm, n) # {}
           /\ mm' = alloc_block(mm, FirstFit(mm, n), n)
           /\ Answer("alloc", FirstFit(mm, n), n, 0, "S_OK")
  <2>1. FirstFit(mm, n) \in Holes(mm, n)
    BY <1>1, <1>3, FirstFitFits DEF WellFormed
  <2>2. WellFormed(mm')
    BY <2>1, <1>1, <1>3, AllocWellFormed, SMTT(30)
  <2>3. FirstFit(mm, n) \in Page
    BY <2>1, <1>1, ShapeBlock DEF Holes, WellFormed
  <2>4. TypeOK'
    BY <2>2, <2>3, <1>1, <1>3 DEF TypeOK, Answer, Results, WellFormed, Shape
  <2> QED BY <2>2, <2>4, <1>1, <1>3 DEF IInv, Answer
<1> QED BY <1>2, <1>3 DEF Alloc

\* free_physmem_block keeps the invariant.
LEMMA FreeStep ==
    ASSUME IInv, NEW b \in Page, Free(b)
    PROVE  IInv'
<1>1. stopped = "no" /\ Defined /\ WellFormed(mm) /\ TypeOK /\ b \in Callers
  BY DEF IInv, Free, Defined
<1>2. CASE mm' = mm /\ stopped' = "panic" /\ Answer("free", b, 0, 0, "none")
  BY <1>1, <1>2 DEF IInv, TypeOK, Answer, Results, Defined
<1>3. CASE UNCHANGED <<mm, stopped>> /\ Answer("free", b, 0, 0, "E_FAIL")
  BY <1>1, <1>3 DEF IInv, TypeOK, Answer, Results, Defined
<1>4. CASE /\ ~mm.available[b] /\ mm' = free_block(mm, b) /\ stopped' = stopped
           /\ Answer("free", b, 0, 0, "S_OK")
  <2>1. b \in mm.linked /\ b \notin Reserved
    BY <1>1, <1>4 DEF Callers, Allocated
  <2>2. WellFormed(mm')
    BY <2>1, <1>1, <1>4, FreeWellFormed
  <2>3. TypeOK'
    BY <2>2, <1>1, <1>4 DEF TypeOK, Answer, Results, WellFormed, Shape
  <2> QED BY <2>2, <2>3, <1>4 DEF IInv, Answer
<1> QED BY <1>2, <1>3, <1>4 DEF Free

\* realloc_physmem_block keeps the invariant, branch by branch.
LEMMA ReallocStep ==
    ASSUME IInv, NEW b \in Page, NEW n \in 1..MaxRequest, Realloc(b, n)
    PROVE  IInv'
<1>1. /\ stopped = "no" /\ Defined /\ WellFormed(mm) /\ TypeOK /\ b \in Callers
      /\ n \in Nat /\ 0 < n
  BY SizesAssumption DEF IInv, Realloc, Defined
<1>2. mm \in Descriptors /\ mm.pages[b] \in Nat
  BY <1>1 DEF TypeOK, Descriptors
<1>3. CASE ReallocRefused(b, n)
  BY <1>1, <1>3 DEF ReallocRefused, IInv, TypeOK, Answer, Results, Defined
<1>a. ASSUME ~mm.available[b] PROVE b \in mm.linked /\ b \notin Reserved
  BY <1>a, <1>1 DEF Callers, Allocated
<1>4. ASSUME NEW c \in Page, NEW k \in Nat, NEW r \in Results \ {"E_NOMEM"},
             Answer("realloc", c, n, k, r), WellFormed(mm'),
             stopped' \in {"no", "panic"}
      PROVE  IInv'
  <2>1. TypeOK'
    BY <1>1, <1>4 DEF TypeOK, Answer, WellFormed, Shape, Results
  <2> QED BY <2>1, <1>4 DEF IInv, Answer
<1>5. CASE ReallocShrink(b, n)
  <2>1. /\ ~mm.available[b] /\ n < mm.pages[b] /\ stopped' = "no"
        /\ Answer("realloc", b, n, mm.pages[b], "S_OK")
    BY <1>1, <1>5 DEF ReallocShrink
  <2>2. b \in mm.linked /\ Shape(mm)
    BY <1>a, <1>1, <2>1 DEF WellFormed
  <2>3. CASE HoleAfter(mm, b)
    <3>1. /\ mm.next[b] \in mm.linked
      BY <2>2, ShapeBlock
    <3>2. mm.pages[mm.next[b]] \in Nat
      BY <3>1, <2>2, ShapeBlock, SMTT(30)
    <3>3. n < mm.pages[b] + mm.pages[mm.next[b]] /\ n # mm.pages[b]
      BY <3>2, <2>1, <1>1, <1>2
    <3>4. mm' = move_boundary(mm, b, n)
      BY <1>5, <2>3 DEF ReallocShrink
    <3>5. WellFormed(mm')
      BY <3>3, <3>4, <2>1, <2>2, <2>3, <1>1, MoveWellFormed, SMTT(30)
    <3> QED BY <3>5, <2>1, <1>2, <1>4 DEF Results
  <2>4. CASE ~HoleAfter(mm, b)
    <3>1. mm' = cut_block(mm, b, n)
      BY <1>5, <2>4 DEF ReallocShrink
    <3>2. IsCut(mm, b, n, mm')
      BY <3>1, <2>1, <2>2, <1>1, CutIsCut
    <3>3. WellFormed(mm')
      BY <3>2, <2>1, <2>2, <2>4, <1>1, CutWellFormed
    <3> QED BY <3>3, <2>1, <1>2, <1>4 DEF Results
  <2> QED BY <2>3, <2>4
<1>6. CASE ReallocInPlace(b, n)
  <2>1. /\ ~mm.available[b] /\ Answer("realloc", b, n, mm.pages[b], "S_OK")
    BY <1>6 DEF ReallocInPlace
  <2>2. b \in mm.linked /\ Shape(mm)
    BY <1>a, <1>1, <2>1 DEF WellFormed
  <2>3. CASE UNCHANGED <<mm, stopped>>
    BY <2>1, <2>3, <1>1, <1>2, <1>4 DEF Results
  <2>4. CASE /\ n > mm.pages[b] /\ RoomAfter(b, n)
             /\ mm.pages[mm.next[b]] > n - mm.pages[b]
             /\ mm' = move_boundary(mm, b, n) /\ stopped' = stopped
    <3>1. mm.next[b] \in mm.linked /\ HoleAfter(mm, b)
      BY <2>2, <2>4, ShapeBlock DEF RoomAfter
    <3>2. mm.pages[mm.next[b]] \in Nat
      BY <3>1, <2>2, ShapeBlock, SMTT(30)
    <3>3. n < mm.pages[b] + mm.pages[mm.next[b]] /\ n # mm.pages[b]
      BY <3>2, <2>4, <1>1, <1>2
    <3>4. WellFormed(mm')
      BY <3>1, <3>3, <2>1, <2>2, <2>4, <1>1, MoveWellFormed, SMTT(30)
    <3> QED BY <3>4, <2>1, <2>4, <1>1, <1>2, <1>4, SMTT(30) DEF Results
  <2>5. CASE /\ \E h \in Page \cup {NULL} : mm' = swallow_hole(mm, b, n, h)
             /\ stopped' = "undefined"
    <3>1. PICK h \in Page \cup {NULL} : mm' = swallow_hole(mm, b, n, h)
      BY <2>5
    <3> DEFINE R == IF h \in Page THEN list_remove(mm, h) ELSE mm
    <3>2. R \in Descriptors
      <4>1. ASSUME h \in Page PROVE mm.prev[h] \in Page /\ mm.next[h] \in Page
        BY <4>1, <1>2 DEF Descriptors
      <4> QED BY <4>1, <1>2, Zenon DEF list_remove, Descriptors
    <3>3. mm' = [R EXCEPT !.pages[b] = n, !.linked = @ \ {h}]
      BY <3>1 DEF swallow_hole
    <3> HIDE DEF R
    <3>4. mm' \in Descriptors
      BY <3>2, <3>3, <1>1, ZenonT(30) DEF Descriptors
    <3>5. TypeOK'
      BY <3>4, <2>1, <2>5, <1>1, <1>2, SMTT(30) DEF TypeOK, Answer, Results
    <3> QED BY <3>5, <2>1, <2>5 DEF IInv, Defined, Answer
  <2> QED BY <1>6, <2>3, <2>4, <2>5 DEF ReallocInPlace
<1>7. CASE ReallocMove(b, n)
  <2>1. ~mm.available[b] /\ b \in mm.linked /\ b \notin Reserved /\ Shape(mm)
    BY <1>7, <1>a, <1>1, ZenonT(30) DEF ReallocMove, WellFormed
  <2>2. CASE /\ Holes(mm, n) = {} /\ UNCHANGED <<mm, stopped>>
             /\ Answer("realloc", b, n, mm.pages[b], "E_NOMEM")
    BY <2>2, <1>1, <1>2, SMTT(30) DEF IInv, TypeOK, Answer, Results, Defined
  <2>3. CASE Holes(mm, n) # {}
    <3> DEFINE c == FirstFit(mm, n)
               A == alloc_block(mm, c, n)
    <3>1. c \in Holes(mm, n)
      BY <2>1, <2>3, FirstFitFits, SMTT(30)
    <3>2. c \in mm.linked /\ c \in Page /\ mm.available[c]
      BY <3>1, <2>1, ShapeBlock, SMTT(30) DEF Holes
    <3>3. WellFormed(A) /\ b \in A.linked /\ A.available[b] = mm.available[b]
      BY <3>1, <3>2, <2>1, <1>1, AllocWellFormed, SMTT(30)
    <3>4. /\ IF b >= NrPages - 1
             THEN mm' = A /\ stopped' = "panic"
             ELSE mm' = free_block(A, b) /\ stopped' = stopped
          /\ Answer("realloc", c, n, mm.pages[b], "S_OK")
      BY <1>7, <2>3, SMTT(30) DEF ReallocMove
    <3> HIDE DEF A, c
    <3>5. WellFormed(free_block(A, b))
      BY <3>3, <2>1, FreeWellFormed
    <3>6. WellFormed(mm') /\ stopped' \in {"no", "panic"}
      BY <3>3, <3>4, <3>5, <1>1
    <3> QED BY <3>2, <3>4, <3>6, <1>2, <1>4 DEF Results
  <2> QED BY <1>7, <2>2, <2>3, SMTT(30) DEF ReallocMove
<1> QED BY <1>3, <1>5, <1>6, <1>7 DEF Realloc

\* The inductive invariant holds throughout, for every aligned layout: whatever
\* alloc_physmem_block, free_physmem_block and realloc_physmem_block are called
\* with, the descriptors stay a ring of blocks that tiles memory, until the
\* undefined list_remove of physmem.c:302 is executed.
THEOREM Invariance ==
    ASSUME AlignedLayout
    PROVE  Spec => []IInv
<1>1. Init => IInv
  <2> SUFFICES ASSUME Init PROVE IInv
    OBVIOUS
  <2>1. WellFormed(mm) /\ 0 \in Page
    BY InitWellFormed DEF Init
  <2>2. TypeOK
    BY <2>1 DEF Init, TypeOK, NoReply, Results, WellFormed, Shape
  <2> QED BY <2>1, <2>2 DEF Init, IInv, NoReply
<1>2. IInv /\ [Next]_vars => IInv'
  <2> SUFFICES ASSUME IInv, [Next]_vars PROVE IInv'
    OBVIOUS
  <2>1. ASSUME NEW n \in 1..MaxRequest, Alloc(n) PROVE IInv'
    BY <2>1, AllocStep
  <2>2. ASSUME NEW b \in Page, Free(b) PROVE IInv'
    BY <2>2, FreeStep
  <2>3. ASSUME NEW b \in Page, NEW n \in 1..MaxRequest, Realloc(b, n) PROVE IInv'
    BY <2>3, ReallocStep, SMTT(30)
  <2>4. CASE UNCHANGED vars
    BY <2>4, ZenonT(30)
       DEF vars, IInv, TypeOK, Defined, WellFormed, Shape, Ring, BlockOK,
                Disjoint, Covered, Maximal, HoleAfter, Stale, Kept, Holes
  <2> QED BY <2>1, <2>2, <2>3, <2>4 DEF Next, Stopped
<1> QED BY <1>1, <1>2, PTL DEF Spec

\* The descriptors keep their types, and head stays a descriptor or NULL.
THEOREM TypeCorrect ==
    ASSUME AlignedLayout
    PROVE  Spec => []TypeOK
<1>1. IInv => TypeOK
  BY DEF IInv
<1> QED BY <1>1, Invariance, PTL

\* Every page of memory belongs to exactly one block of block_list_head: none
\* is lost and none has two owners.
THEOREM Tiling ==
    ASSUME AlignedLayout
    PROVE  Spec => []BlocksTile
<1>1. IInv => BlocksTile
  <2> SUFFICES ASSUME IInv, Defined, NEW p \in Page
               PROVE  /\ \E b \in mm.linked : p \in Span(b, mm.pages[b])
                      /\ \A b, c \in mm.linked :
                            p \in Span(b, mm.pages[b]) \cap Span(c, mm.pages[c])
                            => b = c
    BY DEF BlocksTile
  <2>1. Shape(mm)
    BY DEF IInv, WellFormed
  <2>2. \A b \in mm.linked : b \in Nat /\ mm.pages[b] \in Nat
    BY <2>1, ShapeBlock
  <2>3. Covered(mm.linked, mm.pages) /\ Disjoint(mm.linked, mm.pages) /\ p \in Nat
    BY <2>1 DEF Shape, Ring, Page
  <2>4. PICK b \in mm.linked : b <= p /\ p < b + mm.pages[b]
    BY <2>3 DEF Covered
  <2>5. p \in Span(b, mm.pages[b])
    BY <2>2, <2>3, <2>4 DEF Span
  <2>6. ASSUME NEW c \in mm.linked, NEW d \in mm.linked,
               p \in Span(c, mm.pages[c]), p \in Span(d, mm.pages[d])
        PROVE  c = d
    <3>1. /\ c <= p /\ p < c + mm.pages[c] /\ d <= p /\ p < d + mm.pages[d]
          /\ c \in Nat /\ d \in Nat /\ mm.pages[c] \in Nat /\ mm.pages[d] \in Nat
      BY <2>2, <2>3, <2>6 DEF Span
    <3>2. ~(c < d) /\ ~(d < c)
      BY <3>1, <2>3 DEF Disjoint
    <3> QED BY <3>1, <3>2
  <2> QED BY <2>5, <2>6
<1> QED BY <1>1, Invariance, PTL

\* No two holes are neighbours: the merges of free_physmem_block and the cuts
\* of the other operations leave the holes as large as they can be.
THEOREM HolesMaximal ==
    ASSUME AlignedLayout
    PROVE  Spec => []HolesAreMaximal
<1>1. IInv => HolesAreMaximal
  BY DEF IInv, WellFormed, Maximal, HolesAreMaximal
<1> QED BY <1>1, Invariance, PTL

\* Freeing an address twice is always refused with -E_FAIL, because a
\* descriptor that left the list still reads as available.
THEOREM StaleDescriptors ==
    ASSUME AlignedLayout
    PROVE  Spec => []StaleIsAvailable
<1>1. IInv => StaleIsAvailable
  BY DEF IInv, WellFormed, Stale, StaleIsAvailable
<1> QED BY <1>1, Invariance, PTL

\* -E_NOMEM is honest: when a request is refused, no run of free pages of that
\* length exists anywhere in memory.
THEOREM NomemIsHonest ==
    ASSUME AlignedLayout
    PROVE  Spec => []NomemMeansNoRoom
<1>1. IInv => NomemMeansNoRoom
  <2> SUFFICES ASSUME IInv, Defined, reply.res = "E_NOMEM", NEW b \in Page,
                      b + reply.n <= NrPages
               PROVE  \E p \in Span(b, reply.n) : ~FreePage(p)
    BY DEF NomemMeansNoRoom
  <2> DEFINE n == reply.n
  <2>1. /\ Shape(mm) /\ Maximal(mm) /\ Holes(mm, n) = {} /\ n > 0 /\ n \in Nat
        /\ b \in Nat
    BY DEF IInv, WellFormed, TypeOK, Page
  <2> HIDE DEF n
  <2>2. PICK c \in mm.linked : c <= b /\ b < c + mm.pages[c]
    BY <2>1 DEF Shape, Ring, Covered
  <2>3. /\ c \in Nat /\ mm.pages[c] \in Nat /\ mm.next[c] \in mm.linked
        /\ mm.next[c] = IF c + mm.pages[c] = NrPages THEN 0 ELSE c + mm.pages[c]
    BY <2>1, ShapeBlock
  <2>4. CASE ~mm.available[c]
    <3>1. b \in Span(c, mm.pages[c]) /\ b \in Span(b, n)
      BY <2>1, <2>2, <2>3 DEF Span
    <3> QED BY <3>1, <2>4 DEF FreePage, n
  <2>5. CASE mm.available[c]
    <3> DEFINE e == c + mm.pages[c]
    <3>1. mm.pages[c] < n
      BY <2>1, <2>3, <2>5 DEF Holes
    <3>2. e < NrPages /\ c < e /\ e \in Nat /\ e < b + n /\ b < e
      BY <3>1, <2>1, <2>2, <2>3, NrPagesNat, SMTT(30) DEF n
    <3>3. mm.next[c] = e /\ e \in mm.linked
      BY <3>2, <2>3, NrPagesNat
    <3> HIDE DEF e
    <3>4. ~mm.available[e]
      BY <3>2, <3>3, <2>1, <2>5 DEF Maximal, HoleAfter
    <3>5. mm.pages[e] \in Nat /\ mm.pages[e] > 0
      BY <3>3, <2>1, ShapeBlock
    <3>6. e \in Span(e, mm.pages[e]) /\ e \in Span(b, n)
      BY <3>2, <3>5, <2>1 DEF Span
    <3> QED BY <3>3, <3>4, <3>6 DEF FreePage, n
  <2> QED BY <2>4, <2>5
<1> QED BY <1>1, Invariance, PTL

-----------------------------------------------------------------------------
(***************************************************************************)
(* The allocator implements PageMap.  The mapped state is the owners, and  *)
(* the free pages, which are the pages of the holes.                       *)
(***************************************************************************)
\* The two blocks that are never given out keep the pages of their segments.
Sized(M) == \A i \in {1, 3} : M.pages[First(i)] = Past(i) - First(i)

Owner(M) == [b \in Allocated(M) |-> M.pages[b]]

HolePages(M) ==
    {p \in Page : \E h \in M.linked : /\ M.available[h]
                                      /\ h <= p /\ p < h + M.pages[h]}

\* Giving pages to a block that is not reserved is Give on the map.
LEMMA OwnerGives ==
    ASSUME NEW M, NEW b, NEW n, NEW A, Kept(M), Sized(M), b \notin Reserved,
           Gives(M, b, n, A)
    PROVE  Sized(A) /\ Owner(A) = Abstract!Give(Owner(M), b, n)
<1>1. \A i \in {1, 3} : First(i) \in Busy(M) /\ First(i) # b
  BY DEF Kept, Reserved, Busy
<1>2. Sized(A)
  BY <1>1 DEF Sized, Gives
<1>3. Allocated(A) = Allocated(M) \cup {b}
  BY DEF Gives, Busy, Allocated
<1>4. \A x \in Allocated(A) : A.pages[x] = IF x = b THEN n ELSE M.pages[x]
  BY <1>3 DEF Gives, Busy, Allocated
<1>5. DOMAIN Owner(M) = Allocated(M) /\ \A x \in Allocated(M) : Owner(M)[x] = M.pages[x]
  BY DEF Owner
<1>6. Abstract!Give(Owner(M), b, n) =
         [x \in Allocated(M) \cup {b} |-> IF x = b THEN n ELSE Owner(M)[x]]
  BY <1>5 DEF Abstract!Give
<1> QED BY <1>2, <1>3, <1>4, <1>5, <1>6 DEF Owner

\* Taking away a block that is not reserved is Take on the map.
LEMMA OwnerTakes ==
    ASSUME NEW M, NEW b, NEW F, Kept(M), Sized(M), b \notin Reserved,
           Takes(M, b, F)
    PROVE  Sized(F) /\ Owner(F) = Abstract!Take(Owner(M), b)
<1>1. \A i \in {1, 3} : First(i) \in Busy(M) /\ First(i) # b
  BY DEF Kept, Reserved, Busy
<1>2. Sized(F)
  BY <1>1 DEF Sized, Takes
<1>3. Allocated(F) = Allocated(M) \ {b}
  BY DEF Takes, Busy, Allocated
<1>4. \A x \in Allocated(F) : F.pages[x] = M.pages[x]
  BY DEF Takes, Busy, Allocated
<1>5. DOMAIN Owner(M) = Allocated(M) /\ \A x \in Allocated(M) : Owner(M)[x] = M.pages[x]
  BY DEF Owner
<1>6. Abstract!Take(Owner(M), b) = [x \in Allocated(M) \ {b} |-> Owner(M)[x]]
  BY <1>5 DEF Abstract!Take
<1> QED BY <1>2, <1>3, <1>4, <1>5, <1>6 DEF Owner

\* Every page is in one block, so it is in no other.
LEMMA PageBlock ==
    ASSUME NEW M, Shape(M), NEW p \in Page
    PROVE  /\ \E b \in M.linked : b <= p /\ p < b + M.pages[b]
           /\ \A b, c \in M.linked :
                 /\ b <= p /\ p < b + M.pages[b]
                 /\ c <= p /\ p < c + M.pages[c]
                 => b = c
<1>1. Covered(M.linked, M.pages) /\ Disjoint(M.linked, M.pages) /\ p \in Nat
  BY DEF Shape, Ring, Page
<1>2. \A b \in M.linked : b \in Nat /\ M.pages[b] \in Nat
  BY ShapeBlock
<1>3. ASSUME NEW b \in M.linked, NEW c \in M.linked,
             b <= p, p < b + M.pages[b], c <= p, p < c + M.pages[c]
      PROVE  b = c
  <2>1. ~(b < c) /\ ~(c < b)
    BY <1>1, <1>2, <1>3 DEF Disjoint
  <2> QED BY <2>1, <1>2
<1> QED BY <1>1, <1>3 DEF Covered

\* The pages the map calls free are the pages of the holes.
LEMMA FreeIsHole ==
    ASSUME AlignedLayout, WellFormed(mm), Sized(mm)
    PROVE  Abstract!FreePages = HolePages(mm)
<1> DEFINE U == UNION {First(i)..(Past(i) - 1) : i \in {2, 4}}
           T == UNION {Abstract!Span(b, Owner(mm)[b]) : b \in DOMAIN Owner(mm)}
<1>1. Abstract!FreePages = U \ T
  BY DEF Abstract!FreePages, Owner
<1>2. /\ First(1) = 0 /\ First(2) \in Nat /\ First(3) \in Nat /\ First(4) \in Nat
      /\ 0 < First(2) /\ First(2) < First(3) /\ First(3) < First(4)
      /\ First(4) < NrPages
      /\ Past(1) = First(2) /\ Past(2) = First(3) /\ Past(3) = First(4)
      /\ Past(4) = NrPages
  BY LayoutFacts
<1>3. \A p : p \in U <=> p \in First(2)..(First(3) - 1) \/ p \in First(4)..(NrPages - 1)
  BY <1>2, ZenonT(30)
<1>4. \A p : p \in U => p \in Page
  BY <1>2, <1>3, NrPagesNat DEF Page
<1>5. Shape(mm) /\ Kept(mm)
  BY DEF WellFormed
<1>6. /\ First(1) \in mm.linked /\ ~mm.available[First(1)]
      /\ First(3) \in mm.linked /\ ~mm.available[First(3)]
  BY <1>5 DEF Kept, Reserved
<1>7. /\ mm.pages[First(1)] = First(2)
      /\ mm.pages[First(3)] = First(4) - First(3)
  BY <1>2 DEF Sized
<1>8. \A b \in mm.linked : b \in Nat /\ mm.pages[b] \in Nat
  BY <1>5, ShapeBlock
<1>9. \A p \in Page : p \in T <=> \E b \in Allocated(mm) :
                                     b <= p /\ p < b + mm.pages[b]
  <2>1. \A p : p \in T <=> \E b \in Allocated(mm) : p \in Abstract!Span(b, mm.pages[b])
    BY DEF Owner
  <2>2. ASSUME NEW p \in Page, NEW b \in Allocated(mm)
        PROVE  p \in Abstract!Span(b, mm.pages[b])
               <=> b <= p /\ p < b + mm.pages[b]
    BY <1>8 DEF Allocated, Page, Abstract!Span
  <2> HIDE DEF T
  <2> QED BY <2>1, <2>2
<1> HIDE DEF U, T
<1>10. ASSUME NEW p \in Page
       PROVE  p \in U \ T <=> p \in HolePages(mm)
  <2>1. PICK b \in mm.linked : b <= p /\ p < b + mm.pages[b]
    BY <1>5, PageBlock
  <2>2. \A c \in mm.linked : c <= p /\ p < c + mm.pages[c] => c = b
    BY <1>5, <2>1, PageBlock
  <2>3. p \in HolePages(mm) <=> mm.available[b]
    BY <2>1, <2>2 DEF HolePages
  <2>4. p \in T <=> b \in Allocated(mm)
    BY <1>9, <2>1, <2>2 DEF Allocated
  <2>5. p \in Nat /\ p < NrPages
    BY NrPagesNat DEF Page
  <2>6. p \in U <=> b \notin Reserved
    <3>1. p < First(2) <=> b = First(1)
      BY <1>2, <1>6, <1>7, <1>8, <2>1, <2>2, <2>5, SMTT(30)
    <3>2. First(3) <= p /\ p < First(4) <=> b = First(3)
      BY <1>2, <1>6, <1>7, <1>8, <2>1, <2>2, <2>5, SMTT(30)
    <3>3. p \in U <=> ~(p < First(2)) /\ ~(First(3) <= p /\ p < First(4))
      BY <1>2, <1>3, <2>5, NrPagesNat
    <3> QED BY <3>1, <3>2, <3>3, Zenon DEF Reserved
  <2>7. b \in Reserved => ~mm.available[b]
    BY <1>6 DEF Reserved
  <2> QED BY <2>1, <2>3, <2>4, <2>6, <2>7, Zenon DEF Allocated
<1> QED BY <1>1, <1>4, <1>10 DEF HolePages

\* A run of free pages lies in one hole, because two holes are never neighbours.
LEMMA RunInHole ==
    ASSUME NEW M, WellFormed(M), NEW c \in Nat, NEW m \in Nat, 0 < m,
           Span(c, m) \subseteq HolePages(M)
    PROVE  \E h \in M.linked : /\ M.available[h] /\ h <= c
                               /\ c + m <= h + M.pages[h]
<1>1. Shape(M) /\ Maximal(M)
  BY DEF WellFormed
<1>2. c \in HolePages(M)
  BY DEF Span
<1>3. PICK h \in M.linked : M.available[h] /\ h <= c /\ c < h + M.pages[h]
  BY <1>2, Zenon DEF HolePages
<1>4. /\ h \in Nat /\ M.pages[h] \in Nat /\ M.next[h] \in M.linked
      /\ M.next[h] = IF h + M.pages[h] = NrPages THEN 0 ELSE h + M.pages[h]
  BY <1>1, ShapeBlock
<1>5. SUFFICES ASSUME c + m > h + M.pages[h] PROVE FALSE
  BY <1>3, <1>4
<1> DEFINE e == h + M.pages[h]
<1>6. e \in Span(c, m) /\ e \in Nat /\ h < e
  BY <1>3, <1>4, <1>5 DEF Span
<1> HIDE DEF e
<1>7. e \in HolePages(M) /\ e \in Page /\ e < NrPages
  BY <1>6, NrPagesNat DEF HolePages, Page
<1>8. M.next[h] = e /\ e \in M.linked
  BY <1>4, <1>7, NrPagesNat DEF e
<1>9. ~M.available[e]
  BY <1>1, <1>3, <1>6, <1>8 DEF Maximal, HoleAfter
<1>10. PICK k \in M.linked : M.available[k] /\ k <= e /\ e < k + M.pages[k]
  BY <1>7 DEF HolePages
<1>11. M.pages[e] \in Nat /\ M.pages[e] > 0
  BY <1>1, <1>8, ShapeBlock, Zenon
<1>12. k = e
  BY <1>1, <1>6, <1>7, <1>8, <1>10, <1>11, PageBlock
<1> QED BY <1>9, <1>10, <1>12

\* The pages of a part of a hole are free.
LEMMA HoleIsRun ==
    ASSUME NEW M, Shape(M), NEW h \in M.linked, M.available[h],
           NEW c \in Nat, NEW m \in Int, h <= c, c + m <= h + M.pages[h]
    PROVE  Span(c, m) \subseteq HolePages(M)
<1>1. h \in Nat /\ M.pages[h] \in Nat /\ h + M.pages[h] <= NrPages
  BY ShapeBlock
<1>2. ASSUME NEW p \in Span(c, m) PROVE p \in HolePages(M)
  <2>1. p \in Int /\ c <= p /\ p < c + m
    BY DEF Span
  <2>2. p \in Page /\ h <= p /\ p < h + M.pages[h]
    BY <2>1, <1>1, NrPagesNat DEF Page
  <2> QED BY <2>2 DEF HolePages
<1> QED BY <1>2

\* The search finds a hole exactly when a run of n free pages exists, and the
\* first fit is the lowest such run.
LEMMA FirstFitLowest ==
    ASSUME AlignedLayout, WellFormed(mm), Sized(mm), NEW n \in Nat, 0 < n
    PROVE  /\ Holes(mm, n) = {} => Abstract!NoRoom(n)
           /\ Holes(mm, n) # {} => /\ FirstFit(mm, n) \in Page
                                   /\ Abstract!Lowest(n, FirstFit(mm, n))
<1>1. Abstract!FreePages = HolePages(mm) /\ Shape(mm)
  BY FreeIsHole DEF WellFormed
<1>2. \A c, m : Abstract!Span(c, m) = Span(c, m)
  BY DEF Abstract!Span, Span
<1>3. ASSUME NEW c \in Nat, Span(c, n) \subseteq HolePages(mm)
      PROVE  \E h \in Holes(mm, n) : h <= c
  <2>1. PICK h \in mm.linked : mm.available[h] /\ h <= c /\ c + n <= h + mm.pages[h]
    BY <1>3, RunInHole
  <2>2. h \in Nat /\ mm.pages[h] \in Nat
    BY <1>1, ShapeBlock
  <2>3. mm.pages[h] >= n
    BY <2>1, <2>2
  <2> QED BY <2>1, <2>3 DEF Holes
<1>4. ASSUME Holes(mm, n) = {} PROVE Abstract!NoRoom(n)
  <2>1. \A c \in Page : ~(Span(c, n) \subseteq HolePages(mm))
    BY <1>3, <1>4 DEF Page
  <2> QED BY <2>1, <1>1, <1>2 DEF Abstract!NoRoom, Abstract!Page, Page
<1>5. ASSUME Holes(mm, n) # {}
      PROVE  FirstFit(mm, n) \in Page /\ Abstract!Lowest(n, FirstFit(mm, n))
  <2> DEFINE b == FirstFit(mm, n)
  <2>1. b \in Holes(mm, n) /\ \A c \in Holes(mm, n) : b <= c
    BY <1>1, <1>5, FirstFitFits
  <2> HIDE DEF b
  <2>2. b \in mm.linked /\ mm.available[b] /\ mm.pages[b] >= n
    BY <2>1, Zenon DEF Holes
  <2>3. b \in Page /\ b \in Nat /\ mm.pages[b] \in Nat
    BY <2>2, <1>1, ShapeBlock
  <2>4. b + n <= b + mm.pages[b] /\ b <= b
    BY <2>2, <2>3
  <2>5. Span(b, n) \subseteq HolePages(mm)
    BY <2>2, <2>3, <2>4, <1>1, HoleIsRun
  <2>6. ASSUME NEW c \in 0..(b - 1), Span(c, n) \subseteq HolePages(mm)
        PROVE  FALSE
    <3>1. c \in Nat /\ c < b
      BY <2>3
    <3>2. PICK h \in Holes(mm, n) : h <= c
      BY <3>1, <2>6, <1>3, Zenon
    <3>3. h \in Nat
      BY <1>1, ShapeBlock DEF Holes
    <3> QED BY <3>1, <3>2, <3>3, <2>1, <2>3
  <2> QED BY <2>3, <2>5, <2>6, <1>1, <1>2, Zenon DEF Abstract!Lowest, b
<1> QED BY <1>4, <1>5

\* IInv and the sizes of the reserved blocks: what the simulation needs.
RInv == IInv /\ (Defined => Sized(mm))

\* __alloc_physmem_block is Alloc of the map.
LEMMA AllocImplements ==
    ASSUME AlignedLayout, RInv, NEW n \in 1..MaxRequest, Alloc(n)
    PROVE  Sized(mm') /\ Abstract!Alloc(n)
<1>1. /\ stopped = "no" /\ stopped' = stopped /\ WellFormed(mm) /\ Sized(mm)
      /\ n \in Nat /\ 0 < n
  BY SizesAssumption, SMTT(30) DEF RInv, IInv, Alloc, Defined
<1>2. CASE Holes(mm, n) = {} /\ mm' = mm /\ Answer("alloc", 0, n, 0, "E_NOMEM")
  <2>1. Abstract!NoRoom(n)
    BY <1>1, <1>2, FirstFitLowest, Zenon
  <2> QED BY <2>1, <1>1, <1>2 DEF Abstract!Alloc, Abstract!Answer, Answer
<1>3. CASE /\ Holes(mm, n) # {}
           /\ mm' = alloc_block(mm, FirstFit(mm, n), n)
           /\ Answer("alloc", FirstFit(mm, n), n, 0, "S_OK")
  <2> DEFINE b == FirstFit(mm, n)
  <2>1. b \in Page /\ Abstract!Lowest(n, b)
    BY <1>1, <1>3, FirstFitLowest, Zenon
  <2>2. b \in Holes(mm, n)
    BY <1>1, <1>3, FirstFitFits, Zenon DEF WellFormed
  <2>3. Gives(mm, b, n, mm')
    BY <1>1, <1>3, <2>2, AllocGives, Zenon
  <2>4. Kept(mm) /\ b \notin Reserved
    BY <1>1, <2>2 DEF WellFormed, Kept, Holes
  <2> HIDE DEF b
  <2>5. Sized(mm') /\ Owner(mm') = Abstract!Give(Owner(mm), b, n)
    BY <1>1, <2>3, <2>4, OwnerGives, Zenon
  <2>6. Answer("alloc", b, n, 0, "S_OK")
    BY <1>3 DEF b
  <2> QED BY <2>1, <2>5, <2>6, <1>1, Zenon
          DEF Abstract!Alloc, Abstract!Answer, Answer, Abstract!Page, Page, Owner
<1> QED BY <1>2, <1>3 DEF Alloc

\* free_physmem_block is Free of the map.
LEMMA FreeImplements ==
    ASSUME AlignedLayout, RInv, NEW b \in Page, Free(b)
    PROVE  Sized(mm') /\ Abstract!Free(b)
<1>1. /\ stopped = "no" /\ WellFormed(mm) /\ Sized(mm) /\ b \in Callers
      /\ b \in Nat /\ b <= NrPages - 1
  BY NrPagesNat DEF RInv, IInv, Free, Defined, Page
<1>2. CASE b >= NrPages - 1 /\ mm' = mm /\ stopped' = "panic"
  <2>1. b = NrPages - 1
    BY <1>1, <1>2, NrPagesNat, SMTT(30)
  <2> QED BY <2>1, <1>1, <1>2 DEF Abstract!Free
<1>3. CASE /\ b < NrPages - 1 /\ mm.available[b] /\ UNCHANGED <<mm, stopped>>
           /\ Answer("free", b, 0, 0, "E_FAIL")
  <2>1. b \notin Allocated(mm)
    BY <1>3, Zenon DEF Allocated
  <2> QED BY <2>1, <1>1, <1>3, Zenon DEF Abstract!Free, Abstract!Answer, Answer
<1>4. CASE /\ b < NrPages - 1 /\ ~mm.available[b] /\ mm' = free_block(mm, b)
           /\ stopped' = stopped /\ Answer("free", b, 0, 0, "S_OK")
  <2>1. b \in Allocated(mm) /\ b \in Busy(mm) /\ b \notin Reserved /\ Kept(mm)
    BY <1>1, <1>4, Zenon DEF Callers, Allocated, Busy, WellFormed
  <2>2. Takes(mm, b, mm')
    BY <2>1, <1>1, <1>4, FreeTakes, Zenon
  <2>3. Sized(mm') /\ Owner(mm') = Abstract!Take(Owner(mm), b)
    BY <2>1, <2>2, <1>1, OwnerTakes, Zenon
  <2> QED BY <2>1, <2>3, <1>4, Zenon DEF Abstract!Free, Abstract!Answer, Answer, Owner
<1> QED BY <1>2, <1>3, <1>4, Zenon DEF Free

\* The pages after a block are free, as far as the block wants to grow, exactly
\* when realloc_physmem_block finds room there (physmem.c:291-292); and there is
\* a free page after them exactly when the hole is longer than that.
LEMMA GrowthRoom ==
    ASSUME AlignedLayout, WellFormed(mm), Sized(mm), NEW b \in Allocated(mm),
           NEW n \in Nat
    PROVE  /\ n <= mm.pages[b] => Abstract!Growth(b, n) \subseteq Abstract!FreePages
           /\ n > mm.pages[b] =>
                 (RoomAfter(b, n)
                  <=> Abstract!Growth(b, n) \subseteq Abstract!FreePages)
           /\ n > mm.pages[b] /\ RoomAfter(b, n) =>
                 (mm.pages[mm.next[b]] > n - mm.pages[b]
                  <=> b + n \in Abstract!FreePages)
<1> DEFINE w == mm.pages[b]
           e == b + w
<1>1. Abstract!FreePages = HolePages(mm) /\ Shape(mm) /\ Maximal(mm)
  BY FreeIsHole DEF WellFormed
<1>2. Abstract!Growth(b, n) = Span(e, n - w)
  BY Zenon DEF Abstract!Growth, Abstract!Span, Span
<1>3. /\ b \in mm.linked /\ b \in Nat /\ w \in Nat /\ w > 0
      /\ mm.next[b] \in mm.linked
      /\ mm.next[b] = IF e = NrPages THEN 0 ELSE e
  BY <1>1, ShapeBlock, Zenon DEF Allocated
<1>4. e \in Nat /\ b < e
  BY <1>3
<1> HIDE DEF w, e
<1>5. ASSUME n <= w PROVE Span(e, n - w) \subseteq HolePages(mm)
  BY <1>3, <1>4, <1>5, SMTT(30) DEF Span
<1>6. ASSUME HoleAfter(mm, b)
      PROVE  /\ mm.next[b] = e /\ e \in mm.linked /\ mm.available[e]
             /\ mm.pages[e] \in Nat /\ mm.pages[e] > 0
             /\ mm.next[e] \in mm.linked
             /\ mm.next[e] = IF e + mm.pages[e] = NrPages THEN 0
                             ELSE e + mm.pages[e]
  <2>1. mm.next[b] = e
    BY <1>3, <1>6 DEF HoleAfter
  <2>2. e \in mm.linked /\ mm.available[e]
    BY <2>1, <1>3, <1>6, Zenon DEF HoleAfter
  <2> QED BY <2>1, <2>2, <1>1, ShapeBlock, Zenon
<1>7. ASSUME n > w, RoomAfter(b, n) PROVE Span(e, n - w) \subseteq HolePages(mm)
  <2>1. HoleAfter(mm, b) /\ mm.pages[e] >= n - w
    BY <1>6, <1>7, Zenon DEF RoomAfter, w
  <2>2. e <= e /\ e + (n - w) <= e + mm.pages[e] /\ n - w \in Int
    BY <2>1, <1>3, <1>4, <1>6, SMTT(30)
  <2> QED BY <2>1, <2>2, <1>1, <1>4, <1>6, HoleIsRun, Zenon
<1>8. ASSUME n > w, Span(e, n - w) \subseteq HolePages(mm) PROVE RoomAfter(b, n)
  <2>1. n - w \in Nat /\ 0 < n - w /\ e \in Span(e, n - w)
    BY <1>3, <1>4, <1>8, SMTT(30) DEF Span
  <2>2. PICK h \in mm.linked : /\ mm.available[h] /\ h <= e
                               /\ e + (n - w) <= h + mm.pages[h]
    BY <2>1, <1>4, <1>8, RunInHole, Zenon
  <2>3. e \in Page /\ e # NrPages
    BY <2>1, <1>8, NrPagesNat DEF HolePages, Page
  <2>4. mm.next[b] = e /\ e \in mm.linked
    BY <2>3, <1>3, Zenon
  <2>5. mm.pages[e] \in Nat /\ mm.pages[e] > 0 /\ h \in Nat /\ mm.pages[h] \in Nat
    BY <2>4, <1>1, ShapeBlock, Zenon
  <2>6. h <= e /\ e < h + mm.pages[h] /\ e <= e /\ e < e + mm.pages[e]
    BY <2>1, <2>2, <2>5, <1>4, SMTT(30)
  <2>7. h = e
    BY <2>3, <2>4, <2>6, <1>1, PageBlock, Zenon
  <2>8. mm.pages[e] >= n - w
    BY <2>1, <2>2, <2>5, <2>7, <1>4, SMTT(30)
  <2> QED BY <2>2, <2>4, <2>7, <2>8, <1>4, Zenon DEF RoomAfter, HoleAfter, w
<1>9. ASSUME n > w, RoomAfter(b, n)
      PROVE  mm.pages[mm.next[b]] > n - w <=> b + n \in HolePages(mm)
  <2>1. HoleAfter(mm, b) /\ mm.pages[e] >= n - w
    BY <1>6, <1>9 DEF RoomAfter, w
  <2> DEFINE f == e + mm.pages[e]
  <2>2. f \in Nat /\ e < f /\ b + n = e + (n - w)
    BY <2>1, <1>3, <1>4, <1>6, SMTT(30) DEF e
  <2>3. CASE mm.pages[e] > n - w
    <3>1. Span(b + n, 1) \subseteq HolePages(mm)
      <4>1. b + n \in Nat /\ e <= b + n /\ b + n + 1 <= e + mm.pages[e]
        BY <2>1, <2>2, <2>3, <1>3, <1>4, <1>6, <1>9, SMTT(30)
      <4> QED BY <4>1, <2>1, <1>1, <1>6, HoleIsRun, SMTT(30)
    <3>2. b + n \in Span(b + n, 1)
      BY <1>3 DEF Span
    <3> QED BY <3>1, <3>2, <2>1, <2>3, <1>6, Zenon
  <2>4. CASE ~(mm.pages[e] > n - w)
    <3>1. b + n = f
      BY <2>1, <2>2, <2>4, <1>3, <1>4, <1>6, SMTT(30)
    <3> HIDE DEF f
    <3>2. ASSUME f \in HolePages(mm) PROVE FALSE
      <4>1. f \in Page /\ f # NrPages
        BY <3>2, NrPagesNat, SMTT(30) DEF HolePages, Page
      <4>2. mm.next[e] = f /\ f \in mm.linked
        BY <4>1, <2>1, <1>6, Zenon DEF f
      <4>3. ~mm.available[f]
        BY <4>2, <2>1, <2>2, <1>1, <1>6, Zenon DEF Maximal, HoleAfter
      <4>4. PICK k \in mm.linked : mm.available[k] /\ k <= f /\ f < k + mm.pages[k]
        BY <3>2, Zenon DEF HolePages
      <4>5. mm.pages[f] \in Nat /\ mm.pages[f] > 0
        BY <4>2, <1>1, ShapeBlock, Zenon
      <4>6. f <= f /\ f < f + mm.pages[f]
        BY <4>5, <2>2, SMTT(30)
      <4>7. k = f
        BY <4>1, <4>2, <4>4, <4>6, <1>1, PageBlock, Zenon
      <4> QED BY <4>3, <4>4, <4>7, Zenon
    <3> QED BY <3>1, <3>2, <2>1, <2>4, <1>6, Zenon
  <2> QED BY <2>3, <2>4, Zenon
<1> QED BY <1>1, <1>2, <1>5, <1>7, <1>8, <1>9, Zenon DEF w

\* realloc_physmem_block is Realloc of the map, branch by branch.
LEMMA ReallocImplements ==
    ASSUME AlignedLayout, RInv, NEW b \in Page, NEW n \in 1..MaxRequest,
           Realloc(b, n)
    PROVE  (Defined' => Sized(mm')) /\ Abstract!Realloc(b, n)
<1>1. /\ stopped = "no" /\ WellFormed(mm) /\ Sized(mm) /\ b \in Callers
      /\ n \in Nat /\ 0 < n /\ b \in Nat /\ b <= NrPages - 1
  BY SizesAssumption, NrPagesNat DEF RInv, IInv, Realloc, Defined, Page
<1>2. Shape(mm) /\ Kept(mm)
  BY <1>1, Zenon DEF WellFormed
<1>3. CASE ReallocRefused(b, n)
  <2>1. b \notin Allocated(mm)
    BY <1>3, Zenon DEF ReallocRefused, Allocated
  <2> QED BY <2>1, <1>1, <1>3, Zenon
          DEF ReallocRefused, Abstract!Realloc, Abstract!Answer, Answer
<1>4. ASSUME ~mm.available[b]
      PROVE  /\ b \in Allocated(mm) /\ b \in Busy(mm) /\ b \in mm.linked
             /\ b \notin Reserved /\ mm.pages[b] \in Nat
             /\ Owner(mm)[b] = mm.pages[b]
  <2>1. /\ b \in Allocated(mm) /\ b \in Busy(mm) /\ b \in mm.linked
        /\ b \notin Reserved
    BY <1>1, <1>4 DEF Callers, Allocated, Busy
  <2> QED BY <2>1, <1>2, ShapeBlock, Zenon DEF Owner
\* The branches that leave the block where it is.
<1>5. ASSUME ~mm.available[b], Gives(mm, b, n, mm'), stopped' = stopped,
             Answer("realloc", b, n, mm.pages[b], "S_OK"),
             Abstract!Growth(b, n) \subseteq Abstract!FreePages,
             n <= mm.pages[b] \/ b + n \in Abstract!FreePages
      PROVE  Sized(mm') /\ Abstract!Realloc(b, n)
  <2>1. Sized(mm') /\ Owner(mm') = Abstract!Give(Owner(mm), b, n)
    BY <1>1, <1>2, <1>4, <1>5, OwnerGives, Zenon
  <2> QED BY <2>1, <1>4, <1>5, ZenonT(30)
          DEF Abstract!Realloc, Abstract!Answer, Answer, Owner
<1>6. CASE ReallocShrink(b, n)
  <2>1. /\ ~mm.available[b] /\ n < mm.pages[b] /\ stopped' = stopped
        /\ Answer("realloc", b, n, mm.pages[b], "S_OK")
    BY <1>6, Zenon DEF ReallocShrink
  <2>2. b \in Allocated(mm) /\ b \in Busy(mm) /\ b \in mm.linked /\ mm.pages[b] \in Nat
    BY <2>1, <1>4, Zenon
  <2>3. n <= mm.pages[b] /\ Abstract!Growth(b, n) \subseteq Abstract!FreePages
    BY <2>1, <2>2, <1>1, GrowthRoom, SMTT(30)
  <2>4. CASE HoleAfter(mm, b)
    <3>1. mm.next[b] \in mm.linked
      BY <2>2, <1>2, ShapeBlock, Zenon
    <3>2. mm.pages[mm.next[b]] \in Nat
      BY <3>1, <1>2, ShapeBlock, Zenon
    <3>3. n < mm.pages[b] + mm.pages[mm.next[b]] /\ n # mm.pages[b]
      BY <3>2, <2>1, <2>2, <1>1, SMTT(30)
    <3>4. mm' = move_boundary(mm, b, n)
      BY <1>6, <2>4, Zenon DEF ReallocShrink
    <3>5. Gives(mm, b, n, mm')
      BY <3>3, <3>4, <2>2, <2>4, <1>1, MoveGives, Zenon
    <3> QED BY <3>5, <2>1, <2>3, <1>5, Zenon
  <2>5. CASE ~HoleAfter(mm, b)
    <3>1. mm' = cut_block(mm, b, n)
      BY <1>6, <2>5, Zenon DEF ReallocShrink
    <3>2. IsCut(mm, b, n, mm')
      BY <3>1, <2>1, <2>2, <1>1, <1>2, CutIsCut, Zenon
    <3>3. Gives(mm, b, n, mm')
      BY <3>2, <2>1, <2>2, <1>1, <1>2, CutGives, Zenon
    <3> QED BY <3>3, <2>1, <2>3, <1>5
  <2> QED BY <2>4, <2>5, Zenon
<1>7. CASE ReallocInPlace(b, n)
  <2>1. /\ ~mm.available[b] /\ Answer("realloc", b, n, mm.pages[b], "S_OK")
    BY <1>7 DEF ReallocInPlace
  <2>2. b \in Allocated(mm) /\ b \in Busy(mm) /\ b \in mm.linked /\ mm.pages[b] \in Nat
    BY <2>1, <1>4, Zenon
  <2>3. CASE n = mm.pages[b] /\ UNCHANGED <<mm, stopped>>
    <3>1. n <= mm.pages[b]
      BY <2>3, <2>2
    <3>2. Abstract!Growth(b, n) \subseteq Abstract!FreePages
      BY <3>1, <2>2, <1>1, GrowthRoom, Zenon
    <3>3. Gives(mm, b, n, mm')
      BY <2>2, <2>3, Zenon DEF Gives
    <3> QED BY <3>1, <3>2, <3>3, <2>1, <2>3, <1>5, Zenon
  <2>4. CASE /\ n > mm.pages[b] /\ RoomAfter(b, n)
             /\ mm.pages[mm.next[b]] > n - mm.pages[b]
             /\ mm' = move_boundary(mm, b, n) /\ stopped' = stopped
    <3>1. mm.next[b] \in mm.linked /\ HoleAfter(mm, b)
      BY <2>2, <2>4, <1>2, ShapeBlock, Zenon DEF RoomAfter
    <3>2. mm.pages[mm.next[b]] \in Nat
      BY <3>1, <1>2, ShapeBlock, Zenon
    <3>3. n < mm.pages[b] + mm.pages[mm.next[b]] /\ n # mm.pages[b]
      BY <3>2, <2>2, <2>4, <1>1, SMTT(30)
    <3>4. Gives(mm, b, n, mm')
      BY <3>1, <3>3, <2>2, <2>4, <1>1, MoveGives, Zenon
    <3>5. /\ Abstract!Growth(b, n) \subseteq Abstract!FreePages
          /\ b + n \in Abstract!FreePages
      BY <2>2, <2>4, <1>1, GrowthRoom, Zenon
    <3> QED BY <3>4, <3>5, <2>1, <2>4, <1>5, Zenon
  <2>5. CASE /\ n > mm.pages[b] /\ RoomAfter(b, n)
             /\ mm.pages[mm.next[b]] = n - mm.pages[b]
             /\ stopped' = "undefined"
    <3>1. ~(mm.pages[mm.next[b]] > n - mm.pages[b])
      BY <2>2, <2>5, <1>1, SMTT(30)
    <3>2. /\ Abstract!Growth(b, n) \subseteq Abstract!FreePages
          /\ b + n \notin Abstract!FreePages
      BY <3>1, <2>2, <2>5, <1>1, GrowthRoom, Zenon
    <3>3. n > Owner(mm)[b] /\ ~Defined'
      BY <2>1, <2>5, <1>4, Zenon DEF Defined
    <3> QED BY <3>2, <3>3, <2>2, <2>5, Zenon DEF Abstract!Realloc, Owner
  <2> QED BY <1>7, <2>3, <2>4, <2>5, Zenon DEF ReallocInPlace
<1>8. CASE ReallocMove(b, n)
  <2>1. ~mm.available[b] /\ n > mm.pages[b] /\ ~RoomAfter(b, n)
    BY <1>8, ZenonT(30) DEF ReallocMove
  <2>2. /\ b \in Allocated(mm) /\ b \in Busy(mm) /\ b \in mm.linked
        /\ b \notin Reserved /\ Owner(mm)[b] = mm.pages[b]
    BY <2>1, <1>4, Zenon
  <2>3. ~(Abstract!Growth(b, n) \subseteq Abstract!FreePages)
    BY <2>1, <2>2, <1>1, GrowthRoom, Zenon
  <2>4. CASE /\ Holes(mm, n) = {} /\ UNCHANGED <<mm, stopped>>
             /\ Answer("realloc", b, n, mm.pages[b], "E_NOMEM")
    <3>1. Abstract!NoRoom(n)
      BY <2>4, <1>1, FirstFitLowest, Zenon
    <3> QED BY <3>1, <2>2, <2>3, <2>4, <1>1, Zenon
            DEF Abstract!Realloc, Abstract!Answer, Answer, Owner
  <2>5. CASE Holes(mm, n) # {}
    <3> DEFINE c == FirstFit(mm, n)
               A == alloc_block(mm, c, n)
    <3>1. c \in Holes(mm, n)
      BY <1>2, <2>5, FirstFitFits, Zenon
    <3>2. c \in Page /\ Abstract!Lowest(n, c)
      BY <1>1, <2>5, FirstFitLowest, Zenon
    <3>3. WellFormed(A) /\ Gives(mm, c, n, A)
      BY <3>1, <1>1, AllocWellFormed, AllocGives, Zenon
    <3>4. c \notin Reserved
      BY <3>1, <1>2, Zenon DEF Kept, Holes
    <3>5. /\ IF b >= NrPages - 1
             THEN mm' = A /\ stopped' = "panic"
             ELSE mm' = free_block(A, b) /\ stopped' = stopped
          /\ Answer("realloc", c, n, mm.pages[b], "S_OK")
      BY <1>8, <2>5, Zenon DEF ReallocMove
    <3> HIDE DEF A, c
    <3>6. Sized(A) /\ Owner(A) = Abstract!Give(Owner(mm), c, n)
      BY <3>3, <3>4, <1>1, <1>2, OwnerGives, Zenon
    <3>7. b \in Busy(A) /\ Kept(A)
      BY <3>3, <2>2, Zenon DEF Gives, WellFormed
    <3>8. /\ Abstract!Answer("realloc", c, n, Owner(mm)[b], "S_OK")
          /\ c \in Abstract!Page /\ b \in DOMAIN Owner(mm)
      BY <3>2, <3>5, <2>2, Zenon DEF Abstract!Answer, Answer, Abstract!Page, Page, Owner
    <3>9. CASE b >= NrPages - 1
      <4>1. b = NrPages - 1
        BY <3>9, <1>1, NrPagesNat
      <4>2. /\ Sized(mm') /\ Owner(mm') = Abstract!Give(Owner(mm), c, n)
            /\ stopped' = "panic"
        BY <3>5, <3>6, <3>9, ZenonT(30)
      <4> QED BY <4>1, <4>2, <3>2, <3>8, <2>3, ZenonT(30)
              DEF Abstract!Realloc, Owner
    <3>10. CASE ~(b >= NrPages - 1)
      <4>1. b # NrPages - 1 /\ mm' = free_block(A, b) /\ stopped' = stopped
        BY <3>5, <3>10, <1>1, NrPagesNat, Zenon
      <4>2. Takes(A, b, mm')
        BY <4>1, <3>3, <3>7, <2>2, FreeTakes, Zenon
      <4>3. Sized(mm') /\ Owner(mm') = Abstract!Take(Owner(A), b)
        BY <4>2, <3>6, <3>7, <2>2, OwnerTakes, Zenon
      <4>4. Owner(mm') = Abstract!Take(Abstract!Give(Owner(mm), c, n), b)
        BY <4>3, <3>6
      <4> QED BY <4>1, <4>3, <4>4, <3>2, <3>8, <2>3, ZenonT(30)
              DEF Abstract!Realloc, Owner
    <3> QED BY <3>9, <3>10, Zenon
  <2> QED BY <1>8, <2>4, <2>5 DEF ReallocMove
<1> QED BY <1>3, <1>6, <1>7, <1>8, Zenon DEF Realloc

\* The descriptors, the list and the merges of physmem.c together implement the
\* map of PageMap: every call answers and changes what the callers own as the
\* map does, with the lowest run of free pages for every request, for any size
\* of memory and any aligned layout.
THEOREM Refinement ==
    ASSUME AlignedLayout
    PROVE  Spec => ImplementsPageMap
<1>1. Init => Sized(mm) /\ Abstract!Init
  <2> SUFFICES ASSUME Init PROVE Sized(mm) /\ Abstract!Init
    OBVIOUS
  <2>1. IsInit(mm, First(2), First(3), First(4))
    BY InitFields DEF Init
  <2>2. /\ First(1) = 0 /\ Past(1) = First(2) /\ Past(3) = First(4)
        /\ First(2) \in Nat
    BY LayoutFacts, Zenon
  <2>3. Sized(mm)
    BY <2>1, <2>2, SMTT(30) DEF Sized, IsInit
  <2>4. Allocated(mm) = {}
    BY <2>1, <2>2, Zenon DEF Allocated, IsInit, Reserved
  <2>5. Abstract!Init
    BY <2>4 DEF Init, NoReply, Abstract!Init
  <2> QED BY <2>3, <2>5
<1>2. RInv /\ [Next]_vars => (Defined' => Sized(mm')) /\ [Abstract!Next]_(Abstract!vars)
  <2> SUFFICES ASSUME RInv, [Next]_vars
               PROVE  (Defined' => Sized(mm')) /\ [Abstract!Next]_(Abstract!vars)
    OBVIOUS
  <2>1. ASSUME NEW n \in 1..MaxRequest, Alloc(n)
        PROVE  Sized(mm') /\ Abstract!Next
    <3>1. stopped = "no"
      BY <2>1 DEF Alloc
    <3> QED BY <3>1, <2>1, AllocImplements DEF Abstract!Next
  <2>2. ASSUME NEW b \in Page, Free(b)
        PROVE  Sized(mm') /\ Abstract!Next
    <3>1. stopped = "no"
      BY <2>2 DEF Free
    <3>2. b \in Abstract!Page
      BY DEF Page, Abstract!Page
    <3> QED BY <3>1, <3>2, <2>2, FreeImplements, Zenon DEF Abstract!Next
  <2>3. ASSUME NEW b \in Page, NEW n \in 1..MaxRequest, Realloc(b, n)
        PROVE  (Defined' => Sized(mm')) /\ Abstract!Next
    <3>1. stopped = "no"
      BY <2>3 DEF Realloc
    <3>2. b \in Abstract!Page
      BY DEF Page, Abstract!Page
    <3> QED BY <3>1, <3>2, <2>3, ReallocImplements, Zenon DEF Abstract!Next
  <2>4. CASE UNCHANGED vars
    BY <2>4 DEF vars, RInv, Defined, Sized, Abstract!vars
  <2> QED BY <2>1, <2>2, <2>3, <2>4 DEF Next, Stopped
<1>3. Spec => []IInv
  BY Invariance
<1> DEFINE S == Defined => Sized(mm)
<1>4. Init => S
  BY <1>1
<1>5. IInv /\ S /\ [Next]_vars => S' /\ [Abstract!Next]_(Abstract!vars)
  BY <1>2 DEF RInv
<1> HIDE DEF S
<1> QED BY <1>1, <1>3, <1>4, <1>5, PTL DEF Spec, ImplementsPageMap, Abstract!Spec

-----------------------------------------------------------------------------
(***************************************************************************)
(* What the pages hold.                                                    *)
(***************************************************************************)
\* Filling and copying pages (PhysMemContents.tla) adds nothing to what the
\* allocator does with its descriptors.
LEMMA ContentsInvariance ==
    ASSUME AlignedLayout
    PROVE  CSpec => []IInv
<1>1. CInit => Init
  BY Zenon DEF CInit
<1>2. [CNext]_cvars => [Next]_vars
  BY DEF CNext, cvars, vars, AllocContent, FreeContent, ReallocContent, Write,
         Next
<1>3. CSpec => Spec
  BY <1>1, <1>2, PTL DEF CSpec, Spec
<1> QED BY <1>3, Invariance, PTL

\* The pages found for a request are in no block that is in use.
LEMMA HoleApart ==
    ASSUME NEW M, Shape(M), NEW n \in Nat, NEW h \in Holes(M, n),
           NEW c \in Busy(M), NEW p \in Span(c, M.pages[c])
    PROVE  p \in Page /\ p \notin Span(h, n)
<1>1. /\ h \in M.linked /\ M.available[h] /\ M.pages[h] >= n
      /\ c \in M.linked /\ ~M.available[c]
  BY Zenon DEF Holes, Busy
<1>2. /\ c \in Nat /\ M.pages[c] \in Nat /\ c + M.pages[c] <= NrPages
      /\ h \in Nat /\ M.pages[h] \in Nat
  BY <1>1, ShapeBlock, Zenon
<1>3. p \in Nat /\ c <= p /\ p < c + M.pages[c]
  BY <1>2 DEF Span
<1>4. p \in Page
  BY <1>2, <1>3, NrPagesNat, SMTT(30) DEF Page
<1>5. ASSUME p \in Span(h, n) PROVE FALSE
  <2>1. h <= p /\ p < h + M.pages[h]
    BY <1>1, <1>2, <1>3, <1>5, SMTT(30) DEF Span
  <2>2. h = c
    BY <2>1, <1>1, <1>3, <1>4, PageBlock, Zenon
  <2> QED BY <2>2, <1>1, Zenon
<1> QED BY <1>4, <1>5, Zenon

\* What a successful realloc_physmem_block has done: the block stayed where it
\* was, or it was moved to the first fit.
LEMMA ReallocAnswers ==
    ASSUME IInv, NEW b \in Page, NEW n \in 1..MaxRequest, Realloc(b, n),
           reply'.res = "S_OK"
    PROVE  /\ WellFormed(mm) /\ n \in Nat /\ 0 < n
           /\ b \in Allocated(mm) /\ mm.pages[b] \in Nat /\ reply'.n = n
           /\ ~(n > mm.pages[b] /\ ~RoomAfter(b, n)) => reply'.addr = b
           /\ n > mm.pages[b] /\ ~RoomAfter(b, n) =>
                 /\ reply'.addr = FirstFit(mm, n)
                 /\ FirstFit(mm, n) \in Holes(mm, n)
                 /\ LET A == alloc_block(mm, FirstFit(mm, n), n)
                    IN  IF b >= NrPages - 1
                        THEN stopped' = "panic"
                        ELSE mm' = free_block(A, b) /\ stopped' = "no"
<1>1. /\ stopped = "no" /\ WellFormed(mm) /\ b \in Callers /\ Shape(mm)
      /\ n \in Nat /\ 0 < n
  BY SizesAssumption DEF IInv, Realloc, Defined, WellFormed
<1>2. ~ReallocRefused(b, n)
  BY DEF ReallocRefused, Answer
<1>3. ~mm.available[b]
  BY <1>2, ZenonT(30) DEF Realloc, ReallocShrink, ReallocInPlace, ReallocMove
<1>4. b \in Allocated(mm) /\ b \in mm.linked
  BY <1>1, <1>3, Zenon DEF Callers, Allocated
<1>5. mm.pages[b] \in Nat
  BY <1>1, <1>4, ShapeBlock, Zenon
<1>6. CASE ReallocShrink(b, n)
  <2>1. n < mm.pages[b] /\ reply'.addr = b /\ reply'.n = n
    BY <1>6 DEF ReallocShrink, Answer
  <2>2. ~(n > mm.pages[b])
    BY <2>1, <1>1, <1>5, SMTT(30)
  <2> QED BY <2>1, <2>2, <1>1, <1>4, <1>5, Zenon
<1>7. CASE ReallocInPlace(b, n)
  <2>1. reply'.addr = b /\ reply'.n = n
    BY <1>7, Zenon DEF ReallocInPlace, Answer
  <2>2. n = mm.pages[b] \/ RoomAfter(b, n)
    BY <1>7, Zenon DEF ReallocInPlace
  <2>3. ~(n > mm.pages[b] /\ ~RoomAfter(b, n))
    BY <2>2, <1>1, <1>5, SMTT(30)
  <2> QED BY <2>1, <2>3, <1>1, <1>4, <1>5, Zenon
<1>8. CASE ReallocMove(b, n)
  <2>1. n > mm.pages[b] /\ ~RoomAfter(b, n) /\ Holes(mm, n) # {}
    BY <1>8, SMTT(30) DEF ReallocMove, Answer
  <2> DEFINE A == alloc_block(mm, FirstFit(mm, n), n)
  <2>2. /\ IF b >= NrPages - 1
           THEN mm' = A /\ stopped' = "panic"
           ELSE mm' = free_block(A, b) /\ stopped' = stopped
        /\ Answer("realloc", FirstFit(mm, n), n, mm.pages[b], "S_OK")
    BY <1>8, <2>1, Zenon DEF ReallocMove
  <2>3. reply'.addr = FirstFit(mm, n) /\ reply'.n = n
    BY <2>2, Zenon DEF Answer
  <2>4. FirstFit(mm, n) \in Holes(mm, n)
    BY <2>1, <1>1, FirstFitFits, Zenon
  <2> HIDE DEF A
  <2>5. IF b >= NrPages - 1
        THEN stopped' = "panic"
        ELSE mm' = free_block(A, b) /\ stopped' = "no"
    BY <2>2, <1>1
  <2> QED BY <2>1, <2>3, <2>4, <2>5, <1>1, <1>4, <1>5, Zenon DEF A
<1> QED BY <1>2, <1>6, <1>7, <1>8, ZenonT(30) DEF Realloc

\* The reply tells which block was moved.
LEMMA OneMoved ==
    ASSUME IInv, NEW b \in Page, NEW c \in Page, NEW n \in 1..MaxRequest,
           Realloc(b, n), Realloc(c, n), reply'.res = "S_OK",
           n > mm.pages[b], ~RoomAfter(b, n), n > mm.pages[c], ~RoomAfter(c, n)
    PROVE  b = c
<1> DEFINE A == alloc_block(mm, FirstFit(mm, n), n)
<1>1. /\ WellFormed(mm) /\ n \in Nat /\ 0 < n /\ FirstFit(mm, n) \in Holes(mm, n)
      /\ b \in Allocated(mm) /\ c \in Allocated(mm)
  BY ReallocAnswers, Zenon
<1>2. /\ IF b >= NrPages - 1
         THEN stopped' = "panic"
         ELSE mm' = free_block(A, b) /\ stopped' = "no"
      /\ IF c >= NrPages - 1
         THEN stopped' = "panic"
         ELSE mm' = free_block(A, c) /\ stopped' = "no"
  BY ReallocAnswers, Zenon
<1>3. WellFormed(A) /\ Gives(mm, FirstFit(mm, n), n, A)
  BY <1>1, AllocWellFormed, AllocGives, Zenon
<1> HIDE DEF A
<1>4. b \in Busy(A) /\ c \in Busy(A) /\ b \notin Reserved /\ c \notin Reserved
  BY <1>1, <1>3 DEF Gives, Allocated, Busy
<1>5. CASE b >= NrPages - 1
  <2>1. c >= NrPages - 1
    BY <1>2, <1>5, Zenon
  <2> QED BY <2>1, <1>5, NrPagesNat DEF Page
<1>6. CASE ~(b >= NrPages - 1)
  <2>1. mm' = free_block(A, b) /\ mm' = free_block(A, c)
    BY <1>2, <1>6
  <2>2. Takes(A, b, mm') /\ Takes(A, c, mm')
    BY <2>1, <1>3, <1>4, FreeTakes, ZenonT(30)
  <2> QED BY <2>2, <1>4, Zenon DEF Takes
<1> QED BY <1>5, <1>6, Zenon

\* realloc_physmem_block keeps the data of the block it resizes, whether it
\* stays where it is or is copied to another place.
THEOREM ReallocKeepsContents ==
    ASSUME AlignedLayout
    PROVE  CSpec => ReallocKeepsData
<1> DEFINE P == \A b \in Allocated(mm), n \in 1..MaxRequest :
                   Resized(b, n) =>
                       \A i \in 0..(Shorter(mm.pages[b], n) - 1) :
                           content'[reply'.addr + i] = content[b + i]
<1>1. IInv /\ [CNext]_cvars => [P]_cvars
  <2> SUFFICES ASSUME IInv, CNext, NEW b \in Allocated(mm),
                      NEW n \in 1..MaxRequest, Resized(b, n),
                      NEW i \in 0..(Shorter(mm.pages[b], n) - 1)
               PROVE  content'[reply'.addr + i] = content[b + i]
    BY DEF P
  <2>1. /\ vars' # vars /\ reply'.op = "realloc" /\ reply'.res = "S_OK"
        /\ reply'.n = n /\ Realloc(b, n)
    BY DEF Resized
  <2>2. b \in Page
    BY Zenon DEF Allocated, IInv, TypeOK, Descriptors
  <2>3. PICK c \in Page, k \in 1..MaxRequest : ReallocContent(c, k)
    BY <2>1, SMTT(60) DEF CNext, AllocContent, FreeContent, Alloc, Free, Answer, Write,
                Stopped, vars
  <2>4. Realloc(c, k) /\ k = n
    BY <2>1, <2>3, ReallocAnswers, ZenonT(30) DEF ReallocContent
  <2>5. Realloc(c, n) /\ content' = IF n > mm.pages[c] /\ ~RoomAfter(c, n)
                     THEN move_content(reply'.addr, c, mm.pages[c], n)
                     ELSE content
    BY <2>1, <2>3, <2>4, ZenonT(30) DEF ReallocContent
  <2>6. /\ WellFormed(mm) /\ Shape(mm) /\ n \in Nat /\ 0 < n
        /\ mm.pages[b] \in Nat /\ b \in Allocated(mm) /\ c \in Allocated(mm)
    BY <2>1, <2>2, <2>5, ReallocAnswers, ZenonT(30) DEF WellFormed
  <2>7. CASE n > mm.pages[b] /\ ~RoomAfter(b, n)
    <3> DEFINE t == FirstFit(mm, n)
    <3>1. reply'.addr = t /\ t \in Holes(mm, n)
      BY <2>1, <2>2, <2>7, ReallocAnswers, Zenon
    <3> HIDE DEF t
    <3>2. t # c
      BY <3>1, <2>6 DEF Holes, Allocated
    <3>3. n > mm.pages[c] /\ ~RoomAfter(c, n)
      BY <3>1, <3>2, <2>1, <2>5, ReallocAnswers, ZenonT(30)
    <3>4. c = b
      BY <3>3, <2>1, <2>2, <2>5, <2>7, OneMoved, ZenonT(30)
    <3>5. content' = move_content(t, b, mm.pages[b], n)
      BY <3>1, <3>3, <3>4, <2>5, Zenon
    <3>6. /\ t \in Nat /\ mm.pages[t] \in Nat /\ mm.pages[t] >= n
          /\ t + mm.pages[t] <= NrPages
      BY <3>1, <2>6, ShapeBlock, Zenon DEF Holes
    <3>7. i \in Nat /\ i < mm.pages[b]
      BY <2>6, <2>7, SMTT(30) DEF Shorter
    <3> DEFINE x == t + i
               w == mm.pages[b]
               f == memcpy(content, t, b, w)
    <3>8. x \in Page
      BY <3>6, <3>7, <2>6, <2>7, NrPagesNat, SMTT(30) DEF Page
    <3>9. x \in Span(t, w) /\ x \notin Span(t + w, n - w)
      BY <3>6, <3>7, <2>6, SMTT(30) DEF Span
    <3>10. x - t + b = b + i
      BY <3>6, <3>7, <2>2, NrPagesNat, SMTT(30) DEF Page
    <3>11. content' = memset0(f, Span(t + w, n - w))
      BY <3>5, Zenon DEF move_content
    <3> HIDE DEF x, w
    <3>12. f[x] = content[x - t + b]
      BY <3>8, <3>9, Zenon DEF memcpy
    <3> HIDE DEF f
    <3>13. content'[x] = f[x]
      BY <3>8, <3>9, <3>11, Zenon DEF memset0
    <3> QED BY <3>1, <3>10, <3>12, <3>13, Zenon DEF x
  <2>8. CASE ~(n > mm.pages[b] /\ ~RoomAfter(b, n))
    <3>1. reply'.addr = b
      BY <2>1, <2>2, <2>8, ReallocAnswers
    <3>2. ~(n > mm.pages[c] /\ ~RoomAfter(c, n))
      <4>1. b \notin Holes(mm, n)
        BY <2>6 DEF Holes, Allocated
      <4> QED BY <4>1, <3>1, <2>1, <2>5, ReallocAnswers, ZenonT(30)
    <3> QED BY <3>1, <3>2, <2>5, Zenon
  <2> QED BY <2>7, <2>8, Zenon
<1>2. CSpec => []IInv
  BY ContentsInvariance
<1> HIDE DEF P
<1>3. CSpec => [][P]_cvars
  BY <1>1, <1>2, PTL DEF CSpec
<1> QED BY <1>3 DEF ReallocKeepsData, P

\* No call writes into a block in use other than the one it is about.
THEOREM OthersKeepContents ==
    ASSUME AlignedLayout
    PROVE  CSpec => OtherBlocksUntouched
<1> DEFINE P == mm' # mm =>
                   \A c \in Allocated(mm) \cap Allocated(mm)' :
                       mm'.pages[c] = mm.pages[c] =>
                           \A p \in Span(c, mm.pages[c]) : content'[p] = content[p]
<1>1. IInv /\ [CNext]_cvars => [P]_cvars
  <2> SUFFICES ASSUME IInv, CNext, mm' # mm, NEW c \in Allocated(mm),
                      NEW p \in Span(c, mm.pages[c])
               PROVE  content'[p] = content[p]
    BY DEF P
  <2>1. c \in Busy(mm)
    BY Zenon DEF Allocated, Busy
  <2>2. ASSUME NEW n \in Nat, NEW h \in Holes(mm, n), Shape(mm)
        PROVE  p \in Page /\ p \notin Span(h, n)
    BY <2>1, <2>2, HoleApart, Zenon
  <2>3. ASSUME NEW n \in 1..MaxRequest, AllocContent(n)
        PROVE  content'[p] = content[p]
    <3>1. /\ WellFormed(mm) /\ Shape(mm) /\ n \in Nat
          /\ Holes(mm, n) # {} /\ Answer("alloc", FirstFit(mm, n), n, 0, "S_OK")
      BY <2>3, SizesAssumption, SMTT(60)
         DEF AllocContent, Alloc, IInv, Defined, WellFormed
    <3>2. FirstFit(mm, n) \in Holes(mm, n)
      BY <3>1, FirstFitFits, Zenon
    <3>3. content' = content \/ content' = zero_block(FirstFit(mm, n), n)
      BY <3>1, <2>3, Zenon DEF AllocContent, Answer
    <3>4. p \in Page /\ p \notin Span(FirstFit(mm, n), n)
      BY <3>1, <3>2, <2>2, Zenon
    <3> QED BY <3>3, <3>4, Zenon DEF zero_block, memset0
  <2>4. ASSUME NEW b \in Page, FreeContent(b) PROVE content'[p] = content[p]
    BY <2>4, Zenon DEF FreeContent
  <2>5. ASSUME NEW b \in Page, NEW n \in 1..MaxRequest, ReallocContent(b, n)
        PROVE  content'[p] = content[p]
    <3>1. CASE reply'.res = "S_OK" /\ n > mm.pages[b] /\ ~RoomAfter(b, n)
      <4> DEFINE t == FirstFit(mm, n)
      <4>1. /\ WellFormed(mm) /\ n \in Nat /\ mm.pages[b] \in Nat
            /\ reply'.addr = t /\ t \in Holes(mm, n)
        BY <3>1, <2>5, ReallocAnswers, Zenon DEF ReallocContent
      <4> HIDE DEF t
      <4>2. p \in Page /\ p \notin Span(t, n) /\ t \in Nat /\ p \in Nat
        <5>1. Shape(mm) /\ t \in mm.linked
          BY <4>1, Zenon DEF WellFormed, Holes
        <5>2. p \in Page /\ p \notin Span(t, n)
          BY <5>1, <4>1, <2>2, Zenon
        <5> QED BY <5>1, <5>2, ShapeBlock, SMTT(30) DEF Page
      <4> DEFINE w == mm.pages[b]
      <4>a. w \in Nat /\ w < n
        BY <4>1, <3>1
      <4> HIDE DEF w
      <4>b. p < t \/ p >= t + n
        BY <4>1, <4>2 DEF Span
      <4>3. p \notin Span(t, w) /\ p \notin Span(t + w, n - w)
        BY <4>1, <4>2, <4>a, <4>b, SMTT(30) DEF Span
      <4>4. content' = move_content(t, b, w, n)
        BY <4>1, <3>1, <2>5, Zenon DEF ReallocContent, w
      <4> QED BY <4>2, <4>3, <4>4, Zenon DEF move_content, memset0, memcpy
    <3>2. CASE ~(reply'.res = "S_OK" /\ n > mm.pages[b] /\ ~RoomAfter(b, n))
      BY <3>2, <2>5, Zenon DEF ReallocContent
    <3> QED BY <3>1, <3>2, Zenon
  <2> QED BY <2>3, <2>4, <2>5, Zenon DEF CNext, Write, Stopped, vars
<1>2. CSpec => []IInv
  BY ContentsInvariance
<1> HIDE DEF P
<1>3. CSpec => [][P]_cvars
  BY <1>1, <1>2, PTL DEF CSpec
<1> QED BY <1>3, Zenon DEF OtherBlocksUntouched, P

=============================================================================
