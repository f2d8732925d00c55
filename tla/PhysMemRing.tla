---------------------------- MODULE PhysMemRing ----------------------------
(***************************************************************************)
(* Lemmas about the block list of the allocator, for any size of memory    *)
(* and any layout.                                                         *)
(*                                                                         *)
(* The ring is treated first as four plain functions: what cutting a block *)
(* in two and merging two neighbours does to Ring, from the new values of  *)
(* the links at every page.  The operations of physmem.c on the record of  *)
(* descriptors are then shown to be such cuts and merges.                  *)
(***************************************************************************)
EXTENDS PhysMem, TLAPS

\* The number of descriptors, memsize >> PAGE_BIT_SHIFT, is a natural number.
LEMMA NrPagesNat == NrPages \in Nat
BY SizesAssumption DEF NrPages

-----------------------------------------------------------------------------
\* Cutting block b after its first n pages keeps the ring.
LEMMA CutRing ==
    ASSUME NEW L \in SUBSET Page, NEW prev \in [Page -> Page],
           NEW next \in [Page -> Page], NEW pages \in [Page -> Nat],
           Ring(L, prev, next, pages),
           NEW b \in L, NEW n \in Nat, 0 < n, n < pages[b],
           NEW L1 \in SUBSET Page, NEW prev1 \in [Page -> Page],
           NEW next1 \in [Page -> Page], NEW pages1 \in [Page -> Nat],
           \A x \in Page : x \in L1 <=> x \in L \/ x = b + n,
           \A x \in Page : pages1[x] = IF x = b THEN n
                                       ELSE IF x = b + n THEN pages[b] - n
                                       ELSE pages[x],
           \A x \in Page : next1[x] = IF x = b THEN b + n
                                      ELSE IF x = b + n THEN next[b]
                                      ELSE next[x],
           \A x \in Page : prev1[x] = IF x = next[b] THEN b + n
                                      ELSE IF x = b + n THEN b
                                      ELSE prev[x]
    PROVE  Ring(L1, prev1, next1, pages1) /\ b + n \in Page /\ b + n \notin L
<1>b. /\ \A x \in L : BlockOK(L, prev, next, pages, x)
      /\ BlockOK(L, prev, next, pages, b)
      /\ Disjoint(L, pages) /\ Covered(L, pages) /\ 0 \in L
  BY DEF Ring
<1>1. b \in Nat /\ pages[b] \in Nat /\ b \in Page /\ pages[b] - n \in Nat
  BY DEF Page
<1>2. b + n \in Page /\ b + n # b
  BY <1>1, <1>b, NrPagesNat DEF Page, BlockOK
<1>3. b + n \notin L
  BY <1>1, <1>b DEF Disjoint
<1>4. next[b] \in Page /\ next[b] \in L /\ next[b] # b + n /\ prev[next[b]] = b
  BY <1>b, <1>3 DEF BlockOK
<1>5. ASSUME NEW x \in L1
      PROVE  BlockOK(L1, prev1, next1, pages1, x)
  <2>1. CASE x = b
    <3>1. /\ pages1[x] > 0 /\ x + pages1[x] <= NrPages
          /\ next1[x] = IF x + pages1[x] = NrPages THEN 0 ELSE x + pages1[x]
      BY <2>1, <1>1, <1>2, <1>b, NrPagesNat DEF BlockOK
    <3>2. next1[x] \in L1 /\ prev1[x] \in L1
      BY <2>1, <1>1, <1>2, <1>b, Zenon DEF BlockOK
    <3>3. prev1[next1[x]] = x
      BY <2>1, <1>1, <1>2, <1>4
    <3>4. prev[b] \in Page /\ prev[b] # b + n /\ next[prev[b]] = b
      BY <1>b, <1>3 DEF BlockOK
    <3>5. next1[prev1[x]] = x
      <4>1. CASE next[b] = b
        BY <4>1, <2>1, <1>1, <1>2
      <4>2. CASE next[b] # b
        BY <4>2, <2>1, <3>4, <1>1, <1>2, ZenonT(30)
      <4> QED BY <4>1, <4>2
    <3> QED BY <3>1, <3>2, <3>3, <3>5 DEF BlockOK
  <2>2. CASE x = b + n
    <3>1. /\ pages1[x] > 0 /\ x + pages1[x] <= NrPages
          /\ next1[x] = IF x + pages1[x] = NrPages THEN 0 ELSE x + pages1[x]
      BY <2>2, <1>1, <1>2, <1>b, NrPagesNat DEF BlockOK
    <3>2. next1[x] \in L1 /\ prev1[x] \in L1
      BY <2>2, <1>1, <1>2, <1>4, Zenon
    <3>3. prev1[next1[x]] = x /\ next1[prev1[x]] = x
      BY <2>2, <1>1, <1>2, <1>4, Zenon
    <3> QED BY <3>1, <3>2, <3>3 DEF BlockOK
  <2>3. CASE x # b /\ x # b + n
    <3>1. x \in L /\ x \in Page /\ BlockOK(L, prev, next, pages, x)
      BY <2>3, <1>b
    <3>2. /\ pages1[x] > 0 /\ x + pages1[x] <= NrPages
          /\ next1[x] = IF x + pages1[x] = NrPages THEN 0 ELSE x + pages1[x]
      BY <2>3, <3>1, NrPagesNat DEF BlockOK
    <3>3. /\ next[x] \in L /\ prev[x] \in L
          /\ prev[next[x]] = x /\ next[prev[x]] = x
      BY <3>1 DEF BlockOK
    <3>4. next1[x] \in L1 /\ prev1[x] \in L1
      BY <2>3, <3>1, <3>3, <1>1, <1>2, Zenon
    <3>5. prev1[next1[x]] = x
      BY <2>3, <3>1, <3>3, <1>3, <1>4
    <3>6. next1[prev1[x]] = x
      <4>1. CASE x = next[b]
        BY <4>1, <2>3, <3>1, <1>1, <1>2
      <4>2. CASE x # next[b]
        BY <4>2, <2>3, <3>1, <3>3, <1>3
      <4> QED BY <4>1, <4>2
    <3> QED BY <3>2, <3>4, <3>5, <3>6 DEF BlockOK
  <2> QED BY <2>1, <2>2, <2>3
<1>6. Disjoint(L1, pages1)
  <2> SUFFICES ASSUME NEW c \in L1, NEW d \in L1, c < d
               PROVE  c + pages1[c] <= d
    BY DEF Disjoint
  <2>a. c \in Page /\ d \in Page /\ pages[c] \in Nat
    OBVIOUS
  <2>1. c \in Nat /\ d \in Nat /\ c \in Page /\ d \in Page /\ pages[c] \in Nat
    BY <2>a DEF Page
  <2>2. CASE c = b
    BY <2>1, <2>2, <1>1, <1>2, <1>b DEF Disjoint
  <2>3. CASE c = b + n
    BY <2>1, <2>3, <1>1, <1>2, <1>b DEF Disjoint
  <2>4. CASE c # b /\ c # b + n
    BY <2>1, <2>4, <1>1, <1>2, <1>b DEF Disjoint
  <2> QED BY <2>2, <2>3, <2>4
<1>7. Covered(L1, pages1)
  <2> SUFFICES ASSUME NEW p \in Page
               PROVE  \E c \in L1 : c <= p /\ p < c + pages1[c]
    BY DEF Covered
  <2>1. PICK c \in L : c <= p /\ p < c + pages[c]
    BY <1>b DEF Covered
  <2>2. c \in Nat /\ p \in Nat /\ c \in Page /\ pages[c] \in Nat /\ c \in L1
    BY DEF Page
  <2>3. b + n \in L1 /\ b \in L1
    BY <1>1, <1>2
  <2>4. CASE c = b
    BY <2>1, <2>2, <2>3, <2>4, <1>1, <1>2
  <2>5. CASE c # b
    BY <2>1, <2>2, <2>5, <1>3
  <2> QED BY <2>4, <2>5
<1>8. 0 \in L1
  BY <1>b
<1> QED BY <1>2, <1>3, <1>5, <1>6, <1>7, <1>8 DEF Ring

\* Merging block b with the block c after it keeps the ring.
LEMMA MergeRing ==
    ASSUME NEW L \in SUBSET Page, NEW prev \in [Page -> Page],
           NEW next \in [Page -> Page], NEW pages \in [Page -> Nat],
           Ring(L, prev, next, pages),
           NEW b \in L, NEW c \in L, c = next[b], b < c,
           NEW L1 \in SUBSET Page, NEW prev1 \in [Page -> Page],
           NEW next1 \in [Page -> Page], NEW pages1 \in [Page -> Nat],
           \A x \in Page : x \in L1 <=> x \in L /\ x # c,
           \A x \in Page : pages1[x] = IF x = b THEN pages[b] + pages[c]
                                       ELSE pages[x],
           \A x \in Page : next1[x] = IF x = b THEN next[c] ELSE next[x],
           \A x \in Page : prev1[x] = IF x = next[c] THEN b ELSE prev[x]
    PROVE  Ring(L1, prev1, next1, pages1)
<1>b. /\ \A x \in L : BlockOK(L, prev, next, pages, x)
      /\ BlockOK(L, prev, next, pages, b) /\ BlockOK(L, prev, next, pages, c)
      /\ Disjoint(L, pages) /\ Covered(L, pages) /\ 0 \in L
  BY DEF Ring
<1>t. b \in Page /\ c \in Page
  OBVIOUS
<1>1. b \in Nat /\ c \in Nat /\ pages[b] \in Nat /\ pages[c] \in Nat
  BY <1>t DEF Page
<1>2. c = b + pages[b] /\ c # 0 /\ c # b
  BY <1>1, <1>b, NrPagesNat DEF BlockOK
<1>3. /\ next[c] \in L /\ next[c] \in Page /\ next[c] # c
      /\ prev[next[c]] = c /\ prev[c] = b
  BY <1>b, <1>1, <1>2, NrPagesNat DEF BlockOK
<1>4. b \in L1 /\ next[c] \in L1
  BY <1>t, <1>2, <1>3
<1>5. ASSUME NEW x \in L1
      PROVE  BlockOK(L1, prev1, next1, pages1, x)
  <2>1. CASE x = b
    <3>1. /\ pages1[x] > 0 /\ x + pages1[x] <= NrPages
          /\ next1[x] = IF x + pages1[x] = NrPages THEN 0 ELSE x + pages1[x]
      BY <2>1, <1>t, <1>1, <1>2, <1>b, NrPagesNat DEF BlockOK
    <3>2. /\ prev[b] \in L /\ prev[b] \in Page /\ next[prev[b]] = b
      BY <1>b DEF BlockOK
    <3>3. prev[b] # c \/ next[c] = b
      BY <3>2
    <3>4. next1[x] \in L1 /\ prev1[x] \in L1
      BY <2>1, <1>t, <1>4, <3>2, <3>3
    <3>5. prev1[next1[x]] = x
      BY <2>1, <1>t, <1>3
    <3>6. next1[prev1[x]] = x
      <4>1. CASE next[c] = b
        BY <4>1, <2>1, <1>t
      <4>2. CASE next[c] # b
        <5>1. prev[b] # b
          BY <3>2, <1>2, Zenon
        <5> QED BY <5>1, <4>2, <2>1, <3>2, <1>t
      <4> QED BY <4>1, <4>2
    <3> QED BY <3>1, <3>4, <3>5, <3>6 DEF BlockOK
  <2>2. CASE x # b
    <3>1. x \in L /\ x \in Page /\ x # c /\ BlockOK(L, prev, next, pages, x)
      BY <1>b
    <3>2. /\ pages1[x] > 0 /\ x + pages1[x] <= NrPages
          /\ next1[x] = IF x + pages1[x] = NrPages THEN 0 ELSE x + pages1[x]
      BY <2>2, <3>1, NrPagesNat DEF BlockOK
    <3>3. /\ next[x] \in L /\ next[x] \in Page
          /\ prev[x] \in L /\ prev[x] \in Page
          /\ prev[next[x]] = x /\ next[prev[x]] = x
      BY <3>1 DEF BlockOK
    <3>4. next[x] # c /\ next[x] # next[c]
      BY <2>2, <3>1, <3>3, <1>3
    <3>5. next1[x] \in L1 /\ prev1[next1[x]] = x
      BY <2>2, <3>1, <3>3, <3>4
    <3>6. prev1[x] \in L1 /\ next1[prev1[x]] = x
      <4>1. CASE x = next[c]
        BY <4>1, <3>1, <1>t, <1>4
      <4>2. CASE x # next[c]
        BY <4>2, <3>1, <3>3
      <4> QED BY <4>1, <4>2
    <3> QED BY <3>2, <3>5, <3>6 DEF BlockOK
  <2> QED BY <2>1, <2>2
<1>6. Disjoint(L1, pages1)
  <2> SUFFICES ASSUME NEW d \in L1, NEW e \in L1, d < e
               PROVE  d + pages1[d] <= e
    BY DEF Disjoint
  <2>1. /\ d \in L /\ e \in L /\ d \in Page /\ e \in Page /\ e # c
        /\ pages[d] \in Nat
    OBVIOUS
  <2>2. d \in Nat /\ e \in Nat
    BY <2>1 DEF Page
  <2>3. CASE d = b
    <3>1. b + pages[b] <= e
      BY <2>3, <2>1, <1>b DEF Disjoint
    <3>2. c + pages[c] <= e
      BY <3>1, <2>1, <2>2, <1>b, <1>1, <1>2 DEF Disjoint
    <3> QED BY <2>3, <3>2, <1>1, <1>2, <1>t
  <2>4. CASE d # b
    BY <2>1, <2>2, <2>4, <1>b DEF Disjoint
  <2> QED BY <2>3, <2>4
<1>7. Covered(L1, pages1)
  <2> SUFFICES ASSUME NEW p \in Page
               PROVE  \E d \in L1 : d <= p /\ p < d + pages1[d]
    BY DEF Covered
  <2>1. PICK d \in L : d <= p /\ p < d + pages[d]
    BY <1>b DEF Covered
  <2>a. d \in Page /\ pages[d] \in Nat
    OBVIOUS
  <2>2. d \in Nat /\ p \in Nat /\ d \in Page /\ pages[d] \in Nat
    BY <2>a DEF Page
  <2>3. CASE d = b \/ d = c
    BY <2>1, <2>2, <2>3, <1>1, <1>2, <1>4, <1>t
  <2>4. CASE d # b /\ d # c
    BY <2>1, <2>2, <2>4
  <2> QED BY <2>3, <2>4
<1>8. 0 \in L1
  BY <1>b, <1>2
<1> QED BY <1>5, <1>6, <1>7, <1>8 DEF Ring

-----------------------------------------------------------------------------
(***************************************************************************)
(* The fields of the descriptors after each operation of physmem.c, page   *)
(* by page.                                                                *)
(***************************************************************************)
IsCut(M, b, n, C) ==
    /\ C \in Descriptors /\ C.head = M.head
    /\ \A x \in Page : x \in C.linked <=> x \in M.linked \/ x = b + n
    /\ \A x \in Page : C.pages[x] = IF x = b THEN n
                                     ELSE IF x = b + n THEN M.pages[b] - n
                                     ELSE M.pages[x]
    /\ \A x \in Page : C.next[x] = IF x = b THEN b + n
                                    ELSE IF x = b + n THEN M.next[b]
                                    ELSE M.next[x]
    /\ \A x \in Page : C.prev[x] = IF x = M.next[b] THEN b + n
                                    ELSE IF x = b + n THEN b
                                    ELSE M.prev[x]
    /\ \A x \in Page : C.available[x] = IF x = b + n THEN TRUE
                                         ELSE M.available[x]

IsMerge(M, b, c, G) ==
    /\ G \in Descriptors /\ G.head = M.head
    /\ \A x \in Page : x \in G.linked <=> x \in M.linked /\ x # c
    /\ \A x \in Page : G.pages[x] = IF x = b THEN M.pages[b] + M.pages[c]
                                     ELSE M.pages[x]
    /\ \A x \in Page : G.next[x] = IF x = b THEN M.next[c] ELSE M.next[x]
    /\ \A x \in Page : G.prev[x] = IF x = M.next[c] THEN b ELSE M.prev[x]
    /\ \A x \in Page : G.available[x] = M.available[x]

IsFlag(M, b, v, F) ==
    /\ F \in Descriptors /\ F.head = M.head /\ F.linked = M.linked
    /\ F.pages = M.pages /\ F.next = M.next /\ F.prev = M.prev
    /\ \A x \in Page : F.available[x] = IF x = b THEN v ELSE M.available[x]

\* Storing v in b->available changes that field of b and nothing else.
LEMMA FlagFields ==
    ASSUME NEW M \in Descriptors, NEW b \in Page, NEW v \in BOOLEAN
    PROVE  IsFlag(M, b, v, [M EXCEPT !.available[b] = v])
BY DEF IsFlag, Descriptors

\* cut_block (physmem.c:170-174, 276-284) changes the fields IsCut says.
LEMMA CutFields ==
    ASSUME NEW M \in Descriptors, NEW b \in Page, NEW n \in Nat,
           b + n \in Page, b + n # b, M.next[b] # b + n, M.pages[b] - n \in Nat
    PROVE  IsCut(M, b, n, cut_block(M, b, n))
<1> DEFINE C == cut_block(M, b, n)
<1>1. M.next[b] \in Page
  BY DEF Descriptors
<1>2. /\ C \in Descriptors
      /\ C.head = M.head
      /\ C.linked = M.linked \cup {b + n}
      /\ C.prev = [[M.prev EXCEPT ![b + n] = b] EXCEPT ![M.next[b]] = b + n]
      /\ C.next = [[M.next EXCEPT ![b + n] = M.next[b]] EXCEPT ![b] = b + n]
      /\ C.pages = [[M.pages EXCEPT ![b + n] = M.pages[b] - n] EXCEPT ![b] = n]
      /\ C.available = [M.available EXCEPT ![b + n] = TRUE]
  BY <1>1, Zenon DEF cut_block, list_insert_after, Descriptors
<1> HIDE DEF C
<1>3. \A x \in Page : x \in C.linked <=> x \in M.linked \/ x = b + n
  BY <1>2
<1>4. \A x \in Page : C.pages[x] = IF x = b THEN n
                                    ELSE IF x = b + n THEN M.pages[b] - n
                                    ELSE M.pages[x]
  BY <1>2 DEF Descriptors
<1>5. \A x \in Page : C.next[x] = IF x = b THEN b + n
                                   ELSE IF x = b + n THEN M.next[b]
                                   ELSE M.next[x]
  BY <1>2 DEF Descriptors
<1>6. \A x \in Page : C.prev[x] = IF x = M.next[b] THEN b + n
                                   ELSE IF x = b + n THEN b
                                   ELSE M.prev[x]
  BY <1>2 DEF Descriptors
<1>7. \A x \in Page : C.available[x] = IF x = b + n THEN TRUE ELSE M.available[x]
  BY <1>2, ZenonT(30) DEF Descriptors
<1>8. IsCut(M, b, n, C)
  BY <1>2, <1>3, <1>4, <1>5, <1>6, <1>7, Zenon DEF IsCut
<1> QED BY <1>8 DEF C

\* merge (physmem.c:219-220, 225-226) changes the fields IsMerge says.
LEMMA MergeFields ==
    ASSUME NEW M \in Descriptors, NEW b \in Page, NEW c \in Page,
           M.next[c] # c, M.prev[c] = b, M.head # c
    PROVE  IsMerge(M, b, c, merge(M, b, c))
<1> DEFINE G == merge(M, b, c)
<1>1. M.next[c] \in Page /\ M.pages[b] + M.pages[c] \in Nat
  BY DEF Descriptors
<1>2. /\ G \in Descriptors
      /\ G.head = M.head
      /\ G.linked = M.linked \ {c}
      /\ G.prev = [M.prev EXCEPT ![M.next[c]] = b]
      /\ G.next = [M.next EXCEPT ![b] = M.next[c]]
      /\ G.pages = [M.pages EXCEPT ![b] = M.pages[b] + M.pages[c]]
      /\ G.available = M.available
  BY <1>1, ZenonT(30) DEF merge, list_remove, Descriptors
<1> HIDE DEF G
<1>3. \A x \in Page : x \in G.linked <=> x \in M.linked /\ x # c
  BY <1>2
<1>4. \A x \in Page : G.pages[x] = IF x = b THEN M.pages[b] + M.pages[c]
                                    ELSE M.pages[x]
  BY <1>2 DEF Descriptors
<1>5. \A x \in Page : G.next[x] = IF x = b THEN M.next[c] ELSE M.next[x]
  BY <1>2 DEF Descriptors
<1>6. \A x \in Page : G.prev[x] = IF x = M.next[c] THEN b ELSE M.prev[x]
  BY <1>2 DEF Descriptors
<1>7. IsMerge(M, b, c, G)
  BY <1>2, <1>3, <1>4, <1>5, <1>6 DEF IsMerge
<1> QED BY <1>7 DEF G

-----------------------------------------------------------------------------
(***************************************************************************)
(* Shape is kept by the operations.                                        *)
(***************************************************************************)
\* The types of the fields, and the ring, from Shape.
LEMMA ShapeTypes ==
    ASSUME NEW M, Shape(M)
    PROVE  /\ M \in Descriptors /\ M.linked \in SUBSET Page
           /\ M.prev \in [Page -> Page] /\ M.next \in [Page -> Page]
           /\ M.pages \in [Page -> Nat] /\ M.available \in [Page -> BOOLEAN]
           /\ M.head = 0
           /\ Ring(M.linked, M.prev, M.next, M.pages)
BY DEF Shape, Descriptors

\* What the ring says about one block.
LEMMA ShapeBlock ==
    ASSUME NEW M, Shape(M), NEW b \in M.linked
    PROVE  /\ b \in Page /\ b \in Nat /\ b < NrPages
           /\ M.pages[b] \in Nat /\ M.pages[b] > 0 /\ b + M.pages[b] <= NrPages
           /\ M.next[b] = IF b + M.pages[b] = NrPages THEN 0 ELSE b + M.pages[b]
           /\ M.next[b] \in M.linked /\ M.next[b] \in Page /\ M.next[b] \in Nat
           /\ M.prev[b] \in M.linked /\ M.prev[b] \in Page /\ M.prev[b] \in Nat
           /\ M.prev[M.next[b]] = b /\ M.next[M.prev[b]] = b
           /\ M.available[b] \in BOOLEAN
<1>1. BlockOK(M.linked, M.prev, M.next, M.pages, b)
  BY ShapeTypes DEF Ring
<1>2. b \in Page /\ M.next[b] \in Page /\ M.prev[b] \in Page
  BY ShapeTypes
<1>3. M.pages[b] \in Nat /\ M.available[b] \in BOOLEAN
  BY ShapeTypes, <1>2
<1>4. b \in Nat /\ b < NrPages /\ M.next[b] \in Nat /\ M.prev[b] \in Nat
  BY <1>2, NrPagesNat DEF Page
<1> QED BY <1>1, <1>2, <1>3, <1>4 DEF BlockOK

\* The block after b, when it does not wrap around to the start of memory.
LEMMA ShapeNext ==
    ASSUME NEW M, Shape(M), NEW b \in M.linked, b < M.next[b]
    PROVE  /\ M.next[b] = b + M.pages[b] /\ M.next[b] # 0 /\ M.next[b] # b
           /\ M.next[M.next[b]] # M.next[b]
<1>1. M.next[b] = b + M.pages[b] /\ M.next[b] # 0 /\ M.next[b] # b
  BY ShapeBlock
<1>2. /\ M.next[b] \in Nat
      /\ M.pages[M.next[b]] \in Nat /\ M.pages[M.next[b]] > 0
      /\ \/ M.next[M.next[b]] = 0
         \/ M.next[M.next[b]] = M.next[b] + M.pages[M.next[b]]
  <2>1. M.next[b] \in M.linked
    BY ShapeBlock
  <2> QED BY <2>1, ShapeBlock, SMTT(30)
<1> QED BY <1>1, <1>2

\* The list goes up, and from the last block back to page 0.
LEMMA ShapeWrap ==
    ASSUME NEW M, Shape(M), NEW b \in M.linked
    PROVE  /\ M.next[b] \in Nat /\ M.next[b] \in Page
           /\ M.next[b] = 0 \/ b < M.next[b]
<1>1. /\ b \in Nat /\ M.pages[b] \in Nat /\ M.pages[b] > 0
      /\ M.next[b] \in Nat /\ M.next[b] \in Page
      /\ M.next[b] = 0 \/ M.next[b] = b + M.pages[b]
  BY ShapeBlock
<1> QED BY <1>1

\* The available flags are not part of the ring.
LEMMA FlagShape ==
    ASSUME NEW M, Shape(M), NEW b, NEW v, NEW F, IsFlag(M, b, v, F)
    PROVE  Shape(F)
BY DEF Shape, IsFlag

\* Cutting a block in two keeps Shape.
LEMMA CutShape ==
    ASSUME NEW M, Shape(M), NEW b \in M.linked, NEW n \in Nat,
           0 < n, n < M.pages[b], NEW C, IsCut(M, b, n, C)
    PROVE  Shape(C)
<1>1. /\ C.linked \in SUBSET Page /\ C.prev \in [Page -> Page]
      /\ C.next \in [Page -> Page] /\ C.pages \in [Page -> Nat]
      /\ C \in Descriptors /\ C.head = M.head
  BY DEF IsCut, Descriptors
<1>2. Ring(C.linked, C.prev, C.next, C.pages)
  <2> DEFINE L == M.linked prev == M.prev next == M.next pages == M.pages
             L1 == C.linked prev1 == C.prev next1 == C.next pages1 == C.pages
  <2>1. /\ L \in SUBSET Page /\ prev \in [Page -> Page]
        /\ next \in [Page -> Page] /\ pages \in [Page -> Nat]
        /\ Ring(L, prev, next, pages) /\ b \in L /\ n < pages[b]
    BY ShapeTypes
  <2>2. /\ L1 \in SUBSET Page /\ prev1 \in [Page -> Page]
        /\ next1 \in [Page -> Page] /\ pages1 \in [Page -> Nat]
    BY <1>1
  <2>3. /\ \A x \in Page : x \in L1 <=> x \in L \/ x = b + n
        /\ \A x \in Page : pages1[x] = IF x = b THEN n
                                       ELSE IF x = b + n THEN pages[b] - n
                                       ELSE pages[x]
        /\ \A x \in Page : next1[x] = IF x = b THEN b + n
                                      ELSE IF x = b + n THEN next[b]
                                      ELSE next[x]
        /\ \A x \in Page : prev1[x] = IF x = next[b] THEN b + n
                                      ELSE IF x = b + n THEN b
                                      ELSE prev[x]
    BY SMTT(30) DEF IsCut
  <2> HIDE DEF L, prev, next, pages, L1, prev1, next1, pages1
  <2>4. Ring(L1, prev1, next1, pages1)
    BY <2>1, <2>2, <2>3, CutRing
  <2> QED BY <2>4 DEF L1, prev1, next1, pages1
<1> QED BY <1>1, <1>2 DEF Shape

\* Merging a block with the one after it keeps Shape.
LEMMA MergeShape ==
    ASSUME NEW M, Shape(M), NEW b \in M.linked, b < M.next[b],
           NEW G, IsMerge(M, b, M.next[b], G)
    PROVE  Shape(G)
<1>1. /\ G.linked \in SUBSET Page /\ G.prev \in [Page -> Page]
      /\ G.next \in [Page -> Page] /\ G.pages \in [Page -> Nat]
      /\ G \in Descriptors /\ G.head = M.head
  BY DEF IsMerge, Descriptors
<1>2. Ring(G.linked, G.prev, G.next, G.pages)
  <2> DEFINE L == M.linked prev == M.prev next == M.next pages == M.pages
             L1 == G.linked prev1 == G.prev next1 == G.next pages1 == G.pages
             c == M.next[b]
  <2>1. /\ L \in SUBSET Page /\ prev \in [Page -> Page]
        /\ next \in [Page -> Page] /\ pages \in [Page -> Nat]
        /\ Ring(L, prev, next, pages) /\ b \in L /\ c \in L
        /\ c = next[b] /\ b < c
    BY ShapeTypes, ShapeBlock, SMTT(30)
  <2>2. /\ L1 \in SUBSET Page /\ prev1 \in [Page -> Page]
        /\ next1 \in [Page -> Page] /\ pages1 \in [Page -> Nat]
    BY <1>1
  <2>3. /\ \A x \in Page : x \in L1 <=> x \in L /\ x # c
        /\ \A x \in Page : pages1[x] = IF x = b THEN pages[b] + pages[c]
                                       ELSE pages[x]
        /\ \A x \in Page : next1[x] = IF x = b THEN next[c] ELSE next[x]
        /\ \A x \in Page : prev1[x] = IF x = next[c] THEN b ELSE prev[x]
    BY DEF IsMerge
  <2> HIDE DEF L, prev, next, pages, L1, prev1, next1, pages1, c
  <2>4. Ring(L1, prev1, next1, pages1)
    BY <2>1, <2>2, <2>3, MergeRing
  <2> QED BY <2>4 DEF L1, prev1, next1, pages1
<1> QED BY <1>1, <1>2 DEF Shape

\* Moving the boundary between a block and the hole after it is a merge
\* followed by a cut.
LEMMA MoveFields ==
    ASSUME NEW M, Shape(M), NEW b \in M.linked, b < M.next[b], NEW n \in Nat,
           0 < n, n < M.pages[b] + M.pages[M.next[b]], n # M.pages[b],
           NEW G, IsMerge(M, b, M.next[b], G)
    PROVE  IsCut(G, b, n, move_boundary(M, b, n))
<1> DEFINE c == M.next[b]
           D == move_boundary(M, b, n)
<1>1. /\ M \in Descriptors /\ M.head = 0 /\ b \in Page /\ b \in Nat
      /\ c \in M.linked /\ c \in Page /\ c = b + M.pages[b] /\ c # 0 /\ c # b
      /\ M.pages[b] \in Nat /\ M.prev[c] = b
  BY ShapeTypes, ShapeBlock, ShapeNext, SMTT(30)
<1>2. /\ M.next[c] \in Page /\ M.pages[c] \in Nat /\ c + M.pages[c] <= NrPages
      /\ M.next[c] # c /\ M.next[c] \in M.linked
  BY <1>1, ShapeBlock, ShapeNext, SMTT(30)
<1>3. /\ b + n \in Page /\ b + n # b /\ b + n # c
      /\ M.pages[c] + M.pages[b] - n \in Nat
  BY <1>1, <1>2, NrPagesNat DEF Page
<1> HIDE DEF c
<1>4. /\ D \in Descriptors /\ D.head = 0
      /\ D.linked = (M.linked \ {c}) \cup {b + n}
      /\ D.prev = [[M.prev EXCEPT ![b + n] = b] EXCEPT ![M.next[c]] = b + n]
      /\ D.next = [[M.next EXCEPT ![b + n] = M.next[c]] EXCEPT ![b] = b + n]
      /\ D.pages = [[M.pages EXCEPT ![b + n] = M.pages[c] + M.pages[b] - n]
                            EXCEPT ![b] = n]
      /\ D.available = [M.available EXCEPT ![b + n] = TRUE]
  <2>1. D = [list_replace(M, c, b + n) EXCEPT
               !.available[b + n] = TRUE,
               !.pages = [@ EXCEPT ![b + n] = M.pages[c] + M.pages[b] - n,
                                   ![b] = n],
               !.linked = (@ \ {c}) \cup {b + n}]
    BY DEF move_boundary, c
  <2> HIDE DEF D
  <2> QED BY <2>1, <1>1, <1>2, <1>3, ZenonT(30) DEF list_replace, Descriptors
<1> HIDE DEF D
<1>5. /\ G.head = 0
      /\ \A x \in Page : x \in G.linked <=> x \in M.linked /\ x # c
      /\ \A x \in Page : G.pages[x] = IF x = b THEN M.pages[b] + M.pages[c]
                                      ELSE M.pages[x]
      /\ \A x \in Page : G.next[x] = IF x = b THEN M.next[c] ELSE M.next[x]
      /\ \A x \in Page : G.prev[x] = IF x = M.next[c] THEN b ELSE M.prev[x]
      /\ \A x \in Page : G.available[x] = M.available[x]
  BY <1>1 DEF IsMerge, c
<1>6. G.next[b] = M.next[c] /\ G.pages[b] = M.pages[b] + M.pages[c]
  BY <1>1, <1>5
<1>7. \A x \in Page : x \in D.linked <=> x \in G.linked \/ x = b + n
  BY <1>4, <1>5
<1>8. \A x \in Page : D.pages[x] = IF x = b THEN n
                                   ELSE IF x = b + n THEN G.pages[b] - n
                                   ELSE G.pages[x]
  <2>1. M.pages[c] + M.pages[b] - n = G.pages[b] - n
    BY <1>1, <1>2, <1>6, SMTT(30)
  <2> QED BY <2>1, <1>4, <1>5, <1>1 DEF Descriptors
<1>9. \A x \in Page : D.next[x] = IF x = b THEN b + n
                                  ELSE IF x = b + n THEN G.next[b]
                                  ELSE G.next[x]
  BY <1>4, <1>5, <1>6, <1>1 DEF Descriptors
<1>10. \A x \in Page : D.prev[x] = IF x = G.next[b] THEN b + n
                                   ELSE IF x = b + n THEN b
                                   ELSE G.prev[x]
  BY <1>4, <1>5, <1>6, <1>1 DEF Descriptors
<1>11. \A x \in Page : D.available[x] = IF x = b + n THEN TRUE
                                        ELSE G.available[x]
  <2>a. /\ D.available = [M.available EXCEPT ![b + n] = TRUE]
        /\ M.available \in [Page -> BOOLEAN]
    BY <1>4, <1>1 DEF Descriptors
  <2>1. \A x \in Page : D.available[x] = IF x = b + n THEN TRUE
                                         ELSE M.available[x]
    BY <2>a, <1>3, ZenonT(30)
  <2> QED BY <2>1, <1>5, Zenon
<1>12. IsCut(G, b, n, D)
  BY <1>4, <1>5, <1>7, <1>8, <1>9, <1>10, <1>11, Zenon DEF IsCut
<1> QED BY <1>12 DEF D

\* Cutting a well-formed ring is legitimate: the new descriptor is a page that
\* starts no block.
LEMMA CutIsCut ==
    ASSUME NEW M, Shape(M), NEW b \in M.linked, NEW n \in Nat,
           0 < n, n < M.pages[b]
    PROVE  /\ IsCut(M, b, n, cut_block(M, b, n))
           /\ b + n \in Page /\ b + n \notin M.linked /\ b + n # b
<1>1. /\ M \in Descriptors /\ b \in Page /\ b \in Nat /\ M.pages[b] \in Nat
      /\ b + M.pages[b] <= NrPages /\ M.next[b] \in M.linked
  BY ShapeTypes, ShapeBlock, SMTT(30)
<1>2. b + n \in Page /\ b + n # b /\ M.pages[b] - n \in Nat
  BY <1>1, NrPagesNat DEF Page
<1>3. b + n \notin M.linked
  <2>1. Disjoint(M.linked, M.pages)
    BY ShapeTypes DEF Ring
  <2> QED BY <2>1, <1>1 DEF Disjoint
<1> QED BY <1>1, <1>2, <1>3, CutFields

\* The two blocks merge is called with are neighbours, so it unlinks c only.
LEMMA MergeIsMerge ==
    ASSUME NEW M, Shape(M), NEW b \in M.linked, b < M.next[b]
    PROVE  IsMerge(M, b, M.next[b], merge(M, b, M.next[b]))
<1>1. /\ M \in Descriptors /\ M.head = 0 /\ b \in Page /\ M.next[b] \in Page
      /\ M.next[b] # 0 /\ M.next[M.next[b]] # M.next[b]
      /\ M.prev[M.next[b]] = b
  BY ShapeTypes, ShapeBlock, ShapeNext
<1> QED BY <1>1, MergeFields

-----------------------------------------------------------------------------
(***************************************************************************)
(* WellFormed is kept by the operations.                                   *)
(***************************************************************************)
\* __alloc_physmem_block keeps the blocks well formed, and changes no flag but
\* that of the hole it takes.
LEMMA AllocWellFormed ==
    ASSUME NEW M, WellFormed(M), NEW n \in Nat, 0 < n, NEW b \in Holes(M, n)
    PROVE  /\ WellFormed(alloc_block(M, b, n))
           /\ \A x \in M.linked :
                 /\ x \in alloc_block(M, b, n).linked
                 /\ x # b => alloc_block(M, b, n).available[x] = M.available[x]
<1> DEFINE A == [M EXCEPT !.available[b] = FALSE]
           C == cut_block(A, b, n)
<1>1. /\ Shape(M) /\ b \in M.linked /\ M.available[b] /\ M.pages[b] >= n
      /\ Maximal(M) /\ Stale(M) /\ Kept(M)
  BY DEF WellFormed, Holes
<1>2. M \in Descriptors /\ b \in Page /\ M.linked \subseteq Page
  BY <1>1, ShapeTypes
<1>3. IsFlag(M, b, FALSE, A)
  BY <1>2, FlagFields, Zenon
<1>4. Shape(A)
  BY <1>1, <1>3, FlagShape, Zenon
<1>5. alloc_block(M, b, n) = IF M.pages[b] > n THEN C ELSE A
  BY DEF alloc_block
<1> HIDE DEF A, C
<1>6. /\ A.linked = M.linked /\ A.pages = M.pages /\ A.next = M.next
      /\ \A x \in Page : A.available[x] = IF x = b THEN FALSE ELSE M.available[x]
  BY <1>3, Zenon DEF IsFlag
<1>7. \A x \in M.linked : /\ x \in Page /\ M.next[x] \in M.linked
                          /\ M.next[x] \in Page
  BY <1>1, ShapeBlock
<1>8. Maximal(A) /\ Stale(A) /\ Kept(A)
  <2>1. Maximal(A)
    <3> SUFFICES ASSUME NEW x \in M.linked, x < M.next[x], A.available[M.next[x]]
                 PROVE  ~A.available[x]
      BY <1>6 DEF Maximal, HoleAfter
    <3> QED BY <1>1, <1>6, <1>7, Zenon DEF Maximal, HoleAfter
  <2>2. Stale(A)
    BY <1>1, <1>2, <1>6, Zenon DEF Stale
  <2>3. Kept(A)
    BY <1>1, <1>2, <1>6, Zenon DEF Kept
  <2> QED BY <2>1, <2>2, <2>3
<1>9. CASE M.pages[b] > n
  <2>1. /\ IsCut(A, b, n, C) /\ b + n \in Page /\ b + n \notin M.linked
        /\ b + n # b
    BY <1>4, <1>6, <1>1, <1>9, CutIsCut DEF C
  <2>2. Shape(C)
    BY <2>1, <1>4, <1>6, <1>1, <1>9, CutShape
  <2>3. /\ \A x \in Page : x \in C.linked <=> x \in M.linked \/ x = b + n
        /\ \A x \in Page : C.next[x] = IF x = b THEN b + n
                                       ELSE IF x = b + n THEN M.next[b]
                                       ELSE M.next[x]
        /\ C.linked \subseteq Page
    BY <2>1, <1>6 DEF IsCut, Descriptors
  <2>4. \A x \in Page : C.available[x] = IF x = b + n THEN TRUE
                                         ELSE A.available[x]
    BY <2>1, Zenon DEF IsCut
  <2>5. Maximal(C)
    <3> SUFFICES ASSUME NEW x \in C.linked, x < C.next[x], C.available[C.next[x]],
                        C.available[x]
                 PROVE  FALSE
      BY DEF Maximal, HoleAfter
    <3>1. x \in Page
      BY <2>3
    <3>2. x # b
      BY <2>1, <2>4, <1>2, <1>6, Zenon
    <3>3. CASE x = b + n
      <4>1. b + n < M.next[b] /\ b \in Nat /\ M.next[b] \in Nat
        BY <3>3, <2>3, <2>1, <1>1, ShapeBlock
      <4>2. b < M.next[b]
        BY <4>1
      <4>3. ~M.available[M.next[b]]
        BY <4>2, <1>1 DEF Maximal, HoleAfter
      <4>4. M.next[b] \in M.linked /\ M.next[b] \in Page /\ M.next[b] # b + n
        BY <1>1, <1>7, <2>1
      <4>5. C.available[M.next[b]]
        BY <3>2, <3>3, <2>1, <2>3
      <4>6. A.available[M.next[b]]
        BY <4>4, <4>5, <2>4, Zenon
      <4> QED BY <4>3, <4>4, <4>6, <1>6, Zenon
    <3>4. CASE x # b + n
      <4>1. x \in M.linked /\ M.next[x] \in M.linked /\ M.next[x] \in Page
        BY <3>1, <3>4, <2>3, <1>7
      <4>2. C.next[x] = M.next[x] /\ M.next[x] # b + n
        BY <3>1, <3>2, <3>4, <4>1, <2>1, <2>3
      <4>3. A.available[M.next[x]] /\ A.available[x]
        BY <4>1, <4>2, <3>1, <3>4, <2>4, Zenon
      <4> QED BY <4>1, <4>2, <4>3, <1>6, <1>8 DEF Maximal, HoleAfter
    <3> QED BY <3>3, <3>4
  <2>6. Stale(C)
    <3> SUFFICES ASSUME NEW p \in Page, p \notin C.linked, C.pages[p] # 0
                 PROVE  C.available[p]
      BY DEF Stale
    <3>1. p \notin M.linked /\ p # b + n /\ p # b
      BY <2>3, <1>1
    <3>2. C.pages[p] = M.pages[p]
      BY <3>1, <2>1, <1>6 DEF IsCut
    <3>3. A.available[p]
      BY <3>1, <3>2, <1>6, <1>8 DEF Stale
    <3> QED BY <3>1, <3>3, <2>4, Zenon
  <2>7. Kept(C)
    BY <1>8, <1>6, <1>2, <2>1, <2>3, <2>4, Zenon DEF Kept
  <2>8. \A x \in M.linked : x \in C.linked /\ (x # b => C.available[x] = M.available[x])
    <3> SUFFICES ASSUME NEW x \in M.linked
                 PROVE  x \in C.linked /\ (x # b => C.available[x] = M.available[x])
      OBVIOUS
    <3>1. x \in Page /\ x # b + n /\ x \in C.linked
      BY <1>2, <2>1, <2>3
    <3>2. C.available[x] = A.available[x]
      BY <3>1, <2>4, Zenon
    <3>3. x # b => A.available[x] = M.available[x]
      BY <3>1, <1>6, Zenon
    <3> QED BY <3>1, <3>2, <3>3, Zenon
  <2> QED BY <2>2, <2>5, <2>6, <2>7, <2>8, <1>5, <1>9 DEF WellFormed
<1>10. CASE ~(M.pages[b] > n)
  <2>1. \A x \in M.linked : x \in A.linked /\ (x # b => A.available[x] = M.available[x])
    BY <1>2, <1>6, Zenon
  <2> QED BY <2>1, <1>4, <1>5, <1>8, <1>10 DEF WellFormed
<1> QED BY <1>9, <1>10

\* Between the two merges of free_physmem_block: only the hole before b may
\* still be its neighbour.
AlmostMaximal(G, b) ==
    /\ ~HoleAfter(G, b)
    /\ \A x \in G.linked : x # b /\ G.next[x] # b /\ HoleAfter(G, x)
                           => ~G.available[x]

AlmostFreed(G, b) ==
    /\ Shape(G) /\ b \in G.linked /\ G.available[b] = TRUE
    /\ AlmostMaximal(G, b) /\ Stale(G) /\ Kept(G)

\* After the first if of free_physmem_block (physmem.c:217-221).
LEMMA FreeFirstMerge ==
    ASSUME NEW M, WellFormed(M), NEW b \in M.linked, ~M.available[b],
           b \notin Reserved, NEW F, IsFlag(M, b, TRUE, F)
    PROVE  AlmostFreed(IF HoleAfter(F, b) THEN merge(F, b, F.next[b]) ELSE F, b)
<1> DEFINE G == merge(F, b, F.next[b])
<1>1. Shape(M) /\ Maximal(M) /\ Stale(M) /\ Kept(M)
  BY DEF WellFormed
<1>2. Shape(F) /\ b \in Page /\ M.linked \subseteq Page
  BY <1>1, FlagShape, ShapeTypes, Zenon
<1>3. /\ F.linked = M.linked /\ F.pages = M.pages /\ F.next = M.next
      /\ F.prev = M.prev
      /\ \A x \in Page : F.available[x] = IF x = b THEN TRUE ELSE M.available[x]
  BY Zenon DEF IsFlag
<1>4. F.available[b] = TRUE /\ \A x \in Page : x # b => F.available[x] = M.available[x]
  BY <1>2, <1>3, Zenon
<1>5. Stale(F)
  BY <1>1, <1>3, <1>4 DEF Stale
<1>6. Kept(F)
  BY <1>1, <1>2, <1>3, <1>4 DEF Kept
<1>7. \A x \in M.linked : /\ x \in Page /\ M.next[x] \in M.linked
                          /\ M.next[x] \in Page /\ M.prev[M.next[x]] = x
  BY <1>1, ShapeBlock, SMTT(30)
<1>8. CASE HoleAfter(F, b)
  <2> DEFINE c == M.next[b]
  <2>1. /\ b < c /\ F.available[c] /\ c \in M.linked /\ c \in Page
        /\ c # b /\ c # 0 /\ c \in Nat /\ b \in Nat
    BY <1>8, <1>1, <1>3, ShapeBlock, ShapeNext, SMTT(30) DEF HoleAfter
  <2>2. M.available[c]
    BY <2>1, <1>4
  <2>3. IsMerge(F, b, c, G)
    BY <1>2, <1>3, <2>1, MergeIsMerge
  <2>4. Shape(G)
    BY <1>2, <1>3, <2>1, <2>3, MergeShape
  <2>5. /\ M.next[c] \in Nat /\ M.next[c] \in Page
        /\ M.next[c] = 0 \/ c < M.next[c]
    BY <2>1, <1>1, ShapeWrap
  <2> HIDE DEF c, G
  <2>6. /\ \A x \in Page : x \in G.linked <=> x \in M.linked /\ x # c
        /\ \A x \in Page : G.next[x] = IF x = b THEN M.next[c] ELSE M.next[x]
        /\ \A x \in Page : G.pages[x] = IF x = b THEN M.pages[b] + M.pages[c]
                                        ELSE M.pages[x]
        /\ \A x \in Page : G.available[x] = F.available[x]
        /\ G.linked \subseteq Page
    BY <2>3, <1>3 DEF IsMerge, Descriptors
  <2>7. b \in G.linked /\ G.available[b] = TRUE /\ G.next[b] = M.next[c]
    BY <2>1, <2>6, <1>2, <1>4, SMTT(30)
  <2>8. ~HoleAfter(G, b)
    <3> SUFFICES ASSUME b < M.next[c], G.available[M.next[c]]
                 PROVE  FALSE
      BY <2>7 DEF HoleAfter
    <3>1. c < M.next[c] /\ M.next[c] # b
      BY <2>1, <2>5
    <3>2. M.available[M.next[c]]
      BY <3>1, <2>5, <2>6, <1>4
    <3> QED BY <3>1, <3>2, <2>1, <2>2, <1>1 DEF Maximal, HoleAfter
  <2>9. ASSUME NEW x \in G.linked, x # b, G.next[x] # b, HoleAfter(G, x)
        PROVE  ~G.available[x]
    <3>1. x \in Page /\ x \in M.linked /\ G.next[x] = M.next[x]
      BY <2>6, <2>9
    <3>2. M.next[x] \in Page /\ M.next[x] # b /\ x < M.next[x]
      BY <3>1, <2>9, <1>7 DEF HoleAfter
    <3>3. M.available[M.next[x]]
      BY <3>1, <3>2, <2>6, <2>9, <1>4 DEF HoleAfter
    <3>4. ~M.available[x]
      BY <3>1, <3>2, <3>3, <1>1 DEF Maximal, HoleAfter
    <3> QED BY <3>1, <3>4, <2>6, <2>9, <1>4
  <2>10. Stale(G)
    <3> SUFFICES ASSUME NEW p \in Page, p \notin G.linked, G.pages[p] # 0
                 PROVE  G.available[p]
      BY DEF Stale
    <3>1. CASE p = c
      BY <3>1, <2>1, <2>6
    <3>2. CASE p # c
      <4>1. p \notin M.linked /\ p # b /\ M.pages[p] # 0
        BY <3>2, <2>6
      <4>2. M.available[p]
        BY <4>1, <1>1 DEF Stale
      <4> QED BY <4>1, <4>2, <2>6, <1>4
    <3> QED BY <3>1, <3>2
  <2>11. Kept(G)
    <3> SUFFICES ASSUME NEW r \in Reserved
                 PROVE  r \in G.linked /\ ~G.available[r]
      BY DEF Kept
    <3>1. r \in M.linked /\ ~M.available[r] /\ r \in Page /\ r # b
      BY <1>1, <1>2, SMTT(30) DEF Kept
    <3> QED BY <3>1, <2>2, <2>6, <1>4
  <2>12. AlmostMaximal(G, b)
    BY <2>8, <2>9, Zenon DEF AlmostMaximal
  <2>13. AlmostFreed(G, b)
    BY <2>4, <2>7, <2>10, <2>11, <2>12, Zenon DEF AlmostFreed
  <2> QED BY <1>8, <2>13, Zenon DEF G
<1>9. CASE ~HoleAfter(F, b)
  <2>1. ASSUME NEW x \in F.linked, x # b, F.next[x] # b, HoleAfter(F, x)
        PROVE  ~F.available[x]
    <3>1. x \in Page /\ M.next[x] \in Page /\ x < M.next[x] /\ M.next[x] # b
      BY <2>1, <1>3, <1>7 DEF HoleAfter
    <3>2. M.available[M.next[x]]
      BY <3>1, <2>1, <1>3, <1>4 DEF HoleAfter
    <3> QED BY <3>1, <3>2, <2>1, <1>1, <1>3, <1>4 DEF Maximal, HoleAfter
  <2> QED BY <1>9, <2>1, <1>2, <1>3, <1>4, <1>5, <1>6, SMTT(30)
          DEF AlmostFreed, AlmostMaximal
<1> QED BY <1>8, <1>9

\* After the second if of free_physmem_block (physmem.c:223-227).
LEMMA FreeSecondMerge ==
    ASSUME NEW G, NEW b, AlmostFreed(G, b), b \notin Reserved
    PROVE  WellFormed(IF HoleBefore(G, b) THEN merge(G, G.prev[b], b) ELSE G)
<1>1. /\ Shape(G) /\ b \in G.linked /\ G.available[b] /\ Stale(G) /\ Kept(G)
      /\ ~HoleAfter(G, b)
      /\ \A x \in G.linked : x # b /\ G.next[x] # b /\ HoleAfter(G, x)
                             => ~G.available[x]
  BY SMTT(30) DEF AlmostFreed, AlmostMaximal
<1>2. \A x \in G.linked : /\ x \in Page /\ x \in Nat /\ G.next[x] \in G.linked
                          /\ G.next[x] \in Page /\ G.prev[G.next[x]] = x
                          /\ G.next[x] \in Nat
  BY <1>1, ShapeBlock
<1>3. CASE ~HoleBefore(G, b)
  <2>1. Maximal(G)
    <3> SUFFICES ASSUME NEW x \in G.linked, HoleAfter(G, x), G.available[x]
                 PROVE  FALSE
      BY DEF Maximal
    <3>1. x # b /\ G.next[x] = b
      BY <1>1
    <3>2. G.prev[b] = x /\ x < b
      BY <3>1, <1>2 DEF HoleAfter
    <3> QED BY <3>2, <1>3 DEF HoleBefore
  <2> QED BY <1>1, <1>3, <2>1 DEF WellFormed
<1>4. CASE HoleBefore(G, b)
  <2> DEFINE p == G.prev[b]
             H == merge(G, p, b)
  <2>1. /\ p \in G.linked /\ p \in Page /\ p \in Nat /\ b \in Nat /\ b \in Page
        /\ p < b /\ G.available[p] /\ G.next[p] = b
    BY <1>1, <1>4, ShapeBlock, SMTT(30) DEF HoleBefore
  <2>2. IsMerge(G, p, b, H)
    BY <2>1, <1>1, MergeIsMerge
  <2>3. Shape(H)
    BY <2>1, <2>2, <1>1, MergeShape
  <2>4. G.next[b] \in Nat /\ G.next[b] \in Page /\ (G.next[b] = 0 \/ b < G.next[b])
    BY <1>1, ShapeWrap
  <2> HIDE DEF p, H
  <2>5. /\ \A x \in Page : x \in H.linked <=> x \in G.linked /\ x # b
        /\ \A x \in Page : H.next[x] = IF x = p THEN G.next[b] ELSE G.next[x]
        /\ \A x \in Page : H.pages[x] = IF x = p THEN G.pages[p] + G.pages[b]
                                        ELSE G.pages[x]
        /\ \A x \in Page : H.available[x] = G.available[x]
        /\ H.linked \subseteq Page
    BY <2>2 DEF IsMerge, Descriptors
  <2>6. Maximal(H)
    <3> SUFFICES ASSUME NEW x \in H.linked, x < H.next[x], H.available[H.next[x]],
                        H.available[x]
                 PROVE  FALSE
      BY DEF Maximal, HoleAfter
    <3>1. x \in Page /\ x \in G.linked /\ x # b
      BY <2>5
    <3>2. CASE x = p
      <4>1. H.next[x] = G.next[b] /\ p < G.next[b] /\ G.available[G.next[b]]
        BY <3>1, <3>2, <2>4, <2>5
      <4>2. b < G.next[b]
        BY <4>1, <2>1, <2>4, SMTT(30)
      <4> QED BY <4>1, <4>2, <1>1 DEF HoleAfter
    <3>3. CASE x # p
      <4>1. H.next[x] = G.next[x] /\ G.next[x] \in Page /\ G.next[x] # b
        BY <3>1, <3>3, <2>5, <1>2 DEF p
      <4>2. G.available[x] /\ G.available[G.next[x]] /\ x < G.next[x]
        BY <3>1, <4>1, <2>5
      <4> QED BY <3>1, <4>1, <4>2, <1>1 DEF HoleAfter
    <3> QED BY <3>2, <3>3
  <2>7. Stale(H)
    <3> SUFFICES ASSUME NEW q \in Page, q \notin H.linked, H.pages[q] # 0
                 PROVE  H.available[q]
      BY DEF Stale
    <3>1. CASE q = b
      BY <3>1, <2>5, <1>1
    <3>2. CASE q # b
      <4>1. q \notin G.linked /\ q # p /\ G.pages[q] # 0
        BY <3>2, <2>5, <2>1
      <4> QED BY <4>1, <1>1, <2>5 DEF Stale
    <3> QED BY <3>1, <3>2
  <2>8. Kept(H)
    <3> SUFFICES ASSUME NEW r \in Reserved
                 PROVE  r \in H.linked /\ ~H.available[r]
      BY DEF Kept
    <3>1. r \in G.linked /\ ~G.available[r] /\ r \in Page /\ r # b
      BY <1>1, <1>2 DEF Kept
    <3> QED BY <3>1, <2>5
  <2> QED BY <1>4, <2>3, <2>6, <2>7, <2>8, SMTT(30) DEF WellFormed, H, p
<1> QED BY <1>3, <1>4

\* free_physmem_block keeps the blocks well formed.
LEMMA FreeWellFormed ==
    ASSUME NEW M, WellFormed(M), NEW b \in M.linked, ~M.available[b],
           b \notin Reserved
    PROVE  WellFormed(free_block(M, b))
<1> DEFINE F == [M EXCEPT !.available[b] = TRUE]
           G == IF HoleAfter(F, b) THEN merge(F, b, F.next[b]) ELSE F
<1>1. M \in Descriptors /\ b \in Page
  BY ShapeTypes DEF WellFormed
<1>2. IsFlag(M, b, TRUE, F)
  BY <1>1, FlagFields, Zenon
<1>3. free_block(M, b) = IF HoleBefore(G, b) THEN merge(G, G.prev[b], b) ELSE G
  BY DEF free_block
<1> HIDE DEF F
<1>4. AlmostFreed(G, b)
  BY <1>2, FreeFirstMerge, Zenon
<1> HIDE DEF G
<1> QED BY <1>3, <1>4, FreeSecondMerge

\* realloc_physmem_block shrinks a block that no hole follows: a cut.
LEMMA CutWellFormed ==
    ASSUME NEW M, WellFormed(M), NEW b \in M.linked, ~M.available[b],
           ~HoleAfter(M, b), NEW n \in Nat, 0 < n, n < M.pages[b],
           NEW C, IsCut(M, b, n, C)
    PROVE  WellFormed(C)
<1>1. Shape(M) /\ Maximal(M) /\ Stale(M) /\ Kept(M)
  BY SMTT(30) DEF WellFormed
<1>2. /\ b + n \in Page /\ b + n \notin M.linked /\ b + n # b
      /\ b \in Page /\ b \in Nat /\ M.linked \subseteq Page
  BY <1>1, CutIsCut, ShapeBlock, ShapeTypes, SMTT(60)
<1>3. Shape(C)
  BY <1>1, CutShape
<1>4. /\ \A x \in Page : x \in C.linked <=> x \in M.linked \/ x = b + n
      /\ \A x \in Page : C.next[x] = IF x = b THEN b + n
                                     ELSE IF x = b + n THEN M.next[b]
                                     ELSE M.next[x]
      /\ \A x \in Page : C.pages[x] = IF x = b THEN n
                                      ELSE IF x = b + n THEN M.pages[b] - n
                                      ELSE M.pages[x]
      /\ C.linked \subseteq Page
  BY DEF IsCut, Descriptors
<1>5. /\ C.available[b + n] = TRUE
      /\ \A x \in Page : x # b + n => C.available[x] = M.available[x]
  <2>1. \A x \in Page : C.available[x] = IF x = b + n THEN TRUE
                                         ELSE M.available[x]
    BY ZenonT(30) DEF IsCut
  <2> QED BY <2>1, <1>2, Zenon
<1>6. Maximal(C)
  <2> SUFFICES ASSUME NEW x \in C.linked, x < C.next[x], C.available[C.next[x]],
                      C.available[x]
               PROVE  FALSE
    BY DEF Maximal, HoleAfter
  <2>1. x \in Page /\ x # b
    BY <1>2, <1>4, <1>5
  <2>2. CASE x = b + n
    <3>1. /\ C.next[x] = M.next[b] /\ M.next[b] \in M.linked
          /\ M.next[b] \in Page /\ M.next[b] \in Nat
      BY <2>1, <2>2, <1>1, <1>4, ShapeBlock, Zenon
    <3>2. b < M.next[b]
      BY <2>2, <3>1, <1>2, SMTT(60)
    <3>3. M.available[M.next[b]]
      BY <3>1, <1>2, <1>5, SMTT(30)
    <3> QED BY <3>2, <3>3, SMTT(30) DEF HoleAfter
  <2>3. CASE x # b + n
    <3>1. x \in M.linked /\ C.next[x] = M.next[x]
      BY <2>1, <2>3, <1>4, Zenon
    <3>2. M.next[x] \in M.linked /\ M.next[x] \in Page
      BY <3>1, <1>1, ShapeBlock, Zenon
    <3>3. M.available[M.next[x]] /\ M.available[x]
      BY <3>1, <3>2, <2>1, <2>3, <1>2, <1>5, Zenon
    <3> QED BY <3>1, <3>3, <1>1, Zenon DEF Maximal, HoleAfter
  <2> QED BY <2>2, <2>3
<1>7. Stale(C)
  BY <1>1, <1>2, <1>4, <1>5 DEF Stale
<1>8. Kept(C)
  BY <1>1, <1>2, <1>4, <1>5, ZenonT(30) DEF Kept
<1> QED BY <1>3, <1>6, <1>7, <1>8 DEF WellFormed

\* An allocated block takes all of the hole after it: what remains well formed
\* is the ring with the hole merged into the block.
LEMMA AbsorbWellFormed ==
    ASSUME NEW M, WellFormed(M), NEW b \in M.linked, ~M.available[b],
           HoleAfter(M, b), NEW G, IsMerge(M, b, M.next[b], G)
    PROVE  /\ WellFormed(G) /\ b \in G.linked /\ ~G.available[b]
           /\ ~HoleAfter(G, b)
           /\ G.pages[b] = M.pages[b] + M.pages[M.next[b]]
<1> DEFINE c == M.next[b]
<1>1. Shape(M) /\ Maximal(M) /\ Stale(M) /\ Kept(M)
  BY SMTT(30) DEF WellFormed
<1>2. /\ b < c /\ M.available[c] /\ c \in M.linked /\ c \in Page
      /\ c # b /\ c # 0 /\ c \in Nat /\ b \in Nat /\ b \in Page
  BY <1>1, ShapeBlock, ShapeNext, SMTT(60) DEF HoleAfter
<1>3. Shape(G)
  BY <1>1, <1>2, MergeShape, Zenon
<1>4. /\ M.next[c] \in Nat /\ M.next[c] \in Page
      /\ M.next[c] = 0 \/ c < M.next[c]
  BY <1>1, <1>2, ShapeWrap, Zenon
<1>5. /\ \A x \in Page : x \in G.linked <=> x \in M.linked /\ x # c
      /\ \A x \in Page : G.next[x] = IF x = b THEN M.next[c] ELSE M.next[x]
      /\ \A x \in Page : G.pages[x] = IF x = b THEN M.pages[b] + M.pages[c]
                                      ELSE M.pages[x]
      /\ \A x \in Page : G.available[x] = M.available[x]
  BY Zenon DEF IsMerge
<1>l. G.linked \subseteq Page /\ M.linked \subseteq Page
  BY <1>1, <1>3, ShapeTypes
<1> HIDE DEF c
<1>6. /\ b \in G.linked /\ ~G.available[b] /\ G.next[b] = M.next[c]
      /\ G.pages[b] = M.pages[b] + M.pages[c]
  BY <1>2, <1>5
<1>7. ~HoleAfter(G, b)
  <2> SUFFICES ASSUME b < M.next[c], G.available[M.next[c]]
               PROVE  FALSE
    BY <1>6 DEF HoleAfter
  <2>1. c < M.next[c]
    BY <1>2, <1>4
  <2>2. M.available[M.next[c]]
    BY <1>4, <1>5, Zenon
  <2> QED BY <2>1, <2>2, <1>1, <1>2 DEF Maximal, HoleAfter
<1>8. Maximal(G)
  <2> SUFFICES ASSUME NEW x \in G.linked, x < G.next[x], G.available[G.next[x]],
                      G.available[x]
               PROVE  FALSE
    BY Zenon DEF Maximal, HoleAfter
  <2>1. x \in Page /\ x \in M.linked /\ x # b /\ G.next[x] = M.next[x]
    BY <1>5, <1>6, <1>l, Zenon
  <2>2. M.next[x] \in Page
    BY <2>1, <1>1, ShapeBlock
  <2> QED BY <2>1, <2>2, <1>1, <1>5, Zenon DEF Maximal, HoleAfter
<1>9. Stale(G)
  <2> SUFFICES ASSUME NEW p \in Page, p \notin G.linked, G.pages[p] # 0
               PROVE  G.available[p]
    BY DEF Stale
  <2>1. CASE p = c
    BY <2>1, <1>2, <1>5, SMTT(30)
  <2>2. CASE p # c
    <3>1. p \notin M.linked /\ p # b /\ M.pages[p] # 0
      BY <2>2, <1>5
    <3> QED BY <3>1, <1>1, <1>5 DEF Stale
  <2> QED BY <2>1, <2>2
<1>10. Kept(G)
  BY <1>1, <1>2, <1>5, <1>l, ZenonT(30) DEF Kept
<1> QED BY <1>3, <1>6, <1>7, <1>8, <1>9, <1>10 DEF WellFormed, c

\* realloc_physmem_block moves the boundary between a block and the hole after
\* it (physmem.c:267-272, 294-299): the blocks stay well formed.
LEMMA MoveWellFormed ==
    ASSUME NEW M, WellFormed(M), NEW b \in M.linked, ~M.available[b],
           HoleAfter(M, b), NEW n \in Nat, 0 < n, n # M.pages[b],
           n < M.pages[b] + M.pages[M.next[b]]
    PROVE  WellFormed(move_boundary(M, b, n))
<1> DEFINE G == merge(M, b, M.next[b])
<1>1. Shape(M) /\ b < M.next[b]
  BY DEF WellFormed, HoleAfter
<1>2. IsMerge(M, b, M.next[b], G)
  BY <1>1, MergeIsMerge
<1> HIDE DEF G
<1>3. IsCut(G, b, n, move_boundary(M, b, n))
  BY <1>1, <1>2, MoveFields
<1>4. /\ WellFormed(G) /\ b \in G.linked /\ ~G.available[b] /\ ~HoleAfter(G, b)
      /\ n < G.pages[b]
  BY <1>2, AbsorbWellFormed
<1> QED BY <1>3, <1>4, CutWellFormed

-----------------------------------------------------------------------------
(***************************************************************************)
(* What the operations do to the blocks that are not holes, and to their   *)
(* sizes: an operation gives pages to one block, or takes one block away.  *)
(***************************************************************************)
Busy(M) == {b \in M.linked : ~M.available[b]}

Gives(M, b, n, A) ==
    /\ Busy(A) = Busy(M) \cup {b} /\ A.pages[b] = n
    /\ \A x \in Busy(M) : x # b => A.pages[x] = M.pages[x]

Takes(M, b, F) ==
    /\ Busy(F) = Busy(M) \ {b}
    /\ \A x \in Busy(F) : F.pages[x] = M.pages[x]

\* Cutting a block shortens it and leaves the other allocated blocks alone.
LEMMA CutGives ==
    ASSUME NEW M, Shape(M), NEW b \in Busy(M), NEW n \in Nat,
           0 < n, n < M.pages[b], NEW C, IsCut(M, b, n, C)
    PROVE  Gives(M, b, n, C)
<1>1. b \in M.linked /\ ~M.available[b] /\ M.linked \subseteq Page /\ b \in Page
  BY ShapeTypes DEF Busy
<1>2. b + n \in Page /\ b + n \notin M.linked /\ b + n # b
  BY <1>1, CutIsCut
<1>3. C.linked \subseteq Page
  BY DEF IsCut, Descriptors
<1>4. /\ C.available[b + n] = TRUE
      /\ \A x \in Page : x # b + n => C.available[x] = M.available[x]
  <2>1. \A x \in Page : C.available[x] = IF x = b + n THEN TRUE
                                         ELSE M.available[x]
    BY ZenonT(30) DEF IsCut
  <2> QED BY <2>1, <1>2, Zenon
<1>5. \A x \in Page : x \in C.linked <=> x \in M.linked \/ x = b + n
  BY DEF IsCut
<1>6. \A x \in Page : C.pages[x] = IF x = b THEN n
                                   ELSE IF x = b + n THEN M.pages[b] - n
                                   ELSE M.pages[x]
  BY DEF IsCut
<1>7. \A x \in Page : x \in Busy(C) <=> x \in Busy(M)
  BY <1>2, <1>4, <1>5, Zenon DEF Busy
<1>8. Busy(C) = Busy(M) \cup {b}
  BY <1>1, <1>3, <1>7 DEF Busy
<1>9. C.pages[b] = n
  BY <1>1, <1>6
<1>10. ASSUME NEW x \in Busy(M), x # b PROVE C.pages[x] = M.pages[x]
  <2>1. x \in Page /\ x # b + n
    BY <1>1, <1>2 DEF Busy
  <2> QED BY <2>1, <1>6, <1>10
<1> QED BY <1>8, <1>9, <1>10 DEF Gives

\* Merging a hole into the block before it only changes the size of that block.
LEMMA MergeBusy ==
    ASSUME NEW M, Shape(M), NEW b \in M.linked, NEW c \in M.linked,
           M.available[c], NEW G, IsMerge(M, b, c, G)
    PROVE  /\ Busy(G) = Busy(M)
           /\ \A x \in Busy(M) : x # b => G.pages[x] = M.pages[x]
<1>1. M.linked \subseteq Page /\ G.linked \subseteq Page
  BY ShapeTypes DEF IsMerge, Descriptors
<1>2. \A x \in Page : x \in G.linked <=> x \in M.linked /\ x # c
  BY DEF IsMerge
<1>3. \A x \in Page : G.available[x] = M.available[x]
  BY DEF IsMerge
<1>4. \A x \in Page : G.pages[x] = IF x = b THEN M.pages[b] + M.pages[c]
                                   ELSE M.pages[x]
  BY DEF IsMerge
<1>5. \A x \in Page : x \in Busy(G) <=> x \in Busy(M)
  BY <1>2, <1>3, Zenon DEF Busy
<1>6. Busy(G) = Busy(M)
  BY <1>1, <1>5 DEF Busy
<1> QED BY <1>1, <1>4, <1>6 DEF Busy

\* __alloc_physmem_block gives n pages to the hole it found.
LEMMA AllocGives ==
    ASSUME NEW M, WellFormed(M), NEW n \in Nat, 0 < n, NEW b \in Holes(M, n)
    PROVE  Gives(M, b, n, alloc_block(M, b, n))
<1> DEFINE A == [M EXCEPT !.available[b] = FALSE]
           C == cut_block(A, b, n)
<1>1. Shape(M) /\ b \in M.linked /\ M.available[b] /\ M.pages[b] >= n
  BY DEF WellFormed, Holes
<1>2. M \in Descriptors /\ b \in Page /\ M.linked \subseteq Page
  BY <1>1, ShapeTypes
<1>3. IsFlag(M, b, FALSE, A)
  BY <1>2, FlagFields, Zenon
<1>4. Shape(A)
  BY <1>1, <1>3, FlagShape, Zenon
<1>5. alloc_block(M, b, n) = IF M.pages[b] > n THEN C ELSE A
  BY DEF alloc_block
<1> HIDE DEF A, C
<1>6. /\ A.linked = M.linked /\ A.pages = M.pages
      /\ \A x \in Page : A.available[x] = IF x = b THEN FALSE ELSE M.available[x]
  BY <1>3, Zenon DEF IsFlag
<1>7. Busy(A) = Busy(M) \cup {b} /\ b \in Busy(A)
  <2>1. \A x \in Page : x \in Busy(A) <=> x \in Busy(M) \/ x = b
    BY <1>1, <1>6, Zenon DEF Busy
  <2> QED BY <2>1, <1>2, <1>6 DEF Busy
<1>8. CASE M.pages[b] > n
  <2>1. IsCut(A, b, n, C)
    BY <1>4, <1>6, <1>1, <1>8, CutIsCut DEF C
  <2>2. Gives(A, b, n, C)
    BY <2>1, <1>4, <1>6, <1>7, <1>8, CutGives
  <2> QED BY <2>2, <1>5, <1>6, <1>7, <1>8 DEF Gives
<1>9. CASE ~(M.pages[b] > n)
  <2>1. M.pages[b] \in Nat
    BY <1>1, ShapeBlock
  <2>2. M.pages[b] = n
    BY <2>1, <1>1, <1>9
  <2> QED BY <2>2, <1>5, <1>6, <1>7, <1>9 DEF Gives
<1> QED BY <1>8, <1>9

\* free_physmem_block takes one block away, whatever it merges it with.
LEMMA FreeTakes ==
    ASSUME NEW M, WellFormed(M), NEW b \in Busy(M), b \notin Reserved
    PROVE  Takes(M, b, free_block(M, b))
<1> DEFINE F == [M EXCEPT !.available[b] = TRUE]
           G == IF HoleAfter(F, b) THEN merge(F, b, F.next[b]) ELSE F
<1>1. M \in Descriptors /\ b \in Page /\ Shape(M) /\ M.linked \subseteq Page
      /\ b \in M.linked /\ ~M.available[b]
  BY ShapeTypes DEF WellFormed, Busy
<1>2. IsFlag(M, b, TRUE, F)
  BY <1>1, FlagFields, Zenon
<1>3. free_block(M, b) = IF HoleBefore(G, b) THEN merge(G, G.prev[b], b) ELSE G
  BY DEF free_block
<1> HIDE DEF F
<1>4. AlmostFreed(G, b)
  BY <1>1, <1>2, FreeFirstMerge, Zenon
<1>5. Shape(F)
  BY <1>1, <1>2, FlagShape, Zenon
<1>6. /\ F.linked = M.linked /\ F.pages = M.pages
      /\ \A x \in Page : F.available[x] = IF x = b THEN TRUE ELSE M.available[x]
  BY <1>2, Zenon DEF IsFlag
<1>7. Busy(F) = Busy(M) \ {b}
  <2>1. \A x \in Page : x \in Busy(F) <=> x \in Busy(M) /\ x # b
    BY <1>1, <1>6, Zenon DEF Busy
  <2> QED BY <2>1, <1>1, <1>6 DEF Busy
<1>8. Busy(G) = Busy(F) /\ \A x \in Busy(F) : G.pages[x] = F.pages[x]
  <2>1. CASE HoleAfter(F, b)
    <3>1. /\ F.next[b] \in F.linked /\ b < F.next[b] /\ F.available[F.next[b]]
          /\ b \in F.linked
      BY <2>1, <1>1, <1>5, <1>6, ShapeBlock DEF HoleAfter
    <3>2. IsMerge(F, b, F.next[b], G)
      BY <3>1, <2>1, <1>5, MergeIsMerge
    <3> HIDE DEF G
    <3> QED BY <3>1, <3>2, <1>5, <1>7, MergeBusy
  <2>2. CASE ~HoleAfter(F, b)
    BY <2>2
  <2> QED BY <2>1, <2>2
<1> HIDE DEF G
<1>9. Shape(G) /\ b \in G.linked /\ G.available[b]
  BY <1>4 DEF AlmostFreed
<1>10. CASE HoleBefore(G, b)
  <2> DEFINE p == G.prev[b]
             H == merge(G, p, b)
  <2>1. p \in G.linked /\ p < b /\ G.available[p] /\ G.next[p] = b
    BY <1>9, <1>10, ShapeBlock DEF HoleBefore
  <2>2. IsMerge(G, p, b, H)
    BY <2>1, <1>9, MergeIsMerge
  <2> HIDE DEF p, H
  <2>3. Busy(H) = Busy(G) /\ \A x \in Busy(G) : x # p => H.pages[x] = G.pages[x]
    BY <2>1, <2>2, <1>9, MergeBusy
  <2>4. p \notin Busy(G)
    BY <2>1 DEF Busy
  <2>5. Takes(M, b, H)
    BY <2>3, <2>4, <1>6, <1>7, <1>8 DEF Takes
  <2> QED BY <2>5, <1>3, <1>10 DEF H, p
<1>11. CASE ~HoleBefore(G, b)
  BY <1>3, <1>6, <1>7, <1>8, <1>11 DEF Takes
<1> QED BY <1>10, <1>11

\* realloc_physmem_block gives the block its new size when it moves the boundary
\* between the block and the hole after it.
LEMMA MoveGives ==
    ASSUME NEW M, WellFormed(M), NEW b \in Busy(M),
           HoleAfter(M, b), NEW n \in Nat, 0 < n, n # M.pages[b],
           n < M.pages[b] + M.pages[M.next[b]]
    PROVE  Gives(M, b, n, move_boundary(M, b, n))
<1> DEFINE G == merge(M, b, M.next[b])
<1>1. /\ Shape(M) /\ b < M.next[b] /\ b \in M.linked /\ ~M.available[b]
      /\ M.available[M.next[b]]
  BY DEF WellFormed, HoleAfter, Busy
<1>2. IsMerge(M, b, M.next[b], G)
  BY <1>1, MergeIsMerge
<1>3. M.next[b] \in M.linked
  BY <1>1, ShapeBlock
<1> HIDE DEF G
<1>4. IsCut(G, b, n, move_boundary(M, b, n))
  BY <1>1, <1>2, MoveFields
<1>5. /\ Shape(G) /\ b \in G.linked /\ ~G.available[b] /\ n < G.pages[b]
  BY <1>1, <1>2, AbsorbWellFormed, SMTT(60) DEF WellFormed
<1>6. Busy(G) = Busy(M) /\ \A x \in Busy(M) : x # b => G.pages[x] = M.pages[x]
  BY <1>1, <1>2, <1>3, MergeBusy
<1>7. Gives(G, b, n, move_boundary(M, b, n))
  BY <1>4, <1>5, <1>6, CutGives
<1> QED BY <1>6, <1>7 DEF Gives

=============================================================================
