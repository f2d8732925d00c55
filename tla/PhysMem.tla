------------------------------ MODULE PhysMem ------------------------------
(***************************************************************************)
(* The physical memory allocator of kernel/physmem.c.                      *)
(*                                                                         *)
(* There is one block descriptor per page of memory, in an array, so a     *)
(* descriptor, the page it stands for and that page's address are the same *)
(* number here.  Only the descriptors of the first page of a block are     *)
(* linked into block_list_head; the others hold stale values.              *)
(*                                                                         *)
(* Every operation runs between disable_hwint and restore_hwint and calls  *)
(* nothing that sleeps: it is one step.  What the pages hold (the memset   *)
(* and memcpy calls) is in PhysMemContents.tla.                            *)
(***************************************************************************)
EXTENDS Lists, Integers

CONSTANTS
    PAGE_SIZE,              \* bytes per page
    SIZEOF_BLOCK,           \* sizeof(struct block), in bytes
    memsize,                \* bytes of memory, from the boot loader
    e_kernel,               \* __e_kernel, the end of the kernel image
    BIOS_START, BIOS_END,   \* BIOS_AND_VIDEO_MEMORY_START / _END
    MaxRequest              \* bound: the largest number of pages asked for

ASSUME SizesAssumption ==
    /\ PAGE_SIZE \in Nat \ {0}
    /\ {SIZEOF_BLOCK, memsize, e_kernel, BIOS_START, BIOS_END} \subseteq Nat
    /\ MaxRequest \in Nat
    /\ NULL \notin Nat

PAGE_ALIGN_INF(addr) == addr \div PAGE_SIZE
PAGE_ALIGN_SUP(addr) == (addr + PAGE_SIZE - 1) \div PAGE_SIZE

NrPages == memsize \div PAGE_SIZE
Page    == 0..(NrPages - 1)

Span(b, n) == b..(b + n - 1)

VARIABLES
    mm,         \* the block descriptors and their list, see Descriptors
    reply,      \* what the last call returned to its caller
    stopped     \* "no", "panic", or "undefined" after undefined behaviour

vars == <<mm, reply, stopped>>

(***************************************************************************)
(* head, prev, next are the list, pages and available the other members of *)
(* struct block.  linked is the set of descriptors in the list; the code   *)
(* has no such variable, it is what list_for_each visits (ListIsLinked).   *)
(***************************************************************************)
Descriptors ==
    [head : Page \cup {NULL}, prev : [Page -> Page], next : [Page -> Page],
     pages : [Page -> Nat], available : [Page -> BOOLEAN],
     linked : SUBSET Page]

Results == {"none", "S_OK", "E_NOMEM", "E_FAIL"}

NoReply == [op |-> "none", addr |-> 0, n |-> 0, old |-> 0, res |-> "none"]

TypeOK ==
    /\ mm \in Descriptors
    /\ reply \in [op : {"none", "alloc", "free", "realloc"}, addr : Page,
                  n : Nat, old : Nat, res : Results]
    /\ stopped \in {"no", "panic", "undefined"}

-----------------------------------------------------------------------------
(***************************************************************************)
(* init_physmem.  A segment is a start address, an end address and whether *)
(* it is a hole; add_block links a descriptor for each, in this order.     *)
(***************************************************************************)
UseLowMem  == NrPages * SIZEOF_BLOCK <= BIOS_START - e_kernel
UseHighMem == NrPages * SIZEOF_BLOCK <= memsize - BIOS_END

descriptor_array_end ==
    (IF UseLowMem THEN e_kernel ELSE BIOS_END) + NrPages * SIZEOF_BLOCK

Segment(start, end, is_hole) == [start |-> start, end |-> end, hole |-> is_hole]

Layout ==
    IF UseLowMem
    THEN << Segment(0, descriptor_array_end, FALSE),
            Segment(descriptor_array_end, BIOS_START, TRUE),
            Segment(BIOS_START, BIOS_END, FALSE),
            Segment(BIOS_END, memsize, TRUE) >>
    ELSE << Segment(0, e_kernel, FALSE),
            Segment(e_kernel, BIOS_START, TRUE),
            Segment(BIOS_START, descriptor_array_end, FALSE),
            Segment(descriptor_array_end, memsize, TRUE) >>

\* The descriptor of the i-th segment, and one past its last page.
First(i) == PAGE_ALIGN_INF(Layout[i].start)
Past(i)  == PAGE_ALIGN_SUP(Layout[i].end)

\* The blocks the kernel never gives out: itself, the BIOS, the descriptors.
Reserved == {First(1), First(3)}

add_block(M, i) ==
    [list_append(M, First(i)) EXCEPT !.pages[First(i)] = Past(i) - First(i),
                                     !.available[First(i)] = Layout[i].hole,
                                     !.linked = @ \cup {First(i)}]

\* A descriptor that was never linked is all zeros here.  On the machine it is
\* whatever was in memory, but no operation reads one before writing it.
RawDescriptors ==
    [head |-> NULL, prev |-> [p \in Page |-> 0], next |-> [p \in Page |-> 0],
     pages |-> [p \in Page |-> 0], available |-> [p \in Page |-> FALSE],
     linked |-> {}]

init_physmem ==
    add_block(add_block(add_block(add_block(RawDescriptors, 1), 2), 3), 4)

Init ==
    /\ UseLowMem \/ UseHighMem          \* otherwise init_physmem panics
    /\ mm = init_physmem
    /\ reply = NoReply
    /\ stopped = "no"
-----------------------------------------------------------------------------
\* The blocks in the hands of the rest of the kernel.
Allocated(M) == {b \in M.linked : ~M.available[b]} \ Reserved

\* Mutant: the search wants a hole larger than the request.
Holes_Strict(M, n) == {b \in M.linked : M.available[b] /\ M.pages[b] > n}

Holes(M, n) == {b \in M.linked : M.available[b] /\ M.pages[b] >= n}

\* The first-fit search.  list_for_each meets the blocks in the order of their
\* addresses (ListIsLinked), so the first fit is the lowest one.
FirstFit(M, n) == CHOOSE b \in Holes(M, n) : \A c \in Holes(M, n) : b <= c

\* Block b keeps n pages; a new hole is inserted after it for the others.
cut_block(M, b, n) ==
    [list_insert_after(M, b, b + n) EXCEPT
        !.available[b + n] = TRUE,
        !.pages = [@ EXCEPT ![b + n] = M.pages[b] - n, ![b] = n],
        !.linked = @ \cup {b + n}]

\* Mutant: the remainder of the hole is not linked back as a hole.
alloc_block_LosesRemainder(M, b, n) ==
    [M EXCEPT !.available[b] = FALSE, !.pages[b] = n]

\* What __alloc_physmem_block does to the hole b once it has found it.
alloc_block(M, b, n) ==
    LET A == [M EXCEPT !.available[b] = FALSE]
    IN  IF M.pages[b] > n THEN cut_block(A, b, n) ELSE A

\* The block c that follows b is merged into b.
merge(M, b, c) ==
    [list_remove(M, c) EXCEPT !.pages[b] = @ + M.pages[c], !.linked = @ \ {c}]

HoleAfter(M, b)  == b < M.next[b] /\ M.available[M.next[b]]
HoleBefore(M, b) == M.prev[b] < b /\ M.available[M.prev[b]]

\* Mutant: a freed block is merged with the hole before it only.
free_block_NoMergeAfter(M, b) ==
    LET F == [M EXCEPT !.available[b] = TRUE]
    IN  IF HoleBefore(F, b) THEN merge(F, F.prev[b], b) ELSE F

\* What free_physmem_block does to an allocated block b.
free_block(M, b) ==
    LET F == [M EXCEPT !.available[b] = TRUE]
        G == IF HoleAfter(F, b) THEN merge(F, b, F.next[b]) ELSE F
    IN  IF HoleBefore(G, b) THEN merge(G, G.prev[b], b) ELSE G

\* realloc_physmem_block moves the end of block b with cut_block, or against the
\* hole that follows it, which is replaced by a hole at b + n,
move_boundary(M, b, n) ==
    LET x == M.next[b]
    IN  [list_replace(M, x, b + n) EXCEPT
            !.available[b + n] = TRUE,
            !.pages = [@ EXCEPT ![b + n] = M.pages[x] + M.pages[b] - n,
                                ![b] = n],
            !.linked = (@ \ {x}) \cup {b + n}]

\* or by taking all of the following hole: the list_remove of line 302 takes
\* h, which has no value yet.  It may be any descriptor or point elsewhere.
swallow_hole(M, b, n, h) ==
    [(IF h \in Page THEN list_remove(M, h) ELSE M) EXCEPT
        !.pages[b] = n, !.linked = @ \ {h}]

-----------------------------------------------------------------------------
Answer(op, addr, n, old, res) ==
    reply' = [op |-> op, addr |-> addr, n |-> n, old |-> old, res |-> res]

\* __alloc_physmem_block, and alloc_physmem_block, which fills the block too.
Alloc(n) ==
    /\ stopped = "no"
    /\ \/ /\ Holes(mm, n) = {}
          /\ Answer("alloc", 0, n, 0, "E_NOMEM")
          /\ mm' = mm
       \/ /\ Holes(mm, n) # {}
          /\ LET b == FirstFit(mm, n)
             IN  /\ mm' = alloc_block(mm, b, n)
                 /\ Answer("alloc", b, n, 0, "S_OK")
    /\ stopped' = stopped

\* A caller gives back an address it got, or gives it back a second time.
Callers == Allocated(mm) \cup {b \in Page : mm.available[b]}

Free(b) ==
    /\ stopped = "no"
    /\ b \in Callers
    /\ \/ /\ b >= NrPages - 1
          /\ stopped' = "panic"
          /\ Answer("free", b, 0, 0, "none")
          /\ mm' = mm
       \/ /\ b < NrPages - 1
          /\ mm.available[b]
          /\ Answer("free", b, 0, 0, "E_FAIL")
          /\ UNCHANGED <<mm, stopped>>
       \/ /\ b < NrPages - 1
          /\ ~mm.available[b]
          /\ mm' = free_block(mm, b)
          /\ Answer("free", b, 0, 0, "S_OK")
          /\ stopped' = stopped

\* realloc_physmem_block, one operator per branch.
ReallocRefused(b, n) ==
    /\ mm.available[b]
    /\ Answer("realloc", b, n, 0, "E_FAIL")
    /\ UNCHANGED <<mm, stopped>>

ReallocShrink(b, n) ==
    /\ ~mm.available[b]
    /\ n < mm.pages[b]
    /\ mm' = IF HoleAfter(mm, b) THEN move_boundary(mm, b, n)
                                 ELSE cut_block(mm, b, n)
    /\ Answer("realloc", b, n, mm.pages[b], "S_OK")
    /\ stopped' = stopped

\* The hole after b is large enough for n pages in all.
RoomAfter(b, n) ==
    HoleAfter(mm, b) /\ mm.pages[mm.next[b]] >= n - mm.pages[b]

ReallocInPlace(b, n) ==
    /\ ~mm.available[b]
    /\ \/ n = mm.pages[b] /\ UNCHANGED <<mm, stopped>>
       \/ /\ n > mm.pages[b]
          /\ RoomAfter(b, n)
          /\ mm.pages[mm.next[b]] > n - mm.pages[b]
          /\ mm' = move_boundary(mm, b, n)
          /\ stopped' = stopped
       \/ /\ n > mm.pages[b]
          /\ RoomAfter(b, n)
          /\ mm.pages[mm.next[b]] = n - mm.pages[b]
          /\ \E h \in Page \cup {NULL} : mm' = swallow_hole(mm, b, n, h)
          /\ stopped' = "undefined"
    /\ Answer("realloc", b, n, mm.pages[b], "S_OK")

\* Mutant: the old block is given back before its content is copied out.
ReallocMove_FreesFirst(b, n) ==
    /\ ~mm.available[b]
    /\ n > mm.pages[b]
    /\ ~RoomAfter(b, n)
    /\ LET F == free_block(mm, b)
       IN  /\ Holes(F, n) # {}
           /\ mm' = alloc_block(F, FirstFit(F, n), n)
           /\ Answer("realloc", FirstFit(F, n), n, mm.pages[b], "S_OK")
    /\ stopped' = stopped

ReallocMove(b, n) ==
    /\ ~mm.available[b]
    /\ n > mm.pages[b]
    /\ ~RoomAfter(b, n)
    /\ \/ /\ Holes(mm, n) = {}
          /\ Answer("realloc", b, n, mm.pages[b], "E_NOMEM")
          /\ UNCHANGED <<mm, stopped>>
       \/ /\ Holes(mm, n) # {}
          /\ LET c == FirstFit(mm, n)
                 A == alloc_block(mm, c, n)
             IN  /\ IF b >= NrPages - 1
                    THEN mm' = A /\ stopped' = "panic"
                    ELSE mm' = free_block(A, b) /\ stopped' = stopped
                 /\ Answer("realloc", c, n, mm.pages[b], "S_OK")

Realloc(b, n) ==
    /\ stopped = "no"
    /\ b \in Callers
    /\ \/ ReallocRefused(b, n)
       \/ ReallocShrink(b, n)
       \/ ReallocInPlace(b, n)
       \/ ReallocMove(b, n)

\* panic and undefined behaviour end the behaviours modelled here.
Stopped == stopped # "no" /\ UNCHANGED vars

Next ==
    \/ \E n \in 1..MaxRequest : Alloc(n)
    \/ \E b \in Page : Free(b)
    \/ \E b \in Page, n \in 1..MaxRequest : Realloc(b, n)
    \/ Stopped

Spec == Init /\ [][Next]_vars
-----------------------------------------------------------------------------
\* init_physmem is only right for a descriptor array that ends on a page
\* boundary, for memory that is a whole number of pages, and when no segment
\* is empty: then every segment starts where the previous one ends.
AlignedLayout ==
    /\ First(1) = 0 /\ Past(4) = NrPages
    /\ \A i \in 1..3 : Past(i) = First(i + 1)
    /\ \A i \in 1..4 : First(i) < Past(i)

\* Undefined behaviour leaves nothing to say about the state.
Defined == stopped # "undefined"

\* list_for_each over block_list_head visits the blocks of memory in the order
\* of their addresses, starting at page 0, and ends (physmem.c:156, 217, 223:
\* first fit and the tests b < b->next and b->prev < b rely on it).
ListIsLinked ==
    Defined =>
        /\ Returns(mm, NrPages)
        /\ LET visited == list_for_each(mm, NrPages)
           IN  /\ mm.linked = {visited[i] : i \in DOMAIN visited}
               /\ \A i, j \in DOMAIN visited : i < j => visited[i] < visited[j]

\* Every page of memory is in exactly one block of the list, allocated or not:
\* no page is given to two owners and none is lost (physmem.c:60-61).
BlocksTile ==
    Defined =>
        \A p \in Page :
            /\ \E b \in mm.linked : p \in Span(b, mm.pages[b])
            /\ \A b, c \in mm.linked :
                  p \in Span(b, mm.pages[b]) \cap Span(c, mm.pages[c]) => b = c

\* Two holes are never neighbours, whatever the order of the calls
\* (the merges of physmem.c:217-227 and the branches of realloc).
HolesAreMaximal ==
    Defined =>
        \A b \in mm.linked : HoleAfter(mm, b) => ~mm.available[b]

\* -E_NOMEM is returned only when no run of reply.n consecutive pages is free,
\* so memory is never refused because of how the holes are kept
\* (physmem.c:160-162, 312-316).
FreePage(p) ==
    \A b \in mm.linked : p \in Span(b, mm.pages[b]) => mm.available[b]

NomemMeansNoRoom ==
    Defined /\ reply.res = "E_NOMEM" =>
        \A b \in Page : b + reply.n <= NrPages =>
            \E p \in Span(b, reply.n) : ~FreePage(p)

\* A descriptor that has left the list still says "available", so that giving
\* an address back twice is answered with -E_FAIL (physmem.c:210-213, 251-254)
\* and never frees a part of another block.
StaleIsAvailable ==
    Defined =>
        \A p \in Page \ mm.linked : mm.pages[p] # 0 => mm.available[p]

(***************************************************************************)
(* The inductive invariant behind them.  Ring: a block ends where the next *)
(* one starts, the last one at the end of memory; the prev links mirror    *)
(* the next links; the blocks do not overlap and leave no page out.        *)
(***************************************************************************)
BlockOK(linked, prev, next, pages, b) ==
    /\ pages[b] > 0 /\ b + pages[b] <= NrPages
    /\ next[b] = IF b + pages[b] = NrPages THEN 0 ELSE b + pages[b]
    /\ next[b] \in linked /\ prev[b] \in linked
    /\ prev[next[b]] = b /\ next[prev[b]] = b

Disjoint(linked, pages) ==
    \A b, c \in linked : b < c => b + pages[b] <= c

Covered(linked, pages) ==
    \A p \in Page : \E b \in linked : b <= p /\ p < b + pages[b]

Ring(linked, prev, next, pages) ==
    /\ 0 \in linked
    /\ \A b \in linked : BlockOK(linked, prev, next, pages, b)
    /\ Disjoint(linked, pages)
    /\ Covered(linked, pages)

Shape(M) ==
    M \in Descriptors /\ M.head = 0 /\ Ring(M.linked, M.prev, M.next, M.pages)

Maximal(M)  == \A b \in M.linked : HoleAfter(M, b) => ~M.available[b]
Stale(M)    == \A p \in Page \ M.linked : M.pages[p] # 0 => M.available[p]
Kept(M)     == \A r \in Reserved : r \in M.linked /\ ~M.available[r]

WellFormed(M) ==
    Shape(M) /\ Maximal(M) /\ Stale(M) /\ Kept(M)

IInv ==
    /\ TypeOK
    /\ Defined => WellFormed(mm)
    /\ reply.res = "E_NOMEM" =>
          Holes(mm, reply.n) = {} /\ reply.n > 0 /\ stopped = "no"

\* The allocator with its descriptors implements the map of PageMap.tla.
Abstract == INSTANCE PageMap WITH
    owner  <- [b \in Allocated(mm) |-> mm.pages[b]],
    Usable <- UNION {First(i)..(Past(i) - 1) : i \in {2, 4}}
ImplementsPageMap == Abstract!Spec

-----------------------------------------------------------------------------
\* physmem.c:205 calls panic with "Trying to free an invalid block of physical
\* memory": the kernel should stop there only for an address that is not the
\* start of an allocated block.
PanicMeansInvalidBlock ==
    stopped = "panic" /\ reply.op = "free" => reply.addr \notin Allocated(mm)

\* physmem.c:301 announces "Remove the following hole": when a block has taken
\* all of the hole behind it, the blocks still tile memory.
FollowingHoleRemoved ==
    reply.op = "realloc" /\ reply.res = "S_OK" =>
        \A b, c \in mm.linked :
            b < c => Span(b, mm.pages[b]) \cap Span(c, mm.pages[c]) = {}

=============================================================================
