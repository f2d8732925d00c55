------------------------------ MODULE UserHeap ------------------------------
(***************************************************************************)
(* The heap of a user task: malloc and free of lib/stdlib.c on a circular  *)
(* free list in order of addresses, sbrk, and the system call brk          *)
(* (kernel/sys.c) that moves the end of the data segment.                  *)
(*                                                                         *)
(* Addresses and sizes are in units of sizeof(Header).  The segment is a   *)
(* whole number of pages and sbrk only adds units, so nothing is lost.     *)
(* base, a variable of the program, lies below the heap: address 0.  The   *)
(* functions only touch memory of the task, so each call is one step.      *)
(***************************************************************************)
EXTENDS Naturals, SequencesExt

CONSTANTS
    NULL,
    HeaderSize,     \* sizeof(Header), in bytes
    NALLOC,         \* the least number of units morecore asks for
    PAGE,           \* units in a page
    cs_size,        \* the code segment, and the data segment at first
    MaxBreak,       \* bound: realloc_physmem_block fails beyond
    Sizes           \* the numbers of bytes asked for

ASSUME UserHeapAssumption ==
    /\ {HeaderSize, NALLOC, PAGE} \subseteq Nat \ {0}
    /\ cs_size \in Nat \ {0} /\ cs_size % PAGE = 0
    /\ MaxBreak \in Nat /\ MaxBreak % PAGE = 0
    /\ Sizes \subseteq Nat

base == 0
nunits(nbytes) == (nbytes + HeaderSize - 1) \div HeaderSize + 1
MaxRequest == Max({nunits(n) : n \in Sizes} \cup {NALLOC})
Addr == {base} \cup cs_size..(MaxBreak + MaxRequest)

VARIABLES
    h,          \* the headers (ptr, size) and freep
    curbrk,     \* of sbrk, 0 before its first call
    ds_size,    \* the size of the data segment
    given       \* the blocks in use, with the units asked for

vars == <<h, curbrk, ds_size, given>>

Init ==
    /\ h = [ptr |-> [a \in Addr |-> base], size |-> [a \in Addr |-> 0],
            freep |-> NULL]
    /\ curbrk = 0
    /\ ds_size = cs_size
    /\ given = << >>

\* The nodes along ptr, from a on until it comes back to a.
Ring(g, a) ==
    LET at[i \in Nat] == IF i = 0 THEN a ELSE g.ptr[at[i - 1]]
        round == CHOOSE i \in 1..Cardinality(Addr) :
                    at[i] = a /\ \A j \in 1..(i - 1) : at[j] # a
    IN  [i \in 1..round |-> at[i - 1]]

\* The first of them for which P holds, or NULL.
FirstFrom(g, a, P(_)) ==
    LET ring == Ring(g, a)
        hit == SelectInSeq(ring, P)
    IN  IF hit = 0 THEN NULL ELSE ring[hit]
-----------------------------------------------------------------------------
\* bp goes behind p: between p and its successor, or at either end.
Place(g, p, bp) ==
    \/ bp > p /\ bp < g.ptr[p]
    \/ p >= g.ptr[p] /\ (bp > p \/ bp < g.ptr[p])

\* Mutant: the block is not joined to the one above it.
join_upper_Never(g, p, bp) == [g EXCEPT !.ptr[bp] = g.ptr[p]]

join_upper(g, p, bp) ==
    LET q == g.ptr[p]
    IN  IF bp + g.size[bp] = q
        THEN [g EXCEPT !.size[bp] = @ + g.size[q], !.ptr[bp] = g.ptr[q]]
        ELSE [g EXCEPT !.ptr[bp] = q]

join_lower(g, p, bp) ==
    IF p + g.size[p] = bp
    THEN [g EXCEPT !.size[p] = @ + g.size[bp], !.ptr[p] = g.ptr[bp]]
    ELSE [g EXCEPT !.ptr[p] = bp]

free_block(g, bp) ==
    LET p == FirstFrom(g, g.freep, LAMBDA x : Place(g, x, bp))
    IN  [join_lower(join_upper(g, p, bp), p, bp) EXCEPT !.freep = p]

\* Mutant: the remainder keeps the unit of the new header.
take_Overlaps(g, prevp, p, n) ==
    IF g.size[p] = n
    THEN [g EXCEPT !.ptr[prevp] = g.ptr[p], !.freep = prevp]
    ELSE [g EXCEPT !.size[p] = @ - n + 1, !.size[p + g.size[p] - n] = n,
                   !.freep = prevp]

\* malloc takes n units of block p, whose predecessor is prevp: all of it, or
\* its end.
take(g, prevp, p, n) ==
    IF g.size[p] = n
    THEN [g EXCEPT !.ptr[prevp] = g.ptr[p], !.freep = prevp]
    ELSE [g EXCEPT !.size[p] = @ - n, !.size[p + g.size[p] - n] = n,
                   !.freep = prevp]

\* The block before the first one, after freep, that has n units.
Before(g, n) == FirstFrom(g, g.freep, LAMBDA x : g.size[g.ptr[x]] >= n)

\* malloc finds n units in the free list of g.
Allocate(g, n) ==
    LET prevp == Before(g, n)
        p == g.ptr[prevp]
    IN  /\ h' = take(g, prevp, p, n)
        /\ given' = given @@ (p + g.size[p] - n :> n)

PAGE_ALIGN_SUP(x) == ((x + PAGE - 1) \div PAGE) * PAGE

\* What sys_brk answers, and the data segment it leaves: the size is too small,
\* the memory cannot be had, or the segment is resized.
sys_brk(newbrk) ==
    LET size == PAGE_ALIGN_SUP(newbrk)
    IN  {[answer |-> ds_size, ds_size |-> ds_size]} \cup
        {[answer |-> s, ds_size |-> s] :
            s \in {x \in {size} : x >= cs_size /\ x <= MaxBreak}}

\* Mutant: the answer of brk is not looked at.
Refused_Never(answer, brk) == FALSE

\* sbrk takes the break it had for the answer of a brk that failed.
Refused(answer, brk) == answer = brk

\* morecore(n) on g: sbrk fails and malloc returns NULL, or the units at the
\* old break are put in the free list and malloc goes on.
More(g, n) ==
    LET nu == IF n < NALLOC THEN NALLOC ELSE n
        oldbrk == IF curbrk = 0 THEN ds_size ELSE curbrk
    IN  /\ oldbrk + nu <= Max(Addr)                     \* bound
        /\ \E r \in sys_brk(oldbrk + nu) :
              /\ ds_size' = r.ds_size
              /\ IF Refused(r.answer, oldbrk)
                 THEN h' = g /\ curbrk' = oldbrk /\ UNCHANGED given
                 ELSE /\ curbrk' = oldbrk + nu
                      /\ Allocate(
                            free_block([g EXCEPT !.size[oldbrk] = nu], oldbrk),
                            n)

malloc(nbytes) ==
    LET n == nunits(nbytes)
        g == IF h.freep # NULL THEN h
             ELSE [h EXCEPT !.ptr[base] = base, !.size[base] = 0, !.freep = base]
    IN  IF Before(g, n) # NULL
        THEN Allocate(g, n) /\ UNCHANGED <<curbrk, ds_size>>
        ELSE More(g, n)

free(bp) ==
    /\ h' = free_block(h, bp)
    /\ given' = Restrict(given, DOMAIN given \ {bp})
    /\ UNCHANGED <<curbrk, ds_size>>

Next ==
    \/ \E n \in Sizes : malloc(n)
    \/ \E bp \in DOMAIN given : free(bp)

Spec == Init /\ [][Next]_vars
-----------------------------------------------------------------------------
Units(b, n) == b..(b + n - 1)
Heap == IF curbrk = 0 THEN {} ELSE cs_size..(curbrk - 1)

\* The nodes of the free list other than base.
FreeBlocks ==
    IF h.freep = NULL THEN {} ELSE Range(Ring(h, h.freep)) \ {base}

BlockSize(b) == IF b \in DOMAIN given THEN given[b] ELSE h.size[b]

\* Every unit sbrk got is in exactly one block, in use or free, and a block in
\* use has still the size that malloc wrote to its header: no call of malloc or
\* free loses memory or hands out memory that is in use.
HeapTiles ==
    LET B == DOMAIN given \cup FreeBlocks
    IN  /\ DOMAIN given \cap FreeBlocks = {}
        /\ UNION {Units(b, BlockSize(b)) : b \in B} = Heap
        /\ \A b, c \in B : b # c =>
              Units(b, BlockSize(b)) \cap Units(c, BlockSize(c)) = {}
        /\ \A b \in DOMAIN given : h.size[b] = given[b]

\* The loop of free relies on the free list being in order of addresses from
\* base on, and a request is met from one block only, so no free block may be
\* followed directly by another.
FreeListInOrder ==
    \A b \in FreeBlocks : h.ptr[b] # base => h.ptr[b] > b + h.size[b]

\* sys.c:229 "Return the current break value.", by which sbrk knows whether it
\* got memory: no block in use reaches behind the data segment.
HeapInSegment ==
    \A b \in DOMAIN given : b + given[b] <= ds_size
=============================================================================
