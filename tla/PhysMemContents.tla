--------------------------- MODULE PhysMemContents ---------------------------
(***************************************************************************)
(* What the pages hold: the memset and memcpy calls of kernel/physmem.c,   *)
(* added to the actions of PhysMem.tla.  The content of a page is 0 when   *)
(* it is all zeros and another number otherwise; an owner writes k into    *)
(* the k-th page of its block, so that a page copied to the wrong place    *)
(* can be told from the right one.                                         *)
(***************************************************************************)
EXTENDS PhysMem

VARIABLE content

cvars == <<mm, reply, stopped, content>>

Junk == 1           \* what a page holds when the machine starts: not zeros

CInit == Init /\ content = [p \in Page |-> Junk]

memset0(f, pages) == [p \in Page |-> IF p \in pages THEN 0 ELSE f[p]]
memcpy(f, to, from, n) ==
    [p \in Page |-> IF p \in Span(to, n) THEN f[p - to + from] ELSE f[p]]

\* Mutant: one page too many is filled.
zero_block_OneMore(b, n) == memset0(content, Span(b, n + 1))

zero_block(b, n) == memset0(content, Span(b, n))

\* Mutant: the whole of the new block is filled after the copy.
move_content_FillsAll(to, from, old, n) ==
    memset0(memcpy(content, to, from, old), Span(to, n))

\* realloc_physmem_block copies the old pages and fills the ones after them.
move_content(to, from, old, n) ==
    memset0(memcpy(content, to, from, old), Span(to + old, n - old))

AllocContent(n) ==
    /\ Alloc(n)
    /\ content' \in {content,                         \* __alloc_physmem_block
                     IF reply'.res = "S_OK"           \* alloc_physmem_block
                     THEN zero_block(reply'.addr, n) ELSE content}

FreeContent(b) == Free(b) /\ content' = content

ReallocContent(b, n) ==
    /\ Realloc(b, n)
    /\ content' =
          IF reply'.res = "S_OK" /\ n > mm.pages[b] /\ ~RoomAfter(b, n)
          THEN move_content(reply'.addr, b, mm.pages[b], n)
          ELSE content

\* The owner of a block writes it.
Write(b) ==
    /\ stopped = "no"
    /\ content' = [p \in Page |-> IF p \in Span(b, mm.pages[b])
                                  THEN p - b + 1 ELSE content[p]]
    /\ UNCHANGED vars

CNext ==
    \/ \E n \in 1..MaxRequest : AllocContent(n)
    \/ \E b \in Page : FreeContent(b)
    \/ \E b \in Page, n \in 1..MaxRequest : ReallocContent(b, n)
    \/ \E b \in Allocated(mm) : Write(b)
    \/ Stopped /\ content' = content

CSpec == CInit /\ [][CNext]_cvars
-----------------------------------------------------------------------------
\* A block whose size was changed holds what it held, page by page, as far as
\* it is long enough, wherever it is now (physmem.c:263-326).
Shorter(m, n) == IF m < n THEN m ELSE n

Resized(b, n) ==
    /\ vars' # vars /\ reply'.op = "realloc" /\ reply'.res = "S_OK"
    /\ reply'.n = n
    /\ Realloc(b, n)

ReallocKeepsData ==
    [][\A b \in Allocated(mm), n \in 1..MaxRequest :
          Resized(b, n) =>
              \A i \in 0..(Shorter(mm.pages[b], n) - 1) :
                  content'[reply'.addr + i] = content[b + i]]_cvars

\* No call changes what a block holds that was allocated before it and still
\* is, with its size, after it: the memset and memcpy calls stay inside the
\* block just found (physmem.c:192, 318-321).
OtherBlocksUntouched ==
    [][mm' # mm =>
          \A c \in Allocated(mm) \cap Allocated(mm)' :
              mm'.pages[c] = mm.pages[c] =>
                  \A p \in Span(c, mm.pages[c]) :
                      content'[p] = content[p]]_cvars

\* physmem.c:236-237 says of realloc_physmem_block "Newly allocated memory is
\* filled with zeros": the pages a block gains hold zeros when the call returns.
NewMemoryIsZero ==
    [][\A b \in Allocated(mm), n \in 1..MaxRequest :
          Resized(b, n) /\ stopped' = "no" =>
              \A i \in mm.pages[b]..(n - 1) :
                  content'[reply'.addr + i] = 0]_cvars
=============================================================================
