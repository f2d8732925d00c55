------------------------------ MODULE PageMap ------------------------------
(***************************************************************************)
(* What the physical memory allocator promises the rest of the kernel,     *)
(* without descriptors or lists: owner gives, for the first page of every  *)
(* block handed out, the number of its pages.  A request fails only when   *)
(* no run of free pages is long enough, and the lowest such run is used.   *)
(*                                                                         *)
(* Two requests are outside the promise (see PhysMem.tla): giving back a   *)
(* block that starts on the last page, and growing a block over exactly    *)
(* all of the free pages that follow it.                                   *)
(***************************************************************************)
EXTENDS Integers

CONSTANTS NrPages, Usable, MaxRequest

VARIABLES owner, reply, stopped

vars == <<owner, reply, stopped>>

Page       == 0..(NrPages - 1)
Span(b, n) == b..(b + n - 1)
FreePages  == Usable \ UNION {Span(b, owner[b]) : b \in DOMAIN owner}

Lowest(n, b) ==
    /\ Span(b, n) \subseteq FreePages
    /\ \A c \in 0..(b - 1) : ~(Span(c, n) \subseteq FreePages)

NoRoom(n) == \A b \in Page : ~(Span(b, n) \subseteq FreePages)

Give(f, b, n) == [x \in DOMAIN f \cup {b} |-> IF x = b THEN n ELSE f[x]]
Take(f, b)    == [x \in DOMAIN f \ {b} |-> f[x]]

Answer(op, addr, n, old, res) ==
    reply' = [op |-> op, addr |-> addr, n |-> n, old |-> old, res |-> res]

Init ==
    /\ owner = [b \in {} |-> 0]
    /\ reply = [op |-> "none", addr |-> 0, n |-> 0, old |-> 0, res |-> "none"]
    /\ stopped = "no"

Alloc(n) ==
    /\ \/ /\ Answer("alloc", 0, n, 0, "E_NOMEM")
          /\ NoRoom(n)
          /\ owner' = owner
       \/ \E b \in Page :
             /\ Answer("alloc", b, n, 0, "S_OK")
             /\ Lowest(n, b)
             /\ owner' = Give(owner, b, n)
    /\ stopped' = stopped

Free(b) ==
    \/ /\ Answer("free", b, 0, 0, "S_OK")
       /\ b < NrPages - 1
       /\ b \in DOMAIN owner
       /\ owner' = Take(owner, b)
       /\ stopped' = stopped
    \/ /\ Answer("free", b, 0, 0, "E_FAIL")
       /\ b < NrPages - 1
       /\ b \notin DOMAIN owner
       /\ owner' = owner
       /\ stopped' = stopped
    \/ b = NrPages - 1 /\ stopped' = "panic"

Growth(b, n) == Span(b + owner[b], n - owner[b])

Realloc(b, n) ==
    \/ /\ Answer("realloc", b, n, 0, "E_FAIL")
       /\ b \notin DOMAIN owner
       /\ owner' = owner
       /\ stopped' = stopped
    \/ /\ b \in DOMAIN owner
       /\ Answer("realloc", b, n, owner[b], "S_OK")
       /\ Growth(b, n) \subseteq FreePages
       /\ n <= owner[b] \/ b + n \in FreePages
       /\ owner' = Give(owner, b, n)
       /\ stopped' = stopped
    \/ /\ stopped' = "undefined"
       /\ b \in DOMAIN owner
       /\ n > owner[b]
       /\ Growth(b, n) \subseteq FreePages
       /\ b + n \notin FreePages
    \/ /\ b \in DOMAIN owner
       /\ Answer("realloc", b, n, owner[b], "E_NOMEM")
       /\ ~(Growth(b, n) \subseteq FreePages)
       /\ NoRoom(n)
       /\ owner' = owner
       /\ stopped' = stopped
    \/ /\ b \in DOMAIN owner
       /\ \E c \in Page :
             /\ Answer("realloc", c, n, owner[b], "S_OK")
             /\ ~(Growth(b, n) \subseteq FreePages)
             /\ Lowest(n, c)
             /\ IF b = NrPages - 1
                THEN owner' = Give(owner, c, n) /\ stopped' = "panic"
                ELSE owner' = Take(Give(owner, c, n), b) /\ stopped' = stopped

Next ==
    /\ stopped = "no"
    /\ \/ \E n \in 1..MaxRequest : Alloc(n)
       \/ \E b \in Page : Free(b)
       \/ \E b \in Page, n \in 1..MaxRequest : Realloc(b, n)

Spec == Init /\ [][Next]_vars
=============================================================================
