------------------------------- MODULE Lists -------------------------------
(***************************************************************************)
(* The circular doubly linked lists of include/simplix/list.h.             *)
(*                                                                         *)
(* A list is a record L with at least the fields                           *)
(*   head : the list head pointer (a node, or NULL for the empty list),    *)
(*   prev, next : the link fields of EVERY node, linked or not, as         *)
(*                functions on the nodes.                                  *)
(* The macros of list.h are operators from such a record to its new value. *)
(* A macro stores through pointers one after the other; each EXCEPT below  *)
(* applies its updates in the order of those stores, so the operators      *)
(* agree with the macros also when the arguments alias one another.        *)
(* Further fields of the record (pages, availability...) are kept.         *)
(***************************************************************************)
EXTENDS Naturals, Sequences

CONSTANT NULL

list_empty(L) == L.head = NULL

list_init(L) ==
    [L EXCEPT !.prev[L.head] = L.head, !.next[L.head] = L.head]

list_insert_before(L, item, new) ==
    LET p == L.prev[item]
    IN  [L EXCEPT !.prev = [@ EXCEPT ![new] = p, ![item] = new],
                  !.next = [@ EXCEPT ![new] = item, ![p] = new]]

list_insert_after(L, item, new) ==
    LET n == L.next[item]
    IN  [L EXCEPT !.prev = [@ EXCEPT ![new] = item, ![n] = new],
                  !.next = [@ EXCEPT ![new] = n, ![item] = new]]

list_append(L, item) ==
    IF list_empty(L)
    THEN list_init([L EXCEPT !.head = item])
    ELSE list_insert_before(L, L.head, item)

list_remove(L, item) ==
    IF L.next[item] = item
    THEN [L EXCEPT !.head = NULL]
    ELSE LET p == L.prev[item]
             n == L.next[item]
         IN  [L EXCEPT !.head = IF @ = item THEN n ELSE @,
                       !.prev[n] = p,
                       !.next[p] = n]

\* The node it returns is the old L.head.
list_pop_head(L) == list_remove(L, L.head)

list_replace(L, old, new) ==
    LET p == L.prev[old]
        n == L.next[old]
    IN  [L EXCEPT !.prev = [@ EXCEPT ![new] = p, ![n] = new],
                  !.next = [@ EXCEPT ![new] = n, ![p] = new],
                  !.head = IF @ = old THEN new ELSE @]

-----------------------------------------------------------------------------
(***************************************************************************)
(* list_for_each starts at the head and follows next until it is back at   *)
(* the head.  Cursor(L, i) is where it stands at index i.  The loop ends   *)
(* iff the cursor returns to the head, and then within as many steps as    *)
(* there are nodes (bound); otherwise it runs forever.                     *)
(***************************************************************************)
Cursor(L, i) ==
    LET at[k \in Nat] == IF k = 0 THEN L.head ELSE L.next[at[k - 1]]
    IN  at[i]

Returns(L, bound) ==
    list_empty(L) \/ \E k \in 1..bound : Cursor(L, k) = L.head

\* The nodes the body of list_for_each sees, in order, when the loop ends.
list_for_each(L, bound) ==
    IF list_empty(L)
    THEN << >>
    ELSE LET len == CHOOSE k \in 1..bound :
                       /\ Cursor(L, k) = L.head
                       /\ \A j \in 1..(k - 1) : Cursor(L, j) # L.head
         IN  [i \in 1..len |-> Cursor(L, i - 1)]
=============================================================================
