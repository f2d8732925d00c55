------------------------------- MODULE MCKMem -------------------------------
(***************************************************************************)
(* Caches of 15 words.  Those of slab 1 have two objects, which just fit.  *)
(* Those of slab 2 have two, and a count of one: the slot of the second    *)
(* sticks out.  The last object of slab 0 has part of its header outside.  *)
(***************************************************************************)
EXTENDS KMem

Sym == Permutations(Cache)
=============================================================================
