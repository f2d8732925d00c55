-------------------------------- MODULE KMem --------------------------------
(***************************************************************************)
(* The kernel memory cache, kernel/kmem.c: slabs of caches of objects.     *)
(*                                                                         *)
(* Sizes are in words of 4 bytes.  An object is a header (struct           *)
(* kmem_object: cache, prev and next, one word each) and the slot behind   *)
(* it; the objects of a cache follow one another without a gap.  The slots *)
(* are smaller than the requests (kmem.c:148): an owner that fills its     *)
(* object writes into the header of the next one, and so does the memset   *)
(* of kmalloc.  The model has these writes: the first words of that header *)
(* become junk.  The last objects stick out of their cache (kmem.c:156).   *)
(* A store through junk, or past the end of the cache, into pages of       *)
(* somebody else, is undefined: the behaviour ends there.                  *)
(*                                                                         *)
(* Every function runs with interrupts off and is one step.  The pages of  *)
(* a cache come from alloc_physmem_block, filled with zeros, and are never *)
(* given back.  The prev and next members of the caches are never read     *)
(* (only the head of a slab is) and are left out.                          *)
(***************************************************************************)
EXTENDS Lists, FiniteSets, Functions, TLC

CONSTANTS
    Cache,      \* the blocks of pages that can be had for caches
    CACHE_SIZE, \* NR_PAGES_PER_KMEM_CACHE pages, in words
    Sizes,      \* the sizes asked for
    junk        \* a word that points to no cache and no object

Granularity == 2            \* 1 << KMEM_CACHE_GRANULARITY
CacheHeader == 5            \* sizeof(struct kmem_cache)
ObjectHeader == 3           \* sizeof(struct kmem_object)

ASSUME KMemAssumption ==
    /\ CACHE_SIZE \in Nat /\ CACHE_SIZE > CacheHeader
    /\ Sizes \subseteq Nat \ {0}

Index(size) == (size - 1) \div Granularity
Slab == {Index(s) : s \in Sizes}

\* The slots in the caches of slab i, and what separates two objects.
slot_size(i) == i * Granularity
object_size(i) == ObjectHeader + slot_size(i)

\* Where the n-th object of a cache starts, and how many the loop of __kmalloc
\* makes: those that start inside the cache.
object_addr(i, n) == CacheHeader + (n - 1) * object_size(i)
MaxObjects == CACHE_SIZE - CacheHeader
NrObjects(i) ==
    Cardinality({n \in 1..MaxObjects : object_addr(i, n) < CACHE_SIZE})

\* The header of every object of slab i, and size words behind the header of the
\* n-th one, are inside the cache.
HeadersInside(i) == object_addr(i, NrObjects(i)) + ObjectHeader <= CACHE_SIZE
SlotInside(i, n, size) == object_addr(i, n) + ObjectHeader + size <= CACHE_SIZE

Object == Cache \X (1..MaxObjects)

VARIABLES
    k,          \* the slabs, the caches and the headers of the objects
    given,      \* the objects in use, with the size asked for
    undefined   \* a store went through junk, or past the end of a cache

vars == <<k, given, undefined>>

kmem(heads, slab, nr, free, cache, prev, next) ==
    [cache_list_head |-> heads,             \* of each slab
     slab |-> slab,                         \* of each cache
     nr_free_objects |-> nr,
     free_object_list_head |-> free,
     cache |-> cache,                       \* of each object
     prev |-> prev, next |-> next]

Init ==
    LET none == [o \in Object |-> NULL]
    IN  /\ k = kmem([i \in Slab |-> NULL], [c \in Cache |-> NULL],
                    [c \in Cache |-> 0], [c \in Cache |-> NULL],
                    none, none, none)
        /\ given = << >>
        /\ undefined = FALSE

InUse == DOMAIN given
Made(c) == {<<c, n>> : n \in 1..NrObjects(k.slab[c])}
Caches(i) == {c \in Cache : k.slab[c] = i}

\* The free list of cache c, and m with the free list L.
List(m, c) ==
    [head |-> m.free_object_list_head[c], prev |-> m.prev, next |-> m.next]
WithList(m, c, L) ==
    [m EXCEPT !.free_object_list_head[c] = L.head,
              !.prev = L.prev, !.next = L.next]

\* list_append and list_pop_head store through pointers, not through junk.
AppendDefined(L) == list_empty(L) \/ L.prev[L.head] \in Object
PopDefined(L) ==
    ~list_empty(L) /\ (L.next[L.head] = L.head \/ L.prev[L.head] \in Object)
-----------------------------------------------------------------------------
\* Block c becomes a cache of slab i, and the first one there.
new_cache(m, c, i) ==
    LET n == NrObjects(i)
        L[j \in 0..n] ==
            IF j = 0 THEN List(m, c) ELSE list_append(L[j - 1], <<c, j>>)
    IN  [WithList(m, c, L[n]) EXCEPT
            !.slab[c] = i,
            !.nr_free_objects[c] = (CACHE_SIZE - CacheHeader) \div object_size(i),
            !.cache = [o \in Object |->
                          IF o \in {c} \X (1..n) THEN c ELSE m.cache[o]],
            !.cache_list_head[i] = c]

\* Mutant: the count is left alone.
pop_object_NoCount(m, c) == WithList(m, c, list_pop_head(List(m, c)))

pop_object(m, c) ==
    [WithList(m, c, list_pop_head(List(m, c))) EXCEPT !.nr_free_objects[c] = @ - 1]

Undefined == undefined' = TRUE /\ UNCHANGED <<k, given>>

\* size words are written to object o, inside its cache: what is more than its
\* slot goes to the header of the next object.
fill(m, o, size) ==
    LET i == m.slab[o[1]]
        f == <<o[1], o[2] + 1>>
        over == size - slot_size(i)
    IN  IF f[2] <= NrObjects(i)
        THEN [m EXCEPT !.cache[f] = IF over > 0 THEN junk ELSE @,
                       !.prev[f] = IF over > 1 THEN junk ELSE @]
        ELSE m

\* The end of __kmalloc, with m the memory once cache c has a free object, and
\* of kmalloc, which fills the object with zeros.
Give(m, c, size, zeroed) ==
    LET o == m.free_object_list_head[c]
    IN  IF PopDefined(List(m, c)) /\ (zeroed => SlotInside(m.slab[c], o[2], size))
        THEN /\ k' = IF zeroed THEN fill(pop_object(m, c), o, size)
                               ELSE pop_object(m, c)
             /\ given' = given @@ (o :> size)
             /\ undefined' = FALSE
        ELSE Undefined

\* Without a free object in the first cache of the slab a new cache is made, or
\* NULL is returned.
Kmalloc(size, zeroed) ==
    LET i == Index(size)
        c == k.cache_list_head[i]
        full == c # NULL => k.nr_free_objects[c] = 0
    IN  /\ ~undefined
        /\ \/ ~full /\ Give(k, c, size, zeroed)
           \/ full /\ \E d \in Caches(NULL) :
                         IF HeadersInside(i)
                         THEN Give(new_cache(k, d, i), d, size, zeroed)
                         ELSE Undefined
           \/ full /\ UNCHANGED vars

\* Mutant: the object goes to the first cache of the slab, not to its own.
return_object_Head(m, o) ==
    LET c == m.cache_list_head[m.slab[m.cache[o]]]
    IN  [WithList(m, c, list_append(List(m, c), o)) EXCEPT
            !.nr_free_objects[c] = @ + 1]

return_object(m, o) ==
    LET c == m.cache[o]
    IN  [WithList(m, c, list_append(List(m, c), o)) EXCEPT
            !.nr_free_objects[c] = @ + 1,
            !.cache_list_head[m.slab[c]] = c]

kfree(o) ==
    /\ ~undefined
    /\ IF k.cache[o] # junk /\ AppendDefined(List(k, k.cache[o]))
       THEN /\ k' = return_object(k, o)
            /\ given' = Restrict(given, InUse \ {o})
            /\ undefined' = FALSE
       ELSE Undefined

\* The owner of an object fills it.
Write(o) ==
    /\ ~undefined
    /\ IF SlotInside(k.slab[o[1]], o[2], given[o])
       THEN k' = fill(k, o, given[o]) /\ UNCHANGED <<given, undefined>>
       ELSE Undefined

Stopped == undefined /\ UNCHANGED vars

Next ==
    \/ \E size \in Sizes, zeroed \in BOOLEAN : Kmalloc(size, zeroed)
    \/ \E o \in InUse : kfree(o) \/ Write(o)
    \/ Stopped

Spec == Init /\ [][Next]_vars
-----------------------------------------------------------------------------
\* The slabs, caches and headers keep the types of their declarations; a header
\* word may have been overwritten.
TypeOK ==
    /\ k.cache_list_head \in [Slab -> Cache \cup {NULL}]
    /\ k.slab \in [Cache -> Slab \cup {NULL}]
    /\ k.nr_free_objects \in [Cache -> 0..MaxObjects]
    /\ k.free_object_list_head \in [Cache -> Object \cup {NULL}]
    /\ k.cache \in [Object -> Cache \cup {NULL, junk}]
    /\ k.prev \in [Object -> Object \cup {NULL, junk}]
    /\ k.next \in [Object -> Object \cup {NULL}]
    /\ InUse \subseteq Object /\ undefined \in BOOLEAN

\* Following next from the head of the free list of a cache (what list_pop_head
\* does, call after call) meets exactly the objects of that cache that are not
\* in use: none is handed out twice, none is lost, none changes caches, up to the
\* first store that is undefined.
FreeListExact ==
    \A c \in Cache \ Caches(NULL) :
        LET L == List(k, c)
        IN  /\ Returns(L, MaxObjects)
            /\ Range(list_for_each(L, MaxObjects)) = Made(c) \ InUse

\* kmem.c:138 tests the count and kmem.c:173 takes from the list: when the
\* count of a cache is not 0 its list is not empty, in any order of calls.
CountBacked ==
    \A c \in Cache \ Caches(NULL) :
        k.nr_free_objects[c] <= Cardinality(Made(c) \ InUse)

\* kmem.c:98-109 gives the objects of slab i (i + 1) * 8 bytes, and kmem.c:147
\* computes "the actual size of the slots": an object fits its slot.
SlotHoldsObject ==
    \A o \in InUse : given[o] <= slot_size(k.slab[o[1]])

\* kmem.c:51-55, of the pages of a cache: "All the smaller objects this
\* allocator deals with are contained within such blocks."
ContainedInCache ==
    \A o \in InUse :
        LET i == k.slab[o[1]]
        IN  object_addr(i, o[2]) + object_size(i) <= CACHE_SIZE

\* kmem.c:140-141, where a cache is made: "Either this slab has not yet been
\* initialized, or all the caches in this slab are full."
NewCacheWhenFull ==
    [][\A c \in Caches(NULL) : k'.slab[c] # NULL =>
          \A d \in Caches(k'.slab[c]) : k.nr_free_objects[d] = 0]_vars
=============================================================================
