-------------------------- MODULE TaskMemoryProofs --------------------------
(***************************************************************************)
(* Proofs about TaskMemory, for any number of tasks and of pages: the code *)
(* and the data of a living user task stay in one block, every block that  *)
(* was handed out is the stack or the segment of exactly one task, and no  *)
(* two of them share a page.                                               *)
(*                                                                         *)
(* The first holds whatever the uninitialised new_ds_addr of sys_fork      *)
(* contains.  The last two hold until, with that address, the error path   *)
(* of a fork gives back a block, which is somebody else's.                 *)
(*                                                                         *)
(* Between two requests of a call a task may hold a block that it does not *)
(* hold between calls (fork, before the child is on the list; exit, after  *)
(* the task has died), so the invariant is about references: Ref is the    *)
(* set of those that exist at any moment, and addr is a bijection from Ref *)
(* to the blocks handed out.                                               *)
(***************************************************************************)
EXTENDS TaskMemory, FiniteSetTheorems, TLAPS

Ops   == {"none", "thread", "idle", "fork", "exit"}
Steps == {"none", "kstack", "segment", "free_ds", "free_kstack"}

TypeInv ==
    /\ stopped \in {"no", "panic", "undefined"}
    /\ state \in [Task -> {"none", "alive", "dead"}]
    /\ kstack \in [Task -> Mem!Page]
    /\ ldt \in [Task -> [cs_addr : Mem!Page, cs : Nat, ds_addr : Mem!Page, ds : Nat]]
    /\ call \in [op : Ops, t : Task, p : Task, step : Steps, ds : Junk \cup {NoAddr}]

\* What the call in progress has done so far.
Calls ==
    /\ state[idle] # "dead"
    /\ call.op = "none" => call = Idle
    /\ call.op = "idle" => call.t = idle /\ call.step = "kstack"
    /\ call.op = "thread" => call.t \in KThreads /\ call.step # "segment" /\ call.ds = NoAddr
    /\ call.op = "fork" => /\ call.t \in Users
                           /\ call.p \in Users \cup {idle} /\ state[call.p] = "alive"
    /\ call.op \in {"idle", "thread", "fork"} => state[call.t] = "none"
    /\ call.op = "exit" => /\ call.t \in KThreads \cup Users /\ state[call.t] = "dead"
                           /\ call.step \in {"kstack", "segment"}
                           /\ call.step = "segment" => call.t \in Users
    /\ call.op = "fork" /\ call.step = "segment" => kstack[call.t] # NoAddr

\* A task that does not exist has no stack, except in the middle of a fork.
Stackless ==
    \A t \in Task : state[t] = "none" /\ kstack[t] # NoAddr =>
        call.op = "fork" /\ call.t = t /\ call.step # "kstack"

\* The tasks that hold a stack, and those that hold a segment.
StackHolders ==
    {t \in Task : \/ state[t] = "alive"
                  \/ state[t] = "none" /\ kstack[t] # NoAddr
                  \/ /\ state[t] = "dead" /\ call.op = "exit"
                     /\ call.t = t /\ call.step = "kstack"}
SegmentHolders ==
    {t \in Users : \/ state[t] = "alive"
                   \/ state[t] = "dead" /\ call.op = "exit" /\ call.t = t}

\* Code and data are in one block, large enough for the code.
Segmented ==
    \A t \in Users \cup {idle} :
        t \in SegmentHolders \/ (t = idle /\ state[t] = "alive")
        => Joined(t) /\ ldt[t].cs > 0

StateInv == TypeInv /\ Calls /\ Stackless /\ Segmented

\* The references to blocks, the block of each and the size the holder believes in.
OtherRef == <<"other", idle>>
Ref == {OtherRef} \cup ({"stack"} \X StackHolders) \cup ({"segment"} \X SegmentHolders)
Refs == {OtherRef} \cup ({"stack"} \X Task) \cup ({"segment"} \X Users)

addr ==
    [r \in Refs |-> IF r[1] = "stack" THEN kstack[r[2]]
                    ELSE IF r[1] = "segment" THEN ldt[r[2]].ds_addr ELSE other]
size == [r \in Refs |-> IF r[1] = "stack" THEN KSTACK_PAGES ELSE ldt[r[2]].ds]

\* The blocks of f are those that the references R name, by a; no two name the same.
Held(R, a, z, f) ==
    /\ \A r, q \in R : a[r] = a[q] => r = q
    /\ \A r \in R : a[r] \in DOMAIN f
    /\ \A b \in DOMAIN f : \E r \in R : b = a[r]
    /\ \A r \in R : r # OtherRef => f[a[r]] = z[r]

Owned == Held(Ref, addr, size, owner)

\* Blocks are of whole pages, and no two of them overlap.
Blocks(f) ==
    /\ DOMAIN f \subseteq Usable /\ f \in [DOMAIN f -> Nat \ {0}]
    /\ \A a, b \in DOMAIN f : a # b => Mem!Span(a, f[a]) \cap Mem!Span(b, f[b]) = {}

Exact  == Owned /\ Blocks(owner)
MemInv == StateInv /\ (stopped = "no" /\ ~misfreed => Exact)
-----------------------------------------------------------------------------
\* The time the SMT solver may take for a leaf that names no other prover.
USE SMTT(30)

\* The constants, as the proofs below use them.
LEMMA Constants ==
    /\ NrPages \in Nat /\ Usable \subseteq Mem!Page /\ NoAddr \in Mem!Page
    /\ NoAddr \notin Usable /\ Mem!Page \subseteq Nat
    /\ idle \in Task /\ KThreads \subseteq Task /\ Users \subseteq Task
    /\ idle \notin Users /\ idle \notin KThreads /\ KThreads \cap Users = {} /\ init \in Users
    /\ KSTACK_PAGES \in Nat \ {0} /\ cs_size \in Nat \ {0} /\ ds_size \in Nat \ {0}
    /\ cs_size <= ds_size /\ BrkSizes \subseteq Nat /\ Others \subseteq Nat \ {0}
<1>1. /\ idle \in Task /\ KThreads \subseteq Task /\ Users \subseteq Task
      /\ idle \notin Users /\ idle \notin KThreads /\ KThreads \cap Users = {}
      /\ init \in Users
  BY TaskMemoryAssumption, Zenon DEF Task
<1>2. /\ NrPages \in Nat /\ Usable \subseteq Mem!Page /\ NoAddr \in Mem!Page
      /\ NoAddr \notin Usable /\ Mem!Page \subseteq Nat
  BY TaskMemoryAssumption DEF Mem!Page, NoAddr
<1>3. /\ KSTACK_PAGES \in Nat \ {0} /\ cs_size \in Nat \ {0} /\ ds_size \in Nat \ {0}
      /\ cs_size <= ds_size /\ BrkSizes \subseteq Nat /\ Others \subseteq Nat \ {0}
  BY TaskMemoryAssumption
<1> QED  BY <1>1, <1>2, <1>3

\* The block of the other parts of the kernel is a usable one.
LEMMA OtherUsable == other \in Usable
<1>1. IsWellFoundedOn(OpToRel(<, Nat), Nat)
  BY NatLessThanWellFounded, Zenon
<1>2. Usable \subseteq Nat /\ Usable # {}
  BY Constants, TaskMemoryAssumption
<1>3. PICK x \in Usable : \A y \in Usable : ~(<<y, x>> \in OpToRel(<, Nat))
  BY <1>1, <1>2, WFMin, Zenon
<1>4. \A y \in Usable : ~(y < x)
  BY <1>2, <1>3, ZenonT(30) DEF OpToRel
<1>5. \A y \in Usable : x <= y
  BY <1>2, <1>4
<1> QED  BY <1>5, Zenon DEF other

\* What the page allocator gives is new and does not overlap any block.
LEMMA Granted ==
    ASSUME Blocks(owner), NEW n \in Nat \ {0}, NEW b \in Mem!Page,
           Mem!Span(b, n) \subseteq Mem!FreePages
    PROVE  b \in Usable /\ b \notin DOMAIN owner /\ Blocks(Mem!Give(owner, b, n))
<1> DEFINE f == Mem!Give(owner, b, n)
<1>1. /\ b \in Nat /\ DOMAIN owner \subseteq Nat /\ owner \in [DOMAIN owner -> Nat \ {0}]
      /\ DOMAIN owner \subseteq Usable
  BY Constants DEF Blocks
<1>2. b \in Mem!Span(b, n) /\ \A a \in DOMAIN owner : a \in Mem!Span(a, owner[a])
  BY <1>1 DEF Mem!Span
<1>3. \A a \in DOMAIN owner : Mem!Span(a, owner[a]) \cap Mem!Span(b, n) = {}
  BY Zenon DEF Mem!FreePages
<1>4. b \in Usable
  BY <1>2 DEF Mem!FreePages
<1>5. b \notin DOMAIN owner
  BY <1>2, <1>3
<1>6. /\ DOMAIN f = DOMAIN owner \cup {b} /\ f[b] = n
      /\ \A a \in DOMAIN owner : f[a] = owner[a]
      /\ f \in [DOMAIN f -> Nat \ {0}]
  BY <1>1, <1>5 DEF Mem!Give
<1> HIDE DEF f
<1>7. \A a, c \in DOMAIN f : a # c => Mem!Span(a, f[a]) \cap Mem!Span(c, f[c]) = {}
  BY <1>3, <1>6, Zenon DEF Blocks
<1> QED  BY <1>1, <1>4, <1>5, <1>6, <1>7 DEF Blocks, f

\* Giving a block back.
LEMMA Released ==
    ASSUME NEW f, Blocks(f), NEW b
    PROVE  Blocks(Mem!Take(f, b))
<1> DEFINE g == Mem!Take(f, b)
<1>1. DOMAIN g \subseteq DOMAIN f /\ g \in [DOMAIN g -> Nat \ {0}]
      /\ \A a \in DOMAIN g : g[a] = f[a]
  BY DEF Blocks, Mem!Take
<1> HIDE DEF g
<1> QED  BY <1>1 DEF Blocks, g

\* Resizing a block where it is.
LEMMA Resized ==
    ASSUME Blocks(owner), NEW n \in Nat \ {0}, NEW b \in DOMAIN owner,
           Mem!Growth(b, n) \subseteq Mem!FreePages
    PROVE  Blocks(Mem!Give(owner, b, n))
<1> DEFINE f == Mem!Give(owner, b, n)
<1>1. /\ DOMAIN owner \subseteq Nat /\ owner \in [DOMAIN owner -> Nat \ {0}]
      /\ DOMAIN owner \subseteq Usable
  BY Constants DEF Blocks
<1>2. \A a \in DOMAIN owner : Mem!Span(a, owner[a]) \cap Mem!Growth(b, n) = {}
  BY Zenon DEF Mem!FreePages
<1>3. \A x \in Mem!Span(b, n) : x \in Mem!Span(b, owner[b]) \/ x \in Mem!Growth(b, n)
  BY <1>1 DEF Mem!Span, Mem!Growth
<1>4. \A a \in DOMAIN owner : a # b => Mem!Span(a, owner[a]) \cap Mem!Span(b, n) = {}
  BY <1>2, <1>3, Zenon DEF Blocks
<1>5. /\ DOMAIN f = DOMAIN owner /\ f[b] = n
      /\ \A a \in DOMAIN owner : a # b => f[a] = owner[a]
      /\ f \in [DOMAIN f -> Nat \ {0}]
  BY <1>1 DEF Mem!Give
<1> HIDE DEF f
<1>6. \A a, c \in DOMAIN f : a # c => Mem!Span(a, f[a]) \cap Mem!Span(c, f[c]) = {}
  BY <1>4, <1>5 DEF Blocks
<1> QED  BY <1>1, <1>5, <1>6 DEF Blocks, f
-----------------------------------------------------------------------------
\* A reference is dropped, and its block given back.
LEMMA HoldLess ==
    ASSUME NEW R, NEW a, NEW z, NEW f, Held(R, a, z, f), NEW q \in R,
           NEW c, NEW y,
           \A r \in R : r # q => c[r] = a[r] /\ (r # OtherRef => y[r] = z[r])
    PROVE  Held(R \ {q}, c, y, Mem!Take(f, a[q]))
<1> DEFINE g == Mem!Take(f, a[q])
<1>1. DOMAIN g = DOMAIN f \ {a[q]} /\ \A b \in DOMAIN g : g[b] = f[b]
  BY DEF Mem!Take
<1> HIDE DEF g
<1>2. \A r, s \in (R \ {q}) : c[r] = c[s] => r = s
  BY <1>1 DEF Held
<1>3. \A r \in (R \ {q}) : c[r] \in DOMAIN g
  BY <1>1 DEF Held
<1>4. \A b \in DOMAIN g : \E r \in (R \ {q}) : b = c[r]
  BY <1>1 DEF Held
<1>5. \A r \in (R \ {q}) : r # OtherRef => g[c[r]] = y[r]
  BY <1>1 DEF Held
<1> QED  BY <1>2, <1>3, <1>4, <1>5 DEF Held, g

\* The block of a reference gets another size.
LEMMA HoldResized ==
    ASSUME NEW R, NEW a, NEW z, NEW f, Held(R, a, z, f), NEW q \in R,
           NEW c, NEW y, c[q] = a[q],
           \A r \in R : r # q => c[r] = a[r] /\ (r # OtherRef => y[r] = z[r])
    PROVE  Held(R, c, y, Mem!Give(f, a[q], y[q]))
<1> DEFINE g == Mem!Give(f, a[q], y[q])
<1>1. /\ DOMAIN g = DOMAIN f /\ g[a[q]] = y[q]
      /\ \A b \in DOMAIN f : b # a[q] => g[b] = f[b]
  BY DEF Mem!Give, Held
<1> HIDE DEF g
<1>2. \A r, s \in R : c[r] = c[s] => r = s
  BY <1>1 DEF Held
<1>3. \A r \in R : c[r] \in DOMAIN g
  BY <1>1 DEF Held
<1>4. \A b \in DOMAIN g : \E r \in R : b = c[r]
  BY <1>1 DEF Held
<1>5. \A r \in R : r # OtherRef => g[c[r]] = y[r]
  BY <1>1 DEF Held
<1> QED  BY <1>2, <1>3, <1>4, <1>5 DEF Held, g

\* The block of a reference moves.
LEMMA HoldMoved ==
    ASSUME NEW R, NEW a, NEW z, NEW f, Held(R, a, z, f), NEW q \in R,
           NEW c, NEW y, c[q] \notin DOMAIN f,
           \A r \in R : r # q => c[r] = a[r] /\ (r # OtherRef => y[r] = z[r])
    PROVE  Held(R, c, y, Mem!Take(Mem!Give(f, c[q], y[q]), a[q]))
<1> DEFINE g == Mem!Take(Mem!Give(f, c[q], y[q]), a[q])
<1>1. c[q] # a[q]
  BY DEF Held
<1>2. /\ DOMAIN g = (DOMAIN f \ {a[q]}) \cup {c[q]} /\ g[c[q]] = y[q]
      /\ \A b \in DOMAIN f : b # a[q] => g[b] = f[b]
  BY <1>1 DEF Mem!Give, Mem!Take
<1> HIDE DEF g
<1>3. \A r, s \in R : c[r] = c[s] => r = s
  BY <1>1, <1>2 DEF Held
<1>4. \A r \in R : c[r] \in DOMAIN g
  BY <1>1, <1>2 DEF Held
<1>5. \A b \in DOMAIN g : \E r \in R : b = c[r]
  BY <1>1, <1>2 DEF Held
<1>6. \A r \in R : r # OtherRef => g[c[r]] = y[r]
  BY <1>1, <1>2 DEF Held
<1> QED  BY <1>3, <1>4, <1>5, <1>6 DEF Held, g

\* Nothing changes hands.
LEMMA HoldSame ==
    ASSUME NEW R, NEW a, NEW z, NEW f, Held(R, a, z, f), NEW c, NEW y,
           \A r \in R : c[r] = a[r] /\ (r # OtherRef => y[r] = z[r])
    PROVE  Held(R, c, y, f)
  BY DEF Held
-----------------------------------------------------------------------------
\* The references and what they name, before and after a step.
LEMMA References ==
    /\ OtherRef \in Ref /\ OtherRef \in Ref'
    /\ \A t : <<"stack", t>> # OtherRef /\ <<"segment", t>> # OtherRef
    /\ \A t, u : <<"stack", t>> # <<"segment", u>>
    /\ \A t : <<"stack", t>> \in Ref <=> t \in StackHolders
    /\ \A t : <<"stack", t>> \in Ref' <=> t \in StackHolders'
    /\ \A t : <<"segment", t>> \in Ref <=> t \in SegmentHolders
    /\ \A t : <<"segment", t>> \in Ref' <=> t \in SegmentHolders'
    /\ \A r \in Ref : \/ r = OtherRef
                      \/ \E t \in StackHolders : r = <<"stack", t>>
                      \/ \E t \in SegmentHolders : r = <<"segment", t>>
    /\ \A r \in Ref' : \/ r = OtherRef
                       \/ \E t \in StackHolders' : r = <<"stack", t>>
                       \/ \E t \in SegmentHolders' : r = <<"segment", t>>
<1>1. \A t : <<"stack", t>> # OtherRef /\ <<"segment", t>> # OtherRef
  BY DEF OtherRef
<1>2. \A t, u : <<"stack", t>> # <<"segment", u>>
  OBVIOUS
<1>3. /\ OtherRef \in Ref
      /\ \A t : <<"stack", t>> \in Ref <=> t \in StackHolders
      /\ \A t : <<"segment", t>> \in Ref <=> t \in SegmentHolders
      /\ \A r \in Ref : \/ r = OtherRef
                        \/ \E t \in StackHolders : r = <<"stack", t>>
                        \/ \E t \in SegmentHolders : r = <<"segment", t>>
  BY <1>1, <1>2 DEF Ref
<1>4. /\ OtherRef \in Ref'
      /\ \A t : <<"stack", t>> \in Ref' <=> t \in StackHolders'
      /\ \A t : <<"segment", t>> \in Ref' <=> t \in SegmentHolders'
      /\ \A r \in Ref' : \/ r = OtherRef
                         \/ \E t \in StackHolders' : r = <<"stack", t>>
                         \/ \E t \in SegmentHolders' : r = <<"segment", t>>
  BY <1>1, <1>2 DEF Ref
<1> QED  BY <1>1, <1>2, <1>3, <1>4

\* What each reference names, before and after a step.
LEMMA Values ==
    /\ addr[OtherRef] = other /\ addr'[OtherRef] = other
    /\ \A t \in Task : /\ addr[<<"stack", t>>] = kstack[t]
                       /\ addr'[<<"stack", t>>] = kstack'[t]
                       /\ size[<<"stack", t>>] = KSTACK_PAGES
                       /\ size'[<<"stack", t>>] = KSTACK_PAGES
    /\ \A t \in Users : /\ addr[<<"segment", t>>] = ldt[t].ds_addr
                        /\ addr'[<<"segment", t>>] = ldt'[t].ds_addr
                        /\ size[<<"segment", t>>] = ldt[t].ds
                        /\ size'[<<"segment", t>>] = ldt'[t].ds
<1>1. /\ OtherRef \in Refs /\ OtherRef[1] = "other"
      /\ \A t \in Task : /\ <<"stack", t>> \in Refs
                         /\ <<"stack", t>>[1] = "stack" /\ <<"stack", t>>[2] = t
      /\ \A t \in Users : /\ <<"segment", t>> \in Refs
                          /\ <<"segment", t>>[1] = "segment" /\ <<"segment", t>>[2] = t
  BY DEF Refs, OtherRef
<1> HIDE DEF Refs, OtherRef
<1>2. addr[OtherRef] = other /\ addr'[OtherRef] = other
  BY <1>1 DEF addr
<1>3. ASSUME NEW t \in Task
      PROVE  /\ addr[<<"stack", t>>] = kstack[t] /\ addr'[<<"stack", t>>] = kstack'[t]
             /\ size[<<"stack", t>>] = KSTACK_PAGES /\ size'[<<"stack", t>>] = KSTACK_PAGES
  BY <1>1 DEF addr, size
<1>4. ASSUME NEW t \in Users
      PROVE  /\ addr[<<"segment", t>>] = ldt[t].ds_addr
             /\ addr'[<<"segment", t>>] = ldt'[t].ds_addr
             /\ size[<<"segment", t>>] = ldt[t].ds /\ size'[<<"segment", t>>] = ldt'[t].ds
  BY <1>1 DEF addr, size
<1> QED  BY <1>2, <1>3, <1>4

\* The references other than q name what they named.
LEMMA OthersKept ==
    ASSUME NEW q,
           \A t \in StackHolders : q # <<"stack", t>> => kstack'[t] = kstack[t],
           \A t \in SegmentHolders : q # <<"segment", t>> => ldt'[t] = ldt[t]
    PROVE  \A r \in Ref : r # q => addr'[r] = addr[r] /\ (r # OtherRef => size'[r] = size[r])
<1>1. StackHolders \subseteq Task /\ SegmentHolders \subseteq Users
  BY DEF StackHolders, SegmentHolders
<1> SUFFICES ASSUME NEW r \in Ref, r # q
             PROVE  addr'[r] = addr[r] /\ (r # OtherRef => size'[r] = size[r])
  OBVIOUS
<1>2. CASE r = OtherRef
  BY <1>2, Values, Zenon
<1>3. ASSUME NEW t \in StackHolders, r = <<"stack", t>>
      PROVE  addr'[r] = addr[r] /\ size'[r] = size[r]
  <2>1. t \in Task /\ kstack'[t] = kstack[t]
    BY <1>1, <1>3
  <2> QED  BY <1>3, <2>1, Values, Zenon
<1>4. ASSUME NEW t \in SegmentHolders, r = <<"segment", t>>
      PROVE  addr'[r] = addr[r] /\ size'[r] = size[r]
  <2>1. t \in Users /\ ldt'[t] = ldt[t]
    BY <1>1, <1>4
  <2> QED  BY <1>4, <2>1, Values, Zenon
<1> QED  BY <1>2, <1>3, <1>4, References, Zenon

\* One more reference.
LEMMA GainRef ==
    ASSUME Owned, NEW q, q \in Ref', \A r \in Ref : r \in Ref',
           \A r \in Ref' : r \in Ref \/ r = q,
           \A r \in Ref : addr'[r] = addr[r] /\ (r # OtherRef => size'[r] = size[r]),
           addr'[q] \notin DOMAIN owner,
           owner' = Mem!Give(owner, addr'[q], size'[q])
    PROVE  Owned'
<1>1. Held(Ref, addr, size, owner)
  BY DEF Owned
<1> DEFINE b == addr'[q]
           g == Mem!Give(owner, b, size'[q])
<1>2. /\ DOMAIN g = DOMAIN owner \cup {b} /\ g[b] = size'[q]
      /\ \A x \in DOMAIN owner : g[x] = owner[x]
  BY DEF Mem!Give
<1> HIDE DEF g
<1>3. \A r, s \in Ref' : addr'[r] = addr'[s] => r = s
  BY <1>1, <1>2 DEF Held
<1>4. \A r \in Ref' : addr'[r] \in DOMAIN g
  BY <1>1, <1>2 DEF Held
<1>5. \A x \in DOMAIN g : \E r \in Ref' : x = addr'[r]
  BY <1>1, <1>2 DEF Held
<1>6. \A r \in Ref' : r # OtherRef => g[addr'[r]] = size'[r]
  BY <1>1, <1>2 DEF Held
<1>7. Held(Ref', addr', size', g)
  BY <1>3, <1>4, <1>5, <1>6 DEF Held
<1> QED  BY <1>7, Zenon DEF Owned, g

\* A task gets a stack,
LEMMA GainStack ==
    ASSUME Owned, NEW x \in Task, x \notin StackHolders,
           StackHolders' = StackHolders \cup {x}, SegmentHolders' = SegmentHolders,
           \A t \in StackHolders : kstack'[t] = kstack[t],
           \A t \in SegmentHolders : ldt'[t] = ldt[t],
           kstack'[x] \notin DOMAIN owner,
           owner' = Mem!Give(owner, kstack'[x], KSTACK_PAGES)
    PROVE  Owned'
<1> DEFINE q == <<"stack", x>>
<1>1. q \notin Ref
  BY References, Zenon
<1>2. q \in Ref' /\ (\A r \in Ref : r \in Ref') /\ \A r \in Ref' : r \in Ref \/ r = q
  BY DEF Ref
<1>3. \A r \in Ref : addr'[r] = addr[r] /\ (r # OtherRef => size'[r] = size[r])
  <2>1. \A r \in Ref : r # q => addr'[r] = addr[r] /\ (r # OtherRef => size'[r] = size[r])
    BY OthersKept, Zenon
  <2> QED  BY <1>1, <2>1, Zenon
<1>4. addr'[q] = kstack'[x] /\ size'[q] = KSTACK_PAGES
  BY Values, Zenon
<1>5. addr'[q] \notin DOMAIN owner
  BY <1>4, Zenon
<1> HIDE DEF q
<1>6. owner' = Mem!Give(owner, addr'[q], size'[q])
  BY <1>4
<1> QED  BY <1>2, <1>3, <1>5, <1>6, GainRef, Zenon

\* or a segment,
LEMMA GainSegment ==
    ASSUME Owned, NEW x \in Users, x \notin SegmentHolders,
           StackHolders' = StackHolders, SegmentHolders' = SegmentHolders \cup {x},
           \A t \in StackHolders : kstack'[t] = kstack[t],
           \A t \in SegmentHolders : ldt'[t] = ldt[t],
           ldt'[x].ds_addr \notin DOMAIN owner,
           owner' = Mem!Give(owner, ldt'[x].ds_addr, ldt'[x].ds)
    PROVE  Owned'
<1> DEFINE q == <<"segment", x>>
<1>1. q \notin Ref
  BY References, Zenon
<1>2. q \in Ref' /\ (\A r \in Ref : r \in Ref') /\ \A r \in Ref' : r \in Ref \/ r = q
  BY DEF Ref
<1>3. \A r \in Ref : addr'[r] = addr[r] /\ (r # OtherRef => size'[r] = size[r])
  <2>1. \A r \in Ref : r # q => addr'[r] = addr[r] /\ (r # OtherRef => size'[r] = size[r])
    BY OthersKept, Zenon
  <2> QED  BY <1>1, <2>1, Zenon
<1>4. addr'[q] = ldt'[x].ds_addr /\ size'[q] = ldt'[x].ds
  BY Values, Zenon
<1>5. addr'[q] \notin DOMAIN owner
  BY <1>4, Zenon
<1> HIDE DEF q
<1>6. owner' = Mem!Give(owner, addr'[q], size'[q])
  BY <1>4
<1> QED  BY <1>2, <1>3, <1>5, <1>6, GainRef, Zenon

\* gives back its stack,
LEMMA LoseStack ==
    ASSUME Owned, NEW x \in Task, x \in StackHolders,
           StackHolders' = StackHolders \ {x}, SegmentHolders' = SegmentHolders,
           \A t \in StackHolders : t # x => kstack'[t] = kstack[t],
           \A t \in SegmentHolders : ldt'[t] = ldt[t],
           owner' = Mem!Take(owner, kstack[x])
    PROVE  Owned'
<1> DEFINE q == <<"stack", x>>
<1>1. q \in Ref
  BY References, Zenon
<1>2. Ref' = Ref \ {q}
  BY DEF Ref, OtherRef
<1>3. \A r \in Ref : r # q => addr'[r] = addr[r] /\ (r # OtherRef => size'[r] = size[r])
  BY OthersKept, Zenon
<1>4. addr[q] = kstack[x]
  BY Values, Zenon
<1> HIDE DEF q
<1>5. Held(Ref \ {q}, addr', size', Mem!Take(owner, addr[q]))
  BY <1>1, <1>3, HoldLess, ZenonT(40) DEF Owned
<1> QED  BY <1>2, <1>4, <1>5, Zenon DEF Owned

\* its segment,
LEMMA LoseSegment ==
    ASSUME Owned, NEW x \in Users, x \in SegmentHolders,
           StackHolders' = StackHolders, SegmentHolders' = SegmentHolders \ {x},
           \A t \in StackHolders : kstack'[t] = kstack[t],
           \A t \in SegmentHolders : t # x => ldt'[t] = ldt[t],
           owner' = Mem!Take(owner, ldt[x].ds_addr)
    PROVE  Owned'
<1> DEFINE q == <<"segment", x>>
<1>1. q \in Ref
  BY References, Zenon
<1>2. Ref' = Ref \ {q}
  BY DEF Ref, OtherRef
<1>3. \A r \in Ref : r # q => addr'[r] = addr[r] /\ (r # OtherRef => size'[r] = size[r])
  BY OthersKept, Zenon
<1>4. addr[q] = ldt[x].ds_addr
  BY Values, Zenon
<1> HIDE DEF q
<1>5. Held(Ref \ {q}, addr', size', Mem!Take(owner, addr[q]))
  BY <1>1, <1>3, HoldLess, ZenonT(40) DEF Owned
<1> QED  BY <1>2, <1>4, <1>5, Zenon DEF Owned

\* has its segment resized or moved,
LEMMA ChangeSegment ==
    ASSUME Owned, NEW x \in Users, x \in SegmentHolders,
           StackHolders' = StackHolders, SegmentHolders' = SegmentHolders,
           \A t \in StackHolders : kstack'[t] = kstack[t],
           \A t \in SegmentHolders : t # x => ldt'[t] = ldt[t],
           \/ /\ ldt'[x].ds_addr = ldt[x].ds_addr
              /\ owner' = Mem!Give(owner, ldt[x].ds_addr, ldt'[x].ds)
           \/ /\ ldt'[x].ds_addr \notin DOMAIN owner
              /\ owner' = Mem!Take(Mem!Give(owner, ldt'[x].ds_addr, ldt'[x].ds),
                                   ldt[x].ds_addr)
    PROVE  Owned'
<1> DEFINE q == <<"segment", x>>
<1>1. q \in Ref
  BY References, Zenon
<1>2. Ref' = Ref
  BY DEF Ref
<1>3. \A r \in Ref : r # q => addr'[r] = addr[r] /\ (r # OtherRef => size'[r] = size[r])
  BY OthersKept, Zenon
<1>4. /\ addr[q] = ldt[x].ds_addr /\ addr'[q] = ldt'[x].ds_addr /\ size'[q] = ldt'[x].ds
  BY Values, Zenon
<1> HIDE DEF q
<1>5. CASE addr'[q] = addr[q] /\ owner' = Mem!Give(owner, addr[q], size'[q])
  <2>1. Held(Ref, addr', size', Mem!Give(owner, addr[q], size'[q]))
    BY <1>1, <1>3, <1>5, HoldResized, ZenonT(40) DEF Owned
  <2> QED  BY <1>2, <1>5, <2>1, Zenon DEF Owned
<1>6. CASE /\ addr'[q] \notin DOMAIN owner
           /\ owner' = Mem!Take(Mem!Give(owner, addr'[q], size'[q]), addr[q])
  <2>1. Held(Ref, addr', size', Mem!Take(Mem!Give(owner, addr'[q], size'[q]), addr[q]))
    BY <1>1, <1>3, <1>6, HoldMoved, ZenonT(40) DEF Owned
  <2> QED  BY <1>2, <1>6, <2>1, Zenon DEF Owned
<1> QED  BY <1>4, <1>5, <1>6, Zenon

\* or everybody keeps what they have.
LEMMA KeepAll ==
    ASSUME Owned, StackHolders' = StackHolders, SegmentHolders' = SegmentHolders,
           \A t \in StackHolders : kstack'[t] = kstack[t],
           \A t \in SegmentHolders : ldt'[t] = ldt[t],
           owner' = owner
    PROVE  Owned'
<1>1. Ref' = Ref
  BY DEF Ref
<1>2. \A r \in Ref : addr'[r] = addr[r] /\ (r # OtherRef => size'[r] = size[r])
  <2> DEFINE q == <<"other", "other">>
  <2>1. \A r \in Ref : r # OtherRef => r # q
    BY References
  <2>2. \A r \in Ref : r # q => addr'[r] = addr[r] /\ (r # OtherRef => size'[r] = size[r])
    BY OthersKept, Zenon
  <2>3. addr'[OtherRef] = addr[OtherRef]
    BY Values, Zenon
  <2> QED  BY <2>1, <2>2, <2>3, Zenon
<1>3. Held(Ref, addr', size', owner)
  BY <1>2, HoldSame, Zenon DEF Owned
<1> QED  BY <1>1, <1>3, Zenon DEF Owned
-----------------------------------------------------------------------------
\* The answers of alloc_physmem_block,
LEMMA AllocAnswer ==
    ASSUME NEW n \in Nat \ {0}, Mem!Alloc(n)
    PROVE  /\ stopped' = stopped
           /\ \/ reply'.res = "E_NOMEM" /\ owner' = owner
              \/ /\ reply'.res = "S_OK" /\ reply'.addr \in Mem!Page
                 /\ reply'.addr \in Usable
                 /\ Mem!Span(reply'.addr, n) \subseteq Mem!FreePages
                 /\ owner' = Mem!Give(owner, reply'.addr, n)
<1>1. stopped' = stopped
  BY DEF Mem!Alloc
<1>2. CASE Mem!Answer("alloc", 0, n, 0, "E_NOMEM") /\ owner' = owner
  BY <1>1, <1>2 DEF Mem!Answer
<1>3. ASSUME NEW b \in Mem!Page, Mem!Answer("alloc", b, n, 0, "S_OK"), Mem!Lowest(n, b),
             owner' = Mem!Give(owner, b, n)
      PROVE  /\ reply'.res = "S_OK" /\ reply'.addr \in Mem!Page
             /\ reply'.addr \in Usable
             /\ Mem!Span(reply'.addr, n) \subseteq Mem!FreePages
             /\ owner' = Mem!Give(owner, reply'.addr, n)
  <2>1. reply'.res = "S_OK" /\ reply'.addr = b
    BY <1>3 DEF Mem!Answer
  <2>2. Mem!Span(b, n) \subseteq Mem!FreePages
    BY <1>3 DEF Mem!Lowest
  <2>3. b \in Mem!Span(b, n)
    BY Constants DEF Mem!Span
  <2>4. b \in Usable
    BY <2>2, <2>3 DEF Mem!FreePages
  <2> QED  BY <1>3, <2>1, <2>2, <2>4, Zenon
<1> QED  BY <1>1, <1>2, <1>3, Zenon DEF Mem!Alloc

\* of free_physmem_block for a block that was handed out,
LEMMA FreeAnswer ==
    ASSUME NEW b, free_physmem_block(b), stopped = "no"
    PROVE  /\ stopped' \in {"no", "panic"}
           /\ stopped' = "no" /\ b \in DOMAIN owner => owner' = Mem!Take(owner, b)
  BY DEF free_physmem_block, Mem!Free

\* and of realloc_physmem_block.
LEMMA ReallocAnswer ==
    ASSUME NEW b \in Mem!Page, NEW n \in Nat \ {0}, realloc_physmem_block(b, n), stopped = "no"
    PROVE  /\ stopped' \in {"no", "panic", "undefined"}
           /\ reply'.res = "S_OK" /\ stopped' = "no" => reply'.addr \in Mem!Page
           /\ stopped' = "no" /\ b \in DOMAIN owner =>
                 \/ reply'.res # "S_OK" /\ owner' = owner
                 \/ /\ reply'.res = "S_OK" /\ reply'.addr = b
                    /\ Mem!Growth(b, n) \subseteq Mem!FreePages
                    /\ owner' = Mem!Give(owner, b, n)
                 \/ /\ reply'.res = "S_OK" /\ reply'.addr \in Mem!Page
                    /\ Mem!Span(reply'.addr, n) \subseteq Mem!FreePages
                    /\ owner' = Mem!Take(Mem!Give(owner, reply'.addr, n), b)
<1> DEFINE Good ==
    /\ stopped' \in {"no", "panic", "undefined"}
    /\ reply'.res = "S_OK" /\ stopped' = "no" => reply'.addr \in Mem!Page
    /\ stopped' = "no" /\ b \in DOMAIN owner =>
          \/ reply'.res # "S_OK" /\ owner' = owner
          \/ /\ reply'.res = "S_OK" /\ reply'.addr = b
             /\ Mem!Growth(b, n) \subseteq Mem!FreePages
             /\ owner' = Mem!Give(owner, b, n)
          \/ /\ reply'.res = "S_OK" /\ reply'.addr \in Mem!Page
             /\ Mem!Span(reply'.addr, n) \subseteq Mem!FreePages
             /\ owner' = Mem!Take(Mem!Give(owner, reply'.addr, n), b)
<1>1. ASSUME Mem!Answer("realloc", b, n, 0, "E_FAIL"), b \notin DOMAIN owner,
             stopped' = stopped
      PROVE  Good
  BY <1>1 DEF Mem!Answer
<1>2. ASSUME Mem!Answer("realloc", b, n, owner[b], "S_OK"),
             Mem!Growth(b, n) \subseteq Mem!FreePages,
             owner' = Mem!Give(owner, b, n), stopped' = stopped
      PROVE  Good
  BY <1>2 DEF Mem!Answer
<1>3. ASSUME Mem!Answer("realloc", b, n, owner[b], "E_NOMEM"),
             owner' = owner, stopped' = stopped
      PROVE  Good
  BY <1>3 DEF Mem!Answer
<1>4. ASSUME NEW c \in Mem!Page, Mem!Answer("realloc", c, n, owner[b], "S_OK"),
             Mem!Lowest(n, c),
             \/ stopped' = "panic"
             \/ owner' = Mem!Take(Mem!Give(owner, c, n), b) /\ stopped' = stopped
      PROVE  Good
  BY <1>4 DEF Mem!Answer, Mem!Lowest
<1>5. ASSUME stopped' = "undefined" PROVE Good
  BY <1>5
<1>6. Mem!Realloc(b, n)
  BY DEF realloc_physmem_block
<1>7. \/ /\ Mem!Answer("realloc", b, n, 0, "E_FAIL")
         /\ b \notin DOMAIN owner /\ stopped' = stopped
      \/ /\ Mem!Answer("realloc", b, n, owner[b], "S_OK")
         /\ Mem!Growth(b, n) \subseteq Mem!FreePages
         /\ owner' = Mem!Give(owner, b, n) /\ stopped' = stopped
      \/ /\ Mem!Answer("realloc", b, n, owner[b], "E_NOMEM")
         /\ owner' = owner /\ stopped' = stopped
      \/ \E c \in Mem!Page :
            /\ Mem!Answer("realloc", c, n, owner[b], "S_OK") /\ Mem!Lowest(n, c)
            /\ \/ stopped' = "panic"
               \/ owner' = Mem!Take(Mem!Give(owner, c, n), b) /\ stopped' = stopped
      \/ stopped' = "undefined"
  BY <1>6 DEF Mem!Realloc
<1> HIDE DEF Good
<1>8. Good
  BY <1>1, <1>2, <1>3, <1>4, <1>5, <1>7, Zenon
<1> QED  BY <1>8 DEF Good
-----------------------------------------------------------------------------
\* The fields of the call in progress, and of the call that begins.
LEMMA CallFields ==
    ASSUME TypeInv
    PROVE  /\ call.op \in Ops /\ call.t \in Task /\ call.p \in Task /\ call.step \in Steps
           /\ call.ds \in Junk \cup {NoAddr}
           /\ \A s \in Steps : /\ [call EXCEPT !.step = s].op = call.op
                               /\ [call EXCEPT !.step = s].t = call.t
                               /\ [call EXCEPT !.step = s].p = call.p
                               /\ [call EXCEPT !.step = s].step = s
                               /\ [call EXCEPT !.step = s].ds = call.ds
                               /\ [call EXCEPT !.step = s] \in
                                    [op : Ops, t : Task, p : Task, step : Steps,
                                     ds : Junk \cup {NoAddr}]
  BY DEF TypeInv

\* No call is in progress.
LEMMA IdleFields ==
    /\ Idle \in [op : Ops, t : Task, p : Task, step : Steps, ds : Junk \cup {NoAddr}]
    /\ Idle.op = "none" /\ Idle.step = "none"
  BY Constants DEF Idle, Ops, Steps

\* The beginning of kernel_thread, init_multitasking and sys_fork.
LEMMA BeginKeeps ==
    ASSUME StateInv, NEW op \in {"thread", "idle", "fork"}, NEW t \in Task, NEW p \in Task,
           NEW step \in AfterKmalloc, NEW ds \in Junk \cup {NoAddr},
           Begin(op, t, p, step, ds), UNCHANGED <<memory, state, kstack, ldt>>,
           state[t] = "none",
           op = "idle" => t = idle /\ step = "kstack",
           op = "thread" => t \in KThreads /\ ds = NoAddr,
           op = "fork" => t \in Users /\ p \in Users \cup {idle} /\ state[p] = "alive"
    PROVE  StateInv' /\ (Exact => Exact')
<1>1. /\ call = Idle /\ stopped = "no" /\ owner' = owner /\ stopped' = stopped
      /\ state' = state /\ kstack' = kstack /\ ldt' = ldt
  BY DEF Begin, memory
<1>2. /\ call'.op = op /\ call'.t = t /\ call'.p = p /\ call'.step = step /\ call'.ds = ds
      /\ call' \in [op : Ops, t : Task, p : Task, step : Steps, ds : Junk \cup {NoAddr}]
  BY DEF Begin, AfterKmalloc, Ops, Steps
<1>3. \A u \in Task : ~(state[u] = "none" /\ kstack[u] # NoAddr)
  BY <1>1, IdleFields DEF StateInv, Stackless
<1>4. StackHolders' = StackHolders /\ SegmentHolders' = SegmentHolders
  BY <1>1, <1>2, IdleFields DEF StackHolders, SegmentHolders
<1>5. TypeInv' /\ Stackless'
  BY <1>1, <1>2, <1>3 DEF StateInv, TypeInv, Stackless
<1>6. Calls'
  BY <1>1, <1>2 DEF StateInv, Calls, AfterKmalloc
<1>7. Segmented'
  BY <1>1, <1>4 DEF StateInv, Segmented, Joined
<1>8. Owned => Owned'
  BY <1>1, <1>4, KeepAll, Zenon
<1> QED  BY <1>1, <1>5, <1>6, <1>7, <1>8 DEF StateInv, Exact, Blocks

\* kernel_thread has its descriptor, or not.
LEMMA KernelThreadKeeps ==
    ASSUME StateInv, NEW t \in KThreads, kernel_thread(t)
    PROVE  StateInv' /\ (Exact => Exact')
<1>1. /\ state[t] = "none" /\ UNCHANGED <<memory, state, kstack, ldt>>
      /\ t \in Task /\ idle \in Task /\ NoAddr \in Junk \cup {NoAddr}
  BY Constants DEF kernel_thread
<1>2. PICK step \in AfterKmalloc : Begin("thread", t, idle, step, NoAddr)
  BY DEF kernel_thread
<1> QED  BY <1>1, <1>2, BeginKeeps

\* init_multitasking is about to ask for the stack of idle.
LEMMA InitMultitaskingKeeps ==
    ASSUME StateInv, init_multitasking
    PROVE  StateInv' /\ (Exact => Exact')
<1>1. /\ Begin("idle", idle, idle, "kstack", NoAddr)
      /\ UNCHANGED <<memory, state, kstack, ldt>>
      /\ "kstack" \in AfterKmalloc /\ idle \in Task /\ NoAddr \in Junk \cup {NoAddr}
  BY Constants DEF init_multitasking, AfterKmalloc
<1>2. state[idle] = "none"
  BY Constants DEF init_multitasking, Booting, Alive, StateInv, TypeInv, Calls
<1> QED  BY <1>1, <1>2, BeginKeeps

\* sys_fork has the descriptor of the child, or not.
LEMMA SysForkKeeps ==
    ASSUME StateInv, NEW p \in Task, NEW t \in Users, sys_fork(p, t)
    PROVE  StateInv' /\ (Exact => Exact')
<1>1. /\ state[t] = "none" /\ UNCHANGED <<memory, state, kstack, ldt>> /\ t \in Task
      /\ p \in Users \cup {idle} /\ state[p] = "alive"
  BY Constants DEF sys_fork, Alive
<1>2. PICK step \in AfterKmalloc, junk \in Junk : Begin("fork", t, p, step, junk)
  BY DEF sys_fork
<1>3. junk \in Junk \cup {NoAddr}
  OBVIOUS
<1> QED  BY <1>1, <1>2, <1>3, BeginKeeps
-----------------------------------------------------------------------------
\* The kernel stack of a new task was granted,
LEMMA StackGranted ==
    ASSUME StateInv, AllocStack, reply'.res = "S_OK"
    PROVE  StateInv' /\ (Exact => Exact')
<1> DEFINE t == call.t
           b == reply'.addr
<1>1. /\ call.op \in {"thread", "idle", "fork"} /\ call.step = "kstack" /\ stopped = "no"
      /\ Mem!Alloc(KSTACK_PAGES)
      /\ kstack' = [kstack EXCEPT ![t] = b]
  BY DEF AllocStack, At
<1>2. /\ stopped' = stopped /\ b \in Mem!Page /\ b \in Usable
      /\ Mem!Span(b, KSTACK_PAGES) \subseteq Mem!FreePages
      /\ owner' = Mem!Give(owner, b, KSTACK_PAGES)
  BY <1>1, AllocAnswer, Constants
<1>3. t \in Task /\ state[t] = "none" /\ kstack[t] = NoAddr
  BY <1>1, CallFields DEF StateInv, Calls, Stackless
<1>4. b # NoAddr
  BY <1>2, Constants
<1>5. kstack' \in [Task -> Mem!Page] /\ kstack'[t] = b
      /\ \A u \in Task : u # t => kstack'[u] = kstack[u]
  BY <1>1, <1>2, <1>3 DEF StateInv, TypeInv
<1>6. StateInv' /\ StackHolders' = StackHolders \cup {t} /\ SegmentHolders' = SegmentHolders
      /\ \A u \in SegmentHolders : ldt'[u] = ldt[u]
  <2>1. CASE call.op \in {"thread", "idle"}
    <3>1. /\ state' = [state EXCEPT ![t] = "alive"] /\ call' = Idle /\ t \notin Users
      BY <1>1, <2>1, Constants DEF AllocStack, Started, StateInv, Calls
    <3>2. /\ state' \in [Task -> {"none", "alive", "dead"}] /\ state'[t] = "alive"
          /\ \A u \in Task : u # t => state'[u] = state[u]
      BY <1>3, <3>1 DEF StateInv, TypeInv
    <3>3. /\ ldt' \in [Task -> [cs_addr : Mem!Page, cs : Nat, ds_addr : Mem!Page, ds : Nat]]
          /\ \A u \in Users : ldt'[u] = ldt[u]
          /\ call.op = "idle" => ldt'[idle] = Segments(NoAddr, cs_size, ds_size)
          /\ call.op = "thread" => ldt' = ldt
      <4>1. Segments(NoAddr, cs_size, ds_size) \in
                [cs_addr : Mem!Page, cs : Nat, ds_addr : Mem!Page, ds : Nat]
        BY Constants DEF Segments
      <4> HIDE DEF Segments
      <4>2. CASE call.op = "thread"
        BY <1>1, <4>2 DEF AllocStack, StateInv, TypeInv
      <4>3. CASE call.op = "idle"
        BY <1>1, <4>1, <4>3, Constants DEF AllocStack, StateInv, TypeInv
      <4> QED  BY <2>1, <4>2, <4>3
    <3>4. StackHolders' = StackHolders \cup {t}
      BY <1>1, <1>3, <1>5, <2>1, <3>1, <3>2, IdleFields DEF StackHolders
    <3>5. SegmentHolders' = SegmentHolders
      BY <2>1, <3>1, <3>2, IdleFields, Constants DEF SegmentHolders
    <3>6. TypeInv' /\ Calls'
      BY <1>2, <1>3, <1>5, <3>1, <3>2, <3>3, IdleFields, Constants
         DEF TypeInv, Calls, StateInv
    <3>7. Stackless'
      BY <1>1, <1>3, <1>5, <2>1, <3>2 DEF StateInv, Stackless
    <3>8. Segmented'
      <4> SUFFICES ASSUME NEW u \in Users \cup {idle},
                          u \in SegmentHolders' \/ (u = idle /\ state'[u] = "alive")
                   PROVE  Joined(u)' /\ ldt'[u].cs > 0
        BY DEF Segmented
      <4>1. CASE u \in Users
        BY <3>3, <3>5, <4>1, Constants DEF StateInv, Segmented, Joined
      <4>2. CASE u = idle /\ call.op = "idle"
        BY <3>3, <4>2, Constants DEF Joined, Segments
      <4>3. CASE u = idle /\ call.op = "thread"
        <5>1. t # idle /\ u \notin SegmentHolders'
          BY <4>3, Constants DEF StateInv, Calls, SegmentHolders
        <5>2. state[idle] = "alive"
          BY <3>2, <4>3, <5>1, Constants
        <5>3. Joined(u) /\ ldt[u].cs > 0
          BY <4>3, <5>2 DEF StateInv, Segmented
        <5> QED  BY <3>3, <4>3, <5>3 DEF Joined
      <4> QED  BY <2>1, <4>1, <4>2, <4>3
    <3> QED  BY <3>3, <3>4, <3>5, <3>6, <3>7, <3>8 DEF StateInv, SegmentHolders
  <2>2. CASE call.op = "fork"
    <3>1. state' = state /\ ldt' = ldt /\ call' = [call EXCEPT !.step = "segment"]
      BY <1>1, <2>2 DEF AllocStack, Goto
    <3>2. /\ call'.op = "fork" /\ call'.t = t /\ call'.p = call.p
          /\ call'.step = "segment" /\ call'.ds = call.ds
          /\ call' \in [op : Ops, t : Task, p : Task, step : Steps, ds : Junk \cup {NoAddr}]
      BY <2>2, <3>1, CallFields DEF StateInv, Steps
    <3>3. StackHolders' = StackHolders \cup {t}
      BY <1>3, <1>4, <1>5, <2>2, <3>1, <3>2 DEF StackHolders
    <3>4. SegmentHolders' = SegmentHolders
      BY <2>2, <3>1, <3>2 DEF SegmentHolders
    <3>5. TypeInv' /\ Calls'
      BY <1>2, <1>4, <1>5, <2>2, <3>1, <3>2 DEF TypeInv, Calls, StateInv
    <3>6. Stackless'
      BY <1>1, <1>5, <2>2, <3>1, <3>2 DEF StateInv, Stackless
    <3>7. Segmented'
      BY <3>1, <3>4 DEF StateInv, Segmented, Joined
    <3> QED  BY <3>1, <3>3, <3>4, <3>5, <3>6, <3>7 DEF StateInv
  <2> QED  BY <1>1, <2>1, <2>2
<1>7. t \notin StackHolders
  BY <1>1, <1>3 DEF StackHolders
<1>8. ASSUME Exact PROVE Exact'
  <2>1. b \notin DOMAIN owner /\ Blocks(Mem!Give(owner, b, KSTACK_PAGES))
    BY <1>2, <1>8, Granted, Constants, Zenon DEF Exact
  <2>2. \A u \in StackHolders : kstack'[u] = kstack[u]
    BY <1>5, <1>7 DEF StackHolders
  <2> HIDE DEF t, b
  <2>3. Owned'
    BY <1>2, <1>3, <1>5, <1>6, <1>7, <1>8, <2>1, <2>2, GainStack, Zenon DEF Exact
  <2> QED  BY <1>2, <2>1, <2>3 DEF Exact
<1> QED  BY <1>6, <1>8

\* or refused.
LEMMA StackRefused ==
    ASSUME StateInv, AllocStack, reply'.res # "S_OK"
    PROVE  StateInv' /\ (Exact => Exact')
<1>1. /\ call.op \in {"thread", "idle", "fork"} /\ call.step = "kstack" /\ stopped = "no"
      /\ Mem!Alloc(KSTACK_PAGES)
      /\ call.op # "idle" /\ call' = [call EXCEPT !.step = "free_ds"]
      /\ state' = state /\ kstack' = kstack /\ ldt' = ldt
  BY DEF AllocStack, At, Goto
<1>2. stopped' = stopped /\ owner' = owner
  BY <1>1, AllocAnswer, Constants
<1>3. /\ call'.op = call.op /\ call'.t = call.t /\ call'.p = call.p
      /\ call'.step = "free_ds" /\ call'.ds = call.ds
      /\ call' \in [op : Ops, t : Task, p : Task, step : Steps, ds : Junk \cup {NoAddr}]
  BY <1>1, CallFields DEF StateInv, Steps
<1>4. StackHolders' = StackHolders /\ SegmentHolders' = SegmentHolders
  BY <1>1, <1>3 DEF StackHolders, SegmentHolders
<1>5. TypeInv' /\ Calls' /\ Stackless'
  BY <1>1, <1>2, <1>3 DEF StateInv, TypeInv, Calls, Stackless
<1>6. Segmented'
  BY <1>1, <1>4 DEF StateInv, Segmented, Joined
<1>7. Owned => Owned'
  BY <1>1, <1>2, <1>4, KeepAll, Zenon
<1> QED  BY <1>2, <1>5, <1>6, <1>7 DEF StateInv, Exact, Blocks

\* Either way, the request for a stack keeps the invariant.
LEMMA AllocStackKeeps ==
    ASSUME StateInv, AllocStack
    PROVE  StateInv' /\ (Exact => Exact')
  BY StackGranted, StackRefused

\* init_multitasking panics: nothing but stopped changes.
LEMMA AllocStackFailsKeeps ==
    ASSUME StateInv, AllocStackFails
    PROVE  StateInv' /\ stopped' = "panic"
<1>1. /\ stopped' = "panic" /\ state' = state /\ kstack' = kstack /\ ldt' = ldt
      /\ call' = call
  BY DEF AllocStackFails, panic
<1>2. StackHolders' = StackHolders /\ SegmentHolders' = SegmentHolders
  BY <1>1 DEF StackHolders, SegmentHolders
<1> QED  BY <1>1, <1>2 DEF StateInv, TypeInv, Calls, Stackless, Segmented, Joined

\* The segment of a child was granted,
LEMMA SegmentGranted ==
    ASSUME StateInv, AllocSegment, reply'.res = "S_OK"
    PROVE  StateInv' /\ (Exact => Exact')
<1> DEFINE t == call.t
           b == reply'.addr
           n == ldt[call.p].ds
<1>1. /\ call.op = "fork" /\ call.step = "segment" /\ stopped = "no"
      /\ Joined(call.p) /\ Mem!Alloc(n)
      /\ state' = [state EXCEPT ![t] = "alive"] /\ call' = Idle /\ kstack' = kstack
      /\ ldt' = [ldt EXCEPT ![t] = Segments(b, ldt[call.p].cs, n)]
  BY DEF AllocSegment, At, Started
<1>2. /\ t \in Users /\ t \in Task /\ state[t] = "none" /\ kstack[t] # NoAddr
      /\ call.p \in Task /\ call.p \in Users \cup {idle} /\ state[call.p] = "alive"
  BY <1>1, CallFields, Constants DEF StateInv, Calls
<1>3. /\ ldt[call.p].cs \in Nat \ {0} /\ n \in Nat \ {0} /\ ldt[call.p].cs <= n
  <2>1. Joined(call.p) /\ ldt[call.p].cs > 0
    BY <1>2, Constants DEF StateInv, Segmented, SegmentHolders
  <2>2. ldt[call.p].cs \in Nat /\ n \in Nat
    BY <1>2 DEF StateInv, TypeInv
  <2> QED  BY <2>1, <2>2 DEF Joined
<1>4. /\ stopped' = stopped /\ b \in Mem!Page /\ b \in Usable
      /\ Mem!Span(b, n) \subseteq Mem!FreePages /\ owner' = Mem!Give(owner, b, n)
  BY <1>1, <1>3, AllocAnswer
<1>5. /\ state' \in [Task -> {"none", "alive", "dead"}] /\ state'[t] = "alive"
      /\ \A u \in Task : u # t => state'[u] = state[u]
  BY <1>1, <1>2 DEF StateInv, TypeInv
<1>6. /\ Segments(b, ldt[call.p].cs, n) \in
            [cs_addr : Mem!Page, cs : Nat, ds_addr : Mem!Page, ds : Nat]
      /\ Segments(b, ldt[call.p].cs, n).cs_addr = b
      /\ Segments(b, ldt[call.p].cs, n).ds_addr = b
      /\ Segments(b, ldt[call.p].cs, n).cs = ldt[call.p].cs
      /\ Segments(b, ldt[call.p].cs, n).ds = n
  BY <1>3, <1>4, Zenon DEF Segments
<1>7. /\ ldt' \in [Task -> [cs_addr : Mem!Page, cs : Nat, ds_addr : Mem!Page, ds : Nat]]
      /\ \A u \in Task : u # t => ldt'[u] = ldt[u]
      /\ ldt'[t].cs_addr = b /\ ldt'[t].ds_addr = b
      /\ ldt'[t].cs = ldt[call.p].cs /\ ldt'[t].ds = n
  BY <1>1, <1>2, <1>6 DEF StateInv, TypeInv
<1>8. StackHolders' = StackHolders
  BY <1>1, <1>2, <1>5, IdleFields DEF StackHolders
<1>9. SegmentHolders' = SegmentHolders \cup {t} /\ t \notin SegmentHolders
  BY <1>1, <1>2, <1>5, IdleFields, Constants DEF SegmentHolders
<1>10. TypeInv' /\ Calls' /\ Stackless'
  <2>1. TypeInv'
    BY <1>1, <1>4, <1>5, <1>7, IdleFields, Zenon DEF StateInv, TypeInv
  <2>2. Calls'
    BY <1>1, <1>2, <1>5, IdleFields, Constants, SMTT(60) DEF StateInv, Calls
  <2>3. Stackless'
    BY <1>1, <1>5, ZenonT(40) DEF StateInv, Stackless
  <2> QED  BY <2>1, <2>2, <2>3
<1>11. Segmented'
  <2> SUFFICES ASSUME NEW u \in Users \cup {idle},
                      u \in SegmentHolders' \/ (u = idle /\ state'[u] = "alive")
               PROVE  Joined(u)' /\ ldt'[u].cs > 0
    BY DEF Segmented
  <2>1. CASE u = t
    BY <1>3, <1>7, <2>1 DEF Joined
  <2>2. CASE u # t
    <3>1. u \in Task /\ (u \in SegmentHolders \/ (u = idle /\ state[u] = "alive"))
      BY <1>5, <1>9, <2>2, Constants
    <3>2. Joined(u) /\ ldt[u].cs > 0
      BY <3>1 DEF StateInv, Segmented
    <3> QED  BY <1>7, <2>2, <3>1, <3>2 DEF Joined
  <2> QED  BY <2>1, <2>2, Zenon
<1>12. ASSUME Exact PROVE Exact'
  <2>1. b \notin DOMAIN owner /\ Blocks(Mem!Give(owner, b, n))
    <3> HIDE DEF n
    <3> QED  BY <1>3, <1>4, <1>12, Granted, ZenonT(40) DEF Exact
  <2>2. /\ \A u \in StackHolders : kstack'[u] = kstack[u]
        /\ \A u \in SegmentHolders : ldt'[u] = ldt[u]
    BY <1>1, <1>7, <1>9, Constants, Zenon DEF SegmentHolders
  <2>3. owner' = Mem!Give(owner, ldt'[t].ds_addr, ldt'[t].ds)
        /\ ldt'[t].ds_addr \notin DOMAIN owner
    BY <1>4, <1>7, <2>1, Zenon
  <2> HIDE DEF t, b, n
  <2>4. Owned'
    BY <1>2, <1>8, <1>9, <1>12, <2>2, <2>3, GainSegment, Zenon DEF Exact
  <2> QED  BY <1>4, <2>1, <2>4 DEF Exact
<1> QED  BY <1>10, <1>11, <1>12 DEF StateInv

\* or refused.
LEMMA SegmentRefused ==
    ASSUME StateInv, AllocSegment, reply'.res # "S_OK"
    PROVE  StateInv' /\ (Exact => Exact')
<1> DEFINE n == ldt[call.p].ds
<1>1. /\ call.op = "fork" /\ call.step = "segment" /\ stopped = "no"
      /\ Mem!Alloc(n) /\ call' = [call EXCEPT !.step = "free_ds"]
      /\ state' = state /\ kstack' = kstack /\ ldt' = ldt
  BY DEF AllocSegment, At, Goto
<1>2. n \in Nat \ {0}
  <2>1. /\ call.p \in Task /\ call.p \in Users \cup {idle} /\ state[call.p] = "alive"
    BY <1>1, CallFields, Constants DEF StateInv, Calls
  <2>2. Joined(call.p) /\ ldt[call.p].cs > 0
    BY <2>1, Constants DEF StateInv, Segmented, SegmentHolders
  <2>3. ldt[call.p].cs \in Nat /\ n \in Nat
    BY <2>1 DEF StateInv, TypeInv
  <2> QED  BY <2>2, <2>3 DEF Joined
<1>3. stopped' = stopped /\ owner' = owner
  BY <1>1, <1>2, AllocAnswer
<1>4. /\ call'.op = call.op /\ call'.t = call.t /\ call'.p = call.p
      /\ call'.step = "free_ds" /\ call'.ds = call.ds
      /\ call' \in [op : Ops, t : Task, p : Task, step : Steps, ds : Junk \cup {NoAddr}]
  BY <1>1, CallFields DEF StateInv, Steps
<1>5. StackHolders' = StackHolders /\ SegmentHolders' = SegmentHolders
  BY <1>1, <1>4 DEF StackHolders, SegmentHolders
<1>6. TypeInv' /\ Calls' /\ Stackless'
  BY <1>1, <1>3, <1>4 DEF StateInv, TypeInv, Calls, Stackless
<1>7. Segmented'
  BY <1>1, <1>5 DEF StateInv, Segmented, Joined
<1>8. Owned => Owned'
  BY <1>1, <1>3, <1>5, KeepAll, Zenon
<1> QED  BY <1>3, <1>6, <1>7, <1>8 DEF StateInv, Exact, Blocks

\* Either way, the request for a segment keeps the invariant.
LEMMA AllocSegmentKeeps ==
    ASSUME StateInv, AllocSegment
    PROVE  StateInv' /\ (Exact => Exact')
  BY SegmentGranted, SegmentRefused
-----------------------------------------------------------------------------
\* The error paths.  The blocks stay exact if none is given back here.
LEMMA FreeSegmentKeeps ==
    ASSUME StateInv, FreeSegment
    PROVE  StateInv' /\ (owner' = owner /\ Exact => Exact')
<1>1. /\ call.op \in {"thread", "fork"} /\ call.step = "free_ds" /\ stopped = "no"
      /\ call' = [call EXCEPT !.step = "free_kstack"]
      /\ state' = state /\ kstack' = kstack /\ ldt' = ldt
  BY DEF FreeSegment, At, Goto
<1>2. stopped' \in {"no", "panic"}
  <2>1. CASE call.ds = NoAddr
    BY <1>1, <2>1 DEF FreeSegment, memory
  <2>2. CASE call.ds # NoAddr
    BY <1>1, <2>2, FreeAnswer DEF FreeSegment
  <2> QED  BY <2>1, <2>2
<1>3. /\ call'.op = call.op /\ call'.t = call.t /\ call'.p = call.p
      /\ call'.step = "free_kstack" /\ call'.ds = call.ds
      /\ call' \in [op : Ops, t : Task, p : Task, step : Steps, ds : Junk \cup {NoAddr}]
  BY <1>1, CallFields DEF StateInv, Steps
<1>4. StackHolders' = StackHolders /\ SegmentHolders' = SegmentHolders
  BY <1>1, <1>3 DEF StackHolders, SegmentHolders
<1>5. TypeInv' /\ Calls' /\ Stackless'
  BY <1>1, <1>2, <1>3 DEF StateInv, TypeInv, Calls, Stackless
<1>6. Segmented'
  BY <1>1, <1>4 DEF StateInv, Segmented, Joined
<1>7. ASSUME owner' = owner, Exact PROVE Exact'
  <2>1. Owned'
    BY <1>1, <1>4, <1>7, KeepAll, Zenon DEF Exact
  <2> QED  BY <1>7, <2>1 DEF Exact, Blocks
<1> QED  BY <1>5, <1>6, <1>7 DEF StateInv

\* The error paths give back the stack if there is one.
LEMMA FreeStackKeeps ==
    ASSUME StateInv, FreeStack
    PROVE  StateInv' /\ (Exact /\ stopped' = "no" => Exact')
<1> DEFINE t == call.t
<1>1. /\ call.op \in {"thread", "fork"} /\ call.step = "free_kstack" /\ stopped = "no"
      /\ call' = Idle /\ kstack' = [kstack EXCEPT ![t] = NoAddr]
      /\ state' = state /\ ldt' = ldt
  BY DEF FreeStack, At
<1>2. /\ t \in Task /\ state[t] = "none"
  BY <1>1, CallFields DEF StateInv, Calls
<1>3. /\ stopped' \in {"no", "panic"}
      /\ kstack[t] = NoAddr => owner' = owner
      /\ kstack[t] # NoAddr /\ stopped' = "no" /\ kstack[t] \in DOMAIN owner
         => owner' = Mem!Take(owner, kstack[t])
  <2>1. CASE kstack[t] = NoAddr
    BY <1>1, <2>1 DEF FreeStack, memory
  <2>2. CASE kstack[t] # NoAddr
    BY <1>1, <2>2, FreeAnswer DEF FreeStack
  <2> QED  BY <2>1, <2>2
<1>4. /\ kstack' \in [Task -> Mem!Page] /\ kstack'[t] = NoAddr
      /\ \A u \in Task : u # t => kstack'[u] = kstack[u]
  BY <1>1, <1>2, Constants DEF StateInv, TypeInv
<1>5. /\ StackHolders' = StackHolders \ {t} /\ SegmentHolders' = SegmentHolders
      /\ kstack[t] = NoAddr <=> t \notin StackHolders
  BY <1>1, <1>2, <1>4, IdleFields DEF StackHolders, SegmentHolders
<1>6. TypeInv' /\ Calls' /\ Stackless'
  <2>1. TypeInv' /\ Calls'
    BY <1>1, <1>3, <1>4, IdleFields, Constants DEF StateInv, TypeInv, Calls
  <2>2. Stackless'
    BY <1>1, <1>4 DEF StateInv, Stackless
  <2> QED  BY <2>1, <2>2
<1>7. Segmented'
  BY <1>1, <1>5, Zenon DEF StateInv, Segmented, Joined
<1>8. ASSUME Exact, stopped' = "no" PROVE Exact'
  <2>1. /\ \A u \in StackHolders : u # t => kstack'[u] = kstack[u]
        /\ \A u \in SegmentHolders : ldt'[u] = ldt[u]
    BY <1>1, <1>4 DEF StackHolders
  <2>2. CASE t \in StackHolders
    <3>1. kstack[t] \in DOMAIN owner
      <4>1. <<"stack", t>> \in Ref /\ addr[<<"stack", t>>] = kstack[t]
        BY <1>2, <2>2, References, Values, Zenon
      <4> QED  BY <1>8, <4>1 DEF Exact, Owned, Held
    <3>2. owner' = Mem!Take(owner, kstack[t])
      BY <1>3, <1>5, <1>8, <2>2, <3>1
    <3> HIDE DEF t
    <3>3. Owned'
      BY <1>2, <1>5, <1>8, <2>1, <2>2, <3>2, LoseStack, Zenon DEF Exact
    <3>4. Blocks(Mem!Take(owner, kstack[t]))
      BY <1>8, Released, Zenon DEF Exact
    <3> QED  BY <3>2, <3>3, <3>4 DEF Exact
  <2>3. CASE t \notin StackHolders
    <3>1. owner' = owner /\ StackHolders' = StackHolders
          /\ \A u \in StackHolders : kstack'[u] = kstack[u]
      BY <1>3, <1>5, <2>1, <2>3
    <3>2. Owned'
      BY <1>5, <1>8, <2>1, <3>1, KeepAll, Zenon DEF Exact
    <3> QED  BY <1>8, <3>1, <3>2 DEF Exact, Blocks
  <2> QED  BY <2>2, <2>3
<1> QED  BY <1>6, <1>7, <1>8 DEF StateInv
-----------------------------------------------------------------------------
\* A task dies,
LEMMA DoExitKeeps ==
    ASSUME StateInv, NEW t \in KThreads \cup Users, do_exit(t)
    PROVE  StateInv' /\ (Exact => Exact')
<1>1. /\ call = Idle /\ stopped = "no" /\ owner' = owner /\ stopped' = stopped
      /\ state[t] = "alive" /\ t \in Task /\ t # idle
      /\ state' = [state EXCEPT ![t] = "dead"] /\ kstack' = kstack /\ ldt' = ldt
  BY DEF do_exit, Begin, Alive, memory
<1>2. /\ call'.op = "exit" /\ call'.t = t /\ call'.p = t /\ call'.step = "kstack"
      /\ call' \in [op : Ops, t : Task, p : Task, step : Steps, ds : Junk \cup {NoAddr}]
  BY <1>1 DEF do_exit, Begin, Ops, Steps
<1>3. /\ state' \in [Task -> {"none", "alive", "dead"}] /\ state'[t] = "dead"
      /\ \A u \in Task : u # t => state'[u] = state[u]
  BY <1>1 DEF StateInv, TypeInv
<1>4. StackHolders' = StackHolders
  BY <1>1, <1>2, <1>3, IdleFields DEF StackHolders
<1>5. SegmentHolders' = SegmentHolders
  BY <1>1, <1>2, <1>3, IdleFields, Constants DEF SegmentHolders
<1>6. TypeInv' /\ Calls'
  BY <1>1, <1>2, <1>3, Constants, SMTT(60) DEF StateInv, TypeInv, Calls
<1>7. Stackless'
  BY <1>1, <1>3, IdleFields DEF StateInv, Stackless
<1>8. Segmented'
  BY <1>1, <1>3, <1>5, Constants, SMTT(60) DEF StateInv, Segmented, Joined
<1>9. Owned => Owned'
  BY <1>1, <1>4, <1>5, KeepAll, Zenon
<1> QED  BY <1>1, <1>6, <1>7, <1>8, <1>9 DEF StateInv, Exact, Blocks

\* gives back its stack,
LEMMA ExitStackKeeps ==
    ASSUME StateInv, ExitStack
    PROVE  StateInv' /\ (Exact /\ stopped' = "no" => Exact')
<1> DEFINE t == call.t
<1>1. /\ call.op = "exit" /\ call.step = "kstack" /\ stopped = "no"
      /\ free_physmem_block(kstack[t])
      /\ IF t \in Users THEN call' = [call EXCEPT !.step = "segment"] ELSE call' = Idle
      /\ state' = state /\ kstack' = kstack /\ ldt' = ldt
  BY DEF ExitStack, At, Goto
<1>2. t \in Task /\ t \in KThreads \cup Users /\ state[t] = "dead" /\ t # idle
  BY <1>1, CallFields, Constants DEF StateInv, Calls
<1>3. /\ stopped' \in {"no", "panic"}
      /\ stopped' = "no" /\ kstack[t] \in DOMAIN owner => owner' = Mem!Take(owner, kstack[t])
  BY <1>1, FreeAnswer
<1>4. /\ call' \in [op : Ops, t : Task, p : Task, step : Steps, ds : Junk \cup {NoAddr}]
      /\ \/ t \in Users /\ call'.op = "exit" /\ call'.t = t /\ call'.step = "segment"
         \/ t \notin Users /\ call' = Idle
  BY <1>1, CallFields, IdleFields DEF StateInv, Steps
<1>5. /\ t \in StackHolders /\ StackHolders' = StackHolders \ {t}
  BY <1>1, <1>2, <1>4, IdleFields DEF StackHolders
<1>6. SegmentHolders' = SegmentHolders
  BY <1>1, <1>2, <1>4, IdleFields DEF SegmentHolders
<1>7. TypeInv' /\ Calls'
  BY <1>1, <1>2, <1>3, <1>4, IdleFields DEF StateInv, TypeInv, Calls
<1>8. Stackless'
  BY <1>1, <1>4 DEF StateInv, Stackless
<1>9. Segmented'
  BY <1>1, <1>6 DEF StateInv, Segmented, Joined
<1>10. ASSUME Exact, stopped' = "no" PROVE Exact'
  <2>1. kstack[t] \in DOMAIN owner
    <3>1. <<"stack", t>> \in Ref /\ addr[<<"stack", t>>] = kstack[t]
      BY <1>2, <1>5, References, Values, Zenon
    <3> QED  BY <1>10, <3>1 DEF Exact, Owned, Held
  <2>2. owner' = Mem!Take(owner, kstack[t])
    BY <1>3, <1>10, <2>1
  <2> HIDE DEF t
  <2>3. /\ \A u \in StackHolders : u # t => kstack'[u] = kstack[u]
        /\ \A u \in SegmentHolders : ldt'[u] = ldt[u]
    BY <1>1
  <2>4. Owned'
    BY <1>2, <1>5, <1>6, <1>10, <2>2, <2>3, LoseStack, ZenonT(40) DEF Exact
  <2>5. Blocks(Mem!Take(owner, kstack[t]))
    BY <1>10, Released, Zenon DEF Exact
  <2> QED  BY <2>2, <2>4, <2>5 DEF Exact
<1> QED  BY <1>7, <1>8, <1>9, <1>10 DEF StateInv

\* and its segment, which starts where its code does,
LEMMA ExitSegmentKeeps ==
    ASSUME StateInv, ExitSegment
    PROVE  StateInv' /\ (Exact /\ stopped' = "no" => Exact')
<1> DEFINE t == call.t
<1>1. /\ call.op = "exit" /\ call.step = "segment" /\ stopped = "no"
      /\ free_physmem_block(ldt[t].cs_addr) /\ call' = Idle
      /\ state' = state /\ kstack' = kstack /\ ldt' = ldt
  BY DEF ExitSegment, At
<1>2. t \in Task /\ t \in Users /\ state[t] = "dead" /\ t # idle
  BY <1>1, CallFields, Constants DEF StateInv, Calls
<1>3. t \in SegmentHolders /\ ldt[t].cs_addr = ldt[t].ds_addr
  BY <1>1, <1>2 DEF StateInv, Segmented, SegmentHolders, Joined
<1>4. /\ stopped' \in {"no", "panic"}
      /\ stopped' = "no" /\ ldt[t].ds_addr \in DOMAIN owner
         => owner' = Mem!Take(owner, ldt[t].ds_addr)
  BY <1>1, <1>3, FreeAnswer
<1>5. StackHolders' = StackHolders
  BY <1>1, <1>2, IdleFields DEF StackHolders
<1>6. SegmentHolders' = SegmentHolders \ {t}
  BY <1>1, <1>2, IdleFields DEF SegmentHolders
<1>7. TypeInv' /\ Calls'
  BY <1>1, <1>4, IdleFields DEF StateInv, TypeInv, Calls
<1>8. Stackless'
  BY <1>1, Zenon DEF StateInv, Stackless
<1>9. Segmented'
  BY <1>1, <1>6 DEF StateInv, Segmented, Joined
<1>10. ASSUME Exact, stopped' = "no" PROVE Exact'
  <2>1. ldt[t].ds_addr \in DOMAIN owner
    <3>1. <<"segment", t>> \in Ref /\ addr[<<"segment", t>>] = ldt[t].ds_addr
      BY <1>2, <1>3, References, Values, Zenon
    <3> QED  BY <1>10, <3>1 DEF Exact, Owned, Held
  <2>2. owner' = Mem!Take(owner, ldt[t].ds_addr)
    BY <1>4, <1>10, <2>1
  <2> HIDE DEF t
  <2>3. /\ \A u \in StackHolders : kstack'[u] = kstack[u]
        /\ \A u \in SegmentHolders : u # t => ldt'[u] = ldt[u]
    BY <1>1
  <2>4. Owned'
    BY <1>2, <1>3, <1>5, <1>6, <1>10, <2>2, <2>3, LoseSegment, Zenon DEF Exact
  <2>5. Blocks(Mem!Take(owner, ldt[t].ds_addr))
    BY <1>10, Released, Zenon DEF Exact
  <2> QED  BY <2>2, <2>4, <2>5 DEF Exact
<1> QED  BY <1>7, <1>8, <1>9, <1>10 DEF StateInv

\* and is reaped.
LEMMA ReapKeeps ==
    ASSUME StateInv, NEW t \in KThreads \cup Users, Reap(t)
    PROVE  StateInv' /\ (Exact => Exact')
<1>1. /\ call = Idle /\ call' = call /\ owner' = owner /\ stopped' = stopped
      /\ state[t] = "dead" /\ t \in Task /\ t # idle
      /\ state' = [state EXCEPT ![t] = "none"] /\ kstack' = [kstack EXCEPT ![t] = NoAddr]
      /\ ldt' = [ldt EXCEPT ![t] = Segments(NoAddr, 0, 0)]
  BY Constants DEF Reap, memory
<1>2. /\ state' \in [Task -> {"none", "alive", "dead"}] /\ state'[t] = "none"
      /\ kstack' \in [Task -> Mem!Page] /\ kstack'[t] = NoAddr
      /\ \A u \in Task : u # t => state'[u] = state[u] /\ kstack'[u] = kstack[u]
  BY <1>1, Constants DEF StateInv, TypeInv
<1>3. /\ ldt' \in [Task -> [cs_addr : Mem!Page, cs : Nat, ds_addr : Mem!Page, ds : Nat]]
      /\ \A u \in Task : u # t => ldt'[u] = ldt[u]
  <2>1. Segments(NoAddr, 0, 0) \in [cs_addr : Mem!Page, cs : Nat, ds_addr : Mem!Page, ds : Nat]
    BY Constants DEF Segments
  <2> HIDE DEF Segments
  <2> QED  BY <1>1, <2>1 DEF StateInv, TypeInv
<1>4. StackHolders' = StackHolders /\ t \notin StackHolders
  BY <1>1, <1>2, IdleFields DEF StackHolders
<1>5. SegmentHolders' = SegmentHolders /\ t \notin SegmentHolders
  BY <1>1, <1>2, IdleFields, Constants DEF SegmentHolders
<1>6. TypeInv' /\ Calls'
  BY <1>1, <1>2, <1>3, IdleFields, Constants, SMTT(60) DEF StateInv, TypeInv, Calls
<1>7. Stackless'
  BY <1>1, <1>2 DEF StateInv, Stackless
<1>8. Segmented'
  <2> SUFFICES ASSUME NEW u \in Users \cup {idle},
                      u \in SegmentHolders' \/ (u = idle /\ state'[u] = "alive")
               PROVE  Joined(u)' /\ ldt'[u].cs > 0
    BY Zenon DEF Segmented
  <2>1. u # t /\ u \in Task /\ (u \in SegmentHolders \/ (u = idle /\ state[u] = "alive"))
    BY <1>1, <1>2, <1>5, Constants
  <2>2. Joined(u) /\ ldt[u].cs > 0
    BY <2>1, Zenon DEF StateInv, Segmented
  <2> QED  BY <1>3, <2>1, <2>2, SMTT(60) DEF Joined
<1>9. /\ \A u \in StackHolders : kstack'[u] = kstack[u]
      /\ \A u \in SegmentHolders : ldt'[u] = ldt[u]
  <2>1. StackHolders \subseteq Task /\ SegmentHolders \subseteq Task
    BY Constants, Zenon DEF StackHolders, SegmentHolders
  <2> QED  BY <1>2, <1>3, <1>4, <1>5, <2>1, Zenon
<1>10. Owned => Owned'
  BY <1>1, <1>4, <1>5, <1>9, KeepAll, Zenon
<1> QED  BY <1>1, <1>6, <1>7, <1>8, <1>10 DEF StateInv, Exact, Blocks
-----------------------------------------------------------------------------
\* sys_brk resizes the segment or moves it.
LEMMA SysBrkKeeps ==
    ASSUME StateInv, NEW t \in Users, NEW n \in BrkSizes, sys_brk(t, n)
    PROVE  StateInv' /\ (Exact /\ stopped' = "no" => Exact')
<1> DEFINE b == ldt[t].ds_addr
           c == reply'.addr
<1>1. /\ stopped = "no" /\ call = Idle /\ state[t] = "alive" /\ t \in Task /\ t # idle
      /\ n >= ldt[t].cs /\ realloc_physmem_block(b, n)
      /\ state' = state /\ kstack' = kstack /\ call' = call
  BY Constants DEF sys_brk, Alive
<1>2. t \in SegmentHolders /\ Joined(t) /\ ldt[t].cs > 0
  BY <1>1 DEF StateInv, Segmented, SegmentHolders
<1>3. b \in Mem!Page /\ ldt[t].cs \in Nat \ {0} /\ n \in Nat \ {0}
  BY <1>1, <1>2, Constants DEF StateInv, TypeInv
<1>4. /\ stopped' \in {"no", "panic", "undefined"}
      /\ reply'.res = "S_OK" /\ stopped' = "no" => c \in Mem!Page
      /\ stopped' = "no" /\ b \in DOMAIN owner =>
            \/ reply'.res # "S_OK" /\ owner' = owner
            \/ /\ reply'.res = "S_OK" /\ c = b
               /\ Mem!Growth(b, n) \subseteq Mem!FreePages
               /\ owner' = Mem!Give(owner, b, n)
            \/ /\ reply'.res = "S_OK" /\ c \in Mem!Page
               /\ Mem!Span(c, n) \subseteq Mem!FreePages
               /\ owner' = Mem!Take(Mem!Give(owner, c, n), b)
  <2> HIDE DEF b
  <2> QED  BY <1>1, <1>3, ReallocAnswer, ZenonT(40)
<1>5. StackHolders' = StackHolders /\ SegmentHolders' = SegmentHolders
  BY <1>1, ZenonT(40) DEF StackHolders, SegmentHolders
<1>6. \/ /\ stopped' = "no" /\ reply'.res = "S_OK"
         /\ ldt' \in [Task -> [cs_addr : Mem!Page, cs : Nat, ds_addr : Mem!Page, ds : Nat]]
         /\ ldt'[t].cs_addr = c /\ ldt'[t].ds_addr = c
         /\ ldt'[t].cs = ldt[t].cs /\ ldt'[t].ds = n
         /\ \A u \in Task : u # t => ldt'[u] = ldt[u]
      \/ (stopped' # "no" \/ reply'.res # "S_OK") /\ ldt' = ldt
  <2>1. CASE stopped' = "no" /\ reply'.res = "S_OK" /\ Resize(t, c, n)
    <3> DEFINE s == Segments(c, ldt[t].cs, n)
    <3>1. /\ s \in [cs_addr : Mem!Page, cs : Nat, ds_addr : Mem!Page, ds : Nat]
          /\ s.cs_addr = c /\ s.ds_addr = c /\ s.cs = ldt[t].cs /\ s.ds = n
      BY <1>3, <1>4, <2>1, ZenonT(40) DEF Segments
    <3>2. ldt' = [ldt EXCEPT ![t] = s]
      BY <2>1 DEF Resize
    <3> HIDE DEF s
    <3> QED  BY <1>1, <2>1, <3>1, <3>2 DEF StateInv, TypeInv
  <2>2. CASE (stopped' # "no" \/ reply'.res # "S_OK") /\ ldt' = ldt
    BY <2>2
  <2> QED  BY <2>1, <2>2 DEF sys_brk
<1>7. TypeInv' /\ Calls' /\ Stackless'
  <2>1. TypeInv'
    BY <1>1, <1>4, <1>6, ZenonT(40) DEF StateInv, TypeInv
  <2>2. Calls' /\ Stackless'
    BY <1>1, ZenonT(40) DEF StateInv, Calls, Stackless
  <2> QED  BY <2>1, <2>2
<1>8. Segmented'
  <2> SUFFICES ASSUME NEW u \in Users \cup {idle},
                      u \in SegmentHolders' \/ (u = idle /\ state'[u] = "alive")
               PROVE  Joined(u)' /\ ldt'[u].cs > 0
    BY DEF Segmented
  <2>1. u \in Task /\ (u \in SegmentHolders \/ (u = idle /\ state[u] = "alive"))
    BY <1>1, <1>5, Constants
  <2>2. Joined(u) /\ ldt[u].cs > 0
    BY <2>1 DEF StateInv, Segmented
  <2>3. CASE ldt'[u] = ldt[u]
    BY <2>2, <2>3 DEF Joined
  <2>4. CASE ldt'[u] # ldt[u]
    <3>1. u = t /\ ldt'[t].cs_addr = ldt'[t].ds_addr
          /\ ldt'[t].cs = ldt[t].cs /\ ldt'[t].ds = n
      BY <1>6, <2>1, <2>4
    <3> QED  BY <1>1, <1>3, <3>1 DEF Joined
  <2> QED  BY <2>3, <2>4
<1>9. ASSUME Exact, stopped' = "no" PROVE Exact'
  <2>1. b \in DOMAIN owner
    <3>1. <<"segment", t>> \in Ref /\ addr[<<"segment", t>>] = b
      BY <1>2, References, Values, Zenon
    <3> QED  BY <1>9, <3>1 DEF Exact, Owned, Held
  <2>2. \A u \in StackHolders : kstack'[u] = kstack[u]
    BY <1>1
  <2>3. CASE reply'.res # "S_OK"
    <3>1. owner' = owner /\ ldt' = ldt
      BY <1>4, <1>6, <1>9, <2>1, <2>3, Zenon
    <3>2. Owned'
      BY <1>5, <1>9, <2>2, <3>1, KeepAll, ZenonT(40) DEF Exact
    <3> QED  BY <1>9, <3>1, <3>2 DEF Exact, Blocks
  <2>4. CASE reply'.res = "S_OK"
    <3>1. ldt'[t].ds_addr = c /\ ldt'[t].ds = n
          /\ \A u \in SegmentHolders : u # t => ldt'[u] = ldt[u]
      BY <1>6, <1>9, <2>4, Constants, Zenon DEF SegmentHolders
    <3>2. CASE /\ c = b /\ Mem!Growth(b, n) \subseteq Mem!FreePages
               /\ owner' = Mem!Give(owner, b, n)
      <4>1. /\ ldt'[t].ds_addr = ldt[t].ds_addr
            /\ owner' = Mem!Give(owner, ldt[t].ds_addr, ldt'[t].ds)
        BY <3>1, <3>2
      <4>2. Owned'
        BY <1>2, <1>5, <1>9, <2>2, <3>1, <4>1, ChangeSegment, Zenon DEF Exact
      <4> HIDE DEF b
      <4>3. Blocks(Mem!Give(owner, b, n))
        BY <1>3, <1>9, <2>1, <3>2, Resized, Zenon DEF Exact
      <4> QED  BY <3>2, <4>2, <4>3 DEF Exact
    <3>3. CASE /\ c \in Mem!Page /\ Mem!Span(c, n) \subseteq Mem!FreePages
               /\ owner' = Mem!Take(Mem!Give(owner, c, n), b)
      <4>1. c \notin DOMAIN owner /\ Blocks(Mem!Give(owner, c, n))
        <5> HIDE DEF c
        <5> QED  BY <1>3, <1>9, <3>3, Granted, ZenonT(40) DEF Exact
      <4>2. /\ ldt'[t].ds_addr \notin DOMAIN owner
            /\ owner' = Mem!Take(Mem!Give(owner, ldt'[t].ds_addr, ldt'[t].ds), ldt[t].ds_addr)
        BY <3>1, <3>3, <4>1, ZenonT(40)
      <4>3. Owned'
        BY <1>2, <1>5, <1>9, <2>2, <3>1, <4>2, ChangeSegment, Zenon DEF Exact
      <4> HIDE DEF b, c
      <4>4. Blocks(Mem!Take(Mem!Give(owner, c, n), b))
        BY <4>1, Released, Zenon
      <4> QED  BY <3>3, <4>3, <4>4 DEF Exact
    <3> QED  BY <1>4, <1>9, <2>1, <2>4, <3>2, <3>3, Zenon
  <2> QED  BY <2>3, <2>4
<1> QED  BY <1>7, <1>8, <1>9 DEF StateInv
-----------------------------------------------------------------------------
\* At first the other parts of the kernel hold the only block.
LEMMA InitKeeps ==
    ASSUME Init
    PROVE  MemInv
<1>1. PICK n \in Others : owner = Mem!Give([b \in {} |-> 0], other, n)
  BY DEF Init
<1>2. /\ stopped = "no" /\ call = Idle /\ state = [t \in Task |-> "none"]
      /\ kstack = [t \in Task |-> NoAddr] /\ ldt = [t \in Task |-> Segments(NoAddr, 0, 0)]
  BY DEF Init
<1>3. Segments(NoAddr, 0, 0) \in [cs_addr : Mem!Page, cs : Nat, ds_addr : Mem!Page, ds : Nat]
  BY Constants DEF Segments
<1>4. TypeInv
  <2> HIDE DEF Segments
  <2> QED  BY <1>2, <1>3, IdleFields, Constants DEF TypeInv
<1>5. Calls /\ Stackless
  BY <1>2, IdleFields, Constants DEF Calls, Stackless
<1>6. StackHolders = {} /\ SegmentHolders = {}
  BY <1>2, IdleFields, Constants DEF StackHolders, SegmentHolders
<1>7. Segmented
  BY <1>2, <1>6, Constants DEF Segmented
<1>8. Ref = {OtherRef} /\ addr[OtherRef] = other
  <2>1. Ref = {OtherRef}
    BY <1>6 DEF Ref
  <2> QED  BY <2>1, Values
<1>9. DOMAIN owner = {other} /\ owner[other] = n /\ owner \in [{other} -> Nat \ {0}]
  BY <1>1, Constants DEF Mem!Give
<1>10. Owned
  BY <1>8, <1>9 DEF Owned, Held
<1>11. Blocks(owner)
  BY <1>9, OtherUsable DEF Blocks
<1> QED  BY <1>4, <1>5, <1>7, <1>10, <1>11 DEF MemInv, StateInv, Exact

\* One lemma above for each disjunct of Next.
LEMMA NextKeeps ==
    ASSUME MemInv, [Next]_vars
    PROVE  MemInv'
<1> DEFINE Kept == StateInv' /\ (Exact /\ stopped' = "no" => Exact')
<1>1. StateInv
  BY DEF MemInv
<1>0. ASSUME Kept, stopped' = "no" => stopped = "no", misfreed' = misfreed PROVE MemInv'
  BY <1>0, Zenon DEF MemInv
<1>2. ASSUME UNCHANGED vars PROVE Kept /\ stopped' = stopped
  <2>1. /\ owner' = owner /\ stopped' = stopped /\ state' = state /\ kstack' = kstack
        /\ ldt' = ldt /\ call' = call
    BY <1>2 DEF vars, memory
  <2>2. StackHolders' = StackHolders /\ SegmentHolders' = SegmentHolders
    BY <2>1 DEF StackHolders, SegmentHolders
  <2>3. StateInv'
    BY <1>1, <2>1, <2>2, SMTT(60) DEF StateInv, TypeInv, Calls, Stackless, Segmented, Joined
  <2>4. Owned => Owned'
    BY <2>1, <2>2, KeepAll, Zenon
  <2> QED  BY <2>1, <2>3, <2>4 DEF Exact, Blocks
<1>3. ASSUME NEW t \in KThreads, kernel_thread(t) PROVE Kept /\ stopped = "no"
  BY <1>1, <1>3, KernelThreadKeeps DEF kernel_thread, Begin
<1>4. ASSUME init_multitasking PROVE Kept /\ stopped = "no"
  BY <1>1, <1>4, InitMultitaskingKeeps DEF init_multitasking, Begin
<1>5. ASSUME NEW p \in Task, NEW t \in Users, sys_fork(p, t) PROVE Kept /\ stopped = "no"
  BY <1>1, <1>5, SysForkKeeps DEF sys_fork, Begin
<1>6. ASSUME AllocStack PROVE Kept /\ stopped = "no"
  BY <1>1, <1>6, AllocStackKeeps DEF AllocStack, At
<1>7. ASSUME AllocStackFails PROVE Kept /\ stopped = "no"
  BY <1>1, <1>7, AllocStackFailsKeeps DEF AllocStackFails, At
<1>8. ASSUME AllocSegment PROVE Kept /\ stopped = "no"
  BY <1>1, <1>8, AllocSegmentKeeps, ZenonT(40) DEF AllocSegment, At
<1>9. ASSUME FreeSegment PROVE MemInv'
  <2>1. StateInv' /\ (owner' = owner /\ Exact => Exact') /\ stopped = "no"
    BY <1>1, <1>9, FreeSegmentKeeps DEF FreeSegment, At
  <2>2. ~misfreed' => ~misfreed /\ owner' = owner
    BY <1>9, Zenon DEF FreeSegment
  <2> QED  BY <2>1, <2>2, Zenon DEF MemInv
<1>10. ASSUME FreeStack PROVE Kept /\ stopped = "no"
  BY <1>1, <1>10, FreeStackKeeps DEF FreeStack, At
<1>11. ASSUME NEW t \in KThreads \cup Users, do_exit(t) PROVE Kept /\ stopped = "no"
  BY <1>1, <1>11, DoExitKeeps, ZenonT(40) DEF do_exit, Begin
<1>12. ASSUME NEW t \in KThreads \cup Users, Reap(t) PROVE Kept /\ stopped = "no"
  BY <1>1, <1>12, ReapKeeps, ZenonT(40) DEF Reap
<1>13. ASSUME ExitStack PROVE Kept /\ stopped = "no"
  BY <1>1, <1>13, ExitStackKeeps DEF ExitStack, At
<1>14. ASSUME ExitSegment PROVE Kept /\ stopped = "no"
  BY <1>1, <1>14, ExitSegmentKeeps DEF ExitSegment, At
<1>15. ASSUME NEW t \in Users, NEW n \in BrkSizes, sys_brk(t, n) PROVE Kept /\ stopped = "no"
  BY <1>1, <1>15, SysBrkKeeps, Zenon DEF sys_brk
<1>16. ASSUME UNCHANGED vars PROVE MemInv'
  <2>1. misfreed' = misfreed
    BY <1>16 DEF vars
  <2> QED  BY <1>0, <1>2, <1>16, <2>1
<1> HIDE DEF Kept
<1> QED  BY <1>0, <1>3, <1>4, <1>5, <1>6, <1>7, <1>8, <1>9, <1>10, <1>11, <1>12,
            <1>13, <1>14, <1>15, <1>16, ZenonT(40) DEF Next, Stopped

\* MemInv holds throughout: the references to stacks and segments, also the ones
\* that exist only within fork and exit, name the blocks handed out.
THEOREM MemInvariance == Spec => []MemInv
<1>1. Init => MemInv
  BY InitKeeps
<1>2. MemInv /\ [Next]_vars => MemInv'
  BY NextKeeps
<1> QED  BY <1>1, <1>2, PTL DEF Spec
-----------------------------------------------------------------------------
\* Whatever an unset new_ds_addr holds, the code and the data of a living user
\* task start at the same page and the data is no smaller than the code: the
\* panics of sys_fork and sys_brk on two different segments are never reached.
THEOREM SegmentsStayJoined == Spec => []SegmentsJoined
<1>1. MemInv => SegmentsJoined
  BY DEF MemInv, StateInv, Segmented, SegmentHolders, SegmentsJoined, Alive
<1> QED  BY <1>1, MemInvariance, PTL

\* Between calls the holders are the living tasks.
LEMMA HoldersAtRest ==
    ASSUME StateInv, call = Idle
    PROVE  StackHolders = Alive /\ SegmentHolders = Alive \cap Users
<1>1. StackHolders = Alive
  BY IdleFields DEF StateInv, Stackless, StackHolders, Alive
<1>2. SegmentHolders = Alive \cap Users
  BY IdleFields, Constants DEF SegmentHolders, Alive
<1> QED  BY <1>1, <1>2

\* There are as many blocks as references.
LEMMA BlocksCounted ==
    ASSUME Owned
    PROVE  Cardinality(DOMAIN owner) =
              1 + Cardinality(StackHolders) + Cardinality(SegmentHolders)
<1> DEFINE A == {OtherRef}
           S == {"stack"} \X StackHolders
           G == {"segment"} \X SegmentHolders
<1>1. IsFiniteSet(StackHolders) /\ IsFiniteSet(SegmentHolders)
  <2>1. IsFiniteSet(KThreads \cup Users) /\ IsFiniteSet({idle})
    BY TaskMemoryAssumption, FS_Singleton, Zenon
  <2>2. IsFiniteSet({idle} \cup (KThreads \cup Users))
    BY <2>1, FS_Union, Zenon
  <2>3. /\ StackHolders \in SUBSET ({idle} \cup (KThreads \cup Users))
        /\ SegmentHolders \in SUBSET ({idle} \cup (KThreads \cup Users))
    BY DEF StackHolders, SegmentHolders, Task
  <2> QED  BY <2>2, <2>3, FS_Subset, Zenon
<1>2. \A x : IsFiniteSet({x}) /\ Cardinality({x}) = 1
  BY FS_Singleton, Zenon
<1>3. IsFiniteSet(S) /\ Cardinality(S) = Cardinality({"stack"}) * Cardinality(StackHolders)
  BY <1>1, <1>2, FS_Product, Zenon
<1>4. IsFiniteSet(G) /\ Cardinality(G) = Cardinality({"segment"}) * Cardinality(SegmentHolders)
  BY <1>1, <1>2, FS_Product, Zenon
<1>5. IsFiniteSet(A) /\ Cardinality(A) = 1
  BY <1>2, Zenon
<1>6. /\ Cardinality({"stack"}) = 1 /\ Cardinality({"segment"}) = 1
      /\ Cardinality(StackHolders) \in Nat /\ Cardinality(SegmentHolders) \in Nat
  <2>1. Cardinality(StackHolders) \in Nat /\ Cardinality(SegmentHolders) \in Nat
    BY <1>1, FS_CardinalityType, Zenon
  <2> QED  BY <1>2, <2>1, Zenon
<1>7. A \cap S = {} /\ (A \cup S) \cap G = {}
  BY DEF OtherRef
<1> HIDE DEF A, S, G
<1>8. /\ IsFiniteSet(A \cup S)
      /\ Cardinality(A \cup S) = Cardinality(A) + Cardinality(S) - Cardinality(A \cap S)
  BY <1>3, <1>5, FS_Union, Zenon
<1>9. /\ IsFiniteSet((A \cup S) \cup G)
      /\ Cardinality((A \cup S) \cup G) =
            Cardinality(A \cup S) + Cardinality(G) - Cardinality((A \cup S) \cap G)
  BY <1>4, <1>8, FS_Union, Zenon
<1>10. Cardinality({}) = 0
  BY FS_EmptySet, Zenon
<1>11. Cardinality((A \cup S) \cup G) =
          1 + Cardinality(StackHolders) + Cardinality(SegmentHolders)
  <2>1. Cardinality(A \cap S) = 0 /\ Cardinality((A \cup S) \cap G) = 0
    BY <1>7, <1>10, Zenon
  <2>2. Cardinality(S) = 1 * Cardinality(StackHolders) /\ Cardinality(S) \in Nat
    BY <1>3, <1>6, FS_CardinalityType, Zenon
  <2>3. Cardinality(G) = 1 * Cardinality(SegmentHolders) /\ Cardinality(G) \in Nat
    BY <1>4, <1>6, FS_CardinalityType, Zenon
  <2>4. Cardinality(A \cup S) = Cardinality(A) + Cardinality(S) - Cardinality(A \cap S)
    BY <1>8
  <2>5. Cardinality((A \cup S) \cup G) =
            Cardinality(A \cup S) + Cardinality(G) - Cardinality((A \cup S) \cap G)
    BY <1>9
  <2> DEFINE as  == Cardinality(A \cup S)
             asg == Cardinality((A \cup S) \cup G)
             ca  == Cardinality(A)
             i   == Cardinality(StackHolders)
             j   == Cardinality(SegmentHolders)
             x   == Cardinality(S)
             y   == Cardinality(G)
             u   == Cardinality(A \cap S)
             v   == Cardinality((A \cup S) \cap G)
  <2>6. i \in Nat /\ j \in Nat /\ x \in Nat /\ y \in Nat
    BY <1>6, <2>2, <2>3
  <2>7. /\ ca = 1 /\ u = 0 /\ v = 0 /\ x = 1 * i /\ y = 1 * j
        /\ as = ca + x - u /\ asg = as + y - v
    BY <1>5, <2>1, <2>2, <2>3, <2>4, <2>5, Zenon
  <2> HIDE DEF as, asg, ca, i, j, x, y, u, v
  <2>8. asg = 1 + i + j
    BY <2>6, <2>7
  <2> QED  BY <2>8 DEF asg, i, j
<1>12. Ref = (A \cup S) \cup G
  BY DEF Ref, A, S, G
<1>13. ExistsBijection(Ref, DOMAIN owner)
  <2> DEFINE f == [r \in Ref |-> addr[r]]
  <2>1. f \in [Ref -> DOMAIN owner]
    BY DEF Owned, Held
  <2>2. \A r, q \in Ref : f[r] = f[q] => r = q
    BY DEF Owned, Held
  <2>3. \A b \in DOMAIN owner : \E r \in Ref : f[r] = b
    BY DEF Owned, Held
  <2> HIDE DEF f
  <2>4. f \in Bijection(Ref, DOMAIN owner)
    BY <2>1, <2>2, <2>3 DEF Bijection, Injection, Surjection, IsInjective
  <2> QED  BY <2>4 DEF ExistsBijection
<1>14. Cardinality(DOMAIN owner) = Cardinality(Ref)
  BY <1>9, <1>12, <1>13, FS_Bijection, Zenon
<1> QED  BY <1>11, <1>12, <1>14

\* Until a fork that fails gives back a block at the unset new_ds_addr, the blocks
\* handed out between calls are exactly the kernel stacks and the segments of the
\* living tasks, no two of them the same, each of the size its task believes in:
\* no other path through kernel_thread, fork, brk and exit loses a block or gives
\* one back twice, whatever unset variables hold.
THEOREM MemoryStaysExact == Spec => []MemoryExact
<1>1. ASSUME MemInv, call = Idle, stopped = "no", ~misfreed
      PROVE  MemoryExact
  <2>1. Owned /\ StackHolders = Alive /\ SegmentHolders = Alive \cap Users
    BY <1>1, HoldersAtRest DEF MemInv, Exact
  <2>2. /\ \A t \in Alive : /\ <<"stack", t>> \in Ref /\ <<"stack", t>> # OtherRef
                            /\ addr[<<"stack", t>>] = kstack[t]
                            /\ size[<<"stack", t>>] = KSTACK_PAGES
        /\ \A t \in Alive \cap Users : /\ <<"segment", t>> \in Ref
                                       /\ <<"segment", t>> # OtherRef
                                       /\ addr[<<"segment", t>>] = ldt[t].ds_addr
                                       /\ size[<<"segment", t>>] = ldt[t].ds
    <3>1. Alive \subseteq Task
      BY DEF Alive
    <3> QED  BY <2>1, <3>1, References, Values, Zenon
  <2>3. /\ \A t \in Alive : kstack[t] \in DOMAIN owner /\ owner[kstack[t]] = KSTACK_PAGES
        /\ \A t \in Alive \cap Users :
              ldt[t].ds_addr \in DOMAIN owner /\ owner[ldt[t].ds_addr] = ldt[t].ds
        /\ other \in DOMAIN owner
    <3>1. OtherRef \in Ref /\ addr[OtherRef] = other
      BY References, Values, ZenonT(40)
    <3>2. /\ \A r \in Ref : addr[r] \in DOMAIN owner
          /\ \A r \in Ref : r # OtherRef => owner[addr[r]] = size[r]
      BY <2>1, Zenon DEF Owned, Held
    <3>3. ASSUME NEW t \in Alive
          PROVE  kstack[t] \in DOMAIN owner /\ owner[kstack[t]] = KSTACK_PAGES
      <4> DEFINE r == <<"stack", t>>
      <4>1. r \in Ref /\ r # OtherRef /\ addr[r] = kstack[t] /\ size[r] = KSTACK_PAGES
        BY <2>2
      <4> HIDE DEF r
      <4> QED  BY <3>2, <4>1, Zenon
    <3>4. ASSUME NEW t \in Alive \cap Users
          PROVE  ldt[t].ds_addr \in DOMAIN owner /\ owner[ldt[t].ds_addr] = ldt[t].ds
      <4> DEFINE r == <<"segment", t>>
      <4>1. r \in Ref /\ r # OtherRef /\ addr[r] = ldt[t].ds_addr /\ size[r] = ldt[t].ds
        BY <2>2
      <4> HIDE DEF r
      <4> QED  BY <3>2, <4>1
    <3> QED  BY <3>1, <3>2, <3>3, <3>4, Zenon
  <2>4. \A b \in DOMAIN owner : \/ b = other
                                \/ \E t \in Alive : b = kstack[t]
                                \/ \E t \in Alive \cap Users : b = ldt[t].ds_addr
    <3> SUFFICES ASSUME NEW b \in DOMAIN owner
                 PROVE  \/ b = other
                        \/ \E t \in Alive : b = kstack[t]
                        \/ \E t \in Alive \cap Users : b = ldt[t].ds_addr
      OBVIOUS
    <3>1. PICK r \in Ref : b = addr[r]
      BY <2>1 DEF Owned, Held
    <3>2. \/ r = OtherRef
          \/ \E t \in Alive : r = <<"stack", t>>
          \/ \E t \in Alive \cap Users : r = <<"segment", t>>
      BY <2>1, References
    <3>3. addr[OtherRef] = other
      BY Values
    <3> QED  BY <2>2, <3>1, <3>2, <3>3
  <2>5. DOMAIN owner = {other} \cup {kstack[t] : t \in Alive}
                               \cup {ldt[t].ds_addr : t \in Alive \cap Users}
    BY <2>3, <2>4, ZenonT(40)
  <2>6. Cardinality(DOMAIN owner) = 1 + Cardinality(Alive) + Cardinality(Alive \cap Users)
    BY <2>1, BlocksCounted
  <2> QED  BY <2>3, <2>5, <2>6, Zenon DEF MemoryExact
<1>2. MemInv => MemoryExact
  BY <1>1 DEF MemoryExact
<1> QED  BY <1>2, MemInvariance, PTL

\* The pages of a kernel stack and of a segment.
Stack(t)   == Pages(kstack[t], KSTACK_PAGES)
Segment(t) == Pages(ldt[t].ds_addr, ldt[t].ds)

\* No two living tasks have a page in common, and no page of a stack is in a segment.
Isolated ==
    stopped = "no" /\ ~misfreed =>
        /\ \A t, u \in Alive : t # u => Stack(t) \cap Stack(u) = {}
        /\ \A t, u \in Alive \cap Users : t # u => Segment(t) \cap Segment(u) = {}
        /\ \A t \in Alive, u \in Alive \cap Users : Stack(t) \cap Segment(u) = {}

\* Until a fork that fails gives back a block at the unset new_ds_addr, the memory
\* of a task is its own at every moment, also in the middle of the fork or the exit
\* of another: that error path is the only way two tasks come to share a page.
THEOREM TasksShareNoPage == Spec => []Isolated
<1>1. ASSUME MemInv, stopped = "no", ~misfreed
      PROVE  Isolated
  <2>1. /\ \A t \in Alive : t \in Task /\ t \in StackHolders
        /\ \A t \in Alive \cap Users : t \in Users /\ t \in SegmentHolders
    BY DEF Alive, StackHolders, SegmentHolders
  <2>2. /\ \A t \in Alive : /\ <<"stack", t>> \in Ref /\ <<"stack", t>> # OtherRef
                            /\ addr[<<"stack", t>>] = kstack[t]
                            /\ size[<<"stack", t>>] = KSTACK_PAGES
        /\ \A t \in Alive \cap Users : /\ <<"segment", t>> \in Ref
                                       /\ <<"segment", t>> # OtherRef
                                       /\ addr[<<"segment", t>>] = ldt[t].ds_addr
                                       /\ size[<<"segment", t>>] = ldt[t].ds
    BY <2>1, References, Values, Zenon
  <2>3. \A r, q \in Ref : r # q /\ r # OtherRef /\ q # OtherRef =>
            Mem!Span(addr[r], size[r]) \cap Mem!Span(addr[q], size[q]) = {}
    <3> SUFFICES ASSUME NEW r \in Ref, NEW q \in Ref, r # q, r # OtherRef, q # OtherRef
                 PROVE  Mem!Span(addr[r], size[r]) \cap Mem!Span(addr[q], size[q]) = {}
      OBVIOUS
    <3>1. /\ addr[r] \in DOMAIN owner /\ addr[q] \in DOMAIN owner /\ addr[r] # addr[q]
          /\ owner[addr[r]] = size[r] /\ owner[addr[q]] = size[q]
      BY <1>1 DEF MemInv, Exact, Owned, Held
    <3>2. \A a, b \in DOMAIN owner :
              a # b => Mem!Span(a, owner[a]) \cap Mem!Span(b, owner[b]) = {}
      BY <1>1 DEF MemInv, Exact, Blocks
    <3> QED  BY <3>1, <3>2, Zenon
  <2>4. \A b, n : Mem!Span(b, n) = Pages(b, n)
    BY DEF Mem!Span, Pages
  <2>5. /\ \A t \in Alive : Mem!Span(addr[<<"stack", t>>], size[<<"stack", t>>]) = Stack(t)
        /\ \A t \in Alive \cap Users :
              Mem!Span(addr[<<"segment", t>>], size[<<"segment", t>>]) = Segment(t)
    BY <2>2, <2>4, Zenon DEF Stack, Segment
  <2>6. /\ \A t, u \in Alive : t # u => <<"stack", t>> # <<"stack", u>>
        /\ \A t, u \in Alive \cap Users : t # u => <<"segment", t>> # <<"segment", u>>
        /\ \A t \in Alive, u \in Alive \cap Users : <<"stack", t>> # <<"segment", u>>
    OBVIOUS
  <2>7. \A t, u \in Alive : t # u => Stack(t) \cap Stack(u) = {}
    BY <2>2, <2>3, <2>5, <2>6, Zenon
  <2>8. \A t, u \in Alive \cap Users : t # u => Segment(t) \cap Segment(u) = {}
    BY <2>2, <2>3, <2>5, <2>6, Zenon
  <2>9. \A t \in Alive, u \in Alive \cap Users : Stack(t) \cap Segment(u) = {}
    BY <2>2, <2>3, <2>5, <2>6, ZenonT(40)
  <2> QED  BY <2>7, <2>8, <2>9 DEF Isolated
<1>2. MemInv => Isolated
  BY <1>1 DEF Isolated
<1> QED  BY <1>2, MemInvariance, PTL
=============================================================================
