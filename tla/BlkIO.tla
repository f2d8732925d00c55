------------------------------- MODULE BlkIO -------------------------------
(***************************************************************************)
(* blkdev_read and blkdev_write of kernel/blkdev.c between the reference   *)
(* they take and the one they release (BlkDev.tla): a request for len      *)
(* bytes at any offset is cut into a part of its first block, whole blocks *)
(* and a part of its last block.                                           *)
(*                                                                         *)
(* Every call of the driver is a step.  The driver transfers one or more   *)
(* of the blocks it is asked for, or answers 0; after a failed write the   *)
(* blocks may or may not have reached the device.  The copies between the  *)
(* caller's buffer and tmp go with the call next to them: both are private *)
(* to the thread.  Nothing in blkdev.c keeps two requests for the same     *)
(* block apart, so a partial write of a block undoes whatever reached that *)
(* block since it was read.  The model leaves that to the callers:         *)
(* requests in progress at the same time share no block, or only read it.  *)
(***************************************************************************)
EXTENDS Naturals

CONSTANTS
    Thread,
    block_size,     \* dev->block_size
    capacity,       \* dev->capacity
    Word,           \* an unsigned int holds 0..(Word - 1)
    Requests        \* the pairs <<offset, len>> asked for

ASSUME BlkIOAssumption ==
    /\ block_size \in Nat \ {0} /\ capacity \in Nat \ {0}
    /\ Word \in Nat /\ Word > capacity
    /\ Requests \subseteq Nat \X Nat

Bytes == 0..(block_size * capacity - 1)
Span == 0..(block_size * (capacity + 1) - 1)    \* a buffer and what follows it

VARIABLES
    disk,                           \* the bytes of the device
    pc, op, offset, len,            \* of each thread: where it is, its request
    buffer,                         \* from the caller's pointer on
    dst,                            \* dst, or src: a position in the buffer
    block, nblocks, delta, tmp

request == <<op, offset, len>>
vars == <<disk, pc, request, buffer, dst, block, nblocks, delta, tmp>>

Init ==
    /\ disk = [i \in Bytes |-> <<"disk", i>>]
    /\ pc = [t \in Thread |-> "idle"]
    /\ op = [t \in Thread |-> "read"]
    /\ offset = [t \in Thread |-> 0]
    /\ len = [t \in Thread |-> 0]
    /\ buffer = [t \in Thread |-> [i \in Span |-> <<t, i>>]]
    /\ dst = [t \in Thread |-> 0]
    /\ block = [t \in Thread |-> 0]
    /\ nblocks = [t \in Thread |-> 0]
    /\ delta = [t \in Thread |-> 0]
    /\ tmp = [t \in Thread |-> << >>]

Set(f, t, x) == f' = [f EXCEPT ![t] = x]

\* The blocks from the one at from on, with the bytes of buf from position at.
Write(from, n, buf, at) ==
    [i \in Bytes |->
        IF i \in (from * block_size)..((from + n) * block_size - 1)
        THEN buf[at + i - from * block_size] ELSE disk[i]]

Block(b) == [i \in 0..(block_size - 1) |-> disk[b * block_size + i]]

\* memcpy of n bytes, from position s of src to position d of buf.
memcpy(buf, d, src, s, n) ==
    [i \in DOMAIN buf |->
        IF i \in d..(d + n - 1) THEN src[s + i - d] ELSE buf[i]]

\* What the driver accepts of a request for n blocks at b.
Accepted(b, n) == {k \in 1..n : b + k <= capacity}
-----------------------------------------------------------------------------
Busy(t) == pc[t] \notin {"idle", "S_OK", "E_FAIL"}
BlocksOf(off, n) == {i \div block_size : i \in off..(off + n - 1)}

Start(t, o, r) ==
    /\ pc[t] = "idle"
    /\ \A u \in {v \in Thread : Busy(v)} :
          \/ o = "read" /\ op[u] = "read"
          \/ BlocksOf(r[1], r[2]) \cap BlocksOf(offset[u], len[u]) = {}
    /\ Set(op, t, o) /\ Set(offset, t, r[1]) /\ Set(len, t, r[2])
    /\ Set(block, t, (r[1] \div block_size) % Word)
    /\ Set(delta, t, r[1] % block_size)
    /\ Set(pc, t, IF r[1] % block_size # 0 THEN "first" ELSE "count")
    /\ UNCHANGED <<disk, buffer, dst, nblocks, tmp>>

\* __kmalloc or the driver fails.
Fail(t) ==
    /\ Busy(t) /\ pc[t] # "count"
    /\ Set(pc, t, "E_FAIL")
    /\ \/ UNCHANGED disk
       \/ /\ pc[t] \in {"write first", "write last"}
          /\ disk' = Write(block[t], 1, tmp[t], 0)
       \/ /\ pc[t] = "whole" /\ op[t] = "write"
          /\ \E k \in Accepted(block[t], nblocks[t]) :
                disk' = Write(block[t], k, buffer[t], dst[t])
    /\ UNCHANGED <<request, buffer, dst, block, nblocks, delta, tmp>>

\* The first block is read: its end goes to the buffer, or is replaced.
First(t) ==
    LET n == block_size - delta[t]
    IN  /\ pc[t] = "first"
        /\ Accepted(block[t], 1) # {}
        /\ IF op[t] = "read"
           THEN /\ Set(buffer, t,
                       memcpy(buffer[t], dst[t], Block(block[t]), delta[t], n))
                /\ Set(dst, t, dst[t] + n)
                /\ Set(block, t, block[t] + 1)
                /\ Set(pc, t, "count")
                /\ UNCHANGED tmp
           ELSE /\ Set(tmp, t,
                       memcpy(Block(block[t]), delta[t], buffer[t], dst[t], n))
                /\ Set(pc, t, "write first")
                /\ UNCHANGED <<buffer, dst, block>>
        /\ UNCHANGED <<disk, request, nblocks, delta>>

WriteFirst(t) ==
    /\ pc[t] = "write first"
    /\ disk' = Write(block[t], 1, tmp[t], 0)
    /\ Set(dst, t, dst[t] + block_size - delta[t])
    /\ Set(block, t, block[t] + 1)
    /\ Set(pc, t, "count")
    /\ UNCHANGED <<request, buffer, nblocks, delta, tmp>>

\* The number of whole blocks that are left.
WholeBlocks(t) ==
    ((offset[t] + len[t]) \div block_size + Word - block[t]) % Word

\* Mutant: what is left after the whole blocks is forgotten.
Ahead_NoLast(n, d) == IF n # 0 THEN "whole" ELSE "S_OK"

\* Where the request goes on with n whole blocks left and d bytes after them.
Ahead(n, d) == IF n # 0 THEN "whole" ELSE IF d # 0 THEN "last" ELSE "S_OK"

Count(t) ==
    /\ pc[t] = "count"
    /\ Set(nblocks, t, WholeBlocks(t))
    /\ Set(delta, t, (offset[t] + len[t]) % block_size)
    /\ Set(pc, t, Ahead(nblocks'[t], delta'[t]))
    /\ UNCHANGED <<disk, request, buffer, dst, block, tmp>>

\* Mutant: blocks are taken for bytes.
Moved_Unscaled(n) == n

\* The bytes in the n blocks that the driver has transferred.
Moved(n) == n * block_size

Whole(t) ==
    /\ pc[t] = "whole"
    /\ \E n \in Accepted(block[t], nblocks[t]) :
          /\ IF op[t] = "read"
             THEN /\ Set(buffer, t, memcpy(buffer[t], dst[t], disk,
                                           block[t] * block_size, n * block_size))
                  /\ UNCHANGED disk
             ELSE /\ disk' = Write(block[t], n, buffer[t], dst[t])
                  /\ UNCHANGED buffer
          /\ Set(dst, t, dst[t] + Moved(n))
          /\ Set(nblocks, t, nblocks[t] - n)
          /\ Set(block, t, block[t] + n)
          /\ Set(pc, t, Ahead(nblocks[t] - n, delta[t]))
    /\ UNCHANGED <<request, delta, tmp>>

\* Mutant: the whole last block is taken.
Rest_Block(t) == block_size

\* The bytes of the last block that belong to the request.
Rest(t) == delta[t]

\* The last block is read: its beginning goes to the buffer, or is replaced.
Last(t) ==
    /\ pc[t] = "last"
    /\ Accepted(block[t], 1) # {}
    /\ IF op[t] = "read"
       THEN /\ Set(buffer, t,
                   memcpy(buffer[t], dst[t], Block(block[t]), 0, Rest(t)))
            /\ Set(pc, t, "S_OK")
            /\ UNCHANGED tmp
       ELSE /\ Set(tmp, t,
                   memcpy(Block(block[t]), 0, buffer[t], dst[t], Rest(t)))
            /\ Set(pc, t, "write last")
            /\ UNCHANGED buffer
    /\ UNCHANGED <<disk, request, dst, block, nblocks, delta>>

WriteLast(t) ==
    /\ pc[t] = "write last"
    /\ disk' = Write(block[t], 1, tmp[t], 0)
    /\ Set(pc, t, "S_OK")
    /\ UNCHANGED <<request, buffer, dst, block, nblocks, delta, tmp>>

\* Bound: one request per thread.
Finished == (\A t \in Thread : pc[t] \in {"S_OK", "E_FAIL"}) /\ UNCHANGED vars

Next ==
    \/ \E t \in Thread :
          \/ \E o \in {"read", "write"}, r \in Requests : Start(t, o, r)
          \/ First(t) \/ WriteFirst(t) \/ Count(t) \/ Whole(t)
          \/ Last(t) \/ WriteLast(t) \/ Fail(t)
    \/ Finished

Spec == Init /\ [][Next]_vars
-----------------------------------------------------------------------------
Slice(t) == offset[t]..(offset[t] + len[t] - 1)
Succeeds(t) == pc[t] # "S_OK" /\ pc'[t] = "S_OK"

\* blkdev_read answers S_OK only with the len bytes at offset in the buffer, in
\* order, however the driver splits the transfer.
ReadExact ==
    [][\A t \in Thread : Succeeds(t) /\ op[t] = "read" =>
          \A i \in Slice(t) : buffer'[t][i - offset[t]] = disk[i]]_vars

\* blkdev_write answers S_OK only once the len bytes of the buffer are on the
\* device at offset, in order.
WriteExact ==
    [][\A t \in Thread : Succeeds(t) /\ op[t] = "write" =>
          \A i \in Slice(t) : disk'[i] = buffer[t][i - offset[t]]]_vars

\* blkdev.c:341-345 promises a write of any offset and length (a mismatch with
\* the block size only "comes with a severe performance penalty"): a step that
\* changes a byte of the device belongs to a write of that byte, although whole
\* blocks are written, and also when the write fails.
OutsideUntouched ==
    [][\A i \in Bytes : disk'[i] # disk[i] =>
          \E t \in Thread : Busy(t) /\ op[t] = "write" /\ i \in Slice(t)]_vars
=============================================================================
