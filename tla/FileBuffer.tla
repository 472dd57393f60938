----------------------------- MODULE FileBuffer -----------------------------
(***************************************************************************)
(* The output buffers of NetDaemon (put, push, cleanup, setQuota of        *)
(* netdaemon.cpp) on top of the shared block pool (blockpool.cpp), with a  *)
(* list of blocks as a sequence of block numbers.  The module BlockChain   *)
(* has the same code with the pointers in it.                              *)
(*                                                                         *)
(* The daemon is single-threaded, so each call is one step.  The kernel    *)
(* decides how much of a push it takes.                                    *)
(***************************************************************************)
EXTENDS Integers, Sequences, SequencesExt

CONSTANTS Fd,          \* the descriptors 0 .. limit-1 of the daemon's table
          Byte,        \* the values of a byte
          Garbage,     \* a byte nothing was written to (posix_memalign clears nothing)
          BlockSize,   \* BLOCKPOOL_BLOCK_SIZE
          MaxBlocks,   \* bound: the blocks the system has memory for
          Data,        \* the data of a call of put: sequences of bytes
          Quotas,      \* the quotas given to setQuota; 0 is "no quota"
          PoolSizes    \* the min_size arguments of bpPool

ASSUME BufferAssumption ==
  /\ Garbage \notin Byte
  /\ BlockSize \in Nat \ {0}
  /\ MaxBlocks \in Nat
  /\ Data \subseteq Seq(Byte) \ {<<>>}
  /\ Quotas \subseteq Nat
  /\ PoolSizes \subseteq Nat

VARIABLES
  stack,        \* BlockPool::stack, the free blocks, top first
  free_count,   \* BlockPool::free_count
  total_count,  \* BlockPool::total_count
  fds,          \* fd_info_t of every descriptor, without the object
  mem           \* the bytes in the blocks

poolVars == <<stack, free_count, total_count>>
vars == <<stack, free_count, total_count, fds, mem>>

\* The blocks of all the pools, numbered in the order of their reservation.
Block == 1..MaxBlocks

\* The blocks it takes to hold n bytes: the rounding of allocBySize.
BlocksFor(n) == (n + BlockSize - 1) \div BlockSize

EmptyBuffer == [chain |-> <<>>, offset |-> 0, size |-> 0, quota |-> 0]

(***************************************************************************)
(* The pool.                                                               *)
(***************************************************************************)
\* allocByBlocks(n): the n blocks on top of the stack.
Taken(n) == SubSeq(stack, 1, n)

AllocByBlocks(n) ==
  /\ stack' = SubSeq(stack, n + 1, Len(stack))
  /\ free_count' = free_count - n
  /\ UNCHANGED total_count

\* Mutant: the walk to the end of the list does not count its first block.
FreeCountsOneLess(list) ==
  /\ stack' = list \o stack
  /\ free_count' = free_count + (IF list = <<>> THEN 0 ELSE Len(list) - 1)
  /\ UNCHANGED total_count

\* free(list): the list goes on top of the stack as it is.
FreeBlocks(list) ==
  /\ stack' = list \o stack
  /\ free_count' = free_count + Len(list)
  /\ UNCHANGED total_count

\* reserve(n): the new blocks are pushed one by one, the last one ends on top.
Reserve(n) ==
  /\ total_count + n <= MaxBlocks
  /\ stack' = [i \in 1..n |-> total_count + n + 1 - i] \o stack
  /\ total_count' = total_count + n
  /\ free_count' = free_count + n

\* bpPool(min_size), with bpInitPool: reserve what is missing.  reserve answers
\* -1 whether it got the memory or not, so the pool is returned in every case.
BpPool(min_size) ==
  /\ IF total_count < min_size
     THEN \/ Reserve(min_size - total_count)
          \/ UNCHANGED <<stack, free_count, total_count>>  \* posix_memalign failed
     ELSE UNCHANGED <<stack, free_count, total_count>>
  /\ UNCHANGED <<fds, mem>>

(***************************************************************************)
(* The buffer of a descriptor.                                             *)
(***************************************************************************)
\* The free bytes at the end of the last block of a buffer.
Rest(fb) ==
  LET end == (fb.offset + fb.size) % BlockSize
  IN  IF fb.size > 0 /\ end > 0 THEN BlockSize - end ELSE 0

\* The new blocks a put of len bytes has to allocate.
Need(fb, len) == IF len <= Rest(fb) THEN 0 ELSE BlocksFor(len - Rest(fb))

OverQuota(fb, len) == fb.quota # 0 /\ fb.size + len > fb.quota

\* The place of the byte number p of a chain (the first one is number 0).
BlockAt(chain, p) == chain[1 + p \div BlockSize]
CellAt(p) == p % BlockSize

\* The memory after d is written to the places start, start + 1, ... of chain.
Copied(chain, start, d) ==
  [b \in Block |-> [c \in 0..(BlockSize - 1) |->
     LET hit == {i \in 1..Len(d) : /\ BlockAt(chain, start + i - 1) = b
                                   /\ CellAt(start + i - 1) = c}
     IN  IF hit = {} THEN mem[b][c] ELSE d[CHOOSE i \in hit : TRUE]]]

\* put(fd, data, len): refused over the quota or when the pool cannot give the
\* blocks, and then nothing changes.
Put(f, d) ==
  LET fb    == fds[f]
      need  == Need(fb, Len(d))
      base  == IF fb.size > 0 THEN fb.offset ELSE 0
      chain == fb.chain \o Taken(need)
  IN  /\ ~OverQuota(fb, Len(d))
      /\ need <= free_count
      /\ AllocByBlocks(need)
      /\ fds' = [fds EXCEPT ![f] = [fb EXCEPT !.chain = chain,
                                              !.offset = base,
                                              !.size = fb.size + Len(d)]]
      /\ mem' = Copied(chain, base + fb.size, d)

\* The blocks that n written bytes complete; the last bytes of a buffer complete
\* their block wherever they end.
Done(fb, n) == IF n = fb.size THEN Len(fb.chain) ELSE (fb.offset + n) \div BlockSize

\* Mutant: a partial write does not move the offset.
OffsetStays(fb, n) == IF n = fb.size THEN 0 ELSE fb.offset

\* The offset into the first block after n bytes are written.
OffsetAfter(fb, n) == IF n = fb.size THEN 0 ELSE (fb.offset + n) % BlockSize

\* push(fd): the kernel takes n of the bytes; the blocks whose bytes are all
\* taken go back to the pool, the first of them deepest.
Push(f, n) ==
  LET fb   == fds[f]
      done == Done(fb, n)
  IN  /\ fds' = [fds EXCEPT ![f] =
                   [fb EXCEPT !.chain = SubSeq(fb.chain, done + 1, Len(fb.chain)),
                              !.offset = OffsetAfter(fb, n),
                              !.size = fb.size - n]]
      /\ FreeBlocks(Reverse(SubSeq(fb.chain, 1, done)))
      /\ UNCHANGED mem

\* Mutant: the chain is freed but first is not reset.
CleanupKeepsFirst(f) ==
  /\ FreeBlocks(fds[f].chain)
  /\ fds' = [fds EXCEPT ![f] = [EmptyBuffer EXCEPT !.chain = fds[f].chain]]
  /\ UNCHANGED mem

\* cleanup(fd): drop the data and the quota.
Cleanup(f) ==
  /\ FreeBlocks(fds[f].chain)
  /\ fds' = [fds EXCEPT ![f] = EmptyBuffer]
  /\ UNCHANGED mem

SetQuota(f, quota) ==
  /\ fds' = [fds EXCEPT ![f].quota = quota]
  /\ UNCHANGED <<poolVars, mem>>

Init ==
  /\ stack = <<>>
  /\ free_count = 0
  /\ total_count = 0
  /\ fds = [f \in Fd |-> EmptyBuffer]
  /\ mem = [b \in Block |-> [c \in 0..(BlockSize - 1) |-> Garbage]]

Next ==
  \/ \E m \in PoolSizes : BpPool(m)
  \/ \E f \in Fd, d \in Data : Put(f, d)
  \/ \E f \in Fd : \E n \in 1..fds[f].size : Push(f, n)
  \/ \E f \in Fd : Cleanup(f)
  \/ \E f \in Fd, q \in Quotas : SetQuota(f, q)

Spec == Init /\ [][Next]_vars

(***************************************************************************)
(* Properties.                                                             *)
(***************************************************************************)
Buffer == [chain : Seq(Block), offset : 0..(BlockSize - 1), size : Nat, quota : Nat]

\* The type invariant; the offset into the first block stays inside the block
\* whatever the kernel takes.
TypeOK ==
  /\ stack \in Seq(Block)
  /\ free_count \in Nat
  /\ total_count \in 0..MaxBlocks
  /\ fds \in [Fd -> Buffer]
  /\ mem \in [Block -> [0..(BlockSize - 1) -> Byte \cup {Garbage}]]

\* BlockPool::free_count, which allocByBlocks trusts to walk the stack without
\* a NULL check, is the length of the free list after every call.
FreeCountRight == free_count = Len(stack)

\* No block is in two places: not twice in the free list or in a chain, not in
\* the chains of two descriptors, not in a chain and in the free list.  The
\* order of alloc, link and free in put, push and cleanup is what keeps it.
NoBlockTwice ==
  /\ IsInjective(stack)
  /\ \A f \in Fd : /\ IsInjective(fds[f].chain)
                   /\ Range(fds[f].chain) \cap Range(stack) = {}
  /\ \A f, g \in Fd : f # g => Range(fds[f].chain) \cap Range(fds[g].chain) = {}

\* A buffer holds exactly the blocks its bytes reach into, and none when it is
\* empty; put finds the free part of the last block from offset and size alone
\* and push frees by them, so the three must agree after every step.
ChainFits ==
  \A f \in Fd :
    LET fb == fds[f]
    IN  /\ fb.size = 0 => fb.offset = 0
        /\ Len(fb.chain) = BlocksFor(fb.offset + fb.size)

\* No block leaks: every block ever reserved is free or in some chain, so a
\* long run of puts, partial pushes and cleanups never shrinks the pool; nor does a
\* chain keep a block without need.
NoBlockLost ==
  /\ 1..total_count = Range(stack) \cup UNION {Range(fds[f].chain) : f \in Fd}
  /\ ChainFits

\* Every block is in exactly one place and free_count says how many are free, which is
\* what makes it safe that descriptors share the pool, that push and cleanup give back
\* whole lists and that allocByBlocks walks the stack blindly.
EveryBlockOnce == TypeOK /\ FreeCountRight /\ NoBlockTwice /\ NoBlockLost

\* The bytes a descriptor has accepted and not written, read through its chain.
Pending(f) ==
  [i \in 1..fds[f].size |->
     mem[BlockAt(fds[f].chain, fds[f].offset + i - 1)][CellAt(fds[f].offset + i - 1)]]

Stream == INSTANCE ByteStream WITH pending <- [f \in Fd |-> Pending(f)]

\* The buffers implement the byte queues of ByteStream: put appends all of its
\* data or nothing, push removes a prefix, and no call on one descriptor
\* changes what another one has pending, although they share the blocks.
StreamSpec == Stream!Spec
=============================================================================
