----------------------------- MODULE BlockChain -----------------------------
(***************************************************************************)
(* The block pool and the output buffers of NetDaemon with their pointers: *)
(* the free list and the chain of every descriptor are linked through      *)
(* block_t::next, and push is a loop of write calls that collects the      *)
(* written blocks in a local list before it gives them back.  Shown to     *)
(* implement FileBuffer, where a list is a sequence and push one step.     *)
(***************************************************************************)
EXTENDS Integers, Sequences, FiniteSets

CONSTANTS Fd, Byte, Garbage, BlockSize, MaxBlocks, Data, Quotas, PoolSizes,
          NoFd      \* not a descriptor: no push is running

VARIABLES
  next,         \* block_t::next of every block
  stack,        \* BlockPool::stack, the top free block or NULL
  free_count, total_count,
  fds,          \* fd_info_t: first, last, offset, size, quota
  mem,          \* the bytes in the blocks
  pushing,      \* the descriptor push works on, or NoFd
  unused        \* the local list of push

vars == <<next, stack, free_count, total_count, fds, mem, pushing, unused>>

NULL == 0
Block == 1..MaxBlocks
BlocksFor(n) == (n + BlockSize - 1) \div BlockSize

EmptyBuffer == [first |-> NULL, last |-> NULL, offset |-> 0, size |-> 0, quota |-> 0]

\* The block n steps after b in the links nx: stack = stack->next in a loop.
Walk(nx, b, n) ==
  LET at[i \in 0..n] == IF i = 0 THEN b ELSE nx[at[i - 1]] IN at[n]

\* The list that starts at b, cut off after MaxBlocks blocks if it never ends.
ListOf(nx, b) ==
  LET at[i \in 0..MaxBlocks] ==
        IF i = 0 THEN b ELSE IF at[i - 1] = NULL THEN NULL ELSE nx[at[i - 1]]
  IN  [i \in 1..Cardinality({j \in 0..MaxBlocks : at[j] # NULL}) |-> at[i - 1]]

(***************************************************************************)
(* The pool.                                                               *)
(***************************************************************************)
\* Mutant: only the head of the list is counted.
FreeCountsOne(nx, list) ==
  IF list = NULL
  THEN next' = nx /\ UNCHANGED <<stack, free_count>>
  ELSE LET blocks == ListOf(nx, list)
       IN  /\ next' = [nx EXCEPT ![blocks[Len(blocks)]] = stack]
           /\ stack' = list
           /\ free_count' = free_count + 1

\* free(list) in the links nx: link the end of the list to the stack.
Free(nx, list) ==
  IF list = NULL
  THEN next' = nx /\ UNCHANGED <<stack, free_count>>
  ELSE LET blocks == ListOf(nx, list)
       IN  /\ next' = [nx EXCEPT ![blocks[Len(blocks)]] = stack]
           /\ stack' = list
           /\ free_count' = free_count + Len(blocks)

\* reserve(n): each new block is linked to the block before it.
Reserve(n) ==
  /\ total_count + n <= MaxBlocks
  /\ next' = [b \in Block |-> IF b = total_count + 1 THEN stack
                              ELSE IF b \in (total_count + 2)..(total_count + n) THEN b - 1
                              ELSE next[b]]
  /\ stack' = total_count + n
  /\ total_count' = total_count + n
  /\ free_count' = free_count + n

\* bpPool and bpInitPool; the result of reserve is not zero even on a failure.
BpPool(min_size) ==
  /\ pushing = NoFd
  /\ \/ total_count < min_size /\ Reserve(min_size - total_count)
     \/ UNCHANGED <<next, stack, free_count, total_count>>
  /\ UNCHANGED <<fds, mem, pushing, unused>>

(***************************************************************************)
(* The buffer of a descriptor.                                             *)
(***************************************************************************)
\* Where the free part of the last block starts, 0 if the block is full.
End(fb) == (fb.offset + fb.size) % BlockSize

\* The free bytes of the last block.
Rest(fb) == IF fb.size > 0 /\ End(fb) > 0 THEN BlockSize - End(fb) ELSE 0

\* fb->last after a put that takes need blocks.
LastAfter(fb, need) == IF need = 0 THEN fb.last ELSE Walk(next, stack, need - 1)

\* put(fd, data, len).  keep bytes go to the end of the last block, the others
\* to the blocks from the top of the stack, linked behind the last block.
Put(f, d) ==
  LET fb   == fds[f]
      len  == Len(d)
      keep == IF len <= Rest(fb) THEN len ELSE Rest(fb)
      need == BlocksFor(len - keep)
      tail == IF need = 0 THEN NULL ELSE Walk(next, stack, need - 1)
      \* where byte i of the data goes
      place[i \in 1..len] ==
        IF i <= keep
        THEN <<fb.last, End(fb) + i - 1>>
        ELSE <<Walk(next, stack, (i - keep - 1) \div BlockSize), (i - keep - 1) % BlockSize>>
  IN  /\ pushing = NoFd
      /\ ~(fb.quota # 0 /\ fb.size + len > fb.quota)
      /\ need <= free_count
      /\ next' = [b \in Block |-> IF need > 0 /\ b = tail THEN NULL
                                  ELSE IF need > 0 /\ fb.size > 0 /\ b = fb.last THEN stack
                                  ELSE next[b]]
      /\ stack' = IF need = 0 THEN stack ELSE next[tail]
      /\ free_count' = free_count - need
      /\ fds' = [fds EXCEPT ![f] =
                   [fb EXCEPT !.first = IF fb.size = 0 THEN stack ELSE fb.first,
                              !.offset = IF fb.size = 0 THEN 0 ELSE fb.offset,
                              !.last = LastAfter(fb, need),
                              !.size = fb.size + len]]
      /\ mem' = [b \in Block |-> [c \in 0..(BlockSize - 1) |->
                   IF \E i \in 1..len : place[i] = <<b, c>>
                   THEN d[CHOOSE i \in 1..len : place[i] = <<b, c>>]
                   ELSE mem[b][c]]]
      /\ UNCHANGED <<total_count, pushing, unused>>

PushBegin(f) ==
  /\ pushing = NoFd
  /\ pushing' = f
  /\ unused' = NULL
  /\ UNCHANGED <<next, stack, free_count, total_count, fds, mem>>

\* The unwritten bytes of the first block, what push offers to one write call.
Offered(fb) == IF BlockSize - fb.offset > fb.size THEN fb.size ELSE BlockSize - fb.offset

\* Mutant: block->next still points into the chain.
PushBlockUnlinked(f) ==
  LET fb == fds[f]
  IN  /\ pushing = f
      /\ fb.size > 0
      /\ fds' = [fds EXCEPT ![f] = [fb EXCEPT !.size = fb.size - Offered(fb),
                                              !.offset = 0,
                                              !.first = next[fb.first]]]
      /\ unused' = fb.first
      /\ UNCHANGED <<next, stack, free_count, total_count, mem, pushing>>

\* The write took all of the block: unlink it and put it on the local list.
PushBlock(f) ==
  LET fb == fds[f]
  IN  /\ pushing = f
      /\ fb.size > 0
      /\ fds' = [fds EXCEPT ![f] = [fb EXCEPT !.size = fb.size - Offered(fb),
                                              !.offset = 0,
                                              !.first = next[fb.first]]]
      /\ next' = [next EXCEPT ![fb.first] = unused]
      /\ unused' = fb.first
      /\ UNCHANGED <<stack, free_count, total_count, mem, pushing>>

\* The end of push: give the local list back to the pool.
PushReturn ==
  /\ Free(next, unused)
  /\ pushing' = NoFd
  /\ unused' = NULL
  /\ UNCHANGED <<total_count, mem>>

\* The write took n bytes, a part of the block: leave the loop.
PushPart(f, n) ==
  LET fb == fds[f]
  IN  /\ pushing = f
      /\ fb.size > 0
      /\ n \in 1..(Offered(fb) - 1)
      /\ fds' = [fds EXCEPT ![f] = [fb EXCEPT !.size = fb.size - n, !.offset = fb.offset + n]]
      /\ PushReturn

\* The write took nothing (EAGAIN or an error), or the buffer is empty.
PushNothing(f) ==
  /\ pushing = f
  /\ PushReturn
  /\ UNCHANGED fds

Cleanup(f) ==
  /\ pushing = NoFd
  /\ Free(next, fds[f].first)
  /\ fds' = [fds EXCEPT ![f] = EmptyBuffer]
  /\ UNCHANGED <<total_count, mem, pushing, unused>>

SetQuota(f, quota) ==
  /\ pushing = NoFd
  /\ fds' = [fds EXCEPT ![f].quota = quota]
  /\ UNCHANGED <<next, stack, free_count, total_count, mem, pushing, unused>>

Init ==
  /\ next = [b \in Block |-> NULL]
  /\ stack = NULL
  /\ free_count = 0
  /\ total_count = 0
  /\ fds = [f \in Fd |-> EmptyBuffer]
  /\ mem = [b \in Block |-> [c \in 0..(BlockSize - 1) |-> Garbage]]
  /\ pushing = NoFd
  /\ unused = NULL

PushStep(f) ==
  \/ PushBlock(f)
  \/ \E n \in 1..(BlockSize - 1) : PushPart(f, n)
  \/ PushNothing(f)

Next ==
  \/ \E m \in PoolSizes : BpPool(m)
  \/ \E f \in Fd, d \in Data : Put(f, d)
  \/ \E f \in Fd : PushBegin(f) \/ PushStep(f)
  \/ \E f \in Fd : Cleanup(f)
  \/ \E f \in Fd, q \in Quotas : SetQuota(f, q)

Spec == Init /\ [][Next]_vars

(***************************************************************************)
(* Properties.                                                             *)
(***************************************************************************)
\* The type invariant; Pointers are a block or NULL.
TypeOK ==
  /\ next \in [Block -> Block \cup {NULL}]
  /\ stack \in Block \cup {NULL}
  /\ free_count \in 0..MaxBlocks
  /\ total_count \in 0..MaxBlocks
  /\ fds \in [Fd -> [first : Block \cup {NULL}, last : Block \cup {NULL},
                     offset : 0..(BlockSize - 1), size : Nat, quota : Nat]]
  /\ mem \in [Block -> [0..(BlockSize - 1) -> Byte \cup {Garbage}]]
  /\ pushing \in Fd \cup {NoFd}
  /\ unused \in Block \cup {NULL}

\* Every list ends: BlockPool::free and the walk of allocByBlocks follow next
\* until NULL, so a cycle in the free list, in a chain or in the local list of
\* push would hang the only thread.
ListsEnd ==
  \A b \in {stack, unused} \cup {fds[f].first : f \in Fd} :
    Len(ListOf(next, b)) <= MaxBlocks

\* fb->last, which put writes through and links to without looking, is the end
\* of the chain of every buffer with data (it dangles when the buffer is empty).
LastIsEnd ==
  \A f \in Fd : fds[f].size > 0 =>
    /\ fds[f].last # NULL
    /\ fds[f].last = ListOf(next, fds[f].first)[Len(ListOf(next, fds[f].first))]

\* The pointers the code follows without a check: next to the end of each list, and
\* last to the end of each chain, after every step of put, push, cleanup and free.
ListsSound == TypeOK /\ ListsEnd /\ LastIsEnd

\* The blocks push has unlinked but not given back yet count as free.
Lists == INSTANCE FileBuffer WITH
  stack <- ListOf(next, unused) \o ListOf(next, stack),
  free_count <- free_count + Len(ListOf(next, unused)),
  fds <- [f \in Fd |-> [chain |-> ListOf(next, fds[f].first), offset |-> fds[f].offset,
                        size |-> fds[f].size, quota |-> fds[f].quota]]

\* The pointer code implements the lists of FileBuffer step by step.
ListsSpec == Lists!Spec
=============================================================================
