----------------------------- MODULE HeavyHash -----------------------------
(***************************************************************************)
(* HeavyHash (heavyhash.h): a table of collision lists whose cells come    *)
(* from a heap that is allocated once.  Every call is one step on the      *)
(* fields of the object; getHash is any function of the keys.              *)
(***************************************************************************)
EXTENDS Links

CONSTANTS Capacity, Key, Value,
          NoValue,       \* itemtype(): the answer of a search that finds nothing
          Hash,          \* getHash: Key -> 1..Capacity
          ZeroedHeap     \* whether new[] happens to hand out zeroed memory

VARIABLES hash,      \* the fields of the object
          answer     \* what the last call returned

vars == <<hash, answer>>

Cell == 1..Capacity

\* A pointer that was never set: NULL in zeroed memory, anything otherwise.
Unset == IF ZeroedHeap THEN {NULL} ELSE {NULL, -1}

\* The constructor links the heap, but sets neither the last next nor the table.
Constructed ==
  {[next |-> [c \in Cell |-> IF c < Capacity THEN c + 1 ELSE end],
    key |-> [c \in Cell |-> NoValue], value |-> [c \in Cell |-> NoValue],
    free |-> 1, table |-> table] : end \in Unset, table \in [Cell -> Unset]}

List(h, b) == ListFrom(h.next, h.table[b], Capacity)

ReleaseItem(h, c) == [h EXCEPT !.free = c, !.next[c] = h.free]

\* find: along the list of the key's hash to a cell with the key, or NULL.
Find(h, k) ==
  LET from[i \in 0..Capacity, c \in Int] ==
        IF c \notin Cell \/ h.key[c] = k THEN c
        ELSE IF i = 0 THEN NULL ELSE from[i - 1, h.next[c]]
  IN  from[Capacity, h.table[Hash[k]]]

\* Mutant: the cell is taken, but the free list stays as it was.
AddValueKeepsFree(h, k, v) ==
  IF h.free = NULL THEN h
  ELSE LET c == h.free
       IN  [h EXCEPT !.key[c] = k, !.value[c] = v,
                     !.next[c] = h.table[Hash[k]], !.table[Hash[k]] = c]

\* addValue: to the head of the list, if there is room.
AddValue(h, k, v) ==
  IF h.free = NULL THEN h
  ELSE LET c == h.free
       IN  [h EXCEPT !.free = h.next[c], !.key[c] = k, !.value[c] = v,
                     !.next[c] = h.table[Hash[k]], !.table[Hash[k]] = c]

\* Mutant: the rest of the list goes with the cell.
DeletedWithRest(h, k) ==
  LET c    == Find(h, k)
      list == List(h, Hash[k])
      i    == SelectInSeq(list, LAMBDA b : b = c)
  IN  IF c = NULL THEN h
      ELSE ReleaseItem(IF i = 1 THEN [h EXCEPT !.table[Hash[k]] = h.next[c]]
                                ELSE [h EXCEPT !.next[list[i - 1]] = NULL], c)

\* hashDelete: the head and the other cells of a list are unlinked differently.
Deleted(h, k) ==
  LET c    == Find(h, k)
      list == List(h, Hash[k])
      i    == SelectInSeq(list, LAMBDA b : b = c)
  IN  IF c = NULL THEN h
      ELSE ReleaseItem(IF i = 1 THEN [h EXCEPT !.table[Hash[k]] = h.next[c]]
                                ELSE [h EXCEPT !.next[list[i - 1]] = h.next[c]], c)

HashInsert(k, v) ==
  /\ hash' = (IF Find(hash, k) # NULL THEN [hash EXCEPT !.value[Find(hash, k)] = v]
                                      ELSE AddValue(hash, k, v))
  /\ answer' = NoValue

HashReplace(k, v) ==
  /\ hash' = (IF Find(hash, k) # NULL THEN [hash EXCEPT !.value[Find(hash, k)] = v] ELSE hash)
  /\ answer' = NoValue

HashDelete(k) == hash' = Deleted(hash, k) /\ answer' = NoValue

HashSearch(k) ==
  /\ answer' = (IF Find(hash, k) # NULL THEN hash.value[Find(hash, k)] ELSE NoValue)
  /\ UNCHANGED hash

Init == hash \in Constructed /\ answer = NoValue

Next ==
  \E k \in Key :
    \/ \E v \in Value : HashInsert(k, v) \/ HashReplace(k, v)
    \/ HashDelete(k) \/ HashSearch(k)

Spec == Init /\ [][Next]_vars

(***************************************************************************)
(* Properties.                                                             *)
(***************************************************************************)
Promise == INSTANCE Dict WITH
  content <- [k \in {i \in Key : Find(hash, i) # NULL} |-> hash.value[Find(hash, k)]]

\* The collision lists are the function that Dict promises, whichever keys collide
\* and in whatever order they come, go and come again.
IsDict == Promise!Spec

\* Every cell is in one list, the free one or that of its key's hash, and no list
\* runs into another.
CellsAccounted ==
  LET lists == <<ListFrom(hash.next, hash.free, Capacity)>>
               \o [b \in Cell |-> List(hash, b)]
  IN  \A c \in Cell : \E i \in DOMAIN lists :
        /\ Cardinality({j \in DOMAIN lists[i] : lists[i][j] = c}) = 1
        /\ \A other \in DOMAIN lists \ {i} : ~Contains(lists[other], c)
        /\ i > 1 => Hash[hash.key[c]] = i - 1
=============================================================================
