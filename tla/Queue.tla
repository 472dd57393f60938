------------------------------- MODULE Queue -------------------------------
(***************************************************************************)
(* Queue (queue.h): a singly linked queue whose cells come from a heap that *)
(* is allocated once.  Every call is one step on the fields of the object.  *)
(***************************************************************************)
EXTENDS Links

CONSTANTS Capacity, Value,
          NoValue,         \* type(): the answer of an empty queue
          LastMayDangle    \* whether the two calls that leave last behind are made

VARIABLES queue,    \* the fields of the object
          answer    \* what the last call returned

vars == <<queue, answer>>

Cell == 1..Capacity

\* The constructor links the whole heap to the free list.
Constructed ==
  [next |-> [c \in Cell |-> IF c < Capacity THEN c + 1 ELSE NULL],
   value |-> [c \in Cell |-> NoValue],
   free |-> 1, first |-> NULL, last |-> NULL, count |-> 0]

AllocItem(q) == [q EXCEPT !.free = q.next[q.free], !.count = @ + 1]

\* Mutant: the free list is forgotten.
ReleaseItemCuts(q, c) == [q EXCEPT !.free = c, !.next[c] = NULL, !.count = @ - 1]

ReleaseItem(q, c) == [q EXCEPT !.free = c, !.next[c] = q.free, !.count = @ - 1]

\* push: behind last, if there is room.
Pushed(q, v) ==
  IF q.free = NULL THEN q
  ELSE LET c == q.free
           p == [AllocItem(q) EXCEPT !.value[c] = v, !.next[c] = NULL]
       IN  IF q.first = NULL
           THEN [p EXCEPT !.first = c, !.last = c]
           ELSE [p EXCEPT !.next[q.last] = c, !.last = c]

\* pushFirst: last stays as it is, also in an empty queue.
PushedFirst(q, v) ==
  IF q.free = NULL THEN q
  ELSE LET c == q.free
       IN  [AllocItem(q) EXCEPT !.value[c] = v, !.next[c] = q.first, !.first = c]

Popped(q) ==
  IF q.first = NULL THEN q
  ELSE ReleaseItem([q EXCEPT !.last = IF q.first = @ THEN q.next[@] ELSE @,
                             !.first = q.next[@]], q.first)

Chain(q) == ListFrom(q.next, q.first, Capacity)

\* The place of v in the queue, 0 if it is not there.
Place(q, v) == SelectInSeq(Chain(q), LAMBDA c : q.value[c] = v)

\* Mutant: the cell before the one that is found keeps its next.
UnlinkedNot(q, v) ==
  LET i == Place(q, v)
  IN  IF i = 0 THEN q ELSE IF i = 1 THEN Popped(q) ELSE ReleaseItem(q, Chain(q)[i])

\* searchAndDel: the first cell is popped, another one unlinked; last stays.
Unlinked(q, v) ==
  LET i == Place(q, v)
  IN  IF i = 0 THEN q
      ELSE IF i = 1 THEN Popped(q)
      ELSE LET c == Chain(q)[i]
           IN  ReleaseItem([q EXCEPT !.next[Chain(q)[i - 1]] = q.next[c]], c)

ValueAt(c) == IF queue.first = NULL THEN NoValue ELSE queue.value[c]

Push(v) == queue' = Pushed(queue, v) /\ answer' = NoValue

\* last is not the last cell after a first value that comes by pushFirst ...
PushFirst(v) ==
  /\ LastMayDangle \/ queue.first # NULL
  /\ queue' = PushedFirst(queue, v)
  /\ answer' = NoValue

Pop == queue' = Popped(queue) /\ answer' = ValueAt(queue.first)
GetFirst == answer' = ValueAt(queue.first) /\ UNCHANGED queue
GetLast == answer' = ValueAt(queue.last) /\ UNCHANGED queue

\* ... nor after searchAndDel has found the last of several values.
SearchAndDel(v) ==
  /\ LastMayDangle \/ Place(queue, v) < 2 \/ Place(queue, v) < Len(Chain(queue))
  /\ queue' = Unlinked(queue, v)
  /\ answer' = (IF Place(queue, v) = 0 THEN NoValue ELSE v)

\* freeAll: pop until first is NULL.
FreeAll ==
  /\ queue' = FoldLeft(LAMBDA q, c : Popped(q), queue, Chain(queue))
  /\ answer' = NoValue

Init == queue = Constructed /\ answer = NoValue

Next ==
  \/ \E v \in Value : Push(v) \/ PushFirst(v) \/ SearchAndDel(v)
  \/ Pop \/ GetFirst \/ GetLast \/ FreeAll

Spec == Init /\ [][Next]_vars

(***************************************************************************)
(* Properties.                                                             *)
(***************************************************************************)
Promise == INSTANCE Deque WITH
  content <- [i \in DOMAIN Chain(queue) |-> queue.value[Chain(queue)[i]]]

\* The linked cells are the sequence that Deque promises, through every mix of
\* pushes, pops, searches and a full heap: no value is lost, doubled or moved, the
\* counter says how many there are, and no cell leaks from the two lists.
IsDeque == Promise!Spec
CellsAccounted ==
  /\ queue.count = Len(Chain(queue))
  /\ Len(Chain(queue)) + Len(ListFrom(queue.next, queue.free, Capacity)) = Capacity
=============================================================================
