------------------------------- MODULE Stack -------------------------------
(***************************************************************************)
(* Stack (stack.h): a linked stack whose cells come from a heap that is     *)
(* allocated once.  Every call is one step on the fields of the object.     *)
(***************************************************************************)
EXTENDS Links

CONSTANTS Capacity, Value,
          NoValue    \* type(): the answer of an empty stack

VARIABLES stack,     \* the fields of the object
          answer     \* what the last call returned

vars == <<stack, answer>>

Cell == 1..Capacity

\* The constructor links the whole heap to the free list.
Constructed ==
  [next |-> [c \in Cell |-> IF c < Capacity THEN c + 1 ELSE NULL],
   value |-> [c \in Cell |-> NoValue], free |-> 1, top |-> NULL]

Chain(s) == ListFrom(s.next, s.top, Capacity)

\* push: allocItem does not look whether there is a free cell, so a stack must not be
\* pushed beyond its capacity.
Push(v) ==
  LET c == stack.free
  IN  /\ c # NULL
      /\ stack' = [stack EXCEPT !.free = stack.next[c], !.value[c] = v, !.next[c] = stack.top,
                                !.top = c]
      /\ answer' = NoValue

\* pop, with releaseItem.
Pop ==
  LET c == stack.top
  IN  IF c = NULL THEN answer' = NoValue /\ UNCHANGED stack
      ELSE /\ stack' = [stack EXCEPT !.top = stack.next[c], !.free = c, !.next[c] = stack.free]
           /\ answer' = stack.value[c]

Init == stack = Constructed /\ answer = NoValue
Next == Pop \/ \E v \in Value : Push(v)
Spec == Init /\ [][Next]_vars

(***************************************************************************)
(* Properties.                                                             *)
(***************************************************************************)
Promise == INSTANCE Deque WITH
  content <- [i \in DOMAIN Chain(stack) |-> stack.value[Chain(stack)[i]]]

\* The linked cells are a bounded sequence of which one end is used, through every mix of
\* calls with cells that come and go, and no cell leaks from the two lists.
IsStack ==
  Promise!Init /\ [][Promise!Pop \/ \E v \in Value : Promise!PushFirst(v)]_vars
CellsAccounted == Len(Chain(stack)) + Len(ListFrom(stack.next, stack.free, Capacity)) = Capacity
=============================================================================
