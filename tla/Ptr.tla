-------------------------------- MODULE Ptr --------------------------------
(***************************************************************************)
(* Object and ptr (object.h, object.cpp): objects that count the pointers  *)
(* to them and delete themselves with the last one.  A pointer is a        *)
(* variable of the application or a field of an object; every object has   *)
(* one field.                                                              *)
(***************************************************************************)
EXTENDS Integers, FiniteSets

CONSTANTS
  Variable,
  MaxObject,      \* bound: objects at a time
  SourceMayDie    \* whether a pointer is assigned from an object that dies of it

NULL == 0
Object == 1..MaxObject
Field == Object

VARIABLE heap     \* the objects, their counts, and where each pointer points

\* The memory of a new object is that of a dead one, or fresh.
Free == Object \ heap.alive

\* lock and release; the last pointer to an object deletes it, and then its field.
Lock(h, o) == IF o = NULL THEN h ELSE [h EXCEPT !.ref_count[o] = @ + 1]

RECURSIVE Release(_, _)
Release(h, o) ==
  IF o = NULL THEN h
  ELSE LET released == [h EXCEPT !.ref_count[o] = @ - 1]
           deleted == [released EXCEPT !.alive = @ \ {o}, !.ptr[o] = NULL]
       IN  IF released.ref_count[o] = 0 THEN Release(deleted, h.ptr[o]) ELSE released

\* The new object of an assignment is read behind the release of the old one.
Exchanged(h, p, o) == Lock([Release(h, h.ptr[p]) EXCEPT !.ptr[p] = o], o)

\* Mutant: a pointer may be assigned to itself.
AssignedAlways(h, p, o) == Exchanged(h, p, o)

Assigned(h, p, o) == IF h.ptr[p] = o THEN h ELSE Exchanged(h, p, o)

\* Where the application may write and read: its variables, and the fields of objects
\* that it reaches from them.
RECURSIVE Reached(_)
Reached(S) ==
  LET more == S \cup ({heap.ptr[o] : o \in S} \ {NULL}) IN IF more = S THEN S ELSE Reached(more)
Places == Variable \cup Reached({heap.ptr[v] : v \in Variable} \ {NULL})

\* p = q, from another pointer or from what it points to.
Assign(p, q) ==
  LET h == Assigned(heap, p, heap.ptr[q])
  IN  /\ ~SourceMayDie => q \in Variable \cup h.alive
      /\ heap' = h

\* p = 0, and the destructor of a pointer.
Clear(p) == heap' = Assigned(heap, p, NULL)

\* p = new ..., and the constructor of a pointer.
AssignNew(p) ==
  \E o \in Free :
    /\ \A other \in Free : o <= other
    /\ heap' = Assigned([heap EXCEPT !.alive = @ \cup {o}, !.ref_count[o] = 0], p, o)

\* A pointer that is passed by value.
Temporary(q) == heap' = Release(Lock(heap, heap.ptr[q]), heap.ptr[q])

Init ==
  heap = [alive |-> {}, ref_count |-> [o \in Object |-> 0],
          ptr |-> [p \in Variable \cup Field |-> NULL]]

Next ==
  \E p \in Places :
    \/ Clear(p) \/ AssignNew(p) \/ Temporary(p)
    \/ \E q \in Places : Assign(p, q)

Spec == Init /\ [][Next]_heap

(***************************************************************************)
(* Properties.                                                             *)
(***************************************************************************)
\* However pointers are assigned, also to themselves, in circles and in objects that die
\* with the assignment, the count of an object is the number of pointers to it, and no
\* pointer that lives points to an object that is dead.
CountsRight ==
  LET living == Variable \cup heap.alive
  IN  /\ \A p \in living : heap.ptr[p] \in heap.alive \cup {NULL}
      /\ \A o \in heap.alive : /\ heap.ref_count[o] > 0
                          /\ heap.ref_count[o] = Cardinality({p \in living : heap.ptr[p] = o})
=============================================================================
