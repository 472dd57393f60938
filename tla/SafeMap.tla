------------------------------ MODULE SafeMap ------------------------------
(***************************************************************************)
(* SafeMap (safemap.h): a std::map from keys to items of an array that is  *)
(* allocated once, so that an item stays where it is while it is in the    *)
(* map.  Every call is one step on the fields of the object.               *)
(***************************************************************************)
EXTENDS Links, Functions

CONSTANTS Capacity, Key, Value,
          NoValue          \* type()

VARIABLES safemap,   \* the fields of the object
          added,     \* what was last added for each key that is in the map (history)
          again      \* how often a key was added that was in the map (history)

vars == <<safemap, added, again>>

Item == 1..Capacity
With(f, k, v) == [i \in DOMAIN f \cup {k} |-> IF i = k THEN v ELSE f[i]]
Without(f, k) == Restrict(f, DOMAIN f \ {k})

\* The constructor puts the items on the free list, the first one on top.
Constructed ==
  [refs |-> [i \in Item |-> IF i < Capacity THEN i + 1 ELSE NULL], free |-> 1,
   items |-> [i \in Item |-> NoValue], index |-> [k \in {} |-> NULL]]

\* dirtyAdd, which does not look whether the key is in the map.
DirtyAdd(k) ==
  [safemap EXCEPT !.free = safemap.refs[@], !.index = With(@, k, safemap.free)]

\* add: without a free item the answer is NULL and nothing changes.
Add(k, v) ==
  /\ safemap.free # NULL
  /\ safemap' = [DirtyAdd(k) EXCEPT !.items[safemap.free] = v]
  /\ added' = With(added, k, v)
  /\ again' = IF k \in DOMAIN safemap.index THEN again + 1 ELSE again

\* Mutant: the item is freed, its key stays.
RemoveItemOnly(k) ==
  /\ k \in DOMAIN safemap.index
  /\ safemap' = [safemap EXCEPT !.refs[safemap.index[k]] = safemap.free,
                                !.free = safemap.index[k]]
  /\ added' = Without(added, k)
  /\ UNCHANGED again

\* remove, by the key or at an iterator.  (The counter, which nothing reads, is left out.)
RemoveKey(k) ==
  /\ k \in DOMAIN safemap.index
  /\ safemap' = [safemap EXCEPT !.refs[safemap.index[k]] = safemap.free,
                                !.free = safemap.index[k], !.index = Without(@, k)]
  /\ added' = Without(added, k)
  /\ UNCHANGED again

Init == safemap = Constructed /\ added = [k \in {} |-> NoValue] /\ again = 0

Next == \E k \in Key : RemoveKey(k) \/ \E v \in Value : Add(k, v)

Spec == Init /\ [][Next]_vars

(***************************************************************************)
(* Properties.                                                             *)
(***************************************************************************)
\* "An exact pointer to the stored object that is guaranteed to exist until
\* remove()" (safemap.h:31-33): the item of a key is not free, is no other key's, and
\* holds what was added; and an item is lost only by adding a key again that is in
\* the map (dirtyAdd, safemap.h:193-205, leaves its old item in neither place).
ItemsKept ==
  LET idle == ListFrom(safemap.refs, safemap.free, Capacity)
  IN  /\ IsInjective(safemap.index)
      /\ DOMAIN safemap.index = DOMAIN added
      /\ \A k \in DOMAIN safemap.index : /\ ~Contains(idle, safemap.index[k])
                                         /\ safemap.items[safemap.index[k]] = added[k]
      /\ Cardinality(DOMAIN safemap.index) + Len(idle) + again = Capacity
=============================================================================
