-------------------------------- MODULE Dict --------------------------------
(***************************************************************************)
(* What HeavyHash (heavyhash.h) promises: a function on at most Capacity   *)
(* keys.  A new key that finds no room is dropped without a word.          *)
(***************************************************************************)
EXTENDS Integers, FiniteSets, Functions

CONSTANTS Capacity, Key, Value, NoValue

VARIABLES content,   \* the value of every key that is in the table
          answer     \* what the last call returned

vars == <<content, answer>>

Init == content = [k \in {} |-> NoValue] /\ answer = NoValue

With(f, k, v) == [i \in DOMAIN f \cup {k} |-> IF i = k THEN v ELSE f[i]]

Insert(k, v) ==
  /\ IF k \in DOMAIN content \/ Cardinality(DOMAIN content) < Capacity
     THEN content' = With(content, k, v)
     ELSE UNCHANGED content
  /\ answer' = NoValue

Replace(k, v) ==
  /\ content' = (IF k \in DOMAIN content THEN With(content, k, v) ELSE content)
  /\ answer' = NoValue

Delete(k) ==
  /\ content' = Restrict(content, DOMAIN content \ {k})
  /\ answer' = NoValue

Search(k) ==
  /\ answer' = (IF k \in DOMAIN content THEN content[k] ELSE NoValue)
  /\ UNCHANGED content

Next ==
  \E k \in Key :
    \/ Search(k) \/ Delete(k)
    \/ \E v \in Value : Insert(k, v) \/ Replace(k, v)

Spec == Init /\ [][Next]_vars
=============================================================================
