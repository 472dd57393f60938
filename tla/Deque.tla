------------------------------- MODULE Deque -------------------------------
(***************************************************************************)
(* What Queue (queue.h) promises: a bounded sequence of values.  A value   *)
(* that finds no room is dropped without a word, and an empty queue answers *)
(* with the default value of its type.                                     *)
(***************************************************************************)
EXTENDS Integers, Sequences, SequencesExt

CONSTANTS Capacity, Value, NoValue

VARIABLES content,   \* the values, first to last
          answer     \* what the last call returned

vars == <<content, answer>>

Init == content = <<>> /\ answer = NoValue

Void == answer' = NoValue

Push(v) ==
  content' = (IF Len(content) < Capacity THEN Append(content, v) ELSE content) /\ Void

PushFirst(v) ==
  content' = (IF Len(content) < Capacity THEN <<v>> \o content ELSE content) /\ Void

Pop ==
  /\ content' = (IF content = <<>> THEN content ELSE Tail(content))
  /\ answer' = (IF content = <<>> THEN NoValue ELSE Head(content))

GetFirst == answer' = (IF content = <<>> THEN NoValue ELSE Head(content)) /\ UNCHANGED content
GetLast == answer' = (IF content = <<>> THEN NoValue ELSE Last(content)) /\ UNCHANGED content

\* The first of the equal values leaves; the default value answers "not found".
SearchAndDel(v) ==
  /\ content' = (IF Contains(content, v) THEN RemoveFirst(content, v) ELSE content)
  /\ answer' = (IF Contains(content, v) THEN v ELSE NoValue)

FreeAll == content' = <<>> /\ Void

Next ==
  \/ FreeAll \/ Pop \/ GetFirst \/ GetLast
  \/ \E v \in Value : Push(v) \/ PushFirst(v) \/ SearchAndDel(v)

Spec == Init /\ [][Next]_vars
=============================================================================
