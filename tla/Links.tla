------------------------------- MODULE Links -------------------------------
(* Lists linked through a next pointer, read as sequences of cells. *)
EXTENDS Integers, Sequences, SequencesExt

NULL == 0

\* The cells from c on in the links next, cut off after n + 1 cells if the list
\* does not end; a pointer that is to no cell ends it.
ListFrom(next, c, n) ==
  LET from[i \in 0..n + 1, b \in Int] ==
        IF i = 0 \/ b \notin DOMAIN next THEN <<>> ELSE <<b>> \o from[i - 1, next[b]]
  IN  from[n + 1, c]
=============================================================================
