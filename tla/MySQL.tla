------------------------------- MODULE MySQL -------------------------------
(***************************************************************************)
(* One SQL statement over a connection that may be lost at any moment:     *)
(* MySQL::queryRaw (mysql.cpp) and EasyMySQL::real_query (easymysql.cpp),  *)
(* which connect and try again after some of the errors.  The client       *)
(* library and the server are external.                                    *)
(***************************************************************************)
EXTENDS Naturals

CONSTANTS
  RetryErrors,     \* the errors after which the statement is sent again
  AnswerMayBeLost  \* whether the connection breaks after a statement was executed

VARIABLES
  link,    \* "up", "dropped" by the server, or "down" for the client too
  pc,      \* where the call is
  ran,     \* how often the server executed the statement of this call (history)
  answer   \* whether the call reported success

vars == <<link, pc, ran, answer>>

\* The server closes an idle connection, or restarts.
Drop ==
  /\ link = "up"
  /\ link' = "dropped"
  /\ UNCHANGED <<pc, ran, answer>>

Begin ==
  /\ pc = "idle"
  /\ pc' = "query" /\ ran' = 0 /\ answer' = FALSE
  /\ UNCHANGED link

\* Mutant: the second attempt is followed by a third.
FailedRetriesOn(error) ==
  /\ pc' = IF error \in RetryErrors THEN "reconnect" ELSE "idle"
  /\ answer' = (pc = "retry")

\* A failed attempt: the first one may be repeated, the second one is a failure.
Failed(error) ==
  /\ pc' = IF pc = "query" /\ error \in RetryErrors THEN "reconnect" ELSE "idle"
  /\ UNCHANGED answer

\* mysql_real_query on a connection that is gone: nothing was sent.
QueryGone ==
  /\ pc \in {"query", "retry"} /\ link # "up"
  /\ link' = "down"
  /\ Failed("GONE")
  /\ UNCHANGED ran

\* The server executes the statement and answers.
QueryDone ==
  /\ pc \in {"query", "retry"} /\ link = "up"
  /\ ran' = ran + 1
  /\ pc' = "idle" /\ answer' = TRUE
  /\ UNCHANGED link

\* The server refuses the statement.
QueryRefused ==
  /\ pc \in {"query", "retry"} /\ link = "up"
  /\ Failed("REFUSED")
  /\ UNCHANGED <<link, ran>>

\* The connection breaks while the call waits for the answer.
QueryLost ==
  /\ pc \in {"query", "retry"} /\ link = "up"
  /\ link' = "down"
  /\ \/ UNCHANGED ran
     \/ AnswerMayBeLost /\ ran' = ran + 1
  /\ Failed("LOST")

\* close() and reconnect(); when that fails the call has failed.
Reconnect ==
  /\ pc = "reconnect"
  /\ \/ link' = "up" /\ pc' = "retry"
     \/ link' = "down" /\ pc' = "idle"
  /\ UNCHANGED <<ran, answer>>

Init == link = "up" /\ pc = "idle" /\ ran = 0 /\ answer = FALSE

Next ==
  \/ Drop \/ Begin \/ Reconnect
  \/ QueryGone \/ QueryDone \/ QueryRefused \/ QueryLost

Spec == Init /\ [][Next]_vars

(***************************************************************************)
(* Properties.                                                             *)
(***************************************************************************)
\* Whatever breaks and is repeated, a statement is executed at most once in a call,
\* and once if the call reports success.
Once == ran <= 1 /\ (answer => ran = 1)
=============================================================================
