---------------------------- MODULE MySQLProofs ----------------------------
(***************************************************************************)
(* When a call that repeats its statement executes it at most once: for    *)
(* any errors it repeats after and any server.                             *)
(***************************************************************************)
EXTENDS MySQL, TLAPS

\* Until the call is over nothing was executed that would be repeated.
IInv ==
  /\ pc \in {"idle", "query", "reconnect", "retry"}
  /\ pc # "idle" => ran = 0 /\ ~answer
  /\ ran \in {0, 1}
  /\ answer \in BOOLEAN
  /\ answer => ran = 1

\* Either the connection does not break between execution and answer, or the call
\* does not repeat its statement when it did.
LEMMA StepInv ==
  ASSUME ~AnswerMayBeLost \/ "LOST" \notin RetryErrors PROVE IInv /\ [Next]_vars => IInv'
<1>. SUFFICES ASSUME IInv, [Next]_vars PROVE IInv'
  OBVIOUS
<1>1. CASE Drop
  BY <1>1 DEF Drop, IInv
<1>2. CASE Begin
  BY <1>2 DEF Begin, IInv
<1>3. CASE Reconnect
  BY <1>3 DEF Reconnect, IInv
<1>4. CASE QueryGone
  BY <1>4 DEF QueryGone, Failed, IInv
<1>5. CASE QueryDone
  BY <1>5 DEF QueryDone, IInv
<1>6. CASE QueryRefused
  BY <1>6 DEF QueryRefused, Failed, IInv
<1>7. CASE QueryLost
  <2>1. CASE ran' = ran
    BY <1>7, <2>1 DEF QueryLost, Failed, IInv
  <2>2. CASE AnswerMayBeLost /\ ran' = ran + 1
    <3>1. pc' = "idle" /\ ran' = 1 /\ answer' = FALSE
      BY <1>7, <2>2 DEF QueryLost, Failed, IInv
    <3>. QED
      BY <3>1 DEF IInv
  <2>. QED
    BY <1>7, <2>1, <2>2 DEF QueryLost
<1>8. CASE UNCHANGED vars
  BY <1>8 DEF vars, IInv
<1>. QED
  BY <1>1, <1>2, <1>3, <1>4, <1>5, <1>6, <1>7, <1>8 DEF Next

\* A call of MySQL::queryRaw (mysql.cpp:118-168) or EasyMySQL::real_query
\* (easymysql.cpp:26-59) executes its statement at most once, and once if it reports
\* success, provided that it does not repeat it after an error that leaves open
\* whether the server has executed it.
THEOREM OnceCorrect ==
  ASSUME ~AnswerMayBeLost \/ "LOST" \notin RetryErrors PROVE Spec => []Once
<1>1. Init => IInv
  BY DEF Init, IInv
<1>2. IInv /\ [Next]_vars => IInv'
  BY StepInv
<1>3. IInv => Once
  <2>1. \A n \in {0, 1} : n <= 1
    OBVIOUS
  <2>. QED
    BY <2>1 DEF IInv, Once
<1>. QED
  BY <1>1, <1>2, <1>3, PTL DEF Spec
=============================================================================
