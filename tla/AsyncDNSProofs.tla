--------------------------- MODULE AsyncDNSProofs ---------------------------
(***************************************************************************)
(* Theorems about AsyncDNS and the timers of NetDaemon, for any queries,   *)
(* delays and numbers of timers: a timer is called once and in time, as    *)
(* long as the clock fits an int, and an active query is always watched.   *)
(***************************************************************************)
EXTENDS AsyncDNS, TLAPS

(***************************************************************************)
(* The invariant of the timers.                                            *)
(***************************************************************************)
\* The pass: which timers it has called, calls and will not call.
PassRight ==
  /\ now <= MaxTime
  /\ pass.tv <= now
  /\ pass.at <= pass.upto /\ pass.upto <= timer_id
  /\ pass.in_callback =>
       /\ pass.running
       /\ pass.at \in DOMAIN timers /\ pass.at \notin pass.to_del
       /\ timers[pass.at].callback
       /\ timers[pass.at].calltime <= now
       /\ fired[pass.at] = 1
  /\ ~pass.running => pass.to_del = {}
  /\ \A i \in pass.to_del : i <= pass.at /\ fired[i] = 1

\* The timers in the map: a called one waits for its erasure, and one that was set in
\* a pass is not due in it.
MapRight ==
  /\ DOMAIN timers \subseteq 1..timer_id
  /\ \A i \in DOMAIN timers :
       /\ timers[i].expires = timers[i].calltime
       /\ ~timers[i].callback => i \in pass.to_del
       /\ pass.running /\ i > pass.upto => timers[i].calltime > pass.tv

\* The calls that were made.
CallsRight ==
  \A i \in Id :
    /\ i > timer_id => fired[i] = 0
    /\ i \in DOMAIN timers /\ timers[i].callback
       /\ ~(pass.in_callback /\ pass.at = i) => fired[i] = 0
    /\ i \in 1..timer_id \ DOMAIN timers => fired[i] = 1 \/ i \in removed

TimersInv == TimersTypeOK /\ PassRight /\ MapRight /\ CallsRight

(***************************************************************************)
(* The invariant of the resolver.                                          *)
(***************************************************************************)
\* The timers that will run AsyncDNS::timer are in the map, nobody else's, and not yet
\* called.
ChainsRight ==
  /\ dns_timers \subseteq DOMAIN timers
  /\ dns_timers \cap pass.to_del = {}
  /\ app_timers \subseteq 1..timer_id
  /\ dns_timers \cap app_timers = {}

QueriesRight ==
  \A q \in Active :
    /\ queries[q] \in [deadline : Nat, left : Nat]
    /\ queries[q].deadline <= now + Interval

IInv == TimersInv /\ ChainsRight /\ QueriesRight /\ Watched

(***************************************************************************)
(* The steps of the timers.                                                *)
(***************************************************************************)
\* A timer that is set for later than the pass's clock keeps the invariant.
LEMMA CallAtKeeps ==
  ASSUME TimersInv, NEW t \in Nat, t < IntLimit, pass.running => t > pass.tv, CallAt(t)
  PROVE  TimersInv'
<1>. DEFINE id == timer_id + 1
<1>1. /\ timer_id < MaxTimer /\ timer_id' = id
      /\ timers' = [i \in DOMAIN timers \cup {id} |->
                      IF i = id
                      THEN [calltime |-> t, expires |-> ToInt(t), callback |-> TRUE]
                      ELSE timers[i]]
      /\ UNCHANGED <<now, pass, fired, removed>>
  BY DEF CallAt
<1>2. id \in Id /\ timer_id \in Nat /\ id \notin DOMAIN timers /\ ToInt(t) = t
  BY <1>1, TimersAssumption DEF TimersInv, TimersTypeOK, MapRight, Id, ToInt
<1>3. DOMAIN timers' = DOMAIN timers \cup {id}
  BY <1>1
<1>4. /\ timers'[id] = [calltime |-> t, expires |-> t, callback |-> TRUE]
      /\ \A i \in DOMAIN timers : timers'[i] = timers[i]
  BY <1>1, <1>2
<1>5. TimersTypeOK'
  <2>1. timers'[id] \in Timer
    BY <1>4 DEF Timer
  <2>2. \A i \in DOMAIN timers' : timers'[i] \in Timer
    BY <1>3, <1>4, <2>1 DEF TimersInv, TimersTypeOK
  <2>3. timer_id' \in 0..MaxTimer
    BY <1>1, <1>2, TimersAssumption
  <2>4. DOMAIN timers' \subseteq Id
    BY <1>2, <1>3 DEF TimersInv, TimersTypeOK
  <2>. QED
    BY <1>1, <2>2, <2>3, <2>4 DEF TimersInv, TimersTypeOK
<1>6. PassRight'
  BY <1>1, <1>2, <1>3, <1>4 DEF TimersInv, TimersTypeOK, PassRight
<1>7. MapRight'
  BY <1>1, <1>2, <1>3, <1>4 DEF TimersInv, TimersTypeOK, MapRight, Id
<1>8. CallsRight'
  BY <1>1, <1>2, <1>3, <1>4 DEF TimersInv, TimersTypeOK, PassRight, MapRight, CallsRight, Id
<1>. QED
  BY <1>5, <1>6, <1>7, <1>8 DEF TimersInv

\* The clock goes on.
LEMMA TickKeeps == ASSUME TimersInv, Tick PROVE TimersInv'
<1>1. now \in Nat /\ now' = now + 1 /\ now' <= MaxTime
      /\ UNCHANGED <<timer_id, timers, pass, fired, removed>>
  BY TimersAssumption DEF Tick, TimersInv, TimersTypeOK
<1>2. TimersTypeOK'
  BY <1>1 DEF TimersInv, TimersTypeOK
<1>3. PassRight'
  <2>1. pass.in_callback => timers[pass.at].calltime \in Nat
    BY DEF TimersInv, TimersTypeOK, PassRight, Timer
  <2>2. pass.tv \in Nat
    BY DEF TimersInv, TimersTypeOK
  <2>. QED
    BY <1>1, <2>1, <2>2 DEF TimersInv, PassRight
<1>4. MapRight' /\ CallsRight'
  BY <1>1 DEF TimersInv, MapRight, CallsRight
<1>. QED
  BY <1>2, <1>3, <1>4 DEF TimersInv

\* A timer is removed.
LEMMA RemoveKeeps == ASSUME TimersInv, NEW id \in Id, RemoveTimer(id) PROVE TimersInv'
<1>1. /\ id \in DOMAIN timers
      /\ ~(pass.in_callback /\ id = pass.at)
      /\ timers' = [i \in DOMAIN timers \ {id} |-> timers[i]]
      /\ removed' = removed \cup {id}
      /\ UNCHANGED <<now, timer_id, pass, fired>>
  BY DEF RemoveTimer, Restrict
<1>2. DOMAIN timers' = DOMAIN timers \ {id} /\ \A i \in DOMAIN timers' : timers'[i] = timers[i]
  BY <1>1
<1>3. TimersTypeOK'
  BY <1>1, <1>2 DEF TimersInv, TimersTypeOK
<1>4. PassRight'
  BY <1>1, <1>2 DEF TimersInv, PassRight
<1>5. MapRight'
  BY <1>1, <1>2 DEF TimersInv, MapRight
<1>6. CallsRight'
  BY <1>1, <1>2 DEF TimersInv, CallsRight
<1>. QED
  BY <1>3, <1>4, <1>5, <1>6 DEF TimersInv

\* A pass begins.
LEMMA BeginKeeps == ASSUME TimersInv, BeginPass PROVE TimersInv'
<1>1. /\ ~pass.running
      /\ pass' = [running |-> TRUE, tv |-> now, at |-> 0, upto |-> timer_id,
                  in_callback |-> FALSE, to_del |-> {}]
      /\ UNCHANGED <<now, timer_id, timers, fired, removed>>
  BY DEF BeginPass, NoPass
<1>2. now \in Nat /\ timer_id \in 0..MaxTimer /\ MaxTimer \in Nat
  BY TimersAssumption DEF TimersInv, TimersTypeOK
<1>3. ~pass.in_callback /\ pass.to_del = {}
  BY <1>1 DEF TimersInv, PassRight
<1>4. TimersTypeOK'
  BY <1>1, <1>2 DEF TimersInv, TimersTypeOK
<1>5. PassRight'
  BY <1>1, <1>2 DEF TimersInv, PassRight
<1>6. MapRight'
  BY <1>1, <1>2, <1>3 DEF TimersInv, MapRight
<1>7. CallsRight'
  BY <1>1, <1>3 DEF TimersInv, CallsRight
<1>. QED
  BY <1>4, <1>5, <1>6, <1>7 DEF TimersInv

\* A callback starts: its timer was not called before, and was there before the pass.
LEMMA FireKeeps == ASSUME TimersInv, Fire PROVE TimersInv'
<1>1. PICK id \in Due :
        /\ pass' = [pass EXCEPT !.at = id, !.in_callback = TRUE]
        /\ fired' = [fired EXCEPT ![id] = IF timers[id].callback THEN @ + 1 ELSE @]
  BY DEF Fire
<1>2. pass.running /\ ~pass.in_callback /\ UNCHANGED <<now, timer_id, timers, removed>>
  BY DEF Fire
<1>3. id \in DOMAIN timers /\ id > pass.at /\ timers[id].expires <= pass.tv
  BY DEF Due
<1>4. /\ id \in Id /\ id \in 1..timer_id /\ timers[id] \in Timer
      /\ pass \in [running : BOOLEAN, tv : Nat, at : 0..MaxTimer, upto : 0..MaxTimer,
                   in_callback : BOOLEAN, to_del : SUBSET Id]
      /\ now \in Nat /\ timer_id \in 0..MaxTimer /\ MaxTimer \in Nat
  BY <1>3, TimersAssumption DEF TimersInv, TimersTypeOK, MapRight
<1>5. id \notin pass.to_del
  BY <1>3, <1>4 DEF TimersInv, PassRight, Id
<1>6. timers[id].callback /\ fired[id] = 0
  BY <1>2, <1>3, <1>4, <1>5 DEF TimersInv, MapRight, CallsRight
<1>7. id <= pass.upto
  BY <1>2, <1>3, <1>4 DEF TimersInv, MapRight, Timer, Id
<1>8. timers[id].calltime <= now
  BY <1>3, <1>4 DEF TimersInv, MapRight, PassRight, Timer
<1>9. /\ fired' = [fired EXCEPT ![id] = 1]
      /\ pass'.at = id /\ pass'.in_callback = TRUE /\ pass'.running = pass.running
      /\ pass'.tv = pass.tv /\ pass'.upto = pass.upto /\ pass'.to_del = pass.to_del
  BY <1>1, <1>4, <1>6 DEF TimersInv, TimersTypeOK
<1>10. fired' \in [Id -> 0..1] /\ fired'[id] = 1 /\ \A i \in Id \ {id} : fired'[i] = fired[i]
  BY <1>4, <1>9 DEF TimersInv, TimersTypeOK
<1>11. TimersTypeOK'
  <2>1. pass' \in [running : BOOLEAN, tv : Nat, at : 0..MaxTimer, upto : 0..MaxTimer,
                   in_callback : BOOLEAN, to_del : SUBSET Id]
    <3>1. id \in 0..MaxTimer
      BY <1>4 DEF Id
    <3>. QED
      BY <1>1, <1>4, <3>1
  <2>. QED
    BY <1>2, <1>10, <2>1 DEF TimersInv, TimersTypeOK
<1>12. PassRight'
  <2>1. \A i \in pass'.to_del : i <= pass'.at /\ fired'[i] = 1
    BY <1>3, <1>4, <1>5, <1>9, <1>10 DEF TimersInv, PassRight, Id
  <2>. QED
    BY <1>2, <1>3, <1>4, <1>5, <1>6, <1>7, <1>8, <1>9, <1>10, <2>1 DEF TimersInv, PassRight
<1>13. MapRight'
  BY <1>2, <1>9 DEF TimersInv, MapRight
<1>14. CallsRight'
  BY <1>2, <1>3, <1>4, <1>9, <1>10 DEF TimersInv, CallsRight, Id
<1>. QED
  BY <1>11, <1>12, <1>13, <1>14 DEF TimersInv

\* A callback has returned: its timer waits for the end of the pass.
LEMMA FiredKeeps == ASSUME TimersInv, Fired PROVE TimersInv'
<1>. DEFINE at == pass.at
<1>1. /\ pass.running /\ pass.in_callback
      /\ timers' = [timers EXCEPT ![at].callback = FALSE]
      /\ pass' = [pass EXCEPT !.in_callback = FALSE, !.to_del = @ \cup {at}]
      /\ UNCHANGED <<now, timer_id, fired, removed>>
  BY DEF Fired
<1>2. /\ at \in DOMAIN timers /\ at \in Id /\ timers[at] \in Timer /\ fired[at] = 1
      /\ pass \in [running : BOOLEAN, tv : Nat, at : 0..MaxTimer, upto : 0..MaxTimer,
                   in_callback : BOOLEAN, to_del : SUBSET Id]
  BY <1>1 DEF TimersInv, TimersTypeOK, PassRight
<1>3. /\ pass'.at = at /\ pass'.in_callback = FALSE /\ pass'.running = pass.running
      /\ pass'.tv = pass.tv /\ pass'.upto = pass.upto /\ pass'.to_del = pass.to_del \cup {at}
  BY <1>1, <1>2
<1>4. /\ DOMAIN timers' = DOMAIN timers
      /\ \A i \in DOMAIN timers \ {at} : timers'[i] = timers[i]
      /\ timers'[at] = [timers[at] EXCEPT !.callback = FALSE]
  BY <1>1, <1>2
<1>5. timers'[at] \in Timer /\ timers'[at].callback = FALSE
      /\ timers'[at].calltime = timers[at].calltime /\ timers'[at].expires = timers[at].expires
  BY <1>2, <1>4 DEF Timer
<1>6. TimersTypeOK'
  <2>1. pass' \in [running : BOOLEAN, tv : Nat, at : 0..MaxTimer, upto : 0..MaxTimer,
                   in_callback : BOOLEAN, to_del : SUBSET Id]
    BY <1>1, <1>2
  <2>2. \A i \in DOMAIN timers' : timers'[i] \in Timer
    BY <1>4, <1>5 DEF TimersInv, TimersTypeOK
  <2>. QED
    BY <1>1, <1>4, <2>1, <2>2 DEF TimersInv, TimersTypeOK
<1>7. PassRight'
  BY <1>1, <1>2, <1>3 DEF TimersInv, PassRight, Id
<1>8. MapRight'
  BY <1>1, <1>2, <1>3, <1>4, <1>5 DEF TimersInv, MapRight
<1>9. CallsRight'
  BY <1>1, <1>2, <1>3, <1>4, <1>5 DEF TimersInv, CallsRight
<1>. QED
  BY <1>6, <1>7, <1>8, <1>9 DEF TimersInv

\* The pass ends and erases what it called.
LEMMA EndKeeps == ASSUME TimersInv, EndPass PROVE TimersInv'
<1>1. /\ pass.running /\ ~pass.in_callback
      /\ timers' = [i \in DOMAIN timers \ pass.to_del |-> timers[i]]
      /\ pass' = [running |-> FALSE, tv |-> 0, at |-> 0, upto |-> 0,
                  in_callback |-> FALSE, to_del |-> {}]
      /\ UNCHANGED <<now, timer_id, fired, removed>>
  BY DEF EndPass, Restrict, NoPass
<1>2. /\ DOMAIN timers' = DOMAIN timers \ pass.to_del
      /\ \A i \in DOMAIN timers' : timers'[i] = timers[i]
  BY <1>1
<1>3. now \in Nat /\ timer_id \in 0..MaxTimer /\ MaxTimer \in Nat
  BY TimersAssumption DEF TimersInv, TimersTypeOK
<1>4. TimersTypeOK'
  BY <1>1, <1>2, <1>3 DEF TimersInv, TimersTypeOK
<1>5. PassRight'
  BY <1>1, <1>3 DEF TimersInv, PassRight
<1>6. MapRight'
  BY <1>1, <1>2 DEF TimersInv, MapRight
<1>7. CallsRight'
  BY <1>1, <1>2 DEF TimersInv, CallsRight, PassRight
<1>. QED
  BY <1>4, <1>5, <1>6, <1>7 DEF TimersInv

\* Steps that leave the timers alone.
LEMMA RestKeeps == ASSUME TimersInv, UNCHANGED timerVars PROVE TimersInv'
BY DEF timerVars, TimersInv, TimersTypeOK, PassRight, MapRight, CallsRight

(***************************************************************************)
(* The steps of the resolver.                                              *)
(***************************************************************************)
\* dns_timeouts leaves deadlines that lie ahead of its clock.
LEMMA TimeoutsRight ==
  ASSUME NEW qs, NEW tv \in Nat, NEW bound \in Nat, tv + Interval <= bound,
         \A q \in DOMAIN qs : qs[q] \in [deadline : Nat, left : Nat] /\ qs[q].deadline <= bound
  PROVE  \A q \in DOMAIN Timeouts(qs, tv) :
           /\ Timeouts(qs, tv)[q] \in [deadline : Nat, left : Nat]
           /\ Timeouts(qs, tv)[q].deadline > tv
           /\ Timeouts(qs, tv)[q].deadline <= bound
<1>. SUFFICES ASSUME NEW q \in DOMAIN Timeouts(qs, tv)
              PROVE  /\ Timeouts(qs, tv)[q] \in [deadline : Nat, left : Nat]
                     /\ Timeouts(qs, tv)[q].deadline > tv
                     /\ Timeouts(qs, tv)[q].deadline <= bound
  OBVIOUS
<1>1. /\ q \in DOMAIN qs /\ (qs[q].deadline > tv \/ qs[q].left > 0)
      /\ Timeouts(qs, tv)[q] = IF qs[q].deadline > tv THEN qs[q]
                               ELSE [deadline |-> tv + Interval, left |-> qs[q].left - 1]
  BY DEF Timeouts
<1>2. qs[q] \in [deadline : Nat, left : Nat] /\ qs[q].deadline <= bound
  BY <1>1
<1>3. CASE qs[q].deadline > tv
  BY <1>1, <1>2, <1>3
<1>4. CASE ~(qs[q].deadline > tv)
  <2>1. qs[q].left - 1 \in Nat /\ tv + Interval \in Nat /\ tv + Interval > tv
    BY <1>1, <1>2, <1>4, AsyncDNSAssumption
  <2>2. Timeouts(qs, tv)[q] = [deadline |-> tv + Interval, left |-> qs[q].left - 1]
    BY <1>1, <1>4
  <2>. QED
    BY <2>1, <2>2
<1>. QED
  BY <1>3, <1>4

\* AsyncDNS::timer keeps the invariant: the timer it sets watches every query that is
\* left, whichever of the resolver's other timers are taken away.
LEMMA DnsTimerKeeps ==
  ASSUME IInv, MaxTime + Interval < IntLimit,
         NEW qs, NEW tv \in Nat, NEW others \in SUBSET dns_timers,
         tv <= now, pass.running => tv >= pass.tv,
         \A q \in DOMAIN qs : qs[q] \in [deadline : Nat, left : Nat] /\ qs[q].deadline <= now + Interval,
         DnsTimer(qs, tv, others), UNCHANGED app_timers
  PROVE  IInv'
<1>1. now \in Nat /\ now <= MaxTime /\ pass.tv \in Nat /\ timer_id \in Nat /\ MaxTimer \in Nat
  BY TimersAssumption DEF IInv, TimersInv, TimersTypeOK, PassRight
<1>2. queries' = Timeouts(qs, tv)
  BY DEF DnsTimer
<1>3. \A q \in DOMAIN queries' :
        /\ queries'[q] \in [deadline : Nat, left : Nat]
        /\ queries'[q].deadline > tv
        /\ queries'[q].deadline <= now + Interval
  <2>. now + Interval \in Nat /\ tv + Interval <= now + Interval
    BY <1>1, AsyncDNSAssumption
  <2>. QED
    BY <1>2, TimeoutsRight
<1>4. CASE DOMAIN queries' = {} /\ dns_timers' = others /\ UNCHANGED timerVars
  <2>1. TimersInv'
    BY <1>4, RestKeeps DEF IInv
  <2>2. ChainsRight'
    BY <1>4 DEF IInv, ChainsRight, timerVars
  <2>3. QueriesRight' /\ Watched'
    BY <1>4 DEF QueriesRight, Watched, Active
  <2>. QED
    BY <2>1, <2>2, <2>3 DEF IInv
<1>5. ASSUME NEW first \in DOMAIN queries',
             \A q \in DOMAIN queries' : queries'[first].deadline <= queries'[q].deadline,
             CallAt(queries'[first].deadline),
             dns_timers' = others \cup {timer_id'}
      PROVE  IInv'
  <2>. DEFINE t == queries'[first].deadline
  <2>1. t \in Nat /\ t > tv /\ t <= now + Interval
    BY <1>3
  <2>2. t < IntLimit /\ (pass.running => t > pass.tv)
    BY <1>1, <2>1, TimersAssumption, AsyncDNSAssumption
  <2>3. TimersInv'
    BY <1>5, <2>1, <2>2, CallAtKeeps DEF IInv
  <2>4. /\ timer_id' = timer_id + 1 /\ UNCHANGED <<now, pass>>
        /\ DOMAIN timers' = DOMAIN timers \cup {timer_id'}
        /\ timers'[timer_id'].calltime = t /\ timers'[timer_id'].callback
    BY <1>5 DEF CallAt
  <2>5. timer_id' \notin pass.to_del /\ timer_id' \notin app_timers
    BY <1>1, <2>4 DEF IInv, TimersInv, TimersTypeOK, PassRight, ChainsRight, Id
  <2>6. ChainsRight'
    <3>1. app_timers' \subseteq 1..timer_id'
      BY <1>1, <2>4 DEF IInv, ChainsRight
    <3>. QED
      BY <1>5, <2>4, <2>5, <3>1 DEF IInv, ChainsRight
  <2>7. QueriesRight'
    BY <1>1, <1>3, <2>4, AsyncDNSAssumption DEF QueriesRight, Active
  <2>8. Watched'
    BY <1>5, <2>4 DEF Watched, Active
  <2>. QED
    BY <2>3, <2>6, <2>7, <2>8 DEF IInv
<1>. QED
  BY <1>4, <1>5 DEF DnsTimer

LEMMA SubmitKeeps ==
  ASSUME IInv, MaxTime + Interval < IntLimit, NEW q \in Query, Submit(q) PROVE IInv'
<1>1. now \in Nat /\ pass.tv <= now
  BY DEF IInv, TimersInv, TimersTypeOK, PassRight
<1>2. \A i \in DOMAIN Submitted(q) :
        /\ Submitted(q)[i] \in [deadline : Nat, left : Nat]
        /\ Submitted(q)[i].deadline <= now + Interval
  BY <1>1, AsyncDNSAssumption DEF IInv, QueriesRight, Submitted, Active
<1>3. pass.tv \in Nat
  BY DEF IInv, TimersInv, TimersTypeOK
<1>. QED
  BY <1>1, <1>2, <1>3, DnsTimerKeeps DEF Submit

LEMMA RunKeeps ==
  ASSUME IInv, MaxTime + Interval < IntLimit, RunDnsTimer PROVE IInv'
<1>1. pass.tv \in Nat /\ pass.tv <= now
  BY DEF IInv, TimersInv, TimersTypeOK, PassRight
<1>2. \A q \in DOMAIN queries :
        queries[q] \in [deadline : Nat, left : Nat] /\ queries[q].deadline <= now + Interval
  BY DEF IInv, QueriesRight, Active
<1>. QED
  BY <1>1, <1>2, DnsTimerKeeps DEF RunDnsTimer

\* An answer ends a query or puts its deadline off; neither needs an earlier timer.
LEMMA AnswerKeeps ==
  ASSUME IInv, NEW q \in Query, OnEvent(q) PROVE IInv'
<1>1. /\ UNCHANGED timerVars /\ UNCHANGED dns_timers /\ UNCHANGED app_timers /\ q \in Active
      /\ now \in Nat /\ now' = now /\ timers' = timers
  BY DEF OnEvent, IInv, TimersInv, TimersTypeOK, timerVars
<1>2. TimersInv' /\ ChainsRight'
  BY <1>1, RestKeeps DEF IInv, ChainsRight, timerVars
<1>3. CASE queries' = Restrict(queries, Active \ {q})
  <2>1. DOMAIN queries' = Active \ {q} /\ \A i \in DOMAIN queries' : queries'[i] = queries[i]
    BY <1>3 DEF Restrict, Active
  <2>2. QueriesRight'
    BY <1>1, <2>1 DEF IInv, QueriesRight, Active
  <2>3. Watched'
    BY <1>1, <2>1 DEF IInv, Watched, Active
  <2>. QED
    BY <1>2, <2>2, <2>3 DEF IInv
<1>4. CASE /\ queries[q].left > 0
           /\ queries' = [queries EXCEPT ![q] = [deadline |-> now + Interval, left |-> @.left - 1]]
  <2>1. /\ DOMAIN queries' = Active
        /\ queries'[q] = [deadline |-> now + Interval, left |-> queries[q].left - 1]
        /\ \A i \in Active \ {q} : queries'[i] = queries[i]
    BY <1>1, <1>4 DEF Active
  <2>2. queries[q].left - 1 \in Nat /\ now + Interval \in Nat
        /\ queries[q].deadline <= queries'[q].deadline /\ queries[q].deadline \in Nat
    BY <1>1, <1>4, <2>1, AsyncDNSAssumption DEF IInv, QueriesRight
  <2>3. QueriesRight'
    BY <1>1, <2>1, <2>2 DEF IInv, QueriesRight, Active
  <2>4. Watched'
    <3>1. \A i \in dns_timers \cap DOMAIN timers : timers[i].calltime \in Nat
      BY DEF IInv, TimersInv, TimersTypeOK, Timer
    <3>2. PICK i \in dns_timers \cap DOMAIN timers :
            timers[i].callback /\ timers[i].calltime <= queries[q].deadline
      BY <1>1 DEF IInv, Watched
    <3>3. timers[i].calltime <= queries'[q].deadline
      BY <2>1, <2>2, <3>1, <3>2
    <3>. QED
      BY <1>1, <2>1, <3>2, <3>3 DEF IInv, Watched, Active
  <2>. QED
    BY <1>2, <2>3, <2>4 DEF IInv
<1>. QED
  BY <1>3, <1>4 DEF OnEvent

\* The application's timers have nothing to do with the resolver's.
LEMMA SetTimerKeeps ==
  ASSUME IInv, MaxTime + Interval < IntLimit, NEW d \in Delays, SetTimer(d) PROVE IInv'
<1>1. /\ now \in Nat /\ d \in Nat \ {0} /\ now + d \in Nat /\ now + d <= MaxTime
      /\ pass.tv \in Nat /\ pass.tv <= now /\ timer_id \in Nat
  BY AsyncDNSAssumption, TimersAssumption
     DEF SetTimer, IInv, TimersInv, TimersTypeOK, PassRight
<1>2. now + d < IntLimit /\ now + d > pass.tv
  BY <1>1, TimersAssumption, AsyncDNSAssumption
<1>3. TimersInv'
  BY <1>1, <1>2, CallAtKeeps DEF IInv, SetTimer
<1>4. /\ timer_id' = timer_id + 1 /\ UNCHANGED <<now, pass, queries, dns_timers>>
      /\ DOMAIN timers' = DOMAIN timers \cup {timer_id'}
      /\ app_timers' = app_timers \cup {timer_id'}
  BY DEF SetTimer, CallAt
<1>5. timer_id' \notin DOMAIN timers /\ DOMAIN timers \subseteq 1..timer_id
  BY <1>1, <1>4 DEF IInv, TimersInv, MapRight
<1>6. \A i \in DOMAIN timers : timers'[i] = timers[i]
  BY <1>1, <1>5 DEF SetTimer, CallAt
<1>7. ChainsRight'
  BY <1>1, <1>4, <1>5 DEF IInv, ChainsRight
<1>8. QueriesRight'
  BY <1>4 DEF IInv, QueriesRight, Active
<1>9. Watched'
  BY <1>4, <1>6 DEF IInv, Watched, Active
<1>. QED
  BY <1>3, <1>7, <1>8, <1>9 DEF IInv

LEMMA RemoveAppKeeps ==
  ASSUME IInv, NEW id \in Id, RemoveAppTimer(id) PROVE IInv'
<1>1. TimersInv'
  BY RemoveKeeps DEF RemoveAppTimer, IInv
<1>2. /\ id \in app_timers /\ UNCHANGED dnsVars /\ UNCHANGED <<now, timer_id, pass>>
      /\ timers' = [i \in DOMAIN timers \ {id} |-> timers[i]]
  BY DEF RemoveAppTimer, RemoveTimer, Restrict
<1>3. DOMAIN timers' = DOMAIN timers \ {id} /\ \A i \in DOMAIN timers' : timers'[i] = timers[i]
  BY <1>2
<1>4. ChainsRight' /\ QueriesRight'
  BY <1>2, <1>3 DEF IInv, ChainsRight, QueriesRight, Active, dnsVars
<1>5. Watched'
  BY <1>2, <1>3 DEF IInv, ChainsRight, Watched, Active, dnsVars
<1>. QED
  BY <1>1, <1>4, <1>5 DEF IInv

\* The steps of processTimers leave the resolver's timers in the map until
\* AsyncDNS::timer has run.
LEMMA PassKeeps ==
  ASSUME IInv, Tick \/ BeginPass \/ Fire \/ Return \/ EndPass, UNCHANGED dnsVars PROVE IInv'
<1>1. TimersInv'
  BY TickKeeps, BeginKeeps, FireKeeps, FiredKeeps, EndKeeps DEF IInv, Return
<1>2. UNCHANGED <<queries, dns_timers, app_timers>>
  BY DEF dnsVars
<1>3. timer_id' = timer_id /\ now' >= now /\ now \in Nat /\ now' \in Nat
  <2>1. timer_id' = timer_id /\ now' \in {now, now + 1}
    BY DEF Tick, BeginPass, Fire, Return, Fired, EndPass
  <2>. QED
    BY <2>1 DEF IInv, TimersInv, TimersTypeOK
<1>4. QueriesRight'
  BY <1>2, <1>3, AsyncDNSAssumption DEF IInv, QueriesRight, Active
<1>5. CASE UNCHANGED timers /\ pass'.to_del = pass.to_del
  BY <1>1, <1>2, <1>3, <1>4, <1>5 DEF IInv, ChainsRight, Watched, Active
<1>6. CASE BeginPass
  <2>1. UNCHANGED timers /\ pass'.to_del = {}
    BY <1>6 DEF BeginPass, NoPass
  <2>. QED
    BY <1>1, <1>2, <1>3, <1>4, <2>1 DEF IInv, ChainsRight, Watched, Active
<1>7. CASE Return
  <2>1. /\ pass.at \notin dns_timers
        /\ DOMAIN timers' = DOMAIN timers
        /\ \A i \in DOMAIN timers \ {pass.at} : timers'[i] = timers[i]
        /\ pass'.to_del = pass.to_del \cup {pass.at}
    BY <1>7 DEF Return, Fired, IInv, TimersInv, TimersTypeOK
  <2>2. ChainsRight'
    BY <1>2, <1>3, <2>1 DEF IInv, ChainsRight
  <2>3. Watched'
    BY <1>2, <2>1 DEF IInv, Watched, Active
  <2>. QED
    BY <1>1, <1>4, <2>2, <2>3 DEF IInv
<1>8. CASE EndPass
  <2>1. /\ timers' = [i \in DOMAIN timers \ pass.to_del |-> timers[i]]
        /\ pass'.to_del = {}
    BY <1>8 DEF EndPass, Restrict, NoPass
  <2>2. DOMAIN timers' = DOMAIN timers \ pass.to_del
        /\ \A i \in DOMAIN timers' : timers'[i] = timers[i]
    BY <2>1
  <2>3. ChainsRight'
    BY <1>2, <1>3, <2>1, <2>2 DEF IInv, ChainsRight
  <2>4. Watched'
    BY <1>2, <2>2 DEF IInv, ChainsRight, Watched, Active
  <2>. QED
    BY <1>1, <1>4, <2>3, <2>4 DEF IInv
<1>9. CASE Tick
  BY <1>5, <1>9 DEF Tick
<1>10. CASE Fire
  <2>1. pass'.to_del = pass.to_del
    BY <1>10 DEF Fire, IInv, TimersInv, TimersTypeOK
  <2>. QED
    BY <1>5, <1>10, <2>1 DEF Fire
<1>. QED
  BY <1>6, <1>7, <1>8, <1>9, <1>10

LEMMA TerminateKeeps == ASSUME IInv, OnTerminate PROVE IInv'
<1>1. UNCHANGED timerVars /\ UNCHANGED <<dns_timers, app_timers>> /\ DOMAIN queries' = {}
  BY DEF OnTerminate
<1>2. TimersInv' /\ ChainsRight'
  BY <1>1, RestKeeps DEF IInv, ChainsRight, timerVars
<1>3. QueriesRight' /\ Watched'
  BY <1>1 DEF QueriesRight, Watched, Active
<1>. QED
  BY <1>2, <1>3 DEF IInv

\* The initial states satisfy the invariant.
LEMMA InitInv == Init => IInv
<1>. SUFFICES ASSUME Init PROVE IInv
  OBVIOUS
<1>1. TimersTypeOK
  BY TimersAssumption DEF Init, TimersInit, TimersTypeOK, NoPass, Id
<1>2. PassRight /\ MapRight
  BY TimersAssumption DEF Init, TimersInit, PassRight, MapRight, NoPass
<1>4. CallsRight
  BY TimersAssumption DEF Init, TimersInit, CallsRight, NoPass, Id
<1>3. ChainsRight /\ QueriesRight /\ Watched
  BY DEF Init, TimersInit, ChainsRight, QueriesRight, Watched, Active, NoPass
<1>. QED
  BY <1>1, <1>2, <1>3, <1>4 DEF IInv, TimersInv

\* Every step preserves the invariant.
LEMMA StepInv == ASSUME MaxTime + Interval < IntLimit PROVE IInv /\ [Next]_vars => IInv'
<1>. SUFFICES ASSUME IInv, [Next]_vars PROVE IInv'
  OBVIOUS
<1>1. CASE (Tick \/ BeginPass \/ Fire \/ Return \/ EndPass) /\ UNCHANGED dnsVars
  BY <1>1, PassKeeps
<1>2. CASE RunDnsTimer
  BY <1>2, RunKeeps
<1>3. CASE OnTerminate
  BY <1>3, TerminateKeeps
<1>4. ASSUME NEW q \in Query, Submit(q) \/ OnEvent(q) PROVE IInv'
  BY <1>4, SubmitKeeps, AnswerKeeps
<1>5. ASSUME NEW d \in Delays, SetTimer(d) PROVE IInv'
  BY <1>5, SetTimerKeeps
<1>6. ASSUME NEW id \in Id, RemoveAppTimer(id) PROVE IInv'
  BY <1>6, RemoveAppKeeps
<1>7. CASE UNCHANGED vars
  <2>1. UNCHANGED timerVars /\ UNCHANGED dnsVars
    BY <1>7 DEF vars
  <2>2. TimersInv'
    BY <2>1, RestKeeps DEF IInv
  <2>. QED
    BY <2>1, <2>2 DEF timerVars, dnsVars, IInv, ChainsRight, QueriesRight, Watched, Active
<1>. QED
  BY <1>1, <1>2, <1>3, <1>4, <1>5, <1>6, <1>7 DEF Next

\* The invariant holds in every reachable state.
LEMMA Invariant == ASSUME MaxTime + Interval < IntLimit PROVE Spec => []IInv
<1>1. IInv /\ [Next]_vars => IInv'
  BY StepInv
<1>. QED
  BY <1>1, InitInv, PTL DEF Spec

(***************************************************************************)
(* The theorems.                                                           *)
(***************************************************************************)
\* As long as the clock fits the int that a timer keeps of it, every timer of the
\* daemon is called at most once, not before its time and not in the pass it was set
\* in, and leaves the map only when it was called or removed (netdaemon.cpp:396-434),
\* whatever callbacks and queries set and remove meanwhile.
THEOREM CalledOnceCorrect ==
  ASSUME MaxTime + Interval < IntLimit PROVE Spec => []CalledOnce
<1>1. IInv => CalledOnce
  BY DEF IInv, TimersInv, PassRight, MapRight, CallsRight, CalledOnce
<1>. QED
  BY <1>1, Invariant, PTL

\* Under the same condition every active query of the resolver has a timer that runs
\* AsyncDNS::timer by its deadline (asyncdns.cpp:56-89), however answers, queries
\* from callbacks and late passes come together.
THEOREM WatchedCorrect ==
  ASSUME MaxTime + Interval < IntLimit PROVE Spec => []Watched
<1>1. IInv => Watched
  BY DEF IInv
<1>. QED
  BY <1>1, Invariant, PTL
=============================================================================
