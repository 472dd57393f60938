------------------------------ MODULE AsyncDNS ------------------------------
(***************************************************************************)
(* The resolver (asyncdns.cpp) on the timers of the daemon: every query    *)
(* starts a chain of timers, in which each callback asks udns what has     *)
(* expired and sets the next timer.  The application sets and removes      *)
(* timers of its own meanwhile, and asks again at any time.  The udns      *)
(* library is external: it sends a query a number of times before it fails, *)
(* and calls nobody but the query's callback.                              *)
(***************************************************************************)
EXTENDS Timers

CONSTANTS
  Query,       \* the queries the application may make
  Sends,       \* how often udns sends a query
  Interval,    \* the seconds udns waits for an answer, at least one
  Delays,      \* how far ahead of the clock the application sets timers, in seconds
  MaxApp,      \* bound: timers of the application in a run
  MaxSubmit    \* bound: submissions in a run

ASSUME AsyncDNSAssumption ==
  /\ Sends \in Nat \ {0} /\ Interval \in Nat \ {0}
  /\ Delays \subseteq Nat \ {0}
  /\ MaxApp \in Nat /\ MaxSubmit \in Nat

VARIABLES
  queries,      \* the active queries: query -> [deadline, left]
  submitted,    \* the number of submissions
  dns_timers,   \* the timers that will run AsyncDNS::timer
  app_timers,   \* the timers of the application
  terminated    \* whether onTerminate was called

dnsVars == <<queries, submitted, dns_timers, app_timers, terminated>>
vars == <<timerVars, dnsVars>>

Active == DOMAIN queries

\* There is one thread: while processTimers runs, only a callback makes calls.
Calling == pass.running => pass.in_callback

(***************************************************************************)
(* udns (external).                                                        *)
(***************************************************************************)
\* dns_timeouts: what has expired by tv is sent again, or fails and calls back.
Timeouts(qs, tv) ==
  [q \in {i \in DOMAIN qs : qs[i].deadline > tv \/ qs[i].left > 0} |->
     IF qs[q].deadline > tv THEN qs[q]
     ELSE [deadline |-> tv + Interval, left |-> qs[q].left - 1]]

\* A query that was submitted waits for dns_timeouts to send it.
Submitted(q) ==
  [i \in Active \cup {q} |-> IF i = q THEN [deadline |-> 0, left |-> Sends] ELSE queries[i]]

(***************************************************************************)
(* AsyncDNS.                                                               *)
(***************************************************************************)
\* Mutant: the next timer is set only when this one had nothing to do.
TimerStopsChain(qs, tv, others) ==
  /\ queries' = Timeouts(qs, tv)
  /\ \/ /\ queries' # qs
        /\ dns_timers' = others /\ UNCHANGED timerVars
     \/ \E q \in DOMAIN queries' :
          /\ queries' = qs /\ CallAt(queries'[q].deadline)
          /\ dns_timers' = others \cup {timer_id'}

\* Mutant: the next timer comes with the last deadline, not with the first.
TimerLate(qs, tv, others) ==
  /\ queries' = Timeouts(qs, tv)
  /\ \/ /\ DOMAIN queries' = {}
        /\ dns_timers' = others /\ UNCHANGED timerVars
     \/ \E last \in DOMAIN queries' :
          /\ \A q \in DOMAIN queries' : queries'[q].deadline <= queries'[last].deadline
          /\ CallAt(queries'[last].deadline)
          /\ dns_timers' = others \cup {timer_id'}

\* timer: expires + now is the deadline that comes first.  The callbacks of queries
\* that fail in dns_timeouts may submit others, which Submit does right after.
DnsTimer(qs, tv, others) ==
  /\ queries' = Timeouts(qs, tv)
  /\ \/ /\ DOMAIN queries' = {}
        /\ dns_timers' = others /\ UNCHANGED timerVars
     \/ \E first \in DOMAIN queries' :
          /\ \A q \in DOMAIN queries' : queries'[first].deadline <= queries'[q].deadline
          /\ CallAt(queries'[first].deadline)
          /\ dns_timers' = others \cup {timer_id'}

\* a4 and srv, called from anywhere: the clock is read anew.
Submit(q) ==
  /\ Calling /\ ~terminated
  /\ q \notin Active /\ submitted < MaxSubmit
  /\ submitted' = submitted + 1
  /\ DnsTimer(Submitted(q), now, dns_timers)
  /\ UNCHANGED <<app_timers, terminated>>

\* The callback of processTimers is AsyncDNS::timer, with the clock of the pass.
RunDnsTimer ==
  /\ pass.in_callback /\ pass.at \in dns_timers
  /\ DnsTimer(queries, pass.tv, dns_timers \ {pass.at})
  /\ UNCHANGED <<submitted, app_timers, terminated>>

\* onEvent: an answer ends its query, or a refusal sends it to the next server.
OnEvent(q) ==
  /\ q \in Active /\ ~pass.running
  /\ \/ queries' = Restrict(queries, Active \ {q})
     \/ /\ queries[q].left > 0
        /\ queries' = [queries EXCEPT ![q] = [deadline |-> now + Interval, left |-> @.left - 1]]
  /\ UNCHANGED <<timerVars, submitted, dns_timers, app_timers, terminated>>

\* onTerminate: dns_reset drops the queries without a call; the timers stay.
OnTerminate ==
  /\ ~terminated /\ Calling
  /\ terminated' = TRUE
  /\ queries' = [q \in {} |-> 0]
  /\ UNCHANGED <<timerVars, submitted, dns_timers, app_timers>>

(***************************************************************************)
(* The application.                                                        *)
(***************************************************************************)
SetTimer(d) ==
  /\ Calling /\ Cardinality(app_timers) < MaxApp
  /\ now + d <= MaxTime
  /\ CallAt(now + d)
  /\ app_timers' = app_timers \cup {timer_id'}
  /\ UNCHANGED <<queries, submitted, dns_timers, terminated>>

\* Nobody has the identifiers of the resolver's timers.
RemoveAppTimer(id) ==
  /\ Calling /\ id \in app_timers
  /\ RemoveTimer(id)
  /\ UNCHANGED dnsVars

Init ==
  /\ TimersInit
  /\ queries = [q \in {} |-> 0]
  /\ submitted = 0 /\ dns_timers = {} /\ app_timers = {} /\ terminated = FALSE

\* A callback returns when it has done its work.
Return == pass.at \notin dns_timers /\ Fired

Next ==
  \/ Tick /\ UNCHANGED dnsVars
  \/ BeginPass /\ UNCHANGED dnsVars
  \/ Fire /\ UNCHANGED dnsVars
  \/ Return /\ UNCHANGED dnsVars
  \/ EndPass /\ UNCHANGED dnsVars
  \/ RunDnsTimer
  \/ OnTerminate
  \/ \E q \in Query : Submit(q) \/ OnEvent(q)
  \/ \E d \in Delays : SetTimer(d)
  \/ \E id \in Id : RemoveAppTimer(id)

\* run() starts a pass whenever the clock has moved (it looks at hundredths of a
\* second, so there is always a later pass), and goes on with the one it is in.
Fairness ==
  /\ WF_vars(Tick /\ UNCHANGED dnsVars)
  /\ WF_vars(BeginPass /\ UNCHANGED dnsVars)
  /\ WF_vars(RunDnsTimer \/ ((Fire \/ Return \/ EndPass) /\ UNCHANGED dnsVars))

Spec == Init /\ [][Next]_vars
FairSpec == Spec /\ Fairness

(***************************************************************************)
(* Properties.                                                             *)
(***************************************************************************)
\* While a query is active a timer that runs AsyncDNS::timer is set, and for no
\* later than the query's deadline: neither an answer, a query made meanwhile nor a
\* timer that came late breaks all the chains or leaves a query to a later one.
Watched ==
  \A q \in Active : \E i \in dns_timers \cap DOMAIN timers :
    timers[i].callback /\ timers[i].calltime <= queries[q].deadline

\* A query is answered, or fails after the last time it was sent, unless the resolver
\* is terminated; nobody's callback is waited for in vain.
Answered ==
  \A q \in Query :
    q \in Active ~> q \notin Active \/ queries[q].deadline > MaxTime
=============================================================================
