------------------------------- MODULE Timers -------------------------------
(***************************************************************************)
(* The one-shot timers of NetDaemon: setTimer / callAt, removeTimer and    *)
(* processTimers (netdaemon.cpp:396-434).  A pass over the map is a series *)
(* of steps, because each callback runs in the middle of it and may set    *)
(* and remove timers.  AsyncDNS composes this module with its callers.     *)
(***************************************************************************)
EXTENDS Integers, FiniteSets, Functions

CONSTANTS
  MaxTimer,    \* bound: timers set in a run
  MaxTime,     \* bound: the clock, in seconds since the start of the run
  Start,       \* the clock at the start
  IntLimit     \* 2^31: timer::expires is an int, time_t is wider

ASSUME TimersAssumption ==
  /\ MaxTimer \in Nat /\ MaxTime \in Nat /\ Start \in 0..MaxTime
  /\ IntLimit \in Nat \ {0}

VARIABLES
  now,        \* the clock
  timer_id,   \* the last identifier given
  timers,     \* the map of timers: identifier -> timer
  pass,       \* the pass processTimers is in, or NoPass
  fired,      \* identifier -> how often its callback was called (history)
  removed     \* the timers that removeTimer took away (history)

timerVars == <<now, timer_id, timers, pass, fired, removed>>

Id == 1..MaxTimer

\* calltime is what the caller asked for, expires what the timer keeps of it.
Timer == [calltime : Nat, expires : Int, callback : BOOLEAN]

NoPass == [running |-> FALSE, tv |-> 0, at |-> 0, upto |-> 0,
           in_callback |-> FALSE, to_del |-> {}]

\* The conversion of a time_t to the int member expires, up to twice the limit.
ToInt(t) == IF t < IntLimit THEN t ELSE t - 2 * IntLimit

Tick ==
  /\ now < MaxTime
  /\ now' = now + 1
  /\ UNCHANGED <<timer_id, timers, pass, fired, removed>>

\* callAt, at any moment: from the application, or from a callback in a pass.
CallAt(calltime) ==
  LET id == timer_id + 1
  IN  /\ timer_id < MaxTimer
      /\ timer_id' = id
      /\ timers' = [i \in DOMAIN timers \cup {id} |->
                      IF i = id
                      THEN [calltime |-> calltime, expires |-> ToInt(calltime), callback |-> TRUE]
                      ELSE timers[i]]
      /\ UNCHANGED <<now, pass, fired, removed>>

\* removeTimer.  A callback that removed its own timer would leave the loop with
\* an erased iterator; nothing in the library does.
RemoveTimer(id) ==
  /\ id \in DOMAIN timers
  /\ ~(pass.in_callback /\ id = pass.at)
  /\ timers' = Restrict(timers, DOMAIN timers \ {id})
  /\ removed' = removed \cup {id}
  /\ UNCHANGED <<now, timer_id, pass, fired>>

\* The clock is read once, before the loop.
BeginPass ==
  /\ ~pass.running
  /\ pass' = [NoPass EXCEPT !.running = TRUE, !.tv = now, !.upto = timer_id]
  /\ UNCHANGED <<now, timer_id, timers, fired, removed>>

\* Mutant: the comparison is the wrong way round at the limit.
DueLate == {i \in DOMAIN timers : i > pass.at /\ timers[i].expires > pass.tv}

\* The timers the rest of the loop will call; the map is ordered by identifier,
\* so a timer set by a callback is still ahead of the iterator.
Due == {i \in DOMAIN timers : i > pass.at /\ timers[i].expires <= pass.tv}

\* fire: the callback starts.
Fire ==
  /\ pass.running /\ ~pass.in_callback
  /\ \E id \in Due :
       /\ \A i \in Due : id <= i
       /\ pass' = [pass EXCEPT !.at = id, !.in_callback = TRUE]
       /\ fired' = [fired EXCEPT ![id] = IF timers[id].callback THEN @ + 1 ELSE @]
  /\ UNCHANGED <<now, timer_id, timers, removed>>

\* fire: the callback has returned.
Fired ==
  /\ pass.running /\ pass.in_callback
  /\ timers' = [timers EXCEPT ![pass.at].callback = FALSE]
  /\ pass' = [pass EXCEPT !.in_callback = FALSE, !.to_del = @ \cup {pass.at}]
  /\ UNCHANGED <<now, timer_id, fired, removed>>

\* Mutant: everything the clock has passed is erased, called or not.
EndPassErasesDue ==
  /\ pass.running /\ ~pass.in_callback
  /\ Due = {}
  /\ timers' = Restrict(timers, {i \in DOMAIN timers : timers[i].expires > now})
  /\ pass' = NoPass
  /\ UNCHANGED <<now, timer_id, fired, removed>>

\* After the loop the timers that were called are erased.
EndPass ==
  /\ pass.running /\ ~pass.in_callback
  /\ Due = {}
  /\ timers' = Restrict(timers, DOMAIN timers \ pass.to_del)
  /\ pass' = NoPass
  /\ UNCHANGED <<now, timer_id, fired, removed>>

TimersInit ==
  /\ now = Start
  /\ timer_id = 0
  /\ timers = [i \in {} |-> 0]
  /\ pass = NoPass
  /\ fired = [i \in Id |-> 0]
  /\ removed = {}

(***************************************************************************)
(* Properties.                                                             *)
(***************************************************************************)
\* The type invariant.
TimersTypeOK ==
  /\ now \in Nat
  /\ timer_id \in 0..MaxTimer
  /\ DOMAIN timers \subseteq Id
  /\ \A i \in DOMAIN timers : timers[i] \in Timer
  /\ pass \in [running : BOOLEAN, tv : Nat, at : 0..MaxTimer, upto : 0..MaxTimer,
               in_callback : BOOLEAN, to_del : SUBSET Id]
  /\ fired \in [Id -> 0..1]
  /\ removed \subseteq Id

\* "The function is called once at the given time" (netdaemon.h:343): no timer is
\* called a second time, although it stays in the map until the pass ends and
\* callbacks set and remove timers meanwhile; one that left the map was called or
\* removed, and is not called any more; none is called before its time; and a pass
\* calls only timers that were there when it began, so a callback that sets its own
\* successor (reconnectTimer, AsyncDNS::timer) does not keep the event loop in
\* processTimers.
CalledOnce ==
  /\ TimersTypeOK
  /\ \A i \in Id : /\ i > timer_id => fired[i] = 0
                   /\ i \in DOMAIN timers /\ timers[i].callback
                      /\ ~(pass.in_callback /\ pass.at = i) => fired[i] = 0
                   /\ i \in 1..timer_id \ DOMAIN timers => fired[i] = 1 \/ i \in removed
  /\ pass.in_callback => timers[pass.at].calltime <= now /\ pass.at <= pass.upto

\* A timer that is set is called, unless it is removed first or the run ends before.
CalledOrRemoved ==
  \A i \in Id :
    i \in DOMAIN timers /\ timers[i].calltime <= MaxTime ~> fired[i] = 1 \/ i \in removed
=============================================================================
