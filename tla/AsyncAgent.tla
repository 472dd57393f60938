----------------------------- MODULE AsyncAgent -----------------------------
(***************************************************************************)
(* The connections of the AsyncAgents of a process (asyncagent.cpp;        *)
(* ControlAgent has the same code and resets its parser on top): resolve,  *)
(* connect, notice that the peer is gone, wait two seconds, start again.   *)
(* The steps are driven by three outside parties in any order: the         *)
(* resolver (asyncdns.cpp), the timers and the sockets; the application    *)
(* starts an agent and may do so again while it is at work.  The agents    *)
(* share the descriptors of the process.                                   *)
(***************************************************************************)
EXTENDS Integers, FiniteSets

CONSTANTS
  Agent,
  MaxSocket,      \* the descriptors the process may have
  MaxStart,       \* bound: calls of startConnection for one agent by the application
  SubmitMayFail   \* whether dns_submit_a4 may refuse a query

ASSUME AgentAssumption ==
  /\ MaxSocket \in Nat \ {0}
  /\ MaxStart \in Nat
  /\ SubmitMayFail \in BOOLEAN

VARIABLES
  connection_state,
  reconnecting,   \* "the reconnect timer is set"
  fd,             \* AsyncObject::fd
  enabled,        \* fd is in the daemon's table and in epoll
  linked,         \* the socket at fd is connected
  open,           \* the open sockets of the process
  queries,        \* DNS queries without an answer
  timers,         \* reconnect timers set and not called
  starts,         \* calls by the application (bound)
  told            \* onRemoteHostConnected was called, ...Disconnected not yet

vars == <<connection_state, reconnecting, fd, enabled, linked, open, queries,
          timers, starts, told>>

Socket == 1..MaxSocket

Set(var, a, value) == [var EXCEPT ![a] = value]

\* Mutant: the flag is not set.
ReconnectUnflagged(a, t) ==
  /\ timers' = Set(timers, a, t + 1)
  /\ UNCHANGED reconnecting

\* reconnect() sets its flag and the timer, with t timers set before.
SetTimer(a, t) ==
  /\ timers' = Set(timers, a, t + 1)
  /\ reconnecting' = Set(reconnecting, a, TRUE)

\* Mutant: the old socket is only forgotten.
CloseForgets(a) ==
  /\ fd' = Set(fd, a, -1)
  /\ enabled' = Set(enabled, a, FALSE)
  /\ linked' = Set(linked, a, FALSE)
  /\ UNCHANGED open

\* Mutant: the number of the closed socket stays in the object.
CloseKeepsFd(a) ==
  /\ open' = open \ {fd[a]}
  /\ enabled' = Set(enabled, a, FALSE)
  /\ linked' = Set(linked, a, FALSE)
  /\ UNCHANGED fd

\* AsyncStream::close.
Close(a) ==
  /\ open' = open \ {fd[a]}
  /\ fd' = Set(fd, a, -1)
  /\ enabled' = Set(enabled, a, FALSE)
  /\ linked' = Set(linked, a, FALSE)

\* disableObject: no more events, the socket stays.
Disable(a) ==
  /\ enabled' = Set(enabled, a, FALSE)
  /\ UNCHANGED <<fd, linked, open>>

\* reconnect() of an agent in the state st with t timers set: unless it is under
\* way, tell the application of a lost connection, close the socket and set the
\* timer.  Its callers disable the object in any case.
Reconnect(a, st, t, underway) ==
  IF underway
  THEN /\ Disable(a)
       /\ connection_state' = Set(connection_state, a, st)
       /\ timers' = Set(timers, a, t)
       /\ UNCHANGED <<reconnecting, told>>
  ELSE /\ told' = Set(told, a, told[a] /\ st # "CONNECTED")
       /\ connection_state' = Set(connection_state, a, "RECONNECTING")
       /\ Close(a)
       /\ SetTimer(a, t)

\* startConnection makes a socket, the lowest that is free, and setFd takes the
\* object away from the old one, which nobody closes; then the query goes out,
\* and its answer, FALSE if it was refused, is not looked at.
OpenAndResolve(a) ==
  /\ \E s \in Socket \ open :
       /\ 1..(s - 1) \subseteq open
       /\ open' = open \cup {s}
       /\ fd' = Set(fd, a, s)
  /\ enabled' = Set(enabled, a, FALSE)
  /\ linked' = Set(linked, a, FALSE)
  /\ connection_state' = Set(connection_state, a, "RESOLVING")
  /\ queries' \in {Set(queries, a, queries[a] + 1)} \cup (IF SubmitMayFail THEN {queries} ELSE {})
  /\ UNCHANGED told

\* The application calls startConnection; it may find no socket.
Start(a) ==
  /\ starts[a] < MaxStart
  /\ starts' = Set(starts, a, starts[a] + 1)
  /\ OpenAndResolve(a)
  /\ UNCHANGED <<reconnecting, timers>>

\* startConnection finds no socket; disableObject is not called here, and when a
\* reconnect is under way nothing happens.
StartFails(a) ==
  /\ starts[a] < MaxStart
  /\ ~reconnecting[a]
  /\ starts' = Set(starts, a, starts[a] + 1)
  /\ Reconnect(a, connection_state[a], timers[a], FALSE)
  /\ UNCHANGED queries

\* Mutant: the flag stays up.
TimerKeepsFlag(a) ==
  /\ timers[a] > 0
  /\ timers' = Set(timers, a, timers[a] - 1)
  /\ OpenAndResolve(a)
  /\ UNCHANGED <<reconnecting, starts>>

\* reconnectTimer: the flag goes down, startConnection makes a socket ...
TimerStarts(a) ==
  /\ timers[a] > 0
  /\ timers' = Set(timers, a, timers[a] - 1)
  /\ reconnecting' = Set(reconnecting, a, FALSE)
  /\ OpenAndResolve(a)
  /\ UNCHANGED starts

\* ... or finds none, and reconnect sets the next timer.
TimerRetries(a) ==
  /\ timers[a] > 0
  /\ Reconnect(a, connection_state[a], timers[a] - 1, FALSE)
  /\ UNCHANGED <<queries, starts>>

\* on_connect_a4 when enableObject works and so does connect, which it does only
\* once on a socket (EISCONN); with no address in the answer the host name is
\* taken for one.
AnswerConnects(a) ==
  /\ queries[a] > 0
  /\ queries' = Set(queries, a, queries[a] - 1)
  /\ fd[a] # -1 /\ ~linked[a]
  /\ enabled' = Set(enabled, a, TRUE)
  /\ linked' = Set(linked, a, TRUE)
  /\ connection_state' = Set(connection_state, a, "CONNECTED")
  /\ told' = Set(told, a, TRUE)
  /\ UNCHANGED <<reconnecting, fd, open, timers, starts>>

\* Mutant: a failed connect leaves the retry to an event.
AnswerGivesUp(a) ==
  /\ queries[a] > 0
  /\ queries' = Set(queries, a, queries[a] - 1)
  /\ Disable(a)
  /\ UNCHANGED <<connection_state, reconnecting, timers, starts, told>>

\* on_connect_a4 when enableObject or connect fails: reconnect, and disableObject
\* where enableObject had worked.  If the answer has an address the state is
\* CONNECTING by then, so a connection that was up is not reported as lost.
AnswerFails(a) ==
  /\ queries[a] > 0
  /\ queries' = Set(queries, a, queries[a] - 1)
  /\ \E st \in {"CONNECTING", connection_state[a]} :
       Reconnect(a, st, timers[a], reconnecting[a])
  /\ UNCHANGED starts

\* Mutant: the loss is not reported when the timer is set.
PeerGoneUntold(a) ==
  /\ enabled[a]
  /\ Reconnect(a, "CONNECTING", timers[a], reconnecting[a])
  /\ UNCHANGED <<queries, starts>>

\* onPeerDown and onAsyncError: disableObject, reconnect.
PeerGone(a) ==
  /\ enabled[a]
  /\ Reconnect(a, connection_state[a], timers[a], reconnecting[a])
  /\ UNCHANGED <<queries, starts>>

Init ==
  /\ connection_state = [a \in Agent |-> "NOT_CONNECTED"]
  /\ reconnecting = [a \in Agent |-> FALSE]
  /\ fd = [a \in Agent |-> -1]
  /\ enabled = [a \in Agent |-> FALSE]
  /\ linked = [a \in Agent |-> FALSE]
  /\ open = {}
  /\ queries = [a \in Agent |-> 0]
  /\ timers = [a \in Agent |-> 0]
  /\ starts = [a \in Agent |-> 0]
  /\ told = [a \in Agent |-> FALSE]

Step(a) ==
  \/ Start(a) \/ StartFails(a)
  \/ TimerStarts(a) \/ TimerRetries(a)
  \/ AnswerConnects(a) \/ AnswerFails(a)
  \/ PeerGone(a)

Next == \E a \in Agent : Step(a)

\* A timer that is set is called (Timers!CalledOrRemoved) and a query is answered
\* (udns times it out).  The remote host is up and there are descriptors often
\* enough: a socket can be made and a connect works again and again.
Fairness ==
  \A a \in Agent :
    /\ SF_vars(TimerStarts(a))
    /\ WF_vars(AnswerConnects(a) \/ AnswerFails(a))
    /\ SF_vars(AnswerConnects(a))

Spec == Init /\ [][Next]_vars
FairSpec == Spec /\ Fairness

(***************************************************************************)
(* Properties.                                                             *)
(***************************************************************************)
States == {"NOT_CONNECTED", "RESOLVING", "CONNECTING", "CONNECTED", "RECONNECTING"}

\* The type invariant.
TypeOK ==
  /\ connection_state \in [Agent -> States]
  /\ reconnecting \in [Agent -> BOOLEAN]
  /\ fd \in [Agent -> {-1} \cup Socket]
  /\ enabled \in [Agent -> BOOLEAN]
  /\ linked \in [Agent -> BOOLEAN]
  /\ open \subseteq Socket
  /\ queries \in [Agent -> Nat]
  /\ timers \in [Agent -> 0..1]
  /\ starts \in [Agent -> 0..MaxStart]
  /\ told \in [Agent -> BOOLEAN]

\* "true: we have already set the reconnect timer" (asyncagent.h:43-46): however
\* errors, answers and further starts come together, there is never a second
\* timer, nor a flag without its timer, which would end all reconnecting.
FlagIsTimer == \A a \in Agent : timers[a] = IF reconnecting[a] THEN 1 ELSE 0

\* No two agents use one socket, and the socket an agent uses is open: the number
\* of a closed one goes to the next agent at once, and the old owner must not
\* have it any more.
OwnSocket ==
  \A a, b \in Agent : fd[a] # -1 => fd[a] \in open /\ (a # b => fd[a] # fd[b])

\* A started agent always has something to wake it: a timer, a query, or a socket
\* that the daemon watches.
NeverForgotten ==
  \A a \in Agent : connection_state[a] # "NOT_CONNECTED" =>
    timers[a] > 0 \/ queries[a] > 0 \/ enabled[a]

\* Started once, an agent does one thing at a time: it waits for the timer, or
\* for the resolver, or for its socket.
OneThingAtATime ==
  \A a \in Agent : starts[a] <= 1 =>
    timers[a] + queries[a] + (IF enabled[a] THEN 1 ELSE 0)
      = IF connection_state[a] = "NOT_CONNECTED" THEN 0 ELSE 1

\* An agent at work is always woken again, and by one thing at a time, unless it
\* was started again.
WokenOnce == TypeOK /\ NeverForgotten /\ OneThingAtATime

\* The application is told of each connection and of its loss in turn: it was
\* told of the connection that is up, and of none when none is up; and then the
\* socket is connected and watched.  (An agent that is started again while it
\* is connected forgets the connection without a word.)
ToldTruth ==
  \A a \in Agent : starts[a] <= 1 =>
    /\ told[a] <=> connection_state[a] = "CONNECTED"
    /\ told[a] => fd[a] # -1 /\ linked[a] /\ enabled[a]

\* The open sockets that no agent uses any more.
Lost == open \ {fd[a] : a \in Agent}

\* No reconnect leaves a socket behind ("close the old socket", asyncagent.cpp:157),
\* however often it happens: each call of startConnection after the first may
\* lose one, the one it finds in the object, and nothing else does.  So each
\* lost socket can be charged to an agent, none of them as many as its starts.
NoSocketLeak ==
  \E charged \in [Lost -> Agent] :
    \A a \in Agent :
      LET charge == Cardinality({s \in Lost : charged[s] = a})
      IN  charge = 0 \/ charge < starts[a]

\* A started agent gets its connection, again after each loss.
Connects ==
  \A a \in Agent :
    connection_state[a] # "NOT_CONNECTED" ~> connection_state[a] = "CONNECTED"
=============================================================================
