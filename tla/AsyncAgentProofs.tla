-------------------------- MODULE AsyncAgentProofs ---------------------------
(***************************************************************************)
(* Theorems about AsyncAgent, for any agents, descriptors and number of    *)
(* starts: the reconnect flag is the reconnect timer, no two agents ever   *)
(* share a socket, an agent at work is woken again and by one thing at a   *)
(* time, the application is told the truth about its connection, and       *)
(* reconnecting loses no socket.                                           *)
(***************************************************************************)
EXTENDS AsyncAgent, FiniteSetTheorems, TLAPS

(***************************************************************************)
(* The invariant: the types, the flag and the sockets.                     *)
(***************************************************************************)
IInv == TypeOK /\ FlagIsTimer /\ OwnSocket

\* Every socket in use is one of the process's.
LEMMA SocketType == Socket \subseteq Nat \ {0} /\ -1 \notin Socket
BY AgentAssumption DEF Socket

\* The initial states satisfy the invariant.
LEMMA InitInv == Init => IInv
<1>. SUFFICES ASSUME Init PROVE IInv
  OBVIOUS
<1>1. TypeOK
  BY AgentAssumption DEF Init, TypeOK, States
<1>2. FlagIsTimer
  BY DEF Init, FlagIsTimer
<1>3. OwnSocket
  BY DEF Init, OwnSocket
<1>. QED
  BY <1>1, <1>2, <1>3 DEF IInv

\* Closing the socket of an agent keeps the sockets of the others apart and open.
LEMMA CloseKeeps ==
  ASSUME IInv, NEW a \in Agent, Close(a)
  PROVE  /\ fd' \in [Agent -> {-1} \cup Socket]
         /\ enabled' \in [Agent -> BOOLEAN]
         /\ linked' \in [Agent -> BOOLEAN]
         /\ open' \subseteq Socket
         /\ OwnSocket'
<1>1. /\ fd' \in [Agent -> {-1} \cup Socket]
      /\ enabled' \in [Agent -> BOOLEAN]
      /\ linked' \in [Agent -> BOOLEAN]
      /\ open' \subseteq Socket
  BY DEF IInv, TypeOK, Close, Set
<1>2. OwnSocket'
  BY DEF IInv, TypeOK, OwnSocket, Close, Set
<1>. QED
  BY <1>1, <1>2

\* reconnect() sets the flag and the timer together, or leaves both alone; t is
\* the number of timers that were set when it was called.
LEMMA ReconnectKeeps ==
  ASSUME IInv, NEW a \in Agent, NEW st \in States, NEW underway \in BOOLEAN,
         NEW t \in 0..1,
         underway => t = timers[a] /\ reconnecting[a],
         ~underway => t = 0,
         Reconnect(a, st, t, underway),
         queries' \in [Agent -> Nat], starts' \in [Agent -> 0..MaxStart]
  PROVE  IInv'
<1>1. CASE underway
  <2>1. TypeOK'
    <3>1. /\ enabled' = [enabled EXCEPT ![a] = FALSE]
          /\ connection_state' = [connection_state EXCEPT ![a] = st]
          /\ timers' = [timers EXCEPT ![a] = t]
          /\ UNCHANGED <<fd, linked, open, reconnecting, told>>
      BY <1>1 DEF Reconnect, Disable, Set
    <3>2. /\ enabled' \in [Agent -> BOOLEAN] /\ connection_state' \in [Agent -> States]
          /\ timers' \in [Agent -> 0..1]
      BY <3>1 DEF IInv, TypeOK
    <3>. QED
      BY <3>1, <3>2 DEF IInv, TypeOK
  <2>2. FlagIsTimer'
    BY <1>1 DEF IInv, TypeOK, FlagIsTimer, Reconnect, Set
  <2>3. OwnSocket'
    BY <1>1 DEF IInv, OwnSocket, Reconnect, Disable
  <2>. QED
    BY <2>1, <2>2, <2>3 DEF IInv
<1>2. CASE ~underway
  <2>1. /\ fd' \in [Agent -> {-1} \cup Socket]
        /\ enabled' \in [Agent -> BOOLEAN]
        /\ linked' \in [Agent -> BOOLEAN]
        /\ open' \subseteq Socket
        /\ OwnSocket'
    BY <1>2, CloseKeeps DEF Reconnect
  <2>2. /\ connection_state' = [connection_state EXCEPT ![a] = "RECONNECTING"]
        /\ reconnecting' = [reconnecting EXCEPT ![a] = TRUE]
        /\ timers' = [timers EXCEPT ![a] = 1]
        /\ told' = [told EXCEPT ![a] = told[a] /\ st # "CONNECTED"]
    BY <1>2 DEF Reconnect, SetTimer, Set
  <2>4. connection_state' \in [Agent -> States] /\ timers' \in [Agent -> 0..1]
    BY <2>2 DEF IInv, TypeOK, States
  <2>5. reconnecting' \in [Agent -> BOOLEAN]
    BY <2>2 DEF IInv, TypeOK
  <2>6. told' \in [Agent -> BOOLEAN]
    <3>1. told \in [Agent -> BOOLEAN] /\ (told[a] /\ st # "CONNECTED") \in BOOLEAN
      BY DEF IInv, TypeOK
    <3>. QED
      BY <2>2, <3>1, Zenon
  <2>3. FlagIsTimer'
    BY <2>2 DEF IInv, TypeOK, FlagIsTimer
  <2>. QED
    BY <2>1, <2>3, <2>4, <2>5, <2>6 DEF IInv, TypeOK
<1>. QED
  BY <1>1, <1>2

\* A new socket is one nobody has: startConnection keeps the sockets apart.
LEMMA OpenKeeps ==
  ASSUME IInv, NEW a \in Agent, OpenAndResolve(a)
  PROVE  /\ connection_state' \in [Agent -> States]
         /\ fd' \in [Agent -> {-1} \cup Socket]
         /\ enabled' \in [Agent -> BOOLEAN]
         /\ linked' \in [Agent -> BOOLEAN]
         /\ open' \subseteq Socket
         /\ queries' \in [Agent -> Nat]
         /\ told' \in [Agent -> BOOLEAN]
         /\ OwnSocket'
<1>1. PICK s \in Socket \ open : open' = open \cup {s} /\ fd' = [fd EXCEPT ![a] = s]
  BY DEF OpenAndResolve, Set
<1>2. fd' \in [Agent -> {-1} \cup Socket] /\ open' \subseteq Socket
  BY <1>1 DEF IInv, TypeOK
<1>3. OwnSocket'
  BY <1>1 DEF IInv, TypeOK, OwnSocket
<1>4. /\ connection_state' \in [Agent -> States]
      /\ enabled' \in [Agent -> BOOLEAN]
      /\ linked' \in [Agent -> BOOLEAN]
      /\ told' \in [Agent -> BOOLEAN]
  BY DEF IInv, TypeOK, OpenAndResolve, Set, States
<1>5. queries' \in [Agent -> Nat]
  BY DEF IInv, TypeOK, OpenAndResolve, Set
<1>. QED
  BY <1>2, <1>3, <1>4, <1>5

(***************************************************************************)
(* One lemma per action.                                                   *)
(***************************************************************************)
\* startConnection by the application touches neither the flag nor the timers.
LEMMA StartInv == ASSUME IInv, NEW a \in Agent, Start(a) PROVE IInv'
<1>1. FlagIsTimer'
  BY DEF IInv, FlagIsTimer, Start
<1>2. starts' \in [Agent -> 0..MaxStart]
  BY AgentAssumption DEF IInv, TypeOK, Start, Set
<1>. QED
  BY <1>1, <1>2, OpenKeeps DEF IInv, TypeOK, Start

\* startConnection without a socket sets the timer only when none is set.
LEMMA StartFailsInv == ASSUME IInv, NEW a \in Agent, StartFails(a) PROVE IInv'
<1>1. starts' \in [Agent -> 0..MaxStart] /\ queries' \in [Agent -> Nat]
  BY AgentAssumption DEF IInv, TypeOK, StartFails, Set
<1>2. connection_state[a] \in States /\ timers[a] = 0
  BY DEF IInv, TypeOK, FlagIsTimer, StartFails
<1>3. Reconnect(a, connection_state[a], 0, FALSE)
  BY <1>2 DEF StartFails
<1>4. 0 \in 0..1 /\ FALSE \in BOOLEAN
  OBVIOUS
<1>. QED
  BY <1>1, <1>2, <1>3, <1>4, ReconnectKeeps, Zenon

\* reconnectTimer uses up the timer and takes the flag down.
LEMMA TimerStartsInv == ASSUME IInv, NEW a \in Agent, TimerStarts(a) PROVE IInv'
<1>1. /\ FlagIsTimer'
      /\ timers' \in [Agent -> 0..1]
      /\ reconnecting' \in [Agent -> BOOLEAN]
  BY DEF IInv, TypeOK, FlagIsTimer, TimerStarts, Set
<1>. QED
  BY <1>1, OpenKeeps DEF IInv, TypeOK, TimerStarts

\* reconnectTimer without a socket sets the next timer in the place of the last.
LEMMA TimerRetriesInv == ASSUME IInv, NEW a \in Agent, TimerRetries(a) PROVE IInv'
<1>1. starts' \in [Agent -> 0..MaxStart] /\ queries' \in [Agent -> Nat]
  BY DEF IInv, TypeOK, TimerRetries
<1>2. connection_state[a] \in States /\ timers[a] - 1 = 0
  BY DEF IInv, TypeOK, TimerRetries
<1>3. Reconnect(a, connection_state[a], 0, FALSE)
  BY <1>2 DEF TimerRetries
<1>4. 0 \in 0..1 /\ FALSE \in BOOLEAN
  OBVIOUS
<1>. QED
  BY <1>1, <1>2, <1>3, <1>4, ReconnectKeeps, Zenon

\* An answer that connects changes neither the flag, nor the timers, nor a socket.
LEMMA AnswerConnectsInv == ASSUME IInv, NEW a \in Agent, AnswerConnects(a) PROVE IInv'
<1>1. TypeOK'
  BY DEF IInv, TypeOK, AnswerConnects, Set, States
<1>2. FlagIsTimer' /\ OwnSocket'
  BY DEF IInv, FlagIsTimer, OwnSocket, AnswerConnects
<1>. QED
  BY <1>1, <1>2 DEF IInv

\* An answer that fails sets the timer unless it is set.
LEMMA AnswerFailsInv == ASSUME IInv, NEW a \in Agent, AnswerFails(a) PROVE IInv'
<1>1. PICK st \in {"CONNECTING", connection_state[a]} :
        Reconnect(a, st, timers[a], reconnecting[a])
  BY DEF AnswerFails
<1>2. starts' \in [Agent -> 0..MaxStart] /\ queries' \in [Agent -> Nat]
  BY DEF IInv, TypeOK, AnswerFails, Set
<1>3. st \in States /\ timers[a] \in 0..1 /\ reconnecting[a] \in BOOLEAN
  BY DEF IInv, TypeOK, States
<1>4. ~reconnecting[a] => timers[a] = 0
  BY DEF IInv, FlagIsTimer
<1>. QED
  BY <1>1, <1>2, <1>3, <1>4, ReconnectKeeps

\* A lost peer sets the timer unless it is set.
LEMMA PeerGoneInv == ASSUME IInv, NEW a \in Agent, PeerGone(a) PROVE IInv'
<1>1. starts' \in [Agent -> 0..MaxStart] /\ queries' \in [Agent -> Nat]
  BY DEF IInv, TypeOK, PeerGone
<1>2. connection_state[a] \in States /\ timers[a] \in 0..1 /\ reconnecting[a] \in BOOLEAN
  BY DEF IInv, TypeOK
<1>3. ~reconnecting[a] => timers[a] = 0
  BY DEF IInv, FlagIsTimer
<1>. QED
  BY <1>1, <1>2, <1>3, ReconnectKeeps DEF PeerGone

\* Every step preserves the invariant.
LEMMA StepInv == IInv /\ [Next]_vars => IInv'
<1>. SUFFICES ASSUME IInv, [Next]_vars PROVE IInv'
  OBVIOUS
<1>1. ASSUME NEW a \in Agent, Step(a) PROVE IInv'
  BY <1>1, StartInv, StartFailsInv, TimerStartsInv, TimerRetriesInv,
     AnswerConnectsInv, AnswerFailsInv, PeerGoneInv DEF Step
<1>2. CASE UNCHANGED vars
  BY <1>2 DEF vars, IInv, TypeOK, FlagIsTimer, OwnSocket
<1>. QED
  BY <1>1, <1>2 DEF Next

\* The invariant holds in every reachable state.
LEMMA Invariant == Spec => []IInv
BY InitInv, StepInv, PTL DEF Spec

(***************************************************************************)
(* What can wake an agent, and what the application was told.              *)
(***************************************************************************)
One(b) == IF b THEN 1 ELSE 0

\* The timer, the queries and the watched socket of an agent.
Awake(a) == timers[a] + queries[a] + One(enabled[a])

\* The part of the second invariant that speaks of one agent.  An agent that was
\* never started has nothing under way; started once it has at most one thing, and
\* one unless a query may be refused; only a timer takes the place of its socket.
AgentInv(a) ==
  /\ starts[a] = 0 <=> connection_state[a] = "NOT_CONNECTED"
  /\ starts[a] = 0 => timers[a] = 0 /\ queries[a] = 0 /\ ~enabled[a]
  /\ starts[a] <= 1 => Awake(a) <= 1
  /\ ~SubmitMayFail /\ starts[a] > 0 => Awake(a) > 0
  /\ starts[a] <= 1 => /\ told[a] <=> connection_state[a] = "CONNECTED"
                       /\ told[a] => fd[a] # -1 /\ linked[a] /\ enabled[a]
  /\ starts[a] > 0 => fd[a] # -1 \/ timers[a] = 1

\* Nothing of an agent changes.
Still(b) ==
  /\ connection_state'[b] = connection_state[b] /\ reconnecting'[b] = reconnecting[b]
  /\ fd'[b] = fd[b] /\ enabled'[b] = enabled[b] /\ linked'[b] = linked[b]
  /\ queries'[b] = queries[b] /\ timers'[b] = timers[b] /\ starts'[b] = starts[b]
  /\ told'[b] = told[b]

\* A step of one agent changes nothing of another.
LEMMA Frame ==
  ASSUME IInv, NEW a \in Agent, Step(a), NEW b \in Agent \ {a}
  PROVE  Still(b)
<1>. USE DEF IInv, TypeOK, Still, Set
<1>1. CASE Start(a)
  BY <1>1 DEF Start, OpenAndResolve
<1>2. CASE StartFails(a)
  BY <1>2 DEF StartFails, Reconnect, Close, SetTimer
<1>3. CASE TimerStarts(a)
  BY <1>3 DEF TimerStarts, OpenAndResolve
<1>4. CASE TimerRetries(a)
  BY <1>4 DEF TimerRetries, Reconnect, Close, SetTimer
<1>5. CASE AnswerConnects(a)
  BY <1>5 DEF AnswerConnects
<1>6. CASE AnswerFails(a)
  BY <1>6 DEF AnswerFails, Reconnect, Close, Disable, SetTimer
<1>7. CASE PeerGone(a)
  BY <1>7 DEF PeerGone, Reconnect, Close, Disable, SetTimer
<1>. QED
  BY <1>1, <1>2, <1>3, <1>4, <1>5, <1>6, <1>7 DEF Step

\* The types of the entries of one agent.
LEMMA Types ==
  ASSUME IInv, NEW a \in Agent
  PROVE  /\ connection_state[a] \in States /\ reconnecting[a] \in BOOLEAN
         /\ fd[a] \in {-1} \cup Socket /\ enabled[a] \in BOOLEAN /\ linked[a] \in BOOLEAN
         /\ queries[a] \in Nat /\ timers[a] \in 0..1 /\ starts[a] \in 0..MaxStart /\ starts[a] \in Nat
         /\ told[a] \in BOOLEAN
         /\ timers[a] = IF reconnecting[a] THEN 1 ELSE 0
BY AgentAssumption DEF IInv, TypeOK, FlagIsTimer

\* startConnection: a socket, a query unless it is refused, and nothing watched.
LEMMA OpenEffect ==
  ASSUME IInv, NEW a \in Agent, OpenAndResolve(a)
  PROVE  /\ fd'[a] \in Socket /\ fd'[a] # -1 /\ ~enabled'[a] /\ ~linked'[a]
         /\ connection_state'[a] = "RESOLVING" /\ (told'[a] <=> told[a])
         /\ queries'[a] = queries[a] + 1 \/ (SubmitMayFail /\ queries'[a] = queries[a])
<1>1. PICK s \in Socket : fd' = Set(fd, a, s)
  BY DEF OpenAndResolve
<1>2. fd'[a] = s /\ s # -1
  BY <1>1, SocketType DEF IInv, TypeOK, Set
<1>3. /\ ~enabled'[a] /\ ~linked'[a]
      /\ connection_state'[a] = "RESOLVING" /\ (told'[a] <=> told[a])
  BY DEF IInv, TypeOK, OpenAndResolve, Set
<1>4. queries' = Set(queries, a, queries[a] + 1) \/ (SubmitMayFail /\ queries' = queries)
  BY DEF OpenAndResolve
<1>5. queries'[a] = queries[a] + 1 \/ (SubmitMayFail /\ queries'[a] = queries[a])
  BY <1>4 DEF IInv, TypeOK, Set
<1>. QED
  BY <1>2, <1>3, <1>5

\* reconnect() under way: the object is disabled.
LEMMA UnderwayEffect ==
  ASSUME IInv, NEW a \in Agent, NEW st, NEW t, Reconnect(a, st, t, TRUE)
  PROVE  /\ ~enabled'[a] /\ connection_state'[a] = st /\ timers'[a] = t
         /\ told' = told /\ fd' = fd /\ linked' = linked
BY DEF IInv, TypeOK, Reconnect, Disable, Set

\* reconnect() otherwise: the connection is gone and reported, and the timer set.
LEMMA ReconnectEffect ==
  ASSUME IInv, NEW a \in Agent, NEW st, NEW t, Reconnect(a, st, t, FALSE)
  PROVE  /\ ~enabled'[a] /\ connection_state'[a] = "RECONNECTING" /\ timers'[a] = t + 1
         /\ (told'[a] <=> told[a] /\ st # "CONNECTED") /\ fd'[a] = -1 /\ ~linked'[a]
<1>1. /\ ~enabled'[a] /\ connection_state'[a] = "RECONNECTING" /\ timers'[a] = t + 1
      /\ fd'[a] = -1 /\ ~linked'[a]
  BY DEF IInv, TypeOK, Reconnect, Close, SetTimer, Set
<1>2. told \in [Agent -> BOOLEAN] /\ told' = Set(told, a, told[a] /\ st # "CONNECTED")
  BY DEF IInv, TypeOK, Reconnect
<1>3. (told'[a] <=> told[a] /\ st # "CONNECTED")
  BY <1>2, Zenon DEF Set
<1>. QED
  BY <1>1, <1>3

\* Each action keeps the part of the invariant of its own agent.

\* startConnection by the application: one query more, or it is no longer started once.
LEMMA StartAgent ==
  ASSUME IInv, NEW a \in Agent, AgentInv(a), Start(a)
  PROVE  AgentInv(a)'
<1>1. /\ timers'[a] = timers[a] /\ starts'[a] = starts[a] + 1 /\ OpenAndResolve(a)
  BY DEF Start, IInv, TypeOK, Set
<1>2. starts'[a] <= 1 => starts[a] = 0
  BY <1>1, Types
<1>. QED
  BY <1>1, <1>2, Types, OpenEffect DEF AgentInv, Awake, One

\* No socket: reconnect() closes, and sets the timer.
LEMMA StartFailsAgent ==
  ASSUME IInv, NEW a \in Agent, AgentInv(a), StartFails(a)
  PROVE  AgentInv(a)'
<1>1. /\ Reconnect(a, connection_state[a], timers[a], FALSE)
      /\ ~reconnecting[a] /\ starts'[a] = starts[a] + 1 /\ queries'[a] = queries[a]
  BY DEF StartFails, IInv, TypeOK, Set
<1>2. /\ ~enabled'[a] /\ connection_state'[a] = "RECONNECTING" /\ timers'[a] = timers[a] + 1
      /\ (told'[a] <=> told[a] /\ connection_state[a] # "CONNECTED") /\ fd'[a] = -1
  BY <1>1, ReconnectEffect, Zenon
<1>. QED
  BY <1>1, <1>2, Types DEF AgentInv, Awake, One

\* The timer gives way to a query.
LEMMA TimerStartsAgent ==
  ASSUME IInv, NEW a \in Agent, AgentInv(a), TimerStarts(a)
  PROVE  AgentInv(a)'
<1>1. /\ timers[a] > 0 /\ timers'[a] = timers[a] - 1 /\ starts'[a] = starts[a]
      /\ OpenAndResolve(a)
  BY DEF TimerStarts, IInv, TypeOK, Set
<1>. QED
  BY <1>1, Types, OpenEffect DEF AgentInv, Awake, One

\* The timer gives way to the next.
LEMMA TimerRetriesAgent ==
  ASSUME IInv, NEW a \in Agent, AgentInv(a), TimerRetries(a)
  PROVE  AgentInv(a)'
<1>1. /\ Reconnect(a, connection_state[a], timers[a] - 1, FALSE)
      /\ timers[a] > 0 /\ starts'[a] = starts[a] /\ queries'[a] = queries[a]
  BY DEF TimerRetries
<1>2. /\ ~enabled'[a] /\ connection_state'[a] = "RECONNECTING" /\ timers'[a] = (timers[a] - 1) + 1
      /\ (told'[a] <=> told[a] /\ connection_state[a] # "CONNECTED") /\ fd'[a] = -1
  BY <1>1, ReconnectEffect, Zenon
<1>. QED
  BY <1>1, <1>2, Types DEF AgentInv, Awake, One

\* The query gives way to the watched socket.
LEMMA AnswerConnectsAgent ==
  ASSUME IInv, NEW a \in Agent, AgentInv(a), AnswerConnects(a)
  PROVE  AgentInv(a)'
<1>1. /\ queries[a] > 0 /\ queries'[a] = queries[a] - 1 /\ fd[a] # -1 /\ fd' = fd
      /\ enabled'[a] /\ linked'[a] /\ connection_state'[a] = "CONNECTED" /\ told'[a]
      /\ starts' = starts /\ timers' = timers
  BY DEF AnswerConnects, IInv, TypeOK, Set
<1>. QED
  BY <1>1, Types DEF AgentInv, Awake, One

\* A query answered in vain, or a peer that is gone: here reconnect() may be under
\* way, and then the timer is set.
LEMMA LossAgent ==
  ASSUME IInv, NEW a \in Agent, AgentInv(a), starts[a] > 0,
         NEW st \in {"CONNECTING", connection_state[a]},
         Reconnect(a, st, timers[a], reconnecting[a]), starts'[a] = starts[a],
         \/ queries[a] > 0 /\ queries'[a] = queries[a] - 1
         \/ enabled[a] /\ st = connection_state[a] /\ queries'[a] = queries[a]
  PROVE  AgentInv(a)'
<1>1. CASE reconnecting[a]
  <2>1. Reconnect(a, st, timers[a], TRUE) /\ timers[a] = 1
    BY <1>1, Types
  <2>2. /\ ~enabled'[a] /\ connection_state'[a] = st /\ timers'[a] = 1
        /\ told' = told /\ fd' = fd /\ linked' = linked
    BY <2>1, UnderwayEffect
  <2>3. starts[a] > 1
    BY <2>1, Types DEF AgentInv, Awake, One
  <2>. QED
    BY <2>2, <2>3, Types DEF AgentInv, Awake, One
<1>2. CASE ~reconnecting[a]
  <2>1. Reconnect(a, st, timers[a], FALSE) /\ timers[a] = 0
    BY <1>2, Types
  <2>2. /\ ~enabled'[a] /\ connection_state'[a] = "RECONNECTING" /\ timers'[a] = timers[a] + 1
        /\ (told'[a] <=> told[a] /\ st # "CONNECTED") /\ fd'[a] = -1
    BY <2>1, ReconnectEffect, Zenon
  <2>3. starts[a] <= 1 => ~told'[a]
    <3>1. CASE queries[a] > 0
      <4>1. starts[a] <= 1 => ~enabled[a]
        BY <3>1, Types DEF AgentInv, Awake, One
      <4>. QED
        BY <2>2, <4>1 DEF AgentInv
    <3>2. CASE enabled[a] /\ st = connection_state[a]
      BY <2>2, <3>2 DEF AgentInv
    <3>. QED
      BY <3>1, <3>2
  <2>4. queries'[a] \in Nat /\ (starts[a] <= 1 => queries'[a] = 0)
    BY <2>1, Types DEF AgentInv, Awake, One
  <2>. QED
    BY <2>1, <2>2, <2>3, <2>4, Types DEF AgentInv, Awake, One
<1>. QED
  BY <1>1, <1>2, Types

\* The query gives way to the timer.
LEMMA AnswerFailsAgent ==
  ASSUME IInv, NEW a \in Agent, AgentInv(a), AnswerFails(a)
  PROVE  AgentInv(a)'
<1>1. /\ queries[a] > 0 /\ queries'[a] = queries[a] - 1 /\ starts'[a] = starts[a]
  BY DEF AnswerFails, IInv, TypeOK, Set
<1>2. PICK st \in {"CONNECTING", connection_state[a]} :
        Reconnect(a, st, timers[a], reconnecting[a])
  BY DEF AnswerFails
<1>3. starts[a] > 0
  BY <1>1, Types DEF AgentInv
<1>. QED
  BY <1>1, <1>2, <1>3, LossAgent

\* The watched socket gives way to the timer.
LEMMA PeerGoneAgent ==
  ASSUME IInv, NEW a \in Agent, AgentInv(a), PeerGone(a)
  PROVE  AgentInv(a)'
<1>1. /\ enabled[a] /\ queries'[a] = queries[a] /\ starts'[a] = starts[a]
      /\ Reconnect(a, connection_state[a], timers[a], reconnecting[a])
  BY DEF PeerGone
<1>2. starts[a] > 0
  BY <1>1, Types DEF AgentInv
<1>. QED
  BY <1>1, <1>2, LossAgent

\* Every step keeps it for all of them.
LEMMA AgentStep ==
  ASSUME IInv, \A a \in Agent : AgentInv(a), [Next]_vars
  PROVE  (\A a \in Agent : AgentInv(a))'
<1>1. ASSUME NEW a \in Agent, Step(a), NEW b \in Agent PROVE AgentInv(b)'
  <2>1. CASE b = a
    <3>1. AgentInv(a)'
      BY <1>1, StartAgent, StartFailsAgent, TimerStartsAgent, TimerRetriesAgent,
         AnswerConnectsAgent, AnswerFailsAgent, PeerGoneAgent DEF Step
    <3>. QED
      BY <2>1, <3>1 DEF AgentInv, Awake
  <2>2. CASE b # a
    <3>1. Still(b)
      BY <1>1, <2>2, Frame
    <3>. QED
      BY <3>1 DEF Still, AgentInv, Awake
  <2>. QED
    BY <2>1, <2>2
<1>2. CASE UNCHANGED vars
  BY <1>2 DEF vars, AgentInv, Awake
<1>. QED
  BY <1>1, <1>2 DEF Next

(***************************************************************************)
(* The lost sockets, each charged to an agent.                             *)
(***************************************************************************)
\* The sockets charged to an agent, the one it uses and the one its timer will
\* make are no more than its starts.
Charge(charged, a) == Cardinality({s \in Lost : charged[s] = a})
ChargeInv ==
  \E charged \in [Lost -> Agent] :
    \A a \in Agent : Charge(charged, a) + One(fd[a] # -1) + timers[a] <= starts[a]

\* The sockets are finitely many, and so are the lost ones.
LEMMA LostFinite ==
  ASSUME IInv
  PROVE  /\ IsFiniteSet(Lost) /\ -1 \notin Lost
         /\ \A charged, a : /\ IsFiniteSet({s \in Lost : charged[s] = a})
                            /\ Charge(charged, a) \in Nat
<1>1. IsFiniteSet(Socket)
  BY AgentAssumption, FS_Interval DEF Socket
<1>2. Lost \subseteq Socket
  BY DEF IInv, TypeOK, Lost
<1>3. IsFiniteSet(Lost) /\ -1 \notin Lost
  BY <1>1, <1>2, FS_Subset, SocketType
<1>4. ASSUME NEW charged, NEW a
      PROVE  IsFiniteSet({s \in Lost : charged[s] = a}) /\ Charge(charged, a) \in Nat
  <2>1. {s \in Lost : charged[s] = a} \subseteq Lost
    OBVIOUS
  <2>. QED
    BY <1>3, <2>1, FS_Subset, FS_CardinalityType DEF Charge
<1>. QED
  BY <1>3, <1>4

\* A step that loses no socket, nor lets an agent have more of them than it starts.
LEMMA ChargeSame ==
  ASSUME IInv, IInv', ChargeInv, Lost' = Lost,
         \A b \in Agent : One(fd'[b] # -1) + timers'[b] + starts[b]
                            <= One(fd[b] # -1) + timers[b] + starts'[b]
  PROVE  ChargeInv'
<1>1. PICK charged \in [Lost -> Agent] :
        \A a \in Agent : Charge(charged, a) + One(fd[a] # -1) + timers[a] <= starts[a]
  BY DEF ChargeInv
<1>2. charged \in [Lost' -> Agent]
  BY <1>1
<1>3. ASSUME NEW a \in Agent
      PROVE  Cardinality({s \in Lost' : charged[s] = a}) + One(fd'[a] # -1) + timers'[a] <= starts'[a]
  <2>. DEFINE c == Charge(charged, a)
  <2>1. c \in Nat /\ Cardinality({s \in Lost' : charged[s] = a}) = c
    <3>1. {s \in Lost' : charged[s] = a} = {s \in Lost : charged[s] = a}
      OBVIOUS
    <3>2. c \in Nat
      BY LostFinite
    <3>. QED
      BY <3>1, <3>2 DEF Charge
  <2>2. /\ timers[a] \in Nat /\ timers'[a] \in Nat /\ starts[a] \in Nat /\ starts'[a] \in Nat
        /\ One(fd[a] # -1) \in Nat /\ One(fd'[a] # -1) \in Nat
    BY AgentAssumption DEF IInv, TypeOK, One
  <2>3. c + One(fd[a] # -1) + timers[a] <= starts[a]
    BY <1>1
  <2>. HIDE DEF c
  <2>. QED
    BY <2>1, <2>2, <2>3
<1>. QED
  BY <1>2, <1>3 DEF ChargeInv, Charge

\* startConnection loses the socket it finds in the object, which is charged to it.
LEMMA ChargeOpen ==
  ASSUME IInv, IInv', ChargeInv, NEW a \in Agent, OpenAndResolve(a),
         timers'[a] + starts[a] + 1 <= timers[a] + starts'[a],
         \A b \in Agent \ {a} : timers'[b] = timers[b] /\ starts'[b] = starts[b]
  PROVE  ChargeInv'
<1>1. PICK charged \in [Lost -> Agent] :
        \A b \in Agent : Charge(charged, b) + One(fd[b] # -1) + timers[b] <= starts[b]
  BY DEF ChargeInv
<1>2. PICK n \in Socket \ open : open' = open \cup {n} /\ fd' = Set(fd, a, n)
  BY DEF OpenAndResolve
<1>3. fd'[a] = n /\ n # -1 /\ \A b \in Agent \ {a} : fd'[b] = fd[b]
  BY <1>2, SocketType DEF IInv, TypeOK, Set
<1>. DEFINE old == {fd[a]} \ {-1}
            after == [s \in Lost' |-> IF s \in Lost THEN charged[s] ELSE a]
<1>4. Lost' = Lost \cup old /\ Lost \cap old = {}
  BY <1>2, <1>3, SocketType DEF IInv, TypeOK, OwnSocket, Lost
<1>5. after \in [Lost' -> Agent]
  BY <1>1, <1>4
<1>6. ASSUME NEW b \in Agent \ {a}
      PROVE  Cardinality({s \in Lost' : after[s] = b}) + One(fd'[b] # -1) + timers'[b] <= starts'[b]
  <2>1. {s \in Lost' : after[s] = b} = {s \in Lost : charged[s] = b}
    BY <1>4
  <2>. QED
    BY <1>1, <1>3, <2>1 DEF Charge
<1>7. Cardinality({s \in Lost' : after[s] = a}) + One(fd'[a] # -1) + timers'[a] <= starts'[a]
  <2>. DEFINE S == {s \in Lost : charged[s] = a}
              c == Charge(charged, a)
              d == Cardinality({s \in Lost' : after[s] = a})
  <2>1. {s \in Lost' : after[s] = a} = S \cup old
    BY <1>4
  <2>2. IsFiniteSet(S) /\ c \in Nat /\ c = Cardinality(S) /\ S \cap old = {}
    <3>1. IsFiniteSet(S) /\ c \in Nat
      BY LostFinite
    <3>2. c = Cardinality(S)
      BY DEF Charge
    <3>. QED
      BY <1>4, <3>1, <3>2
  <2>a. d = Cardinality(S \cup old)
    BY <2>1
  <2>. HIDE DEF c, d, S
  <2>3. d = c + One(fd[a] # -1)
    <3>1. CASE fd[a] = -1
      <4>1. S \cup old = S
        BY <3>1
      <4>2. d = c
        BY <2>2, <2>a, <4>1
      <4>. QED
        BY <2>2, <3>1, <4>2 DEF One
    <3>2. CASE fd[a] # -1
      <4>1. S \cup old = S \cup {fd[a]} /\ fd[a] \notin S
        BY <2>2, <3>2
      <4>2. Cardinality(S \cup {fd[a]}) = c + 1
        BY <2>2, <4>1, FS_AddElement
      <4>. QED
        BY <2>a, <3>2, <4>1, <4>2 DEF One
    <3>. QED
      BY <3>1, <3>2
  <2>4. c + One(fd[a] # -1) + timers[a] <= starts[a] /\ One(fd'[a] # -1) = 1
    BY <1>1, <1>3 DEF One, c
  <2>5. /\ timers[a] \in Nat /\ timers'[a] \in Nat /\ starts[a] \in Nat /\ starts'[a] \in Nat
        /\ One(fd[a] # -1) \in Nat
    BY AgentAssumption DEF IInv, TypeOK, One
  <2>6. d + 1 + timers'[a] <= starts'[a]
    BY <2>2, <2>3, <2>4, <2>5
  <2>. QED
    BY <2>4, <2>6 DEF d
<1>8. \A b \in Agent : Cardinality({s \in Lost' : after[s] = b}) + One(fd'[b] # -1) + timers'[b] <= starts'[b]
  BY <1>6, <1>7
<1>. HIDE DEF after
<1>. QED
  BY <1>5, <1>8 DEF ChargeInv, Charge

\* reconnect() loses none: it closes the socket it finds.
LEMMA ReconnectLoses ==
  ASSUME IInv, NEW a \in Agent, NEW st, NEW t, NEW underway \in BOOLEAN,
         Reconnect(a, st, t, underway)
  PROVE  /\ Lost' = Lost /\ timers'[a] = (IF underway THEN t ELSE t + 1)
         /\ fd'[a] = IF underway THEN fd[a] ELSE -1
         /\ \A b \in Agent \ {a} : fd'[b] = fd[b] /\ timers'[b] = timers[b]
<1>1. CASE underway
  <2>1. Lost' = Lost /\ fd' = fd
    BY <1>1 DEF Reconnect, Disable, Lost
  <2>2. timers'[a] = t /\ \A b \in Agent \ {a} : timers'[b] = timers[b]
    BY <1>1 DEF IInv, TypeOK, Reconnect, Set
  <2>. QED
    BY <1>1, <2>1, <2>2
<1>2. CASE ~underway
  <2>1. open' = open \ {fd[a]} /\ fd' = Set(fd, a, -1) /\ timers' = Set(timers, a, t + 1)
    BY <1>2 DEF Reconnect, Close, SetTimer
  <2>2. fd'[a] = -1 /\ \A b \in Agent \ {a} : fd'[b] = fd[b]
    BY <2>1 DEF IInv, TypeOK, Set
  <2>3. timers'[a] = t + 1 /\ \A b \in Agent \ {a} : timers'[b] = timers[b]
    BY <2>1 DEF IInv, TypeOK, Set
  <2>4. Lost' = Lost
    BY <2>1, <2>2, SocketType DEF IInv, TypeOK, OwnSocket, Lost
  <2>. QED
    BY <1>2, <2>2, <2>3, <2>4
<1>. QED
  BY <1>1, <1>2

\* No step loses a socket that it cannot charge.
LEMMA ChargeStep ==
  ASSUME IInv, IInv', \A a \in Agent : AgentInv(a), ChargeInv, [Next]_vars
  PROVE  ChargeInv'
<1>1. ASSUME NEW a \in Agent, Step(a) PROVE ChargeInv'
  <2>1. \A b \in Agent \ {a} : timers'[b] = timers[b] /\ starts'[b] = starts[b] /\ fd'[b] = fd[b]
    BY <1>1, Frame DEF Still
  <2>2. /\ timers[a] \in 0..1 /\ starts[a] \in Nat /\ (reconnecting[a] \/ timers[a] = 0)
        /\ reconnecting[a] \in BOOLEAN
    BY Types
  <2>3. \A b \in Agent : timers[b] \in Nat /\ starts[b] \in Nat /\ One(fd[b] # -1) \in 0..1
    BY Types DEF One
  <2>4. CASE OpenAndResolve(a) /\ timers'[a] + starts[a] + 1 <= timers[a] + starts'[a]
    BY <2>1, <2>4, ChargeOpen
  <2>5. ASSUME Lost' = Lost,
               One(fd'[a] # -1) + timers'[a] + starts[a] <= One(fd[a] # -1) + timers[a] + starts'[a]
        PROVE  ChargeInv'
    <3>1. ASSUME NEW b \in Agent
          PROVE  One(fd'[b] # -1) + timers'[b] + starts[b] <= One(fd[b] # -1) + timers[b] + starts'[b]
      <4>1. CASE b = a
        BY <2>5, <4>1
      <4>2. CASE b # a
        <5>1. timers'[b] = timers[b] /\ starts'[b] = starts[b] /\ fd'[b] = fd[b]
          BY <2>1, <4>2
        <5>. QED
          BY <2>3, <5>1
      <4>. QED
        BY <4>1, <4>2
    <3>. QED
      BY <2>5, <3>1, ChargeSame
  <2>6. ASSUME NEW st, NEW t \in Nat, NEW underway \in BOOLEAN, Reconnect(a, st, t, underway),
               starts'[a] \in Nat,
               underway => t = timers[a] /\ starts'[a] = starts[a],
               ~underway => t + 1 + starts[a] <= One(fd[a] # -1) + timers[a] + starts'[a]
        PROVE  ChargeInv'
    <3>1. /\ Lost' = Lost /\ timers'[a] = (IF underway THEN t ELSE t + 1)
          /\ fd'[a] = IF underway THEN fd[a] ELSE -1
      BY <2>6, ReconnectLoses
    <3>2. One(fd'[a] # -1) + timers'[a] + starts[a] <= One(fd[a] # -1) + timers[a] + starts'[a]
      <4>1. CASE underway
        BY <2>2, <2>3, <2>6, <3>1, <4>1
      <4>2. CASE ~underway
        <5>1. One(fd'[a] # -1) = 0 /\ timers'[a] = t + 1
          BY <3>1, <4>2 DEF One
        <5>. QED
          BY <2>2, <2>6, <4>2, <5>1
      <4>. QED
        BY <4>1, <4>2
    <3>. QED
      BY <2>5, <3>1, <3>2
  <2>7. CASE Start(a)
    <3>1. OpenAndResolve(a) /\ timers' = timers /\ starts'[a] = starts[a] + 1
      BY <2>7 DEF Start, IInv, TypeOK, Set
    <3>. QED
      BY <2>2, <2>4, <3>1
  <2>8. CASE TimerStarts(a)
    <3>1. OpenAndResolve(a) /\ timers'[a] = timers[a] - 1 /\ starts' = starts
      BY <2>8 DEF TimerStarts, IInv, TypeOK, Set
    <3>. QED
      BY <2>2, <2>4, <3>1
  <2>9. CASE StartFails(a)
    <3>1. Reconnect(a, connection_state[a], timers[a], FALSE) /\ starts'[a] = starts[a] + 1
      BY <2>9 DEF StartFails, IInv, TypeOK, Set
    <3>2. timers[a] + 1 + starts[a] <= One(fd[a] # -1) + timers[a] + starts'[a]
      BY <2>2, <2>3, <3>1
    <3>3. timers[a] \in Nat /\ starts'[a] \in Nat
      BY <2>2, <3>1
    <3>. QED
      BY <2>6, <3>1, <3>2, <3>3
  <2>10. CASE TimerRetries(a)
    <3>1. Reconnect(a, connection_state[a], timers[a] - 1, FALSE) /\ starts' = starts /\ timers[a] > 0
      BY <2>10 DEF TimerRetries
    <3>2. timers[a] - 1 + 1 + starts[a] <= One(fd[a] # -1) + timers[a] + starts'[a]
      BY <2>2, <2>3, <3>1
    <3>3. timers[a] - 1 \in Nat /\ starts'[a] \in Nat
      BY <2>2, <3>1
    <3>. QED
      BY <2>6, <3>1, <3>2, <3>3
  <2>11. CASE AnswerConnects(a)
    <3>1. open' = open /\ fd' = fd /\ timers' = timers /\ starts' = starts
      BY <2>11 DEF AnswerConnects
    <3>2. Lost' = Lost
      BY <3>1 DEF Lost
    <3>. QED
      BY <2>2, <2>3, <2>5, <3>1, <3>2
  <2>12. ASSUME NEW st, Reconnect(a, st, timers[a], reconnecting[a]), starts' = starts, starts[a] > 0
         PROVE  ChargeInv'
    <3>1. ~reconnecting[a] => timers[a] + 1 + starts[a] <= One(fd[a] # -1) + timers[a] + starts'[a]
      <4>1. fd[a] # -1 \/ timers[a] = 1
        BY <2>12 DEF AgentInv
      <4>2. ~reconnecting[a] => One(fd[a] # -1) = 1
        BY <2>2, <4>1 DEF One
      <4>. QED
        BY <2>2, <2>12, <4>2
    <3>2. timers[a] \in Nat /\ starts'[a] \in Nat
      BY <2>2, <2>12
    <3>. QED
      BY <2>2, <2>6, <2>12, <3>1, <3>2
  <2>13. CASE AnswerFails(a)
    <3>1. /\ queries[a] > 0 /\ starts' = starts
          /\ \E st : Reconnect(a, st, timers[a], reconnecting[a])
      BY <2>13 DEF AnswerFails
    <3>2. starts[a] > 0
      BY <2>2, <3>1 DEF AgentInv
    <3>. QED
      BY <2>12, <3>1, <3>2
  <2>14. CASE PeerGone(a)
    <3>1. /\ enabled[a] /\ starts' = starts
          /\ Reconnect(a, connection_state[a], timers[a], reconnecting[a])
      BY <2>14 DEF PeerGone
    <3>2. starts[a] > 0
      BY <2>2, <3>1 DEF AgentInv
    <3>. QED
      BY <2>12, <3>1, <3>2
  <2>. QED
    BY <1>1, <2>7, <2>8, <2>9, <2>10, <2>11, <2>13, <2>14 DEF Step
<1>2. CASE UNCHANGED vars
  <2>1. Lost' = Lost /\ fd' = fd /\ timers' = timers /\ starts' = starts
    BY <1>2 DEF vars, Lost
  <2>2. \A b \in Agent : timers[b] \in Nat /\ starts[b] \in Nat /\ One(fd[b] # -1) \in 0..1
    BY Types DEF One
  <2>. QED
    BY <2>1, <2>2, ChargeSame
<1>. QED
  BY <1>1, <1>2 DEF Next

\* At the start there are no sockets at all.
LEMMA ChargeInit == Init => ChargeInv
<1>. SUFFICES ASSUME Init PROVE ChargeInv
  OBVIOUS
<1>1. IInv
  BY InitInv
<1>2. Lost = {}
  BY DEF Init, Lost
<1>. DEFINE none == [s \in Lost |-> CHOOSE a \in Agent : TRUE]
<1>3. none \in [Lost -> Agent]
  BY <1>2
<1>4. ASSUME NEW a \in Agent
      PROVE  Charge(none, a) + One(fd[a] # -1) + timers[a] <= starts[a]
  <2>1. {s \in Lost : none[s] = a} = {}
    BY <1>2
  <2>2. Charge(none, a) = 0
    BY <2>1, FS_EmptySet DEF Charge
  <2>. QED
    BY <2>2 DEF Init, One
<1>. QED
  BY <1>3, <1>4 DEF ChargeInv

\* What has been charged bounds the lost sockets.
LEMMA ChargeBounds ==
  ASSUME IInv, \A a \in Agent : AgentInv(a), ChargeInv
  PROVE  NoSocketLeak
<1>1. PICK charged \in [Lost -> Agent] :
        \A a \in Agent : Charge(charged, a) + One(fd[a] # -1) + timers[a] <= starts[a]
  BY DEF ChargeInv
<1>2. ASSUME NEW a \in Agent
      PROVE  Charge(charged, a) = 0 \/ Charge(charged, a) < starts[a]
  <2>. DEFINE c == Charge(charged, a)
  <2>1. c \in Nat /\ c + One(fd[a] # -1) + timers[a] <= starts[a]
    BY <1>1, LostFinite
  <2>2. starts[a] \in Nat /\ timers[a] \in Nat /\ One(fd[a] # -1) \in Nat
    BY Types DEF One
  <2>3. starts[a] > 0 => One(fd[a] # -1) = 1 \/ timers[a] = 1
    BY DEF AgentInv, One
  <2>. HIDE DEF c
  <2>. QED
    BY <2>1, <2>2, <2>3 DEF c
<1>. QED
  BY <1>1, <1>2 DEF NoSocketLeak, Charge

\* The three invariants together.
LEMMA AllInvariant == Spec => [](IInv /\ (\A a \in Agent : AgentInv(a)) /\ ChargeInv)
<1>1. Init => \A a \in Agent : AgentInv(a)
  BY DEF Init, AgentInv, Awake, One
<1>2. /\ IInv /\ (\A a \in Agent : AgentInv(a)) /\ ChargeInv /\ [Next]_vars
      => IInv' /\ (\A a \in Agent : AgentInv(a))' /\ ChargeInv'
  BY StepInv, AgentStep, ChargeStep
<1>. QED
  BY <1>1, <1>2, InitInv, ChargeInit, PTL DEF Spec

(***************************************************************************)
(* The theorems.                                                           *)
(***************************************************************************)
\* Every variable of the agents keeps to its type; in particular an agent has at
\* most one reconnect timer.
THEOREM TypeCorrect == Spec => []TypeOK
BY Invariant, PTL DEF IInv

\* However errors, answers, timers and further starts of any number of agents come
\* together, the flag `reconnecting` of asyncagent.h:43-46 is up exactly while the
\* reconnect timer is set: no second timer, and no flag that blocks reconnect().
THEOREM FlagCorrect == Spec => []FlagIsTimer
BY Invariant, PTL DEF IInv

\* Whatever is closed and opened, the socket an agent uses is open and its own.
THEOREM SocketCorrect == Spec => []OwnSocket
BY Invariant, PTL DEF IInv

\* Started once, an agent is never woken by two things at a time, even when the
\* resolver may refuse a query: it waits for one timer, one answer or its socket.
THEOREM NeverTwoThings == Spec => [](\A a \in Agent : starts[a] <= 1 => Awake(a) <= 1)
<1>1. (\A a \in Agent : AgentInv(a)) => \A a \in Agent : starts[a] <= 1 => Awake(a) <= 1
  BY DEF AgentInv
<1>. QED
  BY <1>1, AllInvariant, PTL

\* When the resolver takes every query (startConnection does not look at its answer,
\* asyncagent.cpp:140), an agent at work is always woken again, however often it is
\* started, and by one thing at a time if it is started once.
THEOREM WokenCorrect == ASSUME ~SubmitMayFail PROVE Spec => []WokenOnce
<1>1. IInv /\ (\A a \in Agent : AgentInv(a)) => WokenOnce
  <2>. SUFFICES ASSUME IInv, \A a \in Agent : AgentInv(a) PROVE WokenOnce
    OBVIOUS
  <2>1. ASSUME NEW a \in Agent, connection_state[a] # "NOT_CONNECTED"
        PROVE  timers[a] > 0 \/ queries[a] > 0 \/ enabled[a]
    BY <2>1, Types DEF AgentInv, Awake, One
  <2>2. ASSUME NEW a \in Agent, starts[a] <= 1
        PROVE  timers[a] + queries[a] + (IF enabled[a] THEN 1 ELSE 0)
                 = IF connection_state[a] = "NOT_CONNECTED" THEN 0 ELSE 1
    BY <2>2, Types DEF AgentInv, Awake, One
  <2>. QED
    BY <2>1, <2>2 DEF IInv, WokenOnce, NeverForgotten, OneThingAtATime
<1>. QED
  BY <1>1, AllInvariant, PTL

\* The application is told of a connection and of its loss in turn, and what it was
\* told last is the truth, as long as it starts the agent once.
THEOREM ToldCorrect == Spec => []ToldTruth
<1>1. (\A a \in Agent : AgentInv(a)) => ToldTruth
  BY DEF AgentInv, ToldTruth
<1>. QED
  BY <1>1, AllInvariant, PTL

\* However often agents reconnect, each socket that is lost is one that a further
\* call of startConnection found in its agent: reconnecting itself loses none.
THEOREM LeakCorrect == Spec => []NoSocketLeak
<1>1. IInv /\ (\A a \in Agent : AgentInv(a)) /\ ChargeInv => NoSocketLeak
  BY ChargeBounds
<1>. QED
  BY <1>1, AllInvariant, PTL
=============================================================================
