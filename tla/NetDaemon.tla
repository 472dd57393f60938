----------------------------- MODULE NetDaemon ------------------------------
(***************************************************************************)
(* The registry and the event loop of NetDaemon (netdaemon.cpp), with the  *)
(* objects it serves (asyncobject.cpp, asyncstream.cpp, asyncserver.cpp),  *)
(* their reference counts (object.cpp) and the descriptors and the epoll   *)
(* set of the kernel.  The output buffer of a descriptor is the queue of   *)
(* ByteStream; a pending entry is the number of the socket its writer had. *)
(*                                                                         *)
(* The process has one thread.  Between epoll_wait and the re-arming of    *)
(* the descriptor the callbacks of the handler run; a callback may make    *)
(* any call, so the calls are enabled in the middle of a dispatch too.     *)
(***************************************************************************)
EXTENDS Integers, Sequences, FiniteSets

CONSTANTS
  Stream,       \* the AsyncStream objects
  Server,       \* the AsyncServer objects; an AsyncUDPServer is the same to the daemon
  NoObj,        \* NULL
  MaxFd,        \* the descriptors are 1..MaxFd; 0 is the standard input
  MaxOpen,      \* bound: sockets opened in a run
  MaxPending,   \* bound: entries a buffer takes before put refuses
  EarlyPut      \* whether a stream is written to while it is not in epoll

ASSUME DaemonAssumption ==
  /\ Stream \cap Server = {}
  /\ NoObj \notin Stream \cup Server
  /\ MaxFd \in Nat /\ MaxOpen \in Nat /\ MaxPending \in Nat
  /\ EarlyPut \in BOOLEAN

Obj == Stream \cup Server
Fd == 1..MaxFd

VARIABLES
  \* the kernel
  open,       \* is the descriptor open
  sock,       \* the number of the last socket opened at the descriptor
  opened,     \* sockets opened so far
  interest,   \* the epoll entry: "none", "in", "inout", "off" after an event
  \* the table fds and the counter of NetDaemon
  obj, pend, count,
  \* the objects
  alive,      \* not destroyed
  held,       \* the application has a reference
  daemon,     \* AsyncObject::daemon is set
  ref_count, fd,
  \* doActiveAction: the event being handled
  cur

kernelVars == <<open, sock, opened>>
tableVars  == <<interest, obj, pend, count>>
objVars    == <<alive, held, daemon, ref_count, fd>>
vars == <<kernelVars, tableVars, objVars, cur>>

Idle == [at |-> 0, obj |-> NoObj, sock |-> 0, todo |-> {}]

\* Mutant: EPOLLOUT is never asked for.
MaskReads(pending) == "in"

\* The epoll mask: EPOLLOUT is asked for only while there is data.
Mask(pending) == IF pending = <<>> THEN "in" ELSE "inout"

\* epoll_ctl(MOD and DEL) need an open descriptor that is in the epoll set.
InEpoll(f) == f \in Fd /\ open[f] /\ interest[f] # "none"

\* The table entry of the object's descriptor holds the object.
Registered(o) == daemon[o] /\ fd[o] \in Fd /\ obj[fd[o]] = o

(***************************************************************************)
(* enableObject, disableObject.                                            *)
(***************************************************************************)
\* The condition under which disableObject answers TRUE.
DisableWorks(o) ==
  /\ daemon[o]
  /\ fd[o] >= 0
  /\ fd[o] \in Fd => \/ obj[fd[o]] = NoObj
                     \/ obj[fd[o]] = o /\ InEpoll(fd[o])

\* disableObject takes the object out of the table, with its buffer; an object
\* that is not there stays as it is, its buffer too.
Leaves(o) == Registered(o) /\ InEpoll(fd[o])

\* Mutant: the counter goes down although nothing leaves.
CountDownAlways(o) ==
  /\ IF Leaves(o)
     THEN /\ obj' = [obj EXCEPT ![fd[o]] = NoObj]
          /\ pend' = [pend EXCEPT ![fd[o]] = <<>>]
     ELSE UNCHANGED <<obj, pend>>
  /\ count' = count - 1

\* Mutant: cleanup is forgotten.
UnregisterKeepsData(o) ==
  IF Leaves(o)
  THEN /\ obj' = [obj EXCEPT ![fd[o]] = NoObj]
       /\ count' = count - 1
       /\ UNCHANGED pend
  ELSE UNCHANGED <<obj, pend, count>>

\* The table without the object.
Unregister(o) ==
  IF Leaves(o)
  THEN /\ obj' = [obj EXCEPT ![fd[o]] = NoObj]
       /\ pend' = [pend EXCEPT ![fd[o]] = <<>>]
       /\ count' = count - 1
  ELSE UNCHANGED <<obj, pend, count>>

\* The references the table gives up with it.
TableRefs(o) == IF Leaves(o) THEN 1 ELSE 0

\* Mutant: epoll_ctl(DEL) is forgotten.
DisableKeepsEpoll(o) ==
  /\ alive[o]
  /\ Unregister(o)
  /\ ref_count' = [ref_count EXCEPT ![o] = @ - TableRefs(o)]
  /\ UNCHANGED <<kernelVars, interest, alive, held, daemon, fd, cur>>

DisableObject(o) ==
  /\ alive[o]
  /\ Unregister(o)
  /\ interest' = [f \in Fd |-> IF Leaves(o) /\ f = fd[o] THEN "none" ELSE interest[f]]
  /\ ref_count' = [ref_count EXCEPT ![o] = @ - TableRefs(o)]
  /\ UNCHANGED <<kernelVars, alive, held, daemon, fd, cur>>

\* Mutant: enabling an object that is in the table counts it again.
RegisterAgain(o) ==
  LET f == fd[o]
  IN  /\ f \in Fd /\ obj[f] \in {NoObj, o}
      /\ open[f]
      /\ interest' = [interest EXCEPT ![f] = Mask(pend[f])]
      /\ obj' = [obj EXCEPT ![f] = o]
      /\ count' = count + 1
      /\ UNCHANGED pend

\* epoll_ctl(ADD) may fail; a free table entry is taken only when it works.
Register(o) ==
  LET f == fd[o]
  IN  /\ f \in Fd /\ obj[f] = NoObj
      /\ open[f] /\ interest[f] = "none"
      /\ interest' = [interest EXCEPT ![f] = Mask(pend[f])]
      /\ obj' = [obj EXCEPT ![f] = o]
      /\ count' = count + 1
      /\ UNCHANGED pend

EnableObject(o) ==
  /\ alive[o]
  /\ daemon[o]
  /\ Register(o)
  /\ ref_count' = [ref_count EXCEPT ![o] = @ + 1]
  /\ UNCHANGED <<kernelVars, alive, held, daemon, fd, cur>>

\* addObject: set the daemon, which locks the object, then enableObject; the
\* daemon stays set when that fails or is not asked for.
AddObject(o) ==
  /\ alive[o]
  /\ ~daemon[o]
  /\ daemon' = [daemon EXCEPT ![o] = TRUE]
  /\ \/ /\ Register(o)
        /\ ref_count' = [ref_count EXCEPT ![o] = @ + 2]
     \/ /\ ref_count' = [ref_count EXCEPT ![o] = @ + 1]
        /\ UNCHANGED tableVars
  /\ UNCHANGED <<kernelVars, alive, held, fd, cur>>

(***************************************************************************)
(* Reference counts and destruction.                                       *)
(***************************************************************************)
\* release() of n references.  The last one deletes the object, and close()
\* in its destructor closes the descriptor; the daemon is not set by then.
Drop(o, n) ==
  LET gone == ref_count[o] = n
  IN  /\ ref_count' = [ref_count EXCEPT ![o] = @ - n]
      /\ alive' = [alive EXCEPT ![o] = ~gone]
      /\ fd' = [fd EXCEPT ![o] = IF gone THEN -1 ELSE @]
      /\ open' = [f \in Fd |-> IF gone /\ f = fd[o] THEN FALSE ELSE open[f]]

\* The epoll entries after Drop(o, n): a closed descriptor has none.
EpollAfterDrop(o, n) ==
  [f \in Fd |-> IF f = fd[o] /\ (Leaves(o) \/ ref_count[o] = n) THEN "none" ELSE interest[f]]

\* Mutant: the daemon's lock is not released.
RemoveKeepsLock(o) ==
  /\ alive[o]
  /\ DisableWorks(o)
  /\ Unregister(o)
  /\ daemon' = [daemon EXCEPT ![o] = FALSE]
  /\ Drop(o, TableRefs(o))
  /\ interest' = EpollAfterDrop(o, TableRefs(o))
  /\ UNCHANGED <<sock, opened, held, cur>>

\* removeObject, called by leaveDaemon: nothing happens when disableObject fails.
RemoveObject(o) ==
  /\ alive[o]
  /\ DisableWorks(o)
  /\ Unregister(o)
  /\ daemon' = [daemon EXCEPT ![o] = FALSE]
  /\ Drop(o, 1 + TableRefs(o))
  /\ interest' = EpollAfterDrop(o, 1 + TableRefs(o))
  /\ UNCHANGED <<sock, opened, held, cur>>

\* The application drops its reference.
Release(o) ==
  /\ alive[o] /\ held[o]
  /\ held' = [held EXCEPT ![o] = FALSE]
  /\ Drop(o, 1)
  /\ interest' = [f \in Fd |-> IF f = fd[o] /\ ref_count[o] = 1 THEN "none" ELSE interest[f]]
  /\ UNCHANGED <<sock, opened, obj, pend, count, daemon, cur>>

\* The application makes a new object in the place of a destroyed one.
New(o) ==
  /\ ~alive[o]
  /\ alive' = [alive EXCEPT ![o] = TRUE]
  /\ held' = [held EXCEPT ![o] = TRUE]
  /\ ref_count' = [ref_count EXCEPT ![o] = 1]
  /\ UNCHANGED <<kernelVars, tableVars, daemon, fd, cur>>

(***************************************************************************)
(* Descriptors.                                                            *)
(***************************************************************************)
\* socket() or accept() gives the lowest free descriptor, and setFd makes it
\* the object's: the object leaves the table under the old descriptor, which
\* stays open.
Open(o) ==
  /\ alive[o]
  /\ opened < MaxOpen
  /\ \E f \in Fd :
       /\ ~open[f] /\ \A g \in 1..(f - 1) : open[g]
       /\ open' = [open EXCEPT ![f] = TRUE]
       /\ sock' = [sock EXCEPT ![f] = opened + 1]
       /\ fd' = [fd EXCEPT ![o] = f]
  /\ opened' = opened + 1
  /\ Unregister(o)
  /\ interest' = [f \in Fd |-> IF Leaves(o) /\ f = fd[o] THEN "none" ELSE interest[f]]
  /\ ref_count' = [ref_count EXCEPT ![o] = @ - TableRefs(o)]
  /\ UNCHANGED <<alive, held, daemon, cur>>

\* Closing a descriptor takes it out of the epoll set.
KernelClose(f) ==
  /\ open' = [g \in Fd |-> IF g = f THEN FALSE ELSE open[g]]
  /\ interest' = [g \in Fd |-> IF g = f THEN "none" ELSE interest[g]]
  /\ UNCHANGED <<sock, opened>>

\* Mutant: the descriptor is closed before the object is disabled.
CloseFirst(o) ==
  /\ alive[o] /\ o \in Stream
  /\ fd[o] # -1
  /\ KernelClose(fd[o])
  /\ fd' = [fd EXCEPT ![o] = -1]
  /\ UNCHANGED <<obj, pend, count, alive, held, daemon, ref_count, cur>>

\* AsyncStream::close: disableObject, then ::close, then setFd(-1).
CloseStream(o) ==
  /\ alive[o] /\ o \in Stream
  /\ fd[o] # -1
  /\ Unregister(o)
  /\ KernelClose(fd[o])
  /\ fd' = [fd EXCEPT ![o] = -1]
  /\ ref_count' = [ref_count EXCEPT ![o] = @ - TableRefs(o)]
  /\ UNCHANGED <<alive, held, daemon, cur>>

\* AsyncServer::close: ::close first; epoll_ctl(DEL) of disableObject in setFd(0)
\* then fails on the closed descriptor, and the table keeps the object.
CloseServer(o) ==
  /\ alive[o] /\ o \in Server
  /\ fd[o] # 0
  /\ KernelClose(fd[o])
  /\ fd' = [fd EXCEPT ![o] = 0]
  /\ UNCHANGED <<obj, pend, count, alive, held, daemon, ref_count, cur>>

(***************************************************************************)
(* Output and the event loop.                                              *)
(***************************************************************************)
\* Mutant: the entry is not armed again.
NotRearmed(f, pending) == interest

\* The epoll entry after resetObject on f with the buffer pending.
Rearmed(f, pending) ==
  IF InEpoll(f) THEN [interest EXCEPT ![f] = Mask(pending)] ELSE interest

\* AsyncStream::putInBuffer: put, then modifyObject, whose answer is ignored.
Put(o) ==
  LET f == fd[o]
  IN  /\ alive[o] /\ o \in Stream
      /\ daemon[o] /\ f \in Fd
      /\ Registered(o) \/ EarlyPut
      /\ Len(pend[f]) < MaxPending
      /\ pend' = [pend EXCEPT ![f] = Append(@, sock[f])]
      /\ interest' = IF obj[f] = o THEN Rearmed(f, pend'[f]) ELSE interest
      /\ UNCHANGED <<kernelVars, obj, count, objVars, cur>>

\* The handlers onEvent calls for a set of events.
Handlers(o, events) ==
  IF o \in Server THEN events \cap {"in"}
  ELSE IF "err" \in events THEN {"err"} ELSE events \cap {"in", "out", "hup"}

\* epoll_wait of doActiveAction returns one event, which disarms the entry
\* (EPOLLONESHOT); the local ptr locks the object while its handlers run.
Dispatch(f, events) ==
  /\ cur = Idle
  /\ count > 0
  /\ interest[f] \in {"in", "inout"}
  /\ "out" \in events => interest[f] = "inout"
  /\ interest' = [interest EXCEPT ![f] = "off"]
  /\ IF obj[f] = NoObj
     THEN UNCHANGED <<cur, ref_count>>
     ELSE /\ cur' = [at |-> f, obj |-> obj[f], sock |-> sock[f],
                     todo |-> Handlers(obj[f], events)]
          /\ ref_count' = [ref_count EXCEPT ![obj[f]] = @ + 1]
  /\ UNCHANGED <<kernelVars, obj, pend, count, alive, held, daemon, fd>>

\* handleRead, handleError, handlePeerDown and onAccept: what the callbacks do
\* are the calls above; this step is their return.  handlePeerDown comes last.
Callback(e) ==
  /\ e \in cur.todo /\ e # "out"
  /\ e = "hup" => cur.todo = {"hup"}
  /\ cur' = [cur EXCEPT !.todo = @ \ {e}]
  /\ UNCHANGED <<kernelVars, tableVars, objVars>>

\* handleWrite, after handleRead: push what the kernel takes, at least one entry of
\* a socket that was just reported writable; the object may have closed or moved
\* meanwhile.
HandleWrite ==
  LET o == cur.obj
      f == fd[o]
  IN  /\ "out" \in cur.todo /\ "in" \notin cur.todo
      /\ cur' = [cur EXCEPT !.todo = @ \ {"out"}]
      /\ IF daemon[o] /\ f \in Fd
         THEN \E n \in 0..Len(pend[f]) :
                /\ (f = cur.at /\ sock[f] = cur.sock /\ pend[f] # <<>>) => n > 0
                /\ pend' = [pend EXCEPT ![f] = SubSeq(@, n + 1, Len(@))]
         ELSE UNCHANGED pend
      /\ UNCHANGED <<kernelVars, interest, obj, count, objVars>>

\* The end of doActiveAction: resetObject if the object is still in the table,
\* then the local ptr goes.
EndDispatch ==
  LET o == cur.obj
      armed == IF obj[cur.at] = o /\ fd[o] \in Fd THEN Rearmed(fd[o], pend[fd[o]]) ELSE interest
  IN  /\ cur # Idle /\ cur.todo = {}
      /\ cur' = Idle
      /\ Drop(o, 1)
      /\ interest' = [f \in Fd |-> IF f = fd[o] /\ ref_count[o] = 1 THEN "none" ELSE armed[f]]
      /\ UNCHANGED <<sock, opened, obj, pend, count, held, daemon>>

Init ==
  /\ open = [f \in Fd |-> FALSE]
  /\ sock = [f \in Fd |-> 0]
  /\ opened = 0
  /\ interest = [f \in Fd |-> "none"]
  /\ obj = [f \in Fd |-> NoObj]
  /\ pend = [f \in Fd |-> <<>>]
  /\ count = 0
  /\ alive = [o \in Obj |-> TRUE]
  /\ held = [o \in Obj |-> TRUE]
  /\ daemon = [o \in Obj |-> FALSE]
  /\ ref_count = [o \in Obj |-> 1]
  /\ fd = [o \in Obj |-> -1]
  /\ cur = Idle

Events == SUBSET {"in", "out", "hup", "err"} \ {{}}

Call(o) ==
  \/ New(o) \/ Release(o) \/ Open(o)
  \/ AddObject(o) \/ EnableObject(o) \/ DisableObject(o) \/ RemoveObject(o)
  \/ CloseStream(o) \/ CloseServer(o) \/ Put(o)

HandlerStep == (\E e \in {"in", "hup", "err"} : Callback(e)) \/ HandleWrite \/ EndDispatch

Next ==
  \/ \E o \in Obj : Call(o)
  \/ \E f \in Fd, ev \in Events : Dispatch(f, ev)
  \/ HandlerStep

\* The kernel reports a writable descriptor of its ready list in turn (epoll_wait
\* is asked for one event and rotates the list), a socket without an error is
\* writable again and again, and the thread that took an event handles it.
Fairness ==
  /\ \A f \in Fd : SF_vars(\E ev \in Events : /\ "out" \in ev /\ "err" \notin ev
                                            /\ Dispatch(f, ev))
  /\ WF_vars(HandlerStep)

Spec == Init /\ [][Next]_vars
FairSpec == Spec /\ Fairness

(***************************************************************************)
(* Properties.                                                             *)
(***************************************************************************)
Entries == {f \in Fd : obj[f] # NoObj}

\* The type invariant.
TypeOK ==
  /\ open \in [Fd -> BOOLEAN]
  /\ sock \in [Fd -> 0..MaxOpen]
  /\ opened \in 0..MaxOpen
  /\ interest \in [Fd -> {"none", "in", "inout", "off"}]
  /\ obj \in [Fd -> Obj \cup {NoObj}]
  /\ pend \in [Fd -> Seq(0..MaxOpen)]
  /\ count \in Nat
  /\ alive \in [Obj -> BOOLEAN]
  /\ held \in [Obj -> BOOLEAN]
  /\ daemon \in [Obj -> BOOLEAN]
  /\ ref_count \in [Obj -> Nat]
  /\ fd \in [Obj -> {-1, 0} \cup Fd]
  /\ cur \in [at : {0} \cup Fd, obj : Obj \cup {NoObj}, sock : 0..MaxOpen,
             todo : SUBSET {"in", "out", "hup", "err"}]

\* count, on which the loop of run() ends, is the number of objects in the
\* table: enable and disable count each entry once, whatever fails in between.
CountRight == count = Cardinality(Entries)

\* The references the counter of an object stands for: the application's, the
\* daemon's lock, the table's and the one doActiveAction has while it handles
\* an event.  The object lives as long as there is one, so neither the table
\* nor a handler ever holds a destroyed object.
Refs(o) ==
  (IF held[o] THEN 1 ELSE 0) + (IF daemon[o] THEN 1 ELSE 0)
  + Cardinality({f \in Fd : obj[f] = o}) + (IF cur.obj = o THEN 1 ELSE 0)

RefsRight ==
  \A o \in Obj : /\ ref_count[o] = Refs(o)
                 /\ alive[o] <=> ref_count[o] > 0

\* The comment in setFd (asyncobject.cpp:69-70): an object is deactivated before
\* its descriptor changes.  So the table, the object and the kernel agree: an
\* entry is an object that knows the descriptor, and the descriptor is open
\* and in the epoll set.
NoGhost ==
  \A f \in Entries : /\ fd[obj[f]] = f
                     /\ daemon[obj[f]]
                     /\ InEpoll(f)

\* The epoll set never keeps a descriptor the table has forgotten, and all is of its type.
NoOrphan == TypeOK /\ \A f \in Fd : interest[f] # "none" => open[f] /\ f \in Entries

\* Outside its own handler an entry is always armed (EPOLLONESHOT is undone on
\* every path), and for output too while it has data: else the object would
\* never hear of its socket again.
StaysArmed ==
  \A f \in Entries : f # cur.at =>
    interest[f] \in (IF pend[f] = <<>> THEN {"in", "inout"} ELSE {"inout"})

\* The bytes that wait for a served descriptor were written to the socket that
\* is open there now, not to an earlier one with the same number.  (enableObject
\* logs a buffer that is not empty as "unexpected", netdaemon.cpp:176-180.)
NoStaleBytes ==
  \A f \in Entries : \A i \in DOMAIN pend[f] : pend[f][i] = sock[f]

\* A served descriptor that has data all the time is written to again and again:
\* no order of puts, events and re-armings leaves it waiting without EPOLLOUT.
DataMoves ==
  \A f \in Fd : <>[](f \in Entries /\ pend[f] # <<>>)
                => []<><<Len(pend'[f]) < Len(pend[f])>>_vars
=============================================================================
