# Verification of libmaycloud

TLA+ models of the network core of libmaycloud, the TLC runs that check them on
small instances, and proofs for every size of the instance. Paths are relative
to the repository; `netdaemon.cpp` and the like are in `src/`, headers in
`src/headers/maycloud/`.

* [The system](#the-system): the components, their state, how they interact
* [What is modelled](#what-is-modelled): the modules and how they follow the code
* [What is checked](#what-is-checked): the runs, their bounds and the fairness
* [What is proved](#what-is-proved)
* [What the code does differently from what it says](#where-code-and-comments-disagree)
* [What is not modelled](#what-is-not-modelled), [Plan](#plan)

## The system

libmaycloud is the base of single-process network servers and clients. A
process has one `NetDaemon` that runs an epoll loop; everything else is an
object in its table or a callback it makes. The library has no threads of its
own, so what makes it hard is not parallelism but *re-entrance*: in the middle
of an operation a callback is made, and the callback may call anything.

| Component | State | Operations | Talks to |
|---|---|---|---|
| `BlockPool` (blockpool.cpp) | `stack` of free blocks, `free_count`, `total_count` | `reserve`, `allocByBlocks`, `allocBySize`, `free`, `bpPool` | called by the buffers |
| Output buffers (netdaemon.cpp, `fd_info_t`) | per descriptor: chain `first`..`last`, `offset`, `size`, `quota` | `put`, `push`, `cleanup`, `setQuota` | one block pool for all of them; `write(2)` takes any part |
| Registry and event loop (netdaemon.cpp, asyncobject.cpp) | table `fds[].obj`, `count`, epoll set; in the objects `daemon`, `fd`, reference count | `addObject`, `enableObject`, `disableObject`, `modifyObject`, `removeObject`, `setFd`, `doActiveAction`, `run` | objects through `onEvent`; kernel through `epoll_ctl`, `epoll_wait` |
| `AsyncStream` | `fd`, flags | `putInBuffer`, `close`, `onEvent` with its handlers | the buffers; subclasses through callbacks |
| `AsyncServer` | `fd` (0 is "none") | `bind`, `close`, `onEvent` → `onAccept` | makes new streams |
| `Object`, `ptr` (object.h, object.cpp) | `ref_count`; a pointer | `lock`, `release`, assignment | all that is registered; rows and results |
| Timers (netdaemon.cpp/.h) | `timers`, `timer_id` | `setTimer`, `callAt`, `removeTimer`, `processTimers` | callbacks with a raw pointer |
| `ProcessManager`, base of `NetDaemon` | `ps`, process id → callback | `fork`, `exec`, `bindProcess`, `onProcessTimer` | kernel through `waitpid`, `kill`; callbacks |
| `AsyncDNS` | udns context, a chain of timers for every query | `a4`, `srv`, `timer`, `onEvent`, `onTerminate` | timers; answers through callbacks with a raw pointer |
| `AsyncAgent` | `connection_state`, `reconnecting`, socket | `startConnection`, `on_connect_a4`, `reconnect`, `reconnectTimer`, `onPeerDown`, `onAsyncError` | `AsyncDNS`, timers, registry |
| `ControlStream`, `ControlAgent`, `AsyncXMLStream`, `XMLParser`, `XMLWriter`, `TagBuilder` | stream state, depth, writer buffer, tag stack | `openStream`, `closeStream`, `sendStanza`, element handlers | on top of `AsyncStream` |
| HTTP server (asyncwebserver.cpp, httpconnection.cpp, httprequest.cpp, httpresponse.cpp) | tables of routes, request parser, file being sent, wait with its timer | `get`, `post`, `route`, `selectRoute`, `onRead`, `handleRequest`, `sendResponse`, `sendFile`, `waitForFile`, `onEmpty` | on top of `AsyncStream` and `AsyncServer`; timers; handlers |
| `AsyncUDPServer` | `fd` (0 is "none") | `bind`, `close`, `onEvent` → `onRead` | registry, as `AsyncServer` |
| Tag tree (xml_tag.cpp, taghelper.cpp) | `parent`, `children`, `childnodes` of each tag, counters of tags | `insertChildElement`, `removeChild`, `clear`, `find`, `findNext`, `+=`, `[]` | the builder makes it, applications search it |
| `ATTagParser` (attagparser.cpp, tagbuilder.cpp, xmlparser.cpp) | expat, depth, stack, result | `parseFile`, `parseStream`, `parseString` | expat; applications |
| Containers (queue.h, stack.h, heavyhash.h, safemap.h) | cells of a heap that is allocated once, linked lists of them | add, remove, search | used by applications |
| SNMP (snmpbuilder.cpp, snmpparser.cpp, asn1reader.cpp) | a packet and places in it | `reset` ... `commit`, `parse` | the parser calls handlers |
| `MySQL`, `EasyMySQL` | a connection | `queryRaw`, `real_query`, `reconnect` | client library |
| Request contents (httprequest.cpp, easylib.cpp) | none | `parseQueryString`, `parseMultipartFormData`, `handleBasicAuth`, `explode`, `urldecode`, `base64_decode` | `HttpRequest` |
| Address helpers, SQLite, logger, templates | little or none | conversions, files | leaf code |

What makes them correct:

* *Pool and buffers.* Every block is in exactly one place and none is lost; the
  lists end; a descriptor's buffer is a queue of bytes of its own, although all
  share the blocks and the kernel takes any part.
* *Registry.* The table, the objects and the kernel agree on who has which
  descriptor, on every order of closing, reopening and handler callbacks;
  the loop counter and the reference counts are exact; EPOLLONESHOT is
  undone on every path, with EPOLLOUT when data waits; data written to one
  connection never reaches the next one with its number.
* *Pointers.* An object lives exactly as long as a pointer to it.
* *Timers.* Once, not early, never lost, whatever callbacks set and remove.
* *AsyncDNS.* Every active query has a timer in time, and comes to an answer.
* *ProcessManager.* Once, with the true status, never forgotten.
* *AsyncAgent.* One reconnect timer; a socket of its own; always something that
  will wake it; the application told of each connection and loss in turn.
* *XML streams.* On every connection one well-formed document, also on errors and
  while closing; stanzas whole; nothing of one connection in the next.
* *HTTP.* The handler gets the whole request, the client one whole response, and
  then the connection ends; nothing is left that refers to it. A request reaches the
  handler that was registered for it, or the best mask.
* *Containers.* Sequences, a function, a map whose items stay where they are; no cell
  lost and none in two lists.
* *Tag tree.* One owner for each tag; a search finds every tag at a path once. A parser
  returns whole documents, whatever it read before.
* *SNMP, forms.* What one side wrote is what the other side reads, at every limit.
* *Databases.* A statement is executed once by a call that succeeds and never twice.

`PROJECT.json` lists under "hazards" where in the code each of these is
delicate.

## What is modelled

```
ByteStream            what a writer is promised          (abstract)
   ^  StreamSpec
FileBuffer            pool and buffers, lists as sequences  <- FileBufferProofs
   ^  ListsSpec
BlockChain            the same with next pointers and the loop of push

NetDaemon             registry, event loop, objects, epoll  <- NetDaemonProofs
Timers                processTimers with its callbacks
   ^  EXTENDS
AsyncDNS              the resolver, the application's timers  <- AsyncDNSProofs
ProcessManager        onProcessTimer with its callbacks     <- ProcessManagerProofs
AsyncAgent            reconnecting clients                  <- AsyncAgentProofs
ControlStream         XML streams of servers and agents     <- ControlStreamProofs
HttpConnection        one connection of the web server      <- HttpConnectionProofs

Leaves                one of the following is at work, the others rest
   Queue, with Links      its cells; IsDeque: implements Deque   (abstract)
   HeavyHash, with Links  its cells; IsDict: implements Dict     (abstract)
   Stack, with Links      its cells; IsStack: implements Deque
   SafeMap, with Links    its items
   Ptr                    objects that count their pointers
   XmlTag                 the tag tree
   TagParser              one parser for several documents
   Snmp                   packets, byte by byte
   HttpForm               the contents of a form
   Router                 the routes of the web server
   MySQL                  one statement                         <- MySQLProofs
```

Every `MC*` module only gives values to the constants. Definitions called
`Mutant` in a comment are bugs to try the properties on (`PROJECT.json`,
"mutants"); they take no part in a specification.

### ByteStream, FileBuffer, BlockChain

The same code (`blockpool.cpp`, `put`, `push`, `cleanup`, `setQuota` of
`netdaemon.cpp`) at three levels.

* `ByteStream`: a descriptor has a queue; `Accept` appends all of the data,
  `Write` hands a prefix to the kernel, `Drop` empties it.
* `FileBuffer`: the free list and the chains are sequences of block numbers, and
  each call is one step, which is what the single thread makes of it.
  `Put` is refused over the quota or without blocks, and then nothing changes.
  `Push(f, n)` is a whole `push` of which the kernel took `n` bytes. `mem` holds
  the bytes, `Garbage` where nothing was written.
* `BlockChain`: the pointers `next`, `stack`, `first`, `last` and the local list
  `unused` of `push`, which is a loop with one step per `write` call. The
  refinement mapping walks the lists; a block in `unused` counts as free.

`reserve` answers -1 in both of its outcomes, so `BpPool` answers with a pool
whether the memory was there or not: its second disjunct is the failure.

### NetDaemon

`obj`, `pend`, `count` are the table; `alive`, `held`, `daemon`, `ref_count`, `fd`
the objects; `open`, `sock`, `interest` the kernel. `interest` is the epoll entry
of a descriptor: `"in"`, `"inout"`, `"off"` after an event has disarmed it. `sock`
numbers the sockets, so that the second one with a descriptor number is told from
the first; an entry of `pend` is the number of the socket its writer had.

`doActiveAction` is split where callbacks run: `Dispatch` takes one event, locks
the object and notes which handlers `onEvent` will call; `Callback` and
`HandleWrite` are the handlers; `EndDispatch` re-arms and releases. Between them
every call (`AddObject` ... `Put`) is enabled, also on the object at work. The
calls model their helpers whole: `Unregister` is `disableObject` with the
`cleanup` of the buffer, `Drop` is `release` with the destructor's `close`.

A failing `epoll_ctl` is modelled where the code meets one: a descriptor that is
closed or not in the set (`InEpoll`), and an `addObject` whose enabling fails.
Not modelled is a descriptor 0: `AsyncServer::close` leaves 0 in the object, the
number of the standard input, and an `enableObject` after it would serve the
standard input; the model never registers 0.

### Timers, AsyncDNS

`processTimers` is split where callbacks run: `BeginPass` reads the clock, `Fire`
starts the next due callback, `Fired` is its return, `EndPass` erases what was
called. `CallAt` and `RemoveTimer` are enabled throughout, except that a callback
does not remove its own timer: that erases the element under the iterator, which
is undefined, and nothing in the library does it. `expires` is an `int`:
`ToInt` wraps at `IntLimit`. `fired` and `removed` are history.

`AsyncDNS` extends `Timers` and is what runs. There is one thread, so calls come
between passes or from the callback of a pass (`Calling`). `DnsTimer` is
`AsyncDNS::timer`: it asks udns what has expired by the time it is given and sets
the next timer for the first deadline. `Submit` is `a4` and `srv`, which read the
clock themselves and call it at once; `RunDnsTimer` is the callback, with the clock
of the pass, which may be behind. So every submission starts a chain of timers of
its own, and each chain goes on while any query is active. udns is external:
`Timeouts` sends a query `Sends` times, `Interval` seconds apart, and then fails it;
an answer (`OnEvent`) ends it, or sends it to the next server. `SetTimer` and
`RemoveAppTimer` are the application's timers in the same map.

### ProcessManager

`proc`, `processes`, `who` are the kernel: what an id stands for, what became of
each process, who had an id last. `ps` is the list; `watches` the `ProcessInfo`s
with what their callbacks were told. `onProcessTimer` is split where callbacks
run: `WaitPid` reads one status and calls, `EraseEntry` is the return; `Scan`
visits the entries in the order of the map and calls for those that are gone,
`EndPass` erases. `Fork` and `BindProcess` come from the application between the
passes or from a callback. Processes that are not watched and children the
application forked itself exist too, and use up ids.

`ReuseInPass` says whether the kernel may give out an id whose entry the pass is
about to erase. The pass runs use FALSE: the kernel gives ids in turn, so one
comes back only after all the others. With TRUE `NeverForgotten` fails, as it
does in the code: the callback at `processmanager.cpp:114` forks, the child gets
the id that `waitpid` has just freed, and `ps.erase(pid)` on the next line removes
the new entry.

### AsyncAgent

One action per event: `Start` and `StartFails` (`startConnection` by the
application, with and without a socket), `TimerStarts` and `TimerRetries`
(`reconnectTimer`), `AnswerConnects` and `AnswerFails` (`on_connect_a4`),
`PeerGone` (`onPeerDown`, `onAsyncError`). `Reconnect` is `reconnect()` with the
callers' `disableObject`. `open` is the descriptor table of the process, shared
by the agents; `told` and `starts` are history. A query that is accepted is
answered once; `SubmitMayFail` lets the resolver refuse one.

### ControlStream

One module for `ControlStream` (a server's stream, `agent` FALSE) and `ControlAgent`
(`agent` TRUE). *Speaking*: `out` is the record of the stream's `state`, the writer's
`outbuf` and `opened`, and the descriptor's buffer `pend`; output is counted in pieces
(declaration, `<stream`, `>`, stanza, end), and the functions on `out` have the names
of the methods they translate. `sendStanza` puts its piece past `outbuf`. `said` is
where the peer is in the XML grammar after what it has read. *Hearing*: `parser` and
`level` are expat, `depth` the stream's counter, `stack` and `presult` the builder's.
Start tags are numbered, so that `stanza` can tell what `onStanza` got from what was
sent. Each `App...` action is a call the application may make at any time; parse
errors, the peer's end and asynchronous errors come at any time too.

Two of the code's habits limit what `WellFormed` can say, and `gap` notes them:
`openStream` leaves the header in the writer's buffer, so a stanza that is sent before
the flush overtakes it (also the one of `onParseError`), and a reconnect does not
reset the writer, so a header that was not flushed is sent on the next connection.
An application that flushes in the callback in which it opens meets neither.

A put is refused whole for the descriptor's quota or because the pool has no block for
it, which depends on the sizes of data and on the other descriptors: `full` has the
pieces with which such data would end, `Others` changes it at any time, and so the puts
of one call may be refused independently of each other. The quota may be less than the
writer's buffer. The writer forgets what was refused (`gap`).
That has a consequence for `closeStream`: if all that it flushes is refused while the
descriptor has nothing else to write, `onEmpty` never comes and the stream stays in
`CLOSING` with its socket, also when the pool has blocks again: closing it a second time does nothing.
`Leaves` excuses this case and no other; without the excuse TLC finds it (a parse error
on a fresh connection while the pool is empty).

### HttpConnection

One accepted connection with its request, response and handler. A request is a word
of five kinds of bytes (header, the two halves of the empty line, body, what comes
after); `Read` feeds any prefix of what was sent, and calls the handler for every
chunk once the request is complete, as `onRead` does. A handler does one of three
things: makes a page, calls `sendFile`, or waits for a file or a function with a timer;
`TimerFinishes` calls it again. Output is counted in pieces: a page, the header of a file,
and its bytes by their position. `Write` is the kernel taking a part, with `onEmpty`
after the last piece. `full` stands for the other connections, which may have all of the
blocks, and `quota` for the descriptor's own limit; a put is refused for either.

The properties excuse what the code does not do, each by a name of its own: a request
whose empty line is cut in two (`split`) is not found, a body that ends in a later chunk
than the header (`late`) is not parsed, a refused put (`refused`) is not noticed, each
chunk after the request is answered again (`extra`), and a file whose size is a multiple
of the chunk (`Excused`) ends with a put of nothing, after which `onEmpty` does not come.

### Leaves

These components call nothing else of the library, so `Leaves` instantiates all of
them and lets one (`part`) be at work in a behaviour; its properties are theirs.

* `Queue`, `Stack` and `HeavyHash` have the fields of the object in a record, with cells as
  numbers and pointers as numbers of cells; each call is one step. Their abstract
  modules `Deque` and `Dict` are a bounded sequence and a function, and the
  refinement reads the lists with `ListFrom` of `Links`. `LastMayDangle` and
  `ZeroedHeap` name the two places where the code is not a queue or a hash table
  (see below); `Hash` is any function of the keys. A stack is pushed only while it has
  a free cell: its `allocItem` does not look.
* `SafeMap` has a `std::map` (`index`) into an array of items with a free list;
  `again` counts the additions that lose an item.
* `Ptr`: variables and objects with a pointer each. `Assigned` is `operator =`, which does
  nothing for the same object and otherwise releases the old one, with all that it alone
  keeps alive, before it locks the new one. `Places` is what an application can name;
  `SourceMayDie` lets it assign from an object that dies of the assignment.
* `XmlTag`: every call an application makes on a tag it can reach. Deleting a tag
  runs the destructors below it (`Destroyed`). `Find` and `FindNext` follow the
  recursion of the code; `Matches` is the reference: all tags at a path in the
  order of the document.
* `Snmp`: `Reset` to `Commit` write the bytes of a request, in any order of calls
  and with the bytes `reset` leaves unset as `Stale`; `Answer` is an agent (external)
  that writes a response or a trap as BER asks; `Parse` is the parser as an operator
  on the bytes, called on every packet and on all its beginnings.
* `HttpForm`: a user fills in fields, a browser (external) writes them as a query,
  a multipart body, cookies and a password, and `ParseQueryString` and the others
  read them. A text is a sequence of codes, words whose letters do not matter are
  one code.
* `TagParser`: an `ATTagParser` is asked for one document after another. A document is
  a sequence of start tags and end tags, with something at its end that is not
  well-formed or that is cut off; `Feed` is
  expat (external) with the handlers it calls. What is cut off is held back: only the
  final piece makes it an error, and only `parseString` says that a piece is final.
  After an error or a final piece expat refuses everything. `ParseStream` and `ParseString` are the calls, each on what the
  last one left in the parser and in the builder. A tag is written as its depths, so
  that `ResultRight` can compare it with `heard`, all that the parser has read.
* `Router`: `Route` is `get`, `post` and `route`; `HandleRequest` is asked about every
  request in every state. A path is a sequence of words and a word a number, so that
  `Before` is the order of the masks' regular expressions in their `std::map`: a hole
  is `([^/]+)`, which comes before every letter.
* `MySQL`: one statement, its attempts and what may break between them. `Calls` is
  `MySQL::queryRaw`, which repeats after two errors, `EasyCalls` is
  `EasyMySQL::real_query`, which repeats after one.

## What is checked

| Run | Question | Bounds |
|---|---|---|
| `FileBuffer_bytes` | Are blocks accounted for, each in one place (`EveryBlockOnce`), and is every buffer a byte queue of its own (`StreamSpec`)? | 2 descriptors, 3 blocks of 2 bytes reserved in one go or in two, 2 byte values, puts of 1 to 4 bytes, quotas none and 3 |
| `BlockChain_lists` | Do the lists end, is `last` the end (`ListsSound`), and do the pointers implement the sequences (`ListsSpec`)? | the same blocks, puts of 1 and 3 bytes, quotas none and 2 |
| `NetDaemon_streams` | Do table, objects, kernel and buffers agree (`NoGhost`, `StaysArmed`, `NoStaleBytes`), and does waiting data move (`DataMoves`)? | 2 streams, 2 descriptors, 3 sockets, 2 entries in a buffer |
| `NetDaemon_servers` | Are the counter and the references exact (`CountRight`, `RefsRight`) and is the epoll set (`NoOrphan`), also around a server's close and of streams that write before they are enabled? | a stream, a server, 2 descriptors, 3 sockets, 1 entry in a buffer |
| `AsyncDNS_answers` | Is each timer called once and in time (`CalledOnce`, `CalledOrRemoved`), is every active query watched by a timer (`Watched`), and does it come to an answer (`Answered`)? | 2 queries sent twice 2 seconds apart, 2 submissions, 1 timer of the application 1 or 2 seconds ahead, 9 timers, 4 seconds |
| `ProcessManager_once` | Called once, with the truth (`ToldRight`), never forgotten (`NeverForgotten`), told in the end (`Told`)? | 2 ids, 3 processes, 2 watches |
| `AsyncAgent_connects` | One timer (`FlagIsTimer`), own sockets, woken, told, no leak, connected again (`Connects`)? | 2 agents, 3 starts of each, 6 sockets |
| `ControlStream_document` | One document for each connection, stanzas whole, depth right, and a closing stream leaves (`Leaves`)? | writer's buffer of 3 pieces, quota of 5, five shortages of the pool (none, everything, a stanza, the last word, both), 2 connections, 5 start tags |
| `HttpConnection_answers` | Does the handler get the whole request (`HandledWhole`), the client one response (`OneResponse`), is no timer left (`NoStaleTimer`), and does the connection end (`Closes`)? | chunks of 2 bytes, files of 0 to 3, bodies of 0 and 2, 0 or 1 byte after it, quotas none and 1, a wait of 2 seconds |
| `Leaves_sound` | Are the containers sequences and a function (`ContainersRight`) that leak no cell, and counted objects alive as long as there are pointers (`CellsAccounted`); is the tag tree owned once and searched to its end (`TagsFound`); is every packet understood (`SnmpUnderstood`), every form (`FormsArrive`); does a request find its handler (`RequestsRouted`); does a parser return whole documents only (`DocumentsParsed`); is no statement executed twice (`StatementOnce`)? | 3 cells, 4 keys of which three collide, 2 values; 3 objects with a pointer each, 2 variables; 5 tags and texts with 2 names, paths of 1 to 3; 2 identifiers in a packet, 12 values; 2 fields of 2 names and 7 values; 3 routes besides the root's, all masks of two words, 7 paths; 3 documents with 5 beginnings and ends of tags, errors and cuts |
| `NetDaemon_serverclose`, `ControlStream_torn` | [Where code and comments disagree](#where-code-and-comments-disagree) | as above |

A module's type invariant is a conjunct of one of its safety properties (of `NoOrphan` in
`NetDaemon`, of `WokenOnce` in `AsyncAgent`, of the first in the others).

Why the bounds are enough. *Buffers*: with blocks of two bytes and puts of up to
four, data begins and ends at every place in a block, spans three blocks, and
two descriptors fight for the last one. *Registry*: three sockets on two numbers
give a number a second owner while the first object still lives; two streams are
enough for "the other object". *Timers and resolver*: two queries with a timer of
the application give a pass with up to three callbacks, of which one sets its
successor and one removes another; four seconds are two intervals, so a query is
sent again and fails; the nine timers are what two chains and the application can
set in that time. *Processes*: three processes on two ids
use an id again; two watches are the one called and the one its callback makes.
*Agents*: with three starts an agent is started again both while it waits for
the timer and while it is connected, and six sockets are as many as these starts
can lose. *XML streams*: five tags make a root and two stanzas with tags in them; the
writer's buffer is passed over and runs full within a header, the quota refuses both
stanzas and ends; the second connection is the one that may find something left. *HTTP*: files of up to
three bytes in chunks of two are empty, short, exactly a chunk, and longer; two header
bytes, the empty line and two body bytes are cut in every place. *Containers*: four
keys on three cells fill the heap, and a list of three cells has a first, a middle and
a last one to delete. *Pointers*: three objects
make a chain that dies as a whole, and circles. *Tags*: five tags make two branches with a tag each below a
root, which is what `findNext` has to cross, and a branch of three. *Packets*: parts of
identifiers and integers at the limits of one, two and more bytes, and a text that
needs the long form of a length. *Forms*: each value has one kind of character that
parts something on the way, and two fields make it stand first and last. *Routes*: three
registrations let two masks fit a path and a third replace one of them. *Documents*:
five events are a root with two tags in it cut anywhere in three calls, or two documents.

The VIEW of `Leaves_sound` reads a tag tree by its shape, since which tag has which
identifier makes no difference to any call or property.

The agents' run shows two things about further starts that its comments do not
say: a connected agent that is started again forgets its connection without
telling the application (so `OneThingAtATime`, which is part of `WokenOnce`, and
`ToldTruth` are about agents that are started once), and every start after the first may lose the socket it
finds (`NoSocketLeak` charges it with them). With fewer descriptors than that, `Connects`
fails for want of a socket. `SubmitMayFail` is FALSE in it: with TRUE `WokenOnce`
fails.

### Fairness

* `NetDaemon`: `epoll_wait` is asked for one event and the kernel rotates its ready
  list, so a descriptor that is armed and writable again and again is reported
  again and again (strong fairness per descriptor); the thread that took an event
  goes on with it (weak fairness of the handler steps). Nothing is assumed of the
  application's calls.
* `AsyncDNS`: the clock moves, `run()` starts a pass after it has moved (it compares
  hundredths of a second, so there is always a later pass), and goes on with a pass
  it is in, callbacks included. Nothing is assumed of the network or of the
  application.
* `ProcessManager`: `processTimers` runs again and again, and callbacks return.
  Processes need not end.
* `AsyncAgent`: a timer is called (which is `CalledOrRemoved`), a query is
  answered (which is `Answered` of `AsyncDNS`), and a socket and a connect work again and again:
  without that no client could promise to connect. Peers may go at any time.
* `ControlStream`: the descriptor of a stream is written when data waits, which is
  `DataMoves` of `NetDaemon`; nothing else, so the pool need never have blocks again.
* `HttpConnection`: the same, what the client sent is read, and timers are called. The
  client need not go.

## What is proved

TLAPS checks these for every value of the constants that the module's named
assumption allows. Each bullet gives the further hypotheses, if any; they are the
ones the text above explains, and TLC shows each to be needed.

| Module | Theorems, with the property of the runs that each states |
|---|---|
| `FileBufferProofs` | `BlocksCorrect` (`EveryBlockOnce`), `StreamCorrect` (`StreamSpec`); of `BlockChain`: `ListsCorrect` (`ListsSound`), `ChainImplementsLists` (`ListsSpec`) |
| `NetDaemonProofs` | `TypeCorrect`, `CountCorrect` (`CountRight`), `RefsCorrect` (`RefsRight`), `NoOrphanCorrect` (`NoOrphan`), `StreamNeverGhost`, `StreamStaysArmed`, `NoGhostCorrect` (`NoGhost`), `ArmedCorrect` (`StaysArmed`), `BytesCorrect` (`NoStaleBytes`) |
| `AsyncDNSProofs` | `CalledOnceCorrect` (`CalledOnce`), `WatchedCorrect` (`Watched`) |
| `ProcessManagerProofs` | `ToldCorrect` (`ToldRight`), `HeldCorrect` (`NeverForgotten`) |
| `AsyncAgentProofs` | `TypeCorrect`, `FlagCorrect` (`FlagIsTimer`), `SocketCorrect` (`OwnSocket`), `NeverTwoThings`, `WokenCorrect` (`WokenOnce`), `ToldCorrect` (`ToldTruth`), `LeakCorrect` (`NoSocketLeak`) |
| `ControlStreamProofs` | `DepthCorrect` (`DepthRight`), `StanzaCorrect` (`StanzaWholeUnlessTorn`), `DocumentCorrect` (`WellFormed`), `LastWordCorrect` |
| `HttpConnectionProofs` | `WholeCorrect` (`HandledWhole`), `ResponseCorrect` (`OneResponse`), `TimerCorrect` (`NoStaleTimer`) |
| `MySQLProofs` | `OnceCorrect` |

* **FileBufferProofs**. `EveryBlockOnce` is inductive as it stands, because its parts
  are proved together: that no block is in two places, that `free_count` is the length of the one, and that a chain has
  `BlocksFor(offset + size)` blocks need each other, since `Put` takes the number of
  blocks that the arithmetic asks for and `Push` gives back those that it calls done.
  The first lemmas are about quotients (`DivMod` and what follows), the next about
  cutting and joining sequences without repetition. `StreamCorrect` is the refinement:
  the mapped queue reads byte `i` of a chain at block `1 + i \div BlockSize`, so a `Put`
  must write every byte of its data where the mapping reads it and no byte that another
  descriptor's mapping reads. That is where `EveryBlockOnce` is used: distinct places of
  all chains are distinct cells of `mem`. Every action maps to `Accept`, `Write` or
  `Drop` of its descriptor or to a stutter.
  About `BlockChain`, with variables of its own, the invariant is `Held`: there are a free
  list, a local list of `push` and a chain for each descriptor, all without a common
  block, that the pointers spell out. From it follow what `ListOf` reads (`ListsCorrect`)
  and that each step is one of `FileBuffer` on these lists (`ChainImplementsLists`); its
  only hypothesis is that `NoFd` is no descriptor.
* **NetDaemonProofs**. `count` is the number of table entries and each
  `ref_count` the number of references there are, so an object lives exactly
  while something refers to it. The first inductive invariant is
  `IInv == Types /\ CountRight /\ RefsRight`: that a count stays a natural number
  when it goes down is no matter of types, it follows from what it counts. So
  `Types` has integers there, and `TypeOK` follows. The lemmas `EntryAdded` and
  `EntryRemoved` count sets that differ in one element; `UnregisterCounts`,
  `RegisterCounts`, `DropRefs` say what the helpers do to the counts, and there is
  one lemma per action. Failing `epoll_ctl` calls, the server's wrong order and
  early writes are all in the specification that is proved about.
  `TableInv` adds what table, objects and kernel know of each other: `OwnFd` (a
  descriptor that an object knows is open and no other object's), `StreamsServed` (an
  entry of a *stream* is under its own descriptor and in epoll) and `NoOrphanEntry`. `NoGhost`
  itself is not inductive with servers, nor true: what is proved for every daemon is
  that it holds of the streams' entries (`StreamNeverGhost`), and with `Server = {}` of
  all (`NoGhostCorrect`). The same two steps give `StreamStaysArmed`, unconditional, and
  `ArmedCorrect`. So a server's close harms the server and the count of `run()`,
  and never a stream that shares the daemon with it, beyond the number it
  blocks. `BytesCorrect` has the hypothesis `~EarlyPut`, which is the data that goes
  to the next socket under [Where code and comments disagree](#where-code-and-comments-disagree).
* **AsyncDNSProofs**, under `MaxTime + Interval < IntLimit`: without
  it the theorems are false, since a deadline that does not fit an `int` is due at
  once. `TimersInv` adds to `CalledOnce` where a pass is: what is in `to_del` was called
  once and is behind the iterator, a timer without a callback is in `to_del`, and a
  timer that was set in the pass is later than the clock of the pass, which is why the
  pass does not reach it. `Watched` needs two more: `ChainsRight` (the resolver's timers
  are in the map, not called yet and nobody else's, so the application removes none of
  them) and `QueriesRight` (a deadline is at most `Interval` ahead, so it fits an `int`).
* **ProcessManagerProofs**. `ToldRight` needs to know how the kernel's view and the list hang
  together: `ProcInv` (who has an id and what became of them), `PassInv` (what a
  pass may erase: in the loop of `waitpid` the one it calls back, in the scan what it has
  visited) and `EntryInv` (an entry that is not about to be erased was not called; that of
  a forked child is under the id of a process whose end nobody has read, which is what
  makes the status `waitpid` gives the right one). It holds without any hypothesis, also
  when an id is used again in the middle of the pass: then a watch is lost, and still none
  is told twice or of somebody else's end. That none is lost, `HeldCorrect`, has the
  hypothesis `~ReuseInPass`, and its own invariant says that what a pass is about to
  erase was called (`KeysTold`).
* **AsyncAgentProofs**. The flag is the timer; the socket of an agent is open and
  nobody else's. The three are inductive together (`IInv`): at most one timer (the type)
  is what makes the flag's equality survive `TimerStarts`, and a lowest free
  number is nobody's only because every number in use is open. `AgentInv` says of one agent
  what may wake it: an agent that was started once has at most one of a timer, a query and
  a watched socket (`NeverTwoThings`), and at least one unless a query may be refused, which is
  the hypothesis `~SubmitMayFail` of `WokenCorrect`. `Frame` says that a step of one agent
  changes nothing of another, so each is looked at alone. `LeakCorrect` cannot: the sockets are
  shared. Its invariant `ChargeInv` charges every lost socket to an agent so that the
  sockets charged to it, the one it uses and the one that its timer will make are at most
  its starts. The property speaks of such a charge, not of the sums over all agents that
  it amounts to.
* **ControlStreamProofs**. `Read(at, pieces)` is where the peer's grammar is after some
  pieces. The lemmas on it (`ReadConcat`, `ReadAppend`, `ReadBad`, `ReadPart`: reading two
  parts one after the other is reading both, and a part of a good document is good) are
  proved by induction on the length. The invariant of the speaker is `Phase`:
  how far the peer will be once it has read all that waits in the descriptor and in the
  writer's buffer, as a function of `state` and `opened`; after it each method keeps the
  phase (`SendKeeps`, `CloseKeeps` and so on). That of the listener is `BuilderInv`: the
  stack is as high as the depth asks for, the tags on it are those of the stanza so far, and the
  finished tag is empty. `DepthRight` and `StanzaWholeUnlessTorn` follow.
  `LastWordCorrect` is the safety half of `Leaves`: a server's stream that is closing
  and there has data in the descriptor's buffer, unless there is a gap. Its invariant is
  that the peer has not read the end yet (`NotDone`), because the write that hands it over
  empties the buffer (`ReadEnd`: nothing comes after the end) and the stream leaves.
  The proof showed that the model needs at least one connection (`MaxConn \in Nat \ {0}`),
  since a server's stream begins on its first.
* **HttpConnectionProofs**. Three invariants, one on top of the other. `ReadInv`: what
  the request was fed with is a beginning of what the client sent and the rest is in the wire,
  and the request holds of it what belongs to the header and to the body (`Fed`); with
  `HttpAssumption` that is `HandledWhole`. `RespInv`: a response's only armed timer
  is the one whose number it keeps, and a deleted connection waits for nothing, so none is
  left. `AnswerInv`: of a client that sends nothing after its request, no answer exists before the
  request is complete and nothing is left to read after it (`AllRead`: that is why `onRead` does not call
  the handler twice), and while a file is sent the pieces so far are the header and exactly the
  bytes before `sending`.
* **MySQLProofs**: `OnceCorrect`, under `~AnswerMayBeLost \/ "LOST" \notin RetryErrors`:
  an attempt that is followed by another has executed nothing.

The inductive invariants were given to TLC on the runs' instances before they were proved.
Some definitions have the form they have for the proofs: `NoSocketLeak` says which agent is
charged with which lost socket, rather than compare a count with a sum; `Scan` of
`ProcessManager` takes the least entry that is left by a quantifier, and `Read` of
`ControlStream` is a recursive function.

Only model-checked:

* Liveness (`DataMoves`, `CalledOrRemoved`, `Answered`, `Told`, `Connects`, `Leaves`, `Closes`):
  under fairness, out of the prover's reach.
* `ContainersRight`, `CellsAccounted`, `TagsFound`, `SnmpUnderstood`, `FormsArrive`, `RequestsRouted`,
  `DocumentsParsed` and `StatementOnce` of `Leaves`: several of its components are written with
  recursive operators, as their code is, and the prover has no arithmetic in a module that
  reaches one. `StatementOnce` is `Once` of `MySQL`, which is proved there.

Recursive *functions* are no obstacle: `Read` of `ControlStream` is one, and what it computes is
proved for every sequence. The induction principles of the library that take an operator cannot be
used, so it is derived for sets, from the well-foundedness of `<` (`SmallestOf`,
`NatSetInduction`).

## Where code and comments disagree

Each is a run that TLC must find violated; `PROJECT.json` quotes the lines.

* `AsyncServer::close` (asyncserver.cpp:106) closes the descriptor before the
  object leaves epoll. `disableObject` then fails and returns early: the table
  keeps the entry, the loop counter never reaches 0, and the next socket with
  the number cannot be enabled (`NetDaemon_serverclose`).
* `ATTagBuilder::reset` is said to delete the unfinished tag and does nothing unless
  there is a finished one. After a connection lost in the middle of a stanza the next
  one's first stanza becomes its child, and `onStanza` gets NULL
  (`ControlStream_torn`; `StanzaWholeUnlessTorn` is what holds).

More was seen and has no run; no comment says otherwise, or it is excused in a property
by name:

* `putInBuffer` accepts data for an object that is not enabled, and `disableObject`
  does not clean the buffer of an object that is not in the table: the data goes
  to the next socket with the number. `NetDaemon_streams` has `EarlyPut` FALSE; with
  TRUE it violates `NoStaleBytes`.
* `startConnection` (asyncagent.cpp:140) does not look at the answer of `a4`. A query
  that udns refuses leaves the agent in `RESOLVING` with no query and no timer, for
  ever, where every other failure calls `reconnect` (`SubmitMayFail` of `AsyncAgent`).
* `AsyncUDPServer::close` (asyncudpserver.cpp:129-137) has the order of `AsyncServer::close`.
* `timer::expires` is an `int`: from 2^31 seconds on a timer is due at once (`ToInt` of
  `Timers`, whose run stays below `IntLimit`).
* `Queue`: `pushFirst` into an empty queue does not set `last`, and `searchAndDel` of the
  last cell does not move it (queue.h:158-168, 228-240). The next `push` follows a pointer
  that is NULL or to a free cell (`LastMayDangle`).
* `HeavyHash`: the constructor sets neither `hash_table` nor the last `next` (heavyhash.h:
  127-138), so it works in memory that happens to be zero (`ZeroedHeap`).
* `SafeMap::dirtyAdd` of a key that is in the map loses the key's item (`again`).
* `closeStream` does not look at whether its last word was accepted (xmlwriter.cpp:38-45):
  see [ControlStream](#controlstream).
* `ATTagParser::parseStream` never says that a piece is the final one, so a document with
  something cut off behind its root (an open comment, a lone `<`) gives its tag, where the
  comment promises NULL on an error (attagparser.cpp:49). `ResultRight` says so.
* `ATTagParser` does not reset expat, so a parser that has read one document refuses every
  other; a document that is resumed in a second call counts its depths anew.
  `parseString` resets nothing after a failure (attagparser.cpp:86-90): after one that failed
  behind its root, a stream of nothing returns that root (`EmptyAfterFailure` of
  `TagParser`; with TRUE it violates `ResultRight`).
* `ptr::operator =` releases the old object before it reads and locks the new one
  (object.h:107-115): `p = p->next` reads freed memory if `p` was the last pointer
  (`SourceMayDie` of `Ptr`). A pointer that is made for an object without one and goes
  again, as in a call by value (129), deletes the object.
* `Stack::push` on a full heap dereferences NULL (stack.h:75-76); `Queue` and `SafeMap` look.
* `Sqlite3::queryRaw` (sqlite3.cpp:92-101) repeats after every error what it was told to do, on
  a connection it opens anew: an open transaction is gone, the rows that came before the
  error are given twice, and its caller is told of no failure.
* `MySQL::queryRaw` repeats a statement after `CR_SERVER_LOST` (mysql.cpp:132), which the
  server may have executed; `EasyMySQL` has that error commented out
  (easymysql.cpp:47). `AnswerMayBeLost` with both errors violates `Once`.
* `ASN1Reader::readInt` puts an INTEGER of three bytes at the top of an array of four and
  reads four bytes from there, one of them above the array (asn1reader.cpp:79-98; `Above`
  of `Snmp`); `readTimeticks` keeps a `short`; `saveOID` and `addNull` write a length in one
  byte. The run's values avoid the three.
* `urldecode` is not called for names, ends a value at `%00`; `handleBasicAuth` cuts a
  password at a colon, and asks for two parts but goes on with fewer; a multipart
  form whose lines end with LF keeps a line end in its values.
* `bpPool` is said to answer NULL when the pool cannot be extended, and never does
  (`BpPool` of `FileBuffer`).
* The web server's five habits listed under [HttpConnection](#httpconnection). "When
  we are done we just close the connection" (httpconnection.cpp:74) does not come true
  after an empty file or one of a multiple of 4096 bytes.

## What is not modelled

* *Inside the modelled files*: `BlockPool::clear` (destructor only), signal handling,
  `setSleepTime`, `prepareExec`, the global timer (called in every pass), the bytes
  a stream reads, `shutdown` flags, `processExists`.
* *Threads*: the library starts none and takes no lock; "thread-safe" in comments
  (netdaemon.h:412, controlstream.h:157) has none behind it.
* *XML*: escaping, attributes, name spaces, `asString` and `clone`.
* *HTTP*: the words of the request line, files in multipart bodies, templates, logging; `sendSmallFile`, which makes a page. A deleted connection takes no
  part in the rest of the event it was deleted in.
* *Containers*: `map.h`, `easyvector.h`, `easylist.h`, which wrap the standard containers.
* *UDP server*: `recvfrom`, `sendto` and the socket options, one system call each.
* *Databases*: results, rows, quoting, transactions, SQLite (see above).
* *Life of objects used by raw pointers*: an agent that is destroyed while its timer or
  query is pending (asyncagent.cpp:162), and a connection that deletes itself in the
  middle of an event (httpconnection.cpp:81): the objects of `AsyncAgent` live for
  ever, and a step of `HttpConnection` is one handler.
* *Result sets, address helpers, logger, configurer*: stateless
  or wrappers of libraries; nothing for a model checker. Two were seen on the way:
  `parse_mac_8` (iputils.cpp:123-139) shifts by a negative number for the last two bytes.
* *json.hpp, inja.hpp*: third-party; they are 29,414 of the 43,922 lines of the
  implementation.

## Plan

Done, in this order: `FileBuffer` with `ByteStream`, `BlockChain`, `NetDaemon`, `Timers`,
`AsyncAgent`, `ProcessManager`, `ControlStream`, `HttpConnection`; then `AsyncDNS` on `Timers`
and the leaves; proofs for `NetDaemon`, `AsyncAgent`, `AsyncDNS` and `MySQL`; then of all the
safety properties of the runs outside `Leaves`, with the refinements of `ByteStream` and of
`FileBuffer`.

Left: the life of objects that are used by raw pointers (`NetDaemon` composed with
`HttpConnection` and `AsyncAgent`), files in multipart bodies; theorems
about the containers of `Leaves`.
