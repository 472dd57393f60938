---------------------------- MODULE ControlStream ---------------------------
(***************************************************************************)
(* An XML stream of a control connection: ControlStream (controlstream.cpp) *)
(* on the server's side, and ControlAgent (controlagent.cpp), which        *)
(* reconnects, on the client's.  What it says goes through the buffer of   *)
(* XMLWriter (xmlwriter.cpp), except for stanzas, which go around it, into  *)
(* the output buffer of the descriptor; what it hears comes from the       *)
(* parser (xmlparser.cpp, expat) to the tag builder (tagbuilder.cpp).      *)
(* How ControlAgent gets its connections is in AsyncAgent: the code is the *)
(* same.                                                                   *)
(***************************************************************************)
EXTENDS Integers, Sequences, SequencesExt

\* What is said, in pieces: the XML declaration, a part of the stream's tags or a stanza.
Piece == {"<?xml?>", "<stream", ">", "/>", "</stream>", "stanza"}

CONSTANTS
  BufLen,     \* the buffer of XMLWriter, in pieces of output
  MaxPend,    \* the quota of the descriptor's buffer in pieces, or what the pool has
              \* for it when it has none
  Shortages,  \* bound: what shortages of the pool come up, see full
  MaxConn,    \* bound: connections of an agent
  MaxTag      \* bound: start tags heard in a run

ASSUME StreamAssumption ==
  /\ BufLen \in Nat \ {0} /\ MaxPend \in Nat
  /\ Shortages \subseteq SUBSET Piece
  /\ MaxConn \in Nat \ {0} /\ MaxTag \in Nat

VARIABLES
  agent,     \* a ControlAgent, or a ControlStream
  link,      \* "up", "down", or "left": it has left the daemon
  conn,      \* connections so far
  out,       \* what is said: see Speaker
  full,      \* the pieces with which data ends that the pool has no blocks for
  said,      \* how far the peer is in the document it was sent: see Grammar
  parser,    \* expat: "open", "done" after the root's end, or "broken"
  level,     \* expat: the open elements
  depth,     \* ControlStream::depth
  stack,     \* the builder's open tags; a tag is the set of the tags in it
  presult,   \* the builder's finished tag, {} for NULL
  heard,     \* start tags so far: they are numbered
  current,   \* the tags of the stanza that is being received
  stanza,    \* the last one given to onStanza, and what it should have been
  torn       \* a connection was lost in the middle of a stanza

hearing == <<parser, level, depth, stack, presult, heard, current, stanza, torn>>
vars == <<agent, link, conn, out, full, said, hearing>>

(***************************************************************************)
(* Speaking.                                                               *)
(***************************************************************************)
\* state; outbuf and opened of XMLWriter; pend, the buffer of the descriptor;
\* gap: a piece the writer had taken was lost, passed by a stanza, or left over from
\* the connection before.
Silent == [state |-> "INIT", outbuf |-> <<>>, opened |-> FALSE, pend |-> <<>>, gap |-> FALSE]

\* Whether there are blocks for data depends on its size, on the room in the last block
\* and on the other descriptors; nothing takes no room.
Fits(o, pieces) ==
  pieces # <<>> => Last(pieces) \notin full /\ Len(o.pend) + Len(pieces) <= MaxPend

\* AsyncStream::put: all of it, or nothing.
Put(o, pieces) == IF Fits(o, pieces) THEN [o EXCEPT !.pend = @ \o pieces] ELSE o

\* flushBuffer: the buffer is empty afterwards whatever put answered.
FlushBuffer(o) ==
  [Put(o, o.outbuf) EXCEPT !.outbuf = <<>>, !.gap = o.gap \/ ~Fits(o, o.outbuf)]

\* output: fill the buffer and flush it when it is full.
Output(o, piece) ==
  LET w == [o EXCEPT !.outbuf = Append(@, piece)]
  IN  IF Len(w.outbuf) = BufLen THEN FlushBuffer(w) ELSE w

\* compliteTag
CompliteTag(o) ==
  IF o.opened THEN [Output(o, ">") EXCEPT !.opened = FALSE] ELSE o

\* initXML, startElement("stream"), setAttribute
StartDocument(o) ==
  [Output(CompliteTag(Output(o, "<?xml?>")), "<stream") EXCEPT !.opened = TRUE]

\* endElement("stream")
EndDocument(o) ==
  [Output(o, IF o.opened THEN "/>" ELSE "</stream>") EXCEPT !.opened = FALSE]

\* flush
Flush(o) == FlushBuffer(CompliteTag(o))

OpenStream(o) ==
  IF o.state = "INIT" THEN [StartDocument(o) EXCEPT !.state = "ACTIVE"] ELSE o

Buffered(o) == o.opened \/ o.outbuf # <<>>

\* Mutant: the state is not looked at.
SendStanzaAlways(o) == Put(o, <<"stanza">>)

\* sendStanza puts the stanza past the writer's buffer.
SendStanza(o) ==
  IF o.state = "ACTIVE"
  THEN [Put(o, <<"stanza">>) EXCEPT !.gap = @ \/ (Buffered(o) /\ Fits(o, <<"stanza">>))]
  ELSE o

\* Mutant: the last word is not flushed.
CloseStreamUnflushed(o) ==
  [(IF o.state = "ACTIVE" THEN EndDocument(o) ELSE o) EXCEPT !.state = "CLOSING"]

\* closeStream; a stream that was not opened leaves the daemon as well.
CloseStream(o) ==
  [(IF o.state = "ACTIVE" THEN Flush(EndDocument(o)) ELSE o) EXCEPT !.state = "CLOSING"]

\* onParseError: open the stream if need be, complain, close it.
Complain(o) ==
  CloseStream(SendStanza(IF o.state = "INIT" THEN Flush(OpenStream(o)) ELSE o))

(***************************************************************************)
(* The application's calls, made while it has a connection.                *)
(***************************************************************************)
AppOpens ==
  /\ link = "up" /\ out.state = "INIT"
  /\ out' = OpenStream(out)
  /\ UNCHANGED <<agent, link, conn, full, said, hearing>>

AppFlushes ==
  /\ link = "up"
  /\ out' = Flush(out)
  /\ UNCHANGED <<agent, link, conn, full, said, hearing>>

AppSends ==
  /\ link = "up"
  /\ out' = SendStanza(out)
  /\ UNCHANGED <<agent, link, conn, full, said, hearing>>

AppCloses ==
  /\ link = "up"
  /\ out' = CloseStream(out)
  /\ link' = IF out.state = "INIT" THEN "left" ELSE link
  /\ UNCHANGED <<agent, conn, full, said, hearing>>

(***************************************************************************)
(* The descriptor is writable.                                             *)
(***************************************************************************)
\* How a document goes on after a piece.
Grammar(at, piece) ==
  CASE at = "start" /\ piece = "<?xml?>"   -> "declared"
    [] at = "declared" /\ piece = "<stream" -> "header"
    [] at = "header" /\ piece = ">"         -> "body"
    [] at = "header" /\ piece = "/>"        -> "end"
    [] at = "body" /\ piece = "stanza"      -> "body"
    [] at = "body" /\ piece = "</stream>"   -> "end"
    [] OTHER -> "bad"

\* Where the peer is after some pieces.
Read(at, pieces) ==
  LET after[i \in 0..Len(pieces)] ==
        IF i = 0 THEN at ELSE Grammar(after[i - 1], pieces[i])
  IN  after[Len(pieces)]

\* handleWrite: the kernel takes some pieces; with the last one comes onEmpty, and
\* a ControlStream that is closing leaves (onStreamClosed; a ControlAgent stays).
Write ==
  /\ link = "up"
  /\ \E n \in 1..Len(out.pend) :
       /\ said' = Read(said, SubSeq(out.pend, 1, n))
       /\ out' = [out EXCEPT !.pend = SubSeq(@, n + 1, Len(@))]
       /\ link' = IF n = Len(out.pend) /\ out.state = "CLOSING" /\ ~agent THEN "left" ELSE link
  /\ UNCHANGED <<agent, conn, full, hearing>>

\* The other descriptors take blocks of the pool, or give some back.
Others ==
  /\ full' \in Shortages
  /\ UNCHANGED <<agent, link, conn, out, said, hearing>>

(***************************************************************************)
(* Hearing.                                                                *)
(***************************************************************************)
\* onStartElement: from the second level on the builder gets the tag.
StartTag ==
  LET n == heard + 1
  IN  /\ link = "up" /\ parser = "open"
      /\ heard < MaxTag
      /\ heard' = n
      /\ level' = level + 1
      /\ depth' = depth + 1
      /\ stack' = IF depth = 0 THEN stack ELSE Append(stack, {n})
      /\ current' = IF level = 0 THEN {} ELSE IF level = 1 THEN {n} ELSE current \cup {n}
      /\ UNCHANGED <<agent, link, conn, out, full, said, parser, presult, stanza, torn>>

\* The builder's open tags and its result after endElement of the top tag.
Merged == LET top == Last(stack)
              rest == Front(stack)
          IN  IF rest = <<>> THEN <<>> ELSE [rest EXCEPT ![Len(rest)] = @ \cup top]
Result == IF Len(stack) = 1 THEN stack[1] ELSE presult

\* Mutant: only the end of a stanza is passed to the builder.
EndInner == UNCHANGED <<stack, presult, stanza>>

\* The end of a tag inside a stanza.
EndInnerTag ==
  /\ stack' = Merged
  /\ presult' = Result
  /\ UNCHANGED stanza

\* The end of a stanza: fetchResult, onStanza.
EndStanza ==
  /\ stack' = Merged
  /\ presult' = {}
  /\ stanza' = [got |-> Result, due |-> current]

\* onEndElement
EndTag ==
  /\ link = "up" /\ parser = "open" /\ level > 0
  /\ level' = level - 1
  /\ parser' = IF level = 1 THEN "done" ELSE "open"
  /\ \/ depth = 1 /\ UNCHANGED <<stack, presult, stanza>>
     \/ depth = 2 /\ EndStanza
     \/ depth > 2 /\ EndInnerTag
  /\ depth' = depth - 1
  /\ UNCHANGED <<agent, link, conn, out, full, said, heard, current, torn>>

\* Something that is not XML, or anything at all after the root's end.
BadData ==
  /\ link = "up"
  /\ parser' = "broken"
  /\ out' = Complain(out)
  /\ UNCHANGED <<agent, link, conn, full, said, level, depth, stack, presult, heard, current,
                 stanza, torn>>

(***************************************************************************)
(* Losing a connection.                                                    *)
(***************************************************************************)
\* builder.reset(): it looks at the finished tag only.
ResetBuilder ==
  /\ stack' = IF presult # {} THEN <<>> ELSE stack
  /\ presult' = {}

\* Mutant: the depth is not reset.
ReconnectKeepsDepth(o) ==
  /\ link' = "down"
  /\ out' = [o EXCEPT !.state = "INIT", !.pend = <<>>]
  /\ parser' = "open" /\ level' = 0
  /\ ResetBuilder
  /\ torn' = (torn \/ level > 1)
  /\ UNCHANGED depth

\* ControlAgent::reconnect: close, which drops the buffer of the descriptor, and
\* resetParser, resetStream, builder.reset; the writer is not reset.
Reconnect(o) ==
  /\ link' = "down"
  /\ out' = [o EXCEPT !.state = "INIT", !.pend = <<>>]
  /\ parser' = "open" /\ level' = 0
  /\ depth' = 0
  /\ ResetBuilder
  /\ torn' = (torn \/ level > 1)

\* onPeerDown: the parser is told of the end, which is an error unless the document
\* is complete; then an agent reconnects.
PeerDown ==
  LET o == IF parser = "done" THEN out ELSE Complain(out)
  IN  /\ link = "up"
      /\ IF agent
         THEN Reconnect(o)
         ELSE /\ parser' = "broken"
              /\ out' = o
              /\ UNCHANGED <<link, level, depth, stack, presult, torn>>
      /\ UNCHANGED <<agent, conn, full, said, heard, current, stanza>>

\* onAsyncError of an agent.
AsyncError ==
  /\ link = "up" /\ agent
  /\ Reconnect(out)
  /\ UNCHANGED <<agent, conn, full, said, heard, current, stanza>>

\* A new connection of the agent (on_connect_a4).
Connect ==
  /\ agent /\ link = "down"
  /\ conn < MaxConn
  /\ conn' = conn + 1
  /\ link' = "up"
  /\ said' = "start"
  /\ out' = [out EXCEPT !.gap = Buffered(out)]
  /\ UNCHANGED <<agent, full, hearing>>

\* A ControlStream begins with a connection that a server has accepted.
Init ==
  /\ agent \in BOOLEAN
  /\ link = IF agent THEN "down" ELSE "up"
  /\ conn = IF agent THEN 0 ELSE 1
  /\ out = Silent
  /\ full \in Shortages
  /\ said = "start"
  /\ parser = "open" /\ level = 0
  /\ depth = 0
  /\ stack = <<>> /\ presult = {}
  /\ heard = 0 /\ current = {}
  /\ stanza = [got |-> {}, due |-> {}]
  /\ torn = FALSE

Next ==
  \/ AppOpens \/ AppFlushes \/ AppSends \/ AppCloses
  \/ Write \/ Others
  \/ StartTag \/ EndTag \/ BadData
  \/ PeerDown \/ AsyncError \/ Connect

\* The peer reads what it is sent.
Spec == Init /\ [][Next]_vars
FairSpec == Spec /\ WF_vars(Write)

(***************************************************************************)
(* Properties.                                                             *)
(***************************************************************************)
Speaker == [state : {"INIT", "ACTIVE", "CLOSING"}, outbuf : Seq(Piece),
            opened : BOOLEAN, pend : Seq(Piece), gap : BOOLEAN]

Tags == SUBSET (1..MaxTag)

\* The type invariant; the writer's buffer is never full, nor the descriptor's
\* over its quota.
TypeOK ==
  /\ agent \in BOOLEAN
  /\ link \in {"up", "down", "left"}
  /\ conn \in 0..MaxConn
  /\ out \in Speaker /\ Len(out.outbuf) < BufLen /\ Len(out.pend) <= MaxPend
  /\ full \in Shortages
  /\ said \in {"start", "declared", "header", "body", "end", "bad"}
  /\ parser \in {"open", "done", "broken"}
  /\ level \in 0..MaxTag
  /\ depth \in 0..MaxTag
  /\ stack \in Seq(Tags) /\ presult \in Tags
  /\ heard \in 0..MaxTag /\ current \in Tags
  /\ stanza \in [got : Tags, due : Tags]
  /\ torn \in BOOLEAN

\* On every connection the peer hears a part of one document: declaration, header,
\* stanzas, end, in this order and each once, although the stanzas go around the
\* writer's buffer, errors are reported in any state, and closing is asked for from
\* several sides; unless a put was refused a piece
\* of the writer's, or a stanza was sent
\* or a connection lost while a piece waited in the writer's buffer for a flush.
WellFormed == ~out.gap => Read(said, out.pend) # "bad"

\* Every stanza is given to onStanza whole and alone (controlstream.cpp:180-191):
\* its own tags and no others.
StanzaWhole == stanza.got = stanza.due

\* The same as long as no connection was lost in the middle of a stanza.
StanzaWholeUnlessTorn == ~torn => StanzaWhole

\* The depth is that of the parser's document, on every connection, and the builder
\* has the open tags of the stanza.
DepthRight ==
  /\ TypeOK
  /\ depth = level
  /\ ~torn => Len(stack) = (IF depth > 1 THEN depth - 1 ELSE 0)

\* A server's stream that is closing leaves when its last word is out, whatever its
\* buffer was like, whoever closed it and whatever was refused before; unless all that
\* it had left to say was refused (gap) and nothing waits to be written: then onEmpty
\* never comes, and it stays.
Leaves ==
  ~agent /\ out.state = "CLOSING" /\ (out.pend # <<>> \/ ~out.gap) ~> link = "left"
=============================================================================
