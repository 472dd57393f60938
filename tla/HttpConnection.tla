--------------------------- MODULE HttpConnection ---------------------------
(***************************************************************************)
(* One connection of the web server: HttpConnection (httpconnection.cpp)   *)
(* with its request (httprequest.cpp), its response (httpresponse.cpp) and *)
(* the dispatch of AsyncWebServer (asyncwebserver.cpp).  The request comes *)
(* in chunks that are cut anywhere; the handler answers with a page, with  *)
(* a file that is sent chunk by chunk, or later, from a timer.             *)
(***************************************************************************)
EXTENDS Integers, Sequences, SequencesExt

CONSTANTS
  Chunk,      \* FD_READ_CHUNK_SIZE: how much of a file is read in one go
  Sizes,      \* the sizes a file may have
  Lengths,    \* the values Content-Length may have
  Extras,     \* how much a client may send after its request
  Quotas,     \* the quotas of the descriptor's buffer, 0 for none
  Timeout     \* how many seconds a handler may wait

ASSUME HttpAssumption ==
  /\ Chunk \in Nat \ {0}
  /\ Sizes \subseteq Nat /\ Lengths \subseteq Nat /\ Extras \subseteq Nat
  /\ Quotas \subseteq Nat
  /\ Timeout \in Nat

VARIABLES
  ask,       \* what the client asks: the length of its body, what it sends after it
  size,      \* of the file the handler may answer with
  quota,     \* of the descriptor's buffer
  full,      \* other connections have all of the blocks of the pool
  conn,      \* "open", "disabled", or "deleted"
  wire,      \* what the client sent and the server has not read
  req,       \* HttpRequest
  resp,      \* HttpResponse, its timers and its part of the output buffer
  received   \* what the client got

vars == <<ask, size, quota, full, conn, wire, req, resp, received>>

(***************************************************************************)
(* The request: header bytes, the two halves of the empty line, the body.  *)
(***************************************************************************)
Byte == {"h", "t1", "t2", "b", "x"}
Header == <<"h", "h">>
Text(what, n) == [i \in 1..n |-> what]
Wire(a) == Header \o <<"t1", "t2">> \o Text("b", a.length) \o Text("x", a.extra)

\* parsed: parseBody was called with the whole body.  late: the body ended in a
\* later chunk than the header.  split: a chunk ended within the empty line.
NoRequest == [got_headers |-> FALSE, got_body |-> FALSE, raw_headers |-> <<>>,
              raw_body |-> <<>>, parsed |-> FALSE, late |-> FALSE, split |-> FALSE]

\* data.find("\r\n\r\n")
Ends(data) == {i \in 1..(Len(data) - 1) : data[i] = "t1" /\ data[i + 1] = "t2"}

\* The first chunk with an empty line in it.
FeedEnd(q, data, i) ==
  LET rest  == SubSeq(data, i + 2, Len(data))
      whole == Len(rest) >= ask.length
  IN  [q EXCEPT !.got_headers = TRUE, !.raw_headers = @ \o SubSeq(data, 1, i - 1),
                !.raw_body = rest, !.got_body = whole, !.parsed = whole]

\* Mutant: what came is taken for the whole body.
FeedBodyAny(q, data) ==
  [q EXCEPT !.raw_body = @ \o data, !.late = TRUE, !.got_body = TRUE]

\* A later one: the body is not parsed when it is complete.
FeedBody(q, data) ==
  [q EXCEPT !.raw_body = @ \o data, !.late = TRUE,
            !.got_body = Len(q.raw_body \o data) >= ask.length]

\* feed; after the whole body it is parsed (again) and the data is dropped.
Feed(q, data) ==
  IF ~q.got_headers
  THEN IF Ends(data) = {}
       THEN [q EXCEPT !.raw_headers = @ \o data, !.split = @ \/ Last(data) = "t1"]
       ELSE FeedEnd(q, data, CHOOSE i \in Ends(data) : TRUE)
  ELSE IF ~q.got_body THEN FeedBody(q, data) ELSE [q EXCEPT !.parsed = TRUE]

(***************************************************************************)
(* The response.  A piece of output is a page, the header of a file, or    *)
(* the n-th byte of it.                                                    *)
(***************************************************************************)
Page == -1
FileHead == 0
Piece == {Page, FileHead} \cup UNION {1..s : s \in Sizes}

\* _waiting and _sending (the position in the file), with Nothing and NotSending for
\* NULL; armed: the timers whose callback has _waiting; refused: a put was refused.
Nothing == [timer_id |-> 0, left |-> 0]
NotSending == -1
NoResponse == [waiting |-> Nothing, sending |-> NotSending, armed |-> {}, timer_id |-> 0,
               pend |-> <<>>, refused |-> FALSE]

Pending(r) == r.waiting # Nothing \/ r.sending # NotSending

\* put: all or nothing; none of the callers below looks at the answer.
Put(r, pieces) ==
  IF pieces # <<>> /\ (full \/ (quota # 0 /\ Len(r.pend) + Len(pieces) > quota))
  THEN [r EXCEPT !.refused = TRUE]
  ELSE [r EXCEPT !.pend = @ \o pieces]

SendResponse(r) == Put(r, <<Page>>)

\* sendFile of a file that exists; of another one it is a page with the status 404.
SendFile(r) ==
  IF r.sending # NotSending THEN r ELSE Put([r EXCEPT !.sending = 0], <<FileHead>>)

SetTimer(r, left) ==
  [r EXCEPT !.timer_id = @ + 1, !.armed = @ \cup {r.timer_id + 1},
            !.waiting = [timer_id |-> r.timer_id + 1, left |-> left]]

\* waitForFile, waitForFunction, when there is something to wait for.
WaitFor(r) == IF Pending(r) THEN r ELSE SetTimer(r, Timeout)

\* What the handler does; "page" is also what an error or a missing route gets.
Handle(r, what) ==
  CASE what = "page" -> r
    [] what = "file" -> SendFile(r)
    [] what = "wait" -> WaitFor(r)

\* fread
BytesRead(r) == IF size - r.sending < Chunk THEN size - r.sending ELSE Chunk

\* Mutant: the end of the file is not seen.
PositionGoesOn(r) == r.sending + BytesRead(r)

\* The end of the file is seen only when less than a chunk was left of it.
PositionAfter(r) == IF BytesRead(r) < Chunk THEN NotSending ELSE r.sending + BytesRead(r)

\* Mutant: the next chunk begins where this one did.
OperationAgain(r) ==
  IF r.waiting # Nothing \/ r.sending = NotSending THEN r
  ELSE Put([r EXCEPT !.sending = IF BytesRead(r) < Chunk THEN NotSending ELSE @],
           [i \in 1..BytesRead(r) |-> r.sending + i])

HandlePendingOperation(r) ==
  IF r.waiting # Nothing \/ r.sending = NotSending THEN r
  ELSE Put([r EXCEPT !.sending = PositionAfter(r)],
           [i \in 1..BytesRead(r) |-> r.sending + i])

(***************************************************************************)
(* The connection.                                                         *)
(***************************************************************************)
\* delete this: the response removes the timer it knows of.
Delete(r) ==
  /\ conn' = "deleted"
  /\ resp' = [r EXCEPT !.armed = @ \ {r.waiting.timer_id}, !.waiting = Nothing,
                       !.sending = NotSending, !.pend = <<>>]

\* onRead: feed, and once the request is complete handleRequest, for every chunk.
Read ==
  /\ conn = "open"
  /\ \E n \in 1..Len(wire) :
       LET q == Feed(req, SubSeq(wire, 1, n))
       IN  /\ wire' = SubSeq(wire, n + 1, Len(wire))
           /\ req' = q
           /\ \/ /\ q.got_headers /\ q.got_body
                 /\ \E what \in {"page", "file", "wait"} :
                      LET r == Handle(resp, what)
                      IN  resp' = IF Pending(r) THEN r ELSE SendResponse(r)
              \/ /\ ~(q.got_headers /\ q.got_body)
                 /\ UNCHANGED resp
  /\ UNCHANGED <<ask, size, quota, full, conn, received>>

\* Mutant: the response does not keep the timer's new number.
TimerRearmsUnknown ==
  /\ resp.waiting.left > 0
  /\ resp' = [SetTimer([resp EXCEPT !.armed = @ \ {resp.waiting.timer_id}],
                       resp.waiting.left - 1)
                EXCEPT !.waiting.timer_id = resp.waiting.timer_id]

\* Still nothing to send: wait for another second.
TimerRearms ==
  /\ resp.waiting.left > 0
  /\ resp' = SetTimer([resp EXCEPT !.armed = @ \ {resp.waiting.timer_id}],
                      resp.waiting.left - 1)

\* What was waited for is there, or the time is over; a handler that waits again
\* finds itself waiting, and so asks for a page.
TimerFinishes ==
  \E what \in {"page", "file"} :
    LET done == [resp EXCEPT !.armed = @ \ {resp.waiting.timer_id}]
        r    == [Handle(done, what) EXCEPT !.waiting = Nothing]
    IN  resp' = IF Pending(r) THEN HandlePendingOperation(r) ELSE SendResponse(r)

\* updateFileWaiting, updateFunctionWaiting
TimerCall ==
  /\ resp.waiting # Nothing /\ resp.armed # {}
  /\ TimerRearms \/ TimerFinishes
  /\ UNCHANGED <<ask, size, quota, full, conn, wire, req, received>>

\* handleWrite: the kernel takes a part; with the last piece comes onEmpty.
Write ==
  /\ conn = "open"
  /\ \E n \in 1..Len(resp.pend) :
       LET r == [resp EXCEPT !.pend = SubSeq(@, n + 1, Len(@))]
       IN  /\ received' = received \o SubSeq(resp.pend, 1, n)
           /\ \/ r.pend # <<>> /\ resp' = r /\ UNCHANGED conn
              \/ r.pend = <<>> /\ Pending(r)
                 /\ resp' = HandlePendingOperation(r) /\ UNCHANGED conn
              \/ r.pend = <<>> /\ ~Pending(r) /\ Delete(r)
  /\ UNCHANGED <<ask, size, quota, full, wire, req>>

\* onPeerDown
PeerDown ==
  /\ conn = "open"
  /\ Delete(resp)
  /\ UNCHANGED <<ask, size, quota, full, wire, req, received>>

\* onAsyncError: the object is disabled, which drops its output.
AsyncError ==
  /\ conn = "open"
  /\ conn' = "disabled"
  /\ resp' = [resp EXCEPT !.pend = <<>>]
  /\ UNCHANGED <<ask, size, quota, full, wire, req, received>>

\* The other connections take the last blocks of the pool, or give some back.
Others ==
  /\ full' = ~full
  /\ UNCHANGED <<ask, size, quota, conn, wire, req, resp, received>>

\* onAccept
Init ==
  /\ ask \in [length : Lengths, extra : Extras]
  /\ size \in Sizes
  /\ quota \in Quotas
  /\ full = FALSE
  /\ conn = "open"
  /\ wire = Wire(ask)
  /\ req = NoRequest
  /\ resp = NoResponse
  /\ received = <<>>

Next == Read \/ TimerCall \/ Write \/ PeerDown \/ AsyncError \/ Others

Spec == Init /\ [][Next]_vars

\* What the client sent is read, timers are called, and what waits is written.
FairSpec == Spec /\ WF_vars(Read) /\ WF_vars(TimerCall) /\ WF_vars(Write)

(***************************************************************************)
(* Properties.                                                             *)
(***************************************************************************)
Request == [got_headers : BOOLEAN, got_body : BOOLEAN, raw_headers : Seq(Byte),
            raw_body : Seq(Byte), parsed : BOOLEAN, late : BOOLEAN, split : BOOLEAN]

Response == [waiting : [timer_id : Nat, left : 0..Timeout],
             sending : {NotSending} \cup (0..size), armed : SUBSET (1..resp.timer_id),
             timer_id : Nat, pend : Seq(Piece), refused : BOOLEAN]

\* The type invariant; a file is not read past its end.
TypeOK ==
  /\ ask \in [length : Lengths, extra : Extras]
  /\ size \in Sizes
  /\ quota \in Quotas
  /\ full \in BOOLEAN
  /\ conn \in {"open", "disabled", "deleted"}
  /\ wire \in Seq(Byte)
  /\ req \in Request
  /\ resp \in Response
  /\ received \in Seq(Piece)

\* The handler gets the request as the client sent it, however the chunks were cut:
\* the header without the empty line, and all of a body of Content-Length bytes;
\* parsed, unless it ended in a later chunk than the header (httprequest.cpp:42-48).
HandledWhole ==
  /\ TypeOK
  /\ req.got_headers /\ req.got_body =>
       /\ req.raw_headers = Header
       /\ IsPrefix(Text("b", ask.length), req.raw_body)
       /\ req.parsed \/ req.late

\* The client gets one response, a page or a whole file in the order of its bytes,
\* and nothing after it, whether it was made at once or in pieces from onEmpty and a
\* timer; unless a put was refused (each call ignores that) or the client sent
\* something after its request (each chunk of it is answered again).
OneResponse ==
  ask.extra = 0 /\ ~resp.refused =>
    \E answer \in {<<Page>>, [i \in 1..(size + 1) |-> i - 1]} :
      IsPrefix(received \o resp.pend, answer)

\* A response that is gone has no timer: its destructor knows the last one, although
\* the timer sets itself again from its own callback.
NoStaleTimer == conn = "deleted" => resp.armed = {}

\* "When we are done, we just close the connection" (httpconnection.cpp:74): it comes
\* to an end, unless the empty line was cut in two, a put was refused, or the file's
\* size is a multiple of the chunk.
Excused ==
  \/ req.split \/ resp.refused
  \/ size % Chunk = 0 /\ FileHead \in ToSet(received)
Closes == conn = "open" ~> conn # "open" \/ Excused
=============================================================================
