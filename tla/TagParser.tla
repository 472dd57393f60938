----------------------------- MODULE TagParser -----------------------------
(***************************************************************************)
(* ATTagParser (attagparser.cpp): an XMLParser and an ATTagBuilder that make *)
(* one tag of a file, a stream or a string, used for one document after    *)
(* another.  A document is a sequence of events of expat, which is          *)
(* external.  A tag is written as its depth, the tags in it, and END.       *)
(***************************************************************************)
EXTENDS Integers, Sequences, SequencesExt

CONSTANTS
  MaxEvents,            \* bound: events that a parser reads, in all calls
  MaxCalls,             \* bound: calls of a parser
  EmptyAfterFailure     \* whether an empty stream is parsed after a string that failed

\* What the data of a call holds: start tags and end tags; at its end there may be
\* something that is not well-formed, behind which nothing is read, or the beginning of
\* a tag or of a comment that is cut off.
Event == {"start", "end", "bad", "cut"}
Document ==
  {d \in UNION {[1..n -> Event] : n \in 0..MaxEvents} :
     \A i \in 1..Len(d) - 1 : d[i] \in {"start", "end"}}
NoTag == <<>>
END == -1

VARIABLES
  expat,    \* phase: "prolog", "inside", "after" the root element, or "dead"; the open
            \* elements; whether it holds back something that is cut off
  depth, stack, presult,   \* of ATTagParser and ATTagBuilder
  answer,   \* what the last call returned
  heard,    \* the events of each call since the parser was made (history)
  how       \* the last call: "string", "stream", one that "failed" to be read, or "none"

vars == <<expat, depth, stack, presult, answer, heard, how>>

State == [expat |-> expat, depth |-> depth, stack |-> stack, presult |-> presult]
All == FlattenSeq(heard)

(***************************************************************************)
(* ATTagBuilder.                                                           *)
(***************************************************************************)
\* The depth becomes an unsigned short.
StartElement(s) == [s EXCEPT !.stack = Append(@, <<s.depth % 65536>>)]

\* Mutant: a tag in another one stays on the stack.
EndElementKeeps(s) ==
  LET current == Append(Last(s.stack), END)
  IN  IF Len(s.stack) = 1 THEN [s EXCEPT !.stack = <<>>, !.presult = current]
      ELSE [s EXCEPT !.stack[Len(s.stack) - 1] = @ \o current]

EndElement(s) ==
  LET current == Append(Last(s.stack), END)
      rest    == Front(s.stack)
  IN  IF rest = <<>> THEN [s EXCEPT !.stack = rest, !.presult = current]
      ELSE [s EXCEPT !.stack = [rest EXCEPT ![Len(rest)] = @ \o current]]

\* reset does nothing without a result.
Reset(s) == IF s.presult = NoTag THEN s ELSE [s EXCEPT !.stack = <<>>, !.presult = NoTag]

\* fetchResult: the parser without the result.
Fetched(s) == [s EXCEPT !.presult = NoTag]

(***************************************************************************)
(* Expat (external) with the handlers of ATTagParser.  After an error, or  *)
(* after the final piece of a document, it refuses everything.              *)
(***************************************************************************)
Die(s) == [s EXCEPT !.expat.phase = "dead"]

Expat(phase, open, held) == [phase |-> phase, open |-> open, held |-> held]

OnStartElement(s) ==
  StartElement([s EXCEPT !.expat = Expat("inside", @.open + 1, FALSE), !.depth = @ + 1])

OnEndElement(s) ==
  [EndElement(s) EXCEPT
     !.expat = Expat(IF @.open = 1 THEN "after" ELSE "inside", @.open - 1, FALSE),
     !.depth = @ - 1]

\* What is cut off waits for more, also behind the root, and is no error before the
\* final piece; more data completes it, or is not well-formed with it.
Feed(s, event) ==
  CASE event = "start" /\ s.expat.phase \in {"prolog", "inside"} -> OnStartElement(s)
    [] event = "end" /\ s.expat.phase = "inside" -> OnEndElement(s)
    [] event = "cut" /\ s.expat.phase # "dead" -> [s EXCEPT !.expat.held = TRUE]
    [] OTHER -> Die(s)

Fed(document) == FoldLeft(Feed, [State EXCEPT !.depth = 0], document)

Becomes(s, result) ==
  /\ expat' = s.expat /\ depth' = s.depth /\ stack' = s.stack /\ presult' = s.presult
  /\ answer' = result

Hear(document) ==
  /\ Len(All) + Len(document) <= MaxEvents
  /\ Len(heard) < MaxCalls
  /\ heard' = Append(heard, document)

(***************************************************************************)
(* ATTagParser.                                                            *)
(***************************************************************************)
\* parseStream: no piece is the final one, so what is held back at the end of the stream
\* is no error; at that end, or when it cannot be read further.  A stream of nothing is
\* not shown to expat.
ParseStream(document, failing) ==
  LET s == Fed(document)
  IN  /\ document = <<>> /\ expat.phase = "dead" /\ presult # NoTag => EmptyAfterFailure
      /\ Hear(document) /\ how' = IF failing THEN "failed" ELSE "stream"
      /\ IF failing \/ (s.expat.phase = "dead" /\ document # <<>>)
         THEN Becomes(Reset(s), NoTag)
         ELSE Becomes(Fetched(s), s.presult)

\* parseString: the one piece is the final one; a failure resets nothing.
ParseString(document) ==
  LET s == Fed(document)
  IN  /\ Hear(document) /\ how' = "string"
      /\ IF s.expat.phase = "after" /\ ~s.expat.held
         THEN Becomes(Fetched(Die(s)), s.presult)
         ELSE Becomes(Die(s), NoTag)

\* The constructor.
NewParser ==
  /\ expat' = Expat("prolog", 0, FALSE)
  /\ depth' = 0 /\ stack' = <<>> /\ presult' = NoTag /\ answer' = NoTag /\ heard' = <<>>
  /\ how' = "none"

Init ==
  /\ expat = Expat("prolog", 0, FALSE)
  /\ depth = 0 /\ stack = <<>> /\ presult = NoTag /\ answer = NoTag /\ heard = <<>>
  /\ how = "none"

Next ==
  \/ NewParser
  \/ \E document \in Document :
       ParseString(document) \/ \E failing \in BOOLEAN : ParseStream(document, failing)

Spec == Init /\ [][Next]_vars

(***************************************************************************)
(* Properties.                                                             *)
(***************************************************************************)
Opens(s) == Len(SelectSeq(s, LAMBDA e : e = "start"))
Closes(s) == Len(SelectSeq(s, LAMBDA e : e = "end"))
TagsOf(s) == SelectSeq(s, LAMBDA e : e \in {"start", "end"})

\* One element with what is in it, and nothing behind it.
Whole(s) ==
  /\ s # <<>> /\ Opens(s) = Closes(s)
  /\ \A n \in 1..Len(s) - 1 : LET t == SubSeq(s, 1, n) IN Opens(t) > Closes(t)

\* A whole document; behind that of a stream may be something that is cut off.
Complete(s) ==
  /\ Whole(TagsOf(s)) /\ ~Contains(s, "bad")
  /\ how = "string" => Last(s) = "end"

Read(tag) == [i \in DOMAIN tag |-> IF tag[i] = END THEN "end" ELSE "start"]

\* However a parser is used, a tag that it returns has all of the tags that it has ever
\* read, and they are one element, with the right depths if it came in one call: it never
\* mixes two documents, never returns one twice and never a part of one that is cut off
\* inside the element or not well-formed.  A string has nothing behind the element;
\* behind that of a stream something that is cut off goes unnoticed, also the `<` of a
\* second one.  The first document of a parser is returned if it is complete.
ResultRight ==
  /\ answer # NoTag =>
       /\ Complete(All) /\ Read(answer) = TagsOf(All)
       /\ Len(TagsOf(Last(heard))) = Len(answer) =>
            \A i \in DOMAIN answer : answer[i] # END =>
              LET before == SubSeq(TagsOf(All), 1, i)
              IN  answer[i] = Opens(before) - Closes(before)
  /\ Len(heard) = 1 /\ how # "failed" => (answer # NoTag <=> Complete(All))
=============================================================================
