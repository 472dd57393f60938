------------------------ MODULE HttpConnectionProofs ------------------------
(***************************************************************************)
(* Theorems about HttpConnection, for any lengths of bodies, files and     *)
(* chunks and any quota: the handler gets the whole request, the client    *)
(* gets one response, and no timer refers to a response that is gone.      *)
(***************************************************************************)
EXTENDS HttpConnection, SequenceTheorems, TLAPS

(***************************************************************************)
(* Parts of what the client sends.                                         *)
(***************************************************************************)
\* s is what stands behind the first m elements of w.
Part(s, w, m) == \A i \in 1..Len(s) : s[i] = w[m + i]

LEMMA Sequence ==
  ASSUME NEW S, NEW n \in Nat, NEW f \in [1..n -> S]
  PROVE  f \in Seq(S) /\ Len(f) = n
OBVIOUS

LEMMA TextSays ==
  ASSUME NEW what \in Byte, NEW n \in Nat
  PROVE  /\ Text(what, n) \in Seq(Byte) /\ Len(Text(what, n)) = n
         /\ \A i \in 1..n : Text(what, n)[i] = what
<1>1. Text(what, n) \in [1..n -> Byte] /\ \A i \in 1..n : Text(what, n)[i] = what
  BY DEF Text
<1>. QED
  BY <1>1, Sequence

LEMMA HeaderSays ==
  /\ Header \in Seq(Byte) /\ Len(Header) = 2 /\ Header[1] = "h" /\ Header[2] = "h"
BY DEF Header, Byte

\* The client sends two bytes of header, the empty line, its body and some more.
Sends(w, a) ==
  /\ w \in Seq(Byte) /\ Len(w) = 4 + a.length + a.extra
  /\ w[1] = "h" /\ w[2] = "h" /\ w[3] = "t1" /\ w[4] = "t2"
  /\ \A i \in 5..Len(w) : w[i] \in {"b", "x"}
  /\ \A i \in 5..(4 + a.length) : w[i] = "b"

LEMMA WireSends ==
  ASSUME NEW a, a.length \in Nat, a.extra \in Nat
  PROVE  Sends(Wire(a), a)
<1>. DEFINE line == <<"t1", "t2">>
            body == Text("b", a.length)
            more == Text("x", a.extra)
            hl   == Header \o line
            hlb  == hl \o body
            w    == hlb \o more
<1>1. "b" \in Byte /\ "x" \in Byte /\ "t1" \in Byte /\ "t2" \in Byte
  BY DEF Byte
<1>2. /\ body \in Seq(Byte) /\ Len(body) = a.length
      /\ \A i \in 1..a.length : body[i] = "b"
  BY <1>1, TextSays
<1>3. /\ more \in Seq(Byte) /\ Len(more) = a.extra
      /\ \A i \in 1..a.extra : more[i] = "x"
  BY <1>1, TextSays
<1>4. line \in Seq(Byte) /\ Len(line) = 2 /\ line[1] = "t1" /\ line[2] = "t2"
  BY <1>1
<1>. HIDE DEF line, body, more
<1>5. /\ hl \in Seq(Byte) /\ Len(hl) = 4
      /\ hl[1] = "h" /\ hl[2] = "h" /\ hl[3] = "t1" /\ hl[4] = "t2"
  <2>1. /\ hl \in Seq(Byte) /\ Len(hl) = 2 + 2
        /\ \A i \in 1..(2 + 2) : hl[i] = IF i <= 2 THEN Header[i] ELSE line[i - 2]
    BY <1>4, HeaderSays, ConcatProperties
  <2>. QED
    BY <1>4, <2>1, HeaderSays
<1>. HIDE DEF hl
<1>6. /\ hlb \in Seq(Byte) /\ Len(hlb) = 4 + a.length
      /\ \A i \in 1..(4 + a.length) : hlb[i] = IF i <= 4 THEN hl[i] ELSE body[i - 4]
  <2>1. /\ hlb \in Seq(Byte) /\ Len(hlb) = Len(hl) + Len(body)
        /\ \A i \in 1..(Len(hl) + Len(body)) :
             hlb[i] = IF i <= Len(hl) THEN hl[i] ELSE body[i - Len(hl)]
    BY <1>2, <1>5, ConcatProperties, ZenonT(40)
  <2>. QED
    BY <1>2, <1>5, <2>1
<1>. HIDE DEF hlb
<1>7. /\ w \in Seq(Byte) /\ Len(w) = 4 + a.length + a.extra
      /\ \A i \in 1..(4 + a.length + a.extra) :
           w[i] = IF i <= 4 + a.length THEN hlb[i] ELSE more[i - (4 + a.length)]
  <2>1. /\ w \in Seq(Byte) /\ Len(w) = Len(hlb) + Len(more)
        /\ \A i \in 1..(Len(hlb) + Len(more)) :
             w[i] = IF i <= Len(hlb) THEN hlb[i] ELSE more[i - Len(hlb)]
    BY <1>3, <1>6, ConcatProperties
  <2>. QED
    BY <1>3, <1>6, <2>1
<1>. HIDE DEF w
<1>8. w[1] = "h" /\ w[2] = "h" /\ w[3] = "t1" /\ w[4] = "t2"
  <2>1. \A i \in 1..4 : i \in 1..(4 + a.length) /\ i \in 1..(4 + a.length + a.extra)
    OBVIOUS
  <2>2. \A i \in 1..4 : w[i] = hl[i]
    BY <1>6, <1>7, <2>1, SMTT(30)
  <2>. QED
    BY <1>5, <2>2
<1>9. ASSUME NEW i \in 5..(4 + a.length) PROVE w[i] = "b"
  <2>1. /\ i \in 1..(4 + a.length) /\ i \in 1..(4 + a.length + a.extra) /\ ~ (i <= 4)
        /\ i <= 4 + a.length /\ i - 4 \in 1..a.length
    OBVIOUS
  <2>2. w[i] = hlb[i] /\ hlb[i] = body[i - 4] /\ i - 4 \in 1..a.length
    BY <1>6, <1>7, <2>1
  <2>. QED
    BY <1>2, <2>2
<1>10. ASSUME NEW i \in 5..Len(w) PROVE w[i] \in {"b", "x"}
  <2>1. CASE i <= 4 + a.length
    BY <1>7, <1>9, <2>1
  <2>2. CASE ~ (i <= 4 + a.length)
    <3>1. i - (4 + a.length) \in 1..a.extra /\ i \in 1..(4 + a.length + a.extra)
      BY <1>7, <2>2
    <3>. QED
      BY <1>3, <1>7, <2>2, <3>1
  <2>. QED
    BY <2>1, <2>2
<1>11. w = Wire(a)
  BY DEF w, hlb, hl, line, body, more, Wire
<1>. QED
  BY <1>7, <1>8, <1>9, <1>10, <1>11 DEF Sends

\* Both halves of a sequence.
LEMMA Halves ==
  ASSUME NEW S, NEW s \in Seq(S), NEW n \in 0..Len(s)
  PROVE  /\ SubSeq(s, 1, n) \in Seq(S) /\ Len(SubSeq(s, 1, n)) = n
         /\ \A i \in 1..n : SubSeq(s, 1, n)[i] = s[i]
         /\ SubSeq(s, n + 1, Len(s)) \in Seq(S)
         /\ Len(SubSeq(s, n + 1, Len(s))) = Len(s) - n
         /\ \A i \in 1..(Len(s) - n) : SubSeq(s, n + 1, Len(s))[i] = s[n + i]
         /\ SubSeq(s, 1, n) \o SubSeq(s, n + 1, Len(s)) = s
<1>. DEFINE l == SubSeq(s, 1, n)
            r == SubSeq(s, n + 1, Len(s))
            c == l \o r
<1>0. Len(s) \in Nat /\ n \in Nat /\ n <= Len(s) /\ \A i \in 1..Len(s) : s[i] \in S
  BY LenProperties, ElementOfSeq
<1>1. l \in Seq(S) /\ Len(l) = n /\ \A i \in 1..n : l[i] = s[i]
  <2>1. \A i \in 1..n : s[i] \in S
    BY <1>0
  <2>2. /\ l \in Seq(S)
        /\ Len(l) = IF 1 <= n THEN n - 1 + 1 ELSE 0
        /\ \A i \in 1..(n - 1 + 1) : l[i] = s[1 + i - 1]
    BY <1>0, <2>1, SubSeqProperties
  <2>. QED
    BY <1>0, <2>2
<1>2. r \in Seq(S) /\ Len(r) = Len(s) - n /\ \A i \in 1..(Len(s) - n) : r[i] = s[n + i]
  <2>1. \A i \in (n + 1)..Len(s) : s[i] \in S
    BY <1>0
  <2>2. /\ r \in Seq(S)
        /\ Len(r) = IF n + 1 <= Len(s) THEN Len(s) - (n + 1) + 1 ELSE 0
        /\ \A i \in 1 .. (Len(s) - (n + 1) + 1) : r[i] = s[n + 1 + i - 1]
    BY <1>0, <2>1, SubSeqProperties
  <2>3. Len(r) = Len(s) - n /\ Len(s) - (n + 1) + 1 = Len(s) - n
    BY <1>0, <2>2
  <2>4. \A i \in 1..(Len(s) - n) : n + 1 + i - 1 = n + i
    BY <1>0
  <2>. QED
    BY <2>2, <2>3, <2>4
<1>. HIDE DEF l, r
<1>3. /\ c \in Seq(S) /\ Len(c) = Len(l) + Len(r)
      /\ \A i \in 1..(Len(l) + Len(r)) : c[i] = IF i <= Len(l) THEN l[i] ELSE r[i - Len(l)]
  BY <1>1, <1>2, ConcatProperties
<1>. HIDE DEF c
<1>4. Len(c) = Len(s)
  BY <1>0, <1>1, <1>2, <1>3
<1>5. ASSUME NEW i \in 1..Len(c) PROVE c[i] = s[i]
  <2>1. CASE i <= n
    BY <1>0, <1>1, <1>2, <1>3, <1>4, <2>1
  <2>2. CASE ~ (i <= n)
    <3>1. i - n \in 1..(Len(s) - n) /\ n + (i - n) = i
      BY <1>0, <1>4, <2>2
    <3>. QED
      BY <1>0, <1>1, <1>2, <1>3, <1>4, <2>2, <3>1
  <2>. QED
    BY <2>1, <2>2
<1>6. c = s
  BY <1>3, <1>4, <1>5, SeqEqual
<1>. QED
  BY <1>1, <1>2, <1>6 DEF l, r, c

LEMMA JoinParts ==
  ASSUME NEW s \in Seq(Byte), NEW t \in Seq(Byte), NEW w, NEW m \in Nat, NEW n \in Nat,
         Part(s, w, m), n = m + Len(s), Part(t, w, n)
  PROVE  s \o t \in Seq(Byte) /\ Len(s \o t) = Len(s) + Len(t) /\ Part(s \o t, w, m)
<1>1. Len(s) \in Nat /\ Len(t) \in Nat
  BY LenProperties
<1>2. /\ s \o t \in Seq(Byte) /\ Len(s \o t) = Len(s) + Len(t)
      /\ \A i \in 1..(Len(s) + Len(t)) : (s \o t)[i] = IF i <= Len(s) THEN s[i] ELSE t[i - Len(s)]
  BY ConcatProperties
<1>. DEFINE c == s \o t
<1>3. ASSUME NEW i \in 1..Len(c) PROVE c[i] = w[m + i]
  <2>. HIDE DEF c
  <2>1. CASE i <= Len(s)
    <3>1. i \in 1..Len(s) /\ c[i] = s[i]
      BY <1>1, <1>2, <2>1 DEF c
    <3>. QED
      BY <3>1 DEF Part
  <2>2. CASE ~ (i <= Len(s))
    <3>1. i - Len(s) \in 1..Len(t) /\ c[i] = t[i - Len(s)] /\ n + (i - Len(s)) = m + i
      BY <1>1, <1>2, <2>2 DEF c
    <3>2. t[i - Len(s)] = w[n + (i - Len(s))]
      BY <3>1 DEF Part
    <3>. QED
      BY <3>1, <3>2
  <2>. QED
    BY <2>1, <2>2
<1>. QED
  BY <1>2, <1>3 DEF Part

(***************************************************************************)
(* What the request has of it.                                             *)
(***************************************************************************)
\* What q is after n bytes of w: all of them before the empty line, the header once it
\* has come, and of the body what has come, until there is enough of it.
Fed(q, w, length, n) ==
  /\ ~ q.got_headers => ~ q.got_body /\ Len(q.raw_headers) = n /\ Part(q.raw_headers, w, 0)
  /\ q.got_headers => /\ q.raw_headers = Header
                      /\ Part(q.raw_body, w, 4) /\ Len(q.raw_body) <= n - 4
                      /\ ~ q.got_body => Len(q.raw_body) = n - 4
                      /\ q.got_body => Len(q.raw_body) >= length /\ (q.parsed \/ q.late)

LEMMA RequestFields ==
  ASSUME NEW q \in Request
  PROVE  /\ q.got_headers \in BOOLEAN /\ q.got_body \in BOOLEAN /\ q.parsed \in BOOLEAN
         /\ q.late \in BOOLEAN /\ q.split \in BOOLEAN
         /\ q.raw_headers \in Seq(Byte) /\ q.raw_body \in Seq(Byte)
         /\ Len(q.raw_headers) \in Nat /\ Len(q.raw_body) \in Nat
<1>1. /\ q.got_headers \in BOOLEAN /\ q.got_body \in BOOLEAN /\ q.parsed \in BOOLEAN
      /\ q.late \in BOOLEAN /\ q.split \in BOOLEAN
      /\ q.raw_headers \in Seq(Byte) /\ q.raw_body \in Seq(Byte)
  BY DEF Request
<1>. QED
  BY <1>1, LenProperties

\* The chunk that is fed: the bytes behind the first n of w.
Comes(data, w, n) ==
  /\ data \in Seq(Byte) /\ Len(data) \in Nat
  /\ Part(data, w, n) /\ n + Len(data) <= Len(w)

LEMMA FeedHeader ==
  ASSUME NEW q \in Request, NEW data, NEW w, NEW n \in Nat, Comes(data, w, n),
         Fed(q, w, ask.length, n), ~ q.got_headers, Ends(data) = {}
  PROVE  Feed(q, data) \in Request /\ Fed(Feed(q, data), w, ask.length, n + Len(data))
<1>. DEFINE b == q.split \/ Last(data) = "t1"
            h == q.raw_headers \o data
            v == Feed(q, data)
<1>1. v = [q EXCEPT !.raw_headers = h, !.split = b]
  BY DEF Feed
<1>2. b \in BOOLEAN
  OBVIOUS
<1>3. h \in Seq(Byte) /\ Len(h) = n + Len(data) /\ Part(h, w, 0)
  <2>1. /\ q.raw_headers \in Seq(Byte) /\ Len(q.raw_headers) = n /\ Part(q.raw_headers, w, 0)
        /\ data \in Seq(Byte) /\ Part(data, w, n) /\ n = 0 + Len(q.raw_headers)
    BY RequestFields DEF Fed, Comes
  <2>. QED
    BY <2>1, JoinParts
<1>. HIDE DEF b, h, v
<1>4. /\ v \in Request /\ v.raw_headers = h /\ ~ v.got_headers /\ (v.got_body <=> q.got_body)
  BY <1>1, <1>2, <1>3 DEF Request
<1>5. v \in Request /\ Fed(v, w, ask.length, n + Len(data))
  BY <1>3, <1>4 DEF Fed
<1>. QED
  BY <1>5 DEF v

LEMMA FeedLine ==
  ASSUME NEW q \in Request, NEW data, NEW w, NEW n \in Nat, Comes(data, w, n),
         ask.length \in Nat, ask.extra \in Nat,
         Sends(w, ask), Fed(q, w, ask.length, n), ~ q.got_headers, Ends(data) # {}
  PROVE  Feed(q, data) \in Request /\ Fed(Feed(q, data), w, ask.length, n + Len(data))
<1>. DEFINE at == CHOOSE i \in Ends(data) : TRUE
            rest == SubSeq(data, at + 2, Len(data))
            front == SubSeq(data, 1, at - 1)
            whole == Len(rest) >= ask.length
            h == q.raw_headers \o front
            v == Feed(q, data)
<1>1. at \in Ends(data)
  OBVIOUS
<1>2. /\ v = [q EXCEPT !.got_headers = TRUE, !.raw_headers = h, !.raw_body = rest,
                       !.got_body = whole, !.parsed = whole]
  BY DEF Feed, FeedEnd
<1>. HIDE DEF at
<1>3. /\ data \in Seq(Byte) /\ Len(data) \in Nat /\ n + Len(data) <= Len(w)
      /\ \A i \in 1..Len(data) : data[i] = w[n + i]
  BY DEF Comes, Part
<1>4. at \in Nat /\ at >= 1 /\ at + 1 <= Len(data) /\ data[at] = "t1"
  BY <1>1, <1>3 DEF Ends
<1>5. n + at = 3
  <2>1. /\ w[1] = "h" /\ w[2] = "h" /\ w[4] = "t2" /\ Len(w) \in Nat
        /\ \A i \in 5..Len(w) : w[i] \in {"b", "x"}
    BY LenProperties DEF Sends
  <2>2. w[n + at] = "t1" /\ n + at \in 1..Len(w)
    <3>1. at \in 1..Len(data) /\ n + at \in 1..Len(w)
      BY <1>3, <1>4, <2>1
    <3>. QED
      BY <1>3, <1>4, <3>1
  <2>3. n + at # 1 /\ n + at # 2 /\ n + at # 4 /\ n + at \notin 5..Len(w)
    BY <2>2, <2>1
  <2>. QED
    BY <2>2, <2>1, <2>3
<1>6. /\ front \in Seq(Byte) /\ Len(front) = at - 1
      /\ \A i \in 1..(at - 1) : front[i] = data[i]
  <2>1. at - 1 \in 0..Len(data)
    BY <1>3, <1>4
  <2>. QED
    BY <1>3, <2>1, Halves
<1>7. /\ rest \in Seq(Byte) /\ Len(rest) = Len(data) - (at + 1)
      /\ \A i \in 1..(Len(data) - (at + 1)) : rest[i] = data[(at + 1) + i]
  <2>. DEFINE k == at + 1
  <2>1. k \in 0..Len(data) /\ at + 2 = k + 1
    BY <1>3, <1>4
  <2>2. rest = SubSeq(data, k + 1, Len(data))
    BY <2>1
  <2>. HIDE DEF k, rest
  <2>3. /\ rest \in Seq(Byte) /\ Len(rest) = Len(data) - k
        /\ \A i \in 1..(Len(data) - k) : rest[i] = data[k + i]
    BY <1>3, <2>1, <2>2, Halves
  <2>. QED
    BY <2>3 DEF k
<1>8. Len(rest) = (n + Len(data)) - 4 /\ Part(rest, w, 4)
  <2>1. Len(rest) = (n + Len(data)) - 4
    BY <1>3, <1>4, <1>5, <1>7
  <2>2. ASSUME NEW i \in 1..Len(rest) PROVE rest[i] = w[4 + i]
    <3>. HIDE DEF rest
    <3>1. (at + 1) + i \in 1..Len(data) /\ n + ((at + 1) + i) = 4 + i
      BY <1>3, <1>4, <1>5, <1>7
    <3>. QED
      BY <1>3, <1>7, <3>1
  <2>. QED
    BY <2>1, <2>2 DEF Part
<1>9. h = Header
  <2>1. /\ q.raw_headers \in Seq(Byte) /\ Len(q.raw_headers) = n /\ Part(q.raw_headers, w, 0)
        /\ n = 0 + Len(q.raw_headers)
    BY RequestFields DEF Fed
  <2>2. Part(front, w, n)
    <3>. HIDE DEF front
    <3>1. \A i \in 1..(at - 1) : i \in 1..Len(data)
      BY <1>3, <1>4
    <3>. QED
      BY <1>3, <1>6, <3>1 DEF Part
  <2>. HIDE DEF front
  <2>3. h \in Seq(Byte) /\ Len(h) = n + (at - 1) /\ Part(h, w, 0)
    BY <1>6, <2>1, <2>2, JoinParts
  <2>. HIDE DEF h
  <2>4. Len(h) = 2
    BY <1>4, <1>5, <2>3
  <2>5. \A i \in 1..2 : h[i] = "h"
    <3>1. w[0 + 1] = "h" /\ w[0 + 2] = "h"
      BY DEF Sends
    <3>2. \A i \in 1..2 : h[i] = w[0 + i]
      BY <2>3, <2>4 DEF Part
    <3>. QED
      BY <3>1, <3>2
  <2>6. \A i \in 1..2 : Header[i] = "h"
    BY HeaderSays
  <2>7. Len(h) = Len(Header) /\ Header \in Seq(Byte) /\ h \in Seq(Byte)
    BY <2>3, <2>4, HeaderSays
  <2>8. \A i \in 1..Len(h) : h[i] = Header[i]
    BY <2>4, <2>5, <2>6
  <2>. QED
    BY <2>7, <2>8, SeqEqual
<1>. HIDE DEF rest, front, h, v
<1>10. whole \in BOOLEAN /\ (whole => Len(rest) >= ask.length)
  <2>1. whole \in BOOLEAN
    OBVIOUS
  <2>2. whole => Len(rest) >= ask.length
    OBVIOUS
  <2>. QED
    BY <2>1, <2>2
<1>. HIDE DEF whole
<1>11. /\ v \in Request /\ v.raw_headers = Header /\ v.got_headers
       /\ v.raw_body = rest /\ (v.got_body <=> whole) /\ (v.parsed <=> whole)
  <2>1. Header \in Seq(Byte)
    BY HeaderSays
  <2>. QED
    BY <1>2, <1>7, <1>9, <1>10, <2>1 DEF Request
<1>12. v \in Request /\ Fed(v, w, ask.length, n + Len(data))
  <2>1. Len(rest) <= (n + Len(data)) - 4
    BY <1>3, <1>8
  <2>. QED
    BY <1>8, <1>10, <1>11, <2>1 DEF Fed
<1>. QED
  BY <1>12 DEF v

LEMMA FeedMore ==
  ASSUME NEW q \in Request, NEW data, NEW w, NEW n \in Nat, Comes(data, w, n),
         ask.length \in Nat, Fed(q, w, ask.length, n), q.got_headers
  PROVE  Feed(q, data) \in Request /\ Fed(Feed(q, data), w, ask.length, n + Len(data))
<1>. DEFINE v == Feed(q, data)
<1>1. /\ data \in Seq(Byte) /\ Len(data) \in Nat /\ Part(data, w, n)
      /\ q.raw_body \in Seq(Byte) /\ Len(q.raw_body) \in Nat
      /\ q.raw_headers = Header /\ Part(q.raw_body, w, 4) /\ Len(q.raw_body) <= n - 4
      /\ ~ q.got_body => Len(q.raw_body) = n - 4
      /\ q.got_body => Len(q.raw_body) >= ask.length
  BY RequestFields DEF Fed, Comes
<1>2. CASE q.got_body
  <2>1. v = [q EXCEPT !.parsed = TRUE]
    BY <1>2 DEF Feed
  <2>. HIDE DEF v
  <2>2. /\ v \in Request /\ v.raw_headers = q.raw_headers /\ v.got_headers /\ v.got_body
        /\ v.raw_body = q.raw_body /\ v.parsed
    BY <1>2, <2>1 DEF Request
  <2>3. Len(q.raw_body) <= (n + Len(data)) - 4
    BY <1>1
  <2>. QED
    BY <1>1, <1>2, <2>2, <2>3 DEF Fed, v
<1>3. CASE ~ q.got_body
  <2>. DEFINE body == q.raw_body \o data
              b == Len(body) >= ask.length
  <2>1. v = [q EXCEPT !.raw_body = body, !.late = TRUE, !.got_body = b]
    BY <1>3 DEF Feed, FeedBody
  <2>2. body \in Seq(Byte) /\ Len(body) = Len(q.raw_body) + Len(data) /\ Part(body, w, 4)
    <3>1. n = 4 + Len(q.raw_body)
      BY <1>1, <1>3
    <3>. QED
      BY <1>1, <3>1, JoinParts
  <2>3. b \in BOOLEAN /\ (b => Len(body) >= ask.length)
    OBVIOUS
  <2>4. Len(body) = (n + Len(data)) - 4 /\ Len(body) <= (n + Len(data)) - 4
    BY <1>1, <1>3, <2>2
  <2>. HIDE DEF body, b, v
  <2>5. /\ v \in Request /\ v.raw_headers = q.raw_headers /\ v.got_headers /\ v.late
        /\ v.raw_body = body /\ (v.got_body <=> b)
    BY <2>1, <2>2, <2>3 DEF Request
  <2>. QED
    BY <1>1, <2>2, <2>3, <2>4, <2>5 DEF Fed, v
<1>. QED
  BY <1>2, <1>3

(***************************************************************************)
(* Reading.                                                                *)
(***************************************************************************)
ReadType ==
  /\ ask \in [length : Lengths, extra : Extras]
  /\ wire \in Seq(Byte) /\ req \in Request

\* What was read is what the request was fed with, and the rest is in the wire.
ReadInv ==
  /\ Len(wire) <= Len(Wire(ask))
  /\ Part(wire, Wire(ask), Len(Wire(ask)) - Len(wire))
  /\ Fed(req, Wire(ask), ask.length, Len(Wire(ask)) - Len(wire))

LEMMA AskSends ==
  ASSUME ask \in [length : Lengths, extra : Extras]
  PROVE  ask.length \in Nat /\ ask.extra \in Nat /\ Sends(Wire(ask), ask)
<1>1. ask.length \in Nat /\ ask.extra \in Nat
  BY HttpAssumption
<1>. QED
  BY <1>1, WireSends

LEMMA ReadInit ==
  ASSUME Init
  PROVE  ReadType /\ ReadInv
<1>. DEFINE w == Wire(ask)
<1>1. ask \in [length : Lengths, extra : Extras] /\ wire = w /\ req = NoRequest
  BY DEF Init
<1>2. w \in Seq(Byte) /\ Len(w) \in Nat
  BY <1>1, AskSends, LenProperties DEF Sends
<1>3. <<>> \in Seq(Byte) /\ Len(<<>>) = 0
  BY EmptySeq
<1>4. /\ req \in Request /\ ~ req.got_headers /\ ~ req.got_body /\ req.raw_headers = <<>>
  BY <1>1, <1>3 DEF NoRequest, Request
<1>. HIDE DEF w
<1>5. Len(w) - Len(wire) = 0 /\ Len(wire) <= Len(w)
  BY <1>1, <1>2
<1>6. Part(wire, w, 0)
  BY <1>1, <1>2 DEF Part
<1>7. Fed(req, w, ask.length, 0)
  <2>1. Len(req.raw_headers) = 0 /\ Part(req.raw_headers, w, 0)
    BY <1>3, <1>4 DEF Part
  <2>. QED
    BY <1>4, <2>1 DEF Fed
<1>. QED
  BY <1>1, <1>2, <1>4, <1>5, <1>6, <1>7 DEF ReadType, ReadInv, w

LEMMA ReadReads ==
  ASSUME ReadType, ReadInv, NEW n \in 1..Len(wire),
         wire' = SubSeq(wire, n + 1, Len(wire)), req' = Feed(req, SubSeq(wire, 1, n)),
         ask' = ask
  PROVE  ReadType' /\ ReadInv' /\ Len(wire') = Len(wire) - n
<1>. DEFINE w == Wire(ask)
            m == Len(w) - Len(wire)
            data == SubSeq(wire, 1, n)
            rest == SubSeq(wire, n + 1, Len(wire))
<1>1. /\ ask.length \in Nat /\ ask.extra \in Nat /\ Sends(w, ask) /\ wire \in Seq(Byte)
      /\ req \in Request
  BY AskSends DEF ReadType
<1>2. Len(w) \in Nat /\ Len(wire) \in Nat /\ n \in Nat /\ n <= Len(wire) /\ n >= 1
  BY <1>1, LenProperties DEF Sends
<1>3. Len(wire) <= Len(w) /\ Part(wire, w, m) /\ Fed(req, w, ask.length, m)
  BY DEF ReadInv
<1>4. m \in Nat /\ Len(w) = m + Len(wire)
  BY <1>2, <1>3
<1>5. /\ data \in Seq(Byte) /\ Len(data) = n /\ \A i \in 1..n : data[i] = wire[i]
      /\ rest \in Seq(Byte) /\ Len(rest) = Len(wire) - n
      /\ \A i \in 1..(Len(wire) - n) : rest[i] = wire[n + i]
  <2>1. n \in 0..Len(wire)
    BY <1>2
  <2>. QED
    BY <1>1, <2>1, Halves
<1>6. wire' = rest /\ req' = Feed(req, data)
  OBVIOUS
<1>. HIDE DEF w, m, data, rest
<1>7. Part(data, w, m) /\ m + Len(data) <= Len(w)
  <2>1. \A i \in 1..n : i \in 1..Len(wire)
    BY <1>2
  <2>. QED
    BY <1>2, <1>3, <1>4, <1>5, <2>1 DEF Part
<1>8. Comes(data, w, m)
  BY <1>2, <1>5, <1>7 DEF Comes
<1>9. req' \in Request /\ Fed(req', w, ask.length, m + n)
  <2>1. CASE ~ req.got_headers /\ Ends(data) = {}
    BY <1>1, <1>3, <1>4, <1>5, <1>6, <1>8, <2>1, FeedHeader
  <2>2. CASE ~ req.got_headers /\ Ends(data) # {}
    BY <1>1, <1>3, <1>4, <1>5, <1>6, <1>8, <2>2, FeedLine
  <2>3. CASE req.got_headers
    BY <1>1, <1>3, <1>4, <1>5, <1>6, <1>8, <2>3, FeedMore
  <2>. QED
    BY <2>1, <2>2, <2>3
<1>10. Len(w) - Len(rest) = m + n /\ Len(rest) <= Len(w)
  BY <1>2, <1>4, <1>5
<1>11. Part(rest, w, m + n)
  <2>1. ASSUME NEW i \in 1..Len(rest) PROVE rest[i] = w[(m + n) + i]
    <3>1. n + i \in 1..Len(wire) /\ m + (n + i) = (m + n) + i /\ i \in 1..(Len(wire) - n)
      BY <1>2, <1>4, <1>5
    <3>. QED
      BY <1>3, <1>5, <3>1 DEF Part
  <2>. QED
    BY <2>1 DEF Part
<1>12. ReadInv'
  <2>1. Wire(ask') = w
    BY DEF w
  <2>. QED
    BY <1>6, <1>9, <1>10, <1>11, <2>1 DEF ReadInv
<1>. QED
  BY <1>5, <1>6, <1>9, <1>12 DEF ReadType

(***************************************************************************)
(* The response.                                                           *)
(***************************************************************************)
\* The only timer of a response is the one that it knows.
RespOK(r) ==
  /\ r \in [waiting : [timer_id : Nat, left : 0..Timeout], sending : {NotSending} \cup (0..size),
            armed : SUBSET Nat, timer_id : Nat, pend : Seq(Piece), refused : BOOLEAN]
  /\ r.armed \subseteq 1..r.timer_id
  /\ r.armed \subseteq {r.waiting.timer_id}

LEMMA RespFields ==
  ASSUME NEW r, RespOK(r)
  PROVE  /\ r.waiting \in [timer_id : Nat, left : 0..Timeout]
         /\ r.sending \in {NotSending} \cup (0..size)
         /\ r.timer_id \in Nat /\ r.armed \subseteq 1..r.timer_id
         /\ r.armed \subseteq {r.waiting.timer_id}
         /\ r.pend \in Seq(Piece) /\ Len(r.pend) \in Nat /\ r.refused \in BOOLEAN
         /\ r.waiting.timer_id \in Nat /\ r.waiting.left \in 0..Timeout
<1>1. /\ r.waiting \in [timer_id : Nat, left : 0..Timeout]
      /\ r.sending \in {NotSending} \cup (0..size)
      /\ r.timer_id \in Nat /\ r.armed \subseteq 1..r.timer_id
      /\ r.armed \subseteq {r.waiting.timer_id}
      /\ r.pend \in Seq(Piece) /\ r.refused \in BOOLEAN
  BY DEF RespOK
<1>. QED
  BY <1>1, LenProperties

LEMMA NothingSays ==
  Nothing \in [timer_id : Nat, left : 0..Timeout] /\ Nothing.timer_id = 0
BY HttpAssumption DEF Nothing

\* A response that does not wait has no timer.
LEMMA NoWaitNoTimer ==
  ASSUME NEW r, RespOK(r), r.waiting = Nothing
  PROVE  r.armed = {}
<1>1. r.armed \subseteq 1..r.timer_id /\ r.armed \subseteq {Nothing.timer_id} /\ r.timer_id \in Nat
  BY RespFields
<1>2. Nothing.timer_id = 0
  BY NothingSays
<1>. QED
  BY <1>1, <1>2

LEMMA Pieces ==
  ASSUME size \in Sizes
  PROVE  /\ size \in Nat /\ NotSending = -1 /\ Page \in Piece /\ FileHead \in Piece
         /\ FileHead = 0 /\ \A i \in 1..size : i \in Piece
<1>1. size \in Nat
  BY HttpAssumption
<1>2. Page \in Piece /\ FileHead \in Piece
  BY DEF Piece
<1>3. \A i \in 1..size : i \in UNION {1..s : s \in Sizes}
  OBVIOUS
<1>. QED
  BY <1>1, <1>2, <1>3 DEF Piece, NotSending, FileHead

\* v is r with some more pieces, unless a put was refused.
Puts(r, pieces, v) ==
  /\ RespOK(v) /\ v.waiting = r.waiting /\ v.sending = r.sending
  /\ v.armed = r.armed /\ v.timer_id = r.timer_id
  /\ ~ v.refused => ~ r.refused /\ v.pend = r.pend \o pieces

LEMMA PutPuts ==
  ASSUME NEW r, RespOK(r), NEW pieces \in Seq(Piece)
  PROVE  Puts(r, pieces, Put(r, pieces))
<1>. DEFINE c == pieces # <<>> /\ (full \/ (quota # 0 /\ Len(r.pend) + Len(pieces) > quota))
            more == r.pend \o pieces
            v == Put(r, pieces)
<1>1. v = IF c THEN [r EXCEPT !.refused = TRUE] ELSE [r EXCEPT !.pend = more]
  BY DEF Put
<1>2. more \in Seq(Piece)
  BY RespFields, ConcatProperties
<1>. HIDE DEF c, more, v
<1>3. CASE c
  <2>1. v = [r EXCEPT !.refused = TRUE]
    BY <1>1, <1>3
  <2>2. /\ RespOK(v) /\ v.waiting = r.waiting /\ v.sending = r.sending
        /\ v.armed = r.armed /\ v.timer_id = r.timer_id /\ v.refused
    BY <2>1 DEF RespOK
  <2>. QED
    BY <2>2 DEF Puts, v
<1>4. CASE ~ c
  <2>1. v = [r EXCEPT !.pend = more]
    BY <1>1, <1>4
  <2>2. /\ RespOK(v) /\ v.waiting = r.waiting /\ v.sending = r.sending
        /\ v.armed = r.armed /\ v.timer_id = r.timer_id /\ (v.refused <=> r.refused)
        /\ v.pend = more
    BY <1>2, <2>1 DEF RespOK
  <2>. QED
    BY <2>2 DEF Puts, v, more
<1>. QED
  BY <1>3, <1>4

\* The position in the file is set.
SetsSending(r, k, u) ==
  /\ k \in {NotSending} \cup (0..size)
  /\ u = [r EXCEPT !.sending = k]

LEMMA SetSending ==
  ASSUME NEW r, RespOK(r), NEW k, NEW u, SetsSending(r, k, u)
  PROVE  /\ RespOK(u) /\ u.waiting = r.waiting /\ u.sending = k
         /\ u.armed = r.armed /\ u.timer_id = r.timer_id /\ u.pend = r.pend
         /\ (u.refused <=> r.refused)
BY DEF RespOK, SetsSending

\* v is r with some more pieces and a new position, unless a put was refused.
PutsAt(r, k, pieces, v) ==
  /\ RespOK(v) /\ v.waiting = r.waiting /\ v.sending = k
  /\ v.armed = r.armed /\ v.timer_id = r.timer_id
  /\ ~ v.refused => ~ r.refused /\ v.pend = r.pend \o pieces

LEMMA PutPutsAt ==
  ASSUME NEW r, RespOK(r), NEW k, NEW u, SetsSending(r, k, u), NEW pieces \in Seq(Piece)
  PROVE  PutsAt(r, k, pieces, Put(u, pieces))
<1>. DEFINE v == Put(u, pieces)
<1>1. /\ RespOK(u) /\ u.waiting = r.waiting /\ u.sending = k
      /\ u.armed = r.armed /\ u.timer_id = r.timer_id /\ u.pend = r.pend
      /\ (u.refused <=> r.refused)
  BY SetSending
<1>2. Puts(u, pieces, v)
  BY <1>1, PutPuts
<1>. HIDE DEF v
<1>3. PutsAt(r, k, pieces, v)
  BY <1>1, <1>2 DEF Puts, PutsAt
<1>. QED
  BY <1>3 DEF v

LEMMA SendResponsePuts ==
  ASSUME NEW r, RespOK(r), size \in Sizes
  PROVE  Puts(r, <<Page>>, SendResponse(r))
<1>1. <<Page>> \in Seq(Piece)
  BY Pieces
<1>. QED
  BY <1>1, PutPuts DEF SendResponse

LEMMA SendFilePuts ==
  ASSUME NEW r, RespOK(r), size \in Sizes
  PROVE  /\ r.sending = NotSending => PutsAt(r, 0, <<FileHead>>, SendFile(r))
         /\ r.sending # NotSending => SendFile(r) = r
<1>1. CASE r.sending = NotSending
  <2>. DEFINE u == [r EXCEPT !.sending = 0]
  <2>1. SetsSending(r, 0, u) /\ <<FileHead>> \in Seq(Piece)
    BY Pieces DEF SetsSending
  <2>2. SendFile(r) = Put(u, <<FileHead>>)
    BY <1>1 DEF SendFile
  <2>. HIDE DEF u
  <2>3. PutsAt(r, 0, <<FileHead>>, Put(u, <<FileHead>>))
    BY <2>1, PutPutsAt
  <2>. QED
    BY <1>1, <2>2, <2>3
<1>2. CASE r.sending # NotSending
  BY <1>2 DEF SendFile
<1>. QED
  BY <1>1, <1>2

\* v is r with a timer of its own.
Waits(r, left, v) ==
  /\ RespOK(v) /\ v.waiting # Nothing /\ v.sending = r.sending /\ v.pend = r.pend
  /\ (v.refused <=> r.refused)

LEMMA SetTimerWaits ==
  ASSUME NEW r, RespOK(r), r.armed = {}, NEW left \in 0..Timeout
  PROVE  Waits(r, left, SetTimer(r, left))
<1>. DEFINE n == r.timer_id + 1
            wait == [timer_id |-> n, left |-> left]
            v == SetTimer(r, left)
<1>1. v = [r EXCEPT !.timer_id = n, !.armed = r.armed \cup {n}, !.waiting = wait]
  BY DEF SetTimer
<1>2. r.timer_id \in Nat /\ n \in Nat /\ n # 0 /\ n \in 1..n
  BY RespFields
<1>3. wait \in [timer_id : Nat, left : 0..Timeout] /\ wait.timer_id = n
  BY <1>2
<1>4. wait # Nothing
  BY <1>2, <1>3, NothingSays
<1>. HIDE DEF n, wait, v
<1>5. /\ v.timer_id = n /\ v.armed = {n} /\ v.waiting = wait /\ v.sending = r.sending
      /\ v.pend = r.pend /\ (v.refused <=> r.refused)
      /\ v \in [waiting : [timer_id : Nat, left : 0..Timeout],
                sending : {NotSending} \cup (0..size), armed : SUBSET Nat, timer_id : Nat,
                pend : Seq(Piece), refused : BOOLEAN]
  BY <1>1, <1>2, <1>3 DEF RespOK
<1>6. RespOK(v)
  BY <1>2, <1>3, <1>5 DEF RespOK
<1>. QED
  BY <1>4, <1>5, <1>6 DEF Waits, v

(***************************************************************************)
(* The chunks of the file.                                                 *)
(***************************************************************************)
\* The header of a file and its first k bytes.
File(k) == [i \in 1..(k + 1) |-> i - 1]

ChunkOf(k, n) == [i \in 1..n |-> k + i]

LEMMA FileSays ==
  ASSUME size \in Sizes, NEW k \in 0..size
  PROVE  /\ File(k) \in Seq(Piece) /\ Len(File(k)) = k + 1
         /\ \A i \in 1..(k + 1) : File(k)[i] = i - 1
<1>1. size \in Nat /\ k \in Nat /\ k + 1 \in Nat
  BY Pieces
<1>2. ASSUME NEW i \in 1..(k + 1) PROVE i - 1 \in Piece
  <2>1. CASE i = 1
    BY <2>1, Pieces
  <2>2. CASE i # 1
    <3>1. i - 1 \in 1..size
      BY <1>1, <2>2
    <3>. QED
      BY <3>1, Pieces
  <2>. QED
    BY <2>1, <2>2
<1>3. File(k) \in [1..(k + 1) -> Piece] /\ \A i \in 1..(k + 1) : File(k)[i] = i - 1
  BY <1>2 DEF File
<1>. QED
  BY <1>1, <1>3, Sequence

LEMMA ChunkSays ==
  ASSUME size \in Sizes, NEW k \in 0..size, NEW n \in 0..(size - k)
  PROVE  /\ ChunkOf(k, n) \in Seq(Piece) /\ Len(ChunkOf(k, n)) = n
         /\ \A i \in 1..n : ChunkOf(k, n)[i] = k + i
<1>1. size \in Nat /\ k \in Nat /\ n \in Nat
  BY Pieces
<1>2. ASSUME NEW i \in 1..n PROVE k + i \in Piece
  <2>1. k + i \in 1..size
    BY <1>1
  <2>. QED
    BY <2>1, Pieces
<1>3. ChunkOf(k, n) \in [1..n -> Piece] /\ \A i \in 1..n : ChunkOf(k, n)[i] = k + i
  BY <1>2 DEF ChunkOf
<1>. QED
  BY <1>1, <1>3, Sequence

LEMMA FirstPiece ==
  ASSUME size \in Sizes
  PROVE  <<FileHead>> = File(0) /\ File(0) \in Seq(Piece)
<1>1. 0 \in 0..size
  BY Pieces
<1>2. /\ File(0) \in Seq(Piece) /\ Len(File(0)) = 0 + 1
      /\ \A i \in 1..(0 + 1) : File(0)[i] = i - 1
  BY <1>1, FileSays
<1>3. /\ <<FileHead>> \in Seq(Piece) /\ Len(<<FileHead>>) = 1
      /\ <<FileHead>>[1] = FileHead /\ FileHead = 0
  BY Pieces
<1>4. \A i \in 1..Len(File(0)) : File(0)[i] = <<FileHead>>[i]
  BY <1>2, <1>3
<1>. QED
  BY <1>2, <1>3, <1>4, SeqEqual

LEMMA FileGoesOn ==
  ASSUME size \in Sizes, NEW k \in 0..size, NEW n \in 0..(size - k)
  PROVE  File(k) \o ChunkOf(k, n) = File(k + n)
<1>. DEFINE f == File(k)
            c == ChunkOf(k, n)
            g == File(k + n)
            j == f \o c
<1>1. size \in Nat /\ k \in Nat /\ n \in Nat /\ k + n \in 0..size
  BY Pieces
<1>2. f \in Seq(Piece) /\ Len(f) = k + 1 /\ \A i \in 1..(k + 1) : f[i] = i - 1
  BY FileSays
<1>3. c \in Seq(Piece) /\ Len(c) = n /\ \A i \in 1..n : c[i] = k + i
  BY ChunkSays
<1>4. g \in Seq(Piece) /\ Len(g) = k + n + 1 /\ \A i \in 1..(k + n + 1) : g[i] = i - 1
  BY <1>1, FileSays
<1>. HIDE DEF f, c, g
<1>5. /\ j \in Seq(Piece) /\ Len(j) = Len(f) + Len(c)
      /\ \A i \in 1..(Len(f) + Len(c)) : j[i] = IF i <= Len(f) THEN f[i] ELSE c[i - Len(f)]
  BY <1>2, <1>3, ConcatProperties
<1>. HIDE DEF j
<1>6. Len(j) = Len(g)
  BY <1>1, <1>2, <1>3, <1>4, <1>5
<1>7. ASSUME NEW i \in 1..Len(j) PROVE j[i] = g[i]
  <2>1. CASE i <= k + 1
    BY <1>1, <1>2, <1>3, <1>4, <1>5, <1>6, <2>1
  <2>2. CASE ~ (i <= k + 1)
    <3>1. i - (k + 1) \in 1..n /\ k + (i - (k + 1)) = i - 1
      BY <1>1, <1>2, <1>3, <1>5, <2>2
    <3>. QED
      BY <1>1, <1>2, <1>3, <1>4, <1>5, <1>6, <2>2, <3>1
  <2>. QED
    BY <2>1, <2>2
<1>8. j = g
  BY <1>4, <1>5, <1>6, <1>7, SeqEqual
<1>. QED
  BY <1>8 DEF j, f, c, g

\* One chunk: the position after it, or the end of the file.
LEMMA OperationPuts ==
  ASSUME NEW r, RespOK(r), size \in Sizes, r.waiting = Nothing, r.sending # NotSending
  PROVE  \E n \in 0..(size - r.sending) :
           /\ r.sending \in 0..size
           /\ \/ PutsAt(r, r.sending + n, ChunkOf(r.sending, n), HandlePendingOperation(r))
              \/ /\ r.sending + n = size
                 /\ PutsAt(r, NotSending, ChunkOf(r.sending, n), HandlePendingOperation(r))
<1>. DEFINE k == r.sending
            n == BytesRead(r)
            p == PositionAfter(r)
            u == [r EXCEPT !.sending = p]
            v == HandlePendingOperation(r)
<1>1. size \in Nat /\ k \in 0..size /\ Chunk \in Nat \ {0} /\ NotSending = -1
  BY RespFields, Pieces, HttpAssumption
<1>2. n = IF size - k < Chunk THEN size - k ELSE Chunk
  BY DEF BytesRead
<1>3. p = IF n < Chunk THEN NotSending ELSE k + n
  BY DEF PositionAfter
<1>4. v = Put(u, ChunkOf(k, n))
  BY DEF HandlePendingOperation, ChunkOf
<1>. HIDE DEF k, n, p, v
<1>5. n \in 0..(size - k) /\ (n < Chunk => k + n = size)
  BY <1>1, <1>2
<1>6. p \in {NotSending} \cup (0..size)
  BY <1>1, <1>3, <1>5
<1>7. SetsSending(r, p, u)
  BY <1>6 DEF SetsSending
<1>8. ChunkOf(k, n) \in Seq(Piece)
  BY <1>1, <1>5, ChunkSays
<1>. HIDE DEF u
<1>9. PutsAt(r, p, ChunkOf(k, n), Put(u, ChunkOf(k, n)))
  BY <1>7, <1>8, PutPutsAt
<1>10. CASE n < Chunk
  <2>1. PutsAt(r, NotSending, ChunkOf(k, n), v) /\ k + n = size
    BY <1>3, <1>4, <1>5, <1>9, <1>10
  <2>. QED
    BY <1>1, <1>5, <2>1 DEF k, v
<1>11. CASE ~ (n < Chunk)
  <2>1. PutsAt(r, k + n, ChunkOf(k, n), v)
    BY <1>3, <1>4, <1>9, <1>11
  <2>. QED
    BY <1>1, <1>5, <2>1 DEF k, v
<1>. QED
  BY <1>10, <1>11

(***************************************************************************)
(* The connection.                                                         *)
(***************************************************************************)
LEMMA HandleCases ==
  ASSUME NEW r
  PROVE  /\ Handle(r, "page") = r
         /\ Handle(r, "file") = SendFile(r)
         /\ Handle(r, "wait") = WaitFor(r)
BY DEF Handle

\* Only one of the two things is pending.
LEMMA PendingSays ==
  ASSUME NEW r
  PROVE  Pending(r) <=> r.waiting # Nothing \/ r.sending # NotSending
BY DEF Pending

LEMMA WaitForWaits ==
  ASSUME NEW r, RespOK(r)
  PROVE  /\ Pending(r) => WaitFor(r) = r
         /\ ~ Pending(r) => Waits(r, Timeout, WaitFor(r))
<1>1. CASE Pending(r)
  BY <1>1 DEF WaitFor
<1>2. CASE ~ Pending(r)
  <2>1. r.armed = {}
    BY <1>2, NoWaitNoTimer, PendingSays
  <2>2. Timeout \in 0..Timeout
    BY HttpAssumption
  <2>3. Waits(r, Timeout, SetTimer(r, Timeout))
    BY <2>1, <2>2, SetTimerWaits
  <2>. QED
    BY <1>2, <2>3 DEF WaitFor
<1>. QED
  BY <1>1, <1>2

LEMMA HandleOK ==
  ASSUME NEW r, RespOK(r), size \in Sizes, NEW what \in {"page", "file", "wait"}
  PROVE  RespOK(Handle(r, what)) /\ RespOK(SendResponse(Handle(r, what)))
<1>1. RespOK(Handle(r, what))
  <2>1. CASE what = "page"
    BY <2>1, HandleCases
  <2>2. CASE what = "file"
    <3>1. RespOK(SendFile(r))
      <4>1. CASE r.sending = NotSending
        BY <4>1, SendFilePuts DEF PutsAt
      <4>2. CASE r.sending # NotSending
        BY <4>2, SendFilePuts
      <4>. QED
        BY <4>1, <4>2
    <3>. QED
      BY <2>2, <3>1, HandleCases
  <2>3. CASE what = "wait"
    <3>1. RespOK(WaitFor(r))
      <4>1. CASE Pending(r)
        BY <4>1, WaitForWaits
      <4>2. CASE ~ Pending(r)
        BY <4>2, WaitForWaits DEF Waits
      <4>. QED
        BY <4>1, <4>2
    <3>. QED
      BY <2>3, <3>1, HandleCases
  <2>. QED
    BY <2>1, <2>2, <2>3
<1>. DEFINE h == Handle(r, what)
<1>. HIDE DEF h
<1>2. RespOK(h)
  BY <1>1 DEF h
<1>3. Puts(h, <<Page>>, SendResponse(h))
  BY <1>2, SendResponsePuts
<1>4. RespOK(SendResponse(h))
  BY <1>3 DEF Puts
<1>. QED
  BY <1>2, <1>4 DEF h

LEMMA OperationOK ==
  ASSUME NEW r, RespOK(r), size \in Sizes
  PROVE  RespOK(HandlePendingOperation(r)) /\ HandlePendingOperation(r).waiting = r.waiting
<1>1. CASE r.waiting # Nothing \/ r.sending = NotSending
  BY <1>1 DEF HandlePendingOperation
<1>2. CASE r.waiting = Nothing /\ r.sending # NotSending
  <2>1. PICK n \in 0..(size - r.sending) :
           \/ PutsAt(r, r.sending + n, ChunkOf(r.sending, n), HandlePendingOperation(r))
           \/ PutsAt(r, NotSending, ChunkOf(r.sending, n), HandlePendingOperation(r))
    BY <1>2, OperationPuts
  <2>. QED
    BY <2>1 DEF PutsAt
<1>. QED
  BY <1>1, <1>2

\* The fields that leave the buffer and the timers as they are, or drop them.
LEMMA DropOK ==
  ASSUME NEW r, RespOK(r), NEW pend \in Seq(Piece), NEW v, v = [r EXCEPT !.pend = pend]
  PROVE  /\ RespOK(v) /\ v.waiting = r.waiting /\ v.sending = r.sending /\ v.pend = pend
         /\ (v.refused <=> r.refused)
BY DEF RespOK

\* The timer that called is not armed any more.
Called(r) == [r EXCEPT !.armed = r.armed \ {r.waiting.timer_id}]

LEMMA CalledOK ==
  ASSUME NEW r, RespOK(r)
  PROVE  /\ RespOK(Called(r)) /\ Called(r).armed = {} /\ Called(r).waiting = r.waiting
         /\ Called(r).sending = r.sending /\ Called(r).pend = r.pend
         /\ (Called(r).refused <=> r.refused)
<1>. DEFINE v == Called(r)
            left == r.armed \ {r.waiting.timer_id}
<1>1. left = {}
  BY RespFields
<1>2. v = [r EXCEPT !.armed = left]
  BY DEF Called
<1>. HIDE DEF v, left
<1>3. /\ RespOK(v) /\ v.armed = {} /\ v.waiting = r.waiting /\ v.sending = r.sending
      /\ v.pend = r.pend /\ (v.refused <=> r.refused)
  BY <1>1, <1>2 DEF RespOK
<1>. QED
  BY <1>3 DEF v

\* Not waiting any more.
Freed(r) == [r EXCEPT !.waiting = Nothing]

LEMMA FreedOK ==
  ASSUME NEW r, RespOK(r), r.armed = {}
  PROVE  /\ RespOK(Freed(r)) /\ Freed(r).waiting = Nothing /\ Freed(r).sending = r.sending
         /\ Freed(r).pend = r.pend /\ (Freed(r).refused <=> r.refused)
<1>. DEFINE v == Freed(r)
<1>1. Nothing \in [timer_id : Nat, left : 0..Timeout]
  BY NothingSays
<1>2. v = [r EXCEPT !.waiting = Nothing]
  BY DEF Freed
<1>. HIDE DEF v
<1>3. /\ RespOK(v) /\ v.waiting = Nothing /\ v.sending = r.sending
      /\ v.pend = r.pend /\ (v.refused <=> r.refused)
  BY <1>1, <1>2 DEF RespOK
<1>. QED
  BY <1>3 DEF v

LEMMA DeleteOK ==
  ASSUME NEW r, RespOK(r), Delete(r)
  PROVE  /\ conn' = "deleted" /\ RespOK(resp') /\ resp'.waiting = Nothing
         /\ resp'.sending = NotSending /\ resp'.pend = <<>> /\ (resp'.refused <=> r.refused)
<1>. DEFINE left == r.armed \ {r.waiting.timer_id}
<1>1. /\ conn' = "deleted"
      /\ resp' = [r EXCEPT !.armed = left, !.waiting = Nothing, !.sending = NotSending,
                           !.pend = <<>>]
  BY DEF Delete
<1>2. left = {}
  BY RespFields
<1>3. Nothing \in [timer_id : Nat, left : 0..Timeout] /\ <<>> \in Seq(Piece)
  BY NothingSays, EmptySeq
<1>. HIDE DEF left
<1>. QED
  BY <1>1, <1>2, <1>3 DEF RespOK

ConnType ==
  /\ size \in Sizes /\ quota \in Quotas /\ full \in BOOLEAN
  /\ conn \in {"open", "disabled", "deleted"}
  /\ received \in Seq(Piece)

\* A deleted connection waits for nothing.
RespInv ==
  /\ ConnType /\ RespOK(resp)
  /\ conn = "deleted" => resp.waiting = Nothing

\* RespOK speaks of the file's size, which does not change.
LEMMA RespPrimes ==
  ASSUME RespOK(resp'), size' = size
  PROVE  RespOK(resp)'
BY DEF RespOK

LEMMA ReadResponds ==
  ASSUME RespInv, Read
  PROVE  RespInv'
<1>1. /\ conn = "open" /\ conn' = conn /\ size' = size /\ quota' = quota /\ full' = full
      /\ received' = received
  BY DEF Read
<1>2. RespOK(resp) /\ size \in Sizes
  BY DEF RespInv, ConnType
<1>3. RespOK(resp')
  <2>1. CASE resp' = resp
    BY <1>2, <2>1
  <2>2. CASE \E what \in {"page", "file", "wait"} :
               LET r == Handle(resp, what)
               IN  resp' = IF Pending(r) THEN r ELSE SendResponse(r)
    <3>1. PICK what \in {"page", "file", "wait"} :
            resp' = IF Pending(Handle(resp, what)) THEN Handle(resp, what)
                    ELSE SendResponse(Handle(resp, what))
      BY <2>2
    <3>. QED
      BY <1>2, <3>1, HandleOK
  <2>. QED
    BY <2>1, <2>2 DEF Read
<1>4. RespOK(resp)'
  BY <1>1, <1>3, RespPrimes
<1>. QED
  BY <1>1, <1>4 DEF RespInv, ConnType

\* What a timer does: it waits for another second, or hands over to the response.
LEMMA TimerSays ==
  ASSUME RespInv, TimerCall
  PROVE  /\ conn # "deleted"
         /\ \/ \E left \in 0..Timeout : Waits(Called(resp), left, resp')
            \/ \E what \in {"page", "file"} :
                 LET r == Freed(Handle(Called(resp), what))
                 IN  resp' = IF Pending(r) THEN HandlePendingOperation(r) ELSE SendResponse(r)
<1>1. RespOK(resp) /\ resp.waiting # Nothing /\ conn # "deleted"
  BY DEF RespInv, TimerCall
<1>2. RespOK(Called(resp)) /\ Called(resp).armed = {}
  BY <1>1, CalledOK
<1>3. Called(resp) = [resp EXCEPT !.armed = @ \ {resp.waiting.timer_id}]
  BY DEF Called
<1>4. CASE TimerRearms
  <2>. DEFINE left == resp.waiting.left - 1
  <2>1. left \in 0..Timeout
    BY <1>1, <1>4, RespFields, HttpAssumption DEF TimerRearms
  <2>2. resp' = SetTimer(Called(resp), left)
    BY <1>3, <1>4 DEF TimerRearms
  <2>. HIDE DEF left
  <2>3. Waits(Called(resp), left, resp')
    BY <1>2, <2>1, <2>2, SetTimerWaits
  <2>. QED
    BY <1>1, <2>1, <2>3
<1>5. CASE TimerFinishes
  BY <1>1, <1>3, <1>5 DEF TimerFinishes, Freed
<1>. QED
  BY <1>4, <1>5 DEF TimerCall

LEMMA TimerResponds ==
  ASSUME RespInv, TimerCall
  PROVE  RespInv'
<1>1. /\ conn' = conn /\ size' = size /\ quota' = quota /\ full' = full
      /\ received' = received
  BY DEF TimerCall
<1>2. RespOK(resp) /\ size \in Sizes /\ conn # "deleted"
  BY TimerSays DEF RespInv, ConnType
<1>3. RespOK(resp')
  <2>1. CASE \E left \in 0..Timeout : Waits(Called(resp), left, resp')
    BY <2>1 DEF Waits
  <2>2. CASE \E what \in {"page", "file"} :
               LET r == Freed(Handle(Called(resp), what))
               IN  resp' = IF Pending(r) THEN HandlePendingOperation(r) ELSE SendResponse(r)
    <3>1. PICK what \in {"page", "file"} :
            LET r == Freed(Handle(Called(resp), what))
            IN  resp' = IF Pending(r) THEN HandlePendingOperation(r) ELSE SendResponse(r)
      BY <2>2
    <3>. DEFINE d == Called(resp)
                h == Handle(d, what)
                r == Freed(h)
    <3>2. RespOK(d) /\ d.armed = {}
      BY <1>2, CalledOK
    <3>. HIDE DEF d
    <3>3. RespOK(h) /\ h.armed = {}
      <4>1. CASE what = "page"
        BY <3>2, <4>1, HandleCases
      <4>2. CASE what = "file"
        <5>1. h = SendFile(d)
          BY <4>2, HandleCases
        <5>2. CASE d.sending = NotSending
          BY <1>2, <3>2, <5>1, <5>2, SendFilePuts DEF PutsAt
        <5>3. CASE d.sending # NotSending
          BY <1>2, <3>2, <5>1, <5>3, SendFilePuts
        <5>. QED
          BY <5>2, <5>3
      <4>. QED
        BY <4>1, <4>2
    <3>4. resp' = IF Pending(r) THEN HandlePendingOperation(r) ELSE SendResponse(r)
      BY <3>1 DEF d
    <3>. HIDE DEF h
    <3>5. RespOK(r)
      BY <3>3, FreedOK
    <3>. HIDE DEF r
    <3>6. RespOK(HandlePendingOperation(r))
      BY <1>2, <3>5, OperationOK
    <3>7. RespOK(SendResponse(r))
      BY <1>2, <3>5, SendResponsePuts DEF Puts
    <3>. QED
      BY <3>4, <3>6, <3>7
  <2>. QED
    BY <2>1, <2>2, TimerSays
<1>4. RespOK(resp)'
  BY <1>1, <1>3, RespPrimes
<1>. QED
  BY <1>1, <1>2, <1>4 DEF RespInv, ConnType

\* What is written: a part of the buffer, and with the last piece more or the end.
LEMMA WriteSays ==
  ASSUME RespInv, Write
  PROVE  \E n \in 1..Len(resp.pend) :
           LET rest == SubSeq(resp.pend, n + 1, Len(resp.pend))
               r    == [resp EXCEPT !.pend = rest]
           IN  /\ received' = received \o SubSeq(resp.pend, 1, n)
               /\ \/ rest # <<>> /\ resp' = r /\ conn' = conn
                  \/ rest = <<>> /\ Pending(r) /\ resp' = HandlePendingOperation(r) /\ conn' = conn
                  \/ rest = <<>> /\ ~ Pending(r) /\ Delete(r)
<1>1. PICK n \in 1..Len(resp.pend) :
        LET r == [resp EXCEPT !.pend = SubSeq(@, n + 1, Len(@))]
        IN  /\ received' = received \o SubSeq(resp.pend, 1, n)
            /\ \/ r.pend # <<>> /\ resp' = r /\ UNCHANGED conn
               \/ r.pend = <<>> /\ Pending(r)
                  /\ resp' = HandlePendingOperation(r) /\ UNCHANGED conn
               \/ r.pend = <<>> /\ ~Pending(r) /\ Delete(r)
  BY DEF Write
<1>. DEFINE rest == SubSeq(resp.pend, n + 1, Len(resp.pend))
            r == [resp EXCEPT !.pend = rest]
<1>2. r = [resp EXCEPT !.pend = SubSeq(@, n + 1, Len(@))]
  OBVIOUS
<1>3. r.pend = rest
  BY DEF RespInv, RespOK
<1>. HIDE DEF r
<1>4. /\ received' = received \o SubSeq(resp.pend, 1, n)
      /\ \/ rest # <<>> /\ resp' = r /\ conn' = conn
         \/ rest = <<>> /\ Pending(r) /\ resp' = HandlePendingOperation(r) /\ conn' = conn
         \/ rest = <<>> /\ ~ Pending(r) /\ Delete(r)
  BY <1>1, <1>2, <1>3
<1>. QED
  BY <1>4 DEF r

LEMMA WriteResponds ==
  ASSUME RespInv, Write
  PROVE  RespInv'
<1>1. /\ conn = "open" /\ size' = size /\ quota' = quota /\ full' = full
  BY DEF Write
<1>2. RespOK(resp) /\ size \in Sizes /\ resp.pend \in Seq(Piece) /\ received \in Seq(Piece)
      /\ Len(resp.pend) \in Nat
  BY RespFields DEF RespInv, ConnType
<1>3. PICK n \in 1..Len(resp.pend) :
           LET rest == SubSeq(resp.pend, n + 1, Len(resp.pend))
               r    == [resp EXCEPT !.pend = rest]
           IN  /\ received' = received \o SubSeq(resp.pend, 1, n)
               /\ \/ rest # <<>> /\ resp' = r /\ conn' = conn
                  \/ rest = <<>> /\ Pending(r) /\ resp' = HandlePendingOperation(r) /\ conn' = conn
                  \/ rest = <<>> /\ ~ Pending(r) /\ Delete(r)
  BY WriteSays
<1>. DEFINE front == SubSeq(resp.pend, 1, n)
            rest == SubSeq(resp.pend, n + 1, Len(resp.pend))
            r == [resp EXCEPT !.pend = rest]
<1>4. front \in Seq(Piece) /\ rest \in Seq(Piece)
  <2>1. n \in 0..Len(resp.pend)
    BY <1>2
  <2>. QED
    BY <1>2, <2>1, Halves
<1>5. /\ received' = received \o front
      /\ \/ resp' = r /\ conn' = conn
         \/ resp' = HandlePendingOperation(r) /\ conn' = conn
         \/ Delete(r)
  BY <1>3
<1>. HIDE DEF front, rest
<1>6. RespOK(r)
  BY <1>2, <1>4, DropOK
<1>. HIDE DEF r
<1>7. received' \in Seq(Piece)
  BY <1>2, <1>4, <1>5, ConcatProperties
<1>8. RespOK(resp') /\ (conn' = conn \/ (conn' = "deleted" /\ resp'.waiting = Nothing))
  <2>1. CASE resp' = r /\ conn' = conn
    BY <1>6, <2>1
  <2>2. CASE resp' = HandlePendingOperation(r) /\ conn' = conn
    BY <1>2, <1>6, <2>2, OperationOK
  <2>3. CASE Delete(r)
    BY <1>6, <2>3, DeleteOK
  <2>. QED
    BY <1>5, <2>1, <2>2, <2>3
<1>9. RespOK(resp)'
  BY <1>1, <1>8, RespPrimes
<1>. QED
  BY <1>1, <1>7, <1>8, <1>9 DEF RespInv, ConnType

LEMMA RespNext ==
  ASSUME RespInv, [Next]_vars
  PROVE  RespInv'
<1>1. CASE Read
  BY <1>1, ReadResponds
<1>2. CASE TimerCall
  BY <1>2, TimerResponds
<1>3. CASE Write
  BY <1>3, WriteResponds
<1>4. CASE PeerDown
  <2>1. RespOK(resp) /\ size' = size
    BY <1>4 DEF RespInv, PeerDown
  <2>2. conn' = "deleted" /\ RespOK(resp') /\ resp'.waiting = Nothing
    BY <1>4, <2>1, DeleteOK DEF PeerDown
  <2>3. RespOK(resp)'
    BY <2>1, <2>2, RespPrimes
  <2>. QED
    BY <1>4, <2>2, <2>3 DEF PeerDown, RespInv, ConnType
<1>5. CASE AsyncError
  <2>1. RespOK(resp) /\ size' = size /\ <<>> \in Seq(Piece)
    BY <1>5, EmptySeq DEF RespInv, AsyncError
  <2>2. RespOK(resp')
    BY <1>5, <2>1, DropOK DEF AsyncError
  <2>3. RespOK(resp)'
    BY <2>1, <2>2, RespPrimes
  <2>. QED
    BY <1>5, <2>3 DEF AsyncError, RespInv, ConnType
<1>6. CASE Others \/ UNCHANGED vars
  <2>1. /\ resp' = resp /\ size' = size /\ conn' = conn /\ received' = received
        /\ quota' = quota /\ full' \in BOOLEAN
    BY <1>6 DEF Others, vars, RespInv, ConnType
  <2>2. RespOK(resp')
    BY <2>1 DEF RespInv
  <2>3. RespOK(resp)'
    BY <2>1, <2>2, RespPrimes
  <2>. QED
    BY <2>1, <2>3 DEF RespInv, ConnType
<1>. QED
  BY <1>1, <1>2, <1>3, <1>4, <1>5, <1>6 DEF Next

LEMMA ReadSays ==
  ASSUME Read
  PROVE  \E n \in 1..Len(wire) :
           /\ wire' = SubSeq(wire, n + 1, Len(wire)) /\ req' = Feed(req, SubSeq(wire, 1, n))
           /\ ask' = ask
BY DEF Read

LEMMA ReadNext ==
  ASSUME ReadType, ReadInv, [Next]_vars
  PROVE  ReadType' /\ ReadInv'
<1>1. CASE Read
  BY <1>1, ReadSays, ReadReads
<1>2. CASE TimerCall \/ Write \/ PeerDown \/ AsyncError \/ Others \/ UNCHANGED vars
  <2>1. ask' = ask /\ wire' = wire /\ req' = req
    BY <1>2 DEF TimerCall, Write, PeerDown, AsyncError, Others, vars
  <2>. QED
    BY <2>1 DEF ReadType, ReadInv
<1>. QED
  BY <1>1, <1>2 DEF Next

(***************************************************************************)
(* The answer.                                                             *)
(***************************************************************************)
InAnswer(t) == \E answer \in {<<Page>>, [i \in 1..(size + 1) |-> i - 1]} : IsPrefix(t, answer)

LEMMA PrefixPoints ==
  ASSUME NEW S, NEW s \in Seq(S), NEW t \in Seq(S), Len(s) <= Len(t),
         \A i \in 1..Len(s) : s[i] = t[i]
  PROVE  IsPrefix(s, t)
<1>. DEFINE n == Len(s)
            u == SubSeq(s, 1, n)
            v == SubSeq(t, 1, n)
<1>1. n \in 0..Len(s) /\ n \in 0..Len(t)
  BY LenProperties
<1>2. u \in Seq(S) /\ Len(u) = n /\ \A i \in 1..n : u[i] = s[i]
  BY <1>1, Halves
<1>3. v \in Seq(S) /\ Len(v) = n /\ \A i \in 1..n : v[i] = t[i]
  BY <1>1, Halves
<1>. HIDE DEF u, v
<1>4. u = v
  BY <1>2, <1>3, SeqEqual
<1>. QED
  BY <1>4 DEF IsPrefix, u, v

LEMMA PointsPrefix ==
  ASSUME NEW S, NEW s \in Seq(S), NEW t \in Seq(S), IsPrefix(s, t)
  PROVE  Len(s) <= Len(t) /\ \A i \in 1..Len(s) : s[i] = t[i]
<1>. DEFINE n == Len(s)
            u == SubSeq(s, 1, n)
            v == SubSeq(t, 1, n)
<1>1. Len(s) <= Len(t) /\ u = v
  BY DEF IsPrefix
<1>2. n \in 0..Len(s) /\ n \in 0..Len(t)
  BY <1>1, LenProperties
<1>3. \A i \in 1..n : u[i] = s[i]
  BY <1>2, Halves
<1>4. \A i \in 1..n : v[i] = t[i]
  BY <1>2, Halves
<1>. QED
  BY <1>1, <1>3, <1>4

LEMMA AnswersAre ==
  ASSUME size \in Sizes
  PROVE  /\ <<Page>> \in Seq(Piece) /\ File(size) \in Seq(Piece)
         /\ {<<Page>>, [i \in 1..(size + 1) |-> i - 1]} = {<<Page>>, File(size)}
<1>1. size \in 0..size
  BY Pieces
<1>. QED
  BY <1>1, FileSays, Pieces DEF File

LEMMA FileInAnswer ==
  ASSUME size \in Sizes, NEW k \in 0..size
  PROVE  InAnswer(File(k))
<1>1. /\ File(k) \in Seq(Piece) /\ Len(File(k)) = k + 1
      /\ \A i \in 1..(k + 1) : File(k)[i] = i - 1
  BY FileSays
<1>2. size \in Nat /\ size \in 0..size
  BY Pieces
<1>3. /\ File(size) \in Seq(Piece) /\ Len(File(size)) = size + 1
      /\ \A i \in 1..(size + 1) : File(size)[i] = i - 1
  BY <1>2, FileSays
<1>4. \A i \in 1..Len(File(k)) : File(k)[i] = File(size)[i]
  BY <1>1, <1>2, <1>3
<1>5. Len(File(k)) <= Len(File(size))
  BY <1>1, <1>2, <1>3
<1>6. IsPrefix(File(k), File(size))
  BY <1>1, <1>3, <1>4, <1>5, PrefixPoints
<1>. QED
  BY <1>6, AnswersAre DEF InAnswer

LEMMA PageInAnswer ==
  ASSUME size \in Sizes
  PROVE  InAnswer(<<Page>>) /\ InAnswer(<<>>)
<1>1. <<Page>> \in Seq(Piece) /\ <<>> \in Seq(Piece) /\ Len(<<>>) = 0 /\ Len(<<Page>>) = 1
  BY AnswersAre, EmptySeq
<1>2. IsPrefix(<<Page>>, <<Page>>)
  BY DEF IsPrefix
<1>3. IsPrefix(<<>>, <<Page>>)
  <2>1. Len(<<>>) <= Len(<<Page>>) /\ \A i \in 1..Len(<<>>) : <<>>[i] = <<Page>>[i]
    BY <1>1
  <2>. QED
    BY <1>1, <2>1, PrefixPoints
<1>. QED
  BY <1>2, <1>3 DEF InAnswer

\* What is lost at the end makes it no worse.
LEMMA PartInAnswer ==
  ASSUME size \in Sizes, NEW s \in Seq(Piece), NEW u \in Seq(Piece), InAnswer(s \o u)
  PROVE  InAnswer(s)
<1>1. PICK answer \in {<<Page>>, File(size)} : IsPrefix(s \o u, answer)
  BY AnswersAre DEF InAnswer
<1>2. answer \in Seq(Piece)
  BY AnswersAre
<1>3. /\ s \o u \in Seq(Piece) /\ Len(s \o u) = Len(s) + Len(u) /\ Len(s) \in Nat /\ Len(u) \in Nat
      /\ \A i \in 1..(Len(s) + Len(u)) : (s \o u)[i] = IF i <= Len(s) THEN s[i] ELSE u[i - Len(s)]
  BY ConcatProperties, LenProperties
<1>4. Len(s \o u) <= Len(answer) /\ \A i \in 1..Len(s \o u) : (s \o u)[i] = answer[i]
  BY <1>1, <1>2, <1>3, PointsPrefix
<1>5. Len(answer) \in Nat
  BY <1>2, LenProperties
<1>6. Len(s) <= Len(answer)
  BY <1>3, <1>4, <1>5
<1>7. \A i \in 1..Len(s) : s[i] = answer[i]
  <2>1. \A i \in 1..Len(s) : i \in 1..(Len(s) + Len(u)) /\ i <= Len(s)
    BY <1>3
  <2>. QED
    BY <1>3, <1>4, <2>1
<1>8. IsPrefix(s, answer)
  BY <1>2, <1>6, <1>7, PrefixPoints
<1>. QED
  BY <1>8, AnswersAre DEF InAnswer

Complete(q) == q.got_headers /\ q.got_body

\* Of what the client got and will get: a part of an answer; nothing as long as the
\* response waits; and the file as far as it was read while it is being sent.
Answered(t, r) ==
  ~ r.refused => /\ r.waiting # Nothing => r.sending = NotSending /\ t = <<>>
                 /\ InAnswer(t)

Going(t, r) == ~ r.refused /\ r.sending # NotSending => t = File(r.sending)

\* A client that sends nothing after its request is answered once: until the request is
\* complete there is no answer, and then there is nothing left to read (AllRead).
AnswerInv ==
  ask.extra = 0 =>
    /\ ~ Complete(req) => /\ resp.waiting = Nothing /\ resp.sending = NotSending
                          /\ received = <<>> /\ resp.pend = <<>>
    /\ Answered(received \o resp.pend, resp)
    /\ conn = "open" => Going(received \o resp.pend, resp)

LEMMA NoPieces == <<>> \in Seq(Piece) /\ Len(<<>>) = 0 /\ <<>> \o <<>> = <<>>
BY EmptySeq, ConcatEmptySeq

LEMMA AnswerInit ==
  ASSUME Init
  PROVE  RespInv /\ AnswerInv
<1>1. /\ size \in Sizes /\ quota \in Quotas /\ full = FALSE /\ conn = "open"
      /\ req = NoRequest /\ resp = NoResponse /\ received = <<>>
  BY DEF Init
<1>2. size \in Nat
  BY <1>1, Pieces
<1>3. /\ resp.waiting = Nothing /\ resp.sending = NotSending /\ resp.pend = <<>>
      /\ ~ resp.refused /\ resp.armed = {} /\ resp.timer_id = 0
  BY <1>1 DEF NoResponse
<1>4. RespOK(resp)
  BY <1>1, NoPieces, NothingSays DEF NoResponse, RespOK
<1>5. RespInv
  BY <1>1, <1>3, <1>4, NoPieces DEF RespInv, ConnType
<1>6. ~ Complete(req)
  BY <1>1 DEF Complete, NoRequest
<1>7. received \o resp.pend = <<>>
  BY <1>1, <1>3, NoPieces
<1>8. Answered(received \o resp.pend, resp) /\ Going(received \o resp.pend, resp)
  BY <1>1, <1>3, <1>7, PageInAnswer DEF Answered, Going
<1>. QED
  BY <1>1, <1>3, <1>5, <1>6, <1>8 DEF AnswerInv

\* Answered and Going speak of the file's size, which does not change.
LEMMA AnswerPrimes ==
  ASSUME Answered(received' \o resp'.pend, resp'), size' = size
  PROVE  Answered(received \o resp.pend, resp)'
BY DEF Answered, InAnswer

\* With nothing after the request, a complete one has been read to its end.
LEMMA AllRead ==
  ASSUME ReadType, ReadInv, ask.extra = 0, Complete(req)
  PROVE  wire = <<>>
<1>. DEFINE w == Wire(ask)
<1>1. ask.length \in Nat /\ Sends(w, ask) /\ wire \in Seq(Byte) /\ req \in Request
  BY AskSends DEF ReadType
<1>2. Len(w) = 4 + ask.length /\ Len(wire) \in Nat /\ Len(req.raw_body) \in Nat
  <2>1. Len(w) = 4 + ask.length + ask.extra
    BY <1>1 DEF Sends
  <2>. QED
    BY <1>1, <2>1, LenProperties, RequestFields
<1>3. Fed(req, w, ask.length, Len(w) - Len(wire))
  BY DEF ReadInv
<1>. HIDE DEF w
<1>4. Len(req.raw_body) <= (Len(w) - Len(wire)) - 4 /\ Len(req.raw_body) >= ask.length
  BY <1>3 DEF Fed, Complete
<1>5. Len(wire) = 0
  BY <1>1, <1>2, <1>4
<1>. QED
  BY <1>1, <1>5, EmptySeq

\* What a step did to an answer, when the client may not have another one.
LEMMA AnswerStep ==
  ASSUME size' = size, ask'.extra = 0 => /\ Complete(req')
                                         /\ Answered(received' \o resp'.pend, resp')
                                         /\ conn' = "open" => Going(received' \o resp'.pend, resp')
  PROVE  AnswerInv'
BY AnswerPrimes DEF AnswerInv, Going, Complete

LEMMA ReadAnswers ==
  ASSUME ReadType, ReadInv, RespInv, AnswerInv, Read
  PROVE  AnswerInv'
<1>. SUFFICES ASSUME ask'.extra = 0 PROVE AnswerInv'
  BY DEF AnswerInv
<1>1. /\ ask' = ask /\ size' = size /\ conn' = conn /\ received' = received /\ conn = "open"
  BY DEF Read
<1>2. RespOK(resp) /\ size \in Sizes /\ size \in Nat /\ 0 \in 0..size /\ ask.extra = 0
  BY <1>1, Pieces DEF RespInv, ConnType
<1>3. ~ Complete(req)
  <2>1. wire # <<>>
    <3>1. PICK n \in 1..Len(wire) : TRUE
      BY DEF Read
    <3>. QED
      BY <3>1, EmptySeq
  <2>. QED
    BY <1>2, <2>1, AllRead
<1>4. /\ resp.waiting = Nothing /\ resp.sending = NotSending
      /\ received = <<>> /\ resp.pend = <<>>
  BY <1>2, <1>3 DEF AnswerInv
<1>5. ~ Pending(resp)
  BY <1>4, PendingSays
<1>6. \/ /\ Complete(req')
         /\ \E what \in {"page", "file", "wait"} :
              LET r == Handle(resp, what) IN resp' = IF Pending(r) THEN r ELSE SendResponse(r)
      \/ ~ Complete(req') /\ resp' = resp
  BY DEF Read, Complete
<1>7. CASE ~ Complete(req') /\ resp' = resp
  <2>1. Answered(received' \o resp'.pend, resp') /\ Going(received' \o resp'.pend, resp')
    BY <1>1, <1>2, <1>4, <1>7, NoPieces, PageInAnswer DEF Answered, Going
  <2>2. /\ resp'.waiting = Nothing /\ resp'.sending = NotSending
        /\ received' = <<>> /\ resp'.pend = <<>>
    BY <1>1, <1>4, <1>7
  <2>3. Answered(received \o resp.pend, resp)' /\ Going(received \o resp.pend, resp)'
    BY <1>1, <2>1, AnswerPrimes DEF Going
  <2>. QED
    BY <1>7, <2>2, <2>3 DEF AnswerInv, Complete
<1>8. CASE /\ Complete(req')
           /\ \E what \in {"page", "file", "wait"} :
                LET r == Handle(resp, what) IN resp' = IF Pending(r) THEN r ELSE SendResponse(r)
  <2>1. PICK what \in {"page", "file", "wait"} :
          resp' = IF Pending(Handle(resp, what)) THEN Handle(resp, what)
                  ELSE SendResponse(Handle(resp, what))
    BY <1>8
  <2>2. CASE what = "page"
    <3>1. resp' = SendResponse(resp)
      BY <1>5, <2>1, <2>2, HandleCases
    <3>2. Puts(resp, <<Page>>, resp')
      BY <1>2, <3>1, SendResponsePuts
    <3>3. /\ resp'.waiting = Nothing /\ resp'.sending = NotSending
          /\ ~ resp'.refused => resp'.pend = <<>> \o <<Page>>
      BY <1>4, <3>2 DEF Puts
    <3>4. ~ resp'.refused => received' \o resp'.pend = <<Page>>
      BY <1>1, <1>2, <1>4, <3>3, AnswersAre, ConcatEmptySeq
    <3>5. Answered(received' \o resp'.pend, resp') /\ Going(received' \o resp'.pend, resp')
      BY <1>2, <3>3, <3>4, PageInAnswer DEF Answered, Going
    <3>. QED
      BY <1>1, <1>8, <3>5, AnswerStep
  <2>3. CASE what = "file"
    <3>1. PutsAt(resp, 0, <<FileHead>>, SendFile(resp)) /\ Handle(resp, what) = SendFile(resp)
      BY <1>2, <1>4, <2>3, SendFilePuts, HandleCases
    <3>2. 0 # NotSending
      BY DEF NotSending
    <3>3. Pending(SendFile(resp))
      <4>1. SendFile(resp).sending = 0
        BY <3>1 DEF PutsAt
      <4>. QED
        BY <3>2, <4>1, PendingSays
    <3>4. PutsAt(resp, 0, <<FileHead>>, resp')
      BY <2>1, <3>1, <3>3
    <3>5. /\ resp'.waiting = Nothing /\ resp'.sending = 0
          /\ ~ resp'.refused => resp'.pend = <<>> \o <<FileHead>>
      BY <1>4, <3>4 DEF PutsAt
    <3>6. <<FileHead>> = File(0) /\ File(0) \in Seq(Piece)
      BY <1>2, FirstPiece
    <3>7. ~ resp'.refused => received' \o resp'.pend = File(0)
      BY <1>1, <1>4, <3>5, <3>6, ConcatEmptySeq
    <3>8. InAnswer(File(0))
      BY <1>2, FileInAnswer
    <3>9. Answered(received' \o resp'.pend, resp') /\ Going(received' \o resp'.pend, resp')
      BY <3>5, <3>7, <3>8 DEF Answered, Going
    <3>. QED
      BY <1>1, <1>8, <3>9, AnswerStep
  <2>4. CASE what = "wait"
    <3>1. Waits(resp, Timeout, WaitFor(resp)) /\ Handle(resp, what) = WaitFor(resp)
      BY <1>2, <1>5, <2>4, WaitForWaits, HandleCases
    <3>2. Pending(WaitFor(resp))
      BY <3>1, PendingSays DEF Waits
    <3>3. Waits(resp, Timeout, resp')
      BY <2>1, <3>1, <3>2
    <3>4. resp'.sending = NotSending /\ resp'.pend = <<>>
      BY <1>4, <3>3 DEF Waits
    <3>5. received' \o resp'.pend = <<>>
      BY <1>1, <1>4, <3>4, NoPieces
    <3>6. Answered(received' \o resp'.pend, resp') /\ Going(received' \o resp'.pend, resp')
      BY <1>2, <3>4, <3>5, PageInAnswer DEF Answered, Going
    <3>. QED
      BY <1>1, <1>8, <3>6, AnswerStep
  <2>. QED
    BY <2>2, <2>3, <2>4
<1>. QED
  BY <1>6, <1>7, <1>8

LEMMA EmptyJoin ==
  ASSUME NEW s \in Seq(Piece), NEW u \in Seq(Piece), s \o u = <<>>
  PROVE  s = <<>> /\ u = <<>>
<1>1. Len(s \o u) = Len(s) + Len(u) /\ Len(s) \in Nat /\ Len(u) \in Nat /\ Len(s \o u) = 0
  BY ConcatProperties, LenProperties, EmptySeq
<1>2. Len(s) = 0 /\ Len(u) = 0
  BY <1>1
<1>. QED
  BY <1>2, EmptySeq

\* The file goes on after what was got of it.
LEMMA OperationAnswers ==
  ASSUME NEW r, RespOK(r), size \in Sizes, r.waiting = Nothing, r.sending # NotSending,
         NEW got \in Seq(Piece), ~ r.refused => got \o r.pend = File(r.sending)
  PROVE  LET v == HandlePendingOperation(r)
         IN  Answered(got \o v.pend, v) /\ Going(got \o v.pend, v)
<1>. DEFINE v == HandlePendingOperation(r)
            k == r.sending
<1>1. PICK n \in 0..(size - k) :
           /\ k \in 0..size
           /\ \/ PutsAt(r, k + n, ChunkOf(k, n), v)
              \/ k + n = size /\ PutsAt(r, NotSending, ChunkOf(k, n), v)
  BY OperationPuts
<1>2. size \in Nat /\ k \in Nat /\ n \in Nat /\ k + n \in 0..size
  BY <1>1, Pieces
<1>. HIDE DEF v
<1>3. /\ v.waiting = Nothing /\ (v.sending = k + n \/ v.sending = NotSending)
      /\ ~ v.refused => ~ r.refused /\ v.pend = r.pend \o ChunkOf(k, n)
  BY <1>1 DEF PutsAt
<1>4. ~ v.refused => got \o v.pend = File(k + n)
  <2>. SUFFICES ASSUME ~ v.refused PROVE got \o v.pend = File(k + n)
    OBVIOUS
  <2>1. got \o r.pend = File(k) /\ v.pend = r.pend \o ChunkOf(k, n)
    BY <1>3
  <2>2. ChunkOf(k, n) \in Seq(Piece) /\ r.pend \in Seq(Piece)
    BY <1>1, ChunkSays, RespFields
  <2>3. (got \o r.pend) \o ChunkOf(k, n) = got \o (r.pend \o ChunkOf(k, n))
    <3>1. \A x, y, z \in Seq(Piece) : (x \o y) \o z = x \o (y \o z)
      BY ConcatAssociative, SMTT(30)
    <3>. QED
      BY <2>2, <3>1
  <2>4. File(k) \o ChunkOf(k, n) = File(k + n)
    BY <1>1, FileGoesOn
  <2>. QED
    BY <2>1, <2>3, <2>4
<1>5. InAnswer(File(k + n))
  BY <1>2, FileInAnswer
<1>6. Answered(got \o v.pend, v) /\ Going(got \o v.pend, v)
  BY <1>3, <1>4, <1>5 DEF Answered, Going
<1>. QED
  BY <1>6 DEF v

LEMMA TimerAnswers ==
  ASSUME RespInv, AnswerInv, TimerCall
  PROVE  AnswerInv'
<1>. SUFFICES ASSUME ask'.extra = 0 PROVE AnswerInv'
  BY DEF AnswerInv
<1>1. /\ ask' = ask /\ size' = size /\ conn' = conn /\ received' = received /\ req' = req
      /\ resp.waiting # Nothing /\ ask.extra = 0
  BY DEF TimerCall
<1>2. RespOK(resp) /\ size \in Sizes /\ size \in Nat /\ 0 \in 0..size /\ received \in Seq(Piece)
      /\ resp.pend \in Seq(Piece)
  BY Pieces, RespFields DEF RespInv, ConnType
<1>3. Complete(req')
  BY <1>1 DEF AnswerInv
<1>4. ~ resp.refused => resp.sending = NotSending /\ received = <<>> /\ resp.pend = <<>>
  <2>1. ~ resp.refused => resp.sending = NotSending /\ received \o resp.pend = <<>>
    BY <1>1 DEF AnswerInv, Answered
  <2>. QED
    BY <1>2, <2>1, EmptyJoin
<1>. DEFINE d == Called(resp)
<1>5. /\ RespOK(d) /\ d.armed = {} /\ d.sending = resp.sending /\ d.pend = resp.pend
      /\ (d.refused <=> resp.refused)
  BY <1>2, CalledOK
<1>6. CASE \E left \in 0..Timeout : Waits(Called(resp), left, resp')
  <2>1. /\ resp'.sending = resp.sending /\ resp'.pend = resp.pend
        /\ (resp'.refused <=> resp.refused)
    BY <1>5, <1>6 DEF Waits
  <2>2. ~ resp'.refused => resp'.sending = NotSending /\ received' \o resp'.pend = <<>>
    BY <1>1, <1>4, <2>1, NoPieces
  <2>3. Answered(received' \o resp'.pend, resp') /\ Going(received' \o resp'.pend, resp')
    BY <1>2, <2>2, PageInAnswer DEF Answered, Going
  <2>. QED
    BY <1>1, <1>3, <2>3, AnswerStep
<1>7. CASE \E what \in {"page", "file"} :
             LET r == Freed(Handle(Called(resp), what))
             IN  resp' = IF Pending(r) THEN HandlePendingOperation(r) ELSE SendResponse(r)
  <2>1. PICK what \in {"page", "file"} :
          LET r == Freed(Handle(d, what))
          IN  resp' = IF Pending(r) THEN HandlePendingOperation(r) ELSE SendResponse(r)
    BY <1>7
  <2>. DEFINE h == Handle(d, what)
              r == Freed(h)
  <2>2. resp' = IF Pending(r) THEN HandlePendingOperation(r) ELSE SendResponse(r)
    BY <2>1
  <2>. HIDE DEF d
  <2>3. /\ RespOK(h) /\ h.armed = {}
        /\ ~ h.refused => ~ resp.refused
        /\ \/ h.sending = resp.sending /\ h.pend = resp.pend
           \/ /\ h.sending = 0 /\ (~ h.refused => h.pend = resp.pend \o <<FileHead>>)
    <3>1. CASE what = "page"
      BY <1>5, <3>1, HandleCases
    <3>2. CASE what = "file"
      <4>1. h = SendFile(d)
        BY <3>2, HandleCases
      <4>2. CASE d.sending = NotSending
        <5>1. PutsAt(d, 0, <<FileHead>>, h)
          BY <1>2, <1>5, <4>1, <4>2, SendFilePuts
        <5>. HIDE DEF h
        <5>. QED
          BY <1>5, <5>1 DEF PutsAt
      <4>3. CASE d.sending # NotSending
        BY <1>2, <1>5, <4>1, <4>3, SendFilePuts
      <4>. QED
        BY <4>2, <4>3
    <3>. QED
      BY <3>1, <3>2
  <2>. HIDE DEF h
  <2>4. /\ RespOK(r) /\ r.waiting = Nothing /\ r.sending = h.sending /\ r.pend = h.pend
        /\ (r.refused <=> h.refused)
    BY <2>3, FreedOK
  <2>. HIDE DEF r
  <2>5. ~ r.refused => \/ r.sending = NotSending /\ r.pend = <<>>
                       \/ r.sending = 0 /\ r.pend = <<FileHead>>
    BY <1>4, <2>3, <2>4, ConcatEmptySeq, AnswersAre
  <2>6. CASE r.sending = NotSending
    <3>1. resp' = SendResponse(r)
      BY <2>2, <2>4, <2>6, PendingSays
    <3>2. Puts(r, <<Page>>, resp')
      BY <1>2, <2>4, <3>1, SendResponsePuts
    <3>3. /\ resp'.waiting = Nothing /\ resp'.sending = NotSending
          /\ ~ resp'.refused => ~ r.refused /\ resp'.pend = r.pend \o <<Page>>
      BY <2>4, <2>6, <3>2 DEF Puts
    <3>4. ~ resp'.refused => received' = <<>> /\ r.pend = <<>>
      BY <1>1, <1>4, <2>3, <2>4, <2>5, <2>6, <3>3 DEF NotSending
    <3>5. ~ resp'.refused => received' \o resp'.pend = <<Page>>
      BY <1>2, <3>3, <3>4, AnswersAre, ConcatEmptySeq
    <3>6. Answered(received' \o resp'.pend, resp') /\ Going(received' \o resp'.pend, resp')
      BY <1>2, <3>3, <3>5, PageInAnswer DEF Answered, Going
    <3>. QED
      BY <1>1, <1>3, <3>6, AnswerStep
  <2>7. CASE r.sending # NotSending
    <3>1. resp' = HandlePendingOperation(r)
      BY <2>2, <2>7, PendingSays
    <3>2. ~ r.refused => received \o r.pend = File(r.sending)
      <4>1. ~ r.refused => r.sending = 0 /\ r.pend = <<FileHead>> /\ received = <<>>
        BY <1>4, <2>3, <2>4, <2>5, <2>7
      <4>. QED
        BY <1>2, <4>1, FirstPiece, ConcatEmptySeq
    <3>3. LET v == HandlePendingOperation(r)
          IN  Answered(received \o v.pend, v) /\ Going(received \o v.pend, v)
      BY <1>2, <2>4, <2>7, <3>2, OperationAnswers
    <3>4. Answered(received' \o resp'.pend, resp') /\ Going(received' \o resp'.pend, resp')
      BY <1>1, <3>1, <3>3
    <3>. QED
      BY <1>1, <1>3, <3>4, AnswerStep
  <2>. QED
    BY <2>6, <2>7
<1>. QED
  BY <1>6, <1>7, TimerSays

LEMMA WriteAnswers ==
  ASSUME RespInv, AnswerInv, Write
  PROVE  AnswerInv'
<1>. SUFFICES ASSUME ask'.extra = 0 PROVE AnswerInv'
  BY DEF AnswerInv
<1>1. /\ ask' = ask /\ size' = size /\ req' = req /\ conn = "open" /\ ask.extra = 0
  BY DEF Write
<1>2. RespOK(resp) /\ size \in Sizes /\ received \in Seq(Piece)
      /\ resp.pend \in Seq(Piece) /\ Len(resp.pend) \in Nat
  BY RespFields DEF RespInv, ConnType
<1>3. PICK n \in 1..Len(resp.pend) :
           LET rest == SubSeq(resp.pend, n + 1, Len(resp.pend))
               r    == [resp EXCEPT !.pend = rest]
           IN  /\ received' = received \o SubSeq(resp.pend, 1, n)
               /\ \/ rest # <<>> /\ resp' = r /\ conn' = conn
                  \/ rest = <<>> /\ Pending(r) /\ resp' = HandlePendingOperation(r) /\ conn' = conn
                  \/ rest = <<>> /\ ~ Pending(r) /\ Delete(r)
  BY WriteSays
<1>. DEFINE front == SubSeq(resp.pend, 1, n)
            rest == SubSeq(resp.pend, n + 1, Len(resp.pend))
            r == [resp EXCEPT !.pend = rest]
            t == received \o resp.pend
<1>4. front \in Seq(Piece) /\ rest \in Seq(Piece) /\ front \o rest = resp.pend
  <2>1. n \in 0..Len(resp.pend)
    BY <1>2
  <2>. QED
    BY <1>2, <2>1, Halves
<1>5. resp.pend # <<>>
  BY <1>2, EmptySeq
<1>6. Complete(req')
  BY <1>1, <1>5 DEF AnswerInv
<1>7. /\ received' = received \o front
      /\ \/ resp' = r /\ conn' = conn
         \/ Pending(r) /\ resp' = HandlePendingOperation(r) /\ conn' = conn
         \/ Delete(r)
  BY <1>3
<1>. HIDE DEF front, rest
<1>8. /\ RespOK(r) /\ r.waiting = resp.waiting /\ r.sending = resp.sending /\ r.pend = rest
      /\ (r.refused <=> resp.refused)
  BY <1>2, <1>4, DropOK
<1>. HIDE DEF r
<1>9. received' \in Seq(Piece) /\ received' \o rest = t
  <2>1. received \o front \in Seq(Piece)
    BY <1>2, <1>4, ConcatProperties
  <2>2. (received \o front) \o rest = received \o (front \o rest)
    <3>1. \A x, y, z \in Seq(Piece) : (x \o y) \o z = x \o (y \o z)
      BY ConcatAssociative, SMTT(30)
    <3>. QED
      BY <1>2, <1>4, <3>1
  <2>. QED
    BY <1>4, <1>7, <2>1, <2>2
<1>10. /\ Answered(t, resp) /\ Going(t, resp) /\ t # <<>>
  <2>1. t # <<>>
    BY <1>2, <1>5, EmptyJoin
  <2>. QED
    BY <1>1, <2>1 DEF AnswerInv
<1>. HIDE DEF t
<1>11. ~ resp.refused => resp.waiting = Nothing
  BY <1>10 DEF Answered
<1>12. CASE resp' = r /\ conn' = conn
  <2>1. Answered(received' \o resp'.pend, resp') /\ Going(received' \o resp'.pend, resp')
    BY <1>8, <1>9, <1>10, <1>12 DEF Answered, Going
  <2>. QED
    BY <1>1, <1>6, <2>1, AnswerStep
<1>13. CASE Pending(r) /\ resp' = HandlePendingOperation(r) /\ conn' = conn
  <2>1. CASE r.waiting = Nothing
    <3>1. r.sending # NotSending
      BY <1>13, <2>1, PendingSays
    <3>2. ~ r.refused => received' \o r.pend = File(r.sending)
      BY <1>8, <1>9, <1>10, <3>1 DEF Going
    <3>3. LET v == HandlePendingOperation(r)
          IN  Answered(received' \o v.pend, v) /\ Going(received' \o v.pend, v)
      BY <1>2, <1>8, <1>9, <2>1, <3>1, <3>2, OperationAnswers
    <3>4. Answered(received' \o resp'.pend, resp') /\ Going(received' \o resp'.pend, resp')
      BY <1>13, <3>3
    <3>. QED
      BY <1>1, <1>6, <3>4, AnswerStep
  <2>2. CASE r.waiting # Nothing
    <3>1. resp' = r /\ r.refused
      BY <1>8, <1>11, <1>13, <2>2 DEF HandlePendingOperation
    <3>2. Answered(received' \o resp'.pend, resp') /\ Going(received' \o resp'.pend, resp')
      BY <3>1 DEF Answered, Going
    <3>. QED
      BY <1>1, <1>6, <3>2, AnswerStep
  <2>. QED
    BY <2>1, <2>2
<1>14. CASE Delete(r)
  <2>1. /\ conn' = "deleted" /\ resp'.waiting = Nothing /\ resp'.pend = <<>>
        /\ (resp'.refused <=> r.refused)
    BY <1>8, <1>14, DeleteOK
  <2>2. ~ resp'.refused => InAnswer(received')
    <3>1. ~ resp'.refused => InAnswer(received' \o rest)
      BY <1>8, <1>9, <1>10, <2>1 DEF Answered
    <3>. QED
      BY <1>2, <1>4, <1>9, <3>1, PartInAnswer
  <2>3. received' \o resp'.pend = received'
    BY <1>9, <2>1, ConcatEmptySeq
  <2>4. Answered(received' \o resp'.pend, resp')
    BY <2>1, <2>2, <2>3 DEF Answered
  <2>5. conn' # "open"
    BY <2>1
  <2>. QED
    BY <1>1, <1>6, <2>4, <2>5, AnswerStep
<1>. QED
  BY <1>7, <1>12, <1>13, <1>14

\* The output is dropped, with or without the response.
LEMMA DropAnswers ==
  ASSUME RespInv, AnswerInv, ask' = ask, size' = size, req' = req, received' = received,
         conn' # "open", resp'.pend = <<>>, (resp'.refused <=> resp.refused),
         \/ resp'.waiting = Nothing /\ resp'.sending = NotSending
         \/ resp'.waiting = resp.waiting /\ resp'.sending = resp.sending
  PROVE  AnswerInv'
<1>. SUFFICES ASSUME ask'.extra = 0 PROVE AnswerInv'
  BY DEF AnswerInv
<1>1. size \in Sizes /\ received \in Seq(Piece) /\ resp.pend \in Seq(Piece) /\ ask.extra = 0
  BY RespFields DEF RespInv, ConnType
<1>2. Answered(received \o resp.pend, resp)
  BY <1>1 DEF AnswerInv
<1>3. received' \o resp'.pend = received
  BY <1>1, ConcatEmptySeq
<1>4. ~ resp'.refused => InAnswer(received' \o resp'.pend)
  <2>1. ~ resp'.refused => InAnswer(received \o resp.pend)
    BY <1>2 DEF Answered
  <2>. QED
    BY <1>1, <1>3, <2>1, PartInAnswer
<1>5. ~ resp'.refused /\ resp'.waiting # Nothing
        => resp'.sending = NotSending /\ received' \o resp'.pend = <<>>
  <2>1. ~ resp'.refused /\ resp'.waiting # Nothing
          => resp'.sending = NotSending /\ received \o resp.pend = <<>>
    BY <1>2 DEF Answered
  <2>. QED
    BY <1>1, <1>3, <2>1, EmptyJoin
<1>6. Answered(received' \o resp'.pend, resp')
  BY <1>4, <1>5 DEF Answered
<1>7. Answered(received \o resp.pend, resp)'
  BY <1>6, AnswerPrimes
<1>8. ~ Complete(req)' => /\ resp'.waiting = Nothing /\ resp'.sending = NotSending
                          /\ received' = <<>> /\ resp'.pend = <<>>
  <2>1. ~ Complete(req)' => ~ Complete(req)
    BY DEF Complete
  <2>. QED
    BY <1>1, <2>1 DEF AnswerInv
<1>. QED
  BY <1>7, <1>8 DEF AnswerInv

LEMMA AnswerNext ==
  ASSUME ReadType, ReadInv, RespInv, AnswerInv, [Next]_vars
  PROVE  AnswerInv'
<1>1. CASE Read
  BY <1>1, ReadAnswers
<1>2. CASE TimerCall
  BY <1>2, TimerAnswers
<1>3. CASE Write
  BY <1>3, WriteAnswers
<1>4. CASE PeerDown
  <2>1. /\ ask' = ask /\ size' = size /\ req' = req /\ received' = received
        /\ RespOK(resp) /\ Delete(resp)
    BY <1>4 DEF PeerDown, RespInv
  <2>2. /\ conn' = "deleted" /\ resp'.waiting = Nothing
        /\ resp'.sending = NotSending /\ resp'.pend = <<>> /\ (resp'.refused <=> resp.refused)
    BY <2>1, DeleteOK
  <2>3. conn' # "open"
    BY <2>2
  <2>. QED
    BY <2>1, <2>2, <2>3, DropAnswers
<1>5. CASE AsyncError
  <2>1. /\ ask' = ask /\ size' = size /\ req' = req /\ received' = received
        /\ RespOK(resp) /\ resp' = [resp EXCEPT !.pend = <<>>] /\ conn' # "open"
        /\ <<>> \in Seq(Piece)
    BY <1>5, NoPieces DEF AsyncError, RespInv
  <2>2. /\ resp'.waiting = resp.waiting /\ resp'.sending = resp.sending /\ resp'.pend = <<>>
        /\ (resp'.refused <=> resp.refused)
    BY <2>1, DropOK
  <2>. QED
    BY <2>1, <2>2, DropAnswers
<1>6. CASE Others \/ UNCHANGED vars
  <2>1. /\ ask' = ask /\ size' = size /\ req' = req /\ received' = received /\ resp' = resp
        /\ conn' = conn
    BY <1>6 DEF Others, vars
  <2>. QED
    BY <2>1 DEF AnswerInv, Answered, InAnswer, Going, Complete
<1>. QED
  BY <1>1, <1>2, <1>3, <1>4, <1>5, <1>6 DEF Next

(***************************************************************************)
(* The theorems.                                                           *)
(***************************************************************************)
LEMMA TypeParts ==
  ASSUME ReadType, RespInv
  PROVE  TypeOK
<1>1. resp \in Response
  <2>1. resp.armed \in SUBSET (1..resp.timer_id)
    BY DEF RespInv, RespOK
  <2>. QED
    BY <2>1 DEF RespInv, RespOK, Response
<1>. QED
  BY <1>1 DEF ReadType, RespInv, ConnType, TypeOK

LEMMA WholeFollows ==
  ASSUME ReadType, ReadInv, RespInv
  PROVE  HandledWhole
<1>. SUFFICES ASSUME req.got_headers, req.got_body
              PROVE  /\ req.raw_headers = Header
                     /\ IsPrefix(Text("b", ask.length), req.raw_body)
                     /\ req.parsed \/ req.late
  BY TypeParts DEF HandledWhole
<1>. DEFINE w == Wire(ask)
            b == req.raw_body
<1>1. ask.length \in Nat /\ ask.extra \in Nat /\ Sends(w, ask) /\ b \in Seq(Byte)
  BY AskSends, RequestFields DEF ReadType
<1>2. Fed(req, w, ask.length, Len(w) - Len(wire))
  BY DEF ReadInv
<1>3. \A i \in 5..(4 + ask.length) : w[i] = "b"
  BY <1>1 DEF Sends
<1>. HIDE DEF w
<1>4. /\ req.raw_headers = Header /\ Part(b, w, 4) /\ Len(b) >= ask.length
      /\ req.parsed \/ req.late
  BY <1>2 DEF Fed
<1>. HIDE DEF b
<1>5. /\ Text("b", ask.length) \in Seq(Byte) /\ Len(Text("b", ask.length)) = ask.length
      /\ \A i \in 1..ask.length : Text("b", ask.length)[i] = "b"
  <2>1. "b" \in Byte
    BY DEF Byte
  <2>. QED
    BY <1>1, <2>1, TextSays
<1>6. Len(b) \in Nat
  BY <1>1, LenProperties DEF b
<1>7. ASSUME NEW i \in 1..ask.length PROVE b[i] = "b"
  <2>1. i \in 1..Len(b) /\ 4 + i \in 5..(4 + ask.length)
    BY <1>1, <1>4, <1>6
  <2>. QED
    BY <1>3, <1>4, <2>1 DEF Part
<1>8. IsPrefix(Text("b", ask.length), b)
  <2>1. /\ Len(Text("b", ask.length)) <= Len(b)
        /\ \A i \in 1..Len(Text("b", ask.length)) : Text("b", ask.length)[i] = b[i]
    BY <1>4, <1>5, <1>6, <1>7
  <2>. QED
    BY <1>1, <1>5, <2>1, PrefixPoints DEF b
<1>. QED
  BY <1>4, <1>8 DEF b

\* The handler gets the request as the client sent it, however the chunks are cut:
\* all of the header without the empty line, at least Content-Length bytes of the body
\* and those of the client, parsed unless the body ended in a later chunk
\* (HttpRequest::feed, HttpConnection::onRead).
THEOREM WholeCorrect == Spec => []HandledWhole
<1>1. Init => ReadType /\ ReadInv /\ RespInv
  BY ReadInit, AnswerInit
<1>2. ReadType /\ ReadInv /\ RespInv /\ [Next]_vars => (ReadType /\ ReadInv /\ RespInv)'
  BY ReadNext, RespNext
<1>3. ReadType /\ ReadInv /\ RespInv => HandledWhole
  BY WholeFollows
<1>. QED
  BY <1>1, <1>2, <1>3, PTL DEF Spec

\* A response that is gone left no timer armed: of all timers that it set, only the one
\* whose number it keeps is armed at any time, also when the timer sets itself again in
\* its own callback (HttpResponse::updateFileWaiting, ~HttpResponse).
THEOREM TimerCorrect == Spec => []NoStaleTimer
<1>1. Init => RespInv
  BY AnswerInit
<1>2. RespInv /\ [Next]_vars => RespInv'
  BY RespNext
<1>3. RespInv => NoStaleTimer
  BY NoWaitNoTimer DEF RespInv, NoStaleTimer
<1>. QED
  BY <1>1, <1>2, <1>3, PTL DEF Spec

\* A client that sends nothing after its request gets one page or one whole file and
\* nothing else, or a part of it when the connection ends early; for every size of the
\* file and of the chunks it is read in, however the handler answers: at once, in pieces
\* from onEmpty, or from a timer.
THEOREM ResponseCorrect == Spec => []OneResponse
<1>1. Init => ReadType /\ ReadInv /\ RespInv /\ AnswerInv
  BY ReadInit, AnswerInit
<1>2. ReadType /\ ReadInv /\ RespInv /\ AnswerInv /\ [Next]_vars
        => (ReadType /\ ReadInv /\ RespInv /\ AnswerInv)'
  BY ReadNext, RespNext, AnswerNext
<1>3. AnswerInv => OneResponse
  BY DEF AnswerInv, Answered, InAnswer, OneResponse
<1>. QED
  BY <1>1, <1>2, <1>3, PTL DEF Spec
=============================================================================
