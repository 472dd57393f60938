------------------------ MODULE ControlStreamProofs ------------------------
(***************************************************************************)
(* Theorems about ControlStream, for any number of connections and tags,   *)
(* any writer's buffer, quota and pool: what a stream says is a part of    *)
(* one document on every connection, and what it hears are whole stanzas.  *)
(***************************************************************************)
EXTENDS ControlStream, SequenceTheorems, WellFoundedInduction, TLAPS

(***************************************************************************)
(* Induction over the natural numbers, for sets.                           *)
(***************************************************************************)
LEMMA LessWellFounded == IsWellFoundedOn({ss \in Nat \X Nat : ss[1] < ss[2]}, Nat)
BY NatLessThanWellFounded DEF OpToRel

\* A set of numbers that is not empty has a least one.
LEMMA SmallestOf ==
  ASSUME NEW T, T \subseteq Nat, T # {}
  PROVE  \E x \in T : \A y \in T : x <= y
<1>. DEFINE R == {ss \in Nat \X Nat : ss[1] < ss[2]}
<1>1. PICK x \in T : \A y \in T : ~ (<<y, x>> \in R)
  BY LessWellFounded, WFMin
<1>2. ASSUME NEW y \in T PROVE x <= y
  <2>1. x \in Nat /\ y \in Nat
    OBVIOUS
  <2>2. ~ (<<y, x>> \in R)
    BY <1>1
  <2>3. ~ (y < x)
    BY <2>1, <2>2
  <2>. QED
    BY <2>1, <2>3
<1>. QED
  BY <1>2

\* A set that has 0, and with every number the next one, has them all.
LEMMA NatSetInduction ==
  ASSUME NEW T, 0 \in T, \A n \in Nat : n \in T => n + 1 \in T
  PROVE  Nat \subseteq T
<1>. SUFFICES ASSUME Nat \ T # {} PROVE FALSE
  OBVIOUS
<1>1. PICK x \in Nat \ T : \A y \in Nat \ T : x <= y
  BY SmallestOf
<1>2. x # 0 /\ x - 1 \in Nat
  OBVIOUS
<1>3. x - 1 \in T
  BY <1>1, <1>2
<1>. QED
  BY <1>2, <1>3

(***************************************************************************)
(* What the peer reads.                                                    *)
(***************************************************************************)
Said == {"start", "declared", "header", "body", "end", "bad"}

LEMMA GrammarSaid == \A at, piece : Grammar(at, piece) \in Said
BY DEF Grammar, Said

\* r is where the peer is after each of the first n pieces of s.
IsRun(r, at, s, n) ==
  /\ r \in [0..n -> Said]
  /\ r[0] = at
  /\ \A i \in 1..n : r[i] = Grammar(r[i - 1], s[i])

LEMMA RunExists ==
  ASSUME NEW at \in Said, NEW s, NEW n \in Nat
  PROVE  \E r : IsRun(r, at, s, n)
<1>. DEFINE T == {k \in Nat : \E r : IsRun(r, at, s, k)}
<1>1. 0 \in T
  <2>1. IsRun([i \in 0..0 |-> at], at, s, 0)
    BY DEF IsRun
  <2>. QED
    BY <2>1
<1>2. ASSUME NEW k \in Nat, k \in T PROVE k + 1 \in T
  <2>1. PICK r : IsRun(r, at, s, k)
    BY <1>2
  <2>. DEFINE q == [i \in 0..(k + 1) |-> IF i = k + 1 THEN Grammar(r[k], s[k + 1]) ELSE r[i]]
  <2>2. q \in [0..(k + 1) -> Said]
    <3>1. Grammar(r[k], s[k + 1]) \in Said
      BY GrammarSaid
    <3>2. \A i \in 0..(k + 1) : i # k + 1 => r[i] \in Said
      BY <2>1 DEF IsRun
    <3>. QED
      BY <3>1, <3>2
  <2>3. q[0] = at /\ \A i \in 0..k : q[i] = r[i]
    BY <2>1 DEF IsRun
  <2>4. q[k + 1] = Grammar(q[k], s[k + 1])
    BY <2>3
  <2>5. \A i \in 1..k : q[i] = Grammar(q[i - 1], s[i])
    BY <2>1, <2>3 DEF IsRun
  <2>. HIDE DEF q
  <2>6. IsRun(q, at, s, k + 1)
    <3>1. \A i \in 1..(k + 1) : i \in 1..k \/ i = k + 1
      OBVIOUS
    <3>2. \A i \in 1..(k + 1) : q[i] = Grammar(q[i - 1], s[i])
      BY <2>4, <2>5, <3>1
    <3>. QED
      BY <2>2, <2>3, <3>2 DEF IsRun
  <2>. QED
    BY <2>6
<1>. HIDE DEF T
<1>3. n \in T
  BY <1>1, <1>2, NatSetInduction
<1>. QED
  BY <1>3 DEF T

\* Read is where a run ends.
LEMMA ReadRun ==
  ASSUME NEW at \in Said, NEW S, NEW s \in Seq(S), NEW r, IsRun(r, at, s, Len(s))
  PROVE  Read(at, s) = r[Len(s)]
<1>. DEFINE n == Len(s)
            after[i \in 0..n] == IF i = 0 THEN at ELSE Grammar(after[i - 1], s[i])
            Next1(f) == [i \in 0..n |-> IF i = 0 THEN at ELSE Grammar(f[i - 1], s[i])]
<1>1. n \in Nat
  BY LenProperties
<1>2. r = Next1(r)
  BY <1>1 DEF IsRun
<1>3. after = Next1(after)
  <2>1. after = CHOOSE f : f = Next1(f)
    OBVIOUS
  <2>. HIDE DEF after, Next1
  <2>. QED
    BY <1>2, <2>1
<1>4. Read(at, s) = after[n]
  BY DEF Read
<1>. HIDE DEF after, n
<1>. DEFINE T == {k \in Nat : k <= n => after[k] = r[k]}
<1>5. 0 \in T
  BY <1>1, <1>2, <1>3
<1>6. ASSUME NEW k \in Nat, k \in T PROVE k + 1 \in T
  <2>. SUFFICES ASSUME k + 1 <= n PROVE after[k + 1] = r[k + 1]
    OBVIOUS
  <2>1. after[k + 1] = Grammar(after[k], s[k + 1]) /\ r[k + 1] = Grammar(r[k], s[k + 1])
    BY <1>1, <1>2, <1>3
  <2>2. after[k] = r[k]
    BY <1>1, <1>6
  <2>. QED
    BY <2>1, <2>2
<1>. HIDE DEF T
<1>7. n \in T
  BY <1>1, <1>5, <1>6, NatSetInduction
<1>8. after[n] = r[n]
  BY <1>1, <1>7 DEF T
<1>. QED
  BY <1>4, <1>8 DEF n

LEMMA ReadType ==
  ASSUME NEW at \in Said, NEW S, NEW s \in Seq(S)
  PROVE  Read(at, s) \in Said
<1>1. Len(s) \in Nat
  BY LenProperties
<1>2. PICK r : IsRun(r, at, s, Len(s))
  BY <1>1, RunExists
<1>3. Read(at, s) = r[Len(s)]
  BY <1>2, ReadRun
<1>. QED
  BY <1>1, <1>2, <1>3 DEF IsRun

LEMMA ReadEmpty ==
  ASSUME NEW at \in Said, NEW S, NEW s \in Seq(S), Len(s) = 0
  PROVE  Read(at, s) = at
<1>1. PICK r : IsRun(r, at, s, Len(s))
  BY RunExists
<1>2. Read(at, s) = r[Len(s)]
  BY <1>1, ReadRun
<1>. QED
  BY <1>1, <1>2 DEF IsRun

\* What is read piece by piece is read.
LEMMA ReadConcat ==
  ASSUME NEW at \in Said, NEW S, NEW s \in Seq(S), NEW t \in Seq(S)
  PROVE  Read(at, s \o t) = Read(Read(at, s), t)
<1>. DEFINE m == Len(s)
            n == Len(t)
            mid == Read(at, s)
<1>1. m \in Nat /\ n \in Nat
  BY LenProperties
<1>2. PICK q : IsRun(q, at, s, m)
  BY <1>1, RunExists
<1>3. mid = q[m] /\ mid \in Said
  BY <1>2, ReadRun, ReadType
<1>4. PICK r : IsRun(r, mid, t, n)
  BY <1>1, <1>3, RunExists
<1>5. Read(mid, t) = r[n]
  BY <1>3, <1>4, ReadRun
<1>. DEFINE c == [i \in 0..(m + n) |-> IF i <= m THEN q[i] ELSE r[i - m]]
<1>6. /\ s \o t \in Seq(S) /\ Len(s \o t) = m + n
      /\ \A i \in 1..(m + n) : (s \o t)[i] = IF i <= m THEN s[i] ELSE t[i - m]
  BY ConcatProperties
<1>. HIDE DEF mid
<1>7. IsRun(c, at, s \o t, m + n)
  <2>. HIDE DEF m, n
  <2>1. c \in [0..(m + n) -> Said]
    <3>1. \A i \in 0..(m + n) : i <= m => q[i] \in Said
      BY <1>1, <1>2 DEF IsRun
    <3>2. \A i \in 0..(m + n) : ~ (i <= m) => r[i - m] \in Said
      BY <1>1, <1>4 DEF IsRun
    <3>. QED
      BY <3>1, <3>2
  <2>2. c[0] = at
    BY <1>1, <1>2 DEF IsRun
  <2>3. ASSUME NEW i \in 1..(m + n)
        PROVE  c[i] = Grammar(c[i - 1], (s \o t)[i])
    <3>1. CASE i <= m
      <4>1. c[i] = q[i] /\ c[i - 1] = q[i - 1] /\ (s \o t)[i] = s[i]
        BY <1>1, <1>6, <3>1
      <4>2. q[i] = Grammar(q[i - 1], s[i])
        BY <1>1, <1>2, <3>1 DEF IsRun
      <4>. QED
        BY <4>1, <4>2
    <3>2. CASE i = m + 1
      <4>1. c[i] = r[1] /\ c[i - 1] = mid /\ (s \o t)[i] = t[1] /\ 1 \in 1..n
        <5>1. i - m = 1 /\ i - 1 = m /\ ~ (i <= m) /\ 1 \in 1..n
          BY <1>1, <3>2
        <5>2. c[i] = r[1] /\ (s \o t)[i] = t[1]
          BY <1>1, <1>6, <5>1
        <5>3. c[m] = q[m] /\ q[m] = mid
          BY <1>1, <1>3 DEF m
        <5>. QED
          BY <5>1, <5>2, <5>3
      <4>2. r[1] = Grammar(r[0], t[1]) /\ r[0] = mid
        BY <1>1, <1>4, <4>1 DEF IsRun
      <4>. QED
        BY <4>1, <4>2
    <3>3. CASE i > m + 1
      <4>1. /\ c[i] = r[i - m] /\ c[i - 1] = r[(i - m) - 1] /\ (s \o t)[i] = t[i - m]
            /\ i - m \in 1..n
        <5>1. /\ ~ (i <= m) /\ ~ (i - 1 <= m) /\ (i - 1) - m = (i - m) - 1
              /\ i - m \in 1..n /\ i - 1 \in 0..(m + n) /\ i \in 0..(m + n)
          BY <1>1, <3>3
        <5>2. c[i] = r[i - m] /\ c[i - 1] = r[(i - 1) - m]
          BY <5>1
        <5>3. (s \o t)[i] = t[i - m]
          BY <1>6, <5>1
        <5>. QED
          BY <5>1, <5>2, <5>3
      <4>2. r[i - m] = Grammar(r[(i - m) - 1], t[i - m])
        BY <1>4, <4>1 DEF IsRun
      <4>. QED
        BY <4>1, <4>2
    <3>4. i <= m \/ i = m + 1 \/ i > m + 1
      BY <1>1
    <3>. QED
      BY <3>1, <3>2, <3>3, <3>4, Zenon
  <2>. HIDE DEF c
  <2>. QED
    BY <2>1, <2>2, <2>3 DEF IsRun
<1>8. c[m + n] = r[n]
  <2>1. CASE n = 0
    BY <1>1, <1>3, <1>4, <2>1 DEF IsRun
  <2>2. CASE n # 0
    BY <1>1, <2>2
  <2>. QED
    BY <2>1, <2>2
<1>. HIDE DEF c
<1>9. Read(at, s \o t) = c[m + n]
  BY <1>6, <1>7, ReadRun
<1>. QED
  BY <1>5, <1>8, <1>9 DEF mid

LEMMA ReadAppend ==
  ASSUME NEW at \in Said, NEW S, NEW s \in Seq(S), NEW piece \in S
  PROVE  Read(at, Append(s, piece)) = Grammar(Read(at, s), piece)
<1>. DEFINE m == Len(s)
<1>1. PICK r : IsRun(r, at, Append(s, piece), m + 1)
  BY RunExists, LenProperties
<1>2. /\ Append(s, piece) \in Seq(S) /\ Len(Append(s, piece)) = m + 1 /\ m \in Nat
      /\ \A i \in 1..m : Append(s, piece)[i] = s[i]
      /\ Append(s, piece)[m + 1] = piece
  BY AppendProperties, LenProperties
<1>. HIDE DEF m
<1>3. Read(at, Append(s, piece)) = r[m + 1]
  BY <1>1, <1>2, ReadRun
<1>4. r[m + 1] = Grammar(r[m], piece)
  BY <1>1, <1>2 DEF IsRun
<1>. DEFINE q == [i \in 0..m |-> r[i]]
<1>5. IsRun(q, at, s, m)
  BY <1>1, <1>2 DEF IsRun
<1>. HIDE DEF q
<1>6. Read(at, s) = q[m]
  BY <1>5, ReadRun DEF m
<1>7. q[m] = r[m]
  BY <1>2 DEF q
<1>. QED
  BY <1>3, <1>4, <1>6, <1>7

\* Nothing makes good what is bad.
LEMMA ReadBad ==
  ASSUME NEW S, NEW s \in Seq(S)
  PROVE  Read("bad", s) = "bad"
<1>. DEFINE r == [i \in 0..Len(s) |-> "bad"]
<1>1. Len(s) \in Nat /\ "bad" \in Said
  BY LenProperties DEF Said
<1>2. \A piece : Grammar("bad", piece) = "bad"
  BY DEF Grammar
<1>3. IsRun(r, "bad", s, Len(s))
  BY <1>1, <1>2 DEF IsRun
<1>. HIDE DEF r
<1>4. Read("bad", s) = r[Len(s)]
  BY <1>1, <1>3, ReadRun
<1>. QED
  BY <1>1, <1>4 DEF r

\* Nothing comes after the end.
LEMMA ReadEnd ==
  ASSUME NEW S, NEW s \in Seq(S), s # <<>>
  PROVE  Read("end", s) = "bad"
<1>. DEFINE r == [i \in 0..Len(s) |-> IF i = 0 THEN "end" ELSE "bad"]
<1>1. Len(s) \in Nat /\ Len(s) # 0 /\ "end" \in Said /\ "bad" \in Said
  BY LenProperties, EmptySeq DEF Said
<1>2. \A piece : Grammar("end", piece) = "bad" /\ Grammar("bad", piece) = "bad"
  BY DEF Grammar
<1>3. IsRun(r, "end", s, Len(s))
  BY <1>1, <1>2 DEF IsRun
<1>. HIDE DEF r
<1>4. Read("end", s) = r[Len(s)]
  BY <1>1, <1>3, ReadRun
<1>. QED
  BY <1>1, <1>4 DEF r

\* A part of a document is no worse than the document.
LEMMA ReadPart ==
  ASSUME NEW at \in Said, NEW S, NEW s \in Seq(S), NEW t \in Seq(S), Read(at, s \o t) # "bad"
  PROVE  Read(at, s) # "bad"
BY ReadConcat, ReadBad

(***************************************************************************)
(* What is said.                                                           *)
(***************************************************************************)
SpeakerOK(o) == o \in Speaker /\ Len(o.outbuf) < BufLen /\ Len(o.pend) <= MaxPend

\* Where a peer that is at a will be when it has read what o has buffered.
At(a, o) == Read(a, o.pend \o o.outbuf)

\* A stream that was not opened has said nothing, an open one is in its root's start tag
\* or in its body, one that is closing has ended its document; unless there is a gap.
Phase(a, o) ==
  ~ o.gap => /\ o.state = "INIT" => At(a, o) = "start" /\ ~ o.opened /\ o.outbuf = <<>>
             /\ o.state = "ACTIVE" => At(a, o) = IF o.opened THEN "header" ELSE "body"
             /\ o.state = "CLOSING" => At(a, o) = "end" /\ ~ o.opened /\ o.outbuf = <<>>

LEMMA SpeakerFields ==
  ASSUME NEW o \in Speaker
  PROVE  /\ o.state \in {"INIT", "ACTIVE", "CLOSING"} /\ o.outbuf \in Seq(Piece)
         /\ o.opened \in BOOLEAN /\ o.pend \in Seq(Piece) /\ o.gap \in BOOLEAN
         /\ Len(o.outbuf) \in Nat /\ Len(o.pend) \in Nat
         /\ o.pend \o o.outbuf \in Seq(Piece)
<1>1. /\ o.state \in {"INIT", "ACTIVE", "CLOSING"} /\ o.outbuf \in Seq(Piece)
      /\ o.opened \in BOOLEAN /\ o.pend \in Seq(Piece) /\ o.gap \in BOOLEAN
  BY DEF Speaker
<1>. QED
  BY <1>1, LenProperties, ConcatProperties

LEMMA NoPieces == <<>> \in Seq(Piece) /\ Len(<<>>) = 0
BY EmptySeq

\* flushBuffer: what was in the writer's buffer is behind what was in the descriptor's.
LEMMA FlushBufferSays ==
  ASSUME NEW o \in Speaker, Len(o.pend) <= MaxPend
  PROVE  /\ SpeakerOK(FlushBuffer(o)) /\ FlushBuffer(o).outbuf = <<>>
         /\ FlushBuffer(o).state = o.state /\ (FlushBuffer(o).opened <=> o.opened)
         /\ o.gap => FlushBuffer(o).gap
         /\ ~ FlushBuffer(o).gap => FlushBuffer(o).pend = o.pend \o o.outbuf
<1>. DEFINE w == FlushBuffer(o)
            fits == Fits(o, o.outbuf)
<1>1. /\ o.outbuf \in Seq(Piece) /\ o.pend \in Seq(Piece) /\ o.pend \o o.outbuf \in Seq(Piece)
      /\ Len(o.outbuf) \in Nat /\ Len(o.pend) \in Nat
      /\ o.gap \in BOOLEAN /\ o.opened \in BOOLEAN /\ o.state \in {"INIT", "ACTIVE", "CLOSING"}
      /\ <<>> \in Seq(Piece) /\ Len(<<>>) = 0
  BY SpeakerFields, NoPieces
<1>2. Len(o.pend \o o.outbuf) = Len(o.pend) + Len(o.outbuf)
  BY <1>1, ConcatProperties
<1>3. w = [Put(o, o.outbuf) EXCEPT !.outbuf = <<>>, !.gap = o.gap \/ ~ fits]
  BY DEF FlushBuffer
<1>4. fits \in BOOLEAN /\ (fits => Len(o.pend) + Len(o.outbuf) <= MaxPend)
      /\ Put(o, o.outbuf) = IF fits THEN [o EXCEPT !.pend = o.pend \o o.outbuf] ELSE o
  <2>1. fits => Len(o.pend) + Len(o.outbuf) <= MaxPend
    <3>1. CASE o.outbuf = <<>>
      BY <1>1, <3>1
    <3>2. CASE o.outbuf # <<>>
      BY <3>2 DEF Fits
    <3>. QED
      BY <3>1, <3>2
  <2>2. fits \in BOOLEAN
    BY DEF Fits
  <2>3. Put(o, o.outbuf) = IF fits THEN [o EXCEPT !.pend = o.pend \o o.outbuf] ELSE o
    BY DEF Put
  <2>. QED
    BY <2>1, <2>2, <2>3, Zenon
<1>. DEFINE b == o.gap \/ ~ fits
<1>5. /\ w \in Speaker /\ w.outbuf = <<>> /\ w.state = o.state /\ w.opened = o.opened
      /\ w.pend = (IF fits THEN o.pend \o o.outbuf ELSE o.pend)
      /\ w.gap = b
  <2>1. b \in BOOLEAN
    BY <1>1, <1>4
  <2>2. w = [Put(o, o.outbuf) EXCEPT !.outbuf = <<>>, !.gap = b]
    BY <1>3
  <2>. HIDE DEF b, fits, w
  <2>3. CASE fits
    <3>1. w = [[o EXCEPT !.pend = o.pend \o o.outbuf] EXCEPT !.outbuf = <<>>, !.gap = b]
      BY <1>4, <2>2, <2>3
    <3>. QED
      BY <1>1, <2>1, <2>3, <3>1 DEF Speaker
  <2>4. CASE ~ fits
    <3>1. w = [o EXCEPT !.outbuf = <<>>, !.gap = b]
      BY <1>4, <2>2, <2>4
    <3>. QED
      BY <1>1, <2>1, <2>4, <3>1 DEF Speaker
  <2>. QED
    BY <1>4, <2>3, <2>4
<1>6. Len(w.pend) <= MaxPend
  BY <1>2, <1>4, <1>5
<1>7. SpeakerOK(w)
  <2>. HIDE DEF b, fits, w
  <2>1. Len(w.outbuf) < BufLen
    BY <1>1, <1>5, StreamAssumption
  <2>. QED
    BY <1>5, <1>6, <2>1 DEF SpeakerOK
<1>8. /\ o.gap => w.gap
      /\ ~ w.gap => w.pend = o.pend \o o.outbuf
  <2>1. o.gap => b
    OBVIOUS
  <2>2. ~ b => fits
    OBVIOUS
  <2>. HIDE DEF b, fits, w
  <2>. QED
    BY <1>5, <2>1, <2>2
<1>. QED
  BY <1>5, <1>7, <1>8

LEMMA JoinAppend ==
  ASSUME NEW S, NEW s \in Seq(S), NEW t \in Seq(S), NEW e \in S
  PROVE  s \o Append(t, e) = Append(s \o t, e)
<1>. DEFINE m == Len(s)
            n == Len(t)
            l == s \o Append(t, e)
            r == Append(s \o t, e)
<1>1. m \in Nat /\ n \in Nat
  BY LenProperties
<1>2. /\ Append(t, e) \in Seq(S) /\ Len(Append(t, e)) = n + 1
      /\ \A i \in 1..n : Append(t, e)[i] = t[i]
      /\ Append(t, e)[n + 1] = e
  BY AppendProperties
<1>3. /\ s \o t \in Seq(S) /\ Len(s \o t) = m + n
      /\ \A i \in 1..(m + n) : (s \o t)[i] = IF i <= m THEN s[i] ELSE t[i - m]
  BY ConcatProperties
<1>4. /\ l \in Seq(S) /\ Len(l) = m + (n + 1)
      /\ \A i \in 1..(m + (n + 1)) : l[i] = IF i <= m THEN s[i] ELSE Append(t, e)[i - m]
  BY <1>2, ConcatProperties
<1>5. /\ r \in Seq(S) /\ Len(r) = (m + n) + 1
      /\ \A i \in 1..(m + n) : r[i] = (s \o t)[i]
      /\ r[(m + n) + 1] = e
  BY <1>3, AppendProperties
<1>. HIDE DEF m, n, l, r
<1>6. ASSUME NEW i \in 1..Len(l) PROVE l[i] = r[i]
  <2>0. i \in 1..(m + (n + 1)) /\ i \in Nat
    BY <1>1, <1>4
  <2>1. CASE i = m + n + 1
    <3>1. ~ (i <= m) /\ i - m = n + 1 /\ i = (m + n) + 1
      BY <1>1, <2>1
    <3>2. l[i] = Append(t, e)[n + 1]
      BY <1>4, <2>0, <3>1
    <3>. QED
      BY <1>2, <1>5, <3>1, <3>2
  <2>2. CASE i # m + n + 1
    <3>1. i \in 1..(m + n)
      BY <1>1, <2>0, <2>2
    <3>2. r[i] = IF i <= m THEN s[i] ELSE t[i - m]
      BY <1>3, <1>5, <3>1
    <3>3. ~ (i <= m) => i - m \in 1..n
      BY <1>1, <3>1
    <3>4. l[i] = IF i <= m THEN s[i] ELSE Append(t, e)[i - m]
      BY <1>4, <2>0
    <3>. QED
      BY <1>2, <3>2, <3>3, <3>4
  <2>. QED
    BY <2>1, <2>2
<1>7. Len(l) = Len(r)
  BY <1>1, <1>4, <1>5
<1>8. l = r
  BY <1>4, <1>5, <1>6, <1>7, SeqEqual
<1>. QED
  BY <1>8 DEF l, r

\* output: a piece is behind everything that was buffered.
LEMMA OutputSays ==
  ASSUME NEW o, SpeakerOK(o), NEW piece \in Piece, NEW a \in Said
  PROVE  /\ SpeakerOK(Output(o, piece))
         /\ Output(o, piece).state = o.state /\ (Output(o, piece).opened <=> o.opened)
         /\ o.gap => Output(o, piece).gap
         /\ ~ Output(o, piece).gap => At(a, Output(o, piece)) = Grammar(At(a, o), piece)
<1>. DEFINE w == [o EXCEPT !.outbuf = Append(o.outbuf, piece)]
            v == Output(o, piece)
<1>1. o \in Speaker /\ Len(o.outbuf) < BufLen /\ Len(o.pend) <= MaxPend
  BY DEF SpeakerOK
<1>2. /\ o.outbuf \in Seq(Piece) /\ o.pend \in Seq(Piece) /\ o.pend \o o.outbuf \in Seq(Piece)
      /\ Len(o.outbuf) \in Nat
  BY <1>1, SpeakerFields
<1>3. /\ Append(o.outbuf, piece) \in Seq(Piece)
      /\ Len(Append(o.outbuf, piece)) = Len(o.outbuf) + 1
  BY <1>2, AppendProperties
<1>4. /\ w \in Speaker /\ w.outbuf = Append(o.outbuf, piece) /\ w.pend = o.pend
      /\ w.state = o.state /\ (w.opened <=> o.opened) /\ (w.gap <=> o.gap)
  BY <1>1, <1>3 DEF Speaker
<1>. HIDE DEF w
<1>5. w.pend \o w.outbuf = Append(o.pend \o o.outbuf, piece) /\ w.pend \o w.outbuf \in Seq(Piece)
  <2>1. o.pend \o Append(o.outbuf, piece) = Append(o.pend \o o.outbuf, piece)
    <3>1. \A x, y \in Seq(Piece) : x \o Append(y, piece) = Append(x \o y, piece)
      BY JoinAppend
    <3>. QED
      BY <1>2, <3>1
  <2>2. Append(o.pend \o o.outbuf, piece) \in Seq(Piece)
    BY <1>2, AppendProperties
  <2>. QED
    BY <1>4, <2>1, <2>2
<1>6. At(a, w) = Grammar(At(a, o), piece)
  BY <1>2, <1>5, ReadAppend, ZenonT(40) DEF At
<1>7. v = IF Len(w.outbuf) = BufLen THEN FlushBuffer(w) ELSE w
  BY DEF Output, w
<1>. HIDE DEF v
<1>8. CASE Len(w.outbuf) = BufLen
  <2>1. v = FlushBuffer(w)
    BY <1>7, <1>8
  <2>2. /\ SpeakerOK(v) /\ v.outbuf = <<>> /\ v.state = w.state /\ (v.opened <=> w.opened)
        /\ w.gap => v.gap
        /\ ~ v.gap => v.pend = w.pend \o w.outbuf
    BY <1>1, <1>4, <2>1, FlushBufferSays
  <2>3. ~ v.gap => At(a, v) = At(a, w)
    <3>1. ASSUME ~ v.gap PROVE v.pend \o v.outbuf = w.pend \o w.outbuf
      BY <1>5, <2>2, <3>1, ConcatEmptySeq
    <3>. QED
      BY <3>1 DEF At
  <2>. QED
    BY <1>4, <1>6, <2>2, <2>3 DEF v
<1>9. CASE Len(w.outbuf) # BufLen
  <2>1. v = w
    BY <1>7, <1>9
  <2>2. SpeakerOK(w)
    BY <1>1, <1>2, <1>3, <1>4, <1>9, StreamAssumption DEF SpeakerOK
  <2>. QED
    BY <1>4, <1>6, <2>1, <2>2 DEF v
<1>. QED
  BY <1>8, <1>9

\* The fields that are no buffers.
SetsOpened(v, w) == v = [w EXCEPT !.opened = TRUE] \/ v = [w EXCEPT !.opened = FALSE]
SetsState(v, w, st) == st \in {"INIT", "ACTIVE", "CLOSING"} /\ v = [w EXCEPT !.state = st]

LEMMA SetOpened ==
  ASSUME NEW w, SpeakerOK(w), NEW v, SetsOpened(v, w), NEW a
  PROVE  /\ SpeakerOK(v) /\ v.state = w.state /\ (v.gap <=> w.gap)
         /\ v.outbuf = w.outbuf /\ At(a, v) = At(a, w)
<1>1. /\ v \in Speaker /\ v.outbuf = w.outbuf /\ v.pend = w.pend /\ v.state = w.state
      /\ (v.gap <=> w.gap)
  <2>1. CASE v = [w EXCEPT !.opened = TRUE]
    BY <2>1 DEF SpeakerOK, Speaker
  <2>2. CASE v = [w EXCEPT !.opened = FALSE]
    BY <2>2 DEF SpeakerOK, Speaker
  <2>. QED
    BY <2>1, <2>2 DEF SetsOpened
<1>. QED
  BY <1>1 DEF SpeakerOK, At

LEMMA SetState ==
  ASSUME NEW w, SpeakerOK(w), NEW st, NEW v, SetsState(v, w, st), NEW a
  PROVE  /\ SpeakerOK(v) /\ v.state = st /\ v.opened = w.opened /\ v.gap = w.gap
         /\ v.outbuf = w.outbuf /\ v.pend = w.pend /\ At(a, v) = At(a, w)
<1>1. /\ v \in Speaker /\ v.outbuf = w.outbuf /\ v.pend = w.pend /\ v.state = st
      /\ v.opened = w.opened /\ v.gap = w.gap
  BY DEF SpeakerOK, Speaker, SetsState
<1>. QED
  BY <1>1 DEF SpeakerOK, At

\* After a call w of the speaker o the peer is at to, unless there is a gap.
Says(a, o, w, to) ==
  /\ SpeakerOK(w) /\ w.state = o.state
  /\ o.gap => w.gap
  /\ ~ w.gap => At(a, w) = to

LEMMA CompliteTagSays ==
  ASSUME NEW o, SpeakerOK(o), NEW a \in Said
  PROVE  /\ Says(a, o, CompliteTag(o), IF o.opened THEN Grammar(At(a, o), ">") ELSE At(a, o))
         /\ ~ CompliteTag(o).opened
<1>1. CASE o.opened
  <2>. DEFINE w == Output(o, ">")
  <2>1. CompliteTag(o) = [w EXCEPT !.opened = FALSE]
    BY <1>1 DEF CompliteTag
  <2>2. /\ SpeakerOK(w) /\ w.state = o.state /\ (o.gap => w.gap)
        /\ ~ w.gap => At(a, w) = Grammar(At(a, o), ">")
    <3>1. ">" \in Piece
      BY DEF Piece
    <3>. QED
      BY <3>1, OutputSays
  <2>. HIDE DEF w
  <2>. DEFINE v == [w EXCEPT !.opened = FALSE]
  <2>3. ~ v.opened /\ SetsOpened(v, w)
    <3>1. "opened" \in DOMAIN w
      BY <2>2 DEF SpeakerOK, Speaker
    <3>. QED
      BY <3>1 DEF SetsOpened
  <2>5. SpeakerOK(v) /\ v.state = w.state /\ (v.gap <=> w.gap) /\ At(a, v) = At(a, w)
    <3>. HIDE DEF v
    <3>. QED
      BY <2>2, <2>3, SetOpened
  <2>. HIDE DEF v
  <2>4. Says(a, o, v, Grammar(At(a, o), ">")) /\ ~ v.opened
    BY <2>2, <2>3, <2>5 DEF Says
  <2>. QED
    BY <1>1, <2>1, <2>4 DEF v
<1>2. CASE ~ o.opened
  BY <1>2 DEF CompliteTag, Says
<1>. QED
  BY <1>1, <1>2

LEMMA FlushSays ==
  ASSUME NEW o, SpeakerOK(o), NEW a \in Said
  PROVE  /\ Says(a, o, Flush(o), IF o.opened THEN Grammar(At(a, o), ">") ELSE At(a, o))
         /\ ~ Flush(o).opened /\ Flush(o).outbuf = <<>>
<1>. DEFINE w == CompliteTag(o)
            v == FlushBuffer(w)
            to == IF o.opened THEN Grammar(At(a, o), ">") ELSE At(a, o)
<1>1. Says(a, o, w, to) /\ ~ w.opened
  BY CompliteTagSays
<1>. HIDE DEF w, to
<1>2. w \in Speaker /\ Len(w.pend) <= MaxPend /\ w.pend \o w.outbuf \in Seq(Piece)
  BY <1>1, SpeakerFields DEF Says, SpeakerOK
<1>3. /\ SpeakerOK(v) /\ v.outbuf = <<>> /\ v.state = w.state /\ (v.opened <=> w.opened)
      /\ w.gap => v.gap
      /\ ~ v.gap => v.pend = w.pend \o w.outbuf
  BY <1>2, FlushBufferSays
<1>. HIDE DEF v
<1>4. ~ v.gap => At(a, v) = At(a, w)
  <2>1. ASSUME ~ v.gap PROVE v.pend \o v.outbuf = w.pend \o w.outbuf
    BY <1>2, <1>3, <2>1, ConcatEmptySeq
  <2>. QED
    BY <2>1 DEF At
<1>5. Says(a, o, v, to) /\ ~ v.opened /\ v.outbuf = <<>>
  BY <1>1, <1>3, <1>4 DEF Says
<1>. QED
  BY <1>5 DEF v, w, to, Flush

\* The declaration and the root's start tag.
LEMMA StartSays ==
  ASSUME NEW o, SpeakerOK(o), NEW a \in Said
  PROVE  /\ SpeakerOK(StartDocument(o)) /\ (o.gap => StartDocument(o).gap)
         /\ StartDocument(o).opened
         /\ ~ StartDocument(o).gap /\ ~ o.opened /\ At(a, o) = "start" =>
              At(a, StartDocument(o)) = "header"
<1>. DEFINE d == Output(o, "<?xml?>")
            w == CompliteTag(d)
            v == Output(w, "<stream")
            r == [v EXCEPT !.opened = TRUE]
<1>1. "<?xml?>" \in Piece /\ "<stream" \in Piece
  BY DEF Piece
<1>2. /\ SpeakerOK(d) /\ (d.opened <=> o.opened) /\ (o.gap => d.gap)
      /\ ~ d.gap => At(a, d) = Grammar(At(a, o), "<?xml?>")
  BY <1>1, OutputSays
<1>. HIDE DEF d
<1>3. Says(a, d, w, IF d.opened THEN Grammar(At(a, d), ">") ELSE At(a, d))
  BY <1>2, CompliteTagSays
<1>. HIDE DEF w
<1>4. /\ SpeakerOK(w) /\ (d.gap => w.gap)
      /\ ~ w.gap /\ ~ d.opened => At(a, w) = At(a, d)
  BY <1>3 DEF Says
<1>5. /\ SpeakerOK(v) /\ (w.gap => v.gap)
      /\ ~ v.gap => At(a, v) = Grammar(At(a, w), "<stream")
  BY <1>1, <1>4, OutputSays
<1>. HIDE DEF v
<1>6. /\ SpeakerOK(r) /\ r.opened /\ (r.gap <=> v.gap) /\ At(a, r) = At(a, v)
  <2>1. r.opened /\ SetsOpened(r, v)
    <3>1. "opened" \in DOMAIN v
      BY <1>5 DEF SpeakerOK, Speaker
    <3>. QED
      BY <3>1 DEF SetsOpened
  <2>. HIDE DEF r
  <2>. QED
    BY <1>5, <2>1, SetOpened
<1>. HIDE DEF r
<1>7. Grammar(Grammar("start", "<?xml?>"), "<stream") = "header"
  BY DEF Grammar
<1>8. ~ r.gap /\ ~ o.opened /\ At(a, o) = "start" => At(a, r) = "header"
  BY <1>2, <1>4, <1>5, <1>6, <1>7
<1>9. SpeakerOK(r) /\ (o.gap => r.gap) /\ r.opened
  BY <1>2, <1>4, <1>5, <1>6
<1>10. r = StartDocument(o)
  BY DEF StartDocument, r, v, w, d
<1>. QED
  BY <1>8, <1>9, <1>10

\* The root's end.
LEMMA EndSays ==
  ASSUME NEW o, SpeakerOK(o), NEW a \in Said
  PROVE  /\ SpeakerOK(EndDocument(o)) /\ EndDocument(o).state = o.state
         /\ o.gap => EndDocument(o).gap
         /\ ~ EndDocument(o).opened
         /\ ~ EndDocument(o).gap /\ At(a, o) = (IF o.opened THEN "header" ELSE "body") =>
              At(a, EndDocument(o)) = "end"
<1>. DEFINE piece == IF o.opened THEN "/>" ELSE "</stream>"
            v == Output(o, piece)
            r == [v EXCEPT !.opened = FALSE]
<1>1. piece \in Piece
  BY DEF Piece
<1>2. Grammar(IF o.opened THEN "header" ELSE "body", piece) = "end"
  BY DEF Grammar
<1>. HIDE DEF piece
<1>3. /\ SpeakerOK(v) /\ v.state = o.state /\ (o.gap => v.gap)
      /\ ~ v.gap => At(a, v) = Grammar(At(a, o), piece)
  BY <1>1, OutputSays
<1>. HIDE DEF v
<1>4. /\ SpeakerOK(r) /\ r.state = v.state /\ ~ r.opened /\ (r.gap <=> v.gap)
      /\ At(a, r) = At(a, v)
  <2>1. ~ r.opened /\ SetsOpened(r, v)
    <3>1. "opened" \in DOMAIN v
      BY <1>3 DEF SpeakerOK, Speaker
    <3>. QED
      BY <3>1 DEF SetsOpened
  <2>. HIDE DEF r
  <2>. QED
    BY <1>3, <2>1, SetOpened
<1>. HIDE DEF r
<1>5. r = EndDocument(o)
  BY DEF EndDocument, r, v, piece
<1>6. ~ r.gap /\ At(a, o) = (IF o.opened THEN "header" ELSE "body") => At(a, r) = "end"
  BY <1>2, <1>3, <1>4
<1>. QED
  BY <1>3, <1>4, <1>5, <1>6

\* A call that turns o into w keeps the phase, and no gap is forgotten.
Keeps(a, o, w) ==
  /\ SpeakerOK(w)
  /\ o.gap => w.gap
  /\ Phase(a, o) => Phase(a, w)

LEMMA KeepsTwice ==
  ASSUME NEW a, NEW o, NEW w, NEW v, Keeps(a, o, w), Keeps(a, w, v)
  PROVE  Keeps(a, o, v)
BY DEF Keeps

LEMMA OpenKeeps ==
  ASSUME NEW o, SpeakerOK(o), NEW a \in Said
  PROVE  Keeps(a, o, OpenStream(o)) /\ (o.state = "INIT" => OpenStream(o).state = "ACTIVE")
<1>. DEFINE d == StartDocument(o)
            w == [d EXCEPT !.state = "ACTIVE"]
<1>1. CASE o.state = "INIT"
  <2>1. /\ SpeakerOK(d) /\ (o.gap => d.gap) /\ d.opened
        /\ ~ d.gap /\ ~ o.opened /\ At(a, o) = "start" => At(a, d) = "header"
    BY StartSays
  <2>. HIDE DEF d
  <2>2. SetsState(w, d, "ACTIVE")
    BY DEF SetsState
  <2>3. OpenStream(o) = w
    BY <1>1 DEF OpenStream, d
  <2>. HIDE DEF w
  <2>4. /\ SpeakerOK(w) /\ w.state = "ACTIVE" /\ w.opened = d.opened /\ w.gap = d.gap
        /\ At(a, w) = At(a, d)
    <3>1. SpeakerOK(d)
      BY <2>1
    <3>2. SpeakerOK(w)
      BY <2>2, <3>1, SetState
    <3>3. w.state = "ACTIVE"
      BY <2>2, <3>1, SetState
    <3>4. w.gap = d.gap
      BY <2>2, <3>1, SetState
    <3>5. w.opened = d.opened
      BY <2>2, <3>1, SetState
    <3>6. At(a, w) = At(a, d)
      BY <2>2, <3>1, SetState
    <3>. QED
      BY <3>2, <3>3, <3>4, <3>5, <3>6
  <2>5. Phase(a, o) => Phase(a, w)
    BY <1>1, <2>1, <2>4 DEF Phase
  <2>. QED
    BY <2>1, <2>3, <2>4, <2>5 DEF Keeps
<1>2. CASE o.state # "INIT"
  BY <1>2 DEF OpenStream, Keeps
<1>. QED
  BY <1>1, <1>2

LEMMA FlushKeeps ==
  ASSUME NEW o, SpeakerOK(o), NEW a \in Said
  PROVE  Keeps(a, o, Flush(o)) /\ Flush(o).state = o.state
<1>. DEFINE w == Flush(o)
            to == IF o.opened THEN Grammar(At(a, o), ">") ELSE At(a, o)
<1>1. Says(a, o, w, to) /\ ~ w.opened /\ w.outbuf = <<>>
  BY FlushSays
<1>2. Grammar("header", ">") = "body"
  BY DEF Grammar
<1>. HIDE DEF w
<1>3. /\ SpeakerOK(w) /\ w.state = o.state /\ (o.gap => w.gap)
      /\ ~ w.gap => At(a, w) = to
  BY <1>1 DEF Says
<1>4. Phase(a, o) => Phase(a, w)
  <2>. SUFFICES ASSUME Phase(a, o), ~ w.gap PROVE Phase(a, w)
    BY DEF Phase
  <2>1. /\ o.state = "INIT" => At(a, o) = "start" /\ ~ o.opened
        /\ o.state = "ACTIVE" => At(a, o) = IF o.opened THEN "header" ELSE "body"
        /\ o.state = "CLOSING" => At(a, o) = "end" /\ ~ o.opened
    BY <1>3 DEF Phase
  <2>2. CASE o.opened
    <3>1. o.state # "INIT" /\ o.state # "CLOSING" /\ (o.state = "ACTIVE" => At(a, w) = "body")
      BY <1>2, <1>3, <2>1, <2>2
    <3>. QED
      BY <1>1, <1>3, <3>1 DEF Phase
  <2>3. CASE ~ o.opened
    <3>1. At(a, w) = At(a, o)
      BY <1>3, <2>3
    <3>. QED
      BY <1>1, <1>3, <2>1, <2>3, <3>1 DEF Phase
  <2>. QED
    BY <2>2, <2>3
<1>5. Keeps(a, o, w) /\ w.state = o.state
  BY <1>3, <1>4 DEF Keeps
<1>. QED
  BY <1>5 DEF w

LEMMA SendKeeps ==
  ASSUME NEW o, SpeakerOK(o), NEW a \in Said
  PROVE  Keeps(a, o, SendStanza(o)) /\ SendStanza(o).state = o.state
<1>. DEFINE st == <<"stanza">>
            w == SendStanza(o)
            fits == Fits(o, st)
            buffered == Buffered(o)
            b == o.gap \/ (buffered /\ fits)
<1>1. CASE o.state # "ACTIVE"
  BY <1>1 DEF SendStanza, Keeps
<1>2. CASE o.state = "ACTIVE"
  <2>1. w = [Put(o, st) EXCEPT !.gap = Put(o, st).gap \/ (buffered /\ fits)]
    BY <1>2 DEF SendStanza
  <2>2. /\ o \in Speaker /\ o.outbuf \in Seq(Piece) /\ o.pend \in Seq(Piece)
        /\ Len(o.pend) \in Nat /\ o.gap \in BOOLEAN /\ o.opened \in BOOLEAN
        /\ Len(o.outbuf) < BufLen /\ Len(o.pend) <= MaxPend
    BY SpeakerFields DEF SpeakerOK
  <2>3. "stanza" \in Piece /\ st \in Seq(Piece) /\ Len(st) = 1
    BY DEF Piece
  <2>4. o.pend \o st = Append(o.pend, "stanza") /\ Append(o.pend, "stanza") \in Seq(Piece)
        /\ Len(Append(o.pend, "stanza")) = Len(o.pend) + 1
    BY <2>2, <2>3, AppendProperties, AppendIsConcat
  <2>5. fits => Len(o.pend) + 1 <= MaxPend
    BY <2>3 DEF Fits
  <2>6. /\ fits => Put(o, st) = [o EXCEPT !.pend = Append(o.pend, "stanza")]
        /\ ~ fits => Put(o, st) = o
    BY <2>4 DEF Put
  <2>7. buffered <=> o.opened \/ o.outbuf # <<>>
    BY DEF Buffered
  <2>8. b \in BOOLEAN /\ (o.gap => b) /\ (~ b => (~ fits \/ ~ buffered)) /\ (~ fits => (b <=> o.gap))
    OBVIOUS
  <2>. HIDE DEF st, fits, buffered, w
  <2>9. CASE fits
    <3>1. Put(o, st).gap <=> o.gap
      BY <2>2, <2>6, <2>9 DEF Speaker
    <3>2. w = [[o EXCEPT !.pend = Append(o.pend, "stanza")] EXCEPT !.gap = b]
      BY <2>1, <2>2, <2>6, <2>9, <3>1 DEF Speaker
    <3>. HIDE DEF b
    <3>3. /\ w \in Speaker /\ w.state = o.state /\ w.outbuf = o.outbuf /\ (w.opened <=> o.opened)
          /\ w.pend = Append(o.pend, "stanza") /\ (w.gap <=> b)
      BY <2>2, <2>4, <2>8, <3>2 DEF Speaker
    <3>4. SpeakerOK(w)
      BY <2>2, <2>4, <2>5, <2>9, <3>3 DEF SpeakerOK
    <3>5. Phase(a, o) => Phase(a, w)
      <4>. SUFFICES ASSUME Phase(a, o), ~ w.gap PROVE Phase(a, w)
        BY DEF Phase
      <4>1. ~ o.gap /\ ~ o.opened /\ o.outbuf = <<>>
        BY <2>7, <2>8, <2>9, <3>3
      <4>2. At(a, o) = "body"
        BY <1>2, <4>1 DEF Phase
      <4>3. At(a, o) = Read(a, o.pend)
        <5>1. o.pend \o o.outbuf = o.pend
          BY <2>2, <4>1, ConcatEmptySeq
        <5>. QED
          BY <5>1 DEF At
      <4>4. At(a, w) = Read(a, Append(o.pend, "stanza"))
        <5>1. w.pend \o w.outbuf = Append(o.pend, "stanza")
          BY <2>4, <3>3, <4>1, ConcatEmptySeq
        <5>. QED
          BY <5>1 DEF At
      <4>5. Read(a, Append(o.pend, "stanza")) = Grammar(Read(a, o.pend), "stanza")
        BY <2>2, <2>3, ReadAppend
      <4>6. Grammar("body", "stanza") = "body"
        BY DEF Grammar
      <4>7. At(a, w) = "body"
        BY <4>2, <4>3, <4>4, <4>5, <4>6
      <4>. QED
        BY <1>2, <3>3, <4>1, <4>7 DEF Phase
    <3>. QED
      BY <2>8, <3>3, <3>4, <3>5 DEF Keeps, w
  <2>10. CASE ~ fits
    <3>1. w = [o EXCEPT !.gap = b]
      BY <2>1, <2>6, <2>10 DEF fits
    <3>2. w = o
      BY <2>2, <2>8, <2>10, <3>1 DEF Speaker
    <3>. QED
      BY <3>2 DEF Keeps, w
  <2>. QED
    BY <2>9, <2>10
<1>. QED
  BY <1>1, <1>2

LEMMA CloseKeeps ==
  ASSUME NEW o, SpeakerOK(o), o.state # "INIT", NEW a \in Said
  PROVE  Keeps(a, o, CloseStream(o)) /\ CloseStream(o).state = "CLOSING"
<1>. DEFINE d == EndDocument(o)
            f == Flush(d)
            g == IF o.state = "ACTIVE" THEN f ELSE o
            w == [g EXCEPT !.state = "CLOSING"]
<1>1. o.state = "ACTIVE" \/ o.state = "CLOSING"
  BY DEF SpeakerOK, Speaker
<1>2. /\ SpeakerOK(d) /\ (o.gap => d.gap) /\ ~ d.opened
      /\ ~ d.gap /\ At(a, o) = (IF o.opened THEN "header" ELSE "body") => At(a, d) = "end"
  BY EndSays
<1>. HIDE DEF d
<1>3. /\ Says(a, d, f, IF d.opened THEN Grammar(At(a, d), ">") ELSE At(a, d))
      /\ ~ f.opened /\ f.outbuf = <<>>
  BY <1>2, FlushSays
<1>. HIDE DEF f
<1>4. /\ SpeakerOK(f) /\ (d.gap => f.gap)
      /\ ~ f.gap => At(a, f) = At(a, d)
  BY <1>2, <1>3 DEF Says
<1>5. /\ SpeakerOK(g) /\ (o.gap => g.gap)
      /\ Phase(a, o) /\ ~ g.gap => At(a, g) = "end" /\ ~ g.opened /\ g.outbuf = <<>>
  <2>1. CASE o.state = "ACTIVE"
    BY <1>2, <1>3, <1>4, <2>1 DEF Phase
  <2>2. CASE o.state = "CLOSING"
    BY <2>2 DEF Phase
  <2>. QED
    BY <1>1, <2>1, <2>2
<1>6. CloseStream(o) = w
  BY DEF CloseStream, w, g, f, d
<1>. HIDE DEF g
<1>7. SetsState(w, g, "CLOSING")
  BY DEF SetsState
<1>. HIDE DEF w
<1>8. /\ SpeakerOK(w) /\ w.state = "CLOSING" /\ w.opened = g.opened /\ w.gap = g.gap
      /\ At(a, w) = At(a, g) /\ w.outbuf = g.outbuf
  BY <1>5, <1>7, SetState
<1>9. Phase(a, o) => Phase(a, w)
  BY <1>5, <1>8 DEF Phase
<1>. QED
  BY <1>5, <1>6, <1>8, <1>9 DEF Keeps

\* A stream that was not opened only changes its state.
LEMMA CloseUnopened ==
  ASSUME NEW o, SpeakerOK(o), o.state = "INIT"
  PROVE  /\ SpeakerOK(CloseStream(o)) /\ CloseStream(o).gap = o.gap
         /\ CloseStream(o).pend = o.pend
<1>. DEFINE w == [o EXCEPT !.state = "CLOSING"]
<1>1. CloseStream(o) = w
  BY DEF CloseStream
<1>2. SetsState(w, o, "CLOSING")
  BY DEF SetsState
<1>. HIDE DEF w
<1>3. SpeakerOK(w) /\ w.gap = o.gap /\ w.pend = o.pend
  BY <1>2, SetState
<1>. QED
  BY <1>1, <1>3

LEMMA ComplainKeeps ==
  ASSUME NEW o, SpeakerOK(o), NEW a \in Said
  PROVE  Keeps(a, o, Complain(o))
<1>. DEFINE u == OpenStream(o)
            v == Flush(u)
            w == IF o.state = "INIT" THEN v ELSE o
            x == SendStanza(w)
            y == CloseStream(x)
<1>1. Keeps(a, o, w) /\ w.state # "INIT"
  <2>1. CASE o.state = "INIT"
    <3>1. Keeps(a, o, u) /\ u.state = "ACTIVE"
      BY <2>1, OpenKeeps
    <3>. HIDE DEF u
    <3>2. SpeakerOK(u)
      BY <3>1 DEF Keeps
    <3>3. Keeps(a, u, v) /\ v.state = u.state
      BY <3>2, FlushKeeps
    <3>. HIDE DEF v
    <3>4. Keeps(a, o, v)
      BY <3>1, <3>3, KeepsTwice
    <3>. QED
      BY <2>1, <3>1, <3>3, <3>4
  <2>2. CASE o.state # "INIT"
    BY <2>2 DEF Keeps
  <2>. QED
    BY <2>1, <2>2
<1>2. y = Complain(o)
  BY DEF Complain
<1>. HIDE DEF w
<1>3. SpeakerOK(w)
  BY <1>1 DEF Keeps
<1>4. Keeps(a, w, x) /\ x.state = w.state
  BY <1>3, SendKeeps
<1>. HIDE DEF x
<1>5. SpeakerOK(x) /\ x.state # "INIT"
  BY <1>1, <1>4 DEF Keeps
<1>6. Keeps(a, x, y)
  BY <1>5, CloseKeeps
<1>. HIDE DEF y
<1>7. Keeps(a, o, x)
  BY <1>1, <1>4, KeepsTwice
<1>8. Keeps(a, o, y)
  BY <1>6, <1>7, KeepsTwice
<1>. QED
  BY <1>2, <1>8

(***************************************************************************)
(* The document that is sent.                                              *)
(***************************************************************************)
\* A stream with a connection is in its phase; an agent without one has an empty
\* descriptor; and the document is as it should be, also of a stream that has left.
SpeakInv ==
  /\ link = "up" => Phase(said, out)
  /\ link = "down" => out.state = "INIT" /\ out.pend = <<>>
  /\ WellFormed

SpeakType == SpeakerOK(out) /\ said \in Said /\ link \in {"up", "down", "left"}

LEMMA PhaseGood ==
  ASSUME NEW o, SpeakerOK(o), NEW a \in Said, Phase(a, o), ~ o.gap
  PROVE  Read(a, o.pend) # "bad"
<1>1. o.pend \in Seq(Piece) /\ o.outbuf \in Seq(Piece) /\ o.state \in {"INIT", "ACTIVE", "CLOSING"}
  BY SpeakerFields DEF SpeakerOK
<1>2. At(a, o) # "bad"
  BY <1>1 DEF Phase
<1>. QED
  BY <1>1, <1>2, ReadPart DEF At

\* A call of the writer on a connection.
LEMMA CallSpeaks ==
  ASSUME SpeakType, SpeakInv, link = "up", link' = link, said' = said, Keeps(said, out, out')
  PROVE  SpeakType' /\ SpeakInv'
<1>1. SpeakerOK(out') /\ Phase(said', out')
  BY DEF Keeps, SpeakInv
<1>2. SpeakType' /\ said' \in Said
  BY <1>1 DEF SpeakType
<1>3. ~ out'.gap => Read(said', out'.pend) # "bad"
  BY <1>1, <1>2, PhaseGood
<1>. QED
  BY <1>1, <1>2, <1>3 DEF SpeakInv, WellFormed

LEMMA CloseSpeaks ==
  ASSUME SpeakType, SpeakInv, AppCloses
  PROVE  SpeakType' /\ SpeakInv'
<1>1. /\ link = "up" /\ out' = CloseStream(out) /\ said' = said
      /\ link' = IF out.state = "INIT" THEN "left" ELSE link
  BY DEF AppCloses
<1>2. SpeakerOK(out) /\ said \in Said
  BY DEF SpeakType
<1>3. CASE out.state = "INIT"
  <2>1. SpeakerOK(out') /\ out'.gap = out.gap /\ out'.pend = out.pend
    BY <1>1, <1>2, <1>3, CloseUnopened
  <2>. QED
    BY <1>1, <1>3, <2>1 DEF SpeakType, SpeakInv, WellFormed
<1>4. CASE out.state # "INIT"
  <2>1. Keeps(said, out, out')
    BY <1>1, <1>2, <1>4, CloseKeeps
  <2>. QED
    BY <1>1, <1>4, <2>1, CallSpeaks
<1>. QED
  BY <1>3, <1>4

LEMMA SplitPend ==
  ASSUME NEW S, NEW s \in Seq(S), NEW n \in 1..Len(s)
  PROVE  /\ SubSeq(s, 1, n) \in Seq(S) /\ SubSeq(s, n + 1, Len(s)) \in Seq(S)
         /\ Len(SubSeq(s, n + 1, Len(s))) = Len(s) - n
         /\ SubSeq(s, 1, n) \o SubSeq(s, n + 1, Len(s)) = s
<1>. DEFINE l == SubSeq(s, 1, n)
            r == SubSeq(s, n + 1, Len(s))
            c == l \o r
<1>1. Len(s) \in Nat /\ n \in Nat /\ n <= Len(s)
  BY LenProperties
<1>2. l \in Seq(S) /\ Len(l) = n /\ \A i \in 1..n : l[i] = s[i]
  BY <1>1, SubSeqProperties
<1>3. r \in Seq(S) /\ Len(r) = Len(s) - n /\ \A i \in 1..(Len(s) - n) : r[i] = s[n + i]
  <2>1. \A i \in (n + 1)..Len(s) : s[i] \in S
    BY <1>1, ElementOfSeq
  <2>2. /\ r \in Seq(S)
        /\ Len(r) = IF n + 1 <= Len(s) THEN Len(s) - (n + 1) + 1 ELSE 0
        /\ \A i \in 1 .. (Len(s) - (n + 1) + 1) : r[i] = s[n + 1 + i - 1]
    BY <1>1, <2>1, SubSeqProperties
  <2>3. Len(r) = Len(s) - n /\ Len(s) - (n + 1) + 1 = Len(s) - n
    BY <1>1, <2>2
  <2>4. \A i \in 1..(Len(s) - n) : n + 1 + i - 1 = n + i
    BY <1>1
  <2>. QED
    BY <2>2, <2>3, <2>4
<1>. HIDE DEF l, r
<1>4. /\ c \in Seq(S) /\ Len(c) = Len(l) + Len(r)
      /\ \A i \in 1..(Len(l) + Len(r)) : c[i] = IF i <= Len(l) THEN l[i] ELSE r[i - Len(l)]
  BY <1>2, <1>3, ConcatProperties
<1>. HIDE DEF c
<1>5. Len(c) = Len(s)
  BY <1>1, <1>2, <1>3, <1>4
<1>6. ASSUME NEW i \in 1..Len(c) PROVE c[i] = s[i]
  <2>1. CASE i <= n
    BY <1>1, <1>2, <1>3, <1>4, <1>5, <2>1
  <2>2. CASE ~ (i <= n)
    <3>1. i - n \in 1..(Len(s) - n) /\ n + (i - n) = i
      BY <1>1, <1>5, <2>2
    <3>. QED
      BY <1>1, <1>2, <1>3, <1>4, <1>5, <2>2, <3>1
  <2>. QED
    BY <2>1, <2>2
<1>7. c = s
  BY <1>4, <1>5, <1>6, SeqEqual
<1>. QED
  BY <1>2, <1>3, <1>7 DEF l, r, c

LEMMA WriteSpeaks ==
  ASSUME SpeakType, SpeakInv, Write
  PROVE  SpeakType' /\ SpeakInv'
<1>1. PICK n \in 1..Len(out.pend) :
        /\ said' = Read(said, SubSeq(out.pend, 1, n))
        /\ out' = [out EXCEPT !.pend = SubSeq(out.pend, n + 1, Len(out.pend))]
        /\ link' = IF n = Len(out.pend) /\ out.state = "CLOSING" /\ ~agent THEN "left" ELSE link
  BY DEF Write
<1>. DEFINE l == SubSeq(out.pend, 1, n)
            r == SubSeq(out.pend, n + 1, Len(out.pend))
<1>2. /\ out \in Speaker /\ out.pend \in Seq(Piece) /\ out.outbuf \in Seq(Piece)
      /\ said \in Said /\ Len(out.pend) \in Nat /\ Len(out.pend) <= MaxPend
      /\ Len(out.outbuf) < BufLen /\ link = "up" /\ Phase(said, out)
  BY SpeakerFields DEF SpeakType, SpeakerOK, SpeakInv, Write
<1>3. /\ l \in Seq(Piece) /\ r \in Seq(Piece) /\ Len(r) = Len(out.pend) - n /\ l \o r = out.pend
  BY <1>2, SplitPend
<1>4. said' = Read(said, l) /\ out' = [out EXCEPT !.pend = r]
  BY <1>1
<1>. HIDE DEF l, r
<1>5. /\ out' \in Speaker /\ out'.pend = r /\ out'.outbuf = out.outbuf
      /\ out'.state = out.state /\ (out'.opened <=> out.opened) /\ (out'.gap <=> out.gap)
  BY <1>2, <1>3, <1>4 DEF Speaker
<1>6. SpeakerOK(out')
  <2>1. Len(r) <= MaxPend
    BY <1>2, <1>3, StreamAssumption
  <2>2. Len(out'.pend) <= MaxPend /\ Len(out'.outbuf) < BufLen
    BY <1>2, <1>5, <2>1
  <2>. QED
    BY <1>5, <2>2 DEF SpeakerOK
<1>7. said' \in Said
  BY <1>2, <1>3, <1>4, ReadType
<1>8. At(said', out') = At(said, out)
  <2>1. r \o out.outbuf \in Seq(Piece)
    BY <1>2, <1>3, ConcatProperties
  <2>2. Read(said, l \o (r \o out.outbuf)) = Read(Read(said, l), r \o out.outbuf)
    <3>1. \A at \in Said : \A x, y \in Seq(Piece) : Read(at, x \o y) = Read(Read(at, x), y)
      BY ReadConcat
    <3>. QED
      BY <1>2, <1>3, <2>1, <3>1
  <2>3. l \o (r \o out.outbuf) = out.pend \o out.outbuf
    <3>1. (l \o r) \o out.outbuf = l \o (r \o out.outbuf)
      <4>1. \A x, y, z \in Seq(Piece) : (x \o y) \o z = x \o (y \o z)
        BY ConcatAssociative
      <4>. QED
        BY <1>2, <1>3, <4>1
    <3>. QED
      BY <1>3, <3>1
  <2>4. At(said', out') = Read(Read(said, l), r \o out.outbuf)
    BY <1>4, <1>5 DEF At
  <2>5. At(said, out) = Read(said, out.pend \o out.outbuf)
    BY DEF At
  <2>. QED
    BY <2>2, <2>3, <2>4, <2>5
<1>9. Phase(said', out')
  BY <1>2, <1>5, <1>8 DEF Phase
<1>10. ~ out'.gap => Read(said', out'.pend) # "bad"
  BY <1>6, <1>7, <1>9, PhaseGood
<1>11. link' \in {"up", "left"}
  BY <1>1, <1>2
<1>. QED
  BY <1>6, <1>7, <1>9, <1>10, <1>11 DEF SpeakType, SpeakInv, WellFormed

LEMMA NothingRead == \A a \in Said : Read(a, <<>>) = a
<1>. TAKE a \in Said
<1>. QED
  BY NoPieces, ReadEmpty

\* An agent loses its connection, after some calls or none.
LEMMA ReconnectSpeaks ==
  ASSUME SpeakType, SpeakInv, link = "up", NEW o, Keeps(said, out, o), Reconnect(o), said' = said
  PROVE  SpeakType' /\ SpeakInv'
<1>1. /\ link' = "down" /\ out' = [o EXCEPT !.state = "INIT", !.pend = <<>>]
  BY DEF Reconnect
<1>2. SpeakerOK(o) /\ (out.gap => o.gap)
  BY DEF Keeps
<1>3. /\ out' \in Speaker /\ out'.state = "INIT" /\ out'.pend = <<>>
      /\ out'.outbuf = o.outbuf /\ (out'.gap <=> o.gap)
  BY <1>1, <1>2, NoPieces DEF SpeakerOK, Speaker
<1>4. SpeakerOK(out')
  BY <1>2, <1>3, NoPieces, StreamAssumption DEF SpeakerOK
<1>5. ~ out'.gap => Read(said', out'.pend) # "bad"
  <2>. SUFFICES ASSUME ~ out'.gap PROVE Read(said', out'.pend) # "bad"
    OBVIOUS
  <2>1. ~ out.gap /\ said \in Said /\ SpeakerOK(out) /\ Phase(said, out)
    BY <1>2, <1>3 DEF SpeakType, SpeakInv
  <2>2. Read(said, out.pend) # "bad" /\ out.pend \in Seq(Piece)
    BY <2>1, PhaseGood, SpeakerFields DEF SpeakerOK
  <2>3. said # "bad"
    BY <2>2, ReadBad
  <2>. QED
    BY <1>3, <2>1, <2>3, NothingRead
<1>. QED
  BY <1>1, <1>3, <1>4, <1>5 DEF SpeakType, SpeakInv, WellFormed

LEMMA ConnectSpeaks ==
  ASSUME SpeakType, SpeakInv, Connect
  PROVE  SpeakType' /\ SpeakInv'
<1>. DEFINE b == Buffered(out)
<1>1. /\ link = "down" /\ link' = "up" /\ said' = "start"
      /\ out' = [out EXCEPT !.gap = b]
      /\ SpeakerOK(out) /\ out.state = "INIT" /\ out.pend = <<>>
  BY DEF Connect, SpeakType, SpeakInv
<1>2. b \in BOOLEAN /\ (b <=> out.opened \/ out.outbuf # <<>>)
  BY DEF Buffered
<1>. HIDE DEF b
<1>3. /\ out' \in Speaker /\ out'.state = "INIT" /\ out'.pend = <<>> /\ (out'.gap <=> b)
      /\ out'.outbuf = out.outbuf /\ (out'.opened <=> out.opened)
  BY <1>1, <1>2 DEF SpeakerOK, Speaker
<1>4. SpeakerOK(out') /\ said' \in Said
  BY <1>1, <1>3 DEF SpeakerOK, Said
<1>5. Phase(said', out')
  <2>. SUFFICES ASSUME ~ out'.gap PROVE Phase(said', out')
    BY DEF Phase
  <2>1. ~ out'.opened /\ out'.outbuf = <<>>
    BY <1>2, <1>3
  <2>2. out'.pend \o out'.outbuf = <<>>
    BY <1>3, <2>1, NoPieces, ConcatEmptySeq
  <2>3. At(said', out') = "start"
    BY <1>1, <1>4, <2>2, NothingRead DEF At
  <2>. QED
    BY <1>3, <2>1, <2>3 DEF Phase
<1>6. ~ out'.gap => Read(said', out'.pend) # "bad"
  BY <1>4, <1>5, PhaseGood
<1>. QED
  BY <1>1, <1>4, <1>5, <1>6 DEF SpeakType, SpeakInv, WellFormed

LEMMA SpeakNext ==
  ASSUME SpeakType, SpeakInv, [Next]_vars
  PROVE  SpeakType' /\ SpeakInv'
<1>0. SpeakerOK(out) /\ said \in Said
  BY DEF SpeakType
<1>1. CASE AppOpens
  <2>1. Keeps(said, out, OpenStream(out))
    BY <1>0, OpenKeeps
  <2>. QED
    BY <1>1, <2>1, CallSpeaks DEF AppOpens
<1>2. CASE AppFlushes
  <2>1. Keeps(said, out, Flush(out))
    BY <1>0, FlushKeeps
  <2>. QED
    BY <1>2, <2>1, CallSpeaks DEF AppFlushes
<1>3. CASE AppSends
  <2>1. Keeps(said, out, SendStanza(out))
    BY <1>0, SendKeeps
  <2>. QED
    BY <1>3, <2>1, CallSpeaks DEF AppSends
<1>4. CASE AppCloses
  BY <1>4, CloseSpeaks
<1>5. CASE Write
  BY <1>5, WriteSpeaks
<1>6. CASE BadData
  <2>1. Keeps(said, out, Complain(out))
    BY <1>0, ComplainKeeps
  <2>. QED
    BY <1>6, <2>1, CallSpeaks DEF BadData
<1>7. CASE PeerDown
  <2>. DEFINE o == IF parser = "done" THEN out ELSE Complain(out)
  <2>1. Keeps(said, out, o)
    <3>1. Keeps(said, out, out)
      BY <1>0 DEF Keeps
    <3>2. Keeps(said, out, Complain(out))
      BY <1>0, ComplainKeeps
    <3>. QED
      BY <3>1, <3>2
  <2>2. /\ link = "up" /\ said' = said
        /\ agent => Reconnect(o)
        /\ ~ agent => out' = o /\ link' = link
    BY <1>7 DEF PeerDown
  <2>. HIDE DEF o
  <2>3. CASE agent
    BY <2>1, <2>2, <2>3, ReconnectSpeaks
  <2>4. CASE ~ agent
    BY <2>1, <2>2, <2>4, CallSpeaks
  <2>. QED
    BY <2>3, <2>4
<1>8. CASE AsyncError
  <2>1. Keeps(said, out, out)
    BY <1>0 DEF Keeps
  <2>2. link = "up" /\ Reconnect(out) /\ said' = said
    BY <1>8 DEF AsyncError
  <2>. QED
    BY <2>1, <2>2, ReconnectSpeaks
<1>9. CASE Connect
  BY <1>9, ConnectSpeaks
<1>10. CASE StartTag \/ EndTag \/ Others \/ UNCHANGED vars
  <2>1. link' = link /\ out' = out /\ said' = said
    BY <1>10 DEF StartTag, EndTag, Others, vars
  <2>. QED
    BY <2>1 DEF SpeakType, SpeakInv, WellFormed
<1>. QED
  BY <1>1, <1>2, <1>3, <1>4, <1>5, <1>6, <1>7, <1>8, <1>9, <1>10 DEF Next

LEMMA SpeakInit ==
  ASSUME Init
  PROVE  SpeakType /\ SpeakInv
<1>1. /\ out = Silent /\ said = "start" /\ link \in {"up", "down", "left"}
  BY DEF Init
<1>2. /\ out \in Speaker /\ out.state = "INIT" /\ out.pend = <<>> /\ out.outbuf = <<>>
      /\ ~ out.opened /\ ~ out.gap
  BY <1>1, NoPieces DEF Silent, Speaker
<1>3. SpeakerOK(out) /\ said \in Said
  BY <1>1, <1>2, NoPieces, StreamAssumption DEF SpeakerOK, Said
<1>4. At(said, out) = "start" /\ Read(said, out.pend) # "bad"
  <2>1. out.pend \o out.outbuf = <<>>
    BY <1>2, NoPieces, ConcatEmptySeq
  <2>. QED
    BY <1>1, <1>2, <1>3, <2>1, NothingRead DEF At
<1>5. Phase(said, out)
  BY <1>2, <1>4 DEF Phase
<1>. QED
  BY <1>1, <1>2, <1>3, <1>4, <1>5 DEF SpeakType, SpeakInv, WellFormed

(***************************************************************************)
(* A server's stream that is closing.                                      *)
(***************************************************************************)
\* The peer has not read the end of a server's document while the stream is there.
NotDone == link = "up" /\ ~ agent /\ ~ out.gap => said # "end"

\* A server's stream that is closing and there has something to write, unless there is a gap.
HasLastWord ==
  link # "left" /\ ~ agent /\ out.state = "CLOSING" /\ ~ out.gap => out.pend # <<>>

LEMMA WriteNotDone ==
  ASSUME SpeakType, SpeakInv, SpeakType', SpeakInv', Write
  PROVE  NotDone'
<1>. SUFFICES ASSUME link' = "up", ~ agent', ~ out'.gap, said' = "end" PROVE FALSE
  BY DEF NotDone
<1>1. PICK n \in 1..Len(out.pend) :
        /\ said' = Read(said, SubSeq(out.pend, 1, n))
        /\ out' = [out EXCEPT !.pend = SubSeq(out.pend, n + 1, Len(out.pend))]
        /\ link' = IF n = Len(out.pend) /\ out.state = "CLOSING" /\ ~agent THEN "left" ELSE link
  BY DEF Write
<1>. DEFINE r == SubSeq(out.pend, n + 1, Len(out.pend))
<1>2. /\ out \in Speaker /\ out.pend \in Seq(Piece) /\ Len(out.pend) \in Nat
      /\ out' \in Speaker /\ out'.pend \in Seq(Piece) /\ out'.outbuf \in Seq(Piece)
      /\ out'.state \in {"INIT", "ACTIVE", "CLOSING"}
  BY SpeakerFields DEF SpeakType, SpeakerOK
<1>3. Len(r) = Len(out.pend) - n
  BY <1>2, SplitPend
<1>4. ~ agent /\ link = "up"
  BY DEF Write
<1>. HIDE DEF r
<1>5. out'.pend = r /\ out'.state = out.state
  BY <1>1, <1>2 DEF Speaker, r
<1>6. out'.pend = <<>>
  <2>1. Read("end", out'.pend) # "bad"
    BY DEF SpeakInv, WellFormed
  <2>. QED
    BY <1>2, <2>1, ReadEnd
<1>7. n = Len(out.pend)
  BY <1>2, <1>3, <1>5, <1>6, NoPieces
<1>8. out'.state # "CLOSING"
  BY <1>1, <1>4, <1>5, <1>7
<1>9. At(said', out') = Read("end", out'.outbuf)
  <2>1. out'.pend \o out'.outbuf = out'.outbuf
    BY <1>2, <1>6, ConcatEmptySeq
  <2>. QED
    BY <2>1 DEF At
<1>10. At(said', out') \in {"end", "bad"}
  <2>1. Read("end", <<>>) = "end"
    BY NothingRead DEF Said
  <2>. QED
    BY <1>2, <1>9, <2>1, ReadEnd
<1>11. At(said', out') \in {"start", "header", "body"}
  BY <1>2, <1>8 DEF SpeakInv, Phase
<1>. QED
  BY <1>10, <1>11

LEMMA NotDoneNext ==
  ASSUME SpeakType, SpeakInv, NotDone, [Next]_vars
  PROVE  NotDone'
<1>0. SpeakerOK(out) /\ said \in Said /\ SpeakType' /\ SpeakInv'
  BY SpeakNext DEF SpeakType
<1>1. CASE Write
  BY <1>0, <1>1, WriteNotDone
<1>2. ASSUME Keeps(said, out, out'), link = "up", said' = said, agent' = agent PROVE NotDone'
  BY <1>2 DEF NotDone, Keeps
<1>3. CASE AppOpens \/ AppFlushes \/ AppSends
  <2>1. /\ link = "up" /\ said' = said /\ agent' = agent
        /\ out' \in {OpenStream(out), Flush(out), SendStanza(out)}
    BY <1>3 DEF AppOpens, AppFlushes, AppSends
  <2>2. /\ Keeps(said, out, OpenStream(out)) /\ Keeps(said, out, Flush(out))
        /\ Keeps(said, out, SendStanza(out))
    BY <1>0, OpenKeeps, FlushKeeps, SendKeeps
  <2>. QED
    BY <1>2, <2>1, <2>2
<1>4. CASE AppCloses
  <2>1. /\ link = "up" /\ said' = said /\ agent' = agent /\ out' = CloseStream(out)
        /\ out.state = "INIT" => link' = "left"
    BY <1>4 DEF AppCloses
  <2>2. out.state # "INIT" => Keeps(said, out, out')
    BY <1>0, <2>1, CloseKeeps
  <2>. QED
    BY <1>2, <2>1, <2>2 DEF NotDone
<1>5. CASE BadData \/ (PeerDown /\ ~ agent)
  <2>1. /\ link = "up" /\ said' = said /\ agent' = agent
        /\ out' \in {out, Complain(out)}
    BY <1>5 DEF BadData, PeerDown
  <2>2. Keeps(said, out, out) /\ Keeps(said, out, Complain(out))
    BY <1>0, ComplainKeeps DEF Keeps
  <2>. QED
    BY <1>2, <2>1, <2>2
<1>6. CASE (PeerDown /\ agent) \/ AsyncError \/ Connect
  <2>1. agent /\ agent' = agent
    BY <1>6 DEF PeerDown, AsyncError, Connect
  <2>. QED
    BY <2>1 DEF NotDone
<1>7. CASE StartTag \/ EndTag \/ Others \/ UNCHANGED vars
  <2>1. link' = link /\ out' = out /\ said' = said /\ agent' = agent
    BY <1>7 DEF StartTag, EndTag, Others, vars
  <2>. QED
    BY <2>1 DEF NotDone
<1>. QED
  BY <1>1, <1>3, <1>4, <1>5, <1>6, <1>7 DEF Next

LEMMA LastWordWaits ==
  ASSUME SpeakType, SpeakInv, NotDone
  PROVE  HasLastWord
<1>. SUFFICES ASSUME link # "left", ~ agent, out.state = "CLOSING", ~ out.gap, out.pend = <<>>
              PROVE  FALSE
  BY DEF HasLastWord
<1>1. link = "up"
  BY DEF SpeakType, SpeakInv
<1>2. At(said, out) = "end" /\ out.outbuf = <<>>
  BY <1>1 DEF SpeakInv, Phase
<1>3. At(said, out) = said
  <2>1. out.pend \o out.outbuf = <<>>
    BY <1>2, NoPieces, ConcatEmptySeq
  <2>. QED
    BY <2>1, NothingRead DEF At, SpeakType
<1>. QED
  BY <1>1, <1>2, <1>3 DEF NotDone

(***************************************************************************)
(* The tags that are heard.                                                *)
(***************************************************************************)
HearType ==
  /\ agent \in BOOLEAN /\ conn \in 0..MaxConn /\ full \in Shortages
  /\ parser \in {"open", "done", "broken"}
  /\ level \in 0..MaxTag
  /\ depth \in 0..MaxTag
  /\ stack \in Seq(Tags) /\ presult \in Tags
  /\ heard \in 0..MaxTag /\ current \in Tags
  /\ stanza \in [got : Tags, due : Tags]
  /\ torn \in BOOLEAN

InStack(s) == UNION {s[i] : i \in 1..Len(s)}

\* Unless a stanza was torn the builder has the open tags of the stanza that is being
\* received, and no finished one, and together they are all its tags so far.
BuilderInv ==
  /\ Len(stack) = (IF depth > 1 THEN depth - 1 ELSE 0)
  /\ presult = {}
  /\ depth > 1 => InStack(stack) = current
  /\ StanzaWhole

HearInv ==
  /\ depth = level
  /\ level <= heard
  /\ depth - 1 <= Len(stack)
  /\ ~ torn => BuilderInv

LEMMA HearInit ==
  ASSUME Init
  PROVE  HearType /\ HearInv
<1>1. /\ stack = <<>> /\ Len(<<>>) = 0 /\ <<>> \in Seq(Tags) /\ depth = 0 /\ level = 0
      /\ heard = 0 /\ ~ torn /\ presult = {} /\ current = {} /\ conn \in {0, 1}
      /\ stanza = [got |-> {}, due |-> {}]
  BY EmptySeq DEF Init
<1>2. HearType
  <2>1. {} \in Tags /\ agent \in BOOLEAN /\ parser = "open" /\ full \in Shortages
    BY DEF Init, Tags
  <2>2. 0 \in 0..MaxTag /\ conn \in 0..MaxConn
    BY <1>1, StreamAssumption
  <2>3. stanza \in [got : Tags, due : Tags]
    BY <1>1, <2>1
  <2>4. stack \in Seq(Tags) /\ presult \in Tags /\ current \in Tags /\ torn \in BOOLEAN
    BY <1>1, <2>1 DEF Init
  <2>. QED
    BY <1>1, <2>1, <2>2, <2>3, <2>4 DEF HearType
<1>. QED
  BY <1>1, <1>2 DEF HearInv, BuilderInv, StanzaWhole

\* The builder's stack after the end of a tag: the tag's tags go to the one around it.
LEMMA MergedStack ==
  ASSUME stack \in Seq(Tags), Len(stack) >= 1
  PROVE  /\ Merged \in Seq(Tags) /\ Len(Merged) = Len(stack) - 1
         /\ Len(stack) >= 2 => InStack(Merged) = InStack(stack)
<1>. DEFINE n == Len(stack)
            rest == Front(stack)
            top == Last(stack)
            m == n - 1
<1>1. n \in Nat /\ n >= 1 /\ m \in Nat /\ m + 1 = n
  BY LenProperties
<1>2. \A i \in 1..n : stack[i] \in Tags
  BY ElementOfSeq
<1>3. top = stack[n] /\ top \in Tags
  BY <1>1, <1>2 DEF Last
<1>4. rest = SubSeq(stack, 1, m)
  BY DEF Front
<1>5. rest \in Seq(Tags) /\ Len(rest) = m /\ \A i \in 1..m : rest[i] = stack[i]
  <2>1. \A i \in 1..m : stack[i] \in Tags
    BY <1>1, <1>2
  <2>2. /\ SubSeq(stack, 1, m) \in Seq(Tags)
        /\ Len(SubSeq(stack, 1, m)) = IF 1 <= m THEN m - 1 + 1 ELSE 0
        /\ \A i \in 1 .. (m - 1 + 1) : SubSeq(stack, 1, m)[i] = stack[1 + i - 1]
    BY <1>1, <2>1, SubSeqProperties
  <2>. QED
    BY <1>1, <1>4, <2>2
<1>6. Merged = IF rest = <<>> THEN <<>> ELSE [rest EXCEPT ![Len(rest)] = rest[Len(rest)] \cup top]
  BY DEF Merged
<1>7. CASE rest = <<>>
  <2>1. Merged = <<>>
    BY <1>6, <1>7
  <2>2. <<>> \in Seq(Tags) /\ Len(<<>>) = 0
    BY EmptySeq
  <2>3. Len(rest) = 0
    BY <1>7, <2>2
  <2>. HIDE DEF n, m, rest, top
  <2>4. Merged \in Seq(Tags) /\ Len(Merged) = m /\ m = 0 /\ n = 1
    BY <1>1, <1>5, <2>1, <2>2, <2>3
  <2>. QED
    BY <1>1, <2>4 DEF m, n
<1>8. CASE rest # <<>>
  <2>. HIDE DEF n, m, rest, top
  <2>1. m # 0
    BY <1>5, <1>8, EmptySeq
  <2>2. m \in 1..m /\ m \in 1..n /\ rest[m] = stack[m] /\ stack[m] \in Tags
    BY <1>1, <1>2, <1>5, <2>1
  <2>3. Merged = [rest EXCEPT ![m] = stack[m] \cup top]
    BY <1>5, <1>6, <1>8, <2>2
  <2>4. stack[m] \cup top \in Tags
    BY <1>3, <2>2 DEF Tags
  <2>5. /\ Merged \in Seq(Tags) /\ Len(Merged) = m
        /\ \A i \in 1..m : Merged[i] = IF i = m THEN stack[m] \cup top ELSE stack[i]
    BY <1>5, <2>2, <2>3, <2>4, ExceptSeq
  <2>6. InStack(Merged) = InStack(stack)
    <3>1. ASSUME NEW x, x \in InStack(Merged) PROVE x \in InStack(stack)
      <4>1. PICK i \in 1..m : x \in Merged[i]
        BY <2>5, <3>1 DEF InStack
      <4>2. x \in stack[i] \/ x \in stack[n]
        BY <1>3, <2>5, <4>1
      <4>3. i \in 1..n /\ n \in 1..n
        BY <1>1
      <4>. QED
        BY <4>2, <4>3 DEF InStack, n
    <3>2. ASSUME NEW x, x \in InStack(stack) PROVE x \in InStack(Merged)
      <4>1. PICK i \in 1..n : x \in stack[i]
        BY <3>2 DEF InStack, n
      <4>2. CASE i \in 1..m
        BY <2>5, <4>1, <4>2 DEF InStack
      <4>3. CASE i = n
        <5>1. x \in Merged[m]
          BY <1>3, <2>2, <2>5, <4>1, <4>3
        <5>. QED
          BY <2>2, <2>5, <5>1 DEF InStack
      <4>4. i \in 1..m \/ i = n
        BY <1>1
      <4>. QED
        BY <4>2, <4>3, <4>4
    <3>. QED
      BY <3>1, <3>2
  <2>. QED
    BY <2>5, <2>6 DEF m, n
<1>. QED
  BY <1>7, <1>8

LEMMA StartHears ==
  ASSUME HearType, HearInv, StartTag
  PROVE  HearType' /\ HearInv'
<1>. DEFINE n == heard + 1
<1>1. /\ heard \in Nat /\ level \in Nat /\ depth \in Nat /\ heard < MaxTag
      /\ heard <= MaxTag /\ depth = level /\ level <= heard /\ MaxTag \in Nat
      /\ Len(stack) \in Nat /\ stack \in Seq(Tags) /\ depth - 1 <= Len(stack)
  BY LenProperties, StreamAssumption DEF HearType, HearInv, StartTag
<1>2. /\ heard' = n /\ level' = level + 1 /\ depth' = depth + 1
      /\ stack' = IF depth = 0 THEN stack ELSE Append(stack, {n})
      /\ current' = IF level = 0 THEN {} ELSE IF level = 1 THEN {n} ELSE current \cup {n}
      /\ agent' = agent /\ conn' = conn /\ parser' = parser /\ presult' = presult
      /\ stanza' = stanza /\ torn' = torn /\ full' = full
  BY DEF StartTag
<1>3. n \in 1..MaxTag /\ {n} \in Tags /\ {} \in Tags
  BY <1>1 DEF Tags
<1>. HIDE DEF n
<1>4. /\ Append(stack, {n}) \in Seq(Tags) /\ Len(Append(stack, {n})) = Len(stack) + 1
      /\ \A i \in 1..Len(stack) : Append(stack, {n})[i] = stack[i]
      /\ Append(stack, {n})[Len(stack) + 1] = {n}
  BY <1>1, <1>3, AppendProperties
<1>5. current' \in Tags
  <2>1. current \in Tags
    BY DEF HearType
  <2>2. current \cup {n} \in Tags
    BY <1>3, <2>1 DEF Tags
  <2>. QED
    BY <1>2, <1>3, <2>2
<1>6. HearType'
  <2>1. stack' \in Seq(Tags)
    BY <1>1, <1>2, <1>4
  <2>2. heard' \in 0..MaxTag /\ level' \in 0..MaxTag /\ depth' \in 0..MaxTag
    BY <1>1, <1>2, <1>3 DEF n
  <2>. QED
    BY <1>2, <1>5, <2>1, <2>2 DEF HearType
<1>7. depth' = level' /\ level' <= heard' /\ depth' - 1 <= Len(stack')
  BY <1>1, <1>2, <1>4 DEF n
<1>8. ASSUME ~ torn' PROVE BuilderInv'
  <2>1. BuilderInv
    BY <1>2, <1>8 DEF HearInv
  <2>2. Len(stack') = (IF depth' > 1 THEN depth' - 1 ELSE 0)
    BY <1>1, <1>2, <1>4, <2>1 DEF BuilderInv
  <2>3. ASSUME depth' > 1 PROVE InStack(stack') = current'
    <3>1. depth # 0 /\ stack' = Append(stack, {n})
      BY <1>1, <1>2, <2>3
    <3>2. InStack(stack') = InStack(stack) \cup {n}
      <4>1. \A i \in 1..(Len(stack) + 1) : i \in 1..Len(stack) \/ i = Len(stack) + 1
        BY <1>1
      <4>2. \A i \in 1..Len(stack) : i \in 1..(Len(stack) + 1)
        BY <1>1
      <4>3. Len(stack) + 1 \in 1..(Len(stack) + 1)
        BY <1>1
      <4>4. \A x : x \in InStack(stack') => x \in InStack(stack) \cup {n}
        BY <1>4, <3>1, <4>1 DEF InStack
      <4>5. \A x : x \in InStack(stack) \cup {n} => x \in InStack(stack')
        BY <1>4, <3>1, <4>2, <4>3 DEF InStack
      <4>. QED
        BY <4>4, <4>5
    <3>3. CASE depth = 1
      <4>1. Len(stack) = 0 /\ current' = {n}
        BY <1>1, <1>2, <2>1, <3>3 DEF BuilderInv
      <4>2. InStack(stack) = {}
        BY <4>1 DEF InStack
      <4>. QED
        BY <3>2, <4>1, <4>2
    <3>4. CASE depth > 1
      <4>1. InStack(stack) = current
        BY <2>1, <3>4 DEF BuilderInv
      <4>2. current' = current \cup {n}
        BY <1>1, <1>2, <3>4
      <4>. QED
        BY <3>2, <4>1, <4>2
    <3>. QED
      BY <1>1, <3>1, <3>3, <3>4
  <2>. QED
    BY <1>2, <2>1, <2>2, <2>3 DEF BuilderInv, StanzaWhole
<1>. QED
  BY <1>6, <1>7, <1>8 DEF HearInv

LEMMA EndHears ==
  ASSUME HearType, HearInv, EndTag
  PROVE  HearType' /\ HearInv'
<1>1. /\ heard \in Nat /\ level \in Nat /\ depth \in Nat /\ level > 0
      /\ heard <= MaxTag /\ depth = level /\ level <= heard /\ MaxTag \in Nat
      /\ Len(stack) \in Nat /\ stack \in Seq(Tags) /\ depth - 1 <= Len(stack)
      /\ presult \in Tags /\ current \in Tags /\ {} \in Tags
  BY LenProperties, StreamAssumption DEF HearType, HearInv, EndTag, Tags
<1>2. /\ level' = level - 1 /\ depth' = depth - 1
      /\ parser' \in {"open", "done"}
      /\ agent' = agent /\ conn' = conn /\ heard' = heard /\ current' = current /\ torn' = torn
      /\ full' = full
  BY DEF EndTag
<1>3. /\ level' \in 0..MaxTag /\ depth' \in 0..MaxTag
      /\ depth' = level' /\ level' <= heard'
  BY <1>1, <1>2
<1>4. CASE depth = 1 /\ UNCHANGED <<stack, presult, stanza>>
  <2>1. stack' = stack /\ presult' = presult /\ stanza' = stanza
    BY <1>4
  <2>2. HearType'
    BY <1>2, <1>3, <2>1 DEF HearType
  <2>3. depth' - 1 <= Len(stack')
    BY <1>1, <1>2, <1>4, <2>1
  <2>4. ASSUME ~ torn' PROVE BuilderInv'
    <3>1. BuilderInv
      BY <1>2, <2>4 DEF HearInv
    <3>2. Len(stack') = (IF depth' > 1 THEN depth' - 1 ELSE 0) /\ ~ (depth' > 1)
      BY <1>1, <1>2, <1>4, <2>1, <3>1 DEF BuilderInv
    <3>. QED
      BY <2>1, <3>1, <3>2 DEF BuilderInv, StanzaWhole
  <2>. QED
    BY <1>3, <2>2, <2>3, <2>4 DEF HearInv
<1>5. ASSUME depth >= 2
      PROVE  /\ Merged \in Seq(Tags) /\ Len(Merged) = Len(stack) - 1
             /\ Len(stack) >= 2 => InStack(Merged) = InStack(stack)
             /\ Len(stack) >= 1 /\ stack[1] \in Tags /\ Result \in Tags
  <2>1. Len(stack) >= 1
    BY <1>1, <1>5
  <2>2. stack[1] \in Tags
    BY <1>1, <2>1, ElementOfSeq
  <2>3. Result \in Tags
    BY <1>1, <2>2 DEF Result
  <2>. QED
    BY <1>1, <2>1, <2>2, <2>3, MergedStack
<1>6. CASE depth = 2 /\ EndStanza
  <2>1. /\ stack' = Merged /\ presult' = {} /\ stanza' = [got |-> Result, due |-> current]
        /\ depth = 2
    BY <1>6 DEF EndStanza
  <2>2. /\ Merged \in Seq(Tags) /\ Len(Merged) = Len(stack) - 1
        /\ Len(stack) >= 1 /\ stack[1] \in Tags /\ Result \in Tags
    BY <1>1, <1>5, <2>1
  <2>3. HearType'
    BY <1>1, <1>2, <1>3, <2>1, <2>2 DEF HearType
  <2>4. depth' - 1 <= Len(stack')
    BY <1>1, <1>2, <2>1, <2>2
  <2>5. ASSUME ~ torn' PROVE BuilderInv'
    <3>1. BuilderInv
      BY <1>2, <2>5 DEF HearInv
    <3>2. Len(stack) = 1 /\ InStack(stack) = current
      BY <2>1, <3>1 DEF BuilderInv
    <3>3. InStack(stack) = stack[1]
      <4>1. \A i : i \in 1..Len(stack) <=> i = 1
        BY <3>2
      <4>. QED
        BY <4>1 DEF InStack
    <3>4. Result = current
      BY <3>2, <3>3 DEF Result
    <3>5. Len(stack') = 0 /\ depth' = 1
      BY <1>2, <2>1, <2>2, <3>2
    <3>. QED
      BY <2>1, <3>4, <3>5 DEF BuilderInv, StanzaWhole
  <2>. QED
    BY <1>3, <2>3, <2>4, <2>5 DEF HearInv
<1>7. CASE depth > 2 /\ EndInnerTag
  <2>1. /\ stack' = Merged /\ presult' = Result /\ stanza' = stanza /\ depth > 2
    BY <1>7 DEF EndInnerTag
  <2>2. /\ Merged \in Seq(Tags) /\ Len(Merged) = Len(stack) - 1
        /\ Len(stack) >= 2 => InStack(Merged) = InStack(stack)
        /\ Len(stack) >= 1 /\ stack[1] \in Tags /\ Result \in Tags
    BY <1>1, <1>5, <2>1
  <2>3. HearType'
    BY <1>2, <1>3, <2>1, <2>2 DEF HearType
  <2>4. depth' - 1 <= Len(stack')
    BY <1>1, <1>2, <2>1, <2>2
  <2>5. ASSUME ~ torn' PROVE BuilderInv'
    <3>1. BuilderInv
      BY <1>2, <2>5 DEF HearInv
    <3>2. Len(stack) = depth - 1 /\ InStack(stack) = current /\ presult = {}
      BY <1>1, <2>1, <3>1 DEF BuilderInv
    <3>3. Len(stack) >= 2 /\ Len(stack) # 1
      BY <1>1, <2>1, <3>2
    <3>4. Result = {}
      BY <3>2, <3>3 DEF Result
    <3>5. Len(stack') = depth' - 1 /\ depth' > 1
      BY <1>1, <1>2, <2>1, <2>2, <3>2
    <3>6. InStack(stack') = current'
      BY <1>2, <2>1, <2>2, <3>2, <3>3
    <3>. QED
      BY <2>1, <3>1, <3>4, <3>5, <3>6 DEF BuilderInv, StanzaWhole
  <2>. QED
    BY <1>3, <2>3, <2>4, <2>5 DEF HearInv
<1>. QED
  BY <1>4, <1>6, <1>7 DEF EndTag

LEMMA ReconnectHears ==
  ASSUME HearType, HearInv, NEW o, Reconnect(o), agent' = agent, conn' = conn,
         heard' = heard, current' = current, stanza' = stanza, full' = full
  PROVE  HearType' /\ HearInv'
<1>1. /\ heard \in Nat /\ level \in Nat /\ depth = level /\ MaxTag \in Nat /\ torn \in BOOLEAN
      /\ Len(stack) \in Nat /\ stack \in Seq(Tags) /\ {} \in Tags
      /\ <<>> \in Seq(Tags) /\ Len(<<>>) = 0
  BY LenProperties, EmptySeq, StreamAssumption DEF HearType, HearInv, Tags
<1>. DEFINE t == torn \/ level > 1
<1>2. /\ parser' = "open" /\ level' = 0 /\ depth' = 0 /\ presult' = {}
      /\ stack' = IF presult # {} THEN <<>> ELSE stack
      /\ torn' = t
  BY DEF Reconnect, ResetBuilder
<1>3. t \in BOOLEAN /\ (~ t => ~ torn /\ ~ (level > 1))
  BY <1>1
<1>. HIDE DEF t
<1>4. stack' \in Seq(Tags) /\ Len(stack') \in Nat
  BY <1>1, <1>2
<1>5. HearType'
  BY <1>1, <1>2, <1>3, <1>4 DEF HearType
<1>6. ASSUME ~ torn' PROVE BuilderInv'
  <2>1. BuilderInv /\ ~ (level > 1)
    BY <1>2, <1>3, <1>6 DEF HearInv
  <2>2. Len(stack) = 0
    BY <1>1, <2>1 DEF BuilderInv
  <2>3. Len(stack') = 0
    BY <1>1, <1>2, <2>2
  <2>. QED
    BY <1>2, <2>1, <2>3 DEF BuilderInv, StanzaWhole
<1>7. depth' = level' /\ level' <= heard' /\ depth' - 1 <= Len(stack')
  BY <1>1, <1>2, <1>4
<1>. QED
  BY <1>5, <1>6, <1>7 DEF HearInv

LEMMA HearNext ==
  ASSUME HearType, HearInv, [Next]_vars
  PROVE  HearType' /\ HearInv'
<1>1. CASE StartTag
  BY <1>1, StartHears
<1>2. CASE EndTag
  BY <1>2, EndHears
<1>3. CASE PeerDown /\ agent
  <2>1. PICK o : Reconnect(o)
    BY <1>3 DEF PeerDown
  <2>. QED
    BY <1>3, <2>1, ReconnectHears DEF PeerDown
<1>4. CASE AsyncError
  BY <1>4, ReconnectHears DEF AsyncError
<1>5. CASE \/ AppOpens \/ AppFlushes \/ AppSends \/ AppCloses \/ Write \/ BadData
           \/ (PeerDown /\ ~ agent) \/ Connect \/ Others \/ UNCHANGED vars
  <2>. DEFINE same == /\ level' = level /\ depth' = depth /\ stack' = stack
                      /\ presult' = presult /\ heard' = heard /\ current' = current
                      /\ stanza' = stanza /\ torn' = torn /\ agent' = agent
                      /\ (conn' = conn \/ (conn' = conn + 1 /\ conn < MaxConn))
                      /\ (full' = full \/ full' \in Shortages)
                      /\ (parser' = parser \/ parser' = "broken")
  <2>1. ASSUME AppOpens \/ AppFlushes \/ AppSends PROVE same
    BY <2>1 DEF AppOpens, AppFlushes, AppSends, hearing
  <2>2. ASSUME AppCloses \/ Write PROVE same
    BY <2>2 DEF AppCloses, Write, hearing
  <2>3. ASSUME BadData PROVE same
    BY <2>3 DEF BadData
  <2>4. ASSUME PeerDown /\ ~ agent PROVE same
    BY <2>4 DEF PeerDown
  <2>5. ASSUME Connect \/ Others \/ UNCHANGED vars PROVE same
    BY <2>5 DEF Connect, Others, vars, hearing
  <2>6. same
    BY <1>5, <2>1, <2>2, <2>3, <2>4, <2>5
  <2>7. conn' \in 0..MaxConn
    BY <2>6, StreamAssumption DEF HearType
  <2>. QED
    BY <2>6, <2>7 DEF HearType, HearInv, BuilderInv, StanzaWhole
<1>. QED
  BY <1>1, <1>2, <1>3, <1>4, <1>5 DEF Next

(***************************************************************************)
(* The theorems.                                                           *)
(***************************************************************************)
LEMMA TypeParts ==
  ASSUME SpeakType, HearType
  PROVE  TypeOK
BY DEF SpeakType, SpeakerOK, Said, HearType, TypeOK

\* The depth of a control stream is that of the parser's document on every connection,
\* and unless a connection was lost in the middle of a stanza its builder has exactly
\* the open tags of the stanza (onStartElement, onEndElement, ControlAgent::reconnect).
THEOREM DepthCorrect == Spec => []DepthRight
<1>1. Init => SpeakType /\ SpeakInv /\ HearType /\ HearInv
  BY SpeakInit, HearInit
<1>2. SpeakType /\ SpeakInv /\ HearType /\ HearInv /\ [Next]_vars
        => (SpeakType /\ SpeakInv /\ HearType /\ HearInv)'
  BY SpeakNext, HearNext
<1>3. SpeakType /\ SpeakInv /\ HearType /\ HearInv => DepthRight
  BY TypeParts DEF DepthRight, HearInv, BuilderInv
<1>. QED
  BY <1>1, <1>2, <1>3, PTL DEF Spec

\* Every stanza that onStanza gets has all of its tags and no others, unless a
\* connection was lost in the middle of a stanza: the stream's tag is not given to the
\* builder, every tag of a stanza is, and the result is taken when the stanza ends.
THEOREM StanzaCorrect == Spec => []StanzaWholeUnlessTorn
<1>1. Init => HearType /\ HearInv
  BY HearInit
<1>2. HearType /\ HearInv /\ [Next]_vars => (HearType /\ HearInv)'
  BY HearNext
<1>3. HearType /\ HearInv => StanzaWholeUnlessTorn
  BY DEF HearInv, BuilderInv, StanzaWholeUnlessTorn
<1>. QED
  BY <1>1, <1>2, <1>3, PTL DEF Spec

\* On every connection the peer is sent a part of one document, as long as the writer
\* has lost no piece and no stanza went past one: declaration, start tag, stanzas and
\* end, each once and in this order, for every size of the writer's buffer and of the
\* quota and whatever the pool refuses, whoever opens, flushes, sends, complains and
\* closes in whatever order.
THEOREM DocumentCorrect == Spec => []WellFormed
<1>1. Init => SpeakType /\ SpeakInv
  BY SpeakInit
<1>2. SpeakType /\ SpeakInv /\ [Next]_vars => (SpeakType /\ SpeakInv)'
  BY SpeakNext
<1>3. SpeakType /\ SpeakInv => WellFormed
  BY DEF SpeakInv
<1>. QED
  BY <1>1, <1>2, <1>3, PTL DEF Spec

\* Only refusals hold a server's stream up: one that is closing and has not left has its
\* last word in the descriptor's buffer, so that onEmpty is still to come (closeStream,
\* onEmpty), unless the writer or a put has lost something.
THEOREM LastWordCorrect == Spec => []HasLastWord
<1>1. Init => SpeakType /\ SpeakInv /\ NotDone
  <2>1. Init => said = "start"
    BY DEF Init
  <2>. QED
    BY <2>1, SpeakInit DEF NotDone
<1>2. SpeakType /\ SpeakInv /\ NotDone /\ [Next]_vars => (SpeakType /\ SpeakInv /\ NotDone)'
  BY SpeakNext, NotDoneNext
<1>3. SpeakType /\ SpeakInv /\ NotDone => HasLastWord
  BY LastWordWaits
<1>. QED
  BY <1>1, <1>2, <1>3, PTL DEF Spec
=============================================================================
