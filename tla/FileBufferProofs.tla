-------------------------- MODULE FileBufferProofs --------------------------
(***************************************************************************)
(* Theorems about FileBuffer, for every block size, memory, data and       *)
(* number of descriptors: each block is in exactly one place, free_count   *)
(* is the length of the free list, a chain has the blocks its bytes need,  *)
(* and the buffers implement the byte queues of ByteStream.  And about     *)
(* BlockChain: its pointers are sound, and it implements FileBuffer.       *)
(***************************************************************************)
EXTENDS FileBuffer, SequenceTheorems, FiniteSetTheorems, TLAPS

(***************************************************************************)
(* Division, and the number of blocks that hold n bytes.                   *)
(***************************************************************************)
\* Quotient and remainder.
LEMMA DivMod ==
  ASSUME NEW a \in Nat, NEW b \in Nat \ {0}
  PROVE  a \div b \in Nat /\ a % b \in 0..(b - 1) /\ a = b * (a \div b) + (a % b)
OBVIOUS

\* They are unique.
LEMMA DivUnique ==
  ASSUME NEW a \in Nat, NEW b \in Nat \ {0}, NEW q \in Nat, NEW r \in 0..(b - 1),
         a = b * q + r
  PROVE  a \div b = q /\ a % b = r
OBVIOUS

\* Whole blocks more change the quotient only.
LEMMA DivShift ==
  ASSUME NEW a \in Nat, NEW b \in Nat \ {0}, NEW k \in Nat
  PROVE  (a + b * k) \div b = k + (a \div b) /\ (a + b * k) % b = a % b
<1>. DEFINE q == a \div b  r == a % b
<1>1. q \in Nat /\ r \in 0..(b - 1) /\ a = b * q + r
  BY DivMod
<1>. HIDE DEF q, r
<1>2. b * k \in Nat /\ b * q \in Nat /\ b * (q + k) = b * q + b * k
  BY <1>1
<1>3. a + b * k = b * (q + k) + r /\ q + k \in Nat /\ a + b * k \in Nat
  BY <1>1, <1>2
<1>4. (a + b * k) \div b = q + k /\ (a + b * k) % b = r
  BY <1>1, <1>3, DivUnique
<1>. QED
  BY <1>1, <1>4 DEF q, r

\* BlocksFor(n) blocks hold n bytes, and no fewer do.
LEMMA BlocksHold ==
  ASSUME NEW n \in Nat
  PROVE  /\ BlocksFor(n) \in Nat
         /\ BlockSize * BlocksFor(n) \in Nat
         /\ n <= BlockSize * BlocksFor(n)
         /\ BlockSize * BlocksFor(n) < n + BlockSize
<1>. DEFINE a == n + BlockSize - 1
<1>1. a \in Nat /\ BlockSize \in Nat \ {0}
  BY BufferAssumption
<1>2. a \div BlockSize \in Nat /\ a = BlockSize * (a \div BlockSize) + (a % BlockSize)
      /\ a % BlockSize \in 0..(BlockSize - 1)
  BY <1>1, DivMod
<1>3. BlockSize * (a \div BlockSize) \in Nat
  BY <1>1, <1>2
<1>. QED
  BY <1>1, <1>2, <1>3 DEF BlocksFor

\* That number is unique.
LEMMA BlocksUnique ==
  ASSUME NEW n \in Nat, NEW k \in Nat,
         n <= BlockSize * k, BlockSize * k < n + BlockSize
  PROVE  BlocksFor(n) = k
<1>1. BlockSize \in Nat \ {0} /\ BlockSize * k \in Nat
  BY BufferAssumption
<1>. DEFINE r == n + BlockSize - 1 - BlockSize * k
<1>2. r \in 0..(BlockSize - 1) /\ n + BlockSize - 1 = BlockSize * k + r
      /\ n + BlockSize - 1 \in Nat
  BY <1>1
<1>. QED
  BY <1>1, <1>2, DivUnique DEF BlocksFor

\* No bytes need no blocks.
LEMMA BlocksForNone == BlocksFor(0) = 0
<1>1. BlockSize \in Nat \ {0} /\ BlockSize * 0 = 0
  BY BufferAssumption
<1>. QED
  BY <1>1, BlocksUnique

(***************************************************************************)
(* Sequences without repetition.                                           *)
(***************************************************************************)
\* The elements of a sequence.
LEMMA SeqRange ==
  ASSUME NEW S, NEW s \in Seq(S)
  PROVE  /\ Range(s) \subseteq S
         /\ \A x : x \in Range(s) <=> \E i \in 1..Len(s) : s[i] = x
         /\ IsInjective(s) <=> \A i, j \in 1..Len(s) : s[i] = s[j] => i = j
BY LenProperties DEF Range, IsInjective

\* The elements of a concatenation.
LEMMA RangeConcat ==
  ASSUME NEW S, NEW s \in Seq(S), NEW t \in Seq(S)
  PROVE  Range(s \o t) = Range(s) \cup Range(t)
<1>1. /\ s \o t \in Seq(S) /\ Len(s \o t) = Len(s) + Len(t)
      /\ Len(s) \in Nat /\ Len(t) \in Nat
      /\ \A i \in 1 .. Len(s) + Len(t) :
           (s \o t)[i] = IF i <= Len(s) THEN s[i] ELSE t[i - Len(s)]
  BY ConcatProperties, LenProperties
<1>2. ASSUME NEW x \in Range(s) PROVE x \in Range(s \o t)
  <2>1. PICK i \in 1..Len(s) : s[i] = x
    BY <1>2, SeqRange
  <2>2. i \in 1..(Len(s) + Len(t)) /\ (s \o t)[i] = x
    BY <1>1, <2>1
  <2>. QED
    BY <1>1, <2>2, SeqRange
<1>3. ASSUME NEW x \in Range(t) PROVE x \in Range(s \o t)
  <2>1. PICK i \in 1..Len(t) : t[i] = x
    BY <1>3, SeqRange
  <2>2. Len(s) + i \in 1..(Len(s) + Len(t)) /\ (s \o t)[Len(s) + i] = x
    BY <1>1, <2>1
  <2>. QED
    BY <1>1, <2>2, SeqRange
<1>4. ASSUME NEW x \in Range(s \o t) PROVE x \in Range(s) \cup Range(t)
  <2>0. PICK i \in DOMAIN (s \o t) : (s \o t)[i] = x
    BY <1>4 DEF Range
  <2>1. i \in 1..(Len(s) + Len(t)) /\ (s \o t)[i] = x
    BY <1>1, <2>0, LenProperties
  <2>2. CASE i <= Len(s)
    <3>1. i \in 1..Len(s) /\ s[i] = x
      BY <1>1, <2>1, <2>2
    <3>. QED
      BY <3>1, SeqRange
  <2>3. CASE i > Len(s)
    <3>1. i - Len(s) \in 1..Len(t) /\ t[i - Len(s)] = x
      BY <1>1, <2>1, <2>3
    <3>. QED
      BY <3>1, SeqRange
  <2>. QED
    BY <1>1, <2>1, <2>2, <2>3
<1>. QED
  BY <1>2, <1>3, <1>4

\* Two sequences without repetition and without a common element.
LEMMA InjectiveConcat ==
  ASSUME NEW S, NEW s \in Seq(S), NEW t \in Seq(S),
         IsInjective(s), IsInjective(t), Range(s) \cap Range(t) = {}
  PROVE  IsInjective(s \o t)
<1>1. /\ s \o t \in Seq(S) /\ Len(s \o t) = Len(s) + Len(t)
      /\ Len(s) \in Nat /\ Len(t) \in Nat
      /\ \A i \in 1 .. Len(s) + Len(t) :
           (s \o t)[i] = IF i <= Len(s) THEN s[i] ELSE t[i - Len(s)]
  BY ConcatProperties, LenProperties
<1>2. SUFFICES ASSUME NEW i \in 1..(Len(s) + Len(t)), NEW j \in 1..(Len(s) + Len(t)),
                      (s \o t)[i] = (s \o t)[j]
               PROVE  i = j
  BY <1>1, SeqRange
<1>3. \A m \in 1..(Len(s) + Len(t)) :
        /\ m <= Len(s) => m \in 1..Len(s) /\ (s \o t)[m] = s[m] /\ s[m] \in Range(s)
        /\ m > Len(s) => /\ m - Len(s) \in 1..Len(t) /\ (s \o t)[m] = t[m - Len(s)]
                         /\ t[m - Len(s)] \in Range(t)
  BY <1>1, SeqRange
<1>4. i <= Len(s) <=> j <= Len(s)
  BY <1>1, <1>2, <1>3
<1>5. CASE i <= Len(s)
  BY <1>2, <1>3, <1>4, <1>5, SeqRange
<1>6. CASE i > Len(s)
  <2>1. i - Len(s) = j - Len(s)
    BY <1>1, <1>2, <1>3, <1>4, <1>6, SeqRange
  <2>. QED
    BY <1>1, <2>1
<1>. QED
  BY <1>1, <1>5, <1>6

\* A sequence cut in two: what the parts say of the whole.
LEMMA CutParts ==
  ASSUME NEW S, NEW s \in Seq(S), NEW n \in 0..Len(s), NEW a \in Seq(S), NEW b \in Seq(S),
         Len(a) = n, \A i \in 1..n : a[i] = s[i],
         Len(b) = Len(s) - n, \A i \in 1..(Len(s) - n) : b[i] = s[n + i]
  PROVE  /\ Range(a) \cup Range(b) = Range(s)
         /\ IsInjective(s) => /\ IsInjective(a) /\ IsInjective(b)
                              /\ Range(a) \cap Range(b) = {}
<1>1. Len(s) \in Nat /\ n \in Nat
  BY LenProperties
<1>2. Len(a) = n /\ \A i \in 1..n : a[i] = s[i]
  OBVIOUS
<1>3. Len(b) = Len(s) - n /\ \A i \in 1..(Len(s) - n) : b[i] = s[n + i]
  OBVIOUS
<1>4. \A i \in 1..(Len(s) - n) : n + i \in 1..Len(s)
  BY <1>1
<1>5. \A i \in 1..Len(s) : i \in 1..n \/ (i - n \in 1..(Len(s) - n) /\ s[i] = b[i - n])
  <2>. TAKE i \in 1..Len(s)
  <2>1. CASE i > n
    <3>1. i - n \in 1..(Len(s) - n) /\ n + (i - n) = i
      BY <1>1, <2>1
    <3>. QED
      BY <1>3, <3>1
  <2>. QED
    BY <1>1, <2>1
<1>6. Range(a) \cup Range(b) = Range(s)
  <2>1. ASSUME NEW x \in Range(a) PROVE x \in Range(s)
    <3>1. PICK i \in 1..n : a[i] = x
      BY <1>2, <2>1, SeqRange
    <3>2. i \in 1..Len(s) /\ s[i] = x
      BY <1>1, <1>2, <3>1
    <3>. QED
      BY <3>2, SeqRange
  <2>2. ASSUME NEW x \in Range(b) PROVE x \in Range(s)
    <3>1. PICK i \in 1..(Len(s) - n) : b[i] = x
      BY <1>3, <2>2, SeqRange
    <3>2. n + i \in 1..Len(s) /\ s[n + i] = x
      BY <1>3, <1>4, <3>1
    <3>. QED
      BY <3>2, SeqRange
  <2>3. ASSUME NEW x \in Range(s) PROVE x \in Range(a) \cup Range(b)
    <3>1. PICK i \in 1..Len(s) : s[i] = x
      BY <2>3, SeqRange
    <3>2. CASE i \in 1..n
      BY <1>2, <3>1, <3>2, SeqRange
    <3>3. CASE i - n \in 1..(Len(s) - n) /\ s[i] = b[i - n]
      <4>1. b[i - n] = x /\ i - n \in 1..Len(b)
        BY <1>3, <3>1, <3>3
      <4>. QED
        BY <1>3, <4>1, SeqRange
    <3>. QED
      BY <1>5, <3>2, <3>3
  <2>. QED
    BY <2>1, <2>2, <2>3
<1>7. ASSUME IsInjective(s)
      PROVE  IsInjective(a) /\ IsInjective(b) /\ Range(a) \cap Range(b) = {}
  <2>1. \A i, j \in 1..Len(s) : s[i] = s[j] => i = j
    BY <1>7, SeqRange
  <2>2. \A i, j \in 1..n : a[i] = a[j] => i = j
    <3>. TAKE i, j \in 1..n
    <3>. HAVE a[i] = a[j]
    <3>1. i \in 1..Len(s) /\ j \in 1..Len(s) /\ s[i] = s[j]
      BY <1>1, <1>2
    <3>. QED
      BY <2>1, <3>1
  <2>3. \A i, j \in 1..(Len(s) - n) : b[i] = b[j] => i = j
    <3>. TAKE i, j \in 1..(Len(s) - n)
    <3>. HAVE b[i] = b[j]
    <3>1. n + i = n + j
      BY <1>3, <1>4, <2>1, SMTT(30)
    <3>. QED
      BY <1>1, <3>1
  <2>4. ASSUME NEW x \in Range(a), x \in Range(b) PROVE FALSE
    <3>1. PICK i \in 1..n : a[i] = x
      BY <1>2, <2>4, SeqRange
    <3>2. PICK j \in 1..(Len(s) - n) : b[j] = x
      BY <1>3, <2>4, SeqRange
    <3>3. s[i] = s[n + j] /\ i \in 1..Len(s) /\ n + j \in 1..Len(s)
      BY <1>1, <1>2, <1>3, <1>4, <3>1, <3>2
    <3>4. i = n + j
      BY <2>1, <3>3
    <3>. QED
      BY <1>1, <3>4
  <2>5. IsInjective(a) /\ IsInjective(b)
    BY <1>2, <1>3, <2>2, <2>3, SeqRange
  <2>. QED
    BY <2>4, <2>5
<1>. QED
  BY <1>6, <1>7

\* a and b are s cut after its first n elements; u is s with t behind it.
IsCut(s, n, a, b) == a = SubSeq(s, 1, n) /\ b = SubSeq(s, n + 1, Len(s))
IsJoin(u, s, t) == u = s \o t

\* The two parts, and what they say of the whole.
LEMMA CutSeq ==
  ASSUME NEW S, NEW s \in Seq(S), NEW n \in 0..Len(s), NEW a, NEW b, IsCut(s, n, a, b)
  PROVE  /\ a \in Seq(S) /\ Len(a) = n /\ \A i \in 1..n : a[i] = s[i]
         /\ b \in Seq(S) /\ Len(b) = Len(s) - n
         /\ \A i \in 1..(Len(s) - n) : b[i] = s[n + i]
         /\ Range(a) \cup Range(b) = Range(s)
         /\ IsInjective(s) => /\ IsInjective(a) /\ IsInjective(b)
                              /\ Range(a) \cap Range(b) = {}
<1>1. Len(s) \in Nat /\ n \in Nat /\ \A i \in 1..Len(s) : s[i] \in S
  BY LenProperties, ElementOfSeq
<1>2. /\ a \in Seq(S) /\ Len(a) = n /\ \A i \in 1..n : a[i] = s[i]
  <2>1. \A i \in 1..n : s[i] \in S
    BY <1>1
  <2>. QED
    BY <1>1, <2>1, SubSeqProperties DEF IsCut
<1>3. /\ b \in Seq(S) /\ Len(b) = Len(s) - n
      /\ \A i \in 1..(Len(s) - n) : b[i] = s[n + i]
  <2>1. \A i \in (n + 1)..Len(s) : s[i] \in S
    BY <1>1
  <2>2. /\ b \in Seq(S) /\ Len(b) = IF n + 1 <= Len(s) THEN Len(s) - (n + 1) + 1 ELSE 0
        /\ \A i \in 1..(Len(s) - (n + 1) + 1) : b[i] = s[(n + 1) + i - 1]
    BY <1>1, <2>1, SubSeqProperties DEF IsCut
  <2>3. Len(b) = Len(s) - n
    BY <1>1, <2>2
  <2>4. \A i \in 1..(Len(s) - n) : b[i] = s[n + i]
    <3>. TAKE i \in 1..(Len(s) - n)
    <3>1. i \in 1..(Len(s) - (n + 1) + 1) /\ (n + 1) + i - 1 = n + i
      BY <1>1
    <3>. QED
      BY <2>2, <3>1
  <2>. QED
    BY <2>2, <2>3, <2>4
<1>4. /\ Range(a) \cup Range(b) = Range(s)
      /\ IsInjective(s) => /\ IsInjective(a) /\ IsInjective(b)
                           /\ Range(a) \cap Range(b) = {}
  BY <1>2, <1>3, CutParts
<1>. QED
  BY <1>2, <1>3, <1>4

\* Two sequences joined.
LEMMA JoinSeq ==
  ASSUME NEW S, NEW s \in Seq(S), NEW t \in Seq(S), NEW u, IsJoin(u, s, t)
  PROVE  /\ u \in Seq(S) /\ Len(u) = Len(s) + Len(t) /\ Len(s) \in Nat /\ Len(t) \in Nat
         /\ \A i \in 1..Len(s) : u[i] = s[i]
         /\ Range(u) = Range(s) \cup Range(t)
         /\ IsInjective(s) /\ IsInjective(t) /\ Range(s) \cap Range(t) = {} => IsInjective(u)
<1>1. /\ u \in Seq(S) /\ Len(u) = Len(s) + Len(t) /\ Len(s) \in Nat /\ Len(t) \in Nat
      /\ \A i \in 1 .. Len(s) + Len(t) : u[i] = IF i <= Len(s) THEN s[i] ELSE t[i - Len(s)]
  BY ConcatProperties, LenProperties DEF IsJoin
<1>2. \A i \in 1..Len(s) : u[i] = s[i]
  BY <1>1
<1>. QED
  BY <1>1, <1>2, RangeConcat, InjectiveConcat DEF IsJoin

\* A sequence reversed has the same elements.
LEMMA ReverseSeq ==
  ASSUME NEW S, NEW s \in Seq(S)
  PROVE  /\ Reverse(s) \in Seq(S) /\ Len(Reverse(s)) = Len(s)
         /\ Range(Reverse(s)) = Range(s)
         /\ IsInjective(s) => IsInjective(Reverse(s))
<1>. DEFINE n == Len(s)  m(i) == (n - i) + 1
<1>1. n \in Nat /\ \A i \in 1..n : s[i] \in S
  BY LenProperties, ElementOfSeq
<1>2. \A i \in 1..n : m(i) \in 1..n /\ m(m(i)) = i
  BY <1>1
<1>3. /\ Reverse(s) \in Seq(S) /\ Len(Reverse(s)) = n
      /\ \A i \in 1..n : Reverse(s)[i] = s[m(i)]
  BY <1>1, <1>2 DEF Reverse
<1>. HIDE DEF m
<1>4. Range(Reverse(s)) = Range(s)
  <2>1. ASSUME NEW x \in Range(s) PROVE x \in Range(Reverse(s))
    <3>1. PICK i \in 1..n : s[i] = x
      BY <2>1, SeqRange
    <3>2. m(i) \in 1..n /\ Reverse(s)[m(i)] = x
      BY <1>2, <1>3, <3>1
    <3>. QED
      BY <1>3, <3>2, SeqRange
  <2>2. ASSUME NEW x \in Range(Reverse(s)) PROVE x \in Range(s)
    <3>1. PICK i \in 1..n : Reverse(s)[i] = x
      BY <1>3, <2>2, SeqRange
    <3>2. m(i) \in 1..n /\ s[m(i)] = x
      BY <1>2, <1>3, <3>1
    <3>. QED
      BY <3>2, SeqRange
  <2>. QED
    BY <2>1, <2>2
<1>5. ASSUME IsInjective(s) PROVE IsInjective(Reverse(s))
  <2>1. \A i, j \in 1..n : Reverse(s)[i] = Reverse(s)[j] => m(i) = m(j)
    BY <1>2, <1>3, <1>5, SeqRange
  <2>2. \A i, j \in 1..n : Reverse(s)[i] = Reverse(s)[j] => i = j
    BY <1>2, <2>1
  <2>. QED
    BY <1>3, <2>2, SeqRange
<1>. QED
  BY <1>3, <1>4, <1>5

(***************************************************************************)
(* The blocks of a buffer.                                                 *)
(***************************************************************************)
\* The byte number p of n bytes is in one of the blocks that hold them.
LEMMA PlaceInside ==
  ASSUME NEW n \in Nat, NEW p \in Nat, p < n
  PROVE  1 + (p \div BlockSize) \in 1..BlocksFor(n) /\ CellAt(p) \in 0..(BlockSize - 1)
<1>. DEFINE q == p \div BlockSize  r == p % BlockSize  k == BlocksFor(n)
<1>1. BlockSize \in Nat \ {0}
  BY BufferAssumption
<1>2. q \in Nat /\ r \in 0..(BlockSize - 1) /\ p = BlockSize * q + r
  BY <1>1, DivMod
<1>3. k \in Nat /\ n <= BlockSize * k
  BY BlocksHold
<1>. HIDE DEF q, r, k
<1>4. BlockSize * q < BlockSize * k
  BY <1>1, <1>2, <1>3
<1>5. q < k
  BY <1>1, <1>2, <1>3, <1>4
<1>. QED
  BY <1>2, <1>3, <1>5 DEF q, r, k, CellAt

\* What a buffer needs after a put of len bytes: the blocks it has, and Need more.
LEMMA PutFits ==
  ASSUME NEW fb \in Buffer, NEW len \in Nat,
         fb.size = 0 => fb.offset = 0
  PROVE  /\ Need(fb, len) \in Nat
         /\ BlocksFor(fb.offset + fb.size) + Need(fb, len) = BlocksFor(fb.offset + fb.size + len)
<1>. DEFINE t == fb.offset + fb.size
            q == t \div BlockSize
            r == t % BlockSize
            k == BlocksFor(t)
            m == BlocksFor(len - Rest(fb))
<1>1. BlockSize \in Nat \ {0} /\ t \in Nat /\ fb.size \in Nat /\ fb.offset \in Nat
  BY BufferAssumption DEF Buffer
<1>2. q \in Nat /\ r \in 0..(BlockSize - 1) /\ t = BlockSize * q + r
  BY <1>1, DivMod
<1>3. k \in Nat /\ BlockSize * k \in Nat /\ t <= BlockSize * k /\ BlockSize * k < t + BlockSize
  BY <1>1, BlocksHold
<1>4. Rest(fb) = IF fb.size > 0 /\ r > 0 THEN BlockSize - r ELSE 0
  BY DEF Rest
<1>. HIDE DEF q, r
<1>5. Rest(fb) \in Nat /\ Rest(fb) < BlockSize /\ BlockSize * k = t + Rest(fb)
  <2>1. CASE r = 0
    <3>1. BlocksFor(t) = q
      BY <1>1, <1>2, <2>1, BlocksUnique
    <3>. QED
      BY <1>1, <1>2, <1>4, <2>1, <3>1
  <2>2. CASE r > 0
    <3>1. BlockSize * (q + 1) = BlockSize * q + BlockSize
      BY <1>1, <1>2
    <3>2. BlocksFor(t) = q + 1
      BY <1>1, <1>2, <2>2, <3>1, BlocksUnique
    <3>3. fb.size > 0
      <4>1. CASE fb.size = 0
        <5>1. t = 0
          BY <1>1, <4>1
        <5>2. BlockSize * q \in Nat
          BY <1>1, <1>2
        <5>3. BlockSize * q + r = 0 /\ r \in Nat
          BY <1>2, <5>1
        <5>. QED
          BY <2>2, <5>2, <5>3
      <4>. QED
        BY <1>1, <4>1
    <3>. QED
      BY <1>1, <1>2, <1>4, <2>2, <3>1, <3>2, <3>3
  <2>. QED
    BY <1>2, <2>1, <2>2
<1>. HIDE DEF t, k
<1>6. CASE len <= Rest(fb)
  <2>1. Need(fb, len) = 0
    BY <1>6 DEF Need
  <2>2. t + len \in Nat /\ BlocksFor(t + len) = k
    BY <1>1, <1>3, <1>5, <1>6, BlocksUnique
  <2>. QED
    BY <1>3, <2>1, <2>2 DEF t, k
<1>7. CASE len > Rest(fb)
  <2>1. len - Rest(fb) \in Nat
    BY <1>5, <1>7
  <2>2. /\ m \in Nat /\ BlockSize * m \in Nat
        /\ len - Rest(fb) <= BlockSize * m /\ BlockSize * m < len - Rest(fb) + BlockSize
    BY <2>1, BlocksHold
  <2>3. Need(fb, len) = m
    BY <1>5, <1>7 DEF Need
  <2>. HIDE DEF m
  <2>4. BlockSize * (k + m) = BlockSize * k + BlockSize * m
    BY <1>1, <1>3, <2>2
  <2>5. t + len \in Nat /\ k + m \in Nat
    BY <1>1, <1>3, <2>2
  <2>6. BlocksFor(t + len) = k + m
    BY <1>1, <1>3, <1>5, <2>2, <2>4, <2>5, BlocksUnique
  <2>. QED
    BY <1>3, <2>2, <2>3, <2>6 DEF t, k
<1>. QED
  BY <1>5, <1>6, <1>7

\* What a buffer needs after n of its bytes, and not all, are written.
LEMMA PushFits ==
  ASSUME NEW fb \in Buffer, NEW n \in 1..fb.size, n # fb.size
  PROVE  LET d == (fb.offset + n) \div BlockSize
             o == (fb.offset + n) % BlockSize
         IN  /\ d \in 0..BlocksFor(fb.offset + fb.size) /\ o \in 0..(BlockSize - 1)
             /\ fb.offset + n = BlockSize * d + o
             /\ fb.size - n \in Nat
             /\ BlocksFor(o + (fb.size - n)) = BlocksFor(fb.offset + fb.size) - d
<1>. DEFINE t == fb.offset + fb.size
            k == BlocksFor(t)
            d == (fb.offset + n) \div BlockSize
            o == (fb.offset + n) % BlockSize
<1>1. /\ BlockSize \in Nat \ {0} /\ t \in Nat /\ fb.size \in Nat /\ fb.offset \in Nat
      /\ n \in Nat /\ n < fb.size /\ fb.offset + n \in Nat
  BY BufferAssumption DEF Buffer
<1>2. d \in Nat /\ o \in 0..(BlockSize - 1) /\ fb.offset + n = BlockSize * d + o
  BY <1>1, DivMod
<1>3. k \in Nat /\ BlockSize * k \in Nat /\ t <= BlockSize * k /\ BlockSize * k < t + BlockSize
  BY <1>1, BlocksHold
<1>. HIDE DEF d, o
<1>4. d <= k
  <2>1. BlockSize * d < BlockSize * k
    BY <1>1, <1>2, <1>3
  <2>. HIDE DEF k
  <2>. QED
    BY <1>1, <1>2, <1>3, <2>1
<1>5. o + (fb.size - n) = t - BlockSize * d /\ o + (fb.size - n) \in Nat
  BY <1>1, <1>2
<1>. HIDE DEF k, t
<1>6. BlockSize * (k - d) = BlockSize * k - BlockSize * d /\ k - d \in Nat
  BY <1>1, <1>2, <1>3, <1>4
<1>7. BlocksFor(o + (fb.size - n)) = k - d
  BY <1>1, <1>2, <1>3, <1>5, <1>6, BlocksUnique
<1>8. d \in 0..k /\ fb.size - n \in Nat
  BY <1>1, <1>2, <1>3, <1>4
<1>. QED
  BY <1>2, <1>7, <1>8 DEF d, o, k, t

(***************************************************************************)
(* The invariant.                                                          *)
(***************************************************************************)
\* The initial state: no blocks anywhere.
LEMMA InitInv == Init => EveryBlockOnce
<1>. SUFFICES ASSUME Init PROVE EveryBlockOnce
  OBVIOUS
<1>1. BlockSize \in Nat \ {0} /\ MaxBlocks \in Nat /\ <<>> \in Seq(Block) /\ Len(<<>>) = 0
  BY BufferAssumption, EmptySeq
<1>2. EmptyBuffer \in Buffer
  BY <1>1 DEF EmptyBuffer, Buffer
<1>3. TypeOK
  BY <1>1, <1>2 DEF Init, TypeOK
<1>4. FreeCountRight
  BY <1>1 DEF Init, FreeCountRight
<1>5. Range(<<>>) = {} /\ IsInjective(<<>>)
  <2>1. PICK e \in Seq(Block) : e = <<>> /\ Len(e) = 0
    BY <1>1
  <2>2. 1..Len(e) = {}
    BY <2>1
  <2>3. Range(e) = {}
    BY <2>2, SeqRange
  <2>4. IsInjective(e)
    BY <2>2, SeqRange
  <2>. QED
    BY <2>1, <2>3, <2>4
<1>6. NoBlockTwice
  BY <1>5 DEF Init, NoBlockTwice, EmptyBuffer
<1>7. ChainFits
  BY <1>1, BlocksForNone DEF Init, ChainFits, EmptyBuffer
<1>8. NoBlockLost
  <2>1. \A f \in Fd : Range(fds[f].chain) = {}
    BY <1>5 DEF Init, EmptyBuffer
  <2>2. UNION {Range(fds[f].chain) : f \in Fd} = {}
    BY <2>1
  <2>3. 1..total_count = {}
    BY DEF Init
  <2>. QED
    BY <1>5, <1>7, <2>2, <2>3 DEF Init, NoBlockLost
<1>. QED
  BY <1>3, <1>4, <1>6, <1>8 DEF EveryBlockOnce

\* One buffer exchanges blocks with the free list: when each of the two keeps no
\* block twice, they share none and together have the blocks they had, then so it
\* is for all.
LEMMA Exchange ==
  ASSUME EveryBlockOnce, NEW f \in Fd, NEW nb \in Buffer,
         fds' = [fds EXCEPT ![f] = nb], total_count' = total_count,
         stack' \in Seq(Block), free_count' = Len(stack'),
         mem' \in [Block -> [0..(BlockSize - 1) -> Byte \cup {Garbage}]],
         IsInjective(stack'), IsInjective(nb.chain), Range(nb.chain) \cap Range(stack') = {},
         Range(stack') \cup Range(nb.chain) = Range(stack) \cup Range(fds[f].chain),
         nb.size = 0 => nb.offset = 0,
         Len(nb.chain) = BlocksFor(nb.offset + nb.size)
  PROVE  EveryBlockOnce'
<1>1. fds \in [Fd -> Buffer]
  BY DEF EveryBlockOnce, TypeOK
<1>2. fds'[f] = nb /\ \A g \in Fd \ {f} : fds'[g] = fds[g]
  BY <1>1
<1>3. free_count' \in Nat
  BY LenProperties
<1>4. TypeOK'
  BY <1>1, <1>3 DEF EveryBlockOnce, TypeOK
<1>5. FreeCountRight'
  BY DEF FreeCountRight
<1>6. ASSUME NEW g \in Fd, g # f
      PROVE  /\ IsInjective(fds'[g].chain)
             /\ Range(fds'[g].chain) \cap Range(stack') = {}
             /\ Range(fds'[g].chain) \cap Range(fds'[f].chain) = {}
  BY <1>2, <1>6 DEF EveryBlockOnce, NoBlockTwice
<1>7. NoBlockTwice'
  <2>1. \A g \in Fd : /\ IsInjective(fds'[g].chain)
                      /\ Range(fds'[g].chain) \cap Range(stack') = {}
    BY <1>2, <1>6
  <2>2. ASSUME NEW g \in Fd, NEW h \in Fd, g # h
        PROVE  Range(fds'[g].chain) \cap Range(fds'[h].chain) = {}
    <3>1. CASE g = f
      BY <1>6, <2>2, <3>1
    <3>2. CASE h = f
      BY <1>6, <2>2, <3>2
    <3>3. CASE g # f /\ h # f
      BY <1>2, <2>2, <3>3 DEF EveryBlockOnce, NoBlockTwice
    <3>. QED
      BY <3>1, <3>2, <3>3
  <2>. QED
    BY <2>1, <2>2 DEF NoBlockTwice
<1>8. ChainFits'
  BY <1>2 DEF EveryBlockOnce, NoBlockLost, ChainFits
<1>9. Range(stack') \cup UNION {Range(fds'[g].chain) : g \in Fd}
        = Range(stack) \cup UNION {Range(fds[g].chain) : g \in Fd}
  <2>1. ASSUME NEW x
        PROVE  x \in Range(stack') \/ (\E g \in Fd : x \in Range(fds'[g].chain))
               <=> x \in Range(stack) \/ (\E g \in Fd : x \in Range(fds[g].chain))
    <3>1. x \in Range(stack') \/ x \in Range(fds'[f].chain)
          <=> x \in Range(stack) \/ x \in Range(fds[f].chain)
      BY <1>2
    <3>2. \A g \in Fd \ {f} : x \in Range(fds'[g].chain) <=> x \in Range(fds[g].chain)
      BY <1>2
    <3>. QED
      BY <3>1, <3>2
  <2>. QED
    BY <2>1
<1>. QED
  BY <1>4, <1>5, <1>7, <1>8, <1>9 DEF EveryBlockOnce, NoBlockLost

\* What the invariant says of the buffer of a descriptor.
LEMMA BufferFacts ==
  ASSUME EveryBlockOnce, NEW f \in Fd
  PROVE  /\ fds[f] \in Buffer /\ fds[f].chain \in Seq(Block)
         /\ fds[f].offset \in 0..(BlockSize - 1) /\ fds[f].offset \in Nat /\ fds[f].size \in Nat
         /\ fds[f].size = 0 => fds[f].offset = 0
         /\ Len(fds[f].chain) = BlocksFor(fds[f].offset + fds[f].size)
         /\ IsInjective(fds[f].chain) /\ Range(fds[f].chain) \cap Range(stack) = {}
         /\ stack \in Seq(Block) /\ free_count = Len(stack) /\ IsInjective(stack)
         /\ fds \in [Fd -> Buffer]
         /\ mem \in [Block -> [0..(BlockSize - 1) -> Byte \cup {Garbage}]]
<1>1. fds[f] \in Buffer
  BY DEF EveryBlockOnce, TypeOK
<1>2. /\ fds[f].chain \in Seq(Block) /\ fds[f].offset \in 0..(BlockSize - 1)
      /\ fds[f].offset \in Nat /\ fds[f].size \in Nat
  BY <1>1, BufferAssumption DEF Buffer
<1>. QED
  BY <1>1, <1>2 DEF EveryBlockOnce, TypeOK, FreeCountRight, NoBlockTwice, NoBlockLost, ChainFits

\* The data of a put are bytes, and memory stays memory.
LEMMA CopiedType ==
  ASSUME EveryBlockOnce, NEW chain, NEW start, NEW d \in Data
  PROVE  /\ Len(d) \in Nat \ {0} /\ \A i \in 1..Len(d) : d[i] \in Byte
         /\ Copied(chain, start, d) \in [Block -> [0..(BlockSize - 1) -> Byte \cup {Garbage}]]
<1>1. d \in Seq(Byte) /\ d # <<>>
  BY BufferAssumption
<1>2. Len(d) \in Nat \ {0} /\ \A i \in 1..Len(d) : d[i] \in Byte
  BY <1>1, EmptySeq, ElementOfSeq
<1>3. ASSUME NEW b \in Block, NEW c \in 0..(BlockSize - 1)
      PROVE  LET hit == {i \in 1..Len(d) : /\ BlockAt(chain, start + i - 1) = b
                                           /\ CellAt(start + i - 1) = c}
             IN  (IF hit = {} THEN mem[b][c] ELSE d[CHOOSE i \in hit : TRUE])
                   \in Byte \cup {Garbage}
  <2>. DEFINE hit == {i \in 1..Len(d) : /\ BlockAt(chain, start + i - 1) = b
                                        /\ CellAt(start + i - 1) = c}
  <2>1. CASE hit = {}
    BY <2>1 DEF EveryBlockOnce, TypeOK
  <2>2. CASE hit # {}
    <3>1. hit \subseteq 1..Len(d)
      OBVIOUS
    <3>. HIDE DEF hit
    <3>2. (CHOOSE i \in hit : TRUE) \in hit
      BY <2>2
    <3>. QED
      BY <1>2, <2>2, <3>1, <3>2 DEF hit
  <2>. QED
    BY <2>1, <2>2
<1>. QED
  BY <1>2, <1>3 DEF Copied

\* nb is fb with another chain, offset and size.
IsChange(fb, nb, c, o, z) == nb = [fb EXCEPT !.chain = c, !.offset = o, !.size = z]

\* Such a buffer.
LEMMA BufferChange ==
  ASSUME NEW fb \in Buffer, NEW c \in Seq(Block), NEW o \in 0..(BlockSize - 1), NEW z \in Nat,
         NEW nb, IsChange(fb, nb, c, o, z)
  PROVE  nb \in Buffer /\ nb.chain = c /\ nb.offset = o /\ nb.size = z
BY DEF Buffer, IsChange

\* put: the blocks on top of the stack go to the end of the chain.
LEMMA PutInv ==
  ASSUME EveryBlockOnce, NEW f \in Fd, NEW d \in Data, Put(f, d)
  PROVE  EveryBlockOnce'
<1>. DEFINE fb == fds[f]
            need == Need(fb, Len(d))
            base == IF fb.size > 0 THEN fb.offset ELSE 0
            taken == Taken(need)
            rest == SubSeq(stack, need + 1, Len(stack))
            old == fb.chain
            chain == old \o taken
            nb == [fb EXCEPT !.chain = chain, !.offset = base, !.size = fb.size + Len(d)]
<1>1. /\ need <= free_count /\ stack' = rest /\ free_count' = free_count - need
      /\ total_count' = total_count
      /\ fds' = [fds EXCEPT ![f] = nb]
      /\ mem' = Copied(chain, base + fb.size, d)
  BY DEF Put, AllocByBlocks
<1>2. /\ fb \in Buffer /\ fb.chain \in Seq(Block) /\ fb.offset \in Nat /\ fb.size \in Nat
      /\ base = fb.offset /\ fb.offset \in 0..(BlockSize - 1)
      /\ Len(fb.chain) = BlocksFor(fb.offset + fb.size)
      /\ IsInjective(fb.chain) /\ Range(fb.chain) \cap Range(stack) = {}
      /\ stack \in Seq(Block) /\ free_count = Len(stack) /\ IsInjective(stack)
  BY BufferFacts
<1>3. /\ Len(d) \in Nat \ {0}
      /\ mem' \in [Block -> [0..(BlockSize - 1) -> Byte \cup {Garbage}]]
  BY <1>1, CopiedType
<1>4. /\ need \in Nat
      /\ BlocksFor(fb.offset + fb.size) + need = BlocksFor(fb.offset + fb.size + Len(d))
  BY <1>2, <1>3, PutFits, BufferFacts
<1>5. need \in 0..Len(stack) /\ Len(stack) \in Nat
  BY <1>1, <1>2, <1>4, LenProperties
<1>. HIDE DEF need
<1>a. IsCut(stack, need, taken, rest)
  BY DEF IsCut, Taken
<1>. HIDE DEF taken, rest
<1>6. /\ taken \in Seq(Block) /\ Len(taken) = need
      /\ rest \in Seq(Block) /\ Len(rest) = Len(stack) - need
      /\ Range(taken) \cup Range(rest) = Range(stack)
      /\ IsInjective(taken) /\ IsInjective(rest)
      /\ Range(taken) \cap Range(rest) = {}
  BY <1>2, <1>5, <1>a, CutSeq
<1>b. /\ old \in Seq(Block) /\ IsInjective(old) /\ Range(old) \cap Range(stack) = {}
      /\ Len(old) = BlocksFor(fb.offset + fb.size) /\ old = fds[f].chain
  BY <1>2
<1>. HIDE DEF old
<1>7. Range(old) \cap Range(taken) = {}
  BY <1>b, <1>6
<1>c. IsJoin(chain, old, taken)
  BY DEF IsJoin
<1>. HIDE DEF chain
<1>8. /\ chain \in Seq(Block)
      /\ Len(chain) = Len(old) + need
      /\ Range(chain) = Range(old) \cup Range(taken)
      /\ IsInjective(chain)
  BY <1>b, <1>6, <1>7, <1>c, JoinSeq
<1>9. /\ nb \in Buffer /\ nb.chain = chain /\ nb.offset = fb.offset
      /\ nb.size = fb.size + Len(d) /\ nb.size \in Nat
  <2>1. fb \in Buffer /\ base \in 0..(BlockSize - 1) /\ fb.size + Len(d) \in Nat
        /\ IsChange(fb, nb, chain, base, fb.size + Len(d))
    <3>1. IsChange(fb, nb, chain, base, fb.size + Len(d))
      BY DEF IsChange
    <3>. HIDE DEF nb, base, fb
    <3>. QED
      BY <1>2, <1>3, <3>1
  <2>. HIDE DEF fb, base, nb
  <2>2. nb \in Buffer /\ nb.chain = chain /\ nb.offset = base /\ nb.size = fb.size + Len(d)
    BY <2>1, <1>8, BufferChange
  <2>. QED
    BY <1>2, <2>1, <2>2
<1>. HIDE DEF nb
<1>10. Len(nb.chain) = BlocksFor(nb.offset + nb.size)
  <2>1. nb.offset + nb.size = fb.offset + fb.size + Len(d)
    BY <1>2, <1>3, <1>9
  <2>. QED
    BY <1>b, <1>4, <1>8, <1>9, <2>1
<1>11. nb.size = 0 => nb.offset = 0
  BY <1>2, <1>3, <1>9
<1>12. /\ Range(nb.chain) \cap Range(stack') = {}
       /\ Range(stack') \cup Range(nb.chain) = Range(stack) \cup Range(old)
  BY <1>1, <1>b, <1>6, <1>7, <1>8, <1>9
<1>13. free_count' = Len(stack')
  BY <1>1, <1>2, <1>6
<1>. QED
  BY <1>1, <1>3, <1>6, <1>8, <1>9, <1>10, <1>11, <1>12, <1>13, <1>b, Exchange

\* push: the blocks at the front of the chain go to the stack, in reverse.
LEMMA PushInv ==
  ASSUME EveryBlockOnce, NEW f \in Fd, NEW n \in 1..fds[f].size, Push(f, n)
  PROVE  EveryBlockOnce'
<1>. DEFINE fb == fds[f]
            done == Done(fb, n)
            old == fb.chain
            given == SubSeq(old, 1, done)
            kept == SubSeq(old, done + 1, Len(old))
            nb == [fb EXCEPT !.chain = kept, !.offset = OffsetAfter(fb, n), !.size = fb.size - n]
<1>1. /\ stack' = Reverse(given) \o stack
      /\ free_count' = free_count + Len(Reverse(given))
      /\ total_count' = total_count
      /\ fds' = [fds EXCEPT ![f] = nb]
      /\ mem' = mem
  BY DEF Push, FreeBlocks
<1>2. /\ fb \in Buffer /\ fb.chain \in Seq(Block) /\ fb.offset \in Nat /\ fb.size \in Nat
      /\ Len(fb.chain) = BlocksFor(fb.offset + fb.size)
      /\ IsInjective(fb.chain) /\ Range(fb.chain) \cap Range(stack) = {}
      /\ stack \in Seq(Block) /\ free_count = Len(stack) /\ IsInjective(stack)
      /\ mem' \in [Block -> [0..(BlockSize - 1) -> Byte \cup {Garbage}]]
  BY <1>1, BufferFacts
<1>3. /\ done \in 0..Len(fb.chain)
      /\ OffsetAfter(fb, n) \in 0..(BlockSize - 1) /\ fb.size - n \in Nat
      /\ fb.size - n = 0 => OffsetAfter(fb, n) = 0
      /\ BlocksFor(OffsetAfter(fb, n) + (fb.size - n)) = Len(fb.chain) - done
  <2>1. CASE n = fb.size
    <3>1. done = Len(fb.chain) /\ OffsetAfter(fb, n) = 0 /\ fb.size - n = 0
      BY <1>2, <2>1 DEF Done, OffsetAfter
    <3>2. Len(fb.chain) \in Nat
      BY <1>2, LenProperties
    <3>. QED
      BY <3>1, <3>2, BlocksForNone, BufferAssumption
  <2>2. CASE n # fb.size
    <3>1. /\ done = (fb.offset + n) \div BlockSize
          /\ OffsetAfter(fb, n) = (fb.offset + n) % BlockSize
      BY <2>2 DEF Done, OffsetAfter
    <3>2. fb.size - n # 0
      BY <1>2, <2>2
    <3>. QED
      BY <1>2, <2>2, <3>1, <3>2, PushFits
  <2>. QED
    BY <2>1, <2>2
<1>. HIDE DEF done
<1>a. IsCut(old, done, given, kept)
  BY DEF IsCut
<1>. HIDE DEF given, kept
<1>b. /\ old \in Seq(Block) /\ IsInjective(old)
      /\ Range(old) \cap Range(stack) = {} /\ old = fds[f].chain
  BY <1>2
<1>c. old \in Seq(Block) /\ IsInjective(old) /\ done \in 0..Len(old)
  BY <1>2, <1>3
<1>. HIDE DEF old, nb
<1>4. /\ given \in Seq(Block) /\ Len(given) = done
      /\ kept \in Seq(Block) /\ Len(kept) = Len(old) - done
      /\ Range(given) \cup Range(kept) = Range(old)
      /\ IsInjective(given) /\ IsInjective(kept) /\ Range(given) \cap Range(kept) = {}
  BY <1>a, <1>c, CutSeq
<1>. DEFINE back == Reverse(given)
<1>5. /\ back \in Seq(Block) /\ Range(back) = Range(given) /\ IsInjective(back)
  BY <1>4, ReverseSeq
<1>. HIDE DEF back
<1>6. Range(back) \cap Range(stack) = {}
  BY <1>b, <1>4, <1>5
<1>7. /\ back \o stack \in Seq(Block) /\ Len(back \o stack) = Len(back) + Len(stack)
      /\ Range(back \o stack) = Range(back) \cup Range(stack)
      /\ IsInjective(back \o stack)
  BY <1>2, <1>5, <1>6, ConcatProperties, RangeConcat, InjectiveConcat
<1>8. stack' = back \o stack /\ free_count' = Len(stack) + Len(back)
  BY <1>1, <1>2 DEF back
<1>9. Len(stack) \in Nat /\ Len(back) \in Nat
  BY <1>2, <1>5, LenProperties
<1>10. /\ nb \in Buffer /\ nb.chain = kept /\ nb.offset = OffsetAfter(fb, n)
       /\ nb.size = fb.size - n
  <2>1. fb \in Buffer /\ OffsetAfter(fb, n) \in 0..(BlockSize - 1) /\ fb.size - n \in Nat
        /\ IsChange(fb, nb, kept, OffsetAfter(fb, n), fb.size - n)
    <3>1. IsChange(fb, nb, kept, OffsetAfter(fb, n), fb.size - n)
      BY DEF IsChange, nb
    <3>. HIDE DEF nb
    <3>. QED
      BY <1>2, <1>3, <3>1
  <2>. HIDE DEF nb, fb
  <2>. QED
    BY <2>1, <1>4, BufferChange
<1>. HIDE DEF nb
<1>11. /\ Range(nb.chain) \cap Range(stack') = {}
       /\ Range(stack') \cup Range(nb.chain) = Range(stack) \cup Range(old)
  BY <1>b, <1>4, <1>5, <1>7, <1>8, <1>10
<1>12. free_count' = Len(stack')
  BY <1>7, <1>8, <1>9
<1>13. Len(nb.chain) = BlocksFor(nb.offset + nb.size)
  BY <1>3, <1>4, <1>10, <1>b
<1>. QED
  BY <1>1, <1>2, <1>3, <1>4, <1>7, <1>8, <1>10, <1>11, <1>12, <1>13, <1>b, Exchange

\* cleanup: the whole chain goes to the stack.
LEMMA CleanupInv ==
  ASSUME EveryBlockOnce, NEW f \in Fd, Cleanup(f)
  PROVE  EveryBlockOnce'
<1>. DEFINE chain == fds[f].chain
<1>1. /\ stack' = chain \o stack /\ free_count' = free_count + Len(chain)
      /\ total_count' = total_count /\ fds' = [fds EXCEPT ![f] = EmptyBuffer] /\ mem' = mem
  BY DEF Cleanup, FreeBlocks
<1>2. /\ chain \in Seq(Block) /\ IsInjective(chain) /\ Range(chain) \cap Range(stack) = {}
      /\ stack \in Seq(Block) /\ free_count = Len(stack) /\ IsInjective(stack)
      /\ mem' \in [Block -> [0..(BlockSize - 1) -> Byte \cup {Garbage}]]
  BY <1>1, BufferFacts
<1>. HIDE DEF chain
<1>3. /\ chain \o stack \in Seq(Block) /\ Len(chain \o stack) = Len(chain) + Len(stack)
      /\ Range(chain \o stack) = Range(chain) \cup Range(stack)
      /\ IsInjective(chain \o stack)
  BY <1>2, ConcatProperties, RangeConcat, InjectiveConcat
<1>4. Len(chain) \in Nat /\ Len(stack) \in Nat
  BY <1>2, LenProperties
<1>5. PICK e \in Seq(Block) : e = <<>> /\ Len(e) = 0
  BY EmptySeq
<1>6. 1..Len(e) = {}
  BY <1>5
<1>7. Range(e) = {} /\ IsInjective(e)
  BY <1>6, SeqRange
<1>8. /\ EmptyBuffer \in Buffer /\ EmptyBuffer.chain = e /\ EmptyBuffer.offset = 0
      /\ EmptyBuffer.size = 0
  BY <1>5, BufferAssumption DEF EmptyBuffer, Buffer
<1>9. Len(EmptyBuffer.chain) = BlocksFor(EmptyBuffer.offset + EmptyBuffer.size)
  BY <1>5, <1>8, BlocksForNone
<1>10. free_count' = Len(stack')
  BY <1>1, <1>2, <1>3, <1>4
<1>11. Range(stack') \cup Range(EmptyBuffer.chain) = Range(stack) \cup Range(fds[f].chain)
  BY <1>1, <1>3, <1>7, <1>8 DEF chain
<1>. QED
  BY <1>1, <1>2, <1>3, <1>7, <1>8, <1>9, <1>10, <1>11, Exchange

\* setQuota: the blocks stay where they are.
LEMMA SetQuotaInv ==
  ASSUME EveryBlockOnce, NEW f \in Fd, NEW q \in Quotas, SetQuota(f, q)
  PROVE  EveryBlockOnce'
<1>. DEFINE fb == fds[f]
            nb == [fb EXCEPT !.quota = q]
<1>1. /\ stack' = stack /\ free_count' = free_count /\ total_count' = total_count
      /\ fds' = [fds EXCEPT ![f] = nb] /\ mem' = mem
  BY DEF SetQuota, poolVars
<1>2. /\ fb \in Buffer
      /\ fb.size = 0 => fb.offset = 0
      /\ Len(fb.chain) = BlocksFor(fb.offset + fb.size)
      /\ IsInjective(fb.chain) /\ Range(fb.chain) \cap Range(stack) = {}
      /\ stack \in Seq(Block) /\ free_count = Len(stack) /\ IsInjective(stack)
      /\ mem' \in [Block -> [0..(BlockSize - 1) -> Byte \cup {Garbage}]]
  BY <1>1, BufferFacts
<1>3. q \in Nat
  BY BufferAssumption
<1>4. nb \in Buffer /\ nb.chain = fb.chain /\ nb.offset = fb.offset /\ nb.size = fb.size
  <2>. HIDE DEF fb
  <2>. QED
    BY <1>2, <1>3 DEF Buffer
<1>. HIDE DEF nb
<1>5. free_count' = Len(stack')
  BY <1>1, <1>2
<1>6. Range(stack') \cup Range(nb.chain) = Range(stack) \cup Range(fds[f].chain)
  BY <1>1, <1>4
<1>. QED
  BY <1>1, <1>2, <1>4, <1>5, <1>6, Exchange

\* The blocks that reserve(n) puts on the stack when t blocks are there.
AreNew(new, t, n) == new = [i \in 1..n |-> t + n + 1 - i]

\* They are n new ones, each once.
LEMMA NewBlocks ==
  ASSUME NEW t \in Nat, NEW n \in Nat, t + n <= MaxBlocks,
         NEW new, AreNew(new, t, n)
  PROVE  /\ new \in Seq(Block) /\ Len(new) = n /\ IsInjective(new)
         /\ Range(new) = (t + 1)..(t + n)
<1>1. MaxBlocks \in Nat
  BY BufferAssumption
<1>2. \A i \in 1..n : t + n + 1 - i \in Block /\ t + n + 1 - i \in (t + 1)..(t + n)
  BY <1>1 DEF Block
<1>3. new \in Seq(Block) /\ Len(new) = n
  BY <1>2, IsASeq, LenProperties DEF AreNew
<1>4. \A i \in 1..n : new[i] = t + n + 1 - i
  BY DEF AreNew
<1>5. IsInjective(new)
  <2>1. \A i, j \in 1..n : new[i] = new[j] => i = j
    BY <1>4
  <2>. QED
    BY <1>3, <2>1, SeqRange
<1>6. ASSUME NEW x \in (t + 1)..(t + n) PROVE x \in Range(new)
  <2>1. t + n + 1 - x \in 1..n /\ t + n + 1 - (t + n + 1 - x) = x
    OBVIOUS
  <2>2. new[t + n + 1 - x] = x
    BY <1>4, <2>1
  <2>. QED
    BY <1>3, <2>1, <2>2, SeqRange
<1>7. ASSUME NEW x \in Range(new) PROVE x \in (t + 1)..(t + n)
  <2>1. PICK i \in 1..n : new[i] = x
    BY <1>3, <1>7, SeqRange
  <2>. QED
    BY <1>2, <1>4, <2>1
<1>. QED
  BY <1>3, <1>5, <1>6, <1>7

\* bpPool: new blocks on top of the stack, or nothing.
LEMMA BpPoolInv ==
  ASSUME EveryBlockOnce, NEW m \in PoolSizes, BpPool(m)
  PROVE  EveryBlockOnce'
<1>1. fds' = fds /\ mem' = mem
  BY DEF BpPool
<1>2. CASE UNCHANGED <<stack, free_count, total_count>>
  BY <1>1, <1>2 DEF EveryBlockOnce, TypeOK, FreeCountRight, NoBlockTwice, NoBlockLost, ChainFits
<1>3. CASE total_count < m /\ Reserve(m - total_count)
  <2>. DEFINE n == m - total_count
              new == [i \in 1..n |-> total_count + n + 1 - i]
  <2>1. total_count \in Nat /\ total_count \in 0..MaxBlocks /\ MaxBlocks \in Nat /\ m \in Nat
    BY BufferAssumption DEF EveryBlockOnce, TypeOK
  <2>2. n \in Nat
    BY <1>3, <2>1
  <2>. HIDE DEF n
  <2>3. /\ total_count + n <= MaxBlocks
        /\ stack' = new \o stack
        /\ total_count' = total_count + n
        /\ free_count' = free_count + n
    BY <1>3 DEF Reserve, n
  <2>a. AreNew(new, total_count, n) /\ IsJoin(stack', new, stack)
    BY <2>3 DEF AreNew, IsJoin
  <2>. HIDE DEF new
  <2>4. /\ new \in Seq(Block) /\ Len(new) = n /\ IsInjective(new)
        /\ Range(new) = (total_count + 1)..(total_count + n)
    BY <2>1, <2>2, <2>3, <2>a, NewBlocks
  <2>5. /\ stack \in Seq(Block) /\ free_count = Len(stack) /\ IsInjective(stack)
        /\ fds \in [Fd -> Buffer]
        /\ mem \in [Block -> [0..(BlockSize - 1) -> Byte \cup {Garbage}]]
    BY DEF EveryBlockOnce, TypeOK, FreeCountRight, NoBlockTwice
  <2>6. /\ 1..total_count = Range(stack) \cup UNION {Range(fds[g].chain) : g \in Fd}
        /\ ChainFits
    BY DEF EveryBlockOnce, NoBlockLost
  <2>8. Range(new) \cap (1..total_count) = {}
    BY <2>1, <2>2, <2>4
  <2>9. Range(stack) \subseteq 1..total_count /\ \A g \in Fd : Range(fds[g].chain) \subseteq 1..total_count
    BY <2>6
  <2>10. Range(new) \cap Range(stack) = {} /\ \A g \in Fd : Range(fds[g].chain) \cap Range(new) = {}
    BY <2>8, <2>9
  <2>11. /\ stack' \in Seq(Block) /\ Len(stack') = n + Len(stack)
         /\ Range(stack') = Range(new) \cup Range(stack)
         /\ IsInjective(stack') /\ Len(stack) \in Nat
    <3>1. /\ new \in Seq(Block) /\ IsInjective(new) /\ Len(new) = n
          /\ stack \in Seq(Block) /\ IsInjective(stack)
          /\ Range(new) \cap Range(stack) = {}
      BY <2>4, <2>5, <2>10
    <3>2. IsJoin(stack', new, stack)
      BY <2>a
    <3>. QED
      BY <3>1, <3>2, JoinSeq
  <2>12. TypeOK'
    <3>1. free_count' \in Nat /\ total_count' \in 0..MaxBlocks
      BY <2>1, <2>2, <2>3, <2>5, <2>11
    <3>. QED
      BY <1>1, <2>5, <2>11, <3>1 DEF TypeOK
  <2>13. FreeCountRight'
    BY <2>2, <2>3, <2>5, <2>11 DEF FreeCountRight
  <2>14. NoBlockTwice'
    BY <1>1, <2>10, <2>11 DEF EveryBlockOnce, NoBlockTwice
  <2>15. 1..total_count' = Range(new) \cup 1..total_count
    BY <2>1, <2>2, <2>3, <2>4
  <2>16. 1..total_count' = Range(stack') \cup UNION {Range(fds'[g].chain) : g \in Fd}
    BY <1>1, <2>6, <2>11, <2>15
  <2>17. ChainFits'
    BY <1>1, <2>6 DEF ChainFits
  <2>. QED
    BY <2>12, <2>13, <2>14, <2>16, <2>17 DEF EveryBlockOnce, NoBlockLost
<1>. QED
  BY <1>2, <1>3 DEF BpPool

\* Every step keeps the blocks in order.
LEMMA StepInv ==
  ASSUME EveryBlockOnce, [Next]_vars
  PROVE  EveryBlockOnce'
<1>1. ASSUME NEW m \in PoolSizes, BpPool(m) PROVE EveryBlockOnce'
  BY <1>1, BpPoolInv
<1>2. ASSUME NEW f \in Fd, NEW d \in Data, Put(f, d) PROVE EveryBlockOnce'
  BY <1>2, PutInv
<1>3. ASSUME NEW f \in Fd, NEW n \in 1..fds[f].size, Push(f, n) PROVE EveryBlockOnce'
  BY <1>3, PushInv
<1>4. ASSUME NEW f \in Fd, Cleanup(f) PROVE EveryBlockOnce'
  BY <1>4, CleanupInv
<1>5. ASSUME NEW f \in Fd, NEW q \in Quotas, SetQuota(f, q) PROVE EveryBlockOnce'
  BY <1>5, SetQuotaInv
<1>6. CASE UNCHANGED vars
  BY <1>6 DEF vars, EveryBlockOnce, TypeOK, FreeCountRight, NoBlockTwice, NoBlockLost, ChainFits
<1>. QED
  BY <1>1, <1>2, <1>3, <1>4, <1>5, <1>6 DEF Next

\* Every block that was ever reserved is in exactly one place, the free list or the
\* chain of one descriptor, free_count is the length of the free list that
\* allocByBlocks walks without looking for its end, and a chain has exactly the blocks
\* its bytes reach into: for every block size, memory, data and descriptors, however
\* little the kernel takes of each push.
THEOREM BlocksCorrect == Spec => []EveryBlockOnce
<1>1. EveryBlockOnce /\ [Next]_vars => EveryBlockOnce'
  BY StepInv
<1>. QED
  BY InitInv, <1>1, PTL DEF Spec

(***************************************************************************)
(* The bytes of a buffer.                                                  *)
(***************************************************************************)
\* The byte at place p of a chain, and the bytes of a buffer, in a memory.
ByteAt(m, chain, p) == m[BlockAt(chain, p)][CellAt(p)]
Text(fb, m) == [i \in 1..fb.size |-> ByteAt(m, fb.chain, fb.offset + i - 1)]

Memory == [Block -> [0..(BlockSize - 1) -> Byte \cup {Garbage}]]

\* A buffer with the blocks its bytes need.
Fits(fb) == Len(fb.chain) = BlocksFor(fb.offset + fb.size)

\* Each place of a chain is in one of its blocks.
LEMMA PlaceInChain ==
  ASSUME NEW chain \in Seq(Block), NEW n \in Nat, Len(chain) = BlocksFor(n),
         NEW p \in Nat, p < n
  PROVE  /\ 1 + (p \div BlockSize) \in 1..Len(chain)
         /\ BlockAt(chain, p) \in Range(chain) /\ BlockAt(chain, p) \in Block
         /\ CellAt(p) \in 0..(BlockSize - 1)
<1>1. 1 + (p \div BlockSize) \in 1..Len(chain) /\ CellAt(p) \in 0..(BlockSize - 1)
  BY PlaceInside
<1>2. chain[1 + (p \div BlockSize)] \in Range(chain) /\ Range(chain) \subseteq Block
  BY <1>1, SeqRange
<1>. QED
  BY <1>1, <1>2 DEF BlockAt

\* Two places of a chain without repetition are two cells.
LEMMA OnePlace ==
  ASSUME NEW chain \in Seq(Block), NEW n \in Nat, Len(chain) = BlocksFor(n),
         IsInjective(chain), NEW p \in Nat, p < n, NEW q \in Nat, q < n,
         BlockAt(chain, p) = BlockAt(chain, q), CellAt(p) = CellAt(q)
  PROVE  p = q
<1>. DEFINE a == p \div BlockSize  b == q \div BlockSize
<1>1. BlockSize \in Nat \ {0}
  BY BufferAssumption
<1>2. /\ a \in Nat /\ p = BlockSize * a + (p % BlockSize)
      /\ b \in Nat /\ q = BlockSize * b + (q % BlockSize)
  BY <1>1, DivMod
<1>3. 1 + a \in 1..Len(chain) /\ 1 + b \in 1..Len(chain)
  BY PlaceInChain
<1>4. chain[1 + a] = chain[1 + b]
  BY DEF BlockAt
<1>. HIDE DEF a, b
<1>5. 1 + a = 1 + b
  BY <1>3, <1>4, SeqRange
<1>6. a = b
  BY <1>2, <1>5
<1>. QED
  BY <1>2, <1>6 DEF CellAt

\* The bytes of a buffer are a sequence of its length.
LEMMA TextSeq ==
  ASSUME NEW fb \in Buffer, Fits(fb), NEW m \in Memory
  PROVE  /\ Text(fb, m) \in Seq(Byte \cup {Garbage}) /\ Len(Text(fb, m)) = fb.size
         /\ fb.size \in Nat
         /\ \A i \in 1..fb.size : Text(fb, m)[i] = ByteAt(m, fb.chain, fb.offset + i - 1)
<1>1. /\ fb.chain \in Seq(Block) /\ fb.offset \in Nat /\ fb.size \in Nat
      /\ fb.offset + fb.size \in Nat
  BY BufferAssumption DEF Buffer
<1>2. ASSUME NEW i \in 1..fb.size
      PROVE  ByteAt(m, fb.chain, fb.offset + i - 1) \in Byte \cup {Garbage}
  <2>1. fb.offset + i - 1 \in Nat /\ fb.offset + i - 1 < fb.offset + fb.size
    BY <1>1
  <2>2. /\ BlockAt(fb.chain, fb.offset + i - 1) \in Block
        /\ CellAt(fb.offset + i - 1) \in 0..(BlockSize - 1)
    BY <1>1, <2>1, PlaceInChain DEF Fits
  <2>. QED
    BY <2>2 DEF ByteAt, Memory
<1>3. Text(fb, m) \in Seq(Byte \cup {Garbage}) /\ Len(Text(fb, m)) = fb.size
  BY <1>1, <1>2, IsASeq, LenProperties DEF Text
<1>. QED
  BY <1>1, <1>3 DEF Text

\* No bytes.
LEMMA TextNone ==
  ASSUME NEW fb \in Buffer, Fits(fb), NEW m \in Memory, fb.size = 0
  PROVE  Text(fb, m) = <<>>
BY TextSeq, EmptySeq

\* Two memories with the same bytes in some blocks.
Agree(m, m2, blocks) == \A b \in blocks : \A c \in 0..(BlockSize - 1) : m2[b][c] = m[b][c]

\* A buffer has the same bytes in two memories that agree in its blocks.
LEMMA TextSame ==
  ASSUME NEW fb \in Buffer, Fits(fb), NEW m, NEW m2, Agree(m, m2, Range(fb.chain))
  PROVE  Text(fb, m2) = Text(fb, m)
<1>1. /\ fb.chain \in Seq(Block) /\ fb.offset \in Nat /\ fb.size \in Nat
      /\ fb.offset + fb.size \in Nat
  BY BufferAssumption DEF Buffer
<1>2. ASSUME NEW i \in 1..fb.size
      PROVE  ByteAt(m2, fb.chain, fb.offset + i - 1) = ByteAt(m, fb.chain, fb.offset + i - 1)
  <2>1. fb.offset + i - 1 \in Nat /\ fb.offset + i - 1 < fb.offset + fb.size
    BY <1>1
  <2>2. /\ BlockAt(fb.chain, fb.offset + i - 1) \in Range(fb.chain)
        /\ CellAt(fb.offset + i - 1) \in 0..(BlockSize - 1)
    BY <1>1, <2>1, PlaceInChain DEF Fits
  <2>. QED
    BY <2>2 DEF ByteAt, Agree
<1>. QED
  BY <1>2 DEF Text

\* Writing d to the places from start on of a chain: each of those places gets
\* its byte, the places before them and all other blocks keep theirs.
LEMMA CopiedAt ==
  ASSUME NEW chain \in Seq(Block), IsInjective(chain), NEW start \in Nat,
         NEW d, Len(d) \in Nat, Len(chain) = BlocksFor(start + Len(d)),
         NEW new, new = Copied(chain, start, d)
  PROVE  /\ \A b \in Block \ Range(chain) : \A c \in 0..(BlockSize - 1) : new[b][c] = mem[b][c]
         /\ \A p \in 0..(start - 1) : ByteAt(new, chain, p) = ByteAt(mem, chain, p)
         /\ \A i \in 1..Len(d) : ByteAt(new, chain, start + i - 1) = d[i]
<1>. DEFINE n == start + Len(d)
            hit(b, c) == {i \in 1..Len(d) : /\ BlockAt(chain, start + i - 1) = b
                                            /\ CellAt(start + i - 1) = c}
<1>1. \A b \in Block : \A c \in 0..(BlockSize - 1) :
        new[b][c] = IF hit(b, c) = {} THEN mem[b][c] ELSE d[CHOOSE i \in hit(b, c) : TRUE]
  BY DEF Copied
<1>2. n \in Nat /\ Len(chain) = BlocksFor(n)
  OBVIOUS
<1>3. \A i \in 1..Len(d) : start + i - 1 \in Nat /\ start + i - 1 < n
  OBVIOUS
<1>4. \A p \in 0..(start - 1) : p \in Nat /\ p < n
  OBVIOUS
<1>. HIDE DEF n
<1>5. \A p \in Nat : p < n => /\ BlockAt(chain, p) \in Range(chain) /\ BlockAt(chain, p) \in Block
                              /\ CellAt(p) \in 0..(BlockSize - 1)
  BY <1>2, PlaceInChain
<1>6. ASSUME NEW b \in Block \ Range(chain), NEW c \in 0..(BlockSize - 1)
      PROVE  new[b][c] = mem[b][c]
  <2>1. hit(b, c) = {}
    BY <1>3, <1>5
  <2>. QED
    BY <1>1, <2>1
<1>7. ASSUME NEW p \in 0..(start - 1)
      PROVE  ByteAt(new, chain, p) = ByteAt(mem, chain, p)
  <2>1. ASSUME NEW i \in 1..Len(d),
               BlockAt(chain, start + i - 1) = BlockAt(chain, p), CellAt(start + i - 1) = CellAt(p)
        PROVE  FALSE
    <3>1. start + i - 1 = p
      BY <1>2, <1>3, <1>4, <2>1, OnePlace
    <3>. QED
      BY <3>1
  <2>2. hit(BlockAt(chain, p), CellAt(p)) = {}
    BY <2>1
  <2>. QED
    <3>1. BlockAt(chain, p) \in Block /\ CellAt(p) \in 0..(BlockSize - 1)
      BY <1>4, <1>5
    <3>. HIDE DEF hit
    <3>2. new[BlockAt(chain, p)][CellAt(p)] = mem[BlockAt(chain, p)][CellAt(p)]
      BY <1>1, <2>2, <3>1
    <3>. QED
      BY <3>2 DEF ByteAt
<1>8. ASSUME NEW i \in 1..Len(d)
      PROVE  ByteAt(new, chain, start + i - 1) = d[i]
  <2>. DEFINE p == start + i - 1
  <2>1. \A j \in hit(BlockAt(chain, p), CellAt(p)) : j = i
    <3>. TAKE j \in hit(BlockAt(chain, p), CellAt(p))
    <3>1. start + j - 1 = start + i - 1
      BY <1>2, <1>3, OnePlace
    <3>. QED
      BY <3>1
  <2>2. i \in hit(BlockAt(chain, p), CellAt(p))
    OBVIOUS
  <2>3. /\ BlockAt(chain, p) \in Block /\ CellAt(p) \in 0..(BlockSize - 1)
    BY <1>3, <1>5
  <2>. DEFINE h == hit(BlockAt(chain, p), CellAt(p))
  <2>4. ByteAt(new, chain, p) = IF h = {} THEN ByteAt(mem, chain, p) ELSE d[CHOOSE j \in h : TRUE]
    BY <1>1, <2>3 DEF ByteAt
  <2>. HIDE DEF h
  <2>5. h # {} /\ (CHOOSE j \in h : TRUE) = i
    <3>1. i \in h /\ \A j \in h : j = i
      BY <2>1, <2>2 DEF h
    <3>2. (CHOOSE j \in h : TRUE) \in h
      BY <3>1
    <3>. QED
      BY <3>1, <3>2
  <2>. QED
    BY <2>4, <2>5
<1>. QED
  BY <1>6, <1>7, <1>8

(***************************************************************************)
(* The refinement of ByteStream, call by call.                             *)
(***************************************************************************)
\* What the invariant says of the bytes of every descriptor.
LEMMA TextFacts ==
  ASSUME EveryBlockOnce, NEW f \in Fd
  PROVE  /\ fds[f] \in Buffer /\ Fits(fds[f]) /\ mem \in Memory
         /\ Text(fds[f], mem) \in Seq(Byte \cup {Garbage}) /\ Len(Text(fds[f], mem)) = fds[f].size
<1>1. fds[f] \in Buffer /\ Fits(fds[f]) /\ mem \in Memory
  BY BufferFacts DEF Fits, Memory
<1>. QED
  BY <1>1, TextSeq

\* put: the chain keeps the blocks it had, in their places.
LEMMA PutKeepsPrefix ==
  ASSUME EveryBlockOnce, NEW f \in Fd, NEW d \in Data, Put(f, d)
  PROVE  /\ \A i \in 1..Len(fds[f].chain) : fds'[f].chain[i] = fds[f].chain[i]
         /\ fds'[f].offset = fds[f].offset /\ fds'[f].size = fds[f].size + Len(d)
         /\ mem' = Copied(fds'[f].chain, fds[f].offset + fds[f].size, d)
         /\ \A g \in Fd \ {f} : fds'[g] = fds[g]
<1>. DEFINE fb == fds[f]
            need == Need(fb, Len(d))
            base == IF fb.size > 0 THEN fb.offset ELSE 0
            taken == Taken(need)
            rest == SubSeq(stack, need + 1, Len(stack))
            old == fb.chain
            chain == old \o taken
            nb == [fb EXCEPT !.chain = chain, !.offset = base, !.size = fb.size + Len(d)]
<1>1. /\ need <= free_count /\ fds' = [fds EXCEPT ![f] = nb]
      /\ mem' = Copied(chain, base + fb.size, d)
  BY DEF Put, AllocByBlocks
<1>2. /\ fb \in Buffer /\ old \in Seq(Block) /\ stack \in Seq(Block) /\ free_count = Len(stack)
      /\ fds \in [Fd -> Buffer] /\ base = fb.offset /\ fb.offset \in Nat /\ fb.size \in Nat
      /\ fb.offset \in 0..(BlockSize - 1)
  BY BufferFacts
<1>3. Len(d) \in Nat /\ need \in Nat
  BY <1>2, CopiedType, PutFits, BufferFacts
<1>4. need \in 0..Len(stack) /\ fb.size + Len(d) \in Nat
  BY <1>1, <1>2, <1>3, LenProperties
<1>. HIDE DEF need
<1>5. IsCut(stack, need, taken, rest)
  BY DEF IsCut, Taken
<1>. HIDE DEF taken, rest
<1>6. taken \in Seq(Block)
  BY <1>2, <1>4, <1>5, CutSeq
<1>7. fds'[f] = nb /\ \A g \in Fd \ {f} : fds'[g] = fds[g]
  BY <1>1, <1>2
<1>8. IsJoin(chain, old, taken) /\ IsChange(fb, nb, chain, base, fb.size + Len(d))
  BY DEF IsJoin, IsChange
<1>. HIDE DEF chain, nb, old, base
<1>9. chain \in Seq(Block) /\ \A i \in 1..Len(old) : chain[i] = old[i]
  BY <1>2, <1>6, <1>8, JoinSeq
<1>10. nb.chain = chain /\ nb.offset = base /\ nb.size = fb.size + Len(d)
  <2>1. fb \in Buffer /\ base \in 0..(BlockSize - 1)
    BY <1>2
  <2>. HIDE DEF fb
  <2>. QED
    BY <2>1, <1>4, <1>8, <1>9, BufferChange
<1>11. old = fds[f].chain
  BY DEF old
<1>. QED
  BY <1>1, <1>2, <1>7, <1>9, <1>10, <1>11

\* put appends its data to the bytes of its descriptor and leaves those of the
\* others, although they share the memory.
LEMMA PutBytes ==
  ASSUME EveryBlockOnce, NEW f \in Fd, NEW d \in Data, Put(f, d)
  PROVE  /\ Text(fds'[f], mem') = Text(fds[f], mem) \o d
         /\ \A g \in Fd \ {f} : Text(fds'[g], mem') = Text(fds[g], mem)
<1>. DEFINE o == fds[f].offset  z == fds[f].size  l == Len(d)
            chain == fds'[f].chain  old == fds[f].chain  start == o + z
            s == Text(fds'[f], mem')  t == Text(fds[f], mem)  u == t \o d
<1>1. EveryBlockOnce'
  BY PutInv
<1>2. /\ fds'[f] \in Buffer /\ Fits(fds'[f]) /\ mem' \in Memory /\ IsInjective(chain)
      /\ chain \in Seq(Block)
  BY <1>1 DEF EveryBlockOnce, TypeOK, NoBlockTwice, NoBlockLost, ChainFits, Memory, Fits, Buffer
<1>3. /\ \A i \in 1..Len(old) : chain[i] = old[i]
      /\ fds'[f].offset = o /\ fds'[f].size = z + l /\ mem' = Copied(chain, start, d)
      /\ \A g \in Fd \ {f} : fds'[g] = fds[g]
  BY PutKeepsPrefix
<1>4. /\ o \in Nat /\ z \in Nat /\ old \in Seq(Block) /\ Len(old) = BlocksFor(start)
      /\ fds[f] \in Buffer /\ Fits(fds[f]) /\ mem \in Memory
  BY BufferFacts, TextFacts
<1>5. l \in Nat /\ d \in Seq(Byte \cup {Garbage}) /\ d \in Seq(Byte)
  <2>1. d \in Seq(Byte) /\ l \in Nat /\ \A i \in 1..Len(d) : d[i] \in Byte
    BY BufferAssumption, CopiedType
  <2>. QED
    BY <2>1
<1>6. start \in Nat /\ start + l = o + (z + l) /\ Len(chain) = BlocksFor(start + l)
  BY <1>2, <1>3, <1>4, <1>5 DEF Fits
<1>7. /\ \A b \in Block \ Range(chain) : \A c \in 0..(BlockSize - 1) : mem'[b][c] = mem[b][c]
      /\ \A p \in 0..(start - 1) : ByteAt(mem', chain, p) = ByteAt(mem, chain, p)
      /\ \A i \in 1..l : ByteAt(mem', chain, start + i - 1) = d[i]
  BY <1>2, <1>3, <1>5, <1>6, CopiedAt
<1>8. /\ s \in Seq(Byte \cup {Garbage}) /\ Len(s) = z + l
      /\ \A i \in 1..(z + l) : s[i] = ByteAt(mem', chain, o + i - 1)
  BY <1>2, <1>3, TextSeq
<1>9. /\ t \in Seq(Byte \cup {Garbage}) /\ Len(t) = z
      /\ \A i \in 1..z : t[i] = ByteAt(mem, old, o + i - 1)
  BY <1>4, TextSeq
<1>10. \A p \in 0..(start - 1) : ByteAt(mem, chain, p) = ByteAt(mem, old, p)
  <2>. TAKE p \in 0..(start - 1)
  <2>1. p \in Nat /\ p < start
    BY <1>6
  <2>2. 1 + (p \div BlockSize) \in 1..Len(old)
    BY <1>4, <1>6, <2>1, PlaceInChain
  <2>. QED
    BY <1>3, <2>2 DEF ByteAt, BlockAt
<1>. HIDE DEF s, t, o, z, l, start, chain, old
<1>11. /\ u \in Seq(Byte \cup {Garbage}) /\ Len(u) = z + l
       /\ \A i \in 1..(z + l) : u[i] = IF i <= z THEN t[i] ELSE d[i - z]
  <2>1. /\ t \in Seq(Byte \cup {Garbage}) /\ d \in Seq(Byte \cup {Garbage})
        /\ Len(t) = z /\ Len(d) = l
    BY <1>5, <1>9 DEF l
  <2>. QED
    BY <2>1, ConcatProperties
<1>. HIDE DEF u
<1>12. ASSUME NEW i \in 1..(z + l) PROVE s[i] = u[i]
  <2>1. s[i] = ByteAt(mem', chain, o + i - 1)
    BY <1>8
  <2>2. CASE i <= z
    <3>1. i \in 1..z /\ o + i - 1 \in 0..(start - 1)
      BY <1>4, <1>5, <2>2 DEF start
    <3>2. t[i] = ByteAt(mem, old, o + i - 1)
      BY <1>9, <3>1
    <3>. QED
      BY <1>7, <1>10, <1>11, <2>1, <2>2, <3>1, <3>2
  <2>3. CASE i > z
    <3>1. i - z \in 1..l /\ start + (i - z) - 1 = o + i - 1
      BY <1>4, <1>5, <2>3 DEF start
    <3>2. ByteAt(mem', chain, o + i - 1) = d[i - z]
      BY <1>7, <3>1
    <3>. QED
      BY <1>4, <1>11, <2>1, <2>3, <3>2
  <2>. QED
    BY <1>4, <1>5, <2>2, <2>3
<1>13. s = u
  BY <1>8, <1>11, <1>12, SeqEqual
<1>14. ASSUME NEW g \in Fd \ {f} PROVE Text(fds'[g], mem') = Text(fds[g], mem)
  <2>1. fds'[g] = fds[g] /\ fds[g] \in Buffer /\ Fits(fds[g]) /\ fds[g].chain \in Seq(Block)
    BY <1>3, TextFacts, BufferFacts
  <2>2. Range(fds'[f].chain) \cap Range(fds'[g].chain) = {}
    BY <1>1 DEF EveryBlockOnce, NoBlockTwice
  <2>3. Range(fds[g].chain) \subseteq Block
    BY <2>1, SeqRange
  <2>4. Agree(mem, mem', Range(fds[g].chain))
    BY <1>7, <2>1, <2>2, <2>3 DEF chain, Agree
  <2>5. Text(fds[g], mem') = Text(fds[g], mem)
    BY <2>1, <2>4, TextSame
  <2>. QED
    BY <2>1, <2>5
<1>. QED
  BY <1>13, <1>14 DEF s, t, u

\* push: the chain loses its first blocks, and a place moves down by their bytes.
LEMMA PushKeepsSuffix ==
  ASSUME EveryBlockOnce, NEW f \in Fd, NEW n \in 1..fds[f].size, Push(f, n)
  PROVE  /\ fds'[f].offset = OffsetAfter(fds[f], n) /\ fds'[f].size = fds[f].size - n
         /\ Done(fds[f], n) \in 0..Len(fds[f].chain)
         /\ n # fds[f].size =>
              fds[f].offset + n = BlockSize * Done(fds[f], n) + OffsetAfter(fds[f], n)
         /\ \A i \in 1..(Len(fds[f].chain) - Done(fds[f], n)) :
              fds'[f].chain[i] = fds[f].chain[Done(fds[f], n) + i]
         /\ mem' = mem /\ \A g \in Fd \ {f} : fds'[g] = fds[g]
<1>. DEFINE fb == fds[f]
            done == Done(fb, n)
            old == fb.chain
            given == SubSeq(old, 1, done)
            kept == SubSeq(old, done + 1, Len(old))
            o == OffsetAfter(fb, n)
            nb == [fb EXCEPT !.chain = kept, !.offset = o, !.size = fb.size - n]
<1>1. fds' = [fds EXCEPT ![f] = nb] /\ mem' = mem
  BY DEF Push
<1>2. /\ fb \in Buffer /\ old \in Seq(Block) /\ fb.size \in Nat /\ fb.offset \in Nat
      /\ fds \in [Fd -> Buffer] /\ Len(old) = BlocksFor(fb.offset + fb.size)
  BY BufferFacts
<1>3. /\ done \in 0..Len(old) /\ o \in 0..(BlockSize - 1) /\ fb.size - n \in Nat
      /\ n # fb.size => fb.offset + n = BlockSize * done + o
  <2>1. CASE n = fb.size
    <3>1. done = Len(old) /\ o = 0 /\ fb.size - n = 0
      BY <1>2, <2>1 DEF Done, OffsetAfter
    <3>2. Len(old) \in Nat
      BY <1>2, LenProperties
    <3>. QED
      BY <2>1, <3>1, <3>2, BufferAssumption
  <2>2. CASE n # fb.size
    <3>1. done = (fb.offset + n) \div BlockSize /\ o = (fb.offset + n) % BlockSize
      BY <2>2 DEF Done, OffsetAfter
    <3>. QED
      BY <1>2, <2>2, <3>1, PushFits
  <2>. QED
    BY <2>1, <2>2
<1>4. IsCut(old, done, given, kept) /\ IsChange(fb, nb, kept, o, fb.size - n)
  BY DEF IsCut, IsChange
<1>5. fds'[f] = nb /\ \A g \in Fd \ {f} : fds'[g] = fds[g]
  BY <1>1, <1>2
<1>. HIDE DEF nb, given, kept, old, done, o
<1>6. kept \in Seq(Block) /\ \A i \in 1..(Len(old) - done) : kept[i] = old[done + i]
  BY <1>2, <1>3, <1>4, CutSeq
<1>7. nb.chain = kept /\ nb.offset = o /\ nb.size = fb.size - n
  <2>1. fb \in Buffer
    BY <1>2
  <2>. HIDE DEF fb
  <2>. QED
    BY <2>1, <1>3, <1>4, <1>6, BufferChange
<1>8. old = fds[f].chain /\ done = Done(fds[f], n) /\ o = OffsetAfter(fds[f], n)
  BY DEF old, done, o
<1>. QED
  BY <1>1, <1>3, <1>5, <1>6, <1>7, <1>8

\* push takes the bytes the kernel took from the front of its descriptor, and
\* leaves those of the others.
LEMMA PushBytes ==
  ASSUME EveryBlockOnce, NEW f \in Fd, NEW n \in 1..fds[f].size, Push(f, n)
  PROVE  /\ Text(fds'[f], mem') = SubSeq(Text(fds[f], mem), n + 1, Len(Text(fds[f], mem)))
         /\ \A g \in Fd \ {f} : Text(fds'[g], mem') = Text(fds[g], mem)
<1>. DEFINE o == fds[f].offset  z == fds[f].size  o2 == OffsetAfter(fds[f], n)
            done == Done(fds[f], n)
            chain == fds'[f].chain  old == fds[f].chain
            s == Text(fds'[f], mem')  t == Text(fds[f], mem)
            front == SubSeq(t, 1, n)  back == SubSeq(t, n + 1, Len(t))
<1>1. EveryBlockOnce'
  BY PushInv
<1>2. fds'[f] \in Buffer /\ Fits(fds'[f]) /\ mem' \in Memory
  BY <1>1 DEF EveryBlockOnce, TypeOK, NoBlockLost, ChainFits, Memory, Fits
<1>3. /\ fds'[f].offset = o2 /\ fds'[f].size = z - n
      /\ done \in 0..Len(old)
      /\ n # z => o + n = BlockSize * done + o2
      /\ \A i \in 1..(Len(old) - done) : chain[i] = old[done + i]
      /\ mem' = mem /\ \A g \in Fd \ {f} : fds'[g] = fds[g]
  BY PushKeepsSuffix
<1>4. /\ o \in Nat /\ z \in Nat /\ old \in Seq(Block) /\ Len(old) = BlocksFor(o + z)
      /\ fds[f] \in Buffer /\ Fits(fds[f]) /\ mem \in Memory
  BY BufferFacts, TextFacts
<1>5. /\ s \in Seq(Byte \cup {Garbage}) /\ Len(s) = z - n
      /\ \A i \in 1..(z - n) : s[i] = ByteAt(mem, chain, o2 + i - 1)
  <2>1. /\ s \in Seq(Byte \cup {Garbage}) /\ Len(s) = fds'[f].size
        /\ \A i \in 1..fds'[f].size : s[i] = ByteAt(mem', chain, fds'[f].offset + i - 1)
    BY <1>2, TextSeq
  <2>. HIDE DEF s
  <2>. QED
    BY <1>3, <2>1
<1>6. /\ t \in Seq(Byte \cup {Garbage}) /\ Len(t) = z
      /\ \A i \in 1..z : t[i] = ByteAt(mem, old, o + i - 1)
  BY <1>4, TextSeq
<1>7. IsCut(t, n, front, back) /\ n \in 0..Len(t)
  BY <1>6 DEF IsCut
<1>8. chain \in Seq(Block) /\ o2 \in Nat /\ Len(chain) = BlocksFor(o2 + (z - n))
  BY <1>2, <1>3, BufferAssumption DEF Buffer, Fits
<1>. HIDE DEF front, back, s, t, o, z, o2, done, chain, old
<1>9. /\ back \in Seq(Byte \cup {Garbage}) /\ Len(back) = z - n
      /\ \A i \in 1..(z - n) : back[i] = t[n + i]
  BY <1>6, <1>7, CutSeq
<1>10. n \in Nat \ {0} /\ z - n \in Nat
  BY <1>4 DEF z
<1>11. ASSUME NEW i \in 1..(z - n) PROVE s[i] = back[i]
  <2>. DEFINE p == o2 + i - 1
  <2>1. i \in Nat /\ n # z /\ p \in Nat /\ p < o2 + (z - n) /\ o2 + (z - n) \in Nat
    BY <1>4, <1>8, <1>10
  <2>2. n + i \in 1..z
    BY <1>4, <1>10
  <2>3. /\ BlockSize \in Nat \ {0} /\ done \in Nat /\ BlockSize * done \in Nat
    <3>1. Len(old) \in Nat
      BY <1>4, LenProperties
    <3>. QED
      BY <1>3, <3>1, BufferAssumption
  <2>4. o + (n + i) - 1 = p + BlockSize * done
    BY <1>3, <1>4, <1>8, <1>10, <2>1, <2>3
  <2>. HIDE DEF p
  <2>5. /\ (p + BlockSize * done) \div BlockSize = done + (p \div BlockSize)
        /\ (p + BlockSize * done) % BlockSize = p % BlockSize
    BY <2>1, <2>3, DivShift
  <2>6. 1 + ((p + BlockSize * done) \div BlockSize) \in 1..Len(old)
    <3>1. p + BlockSize * done \in Nat /\ p + BlockSize * done < o + z /\ o + z \in Nat
      BY <1>4, <1>10, <2>1, <2>3, <2>4
    <3>. QED
      BY <1>4, <3>1, PlaceInChain
  <2>. DEFINE q == p \div BlockSize
  <2>7. q \in Nat /\ Len(old) \in Nat
    BY <1>4, <2>1, <2>3, DivMod, LenProperties
  <2>. HIDE DEF q
  <2>8. 1 + q \in 1..(Len(old) - done) /\ done + (1 + q) = 1 + (done + q)
    BY <2>3, <2>5, <2>6, <2>7 DEF q
  <2>9. chain[1 + q] = old[1 + (done + q)]
    BY <1>3, <2>8
  <2>10. ByteAt(mem, chain, p) = ByteAt(mem, old, p + BlockSize * done)
    BY <2>5, <2>9 DEF ByteAt, BlockAt, CellAt, q
  <2>. QED
    BY <1>5, <1>6, <1>9, <2>2, <2>4, <2>10 DEF p
<1>12. s = back
  BY <1>5, <1>9, <1>11, SeqEqual
<1>13. ASSUME NEW g \in Fd \ {f} PROVE Text(fds'[g], mem') = Text(fds[g], mem)
  BY <1>3
<1>. QED
  BY <1>12, <1>13 DEF s, t, back

\* The bytes of the descriptors, which is what ByteStream calls pending.
Bytes == [f \in Fd |-> Text(fds[f], mem)]

\* They are what StreamSpec puts for pending.
LEMMA PendingText == [f \in Fd |-> Pending(f)] = Bytes
BY DEF Bytes, Pending, Text, ByteAt

\* put is Accept of ByteStream.
LEMMA PutIsAccept ==
  ASSUME EveryBlockOnce, NEW f \in Fd, NEW d \in Data, Put(f, d)
  PROVE  Bytes' = [Bytes EXCEPT ![f] = Bytes[f] \o d]
BY PutBytes DEF Bytes

\* push is Write of the bytes the kernel took.
LEMMA PushIsWrite ==
  ASSUME EveryBlockOnce, NEW f \in Fd, NEW n \in 1..fds[f].size, Push(f, n)
  PROVE  /\ n \in 1..Len(Bytes[f])
         /\ Bytes' = [Bytes EXCEPT ![f] = SubSeq(Bytes[f], n + 1, Len(Bytes[f]))]
<1>1. n \in 1..Len(Bytes[f])
  BY TextFacts DEF Bytes
<1>2. Bytes' = [Bytes EXCEPT ![f] = SubSeq(Bytes[f], n + 1, Len(Bytes[f]))]
  BY PushBytes DEF Bytes
<1>. QED
  BY <1>1, <1>2

\* cleanup is Drop.
LEMMA CleanupIsDrop ==
  ASSUME EveryBlockOnce, NEW f \in Fd, Cleanup(f)
  PROVE  Bytes' = [Bytes EXCEPT ![f] = <<>>]
<1>1. fds' = [fds EXCEPT ![f] = EmptyBuffer] /\ mem' = mem
  BY DEF Cleanup
<1>2. fds \in [Fd -> Buffer] /\ EveryBlockOnce'
  BY BufferFacts, CleanupInv
<1>3. fds'[f] = EmptyBuffer /\ \A g \in Fd \ {f} : fds'[g] = fds[g]
  BY <1>1, <1>2
<1>4. EmptyBuffer \in Buffer /\ Fits(EmptyBuffer) /\ mem \in Memory
  BY <1>2, <1>3, TextFacts DEF EveryBlockOnce, TypeOK, NoBlockLost, ChainFits, Fits
<1>5. Text(EmptyBuffer, mem) = <<>>
  BY <1>4, TextNone DEF EmptyBuffer
<1>6. /\ Text(fds'[f], mem') = <<>>
      /\ \A g \in Fd \ {f} : Text(fds'[g], mem') = Text(fds[g], mem)
  BY <1>1, <1>3, <1>5
<1>. QED
  BY <1>6 DEF Bytes

\* setQuota and bpPool change no bytes.
LEMMA OthersStutter ==
  ASSUME EveryBlockOnce,
         \/ \E f \in Fd, q \in Quotas : SetQuota(f, q)
         \/ \E m \in PoolSizes : BpPool(m)
         \/ UNCHANGED vars
  PROVE  Bytes' = Bytes
<1>1. ASSUME NEW f \in Fd, NEW q \in Quotas, SetQuota(f, q) PROVE Bytes' = Bytes
  <2>1. fds' = [fds EXCEPT ![f].quota = q] /\ mem' = mem
    BY <1>1 DEF SetQuota
  <2>2. fds \in [Fd -> Buffer]
    BY BufferFacts
  <2>3. \A g \in Fd : /\ fds'[g].chain = fds[g].chain /\ fds'[g].offset = fds[g].offset
                      /\ fds'[g].size = fds[g].size
    BY <2>1, <2>2 DEF Buffer
  <2>4. \A g \in Fd : Text(fds'[g], mem') = Text(fds[g], mem)
    BY <2>1, <2>3 DEF Text
  <2>. QED
    BY <2>4 DEF Bytes
<1>2. ASSUME NEW m \in PoolSizes, BpPool(m) PROVE Bytes' = Bytes
  BY <1>2 DEF BpPool, Bytes
<1>3. ASSUME UNCHANGED vars PROVE Bytes' = Bytes
  BY <1>3 DEF vars, Bytes
<1>. QED
  BY <1>1, <1>2, <1>3

\* The initial state has no bytes.
LEMMA InitIsInit == Init => Stream!Init
<1>. SUFFICES ASSUME Init PROVE Bytes = [f \in Fd |-> <<>>]
  BY PendingText DEF Stream!Init
<1>1. EveryBlockOnce
  BY InitInv
<1>2. \A f \in Fd : Text(fds[f], mem) = <<>>
  <2>. TAKE f \in Fd
  <2>1. fds[f].size = 0
    BY DEF Init, EmptyBuffer
  <2>. QED
    BY <1>1, <2>1, TextFacts, TextNone
<1>. QED
  BY <1>2 DEF Bytes

\* Every call is a step of ByteStream or none.
LEMMA NextIsNext ==
  ASSUME EveryBlockOnce, [Next]_vars
  PROVE  [Stream!Next]_([f \in Fd |-> Pending(f)])
<1>1. ASSUME NEW f \in Fd, NEW d \in Data, Put(f, d)
      PROVE  Bytes' = [Bytes EXCEPT ![f] = Bytes[f] \o d]
  BY <1>1, PutIsAccept
<1>2. ASSUME NEW f \in Fd, NEW n \in 1..fds[f].size, Push(f, n)
      PROVE  /\ n \in 1..Len(Bytes[f])
             /\ Bytes' = [Bytes EXCEPT ![f] = SubSeq(Bytes[f], n + 1, Len(Bytes[f]))]
  BY <1>2, PushIsWrite
<1>3. ASSUME NEW f \in Fd, Cleanup(f) PROVE Bytes' = [Bytes EXCEPT ![f] = <<>>]
  BY <1>3, CleanupIsDrop
<1>4. ASSUME \/ \E f \in Fd, q \in Quotas : SetQuota(f, q)
             \/ \E m \in PoolSizes : BpPool(m)
             \/ UNCHANGED vars
      PROVE  Bytes' = Bytes
  BY <1>4, OthersStutter
<1>. DEFINE P == [f \in Fd |-> Pending(f)]
<1>5. P = Bytes /\ P' = Bytes'
  BY PendingText DEF Bytes, Pending, Text, ByteAt
<1>. HIDE DEF P
<1>6. CASE \E f \in Fd, d \in Data : Put(f, d)
  <2>1. PICK f \in Fd, d \in Data : P' = [P EXCEPT ![f] = P[f] \o d]
    BY <1>1, <1>5, <1>6
  <2>. QED
    BY <2>1 DEF Stream!Next, Stream!Accept, P
<1>7. CASE \E f \in Fd : \E n \in 1..fds[f].size : Push(f, n)
  <2>1. PICK f \in Fd : \E n \in 1..Len(P[f]) : P' = [P EXCEPT ![f] = SubSeq(P[f], n + 1, Len(P[f]))]
    BY <1>2, <1>5, <1>7
  <2>. QED
    BY <2>1 DEF Stream!Next, Stream!Write, P
<1>8. CASE \E f \in Fd : Cleanup(f)
  <2>1. PICK f \in Fd : P' = [P EXCEPT ![f] = <<>>]
    BY <1>3, <1>5, <1>8
  <2>. QED
    BY <2>1 DEF Stream!Next, Stream!Drop, P
<1>9. CASE \/ \E f \in Fd, q \in Quotas : SetQuota(f, q)
           \/ \E m \in PoolSizes : BpPool(m)
           \/ UNCHANGED vars
  <2>1. P' = P
    BY <1>4, <1>5, <1>9
  <2>. QED
    BY <2>1 DEF P
<1>. QED
  BY <1>6, <1>7, <1>8, <1>9 DEF Next

\* The buffers implement the byte queues of ByteStream: put appends all of its data
\* or nothing, push hands over a prefix, cleanup drops the queue, and no call on one
\* descriptor changes what another one has pending although they share the blocks.
THEOREM StreamCorrect == Spec => StreamSpec
<1>1. EveryBlockOnce /\ [Next]_vars => [Stream!Next]_([f \in Fd |-> Pending(f)])
  BY NextIsNext
<1>. QED
  BY InitIsInit, <1>1, BlocksCorrect, PTL DEF Spec, StreamSpec, Stream!Spec

(***************************************************************************)
(* The pointers: BlockChain with variables of its own, over the same       *)
(* constants.  Each of its states holds a free list, a local list of push  *)
(* and a chain for each descriptor (Held), and a step that keeps them is a *)
(* step of FileBuffer on those lists.                                      *)
(***************************************************************************)
CONSTANT NoFd
VARIABLES next, top, spare, reserved, info, bytes, pushing, unused

Chain == INSTANCE BlockChain WITH
  stack <- top, free_count <- spare, total_count <- reserved, fds <- info, mem <- bytes

\* What both modules take from the library is the same.
LEMMA ChainLibrary ==
  /\ \A S : Chain!Cardinality(S) = Cardinality(S)
  /\ \A s : Chain!Lists!Reverse(s) = Reverse(s)
BY DEF Chain!Cardinality, Cardinality, Chain!IsFiniteSet, IsFiniteSet, Chain!Lists!Reverse, Reverse

\* The order of the naturals, in the form that WFMin takes it.
LEMMA LessWellFounded == IsWellFoundedOn({ss \in Nat \X Nat : ss[1] < ss[2]}, Nat)
BY NatLessThanWellFounded DEF OpToRel

\* A set of numbers that is not empty has a least one.
LEMMA SmallestOf ==
  ASSUME NEW T, T \subseteq Nat, T # {}
  PROVE  \E x \in T : \A y \in T : x <= y
<1>. DEFINE R == {ss \in Nat \X Nat : ss[1] < ss[2]}
<1>1. PICK x \in T : \A y \in T : ~ (<<y, x>> \in R)
  BY LessWellFounded, WFMin
<1>2. ASSUME NEW y \in T PROVE x <= y
  <2>1. x \in Nat /\ y \in Nat
    OBVIOUS
  <2>2. ~ (<<y, x>> \in R)
    BY <1>1
  <2>3. ~ (y < x)
    BY <2>1, <2>2
  <2>. QED
    BY <2>1, <2>3
<1>. QED
  BY <1>2

\* A set that has 0, and with every number the next one, has them all.
LEMMA NatSetInduction ==
  ASSUME NEW T, 0 \in T, \A n \in Nat : n \in T => n + 1 \in T
  PROVE  Nat \subseteq T
<1>. SUFFICES ASSUME Nat \ T # {} PROVE FALSE
  OBVIOUS
<1>1. PICK x \in Nat \ T : \A y \in Nat \ T : x <= y
  BY SmallestOf
<1>2. x # 0 /\ x - 1 \in Nat
  OBVIOUS
<1>3. x - 1 \in T
  BY <1>1, <1>2
<1>. QED
  BY <1>2, <1>3

\* The sizes of intervals.
LEMMA IntervalSize ==
  ASSUME NEW n \in Nat
  PROVE  /\ IsFiniteSet(1..n) /\ Cardinality(1..n) = n
         /\ Cardinality(0..(n - 1)) = n
<1>1. 1 \in Int /\ n \in Int /\ 0 \in Int /\ n - 1 \in Int
  OBVIOUS
<1>2. IsFiniteSet(1..n) /\ Cardinality(1..n) = IF 1 > n THEN 0 ELSE n - 1 + 1
  BY <1>1, FS_Interval, Zenon
<1>3. Cardinality(0..(n - 1)) = IF 0 > n - 1 THEN 0 ELSE (n - 1) - 0 + 1
  BY <1>1, FS_Interval, Zenon
<1>. QED
  BY <1>2, <1>3

\* A sequence of blocks without repetition is no longer than there are blocks.
LEMMA BlocksBound ==
  ASSUME NEW s \in Seq(Block), IsInjective(s)
  PROVE  Len(s) \in 0..MaxBlocks
<1>1. MaxBlocks \in Nat /\ Len(s) \in Nat
  BY BufferAssumption, LenProperties
<1>2. s \in Injection(1..Len(s), Block)
  <2>1. s \in [1..Len(s) -> Block]
    BY LenProperties, ElementOfSeq
  <2>. QED
    BY <2>1 DEF Injection, IsInjective
<1>3. /\ Cardinality(1..Len(s)) = Len(s)
      /\ IsFiniteSet(Block) /\ Cardinality(Block) = MaxBlocks
  BY <1>1, IntervalSize DEF Block
<1>4. Cardinality(1..Len(s)) <= Cardinality(Block)
  BY <1>2, <1>3, FS_Injection
<1>. QED
  BY <1>1, <1>3, <1>4

(***************************************************************************)
(* Lists that are linked through next.                                     *)
(***************************************************************************)
NULL == 0

\* The element number i, or the pointer behind the end.
Nth(s, i) == IF i \in 1..Len(s) THEN s[i] ELSE NULL

\* In the links nx the list that starts at b has the blocks s.
Linked(nx, b, s) ==
  /\ s \in Seq(Block)
  /\ b = Nth(s, 1)
  /\ \A i \in 1..Len(s) : nx[s[i]] = Nth(s, i + 1)

\* It is NULL behind the end only.
LEMMA NthFacts ==
  ASSUME NEW s \in Seq(Block), NEW i \in Nat
  PROVE  /\ Nth(s, i) \in Block \cup {NULL}
         /\ Nth(s, i) # NULL <=> i \in 1..Len(s)
         /\ i \in 1..Len(s) => Nth(s, i) = s[i] /\ s[i] \in Block
<1>1. i \in 1..Len(s) => s[i] \in Block
  BY ElementOfSeq
<1>. QED
  BY <1>1 DEF Nth, NULL, Block

\* ListOf finds it.
LEMMA LinkedList ==
  ASSUME NEW nx, NEW b, NEW s, Linked(nx, b, s), Len(s) <= MaxBlocks
  PROVE  Chain!ListOf(nx, b) = s
<1>. DEFINE at[i \in 0..MaxBlocks] ==
              IF i = 0 THEN b ELSE IF at[i - 1] = Chain!NULL THEN Chain!NULL ELSE nx[at[i - 1]]
            Step(g) == [i \in 0..MaxBlocks |->
              IF i = 0 THEN b ELSE IF g[i - 1] = Chain!NULL THEN Chain!NULL ELSE nx[g[i - 1]]]
            r == [i \in 0..MaxBlocks |-> Nth(s, i + 1)]
<1>1. MaxBlocks \in Nat /\ s \in Seq(Block) /\ Len(s) \in Nat
  BY BufferAssumption, LenProperties DEF Linked
<1>2. r = Step(r)
  <2>1. ASSUME NEW i \in 0..MaxBlocks
        PROVE  r[i] = IF i = 0 THEN b ELSE IF r[i - 1] = NULL THEN NULL ELSE nx[r[i - 1]]
    <3>1. CASE i = 0
      BY <3>1 DEF Linked
    <3>2. CASE i # 0
      <4>1. i \in Nat /\ i - 1 \in 0..MaxBlocks /\ r[i - 1] = Nth(s, i)
        BY <1>1, <3>2
      <4>2. CASE i \in 1..Len(s)
        BY <1>1, <3>2, <4>1, <4>2, NthFacts DEF Linked
      <4>3. CASE i \notin 1..Len(s)
        <5>1. Nth(s, i) = NULL /\ Nth(s, i + 1) = NULL
          BY <1>1, <4>1, <4>3 DEF Nth
        <5>. QED
          BY <3>2, <4>1, <5>1
      <4>. QED
        BY <4>2, <4>3
    <3>. QED
      BY <3>1, <3>2
  <2>. QED
    BY <2>1 DEF Chain!NULL, NULL
<1>3. at = Step(at)
  <2>1. at = CHOOSE g : g = Step(g)
    OBVIOUS
  <2>. HIDE DEF at, Step
  <2>. QED
    BY <1>2, <2>1
<1>9. Chain!ListOf(nx, b)
        = [i \in 1..Cardinality({j \in 0..MaxBlocks : at[j] # Chain!NULL}) |-> at[i - 1]]
  BY ChainLibrary DEF Chain!ListOf
<1>. HIDE DEF at
<1>. DEFINE T == {i \in Nat : i <= MaxBlocks => at[i] = r[i]}
<1>4. 0 \in T
  <2>1. \A g : g = Step(g) => g[0] = b
    BY <1>1
  <2>. HIDE DEF Step, r
  <2>. QED
    BY <1>2, <1>3, <2>1
<1>5. ASSUME NEW k \in Nat, k \in T PROVE k + 1 \in T
  <2>. SUFFICES ASSUME k + 1 <= MaxBlocks PROVE at[k + 1] = r[k + 1]
    OBVIOUS
  <2>. DEFINE Then(p) == IF p = Chain!NULL THEN Chain!NULL ELSE nx[p]
  <2>0. \A g : g = Step(g) => g[k + 1] = Then(g[k])
    <3>. TAKE g
    <3>. HAVE g = Step(g)
    <3>1. k + 1 \in 0..MaxBlocks /\ k + 1 # 0 /\ (k + 1) - 1 = k
      BY <1>1
    <3>2. g[k + 1] = Step(g)[k + 1]
      OBVIOUS
    <3>. QED
      BY <3>1, <3>2
  <2>. HIDE DEF Step, Then, r
  <2>1. at[k + 1] = Then(at[k]) /\ r[k + 1] = Then(r[k])
    BY <1>2, <1>3, <2>0
  <2>2. at[k] = r[k]
    BY <1>1, <1>5
  <2>. QED
    BY <2>1, <2>2
<1>. HIDE DEF T
<1>6. \A i \in 0..MaxBlocks : at[i] = Nth(s, i + 1)
  <2>1. \A i \in 0..MaxBlocks : i \in Nat /\ i <= MaxBlocks /\ i \in T
    BY <1>1, <1>4, <1>5, NatSetInduction
  <2>. QED
    BY <2>1 DEF T
<1>7. {j \in 0..MaxBlocks : at[j] # Chain!NULL} = 0..(Len(s) - 1)
  <2>1. \A j \in 0..MaxBlocks : at[j] # NULL <=> j \in 0..(Len(s) - 1)
    <3>. TAKE j \in 0..MaxBlocks
    <3>1. at[j] # NULL <=> j + 1 \in 1..Len(s)
      BY <1>1, <1>6, NthFacts
    <3>. QED
      BY <1>1, <3>1
  <2>2. 0..(Len(s) - 1) \subseteq 0..MaxBlocks
    BY <1>1
  <2>. QED
    BY <2>1, <2>2 DEF Chain!NULL, NULL
<1>8. Cardinality(0..(Len(s) - 1)) = Len(s)
  BY <1>1, IntervalSize
<1>10. Chain!ListOf(nx, b) = [i \in 1..Len(s) |-> at[i - 1]]
  BY <1>7, <1>8, <1>9
<1>11. \A i \in 1..Len(s) : at[i - 1] = s[i]
  <2>. TAKE i \in 1..Len(s)
  <2>1. i - 1 \in 0..MaxBlocks /\ (i - 1) + 1 = i
    BY <1>1
  <2>. QED
    BY <1>1, <1>6, <2>1, NthFacts
<1>12. s = [i \in 1..Len(s) |-> s[i]]
  BY <1>1, LenProperties
<1>. QED
  BY <1>10, <1>11, <1>12

\* The block n steps behind b.
LEMMA LinkedWalk ==
  ASSUME NEW nx, NEW b, NEW s, Linked(nx, b, s), NEW n \in 0..Len(s)
  PROVE  Chain!Walk(nx, b, n) = Nth(s, n + 1)
<1>. DEFINE at[i \in 0..n] == IF i = 0 THEN b ELSE nx[at[i - 1]]
            Step(g) == [i \in 0..n |-> IF i = 0 THEN b ELSE nx[g[i - 1]]]
            r == [i \in 0..n |-> Nth(s, i + 1)]
<1>1. s \in Seq(Block) /\ Len(s) \in Nat /\ n \in Nat
  BY LenProperties DEF Linked
<1>2. r = Step(r)
  <2>1. ASSUME NEW i \in 0..n
        PROVE  r[i] = IF i = 0 THEN b ELSE nx[r[i - 1]]
    <3>1. CASE i = 0
      BY <3>1 DEF Linked
    <3>2. CASE i # 0
      <4>1. i \in 1..Len(s) /\ i - 1 \in 0..n /\ r[i - 1] = Nth(s, i)
        BY <1>1, <3>2
      <4>. QED
        BY <1>1, <3>2, <4>1, NthFacts DEF Linked
    <3>. QED
      BY <3>1, <3>2
  <2>. QED
    BY <2>1
<1>3. at = Step(at)
  <2>1. at = CHOOSE g : g = Step(g)
    OBVIOUS
  <2>. HIDE DEF at, Step
  <2>. QED
    BY <1>2, <2>1
<1>4. Chain!Walk(nx, b, n) = at[n]
  BY DEF Chain!Walk
<1>. HIDE DEF at
<1>. DEFINE T == {i \in Nat : i <= n => at[i] = r[i]}
<1>5. 0 \in T
  <2>1. \A g : g = Step(g) => g[0] = b
    BY <1>1
  <2>. HIDE DEF Step, r
  <2>. QED
    BY <1>2, <1>3, <2>1
<1>6. ASSUME NEW k \in Nat, k \in T PROVE k + 1 \in T
  <2>. SUFFICES ASSUME k + 1 <= n PROVE at[k + 1] = r[k + 1]
    OBVIOUS
  <2>1. \A g : g = Step(g) => g[k + 1] = nx[g[k]]
    <3>. TAKE g
    <3>. HAVE g = Step(g)
    <3>1. k + 1 \in 0..n /\ k + 1 # 0 /\ (k + 1) - 1 = k
      BY <1>1
    <3>2. g[k + 1] = Step(g)[k + 1]
      OBVIOUS
    <3>. QED
      BY <3>1, <3>2
  <2>2. at[k] = r[k]
    BY <1>1, <1>6
  <2>. HIDE DEF Step, r
  <2>. QED
    BY <1>2, <1>3, <2>1, <2>2
<1>. HIDE DEF T
<1>7. n \in T
  BY <1>1, <1>5, <1>6, NatSetInduction
<1>8. at[n] = Nth(s, n + 1)
  BY <1>1, <1>7 DEF T
<1>. QED
  BY <1>4, <1>8

\* Blocks that are not in a list may be linked anew.
LEMMA LinkedFrame ==
  ASSUME NEW nx, NEW b, NEW s, Linked(nx, b, s), NEW nx2, \A x \in Range(s) : nx2[x] = nx[x]
  PROVE  Linked(nx2, b, s)
<1>1. \A i \in 1..Len(s) : s[i] \in Range(s)
  BY SeqRange DEF Linked
<1>. QED
  BY <1>1 DEF Linked

\* The pointer to a list is NULL if the list is empty.
LEMMA LinkedNone ==
  ASSUME NEW nx, NEW b, NEW s, Linked(nx, b, s)
  PROVE  /\ b \in Block \cup {NULL}
         /\ Len(s) \in Nat
         /\ b = NULL <=> Len(s) = 0
         /\ b = NULL <=> s = <<>>
         /\ b # NULL => s[1] = b /\ b \in Range(s)
         /\ Len(s) > 0 => s[Len(s)] \in Range(s) /\ s[Len(s)] \in Block
<1>1. s \in Seq(Block) /\ b = Nth(s, 1)
  BY DEF Linked
<1>2. Len(s) \in Nat
  BY <1>1, LenProperties
<1>3. b \in Block \cup {NULL} /\ (b # NULL <=> 1 \in 1..Len(s)) /\ (b # NULL => s[1] = b)
  BY <1>1, NthFacts
<1>4. s = <<>> <=> Len(s) = 0
  BY <1>1, EmptySeq
<1>5. \A i \in 1..Len(s) : s[i] \in Range(s) /\ s[i] \in Block
  BY <1>1, SeqRange
<1>. QED
  BY <1>2, <1>3, <1>4, <1>5

\* The empty list is the pointer NULL.
LEMMA LinkedEmpty ==
  ASSUME NEW nx
  PROVE  Linked(nx, NULL, <<>>)
<1>1. <<>> \in Seq(Block) /\ Len(<<>>) = 0
  BY EmptySeq
<1>. QED
  BY <1>1 DEF Linked, Nth

\* Two lists in one: the end of s is linked to the head of t.
LEMMA LinkedJoin ==
  ASSUME NEW nx, NEW b, NEW s \in Seq(Block), NEW c, NEW t, Linked(nx, c, t), NEW u, IsJoin(u, s, t),
         Len(s) > 0, b = s[1],
         \A i \in 1..(Len(s) - 1) : nx[s[i]] = s[i + 1],
         nx[s[Len(s)]] = c
  PROVE  Linked(nx, b, u)
<1>1. /\ t \in Seq(Block) /\ c = Nth(t, 1)
      /\ \A i \in 1..Len(t) : nx[t[i]] = Nth(t, i + 1)
  BY DEF Linked
<1>2. /\ u \in Seq(Block) /\ Len(u) = Len(s) + Len(t) /\ Len(s) \in Nat /\ Len(t) \in Nat
      /\ \A i \in 1..(Len(s) + Len(t)) : u[i] = IF i <= Len(s) THEN s[i] ELSE t[i - Len(s)]
  BY <1>1, ConcatProperties, LenProperties DEF IsJoin
<1>3. b = Nth(u, 1)
  BY <1>2 DEF Nth
<1>4. ASSUME NEW i \in 1..(Len(s) + Len(t)) PROVE nx[u[i]] = Nth(u, i + 1)
  <2>1. CASE i < Len(s)
    <3>1. i \in 1..(Len(s) - 1) /\ i + 1 \in 1..Len(u) /\ u[i] = s[i] /\ u[i + 1] = s[i + 1]
      BY <1>2, <2>1
    <3>. QED
      BY <3>1 DEF Nth
  <2>2. CASE i = Len(s)
    <3>1. u[i] = s[Len(s)]
      BY <1>2, <2>2
    <3>2. Nth(u, i + 1) = Nth(t, 1)
      <4>1. CASE Len(t) = 0
        <5>1. i + 1 \notin 1..Len(u) /\ 1 \notin 1..Len(t)
          BY <1>2, <2>2, <4>1
        <5>. QED
          BY <5>1 DEF Nth
      <4>2. CASE Len(t) # 0
        <5>1. i + 1 \in 1..Len(u) /\ 1 \in 1..Len(t) /\ u[i + 1] = t[1]
          BY <1>2, <2>2, <4>2
        <5>. QED
          BY <5>1 DEF Nth
      <4>. QED
        BY <4>1, <4>2
    <3>. QED
      BY <1>1, <3>1, <3>2
  <2>3. CASE i > Len(s)
    <3>1. i - Len(s) \in 1..Len(t) /\ u[i] = t[i - Len(s)]
      BY <1>2, <2>3
    <3>2. Nth(u, i + 1) = Nth(t, (i - Len(s)) + 1)
      <4>1. CASE i = Len(s) + Len(t)
        <5>1. i + 1 \notin 1..Len(u) /\ (i - Len(s)) + 1 \notin 1..Len(t)
          BY <1>2, <4>1
        <5>. QED
          BY <5>1 DEF Nth
      <4>2. CASE i < Len(s) + Len(t)
        <5>2. i + 1 \in 1..(Len(s) + Len(t)) /\ (i - Len(s)) + 1 \in 1..Len(t)
              /\ ~ (i + 1 <= Len(s)) /\ (i + 1) - Len(s) = (i - Len(s)) + 1
          BY <1>2, <2>3, <4>2
        <5>1. i + 1 \in 1..Len(u) /\ (i - Len(s)) + 1 \in 1..Len(t)
              /\ u[i + 1] = t[(i - Len(s)) + 1]
          BY <1>2, <5>2
        <5>. QED
          BY <5>1 DEF Nth
      <4>. QED
        BY <1>2, <4>1, <4>2
    <3>. QED
      BY <1>1, <3>1, <3>2
  <2>. QED
    BY <1>2, <2>1, <2>2, <2>3
<1>. QED
  BY <1>2, <1>3, <1>4 DEF Linked

\* A list in two: the first n blocks end when the last of them is unlinked, and the
\* others are a list as they are.
LEMMA LinkedCut ==
  ASSUME NEW nx, NEW b, NEW s, Linked(nx, b, s), NEW n \in 0..Len(s), NEW a, NEW r, IsCut(s, n, a, r)
  PROVE  /\ Linked(nx, Nth(s, n + 1), r)
         /\ n > 0 => /\ a[1] = b /\ a[n] = s[n]
                     /\ \A i \in 1..(n - 1) : nx[a[i]] = a[i + 1]
<1>1. s \in Seq(Block) /\ b = Nth(s, 1) /\ \A i \in 1..Len(s) : nx[s[i]] = Nth(s, i + 1)
  BY DEF Linked
<1>2. Len(s) \in Nat /\ n \in Nat
  BY <1>1, LenProperties
<1>3. /\ a \in Seq(Block) /\ Len(a) = n /\ \A i \in 1..n : a[i] = s[i]
      /\ r \in Seq(Block) /\ Len(r) = Len(s) - n
      /\ \A i \in 1..(Len(s) - n) : r[i] = s[n + i]
  BY <1>1, CutSeq
<1>4. \A i \in 1..(Len(s) - n + 1) : Nth(r, i) = Nth(s, n + i)
  <2>. TAKE i \in 1..(Len(s) - n + 1)
  <2>1. CASE i = Len(s) - n + 1
    <3>1. i \notin 1..Len(r) /\ n + i \notin 1..Len(s)
      BY <1>2, <1>3, <2>1
    <3>. QED
      BY <3>1 DEF Nth
  <2>2. CASE i # Len(s) - n + 1
    <3>1. i \in 1..Len(r) /\ n + i \in 1..Len(s) /\ r[i] = s[n + i]
      BY <1>2, <1>3, <2>2
    <3>. QED
      BY <3>1 DEF Nth
  <2>. QED
    BY <2>1, <2>2
<1>5. Linked(nx, Nth(s, n + 1), r)
  <2>1. Nth(s, n + 1) = Nth(r, 1)
    BY <1>2, <1>4
  <2>2. ASSUME NEW i \in 1..Len(r) PROVE nx[r[i]] = Nth(r, i + 1)
    <3>1. /\ i \in 1..(Len(s) - n) /\ n + i \in 1..Len(s)
          /\ i + 1 \in 1..(Len(s) - n + 1) /\ (n + i) + 1 = n + (i + 1)
      BY <1>2, <1>3
    <3>2. r[i] = s[n + i] /\ Nth(r, i + 1) = Nth(s, n + (i + 1))
      BY <1>3, <1>4, <3>1
    <3>3. nx[s[n + i]] = Nth(s, (n + i) + 1)
      BY <1>1, <3>1
    <3>. QED
      BY <3>1, <3>2, <3>3
  <2>. QED
    BY <1>3, <2>1, <2>2 DEF Linked
<1>6. ASSUME n > 0
      PROVE  /\ a[1] = b /\ a[n] = s[n]
             /\ \A i \in 1..(n - 1) : nx[a[i]] = a[i + 1]
  <2>1. a[1] = b /\ a[n] = s[n]
    BY <1>1, <1>2, <1>3, <1>6 DEF Nth
  <2>2. ASSUME NEW i \in 1..(n - 1) PROVE nx[a[i]] = a[i + 1]
    <3>1. i \in 1..n /\ i + 1 \in 1..n /\ i \in 1..Len(s) /\ i + 1 \in 1..Len(s)
      BY <1>2
    <3>. QED
      BY <1>1, <1>3, <3>1 DEF Nth
  <2>. QED
    BY <2>1, <2>2
<1>. QED
  BY <1>5, <1>6

(***************************************************************************)
(* The lists of the pool and of the descriptors.                           *)
(***************************************************************************)
\* The free blocks, those that push has unlinked, and the chains c: no block is in
\* two of them, or twice in one.
Apart(free, loose, c) ==
  /\ free \in Seq(Block) /\ IsInjective(free)
  /\ loose \in Seq(Block) /\ IsInjective(loose)
  /\ Range(free) \cap Range(loose) = {}
  /\ \A f \in Fd : /\ c[f] \in Seq(Block) /\ IsInjective(c[f])
                   /\ Range(c[f]) \cap Range(free) = {}
                   /\ Range(c[f]) \cap Range(loose) = {}
  /\ \A f, g \in Fd : f # g => Range(c[f]) \cap Range(c[g]) = {}

\* Out of the lists free, loose and k come free2, loose2 and k2.
Moves(free, loose, k, free2, loose2, k2) ==
  /\ free2 \in Seq(Block) /\ IsInjective(free2)
  /\ loose2 \in Seq(Block) /\ IsInjective(loose2)
  /\ k2 \in Seq(Block) /\ IsInjective(k2)
  /\ Range(free2) \cap Range(loose2) = {}
  /\ Range(k2) \cap Range(free2) = {}
  /\ Range(k2) \cap Range(loose2) = {}
  /\ Range(free2) \cup Range(loose2) \cup Range(k2)
       \subseteq Range(free) \cup Range(loose) \cup Range(k)

\* The pool and one chain exchange blocks.
LEMMA ApartExchange ==
  ASSUME NEW free, NEW loose, NEW c, Apart(free, loose, c), NEW f \in Fd,
         NEW free2, NEW loose2, NEW k, Moves(free, loose, c[f], free2, loose2, k),
         NEW c2, c2[f] = k, \A g \in Fd \ {f} : c2[g] = c[g]
  PROVE  Apart(free2, loose2, c2)
<1>0. /\ free2 \in Seq(Block) /\ IsInjective(free2)
      /\ loose2 \in Seq(Block) /\ IsInjective(loose2)
      /\ k \in Seq(Block) /\ IsInjective(k)
      /\ Range(free2) \cap Range(loose2) = {}
      /\ Range(k) \cap Range(free2) = {}
      /\ Range(k) \cap Range(loose2) = {}
      /\ Range(free2) \cup Range(loose2) \cup Range(k)
           \subseteq Range(free) \cup Range(loose) \cup Range(c[f])
  BY DEF Moves
<1>1. ASSUME NEW g \in Fd, g # f
      PROVE  /\ c2[g] \in Seq(Block) /\ IsInjective(c2[g])
             /\ Range(c2[g]) \cap Range(free2) = {}
             /\ Range(c2[g]) \cap Range(loose2) = {}
             /\ Range(c2[g]) \cap Range(k) = {}
  <2>1. /\ c2[g] = c[g] /\ c[g] \in Seq(Block) /\ IsInjective(c[g])
        /\ Range(c[g]) \cap Range(free) = {} /\ Range(c[g]) \cap Range(loose) = {}
        /\ Range(c[g]) \cap Range(c[f]) = {}
    BY <1>1 DEF Apart
  <2>. QED
    BY <1>0, <2>1
<1>2. ASSUME NEW g \in Fd, NEW h \in Fd, g # h PROVE Range(c2[g]) \cap Range(c2[h]) = {}
  <2>1. CASE g = f
    BY <1>1, <1>2, <2>1
  <2>2. CASE h = f
    BY <1>1, <1>2, <2>2
  <2>3. CASE g # f /\ h # f
    BY <1>2, <2>3 DEF Apart
  <2>. QED
    BY <2>1, <2>2, <2>3
<1>3. \A g \in Fd : /\ c2[g] \in Seq(Block) /\ IsInjective(c2[g])
                   /\ Range(c2[g]) \cap Range(free2) = {}
                   /\ Range(c2[g]) \cap Range(loose2) = {}
  BY <1>0, <1>1
<1>. QED
  BY <1>0, <1>2, <1>3 DEF Apart

\* In the links nx the lists at t, at u and at the descriptors' first are these.
Kept(nx, t, u, inf, free, loose, c) ==
  /\ Linked(nx, t, free)
  /\ Linked(nx, u, loose)
  /\ \A f \in Fd : Linked(nx, inf[f].first, c[f])
  /\ Apart(free, loose, c)

\* ListOf finds all of them.
LEMMA KeptLists ==
  ASSUME NEW nx, NEW t, NEW u, NEW inf, NEW free, NEW loose, NEW c,
         Kept(nx, t, u, inf, free, loose, c)
  PROVE  /\ Chain!ListOf(nx, t) = free /\ Len(free) \in 0..MaxBlocks
         /\ Chain!ListOf(nx, u) = loose /\ Len(loose) \in 0..MaxBlocks
         /\ \A f \in Fd : Chain!ListOf(nx, inf[f].first) = c[f] /\ Len(c[f]) \in 0..MaxBlocks
<1>1. \A s \in Seq(Block) : \A b : IsInjective(s) /\ Linked(nx, b, s) =>
        Chain!ListOf(nx, b) = s /\ Len(s) \in 0..MaxBlocks
  <2>. TAKE s \in Seq(Block)
  <2>. TAKE b
  <2>. HAVE IsInjective(s) /\ Linked(nx, b, s)
  <2>1. Len(s) \in 0..MaxBlocks /\ Len(s) <= MaxBlocks
    BY BlocksBound
  <2>. QED
    BY <2>1, LinkedList
<1>. QED
  BY <1>1 DEF Kept, Apart

\* Blocks that were reserved.
Within(free, loose, c, n) ==
  /\ Range(free) \cup Range(loose) \subseteq 1..n
  /\ \A f \in Fd : Range(c[f]) \subseteq 1..n

\* A descriptor's entry, and one that fits its chain s.
Info == [first : Block \cup {NULL}, last : Block \cup {NULL}, offset : 0..(BlockSize - 1),
         size : Nat, quota : Nat]

Right(fb, s) ==
  /\ fb.size = 0 => fb.offset = 0
  /\ Len(s) = BlocksFor(fb.offset + fb.size)
  /\ fb.size > 0 => fb.last = s[Len(s)]

\* The lists that the pointers make.
Held(free, loose, c) ==
  /\ next \in [Block -> Block \cup {NULL}]
  /\ reserved \in 0..MaxBlocks
  /\ info \in [Fd -> Info]
  /\ bytes \in Memory
  /\ pushing \in Fd \cup {NoFd}
  /\ pushing = NoFd => loose = <<>>
  /\ c \in [Fd -> Seq(Block)]
  /\ Kept(next, top, unused, info, free, loose, c)
  /\ Within(free, loose, c, reserved)
  /\ spare = Len(free)
  /\ \A f \in Fd : Right(info[f], c[f])

\* The two modules have the same operators on constants.
LEMMA ChainSame ==
  /\ Chain!Block = Block /\ Chain!NULL = NULL
  /\ \A n : Chain!BlocksFor(n) = BlocksFor(n)
  /\ \A fb : Chain!Rest(fb) = Rest(fb) /\ Chain!End(fb) = (fb.offset + fb.size) % BlockSize
  /\ \A fb, len : Chain!Lists!Need(fb, len) = Need(fb, len)
  /\ \A fb, len : Chain!Lists!OverQuota(fb, len) = OverQuota(fb, len)
  /\ \A fb, n : Chain!Lists!Done(fb, n) = Done(fb, n)
  /\ \A fb, n : Chain!Lists!OffsetAfter(fb, n) = OffsetAfter(fb, n)
  /\ \A ch, p : Chain!Lists!BlockAt(ch, p) = BlockAt(ch, p)
  /\ \A p : Chain!Lists!CellAt(p) = CellAt(p)
  /\ Chain!Lists!EmptyBuffer = EmptyBuffer
BY DEF Chain!Block, Block, Chain!NULL, NULL, Chain!BlocksFor, BlocksFor, Chain!Rest, Rest,
       Chain!End, Chain!Lists!Need, Need, Chain!Lists!Rest, Chain!Lists!BlocksFor,
       Chain!Lists!OverQuota, OverQuota, Chain!Lists!Done, Done,
       Chain!Lists!OffsetAfter, OffsetAfter, Chain!Lists!BlockAt, BlockAt,
       Chain!Lists!CellAt, CellAt, Chain!Lists!EmptyBuffer, EmptyBuffer

\* What the pointers have to be: every list ends, and last is the end of its chain.
LEMMA HeldSound ==
  ASSUME NEW free, NEW loose, NEW c, Held(free, loose, c)
  PROVE  Chain!ListsSound
<1>1. /\ Chain!ListOf(next, top) = free /\ Len(free) \in 0..MaxBlocks
      /\ Chain!ListOf(next, unused) = loose /\ Len(loose) \in 0..MaxBlocks
      /\ \A f \in Fd : /\ Chain!ListOf(next, info[f].first) = c[f]
                       /\ Len(c[f]) \in 0..MaxBlocks
  BY KeptLists DEF Held
<1>2. top \in Block \cup {NULL} /\ unused \in Block \cup {NULL}
  BY LinkedNone DEF Held, Kept
<1>3. Chain!TypeOK
  <2>1. spare \in 0..MaxBlocks
    BY <1>1 DEF Held
  <2>. QED
    BY <1>2, <2>1, ChainSame DEF Held, Chain!TypeOK, Info, Memory
<1>4. Chain!ListsEnd
  BY <1>1 DEF Chain!ListsEnd
<1>5. Chain!LastIsEnd
  <2>. SUFFICES ASSUME NEW f \in Fd, info[f].size > 0
                PROVE  info[f].last # NULL /\ info[f].last = c[f][Len(c[f])]
    BY <1>1, ChainSame DEF Chain!LastIsEnd
  <2>1. /\ info[f] \in Info /\ Right(info[f], c[f]) /\ Linked(next, info[f].first, c[f])
        /\ info[f].offset \in Nat /\ info[f].size \in Nat
    BY BufferAssumption DEF Held, Kept, Info
  <2>2. BlocksFor(info[f].offset + info[f].size) # 0
    <3>1. info[f].offset + info[f].size \in Nat /\ BlockSize * 0 = 0
      BY <2>1, BufferAssumption
    <3>. QED
      BY <2>1, <3>1, BlocksHold
  <2>3. Len(c[f]) > 0 /\ info[f].last = c[f][Len(c[f])]
    BY <1>1, <2>1, <2>2 DEF Right
  <2>. QED
    BY <2>1, <2>3, LinkedNone DEF NULL, Block
<1>. QED
  BY <1>3, <1>4, <1>5 DEF Chain!ListsSound

(***************************************************************************)
(* What FileBuffer sees.                                                   *)
(***************************************************************************)
\* The variables that ListsSpec puts for stack, free_count and fds.
TheStack == Chain!ListOf(next, unused) \o Chain!ListOf(next, top)
TheCount == spare + Len(Chain!ListOf(next, unused))
TheFds ==
  [f \in Fd |-> [chain |-> Chain!ListOf(next, info[f].first), offset |-> info[f].offset,
                 size |-> info[f].size, quota |-> info[f].quota]]

\* The entries with their chains.
ToBuffer(fb, s) == [chain |-> s, offset |-> fb.offset, size |-> fb.size, quota |-> fb.quota]
View(inf, c) == [f \in Fd |-> ToBuffer(inf[f], c[f])]

\* They are these lists.
LEMMA SeenNow ==
  ASSUME NEW free, NEW loose, NEW c, Held(free, loose, c)
  PROVE  /\ TheStack = loose \o free
         /\ TheCount = Len(free) + Len(loose)
         /\ TheFds = View(info, c)
<1>1. /\ Chain!ListOf(next, top) = free /\ Chain!ListOf(next, unused) = loose
      /\ \A f \in Fd : Chain!ListOf(next, info[f].first) = c[f]
  BY KeptLists DEF Held
<1>. QED
  BY <1>1 DEF TheStack, TheCount, TheFds, View, ToBuffer, Held

\* The same after a step.
LEMMA SeenNext ==
  ASSUME NEW free, NEW loose, NEW c, Held(free, loose, c)'
  PROVE  /\ TheStack' = loose \o free
         /\ TheCount' = Len(free) + Len(loose)
         /\ TheFds' = View(info', c)
<1>1. /\ Chain!ListOf(next', top') = free /\ Chain!ListOf(next', unused') = loose
      /\ \A f \in Fd : Chain!ListOf(next', info'[f].first) = c[f]
  BY KeptLists DEF Held
<1>. QED
  BY <1>1 DEF TheStack, TheCount, TheFds, View, ToBuffer, Held

\* At first there are no blocks.
LEMMA ChainInit ==
  ASSUME NoFd \notin Fd, Chain!Init
  PROVE  \E free, loose, c : Held(free, loose, c) /\ Chain!Lists!Init
<1>. DEFINE c == [f \in Fd |-> <<>>]
<1>1. /\ next = [b \in Block |-> NULL] /\ top = NULL /\ spare = 0 /\ reserved = 0
      /\ \A f \in Fd : /\ info[f].first = NULL /\ info[f].last = NULL
                       /\ info[f].offset = 0 /\ info[f].size = 0 /\ info[f].quota = 0
      /\ info \in [Fd -> Info]
      /\ bytes = [b \in Block |-> [cell \in 0..(BlockSize - 1) |-> Garbage]]
      /\ pushing = NoFd /\ unused = NULL
  BY ChainSame, BufferAssumption DEF Chain!Init, Chain!EmptyBuffer, Info
<1>2. /\ <<>> \in Seq(Block) /\ Len(<<>>) = 0 /\ Range(<<>>) = {} /\ IsInjective(<<>>)
  <2>1. <<>> \in Seq(Block) /\ Len(<<>>) = 0 /\ 1..Len(<<>>) = {}
    BY EmptySeq
  <2>. QED
    BY <2>1, SeqRange
<1>3. Kept(next, top, unused, info, <<>>, <<>>, c)
  <2>1. Apart(<<>>, <<>>, c)
    BY <1>2 DEF Apart
  <2>. QED
    BY <1>1, <2>1, LinkedEmpty DEF Kept
<1>4. \A f \in Fd : Right(info[f], c[f])
  BY <1>1, <1>2, BlocksForNone DEF Right
<1>5. MaxBlocks \in Nat /\ 0 \in 0..MaxBlocks
  BY BufferAssumption
<1>6. bytes \in Memory
  BY <1>1 DEF Memory
<1>7. Within(<<>>, <<>>, c, reserved)
  BY <1>2 DEF Within
<1>8. c \in [Fd -> Seq(Block)]
  BY <1>2
<1>. HIDE DEF c
<1>9. Held(<<>>, <<>>, c)
  BY <1>1, <1>2, <1>3, <1>4, <1>5, <1>6, <1>7, <1>8 DEF Held
<1>10. /\ TheStack = <<>> \o <<>> /\ TheCount = 0 /\ TheFds = View(info, c)
  BY <1>2, <1>9, SeenNow
<1>11. <<>> \o <<>> = <<>>
  BY <1>2, ConcatEmptySeq
<1>12. View(info, c) = [f \in Fd |-> EmptyBuffer]
  BY <1>1 DEF View, ToBuffer, EmptyBuffer, c
<1>13. Chain!Lists!Init
  BY <1>1, <1>10, <1>11, <1>12, ChainSame
     DEF Chain!Lists!Init, TheStack, TheCount, TheFds, Chain!Lists!Block, Block
<1>. QED
  BY <1>9, <1>13

\* The steps that move no block.
LEMMA ChainPushBegin ==
  ASSUME NEW free, NEW loose, NEW c, Held(free, loose, c), NEW f \in Fd, Chain!PushBegin(f),
         NoFd \notin Fd
  PROVE  Held(free, loose, c)' /\ UNCHANGED <<TheStack, TheCount, reserved, TheFds, bytes>>
<1>1. /\ pushing' = f /\ unused' = NULL /\ loose = <<>>
      /\ UNCHANGED <<next, top, spare, reserved, info, bytes>>
  BY ChainSame DEF Chain!PushBegin, Held
<1>2. unused' = unused
  <2>1. Linked(next, unused, loose)
    BY DEF Held, Kept
  <2>. QED
    BY <1>1, <2>1, LinkedNone
<1>3. Held(free, loose, c)'
  BY <1>1, <1>2 DEF Held
<1>. QED
  BY <1>1, <1>3, SeenNow, SeenNext

\* setQuota is setQuota.
LEMMA ChainSetQuota ==
  ASSUME NEW free, NEW loose, NEW c, Held(free, loose, c), NEW f \in Fd, NEW q \in Quotas,
         Chain!SetQuota(f, q)
  PROVE  Held(free, loose, c)' /\ Chain!Lists!SetQuota(f, q)
<1>1. /\ info' = [info EXCEPT ![f].quota = q]
      /\ UNCHANGED <<next, top, spare, reserved, bytes, pushing, unused>>
  BY DEF Chain!SetQuota
<1>2. q \in Nat /\ info \in [Fd -> Info]
  BY BufferAssumption DEF Held
<1>3. /\ info' \in [Fd -> Info]
      /\ \A g \in Fd : /\ info'[g].first = info[g].first /\ info'[g].last = info[g].last
                       /\ info'[g].offset = info[g].offset /\ info'[g].size = info[g].size
                       /\ info'[g].quota = IF g = f THEN q ELSE info[g].quota
  BY <1>1, <1>2 DEF Info
<1>4. Kept(next, top, unused, info', free, loose, c)
  BY <1>3 DEF Held, Kept
<1>5. \A g \in Fd : Right(info'[g], c[g])
  BY <1>3 DEF Held, Right
<1>6. Held(free, loose, c)'
  BY <1>1, <1>3, <1>4, <1>5 DEF Held
<1>7. View(info', c) = [View(info, c) EXCEPT ![f].quota = q]
  BY <1>3 DEF View, ToBuffer
<1>8. TheStack' = TheStack /\ TheCount' = TheCount /\ TheFds' = [TheFds EXCEPT ![f].quota = q]
  BY <1>6, <1>7, SeenNow, SeenNext
<1>. QED
  BY <1>1, <1>6, <1>8
     DEF Chain!Lists!SetQuota, Chain!Lists!poolVars, TheStack, TheCount, TheFds

\* free: the list s goes on top of the free list.
LEMMA FreeJoins ==
  ASSUME NEW b, NEW s, NEW free, NEW u, IsJoin(u, s, free),
         Linked(next, b, s), Linked(next, top, free), IsInjective(s), IsInjective(free),
         Range(s) \cap Range(free) = {}, Chain!Free(next, b), spare = Len(free),
         next \in [Block -> Block \cup {NULL}]
  PROVE  /\ Linked(next', top', u) /\ spare' = Len(u) /\ Len(u) = Len(s) + Len(free)
         /\ u \in Seq(Block) /\ IsInjective(u) /\ Range(u) = Range(s) \cup Range(free)
         /\ next' \in [Block -> Block \cup {NULL}]
         /\ \A x \in Block \ Range(s) : next'[x] = next[x]
<1>1. s \in Seq(Block) /\ free \in Seq(Block) /\ top \in Block \cup {NULL}
  BY LinkedNone DEF Linked
<1>2. /\ u \in Seq(Block) /\ Len(u) = Len(s) + Len(free)
      /\ Len(s) \in Nat /\ Len(free) \in Nat
      /\ IsInjective(u) /\ Range(u) = Range(s) \cup Range(free)
  BY <1>1, JoinSeq
<1>3. CASE b = NULL
  <2>1. s = <<>> /\ Len(s) = 0
    BY <1>3, LinkedNone
  <2>2. u = free
    BY <1>1, <2>1, ConcatEmptySeq DEF IsJoin
  <2>3. next' = next /\ top' = top /\ spare' = spare
    BY <1>3, ChainSame DEF Chain!Free
  <2>. QED
    BY <1>2, <2>1, <2>2, <2>3
<1>4. CASE b # NULL
  <2>1. Len(s) > 0 /\ s[1] = b /\ s[Len(s)] \in Range(s) /\ s[Len(s)] \in Block
    BY <1>2, <1>4, LinkedNone
  <2>2. Chain!ListOf(next, b) = s
    <3>1. Len(s) <= MaxBlocks
      BY <1>1, BlocksBound
    <3>. QED
      BY <3>1, LinkedList
  <2>3. next' = [next EXCEPT ![s[Len(s)]] = top] /\ top' = b /\ spare' = spare + Len(s)
    BY <1>4, <2>2, ChainSame DEF Chain!Free
  <2>4. /\ next' \in [Block -> Block \cup {NULL}] /\ next'[s[Len(s)]] = top
        /\ \A x \in Block : x # s[Len(s)] => next'[x] = next[x]
    BY <1>1, <2>1, <2>3
  <2>5. Range(free) \subseteq Block /\ s[Len(s)] \notin Range(free)
    BY <1>1, <2>1, SeqRange
  <2>6. Linked(next', top, free)
    <3>1. \A x \in Range(free) : next'[x] = next[x]
      BY <2>4, <2>5
    <3>. QED
      BY <3>1, LinkedFrame
  <2>7. ASSUME NEW i \in 1..(Len(s) - 1) PROVE next'[s[i]] = s[i + 1]
    <3>1. i \in 1..Len(s) /\ Len(s) \in 1..Len(s) /\ i # Len(s) /\ i + 1 \in 1..Len(s)
      BY <1>2, <2>1
    <3>2. s[i] \in Block /\ s[i] # s[Len(s)]
      BY <1>1, <3>1, SeqRange, ElementOfSeq
    <3>3. next[s[i]] = s[i + 1]
      BY <3>1 DEF Linked, Nth
    <3>. QED
      BY <2>4, <3>2, <3>3
  <2>8. Linked(next', b, u)
    BY <1>1, <2>1, <2>4, <2>6, <2>7, LinkedJoin
  <2>. QED
    BY <1>2, <2>1, <2>3, <2>4, <2>8
<1>. QED
  BY <1>3, <1>4

\* The end of push: the blocks it has unlinked become free, with entries whose chains
\* start where they did.
LEMMA ReturnKeeps ==
  ASSUME NEW free, NEW loose, NEW c, Held(free, loose, c), Chain!PushReturn,
         info' \in [Fd -> Info],
         \A f \in Fd : info'[f].first = info[f].first /\ Right(info'[f], c[f])
  PROVE  Held(loose \o free, <<>>, c)'
<1>. DEFINE u == loose \o free
<1>1. /\ Chain!Free(next, unused) /\ pushing' = NoFd /\ unused' = NULL
      /\ reserved' = reserved /\ bytes' = bytes
  BY ChainSame DEF Chain!PushReturn
<1>2. /\ Linked(next, unused, loose) /\ Linked(next, top, free) /\ Apart(free, loose, c)
      /\ spare = Len(free) /\ next \in [Block -> Block \cup {NULL}]
      /\ Within(free, loose, c, reserved)
      /\ \A f \in Fd : Linked(next, info[f].first, c[f])
  BY DEF Held, Kept
<1>3. /\ IsInjective(loose) /\ IsInjective(free) /\ Range(loose) \cap Range(free) = {}
      /\ IsJoin(u, loose, free)
      /\ \A f \in Fd : /\ c[f] \in Seq(Block) /\ Range(c[f]) \cap Range(loose) = {}
                       /\ Range(c[f]) \cap Range(free) = {}
  BY <1>2 DEF Apart, IsJoin
<1>. HIDE DEF u
<1>4. /\ Linked(next', top', u) /\ spare' = Len(u) /\ Len(u) = Len(loose) + Len(free)
      /\ u \in Seq(Block) /\ IsInjective(u) /\ Range(u) = Range(loose) \cup Range(free)
      /\ next' \in [Block -> Block \cup {NULL}]
      /\ \A x \in Block \ Range(loose) : next'[x] = next[x]
  BY <1>1, <1>2, <1>3, FreeJoins
<1>5. ASSUME NEW f \in Fd PROVE Linked(next', info'[f].first, c[f])
  <2>1. \A x \in Range(c[f]) : next'[x] = next[x]
    BY <1>3, <1>4, SeqRange
  <2>. QED
    BY <1>2, <2>1, LinkedFrame
<1>6. /\ <<>> \in Seq(Block) /\ Range(<<>>) = {} /\ IsInjective(<<>>)
  <2>1. <<>> \in Seq(Block) /\ 1..Len(<<>>) = {}
    BY EmptySeq
  <2>. QED
    BY <2>1, SeqRange
<1>7. Apart(u, <<>>, c)
  BY <1>2, <1>3, <1>4, <1>6 DEF Apart
<1>8. Linked(next', unused', <<>>)
  BY <1>1, LinkedEmpty
<1>9. Kept(next', top', unused', info', u, <<>>, c)
  BY <1>4, <1>5, <1>7, <1>8 DEF Kept
<1>10. Within(u, <<>>, c, reserved)
  BY <1>2, <1>4, <1>6 DEF Within
<1>11. Held(u, <<>>, c)'
  BY <1>1, <1>4, <1>9, <1>10 DEF Held
<1>. QED
  BY <1>11 DEF u

\* In both cases FileBuffer sees the same free blocks as before.
LEMMA ReturnSeen ==
  ASSUME NEW free, NEW loose, NEW c, Held(free, loose, c), Held(loose \o free, <<>>, c)'
  PROVE  TheStack' = TheStack /\ TheCount' = TheCount /\ TheStack \in Seq(Block)
         /\ TheCount \in Nat
<1>1. loose \in Seq(Block) /\ free \in Seq(Block)
  BY DEF Held, Kept, Linked
<1>2. /\ Len(loose) \in Nat /\ Len(free) \in Nat /\ loose \o free \in Seq(Block)
      /\ Len(loose \o free) = Len(loose) + Len(free)
      /\ <<>> \o (loose \o free) = loose \o free /\ Len(<<>>) = 0
  BY <1>1, LenProperties, ConcatProperties, ConcatEmptySeq, EmptySeq
<1>3. TheStack = loose \o free /\ TheCount = Len(free) + Len(loose)
  BY SeenNow
<1>. DEFINE u == loose \o free
<1>. HIDE DEF u
<1>4. Held(u, <<>>, c)'
  BY DEF u
<1>5. TheStack' = <<>> \o u /\ TheCount' = Len(u) + Len(<<>>)
  BY <1>4, SeenNext
<1>. QED
  BY <1>2, <1>3, <1>5 DEF u

\* The kernel took nothing more.
LEMMA ChainPushNothing ==
  ASSUME NEW free, NEW loose, NEW c, Held(free, loose, c), NEW f \in Fd, Chain!PushNothing(f)
  PROVE  /\ Held(loose \o free, <<>>, c)'
         /\ UNCHANGED <<TheStack, TheCount, reserved, TheFds, bytes>>
<1>1. Chain!PushReturn /\ info' = info /\ reserved' = reserved /\ bytes' = bytes
  BY DEF Chain!PushNothing, Chain!PushReturn
<1>2. Held(loose \o free, <<>>, c)'
  BY <1>1, ReturnKeeps DEF Held
<1>3. TheStack' = TheStack /\ TheCount' = TheCount
  BY <1>2, ReturnSeen
<1>. QED
  BY <1>1, <1>2, <1>3, SeenNow, SeenNext

\* Small facts about sequences.
LEMMA SubSeqAll ==
  ASSUME NEW S, NEW s \in Seq(S)
  PROVE  SubSeq(s, 1, Len(s)) = s /\ SubSeq(s, 1, 0) = <<>>
<1>1. Len(s) \in Nat /\ \A i \in 1..Len(s) : s[i] \in S
  BY LenProperties, ElementOfSeq
<1>2. PICK t : t = SubSeq(s, 1, Len(s))
  OBVIOUS
<1>3. /\ t \in Seq(S) /\ Len(t) = IF 1 <= Len(s) THEN Len(s) - 1 + 1 ELSE 0
      /\ \A i \in 1..(Len(s) - 1 + 1) : t[i] = s[1 + i - 1]
  BY <1>1, <1>2, SubSeqProperties
<1>4. Len(t) = Len(s) /\ \A i \in 1..Len(s) : t[i] = s[i]
  BY <1>1, <1>3
<1>5. t = s
  BY <1>3, <1>4, SeqEqual
<1>6. SubSeq(s, 1, 0) = <<>>
  BY SubSeqEmpty
<1>. QED
  BY <1>2, <1>5, <1>6

\* An empty list reversed.
LEMMA ReverseNone == Reverse(<<>>) = <<>>
<1>1. <<>> \in Seq({}) /\ Len(<<>>) = 0
  BY EmptySeq
<1>2. Reverse(<<>>) \in Seq({}) /\ Len(Reverse(<<>>)) = 0
  BY <1>1, ReverseSeq
<1>. QED
  BY <1>2, EmptySeq

\* The entry nb is fb after n of its bytes are written.
IsPart(fb, nb, n) == nb = [fb EXCEPT !.size = fb.size - n, !.offset = fb.offset + n]

\* The entry after a write of n bytes inside the first block.
LEMMA PartEntry ==
  ASSUME NEW fb \in Info, NEW n \in Nat, NEW nb,
         IsPart(fb, nb, n),
         fb.size - n \in Nat, fb.offset + n \in 0..(BlockSize - 1)
  PROVE  /\ nb \in Info /\ nb.first = fb.first /\ nb.last = fb.last
         /\ nb.offset = fb.offset + n /\ nb.size = fb.size - n /\ nb.quota = fb.quota
BY DEF Info, IsPart

\* A push of FileBuffer from its parts.
LEMMA PushHolds ==
  ASSUME NEW f, NEW n, NEW old, NEW done, NEW given, NEW kept, NEW o, NEW nb,
         old = TheFds[f], done = Done(old, n), o = OffsetAfter(old, n),
         IsCut(old.chain, done, given, kept), IsChange(old, nb, kept, o, old.size - n),
         TheFds' = [TheFds EXCEPT ![f] = nb],
         TheStack' = Reverse(given) \o TheStack,
         TheCount' = TheCount + Len(Reverse(given)),
         reserved' = reserved, bytes' = bytes
  PROVE  Chain!Lists!Push(f, n)
<1>1. Chain!Lists!FreeBlocks(Reverse(given))
  BY DEF Chain!Lists!FreeBlocks, TheStack, TheCount
<1>2. TheFds' = [TheFds EXCEPT ![f] = [old EXCEPT !.chain = SubSeq(old.chain, done + 1, Len(old.chain)),
                                !.offset = o, !.size = old.size - n]]
  BY Zenon DEF IsCut, IsChange
<1>3. given = SubSeq(old.chain, 1, done)
  BY DEF IsCut
<1>. QED
  BY <1>1, <1>2, <1>3, ChainSame, ChainLibrary DEF Chain!Lists!Push, TheFds

\* An entry whose quota is the same.
LEMMA ToBufferChange ==
  ASSUME NEW fb, NEW nb, NEW s, NEW t, nb.quota = fb.quota
  PROVE  IsChange(ToBuffer(fb, s), ToBuffer(nb, t), t, nb.offset, nb.size)
<1>1. PICK new : IsChange(ToBuffer(fb, s), new, t, nb.offset, nb.size)
  BY DEF IsChange
<1>2. PICK old : old = ToBuffer(fb, s)
  OBVIOUS
<1>3. IsChange(old, new, t, nb.offset, nb.size)
  BY <1>1, <1>2
<1>4. new = ToBuffer(nb, t)
  BY <1>2, <1>3 DEF IsChange, ToBuffer
<1>. QED
  BY <1>1, <1>4

\* The write took a part of the first block.
LEMMA ChainPushPart ==
  ASSUME NEW free, NEW loose, NEW c, Held(free, loose, c), NEW f \in Fd,
         NEW n \in 1..(BlockSize - 1), Chain!PushPart(f, n)
  PROVE  /\ Held(loose \o free, <<>>, c)'
         /\ n \in 1..TheFds[f].size
         /\ Chain!Lists!Push(f, n)
<1>. DEFINE fb == info[f]
            old == ToBuffer(fb, c[f])
            nb == [fb EXCEPT !.size = fb.size - n, !.offset = fb.offset + n]
<1>1. /\ Chain!PushReturn /\ info' = [info EXCEPT ![f] = nb]
      /\ fb.size > 0 /\ n \in 1..(Chain!Offered(fb) - 1)
      /\ reserved' = reserved /\ bytes' = bytes
  BY DEF Chain!PushPart, Chain!PushReturn
<1>2. /\ info \in [Fd -> Info] /\ fb \in Info /\ fb.offset \in 0..(BlockSize - 1) /\ fb.size \in Nat
      /\ BlockSize \in Nat \ {0} /\ n \in Nat /\ fb.offset \in Nat
      /\ Right(fb, c[f]) /\ c[f] \in Seq(Block)
  BY BufferAssumption DEF Held, Info
<1>. HIDE DEF fb
<1>3. /\ n < fb.size /\ fb.offset + n < BlockSize
      /\ fb.offset + n \in 0..(BlockSize - 1) /\ fb.offset + n \in Nat /\ fb.size - n \in Nat \ {0}
  BY <1>1, <1>2 DEF Chain!Offered
<1>4. /\ nb \in Info /\ nb.first = fb.first /\ nb.last = fb.last /\ nb.offset = fb.offset + n
      /\ nb.size = fb.size - n /\ nb.quota = fb.quota
  <2>1. IsPart(fb, nb, n)
    BY DEF IsPart
  <2>. HIDE DEF nb
  <2>. QED
    BY <1>2, <1>3, <2>1, PartEntry
<1>. HIDE DEF nb
<1>5. Right(nb, c[f])
  <2>1. nb.offset + nb.size = fb.offset + fb.size
    <3>1. \A o, z \in Nat : (o + n) + (z - n) = o + z
      BY <1>2
    <3>. QED
      BY <1>2, <1>4, <3>1
  <2>. QED
    BY <1>2, <1>3, <1>4, <2>1 DEF Right
<1>6. /\ info' \in [Fd -> Info] /\ info'[f] = nb /\ \A g \in Fd \ {f} : info'[g] = info[g]
  BY <1>1, <1>2, <1>4
<1>7. \A g \in Fd : info'[g].first = info[g].first /\ Right(info'[g], c[g])
  BY <1>4, <1>5, <1>6 DEF Held, fb
<1>8. Held(loose \o free, <<>>, c)'
  BY <1>1, <1>6, <1>7, ReturnKeeps
<1>9. TheStack' = TheStack /\ TheCount' = TheCount /\ TheStack \in Seq(Block) /\ TheCount \in Nat
  BY <1>8, ReturnSeen
<1>10. TheFds = View(info, c) /\ TheFds' = View(info', c)
  BY <1>8, SeenNow, SeenNext
<1>11. TheFds[f] = old /\ old.chain = c[f] /\ old.offset = fb.offset /\ old.size = fb.size
  BY <1>10 DEF View, ToBuffer, fb
<1>12. Done(old, n) = 0 /\ OffsetAfter(old, n) = fb.offset + n
  <2>1. (fb.offset + n) \div BlockSize = 0 /\ (fb.offset + n) % BlockSize = fb.offset + n
    <3>1. fb.offset + n = BlockSize * 0 + (fb.offset + n) /\ fb.offset + n \in 0..(BlockSize - 1)
      BY <1>2, <1>3
    <3>. QED
      BY <1>2, <1>3, <3>1, DivUnique
  <2>2. n # old.size
    BY <1>2, <1>3, <1>11
  <2>. QED
    BY <1>11, <2>1, <2>2 DEF Done, OffsetAfter
<1>13. SubSeq(c[f], 1, Len(c[f])) = c[f] /\ SubSeq(c[f], 1, 0) = <<>>
  BY <1>2, SubSeqAll
<1>14. Reverse(<<>>) = <<>> /\ <<>> \o TheStack = TheStack /\ Len(<<>>) = 0
  BY <1>9, ReverseNone, ConcatEmptySeq, EmptySeq
<1>. DEFINE new == ToBuffer(nb, c[f])
<1>15. TheFds' = [TheFds EXCEPT ![f] = new]
  <2>1. \A g \in Fd : View(info', c)[g] = IF g = f THEN new ELSE View(info, c)[g]
    BY <1>6 DEF View
  <2>. HIDE DEF new
  <2>2. View(info', c) = [View(info, c) EXCEPT ![f] = new]
    BY <2>1 DEF View
  <2>. QED
    BY <1>10, <2>2
<1>16. /\ IsCut(old.chain, 0, <<>>, c[f])
       /\ IsChange(old, new, c[f], OffsetAfter(old, n), old.size - n)
  <2>1. IsCut(old.chain, 0, <<>>, c[f])
    <3>1. 0 + 1 = 1
      OBVIOUS
    <3>. QED
      BY <1>11, <1>13, <3>1 DEF IsCut
  <2>2. IsChange(old, new, c[f], nb.offset, nb.size)
    BY <1>4, ToBufferChange
  <2>. HIDE DEF old, new
  <2>. QED
    BY <1>4, <1>11, <1>12, <2>1, <2>2, Zenon
<1>17. Chain!Lists!Push(f, n)
  <2>. HIDE DEF old, new
  <2>1. TheStack' = Reverse(<<>>) \o TheStack /\ TheCount' = TheCount + Len(Reverse(<<>>))
    BY <1>9, <1>14
  <2>. QED
    BY <1>1, <1>11, <1>12, <1>15, <1>16, <2>1, PushHolds
<1>18. n \in 1..TheFds[f].size
  BY <1>2, <1>3, <1>11
<1>. QED
  BY <1>8, <1>17, <1>18

\* The first block of o + z places, of which the first o are behind, holds m of the bytes.
LEMMA BlockLess ==
  ASSUME NEW o \in 0..(BlockSize - 1), NEW z \in Nat \ {0}, NEW m,
         m = IF BlockSize - o > z THEN z ELSE BlockSize - o
  PROVE  /\ m \in 1..z /\ z - m \in Nat
         /\ BlocksFor(o + z) \in Nat \ {0}
         /\ BlocksFor(z - m) = BlocksFor(o + z) - 1
         /\ m = z => BlocksFor(o + z) = 1
         /\ m # z => o + m = BlockSize
<1>1. BlockSize \in Nat \ {0} /\ o \in Nat /\ o < BlockSize /\ o + z \in Nat
  BY BufferAssumption
<1>2. m \in 1..z /\ z - m \in Nat /\ (m # z => o + m = BlockSize)
  BY <1>1
<1>3. CASE m = z
  <2>1. BlockSize * 1 = BlockSize /\ o + z <= BlockSize /\ BlockSize < o + z + BlockSize
    BY <1>1, <1>3
  <2>2. BlocksFor(o + z) = 1
    BY <1>1, <2>1, BlocksUnique
  <2>3. z - m = 0
    BY <1>3
  <2>. QED
    BY <1>2, <1>3, <2>2, <2>3, BlocksForNone
<1>4. CASE m # z
  <2>. DEFINE k == BlocksFor(o + z)
  <2>1. /\ k \in Nat /\ BlockSize * k \in Nat /\ o + z <= BlockSize * k
        /\ BlockSize * k < (o + z) + BlockSize
    BY <1>1, BlocksHold
  <2>. HIDE DEF k
  <2>2. k # 0
    <3>1. BlockSize * 0 = 0 /\ o + z > 0
      BY <1>1
    <3>. QED
      BY <1>1, <2>1, <3>1
  <2>3. k - 1 \in Nat /\ BlockSize * (k - 1) = BlockSize * k - BlockSize
    <3>1. \A x, y \in Int : x * (y - 1) = x * y - x
      OBVIOUS
    <3>. QED
      BY <1>1, <2>1, <2>2, <3>1
  <2>4. z - m = (o + z) - BlockSize
    BY <1>1, <1>2, <1>4
  <2>5. z - m <= BlockSize * (k - 1) /\ BlockSize * (k - 1) < (z - m) + BlockSize
    BY <1>1, <1>2, <2>1, <2>3, <2>4
  <2>6. BlocksFor(z - m) = k - 1
    BY <1>2, <2>3, <2>5, BlocksUnique
  <2>. QED
    BY <1>2, <1>4, <2>1, <2>2, <2>6 DEF k
<1>. QED
  BY <1>3, <1>4

\* A sequence of one element reversed.
LEMMA ReverseOne ==
  ASSUME NEW S, NEW s \in Seq(S), Len(s) = 1
  PROVE  Reverse(s) = s
<1>1. s = [i \in 1..1 |-> s[i]]
  BY LenProperties
<1>2. Reverse(s) = [i \in 1..1 |-> s[(1 - i) + 1]]
  BY DEF Reverse
<1>3. \A i \in 1..1 : s[(1 - i) + 1] = s[i]
  OBVIOUS
<1>. QED
  BY <1>1, <1>2, <1>3

\* The entry after a write of the n bytes of the first block; x is the next block.
IsNext(fb, nb, n, x) == nb = [fb EXCEPT !.size = fb.size - n, !.offset = 0, !.first = x]

\* Its fields.
LEMMA NextEntry ==
  ASSUME NEW fb \in Info, NEW n \in Nat, NEW x \in Block \cup {NULL}, NEW nb,
         IsNext(fb, nb, n, x), fb.size - n \in Nat
  PROVE  /\ nb \in Info /\ nb.first = x /\ nb.last = fb.last
         /\ nb.offset = 0 /\ nb.size = fb.size - n /\ nb.quota = fb.quota
<1>1. 0 \in 0..(BlockSize - 1)
  BY BufferAssumption
<1>. QED
  BY <1>1 DEF Info, IsNext

\* The first block of a list, and the list behind it.
LEMMA HeadCut ==
  ASSUME NEW nx, NEW b, NEW s, Linked(nx, b, s), IsInjective(s), Len(s) > 0,
         NEW a, NEW r, IsCut(s, 1, a, r)
  PROVE  /\ a \in Seq(Block) /\ Len(a) = 1 /\ a[1] = b /\ IsInjective(a)
         /\ b \in Block /\ Range(a) = {b} /\ b \notin Range(r)
         /\ r \in Seq(Block) /\ IsInjective(r) /\ Len(r) = Len(s) - 1
         /\ Range(s) = Range(r) \cup {b}
         /\ Len(r) > 0 => r[Len(r)] = s[Len(s)]
         /\ Linked(nx, nx[b], r)
<1>1. s \in Seq(Block) /\ Len(s) \in Nat /\ 1 \in 0..Len(s) /\ 1 \in 1..Len(s)
  BY LenProperties DEF Linked
<1>2. /\ a \in Seq(Block) /\ Len(a) = 1 /\ a[1] = s[1]
      /\ r \in Seq(Block) /\ Len(r) = Len(s) - 1
      /\ \A i \in 1..(Len(s) - 1) : r[i] = s[1 + i]
      /\ Range(a) \cup Range(r) = Range(s)
      /\ IsInjective(a) /\ IsInjective(r) /\ Range(a) \cap Range(r) = {}
  <2>1. a \in Seq(Block)
    BY <1>1, CutSeq
  <2>5. Len(a) = 1
    <3>1. PICK n : n = 1
      OBVIOUS
    <3>2. n \in 0..Len(s) /\ IsCut(s, n, a, r)
      BY <1>1, <3>1
    <3>3. Len(a) = n
      BY <1>1, <3>2, CutSeq
    <3>. QED
      BY <3>1, <3>3
  <2>6. a[1] = s[1]
    BY <1>1, CutSeq
  <2>2. /\ r \in Seq(Block) /\ Len(r) = Len(s) - 1
        /\ \A i \in 1..(Len(s) - 1) : r[i] = s[1 + i]
    BY <1>1, CutSeq
  <2>3. Range(a) \cup Range(r) = Range(s)
    BY <1>1, CutSeq
  <2>4. IsInjective(a) /\ IsInjective(r) /\ Range(a) \cap Range(r) = {}
    BY <1>1, CutSeq
  <2>. QED
    BY <2>1, <2>2, <2>3, <2>4, <2>5, <2>6
<1>3. b = s[1] /\ b \in Block /\ a[1] = b /\ nx[b] = Nth(s, 1 + 1)
  <2>1. b = s[1]
    BY <1>1 DEF Linked, Nth
  <2>4. nx[s[1]] = Nth(s, 1 + 1)
    BY <1>1 DEF Linked
  <2>2. s[1] \in Block
    BY <1>1, ElementOfSeq
  <2>3. a[1] = s[1]
    BY <1>2
  <2>. QED
    BY <2>1, <2>2, <2>3, <2>4
<1>4. Range(a) = {b}
  <2>1. \A x : x \in Range(a) <=> \E i \in 1..1 : a[i] = x
    BY <1>2, SeqRange
  <2>. QED
    BY <1>3, <2>1
<1>5. Linked(nx, Nth(s, 1 + 1), r)
  BY <1>1, LinkedCut
<1>6. ASSUME Len(r) > 0 PROVE r[Len(r)] = s[Len(s)]
  <2>1. Len(r) \in 1..(Len(s) - 1) /\ 1 + Len(r) = Len(s)
    BY <1>1, <1>2, <1>6
  <2>. QED
    BY <1>2, <2>1
<1>. QED
  BY <1>2, <1>3, <1>4, <1>5, <1>6

\* push writes a block at most, and takes it from the chain s.
LEMMA HeadWritten ==
  ASSUME NEW fb \in Info, NEW s, Len(s) = BlocksFor(fb.offset + fb.size), fb.size > 0,
         NEW m, m = Chain!Offered(fb)
  PROVE  /\ m \in 1..fb.size /\ fb.size - m \in Nat /\ m \in Nat
         /\ Len(s) \in Nat \ {0} /\ BlocksFor(fb.size - m) = Len(s) - 1
         /\ Done(ToBuffer(fb, s), m) = 1 /\ OffsetAfter(ToBuffer(fb, s), m) = 0
<1>1. PICK o, z : o = fb.offset /\ z = fb.size
  OBVIOUS
<1>2. o \in 0..(BlockSize - 1) /\ z \in Nat \ {0} /\ BlockSize \in Nat \ {0}
  <2>1. o \in 0..(BlockSize - 1) /\ z \in Nat
    BY <1>1 DEF Info
  <2>2. z > 0
    BY <1>1
  <2>. QED
    BY <2>1, <2>2, BufferAssumption
<1>3. m = IF BlockSize - o > z THEN z ELSE BlockSize - o
  BY <1>1 DEF Chain!Offered
<1>4. /\ m \in 1..z /\ z - m \in Nat /\ m \in Nat /\ BlocksFor(o + z) \in Nat \ {0}
      /\ BlocksFor(z - m) = BlocksFor(o + z) - 1
      /\ m = z => BlocksFor(o + z) = 1
      /\ m # z => o + m = BlockSize
  <2>1. m \in 1..z /\ z - m \in Nat
    BY <1>2, <1>3, BlockLess
  <2>2. BlocksFor(o + z) \in Nat \ {0} /\ BlocksFor(z - m) = BlocksFor(o + z) - 1
    BY <1>2, <1>3, BlockLess
  <2>3. m = z => BlocksFor(o + z) = 1
    BY <1>2, <1>3, BlockLess
  <2>4. m # z => o + m = BlockSize
    BY <1>2, <1>3, BlockLess
  <2>. QED
    BY <1>2, <2>1, <2>2, <2>3, <2>4
<1>5. BlockSize \div BlockSize = 1 /\ BlockSize % BlockSize = 0
  <2>1. BlockSize = BlockSize * 1 + 0 /\ 0 \in 0..(BlockSize - 1)
    BY <1>2
  <2>. QED
    BY <1>2, <2>1, DivUnique
<1>6. ToBuffer(fb, s).size = z /\ ToBuffer(fb, s).offset = o /\ ToBuffer(fb, s).chain = s
  BY <1>1 DEF ToBuffer
<1>7. Done(ToBuffer(fb, s), m) = 1 /\ OffsetAfter(ToBuffer(fb, s), m) = 0
  BY <1>1, <1>4, <1>5, <1>6 DEF Done, OffsetAfter
<1>. QED
  BY <1>1, <1>4, <1>7

\* The write took all of the block: it goes to the local list, and counts as free.
LEMMA ChainPushBlock ==
  ASSUME NEW free, NEW loose, NEW c, Held(free, loose, c), NEW f \in Fd, Chain!PushBlock(f),
         NoFd \notin Fd
  PROVE  /\ \E loose2, c2 : Held(free, loose2, c2)'
         /\ \E n \in 1..TheFds[f].size : Chain!Lists!Push(f, n)
<1>. DEFINE fb == info[f]
            s == c[f]
<1>00. PICK m : m = Chain!Offered(fb)
  OBVIOUS
<1>. DEFINE nb == [fb EXCEPT !.size = fb.size - m, !.offset = 0, !.first = next[fb.first]]
            a == SubSeq(s, 1, 1)
            r == SubSeq(s, 1 + 1, Len(s))
            u == a \o loose
            c2 == [c EXCEPT ![f] = r]
<1>1. /\ pushing = f /\ fb.size > 0
      /\ info' = [info EXCEPT ![f] = nb]
      /\ next' = [next EXCEPT ![fb.first] = unused]
      /\ unused' = fb.first
      /\ UNCHANGED <<top, spare, reserved, bytes, pushing>>
  BY <1>00 DEF Chain!PushBlock
<1>2. /\ next \in [Block -> Block \cup {NULL}] /\ info \in [Fd -> Info] /\ fb \in Info
      /\ Right(fb, s) /\ Linked(next, fb.first, s) /\ c \in [Fd -> Seq(Block)]
      /\ Linked(next, top, free) /\ Linked(next, unused, loose) /\ Apart(free, loose, c)
      /\ Within(free, loose, c, reserved) /\ spare = Len(free)
      /\ \A g \in Fd : Linked(next, info[g].first, c[g]) /\ Right(info[g], c[g])
  BY DEF Held, Kept
<1>3. /\ s \in Seq(Block) /\ IsInjective(s) /\ Range(s) \cap Range(free) = {}
      /\ Range(s) \cap Range(loose) = {}
      /\ free \in Seq(Block) /\ IsInjective(free) /\ loose \in Seq(Block) /\ IsInjective(loose)
      /\ Range(free) \cap Range(loose) = {}
      /\ \A g \in Fd \ {f} : Range(c[g]) \cap Range(s) = {} /\ c[g] \in Seq(Block)
  BY <1>2 DEF Apart
<1>4. IsCut(s, 1, a, r) /\ IsJoin(u, a, loose)
  BY DEF IsCut, IsJoin
<1>5. IsNext(fb, nb, m, next[fb.first])
  BY DEF IsNext
<1>6. /\ c2 \in [Fd -> Seq(Block)] /\ c2[f] = r /\ \A g \in Fd \ {f} : c2[g] = c[g]
  BY <1>2, <1>3
<1>0. fb = info[f] /\ s = c[f]
  OBVIOUS
<1>. HIDE DEF fb, s, nb, a, r, u, c2
<1>7. /\ fb.offset \in Nat /\ fb.size \in Nat /\ Len(s) = BlocksFor(fb.offset + fb.size)
      /\ fb.last = s[Len(s)] /\ unused \in Block \cup {NULL}
  <2>1. fb.offset \in 0..(BlockSize - 1) /\ fb.size \in Nat
    BY <1>2 DEF Info
  <2>2. Len(s) = BlocksFor(fb.offset + fb.size) /\ fb.last = s[Len(s)]
    BY <1>1, <1>2 DEF Right
  <2>3. unused \in Block \cup {NULL}
    BY <1>2, LinkedNone
  <2>. QED
    BY <2>1, <2>2, <2>3, BufferAssumption
<1>8. /\ m \in 1..fb.size /\ fb.size - m \in Nat /\ m \in Nat
      /\ Len(s) \in Nat \ {0} /\ BlocksFor(fb.size - m) = Len(s) - 1
      /\ Done(ToBuffer(fb, s), m) = 1 /\ OffsetAfter(ToBuffer(fb, s), m) = 0
  BY <1>00, <1>1, <1>2, <1>7, HeadWritten
<1>9. /\ a \in Seq(Block) /\ a[1] = fb.first /\ IsInjective(a)
      /\ fb.first \in Block /\ Range(a) = {fb.first} /\ fb.first \notin Range(r)
      /\ r \in Seq(Block) /\ IsInjective(r) /\ Len(r) = Len(s) - 1
      /\ Range(s) = Range(r) \cup {fb.first}
      /\ Len(r) > 0 => r[Len(r)] = s[Len(s)]
      /\ Linked(next, next[fb.first], r)
  <2>1. Len(s) > 0
    BY <1>8
  <2>. QED
    BY <1>2, <1>3, <1>4, <2>1, HeadCut
<1>32. Len(a) = 1
  <2>1. Len(s) > 0
    BY <1>8
  <2>. QED
    BY <1>2, <1>3, <1>4, <2>1, HeadCut
<1>30. a \in Seq(Block) /\ r \in Seq(Block) /\ IsInjective(a)
  BY <1>9
<1>31. free \in Seq(Block) /\ loose \in Seq(Block) /\ IsInjective(loose) /\ IsInjective(free)
  BY <1>3
<1>10. /\ nb \in Info /\ nb.first = next[fb.first] /\ nb.last = fb.last
       /\ nb.offset = 0 /\ nb.size = fb.size - m /\ nb.quota = fb.quota
  <2>1. next[fb.first] \in Block \cup {NULL}
    BY <1>2, <1>9
  <2>. QED
    <3>1. fb \in Info /\ m \in Nat /\ fb.size - m \in Nat
      BY <1>2, <1>8
    <3>. QED
      BY <1>5, <2>1, <3>1, NextEntry
<1>11. Right(nb, r)
  <2>1. BlocksFor(nb.offset + nb.size) = Len(r)
    BY <1>8, <1>9, <1>10
  <2>2. ASSUME nb.size > 0 PROVE Len(r) > 0
    <3>0. nb.size \in Nat
      BY <1>8, <1>10
    <3>1. nb.size <= BlockSize * BlocksFor(nb.size) 
      BY <3>0, BlocksHold
    <3>4. BlockSize * 0 = 0
      BY BufferAssumption
    <3>2. BlocksFor(nb.size) = Len(r) /\ Len(r) \in Nat
      BY <1>8, <1>9, <1>10
    <3>3. Len(r) # 0
      BY <2>2, <3>0, <3>1, <3>2, <3>4
    <3>. QED
      BY <3>2, <3>3
  <2>. QED
    BY <1>7, <1>9, <1>10, <2>1, <2>2 DEF Right
<1>12. /\ info' \in [Fd -> Info] /\ info'[f] = nb /\ \A g \in Fd \ {f} : info'[g] = info[g]
  BY <1>1, <1>2, <1>10
<1>13. /\ next' \in [Block -> Block \cup {NULL}] /\ next'[fb.first] = unused
       /\ \A x \in Block : x # fb.first => next'[x] = next[x]
  BY <1>1, <1>2, <1>7, <1>9
<1>14. /\ u \in Seq(Block) /\ Len(u) = 1 + Len(loose) /\ Len(loose) \in Nat /\ IsInjective(u)
       /\ Range(u) = Range(loose) \cup {fb.first}
  <2>1. u \in Seq(Block) /\ Len(u) = Len(a) + Len(loose) /\ Len(loose) \in Nat
    BY <1>4, <1>30, <1>31, JoinSeq
  <2>2. Range(a) \cap Range(loose) = {}
    BY <1>3, <1>9
  <2>3. Range(u) = Range(a) \cup Range(loose) /\ IsInjective(u)
    BY <1>4, <1>30, <1>31, <2>2, JoinSeq
  <2>. QED
    BY <1>9, <1>32, <2>1, <2>3
<1>15. /\ Linked(next', top', free) /\ Linked(next', next[fb.first], r)
       /\ Linked(next', unused, loose)
       /\ \A g \in Fd \ {f} : Linked(next', info'[g].first, c2[g])
  <2>1. ASSUME NEW b, NEW t, Linked(next, b, t), fb.first \notin Range(t)
        PROVE  Linked(next', b, t)
    <3>1. Range(t) \subseteq Block
      BY <2>1, SeqRange DEF Linked
    <3>2. \A x \in Range(t) : next'[x] = next[x]
      BY <1>13, <2>1, <3>1
    <3>. QED
      BY <2>1, <3>2, LinkedFrame
  <2>2. fb.first \notin Range(free) /\ fb.first \notin Range(loose)
    BY <1>3, <1>9
  <2>3. \A g \in Fd \ {f} : fb.first \notin Range(c[g])
    BY <1>3, <1>9
  <2>. QED
    BY <1>1, <1>2, <1>6, <1>9, <1>12, <2>1, <2>2, <2>3
<1>16. Linked(next', unused', u)
  <2>1. /\ Len(a) > 0 /\ unused' = a[1] /\ next'[a[Len(a)]] = unused
        /\ \A i \in 1..(Len(a) - 1) : next'[a[i]] = a[i + 1]
    BY <1>1, <1>9, <1>13, <1>32
  <2>. QED
    BY <1>4, <1>9, <1>15, <2>1, LinkedJoin
<1>17. Apart(free, u, c2)
  <2>1. Moves(free, loose, c[f], free, u, r)
    BY <1>0, <1>3, <1>9, <1>14 DEF Moves
  <2>2. Apart(free, loose, c)
    BY <1>2
  <2>. QED
    BY <1>6, <2>1, <2>2, ApartExchange
<1>18. Kept(next', top', unused', info', free, u, c2)
  <2>1. \A g \in Fd : Linked(next', info'[g].first, c2[g])
    BY <1>6, <1>10, <1>12, <1>15
  <2>. QED
    BY <1>15, <1>16, <1>17, <2>1 DEF Kept
<1>19. Within(free, u, c2, reserved')
  <2>1. \A g \in Fd : Range(c2[g]) \subseteq Range(c[g])
    BY <1>0, <1>6, <1>9
  <2>2. Range(u) \subseteq Range(c[f]) \cup Range(loose)
    BY <1>0, <1>9, <1>14
  <2>. QED
    BY <1>1, <1>2, <2>1, <2>2 DEF Within
<1>20. \A g \in Fd : Right(info'[g], c2[g])
  BY <1>2, <1>6, <1>11, <1>12
<1>21. Held(free, u, c2)'
  BY <1>1, <1>6, <1>12, <1>13, <1>18, <1>19, <1>20 DEF Held
<1>22. /\ TheStack = loose \o free /\ TheCount = Len(free) + Len(loose) /\ TheFds = View(info, c)
       /\ TheStack' = u \o free /\ TheCount' = Len(free) + Len(u) /\ TheFds' = View(info', c2)
  BY <1>21, SeenNow, SeenNext
<1>23. TheStack' = Reverse(a) \o TheStack /\ TheCount' = TheCount + Len(Reverse(a))
  <2>1. Reverse(a) = a
    BY <1>30, <1>32, ReverseOne
  <2>2. (a \o loose) \o free = a \o (loose \o free)
    BY <1>30, <1>31, ConcatAssociative
  <2>3. u = a \o loose
    BY <1>4 DEF IsJoin
  <2>4. Len(free) \in Nat
    BY <1>3, LenProperties
  <2>. QED
    <3>1. TheStack' = Reverse(a) \o TheStack
      BY <1>22, <2>1, <2>2, <2>3
    <3>2. Len(u) = 1 + Len(loose) /\ Len(loose) \in Nat
      BY <1>14
    <3>. QED
      <4>1. Len(Reverse(a)) = 1
        BY <1>32, <2>1
      <4>2. TheCount' = TheCount + Len(Reverse(a))
        BY <1>22, <2>4, <3>2, <4>1
      <4>. QED
        BY <3>1, <4>2
<1>. DEFINE old == ToBuffer(fb, s)
            new == ToBuffer(nb, r)
<1>24. /\ old = TheFds[f] /\ old.chain = s /\ old.size = fb.size
  BY <1>0, <1>22 DEF View, ToBuffer
<1>25. TheFds' = [TheFds EXCEPT ![f] = new]
  <2>1. \A g \in Fd : View(info', c2)[g] = IF g = f THEN new ELSE View(info, c)[g]
    BY <1>6, <1>12 DEF View
  <2>. HIDE DEF new
  <2>2. View(info', c2) = [View(info, c) EXCEPT ![f] = new]
    BY <2>1 DEF View
  <2>. QED
    BY <1>22, <2>2
<1>26. IsChange(old, new, r, nb.offset, nb.size)
  BY <1>10, ToBufferChange
<1>. HIDE DEF old, new
<1>27. IsCut(old.chain, 1, a, r) /\ IsChange(old, new, r, OffsetAfter(old, m), old.size - m)
       /\ Done(old, m) = 1
  BY <1>4, <1>8, <1>10, <1>24, <1>26 DEF old
<1>28. Chain!Lists!Push(f, m)
  <2>1. reserved' = reserved /\ bytes' = bytes
    BY <1>1
  <2>2. PICK done, o, z : done = Done(old, m) /\ o = OffsetAfter(old, m) /\ z = old.size - m
    OBVIOUS
  <2>3. IsCut(old.chain, done, a, r) /\ IsChange(old, new, r, o, old.size - m)
    BY <1>27, <2>2
  <2>. QED
    BY <1>23, <1>24, <1>25, <2>1, <2>2, <2>3, PushHolds
<1>. QED
  <2>1. m \in 1..TheFds[f].size
    BY <1>8, <1>24
  <2>2. \E n \in 1..TheFds[f].size : Chain!Lists!Push(f, n)
    BY <1>28, <2>1, Zenon
  <2>3. \E loose2, c3 : Held(free, loose2, c3)'
    BY <1>21
  <2>. QED
    BY <2>2, <2>3

\* The empty list.
LEMMA NoBlocks ==
  ASSUME NEW nx
  PROVE  /\ <<>> \in Seq(Block) /\ Range(<<>>) = {} /\ IsInjective(<<>>)
         /\ Linked(nx, NULL, <<>>)
<1>1. <<>> \in Seq(Block) /\ 1..Len(<<>>) = {}
  BY EmptySeq
<1>. QED
  BY <1>1, SeqRange, LinkedEmpty

\* A cleanup of FileBuffer from its parts.
LEMMA CleanupHolds ==
  ASSUME NEW f, NEW s, s = TheFds[f].chain, TheFds' = [TheFds EXCEPT ![f] = EmptyBuffer],
         TheStack' = s \o TheStack, TheCount' = TheCount + Len(s),
         reserved' = reserved, bytes' = bytes
  PROVE  Chain!Lists!Cleanup(f)
<1>1. Chain!Lists!FreeBlocks(s)
  BY DEF Chain!Lists!FreeBlocks, TheStack, TheCount
<1>. QED
  BY <1>1, ChainSame DEF Chain!Lists!Cleanup, TheFds

\* cleanup gives the chain of the descriptor to the pool.
LEMMA ChainCleanup ==
  ASSUME NEW free, NEW loose, NEW c, Held(free, loose, c), NEW f \in Fd, Chain!Cleanup(f)
  PROVE  /\ \E free2, c2 : Held(free2, loose, c2)'
         /\ Chain!Lists!Cleanup(f)
<1>. DEFINE s == c[f]
            u == s \o free
            none == Chain!EmptyBuffer
            c2 == [c EXCEPT ![f] = <<>>]
<1>1. /\ pushing = NoFd /\ loose = <<>> /\ Chain!Free(next, info[f].first)
      /\ info' = [info EXCEPT ![f] = none]
      /\ UNCHANGED <<reserved, bytes, pushing, unused>>
  BY DEF Chain!Cleanup, Held
<1>2. /\ next \in [Block -> Block \cup {NULL}] /\ info \in [Fd -> Info]
      /\ Linked(next, info[f].first, s) /\ c \in [Fd -> Seq(Block)]
      /\ Linked(next, top, free) /\ Linked(next, unused, loose) /\ Apart(free, loose, c)
      /\ Within(free, loose, c, reserved) /\ spare = Len(free)
      /\ \A g \in Fd : Linked(next, info[g].first, c[g]) /\ Right(info[g], c[g])
  BY DEF Held, Kept
<1>3. /\ s \in Seq(Block) /\ IsInjective(s) /\ Range(s) \cap Range(free) = {}
      /\ Range(s) \cap Range(loose) = {}
      /\ free \in Seq(Block) /\ IsInjective(free) /\ loose \in Seq(Block) /\ IsInjective(loose)
      /\ Range(free) \cap Range(loose) = {}
      /\ \A g \in Fd \ {f} : Range(c[g]) \cap Range(s) = {} /\ c[g] \in Seq(Block)
  BY <1>2 DEF Apart
<1>4. IsJoin(u, s, free)
  BY DEF IsJoin
<1>5. /\ none \in Info /\ none.first = NULL /\ none.offset = 0 /\ none.size = 0
      /\ ToBuffer(none, <<>>) = EmptyBuffer
  BY BufferAssumption, ChainSame DEF Info, Chain!EmptyBuffer, ToBuffer, EmptyBuffer
<1>6. /\ <<>> \in Seq(Block) /\ Range(<<>>) = {} /\ IsInjective(<<>>)
      /\ Linked(next', NULL, <<>>)
  BY NoBlocks
<1>7. c2 \in [Fd -> Seq(Block)] /\ c2[f] = <<>> /\ \A g \in Fd \ {f} : c2[g] = c[g]
  BY <1>2, <1>6
<1>0. s = c[f]
  OBVIOUS
<1>. HIDE DEF s, u, none, c2
<1>8. /\ Linked(next', top', u) /\ spare' = Len(u) /\ Len(u) = Len(s) + Len(free)
      /\ u \in Seq(Block) /\ IsInjective(u) /\ Range(u) = Range(s) \cup Range(free)
      /\ next' \in [Block -> Block \cup {NULL}]
      /\ \A x \in Block \ Range(s) : next'[x] = next[x]
  BY <1>1, <1>2, <1>3, <1>4, FreeJoins
<1>9. info' \in [Fd -> Info] /\ info'[f] = none /\ \A g \in Fd \ {f} : info'[g] = info[g]
  BY <1>1, <1>2, <1>5
<1>10. /\ Linked(next', unused', loose)
       /\ \A g \in Fd \ {f} : Linked(next', info'[g].first, c2[g])
  <2>1. ASSUME NEW b, NEW t, Linked(next, b, t), Range(s) \cap Range(t) = {}
        PROVE  Linked(next', b, t)
    <3>1. Range(t) \subseteq Block
      BY <2>1, SeqRange DEF Linked
    <3>2. \A x \in Range(t) : next'[x] = next[x]
      BY <1>8, <2>1, <3>1
    <3>. QED
      BY <2>1, <3>2, LinkedFrame
  <2>2. \A g \in Fd \ {f} : Range(s) \cap Range(c[g]) = {}
    BY <1>3
  <2>. QED
    BY <1>1, <1>2, <1>3, <1>7, <1>9, <2>1, <2>2
<1>11. Apart(u, loose, c2)
  <2>1. Range(loose) = {}
    BY <1>1, <1>6
  <2>2. Moves(free, loose, c[f], u, loose, <<>>)
    BY <1>0, <1>3, <1>6, <1>8, <2>1 DEF Moves
  <2>3. Apart(free, loose, c)
    BY <1>2
  <2>. QED
    <3>1. PICK k : k = <<>>
      OBVIOUS
    <3>2. Moves(free, loose, c[f], u, loose, k) /\ c2[f] = k
      BY <1>7, <2>2, <3>1
    <3>. QED
      BY <1>7, <2>3, <3>2, ApartExchange
<1>12. Kept(next', top', unused', info', u, loose, c2)
  <2>1. \A g \in Fd : Linked(next', info'[g].first, c2[g])
    BY <1>5, <1>6, <1>7, <1>9, <1>10
  <2>. QED
    BY <1>8, <1>10, <1>11, <2>1 DEF Kept
<1>13. Within(u, loose, c2, reserved')
  <2>1. \A g \in Fd : Range(c2[g]) \subseteq Range(c[g])
    BY <1>6, <1>7
  <2>. QED
    BY <1>0, <1>1, <1>2, <1>8, <2>1 DEF Within
<1>14. \A g \in Fd : Right(info'[g], c2[g])
  <2>1. Right(none, <<>>)
    BY <1>5, EmptySeq, BlocksForNone DEF Right
  <2>. QED
    BY <1>2, <1>7, <1>9, <2>1
<1>15. Held(u, loose, c2)'
  BY <1>1, <1>7, <1>8, <1>9, <1>12, <1>13, <1>14 DEF Held
<1>16. /\ TheStack = loose \o free /\ TheCount = Len(free) + Len(loose) /\ TheFds = View(info, c)
       /\ TheStack' = loose \o u /\ TheCount' = Len(u) + Len(loose) /\ TheFds' = View(info', c2)
  BY <1>15, SeenNow, SeenNext
<1>17. TheStack' = s \o TheStack /\ TheCount' = TheCount + Len(s)
  <2>1. loose \o free = free /\ loose \o u = u /\ Len(loose) = 0
    BY <1>1, <1>3, <1>8, ConcatEmptySeq, EmptySeq
  <2>2. u = s \o free
    BY <1>4 DEF IsJoin
  <2>3. Len(s) \in Nat /\ Len(free) \in Nat
    BY <1>3, LenProperties
  <2>. QED
    BY <1>8, <1>16, <2>1, <2>2, <2>3
<1>18. TheFds[f].chain = s
  BY <1>0, <1>16 DEF View, ToBuffer
<1>19. TheFds' = [TheFds EXCEPT ![f] = EmptyBuffer]
  <2>1. \A g \in Fd : View(info', c2)[g] = IF g = f THEN EmptyBuffer ELSE View(info, c)[g]
    BY <1>5, <1>7, <1>9 DEF View
  <2>2. View(info', c2) = [View(info, c) EXCEPT ![f] = EmptyBuffer]
    BY <2>1 DEF View
  <2>. QED
    BY <1>16, <2>2
<1>20. Chain!Lists!Cleanup(f)
  BY <1>1, <1>17, <1>18, <1>19, CleanupHolds
<1>. QED
  BY <1>15, <1>20

\* The links nx after the blocks t + 1 to t + n are put on top of the list at old.
IsNewNext(nx2, nx, t, n, old) ==
  nx2 = [b \in Block |-> IF b = t + 1 THEN old
                         ELSE IF b \in (t + 2)..(t + n) THEN b - 1 ELSE nx[b]]

\* The highest number is on top, and the lowest is linked to the old top.
LEMMA NewLinks ==
  ASSUME NEW t \in Nat, NEW n \in Nat \ {0}, t + n <= MaxBlocks, NEW new, AreNew(new, t, n),
         NEW old, NEW nx, NEW nx2, IsNewNext(nx2, nx, t, n, old)
  PROVE  /\ new[1] = t + n
         /\ \A i \in 1..(n - 1) : nx2[new[i]] = new[i + 1]
         /\ nx2[new[n]] = old
         /\ \A x \in 1..t : nx2[x] = nx[x]
         /\ \A x \in Block : nx2[x] \in {old, nx[x]} \cup Block
<1>1. MaxBlocks \in Nat /\ t + n \in Nat
  BY BufferAssumption
<1>8. \A b \in Block : nx2[b] = IF b = t + 1 THEN old
                               ELSE IF b \in (t + 2)..(t + n) THEN b - 1 ELSE nx[b]
  BY DEF IsNewNext
<1>2. \A i \in 1..n : new[i] = t + n + 1 - i
  BY DEF AreNew
<1>3. new[1] = t + n /\ new[n] = t + 1
  BY <1>2
<1>4. ASSUME NEW i \in 1..(n - 1) PROVE nx2[new[i]] = new[i + 1]
  <2>1. new[i] = t + n + 1 - i /\ new[i + 1] = t + n - i
    BY <1>2
  <2>2. new[i] \in Block /\ new[i] # t + 1 /\ new[i] \in (t + 2)..(t + n)
    BY <1>1, <2>1 DEF Block
  <2>3. nx2[new[i]] = new[i] - 1
    BY <1>8, <2>2
  <2>. QED
    BY <2>1, <2>3
<1>5. t + 1 \in Block /\ nx2[t + 1] = old
  BY <1>1, <1>8 DEF Block
<1>6. ASSUME NEW x \in 1..t PROVE nx2[x] = nx[x]
  <2>1. x \in Block /\ x # t + 1 /\ x \notin (t + 2)..(t + n)
    BY <1>1 DEF Block
  <2>. QED
    BY <1>8, <2>1
<1>7. ASSUME NEW x \in Block PROVE nx2[x] \in {old, nx[x]} \cup Block
  <2>1. x \in (t + 2)..(t + n) => x - 1 \in Block
    BY <1>1 DEF Block
  <2>. QED
    BY <1>8, <2>1
<1>. QED
  BY <1>3, <1>4, <1>5, <1>6, <1>7

\* A bpPool of FileBuffer that gets its memory.
LEMMA BpPoolHolds ==
  ASSUME NEW m, NEW n, NEW new, n = m - reserved, AreNew(new, reserved, n), reserved < m,
         reserved + n <= MaxBlocks, TheStack' = new \o TheStack, reserved' = reserved + n,
         TheCount' = TheCount + n, TheFds' = TheFds, bytes' = bytes
  PROVE  Chain!Lists!BpPool(m)
<1>1. Chain!Lists!Reserve(n)
  BY DEF Chain!Lists!Reserve, TheStack, TheCount, AreNew
<1>. QED
  BY <1>1 DEF Chain!Lists!BpPool, TheFds

\* bpPool puts new blocks on top of the free list, or does nothing.
LEMMA ChainBpPool ==
  ASSUME NEW free, NEW loose, NEW c, Held(free, loose, c), NEW m \in PoolSizes, Chain!BpPool(m)
  PROVE  /\ \E free2 : Held(free2, loose, c)'
         /\ Chain!Lists!BpPool(m)
<1>1. /\ pushing = NoFd /\ loose = <<>>
      /\ UNCHANGED <<info, bytes, pushing, unused>>
      /\ \/ reserved < m /\ Chain!Reserve(m - reserved)
         \/ UNCHANGED <<next, top, spare, reserved>>
  BY DEF Chain!BpPool, Held
<1>2. CASE UNCHANGED <<next, top, spare, reserved>>
  <2>1. Held(free, loose, c)'
    BY <1>1, <1>2 DEF Held
  <2>2. TheStack' = TheStack /\ TheCount' = TheCount /\ TheFds' = TheFds
    BY <1>1, <2>1, SeenNow, SeenNext
  <2>3. Chain!Lists!BpPool(m)
    BY <1>1, <1>2, <2>2 DEF Chain!Lists!BpPool, TheStack, TheCount, TheFds
  <2>. QED
    BY <2>1, <2>3
<1>3. CASE reserved < m /\ Chain!Reserve(m - reserved)
  <2>1. PICK t, n : t = reserved /\ n = m - reserved
    OBVIOUS
  <2>2. /\ next \in [Block -> Block \cup {NULL}] /\ t \in Nat /\ n \in Nat \ {0}
        /\ m \in Nat /\ t < m /\ MaxBlocks \in Nat
    BY <1>3, <2>1, BufferAssumption DEF Held
  <2>3. /\ t + n <= MaxBlocks /\ top' = t + n /\ reserved' = t + n /\ spare' = spare + n
        /\ next' = [b \in Block |-> IF b = t + 1 THEN top
                                    ELSE IF b \in (t + 2)..(t + n) THEN b - 1 ELSE next[b]]
    BY <1>3, <2>1, ChainSame DEF Chain!Reserve
  <2>4. /\ Linked(next, top, free) /\ Linked(next, unused, loose) /\ Apart(free, loose, c)
        /\ Within(free, loose, c, t) /\ spare = Len(free) /\ c \in [Fd -> Seq(Block)]
        /\ \A g \in Fd : Linked(next, info[g].first, c[g]) /\ Right(info[g], c[g])
    BY <2>1 DEF Held, Kept
  <2>5. free \in Seq(Block) /\ IsInjective(free) /\ loose \in Seq(Block) /\ IsInjective(loose)
        /\ Range(free) \cap Range(loose) = {}
    BY <2>4 DEF Apart
  <2>. DEFINE new == [i \in 1..n |-> t + n + 1 - i]
              u == new \o free
  <2>6. AreNew(new, t, n) /\ IsJoin(u, new, free)
    BY DEF AreNew, IsJoin
  <2>. HIDE DEF new, u
  <2>7. /\ new \in Seq(Block) /\ Len(new) = n /\ IsInjective(new)
        /\ Range(new) = (t + 1)..(t + n)
    BY <2>2, <2>3, <2>6, NewBlocks
  <2>8. /\ new[1] = t + n /\ next'[new[n]] = top
        /\ \A i \in 1..(n - 1) : next'[new[i]] = new[i + 1]
        /\ \A x \in 1..t : next'[x] = next[x]
        /\ \A x \in Block : next'[x] \in {top, next[x]} \cup Block
    <3>1. IsNewNext(next', next, t, n, top)
      BY <2>3 DEF IsNewNext
    <3>2. new[1] = t + n /\ next'[new[n]] = top
      BY <2>2, <2>3, <2>6, <3>1, NewLinks
    <3>3. \A i \in 1..(n - 1) : next'[new[i]] = new[i + 1]
      BY <2>2, <2>3, <2>6, <3>1, NewLinks
    <3>4. \A x \in 1..t : next'[x] = next[x]
      BY <2>2, <2>3, <2>6, <3>1, NewLinks
    <3>5. \A x \in Block : next'[x] \in {top, next[x]} \cup Block
      BY <2>2, <2>3, <2>6, <3>1, NewLinks
    <3>. QED
      BY <3>2, <3>3, <3>4, <3>5
  <2>9. next' \in [Block -> Block \cup {NULL}]
    <3>1. top \in Block \cup {NULL}
      BY <2>4, LinkedNone
    <3>2. \A x \in Block : next'[x] \in Block \cup {NULL}
      BY <2>2, <2>8, <3>1
    <3>3. next' = [b \in Block |-> next'[b]]
      BY <2>3
    <3>. QED
      BY <3>2, <3>3
  <2>10. /\ Linked(next', top, free) /\ Linked(next', unused, loose)
         /\ \A g \in Fd : Linked(next', info[g].first, c[g])
    <3>1. ASSUME NEW b, NEW s, Linked(next, b, s), Range(s) \subseteq 1..t
          PROVE  Linked(next', b, s)
      <4>1. \A x \in Range(s) : next'[x] = next[x]
        BY <2>8, <3>1
      <4>. QED
        BY <3>1, <4>1, LinkedFrame
    <3>. QED
      BY <2>4, <3>1 DEF Within
  <2>11. Linked(next', t + n, u)
    <3>1. Len(new) > 0 /\ t + n = new[1] /\ next'[new[Len(new)]] = top
          /\ \A i \in 1..(Len(new) - 1) : next'[new[i]] = new[i + 1]
      BY <2>2, <2>7, <2>8
    <3>. QED
      BY <2>6, <2>7, <2>10, <3>1, LinkedJoin
  <2>12. \A x \in 1..t : x \notin Range(new)
    BY <2>2, <2>7
  <2>13. Range(new) \cap Range(free) = {}
    BY <2>4, <2>12 DEF Within
  <2>14. /\ u \in Seq(Block) /\ Len(u) = n + Len(free) /\ Len(free) \in Nat
         /\ Range(u) = Range(new) \cup Range(free) /\ IsInjective(u)
    <3>1. u \in Seq(Block) /\ Len(u) = Len(new) + Len(free) /\ Len(free) \in Nat
      BY <2>5, <2>6, <2>7, JoinSeq
    <3>0. free \in Seq(Block) /\ new \in Seq(Block)
      BY <2>5, <2>7
    <3>2. Range(u) = Range(new) \cup Range(free)
      BY <2>6, <3>0, JoinSeq
    <3>3. IsInjective(u)
      BY <2>5, <2>6, <2>7, <2>13, JoinSeq
    <3>. QED
      BY <2>7, <3>1, <3>2, <3>3
  <2>15. Apart(u, loose, c)
    <3>1. Range(loose) \cap Range(u) = {}
      BY <2>4, <2>5, <2>12, <2>14 DEF Within
    <3>2. \A g \in Fd : Range(c[g]) \cap Range(u) = {}
      <4>. TAKE g \in Fd
      <4>1. Range(c[g]) \subseteq 1..t /\ Range(c[g]) \cap Range(free) = {}
        BY <2>4 DEF Within, Apart
      <4>. QED
        BY <2>12, <2>14, <4>1
    <3>. QED
      BY <2>4, <2>14, <3>1, <3>2 DEF Apart
  <2>16. Kept(next', top', unused', info', u, loose, c)
    BY <1>1, <2>3, <2>10, <2>11, <2>15 DEF Kept
  <2>17. Within(u, loose, c, t + n)
    <3>1. 1..t \subseteq 1..(t + n) /\ (t + 1)..(t + n) \subseteq 1..(t + n)
      BY <2>2
    <3>. QED
      BY <2>4, <2>7, <2>14, <3>1 DEF Within
  <2>18. Held(u, loose, c)'
    <3>1. t + n \in 0..MaxBlocks /\ spare' = Len(u)
      BY <2>2, <2>3, <2>4, <2>14
    <3>. QED
      BY <1>1, <2>3, <2>9, <2>16, <2>17, <3>1 DEF Held
  <2>19. /\ TheStack = loose \o free /\ TheCount = Len(free) + Len(loose)
         /\ TheFds = View(info, c)
         /\ TheStack' = loose \o u /\ TheCount' = Len(u) + Len(loose)
         /\ TheFds' = View(info', c)
    BY <2>18, SeenNow, SeenNext
  <2>20. TheStack' = new \o TheStack /\ TheCount' = TheCount + n /\ TheFds' = TheFds
    <3>1. loose \o free = free /\ loose \o u = u /\ Len(loose) = 0
      BY <1>1, <2>5, <2>14, ConcatEmptySeq, EmptySeq
    <3>2. u = new \o free
      BY <2>6 DEF IsJoin
    <3>. QED
      BY <1>1, <2>2, <2>14, <2>19, <3>1, <3>2
  <2>21. Chain!Lists!BpPool(m)
    BY <1>1, <2>1, <2>2, <2>3, <2>6, <2>20, BpPoolHolds
  <2>. QED
    BY <2>18, <2>21
<1>. QED
  BY <1>1, <1>2, <1>3

\* What the free part of the last block adds to t bytes is whole blocks.
LEMMA RestFills ==
  ASSUME NEW t \in Nat, NEW z \in Nat, z = 0 => t = 0,
         NEW q \in Nat, NEW r \in 0..(BlockSize - 1), t = BlockSize * q + r,
         NEW rest, rest = IF z > 0 /\ r > 0 THEN BlockSize - r ELSE 0
  PROVE  /\ rest \in Nat
         /\ t + rest = BlockSize * BlocksFor(t)
         /\ rest > 0 => z > 0 /\ rest = BlockSize - r /\ BlocksFor(t) = q + 1
<1>1. BlockSize \in Nat \ {0}
  BY BufferAssumption
<1>4. BlockSize * q \in Nat
  BY <1>1
<1>5. CASE r = 0
  <2>1. t <= BlockSize * q /\ BlockSize * q < t + BlockSize
    BY <1>1, <1>4, <1>5
  <2>2. BlocksFor(t) = q
    BY <2>1, BlocksUnique
  <2>. QED
    BY <1>1, <1>4, <1>5, <2>2
<1>6. CASE r # 0
  <2>1. z > 0 /\ rest = BlockSize - r /\ r \in Nat /\ rest \in Nat
    <3>1. t # 0
      BY <1>1, <1>4, <1>6
    <3>. QED
      BY <1>1, <1>6, <3>1
  <2>2. q + 1 \in Nat /\ BlockSize * (q + 1) = BlockSize * q + BlockSize
    <3>1. \A x, y \in Int : x * (y + 1) = x * y + x
      OBVIOUS
    <3>. QED
      BY <1>1, <3>1
  <2>3. t <= BlockSize * (q + 1) /\ BlockSize * (q + 1) < t + BlockSize
    BY <1>1, <1>4, <1>6, <2>2
  <2>4. BlocksFor(t) = q + 1
    BY <2>2, <2>3, BlocksUnique
  <2>5. t + rest = BlockSize * (q + 1)
    BY <1>1, <1>4, <2>1, <2>2
  <2>. QED
    BY <2>1, <2>4, <2>5
<1>. QED
  BY <1>5, <1>6

\* The links after put: u is s with the first n free blocks behind it.
IsPutNext(nx2, nx, s, free, n, t) ==
  nx2 = [x \in Block |-> IF x = free[n] THEN NULL
                         ELSE IF Len(s) > 0 /\ x = s[Len(s)] THEN t ELSE nx[x]]

\* They link u, and the free list begins behind it.
LEMMA PutLinks ==
  ASSUME NEW nx, nx \in [Block -> Block \cup {NULL}], NEW nx2, NEW t, NEW b, NEW s, NEW free,
         Linked(nx, b, s), IsInjective(s), Linked(nx, t, free), IsInjective(free),
         Range(s) \cap Range(free) = {}, NEW n \in 1..Len(free),
         IsPutNext(nx2, nx, s, free, n, t),
         NEW taken, NEW rest, IsCut(free, n, taken, rest), NEW u, IsJoin(u, s, taken)
  PROVE  /\ Linked(nx2, IF Len(s) = 0 THEN t ELSE b, u)
         /\ Linked(nx2, nx[free[n]], rest)
         /\ nx2 \in [Block -> Block \cup {NULL}]
<1>1. /\ s \in Seq(Block) /\ free \in Seq(Block) /\ Len(s) \in Nat /\ Len(free) \in Nat
      /\ n \in Nat /\ n > 0 /\ n \in 0..Len(free)
  BY LenProperties DEF Linked
<1>2. \A i \in 1..Len(s) : s[i] \in Range(s) /\ s[i] \in Block
  BY <1>1, SeqRange
<1>3. \A i \in 1..Len(free) : free[i] \in Range(free) /\ free[i] \in Block
  BY <1>1, SeqRange
<1>4. t \in Block \cup {NULL}
  BY LinkedNone
<1>5. \A x \in Block : nx2[x] = IF x = free[n] THEN NULL
                               ELSE IF Len(s) > 0 /\ x = s[Len(s)] THEN t ELSE nx[x]
  BY DEF IsPutNext
<1>6. nx2 \in [Block -> Block \cup {NULL}]
  BY <1>4 DEF IsPutNext
<1>7. free[n] \in Block /\ free[n] \in Range(free) /\ nx2[free[n]] = NULL
  BY <1>1, <1>3, <1>5
<1>8. \A x \in Block : x \notin Range(s) /\ x # free[n] => nx2[x] = nx[x]
  <2>1. Len(s) > 0 => s[Len(s)] \in Range(s)
    BY <1>1, <1>2
  <2>. QED
    BY <1>5, <2>1
<1>9. /\ taken \in Seq(Block) /\ rest \in Seq(Block)
      /\ Range(taken) \cup Range(rest) = Range(free)
      /\ Range(taken) \cap Range(rest) = {}
  <2>1. taken \in Seq(Block) /\ rest \in Seq(Block)
    BY <1>1, CutSeq
  <2>2. Range(taken) \cup Range(rest) = Range(free)
    BY <1>1, CutSeq
  <2>3. Range(taken) \cap Range(rest) = {}
    BY <1>1, CutSeq
  <2>. QED
    BY <2>1, <2>2, <2>3
<1>10. Len(taken) = n /\ \A i \in 1..n : taken[i] = free[i]
  BY <1>1, CutSeq
<1>11. Linked(nx, Nth(free, n + 1), rest) /\ nx[free[n]] = Nth(free, n + 1)
  <2>1. Linked(nx, Nth(free, n + 1), rest)
    BY <1>1, LinkedCut
  <2>. QED
    BY <1>1, <2>1 DEF Linked
<1>12. Linked(nx2, nx[free[n]], rest)
  <2>1. free[n] \in Range(taken)
    BY <1>1, <1>9, <1>10, SeqRange
  <2>2. \A x \in Range(rest) : x \in Block /\ x \notin Range(s) /\ x # free[n]
    <3>1. Range(rest) \subseteq Block
      BY <1>9, SeqRange
    <3>. QED
      BY <1>9, <2>1, <3>1
  <2>3. \A x \in Range(rest) : nx2[x] = nx[x]
    BY <1>8, <2>2
  <2>. QED
    BY <1>11, <2>3, LinkedFrame
<1>13. Linked(nx2, t, taken)
  <2>1. taken[1] = t
    BY <1>1, <1>10 DEF Linked, Nth
  <2>2. nx2[taken[Len(taken)]] = NULL
    BY <1>1, <1>7, <1>10
  <2>3. ASSUME NEW i \in 1..(Len(taken) - 1) PROVE nx2[taken[i]] = taken[i + 1]
    <3>1. i \in 1..Len(free) /\ i + 1 \in 1..Len(free) /\ i # n /\ i \in 1..n /\ i + 1 \in 1..n
      BY <1>1, <1>10
    <3>2. free[i] # free[n] /\ free[i] \in Block /\ free[i] \notin Range(s)
      BY <1>1, <1>3, <3>1, SeqRange
    <3>3. nx[free[i]] = free[i + 1]
      BY <3>1 DEF Linked, Nth
    <3>. QED
      BY <1>8, <1>10, <3>1, <3>2, <3>3
  <2>4. Linked(nx2, NULL, <<>>)
    BY LinkedEmpty
  <2>5. taken = taken \o <<>>
    BY <1>9, ConcatEmptySeq
  <2>. QED
    <3>1. PICK e : e = <<>>
      OBVIOUS
    <3>2. IsJoin(taken, taken, e) /\ Linked(nx2, NULL, e)
      BY <2>4, <2>5, <3>1 DEF IsJoin
    <3>3. Len(taken) > 0
      BY <1>1, <1>10
    <3>. QED
      BY <1>9, <2>1, <2>2, <2>3, <3>2, <3>3, LinkedJoin
<1>14. CASE Len(s) = 0
  <2>1. s = <<>>
    BY <1>1, <1>14, EmptySeq
  <2>2. u = taken
    BY <1>9, <2>1, ConcatEmptySeq DEF IsJoin
  <2>3. Linked(nx2, IF Len(s) = 0 THEN t ELSE b, u)
    BY <1>13, <1>14, <2>2
  <2>. QED
    BY <1>6, <1>8, <1>7, <1>12, <2>3
<1>15. CASE Len(s) # 0
  <2>1. Len(s) > 0 /\ Len(s) \in 1..Len(s)
    BY <1>1, <1>15
  <2>2. nx2[s[Len(s)]] = t
    <3>1. s[Len(s)] # free[n]
      BY <1>2, <1>7, <2>1
    <3>. QED
      BY <1>2, <1>5, <2>1, <3>1
  <2>3. ASSUME NEW i \in 1..(Len(s) - 1) PROVE nx2[s[i]] = s[i + 1]
    <3>1. i \in 1..Len(s) /\ i + 1 \in 1..Len(s) /\ i # Len(s)
      BY <1>1
    <3>2. s[i] # s[Len(s)] /\ s[i] \in Block /\ s[i] # free[n]
      BY <1>1, <1>2, <1>7, <2>1, <3>1, SeqRange
    <3>3. nx[s[i]] = s[i + 1]
      BY <3>1 DEF Linked, Nth
    <3>. QED
      BY <1>5, <3>2, <3>3
  <2>4. b = s[1]
    BY <1>1, <2>1 DEF Linked, Nth
  <2>5. Linked(nx2, b, u)
    BY <1>1, <1>13, <2>1, <2>2, <2>3, <2>4, LinkedJoin
  <2>6. Linked(nx2, IF Len(s) = 0 THEN t ELSE b, u)
    BY <1>15, <2>5
  <2>. QED
    BY <1>6, <1>8, <1>7, <1>12, <2>6
<1>. QED
  BY <1>14, <1>15

\* The memory after each byte i of d is put in place[i].
IsPlaced(new, place, d) ==
  new = [b \in Block |-> [cell \in 0..(BlockSize - 1) |->
           IF \E i \in 1..Len(d) : place[i] = <<b, cell>>
           THEN d[CHOOSE i \in 1..Len(d) : place[i] = <<b, cell>>]
           ELSE bytes[b][cell]]]

\* If these are the places start, start + 1, ... of a chain, it is what FileBuffer does.
LEMMA PlacedCopied ==
  ASSUME NEW u \in Seq(Block), IsInjective(u), NEW start \in Nat,
         NEW d, Len(d) \in Nat, Len(u) = BlocksFor(start + Len(d)), NEW place,
         \A i \in 1..Len(d) : place[i] = <<BlockAt(u, start + i - 1), CellAt(start + i - 1)>>,
         NEW new, IsPlaced(new, place, d)
  PROVE  new = Chain!Lists!Copied(u, start, d)
<1>1. ASSUME NEW i \in 1..Len(d), NEW j \in 1..Len(d), place[i] = place[j] PROVE i = j
  <2>1. /\ start + i - 1 \in Nat /\ start + j - 1 \in Nat /\ start + Len(d) \in Nat
        /\ start + i - 1 < start + Len(d) /\ start + j - 1 < start + Len(d)
    OBVIOUS
  <2>2. /\ BlockAt(u, start + i - 1) = BlockAt(u, start + j - 1)
        /\ CellAt(start + i - 1) = CellAt(start + j - 1)
    BY <1>1
  <2>3. start + i - 1 = start + j - 1
    BY <2>1, <2>2, OnePlace
  <2>. QED
    BY <2>3
<1>2. ASSUME NEW b \in Block, NEW cell \in 0..(BlockSize - 1)
      PROVE  LET hit == {i \in 1..Len(d) : /\ BlockAt(u, start + i - 1) = b
                                           /\ CellAt(start + i - 1) = cell}
             IN  (IF hit = {} THEN bytes[b][cell] ELSE d[CHOOSE i \in hit : TRUE])
                   = IF \E i \in 1..Len(d) : place[i] = <<b, cell>>
                     THEN d[CHOOSE i \in 1..Len(d) : place[i] = <<b, cell>>]
                     ELSE bytes[b][cell]
  <2>. DEFINE hit == {i \in 1..Len(d) : /\ BlockAt(u, start + i - 1) = b
                                        /\ CellAt(start + i - 1) = cell}
  <2>1. \A i \in 1..Len(d) : i \in hit <=> place[i] = <<b, cell>>
    OBVIOUS
  <2>2. \A i : i \in hit => i \in 1..Len(d)
    OBVIOUS
  <2>. HIDE DEF hit
  <2>3. CASE hit = {}
    <3>1. ~ \E i \in 1..Len(d) : place[i] = <<b, cell>>
      BY <2>1, <2>3
    <3>. QED
      BY <2>3, <3>1, Zenon DEF hit
  <2>4. CASE hit # {}
    <3>. DEFINE x == CHOOSE i \in hit : TRUE
                y == CHOOSE i \in 1..Len(d) : place[i] = <<b, cell>>
    <3>1. x \in hit
      BY <2>4, Zenon
    <3>2. \E i \in 1..Len(d) : place[i] = <<b, cell>>
      BY <2>1, <2>2, <3>1
    <3>3. y \in 1..Len(d) /\ place[y] = <<b, cell>>
      BY <3>2, Zenon
    <3>. HIDE DEF x, y
    <3>4. x \in 1..Len(d) /\ place[x] = <<b, cell>>
      BY <2>1, <2>2, <3>1
    <3>5. x = y
      BY <1>1, <3>3, <3>4
    <3>. QED
      BY <2>4, <3>2, <3>5, Zenon DEF x, y, hit
  <2>. QED
    BY <2>3, <2>4, Zenon DEF hit
<1>. DEFINE Hit(b, cell) == {i \in 1..Len(d) : /\ BlockAt(u, start + i - 1) = b
                                              /\ CellAt(start + i - 1) = cell}
            Left(b, cell) == IF Hit(b, cell) = {} THEN bytes[b][cell]
                             ELSE d[CHOOSE i \in Hit(b, cell) : TRUE]
            Down(b, cell) == IF \E i \in 1..Len(d) : place[i] = <<b, cell>>
                            THEN d[CHOOSE i \in 1..Len(d) : place[i] = <<b, cell>>]
                            ELSE bytes[b][cell]
<1>3. \A b \in Block : \A cell \in 0..(BlockSize - 1) : Left(b, cell) = Down(b, cell)
  BY <1>2
<1>4. new = [b \in Block |-> [cell \in 0..(BlockSize - 1) |-> Down(b, cell)]]
  BY Zenon DEF IsPlaced
<1>5. Chain!Lists!Copied(u, start, d)
        = [b \in Block |-> [cell \in 0..(BlockSize - 1) |-> Left(b, cell)]]
  BY Zenon DEF Chain!Lists!Copied, Chain!Lists!Block, Block, Chain!Lists!BlockAt, BlockAt,
         Chain!Lists!CellAt, CellAt
<1>. HIDE DEF Left, Down
<1>. QED
  BY <1>3, <1>4, <1>5

\* Behind the first part comes the second.
LEMMA JoinSecond ==
  ASSUME NEW S, NEW s \in Seq(S), NEW a \in Seq(S), NEW u, IsJoin(u, s, a), NEW i \in 1..Len(a)
  PROVE  u[Len(s) + i] = a[i]
<1>1. /\ Len(s) \in Nat /\ Len(a) \in Nat
      /\ \A j \in 1 .. Len(s) + Len(a) : u[j] = IF j <= Len(s) THEN s[j] ELSE a[j - Len(s)]
  BY ConcatProperties, LenProperties DEF IsJoin
<1>2. /\ Len(s) + i \in 1..(Len(s) + Len(a)) /\ ~ (Len(s) + i <= Len(s))
      /\ (Len(s) + i) - Len(s) = i
  BY <1>1
<1>. QED
  BY <1>1, <1>2

\* The numbers of put for byte i of len bytes behind t bytes in the blocks of a buffer.
IsByte(t, z, q, r, rest, k, len, keep, i, p, j) ==
  /\ t \in Nat /\ z \in Nat /\ (z = 0 => t = 0)
  /\ q \in Nat /\ r \in 0..(BlockSize - 1) /\ t = BlockSize * q + r
  /\ rest = IF z > 0 /\ r > 0 THEN BlockSize - r ELSE 0
  /\ k = BlocksFor(t)
  /\ len \in Nat \ {0} /\ keep = IF len <= rest THEN len ELSE rest
  /\ i \in 1..len /\ p = t + i - 1 /\ j = i - keep - 1

\* Byte i goes to the last block while keep lasts, and then to the new ones.
LEMMA ByteNumbers ==
  ASSUME NEW t, NEW z, NEW q, NEW r, NEW rest, NEW k, NEW len, NEW keep, NEW i, NEW p, NEW j,
         IsByte(t, z, q, r, rest, k, len, keep, i, p, j)
  PROVE  /\ i \in Nat /\ keep \in Nat /\ k \in Nat
         /\ i <= keep => /\ z > 0 /\ 1 + (p \div BlockSize) = k /\ k \in 1..k
                         /\ p % BlockSize = r + i - 1
         /\ ~ (i <= keep) => /\ j \in Nat /\ j < len - keep /\ len - keep \in Nat
                             /\ 1 + (p \div BlockSize) = k + (1 + (j \div BlockSize))
                             /\ p % BlockSize = j % BlockSize
<1>1. /\ t \in Nat /\ z \in Nat /\ (z = 0 => t = 0)
      /\ q \in Nat /\ r \in 0..(BlockSize - 1) /\ t = BlockSize * q + r
      /\ rest = IF z > 0 /\ r > 0 THEN BlockSize - r ELSE 0
      /\ k = BlocksFor(t)
  BY DEF IsByte
<1>2. /\ len \in Nat \ {0} /\ keep = IF len <= rest THEN len ELSE rest
      /\ i \in 1..len /\ p = t + i - 1 /\ j = i - keep - 1
  BY DEF IsByte
<1>3. /\ rest \in Nat /\ t + rest = BlockSize * k
      /\ rest > 0 => z > 0 /\ rest = BlockSize - r /\ k = q + 1
  <2>1. rest \in Nat
    BY <1>1, RestFills
  <2>0. BlockSize \in Nat \ {0} /\ BlocksFor(t) \in Nat
    BY <1>1, BufferAssumption, BlocksHold
  <2>2. t + rest = BlockSize * BlocksFor(t)
    BY <1>1, <2>0, <2>1, RestFills
  <2>3. rest > 0 => z > 0 /\ rest = BlockSize - r /\ BlocksFor(t) = q + 1
    BY <1>1, RestFills
  <2>. QED
    BY <1>1, <2>1, <2>2, <2>3, Zenon
<1>4. /\ k \in Nat /\ keep \in Nat /\ i \in Nat
  BY <1>1, <1>2, <1>3, BlocksHold
<1>5. BlockSize \in Nat \ {0} /\ p \in Nat /\ BlockSize * q \in Nat /\ BlockSize * k \in Nat
  BY <1>1, <1>2, <1>4, BufferAssumption
<1>7. ASSUME i <= keep
      PROVE  z > 0 /\ 1 + (p \div BlockSize) = k /\ k \in 1..k /\ p % BlockSize = r + i - 1
  <2>1. rest > 0 /\ i <= rest
    BY <1>2, <1>3, <1>4, <1>7
  <2>2. z > 0 /\ rest = BlockSize - r /\ k = q + 1
    BY <1>3, <2>1
  <2>3. p = BlockSize * q + (r + i - 1) /\ r + i - 1 \in 0..(BlockSize - 1)
    BY <1>1, <1>2, <1>4, <1>5, <2>1, <2>2
  <2>4. p \div BlockSize = q /\ p % BlockSize = r + i - 1
    BY <1>1, <1>5, <2>3, DivUnique
  <2>. QED
    BY <1>1, <1>4, <2>2, <2>4
<1>8. ASSUME ~ (i <= keep)
      PROVE  /\ j \in Nat /\ j < len - keep /\ len - keep \in Nat
             /\ 1 + (p \div BlockSize) = k + (1 + (j \div BlockSize))
             /\ p % BlockSize = j % BlockSize
  <2>1. keep = rest /\ j \in Nat /\ j < len - keep /\ len - keep \in Nat
    BY <1>2, <1>3, <1>4, <1>8
  <2>2. p = j + BlockSize * k
    BY <1>1, <1>2, <1>3, <1>4, <1>5, <2>1
  <2>3. /\ (j + BlockSize * k) \div BlockSize = k + (j \div BlockSize)
        /\ (j + BlockSize * k) % BlockSize = j % BlockSize
    BY <1>4, <1>5, <2>1, DivShift
  <2>4. j \div BlockSize \in Nat
    BY <1>5, <2>1, DivMod
  <2>5. \A a, b \in Nat : 1 + (a + b) = a + (1 + b)
    OBVIOUS
  <2>6. 1 + (k + (j \div BlockSize)) = k + (1 + (j \div BlockSize))
    BY <1>4, <2>4, <2>5
  <2>. QED
    BY <2>1, <2>2, <2>3, <2>6, Zenon
<1>. QED
  BY <1>4, <1>7, <1>8, Zenon

\* Where the pointers put the byte, behind the blocks s: in the place p of the chain u,
\* which is s with the first n free blocks behind it.
LEMMA PutPlace ==
  ASSUME NEW s \in Seq(Block), NEW free, Linked(next, top, free), NEW n \in 0..Len(free),
         NEW taken, NEW left, IsCut(free, n, taken, left), NEW u, IsJoin(u, s, taken),
         NEW t, NEW z, NEW q, NEW r, NEW rest, NEW len, NEW keep, NEW i, NEW p, NEW j,
         IsByte(t, z, q, r, rest, Len(s), len, keep, i, p, j),
         n = BlocksFor(len - keep), NEW last, z > 0 => last = s[Len(s)]
  PROVE  <<BlockAt(u, p), CellAt(p)>>
           = IF i <= keep THEN <<last, r + i - 1>>
             ELSE <<Chain!Walk(next, top, j \div BlockSize), j % BlockSize>>
<1>1. free \in Seq(Block) /\ Len(s) \in Nat /\ Len(free) \in Nat /\ n \in Nat
  BY LenProperties DEF Linked
<1>3. /\ i \in Nat /\ keep \in Nat
      /\ i <= keep => /\ z > 0 /\ 1 + (p \div BlockSize) = Len(s) /\ Len(s) \in 1..Len(s)
                      /\ p % BlockSize = r + i - 1
      /\ ~ (i <= keep) => /\ j \in Nat /\ j < len - keep /\ len - keep \in Nat
                          /\ 1 + (p \div BlockSize) = Len(s) + (1 + (j \div BlockSize))
                          /\ p % BlockSize = j % BlockSize
  BY ByteNumbers
<1>7. /\ taken \in Seq(Block) /\ Len(taken) = n /\ \A m \in 1..n : taken[m] = free[m]
  BY <1>1, CutSeq
<1>8. CASE i <= keep
  <2>1. z > 0 /\ 1 + (p \div BlockSize) = Len(s) /\ Len(s) \in 1..Len(s)
        /\ p % BlockSize = r + i - 1
    BY <1>3, <1>8
  <2>3. u[Len(s)] = s[Len(s)]
    BY <1>7, <2>1, JoinSeq
  <2>. QED
    BY <1>8, <2>1, <2>3, Zenon DEF BlockAt, CellAt
<1>9. CASE ~ (i <= keep)
  <2>2. /\ j \in Nat /\ j < len - keep /\ len - keep \in Nat
        /\ 1 + (p \div BlockSize) = Len(s) + (1 + (j \div BlockSize))
        /\ p % BlockSize = j % BlockSize
    BY <1>3, <1>9
  <2>3. 1 + (j \div BlockSize) \in 1..n
    BY <2>2, PlaceInside
  <2>4. PICK m : m = j \div BlockSize
    OBVIOUS
  <2>5. m \in Nat
    BY <2>2, <2>4, DivMod, BufferAssumption
  <2>6. m \in 0..Len(free) /\ 1 + m = m + 1 /\ m + 1 \in 1..Len(free) /\ m + 1 \in 1..n
        /\ m + 1 \in 1..Len(taken)
    BY <1>1, <1>7, <2>3, <2>4, <2>5
  <2>7. Chain!Walk(next, top, m) = free[m + 1]
    BY <2>6, LinkedWalk DEF Nth
  <2>8. u[Len(s) + (m + 1)] = taken[m + 1]
    <3>1. PICK x : x = m + 1
      OBVIOUS
    <3>2. x \in 1..Len(taken)
      BY <2>6, <3>1
    <3>3. u[Len(s) + x] = taken[x]
      BY <1>7, <3>2, JoinSecond
    <3>. QED
      BY <3>1, <3>3
  <2>9. taken[m + 1] = free[m + 1]
    BY <1>7, <2>6
  <2>. QED
    BY <1>9, <2>2, <2>4, <2>6, <2>7, <2>8, <2>9, Zenon DEF BlockAt, CellAt
<1>. QED
  BY <1>8, <1>9

\* The entry nb is fb after put.
IsPut(fb, nb, first, o, last, z) ==
  nb = [fb EXCEPT !.first = first, !.offset = o, !.last = last, !.size = z]

\* The entry after put.
LEMMA PutEntry ==
  ASSUME NEW fb \in Info, NEW first \in Block \cup {NULL}, NEW o \in 0..(BlockSize - 1),
         NEW last \in Block \cup {NULL}, NEW z \in Nat, NEW nb, IsPut(fb, nb, first, o, last, z)
  PROVE  /\ nb \in Info /\ nb.first = first /\ nb.offset = o /\ nb.last = last
         /\ nb.size = z /\ nb.quota = fb.quota
BY DEF Info, IsPut

\* How many blocks put takes: as many as FileBuffer does.
LEMMA PutNeeds ==
  ASSUME NEW fb \in Info, fb.size = 0 => fb.offset = 0, NEW s \in Seq(Block),
         NEW len \in Nat \ {0}, NEW keep, keep = IF len <= Rest(fb) THEN len ELSE Rest(fb),
         NEW need, need = BlocksFor(len - keep)
  PROVE  /\ need = Need(ToBuffer(fb, s), len) /\ need \in Nat
         /\ BlocksFor(fb.offset + fb.size) + need = BlocksFor(fb.offset + fb.size + len)
         /\ need = 0 => fb.size > 0
<1>. DEFINE old == ToBuffer(fb, s)
<1>1. /\ old \in Buffer /\ old.size = fb.size /\ old.offset = fb.offset
      /\ (old.size = 0 => old.offset = 0)
  BY DEF ToBuffer, Info, Buffer
<1>2. Rest(old) = Rest(fb)
  BY <1>1 DEF Rest
<1>. HIDE DEF old
<1>3. /\ Need(old, len) \in Nat
      /\ BlocksFor(old.offset + old.size) + Need(old, len) = BlocksFor(old.offset + old.size + len)
  BY <1>1, PutFits
<1>4. need = Need(old, len)
  <2>1. CASE len <= Rest(fb)
    <3>1. keep = len /\ len - keep = 0
      BY <2>1
    <3>. QED
      BY <1>2, <2>1, <3>1, BlocksForNone DEF Need
  <2>. QED
    BY <1>2, <2>1 DEF Need
<1>5. ASSUME fb.size = 0 PROVE need # 0
  <2>1. Rest(fb) = 0
    BY <1>5 DEF Rest
  <2>2. len - keep = len
    BY <2>1
  <2>3. len <= BlockSize * BlocksFor(len) /\ BlockSize * 0 = 0
    BY BlocksHold, BufferAssumption
  <2>. QED
    BY <2>2, <2>3
<1>6. fb.size \in Nat
  BY DEF Info
<1>. QED
  BY <1>1, <1>3, <1>4, <1>5, <1>6 DEF old

\* The links after put: need blocks go from the top of the free list to the end of the
\* chain s that starts at b and has its end at last.
PutNext(nx2, need, tail, z, last) ==
  nx2 = [x \in Block |-> IF need > 0 /\ x = tail THEN NULL
                         ELSE IF need > 0 /\ z > 0 /\ x = last THEN top
                         ELSE next[x]]

\* What put starts with and what it makes of it: u is s with the blocks taken behind it.
PutMoves(b, s, free, need, z, last, tail, nx2, taken, left, u) ==
  /\ next \in [Block -> Block \cup {NULL}]
  /\ Linked(next, b, s) /\ IsInjective(s) /\ Linked(next, top, free) /\ IsInjective(free)
  /\ Range(s) \cap Range(free) = {} /\ need \in 0..Len(free) /\ z \in Nat
  /\ (Len(s) > 0 <=> z > 0) /\ (need = 0 => z > 0) /\ (Len(s) > 0 => last = s[Len(s)])
  /\ (need > 0 => tail = Chain!Walk(next, top, need - 1))
  /\ PutNext(nx2, need, tail, z, last)
  /\ IsCut(free, need, taken, left) /\ IsJoin(u, s, taken)

\* The lists that come of it.
LEMMA PutLists ==
  ASSUME NEW b, NEW s, NEW free, NEW need, NEW z, NEW last, NEW tail, NEW nx2,
         NEW taken, NEW left, NEW u,
         PutMoves(b, s, free, need, z, last, tail, nx2, taken, left, u)
  PROVE  /\ Linked(nx2, IF z = 0 THEN top ELSE b, u)
         /\ Linked(nx2, IF need = 0 THEN top ELSE next[tail], left)
         /\ nx2 \in [Block -> Block \cup {NULL}]
         /\ \A x \in Block : x \notin Range(s) /\ x \notin Range(free) => nx2[x] = next[x]
         /\ (IF need = 0 THEN last ELSE tail) = u[Len(u)] /\ u[Len(u)] \in Block
<1>0. /\ next \in [Block -> Block \cup {NULL}]
      /\ Linked(next, b, s) /\ IsInjective(s) /\ Linked(next, top, free) /\ IsInjective(free)
      /\ Range(s) \cap Range(free) = {} /\ need \in 0..Len(free) /\ z \in Nat
      /\ (Len(s) > 0 <=> z > 0) /\ (need = 0 => z > 0) /\ (Len(s) > 0 => last = s[Len(s)])
      /\ (need > 0 => tail = Chain!Walk(next, top, need - 1))
      /\ PutNext(nx2, need, tail, z, last)
      /\ IsCut(free, need, taken, left) /\ IsJoin(u, s, taken)
  BY DEF PutMoves
<1>. USE <1>0
<1>1. /\ s \in Seq(Block) /\ free \in Seq(Block) /\ Len(s) \in Nat /\ Len(free) \in Nat
      /\ need \in Nat
  BY LenProperties DEF Linked
<1>2. /\ taken \in Seq(Block) /\ Len(taken) = need /\ \A m \in 1..need : taken[m] = free[m]
  BY <1>1, CutSeq
<1>3. u \in Seq(Block) /\ Len(u) = Len(s) + need
  BY <1>1, <1>2, JoinSeq
<1>4. CASE need = 0
  <2>1. PICK e : e = <<>>
    OBVIOUS
  <2>2. taken = e /\ e = <<>>
    BY <1>2, <1>4, <2>1, EmptySeq
  <2>3. left = free
    <3>1. left = SubSeq(free, 1, Len(free))
      BY <1>4 DEF IsCut
    <3>. QED
      BY <1>1, <3>1, SubSeqAll
  <2>4. u = s
    BY <1>1, <2>2, ConcatEmptySeq DEF IsJoin
  <2>5. nx2 = next
    <3>1. \A x \in Block : nx2[x] = next[x]
      BY <1>4 DEF PutNext
    <3>2. nx2 = [x \in Block |-> nx2[x]]
      BY DEF PutNext
    <3>. QED
      BY <3>1, <3>2
  <2>6. z # 0 /\ Len(s) > 0 /\ last = s[Len(s)] /\ s[Len(s)] \in Block
    BY <1>1, <1>4, ElementOfSeq
  <2>. QED
    BY <1>4, <2>3, <2>4, <2>5, <2>6
<1>5. CASE need # 0
  <2>1. need \in 1..Len(free) /\ need > 0 /\ need - 1 \in 0..Len(free)
    BY <1>1, <1>5
  <2>2. tail = free[need]
    <3>1. Chain!Walk(next, top, need - 1) = Nth(free, (need - 1) + 1)
      BY <2>1, LinkedWalk
    <3>2. (need - 1) + 1 = need
      BY <1>1
    <3>. QED
      BY <2>1, <3>1, <3>2 DEF Nth
  <2>3. IsPutNext(nx2, next, s, free, need, top)
    <3>1. \A x \in Block : (need > 0 /\ z > 0 /\ x = last) <=> (Len(s) > 0 /\ x = s[Len(s)])
      BY <2>1
    <3>. QED
      BY <2>1, <2>2, <3>1 DEF PutNext, IsPutNext
  <2>4. Linked(nx2, IF Len(s) = 0 THEN top ELSE b, u)
    BY <2>1, <2>3, PutLinks
  <2>5. Linked(nx2, next[tail], left)
    BY <2>1, <2>2, <2>3, PutLinks
  <2>6. nx2 \in [Block -> Block \cup {NULL}]
    BY <2>1, <2>3, PutLinks
  <2>7. ASSUME NEW x \in Block, x \notin Range(s), x \notin Range(free)
        PROVE  nx2[x] = next[x]
    <3>1. x # free[need]
      BY <1>1, <2>1, <2>7, SeqRange
    <3>2. Len(s) > 0 => x # s[Len(s)]
      BY <1>1, <2>7, SeqRange
    <3>. QED
      BY <2>3, <3>1, <3>2 DEF IsPutNext
  <2>8. u[Len(u)] = tail /\ tail \in Block
    <3>1. need \in 1..Len(taken)
      BY <1>2, <2>1
    <3>2. u[Len(s) + need] = taken[need]
      BY <1>1, <1>2, <3>1, JoinSecond
    <3>3. need \in 1..need
      BY <2>1
    <3>. QED
      BY <1>1, <1>2, <1>3, <2>1, <2>2, <3>2, <3>3, ElementOfSeq
  <2>9. (z = 0) = (Len(s) = 0)
    BY <1>1
  <2>. QED
    BY <1>5, <2>4, <2>5, <2>6, <2>7, <2>8, <2>9, Zenon
<1>. QED
  BY <1>4, <1>5

\* The bytes of put are bytes.
LEMMA PlacedType ==
  ASSUME bytes \in Memory, NEW d \in Data, NEW place, NEW new, IsPlaced(new, place, d)
  PROVE  new \in Memory
<1>1. d \in Seq(Byte)
  BY BufferAssumption
<1>2. \A i \in 1..Len(d) : d[i] \in Byte
  BY <1>1, ElementOfSeq
<1>3. ASSUME NEW b \in Block, NEW cell \in 0..(BlockSize - 1)
      PROVE  (IF \E i \in 1..Len(d) : place[i] = <<b, cell>>
              THEN d[CHOOSE i \in 1..Len(d) : place[i] = <<b, cell>>]
              ELSE bytes[b][cell]) \in Byte \cup {Garbage}
  <2>1. bytes[b][cell] \in Byte \cup {Garbage}
    BY DEF Memory
  <2>2. CASE \E i \in 1..Len(d) : place[i] = <<b, cell>>
    <3>. DEFINE y == CHOOSE i \in 1..Len(d) : place[i] = <<b, cell>>
    <3>1. y \in 1..Len(d)
      BY <2>2, Zenon
    <3>2. d[y] \in Byte
      BY <1>2, <3>1
    <3>. QED
      BY <2>2, <3>2
  <2>. QED
    BY <2>1, <2>2
<1>. DEFINE Down(b, cell) == IF \E i \in 1..Len(d) : place[i] = <<b, cell>>
                             THEN d[CHOOSE i \in 1..Len(d) : place[i] = <<b, cell>>]
                             ELSE bytes[b][cell]
<1>4. \A b \in Block : \A cell \in 0..(BlockSize - 1) : Down(b, cell) \in Byte \cup {Garbage}
  BY <1>3
<1>5. new = [b \in Block |-> [cell \in 0..(BlockSize - 1) |-> Down(b, cell)]]
  BY Zenon DEF IsPlaced
<1>. HIDE DEF Down
<1>. QED
  BY <1>4, <1>5 DEF Memory

\* put writes the bytes where FileBuffer does.
LEMMA PutCopies ==
  ASSUME NEW free, NEW loose, NEW c, Held(free, loose, c), NEW f \in Fd, NEW d \in Data,
         Chain!Put(f, d), NEW fb, fb = info[f], NEW s, s = c[f], NEW keep,
         keep = IF Len(d) <= Rest(fb) THEN Len(d) ELSE Rest(fb),
         NEW need, need = BlocksFor(Len(d) - keep), NEW taken, NEW left,
         IsCut(free, need, taken, left), NEW u, IsJoin(u, s, taken), IsInjective(u),
         need \in 0..Len(free), Len(u) = BlocksFor(fb.offset + fb.size + Len(d))
  PROVE  /\ bytes' = Chain!Lists!Copied(u, fb.offset + fb.size, d)
         /\ bytes' \in Memory
<1>1. /\ fb \in Info /\ Right(fb, s) /\ Linked(next, top, free) /\ s \in Seq(Block)
      /\ bytes \in Memory
  BY DEF Held, Kept
<1>2. /\ fb.offset \in Nat /\ fb.size \in Nat /\ (fb.size = 0 => fb.offset = 0)
      /\ Len(s) = BlocksFor(fb.offset + fb.size)
      /\ fb.size > 0 => fb.last = s[Len(s)]
  <2>1. fb.offset \in Nat /\ fb.size \in Nat
    BY <1>1, BufferAssumption DEF Info
  <2>. QED
    BY <1>1, <2>1 DEF Right
<1>3. Len(d) \in Nat \ {0}
  <2>1. d \in Seq(Byte) /\ d # <<>>
    BY BufferAssumption
  <2>. QED
    BY <2>1, EmptySeq
<1>0. PICK t : t = fb.offset + fb.size
  OBVIOUS
<1>12. t \in Nat /\ BlockSize \in Nat \ {0} /\ (fb.size = 0 => t = 0)
  BY <1>0, <1>2, BufferAssumption
<1>4. PICK q, r : q = t \div BlockSize /\ r = t % BlockSize
  OBVIOUS
<1>5. t \in Nat /\ q \in Nat /\ r \in 0..(BlockSize - 1) /\ t = BlockSize * q + r
      /\ (fb.size = 0 => t = 0)
  BY <1>4, <1>12, DivMod
<1>6. Rest(fb) = IF fb.size > 0 /\ r > 0 THEN BlockSize - r ELSE 0
  BY <1>0, <1>4 DEF Rest
<1>7. PICK z, last, len, rest : z = fb.size /\ last = fb.last /\ len = Len(d) /\ rest = Rest(fb)
  OBVIOUS
<1>. DEFINE place == [i \in 1..len |->
              IF i <= keep THEN <<last, r + i - 1>>
              ELSE <<Chain!Walk(next, top, (i - keep - 1) \div BlockSize),
                     (i - keep - 1) % BlockSize>>]
<1>8. IsPlaced(bytes', place, d)
  BY <1>0, <1>4, <1>7, ChainSame DEF Chain!Put, IsPlaced
<1>9. ASSUME NEW i \in 1..Len(d)
      PROVE  place[i] = <<BlockAt(u, t + i - 1), CellAt(t + i - 1)>>
  <2>1. PICK p, j : p = t + i - 1 /\ j = i - keep - 1
    OBVIOUS
  <2>2. IsByte(t, z, q, r, rest, Len(s), len, keep, i, p, j)
    BY <1>0, <1>2, <1>3, <1>4, <1>5, <1>6, <1>7, <2>1, Zenon DEF IsByte
  <2>3. <<BlockAt(u, p), CellAt(p)>>
           = IF i <= keep THEN <<last, r + i - 1>>
             ELSE <<Chain!Walk(next, top, j \div BlockSize), j % BlockSize>>
    <3>1. z > 0 => last = s[Len(s)]
      BY <1>2, <1>7
    <3>2. need = BlocksFor(len - keep)
      BY <1>7
    <3>. QED
      BY <1>1, <2>2, <3>1, <3>2, PutPlace
  <2>. QED
    BY <1>7, <2>1, <2>3
<1>. HIDE DEF place
<1>10. u \in Seq(Block)
  <2>1. free \in Seq(Block) /\ taken \in Seq(Block)
    BY <1>1, CutSeq DEF Linked
  <2>. QED
    BY <1>1, <2>1, JoinSeq
<1>11. bytes' = Chain!Lists!Copied(u, t, d)
  BY <1>0, <1>3, <1>12, <1>8, <1>9, <1>10, PlacedCopied
<1>. QED
  BY <1>0, <1>1, <1>8, <1>11, PlacedType

\* A put of FileBuffer from its parts.
LEMMA PutHolds ==
  ASSUME NEW f, NEW d, NEW old, NEW need, NEW base, NEW start, NEW size, NEW taken, NEW left,
         NEW u, NEW new,
         old = TheFds[f], need = Need(old, Len(d)), ~ OverQuota(old, Len(d)), need <= TheCount,
         IsCut(TheStack, need, taken, left), IsJoin(u, old.chain, taken),
         base = IF old.size > 0 THEN old.offset ELSE 0, start = base + old.size,
         size = old.size + Len(d), IsChange(old, new, u, base, size),
         TheFds' = [TheFds EXCEPT ![f] = new], TheStack' = left, TheCount' = TheCount - need,
         reserved' = reserved, bytes' = Chain!Lists!Copied(u, start, d)
  PROVE  Chain!Lists!Put(f, d)
<1>1. Chain!Lists!AllocByBlocks(need)
  BY DEF Chain!Lists!AllocByBlocks, TheStack, TheCount, IsCut
<1>2. u = old.chain \o Chain!Lists!Taken(need)
  BY DEF Chain!Lists!Taken, TheStack, IsCut, IsJoin
<1>3. TheFds' = [TheFds EXCEPT ![f] = [old EXCEPT !.chain = u, !.offset = base, !.size = size]]
  BY Zenon DEF IsChange
<1>. QED
  <2>1. Chain!Lists!Need(old, Len(d)) = need /\ ~ Chain!Lists!OverQuota(old, Len(d))
    BY ChainSame
  <2>2. bytes' = Chain!Lists!Copied(u, (IF old.size > 0 THEN old.offset ELSE 0) + old.size, d)
    OBVIOUS
  <2>3. TheFds' = [TheFds EXCEPT ![f] = [old EXCEPT !.chain = u,
                     !.offset = IF old.size > 0 THEN old.offset ELSE 0,
                     !.size = old.size + Len(d)]]
    BY <1>3
  <2>4. /\ ~ Chain!Lists!OverQuota(TheFds[f], Len(d))
        /\ Chain!Lists!Need(TheFds[f], Len(d)) <= TheCount
        /\ Chain!Lists!AllocByBlocks(Chain!Lists!Need(TheFds[f], Len(d)))
    BY <1>1, <2>1
  <2>5. /\ TheFds[f].chain \o Chain!Lists!Taken(Chain!Lists!Need(TheFds[f], Len(d))) = u
        /\ TheFds' = [TheFds EXCEPT ![f] = [TheFds[f] EXCEPT !.chain = u,
                        !.offset = IF TheFds[f].size > 0 THEN TheFds[f].offset ELSE 0,
                        !.size = TheFds[f].size + Len(d)]]
    BY <1>2, <2>1, <2>3, Zenon
  <2>6. bytes' = Chain!Lists!Copied(u,
          (IF TheFds[f].size > 0 THEN TheFds[f].offset ELSE 0) + TheFds[f].size, d)
    BY <2>2, Zenon
  <2>. QED
    BY <2>4, <2>5, <2>6, Zenon DEF Chain!Lists!Put, TheFds, TheCount

\* put takes blocks from the top of the free list and writes the data behind the others.
LEMMA ChainPut ==
  ASSUME NEW free, NEW loose, NEW c, Held(free, loose, c), NEW f \in Fd, NEW d \in Data,
         Chain!Put(f, d)
  PROVE  /\ \E free2, c2 : Held(free2, loose, c2)'
         /\ Chain!Lists!Put(f, d)
<1>1. PICK fb, s, len, keep, need :
        /\ fb = info[f] /\ s = c[f] /\ len = Len(d)
        /\ keep = IF len <= Rest(fb) THEN len ELSE Rest(fb)
        /\ need = BlocksFor(len - keep)
  OBVIOUS
<1>2. PICK tail : tail = IF need = 0 THEN NULL ELSE Chain!Walk(next, top, need - 1)
  OBVIOUS
<1>3. PICK nb : IsPut(fb, nb, IF fb.size = 0 THEN top ELSE fb.first,
                      IF fb.size = 0 THEN 0 ELSE fb.offset,
                      Chain!LastAfter(fb, need), fb.size + len)
  BY DEF IsPut
<1>4. /\ pushing = NoFd /\ need <= spare
      /\ ~ (fb.quota # 0 /\ fb.size + len > fb.quota)
      /\ PutNext(next', need, tail, fb.size, fb.last)
      /\ top' = IF need = 0 THEN top ELSE next[tail]
      /\ spare' = spare - need
      /\ UNCHANGED <<reserved, pushing, unused>>
  BY <1>1, <1>2, ChainSame DEF Chain!Put, PutNext
<1>5. info' = [info EXCEPT ![f] = nb]
  BY <1>1, <1>3, ChainSame DEF Chain!Put, IsPut
<1>6. /\ next \in [Block -> Block \cup {NULL}] /\ info \in [Fd -> Info] /\ fb \in Info
      /\ Right(fb, s) /\ Linked(next, fb.first, s) /\ c \in [Fd -> Seq(Block)]
      /\ Linked(next, top, free) /\ Linked(next, unused, loose) /\ Apart(free, loose, c)
      /\ Within(free, loose, c, reserved) /\ spare = Len(free)
      /\ \A g \in Fd : Linked(next, info[g].first, c[g]) /\ Right(info[g], c[g])
  BY <1>1 DEF Held, Kept
<1>7. /\ s \in Seq(Block) /\ IsInjective(s) /\ Range(s) \cap Range(free) = {}
      /\ free \in Seq(Block) /\ IsInjective(free) /\ Len(free) \in Nat /\ Len(s) \in Nat
      /\ loose = <<>>
      /\ \A g \in Fd \ {f} : /\ Range(c[g]) \cap Range(s) = {} /\ c[g] \in Seq(Block)
                             /\ Range(c[g]) \cap Range(free) = {}
  BY <1>1, <1>4, <1>6, LenProperties DEF Apart, Held
<1>8. /\ fb.offset \in Nat /\ fb.size \in Nat /\ (fb.size = 0 => fb.offset = 0)
      /\ Len(s) = BlocksFor(fb.offset + fb.size)
      /\ fb.size > 0 => fb.last = s[Len(s)]
  <2>1. fb.offset \in Nat /\ fb.size \in Nat
    BY <1>6, BufferAssumption DEF Info
  <2>. QED
    BY <1>6, <2>1 DEF Right
<1>9. len \in Nat \ {0}
  <2>1. d \in Seq(Byte) /\ d # <<>>
    BY BufferAssumption
  <2>. QED
    BY <1>1, <2>1, EmptySeq
<1>10. /\ need = Need(ToBuffer(fb, s), len) /\ need \in Nat
       /\ BlocksFor(fb.offset + fb.size) + need = BlocksFor(fb.offset + fb.size + len)
       /\ need = 0 => fb.size > 0
  <2>1. /\ keep = IF len <= Rest(fb) THEN len ELSE Rest(fb)
        /\ need = BlocksFor(len - keep)
    BY <1>1
  <2>2. fb \in Info /\ (fb.size = 0 => fb.offset = 0) /\ s \in Seq(Block)
    BY <1>6, <1>7, <1>8
  <2>3. need = Need(ToBuffer(fb, s), len) /\ need \in Nat
    BY <1>9, <2>1, <2>2, PutNeeds
  <2>4. BlocksFor(fb.offset + fb.size) + need = BlocksFor(fb.offset + fb.size + len)
    BY <1>9, <2>1, <2>2, PutNeeds, Zenon
  <2>5. need = 0 => fb.size > 0
    BY <1>9, <2>1, <2>2, PutNeeds
  <2>. QED
    BY <2>3, <2>4, <2>5, Zenon
<1>11. Len(s) > 0 <=> fb.size > 0
  <2>1. ASSUME fb.size > 0 PROVE Len(s) > 0
    <3>1. fb.offset + fb.size \in Nat /\ BlockSize * 0 = 0
      BY <1>8, BufferAssumption
    <3>2. fb.offset + fb.size <= BlockSize * BlocksFor(fb.offset + fb.size)
      BY <3>1, BlocksHold
    <3>3. BlocksFor(fb.offset + fb.size) # 0
      BY <1>8, <2>1, <3>1, <3>2
    <3>. QED
      BY <1>7, <1>8, <3>3
  <2>2. ASSUME fb.size = 0 PROVE Len(s) = 0
    BY <1>8, <2>2, BlocksForNone
  <2>. QED
    BY <1>8, <2>1, <2>2
<1>12. need \in 0..Len(free)
  BY <1>4, <1>6, <1>7, <1>10
<1>13. PICK taken, left : IsCut(free, need, taken, left)
  BY DEF IsCut
<1>14. PICK u : IsJoin(u, s, taken)
  BY DEF IsJoin
<1>15. /\ taken \in Seq(Block) /\ left \in Seq(Block) /\ IsInjective(taken) /\ IsInjective(left)
       /\ Len(taken) = need /\ Len(left) = Len(free) - need
       /\ Range(taken) \cup Range(left) = Range(free)
       /\ Range(taken) \cap Range(left) = {}
  <2>1. taken \in Seq(Block) /\ left \in Seq(Block) /\ Len(taken) = need
        /\ Len(left) = Len(free) - need
    BY <1>7, <1>12, <1>13, CutSeq
  <2>2. Range(taken) \cup Range(left) = Range(free)
    BY <1>7, <1>12, <1>13, CutSeq
  <2>3. IsInjective(taken) /\ IsInjective(left) /\ Range(taken) \cap Range(left) = {}
    BY <1>7, <1>12, <1>13, CutSeq
  <2>. QED
    BY <2>1, <2>2, <2>3
<1>16. /\ u \in Seq(Block) /\ Len(u) = Len(s) + need
       /\ Range(u) = Range(s) \cup Range(taken) /\ IsInjective(u)
  <2>1. u \in Seq(Block) /\ Len(u) = Len(s) + need
    BY <1>7, <1>14, <1>15, JoinSeq
  <2>2. Range(u) = Range(s) \cup Range(taken)
    BY <1>7, <1>14, <1>15, JoinSeq
  <2>3. Range(s) \cap Range(taken) = {}
    BY <1>7, <1>15
  <2>4. IsInjective(u)
    BY <1>7, <1>14, <1>15, <2>3, JoinSeq
  <2>. QED
    BY <2>1, <2>2, <2>4
<1>17. /\ Linked(next', IF fb.size = 0 THEN top ELSE fb.first, u)
       /\ Linked(next', top', left)
       /\ next' \in [Block -> Block \cup {NULL}]
       /\ \A x \in Block : x \notin Range(s) /\ x \notin Range(free) => next'[x] = next[x]
       /\ Chain!LastAfter(fb, need) = u[Len(u)] /\ u[Len(u)] \in Block
  <2>1. need > 0 => tail = Chain!Walk(next, top, need - 1)
    BY <1>2
  <2>2. Len(s) > 0 => fb.last = s[Len(s)]
    BY <1>8, <1>11
  <2>3. PutMoves(fb.first, s, free, need, fb.size, fb.last, tail, next', taken, left, u)
    BY <1>4, <1>6, <1>7, <1>8, <1>10, <1>11, <1>12, <1>13, <1>14, <2>1, <2>2 DEF PutMoves
  <2>5. /\ Linked(next', IF fb.size = 0 THEN top ELSE fb.first, u)
        /\ Linked(next', IF need = 0 THEN top ELSE next[tail], left)
        /\ next' \in [Block -> Block \cup {NULL}]
        /\ \A x \in Block : x \notin Range(s) /\ x \notin Range(free) => next'[x] = next[x]
        /\ (IF need = 0 THEN fb.last ELSE tail) = u[Len(u)] /\ u[Len(u)] \in Block
    BY <2>3, PutLists, Zenon
  <2>4. Chain!LastAfter(fb, need) = IF need = 0 THEN fb.last ELSE tail
    BY <1>2 DEF Chain!LastAfter
  <2>. QED
    BY <1>4, <2>4, <2>5, Zenon
<1>18. /\ nb \in Info /\ nb.first = IF fb.size = 0 THEN top ELSE fb.first
       /\ nb.offset = fb.offset /\ nb.last = u[Len(u)] /\ nb.size = fb.size + len
       /\ nb.quota = fb.quota
  <2>1. PICK first, o, last, z : /\ first = IF fb.size = 0 THEN top ELSE fb.first
                                 /\ o = IF fb.size = 0 THEN 0 ELSE fb.offset
                                 /\ last = Chain!LastAfter(fb, need) /\ z = fb.size + len
    OBVIOUS
  <2>2. IsPut(fb, nb, first, o, last, z)
    BY <1>3, <2>1
  <2>3. first \in Block \cup {NULL} /\ last \in Block \cup {NULL} /\ z \in Nat
    BY <1>6, <1>8, <1>9, <1>17, <2>1, LinkedNone
  <2>4. o = fb.offset /\ o \in 0..(BlockSize - 1)
    BY <1>6, <1>8, <2>1 DEF Info
  <2>5. /\ nb \in Info /\ nb.first = first /\ nb.offset = o /\ nb.last = last
        /\ nb.size = z /\ nb.quota = fb.quota
    <3>1. fb \in Info
      BY <1>6
    <3>. QED
      BY <2>2, <2>3, <2>4, <3>1 DEF IsPut, Info
  <2>. QED
    BY <1>17, <2>1, <2>4, <2>5, Zenon
<1>19. Len(u) = BlocksFor(fb.offset + fb.size + len)
  BY <1>8, <1>10, <1>16
<1>20. Right(nb, u)
  <2>1. nb.offset + nb.size = fb.offset + fb.size + len /\ nb.size # 0
    BY <1>8, <1>9, <1>18
  <2>. QED
    BY <1>18, <1>19, <2>1 DEF Right
<1>21. bytes' = Chain!Lists!Copied(u, fb.offset + fb.size, d) /\ bytes' \in Memory
  BY <1>1, <1>12, <1>13, <1>14, <1>16, <1>19, PutCopies
<1>. DEFINE c2 == [c EXCEPT ![f] = u]
<1>22. c2 \in [Fd -> Seq(Block)] /\ c2[f] = u /\ \A g \in Fd \ {f} : c2[g] = c[g]
  BY <1>6, <1>16
<1>. HIDE DEF c2
<1>23. /\ info' \in [Fd -> Info] /\ info'[f] = nb /\ \A g \in Fd \ {f} : info'[g] = info[g]
  BY <1>5, <1>6, <1>18
<1>24. \A g \in Fd \ {f} : Linked(next', info'[g].first, c2[g])
  <2>. TAKE g \in Fd \ {f}
  <2>1. Linked(next, info[g].first, c[g])
    BY <1>6
  <2>2. Range(c[g]) \subseteq Block
    BY <1>7, SeqRange
  <2>3. \A x \in Range(c[g]) : next'[x] = next[x]
    BY <1>7, <1>17, <2>2
  <2>4. Linked(next', info[g].first, c[g])
    BY <2>1, <2>3, LinkedFrame
  <2>. QED
    BY <1>22, <1>23, <2>4
<1>25. Linked(next', unused', loose)
  <2>1. unused' = NULL
    BY <1>4, <1>6, <1>7, LinkedNone
  <2>. QED
    BY <1>7, <2>1, LinkedEmpty
<1>26. Range(loose) = {} /\ loose \in Seq(Block) /\ IsInjective(loose) /\ Len(loose) = 0
  <2>1. loose \in Seq(Block) /\ Len(loose) = 0 /\ IsInjective(loose)
    BY <1>6, <1>7, EmptySeq DEF Apart
  <2>2. 1..Len(loose) = {}
    BY <2>1
  <2>. QED
    BY <2>1, <2>2, SeqRange
<1>27. Apart(left, loose, c2)
  <2>1. Moves(free, loose, c[f], left, loose, u)
    BY <1>1, <1>7, <1>15, <1>16, <1>26 DEF Moves
  <2>2. Apart(free, loose, c)
    BY <1>6
  <2>. QED
    BY <1>22, <2>1, <2>2, ApartExchange
<1>28. Kept(next', top', unused', info', left, loose, c2)
  <2>1. \A g \in Fd : Linked(next', info'[g].first, c2[g])
    BY <1>17, <1>18, <1>22, <1>23, <1>24
  <2>. QED
    BY <1>17, <1>25, <1>27, <2>1 DEF Kept
<1>29. Within(left, loose, c2, reserved')
  <2>1. \A g \in Fd \ {f} : Range(c2[g]) = Range(c[g])
    BY <1>22
  <2>2. Range(c2[f]) \subseteq Range(c[f]) \cup Range(free)
    BY <1>1, <1>15, <1>16, <1>22
  <2>3. Range(left) \subseteq Range(free)
    BY <1>15
  <2>. QED
    BY <1>4, <1>6, <2>1, <2>2, <2>3 DEF Within
<1>30. \A g \in Fd : Right(info'[g], c2[g])
  BY <1>6, <1>20, <1>22, <1>23
<1>31. spare' = Len(left)
  BY <1>4, <1>6, <1>15
<1>32. Held(left, loose, c2)'
  <2>1. reserved' \in 0..MaxBlocks /\ pushing' \in Fd \cup {NoFd}
    BY <1>4 DEF Held
  <2>. QED
    BY <1>7, <1>17, <1>21, <1>22, <1>23, <1>28, <1>29, <1>30, <1>31, <2>1 DEF Held
<1>33. /\ TheStack = loose \o free /\ TheCount = Len(free) + Len(loose) /\ TheFds = View(info, c)
       /\ TheStack' = loose \o left /\ TheCount' = Len(left) + Len(loose)
       /\ TheFds' = View(info', c2)
  BY <1>32, SeenNow, SeenNext
<1>34. TheStack = free /\ TheStack' = left /\ TheCount = Len(free) /\ TheCount' = TheCount - need
  <2>1. loose \o free = free /\ loose \o left = left
    BY <1>7, <1>15, ConcatEmptySeq
  <2>2. TheCount = Len(free) /\ TheCount' = Len(free) - need
    BY <1>7, <1>10, <1>15, <1>26, <1>33
  <2>. QED
    BY <1>33, <2>1, <2>2, Zenon
<1>. DEFINE old == ToBuffer(fb, s)
            new == ToBuffer(nb, u)
<1>35. /\ old = TheFds[f] /\ old.chain = s /\ old.size = fb.size /\ old.offset = fb.offset
       /\ old.quota = fb.quota
  BY <1>1, <1>33 DEF View, ToBuffer
<1>36. TheFds' = [TheFds EXCEPT ![f] = new]
  <2>1. \A g \in Fd : View(info', c2)[g] = IF g = f THEN new ELSE View(info, c)[g]
    BY <1>22, <1>23 DEF View
  <2>. HIDE DEF new
  <2>2. View(info', c2) = [View(info, c) EXCEPT ![f] = new]
    BY <2>1 DEF View
  <2>. QED
    BY <1>33, <2>2
<1>37. IsChange(old, new, u, nb.offset, nb.size)
  BY <1>18, ToBufferChange
<1>. HIDE DEF old, new
<1>38. PICK base, start, size : /\ base = IF old.size > 0 THEN old.offset ELSE 0
                                /\ start = base + old.size /\ size = old.size + Len(d)
  OBVIOUS
<1>39. base = fb.offset /\ start = fb.offset + fb.size /\ size = fb.size + len
  <2>1. base = fb.offset
    <3>1. base = IF fb.size > 0 THEN fb.offset ELSE 0
      BY <1>35, <1>38, Zenon
    <3>2. fb.size > 0 \/ fb.size = 0
      BY <1>8
    <3>. QED
      BY <1>8, <3>1, <3>2
  <2>2. start = base + fb.size /\ size = fb.size + len
    BY <1>1, <1>35, <1>38, Zenon
  <2>. QED
    BY <2>1, <2>2, Zenon
<1>40. Chain!Lists!Put(f, d)
  <2>1. IsChange(old, new, u, base, size)
    BY <1>18, <1>37, <1>39
  <2>2. need = Need(old, Len(d)) /\ need <= TheCount /\ ~ OverQuota(old, Len(d))
    BY <1>1, <1>4, <1>6, <1>10, <1>34, <1>35 DEF OverQuota, old
  <2>3. IsCut(TheStack, need, taken, left) /\ IsJoin(u, old.chain, taken)
    BY <1>13, <1>14, <1>34, <1>35
  <2>4. reserved' = reserved /\ bytes' = Chain!Lists!Copied(u, start, d)
    BY <1>4, <1>21, <1>39
  <2>. QED
    BY <1>34, <1>35, <1>36, <1>38, <2>1, <2>2, <2>3, <2>4, PutHolds
<1>. QED
  BY <1>32, <1>40

\* Lists of the blocks that the pointers make.
ChainInv == \E free, loose, c : Held(free, loose, c)

\* Every step of the pointer code keeps them, and is a step of FileBuffer or none.
LEMMA ChainStep ==
  ASSUME NoFd \notin Fd, ChainInv, [Chain!Next]_Chain!vars
  PROVE  ChainInv' /\ [Chain!Lists!Next]_Chain!Lists!vars
<1>. DEFINE Same == UNCHANGED <<TheStack, TheCount, reserved, TheFds, bytes>>
<1>0. PICK free, loose, c : Held(free, loose, c)
  BY DEF ChainInv
<1>1. \A free2, loose2, c2 : Held(free2, loose2, c2)' => ChainInv'
  BY DEF ChainInv
<1>2. ASSUME NEW m \in PoolSizes, Chain!BpPool(m)
      PROVE  ChainInv' /\ Chain!Lists!BpPool(m)
  BY <1>0, <1>1, <1>2, ChainBpPool
<1>3. ASSUME NEW f \in Fd, NEW d \in Data, Chain!Put(f, d)
      PROVE  ChainInv' /\ Chain!Lists!Put(f, d)
  BY <1>0, <1>1, <1>3, ChainPut
<1>4. ASSUME NEW f \in Fd, Chain!PushBegin(f)
      PROVE  ChainInv' /\ Same
  BY <1>0, <1>1, <1>4, ChainPushBegin
<1>5. ASSUME NEW f \in Fd, Chain!PushBlock(f)
      PROVE  ChainInv' /\ \E n \in 1..TheFds[f].size : Chain!Lists!Push(f, n)
  BY <1>0, <1>1, <1>5, ChainPushBlock
<1>6. ASSUME NEW f \in Fd, NEW n \in 1..(BlockSize - 1), Chain!PushPart(f, n)
      PROVE  ChainInv' /\ \E m \in 1..TheFds[f].size : Chain!Lists!Push(f, m)
  BY <1>0, <1>1, <1>6, ChainPushPart
<1>7. ASSUME NEW f \in Fd, Chain!PushNothing(f)
      PROVE  ChainInv' /\ Same
  BY <1>0, <1>1, <1>7, ChainPushNothing
<1>8. ASSUME NEW f \in Fd, Chain!Cleanup(f)
      PROVE  ChainInv' /\ Chain!Lists!Cleanup(f)
  BY <1>0, <1>1, <1>8, ChainCleanup
<1>9. ASSUME NEW f \in Fd, NEW q \in Quotas, Chain!SetQuota(f, q)
      PROVE  ChainInv' /\ Chain!Lists!SetQuota(f, q)
  BY <1>0, <1>1, <1>9, ChainSetQuota
<1>10. ASSUME UNCHANGED Chain!vars
       PROVE  ChainInv' /\ Same
  <2>1. UNCHANGED <<next, top, spare, reserved, info, bytes, pushing, unused>>
    BY <1>10 DEF Chain!vars
  <2>2. Held(free, loose, c)'
    BY <1>0, <2>1 DEF Held
  <2>. QED
    BY <1>0, <1>1, <2>1, <2>2 DEF TheStack, TheCount, TheFds
<1>11. ASSUME Same PROVE UNCHANGED Chain!Lists!vars
  BY <1>11 DEF Chain!Lists!vars, TheStack, TheCount, TheFds
<1>12. ASSUME NEW f \in Fd, \E n \in 1..TheFds[f].size : Chain!Lists!Push(f, n)
       PROVE  Chain!Lists!Next
  BY <1>12 DEF Chain!Lists!Next, TheFds
<1>. HIDE DEF Same
<1>. QED
  BY <1>2, <1>3, <1>4, <1>5, <1>6, <1>7, <1>8, <1>9, <1>10, <1>11, <1>12
     DEF Chain!Next, Chain!PushStep, Chain!Lists!Next

\* The pointers of the pool and of the chains are sound after every step: each list ends
\* and last is the end of its chain, so free and allocByBlocks end their walks, and put
\* writes to a block of its own descriptor.
THEOREM ListsCorrect ==
  ASSUME NoFd \notin Fd
  PROVE  Chain!Spec => []Chain!ListsSound
<1>1. Chain!Init => ChainInv
  BY ChainInit DEF ChainInv
<1>2. ChainInv /\ [Chain!Next]_Chain!vars => ChainInv'
  BY ChainStep
<1>3. ChainInv => Chain!ListsSound
  BY HeldSound DEF ChainInv
<1>. QED
  BY <1>1, <1>2, <1>3, PTL DEF Chain!Spec

\* The pointer code of put, push, cleanup and bpPool implements the lists of FileBuffer:
\* each step, and each round of the loop of push, is a call of FileBuffer or changes
\* nothing there.
THEOREM ChainImplementsLists ==
  ASSUME NoFd \notin Fd
  PROVE  Chain!Spec => Chain!ListsSpec
<1>1. Chain!Init => ChainInv /\ Chain!Lists!Init
  BY ChainInit DEF ChainInv
<1>2. ChainInv /\ [Chain!Next]_Chain!vars => ChainInv' /\ [Chain!Lists!Next]_Chain!Lists!vars
  BY ChainStep
<1>. QED
  BY <1>1, <1>2, PTL DEF Chain!Spec, Chain!ListsSpec, Chain!Lists!Spec
=============================================================================
