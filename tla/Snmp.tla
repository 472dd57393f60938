-------------------------------- MODULE Snmp --------------------------------
(***************************************************************************)
(* SNMP packets: how SNMPBuilder writes a request (snmpbuilder.cpp), and   *)
(* what SNMPParser and ASN1Reader make of a packet (snmpparser.cpp,        *)
(* asn1reader.cpp).  A packet is the sequence of its bytes.  The agent that *)
(* answers a request is external; it encodes values as BER asks.           *)
(***************************************************************************)
EXTENDS Integers, Sequences, SequencesExt, TLC

CONSTANTS
  Community,   \* community strings, shorter than 128 bytes
  RequestID,   \* the identifiers of requests, as signed 32-bit numbers
  Oid,         \* object identifiers: sequences of at least two numbers
  Value,       \* the values of answers: the type, the bytes of the content, and what
               \* they mean: [type, content, means]
  Above,       \* the byte of the stack above the array of readInt
  MaxOid       \* bound: object identifiers in a request

Octet == 0..255

INTEGER == 2
OCTET_STRING == 4
ASN_NULL == 5
OBJECT_ID == 6
SEQUENCE == 48
COUNTER == 65
GAUGE == 66
TIMETICKS == 67
COUNTER64 == 70
GET == 160
RESPONSE == 162
TRAP == 167

VARIABLES
  packet,       \* the bytes from buffer to offset
  cmd_offset, requestID_offset, oid_offset,   \* places in the packet
  asked         \* what the calls since reset asked for (history)

vars == <<packet, cmd_offset, requestID_offset, oid_offset, asked>>

(***************************************************************************)
(* SNMPBuilder.                                                            *)
(***************************************************************************)
Stale == 255        \* a byte that reset does not set
NothingYet == [type |-> ASN_NULL, content |-> <<>>, means |-> <<>>]

Overwrite(s, at, bytes) ==
  [i \in DOMAIN s |-> IF i \in at..at + Len(bytes) - 1 THEN bytes[i - at + 1] ELSE s[i]]

\* saveLen: two bytes behind the one that says so, for what follows them.
SaveLen(s, at) == Overwrite(s, at + 2, <<(Len(s) - at - 3) \div 256, (Len(s) - at - 3) % 256>>)

Reset(community) ==
  LET top == <<SEQUENCE, 130, Stale, Stale, INTEGER, 1, 1, OCTET_STRING, Len(community)>> \o community
      cmd == <<Stale, 130, Stale, Stale, INTEGER, 4, Stale, Stale, Stale, Stale,
               INTEGER, 1, 0, INTEGER, 1, 0>>
  IN  /\ packet' = top \o cmd \o <<SEQUENCE, 130, Stale, Stale>>
      /\ cmd_offset' = Len(top) + 1
      /\ requestID_offset' = Len(top) + 7
      /\ oid_offset' = Len(top) + Len(cmd) + 1
      /\ asked' = [community |-> community, cmd |-> Stale, id |-> Stale, oids |-> <<>>,
                   value |-> NothingYet, committed |-> FALSE]

UNCHANGEDoffsets == UNCHANGED <<cmd_offset, requestID_offset, oid_offset>>

SetCommand(type) ==
  /\ packet' = [packet EXCEPT ![cmd_offset] = type]
  /\ asked' = [asked EXCEPT !.cmd = type]
  /\ UNCHANGEDoffsets

SetRequestID(id) ==
  /\ packet' = Overwrite(packet, requestID_offset,
                         [i \in 1..4 |-> (id \div 256^(4 - i)) % 256])
  /\ asked' = [asked EXCEPT !.id = id]
  /\ UNCHANGEDoffsets

\* Mutant: the high digits of a number have no mark.
OIDItemUnmarked(n) ==
  LET digits[m \in Nat] == IF m < 128 THEN <<m>> ELSE digits[m \div 128] \o <<m % 128>>
  IN  digits[n]

\* saveOIDItem: digits to the base 128, all but the last one marked.
OIDItem(n) ==
  LET digits[m \in Nat] == IF m < 128 THEN <<m>> ELSE digits[m \div 128] \o <<m % 128>>
  IN  [i \in DOMAIN digits[n] |-> digits[n][i] + IF i < Len(digits[n]) THEN 128 ELSE 0]

\* saveOID, with the length in one byte.
SaveOID(oid) ==
  LET content == OIDItem(oid[1] * 40 + oid[2]) \o FlattenSeq([i \in 1..Len(oid) - 2 |-> OIDItem(oid[i + 2])])
  IN  <<OBJECT_ID, Len(content)>> \o content

\* addNull, with the length in one byte and no look at the capacity.
AddNull(oid) ==
  LET binding == SaveOID(oid) \o <<ASN_NULL, 0>>
  IN  /\ Len(asked.oids) < MaxOid
      /\ packet' = packet \o <<SEQUENCE, Len(binding)>> \o binding
      /\ asked' = [asked EXCEPT !.oids = Append(@, oid), !.committed = FALSE]
      /\ UNCHANGEDoffsets

Commit ==
  /\ packet' = SaveLen(SaveLen(SaveLen(packet, 1), cmd_offset), oid_offset)
  /\ asked' = [asked EXCEPT !.committed = TRUE]
  /\ UNCHANGEDoffsets

(***************************************************************************)
(* The agent that answers (external).                                      *)
(***************************************************************************)
\* Type, length and content in the short or the long form.
TLV(type, content) ==
  IF Len(content) < 128
  THEN <<type, Len(content)>> \o content
  ELSE <<type, 130, Len(content) \div 256, Len(content) % 256>> \o content

Answer(cmd, value) ==
  LET binding(oid) == TLV(SEQUENCE, SaveOID(oid) \o TLV(value.type, value.content))
      id == SubSeq(packet, requestID_offset, requestID_offset + 3)
      body == TLV(INTEGER, id) \o TLV(INTEGER, <<0>>) \o TLV(INTEGER, <<0>>)
              \o TLV(SEQUENCE, FlattenSeq([i \in DOMAIN asked.oids |-> binding(asked.oids[i])]))
  IN  /\ asked.committed /\ asked.cmd = GET /\ asked.id # Stale
      /\ packet' = TLV(SEQUENCE, TLV(INTEGER, <<1>>) \o TLV(OCTET_STRING, asked.community)
                                 \o TLV(cmd, body))
      /\ asked' = [asked EXCEPT !.cmd = cmd, !.value = value]
      /\ UNCHANGEDoffsets

(***************************************************************************)
(* ASN1Reader: at is the place of the next byte, end of the last one.      *)
(***************************************************************************)
Header == [ok : BOOLEAN, type : Octet, at : Nat, end : Nat, bytes : Seq(Octet)]

\* A failed read leaves no place where another one would succeed.
Beyond == 1000000
NoHeader == [ok |-> FALSE, type |-> 0, at |-> Beyond, end |-> Beyond, bytes |-> <<>>]

Unsigned(bytes) == FoldLeft(LAMBDA n, b : n * 256 + b, 0, bytes)

\* readHeader, with the look at h.type that follows it.
ReadHeader(types, at, end, s) ==
  LET read[p \in Nat, limit \in Nat] ==
        IF p + 1 > limit THEN NoHeader
        ELSE LET more   == IF s[p + 1] >= 128 THEN s[p + 1] - 128 ELSE 0
                 data   == p + 2 + more
                 length == IF s[p + 1] < 128 THEN s[p + 1]
                           ELSE Unsigned(SubSeq(s, p + 2, data - 1))
             IN  IF \/ more > 4 \/ data > limit + 1 \/ data + length - 1 > limit
                    \/ s[p] \notin types
                 THEN NoHeader
                 ELSE [ok |-> TRUE, type |-> s[p], at |-> data, end |-> data + length - 1,
                       bytes |-> SubSeq(s, data, data + length - 1)]
  IN  read[at, end]

\* Tags one behind the other: each reader leaves data behind what it read.
ReadTags(types, at, end, s) ==
  LET tag[k \in DOMAIN types] ==
        ReadHeader(types[k], IF k = 1 THEN at ELSE tag[k - 1].end + 1, end, s)
  IN  tag

\* readInt reads a char, a short or an int behind the bytes it laid out: one of
\* three bytes is read as an int, with a fourth byte from above the array.
Int32(bytes) ==
  LET read == IF Len(bytes) = 3 THEN <<Above>> \o bytes ELSE bytes
  IN  IF Len(bytes) \notin 1..4 THEN 0
      ELSE FoldLeft(LAMBDA n, b : n * 256 + b,
                    IF read[1] >= 128 THEN read[1] - 256 ELSE read[1], Tail(read))

\* readTimeticks keeps a short.
Short(bytes) ==
  LET n == Unsigned(SubSeq(bytes, IF Len(bytes) > 2 THEN Len(bytes) - 1 ELSE 1, Len(bytes)))
  IN  IF n >= 32768 THEN n - 65536 ELSE n

\* The unsigned readers keep the low bytes of their type; here without leading zeros.
LowBytes(bytes, width) ==
  LET low == SubSeq(bytes, 1 + (IF Len(bytes) > width THEN Len(bytes) - width ELSE 0), Len(bytes))
      first == SelectInSeq(low, LAMBDA b : b # 0)
  IN  IF first = 0 THEN <<>> ELSE SubSeq(low, first, Len(low))

\* readOID: base 128 numbers, the first one for two.
ReadOID(bytes) ==
  LET ends == SelectSeq([i \in DOMAIN bytes |-> i], LAMBDA i : bytes[i] < 128)
      item(k) == FoldLeft(LAMBDA n, b : n * 128 + (b % 128), 0,
                          SubSeq(bytes, IF k = 1 THEN 1 ELSE ends[k - 1] + 1, ends[k]))
  IN  <<item(1) \div 40, item(1) % 40>> \o [k \in 1..Len(ends) - 1 |-> item(k + 1)]

(***************************************************************************)
(* SNMPParser.                                                             *)
(***************************************************************************)
Failure == [ok |-> FALSE, calls |-> <<>>]

\* What the handler of a value is called with.
Decoded[h \in Header] ==
  CASE h.type = INTEGER -> Int32(h.bytes)
    [] h.type = TIMETICKS -> Short(h.bytes)
    [] h.type \in {COUNTER, GAUGE} -> LowBytes(h.bytes, 4)
    [] h.type = COUNTER64 -> LowBytes(h.bytes, 8)
    [] h.type = OBJECT_ID -> ReadOID(h.bytes)
    [] OTHER -> h.bytes

\* The values the parser of each command takes.
Types(cmd) ==
  CASE cmd = GET -> {ASN_NULL}
    [] cmd = RESPONSE -> {INTEGER, COUNTER, GAUGE, COUNTER64, OCTET_STRING}
    [] cmd = TRAP -> {INTEGER, COUNTER, GAUGE, COUNTER64, OCTET_STRING, TIMETICKS, OBJECT_ID}

\* The headers of a list and of a binding: the parser of GET takes any type.
ListTypes(cmd) == IF cmd = GET THEN Octet ELSE {SEQUENCE}

\* parseGetValue, parseResponseValue, parseTrapValue, behind the header h.
ReadBinding(cmd, h, s) ==
  LET call[tags \in Seq(Header)] ==
        LET v == tags[2]
        IN  IF ~v.ok \/ (v.type = OCTET_STRING /\ Len(v.bytes) > 255) THEN Failure
            ELSE [ok |-> TRUE,
                  calls |-> <<[oid |-> ReadOID(tags[1].bytes), type |-> v.type, value |-> Decoded[v]]>>]
  IN  call[ReadTags(<<{OBJECT_ID}, Types(cmd)>>, h.at, h.end, s)]

\* The loop over the bindings of a list: the calls of handlers up to the first failure,
\* and whether there was none.
ReadBindings(cmd, list, s) ==
  LET headers[at \in Nat] ==
        IF at > list.end THEN <<>>
        ELSE LET h == ReadHeader(ListTypes(cmd), at, list.end, s)
             IN  <<h>> \o (IF h.ok THEN headers[h.end + 1] ELSE <<>>)
      calls[hs \in Seq(Header)] ==
        FoldLeft(LAMBDA r, b : IF r.ok THEN [ok |-> b.ok, calls |-> r.calls \o b.calls] ELSE r,
                 [ok |-> TRUE, calls |-> <<>>],
                 [k \in DOMAIN hs |-> ReadBinding(cmd, hs[k], s)])
  IN  calls[headers[list.at]]

\* parseGetRequest, parseResponse, parseTrap: three numbers and the bindings.
ReadRequest(cmd, at, s) ==
  LET request[tags \in Seq(Header)] ==
        IF ~tags[4].ok THEN Failure
        ELSE [id |-> Int32(tags[1].bytes)] @@ ReadBindings(cmd, tags[4], s)
  IN  request[ReadTags(<<{INTEGER}, {INTEGER}, {INTEGER}, ListTypes(cmd)>>, at, Len(s), s)]

\* parse.
Parse(s) ==
  LET parse[tags \in Seq(Header)] ==
        IF ~tags[3].ok \/ Int32(tags[1].bytes) # 1 \/ Len(tags[2].bytes) > 255 THEN Failure
        ELSE [community |-> tags[2].bytes, cmd |-> tags[3].type]
             @@ ReadRequest(tags[3].type, tags[3].at, s)
  IN  parse[ReadTags(<<{INTEGER}, {OCTET_STRING}, {GET, RESPONSE, TRAP}>>,
                     ReadHeader(Octet, 1, Len(s), s).at, Len(s), s)]

Init ==
  /\ packet = <<>> /\ cmd_offset = 0 /\ requestID_offset = 0 /\ oid_offset = 0
  /\ asked = [community |-> <<>>, cmd |-> Stale, id |-> Stale, oids |-> <<>>,
              value |-> NothingYet, committed |-> FALSE]

\* A packet is begun by reset; everything else writes behind what reset wrote.
Next ==
  \/ \E c \in Community : Reset(c)
  \/ /\ packet # <<>> /\ asked.cmd \in {Stale, GET}
     /\ \/ SetCommand(GET)
        \/ \E id \in RequestID : SetRequestID(id)
        \/ \E oid \in Oid : AddNull(oid)
        \/ Commit
        \/ \E cmd \in {RESPONSE, TRAP}, value \in Value : Answer(cmd, value)

Spec == Init /\ [][Next]_vars

(***************************************************************************)
(* Properties.                                                             *)
(***************************************************************************)
\* The parser understands what the builder and the agent write, in whatever order the
\* calls were made and however often the builder was used before: it finds the
\* community and the identifier and calls the handler once for every object, in
\* order, with what the value means.  An answer with a value it has no handler for is
\* refused, and so is every packet that is cut off, without a call.
Understood ==
  asked.committed /\ asked.cmd # Stale /\ asked.id # Stale =>
    LET meant == [ok |-> TRUE, community |-> asked.community, cmd |-> asked.cmd, id |-> asked.id,
                  calls |-> [i \in DOMAIN asked.oids |->
                               [oid |-> asked.oids[i], type |-> asked.value.type,
                                value |-> asked.value.means]]]
        handled == asked.oids = <<>> \/ asked.value.type \in Types(asked.cmd)
    IN  \A n \in 0..Len(packet) :
          LET p == Parse(SubSeq(packet, 1, n))
          IN  IF n = Len(packet) /\ handled THEN p = meant ELSE ~p.ok /\ p.calls = <<>>
=============================================================================
