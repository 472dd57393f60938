------------------------------ MODULE HttpForm ------------------------------
(***************************************************************************)
(* What HttpRequest (httprequest.cpp) reads out of a request: the fields of *)
(* a query string, of a multipart form, of a cookie and of the basic       *)
(* authentication, with explode, urldecode and base64_decode of            *)
(* easylib.cpp.  A text is a sequence of character codes; a word whose     *)
(* letters do not matter is one code below zero.  The browser, which writes *)
(* a form by its standard, is external.                                    *)
(***************************************************************************)
EXTENDS Integers, Sequences, SequencesExt

CONSTANTS
  FieldName, FieldValue,   \* texts
  MaxField                 \* bound: fields in a form

VARIABLE form              \* what the user filled in: <<name, value>> pairs

LF == 10
CR == 13
SPACE == 32
QUOTE == 34
PERCENT == 37
AMPERSAND == 38
PLUS == 43
DASH == 45
COLON == 58
SEMICOLON == 59
EQUALS == 61
CONTENT_DISPOSITION == -1
FORM_DATA == -2
NAME == -3
FILENAME == -4
BOUNDARY == -5

NoField == [name \in {} |-> <<>>]
With(f, n, v) == [name \in DOMAIN f \cup {n} |-> IF name = n THEN v ELSE f[name]]

(***************************************************************************)
(* easylib.cpp.                                                            *)
(***************************************************************************)
\* Where d begins in s from place k on, 0 if it does not.
FindAfter(d, s, k) ==
  LET at == {i \in k..Len(s) - Len(d) + 1 : SubSeq(s, i, i + Len(d) - 1) = d}
  IN  IF at = {} THEN 0 ELSE CHOOSE i \in at : \A j \in at : i <= j

\* explode: one part more than there are delimiters.
Explode(d, s) ==
  LET from[k \in Nat] ==
        LET at == FindAfter(d, s, k)
        IN  IF at = 0 THEN <<SubSeq(s, k, Len(s))>>
            ELSE <<SubSeq(s, k, at - 1)>> \o from[at + Len(d)]
  IN  IF d = <<>> THEN <<>> ELSE from[1]

IsDigit(c) == c \in 48..57
IsHex(c) == IsDigit(c) \/ c \in 65..70 \/ c \in 97..102
HexValue(c) == IF IsDigit(c) THEN c - 48 ELSE IF c < 97 THEN c - 55 ELSE c - 87

\* Mutant: a mark with one digit after it is decoded too.
UrlDecodePlus(s) ==
  LET from[i \in Nat] ==
        IF i > Len(s) THEN <<>>
        ELSE IF s[i] = PERCENT /\ i + 2 <= Len(s) /\ IsHex(s[i + 1]) /\ IsHex(s[i + 2])
             THEN <<16 * HexValue(s[i + 1]) + HexValue(s[i + 2])>> \o from[i + 3]
             ELSE <<s[i]>> \o from[i + 1]
  IN  from[1]

\* urldecode: a mark that two characters follow, hexadecimal or not, takes both.
\* The result is a C string: it ends before the first zero.
UrlDecode(s) ==
  LET from[i \in Nat] ==
        IF i > Len(s) THEN <<>>
        ELSE IF s[i] = PERCENT /\ i + 2 <= Len(s)
             THEN (IF IsHex(s[i + 1]) /\ IsHex(s[i + 2])
                   THEN <<16 * HexValue(s[i + 1]) + HexValue(s[i + 2])>>
                   ELSE SubSeq(s, i, i + 2)) \o from[i + 3]
             ELSE <<IF s[i] = PLUS THEN SPACE ELSE s[i]>> \o from[i + 1]
      zero == SelectInSeq(from[1], LAMBDA c : c = 0)
  IN  IF zero = 0 THEN from[1] ELSE SubSeq(from[1], 1, zero - 1)

Base64Chars == [i \in 1..64 |-> IF i <= 26 THEN 64 + i ELSE IF i <= 52 THEN 70 + i
                                ELSE IF i <= 62 THEN i - 5 ELSE IF i = 63 THEN 43 ELSE 47]
IsBase64(c) == \E i \in 1..64 : Base64Chars[i] = c

\* base64_decode, up to the first character that is not of the alphabet: bytes of
\* every four characters, and of two or three at the end.
Base64Decode(s) ==
  LET other == SelectInSeq(s, LAMBDA c : ~IsBase64(c))
      code  == [i \in 1..(IF other = 0 THEN Len(s) ELSE other - 1) |->
                  SelectInSeq(Base64Chars, LAMBDA c : c = s[i]) - 1]
      \* byte k takes bits from the characters at and after place at
      at(k) == ((k - 1) \div 3) * 4 + ((k - 1) % 3) + 1
      byte(k) == CASE (k - 1) % 3 = 0 -> code[at(k)] * 4 + code[at(k) + 1] \div 16
                   [] (k - 1) % 3 = 1 -> (code[at(k)] % 16) * 16 + code[at(k) + 1] \div 4
                   [] (k - 1) % 3 = 2 -> (code[at(k)] % 4) * 64 + code[at(k) + 1]
  IN  [k \in 1..(Len(code) * 3) \div 4 |-> byte(k)]

\* trim, of the blanks that occur here.
Trim(s) ==
  LET solid == {i \in DOMAIN s : s[i] \notin {SPACE, CR, LF}}
  IN  IF solid = {} THEN <<>>
      ELSE SubSeq(s, CHOOSE i \in solid : \A j \in solid : i <= j,
                     CHOOSE i \in solid : \A j \in solid : i >= j)

(***************************************************************************)
(* httprequest.cpp.                                                        *)
(***************************************************************************)
\* parseQueryString: the fields, and whether _error stays as it is.
ParseQueryString(s) ==
  LET step(r, part) ==
        LET p == Explode(<<EQUALS>>, part)
        IN  CASE Len(p) = 1 -> [r EXCEPT !.fields = With(@, p[1], <<>>)]
              [] Len(p) = 2 -> [r EXCEPT !.fields = With(@, p[1], UrlDecode(p[2]))]
              [] OTHER -> [r EXCEPT !.ok = FALSE]
  IN  FoldLeft(step, [ok |-> TRUE, fields |-> NoField], Explode(<<AMPERSAND>>, s))

\* parseHeaderExtraLine: name=value and name="value", others are skipped.
ParseHeaderExtraLine(s) ==
  LET step(f, item) ==
        LET p == Explode(<<EQUALS>>, item)
        IN  IF Len(p) # 2 THEN f
            ELSE IF p[2] # <<>> /\ p[2][1] = QUOTE
            THEN With(f, p[1], SubSeq(p[2], 2, Len(p[2]) - 1))
            ELSE With(f, p[1], p[2])
  IN  FoldLeft(step, NoField, Explode(<<SEMICOLON, SPACE>>, s))

\* parseMPPart with parseMPPartBody; a part with a file name is left out.
ParseMPPart(r, s, newline) ==
  LET at == FindAfter(newline \o newline, s, 1)
      lines == Explode(newline, SubSeq(s, 1, at - 1))
      header(i) == Explode(<<COLON, SPACE>>, lines[i])
      disposition == {i \in DOMAIN lines : header(i)[1] = <<CONTENT_DISPOSITION>>}
      last == CHOOSE i \in disposition : \A j \in disposition : i >= j
      attributes == ParseHeaderExtraLine(header(last)[2])
  IN  IF at = 0 \/ \E i \in DOMAIN lines : Len(header(i)) # 2 THEN [r EXCEPT !.ok = FALSE]
      ELSE IF disposition = {} THEN [r EXCEPT !.ok = FALSE]
      ELSE IF <<NAME>> \notin DOMAIN attributes THEN [r EXCEPT !.ok = FALSE]
      ELSE IF <<FILENAME>> \in DOMAIN attributes THEN r
      ELSE [r EXCEPT !.fields = With(@, attributes[<<NAME>>],
                                     SubSeq(s, at + 2 * Len(newline), Len(s)))]

\* Mutant: only the dashes are cut off the end of a part.
PartKeepsNewline(part) == SubSeq(part, 3, Len(part) - 2)

\* A part without the line breaks around it and the dashes of the next boundary.
PartOf(part) == SubSeq(part, 3, Len(part) - 4)

\* The same where lines end with LF alone: the last of them stays in the value.
PartOfLF(part) == SubSeq(part, 2, Len(part) - 2)

\* parseMultipartFormData: once a part began with LF alone, all later ones do.
ParseMultipart(s) ==
  LET step(r, raw) ==
        LET cut  == IF SubSeq(raw, 1, 2) = <<CR, LF>> THEN PartOf(raw) ELSE raw
            lf   == SubSeq(cut, 1, 1) = <<LF>>
            part == IF lf THEN PartOfLF(cut) ELSE cut
            newline == IF lf THEN <<LF>> ELSE r.newline
        IN  IF ~r.ok \/ Trim(raw) = <<DASH, DASH>> THEN r
            ELSE ParseMPPart([r EXCEPT !.newline = newline], part, newline)
  IN  FoldLeft(step, [ok |-> TRUE, fields |-> NoField, newline |-> <<CR, LF>>],
               Explode(<<BOUNDARY>>, s))

\* handleBasicAuth: the name and the password, if there are just two parts.
BasicAuth(s) == Explode(<<COLON>>, Base64Decode(s))

(***************************************************************************)
(* The user fills in another field, or begins a new form.                  *)
(***************************************************************************)
AddField(n, v) ==
  /\ Len(form) < MaxField
  /\ form' = Append(form, <<n, v>>)

NewForm == form' = <<>>

Init == form = <<>>
Next == NewForm \/ \E n \in FieldName, v \in FieldValue : AddField(n, v)
Spec == Init /\ [][Next]_form

(***************************************************************************)
(* The browser (external) and what it means.                               *)
(***************************************************************************)
Hex(d) == IF d < 10 THEN 48 + d ELSE 55 + d
UrlEncode(s) ==
  FlattenSeq([i \in DOMAIN s |->
    IF s[i] = SPACE THEN <<PLUS>>
    ELSE IF IsDigit(s[i]) \/ s[i] \in 97..122 THEN <<s[i]>>
    ELSE <<PERCENT, Hex(s[i] \div 16), Hex(s[i] % 16)>>])

Join(sep, parts) ==
  FlattenSeq([i \in DOMAIN parts |-> IF i = 1 THEN parts[i] ELSE sep \o parts[i]])

Query == Join(<<AMPERSAND>>, [i \in DOMAIN form |-> form[i][1] \o <<EQUALS>> \o UrlEncode(form[i][2])])

Cookies == Join(<<SEMICOLON, SPACE>>, [i \in DOMAIN form |-> form[i][1] \o <<EQUALS>> \o UrlEncode(form[i][2])])

Multipart ==
  FlattenSeq([i \in DOMAIN form |->
    <<DASH, DASH, BOUNDARY, CR, LF, CONTENT_DISPOSITION, COLON, SPACE, FORM_DATA, SEMICOLON, SPACE,
      NAME, EQUALS, QUOTE>> \o form[i][1] \o <<QUOTE, CR, LF, CR, LF>> \o form[i][2] \o <<CR, LF>>])
  \o <<DASH, DASH, BOUNDARY, DASH, DASH, CR, LF>>

\* Three bytes become four characters; a shorter rest is filled up with "=".
Base64Encode(s) ==
  LET byte(i) == IF i <= Len(s) THEN s[i] ELSE 0
      four(i) == LET n == byte(i) * 65536 + byte(i + 1) * 256 + byte(i + 2)
                 IN  [k \in 1..4 |-> IF i + k - 2 > Len(s) THEN EQUALS
                                     ELSE Base64Chars[((n \div 64^(4 - k)) % 64) + 1]]
  IN  FlattenSeq([k \in 1..(Len(s) + 2) \div 3 |-> four(3 * k - 2)])

\* Of fields with one name the last one counts.
Fields == FoldLeft(LAMBDA f, field : With(f, field[1], field[2]), NoField, form)

(***************************************************************************)
(* Properties.                                                             *)
(***************************************************************************)
\* What the user filled in arrives as it was, whichever way the browser sends it and
\* whatever separators, marks and line breaks are in the values: in a query string, in
\* a multipart form, in cookies (which are not decoded), and in the authentication
\* of a user by name and password.
FormArrives ==
  form # <<>> =>
    /\ ParseQueryString(Query) = [ok |-> TRUE, fields |-> Fields]
    /\ ParseMultipart(Multipart) = [ok |-> TRUE, fields |-> Fields, newline |-> <<CR, LF>>]
    /\ ParseHeaderExtraLine(Cookies) = [n \in DOMAIN Fields |-> UrlEncode(Fields[n])]
    /\ \A i \in DOMAIN form : ~Contains(form[i][2], COLON) =>
         BasicAuth(Base64Encode(form[i][1] \o <<COLON>> \o form[i][2])) = form[i]
=============================================================================
