------------------------------ MODULE MCLeaves ------------------------------
(* Small instances of the leaf components for TLC. *)
EXTENDS Leaves

CONSTANTS k1, k2, k3, k4, x, y, p1, p2

MCKey == {k1, k2, k3, k4}
MCValue == {x, y}
MCVariable == {p1, p2}

\* Three keys that collide and one that does not: one more than there are cells.
MCHash == [k \in MCKey |-> IF k = k4 THEN 2 ELSE 1]

MCName == {"a", "b"}
MCPath == {<<"a">>, <<"a", "b">>, <<"b", "a", "a">>}

MCCommunity == {<<>>, <<112, 117>>}
MCRequestID == {-1, 70000}

\* Parts of one, two and three bytes, at their limits.
MCOid == {<<1, 3>>, <<1, 3, 127, 128, 0>>, <<2, 5, 16384, 2097151, 2097152>>}

V(type, content, means) == [type |-> type, content |-> content, means |-> means]

\* Integers of no, one, two and four bytes at their limits; a counter, a gauge and a
\* 64-bit counter with all bits; text of more than 127 bytes; ticks; an identifier;
\* and a value without a handler.
MCSnmpValue == {
  V(2, <<>>, 0), V(2, <<255>>, -1), V(2, <<128, 0>>, -32768),
  V(2, <<127, 255, 255, 255>>, 2147483647), V(2, <<128, 0, 0, 0>>, -2147483647 - 1),
  V(65, <<0, 255, 255, 255, 254>>, <<255, 255, 255, 254>>), V(66, <<0>>, <<>>),
  V(70, <<0, 255, 0, 0, 0, 0, 0, 0, 1>>, <<255, 0, 0, 0, 0, 0, 0, 1>>),
  V(4, [i \in 1..130 |-> 65], [i \in 1..130 |-> 65]),
  V(67, <<127, 255>>, 32767), V(6, <<43, 6, 130, 44>>, <<1, 3, 6, 300>>), V(5, <<>>, <<>>)}

MCFieldName == {<<97>>, <<98, 99>>}

\* Nothing; an encoded letter; separators of queries; separators of cookies and a
\* quote; line breaks and dashes; bytes that are not ASCII; a colon.
MCFieldValue == {<<>>, <<37, 52, 49>>, <<38, 61, 43>>, <<32, 59, 32, 34>>,
                 <<13, 10, 13, 10, 45, 45>>, <<255, 128>>, <<58>>}

\* All masks and two plain paths of up to two words, and requests of two letters.
MCPattern == {<<>>, <<1>>, <<0>>, <<1, 2>>, <<0, 2>>, <<1, 0>>, <<0, 0>>}
MCRequestPath == {<<>>, <<1>>, <<2>>, <<1, 2>>, <<2, 2>>, <<1, 1>>, <<2, 1>>}

\* The tags of a tree by their shape: which tag has which identifier makes no
\* difference to a call or to a property.
MCView == <<part, queueVars, hashVars, stackVars, mapVars, heap, Tags!Forest, tags_count, snmpVars,
            form, routeVars, parserVars, sqlVars>>
=============================================================================
