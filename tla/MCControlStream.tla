--------------------------- MODULE MCControlStream --------------------------
(* Small instances of ControlStream for TLC. *)
EXTENDS ControlStream

LastWord == {"/>", "</stream>"}

\* No shortage; blocks for nothing; for a stanza not, for what is shorter; for the last
\* word not, after the header and a stanza took them; for the header only.
MCShortages == {{}, Piece, {"stanza"}, LastWord, LastWord \cup {"stanza"}}
=============================================================================
