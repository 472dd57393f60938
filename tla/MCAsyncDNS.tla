----------------------------- MODULE MCAsyncDNS -----------------------------
(* Small instances of AsyncDNS for TLC. *)
EXTENDS AsyncDNS

CONSTANTS q1, q2

MCQuery == {q1, q2}
MCDelays == {1, 2}
=============================================================================
