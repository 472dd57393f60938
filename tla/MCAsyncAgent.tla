---------------------------- MODULE MCAsyncAgent ----------------------------
(* Small instances of AsyncAgent for TLC. *)
EXTENDS AsyncAgent

CONSTANTS a1, a2

TwoAgents == {a1, a2}
=============================================================================
