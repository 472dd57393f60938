---------------------------- MODULE MCNetDaemon -----------------------------
(* Small instances of NetDaemon for TLC. *)
EXTENDS NetDaemon, TLC

CONSTANTS s1, s2, v1

TwoStreams == {s1, s2}
OneStream == {s1}
OneServer == {v1}
NoServer == {}

StreamSymmetry == Permutations(TwoStreams)
=============================================================================
