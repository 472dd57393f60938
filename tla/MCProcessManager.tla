-------------------------- MODULE MCProcessManager --------------------------
(* A small instance of ProcessManager for TLC. *)
EXTENDS ProcessManager
=============================================================================
