-------------------------- MODULE MCHttpConnection --------------------------
(* A small instance of HttpConnection for TLC. *)
EXTENDS HttpConnection

MCSizes == {0, 1, 2, 3}
MCLengths == {0, 2}
MCExtras == {0, 1}
MCQuotas == {0, 1}
=============================================================================
