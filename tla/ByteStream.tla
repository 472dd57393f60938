----------------------------- MODULE ByteStream -----------------------------
(***************************************************************************)
(* What the output buffers of NetDaemon promise to the code that writes to *)
(* a descriptor (AsyncStream::putInBuffer, asyncstream.cpp:300-311): every *)
(* descriptor has a queue of accepted bytes; a put appends its data whole  *)
(* or changes nothing; a push hands a prefix of the queue to the kernel;   *)
(* a cleanup drops the queue.  No descriptor ever sees the bytes of        *)
(* another one.  Blocks, offsets, quotas and the pool do not appear here.  *)
(***************************************************************************)
EXTENDS Naturals, Sequences

CONSTANTS Fd,       \* the descriptors 0 .. limit-1 of the daemon's table
          Byte,     \* the values of a byte
          Data      \* the data of a call of put: sequences of bytes

VARIABLE pending    \* the bytes accepted for a descriptor and not written yet

Init == pending = [f \in Fd |-> <<>>]

Accept(f, d) == pending' = [pending EXCEPT ![f] = @ \o d]

Write(f, n) == pending' = [pending EXCEPT ![f] = SubSeq(@, n + 1, Len(@))]

Drop(f) == pending' = [pending EXCEPT ![f] = <<>>]

Next ==
  \E f \in Fd :
    \/ \E d \in Data : Accept(f, d)
    \/ \E n \in 1..Len(pending[f]) : Write(f, n)
    \/ Drop(f)

Spec == Init /\ [][Next]_pending
=============================================================================
