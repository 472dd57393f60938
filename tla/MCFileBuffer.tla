---------------------------- MODULE MCFileBuffer ----------------------------
(* Small instances of FileBuffer for TLC. *)
EXTENDS FileBuffer

CONSTANTS f1, f2, x, y, g

MCFd == {f1, f2}

\* Two values tell any two positions apart.
TwoBytes == {x, y}
MCData == {<<x>>, <<y>>, <<x, y>>, <<y, x, y>>, <<x, y, y, x>>}
MCQuotas == {0, 3}
GrowingPool == {2, 3}

\* Descriptors are alike.
FdSymmetry == Permutations(MCFd)
=============================================================================
