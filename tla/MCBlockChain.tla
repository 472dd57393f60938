---------------------------- MODULE MCBlockChain ----------------------------
(* Small instances of BlockChain for TLC. *)
EXTENDS BlockChain, TLC

CONSTANTS f1, f2, x, y, g

MCFd == {f1, f2}

\* Two values tell any two positions apart.
TwoBytes == {x, y}
MCData == {<<x>>, <<x, x, y>>}
MCQuotas == {0, 2}
GrowingPool == {2, 3}

\* Descriptors are alike.
FdSymmetry == Permutations(MCFd)
=============================================================================
