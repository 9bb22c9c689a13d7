----------------------------- MODULE MCDistLock -----------------------------
(***************************************************************************)
(* Instances of DistLock for TLC.                                          *)
(***************************************************************************)
EXTENDS DistLock, TLC

CONSTANTS n1, n2, n3

Symmetry == Permutations(Node) \cup Permutations(Token)

TokenSymmetry == Permutations(Token)
NodeSymmetry == Permutations(Node)

\* Every client sees the same machines.
OneSnapshot == {Node}

\* Clients that do and that do not know of machine n2 yet: the two majorities
\* always share a machine.
GrowingSnapshots == {Node, Node \ {n2}}
=============================================================================
