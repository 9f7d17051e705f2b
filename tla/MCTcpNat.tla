------------------------------ MODULE MCTcpNat ------------------------------
(* Instances of TcpNat for TLC. *)
EXTENDS TcpNat, TLC

CONSTANTS f, g, h, c1, c2

TwoFlows == {f, g}
ThreeFlows == {f, g, h}
OneConn == {c1}
TwoConns == {c1, c2}

Symmetry == Permutations(TwoFlows) \cup Permutations(TwoConns)
=============================================================================
