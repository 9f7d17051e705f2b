------------------------------ MODULE MCFakeIp ------------------------------
(* Instances of FakeIp for TLC. *)
EXTENDS FakeIp, TLC

CONSTANTS a, b, x1, x2

TwoHosts == {a, b}
OneThread == {x1}
TwoThreads == {x1, x2}

Symmetry == Permutations(TwoThreads) \cup Permutations(TwoHosts)
=============================================================================
