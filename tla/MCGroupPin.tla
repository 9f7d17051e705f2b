----------------------------- MODULE MCGroupPin -----------------------------
(* GroupPin on small instances. *)
EXTENDS GroupPin, TLC

CONSTANTS n1, n2, c1, c2, c3

MCNodes == {n1, n2}
MCOneNode == {n1}
MCCallers == {c1, c2, c3}
MCTwoCallers == {c1, c2}

Symmetry == Permutations(MCNodes) \cup Permutations(MCCallers)
=============================================================================
