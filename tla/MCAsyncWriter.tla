--------------------------- MODULE MCAsyncWriter ---------------------------
(* Instances of AsyncWriter for TLC. *)
EXTENDS AsyncWriter

CONSTANTS k1, k2

TwoKeys == {k1, k2}
=============================================================================
