------------------------- MODULE MCParameterManager -------------------------
(* Instances of ParameterManager for TLC.                                  *)
EXTENDS CommandLog

CONSTANTS d1, d2

Single == {d1}
Pair == {d1, d2}
Steps == {-1, 0, 1}
MinusOne == -1
=============================================================================
