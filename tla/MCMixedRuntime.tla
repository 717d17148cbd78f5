--------------------------- MODULE MCMixedRuntime ---------------------------
(* Small instances of MixedRuntime for TLC. *)
EXTENDS MixedRuntime

CONSTANTS var1, var2

(* Two words every source makes and one with the reserved code in its top trit. *)
MCRawWord ==
  {[i \in Idx |-> 0], [i \in Idx |-> 1], [i \in Idx |-> IF i = Trits - 1 THEN 3 ELSE 0]}

MCLiteral == {MinInt, -1, 1, MaxInt}
MCCount   == 0 .. Trits + 1
=============================================================================
