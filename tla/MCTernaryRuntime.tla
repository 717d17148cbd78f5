-------------------------- MODULE MCTernaryRuntime --------------------------
(* Small instances of TernaryRuntime for TLC. *)
EXTENDS TernaryRuntime

CONSTANTS var1, var2

(* Two words the runtime makes and one with the reserved code in its top trit. *)
MCRawWord ==
  {[i \in Idx |-> 0], [i \in Idx |-> 1], [i \in Idx |-> IF i = Trits - 1 THEN 3 ELSE 0]}

MCLiteral == {MinInt, -Trits, 1, MaxInt}
MCCount   == 0 .. Trits + 1
=============================================================================
