------------------------------- MODULE Powers -------------------------------
(***************************************************************************)
(* The weights of the digits of a word: 3^i of a trit's value, 4^i of its  *)
(* 2-bit code.  They are recursive functions, as the code computes them    *)
(* (pow3 *= 3), so that the proofs can follow the loops.                   *)
(***************************************************************************)
EXTENDS Integers

Pow3[i \in Nat] == IF i = 0 THEN 1 ELSE 3 * Pow3[i - 1]
Pow4[i \in Nat] == IF i = 0 THEN 1 ELSE 4 * Pow4[i - 1]
=============================================================================
