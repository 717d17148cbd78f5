-------------------------------- MODULE CInt --------------------------------
(***************************************************************************)
(* The machine integers the ternary runtime computes with: C's truncating  *)
(* division and remainder, and a signed container INT64_MIN .. INT64_MAX   *)
(* scaled down to MinInt .. MaxInt.                                        *)
(*                                                                         *)
(* Signed overflow is undefined in C.  The code that overflows here is     *)
(* straight-line multiply-and-add whose result no branch of the same loop  *)
(* iteration reads, for which the compiler emits the machine's two's       *)
(* complement instructions: Wrap is the outcome of that build.  The one    *)
(* overflow of a division, INT64_MIN / -1, wraps too; x86 builds trap.     *)
(***************************************************************************)
EXTENDS Powers

CONSTANT MaxInt    (* INT64_MAX *)

ASSUME MaxIntAssumption == MaxInt \in Nat /\ MaxInt >= 3

MinInt == -MaxInt - 1
CInteger == MinInt .. MaxInt

Magnitude(x) == IF x < 0 THEN -x ELSE x

(* x / d and x % d of C for d > 0: truncation towards zero. *)
CQuot(x, d) == IF x < 0 THEN -((-x) \div d) ELSE x \div d
CRem(x, d)  == IF x < 0 THEN -((-x) % d) ELSE x % d

(* The value a two's complement register that holds -max-1 .. max keeps of *)
(* x; Wrap is that of the int64_t container.                               *)
WrapTo(x, max) == ((x + max + 1) % (2 * (max + 1))) - max - 1
Wrap(x) == WrapTo(x, MaxInt)

-----------------------------------------------------------------------------
(* A container of 2-bit codes: (packed >> 2 i) & 3. *)
CodeAt(packed, i) == (packed \div Pow4[i]) % 4
=============================================================================
