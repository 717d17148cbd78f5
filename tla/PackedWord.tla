------------------------------ MODULE PackedWord ------------------------------
(***************************************************************************)
(* The packed word as runtime_skeleton/src/ternary_runtime_skeleton.c and  *)
(* include/ternary_helpers.h compute on it: an unsigned container, its     *)
(* trits read and written two bits at a time with shifts and masks.  The   *)
(* two sources have the same static functions but for the exclusive or of  *)
(* two trits, and the skeleton has more of them.  Where TritWord has the   *)
(* array of codes, this module has the integer they make up, so that what  *)
(* a loop leaves untouched in out is there to be seen.                     *)
(***************************************************************************)
EXTENDS CInt

CONSTANTS
  Trits,         (* trit_count *)
  TritXor(_, _)  (* ternary_trit_xor of the source *)

Idx == 0 .. Trits - 1

-----------------------------------------------------------------------------
ToBits(trit) == IF trit < 0 THEN 0 ELSE IF trit = 0 THEN 1 ELSE 2
ToTrit(bits) == IF bits = 0 THEN -1 ELSE IF bits = 1 THEN 0 ELSE 1

(* (packed >> 2 idx) & 3, and (packed & ~(3 << 2 idx)) | (bits << 2 idx). *)
BitsAt(packed, idx) == CodeAt(packed, idx)
WithBits(packed, idx, bits) == packed + (bits - BitsAt(packed, idx)) * Pow4[idx]

GetTrit(packed, idx) == ToTrit(BitsAt(packed, idx))
SetTrit(packed, idx, trit) == WithBits(packed, idx, ToBits(trit))

(* A loop that writes the lowest n trits of out, which starts as 0. *)
Written(n, trit) ==
  LET out[i \in 0 .. n] == IF i = 0 THEN 0 ELSE SetTrit(out[i - 1], i - 1, trit[i - 1])
  IN out[n]

Decode(packed) ==
  LET run[i \in 0 .. Trits] ==
        IF i = 0 THEN [value |-> 0, pow3 |-> 1]
        ELSE LET r == run[i - 1] IN
             [value |-> Wrap(r.value + Wrap(GetTrit(packed, i - 1) * r.pow3)),
              pow3  |-> Wrap(r.pow3 * 3)]
  IN run[Trits].value

(* An iteration leaves the quotient nearest to value / 3 and ors in the    *)
(* bits of what is left over.                                              *)
BorrowPositive(rem) == IF rem = 2 THEN 1 ELSE 0
Borrow(rem) == IF rem = 2 THEN 1 ELSE IF rem = -2 THEN -1 ELSE 0

Encode(value) ==
  LET run[i \in 0 .. Trits] ==
        IF i = 0 THEN [value |-> value, packed |-> 0]
        ELSE LET r == run[i - 1]
                 rem == CRem(r.value, 3) IN
             [value  |-> CQuot(r.value, 3) + Borrow(rem),
              packed |-> r.packed + ToBits(rem - 3 * Borrow(rem)) * Pow4[i - 1]]
  IN run[Trits].packed

-----------------------------------------------------------------------------
ShiftLeft(packed, shift) ==
  LET k == shift % Trits
  IN Written(Trits, [i \in Idx |-> IF i >= k THEN GetTrit(packed, i - k) ELSE 0])

(* Shifting the container, and with zero trits shifted in at the top. *)
ShiftRightContainer(packed, shift) == packed \div Pow4[shift % Trits]

ShiftRightZero(packed, shift) ==
  LET k == shift % Trits
  IN Written(Trits, [i \in Idx |-> IF i + k < Trits THEN GetTrit(packed, i + k) ELSE 0])

ShiftRight(packed, shift) ==
  LET k == shift % Trits
      sign_trit == GetTrit(packed, Trits - 1)
  IN Written(Trits, [i \in Idx |-> IF i + k < Trits THEN GetTrit(packed, i + k) ELSE sign_trit])

RotateLeft(packed, shift) ==
  Written(Trits, [i \in Idx |-> GetTrit(packed, (i + Trits - (shift % Trits)) % Trits)])
RotateRight(packed, shift) ==
  Written(Trits, [i \in Idx |-> GetTrit(packed, (i + (shift % Trits)) % Trits)])

TritMin(a, b) == IF a < b THEN a ELSE b
TritMax(a, b) == IF a > b THEN a ELSE b

(* op is 0 for min, 1 for max and 2 for xor. *)
TritwiseOp(a, b, op) ==
  Written(Trits, [i \in Idx |->
    LET s == GetTrit(a, i)  t == GetTrit(b, i) IN
    IF op = 0 THEN TritMin(s, t) ELSE IF op = 1 THEN TritMax(s, t) ELSE TritXor(s, t)])

TritMajority(a, b, c) == IF a \in {b, c} THEN a ELSE IF b = c THEN b ELSE 0
Majority(a, b, c) ==
  Written(Trits, [i \in Idx |-> TritMajority(GetTrit(a, i), GetTrit(b, i), GetTrit(c, i))])

TritImplication(antecedent, consequent) == IF antecedent = -1 THEN 1 ELSE consequent
Implication(a, b) ==
  Written(Trits, [i \in Idx |-> TritImplication(GetTrit(a, i), GetTrit(b, i))])

Not(packed) == Written(Trits, [i \in Idx |-> -GetTrit(packed, i)])
MulAdd(a, b, c) == Encode(Wrap(Wrap(Decode(a) * Decode(b)) + Decode(c)))
Bias(packed, bias) == Encode(Wrap(Decode(packed) + bias))

(* The trits from drop on move down; the drop trits above them are never   *)
(* written and keep the bits 0 of out, which stand for -1.                 *)
Round(packed, drop) ==
  IF drop >= Trits THEN 0
  ELSE Written(Trits - drop, [i \in 0 .. Trits - drop - 1 |-> GetTrit(packed, i + drop)])

Normalize(packed) ==
  LET out[i \in 0 .. Trits] ==
        IF i = 0 THEN packed
        ELSE IF BitsAt(packed, i - 1) = 3 THEN WithBits(out[i - 1], i - 1, 1)
        ELSE out[i - 1]
  IN out[Trits]

(* Every trit of the word is the quantised scalar. *)
Quantize(q) == Written(Trits, [i \in Idx |-> q])

-----------------------------------------------------------------------------
(* The helpers of one type, on containers. *)
Quotient(a, b)  == IF b = 0 THEN 0 ELSE IF b < 0 THEN -CQuot(a, -b) ELSE CQuot(a, b)
Remainder(a, b) == IF b = 0 THEN 0 ELSE CRem(a, Magnitude(b))

TypedResult(op, a, b, k) ==
  LET va == Decode(a)  vb == Decode(b) IN
  CASE op = "add" -> Encode(Wrap(va + vb))
    [] op = "sub" -> Encode(Wrap(va - vb))
    [] op = "mul" -> Encode(Wrap(va * vb))
    [] op = "div" -> Encode(Wrap(Quotient(va, vb)))
    [] op = "mod" -> Encode(Remainder(va, vb))
    [] op \in {"neg", "not"} -> Encode(Wrap(-va))
    [] op = "and" -> TritwiseOp(a, b, 0)
    [] op = "or"  -> TritwiseOp(a, b, 1)
    [] op = "xor" -> TritwiseOp(a, b, 2)
    [] op = "shl" -> ShiftLeft(a, k)
    [] op = "shr" -> ShiftRight(a, k)
    [] op = "rol" -> RotateLeft(a, k)
    [] op = "ror" -> RotateRight(a, k)
    [] op = "tb2t" -> Encode(k)

IsaResult(op, a, b, c, k) ==
  CASE op = "tmaj"  -> Majority(a, b, c)
    [] op = "tlimp" -> Implication(a, b)
    [] op = "tquant" -> Quantize(k)
    [] op = "tnot"  -> Not(a)
    [] op = "tmuladd" -> MulAdd(a, b, c)
    [] op = "tround"  -> Round(a, k)
    [] op = "tnormalize" -> Normalize(a)
    [] op = "tbias" -> Bias(a, k)

IsaOps == {"tmaj", "tlimp", "tquant", "tnot", "tmuladd", "tround", "tnormalize", "tbias"}
WordResult(op, a, b, c, k) ==
  IF op \in IsaOps THEN IsaResult(op, a, b, c, k) ELSE TypedResult(op, a, b, k)

ThreeWay(value, neg, zero, pos) ==
  IF value < 0 THEN neg ELSE IF value > 0 THEN pos ELSE zero
Compare(va, vb) == IF va < vb THEN -1 ELSE IF va > vb THEN 1 ELSE 0
ScalarResult(op, a, b) ==
  CASE op = "cmp"  -> Compare(Decode(a), Decode(b))
    [] op = "tt2b" -> Decode(a)
    [] op = "tsignjmp" -> ThreeWay(Decode(a), -1, 0, 1)
=============================================================================
