------------------------------ MODULE TritWord ------------------------------
(***************************************************************************)
(* The packed balanced ternary word of runtime/ternary_runtime.c and the   *)
(* static functions that compute on it.  A word is the array of its 2-bit  *)
(* codes, least significant trit first: 0 is -1, 1 is 0, 2 is +1 and 3 is  *)
(* reserved (every reader takes it for +1).                                *)
(*                                                                         *)
(* The code exists three times, for 64, 128 and 256-bit containers, always *)
(* with an int64_t value.  Here it is one module over the trit count Trits *)
(* and the container MaxInt: 3^Trits <= MaxInt is t32_t, 3^Trits > MaxInt  *)
(* is t64_t.  (t128_t has few helpers; its tmux looks at Sign, not Decode.)*)
(***************************************************************************)
EXTENDS CInt

CONSTANT Trits    (* trit_count: 32, 64 or 128 in the code *)

ASSUME TritsAssumption == Trits \in Nat \ {0}

Idx  == 0 .. Trits - 1
Code == 0 .. 3
Trit == -1 .. 1
Word == [Idx -> Code]

(* Words without the reserved code. *)
Canonical(w) == \A i \in Idx : w[i] # 3

PackedZero == [i \in Idx |-> 0]    (* the container 0: every trit is -1 *)

(* The container that holds a word, as an integer, and back. *)
WordOf(n) == [i \in Idx |-> CodeAt(n, i)]
BitsOf(w) ==
  LET sum[i \in 0 .. Trits] == IF i = 0 THEN 0 ELSE sum[i - 1] + w[i - 1] * Pow4[i - 1]
  IN sum[Trits]

-----------------------------------------------------------------------------
TritToBits(trit) == IF trit < 0 THEN 0 ELSE IF trit = 0 THEN 1 ELSE 2
BitsToTrit(bits) == IF bits = 0 THEN -1 ELSE IF bits = 1 THEN 0 ELSE 1

GetTrit(w, i) == BitsToTrit(w[i])
SetTrit(w, i, trit) == [w EXCEPT ![i] = TritToBits(trit)]

(* A loop that writes every trit of out, as all the tritwise helpers do.   *)
FromTrits(trit(_)) == [i \in Idx |-> TritToBits(trit(i))]

-----------------------------------------------------------------------------
(* The sum without the container's width. *)
DecodeUnbounded(w) ==
  LET sum[i \in 0 .. Trits] ==
        IF i = 0 THEN 0 ELSE sum[i - 1] + GetTrit(w, i - 1) * Pow3[i - 1]
  IN sum[Trits]

(* ternary_decode: value and pow3 after i iterations, both int64_t. *)
Decode(w) ==
  LET run[i \in 0 .. Trits] ==
        IF i = 0 THEN [value |-> 0, pow3 |-> 1]
        ELSE LET r == run[i - 1] IN
             [value |-> Wrap(r.value + Wrap(GetTrit(w, i - 1) * r.pow3)),
              pow3  |-> Wrap(r.pow3 * 3)]
  IN run[Trits].value

(* One iteration of ternary_encode on a value: the digit it emits and the  *)
(* value it leaves, remainders 2 and -2 being borrowed from the next digit.*)
EncodeDigit(v) ==
  LET rem == CRem(v, 3)
  IN IF rem = 2 THEN -1 ELSE IF rem = -2 THEN 1 ELSE rem

(* Without the borrow for a negative remainder. *)
EncodeCarryOneSided(v) == CQuot(v, 3) + (IF CRem(v, 3) = 2 THEN 1 ELSE 0)

EncodeCarry(v) ==
  LET rem == CRem(v, 3)
  IN CQuot(v, 3) + (IF rem = 2 THEN 1 ELSE IF rem = -2 THEN -1 ELSE 0)

Encode(v) ==
  LET left[i \in 0 .. Trits] == IF i = 0 THEN v ELSE EncodeCarry(left[i - 1])
  IN FromTrits(LAMBDA i : EncodeDigit(left[i]))

-----------------------------------------------------------------------------
(* Single trits. *)
TritMin(a, b) == IF a < b THEN a ELSE b
TritMax(a, b) == IF a > b THEN a ELSE b
TritXor(a, b) ==
  LET mod == (CRem(a + b, 3) + 3) % 3
  IN IF mod = 0 THEN 0 ELSE IF mod = 1 THEN 1 ELSE -1
TritMajority(a, b, c) ==
  IF a = b \/ a = c THEN a ELSE IF b = c THEN b ELSE 0
TritImplication(antecedent, consequent) ==
  IF antecedent = -1 THEN 1 ELSE consequent

(* Words, trit by trit. *)
TritwiseOp(a, b, op(_, _)) == FromTrits(LAMBDA i : op(GetTrit(a, i), GetTrit(b, i)))
Not(w) == FromTrits(LAMBDA i : IF GetTrit(w, i) = 0 THEN 0 ELSE -GetTrit(w, i))
Majority(a, b, c) ==
  FromTrits(LAMBDA i : TritMajority(GetTrit(a, i), GetTrit(b, i), GetTrit(c, i)))
Implication(a, b) == TritwiseOp(a, b, TritImplication)

(* The highest non-zero trit. *)
Sign(w) ==
  LET nonzero == {i \in Idx : GetTrit(w, i) # 0}
  IN IF nonzero = {} THEN 0
     ELSE GetTrit(w, CHOOSE i \in nonzero : \A j \in nonzero : j <= i)

(* A word holding one trit's value. *)
EncodeTrit(trit) == Encode(trit)

Equiv(a, b) ==
  EncodeTrit(IF Sign(a) = 0 \/ Sign(b) = 0 THEN 0
             ELSE IF Sign(a) = Sign(b) THEN 1 ELSE -1)

Txor(a, b) ==
  EncodeTrit(IF Sign(a) = Sign(b) /\ Sign(a) # 0 THEN -1
             ELSE IF Sign(b) = 0 /\ Sign(a) # 0 THEN 1
             ELSE IF Sign(a) = 0 /\ Sign(b) # 0 THEN 1 ELSE 0)

-----------------------------------------------------------------------------
(* Shifts and rotates; the count is (unsigned)shift % trit_count. *)
(* Moving the 2-bit codes instead of the trits they stand for. *)
ShiftRightCodes(w, shift) ==
  [i \in Idx |-> IF i + (shift % Trits) < Trits THEN w[i + (shift % Trits)] ELSE w[Trits - 1]]
RotateLeftCodes(w, shift) == [i \in Idx |-> w[(i + Trits - (shift % Trits)) % Trits]]

ShiftLeft(w, shift) ==
  LET k == shift % Trits
  IN FromTrits(LAMBDA i : IF i >= k THEN GetTrit(w, i - k) ELSE 0)

ShiftRight(w, shift) ==
  LET k == shift % Trits
  IN FromTrits(LAMBDA i : IF i + k < Trits THEN GetTrit(w, i + k)
                          ELSE GetTrit(w, Trits - 1))

RotateLeft(w, shift) ==
  LET k == shift % Trits
  IN FromTrits(LAMBDA i : GetTrit(w, (i + Trits - k) % Trits))

RotateRight(w, shift) ==
  LET k == shift % Trits
  IN FromTrits(LAMBDA i : GetTrit(w, (i + k) % Trits))

-----------------------------------------------------------------------------
(* Arithmetic: decode, compute in int64_t, encode. *)
CDiv(a, b) == IF b = 0 THEN 0 ELSE IF b < 0 THEN -CQuot(a, -b) ELSE CQuot(a, b)
CMod(a, b) == IF b = 0 THEN 0 ELSE CRem(a, Magnitude(b))

Add(a, b) == Encode(Wrap(Decode(a) + Decode(b)))
Sub(a, b) == Encode(Wrap(Decode(a) - Decode(b)))
Mul(a, b) == Encode(Wrap(Decode(a) * Decode(b)))
Div(a, b) == Encode(Wrap(CDiv(Decode(a), Decode(b))))
Mod(a, b) == Encode(CMod(Decode(a), Decode(b)))
Neg(a)    == Encode(Wrap(-Decode(a)))
MulAdd(a, b, c) == Encode(Wrap(Wrap(Decode(a) * Decode(b)) + Decode(c)))
Bias(a, bias)   == Encode(Wrap(Decode(a) + bias))

(* The divisor is the int64_t 3^drop, which wraps like pow3.  Dropping     *)
(* every trit returns the container 0, not the word whose value is 0.      *)
Round(a, drop) ==
  IF drop >= Trits THEN PackedZero ELSE Encode(Wrap(CDiv(Decode(a), Wrap(Pow3[drop]))))

Normalize(w) == [i \in Idx |-> IF w[i] = 3 THEN 1 ELSE w[i]]

(* A quantised scalar q in lane 0, zero trits above it. *)
Quantize(q) == FromTrits(LAMBDA i : IF i = 0 THEN q ELSE 0)

-----------------------------------------------------------------------------
(* Comparison and control. *)
Cmp(a, b) ==
  IF Decode(a) < Decode(b) THEN -1 ELSE IF Decode(a) > Decode(b) THEN 1 ELSE 0
Select(cond, t, f) == IF cond # 0 THEN t ELSE f
ThreeWay(c, neg, zero, pos) == IF c < 0 THEN neg ELSE IF c > 0 THEN pos ELSE zero
SignJmp(w, neg, zero, pos) == ThreeWay(Decode(w), neg, zero, pos)
Mux(sel, neg, zero, pos)   == ThreeWay(Decode(sel), neg, zero, pos)
=============================================================================
