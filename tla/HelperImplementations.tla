------------------------ MODULE HelperImplementations ------------------------
(***************************************************************************)
(* What a helper returns, by the source it comes from: the skeleton's and  *)
(* the header's bodies work on containers (PackedWord), the reference      *)
(* runtime's are those of TritWord.  The vector helpers of the runtime are *)
(* here too, with the layout of their two lanes.                           *)
(***************************************************************************)
EXTENDS TritWord, HelperSymbols

(* The header computes the exclusive or from the minimum and the maximum.  *)
HeaderTritXor(a, b) == a + b - 2 * TritMin(a, b) - 2 * TritMax(a, b)

Skeleton == INSTANCE PackedWord WITH TritXor <- TritXor
Header   == INSTANCE PackedWord WITH TritXor <- HeaderTritXor

SkeletonWord(op, x, y, z, k) ==
  WordOf(Skeleton!WordResult(op, BitsOf(x), BitsOf(y), BitsOf(z), k))
HeaderWord(op, x, y, z, k) ==
  WordOf(Header!TypedResult(op, BitsOf(x), BitsOf(y), k))

SkeletonScalar(op, x, y) == Skeleton!ScalarResult(op, BitsOf(x), BitsOf(y))
HeaderScalar(op, x, y)   == Header!ScalarResult(op, BitsOf(x), BitsOf(y))

-----------------------------------------------------------------------------
(* Helpers on C integers -max-1 .. max, which start as -max-1 .. max too;  *)
(* the shifts multiply and divide by a power of 3 kept in an int64_t.      *)
ShiftPower(shift) ==
  LET pow3[i \in 0 .. shift] == IF i = 0 THEN 1 ELSE Wrap(pow3[i - 1] * 3)
  IN IF shift <= 0 THEN 1 ELSE pow3[shift]

Order(a, b) == IF a < b THEN -1 ELSE IF a > b THEN 1 ELSE 0
Flag(holds) == IF holds THEN 1 ELSE 0

IntResult(op, a, b, max) ==
  CASE op = "add" -> WrapTo(a + b, max)
    [] op = "sub" -> WrapTo(a - b, max)
    [] op = "mul" -> WrapTo(a * b, max)
    [] op = "div" -> WrapTo(CDiv(a, b), max)
    [] op = "mod" -> CMod(a, b)
    [] op \in {"neg", "not"} -> WrapTo(-a, max)
    [] op = "and" -> IF a < b THEN a ELSE b
    [] op = "or"  -> IF a > b THEN a ELSE b
    [] op = "xor" -> TritXor(a, b)
    [] op = "shl" -> WrapTo(Wrap(a * ShiftPower(b)), max)
    [] op = "shr" -> WrapTo(Wrap(CDiv(a, ShiftPower(b))), max)
    [] op \in {"rol", "ror"} -> a
    [] op = "cmp" -> Order(a, b)
    [] op = "eq"  -> Flag(Order(a, b) = 0)
    [] op = "ne"  -> Flag(Order(a, b) # 0)
    [] op = "lt"  -> Flag(Order(a, b) = -1)
    [] op = "le"  -> Flag(Order(a, b) \in {-1, 0})
    [] op = "gt"  -> Flag(Order(a, b) = 1)
    [] op = "ge"  -> Flag(Order(a, b) \in {1, 0})

HeaderInt(op, a, b, max) ==
  IF op = "xor" THEN WrapTo(HeaderTritXor(a, b), max) ELSE IntResult(op, a, b, max)

-----------------------------------------------------------------------------
(* Vectors of two words.  tv32_t is a container with lane 0 in its lower   *)
(* half, tv64_t a structure of two words.                                  *)
Join(r0, r1) == BitsOf(r1) * Pow4[Trits] + BitsOf(r0)
Lane(vector, i) == WordOf((vector \div Pow4[Trits * i]) % Pow4[Trits])

(* The scalar helper a vector helper calls for each of its lanes. *)
ScalarOf(op) ==
  CASE op = "cmp" -> "cmplt"  [] op = "tmin" -> "and"  [] op = "tmax" -> "or"  [] OTHER -> op

LaneResult(op, x, y, z, k) ==
  CASE op = "add" -> Add(x, y)
    [] op = "sub" -> Sub(x, y)
    [] op = "mul" -> Mul(x, y)
    [] op = "and" -> TritwiseOp(x, y, TritMin)
    [] op = "or"  -> TritwiseOp(x, y, TritMax)
    [] op = "xor" -> TritwiseOp(x, y, TritXor)
    [] op = "not" -> Neg(x)
    [] op = "cmplt"  -> Encode(IF Cmp(x, y) = -1 THEN -1 ELSE 0)
    [] op = "tmaj"   -> Majority(x, y, z)
    [] op = "tlimp"  -> Implication(x, y)
    [] op = "tquant" -> Quantize(k)
    [] op = "tround" -> Round(x, k)

(* Lane 1 of a read for both lanes. *)
PackedLanesFirstTwice(op, a, b, c, k) ==
  LET r(i) == LaneResult(ScalarOf(op), Lane(a, 0), Lane(b, i), Lane(c, i), k)
  IN Join(r(0), r(1))

PackedLanes(op, a, b, c, k) ==
  LET r(i) == LaneResult(ScalarOf(op), Lane(a, i), Lane(b, i), Lane(c, i), k)
  IN Join(r(0), r(1))

StructLanes(op, a, b) ==
  [lo |-> LaneResult(ScalarOf(op), a.lo, b.lo, b.lo, 0),
   hi |-> LaneResult(ScalarOf(op), a.hi, b.hi, b.hi, 0)]
=============================================================================
