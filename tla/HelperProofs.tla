---------------------------- MODULE HelperProofs ----------------------------
(***************************************************************************)
(* The bodies of the skeleton and of the header return what those of the   *)
(* reference runtime return, for every trit count and container width.     *)
(*                                                                         *)
(* The skeleton and the header compute on containers, the runtime's model  *)
(* on arrays of codes; BitsOf and WordOf translate.  A loop that writes    *)
(* trits packs their codes (WrittenPacks), a read gets one of them back    *)
(* (GetTritAgrees), and the loops of decode, encode and normalise compute  *)
(* what TritWord's do (DecodeAgrees, EncodeAgrees, NormalizeAgrees).  Then *)
(* SkeletonComputes and HeaderComputes settle helper by helper that they   *)
(* return the runtime's word.                                              *)
(***************************************************************************)
EXTENDS HelperImplementations, TritWordProofs

(* The header's loops are the skeleton's. *)
LEMMA SameLoops ==
  /\ \A n, t : Header!Written(n, t) = Skeleton!Written(n, t)
  /\ \A p : Header!Decode(p) = Skeleton!Decode(p)
  /\ \A v : Header!Encode(v) = Skeleton!Encode(v)
  BY DEF Header!Written, Skeleton!Written, Header!SetTrit, Skeleton!SetTrit,
    Header!WithBits, Skeleton!WithBits, Header!BitsAt, Skeleton!BitsAt,
    Header!ToBits, Skeleton!ToBits, Header!Decode, Skeleton!Decode,
    Header!GetTrit, Skeleton!GetTrit, Header!ToTrit, Skeleton!ToTrit,
    Header!Encode, Skeleton!Encode, Header!Borrow, Skeleton!Borrow,
    Header!Pow4, Skeleton!Pow4, Header!CodeAt, Skeleton!CodeAt,
    Header!Wrap, Skeleton!Wrap, Header!WrapTo, Skeleton!WrapTo,
    Header!CRem, Skeleton!CRem, Header!CQuot, Skeleton!CQuot

(* A loop that writes the n lowest trits packs their codes. *)
LEMMA WrittenPacks ==
  ASSUME NEW n \in Nat, NEW trit
  PROVE  \E e : /\ IsPacking(e, [i \in 0 .. n - 1 |-> TritToBits(trit[i])], n)
                /\ Skeleton!Written(n, trit) = e[n]
<1> DEFINE d == [i \in 0 .. n - 1 |-> TritToBits(trit[i])]
           F(f) == [i \in 0 .. n |-> IF i = 0 THEN 0
                                     ELSE f[i - 1] + (TritToBits(trit[i - 1]) - CodeAt(f[i - 1], i - 1))
                                                       * Pow4[i - 1]]
           out == CHOOSE f : f = F(f)
<1>1. Skeleton!Written(n, trit) = out[n]
  BY DEF Skeleton!Written, Skeleton!SetTrit, Skeleton!WithBits, Skeleton!BitsAt, Skeleton!ToBits,
         TritToBits, Skeleton!CodeAt, CodeAt, Skeleton!Pow4, Pow4
<1>2. \A i \in 0 .. n - 1 : d[i] \in 0 .. 2 /\ d[i] \in Nat /\ d[i] = TritToBits(trit[i])
  BY TritToBitsRange
<1> HIDE DEF d
<1>3. PICK e : SumStates(e, d, Pow4, n) /\ IsPacking(e, d, n)
  BY <1>2, PackingExists
<1>4. IsPacking(e, d, n)
  BY <1>3
<1>5. ASSUME NEW i \in 1 .. n
      PROVE e[i] = e[i - 1] + (TritToBits(trit[i - 1]) - CodeAt(e[i - 1], i - 1)) * Pow4[i - 1]
  <2>1. i - 1 \in Nat /\ i - 1 \in 0 .. n - 1 /\ \A k \in 0 .. (i - 1) - 1 : k \in 0 .. n - 1
    OBVIOUS
  <2>2. IsPacking(e, d, i - 1)
    BY <1>4, <2>1 DEF IsPacking
  <2>3. CodeAt(e[i - 1], i - 1) = 0
    <3>1. CodesBelow(d, i - 1)
      BY <1>2, <2>1 DEF CodesBelow
    <3> QED
      BY <2>1, <2>2, <3>1, PackingAbove
  <2>4. e[i] = e[i - 1] + d[i - 1] * Pow4[i - 1]
    BY <1>4 DEF IsPacking
  <2> QED
    BY <1>2, <2>1, <2>3, <2>4
<1>6. e = F(e)
  <2>1. \A i \in 0 .. n : i = 0 \/ i \in 1 .. n
    OBVIOUS
  <2>2. e[0] = 0
    BY <1>4 DEF IsPacking
  <2>3. \A i \in 0 .. n :
          e[i] = IF i = 0 THEN 0
                 ELSE e[i - 1] + (TritToBits(trit[i - 1]) - CodeAt(e[i - 1], i - 1)) * Pow4[i - 1]
    BY <1>5, <2>1, <2>2
  <2>4. e = [i \in 0 .. n |-> e[i]]
    BY <1>3 DEF SumStates
  <2> QED
    BY <2>3, <2>4
<1>7. out = F(out)
  <2> HIDE DEF F
  <2> QED BY <1>6
<1> HIDE DEF out
<1>8. \A i \in 0 .. n : out[i] = e[i]
  <2> DEFINE S == {i \in Nat : i <= n => out[i] = e[i]}
  <2>1. 0 \in S
    BY <1>6, <1>7
  <2>2. ASSUME NEW i \in Nat, i \in S PROVE i + 1 \in S
    <3> SUFFICES ASSUME i + 1 <= n PROVE out[i + 1] = e[i + 1]
      OBVIOUS
    <3>1. i + 1 \in 0 .. n /\ i + 1 # 0 /\ (i + 1) - 1 = i
      OBVIOUS
    <3>2. out[i] = e[i]
      BY <2>2
    <3>3. out[i + 1] = out[i] + (TritToBits(trit[i]) - CodeAt(out[i], i)) * Pow4[i]
      BY <1>7, <3>1
    <3>4. e[i + 1] = e[i] + (TritToBits(trit[i]) - CodeAt(e[i], i)) * Pow4[i]
      BY <1>6, <3>1
    <3> QED
      BY <3>2, <3>3, <3>4
  <2> HIDE DEF S
  <2>3. \A i \in Nat : i \in S
    BY <2>1, <2>2, SetInduction
  <2> QED
    BY <2>3 DEF S
<1>9. Skeleton!Written(n, trit) = e[n]
  BY <1>1, <1>8
<1> QED
  BY <1>4, <1>9 DEF d

(* The codes a loop over the n lowest trits writes, and the 0 it leaves. *)
LEMMA WrittenWord ==
  ASSUME NEW n \in 0 .. Trits, NEW trit
  PROVE  WordOf(Skeleton!Written(n, trit)) =
           [i \in Idx |-> IF i < n THEN TritToBits(trit[i]) ELSE 0]
<1> DEFINE d == [i \in 0 .. n - 1 |-> TritToBits(trit[i])]
<1>1. n \in Nat /\ Trits \in Nat
  BY TritsAssumption
<1>2. PICK e : IsPacking(e, d, n) /\ Skeleton!Written(n, trit) = e[n]
  BY <1>1, WrittenPacks
<1>3. \A i \in 0 .. n - 1 : d[i] = TritToBits(trit[i]) /\ d[i] \in 0 .. 3
  BY TritToBitsRange
<1> HIDE DEF d
<1>4. /\ \A i \in 0 .. n - 1 : CodeAt(e[n], i) = d[i]
      /\ \A i \in Nat : i >= n => CodeAt(e[n], i) = 0
  BY <1>1, <1>2, <1>3, PackingCodes
<1>5. \A i \in Idx : CodeAt(e[n], i) = IF i < n THEN TritToBits(trit[i]) ELSE 0
  <2>1. \A i \in Idx : i \in Nat /\ (i < n => i \in 0 .. n - 1) /\ (~(i < n) => i >= n)
    BY <1>1 DEF Idx
  <2> QED
    BY <2>1, <1>3, <1>4
<1> QED
  BY <1>2, <1>5 DEF WordOf

(* A loop over all trits writes every code. *)
LEMMA WrittenAll ==
  ASSUME NEW trit
  PROVE  WordOf(Skeleton!Written(Trits, trit)) = [i \in Idx |-> TritToBits(trit[i])]
<1>1. Trits \in 0 .. Trits /\ \A i \in Idx : i < Trits
  BY TritsAssumption DEF Idx
<1> QED
  BY <1>1, WrittenWord

(* Reading a trit of the container is reading it of the word. *)
LEMMA GetTritAgrees ==
  ASSUME NEW w \in Word, NEW i \in Idx
  PROVE  Skeleton!GetTrit(BitsOf(w), i) = GetTrit(w, i)
<1>1. CodeAt(BitsOf(w), i) = w[i]
  BY WordCodes
<1>2. Skeleton!GetTrit(BitsOf(w), i) = BitsToTrit(CodeAt(BitsOf(w), i))
  BY DEF Skeleton!GetTrit, Skeleton!ToTrit, Skeleton!BitsAt, Skeleton!CodeAt, CodeAt,
         Skeleton!Pow4, Pow4, BitsToTrit
<1> QED
  BY <1>1, <1>2 DEF GetTrit

(* decode returns the same int64_t from container and word. *)
LEMMA DecodeAgrees ==
  ASSUME NEW w \in Word
  PROVE  Skeleton!Decode(BitsOf(w)) = Decode(w)
<1> DEFINE packed == BitsOf(w)
           F(h) == [i \in 0 .. Trits |->
                      IF i = 0 THEN [value |-> 0, pow3 |-> 1]
                      ELSE [value |-> Wrap(h[i - 1].value
                                           + Wrap(Skeleton!GetTrit(packed, i - 1) * h[i - 1].pow3)),
                            pow3  |-> Wrap(h[i - 1].pow3 * 3)]]
           G(h) == [i \in 0 .. Trits |->
                      IF i = 0 THEN [value |-> 0, pow3 |-> 1]
                      ELSE [value |-> Wrap(h[i - 1].value
                                           + Wrap(GetTrit(w, i - 1) * h[i - 1].pow3)),
                            pow3  |-> Wrap(h[i - 1].pow3 * 3)]]
<1>1. Skeleton!Decode(packed) = (CHOOSE h : h = F(h))[Trits].value
  BY DEF Skeleton!Decode, Skeleton!Wrap, Wrap, Skeleton!WrapTo, WrapTo
<1>2. Decode(w) = (CHOOSE h : h = G(h))[Trits].value
  BY DEF Decode
<1>3. \A h : F(h) = G(h)
  <2> TAKE h
  <2>1. \A i \in 0 .. Trits : i # 0 => i - 1 \in Idx
    BY TritsAssumption DEF Idx
  <2>2. \A i \in 0 .. Trits : i # 0 => Skeleton!GetTrit(packed, i - 1) = GetTrit(w, i - 1)
    BY <2>1, GetTritAgrees
  <2> HIDE DEF packed
  <2> QED
    BY <2>2
<1> HIDE DEF F, G
<1>4. (CHOOSE h : h = F(h)) = (CHOOSE h : h = G(h))
  BY <1>3
<1> QED
  BY <1>1, <1>2, <1>4

(* One iteration of encode, in the words of both models. *)
LEMMA EncodeStep ==
  ASSUME NEW x \in Int
  PROVE  /\ EncodeCarry(x) \in Int
         /\ CQuot(x, 3) + Skeleton!Borrow(CRem(x, 3)) = EncodeCarry(x)
         /\ TritToBits(CRem(x, 3) - 3 * Skeleton!Borrow(CRem(x, 3))) = TritToBits(EncodeDigit(x))
<1>1. CQuot(x, 3) \in Int /\ CRem(x, 3) \in Int
  BY DEF CQuot, CRem
<1>2. EncodeCarry(x) \in Int /\ CQuot(x, 3) + Skeleton!Borrow(CRem(x, 3)) = EncodeCarry(x)
  BY <1>1 DEF EncodeCarry, Skeleton!Borrow
<1>3. TritToBits(CRem(x, 3) - 3 * Skeleton!Borrow(CRem(x, 3))) = TritToBits(EncodeDigit(x))
  BY <1>1 DEF EncodeDigit, Skeleton!Borrow
<1> QED
  BY <1>2, <1>3

(* encode packs the codes of TritWord's Encode. *)
LEMMA EncodeAgrees ==
  ASSUME NEW v \in Int
  PROVE  WordOf(Skeleton!Encode(v)) = Encode(v)
<1> DEFINE L(h) == [i \in 0 .. Trits |-> IF i = 0 THEN v ELSE EncodeCarry(h[i - 1])]
           F(h) == [i \in 0 .. Trits |->
                      IF i = 0 THEN [value |-> v, packed |-> 0]
                      ELSE [value  |-> CQuot(h[i - 1].value, 3)
                                         + Skeleton!Borrow(CRem(h[i - 1].value, 3)),
                            packed |-> h[i - 1].packed
                                         + TritToBits(CRem(h[i - 1].value, 3)
                                                        - 3 * Skeleton!Borrow(CRem(h[i - 1].value, 3)))
                                           * Pow4[i - 1]]]
           left == CHOOSE h : h = L(h)
           run  == CHOOSE h : h = F(h)
           d == [i \in 0 .. Trits - 1 |-> TritToBits(EncodeDigit(left[i]))]
           step == [p \in Int \X Nat |-> EncodeCarry(p[1])]
<1>1. Encode(v) = [i \in Idx |-> TritToBits(EncodeDigit(left[i]))]
  BY DEF Encode, FromTrits
<1>2. Skeleton!Encode(v) = run[Trits].packed
  BY DEF Skeleton!Encode, Skeleton!ToBits, TritToBits, Skeleton!CRem, CRem, Skeleton!CQuot, CQuot,
         Skeleton!Pow4, Pow4
<1>3. Trits \in Nat
  BY TritsAssumption
<1>4. step \in [Int \X Nat -> Int]
  BY EncodeStep
<1>5. PICK g \in [0 .. Trits -> Int] : IsLoop(g, v, step, Trits)
  <2> HIDE DEF step
  <2> QED BY <1>3, <1>4, LoopExists
<1>6. g = L(g)
  <2>1. ASSUME NEW i \in 0 .. Trits, i # 0 PROVE step[<<g[i - 1], i>>] = EncodeCarry(g[i - 1])
    <3>1. <<g[i - 1], i>> \in Int \X Nat
      BY <2>1, <1>3
    <3> QED
      BY <3>1
  <2> HIDE DEF step
  <2> QED
    BY <1>5, <2>1 DEF IsLoop
<1>7. left = L(left)
  <2> HIDE DEF L
  <2> QED BY <1>6
<1> HIDE DEF left
<1>8. \A i \in 0 .. Trits : left[i] \in Int
  <2> DEFINE S == {i \in Nat : i <= Trits => left[i] \in Int}
  <2>1. 0 \in S
    BY <1>7, <1>3
  <2>2. ASSUME NEW i \in Nat, i \in S PROVE i + 1 \in S
    <3> SUFFICES ASSUME i + 1 <= Trits PROVE left[i + 1] \in Int
      OBVIOUS
    <3>1. i + 1 \in 0 .. Trits /\ i + 1 # 0 /\ (i + 1) - 1 = i /\ i <= Trits
      BY <1>3
    <3>2. left[i + 1] = EncodeCarry(left[i])
      BY <1>7, <3>1
    <3>3. left[i] \in Int
      BY <2>2, <3>1
    <3> QED
      BY <3>2, <3>3, EncodeStep
  <2> HIDE DEF S
  <2>3. \A i \in Nat : i \in S
    BY <2>1, <2>2, SetInduction
  <2> QED
    BY <2>3, <1>3 DEF S
<1>9. \A i \in 0 .. Trits - 1 : d[i] \in 0 .. 3 /\ d[i] \in Nat
                                  /\ d[i] = TritToBits(EncodeDigit(left[i]))
  BY TritToBitsRange
<1> HIDE DEF d
<1>10. PICK e : SumStates(e, d, Pow4, Trits) /\ IsPacking(e, d, Trits)
  BY <1>3, <1>9, PackingExists
<1>11. IsPacking(e, d, Trits)
  BY <1>10
<1> DEFINE r == [i \in 0 .. Trits |-> [value |-> left[i], packed |-> e[i]]]
<1>12. r = F(r)
  <2>1. ASSUME NEW i \in 1 .. Trits
        PROVE  /\ left[i] = CQuot(left[i - 1], 3) + Skeleton!Borrow(CRem(left[i - 1], 3))
               /\ e[i] = e[i - 1]
                           + TritToBits(CRem(left[i - 1], 3)
                                          - 3 * Skeleton!Borrow(CRem(left[i - 1], 3)))
                             * Pow4[i - 1]
    <3>1. i \in 0 .. Trits /\ i # 0 /\ i - 1 \in 0 .. Trits /\ i - 1 \in 0 .. Trits - 1
      BY <1>3
    <3>2. left[i] = EncodeCarry(left[i - 1])
      BY <1>7, <3>1
    <3>3. e[i] = e[i - 1] + TritToBits(EncodeDigit(left[i - 1])) * Pow4[i - 1]
      BY <1>9, <1>11, <3>1 DEF IsPacking
    <3> QED
      BY <1>8, <3>1, <3>2, <3>3, EncodeStep
  <2>2. left[0] = v /\ e[0] = 0
    BY <1>3, <1>7, <1>11 DEF IsPacking
  <2>3. \A i \in 0 .. Trits : i = 0 \/ (i \in 1 .. Trits /\ i - 1 \in 0 .. Trits)
    BY <1>3
  <2>4. ASSUME NEW i \in 0 .. Trits PROVE r[i] = F(r)[i]
    <3>1. CASE i = 0
      BY <3>1, <2>2
    <3>2. CASE i # 0
      <4>1. /\ i \in 1 .. Trits /\ r[i] = [value |-> left[i], packed |-> e[i]]
            /\ r[i - 1].value = left[i - 1] /\ r[i - 1].packed = e[i - 1]
        BY <3>2, <2>3
      <4> HIDE DEF r
      <4> QED
        BY <3>2, <4>1, <2>1
    <3> QED
      BY <3>1, <3>2
  <2> QED
    BY <2>4
<1>13. run = F(run)
  <2> HIDE DEF F, r
  <2> QED BY <1>12
<1> HIDE DEF run, r
<1>14. \A i \in 0 .. Trits : run[i] = r[i]
  <2> DEFINE S == {i \in Nat : i <= Trits => run[i] = r[i]}
  <2>1. 0 \in S
    BY <1>3, <1>12, <1>13
  <2>2. ASSUME NEW i \in Nat, i \in S PROVE i + 1 \in S
    <3> SUFFICES ASSUME i + 1 <= Trits PROVE run[i + 1] = r[i + 1]
      OBVIOUS
    <3>1. i + 1 \in 0 .. Trits /\ i + 1 # 0 /\ (i + 1) - 1 = i /\ i <= Trits
      BY <1>3
    <3>2. run[i] = r[i]
      BY <2>2, <3>1
    <3>3. F(run)[i + 1] = F(r)[i + 1]
      BY <3>1, <3>2
    <3> HIDE DEF F
    <3> QED
      BY <3>3, <1>12, <1>13
  <2> HIDE DEF S
  <2>3. \A i \in Nat : i \in S
    BY <2>1, <2>2, SetInduction
  <2> QED
    BY <2>3, <1>3 DEF S
<1>15. Skeleton!Encode(v) = e[Trits]
  <2>1. Trits \in 0 .. Trits
    BY <1>3
  <2>2. r[Trits] = [value |-> left[Trits], packed |-> e[Trits]]
    BY <2>1 DEF r
  <2>3. run[Trits].packed = e[Trits]
    BY <1>14, <2>1, <2>2
  <2> QED
    BY <1>2, <2>3
<1>16. \A i \in Idx : CodeAt(e[Trits], i) = TritToBits(EncodeDigit(left[i]))
  BY <1>3, <1>9, <1>11, PackingCodes DEF Idx
<1> QED
  BY <1>1, <1>15, <1>16 DEF WordOf

-----------------------------------------------------------------------------
(* The helpers that work trit by trit return the same word. *)
LEMMA TritwiseAgree ==
  ASSUME NEW x \in Word, NEW y \in Word, NEW z \in Word
  PROVE  /\ WordOf(Skeleton!TritwiseOp(BitsOf(x), BitsOf(y), 0)) = TritwiseOp(x, y, TritMin)
         /\ WordOf(Skeleton!TritwiseOp(BitsOf(x), BitsOf(y), 1)) = TritwiseOp(x, y, TritMax)
         /\ WordOf(Skeleton!TritwiseOp(BitsOf(x), BitsOf(y), 2)) = TritwiseOp(x, y, TritXor)
         /\ WordOf(Skeleton!Majority(BitsOf(x), BitsOf(y), BitsOf(z))) = Majority(x, y, z)
         /\ WordOf(Skeleton!Implication(BitsOf(x), BitsOf(y))) = Implication(x, y)
         /\ WordOf(Skeleton!Not(BitsOf(x))) = Not(x)
<1>1. \A i \in Idx : /\ Skeleton!GetTrit(BitsOf(x), i) = GetTrit(x, i)
                     /\ Skeleton!GetTrit(BitsOf(y), i) = GetTrit(y, i)
                     /\ Skeleton!GetTrit(BitsOf(z), i) = GetTrit(z, i)
  BY GetTritAgrees
<1>2. Skeleton!Idx = Idx
  BY DEF Skeleton!Idx, Idx
<1>a. WordOf(Skeleton!TritwiseOp(BitsOf(x), BitsOf(y), 0)) = TritwiseOp(x, y, TritMin)
  BY <1>1, <1>2, WrittenAll DEF Skeleton!TritwiseOp, Skeleton!TritMin, TritMin, TritwiseOp, FromTrits
<1>b. WordOf(Skeleton!TritwiseOp(BitsOf(x), BitsOf(y), 1)) = TritwiseOp(x, y, TritMax)
  BY <1>1, <1>2, WrittenAll DEF Skeleton!TritwiseOp, Skeleton!TritMax, TritMax, TritwiseOp, FromTrits
<1>c. WordOf(Skeleton!TritwiseOp(BitsOf(x), BitsOf(y), 2)) = TritwiseOp(x, y, TritXor)
  BY <1>1, <1>2, WrittenAll DEF Skeleton!TritwiseOp, TritwiseOp, FromTrits
<1>d. WordOf(Skeleton!Majority(BitsOf(x), BitsOf(y), BitsOf(z))) = Majority(x, y, z)
  BY <1>1, <1>2, WrittenAll
  DEF Skeleton!Majority, Skeleton!TritMajority, TritMajority, Majority, FromTrits
<1>e. WordOf(Skeleton!Implication(BitsOf(x), BitsOf(y))) = Implication(x, y)
  BY <1>1, <1>2, WrittenAll
  DEF Skeleton!Implication, Skeleton!TritImplication, TritImplication, Implication, TritwiseOp, FromTrits
<1>f. WordOf(Skeleton!Not(BitsOf(x))) = Not(x)
  BY <1>1, <1>2, WrittenAll DEF Skeleton!Not, Not, FromTrits
<1> QED
  BY <1>a, <1>b, <1>c, <1>d, <1>e, <1>f

(* So do the shifts and rotates. *)
LEMMA ShiftsAgree ==
  ASSUME NEW x \in Word, NEW k \in Int
  PROVE  /\ WordOf(Skeleton!ShiftLeft(BitsOf(x), k)) = ShiftLeft(x, k)
         /\ WordOf(Skeleton!ShiftRight(BitsOf(x), k)) = ShiftRight(x, k)
         /\ WordOf(Skeleton!RotateLeft(BitsOf(x), k)) = RotateLeft(x, k)
         /\ WordOf(Skeleton!RotateRight(BitsOf(x), k)) = RotateRight(x, k)
<1>1. \A i \in Idx : Skeleton!GetTrit(BitsOf(x), i) = GetTrit(x, i)
  BY GetTritAgrees
<1>2. Skeleton!Idx = Idx
  BY DEF Skeleton!Idx, Idx
<1>3. k % Trits \in 0 .. Trits - 1 /\ Trits \in Nat /\ Trits > 0
  BY TritsAssumption
<1> DEFINE s == k % Trits
<1> HIDE DEF s
<1>4. \A i \in Idx : /\ i >= s => i - s \in Idx
                     /\ i + s < Trits => i + s \in Idx
                     /\ Trits - 1 \in Idx
                     /\ (i + Trits - s) % Trits \in Idx /\ (i + s) % Trits \in Idx
  BY <1>3 DEF Idx, s
<1>a. WordOf(Skeleton!ShiftLeft(BitsOf(x), k)) = ShiftLeft(x, k)
  BY <1>1, <1>2, <1>4, WrittenAll DEF Skeleton!ShiftLeft, ShiftLeft, FromTrits, s
<1>b. WordOf(Skeleton!ShiftRight(BitsOf(x), k)) = ShiftRight(x, k)
  BY <1>1, <1>2, <1>4, WrittenAll DEF Skeleton!ShiftRight, ShiftRight, FromTrits, s
<1>c. WordOf(Skeleton!RotateLeft(BitsOf(x), k)) = RotateLeft(x, k)
  BY <1>1, <1>2, <1>4, WrittenAll DEF Skeleton!RotateLeft, RotateLeft, FromTrits, s
<1>d. WordOf(Skeleton!RotateRight(BitsOf(x), k)) = RotateRight(x, k)
  BY <1>1, <1>2, <1>4, WrittenAll DEF Skeleton!RotateRight, RotateRight, FromTrits, s
<1> QED
  BY <1>a, <1>b, <1>c, <1>d

(* Replacing one code of a word moves its container by the difference.     *)
LEMMA OneCode ==
  ASSUME NEW w \in Word, NEW u \in Word, NEW k \in Idx,
         \A i \in Idx : i # k => u[i] = w[i]
  PROVE  BitsOf(u) = BitsOf(w) + (u[k] - w[k]) * Pow4[k]
<1>1. PICK e : IsPacking(e, w, Trits) /\ BitsOf(w) = e[Trits]
  BY BitsOfPacks
<1>2. PICK f : IsPacking(f, u, Trits) /\ BitsOf(u) = f[Trits]
  BY BitsOfPacks
<1>3. Trits \in Nat /\ k \in Nat /\ k < Trits
  BY TritsAssumption DEF Idx
<1>4. \A i \in Idx : w[i] \in Int /\ u[i] \in Int
  BY DEF Word, Code
<1>5. \A i \in Nat : Pow4[i] \in Int
  BY Pow4Facts
<1> DEFINE delta == (u[k] - w[k]) * Pow4[k]
<1>6. delta \in Int
  BY <1>3, <1>4, <1>5
<1> DEFINE S == {i \in Nat : i <= Trits => /\ e[i] \in Int
                                           /\ f[i] = e[i] + (IF i > k THEN delta ELSE 0)}
<1>7. 0 \in S
  BY <1>1, <1>2, <1>3 DEF IsPacking
<1>8. ASSUME NEW i \in Nat, i \in S PROVE i + 1 \in S
  <2> SUFFICES ASSUME i + 1 <= Trits
               PROVE  /\ e[i + 1] \in Int
                      /\ f[i + 1] = e[i + 1] + (IF i + 1 > k THEN delta ELSE 0)
    OBVIOUS
  <2>1. i + 1 \in 1 .. Trits /\ (i + 1) - 1 = i /\ i <= Trits /\ i \in Idx
    BY <1>3 DEF Idx
  <2>2. e[i] \in Int /\ f[i] = e[i] + (IF i > k THEN delta ELSE 0)
    BY <1>8, <2>1
  <2>3. e[i + 1] = e[i] + w[i] * Pow4[i]
    BY <1>1, <2>1 DEF IsPacking
  <2>4. f[i + 1] = f[i] + u[i] * Pow4[i]
    BY <1>2, <2>1 DEF IsPacking
  <2>5. w[i] * Pow4[i] \in Int /\ u[i] * Pow4[i] \in Int
    BY <1>4, <1>5, <2>1
  <2>6. CASE i = k
    <3>1. u[i] * Pow4[i] = w[i] * Pow4[i] + delta
      BY <1>4, <1>5, <2>1, <2>6
    <3> HIDE DEF delta
    <3> QED
      BY <1>3, <1>6, <2>2, <2>3, <2>4, <2>5, <2>6, <3>1
  <2>7. CASE i # k
    <3>1. u[i] = w[i]
      BY <2>1, <2>7
    <3> HIDE DEF delta
    <3> QED
      BY <1>3, <1>6, <2>2, <2>3, <2>4, <2>5, <2>7, <3>1
  <2> QED
    BY <2>6, <2>7
<1> HIDE DEF S
<1>9. \A i \in Nat : i \in S
  BY <1>7, <1>8, SetInduction
<1>10. f[Trits] = e[Trits] + delta
  BY <1>3, <1>9 DEF S
<1> QED
  BY <1>1, <1>2, <1>10

(* So does tnormalize, which rewrites reserved codes in place. *)
LEMMA NormalizeAgrees ==
  ASSUME NEW w \in Word
  PROVE  WordOf(Skeleton!Normalize(BitsOf(w))) = Normalize(w)
<1> DEFINE packed == BitsOf(w)
           upTo(n) == [i \in Idx |-> IF i < n /\ w[i] = 3 THEN 1 ELSE w[i]]
           F(h) == [i \in 0 .. Trits |->
                      IF i = 0 THEN packed
                      ELSE IF CodeAt(packed, i - 1) = 3
                           THEN h[i - 1] + (1 - CodeAt(h[i - 1], i - 1)) * Pow4[i - 1]
                      ELSE h[i - 1]]
           out == CHOOSE h : h = F(h)
           e == [i \in 0 .. Trits |-> BitsOf(upTo(i))]
<1>1. Skeleton!Normalize(packed) = out[Trits]
  BY DEF Skeleton!Normalize, Skeleton!WithBits, Skeleton!BitsAt, Skeleton!CodeAt, CodeAt,
         Skeleton!Pow4, Pow4
<1>2. Trits \in Nat
  BY TritsAssumption
<1>3. \A n \in Nat : upTo(n) \in Word
  BY DEF Word, Code
<1>4. e[0] = packed
  <2>1. \A i \in Idx : ~(i < 0)
    BY DEF Idx
  <2>2. upTo(0) = w
    BY <2>1 DEF Word
  <2>3. 0 \in 0 .. Trits
    BY <1>2
  <2> QED
    BY <2>2, <2>3
<1>5. ASSUME NEW i \in 1 .. Trits
      PROVE  e[i] = IF CodeAt(packed, i - 1) = 3
                    THEN e[i - 1] + (1 - CodeAt(e[i - 1], i - 1)) * Pow4[i - 1]
                    ELSE e[i - 1]
  <2> DEFINE j == i - 1
  <2>1. j \in Idx /\ j \in Nat /\ i \in Nat /\ i \in 0 .. Trits /\ j \in 0 .. Trits
        /\ ~(j < j) /\ j < i
    BY <1>2 DEF Idx
  <2>2. e[i] = BitsOf(upTo(i)) /\ e[j] = BitsOf(upTo(j))
    BY <2>1
  <2>3. \A k \in Idx : k # j => (k < i <=> k < j)
    BY <2>1 DEF Idx
  <2> HIDE DEF j
  <2>4. CodeAt(packed, j) = w[j]
    BY <2>1, WordCodes
  <2>5. upTo(j)[j] = w[j] /\ upTo(i)[j] = IF w[j] = 3 THEN 1 ELSE w[j]
    BY <2>1
  <2>6. \A k \in Idx : k # j => upTo(i)[k] = upTo(j)[k]
    BY <2>3
  <2>7. upTo(i) \in Word /\ upTo(j) \in Word
    BY <1>3, <2>1
  <2> DEFINE u == upTo(i)
             v == upTo(j)
  <2> HIDE DEF upTo, u, v
  <2>8. u \in Word /\ v \in Word /\ \A k \in Idx : k # j => u[k] = v[k]
    BY <2>6, <2>7 DEF u, v
  <2>9. BitsOf(u) = BitsOf(v) + (u[j] - v[j]) * Pow4[j]
    BY <2>1, <2>8, OneCode
  <2>10. CodeAt(BitsOf(v), j) = v[j]
    BY <2>1, <2>8, WordCodes
  <2>11. BitsOf(v) \in Int /\ w[j] \in Int /\ Pow4[j] \in Int
    <3>1. BitsOf(v) \in 0 .. Pow4[Trits] - 1 /\ Pow4[Trits] \in Int
      BY <1>2, <2>8, WordCodes, Pow4Facts
    <3> QED
      BY <2>1, <3>1, Pow4Facts DEF Word, Code
  <2>12. v[j] = w[j] /\ u[j] = IF w[j] = 3 THEN 1 ELSE w[j]
    BY <2>5 DEF u, v
  <2>13. BitsOf(u) = IF w[j] = 3 THEN BitsOf(v) + (1 - v[j]) * Pow4[j] ELSE BitsOf(v)
    BY <2>9, <2>11, <2>12
  <2>14. e[i] = IF CodeAt(packed, j) = 3
                THEN e[j] + (1 - CodeAt(e[j], j)) * Pow4[j]
                ELSE e[j]
    <3>1. e[i] = BitsOf(u) /\ e[j] = BitsOf(v)
      BY <2>2 DEF u, v
    <3> HIDE DEF e, packed
    <3> QED
      BY <2>4, <2>10, <2>13, <3>1
  <2> HIDE DEF e
  <2> QED
    BY <2>14 DEF j
<1> HIDE DEF e, packed
<1>6. e = F(e)
  <2>1. \A i \in 0 .. Trits : i = 0 \/ i \in 1 .. Trits
    BY <1>2
  <2>2. \A i \in 0 .. Trits :
          e[i] = IF i = 0 THEN packed
                 ELSE IF CodeAt(packed, i - 1) = 3
                      THEN e[i - 1] + (1 - CodeAt(e[i - 1], i - 1)) * Pow4[i - 1]
                 ELSE e[i - 1]
    BY <1>4, <1>5, <2>1
  <2>3. e = [i \in 0 .. Trits |-> e[i]]
    BY DEF e
  <2> QED
    BY <2>2, <2>3
<1>7. out = F(out)
  <2> HIDE DEF F
  <2> QED BY <1>6
<1> HIDE DEF out
<1>8. \A i \in 0 .. Trits : out[i] = e[i]
  <2> DEFINE S == {i \in Nat : i <= Trits => out[i] = e[i]}
  <2>1. 0 \in S
    BY <1>2, <1>6, <1>7
  <2>2. ASSUME NEW i \in Nat, i \in S PROVE i + 1 \in S
    <3> SUFFICES ASSUME i + 1 <= Trits PROVE out[i + 1] = e[i + 1]
      OBVIOUS
    <3>1. i + 1 \in 0 .. Trits /\ i + 1 # 0 /\ (i + 1) - 1 = i /\ i <= Trits
      BY <1>2
    <3>2. out[i] = e[i]
      BY <2>2, <3>1
    <3>3. F(out)[i + 1] = F(e)[i + 1]
      BY <3>1, <3>2
    <3> HIDE DEF F
    <3> QED
      BY <3>3, <1>6, <1>7
  <2> HIDE DEF S
  <2>3. \A i \in Nat : i \in S
    BY <2>1, <2>2, SetInduction
  <2> QED
    BY <2>3, <1>2 DEF S
<1>9. WordOf(e[Trits]) = upTo(Trits)
  <2>1. e[Trits] = BitsOf(upTo(Trits))
    BY <1>2 DEF e
  <2>2. upTo(Trits) \in Word
    BY <1>2, <1>3
  <2> HIDE DEF upTo
  <2> QED
    BY <2>1, <2>2, WordCodes
<1>10. upTo(Trits) = Normalize(w)
  <2>1. \A i \in Idx : i < Trits
    BY <1>2 DEF Idx
  <2> QED
    BY <2>1 DEF Normalize
<1>11. out[Trits] = e[Trits]
  BY <1>2, <1>8
<1> QED
  BY <1>1, <1>9, <1>10, <1>11 DEF packed

-----------------------------------------------------------------------------
(* What the skeleton and the header compute from containers is what the    *)
(* reference runtime computes from words.                                  *)
SameQuotients ==
  /\ \A a, b : Skeleton!Quotient(a, b) = CDiv(a, b) /\ Skeleton!Remainder(a, b) = CMod(a, b)
  /\ \A a, b : Header!Quotient(a, b) = CDiv(a, b) /\ Header!Remainder(a, b) = CMod(a, b)
  /\ \A a : Skeleton!Wrap(a) = Wrap(a) /\ Header!Wrap(a) = Wrap(a)

(* So do the divisions. *)
LEMMA QuotientsAgree == SameQuotients
  BY DEF SameQuotients, Skeleton!Quotient, Header!Quotient, Skeleton!Remainder, Header!Remainder, CDiv, CMod,
         Skeleton!CQuot, Header!CQuot, CQuot, Skeleton!CRem, Header!CRem, CRem,
         Skeleton!Magnitude, Header!Magnitude, Magnitude,
         Skeleton!Wrap, Header!Wrap, Wrap, Skeleton!WrapTo, Header!WrapTo, WrapTo

(* The header's helpers are the skeleton's, but for the exclusive or. *)
LEMMA SameHelpers ==
  /\ \A p, k : /\ Header!ShiftLeft(p, k) = Skeleton!ShiftLeft(p, k)
               /\ Header!ShiftRight(p, k) = Skeleton!ShiftRight(p, k)
               /\ Header!RotateLeft(p, k) = Skeleton!RotateLeft(p, k)
               /\ Header!RotateRight(p, k) = Skeleton!RotateRight(p, k)
  /\ \A p, q : /\ Header!TritwiseOp(p, q, 0) = Skeleton!TritwiseOp(p, q, 0)
               /\ Header!TritwiseOp(p, q, 1) = Skeleton!TritwiseOp(p, q, 1)
<1>1. \A p, i : Header!GetTrit(p, i) = Skeleton!GetTrit(p, i)
  BY DEF Header!GetTrit, Skeleton!GetTrit, Header!ToTrit, Skeleton!ToTrit, Header!BitsAt, Skeleton!BitsAt,
         Header!CodeAt, Skeleton!CodeAt, Header!Pow4, Skeleton!Pow4
<1>2. Header!Idx = Skeleton!Idx
  BY DEF Header!Idx, Skeleton!Idx
<1>3. \A p, k : Header!ShiftLeft(p, k) = Skeleton!ShiftLeft(p, k)
  BY <1>1, <1>2, SameLoops DEF Header!ShiftLeft, Skeleton!ShiftLeft
<1>4. \A p, k : Header!ShiftRight(p, k) = Skeleton!ShiftRight(p, k)
  BY <1>1, <1>2, SameLoops DEF Header!ShiftRight, Skeleton!ShiftRight
<1>5. \A p, k : Header!RotateLeft(p, k) = Skeleton!RotateLeft(p, k)
  BY <1>1, <1>2, SameLoops DEF Header!RotateLeft, Skeleton!RotateLeft
<1>6. \A p, k : Header!RotateRight(p, k) = Skeleton!RotateRight(p, k)
  BY <1>1, <1>2, SameLoops DEF Header!RotateRight, Skeleton!RotateRight
<1>7. \A p, q : Header!TritwiseOp(p, q, 0) = Skeleton!TritwiseOp(p, q, 0)
  BY <1>1, <1>2, SameLoops DEF Header!TritwiseOp, Skeleton!TritwiseOp, Header!TritMin, Skeleton!TritMin
<1>8. \A p, q : Header!TritwiseOp(p, q, 1) = Skeleton!TritwiseOp(p, q, 1)
  BY <1>1, <1>2, SameLoops DEF Header!TritwiseOp, Skeleton!TritwiseOp, Header!TritMax, Skeleton!TritMax
<1> QED
  BY <1>3, <1>4, <1>5, <1>6, <1>7, <1>8

(* Arithmetic on decoded words. *)
LEMMA ArithmeticType ==
  ASSUME NEW a \in Int, NEW b \in Int, NEW c \in Int
  PROVE  /\ Wrap(a + b) \in Int /\ Wrap(a - b) \in Int /\ Wrap(a * b) \in Int /\ Wrap(-a) \in Int
         /\ Wrap(CDiv(a, b)) \in Int /\ CMod(a, b) \in Int /\ Wrap(Wrap(a * b) + c) \in Int
<1>1. \A x \in Int : Wrap(x) \in Int
  BY WrapType, MaxIntAssumption DEF CInteger, MinInt
<1>2. a + b \in Int /\ a - b \in Int /\ a * b \in Int /\ -a \in Int
  OBVIOUS
<1>3. CDiv(a, b) \in Int /\ CMod(a, b) \in Int
  BY DEF CDiv, CMod, CQuot, CRem, Magnitude
<1>4. Wrap(a * b) + c \in Int
  BY <1>1, <1>2
<1> QED
  BY <1>1, <1>2, <1>3, <1>4

(* Helper by helper, the skeleton returns the runtime's word. *)
LEMMA SkeletonComputes ==
  ASSUME NEW x \in Word, NEW y \in Word, NEW z \in Word, NEW k \in Int
  PROVE  /\ SkeletonWord("add", x, y, z, k) = Add(x, y)
         /\ SkeletonWord("sub", x, y, z, k) = Sub(x, y)
         /\ SkeletonWord("mul", x, y, z, k) = Mul(x, y)
         /\ SkeletonWord("div", x, y, z, k) = Div(x, y)
         /\ SkeletonWord("mod", x, y, z, k) = Mod(x, y)
         /\ SkeletonWord("neg", x, y, z, k) = Neg(x)
         /\ SkeletonWord("not", x, y, z, k) = Neg(x)
         /\ SkeletonWord("and", x, y, z, k) = TritwiseOp(x, y, TritMin)
         /\ SkeletonWord("or", x, y, z, k) = TritwiseOp(x, y, TritMax)
         /\ SkeletonWord("xor", x, y, z, k) = TritwiseOp(x, y, TritXor)
         /\ SkeletonWord("shl", x, y, z, k) = ShiftLeft(x, k)
         /\ SkeletonWord("shr", x, y, z, k) = ShiftRight(x, k)
         /\ SkeletonWord("rol", x, y, z, k) = RotateLeft(x, k)
         /\ SkeletonWord("ror", x, y, z, k) = RotateRight(x, k)
         /\ SkeletonWord("tb2t", x, y, z, k) = Encode(k)
         /\ SkeletonWord("tmaj", x, y, z, k) = Majority(x, y, z)
         /\ SkeletonWord("tlimp", x, y, z, k) = Implication(x, y)
         /\ SkeletonWord("tnot", x, y, z, k) = Not(x)
         /\ SkeletonWord("tmuladd", x, y, z, k) = MulAdd(x, y, z)
         /\ SkeletonWord("tnormalize", x, y, z, k) = Normalize(x)
         /\ SkeletonWord("tbias", x, y, z, k) = Bias(x, k)
<1>1. /\ Skeleton!Decode(BitsOf(x)) = Decode(x) /\ Skeleton!Decode(BitsOf(y)) = Decode(y)
      /\ Skeleton!Decode(BitsOf(z)) = Decode(z)
  BY DecodeAgrees
<1>2. Decode(x) \in Int /\ Decode(y) \in Int /\ Decode(z) \in Int
  BY DecodeType, MaxIntAssumption DEF CInteger, MinInt
<1>3. \A v \in Int : WordOf(Skeleton!Encode(v)) = Encode(v)
  BY EncodeAgrees
<1>4. /\ Wrap(Decode(x) + Decode(y)) \in Int /\ Wrap(Decode(x) - Decode(y)) \in Int
      /\ Wrap(Decode(x) * Decode(y)) \in Int /\ Wrap(-Decode(x)) \in Int
      /\ Wrap(CDiv(Decode(x), Decode(y))) \in Int /\ CMod(Decode(x), Decode(y)) \in Int
      /\ Wrap(Wrap(Decode(x) * Decode(y)) + Decode(z)) \in Int
      /\ Wrap(Decode(x) + k) \in Int
  BY <1>2, ArithmeticType
<1>5. /\ \A a : Skeleton!Wrap(a) = Wrap(a)
      /\ \A a, b : Skeleton!Quotient(a, b) = CDiv(a, b) /\ Skeleton!Remainder(a, b) = CMod(a, b)
  BY QuotientsAgree DEF SameQuotients
<1>a. /\ SkeletonWord("add", x, y, z, k) = Add(x, y)
      /\ SkeletonWord("sub", x, y, z, k) = Sub(x, y)
      /\ SkeletonWord("mul", x, y, z, k) = Mul(x, y)
      /\ SkeletonWord("div", x, y, z, k) = Div(x, y)
      /\ SkeletonWord("mod", x, y, z, k) = Mod(x, y)
      /\ SkeletonWord("neg", x, y, z, k) = Neg(x)
      /\ SkeletonWord("not", x, y, z, k) = Neg(x)
      /\ SkeletonWord("tb2t", x, y, z, k) = Encode(k)
  BY <1>1, <1>3, <1>4, <1>5
  DEF SkeletonWord, Skeleton!WordResult, Skeleton!TypedResult, Skeleton!IsaOps, Add, Sub, Mul, Div, Mod, Neg
<1>b. /\ SkeletonWord("and", x, y, z, k) = TritwiseOp(x, y, TritMin)
      /\ SkeletonWord("or", x, y, z, k) = TritwiseOp(x, y, TritMax)
      /\ SkeletonWord("xor", x, y, z, k) = TritwiseOp(x, y, TritXor)
      /\ SkeletonWord("shl", x, y, z, k) = ShiftLeft(x, k)
      /\ SkeletonWord("shr", x, y, z, k) = ShiftRight(x, k)
      /\ SkeletonWord("rol", x, y, z, k) = RotateLeft(x, k)
      /\ SkeletonWord("ror", x, y, z, k) = RotateRight(x, k)
  BY TritwiseAgree, ShiftsAgree
  DEF SkeletonWord, Skeleton!WordResult, Skeleton!TypedResult, Skeleton!IsaOps
<1>c. /\ SkeletonWord("tmaj", x, y, z, k) = Majority(x, y, z)
      /\ SkeletonWord("tlimp", x, y, z, k) = Implication(x, y)
      /\ SkeletonWord("tnot", x, y, z, k) = Not(x)
      /\ SkeletonWord("tnormalize", x, y, z, k) = Normalize(x)
  BY TritwiseAgree, NormalizeAgrees
  DEF SkeletonWord, Skeleton!WordResult, Skeleton!IsaResult, Skeleton!IsaOps
<1>d. /\ SkeletonWord("tmuladd", x, y, z, k) = MulAdd(x, y, z)
      /\ SkeletonWord("tbias", x, y, z, k) = Bias(x, k)
  BY <1>1, <1>3, <1>4, <1>5
  DEF SkeletonWord, Skeleton!WordResult, Skeleton!IsaResult, Skeleton!IsaOps, Skeleton!MulAdd,
      Skeleton!Bias, MulAdd, Bias
<1> QED
  BY <1>a, <1>b, <1>c, <1>d

(* So does the header, but for its exclusive or. *)
LEMMA HeaderComputes ==
  ASSUME NEW x \in Word, NEW y \in Word, NEW z \in Word, NEW k \in Int
  PROVE  /\ HeaderWord("add", x, y, z, k) = Add(x, y)
         /\ HeaderWord("sub", x, y, z, k) = Sub(x, y)
         /\ HeaderWord("mul", x, y, z, k) = Mul(x, y)
         /\ HeaderWord("div", x, y, z, k) = Div(x, y)
         /\ HeaderWord("mod", x, y, z, k) = Mod(x, y)
         /\ HeaderWord("neg", x, y, z, k) = Neg(x)
         /\ HeaderWord("not", x, y, z, k) = Neg(x)
         /\ HeaderWord("and", x, y, z, k) = TritwiseOp(x, y, TritMin)
         /\ HeaderWord("or", x, y, z, k) = TritwiseOp(x, y, TritMax)
         /\ HeaderWord("shl", x, y, z, k) = ShiftLeft(x, k)
         /\ HeaderWord("shr", x, y, z, k) = ShiftRight(x, k)
         /\ HeaderWord("rol", x, y, z, k) = RotateLeft(x, k)
         /\ HeaderWord("ror", x, y, z, k) = RotateRight(x, k)
         /\ HeaderWord("tb2t", x, y, z, k) = Encode(k)
<1>1. Header!Decode(BitsOf(x)) = Decode(x) /\ Header!Decode(BitsOf(y)) = Decode(y)
  BY DecodeAgrees, SameLoops
<1>2. Decode(x) \in Int /\ Decode(y) \in Int
  BY DecodeType, MaxIntAssumption DEF CInteger, MinInt
<1>3. \A v \in Int : WordOf(Header!Encode(v)) = Encode(v)
  BY EncodeAgrees, SameLoops
<1>4. /\ Wrap(Decode(x) + Decode(y)) \in Int /\ Wrap(Decode(x) - Decode(y)) \in Int
      /\ Wrap(Decode(x) * Decode(y)) \in Int /\ Wrap(-Decode(x)) \in Int
      /\ Wrap(CDiv(Decode(x), Decode(y))) \in Int /\ CMod(Decode(x), Decode(y)) \in Int
  BY <1>2, ArithmeticType
<1>5. /\ \A a : Header!Wrap(a) = Wrap(a)
      /\ \A a, b : Header!Quotient(a, b) = CDiv(a, b) /\ Header!Remainder(a, b) = CMod(a, b)
  BY QuotientsAgree DEF SameQuotients
<1>a. /\ HeaderWord("add", x, y, z, k) = Add(x, y)
      /\ HeaderWord("sub", x, y, z, k) = Sub(x, y)
      /\ HeaderWord("mul", x, y, z, k) = Mul(x, y)
      /\ HeaderWord("div", x, y, z, k) = Div(x, y)
      /\ HeaderWord("mod", x, y, z, k) = Mod(x, y)
      /\ HeaderWord("neg", x, y, z, k) = Neg(x)
      /\ HeaderWord("not", x, y, z, k) = Neg(x)
      /\ HeaderWord("tb2t", x, y, z, k) = Encode(k)
  BY <1>1, <1>3, <1>4, <1>5
  DEF HeaderWord, Header!TypedResult, Add, Sub, Mul, Div, Mod, Neg
<1>b. /\ HeaderWord("and", x, y, z, k) = TritwiseOp(x, y, TritMin)
      /\ HeaderWord("or", x, y, z, k) = TritwiseOp(x, y, TritMax)
      /\ HeaderWord("shl", x, y, z, k) = ShiftLeft(x, k)
      /\ HeaderWord("shr", x, y, z, k) = ShiftRight(x, k)
      /\ HeaderWord("rol", x, y, z, k) = RotateLeft(x, k)
      /\ HeaderWord("ror", x, y, z, k) = RotateRight(x, k)
  BY TritwiseAgree, ShiftsAgree, SameHelpers DEF HeaderWord, Header!TypedResult
<1> QED
  BY <1>a, <1>b

(* The comparison and the conversion to an integer are the runtime's.      *)
LEMMA ScalarsCompute ==
  ASSUME NEW x \in Word, NEW y \in Word
  PROVE  /\ SkeletonScalar("cmp", x, y) = Cmp(x, y)
         /\ HeaderScalar("cmp", x, y) = Cmp(x, y)
         /\ SkeletonScalar("tt2b", x, y) = Decode(x)
         /\ HeaderScalar("tt2b", x, y) = Decode(x)
<1>1. /\ Skeleton!Decode(BitsOf(x)) = Decode(x) /\ Skeleton!Decode(BitsOf(y)) = Decode(y)
      /\ Header!Decode(BitsOf(x)) = Decode(x) /\ Header!Decode(BitsOf(y)) = Decode(y)
  BY DecodeAgrees, SameLoops
<1>2. SkeletonScalar("cmp", x, y) = Cmp(x, y) /\ SkeletonScalar("tt2b", x, y) = Decode(x)
  BY <1>1 DEF SkeletonScalar, Skeleton!ScalarResult, Skeleton!Compare, Cmp
<1>3. HeaderScalar("cmp", x, y) = Cmp(x, y) /\ HeaderScalar("tt2b", x, y) = Decode(x)
  BY <1>1 DEF HeaderScalar, Header!ScalarResult, Header!Compare, Cmp
<1> QED
  BY <1>2, <1>3

-----------------------------------------------------------------------------
(* The helpers on C integers. *)

(* Powers of 3 grow. *)
LEMMA SmallerPower ==
  ASSUME NEW n \in Nat, NEW i \in 0 .. n
  PROVE  Pow3[i] \in Nat \ {0} /\ Pow3[i] <= Pow3[n]
<1>1. i \in Nat /\ n - i \in Nat /\ i + (n - i) = n
  OBVIOUS
<1>2. Pow3[i] \in Nat \ {0} /\ Pow3[n - i] \in Nat \ {0}
  BY <1>1, Pow3Facts
<1>3. Pow3[n] = Pow3[i] * Pow3[n - i]
  BY <1>1, Pow3Sum
<1>4. \A p \in Nat \ {0}, q \in Nat \ {0} : p <= p * q
  OBVIOUS
<1> QED
  BY <1>2, <1>3, <1>4

(* The shifts' loop computes the power of 3, as long as it fits an int64_t. *)
LEMMA ShiftPowerIs ==
  ASSUME NEW shift \in Int, shift > 0 => Pow3[shift] <= MaxInt
  PROVE  ShiftPower(shift) = Pow3[IF shift > 0 THEN shift ELSE 0]
<1>1. CASE ~(shift > 0)
  BY <1>1, Pow3Facts DEF ShiftPower
<1>2. CASE shift > 0
  <2> DEFINE F(h) == [i \in 0 .. shift |-> IF i = 0 THEN 1 ELSE Wrap(h[i - 1] * 3)]
             pow3 == CHOOSE h : h = F(h)
             e == [i \in 0 .. shift |-> Pow3[i]]
  <2>1. shift \in Nat /\ ~(shift <= 0)
    BY <1>2
  <2>2. ShiftPower(shift) = pow3[shift]
    BY <2>1 DEF ShiftPower
  <2>3. ASSUME NEW i \in 0 .. shift, i # 0 PROVE Wrap(Pow3[i - 1] * 3) = Pow3[i]
    <3>1. i - 1 \in Nat /\ (i - 1) + 1 = i
      BY <2>1, <2>3
    <3>2. Pow3[i] = 3 * Pow3[i - 1] /\ Pow3[i - 1] \in Nat
      BY <3>1, Pow3Facts
    <3>3. Pow3[i] \in Nat /\ Pow3[i] <= Pow3[shift] /\ Pow3[shift] \in Nat
      BY <2>1, SmallerPower, Pow3Facts
    <3>4. Pow3[i] \in CInteger
      BY <1>2, <3>3, MaxIntAssumption DEF CInteger, MinInt
    <3> QED
      BY <3>2, <3>4, WrapIdentity
  <2>4. e = F(e)
    <3>1. \A i \in 0 .. shift : i # 0 => i - 1 \in 0 .. shift
      BY <2>1
    <3>2. \A i \in 0 .. shift : e[i] = IF i = 0 THEN 1 ELSE Wrap(e[i - 1] * 3)
      BY <2>3, <3>1, Pow3Facts
    <3> QED
      BY <3>2
  <2>5. pow3 = F(pow3)
    <3> HIDE DEF F, e
    <3> QED BY <2>4
  <2> HIDE DEF pow3, e
  <2> DEFINE S == {i \in Nat : i <= shift => pow3[i] = e[i]}
  <2>6. 0 \in S
    BY <2>1, <2>4, <2>5
  <2>7. ASSUME NEW i \in Nat, i \in S PROVE i + 1 \in S
    <3> SUFFICES ASSUME i + 1 <= shift PROVE pow3[i + 1] = e[i + 1]
      OBVIOUS
    <3>1. i + 1 \in 0 .. shift /\ i + 1 # 0 /\ (i + 1) - 1 = i /\ i <= shift
      BY <2>1
    <3>2. pow3[i] = e[i]
      BY <2>7, <3>1
    <3>3. F(pow3)[i + 1] = F(e)[i + 1]
      BY <3>1, <3>2
    <3> HIDE DEF F
    <3> QED
      BY <3>3, <2>4, <2>5
  <2> HIDE DEF S
  <2>8. \A i \in Nat : i \in S
    BY <2>6, <2>7, SetInduction
  <2>9. pow3[shift] = Pow3[shift]
    <3>1. pow3[shift] = e[shift]
      BY <2>1, <2>8 DEF S
    <3>2. shift \in 0 .. shift
      BY <2>1
    <3> QED
      BY <3>1, <3>2 DEF e
  <2> QED
    BY <1>2, <2>2, <2>9
<1> QED
  BY <1>1, <1>2
=============================================================================
