--------------------------- MODULE TritWordProofs ---------------------------
(***************************************************************************)
(* Facts about the packed words of TritWord, for every trit count and      *)
(* every container width.  What the helpers return is a word without the   *)
(* reserved code.  The trits of a word are the digits of its value; encode *)
(* reduces a value to the range of a word, decode returns it up to a       *)
(* multiple of the container, although its running power of three may have *)
(* wrapped.  An integer decoded survives being encoded and decoded again.  *)
(***************************************************************************)
EXTENDS TritWord, BaseProofs

CanonicalWord == [Idx -> 0 .. 2]

LEMMA CanonicalWordIs ==
  \A w : w \in CanonicalWord <=> w \in Word /\ Canonical(w)
  BY DEF CanonicalWord, Word, Canonical, Code

LEMMA TritToBitsRange == \A t : TritToBits(t) \in 0 .. 2
  BY DEF TritToBits

LEMMA TritRange == \A w, i : GetTrit(w, i) \in Trit
  BY DEF GetTrit, BitsToTrit, Trit

(* What goes through int64_t is packed by Encode. *)
LEMMA EncodeCanonical == \A v : Encode(v) \in CanonicalWord
  BY TritToBitsRange, Zenon DEF Encode, FromTrits, CanonicalWord

(* The helpers that write their result trit by trit. *)
LEMMA TritwiseCanonical ==
  /\ \A a, b : TritwiseOp(a, b, TritMin) \in CanonicalWord
  /\ \A a, b : TritwiseOp(a, b, TritMax) \in CanonicalWord
  /\ \A a, b : TritwiseOp(a, b, TritXor) \in CanonicalWord
  /\ \A a, b : Implication(a, b) \in CanonicalWord
  /\ \A a, b, c : Majority(a, b, c) \in CanonicalWord
  /\ \A a : Not(a) \in CanonicalWord
  /\ \A q : Quantize(q) \in CanonicalWord
  BY TritToBitsRange, Zenon
  DEF TritwiseOp, Implication, Majority, Not, Quantize, FromTrits, CanonicalWord

LEMMA ShiftCanonical ==
  /\ \A a, k : ShiftLeft(a, k) \in CanonicalWord
  /\ \A a, k : ShiftRight(a, k) \in CanonicalWord
  /\ \A a, k : RotateLeft(a, k) \in CanonicalWord
  /\ \A a, k : RotateRight(a, k) \in CanonicalWord
  BY TritToBitsRange, Zenon
  DEF ShiftLeft, ShiftRight, RotateLeft, RotateRight, FromTrits, CanonicalWord

LEMMA RoundCanonical == \A a, k : Round(a, k) \in CanonicalWord
<1>1. PackedZero \in CanonicalWord
  BY DEF PackedZero, CanonicalWord
<1> QED
  BY <1>1, EncodeCanonical, Zenon DEF Round

LEMMA NormalizeCanonical ==
  ASSUME NEW w \in Word
  PROVE  Normalize(w) \in CanonicalWord
  BY DEF Word, Code, Normalize, CanonicalWord

-----------------------------------------------------------------------------
(* The loop of ternary_decode: its states are int64_t pairs that obey the  *)
(* loop's equations, and Decode is the last one's value.                   *)
LEMMA DecodeRun ==
  ASSUME NEW w
  PROVE  \E g \in [0 .. Trits -> [value : CInteger, pow3 : CInteger]] :
           /\ Decode(w) = g[Trits].value
           /\ g[0] = [value |-> 0, pow3 |-> 1]
           /\ \A i \in 1 .. Trits :
                g[i] = [value |-> Wrap(g[i - 1].value + Wrap(GetTrit(w, i - 1) * g[i - 1].pow3)),
                        pow3  |-> Wrap(g[i - 1].pow3 * 3)]
<1> DEFINE A == [value : CInteger, pow3 : CInteger]
           a == [value |-> 0, pow3 |-> 1]
           Next(r, i) == [value |-> Wrap(r.value + Wrap(GetTrit(w, i - 1) * r.pow3)),
                          pow3  |-> Wrap(r.pow3 * 3)]
           step == [p \in A \X Nat |-> Next(p[1], p[2])]
           F(h) == [i \in 0 .. Trits |-> IF i = 0 THEN a ELSE Next(h[i - 1], i)]
           run == CHOOSE h : h = F(h)
<1>1. Decode(w) = run[Trits].value
  BY DEF Decode
<1>2. a \in A
  BY MaxIntAssumption DEF CInteger, MinInt
<1>3. ASSUME NEW r \in A, NEW i \in Nat PROVE Next(r, i) \in A
  <2>1. /\ GetTrit(w, i - 1) \in Int /\ r.value \in Int /\ r.pow3 \in Int
    BY TritRange, MaxIntAssumption DEF Trit, CInteger, MinInt
  <2>2. Wrap(GetTrit(w, i - 1) * r.pow3) \in Int
    BY <2>1, WrapType, MaxIntAssumption DEF CInteger, MinInt
  <2> QED
    BY <2>1, <2>2, WrapType
<1>4. step \in [A \X Nat -> A]
  BY <1>3
<1>5. Trits \in Nat /\ \A i \in 1 .. Trits : i - 1 \in 0 .. Trits /\ i \in Nat
  BY TritsAssumption
<1>6. PICK g \in [0 .. Trits -> A] : IsLoop(g, a, step, Trits)
  <2> HIDE DEF A, a, step
  <2> QED BY <1>2, <1>4, <1>5, LoopExists
<1>7. g = F(g)
  <2>1. ASSUME NEW i \in 0 .. Trits, i # 0 PROVE step[<<g[i - 1], i>>] = Next(g[i - 1], i)
    <3>1. <<g[i - 1], i>> \in A \X Nat
      BY <2>1, <1>5
    <3> QED
      BY <3>1
  <2> HIDE DEF A, a, step, Next
  <2> QED
    BY <1>6, <2>1 DEF IsLoop
<1>8. run = F(run)
  <2> HIDE DEF F
  <2> QED BY <1>7
<1> HIDE DEF run
<1>9. /\ run[0] = a /\ DOMAIN run = 0 .. Trits
      /\ \A i \in 1 .. Trits : run[i] = Next(run[i - 1], i)
  <2> HIDE DEF a, Next
  <2> QED BY <1>8, <1>5
<1>10. \A i \in 0 .. Trits : run[i] \in A
  <2> DEFINE S == {n \in Nat : n <= Trits => run[n] \in A}
  <2>1. 0 \in S
    BY <1>9, <1>2
  <2>2. ASSUME NEW n \in Nat, n \in S PROVE n + 1 \in S
    <3> SUFFICES ASSUME n + 1 <= Trits PROVE run[n + 1] \in A
      OBVIOUS
    <3>1. run[n] \in A /\ n = (n + 1) - 1 /\ n + 1 \in 1 .. Trits
      BY <2>2, <1>5
    <3> HIDE DEF A, Next
    <3> QED
      BY <3>1, <1>9, <1>3
  <2> HIDE DEF S
  <2>3. \A n \in Nat : n \in S
    BY <2>1, <2>2, SetInduction
  <2> QED
    BY <2>3, <1>5 DEF S
<1>11. run \in [0 .. Trits -> A]
  <2> HIDE DEF A
  <2>1. run = [i \in 0 .. Trits |-> run[i]]
    BY <1>8
  <2> QED BY <2>1, <1>10
<1> QED
  BY <1>1, <1>9, <1>11 DEF run

LEMMA DecodeType == \A w : Decode(w) \in CInteger
  BY DecodeRun, TritsAssumption

LEMMA CmpType == \A a, b : Cmp(a, b) \in -1 .. 1
  BY DEF Cmp

-----------------------------------------------------------------------------
(* Containers of 2-bit codes: e[i] is the container of the first i codes d. *)
IsPacking(e, d, N) ==
  e[0] = 0 /\ \A i \in 1 .. N : e[i] = e[i - 1] + d[i - 1] * Pow4[i - 1]

(* The codes of a packing are those packed, and 0 above them. *)
LEMMA PackingCodes ==
  ASSUME NEW N \in Nat, NEW d, \A i \in 0 .. N - 1 : d[i] \in 0 .. 3,
         NEW e, IsPacking(e, d, N)
  PROVE  /\ e[N] \in 0 .. Pow4[N] - 1
         /\ \A i \in 0 .. N - 1 : CodeAt(e[N], i) = d[i]
         /\ \A i \in Nat : i >= N => CodeAt(e[N], i) = 0
<1>1. 4 \in Radix /\ Weights(Pow4, 4) /\ IsSum(e, d, Pow4, N) /\ DigitsBelow(d, N, 4)
  BY PowersWeigh DEF Radix, IsSum, IsPacking, DigitsBelow
<1> QED
  BY <1>1, SumDigits DEF CodeAt

(* The code after the last one is 0. *)
CodesBelow(d, N) == \A i \in 0 .. N - 1 : d[i] \in 0 .. 3
(* Above the codes packed a container is 0. *)
LEMMA PackingAbove ==
  ASSUME NEW N \in Nat, NEW d, NEW e, CodesBelow(d, N), IsPacking(e, d, N)
  PROVE  CodeAt(e[N], N) = 0
<1>1. \A i \in 0 .. N - 1 : d[i] \in 0 .. 3
  BY DEF CodesBelow
<1>2. N >= N
  OBVIOUS
<1>3. \A i \in Nat : i >= N => CodeAt(e[N], i) = 0
  BY <1>1, PackingCodes
<1> QED
  BY <1>2, <1>3

(* Every sequence of codes has a container. *)
LEMMA PackingExists ==
  ASSUME NEW N \in Nat, NEW d, \A i \in 0 .. N - 1 : d[i] \in Nat
  PROVE  \E e : SumStates(e, d, Pow4, N) /\ IsPacking(e, d, N)
<1>1. IntegersBelow(d, N) /\ Weights(Pow4, 4)
  BY PowersWeigh DEF IntegersBelow
<1>2. PICK e : SumStates(e, d, Pow4, N)
  BY <1>1, SumExists
<1>3. IsSum(e, d, Pow4, N)
  BY <1>2, SumStatesAdd
<1> QED
  BY <1>2, <1>3 DEF IsSum, IsPacking

(* The container of a word: its codes are those of the word. *)
LEMMA BitsOfPacks ==
  ASSUME NEW w \in Word
  PROVE  \E e : IsPacking(e, w, Trits) /\ BitsOf(w) = e[Trits]
<1> DEFINE F(f) == [i \in 0 .. Trits |-> IF i = 0 THEN 0 ELSE f[i - 1] + w[i - 1] * Pow4[i - 1]]
           sum == CHOOSE f : f = F(f)
<1>1. BitsOf(w) = sum[Trits]
  BY DEF BitsOf
<1>2. Trits \in Nat /\ \A i \in 0 .. Trits - 1 : w[i] \in Nat
  BY TritsAssumption DEF Word, Idx, Code
<1>3. PICK e : SumStates(e, w, Pow4, Trits)
  BY <1>2, PackingExists
<1>4. sum = F(sum)
  <2>1. e = F(e)
    BY <1>3 DEF SumStates
  <2> HIDE DEF F
  <2> QED BY <2>1
<1> HIDE DEF sum
<1>5. \A i \in 0 .. Trits : sum[i] = IF i = 0 THEN 0 ELSE sum[i - 1] + w[i - 1] * Pow4[i - 1]
  BY <1>4
<1>6. 0 \in 0 .. Trits /\ \A i \in 1 .. Trits : i \in 0 .. Trits /\ i # 0
  BY <1>2
<1> QED
  BY <1>1, <1>5, <1>6 DEF IsPacking

(* A word is read back from its container. *)
LEMMA WordCodes ==
  ASSUME NEW w \in Word
  PROVE  /\ BitsOf(w) \in 0 .. Pow4[Trits] - 1
         /\ \A i \in Idx : CodeAt(BitsOf(w), i) = w[i]
         /\ WordOf(BitsOf(w)) = w
<1>1. PICK e : IsPacking(e, w, Trits) /\ BitsOf(w) = e[Trits]
  BY BitsOfPacks
<1>2. Trits \in Nat /\ \A i \in 0 .. Trits - 1 : w[i] \in 0 .. 3
  BY TritsAssumption DEF Word, Idx, Code
<1>3. BitsOf(w) \in 0 .. Pow4[Trits] - 1 /\ \A i \in Idx : CodeAt(BitsOf(w), i) = w[i]
  BY <1>1, <1>2, PackingCodes DEF Idx
<1>4. WordOf(BitsOf(w)) = [i \in Idx |-> w[i]]
  BY <1>3 DEF WordOf
<1> QED
  BY <1>3, <1>4 DEF Word

-----------------------------------------------------------------------------
(* Numbers of balanced trits: n of them make -Half3(n) .. Half3(n), and    *)
(* with each trit counted from 0 they are numbers in base 3.               *)
Half3(n) == (Pow3[n] - 1) \div 2
Values == -Half3(Trits) .. Half3(Trits)
Reduced(x) == ((x + Half3(Trits)) % Pow3[Trits]) - Half3(Trits)
TritAt(v, i) == (((v + Half3(Trits)) \div Pow3[i]) % 3) - 1

(* Half3(n) is the greatest value of n trits. *)
LEMMA Half3Facts ==
  /\ Half3(0) = 0
  /\ \A n \in Nat : /\ Half3(n) \in Nat /\ Pow3[n] = 2 * Half3(n) + 1
                    /\ Half3(n + 1) = 3 * Half3(n) + 1
<1> DEFINE S == {n \in Nat : \E h \in Nat : Pow3[n] = 2 * h + 1}
<1>1. 0 \in S
  <2>1. Pow3[0] = 2 * 0 + 1
    BY Pow3Facts
  <2> QED
    BY <2>1
<1>2. ASSUME NEW n \in Nat, n \in S PROVE n + 1 \in S
  <2>1. PICK h \in Nat : Pow3[n] = 2 * h + 1
    BY <1>2
  <2> DEFINE k == 3 * h + 1
  <2>2. Pow3[n + 1] = 2 * k + 1 /\ k \in Nat
    BY <2>1, Pow3Facts
  <2> HIDE DEF k
  <2> QED
    BY <2>2
<1> HIDE DEF S
<1>3. \A n \in Nat : n \in S
  BY <1>1, <1>2, SetInduction
<1>4. ASSUME NEW n \in Nat
      PROVE  Half3(n) \in Nat /\ Pow3[n] = 2 * Half3(n) + 1
  <2>1. PICK h \in Nat : Pow3[n] = 2 * h + 1
    BY <1>3 DEF S
  <2>2. Half3(n) = h
    BY <2>1 DEF Half3
  <2> QED
    BY <2>1, <2>2
<1>5. ASSUME NEW n \in Nat PROVE Half3(n + 1) = 3 * Half3(n) + 1
  <2>1. Half3(n) \in Nat /\ Pow3[n] = 2 * Half3(n) + 1
    BY <1>4
  <2>2. Half3(n + 1) \in Nat /\ Pow3[n + 1] = 2 * Half3(n + 1) + 1
    BY <1>4
  <2> DEFINE a == Half3(n)
             b == Half3(n + 1)
  <2>3. a \in Nat /\ b \in Nat /\ 2 * b + 1 = 3 * (2 * a + 1)
    BY <2>1, <2>2, Pow3Facts, Zenon
  <2> HIDE DEF a, b
  <2>4. b = 3 * a + 1
    BY <2>3
  <2> QED
    BY <2>4 DEF a, b
<1>6. Half3(0) = 0
  BY Pow3Facts DEF Half3
<1> QED
  BY <1>4, <1>5, <1>6

TritsBelow(d, N) == \A i \in 0 .. N - 1 : d[i] \in Trit
Biased(g, N) == [i \in 0 .. N |-> g[i] + Half3(i)]
FromZero(d, N) == [i \in 0 .. N - 1 |-> d[i] + 1]

(* Trits raised by one are digits to the base 3. *)
LEMMA BiasedSum ==
  ASSUME NEW N \in Nat, NEW d, TritsBelow(d, N), NEW g, IsSum(g, d, Pow3, N)
  PROVE  /\ IntegersBelow(d, N) /\ DigitsBelow(FromZero(d, N), N, 3)
         /\ IsSum(Biased(g, N), FromZero(d, N), Pow3, N)
<1>1. IntegersBelow(d, N) /\ DigitsBelow(FromZero(d, N), N, 3)
  BY DEF TritsBelow, Trit, IntegersBelow, DigitsBelow, FromZero
<1>2. \A i \in 0 .. N : g[i] \in Int
  BY <1>1, PowersWeigh, SumType
<1>3. Biased(g, N)[0] = 0
  <2>1. 0 \in 0 .. N /\ g[0] = 0 /\ Half3(0) = 0
    BY Half3Facts DEF IsSum
  <2>2. Biased(g, N)[0] = g[0] + Half3(0)
    BY <2>1 DEF Biased
  <2> QED
    BY <2>1, <2>2
<1>4. ASSUME NEW i \in 1 .. N
      PROVE  Biased(g, N)[i] = Biased(g, N)[i - 1] + FromZero(d, N)[i - 1] * Pow3[i - 1]
  <2> DEFINE j == i - 1
  <2>1. j \in Nat /\ j \in 0 .. N /\ j \in 0 .. N - 1 /\ i = j + 1 /\ i \in 0 .. N
    OBVIOUS
  <2> HIDE DEF j
  <2>2. g[i] = g[j] + d[j] * Pow3[j]
    BY DEF IsSum, j
  <2>3. d[j] = -1 \/ d[j] = 0 \/ d[j] = 1
    BY <2>1 DEF TritsBelow, Trit
  <2>4. Half3(i) = 3 * Half3(j) + 1 /\ Pow3[j] = 2 * Half3(j) + 1 /\ Half3(j) \in Nat
    BY <2>1, Half3Facts
  <2>5. g[i] + Half3(i) = (g[j] + Half3(j)) + (d[j] + 1) * Pow3[j]
    BY <1>2, <2>1, <2>2, <2>3, <2>4
  <2>6. /\ Biased(g, N)[i] = g[i] + Half3(i) /\ Biased(g, N)[j] = g[j] + Half3(j)
        /\ FromZero(d, N)[j] = d[j] + 1
    BY <2>1 DEF Biased, FromZero
  <2>7. Biased(g, N)[i] = Biased(g, N)[j] + FromZero(d, N)[j] * Pow3[j]
    BY <2>5, <2>6
  <2> QED
    BY <2>7 DEF j
<1>5. IsSum(Biased(g, N), FromZero(d, N), Pow3, N)
  BY <1>3, <1>4 DEF IsSum
<1> QED
  BY <1>1, <1>5

(* The sum of the first i trits, weighed, lies in the range of i trits. *)
LEMMA TritSumRange ==
  ASSUME NEW N \in Nat, NEW d, TritsBelow(d, N), NEW g, IsSum(g, d, Pow3, N)
  PROVE  \A i \in 0 .. N : g[i] \in -Half3(i) .. Half3(i)
<1>1. \A i \in 0 .. N : Biased(g, N)[i] \in 0 .. Pow3[i] - 1
  BY BiasedSum, PowersWeigh, SumRange DEF Radix
<1>2. \A i \in 0 .. N : g[i] \in Int
  BY BiasedSum, PowersWeigh, SumType
<1>3. ASSUME NEW i \in 0 .. N PROVE g[i] \in -Half3(i) .. Half3(i)
  <2>1. i \in Nat /\ g[i] \in Int /\ g[i] + Half3(i) \in 0 .. Pow3[i] - 1
    BY <1>1, <1>2 DEF Biased
  <2>2. Pow3[i] = 2 * Half3(i) + 1 /\ Half3(i) \in Nat
    BY <2>1, Half3Facts
  <2> QED
    BY <2>1, <2>2
<1> QED
  BY <1>3

(* The trits of such a sum are the ones summed. *)
LEMMA TritSumDigits ==
  ASSUME NEW d, TritsBelow(d, Trits), NEW g, IsSum(g, d, Pow3, Trits)
  PROVE  \A i \in Idx : TritAt(g[Trits], i) = d[i]
<1>1. Trits \in Nat /\ Trits \in 0 .. Trits /\ 3 \in Radix
  BY TritsAssumption DEF Radix
<1>2. \A i \in 0 .. Trits - 1 :
        (Biased(g, Trits)[Trits] \div Pow3[i]) % 3 = FromZero(d, Trits)[i]
  BY <1>1, BiasedSum, PowersWeigh, SumDigits
<1>3. Biased(g, Trits)[Trits] = g[Trits] + Half3(Trits)
  BY <1>1 DEF Biased
<1>4. ASSUME NEW i \in Idx PROVE TritAt(g[Trits], i) = d[i]
  <2>1. i \in 0 .. Trits - 1 /\ d[i] \in Int /\ FromZero(d, Trits)[i] = d[i] + 1
    BY DEF Idx, TritsBelow, Trit, FromZero
  <2>2. ((g[Trits] + Half3(Trits)) \div Pow3[i]) % 3 = d[i] + 1
    BY <1>2, <1>3, <2>1
  <2> QED
    BY <2>1, <2>2 DEF TritAt
<1> QED
  BY <1>4
-----------------------------------------------------------------------------
(* The integer a word stands for. *)
TritsOf(w) == [i \in Idx |-> GetTrit(w, i)]

LEMMA TritsOfRange == \A w : TritsBelow(TritsOf(w), Trits)
  BY TritRange DEF TritsBelow, TritsOf, Idx

(* The value of a word is the sum of its trits times powers of 3. *)
LEMMA ValueSum ==
  ASSUME NEW w
  PROVE  \E g : IsSum(g, TritsOf(w), Pow3, Trits) /\ DecodeUnbounded(w) = g[Trits]
<1> DEFINE F(f) == [i \in 0 .. Trits |->
                      IF i = 0 THEN 0 ELSE f[i - 1] + GetTrit(w, i - 1) * Pow3[i - 1]]
           sum == CHOOSE f : f = F(f)
<1>1. DecodeUnbounded(w) = sum[Trits]
  BY DEF DecodeUnbounded
<1>2. Trits \in Nat /\ IntegersBelow(TritsOf(w), Trits)
  BY TritsAssumption, TritsOfRange DEF IntegersBelow, TritsBelow, Trit
<1>3. PICK e : SumStates(e, TritsOf(w), Pow3, Trits)
  BY <1>2, PowersWeigh, SumExists
<1>4. \A i \in 0 .. Trits : i # 0 => TritsOf(w)[i - 1] = GetTrit(w, i - 1)
  BY <1>2 DEF TritsOf, Idx
<1>5. e = F(e)
  <2>1. /\ e = [i \in 0 .. Trits |-> e[i]]
        /\ \A i \in 0 .. Trits :
             e[i] = IF i = 0 THEN 0 ELSE e[i - 1] + TritsOf(w)[i - 1] * Pow3[i - 1]
    BY <1>3 DEF SumStates
  <2>2. \A i \in 0 .. Trits :
          e[i] = IF i = 0 THEN 0 ELSE e[i - 1] + GetTrit(w, i - 1) * Pow3[i - 1]
    BY <1>4, <2>1
  <2> QED
    BY <2>1, <2>2
<1>6. sum = F(sum)
  <2> HIDE DEF F
  <2> QED BY <1>5
<1> HIDE DEF sum
<1>7. \A i \in 0 .. Trits :
        sum[i] = IF i = 0 THEN 0 ELSE sum[i - 1] + GetTrit(w, i - 1) * Pow3[i - 1]
  BY <1>6
<1>8. 0 \in 0 .. Trits /\ \A i \in 1 .. Trits : i \in 0 .. Trits /\ i # 0
  BY <1>2
<1>9. IsSum(sum, TritsOf(w), Pow3, Trits)
  BY <1>4, <1>7, <1>8 DEF IsSum
<1> QED
  BY <1>1, <1>9

(* It lies in the range of a word. *)
LEMMA ValueRange == \A w : DecodeUnbounded(w) \in Values
<1> TAKE w
<1>1. PICK g : IsSum(g, TritsOf(w), Pow3, Trits) /\ DecodeUnbounded(w) = g[Trits]
  BY ValueSum
<1>2. Trits \in Nat /\ Trits \in 0 .. Trits
  BY TritsAssumption
<1>3. \A i \in 0 .. Trits : g[i] \in -Half3(i) .. Half3(i)
  BY <1>1, <1>2, TritsOfRange, TritSumRange
<1> QED
  BY <1>1, <1>2, <1>3 DEF Values

(* Its digits are the trits. *)
LEMMA ValueDigits == \A w : \A i \in Idx : TritAt(DecodeUnbounded(w), i) = GetTrit(w, i)
<1> TAKE w
<1>1. PICK g : IsSum(g, TritsOf(w), Pow3, Trits) /\ DecodeUnbounded(w) = g[Trits]
  BY ValueSum
<1>2. \A i \in Idx : TritAt(g[Trits], i) = TritsOf(w)[i]
  BY <1>1, TritsOfRange, TritSumDigits
<1> QED
  BY <1>1, <1>2 DEF TritsOf

(* Words with the same trits, reserved codes included, have the same value. *)
LEMMA SameTrits ==
  ASSUME NEW w, NEW u, \A i \in Idx : GetTrit(w, i) = GetTrit(u, i)
  PROVE  DecodeUnbounded(w) = DecodeUnbounded(u)
<1>1. PICK g : IsSum(g, TritsOf(w), Pow3, Trits) /\ DecodeUnbounded(w) = g[Trits]
  BY ValueSum
<1>2. PICK h : IsSum(h, TritsOf(u), Pow3, Trits) /\ DecodeUnbounded(u) = h[Trits]
  BY ValueSum
<1>3. TritsOf(w) = TritsOf(u)
  BY DEF TritsOf
<1>4. Trits \in Nat /\ Trits \in 0 .. Trits
  BY TritsAssumption
<1>5. \A i \in 0 .. Trits : g[i] = h[i]
  BY <1>1, <1>2, <1>3, <1>4, SumUnique
<1> QED
  BY <1>1, <1>2, <1>4, <1>5

-----------------------------------------------------------------------------
(* Reducing an integer to the range of a word. *)
LEMMA HalfType ==
  /\ Half3(Trits) \in Nat /\ Half3(Trits) >= 1
  /\ Pow3[Trits] = 2 * Half3(Trits) + 1
<1>1. Trits \in Nat /\ Trits - 1 \in Nat /\ (Trits - 1) + 1 = Trits
  BY TritsAssumption
<1>2. Half3(Trits) = 3 * Half3(Trits - 1) + 1 /\ Half3(Trits - 1) \in Nat
  <2>1. Half3((Trits - 1) + 1) = 3 * Half3(Trits - 1) + 1
    BY <1>1, Half3Facts
  <2> QED
    BY <1>1, <2>1, Half3Facts
<1> QED
  BY <1>1, <1>2, Half3Facts

(* What a remainder is. *)
LEMMA ModIs ==
  ASSUME NEW p \in Nat \ {0}, NEW r \in 0 .. p - 1, NEW m \in Int
  PROVE  (r + m * p) % p = r
<1> DEFINE x == r + m * p
<1>1. x \in Int /\ m * p \in Int
  OBVIOUS
<1> HIDE DEF x
<1>2. x \div p = m
  <2>1. m * p <= x /\ x < m * p + p
    BY <1>1 DEF x
  <2> QED
    BY <1>1, <2>1, QuotIs
<1>3. x = p * (x \div p) + (x % p)
  BY <1>1
<1> QED
  BY <1>1, <1>2, <1>3 DEF x

(* Reduction removes multiples of 3^Trits. *)
LEMMA ReducedIs ==
  ASSUME NEW v \in Values, NEW m \in Int
  PROVE  Reduced(v + m * Pow3[Trits]) = v
<1> DEFINE h == Half3(Trits)
           p == Pow3[Trits]
           r == v + h
           x == v + m * p
<1>1. h \in Nat /\ p = 2 * h + 1 /\ v \in -h .. h
  BY HalfType DEF Values
<1> HIDE DEF h, p
<1>2. p \in Nat \ {0} /\ r \in 0 .. p - 1 /\ m * p \in Int /\ x + h = r + m * p
  BY <1>1
<1> HIDE DEF r, x
<1>3. (x + h) % p = r
  BY <1>2, ModIs
<1>4. ((x + h) % p) - h = v
  BY <1>1, <1>3 DEF r
<1> QED
  BY <1>4 DEF Reduced, x, h, p

(* It keeps the values of words. *)
LEMMA ReducedFixes == \A v \in Values : Reduced(v) = v
<1> TAKE v \in Values
<1>1. Reduced(v + 0 * Pow3[Trits]) = v
  BY ReducedIs
<1>2. v + 0 * Pow3[Trits] = v
  BY HalfType DEF Values
<1> QED
  BY <1>1, <1>2

(* It yields nothing else. *)
LEMMA ReducedRange == \A x \in Int : Reduced(x) \in Values
<1> TAKE x \in Int
<1> DEFINE h == Half3(Trits)
           p == Pow3[Trits]
<1>1. h \in Nat /\ p = 2 * h + 1
  BY HalfType
<1> HIDE DEF h, p
<1>2. (x + h) % p \in 0 .. p - 1
  BY <1>1, Z3
<1>3. ((x + h) % p) - h \in -h .. h
  BY <1>1, <1>2
<1> QED
  BY <1>3 DEF Reduced, Values, h, p
-----------------------------------------------------------------------------
(* ternary_encode: a loop that takes the lowest trit off the value. *)
LEMMA BitsOfTrit == \A t \in Trit : BitsToTrit(TritToBits(t)) = t
  BY DEF Trit, BitsToTrit, TritToBits

(* A trit written is the trit read. *)
LEMMA WrittenTrits ==
  ASSUME NEW t, \A i \in Idx : t[i] \in Trit
  PROVE  \A i \in Idx : GetTrit([j \in Idx |-> TritToBits(t[j])], i) = t[i]
  BY BitsOfTrit DEF GetTrit

(* One iteration of ternary_encode: digit and carry make up the value. *)
LEMMA EncodeStepSplits ==
  ASSUME NEW x \in Int
  PROVE  /\ EncodeCarry(x) \in Int /\ EncodeDigit(x) \in Trit
         /\ x = 3 * EncodeCarry(x) + EncodeDigit(x)
<1>1. CASE x < 0
  <2> DEFINE q == (-x) \div 3
             r == (-x) % 3
  <2>1. q \in Int /\ r \in {0, 1, 2} /\ -x = 3 * q + r
    OBVIOUS
  <2>2. CQuot(x, 3) = -q /\ CRem(x, 3) = -r
    BY <1>1 DEF CQuot, CRem
  <2> HIDE DEF q, r
  <2> QED
    BY <2>1, <2>2 DEF EncodeCarry, EncodeDigit, Trit
<1>2. CASE ~(x < 0)
  <2> DEFINE q == x \div 3
             r == x % 3
  <2>1. q \in Int /\ r \in {0, 1, 2} /\ x = 3 * q + r
    OBVIOUS
  <2>2. CQuot(x, 3) = q /\ CRem(x, 3) = r
    BY <1>2 DEF CQuot, CRem
  <2> HIDE DEF q, r
  <2> QED
    BY <2>1, <2>2 DEF EncodeCarry, EncodeDigit, Trit
<1> QED
  BY <1>1, <1>2

(* The values left before each iteration. *)
EncodeLeaves(left, v) ==
  /\ left[0] = v
  /\ \A i \in 0 .. Trits : left[i] \in Int
  /\ \A i \in 0 .. Trits - 1 : left[i + 1] = EncodeCarry(left[i])

(* The values ternary_encode leaves from iteration to iteration. *)
LEMMA EncodeStates ==
  ASSUME NEW v \in Int
  PROVE  \E left : /\ EncodeLeaves(left, v)
                   /\ Encode(v) = [i \in Idx |-> TritToBits(EncodeDigit(left[i]))]
<1> DEFINE L(h) == [i \in 0 .. Trits |-> IF i = 0 THEN v ELSE EncodeCarry(h[i - 1])]
           left == CHOOSE h : h = L(h)
           step == [p \in Int \X Nat |-> EncodeCarry(p[1])]
<1>1. Encode(v) = [i \in Idx |-> TritToBits(EncodeDigit(left[i]))]
  BY DEF Encode, FromTrits
<1>2. Trits \in Nat
  BY TritsAssumption
<1>3. step \in [Int \X Nat -> Int]
  BY EncodeStepSplits
<1>4. PICK g \in [0 .. Trits -> Int] : IsLoop(g, v, step, Trits)
  <2> HIDE DEF step
  <2> QED BY <1>2, <1>3, LoopExists
<1>5. g = L(g)
  <2>1. ASSUME NEW i \in 0 .. Trits, i # 0 PROVE step[<<g[i - 1], i>>] = EncodeCarry(g[i - 1])
    <3>1. <<g[i - 1], i>> \in Int \X Nat
      BY <2>1, <1>2
    <3> QED
      BY <3>1
  <2> HIDE DEF step
  <2> QED
    BY <1>4, <2>1 DEF IsLoop
<1>6. left = L(left)
  <2> HIDE DEF L
  <2> QED BY <1>5
<1> HIDE DEF left
<1>7. left[0] = v /\ \A i \in 0 .. Trits - 1 : left[i + 1] = EncodeCarry(left[i])
  <2>1. \A i \in 0 .. Trits : left[i] = IF i = 0 THEN v ELSE EncodeCarry(left[i - 1])
    BY <1>6
  <2>2. /\ 0 \in 0 .. Trits
        /\ \A i \in 0 .. Trits - 1 : i + 1 \in 0 .. Trits /\ i + 1 # 0 /\ (i + 1) - 1 = i
    BY <1>2
  <2> QED
    BY <2>1, <2>2
<1>8. \A i \in 0 .. Trits : left[i] \in Int
  <2> DEFINE S == {i \in Nat : i <= Trits => left[i] \in Int}
  <2>1. 0 \in S
    BY <1>7
  <2>2. ASSUME NEW i \in Nat, i \in S PROVE i + 1 \in S
    <3> SUFFICES ASSUME i + 1 <= Trits PROVE left[i + 1] \in Int
      OBVIOUS
    <3>1. i \in 0 .. Trits - 1 /\ left[i] \in Int
      BY <1>2, <2>2
    <3> QED
      BY <1>7, <3>1, EncodeStepSplits
  <2> HIDE DEF S
  <2>3. \A i \in Nat : i \in S
    BY <2>1, <2>2, SetInduction
  <2> QED
    BY <2>3, <1>2 DEF S
<1>9. EncodeLeaves(left, v)
  BY <1>7, <1>8 DEF EncodeLeaves
<1> QED
  BY <1>1, <1>9

(* What one iteration takes off the value it adds to the word. *)
LEMMA EncodeInvariant ==
  ASSUME NEW v \in Int, NEW left, EncodeLeaves(left, v),
         NEW g, IsSum(g, [i \in Idx |-> EncodeDigit(left[i])], Pow3, Trits)
  PROVE  /\ g[Trits] \in Int
         /\ v = g[Trits] + left[Trits] * Pow3[Trits]
<1> DEFINE d == [i \in Idx |-> EncodeDigit(left[i])]
<1>1. Trits \in Nat /\ \A i \in 0 .. Trits - 1 : d[i] = EncodeDigit(left[i])
  BY TritsAssumption DEF Idx
<1>2. IsSum(g, d, Pow3, Trits)
  OBVIOUS
<1> HIDE DEF d
<1>3. ASSUME NEW i \in 0 .. Trits - 1
      PROVE  /\ left[i] \in Int /\ left[i + 1] \in Int /\ d[i] \in Trit
             /\ left[i] = 3 * left[i + 1] + d[i]
  <2>1. i \in 0 .. Trits /\ i + 1 \in 0 .. Trits
    BY <1>1
  <2>2. left[i] \in Int /\ left[i + 1] \in Int /\ left[i + 1] = EncodeCarry(left[i])
    BY <2>1 DEF EncodeLeaves
  <2> QED
    BY <1>1, <2>2, EncodeStepSplits
<1>4. \A i \in 0 .. Trits : g[i] \in Int
  <2>1. IntegersBelow(d, Trits)
    BY <1>3 DEF IntegersBelow, Trit
  <2> QED
    BY <1>1, <1>2, <2>1, PowersWeigh, SumType
<1> DEFINE S == {i \in Nat : i <= Trits => v = g[i] + left[i] * Pow3[i]}
<1>5. 0 \in S
  <2>1. g[0] = 0 /\ left[0] = v /\ Pow3[0] = 1
    BY <1>2, Pow3Facts DEF IsSum, EncodeLeaves
  <2> QED
    BY <2>1
<1>6. ASSUME NEW i \in Nat, i \in S PROVE i + 1 \in S
  <2> SUFFICES ASSUME i + 1 <= Trits PROVE v = g[i + 1] + left[i + 1] * Pow3[i + 1]
    OBVIOUS
  <2>1. i \in 0 .. Trits - 1 /\ i + 1 \in 1 .. Trits /\ (i + 1) - 1 = i /\ i \in 0 .. Trits
    BY <1>1
  <2> DEFINE p == Pow3[i]
             c == left[i + 1]
             t == d[i]
  <2>2. v = g[i] + left[i] * p
    BY <1>6, <2>1
  <2>3. g[i + 1] = g[i] + t * p
    BY <1>2, <2>1 DEF IsSum
  <2>4. p \in Int /\ Pow3[i + 1] = 3 * p
    BY Pow3Facts
  <2>5. left[i] = 3 * c + t /\ c \in Int /\ t \in Int
    BY <1>3, <2>1 DEF Trit
  <2>6. g[i] \in Int
    BY <1>4, <2>1
  <2> HIDE DEF p, c, t
  <2>7. (3 * c + t) * p = c * (3 * p) + t * p
    BY <2>4, <2>5
  <2>8. t * p \in Int /\ c * (3 * p) \in Int
    BY <2>4, <2>5
  <2>9. v = g[i + 1] + c * (3 * p)
    BY <2>2, <2>3, <2>5, <2>6, <2>7, <2>8
  <2> QED
    BY <2>4, <2>9 DEF c
<1> HIDE DEF S
<1>7. \A i \in Nat : i \in S
  BY <1>5, <1>6, SetInduction
<1> QED
  BY <1>1, <1>4, <1>7 DEF S

(* ternary_encode: the word stands for the value reduced to the range of a *)
(* word, whatever the sign of the remainders it borrowed for.              *)
THEOREM EncodeReduces ==
  ASSUME NEW v \in Int
  PROVE  DecodeUnbounded(Encode(v)) = Reduced(v)
<1>1. PICK left : /\ EncodeLeaves(left, v)
                  /\ Encode(v) = [i \in Idx |-> TritToBits(EncodeDigit(left[i]))]
  BY EncodeStates
<1>2. PICK g : /\ IsSum(g, TritsOf(Encode(v)), Pow3, Trits)
               /\ DecodeUnbounded(Encode(v)) = g[Trits]
  BY ValueSum
<1> DEFINE d == [i \in Idx |-> EncodeDigit(left[i])]
<1>3. TritsOf(Encode(v)) = d
  <2>1. \A i \in Idx : left[i] \in Int
    BY <1>1, TritsAssumption DEF EncodeLeaves, Idx
  <2>2. \A i \in Idx : GetTrit(Encode(v), i) = EncodeDigit(left[i])
    BY <1>1, <2>1, EncodeStepSplits, BitsOfTrit DEF GetTrit
  <2> QED
    BY <2>2 DEF TritsOf
<1>4. IsSum(g, d, Pow3, Trits)
  BY <1>2, <1>3
<1>5. v = g[Trits] + left[Trits] * Pow3[Trits] /\ left[Trits] \in Int
  <2>1. Trits \in 0 .. Trits
    BY TritsAssumption
  <2> QED
    BY <1>1, <1>4, <2>1, EncodeInvariant DEF EncodeLeaves
<1>6. g[Trits] \in Values
  BY <1>2, ValueRange
<1> QED
  BY <1>2, <1>5, <1>6, ReducedIs
-----------------------------------------------------------------------------
(* ternary_decode: the int64_t value is the exact one up to multiples of   *)
(* the register's 2^64, hence equal to it whenever it fits.                *)
Register == 2 * (MaxInt + 1)

(* Wrapping adds a multiple of the register. *)
LEMMA WrapAdds ==
  ASSUME NEW x \in Int
  PROVE  \E k \in Int : Wrap(x) = x + k * Register
<1> DEFINE n == 2 * (MaxInt + 1)
           z == x + MaxInt + 1
<1>1. n \in Nat /\ n > 0 /\ z \in Int /\ MaxInt \in Nat
  BY MaxIntAssumption
<1> HIDE DEF n, z
<1>2. z = n * (z \div n) + (z % n) /\ z \div n \in Int /\ z % n \in Int
  BY <1>1
<1> DEFINE q == z \div n
<1> HIDE DEF q
<1>3. z % n = z + (-q) * n
  <2>1. n * q \in Int /\ (-q) * n = -(n * q) /\ z = n * q + (z % n)
    BY <1>1, <1>2 DEF q
  <2> QED
    BY <1>1, <1>2, <2>1
<1>4. Wrap(x) = (z % n) - MaxInt - 1
  BY DEF Wrap, WrapTo, n, z
<1>5. -q \in Int /\ (-q) * n \in Int
  BY <1>1, <1>2 DEF q
<1>6. Wrap(x) = x + (-q) * n
  <2> DEFINE r == z % n
             m == (-q) * n
  <2>1. z = x + MaxInt + 1
    BY DEF z
  <2>2. r = z + m /\ Wrap(x) = r - MaxInt - 1 /\ m \in Int /\ r \in Int
    BY <1>2, <1>3, <1>4, <1>5
  <2> HIDE DEF r, m
  <2>3. Wrap(x) = x + m
    BY <1>1, <2>1, <2>2
  <2> QED
    BY <2>3 DEF m
<1> QED
  BY <1>5, <1>6 DEF Register, n

LEMMA RegisterType == Register \in Nat /\ Register > 0 /\ MaxInt \in Nat
  BY MaxIntAssumption DEF Register

(* What differs by a multiple of it stays so. *)
SameRegister(x, y) == \E k \in Int : x = y + k * Register

(* Sums of what differs so differ so. *)
LEMMA SameAdd ==
  ASSUME NEW x \in Int, NEW y \in Int, NEW u \in Int, NEW v \in Int,
         SameRegister(x, y), SameRegister(u, v)
  PROVE  SameRegister(x + u, y + v)
<1>1. PICK k \in Int : x = y + k * Register
  BY DEF SameRegister
<1>2. PICK m \in Int : u = v + m * Register
  BY DEF SameRegister
<1>3. k * Register \in Int /\ m * Register \in Int /\ (k + m) * Register = k * Register + m * Register
  BY RegisterType
<1>4. x + u = (y + v) + (k + m) * Register /\ k + m \in Int
  BY <1>1, <1>2, <1>3
<1> QED
  BY <1>4 DEF SameRegister

(* And multiples. *)
LEMMA SameTimes ==
  ASSUME NEW x \in Int, NEW y \in Int, NEW c \in Int, SameRegister(x, y)
  PROVE  SameRegister(c * x, c * y)
<1>1. PICK k \in Int : x = y + k * Register
  BY DEF SameRegister
<1>2. k * Register \in Int /\ Register \in Int
  BY RegisterType
<1>3. c * (y + k * Register) = c * y + c * (k * Register)
  BY <1>2
<1>4. c * (k * Register) = (c * k) * Register /\ c * k \in Int
  BY <1>2
<1>5. c * x = c * y + (c * k) * Register
  BY <1>1, <1>3, <1>4
<1> QED
  BY <1>4, <1>5 DEF SameRegister

(* And what a register keeps of them. *)
LEMMA SameWrap ==
  ASSUME NEW x \in Int, NEW y \in Int, SameRegister(x, y)
  PROVE  SameRegister(Wrap(x), y)
<1>1. PICK k \in Int : x = y + k * Register
  BY DEF SameRegister
<1>2. PICK m \in Int : Wrap(x) = x + m * Register
  BY WrapAdds
<1>3. k * Register \in Int /\ m * Register \in Int /\ (k + m) * Register = k * Register + m * Register
  BY RegisterType
<1>4. Wrap(x) = y + (k + m) * Register /\ k + m \in Int
  BY <1>1, <1>2, <1>3
<1> QED
  BY <1>4 DEF SameRegister

(* Two int64_t that differ so are equal. *)
LEMMA SameFits ==
  ASSUME NEW x \in CInteger, NEW y \in CInteger, SameRegister(x, y)
  PROVE  x = y
<1>1. PICK k \in Int : x = y + k * Register
  BY DEF SameRegister
<1>2. x - y < Register /\ y - x < Register /\ x \in Int /\ y \in Int
  BY RegisterType DEF CInteger, MinInt, Register
<1>3. k = 0
  <2>1. CASE k >= 1
    <3>1. k * Register >= Register
      BY <2>1, RegisterType
    <3> QED
      BY <1>1, <1>2, <3>1, RegisterType
  <2>2. CASE k <= -1
    <3>1. k * Register <= -Register
      BY <2>2, RegisterType
    <3> QED
      BY <1>1, <1>2, <3>1, RegisterType
  <2> QED
    BY <2>1, <2>2
<1>4. 0 * Register = 0
  BY RegisterType
<1> QED
  BY <1>1, <1>2, <1>3, <1>4

(* ternary_decode is off by a multiple of the register at most. *)
LEMMA DecodeWraps == \A w : SameRegister(Decode(w), DecodeUnbounded(w))
<1> TAKE w
<1>1. PICK r \in [0 .. Trits -> [value : CInteger, pow3 : CInteger]] :
        /\ Decode(w) = r[Trits].value
        /\ r[0] = [value |-> 0, pow3 |-> 1]
        /\ \A i \in 1 .. Trits :
             r[i] = [value |-> Wrap(r[i - 1].value + Wrap(GetTrit(w, i - 1) * r[i - 1].pow3)),
                     pow3  |-> Wrap(r[i - 1].pow3 * 3)]
  BY DecodeRun
<1>2. PICK g : IsSum(g, TritsOf(w), Pow3, Trits) /\ DecodeUnbounded(w) = g[Trits]
  BY ValueSum
<1>3. Trits \in Nat /\ \A i \in 0 .. Trits - 1 : TritsOf(w)[i] = GetTrit(w, i)
  BY TritsAssumption DEF TritsOf, Idx
<1>4. \A i \in 0 .. Trits : g[i] \in Int
  <2>1. IntegersBelow(TritsOf(w), Trits)
    BY TritsOfRange DEF IntegersBelow, TritsBelow, Trit
  <2> QED
    BY <1>2, <1>3, <2>1, PowersWeigh, SumType
<1>5. \A i \in 0 .. Trits : r[i].value \in Int /\ r[i].pow3 \in Int
  BY MaxIntAssumption DEF CInteger, MinInt
<1> DEFINE S == {i \in Nat : i <= Trits => /\ SameRegister(r[i].value, g[i])
                                           /\ SameRegister(r[i].pow3, Pow3[i])}
<1>6. 0 \in S
  <2>1. r[0].value = 0 /\ r[0].pow3 = 1 /\ g[0] = 0 /\ Pow3[0] = 1
    BY <1>1, <1>2, Pow3Facts DEF IsSum
  <2>2. 0 = 0 + 0 * Register /\ 1 = 1 + 0 * Register
    BY RegisterType
  <2> QED
    BY <2>1, <2>2 DEF SameRegister
<1>7. ASSUME NEW i \in Nat, i \in S PROVE i + 1 \in S
  <2> SUFFICES ASSUME i + 1 <= Trits
               PROVE  /\ SameRegister(r[i + 1].value, g[i + 1])
                      /\ SameRegister(r[i + 1].pow3, Pow3[i + 1])
    OBVIOUS
  <2> DEFINE t == GetTrit(w, i)
             a == r[i].value
             q == r[i].pow3
             p == Pow3[i]
  <2>1. i + 1 \in 1 .. Trits /\ (i + 1) - 1 = i /\ i \in 0 .. Trits - 1 /\ i \in 0 .. Trits
    BY <1>3
  <2>2. r[i + 1] = [value |-> Wrap(a + Wrap(t * q)), pow3 |-> Wrap(q * 3)]
    BY <1>1, <2>1
  <2>3. g[i + 1] = g[i] + t * p /\ Pow3[i + 1] = 3 * p
    BY <1>2, <1>3, <2>1, Pow3Facts DEF IsSum
  <2>4. SameRegister(a, g[i]) /\ SameRegister(q, p)
    BY <1>7, <2>1
  <2>5. t \in Int /\ a \in Int /\ q \in Int /\ p \in Int /\ g[i] \in Int
    BY <1>4, <1>5, <2>1, TritRange, Pow3Facts, SMTT(30) DEF Trit
  <2> HIDE DEF t, a, q, p
  <2>6. t * q \in Int /\ t * p \in Int /\ 3 * q \in Int /\ 3 * p \in Int /\ q * 3 = 3 * q
    BY <2>5
  <2>7. SameRegister(Wrap(t * q), t * p)
    BY <2>4, <2>5, <2>6, SameTimes, SameWrap
  <2>8. Wrap(t * q) \in Int
    BY <2>6, WrapType, MaxIntAssumption DEF CInteger, MinInt
  <2>9. SameRegister(a + Wrap(t * q), g[i] + t * p)
    BY <2>4, <2>5, <2>6, <2>7, <2>8, SameAdd
  <2>10. a + Wrap(t * q) \in Int /\ g[i] + t * p \in Int
    BY <2>5, <2>6, <2>8
  <2>11. SameRegister(Wrap(a + Wrap(t * q)), g[i] + t * p)
    BY <2>9, <2>10, SameWrap
  <2>12. SameRegister(Wrap(q * 3), 3 * p)
    BY <2>4, <2>5, <2>6, SameTimes, SameWrap
  <2> QED
    BY <2>2, <2>3, <2>11, <2>12
<1> HIDE DEF S
<1>8. \A i \in Nat : i \in S
  BY <1>6, <1>7, SetInduction
<1> QED
  BY <1>1, <1>2, <1>3, <1>8 DEF S

(* ternary_decode returns the value of a word exactly if int64_t holds it. *)
THEOREM DecodeFits ==
  ASSUME NEW w, DecodeUnbounded(w) \in CInteger
  PROVE  Decode(w) = DecodeUnbounded(w)
BY DecodeWraps, DecodeType, SameFits

-----------------------------------------------------------------------------
(* The trits decide the value, and the highest of them its sign. *)
LEMMA DigitsDecide ==
  ASSUME NEW w, NEW v \in Values,
         \A i \in 0 .. Trits - 1 : TritAt(v, i) = GetTrit(w, i)
  PROVE  v = DecodeUnbounded(w)
<1>1. v \in Int
  BY HalfType DEF Values
<1>2. DecodeUnbounded(Encode(v)) = v
  BY <1>1, EncodeReduces, ReducedFixes
<1>3. \A i \in Idx : GetTrit(Encode(v), i) = GetTrit(w, i)
  <2>1. \A i \in Idx : TritAt(v, i) = GetTrit(Encode(v), i)
    BY <1>2, ValueDigits
  <2> QED
    BY <2>1 DEF Idx
<1> QED
  BY <1>2, <1>3, SameTrits

(* Zero digits above position k do not count. *)
LEMMA ZerosAbove ==
  ASSUME NEW W, Weights(W, 3), NEW N \in Nat, NEW d, IntegersBelow(d, N),
         NEW g, IsSum(g, d, W, N),
         NEW k \in 0 .. N, \A i \in k .. N - 1 : d[i] = 0
  PROVE  g[N] = g[k]
<1> DEFINE S == {i \in Nat : k <= i /\ i <= N => g[i] = g[k]}
<1>0. \A i \in 0 .. N : g[i] \in Int
  BY SumType
<1>1. 0 \in S
  OBVIOUS
<1>2. ASSUME NEW i \in Nat, i \in S PROVE i + 1 \in S
  <2> SUFFICES ASSUME k <= i, i + 1 <= N PROVE g[i + 1] = g[k]
    OBVIOUS
  <2>1. i + 1 \in 1 .. N /\ (i + 1) - 1 = i /\ i \in k .. N - 1 /\ i \in 0 .. N
    OBVIOUS
  <2>2. g[i + 1] = g[i] + 0 * W[i]
    BY <2>1 DEF IsSum
  <2>3. g[i] \in Int /\ W[i] \in Int
    BY <1>0, <2>1 DEF Weights
  <2>4. 0 * W[i] = 0
    BY <2>3
  <2> QED
    BY <1>2, <2>1, <2>2, <2>3, <2>4
<1> HIDE DEF S
<1>3. \A i \in Nat : i \in S
  BY <1>1, <1>2, SetInduction
<1> QED
  BY <1>3 DEF S

SignOfInt(x) == IF x < 0 THEN -1 ELSE IF x > 0 THEN 1 ELSE 0

(* A nonempty set of positions has a highest one. *)
LEMMA HighestExists ==
  ASSUME NEW T \in SUBSET Idx, T # {}
  PROVE  \E i \in T : \A j \in T : j <= i
<1> DEFINE S == {n \in Nat : \E i \in T : n = Trits - i}
<1>1. Trits \in Nat /\ \A i \in T : i \in Int /\ Trits - i \in Nat
  BY TritsAssumption DEF Idx
<1>2. S # {} /\ S \in SUBSET Nat
  BY <1>1
<1>3. PICK m \in S : \A n \in S : m <= n
  <2> HIDE DEF S
  <2> QED BY <1>2, LeastNat
<1>4. PICK i \in T : m = Trits - i
  BY <1>3
<1>5. \A j \in T : Trits - i <= Trits - j
  BY <1>1, <1>3, <1>4
<1>6. \A j \in T : j <= i
  BY <1>1, <1>5
<1> QED
  BY <1>6

(* The highest trit that is not 0 is the sign of the value. *)
LEMMA SignIsSign == \A w : Sign(w) = SignOfInt(DecodeUnbounded(w))
<1> TAKE w
<1> DEFINE nonzero == {i \in Idx : GetTrit(w, i) # 0}
           d == TritsOf(w)
<1>1. PICK g : IsSum(g, d, Pow3, Trits) /\ DecodeUnbounded(w) = g[Trits]
  BY ValueSum
<1>2. /\ Trits \in Nat /\ Trits \in 0 .. Trits /\ 0 \in 0 .. Trits
      /\ TritsBelow(d, Trits) /\ IntegersBelow(d, Trits)
      /\ \A i \in 0 .. Trits - 1 : d[i] = GetTrit(w, i)
  <2>1. Trits \in Nat /\ Trits \in 0 .. Trits /\ 0 \in 0 .. Trits
    BY TritsAssumption
  <2>2. TritsBelow(d, Trits) /\ IntegersBelow(d, Trits)
    BY TritsOfRange DEF IntegersBelow, TritsBelow, Trit
  <2>3. \A i \in 0 .. Trits - 1 : d[i] = GetTrit(w, i)
    BY DEF TritsOf, Idx
  <2> QED
    BY <2>1, <2>2, <2>3
<1> HIDE DEF d
<1>3. CASE nonzero = {}
  <2>1. Sign(w) = 0
    BY <1>3 DEF Sign
  <2>2. \A i \in 0 .. Trits - 1 : d[i] = 0
    BY <1>2, <1>3 DEF Idx
  <2>3. g[Trits] = g[0]
    BY <1>1, <1>2, <2>2, PowersWeigh, ZerosAbove
  <2>4. g[0] = 0
    BY <1>1 DEF IsSum
  <2> QED
    BY <1>1, <2>1, <2>3, <2>4 DEF SignOfInt
<1>4. CASE nonzero # {}
  <2> DEFINE k == CHOOSE i \in nonzero : \A j \in nonzero : j <= i
  <2>1. Sign(w) = GetTrit(w, k)
    BY <1>4 DEF Sign
  <2>2. k \in nonzero /\ \A j \in nonzero : j <= k
    <3>1. \E i \in nonzero : \A j \in nonzero : j <= i
      BY <1>4, HighestExists
    <3> HIDE DEF nonzero
    <3> QED
      BY <3>1
  <2> HIDE DEF k
  <2>3. /\ k \in 0 .. Trits - 1 /\ k \in Nat /\ k + 1 \in 0 .. Trits /\ k + 1 \in 1 .. Trits
        /\ (k + 1) - 1 = k /\ k \in 0 .. Trits
    BY <1>2, <2>2 DEF Idx
  <2>4. \A i \in k + 1 .. Trits - 1 : d[i] = 0
    <3> TAKE i \in k + 1 .. Trits - 1
    <3>1. i \in Idx /\ i \in 0 .. Trits - 1 /\ ~(i <= k)
      BY <1>2, <2>3 DEF Idx
    <3>2. GetTrit(w, i) = 0
      BY <2>2, <3>1
    <3> QED
      BY <1>2, <3>1, <3>2
  <2>5. g[Trits] = g[k + 1]
    BY <1>1, <1>2, <2>3, <2>4, PowersWeigh, ZerosAbove
  <2>6. g[k + 1] = g[k] + d[k] * Pow3[k]
    BY <1>1, <2>3 DEF IsSum
  <2>7. g[k] \in -Half3(k) .. Half3(k)
    BY <1>1, <1>2, <2>3, TritSumRange
  <2>8. Half3(k) \in Nat /\ Pow3[k] = 2 * Half3(k) + 1
    BY <2>3, Half3Facts
  <2>9. d[k] = GetTrit(w, k) /\ (d[k] = -1 \/ d[k] = 1)
    BY <1>2, <2>2, <2>3, TritRange DEF Trit
  <2>10. d[k] = SignOfInt(g[Trits])
    <3> DEFINE h == Half3(k)
               a == g[k]
               v == g[Trits]
    <3>1. h \in Nat /\ a \in -h .. h /\ v = a + d[k] * (2 * h + 1)
      BY <2>5, <2>6, <2>7, <2>8
    <3> HIDE DEF h, a, v
    <3>2. v \in Int /\ ((d[k] = -1 /\ v < 0) \/ (d[k] = 1 /\ v > 0))
      BY <2>9, <3>1
    <3>3. d[k] = SignOfInt(v)
      BY <3>2 DEF SignOfInt
    <3> QED
      BY <3>3 DEF v
  <2> QED
    BY <1>1, <2>1, <2>9, <2>10
<1> QED
  BY <1>3, <1>4

-----------------------------------------------------------------------------
(* Words built trit by trit whose value has a formula. *)
LEMMA ValueOfSum ==
  ASSUME NEW w, NEW g, IsSum(g, TritsOf(w), Pow3, Trits)
  PROVE  DecodeUnbounded(w) = g[Trits]
<1>1. PICK h : IsSum(h, TritsOf(w), Pow3, Trits) /\ DecodeUnbounded(w) = h[Trits]
  BY ValueSum
<1>2. Trits \in Nat /\ Trits \in 0 .. Trits
  BY TritsAssumption
<1>3. \A i \in 0 .. Trits : g[i] = h[i]
  BY <1>1, <1>2, SumUnique
<1> QED
  BY <1>1, <1>2, <1>3

LEMMA SumTypes ==
  ASSUME NEW w, NEW g, IsSum(g, TritsOf(w), Pow3, Trits)
  PROVE  \A i \in 0 .. Trits : g[i] \in Int
<1>1. IntegersBelow(TritsOf(w), Trits) /\ Trits \in Nat
  BY TritsAssumption, TritsOfRange DEF IntegersBelow, TritsBelow, Trit
<1> QED
  BY <1>1, PowersWeigh, SumType

(* Negating every trit negates the value, without any overflow. *)
LEMMA NotNegates == \A w : DecodeUnbounded(Not(w)) = -DecodeUnbounded(w)
<1> TAKE w
<1>1. PICK g : IsSum(g, TritsOf(w), Pow3, Trits) /\ DecodeUnbounded(w) = g[Trits]
  BY ValueSum
<1> DEFINE h == [i \in 0 .. Trits |-> -g[i]]
<1>2. Trits \in Nat /\ Trits \in 0 .. Trits /\ 0 \in 0 .. Trits
  BY TritsAssumption
<1>3. \A i \in Idx : /\ TritsOf(w)[i] \in Trit
                     /\ TritsOf(Not(w))[i] = -TritsOf(w)[i]
  <2> TAKE i \in Idx
  <2> DEFINE t == GetTrit(w, i)
  <2>1. t \in Trit
    BY TritRange
  <2> HIDE DEF t
  <2>2. (IF t = 0 THEN 0 ELSE -t) = -t /\ -t \in Trit
    BY <2>1 DEF Trit
  <2>3. GetTrit(Not(w), i) = BitsToTrit(TritToBits(IF t = 0 THEN 0 ELSE -t))
    BY DEF Not, FromTrits, GetTrit, t
  <2> QED
    BY <2>1, <2>2, <2>3, BitsOfTrit DEF TritsOf, t
<1>4. \A i \in 0 .. Trits : g[i] \in Int
  BY <1>1, SumTypes
<1>5. ASSUME NEW i \in 1 .. Trits
      PROVE  h[i] = h[i - 1] + TritsOf(Not(w))[i - 1] * Pow3[i - 1]
  <2> DEFINE j == i - 1
  <2>1. j \in 0 .. Trits /\ j \in Idx /\ j \in Nat /\ i \in 0 .. Trits
    BY <1>2 DEF Idx
  <2>2. g[i] = g[j] + TritsOf(w)[j] * Pow3[j]
    BY <1>1 DEF IsSum
  <2> HIDE DEF j
  <2>3. TritsOf(w)[j] \in Int /\ Pow3[j] \in Int
    BY <1>3, <2>1, Pow3Facts DEF Trit
  <2>4. (-TritsOf(w)[j]) * Pow3[j] = -(TritsOf(w)[j] * Pow3[j]) /\ TritsOf(w)[j] * Pow3[j] \in Int
    BY <2>3
  <2>5. -g[i] = -g[j] + TritsOf(Not(w))[j] * Pow3[j]
    BY <1>3, <1>4, <2>1, <2>2, <2>4
  <2>6. h[i] = -g[i] /\ h[j] = -g[j]
    BY <2>1
  <2> HIDE DEF h
  <2>7. h[i] = h[j] + TritsOf(Not(w))[j] * Pow3[j]
    BY <2>5, <2>6
  <2> QED
    BY <2>7 DEF j
<1>6. h[0] = 0 /\ h[Trits] = -g[Trits]
  BY <1>1, <1>2 DEF IsSum
<1> HIDE DEF h
<1>7. IsSum(h, TritsOf(Not(w)), Pow3, Trits)
  BY <1>5, <1>6 DEF IsSum
<1> QED
  BY <1>1, <1>6, <1>7, ValueOfSum
(* Powers of 3 multiply by adding exponents. *)
LEMMA Pow3Sum == \A a \in Nat : \A k \in Nat : Pow3[a + k] = Pow3[a] * Pow3[k]
<1> TAKE a \in Nat
<1> DEFINE S == {k \in Nat : Pow3[a + k] = Pow3[a] * Pow3[k]}
<1>1. 0 \in S
  <2>1. Pow3[a + 0] = Pow3[a] * 1
    BY Pow3Facts
  <2> QED
    BY <2>1, Pow3Facts
<1>2. ASSUME NEW k \in Nat, k \in S PROVE k + 1 \in S
  <2> DEFINE p == Pow3[a]
             q == Pow3[k]
  <2>1. Pow3[a + k] = p * q
    BY <1>2
  <2>2. p \in Int /\ q \in Int /\ Pow3[k + 1] = 3 * q
    BY Pow3Facts
  <2>3. Pow3[a + (k + 1)] = 3 * Pow3[a + k]
    <3>1. a + (k + 1) = (a + k) + 1 /\ a + k \in Nat
      OBVIOUS
    <3> QED
      BY <3>1, Pow3Facts
  <2> HIDE DEF p, q
  <2>4. 3 * (p * q) = p * (3 * q)
    BY <2>2
  <2>5. Pow3[a + (k + 1)] = p * Pow3[k + 1]
    BY <2>1, <2>2, <2>3, <2>4
  <2> QED
    BY <2>5 DEF p
<1> HIDE DEF S
<1>3. \A k \in Nat : k \in S
  BY <1>1, <1>2, SetInduction
<1> QED
  BY <1>3 DEF S

ShiftCount(shift) == shift % Trits
(* The reduced count is below the width. *)
LEMMA ShiftCountRange == \A s \in Nat : ShiftCount(s) \in 0 .. Trits - 1
  BY TritsAssumption, Z3 DEF ShiftCount

(* The trits of a shifted word. *)
LEMMA ShiftLeftTrits ==
  ASSUME NEW w, NEW s \in Nat, NEW i \in Idx
  PROVE  TritsOf(ShiftLeft(w, s))[i] =
           IF i >= ShiftCount(s) THEN GetTrit(w, i - ShiftCount(s)) ELSE 0
<1> DEFINE t == IF i >= ShiftCount(s) THEN GetTrit(w, i - ShiftCount(s)) ELSE 0
<1>1. t \in Trit
  BY TritRange DEF Trit
<1>2. GetTrit(ShiftLeft(w, s), i) = BitsToTrit(TritToBits(t))
  BY DEF ShiftLeft, FromTrits, GetTrit, ShiftCount
<1> HIDE DEF t
<1>3. GetTrit(ShiftLeft(w, s), i) = t
  BY <1>1, <1>2, BitsOfTrit
<1> QED
  BY <1>3 DEF TritsOf, t

(* A shift to the left multiplies by 3^k and drops what leaves the word. *)
LEMMA ShiftLeftReduces ==
  ASSUME NEW w, NEW s \in Nat
  PROVE  DecodeUnbounded(ShiftLeft(w, s)) = Reduced(DecodeUnbounded(w) * Pow3[s % Trits])
<1> DEFINE k == ShiftCount(s)
           N == Trits
           u == ShiftLeft(w, s)
           p == Pow3[k]
<1>1. PICK g : IsSum(g, TritsOf(w), Pow3, Trits) /\ DecodeUnbounded(w) = g[Trits]
  BY ValueSum
<1>2. N \in Nat /\ N > 0 /\ k \in 0 .. N - 1 /\ k \in Nat /\ k \in 0 .. N /\ N \in 0 .. N /\ 0 \in 0 .. N
  BY TritsAssumption, ShiftCountRange
<1>3. p \in Int
  BY <1>2, Pow3Facts
<1>4. \A i \in 0 .. N : g[i] \in Int
  BY <1>1, SumTypes
<1> DEFINE h == [i \in 0 .. N |-> IF i < k THEN 0 ELSE g[i - k] * p]
<1>5. ASSUME NEW i \in 1 .. N
      PROVE  h[i] = h[i - 1] + TritsOf(u)[i - 1] * Pow3[i - 1]
  <2> DEFINE j == i - 1
  <2>1. j \in Nat /\ j \in Idx /\ i = j + 1 /\ j \in 0 .. N /\ i \in 0 .. N
    BY <1>2 DEF Idx
  <2>2. Pow3[j] \in Int
    BY <2>1, Pow3Facts
  <2>3. TritsOf(u)[j] = IF j >= k THEN GetTrit(w, j - k) ELSE 0
    BY <2>1, ShiftLeftTrits
  <2> HIDE DEF j, k, u, p
  <2>4. CASE j < k
    <3>1. ~(j >= k) /\ 0 * Pow3[j] = 0
      BY <1>2, <2>1, <2>2, <2>4
    <3>2. TritsOf(u)[j] * Pow3[j] = 0
      BY <2>3, <3>1
    <3>3. h[j] = 0
      BY <2>1, <2>4
    <3>4. h[i] = 0
      <4>1. CASE i < k
        BY <2>1, <4>1
      <4>2. CASE ~(i < k)
        <5>1. i - k = 0
          BY <1>2, <2>1, <2>4, <4>2
        <5>2. g[0] = 0 /\ 0 * p = 0
          BY <1>1, <1>3 DEF IsSum
        <5> QED
          BY <2>1, <4>2, <5>1, <5>2
      <4> QED
        BY <4>1, <4>2
    <3>5. h[i] = h[j] + TritsOf(u)[j] * Pow3[j]
      <4> HIDE DEF h
      <4> QED
        BY <3>2, <3>3, <3>4
    <3> QED
      BY <3>5 DEF j
  <2>5. CASE ~(j < k)
    <3> DEFINE a == j - k
               t == GetTrit(w, a)
    <3>1. a \in Nat /\ a \in Idx /\ a + 1 \in 1 .. N /\ (a + 1) - 1 = a /\ i - k = a + 1 /\ j >= k
          /\ ~(i < k) /\ a + k = j /\ a \in 0 .. N
      BY <1>2, <2>1, <2>5 DEF Idx
    <3>2. TritsOf(u)[j] = t
      BY <2>3, <3>1
    <3>3. g[a + 1] = g[a] + t * Pow3[a]
      BY <1>1, <3>1 DEF IsSum, TritsOf
    <3>4. Pow3[j] = Pow3[a] * p
      BY <1>2, <3>1, Pow3Sum DEF p
    <3>5. h[i] = g[a + 1] * p /\ h[j] = g[a] * p
      BY <2>1, <2>5, <3>1
    <3>6. t \in Int /\ Pow3[a] \in Int /\ g[a] \in Int
      BY <1>4, <3>1, TritRange, Pow3Facts DEF Trit
    <3> HIDE DEF a, t, h
    <3>7. (g[a] + t * Pow3[a]) * p = g[a] * p + t * (Pow3[a] * p)
      BY <1>3, <3>6
    <3>8. h[i] = h[j] + TritsOf(u)[j] * Pow3[j]
      BY <3>2, <3>3, <3>4, <3>5, <3>7
    <3> QED
      BY <3>8 DEF j
  <2> QED
    BY <1>2, <2>1, <2>4, <2>5
<1>6. h[0] = 0
  <2>1. CASE 0 < k
    BY <1>2, <2>1
  <2>2. CASE ~(0 < k)
    <3>1. 0 - k = 0
      BY <1>2, <2>2
    <3>2. g[0] = 0 /\ 0 * p = 0
      BY <1>1, <1>3 DEF IsSum
    <3> HIDE DEF k, p
    <3> QED
      BY <1>2, <2>2, <3>1, <3>2
  <2> QED
    BY <2>1, <2>2
<1>7. h[N] = g[N - k] * p
  BY <1>2
<1> HIDE DEF h
<1>8. DecodeUnbounded(u) = h[N]
  <2>1. IsSum(h, TritsOf(u), Pow3, Trits)
    BY <1>5, <1>6 DEF IsSum
  <2> QED
    BY <2>1, ValueOfSum
<1> DEFINE b == N - k
<1>9. b \in 0 .. N /\ b \in Nat /\ b + k = N
  BY <1>2
<1>10. PICK m \in Int : g[N] = g[b] + m * Pow3[b]
  <2>1. IntegersBelow(TritsOf(w), Trits) /\ 3 \in Radix
    BY TritsOfRange DEF IntegersBelow, TritsBelow, Trit, Radix
  <2> HIDE DEF b
  <2> QED
    BY <1>1, <1>2, <1>9, <2>1, PowersWeigh, SumSplit
<1>11. Pow3[N] = Pow3[b] * p /\ Pow3[b] \in Int /\ g[b] \in Int
  <2> HIDE DEF b, k
  <2>1. Pow3[b + k] = Pow3[b] * Pow3[k]
    BY <1>2, <1>9, Pow3Sum
  <2>2. Pow3[b] \in Int /\ g[b] \in Int
    BY <1>4, <1>9, Pow3Facts
  <2> QED
    BY <1>9, <2>1, <2>2
<1>12. g[N] * p = g[b] * p + m * Pow3[N]
  <2> HIDE DEF b, p, k
  <2>1. (g[b] + m * Pow3[b]) * p = g[b] * p + m * (Pow3[b] * p)
    BY <1>3, <1>11
  <2> QED
    BY <1>10, <1>11, <2>1
<1>13. h[N] \in Values
  BY <1>8, ValueRange
<1>14. Reduced(h[N] + m * Pow3[Trits]) = h[N]
  BY <1>13, ReducedIs
<1>15. g[N] * p = h[N] + m * Pow3[Trits]
  <2> HIDE DEF p, k
  <2> QED
    BY <1>7, <1>12
<1> QED
  BY <1>1, <1>8, <1>14, <1>15 DEF ShiftCount
(* One trit in lane 0, and the container 0. *)
LEMMA QuantizeValue == \A q \in Trit : DecodeUnbounded(Quantize(q)) = q
<1> TAKE q \in Trit
<1>1. PICK g : /\ IsSum(g, TritsOf(Quantize(q)), Pow3, Trits)
               /\ DecodeUnbounded(Quantize(q)) = g[Trits]
  BY ValueSum
<1>2. Trits \in Nat /\ 1 \in 1 .. Trits /\ 1 \in 0 .. Trits /\ 0 \in Idx
  BY TritsAssumption DEF Idx
<1>3. \A i \in Idx : TritsOf(Quantize(q))[i] = IF i = 0 THEN q ELSE 0
  <2> TAKE i \in Idx
  <2>1. (IF i = 0 THEN q ELSE 0) \in Trit
    BY DEF Trit
  <2>2. GetTrit(Quantize(q), i) = BitsToTrit(TritToBits(IF i = 0 THEN q ELSE 0))
    BY DEF Quantize, FromTrits, GetTrit
  <2> QED
    BY <2>1, <2>2, BitsOfTrit DEF TritsOf
<1> DEFINE d == TritsOf(Quantize(q))
<1>4. IntegersBelow(d, Trits)
  BY TritsOfRange DEF IntegersBelow, TritsBelow, Trit
<1>5. d[0] = q /\ \A i \in 1 .. Trits - 1 : d[i] = 0
  BY <1>2, <1>3 DEF Idx
<1> HIDE DEF d
<1>6. g[Trits] = g[1]
  BY <1>1, <1>2, <1>4, <1>5, PowersWeigh, ZerosAbove DEF d
<1>7. g[1] = g[0] + d[0] * Pow3[0] /\ g[0] = 0 /\ Pow3[0] = 1
  <2>1. g[1] = g[1 - 1] + d[1 - 1] * Pow3[1 - 1]
    BY <1>1, <1>2 DEF IsSum, d
  <2>2. 1 - 1 = 0
    OBVIOUS
  <2> QED
    BY <1>1, <2>1, <2>2, Pow3Facts DEF IsSum
<1>8. g[1] = q
  BY <1>5, <1>7 DEF Trit
<1> QED
  BY <1>1, <1>6, <1>8

(* The value of a word whose trits are all the same. *)
LEMMA UniformValue ==
  ASSUME NEW q \in Trit
  PROVE  DecodeUnbounded([i \in Idx |-> TritToBits(q)]) = q * Half3(Trits)
<1> DEFINE w == [i \in Idx |-> TritToBits(q)]
           h == [i \in 0 .. Trits |-> q * Half3(i)]
<1>1. Trits \in Nat /\ Trits \in 0 .. Trits /\ 0 \in 0 .. Trits
  BY TritsAssumption
<1>2. \A i \in Idx : TritsOf(w)[i] = q
  BY BitsOfTrit DEF TritsOf, GetTrit
<1>q. q \in {-1, 0, 1}
  BY DEF Trit
<1> HIDE DEF w
<1>3. ASSUME NEW i \in 1 .. Trits
      PROVE  h[i] = h[i - 1] + TritsOf(w)[i - 1] * Pow3[i - 1]
  <2> DEFINE j == i - 1
  <2>1. j \in Nat /\ j \in Idx /\ i = j + 1 /\ j \in 0 .. Trits /\ i \in 0 .. Trits
    BY <1>1 DEF Idx
  <2> HIDE DEF j
  <2>2. Half3(i) = 3 * Half3(j) + 1 /\ Pow3[j] = 2 * Half3(j) + 1 /\ Half3(j) \in Nat
    BY <2>1, Half3Facts
  <2>3. h[i] = q * Half3(i) /\ h[j] = q * Half3(j) /\ TritsOf(w)[j] = q
    BY <1>2, <2>1
  <2> HIDE DEF h
  <2>4. h[i] = h[j] + TritsOf(w)[j] * Pow3[j]
    BY <1>q, <2>2, <2>3
  <2> QED
    BY <2>4 DEF j
<1>4. h[0] = 0 /\ h[Trits] = q * Half3(Trits)
  <2>1. h[0] = q * Half3(0) /\ h[Trits] = q * Half3(Trits)
    BY <1>1
  <2> HIDE DEF h
  <2> QED
    BY <1>q, <2>1, Half3Facts
<1> HIDE DEF h
<1>5. IsSum(h, TritsOf(w), Pow3, Trits)
  BY <1>3, <1>4 DEF IsSum
<1>6. DecodeUnbounded(w) = q * Half3(Trits)
  BY <1>4, <1>5, ValueOfSum
<1> QED
  BY <1>6 DEF w

(* The container 0 stands for the least value of a word. *)
LEMMA PackedZeroValue == DecodeUnbounded(PackedZero) = -Half3(Trits)
<1>1. PackedZero = [i \in Idx |-> TritToBits(-1)]
  BY DEF PackedZero, TritToBits
<1>2. DecodeUnbounded(PackedZero) = (-1) * Half3(Trits)
  BY <1>1, UniformValue DEF Trit
<1> QED
  BY <1>2, HalfType

(* A trit is the value of some word. *)
LEMMA TritValues == Trit \subseteq Values
  BY HalfType DEF Trit, Values

-----------------------------------------------------------------------------
(* The words the skeleton's tround writes. *)
(* Division to the nearest drops the lower trits. *)
LEMMA NearestIs ==
  ASSUME NEW a \in Nat, NEW r \in -a .. a, NEW h \in Int, NEW p, p = 2 * a + 1,
         NEW x, x = r + h * p
  PROVE  (x + (p - 1) \div 2) \div p = h
<1> DEFINE m == h * p
<1>1. m \in Int /\ x = r + m /\ p \in Int /\ p > 0
  OBVIOUS
<1> HIDE DEF m
<1>2. (p - 1) \div 2 = a
  BY <1>1
<1>3. x + a \in Int /\ m <= x + a /\ x + a < m + p
  BY <1>1
<1>4. (x + a) \div p = h
  BY <1>1, <1>3, QuotIs DEF m
<1> QED
  BY <1>2, <1>4

(* The trits from k on are a number of their own. *)
LEMMA UpperTrits ==
  ASSUME NEW w, NEW k \in 0 .. Trits - 1, NEW g, IsSum(g, TritsOf(w), Pow3, Trits)
  PROVE  \E e : /\ IsSum(e, [i \in 0 .. Trits - k - 1 |-> GetTrit(w, i + k)], Pow3, Trits - k)
                /\ \A i \in 0 .. Trits - k : e[i] \in Int
                /\ g[Trits] = g[k] + e[Trits - k] * Pow3[k]
<1> DEFINE n == Trits - k
           d == [i \in 0 .. n - 1 |-> GetTrit(w, i + k)]
           p == Pow3[k]
<1>1. k \in Nat /\ n \in Nat /\ n > 0 /\ k + n = Trits /\ Trits \in Nat
  BY TritsAssumption
<1>2. IntegersBelow(d, n)
  <2> HIDE DEF n
  <2> QED
    BY TritRange DEF IntegersBelow, Trit
<1> HIDE DEF n
<1>3. PICK e : IsSum(e, d, Pow3, n)
  <2> HIDE DEF d
  <2> QED
    BY <1>1, <1>2, PowersWeigh, SumExists DEF IsSum, SumStates
<1>4. \A i \in 0 .. n : e[i] \in Int
  <2> HIDE DEF d
  <2> QED
    BY <1>1, <1>2, <1>3, PowersWeigh, SumType
<1>5. p \in Int
  BY <1>1, Pow3Facts
<1>6. \A i \in 0 .. Trits : g[i] \in Int
  BY SumTypes
<1> DEFINE S == {j \in Nat : j <= n => g[k + j] = g[k] + e[j] * p}
<1>7. 0 \in S
  <2>1. e[0] = 0 /\ k + 0 = k /\ g[k] \in Int
    BY <1>1, <1>3, <1>6 DEF IsSum
  <2> HIDE DEF p
  <2>2. g[k + 0] = g[k] + e[0] * p
    BY <1>5, <2>1
  <2> QED
    BY <2>2
<1>8. ASSUME NEW j \in Nat, j \in S PROVE j + 1 \in S
  <2> SUFFICES ASSUME j + 1 <= n PROVE g[k + (j + 1)] = g[k] + e[j + 1] * p
    OBVIOUS
  <2> DEFINE a == k + j
             t == GetTrit(w, a)
  <2>1. /\ a \in Nat /\ a \in Idx /\ a + 1 \in 1 .. Trits /\ (a + 1) - 1 = a /\ k + (j + 1) = a + 1
        /\ j + 1 \in 1 .. n /\ (j + 1) - 1 = j /\ j \in 0 .. n - 1 /\ j \in 0 .. n /\ j + k = a
        /\ k \in 0 .. Trits
    BY <1>1 DEF Idx
  <2>2. g[a] = g[k] + e[j] * p
    BY <1>8, <2>1
  <2>3. g[a + 1] = g[a] + t * Pow3[a]
    BY <2>1 DEF IsSum, TritsOf
  <2>4. e[j + 1] = e[j] + d[j] * Pow3[j] /\ d[j] = t
    <3> HIDE DEF a
    <3>1. e[j + 1] = e[j] + d[j] * Pow3[j]
      <4> HIDE DEF d
      <4> QED BY <1>3, <2>1 DEF IsSum
    <3>2. d[j] = t
      BY <2>1
    <3> QED
      BY <3>1, <3>2
  <2>5. Pow3[a] = Pow3[j] * p
    BY <1>1, <2>1, Pow3Sum
  <2>6. t \in Int /\ Pow3[j] \in Int /\ g[k] \in Int /\ e[j] \in Int
    BY <1>4, <1>6, <2>1, TritRange, Pow3Facts DEF Trit
  <2> HIDE DEF a, t, p, d, S
  <2>7. (e[j] + t * Pow3[j]) * p = e[j] * p + t * (Pow3[j] * p)
    BY <1>5, <2>6
  <2>8. e[j] * p \in Int /\ t * (Pow3[j] * p) \in Int
    BY <1>5, <2>6
  <2>9. g[a + 1] = g[k] + e[j + 1] * p
    BY <2>2, <2>3, <2>4, <2>5, <2>6, <2>7, <2>8
  <2> QED
    BY <2>1, <2>9 DEF a
<1> HIDE DEF S
<1>9. \A j \in Nat : j \in S
  BY <1>7, <1>8, SetInduction
<1>10. g[Trits] = g[k] + e[n] * p
  BY <1>1, <1>9 DEF S
<1> QED
  BY <1>3, <1>4, <1>10 DEF n

(* What is left when the trits from k on move down and the rest reads as -1. *)
LEMMA RoundedValue ==
  ASSUME NEW w, NEW k \in 0 .. Trits - 1, NEW u,
         \A i \in Idx : GetTrit(u, i) = IF i < Trits - k THEN GetTrit(w, i + k) ELSE -1
  PROVE  DecodeUnbounded(u) =
           ((DecodeUnbounded(w) + (Pow3[k] - 1) \div 2) \div Pow3[k])
             - (Pow3[Trits] - Pow3[Trits - k]) \div 2
<1> DEFINE n == Trits - k
           d == [i \in 0 .. n - 1 |-> GetTrit(w, i + k)]
           p == Pow3[k]
<1>1. k \in Nat /\ n \in Nat /\ n > 0 /\ k + n = Trits /\ Trits \in Nat /\ k \in 0 .. Trits
      /\ n \in 0 .. n
  BY TritsAssumption
<1>2. PICK g : IsSum(g, TritsOf(w), Pow3, Trits) /\ DecodeUnbounded(w) = g[Trits]
  BY ValueSum
<1>3. PICK e : /\ IsSum(e, d, Pow3, n)
               /\ \A i \in 0 .. n : e[i] \in Int
               /\ g[Trits] = g[k] + e[n] * p
  BY <1>2, UpperTrits
<1>4. g[k] \in -Half3(k) .. Half3(k)
  BY <1>1, <1>2, TritsOfRange, TritSumRange
<1>5. Half3(k) \in Nat /\ p = 2 * Half3(k) + 1
  BY <1>1, Half3Facts
<1> HIDE DEF n, p
<1>6. (g[Trits] + (p - 1) \div 2) \div p = e[n]
  <2> DEFINE a == Half3(k)
             r == g[k]
             h == e[n]
             x == g[Trits]
  <2>1. h \in Int
    BY <1>1, <1>3
  <2>2. a \in Nat /\ p = 2 * a + 1 /\ r \in -a .. a
    BY <1>4, <1>5
  <2>3. x = r + h * p
    BY <1>1, <1>3 DEF n
  <2> HIDE DEF a, r, h, x
  <2>4. (x + (p - 1) \div 2) \div p = h
    BY <2>1, <2>2, <2>3, NearestIs
  <2> QED
    BY <2>4 DEF h, x
<1>7. (Pow3[Trits] - Pow3[n]) \div 2 = Half3(Trits) - Half3(n)
  <2>1. /\ Half3(Trits) \in Nat /\ Pow3[Trits] = 2 * Half3(Trits) + 1
        /\ Half3(n) \in Nat /\ Pow3[n] = 2 * Half3(n) + 1
    BY <1>1, Half3Facts
  <2>2. Pow3[Trits] - Pow3[n] = 2 * (Half3(Trits) - Half3(n))
    BY <2>1
  <2> QED
    BY <2>1, <2>2
<1> DEFINE h == [i \in 0 .. Trits |-> IF i <= n THEN e[i] ELSE e[n] - (Half3(i) - Half3(n))]
<1>8. ASSUME NEW i \in 1 .. Trits
      PROVE  h[i] = h[i - 1] + TritsOf(u)[i - 1] * Pow3[i - 1]
  <2> DEFINE j == i - 1
  <2>1. j \in Nat /\ j \in Idx /\ i = j + 1 /\ j \in 0 .. Trits /\ i \in 0 .. Trits
    BY <1>1 DEF Idx
  <2>2. TritsOf(u)[j] = IF j < n THEN GetTrit(w, j + k) ELSE -1
    BY <2>1 DEF TritsOf, n
  <2> HIDE DEF j
  <2>3. CASE j < n
    <3>1. i <= n /\ j <= n /\ j \in 0 .. n - 1 /\ i \in 1 .. n /\ i - 1 = j
      BY <1>1, <2>1, <2>3
    <3>2. h[i] = e[i] /\ h[j] = e[j]
      BY <2>1, <3>1
    <3>3. e[i] = e[j] + d[j] * Pow3[j]
      <4> HIDE DEF d
      <4> QED BY <1>3, <3>1 DEF IsSum
    <3>4. d[j] = TritsOf(u)[j]
      BY <2>2, <2>3, <3>1
    <3> HIDE DEF h, d
    <3>5. h[i] = h[j] + TritsOf(u)[j] * Pow3[j]
      BY <3>2, <3>3, <3>4
    <3> QED
      BY <3>5 DEF j
  <2>4. CASE ~(j < n)
    <3>1. ~(i <= n) /\ j >= n /\ (j <= n => j = n)
      BY <1>1, <2>1, <2>4
    <3>2. h[i] = e[n] - (Half3(i) - Half3(n))
      BY <2>1, <3>1
    <3>3. h[j] = e[n] - (Half3(j) - Half3(n))
      <4>1. e[n] \in Int /\ Half3(n) \in Nat
        BY <1>1, <1>3, Half3Facts
      <4>2. h[j] = IF j <= n THEN e[j] ELSE e[n] - (Half3(j) - Half3(n))
        BY <2>1
      <4> HIDE DEF h
      <4> QED
        BY <3>1, <4>1, <4>2
    <3>4. TritsOf(u)[j] = -1
      BY <2>2, <2>4
    <3>5. /\ Half3(i) = 3 * Half3(j) + 1 /\ Pow3[j] = 2 * Half3(j) + 1 /\ Half3(j) \in Nat
          /\ Half3(n) \in Nat /\ e[n] \in Int
      BY <1>1, <1>3, <2>1, Half3Facts
    <3> HIDE DEF h
    <3>6. h[i] = h[j] + TritsOf(u)[j] * Pow3[j]
      BY <3>2, <3>3, <3>4, <3>5
    <3> QED
      BY <3>6 DEF j
  <2> QED
    BY <1>1, <2>1, <2>3, <2>4
<1>9. h[0] = 0
  BY <1>1, <1>3 DEF IsSum
<1>10. h[Trits] = e[n] - (Half3(Trits) - Half3(n))
  <2>1. h[Trits] = IF Trits <= n THEN e[Trits] ELSE e[n] - (Half3(Trits) - Half3(n))
    BY <1>1
  <2>2. Trits <= n => Trits = n
    BY <1>1
  <2>3. e[n] \in Int /\ Half3(n) \in Nat
    BY <1>1, <1>3, Half3Facts
  <2> HIDE DEF h
  <2> QED
    BY <2>1, <2>2, <2>3
<1> HIDE DEF h
<1>11. IsSum(h, TritsOf(u), Pow3, Trits)
  BY <1>8, <1>9 DEF IsSum
<1>12. DecodeUnbounded(u) = h[Trits]
  BY <1>11, ValueOfSum
<1> QED
  BY <1>2, <1>6, <1>7, <1>10, <1>12 DEF n, p

-----------------------------------------------------------------------------
(* Decoding what an operation encoded. *)
(* A relation between integers of the same register, both ways. *)
LEMMA SameBack ==
  ASSUME NEW x \in Int, NEW y \in Int, SameRegister(x, y)
  PROVE  SameRegister(y, x)
<1>1. PICK k \in Int : x = y + k * Register
  BY DEF SameRegister
<1>2. -k \in Int /\ (-k) * Register = -(k * Register) /\ k * Register \in Int
  BY RegisterType
<1>3. y = x + (-k) * Register
  BY <1>1, <1>2
<1> QED
  BY <1>2, <1>3 DEF SameRegister

LEMMA SameThrough ==
  ASSUME NEW x \in Int, NEW y \in Int, NEW z \in Int, SameRegister(x, y), SameRegister(y, z)
  PROVE  SameRegister(x, z)
<1>1. PICK k \in Int : x = y + k * Register
  BY DEF SameRegister
<1>2. PICK m \in Int : y = z + m * Register
  BY DEF SameRegister
<1>3. k + m \in Int /\ (k + m) * Register = k * Register + m * Register
      /\ k * Register \in Int /\ m * Register \in Int
  BY RegisterType
<1>4. x = z + (k + m) * Register
  BY <1>1, <1>2, <1>3
<1> QED
  BY <1>3, <1>4 DEF SameRegister

(* Either every int64_t is the value of a word or every such value is an    *)
(* int64_t.                                                                 *)
LEMMA NarrowOrWide ==
  /\ Values \subseteq Int /\ CInteger \subseteq Int
  /\ \A x \in Values : -x \in Values
  /\ CInteger \subseteq Values \/ Values \subseteq CInteger
  /\ \A x \in Values : x \in CInteger \/ CInteger \subseteq Values
  BY HalfType, RegisterType DEF Values, CInteger, MinInt

(* What a decoded word can be. *)
LEMMA DecodedIs == \A w : Decode(w) \in Values /\ Decode(w) \in CInteger
<1> TAKE w
<1>1. Decode(w) \in CInteger /\ DecodeUnbounded(w) \in Values
  BY DecodeType, ValueRange
<1>2. CASE Values \subseteq CInteger
  BY <1>1, <1>2, DecodeFits
<1> QED
  BY <1>1, <1>2, NarrowOrWide

(* Decoding what was encoded gives the value back in its register. *)
LEMMA DecodeEncoded ==
  ASSUME NEW x \in Values
  PROVE  SameRegister(Decode(Encode(x)), x)
<1>1. x \in Int
  BY NarrowOrWide
<1>2. DecodeUnbounded(Encode(x)) = x
  BY <1>1, EncodeReduces, ReducedFixes
<1> QED
  BY <1>2, DecodeWraps

LEMMA DecodeExact ==
  ASSUME NEW x \in Values, x \in CInteger
  PROVE  Decode(Encode(x)) = x
<1>1. x \in Int /\ DecodeUnbounded(Encode(x)) = x
  BY NarrowOrWide, EncodeReduces, ReducedFixes
<1> QED
  BY <1>1, DecodeFits

(* Encoding a value or what its register keeps of it makes no difference. *)
LEMMA EncodedWrapped ==
  ASSUME NEW x \in Values
  PROVE  Decode(Encode(Wrap(x))) = Decode(Encode(x))
<1>1. x \in Int /\ Wrap(x) \in CInteger
  BY NarrowOrWide, WrapType
<1>2. CASE x \in CInteger
  BY <1>2, WrapIdentity
<1>3. CASE CInteger \subseteq Values
  <2>1. SameRegister(x, x)
    <3>1. x = x + 0 * Register
      BY <1>1, RegisterType
    <3> QED
      BY <3>1 DEF SameRegister
  <2>2. SameRegister(Wrap(x), x) /\ Wrap(x) \in Int
    BY <1>1, <2>1, SameWrap, NarrowOrWide
  <2>3. SameRegister(Decode(Encode(Wrap(x))), Wrap(x)) /\ SameRegister(Decode(Encode(x)), x)
    BY <1>1, <1>3, DecodeEncoded
  <2>4. /\ Decode(Encode(Wrap(x))) \in CInteger /\ Decode(Encode(x)) \in CInteger
        /\ Decode(Encode(Wrap(x))) \in Int /\ Decode(Encode(x)) \in Int
    BY DecodeType, NarrowOrWide
  <2>5. SameRegister(x, Decode(Encode(x)))
    BY <1>1, <2>3, <2>4, SameBack
  <2>6. SameRegister(Decode(Encode(Wrap(x))), x)
    BY <1>1, <2>2, <2>3, <2>4, SameThrough
  <2>7. SameRegister(Decode(Encode(Wrap(x))), Decode(Encode(x)))
    BY <1>1, <2>4, <2>5, <2>6, SameThrough
  <2> QED
    BY <2>4, <2>7, SameFits
<1> QED
  BY <1>2, <1>3, NarrowOrWide

(* A quotient is no larger than the dividend. *)
LEMMA QuotientShrinks ==
  ASSUME NEW a \in Values, NEW b \in Int
  PROVE  CDiv(a, b) \in Values
<1>1. /\ \A x \in Nat : \A d \in Nat \ {0} : x \div d \in 0 .. x
      /\ a \in Int /\ Half3(Trits) \in Nat /\ a \in -Half3(Trits) .. Half3(Trits)
  <2>1. ASSUME NEW x \in Nat, NEW d \in Nat \ {0} PROVE x \div d \in 0 .. x
    <3> DEFINE q == x \div d
    <3>1. q \in Int /\ q >= 0 /\ d * q <= x
      OBVIOUS
    <3> HIDE DEF q
    <3>2. q <= d * q
      BY <3>1
    <3> QED
      BY <3>1, <3>2 DEF q
  <2> QED
    BY <2>1, HalfType DEF Values
<1>2. ASSUME NEW d \in Nat \ {0} PROVE CQuot(a, d) \in Values /\ -CQuot(a, d) \in Values
  <2>1. CASE a < 0
    <3>1. -a \in Nat
      BY <1>1, <2>1
    <3>2. (-a) \div d \in 0 .. -a
      BY <1>1, <3>1
    <3> QED
      BY <1>1, <2>1, <3>2 DEF CQuot, Values
  <2>2. CASE a >= 0
    <3>1. a \div d \in 0 .. a
      BY <1>1, <2>2
    <3> QED
      BY <1>1, <2>2, <3>1 DEF CQuot, Values
  <2> QED
    BY <1>1, <2>1, <2>2
<1>3. 0 \in Values
  BY HalfType DEF Values
<1>4. /\ b > 0 => b \in Nat \ {0}
      /\ b < 0 => -b \in Nat \ {0}
  OBVIOUS
<1>5. CASE b = 0
  BY <1>3, <1>5 DEF CDiv
<1>6. CASE b > 0
  BY <1>2, <1>4, <1>6 DEF CDiv
<1>7. CASE b < 0
  BY <1>2, <1>4, <1>7 DEF CDiv
<1> QED
  BY <1>5, <1>6, <1>7

(* Negation trit by trit, and by way of the value. *)
LEMMA NotIsNeg == \A w : Decode(Not(w)) = Decode(Encode(-Decode(w)))
<1> TAKE w
<1> DEFINE d == Decode(w)
           u == DecodeUnbounded(w)
           r == Decode(Not(w))
           e == Decode(Encode(-d))
<1>1. /\ d \in Values /\ d \in Int /\ u \in Int /\ -d \in Values
      /\ r \in CInteger /\ r \in Int /\ e \in CInteger /\ e \in Int
  BY DecodedIs, ValueRange, NarrowOrWide
<1>2. DecodeUnbounded(Not(w)) = -u
  BY NotNegates
<1>3. SameRegister(d, u) /\ SameRegister(r, -u) /\ SameRegister(e, -d)
  BY <1>1, <1>2, DecodeWraps, DecodeEncoded
<1> HIDE DEF d, u, r, e
<1>4. SameRegister(-1 * d, -1 * u)
  BY <1>1, <1>3, SameTimes
<1>5. SameRegister(-d, -u)
  BY <1>1, <1>4
<1>6. SameRegister(e, -u)
  BY <1>1, <1>3, <1>5, SameThrough
<1>7. SameRegister(-u, e)
  BY <1>1, <1>6, SameBack
<1>8. r = e
  BY <1>1, <1>3, <1>7, SameThrough, SameFits
<1> QED
  BY <1>8 DEF r, e, d
=============================================================================
