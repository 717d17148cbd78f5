----------------------------- MODULE BaseProofs -----------------------------
(***************************************************************************)
(* What the proofs about every component rest on, for all sizes.  First    *)
(* the machine integers of CInt and the loops of the runtime: induction    *)
(* over the iterations, that a loop's recursive function has its equation, *)
(* and that a sum of digits times the powers of a radix has those digits   *)
(* and is the only one that has.  Then the sequences that a walk over      *)
(* statements builds: what appending an element does to a count of         *)
(* indices, and what FlattenSeq makes of a sequence of sequences with one  *)
(* more at its end or at its front.                                        *)
(***************************************************************************)
EXTENDS CInt, Sequences, SequencesExt, TLAPS,
        WellFoundedInduction, SequenceTheorems, FiniteSetTheorems

(* A two's complement register keeps what fits it. *)
LEMMA WrapToIdentity ==
  ASSUME NEW max \in Nat, NEW x \in -max - 1 .. max
  PROVE  WrapTo(x, max) = x
<1> DEFINE n == 2 * (max + 1)
           z == x + max + 1
<1>1. n \in Nat /\ n > 0 /\ z \in 0 .. n - 1
  OBVIOUS
<1> HIDE DEF n, z
<1>2. z % n = z
  BY <1>1, Z3
<1> QED
  BY <1>2 DEF WrapTo, n, z

LEMMA WrapIdentity ==
  ASSUME NEW x \in CInteger
  PROVE  Wrap(x) = x
BY WrapToIdentity, MaxIntAssumption DEF Wrap, CInteger, MinInt

(* Whatever is computed, a register holds a value of its range. *)
LEMMA WrapToType ==
  ASSUME NEW x \in Int, NEW max \in Nat
  PROVE  WrapTo(x, max) \in -max - 1 .. max
<1> DEFINE n == 2 * (max + 1)
           z == x + max + 1
<1>1. n \in Nat /\ n > 0 /\ z \in Int
  OBVIOUS
<1> HIDE DEF n, z
<1>2. z % n \in 0 .. n - 1
  BY <1>1, Z3
<1> QED
  BY <1>2 DEF WrapTo, n, z

LEMMA WrapType ==
  ASSUME NEW x \in Int
  PROVE  Wrap(x) \in CInteger
BY WrapToType, MaxIntAssumption DEF Wrap, CInteger, MinInt

-----------------------------------------------------------------------------
(* Every nonempty set of naturals has a least element. *)
LEMMA LeastNat ==
  ASSUME NEW S \in SUBSET Nat, S # {}
  PROVE  \E m \in S : \A n \in S : m <= n
<1> DEFINE R == {p \in Nat \X Nat : p[1] < p[2]}
<1>1. IsWellFoundedOn(R, Nat)
  BY NatLessThanWellFounded DEF OpToRel
<1>2. \A x \in Nat, y \in Nat : ~(<<y, x>> \in R) => x <= y
  OBVIOUS
<1> HIDE DEF R
<1>3. PICK m \in S : \A n \in S : ~(<<n, m>> \in R)
  BY <1>1, WFMin
<1>4. \A n \in S : m <= n
  BY <1>2, <1>3
<1> QED
  BY <1>4

(* Induction, on the set of the naturals that have the property. *)
LEMMA SetInduction ==
  ASSUME NEW S, 0 \in S, \A n \in Nat : n \in S => n + 1 \in S
  PROVE  \A n \in Nat : n \in S
<1> SUFFICES ASSUME Nat \ S # {} PROVE FALSE
  OBVIOUS
<1>1. PICK m \in Nat \ S : \A n \in Nat \ S : m <= n
  BY LeastNat
<1>2. m # 0 /\ m - 1 \in Nat /\ m - 1 \in S
  BY <1>1
<1>3. (m - 1) + 1 \in S
  BY <1>2
<1> QED
  BY <1>1, <1>3

(* g holds the successive states of a loop of N iterations from a, whose   *)
(* i-th iteration applies step to the state and i.                         *)
IsLoop(g, a, step, N) ==
  g = [i \in 0 .. N |-> IF i = 0 THEN a ELSE step[<<g[i - 1], i>>]]

(* Every such loop has its function of states. *)
LEMMA LoopExists ==
  ASSUME NEW A, NEW a \in A, NEW step \in [A \X Nat -> A], NEW N \in Nat
  PROVE  \E g \in [0 .. N -> A] : IsLoop(g, a, step, N)
<1> DEFINE Is(g, n) ==
             \A i \in 0 .. n : g[i] = IF i = 0 THEN a ELSE step[<<g[i - 1], i>>]
           S == {n \in Nat : \E g \in [0 .. n -> A] : Is(g, n)}
<1>1. 0 \in S
  <2>1. [i \in 0 .. 0 |-> a] \in [0 .. 0 -> A] /\ Is([i \in 0 .. 0 |-> a], 0)
    OBVIOUS
  <2> QED
    BY <2>1
<1>2. ASSUME NEW n \in Nat, n \in S PROVE n + 1 \in S
  <2>1. PICK g \in [0 .. n -> A] : Is(g, n)
    BY <1>2
  <2> DEFINE h == [i \in 0 .. n + 1 |-> IF i = n + 1 THEN step[<<g[n], n + 1>>] ELSE g[i]]
  <2>2. g[n] \in A /\ <<g[n], n + 1>> \in A \X Nat
    OBVIOUS
  <2>3. h \in [0 .. n + 1 -> A]
    <3>1. step[<<g[n], n + 1>>] \in A
      BY <2>2
    <3>2. \A i \in 0 .. n + 1 : i # n + 1 => i \in 0 .. n
      OBVIOUS
    <3> QED
      BY <3>1, <3>2
  <2>4. ASSUME NEW i \in 0 .. n + 1
        PROVE h[i] = IF i = 0 THEN a ELSE step[<<h[i - 1], i>>]
    <3>1. CASE i = n + 1
      <4>1. h[n] = g[n] /\ n = i - 1 /\ i # 0
        BY <3>1
      <4>2. h[i] = step[<<g[n], i>>]
        BY <3>1
      <4> QED
        BY <4>1, <4>2
    <3>2. CASE i # n + 1
      <4>1. i \in 0 .. n /\ h[i] = g[i]
        BY <3>2
      <4>2. i # 0 => h[i - 1] = g[i - 1]
        BY <3>2
      <4> QED
        BY <4>1, <4>2, <2>1
    <3> QED
      BY <3>1, <3>2
  <2>5. Is(h, n + 1)
    BY <2>4
  <2> HIDE DEF h, Is
  <2> QED
    BY <2>3, <2>5
<1>3. N \in S
  <2> HIDE DEF S
  <2> QED
    BY <1>1, <1>2, SetInduction
<1>4. PICK g \in [0 .. N -> A] : Is(g, N)
  BY <1>3
<1>5. IsLoop(g, a, step, N)
  BY <1>4 DEF IsLoop
<1> QED
  BY <1>5

(* Two such loops that start and step alike go through the same states. *)
LEMMA LoopUnique ==
  ASSUME NEW a, NEW step, NEW N \in Nat, NEW M \in Nat, NEW g, NEW h,
         IsLoop(g, a, step, N), IsLoop(h, a, step, M)
  PROVE  \A i \in Nat : i <= N /\ i <= M => g[i] = h[i]
<1> DEFINE S == {i \in Nat : i <= N /\ i <= M => g[i] = h[i]}
<1>1. 0 \in S
  BY DEF IsLoop
<1>2. ASSUME NEW i \in Nat, i \in S PROVE i + 1 \in S
  <2> SUFFICES ASSUME i + 1 <= N, i + 1 <= M PROVE g[i + 1] = h[i + 1]
    OBVIOUS
  <2>1. i + 1 \in 0 .. N /\ i + 1 \in 0 .. M /\ i + 1 # 0 /\ (i + 1) - 1 = i
    OBVIOUS
  <2>2. g[i + 1] = step[<<g[i], i + 1>>]
    BY <2>1 DEF IsLoop
  <2>3. h[i + 1] = step[<<h[i], i + 1>>]
    BY <2>1 DEF IsLoop
  <2> QED
    BY <1>2, <2>2, <2>3
<1> HIDE DEF S
<1>3. \A i \in Nat : i \in S
  BY <1>1, <1>2, SetInduction
<1> QED
  BY <1>3 DEF S

(* A loop without an end has its function of states too. *)
IsEndless(f, a, step) == f[0] = a /\ \A n \in Nat : f[n + 1] = step[<<f[n], n + 1>>]

LEMMA EndlessLoopExists ==
  ASSUME NEW A, NEW a \in A, NEW step \in [A \X Nat -> A]
  PROVE  \E f \in [Nat -> A] : IsEndless(f, a, step)
<1> DEFINE upTo(n) == CHOOSE g \in [0 .. n -> A] : IsLoop(g, a, step, n)
           f == [n \in Nat |-> upTo(n)[n]]
<1>1. \A n \in Nat : upTo(n) \in [0 .. n -> A] /\ IsLoop(upTo(n), a, step, n)
  BY LoopExists
<1> HIDE DEF upTo
<1>2. f \in [Nat -> A]
  BY <1>1
<1>3. f[0] = a
  <2>1. IsLoop(upTo(0), a, step, 0) /\ 0 \in 0 .. 0
    BY <1>1
  <2>2. upTo(0)[0] = a
    BY <2>1 DEF IsLoop
  <2> QED
    BY <2>2
<1>4. ASSUME NEW n \in Nat PROVE f[n + 1] = step[<<f[n], n + 1>>]
  <2>1. n + 1 \in Nat /\ n + 1 \in 0 .. n + 1 /\ n + 1 # 0 /\ (n + 1) - 1 = n
    OBVIOUS
  <2>2. IsLoop(upTo(n + 1), a, step, n + 1) /\ IsLoop(upTo(n), a, step, n)
    BY <1>1, <2>1
  <2>3. upTo(n + 1)[n + 1] = step[<<upTo(n + 1)[n], n + 1>>]
    BY <2>1, <2>2 DEF IsLoop
  <2>4. upTo(n + 1)[n] = upTo(n)[n]
    BY <2>1, <2>2, LoopUnique
  <2> QED
    BY <2>1, <2>3, <2>4
<1> HIDE DEF f
<1>5. IsEndless(f, a, step)
  BY <1>3, <1>4 DEF IsEndless
<1> QED
  BY <1>2, <1>5

-----------------------------------------------------------------------------
(* Division and the weights of the 2-bit codes. *)
LEMMA QuotIs ==
  ASSUME NEW x \in Int, NEW q \in Int, NEW p \in Int, p > 0, q * p <= x, x < q * p + p
  PROVE  x \div p = q
  OBVIOUS

(* The weights 1, b, b^2, ... of the digits of a number in base b. *)
Radix == {3, 4}
Weights(W, b) == W[0] = 1 /\ \A n \in Nat : W[n] \in Nat \ {0} /\ W[n + 1] = b * W[n]

LEMMA RadixTimes ==
  ASSUME NEW b \in Radix
  PROVE  /\ \A x \in Nat \ {0} : b * x \in Nat \ {0}
         /\ \A x \in Int : b * x \in Int
<1>1. CASE b = 3
  BY <1>1
<1>2. CASE b = 4
  BY <1>2
<1> QED
  BY <1>1, <1>2 DEF Radix

(* A recursive function that multiplies by the radix gives its weights. *)
LEMMA PowersAreWeights ==
  ASSUME NEW b \in Radix, NEW P,
         P = CHOOSE f : f = [n \in Nat |-> IF n = 0 THEN 1 ELSE b * f[n - 1]]
  PROVE  Weights(P, b)
<1> DEFINE A == Nat \ {0}
           a == 1
           step == [p \in A \X Nat |-> b * p[1]]
           F(f) == [n \in Nat |-> IF n = 0 THEN 1 ELSE b * f[n - 1]]
<1>1. a \in A /\ step \in [A \X Nat -> A]
  <2>1. \A x \in A : b * x \in A
    BY RadixTimes
  <2> HIDE DEF A
  <2>2. step \in [A \X Nat -> A]
    BY <2>1
  <2> QED
    BY <2>2 DEF A
<1>2. PICK f \in [Nat -> A] : IsEndless(f, a, step)
  <2> HIDE DEF A, a, step
  <2> QED BY <1>1, EndlessLoopExists
<1>3. \A n \in Nat : f[n] \in A /\ f[n + 1] = b * f[n]
  <2> TAKE n \in Nat
  <2>1. f[n] \in A /\ <<f[n], n + 1>> \in A \X Nat
    BY <1>2
  <2>2. step[<<f[n], n + 1>>] = b * f[n]
    <3> HIDE DEF A
    <3> QED BY <2>1
  <2> QED
    BY <1>2, <2>1, <2>2 DEF IsEndless
<1>4. f = F(f)
  <2>1. ASSUME NEW n \in Nat PROVE f[n] = IF n = 0 THEN 1 ELSE b * f[n - 1]
    <3>1. CASE n # 0
      <4>1. n - 1 \in Nat /\ (n - 1) + 1 = n
        BY <3>1
      <4> QED
        BY <3>1, <4>1, <1>3
    <3> QED
      BY <3>1, <1>2 DEF IsEndless
  <2> QED
    BY <2>1
<1>5. P = F(P)
  <2>1. P = CHOOSE g : g = F(g)
    OBVIOUS
  <2> HIDE DEF F
  <2> QED BY <1>4, <2>1
<1>6. P[0] = 1 /\ \A n \in Nat : P[n + 1] = b * P[n]
  <2>1. \A n \in Nat : P[n] = IF n = 0 THEN 1 ELSE b * P[n - 1]
    BY <1>5
  <2>2. \A n \in Nat : n + 1 \in Nat /\ n + 1 # 0 /\ (n + 1) - 1 = n
    OBVIOUS
  <2> QED
    BY <2>1, <2>2
<1>7. \A n \in Nat : P[n] \in A
  <2> DEFINE S == {n \in Nat : P[n] \in A}
  <2>1. 0 \in S /\ \A n \in Nat : n \in S => n + 1 \in S
    <3>1. 1 \in A /\ \A x \in A : b * x \in A
      BY RadixTimes
    <3> HIDE DEF A
    <3> QED BY <1>6, <3>1
  <2> HIDE DEF S
  <2>2. \A n \in Nat : n \in S
    BY <2>1, SetInduction
  <2> QED
    BY <2>2 DEF S
<1> QED
  BY <1>6, <1>7 DEF Weights

(* The model's powers of 3 and 4 are weights. *)
LEMMA PowersWeigh == Weights(Pow3, 3) /\ Weights(Pow4, 4)
<1>1. /\ Pow3 = CHOOSE f : f = [n \in Nat |-> IF n = 0 THEN 1 ELSE 3 * f[n - 1]]
      /\ Pow4 = CHOOSE f : f = [n \in Nat |-> IF n = 0 THEN 1 ELSE 4 * f[n - 1]]
  BY DEF Pow3, Pow4
<1>2. 3 \in Radix /\ 4 \in Radix
  BY DEF Radix
<1> QED
  BY <1>1, <1>2, PowersAreWeights

LEMMA Pow3Facts ==
  /\ Pow3[0] = 1
  /\ \A n \in Nat : Pow3[n] \in Nat \ {0} /\ Pow3[n + 1] = 3 * Pow3[n]
BY PowersWeigh DEF Weights

LEMMA Pow4Facts ==
  /\ Pow4[0] = 1
  /\ \A n \in Nat : Pow4[n] \in Nat \ {0} /\ Pow4[n + 1] = 4 * Pow4[n]
BY PowersWeigh DEF Weights

LEMMA WeightProduct ==
  ASSUME NEW b \in Radix, NEW W, Weights(W, b), NEW i \in Nat
  PROVE  \A k \in Nat : \E m \in Nat \ {0} : W[i + k] = m * W[i]
<1> DEFINE S == {k \in Nat : \E m \in Nat \ {0} : W[i + k] = m * W[i]}
<1>1. 0 \in S
  <2>1. W[i + 0] = 1 * W[i]
    BY DEF Weights
  <2> QED
    BY <2>1
<1>2. ASSUME NEW k \in Nat, k \in S PROVE k + 1 \in S
  <2>1. PICK m \in Nat \ {0} : W[i + k] = m * W[i]
    BY <1>2
  <2>2. W[i + (k + 1)] = b * W[i + k] /\ W[i] \in Nat
    <3>1. i + (k + 1) = (i + k) + 1 /\ i + k \in Nat
      OBVIOUS
    <3> QED
      BY <3>1 DEF Weights
  <2>3. b * m \in Nat \ {0}
    BY RadixTimes
  <2>4. b * (m * W[i]) = (b * m) * W[i]
    <3>1. CASE b = 3
      BY <2>2, <3>1
    <3>2. CASE b = 4
      BY <2>2, <3>2
    <3> QED
      BY <3>1, <3>2 DEF Radix
  <2>5. W[i + (k + 1)] = (b * m) * W[i]
    BY <2>1, <2>2, <2>4
  <2> QED
    BY <2>3, <2>5
<1> HIDE DEF S
<1>3. \A k \in Nat : k \in S
  BY <1>1, <1>2, SetInduction
<1> QED
  BY <1>3 DEF S

-----------------------------------------------------------------------------
(* The loop that adds up digits times weights: e[i] is the number that the *)
(* first i digits d make.                                                  *)
IsSum(e, d, W, N) == e[0] = 0 /\ \A i \in 1 .. N : e[i] = e[i - 1] + d[i - 1] * W[i - 1]

IntegersBelow(d, N) == \A i \in 0 .. N - 1 : d[i] \in Int
DigitsBelow(d, N, b) == \A i \in 0 .. N - 1 : d[i] \in 0 .. b - 1

LEMMA DigitsAreIntegers ==
  ASSUME NEW N \in Nat, NEW d, NEW b \in Radix, DigitsBelow(d, N, b)
  PROVE  IntegersBelow(d, N)
BY DEF IntegersBelow, DigitsBelow, Radix

(* A sum of weighed integers is an integer. *)
LEMMA SumType ==
  ASSUME NEW b, NEW W, Weights(W, b), NEW N \in Nat, NEW d, IntegersBelow(d, N),
         NEW e, IsSum(e, d, W, N)
  PROVE  \A i \in 0 .. N : e[i] \in Int
<1> DEFINE S == {i \in Nat : i <= N => e[i] \in Int}
<1>1. 0 \in S
  BY DEF IsSum
<1>2. ASSUME NEW i \in Nat, i \in S PROVE i + 1 \in S
  <2> SUFFICES ASSUME i + 1 <= N PROVE e[i + 1] \in Int
    OBVIOUS
  <2>1. i + 1 \in 1 .. N /\ (i + 1) - 1 = i /\ i \in 0 .. N - 1
    OBVIOUS
  <2>2. e[i + 1] = e[i] + d[i] * W[i]
    BY <2>1 DEF IsSum
  <2>3. d[i] \in Int /\ e[i] \in Int /\ W[i] \in Int
    BY <1>2, <2>1 DEF IntegersBelow, Weights
  <2>4. d[i] * W[i] \in Int
    BY <2>3
  <2> QED
    BY <2>2, <2>3, <2>4
<1> HIDE DEF S
<1>3. \A i \in Nat : i \in S
  BY <1>1, <1>2, SetInduction
<1> QED
  BY <1>3 DEF S

(* The first i digits make less than the weight of the next one. *)
LEMMA SumRange ==
  ASSUME NEW b \in Radix, NEW W, Weights(W, b), NEW N \in Nat, NEW d, DigitsBelow(d, N, b),
         NEW e, IsSum(e, d, W, N)
  PROVE  \A i \in 0 .. N : e[i] \in 0 .. W[i] - 1
<1> DEFINE S == {i \in Nat : i <= N => e[i] \in 0 .. W[i] - 1}
<1>1. 0 \in S
  BY DEF IsSum, Weights
<1>2. ASSUME NEW i \in Nat, i \in S PROVE i + 1 \in S
  <2> SUFFICES ASSUME i + 1 <= N PROVE e[i + 1] \in 0 .. W[i + 1] - 1
    OBVIOUS
  <2>1. i + 1 \in 1 .. N /\ (i + 1) - 1 = i /\ i \in 0 .. N - 1
    OBVIOUS
  <2>2. e[i + 1] = e[i] + d[i] * W[i]
    BY <2>1 DEF IsSum
  <2>3. d[i] \in 0 .. b - 1 /\ e[i] \in 0 .. W[i] - 1
    BY <1>2, <2>1 DEF DigitsBelow
  <2>4. W[i + 1] = b * W[i] /\ W[i] \in Nat
    BY DEF Weights
  <2>5. CASE b = 3
    <3>1. d[i] = 0 \/ d[i] = 1 \/ d[i] = 2
      BY <2>3, <2>5
    <3> QED
      BY <2>2, <2>3, <2>4, <2>5, <3>1
  <2>6. CASE b = 4
    <3>1. d[i] = 0 \/ d[i] = 1 \/ d[i] = 2 \/ d[i] = 3
      BY <2>3, <2>6
    <3> QED
      BY <2>2, <2>3, <2>4, <2>6, <3>1
  <2> QED
    BY <2>5, <2>6 DEF Radix
<1> HIDE DEF S
<1>3. \A i \in Nat : i \in S
  BY <1>1, <1>2, SetInduction
<1> QED
  BY <1>3 DEF S

(* Above the first i digits a sum adds multiples of the i-th weight. *)
LEMMA SumSplit ==
  ASSUME NEW b \in Radix, NEW W, Weights(W, b), NEW N \in Nat, NEW d, IntegersBelow(d, N),
         NEW e, IsSum(e, d, W, N), NEW i \in 0 .. N
  PROVE  \E m \in Int : e[N] = e[i] + m * W[i]
<1> DEFINE S == {k \in Nat : i + k <= N => \E m \in Int : e[i + k] = e[i] + m * W[i]}
<1>0. W[i] \in Nat /\ e[i] \in Int
  <2>1. \A k \in 0 .. N : e[k] \in Int
    BY SumType
  <2> QED
    BY <2>1 DEF Weights
<1>1. 0 \in S
  <2>1. e[i + 0] = e[i] + 0 * W[i]
    BY <1>0
  <2> QED
    BY <2>1
<1>2. ASSUME NEW k \in Nat, k \in S PROVE k + 1 \in S
  <2> SUFFICES ASSUME i + (k + 1) <= N
               PROVE  \E m \in Int : e[i + (k + 1)] = e[i] + m * W[i]
    OBVIOUS
  <2> DEFINE j == i + k
  <2>1. j + 1 \in 1 .. N /\ (j + 1) - 1 = j /\ j \in 0 .. N - 1 /\ i + (k + 1) = j + 1 /\ j <= N
    OBVIOUS
  <2>2. PICK m \in Int : e[j] = e[i] + m * W[i]
    BY <1>2, <2>1
  <2>3. PICK q \in Nat \ {0} : W[j] = q * W[i]
    <3>1. i \in Nat /\ k \in Nat
      OBVIOUS
    <3>2. \E q \in Nat \ {0} : W[i + k] = q * W[i]
      BY <3>1, WeightProduct
    <3> QED
      BY <3>2
  <2> HIDE DEF j
  <2>4. e[j + 1] = e[j] + d[j] * W[j] /\ d[j] \in Int
    BY <2>1 DEF IsSum, IntegersBelow
  <2>5. d[j] * (q * W[i]) = (d[j] * q) * W[i] /\ d[j] * q \in Int
    BY <1>0, <2>4
  <2>6. (m + d[j] * q) * W[i] = m * W[i] + (d[j] * q) * W[i]
    BY <1>0, <2>5
  <2>7. m * W[i] \in Int /\ (d[j] * q) * W[i] \in Int
    BY <1>0, <2>5
  <2>8. e[j + 1] = e[i] + (m + d[j] * q) * W[i] /\ m + d[j] * q \in Int
    BY <1>0, <2>2, <2>3, <2>4, <2>5, <2>6, <2>7
  <2> QED
    BY <2>1, <2>8
<1> HIDE DEF S
<1>3. \A k \in Nat : k \in S
  BY <1>1, <1>2, SetInduction
<1>4. N - i \in Nat /\ i + (N - i) = N
  OBVIOUS
<1> QED
  BY <1>3, <1>4 DEF S

(* A digit between a multiple of the next weight and a rest below its own. *)
LEMMA DigitOfParts ==
  ASSUME NEW b \in Radix, NEW W, Weights(W, b), NEW i \in Nat,
         NEW lo \in 0 .. W[i] - 1, NEW c \in 0 .. b - 1, NEW m \in Int
  PROVE  ((lo + c * W[i] + m * W[i + 1]) \div W[i]) % b = c
<1> DEFINE p == W[i]
           x == lo + c * W[i] + m * W[i + 1]
           q == c + b * m
<1>1. p \in Nat /\ p > 0 /\ W[i + 1] = b * p
  BY DEF Weights
<1>2. x = lo + q * p /\ x \in Int /\ q \in Int /\ c \in Int /\ lo \in 0 .. p - 1
  <2>1. CASE b = 3
    BY <1>1, <2>1
  <2>2. CASE b = 4
    BY <1>1, <2>2
  <2> QED
    BY <2>1, <2>2 DEF Radix
<1>3. q % b = c
  <2>1. CASE b = 3
    BY <2>1
  <2>2. CASE b = 4
    BY <2>2
  <2> QED
    BY <2>1, <2>2 DEF Radix
<1> HIDE DEF x, p, q
<1>4. x \div p = q
  <2>1. q * p \in Int
    BY <1>1, <1>2
  <2>2. q * p <= x /\ x < q * p + p
    BY <1>1, <1>2, <2>1
  <2> QED
    BY <1>1, <1>2, <2>2, QuotIs
<1> QED
  BY <1>3, <1>4 DEF x, p

(* The digits of a sum are those summed, and 0 above them. *)
LEMMA SumDigits ==
  ASSUME NEW b \in Radix, NEW W, Weights(W, b), NEW N \in Nat, NEW d, DigitsBelow(d, N, b),
         NEW e, IsSum(e, d, W, N)
  PROVE  /\ e[N] \in 0 .. W[N] - 1
         /\ \A i \in 0 .. N - 1 : (e[N] \div W[i]) % b = d[i]
         /\ \A i \in Nat : i >= N => (e[N] \div W[i]) % b = 0
<1>1. e[N] \in 0 .. W[N] - 1
  <2>1. \A i \in 0 .. N : e[i] \in 0 .. W[i] - 1
    BY SumRange
  <2> QED
    BY <2>1
<1>2. ASSUME NEW i \in 0 .. N - 1 PROVE (e[N] \div W[i]) % b = d[i]
  <2>1. i + 1 \in 0 .. N /\ i + 1 \in 1 .. N /\ (i + 1) - 1 = i /\ i \in 0 .. N /\ i \in Nat
    OBVIOUS
  <2>2. PICK m \in Int : e[N] = e[i + 1] + m * W[i + 1]
    BY <2>1, SumSplit, DigitsAreIntegers
  <2>3. e[i + 1] = e[i] + d[i] * W[i]
    BY <2>1 DEF IsSum
  <2>4. e[i] \in 0 .. W[i] - 1 /\ d[i] \in 0 .. b - 1
    BY <2>1, SumRange DEF DigitsBelow
  <2>5. e[N] = e[i] + d[i] * W[i] + m * W[i + 1]
    BY <2>2, <2>3
  <2> QED
    BY <2>1, <2>4, <2>5, DigitOfParts
<1>3. ASSUME NEW i \in Nat, i >= N PROVE (e[N] \div W[i]) % b = 0
  <2>1. PICK m \in Nat \ {0} : W[N + (i - N)] = m * W[N]
    <3>1. i - N \in Nat
      BY <1>3
    <3> QED
      BY <3>1, WeightProduct
  <2>2. W[N] \in Nat /\ W[i] \in Nat /\ W[i + 1] \in Nat /\ N + (i - N) = i
    BY DEF Weights
  <2>3. m * W[N] >= W[N]
    BY <2>2
  <2>4. e[N] \in 0 .. W[i] - 1
    BY <1>1, <2>1, <2>2, <2>3
  <2>5. e[N] = e[N] + 0 * W[i] + 0 * W[i + 1]
    BY <2>2, <2>4
  <2>6. 0 \in 0 .. b - 1
    BY DEF Radix
  <2> QED
    BY <2>4, <2>5, <2>6, DigitOfParts
<1> QED
  BY <1>1, <1>2, <1>3

(* The states of the loop exist, and its digits decide them. *)
SumStates(e, d, W, N) ==
  e = [i \in 0 .. N |-> IF i = 0 THEN 0 ELSE e[i - 1] + d[i - 1] * W[i - 1]]

LEMMA SumStatesAdd ==
  ASSUME NEW N \in Nat, NEW d, NEW W, NEW e, SumStates(e, d, W, N)
  PROVE  IsSum(e, d, W, N)
<1>1. \A i \in 0 .. N : e[i] = IF i = 0 THEN 0 ELSE e[i - 1] + d[i - 1] * W[i - 1]
  BY DEF SumStates
<1>2. 0 \in 0 .. N /\ \A i \in 1 .. N : i \in 0 .. N /\ i # 0
  OBVIOUS
<1> QED
  BY <1>1, <1>2 DEF IsSum

(* Every sequence of digits has its sums. *)
LEMMA SumExists ==
  ASSUME NEW b, NEW W, Weights(W, b), NEW N \in Nat, NEW d, IntegersBelow(d, N)
  PROVE  \E e : SumStates(e, d, W, N)
<1> DEFINE term(i) == IF i \in 1 .. N THEN d[i - 1] * W[i - 1] ELSE 0
           step == [p \in Int \X Nat |-> p[1] + term(p[2])]
           a == 0
<1>1. \A i \in Nat : term(i) \in Int
  <2>1. \A i \in 1 .. N : i - 1 \in 0 .. N - 1 /\ i - 1 \in Nat
    OBVIOUS
  <2>2. \A i \in 1 .. N : d[i - 1] \in Int /\ W[i - 1] \in Int
    BY <2>1 DEF Weights, IntegersBelow
  <2>3. \A i \in 1 .. N : d[i - 1] * W[i - 1] \in Int
    BY <2>2
  <2> QED
    BY <2>3
<1> HIDE DEF term
<1>2. step \in [Int \X Nat -> Int] /\ a \in Int
  BY <1>1
<1>3. PICK e \in [0 .. N -> Int] : IsLoop(e, a, step, N)
  <2> HIDE DEF step, a
  <2> QED BY <1>2, LoopExists
<1>4. ASSUME NEW i \in 1 .. N PROVE step[<<e[i - 1], i>>] = e[i - 1] + d[i - 1] * W[i - 1]
  <2>1. i - 1 \in 0 .. N /\ i \in Nat
    OBVIOUS
  <2>2. e[i - 1] \in Int
    BY <2>1
  <2>3. step[<<e[i - 1], i>>] = e[i - 1] + term(i)
    BY <2>1, <2>2
  <2> QED
    BY <2>3 DEF term
<1>5. \A i \in 0 .. N : i = 0 \/ i \in 1 .. N
  OBVIOUS
<1> HIDE DEF step
<1> QED
  BY <1>3, <1>4, <1>5 DEF IsLoop, SumStates

(* And only one value. *)
LEMMA SumUnique ==
  ASSUME NEW W, NEW N \in Nat, NEW d, NEW c, \A i \in 0 .. N - 1 : d[i] = c[i],
         NEW e, NEW f, IsSum(e, d, W, N), IsSum(f, c, W, N)
  PROVE  \A i \in 0 .. N : e[i] = f[i]
<1> DEFINE S == {i \in Nat : i <= N => e[i] = f[i]}
<1>1. 0 \in S
  BY DEF IsSum
<1>2. ASSUME NEW i \in Nat, i \in S PROVE i + 1 \in S
  <2> SUFFICES ASSUME i + 1 <= N PROVE e[i + 1] = f[i + 1]
    OBVIOUS
  <2>1. i + 1 \in 1 .. N /\ (i + 1) - 1 = i /\ i \in 0 .. N - 1 /\ i <= N
    OBVIOUS
  <2>2. e[i + 1] = e[i] + d[i] * W[i] /\ f[i + 1] = f[i] + c[i] * W[i]
    BY <2>1 DEF IsSum
  <2> QED
    BY <1>2, <2>1, <2>2
<1> HIDE DEF S
<1>3. \A i \in Nat : i \in S
  BY <1>1, <1>2, SetInduction
<1> QED
  BY <1>3 DEF S

-----------------------------------------------------------------------------
(* The indices of s that hold an element of P. *)
Places(s, P) == {i \in DOMAIN s : s[i] \in P}

LEMMA AppendFacts ==
  ASSUME NEW S, NEW s \in Seq(S), NEW e \in S
  PROVE  /\ Append(s, e) \in Seq(S)
         /\ DOMAIN s = 1 .. Len(s) /\ Len(s) \in Nat
         /\ DOMAIN Append(s, e) = 1 .. Len(s) + 1
         /\ \A i \in 1 .. Len(s) : Append(s, e)[i] = s[i]
         /\ Append(s, e)[Len(s) + 1] = e
  OBVIOUS

LEMMA CountAppend ==
  ASSUME NEW S, NEW s \in Seq(S), NEW e \in S, NEW P
  PROVE  /\ Cardinality(Places(s, P)) \in Nat
         /\ Cardinality(Places(Append(s, e), P)) =
              Cardinality(Places(s, P)) + (IF e \in P THEN 1 ELSE 0)
<1> DEFINE n == Len(s)
<1>1. IsFiniteSet(Places(s, P)) /\ n + 1 \notin Places(s, P)
  <2>1. Places(s, P) \in SUBSET (1 .. n) /\ n \in Nat
    BY DEF Places
  <2>2. IsFiniteSet(1 .. n)
    BY <2>1, FS_Interval
  <2> QED
    BY <2>1, <2>2, FS_Subset
<1>2. Places(Append(s, e), P) =
        IF e \in P THEN Places(s, P) \cup {n + 1} ELSE Places(s, P)
  <2> DEFINE t == Append(s, e)
  <2>1. /\ DOMAIN s = 1 .. n /\ n \in Nat /\ DOMAIN t = 1 .. n + 1
        /\ \A i \in 1 .. n : t[i] = s[i]
        /\ t[n + 1] = e
    BY AppendFacts
  <2> HIDE DEF t, n
  <2>2. Places(t, P) = IF e \in P THEN Places(s, P) \cup {n + 1} ELSE Places(s, P)
    BY <2>1 DEF Places
  <2> QED
    BY <2>2 DEF t
<1>3. Cardinality(Places(s, P)) \in Nat
  BY <1>1, FS_CardinalityType
<1>4. Cardinality(Places(s, P) \cup {n + 1}) = Cardinality(Places(s, P)) + 1
  BY <1>1, FS_AddElement
<1> HIDE DEF n
<1> QED
  BY <1>2, <1>3, <1>4

LEMMA PairConcat ==
  ASSUME NEW a, NEW b
  PROVE  <<a>> \o <<b>> = <<a, b>>
<1> DEFINE S == {a, b}
<1>1. <<a>> \in Seq(S) /\ <<b>> \in Seq(S) /\ <<a, b>> \in Seq(S)
  OBVIOUS
<1>2. /\ Len(<<a>>) = 1 /\ Len(<<b>>) = 1 /\ Len(<<a, b>>) = 2
      /\ <<a>>[1] = a /\ <<b>>[1] = b /\ <<a, b>>[1] = a /\ <<a, b>>[2] = b
  OBVIOUS
<1> HIDE DEF S
<1>3. /\ <<a>> \o <<b>> \in Seq(S) /\ Len(<<a>> \o <<b>>) = 2
      /\ (<<a>> \o <<b>>)[1] = a /\ (<<a>> \o <<b>>)[2] = b
  BY <1>1, <1>2
<1> DEFINE c == <<a>> \o <<b>>
           e == <<a, b>>
<1>4. /\ c \in Seq(S) /\ e \in Seq(S) /\ Len(c) = 2 /\ Len(e) = 2
      /\ \A i \in 1 .. 2 : c[i] = e[i]
  <2>1. \A i \in 1 .. 2 : i = 1 \/ i = 2
    OBVIOUS
  <2> QED
    BY <1>1, <1>2, <1>3, <2>1
<1> HIDE DEF c, e
<1>5. c = e
  BY <1>4, SeqEqual
<1> QED
  BY <1>5 DEF c, e

-----------------------------------------------------------------------------
(* h accumulates the elements of seqs: h[i] is what the first i make up.   *)
Accumulates(h, seqs) ==
  /\ h[0] = <<>>
  /\ \A i \in 1 .. Len(seqs) : h[i] = h[i - 1] \o seqs[i]

LEMMA AccumulatorExists ==
  ASSUME NEW S, NEW seqs \in Seq(Seq(S))
  PROVE  \E h \in [0 .. Len(seqs) -> Seq(S)] : Accumulates(h, seqs)
<1> DEFINE N == Len(seqs)
           A == Seq(S)
           part(i) == IF i \in 1 .. N THEN seqs[i] ELSE <<>>
           step == [p \in A \X Nat |-> p[1] \o part(p[2])]
<1>1. N \in Nat /\ <<>> \in A /\ \A i : part(i) \in A
  OBVIOUS
<1>2. step \in [A \X Nat -> A]
  <2>1. \A a, b \in A : a \o b \in A
    OBVIOUS
  <2> HIDE DEF A, part
  <2> QED BY <1>1, <2>1
<1>3. PICK h \in [0 .. N -> A] : IsLoop(h, <<>>, step, N)
  <2> HIDE DEF A, step, N
  <2> QED BY <1>1, <1>2, LoopExists
<1>4. ASSUME NEW i \in 1 .. N PROVE h[i] = h[i - 1] \o seqs[i]
  <2>1. i \in 0 .. N /\ i # 0 /\ i - 1 \in 0 .. N /\ i \in Nat
    BY <1>1
  <2>2. h[i] = step[<<h[i - 1], i>>]
    <3> HIDE DEF step, N, A
    <3> QED BY <1>3, <2>1 DEF IsLoop
  <2>3. <<h[i - 1], i>> \in A \X Nat
    <3> HIDE DEF A, N
    <3> QED BY <2>1
  <2>4. step[<<h[i - 1], i>>] = h[i - 1] \o part(i)
    <3> HIDE DEF A, N, part
    <3> QED BY <2>3
  <2> QED
    BY <2>2, <2>4
<1>5. h[0] = <<>>
  <2> HIDE DEF step, A
  <2> QED BY <1>1, <1>3 DEF IsLoop
<1> QED
  BY <1>4, <1>5 DEF Accumulates

LEMMA FlattenAccumulates ==
  ASSUME NEW S, NEW seqs \in Seq(Seq(S)),
         NEW h \in [0 .. Len(seqs) -> Seq(S)], Accumulates(h, seqs)
  PROVE  FlattenSeq(seqs) = h[Len(seqs)]
<1> DEFINE N == Len(seqs)
           F(f) == [i \in 1 .. N |-> IF i = 1 THEN seqs[i] ELSE f[i - 1] \o seqs[i]]
           flatten == CHOOSE f : f = F(f)
           g == [i \in 1 .. N |-> h[i]]
<1>1. FlattenSeq(seqs) = IF N = 0 THEN seqs ELSE flatten[N]
  BY DEF FlattenSeq
<1>2. N \in Nat /\ (N = 0 => seqs = <<>>)
  OBVIOUS
<1>3. h[0] = <<>> /\ \A i \in 1 .. N : h[i] = h[i - 1] \o seqs[i]
  BY DEF Accumulates
<1>4. N # 0 => h[1] = seqs[1]
  <2> SUFFICES ASSUME N # 0 PROVE h[1] = seqs[1]
    OBVIOUS
  <2>1. 1 \in 1 .. N /\ seqs[1] \in Seq(S)
    BY <1>2
  <2>2. h[1] = h[1 - 1] \o seqs[1] /\ h[0] = <<>>
    <3> HIDE DEF N
    <3> QED BY <1>3, <2>1
  <2>3. <<>> \o seqs[1] = seqs[1] /\ 1 - 1 = 0
    BY <2>1
  <2> QED
    BY <2>2, <2>3
<1> HIDE DEF N
<1>5. g = F(g)
  <2>1. ASSUME NEW i \in 1 .. N PROVE g[i] = IF i = 1 THEN seqs[i] ELSE g[i - 1] \o seqs[i]
    <3>1. g[i] = h[i] /\ N # 0
      BY <1>2
    <3>2. h[i] = h[i - 1] \o seqs[i]
      BY <1>3
    <3>3. i # 1 => g[i - 1] = h[i - 1]
      BY <1>2
    <3> HIDE DEF g
    <3> QED
      BY <3>1, <3>2, <3>3, <1>4
  <2> QED
    BY <2>1
<1>6. flatten = F(flatten)
  <2> HIDE DEF F
  <2> QED BY <1>5
<1> HIDE DEF flatten
<1>7. \A i \in 1 .. N : flatten[i] = IF i = 1 THEN seqs[i] ELSE flatten[i - 1] \o seqs[i]
  BY <1>6
<1>8. \A i \in 1 .. N : flatten[i] = h[i]
  <2> DEFINE I == {n \in Nat : n \in 1 .. N => flatten[n] = h[n]}
  <2>1. 0 \in I
    OBVIOUS
  <2>2. ASSUME NEW n \in Nat, n \in I PROVE n + 1 \in I
    <3> SUFFICES ASSUME n + 1 \in 1 .. N PROVE flatten[n + 1] = h[n + 1]
      OBVIOUS
    <3>1. CASE n = 0
      BY <3>1, <1>2, <1>4, <1>7
    <3>2. CASE n # 0
      <4>1. n \in 1 .. N /\ n + 1 # 1 /\ (n + 1) - 1 = n
        BY <3>2, <1>2
      <4>2. flatten[n] = h[n]
        BY <4>1, <2>2
      <4>3. h[n + 1] = h[n] \o seqs[n + 1]
        BY <4>1, <1>3
      <4>4. flatten[n + 1] = flatten[n] \o seqs[n + 1]
        BY <4>1, <1>7
      <4> QED
        BY <4>2, <4>3, <4>4
    <3> QED
      BY <3>1, <3>2
  <2> HIDE DEF I
  <2>3. \A n \in Nat : n \in I
    BY <2>1, <2>2, SetInduction
  <2> QED
    BY <2>3, <1>2 DEF I
<1> QED
  BY <1>1, <1>2, <1>3, <1>8, SMTT(30) DEF N

LEMMA FlattenType ==
  ASSUME NEW S, NEW seqs \in Seq(Seq(S))
  PROVE  FlattenSeq(seqs) \in Seq(S)
<1>1. PICK h \in [0 .. Len(seqs) -> Seq(S)] : Accumulates(h, seqs)
  BY AccumulatorExists
<1>2. Len(seqs) \in 0 .. Len(seqs)
  OBVIOUS
<1> QED
  BY <1>1, <1>2, FlattenAccumulates

(* One more sequence at the end. *)
LEMMA FlattenAppend ==
  ASSUME NEW S, NEW seqs \in Seq(Seq(S)), NEW t \in Seq(S)
  PROVE  FlattenSeq(Append(seqs, t)) = FlattenSeq(seqs) \o t
<1> DEFINE N == Len(seqs)
           more == Append(seqs, t)
<1>1. /\ more \in Seq(Seq(S)) /\ N \in Nat /\ Len(more) = N + 1
      /\ \A i \in 1 .. N : more[i] = seqs[i]
      /\ more[N + 1] = t
  OBVIOUS
<1>2. PICK h \in [0 .. Len(more) -> Seq(S)] : Accumulates(h, more)
  <2> HIDE DEF more, N
  <2> QED BY <1>1, AccumulatorExists
<1> DEFINE g == [i \in 0 .. N |-> h[i]]
<1> HIDE DEF more, N
<1>3. h[0] = <<>> /\ \A i \in 1 .. N + 1 : h[i] = h[i - 1] \o more[i]
  BY <1>1, <1>2 DEF Accumulates
<1>4. g \in [0 .. N -> Seq(S)]
  BY <1>1
<1>5. Accumulates(g, seqs)
  <2>1. ASSUME NEW i \in 1 .. N PROVE g[i] = g[i - 1] \o seqs[i]
    <3>1. i \in 1 .. N + 1 /\ i \in 0 .. N /\ i - 1 \in 0 .. N /\ more[i] = seqs[i]
      BY <1>1
    <3> QED
      BY <3>1, <1>3
  <2>2. g[0] = <<>>
    BY <1>1, <1>3
  <2> HIDE DEF g
  <2> QED
    BY <2>1, <2>2 DEF Accumulates, N
<1>6. FlattenSeq(seqs) = h[N]
  <2>1. FlattenSeq(seqs) = g[N]
    <3> HIDE DEF g
    <3> QED BY <1>4, <1>5, FlattenAccumulates DEF N
  <2> QED
    BY <2>1, <1>1
<1>7. FlattenSeq(more) = h[N + 1]
  BY <1>1, <1>2, FlattenAccumulates
<1>8. h[N + 1] = h[N] \o t
  <2>1. N \in Nat
    BY <1>1
  <2>2. N + 1 \in 1 .. N + 1 /\ (N + 1) - 1 = N
    BY <2>1
  <2> QED
    BY <2>2, <1>1, <1>3
<1> QED
  BY <1>6, <1>7, <1>8 DEF more

(* One more sequence at the front. *)
LEMMA FlattenPrepend ==
  ASSUME NEW S, NEW seqs \in Seq(Seq(S)), NEW t \in Seq(S)
  PROVE  FlattenSeq(<<t>> \o seqs) = t \o FlattenSeq(seqs)
<1> DEFINE N == Len(seqs)
           more == <<t>> \o seqs
<1>1. /\ more \in Seq(Seq(S)) /\ N \in Nat /\ Len(more) = N + 1
      /\ \A i \in 2 .. N + 1 : more[i] = seqs[i - 1]
      /\ more[1] = t
  <2>1. <<t>> \in Seq(Seq(S)) /\ Len(<<t>>) = 1
    OBVIOUS
  <2> QED
    BY <2>1
<1>2. PICK h \in [0 .. N -> Seq(S)] : Accumulates(h, seqs)
  BY AccumulatorExists
<1> DEFINE g == [i \in 0 .. N + 1 |-> IF i = 0 THEN <<>> ELSE t \o h[i - 1]]
<1> HIDE DEF more
<1>3. g \in [0 .. N + 1 -> Seq(S)]
  <2>1. <<>> \in Seq(S) /\ \A a, b \in Seq(S) : a \o b \in Seq(S)
    OBVIOUS
  <2>2. ASSUME NEW i \in 1 .. N + 1 PROVE h[i - 1] \in Seq(S)
    <3>1. i - 1 \in 0 .. N
      BY <1>1
    <3> HIDE DEF N
    <3> QED BY <3>1
  <2>3. \A i \in 0 .. N + 1 : i = 0 \/ i \in 1 .. N + 1
    BY <1>1
  <2> HIDE DEF N
  <2> QED
    BY <2>1, <2>2, <2>3
<1>4. Accumulates(g, more)
  <2>1. g[0] = <<>> /\ g[1] = t \o <<>>
    BY <1>1, <1>2 DEF Accumulates
  <2>2. t \o <<>> = t /\ <<>> \o t = t
    OBVIOUS
  <2>3. \A a, b, c \in Seq(S) : (a \o b) \o c = a \o (b \o c)
    BY ConcatAssociative, SMTT(30)
  <2>4. ASSUME NEW i \in 2 .. N + 1 PROVE g[i] = g[i - 1] \o more[i]
    <3>1. /\ i - 1 \in 1 .. N /\ i - 2 \in 0 .. N /\ i \in 0 .. N + 1 /\ i - 1 \in 0 .. N + 1
          /\ more[i] = seqs[i - 1] /\ seqs[i - 1] \in Seq(S) /\ (i - 1) - 1 = i - 2
      BY <1>1, SMTT(30)
    <3>2. h[i - 1] = h[i - 2] \o seqs[i - 1]
      BY <3>1, <1>2 DEF Accumulates
    <3>3. g[i] = t \o h[i - 1] /\ g[i - 1] = t \o h[i - 2]
      BY <3>1, SMTT(30)
    <3>4. h[i - 2] \in Seq(S)
      BY <3>1
    <3>5. t \o (h[i - 2] \o seqs[i - 1]) = (t \o h[i - 2]) \o seqs[i - 1]
      BY <3>1, <3>4, <2>3
    <3> HIDE DEF g, N
    <3> QED
      BY <3>1, <3>2, <3>3, <3>5
  <2>5. \A i \in 1 .. N + 1 : g[i] = g[i - 1] \o more[i]
    <3>1. \A i \in 1 .. N + 1 : i = 1 \/ i \in 2 .. N + 1
      BY <1>1
    <3>2. 1 - 1 = 0
      OBVIOUS
    <3> HIDE DEF g, N
    <3> QED
      BY <3>1, <3>2, <2>1, <2>2, <2>4, <1>1
  <2> HIDE DEF g
  <2> QED
    BY <2>1, <2>5, <1>1 DEF Accumulates
<1>5. FlattenSeq(more) = g[N + 1]
  <2> HIDE DEF g
  <2> QED BY <1>1, <1>3, <1>4, FlattenAccumulates
<1>6. g[N + 1] = t \o h[N]
  BY <1>1
<1>7. FlattenSeq(seqs) = h[N]
  BY <1>2, FlattenAccumulates
<1> QED
  BY <1>5, <1>6, <1>7 DEF more
-----------------------------------------------------------------------------
(* Sequences whose elements are of no particular set. *)
IsSequence(s) == s \in Seq({s[i] : i \in DOMAIN s})

LEMMA AnySequence ==
  /\ \A S : \A s \in Seq(S) : IsSequence(s)
  /\ \A s, S : IsSequence(s) /\ (\A i \in DOMAIN s : s[i] \in S) => s \in Seq(S)
<1>1. \A s, T, U : s \in Seq(T) /\ (\A i \in DOMAIN s : s[i] \in U) => s \in Seq(U)
  OBVIOUS
<1> QED
  BY <1>1 DEF IsSequence

(* Appending is concatenating, one element or two. *)
LEMMA ConcatIsAppend ==
  ASSUME NEW s, IsSequence(s), NEW a, NEW b
  PROVE  /\ s \o <<a>> = Append(s, a)
         /\ s \o <<a, b>> = Append(Append(s, a), b)
         /\ \E i \in DOMAIN Append(s, a) : Append(s, a)[i] = a
<1> DEFINE S == {s[i] : i \in DOMAIN s} \cup {a, b}
<1>1. s \in Seq(S) /\ a \in S /\ b \in S
  BY AnySequence
<1> HIDE DEF S
<1>2. s \o <<a>> = Append(s, a)
  BY <1>1
<1>3. s \o <<a, b>> = Append(Append(s, a), b)
  BY <1>1
<1>4. \E i \in DOMAIN Append(s, a) : Append(s, a)[i] = a
  BY <1>1, AppendFacts
<1> QED
  BY <1>2, <1>3, <1>4

LEMMA FlattenSequences ==
  ASSUME NEW seqs, IsSequence(seqs), \A i \in DOMAIN seqs : IsSequence(seqs[i]),
         NEW t, IsSequence(t)
  PROVE  /\ IsSequence(FlattenSeq(seqs))
         /\ FlattenSeq(Append(seqs, t)) = FlattenSeq(seqs) \o t
<1> DEFINE T == {t[k] : k \in DOMAIN t}
           S == T \cup UNION {{seqs[i][k] : k \in DOMAIN seqs[i]} : i \in DOMAIN seqs}
<1>1. t \in Seq(S)
  <2>1. t \in Seq(T)
    BY DEF IsSequence
  <2> HIDE DEF T
  <2>2. T \subseteq S
    OBVIOUS
  <2> HIDE DEF S
  <2> QED BY <2>1, <2>2, SeqMonotonic
<1>2. seqs \in Seq(Seq(S))
  <2>1. ASSUME NEW i \in DOMAIN seqs PROVE seqs[i] \in Seq(S)
    <3> DEFINE U == {seqs[i][k] : k \in DOMAIN seqs[i]}
    <3>1. U \subseteq S /\ seqs[i] \in Seq(U)
      BY DEF IsSequence
    <3> HIDE DEF S, U
    <3> QED BY <3>1, SeqMonotonic
  <2> HIDE DEF S
  <2> QED BY <2>1, AnySequence
<1> HIDE DEF S
<1> QED
  BY <1>1, <1>2, FlattenType, FlattenAppend, AnySequence

-----------------------------------------------------------------------------
(* The head of the second of three sequences moves to the first. *)
LEMMA Regroup ==
  ASSUME NEW S, NEW a \in Seq(S), NEW b \in Seq(S), NEW c \in Seq(S), NEW d \in Seq(S)
  PROVE  (a \o b) \o (c \o d) = a \o ((b \o c) \o d)
<1> DEFINE x == c \o d
<1>1. x \in Seq(S)
  BY ConcatProperties
<1>2. (b \o c) \o d = b \o x
  BY ConcatAssociative, SMTT(30)
<1> HIDE DEF x
<1>3. (a \o b) \o x = a \o (b \o x)
  BY <1>1, ConcatAssociative, SMTT(30)
<1> QED
  BY <1>2, <1>3 DEF x

LEMMA MoveHead ==
  ASSUME NEW S, NEW a \in Seq(S), NEW t \in Seq(S), t # <<>>, NEW rest \in Seq(S)
  PROVE  /\ Append(a, Head(t)) \in Seq(S)
         /\ Append(a, Head(t)) \o (Tail(t) \o rest) = a \o (t \o rest)
<1>1. /\ Append(a, Head(t)) \in Seq(S) /\ <<Head(t)>> \in Seq(S) /\ Tail(t) \in Seq(S)
      /\ Append(a, Head(t)) = a \o <<Head(t)>> /\ t = <<Head(t)>> \o Tail(t)
  OBVIOUS
<1>2. (a \o <<Head(t)>>) \o (Tail(t) \o rest) = a \o ((<<Head(t)>> \o Tail(t)) \o rest)
  BY <1>1, Regroup, SMTT(30)
<1> QED
  BY <1>1, <1>2
=============================================================================
