------------------------- MODULE MixedRuntimeProofs -------------------------
(***************************************************************************)
(* The reference runtime, the skeleton and the header's inline helpers, in *)
(* any mixture, for every trit count, container width, set of variables,   *)
(* literals, counts and foreign words.                                     *)
(*                                                                         *)
(* That the bodies agree is HelperProofs's.  The theorems follow from one  *)
(* invariant, MixedInvariant: the variables hold words, so the bodies      *)
(* agree, and what a body or a vector lane returns is canonical.           *)
(*                                                                         *)
(* ImplementsContract then needs no loop again: where the bodies agree the *)
(* call keeps the runtime's promise (WordKept), a lane is a scalar call of *)
(* its own (LaneKept), and three lemmas give the value of the three words  *)
(* that differ (InlineXorKept, SkeletonQuantizeKept, SkeletonRoundKept).   *)
(***************************************************************************)
EXTENDS MixedRuntime, TernaryRuntimeProofs, HelperProofs

(* Which helpers of t32_t the skeleton and the header define.              *)
LEMMA DefinedOps ==
  ASSUME NEW c \in WordCalls
  PROVE  /\ "skeleton" \in Defining(c) =>
              c.op \in {"add", "sub", "mul", "div", "mod", "neg", "and", "or", "xor", "shl", "shr",
                        "rol", "ror", "tb2t", "tb2t_res", "tmaj", "tlimp", "tquant", "tnot",
                        "tmuladd", "tround", "tnormalize", "tbias"}
         /\ "inline" \in Defining(c) =>
              c.op \in {"add", "sub", "mul", "div", "mod", "neg", "not", "and", "or", "xor", "shl",
                        "shr", "rol", "ror", "tb2t", "tb2t_res"}
<1>1. c.op \in Binary \cup Unary \cup Ternary \cup Counted \cup OfLiteral \cup {"tquant", "tb2t_res"}
  BY DEF WordCalls, CallSet
<1>2. ASSUME "skeleton" \in Defining(c)
      PROVE  c.op \in {"add", "sub", "mul", "div", "mod", "neg", "and", "or", "xor", "shl", "shr",
                       "rol", "ror", "tb2t", "tb2t_res", "tmaj", "tlimp", "tquant", "tnot",
                       "tmuladd", "tround", "tnormalize", "tbias"}
  <2>1. <<HelperName(c), "t32">> \in SkeletonHelpers
    BY <1>2 DEF Defining, HelpersOf
  <2>2. HelperName(c) \in SkeletonT32 \cup {"tsignjmp"}
    BY <2>1 DEF SkeletonHelpers, SkeletonSignJmp, Sizes
  <2>3. c.op = "tb2t_res" \/ c.op \in SkeletonT32 \cup {"tsignjmp"}
    BY <2>2 DEF HelperName
  <2> QED
    BY <1>1, <2>3
    DEF SkeletonT32, Arithmetic, Logic, Shifts, Binary, Unary, Ternary, Counted, OfLiteral
<1>3. ASSUME "inline" \in Defining(c)
      PROVE  c.op \in {"add", "sub", "mul", "div", "mod", "neg", "not", "and", "or", "xor", "shl",
                       "shr", "rol", "ror", "tb2t", "tb2t_res"}
  <2>1. <<HelperName(c), "t32">> \in InlineHelpers
    BY <1>3 DEF Defining, HelpersOf
  <2>2. HelperName(c) \in InlineT32
    BY <2>1 DEF InlineHelpers, InlineSelects
  <2>3. c.op = "tb2t_res" \/ c.op \in InlineT32
    BY <2>2 DEF HelperName
  <2> QED
    BY <1>1, <2>3
    DEF InlineT32, Arithmetic, Logic, Shifts, Floats, Binary, Unary, Ternary, Counted, OfLiteral
<1> QED
  BY <1>2, <1>3

(* The state: words in the variables, an int64_t in res, a call of the     *)
(* program or of the library's vector helpers under way.                   *)
MixedTypes ==
  /\ regs \in [Reg -> Word] /\ res \in CInteger
  /\ call \in WordCalls \cup ScalarCalls \cup MoveCalls \cup VectorCalls \cup {NoCall}

(* The integer operand is an integer, literal or result. *)
LEMMA IntOperandType ==
  ASSUME res \in CInteger, NEW c \in WordCalls
  PROVE  IntOperand(c) \in Int
<1>1. \A n \in CInteger : n \in Int
  BY MaxIntAssumption DEF CInteger, MinInt
<1>2. 0 \in Int /\ -1 .. 1 \subseteq Int /\ Count \subseteq Int /\ Literal \subseteq Int
  BY <1>1, RuntimeAssumption
<1>3. c.k \in Int
  BY <1>2 DEF WordCalls, CallSet
<1> QED
  BY <1>1, <1>3 DEF IntOperand

(* Every source returns the runtime's word, but for three helpers. *)
LEMMA WordsAgree ==
  ASSUME MixedTypes, NEW c \in WordCalls
  PROVE  /\ "skeleton" \in Defining(c) /\ c.op \notin {"tround", "tquant"} =>
              WordFrom("skeleton", c) = WordFrom("runtime", c)
         /\ "inline" \in Defining(c) /\ c.op # "xor" =>
              WordFrom("inline", c) = WordFrom("runtime", c)
<1> DEFINE x == regs[c.a]
           y == regs[c.b]
           z == regs[c.c]
           k == IntOperand(c)
<1>1. x \in Word /\ y \in Word /\ z \in Word
  BY CallTypes DEF MixedTypes
<1>2. k \in Int
  BY IntOperandType DEF MixedTypes
<1>3. /\ WordFrom("skeleton", c) = SkeletonWord(HelperName(c), x, y, z, k)
      /\ WordFrom("inline", c) = HeaderWord(HelperName(c), x, y, z, k)
      /\ WordFrom("runtime", c) = IF c.op \in TypeOps THEN TypeOpResult(c) ELSE IsaOpResult(c)
  BY DEF WordFrom
<1>4. IF c.op = "tb2t_res" THEN HelperName(c) = "tb2t" /\ k = res ELSE HelperName(c) = c.op /\ k = c.k
  BY DEF HelperName, IntOperand
<1>5. ASSUME "skeleton" \in Defining(c), c.op \notin {"tround", "tquant"}
      PROVE  WordFrom("skeleton", c) = WordFrom("runtime", c)
  <2>1. c.op \in {"add", "sub", "mul", "div", "mod", "neg", "and", "or", "xor", "shl", "shr", "rol",
                  "ror", "tb2t", "tb2t_res", "tmaj", "tlimp", "tnot", "tmuladd", "tnormalize", "tbias"}
    BY <1>5, DefinedOps
  <2>2. CASE c.op \in TypeOps
    <3>1. SkeletonWord(HelperName(c), x, y, z, k) = TypeOpResult(c)
      <4> HIDE DEF k
      <4> QED
        BY <1>1, <1>2, <1>4, <2>1, <2>2, SkeletonComputes DEF TypeOps, TypeOpResult
    <3> QED
      BY <1>3, <2>2, <3>1
  <2>3. CASE c.op \notin TypeOps
    <3>1. SkeletonWord(HelperName(c), x, y, z, k) = IsaOpResult(c)
      <4> HIDE DEF k
      <4> QED
        BY <1>1, <1>2, <1>4, <2>1, <2>3, SkeletonComputes DEF TypeOps, IsaOpResult
    <3> QED
      BY <1>3, <2>3, <3>1
  <2> QED
    BY <2>2, <2>3
<1>6. ASSUME "inline" \in Defining(c), c.op # "xor"
      PROVE  WordFrom("inline", c) = WordFrom("runtime", c)
  <2>1. c.op \in {"add", "sub", "mul", "div", "mod", "neg", "not", "and", "or", "shl",
                  "shr", "rol", "ror", "tb2t", "tb2t_res"}
    BY <1>6, DefinedOps
  <2>2. c.op \in TypeOps
    BY <2>1 DEF TypeOps
  <2>3. HeaderWord(HelperName(c), x, y, z, k) = TypeOpResult(c)
    <3> HIDE DEF k
    <3> QED
      BY <1>1, <1>2, <1>4, <2>1, HeaderComputes DEF TypeOpResult
  <2> QED
    BY <1>3, <2>2, <2>3
<1> QED
  BY <1>5, <1>6

(* Every source returns the same C integer. *)
LEMMA ScalarsAgree ==
  ASSUME MixedTypes, NEW c \in ScalarCalls
  PROVE  \A s \in Defining(c) : ScalarFrom(s, c) = ScalarFrom("runtime", c)
<1> DEFINE x == regs[c.a]
           y == regs[c.b]
<1>1. c.op \in Compare \cup Reader /\ c.op # "tb2t_res" /\ c.a \in Reg /\ c.b \in Reg
  <2>1. r0 \in Reg
    BY RuntimeAssumption DEF r0
  <2> QED
    BY <2>1 DEF ScalarCalls, CallSet, Compare, Reader
<1>2. x \in Word /\ y \in Word
  BY <1>1 DEF MixedTypes
<1>3. /\ Skeleton!Decode(BitsOf(x)) = Decode(x) /\ Skeleton!Decode(BitsOf(y)) = Decode(y)
      /\ Header!Decode(BitsOf(x)) = Decode(x) /\ Header!Decode(BitsOf(y)) = Decode(y)
  BY <1>2, DecodeAgrees, SameLoops
<1>4. ASSUME "skeleton" \in Defining(c) PROVE c.op \in {"cmp", "tt2b", "tsignjmp"}
  <2>1. <<HelperName(c), "t32">> \in SkeletonHelpers
    BY <1>4 DEF Defining, HelpersOf
  <2>2. c.op \in SkeletonT32 \cup {"tsignjmp"}
    BY <1>1, <2>1 DEF SkeletonHelpers, SkeletonSignJmp, Sizes, HelperName
  <2> QED
    BY <1>1, <2>2 DEF SkeletonT32, Arithmetic, Logic, Shifts, Compare, Reader
<1>5. ASSUME "inline" \in Defining(c) PROVE c.op \in {"cmp", "tt2b"}
  <2>1. <<HelperName(c), "t32">> \in InlineHelpers
    BY <1>5 DEF Defining, HelpersOf
  <2>2. c.op \in InlineT32
    BY <1>1, <2>1 DEF InlineHelpers, InlineSelects, HelperName
  <2> QED
    BY <1>1, <2>2 DEF InlineT32, Arithmetic, Logic, Shifts, Floats, Compare, Reader
<1>6. ASSUME "skeleton" \in Defining(c) PROVE ScalarFrom("skeleton", c) = ScalarFrom("runtime", c)
  <2> HIDE DEF x, y
  <2>1. /\ ScalarFrom("skeleton", c) = SkeletonScalar(c.op, x, y)
        /\ ScalarFrom("runtime", c) = ScalarResult(c)
    BY DEF ScalarFrom, x, y
  <2>2. SkeletonScalar(c.op, x, y) = ScalarResult(c)
    BY <1>3, <1>4, <1>6
    DEF SkeletonScalar, Skeleton!ScalarResult, Skeleton!Compare, Skeleton!ThreeWay, ScalarResult, Cmp,
        SignJmp, ThreeWay, x, y
  <2> QED
    BY <2>1, <2>2
<1>7. ASSUME "inline" \in Defining(c) PROVE ScalarFrom("inline", c) = ScalarFrom("runtime", c)
  <2> HIDE DEF x, y
  <2>1. /\ ScalarFrom("inline", c) = HeaderScalar(c.op, x, y)
        /\ ScalarFrom("runtime", c) = ScalarResult(c)
    BY DEF ScalarFrom, x, y
  <2>2. HeaderScalar(c.op, x, y) = ScalarResult(c)
    BY <1>3, <1>5, <1>7
    DEF HeaderScalar, Header!ScalarResult, Header!Compare, ScalarResult, Cmp, x, y
  <2> QED
    BY <2>1, <2>2
<1> QED
  BY <1>6, <1>7 DEF Defining, Sources

(* So the sources agree wherever the variables hold words. *)
LEMMA TypesAgree == MixedTypes => SourcesAgree
<1> SUFFICES ASSUME MixedTypes PROVE SourcesAgree
  OBVIOUS
<1>1. ASSUME call \in WordCalls, NEW s \in Defining(call), NEW t \in Defining(call)
      PROVE  WordFrom(s, call) = WordFrom(t, call) \/ KnownToDiffer(call, s, t)
  <2>1. s \in Sources /\ t \in Sources
    BY DEF Defining
  <2> QED
    BY <1>1, <2>1, WordsAgree DEF Sources, KnownToDiffer
<1>2. ASSUME call \in ScalarCalls, NEW s \in Defining(call), NEW t \in Defining(call)
      PROVE  ScalarFrom(s, call) = ScalarFrom(t, call)
  BY <1>2, ScalarsAgree
<1> QED
  BY <1>1, <1>2 DEF SourcesAgree

-----------------------------------------------------------------------------
(* Every code of the container 0 is 0. *)
LEMMA ZeroCodes == \A i \in Idx : CodeAt(0, i) = 0
<1> TAKE i \in Idx
<1>1. Pow4[i] \in Nat \ {0}
  BY Pow4Facts DEF Idx
<1>2. 0 \div Pow4[i] = 0
  BY <1>1, QuotIs
<1> QED
  BY <1>2 DEF CodeAt

(* The skeleton's tround returns a canonical word. *)
LEMMA SkeletonRoundCanonical ==
  ASSUME NEW p, NEW drop \in Nat
  PROVE  WordOf(Skeleton!Round(p, drop)) \in CanonicalWord
<1>1. Trits \in Nat
  BY TritsAssumption
<1>2. CASE drop >= Trits
  <2>2. Skeleton!Round(p, drop) = 0
    BY <1>2 DEF Skeleton!Round
  <2> QED
    BY <2>2, ZeroCodes DEF WordOf, CanonicalWord
<1>3. CASE ~(drop >= Trits)
  <2> DEFINE n == Trits - drop
             trit == [i \in 0 .. Trits - drop - 1 |-> Skeleton!GetTrit(p, i + drop)]
  <2>1. n \in 0 .. Trits
    BY <1>1, <1>3
  <2>2. Skeleton!Round(p, drop) = Skeleton!Written(n, trit)
    BY <1>3 DEF Skeleton!Round
  <2> HIDE DEF n, trit
  <2>3. WordOf(Skeleton!Written(n, trit)) = [i \in Idx |-> IF i < n THEN TritToBits(trit[i]) ELSE 0]
    BY <2>1, WrittenWord
  <2> QED
    BY <2>2, <2>3, TritToBitsRange DEF CanonicalWord
<1> QED
  BY <1>2, <1>3

(* So does every loop that writes all trits. *)
LEMMA WrittenCanonical ==
  \A trit : /\ WordOf(Skeleton!Written(Trits, trit)) \in CanonicalWord
           /\ WordOf(Header!Written(Trits, trit)) \in CanonicalWord
  BY WrittenAll, SameLoops, TritToBitsRange DEF CanonicalWord

(* So does every body of every source. *)
LEMMA BodiesCanonical ==
  ASSUME MixedTypes, NEW c \in WordCalls, NEW s \in Defining(c)
  PROVE  WordFrom(s, c) \in CanonicalWord
<1>1. WordFrom("runtime", c) \in CanonicalWord
  BY CallTypes, TypeOpCanonical, IsaOpCanonical DEF MixedTypes, WordFrom
<1>2. c.op = "tround" => c.k \in Nat
  <2>1. Count \subseteq Nat
    BY RuntimeAssumption
  <2> QED
    BY <2>1 DEF WordCalls, CallSet, Binary, Unary, Ternary, OfLiteral
<1>3. CASE s = "skeleton" /\ c.op = "tround"
  <2>1. WordFrom(s, c) = WordOf(Skeleton!Round(BitsOf(regs[c.a]), c.k))
    BY <1>3
    DEF WordFrom, SkeletonWord, HelperName, IntOperand, Skeleton!WordResult, Skeleton!IsaOps, Skeleton!IsaResult
  <2> QED
    BY <1>2, <1>3, <2>1, SkeletonRoundCanonical
<1>4. CASE s = "skeleton" /\ c.op = "tquant"
  <2>1. WordFrom(s, c) = WordOf(Skeleton!Quantize(c.k))
    BY <1>4
    DEF WordFrom, SkeletonWord, HelperName, IntOperand, Skeleton!WordResult, Skeleton!IsaOps, Skeleton!IsaResult
  <2> QED
    BY <2>1, WrittenCanonical DEF Skeleton!Quantize
<1>5. CASE s = "inline" /\ c.op = "xor"
  <2>1. WordFrom(s, c) = WordOf(Header!TritwiseOp(BitsOf(regs[c.a]), BitsOf(regs[c.b]), 2))
    BY <1>5 DEF WordFrom, HeaderWord, HelperName, Header!TypedResult
  <2> QED
    BY <2>1, WrittenCanonical DEF Header!TritwiseOp
<1>6. s \in Sources
  BY DEF Defining
<1> QED
  BY <1>1, <1>3, <1>4, <1>5, <1>6, WordsAgree DEF Sources

(* What a remainder is. *)
LEMMA RemainderIs ==
  ASSUME NEW x \in Int, NEW q \in Int, NEW r \in Int, NEW p \in Int, 0 <= r, r < p, x = q * p + r
  PROVE  x % p = r
  OBVIOUS

(* A lane read from a packed vector is the word packed there. *)
LEMMA JoinLanes ==
  ASSUME NEW u \in Word, NEW v \in Word
  PROVE  Lane(Join(u, v), 0) = u /\ Lane(Join(u, v), 1) = v
<1> DEFINE P == Pow4[Trits]
           l == BitsOf(u)
           h == BitsOf(v)
           x == Join(u, v)
<1>1. Trits \in Nat /\ Trits * 0 = 0 /\ Trits * 1 = Trits
  BY TritsAssumption
<1>2. P \in Int /\ P > 0 /\ Pow4[0] = 1
  BY <1>1, Pow4Facts
<1>3. l \in 0 .. P - 1 /\ h \in 0 .. P - 1 /\ WordOf(l) = u /\ WordOf(h) = v
  BY WordCodes
<1>4. x = h * P + l
  BY DEF Join
<1>5. Lane(x, 0) = WordOf((x \div Pow4[0]) % P) /\ Lane(x, 1) = WordOf((x \div P) % P)
  BY <1>1 DEF Lane
<1> HIDE DEF P, l, h, x
<1>6. l \in Int /\ h \in Int /\ 0 <= l /\ l < P /\ 0 <= h /\ h < P /\ h * P \in Int
  BY <1>2, <1>3
<1>7. x \in Int /\ x \div 1 = x
  BY <1>4, <1>6
<1>8. x % P = l
  BY <1>2, <1>4, <1>6, <1>7, RemainderIs
<1>9. x \div P = h
  <2>1. h * P <= x /\ x < h * P + P
    BY <1>2, <1>4, <1>6
  <2> QED
    BY <1>2, <1>6, <1>7, <2>1, QuotIs
<1>10. h % P = h
  <2>1. h = 0 * P + h
    BY <1>2, <1>6
  <2> QED
    BY <1>2, <1>6, <2>1, RemainderIs
<1> QED
  BY <1>2, <1>3, <1>5, <1>7, <1>8, <1>9, <1>10 DEF x

(* What a vector helper computes for a lane is canonical. *)
LEMMA LaneCanonical ==
  ASSUME NEW op \in StructVectorOps \cup {"tmin", "tmax", "tmaj", "tlimp", "tquant", "tround"},
         NEW x, NEW y, NEW z, NEW k
  PROVE  LaneResult(ScalarOf(op), x, y, z, k) \in CanonicalWord
<1>1. Add(x, y) \in CanonicalWord /\ Sub(x, y) \in CanonicalWord /\ Mul(x, y) \in CanonicalWord
      /\ Neg(x) \in CanonicalWord
  BY EncodeCanonical DEF Add, Sub, Mul, Neg
<1> QED
  BY <1>1, EncodeCanonical, TritwiseCanonical, RoundCanonical DEF LaneResult, ScalarOf, StructVectorOps

(* The fields of a vector call. *)
LEMMA VectorFields ==
  ASSUME NEW c \in VectorCalls
  PROVE  /\ c.vec \in StructVectorOps \cup {"tmin", "tmax", "tlimp", "tmaj", "tround", "tquant"}
         /\ c.struct => c.vec \in StructVectorOps
         /\ \A i \in 1 .. 2 : c.a[i] \in Reg /\ c.b[i] \in Reg /\ c.c[i] \in Reg
         /\ c.a[1] # c.a[2]
         /\ c.vec = "tround" => c.k \in Nat
         /\ c.vec = "tquant" => c.k \in Trit
<1> DEFINE Pair == {q \in Reg \X Reg : q[1] # q[2]}
           Of(p, ops, isStruct, C, K) == VectorCallSet(ops, isStruct, p[1], p[2], C, K)
<1>1. PICK p \in Pair :
        \/ c \in Of(p, StructVectorOps, TRUE, {p}, {0})
        \/ c \in Of(p, StructVectorOps \cup {"tmin", "tmax", "tlimp"}, FALSE, {p}, {0})
        \/ c \in Of(p, {"tmaj"}, FALSE, {p, <<p[2], p[1]>>}, {0})
        \/ c \in Of(p, {"tround"}, FALSE, {p}, Count)
        \/ c \in Of(p, {"tquant"}, FALSE, {p}, -1 .. 1)
  BY DEF VectorCalls
<1>2. \A ops, isStruct, C, K : c \in Of(p, ops, isStruct, C, K) =>
        /\ c.vec \in ops /\ c.struct = isStruct /\ c.k \in K
        /\ c.a = <<p[1], p[2]>> /\ c.b = <<p[2], p[1]>> /\ c.c \in C
  BY DEF VectorCallSet
<1>3. p = <<p[1], p[2]>> /\ p[1] \in Reg /\ p[2] \in Reg /\ p[1] # p[2]
  OBVIOUS
<1>f. Count \subseteq Nat
  BY RuntimeAssumption
<1>g. /\ c.a = <<p[1], p[2]>> /\ c.b = <<p[2], p[1]>> /\ c.c \in {p, <<p[2], p[1]>>}
      /\ c.vec \in StructVectorOps \cup {"tmin", "tmax", "tlimp", "tmaj", "tround", "tquant"}
      /\ c.struct => c.vec \in StructVectorOps
      /\ c.vec = "tround" => c.k \in Nat
      /\ c.vec = "tquant" => c.k \in Trit
  <2> HIDE DEF Of
  <2>1. CASE c \in Of(p, StructVectorOps, TRUE, {p}, {0})
    <3>1. c.vec \in StructVectorOps /\ c.struct = TRUE /\ c.c \in {p}
      BY <1>2, <2>1
    <3> QED
      BY <1>2, <2>1, <3>1 DEF StructVectorOps
  <2>2. CASE c \in Of(p, StructVectorOps \cup {"tmin", "tmax", "tlimp"}, FALSE, {p}, {0})
    <3>1. c.vec \in StructVectorOps \cup {"tmin", "tmax", "tlimp"} /\ c.struct = FALSE /\ c.c \in {p}
      BY <1>2, <2>2
    <3> QED
      BY <1>2, <2>2, <3>1 DEF StructVectorOps
  <2>3. CASE c \in Of(p, {"tmaj"}, FALSE, {p, <<p[2], p[1]>>}, {0})
    <3>1. c.vec \in {"tmaj"} /\ c.struct = FALSE /\ c.c \in {p, <<p[2], p[1]>>}
      BY <1>2, <2>3
    <3> QED
      BY <1>2, <2>3, <3>1
  <2>4. CASE c \in Of(p, {"tround"}, FALSE, {p}, Count)
    <3>1. c.vec \in {"tround"} /\ c.struct = FALSE /\ c.c \in {p} /\ c.k \in Count
      BY <1>2, <2>4
    <3> QED
      BY <1>2, <1>f, <2>4, <3>1
  <2>5. CASE c \in Of(p, {"tquant"}, FALSE, {p}, -1 .. 1)
    <3>1. c.vec \in {"tquant"} /\ c.struct = FALSE /\ c.c \in {p} /\ c.k \in -1 .. 1
      BY <1>2, <2>5
    <3> QED
      BY <1>2, <2>5, <3>1 DEF Trit
  <2> QED
    BY <1>1, <2>1, <2>2, <2>3, <2>4, <2>5
<1>4. c.a = <<p[1], p[2]>> /\ c.b = <<p[2], p[1]>> /\ c.c \in {<<p[1], p[2]>>, <<p[2], p[1]>>}
  BY <1>3, <1>g
<1>5. \A i \in 1 .. 2 : c.a[i] \in Reg /\ c.b[i] \in Reg /\ c.c[i] \in Reg
  <2>1. \A i \in 1 .. 2 : i = 1 \/ i = 2
    OBVIOUS
  <2> QED
    BY <1>3, <1>4, <2>1
<1> QED
  BY <1>3, <1>4, <1>5, <1>g

(* A lane of a vector call is a scalar call of its own. *)
LaneOf(c, i) ==
  LaneResult(ScalarOf(c.vec), regs[c.a[i]], regs[c.b[i]], regs[c.c[i]], c.k)

(* Packing and unpacking the lanes of a vector loses nothing. *)
LEMMA VectorLanes ==
  ASSUME MixedTypes, NEW c \in VectorCalls
  PROVE  /\ VectorResult(c).lo = LaneOf(c, 1) /\ VectorResult(c).hi = LaneOf(c, 2)
         /\ LaneOf(c, 1) \in CanonicalWord /\ LaneOf(c, 2) \in CanonicalWord
<1>1. \A i \in 1 .. 2 : c.a[i] \in Reg /\ c.b[i] \in Reg /\ c.c[i] \in Reg
  BY VectorFields
<1>2. \A r \in Reg : regs[r] \in Word
  BY DEF MixedTypes
<1>3. LaneOf(c, 1) \in CanonicalWord /\ LaneOf(c, 2) \in CanonicalWord
  BY VectorFields, LaneCanonical DEF LaneOf
<1>4. CASE c.struct
  <2>1. c.vec \in StructVectorOps
    BY <1>4, VectorFields
  <2>2. \A x, y, z, u, k : LaneResult(ScalarOf(c.vec), x, y, z, 0) = LaneResult(ScalarOf(c.vec), x, y, u, k)
    BY <2>1 DEF StructVectorOps, ScalarOf, LaneResult
  <2>3. /\ VectorResult(c).lo = LaneResult(ScalarOf(c.vec), regs[c.a[1]], regs[c.b[1]], regs[c.b[1]], 0)
        /\ VectorResult(c).hi = LaneResult(ScalarOf(c.vec), regs[c.a[2]], regs[c.b[2]], regs[c.b[2]], 0)
    BY <1>4 DEF VectorResult, StructLanes
  <2> QED
    BY <1>3, <2>2, <2>3 DEF LaneOf
<1>5. CASE ~c.struct
  <2> DEFINE packed(v) == Join(regs[v[1]], regs[v[2]])
             r(i) == LaneResult(ScalarOf(c.vec), Lane(packed(c.a), i), Lane(packed(c.b), i),
                                Lane(packed(c.c), i), c.k)
  <2>1. VectorResult(c).lo = Lane(Join(r(0), r(1)), 0) /\ VectorResult(c).hi = Lane(Join(r(0), r(1)), 1)
    BY <1>5 DEF VectorResult, PackedLanes
  <2>2. \A v \in {c.a, c.b, c.c} : Lane(packed(v), 0) = regs[v[1]] /\ Lane(packed(v), 1) = regs[v[2]]
    <3>1. \A v \in {c.a, c.b, c.c} : regs[v[1]] \in Word /\ regs[v[2]] \in Word
      BY <1>1, <1>2
    <3> QED
      BY <3>1, JoinLanes
  <2>3. r(0) = LaneOf(c, 1) /\ r(1) = LaneOf(c, 2)
    <3> HIDE DEF packed
    <3> QED
      BY <2>2 DEF LaneOf
  <2> HIDE DEF r
  <2>4. r(0) \in Word /\ r(1) \in Word
    BY <1>3, <2>3, CanonicalWordIs
  <2> QED
    BY <1>3, <2>1, <2>3, <2>4, JoinLanes
<1> QED
  BY <1>4, <1>5

-----------------------------------------------------------------------------
MixedInvariant == MixedTypes /\ MixedReservedOnlyFromOutside

(* The initial words come from outside. *)
LEMMA MixedInitInvariant == MixedInit => MixedInvariant
  BY RuntimeAssumption, MaxIntAssumption
  DEF MixedInit, Init, MixedInvariant, MixedTypes, MixedReservedOnlyFromOutside, CInteger, MinInt

(* What a step writes is a word, canonical or there before. *)
LEMMA MixedStepInvariant == MixedInvariant /\ [MixedNext]_mixedVars => MixedInvariant'
<1> SUFFICES ASSUME MixedTypes, MixedReservedOnlyFromOutside, [MixedNext]_mixedVars
             PROVE  MixedTypes' /\ MixedReservedOnlyFromOutside'
  BY DEF MixedInvariant
<1>0. 0 \in CInteger /\ CanonicalWord \subseteq Word /\ \A w \in CanonicalWord : Explained(w)
  BY MaxIntAssumption, CanonicalWordIs DEF CInteger, MinInt, Explained
<1>1. /\ regs \in [Reg -> Word] /\ res \in CInteger
      /\ call \in WordCalls \cup ScalarCalls \cup MoveCalls \cup VectorCalls \cup {NoCall}
      /\ \A r \in Reg : Explained(regs[r])
  BY DEF MixedTypes, MixedReservedOnlyFromOutside, Explained
<1> SUFFICES /\ regs' \in [Reg -> Word] /\ res' \in CInteger
             /\ call' \in WordCalls \cup ScalarCalls \cup MoveCalls \cup VectorCalls \cup {NoCall}
             /\ \A r \in Reg : Explained(regs'[r])
  BY DEF MixedTypes, MixedReservedOnlyFromOutside, Explained
<1>2. CASE MixedCall
  BY <1>0, <1>1, <1>2 DEF MixedCall
<1>3. CASE MixedReturnWord
  <2>1. PICK source \in Providers(call) : regs' = [regs EXCEPT ![call.a] = WordFrom(source, call)]
    BY <1>3 DEF MixedReturnWord
  <2>2. WordFrom(source, call) \in CanonicalWord
    BY <1>3, BodiesCanonical DEF MixedReturnWord, Providers
  <2> QED
    BY <1>0, <1>1, <1>3, <2>1, <2>2 DEF MixedReturnWord
<1>4. CASE MixedReturnScalar
  <2>1. PICK source \in Providers(call) : res' = ScalarFrom(source, call)
    BY <1>4 DEF MixedReturnScalar
  <2>2. ScalarFrom("runtime", call) \in CInteger
    BY <1>4, ScalarType DEF MixedReturnScalar, ScalarFrom
  <2>3. ScalarFrom(source, call) = ScalarFrom("runtime", call)
    BY <1>4, ScalarsAgree DEF MixedReturnScalar, Providers
  <2> QED
    BY <1>1, <1>4, <2>1, <2>2, <2>3 DEF MixedReturnScalar
<1>5. CASE MixedReturnMove
  <2>1. {call.a, call.b, call.c} \subseteq Reg
    BY <1>5, CallTypes DEF MixedReturnMove, ReturnMove
  <2>2. /\ Select(res, regs[call.a], regs[call.b]) \in {regs[r] : r \in Reg}
        /\ Mux(regs[call.c], regs[call.a], regs[call.b], regs[call.c]) \in {regs[r] : r \in Reg}
    BY <2>1 DEF Select, Mux, ThreeWay
  <2>3. \A w \in {regs[r] : r \in Reg} : w \in Word /\ Explained(w)
    BY <1>1
  <2> QED
    BY <1>0, <1>1, <1>5, <2>2, <2>3 DEF MixedReturnMove, ReturnMove
<1>6. CASE Trap
  BY <1>1, <1>6 DEF Trap
<1>7. CASE CallVector
  BY <1>0, <1>1, <1>7 DEF CallVector
<1>8. CASE ReturnVector
  BY <1>0, <1>1, <1>8, VectorLanes DEF ReturnVector
<1>9. CASE UNCHANGED mixedVars
  BY <1>1, <1>9 DEF mixedVars, vars
<1> QED
  BY <1>2, <1>3, <1>4, <1>5, <1>6, <1>7, <1>8, <1>9 DEF MixedNext

(* No mixture of the reference runtime, the skeleton and the header's      *)
(* inline helpers ever makes a word that holds the reserved code, the      *)
(* vector helpers' packing and unpacking of lanes included.                *)
THEOREM MixedMakesNoReserved == MixedSpec => []MixedReservedOnlyFromOutside
<1>1. MixedInvariant => MixedReservedOnlyFromOutside
  BY DEF MixedInvariant
<1> QED
  BY <1>1, MixedInitInvariant, MixedStepInvariant, PTL DEF MixedSpec

(* Whatever words a program reaches with whatever mixture of bodies, all   *)
(* sources of a helper return the same for them, bit for bit, but for the  *)
(* header's xor and the skeleton's tround and tquant.                      *)
THEOREM MixedSourcesAgree == MixedSpec => []SourcesAgree
<1>1. MixedInvariant => SourcesAgree
  BY TypesAgree DEF MixedInvariant
<1> QED
  BY <1>1, MixedInitInvariant, MixedStepInvariant, PTL DEF MixedSpec

-----------------------------------------------------------------------------
(* The definitions of the contract are those of the abstract module. *)
LEMMA ContractCalls ==
  /\ Contract!Calls = Calls /\ Contract!WordCalls = WordCalls
  /\ Contract!ScalarCalls = ScalarCalls /\ Contract!MoveCalls = MoveCalls
  /\ Contract!MemoryCalls = MemoryCalls /\ Contract!VectorCalls = VectorCalls
  /\ Contract!ReadsRes = ReadsRes
<1>1. /\ Contract!Calls = Calls /\ Contract!WordCalls = WordCalls
      /\ Contract!ScalarCalls = ScalarCalls /\ Contract!MoveCalls = MoveCalls
      /\ Contract!MemoryCalls = MemoryCalls /\ Contract!ReadsRes = ReadsRes
  BY DEF Contract!Calls, Calls, Contract!WordCalls, WordCalls, Contract!ScalarCalls, ScalarCalls,
         Contract!MoveCalls, MoveCalls, Contract!MemoryCalls, MemoryCalls, Contract!ReadsRes,
         ReadsRes, Contract!CallSet, CallSet, Contract!Binary, Binary, Contract!Unary, Unary,
         Contract!Ternary, Ternary, Contract!Counted, Counted, Contract!Compare, Compare,
         Contract!Reader, Reader, Contract!OfLiteral, OfLiteral, Contract!r0, r0
<1>2. Contract!VectorCalls = VectorCalls
  BY DEF Contract!VectorCalls, VectorCalls, Contract!VectorCallSet, VectorCallSet,
         Contract!StructVectorOps, StructVectorOps
<1> QED
  BY <1>1, <1>2

(* So are its promises for word calls, scalar calls and moves. *)
LEMMA ContractPromises ==
  /\ \A c : Contract!WordPromise(c) = Abs!WordPromise(c)
  /\ \A c : Contract!ScalarPromise(c) = Abs!ScalarPromise(c)
  /\ \A c : Contract!Chosen(c) = Abs!Chosen(c)
<1>1. \A c : Contract!WordPromise(c) = Abs!WordPromise(c)
  BY SMTT(60) DEF Contract!WordPromise, Abs!WordPromise, Contract!Promise, Abs!Promise, Contract!Fits,
         Abs!Fits, Contract!Reduce, Abs!Reduce, Contract!Half, Abs!Half, Contract!Value, Abs!Value,
         Contract!Pow3, Abs!Pow3, Contract!Digit, Abs!Digit, Contract!OfDigits, Abs!OfDigits,
         Contract!SignOf, Abs!SignOf, Contract!Abs, Abs!Abs, Contract!Quotient, Abs!Quotient,
         Contract!Remainder, Abs!Remainder, Contract!XorAsBuilt, Abs!XorAsBuilt,
         Contract!MajorityOf, Abs!MajorityOf, Contract!EquivAsBuilt, Abs!EquivAsBuilt,
         Contract!TxorAsBuilt, Abs!TxorAsBuilt, Contract!RoundAllAsBuilt, Abs!RoundAllAsBuilt
<1>2. \A c : Contract!ScalarPromise(c) = Abs!ScalarPromise(c)
  BY DEF Contract!ScalarPromise, Abs!ScalarPromise, Contract!Scalar, Abs!Scalar, Contract!Fits,
         Abs!Fits, Contract!FitsShort, Abs!FitsShort, Contract!SignOf, Abs!SignOf,
         Contract!NetAsBuilt, Abs!NetAsBuilt
<1>3. \A c : Contract!Chosen(c) = Abs!Chosen(c)
  BY DEF Contract!Chosen, Abs!Chosen, Contract!Fits, Abs!Fits
<1> QED
  BY <1>1, <1>2, <1>3

(* So are the numbers they are made of. *)
LEMMA ContractNumbers ==
  /\ Contract!Value = Values /\ Contract!Half = Half3(Trits) /\ Contract!Pow3 = Pow3
  /\ \A v, i : Contract!Digit(v, i) = TritAt(v, i)
  /\ \A x : Contract!SignOf(x) = SignOfInt(x)
  /\ \A x : Contract!Fits(x) <=> Abs!Fits(x)
  /\ \A x, y : Contract!Quotient(x, y) = Abs!Quotient(x, y)
  BY DEF Contract!Value, Values, Contract!Half, Half3, Contract!Digit, TritAt,
         Contract!SignOf, SignOfInt, Contract!Pow3, Pow3, Contract!Fits, Abs!Fits,
         Contract!Quotient, Abs!Quotient, Contract!Abs, Abs!Abs, Abs!SignOf

-----------------------------------------------------------------------------
(* Where the sources differ: the header's xor of two trits is the opposite *)
(* of the sign of their sum.                                               *)
LEMMA InlineXorKept ==
  ASSUME NEW x \in Word, NEW y \in Word
  PROVE  ExactValue(WordOf(Header!TritwiseOp(BitsOf(x), BitsOf(y), 2)))
           = Contract!InlineXor(ExactValue(x), ExactValue(y))
<1> DEFINE w == WordOf(Header!TritwiseOp(BitsOf(x), BitsOf(y), 2))
           e(i) == -Contract!SignOf(Contract!Digit(ExactValue(x), i) + Contract!Digit(ExactValue(y), i))
           Is(v) == \A i \in 0 .. Trits - 1 : Contract!Digit(v, i) = e(i)
           t == [i \in Idx |-> HeaderTritXor(GetTrit(x, i), GetTrit(y, i))]
<1>1. Contract!InlineXor(ExactValue(x), ExactValue(y)) = CHOOSE v \in Contract!Value : Is(v)
  BY DEF Contract!InlineXor, Contract!OfDigits
<1>2. w = [i \in Idx |-> TritToBits(t[i])]
  <2>1. \A i \in Idx : /\ Header!GetTrit(BitsOf(x), i) = GetTrit(x, i)
                       /\ Header!GetTrit(BitsOf(y), i) = GetTrit(y, i)
    <3>1. \A p, i : Header!GetTrit(p, i) = Skeleton!GetTrit(p, i)
      BY DEF Header!GetTrit, Skeleton!GetTrit, Header!ToTrit, Skeleton!ToTrit, Header!BitsAt,
             Skeleton!BitsAt, Header!CodeAt, Skeleton!CodeAt, Header!Pow4, Skeleton!Pow4
    <3> QED
      BY <3>1, GetTritAgrees
  <2>2. Header!TritwiseOp(BitsOf(x), BitsOf(y), 2) = Header!Written(Trits, t)
    <3>1. Header!Idx = Idx
      BY DEF Header!Idx, Idx
    <3>2. [i \in Header!Idx |-> HeaderTritXor(Header!GetTrit(BitsOf(x), i), Header!GetTrit(BitsOf(y), i))] = t
      BY <2>1, <3>1
    <3> HIDE DEF t
    <3> QED
      BY <3>2 DEF Header!TritwiseOp
  <2> HIDE DEF t
  <2> QED
    BY <2>2, SameLoops, WrittenAll
<1>3. \A i \in Idx : GetTrit(w, i) = e(i)
  <2> TAKE i \in Idx
  <2> DEFINE a == GetTrit(x, i)
             b == GetTrit(y, i)
  <2>1. GetTrit(w, i) = BitsToTrit(TritToBits(HeaderTritXor(a, b)))
    <3> HIDE DEF w
    <3> QED BY <1>2 DEF GetTrit
  <2>2. a \in Trit /\ b \in Trit /\ e(i) = -SignOfInt(a + b)
    BY TritRange, AbsTrits, AbsNumbers, ContractNumbers
  <2> HIDE DEF a, b, e, w
  <2>3. HeaderTritXor(a, b) = -(a + b)
    BY <2>2 DEF HeaderTritXor, TritMin, TritMax, Trit
  <2>4. BitsToTrit(TritToBits(-(a + b))) = -SignOfInt(a + b)
    BY <2>2 DEF BitsToTrit, TritToBits, SignOfInt, Trit
  <2> QED
    BY <2>1, <2>2, <2>3, <2>4
<1>4. Is(ExactValue(w)) /\ \A v \in Values : Is(v) => v = ExactValue(w)
  <2> HIDE DEF w, e
  <2> QED
    BY <1>3, ValueDigits, DigitsDecide, ContractNumbers DEF ExactValue, Idx
<1> HIDE DEF w, Is
<1>5. ExactValue(w) = CHOOSE v \in Contract!Value : Is(v)
  BY <1>4, Operand, ContractNumbers
<1> QED
  BY <1>1, <1>5 DEF w

(* The skeleton's tquant writes the scalar to every trit. *)
LEMMA SkeletonQuantizeKept ==
  ASSUME NEW q \in Trit
  PROVE  ExactValue(WordOf(Skeleton!Quantize(q))) = q * Contract!Half
<1>1. WordOf(Skeleton!Quantize(q)) = [i \in Idx |-> TritToBits(q)]
  <2> DEFINE t == [i \in Idx |-> q]
  <2>1. Skeleton!Quantize(q) = Skeleton!Written(Trits, t)
    BY DEF Skeleton!Quantize, Skeleton!Idx, Idx
  <2>2. \A i \in Idx : t[i] = q
    OBVIOUS
  <2> HIDE DEF t
  <2> QED
    BY <2>1, <2>2, WrittenAll
<1> QED
  BY <1>1, UniformValue, ContractNumbers DEF ExactValue

(* Its tround rounds to the nearest and leaves -1 in what it vacates. *)
LEMMA SkeletonRoundKept ==
  ASSUME NEW w \in Word, NEW drop \in Nat
  PROVE  ExactValue(WordOf(Skeleton!Round(BitsOf(w), drop)))
           = Contract!SkeletonRound(ExactValue(w), drop)
<1> DEFINE x == ExactValue(w)
           u == WordOf(Skeleton!Round(BitsOf(w), drop))
<1>0. Trits \in Nat /\ Pow3[0] = 1 /\ Pow3[Trits] \in Int
  BY TritsAssumption, Pow3Facts
<1>1. CASE drop >= Trits
  <2>1. u = [i \in Idx |-> TritToBits(-1)]
    <3>1. Skeleton!Round(BitsOf(w), drop) = 0
      BY <1>1 DEF Skeleton!Round
    <3> QED
      BY <3>1, ZeroCodes DEF WordOf, TritToBits
  <2>2. ExactValue(u) = -Half3(Trits)
    <3>1. ExactValue([i \in Idx |-> TritToBits(-1)]) = (-1) * Half3(Trits)
      BY UniformValue DEF ExactValue, Trit
    <3> QED
      BY <2>1, <3>1, HalfType
  <2>3. Contract!SkeletonRound(x, drop) = ((x + (Pow3[Trits] - 1) \div 2) \div Pow3[Trits]) - (Pow3[Trits] - 1) \div 2
    <3>1. Trits - Trits = 0 /\ (drop < Trits <=> FALSE)
      BY <1>0, <1>1
    <3> HIDE DEF x
    <3> QED
      BY <1>0, <3>1, ContractNumbers DEF Contract!SkeletonRound, Contract!Nearest
  <2>4. (x + (Pow3[Trits] - 1) \div 2) \div Pow3[Trits] = 0
    <3> DEFINE h == Half3(Trits)
               p == Pow3[Trits]
    <3>1. h \in Nat /\ p = 2 * h + 1 /\ x \in -h .. h
      BY HalfType, Operand DEF Values
    <3> HIDE DEF h, p, x
    <3>2. x = x + 0 * p
      BY <3>1
    <3>3. (x + (p - 1) \div 2) \div p = 0
      BY <3>1, <3>2, NearestIs
    <3> QED
      BY <3>3 DEF p
  <2>5. Contract!SkeletonRound(x, drop) = 0 - Half3(Trits)
    BY <2>3, <2>4 DEF Half3
  <2> HIDE DEF u, x
  <2>6. ExactValue(u) = Contract!SkeletonRound(x, drop)
    BY <2>2, <2>5, HalfType
  <2> QED
    BY <2>6 DEF u, x
<1>2. CASE ~(drop >= Trits)
  <2> DEFINE n == Trits - drop
             t == [i \in 0 .. n - 1 |-> Skeleton!GetTrit(BitsOf(w), i + drop)]
  <2>1. n \in 0 .. Trits /\ drop \in 0 .. Trits - 1 /\ drop < Trits
    BY <1>0, <1>2
  <2>2. u = [i \in Idx |-> IF i < n THEN TritToBits(t[i]) ELSE 0]
    <3>1. Skeleton!Round(BitsOf(w), drop) = Skeleton!Written(n, t)
      BY <1>2 DEF Skeleton!Round
    <3> HIDE DEF n, t
    <3> QED
      BY <2>1, <3>1, WrittenWord
  <2>3. \A i \in Idx : GetTrit(u, i) = IF i < Trits - drop THEN GetTrit(w, i + drop) ELSE -1
    <3> TAKE i \in Idx
    <3>1. CASE i < n
      <4>1. i \in 0 .. n - 1 /\ i + drop \in Idx
        BY <1>0, <2>1, <3>1 DEF Idx
      <4>2. t[i] = GetTrit(w, i + drop)
        BY <4>1, GetTritAgrees
      <4>3. GetTrit(w, i + drop) \in Trit
        BY TritRange
      <4>4. GetTrit(u, i) = BitsToTrit(TritToBits(t[i]))
        <5> HIDE DEF u, n, t
        <5> QED BY <2>2, <3>1 DEF GetTrit
      <4> HIDE DEF u, t
      <4> QED
        BY <3>1, <4>2, <4>3, <4>4, BitsOfTrit
    <3>2. CASE ~(i < n)
      <4>1. u[i] = 0
        <5> HIDE DEF u, n, t
        <5> QED BY <2>2, <3>2
      <4> HIDE DEF u
      <4> QED
        BY <3>2, <4>1 DEF GetTrit, BitsToTrit
    <3> QED
      BY <3>1, <3>2
  <2> HIDE DEF u
  <2>4. DecodeUnbounded(u) =
          ((DecodeUnbounded(w) + (Pow3[drop] - 1) \div 2) \div Pow3[drop])
            - (Pow3[Trits] - Pow3[Trits - drop]) \div 2
    BY <2>1, <2>3, RoundedValue
  <2>5. Contract!SkeletonRound(x, drop) =
          ((x + (Pow3[drop] - 1) \div 2) \div Pow3[drop]) - (Pow3[Trits] - Pow3[Trits - drop]) \div 2
    <3> HIDE DEF x
    <3> QED
      BY <2>1, ContractNumbers DEF Contract!SkeletonRound, Contract!Nearest
  <2> QED
    BY <2>4, <2>5 DEF ExactValue, u
<1> QED
  BY <1>1, <1>2

-----------------------------------------------------------------------------
(* What the body of a word call returns, whichever its source. *)
LEMMA MixedWordKept ==
  ASSUME MixedTypes, NEW c \in WordCalls, NEW s \in Providers(c)
  PROVE  ExactValue(WordFrom(s, c)) \in Contract!MixedPromise(c)
<1>0. s \in Defining(c) /\ s \in Sources /\ (s = library \/ s = "inline")
  BY DEF Providers, Defining
<1>1. WellFormed(c) /\ {c.a, c.b, c.c} \subseteq Reg /\ regs \in [Reg -> Word] /\ res \in CInteger
  BY CallsFormed, CallTypes DEF MixedTypes
<1>2. ExactValue(WordFrom("runtime", c)) \in Contract!WordPromise(c)
  <2>1. WordFrom("runtime", c) = IF c.op \in TypeOps THEN TypeOpResult(c) ELSE IsaOpResult(c)
    BY DEF WordFrom
  <2> QED
    BY <1>1, <2>1, WordKept, ContractPromises
<1>3. CASE c.op = "xor"
  <2>1. Contract!MixedPromise(c) =
          Contract!WordPromise(c) \cup {Contract!InlineXor(ExactValue(regs[c.a]), ExactValue(regs[c.b]))}
    BY <1>1, <1>3 DEF Contract!MixedPromise
  <2>2. CASE s = "inline"
    <3>1. WordFrom(s, c) = WordOf(Header!TritwiseOp(BitsOf(regs[c.a]), BitsOf(regs[c.b]), 2))
      BY <1>3, <2>2 DEF WordFrom, HeaderWord, HelperName, Header!TypedResult
    <3>2. ExactValue(WordFrom(s, c)) = Contract!InlineXor(ExactValue(regs[c.a]), ExactValue(regs[c.b]))
      BY <1>1, <3>1, InlineXorKept
    <3> QED
      BY <2>1, <3>2
  <2>3. CASE s # "inline"
    <3>1. WordFrom(s, c) = WordFrom("runtime", c)
      BY <1>0, <1>3, <2>3, WordsAgree DEF Sources
    <3> QED
      BY <1>2, <2>1, <3>1
  <2> QED
    BY <2>2, <2>3
<1>4. CASE c.op \in {"tround", "tquant"}
  <2>1. s = library /\ s \in {"runtime", "skeleton"}
    BY <1>0, <1>4, DefinedOps DEF Sources
  <2>2. CASE library = "skeleton"
    <3>1. CASE c.op = "tround"
      <4>1. Contract!MixedPromise(c) = {Contract!SkeletonRound(ExactValue(regs[c.a]), c.k)}
        BY <1>1, <2>2, <3>1 DEF Contract!MixedPromise
      <4>2. WordFrom(s, c) = WordOf(Skeleton!Round(BitsOf(regs[c.a]), c.k))
        BY <2>1, <2>2, <3>1
        DEF WordFrom, SkeletonWord, HelperName, IntOperand, Skeleton!WordResult, Skeleton!IsaOps,
            Skeleton!IsaResult
      <4>3. c.k \in Nat
        BY <1>1, <3>1 DEF WellFormed, Counted
      <4> QED
        BY <1>1, <4>1, <4>2, <4>3, SkeletonRoundKept
    <3>2. CASE c.op = "tquant"
      <4>1. Contract!MixedPromise(c) = {c.k * Contract!Half}
        BY <2>2, <3>2 DEF Contract!MixedPromise
      <4>2. WordFrom(s, c) = WordOf(Skeleton!Quantize(c.k))
        BY <2>1, <2>2, <3>2
        DEF WordFrom, SkeletonWord, HelperName, IntOperand, Skeleton!WordResult, Skeleton!IsaOps,
            Skeleton!IsaResult
      <4>3. c.k \in Trit
        BY <1>1, <3>2 DEF WellFormed
      <4> QED
        BY <4>1, <4>2, <4>3, SkeletonQuantizeKept
    <3> QED
      BY <1>4, <3>1, <3>2
  <2>3. CASE library # "skeleton"
    <3>1. Contract!MixedPromise(c) = Contract!WordPromise(c)
      BY <1>4, <2>3 DEF Contract!MixedPromise
    <3> QED
      BY <1>2, <2>1, <2>3, <3>1
  <2> QED
    BY <2>2, <2>3
<1>5. CASE c.op \notin {"xor", "tround", "tquant"}
  <2>1. Contract!MixedPromise(c) = Contract!WordPromise(c)
    BY <1>5 DEF Contract!MixedPromise
  <2>2. WordFrom(s, c) = WordFrom("runtime", c)
    BY <1>0, <1>5, WordsAgree DEF Sources
  <2> QED
    BY <1>2, <2>1, <2>2
<1> QED
  BY <1>3, <1>4, <1>5

(* What the body of a scalar call returns. *)
LEMMA MixedScalarKept ==
  ASSUME MixedTypes, NEW c \in ScalarCalls, NEW s \in Providers(c)
  PROVE  ScalarFrom(s, c) \in Contract!ScalarPromise(c)
<1>1. ScalarFrom(s, c) = ScalarResult(c)
  <2>1. ScalarFrom("runtime", c) = ScalarResult(c)
    BY DEF ScalarFrom
  <2> QED
    BY <2>1, ScalarsAgree DEF Providers
<1>2. ScalarResult(c) \in Abs!ScalarPromise(c)
  BY CallTypes, CompareKept, ReaderKept
<1> QED
  BY <1>1, <1>2, ContractPromises

(* INT64_MIN / -1 is the one quotient of C integers that is none. *)
LEMMA TrapAllowed ==
  ASSUME NEW c, Traps(c)
  PROVE  Contract!MayTrap(c)
<1> DEFINE x == ExactValue(regs[c.a])
           y == ExactValue(regs[c.b])
<1>1. c \in WordCalls /\ c.op \in {"div", "mod"} /\ {c.a, c.b} \subseteq Reg
  BY CallTypes DEF Traps
<1>2. /\ Abs!Fits(x) => MinInt = x
      /\ Abs!Fits(y) => -1 = y
  BY Operand DEF Traps
<1>3. ~Abs!Fits(Abs!Quotient(MinInt, -1))
  <2>1. Abs!Quotient(MinInt, -1) = CDiv(MinInt, -1) /\ MinInt \in Int
    BY DivIsQuotient, MaxIntAssumption DEF MinInt
  <2>2. CDiv(MinInt, -1) = MaxInt + 1
    <3>1. -MinInt = MaxInt + 1 /\ MinInt < 0 /\ MaxInt \in Nat
      BY MaxIntAssumption DEF MinInt
    <3>2. (MaxInt + 1) \div 1 = MaxInt + 1
      BY <3>1
    <3>3. CDiv(MinInt, -1) = -CQuot(MinInt, 1)
      BY DEF CDiv
    <3>4. CQuot(MinInt, 1) = -((-MinInt) \div 1)
      BY <3>1 DEF CQuot
    <3> QED
      BY <3>1, <3>2, <3>3, <3>4
  <2> QED
    BY <2>1, <2>2, MaxIntAssumption DEF Abs!Fits
<1>4. ~(Abs!Fits(x) /\ Abs!Fits(y) /\ Abs!Fits(Abs!Quotient(x, y)))
  <2> HIDE DEF x, y
  <2> QED
    BY <1>2, <1>3
<1> QED
  BY <1>1, <1>4, ContractCalls, ContractNumbers DEF Contract!MayTrap

-----------------------------------------------------------------------------

(* A lane of a vector call returns what the scalar call is promised. *)
LEMMA LaneKept ==
  ASSUME MixedTypes, NEW c \in VectorCalls, NEW i \in 1 .. 2
  PROVE  ExactValue(LaneOf(c, i)) \in Contract!WordPromise(Contract!OfLane(c, i))
<1> DEFINE lane == [op |-> ScalarOf(c.vec), a |-> c.a[i], b |-> c.b[i], c |-> c.c[i], k |-> c.k]
<1>1. Contract!OfLane(c, i) = lane
  BY DEF Contract!OfLane, Contract!ScalarName, ScalarOf
<1>2. /\ lane.op = ScalarOf(c.vec) /\ lane.a = c.a[i] /\ lane.b = c.b[i] /\ lane.c = c.c[i]
      /\ lane.k = c.k
  OBVIOUS
<1> HIDE DEF lane
<1>3. lane.op \in {"add", "sub", "mul", "and", "or", "xor", "not", "cmplt", "tlimp", "tmaj",
                  "tround", "tquant"}
  BY <1>2, VectorFields DEF StructVectorOps, ScalarOf
<1>4. WellFormed(lane)
  <2>1. lane.op = "tround" => c.vec = "tround"
    BY <1>2, VectorFields DEF StructVectorOps, ScalarOf
  <2>2. lane.op = "tquant" => c.vec = "tquant"
    BY <1>2, VectorFields DEF StructVectorOps, ScalarOf
  <2>3. {lane.a, lane.b, lane.c} \subseteq Reg
    BY <1>2, VectorFields
  <2> QED
    BY <1>2, <1>3, <2>1, <2>2, <2>3, VectorFields DEF WellFormed, TypeOps, IsaOps, Counted
<1>5. LaneOf(c, i) = IF lane.op \in TypeOps THEN TypeOpResult(lane) ELSE IsaOpResult(lane)
  <2>1. LaneOf(c, i) = LaneResult(lane.op, regs[lane.a], regs[lane.b], regs[lane.c], lane.k)
    BY <1>2 DEF LaneOf
  <2> QED
    BY <1>3, <2>1 DEF LaneResult, TypeOps, TypeOpResult, IsaOpResult, FlagWord
<1> QED
  BY <1>1, <1>4, <1>5, WordKept, ContractPromises DEF MixedTypes

-----------------------------------------------------------------------------
(* Initial states map to initial states. *)
LEMMA MixedInitMapped == MixedInit => Contract!MixedInit
<1> SUFFICES ASSUME MixedInit PROVE Contract!MixedInit
  OBVIOUS
<1>1. \A w : ExactValue(w) \in Contract!Value /\ Canonical(w) \in BOOLEAN
  BY Operand, ContractNumbers DEF Canonical
<1>2. /\ Val \in [Reg -> Contract!Value] /\ Clean \in [Reg -> BOOLEAN]
      /\ CellVal \in [Addr -> Contract!Value] /\ CellClean \in [Addr -> BOOLEAN]
  BY <1>1 DEF Val, Clean, CellVal, CellClean
<1> QED
  BY <1>2 DEF MixedInit, Init, Contract!MixedInit, Contract!Init, Val, Clean, CellVal, CellClean

(* What an assignment to a variable does to the mapped variables. *)
LEMMA MixedAssigned ==
  ASSUME MixedTypes, NEW r \in Reg, NEW w, regs' = [regs EXCEPT ![r] = w]
  PROVE  /\ Val' = [Val EXCEPT ![r] = ExactValue(w)]
         /\ Clean' = [Clean EXCEPT ![r] = Canonical(w)]
  BY Zenon DEF MixedTypes, Val, Clean

(* Every step of the mixture is the step of that name of the contract. *)
LEMMA MixedStepMapped ==
  MixedTypes /\ [MixedNext]_mixedVars => [Contract!MixedNext]_(Contract!mixedVars)
<1> SUFFICES ASSUME MixedTypes, [MixedNext]_mixedVars
             PROVE  [Contract!MixedNext]_(Contract!mixedVars)
  OBVIOUS
<1>t. regs \in [Reg -> Word]
  BY DEF MixedTypes
<1>k. regs' = regs => UNCHANGED <<Val, Clean>>
  BY DEF Val, Clean
<1>c. mem' = mem => UNCHANGED <<CellVal, CellClean>>
  BY DEF CellVal, CellClean
<1>r. Running => ~trapped /\ Contract!Unmoved
  BY <1>c DEF Running, Contract!Unmoved, CellVal, CellClean
<1>1. CASE MixedCall
  <2>1. call'.op \notin {"load", "store"} /\ call' \in Calls
    <3>1. call' \in WordCalls \cup ScalarCalls \cup MoveCalls
      BY <1>1 DEF MixedCall
    <3>2. call'.op \in TypeOps \cup IsaOps \cup Compare \cup Reader \cup {"select", "tmux"}
      BY <3>1, CallTypes
    <3> QED
      BY <3>1, <3>2 DEF Calls, TypeOps, IsaOps, Compare, Reader
  <2>2. call' \notin MemoryCalls
    BY <2>1 DEF MemoryCalls, CallSet
  <2>3. Contract!MixedCall
    BY <1>1, <1>k, <1>c, <2>1, <2>2, ContractCalls
       DEF MixedCall, Running, Contract!MixedCall, Contract!Call, Val, Clean, CellVal, CellClean
  <2> QED
    BY <1>1, <1>r, <2>3 DEF MixedCall, Contract!MixedNext
<1>2. CASE MixedReturnWord
  <2>1. PICK s \in Providers(call) : regs' = [regs EXCEPT ![call.a] = WordFrom(s, call)]
    BY <1>2 DEF MixedReturnWord
  <2>2. call \in WordCalls /\ call.a \in Reg
    BY <1>2, CallTypes DEF MixedReturnWord
  <2> DEFINE w == WordFrom(s, call)
  <2>3. ExactValue(w) \in Contract!MixedPromise(call) /\ Canonical(w) = TRUE
    <3>1. w \in CanonicalWord
      BY <2>2, BodiesCanonical DEF Providers
    <3> HIDE DEF w
    <3>2. Canonical(w) = TRUE
      BY <3>1, CanonicalWordIs DEF Canonical
    <3> QED
      BY <2>2, <3>2, MixedWordKept DEF w
  <2>4. regs' = [regs EXCEPT ![call.a] = w]
    BY <2>1
  <2> HIDE DEF w
  <2>5. /\ Val' = [Val EXCEPT ![call.a] = ExactValue(w)]
        /\ Clean' = [Clean EXCEPT ![call.a] = Canonical(w)]
    BY <2>2, <2>4, MixedAssigned
  <2>6. Val'[call.a] = ExactValue(w)
    BY <2>2, <2>5 DEF Val
  <2>7. /\ Val' = [Val EXCEPT ![call.a] = Val'[call.a]]
        /\ Clean' = [Clean EXCEPT ![call.a] = TRUE]
        /\ Val'[call.a] \in Contract!MixedPromise(call)
    BY <2>3, <2>5, <2>6
  <2>8. Contract!MixedReturnWord
    BY <1>2, <2>2, <2>7, ContractCalls
       DEF MixedReturnWord, Contract!MixedReturnWord, Contract!Set, Val, Clean
  <2> QED
    BY <1>2, <1>r, <2>8 DEF MixedReturnWord, Contract!MixedNext
<1>3. CASE MixedReturnScalar
  <2>1. call \in ScalarCalls /\ res' \in Contract!ScalarPromise(call)
    BY <1>3, MixedScalarKept DEF MixedReturnScalar
  <2>2. Contract!ReturnScalar
    BY <1>3, <1>k, <1>c, <2>1, ContractCalls
       DEF MixedReturnScalar, Running, Contract!ReturnScalar, Val, Clean, CellVal, CellClean
  <2> QED
    BY <1>3, <1>r, <2>2 DEF MixedReturnScalar, Contract!MixedReturn, Contract!MixedNext
<1>4. CASE MixedReturnMove
  <2> DEFINE w == IF call.op = "select" THEN Select(res, regs[call.a], regs[call.b])
                  ELSE Mux(regs[call.c], regs[call.a], regs[call.b], regs[call.c])
  <2>1. call \in MoveCalls /\ call.a \in Reg /\ regs' = [regs EXCEPT ![call.a] = w]
    BY <1>4, CallTypes DEF MixedReturnMove, ReturnMove
  <2>2. PICK r \in Contract!Chosen(call) : r \in Reg /\ regs[r] = w
    BY <2>1, MoveKept, ContractPromises
  <2> HIDE DEF w
  <2>3. /\ Val' = [Val EXCEPT ![call.a] = ExactValue(w)]
        /\ Clean' = [Clean EXCEPT ![call.a] = Canonical(w)]
    BY <2>1, MixedAssigned
  <2>4. Val[r] = ExactValue(w) /\ Clean[r] = Canonical(w)
    BY <2>2 DEF Val, Clean
  <2>5. /\ Val' = [Val EXCEPT ![call.a] = Val[r]]
        /\ Clean' = [Clean EXCEPT ![call.a] = Clean[r]]
    BY <2>3, <2>4
  <2>6. Contract!ReturnMove
    BY <1>4, <1>c, <2>1, <2>2, <2>5, ContractCalls
       DEF MixedReturnMove, ReturnMove, Contract!ReturnMove, Contract!Set, Val, Clean, CellVal,
           CellClean
  <2> QED
    BY <1>4, <1>r, <2>6 DEF MixedReturnMove, Contract!MixedReturn, Contract!MixedNext
<1>5. CASE Trap
  <2>1. Contract!MayTrap(call) /\ UNCHANGED <<Val, Clean, CellVal, CellClean>>
    BY <1>5, <1>k, <1>c, TrapAllowed DEF Trap, Running
  <2>2. Contract!Trap
    BY <1>5, <2>1 DEF Trap, Contract!Trap, Contract!vars, Val, Clean, CellVal, CellClean
  <2> QED
    BY <1>5, <1>r, <2>2 DEF Trap, Contract!MixedNext
<1>6. CASE CallVector
  <2>1. Contract!CallVector
    BY <1>6, <1>k, ContractCalls DEF CallVector, Contract!CallVector, Val, Clean
  <2> QED
    BY <1>6, <1>r, <2>1 DEF CallVector, Contract!MixedNext
<1>7. CASE ReturnVector
  <2> DEFINE a == call.a[1]
             b == call.a[2]
             u == LaneOf(call, 1)
             v == LaneOf(call, 2)
  <2>1. call \in VectorCalls /\ a \in Reg /\ b \in Reg /\ a # b
    BY <1>7, VectorFields DEF ReturnVector
  <2>2. regs' = [regs EXCEPT ![a] = u, ![b] = v]
    BY <1>7, <2>1, VectorLanes DEF ReturnVector
  <2>3. /\ ExactValue(u) \in Contract!WordPromise(Contract!OfLane(call, 1)) /\ Canonical(u) = TRUE
        /\ ExactValue(v) \in Contract!WordPromise(Contract!OfLane(call, 2)) /\ Canonical(v) = TRUE
    <3>1. u \in CanonicalWord /\ v \in CanonicalWord
      BY <2>1, VectorLanes
    <3>2. /\ ExactValue(u) \in Contract!WordPromise(Contract!OfLane(call, 1))
          /\ ExactValue(v) \in Contract!WordPromise(Contract!OfLane(call, 2))
      BY <2>1, LaneKept
    <3> HIDE DEF u, v
    <3> QED
      BY <3>1, <3>2, CanonicalWordIs DEF Canonical
  <2> HIDE DEF u, v
  <2>4. regs'[a] = u /\ regs'[b] = v /\ \A r \in Reg : r \notin {a, b} => regs'[r] = regs[r]
    <3> HIDE DEF a, b
    <3> QED BY <1>t, <2>1, <2>2
  <2>5. \A r \in Reg : /\ Val[r] = ExactValue(regs[r]) /\ Clean[r] = Canonical(regs[r])
                       /\ Val'[r] = ExactValue(regs'[r]) /\ Clean'[r] = Canonical(regs'[r])
    BY DEF Val, Clean
  <2>6. /\ Val'[a] \in Contract!WordPromise(Contract!OfLane(call, 1))
        /\ Val'[b] \in Contract!WordPromise(Contract!OfLane(call, 2))
        /\ \A r \in Reg : r \notin {a, b} => Val'[r] = Val[r]
    <3> HIDE DEF a, b
    <3> QED BY <2>1, <2>3, <2>4, <2>5
  <2>7. Clean' = [r \in Reg |-> Clean[r] \/ r \in {a, b}]
    <3>1. ASSUME NEW r \in Reg PROVE Clean'[r] = (Clean[r] \/ r \in {a, b})
      <4> HIDE DEF a, b
      <4>1. Clean[r] \in BOOLEAN
        BY DEF Clean, Canonical
      <4>2. r \in {a, b} => Clean'[r] = TRUE
        BY <2>3, <2>4, <2>5
      <4>3. r \notin {a, b} => Clean'[r] = Clean[r]
        BY <2>4, <2>5
      <4> QED
        BY <4>1, <4>2, <4>3
    <3>2. Clean' = [r \in Reg |-> Clean'[r]]
      BY DEF Clean
    <3> HIDE DEF a, b
    <3> QED BY <3>1, <3>2
  <2>8. \A i \in 1 .. 2 : Val'[call.a[i]] \in Contract!WordPromise(Contract!OfLane(call, i))
    <3>1. \A i \in 1 .. 2 : i = 1 \/ i = 2
      OBVIOUS
    <3> QED
      BY <2>6, <3>1
  <2>9. Contract!ReturnVector
    BY <1>7, <2>6, <2>7, <2>8, ContractCalls DEF ReturnVector, Contract!ReturnVector, Val, Clean
  <2> QED
    BY <1>7, <1>r, <2>9 DEF ReturnVector, Contract!MixedNext
<1>8. CASE UNCHANGED mixedVars
  <2>1. UNCHANGED <<Val, Clean, CellVal, CellClean>>
    BY <1>8, <1>k, <1>c DEF mixedVars, vars
  <2> QED
    BY <1>8, <2>1
       DEF mixedVars, vars, Contract!mixedVars, Contract!vars, Val, Clean, CellVal, CellClean
<1> QED
  BY <1>1, <1>2, <1>3, <1>4, <1>5, <1>6, <1>7, <1>8 DEF MixedNext

(* For every trit count and container: whichever body each call of a       *)
(* program runs, lanes of vectors included, the words and C integers are   *)
(* those the ABI promises, but for the header's xor and the skeleton's     *)
(* tround and tquant, whose results the contract spells out; and a program *)
(* is stopped by a trap only where a quotient leaves int64_t.              *)
THEOREM MixedImplementsContract == MixedSpec => ImplementsContract
<1>1. MixedInit => Contract!MixedInit
  BY MixedInitMapped
<1>2. MixedInvariant /\ [MixedNext]_mixedVars => [Contract!MixedNext]_(Contract!mixedVars)
  BY MixedStepMapped DEF MixedInvariant
<1> QED
  BY <1>1, <1>2, MixedInitInvariant, MixedStepInvariant, PTL
     DEF MixedSpec, ImplementsContract, Contract!MixedSpec
=============================================================================
