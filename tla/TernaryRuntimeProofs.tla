------------------------ MODULE TernaryRuntimeProofs ------------------------
(***************************************************************************)
(* The runtime, for every trit count, container width, set of variables,   *)
(* memory and set of words that come from outside.                         *)
(*                                                                         *)
(* ReservedOnlyFromOutside is inductive together with the types: a helper  *)
(* that computes returns a canonical word (WordResult), a helper that      *)
(* moves returns a word that was there.  The one helper that is canonical  *)
(* only by its operand's type is tnormalize.                               *)
(*                                                                         *)
(* ImplementsAbstract needs the types alone: helper by helper, the value   *)
(* of the word that is returned is one the abstract call promises.         *)
(***************************************************************************)
EXTENDS TernaryRuntime, TritWordProofs

IsaOps == {"tlimp", "tmaj", "tnot", "tmuladd", "tround", "tnormalize", "tbias",
           "tquant", "tequiv", "txor"}

(* The operand fields hold variables; a memory call's k is a cell. *)
LEMMA CallTypes ==
  /\ \A c \in WordCalls : c.op \in TypeOps \cup IsaOps /\ {c.a, c.b, c.c} \subseteq Reg
  /\ \A c \in ScalarCalls : c.op \in Compare \cup Reader /\ {c.a, c.b, c.c} \subseteq Reg
  /\ \A c \in MoveCalls : c.op \in {"select", "tmux"} /\ {c.a, c.b, c.c} \subseteq Reg
  /\ \A c \in MemoryCalls : c.a \in Reg /\ c.k \in Addr
<1>1. r0 \in Reg
  BY RuntimeAssumption DEF r0
<1>2. \A c \in WordCalls : c.op \in TypeOps \cup IsaOps
  BY DEF WordCalls, CallSet, Binary, Unary, Ternary, Counted, OfLiteral, TypeOps, IsaOps
<1>3. \A c \in WordCalls : {c.a, c.b, c.c} \subseteq Reg
  BY <1>1 DEF WordCalls, CallSet
<1>4. \A c \in ScalarCalls : c.op \in Compare \cup Reader /\ {c.a, c.b, c.c} \subseteq Reg
  BY <1>1 DEF ScalarCalls, CallSet
<1>5. \A c \in MoveCalls : c.op \in {"select", "tmux"} /\ {c.a, c.b, c.c} \subseteq Reg
  BY <1>1 DEF MoveCalls, CallSet
<1>6. \A c \in MemoryCalls : c.a \in Reg /\ c.k \in Addr
  BY DEF MemoryCalls, CallSet
<1> QED
  BY <1>2, <1>3, <1>4, <1>5, <1>6

(* The helpers every type has return canonical words. *)
LEMMA TypeOpCanonical ==
  ASSUME NEW c, c.op \in TypeOps
  PROVE  TypeOpResult(c) \in CanonicalWord
<1> DEFINE x == regs[c.a]
           y == regs[c.b]
<1>1. /\ Add(x, y) \in CanonicalWord /\ Sub(x, y) \in CanonicalWord
      /\ Mul(x, y) \in CanonicalWord /\ Div(x, y) \in CanonicalWord
      /\ Mod(x, y) \in CanonicalWord /\ Neg(x) \in CanonicalWord
  BY EncodeCanonical DEF Add, Sub, Mul, Div, Mod, Neg
<1>2. \A trit, holds : FlagWord(trit, holds) \in CanonicalWord
  BY EncodeCanonical DEF FlagWord
<1> QED
  BY <1>1, <1>2, EncodeCanonical, TritwiseCanonical, ShiftCanonical DEF TypeOpResult, TypeOps

(* So do the ternary-only helpers, tnormalize given a word. *)
LEMMA IsaOpCanonical ==
  ASSUME NEW c, c.op \in IsaOps, regs[c.a] \in Word
  PROVE  IsaOpResult(c) \in CanonicalWord
<1> DEFINE x == regs[c.a]
           y == regs[c.b]
           z == regs[c.c]
<1>1. /\ MulAdd(x, y, z) \in CanonicalWord /\ Bias(x, c.k) \in CanonicalWord
      /\ Equiv(x, y) \in CanonicalWord /\ Txor(x, y) \in CanonicalWord
  BY EncodeCanonical DEF MulAdd, Bias, Equiv, Txor, EncodeTrit
<1> QED
  BY <1>1, TritwiseCanonical, RoundCanonical, NormalizeCanonical DEF IsaOpResult, IsaOps

(* Whichever body a word call runs, its result is canonical. *)
LEMMA WordResult ==
  ASSUME TypeOK, call \in WordCalls
  PROVE  (IF call.op \in TypeOps THEN TypeOpResult(call) ELSE IsaOpResult(call))
           \in CanonicalWord
  BY CallTypes, TypeOpCanonical, IsaOpCanonical DEF TypeOK

(* A scalar helper returns an int64_t, also through a cast to int. *)
LEMMA ScalarType ==
  ASSUME NEW c \in ScalarCalls
  PROVE  ScalarResult(c) \in CInteger
<1>1. -1 \in CInteger /\ 0 \in CInteger /\ 1 \in CInteger /\ -1 .. 1 \subseteq CInteger
  BY MaxIntAssumption DEF CInteger, MinInt
<1>2. c.op \in Compare \cup Reader
  BY CallTypes
<1>3. \A w : SignJmp(w, -1, 0, 1) \in CInteger
  BY <1>1 DEF SignJmp, ThreeWay
<1>4. \A w : WrapTo(Decode(w), MaxShort) \in CInteger
  <2> TAKE w
  <2>1. Decode(w) \in Int /\ MaxShort \in Nat
    BY DecodeType, RuntimeAssumption, MaxIntAssumption DEF CInteger, MinInt
  <2>2. WrapTo(Decode(w), MaxShort) \in -MaxShort - 1 .. MaxShort
    BY <2>1, WrapToType
  <2> QED
    BY <2>2, RuntimeAssumption, MaxIntAssumption DEF CInteger, MinInt
<1> QED
  BY <1>1, <1>2, <1>3, <1>4, CmpType, DecodeType DEF ScalarResult, Bool, Compare, Reader

-----------------------------------------------------------------------------
(* The initial words, also those from outside, are packed words. *)
LEMMA InitTypes == Init => TypeOK
  BY RuntimeAssumption, MaxIntAssumption DEF Init, TypeOK, CInteger, MinInt

(* No helper leaves a variable or a cell without a packed word. *)
LEMMA StepTypes == TypeOK /\ [Next]_vars => TypeOK'
<1> SUFFICES ASSUME TypeOK, [Next]_vars PROVE TypeOK'
  OBVIOUS
<1> USE DEF TypeOK
<1>0. 0 \in CInteger /\ CanonicalWord \subseteq Word /\ RawWord \subseteq Word
  BY MaxIntAssumption, RuntimeAssumption, CanonicalWordIs DEF CInteger, MinInt
<1>1. CASE Call
  BY <1>0, <1>1 DEF Call
<1>2. CASE ReturnWord
  BY <1>0, <1>2, WordResult DEF ReturnWord
<1>3. CASE ReturnScalar
  BY <1>3, ScalarType DEF ReturnScalar
<1>4. CASE ReturnMove
  <2>1. {call.a, call.b, call.c} \subseteq Reg
    BY <1>4, CallTypes DEF ReturnMove
  <2>2. /\ Select(res, regs[call.a], regs[call.b]) \in Word
        /\ Mux(regs[call.c], regs[call.a], regs[call.b], regs[call.c]) \in Word
    BY <2>1 DEF Select, Mux, ThreeWay
  <2> QED
    BY <1>0, <1>4, <2>2 DEF ReturnMove
<1>5. CASE Load
  BY <1>5, CallTypes DEF Load
<1>6. CASE Store
  BY <1>6, CallTypes DEF Store
<1>7. CASE Outside
  BY <1>0, <1>7 DEF Outside
<1>8. CASE UNCHANGED vars
  BY <1>8 DEF vars
<1> QED
  BY <1>1, <1>2, <1>3, <1>4, <1>5, <1>6, <1>7, <1>8 DEF Next

(* Every variable and every cell always holds a packed word, and every     *)
(* integer a helper returns is an int64_t, also where decode overflows.    *)
THEOREM RuntimeTypes == Spec => []TypeOK
<1>1. Init => TypeOK
  BY InitTypes
<1>2. TypeOK /\ [Next]_vars => TypeOK'
  BY StepTypes
<1> QED
  BY <1>1, <1>2, PTL DEF Spec

-----------------------------------------------------------------------------
(* A word that may be in a variable or in memory. *)
Explained(w) == Canonical(w) \/ w \in RawWord

(* Every initial word comes from outside. *)
LEMMA InitReserved == Init => ReservedOnlyFromOutside
  BY DEF Init, ReservedOnlyFromOutside

(* What a step writes is canonical or was there before. *)
LEMMA StepReserved ==
  TypeOK /\ ReservedOnlyFromOutside /\ [Next]_vars => ReservedOnlyFromOutside'
<1> SUFFICES ASSUME TypeOK, ReservedOnlyFromOutside, [Next]_vars
             PROVE  ReservedOnlyFromOutside'
  OBVIOUS
<1> USE DEF TypeOK
<1>0. /\ \A r \in Reg  : Explained(regs[r])
      /\ \A a \in Addr : Explained(mem[a])
  BY DEF ReservedOnlyFromOutside, Explained
<1>g. /\ \A r \in Reg  : Explained(regs'[r])
      /\ \A a \in Addr : Explained(mem'[a])
  <2>1. CASE Call
    BY <1>0, <2>1 DEF Call
  <2>2. CASE ReturnWord
    <3>1. \A w \in CanonicalWord : Explained(w)
      BY CanonicalWordIs DEF Explained
    <3> QED
      BY <1>0, <2>2, <3>1, WordResult DEF ReturnWord
  <2>3. CASE ReturnScalar
    BY <1>0, <2>3 DEF ReturnScalar
  <2>4. CASE ReturnMove
    <3>1. {call.a, call.b, call.c} \subseteq Reg
      BY <2>4, CallTypes DEF ReturnMove
    <3>2. /\ Explained(Select(res, regs[call.a], regs[call.b]))
          /\ Explained(Mux(regs[call.c], regs[call.a], regs[call.b], regs[call.c]))
      BY <1>0, <3>1 DEF Select, Mux, ThreeWay
    <3> QED
      BY <1>0, <2>4, <3>2 DEF ReturnMove
  <2>5. CASE Load
    BY <1>0, <2>5, CallTypes DEF Load
  <2>6. CASE Store
    BY <1>0, <2>6, CallTypes DEF Store
  <2>7. CASE Outside
    <3>1. \A w \in RawWord : Explained(w)
      BY DEF Explained
    <3> QED
      BY <1>0, <2>7, <3>1 DEF Outside
  <2>8. CASE UNCHANGED vars
    BY <1>0, <2>8 DEF vars
  <2> QED
    BY <2>1, <2>2, <2>3, <2>4, <2>5, <2>6, <2>7, <2>8 DEF Next
<1> QED
  BY <1>g DEF ReservedOnlyFromOutside, Explained

(* No sequence of helper calls, moves, loads and stores ever makes a word  *)
(* that holds the reserved code.                                           *)
THEOREM RuntimeMakesNoReserved == Spec => []ReservedOnlyFromOutside
<1>1. Init => TypeOK /\ ReservedOnlyFromOutside
  BY InitTypes, InitReserved
<1>2. TypeOK /\ ReservedOnlyFromOutside /\ [Next]_vars
        => (TypeOK /\ ReservedOnlyFromOutside)'
  BY StepTypes, StepReserved
<1> QED
  BY <1>1, <1>2, PTL DEF Spec

-----------------------------------------------------------------------------
(* The definitions of the abstract module are those of the proofs about    *)
(* words.                                                                  *)
LEMMA AbsCalls ==
  /\ Abs!Calls = Calls /\ Abs!WordCalls = WordCalls /\ Abs!ScalarCalls = ScalarCalls
  /\ Abs!MoveCalls = MoveCalls /\ Abs!MemoryCalls = MemoryCalls /\ Abs!ReadsRes = ReadsRes
  BY DEF Abs!Calls, Calls, Abs!WordCalls, WordCalls, Abs!ScalarCalls, ScalarCalls,
         Abs!MoveCalls, MoveCalls, Abs!MemoryCalls, MemoryCalls, Abs!ReadsRes, ReadsRes,
         Abs!CallSet, CallSet, Abs!Binary, Binary, Abs!Unary, Unary, Abs!Ternary, Ternary,
         Abs!Counted, Counted, Abs!Compare, Compare, Abs!Reader, Reader,
         Abs!OfLiteral, OfLiteral, Abs!r0, r0

(* Range, digits, reduction and sign are the same in both. *)
LEMMA AbsNumbers ==
  /\ Abs!Value = Values /\ Abs!Half = Half3(Trits) /\ Abs!Pow3 = Pow3
  /\ \A x : Abs!Reduce(x) = Reduced(x)
  /\ \A v, i : Abs!Digit(v, i) = TritAt(v, i)
  /\ \A x : Abs!SignOf(x) = SignOfInt(x)
  BY DEF Abs!Value, Values, Abs!Half, Half3, Abs!Reduce, Reduced, Abs!Digit, TritAt,
         Abs!SignOf, SignOfInt, Abs!Pow3, Pow3

(* The promise's container is int64_t. *)
LEMMA AbsFits == \A x \in Int : Abs!Fits(x) <=> x \in CInteger
  BY MaxIntAssumption DEF Abs!Fits, CInteger, MinInt

(* Decode returns what an operand stands for if it fits, and so does Wrap. *)
LEMMA Operand ==
  \A w : /\ ExactValue(w) \in Values /\ ExactValue(w) \in Int /\ Decode(w) \in Int
         /\ Decode(w) \in CInteger
         /\ Abs!Fits(ExactValue(w)) => Decode(w) = ExactValue(w)
<1> TAKE w
<1>1. ExactValue(w) \in Values /\ ExactValue(w) \in Int
  BY ValueRange, HalfType DEF ExactValue, Values
<1>2. Decode(w) \in Int /\ Decode(w) \in CInteger
  BY DecodeType, MaxIntAssumption DEF CInteger, MinInt
<1> QED
  BY <1>1, <1>2, AbsFits, DecodeFits DEF ExactValue

(* Wrapping keeps what fits int64_t. *)
LEMMA WrapFits == \A n \in Int : Wrap(n) \in Int /\ (Abs!Fits(n) => Wrap(n) = n)
  BY WrapType, WrapIdentity, AbsFits, MaxIntAssumption DEF CInteger, MinInt

(* A word made by Encode from what is the exact result where that fits. *)
LEMMA PromiseKept ==
  ASSUME NEW args, NEW exact, NEW n \in Int,
         (\A y \in args : Abs!Fits(y)) /\ Abs!Fits(exact) => n = exact
  PROVE  ExactValue(Encode(n)) \in Abs!Promise(args, exact)
<1>1. ExactValue(Encode(n)) = Reduced(n)
  BY EncodeReduces DEF ExactValue
<1>2. ExactValue(Encode(n)) \in Values
  BY Operand
<1> QED
  BY <1>1, <1>2, AbsNumbers DEF Abs!Promise

(* The code's signed division is the quotient towards zero. *)
LEMMA DivIsQuotient == \A x, y \in Int : CDiv(x, y) \in Int /\ CDiv(x, y) = Abs!Quotient(x, y)
<1> TAKE x, y \in Int
<1> DEFINE a == IF x < 0 THEN -x ELSE x
           b == IF y < 0 THEN -y ELSE y
           q == a \div b
<1>1. CASE y = 0
  BY <1>1 DEF CDiv, Abs!Quotient
<1>2. CASE y # 0
  <2>1. a \in Nat /\ b \in Nat /\ b > 0 /\ (x = 0 => a = 0)
    BY <1>2
  <2>2. q \in Int /\ (x = 0 => q = 0)
    <3> HIDE DEF a, b
    <3>1. a \div b \in Int
      BY <2>1
    <3>2. ASSUME x = 0 PROVE a \div b = 0
      <4>1. a = 0 /\ 0 * b <= 0 /\ 0 < 0 * b + b
        BY <2>1, <3>2
      <4> QED
        BY <2>1, <4>1, QuotIs
    <3> QED
      BY <3>1, <3>2
  <2>3. Abs!Quotient(x, y) = (Abs!SignOf(x) * Abs!SignOf(y)) * q
    BY <1>2 DEF Abs!Quotient, Abs!Abs
  <2>4. CDiv(x, y) = IF y < 0 THEN (IF x < 0 THEN -(-q) ELSE -q) ELSE (IF x < 0 THEN -q ELSE q)
    BY <1>2 DEF CDiv, CQuot
  <2> HIDE DEF q
  <2> QED
    BY <1>2, <2>2, <2>3, <2>4 DEF Abs!SignOf
<1> QED
  BY <1>1, <1>2

(* The code's remainder is the one that goes with that quotient. *)
LEMMA ModIsRemainder == \A x, y \in Int : CMod(x, y) \in Int /\ CMod(x, y) = Abs!Remainder(x, y)
<1> TAKE x, y \in Int
<1> DEFINE a == IF x < 0 THEN -x ELSE x
           b == IF y < 0 THEN -y ELSE y
           q == a \div b
           r == a % b
<1>1. CASE y = 0
  BY <1>1 DEF CMod, Abs!Remainder
<1>2. CASE y # 0
  <2>1. a \in Nat /\ b \in Nat /\ b > 0
    BY <1>2
  <2>2. q \in Int /\ r \in Int /\ a = b * q + r
    <3> HIDE DEF a, b
    <3> QED BY <2>1
  <2>3. CMod(x, y) = IF x < 0 THEN -r ELSE r
    BY <1>2 DEF CMod, CRem, Magnitude
  <2>4. CDiv(x, y) = IF y < 0 THEN (IF x < 0 THEN -(-q) ELSE -q) ELSE (IF x < 0 THEN -q ELSE q)
    BY <1>2 DEF CDiv, CQuot
  <2>5. Abs!Remainder(x, y) = x - y * CDiv(x, y)
    BY <1>2, DivIsQuotient DEF Abs!Remainder
  <2> HIDE DEF q, r
  <2>6. y * CDiv(x, y) = IF x < 0 THEN -(b * q) ELSE b * q
    BY <1>2, <2>2, <2>4
  <2>7. b * q \in Int
    BY <2>1, <2>2
  <2>8. x - y * CDiv(x, y) = IF x < 0 THEN -r ELSE r
    <3> DEFINE m == b * q
    <3>1. m \in Int /\ a = m + r /\ y * CDiv(x, y) = IF x < 0 THEN -m ELSE m
      BY <2>2, <2>6, <2>7
    <3> HIDE DEF m
    <3> QED
      BY <2>2, <3>1
  <2> QED
    BY <2>2, <2>3, <2>5, <2>8
<1> QED
  BY <1>1, <1>2

-----------------------------------------------------------------------------
(* What goes through int64_t. *)
ArithmeticOps == {"add", "sub", "mul", "div", "mod", "neg", "not"}

(* add, sub, mul, div, mod, neg and not. *)
LEMMA ArithmeticKept ==
  ASSUME NEW c, {c.a, c.b, c.c} \subseteq Reg, c.op \in ArithmeticOps
  PROVE  ExactValue(TypeOpResult(c)) \in Abs!WordPromise(c)
<1> DEFINE x == ExactValue(regs[c.a])
           y == ExactValue(regs[c.b])
           m == Decode(regs[c.a])
           n == Decode(regs[c.b])
           fit == Abs!Fits(x) /\ Abs!Fits(y)
<1>0. /\ x \in Int /\ y \in Int /\ m \in Int /\ n \in Int
      /\ Abs!Fits(x) => m = x
      /\ Abs!Fits(y) => n = y
  BY Operand
<1>1. CASE c.op = "add"
  <2>1. /\ TypeOpResult(c) = Encode(Wrap(m + n))
        /\ Abs!WordPromise(c) = Abs!Promise({x, y}, x + y)
    BY <1>1 DEF TypeOpResult, Add, Abs!WordPromise
  <2> HIDE DEF x, y, m, n
  <2> QED
    BY <1>0, <2>1, WrapFits, PromiseKept
<1>2. CASE c.op = "sub"
  <2>1. /\ TypeOpResult(c) = Encode(Wrap(m - n))
        /\ Abs!WordPromise(c) = Abs!Promise({x, y}, x - y)
    BY <1>2 DEF TypeOpResult, Sub, Abs!WordPromise
  <2> HIDE DEF x, y, m, n
  <2> QED
    BY <1>0, <2>1, WrapFits, PromiseKept
<1>3. CASE c.op = "mul"
  <2>1. /\ TypeOpResult(c) = Encode(Wrap(m * n))
        /\ Abs!WordPromise(c) = Abs!Promise({x, y}, x * y)
    BY <1>3 DEF TypeOpResult, Mul, Abs!WordPromise
  <2> HIDE DEF x, y, m, n
  <2>2. m * n \in Int
    BY <1>0
  <2> QED
    BY <1>0, <2>1, <2>2, WrapFits, PromiseKept
<1>4. CASE c.op = "div"
  <2>1. /\ TypeOpResult(c) = Encode(Wrap(CDiv(m, n)))
        /\ Abs!WordPromise(c) = Abs!Promise({x, y}, Abs!Quotient(x, y))
    BY <1>4 DEF TypeOpResult, Div, Abs!WordPromise
  <2> HIDE DEF x, y, m, n
  <2>2. CDiv(m, n) \in Int /\ CDiv(m, n) = Abs!Quotient(m, n)
    BY <1>0, DivIsQuotient
  <2> QED
    BY <1>0, <2>1, <2>2, WrapFits, PromiseKept
<1>5. CASE c.op = "mod"
  <2>1. /\ TypeOpResult(c) = Encode(CMod(m, n))
        /\ Abs!WordPromise(c) = Abs!Promise({x, y}, Abs!Remainder(x, y))
    BY <1>5 DEF TypeOpResult, Mod, Abs!WordPromise
  <2> HIDE DEF x, y, m, n
  <2>2. CMod(m, n) \in Int /\ CMod(m, n) = Abs!Remainder(m, n)
    BY <1>0, ModIsRemainder
  <2> QED
    BY <1>0, <2>1, <2>2, PromiseKept
<1>6. CASE c.op \in {"neg", "not"}
  <2>1. /\ TypeOpResult(c) = Encode(Wrap(-m))
        /\ Abs!WordPromise(c) = Abs!Promise({x}, -x)
    BY <1>6 DEF TypeOpResult, Neg, Abs!WordPromise
  <2> HIDE DEF x, y, m, n
  <2> QED
    BY <1>0, <2>1, WrapFits, PromiseKept
<1> QED
  BY <1>1, <1>2, <1>3, <1>4, <1>5, <1>6 DEF ArithmeticOps

(* __ternary_cmp orders the decoded operands. *)
LEMMA CmpIs ==
  ASSUME NEW a, NEW b
  PROVE  LET m == Decode(a)  n == Decode(b) IN
         /\ Cmp(a, b) = -1 <=> m < n
         /\ Cmp(a, b) = 0 <=> m = n
         /\ Cmp(a, b) = 1 <=> m > n
         /\ Cmp(a, b) = SignOfInt(m - n)
<1> DEFINE m == Decode(a)
           n == Decode(b)
<1>1. m \in Int /\ n \in Int
  BY Operand
<1>2. Cmp(a, b) = IF m < n THEN -1 ELSE IF m > n THEN 1 ELSE 0
  BY DEF Cmp
<1> HIDE DEF m, n
<1>3. /\ Cmp(a, b) = -1 <=> m < n
      /\ Cmp(a, b) = 0 <=> m = n
      /\ Cmp(a, b) = 1 <=> m > n
      /\ Cmp(a, b) = SignOfInt(m - n)
  BY <1>1, <1>2 DEF SignOfInt
<1> QED
  BY <1>3 DEF m, n

FlagOps == {"cmplt", "cmpeq", "cmpgt", "cmpneq"}

(* cmplt, cmpeq, cmpgt and cmpneq. *)
LEMMA FlagKept ==
  ASSUME NEW c, {c.a, c.b, c.c} \subseteq Reg, c.op \in FlagOps
  PROVE  ExactValue(TypeOpResult(c)) \in Abs!WordPromise(c)
<1> DEFINE x == ExactValue(regs[c.a])
           y == ExactValue(regs[c.b])
           m == Decode(regs[c.a])
           n == Decode(regs[c.b])
<1>0. /\ x \in Int /\ y \in Int /\ m \in Int /\ n \in Int
      /\ Abs!Fits(x) => m = x
      /\ Abs!Fits(y) => n = y
  BY Operand
<1>1. CASE c.op = "cmplt"
  <2>1. /\ TypeOpResult(c) = Encode(IF Cmp(regs[c.a], regs[c.b]) = -1 THEN -1 ELSE 0)
        /\ Abs!WordPromise(c) = Abs!Promise({x, y}, IF x < y THEN -1 ELSE 0)
    BY <1>1 DEF TypeOpResult, FlagWord, Abs!WordPromise
  <2>2. TypeOpResult(c) = Encode(IF m < n THEN -1 ELSE 0)
    BY <2>1, CmpIs
  <2> HIDE DEF x, y, m, n
  <2> QED
    BY <1>0, <2>1, <2>2, PromiseKept
<1>2. CASE c.op = "cmpeq"
  <2>1. /\ TypeOpResult(c) = Encode(IF Cmp(regs[c.a], regs[c.b]) = 0 THEN 1 ELSE 0)
        /\ Abs!WordPromise(c) = Abs!Promise({x, y}, IF x = y THEN 1 ELSE 0)
    BY <1>2 DEF TypeOpResult, FlagWord, Abs!WordPromise
  <2>2. TypeOpResult(c) = Encode(IF m = n THEN 1 ELSE 0)
    BY <2>1, CmpIs
  <2> HIDE DEF x, y, m, n
  <2> QED
    BY <1>0, <2>1, <2>2, PromiseKept
<1>3. CASE c.op = "cmpgt"
  <2>1. /\ TypeOpResult(c) = Encode(IF Cmp(regs[c.a], regs[c.b]) = 1 THEN 1 ELSE 0)
        /\ Abs!WordPromise(c) = Abs!Promise({x, y}, IF x > y THEN 1 ELSE 0)
    BY <1>3 DEF TypeOpResult, FlagWord, Abs!WordPromise
  <2>2. TypeOpResult(c) = Encode(IF m > n THEN 1 ELSE 0)
    BY <2>1, CmpIs
  <2> HIDE DEF x, y, m, n
  <2> QED
    BY <1>0, <2>1, <2>2, PromiseKept
<1>4. CASE c.op = "cmpneq"
  <2>1. /\ TypeOpResult(c) = Encode(IF Cmp(regs[c.a], regs[c.b]) # 0 THEN 1 ELSE 0)
        /\ Abs!WordPromise(c) = Abs!Promise({x, y}, IF x # y THEN 1 ELSE 0)
    BY <1>4 DEF TypeOpResult, FlagWord, Abs!WordPromise
  <2>2. TypeOpResult(c) = Encode(IF m # n THEN 1 ELSE 0)
    BY <2>1, CmpIs
  <2> HIDE DEF x, y, m, n
  <2> QED
    BY <1>0, <2>1, <2>2, PromiseKept
<1> QED
  BY <1>1, <1>2, <1>3, <1>4 DEF FlagOps

(* What a call of a helper that returns a word holds, if its operands are  *)
(* variables: the field k is an integer, a count or a trit by the helper.  *)
WellFormed(c) ==
  /\ c.op \in TypeOps \cup IsaOps /\ {c.a, c.b, c.c} \subseteq Reg
  /\ c.op \in {"tb2t", "tbias"} => c.k \in Int
  /\ c.op \in Counted => c.k \in Nat
  /\ c.op = "tquant" => c.k \in Trit

(* The calls of a program are. *)
LEMMA CallsFormed == \A c \in WordCalls : WellFormed(c)
<1> TAKE c \in WordCalls
<1>1. /\ c.op \in {"tb2t", "tbias"} => c.k \in Literal
      /\ c.op \in Counted => c.k \in Count
      /\ c.op = "tquant" => c.k \in Trit
  BY DEF WordCalls, CallSet, Binary, Unary, Ternary, Counted, OfLiteral, Trit
<1>2. Count \subseteq Nat /\ Literal \subseteq Int
  BY RuntimeAssumption, MaxIntAssumption DEF CInteger, MinInt
<1> QED
  BY <1>1, <1>2, CallTypes DEF WellFormed

(* tb2t of a literal and of a scalar result. *)
LEMMA LiteralKept ==
  ASSUME res \in CInteger, NEW c, WellFormed(c), c.op \in {"tb2t", "tb2t_res"}
  PROVE  ExactValue(TypeOpResult(c)) \in Abs!WordPromise(c)
<1>1. CASE c.op = "tb2t"
  <2>1. c.k \in Int
    BY <1>1 DEF WellFormed
  <2>2. TypeOpResult(c) = Encode(c.k) /\ Abs!WordPromise(c) = Abs!Promise({}, c.k)
    BY <1>1 DEF TypeOpResult, Abs!WordPromise
  <2> QED
    BY <2>1, <2>2, PromiseKept
<1>2. CASE c.op = "tb2t_res"
  <2>1. res \in Int
    BY MaxIntAssumption DEF CInteger, MinInt
  <2>2. TypeOpResult(c) = Encode(res) /\ Abs!WordPromise(c) = Abs!Promise({}, res)
    BY <1>2 DEF TypeOpResult, Abs!WordPromise
  <2> QED
    BY <2>1, <2>2, PromiseKept
<1> QED
  BY <1>1, <1>2

(* tmuladd, whose product may overflow before the sum, and tbias. *)
LEMMA BiasedKept ==
  ASSUME NEW c, WellFormed(c), c.op \in {"tmuladd", "tbias"}
  PROVE  ExactValue(IsaOpResult(c)) \in Abs!WordPromise(c)
<1> DEFINE x == ExactValue(regs[c.a])
           y == ExactValue(regs[c.b])
           z == ExactValue(regs[c.c])
           m == Decode(regs[c.a])
           n == Decode(regs[c.b])
           p == Decode(regs[c.c])
<1>0. /\ x \in Int /\ y \in Int /\ z \in Int /\ m \in Int /\ n \in Int /\ p \in Int
      /\ Abs!Fits(x) => m = x
      /\ Abs!Fits(y) => n = y
      /\ Abs!Fits(z) => p = z
  BY Operand
<1>r. {c.a, c.b, c.c} \subseteq Reg
  BY DEF WellFormed
<1>1. CASE c.op = "tmuladd"
  <2>1. /\ IsaOpResult(c) = Encode(Wrap(Wrap(m * n) + p))
        /\ Abs!WordPromise(c) = Abs!Promise({x, y, z, x * y}, x * y + z)
    BY <1>1, <1>r DEF IsaOpResult, MulAdd, Abs!WordPromise
  <2> HIDE DEF x, y, z, m, n, p
  <2>2. m * n \in Int /\ x * y \in Int
    BY <1>0
  <2>3. Wrap(m * n) \in Int /\ (Abs!Fits(x) /\ Abs!Fits(y) /\ Abs!Fits(x * y) => Wrap(m * n) = x * y)
    BY <1>0, <2>2, WrapFits
  <2>4. /\ Wrap(Wrap(m * n) + p) \in Int
        /\ (\A v \in {x, y, z, x * y} : Abs!Fits(v)) /\ Abs!Fits(x * y + z)
             => Wrap(Wrap(m * n) + p) = x * y + z
    <3> DEFINE q == Wrap(m * n)
               e == x * y
    <3>1. q \in Int /\ e \in Int /\ (Abs!Fits(x) /\ Abs!Fits(y) /\ Abs!Fits(e) => q = e)
      BY <2>2, <2>3
    <3> HIDE DEF q, e
    <3>2. /\ Wrap(q + p) \in Int
          /\ (\A v \in {x, y, z, e} : Abs!Fits(v)) /\ Abs!Fits(e + z) => Wrap(q + p) = e + z
      BY <1>0, <3>1, WrapFits
    <3> QED
      BY <3>2 DEF q, e
  <2> QED
    BY <2>1, <2>4, PromiseKept
<1>2. CASE c.op = "tbias"
  <2>0. c.k \in Int
    BY <1>2 DEF WellFormed
  <2>1. /\ IsaOpResult(c) = Encode(Wrap(m + c.k))
        /\ Abs!WordPromise(c) = Abs!Promise({x, c.k}, x + c.k)
    BY <1>2, <1>r DEF IsaOpResult, Bias, Abs!WordPromise
  <2> HIDE DEF x, y, z, m, n, p
  <2> QED
    BY <1>0, <2>0, <2>1, WrapFits, PromiseKept
<1> QED
  BY <1>1, <1>2

-----------------------------------------------------------------------------
(* What works on the trits. *)
LEMMA AbsTrits ==
  ASSUME NEW w, NEW i \in Idx
  PROVE  Abs!Digit(ExactValue(w), i) = GetTrit(w, i) /\ GetTrit(w, i) \in Trit
BY AbsNumbers, ValueDigits, TritRange DEF ExactValue

(* The xor of two trits is the trit congruent to their sum. *)
LEMMA XorIsSum ==
  ASSUME NEW s \in Trit, NEW t \in Trit
  PROVE  TritXor(s, t) \in Trit /\ (TritXor(s, t) - s - t) % 3 = 0
<1>1. s \in {-1, 0, 1} /\ t \in {-1, 0, 1}
  BY DEF Trit
<1>2. s + t \in -2 .. 2
  BY <1>1
<1>3. /\ CRem(-2, 3) = -2 /\ CRem(-1, 3) = -1 /\ CRem(0, 3) = 0
      /\ CRem(1, 3) = 1 /\ CRem(2, 3) = 2
  BY DEF CRem
<1>4. CRem(s + t, 3) = s + t
  <2> DEFINE x == s + t
  <2>1. x = -2 \/ x = -1 \/ x = 0 \/ x = 1 \/ x = 2
    BY <1>2
  <2> HIDE DEF x
  <2>2. CRem(x, 3) = x
    BY <1>3, <2>1
  <2> QED
    BY <2>2 DEF x
<1> QED
  BY <1>1, <1>4 DEF TritXor, Trit

(* The tables of the code on single trits are those promised. *)
LEMMA TritTables ==
  ASSUME NEW s \in Trit, NEW t \in Trit, NEW u \in Trit
  PROVE  /\ TritMin(s, t) \in Trit /\ TritMax(s, t) \in Trit
         /\ TritXor(s, t) \in Trit /\ TritXor(s, t) = Abs!XorAsBuilt[<<s, t>>]
         /\ TritImplication(s, t) \in Trit
         /\ TritMajority(s, t, u) \in Trit /\ TritMajority(s, t, u) = Abs!MajorityOf(s, t, u)
<1>1. /\ TritMin(s, t) \in Trit /\ TritMax(s, t) \in Trit
      /\ TritImplication(s, t) \in Trit /\ TritMajority(s, t, u) \in Trit
  BY DEF Trit, TritMin, TritMax, TritImplication, TritMajority
<1>2. TritXor(s, t) \in Trit /\ (TritXor(s, t) - s - t) % 3 = 0
  BY XorIsSum
<1>3. \A a \in Trit, b \in Trit : (a - s - t) % 3 = 0 /\ (b - s - t) % 3 = 0 => a = b
  BY DEF Trit
<1>4. Abs!XorAsBuilt[<<s, t>>] = CHOOSE a \in -1 .. 1 : (a - s - t) % 3 = 0
  BY DEF Abs!XorAsBuilt, Trit
<1>5. TritXor(s, t) = Abs!XorAsBuilt[<<s, t>>]
  <2> DEFINE Is(a) == (a - s - t) % 3 = 0
  <2>1. Abs!XorAsBuilt[<<s, t>>] = CHOOSE a \in Trit : Is(a)
    BY <1>4 DEF Trit
  <2>2. Is(TritXor(s, t)) /\ \A a \in Trit, b \in Trit : Is(a) /\ Is(b) => a = b
    BY <1>2, <1>3
  <2> HIDE DEF Is
  <2> QED
    BY <1>2, <2>1, <2>2
<1>6. TritMajority(s, t, u) = Abs!MajorityOf(s, t, u)
  <2> DEFINE Most(a) == (s = a /\ t = a) \/ (s = a /\ u = a) \/ (t = a /\ u = a)
  <2>1. Abs!MajorityOf(s, t, u) =
          IF \E a \in {s, t, u} : Most(a) THEN CHOOSE a \in {s, t, u} : Most(a) ELSE 0
    BY DEF Abs!MajorityOf
  <2>2. CASE \E a \in {s, t, u} : Most(a)
    <3> DEFINE a == CHOOSE x \in {s, t, u} : Most(x)
    <3>1. a \in {s, t, u} /\ Most(a)
      <4> HIDE DEF Most
      <4> QED BY <2>2
    <3> HIDE DEF a
    <3>2. TritMajority(s, t, u) = a
      BY <3>1 DEF TritMajority
    <3> QED
      BY <2>1, <2>2, <3>2 DEF a
  <2>3. CASE ~\E a \in {s, t, u} : Most(a)
    <3>1. TritMajority(s, t, u) = 0
      BY <2>3 DEF TritMajority
    <3> QED
      BY <2>1, <2>3, <3>1
  <2> QED
    BY <2>2, <2>3
<1> QED
  BY <1>1, <1>2, <1>5, <1>6

TritwiseOps == {"and", "or", "xor", "tlimp", "tmaj"}

(* The word whose trits the code writes is the one with the digits promised. *)
LEMMA TritwiseKept ==
  ASSUME NEW c, {c.a, c.b, c.c} \subseteq Reg, c.op \in TritwiseOps
  PROVE  ExactValue(IF c.op \in TypeOps THEN TypeOpResult(c) ELSE IsaOpResult(c))
           \in Abs!WordPromise(c)
<1> DEFINE s(i) == Abs!Digit(ExactValue(regs[c.a]), i)
           t(i) == Abs!Digit(ExactValue(regs[c.b]), i)
           u(i) == Abs!Digit(ExactValue(regs[c.c]), i)
<1>r. {c.a, c.b, c.c} \subseteq Reg
  OBVIOUS
<1>t. \A i \in Idx : /\ s(i) \in Trit /\ s(i) = GetTrit(regs[c.a], i)
                     /\ t(i) \in Trit /\ t(i) = GetTrit(regs[c.b], i)
                     /\ u(i) \in Trit /\ u(i) = GetTrit(regs[c.c], i)
  BY AbsTrits
<1>1. CASE c.op = "and"
  <2> DEFINE w == TritwiseOp(regs[c.a], regs[c.b], TritMin)
             e(i) == IF s(i) < t(i) THEN s(i) ELSE t(i)
             Is(v) == \A i \in 0 .. Trits - 1 : Abs!Digit(v, i) = e(i)
  <2>1. TypeOpResult(c) = w /\ Abs!WordPromise(c) = {CHOOSE v \in Abs!Value : Is(v)}
    BY <1>1, <1>r, ZenonT(60) DEF TypeOpResult, Abs!WordPromise, Abs!OfDigits
  <2>2. \A i \in Idx : GetTrit(w, i) = e(i)
    <3> TAKE i \in Idx
    <3>1. GetTrit(w, i) = BitsToTrit(TritToBits(TritMin(GetTrit(regs[c.a], i), GetTrit(regs[c.b], i))))
      BY DEF TritwiseOp, FromTrits, GetTrit
    <3>2. TritMin(s(i), t(i)) \in Trit /\ TritMin(s(i), t(i)) = e(i)
      BY <1>t, TritTables DEF TritMin
    <3> HIDE DEF e, s, t, u
    <3> QED
      BY <1>t, <3>1, <3>2, BitsOfTrit
  <2>3. Is(ExactValue(w)) /\ \A v \in Values : Is(v) => v = ExactValue(w)
    <3> HIDE DEF w, e
    <3> QED
      BY <2>2, ValueDigits, DigitsDecide, AbsNumbers DEF ExactValue, Idx
  <2> HIDE DEF w, Is
  <2> QED
    BY <1>1, <2>1, <2>3, Operand, AbsNumbers DEF TypeOps
<1>2. CASE c.op = "or"
  <2> DEFINE w == TritwiseOp(regs[c.a], regs[c.b], TritMax)
             e(i) == IF s(i) > t(i) THEN s(i) ELSE t(i)
             Is(v) == \A i \in 0 .. Trits - 1 : Abs!Digit(v, i) = e(i)
  <2>1. TypeOpResult(c) = w /\ Abs!WordPromise(c) = {CHOOSE v \in Abs!Value : Is(v)}
    BY <1>2, <1>r, ZenonT(60) DEF TypeOpResult, Abs!WordPromise, Abs!OfDigits
  <2>2. \A i \in Idx : GetTrit(w, i) = e(i)
    <3> TAKE i \in Idx
    <3>1. GetTrit(w, i) = BitsToTrit(TritToBits(TritMax(GetTrit(regs[c.a], i), GetTrit(regs[c.b], i))))
      BY DEF TritwiseOp, FromTrits, GetTrit
    <3>2. TritMax(s(i), t(i)) \in Trit /\ TritMax(s(i), t(i)) = e(i)
      BY <1>t, TritTables DEF TritMax
    <3> HIDE DEF e, s, t, u
    <3> QED
      BY <1>t, <3>1, <3>2, BitsOfTrit
  <2>3. Is(ExactValue(w)) /\ \A v \in Values : Is(v) => v = ExactValue(w)
    <3> HIDE DEF w, e
    <3> QED
      BY <2>2, ValueDigits, DigitsDecide, AbsNumbers DEF ExactValue, Idx
  <2> HIDE DEF w, Is
  <2> QED
    BY <1>2, <2>1, <2>3, Operand, AbsNumbers DEF TypeOps
<1>3. CASE c.op = "xor"
  <2> DEFINE w == TritwiseOp(regs[c.a], regs[c.b], TritXor)
             e(i) == Abs!XorAsBuilt[<<s(i), t(i)>>]
             Is(v) == \A i \in 0 .. Trits - 1 : Abs!Digit(v, i) = e(i)
  <2>1. TypeOpResult(c) = w /\ Abs!WordPromise(c) = {CHOOSE v \in Abs!Value : Is(v)}
    BY <1>3, <1>r, ZenonT(60) DEF TypeOpResult, Abs!WordPromise, Abs!OfDigits
  <2>2. \A i \in Idx : GetTrit(w, i) = e(i)
    <3> TAKE i \in Idx
    <3>1. GetTrit(w, i) = BitsToTrit(TritToBits(TritXor(GetTrit(regs[c.a], i), GetTrit(regs[c.b], i))))
      BY DEF TritwiseOp, FromTrits, GetTrit
    <3>2. TritXor(s(i), t(i)) \in Trit /\ TritXor(s(i), t(i)) = e(i)
      BY <1>t, TritTables
    <3> HIDE DEF e, s, t, u
    <3> QED
      BY <1>t, <3>1, <3>2, BitsOfTrit
  <2>3. Is(ExactValue(w)) /\ \A v \in Values : Is(v) => v = ExactValue(w)
    <3> HIDE DEF w, e
    <3> QED
      BY <2>2, ValueDigits, DigitsDecide, AbsNumbers DEF ExactValue, Idx
  <2> HIDE DEF w, Is
  <2> QED
    BY <1>3, <2>1, <2>3, Operand, AbsNumbers DEF TypeOps
<1>4. CASE c.op = "tlimp"
  <2> DEFINE w == Implication(regs[c.a], regs[c.b])
             e(i) == IF s(i) = -1 THEN 1 ELSE t(i)
             Is(v) == \A i \in 0 .. Trits - 1 : Abs!Digit(v, i) = e(i)
  <2>1. IsaOpResult(c) = w /\ Abs!WordPromise(c) = {CHOOSE v \in Abs!Value : Is(v)}
    BY <1>4, <1>r, ZenonT(60) DEF IsaOpResult, Abs!WordPromise, Abs!OfDigits
  <2>2. \A i \in Idx : GetTrit(w, i) = e(i)
    <3> TAKE i \in Idx
    <3>1. GetTrit(w, i) = BitsToTrit(TritToBits(TritImplication(GetTrit(regs[c.a], i), GetTrit(regs[c.b], i))))
      BY DEF Implication, TritwiseOp, FromTrits, GetTrit
    <3>2. TritImplication(s(i), t(i)) \in Trit /\ TritImplication(s(i), t(i)) = e(i)
      <4>1. TritImplication(s(i), t(i)) = e(i)
        BY DEF TritImplication
      <4>2. s(i) \in Trit /\ t(i) \in Trit
        BY <1>t
      <4> HIDE DEF e, s, t
      <4> QED
        BY <4>1, <4>2, TritTables
    <3> HIDE DEF e, s, t, u
    <3> QED
      BY <1>t, <3>1, <3>2, BitsOfTrit
  <2>3. Is(ExactValue(w)) /\ \A v \in Values : Is(v) => v = ExactValue(w)
    <3> HIDE DEF w, e
    <3> QED
      BY <2>2, ValueDigits, DigitsDecide, AbsNumbers DEF ExactValue, Idx
  <2> HIDE DEF w, Is
  <2> QED
    BY <1>4, <2>1, <2>3, Operand, AbsNumbers DEF TypeOps
<1>5. CASE c.op = "tmaj"
  <2> DEFINE w == Majority(regs[c.a], regs[c.b], regs[c.c])
             e(i) == Abs!MajorityOf(s(i), t(i), u(i))
             Is(v) == \A i \in 0 .. Trits - 1 : Abs!Digit(v, i) = e(i)
  <2>1. IsaOpResult(c) = w /\ Abs!WordPromise(c) = {CHOOSE v \in Abs!Value : Is(v)}
    BY <1>5, <1>r, ZenonT(60) DEF IsaOpResult, Abs!WordPromise, Abs!OfDigits
  <2>2. \A i \in Idx : GetTrit(w, i) = e(i)
    <3> TAKE i \in Idx
    <3>1. GetTrit(w, i) = BitsToTrit(TritToBits(TritMajority(GetTrit(regs[c.a], i), GetTrit(regs[c.b], i), GetTrit(regs[c.c], i))))
      BY DEF Majority, FromTrits, GetTrit
    <3>2. TritMajority(s(i), t(i), u(i)) \in Trit /\ TritMajority(s(i), t(i), u(i)) = e(i)
      BY <1>t, TritTables
    <3> HIDE DEF e, s, t, u
    <3> QED
      BY <1>t, <3>1, <3>2, BitsOfTrit
  <2>3. Is(ExactValue(w)) /\ \A v \in Values : Is(v) => v = ExactValue(w)
    <3> HIDE DEF w, e
    <3> QED
      BY <2>2, ValueDigits, DigitsDecide, AbsNumbers DEF ExactValue, Idx
  <2> HIDE DEF w, Is
  <2> QED
    BY <1>5, <2>1, <2>3, Operand, AbsNumbers DEF TypeOps
<1> QED
  BY <1>1, <1>2, <1>3, <1>4, <1>5 DEF TritwiseOps

-----------------------------------------------------------------------------
(* The trit a helper that moves trits reads is the digit promised. *)
LEMMA TurnIndex ==
  ASSUME NEW i \in Idx, NEW k \in 0 .. Trits - 1
  PROVE  /\ (i + Trits - k) % Trits \in Idx /\ (i + Trits - k) % Trits = (i - k) % Trits
         /\ (i + k) % Trits \in Idx
<1>0. Trits \in Nat \ {0} /\ i \in Int /\ k \in Int
  BY TritsAssumption DEF Idx
<1>1. (i + k) % Trits \in Idx
  BY <1>0, Z3 DEF Idx
<1>2. CASE i >= k
  <2> DEFINE r == i - k
  <2>1. r \in 0 .. Trits - 1 /\ i + Trits - k = r + 1 * Trits /\ i - k = r + 0 * Trits
    BY <1>0, <1>2 DEF Idx
  <2> HIDE DEF r
  <2>2. (r + 1 * Trits) % Trits = r /\ (r + 0 * Trits) % Trits = r
    BY <1>0, <2>1, ModIs
  <2> QED
    BY <1>1, <2>1, <2>2 DEF Idx
<1>3. CASE i < k
  <2> DEFINE r == i + Trits - k
  <2>1. r \in 0 .. Trits - 1 /\ i + Trits - k = r + 0 * Trits /\ i - k = r + (-1) * Trits
    BY <1>0, <1>3 DEF Idx
  <2> HIDE DEF r
  <2>2. (r + (-1) * Trits) % Trits = r /\ (r + 0 * Trits) % Trits = r
    BY <1>0, <2>1, ModIs
  <2> QED
    BY <1>1, <2>1, <2>2 DEF Idx
<1> QED
  BY <1>0, <1>2, <1>3

ShiftOps == {"shl", "shr", "rol", "ror"}

(* Shifts and rotates, for counts below, at and above the width. *)
LEMMA ShiftKept ==
  ASSUME NEW c, WellFormed(c), c.op \in ShiftOps
  PROVE  ExactValue(TypeOpResult(c)) \in Abs!WordPromise(c)
<1> DEFINE x == ExactValue(regs[c.a])
           k == c.k % Trits
<1>r. {c.a, c.b, c.c} \subseteq Reg
  BY DEF WellFormed
<1>0. c.k \in Nat
  BY DEF WellFormed, ShiftOps, Counted
<1>k. k \in 0 .. Trits - 1
  BY <1>0, ShiftCountRange DEF ShiftCount
<1>t. \A i \in Idx : Abs!Digit(x, i) = GetTrit(regs[c.a], i) /\ GetTrit(regs[c.a], i) \in Trit
  BY AbsTrits
<1>1. CASE c.op = "shl"
  <2>1. /\ TypeOpResult(c) = ShiftLeft(regs[c.a], c.k)
        /\ Abs!WordPromise(c) = {Abs!Reduce(x * Abs!Pow3[k])}
    BY <1>1, <1>r DEF TypeOpResult, Abs!WordPromise
  <2> QED
    BY <1>0, <2>1, ShiftLeftReduces, AbsNumbers DEF ExactValue
<1>2. CASE c.op = "shr"
  <2> DEFINE w == ShiftRight(regs[c.a], c.k)
             e(i) == Abs!Digit(x, IF i + k < Trits THEN i + k ELSE Trits - 1)
             Is(v) == \A i \in 0 .. Trits - 1 : Abs!Digit(v, i) = e(i)
  <2>1. TypeOpResult(c) = w /\ Abs!WordPromise(c) = {CHOOSE v \in Abs!Value : Is(v)}
    BY <1>2, <1>r, ZenonT(60) DEF TypeOpResult, Abs!WordPromise, Abs!OfDigits
  <2>2. \A i \in Idx : GetTrit(w, i) = e(i)
    <3> TAKE i \in Idx
    <3> DEFINE j == IF i + k < Trits THEN i + k ELSE Trits - 1
    <3>1. GetTrit(w, i) = BitsToTrit(TritToBits(GetTrit(regs[c.a], j)))
      BY DEF ShiftRight, FromTrits, GetTrit
    <3>2. j \in Idx
      <4> HIDE DEF k
      <4> QED BY <1>k, TritsAssumption DEF Idx
    <3> HIDE DEF j, w
    <3>3. GetTrit(w, i) = Abs!Digit(x, j)
      BY <1>t, <3>1, <3>2, BitsOfTrit
    <3> QED
      BY <3>3 DEF j
  <2>3. Is(ExactValue(w)) /\ \A v \in Values : Is(v) => v = ExactValue(w)
    <3> HIDE DEF w, e
    <3> QED
      BY <2>2, ValueDigits, DigitsDecide, AbsNumbers DEF ExactValue, Idx
  <2> HIDE DEF w, Is
  <2> QED
    BY <2>1, <2>3, Operand, AbsNumbers
<1>3. CASE c.op = "rol"
  <2> DEFINE w == RotateLeft(regs[c.a], c.k)
             e(i) == Abs!Digit(x, (i - k) % Trits)
             Is(v) == \A i \in 0 .. Trits - 1 : Abs!Digit(v, i) = e(i)
  <2>1. TypeOpResult(c) = w /\ Abs!WordPromise(c) = {CHOOSE v \in Abs!Value : Is(v)}
    BY <1>3, <1>r, ZenonT(60) DEF TypeOpResult, Abs!WordPromise, Abs!OfDigits
  <2>2. \A i \in Idx : GetTrit(w, i) = e(i)
    <3> TAKE i \in Idx
    <3> DEFINE j == (i + Trits - k) % Trits
    <3>1. GetTrit(w, i) = BitsToTrit(TritToBits(GetTrit(regs[c.a], j)))
      BY DEF RotateLeft, FromTrits, GetTrit
    <3>2. j \in Idx /\ j = (i - k) % Trits
      <4> HIDE DEF k
      <4> QED BY <1>k, TurnIndex
    <3> HIDE DEF j, w, k
    <3>3. GetTrit(w, i) = Abs!Digit(x, j)
      BY <1>t, <3>1, <3>2, BitsOfTrit
    <3> QED
      BY <3>2, <3>3
  <2>3. Is(ExactValue(w)) /\ \A v \in Values : Is(v) => v = ExactValue(w)
    <3> HIDE DEF w, e
    <3> QED
      BY <2>2, ValueDigits, DigitsDecide, AbsNumbers DEF ExactValue, Idx
  <2> HIDE DEF w, Is
  <2> QED
    BY <2>1, <2>3, Operand, AbsNumbers
<1>4. CASE c.op = "ror"
  <2> DEFINE w == RotateRight(regs[c.a], c.k)
             e(i) == Abs!Digit(x, (i + k) % Trits)
             Is(v) == \A i \in 0 .. Trits - 1 : Abs!Digit(v, i) = e(i)
  <2>1. TypeOpResult(c) = w /\ Abs!WordPromise(c) = {CHOOSE v \in Abs!Value : Is(v)}
    BY <1>4, <1>r, ZenonT(60) DEF TypeOpResult, Abs!WordPromise, Abs!OfDigits
  <2>2. \A i \in Idx : GetTrit(w, i) = e(i)
    <3> TAKE i \in Idx
    <3> DEFINE j == (i + k) % Trits
    <3>1. GetTrit(w, i) = BitsToTrit(TritToBits(GetTrit(regs[c.a], j)))
      BY DEF RotateRight, FromTrits, GetTrit
    <3>2. j \in Idx
      <4> HIDE DEF k
      <4> QED BY <1>k, TurnIndex
    <3> HIDE DEF j, w
    <3>3. GetTrit(w, i) = Abs!Digit(x, j)
      BY <1>t, <3>1, <3>2, BitsOfTrit
    <3> QED
      BY <3>3 DEF j
  <2>3. Is(ExactValue(w)) /\ \A v \in Values : Is(v) => v = ExactValue(w)
    <3> HIDE DEF w, e
    <3> QED
      BY <2>2, ValueDigits, DigitsDecide, AbsNumbers DEF ExactValue, Idx
  <2> HIDE DEF w, Is
  <2> QED
    BY <2>1, <2>3, Operand, AbsNumbers
<1> QED
  BY <1>1, <1>2, <1>3, <1>4 DEF ShiftOps

-----------------------------------------------------------------------------
(* The signs of words, and what is not computed from a decoded value. *)
LEMMA TritEncodes == \A t \in Trit : ExactValue(EncodeTrit(t)) = t
<1> TAKE t \in Trit
<1>1. t \in Int /\ t \in Values
  BY TritValues DEF Trit
<1> QED
  BY <1>1, EncodeReduces, ReducedFixes DEF ExactValue, EncodeTrit

SignOps == {"tnot", "tequiv", "txor", "tquant", "tnormalize"}

(* The negation by trits, the two helpers on signs, tquant and tnormalize. *)
LEMMA SignKept ==
  ASSUME regs \in [Reg -> Word], NEW c, WellFormed(c), c.op \in SignOps
  PROVE  ExactValue(IsaOpResult(c)) \in Abs!WordPromise(c)
<1> DEFINE x == ExactValue(regs[c.a])
           y == ExactValue(regs[c.b])
           s == Sign(regs[c.a])
           t == Sign(regs[c.b])
<1>r. {c.a, c.b, c.c} \subseteq Reg
  BY DEF WellFormed
<1>0. x \in Int /\ y \in Int /\ s = SignOfInt(x) /\ t = SignOfInt(y)
  BY Operand, SignIsSign DEF ExactValue
<1>1. CASE c.op = "tnot"
  <2>1. IsaOpResult(c) = Not(regs[c.a]) /\ Abs!WordPromise(c) = {-x}
    BY <1>1, <1>r DEF IsaOpResult, Abs!WordPromise
  <2> QED
    BY <2>1, NotNegates DEF ExactValue
<1>2. CASE c.op = "tequiv"
  <2> DEFINE e == IF s = 0 \/ t = 0 THEN 0 ELSE IF s = t THEN 1 ELSE -1
  <2>1. IsaOpResult(c) = EncodeTrit(e) /\ Abs!WordPromise(c) = {Abs!SignOf(x) * Abs!SignOf(y)}
    BY <1>2, <1>r DEF IsaOpResult, Equiv, Abs!WordPromise, Abs!EquivAsBuilt
  <2>2. e \in Trit
    BY DEF Trit
  <2>3. e = SignOfInt(x) * SignOfInt(y)
    <3> HIDE DEF x, y, s, t
    <3> QED
      BY <1>0 DEF SignOfInt
  <2> HIDE DEF e, x, y
  <2> QED
    BY <2>1, <2>2, <2>3, TritEncodes, AbsNumbers
<1>3. CASE c.op = "txor"
  <2> DEFINE e == IF s = t /\ s # 0 THEN -1 ELSE IF t = 0 /\ s # 0 THEN 1
                  ELSE IF s = 0 /\ t # 0 THEN 1 ELSE 0
             f == IF SignOfInt(x) = SignOfInt(y) THEN -Abs!Abs(SignOfInt(x))
                  ELSE IF x = 0 \/ y = 0 THEN 1 ELSE 0
  <2>1. /\ IsaOpResult(c) = EncodeTrit(e)
        /\ Abs!WordPromise(c) = {IF Abs!SignOf(x) = Abs!SignOf(y) THEN -Abs!Abs(Abs!SignOf(x))
                                 ELSE IF x = 0 \/ y = 0 THEN 1 ELSE 0}
    BY <1>3, <1>r DEF IsaOpResult, Txor, Abs!WordPromise, Abs!TxorAsBuilt
  <2>2. e \in Trit
    BY DEF Trit
  <2>3. e = f
    <3> HIDE DEF x, y, s, t
    <3>1. s \in {-1, 0, 1} /\ t \in {-1, 0, 1} /\ (s = 0 <=> x = 0) /\ (t = 0 <=> y = 0)
      BY <1>0 DEF SignOfInt
    <3>2. f = IF s = t THEN (IF s < 0 THEN s ELSE -s) ELSE IF s = 0 \/ t = 0 THEN 1 ELSE 0
      BY <1>0, <3>1 DEF Abs!Abs
    <3> QED
      BY <3>1, <3>2
  <2>4. Abs!WordPromise(c) = {f}
    <3> HIDE DEF x, y
    <3> QED
      BY <2>1, AbsNumbers
  <2> HIDE DEF e, f
  <2> QED
    BY <2>1, <2>2, <2>3, <2>4, TritEncodes
<1>4. CASE c.op = "tquant"
  <2>1. IsaOpResult(c) = Quantize(c.k) /\ Abs!WordPromise(c) = {c.k}
    BY <1>4 DEF IsaOpResult, Abs!WordPromise
  <2> QED
    BY <1>4, <2>1, QuantizeValue DEF WellFormed, ExactValue
<1>5. CASE c.op = "tnormalize"
  <2>1. /\ IsaOpResult(c) = Normalize(regs[c.a])
        /\ Abs!WordPromise(c) = IF Canonical(regs[c.a]) THEN {x} ELSE Abs!Value
    BY <1>5, <1>r DEF IsaOpResult, Abs!WordPromise
  <2>2. CASE Canonical(regs[c.a])
    <3>1. Normalize(regs[c.a]) = regs[c.a]
      <4>1. regs[c.a] \in [Idx -> Code]
        BY <1>r DEF Word
      <4> QED
        BY <2>2, <4>1 DEF Normalize, Canonical
    <3> QED
      BY <2>1, <2>2, <3>1
  <2>3. CASE ~Canonical(regs[c.a])
    BY <2>1, <2>3, Operand, AbsNumbers
  <2> QED
    BY <2>2, <2>3
<1> QED
  BY <1>1, <1>2, <1>3, <1>4, <1>5 DEF SignOps

(* tround, where 3^drop may not fit int64_t or drop every trit. *)
LEMMA RoundKept ==
  ASSUME NEW c, WellFormed(c), c.op = "tround"
  PROVE  ExactValue(IsaOpResult(c)) \in Abs!WordPromise(c)
<1> DEFINE x == ExactValue(regs[c.a])
           m == Decode(regs[c.a])
           p == Pow3[c.k]
<1>r. {c.a, c.b, c.c} \subseteq Reg
  BY DEF WellFormed
<1>0. /\ x \in Int /\ m \in Int /\ (Abs!Fits(x) => m = x)
      /\ c.k \in Nat /\ p \in Int /\ p = Abs!Pow3[c.k]
  BY Operand, Pow3Facts, AbsNumbers DEF WellFormed, Counted
<1>1. /\ IsaOpResult(c) = IF c.k >= Trits THEN PackedZero ELSE Encode(Wrap(CDiv(m, Wrap(p))))
      /\ Abs!WordPromise(c) =
           IF c.k >= Trits THEN {-Abs!Half}
           ELSE IF Abs!Fits(Abs!Pow3[c.k])
                THEN Abs!Promise({x}, Abs!Quotient(x, Abs!Pow3[c.k])) ELSE Abs!Value
  BY <1>r DEF IsaOpResult, Round, Abs!WordPromise, Abs!RoundAllAsBuilt
<1>2. CASE c.k >= Trits
  BY <1>1, <1>2, PackedZeroValue, AbsNumbers DEF ExactValue
<1>3. CASE ~(c.k >= Trits) /\ Abs!Fits(Abs!Pow3[c.k])
  <2> HIDE DEF x, m, p
  <2>1. Wrap(p) = p
    BY <1>0, <1>3, WrapFits
  <2>2. CDiv(m, p) \in Int /\ CDiv(m, p) = Abs!Quotient(m, p)
    BY <1>0, DivIsQuotient
  <2>3. /\ IsaOpResult(c) = Encode(Wrap(CDiv(m, p)))
        /\ Abs!WordPromise(c) = Abs!Promise({x}, Abs!Quotient(x, p))
    BY <1>0, <1>1, <1>3, <2>1
  <2> QED
    BY <1>0, <2>2, <2>3, WrapFits, PromiseKept
<1>4. CASE ~(c.k >= Trits) /\ ~Abs!Fits(Abs!Pow3[c.k])
  BY <1>1, <1>4, Operand, AbsNumbers
<1> QED
  BY <1>2, <1>3, <1>4

(* Every helper that returns a word returns one that stands for a value    *)
(* its call may return.                                                    *)
LEMMA WordKept ==
  ASSUME regs \in [Reg -> Word], res \in CInteger, NEW c, WellFormed(c)
  PROVE  ExactValue(IF c.op \in TypeOps THEN TypeOpResult(c) ELSE IsaOpResult(c))
           \in Abs!WordPromise(c)
<1>1. c.op \in TypeOps \cup IsaOps /\ {c.a, c.b, c.c} \subseteq Reg
  BY DEF WellFormed
<1>2. CASE c.op \in ArithmeticOps \cup FlagOps \cup ShiftOps \cup {"tb2t", "tb2t_res"}
  <2>1. c.op \in TypeOps
    BY <1>2 DEF ArithmeticOps, FlagOps, ShiftOps, TypeOps
  <2>2. ExactValue(TypeOpResult(c)) \in Abs!WordPromise(c)
    BY <1>1, <1>2, ArithmeticKept, FlagKept, ShiftKept, LiteralKept
  <2> QED
    BY <2>1, <2>2
<1>3. CASE c.op \in SignOps \cup {"tround", "tmuladd", "tbias"}
  <2>1. c.op \notin TypeOps
    BY <1>3 DEF SignOps, TypeOps
  <2>2. ExactValue(IsaOpResult(c)) \in Abs!WordPromise(c)
    BY <1>3, SignKept, RoundKept, BiasedKept
  <2> QED
    BY <2>1, <2>2
<1>4. CASE c.op \in TritwiseOps
  BY <1>1, <1>4, TritwiseKept
<1> QED
  BY <1>1, <1>2, <1>3, <1>4
     DEF TypeOps, IsaOps, ArithmeticOps, FlagOps, ShiftOps, SignOps, TritwiseOps

-----------------------------------------------------------------------------
(* The helpers that return a C integer or one of their operands. *)
LEMMA ScalarPromiseKept ==
  ASSUME NEW args, NEW exact, NEW n \in CInteger,
         (\A y \in args : Abs!Fits(y)) => n = exact
  PROVE  n \in Abs!Scalar(args, exact)
BY DEF Abs!Scalar, CInteger, MinInt

(* cmp and the six predicates. *)
LEMMA CompareKept ==
  ASSUME NEW c \in ScalarCalls, c.op \in Compare
  PROVE  ScalarResult(c) \in Abs!ScalarPromise(c)
<1> DEFINE x == ExactValue(regs[c.a])
           y == ExactValue(regs[c.b])
           m == Decode(regs[c.a])
           n == Decode(regs[c.b])
           z == Cmp(regs[c.a], regs[c.b])
           s == ScalarResult(c)
<1>r. {c.a, c.b, c.c} \subseteq Reg
  BY CallTypes
<1>s. s \in CInteger
  BY ScalarType
<1>0. /\ x \in Int /\ y \in Int /\ m \in Int /\ n \in Int
      /\ Abs!Fits(x) => m = x
      /\ Abs!Fits(y) => n = y
  BY Operand
<1>z. /\ (z = -1 <=> m < n) /\ (z = 0 <=> m = n) /\ (z = 1 <=> m > n)
      /\ z = SignOfInt(m - n)
  BY CmpIs
<1>p. /\ c.op = "cmp" => s = z /\ Abs!ScalarPromise(c) = Abs!Scalar({x, y}, Abs!SignOf(x - y))
      /\ c.op = "eq" => /\ s = IF z = 0 THEN 1 ELSE 0
                        /\ Abs!ScalarPromise(c) = Abs!Scalar({x, y}, IF x = y THEN 1 ELSE 0)
      /\ c.op = "ne" => /\ s = IF z # 0 THEN 1 ELSE 0
                        /\ Abs!ScalarPromise(c) = Abs!Scalar({x, y}, IF x # y THEN 1 ELSE 0)
      /\ c.op = "lt" => /\ s = IF z = -1 THEN 1 ELSE 0
                        /\ Abs!ScalarPromise(c) = Abs!Scalar({x, y}, IF x < y THEN 1 ELSE 0)
      /\ c.op = "le" => /\ s = IF z \in {-1, 0} THEN 1 ELSE 0
                        /\ Abs!ScalarPromise(c) = Abs!Scalar({x, y}, IF x <= y THEN 1 ELSE 0)
      /\ c.op = "gt" => /\ s = IF z = 1 THEN 1 ELSE 0
                        /\ Abs!ScalarPromise(c) = Abs!Scalar({x, y}, IF x > y THEN 1 ELSE 0)
      /\ c.op = "ge" => /\ s = IF z \in {1, 0} THEN 1 ELSE 0
                        /\ Abs!ScalarPromise(c) = Abs!Scalar({x, y}, IF x >= y THEN 1 ELSE 0)
  BY <1>r DEF ScalarResult, Bool, Abs!ScalarPromise
<1>f. Abs!SignOf(x - y) = SignOfInt(x - y)
  BY AbsNumbers
<1> HIDE DEF x, y, m, n, z, s
<1>1. CASE c.op = "cmp"
  BY <1>0, <1>s, <1>z, <1>p, <1>f, <1>1, ScalarPromiseKept DEF s
<1>2. CASE c.op = "eq"
  BY <1>0, <1>s, <1>z, <1>p, <1>2, ScalarPromiseKept DEF s
<1>3. CASE c.op = "ne"
  BY <1>0, <1>s, <1>z, <1>p, <1>3, ScalarPromiseKept DEF s
<1>4. CASE c.op = "lt"
  BY <1>0, <1>s, <1>z, <1>p, <1>4, ScalarPromiseKept DEF s
<1>5. CASE c.op = "le"
  BY <1>0, <1>s, <1>z, <1>p, <1>5, ScalarPromiseKept DEF s
<1>6. CASE c.op = "gt"
  BY <1>0, <1>s, <1>z, <1>p, <1>6, ScalarPromiseKept DEF s
<1>7. CASE c.op = "ge"
  BY <1>0, <1>s, <1>z, <1>p, <1>7, ScalarPromiseKept DEF s
<1> QED
  BY <1>1, <1>2, <1>3, <1>4, <1>5, <1>6, <1>7 DEF Compare, s

(* tsignjmp, tt2b and tnet, which narrows to int. *)
LEMMA ReaderKept ==
  ASSUME NEW c \in ScalarCalls, c.op \in Reader
  PROVE  ScalarResult(c) \in Abs!ScalarPromise(c)
<1> DEFINE x == ExactValue(regs[c.a])
           m == Decode(regs[c.a])
           s == ScalarResult(c)
<1>r. {c.a, c.b, c.c} \subseteq Reg
  BY CallTypes
<1>s. s \in CInteger
  BY ScalarType
<1>0. x \in Int /\ m \in Int /\ (Abs!Fits(x) => m = x)
  BY Operand
<1>1. CASE c.op = "tsignjmp"
  <2>1. /\ s = IF m < 0 THEN -1 ELSE IF m > 0 THEN 1 ELSE 0
        /\ Abs!ScalarPromise(c) = Abs!Scalar({x}, Abs!SignOf(x))
    BY <1>1, <1>r DEF ScalarResult, SignJmp, ThreeWay, Abs!ScalarPromise
  <2> HIDE DEF x, m, s
  <2>2. Abs!Fits(x) => s = Abs!SignOf(x)
    BY <1>0, <2>1 DEF Abs!SignOf
  <2> QED
    BY <1>s, <2>1, <2>2, ScalarPromiseKept DEF s
<1>2. CASE c.op = "tt2b"
  <2>1. s = m /\ Abs!ScalarPromise(c) = Abs!Scalar({x}, x)
    BY <1>2, <1>r DEF ScalarResult, Abs!ScalarPromise
  <2> HIDE DEF x, m, s
  <2> QED
    BY <1>0, <1>s, <2>1, ScalarPromiseKept DEF s
<1>3. CASE c.op = "tnet"
  <2>1. /\ s = WrapTo(m, MaxShort)
        /\ Abs!ScalarPromise(c) =
             IF Abs!Fits(x) /\ Abs!FitsShort(x) THEN {x} ELSE -MaxInt - 1 .. MaxInt
    BY <1>3, <1>r DEF ScalarResult, Abs!ScalarPromise, Abs!NetAsBuilt
  <2> HIDE DEF x, m, s
  <2>2. CASE Abs!Fits(x) /\ Abs!FitsShort(x)
    <3>1. m = x /\ MaxShort \in Nat /\ m \in -MaxShort - 1 .. MaxShort
      BY <1>0, <2>2, RuntimeAssumption DEF Abs!FitsShort
    <3>2. WrapTo(m, MaxShort) = m
      BY <3>1, WrapToIdentity
    <3> QED
      BY <2>1, <2>2, <3>1, <3>2 DEF s
  <2>3. CASE ~(Abs!Fits(x) /\ Abs!FitsShort(x))
    BY <1>s, <2>1, <2>3 DEF s, CInteger, MinInt
  <2> QED
    BY <2>2, <2>3
<1> QED
  BY <1>1, <1>2, <1>3 DEF Reader

(* select and tmux return an operand the promise allows. *)
LEMMA MoveKept ==
  ASSUME NEW c \in MoveCalls
  PROVE  \E r \in Abs!Chosen(c) :
           /\ r \in Reg
           /\ regs[r] = IF c.op = "select" THEN Select(res, regs[c.a], regs[c.b])
                        ELSE Mux(regs[c.c], regs[c.a], regs[c.b], regs[c.c])
<1>r. {c.a, c.b, c.c} \subseteq Reg /\ c.op \in {"select", "tmux"}
  BY CallTypes
<1>1. CASE c.op = "select"
  BY <1>1, <1>r DEF Abs!Chosen, Select
<1>2. CASE c.op = "tmux"
  <2> DEFINE x == ExactValue(regs[c.c])
             m == Decode(regs[c.c])
             r == IF m < 0 THEN c.a ELSE IF m > 0 THEN c.c ELSE c.b
  <2>1. Abs!Chosen(c) = IF Abs!Fits(x)
                        THEN {IF x < 0 THEN c.a ELSE IF x > 0 THEN c.c ELSE c.b}
                        ELSE {c.a, c.b, c.c}
    BY <1>2, <1>r DEF Abs!Chosen
  <2>2. r \in Reg /\ regs[r] = Mux(regs[c.c], regs[c.a], regs[c.b], regs[c.c])
    BY <1>r DEF Mux, ThreeWay
  <2>3. Abs!Fits(x) => m = x
    BY Operand
  <2>4. r \in Abs!Chosen(c)
    <3> HIDE DEF x, m
    <3> QED
      BY <2>1, <2>3
  <2> QED
    BY <1>2, <2>2, <2>4
<1> QED
  BY <1>r, <1>1, <1>2

-----------------------------------------------------------------------------
(* What the refinement mapping makes of the variables. *)
ValueOf(w)  == [r \in DOMAIN w |-> ExactValue(w[r])]
CleanOf(w)  == [r \in DOMAIN w |-> Canonical(w[r])]

(* The mapped variables have the types of the abstract ones. *)
LEMMA MappedTypes ==
  ASSUME NEW S, NEW w \in [S -> Word]
  PROVE  /\ ValueOf(w) \in [S -> Abs!Value] /\ CleanOf(w) \in [S -> BOOLEAN]
         /\ \A r \in S : ValueOf(w)[r] = ExactValue(w[r]) /\ CleanOf(w)[r] = Canonical(w[r])
<1>1. \A u : ExactValue(u) \in Abs!Value
  BY Operand, AbsNumbers
<1>2. \A u : Canonical(u) \in BOOLEAN
  BY DEF Canonical
<1> QED
  BY <1>1, <1>2, Zenon DEF ValueOf, CleanOf

Val       == [r \in Reg  |-> ExactValue(regs[r])]
Clean     == [r \in Reg  |-> Canonical(regs[r])]
CellVal   == [a \in Addr |-> ExactValue(mem[a])]
CellClean == [a \in Addr |-> Canonical(mem[a])]

(* The mapping of the variables, on functions of the right domain. *)
LEMMA MappedIs ==
  ASSUME TypeOK
  PROVE  /\ Val = ValueOf(regs) /\ Clean = CleanOf(regs)
         /\ CellVal = ValueOf(mem) /\ CellClean = CleanOf(mem)
  BY Zenon DEF TypeOK, Val, Clean, CellVal, CellClean, ValueOf, CleanOf, Word

(* Initial states map to initial states. *)
LEMMA InitMapped == Init => Abs!Init
<1> SUFFICES ASSUME Init PROVE Abs!Init
  OBVIOUS
<1>1. TypeOK
  BY InitTypes
<1>2. /\ Val \in [Reg -> Abs!Value] /\ Clean \in [Reg -> BOOLEAN]
      /\ CellVal \in [Addr -> Abs!Value] /\ CellClean \in [Addr -> BOOLEAN]
  BY <1>1, MappedIs, MappedTypes DEF TypeOK
<1> QED
  BY <1>2 DEF Init, Abs!Init, Val, Clean, CellVal, CellClean

(* Every step of the code is the step of that name of the abstract         *)
(* specification.                                                          *)
LEMMA StepMapped ==
  TypeOK /\ TypeOK' /\ [Next]_vars => [Abs!Next]_(Abs!vars)
<1> SUFFICES ASSUME TypeOK, TypeOK', [Next]_vars PROVE [Abs!Next]_(Abs!vars)
  OBVIOUS
<1>t. regs \in [Reg -> Word] /\ mem \in [Addr -> Word]
  BY DEF TypeOK
<1>m. /\ Val = ValueOf(regs) /\ Clean = CleanOf(regs)
      /\ CellVal = ValueOf(mem) /\ CellClean = CleanOf(mem)
  BY MappedIs
<1>n. /\ Val' = ValueOf(regs') /\ Clean' = CleanOf(regs')
      /\ CellVal' = ValueOf(mem') /\ CellClean' = CleanOf(mem')
  BY Zenon DEF TypeOK, Val, Clean, CellVal, CellClean, ValueOf, CleanOf, Word
<1>1. CASE Call
  <2>1. UNCHANGED <<Val, Clean, CellVal, CellClean>>
    BY <1>1, <1>m, <1>n DEF Call
  <2>2. Abs!Call
    BY <1>1, <2>1, AbsCalls DEF Call, Abs!Call, Val, Clean, CellVal, CellClean
  <2> QED
    BY <2>2 DEF Abs!Next
<1>2. CASE ReturnWord
  <2> DEFINE w == IF call.op \in TypeOps THEN TypeOpResult(call) ELSE IsaOpResult(call)
  <2>1. call \in WordCalls /\ call.a \in Reg /\ regs' = [regs EXCEPT ![call.a] = w] /\ mem' = mem
    BY <1>2, CallTypes DEF ReturnWord
  <2>2. ExactValue(w) \in Abs!WordPromise(call) /\ Canonical(w)
    BY <2>1, CallsFormed, WordKept, WordResult, CanonicalWordIs DEF TypeOK
  <2> HIDE DEF w
  <2>3. /\ Val' = [Val EXCEPT ![call.a] = ExactValue(w)]
        /\ Clean' = [Clean EXCEPT ![call.a] = Canonical(w)]
        /\ UNCHANGED <<CellVal, CellClean>>
    <3>1. /\ ValueOf(regs') = [ValueOf(regs) EXCEPT ![call.a] = ExactValue(w)]
          /\ CleanOf(regs') = [CleanOf(regs) EXCEPT ![call.a] = Canonical(w)]
      BY <1>t, <2>1, Zenon DEF ValueOf, CleanOf
    <3> QED
      BY <1>m, <1>n, <2>1, <3>1
  <2>4. Val'[call.a] = ExactValue(w) /\ Canonical(w) = TRUE
    BY <2>1, <2>2, <2>3 DEF Val
  <2>5. /\ Val' = [Val EXCEPT ![call.a] = Val'[call.a]]
        /\ Clean' = [Clean EXCEPT ![call.a] = TRUE]
        /\ Val'[call.a] \in Abs!WordPromise(call)
    BY <2>2, <2>3, <2>4
  <2>6. Abs!ReturnWord
    BY <1>2, <2>1, <2>3, <2>5, AbsCalls
       DEF ReturnWord, Abs!ReturnWord, Abs!Set, Val, Clean, CellVal, CellClean
  <2> QED
    BY <2>6 DEF Abs!Next
<1>3. CASE ReturnScalar
  <2>1. UNCHANGED <<Val, Clean, CellVal, CellClean>>
    BY <1>3, <1>m, <1>n DEF ReturnScalar
  <2>2. call \in ScalarCalls /\ ScalarResult(call) \in Abs!ScalarPromise(call)
    BY <1>3, CallTypes, CompareKept, ReaderKept DEF ReturnScalar
  <2>3. Abs!ReturnScalar
    BY <1>3, <2>1, <2>2, AbsCalls
       DEF ReturnScalar, Abs!ReturnScalar, Val, Clean, CellVal, CellClean
  <2> QED
    BY <2>3 DEF Abs!Next
<1>4. CASE ReturnMove
  <2> DEFINE w == IF call.op = "select" THEN Select(res, regs[call.a], regs[call.b])
                  ELSE Mux(regs[call.c], regs[call.a], regs[call.b], regs[call.c])
  <2>1. /\ call \in MoveCalls /\ call.a \in Reg /\ regs' = [regs EXCEPT ![call.a] = w]
        /\ mem' = mem
    BY <1>4, CallTypes DEF ReturnMove
  <2>2. PICK r \in Abs!Chosen(call) : r \in Reg /\ regs[r] = w
    BY <2>1, MoveKept
  <2> HIDE DEF w
  <2>3. /\ Val' = [Val EXCEPT ![call.a] = ExactValue(w)]
        /\ Clean' = [Clean EXCEPT ![call.a] = Canonical(w)]
        /\ UNCHANGED <<CellVal, CellClean>>
    <3>1. /\ ValueOf(regs') = [ValueOf(regs) EXCEPT ![call.a] = ExactValue(w)]
          /\ CleanOf(regs') = [CleanOf(regs) EXCEPT ![call.a] = Canonical(w)]
      BY <1>t, <2>1, Zenon DEF ValueOf, CleanOf
    <3> QED
      BY <1>m, <1>n, <2>1, <3>1
  <2>4. Val[r] = ExactValue(w) /\ Clean[r] = Canonical(w)
    BY <2>2 DEF Val, Clean
  <2>5. /\ Val' = [Val EXCEPT ![call.a] = Val[r]]
        /\ Clean' = [Clean EXCEPT ![call.a] = Clean[r]]
    BY <2>3, <2>4
  <2>6. Abs!ReturnMove
    BY <1>4, <2>1, <2>2, <2>3, <2>5, AbsCalls
       DEF ReturnMove, Abs!ReturnMove, Abs!Set, Val, Clean, CellVal, CellClean
  <2> QED
    BY <2>6 DEF Abs!Next
<1>5. CASE Load
  <2>1. /\ call \in MemoryCalls /\ call.a \in Reg /\ call.k \in Addr
        /\ regs' = [regs EXCEPT ![call.a] = mem[call.k]] /\ mem' = mem
    BY <1>5, CallTypes DEF Load
  <2>2. CellVal[call.k] = ExactValue(mem[call.k]) /\ CellClean[call.k] = Canonical(mem[call.k])
    BY <2>1 DEF CellVal, CellClean
  <2>3. /\ Val' = [Val EXCEPT ![call.a] = CellVal[call.k]]
        /\ Clean' = [Clean EXCEPT ![call.a] = CellClean[call.k]]
        /\ UNCHANGED <<CellVal, CellClean>>
    <3>1. /\ ValueOf(regs') = [ValueOf(regs) EXCEPT ![call.a] = ExactValue(mem[call.k])]
          /\ CleanOf(regs') = [CleanOf(regs) EXCEPT ![call.a] = Canonical(mem[call.k])]
      BY <1>t, <2>1, Zenon DEF ValueOf, CleanOf
    <3> QED
      BY <1>m, <1>n, <2>1, <2>2, <3>1
  <2>4. Abs!Load
    BY <1>5, <2>3, AbsCalls DEF Load, Abs!Load, Abs!Set, Val, Clean, CellVal, CellClean
  <2> QED
    BY <2>4 DEF Abs!Next
<1>6. CASE Store
  <2>1. /\ call \in MemoryCalls /\ call.a \in Reg /\ call.k \in Addr
        /\ mem' = [mem EXCEPT ![call.k] = regs[call.a]] /\ regs' = regs
    BY <1>6, CallTypes DEF Store
  <2>2. Val[call.a] = ExactValue(regs[call.a]) /\ Clean[call.a] = Canonical(regs[call.a])
    BY <2>1 DEF Val, Clean
  <2>3. /\ CellVal' = [CellVal EXCEPT ![call.k] = Val[call.a]]
        /\ CellClean' = [CellClean EXCEPT ![call.k] = Clean[call.a]]
        /\ UNCHANGED <<Val, Clean>>
    <3>1. /\ ValueOf(mem') = [ValueOf(mem) EXCEPT ![call.k] = ExactValue(regs[call.a])]
          /\ CleanOf(mem') = [CleanOf(mem) EXCEPT ![call.k] = Canonical(regs[call.a])]
      BY <1>t, <2>1, Zenon DEF ValueOf, CleanOf
    <3> QED
      BY <1>m, <1>n, <2>1, <2>2, <3>1
  <2>4. Abs!Store
    BY <1>6, <2>3, AbsCalls DEF Store, Abs!Store, Val, Clean, CellVal, CellClean
  <2> QED
    BY <2>4 DEF Abs!Next
<1>7. CASE Outside
  <2>1. UNCHANGED <<Val, Clean>>
    BY <1>7, <1>m, <1>n DEF Outside
  <2>2. mem' \in [Addr -> Word]
    BY DEF TypeOK
  <2>3. CellVal' \in [Addr -> Abs!Value] /\ CellClean' \in [Addr -> BOOLEAN]
    BY <1>n, <2>2, MappedTypes
  <2>4. Abs!Outside
    BY <1>7, <2>1, <2>3 DEF Outside, Abs!Outside, Val, Clean, CellVal, CellClean
  <2> QED
    BY <2>4 DEF Abs!Next
<1>8. CASE UNCHANGED vars
  <2>1. UNCHANGED <<Val, Clean, CellVal, CellClean>>
    BY <1>8, <1>m, <1>n DEF vars
  <2> QED
    BY <1>8, <2>1 DEF vars, Abs!vars, Val, Clean, CellVal, CellClean
<1> QED
  BY <1>1, <1>2, <1>3, <1>4, <1>5, <1>6, <1>7, <1>8 DEF Next

(* For every trit count and container, whatever sequence of helpers, moves,*)
(* loads and stores a program makes on whatever words, each helper returns *)
(* what the ABI promises of integers: the exact result reduced to the      *)
(* trits wherever operands and result fit int64_t, and what is built where *)
(* AbstractTernary names an exception.                                     *)
THEOREM RuntimeImplementsAbstract == Spec => ImplementsAbstract
<1>1. Init => Abs!Init
  BY InitMapped
<1>2. TypeOK /\ TypeOK' /\ [Next]_vars => [Abs!Next]_(Abs!vars)
  BY StepMapped
<1> QED
  BY <1>1, <1>2, RuntimeTypes, PTL DEF Spec, ImplementsAbstract, Abs!Spec

-----------------------------------------------------------------------------
(* How far the runtime's xor of two trits is from the documented one:      *)
(* they agree where one trit is the negative of the other and nowhere      *)
(* else.                                                                   *)
THEOREM XorDeviates == \A s, t \in Trit : TritXor(s, t) = DocumentedXor(s, t) <=> s = -t
<1> SUFFICES ASSUME NEW s \in Trit, NEW t \in Trit
             PROVE  TritXor(s, t) = DocumentedXor(s, t) <=> s = -t
  OBVIOUS
<1>1. TritXor(s, t) \in Trit /\ (TritXor(s, t) - s - t) % 3 = 0
  BY XorIsSum
<1>2. \/ s = -1 /\ t \in {-1, 0, 1}
      \/ s = 0 /\ t \in {-1, 0, 1}
      \/ s = 1 /\ t \in {-1, 0, 1}
  BY DEF Trit
<1>3. TritXor(s, t) \in {-1, 0, 1}
  BY <1>1 DEF Trit
<1> QED
  BY <1>1, <1>2, <1>3 DEF DocumentedXor

=============================================================================
