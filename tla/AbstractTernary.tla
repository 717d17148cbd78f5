--------------------------- MODULE AbstractTernary ---------------------------
(***************************************************************************)
(* What the helper ABI promises a program that calls it, in terms of       *)
(* integers only: program variables hold integers of Trits balanced        *)
(* ternary digits, an arithmetic helper reduces its exact result to that   *)
(* range, a logic helper works on the digits.  Nothing here is packed,     *)
(* encoded or looped over.                                                 *)
(*                                                                         *)
(* The promises are those of docs/SPECIFICATION.md ("Instruction           *)
(* Semantics" and "Ternary Arithmetic Unit (TAU) Opcodes") with exceptions *)
(* that are promised as built and named: xor, txor, tequiv, tnet and a     *)
(* tround that drops every trit (...AsBuilt below).  Of reduction to the   *)
(* range, shift counts beyond it and the direction tround rounds in the    *)
(* documents say nothing that decides; there the code does.                *)
(*                                                                         *)
(* A helper that goes through int64_t promises nothing when an operand or  *)
(* the exact result does not fit that container: any value may come back.  *)
(* A variable that is not clean holds a reserved code; only tnormalize can *)
(* tell, and what it then makes of the value is not promised.              *)
(***************************************************************************)
EXTENDS HelperCalls, Powers

CONSTANTS
  Trits,     (* digits of a variable *)
  MaxInt,    (* greatest int64_t *)
  MaxShort   (* greatest int *)

VARIABLES
  val, clean,         (* of the variables *)
  cellVal, cellClean, (* of the memory *)
  res,                (* result of the last helper that returns a C integer *)
  call                (* the call being executed, or NoCall *)

vars == <<val, clean, cellVal, cellClean, res, call>>

Half  == (Pow3[Trits] - 1) \div 2
Value == -Half .. Half
Reduce(x)   == ((x + Half) % Pow3[Trits]) - Half
Digit(v, i) == (((v + Half) \div Pow3[i]) % 3) - 1
OfDigits(d(_)) == CHOOSE v \in Value : \A i \in 0 .. Trits - 1 : Digit(v, i) = d(i)

Fits(x)      == -MaxInt - 1 <= x /\ x <= MaxInt
FitsShort(x) == -MaxShort - 1 <= x /\ x <= MaxShort
SignOf(x)    == IF x < 0 THEN -1 ELSE IF x > 0 THEN 1 ELSE 0
Abs(x)       == IF x < 0 THEN -x ELSE x
(* Division towards zero and the remainder that goes with it; by 0 they are 0. *)
Quotient(x, y) == IF y = 0 THEN 0 ELSE SignOf(x) * SignOf(y) * (Abs(x) \div Abs(y))
Remainder(x, y) == IF y = 0 THEN 0 ELSE x - y * Quotient(x, y)

(* The values a call may return for an exact result x of operands in args. *)
Promise(args, x) ==
  IF (\A y \in args : Fits(y)) /\ Fits(x) THEN {Reduce(x)} ELSE Value
Scalar(args, x) == IF \A y \in args : Fits(y) THEN {x} ELSE -MaxInt - 1 .. MaxInt

-----------------------------------------------------------------------------
(* Exceptions: what is built where the documents say something else.       *)
(* docs/SPECIFICATION.md:115 makes xor of two trits 0 if they are equal    *)
(* and else the negative of the one that is not 0 (XorIsDocumented of      *)
(* TernaryRuntime); the libraries add modulo 3.                            *)
XorAsBuilt == [p \in (-1 .. 1) \X (-1 .. 1) |->
                 CHOOSE t \in -1 .. 1 : (t - p[1] - p[2]) % 3 = 0]
(* Lines 153 and 154 have txor and tequiv trit by trit; both look at the   *)
(* signs of whole words.                                                   *)
EquivAsBuilt(x, y) == SignOf(x) * SignOf(y)
TxorAsBuilt(x, y) ==
  IF SignOf(x) = SignOf(y) THEN -Abs(SignOf(x)) ELSE IF x = 0 \/ y = 0 THEN 1 ELSE 0
(* Line 169 makes tnet count(+1) - count(-1); it returns the value.        *)
NetAsBuilt(x) == x
(* Line 167 drops trits with symmetric rounding; without any trit left the *)
(* word is the lowest there is.                                            *)
RoundAllAsBuilt == -Half

-----------------------------------------------------------------------------
MajorityOf(x, y, z) ==
  IF \E t \in {x, y, z} : (x = t /\ y = t) \/ (x = t /\ z = t) \/ (y = t /\ z = t)
  THEN CHOOSE t \in {x, y, z} : (x = t /\ y = t) \/ (x = t /\ z = t) \/ (y = t /\ z = t)
  ELSE 0

(* The word results of call c, given the operands' values. *)
WordPromise(c) ==
  LET x == val[c.a]  y == val[c.b]  z == val[c.c]  k == c.k % Trits
      Two(d(_, _)) == {OfDigits(LAMBDA i : d(Digit(x, i), Digit(y, i)))}
      Flag(t, holds) == Promise({x, y}, IF holds THEN t ELSE 0)
  IN CASE c.op = "add"  -> Promise({x, y}, x + y)
       [] c.op = "sub"  -> Promise({x, y}, x - y)
       [] c.op = "mul"  -> Promise({x, y}, x * y)
       [] c.op = "div"  -> Promise({x, y}, Quotient(x, y))
       [] c.op = "mod"  -> Promise({x, y}, Remainder(x, y))
       [] c.op \in {"neg", "not"} -> Promise({x}, -x)
       [] c.op = "tnot" -> {-x}
       [] c.op = "tmuladd" -> Promise({x, y, z, x * y}, x * y + z)
       [] c.op = "and"  -> Two(LAMBDA s, t : IF s < t THEN s ELSE t)
       [] c.op = "or"   -> Two(LAMBDA s, t : IF s > t THEN s ELSE t)
       [] c.op = "xor"  -> Two(LAMBDA s, t : XorAsBuilt[<<s, t>>])
       [] c.op = "tlimp" -> Two(LAMBDA s, t : IF s = -1 THEN 1 ELSE t)
       [] c.op = "tmaj" ->
            {OfDigits(LAMBDA i : MajorityOf(Digit(x, i), Digit(y, i), Digit(z, i)))}
       [] c.op = "tequiv" -> {EquivAsBuilt(x, y)}
       [] c.op = "txor"   -> {TxorAsBuilt(x, y)}
       [] c.op = "cmplt"  -> Flag(-1, x < y)
       [] c.op = "cmpeq"  -> Flag(1, x = y)
       [] c.op = "cmpgt"  -> Flag(1, x > y)
       [] c.op = "cmpneq" -> Flag(1, x # y)
       [] c.op = "shl" -> {Reduce(x * Pow3[k])}
       [] c.op = "shr" ->
            {OfDigits(LAMBDA i : Digit(x, IF i + k < Trits THEN i + k ELSE Trits - 1))}
       [] c.op = "rol" -> {OfDigits(LAMBDA i : Digit(x, (i - k) % Trits))}
       [] c.op = "ror" -> {OfDigits(LAMBDA i : Digit(x, (i + k) % Trits))}
       [] c.op = "tround" ->
            IF c.k >= Trits THEN {RoundAllAsBuilt}
            ELSE IF Fits(Pow3[c.k]) THEN Promise({x}, Quotient(x, Pow3[c.k])) ELSE Value
       [] c.op = "tquant" -> {c.k}
       [] c.op = "tnormalize" -> IF clean[c.a] THEN {x} ELSE Value
       [] c.op = "tb2t"  -> Promise({}, c.k)
       [] c.op = "tb2t_res" -> Promise({}, res)
       [] c.op = "tbias" -> Promise({x, c.k}, x + c.k)

(* The C integers call c may return. *)
ScalarPromise(c) ==
  LET x == val[c.a]  y == val[c.b]
      Flag(holds) == Scalar({x, y}, IF holds THEN 1 ELSE 0)
  IN CASE c.op = "cmp" -> Scalar({x, y}, SignOf(x - y))
       [] c.op = "eq"  -> Flag(x = y)
       [] c.op = "ne"  -> Flag(x # y)
       [] c.op = "lt"  -> Flag(x < y)
       [] c.op = "le"  -> Flag(x <= y)
       [] c.op = "gt"  -> Flag(x > y)
       [] c.op = "ge"  -> Flag(x >= y)
       [] c.op = "tsignjmp" -> Scalar({x}, SignOf(x))
       [] c.op = "tt2b" -> Scalar({x}, x)
       [] c.op = "tnet" -> IF Fits(x) /\ FitsShort(x) THEN {NetAsBuilt(x)}
                         ELSE -MaxInt - 1 .. MaxInt

(* Which operand a call that moves a word without computing on it returns. *)
Chosen(c) ==
  CASE c.op = "select" -> {IF res # 0 THEN c.a ELSE c.b}
    [] c.op = "tmux" -> IF Fits(val[c.c])
                        THEN {IF val[c.c] < 0 THEN c.a ELSE IF val[c.c] > 0 THEN c.c ELSE c.b}
                        ELSE {c.a, c.b, c.c}

-----------------------------------------------------------------------------
TypeOK ==
  /\ val \in [Reg -> Value] /\ clean \in [Reg -> BOOLEAN]
  /\ cellVal \in [Addr -> Value] /\ cellClean \in [Addr -> BOOLEAN]
  /\ res \in Int /\ call \in Calls \cup {NoCall}

Init ==
  /\ val \in [Reg -> Value] /\ clean \in [Reg -> BOOLEAN]
  /\ cellVal \in [Addr -> Value] /\ cellClean \in [Addr -> BOOLEAN]
  /\ res = 0 /\ call = NoCall

Call ==
  /\ call = NoCall
  /\ call' \in Calls
  /\ res' = IF call'.op \in ReadsRes THEN res ELSE 0
  /\ UNCHANGED <<val, clean, cellVal, cellClean>>

Set(r, v, isClean) ==
  /\ val' = [val EXCEPT ![r] = v]
  /\ clean' = [clean EXCEPT ![r] = isClean]

ReturnWord ==
  /\ call \in WordCalls
  /\ Set(call.a, val'[call.a], TRUE)
  /\ val'[call.a] \in WordPromise(call)
  /\ res' = 0 /\ call' = NoCall
  /\ UNCHANGED <<cellVal, cellClean>>

ReturnScalar ==
  /\ call \in ScalarCalls
  /\ res' \in ScalarPromise(call)
  /\ call' = NoCall
  /\ UNCHANGED <<val, clean, cellVal, cellClean>>

ReturnMove ==
  /\ call \in MoveCalls
  /\ \E r \in Chosen(call) : Set(call.a, val[r], clean[r])
  /\ res' = 0 /\ call' = NoCall
  /\ UNCHANGED <<cellVal, cellClean>>

Load ==
  /\ call \in MemoryCalls /\ call.op = "load"
  /\ Set(call.a, cellVal[call.k], cellClean[call.k])
  /\ call' = NoCall
  /\ UNCHANGED <<cellVal, cellClean, res>>

Store ==
  /\ call \in MemoryCalls /\ call.op = "store"
  /\ cellVal' = [cellVal EXCEPT ![call.k] = val[call.a]]
  /\ cellClean' = [cellClean EXCEPT ![call.k] = clean[call.a]]
  /\ call' = NoCall
  /\ UNCHANGED <<val, clean, res>>

(* Someone else writes the memory: any value, clean or not. *)
Outside ==
  /\ call = NoCall
  /\ cellVal' \in [Addr -> Value] /\ cellClean' \in [Addr -> BOOLEAN]
  /\ UNCHANGED <<val, clean, res, call>>

Next == Call \/ ReturnWord \/ ReturnScalar \/ ReturnMove \/ Load \/ Store \/ Outside

Spec == Init /\ [][Next]_vars
=============================================================================
