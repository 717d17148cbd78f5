--------------------------- MODULE TernaryRuntime ---------------------------
(***************************************************************************)
(* The reference runtime as its callers use it: a program keeps packed     *)
(* words in variables and in memory and passes them from helper to helper. *)
(* Call is the program choosing a helper and its operands, Return the      *)
(* helper's whole body.  Program variables start with, and memory may at   *)
(* any time receive, words the runtime did not make (RawWord).             *)
(***************************************************************************)
EXTENDS TritWord, HelperCalls

CONSTANTS
  MaxShort,  (* INT_MAX, for the helpers that cast to int *)
  RawWord    (* words that come from outside the runtime *)

ASSUME RuntimeAssumption ==
  /\ MaxShort \in Nat /\ MaxShort <= MaxInt
  /\ RawWord \subseteq Word
  /\ Count \subseteq Nat /\ Literal \subseteq CInteger
  /\ Reg # {} /\ NoCall \notin Calls

VARIABLES
  regs,      (* the program's variables of type tN *)
  mem,       (* its memory cells of type tN *)
  res,       (* the last C integer a helper returned *)
  call       (* the call being executed, or NoCall *)

vars == <<regs, mem, res, call>>

TypeOK ==
  /\ regs \in [Reg -> Word] /\ mem \in [Addr -> Word]
  /\ res \in CInteger
  /\ call \in Calls \cup {NoCall}

Init ==
  /\ regs \in [Reg -> RawWord] /\ mem \in [Addr -> RawWord]
  /\ res = 0 /\ call = NoCall

-----------------------------------------------------------------------------
(* DEFINE_TERNARY_TYPE_OPS: the helpers every type has. *)
FlagWord(trit, holds) == Encode(IF holds THEN trit ELSE 0)

TypeOpResult(c) ==
  LET x == regs[c.a]  y == regs[c.b] IN
  CASE c.op = "add" -> Add(x, y)
    [] c.op = "sub" -> Sub(x, y)
    [] c.op = "mul" -> Mul(x, y)
    [] c.op = "div" -> Div(x, y)
    [] c.op = "mod" -> Mod(x, y)
    [] c.op \in {"neg", "not"} -> Neg(x)
    [] c.op = "and" -> TritwiseOp(x, y, TritMin)
    [] c.op = "or"  -> TritwiseOp(x, y, TritMax)
    [] c.op = "xor" -> TritwiseOp(x, y, TritXor)
    [] c.op = "shl" -> ShiftLeft(x, c.k)
    [] c.op = "shr" -> ShiftRight(x, c.k)
    [] c.op = "rol" -> RotateLeft(x, c.k)
    [] c.op = "ror" -> RotateRight(x, c.k)
    [] c.op = "tb2t" -> Encode(c.k)
    [] c.op = "tb2t_res" -> Encode(res)
    [] c.op = "cmplt"  -> FlagWord(-1, Cmp(x, y) = -1)
    [] c.op = "cmpeq"  -> FlagWord(1, Cmp(x, y) = 0)
    [] c.op = "cmpgt"  -> FlagWord(1, Cmp(x, y) = 1)
    [] c.op = "cmpneq" -> FlagWord(1, Cmp(x, y) # 0)

TypeOps == {"add", "sub", "mul", "div", "mod", "neg", "not", "and", "or", "xor",
            "shl", "shr", "rol", "ror", "tb2t", "tb2t_res",
            "cmplt", "cmpeq", "cmpgt", "cmpneq"}

(* The ternary-only helpers of t32_t and t64_t. *)
IsaOpResult(c) ==
  LET x == regs[c.a]  y == regs[c.b]  z == regs[c.c] IN
  CASE c.op = "tlimp"  -> Implication(x, y)
    [] c.op = "tmaj"   -> Majority(x, y, z)
    [] c.op = "tnot"   -> Not(x)
    [] c.op = "tmuladd" -> MulAdd(x, y, z)
    [] c.op = "tround" -> Round(x, c.k)
    [] c.op = "tnormalize" -> Normalize(x)
    [] c.op = "tbias"  -> Bias(x, c.k)
    [] c.op = "tquant" -> Quantize(c.k)
    [] c.op = "tequiv" -> Equiv(x, y)
    [] c.op = "txor"   -> Txor(x, y)

Bool(holds) == IF holds THEN 1 ELSE 0

ScalarResult(c) ==
  LET x == regs[c.a]  y == regs[c.b] IN
  CASE c.op = "cmp" -> Cmp(x, y)
    [] c.op = "eq"  -> Bool(Cmp(x, y) = 0)
    [] c.op = "ne"  -> Bool(Cmp(x, y) # 0)
    [] c.op = "lt"  -> Bool(Cmp(x, y) = -1)
    [] c.op = "le"  -> Bool(Cmp(x, y) \in {-1, 0})
    [] c.op = "gt"  -> Bool(Cmp(x, y) = 1)
    [] c.op = "ge"  -> Bool(Cmp(x, y) \in {1, 0})
    [] c.op = "tsignjmp" -> SignJmp(x, -1, 0, 1)
    [] c.op = "tt2b" -> Decode(x)
    [] c.op = "tnet" -> WrapTo(Decode(x), MaxShort)

-----------------------------------------------------------------------------
Call ==
  /\ call = NoCall
  /\ call' \in Calls
  /\ res' = IF call'.op \in ReadsRes THEN res ELSE 0
  /\ UNCHANGED <<regs, mem>>

ReturnWord ==
  /\ call \in WordCalls
  /\ regs' = [regs EXCEPT ![call.a] =
                IF call.op \in TypeOps THEN TypeOpResult(call) ELSE IsaOpResult(call)]
  /\ res' = 0 /\ call' = NoCall
  /\ UNCHANGED mem

ReturnScalar ==
  /\ call \in ScalarCalls
  /\ res' = ScalarResult(call)
  /\ call' = NoCall
  /\ UNCHANGED <<regs, mem>>

(* select_tN and tmux_tN return one of their operands as it is. *)
ReturnMove ==
  /\ call \in MoveCalls
  /\ regs' = [regs EXCEPT ![call.a] =
                IF call.op = "select" THEN Select(res, regs[call.a], regs[call.b])
                ELSE Mux(regs[call.c], regs[call.a], regs[call.b], regs[call.c])]
  /\ res' = 0 /\ call' = NoCall
  /\ UNCHANGED mem

LoadCanonical ==
  /\ call \in MemoryCalls /\ call.op = "load"
  /\ regs' = [regs EXCEPT ![call.a] = Normalize(mem[call.k])]
  /\ call' = NoCall
  /\ UNCHANGED <<mem, res>>

Load ==
  /\ call \in MemoryCalls /\ call.op = "load"
  /\ regs' = [regs EXCEPT ![call.a] = mem[call.k]]
  /\ call' = NoCall
  /\ UNCHANGED <<mem, res>>

Store ==
  /\ call \in MemoryCalls /\ call.op = "store"
  /\ mem' = [mem EXCEPT ![call.k] = regs[call.a]]
  /\ call' = NoCall
  /\ UNCHANGED <<regs, res>>

(* Code that does not use the runtime writes a cell. *)
Outside ==
  /\ call = NoCall
  /\ \E adr \in Addr, w \in RawWord : mem' = [mem EXCEPT ![adr] = w]
  /\ UNCHANGED <<regs, res, call>>

Next == Call \/ ReturnWord \/ ReturnScalar \/ ReturnMove \/ Load \/ Store \/ Outside

Spec == Init /\ [][Next]_vars

-----------------------------------------------------------------------------
(* A reserved code is never made by the runtime: a word that holds one is  *)
(* still, bit for bit, a word that came from outside, whatever sequence of *)
(* helpers, moves, loads and stores it went through.                       *)
ReservedOnlyFromOutside ==
  /\ \A r \in Reg  : Canonical(regs[r]) \/ regs[r] \in RawWord
  /\ \A a \in Addr : Canonical(mem[a]) \/ mem[a] \in RawWord

(* The integer a word stands for, in unbounded arithmetic. *)
ExactValue(w) == DecodeUnbounded(w)

(* Every sequence of calls does what the helper ABI promises of integers,  *)
(* with the exceptions AbstractTernary names (...AsBuilt), where the       *)
(* runtime does something else than the documents say.                     *)
Abs == INSTANCE AbstractTernary WITH
         val       <- [r \in Reg  |-> ExactValue(regs[r])],
         clean     <- [r \in Reg  |-> Canonical(regs[r])],
         cellVal   <- [a \in Addr |-> ExactValue(mem[a])],
         cellClean <- [a \in Addr |-> Canonical(mem[a])]

ImplementsAbstract == Abs!Spec

-----------------------------------------------------------------------------
(* docs/SPECIFICATION.md:115, "stable and documented".                     *)
DocumentedXor(s, t) ==
  IF s = t THEN 0 ELSE IF t = 0 THEN -s ELSE IF s = 0 THEN -t ELSE 0

(* The exception XorAsBuilt, stated as the document has it: the xor of two *)
(* words is that function of their trits.  The runtime violates it.        *)
CallsXor == call \in WordCalls /\ call.op = "xor"
XorOfTrits(i) == DocumentedXor(GetTrit(regs[call.a], i), GetTrit(regs[call.b], i))
XorIsDocumented ==
  [][CallsXor => \A i \in Idx : GetTrit(regs'[call.a], i) = XorOfTrits(i)]_vars
=============================================================================
