----------------------------- MODULE HelperCalls -----------------------------
(***************************************************************************)
(* The calls a program makes to the helper ABI of one type tN: the names   *)
(* are those of runtime/ternary_runtime.c without the prefix __ternary_    *)
(* and the suffix _tN.  A program variable is both first operand and       *)
(* destination (x = f(x, y)).  Aliases of one function body (tmin of and,  *)
(* tmax of or, tinv of tnot) are not repeated.  tb2t_res and tbias take    *)
(* their int64_t from the last scalar result or from a literal.            *)
(***************************************************************************)
EXTENDS Integers

CONSTANTS
  Count,     (* shift and drop counts *)
  Reg,       (* program variables *)
  Addr,      (* memory cells of type tN *)
  Literal,   (* int64_t literals *)
  NoCall     (* no call is being executed *)

Binary  == {"add", "sub", "mul", "div", "mod", "and", "or", "xor", "tlimp",
            "tequiv", "txor", "cmplt", "cmpeq", "cmpgt", "cmpneq"}
Unary   == {"neg", "not", "tnot", "tnormalize"}
Ternary == {"tmuladd", "tmaj"}
Counted == {"shl", "shr", "rol", "ror", "tround"}
Compare == {"cmp", "eq", "ne", "lt", "le", "gt", "ge"}
Reader  == {"tsignjmp", "tt2b", "tnet"}
OfLiteral == {"tb2t", "tbias"}

CallSet(ops, A, B, C, K) == [op : ops, a : A, b : B, c : C, k : K]

(* Operand fields a call does not use hold r0 and 0. *)
r0 == CHOOSE r \in Reg : TRUE

WordCalls ==
  CallSet(Binary, Reg, Reg, {r0}, {0})
    \cup CallSet(Unary, Reg, {r0}, {r0}, {0})
    \cup CallSet(Ternary, Reg, Reg, Reg, {0})
    \cup CallSet(Counted, Reg, {r0}, {r0}, Count)
    \cup CallSet({"tquant"}, Reg, {r0}, {r0}, -1 .. 1)
    \cup CallSet(OfLiteral, Reg, {r0}, {r0}, Literal)
    \cup CallSet({"tb2t_res"}, Reg, {r0}, {r0}, {0})
ScalarCalls == CallSet(Compare, Reg, Reg, {r0}, {0}) \cup CallSet(Reader, Reg, {r0}, {r0}, {0})
MoveCalls   == CallSet({"select"}, Reg, Reg, {r0}, {0}) \cup CallSet({"tmux"}, Reg, Reg, Reg, {0})
MemoryCalls == CallSet({"load", "store"}, Reg, {r0}, {r0}, Addr)

Calls == WordCalls \cup ScalarCalls \cup MoveCalls \cup MemoryCalls

(* Calls of the vector helpers of tv32_t and (struct) tv64_t.  The vector  *)
(* <<lane 0, lane 1>> in a is both first operand and destination.          *)
VectorCallSet(ops, isStruct, r, s, C, K) ==
  [vec : ops, struct : {isStruct}, a : {<<r, s>>}, b : {<<s, r>>}, c : C, k : K]
StructVectorOps == {"add", "sub", "mul", "and", "or", "xor", "not", "cmp"}
VectorCalls ==
  UNION {
    VectorCallSet(StructVectorOps, TRUE, p[1], p[2], {p}, {0})
      \cup VectorCallSet(StructVectorOps \cup {"tmin", "tmax", "tlimp"}, FALSE, p[1], p[2], {p}, {0})
      \cup VectorCallSet({"tmaj"}, FALSE, p[1], p[2], {p, <<p[2], p[1]>>}, {0})
      \cup VectorCallSet({"tround"}, FALSE, p[1], p[2], {p}, Count)
      \cup VectorCallSet({"tquant"}, FALSE, p[1], p[2], {p}, -1 .. 1)
    : p \in {q \in Reg \X Reg : q[1] # q[2]}}

(* Calls that read the last scalar result; before any other it is dropped. *)
ReadsRes == {"select", "tb2t_res"}
=============================================================================
