---------------------------- MODULE ToolchainLink ----------------------------
(***************************************************************************)
(* The calls a compilation leaves behind against what they are linked to:  *)
(* does the helper exist, does it take what the call passes, and does the  *)
(* linked program compute what the source says?                            *)
(***************************************************************************)
EXTENDS Toolchain

LastGroup == Last(done)
LastCalls == {s \in {LastGroup.code[i] : i \in DOMAIN LastGroup.code} : s.kind = "helper"}
Helper(s) == <<s.op, s.suf>>

(* build_helper_name. *)
SymbolUnprefixed(s) == <<"__ternary", Helper(s)>>
Symbol(s) == <<prefix, Helper(s)>>

-----------------------------------------------------------------------------
(* Helpers of the ABI the skeleton does not have, and the select of a      *)
(* _Bool, whose name is built from the precision 1 and which nobody has.   *)
Missing(s) ==
  \/ Helper(s) = <<"select", "u1">>
  \/ /\ build.library = "skeleton"
     /\ \/ s.op = "select" /\ s.suf \notin Sizes
        \/ s.op = "not" /\ s.suf \in Sizes
        \/ s.op \in OrderWords \cup Floats

(* With the library built for the prefix the plugin was given, every       *)
(* helper the pass calls is defined, but for the ones listed.              *)
HelpersDefined ==
  done # <<>> /\ prefix = build.prefix =>
    \A s \in LastCalls : Symbol(s) \in LinkedSymbols(build) <=> ~Missing(s)

-----------------------------------------------------------------------------
(* The parameter types of a helper's definition. *)
Parameters(op, suf) ==
  IF op = "select" THEN <<"i64", suf, suf>>
  ELSE IF suf = "" THEN IF op \in {"neg", "not"} THEN <<"i32">> ELSE <<"i32", "i32">>
  ELSE CASE op \in Shifts -> <<suf, "i32">>
         [] op = "tb2t"   -> <<"i64">>
         [] op = "f2t32"  -> <<"f32">>
         [] op \in {"neg", "not", "tt2b", "t2f32"} -> <<suf>>
         [] OTHER -> <<suf, suf>>

(* int and unsigned are passed alike, and t32_t as the unsigned long it is. *)
Passed(ty) == CASE ty = "u32" -> "i32"  [] ty = "u64" -> "t32"  [] OTHER -> ty
TakesOperands(s) ==
  LET declared == Parameters(s.op, s.suf) IN
  /\ Len(s.args) = Len(declared)
  /\ \A i \in DOMAIN declared : Passed(s.args[i].ty) = Passed(declared[i])

(* What a prototype of a builtin makes of a call: operands of one type,    *)
(* the result's but for the comparisons, and a shift count that may be an  *)
(* int.  include/ternary.h:25-49 has those for int and t32_t; a program    *)
(* may declare others.                                                     *)
Alike(o, other) == Passed(o.ty) = Passed(other.ty)
Prototyped(s) ==
  s.kind = "builtin" /\ Len(s.args) = Arguments(s.op) =>
    /\ s.op \in (ArithBuiltin \ {"select"}) \cup LogicBuiltin \cup TernaryCompare =>
         \A i \in DOMAIN s.args : Alike(s.args[i], s.lhs)
    /\ s.op = "cmp" => Alike(s.args[1], s.args[2])
    /\ s.op \in ShiftBuiltin =>
         Alike(s.args[1], s.lhs) /\ (Passed(s.args[2].ty) = "i32" \/ Alike(s.args[2], s.lhs))

ASSUME PrototypeAssumption ==
  \A m \in Units : \A i \in DOMAIN m : \A k \in DOMAIN m[i] : Prototyped(m[i][k])

(* Calls known to pass something else than the helper takes: a ternary     *)
(* shift count; and of the builtins, whose operands go to the helper as    *)
(* they are, the comparisons, neg and not of words and all operations on   *)
(* integers other than int, which are sent to the helpers for int, the int *)
(* given to tb2t and the condition of select.                              *)
OtherIntegers == {"u1", "i64", "u64"}
Mispassed(s, src) ==
  \/ s.op \in Shifts /\ s.suf \in Sizes
  \/ /\ src.kind = "builtin"
     /\ \/ /\ s.suf = ""
           /\ \/ src.args[1].ty \in Ternary /\ s.op \in Orders \cup {"neg", "not"}
              \/ src.args[1].ty \in OtherIntegers \/ src.lhs.ty \in OtherIntegers
        \/ s.op \in {"tb2t", "select"}

(* Any other call passes a helper what its definition takes: the types of  *)
(* mixed operations and of conditions were brought in line first.          *)
OperandsFit ==
  done # <<>> => \A s \in LastCalls : TakesOperands(s) \/ Mispassed(s, LastGroup.src)

-----------------------------------------------------------------------------
(* The body a call runs: the inline one if the object has it, else the     *)
(* library's.                                                              *)
Sources == {build.library} \cup (IF prefix = "__ternary" THEN {"inline"} ELSE {})
BodyOf(s, source) ==
  IF source = "inline" /\ Helper(s) \in InlineHelpers THEN "inline" ELSE build.library

Result(s, body, v) ==
  LET second == IF Len(v) > 1 THEN v[2] ELSE v[1] IN
  IF s.op = "select" THEN Select(v[1], v[2], v[3])
  ELSE IF s.suf = "" THEN
    IF body = "inline" THEN HeaderInt(s.op, v[1], second, MaxShort)
    ELSE IntResult(s.op, v[1], second, MaxShort)
  ELSE IF s.op = "t2f32" \/ body = "runtime" THEN HelperResult(s.op, v)
  ELSE IF s.op \in {"cmp", "tt2b"} THEN
    IF body = "inline" THEN HeaderScalar(s.op, v[1], second)
    ELSE SkeletonScalar(s.op, v[1], second)
  ELSE IF body = "inline" THEN HeaderWord(s.op, v[1], second, second, 0)
  ELSE SkeletonWord(s.op, v[1], second, second, 0)

RunLinked(code, source, env) ==
  LET after[i \in 0 .. Len(code)] ==
        IF i = 0 THEN env
        ELSE LET s == code[i]
                 e == after[i - 1]
                 v == [k \in DOMAIN s.args |-> Value(s.args[k], e)]
                 r == IF s.kind = "helper" THEN Result(s, BodyOf(s, source), v)
                      ELSE Execute(s, e)
             IN Updated(e, s.lhs.n, r)
  IN after[Len(code)]

(* What the builtins on C integers stand for, where it fits an int and a   *)
(* shift's power of 3 an int64_t.  The exception is xor, which stands for  *)
(* the libraries' sum modulo 3 and not for what docs/SPECIFICATION.md:115  *)
(* defines.                                                                *)
IntBuiltins == RuntimeInt \ {"rol", "ror"}
Promised(op, y, meant) ==
  /\ -MaxShort - 1 <= meant /\ meant <= MaxShort
  /\ op \in {"shl", "shr"} /\ y > 0 => Pow3[y] <= MaxInt
IntXorAsBuilt(x, y) == CHOOSE t \in -1 .. 1 : (t - x - y) % 3 = 0
IntMeaning(op, x, y) ==
  CASE op = "add" -> x + y  [] op = "sub" -> x - y  [] op = "mul" -> x * y
    [] op = "div" -> CDiv(x, y)  [] op = "mod" -> CMod(x, y)
    [] op \in {"neg", "not"} -> -x
    [] op = "and" -> IF x <= y THEN x ELSE y
    [] op = "or"  -> IF x <= y THEN y ELSE x
    [] op = "xor" -> IntXorAsBuilt(x, y)
    [] op = "shl" -> x * Pow3[IF y > 0 THEN y ELSE 0]
    [] op = "shr" -> CDiv(x, Pow3[IF y > 0 THEN y ELSE 0])
    [] op = "cmp" -> Order(x, y)
    [] OTHER -> Flag(CASE op = "eq" -> x = y  [] op = "ne" -> x # y  [] op = "lt" -> x < y
                       [] op = "le" -> x <= y  [] op = "gt" -> x > y  [] op = "ge" -> x >= y)

IsIntBuiltin(g) ==
  /\ g.src.kind = "builtin" /\ g.src.op \in IntBuiltins /\ g.src.lhs.ty = "i32"
  /\ \A i \in DOMAIN g.src.args : g.src.args[i].ty = "i32"

(* The operands of a statement have values of their types; a value of any  *)
(* other type is the integer that stands for it.                           *)
ValuesOf(ty) ==
  CASE ty \in Ternary -> Word  [] ty = "i32" -> -MaxShort - 1 .. MaxShort  [] OTHER -> Int
WellTyped(s, env) == \A i \in DOMAIN s.args : Value(s.args[i], env) \in ValuesOf(s.args[i].ty)

(* Does the group compute what its source statement means? *)
LinkedRight(g, source, env) ==
  LET result == RunLinked(g.code, source, env)[g.src.lhs.n]
      n(i) == Value(g.src.args[IF i <= Len(g.src.args) THEN i ELSE 1], env)
      meant == IntMeaning(g.src.op, n(1), n(2))
  IN IF IsIntBuiltin(g) THEN Promised(g.src.op, n(2), meant) => result = meant
     ELSE SameResult(g.src.lhs.ty, result, SourceMeaning(g.src, env))

(* The header's xor is neither the libraries' nor the one                  *)
(* docs/SPECIFICATION.md:115 defines.                                      *)
RunsInlineXor(g, source) ==
  \E i \in DOMAIN g.code : g.code[i].op = "xor" /\ BodyOf(g.code[i], source) = "inline"

(* A program that links computes what its source means, whichever library  *)
(* it is linked with and whether or not its object had the inline helpers, *)
(* but for the header's xor and the operands the pass passes on raw.  An   *)
(* xor means the libraries' sum modulo 3 (XorAsBuilt, IntXorAsBuilt), not  *)
(* what the documents say.                                                 *)
LinkedMeaning ==
  done # <<>> =>
    LET g == LastGroup IN
    ( /\ g.src.kind \in {"assign", "cond"} \/ IsIntBuiltin(g)
      /\ Rewritten(g)
      /\ \A i \in DOMAIN g.src.args : Representable(g.src.args[i]) /\ g.src.args[i].ty # "u64"
      /\ \A i \in DOMAIN g.code : ~RawOperand(g.code[i])
      /\ \A s \in LastCalls : Symbol(s) \in LinkedSymbols(build) )
      => \A source \in Sources, env \in Environments :
           WellTyped(g.src, env) => LinkedRight(g, source, env) \/ RunsInlineXor(g, source)

-----------------------------------------------------------------------------
(* Stretches of statements that were all replaced, an expression of more   *)
(* than one operator among them: the linked program computes what they     *)
(* mean one after the other, from any words in its variables and whichever *)
(* bodies run, but for the header's xor.  As in LinkedMeaning an xor means *)
(* the libraries'.                                                         *)
HoldsWords(fn, env) ==
  \A i \in DOMAIN fn : \A o \in Variables(fn[i]) : o.ty \in Ternary => env[o.n] \in Word
AllLinked ==
  \A i \in DOMAIN Emitted :
    Emitted[i].kind = "helper" => Symbol(Emitted[i]) \in LinkedSymbols(build)

LinkedProgram ==
  AllReplaced /\ AllLinked =>
    \A source \in Sources, env \in Environments :
      HoldsWords(Statements, env) =>
        \/ SameResults(RunLinked(Emitted, source, env), SourceRun(Statements, env))
        \/ \E i \in DOMAIN done : RunsInlineXor(done[i], source)

-----------------------------------------------------------------------------
(* An operator on t32_t whose result is a t32_t or a truth value. *)
OnTernary(s) ==
  /\ s.kind \in {"assign", "cond"} /\ \A i \in DOMAIN s.args : s.args[i].ty = "t32"
  /\ \/ s.op \in CompareCode /\ s.lhs.ty \notin Ternary
     \/ s.op \in DOMAIN HelperOf \ {"CONVERT_EXPR"} /\ s.kind = "assign" /\ s.lhs.ty = "t32"

(* The gimplifier leaves an expression of more than one operator as a      *)
(* statement for each, with variables of Inner between them.               *)
Hidden(s) ==
  LET inner(o) == ~o.const /\ o.n \in Inner IN
  IF s.op \in CompareCode THEN inner(s.args[1])
  ELSE inner(s.lhs) \/ \E i \in DOMAIN s.args : inner(s.args[i])

(* With -fplugin-arg-ternary_plugin-types every operator of a nested       *)
(* ternary expression is lowered.  Where t32_t is a typedef, each whose    *)
(* operand or result is inside the expression is left to binary arithmetic *)
(* on the containers, and counted nowhere: only a comparison whose left    *)
(* operand is a variable is lowered.                                       *)
NestedExpressions ==
  stage = "finished" /\ "lower" \in opt =>
    LET stmts == FlattenSeq(unit) IN
    \A i \in DOMAIN stmts :
      OnTernary(stmts[i]) => (Rewritten(done[i]) <=> ("types" \in opt \/ ~Hidden(stmts[i])))
=============================================================================
