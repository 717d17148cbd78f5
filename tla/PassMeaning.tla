----------------------------- MODULE PassMeaning -----------------------------
(***************************************************************************)
(* What the statements TernaryPass reads and writes compute, and the       *)
(* properties that relate the two.  A source statement is given the        *)
(* meaning docs/SPECIFICATION.md gives the operation, but for ^, which     *)
(* means what the runtime makes of it (XorAsBuilt); its ternary constants  *)
(* stand for their integers.  An emitted statement is what the runtime     *)
(* helper it calls does with the containers it is handed.                  *)
(***************************************************************************)
EXTENDS TernaryPass, FiniteSets

CONSTANT Environments   (* the source variables' values to try *)

ASSUME EnvironmentAssumption == \A env \in Environments : DOMAIN env = 0 .. FirstTemp - 1

-----------------------------------------------------------------------------
(* Emitted statements: helper calls on containers (external to the plugin). *)
Value(o, env) ==
  IF ~o.const THEN env[o.n] ELSE IF o.ty \in Ternary THEN WordOf(o.n) ELSE o.n

(* What a comparison with 0 leaves in an int. *)
Holds(code, x) ==
  LET yes == CASE code = "EQ_EXPR" -> x = 0  [] code = "NE_EXPR" -> x # 0
               [] code = "LT_EXPR" -> x < 0  [] code = "LE_EXPR" -> x <= 0
               [] code = "GT_EXPR" -> x > 0  [] code = "GE_EXPR" -> x >= 0
  IN IF yes THEN 1 ELSE 0

HelperResult(op, v) ==
  CASE op = "add" -> Add(v[1], v[2])  [] op = "sub" -> Sub(v[1], v[2])
    [] op = "mul" -> Mul(v[1], v[2])  [] op = "div" -> Div(v[1], v[2])
    [] op = "mod" -> Mod(v[1], v[2])  [] op \in {"neg", "not"} -> Neg(v[1])
    [] op = "and" -> TritwiseOp(v[1], v[2], TritMin)
    [] op = "or"  -> TritwiseOp(v[1], v[2], TritMax)
    [] op = "xor" -> TritwiseOp(v[1], v[2], TritXor)
    [] op = "cmp" -> Cmp(v[1], v[2])
    [] op \in {"tt2b", "t2f32"} -> Decode(v[1])
    [] op = "select" -> Select(v[1], v[2], v[3])

Execute(s, env) ==
  LET v == [i \in DOMAIN s.args |-> Value(s.args[i], env)] IN
  IF s.kind = "helper" THEN HelperResult(s.op, v)
  ELSE IF s.op \in CompareCode THEN Holds(s.op, v[1] - v[2])
  ELSE v[1]

Updated(env, n, v) == [k \in {n} \cup DOMAIN env |-> IF k = n THEN v ELSE env[k]]

Run(code, env) ==
  LET after[i \in 0 .. Len(code)] ==
        IF i = 0 THEN env
        ELSE Updated(after[i - 1], code[i].lhs.n, Execute(code[i], after[i - 1]))
  IN after[Len(code)]

-----------------------------------------------------------------------------
(* Source statements. *)
Meant(o, env) ==
  IF ~o.const THEN env[o.n] ELSE IF o.ty \in Ternary THEN Encode(o.n) ELSE o.n

IntegerOf(o, env) == IF o.ty \in Ternary THEN Decode(Meant(o, env)) ELSE Meant(o, env)

(* The exception: docs/SPECIFICATION.md:115 defines another function of two *)
(* trits.  What the pass can keep or lose is the libraries' sum modulo 3;   *)
(* XorIsDocumented of TernaryRuntime has the document's.                    *)
XorAsBuilt(v, w) == TritwiseOp(v, w, TritXor)

SourceMeaning(s, env) ==
  LET m(i) == Meant(s.args[i], env)
      n(i) == IntegerOf(s.args[i], env)
  IN CASE s.op = "COND_EXPR" -> IF n(1) # 0 THEN m(2) ELSE m(3)
       [] s.op = "PLUS_EXPR"  -> Encode(Wrap(n(1) + n(2)))
       [] s.op = "MINUS_EXPR" -> Encode(Wrap(n(1) - n(2)))
       [] s.op = "MULT_EXPR"  -> Encode(Wrap(n(1) * n(2)))
       [] s.op = "TRUNC_DIV_EXPR" -> Encode(CDiv(n(1), n(2)))
       [] s.op = "TRUNC_MOD_EXPR" -> Encode(CMod(n(1), n(2)))
       [] s.op = "NEGATE_EXPR"  -> Encode(-n(1))
       [] s.op = "BIT_NOT_EXPR" -> Not(m(1))
       [] s.op = "BIT_AND_EXPR" -> TritwiseOp(m(1), m(2), TritMin)
       [] s.op = "BIT_IOR_EXPR" -> TritwiseOp(m(1), m(2), TritMax)
       [] s.op = "BIT_XOR_EXPR" -> XorAsBuilt(m(1), m(2))
       [] s.op = "CONVERT_EXPR" -> IF s.lhs.ty \in Ternary THEN Encode(n(1)) ELSE n(1)
       [] s.op \in CompareCode -> Holds(s.op, n(1) - n(2))

SourceRun(fn, env) ==
  LET after[i \in 0 .. Len(fn)] ==
        IF i = 0 THEN env
        ELSE Updated(after[i - 1], fn[i].lhs.n, SourceMeaning(fn[i], after[i - 1]))
  IN after[Len(fn)]

(* The variables a statement names, and whether every name has one type.   *)
Variables(s) == {s.lhs} \cup {o \in {s.args[i] : i \in DOMAIN s.args} : ~o.const}
OneType(fn) ==
  \A i, j \in DOMAIN fn : \A v \in Variables(fn[i]), w \in Variables(fn[j]) :
    v.n = w.n => (v.ty \in Ternary <=> w.ty \in Ternary)

(* t32_t has its values in int64_t, t64_t has not. *)
ValuesFit == (Pow3[Trits] - 1) \div 2 <= MaxInt

-----------------------------------------------------------------------------
Emitted == FlattenSeq([i \in DOMAIN done |-> done[i].code])
Rewritten(g) == g.code # <<g.src>> /\ g.src \notin {g.code[i] : i \in DOMAIN g.code}

(* A ternary constant the plugin can represent. *)
Representable(o) == o.const /\ o.ty \in Ternary => CanPack(o.n, o.ty)

(* A helper call with an operand the pass did not bring into the helper's  *)
(* form: an unpacked constant, or a ternary container for a shift count.   *)
RawOperand(s) ==
  /\ s.kind = "helper" /\ s.op # "select"
  /\ \/ \E i \in DOMAIN s.args : s.args[i].const /\ s.args[i].ty \in Ternary
     \/ s.op \in {"shl", "shr"} /\ s.args[2].ty \in Ternary

(* The code the pass put in the place of an operator, unless the plugin    *)
(* cannot handle an operand or handed it to a helper as it was.            *)
Replaced(g) ==
  /\ g.src.kind \in {"assign", "cond"} /\ Rewritten(g)
  /\ \A i \in DOMAIN g.src.args : Representable(g.src.args[i]) /\ g.src.args[i].ty # "u64"
  /\ \A i \in DOMAIN g.code : ~RawOperand(g.code[i])

(* Ternary results are compared as integers: x - 0 keeps a reserved code of x. *)
SameResult(ty, v, w) == IF ty \in Ternary THEN Decode(v) = Decode(w) ELSE v = w
SameMeaning(g) ==
  \A env \in Environments :
    SameResult(g.src.lhs.ty, Run(g.code, env)[g.src.lhs.n], SourceMeaning(g.src, env))

(* The types; a ternary constant's bits fit its container. *)
IsOperand(o) == o \in Operand /\ InContainer(o)
CachedName == {"", "select"} \cup TernaryCompare
TypeOK ==
  /\ opt \subseteq Flags
  /\ decl_cache \in [Key -> CachedName \X Type]
  /\ \A i \in DOMAIN done : \A k \in DOMAIN done[i].code :
       \A m \in DOMAIN done[i].code[k].args : IsOperand(done[i].code[k].args[m])
  /\ <<ternary_count, lowered_count, surviving_count, temps>> \in Nat \X Nat \X Nat \X Nat

(* Whatever the pass puts in place of an operator - a folded constant, a   *)
(* simplified operand, a select on a decoded condition, a comparison of    *)
(* cmp with 0, a helper call - computes what the operator means, unless an *)
(* operand reached a helper in the wrong form.  An unsigned long is a word *)
(* to the helpers, whatever it means.                                      *)
MeaningKept == done # <<>> /\ Replaced(Last(done)) => SameMeaning(Last(done))

(* A stretch of statements that were all replaced computes what they mean  *)
(* one after the other: each reads what the code of the ones before it     *)
(* left, where the source has the same numbers but maybe other codes for   *)
(* them.  A variable has one type, and int64_t holds every word's value.   *)
Statements == [i \in DOMAIN done |-> done[i].src]
AllReplaced ==
  /\ ValuesFit /\ OneType(Statements)
  /\ \A i \in DOMAIN done : Replaced(done[i]) /\ Statements[i].lhs.ty # "u64"
SameResults(after, meant) ==
  \A i \in DOMAIN Statements :
    LET x == Statements[i].lhs IN SameResult(x.ty, after[x.n], meant[x.n])

ProgramMeaning ==
  AllReplaced =>
    \A env \in Environments : SameResults(Run(Emitted, env), SourceRun(Statements, env))

(* A temporary is written once, before every use of it. *)
IsTemp(o) == ~o.const /\ o.n >= FirstTemp
TempsDefinedOnce ==
  \A i \in DOMAIN Emitted :
    /\ \A k \in DOMAIN Emitted[i].args :
         IsTemp(Emitted[i].args[k]) => \E j \in 1 .. i - 1 : Emitted[j].lhs = Emitted[i].args[k]
    /\ IsTemp(Emitted[i].lhs) =>
         \A j \in DOMAIN Emitted \ {i} : Emitted[j].lhs.n # Emitted[i].lhs.n

(* The statistics printed at the end: each statement replaced was counted  *)
(* as lowered once, and each conditional seen as lowered or surviving.     *)
CountsMatchCode ==
  /\ lowered_count = Cardinality({i \in DOMAIN done : Rewritten(done[i])})
  /\ ternary_count = Cardinality({i \in DOMAIN done : done[i].src.op = "COND_EXPR"})
  /\ ternary_count <= lowered_count + surviving_count

(* The helper called for a select is the one of the type selected, although *)
(* its declaration may be one cached for an earlier statement.             *)
SelectsOwnType ==
  \A i \in DOMAIN done : \A k \in DOMAIN done[i].code :
    LET s == done[i].code[k] IN
    s.kind = "helper" /\ s.op = "select" => s.suf = s.lhs.ty

(* Every statement is dealt with by some branch and the walk ends. *)
PassTerminates == <>(todo = <<>>)

(* docs/SPECIFICATION.md:474 and 384: the builtins cmplt, cmpeq, cmpgt and *)
(* cmpneq are lowered to helper calls, each to its own.                    *)
CompareKeepsName ==
  \A i \in DOMAIN done :
    done[i].src.kind = "builtin" /\ done[i].src.op \in TernaryCompare /\ Rewritten(done[i])
      => done[i].code[1].op = done[i].src.op

(* docs/SPECIFICATION.md:100: "explicit casts use helper functions".       *)
CastsUseHelpers ==
  "lower" \in opt =>
    \A i \in DOMAIN done :
      ( /\ done[i].src.op = "CONVERT_EXPR" /\ ~done[i].src.args[1].const
        /\ done[i].src.lhs.ty \in Ternary /\ done[i].src.args[1].ty \in Integral \ Ternary )
        => done[i].code[1].kind = "helper"

(* docs/SPECIFICATION.md:82-83: "Branches and selects treat 0 as false and *)
(* non-zero as true": a lowered branch on x != 0 is taken iff x is not 0.  *)
BranchTreatsZeroAsFalse ==
  \A i \in DOMAIN done :
    ( /\ done[i].src.kind = "cond" /\ done[i].src.op = "NE_EXPR" /\ Rewritten(done[i])
      /\ done[i].src.args[2] = C("t32", 0) )
      => SameMeaning(done[i])
=============================================================================
