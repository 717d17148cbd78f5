----------------------------- MODULE TernaryPass -----------------------------
(***************************************************************************)
(* ternary_pass::execute of src/ternary_plugin.cpp: one walk over the      *)
(* GIMPLE statements of the translation unit that replaces the operations  *)
(* on ternary types by calls of the helper ABI.                            *)
(*                                                                         *)
(* A statement is [kind, op, suf, lhs, args]: op is the right-hand side's  *)
(* tree code, the builtin's name without __builtin_ternary_, or, with the  *)
(* type suffix suf, the helper's name without the prefix.  done is what    *)
(* the iterator gsi has passed, grouped by the source statement it came    *)
(* from, and todo what it has still to visit: gsi_insert_before appends to *)
(* the current group, gsi_replace ends it with the new statement.          *)
(*                                                                         *)
(* One action per way through the loop body.  The pass runs after GIMPLE   *)
(* is built, where operands are variables or constants: the branches for a *)
(* COND_EXPR nested inside an operand have nothing to do.                  *)
(***************************************************************************)
EXTENDS TritWord, Sequences, SequencesExt

CONSTANTS
  Programs,   (* the statement sequences to compile *)
  OptionSets, (* the sets of plugin arguments given *)
  FirstTemp   (* variables from here on are made by create_tmp_var *)

Type     == {"t32", "t64", "u1", "i32", "u32", "i64", "u64", "f32", "ptr", "none"}
Ternary  == {"t32", "t64"}
Integral == Ternary \cup {"u1", "i32", "u32", "i64", "u64"}    (* u1 is _Bool *)
Packable == {"t32"}     (* constants of more than 32 trits are never packed *)

Operand == [const : BOOLEAN, ty : Type, n : Int]
V(ty, n) == [const |-> FALSE, ty |-> ty, n |-> n]   (* variable n *)
C(ty, n) == [const |-> TRUE,  ty |-> ty, n |-> n]   (* INTEGER_CST of bits n *)
NoLhs    == V("none", 0)

Stmt(kind, op, suf, lhs, args) ==
  [kind |-> kind, op |-> op, suf |-> suf, lhs |-> lhs, args |-> args]

(* What gimplification leaves: no variable is one create_tmp_var makes, a  *)
(* constant of ternary type is a value of the container, an operator has   *)
(* its operands, a COND_EXPR is assigned and its arms have the layout of   *)
(* the result, a comparison has a truth value and no word for its result,  *)
(* a conversion that changes no layout is gone, and no runtime             *)
(* helper is called yet.  types_compatible_p: t32_t and unsigned long have *)
(* one precision and sign.                                                 *)
SameLayout(ty, other) == ty = other \/ {ty, other} = {"t32", "u64"}

UnaryCode   == {"NEGATE_EXPR", "BIT_NOT_EXPR", "CONVERT_EXPR"}
BinaryCode  == {"PLUS_EXPR", "MINUS_EXPR", "MULT_EXPR", "TRUNC_DIV_EXPR", "TRUNC_MOD_EXPR",
                "BIT_AND_EXPR", "BIT_IOR_EXPR", "BIT_XOR_EXPR", "LSHIFT_EXPR", "RSHIFT_EXPR"}
CompareCode == {"EQ_EXPR", "NE_EXPR", "LT_EXPR", "LE_EXPR", "GT_EXPR", "GE_EXPR"}

InContainer(o)  == o.const /\ o.ty \in Ternary => o.n \in 0 .. Pow4[Trits] - 1
SourceOperand   == {o \in Operand : InContainer(o) /\ (o.const \/ o.n \in 0 .. FirstTemp - 1)}
SourceVariable  == {o \in SourceOperand : ~o.const}
Gimplified(s) ==
  /\ s.op = "COND_EXPR" => /\ s.kind = "assign" /\ Len(s.args) = 3
                           /\ \A i \in 2 .. 3 : SameLayout(s.lhs.ty, s.args[i].ty)
  /\ s.op \in UnaryCode => Len(s.args) = 1
  /\ s.op \in BinaryCode \cup CompareCode => Len(s.args) = 2
  /\ s.op \in CompareCode => s.lhs.ty \notin Ternary
  /\ s.op = "CONVERT_EXPR" => ~SameLayout(s.lhs.ty, s.args[1].ty)
SourceStmt ==
  {s \in [kind : {"assign", "cond", "builtin", "return"}, op : STRING, suf : {""},
          lhs : SourceVariable, args : Seq(SourceOperand)] : Gimplified(s)}

(* The plugin arguments that set an opt_ flag. *)
Flags == {"warn", "stats", "lower", "arith", "logic", "cmp", "shift", "conv", "mem",
          "types", "vector", "version", "selftest", "trace", "dump-gimple"}

ASSUME PassAssumption ==
  /\ Programs \subseteq Seq(SourceStmt) /\ FirstTemp \in Nat
  /\ OptionSets \subseteq SUBSET Flags

VARIABLES
  opt,              (* the opt_ flags that are set *)
  todo, done,
  decl_cache,       (* select_decl_cache: key -> <<helper, suffix>> or NoDecl *)
  ternary_count, lowered_count, surviving_count,
  temps             (* number of temporaries made *)

vars == <<opt, todo, done, decl_cache, ternary_count, lowered_count, surviving_count, temps>>
counts == <<ternary_count, lowered_count, surviving_count>>

NoDecl == <<"", "none">>
Key    == {"select", "cmp"} \X Type

Init ==
  /\ opt \in OptionSets /\ todo \in Programs
  /\ done = <<>>
  /\ decl_cache = [k \in Key |-> NoDecl]
  /\ ternary_count = 0 /\ lowered_count = 0 /\ surviving_count = 0 /\ temps = 0

-----------------------------------------------------------------------------
(* Constants.  A ternary constant in the source is the integer n, in the   *)
(* output the container with the bits n.                                   *)

(* A trit count whose 3^Trits nears INT64_MAX is taken to fit any value. *)
FitsTrits(v) ==
  \/ \E i \in Idx : Pow3[i] > MaxInt \div 3
  \/ Magnitude(v) <= (Pow3[Trits] - 1) \div 2

(* ternary_pack_constant's and ternary_unpack_constant's loops, as tables. *)
PackedBits  == [v \in CInteger |-> BitsOf(Encode(v))]
UnpackedInt == [n \in 0 .. Pow4[Trits] - 1 |-> Decode(WordOf(n))]

CanPack(v, ty) == ty \in Packable /\ v \in CInteger /\ FitsTrits(v)
PackUnencoded(v, ty) == C(ty, v)
Pack(v, ty) == C(ty, PackedBits[v])
PackConstant(o) == IF o.const /\ CanPack(o.n, o.ty) THEN Pack(o.n, o.ty) ELSE o

Unpacks(o, ty) == o.const /\ ty \in Packable
Logical(o) == UnpackedInt[o.n]

-----------------------------------------------------------------------------
(* Helper declarations. *)
Suffix(ty) == IF ty \in Ternary THEN ty ELSE ""

HelperOf ==
  [PLUS_EXPR |-> "add", MINUS_EXPR |-> "sub", MULT_EXPR |-> "mul",
   TRUNC_DIV_EXPR |-> "div", TRUNC_MOD_EXPR |-> "mod", NEGATE_EXPR |-> "neg",
   BIT_NOT_EXPR |-> "not", BIT_AND_EXPR |-> "and", BIT_IOR_EXPR |-> "or",
   BIT_XOR_EXPR |-> "xor", LSHIFT_EXPR |-> "shl", RSHIFT_EXPR |-> "shr",
   CONVERT_EXPR |-> "tb2t"]

(* The cache key is 0x40000000 | trits, precision << 1 | unsigned or       *)
(* 0x80000000 | precision for a select, by its result type, and            *)
(* 0x50000000 | trits for cmplt, cmpeq, cmpgt and cmpneq alike.            *)
SelectKeyNoSign(ty) == <<"select", IF ty = "u32" THEN "i32" ELSE ty>>
SelectKey(ty)  == <<"select", ty>>
CompareKey(ty) == <<"cmp", ty>>

Cached(key, fresh) == IF decl_cache[key] = NoDecl THEN fresh ELSE decl_cache[key]
SelectDecl(ty) == Cached(SelectKey(ty), <<"select", ty>>)
HasSelectDecl(ty, condTy) == condTy \in Integral /\ ty \in Integral \cup {"f32"}
Remember(key, decl) == decl_cache' = [decl_cache EXCEPT ![key] = decl]

-----------------------------------------------------------------------------
(* Moving on. *)
Current == Head(todo)

StayHere == UNCHANGED <<todo, done>>
Leave ==
  /\ done' = Append(done, [src |-> Current, code |-> <<Current>>])
  /\ todo' = Tail(todo)

Emit(code) ==
  /\ done' = Append(done, [src |-> Current, code |-> code])
  /\ todo' = Tail(todo)

Lowered == lowered_count' = lowered_count + 1
NotCounted == surviving_count' = surviving_count
Survives == surviving_count' = surviving_count + 1

TempReused(ty) == V(ty, FirstTemp)
TempOneLow(ty) == V(ty, FirstTemp + temps - 1)
Temp(ty) == V(ty, FirstTemp + temps)

Assign(lhs, o)    == Stmt("assign", "COPY", "", lhs, <<o>>)
Call(decl, lhs, args) == Stmt("helper", decl[1], decl[2], lhs, args)

-----------------------------------------------------------------------------
(* Assignments whose right-hand side is a COND_EXPR. *)
IsConditional == todo # <<>> /\ Current.kind = "assign" /\ Current.op = "COND_EXPR"

Arm(i) == PackConstant(Current.args[i])     (* cond, true_val and false_val *)
CondKnown == Arm(1).const /\ (Arm(1).ty \in Ternary => Arm(1).ty \in Packable)
CondZeroBits == Arm(1).n = 0
CondZero == IF Arm(1).ty \in Ternary THEN Logical(Arm(1)) = 0 ELSE Arm(1).n = 0

Conditional == IsConditional /\ ternary_count' = ternary_count + 1 /\ UNCHANGED opt

KeepConditional ==
  /\ Conditional /\ "lower" \notin opt
  /\ Leave /\ Survives
  /\ UNCHANGED <<decl_cache, lowered_count, temps>>

FoldConditional ==
  /\ Conditional /\ "lower" \in opt /\ CondKnown
  /\ Emit(<<Assign(Current.lhs, IF CondZero THEN Arm(3) ELSE Arm(2))>>)
  /\ Lowered
  /\ UNCHANGED <<decl_cache, surviving_count, temps>>

MergeEqualArms ==
  /\ Conditional /\ "lower" \in opt /\ ~CondKnown
  /\ Arm(2) = Arm(3)
  /\ Emit(<<Assign(Current.lhs, Arm(2))>>)
  /\ Lowered
  /\ UNCHANGED <<decl_cache, surviving_count, temps>>

(* A ternary condition is decoded first, an integer one converted. *)
DecodeCond ==
  IF Arm(1).ty \in Ternary
  THEN <<Call(<<"tt2b", Arm(1).ty>>, Temp("i64"), <<Arm(1)>>)>>
  ELSE <<>>
CondArgUnconverted == IF Arm(1).ty \in Ternary THEN Temp("i64") ELSE Arm(1)
CondArg == IF Arm(1).ty \in Ternary THEN Temp("i64") ELSE [Arm(1) EXCEPT !.ty = "i64"]

LowerConditional ==
  /\ Conditional /\ "lower" \in opt /\ ~CondKnown /\ Arm(2) # Arm(3)
  /\ HasSelectDecl(Current.lhs.ty, Arm(1).ty)
  /\ Emit(DecodeCond \o <<Call(SelectDecl(Current.lhs.ty), Current.lhs,
                               <<CondArg, Arm(2), Arm(3)>>)>>)
  /\ Remember(SelectKey(Current.lhs.ty), SelectDecl(Current.lhs.ty))
  /\ Lowered
  /\ temps' = temps + Len(DecodeCond)
  /\ UNCHANGED surviving_count

(* No select helper for the type: the decoded condition stays behind. *)
KeepUnsupportedConditional ==
  /\ Conditional /\ "lower" \in opt /\ ~CondKnown /\ Arm(2) # Arm(3)
  /\ ~HasSelectDecl(Current.lhs.ty, Arm(1).ty)
  /\ Emit(DecodeCond \o <<Current>>)
  /\ Survives
  /\ temps' = temps + Len(DecodeCond)
  /\ UNCHANGED <<decl_cache, lowered_count>>

-----------------------------------------------------------------------------
(* Other assignments to a variable of ternary type. *)
TernaryAssign ==
  /\ todo # <<>> /\ Current.kind = "assign" /\ ~IsConditional
  /\ "lower" \in opt /\ Current.lhs.ty \in Ternary
  /\ UNCHANGED <<opt, decl_cache, ternary_count, temps>>

Op     == Current.op
LhsTy  == Current.lhs.ty
Arg(i) == PackConstant(Current.args[i])
Binary == Len(Current.args) = 2
ConstArg(i) == i <= Len(Current.args) /\ Unpacks(Arg(i), LhsTy)

FoldsConversion ==
  Op = "CONVERT_EXPR" /\ Arg(1).const /\ Arg(1).ty \in Integral /\ CanPack(Arg(1).n, LhsTy)

Mixed == \E i \in DOMAIN Current.args : Current.args[i].ty # LhsTy

Folded ==
  LET a == Logical(Arg(1))  b == Logical(Arg(2)) IN
  CASE Op = "NEGATE_EXPR" -> -a
    [] Op = "PLUS_EXPR"  -> Wrap(a + b)
    [] Op = "MINUS_EXPR" -> Wrap(a - b)
    [] Op = "MULT_EXPR"  -> Wrap(a * b)
    [] Op = "TRUNC_DIV_EXPR" -> CDiv(a, b)
    [] Op = "TRUNC_MOD_EXPR" -> CMod(a, b)
FoldsConstants ==
  /\ ConstArg(1)
  /\ \/ Op = "NEGATE_EXPR"
     \/ /\ Op \in {"PLUS_EXPR", "MINUS_EXPR", "MULT_EXPR", "TRUNC_DIV_EXPR", "TRUNC_MOD_EXPR"}
        /\ ConstArg(2)
  /\ CanPack(Folded, LhsTy)

(* a + 0, a - 0, a * 0, a * 1: <<the operand that is the result>>, or <<>>. *)
Simplified ==
  IF ~ConstArg(2) THEN <<>>
  ELSE IF \/ Op \in {"PLUS_EXPR", "MINUS_EXPR"} /\ Logical(Arg(2)) = 0
          \/ Op = "MULT_EXPR" /\ Logical(Arg(2)) = 1
       THEN <<Arg(1)>>
  ELSE IF Op = "MULT_EXPR" /\ Logical(Arg(2)) = 0 THEN <<Arg(2)>>
  ELSE <<>>

FoldConversion ==
  /\ TernaryAssign /\ FoldsConversion
  /\ Emit(<<Assign(Current.lhs, Pack(Arg(1).n, LhsTy))>>)
  /\ Lowered /\ UNCHANGED surviving_count

(* Operands of another type: the statement is left and counted nowhere. *)
LeaveMixed ==
  /\ TernaryAssign /\ ~FoldsConversion /\ Mixed
  /\ Leave /\ UNCHANGED <<lowered_count, surviving_count>>

FoldConstants ==
  /\ TernaryAssign /\ ~FoldsConversion /\ ~Mixed /\ FoldsConstants
  /\ Emit(<<Assign(Current.lhs, Pack(Folded, LhsTy))>>)
  /\ Lowered /\ UNCHANGED surviving_count

Simplify ==
  /\ TernaryAssign /\ ~FoldsConversion /\ ~Mixed /\ ~FoldsConstants /\ Simplified # <<>>
  /\ Emit(<<Assign(Current.lhs, Simplified[1])>>)
  /\ Lowered /\ UNCHANGED surviving_count

NoRewriteYet == ~FoldsConversion /\ ~Mixed /\ ~FoldsConstants /\ Simplified = <<>>

(* The operands are read again from the statement, not packed. *)
LowerOperation ==
  /\ TernaryAssign /\ NoRewriteYet /\ Op \in DOMAIN HelperOf
  /\ Emit(<<Call(<<HelperOf[Op], LhsTy>>, Current.lhs, Current.args)>>)
  /\ Lowered /\ UNCHANGED surviving_count

KeepUnsupported ==
  /\ TernaryAssign /\ NoRewriteYet /\ Op \notin DOMAIN HelperOf
  /\ Leave /\ Survives
  /\ UNCHANGED lowered_count

-----------------------------------------------------------------------------
(* Comparisons, in an assignment or a branch, and conversions to binary.   *)
Compares ==
  /\ todo # <<>> /\ "lower" \in opt
  /\ Current.kind \in {"assign", "cond"} /\ Op \in CompareCode
  /\ LhsTy \notin Ternary
  /\ Current.args[1].ty \in Ternary /\ SameLayout(Current.args[1].ty, Current.args[2].ty)

LowerComparison ==
  /\ Compares
  /\ Emit(<<Call(<<"cmp", Current.args[1].ty>>, Temp("i32"), Current.args),
            [Current EXCEPT !.args = <<Temp("i32"), C("i32", 0)>>]>>)
  /\ Lowered /\ temps' = temps + 1
  /\ UNCHANGED <<opt, decl_cache, ternary_count, surviving_count>>

ConvertsFrom ==
  /\ todo # <<>> /\ "lower" \in opt
  /\ Current.kind = "assign" /\ Op = "CONVERT_EXPR"
  /\ LhsTy \in (Integral \cup {"f32"}) \ Ternary
  /\ Current.args[1].ty \in Ternary

LowerConversion ==
  /\ ConvertsFrom
  /\ Emit(<<Call(<<IF LhsTy \in Integral THEN "tt2b" ELSE "t2f32", Current.args[1].ty>>,
                 Current.lhs, Current.args)>>)
  /\ Lowered
  /\ UNCHANGED <<opt, decl_cache, ternary_count, surviving_count, temps>>

-----------------------------------------------------------------------------
(* Calls of __builtin_ternary_ functions. *)
ArithBuiltin   == {"add", "mul", "sub", "div", "mod", "neg", "select"}
CmpBuiltin     == {"cmp", "eq", "ne", "lt", "le", "gt", "ge"}
TernaryCompare == {"cmplt", "cmpeq", "cmpgt", "cmpneq"}
LogicBuiltin   == {"not", "and", "or", "xor"}
ShiftBuiltin   == {"shl", "shr", "rol", "ror"}
ConvBuiltin    == {"tb2t", "tt2b", "t2f", "f2t"}

Enabled(b) ==
  \/ b \in ArithBuiltin /\ "arith" \in opt
  \/ b \in CmpBuiltin \cup TernaryCompare /\ "cmp" \in opt
  \/ b \in LogicBuiltin /\ "logic" \in opt
  \/ b \in ShiftBuiltin /\ "shift" \in opt
  \/ b \in ConvBuiltin /\ "conv" \in opt
  \/ b = "load" /\ "mem" \in opt

(* The helper a builtin is replaced by, but for the cached declarations. *)
BuiltinDecl ==
  LET arg == Current.args[1].ty IN
  CASE Op \in {"neg", "not"} /\ LhsTy \in Integral -> <<Op, "">>
    [] Op \in {"add", "mul", "sub", "div", "mod", "and", "or", "xor"} \cup ShiftBuiltin
         /\ LhsTy \in Integral -> <<Op, Suffix(LhsTy)>>
    [] Op = "cmp" /\ arg \in Integral -> <<"cmp", Suffix(arg)>>
    [] Op \in CmpBuiltin \ {"cmp"} /\ arg \in Ternary -> <<Op, "">>
    [] Op = "tb2t" /\ LhsTy \in Ternary -> <<"tb2t", LhsTy>>
    [] Op = "tt2b" /\ arg \in Ternary -> <<"tt2b", arg>>
    [] Op = "t2f" /\ LhsTy = "f32" /\ arg \in Ternary -> <<"t2f32", arg>>
    [] Op = "f2t" /\ LhsTy \in Ternary /\ arg = "f32" -> <<"f2t32", LhsTy>>
    [] OTHER -> NoDecl

(* A call whose result is not used (every store) is passed over, as is one *)
(* with another number of arguments than the builtin's.                    *)
Arguments(b) ==
  IF b = "select" THEN 3 ELSE IF b \in {"neg", "not", "load"} \cup ConvBuiltin THEN 1 ELSE 2
CallsBuiltin ==
  /\ Current.kind = "builtin" /\ Current.lhs # NoLhs
  /\ Enabled(Op) /\ Len(Current.args) = Arguments(Op)

Builtin ==
  /\ todo # <<>> /\ CallsBuiltin
  /\ UNCHANGED <<opt, ternary_count, surviving_count, temps>>

LowerBuiltin ==
  /\ Builtin /\ Op \notin TernaryCompare \cup {"select", "load"}
  /\ BuiltinDecl # NoDecl
  /\ Emit(<<Call(BuiltinDecl, Current.lhs, Current.args)>>)
  /\ Lowered
  /\ UNCHANGED decl_cache

LowerTernaryCompare ==
  /\ Builtin /\ Op \in TernaryCompare /\ LhsTy \in Ternary
  /\ LET decl == Cached(CompareKey(LhsTy), <<Op, LhsTy>>) IN
       /\ Emit(<<Call(decl, Current.lhs, Current.args)>>)
       /\ Remember(CompareKey(LhsTy), decl)
  /\ Lowered

LowerBuiltinSelect ==
  /\ Builtin /\ Op = "select" /\ HasSelectDecl(LhsTy, Current.args[1].ty)
  /\ Emit(<<Call(SelectDecl(LhsTy), Current.lhs, Current.args)>>)
  /\ Remember(SelectKey(LhsTy), SelectDecl(LhsTy))
  /\ Lowered

(* The code sets the right-hand side of the call statement as if it were an *)
(* assignment; the statement is taken to become that assignment.           *)
LowerLoad ==
  /\ Builtin /\ Op = "load"
  /\ Emit(<<Stmt("assign", "MEM_REF", "", Current.lhs, Current.args)>>)
  /\ Lowered
  /\ UNCHANGED decl_cache

-----------------------------------------------------------------------------
(* Statements no branch of the body rewrites. *)
LowersBuiltin ==
  /\ CallsBuiltin
  /\ CASE Op \in TernaryCompare -> LhsTy \in Ternary
       [] Op = "select" -> HasSelectDecl(LhsTy, Current.args[1].ty)
       [] Op = "load"   -> TRUE
       [] OTHER -> BuiltinDecl # NoDecl

PassOver ==
  /\ todo # <<>> /\ ~IsConditional
  /\ ~("lower" \in opt /\ Current.kind = "assign" /\ LhsTy \in Ternary)
  /\ ~Compares /\ ~ConvertsFrom /\ ~LowersBuiltin
  /\ Leave
  /\ UNCHANGED <<opt, decl_cache, counts, temps>>

Next ==
  \/ KeepConditional \/ FoldConditional \/ MergeEqualArms
  \/ LowerConditional \/ KeepUnsupportedConditional
  \/ FoldConversion \/ LeaveMixed \/ FoldConstants \/ Simplify
  \/ LowerOperation \/ KeepUnsupported
  \/ LowerComparison \/ LowerConversion
  \/ LowerBuiltin \/ LowerTernaryCompare \/ LowerBuiltinSelect \/ LowerLoad
  \/ PassOver

Spec == Init /\ [][Next]_vars
FairSpec == Spec /\ WF_vars(Next)
=============================================================================
