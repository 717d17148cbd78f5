--------------------------- MODULE ToolchainProofs ---------------------------
(***************************************************************************)
(* The compilation of a unit, for every unit, list of arguments and trit   *)
(* count:                                                                  *)
(*   - ReportMatchesUnit: what is passed, what is left of the function and *)
(*     the functions to come are the unit (Covered);                       *)
(*   - ImplementsPass: the first step of a walk is the first of the walk   *)
(*     over the rest, and reads no other statement (SameStep);             *)
(*   - HelpersDefined: the cache holds helpers of the ABI (CallInv);       *)
(*   - OperandsFit: the statements still to come are as their prototypes   *)
(*     have them, and the cache holds a comparison of the size (FitInv);   *)
(*   - LinkedMeaning: of the calls the code left for a statement makes, at *)
(*     most one has several bodies, and it reads words of the source       *)
(*     (LinkInv);                                                          *)
(*   - LinkedProgram: the linked code of the statements so far agrees with *)
(*     the source, and every ternary variable holds a word                 *)
(*     (LinkedProgramInv);                                                 *)
(*   - NestedExpressions: which operators a step leaves is decided by the  *)
(*     types the pass sees of their operands and result (DecidedInv).      *)
(***************************************************************************)
EXTENDS ToolchainLink, TernaryPassProofs, HelperProofs

-----------------------------------------------------------------------------
(* What the pass sees of a function. *)
SeenStatement(s, uids) ==
  [s EXCEPT !.lhs = Known(s.lhs, uids),
            !.args = [k \in DOMAIN s.args |-> Known(s.args[k], uids)]]

LEMMA SeenIs ==
  ASSUME NEW fn, NEW uids
  PROVE  Seen(fn, uids) = [i \in DOMAIN fn |-> SeenStatement(fn[i], uids)]
  BY DEF Seen, SeenStatement

LEMMA KnownTyped ==
  ASSUME NEW uids
  PROVE  /\ \A o \in SourceOperand : Known(o, uids) \in SourceOperand
         /\ \A o \in SourceVariable : Known(o, uids) \in SourceVariable
         /\ \A o : SameLayout(o.ty, Known(o, uids).ty)
<1>1. ASSUME NEW o \in SourceOperand
      PROVE  Known(o, uids) \in SourceOperand /\ Known(o, uids).const = o.const
  <2>1. o \in Operand /\ InContainer(o) /\ (o.const \/ o.n \in 0 .. FirstTemp - 1)
    BY DEF SourceOperand
  <2>2. CASE Known(o, uids) = o
    BY <2>2
  <2>3. CASE Known(o, uids) = [o EXCEPT !.ty = "u64"] /\ ~o.const
    BY <2>1, <2>3 DEF SourceOperand, Operand, InContainer, Type
  <2> QED
    BY <2>2, <2>3 DEF Known
<1>2. \A o : Known(o, uids).ty = o.ty \/ (o.ty = "t32" /\ Known(o, uids).ty = "u64")
  BY DEF Known
<1> QED
  BY <1>1, <1>2 DEF SourceVariable, SameLayout

LEMMA LayoutClass ==
  ASSUME NEW a, NEW b, NEW c, NEW d, SameLayout(a, c), SameLayout(b, d)
  PROVE  SameLayout(a, b) <=> SameLayout(c, d)
BY DEF SameLayout

LEMMA SeenType ==
  ASSUME NEW fn \in Seq(SourceStmt), NEW uids
  PROVE  Seen(fn, uids) \in Seq(SourceStmt)
<1>1. ASSUME NEW s \in SourceStmt PROVE SeenStatement(s, uids) \in SourceStmt
  <2> DEFINE more == [k \in DOMAIN s.args |-> Known(s.args[k], uids)]
  <2>1. s.args \in Seq(SourceOperand) /\ s.lhs \in SourceVariable
    BY DEF SourceStmt
  <2>2. more \in Seq(SourceOperand) /\ Len(more) = Len(s.args)
    BY <2>1, KnownTyped
  <2>3. Known(s.lhs, uids) \in SourceVariable
    BY <2>1, KnownTyped
  <2>4. \A k \in DOMAIN s.args : more[k] = Known(s.args[k], uids)
    OBVIOUS
  <2> HIDE DEF more
  <2> DEFINE seen == SeenStatement(s, uids)
  <2>5. /\ seen.op = s.op /\ seen.kind = s.kind /\ seen.suf = s.suf
        /\ seen.lhs = Known(s.lhs, uids) /\ seen.args = more
        /\ seen \in [kind : {"assign", "cond", "builtin", "return"}, op : STRING, suf : {""},
                     lhs : SourceVariable, args : Seq(SourceOperand)]
    BY <2>2, <2>3 DEF SourceStmt, SeenStatement, more
  <2> HIDE DEF seen
  <2>6. SameLayout(s.lhs.ty, seen.lhs.ty)
    BY <2>5, KnownTyped
  <2>7. DOMAIN s.args = 1 .. Len(s.args)
    BY <2>1
  <2>8. \A k \in 1 .. Len(s.args) : SameLayout(s.args[k].ty, seen.args[k].ty)
    <3>1. \A k \in 1 .. Len(s.args) : seen.args[k] = Known(s.args[k], uids)
      BY <2>4, <2>5, <2>7
    <3> QED
      BY <3>1, KnownTyped
  <2>9. \A k \in 1 .. Len(s.args) :
          SameLayout(s.lhs.ty, s.args[k].ty) <=> SameLayout(seen.lhs.ty, seen.args[k].ty)
    BY <2>6, <2>8, LayoutClass
  <2>10. Gimplified(s) /\ Len(seen.args) = Len(s.args)
    BY <2>2, <2>5 DEF SourceStmt
  <2>11. seen.op = "COND_EXPR" =>
           /\ seen.kind = "assign" /\ Len(seen.args) = 3
           /\ \A i \in 2 .. 3 : SameLayout(seen.lhs.ty, seen.args[i].ty)
    <3> SUFFICES ASSUME seen.op = "COND_EXPR"
                 PROVE  /\ seen.kind = "assign" /\ Len(seen.args) = 3
                        /\ \A i \in 2 .. 3 : SameLayout(seen.lhs.ty, seen.args[i].ty)
      OBVIOUS
    <3>1. /\ s.kind = "assign" /\ Len(s.args) = 3
          /\ \A i \in 2 .. 3 : SameLayout(s.lhs.ty, s.args[i].ty)
      BY <2>5, <2>10 DEF Gimplified
    <3>2. \A i \in 2 .. 3 : i \in 1 .. Len(s.args)
      BY <3>1
    <3> QED
      BY <2>5, <2>9, <2>10, <3>1, <3>2
  <2>12. seen.op = "CONVERT_EXPR" => ~SameLayout(seen.lhs.ty, seen.args[1].ty)
    <3> SUFFICES ASSUME seen.op = "CONVERT_EXPR"
                 PROVE  ~SameLayout(seen.lhs.ty, seen.args[1].ty)
      OBVIOUS
    <3>1. Len(s.args) = 1 /\ ~SameLayout(s.lhs.ty, s.args[1].ty)
      BY <2>5, <2>10 DEF Gimplified, UnaryCode
    <3>2. 1 \in 1 .. Len(s.args)
      BY <3>1
    <3> QED
      BY <2>9, <3>1, <3>2
  <2>13. /\ seen.op \in UnaryCode => Len(seen.args) = 1
         /\ seen.op \in BinaryCode \cup CompareCode => Len(seen.args) = 2
    BY <2>5, <2>10 DEF Gimplified
  <2>14. seen.op \in CompareCode => seen.lhs.ty \notin Ternary
    <3>1. s.op \in CompareCode => s.lhs.ty \notin Ternary
      BY <2>10 DEF Gimplified
    <3>2. seen.lhs.ty \in Ternary => s.lhs.ty \in Ternary
      BY <2>1, <2>5 DEF Known, Ternary, SourceVariable, SourceOperand, Operand
    <3> QED
      BY <2>5, <3>1, <3>2
  <2>15. Gimplified(seen)
    BY <2>11, <2>12, <2>13, <2>14 DEF Gimplified
  <2> QED
    BY <2>5, <2>15 DEF SourceStmt, seen
<1>2. [i \in DOMAIN fn |-> SeenStatement(fn[i], uids)] \in Seq(SourceStmt)
  BY <1>1
<1> QED
  BY <1>2, SeenIs

LEMMA SeenConcat ==
  ASSUME NEW S, NEW f \in Seq(S), NEW g \in Seq(S), NEW uids
  PROVE  Seen(f \o g, uids) = Seen(f, uids) \o Seen(g, uids)
<1> DEFINE T == {SeenStatement(s, uids) : s \in S}
           F(h) == [i \in DOMAIN h |-> SeenStatement(h[i], uids)]
<1>1. \A s \in S : SeenStatement(s, uids) \in T
  OBVIOUS
<1> HIDE DEF T
<1>2. \A h \in Seq(S) : /\ F(h) \in Seq(T) /\ Len(F(h)) = Len(h)
                        /\ \A i \in 1 .. Len(h) : F(h)[i] = SeenStatement(h[i], uids)
  BY <1>1
<1> DEFINE fg == f \o g
<1>3. /\ fg \in Seq(S) /\ Len(fg) = Len(f) + Len(g) /\ Len(f) \in Nat /\ Len(g) \in Nat
      /\ \A i \in 1 .. Len(f) + Len(g) : fg[i] = IF i <= Len(f) THEN f[i] ELSE g[i - Len(f)]
  BY ConcatProperties
<1> HIDE DEF F, fg
<1>4. /\ F(fg) \in Seq(T) /\ Len(F(fg)) = Len(f) + Len(g)
      /\ F(f) \in Seq(T) /\ Len(F(f)) = Len(f)
      /\ F(g) \in Seq(T) /\ Len(F(g)) = Len(g)
      /\ \A i \in 1 .. Len(f) + Len(g) : F(fg)[i] = SeenStatement(fg[i], uids)
  BY <1>2, <1>3
<1>5. /\ F(f) \o F(g) \in Seq(T) /\ Len(F(f) \o F(g)) = Len(f) + Len(g)
      /\ \A i \in 1 .. Len(f) + Len(g) :
           (F(f) \o F(g))[i] = IF i <= Len(f) THEN F(f)[i] ELSE F(g)[i - Len(f)]
  BY <1>4, ConcatProperties
<1>6. ASSUME NEW i \in 1 .. Len(f) + Len(g)
      PROVE  F(fg)[i] = (F(f) \o F(g))[i]
  <2>1. F(fg)[i] = SeenStatement(fg[i], uids)
    BY <1>4
  <2>2. CASE i <= Len(f)
    BY <2>1, <2>2, <1>2, <1>3, <1>5
  <2>3. CASE ~(i <= Len(f))
    <3>1. i - Len(f) \in 1 .. Len(g)
      BY <2>3, <1>3
    <3> QED
      BY <2>1, <2>3, <3>1, <1>2, <1>3, <1>5
  <2> QED
    BY <2>2, <2>3
<1>7. F(fg) = F(f) \o F(g)
  BY <1>4, <1>5, <1>6, SeqEqual
<1> QED
  BY <1>7, SeenIs DEF F, fg

-----------------------------------------------------------------------------
(* The statements of the functions from the n-th on. *)
Ahead(m, n, uids) == Seen(FlattenSeq(SubSeq(m, n, Len(m))), uids)

LEMMA AheadIs ==
  ASSUME NEW m \in Seq(Seq(SourceStmt)), NEW uids
  PROVE  /\ Ahead(m, 1, uids) = Seen(FlattenSeq(m), uids)
         /\ Ahead(m, Len(m) + 1, uids) = <<>>
         /\ \A n \in 1 .. Len(m) + 1 : Ahead(m, n, uids) \in Seq(SourceStmt)
         /\ \A n \in 1 .. Len(m) :
              /\ m[n] \in Seq(SourceStmt)
              /\ Ahead(m, n, uids) = Seen(m[n], uids) \o Ahead(m, n + 1, uids)
<1>1. Ahead(m, 1, uids) = Seen(FlattenSeq(m), uids)
  BY SubSeqFull DEF Ahead
<1>2. Ahead(m, Len(m) + 1, uids) = <<>>
  <2>1. SubSeq(m, Len(m) + 1, Len(m)) = <<>>
    BY SubSeqEmpty
  <2>2. FlattenSeq(<<>>) = <<>>
    BY DEF FlattenSeq
  <2>3. Seen(<<>>, uids) = <<>>
    BY DEF Seen
  <2> QED
    BY <2>1, <2>2, <2>3 DEF Ahead
<1>3. \A n \in 1 .. Len(m) + 1 : SubSeq(m, n, Len(m)) \in Seq(Seq(SourceStmt))
  BY SubSeqProperties
<1>4. ASSUME NEW n \in 1 .. Len(m) + 1
      PROVE  Ahead(m, n, uids) \in Seq(SourceStmt)
  BY <1>3, FlattenType, SeenType DEF Ahead
<1>5. ASSUME NEW n \in 1 .. Len(m)
      PROVE  /\ m[n] \in Seq(SourceStmt)
             /\ Ahead(m, n, uids) = Seen(m[n], uids) \o Ahead(m, n + 1, uids)
  <2> DEFINE rest == SubSeq(m, n + 1, Len(m))
  <2>1. m[n] \in Seq(SourceStmt) /\ n + 1 \in 1 .. Len(m) + 1 /\ Len(m) \in n .. Len(m)
    OBVIOUS
  <2>2. rest \in Seq(Seq(SourceStmt))
    BY <2>1, <1>3
  <2>3. SubSeq(m, n, Len(m)) = <<m[n]>> \o rest
    BY <2>1, SubSeqRecursiveFirst
  <2> HIDE DEF rest
  <2>4. FlattenSeq(<<m[n]>> \o rest) = m[n] \o FlattenSeq(rest)
    BY <2>1, <2>2, FlattenPrepend
  <2>5. FlattenSeq(rest) \in Seq(SourceStmt)
    BY <2>2, FlattenType
  <2>6. Seen(m[n] \o FlattenSeq(rest), uids) = Seen(m[n], uids) \o Seen(FlattenSeq(rest), uids)
    <3>1. \A f, g \in Seq(SourceStmt) : Seen(f \o g, uids) = Seen(f, uids) \o Seen(g, uids)
      BY SeenConcat
    <3> QED
      BY <2>1, <2>5, <3>1
  <2> QED
    BY <2>1, <2>3, <2>4, <2>6 DEF Ahead, rest
<1> QED
  BY <1>1, <1>2, <1>4, <1>5

-----------------------------------------------------------------------------
(* The statement the pass deals with joins those it has passed. *)
PassedOf(d) == [i \in DOMAIN d |-> d[i].src]

LEMMA WalkOne ==
  ASSUME IsSequence(done), todo \in Seq(SourceStmt), todo # <<>>, NEW code, Emit(code),
         PassedOf(done) \in Seq(SourceStmt), NEW rest \in Seq(SourceStmt)
  PROVE  /\ IsSequence(done') /\ PassedOf(done') \in Seq(SourceStmt)
         /\ PassedOf(done') \o (todo' \o rest) = PassedOf(done) \o (todo \o rest)
<1> DEFINE g == [src |-> Current, code |-> code]
           S == {done[i] : i \in DOMAIN done} \cup {g}
<1>1. /\ done' = Append(done, g) /\ todo' = Tail(todo) /\ g.src = Current
      /\ Current \in SourceStmt /\ Tail(todo) \in Seq(SourceStmt)
  BY DEF Emit, Current
<1>2. done \in Seq(S) /\ g \in S
  BY DEF IsSequence
<1> HIDE DEF S, g
<1>3. /\ done' \in Seq(S) /\ DOMAIN done = 1 .. Len(done) /\ Len(done) \in Nat
      /\ DOMAIN done' = 1 .. Len(done) + 1 /\ Len(done') = Len(done) + 1
      /\ \A i \in 1 .. Len(done) : done'[i] = done[i]
      /\ done'[Len(done) + 1] = g
  BY <1>1, <1>2
<1>4. PassedOf(done') = Append(PassedOf(done), Current)
  <2> DEFINE d == PassedOf(done)
             e == PassedOf(done')
  <2>1. Len(d) = Len(done)
    BY <1>3 DEF PassedOf
  <2>2. /\ Append(d, Current) \in Seq(SourceStmt) /\ Len(Append(d, Current)) = Len(done) + 1
        /\ \A i \in 1 .. Len(done) : Append(d, Current)[i] = d[i]
        /\ Append(d, Current)[Len(done) + 1] = Current
    <3> HIDE DEF d
    <3> QED BY <1>1, <2>1 DEF d
  <2>3. /\ \A i \in 1 .. Len(done) : e[i] = d[i]
        /\ e[Len(done) + 1] = Current
        /\ DOMAIN e = 1 .. Len(done) + 1
    BY <1>1, <1>3 DEF PassedOf
  <2>4. e = [i \in 1 .. Len(done) + 1 |-> e[i]]
    BY <1>3 DEF PassedOf
  <2> HIDE DEF d, e
  <2>5. \A i \in 1 .. Len(done) + 1 : e[i] = Append(d, Current)[i] /\ e[i] \in SourceStmt
    <3>1. \A i \in 1 .. Len(done) + 1 : i \in 1 .. Len(done) \/ i = Len(done) + 1
      BY <1>3
    <3>2. \A i \in 1 .. Len(done) + 1 : Append(d, Current)[i] \in SourceStmt
      BY <2>2
    <3> QED
      BY <2>2, <2>3, <3>1, <3>2
  <2>6. e \in Seq(SourceStmt) /\ Len(e) = Len(done) + 1
    BY <2>4, <2>5, <1>3
  <2>7. e = Append(d, Current)
    BY <2>2, <2>5, <2>6, SeqEqual
  <2> QED
    BY <2>7 DEF d, e
<1>5. Append(PassedOf(done), Head(todo)) \o (Tail(todo) \o rest) = PassedOf(done) \o (todo \o rest)
  BY MoveHead, SMTT(30)
<1>6. IsSequence(done')
  BY <1>3, AnySequence
<1>7. Append(PassedOf(done), Current) \in Seq(SourceStmt)
  BY <1>1
<1>8. Current = Head(todo)
  BY DEF Current
<1> HIDE DEF PassedOf
<1> QED
  BY <1>1, <1>4, <1>5, <1>6, <1>7, <1>8, Zenon

-----------------------------------------------------------------------------
(* The stages: what is known of the arguments, the unit and the report.    *)
Stages ==
  /\ unit \in Seq(Seq(SourceStmt)) /\ next \in 1 .. Len(unit) + 1
  /\ args \in Seq([key : STRING, value : STRING])
  /\ stage \in {"load", "args", "compile", "finished", "refused"}
  /\ stage \in {"load", "args", "refused"} => next = 1 /\ done = <<>> /\ todo = <<>>
  /\ stage \in {"compile", "finished"} => args = <<>> /\ type_uids = Registered(opt)
  /\ stage = "finished" =>
       /\ todo = <<>> /\ next = Len(unit) + 1
       /\ "stats" \in opt => stats = counts

(* What is passed, what is left of the function and the functions to come  *)
(* are the unit.                                                           *)
Covered ==
  /\ PassedOf(done) \in Seq(SourceStmt)
  /\ stage \in {"compile", "finished"} =>
       PassedOf(done) \o (todo \o Ahead(unit, next, type_uids))
         = Seen(FlattenSeq(unit), type_uids)

ToolInv == Stages /\ Covered /\ IInv /\ CountInv

LEMMA InitToolInv == ToolInit => ToolInv
<1> SUFFICES ASSUME ToolInit PROVE ToolInv
  OBVIOUS
<1>1. Stages
  BY ToolAssumption DEF ToolInit, Stages
<1>2. Covered
  <2>1. PassedOf(<<>>) = <<>> /\ <<>> \in Seq(SourceStmt)
    BY DEF PassedOf
  <2>2. done = <<>> /\ stage = "load"
    BY DEF ToolInit
  <2> QED
    BY <2>1, <2>2 DEF Covered
<1>3. IInv
  <2>1. todo \in Seq(SourceStmt)
    BY DEF ToolInit
  <2>2. IsSequence(done) /\ SelectsOwnType
    BY DEF ToolInit, IsSequence, SelectsOwnType
  <2>3. CacheOwn
    BY DEF ToolInit, CacheOwn, Key, SelectKey, CompareKey, NoDecl
  <2> QED
    BY <2>1, <2>2, <2>3 DEF IInv
<1>4. CountInv
  <2>1. /\ {i \in DOMAIN done : Rewritten(done[i])} = {}
        /\ {i \in DOMAIN done : done[i].src.op = "COND_EXPR"} = {}
    BY DEF ToolInit
  <2> QED
    BY <2>1, FS_EmptySet DEF ToolInit, CountInv, CountsMatchCode
<1> QED
  BY <1>1, <1>2, <1>3, <1>4 DEF ToolInv

(* Steps outside the functions leave the pass's state alone. *)
LEMMA PassKept ==
  ASSUME IInv, CountInv, UNCHANGED <<todo, done, decl_cache, counts, temps>>
  PROVE  IInv' /\ CountInv'
<1>1. IInv'
  BY DEF IInv, CacheOwn, SelectsOwnType
<1>2. CountInv'
  BY DEF CountInv, CountsMatchCode, counts
<1> QED
  BY <1>1, <1>2

LEMMA OptKept == Next => UNCHANGED opt
  BY DEF Next, KeepConditional, FoldConditional, MergeEqualArms, LowerConditional,
         KeepUnsupportedConditional, Conditional, FoldConversion, LeaveMixed,
         FoldConstants, Simplify, LowerOperation, KeepUnsupported, TernaryAssign,
         LowerComparison, LowerConversion, LowerBuiltin,
         LowerTernaryCompare, LowerBuiltinSelect, LowerLoad, Builtin, PassOver

LEMMA StepToolInv == ToolInv /\ [ToolNext]_toolVars => ToolInv'
<1> SUFFICES ASSUME ToolInv, [ToolNext]_toolVars PROVE ToolInv'
  OBVIOUS
<1> USE DEF ToolInv
<1>1. CASE Load
  <2>1. Stages'
    BY <1>1 DEF Load, Stages, vars
  <2>2. Covered'
    BY <1>1 DEF Load, Covered, vars, PassedOf
  <2> QED
    BY <1>1, <2>1, <2>2, PassKept DEF Load, vars, counts
<1>2. CASE Refuse
  <2>1. Stages'
    BY <1>2 DEF Refuse, Stages, vars
  <2>2. Covered'
    BY <1>2 DEF Refuse, Covered, vars, PassedOf
  <2> QED
    BY <1>2, <2>1, <2>2, PassKept DEF Refuse, vars, counts
<1>3. CASE ParseArg
  <2>1. Stages'
    <3>1. /\ stage = "args" /\ args # <<>> /\ args' = Tail(args)
          /\ UNCHANGED <<todo, done, stage, type_uids, unit, next, stats>>
      BY <1>3 DEF ParseArg
    <3>2. args' \in Seq([key : STRING, value : STRING])
      BY <3>1 DEF Stages
    <3> QED
      BY <3>1, <3>2 DEF Stages
  <2>2. Covered'
    BY <1>3 DEF ParseArg, Covered, PassedOf
  <2> QED
    BY <1>3, <2>1, <2>2, PassKept DEF ParseArg, static
<1>4. CASE StartUnit
  <2>1. Stages'
    BY <1>4 DEF StartUnit, Stages, vars
  <2>2. Covered'
    <3>1. todo = <<>> /\ done = <<>> /\ next = 1
      BY <1>4 DEF StartUnit, Stages
    <3>2. Ahead(unit, 1, type_uids') \in Seq(SourceStmt)
          /\ Ahead(unit, 1, type_uids') = Seen(FlattenSeq(unit), type_uids')
      BY AheadIs DEF Stages
    <3>3. PassedOf(<<>>) = <<>>
      BY DEF PassedOf
    <3>4. <<>> \o (<<>> \o Ahead(unit, 1, type_uids')) = Ahead(unit, 1, type_uids')
      BY <3>2
    <3>5. UNCHANGED <<todo, done, next, unit>>
      BY <1>4 DEF StartUnit, vars
    <3> QED
      BY <3>1, <3>2, <3>3, <3>4, <3>5 DEF Covered
  <2> QED
    BY <1>4, <2>1, <2>2, PassKept DEF StartUnit, vars, counts
<1>5. CASE EnterFunction
  <2>1. todo = <<>> /\ stage = "compile" /\ next \in 1 .. Len(unit) /\ unit \in Seq(Seq(SourceStmt))
    BY <1>5 DEF EnterFunction, Between, Stages
  <2>2. todo' = Seen(unit[next], type_uids) /\ next' = next + 1
        /\ UNCHANGED <<opt, done, static, stage, args, type_uids, unit, stats>>
    BY <1>5 DEF EnterFunction
  <2>3. unit[next] \in Seq(SourceStmt) /\ todo' \in Seq(SourceStmt)
    BY <2>1, <2>2, SeenType
  <2>4. Stages'
    BY <2>1, <2>2 DEF Stages
  <2>5. Covered'
    <3>1. /\ Ahead(unit, next, type_uids) = todo' \o Ahead(unit, next + 1, type_uids)
          /\ Ahead(unit, next, type_uids) \in Seq(SourceStmt)
      <4>1. /\ \A n \in 1 .. Len(unit) :
                 Ahead(unit, n, type_uids) = Seen(unit[n], type_uids) \o Ahead(unit, n + 1, type_uids)
            /\ \A n \in 1 .. Len(unit) + 1 : Ahead(unit, n, type_uids) \in Seq(SourceStmt)
        BY <2>1, AheadIs
      <4> QED
        BY <2>1, <2>2, <4>1
    <3>2. <<>> \o Ahead(unit, next, type_uids) = Ahead(unit, next, type_uids)
      BY <3>1
    <3> QED
      BY <2>1, <2>2, <3>1, <3>2 DEF Covered
  <2>6. IInv'
    BY <2>2, <2>3 DEF IInv, CacheOwn, SelectsOwnType, static
  <2>7. CountInv'
    BY <2>2 DEF CountInv, CountsMatchCode, static, counts
  <2> QED
    BY <2>4, <2>5, <2>6, <2>7
<1>6. CASE PassStep
  <2>1. stage = "compile" /\ Next /\ UNCHANGED <<stage, args, type_uids, unit, next, stats>>
    BY <1>6 DEF PassStep
  <2>2. PICK code : Emit(code) /\ todo # <<>>
    BY <2>1, StepCounted DEF IInv, CountInv
  <2>3. UNCHANGED opt
    BY <2>1, OptKept
  <2>4. Stages'
    BY <2>1, <2>3 DEF Stages
  <2>5. Covered'
    <3> DEFINE rest == Ahead(unit, next, type_uids)
    <3>1. rest \in Seq(SourceStmt)
      BY AheadIs DEF Stages
    <3> HIDE DEF rest
    <3>2. /\ PassedOf(done') \in Seq(SourceStmt)
          /\ PassedOf(done') \o (todo' \o rest) = PassedOf(done) \o (todo \o rest)
      BY <2>2, <3>1, WalkOne DEF IInv, Covered
    <3> QED
      BY <2>1, <3>2 DEF Covered, rest
  <2>6. IInv' /\ CountInv'
    BY <2>1, StepIInv, StepCounts
  <2> QED
    BY <2>4, <2>5, <2>6
<1>7. CASE FinishUnit
  <2>1. Stages'
    BY <1>7 DEF FinishUnit, Between, Stages, vars, counts
  <2>2. Covered'
    BY <1>7 DEF FinishUnit, Between, Covered, vars, PassedOf
  <2> QED
    BY <1>7, <2>1, <2>2, PassKept DEF FinishUnit, vars, counts
<1>8. CASE UNCHANGED toolVars
  <2>1. Stages'
    BY <1>8 DEF toolVars, Stages, vars, counts
  <2>2. Covered'
    BY <1>8 DEF toolVars, Covered, vars, PassedOf
  <2> QED
    BY <1>8, <2>1, <2>2, PassKept DEF toolVars, vars, counts
<1> QED
  BY <1>1, <1>2, <1>3, <1>4, <1>5, <1>6, <1>7, <1>8 DEF ToolNext

(* At the end nothing is left of the unit. *)
LEMMA FinishedCovers ==
  ASSUME ToolInv, stage = "finished"
  PROVE  PassedOf(done) = Seen(FlattenSeq(unit), type_uids)
<1>1. /\ todo = <<>> /\ Ahead(unit, next, type_uids) = <<>>
      /\ PassedOf(done) \in Seq(SourceStmt)
      /\ PassedOf(done) \o (todo \o Ahead(unit, next, type_uids))
           = Seen(FlattenSeq(unit), type_uids)
  BY AheadIs DEF ToolInv, Stages, Covered
<1>2. \A s \in Seq(SourceStmt) : s \o (<<>> \o <<>>) = s
  OBVIOUS
<1> QED
  BY <1>1, <1>2

(* The report of a finished compilation covers every statement of every    *)
(* function of the unit, and its numbers are those of the code.            *)
THEOREM ToolchainReports == ToolSpec => []ReportMatchesUnit
<1>1. ToolInit => ToolInv
  BY InitToolInv
<1>2. ToolInv /\ [ToolNext]_toolVars => ToolInv'
  BY StepToolInv
<1>3. ToolInv => ReportMatchesUnit
  <2> SUFFICES ASSUME ToolInv, stage = "finished"
               PROVE  /\ PassedOf(done) = Seen(FlattenSeq(unit), type_uids)
                      /\ "stats" \in opt =>
                           /\ stats[1] = Cardinality({i \in DOMAIN done : done[i].src.op = "COND_EXPR"})
                           /\ stats[2] = Cardinality({i \in DOMAIN done : Rewritten(done[i])})
    BY DEF ReportMatchesUnit, PassedOf
  <2>1. PassedOf(done) = Seen(FlattenSeq(unit), type_uids)
    BY FinishedCovers
  <2>2. ASSUME "stats" \in opt PROVE stats = counts
    BY <2>2 DEF ToolInv, Stages
  <2> QED
    BY <2>1, <2>2 DEF ToolInv, CountInv, CountsMatchCode, counts
<1> QED
  BY <1>1, <1>2, <1>3, PTL DEF ToolSpec

-----------------------------------------------------------------------------
(* The walk over the whole unit.  Walk is TernaryPass with two constants   *)
(* and two variables replaced: what it defines from the rest is the same.  *)
LEMMA SameNumbers ==
  /\ Walk!PackedBits = PackedBits /\ Walk!UnpackedInt = UnpackedInt
  /\ Walk!CInteger = CInteger
  /\ \A v : Walk!FitsTrits(v) <=> FitsTrits(v)
  /\ \A v : Walk!Wrap(v) = Wrap(v)
  /\ \A v, w : Walk!CDiv(v, w) = CDiv(v, w) /\ Walk!CMod(v, w) = CMod(v, w)
<1>1. Walk!PackedBits = PackedBits
  BY DEF Walk!PackedBits, PackedBits, Walk!CInteger, CInteger, Walk!MinInt, MinInt,
         Walk!BitsOf, BitsOf, Walk!Pow4, Pow4, Walk!Encode, Encode,
         Walk!EncodeDigit, EncodeDigit, Walk!EncodeCarry, EncodeCarry, Walk!FromTrits, FromTrits,
         Walk!CRem, CRem, Walk!CQuot, CQuot, Walk!TritToBits, TritToBits, Walk!Idx, Idx
<1>2. Walk!UnpackedInt = UnpackedInt
  BY DEF Walk!UnpackedInt, UnpackedInt, Walk!Pow4, Pow4, Walk!WordOf, WordOf,
         Walk!CodeAt, CodeAt, Walk!Decode, Decode, Walk!GetTrit, GetTrit,
         Walk!BitsToTrit, BitsToTrit, Walk!Wrap, Wrap, Walk!WrapTo, WrapTo, Walk!Idx, Idx
<1>3. Walk!CInteger = CInteger
  BY DEF Walk!CInteger, CInteger, Walk!MinInt, MinInt
<1>4. \A v : Walk!FitsTrits(v) <=> FitsTrits(v)
  BY DEF Walk!FitsTrits, FitsTrits, Walk!Idx, Idx, Walk!Magnitude, Magnitude, Walk!Pow3, Pow3
<1>5. \A v : Walk!Wrap(v) = Wrap(v)
  BY DEF Walk!Wrap, Wrap, Walk!WrapTo, WrapTo
<1>6. \A v, w : Walk!CDiv(v, w) = CDiv(v, w) /\ Walk!CMod(v, w) = CMod(v, w)
  BY DEF Walk!CDiv, CDiv, Walk!CMod, CMod, Walk!CQuot, CQuot, Walk!CRem, CRem,
         Walk!Magnitude, Magnitude, Walk!Pow3, Pow3
<1> QED
  BY <1>1, <1>2, <1>3, <1>4, <1>5, <1>6

LEMMA SameConstants ==
  /\ \A v, ty : Walk!CanPack(v, ty) <=> CanPack(v, ty)
  /\ \A v, ty : Walk!Pack(v, ty) = Pack(v, ty)
  /\ \A o : Walk!PackConstant(o) = PackConstant(o)
  /\ \A o : Walk!Logical(o) = Logical(o)
  /\ \A o, ty : Walk!Unpacks(o, ty) <=> Unpacks(o, ty)
<1>1. \A v, ty : Walk!CanPack(v, ty) <=> CanPack(v, ty)
  BY SameNumbers DEF Walk!CanPack, CanPack, Walk!Packable, Packable
<1>2. \A v, ty : Walk!Pack(v, ty) = Pack(v, ty)
  BY SameNumbers DEF Walk!Pack, Pack, Walk!C, C
<1>3. \A o : Walk!PackConstant(o) = PackConstant(o)
  BY <1>1, <1>2 DEF Walk!PackConstant, PackConstant
<1>4. \A o : Walk!Logical(o) = Logical(o)
  BY SameNumbers DEF Walk!Logical, Logical
<1>5. \A o, ty : Walk!Unpacks(o, ty) <=> Unpacks(o, ty)
  BY DEF Walk!Unpacks, Unpacks, Walk!Packable, Packable
<1> QED
  BY <1>1, <1>2, <1>3, <1>4, <1>5

(* The flags and the statements of the walk.  While the pass runs they are *)
(* its own flags, and its own statements with more behind them.            *)
WalkOpt == opt \cup FlagsOf(args)
WalkTodo == todo \o Seen(FlattenSeq(SubSeq(unit, next, Len(unit))), Registered(WalkOpt))

LEMMA SameStatement ==
  ASSUME WalkOpt = opt, WalkTodo # <<>>, todo # <<>>, Head(WalkTodo) = Head(todo)
  PROVE  /\ Walk!Current = Current /\ Walk!Op = Op /\ Walk!LhsTy = LhsTy
         /\ \A i : Walk!Arm(i) = Arm(i)
         /\ \A i : Walk!Arg(i) = Arg(i)
         /\ \A i : Walk!ConstArg(i) <=> ConstArg(i)
         /\ Walk!IsConditional <=> IsConditional
         /\ Walk!Mixed <=> Mixed
<1>1. Walk!Current = Current
  BY DEF Walk!Current, Current, WalkTodo, WalkOpt
<1>2. Walk!Op = Op /\ Walk!LhsTy = LhsTy
  BY <1>1 DEF Walk!Op, Op, Walk!LhsTy, LhsTy
<1>3. \A i : Walk!Arm(i) = Arm(i) /\ Walk!Arg(i) = Arg(i)
  BY <1>1, SameConstants DEF Walk!Arm, Arm, Walk!Arg, Arg
<1>4. \A i : Walk!ConstArg(i) <=> ConstArg(i)
  BY <1>1, <1>2, <1>3, SameConstants DEF Walk!ConstArg, ConstArg
<1>5. Walk!IsConditional <=> IsConditional
  BY <1>1 DEF Walk!IsConditional, IsConditional, WalkTodo, WalkOpt
<1>6. Walk!Mixed <=> Mixed
  BY <1>1, <1>2 DEF Walk!Mixed, Mixed
<1> QED
  BY <1>1, <1>2, <1>3, <1>4, <1>5, <1>6

LEMMA SameConditional ==
  ASSUME WalkOpt = opt, WalkTodo # <<>>, todo # <<>>, Head(WalkTodo) = Head(todo)
  PROVE  /\ Walk!CondKnown <=> CondKnown
         /\ Walk!CondKnown => (Walk!CondZero <=> CondZero)
         /\ Walk!DecodeCond = DecodeCond
         /\ Walk!CondArg = CondArg
<1>1. Walk!CondKnown <=> CondKnown
  BY SameStatement DEF Walk!CondKnown, CondKnown, Walk!Ternary, Ternary, Walk!Packable, Packable
<1>2. Walk!CondZero <=> CondZero
  BY SameStatement, SameConstants DEF Walk!CondZero, CondZero, Walk!Ternary, Ternary
<1>3. Walk!DecodeCond = DecodeCond
  <2>1. Walk!Temp("i64") = Temp("i64")
    BY DEF Walk!Temp, Temp, Walk!V, V
  <2>2. \A decl, lhs, list : Walk!Call(decl, lhs, list) = Call(decl, lhs, list)
    BY DEF Walk!Call, Call, Walk!Stmt, Stmt
  <2>3. Walk!Arm(1) = Arm(1)
    BY SameStatement
  <2> QED
    BY <2>1, <2>2, <2>3 DEF Walk!DecodeCond, DecodeCond, Walk!Ternary, Ternary
<1>4. Walk!CondArg = CondArg
  BY SameStatement DEF Walk!CondArg, CondArg, Walk!Ternary, Ternary, Walk!Temp, Temp, Walk!V, V
<1> QED
  BY <1>1, <1>2, <1>3, <1>4

LEMMA SameAssignment ==
  ASSUME WalkOpt = opt, WalkTodo # <<>>, todo # <<>>, Head(WalkTodo) = Head(todo)
  PROVE  /\ Walk!FoldsConversion <=> FoldsConversion
         /\ Walk!Folded = Folded
         /\ Walk!FoldsConstants <=> FoldsConstants
         /\ Walk!Simplified = Simplified
         /\ Walk!NoRewriteYet <=> NoRewriteYet
<1>1. Walk!FoldsConversion <=> FoldsConversion
  BY SameStatement, SameConstants DEF Walk!FoldsConversion, FoldsConversion,
     Walk!Integral, Integral, Walk!Ternary, Ternary
<1>2. Walk!Folded = Folded
  <2>1. Walk!Logical(Walk!Arg(1)) = Logical(Arg(1)) /\ Walk!Logical(Walk!Arg(2)) = Logical(Arg(2))
    BY SameStatement, SameConstants
  <2>2. Walk!Op = Op
    BY SameStatement
  <2> QED
    BY <2>1, <2>2, SameNumbers DEF Walk!Folded, Folded
<1>3. Walk!FoldsConstants <=> FoldsConstants
  BY <1>2, SameStatement, SameConstants DEF Walk!FoldsConstants, FoldsConstants
<1>4. Walk!Simplified = Simplified
  BY SameStatement, SameConstants DEF Walk!Simplified, Simplified
<1>5. Walk!NoRewriteYet <=> NoRewriteYet
  BY <1>1, <1>3, <1>4, SameStatement DEF Walk!NoRewriteYet, NoRewriteYet
<1> QED
  BY <1>1, <1>2, <1>3, <1>4, <1>5

LEMMA SameCalls ==
  ASSUME WalkOpt = opt, WalkTodo # <<>>, todo # <<>>, Head(WalkTodo) = Head(todo)
  PROVE  /\ Walk!Compares <=> Compares
         /\ Walk!ConvertsFrom <=> ConvertsFrom
         /\ \A b : Walk!Enabled(b) <=> Enabled(b)
         /\ Walk!BuiltinDecl = BuiltinDecl
         /\ \A k, d : Walk!Cached(k, d) = Cached(k, d)
         /\ \A ty : Walk!SelectDecl(ty) = SelectDecl(ty)
         /\ \A ty, c : Walk!HasSelectDecl(ty, c) <=> HasSelectDecl(ty, c)
         /\ Walk!CallsBuiltin <=> CallsBuiltin
         /\ Walk!LowersBuiltin <=> LowersBuiltin
<1>1. Walk!Compares <=> Compares
  BY SameStatement DEF Walk!Compares, Compares, Walk!CompareCode, CompareCode, Walk!Ternary, Ternary,
     Walk!SameLayout, SameLayout, WalkTodo, WalkOpt
<1>2. Walk!ConvertsFrom <=> ConvertsFrom
  BY SameStatement DEF Walk!ConvertsFrom, ConvertsFrom, Walk!Integral, Integral, Walk!Ternary, Ternary,
     WalkTodo, WalkOpt
<1>3. \A b : Walk!Enabled(b) <=> Enabled(b)
  BY DEF WalkOpt, Walk!Enabled, Enabled, Walk!ArithBuiltin, ArithBuiltin, Walk!CmpBuiltin, CmpBuiltin,
     Walk!TernaryCompare, TernaryCompare, Walk!LogicBuiltin, LogicBuiltin,
     Walk!ShiftBuiltin, ShiftBuiltin, Walk!ConvBuiltin, ConvBuiltin
<1>4. Walk!BuiltinDecl = BuiltinDecl
  BY SameStatement DEF Walk!BuiltinDecl, BuiltinDecl, Walk!CmpBuiltin, CmpBuiltin,
     Walk!ShiftBuiltin, ShiftBuiltin, Walk!Integral, Integral, Walk!Ternary, Ternary,
     Walk!Suffix, Suffix, Walk!NoDecl, NoDecl
<1>5. \A k, d : Walk!Cached(k, d) = Cached(k, d)
  BY DEF Walk!Cached, Cached, Walk!NoDecl, NoDecl
<1>6. \A ty : Walk!SelectDecl(ty) = SelectDecl(ty)
  BY <1>5 DEF Walk!SelectDecl, SelectDecl, Walk!SelectKey, SelectKey
<1>7. \A ty, c : Walk!HasSelectDecl(ty, c) <=> HasSelectDecl(ty, c)
  BY DEF Walk!HasSelectDecl, HasSelectDecl, Walk!Integral, Integral, Walk!Ternary, Ternary
<1>8. Walk!CallsBuiltin <=> CallsBuiltin
  BY <1>3, SameStatement DEF Walk!CallsBuiltin, CallsBuiltin, Walk!Arguments, Arguments,
     Walk!ConvBuiltin, ConvBuiltin, Walk!NoLhs, NoLhs, Walk!V, V
<1>9. Walk!LowersBuiltin <=> LowersBuiltin
  BY <1>3, <1>4, <1>7, <1>8, SameStatement DEF Walk!LowersBuiltin, LowersBuiltin,
     Walk!TernaryCompare, TernaryCompare, Walk!Ternary, Ternary, Walk!NoDecl, NoDecl
<1> QED
  BY <1>1, <1>2, <1>3, <1>4, <1>5, <1>6, <1>7, <1>8, <1>9

(* One step per action: the walk takes it too. *)
LEMMA SameStep ==
  ASSUME WalkOpt = opt, WalkOpt' = opt', todo # <<>>, WalkTodo # <<>>,
         Head(WalkTodo) = Head(todo), todo' = Tail(todo) => WalkTodo' = Tail(WalkTodo), Next
  PROVE  Walk!Next
<1>1. /\ \A code : Emit(code) => Walk!Emit(code)
      /\ Leave => Walk!Leave
      /\ Lowered => Walk!Lowered
      /\ Survives => Walk!Survives
      /\ \A k, d : Remember(k, d) => Walk!Remember(k, d)
      /\ \A ty : Walk!Temp(ty) = Temp(ty)
      /\ UNCHANGED opt => UNCHANGED (opt \cup FlagsOf(args))
  <2>1. Walk!Current = Current
    BY SameStatement
  <2>2. UNCHANGED opt => UNCHANGED (opt \cup FlagsOf(args))
    BY DEF WalkOpt
  <2>3. /\ \A code : Emit(code) => Walk!Emit(code)
        /\ Leave => Walk!Leave
    BY <2>1 DEF Emit, Walk!Emit, Leave, Walk!Leave, WalkTodo, WalkOpt
  <2>4. /\ Lowered => Walk!Lowered
        /\ Survives => Walk!Survives
        /\ \A k, d : Remember(k, d) => Walk!Remember(k, d)
        /\ \A ty : Walk!Temp(ty) = Temp(ty)
    BY DEF Lowered, Walk!Lowered, Survives, Walk!Survives, Remember, Walk!Remember,
       Walk!Temp, Temp, Walk!V, V
  <2> QED
    BY <2>2, <2>3, <2>4
<1>2. /\ \A lhs, o : Walk!Assign(lhs, o) = Assign(lhs, o)
      /\ \A decl, lhs, list : Walk!Call(decl, lhs, list) = Call(decl, lhs, list)
      /\ \A k, o, u, l, a : Walk!Stmt(k, o, u, l, a) = Stmt(k, o, u, l, a)
      /\ \A ty, n : Walk!C(ty, n) = C(ty, n)
  BY DEF Walk!Assign, Assign, Walk!Call, Call, Walk!Stmt, Stmt, Walk!C, C
<1>3. ("lower" \in opt \cup FlagsOf(args)) <=> ("lower" \in opt)
  BY DEF WalkOpt
<1>4. Conditional => Walk!Conditional
  BY <1>1, SameStatement DEF Conditional, Walk!Conditional
<1>5. CASE KeepConditional
  BY <1>1, <1>3, <1>4, <1>5 DEF KeepConditional, Walk!KeepConditional, Walk!Next
<1>6. CASE FoldConditional
  BY <1>1, <1>2, <1>3, <1>4, <1>6, SameStatement, SameConditional
     DEF FoldConditional, Walk!FoldConditional, Walk!Next
<1>7. CASE MergeEqualArms
  BY <1>1, <1>2, <1>3, <1>4, <1>7, SameStatement, SameConditional
     DEF MergeEqualArms, Walk!MergeEqualArms, Walk!Next
<1>8. CASE LowerConditional
  BY <1>1, <1>2, <1>3, <1>4, <1>8, SameStatement, SameConditional, SameCalls
     DEF LowerConditional, Walk!LowerConditional, Walk!Next, Walk!SelectKey, SelectKey
<1>9. CASE KeepUnsupportedConditional
  BY <1>1, <1>2, <1>3, <1>4, <1>9, SameStatement, SameConditional, SameCalls
     DEF KeepUnsupportedConditional, Walk!KeepUnsupportedConditional, Walk!Next
<1>10. TernaryAssign => Walk!TernaryAssign
  BY <1>1, <1>3, SameStatement DEF TernaryAssign, Walk!TernaryAssign, Walk!Ternary, Ternary, WalkTodo, WalkOpt
<1>11. CASE FoldConversion
  BY <1>1, <1>2, <1>10, <1>11, SameStatement, SameAssignment, SameConstants
     DEF FoldConversion, Walk!FoldConversion, Walk!Next
<1>12. CASE LeaveMixed
  BY <1>1, <1>10, <1>12, SameStatement, SameAssignment
     DEF LeaveMixed, Walk!LeaveMixed, Walk!Next
<1>13. CASE FoldConstants
  BY <1>1, <1>2, <1>10, <1>13, SameStatement, SameAssignment, SameConstants
     DEF FoldConstants, Walk!FoldConstants, Walk!Next
<1>14. CASE Simplify
  BY <1>1, <1>2, <1>10, <1>14, SameStatement, SameAssignment
     DEF Simplify, Walk!Simplify, Walk!Next
<1>15. CASE LowerOperation
  BY <1>1, <1>2, <1>10, <1>15, SameStatement, SameAssignment
     DEF LowerOperation, Walk!LowerOperation, Walk!Next, HelperOf, Walk!HelperOf
<1>16. CASE KeepUnsupported
  BY <1>1, <1>10, <1>16, SameStatement, SameAssignment
     DEF KeepUnsupported, Walk!KeepUnsupported, Walk!Next, HelperOf, Walk!HelperOf
<1>17. CASE LowerComparison
  BY <1>1, <1>2, <1>17, SameStatement, SameCalls
     DEF LowerComparison, Walk!LowerComparison, Walk!Next
<1>18. CASE LowerConversion
  BY <1>1, <1>2, <1>18, SameStatement, SameCalls
     DEF LowerConversion, Walk!LowerConversion, Walk!Next, Walk!Integral, Integral, Walk!Ternary, Ternary
<1>19. Builtin => Walk!Builtin
  BY <1>1, SameStatement, SameCalls DEF Builtin, Walk!Builtin, WalkTodo, WalkOpt
<1>20. CASE LowerBuiltin
  BY <1>1, <1>2, <1>19, <1>20, SameStatement, SameCalls
     DEF LowerBuiltin, Walk!LowerBuiltin, Walk!Next, Walk!NoDecl, NoDecl, Walk!TernaryCompare, TernaryCompare
<1>21. CASE LowerTernaryCompare
  BY <1>1, <1>2, <1>19, <1>21, SameStatement, SameCalls
     DEF LowerTernaryCompare, Walk!LowerTernaryCompare, Walk!Next, Walk!TernaryCompare, TernaryCompare,
         Walk!Ternary, Ternary, Walk!CompareKey, CompareKey
<1>22. CASE LowerBuiltinSelect
  BY <1>1, <1>2, <1>19, <1>22, SameStatement, SameCalls
     DEF LowerBuiltinSelect, Walk!LowerBuiltinSelect, Walk!Next, Walk!SelectKey, SelectKey
<1>23. CASE LowerLoad
  BY <1>1, <1>2, <1>19, <1>23, SameStatement
     DEF LowerLoad, Walk!LowerLoad, Walk!Next
<1>24. CASE PassOver
  BY <1>1, <1>3, <1>24, SameStatement, SameCalls
     DEF PassOver, Walk!PassOver, Walk!Next, Walk!Ternary, Ternary, Walk!counts, counts, WalkTodo, WalkOpt
<1> QED
  BY <1>5, <1>6, <1>7, <1>8, <1>9, <1>11, <1>12, <1>13, <1>14, <1>15, <1>16, <1>17, <1>18,
     <1>20, <1>21, <1>22, <1>23, <1>24 DEF Next

-----------------------------------------------------------------------------
LEMMA FlagsRead ==
  ASSUME NEW S, NEW list \in Seq(S)
  PROVE  /\ FlagsOf(<<>>) = {}
         /\ list # <<>> => FlagsOf(list) = ({Head(list).key} \cap Flags) \cup FlagsOf(Tail(list))
<1>1. FlagsOf(<<>>) = {}
  BY DEF FlagsOf
<1>2. ASSUME list # <<>>
      PROVE  {list[i].key : i \in DOMAIN list} =
               {Head(list).key} \cup {Tail(list)[i].key : i \in DOMAIN Tail(list)}
  <2> DEFINE n == Len(list)
             t == Tail(list)
  <2>1. /\ DOMAIN list = 1 .. n /\ n \in Nat /\ n >= 1 /\ Head(list) = list[1]
        /\ DOMAIN t = 1 .. n - 1 /\ \A i \in 1 .. n - 1 : t[i] = list[i + 1]
    BY <1>2
  <2> HIDE DEF n, t
  <2>2. \A i \in DOMAIN list : i = 1 \/ (i - 1 \in DOMAIN t /\ list[i] = t[i - 1])
    BY <2>1
  <2>3. \A i \in DOMAIN t : i + 1 \in DOMAIN list /\ t[i] = list[i + 1]
    BY <2>1
  <2>4. 1 \in DOMAIN list
    BY <2>1
  <2>5. {list[i].key : i \in DOMAIN list} = {list[1].key} \cup {t[i].key : i \in DOMAIN t}
    BY <2>2, <2>3, <2>4
  <2> QED
    BY <2>1, <2>5 DEF t
<1> QED
  BY <1>1, <1>2 DEF FlagsOf

LEMMA InitWalks == ToolInit => Walk!Init
<1> SUFFICES ASSUME ToolInit PROVE Walk!Init
  OBVIOUS
<1>1. WalkOpt = FlagsOf(args) /\ WalkOpt \in {FlagsOf(list) : list \in ArgLists}
  BY DEF ToolInit, WalkOpt
<1>2. WalkTodo \in {Seen(FlattenSeq(m), uids) : m \in Units, uids \in {{}, Ternary}}
  <2>1. unit \in Units /\ unit \in Seq(Seq(SourceStmt)) /\ next = 1 /\ todo = <<>>
    BY ToolAssumption DEF ToolInit
  <2>2. /\ Ahead(unit, 1, Registered(WalkOpt)) = Seen(FlattenSeq(unit), Registered(WalkOpt))
        /\ Ahead(unit, 1, Registered(WalkOpt)) \in Seq(SourceStmt)
    BY <2>1, AheadIs
  <2>3. WalkTodo = Ahead(unit, 1, Registered(WalkOpt))
    BY <2>1, <2>2 DEF WalkTodo, Ahead
  <2>4. Registered(WalkOpt) \in {{}, Ternary}
    BY DEF Registered
  <2>5. WalkTodo = Seen(FlattenSeq(unit), Registered(WalkOpt))
    BY <2>2, <2>3
  <2> DEFINE types == {{}, Ternary}
  <2>6. Registered(WalkOpt) \in types
    BY <2>4
  <2> HIDE DEF types
  <2>7. WalkTodo \in {Seen(FlattenSeq(m), uids) : m \in Units, uids \in types}
    BY <2>1, <2>5, <2>6
  <2> QED
    BY <2>7 DEF types
<1>3. decl_cache = [k \in Walk!Key |-> Walk!NoDecl]
  BY DEF ToolInit, Walk!Key, Key, Walk!Type, Type, Walk!NoDecl, NoDecl
<1> QED
  BY <1>1, <1>2, <1>3 DEF ToolInit, Walk!Init, WalkTodo, WalkOpt

LEMMA StepWalksOn ==
  ASSUME ToolInv, [ToolNext]_toolVars
  PROVE  [Walk!Next]_(Walk!vars)
<1>1. ASSUME WalkOpt' = WalkOpt, WalkTodo' = WalkTodo, UNCHANGED <<done, decl_cache, counts, temps>>
      PROVE  UNCHANGED Walk!vars
  BY <1>1 DEF Walk!vars, counts, WalkTodo, WalkOpt
<1>2. CASE Load \/ Refuse \/ StartUnit \/ FinishUnit \/ UNCHANGED toolVars
  <2>1. UNCHANGED <<vars, args, unit, next>>
    BY <1>2 DEF Load, Refuse, StartUnit, FinishUnit, toolVars
  <2> QED
    BY <2>1, <1>1 DEF WalkTodo, WalkOpt, vars, counts
<1>3. CASE ParseArg
  <2>1. /\ args # <<>> /\ args' = Tail(args) /\ opt' = opt \cup ({Head(args).key} \cap Flags)
        /\ UNCHANGED <<todo, done, static, unit, next>>
    BY <1>3 DEF ParseArg
  <2>2. WalkOpt' = WalkOpt
    BY <2>1, FlagsRead DEF ToolInv, Stages, WalkOpt
  <2>3. WalkTodo' = WalkTodo
    BY <2>1, <2>2 DEF WalkTodo
  <2> QED
    BY <2>1, <2>2, <2>3, <1>1 DEF static
<1>4. CASE EnterFunction \/ PassStep
  <2>1. stage = "compile" /\ UNCHANGED <<args, unit, type_uids>>
    BY <1>4 DEF EnterFunction, Between, PassStep
  <2>2. args = <<>> /\ type_uids = Registered(opt) /\ FlagsOf(args) = {}
    BY <2>1, FlagsRead DEF ToolInv, Stages
  <2>3. WalkOpt = opt /\ WalkOpt' = opt'
    BY <2>1, <2>2 DEF WalkOpt
  <2>4. unit \in Seq(Seq(SourceStmt)) /\ next \in 1 .. Len(unit) + 1
    BY DEF ToolInv, Stages
  <2>5. WalkTodo = todo \o Ahead(unit, next, type_uids)
    BY <2>2, <2>3 DEF WalkTodo, Ahead
  <2>6. CASE EnterFunction
    <3>1. /\ todo = <<>> /\ todo' = Seen(unit[next], type_uids) /\ next' = next + 1
          /\ next \in 1 .. Len(unit) /\ UNCHANGED <<opt, done, static>>
      BY <2>4, <2>6 DEF EnterFunction, Between
    <3>2. /\ Ahead(unit, next, type_uids) = todo' \o Ahead(unit, next + 1, type_uids)
          /\ Ahead(unit, next, type_uids) \in Seq(SourceStmt)
      <4>1. /\ \A n \in 1 .. Len(unit) :
                 Ahead(unit, n, type_uids) = Seen(unit[n], type_uids) \o Ahead(unit, n + 1, type_uids)
            /\ \A n \in 1 .. Len(unit) + 1 : Ahead(unit, n, type_uids) \in Seq(SourceStmt)
        BY <2>4, AheadIs
      <4> QED
        BY <2>4, <3>1, <4>1
    <3>3. WalkTodo = Ahead(unit, next, type_uids)
      BY <2>5, <3>1, <3>2
    <3>4. WalkTodo' = todo' \o Ahead(unit, next + 1, type_uids)
      BY <2>1, <2>2, <2>3, <3>1 DEF WalkTodo, Ahead
    <3> QED
      BY <2>3, <3>1, <3>2, <3>3, <3>4, <1>1 DEF static
  <2>7. CASE PassStep
    <3>1. Next /\ next' = next /\ UNCHANGED opt
      BY <2>7, OptKept DEF PassStep
    <3>2. todo \in Seq(SourceStmt) /\ todo # <<>>
      BY <3>1, StepWalks DEF ToolInv, IInv
    <3> DEFINE rest == Ahead(unit, next, type_uids)
    <3>3. rest \in Seq(SourceStmt)
      BY <2>4, AheadIs
    <3>4. WalkTodo' = todo' \o rest
      BY <2>1, <2>2, <2>3, <3>1 DEF WalkTodo, Ahead
    <3>5. WalkTodo = todo \o rest
      BY <2>5
    <3> HIDE DEF rest
    <3>6. /\ todo \o rest # <<>> /\ Head(todo \o rest) = Head(todo)
          /\ Tail(todo \o rest) = Tail(todo) \o rest
      BY <3>2, <3>3
    <3>7. Walk!Next
      BY <2>3, <3>1, <3>2, <3>4, <3>5, <3>6, SameStep
    <3> QED
      BY <3>7
  <2> QED
    BY <1>4, <2>6, <2>7
<1> QED
  BY <1>2, <1>3, <1>4 DEF ToolNext

(* Compiling function by function, with the options read one by one, is    *)
(* one walk of the pass over the whole unit with all of them.              *)
THEOREM CompilationIsWalk == ToolSpec => ImplementsPass
<1>1. ToolInit => ToolInv /\ Walk!Init
  BY InitToolInv, InitWalks
<1>2. ToolInv /\ [ToolNext]_toolVars => ToolInv'
  BY StepToolInv
<1>3. ToolInv /\ [ToolNext]_toolVars => [Walk!Next]_(Walk!vars)
  BY StepWalksOn
<1> QED
  BY <1>1, <1>2, <1>3, PTL DEF ToolSpec, ImplementsPass, Walk!Spec

-----------------------------------------------------------------------------
(* Linking.  The helpers the pass can ask for, by the names in its own     *)
(* tables and the types it lowers for.                                     *)
CalledWords ==
  Arithmetic \cup Logic \cup Shifts \cup OrderWords
    \cup {"select", "not", "cmp", "tb2t", "tt2b", "t2f32", "f2t32"}
Callable ==
  (RuntimeInt \X {""}) \cup (CalledWords \X Sizes)
    \cup ({"select"} \X {"u1", "i32", "u32", "i64", "u64", "f32"})

LEMMA DefinedOrMissing ==
  ASSUME NEW op, NEW suf, <<op, suf>> \in Callable
  PROVE  /\ <<op, suf>> \in RuntimeHelpers <=> ~(op = "select" /\ suf = "u1")
         /\ <<op, suf>> \in SkeletonRenamed <=>
              ~ \/ op = "select" /\ suf \notin Sizes
                \/ op = "not" /\ suf \in Sizes
                \/ op \in OrderWords \cup Floats
         /\ <<op, suf>> \in SkeletonHelpers => <<op, suf>> \in SkeletonRenamed
         /\ <<op, suf>> \in SkeletonCompat => <<op, suf>> \in SkeletonRenamed
<1>1. <<op, suf>> \in RuntimeHelpers <=> ~(op = "select" /\ suf = "u1")
  BY DEF Callable, CalledWords, RuntimeHelpers, RuntimeInt, RuntimeTyped, RuntimeIsa, RuntimeSelects,
         RuntimeTv32, RuntimeTv64, Arithmetic, Logic, Shifts, Orders, OrderWords, Floats, Sizes
<1>2. <<op, suf>> \in SkeletonRenamed <=>
              ~ \/ op = "select" /\ suf \notin Sizes
                \/ op = "not" /\ suf \in Sizes
                \/ op \in OrderWords \cup Floats
  BY DEF Callable, CalledWords, SkeletonRenamed, SkeletonInt, RuntimeInt,
         Arithmetic, Logic, Shifts, Orders, OrderWords, Floats, Sizes
<1>3. <<op, suf>> \in SkeletonHelpers => <<op, suf>> \in SkeletonRenamed
  BY DEF Callable, CalledWords, SkeletonHelpers, SkeletonT32, SkeletonT64, SkeletonSignJmp,
         SkeletonRenamed, SkeletonInt, RuntimeInt,
         Arithmetic, Logic, Shifts, Orders, OrderWords, Floats, Sizes
<1>4. <<op, suf>> \in SkeletonCompat => <<op, suf>> \in SkeletonRenamed
  BY DEF Callable, CalledWords, SkeletonCompat, SkeletonRenamed, SkeletonInt, RuntimeInt,
         Arithmetic, Logic, Shifts, Orders, OrderWords, Floats, Sizes
<1> QED
  BY <1>1, <1>2, <1>3, <1>4

LEMMA Resolved ==
  ASSUME build \in Builds, prefix = build.prefix, NEW s, Helper(s) \in Callable
  PROVE  Symbol(s) \in LinkedSymbols(build) <=> ~Missing(s)
<1>1. Symbol(s) = <<build.prefix, Helper(s)>> /\ Helper(s) = <<s.op, s.suf>>
  BY DEF Symbol, Helper
<1>2. CASE build.library = "runtime"
  <2>1. build.prefix = "__ternary"
    BY <1>2, ToolAssumption
  <2>2. LinkedSymbols(build) = {"__ternary"} \X RuntimeHelpers
    BY <1>2 DEF LinkedSymbols, OwnSymbols, CompatSymbols
  <2>3. Symbol(s) \in LinkedSymbols(build) <=> <<s.op, s.suf>> \in RuntimeHelpers
    BY <1>1, <2>1, <2>2
  <2> QED
    BY <1>1, <1>2, <2>3, DefinedOrMissing DEF Missing, Helper
<1>3. CASE build.library = "skeleton"
  <2>1. Symbol(s) \in LinkedSymbols(build) <=> <<s.op, s.suf>> \in SkeletonRenamed
    <3> DEFINE h == <<s.op, s.suf>>
    <3>1. /\ h \in SkeletonHelpers => h \in SkeletonRenamed
          /\ h \in SkeletonCompat => h \in SkeletonRenamed
      BY <1>1, DefinedOrMissing
    <3>2. OwnSymbols(build) = ({build.prefix} \X SkeletonRenamed)
                                \cup ({"__ternary"} \X (SkeletonHelpers \ SkeletonRenamed))
      BY <1>3 DEF OwnSymbols
    <3>3. <<build.prefix, h>> \in CompatSymbols(build) => h \in SkeletonCompat
      BY DEF CompatSymbols
    <3>4. Symbol(s) = <<build.prefix, h>>
      BY <1>1
    <3> HIDE DEF h
    <3>5. <<build.prefix, h>> \in OwnSymbols(build) <=> h \in SkeletonRenamed
      BY <3>1, <3>2
    <3> QED
      BY <3>1, <3>3, <3>4, <3>5 DEF LinkedSymbols, h
  <2>2. ~("skeleton" = "runtime")
    OBVIOUS
  <2> QED
    BY <1>1, <1>3, <2>1, <2>2, DefinedOrMissing DEF Missing, Helper, Sizes
<1> QED
  BY <1>2, <1>3, ToolAssumption

-----------------------------------------------------------------------------
(* The calls emitted ask for these helpers only: the types the statement   *)
(* was lowered by and the declarations in the cache are such.              *)
Calls(s) == s.kind = "helper" => Helper(s) \in Callable
CallsOnly(code) == \A k \in DOMAIN code : Calls(code[k])
CacheCallable == \A key \in Key : decl_cache[key] \in Callable \cup {NoDecl}

LEMMA CallableIs ==
  /\ \A ty \in Integral \cup {"f32"} : <<"select", ty>> \in Callable
  /\ \A op \in TernaryCompare : \A ty \in Ternary : <<op, ty>> \in Callable
  /\ \A ty \in Ternary : /\ <<"cmp", ty>> \in Callable
                         /\ <<"tt2b", ty>> \in Callable
                         /\ <<"t2f32", ty>> \in Callable
  /\ \A op \in DOMAIN HelperOf : \A ty \in Ternary : <<HelperOf[op], ty>> \in Callable
<1>1. \A ty \in Integral \cup {"f32"} : <<"select", ty>> \in Callable
  BY DEF Callable, CalledWords, Integral, Ternary, Sizes
<1>2. \A op \in TernaryCompare : \A ty \in Ternary : <<op, ty>> \in Callable
  BY DEF Callable, CalledWords, TernaryCompare, OrderWords, Ternary, Sizes
<1>3. \A ty \in Ternary : /\ <<"cmp", ty>> \in Callable
                         /\ <<"tt2b", ty>> \in Callable
                         /\ <<"t2f32", ty>> \in Callable
  BY DEF Callable, CalledWords, Ternary, Sizes
<1>4. \A op \in DOMAIN HelperOf : HelperOf[op] \in CalledWords
  <2>1. DOMAIN HelperOf =
          {"PLUS_EXPR", "MINUS_EXPR", "MULT_EXPR", "TRUNC_DIV_EXPR", "TRUNC_MOD_EXPR",
           "NEGATE_EXPR", "BIT_NOT_EXPR", "BIT_AND_EXPR", "BIT_IOR_EXPR", "BIT_XOR_EXPR",
           "LSHIFT_EXPR", "RSHIFT_EXPR", "CONVERT_EXPR"}
    BY DEF HelperOf
  <2>2. /\ HelperOf["PLUS_EXPR"] = "add" /\ HelperOf["MINUS_EXPR"] = "sub"
        /\ HelperOf["MULT_EXPR"] = "mul" /\ HelperOf["TRUNC_DIV_EXPR"] = "div"
        /\ HelperOf["TRUNC_MOD_EXPR"] = "mod" /\ HelperOf["NEGATE_EXPR"] = "neg"
        /\ HelperOf["BIT_NOT_EXPR"] = "not" /\ HelperOf["BIT_AND_EXPR"] = "and"
        /\ HelperOf["BIT_IOR_EXPR"] = "or" /\ HelperOf["BIT_XOR_EXPR"] = "xor"
        /\ HelperOf["LSHIFT_EXPR"] = "shl" /\ HelperOf["RSHIFT_EXPR"] = "shr"
        /\ HelperOf["CONVERT_EXPR"] = "tb2t"
    BY DEF HelperOf
  <2> QED
    BY <2>1, <2>2 DEF CalledWords, Arithmetic, Logic, Shifts
<1>5. \A w \in CalledWords : \A ty \in Ternary : <<w, ty>> \in Callable
  BY DEF Callable, Ternary, Sizes
<1> QED
  BY <1>1, <1>2, <1>3, <1>4, <1>5

LEMMA BuiltinCallable ==
  BuiltinDecl # NoDecl => BuiltinDecl \in Callable
<1> DEFINE arg == Current.args[1].ty
<1>1. \/ Op \in {"neg", "not"} /\ BuiltinDecl = <<Op, "">>
      \/ /\ Op \in {"add", "mul", "sub", "div", "mod", "and", "or", "xor"} \cup ShiftBuiltin
         /\ BuiltinDecl = <<Op, Suffix(LhsTy)>>
      \/ Op = "cmp" /\ BuiltinDecl = <<"cmp", Suffix(arg)>>
      \/ Op \in CmpBuiltin \ {"cmp"} /\ BuiltinDecl = <<Op, "">>
      \/ LhsTy \in Ternary /\ BuiltinDecl = <<"tb2t", LhsTy>>
      \/ arg \in Ternary /\ BuiltinDecl = <<"tt2b", arg>>
      \/ arg \in Ternary /\ BuiltinDecl = <<"t2f32", arg>>
      \/ LhsTy \in Ternary /\ BuiltinDecl = <<"f2t32", LhsTy>>
      \/ BuiltinDecl = NoDecl
  <2>1. CASE Op \in {"neg", "not"} /\ LhsTy \in Integral
    BY <2>1 DEF BuiltinDecl, ShiftBuiltin, CmpBuiltin
  <2>2. CASE /\ Op \in {"add", "mul", "sub", "div", "mod", "and", "or", "xor"} \cup ShiftBuiltin
             /\ LhsTy \in Integral
    BY <2>2 DEF BuiltinDecl, ShiftBuiltin, CmpBuiltin
  <2>3. CASE Op \in CmpBuiltin \cup ConvBuiltin
    BY <2>3 DEF BuiltinDecl, ShiftBuiltin, CmpBuiltin, ConvBuiltin
  <2> QED
    BY <2>1, <2>2, <2>3 DEF BuiltinDecl, ShiftBuiltin, CmpBuiltin, ConvBuiltin
<1> HIDE DEF arg
<1>2. \A ty : Suffix(ty) \in Sizes \cup {""}
  BY DEF Suffix, Ternary, Sizes
<1>3. \A op \in {"neg", "not"} : <<op, "">> \in Callable
  BY DEF Callable, RuntimeInt, Arithmetic
<1>4. \A op \in {"add", "mul", "sub", "div", "mod", "and", "or", "xor"} \cup ShiftBuiltin \cup {"cmp"} :
        \A suf \in Sizes \cup {""} : <<op, suf>> \in Callable
  BY DEF Callable, CalledWords, RuntimeInt, Arithmetic, Logic, Shifts, ShiftBuiltin, Sizes
<1>5. \A op \in CmpBuiltin \ {"cmp"} : <<op, "">> \in Callable
  BY DEF Callable, RuntimeInt, Orders, CmpBuiltin
<1>6. \A ty \in Ternary : /\ <<"tb2t", ty>> \in Callable /\ <<"tt2b", ty>> \in Callable
                         /\ <<"t2f32", ty>> \in Callable /\ <<"f2t32", ty>> \in Callable
  BY DEF Callable, CalledWords, Ternary, Sizes
<1> HIDE DEF Callable
<1> QED
  BY <1>1, <1>2, <1>3, <1>4, <1>5, <1>6

LEMMA CallOnly ==
  /\ \A s : Calls(s) => CallsOnly(<<s>>)
  /\ \A s, t : Calls(s) /\ Calls(t) => CallsOnly(<<s, t>>)
  /\ \A s : s.kind # "helper" => Calls(s)
  /\ \A lhs, o : Calls(Assign(lhs, o))
  /\ \A decl \in Callable : \A lhs, list : Calls(Call(decl, lhs, list))
<1>1. \A decl \in Callable : decl = <<decl[1], decl[2]>>
  <2>1. \A A, B : \A decl \in A \X B : decl = <<decl[1], decl[2]>>
    OBVIOUS
  <2> QED
    BY <2>1 DEF Callable
<1>2. \A decl, lhs, list : Helper(Call(decl, lhs, list)) = <<decl[1], decl[2]>>
  BY DEF Helper, Call, Stmt
<1>3. \A decl \in Callable : \A lhs, list : Calls(Call(decl, lhs, list))
  BY <1>1, <1>2 DEF Calls
<1> QED
  BY <1>3 DEF CallsOnly, Calls, Assign, Stmt

LEMMA DecodeCondCalls ==
  ASSUME NEW s, Calls(s)
  PROVE  CallsOnly(DecodeCond \o <<s>>)
<1>1. CASE Arm(1).ty \in Ternary
  <2> DEFINE d == Call(<<"tt2b", Arm(1).ty>>, Temp("i64"), <<Arm(1)>>)
  <2>1. DecodeCond = <<d>>
    BY <1>1 DEF DecodeCond
  <2>2. Calls(d)
    BY <1>1, CallOnly, CallableIs
  <2> HIDE DEF d
  <2>3. DecodeCond \o <<s>> = <<d, s>>
    BY <2>1, PairConcat
  <2> QED
    BY <2>2, <2>3, CallOnly
<1>2. CASE Arm(1).ty \notin Ternary
  <2>1. DecodeCond \o <<s>> = <<s>>
    BY <1>2 DEF DecodeCond
  <2> QED
    BY <2>1, CallOnly
<1> QED
  BY <1>1, <1>2

LEMMA CachedCallable ==
  ASSUME CacheCallable, NEW key \in Key, NEW fresh, fresh \in Callable
  PROVE  Cached(key, fresh) \in Callable
  BY DEF CacheCallable, Cached

LEMMA StepCalls ==
  ASSUME todo \in Seq(SourceStmt), CacheCallable, Next
  PROVE  /\ \E code : Emit(code) /\ CallsOnly(code)
         /\ CacheCallable'
<1>1. todo # <<>> /\ Current \in SourceStmt /\ Current.kind # "helper"
  BY StepWalks DEF SourceStmt
<1> DEFINE Good == (\E code : Emit(code) /\ CallsOnly(code)) /\ CacheCallable'
<1>2. ASSUME UNCHANGED decl_cache PROVE CacheCallable'
  BY <1>2 DEF CacheCallable
<1>3. \A s : Emit(<<s>>) /\ Calls(s) /\ UNCHANGED decl_cache => Good
  BY <1>2, CallOnly
<1>4. Leave /\ UNCHANGED decl_cache => Good
  BY <1>1, <1>3, CallOnly DEF Leave, Emit
<1>5. \A o : Calls(Assign(Current.lhs, o))
  BY CallOnly
<1>6. ASSUME NEW key \in Key, NEW fresh \in Callable, Remember(key, Cached(key, fresh))
      PROVE  CacheCallable'
  <2>1. Cached(key, fresh) \in Callable
    BY CachedCallable
  <2> HIDE DEF Key
  <2> QED
    BY <1>6, <2>1 DEF CacheCallable, Remember
<1>7. \A ty, cond : HasSelectDecl(ty, cond) =>
        /\ SelectKey(ty) \in Key /\ <<"select", ty>> \in Callable
        /\ \A lhs, list : Calls(Call(SelectDecl(ty), lhs, list))
  <2> SUFFICES ASSUME NEW ty, NEW cond, HasSelectDecl(ty, cond)
               PROVE  /\ SelectKey(ty) \in Key /\ <<"select", ty>> \in Callable
                      /\ \A lhs, list : Calls(Call(SelectDecl(ty), lhs, list))
    OBVIOUS
  <2>1. SelectKey(ty) \in Key
    BY DEF SelectKey, Key, HasSelectDecl, Integral, Ternary, Type
  <2>2. <<"select", ty>> \in Callable
    BY CallableIs DEF HasSelectDecl
  <2>3. SelectDecl(ty) \in Callable
    BY <2>1, <2>2, CachedCallable DEF SelectDecl
  <2> QED
    BY <2>1, <2>2, <2>3, CallOnly
<1> SUFFICES Good
  OBVIOUS
<1> HIDE DEF Good
<1>a. CASE KeepConditional
  BY <1>4, <1>a DEF KeepConditional
<1>b. CASE FoldConditional
  BY <1>3, <1>5, <1>b DEF FoldConditional
<1>c. CASE MergeEqualArms
  BY <1>3, <1>5, <1>c DEF MergeEqualArms
<1>d. CASE LowerConditional
  <2> DEFINE s == Call(SelectDecl(Current.lhs.ty), Current.lhs, <<CondArg, Arm(2), Arm(3)>>)
  <2>1. /\ Emit(DecodeCond \o <<s>>) /\ HasSelectDecl(Current.lhs.ty, Arm(1).ty)
        /\ Remember(SelectKey(Current.lhs.ty), SelectDecl(Current.lhs.ty))
    BY <1>d DEF LowerConditional
  <2>2. Calls(s)
    BY <1>7, <2>1
  <2> HIDE DEF s
  <2>3. CacheCallable'
    BY <1>6, <1>7, <2>1 DEF SelectDecl
  <2> QED
    BY <2>1, <2>2, <2>3, DecodeCondCalls DEF Good
<1>e. CASE KeepUnsupportedConditional
  <2>1. Emit(DecodeCond \o <<Current>>) /\ UNCHANGED decl_cache /\ Calls(Current)
    BY <1>1, <1>e, CallOnly DEF KeepUnsupportedConditional
  <2> QED
    BY <1>2, <2>1, DecodeCondCalls DEF Good
<1>f. CASE FoldConversion
  BY <1>3, <1>5, <1>f DEF FoldConversion, TernaryAssign
<1>g. CASE LeaveMixed
  BY <1>4, <1>g DEF LeaveMixed, TernaryAssign
<1>h. CASE FoldConstants
  BY <1>3, <1>5, <1>h DEF FoldConstants, TernaryAssign
<1>i. CASE Simplify
  BY <1>3, <1>5, <1>i DEF Simplify, TernaryAssign
<1>j. CASE LowerOperation
  <2>1. <<HelperOf[Op], LhsTy>> \in Callable
    BY <1>j, CallableIs DEF LowerOperation, TernaryAssign, LhsTy
  <2>2. Calls(Call(<<HelperOf[Op], LhsTy>>, Current.lhs, Current.args))
    BY <2>1, CallOnly
  <2> QED
    BY <1>3, <1>j, <2>2 DEF LowerOperation, TernaryAssign
<1>k. CASE KeepUnsupported
  BY <1>4, <1>k DEF KeepUnsupported, TernaryAssign
<1>l. CASE LowerComparison
  <2> DEFINE d == Call(<<"cmp", Current.args[1].ty>>, Temp("i32"), Current.args)
             s == [Current EXCEPT !.args = <<Temp("i32"), C("i32", 0)>>]
  <2>1. Emit(<<d, s>>) /\ UNCHANGED decl_cache /\ Current.args[1].ty \in Ternary
    BY <1>l DEF LowerComparison, Compares
  <2>2. Calls(d)
    BY <2>1, CallOnly, CallableIs
  <2>3. s.kind # "helper"
    BY <1>1 DEF SourceStmt
  <2> HIDE DEF d, s
  <2>4. CallsOnly(<<d, s>>)
    BY <2>2, <2>3, CallOnly
  <2> QED
    BY <1>2, <2>1, <2>4 DEF Good
<1>m. CASE LowerConversion
  <2> DEFINE op == IF LhsTy \in Integral THEN "tt2b" ELSE "t2f32"
  <2>1. /\ Emit(<<Call(<<op, Current.args[1].ty>>, Current.lhs, Current.args)>>)
        /\ UNCHANGED decl_cache /\ Current.args[1].ty \in Ternary
    BY <1>m DEF LowerConversion, ConvertsFrom
  <2>2. <<op, Current.args[1].ty>> \in Callable
    BY <2>1, CallableIs
  <2> HIDE DEF op
  <2>3. Calls(Call(<<op, Current.args[1].ty>>, Current.lhs, Current.args))
    BY <2>2, CallOnly
  <2> QED
    BY <1>3, <2>1, <2>3
<1>n. CASE LowerBuiltin
  <2>1. BuiltinDecl \in Callable
    BY <1>n, BuiltinCallable DEF LowerBuiltin
  <2>3. Calls(Call(BuiltinDecl, Current.lhs, Current.args))
    BY <2>1, CallOnly
  <2> QED
    BY <1>3, <1>n, <2>3 DEF LowerBuiltin
<1>o. CASE LowerTernaryCompare
  <2> DEFINE decl == Cached(CompareKey(LhsTy), <<Op, LhsTy>>)
  <2>1. /\ Emit(<<Call(decl, Current.lhs, Current.args)>>) /\ Remember(CompareKey(LhsTy), decl)
        /\ Op \in TernaryCompare /\ LhsTy \in Ternary
    BY <1>o DEF LowerTernaryCompare
  <2>2. CompareKey(LhsTy) \in Key /\ <<Op, LhsTy>> \in Callable
    <3>1. CompareKey(LhsTy) \in Key
      BY <2>1 DEF CompareKey, Key, Ternary, Type
    <3> QED
      BY <2>1, <3>1, CallableIs
  <2>3. decl \in Callable
    BY <2>2, CachedCallable
  <2>4. CacheCallable'
    BY <1>6, <2>1, <2>2
  <2> HIDE DEF decl
  <2>5. Calls(Call(decl, Current.lhs, Current.args))
    BY <2>3, CallOnly
  <2> QED
    BY <2>1, <2>4, <2>5, CallOnly DEF Good
<1>p. CASE LowerBuiltinSelect
  <2> DEFINE s == Call(SelectDecl(LhsTy), Current.lhs, Current.args)
  <2>1. /\ Emit(<<s>>) /\ HasSelectDecl(LhsTy, Current.args[1].ty)
        /\ Remember(SelectKey(LhsTy), SelectDecl(LhsTy))
    BY <1>p DEF LowerBuiltinSelect
  <2>2. Calls(s)
    BY <1>7, <2>1
  <2> HIDE DEF s
  <2>3. CacheCallable'
    BY <1>6, <1>7, <2>1 DEF SelectDecl
  <2> QED
    BY <2>1, <2>2, <2>3, CallOnly DEF Good
<1>q. CASE LowerLoad
  <2>1. Calls(Stmt("assign", "MEM_REF", "", Current.lhs, Current.args))
    BY CallOnly DEF Stmt
  <2> QED
    BY <1>3, <1>q, <2>1 DEF LowerLoad
<1>r. CASE PassOver
  BY <1>4, <1>r DEF PassOver
<1> QED
  BY <1>a, <1>b, <1>c, <1>d, <1>e, <1>f, <1>g, <1>h, <1>i, <1>j, <1>k, <1>l,
     <1>m, <1>n, <1>o, <1>p, <1>q, <1>r DEF Next, Good

-----------------------------------------------------------------------------
(* What a compilation keeps of it: the calls of every statement, not only  *)
(* of the last, and the cache, which outlives the function.                *)
CallInv ==
  /\ ToolInv
  /\ CacheCallable
  /\ \A i \in DOMAIN done : CallsOnly(done[i].code)
  /\ build \in Builds

LEMMA InitCallInv == ToolInit => CallInv
<1> SUFFICES ASSUME ToolInit PROVE CallInv
  OBVIOUS
<1>1. ToolInv
  BY InitToolInv
<1>2. CacheCallable
  BY DEF ToolInit, CacheCallable
<1>3. done = <<>> /\ build \in Builds
  BY DEF ToolInit
<1> QED
  BY <1>1, <1>2, <1>3 DEF CallInv

LEMMA StepCallInv == CallInv /\ [ToolNext]_toolVars => CallInv'
<1> SUFFICES ASSUME CallInv, [ToolNext]_toolVars PROVE CallInv'
  OBVIOUS
<1>1. ToolInv'
  BY StepToolInv DEF CallInv
<1>2. UNCHANGED build
  BY DEF ToolNext, Load, Refuse, ParseArg, StartUnit, EnterFunction, PassStep, FinishUnit, toolVars
<1>3. CASE PassStep
  <2>1. todo \in Seq(SourceStmt) /\ IsSequence(done) /\ Next
    BY <1>3 DEF CallInv, ToolInv, IInv, PassStep
  <2>2. CacheCallable'
    BY <2>1, StepCalls DEF CallInv
  <2>3. PICK code : Emit(code) /\ CallsOnly(code)
    BY <2>1, StepCalls DEF CallInv
  <2>4. \A i \in DOMAIN done' :
          \/ i \in DOMAIN done /\ done'[i] = done[i]
          \/ done'[i].code = code
    BY <2>1, <2>3 DEF Emit, IsSequence
  <2>5. \A i \in DOMAIN done' : CallsOnly(done'[i].code)
    BY <2>3, <2>4 DEF CallInv
  <2> QED
    BY <1>1, <1>2, <2>2, <2>5 DEF CallInv
<1>4. CASE ~PassStep
  <2>1. UNCHANGED <<done, decl_cache>>
    BY <1>4 DEF ToolNext, Load, Refuse, ParseArg, StartUnit, EnterFunction, FinishUnit, toolVars,
                vars, static
  <2> QED
    BY <1>1, <1>2, <2>1 DEF CallInv, CacheCallable
<1> QED
  BY <1>3, <1>4

(* Whatever unit is compiled, with whatever options, against whichever     *)
(* library was built for the prefix the plugin was given: a helper that    *)
(* build_helper_name names is defined, unless it is one of those Missing   *)
(* lists, and those never are.                                             *)
THEOREM LinkDefined == ToolSpec => []HelpersDefined
<1>1. CallInv => HelpersDefined
  <2> SUFFICES ASSUME CallInv, done # <<>>, prefix = build.prefix, NEW s \in LastCalls
               PROVE  Symbol(s) \in LinkedSymbols(build) <=> ~Missing(s)
    BY DEF HelpersDefined
  <2>1. IsSequence(done)
    BY DEF CallInv, ToolInv, IInv
  <2>2. Len(done) \in DOMAIN done /\ LastGroup = done[Len(done)]
    BY <2>1 DEF LastGroup, Last, IsSequence
  <2>3. PICK k \in DOMAIN LastGroup.code : s = LastGroup.code[k]
    BY DEF LastCalls
  <2>4. CallsOnly(LastGroup.code)
    BY <2>2 DEF CallInv
  <2>5. s.kind = "helper" /\ Helper(s) \in Callable
    BY <2>3, <2>4 DEF LastCalls, CallsOnly, Calls
  <2> QED
    BY <2>5, Resolved DEF CallInv
<1> QED
  BY <1>1, InitCallInv, StepCallInv, PTL DEF ToolSpec

-----------------------------------------------------------------------------
(* What a call passes.  The types a helper is passed as are those of its   *)
(* operands, which are of the size it was chosen for: by the prototypes    *)
(* for a builtin, by the tests of the lowering for the other statements.   *)
LEMMA PassedIs ==
  /\ \A ty : Passed(ty) = "i32" <=> ty \in {"i32", "u32"}
  /\ \A ty : Passed(ty) = "t32" <=> ty \in {"t32", "u64"}
  /\ \A ty : Passed(ty) = "t64" <=> ty = "t64"
  /\ \A ty, other : SameLayout(ty, other) => Passed(ty) = Passed(other)
  BY DEF Passed, SameLayout

LEMMA ParametersAre ==
  /\ \A suf : Parameters("select", suf) = <<"i64", suf, suf>>
  /\ \A op \in {"neg", "not"} : Parameters(op, "") = <<"i32">>
  /\ \A op : op \notin {"select", "neg", "not"} => Parameters(op, "") = <<"i32", "i32">>
  /\ \A op \in {"neg", "not", "tt2b", "t2f32"} : \A suf \in Sizes : Parameters(op, suf) = <<suf>>
  /\ \A op \in {"add", "sub", "mul", "div", "mod", "and", "or", "xor", "cmp"} \cup OrderWords :
       \A suf \in Sizes : Parameters(op, suf) = <<suf, suf>>
  /\ \A suf \in Sizes : Parameters("f2t32", suf) = <<"f32">>
<1>1. \A suf : Parameters("select", suf) = <<"i64", suf, suf>>
  <2>1. "select" \notin Shifts \cup {"neg", "not", "tb2t", "f2t32", "tt2b", "t2f32"}
    BY DEF Shifts
  <2> QED
    BY <2>1 DEF Parameters
<1>2. \A op : op # "select" =>
        Parameters(op, "") = IF op \in {"neg", "not"} THEN <<"i32">> ELSE <<"i32", "i32">>
  BY DEF Parameters
<1>3. \A op \in {"neg", "not", "tt2b", "t2f32"} : \A suf \in Sizes : Parameters(op, suf) = <<suf>>
  BY DEF Parameters, Sizes, Shifts
<1>4. \A op \in {"add", "sub", "mul", "div", "mod", "and", "or", "xor", "cmp"} \cup OrderWords :
        \A suf \in Sizes : Parameters(op, suf) = <<suf, suf>>
  BY DEF Parameters, Sizes, OrderWords, Shifts
<1>5. \A suf \in Sizes : Parameters("f2t32", suf) = <<"f32">>
  BY DEF Parameters, Sizes, Shifts
<1> QED
  BY <1>1, <1>2, <1>3, <1>4, <1>5

(* The operands of a call, compared one by one with the parameters. *)
LEMMA OneTaken ==
  ASSUME NEW op, NEW suf, NEW lhs, NEW list, NEW ty,
         Len(list) = 1, Parameters(op, suf) = <<ty>>, Passed(list[1].ty) = Passed(ty)
  PROVE  TakesOperands(Call(<<op, suf>>, lhs, list))
<1> DEFINE s == Call(<<op, suf>>, lhs, list)
<1>1. s.op = op /\ s.suf = suf /\ s.args = list
  BY DEF Call, Stmt
<1> HIDE DEF s
<1>2. DOMAIN <<ty>> = {1} /\ <<ty>>[1] = ty /\ Len(<<ty>>) = 1
  OBVIOUS
<1>3. TakesOperands(s)
  BY <1>1, <1>2 DEF TakesOperands
<1> QED
  BY <1>3 DEF s

LEMMA TwoTaken ==
  ASSUME NEW op, NEW suf, NEW lhs, NEW list, NEW ty, NEW other,
         Len(list) = 2, Parameters(op, suf) = <<ty, other>>,
         Passed(list[1].ty) = Passed(ty), Passed(list[2].ty) = Passed(other)
  PROVE  TakesOperands(Call(<<op, suf>>, lhs, list))
<1> DEFINE s == Call(<<op, suf>>, lhs, list)
<1>1. s.op = op /\ s.suf = suf /\ s.args = list
  BY DEF Call, Stmt
<1> HIDE DEF s
<1>2. DOMAIN <<ty, other>> = {1, 2} /\ <<ty, other>>[1] = ty /\ <<ty, other>>[2] = other
      /\ Len(<<ty, other>>) = 2
  OBVIOUS
<1>3. TakesOperands(s)
  BY <1>1, <1>2 DEF TakesOperands
<1> QED
  BY <1>3 DEF s

LEMMA SelectTaken ==
  ASSUME NEW ty, NEW lhs, NEW cond, NEW x, NEW y,
         cond.ty = "i64", Passed(x.ty) = Passed(ty), Passed(y.ty) = Passed(ty)
  PROVE  TakesOperands(Call(<<"select", ty>>, lhs, <<cond, x, y>>))
<1> DEFINE list == <<cond, x, y>>
           s == Call(<<"select", ty>>, lhs, list)
           declared == <<"i64", ty, ty>>
<1>1. Len(list) = 3 /\ list[1] = cond /\ list[2] = x /\ list[3] = y
  OBVIOUS
<1>2. /\ DOMAIN declared = {1, 2, 3} /\ Len(declared) = 3
      /\ declared[1] = "i64" /\ declared[2] = ty /\ declared[3] = ty
  OBVIOUS
<1> HIDE DEF list
<1>3. s.op = "select" /\ s.suf = ty /\ s.args = list
  BY DEF Call, Stmt
<1> HIDE DEF s
<1>4. Parameters(s.op, s.suf) = declared
  BY <1>3, ParametersAre
<1> HIDE DEF declared
<1>5. TakesOperands(s)
  BY <1>1, <1>2, <1>3, <1>4 DEF TakesOperands
<1> QED
  BY <1>5 DEF s, list

-----------------------------------------------------------------------------
(* What the prototypes say of a statement, they say of it as the pass sees it. *)
LEMMA SeenPrototyped ==
  ASSUME NEW s \in SourceStmt, NEW uids, Prototyped(s)
  PROVE  Prototyped(SeenStatement(s, uids))
<1> DEFINE more == [k \in DOMAIN s.args |-> Known(s.args[k], uids)]
           seen == SeenStatement(s, uids)
<1>1. s.args \in Seq(SourceOperand)
  BY DEF SourceStmt
<1>2. /\ DOMAIN more = DOMAIN s.args /\ Len(more) = Len(s.args)
      /\ \A k \in DOMAIN s.args : more[k] = Known(s.args[k], uids)
  BY <1>1, KnownTyped
<1> HIDE DEF more
<1>3. seen.op = s.op /\ seen.kind = s.kind /\ seen.lhs = Known(s.lhs, uids) /\ seen.args = more
  BY DEF SourceStmt, SeenStatement, more
<1>4. \A o : Passed(Known(o, uids).ty) = Passed(o.ty)
  BY KnownTyped, PassedIs
<1> HIDE DEF seen
<1>5. CASE ~(s.kind = "builtin" /\ Len(s.args) = Arguments(s.op))
  BY <1>2, <1>3, <1>5 DEF Prototyped, seen
<1>6. CASE s.kind = "builtin" /\ Len(s.args) = Arguments(s.op)
  <2>1. /\ s.op = "cmp" => 1 \in DOMAIN s.args /\ 2 \in DOMAIN s.args
        /\ s.op \in ShiftBuiltin => 1 \in DOMAIN s.args /\ 2 \in DOMAIN s.args
    BY <1>1, <1>6 DEF Arguments, ShiftBuiltin, ConvBuiltin
  <2>2. \A k \in DOMAIN s.args : Passed(seen.args[k].ty) = Passed(s.args[k].ty)
    BY <1>2, <1>3, <1>4
  <2>3. Passed(seen.lhs.ty) = Passed(s.lhs.ty)
    BY <1>3, <1>4
  <2>4. DOMAIN seen.args = DOMAIN s.args
    BY <1>2, <1>3
  <2> QED
    BY <1>3, <1>6, <2>1, <2>2, <2>3, <2>4 DEF Prototyped, Alike, seen
<1> QED
  BY <1>5, <1>6

(* A call the pass emits for src passes what the helper takes, or is known *)
(* not to.                                                                 *)
FitsCall(s, src) == s.kind = "helper" => TakesOperands(s) \/ Mispassed(s, src)
Fits(code, src)  == \A k \in DOMAIN code : FitsCall(code[k], src)

LEMMA FitOnly ==
  ASSUME NEW src
  PROVE  /\ \A s : FitsCall(s, src) => Fits(<<s>>, src)
         /\ \A s, t : FitsCall(s, src) /\ FitsCall(t, src) => Fits(<<s, t>>, src)
         /\ \A s : s.kind # "helper" => FitsCall(s, src)
         /\ \A lhs, o : FitsCall(Assign(lhs, o), src)
  BY DEF Fits, FitsCall, Assign, Stmt

LEMMA MispassedCall ==
  ASSUME NEW op, NEW suf, NEW lhs, NEW list, NEW src
  PROVE  /\ op \in Shifts /\ suf \in Sizes => Mispassed(Call(<<op, suf>>, lhs, list), src)
         /\ src.kind = "builtin" /\ op \in {"tb2t", "select"} =>
              Mispassed(Call(<<op, suf>>, lhs, list), src)
         /\ src.kind = "builtin" /\ suf = "" =>
              /\ src.args[1].ty \in OtherIntegers \/ src.lhs.ty \in OtherIntegers =>
                   Mispassed(Call(<<op, suf>>, lhs, list), src)
              /\ src.args[1].ty \in Ternary /\ op \in Orders \cup {"neg", "not"} =>
                   Mispassed(Call(<<op, suf>>, lhs, list), src)
<1> DEFINE s == Call(<<op, suf>>, lhs, list)
<1>1. s.op = op /\ s.suf = suf
  BY DEF Call, Stmt
<1> HIDE DEF s
<1>2. /\ op \in Shifts /\ suf \in Sizes => Mispassed(s, src)
      /\ src.kind = "builtin" /\ op \in {"tb2t", "select"} => Mispassed(s, src)
      /\ src.kind = "builtin" /\ suf = "" =>
           /\ src.args[1].ty \in OtherIntegers \/ src.lhs.ty \in OtherIntegers => Mispassed(s, src)
           /\ src.args[1].ty \in Ternary /\ op \in Orders \cup {"neg", "not"} => Mispassed(s, src)
  BY <1>1 DEF Mispassed
<1> QED
  BY <1>2 DEF s

LEMMA IntegralIs ==
  \A ty \in Integral : ty \in Ternary \/ ty \in OtherIntegers \/ Passed(ty) = "i32"
  BY PassedIs DEF Integral, Ternary, OtherIntegers

(* The helper of an operation on words takes two of the size. *)
PlainWords == {"add", "sub", "mul", "div", "mod", "and", "or", "xor"}

LEMMA BuiltinFits ==
  ASSUME Current \in SourceStmt, Prototyped(Current), CallsBuiltin,
         Op \notin TernaryCompare \cup {"select", "load"}, BuiltinDecl # NoDecl
  PROVE  FitsCall(Call(BuiltinDecl, Current.lhs, Current.args), Current)
<1> DEFINE list == Current.args
           arg  == list[1].ty
           Takes(decl) == TakesOperands(Call(decl, Current.lhs, list))
           Misses(decl) == Mispassed(Call(decl, Current.lhs, list), Current)
<1> SUFFICES Takes(BuiltinDecl) \/ Misses(BuiltinDecl)
  BY DEF FitsCall
<1>1. Current.kind = "builtin" /\ Len(list) = Arguments(Op) /\ DOMAIN list = 1 .. Len(list)
  BY SourceShape DEF CallsBuiltin
<1>2. \/ Op \in {"neg", "not"} /\ LhsTy \in Integral /\ BuiltinDecl = <<Op, "">>
      \/ Op \in PlainWords /\ LhsTy \in Integral /\ BuiltinDecl = <<Op, Suffix(LhsTy)>>
      \/ Op \in Shifts /\ LhsTy \in Integral /\ BuiltinDecl = <<Op, Suffix(LhsTy)>>
      \/ Op = "cmp" /\ arg \in Integral /\ BuiltinDecl = <<"cmp", Suffix(arg)>>
      \/ Op \in Orders /\ arg \in Ternary /\ BuiltinDecl = <<Op, "">>
      \/ BuiltinDecl = <<"tb2t", LhsTy>>
      \/ Op = "tt2b" /\ arg \in Ternary /\ BuiltinDecl = <<"tt2b", arg>>
      \/ Op = "t2f" /\ arg \in Ternary /\ BuiltinDecl = <<"t2f32", arg>>
      \/ Op = "f2t" /\ LhsTy \in Ternary /\ arg = "f32" /\ BuiltinDecl = <<"f2t32", LhsTy>>
  <2>1. CASE Op \in {"neg", "not"} /\ LhsTy \in Integral
    BY <2>1 DEF BuiltinDecl, ShiftBuiltin, CmpBuiltin
  <2>2. CASE Op \in PlainWords /\ LhsTy \in Integral
    BY <2>2 DEF BuiltinDecl, PlainWords, ShiftBuiltin, CmpBuiltin
  <2>3. CASE Op \in Shifts /\ LhsTy \in Integral
    BY <2>3 DEF BuiltinDecl, Shifts, ShiftBuiltin, CmpBuiltin
  <2>4. CASE Op \in CmpBuiltin
    BY <2>4 DEF BuiltinDecl, ShiftBuiltin, CmpBuiltin, Orders
  <2>5. CASE Op \in ConvBuiltin
    BY <2>5 DEF BuiltinDecl, ShiftBuiltin, CmpBuiltin, ConvBuiltin
  <2> QED
    BY <2>1, <2>2, <2>3, <2>4, <2>5
       DEF BuiltinDecl, PlainWords, Shifts, ShiftBuiltin, CmpBuiltin, ConvBuiltin
<1>3. /\ Op \in {"neg", "not", "tt2b", "t2f", "f2t"} => Len(list) = 1
      /\ Op \in PlainWords \cup Shifts \cup {"cmp"} => Len(list) = 2
  BY <1>1 DEF Arguments, PlainWords, Shifts, ConvBuiltin
<1>4. /\ Op \in {"neg", "not"} \cup PlainWords =>
           \A i \in DOMAIN list : Passed(list[i].ty) = Passed(LhsTy)
      /\ Op = "cmp" => Passed(arg) = Passed(list[2].ty)
      /\ Op \in Shifts => Passed(arg) = Passed(LhsTy)
           /\ (Passed(list[2].ty) = "i32" \/ Passed(list[2].ty) = Passed(LhsTy))
  BY <1>1 DEF Prototyped, Alike, PlainWords, Shifts, ArithBuiltin, LogicBuiltin, ShiftBuiltin,
              Op, LhsTy
<1>5. /\ \A ty \in Ternary : Suffix(ty) = ty /\ ty \in Sizes
      /\ \A ty : Passed(ty) = "i32" => Suffix(ty) = ""
      /\ \A ty \in OtherIntegers : Suffix(ty) = ""
  BY PassedIs DEF Suffix, Ternary, Sizes, OtherIntegers
<1>6. \A decl, ty : Len(list) = 1 /\ decl = <<decl[1], decl[2]>>
                    /\ Parameters(decl[1], decl[2]) = <<ty>> /\ Passed(arg) = Passed(ty)
                    => Takes(decl)
  BY OneTaken
<1>7. \A decl, ty : Len(list) = 2 /\ decl = <<decl[1], decl[2]>>
                    /\ Parameters(decl[1], decl[2]) = <<ty, ty>>
                    /\ Passed(arg) = Passed(ty) /\ Passed(list[2].ty) = Passed(ty)
                    => Takes(decl)
  BY TwoTaken
<1>8. /\ \A op \in Shifts, suf \in Sizes : Misses(<<op, suf>>)
      /\ \A suf : Misses(<<"tb2t", suf>>)
      /\ \A op : arg \in OtherIntegers \/ LhsTy \in OtherIntegers => Misses(<<op, "">>)
      /\ \A op \in Orders \cup {"neg", "not"} : arg \in Ternary => Misses(<<op, "">>)
  BY <1>1, MispassedCall DEF LhsTy
<1>9. Passed("i32") = "i32" /\ Passed("f32") = "f32"
  BY DEF Passed
<1> HIDE DEF list, Takes, Misses
<1>a. CASE Op \in {"neg", "not"} /\ LhsTy \in Integral /\ BuiltinDecl = <<Op, "">>
  <2>1. Len(list) = 1 /\ 1 \in DOMAIN list
    <3>1. Len(list) = 1
      BY <1>3, <1>a
    <3> QED
      BY <1>1, <3>1
  <2>2. Passed(arg) = Passed(LhsTy)
    BY <1>4, <1>a, <2>1
  <2>3. CASE LhsTy \in OtherIntegers
    BY <1>8, <1>a, <2>3
  <2>4. CASE LhsTy \in Ternary
    <3>1. arg \in Ternary \/ arg \in OtherIntegers
      BY <2>2, <2>4, PassedIs DEF Ternary, OtherIntegers
    <3> QED
      BY <1>8, <1>a, <3>1
  <2>5. CASE Passed(LhsTy) = "i32"
    <3>1. Parameters(Op, "") = <<"i32">>
      BY <1>a, ParametersAre
    <3> QED
      BY <1>6, <1>9, <1>a, <2>1, <2>2, <2>5, <3>1
  <2> QED
    BY <1>a, <2>3, <2>4, <2>5, IntegralIs
<1>b. CASE Op \in PlainWords /\ LhsTy \in Integral /\ BuiltinDecl = <<Op, Suffix(LhsTy)>>
  <2>1. Passed(arg) = Passed(LhsTy) /\ Passed(list[2].ty) = Passed(LhsTy) /\ Len(list) = 2
    BY <1>1, <1>3, <1>4, <1>b
  <2>2. CASE LhsTy \in OtherIntegers
    BY <1>5, <1>8, <1>b, <2>2
  <2>3. CASE LhsTy \in Ternary
    <3>1. Parameters(Op, LhsTy) = <<LhsTy, LhsTy>>
      BY <1>5, <1>b, <2>3, ParametersAre DEF PlainWords
    <3> QED
      BY <1>5, <1>7, <1>b, <2>1, <2>3, <3>1
  <2>4. CASE Passed(LhsTy) = "i32"
    <3>1. Parameters(Op, "") = <<"i32", "i32">>
      BY <1>b, ParametersAre DEF PlainWords
    <3> QED
      BY <1>5, <1>7, <1>9, <1>b, <2>1, <2>4, <3>1
  <2> QED
    BY <1>b, <2>2, <2>3, <2>4, IntegralIs
<1>c. CASE Op \in Shifts /\ LhsTy \in Integral /\ BuiltinDecl = <<Op, Suffix(LhsTy)>>
  <2>1. CASE LhsTy \in OtherIntegers
    BY <1>5, <1>8, <1>c, <2>1
  <2>2. CASE LhsTy \in Ternary
    BY <1>5, <1>8, <1>c, <2>2
  <2>3. CASE Passed(LhsTy) = "i32"
    <3>1. Passed(arg) = "i32" /\ Passed(list[2].ty) = "i32" /\ Len(list) = 2
      BY <1>3, <1>4, <1>c, <2>3
    <3>2. Parameters(Op, "") = <<"i32", "i32">>
      BY <1>c, ParametersAre DEF Shifts
    <3> QED
      BY <1>5, <1>7, <1>9, <1>c, <2>3, <3>1, <3>2
  <2> QED
    BY <1>c, <2>1, <2>2, <2>3, IntegralIs
<1>d. CASE Op = "cmp" /\ arg \in Integral /\ BuiltinDecl = <<"cmp", Suffix(arg)>>
  <2>1. Passed(list[2].ty) = Passed(arg) /\ Len(list) = 2
    BY <1>3, <1>4, <1>d
  <2>2. CASE arg \in OtherIntegers
    BY <1>5, <1>8, <1>d, <2>2
  <2>3. CASE arg \in Ternary
    <3>1. Parameters("cmp", arg) = <<arg, arg>>
      BY <1>5, <2>3, ParametersAre
    <3> QED
      BY <1>5, <1>7, <1>d, <2>1, <2>3, <3>1
  <2>4. CASE Passed(arg) = "i32"
    <3>1. Parameters("cmp", "") = <<"i32", "i32">>
      BY ParametersAre
    <3> QED
      BY <1>5, <1>7, <1>9, <1>d, <2>1, <2>4, <3>1
  <2> QED
    BY <1>d, <2>2, <2>3, <2>4, IntegralIs
<1>e. CASE Op \in Orders /\ arg \in Ternary /\ BuiltinDecl = <<Op, "">>
  BY <1>8, <1>e
<1>f. CASE BuiltinDecl = <<"tb2t", LhsTy>>
  BY <1>8, <1>f
<1>g. CASE Op = "tt2b" /\ arg \in Ternary /\ BuiltinDecl = <<"tt2b", arg>>
  <2>1. Parameters("tt2b", arg) = <<arg>>
    BY <1>5, <1>g, ParametersAre
  <2> QED
    BY <1>3, <1>6, <1>g, <2>1
<1>h. CASE Op = "t2f" /\ arg \in Ternary /\ BuiltinDecl = <<"t2f32", arg>>
  <2>1. Parameters("t2f32", arg) = <<arg>>
    BY <1>5, <1>h, ParametersAre
  <2> QED
    BY <1>3, <1>6, <1>h, <2>1
<1>i. CASE Op = "f2t" /\ LhsTy \in Ternary /\ arg = "f32" /\ BuiltinDecl = <<"f2t32", LhsTy>>
  <2>1. Parameters("f2t32", LhsTy) = <<"f32">>
    BY <1>5, <1>i, ParametersAre
  <2> QED
    BY <1>3, <1>6, <1>i, <2>1
<1> QED
  BY <1>2, <1>a, <1>b, <1>c, <1>d, <1>e, <1>f, <1>g, <1>h, <1>i

(* The cache holds, for the comparisons of a type, one of that type. *)
CompareOwn ==
  \A ty \in Type :
    decl_cache[CompareKey(ty)] \in {NoDecl} \cup {<<op, ty>> : op \in TernaryCompare}

LEMMA CompareOwnKept ==
  ASSUME CacheOwn, CompareOwn, NEW ty \in Type
  PROVE  /\ UNCHANGED decl_cache => CompareOwn'
         /\ \A decl : Remember(SelectKey(ty), decl) => CompareOwn'
         /\ \A op \in TernaryCompare : Remember(CompareKey(ty), <<op, ty>>) => CompareOwn'
<1>1. UNCHANGED decl_cache => CompareOwn'
  BY DEF CompareOwn
<1>2. ASSUME NEW decl, Remember(SelectKey(ty), decl) PROVE CompareOwn'
  BY <1>2 DEF CompareOwn, Remember, SelectKey, CompareKey, CacheOwn, Key
<1>3. ASSUME NEW op \in TernaryCompare, Remember(CompareKey(ty), <<op, ty>>) PROVE CompareOwn'
  <2>1. \A other \in Type : CompareKey(other) \in Key
    BY DEF CompareKey, Key
  <2>2. \A other \in Type : other # ty => CompareKey(other) # CompareKey(ty)
    BY DEF CompareKey
  <2>3. \A other \in Type :
          decl_cache'[CompareKey(other)]
            = IF other = ty THEN <<op, ty>> ELSE decl_cache[CompareKey(other)]
    BY <1>3, <2>1, <2>2 DEF Remember, CacheOwn
  <2> QED
    BY <2>3 DEF CompareOwn
<1> QED
  BY <1>1, <1>2, <1>3

(* The operations on one type. *)
LEMMA OperationFits ==
  ASSUME Current \in SourceStmt, TernaryAssign, NoRewriteYet, Op \in DOMAIN HelperOf
  PROVE  FitsCall(Call(<<HelperOf[Op], LhsTy>>, Current.lhs, Current.args), Current)
<1> DEFINE list == Current.args
           Takes(op) == TakesOperands(Call(<<op, LhsTy>>, Current.lhs, list))
<1> SUFFICES Takes(HelperOf[Op]) \/ HelperOf[Op] \in Shifts
  BY MispassedCall DEF FitsCall, TernaryAssign, LhsTy, Ternary, Sizes
<1>1. LhsTy \in Sizes /\ \A i \in DOMAIN list : list[i].ty = LhsTy
  BY DEF TernaryAssign, NoRewriteYet, Mixed, LhsTy, Ternary, Sizes
<1>2. /\ DOMAIN list = 1 .. Len(list)
      /\ Op \in UnaryCode => Len(list) = 1
      /\ Op \in BinaryCode => Len(list) = 2
      /\ Op = "CONVERT_EXPR" => ~SameLayout(LhsTy, list[1].ty)
  BY SourceShape DEF Op, LhsTy
<1>3. DOMAIN HelperOf = UnaryCode \cup BinaryCode
  BY DEF HelperOf, UnaryCode, BinaryCode
<1> HIDE DEF list
<1>4. Op # "CONVERT_EXPR"
  <2>1. ASSUME Op = "CONVERT_EXPR" PROVE FALSE
    <3>1. Len(list) = 1
      BY <1>2, <2>1 DEF UnaryCode
    <3>2. 1 \in DOMAIN list
      BY <1>2, <3>1
    <3> QED
      BY <1>1, <1>2, <2>1, <3>2 DEF SameLayout
  <2> QED
    BY <2>1
<1>5. CASE Op \in UnaryCode
  <2>1. Len(list) = 1
    BY <1>2, <1>5
  <2>2. list[1].ty = LhsTy
    <3>1. 1 \in DOMAIN list
      BY <1>2, <2>1
    <3> QED
      BY <1>1, <3>1
  <2>3. HelperOf[Op] \in {"neg", "not"}
    BY <1>4, <1>5 DEF UnaryCode, HelperOf
  <2>4. Parameters(HelperOf[Op], LhsTy) = <<LhsTy>>
    BY <1>1, <2>3, ParametersAre
  <2> QED
    BY <2>1, <2>2, <2>4, OneTaken
<1>6. CASE Op \in BinaryCode
  <2>1. Len(list) = 2
    BY <1>2, <1>6
  <2>2. list[1].ty = LhsTy /\ list[2].ty = LhsTy
    <3>1. 1 \in DOMAIN list /\ 2 \in DOMAIN list
      BY <1>2, <2>1
    <3> QED
      BY <1>1, <3>1
  <2>3. HelperOf[Op] \in PlainWords \/ HelperOf[Op] \in Shifts
    BY <1>6 DEF BinaryCode, HelperOf, PlainWords, Shifts
  <2>4. HelperOf[Op] \in PlainWords => Parameters(HelperOf[Op], LhsTy) = <<LhsTy, LhsTy>>
    BY <1>1, ParametersAre DEF PlainWords
  <2> QED
    BY <2>1, <2>2, <2>3, <2>4, TwoTaken
<1> QED
  BY <1>3, <1>5, <1>6

(* The decoding of a ternary condition, and what comes after it. *)
LEMMA DecodingFits ==
  ASSUME NEW s, FitsCall(s, Current)
  PROVE  Fits(DecodeCond \o <<s>>, Current)
<1>1. CASE Arm(1).ty \in Ternary
  <2> DEFINE d == Call(<<"tt2b", Arm(1).ty>>, Temp("i64"), <<Arm(1)>>)
  <2>1. DecodeCond = <<d>>
    BY <1>1 DEF DecodeCond
  <2>2. FitsCall(d, Current)
    <3>1. Parameters("tt2b", Arm(1).ty) = <<Arm(1).ty>>
      BY <1>1, ParametersAre DEF Ternary, Sizes
    <3>2. Len(<<Arm(1)>>) = 1 /\ <<Arm(1)>>[1] = Arm(1)
      OBVIOUS
    <3> QED
      BY <3>1, <3>2, OneTaken DEF FitsCall
  <2> HIDE DEF d
  <2>3. DecodeCond \o <<s>> = <<d, s>>
    BY <2>1, PairConcat
  <2> QED
    BY <2>2, <2>3, FitOnly
<1>2. CASE Arm(1).ty \notin Ternary
  <2>1. DecodeCond \o <<s>> = <<s>>
    BY <1>2 DEF DecodeCond
  <2> QED
    BY <2>1, FitOnly
<1> QED
  BY <1>1, <1>2

(* A select of the arms of a COND_EXPR: its condition was made an int64_t. *)
LEMMA ArmsFit ==
  ASSUME Current \in SourceStmt, IsConditional
  PROVE  FitsCall(Call(<<"select", LhsTy>>, Current.lhs, <<CondArg, Arm(2), Arm(3)>>), Current)
<1>1. /\ \A i \in 2 .. 3 : SameLayout(LhsTy, Current.args[i].ty)
      /\ Len(Current.args) = 3 /\ Current.args \in Seq(SourceOperand)
  BY DEF SourceStmt, Gimplified, IsConditional, LhsTy
<1>2. Passed(Arm(2).ty) = Passed(LhsTy) /\ Passed(Arm(3).ty) = Passed(LhsTy)
  BY <1>1, PackShape, PassedIs DEF Arm
<1>3. CondArg.ty = "i64"
  <2>1. Current.args[1] \in Operand
    BY <1>1 DEF SourceOperand
  <2>2. Arm(1) = [const |-> Arm(1).const, ty |-> Arm(1).ty, n |-> Arm(1).n]
    BY <2>1 DEF Arm, PackConstant, Pack, C, Operand
  <2> QED
    BY <2>2 DEF CondArg, Temp, V
<1> QED
  BY <1>2, <1>3, SelectTaken DEF FitsCall

(* Every step emits code that fits its statement. *)
LEMMA StepFits ==
  ASSUME todo \in Seq(SourceStmt), CacheOwn, CompareOwn,
         \A k \in DOMAIN todo : Prototyped(todo[k]), Next
  PROVE  /\ \E code : Emit(code) /\ Fits(code, Current)
         /\ CompareOwn'
<1>1. todo # <<>> /\ Current \in SourceStmt /\ Current.kind # "helper" /\ Prototyped(Current)
  <2>1. todo # <<>> /\ Current \in SourceStmt
    BY StepWalks
  <2>2. 1 \in DOMAIN todo /\ Current = todo[1]
    BY <2>1 DEF Current
  <2> QED
    BY <2>1, <2>2 DEF SourceStmt
<1> DEFINE Good == (\E code : Emit(code) /\ Fits(code, Current)) /\ CompareOwn'
<1>2. ASSUME UNCHANGED decl_cache PROVE CompareOwn'
  BY <1>2 DEF CompareOwn
<1>3. \A s : Emit(<<s>>) /\ FitsCall(s, Current) /\ UNCHANGED decl_cache => Good
  BY <1>2, FitOnly
<1>4. Leave /\ UNCHANGED decl_cache => Good
  BY <1>1, <1>3, FitOnly DEF Leave, Emit
<1>5. \A o : FitsCall(Assign(Current.lhs, o), Current)
  BY FitOnly
<1>6. LhsTy \in Type
  BY <1>1 DEF SourceStmt, SourceVariable, SourceOperand, Operand, LhsTy
<1>7. /\ SelectDecl(LhsTy) = <<"select", LhsTy>>
      /\ Remember(SelectKey(LhsTy), SelectDecl(LhsTy)) => CompareOwn'
  BY <1>6, SelectDeclOwn, CompareOwnKept
<1> SUFFICES Good
  OBVIOUS
<1> HIDE DEF Good
<1>a. CASE KeepConditional
  BY <1>4, <1>a DEF KeepConditional
<1>b. CASE FoldConditional
  BY <1>3, <1>5, <1>b DEF FoldConditional
<1>c. CASE MergeEqualArms
  BY <1>3, <1>5, <1>c DEF MergeEqualArms
<1>d. CASE LowerConditional
  <2> DEFINE s == Call(<<"select", LhsTy>>, Current.lhs, <<CondArg, Arm(2), Arm(3)>>)
  <2>1. Emit(DecodeCond \o <<s>>) /\ Remember(SelectKey(LhsTy), SelectDecl(LhsTy))
    BY <1>7, <1>d DEF LowerConditional, LhsTy
  <2>2. FitsCall(s, Current)
    BY <1>1, <1>d, ArmsFit DEF LowerConditional, Conditional
  <2> HIDE DEF s
  <2> QED
    BY <1>7, <2>1, <2>2, DecodingFits DEF Good
<1>e. CASE KeepUnsupportedConditional
  <2>1. Emit(DecodeCond \o <<Current>>) /\ UNCHANGED decl_cache /\ FitsCall(Current, Current)
    BY <1>1, <1>e, FitOnly DEF KeepUnsupportedConditional
  <2> QED
    BY <1>2, <2>1, DecodingFits DEF Good
<1>f. CASE FoldConversion
  BY <1>3, <1>5, <1>f DEF FoldConversion, TernaryAssign
<1>g. CASE LeaveMixed
  BY <1>4, <1>g DEF LeaveMixed, TernaryAssign
<1>h. CASE FoldConstants
  BY <1>3, <1>5, <1>h DEF FoldConstants, TernaryAssign
<1>i. CASE Simplify
  BY <1>3, <1>5, <1>i DEF Simplify, TernaryAssign
<1>j. CASE LowerOperation
  <2>1. FitsCall(Call(<<HelperOf[Op], LhsTy>>, Current.lhs, Current.args), Current)
    BY <1>1, <1>j, OperationFits DEF LowerOperation
  <2> QED
    BY <1>3, <1>j, <2>1 DEF LowerOperation, TernaryAssign
<1>k. CASE KeepUnsupported
  BY <1>4, <1>k DEF KeepUnsupported, TernaryAssign
<1>l. CASE LowerComparison
  <2> DEFINE arg == Current.args[1].ty
             d == Call(<<"cmp", arg>>, Temp("i32"), Current.args)
             s == [Current EXCEPT !.args = <<Temp("i32"), C("i32", 0)>>]
  <2>1. Emit(<<d, s>>) /\ UNCHANGED decl_cache
    BY <1>l DEF LowerComparison
  <2>2. FitsCall(d, Current)
    <3>1. /\ arg \in Sizes /\ SameLayout(arg, Current.args[2].ty)
          /\ Op \in CompareCode
      BY <1>l DEF LowerComparison, Compares, Ternary, Sizes
    <3>2. Len(Current.args) = 2
      BY <1>1, <3>1, SourceShape DEF Op
    <3>3. Passed(Current.args[2].ty) = Passed(arg)
      BY <3>1, PassedIs
    <3>4. Parameters("cmp", arg) = <<arg, arg>>
      BY <3>1, ParametersAre
    <3> QED
      BY <3>2, <3>3, <3>4, TwoTaken DEF FitsCall
  <2>3. FitsCall(s, Current)
    <3>1. s.kind # "helper"
      BY <1>1 DEF SourceStmt
    <3> QED
      BY <3>1, FitOnly
  <2> HIDE DEF d, s
  <2>4. Fits(<<d, s>>, Current)
    BY <2>2, <2>3, FitOnly
  <2> QED
    BY <1>2, <2>1, <2>4 DEF Good
<1>m. CASE LowerConversion
  <2> DEFINE op == IF LhsTy \in Integral THEN "tt2b" ELSE "t2f32"
             arg == Current.args[1].ty
             s == Call(<<op, arg>>, Current.lhs, Current.args)
  <2>1. /\ Emit(<<s>>) /\ UNCHANGED decl_cache /\ arg \in Sizes /\ Op = "CONVERT_EXPR"
    BY <1>m DEF LowerConversion, ConvertsFrom, Ternary, Sizes
  <2>2. Parameters(op, arg) = <<arg>>
    BY <2>1, ParametersAre
  <2>3. Len(Current.args) = 1
    BY <1>1, <2>1, SourceShape DEF Op, UnaryCode
  <2>4. FitsCall(s, Current)
    BY <2>2, <2>3, OneTaken DEF FitsCall
  <2> HIDE DEF s
  <2> QED
    BY <1>3, <2>1, <2>4
<1>n. CASE LowerBuiltin
  <2>1. FitsCall(Call(BuiltinDecl, Current.lhs, Current.args), Current)
    BY <1>1, <1>n, BuiltinFits DEF LowerBuiltin, Builtin
  <2> QED
    BY <1>3, <1>n, <2>1 DEF LowerBuiltin
<1>o. CASE LowerTernaryCompare
  <2> DEFINE decl == Cached(CompareKey(LhsTy), <<Op, LhsTy>>)
  <2>1. /\ Emit(<<Call(decl, Current.lhs, Current.args)>>) /\ Remember(CompareKey(LhsTy), decl)
        /\ Op \in TernaryCompare /\ LhsTy \in Ternary /\ CallsBuiltin
    BY <1>o DEF LowerTernaryCompare, Builtin
  <2>2. PICK op \in TernaryCompare : decl = <<op, LhsTy>>
    BY <1>6, <2>1 DEF CompareOwn, Cached
  <2>3. CompareOwn'
    BY <1>6, <2>1, <2>2, CompareOwnKept
  <2> HIDE DEF decl
  <2>4. Len(Current.args) = 2 /\ DOMAIN Current.args = 1 .. 2
    BY <1>1, <2>1, SourceShape DEF CallsBuiltin, Arguments, TernaryCompare, ConvBuiltin
  <2>5. \A i \in 1 .. 2 : Passed(Current.args[i].ty) = Passed(LhsTy)
    BY <1>1, <2>1, <2>4 DEF CallsBuiltin, Prototyped, Alike, Op, LhsTy
  <2>6. Parameters(op, LhsTy) = <<LhsTy, LhsTy>>
    BY <2>1, <2>2, ParametersAre DEF TernaryCompare, OrderWords, Ternary, Sizes
  <2>7. FitsCall(Call(decl, Current.lhs, Current.args), Current)
    BY <2>2, <2>4, <2>5, <2>6, TwoTaken DEF FitsCall
  <2> QED
    BY <2>1, <2>3, <2>7, FitOnly DEF Good
<1>p. CASE LowerBuiltinSelect
  <2> DEFINE s == Call(SelectDecl(LhsTy), Current.lhs, Current.args)
  <2>1. /\ Emit(<<s>>) /\ Remember(SelectKey(LhsTy), SelectDecl(LhsTy))
        /\ Current.kind = "builtin"
    BY <1>p DEF LowerBuiltinSelect, Builtin, CallsBuiltin
  <2>2. FitsCall(s, Current)
    BY <1>7, <2>1, MispassedCall DEF FitsCall
  <2> HIDE DEF s
  <2> QED
    BY <1>7, <2>1, <2>2, FitOnly DEF Good
<1>q. CASE LowerLoad
  <2>1. FitsCall(Stmt("assign", "MEM_REF", "", Current.lhs, Current.args), Current)
    BY FitOnly DEF Stmt
  <2> QED
    BY <1>3, <1>q, <2>1 DEF LowerLoad
<1>r. CASE PassOver
  BY <1>4, <1>r DEF PassOver
<1> QED
  BY <1>a, <1>b, <1>c, <1>d, <1>e, <1>f, <1>g, <1>h, <1>i, <1>j, <1>k, <1>l,
     <1>m, <1>n, <1>o, <1>p, <1>q, <1>r DEF Next, Good

-----------------------------------------------------------------------------
(* Between the functions: every statement the pass sees is as its          *)
(* prototypes have it, and so is every one to come, and each group of code *)
(* fits the statement it came from.                                        *)
FitInv ==
  /\ ToolInv
  /\ unit \in Units
  /\ CompareOwn
  /\ \A k \in DOMAIN todo : Prototyped(todo[k])
  /\ \A i \in DOMAIN done : Fits(done[i].code, done[i].src)

LEMMA InitFitInv == ToolInit => FitInv
<1> SUFFICES ASSUME ToolInit PROVE FitInv
  OBVIOUS
<1>1. ToolInv
  BY InitToolInv
<1>2. CompareOwn
  BY DEF ToolInit, CompareOwn, CompareKey, Key
<1>3. done = <<>> /\ todo = <<>> /\ unit \in Units
  BY DEF ToolInit
<1> QED
  BY <1>1, <1>2, <1>3 DEF FitInv

LEMMA StepFitInv == FitInv /\ [ToolNext]_toolVars => FitInv'
<1> SUFFICES ASSUME FitInv, [ToolNext]_toolVars PROVE FitInv'
  OBVIOUS
<1>1. ToolInv'
  BY StepToolInv DEF FitInv
<1>2. UNCHANGED unit
  BY DEF ToolNext, Load, Refuse, ParseArg, StartUnit, EnterFunction, PassStep, FinishUnit, toolVars
<1>3. CASE PassStep
  <2>1. todo \in Seq(SourceStmt) /\ IsSequence(done) /\ CacheOwn /\ CompareOwn /\ Next
        /\ \A k \in DOMAIN todo : Prototyped(todo[k])
    BY <1>3 DEF FitInv, ToolInv, IInv, PassStep
  <2>2. CompareOwn'
    BY <2>1, StepFits
  <2>3. PICK code : Emit(code) /\ Fits(code, Current)
    BY <2>1, StepFits
  <2>4. \A i \in DOMAIN done' :
          \/ i \in DOMAIN done /\ done'[i] = done[i]
          \/ done'[i] = [src |-> Current, code |-> code]
    BY <2>1, <2>3 DEF Emit, IsSequence
  <2>5. \A i \in DOMAIN done' : Fits(done'[i].code, done'[i].src)
    BY <2>3, <2>4 DEF FitInv
  <2>6. \A k \in DOMAIN todo' : Prototyped(todo'[k])
    <3>1. todo # <<>> /\ todo' = Tail(todo)
      BY <2>1, <2>3, StepWalks DEF Emit
    <3>2. \A k \in DOMAIN Tail(todo) : k + 1 \in DOMAIN todo /\ Tail(todo)[k] = todo[k + 1]
      BY <2>1, <3>1
    <3> QED
      BY <2>1, <3>1, <3>2
  <2> QED
    BY <1>1, <1>2, <2>2, <2>5, <2>6 DEF FitInv
<1>4. CASE EnterFunction
  <2>1. /\ unit \in Units /\ next \in DOMAIN unit /\ unit[next] \in Seq(SourceStmt)
        /\ todo' = Seen(unit[next], type_uids)
    BY <1>4 DEF FitInv, ToolInv, Stages, EnterFunction
  <2>2. ASSUME NEW k \in DOMAIN todo' PROVE Prototyped(todo'[k])
    <3>1. k \in DOMAIN unit[next] /\ todo'[k] = SeenStatement(unit[next][k], type_uids)
      BY <2>1, <2>2, SeenIs
    <3>2. Prototyped(unit[next][k]) /\ unit[next][k] \in SourceStmt
      BY <2>1, <3>1, PrototypeAssumption
    <3> QED
      BY <3>1, <3>2, SeenPrototyped
  <2>3. UNCHANGED <<done, decl_cache>>
    BY <1>4 DEF EnterFunction, static
  <2> QED
    BY <1>1, <1>2, <2>2, <2>3 DEF FitInv, CompareOwn
<1>5. CASE ~PassStep /\ ~EnterFunction
  <2>1. UNCHANGED <<todo, done, decl_cache>>
    BY <1>5 DEF ToolNext, Load, Refuse, ParseArg, StartUnit, FinishUnit, toolVars, vars, static
  <2> QED
    BY <1>1, <1>2, <2>1 DEF FitInv, CompareOwn
<1> QED
  BY <1>3, <1>4, <1>5

(* Whatever unit is compiled, with whatever options: a helper is passed    *)
(* what its definition takes, but for the calls Mispassed lists.           *)
THEOREM HelpersTakeOperands == ToolSpec => []OperandsFit
<1>1. FitInv => OperandsFit
  <2> SUFFICES ASSUME FitInv, done # <<>>, NEW s \in LastCalls
               PROVE  TakesOperands(s) \/ Mispassed(s, LastGroup.src)
    BY DEF OperandsFit
  <2>1. IsSequence(done)
    BY DEF FitInv, ToolInv, IInv
  <2>2. Len(done) \in DOMAIN done /\ LastGroup = done[Len(done)]
    BY <2>1 DEF LastGroup, Last, IsSequence
  <2>3. PICK k \in DOMAIN LastGroup.code : s = LastGroup.code[k]
    BY DEF LastCalls
  <2>4. Fits(LastGroup.code, LastGroup.src)
    BY <2>2 DEF FitInv
  <2> QED
    BY <2>3, <2>4 DEF LastCalls, Fits, FitsCall
<1> QED
  BY <1>1, InitFitInv, StepFitInv, PTL DEF ToolSpec
-----------------------------------------------------------------------------
(* The linked program.  The code the pass puts in place of a statement     *)
(* calls at most one helper that has several bodies, and calls it on words *)
(* in variables of the source (Links), where all bodies return the same    *)
(* word but for the header's exclusive or.  So the code runs as MeaningKept *)
(* has it.  A builtin on ints is left as one call on its operands, and its *)
(* helper computes in an int what fits one (IntExact).                     *)

(* What the variables hold after s, if they held env before. *)
AfterLinked(s, source, env) ==
  Updated(env, s.lhs.n, IF s.kind = "helper"
                        THEN Result(s, BodyOf(s, source), ArgValues(s.args, env))
                        ELSE Execute(s, env))

(* One or two statements in a row. *)
LEMMA LinkedOne ==
  ASSUME NEW s, NEW source, NEW env
  PROVE  RunLinked(<<s>>, source, env) = AfterLinked(s, source, env)
<1> DEFINE code == <<s>>
           F(h) == [i \in 0 .. Len(code) |->
                     IF i = 0 THEN env ELSE AfterLinked(code[i], source, h[i - 1])]
           after == CHOOSE h : h = F(h)
           g == [i \in 0 .. 1 |-> IF i = 0 THEN env ELSE AfterLinked(s, source, env)]
<1>1. RunLinked(code, source, env) = after[Len(code)]
  BY DEF RunLinked, AfterLinked, ArgValues
<1>2. Len(code) = 1 /\ code[1] = s
  OBVIOUS
<1>3. g = F(g)
  <2>1. \A i \in 0 .. 1 : i = 0 \/ (i = 1 /\ i - 1 = 0)
    OBVIOUS
  <2>2. g[0] = env /\ 0 \in 0 .. 1
    OBVIOUS
  <2> HIDE DEF code
  <2>3. \A i \in 0 .. 1 : g[i] = F(g)[i]
    BY <1>2, <2>1, <2>2
  <2> QED
    BY <1>2, <2>3
<1>4. after = F(after)
  <2> HIDE DEF F
  <2> QED BY <1>3
<1> HIDE DEF after, code
<1>5. after[0] = env /\ after[1] = AfterLinked(s, source, after[0])
  <2>1. 0 \in 0 .. Len(code) /\ 1 \in 0 .. Len(code) /\ 1 - 1 = 0
    BY <1>2
  <2> QED
    BY <1>2, <1>4, <2>1
<1> QED
  BY <1>1, <1>2, <1>5 DEF code

LEMMA LinkedTwo ==
  ASSUME NEW s, NEW u, NEW source, NEW env
  PROVE  RunLinked(<<s, u>>, source, env) = AfterLinked(u, source, AfterLinked(s, source, env))
<1> DEFINE code == <<s, u>>
           F(h) == [i \in 0 .. Len(code) |->
                     IF i = 0 THEN env ELSE AfterLinked(code[i], source, h[i - 1])]
           after == CHOOSE h : h = F(h)
           g == [i \in 0 .. 2 |-> IF i = 0 THEN env
                                  ELSE IF i = 1 THEN AfterLinked(s, source, env)
                                  ELSE AfterLinked(u, source, AfterLinked(s, source, env))]
<1>1. RunLinked(code, source, env) = after[Len(code)]
  BY DEF RunLinked, AfterLinked, ArgValues
<1>2. Len(code) = 2 /\ code[1] = s /\ code[2] = u
  OBVIOUS
<1>3. g = F(g)
  <2>1. \A i \in 0 .. 2 : i = 0 \/ (i = 1 /\ i - 1 = 0) \/ (i = 2 /\ i - 1 = 1)
    OBVIOUS
  <2>2. g[0] = env /\ g[1] = AfterLinked(s, source, env) /\ 0 \in 0 .. 2 /\ 1 \in 0 .. 2
    OBVIOUS
  <2> HIDE DEF code
  <2>3. \A i \in 0 .. 2 : g[i] = F(g)[i]
    BY <1>2, <2>1, <2>2
  <2> QED
    BY <1>2, <2>3
<1>4. after = F(after)
  <2> HIDE DEF F
  <2> QED BY <1>3
<1> HIDE DEF after, code
<1>5. /\ after[0] = env /\ after[1] = AfterLinked(s, source, after[0])
      /\ after[2] = AfterLinked(u, source, after[1])
  <2>1. /\ 0 \in 0 .. Len(code) /\ 1 \in 0 .. Len(code) /\ 2 \in 0 .. Len(code)
        /\ 1 - 1 = 0 /\ 2 - 1 = 1
    BY <1>2
  <2> QED
    BY <1>2, <1>4, <2>1
<1> QED
  BY <1>1, <1>2, <1>5 DEF code

(* A statement whose body returns what HelperResult has runs alike. *)
LEMMA RunsAlike ==
  ASSUME NEW s, NEW source, NEW env,
         s.kind = "helper" => Result(s, BodyOf(s, source), ArgValues(s.args, env))
                                = HelperResult(s.op, ArgValues(s.args, env))
  PROVE  AfterLinked(s, source, env) = After(s, env)
  BY DEF AfterLinked, After, Execute, ArgValues

(* A select has one body. *)
LEMMA SelectAlike ==
  ASSUME NEW s, s.op = "select", NEW body, NEW v
  PROVE  Result(s, body, v) = HelperResult(s.op, v)
  BY DEF Result, HelperResult

(* The helpers on words that the pass calls for an operator. *)
Unaries == {"neg", "not", "tt2b", "t2f32"}
Binaries == {"add", "sub", "mul", "div", "mod", "and", "or", "xor", "cmp"}

LEMMA BodiesAgree ==
  ASSUME NEW s, s.op \in Unaries \cup Binaries, s.suf \in Sizes,
         NEW body \in {"runtime", "skeleton", "inline"}, ~(s.op = "xor" /\ body = "inline"),
         NEW v \in Seq(Word), Len(v) = IF s.op \in Unaries THEN 1 ELSE 2
  PROVE  Result(s, body, v) = HelperResult(s.op, v)
<1> DEFINE y == IF Len(v) > 1 THEN v[2] ELSE v[1]
<1>1. /\ v[1] \in Word /\ y \in Word /\ (s.op \in Binaries => y = v[2])
      /\ s.op # "select" /\ s.suf # ""
  <2>1. s.op # "select" /\ s.suf # "" /\ (s.op \in Binaries => s.op \notin Unaries)
    BY DEF Unaries, Binaries, Sizes
  <2>2. v[1] \in Word /\ (Len(v) = 2 => v[2] \in Word)
    <3>1. 1 \in 1 .. Len(v) /\ (Len(v) = 2 => 2 \in 1 .. Len(v))
      OBVIOUS
    <3> QED
      BY <3>1
  <2>3. s.op \in Binaries => Len(v) = 2
    BY <2>1
  <2>4. /\ Len(v) = 2 => y = v[2]
        /\ Len(v) = 1 => y = v[1]
    OBVIOUS
  <2>5. Len(v) = 1 \/ Len(v) = 2
    OBVIOUS
  <2> HIDE DEF y
  <2> QED
    BY <2>1, <2>2, <2>3, <2>4, <2>5
<1> HIDE DEF y
<1>2. Result(s, body, v) =
        IF s.op = "t2f32" \/ body = "runtime" THEN HelperResult(s.op, v)
        ELSE IF s.op \in {"cmp", "tt2b"}
             THEN IF body = "inline" THEN HeaderScalar(s.op, v[1], y) ELSE SkeletonScalar(s.op, v[1], y)
        ELSE IF body = "inline" THEN HeaderWord(s.op, v[1], y, y, 0)
             ELSE SkeletonWord(s.op, v[1], y, y, 0)
  BY <1>1 DEF Result, y
<1>3. CASE s.op = "t2f32" \/ body = "runtime"
  BY <1>2, <1>3
<1>4. CASE s.op \in {"cmp", "tt2b"} /\ body # "runtime"
  <2>1. /\ SkeletonScalar("cmp", v[1], y) = Cmp(v[1], y) /\ HeaderScalar("cmp", v[1], y) = Cmp(v[1], y)
        /\ SkeletonScalar("tt2b", v[1], y) = Decode(v[1]) /\ HeaderScalar("tt2b", v[1], y) = Decode(v[1])
    BY <1>1, ScalarsCompute
  <2>2. HelperResult("cmp", v) = Cmp(v[1], v[2]) /\ HelperResult("tt2b", v) = Decode(v[1])
    BY DEF HelperResult
  <2> QED
    BY <1>1, <1>2, <1>4, <2>1, <2>2 DEF Binaries
<1>5. CASE s.op \notin {"cmp", "tt2b", "t2f32"} /\ body # "runtime"
  <2>1. 0 \in Int
    OBVIOUS
  <2> DEFINE R(op) == IF body = "inline" THEN HeaderWord(op, v[1], y, y, 0)
                      ELSE SkeletonWord(op, v[1], y, y, 0)
  <2>2. /\ R("add") = Add(v[1], y) /\ R("sub") = Sub(v[1], y) /\ R("mul") = Mul(v[1], y)
        /\ R("div") = Div(v[1], y) /\ R("mod") = Mod(v[1], y)
        /\ R("neg") = Neg(v[1]) /\ R("not") = Neg(v[1])
        /\ R("and") = TritwiseOp(v[1], y, TritMin) /\ R("or") = TritwiseOp(v[1], y, TritMax)
        /\ body # "inline" => R("xor") = TritwiseOp(v[1], y, TritXor)
    <3>1. CASE body = "inline"
      <4>1. /\ HeaderWord("add", v[1], y, y, 0) = Add(v[1], y)
            /\ HeaderWord("sub", v[1], y, y, 0) = Sub(v[1], y)
            /\ HeaderWord("mul", v[1], y, y, 0) = Mul(v[1], y)
            /\ HeaderWord("div", v[1], y, y, 0) = Div(v[1], y)
            /\ HeaderWord("mod", v[1], y, y, 0) = Mod(v[1], y)
            /\ HeaderWord("neg", v[1], y, y, 0) = Neg(v[1])
            /\ HeaderWord("not", v[1], y, y, 0) = Neg(v[1])
            /\ HeaderWord("and", v[1], y, y, 0) = TritwiseOp(v[1], y, TritMin)
            /\ HeaderWord("or", v[1], y, y, 0) = TritwiseOp(v[1], y, TritMax)
        <5>1. PICK x \in Word, z \in Word : x = v[1] /\ z = y
          BY <1>1
        <5>2. /\ HeaderWord("add", x, z, z, 0) = Add(x, z)
              /\ HeaderWord("sub", x, z, z, 0) = Sub(x, z)
              /\ HeaderWord("mul", x, z, z, 0) = Mul(x, z)
              /\ HeaderWord("div", x, z, z, 0) = Div(x, z)
              /\ HeaderWord("mod", x, z, z, 0) = Mod(x, z)
              /\ HeaderWord("neg", x, z, z, 0) = Neg(x)
              /\ HeaderWord("not", x, z, z, 0) = Neg(x)
              /\ HeaderWord("and", x, z, z, 0) = TritwiseOp(x, z, TritMin)
              /\ HeaderWord("or", x, z, z, 0) = TritwiseOp(x, z, TritMax)
          BY <2>1, HeaderComputes
        <5> QED
          BY <5>1, <5>2
      <4> QED
        BY <3>1, <4>1
    <3>2. CASE body # "inline"
      <4>1. /\ SkeletonWord("add", v[1], y, y, 0) = Add(v[1], y)
            /\ SkeletonWord("sub", v[1], y, y, 0) = Sub(v[1], y)
            /\ SkeletonWord("mul", v[1], y, y, 0) = Mul(v[1], y)
            /\ SkeletonWord("div", v[1], y, y, 0) = Div(v[1], y)
            /\ SkeletonWord("mod", v[1], y, y, 0) = Mod(v[1], y)
            /\ SkeletonWord("neg", v[1], y, y, 0) = Neg(v[1])
            /\ SkeletonWord("not", v[1], y, y, 0) = Neg(v[1])
            /\ SkeletonWord("and", v[1], y, y, 0) = TritwiseOp(v[1], y, TritMin)
            /\ SkeletonWord("or", v[1], y, y, 0) = TritwiseOp(v[1], y, TritMax)
            /\ SkeletonWord("xor", v[1], y, y, 0) = TritwiseOp(v[1], y, TritXor)
        <5>1. PICK x \in Word, z \in Word : x = v[1] /\ z = y
          BY <1>1
        <5>2. /\ SkeletonWord("add", x, z, z, 0) = Add(x, z)
              /\ SkeletonWord("sub", x, z, z, 0) = Sub(x, z)
              /\ SkeletonWord("mul", x, z, z, 0) = Mul(x, z)
              /\ SkeletonWord("div", x, z, z, 0) = Div(x, z)
              /\ SkeletonWord("mod", x, z, z, 0) = Mod(x, z)
              /\ SkeletonWord("neg", x, z, z, 0) = Neg(x)
              /\ SkeletonWord("not", x, z, z, 0) = Neg(x)
              /\ SkeletonWord("and", x, z, z, 0) = TritwiseOp(x, z, TritMin)
              /\ SkeletonWord("or", x, z, z, 0) = TritwiseOp(x, z, TritMax)
              /\ SkeletonWord("xor", x, z, z, 0) = TritwiseOp(x, z, TritXor)
          BY <2>1, SkeletonComputes
        <5> QED
          BY <5>1, <5>2
      <4> QED
        BY <3>2, <4>1
    <3> QED
      BY <3>1, <3>2
  <2>3. Result(s, body, v) = R(s.op)
    BY <1>2, <1>5
  <2> HIDE DEF R
  <2>4. /\ HelperResult("add", v) = Add(v[1], v[2]) /\ HelperResult("sub", v) = Sub(v[1], v[2])
        /\ HelperResult("mul", v) = Mul(v[1], v[2]) /\ HelperResult("div", v) = Div(v[1], v[2])
        /\ HelperResult("mod", v) = Mod(v[1], v[2])
        /\ HelperResult("neg", v) = Neg(v[1]) /\ HelperResult("not", v) = Neg(v[1])
        /\ HelperResult("and", v) = TritwiseOp(v[1], v[2], TritMin)
        /\ HelperResult("or", v) = TritwiseOp(v[1], v[2], TritMax)
        /\ HelperResult("xor", v) = TritwiseOp(v[1], v[2], TritXor)
    BY DEF HelperResult
  <2>5. CASE s.op = "xor"
    BY <1>1, <2>2, <2>3, <2>4, <2>5 DEF Binaries
  <2>6. CASE s.op \in {"neg", "not"}
    BY <2>2, <2>3, <2>4, <2>6
  <2>7. CASE s.op \in {"add", "sub", "mul", "div", "mod", "and", "or"}
    BY <1>1, <2>2, <2>3, <2>4, <2>7 DEF Binaries
  <2> QED
    BY <1>5, <2>5, <2>6, <2>7 DEF Unaries, Binaries
<1> QED
  BY <1>3, <1>4, <1>5

-----------------------------------------------------------------------------
(* What a call in the place of a statement may look like. *)
PlainCall(s) == s.kind = "helper" => s.op = "select"
WordCall(s, src) ==
  /\ s.kind = "helper" /\ s.op \in Unaries \cup Binaries /\ s.suf \in Sizes
  /\ DOMAIN s.args = 1 .. IF s.op \in Unaries THEN 1 ELSE 2
  /\ \A i \in DOMAIN s.args :
       \E k \in DOMAIN src.args : s.args[i] = src.args[k] /\ src.args[k].ty \in Ternary
Links(code, src) ==
  \/ \E s : code = <<s>> /\ (PlainCall(s) \/ WordCall(s, src))
  \/ \E d, s : code = <<d, s>> /\ WordCall(d, src) /\ PlainCall(s)

(* The ternary operands of src are words. *)
TakesWords(src, env) ==
  \A k \in DOMAIN src.args : src.args[k].ty \in Ternary => Value(src.args[k], env) \in Word

(* A builtin on integers becomes the helper of its name on its operands. *)
IntCall(code, src) ==
  /\ src.op \in IntBuiltins \ Orders
  /\ DOMAIN src.args = 1 .. Arguments(src.op) /\ Len(src.args) = Arguments(src.op)
  /\ code = <<Call(<<src.op, "">>, src.lhs, src.args)>>

LEMMA PlainRuns ==
  ASSUME NEW s, PlainCall(s), NEW source, NEW env
  PROVE  AfterLinked(s, source, env) = After(s, env)
  BY RunsAlike, SelectAlike DEF PlainCall

LEMMA WordRuns ==
  ASSUME NEW s, NEW src, WordCall(s, src), NEW env, TakesWords(src, env),
         NEW source, BodyOf(s, source) \in {"runtime", "skeleton", "inline"},
         ~(s.op = "xor" /\ BodyOf(s, source) = "inline")
  PROVE  AfterLinked(s, source, env) = After(s, env)
<1> DEFINE v == ArgValues(s.args, env)
           n == IF s.op \in Unaries THEN 1 ELSE 2
<1>2. \A i \in DOMAIN s.args : Value(s.args[i], env) \in Word
  BY DEF WordCall, TakesWords
<1>3. v = [i \in 1 .. n |-> Value(s.args[i], env)] /\ n \in {1, 2}
      /\ \A i \in 1 .. n : Value(s.args[i], env) \in Word
  BY <1>2 DEF ArgValues, WordCall
<1> HIDE DEF v
<1>4. v \in Seq(Word) /\ Len(v) = n
  <2> HIDE DEF n
  <2> QED BY <1>3
<1>5. Result(s, BodyOf(s, source), v) = HelperResult(s.op, v)
  BY <1>4, BodiesAgree DEF WordCall
<1> QED
  BY <1>5, RunsAlike DEF v

(* What the code leaves is what it leaves with the runtime's helpers. *)
LEMMA GroupLinked ==
  ASSUME NEW code, NEW src, Links(code, src), NEW env, TakesWords(src, env),
         NEW source, build.library \in {"runtime", "skeleton"},
         ~RunsInlineXor([src |-> src, code |-> code], source)
  PROVE  RunLinked(code, source, env) = Run(code, env)
<1>1. \A s : BodyOf(s, source) \in {"runtime", "skeleton", "inline"}
  BY DEF BodyOf
<1>2. \A i \in DOMAIN code : ~(code[i].op = "xor" /\ BodyOf(code[i], source) = "inline")
  BY DEF RunsInlineXor
<1>3. CASE \E s : code = <<s>> /\ (PlainCall(s) \/ WordCall(s, src))
  <2>1. PICK s : code = <<s>> /\ (PlainCall(s) \/ WordCall(s, src))
    BY <1>3
  <2>2. 1 \in DOMAIN code /\ code[1] = s
    BY <2>1
  <2>3. AfterLinked(s, source, env) = After(s, env)
    BY <1>1, <1>2, <2>1, <2>2, PlainRuns, WordRuns
  <2> QED
    BY <2>1, <2>3, LinkedOne, RunOne
<1>4. CASE \E d, s : code = <<d, s>> /\ WordCall(d, src) /\ PlainCall(s)
  <2>1. PICK d, s : code = <<d, s>> /\ WordCall(d, src) /\ PlainCall(s)
    BY <1>4
  <2>2. 1 \in DOMAIN code /\ code[1] = d
    BY <2>1
  <2>3. AfterLinked(d, source, env) = After(d, env)
    BY <1>1, <1>2, <2>1, <2>2, WordRuns
  <2>4. AfterLinked(s, source, After(d, env)) = After(s, After(d, env))
    BY <2>1, PlainRuns
  <2> QED
    BY <2>1, <2>3, <2>4, LinkedTwo, RunTwo
<1> QED
  BY <1>3, <1>4 DEF Links

-----------------------------------------------------------------------------
(* The exclusive or of two integers is the trit congruent to their sum. *)
LEMMA XorIs ==
  ASSUME NEW x \in Int, NEW y \in Int
  PROVE  TritXor(x, y) = CHOOSE t \in -1 .. 1 : (t - x - y) % 3 = 0
<1> DEFINE s == x + y
           r == (CRem(s, 3) + 3) % 3
<1>1. r = s % 3
  <2> HIDE DEF s
  <2>1. s \in Int
    BY DEF s
  <2> QED
    BY <2>1, Z3 DEF CRem
<1>2. TritXor(x, y) = IF r = 0 THEN 0 ELSE IF r = 1 THEN 1 ELSE -1
  BY DEF TritXor
<1>3. \A t \in -1 .. 1 : (t - x - y) % 3 = 0 <=> t = TritXor(x, y)
  <2> HIDE DEF r
  <2>1. \A t \in -1 .. 1 : t - x - y = t - s
    OBVIOUS
  <2>2. s \in Int
    OBVIOUS
  <2> HIDE DEF s
  <2>3. \A t \in -1 .. 1 : (t - s) % 3 = 0 <=> t = IF s % 3 = 0 THEN 0 ELSE IF s % 3 = 1 THEN 1 ELSE -1
    BY <2>2, Z3
  <2> QED
    BY <1>1, <1>2, <2>1, <2>3
<1>4. TritXor(x, y) \in -1 .. 1
  BY <1>2
<1> HIDE DEF r
<1> QED
  BY <1>3, <1>4

LEMMA QuotientInt == \A x, y \in Int : CDiv(x, y) \in Int
<1>1. \A x \in Nat, d \in Nat \ {0} : x \div d \in Int
  OBVIOUS
<1> QED
  BY <1>1 DEF CDiv, CQuot

(* A helper on ints computes what fits one. *)
LEMMA IntExact ==
  ASSUME NEW op \in IntBuiltins \ Orders, NEW x \in Int, NEW y \in Int,
         Promised(op, y, IntMeaning(op, x, y))
  PROVE  IntResult(op, x, y, MaxShort) = IntMeaning(op, x, y)
<1> DEFINE m == IntMeaning(op, x, y)
           p == Pow3[IF y > 0 THEN y ELSE 0]
<1>1. -MaxShort - 1 <= m /\ m <= MaxShort
  BY DEF Promised
<1>2. ASSUME m \in Int PROVE WrapTo(m, MaxShort) = m /\ Wrap(m) = m
  <2>1. m \in -MaxShort - 1 .. MaxShort /\ m \in CInteger
    BY <1>1, <1>2, ShortAssumption, MaxIntAssumption DEF CInteger, MinInt
  <2> HIDE DEF m
  <2> QED
    BY <2>1, ShortAssumption, WrapToIdentity, WrapIdentity
<1>3. CDiv(x, y) \in Int /\ CDiv(x, p) \in Int /\ p \in Int /\ x * p \in Int
  <2>1. p \in Int
    BY Pow3Facts
  <2> HIDE DEF p
  <2> QED
    BY <2>1, QuotientInt
<1>4. CASE op \in {"add", "sub", "mul", "div", "neg", "not"}
  <2>1. m = CASE op = "add" -> x + y [] op = "sub" -> x - y [] op = "mul" -> x * y
              [] op = "div" -> CDiv(x, y) [] OTHER -> -x
    BY <1>4 DEF IntMeaning
  <2>2. m \in Int
    BY <1>3, <1>4, <2>1
  <2>3. IntResult(op, x, y, MaxShort) = WrapTo(m, MaxShort)
    BY <1>4, <2>1 DEF IntResult
  <2> QED
    BY <1>2, <2>2, <2>3
<1>5. CASE op \in {"mod", "and", "or", "cmp"}
  BY <1>5 DEF IntResult, IntMeaning
<1>6. CASE op = "xor"
  BY <1>6, XorIs DEF IntResult, IntMeaning, IntXorAsBuilt
<1>7. CASE op \in {"shl", "shr"}
  <2>1. ShiftPower(y) = p
    BY <1>7, ShiftPowerIs DEF Promised
  <2>2. m = IF op = "shl" THEN x * p ELSE CDiv(x, p)
    BY <1>7 DEF IntMeaning
  <2>3. m \in Int
    BY <1>3, <2>2
  <2>4. IntResult(op, x, y, MaxShort) = WrapTo(Wrap(m), MaxShort)
    BY <1>7, <2>1, <2>2 DEF IntResult
  <2> QED
    BY <1>2, <2>3, <2>4
<1> QED
  BY <1>4, <1>5, <1>6, <1>7 DEF IntBuiltins, RuntimeInt, Arithmetic, Logic, Shifts, Orders

LEMMA IntLinked ==
  ASSUME NEW g, IntCall(g.code, g.src), IsIntBuiltin(g), NEW env, WellTyped(g.src, env),
         NEW source, ~RunsInlineXor(g, source)
  PROVE  LinkedRight(g, source, env)
<1> DEFINE src == g.src
           s == Call(<<src.op, "">>, src.lhs, src.args)
           v == ArgValues(src.args, env)
           n == Arguments(src.op)
           x == Value(src.args[1], env)
           y == Value(src.args[IF 2 <= Len(src.args) THEN 2 ELSE 1], env)
           body == BodyOf(s, source)
<1>1. /\ src.op \in IntBuiltins \ Orders /\ DOMAIN src.args = 1 .. n /\ Len(src.args) = n
      /\ n \in {1, 2} /\ src.op # "select"
  BY DEF IntCall, Arguments, IntBuiltins, RuntimeInt, Arithmetic, Logic, Shifts
<1>2. /\ s.kind = "helper" /\ s.op = src.op /\ s.suf = "" /\ s.lhs = src.lhs /\ s.args = src.args
      /\ g.code = <<s>>
  BY DEF Call, Stmt, IntCall
<1> HIDE DEF s
<1>3. \A i \in 1 .. n : Value(src.args[i], env) \in Int
  <2>1. \A i \in DOMAIN src.args : src.args[i].ty = "i32" /\ Value(src.args[i], env) \in ValuesOf("i32")
    BY DEF IsIntBuiltin, WellTyped
  <2>2. ValuesOf("i32") \subseteq Int
    BY ShortAssumption DEF ValuesOf, Ternary
  <2> QED
    BY <1>1, <2>1, <2>2
<1>4. /\ Len(v) = n /\ v[1] = x /\ (IF Len(v) > 1 THEN v[2] ELSE v[1]) = y
      /\ x \in Int /\ y \in Int
  <2>1. v = [i \in 1 .. n |-> Value(src.args[i], env)]
    BY <1>1 DEF ArgValues
  <2>2. 1 \in 1 .. n /\ (n = 2 => 2 \in 1 .. n)
    BY <1>1
  <2>3. Len(v) = n
    <3> HIDE DEF v
    <3>1. n \in Nat
      BY <1>1
    <3> HIDE DEF n
    <3> QED BY <2>1, <3>1
  <2> HIDE DEF v, n
  <2> QED
    BY <1>1, <1>3, <2>1, <2>2, <2>3
<1>5. RunLinked(g.code, source, env)[src.lhs.n] = Result(s, body, v)
  <2>1. RunLinked(g.code, source, env) = AfterLinked(s, source, env)
    BY <1>2, LinkedOne
  <2>2. AfterLinked(s, source, env) = Updated(env, src.lhs.n, Result(s, body, v))
    BY <1>2 DEF AfterLinked
  <2> HIDE DEF v, body
  <2> QED
    BY <2>1, <2>2 DEF Updated
<1>6. ~(src.op = "xor" /\ body = "inline")
  <2>1. \A u : 1 \in DOMAIN <<u>> /\ <<u>>[1] = u
    OBVIOUS
  <2>2. 1 \in DOMAIN g.code /\ g.code[1] = s
    BY <1>2, <2>1
  <2> QED
    BY <1>2, <2>2 DEF RunsInlineXor
<1>7. Result(s, body, v) = IntResult(src.op, x, y, MaxShort)
  <2> HIDE DEF body, v, x, y
  <2> QED
    BY <1>1, <1>2, <1>4, <1>6 DEF Result, HeaderInt
<1>8. LinkedRight(g, source, env) =
        (Promised(src.op, y, IntMeaning(src.op, x, y)) =>
           RunLinked(g.code, source, env)[src.lhs.n] = IntMeaning(src.op, x, y))
  <2>1. (IF 1 <= Len(src.args) THEN 1 ELSE 1) = 1
    OBVIOUS
  <2> QED
    BY <2>1 DEF LinkedRight
<1> HIDE DEF x, y, v, body
<1> QED
  BY <1>1, <1>4, <1>5, <1>7, <1>8, IntExact

-----------------------------------------------------------------------------
(* One step per action: the code it emits is a call the lemmas above cover. *)
Linkable(code) ==
  /\ Judged(code, Current) => Links(code, Current)
  /\ IsIntBuiltin(Group(code)) /\ Rewritten(Group(code)) => IntCall(code, Current)

LEMMA PlainLinks ==
  ASSUME NEW s, NEW src, PlainCall(s)
  PROVE  Links(<<s>>, src)
  BY DEF Links

LEMMA CallParts ==
  \A decl, to, list :
    LET s == Call(decl, to, list) IN
    s.kind = "helper" /\ s.op = decl[1] /\ s.suf = decl[2] /\ s.lhs = to /\ s.args = list
  BY DEF Call, Stmt

LEMMA FirstIsJudged ==
  ASSUME NEW code, NEW src, Judged(code, src), NEW s,
         code = <<s>> \/ \E u : code = <<s, u>>
  PROVE  ~RawOperand(s) /\ Usual(src)
<1>1. \A u : 1 \in DOMAIN <<s>> /\ <<s>>[1] = s /\ 1 \in DOMAIN <<s, u>> /\ <<s, u>>[1] = s
  OBVIOUS
<1>2. 1 \in DOMAIN code /\ code[1] = s
  BY <1>1
<1> QED
  BY <1>2 DEF Judged

LEMMA SelectLinks ==
  ASSUME Current \in SourceStmt, Conditional, NEW s, PlainCall(s),
         Judged(DecodeCond \o <<s>>, Current)
  PROVE  Links(DecodeCond \o <<s>>, Current)
<1>1. 1 \in DOMAIN Current.args
  BY SourceShape DEF Conditional, IsConditional
<1>2. CASE Arm(1).ty \in Ternary
  <2> DEFINE d == Call(<<"tt2b", Arm(1).ty>>, Temp("i64"), <<Arm(1)>>)
  <2>1. /\ d.kind = "helper" /\ d.op = "tt2b" /\ d.suf = Arm(1).ty /\ d.args = <<Arm(1)>>
    BY CallParts
  <2>2. DecodeCond \o <<s>> = <<d, s>>
    BY <1>2, PairConcat DEF DecodeCond
  <2> HIDE DEF d
  <2>3. ~RawOperand(d)
    BY <2>2, FirstIsJudged
  <2>4. \A o : DOMAIN <<o>> = 1 .. 1 /\ <<o>>[1] = o
    OBVIOUS
  <2>5. DOMAIN d.args = 1 .. 1 /\ d.args[1] = Arm(1)
    BY <2>1, <2>4
  <2>6. ~Arm(1).const
    BY <1>2, <2>1, <2>3, <2>5 DEF RawOperand
  <2>7. Arm(1) = Current.args[1]
    BY <2>6, PackShape DEF Arm, PackConstant
  <2>8. WordCall(d, Current)
    BY <1>1, <1>2, <2>1, <2>5, <2>7 DEF WordCall, Unaries, Ternary, Sizes
  <2> QED
    BY <2>2, <2>8 DEF Links
<1>3. CASE Arm(1).ty \notin Ternary
  <2>1. DecodeCond \o <<s>> = <<s>>
    BY <1>3 DEF DecodeCond
  <2> QED
    BY <2>1, PlainLinks
<1> QED
  BY <1>2, <1>3

LEMMA OperationLinks ==
  ASSUME Current \in SourceStmt, ~Mixed, LhsTy \in Ternary, Op \in DOMAIN HelperOf,
         NEW code, code = <<Call(<<HelperOf[Op], LhsTy>>, Current.lhs, Current.args)>>,
         Judged(code, Current)
  PROVE  Links(code, Current)
<1> DEFINE s == Call(<<HelperOf[Op], LhsTy>>, Current.lhs, Current.args)
<1>1. \A i \in DOMAIN code : ~RawOperand(code[i])
  BY DEF Judged
<1>2. /\ Op \in UnaryCode \cup BinaryCode
      /\ Op \notin {"CONVERT_EXPR", "LSHIFT_EXPR", "RSHIFT_EXPR"}
      /\ \A i \in DOMAIN Current.args : Current.args[i].ty \in Ternary
  BY <1>1, OperationReadsWords
<1>3. s.kind = "helper" /\ s.op = HelperOf[Op] /\ s.suf = LhsTy /\ s.args = Current.args
  BY CallParts
<1> HIDE DEF s
<1>4. \/ Op \in UnaryCode /\ HelperOf[Op] \in Unaries /\ DOMAIN Current.args = 1 .. 1
      \/ HelperOf[Op] \in Binaries \ Unaries /\ DOMAIN Current.args = 1 .. 2
  BY <1>2, SourceShape DEF Op, UnaryCode, BinaryCode, HelperOf, Unaries, Binaries
<1>5. WordCall(s, Current)
  BY <1>2, <1>3, <1>4 DEF WordCall, Ternary, Sizes
<1> QED
  BY <1>5 DEF Links, s

LEMMA ConversionLinks ==
  ASSUME Current \in SourceStmt, ConvertsFrom, NEW op \in {"tt2b", "t2f32"}
  PROVE  Links(<<Call(<<op, Current.args[1].ty>>, Current.lhs, Current.args)>>, Current)
<1> DEFINE s == Call(<<op, Current.args[1].ty>>, Current.lhs, Current.args)
<1>1. /\ s.kind = "helper" /\ s.op = op /\ s.suf = Current.args[1].ty
      /\ s.args = Current.args
  BY CallParts
<1> HIDE DEF s
<1>2. DOMAIN Current.args = 1 .. 1 /\ Current.args[1].ty \in Ternary
  BY SourceShape DEF ConvertsFrom, Op, UnaryCode
<1>3. WordCall(s, Current)
  BY <1>1, <1>2 DEF WordCall, Unaries, Ternary, Sizes
<1> QED
  BY <1>3 DEF Links, s

LEMMA ComparisonLinks ==
  ASSUME Current \in SourceStmt, Compares, Usual(Current), NEW rest
  PROVE  Links(<<Call(<<"cmp", Current.args[1].ty>>, Temp("i32"), Current.args),
                 [Current EXCEPT !.args = rest]>>, Current)
<1> DEFINE d == Call(<<"cmp", Current.args[1].ty>>, Temp("i32"), Current.args)
           t == [Current EXCEPT !.args = rest]
<1>1. /\ d.kind = "helper" /\ d.op = "cmp" /\ d.suf = Current.args[1].ty
      /\ d.args = Current.args
  BY CallParts
<1>2. PlainCall(t)
  BY DEF PlainCall, Compares, SourceStmt
<1> HIDE DEF d, t
<1>3. /\ DOMAIN Current.args = 1 .. 2 /\ Current.args[1].ty \in Ternary
      /\ SameLayout(Current.args[1].ty, Current.args[2].ty)
  BY SourceShape DEF Compares, Op
<1>4. Current.args[2].ty \in Ternary
  BY <1>3 DEF SameLayout, Usual, Ternary
<1>5. WordCall(d, Current)
  <2>1. \A i \in DOMAIN Current.args : Current.args[i].ty \in Ternary
    BY <1>3, <1>4
  <2> QED
    BY <1>1, <1>3, <2>1 DEF WordCall, Unaries, Binaries, Ternary, Sizes
<1> QED
  BY <1>2, <1>5 DEF Links, d, t

LEMMA BuiltinCalls ==
  ASSUME Current \in SourceStmt, CallsBuiltin, BuiltinDecl # NoDecl,
         Op \in IntBuiltins, LhsTy = "i32",
         \A i \in DOMAIN Current.args : Current.args[i].ty = "i32"
  PROVE  IntCall(<<Call(BuiltinDecl, Current.lhs, Current.args)>>, Current)
<1>1. DOMAIN Current.args = 1 .. Arguments(Op) /\ Len(Current.args) = Arguments(Op)
  BY SourceShape DEF CallsBuiltin
<1>2. Current.args[1].ty = "i32"
  BY <1>1 DEF Arguments
<1>3. BuiltinDecl = <<Op, "">> /\ Op \notin Orders
  BY <1>2 DEF BuiltinDecl, NoDecl, IntBuiltins, RuntimeInt, Arithmetic, Logic, Shifts, Orders,
              Suffix, Ternary, Integral, ShiftBuiltin, CmpBuiltin
<1> QED
  BY <1>1, <1>3 DEF IntCall, Op

LEMMA StepLinks ==
  ASSUME IInv, Next
  PROVE  \E code : Emit(code) /\ Linkable(code)
<1>1. Current \in SourceStmt /\ todo # <<>>
  BY StepWalks DEF IInv
<1>2. ASSUME NEW code, Emit(code), Current.kind # "builtin",
             Judged(code, Current) => Links(code, Current)
      PROVE  \E c : Emit(c) /\ Linkable(c)
  BY <1>2 DEF Linkable, IsIntBuiltin, Group
<1>3. ASSUME Leave PROVE \E c : Emit(c) /\ Linkable(c)
  <2>1. Emit(<<Current>>) /\ ~Rewritten(Group(<<Current>>))
    BY <1>3, RewrittenIs DEF Leave, Emit
  <2> QED
    BY <2>1 DEF Linkable, Judged, Group
<1>4. ASSUME NEW code, Emit(code), Current.kind = "builtin",
             IsIntBuiltin(Group(code)) => IntCall(code, Current)
      PROVE  \E c : Emit(c) /\ Linkable(c)
  BY <1>4 DEF Linkable, Judged
<1>5. \A lhs, o : PlainCall(Assign(lhs, o))
  BY DEF PlainCall, Assign, Stmt
<1>6. ASSUME NEW o, Emit(<<Assign(Current.lhs, o)>>), Current.kind # "builtin"
      PROVE  \E c : Emit(c) /\ Linkable(c)
  <2>1. Links(<<Assign(Current.lhs, o)>>, Current)
    BY <1>5, PlainLinks
  <2> QED
    BY <1>2, <1>6, <2>1
<1>7. Conditional \/ TernaryAssign => Current.kind = "assign"
  BY DEF Conditional, IsConditional, TernaryAssign
<1>a. CASE KeepConditional
  BY <1>3, <1>a DEF KeepConditional
<1>b. CASE FoldConditional
  BY <1>6, <1>7, <1>b DEF FoldConditional
<1>c. CASE MergeEqualArms
  BY <1>6, <1>7, <1>c DEF MergeEqualArms
<1>d. CASE LowerConditional
  <2> DEFINE decl == SelectDecl(Current.lhs.ty)
             s == Call(decl, Current.lhs, <<CondArg, Arm(2), Arm(3)>>)
  <2>1. Conditional /\ Emit(DecodeCond \o <<s>>) /\ Current.lhs.ty \in Type
    BY <1>d DEF LowerConditional, HasSelectDecl, Integral, Ternary, Type
  <2>2. PlainCall(s)
    BY <2>1, CallParts, SelectDeclOwn DEF PlainCall, IInv
  <2> HIDE DEF s
  <2>3. Judged(DecodeCond \o <<s>>, Current) => Links(DecodeCond \o <<s>>, Current)
    BY <1>1, <2>1, <2>2, SelectLinks
  <2> QED
    BY <1>2, <1>7, <2>1, <2>3
<1>e. CASE KeepUnsupportedConditional
  <2>1. Conditional /\ Emit(DecodeCond \o <<Current>>) /\ Current.kind # "helper"
    BY <1>1, <1>e DEF KeepUnsupportedConditional, SourceStmt
  <2>2. ~Judged(DecodeCond \o <<Current>>, Current)
    BY <2>1, RewrittenAfterDecodeCond DEF Judged, Group
  <2> QED
    BY <1>2, <1>7, <2>1, <2>2
<1>f. CASE FoldConversion
  BY <1>6, <1>7, <1>f DEF FoldConversion
<1>g. CASE LeaveMixed
  BY <1>3, <1>g DEF LeaveMixed
<1>h. CASE FoldConstants
  BY <1>6, <1>7, <1>h DEF FoldConstants
<1>i. CASE Simplify
  BY <1>6, <1>7, <1>i DEF Simplify
<1>j. CASE LowerOperation
  <2> DEFINE code == <<Call(<<HelperOf[Op], LhsTy>>, Current.lhs, Current.args)>>
  <2>1. /\ ~Mixed /\ LhsTy \in Ternary /\ Op \in DOMAIN HelperOf /\ Emit(code)
        /\ Current.kind = "assign"
    BY <1>j DEF LowerOperation, NoRewriteYet, TernaryAssign, LhsTy
  <2>2. Judged(code, Current) => Links(code, Current)
    BY <1>1, <2>1, OperationLinks
  <2> HIDE DEF code
  <2> QED
    BY <1>2, <2>1, <2>2
<1>k. CASE KeepUnsupported
  BY <1>3, <1>k DEF KeepUnsupported
<1>l. CASE LowerComparison
  <2> DEFINE rest == <<Temp("i32"), C("i32", 0)>>
             code == <<Call(<<"cmp", Current.args[1].ty>>, Temp("i32"), Current.args),
                       [Current EXCEPT !.args = rest]>>
  <2>1. Compares /\ Emit(code) /\ Current.kind # "builtin"
    BY <1>l DEF LowerComparison, Compares
  <2> HIDE DEF rest
  <2>2. Usual(Current) => Links(code, Current)
    BY <1>1, <2>1, ComparisonLinks
  <2> HIDE DEF code
  <2> QED
    BY <1>2, <2>1, <2>2 DEF Judged
<1>m. CASE LowerConversion
  <2> DEFINE op == IF LhsTy \in Integral THEN "tt2b" ELSE "t2f32"
             code == <<Call(<<op, Current.args[1].ty>>, Current.lhs, Current.args)>>
  <2>1. ConvertsFrom /\ Emit(code) /\ op \in {"tt2b", "t2f32"} /\ Current.kind # "builtin"
    BY <1>m DEF LowerConversion, ConvertsFrom
  <2> HIDE DEF op
  <2>2. Links(code, Current)
    BY <1>1, <2>1, ConversionLinks
  <2> HIDE DEF code
  <2> QED
    BY <1>2, <2>1, <2>2
<1>n. CASE LowerBuiltin
  <2> DEFINE code == <<Call(BuiltinDecl, Current.lhs, Current.args)>>
  <2>1. /\ CallsBuiltin /\ BuiltinDecl # NoDecl /\ Emit(code) /\ Current.kind = "builtin"
    BY <1>n DEF LowerBuiltin, Builtin, CallsBuiltin
  <2>2. IsIntBuiltin(Group(code)) =>
          /\ Op \in IntBuiltins /\ LhsTy = "i32"
          /\ \A i \in DOMAIN Current.args : Current.args[i].ty = "i32"
    <3> HIDE DEF code
    <3> QED BY DEF IsIntBuiltin, Group, Op, LhsTy
  <2>3. IsIntBuiltin(Group(code)) => IntCall(code, Current)
    BY <1>1, <2>1, <2>2, BuiltinCalls
  <2> HIDE DEF code
  <2> QED
    BY <1>4, <2>1, <2>3
<1>8. \A code : Op \notin IntBuiltins => ~IsIntBuiltin(Group(code))
  BY DEF IsIntBuiltin, Group, Op
<1>9. /\ \A op \in TernaryCompare \cup {"select", "load"} : op \notin IntBuiltins
      /\ Builtin => Current.kind = "builtin"
  BY DEF IntBuiltins, RuntimeInt, Arithmetic, Logic, Shifts, Orders, TernaryCompare, Builtin,
         CallsBuiltin
<1>o. CASE LowerTernaryCompare
  BY <1>4, <1>8, <1>9, <1>o DEF LowerTernaryCompare
<1>p. CASE LowerBuiltinSelect
  BY <1>4, <1>8, <1>9, <1>p DEF LowerBuiltinSelect
<1>q. CASE LowerLoad
  BY <1>4, <1>8, <1>9, <1>q DEF LowerLoad
<1>r. CASE PassOver
  BY <1>3, <1>r DEF PassOver
<1> QED
  BY <1>a, <1>b, <1>c, <1>d, <1>e, <1>f, <1>g, <1>h, <1>i, <1>j, <1>k, <1>l,
     <1>m, <1>n, <1>o, <1>p, <1>q, <1>r DEF Next

-----------------------------------------------------------------------------
(* The group passed last is of that form, and means with the runtime's     *)
(* helpers what its source means; the variables' meaning needs TempInv.    *)
LastLinks ==
  done # <<>> =>
    /\ Judged(LastGroup.code, LastGroup.src) => Links(LastGroup.code, LastGroup.src)
    /\ IsIntBuiltin(LastGroup) /\ Rewritten(LastGroup) => IntCall(LastGroup.code, LastGroup.src)
    /\ LastGroup = [src |-> LastGroup.src, code |-> LastGroup.code]

LinkInv == ToolInv /\ build \in Builds /\ TempInv /\ MeaningKept /\ LastLinks

LEMMA InitLinkInv == ToolInit => LinkInv
<1> SUFFICES ASSUME ToolInit PROVE LinkInv
  OBVIOUS
<1>1. ToolInv
  BY InitToolInv
<1>2. done = <<>> /\ DOMAIN done = {} /\ temps = 0 /\ build \in Builds
  BY DEF ToolInit
<1>3. Emitted = <<>>
  <2>1. [i \in DOMAIN done |-> done[i].code] = <<>>
    BY <1>2
  <2>2. FlattenSeq(<<>>) = <<>>
    BY DEF FlattenSeq
  <2> QED
    BY <2>1, <2>2 DEF Emitted
<1>4. TempInv
  BY <1>2, <1>3 DEF TempInv, WrittenBelow, TempsDefinedOnce
<1> QED
  BY <1>1, <1>2, <1>4 DEF LinkInv, MeaningKept, LastLinks

LEMMA StepLastLinks ==
  ASSUME IInv, Next
  PROVE  LastLinks'
<1>1. PICK code : Emit(code) /\ Linkable(code)
  BY StepLinks
<1>2. Last(done') = Group(code)
  BY <1>1, AppendFacts DEF IInv, Emit, Group, Last
<1> DEFINE g == Group(code)
<1>3. g.src = Current /\ g.code = code /\ g = [src |-> Current, code |-> code]
  BY DEF Group
<1>4. Last(done') = g
  BY <1>2
<1>5. /\ Judged(g.code, g.src) => Links(g.code, g.src)
      /\ IsIntBuiltin(g) /\ Rewritten(g) => IntCall(g.code, g.src)
      /\ g = [src |-> g.src, code |-> g.code]
  BY <1>1, <1>3 DEF Linkable
<1> HIDE DEF g
<1> QED
  BY <1>4, <1>5 DEF LastLinks, LastGroup

LEMMA StepLinkInv == LinkInv /\ [ToolNext]_toolVars => LinkInv'
<1> SUFFICES ASSUME LinkInv, [ToolNext]_toolVars PROVE LinkInv'
  OBVIOUS
<1>1. ToolInv'
  BY StepToolInv DEF LinkInv
<1>2. UNCHANGED build
  BY DEF ToolNext, Load, Refuse, ParseArg, StartUnit, EnterFunction, PassStep, FinishUnit, toolVars
<1>3. CASE PassStep
  <2>1. IInv /\ Next
    BY <1>3 DEF LinkInv, ToolInv, PassStep
  <2>2. TempInv' /\ MeaningKept'
    BY <2>1, StepTemps, StepMeaning DEF LinkInv
  <2>3. LastLinks'
    BY <2>1, StepLastLinks
  <2> QED
    BY <1>1, <1>2, <2>2, <2>3 DEF LinkInv
<1>4. CASE ~PassStep
  <2>1. UNCHANGED <<done, temps>>
    BY <1>4 DEF ToolNext, Load, Refuse, ParseArg, StartUnit, EnterFunction, FinishUnit, toolVars,
                vars, static
  <2>2. TempInv'
    BY <2>1 DEF LinkInv, TempInv, WrittenBelow, TempsDefinedOnce, Emitted
  <2>3. MeaningKept' /\ LastLinks'
    BY <2>1 DEF LinkInv, MeaningKept, LastLinks, LastGroup
  <2> QED
    BY <1>1, <1>2, <2>2, <2>3 DEF LinkInv
<1> QED
  BY <1>3, <1>4

(* Whatever unit is compiled, with whatever options, and whichever of the  *)
(* helpers' bodies the program is linked with: what the pass put in place  *)
(* of an operator computes what the operator means, and a builtin on ints  *)
(* what it stands for where that fits an int, but for the header's xor.    *)
THEOREM LinkedKeepsMeaning == ToolSpec => []LinkedMeaning
<1>1. LinkInv => LinkedMeaning
  <2> SUFFICES ASSUME LinkInv, done # <<>>,
                      LastGroup.src.kind \in {"assign", "cond"} \/ IsIntBuiltin(LastGroup),
                      Rewritten(LastGroup), Usual(LastGroup.src),
                      \A i \in DOMAIN LastGroup.code : ~RawOperand(LastGroup.code[i]),
                      NEW source \in Sources, NEW env \in Environments,
                      WellTyped(LastGroup.src, env), ~RunsInlineXor(LastGroup, source)
               PROVE  LinkedRight(LastGroup, source, env)
    BY DEF LinkedMeaning, Usual
  <2> DEFINE g == LastGroup
  <2>1. g = [src |-> g.src, code |-> g.code]
    BY DEF LinkInv, LastLinks
  <2>2. build.library \in {"runtime", "skeleton"}
    BY ToolAssumption DEF LinkInv
  <2>3. CASE IsIntBuiltin(g)
    BY <2>3, IntLinked DEF LinkInv, LastLinks
  <2>4. CASE ~IsIntBuiltin(g)
    <3>1. Judged(g.code, g.src)
      BY <2>1, <2>4 DEF Judged
    <3>2. Links(g.code, g.src)
      BY <3>1 DEF LinkInv, LastLinks
    <3>3. RunLinked(g.code, source, env) = Run(g.code, env)
      <4>1. TakesWords(g.src, env)
        BY DEF TakesWords, WellTyped, ValuesOf, Ternary
      <4> QED
        BY <2>1, <2>2, <3>2, <4>1, GroupLinked
    <3>4. SameMeaning(g)
      BY <2>4 DEF LinkInv, MeaningKept, Replaced, LastGroup, Usual
    <3> HIDE DEF g
    <3> QED
      BY <2>4, <3>3, <3>4 DEF LinkedRight, SameMeaning, g
  <2> QED
    BY <2>3, <2>4
<1> QED
  BY <1>1, InitLinkInv, StepLinkInv, PTL DEF ToolSpec

-----------------------------------------------------------------------------
(* A stretch of statements in the linked program.  All the code emitted    *)
(* runs as it does with the runtime's helpers as long as the ternary       *)
(* variables hold words, and they do before every statement: they did at   *)
(* first, and what replaces a statement writes a word to them (IsMeant).   *)

(* The states a linked run of n statements goes through. *)
IsLinkedWalk(g, source, code, env, n) ==
  g[0] = env /\ \A i \in 1 .. n : g[i] = AfterLinked(code[i], source, g[i - 1])

LEMMA LinkedWalkExists ==
  ASSUME NEW source, NEW code, NEW env
  PROVE  \A n \in Nat : \E g : g = [i \in 0 .. n |-> g[i]] /\ IsLinkedWalk(g, source, code, env, n)
<1> DEFINE S == {n \in Nat : \E g : /\ g = [i \in 0 .. n |-> g[i]]
                                    /\ IsLinkedWalk(g, source, code, env, n)}
<1>1. 0 \in S
  <2> DEFINE g == [i \in 0 .. 0 |-> env]
  <2>1. g = [i \in 0 .. 0 |-> g[i]] /\ IsLinkedWalk(g, source, code, env, 0)
    BY DEF IsLinkedWalk
  <2> HIDE DEF g
  <2> QED BY <2>1
<1>2. ASSUME NEW n \in Nat, n \in S PROVE n + 1 \in S
  <2>1. PICK g : g = [i \in 0 .. n |-> g[i]] /\ IsLinkedWalk(g, source, code, env, n)
    BY <1>2
  <2> DEFINE last == AfterLinked(code[n + 1], source, g[n])
             h == [i \in 0 .. n + 1 |-> IF i <= n THEN g[i] ELSE last]
  <2>2. \A i \in 1 .. n + 1 : (i \in 1 .. n /\ i <= n) \/ (i = n + 1 /\ ~(i <= n))
    OBVIOUS
  <2>3. \A i \in 1 .. n + 1 : i - 1 \in 0 .. n + 1 /\ i - 1 <= n
    OBVIOUS
  <2>4. h[0] = env /\ h = [i \in 0 .. n + 1 |-> h[i]]
    BY <2>1 DEF IsLinkedWalk
  <2>5. \A i \in 0 .. n + 1 : h[i] = IF i <= n THEN g[i] ELSE last
    OBVIOUS
  <2> HIDE DEF h, last
  <2>6. \A i \in 1 .. n + 1 : h[i - 1] = g[i - 1]
    BY <2>3, <2>5
  <2>7. \A i \in 1 .. n + 1 : h[i] = AfterLinked(code[i], source, h[i - 1])
    <3> TAKE i \in 1 .. n + 1
    <3>1. i \in 0 .. n + 1 /\ (n + 1) - 1 = n
      OBVIOUS
    <3>2. CASE i \in 1 .. n /\ i <= n
      BY <2>1, <2>5, <2>6, <3>1, <3>2 DEF IsLinkedWalk
    <3>3. CASE i = n + 1 /\ ~(i <= n)
      BY <2>5, <2>6, <3>1, <3>3 DEF last
    <3> QED
      BY <2>2, <3>2, <3>3
  <2>8. IsLinkedWalk(h, source, code, env, n + 1)
    BY <2>4, <2>7 DEF IsLinkedWalk
  <2> QED
    BY <2>4, <2>8
<1> HIDE DEF S
<1>3. \A n \in Nat : n \in S
  BY <1>1, <1>2, SetInduction
<1> QED
  BY <1>3 DEF S

(* Runs of the same statements from the same values go through the same states. *)
LEMMA LinkedWalkUnique ==
  ASSUME NEW source, NEW code, NEW more, NEW env, NEW n \in Nat,
         \A i \in 1 .. n : more[i] = code[i],
         NEW g, IsLinkedWalk(g, source, code, env, n),
         NEW h, IsLinkedWalk(h, source, more, env, n)
  PROVE  g[n] = h[n]
<1> DEFINE S == {i \in Nat : i <= n => g[i] = h[i]}
<1>1. 0 \in S
  BY DEF IsLinkedWalk
<1>2. ASSUME NEW i \in Nat, i \in S PROVE i + 1 \in S
  <2>1. CASE i + 1 <= n
    <3>1. i + 1 \in 1 .. n /\ (i + 1) - 1 = i /\ i <= n
      BY <2>1
    <3>2. /\ g[i + 1] = AfterLinked(code[i + 1], source, g[i])
          /\ h[i + 1] = AfterLinked(more[i + 1], source, h[i])
      BY <3>1 DEF IsLinkedWalk
    <3> QED
      BY <1>2, <3>1, <3>2
  <2> QED
    BY <2>1
<1> HIDE DEF S
<1>3. n \in S
  BY <1>1, <1>2, SetInduction
<1> QED
  BY <1>3 DEF S

(* RunLinked gives the last state. *)
LEMMA LinkedWalks ==
  ASSUME NEW code, NEW source, NEW env, Len(code) \in Nat
  PROVE  \E g : /\ IsLinkedWalk(g, source, code, env, Len(code))
                /\ RunLinked(code, source, env) = g[Len(code)]
<1> DEFINE n == Len(code)
           F(h) == [i \in 0 .. n |->
                     IF i = 0 THEN env ELSE AfterLinked(code[i], source, h[i - 1])]
           after == CHOOSE h : h = F(h)
<1>1. RunLinked(code, source, env) = after[n]
  BY DEF RunLinked, AfterLinked, ArgValues
<1> HIDE DEF n
<1>2. n \in Nat
  BY DEF n
<1>3. PICK g : g = [i \in 0 .. n |-> g[i]] /\ IsLinkedWalk(g, source, code, env, n)
  BY <1>2, LinkedWalkExists
<1>4. g = F(g)
  <2>1. \A i \in 0 .. n : g[i] = F(g)[i]
    <3> TAKE i \in 0 .. n
    <3>1. CASE i = 0
      BY <1>3, <3>1 DEF IsLinkedWalk
    <3>2. CASE i # 0
      <4>1. i \in 1 .. n
        BY <1>2, <3>2
      <4> QED
        BY <1>3, <3>2, <4>1 DEF IsLinkedWalk
    <3> QED
      BY <3>1, <3>2
  <2> QED
    BY <1>3, <2>1
<1>5. after = F(after)
  <2> HIDE DEF F
  <2> QED BY <1>4
<1> HIDE DEF after
<1>6. IsLinkedWalk(after, source, code, env, n)
  <2>1. 0 \in 0 .. n /\ \A i \in 1 .. n : i \in 0 .. n /\ i # 0
    BY <1>2
  <2>2. after[0] = env
    BY <1>5, <2>1
  <2>3. \A i \in 1 .. n : after[i] = AfterLinked(code[i], source, after[i - 1])
    BY <1>5, <2>1
  <2> QED
    BY <2>2, <2>3 DEF IsLinkedWalk
<1> QED
  BY <1>1, <1>6 DEF n

(* One statement more runs on what the others left. *)
LEMMA LinkedAppend ==
  ASSUME NEW code, IsSequence(code), NEW s, NEW source, NEW env
  PROVE  RunLinked(Append(code, s), source, env)
           = AfterLinked(s, source, RunLinked(code, source, env))
<1> DEFINE more == Append(code, s)
           n == Len(code)
<1>1. /\ n \in Nat /\ Len(more) = n + 1 /\ n + 1 \in Nat
      /\ \A i \in 1 .. n : more[i] = code[i]
      /\ more[n + 1] = s
  <2> DEFINE S == {code[i] : i \in DOMAIN code} \cup {s}
  <2>1. code \in Seq(S) /\ s \in S
    BY AnySequence
  <2> HIDE DEF S
  <2> QED
    BY <2>1, AppendFacts
<1> HIDE DEF more, n
<1>2. PICK g : IsLinkedWalk(g, source, code, env, n) /\ RunLinked(code, source, env) = g[n]
  BY <1>1, LinkedWalks DEF n
<1>3. PICK h : IsLinkedWalk(h, source, more, env, n + 1) /\ RunLinked(more, source, env) = h[n + 1]
  BY <1>1, LinkedWalks
<1>4. \A i \in 1 .. n : i \in 1 .. n + 1
  BY <1>1
<1>5. IsLinkedWalk(h, source, more, env, n)
  BY <1>3, <1>4 DEF IsLinkedWalk
<1>6. g[n] = h[n]
  BY <1>1, <1>2, <1>5, LinkedWalkUnique
<1>7. n + 1 \in 1 .. n + 1 /\ (n + 1) - 1 = n
  BY <1>1
<1>8. h[n + 1] = AfterLinked(more[n + 1], source, h[n])
  BY <1>3, <1>7 DEF IsLinkedWalk
<1> QED
  BY <1>1, <1>2, <1>3, <1>6, <1>8 DEF more

(* A group of one or two statements more. *)
LEMMA LinkedMore ==
  ASSUME NEW e, IsSequence(e), NEW code,
         (\E s : code = <<s>>) \/ (\E d, s : code = <<d, s>>), NEW source, NEW env
  PROVE  RunLinked(e \o code, source, env) = RunLinked(code, source, RunLinked(e, source, env))
<1> DEFINE f == RunLinked(e, source, env)
<1>1. CASE \E s : code = <<s>>
  <2>1. PICK s : code = <<s>>
    BY <1>1
  <2>2. e \o code = Append(e, s)
    BY <2>1, ConcatIsAppend
  <2>3. RunLinked(Append(e, s), source, env) = AfterLinked(s, source, f)
    BY LinkedAppend
  <2> QED
    BY <2>1, <2>2, <2>3, LinkedOne
<1>2. CASE \E d, s : code = <<d, s>>
  <2>1. PICK d, s : code = <<d, s>>
    BY <1>2
  <2>2. e \o code = Append(Append(e, d), s)
    BY <2>1, ConcatIsAppend
  <2>3. IsSequence(Append(e, d))
    <3> DEFINE S == {e[i] : i \in DOMAIN e} \cup {d}
    <3>1. e \in Seq(S) /\ d \in S
      BY AnySequence
    <3> HIDE DEF S
    <3> QED
      BY <3>1, AppendFacts, AnySequence
  <2>4. /\ RunLinked(Append(e, d), source, env) = AfterLinked(d, source, f)
        /\ RunLinked(Append(Append(e, d), s), source, env)
             = AfterLinked(s, source, RunLinked(Append(e, d), source, env))
    BY <2>3, LinkedAppend
  <2> HIDE DEF f
  <2>5. RunLinked(<<d, s>>, source, f) = AfterLinked(s, source, AfterLinked(d, source, f))
    BY LinkedTwo
  <2>6. RunLinked(e \o code, source, env) = AfterLinked(s, source, AfterLinked(d, source, f))
    BY <2>2, <2>4
  <2> QED
    BY <2>1, <2>5, <2>6 DEF f
<1> QED
  BY <1>1, <1>2

(* The variables of T hold words. *)
WordsIn(T, env) == \A n \in T \cap (0 .. FirstTemp - 1) : env[n] \in Word

(* A container's bits are a word. *)
LEMMA BitsAreWord == \A n \in Int : WordOf(n) \in Word
<1>1. \A n \in Int : \A i \in Idx : CodeAt(n, i) \in Code
  <2> TAKE n \in Int
  <2> TAKE i \in Idx
  <2>1. Pow4[i] \in Nat \ {0}
    BY TritsAssumption, Pow4Facts DEF Idx
  <2>2. n \div Pow4[i] \in Int
    BY <2>1
  <2> HIDE DEF Pow4
  <2> QED
    BY <2>2 DEF CodeAt, Code
<1> QED
  BY <1>1 DEF WordOf, Word

(* What replaces a statement reads words and leaves words. *)
LEMMA WordsMore ==
  ASSUME NEW src \in SourceStmt, NEW T, TypedBy(T, src), NEW e, WordsIn(T, e), Covers(e),
         NEW code, Means(code, src)
  PROVE  TakesWords(src, e) /\ WordsIn(T, Run(code, e))
<1>1. \A k \in DOMAIN src.args : src.args[k] \in SourceOperand
  BY SourceShape
<1>2. ASSUME NEW k \in DOMAIN src.args, ~src.args[k].const, src.args[k].ty \in Ternary
      PROVE  e[src.args[k].n] \in Word
  <2>1. src.args[k] \in Variables(src)
    BY <1>2 DEF Variables
  <2>2. src.args[k].n \in 0 .. FirstTemp - 1
    BY <1>1, <1>2 DEF SourceOperand
  <2> QED
    BY <1>2, <2>1, <2>2 DEF TypedBy, WordsIn
<1>3. ReadsWords(src, e)
  BY <1>2 DEF ReadsWords
<1>4. TakesWords(src, e)
  <2> SUFFICES ASSUME NEW k \in DOMAIN src.args, src.args[k].ty \in Ternary
               PROVE  Value(src.args[k], e) \in Word
    BY DEF TakesWords
  <2>1. src.args[k].n \in Int
    BY <1>1 DEF SourceOperand, Operand
  <2> QED
    BY <1>2, <2>1, BitsAreWord DEF Value
<1>5. IsMeant(src, Run(code, e)[src.lhs.n], e) /\ Leaves(e, Run(code, e), src.lhs.n)
  BY DEF Means
<1>6. src.lhs \in Variables(src)
  BY DEF Variables
<1>7. ASSUME NEW n \in T \cap (0 .. FirstTemp - 1) PROVE Run(code, e)[n] \in Word
  <2>1. CASE n = src.lhs.n
    BY <1>3, <1>5, <1>6, <2>1 DEF IsMeant, TypedBy
  <2>2. CASE n # src.lhs.n
    BY <1>5, <2>2 DEF Leaves, WordsIn
  <2> QED
    BY <2>1, <2>2
<1> QED
  BY <1>4, <1>7 DEF WordsIn

LinkedProgramInv ==
  ValuesFit =>
    \A T, source, env :
      ( /\ Stretch(T) /\ Covers(env) /\ WordsIn(T, env)
        /\ \A i \in DOMAIN done : ~RunsInlineXor(done[i], source) )
      => LET e == RunLinked(Emitted, source, env) IN
         Agrees(T, e, SourceRun(Statements, env)) /\ WordsIn(T, e)

LEMMA InitLinkedProgram == ToolInit => LinkedProgramInv
<1> SUFFICES ASSUME ToolInit PROVE LinkedProgramInv
  OBVIOUS
<1>1. done = <<>> /\ DOMAIN done = {}
  BY DEF ToolInit
<1>2. Emitted = <<>> /\ Statements = <<>>
  <2>1. [i \in DOMAIN done |-> done[i].code] = <<>> /\ [i \in DOMAIN done |-> done[i].src] = <<>>
    BY <1>1
  <2>2. FlattenSeq(<<>>) = <<>>
    BY DEF FlattenSeq
  <2> QED
    BY <2>1, <2>2 DEF Emitted, Statements
<1>3. Len(<<>>) = 0 /\ 0 \in Nat
  OBVIOUS
<1>4. ASSUME NEW source, NEW env
      PROVE  RunLinked(<<>>, source, env) = env /\ SourceRun(<<>>, env) = env
  <2>1. PICK g : IsLinkedWalk(g, source, <<>>, env, 0) /\ RunLinked(<<>>, source, env) = g[0]
    BY <1>3, LinkedWalks
  <2>2. PICK h : IsWalk(h, TRUE, <<>>, env, 0) /\ SourceRun(<<>>, env) = h[0]
    BY <1>3, SourceRunWalks
  <2> QED
    BY <2>1, <2>2 DEF IsLinkedWalk, IsWalk
<1>5. \A T, env : Covers(env) => Agrees(T, env, env)
  BY DEF Agrees
<1> QED
  BY <1>2, <1>4, <1>5 DEF LinkedProgramInv

LEMMA StepLinkedProgram ==
  ASSUME ToolInv, build \in Builds, TempInv, LinkedProgramInv, [ToolNext]_toolVars
  PROVE  LinkedProgramInv'
<1>1. UNCHANGED build
  BY DEF ToolNext, Load, Refuse, ParseArg, StartUnit, EnterFunction, PassStep, FinishUnit, toolVars
<1>2. \A g, source : RunsInlineXor(g, source)' <=> RunsInlineXor(g, source)
  BY <1>1 DEF RunsInlineXor, BodyOf
<1>3. CASE PassStep
  <2>1. IInv /\ Next
    BY <1>3 DEF ToolInv, PassStep
  <2>2. PICK code : Current \in SourceStmt /\ Appends(code)
    BY <2>1, StepAppends
  <2>3. Linkable(code)
    <3>1. PICK other : Emit(other) /\ Linkable(other)
      BY <2>1, StepLinks
    <3>2. other = code
      BY <2>1, <2>2, <3>1, EmitsOne DEF IInv, Appends
    <3> QED
      BY <3>1, <3>2
  <2> DEFINE g == Group(code)
  <2>4. g = [src |-> Current, code |-> code]
    BY DEF Group
  <2> HIDE DEF g
  <2>5. ASSUME ValuesFit, NEW T, Stretch(T)', NEW source, NEW env, Covers(env), WordsIn(T, env),
               \A i \in DOMAIN done' : ~RunsInlineXor(done'[i], source)
        PROVE  /\ Agrees(T, RunLinked(Emitted, source, env)', SourceRun(Statements', env))
               /\ WordsIn(T, RunLinked(Emitted, source, env)')
    <3> DEFINE e == RunLinked(Emitted, source, env)
               f == SourceRun(Statements, env)
    <3>1. /\ Stretch(T) /\ Judged(code, Current) /\ Usual(Current)
          /\ Current.lhs.ty # "u64" /\ TypedBy(T, Current)
          /\ Means(code, Current) /\ Current.op \in MeantOps
      BY <2>2, <2>5, StretchMore
    <3>2. ~RunsInlineXor(g, source) /\ \A i \in DOMAIN done : ~RunsInlineXor(done[i], source)
      BY <2>2, <2>5 DEF Appends, g
    <3>3. Agrees(T, e, f) /\ WordsIn(T, e)
      BY <2>5, <3>1, <3>2 DEF LinkedProgramInv
    <3>4. RunLinked(Emitted', source, env)
            = RunLinked(code, source, e)
      BY <2>2, LinkedMore DEF Appends
    <3>5. RunLinked(Emitted, source, env)' = RunLinked(Emitted', source, env)
      BY <1>1 DEF RunLinked, BodyOf
    <3>6. SourceRun(Statements', env) = Updated(f, Current.lhs.n, SourceMeaning(Current, f))
      BY <2>2, RunAppend DEF Appends
    <3> HIDE DEF e, f
    <3>7. TakesWords(Current, e) /\ WordsIn(T, Run(code, e))
      BY <2>2, <3>1, <3>3, WordsMore DEF Agrees
    <3>8. build.library \in {"runtime", "skeleton"}
      BY ToolAssumption
    <3>9. RunLinked(code, source, e) = Run(code, e)
      BY <2>3, <2>4, <3>1, <3>2, <3>7, <3>8, GroupLinked DEF Linkable
    <3>10. Agrees(T, Run(code, e), Updated(f, Current.lhs.n, SourceMeaning(Current, f)))
      BY <2>2, <2>5, <3>1, <3>3, AgreesMore
    <3> QED
      BY <3>4, <3>5, <3>6, <3>7, <3>9, <3>10 DEF e
  <2>6. ValuesFit' <=> ValuesFit
    BY DEF ValuesFit
  <2> QED
    BY <1>2, <2>5, <2>6 DEF LinkedProgramInv
<1>4. CASE ~PassStep
  <2>1. UNCHANGED done
    BY <1>4 DEF ToolNext, Load, Refuse, ParseArg, StartUnit, EnterFunction, FinishUnit, toolVars, vars
  <2>2. Emitted' = Emitted /\ Statements' = Statements
    BY <2>1 DEF Emitted, Statements
  <2>3. \A source, env : RunLinked(Emitted, source, env)' = RunLinked(Emitted, source, env)
    BY <1>1, <2>2 DEF RunLinked, BodyOf
  <2> QED
    BY <1>2, <2>1, <2>2, <2>3 DEF LinkedProgramInv, Stretch, ValuesFit
<1> QED
  BY <1>3, <1>4

LEMMA LinkedProgramFromInv ==
  ASSUME LinkedProgramInv, \A i \in DOMAIN done : done[i].src \in SourceStmt
  PROVE  LinkedProgram
<1> SUFFICES ASSUME AllReplaced, NEW source \in Sources, NEW env \in Environments,
                    HoldsWords(Statements, env),
                    \A i \in DOMAIN done : ~RunsInlineXor(done[i], source)
             PROVE  SameResults(RunLinked(Emitted, source, env), SourceRun(Statements, env))
  BY DEF LinkedProgram
<1>1. Covers(env)
  BY EnvironmentAssumption DEF Covers
<1>2. Stretch(Ternaries)
  BY StatementsStretch
<1>3. WordsIn(Ternaries, env)
  BY DEF WordsIn, HoldsWords, Ternaries
<1>4. Agrees(Ternaries, RunLinked(Emitted, source, env), SourceRun(Statements, env))
  BY <1>1, <1>2, <1>3 DEF LinkedProgramInv, AllReplaced
<1> QED
  BY <1>4, AgreedResults

(* Statements replaced one after the other in a unit, whichever of the     *)
(* helpers' bodies the program is linked with: it computes what the source *)
(* means, from any words in its variables, but for the header's xor.       *)
THEOREM LinkedUnitMeaning == ToolSpec => []LinkedProgram
<1> DEFINE Inv == LinkInv /\ ProgramInv /\ LinkedProgramInv
<1>1. ToolInit => Inv
  <2> SUFFICES ASSUME ToolInit PROVE Inv
    OBVIOUS
  <2>1. done = <<>>
    BY DEF ToolInit
  <2> QED
    BY InitLinkInv, InitLinkedProgram, EmptyProgram, <2>1
<1>2. Inv /\ [ToolNext]_toolVars => Inv'
  <2> SUFFICES ASSUME Inv, [ToolNext]_toolVars PROVE Inv'
    OBVIOUS
  <2>1. LinkInv'
    BY StepLinkInv
  <2>2. ProgramInv'
    <3>1. CASE PassStep
      <4>1. IInv /\ TempInv /\ Next
        BY <3>1 DEF LinkInv, ToolInv, PassStep
      <4> QED
        BY <4>1, StepProgram
    <3>2. CASE ~PassStep
      <4>1. UNCHANGED done
        BY <3>2 DEF ToolNext, Load, Refuse, ParseArg, StartUnit, EnterFunction, FinishUnit,
                    toolVars, vars
      <4> QED
        BY <4>1 DEF ProgramInv, Stretch, Emitted, Statements, ValuesFit
    <3> QED
      BY <3>1, <3>2
  <2>3. LinkedProgramInv'
    BY StepLinkedProgram DEF LinkInv
  <2> QED
    BY <2>1, <2>2, <2>3
<1>3. Inv => LinkedProgram
  BY LinkedProgramFromInv DEF ProgramInv
<1> HIDE DEF Inv
<1> QED
  BY <1>1, <1>2, <1>3, PTL DEF ToolSpec

-----------------------------------------------------------------------------
(* What the pass, asked to lower, decides of an operator whose operands    *)
(* are of t32_t or of its container: a comparison is for a helper if its   *)
(* left operand is ternary, any other operator if all of its operands and  *)
(* its result are.                                                         *)
OnContainers(s) ==
  s.kind \in {"assign", "cond"} /\ \A k \in DOMAIN s.args : s.args[k].ty \in {"t32", "u64"}
ComparesInto(s) == s.op \in CompareCode /\ s.lhs.ty \notin Ternary
OperatesInto(s) ==
  s.kind = "assign" /\ s.op \in DOMAIN HelperOf \ {"CONVERT_EXPR"} /\ s.lhs.ty \in {"t32", "u64"}

Decided(g) ==
  OnContainers(g.src) =>
    /\ ComparesInto(g.src) => (Rewritten(g) <=> g.src.args[1].ty = "t32")
    /\ OperatesInto(g.src) =>
         (Rewritten(g) <=> /\ g.src.lhs.ty = "t32"
                           /\ \A k \in DOMAIN g.src.args : g.src.args[k].ty = "t32")

(* The counter tells which statements were rewritten (StepCounted). *)
LEMMA StepDecides ==
  ASSUME IInv, CountInv, Next, "lower" \in opt
  PROVE  \E code : Emit(code) /\ Decided(Group(code))
<1>1. todo # <<>> /\ Current \in SourceStmt /\ lowered_count \in Nat
  BY StepWalks DEF IInv, CountInv
<1>2. PICK code : Emit(code) /\ Counted(code)
  BY StepCounted DEF IInv, CountInv
<1> DEFINE s == Current
<1>3. Rewritten(Group(code)) <=> lowered_count' = lowered_count + 1
  BY <1>1, <1>2 DEF Counted
<1>4. Group(code).src = s
  BY DEF Group
<1>5. ASSUME OnContainers(s), ComparesInto(s)
      PROVE  lowered_count' = lowered_count + 1 <=> s.args[1].ty = "t32"
  <2>1. /\ s.kind \in {"assign", "cond"} /\ s.op \in CompareCode /\ s.lhs.ty \notin Ternary
        /\ s.op # "COND_EXPR" /\ s.op # "CONVERT_EXPR"
    BY <1>5 DEF OnContainers, ComparesInto, CompareCode
  <2>2. s.args[1].ty \in {"t32", "u64"} /\ s.args[2].ty \in {"t32", "u64"}
    <3>1. Len(s.args) = 2 /\ s.args \in Seq(SourceOperand)
      BY <1>1, <2>1 DEF SourceStmt, Gimplified
    <3>2. 1 \in DOMAIN s.args /\ 2 \in DOMAIN s.args
      BY <3>1
    <3> QED
      BY <1>5, <3>2 DEF OnContainers
  <2>3. Compares <=> s.args[1].ty = "t32"
    BY <1>1, <2>1, <2>2 DEF Compares, Op, LhsTy, Ternary, SameLayout
  <2>4. ~IsConditional /\ ~TernaryAssign /\ ~ConvertsFrom /\ ~Builtin
    BY <2>1 DEF IsConditional, TernaryAssign, ConvertsFrom, Builtin, CallsBuiltin, Op
  <2>5. LowerComparison \/ PassOver
    BY <2>4 DEF Next, KeepConditional, FoldConditional, MergeEqualArms, LowerConditional,
       KeepUnsupportedConditional, Conditional, FoldConversion, LeaveMixed, FoldConstants,
       Simplify, LowerOperation, KeepUnsupported, LowerConversion, LowerBuiltin,
       LowerTernaryCompare, LowerBuiltinSelect, LowerLoad
  <2>6. LowerComparison => Compares /\ lowered_count' = lowered_count + 1
    BY DEF LowerComparison, Lowered
  <2>7. PassOver => ~Compares /\ lowered_count' = lowered_count
    BY DEF PassOver, counts
  <2> HIDE DEF s
  <2> QED
    BY <1>1, <2>3, <2>5, <2>6, <2>7
<1>6. ASSUME OnContainers(s), OperatesInto(s)
      PROVE  lowered_count' = lowered_count + 1
               <=> s.lhs.ty = "t32" /\ \A k \in DOMAIN s.args : s.args[k].ty = "t32"
  <2>1. /\ s.kind = "assign" /\ s.lhs.ty \in {"t32", "u64"}
        /\ s.op \in DOMAIN HelperOf
        /\ s.op # "COND_EXPR" /\ s.op # "CONVERT_EXPR" /\ s.op \notin CompareCode
    BY <1>6 DEF OperatesInto, HelperOf, CompareCode
  <2>2. ~IsConditional /\ ~Compares /\ ~ConvertsFrom /\ ~Builtin /\ ~FoldsConversion
    BY <2>1 DEF IsConditional, Compares, ConvertsFrom, Builtin, CallsBuiltin, FoldsConversion, Op
  <2>3. \/ FoldConversion \/ LeaveMixed \/ FoldConstants \/ Simplify
        \/ LowerOperation \/ KeepUnsupported \/ PassOver
    BY <2>2 DEF Next, KeepConditional, FoldConditional, MergeEqualArms, LowerConditional,
       KeepUnsupportedConditional, Conditional, LowerComparison, LowerConversion, LowerBuiltin,
       LowerTernaryCompare, LowerBuiltinSelect, LowerLoad
  <2>4. Mixed <=> \E k \in DOMAIN s.args : s.args[k].ty # s.lhs.ty
    BY DEF Mixed, LhsTy
  <2>5. TernaryAssign => s.lhs.ty = "t32"
    BY <2>1 DEF TernaryAssign, Ternary
  <2>6. FoldConstants \/ Simplify \/ LowerOperation =>
          TernaryAssign /\ ~Mixed /\ lowered_count' = lowered_count + 1
    BY DEF FoldConstants, Simplify, LowerOperation, NoRewriteYet, Lowered
  <2>7. LeaveMixed => TernaryAssign /\ Mixed /\ lowered_count' = lowered_count
    BY DEF LeaveMixed
  <2>8. PassOver => s.lhs.ty # "t32" /\ lowered_count' = lowered_count
    BY <2>1 DEF PassOver, counts, LhsTy, Ternary
  <2>9. ~FoldConversion /\ ~KeepUnsupported
    BY <2>1, <2>2 DEF FoldConversion, KeepUnsupported, Op
  <2> HIDE DEF s
  <2>10. lowered_count + 1 # lowered_count
    BY <1>1
  <2> QED
    BY <2>3, <2>4, <2>5, <2>6, <2>7, <2>8, <2>9, <2>10, Zenon
<1> QED
  BY <1>2, <1>3, <1>4, <1>5, <1>6 DEF Decided

DecidedInv ==
  stage \in {"compile", "finished"} /\ "lower" \in opt =>
    \A i \in DOMAIN done : Decided(done[i])

LEMMA StepDecided == ToolInv /\ DecidedInv /\ [ToolNext]_toolVars => DecidedInv'
<1> SUFFICES ASSUME ToolInv, DecidedInv, [ToolNext]_toolVars PROVE DecidedInv'
  OBVIOUS
<1>1. CASE PassStep
  <2>1. IInv /\ CountInv /\ Next /\ stage = "compile"
    BY <1>1 DEF ToolInv, PassStep
  <2>2. UNCHANGED opt
    BY <2>1, OptKept
  <2> SUFFICES ASSUME "lower" \in opt PROVE \A i \in DOMAIN done' : Decided(done'[i])
    BY <2>2 DEF DecidedInv
  <2>3. PICK code : Emit(code) /\ Decided(Group(code))
    BY <2>1, StepDecides
  <2> DEFINE g == Group(code)
             S == {done[i] : i \in DOMAIN done} \cup {g}
  <2>4. done' = Append(done, g)
    BY <2>3 DEF Emit, Group
  <2>5. done \in Seq(S) /\ g \in S
    BY <2>1, AnySequence DEF IInv
  <2> HIDE DEF S, g
  <2>6. \A i \in DOMAIN done' : (i \in DOMAIN done /\ done'[i] = done[i]) \/ done'[i] = g
    <3>1. /\ DOMAIN done = 1 .. Len(done) /\ Len(done) \in Nat
          /\ DOMAIN done' = 1 .. Len(done) + 1
          /\ \A i \in 1 .. Len(done) : done'[i] = done[i]
          /\ done'[Len(done) + 1] = g
      BY <2>4, <2>5, AppendFacts
    <3>2. \A i \in 1 .. Len(done) + 1 : i \in 1 .. Len(done) \/ i = Len(done) + 1
      BY <3>1
    <3> QED
      BY <3>1, <3>2
  <2>7. \A i \in DOMAIN done : Decided(done[i])
    BY <2>1 DEF DecidedInv
  <2> QED
    BY <2>3, <2>6, <2>7 DEF g
<1>2. CASE Load \/ Refuse \/ ParseArg
  BY <1>2 DEF Load, Refuse, ParseArg, DecidedInv
<1>3. CASE StartUnit
  <2>1. done' = <<>>
    BY <1>3 DEF StartUnit, vars, ToolInv, Stages
  <2> QED
    BY <2>1 DEF DecidedInv
<1>4. CASE EnterFunction \/ FinishUnit \/ UNCHANGED toolVars
  <2>1. UNCHANGED <<done, opt>> /\ (stage' \in {"compile", "finished"} => stage \in {"compile", "finished"})
    BY <1>4 DEF EnterFunction, FinishUnit, Between, toolVars, vars
  <2> QED
    BY <2>1 DEF DecidedInv
<1> QED
  BY <1>1, <1>2, <1>3, <1>4 DEF ToolNext

(* A nested ternary expression is lowered operator by operator with        *)
(* -fplugin-arg-ternary_plugin-types; where t32_t is a typedef the         *)
(* operators inside it are left to binary arithmetic.                      *)
THEOREM NestedAreSeen == ToolSpec => []NestedExpressions
<1> DEFINE Inv == ToolInv /\ DecidedInv
<1>1. ToolInit => Inv
  BY InitToolInv DEF ToolInit, DecidedInv
<1>2. Inv /\ [ToolNext]_toolVars => Inv'
  BY StepToolInv, StepDecided
<1>3. Inv => NestedExpressions
  <2> DEFINE stmts == FlattenSeq(unit)
  <2> SUFFICES ASSUME Inv, stage = "finished", "lower" \in opt,
                      NEW i \in DOMAIN stmts, OnTernary(stmts[i])
               PROVE  Rewritten(done[i]) <=> ("types" \in opt \/ ~Hidden(stmts[i]))
    BY DEF NestedExpressions
  <2> DEFINE s == stmts[i]
             t == SeenStatement(s, type_uids)
             g == done[i]
  <2>1. i \in DOMAIN done /\ g.src = t
    <3>1. PassedOf(done) = Seen(stmts, type_uids)
      BY FinishedCovers
    <3>2. PassedOf(done) = [k \in DOMAIN stmts |-> SeenStatement(stmts[k], type_uids)]
      BY <3>1, SeenIs
    <3> HIDE DEF stmts
    <3>3. DOMAIN done = DOMAIN stmts /\ PassedOf(done)[i] = done[i].src
      BY <3>2 DEF PassedOf
    <3> QED
      BY <3>2, <3>3
  <2>2. Decided(g)
    BY <2>1 DEF DecidedInv
  <2>3. s \in SourceStmt
    BY FlattenType DEF ToolInv, Stages
  <2>4. OnTernary(s) /\ (\A k \in DOMAIN s.args : s.args[k].ty = "t32")
    BY DEF OnTernary
  <2>5. "t32" \in type_uids <=> "types" \in opt
    BY DEF ToolInv, Stages, Registered, Ternary
  <2> HIDE DEF stmts, s, t, g
  <2> DEFINE inner(o) == ~o.const /\ o.n \in Inner
  <2>6. t.op = s.op /\ t.kind = s.kind /\ t.lhs = Known(s.lhs, type_uids)
        /\ DOMAIN t.args = DOMAIN s.args
        /\ \A k \in DOMAIN s.args : t.args[k] = Known(s.args[k], type_uids)
    BY <2>3 DEF t, SeenStatement, SourceStmt
  <2>7. \A o \in SourceOperand :
          /\ o.ty = "t32" =>
               Known(o, type_uids).ty = IF inner(o) /\ "types" \notin opt THEN "u64" ELSE "t32"
          /\ o.ty # "t32" => Known(o, type_uids).ty = o.ty
    <3> TAKE o \in SourceOperand
    <3>1. [o EXCEPT !.ty = "u64"].ty = "u64"
      BY DEF SourceOperand, Operand
    <3> QED
      BY <2>5, <3>1 DEF Known
  <2>8. s.lhs \in SourceOperand /\ \A k \in DOMAIN s.args : s.args[k] \in SourceOperand
    <3>1. s.lhs \in SourceVariable /\ s.args \in Seq(SourceOperand)
      BY <2>3 DEF SourceStmt
    <3> QED
      BY <3>1 DEF SourceVariable
  <2>9. \A k \in DOMAIN s.args :
          t.args[k].ty = IF inner(s.args[k]) /\ "types" \notin opt THEN "u64" ELSE "t32"
    BY <2>4, <2>6, <2>7, <2>8
  <2>10. OnContainers(t)
    BY <2>4, <2>6, <2>9 DEF OnContainers, OnTernary
  <2>11. CASE s.op \in CompareCode /\ s.lhs.ty \notin Ternary
    <3>1. ComparesInto(t)
      BY <2>6, <2>7, <2>8, <2>11 DEF ComparesInto, Ternary
    <3>2. 1 \in DOMAIN s.args
      <4>1. Len(s.args) = 2 /\ s.args \in Seq(SourceOperand)
        BY <2>3, <2>11 DEF SourceStmt, Gimplified
      <4> QED
        BY <4>1
    <3>3. Rewritten(g) <=> t.args[1].ty = "t32"
      BY <2>1, <2>2, <2>10, <3>1 DEF Decided
    <3>4. Hidden(s) <=> inner(s.args[1])
      BY <2>11 DEF Hidden
    <3> QED
      BY <2>9, <3>2, <3>3, <3>4 DEF g, s
  <2>12. CASE s.op \in DOMAIN HelperOf \ {"CONVERT_EXPR"} /\ s.kind = "assign" /\ s.lhs.ty = "t32"
    <3>1. t.lhs.ty = IF inner(s.lhs) /\ "types" \notin opt THEN "u64" ELSE "t32"
      BY <2>6, <2>7, <2>8, <2>12
    <3>2. OperatesInto(t)
      BY <2>6, <2>12, <3>1 DEF OperatesInto
    <3>3. Rewritten(g) <=> t.lhs.ty = "t32" /\ \A k \in DOMAIN t.args : t.args[k].ty = "t32"
      BY <2>1, <2>2, <2>10, <3>2 DEF Decided
    <3>4. s.op \notin CompareCode
      BY <2>12 DEF HelperOf, CompareCode
    <3>5. Hidden(s) <=> inner(s.lhs) \/ \E k \in DOMAIN s.args : inner(s.args[k])
      BY <3>4 DEF Hidden
    <3>6. Rewritten(g) <=> ("types" \in opt \/ ~Hidden(s))
      BY <2>6, <2>9, <3>1, <3>3, <3>5
    <3> QED
      BY <3>6 DEF g, s
  <2> QED
    BY <2>4, <2>11, <2>12 DEF OnTernary
<1> HIDE DEF Inv
<1> QED
  BY <1>1, <1>2, <1>3, PTL DEF ToolSpec
=============================================================================
