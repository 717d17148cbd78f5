-------------------------- MODULE TernaryPassProofs --------------------------
(***************************************************************************)
(* The invariants of PassMeaning, for every program, every set of options  *)
(* and every trit count.  All but MeaningKept are about all the code       *)
(* emitted, and each is made inductive by a fact about the state a step    *)
(* takes it from:                                                          *)
(*   - SelectsOwnType: the cache holds, under a key, the helper of that    *)
(*     key's type or nothing (CacheOwn);                                   *)
(*   - CountsMatchCode: the counters count groups, and a group is counted  *)
(*     when it is emitted (CountInv);                                      *)
(*   - TempsDefinedOnce: no variable written so far has the number         *)
(*     create_tmp_var gives next (TempInv);                                *)
(*   - TypeOK: of all of these, with the range of a packed constant;       *)
(*   - MeaningKept: the statements of a program are gimplified (IInv) and  *)
(*     no temporary is a variable of the source (TempInv);                 *)
(*   - ProgramMeaning: the same, and that the groups so far, run one after *)
(*     the other, agree with the source on every variable (ProgramInv).    *)
(***************************************************************************)
EXTENDS PassMeaning, TritWordProofs

(* The declaration cache. *)
OwnSelect(s) == s.kind = "helper" /\ s.op = "select" => s.suf = s.lhs.ty
OwnGroup(g)  == \A k \in DOMAIN g.code : OwnSelect(g.code[k])

CacheOwn ==
  /\ decl_cache = [k \in Key |-> decl_cache[k]]
  /\ \A ty \in Type : decl_cache[SelectKey(ty)] \in {NoDecl, <<"select", ty>>}
  /\ \A ty \in Type : decl_cache[CompareKey(ty)][1] # "select"

IInv ==
  /\ todo \in Seq(SourceStmt)
  /\ IsSequence(done)
  /\ CacheOwn
  /\ SelectsOwnType

LEMMA InitIInv == Init => IInv
<1> SUFFICES ASSUME Init PROVE IInv
  OBVIOUS
<1>1. todo \in Seq(SourceStmt)
  BY PassAssumption DEF Init
<1>2. IsSequence(done) /\ SelectsOwnType
  BY DEF Init, IsSequence, SelectsOwnType
<1>3. CacheOwn
  BY DEF Init, CacheOwn, Key, SelectKey, CompareKey, NoDecl
<1> QED
  BY <1>1, <1>2, <1>3 DEF IInv

LEMMA AppendGroup ==
  ASSUME IsSequence(done), SelectsOwnType, NEW g, OwnGroup(g), done' = Append(done, g)
  PROVE  IsSequence(done') /\ SelectsOwnType'
<1> DEFINE S == {done[i] : i \in DOMAIN done} \cup {g}
<1>1. done \in Seq(S)
  BY DEF IsSequence
<1>2. /\ done' \in Seq(S)
      /\ Len(done') = Len(done) + 1
      /\ \A i \in 1 .. Len(done) : done'[i] = done[i]
      /\ done'[Len(done) + 1] = g
  <2> HIDE DEF S
  <2>1. g \in S BY DEF S
  <2> QED BY <1>1, <2>1
<1>3. /\ DOMAIN done = 1 .. Len(done) /\ Len(done) \in Nat
      /\ DOMAIN done' = 1 .. Len(done')
  <2> HIDE DEF S
  <2> QED BY <1>1, <1>2
<1>4. IsSequence(done')
  <2>1. \A s, T, U : s \in Seq(T) /\ (\A i \in DOMAIN s : s[i] \in U) => s \in Seq(U)
    OBVIOUS
  <2> QED
    BY <1>2, <2>1 DEF IsSequence
<1>5. \A i \in DOMAIN done : OwnGroup(done[i])
  BY DEF SelectsOwnType, OwnGroup, OwnSelect
<1>6. \A i \in DOMAIN done' : OwnGroup(done'[i])
  BY <1>2, <1>3, <1>5
<1> QED
  BY <1>4, <1>6 DEF SelectsOwnType, OwnGroup, OwnSelect

-----------------------------------------------------------------------------
(* The code emitted is one or two statements. *)
LEMMA OneStatement ==
  ASSUME NEW s, NEW src, OwnSelect(s)
  PROVE  OwnGroup([src |-> src, code |-> <<s>>])
  BY DEF OwnGroup

LEMMA TwoStatements ==
  ASSUME NEW s, NEW t, NEW src, OwnSelect(s), OwnSelect(t)
  PROVE  OwnGroup([src |-> src, code |-> <<s, t>>])
  BY DEF OwnGroup

(* The decoded condition, if there is one, before the statement s. *)
LEMMA AfterDecodeCond ==
  ASSUME NEW s, NEW src, OwnSelect(s)
  PROVE  OwnGroup([src |-> src, code |-> DecodeCond \o <<s>>])
<1>1. CASE Arm(1).ty \in Ternary
  <2> DEFINE d == Call(<<"tt2b", Arm(1).ty>>, Temp("i64"), <<Arm(1)>>)
  <2>1. OwnSelect(d)
    BY DEF OwnSelect, Call, Stmt
  <2>2. DecodeCond = <<d>>
    BY <1>1 DEF DecodeCond
  <2> HIDE DEF d
  <2>3. /\ <<d>> \in Seq({d, s}) /\ <<s>> \in Seq({d, s})
        /\ Len(<<d>>) = 1 /\ Len(<<s>>) = 1
    OBVIOUS
  <2>4. <<d>> \o <<s>> \in Seq({d, s}) /\ Len(<<d>> \o <<s>>) = 2
    BY <2>3
  <2>5. (<<d>> \o <<s>>)[1] = d /\ (<<d>> \o <<s>>)[2] = s
    BY <2>3
  <2>6. DOMAIN (<<d>> \o <<s>>) = 1 .. 2
    BY <2>4
  <2> QED
    BY <2>1, <2>2, <2>5, <2>6 DEF OwnGroup
<1>2. CASE Arm(1).ty \notin Ternary
  <2>1. DecodeCond \o <<s>> = <<s>>
    BY <1>2 DEF DecodeCond
  <2> QED
    BY <2>1, OneStatement
<1> QED
  BY <1>1, <1>2

(* What is not a helper call, or calls another helper, selects nothing. *)
LEMMA NoSelect ==
  /\ \A s : s.kind # "helper" => OwnSelect(s)
  /\ \A lhs, o : OwnSelect(Assign(lhs, o))
  /\ \A decl, lhs, args : decl[1] # "select" => OwnSelect(Call(decl, lhs, args))
  BY DEF OwnSelect, Assign, Call, Stmt

LEMMA EmitKeeps ==
  ASSUME IInv, todo # <<>>, NEW code, OwnGroup([src |-> Current, code |-> code]), Emit(code)
  PROVE  todo' \in Seq(SourceStmt) /\ IsSequence(done') /\ SelectsOwnType'
<1>1. todo' \in Seq(SourceStmt)
  BY DEF IInv, Emit
<1>2. IsSequence(done') /\ SelectsOwnType'
  BY AppendGroup DEF IInv, Emit
<1> QED
  BY <1>1, <1>2

LEMMA LeaveKeeps ==
  ASSUME IInv, todo # <<>>, Leave
  PROVE  todo' \in Seq(SourceStmt) /\ IsSequence(done') /\ SelectsOwnType'
<1>1. Current \in SourceStmt
  BY DEF IInv, Current
<1>2. OwnSelect(Current)
  BY <1>1 DEF SourceStmt, OwnSelect
<1>3. OwnGroup([src |-> Current, code |-> <<Current>>]) /\ Emit(<<Current>>)
  BY <1>2, OneStatement DEF Leave, Emit
<1> QED
  BY <1>3, EmitKeeps

-----------------------------------------------------------------------------
(* A cached declaration is the fresh one of its key, and stays so. *)
LEMMA SelectDeclOwn ==
  ASSUME CacheOwn, NEW ty \in Type
  PROVE  /\ SelectDecl(ty) = <<"select", ty>>
         /\ Remember(SelectKey(ty), SelectDecl(ty)) => CacheOwn'
<1>1. SelectDecl(ty) = <<"select", ty>>
  BY DEF CacheOwn, SelectDecl, Cached
<1>2. ASSUME Remember(SelectKey(ty), <<"select", ty>>) PROVE CacheOwn'
  BY <1>2 DEF Remember, CacheOwn, Key, SelectKey, CompareKey
<1> QED
  BY <1>1, <1>2

LEMMA CompareDeclOwn ==
  ASSUME CacheOwn, NEW ty \in Type, NEW op \in TernaryCompare, NEW decl,
         decl = Cached(CompareKey(ty), <<op, ty>>)
  PROVE  decl[1] # "select" /\ (Remember(CompareKey(ty), decl) => CacheOwn')
<1>1. decl[1] # "select"
  BY DEF CacheOwn, Cached, TernaryCompare
<1>2. ASSUME Remember(CompareKey(ty), decl) PROVE CacheOwn'
  BY <1>1, <1>2 DEF Remember, CacheOwn, Key, SelectKey, CompareKey
<1> QED
  BY <1>1, <1>2

LEMMA CacheKept == ASSUME CacheOwn, UNCHANGED decl_cache PROVE CacheOwn'
  BY DEF CacheOwn

-----------------------------------------------------------------------------
(* One step per action: which code it emits, and which entry of the cache  *)
(* it writes.                                                              *)
LEMMA StepIInv == IInv /\ [Next]_vars => IInv'
<1> SUFFICES ASSUME IInv, [Next]_vars PROVE IInv'
  OBVIOUS
<1> USE DEF IInv
<1> DEFINE Walked == todo' \in Seq(SourceStmt) /\ IsSequence(done') /\ SelectsOwnType'
<1>1. ASSUME todo # <<>>, Leave, UNCHANGED decl_cache PROVE IInv'
  BY <1>1, LeaveKeeps, CacheKept
<1>2. ASSUME todo # <<>>, NEW s, OwnSelect(s), Emit(<<s>>) PROVE Walked
  <2>1. OwnGroup([src |-> Current, code |-> <<s>>])
    BY <1>2, OneStatement
  <2> QED
    BY <1>2, <2>1, EmitKeeps
<1>3. ASSUME todo # <<>>, NEW s, OwnSelect(s), Emit(DecodeCond \o <<s>>) PROVE Walked
  <2>1. OwnGroup([src |-> Current, code |-> DecodeCond \o <<s>>])
    BY <1>3, AfterDecodeCond
  <2> QED
    BY <1>3, <2>1, EmitKeeps
<1>4. \A cond, ty : HasSelectDecl(ty, cond) => ty \in Type
  BY DEF HasSelectDecl, Integral, Ternary, Type
<1>5. todo # <<>> => OwnSelect(Current) /\ Current \in SourceStmt
  <2>1. todo # <<>> => Current \in SourceStmt
    BY DEF Current
  <2> QED
    BY <2>1 DEF SourceStmt, OwnSelect
<1> HIDE DEF Walked
<1>6. ASSUME Walked, UNCHANGED decl_cache PROVE IInv'
  BY <1>6, CacheKept DEF Walked
<1>7. ASSUME Walked, CacheOwn' PROVE IInv'
  BY <1>7 DEF Walked
<1>8. Current.lhs.ty \in Type =>
        \A args : OwnSelect(Call(SelectDecl(Current.lhs.ty), Current.lhs, args))
  BY SelectDeclOwn DEF OwnSelect, Call, Stmt
<1>a. CASE KeepConditional
  BY <1>1, <1>a DEF KeepConditional, Conditional, IsConditional
<1>b. CASE FoldConditional
  BY <1>2, <1>6, <1>b, NoSelect DEF FoldConditional, Conditional, IsConditional
<1>c. CASE MergeEqualArms
  BY <1>2, <1>6, <1>c, NoSelect DEF MergeEqualArms, Conditional, IsConditional
<1>d. CASE LowerConditional
  <2> DEFINE s == Call(SelectDecl(Current.lhs.ty), Current.lhs, <<CondArg, Arm(2), Arm(3)>>)
  <2>1. Current.lhs.ty \in Type /\ todo # <<>>
    BY <1>4, <1>d DEF LowerConditional, Conditional, IsConditional
  <2>2. OwnSelect(s)
    BY <1>8, <2>1
  <2>3. Emit(DecodeCond \o <<s>>)
    BY <1>d DEF LowerConditional
  <2>4. CacheOwn'
    BY <1>d, <2>1, SelectDeclOwn DEF LowerConditional
  <2> HIDE DEF s
  <2> QED
    BY <1>3, <1>7, <2>1, <2>2, <2>3, <2>4
<1>e. CASE KeepUnsupportedConditional
  BY <1>3, <1>5, <1>6, <1>e DEF KeepUnsupportedConditional, Conditional, IsConditional
<1>f. CASE FoldConversion
  BY <1>2, <1>6, <1>f, NoSelect DEF FoldConversion, TernaryAssign
<1>g. CASE LeaveMixed
  BY <1>1, <1>g DEF LeaveMixed, TernaryAssign
<1>h. CASE FoldConstants
  BY <1>2, <1>6, <1>h, NoSelect DEF FoldConstants, TernaryAssign
<1>i. CASE Simplify
  BY <1>2, <1>6, <1>i, NoSelect DEF Simplify, TernaryAssign
<1>j. CASE LowerOperation
  <2>1. HelperOf[Op] # "select"
    BY <1>j DEF LowerOperation, HelperOf
  <2> QED
    BY <1>2, <1>6, <1>j, <2>1, NoSelect DEF LowerOperation, TernaryAssign
<1>k. CASE KeepUnsupported
  BY <1>1, <1>k DEF KeepUnsupported, TernaryAssign
<1>l. CASE LowerComparison
  <2> DEFINE s == Call(<<"cmp", Current.args[1].ty>>, Temp("i32"), Current.args)
             t == [Current EXCEPT !.args = <<Temp("i32"), C("i32", 0)>>]
  <2>1. todo # <<>> /\ UNCHANGED decl_cache /\ Emit(<<s, t>>)
    BY <1>l DEF LowerComparison, Compares
  <2>2. OwnSelect(s)
    BY NoSelect
  <2>3. OwnSelect(t)
    BY <1>5, <2>1 DEF OwnSelect, SourceStmt
  <2> HIDE DEF s, t
  <2>4. OwnGroup([src |-> Current, code |-> <<s, t>>])
    BY <2>2, <2>3, TwoStatements
  <2> QED
    BY <1>6, <2>1, <2>4, EmitKeeps DEF Walked
<1>m. CASE LowerConversion
  BY <1>2, <1>6, <1>m, NoSelect DEF LowerConversion, ConvertsFrom
<1>n. CASE LowerBuiltin
  <2>1. BuiltinDecl[1] # "select"
    BY <1>n DEF LowerBuiltin, BuiltinDecl, NoDecl, ShiftBuiltin
  <2> QED
    BY <1>2, <1>6, <1>n, <2>1, NoSelect DEF LowerBuiltin, Builtin
<1>o. CASE LowerTernaryCompare
  <2> DEFINE decl == Cached(CompareKey(LhsTy), <<Op, LhsTy>>)
  <2>1. todo # <<>> /\ Emit(<<Call(decl, Current.lhs, Current.args)>>)
    BY <1>o DEF LowerTernaryCompare, Builtin
  <2>2. decl[1] # "select" /\ CacheOwn'
    BY <1>o, CompareDeclOwn DEF LowerTernaryCompare, Ternary, Type
  <2> HIDE DEF decl
  <2> QED
    BY <1>2, <1>7, <2>1, <2>2, NoSelect
<1>p. CASE LowerBuiltinSelect
  <2> DEFINE s == Call(SelectDecl(Current.lhs.ty), Current.lhs, Current.args)
  <2>1. Current.lhs.ty \in Type /\ todo # <<>> /\ Emit(<<s>>)
    BY <1>4, <1>p DEF LowerBuiltinSelect, Builtin, LhsTy
  <2>2. OwnSelect(s)
    BY <1>8, <2>1
  <2>3. CacheOwn'
    BY <1>p, <2>1, SelectDeclOwn DEF LowerBuiltinSelect, LhsTy
  <2> HIDE DEF s
  <2> QED
    BY <1>2, <1>7, <2>1, <2>2, <2>3
<1>q. CASE LowerLoad
  <2>1. OwnSelect(Stmt("assign", "MEM_REF", "", Current.lhs, Current.args))
    BY DEF OwnSelect, Stmt
  <2> QED
    BY <1>2, <1>6, <1>q, <2>1 DEF LowerLoad, Builtin
<1>r. CASE PassOver
  BY <1>1, <1>r DEF PassOver
<1>s. CASE UNCHANGED vars
  BY <1>s DEF vars, CacheOwn, IsSequence, SelectsOwnType
<1> QED
  BY <1>a, <1>b, <1>c, <1>d, <1>e, <1>f, <1>g, <1>h, <1>i, <1>j, <1>k, <1>l,
     <1>m, <1>n, <1>o, <1>p, <1>q, <1>r, <1>s DEF Next

(* Whatever declarations earlier statements left in the cache, a statement *)
(* is never given the select helper of another type.                       *)
THEOREM PassSelectsOwnType == Spec => []SelectsOwnType
<1>1. Init => IInv
  BY InitIInv
<1>2. IInv /\ [Next]_vars => IInv'
  BY StepIInv
<1>3. IInv => SelectsOwnType
  BY DEF IInv
<1> QED
  BY <1>1, <1>2, <1>3, PTL DEF Spec

-----------------------------------------------------------------------------
(* The statistics.  CountInv adds to CountsMatchCode that the counters are *)
(* numbers; a step appends one group, so each count of groups grows by one *)
(* or stays, as the counter the branch taken increments does.              *)
Group(code) == [src |-> Current, code |-> code]

(* What the counters do when the statement is replaced by code. *)
Counted(code) ==
  /\ lowered_count' = lowered_count + (IF Rewritten(Group(code)) THEN 1 ELSE 0)
  /\ ternary_count' = ternary_count + (IF Current.op = "COND_EXPR" THEN 1 ELSE 0)
  /\ surviving_count' \in {surviving_count, surviving_count + 1}
  /\ Current.op = "COND_EXPR" =>
       lowered_count' = lowered_count + 1 \/ surviving_count' = surviving_count + 1

LEMMA RewrittenIs ==
  /\ ~Rewritten(Group(<<Current>>))
  /\ \A s : s # Current => Rewritten(Group(<<s>>))
  /\ \A s, t : s # Current /\ t # Current => Rewritten(Group(<<s, t>>))
<1>1. \A s : DOMAIN <<s>> = {1} /\ <<s>>[1] = s
  OBVIOUS
<1>2. \A s, t : DOMAIN <<s, t>> = {1, 2} /\ <<s, t>>[1] = s /\ <<s, t>>[2] = t
  OBVIOUS
<1>3. \A s, t, u : <<s, t>> # <<u>>
  OBVIOUS
<1> QED
  BY <1>1, <1>2, <1>3 DEF Rewritten, Group

LEMMA RewrittenAfterDecodeCond ==
  ASSUME NEW s, Current.kind # "helper"
  PROVE  Rewritten(Group(DecodeCond \o <<s>>)) <=> s # Current
<1>1. CASE Arm(1).ty \in Ternary
  <2> DEFINE d == Call(<<"tt2b", Arm(1).ty>>, Temp("i64"), <<Arm(1)>>)
  <2>1. d # Current
    BY DEF Call, Stmt
  <2>2. DecodeCond = <<d>>
    BY <1>1 DEF DecodeCond
  <2> HIDE DEF d
  <2>3. <<d>> \o <<s>> = <<d, s>>
    BY PairConcat
  <2>4. s = Current => ~Rewritten(Group(<<d, s>>))
    <3>1. DOMAIN <<d, s>> = {1, 2} /\ <<d, s>>[2] = s
      OBVIOUS
    <3> QED
      BY <3>1 DEF Rewritten, Group
  <2> QED
    BY <2>1, <2>2, <2>3, <2>4, RewrittenIs
<1>2. CASE Arm(1).ty \notin Ternary
  <2>1. DecodeCond \o <<s>> = <<s>>
    BY <1>2 DEF DecodeCond
  <2> QED
    BY <2>1, RewrittenIs
<1> QED
  BY <1>1, <1>2

LEMMA StepWalks ==
  ASSUME todo \in Seq(SourceStmt), Next
  PROVE  todo # <<>> /\ Current \in SourceStmt
<1>1. todo # <<>>
  BY DEF Next, KeepConditional, FoldConditional, MergeEqualArms, LowerConditional,
         KeepUnsupportedConditional, Conditional, IsConditional, FoldConversion, LeaveMixed,
         FoldConstants, Simplify, LowerOperation, KeepUnsupported, TernaryAssign,
         LowerComparison, Compares, LowerConversion, ConvertsFrom, LowerBuiltin,
         LowerTernaryCompare, LowerBuiltinSelect, LowerLoad, Builtin, PassOver
<1> QED
  BY <1>1 DEF Current

(* Each branch of the body counts the statement for what it did with it. *)
LEMMA StepCounted ==
  ASSUME todo \in Seq(SourceStmt), Next,
         lowered_count \in Nat, ternary_count \in Nat, surviving_count \in Nat
  PROVE  todo # <<>> /\ \E code : Emit(code) /\ Counted(code)
<1>1. todo # <<>> /\ Current \in SourceStmt
  BY StepWalks
<1> SUFFICES \E code : Emit(code) /\ Counted(code)
  BY <1>1
<1>2. /\ Current.kind # "helper"
      /\ Current.op = "COND_EXPR" => Current.kind = "assign"
  BY <1>1 DEF SourceStmt, Gimplified
<1>3. ASSUME Leave, lowered_count' = lowered_count,
             IF Current.op = "COND_EXPR"
             THEN ternary_count' = ternary_count + 1 /\ surviving_count' = surviving_count + 1
             ELSE ternary_count' = ternary_count
                  /\ surviving_count' \in {surviving_count, surviving_count + 1}
      PROVE  \E code : Emit(code) /\ Counted(code)
  <2>1. Emit(<<Current>>) /\ Counted(<<Current>>)
    BY <1>3, RewrittenIs DEF Leave, Emit, Counted
  <2> QED
    BY <2>1
<1>4. ASSUME NEW code, Emit(code), Rewritten(Group(code)), Lowered, UNCHANGED surviving_count,
             ternary_count' = ternary_count + (IF Current.op = "COND_EXPR" THEN 1 ELSE 0)
      PROVE  \E c : Emit(c) /\ Counted(c)
  BY <1>4 DEF Counted, Lowered
<1>5. \A lhs, o : Current.op # "COPY" => Assign(lhs, o) # Current
  <2>1. \A lhs, o : Assign(lhs, o).op = "COPY"
    BY DEF Assign, Stmt
  <2> QED
    BY <2>1
<1>6. \A decl, lhs, args : Call(decl, lhs, args) # Current
  BY <1>2 DEF Call, Stmt
<1>7. IsConditional <=> Current.op = "COND_EXPR"
  BY <1>1, <1>2 DEF IsConditional
<1>a. CASE KeepConditional
  BY <1>3, <1>7, <1>a DEF KeepConditional, Conditional, Survives
<1>b. CASE FoldConditional
  <2> DEFINE s == Assign(Current.lhs, IF CondZero THEN Arm(3) ELSE Arm(2))
  <2>1. /\ Emit(<<s>>) /\ Lowered /\ UNCHANGED surviving_count
        /\ ternary_count' = ternary_count + 1 /\ Current.op = "COND_EXPR"
    BY <1>b DEF FoldConditional, Conditional, IsConditional
  <2>2. s # Current
    BY <1>5, <2>1
  <2> HIDE DEF s
  <2> QED
    BY <1>4, <2>1, <2>2, RewrittenIs
<1>c. CASE MergeEqualArms
  <2> DEFINE s == Assign(Current.lhs, Arm(2))
  <2>1. /\ Emit(<<s>>) /\ Lowered /\ UNCHANGED surviving_count
        /\ ternary_count' = ternary_count + 1 /\ Current.op = "COND_EXPR"
    BY <1>c DEF MergeEqualArms, Conditional, IsConditional
  <2>2. s # Current
    BY <1>5, <2>1
  <2> HIDE DEF s
  <2> QED
    BY <1>4, <2>1, <2>2, RewrittenIs
<1>d. CASE LowerConditional
  <2> DEFINE s == Call(SelectDecl(Current.lhs.ty), Current.lhs, <<CondArg, Arm(2), Arm(3)>>)
  <2>1. /\ Emit(DecodeCond \o <<s>>) /\ Lowered /\ UNCHANGED surviving_count
        /\ ternary_count' = ternary_count + 1 /\ Current.op = "COND_EXPR"
    BY <1>d DEF LowerConditional, Conditional, IsConditional
  <2>2. s # Current
    BY <1>6
  <2> HIDE DEF s
  <2> QED
    BY <1>2, <1>4, <2>1, <2>2, RewrittenAfterDecodeCond
<1>e. CASE KeepUnsupportedConditional
  <2>1. /\ Emit(DecodeCond \o <<Current>>) /\ Survives /\ UNCHANGED lowered_count
        /\ ternary_count' = ternary_count + 1 /\ Current.op = "COND_EXPR"
    BY <1>e DEF KeepUnsupportedConditional, Conditional, IsConditional
  <2>2. ~Rewritten(Group(DecodeCond \o <<Current>>))
    BY <1>2, RewrittenAfterDecodeCond
  <2>3. Counted(DecodeCond \o <<Current>>)
    BY <2>1, <2>2 DEF Counted, Survives
  <2> QED
    BY <2>1, <2>3
<1>8. \A s : Current.op # "COND_EXPR" /\ ternary_count' = ternary_count /\ Emit(<<s>>)
             /\ Lowered /\ UNCHANGED surviving_count /\ s # Current
               => \E code : Emit(code) /\ Counted(code)
  BY <1>4, RewrittenIs
<1>9. TernaryAssign => Current.op # "COND_EXPR" /\ ternary_count' = ternary_count
  BY <1>7 DEF TernaryAssign
<1>f. CASE FoldConversion
  <2>1. Assign(Current.lhs, Pack(Arg(1).n, LhsTy)) # Current
    BY <1>5, <1>f DEF FoldConversion, FoldsConversion, Op
  <2> QED
    BY <1>8, <1>9, <1>f, <2>1 DEF FoldConversion
<1>g. CASE LeaveMixed
  BY <1>3, <1>9, <1>g DEF LeaveMixed
<1>h. CASE FoldConstants
  <2>1. Assign(Current.lhs, Pack(Folded, LhsTy)) # Current
    BY <1>5, <1>h DEF FoldConstants, FoldsConstants, Op
  <2> QED
    BY <1>8, <1>9, <1>h, <2>1 DEF FoldConstants
<1>i. CASE Simplify
  <2>1. Assign(Current.lhs, Simplified[1]) # Current
    BY <1>5, <1>i DEF Simplify, Simplified, Op
  <2> QED
    BY <1>8, <1>9, <1>i, <2>1 DEF Simplify
<1>j. CASE LowerOperation
  BY <1>6, <1>8, <1>9, <1>j DEF LowerOperation
<1>k. CASE KeepUnsupported
  BY <1>3, <1>9, <1>k DEF KeepUnsupported, Survives
<1>l. CASE LowerComparison
  <2> DEFINE s == Call(<<"cmp", Current.args[1].ty>>, Temp("i32"), Current.args)
             t == [Current EXCEPT !.args = <<Temp("i32"), C("i32", 0)>>]
  <2>1. /\ Emit(<<s, t>>) /\ Lowered /\ UNCHANGED surviving_count
        /\ ternary_count' = ternary_count /\ Current.op # "COND_EXPR"
    BY <1>l DEF LowerComparison, Compares, CompareCode, Op
  <2>2. s # Current
    BY <1>6
  <2>3. t # Current
    <3>1. Current.args[1].ty \in Ternary
      BY <1>l DEF LowerComparison, Compares
    <3>2. t.args[1].ty = "i32"
      BY <1>1 DEF SourceStmt, Temp, V
    <3> QED
      BY <3>1, <3>2 DEF Ternary
  <2> HIDE DEF s, t
  <2>4. Rewritten(Group(<<s, t>>))
    BY <2>2, <2>3, RewrittenIs
  <2> QED
    BY <1>4, <2>1, <2>4
<1>m. CASE LowerConversion
  BY <1>6, <1>8, <1>m DEF LowerConversion, ConvertsFrom, Op
<1>10. Builtin => Current.op # "COND_EXPR" /\ ternary_count' = ternary_count
                  /\ UNCHANGED surviving_count
  BY <1>2 DEF Builtin, CallsBuiltin
<1>n. CASE LowerBuiltin
  BY <1>6, <1>8, <1>10, <1>n DEF LowerBuiltin
<1>o. CASE LowerTernaryCompare
  BY <1>6, <1>8, <1>10, <1>o DEF LowerTernaryCompare
<1>p. CASE LowerBuiltinSelect
  BY <1>6, <1>8, <1>10, <1>p DEF LowerBuiltinSelect
<1>q. CASE LowerLoad
  <2>1. Stmt("assign", "MEM_REF", "", Current.lhs, Current.args) # Current
    <3>1. Current.kind # "assign"
      BY <1>q DEF LowerLoad, Builtin, CallsBuiltin
    <3>2. Stmt("assign", "MEM_REF", "", Current.lhs, Current.args).kind = "assign"
      BY DEF Stmt
    <3> QED
      BY <3>1, <3>2
  <2> QED
    BY <1>8, <1>10, <1>q, <2>1 DEF LowerLoad
<1>r. CASE PassOver
  BY <1>3, <1>7, <1>r DEF PassOver, counts
<1> QED
  BY <1>a, <1>b, <1>c, <1>d, <1>e, <1>f, <1>g, <1>h, <1>i, <1>j, <1>k, <1>l,
     <1>m, <1>n, <1>o, <1>p, <1>q, <1>r DEF Next

(* Counted groups are the places of two sets in done. *)
LEMMA CountsAppended ==
  ASSUME IsSequence(done), NEW g, done' = Append(done, g)
  PROVE  /\ Cardinality({i \in DOMAIN done' : Rewritten(done'[i])}) =
              Cardinality({i \in DOMAIN done : Rewritten(done[i])})
                + (IF Rewritten(g) THEN 1 ELSE 0)
         /\ Cardinality({i \in DOMAIN done' : done'[i].src.op = "COND_EXPR"}) =
              Cardinality({i \in DOMAIN done : done[i].src.op = "COND_EXPR"})
                + (IF g.src.op = "COND_EXPR" THEN 1 ELSE 0)
<1> DEFINE S == {done[i] : i \in DOMAIN done} \cup {g}
           R == {x \in S : Rewritten(x)}
           Q == {x \in S : x.src.op = "COND_EXPR"}
<1>1. done \in Seq(S) /\ g \in S
  BY DEF IsSequence
<1>2. \A i \in DOMAIN done : done[i] \in S
  OBVIOUS
<1>3. \A i \in DOMAIN done' : done'[i] \in S
  <2> HIDE DEF S
  <2>1. done' \in Seq(S)
    BY <1>1
  <2> QED BY <2>1
<1>4. /\ {i \in DOMAIN done : Rewritten(done[i])} = Places(done, R)
      /\ {i \in DOMAIN done' : Rewritten(done'[i])} = Places(done', R)
      /\ {i \in DOMAIN done : done[i].src.op = "COND_EXPR"} = Places(done, Q)
      /\ {i \in DOMAIN done' : done'[i].src.op = "COND_EXPR"} = Places(done', Q)
  <2> HIDE DEF S
  <2> QED BY <1>2, <1>3 DEF Places
<1>5. (g \in R <=> Rewritten(g)) /\ (g \in Q <=> g.src.op = "COND_EXPR")
  OBVIOUS
<1> HIDE DEF S, R, Q
<1>6. \A P : Cardinality(Places(Append(done, g), P)) =
              Cardinality(Places(done, P)) + (IF g \in P THEN 1 ELSE 0)
  BY <1>1, CountAppend
<1>7. /\ Cardinality(Places(done', R)) =
           Cardinality(Places(done, R)) + (IF Rewritten(g) THEN 1 ELSE 0)
      /\ Cardinality(Places(done', Q)) =
           Cardinality(Places(done, Q)) + (IF g.src.op = "COND_EXPR" THEN 1 ELSE 0)
  BY <1>5, <1>6
<1> QED
  BY <1>4, <1>7

CountInv ==
  /\ ternary_count \in Nat /\ lowered_count \in Nat /\ surviving_count \in Nat
  /\ CountsMatchCode

LEMMA InitCounts == Init => CountInv
<1> SUFFICES ASSUME Init PROVE CountInv
  OBVIOUS
<1>1. /\ {i \in DOMAIN done : Rewritten(done[i])} = {}
      /\ {i \in DOMAIN done : done[i].src.op = "COND_EXPR"} = {}
  BY DEF Init
<1> QED
  BY <1>1, FS_EmptySet DEF Init, CountInv, CountsMatchCode

LEMMA StepCounts == IInv /\ CountInv /\ [Next]_vars => CountInv'
<1> SUFFICES ASSUME IInv, CountInv, [Next]_vars PROVE CountInv'
  OBVIOUS
<1>1. CASE Next
  <2>1. PICK code : Emit(code) /\ Counted(code)
    BY <1>1, StepCounted DEF IInv, CountInv
  <2>2. done' = Append(done, Group(code)) /\ Group(code).src.op = Current.op
    BY <2>1 DEF Emit, Group
  <2>3. IsSequence(done)
    BY DEF IInv
  <2>4. /\ lowered_count' = lowered_count + (IF Rewritten(Group(code)) THEN 1 ELSE 0)
        /\ ternary_count' = ternary_count + (IF Current.op = "COND_EXPR" THEN 1 ELSE 0)
    BY <2>1 DEF Counted
  <2>8. /\ surviving_count' \in {surviving_count, surviving_count + 1}
        /\ Current.op = "COND_EXPR" =>
             lowered_count' = lowered_count + 1 \/ surviving_count' = surviving_count + 1
    BY <2>1 DEF Counted
  <2> HIDE DEF Group
  <2>5. /\ lowered_count' = Cardinality({i \in DOMAIN done' : Rewritten(done'[i])})
        /\ ternary_count' = Cardinality({i \in DOMAIN done' : done'[i].src.op = "COND_EXPR"})
    BY <2>2, <2>3, <2>4, CountsAppended DEF CountInv, CountsMatchCode
  <2>6. /\ ternary_count \in Nat /\ lowered_count \in Nat /\ surviving_count \in Nat
        /\ ternary_count <= lowered_count + surviving_count
    BY DEF CountInv, CountsMatchCode
  <2>7. /\ ternary_count' \in Nat /\ lowered_count' \in Nat /\ surviving_count' \in Nat
        /\ ternary_count' <= lowered_count' + surviving_count'
    <3>1. lowered_count' = lowered_count \/ lowered_count' = lowered_count + 1
      BY <2>4, <2>6
    <3>2. surviving_count' = surviving_count \/ surviving_count' = surviving_count + 1
      BY <2>8
    <3>3. \/ ternary_count' = ternary_count
          \/ /\ ternary_count' = ternary_count + 1
             /\ \/ lowered_count' = lowered_count + 1
                \/ surviving_count' = surviving_count + 1
      <4>1. CASE Current.op = "COND_EXPR"
        BY <2>4, <2>8, <4>1
      <4>2. CASE Current.op # "COND_EXPR"
        BY <2>4, <2>6, <4>2
      <4> QED
        BY <4>1, <4>2
    <3> QED
      BY <2>6, <3>1, <3>2, <3>3
  <2> QED
    BY <2>5, <2>7 DEF CountInv, CountsMatchCode
<1>2. CASE UNCHANGED vars
  BY <1>2 DEF vars, CountInv, CountsMatchCode
<1> QED
  BY <1>1, <1>2

(* The statistics printed are those of the code that came out, for every   *)
(* program and every set of options.                                       *)
THEOREM PassCountsMatchCode == Spec => []CountsMatchCode
<1>1. Init => IInv /\ CountInv
  BY InitIInv, InitCounts
<1>2. IInv /\ CountInv /\ [Next]_vars => (IInv /\ CountInv)'
  BY StepIInv, StepCounts
<1>3. CountInv => CountsMatchCode
  BY DEF CountInv
<1> QED
  BY <1>1, <1>2, <1>3, PTL DEF Spec

-----------------------------------------------------------------------------
(* Temporaries.  TempsDefinedOnce is about everything emitted, so the      *)
(* invariant TempInv also bounds the variables written so far by the next  *)
(* number create_tmp_var gives; a step emits statements without            *)
(* temporaries, or one that writes the next and one that reads it.         *)
DefinedOnce(e) ==
  \A i \in DOMAIN e :
    /\ \A k \in DOMAIN e[i].args :
         IsTemp(e[i].args[k]) => \E j \in 1 .. i - 1 : e[j].lhs = e[i].args[k]
    /\ IsTemp(e[i].lhs) => \A j \in DOMAIN e \ {i} : e[j].lhs.n # e[i].lhs.n

WrittenBelow(e, n) == \A i \in DOMAIN e : e[i].lhs.n \in Int /\ e[i].lhs.n < n

(* The temporaries s reads are written in e, the one it writes is not. *)
LEMMA AppendStatement ==
  ASSUME NEW e, IsSequence(e), NEW n \in Int, DefinedOnce(e), WrittenBelow(e, n), NEW s,
         \A k \in DOMAIN s.args :
           IsTemp(s.args[k]) => \E j \in DOMAIN e : e[j].lhs = s.args[k],
         ~s.lhs.const, s.lhs.n \in Int, IsTemp(s.lhs) => n <= s.lhs.n
  PROVE  IsSequence(Append(e, s)) /\ DefinedOnce(Append(e, s))
<1> DEFINE S == {e[i] : i \in DOMAIN e} \cup {s}
           f == Append(e, s)
           m == Len(e) + 1
<1>1. e \in Seq(S)
  BY AnySequence
<1>2. /\ f \in Seq(S) /\ DOMAIN e = 1 .. m - 1 /\ m \in Int /\ DOMAIN f = 1 .. m
      /\ \A i \in 1 .. m - 1 : f[i] = e[i]
      /\ f[m] = s
  <2>1. s \in S
    OBVIOUS
  <2> HIDE DEF S
  <2> QED BY <1>1, <2>1, AppendFacts
<1> HIDE DEF f, m, S
<1>3. ASSUME NEW i \in DOMAIN f, NEW k \in DOMAIN f[i].args, IsTemp(f[i].args[k])
      PROVE  \E j \in 1 .. i - 1 : f[j].lhs = f[i].args[k]
  <2>1. CASE i = m
    BY <2>1, <1>2, <1>3
  <2>2. CASE i # m
    <3>1. i \in DOMAIN e /\ f[i] = e[i] /\ \A j \in 1 .. i - 1 : f[j] = e[j]
      <4>1. i \in 1 .. m - 1 /\ \A j \in 1 .. i - 1 : j \in 1 .. m - 1
        BY <2>2, <1>2
      <4> QED
        BY <4>1, <1>2
    <3>2. PICK j \in 1 .. i - 1 : e[j].lhs = e[i].args[k]
      BY <3>1, <1>3 DEF DefinedOnce
    <3> QED
      BY <3>1, <3>2
  <2> QED
    BY <2>1, <2>2
<1>4. ASSUME NEW i \in DOMAIN f, IsTemp(f[i].lhs), NEW j \in DOMAIN f \ {i}
      PROVE  f[j].lhs.n # f[i].lhs.n
  <2>1. CASE i = m
    <3>1. j \in DOMAIN e /\ f[j] = e[j] /\ f[i] = s
      BY <2>1, <1>2
    <3>2. e[j].lhs.n \in Int /\ e[j].lhs.n < n
      BY <3>1 DEF WrittenBelow
    <3> QED
      BY <3>1, <3>2, <1>4
  <2>2. CASE i # m
    <3>1. i \in DOMAIN e /\ f[i] = e[i]
      <4>1. i \in 1 .. m - 1
        BY <2>2, <1>2
      <4> QED
        BY <4>1, <1>2
    <3>2. CASE j = m
      <4>1. e[i].lhs.n < n /\ e[i].lhs.n \in Int /\ e[i].lhs.n >= FirstTemp /\ ~e[i].lhs.const
        BY <3>1, <1>4 DEF WrittenBelow, IsTemp
      <4>2. f[j] = s /\ s.lhs.n \in Int
        BY <3>2, <1>2
      <4>3. s.lhs.n # e[i].lhs.n
        <5>1. CASE IsTemp(s.lhs)
          BY <5>1, <4>1, <4>2
        <5>2. CASE ~IsTemp(s.lhs)
          <6>1. ~(s.lhs.n >= FirstTemp)
            BY <5>2 DEF IsTemp
          <6> QED
            BY <6>1, <4>1
        <5> QED
          BY <5>1, <5>2
      <4> QED
        BY <3>1, <4>2, <4>3
    <3>3. CASE j # m
      <4>1. j \in DOMAIN e \ {i} /\ f[j] = e[j]
        <5>1. j \in 1 .. m - 1
          BY <3>3, <1>2
        <5> QED
          BY <5>1, <1>2
      <4> QED
        BY <3>1, <4>1, <1>4 DEF DefinedOnce
    <3> QED
      BY <3>2, <3>3
  <2> QED
    BY <2>1, <2>2
<1>5. DefinedOnce(f)
  BY <1>3, <1>4 DEF DefinedOnce
<1> QED
  BY <1>2, <1>5, AnySequence DEF f

LEMMA WrittenAppend ==
  ASSUME NEW e, IsSequence(e), NEW n \in Int, NEW m \in Int, n <= m, WrittenBelow(e, n), NEW s,
         s.lhs.n \in Int, s.lhs.n < m
  PROVE  WrittenBelow(Append(e, s), m)
<1> DEFINE S == {e[i] : i \in DOMAIN e} \cup {s}
           f == Append(e, s)
<1>1. e \in Seq(S) /\ s \in S
  BY AnySequence
<1> HIDE DEF S
<1>2. \A i \in DOMAIN f : f[i] = s \/ \E j \in DOMAIN e : f[i] = e[j]
  BY <1>1, AppendFacts
<1> HIDE DEF f
<1> QED
  BY <1>2 DEF WrittenBelow, f

(* What is passed has one more group, and the code emitted so far goes on. *)
LEMMA EmittedAppended ==
  ASSUME IsSequence(done), \A i \in DOMAIN done : IsSequence(done[i].code),
         NEW src, NEW code, IsSequence(code),
         done' = Append(done, [src |-> src, code |-> code])
  PROVE  /\ IsSequence(Emitted)
         /\ Emitted' = Emitted \o code
         /\ IsSequence(done') /\ \A i \in DOMAIN done' : IsSequence(done'[i].code)
<1> DEFINE g == [src |-> src, code |-> code]
           S == {done[i] : i \in DOMAIN done} \cup {g}
           n == Len(done)
           codes == [i \in DOMAIN done |-> done[i].code]
           more == [i \in DOMAIN done' |-> done'[i].code]
           T == {done[i].code : i \in DOMAIN done} \cup {code}
<1>1. done \in Seq(S) /\ g \in S
  BY AnySequence
<1>2. /\ done' \in Seq(S) /\ DOMAIN done = 1 .. n /\ n \in Nat /\ DOMAIN done' = 1 .. n + 1
      /\ \A i \in 1 .. n : done'[i] = done[i]
      /\ done'[n + 1] = g
  <2>1. done' = Append(done, g)
    OBVIOUS
  <2> HIDE DEF S, g
  <2> QED BY <1>1, <2>1, AppendFacts
<1>3. g.code = code
  OBVIOUS
<1> HIDE DEF g, S, n
<1>4. /\ DOMAIN codes = 1 .. n /\ \A i \in 1 .. n : codes[i] = done[i].code
      /\ DOMAIN more = 1 .. n + 1 /\ \A i \in 1 .. n + 1 : more[i] = done'[i].code
      /\ codes = [i \in 1 .. n |-> codes[i]] /\ more = [i \in 1 .. n + 1 |-> more[i]]
  BY <1>2
<1>5. (\A i \in 1 .. n : codes[i] \in T) /\ code \in T /\ \A i \in 1 .. n + 1 : more[i] \in T
  BY <1>2, <1>3, SMTT(30)
<1>6. (\A i \in 1 .. n : more[i] = codes[i]) /\ more[n + 1] = code
  BY <1>2, <1>3
<1> HIDE DEF codes, more, T
<1>7. codes \in Seq(T) /\ more \in Seq(T) /\ Len(codes) = n /\ Len(more) = n + 1
  <2>1. codes \in [1 .. n -> T] /\ more \in [1 .. n + 1 -> T]
    BY <1>4, <1>5
  <2>2. n \in Nat /\ n + 1 \in Nat
    BY <1>2
  <2>3. codes \in Seq(T)
    BY <2>1, <2>2, SeqDef
  <2>4. more \in Seq(T)
    BY <2>1, <2>2, SeqDef
  <2> QED
    BY <1>4, <2>2, <2>3, <2>4
<1>8. more = Append(codes, code)
  <2> DEFINE a == Append(codes, code)
  <2>1. a \in Seq(T) /\ Len(a) = n + 1 /\ (\A i \in 1 .. n : a[i] = codes[i]) /\ a[n + 1] = code
    BY <1>5, <1>7
  <2> HIDE DEF a
  <2>2. \A i \in 1 .. n + 1 : a[i] = more[i]
    <3>1. \A i \in 1 .. n + 1 : i \in 1 .. n \/ i = n + 1
      BY <1>2
    <3> QED
      BY <3>1, <2>1, <1>6
  <2> QED
    BY <1>7, <2>1, <2>2, SeqEqual DEF a
<1>9. Emitted = FlattenSeq(codes) /\ Emitted' = FlattenSeq(more)
  BY DEF Emitted, codes, more
<1>10. /\ IsSequence(codes) /\ \A i \in DOMAIN codes : IsSequence(codes[i])
       /\ IsSequence(done') /\ \A i \in DOMAIN done' : IsSequence(done'[i].code)
  <2>1. IsSequence(codes) /\ IsSequence(done')
    BY <1>2, <1>7, AnySequence
  <2>2. \A i \in 1 .. n : IsSequence(codes[i])
    BY <1>2, <1>4
  <2>3. \A i \in 1 .. n + 1 : i \in 1 .. n \/ i = n + 1
    BY <1>2
  <2> QED
    BY <1>2, <1>3, <1>4, <2>1, <2>2, <2>3
<1> QED
  BY <1>8, <1>9, <1>10, FlattenSequences

-----------------------------------------------------------------------------
Plain(s) ==
  /\ ~s.lhs.const /\ s.lhs.n \in Int /\ s.lhs.n < FirstTemp
  /\ \A k \in DOMAIN s.args : ~IsTemp(s.args[k])

(* s is the user of the temporary d writes. *)
ReadsOnly(s, o) ==
  /\ ~s.lhs.const /\ s.lhs.n \in Int /\ s.lhs.n < FirstTemp
  /\ \A k \in DOMAIN s.args : IsTemp(s.args[k]) => s.args[k] = o

NumbersTemps(code) ==
  \/ /\ temps' = temps
     /\ \E s : code = <<s>> /\ Plain(s)
  \/ /\ temps' = temps + 1
     /\ \E d, s : /\ code = <<d, s>>
                  /\ ~d.lhs.const /\ d.lhs.n = FirstTemp + temps
                  /\ \A k \in DOMAIN d.args : ~IsTemp(d.args[k])
                  /\ ReadsOnly(s, d.lhs)

TempInv ==
  /\ temps \in Nat
  /\ \A i \in DOMAIN done : IsSequence(done[i].code)
  /\ WrittenBelow(Emitted, FirstTemp + temps)
  /\ TempsDefinedOnce

LEMMA NumberedKeeps ==
  ASSUME IsSequence(done), TempInv, NEW code, Emit(code), NumbersTemps(code)
  PROVE  TempInv'
<1> DEFINE e == Emitted
           n == FirstTemp + temps
<1>1. done' = Append(done, [src |-> Current, code |-> code])
  BY DEF Emit
<1>2. temps \in Nat /\ n \in Int /\ FirstTemp <= n /\ FirstTemp \in Nat
  BY PassAssumption DEF TempInv
<1>3. DefinedOnce(e) /\ WrittenBelow(e, n)
  BY DEF TempInv, TempsDefinedOnce, DefinedOnce
<1>4. CASE temps' = temps /\ \E s : code = <<s>> /\ Plain(s)
  <2>1. PICK s : code = <<s>> /\ Plain(s)
    BY <1>4
  <2>2. IsSequence(code)
    BY <2>1 DEF IsSequence
  <2>3. /\ IsSequence(e) /\ Emitted' = e \o code
        /\ \A i \in DOMAIN done' : IsSequence(done'[i].code)
    BY <1>1, <2>2, EmittedAppended DEF TempInv
  <2> HIDE DEF e, n
  <2>4. Emitted' = Append(e, s)
    BY <2>1, <2>3, ConcatIsAppend
  <2>5. DefinedOnce(Append(e, s)) /\ WrittenBelow(Append(e, s), n)
    BY <1>2, <1>3, <2>1, <2>3, AppendStatement, WrittenAppend DEF Plain, IsTemp
  <2>6. n = FirstTemp + temps'
    BY <1>4 DEF n
  <2>7. TempsDefinedOnce' /\ WrittenBelow(Emitted', FirstTemp + temps')
    BY <2>4, <2>5, <2>6 DEF TempsDefinedOnce, DefinedOnce
  <2> QED
    BY <1>2, <1>4, <2>3, <2>7 DEF TempInv, WrittenBelow
<1>5. CASE /\ temps' = temps + 1
           /\ \E d, s : /\ code = <<d, s>>
                        /\ ~d.lhs.const /\ d.lhs.n = FirstTemp + temps
                        /\ \A k \in DOMAIN d.args : ~IsTemp(d.args[k])
                        /\ ReadsOnly(s, d.lhs)
  <2>1. PICK d, s : /\ code = <<d, s>>
                    /\ ~d.lhs.const /\ d.lhs.n = n
                    /\ \A k \in DOMAIN d.args : ~IsTemp(d.args[k])
                    /\ ReadsOnly(s, d.lhs)
    BY <1>5
  <2>2. IsSequence(code)
    BY <2>1 DEF IsSequence
  <2>3. /\ IsSequence(e) /\ Emitted' = e \o code
        /\ \A i \in DOMAIN done' : IsSequence(done'[i].code)
    BY <1>1, <2>2, EmittedAppended DEF TempInv
  <2> DEFINE f == Append(e, d)
  <2> HIDE DEF e, n
  <2>4. Emitted' = Append(f, s)
    BY <2>1, <2>3, ConcatIsAppend, SMTT(30)
  <2>5. IsSequence(f) /\ DefinedOnce(f) /\ WrittenBelow(f, n + 1)
    <3>1. IsSequence(f) /\ DefinedOnce(f)
      BY <1>2, <1>3, <2>1, <2>3, AppendStatement, SMTT(30)
    <3>2. n + 1 \in Int /\ n <= n + 1 /\ d.lhs.n \in Int /\ d.lhs.n < n + 1
      BY <1>2, <2>1
    <3>3. WrittenBelow(f, n + 1)
      BY <3>2, <1>2, <1>3, <2>3, WrittenAppend
    <3> QED
      BY <3>1, <3>3
  <2>6. \E j \in DOMAIN f : f[j].lhs = d.lhs
    BY <2>3, ConcatIsAppend
  <2> HIDE DEF f
  <2>7. DefinedOnce(Append(f, s)) /\ WrittenBelow(Append(f, s), n + 1)
    BY <1>2, <2>1, <2>5, <2>6, AppendStatement, WrittenAppend DEF ReadsOnly, IsTemp
  <2>8. n + 1 = FirstTemp + temps'
    BY <1>2, <1>5 DEF n
  <2>9. TempsDefinedOnce' /\ WrittenBelow(Emitted', FirstTemp + temps')
    BY <2>4, <2>7, <2>8 DEF TempsDefinedOnce, DefinedOnce
  <2> QED
    BY <1>2, <1>5, <2>3, <2>9, SMTT(30) DEF TempInv, WrittenBelow
<1> QED
  BY <1>4, <1>5 DEF NumbersTemps

(* What the pass makes of an operand that is no temporary is none either. *)
LEMMA PackedIsNoTemp ==
  \A o : ~IsTemp(o) => ~IsTemp(PackConstant(o))
  BY DEF PackConstant, Pack, C, IsTemp

(* A decoded condition is the one temporary of the select that reads it. *)
LEMMA NumbersAfterDecodeCond ==
  ASSUME temps \in Nat, NEW s, temps' = temps + Len(DecodeCond), ~IsTemp(Arm(1)),
         ReadsOnly(s, Temp("i64")), Arm(1).ty \notin Ternary => Plain(s)
  PROVE  NumbersTemps(DecodeCond \o <<s>>)
<1>1. CASE Arm(1).ty \in Ternary
  <2> DEFINE d == Call(<<"tt2b", Arm(1).ty>>, Temp("i64"), <<Arm(1)>>)
  <2>1. DecodeCond = <<d>>
    BY <1>1 DEF DecodeCond
  <2>2. /\ ~d.lhs.const /\ d.lhs.n = FirstTemp + temps /\ d.lhs = Temp("i64")
        /\ \A k \in DOMAIN d.args : ~IsTemp(d.args[k])
    BY DEF Call, Stmt, Temp, V
  <2> HIDE DEF d
  <2>3. DecodeCond \o <<s>> = <<d, s>> /\ Len(<<d>>) = 1
    BY <2>1, PairConcat
  <2> QED
    BY <2>1, <2>2, <2>3 DEF NumbersTemps
<1>2. CASE Arm(1).ty \notin Ternary
  <2>1. DecodeCond = <<>> /\ DecodeCond \o <<s>> = <<s>> /\ Len(DecodeCond) = 0
    BY <1>2 DEF DecodeCond
  <2>2. temps' = temps
    BY <2>1
  <2> QED
    BY <1>2, <2>1, <2>2 DEF NumbersTemps
<1> QED
  BY <1>1, <1>2

LEMMA StepNumbers ==
  ASSUME todo \in Seq(SourceStmt), temps \in Nat, Next
  PROVE  \E code : Emit(code) /\ NumbersTemps(code)
<1>1. todo # <<>> /\ Current \in SourceStmt
  BY StepWalks
<1>2. /\ ~Current.lhs.const /\ Current.lhs.n \in Int /\ Current.lhs.n < FirstTemp
      /\ Current.args \in Seq(SourceOperand)
  <2>1. Current.lhs \in SourceVariable /\ Current.args \in Seq(SourceOperand)
    BY <1>1 DEF SourceStmt
  <2> QED
    BY <2>1, PassAssumption DEF SourceVariable, SourceOperand, Operand
<1>3. \A k \in DOMAIN Current.args :
        /\ Current.args[k] \in Operand
        /\ ~IsTemp(Current.args[k]) /\ ~IsTemp(PackConstant(Current.args[k]))
  <2>1. \A o \in SourceOperand : o \in Operand /\ ~IsTemp(o)
    BY PassAssumption DEF SourceOperand, Operand, IsTemp
  <2>2. \A k \in DOMAIN Current.args : Current.args[k] \in SourceOperand
    BY <1>2
  <2> QED
    BY <2>1, <2>2, PackedIsNoTemp
<1>4. Plain(Current)
  BY <1>2, <1>3 DEF Plain
<1>5. ASSUME NEW s, Emit(<<s>>), Plain(s), UNCHANGED temps
      PROVE  \E code : Emit(code) /\ NumbersTemps(code)
  BY <1>5 DEF NumbersTemps
<1>6. Leave /\ UNCHANGED temps => \E code : Emit(code) /\ NumbersTemps(code)
  BY <1>4, <1>5 DEF Leave, Emit
<1>7. \A o : ~IsTemp(o) => Plain(Assign(Current.lhs, o))
  BY <1>2 DEF Plain, Assign, Stmt
<1>8. \A decl : Plain(Call(decl, Current.lhs, Current.args))
  BY <1>2, <1>3 DEF Plain, Call, Stmt
<1>9. \A v, ty : ~IsTemp(Pack(v, ty))
  BY DEF Pack, C, IsTemp
<1>10. Conditional => ~IsTemp(Arm(1)) /\ ~IsTemp(Arm(2)) /\ ~IsTemp(Arm(3))
  <2>1. Conditional => DOMAIN Current.args = 1 .. 3
    <3>1. Conditional => Len(Current.args) = 3
      BY <1>1 DEF Conditional, IsConditional, SourceStmt, Gimplified
    <3> QED
      BY <3>1, <1>2
  <2> QED
    BY <2>1, <1>3 DEF Arm
<1>a. CASE KeepConditional
  BY <1>6, <1>a DEF KeepConditional
<1>b. CASE FoldConditional
  <2> DEFINE o == IF CondZero THEN Arm(3) ELSE Arm(2)
  <2>1. Emit(<<Assign(Current.lhs, o)>>) /\ UNCHANGED temps
    BY <1>b DEF FoldConditional
  <2>2. ~IsTemp(o)
    BY <1>10, <1>b DEF FoldConditional
  <2> HIDE DEF o
  <2> QED
    BY <1>5, <1>7, <2>1, <2>2
<1>c. CASE MergeEqualArms
  BY <1>5, <1>7, <1>10, <1>c DEF MergeEqualArms
<1>d. CASE LowerConditional
  <2> DEFINE s == Call(SelectDecl(Current.lhs.ty), Current.lhs, <<CondArg, Arm(2), Arm(3)>>)
  <2>1. Emit(DecodeCond \o <<s>>) /\ temps' = temps + Len(DecodeCond) /\ Conditional
    BY <1>d DEF LowerConditional
  <2>2. s.lhs = Current.lhs /\ s.args = <<CondArg, Arm(2), Arm(3)>>
    BY DEF Call, Stmt
  <2>3. DOMAIN s.args = 1 .. 3 /\ s.args[1] = CondArg /\ s.args[2] = Arm(2) /\ s.args[3] = Arm(3)
    BY <2>2
  <2> HIDE DEF s
  <2>4. CondArg = Temp("i64") \/ ~IsTemp(CondArg)
    BY <1>10, <2>1 DEF CondArg, IsTemp
  <2>5. Arm(1).ty \notin Ternary => ~IsTemp(CondArg)
    BY <1>10, <2>1 DEF CondArg, IsTemp
  <2>6. ReadsOnly(s, Temp("i64"))
    BY <1>2, <1>10, <2>1, <2>2, <2>3, <2>4 DEF ReadsOnly
  <2>7. Arm(1).ty \notin Ternary => Plain(s)
    BY <1>2, <1>10, <2>1, <2>2, <2>3, <2>5 DEF Plain
  <2> QED
    BY <1>10, <2>1, <2>6, <2>7, NumbersAfterDecodeCond
<1>e. CASE KeepUnsupportedConditional
  <2>1. Emit(DecodeCond \o <<Current>>) /\ temps' = temps + Len(DecodeCond) /\ Conditional
    BY <1>e DEF KeepUnsupportedConditional
  <2>2. ReadsOnly(Current, Temp("i64"))
    BY <1>4 DEF Plain, ReadsOnly
  <2> QED
    BY <1>4, <1>10, <2>1, <2>2, NumbersAfterDecodeCond
<1>f. CASE FoldConversion
  BY <1>5, <1>7, <1>9, <1>f DEF FoldConversion, TernaryAssign
<1>g. CASE LeaveMixed
  BY <1>6, <1>g DEF LeaveMixed, TernaryAssign
<1>h. CASE FoldConstants
  BY <1>5, <1>7, <1>9, <1>h DEF FoldConstants, TernaryAssign
<1>i. CASE Simplify
  <2>1. Simplified # <<>> => ~IsTemp(Simplified[1])
    <3>1. ConstArg(2) => 1 \in DOMAIN Current.args /\ 2 \in DOMAIN Current.args
      BY <1>2 DEF ConstArg
    <3>2. ConstArg(2) => ~IsTemp(Arg(1)) /\ ~IsTemp(Arg(2))
      BY <3>1, <1>3 DEF Arg
    <3> QED
      BY <3>2 DEF Simplified
  <2> QED
    BY <1>5, <1>7, <1>i, <2>1 DEF Simplify, TernaryAssign
<1>j. CASE LowerOperation
  BY <1>5, <1>8, <1>j DEF LowerOperation, TernaryAssign
<1>k. CASE KeepUnsupported
  BY <1>6, <1>k DEF KeepUnsupported, TernaryAssign
<1>l. CASE LowerComparison
  <2> DEFINE d == Call(<<"cmp", Current.args[1].ty>>, Temp("i32"), Current.args)
             s == [Current EXCEPT !.args = <<Temp("i32"), C("i32", 0)>>]
  <2>1. Emit(<<d, s>>) /\ temps' = temps + 1
    BY <1>l DEF LowerComparison
  <2>2. /\ ~d.lhs.const /\ d.lhs.n = FirstTemp + temps /\ d.lhs = Temp("i32")
        /\ d.args = Current.args
    BY DEF Call, Stmt, Temp, V
  <2>3. s.lhs = Current.lhs /\ s.args = <<Temp("i32"), C("i32", 0)>>
    BY <1>1 DEF SourceStmt
  <2> HIDE DEF d, s
  <2>4. ReadsOnly(s, d.lhs)
    BY <1>2, <2>2, <2>3 DEF ReadsOnly, C, IsTemp
  <2> QED
    BY <1>3, <2>1, <2>2, <2>4 DEF NumbersTemps
<1>m. CASE LowerConversion
  BY <1>5, <1>8, <1>m DEF LowerConversion
<1>n. CASE LowerBuiltin
  BY <1>5, <1>8, <1>n DEF LowerBuiltin, Builtin
<1>o. CASE LowerTernaryCompare
  BY <1>5, <1>8, <1>o DEF LowerTernaryCompare, Builtin
<1>p. CASE LowerBuiltinSelect
  BY <1>5, <1>8, <1>p DEF LowerBuiltinSelect, Builtin
<1>q. CASE LowerLoad
  <2>1. Plain(Stmt("assign", "MEM_REF", "", Current.lhs, Current.args))
    BY <1>2, <1>3 DEF Plain, Stmt
  <2> QED
    BY <1>5, <1>q, <2>1 DEF LowerLoad, Builtin
<1>r. CASE PassOver
  BY <1>6, <1>r DEF PassOver
<1> QED
  BY <1>a, <1>b, <1>c, <1>d, <1>e, <1>f, <1>g, <1>h, <1>i, <1>j, <1>k, <1>l,
     <1>m, <1>n, <1>o, <1>p, <1>q, <1>r DEF Next

LEMMA InitTemps == Init => TempInv
<1> SUFFICES ASSUME Init PROVE TempInv
  OBVIOUS
<1>1. DOMAIN done = {} /\ temps = 0
  BY DEF Init
<1>2. Emitted = <<>>
  <2>1. [i \in DOMAIN done |-> done[i].code] = <<>>
    BY <1>1
  <2>2. FlattenSeq(<<>>) = <<>>
    BY DEF FlattenSeq
  <2> QED
    BY <2>1, <2>2 DEF Emitted
<1> QED
  BY <1>1, <1>2 DEF TempInv, WrittenBelow, TempsDefinedOnce

LEMMA StepTemps == IInv /\ TempInv /\ [Next]_vars => TempInv'
<1> SUFFICES ASSUME IInv, TempInv, [Next]_vars PROVE TempInv'
  OBVIOUS
<1>1. CASE Next
  BY <1>1, StepNumbers, NumberedKeeps DEF IInv, TempInv
<1>2. CASE UNCHANGED vars
  BY <1>2 DEF vars, TempInv, WrittenBelow, TempsDefinedOnce, Emitted
<1> QED
  BY <1>1, <1>2

(* No temporary is written twice or read before it is written, for every   *)
(* program, every set of options and any number of temporaries.            *)
THEOREM PassTempsDefinedOnce == Spec => []TempsDefinedOnce
<1>1. Init => IInv /\ TempInv
  BY InitIInv, InitTemps
<1>2. IInv /\ TempInv /\ [Next]_vars => (IInv /\ TempInv)'
  BY StepIInv, StepTemps
<1>3. TempInv => TempsDefinedOnce
  BY DEF TempInv
<1> QED
  BY <1>1, <1>2, <1>3, PTL DEF Spec

-----------------------------------------------------------------------------
(* The types.  A step emits the operands of the statement, temporaries,    *)
(* and containers it packed, which BitsOf keeps below Pow4[Trits]; it      *)
(* caches only declarations of helpers of a type.                          *)
Typed(s) == \A m \in DOMAIN s.args : IsOperand(s.args[m])
TypedCode(code) == \A k \in DOMAIN code : Typed(code[k])

LEMMA PackTyped ==
  ASSUME NEW v, NEW ty, CanPack(v, ty)
  PROVE  IsOperand(Pack(v, ty))
<1>1. v \in CInteger /\ ty = "t32"
  BY DEF CanPack, Packable
<1>2. Encode(v) \in Word
  BY EncodeCanonical, CanonicalWordIs
<1>3. PackedBits[v] \in 0 .. Pow4[Trits] - 1
  <2>1. PackedBits[v] = BitsOf(Encode(v))
    BY <1>1 DEF PackedBits
  <2> QED
    BY <1>2, <2>1, WordCodes
<1>4. Pow4[Trits] \in Int
  BY TritsAssumption, Pow4Facts
<1>5. Pack(v, ty) = [const |-> TRUE, ty |-> "t32", n |-> PackedBits[v]]
  BY <1>1 DEF Pack, C
<1>6. PackedBits[v] \in Int /\ "t32" \in Type
  BY <1>3, <1>4 DEF Type
<1> QED
  BY <1>3, <1>5, <1>6 DEF IsOperand, InContainer, Operand

LEMMA PackConstantTyped == \A o : IsOperand(o) => IsOperand(PackConstant(o))
  BY PackTyped DEF PackConstant

LEMMA TempTyped ==
  ASSUME temps \in Nat
  PROVE  IsOperand(Temp("i32")) /\ IsOperand(Temp("i64")) /\ IsOperand(C("i32", 0))
<1>1. FirstTemp + temps \in Int /\ {"i32", "i64"} \subseteq Type /\ {"i32", "i64"} \cap Ternary = {}
  BY PassAssumption DEF Type, Ternary
<1> QED
  BY <1>1 DEF Temp, V, C, IsOperand, InContainer, Operand

LEMMA CodeTyped ==
  /\ \A s : Typed(s) => TypedCode(<<s>>)
  /\ \A s, t : Typed(s) /\ Typed(t) => TypedCode(<<s, t>>)
  BY DEF TypedCode

LEMMA StatementTyped ==
  /\ \A lhs, o : IsOperand(o) => Typed(Assign(lhs, o))
  /\ \A decl, lhs, args : (\A m \in DOMAIN args : IsOperand(args[m])) => Typed(Call(decl, lhs, args))
  BY DEF Typed, Assign, Call, Stmt

LEMMA DecodeCondTyped ==
  ASSUME NEW s, Typed(s), IsOperand(Arm(1))
  PROVE  TypedCode(DecodeCond \o <<s>>)
<1>1. CASE Arm(1).ty \in Ternary
  <2> DEFINE d == Call(<<"tt2b", Arm(1).ty>>, Temp("i64"), <<Arm(1)>>)
  <2>1. DecodeCond = <<d>>
    BY <1>1 DEF DecodeCond
  <2>2. Typed(d)
    BY StatementTyped
  <2> HIDE DEF d
  <2>3. DecodeCond \o <<s>> = <<d, s>>
    BY <2>1, PairConcat
  <2> QED
    BY <2>2, <2>3, CodeTyped
<1>2. CASE Arm(1).ty \notin Ternary
  <2>1. DecodeCond \o <<s>> = <<s>>
    BY <1>2 DEF DecodeCond
  <2> QED
    BY <2>1, CodeTyped
<1> QED
  BY <1>1, <1>2

LEMMA StepTyped ==
  ASSUME todo \in Seq(SourceStmt), temps \in Nat, Next
  PROVE  \E code : Emit(code) /\ TypedCode(code)
<1>1. todo # <<>> /\ Current \in SourceStmt
  BY StepWalks
<1>2. Current.args \in Seq(SourceOperand)
  BY <1>1 DEF SourceStmt
<1>3. \A k \in DOMAIN Current.args :
        IsOperand(Current.args[k]) /\ IsOperand(PackConstant(Current.args[k]))
  <2>1. \A o \in SourceOperand : IsOperand(o)
    BY DEF SourceOperand, IsOperand
  <2>2. \A k \in DOMAIN Current.args : Current.args[k] \in SourceOperand
    BY <1>2
  <2> QED
    BY <2>1, <2>2, PackConstantTyped
<1>4. Typed(Current)
  BY <1>3 DEF Typed
<1>5. \A s : Emit(<<s>>) /\ Typed(s) => \E code : Emit(code) /\ TypedCode(code)
  BY CodeTyped
<1>6. Leave => \E code : Emit(code) /\ TypedCode(code)
  BY <1>4, <1>5 DEF Leave, Emit
<1>7. \A o : IsOperand(o) => Typed(Assign(Current.lhs, o))
  BY StatementTyped
<1>8. \A decl : Typed(Call(decl, Current.lhs, Current.args))
  BY <1>3, StatementTyped
<1>9. Conditional => IsOperand(Arm(1)) /\ IsOperand(Arm(2)) /\ IsOperand(Arm(3))
  <2>1. Conditional => DOMAIN Current.args = 1 .. 3
    <3>1. Conditional => Len(Current.args) = 3
      BY <1>1 DEF Conditional, IsConditional, SourceStmt, Gimplified
    <3> QED
      BY <3>1, <1>2
  <2> QED
    BY <2>1, <1>3 DEF Arm
<1>10. IsOperand(Temp("i32")) /\ IsOperand(Temp("i64")) /\ IsOperand(C("i32", 0))
  BY TempTyped
<1>a. CASE KeepConditional
  BY <1>6, <1>a DEF KeepConditional
<1>b. CASE FoldConditional
  <2> DEFINE o == IF CondZero THEN Arm(3) ELSE Arm(2)
  <2>1. Emit(<<Assign(Current.lhs, o)>>)
    BY <1>b DEF FoldConditional
  <2>2. IsOperand(o)
    BY <1>9, <1>b DEF FoldConditional
  <2> HIDE DEF o
  <2> QED
    BY <1>5, <1>7, <2>1, <2>2
<1>c. CASE MergeEqualArms
  BY <1>5, <1>7, <1>9, <1>c DEF MergeEqualArms
<1>d. CASE LowerConditional
  <2> DEFINE args == <<CondArg, Arm(2), Arm(3)>>
  <2>1. Emit(DecodeCond \o <<Call(SelectDecl(Current.lhs.ty), Current.lhs, args)>>) /\ Conditional
    BY <1>d DEF LowerConditional
  <2>2. IsOperand(CondArg)
    <3>1. Arm(1).ty \notin Ternary => CondArg = [Arm(1) EXCEPT !.ty = "i64"]
      BY DEF CondArg
    <3>2. Arm(1) \in Operand /\ "i64" \in Type /\ "i64" \notin Ternary
      BY <1>9, <2>1 DEF IsOperand, Type, Ternary
    <3>3. IsOperand([Arm(1) EXCEPT !.ty = "i64"])
      BY <3>2 DEF Operand, IsOperand, InContainer
    <3> QED
      BY <1>10, <3>1, <3>3 DEF CondArg
  <2>3. \A m \in DOMAIN args : IsOperand(args[m])
    <3>1. DOMAIN args = 1 .. 3 /\ args[1] = CondArg /\ args[2] = Arm(2) /\ args[3] = Arm(3)
      OBVIOUS
    <3> HIDE DEF args
    <3> QED
      BY <1>9, <2>1, <2>2, <3>1
  <2> HIDE DEF args
  <2>4. Typed(Call(SelectDecl(Current.lhs.ty), Current.lhs, args))
    BY <2>3, StatementTyped
  <2> QED
    BY <1>9, <2>1, <2>4, DecodeCondTyped
<1>e. CASE KeepUnsupportedConditional
  BY <1>4, <1>9, <1>e, DecodeCondTyped DEF KeepUnsupportedConditional
<1>f. CASE FoldConversion
  <2>1. IsOperand(Pack(Arg(1).n, LhsTy))
    BY <1>f, PackTyped DEF FoldConversion, FoldsConversion
  <2> QED
    BY <1>5, <1>7, <1>f, <2>1 DEF FoldConversion
<1>g. CASE LeaveMixed
  BY <1>6, <1>g DEF LeaveMixed
<1>h. CASE FoldConstants
  <2>1. IsOperand(Pack(Folded, LhsTy))
    BY <1>h, PackTyped DEF FoldConstants, FoldsConstants
  <2> QED
    BY <1>5, <1>7, <1>h, <2>1 DEF FoldConstants
<1>i. CASE Simplify
  <2>1. Simplified # <<>> => IsOperand(Simplified[1])
    <3>1. ConstArg(2) => 1 \in DOMAIN Current.args /\ 2 \in DOMAIN Current.args
      BY <1>2 DEF ConstArg
    <3>2. ConstArg(2) => IsOperand(Arg(1)) /\ IsOperand(Arg(2))
      BY <3>1, <1>3 DEF Arg
    <3> QED
      BY <3>2 DEF Simplified
  <2> QED
    BY <1>5, <1>7, <1>i, <2>1 DEF Simplify
<1>j. CASE LowerOperation
  BY <1>5, <1>8, <1>j DEF LowerOperation
<1>k. CASE KeepUnsupported
  BY <1>6, <1>k DEF KeepUnsupported
<1>l. CASE LowerComparison
  <2> DEFINE d == Call(<<"cmp", Current.args[1].ty>>, Temp("i32"), Current.args)
             s == [Current EXCEPT !.args = <<Temp("i32"), C("i32", 0)>>]
  <2>1. Emit(<<d, s>>)
    BY <1>l DEF LowerComparison
  <2>2. Typed(d)
    BY <1>3, StatementTyped
  <2>3. s.args = <<Temp("i32"), C("i32", 0)>>
    BY <1>1 DEF SourceStmt
  <2> HIDE DEF d, s
  <2>4. Typed(s)
    BY <1>10, <2>3 DEF Typed
  <2> QED
    BY <2>1, <2>2, <2>4, CodeTyped
<1>m. CASE LowerConversion
  BY <1>5, <1>8, <1>m DEF LowerConversion
<1>n. CASE LowerBuiltin
  BY <1>5, <1>8, <1>n DEF LowerBuiltin
<1>o. CASE LowerTernaryCompare
  BY <1>5, <1>8, <1>o DEF LowerTernaryCompare
<1>p. CASE LowerBuiltinSelect
  BY <1>5, <1>8, <1>p DEF LowerBuiltinSelect
<1>q. CASE LowerLoad
  <2>1. Typed(Stmt("assign", "MEM_REF", "", Current.lhs, Current.args))
    BY <1>3 DEF Typed, Stmt
  <2> QED
    BY <1>5, <1>q, <2>1 DEF LowerLoad
<1>r. CASE PassOver
  BY <1>6, <1>r DEF PassOver
<1> QED
  BY <1>a, <1>b, <1>c, <1>d, <1>e, <1>f, <1>g, <1>h, <1>i, <1>j, <1>k, <1>l,
     <1>m, <1>n, <1>o, <1>p, <1>q, <1>r DEF Next

LEMMA StepCache ==
  ASSUME decl_cache \in [Key -> CachedName \X Type], Next
  PROVE  decl_cache' \in [Key -> CachedName \X Type] /\ UNCHANGED opt
<1>1. \/ UNCHANGED decl_cache
      \/ \E key \in Key : /\ decl_cache[key] \in CachedName \X Type
                          /\ decl_cache' = [decl_cache EXCEPT ![key] = decl_cache[key]]
      \/ \E key, decl : decl \in CachedName \X Type /\ decl_cache' = [decl_cache EXCEPT ![key] = decl]
  <2>1. \A cond, ty : HasSelectDecl(ty, cond) => ty \in Type
    BY DEF HasSelectDecl, Integral, Ternary, Type
  <2>2. \A key \in Key : \A fresh \in CachedName \X Type : Cached(key, fresh) \in CachedName \X Type
    BY DEF Cached
  <2>3. \A ty \in Type : SelectKey(ty) \in Key /\ CompareKey(ty) \in Key
    BY DEF SelectKey, CompareKey, Key
  <2>4. \A ty \in Type : SelectDecl(ty) \in CachedName \X Type
    BY <2>2, <2>3 DEF SelectDecl, CachedName
  <2>5. CASE LowerConditional
    BY <2>1, <2>4, <2>5 DEF LowerConditional, Remember
  <2>6. CASE LowerBuiltinSelect
    BY <2>1, <2>4, <2>6 DEF LowerBuiltinSelect, Remember
  <2>7. CASE LowerTernaryCompare
    <3>1. LhsTy \in Type /\ Op \in CachedName
      BY <2>7 DEF LowerTernaryCompare, Ternary, Type, CachedName
    <3>2. Cached(CompareKey(LhsTy), <<Op, LhsTy>>) \in CachedName \X Type
      BY <2>2, <2>3, <3>1
    <3> QED
      BY <2>7, <3>2 DEF LowerTernaryCompare, Remember
  <2>8. CASE ~LowerConditional /\ ~LowerBuiltinSelect /\ ~LowerTernaryCompare
    BY <2>8 DEF Next, KeepConditional, FoldConditional, MergeEqualArms,
         KeepUnsupportedConditional, FoldConversion, LeaveMixed,
         FoldConstants, Simplify, LowerOperation, KeepUnsupported, TernaryAssign,
         LowerComparison, LowerConversion, LowerBuiltin, LowerLoad, PassOver
  <2> QED
    BY <2>5, <2>6, <2>7, <2>8
<1>2. UNCHANGED opt
  BY DEF Next, KeepConditional, FoldConditional, MergeEqualArms, LowerConditional,
         KeepUnsupportedConditional, Conditional, FoldConversion, LeaveMixed,
         FoldConstants, Simplify, LowerOperation, KeepUnsupported, TernaryAssign,
         LowerComparison, LowerConversion, LowerBuiltin,
         LowerTernaryCompare, LowerBuiltinSelect, LowerLoad, Builtin, PassOver
<1> QED
  BY <1>1, <1>2

LEMMA InitTypes == Init => TypeOK
<1> SUFFICES ASSUME Init PROVE TypeOK
  OBVIOUS
<1>1. opt \subseteq Flags
  BY PassAssumption DEF Init
<1>2. decl_cache \in [Key -> CachedName \X Type]
  BY DEF Init, NoDecl, Type, CachedName
<1> QED
  BY <1>1, <1>2 DEF Init, TypeOK

LEMMA StepTypes ==
  IInv /\ CountInv /\ TempInv /\ TypeOK /\ [Next]_vars => TypeOK'
<1> SUFFICES ASSUME IInv, CountInv, TempInv, TypeOK, [Next]_vars PROVE TypeOK'
  OBVIOUS
<1>1. CASE Next
  <2>1. PICK code : Emit(code) /\ TypedCode(code)
    BY <1>1, StepTyped DEF IInv, TempInv
  <2>2. opt' \subseteq Flags /\ decl_cache' \in [Key -> CachedName \X Type]
    BY <1>1, StepCache DEF TypeOK
  <2>3. CountInv' /\ TempInv'
    BY <1>1, StepCounts, StepTemps
  <2>4. \A i \in DOMAIN done' : TypedCode(done'[i].code)
    <3> DEFINE g == [src |-> Current, code |-> code]
               S == {done[i] : i \in DOMAIN done} \cup {g}
    <3>1. done' = Append(done, g)
      BY <2>1 DEF Emit
    <3>2. done \in Seq(S) /\ g \in S /\ TypedCode(g.code)
      BY <2>1, AnySequence DEF IInv
    <3>3. \A i \in DOMAIN done : TypedCode(done[i].code)
      BY DEF TypeOK, TypedCode, Typed
    <3> HIDE DEF g, S
    <3>4. \A i \in DOMAIN done' : done'[i] = g \/ \E k \in DOMAIN done : done'[i] = done[k]
      BY <3>1, <3>2, AppendFacts
    <3> QED
      BY <3>2, <3>3, <3>4
  <2> QED
    BY <2>2, <2>3, <2>4 DEF TypeOK, TypedCode, Typed, CountInv, TempInv
<1>2. CASE UNCHANGED vars
  BY <1>2 DEF vars, TypeOK
<1> QED
  BY <1>1, <1>2

(* Every operand the pass leaves in a statement is of a type, and a packed *)
(* or folded ternary constant fits the container of its type, for every    *)
(* program, every set of options, every trit count and container width.    *)
THEOREM PassTypes == Spec => []TypeOK
<1>1. Init => IInv /\ CountInv /\ TempInv /\ TypeOK
  BY InitIInv, InitCounts, InitTemps, InitTypes
<1>2. IInv /\ CountInv /\ TempInv /\ TypeOK /\ [Next]_vars
        => (IInv /\ CountInv /\ TempInv /\ TypeOK)'
  BY StepIInv, StepCounts, StepTemps, StepTypes
<1> QED
  BY <1>1, <1>2, PTL DEF Spec

-----------------------------------------------------------------------------
(* The meaning of the code emitted.  MeaningKept is about the group the    *)
(* last step appended, so it needs of the state before only what the other *)
(* invariants say: the statement walked is one gimplification leaves, and  *)
(* a temporary is no variable of the source.  What each branch puts in     *)
(* place of a statement then means what the statement means (Means).       *)

(* What the variables hold after s, if they held env before. *)
After(s, env) == Updated(env, s.lhs.n, Execute(s, env))

(* One or two statements in a row. *)
LEMMA RunOne ==
  ASSUME NEW s, NEW env
  PROVE  Run(<<s>>, env) = After(s, env)
<1> DEFINE code == <<s>>
           F(h) == [i \in 0 .. Len(code) |->
                     IF i = 0 THEN env
                     ELSE Updated(h[i - 1], code[i].lhs.n, Execute(code[i], h[i - 1]))]
           after == CHOOSE h : h = F(h)
           g == [i \in 0 .. 1 |-> IF i = 0 THEN env ELSE After(s, env)]
<1>1. Run(code, env) = after[Len(code)]
  BY DEF Run
<1>2. Len(code) = 1 /\ code[1] = s
  OBVIOUS
<1>3. g = F(g)
  <2>1. \A i \in 0 .. 1 : i = 0 \/ (i = 1 /\ i - 1 = 0)
    OBVIOUS
  <2>2. g[0] = env /\ 0 \in 0 .. 1
    OBVIOUS
  <2> HIDE DEF code
  <2>3. \A i \in 0 .. 1 : g[i] = F(g)[i]
    BY <1>2, <2>1, <2>2 DEF After
  <2> QED
    BY <1>2, <2>3
<1>4. after = F(after)
  <2> HIDE DEF F
  <2> QED BY <1>3
<1> HIDE DEF after, code
<1>5. after[0] = env /\ after[1] = After(s, after[0])
  <2>1. 0 \in 0 .. Len(code) /\ 1 \in 0 .. Len(code) /\ 1 - 1 = 0
    BY <1>2
  <2> QED
    BY <1>2, <1>4, <2>1 DEF After
<1> QED
  BY <1>1, <1>2, <1>5 DEF code

LEMMA RunTwo ==
  ASSUME NEW s, NEW t, NEW env
  PROVE  Run(<<s, t>>, env) = After(t, After(s, env))
<1> DEFINE code == <<s, t>>
           F(h) == [i \in 0 .. Len(code) |->
                     IF i = 0 THEN env
                     ELSE Updated(h[i - 1], code[i].lhs.n, Execute(code[i], h[i - 1]))]
           after == CHOOSE h : h = F(h)
           g == [i \in 0 .. 2 |-> IF i = 0 THEN env ELSE IF i = 1 THEN After(s, env)
                                  ELSE After(t, After(s, env))]
<1>1. Run(code, env) = after[Len(code)]
  BY DEF Run
<1>2. Len(code) = 2 /\ code[1] = s /\ code[2] = t
  OBVIOUS
<1>3. g = F(g)
  <2>1. \A i \in 0 .. 2 : i = 0 \/ (i = 1 /\ i - 1 = 0) \/ (i = 2 /\ i - 1 = 1)
    OBVIOUS
  <2>2. g[0] = env /\ g[1] = After(s, env) /\ 0 \in 0 .. 2 /\ 1 \in 0 .. 2
    OBVIOUS
  <2> HIDE DEF code
  <2>3. \A i \in 0 .. 2 : g[i] = F(g)[i]
    BY <1>2, <2>1, <2>2 DEF After
  <2> QED
    BY <1>2, <2>3
<1>4. after = F(after)
  <2> HIDE DEF F
  <2> QED BY <1>3
<1> HIDE DEF after, code
<1>5. after[0] = env /\ after[1] = After(s, after[0]) /\ after[2] = After(t, after[1])
  <2>1. /\ 0 \in 0 .. Len(code) /\ 1 \in 0 .. Len(code) /\ 2 \in 0 .. Len(code)
        /\ 1 - 1 = 0 /\ 2 - 1 = 1
    BY <1>2
  <2> QED
    BY <1>2, <1>4, <2>1 DEF After
<1> QED
  BY <1>1, <1>2, <1>5 DEF code

(* A statement writes its destination and nothing else. *)
LEMMA AfterIs ==
  ASSUME NEW s, NEW env
  PROVE  /\ After(s, env)[s.lhs.n] = Execute(s, env)
         /\ \A n \in DOMAIN env : n # s.lhs.n => After(s, env)[n] = env[n]
         /\ DOMAIN env \subseteq DOMAIN After(s, env)
  BY DEF After, Updated

(* The word and the integer operand i stands for in the source. *)
MeantAt(s, i, env) == Meant(s.args[i], env)
IntegerAt(s, i, env) == IntegerOf(s.args[i], env)

(* The meaning of a source statement, operator by operator. *)
LEMMA MeaningOf ==
  ASSUME NEW s, NEW env
  PROVE  /\ s.op = "COND_EXPR" =>
              SourceMeaning(s, env) =
                IF IntegerAt(s, 1, env) # 0 THEN MeantAt(s, 2, env) ELSE MeantAt(s, 3, env)
         /\ s.op = "PLUS_EXPR" =>
              SourceMeaning(s, env) = Encode(Wrap(IntegerAt(s, 1, env) + IntegerAt(s, 2, env)))
         /\ s.op = "MINUS_EXPR" =>
              SourceMeaning(s, env) = Encode(Wrap(IntegerAt(s, 1, env) - IntegerAt(s, 2, env)))
         /\ s.op = "MULT_EXPR" =>
              SourceMeaning(s, env) = Encode(Wrap(IntegerAt(s, 1, env) * IntegerAt(s, 2, env)))
         /\ s.op = "TRUNC_DIV_EXPR" =>
              SourceMeaning(s, env) = Encode(CDiv(IntegerAt(s, 1, env), IntegerAt(s, 2, env)))
         /\ s.op = "TRUNC_MOD_EXPR" =>
              SourceMeaning(s, env) = Encode(CMod(IntegerAt(s, 1, env), IntegerAt(s, 2, env)))
         /\ s.op = "NEGATE_EXPR" => SourceMeaning(s, env) = Encode(-IntegerAt(s, 1, env))
         /\ s.op = "BIT_NOT_EXPR" => SourceMeaning(s, env) = Not(MeantAt(s, 1, env))
         /\ s.op = "BIT_AND_EXPR" =>
              SourceMeaning(s, env) = TritwiseOp(MeantAt(s, 1, env), MeantAt(s, 2, env), TritMin)
         /\ s.op = "BIT_IOR_EXPR" =>
              SourceMeaning(s, env) = TritwiseOp(MeantAt(s, 1, env), MeantAt(s, 2, env), TritMax)
         /\ s.op = "BIT_XOR_EXPR" =>
              SourceMeaning(s, env) = TritwiseOp(MeantAt(s, 1, env), MeantAt(s, 2, env), TritXor)
         /\ s.op = "CONVERT_EXPR" =>
              SourceMeaning(s, env) =
                IF s.lhs.ty \in Ternary THEN Encode(IntegerAt(s, 1, env)) ELSE IntegerAt(s, 1, env)
         /\ s.op \in CompareCode =>
              SourceMeaning(s, env) = Holds(s.op, IntegerAt(s, 1, env) - IntegerAt(s, 2, env))
  BY DEF SourceMeaning, XorAsBuilt, MeantAt, IntegerAt, CompareCode

(* A constant that was packed stands for what the source's does. *)
LEMMA OperandKept ==
  ASSUME NEW o, Representable(o), NEW env
  PROVE  Value(PackConstant(o), env) = Meant(o, env)
<1>1. CASE ~(o.const /\ o.ty \in Ternary)
  BY <1>1 DEF Value, Meant, PackConstant, CanPack, Packable, Ternary
<1>2. CASE o.const /\ o.ty \in Ternary
  <2>1. o.n \in CInteger /\ o.ty = "t32" /\ PackConstant(o) = C("t32", PackedBits[o.n])
    BY <1>2 DEF Representable, PackConstant, CanPack, Packable, Pack
  <2>2. Encode(o.n) \in Word /\ PackedBits[o.n] = BitsOf(Encode(o.n))
    BY <2>1, EncodeCanonical, CanonicalWordIs DEF PackedBits
  <2>3. Value(PackConstant(o), env) = WordOf(BitsOf(Encode(o.n)))
    BY <2>1, <2>2 DEF Value, C, Ternary
  <2> QED
    BY <1>2, <2>2, <2>3, WordCodes DEF Meant
<1> QED
  BY <1>1, <1>2

(* A packed constant's container is unpacked to the integer it stands for. *)
LEMMA ConstantUnpacked ==
  ASSUME NEW o, Representable(o), o.const, o.ty \in Ternary, NEW env
  PROVE  Logical(PackConstant(o)) = IntegerOf(o, env) /\ Meant(o, env) = Encode(o.n)
<1>1. o.n \in CInteger /\ PackConstant(o) = C("t32", PackedBits[o.n])
  BY DEF Representable, PackConstant, CanPack, Packable, Pack
<1>2. Encode(o.n) \in Word /\ PackedBits[o.n] = BitsOf(Encode(o.n))
  BY <1>1, EncodeCanonical, CanonicalWordIs DEF PackedBits
<1>3. BitsOf(Encode(o.n)) \in 0 .. Pow4[Trits] - 1 /\ WordOf(BitsOf(Encode(o.n))) = Encode(o.n)
  BY <1>2, WordCodes
<1>4. Logical(PackConstant(o)) = Decode(Encode(o.n))
  BY <1>1, <1>2, <1>3 DEF Logical, C, UnpackedInt
<1> QED
  BY <1>4 DEF IntegerOf, Meant

(* A container the pass packed holds the word encoded. *)
LEMMA PackedIs ==
  ASSUME NEW v, NEW ty, CanPack(v, ty), NEW env
  PROVE  Value(Pack(v, ty), env) = Encode(v)
<1>1. v \in CInteger /\ ty \in Ternary
  BY DEF CanPack, Packable, Ternary
<1>2. Encode(v) \in Word /\ PackedBits[v] = BitsOf(Encode(v))
  BY <1>1, EncodeCanonical, CanonicalWordIs DEF PackedBits
<1> QED
  BY <1>1, <1>2, WordCodes DEF Value, Pack, C

(* The source's variables have values, and all but n the same in e and f. *)
Covers(env) == 0 .. FirstTemp - 1 \subseteq DOMAIN env
Leaves(e, f, n) == Covers(f) /\ \A k \in 0 .. FirstTemp - 1 : k # n => f[k] = e[k]

LEMMA WrittenLeaves ==
  ASSUME NEW env, Covers(env), NEW s, NEW n, s.lhs.n = n \/ s.lhs.n \notin 0 .. FirstTemp - 1
  PROVE  Leaves(env, After(s, env), n)
  BY AfterIs DEF Leaves, Covers

LEMMA LeavesTwice ==
  ASSUME NEW env, NEW e, NEW s, Leaves(env, e, s.lhs.n)
  PROVE  Leaves(env, After(s, e), s.lhs.n)
<1>1. Covers(e)
  BY DEF Leaves
<1>2. Leaves(e, After(s, e), s.lhs.n)
  BY <1>1, WrittenLeaves
<1> QED
  BY <1>2 DEF Leaves

(* The operators SourceMeaning gives a meaning. *)
MeantOps ==
  {"COND_EXPR", "CONVERT_EXPR"} \cup CompareCode
    \cup ((UnaryCode \cup BinaryCode) \ {"LSHIFT_EXPR", "RSHIFT_EXPR"})

(* The operands MeaningKept is about: constants that can be packed, and no *)
(* unsigned long.                                                          *)
Usual(src) ==
  \A i \in DOMAIN src.args : Representable(src.args[i]) /\ src.args[i].ty # "u64"

(* The ternary variables src reads hold words, and v is what src means: a  *)
(* word, if src reads words.                                               *)
ReadsWords(src, env) ==
  \A i \in DOMAIN src.args :
    ~src.args[i].const /\ src.args[i].ty \in Ternary => env[src.args[i].n] \in Word
IsMeant(src, v, env) ==
  /\ SameResult(src.lhs.ty, v, SourceMeaning(src, env))
  /\ src.lhs.ty \in Ternary /\ ReadsWords(src, env) => v \in Word

(* Code means for the destination of src what src does, and writes no      *)
(* other variable of the source.                                           *)
Means(code, src) ==
  \A env : Covers(env) =>
    /\ IsMeant(src, Run(code, env)[src.lhs.n], env)
    /\ Leaves(env, Run(code, env), src.lhs.n)

(* An assignment means the value of its operand. *)
LEMMA AssignMeans ==
  ASSUME NEW src, NEW o,
         \A env : IsMeant(src, Value(o, env), env)
  PROVE  Means(<<Assign(src.lhs, o)>>, src)
<1> DEFINE s == Assign(src.lhs, o)
<1>1. s.lhs = src.lhs /\ \A env : Execute(s, env) = Value(o, env)
  <2>1. s.kind = "assign" /\ s.op = "COPY" /\ s.args = <<o>> /\ s.lhs = src.lhs
    BY DEF Assign, Stmt
  <2> HIDE DEF s
  <2> QED
    BY <2>1 DEF Execute, CompareCode
<1> HIDE DEF s
<1>2. \A env : /\ Run(<<s>>, env)[src.lhs.n] = Value(o, env)
               /\ Covers(env) => Leaves(env, Run(<<s>>, env), src.lhs.n)
  BY <1>1, RunOne, AfterIs, WrittenLeaves
<1> QED
  BY <1>2 DEF Means, s

(* What a helper is called with. *)
ArgValues(args, env) == [i \in DOMAIN args |-> Value(args[i], env)]

(* A call gives the result of its helper. *)
LEMMA CallExecuted ==
  ASSUME NEW decl, NEW lhs, NEW args, NEW env
  PROVE  Execute(Call(decl, lhs, args), env) = HelperResult(decl[1], ArgValues(args, env))
  BY DEF Execute, Call, Stmt, ArgValues

(* A helper call means what the helper returns. *)
LEMMA CallMeans ==
  ASSUME NEW src, NEW decl, NEW args,
         \A env : IsMeant(src, HelperResult(decl[1], ArgValues(args, env)), env)
  PROVE  Means(<<Call(decl, src.lhs, args)>>, src)
<1> DEFINE s == Call(decl, src.lhs, args)
<1>1. s.lhs = src.lhs
  BY DEF Call, Stmt
<1>2. \A env : Execute(s, env) = HelperResult(decl[1], ArgValues(args, env))
  BY CallExecuted
<1> HIDE DEF s
<1>3. \A env : /\ Run(<<s>>, env)[src.lhs.n] = HelperResult(decl[1], ArgValues(args, env))
               /\ Covers(env) => Leaves(env, Run(<<s>>, env), src.lhs.n)
  BY <1>1, <1>2, RunOne, AfterIs, WrittenLeaves
<1> QED
  BY <1>3 DEF Means, s

(* A source operand is worth the same after a temporary was written. *)
LEMMA OperandUntouched ==
  ASSUME NEW d, d.lhs.n \in Int, d.lhs.n >= FirstTemp, NEW env, Covers(env),
         NEW o \in SourceOperand
  PROVE  Value(PackConstant(o), After(d, env)) = Value(PackConstant(o), env)
<1>1. CASE o.const
  BY <1>1 DEF PackConstant, Pack, C, Value
<1>2. CASE ~o.const
  <2>1. o.n \in DOMAIN env /\ o.n # d.lhs.n
    BY <1>2, PassAssumption DEF SourceOperand, Covers
  <2> QED
    BY <1>2, <2>1, AfterIs DEF PackConstant, Value
<1> QED
  BY <1>1, <1>2

(* The statements MeaningKept is about: code that replaces src, whose       *)
(* constants can be packed, and calls no helper with a raw operand.         *)
Judged(code, src) ==
  /\ src.kind \in {"assign", "cond"} /\ Rewritten([src |-> src, code |-> code])
  /\ Usual(src)
  /\ \A i \in DOMAIN code : ~RawOperand(code[i])
KeptBy(code) == Judged(code, Current) => Means(code, Current) /\ Current.op \in MeantOps

(* Packing changes a constant's bits, never its kind or its type. *)
LEMMA PackShape ==
  \A o : PackConstant(o).const = o.const /\ PackConstant(o).ty = o.ty
  BY DEF PackConstant, Pack, C

(* The operands gimplification gives a statement. *)
LEMMA SourceShape ==
  ASSUME NEW s \in SourceStmt
  PROVE  /\ s.args \in Seq(SourceOperand) /\ DOMAIN s.args = 1 .. Len(s.args)
         /\ \A k \in DOMAIN s.args : s.args[k] \in SourceOperand
         /\ s.lhs.n < FirstTemp /\ s.lhs.n \in Int
         /\ s.op = "COND_EXPR" => Len(s.args) = 3
         /\ s.op \in UnaryCode => Len(s.args) = 1
         /\ s.op \in BinaryCode \cup CompareCode => Len(s.args) = 2
         /\ s.op = "CONVERT_EXPR" => ~SameLayout(s.lhs.ty, s.args[1].ty)
<1>1. s.args \in Seq(SourceOperand) /\ s.lhs \in SourceVariable /\ Gimplified(s)
  BY DEF SourceStmt
<1>2. s.lhs.n < FirstTemp /\ s.lhs.n \in Int
  BY <1>1, PassAssumption DEF SourceVariable, SourceOperand, Operand
<1> QED
  BY <1>1, <1>2 DEF Gimplified

(* Equal results are the same result, whatever the type. *)
LEMMA SameIsSame == \A ty, v, w : v = w => SameResult(ty, v, w)
  BY DEF SameResult

(* An operand stands for a word if its variable holds one. *)
LEMMA MeantWord ==
  ASSUME NEW s, Usual(s), NEW i \in DOMAIN s.args, s.args[i].ty \in Ternary, NEW env,
         ReadsWords(s, env)
  PROVE  MeantAt(s, i, env) \in Word
  BY EncodeCanonical, CanonicalWordIs DEF MeantAt, Meant, ReadsWords

(* What a ternary operator means is a word. *)
LEMMA SourceWord ==
  ASSUME NEW s \in SourceStmt, Usual(s), s.op \in MeantOps \ CompareCode, s.lhs.ty \in Ternary,
         NEW env, ReadsWords(s, env)
  PROVE  SourceMeaning(s, env) \in Word
<1>1. CASE s.op = "COND_EXPR"
  <2>1. 2 \in DOMAIN s.args /\ 3 \in DOMAIN s.args
    BY <1>1, SourceShape
  <2>2. SameLayout(s.lhs.ty, s.args[2].ty) /\ SameLayout(s.lhs.ty, s.args[3].ty)
    <3>1. Gimplified(s)
      BY DEF SourceStmt
    <3> QED
      BY <1>1, <3>1 DEF Gimplified
  <2>3. s.args[2].ty \in Ternary /\ s.args[3].ty \in Ternary
    BY <2>1, <2>2 DEF SameLayout, Usual, Ternary
  <2>4. MeantAt(s, 2, env) \in Word /\ MeantAt(s, 3, env) \in Word
    BY <2>1, <2>3, MeantWord
  <2> QED
    BY <1>1, <2>4, MeaningOf
<1>2. CASE s.op \in {"CONVERT_EXPR", "PLUS_EXPR", "MINUS_EXPR", "MULT_EXPR", "TRUNC_DIV_EXPR",
                     "TRUNC_MOD_EXPR", "NEGATE_EXPR"}
  <2>1. \E v : SourceMeaning(s, env) = Encode(v)
    BY <1>2, MeaningOf
  <2> QED
    BY <2>1, EncodeCanonical, CanonicalWordIs
<1>3. CASE s.op \in {"BIT_NOT_EXPR", "BIT_AND_EXPR", "BIT_IOR_EXPR", "BIT_XOR_EXPR"}
  <2> DEFINE v == MeantAt(s, 1, env)
             w == MeantAt(s, 2, env)
  <2>1. SourceMeaning(s, env) \in {Not(v), TritwiseOp(v, w, TritMin), TritwiseOp(v, w, TritMax),
                                   TritwiseOp(v, w, TritXor)}
    BY <1>3, MeaningOf
  <2> HIDE DEF v, w
  <2>2. SourceMeaning(s, env) \in CanonicalWord
    BY <2>1, TritwiseCanonical
  <2> QED
    BY <2>2, CanonicalWordIs
<1> QED
  BY <1>1, <1>2, <1>3 DEF MeantOps, UnaryCode, BinaryCode

(* What a statement means is meant. *)
LEMMA MeaningIsMeant ==
  ASSUME NEW s \in SourceStmt, Usual(s), s.op \in MeantOps,
         s.lhs.ty \notin Ternary \/ s.op \notin CompareCode,
         NEW env, NEW v, v = SourceMeaning(s, env)
  PROVE  IsMeant(s, v, env)
  BY SameIsSame, SourceWord DEF IsMeant

(* A condition the pass knows is what the source's condition is. *)
LEMMA FoldConditionalKept ==
  ASSUME Current \in SourceStmt, Conditional, CondKnown, Usual(Current)
  PROVE  Means(<<Assign(Current.lhs, IF CondZero THEN Arm(3) ELSE Arm(2))>>, Current)
<1>1. Current.op = "COND_EXPR" /\ DOMAIN Current.args = 1 .. 3
  BY SourceShape DEF Conditional, IsConditional
<1>2. \A i \in 1 .. 3 : Representable(Current.args[i])
  BY <1>1 DEF Usual
<1>3. \A env : /\ MeantAt(Current, 2, env) = Value(Arm(2), env)
               /\ MeantAt(Current, 3, env) = Value(Arm(3), env)
  BY <1>2, OperandKept DEF MeantAt, Arm
<1>4. Arm(1).const /\ Arm(1).const = Current.args[1].const /\ Arm(1).ty = Current.args[1].ty
  BY PackShape DEF CondKnown, Arm
<1>5. ASSUME NEW env PROVE (IntegerAt(Current, 1, env) = 0) <=> CondZero
  <2>1. CASE Arm(1).ty \in Ternary
    BY <1>2, <1>4, <2>1, ConstantUnpacked DEF CondZero, IntegerAt, Arm
  <2>2. CASE Arm(1).ty \notin Ternary
    <3>1. IntegerAt(Current, 1, env) = Current.args[1].n
      BY <1>4, <2>2 DEF IntegerAt, IntegerOf, Meant
    <3>2. Arm(1) = Current.args[1]
      BY <1>4, <2>2 DEF Arm, PackConstant, CanPack, Packable, Ternary
    <3> QED
      BY <2>2, <3>1, <3>2 DEF CondZero
  <2> QED
    BY <2>1, <2>2
<1> DEFINE o == IF CondZero THEN Arm(3) ELSE Arm(2)
<1>6. \A env : IsMeant(Current, Value(o, env), env)
  <2>1. \A env : Value(o, env) = SourceMeaning(Current, env)
    BY <1>1, <1>3, <1>5, MeaningOf
  <2> QED
    BY <1>1, <2>1, MeaningIsMeant DEF MeantOps, CompareCode
<1> HIDE DEF o
<1>7. Means(<<Assign(Current.lhs, o)>>, Current)
  BY <1>6, AssignMeans
<1> QED
  BY <1>7 DEF o

(* With equal arms the condition does not matter. *)
LEMMA MergeEqualArmsKept ==
  ASSUME Current \in SourceStmt, Conditional, Arm(2) = Arm(3), Usual(Current)
  PROVE  Means(<<Assign(Current.lhs, Arm(2))>>, Current)
<1>1. Current.op = "COND_EXPR" /\ DOMAIN Current.args = 1 .. 3
  BY SourceShape DEF Conditional, IsConditional
<1>2. \A i \in 1 .. 3 : Representable(Current.args[i])
  BY <1>1 DEF Usual
<1>3. \A env : /\ MeantAt(Current, 2, env) = Value(Arm(2), env)
               /\ MeantAt(Current, 3, env) = Value(Arm(3), env)
  BY <1>2, OperandKept DEF MeantAt, Arm
<1>4. \A env : IsMeant(Current, Value(Arm(2), env), env)
  <2>1. \A env : Value(Arm(2), env) = SourceMeaning(Current, env)
    BY <1>1, <1>3, MeaningOf
  <2> QED
    BY <1>1, <2>1, MeaningIsMeant DEF MeantOps, CompareCode
<1> QED
  BY <1>4, AssignMeans

(* A select takes the arm the source takes, whether its condition was       *)
(* decoded into a temporary first or not.                                   *)
LEMMA LowerConditionalKept ==
  ASSUME Current \in SourceStmt, temps \in Nat, Conditional, ~CondKnown, Usual(Current),
         NEW decl, decl[1] = "select"
  PROVE  Means(DecodeCond \o <<Call(decl, Current.lhs, <<CondArg, Arm(2), Arm(3)>>)>>, Current)
<1> DEFINE args == <<CondArg, Arm(2), Arm(3)>>
           s == Call(decl, Current.lhs, args)
<1>1. Current.op = "COND_EXPR" /\ DOMAIN Current.args = 1 .. 3
      /\ \A i \in 1 .. 3 : Current.args[i] \in SourceOperand
  BY SourceShape DEF Conditional, IsConditional
<1>2. \A i \in 1 .. 3 : Representable(Current.args[i])
  BY <1>1 DEF Usual
<1>3. \A env : /\ MeantAt(Current, 2, env) = Value(Arm(2), env)
               /\ MeantAt(Current, 3, env) = Value(Arm(3), env)
  BY <1>2, OperandKept DEF MeantAt, Arm
<1>4. Arm(1).const = Current.args[1].const /\ Arm(1).ty = Current.args[1].ty
  BY PackShape DEF Arm
<1>5. \A env : ArgValues(args, env) =
               <<Value(CondArg, env), Value(Arm(2), env), Value(Arm(3), env)>>
  <2> TAKE env
  <2>1. DOMAIN args = 1 .. 3 /\ args[1] = CondArg /\ args[2] = Arm(2) /\ args[3] = Arm(3)
    OBVIOUS
  <2> HIDE DEF args
  <2> QED
    BY <2>1 DEF ArgValues
<1>6. \A env : Execute(s, env) = IF Value(CondArg, env) # 0 THEN Value(Arm(2), env)
                                 ELSE Value(Arm(3), env)
  <2> TAKE env
  <2>1. Execute(s, env) = HelperResult("select", ArgValues(args, env))
    BY CallExecuted
  <2> HIDE DEF args, s
  <2> DEFINE c == Value(CondArg, env)
             x == Value(Arm(2), env)
             y == Value(Arm(3), env)
  <2>2. ArgValues(args, env) = <<c, x, y>>
    BY <1>5
  <2> HIDE DEF c, x, y
  <2>3. HelperResult("select", <<c, x, y>>) = IF c # 0 THEN x ELSE y
    BY DEF HelperResult, Select
  <2> QED
    BY <2>1, <2>2, <2>3 DEF c, x, y
<1>7. CASE Arm(1).ty \notin Ternary
  <2>1. DecodeCond = <<>> /\ DecodeCond \o <<s>> = <<s>>
    <3> HIDE DEF s
    <3> QED BY <1>7 DEF DecodeCond
  <2>2. \A env : Value(CondArg, env) = IntegerAt(Current, 1, env)
    <3>1. Arm(1) = Current.args[1]
      BY <1>4, <1>7 DEF Arm, PackConstant, CanPack, Packable, Ternary
    <3>2. CondArg = [Arm(1) EXCEPT !.ty = "i64"]
      BY <1>7 DEF CondArg
    <3>3. Current.args[1] \in Operand
      BY <1>1 DEF SourceOperand
    <3>4. CondArg.const = Arm(1).const /\ CondArg.n = Arm(1).n /\ CondArg.ty = "i64"
      BY <3>1, <3>2, <3>3 DEF Operand
    <3> QED
      BY <1>7, <3>1, <3>4 DEF Value, IntegerAt, IntegerOf, Meant, Ternary
  <2>3. \A env : Execute(s, env) = SourceMeaning(Current, env)
    BY <1>1, <1>3, <1>6, <2>2, MeaningOf
  <2>4. s.lhs = Current.lhs
    BY DEF Call, Stmt
  <2> HIDE DEF s
  <2>5. \A env : /\ Run(<<s>>, env)[Current.lhs.n] = SourceMeaning(Current, env)
                 /\ Covers(env) => Leaves(env, Run(<<s>>, env), Current.lhs.n)
    BY <2>3, <2>4, RunOne, AfterIs, WrittenLeaves
  <2>6. Means(<<s>>, Current)
    BY <1>1, <2>5, MeaningIsMeant DEF Means, MeantOps, CompareCode
  <2> QED
    BY <2>1, <2>6 DEF s
<1>8. CASE Arm(1).ty \in Ternary
  <2> DEFINE d == Call(<<"tt2b", Arm(1).ty>>, Temp("i64"), <<Arm(1)>>)
  <2>1. DecodeCond = <<d>> /\ CondArg = Temp("i64")
    BY <1>8 DEF DecodeCond, CondArg
  <2>2. /\ d.lhs = Temp("i64") /\ d.lhs.n = FirstTemp + temps
        /\ d.lhs.n \in Int /\ d.lhs.n >= FirstTemp
    BY PassAssumption DEF Call, Stmt, Temp, V
  <2>3. \A env : Execute(d, env) = IntegerAt(Current, 1, env)
    <3> TAKE env
    <3>1. Value(Arm(1), env) = Meant(Current.args[1], env)
      BY <1>2, OperandKept DEF Arm
    <3>2. ArgValues(<<Arm(1)>>, env)[1] = Value(Arm(1), env)
      BY DEF ArgValues
    <3>3. Execute(d, env) = HelperResult("tt2b", ArgValues(<<Arm(1)>>, env))
      BY CallExecuted
    <3> HIDE DEF d
    <3>4. Execute(d, env) = Decode(Value(Arm(1), env))
      BY <3>2, <3>3 DEF HelperResult
    <3> QED
      BY <1>4, <1>8, <3>1, <3>4 DEF IntegerAt, IntegerOf
  <2> HIDE DEF d
  <2>4. ASSUME NEW env, Covers(env)
        PROVE  /\ Run(<<d, s>>, env)[Current.lhs.n] = SourceMeaning(Current, env)
               /\ Leaves(env, Run(<<d, s>>, env), Current.lhs.n)
    <3> DEFINE e == After(d, env)
    <3>1. Value(CondArg, e) = IntegerAt(Current, 1, env)
      <4>1. e[FirstTemp + temps] = IntegerAt(Current, 1, env)
        BY <2>2, <2>3, AfterIs
      <4> HIDE DEF e
      <4> QED
        BY <2>1, <4>1 DEF Value, Temp, V
    <3>2. /\ Value(Arm(2), e) = MeantAt(Current, 2, env)
          /\ Value(Arm(3), e) = MeantAt(Current, 3, env)
      BY <1>1, <1>3, <2>2, <2>4, OperandUntouched DEF Arm
    <3>6. Leaves(env, e, Current.lhs.n)
      BY <2>2, <2>4, WrittenLeaves, PassAssumption
    <3> HIDE DEF e
    <3>3. Execute(s, e) = SourceMeaning(Current, env)
      <4> HIDE DEF s
      <4> QED BY <1>1, <1>6, <3>1, <3>2, MeaningOf
    <3>4. s.lhs = Current.lhs
      BY DEF Call, Stmt
    <3> HIDE DEF s
    <3>5. Run(<<d, s>>, env) = After(s, e)
      BY RunTwo DEF e
    <3>7. Leaves(env, After(s, e), Current.lhs.n)
      BY <3>4, <3>6, LeavesTwice
    <3> QED
      BY <3>3, <3>4, <3>5, <3>7, AfterIs
  <2> HIDE DEF s
  <2>5. Means(<<d, s>>, Current)
    BY <1>1, <2>4, MeaningIsMeant DEF Means, MeantOps, CompareCode
  <2>6. DecodeCond \o <<s>> = <<d, s>>
    BY <2>1, PairConcat
  <2> QED
    BY <2>5, <2>6 DEF s
<1> QED
  BY <1>7, <1>8

(* An integer constant is encoded. *)
LEMMA FoldConversionKept ==
  ASSUME Current \in SourceStmt, FoldsConversion, Usual(Current)
  PROVE  Means(<<Assign(Current.lhs, Pack(Arg(1).n, LhsTy))>>, Current)
<1>1. Current.op = "CONVERT_EXPR" /\ DOMAIN Current.args = 1 .. 1
      /\ ~SameLayout(LhsTy, Current.args[1].ty)
  BY SourceShape DEF FoldsConversion, Op, LhsTy, UnaryCode
<1>2. CanPack(Arg(1).n, LhsTy) /\ Arg(1).const /\ LhsTy = "t32"
  BY DEF FoldsConversion, CanPack, Packable
<1>3. Current.args[1].const /\ Arg(1).ty = Current.args[1].ty
  BY <1>2, PackShape DEF Arg
<1>4. Current.args[1].ty # "t32" /\ Representable(Current.args[1])
  BY <1>1, <1>2 DEF SameLayout, Usual
<1>5. Current.args[1].ty \notin Ternary
  BY <1>3, <1>4 DEF Representable, CanPack, Packable, Ternary
<1>6. Arg(1) = Current.args[1]
  BY <1>4 DEF Arg, PackConstant, CanPack, Packable
<1>7. \A env : IntegerAt(Current, 1, env) = Arg(1).n
  BY <1>3, <1>5, <1>6 DEF IntegerAt, IntegerOf, Meant
<1>8. \A env : SourceMeaning(Current, env) = Encode(Arg(1).n)
  BY <1>1, <1>2, <1>7, MeaningOf DEF LhsTy, Ternary
<1>9. \A env : IsMeant(Current, Value(Pack(Arg(1).n, LhsTy), env), env)
  BY <1>1, <1>2, <1>8, PackedIs, MeaningIsMeant DEF MeantOps, CompareCode
<1> QED
  BY <1>9, AssignMeans

(* A constant operand of the result's type is unpacked to what it stands for. *)
LEMMA ConstArgIs ==
  ASSUME NEW i \in DOMAIN Current.args, ConstArg(i), ~Mixed, Usual(Current)
  PROVE  \A env : /\ Logical(Arg(i)) = IntegerAt(Current, i, env)
                  /\ IntegerAt(Current, i, env) = Decode(MeantAt(Current, i, env))
                  /\ Value(Arg(i), env) = MeantAt(Current, i, env)
<1>1. Arg(i).const /\ LhsTy = "t32" /\ Current.args[i].ty = LhsTy
  BY DEF ConstArg, Unpacks, Packable, Mixed
<1>2. Current.args[i].const /\ Representable(Current.args[i]) /\ Current.args[i].ty \in Ternary
  BY <1>1, PackShape DEF Arg, Usual, Ternary
<1> QED
  BY <1>2, ConstantUnpacked, OperandKept DEF Arg, IntegerAt, MeantAt, IntegerOf

(* A folded operation is the operation. *)
LEMMA FoldConstantsKept ==
  ASSUME Current \in SourceStmt, ~Mixed, FoldsConstants, Usual(Current)
  PROVE  Means(<<Assign(Current.lhs, Pack(Folded, LhsTy))>>, Current)
<1>1. ConstArg(1) /\ CanPack(Folded, LhsTy)
  BY DEF FoldsConstants
<1>2. CASE Op = "NEGATE_EXPR"
  <2>1. 1 \in DOMAIN Current.args
    BY <1>2, SourceShape DEF Op, UnaryCode
  <2>2. \A env : Logical(Arg(1)) = IntegerAt(Current, 1, env)
    BY <1>1, <2>1, ConstArgIs
  <2>3. Folded = -Logical(Arg(1))
    BY <1>2 DEF Folded
  <2>4. \A env : SourceMeaning(Current, env) = Encode(Folded)
    BY <1>2, <2>2, <2>3, MeaningOf DEF Op
  <2>5. \A env : IsMeant(Current, Value(Pack(Folded, LhsTy), env), env)
    BY <1>1, <1>2, <2>4, PackedIs, MeaningIsMeant DEF Op, MeantOps, UnaryCode, CompareCode
  <2> QED
    BY <2>5, AssignMeans
<1>3. CASE /\ Op \in {"PLUS_EXPR", "MINUS_EXPR", "MULT_EXPR", "TRUNC_DIV_EXPR", "TRUNC_MOD_EXPR"}
           /\ ConstArg(2)
  <2>1. 1 \in DOMAIN Current.args /\ 2 \in DOMAIN Current.args
    BY <1>3, SourceShape DEF Op, BinaryCode
  <2>2. \A env : /\ Logical(Arg(1)) = IntegerAt(Current, 1, env)
                 /\ Logical(Arg(2)) = IntegerAt(Current, 2, env)
    BY <1>1, <1>3, <2>1, ConstArgIs
  <2> DEFINE a == Logical(Arg(1))
             b == Logical(Arg(2))
  <2>3. /\ Op = "PLUS_EXPR" => Folded = Wrap(a + b)
        /\ Op = "MINUS_EXPR" => Folded = Wrap(a - b)
        /\ Op = "MULT_EXPR" => Folded = Wrap(a * b)
        /\ Op = "TRUNC_DIV_EXPR" => Folded = CDiv(a, b)
        /\ Op = "TRUNC_MOD_EXPR" => Folded = CMod(a, b)
    BY DEF Folded
  <2> HIDE DEF a, b
  <2>4. ASSUME NEW env PROVE SourceMeaning(Current, env) = Encode(Folded)
    <3>1. a = IntegerAt(Current, 1, env) /\ b = IntegerAt(Current, 2, env)
      BY <2>2 DEF a, b
    <3> QED
      BY <1>3, <2>3, <3>1, MeaningOf DEF Op
  <2>5. \A env : IsMeant(Current, Value(Pack(Folded, LhsTy), env), env)
    BY <1>1, <1>3, <2>4, PackedIs, MeaningIsMeant DEF Op, MeantOps, BinaryCode, CompareCode
  <2> QED
    BY <2>5, AssignMeans
<1> QED
  BY <1>2, <1>3 DEF FoldsConstants

(* x + 0, x - 0 and x * 1 are x, and x * 0 is 0, as integers. *)
LEMMA SimplifyKept ==
  ASSUME Current \in SourceStmt, ~Mixed, LhsTy \in Ternary, Simplified # <<>>, Usual(Current)
  PROVE  Means(<<Assign(Current.lhs, Simplified[1])>>, Current)
<1>1. /\ ConstArg(2)
      /\ Op \in {"PLUS_EXPR", "MINUS_EXPR", "MULT_EXPR"}
  BY DEF Simplified
<1>2. 1 \in DOMAIN Current.args /\ 2 \in DOMAIN Current.args
  BY <1>1, SourceShape DEF Op, BinaryCode
<1>3. \A env : /\ Logical(Arg(2)) = IntegerAt(Current, 2, env)
               /\ IntegerAt(Current, 2, env) = Decode(MeantAt(Current, 2, env))
               /\ Value(Arg(2), env) = MeantAt(Current, 2, env)
  BY <1>1, <1>2, ConstArgIs
<1>4. \A env : /\ Value(Arg(1), env) = MeantAt(Current, 1, env)
               /\ IntegerAt(Current, 1, env) = Decode(MeantAt(Current, 1, env))
  <2>1. Representable(Current.args[1]) /\ Current.args[1].ty \in Ternary
    BY <1>2 DEF Usual, Mixed
  <2> QED
    BY <2>1, OperandKept DEF Arg, IntegerAt, MeantAt, IntegerOf
<1>5. ASSUME NEW env
      PROVE  Decode(Value(Simplified[1], env)) = Decode(SourceMeaning(Current, env))
  <2> DEFINE x == IntegerAt(Current, 1, env)
             y == IntegerAt(Current, 2, env)
  <2>1. x = Decode(MeantAt(Current, 1, env)) /\ x \in Values /\ x \in CInteger /\ x \in Int
    BY <1>4, DecodedIs, NarrowOrWide
  <2>2. Wrap(x) = x /\ Decode(Encode(x)) = x
    BY <2>1, WrapIdentity, DecodeExact
  <2> HIDE DEF x, y
  <2>3. CASE Op = "MULT_EXPR" /\ y # 1
    <3>1. y = 0 /\ Simplified[1] = Arg(2)
      BY <1>3, <2>3 DEF Simplified, y
    <3>2. 0 \in Values /\ 0 \in CInteger /\ Wrap(0) = 0
      <4>1. 0 \in Values /\ 0 \in CInteger
        BY HalfType, RegisterType DEF Values, CInteger, MinInt
      <4> QED
        BY <4>1, WrapIdentity
    <3>3. SourceMeaning(Current, env) = Encode(Wrap(x * y))
      BY <2>3, MeaningOf DEF x, y, Op
    <3>4. x * y = 0
      BY <2>1, <3>1
    <3>5. Decode(SourceMeaning(Current, env)) = 0
      BY <3>2, <3>3, <3>4, DecodeExact
    <3>6. Decode(Value(Arg(2), env)) = 0
      BY <1>3, <3>1 DEF y
    <3> QED
      BY <3>1, <3>5, <3>6
  <2>4. CASE ~(Op = "MULT_EXPR" /\ y # 1)
    <3>1. /\ Op = "MULT_EXPR" => y = 1
          /\ Op \in {"PLUS_EXPR", "MINUS_EXPR"} => y = 0
          /\ Simplified[1] = Arg(1)
      BY <1>1, <1>3, <2>4 DEF Simplified, y
    <3>2. SourceMeaning(Current, env) = Encode(Wrap(x))
      <4>1. CASE Op = "PLUS_EXPR"
        <5>1. SourceMeaning(Current, env) = Encode(Wrap(x + y)) /\ x + y = x
          BY <2>1, <3>1, <4>1, MeaningOf DEF x, y, Op
        <5> QED BY <5>1
      <4>2. CASE Op = "MINUS_EXPR"
        <5>1. SourceMeaning(Current, env) = Encode(Wrap(x - y)) /\ x - y = x
          BY <2>1, <3>1, <4>2, MeaningOf DEF x, y, Op
        <5> QED BY <5>1
      <4>3. CASE Op = "MULT_EXPR"
        <5>1. SourceMeaning(Current, env) = Encode(Wrap(x * y)) /\ x * y = x
          BY <2>1, <3>1, <4>3, MeaningOf DEF x, y, Op
        <5> QED BY <5>1
      <4> QED
        BY <1>1, <4>1, <4>2, <4>3
    <3>3. Decode(Value(Arg(1), env)) = x
      BY <1>4 DEF x
    <3> QED
      BY <2>2, <3>1, <3>2, <3>3
  <2> QED
    BY <2>3, <2>4
<1>6. \A env : ReadsWords(Current, env) => Value(Simplified[1], env) \in Word
  <2>1. Simplified[1] \in {Arg(1), Arg(2)}
    BY DEF Simplified
  <2>2. Current.args[1].ty \in Ternary /\ Current.args[2].ty \in Ternary
    BY <1>2 DEF Mixed
  <2> QED
    BY <1>2, <1>3, <1>4, <2>1, <2>2, MeantWord
<1>7. \A env : IsMeant(Current, Value(Simplified[1], env), env)
  BY <1>5, <1>6 DEF IsMeant, SameResult, LhsTy
<1> QED
  BY <1>7, AssignMeans

(* A variable is worth the same to the source and to a helper. *)
LEMMA VariableIs ==
  ASSUME NEW o, ~o.const
  PROVE  \A env : Value(o, env) = Meant(o, env)
  BY DEF Value, Meant

(* A helper computes what the operator of its name means, for every word:   *)
(* div and neg keep the register's value of a result, and not negates the   *)
(* value instead of the trits.                                              *)
LEMMA HelperMeans ==
  ASSUME NEW v, NEW w
  PROVE  /\ Decode(Div(v, w)) = Decode(Encode(CDiv(Decode(v), Decode(w))))
         /\ Decode(Neg(v)) = Decode(Encode(-Decode(v)))
         /\ Decode(Neg(v)) = Decode(Not(v))
<1>1. Decode(v) \in Values /\ Decode(w) \in Int /\ -Decode(v) \in Values
  BY DecodedIs, NarrowOrWide
<1>2. CDiv(Decode(v), Decode(w)) \in Values
  BY <1>1, QuotientShrinks
<1>3. Decode(Div(v, w)) = Decode(Encode(CDiv(Decode(v), Decode(w))))
  BY <1>2, EncodedWrapped DEF Div
<1>4. Decode(Neg(v)) = Decode(Encode(-Decode(v)))
  BY <1>1, EncodedWrapped DEF Neg
<1> QED
  BY <1>3, <1>4, NotIsNeg

(* The helpers of the operators return words. *)
LEMMA HelperGivesWord ==
  ASSUME NEW op \in (UnaryCode \cup BinaryCode) \ {"CONVERT_EXPR", "LSHIFT_EXPR", "RSHIFT_EXPR"},
         NEW v
  PROVE  HelperResult(HelperOf[op], v) \in Word
<1> DEFINE R == HelperResult(HelperOf[op], v)
           a == v[1]
           b == v[2]
<1>1. R \in {Add(a, b), Sub(a, b), Mul(a, b), Div(a, b), Mod(a, b), Neg(a),
             TritwiseOp(a, b, TritMin), TritwiseOp(a, b, TritMax), TritwiseOp(a, b, TritXor)}
  BY DEF HelperResult, HelperOf, UnaryCode, BinaryCode
<1> HIDE DEF R, a, b
<1>2. R \in CanonicalWord
  BY <1>1, EncodeCanonical, TritwiseCanonical DEF Add, Sub, Mul, Div, Mod, Neg
<1> QED
  BY <1>2, CanonicalWordIs DEF R

(* A lowered operation without a raw operand reads words in variables. *)
LEMMA OperationReadsWords ==
  ASSUME Current \in SourceStmt, ~Mixed, LhsTy \in Ternary, Op \in DOMAIN HelperOf,
         NEW code, code = <<Call(<<HelperOf[Op], LhsTy>>, Current.lhs, Current.args)>>,
         \A i \in DOMAIN code : ~RawOperand(code[i])
  PROVE  /\ Op \in UnaryCode \cup BinaryCode
         /\ Op \notin {"CONVERT_EXPR", "LSHIFT_EXPR", "RSHIFT_EXPR"}
         /\ \A i \in DOMAIN Current.args :
              ~Current.args[i].const /\ Current.args[i].ty \in Ternary
<1> DEFINE s == Call(<<HelperOf[Op], LhsTy>>, Current.lhs, Current.args)
<1>1. Op \in UnaryCode \cup BinaryCode
  BY DEF HelperOf, UnaryCode, BinaryCode
<1>2. Op # "CONVERT_EXPR"
  <2>1. Op = "CONVERT_EXPR" => 1 \in DOMAIN Current.args /\ ~SameLayout(LhsTy, Current.args[1].ty)
    BY SourceShape DEF Op, LhsTy, UnaryCode
  <2> QED
    BY <2>1 DEF Mixed, SameLayout
<1>3. \A i \in DOMAIN Current.args : ~Current.args[i].const /\ Current.args[i].ty \in Ternary
  <2>1. ~RawOperand(s)
    <3>1. code = <<s>>
      OBVIOUS
    <3> HIDE DEF s
    <3>2. 1 \in DOMAIN code /\ code[1] = s
      BY <3>1
    <3> QED BY <3>2
  <2>2. s.kind = "helper" /\ s.op = HelperOf[Op] /\ s.args = Current.args
    BY DEF Call, Stmt
  <2>3. HelperOf[Op] # "select"
    BY DEF HelperOf
  <2> HIDE DEF s
  <2>4. \A i \in DOMAIN Current.args : ~(Current.args[i].const /\ Current.args[i].ty \in Ternary)
    BY <2>1, <2>2, <2>3 DEF RawOperand
  <2> QED
    BY <2>4 DEF Mixed
<1>4. Op \notin {"LSHIFT_EXPR", "RSHIFT_EXPR"}
  <2>1. ~RawOperand(s)
    <3>1. code = <<s>>
      OBVIOUS
    <3> HIDE DEF s
    <3>2. 1 \in DOMAIN code /\ code[1] = s
      BY <3>1
    <3> QED BY <3>2
  <2>2. s.kind = "helper" /\ s.op = HelperOf[Op] /\ s.args = Current.args
    BY DEF Call, Stmt
  <2> HIDE DEF s
  <2>3. Op \in {"LSHIFT_EXPR", "RSHIFT_EXPR"} => 2 \in DOMAIN Current.args
    BY SourceShape DEF Op, BinaryCode
  <2>4. Op \in {"LSHIFT_EXPR", "RSHIFT_EXPR"} => HelperOf[Op] \in {"shl", "shr"}
    BY DEF HelperOf
  <2> QED
    BY <1>3, <2>1, <2>2, <2>3, <2>4 DEF RawOperand
<1> QED
  BY <1>1, <1>2, <1>3, <1>4

(* A lowered operation is the operation. *)
LEMMA LowerOperationKept ==
  ASSUME Current \in SourceStmt, ~Mixed, LhsTy \in Ternary, Op \in DOMAIN HelperOf,
         NEW code, code = <<Call(<<HelperOf[Op], LhsTy>>, Current.lhs, Current.args)>>,
         \A i \in DOMAIN code : ~RawOperand(code[i])
  PROVE  Means(code, Current)
<1> DEFINE decl == <<HelperOf[Op], LhsTy>>
<1>1. Op \in UnaryCode \cup BinaryCode
  BY OperationReadsWords
<1>2. Op \notin {"CONVERT_EXPR", "LSHIFT_EXPR", "RSHIFT_EXPR"}
  BY OperationReadsWords
<1>3. \A i \in DOMAIN Current.args : ~Current.args[i].const /\ Current.args[i].ty \in Ternary
  BY OperationReadsWords
<1>5. \A i \in DOMAIN Current.args : \A env :
        /\ Value(Current.args[i], env) = MeantAt(Current, i, env)
        /\ IntegerAt(Current, i, env) = Decode(MeantAt(Current, i, env))
  BY <1>3, VariableIs DEF MeantAt, IntegerAt, IntegerOf
<1>6. ASSUME NEW env
      PROVE  Decode(HelperResult(HelperOf[Op], ArgValues(Current.args, env)))
               = Decode(SourceMeaning(Current, env))
  <2> DEFINE v == MeantAt(Current, 1, env)
             w == MeantAt(Current, 2, env)
             vals == ArgValues(Current.args, env)
             R == HelperResult(HelperOf[Op], vals)
  <2>1. vals[1] = v /\ IntegerAt(Current, 1, env) = Decode(v)
    <3>1. 1 \in DOMAIN Current.args
      BY <1>1, SourceShape DEF Op
    <3> QED
      BY <1>5, <3>1 DEF ArgValues
  <2>2. Op \in BinaryCode => vals[2] = w /\ IntegerAt(Current, 2, env) = Decode(w)
    <3>1. Op \in BinaryCode => 2 \in DOMAIN Current.args
      BY SourceShape DEF Op
    <3> QED
      BY <1>5, <3>1 DEF ArgValues
  <2> HIDE DEF v, w, vals
  <2>3. /\ Op = "PLUS_EXPR" => R = Add(vals[1], vals[2])
        /\ Op = "MINUS_EXPR" => R = Sub(vals[1], vals[2])
        /\ Op = "MULT_EXPR" => R = Mul(vals[1], vals[2])
        /\ Op = "TRUNC_DIV_EXPR" => R = Div(vals[1], vals[2])
        /\ Op = "TRUNC_MOD_EXPR" => R = Mod(vals[1], vals[2])
        /\ Op = "NEGATE_EXPR" => R = Neg(vals[1])
        /\ Op = "BIT_NOT_EXPR" => R = Neg(vals[1])
        /\ Op = "BIT_AND_EXPR" => R = TritwiseOp(vals[1], vals[2], TritMin)
        /\ Op = "BIT_IOR_EXPR" => R = TritwiseOp(vals[1], vals[2], TritMax)
        /\ Op = "BIT_XOR_EXPR" => R = TritwiseOp(vals[1], vals[2], TritXor)
    BY DEF HelperResult, HelperOf
  <2>14. HelperResult(HelperOf[Op], ArgValues(Current.args, env)) = R
    BY DEF R, vals
  <2> HIDE DEF R
  <2>4. CASE Op = "PLUS_EXPR"
    BY <2>14, <2>1, <2>2, <2>3, <2>4, MeaningOf DEF Op, BinaryCode, Add
  <2>5. CASE Op = "MINUS_EXPR"
    BY <2>14, <2>1, <2>2, <2>3, <2>5, MeaningOf DEF Op, BinaryCode, Sub
  <2>6. CASE Op = "MULT_EXPR"
    BY <2>14, <2>1, <2>2, <2>3, <2>6, MeaningOf DEF Op, BinaryCode, Mul
  <2>7. CASE Op = "TRUNC_DIV_EXPR"
    BY <2>14, <2>1, <2>2, <2>3, <2>7, MeaningOf, HelperMeans DEF Op, BinaryCode
  <2>8. CASE Op = "TRUNC_MOD_EXPR"
    BY <2>14, <2>1, <2>2, <2>3, <2>8, MeaningOf DEF Op, BinaryCode, Mod
  <2>9. CASE Op = "NEGATE_EXPR"
    BY <2>14, <2>1, <2>3, <2>9, MeaningOf, HelperMeans DEF Op
  <2>10. CASE Op = "BIT_NOT_EXPR"
    <3>1. SourceMeaning(Current, env) = Not(v)
      BY <2>10, MeaningOf DEF Op, v
    <3> QED
      BY <2>14, <2>1, <2>3, <2>10, <3>1, HelperMeans
  <2>11. CASE Op = "BIT_AND_EXPR"
    <3>1. SourceMeaning(Current, env) = TritwiseOp(v, w, TritMin)
      BY <2>11, MeaningOf DEF Op, v, w
    <3> QED
      BY <2>14, <2>1, <2>2, <2>3, <2>11, <3>1 DEF BinaryCode
  <2>12. CASE Op = "BIT_IOR_EXPR"
    <3>1. SourceMeaning(Current, env) = TritwiseOp(v, w, TritMax)
      BY <2>12, MeaningOf DEF Op, v, w
    <3> QED
      BY <2>14, <2>1, <2>2, <2>3, <2>12, <3>1 DEF BinaryCode
  <2>13. CASE Op = "BIT_XOR_EXPR"
    <3>1. SourceMeaning(Current, env) = TritwiseOp(v, w, TritXor)
      BY <2>13, MeaningOf DEF Op, v, w
    <3> QED
      BY <2>14, <2>1, <2>2, <2>3, <2>13, <3>1 DEF BinaryCode
  <2> QED
    BY <1>1, <1>2, <2>4, <2>5, <2>6, <2>7, <2>8, <2>9, <2>10, <2>11, <2>12, <2>13, <2>14
       DEF UnaryCode, BinaryCode
<1>7. \A env : IsMeant(Current, HelperResult(decl[1], ArgValues(Current.args, env)), env)
  <2>1. \A v : HelperResult(HelperOf[Op], v) \in Word
    BY <1>1, <1>2, HelperGivesWord
  <2> QED
    BY <1>6, <2>1 DEF IsMeant, SameResult, LhsTy
<1> HIDE DEF decl
<1>8. Means(<<Call(decl, Current.lhs, Current.args)>>, Current)
  BY <1>7, CallMeans
<1> QED
  BY <1>8 DEF decl

(* A conversion to a binary type decodes. *)
LEMMA LowerConversionKept ==
  ASSUME Current \in SourceStmt, ConvertsFrom,
         NEW op \in {"tt2b", "t2f32"}, NEW sfx,
         NEW code, code = <<Call(<<op, sfx>>, Current.lhs, Current.args)>>,
         \A i \in DOMAIN code : ~RawOperand(code[i])
  PROVE  Means(code, Current)
<1> DEFINE decl == <<op, sfx>>
           s == Call(decl, Current.lhs, Current.args)
<1>1. Current.op = "CONVERT_EXPR" /\ LhsTy \notin Ternary /\ Current.args[1].ty \in Ternary
      /\ 1 \in DOMAIN Current.args
  BY SourceShape DEF ConvertsFrom, Op, UnaryCode
<1>2. ~Current.args[1].const
  <2>1. ~RawOperand(s)
    <3>1. code = <<s>>
      OBVIOUS
    <3> HIDE DEF s
    <3>2. 1 \in DOMAIN code /\ code[1] = s
      BY <3>1
    <3> QED BY <3>2
  <2>2. s.kind = "helper" /\ s.op = op /\ s.args = Current.args
    BY DEF Call, Stmt
  <2> HIDE DEF s
  <2> QED
    BY <1>1, <2>1, <2>2 DEF RawOperand
<1>3. ASSUME NEW env
      PROVE  HelperResult(op, ArgValues(Current.args, env)) = SourceMeaning(Current, env)
  <2>1. ArgValues(Current.args, env)[1] = MeantAt(Current, 1, env)
    BY <1>1, <1>2, VariableIs DEF ArgValues, MeantAt
  <2>2. HelperResult(op, ArgValues(Current.args, env)) = Decode(MeantAt(Current, 1, env))
    BY <2>1 DEF HelperResult
  <2>3. SourceMeaning(Current, env) = IntegerAt(Current, 1, env)
    BY <1>1, MeaningOf DEF LhsTy
  <2> QED
    BY <1>1, <2>2, <2>3 DEF IntegerAt, MeantAt, IntegerOf
<1>4. \A env : IsMeant(Current, HelperResult(decl[1], ArgValues(Current.args, env)), env)
  BY <1>1, <1>3, SameIsSame DEF IsMeant, LhsTy
<1> HIDE DEF decl
<1>5. Means(<<Call(decl, Current.lhs, Current.args)>>, Current)
  BY <1>4, CallMeans
<1> QED
  BY <1>5 DEF decl

LEMMA HoldsIs ==
  \A z : /\ Holds("EQ_EXPR", z) = IF z = 0 THEN 1 ELSE 0
         /\ Holds("NE_EXPR", z) = IF z # 0 THEN 1 ELSE 0
         /\ Holds("LT_EXPR", z) = IF z < 0 THEN 1 ELSE 0
         /\ Holds("LE_EXPR", z) = IF z <= 0 THEN 1 ELSE 0
         /\ Holds("GT_EXPR", z) = IF z > 0 THEN 1 ELSE 0
         /\ Holds("GE_EXPR", z) = IF z >= 0 THEN 1 ELSE 0
  BY DEF Holds

(* Comparing cmp's result with 0 is comparing the operands. *)
LEMMA LowerComparisonKept ==
  ASSUME Current \in SourceStmt, temps \in Nat, Compares, Usual(Current),
         NEW code, code = <<Call(<<"cmp", Current.args[1].ty>>, Temp("i32"), Current.args),
                            [Current EXCEPT !.args = <<Temp("i32"), C("i32", 0)>>]>>,
         \A i \in DOMAIN code : ~RawOperand(code[i])
  PROVE  Means(code, Current)
<1> DEFINE decl == <<"cmp", Current.args[1].ty>>
           d == Call(decl, Temp("i32"), Current.args)
           rest == <<Temp("i32"), C("i32", 0)>>
           t == [Current EXCEPT !.args = rest]
<1>1. /\ Current.op \in CompareCode /\ LhsTy \notin Ternary
      /\ 1 \in DOMAIN Current.args /\ 2 \in DOMAIN Current.args
      /\ Current.args[1].ty \in Ternary
      /\ SameLayout(Current.args[1].ty, Current.args[2].ty)
  BY SourceShape DEF Compares, Op, LhsTy
<1>9. Current.kind # "helper" /\ Current.lhs.n < FirstTemp /\ Current.lhs.n \in Int
  BY SourceShape DEF Compares
<1>2. Current.args[2].ty \in Ternary
  BY <1>1 DEF SameLayout, Usual, Ternary
<1>3. ~Current.args[1].const /\ ~Current.args[2].const
  <2>1. ~RawOperand(d)
    <3>1. code = <<d, t>>
      OBVIOUS
    <3> HIDE DEF d, t
    <3>2. 1 \in DOMAIN code /\ code[1] = d
      BY <3>1
    <3> QED BY <3>2
  <2>2. d.kind = "helper" /\ d.op = "cmp" /\ d.args = Current.args
    BY DEF Call, Stmt
  <2> HIDE DEF d
  <2> QED
    BY <1>1, <1>2, <2>1, <2>2 DEF RawOperand
<1>4. ASSUME NEW env
      PROVE  Execute(d, env) = Cmp(MeantAt(Current, 1, env), MeantAt(Current, 2, env))
  <2>1. /\ ArgValues(Current.args, env)[1] = MeantAt(Current, 1, env)
        /\ ArgValues(Current.args, env)[2] = MeantAt(Current, 2, env)
    BY <1>1, <1>3, VariableIs DEF ArgValues, MeantAt
  <2>2. Execute(d, env) = HelperResult("cmp", ArgValues(Current.args, env))
    BY CallExecuted
  <2> QED
    BY <2>1, <2>2 DEF HelperResult
<1>5. d.lhs = Temp("i32") /\ d.lhs.n = FirstTemp + temps /\ d.lhs.n \in Int
  BY PassAssumption DEF Call, Stmt, Temp, V
<1>6. /\ t.kind # "helper" /\ t.op = Current.op /\ t.args = rest /\ t.lhs = Current.lhs
  <2> HIDE DEF rest
  <2> QED BY <1>9 DEF SourceStmt
<1> HIDE DEF d, t
<1>7. ASSUME NEW env, Covers(env)
      PROVE  /\ Run(<<d, t>>, env)[Current.lhs.n] = SourceMeaning(Current, env)
             /\ Leaves(env, Run(<<d, t>>, env), Current.lhs.n)
  <2> DEFINE e == After(d, env)
             v == [i \in DOMAIN rest |-> Value(rest[i], e)]
             x == Decode(MeantAt(Current, 1, env))
             y == Decode(MeantAt(Current, 2, env))
             c == Cmp(MeantAt(Current, 1, env), MeantAt(Current, 2, env))
  <2>1. e[FirstTemp + temps] = c
    BY <1>4, <1>5, AfterIs
  <2>9. Leaves(env, e, Current.lhs.n)
    BY <1>5, <1>7, WrittenLeaves, PassAssumption
  <2> HIDE DEF e
  <2>2. v[1] = c /\ v[2] = 0
    <3>1. Value(Temp("i32"), e) = c /\ Value(C("i32", 0), e) = 0
      BY <2>1 DEF Value, Temp, V, C, Ternary
    <3>2. rest[1] = Temp("i32") /\ rest[2] = C("i32", 0) /\ DOMAIN rest = 1 .. 2
      OBVIOUS
    <3> HIDE DEF rest, c
    <3> QED
      BY <3>1, <3>2
  <2>3. Execute(t, e) = Holds(Current.op, c - 0)
    <3>1. Execute(t, e) = Holds(t.op, v[1] - v[2])
      BY <1>1, <1>9, <1>6 DEF Execute
    <3> HIDE DEF v, c
    <3> QED
      BY <1>6, <2>2, <3>1
  <2>4. x \in Int /\ y \in Int
    BY DecodedIs, NarrowOrWide
  <2>5. SourceMeaning(Current, env) = Holds(Current.op, x - y)
    BY <1>1, <1>2, MeaningOf DEF IntegerAt, MeantAt, IntegerOf
  <2>6. c = IF x < y THEN -1 ELSE IF x > y THEN 1 ELSE 0
    BY DEF Cmp
  <2> HIDE DEF v, x, y, c
  <2>7. Holds(Current.op, c - 0) = Holds(Current.op, x - y)
    BY <1>1, <2>4, <2>6, HoldsIs DEF CompareCode
  <2>8. Run(<<d, t>>, env) = After(t, e)
    BY RunTwo DEF e
  <2>10. Leaves(env, After(t, e), Current.lhs.n)
    BY <1>6, <2>9, LeavesTwice
  <2> QED
    BY <1>6, <2>3, <2>5, <2>7, <2>8, <2>10, AfterIs
<1>8. Means(<<d, t>>, Current)
  BY <1>1, <1>7, SameIsSame DEF Means, IsMeant, LhsTy
<1> QED
  BY <1>8 DEF d, t

(* Each branch of the body keeps the meaning of the statement it replaces. *)
LEMMA StepKept ==
  ASSUME IInv, temps \in Nat, Next
  PROVE  \E code : Emit(code) /\ KeptBy(code)
<1>1. Current \in SourceStmt /\ todo # <<>>
  BY StepWalks DEF IInv
<1>2. ASSUME NEW code, Emit(code),
             Judged(code, Current) => Means(code, Current) /\ Current.op \in MeantOps
      PROVE  \E c : Emit(c) /\ KeptBy(c)
  BY <1>2 DEF KeptBy
<1>3. ASSUME Leave PROVE \E c : Emit(c) /\ KeptBy(c)
  <2>1. Emit(<<Current>>)
    BY <1>3 DEF Leave, Emit
  <2>2. ~Judged(<<Current>>, Current)
    BY RewrittenIs DEF Judged, Group
  <2> QED
    BY <1>2, <2>1, <2>2
<1>4. ASSUME NEW code, Emit(code), Current.kind = "builtin" PROVE \E c : Emit(c) /\ KeptBy(c)
  BY <1>2, <1>4 DEF Judged
<1>5. \A code : Judged(code, Current) =>
        Usual(Current) /\ \A i \in DOMAIN code : ~RawOperand(code[i])
  BY DEF Judged
<1>6. /\ Conditional => Current.op \in MeantOps
      /\ FoldsConversion \/ ConvertsFrom => Current.op \in MeantOps
      /\ FoldsConstants => Current.op \in MeantOps
      /\ Simplified # <<>> => Current.op \in MeantOps
      /\ Compares => Current.op \in MeantOps
  BY DEF Conditional, IsConditional, FoldsConversion, ConvertsFrom, FoldsConstants, Simplified,
         Compares, Op, MeantOps, UnaryCode, BinaryCode
<1>a. CASE KeepConditional
  BY <1>3, <1>a DEF KeepConditional
<1>b. CASE FoldConditional
  <2>1. Conditional /\ CondKnown
        /\ Emit(<<Assign(Current.lhs, IF CondZero THEN Arm(3) ELSE Arm(2))>>)
    BY <1>b DEF FoldConditional
  <2> QED
    BY <1>1, <1>2, <1>5, <1>6, <2>1, FoldConditionalKept
<1>c. CASE MergeEqualArms
  <2>1. Conditional /\ Arm(2) = Arm(3) /\ Emit(<<Assign(Current.lhs, Arm(2))>>)
    BY <1>c DEF MergeEqualArms
  <2> QED
    BY <1>1, <1>2, <1>5, <1>6, <2>1, MergeEqualArmsKept
<1>d. CASE LowerConditional
  <2> DEFINE decl == SelectDecl(Current.lhs.ty)
             code == DecodeCond \o <<Call(decl, Current.lhs, <<CondArg, Arm(2), Arm(3)>>)>>
  <2>1. Conditional /\ ~CondKnown /\ Emit(code) /\ Current.lhs.ty \in Type
    BY <1>d DEF LowerConditional, HasSelectDecl, Integral, Ternary, Type
  <2>2. decl[1] = "select"
    BY <2>1, SelectDeclOwn DEF IInv
  <2> HIDE DEF decl
  <2>3. Usual(Current) => Means(code, Current)
    BY <1>1, <2>1, <2>2, LowerConditionalKept
  <2> HIDE DEF code
  <2> QED
    BY <1>2, <1>5, <1>6, <2>1, <2>3
<1>e. CASE KeepUnsupportedConditional
  <2>1. Emit(DecodeCond \o <<Current>>) /\ Current.kind # "helper"
    BY <1>1, <1>e DEF KeepUnsupportedConditional, SourceStmt
  <2>2. ~Judged(DecodeCond \o <<Current>>, Current)
    BY <2>1, RewrittenAfterDecodeCond DEF Judged, Group
  <2> QED
    BY <1>2, <2>1, <2>2
<1>f. CASE FoldConversion
  <2>1. FoldsConversion /\ Emit(<<Assign(Current.lhs, Pack(Arg(1).n, LhsTy))>>)
    BY <1>f DEF FoldConversion
  <2> QED
    BY <1>1, <1>2, <1>5, <1>6, <2>1, FoldConversionKept
<1>g. CASE LeaveMixed
  BY <1>3, <1>g DEF LeaveMixed
<1>h. CASE FoldConstants
  <2>1. ~Mixed /\ FoldsConstants /\ Emit(<<Assign(Current.lhs, Pack(Folded, LhsTy))>>)
    BY <1>h DEF FoldConstants
  <2> QED
    BY <1>1, <1>2, <1>5, <1>6, <2>1, FoldConstantsKept
<1>i. CASE Simplify
  <2>1. ~Mixed /\ LhsTy \in Ternary /\ Simplified # <<>>
        /\ Emit(<<Assign(Current.lhs, Simplified[1])>>)
    BY <1>i DEF Simplify, TernaryAssign, LhsTy
  <2> QED
    BY <1>1, <1>2, <1>5, <1>6, <2>1, SimplifyKept
<1>j. CASE LowerOperation
  <2> DEFINE code == <<Call(<<HelperOf[Op], LhsTy>>, Current.lhs, Current.args)>>
  <2>1. ~Mixed /\ LhsTy \in Ternary /\ Op \in DOMAIN HelperOf /\ Emit(code)
    BY <1>j DEF LowerOperation, NoRewriteYet, TernaryAssign, LhsTy
  <2>2. (\A i \in DOMAIN code : ~RawOperand(code[i])) => Means(code, Current)
    BY <1>1, <2>1, LowerOperationKept
  <2>3. (\A i \in DOMAIN code : ~RawOperand(code[i])) => Current.op \in MeantOps
    <3>1. (\A i \in DOMAIN code : ~RawOperand(code[i])) =>
            /\ Op \in UnaryCode \cup BinaryCode
            /\ Op \notin {"CONVERT_EXPR", "LSHIFT_EXPR", "RSHIFT_EXPR"}
      BY <1>1, <2>1, OperationReadsWords
    <3> QED
      BY <3>1 DEF MeantOps, Op
  <2> HIDE DEF code
  <2> QED
    BY <1>2, <1>5, <2>1, <2>2, <2>3
<1>9. CASE KeepUnsupported
  BY <1>3, <1>9 DEF KeepUnsupported
<1>l. CASE LowerComparison
  <2> DEFINE code == <<Call(<<"cmp", Current.args[1].ty>>, Temp("i32"), Current.args),
                       [Current EXCEPT !.args = <<Temp("i32"), C("i32", 0)>>]>>
  <2>1. Compares /\ Emit(code)
    BY <1>l DEF LowerComparison
  <2>2. Usual(Current) /\ (\A i \in DOMAIN code : ~RawOperand(code[i])) => Means(code, Current)
    BY <1>1, <2>1, LowerComparisonKept
  <2> HIDE DEF code
  <2> QED
    BY <1>2, <1>5, <1>6, <2>1, <2>2
<1>m. CASE LowerConversion
  <2> DEFINE op == IF LhsTy \in Integral THEN "tt2b" ELSE "t2f32"
             code == <<Call(<<op, Current.args[1].ty>>, Current.lhs, Current.args)>>
  <2>1. ConvertsFrom /\ Emit(code) /\ op \in {"tt2b", "t2f32"}
    BY <1>m DEF LowerConversion
  <2> HIDE DEF op
  <2>2. (\A i \in DOMAIN code : ~RawOperand(code[i])) => Means(code, Current)
    BY <1>1, <2>1, LowerConversionKept
  <2> HIDE DEF code
  <2> QED
    BY <1>2, <1>5, <1>6, <2>1, <2>2
<1>n. CASE LowerBuiltin
  BY <1>4, <1>n DEF LowerBuiltin, Builtin, CallsBuiltin
<1>o. CASE LowerTernaryCompare
  BY <1>4, <1>o DEF LowerTernaryCompare, Builtin, CallsBuiltin
<1>p. CASE LowerBuiltinSelect
  BY <1>4, <1>p DEF LowerBuiltinSelect, Builtin, CallsBuiltin
<1>q. CASE LowerLoad
  BY <1>4, <1>q DEF LowerLoad, Builtin, CallsBuiltin
<1>r. CASE PassOver
  BY <1>3, <1>r DEF PassOver
<1> QED
  BY <1>a, <1>b, <1>c, <1>d, <1>e, <1>f, <1>g, <1>h, <1>i, <1>j, <1>9, <1>l,
     <1>m, <1>n, <1>o, <1>p, <1>q, <1>r DEF Next

(* The property is about the group the last step appended. *)
LEMMA StepMeaning == IInv /\ TempInv /\ MeaningKept /\ [Next]_vars => MeaningKept'
<1> SUFFICES ASSUME IInv, TempInv, MeaningKept, [Next]_vars PROVE MeaningKept'
  OBVIOUS
<1>1. CASE Next
  <2>1. temps \in Nat
    BY DEF TempInv
  <2>2. PICK code : Emit(code) /\ KeptBy(code)
    BY <1>1, <2>1, StepKept
  <2>3. Last(done') = Group(code)
    BY <2>2, AppendFacts DEF IInv, Emit, Group, Last
  <2> DEFINE g == Group(code)
  <2>4. g.src = Current /\ g.code = code /\ g = [src |-> Current, code |-> code]
    BY DEF Group
  <2>5. Judged(code, Current) => SameMeaning(g)
    BY <2>2, <2>4, EnvironmentAssumption DEF KeptBy, Means, IsMeant, SameMeaning, Covers
  <2> HIDE DEF g
  <2>6. Replaced(g) => SameMeaning(g)
    BY <2>4, <2>5 DEF Judged, Usual, Replaced
  <2>7. Last(done') = g
    BY <2>3 DEF g
  <2> QED
    BY <2>6, <2>7 DEF MeaningKept
<1>2. CASE UNCHANGED vars
  BY <1>2 DEF vars, MeaningKept
<1> QED
  BY <1>1, <1>2

(* What the pass puts in place of an operator computes what the operator   *)
(* means - folded, simplified, selected, compared with 0 or called - for   *)
(* every program, every set of options, every trit count and container     *)
(* width and every value of the variables.                                 *)
THEOREM PassMeaningKept == Spec => []MeaningKept
<1> DEFINE Inv == IInv /\ TempInv /\ MeaningKept
<1>1. Init => Inv
  <2>1. Init => MeaningKept
    BY DEF Init, MeaningKept
  <2> QED
    BY <2>1, InitIInv, InitTemps
<1>2. Inv /\ [Next]_vars => Inv'
  BY StepIInv, StepTemps, StepMeaning
<1>3. Inv => MeaningKept
  OBVIOUS
<1> HIDE DEF Inv
<1> QED
  BY <1>1, <1>2, <1>3, PTL DEF Spec

-----------------------------------------------------------------------------
(* A stretch of statements.  ProgramMeaning is about all the code emitted, *)
(* so its invariant compares the whole run of it with the run of the       *)
(* source: before every statement the two hold the same numbers (Agrees),  *)
(* the statement computes the same from the same numbers (SameFromSame),   *)
(* and what replaces it computes what it means from the code's own values  *)
(* (Means).                                                                *)

(* What a statement writes: in the source what it means. *)
Effect(source, s, env) == IF source THEN SourceMeaning(s, env) ELSE Execute(s, env)
Wrote(source, s, env)  == Updated(env, s.lhs.n, Effect(source, s, env))

(* The states a run of n statements goes through. *)
IsWalk(g, source, code, env, n) ==
  g[0] = env /\ \A i \in 1 .. n : g[i] = Wrote(source, code[i], g[i - 1])

LEMMA WalkExists ==
  ASSUME NEW source, NEW code, NEW env
  PROVE  \A n \in Nat : \E g : g = [i \in 0 .. n |-> g[i]] /\ IsWalk(g, source, code, env, n)
<1> DEFINE S == {n \in Nat : \E g : /\ g = [i \in 0 .. n |-> g[i]]
                                    /\ IsWalk(g, source, code, env, n)}
<1>1. 0 \in S
  <2> DEFINE g == [i \in 0 .. 0 |-> env]
  <2>1. g = [i \in 0 .. 0 |-> g[i]] /\ IsWalk(g, source, code, env, 0)
    BY DEF IsWalk
  <2> HIDE DEF g
  <2> QED BY <2>1
<1>2. ASSUME NEW n \in Nat, n \in S PROVE n + 1 \in S
  <2>1. PICK g : g = [i \in 0 .. n |-> g[i]] /\ IsWalk(g, source, code, env, n)
    BY <1>2
  <2> DEFINE last == Wrote(source, code[n + 1], g[n])
             h == [i \in 0 .. n + 1 |-> IF i <= n THEN g[i] ELSE last]
  <2>2. \A i \in 1 .. n + 1 : (i \in 1 .. n /\ i <= n) \/ (i = n + 1 /\ ~(i <= n))
    OBVIOUS
  <2>3. \A i \in 1 .. n + 1 : i - 1 \in 0 .. n + 1 /\ i - 1 <= n
    OBVIOUS
  <2>4. h[0] = env /\ h = [i \in 0 .. n + 1 |-> h[i]]
    BY <2>1 DEF IsWalk
  <2>5. \A i \in 0 .. n + 1 : h[i] = IF i <= n THEN g[i] ELSE last
    OBVIOUS
  <2> HIDE DEF h, last
  <2>6. \A i \in 1 .. n + 1 : h[i - 1] = g[i - 1]
    BY <2>3, <2>5
  <2>7. \A i \in 1 .. n + 1 : h[i] = Wrote(source, code[i], h[i - 1])
    <3> TAKE i \in 1 .. n + 1
    <3>1. i \in 0 .. n + 1 /\ (n + 1) - 1 = n
      OBVIOUS
    <3>2. CASE i \in 1 .. n /\ i <= n
      BY <2>1, <2>5, <2>6, <3>1, <3>2 DEF IsWalk
    <3>3. CASE i = n + 1 /\ ~(i <= n)
      BY <2>5, <2>6, <3>1, <3>3 DEF last
    <3> QED
      BY <2>2, <3>2, <3>3
  <2>8. IsWalk(h, source, code, env, n + 1)
    BY <2>4, <2>7 DEF IsWalk
  <2> QED
    BY <2>4, <2>8
<1> HIDE DEF S
<1>3. \A n \in Nat : n \in S
  BY <1>1, <1>2, SetInduction
<1> QED
  BY <1>3 DEF S

(* Runs of the same statements from the same values go through the same states. *)
LEMMA WalkUnique ==
  ASSUME NEW source, NEW code, NEW more, NEW env, NEW n \in Nat,
         \A i \in 1 .. n : more[i] = code[i],
         NEW g, IsWalk(g, source, code, env, n), NEW h, IsWalk(h, source, more, env, n)
  PROVE  g[n] = h[n]
<1> DEFINE S == {i \in Nat : i <= n => g[i] = h[i]}
<1>1. 0 \in S
  BY DEF IsWalk
<1>2. ASSUME NEW i \in Nat, i \in S PROVE i + 1 \in S
  <2>1. CASE i + 1 <= n
    <3>1. i + 1 \in 1 .. n /\ (i + 1) - 1 = i /\ i <= n
      BY <2>1
    <3>2. g[i + 1] = Wrote(source, code[i + 1], g[i]) /\ h[i + 1] = Wrote(source, more[i + 1], h[i])
      BY <3>1 DEF IsWalk
    <3> QED
      BY <1>2, <3>1, <3>2
  <2> QED
    BY <2>1
<1> HIDE DEF S
<1>3. n \in S
  BY <1>1, <1>2, SetInduction
<1> QED
  BY <1>3 DEF S

(* Run and SourceRun give the last state. *)
LEMMA RunWalks ==
  ASSUME NEW code, NEW env, Len(code) \in Nat
  PROVE  \E g : IsWalk(g, FALSE, code, env, Len(code)) /\ Run(code, env) = g[Len(code)]
<1> DEFINE n == Len(code)
           F(h) == [i \in 0 .. n |->
                     IF i = 0 THEN env
                     ELSE Updated(h[i - 1], code[i].lhs.n, Execute(code[i], h[i - 1]))]
           after == CHOOSE h : h = F(h)
<1>1. Run(code, env) = after[n]
  BY DEF Run
<1> HIDE DEF n
<1>2. n \in Nat
  BY DEF n
<1>3. PICK g : g = [i \in 0 .. n |-> g[i]] /\ IsWalk(g, FALSE, code, env, n)
  BY <1>2, WalkExists
<1>4. g = F(g)
  <2>1. \A i \in 0 .. n : g[i] = F(g)[i]
    <3> TAKE i \in 0 .. n
    <3>1. CASE i = 0
      BY <1>3, <3>1 DEF IsWalk
    <3>2. CASE i # 0
      <4>1. i \in 1 .. n
        BY <1>2, <3>2
      <4> QED
        BY <1>3, <3>2, <4>1 DEF IsWalk, Wrote, Effect
    <3> QED
      BY <3>1, <3>2
  <2> QED
    BY <1>3, <2>1
<1>5. after = F(after)
  <2> HIDE DEF F
  <2> QED BY <1>4
<1> HIDE DEF after
<1>6. IsWalk(after, FALSE, code, env, n)
  <2>1. 0 \in 0 .. n /\ \A i \in 1 .. n : i \in 0 .. n /\ i # 0
    BY <1>2
  <2>2. after[0] = env
    BY <1>5, <2>1
  <2>3. \A i \in 1 .. n : after[i] = Wrote(FALSE, code[i], after[i - 1])
    BY <1>5, <2>1 DEF Wrote, Effect
  <2> QED
    BY <2>2, <2>3 DEF IsWalk
<1> QED
  BY <1>1, <1>6 DEF n

LEMMA SourceRunWalks ==
  ASSUME NEW fn, NEW env, Len(fn) \in Nat
  PROVE  \E g : IsWalk(g, TRUE, fn, env, Len(fn)) /\ SourceRun(fn, env) = g[Len(fn)]
<1> DEFINE n == Len(fn)
           F(h) == [i \in 0 .. n |->
                     IF i = 0 THEN env
                     ELSE Updated(h[i - 1], fn[i].lhs.n, SourceMeaning(fn[i], h[i - 1]))]
           after == CHOOSE h : h = F(h)
<1>1. SourceRun(fn, env) = after[n]
  BY DEF SourceRun
<1> HIDE DEF n
<1>2. n \in Nat
  BY DEF n
<1>3. PICK g : g = [i \in 0 .. n |-> g[i]] /\ IsWalk(g, TRUE, fn, env, n)
  BY <1>2, WalkExists
<1>4. g = F(g)
  <2>1. \A i \in 0 .. n : g[i] = F(g)[i]
    <3> TAKE i \in 0 .. n
    <3>1. CASE i = 0
      BY <1>3, <3>1 DEF IsWalk
    <3>2. CASE i # 0
      <4>1. i \in 1 .. n
        BY <1>2, <3>2
      <4> QED
        BY <1>3, <3>2, <4>1 DEF IsWalk, Wrote, Effect
    <3> QED
      BY <3>1, <3>2
  <2> QED
    BY <1>3, <2>1
<1>5. after = F(after)
  <2> HIDE DEF F
  <2> QED BY <1>4
<1> HIDE DEF after
<1>6. IsWalk(after, TRUE, fn, env, n)
  <2>1. 0 \in 0 .. n /\ \A i \in 1 .. n : i \in 0 .. n /\ i # 0
    BY <1>2
  <2>2. after[0] = env
    BY <1>5, <2>1
  <2>3. \A i \in 1 .. n : after[i] = Wrote(TRUE, fn[i], after[i - 1])
    BY <1>5, <2>1 DEF Wrote, Effect
  <2> QED
    BY <2>2, <2>3 DEF IsWalk
<1> QED
  BY <1>1, <1>6 DEF n

(* One statement more runs on what the others left. *)
LEMMA RunAppend ==
  ASSUME NEW code, IsSequence(code), NEW s, NEW env
  PROVE  /\ Run(Append(code, s), env) = After(s, Run(code, env))
         /\ SourceRun(Append(code, s), env) =
              Updated(SourceRun(code, env), s.lhs.n, SourceMeaning(s, SourceRun(code, env)))
<1> DEFINE more == Append(code, s)
           n == Len(code)
<1>1. /\ n \in Nat /\ Len(more) = n + 1 /\ n + 1 \in Nat
      /\ \A i \in 1 .. n : more[i] = code[i]
      /\ more[n + 1] = s
  <2> DEFINE S == {code[i] : i \in DOMAIN code} \cup {s}
  <2>1. code \in Seq(S) /\ s \in S
    BY AnySequence
  <2> HIDE DEF S
  <2> QED
    BY <2>1, AppendFacts
<1> HIDE DEF more, n
<1>2. ASSUME NEW source, NEW g, NEW h, IsWalk(g, source, code, env, n),
             IsWalk(h, source, more, env, n + 1)
      PROVE  h[n + 1] = Wrote(source, s, g[n])
  <2>1. \A i \in 1 .. n : i \in 1 .. n + 1
    BY <1>1
  <2>2. IsWalk(h, source, more, env, n)
    BY <1>2, <2>1 DEF IsWalk
  <2>3. g[n] = h[n]
    BY <1>1, <1>2, <2>2, WalkUnique
  <2>4. n + 1 \in 1 .. n + 1 /\ (n + 1) - 1 = n
    BY <1>1
  <2>5. h[n + 1] = Wrote(source, more[n + 1], h[n])
    BY <1>2, <2>4 DEF IsWalk
  <2> QED
    BY <1>1, <2>3, <2>5
<1>3. Run(more, env) = Wrote(FALSE, s, Run(code, env))
  <2>1. PICK g : IsWalk(g, FALSE, code, env, n) /\ Run(code, env) = g[n]
    BY <1>1, RunWalks DEF n
  <2>2. PICK h : IsWalk(h, FALSE, more, env, n + 1) /\ Run(more, env) = h[n + 1]
    BY <1>1, RunWalks
  <2> QED
    BY <1>2, <2>1, <2>2
<1>4. SourceRun(more, env) = Wrote(TRUE, s, SourceRun(code, env))
  <2>1. PICK g : IsWalk(g, TRUE, code, env, n) /\ SourceRun(code, env) = g[n]
    BY <1>1, SourceRunWalks DEF n
  <2>2. PICK h : IsWalk(h, TRUE, more, env, n + 1) /\ SourceRun(more, env) = h[n + 1]
    BY <1>1, SourceRunWalks
  <2> QED
    BY <1>2, <2>1, <2>2
<1> QED
  BY <1>3, <1>4 DEF more, Wrote, Effect, After

(* A group of one or two statements more. *)
LEMMA RunMore ==
  ASSUME NEW e, IsSequence(e), NEW code,
         (\E s : code = <<s>>) \/ (\E d, s : code = <<d, s>>), NEW env
  PROVE  Run(e \o code, env) = Run(code, Run(e, env))
<1>1. CASE \E s : code = <<s>>
  <2>1. PICK s : code = <<s>>
    BY <1>1
  <2>2. e \o code = Append(e, s)
    BY <2>1, ConcatIsAppend
  <2>3. Run(Append(e, s), env) = After(s, Run(e, env))
    BY RunAppend
  <2> QED
    BY <2>1, <2>2, <2>3, RunOne
<1>2. CASE \E d, s : code = <<d, s>>
  <2>1. PICK d, s : code = <<d, s>>
    BY <1>2
  <2>2. e \o code = Append(Append(e, d), s) /\ e \o <<d>> = Append(e, d)
    BY <2>1, ConcatIsAppend
  <2>3. IsSequence(Append(e, d))
    <3> DEFINE S == {e[i] : i \in DOMAIN e} \cup {d}
    <3>1. e \in Seq(S) /\ d \in S
      BY AnySequence
    <3> HIDE DEF S
    <3> QED
      BY <3>1, AppendFacts, AnySequence
  <2>4. Run(e \o code, env) = After(s, After(d, Run(e, env)))
    BY <2>2, <2>3, RunAppend
  <2> QED
    BY <2>1, <2>4, RunTwo
<1> QED
  BY <1>1, <1>2

-----------------------------------------------------------------------------
(* The same from the same numbers.  T holds the variables of ternary type. *)
TypedBy(T, s) == \A o \in Variables(s) : o.ty \in Ternary <=> o.n \in T

Agrees(T, e, f) ==
  /\ Covers(e) /\ Covers(f)
  /\ \A k \in 0 .. FirstTemp - 1 :
       IF k \in T THEN Decode(e[k]) = Decode(f[k]) ELSE e[k] = f[k]

(* If int64_t holds every value, words of one value have the same trits. *)
LEMMA SameValueSameTrits ==
  ASSUME ValuesFit, NEW v, NEW w, Decode(v) = Decode(w)
  PROVE  \A i \in Idx : GetTrit(v, i) = GetTrit(w, i)
<1>1. Values \subseteq CInteger
  <2>1. Half3(Trits) <= MaxInt
    BY DEF ValuesFit, Half3
  <2> QED
    BY <2>1, HalfType, MaxIntAssumption DEF Values, CInteger, MinInt
<1>2. DecodeUnbounded(v) = DecodeUnbounded(w)
  BY <1>1, ValueRange, DecodeFits
<1> QED
  BY <1>2, ValueDigits

LEMMA SameTritsSameWord ==
  ASSUME NEW a, NEW b, NEW v, NEW w,
         \A i \in Idx : GetTrit(a, i) = GetTrit(v, i) /\ GetTrit(b, i) = GetTrit(w, i)
  PROVE  /\ TritwiseOp(a, b, TritMin) = TritwiseOp(v, w, TritMin)
         /\ TritwiseOp(a, b, TritMax) = TritwiseOp(v, w, TritMax)
         /\ TritwiseOp(a, b, TritXor) = TritwiseOp(v, w, TritXor)
         /\ Not(a) = Not(v)
  BY Zenon DEF TritwiseOp, Not, FromTrits

(* An operand stands for the same number in both. *)
LEMMA OperandAgrees ==
  ASSUME NEW s \in SourceStmt, NEW T, TypedBy(T, s), NEW e, NEW f, Agrees(T, e, f),
         NEW i \in DOMAIN s.args
  PROVE  /\ IntegerAt(s, i, e) = IntegerAt(s, i, f)
         /\ SameResult(s.args[i].ty, MeantAt(s, i, e), MeantAt(s, i, f))
<1> DEFINE o == s.args[i]
<1>1. o \in SourceOperand
  BY SourceShape
<1>2. CASE o.const
  BY <1>2 DEF IntegerAt, MeantAt, IntegerOf, Meant, SameResult
<1>3. CASE ~o.const
  <2>1. o.n \in 0 .. FirstTemp - 1
    BY <1>1, <1>3 DEF SourceOperand
  <2>2. o \in Variables(s)
    BY <1>3 DEF Variables
  <2>3. o.ty \in Ternary <=> o.n \in T
    BY <2>2 DEF TypedBy
  <2>4. IF o.ty \in Ternary THEN Decode(e[o.n]) = Decode(f[o.n]) ELSE e[o.n] = f[o.n]
    BY <2>1, <2>3 DEF Agrees
  <2>5. MeantAt(s, i, e) = e[o.n] /\ MeantAt(s, i, f) = f[o.n]
    BY <1>3 DEF MeantAt, Meant
  <2>6. /\ IntegerAt(s, i, e) = IF o.ty \in Ternary THEN Decode(MeantAt(s, i, e)) ELSE MeantAt(s, i, e)
        /\ IntegerAt(s, i, f) = IF o.ty \in Ternary THEN Decode(MeantAt(s, i, f)) ELSE MeantAt(s, i, f)
    BY DEF IntegerAt, IntegerOf, MeantAt
  <2> HIDE DEF o
  <2>7. SameResult(o.ty, MeantAt(s, i, e), MeantAt(s, i, f))
    BY <2>4, <2>5 DEF SameResult
  <2> QED
    BY <2>4, <2>5, <2>6, <2>7 DEF o
<1> QED
  BY <1>2, <1>3

(* A statement means the same number in both. *)
LEMMA SameFromSame ==
  ASSUME ValuesFit, NEW s \in SourceStmt, s.op \in MeantOps, Usual(s), s.lhs.ty # "u64",
         NEW T, TypedBy(T, s), NEW e, NEW f, Agrees(T, e, f)
  PROVE  SameResult(s.lhs.ty, SourceMeaning(s, e), SourceMeaning(s, f))
<1>1. \A i \in DOMAIN s.args :
        /\ IntegerAt(s, i, e) = IntegerAt(s, i, f)
        /\ SameResult(s.args[i].ty, MeantAt(s, i, e), MeantAt(s, i, f))
  BY OperandAgrees
<1>2. \A i \in DOMAIN s.args : \A k \in Idx :
        GetTrit(MeantAt(s, i, e), k) = GetTrit(MeantAt(s, i, f), k)
  <2> TAKE i \in DOMAIN s.args
  <2>1. CASE s.args[i].ty \in Ternary
    BY <1>1, <2>1, SameValueSameTrits DEF SameResult
  <2>2. CASE s.args[i].ty \notin Ternary
    BY <1>1, <2>2 DEF SameResult
  <2> QED
    BY <2>1, <2>2
<1>3. DOMAIN s.args = 1 .. Len(s.args)
  BY SourceShape
<1>4. CASE s.op = "COND_EXPR"
  <2>1. 1 \in DOMAIN s.args /\ 2 \in DOMAIN s.args /\ 3 \in DOMAIN s.args
    <3>1. Len(s.args) = 3
      BY <1>4, SourceShape
    <3> QED
      BY <1>3, <3>1
  <2>2. SameLayout(s.lhs.ty, s.args[2].ty) /\ SameLayout(s.lhs.ty, s.args[3].ty)
    <3>1. Gimplified(s)
      BY DEF SourceStmt
    <3> QED
      BY <1>4, <3>1 DEF Gimplified
  <2>3. s.args[2].ty = s.lhs.ty /\ s.args[3].ty = s.lhs.ty
    BY <2>1, <2>2 DEF SameLayout, Usual
  <2>4. /\ SourceMeaning(s, e) =
             IF IntegerAt(s, 1, e) # 0 THEN MeantAt(s, 2, e) ELSE MeantAt(s, 3, e)
        /\ SourceMeaning(s, f) =
             IF IntegerAt(s, 1, f) # 0 THEN MeantAt(s, 2, f) ELSE MeantAt(s, 3, f)
    BY <1>4, MeaningOf
  <2>5. /\ IntegerAt(s, 1, e) = IntegerAt(s, 1, f)
        /\ SameResult(s.lhs.ty, MeantAt(s, 2, e), MeantAt(s, 2, f))
        /\ SameResult(s.lhs.ty, MeantAt(s, 3, e), MeantAt(s, 3, f))
    BY <1>1, <2>1, <2>3
  <2> QED
    BY <2>4, <2>5
<1>5. CASE s.op \in {"CONVERT_EXPR", "NEGATE_EXPR"}
  <2>1. 1 \in DOMAIN s.args
    BY <1>3, <1>5, SourceShape DEF UnaryCode
  <2>2. IntegerAt(s, 1, e) = IntegerAt(s, 1, f)
    BY <1>1, <2>1
  <2>3. SourceMeaning(s, e) = SourceMeaning(s, f)
    BY <1>5, <2>2, MeaningOf
  <2> QED
    BY <2>3, SameIsSame
<1>6. CASE s.op = "BIT_NOT_EXPR"
  <2>1. 1 \in DOMAIN s.args
    BY <1>3, <1>6, SourceShape DEF UnaryCode
  <2>2. Not(MeantAt(s, 1, e)) = Not(MeantAt(s, 1, f))
    BY <1>2, <2>1, SameTritsSameWord
  <2>3. SourceMeaning(s, e) = SourceMeaning(s, f)
    BY <1>6, <2>2, MeaningOf
  <2> QED
    BY <2>3, SameIsSame
<1>7. CASE s.op \in {"BIT_AND_EXPR", "BIT_IOR_EXPR", "BIT_XOR_EXPR"}
  <2>1. 1 \in DOMAIN s.args /\ 2 \in DOMAIN s.args
    <3>1. Len(s.args) = 2
      BY <1>7, SourceShape DEF BinaryCode
    <3> QED
      BY <1>3, <3>1
  <2> DEFINE a == MeantAt(s, 1, e)
             b == MeantAt(s, 2, e)
             v == MeantAt(s, 1, f)
             w == MeantAt(s, 2, f)
  <2>2. \A k \in Idx : GetTrit(a, k) = GetTrit(v, k) /\ GetTrit(b, k) = GetTrit(w, k)
    BY <1>2, <2>1
  <2>3. /\ TritwiseOp(a, b, TritMin) = TritwiseOp(v, w, TritMin)
        /\ TritwiseOp(a, b, TritMax) = TritwiseOp(v, w, TritMax)
        /\ TritwiseOp(a, b, TritXor) = TritwiseOp(v, w, TritXor)
    BY <2>2, SameTritsSameWord
  <2>4. SourceMeaning(s, e) = SourceMeaning(s, f)
    BY <1>7, <2>3, MeaningOf
  <2> QED
    BY <2>4, SameIsSame
<1>8. CASE s.op \in CompareCode \cup
                     {"PLUS_EXPR", "MINUS_EXPR", "MULT_EXPR", "TRUNC_DIV_EXPR", "TRUNC_MOD_EXPR"}
  <2>1. 1 \in DOMAIN s.args /\ 2 \in DOMAIN s.args
    <3>1. Len(s.args) = 2
      BY <1>8, SourceShape DEF BinaryCode
    <3> QED
      BY <1>3, <3>1
  <2>2. IntegerAt(s, 1, e) = IntegerAt(s, 1, f) /\ IntegerAt(s, 2, e) = IntegerAt(s, 2, f)
    BY <1>1, <2>1
  <2>3. SourceMeaning(s, e) = SourceMeaning(s, f)
    BY <1>8, <2>2, MeaningOf
  <2> QED
    BY <2>3, SameIsSame
<1> QED
  BY <1>4, <1>5, <1>6, <1>7, <1>8 DEF MeantOps, UnaryCode, BinaryCode

(* What replaces a statement goes on as the source does. *)
LEMMA AgreesMore ==
  ASSUME ValuesFit, NEW src \in SourceStmt, src.op \in MeantOps, Usual(src),
         src.lhs.ty # "u64", NEW T, TypedBy(T, src), NEW e, NEW f, Agrees(T, e, f),
         NEW code, Means(code, src)
  PROVE  Agrees(T, Run(code, e), Updated(f, src.lhs.n, SourceMeaning(src, f)))
<1> DEFINE n == src.lhs.n
           ty == src.lhs.ty
           a == Run(code, e)
           b == Updated(f, n, SourceMeaning(src, f))
<1>1. Covers(e) /\ Covers(f)
  BY DEF Agrees
<1>2. SameResult(ty, a[n], SourceMeaning(src, e)) /\ Leaves(e, a, n)
  BY <1>1 DEF Means, IsMeant
<1>3. SameResult(ty, SourceMeaning(src, e), SourceMeaning(src, f))
  BY SameFromSame
<1>4. SameResult(ty, a[n], SourceMeaning(src, f))
  BY <1>2, <1>3 DEF SameResult
<1>5. /\ b[n] = SourceMeaning(src, f)
      /\ Covers(b)
      /\ \A k \in 0 .. FirstTemp - 1 : k # n => b[k] = f[k]
  BY <1>1 DEF Updated, Covers
<1>6. ty \in Ternary <=> n \in T
  BY DEF TypedBy, Variables
<1> HIDE DEF n, ty, a, b
<1>7. ASSUME NEW k \in 0 .. FirstTemp - 1
      PROVE  IF k \in T THEN Decode(a[k]) = Decode(b[k]) ELSE a[k] = b[k]
  <2>1. CASE k = n
    BY <1>4, <1>5, <1>6, <2>1 DEF SameResult
  <2>2. CASE k # n
    <3>1. a[k] = e[k] /\ b[k] = f[k]
      BY <1>2, <1>5, <2>2 DEF Leaves
    <3> QED
      BY <3>1 DEF Agrees
  <2> QED
    BY <2>1, <2>2
<1> QED
  BY <1>2, <1>5, <1>7 DEF Agrees, Leaves, a, b, n

(* The statements are a stretch ProgramMeaning is about. *)
Stretch(T) ==
  \A i \in DOMAIN done :
    Replaced(done[i]) /\ done[i].src.lhs.ty # "u64" /\ TypedBy(T, done[i].src)

ProgramInv ==
  /\ \A i \in DOMAIN done : done[i].src \in SourceStmt
  /\ ValuesFit =>
       \A T : Stretch(T) =>
         \A env : Covers(env) => Agrees(T, Run(Emitted, env), SourceRun(Statements, env))

LEMMA SourcesAppended ==
  ASSUME IsSequence(done), NEW g, done' = Append(done, g)
  PROVE  /\ IsSequence(Statements)
         /\ Statements' = Append(Statements, g.src)
         /\ DOMAIN done \subseteq DOMAIN done' /\ \A i \in DOMAIN done : done'[i] = done[i]
         /\ \A i \in DOMAIN done' : i \in DOMAIN done \/ done'[i] = g
         /\ \E i \in DOMAIN done' : done'[i] = g
<1> DEFINE S == {done[i] : i \in DOMAIN done} \cup {g}
           n == Len(done)
           srcs == [i \in DOMAIN done |-> done[i].src]
           more == [i \in DOMAIN done' |-> done'[i].src]
           T == {done[i].src : i \in DOMAIN done} \cup {g.src}
<1>1. done \in Seq(S) /\ g \in S
  BY AnySequence
<1>2. /\ DOMAIN done = 1 .. n /\ n \in Nat /\ DOMAIN done' = 1 .. n + 1
      /\ \A i \in 1 .. n : done'[i] = done[i]
      /\ done'[n + 1] = g
  <2>1. done' = Append(done, g)
    OBVIOUS
  <2> HIDE DEF S
  <2> QED BY <1>1, <2>1, AppendFacts
<1> HIDE DEF S, n
<1>3. \A i \in 1 .. n + 1 : i \in 1 .. n \/ i = n + 1
  BY <1>2
<1>4. /\ DOMAIN done \subseteq DOMAIN done' /\ \A i \in DOMAIN done : done'[i] = done[i]
      /\ \A i \in DOMAIN done' : i \in DOMAIN done \/ done'[i] = g
      /\ \E i \in DOMAIN done' : done'[i] = g
  BY <1>2, <1>3
<1>5. /\ \A i \in 1 .. n : srcs[i] = done[i].src
      /\ \A i \in 1 .. n + 1 : more[i] = done'[i].src
      /\ srcs = [i \in 1 .. n |-> srcs[i]] /\ more = [i \in 1 .. n + 1 |-> more[i]]
  BY <1>2
<1>6. (\A i \in 1 .. n : srcs[i] \in T) /\ g.src \in T
  BY <1>2
<1>7. (\A i \in 1 .. n : more[i] = srcs[i]) /\ more[n + 1] = g.src
  BY <1>2, <1>5
<1>8. Statements = srcs /\ Statements' = more
  BY DEF Statements
<1> HIDE DEF srcs, more, T
<1>9. \A i \in 1 .. n + 1 : more[i] \in T
  BY <1>3, <1>6, <1>7
<1>10. srcs \in Seq(T) /\ more \in Seq(T) /\ Len(srcs) = n /\ Len(more) = n + 1
  <2>1. srcs \in [1 .. n -> T] /\ more \in [1 .. n + 1 -> T]
    BY <1>5, <1>6, <1>9
  <2>2. n \in Nat /\ n + 1 \in Nat
    BY <1>2
  <2>3. srcs \in Seq(T)
    BY <2>1, <2>2, SeqDef
  <2>4. more \in Seq(T)
    BY <2>1, <2>2, SeqDef
  <2> QED
    BY <2>1, <2>2, <2>3, <2>4
<1>11. more = Append(srcs, g.src)
  <2> DEFINE a == Append(srcs, g.src)
  <2>1. a \in Seq(T) /\ Len(a) = n + 1 /\ (\A i \in 1 .. n : a[i] = srcs[i]) /\ a[n + 1] = g.src
    BY <1>6, <1>10
  <2> HIDE DEF a
  <2>2. \A i \in 1 .. n + 1 : a[i] = more[i]
    BY <1>3, <1>7, <2>1
  <2> QED
    BY <1>10, <2>1, <2>2, SeqEqual DEF a
<1> QED
  BY <1>4, <1>8, <1>10, <1>11, AnySequence

LEMMA EmptyProgram == done = <<>> => ProgramInv
<1> SUFFICES ASSUME done = <<>> PROVE ProgramInv
  OBVIOUS
<1>1. done = <<>> /\ DOMAIN done = {}
  OBVIOUS
<1>2. Emitted = <<>> /\ Statements = <<>>
  <2>1. [i \in DOMAIN done |-> done[i].code] = <<>> /\ [i \in DOMAIN done |-> done[i].src] = <<>>
    BY <1>1
  <2>2. FlattenSeq(<<>>) = <<>>
    BY DEF FlattenSeq
  <2> QED
    BY <2>1, <2>2 DEF Emitted, Statements
<1>3. ASSUME NEW env PROVE Run(<<>>, env) = env /\ SourceRun(<<>>, env) = env
  <2>1. Len(<<>>) = 0 /\ 0 \in Nat
    OBVIOUS
  <2>2. PICK g : IsWalk(g, FALSE, <<>>, env, 0) /\ Run(<<>>, env) = g[0]
    BY <2>1, RunWalks
  <2>3. PICK h : IsWalk(h, TRUE, <<>>, env, 0) /\ SourceRun(<<>>, env) = h[0]
    BY <2>1, SourceRunWalks
  <2> QED
    BY <2>2, <2>3 DEF IsWalk
<1>4. \A T, env : Covers(env) => Agrees(T, env, env)
  BY DEF Agrees
<1> QED
  BY <1>1, <1>2, <1>3, <1>4 DEF ProgramInv

(* A step emits one group. *)
LEMMA EmitsOne ==
  ASSUME IsSequence(done), NEW code, NEW other, Emit(code), Emit(other)
  PROVE  code = other
<1> DEFINE g == [src |-> Current, code |-> code]
           h == [src |-> Current, code |-> other]
           S == {done[i] : i \in DOMAIN done} \cup {g, h}
<1>1. done' = Append(done, g) /\ done' = Append(done, h) /\ g.code = code /\ h.code = other
  BY DEF Emit
<1>2. done \in Seq(S) /\ g \in S /\ h \in S
  BY AnySequence
<1> HIDE DEF S, g, h
<1>3. Append(done, g)[Len(done) + 1] = g
  BY <1>2, AppendFacts
<1>4. Append(done, h)[Len(done) + 1] = h
  BY <1>2, AppendFacts
<1>5. Append(done, g) = Append(done, h)
  BY <1>1
<1> QED
  BY <1>1, <1>3, <1>4, <1>5

(* What a step appends: code that keeps the meaning, and the statement. *)
Appends(code) ==
  /\ Emit(code) /\ KeptBy(code)
  /\ (\E s : code = <<s>>) \/ (\E d, s : code = <<d, s>>)
  /\ IsSequence(Emitted) /\ Emitted' = Emitted \o code
  /\ IsSequence(Statements) /\ Statements' = Append(Statements, Current)
  /\ DOMAIN done \subseteq DOMAIN done' /\ \A i \in DOMAIN done : done'[i] = done[i]
  /\ \A i \in DOMAIN done' : i \in DOMAIN done \/ done'[i] = Group(code)
  /\ \E i \in DOMAIN done' : done'[i] = Group(code)

LEMMA StepAppends ==
  ASSUME IInv, TempInv, Next
  PROVE  Current \in SourceStmt /\ \E code : Appends(code)
<1>1. temps \in Nat /\ todo \in Seq(SourceStmt) /\ IsSequence(done)
  BY DEF IInv, TempInv
<1>2. Current \in SourceStmt
  BY <1>1, StepWalks
<1>3. PICK code : Emit(code) /\ KeptBy(code)
  BY <1>1, StepKept
<1>4. PICK same : Emit(same) /\ NumbersTemps(same)
  BY <1>1, StepNumbers
<1>5. same = code
  BY <1>1, <1>3, <1>4, EmitsOne
<1> DEFINE g == Group(code)
<1>6. done' = Append(done, g) /\ g.src = Current /\ g = [src |-> Current, code |-> code]
  BY <1>3 DEF Emit, Group
<1>7. (\E s : code = <<s>>) \/ (\E d, s : code = <<d, s>>)
  BY <1>4, <1>5 DEF NumbersTemps
<1>8. IsSequence(code)
  <2>1. \A d, s : IsSequence(<<s>>) /\ IsSequence(<<d, s>>)
    BY DEF IsSequence
  <2> QED
    BY <1>7, <2>1
<1>9. IsSequence(Emitted) /\ Emitted' = Emitted \o code
  BY <1>1, <1>6, <1>8, EmittedAppended DEF TempInv
<1> HIDE DEF g
<1>10. /\ IsSequence(Statements) /\ Statements' = Append(Statements, Current)
       /\ DOMAIN done \subseteq DOMAIN done' /\ \A i \in DOMAIN done : done'[i] = done[i]
       /\ \A i \in DOMAIN done' : i \in DOMAIN done \/ done'[i] = g
       /\ \E i \in DOMAIN done' : done'[i] = g
  BY <1>1, <1>6, SourcesAppended
<1>11. Appends(code)
  BY <1>3, <1>7, <1>9, <1>10 DEF Appends, g
<1> QED
  BY <1>2, <1>11

(* The stretch goes on: the statement passed is one more of it. *)
LEMMA StretchMore ==
  ASSUME NEW code, Appends(code), NEW T, Stretch(T)'
  PROVE  /\ Stretch(T) /\ Judged(code, Current) /\ Usual(Current)
         /\ Current.lhs.ty # "u64" /\ TypedBy(T, Current)
         /\ Means(code, Current) /\ Current.op \in MeantOps
<1> DEFINE g == Group(code)
<1>1. g.src = Current /\ g.code = code /\ g = [src |-> Current, code |-> code]
  BY DEF Group
<1> HIDE DEF g
<1>2. Stretch(T) /\ Replaced(g) /\ Current.lhs.ty # "u64" /\ TypedBy(T, Current)
  BY <1>1 DEF Appends, Stretch, g
<1>3. Judged(code, Current) /\ Usual(Current)
  BY <1>1, <1>2 DEF Judged, Usual, Replaced
<1> QED
  BY <1>2, <1>3 DEF Appends, KeptBy

LEMMA StepProgram == IInv /\ TempInv /\ ProgramInv /\ [Next]_vars => ProgramInv'
<1> SUFFICES ASSUME IInv, TempInv, ProgramInv, [Next]_vars PROVE ProgramInv'
  OBVIOUS
<1>1. CASE Next
  <2>1. PICK code : Current \in SourceStmt /\ Appends(code)
    BY <1>1, StepAppends
  <2>2. \A i \in DOMAIN done' : done'[i].src \in SourceStmt
    BY <2>1 DEF ProgramInv, Appends, Group
  <2>3. ASSUME ValuesFit, NEW T, Stretch(T)', NEW env, Covers(env)
        PROVE  Agrees(T, Run(Emitted', env), SourceRun(Statements', env))
    <3> DEFINE e == Run(Emitted, env)
               f == SourceRun(Statements, env)
    <3>1. /\ Stretch(T) /\ Usual(Current) /\ Current.lhs.ty # "u64" /\ TypedBy(T, Current)
          /\ Means(code, Current) /\ Current.op \in MeantOps
      BY <2>1, <2>3, StretchMore
    <3>2. Agrees(T, e, f)
      BY <2>3, <3>1 DEF ProgramInv
    <3>3. Agrees(T, Run(code, e), Updated(f, Current.lhs.n, SourceMeaning(Current, f)))
      BY <2>1, <2>3, <3>1, <3>2, AgreesMore
    <3>4. Run(Emitted', env) = Run(code, e)
      BY <2>1, RunMore DEF Appends
    <3>5. SourceRun(Statements', env) = Updated(f, Current.lhs.n, SourceMeaning(Current, f))
      BY <2>1, RunAppend DEF Appends
    <3> QED
      BY <3>3, <3>4, <3>5
  <2>4. ValuesFit' <=> ValuesFit
    BY DEF ValuesFit
  <2> QED
    BY <2>2, <2>3, <2>4 DEF ProgramInv
<1>2. CASE UNCHANGED vars
  <2>1. done' = done /\ Emitted' = Emitted /\ Statements' = Statements
    BY <1>2 DEF vars, Emitted, Statements
  <2> QED
    BY <2>1 DEF ProgramInv, Stretch
<1> QED
  BY <1>1, <1>2

(* The numbers of the ternary variables of the statements. *)
Ternaries ==
  {n \in Nat : \E j \in DOMAIN Statements : \E v \in Variables(Statements[j]) :
                 v.ty \in Ternary /\ v.n = n}

LEMMA StatementsStretch ==
  ASSUME AllReplaced, \A i \in DOMAIN done : done[i].src \in SourceStmt
  PROVE  /\ Stretch(Ternaries)
         /\ \A i \in DOMAIN Statements :
              /\ Statements[i].lhs.ty \in Ternary <=> Statements[i].lhs.n \in Ternaries
              /\ Statements[i].lhs.n \in 0 .. FirstTemp - 1
<1>1. DOMAIN Statements = DOMAIN done /\ \A j \in DOMAIN done : Statements[j] = done[j].src
  BY DEF Statements
<1>2. \A j \in DOMAIN Statements : Statements[j] \in SourceStmt
  BY <1>1
<1>3. \A j \in DOMAIN Statements : \A v \in Variables(Statements[j]) : v.n \in 0 .. FirstTemp - 1
  <2> TAKE j \in DOMAIN Statements
  <2>1. Statements[j].lhs \in SourceVariable
    BY <1>2 DEF SourceStmt
  <2>2. \A k \in DOMAIN Statements[j].args : Statements[j].args[k] \in SourceOperand
    BY <1>2, SourceShape
  <2> QED
    BY <2>1, <2>2 DEF Variables, SourceVariable, SourceOperand
<1>4. \A j \in DOMAIN Statements : TypedBy(Ternaries, Statements[j])
  <2> TAKE j \in DOMAIN Statements
  <2>1. ASSUME NEW o \in Variables(Statements[j]) PROVE o.ty \in Ternary <=> o.n \in Ternaries
    <3>1. o.n \in Nat
      BY <1>3, PassAssumption
    <3>2. o.n \in Ternaries => o.ty \in Ternary
      BY DEF AllReplaced, OneType, Ternaries
    <3> QED
      BY <3>1, <3>2 DEF Ternaries
  <2> QED
    BY <2>1 DEF TypedBy
<1> HIDE DEF Ternaries
<1>5. Stretch(Ternaries)
  BY <1>1, <1>4 DEF Stretch, AllReplaced
<1>6. \A i \in DOMAIN Statements : Statements[i].lhs \in Variables(Statements[i])
  BY DEF Variables
<1> QED
  BY <1>3, <1>4, <1>5, <1>6 DEF TypedBy

(* Values that agree are the same results. *)
LEMMA AgreedResults ==
  ASSUME AllReplaced, \A i \in DOMAIN done : done[i].src \in SourceStmt,
         NEW e, NEW f, Agrees(Ternaries, e, f)
  PROVE  SameResults(e, f)
<1> SUFFICES ASSUME NEW i \in DOMAIN Statements
             PROVE  SameResult(Statements[i].lhs.ty, e[Statements[i].lhs.n], f[Statements[i].lhs.n])
  BY DEF SameResults
<1>1. /\ Statements[i].lhs.ty \in Ternary <=> Statements[i].lhs.n \in Ternaries
      /\ Statements[i].lhs.n \in 0 .. FirstTemp - 1
  BY StatementsStretch
<1> QED
  BY <1>1 DEF Agrees, SameResult

LEMMA ProgramFromInv == ProgramInv => ProgramMeaning
<1> SUFFICES ASSUME ProgramInv, AllReplaced, NEW env \in Environments
             PROVE  SameResults(Run(Emitted, env), SourceRun(Statements, env))
  BY DEF ProgramMeaning
<1>1. Covers(env)
  BY EnvironmentAssumption DEF Covers
<1>2. \A i \in DOMAIN done : done[i].src \in SourceStmt
  BY DEF ProgramInv
<1>3. Stretch(Ternaries)
  BY <1>2, StatementsStretch
<1>4. Agrees(Ternaries, Run(Emitted, env), SourceRun(Statements, env))
  BY <1>1, <1>3 DEF ProgramInv, AllReplaced
<1> QED
  BY <1>2, <1>4, AgreedResults

(* Statements replaced one after the other compute together what the        *)
(* source's do: the words one leaves are read by the next, whatever codes   *)
(* the pass chose for them, for every program of every length, every set of *)
(* options and every trit count whose values int64_t holds.                 *)
THEOREM PassProgramMeaning == Spec => []ProgramMeaning
<1> DEFINE Inv == IInv /\ TempInv /\ ProgramInv
<1>1. Init => Inv
  BY InitIInv, InitTemps, EmptyProgram DEF Init
<1>2. Inv /\ [Next]_vars => Inv'
  BY StepIInv, StepTemps, StepProgram
<1>3. Inv => ProgramMeaning
  BY ProgramFromInv
<1> HIDE DEF Inv
<1> QED
  BY <1>1, <1>2, <1>3, PTL DEF Spec
=============================================================================
