----------------------------- MODULE MCToolchain -----------------------------
(* Small instances of the toolchain for TLC: functions of one statement of    *)
(* each form, and units of several functions that share the plugin's state.   *)
EXTENDS ToolchainLink, MCTernaryPass

bool == V("u1", 18)
long == V("i64", 19)
Few  == {a, b, C("t32", 1), C("t32", 0)}

LinkConditionals ==
  Assigns({"COND_EXPR"}, x, {i, a, C("t32", 0)} \X {a} \X {b, C("t32", 1)})
    \cup Assigns({"COND_EXPR"}, n, {i, a} \X {i} \X {j})
    \cup Assigns({"COND_EXPR"}, bool, {i, a} \X {bool} \X {C("u1", 1)})
    \cup Assigns({"COND_EXPR"}, f, {i} \X {f} \X {V("f32", 20)})
LinkOperations ==
  Assigns(DOMAIN HelperOf \ {"NEGATE_EXPR", "BIT_NOT_EXPR", "CONVERT_EXPR"}, x,
          {a, C("t32", 2)} \X Few)
    \cup Assigns({"NEGATE_EXPR", "BIT_NOT_EXPR"}, x, {<<o>> : o \in {a, C("t32", 1)}})
    \cup Assigns({"PLUS_EXPR", "LSHIFT_EXPR"}, x, {a} \X {i, wide})
    \cup Assigns({"PLUS_EXPR"}, V("t64", 12), {wide} \X {wide, a})
    \cup Assigns({"CONVERT_EXPR"}, x, {<<i>>, <<C("i32", 5)>>})
LinkComparisons ==
  Assigns(CompareCode, n, {a} \X {b, C("t32", 0)})
    \cup {[s EXCEPT !.kind = "cond", !.lhs = taken] : s \in Assigns(CompareCode, n, {a} \X {b})}
    \cup Assigns({"CONVERT_EXPR"}, n, {<<a>>}) \cup Assigns({"CONVERT_EXPR"}, f, {<<a>>})
LinkBuiltins ==
  Builtins(RuntimeInt \ {"neg", "not"}, n, <<i, j>>)
    \cup Builtins({"neg", "not"}, n, <<i>>)
    \cup Builtins({"add", "shl"}, long, <<long, long>>)
    \cup Builtins({"add", "xor", "cmplt", "eq", "shl"}, x, <<a, b>>)
    \cup Builtins({"neg", "not"}, x, <<a>>)
    \cup Builtins({"tb2t"}, x, <<i>>) \cup Builtins({"tt2b"}, n, <<a>>)
    \cup Builtins({"t2f"}, f, <<a>>) \cup Builtins({"f2t"}, x, <<f>>)
    \cup Builtins({"select"}, n, <<i, i, j>>) \cup Builtins({"select"}, x, <<a, a, b>>)
    \cup Builtins({"load"}, x, <<p>>) \cup Builtins({"store"}, NoLhs, <<p, a>>)

(* x = b op (a op' o), comparisons with a sum, and a cast of a negation. *)
t == V("t32", 15)
NestedFunctions ==
  Assigns({"PLUS_EXPR", "MULT_EXPR"}, t, {a} \X {b, C("t32", 0)})
      \X Assigns({"MINUS_EXPR", "MULT_EXPR", "BIT_IOR_EXPR"}, x, {b} \X {t})
    \cup Assigns({"PLUS_EXPR"}, t, {a} \X {b})
           \X Assigns({"LT_EXPR", "NE_EXPR"}, n, {<<x, t>>, <<t, x>>})
    \cup Assigns({"NEGATE_EXPR"}, t, {<<a>>}) \X Assigns({"CONVERT_EXPR"}, n, {<<t>>})

(* Statements that read what others wrote, and a temporary that comes next *)
(* to a variable in use.                                                   *)
Stretches ==
  [1 .. 2 -> Assigns({"PLUS_EXPR"}, x, {<<a, b>>, <<x, C("t32", 0)>>})
               \cup Assigns({"MINUS_EXPR", "BIT_IOR_EXPR", "BIT_XOR_EXPR"}, a, {<<x, b>>})
               \cup Assigns({"COND_EXPR"}, x, {<<last, a, x>>, <<a, b, x>>})
               \cup Assigns({"GT_EXPR"}, last, {<<x, a>>})
               \cup Assigns({"CONVERT_EXPR"}, last, {<<b>>})]

Functions ==
  {<<s>> : s \in LinkConditionals \cup LinkOperations \cup LinkComparisons \cup LinkBuiltins}
Shared ==
  {<<s>> : s \in Assigns({"COND_EXPR"}, n, {i, a} \X {i} \X {j})
                   \cup Builtins({"cmplt", "cmpgt"}, x, <<a, b>>)
                   \cup Builtins({"select"}, V("u32", 14), <<i, u, u>>)
                   \cup Assigns({"PLUS_EXPR"}, x, {a} \X {b})}
    \cup {<<>>}

MCUnits == {<<>>} \cup {<<fn>> : fn \in Functions \cup NestedFunctions \cup Stretches}
             \cup [1 .. 2 -> Shared]
             \cup {<<<<>>, <<s>>>> : s \in Builtins({"add"}, t, <<a, b>>) \cup Builtins({"neg"}, t, <<a>>)
                                          \cup Builtins({"cmp"}, n, <<t, a>>)}
             \cup [1 .. 3 -> {<<Stmt("assign", "COND_EXPR", "", n, <<a, i, j>>)>>,
                              <<Stmt("builtin", "cmpgt", "", x, <<a, b>>)>>}]

Key1(k) == [key |-> k, value |-> ""]
Prefix(v) == [key |-> "prefix", value |-> v]
All == <<Key1("lower"), Key1("arith"), Key1("logic"), Key1("cmp"), Key1("shift"),
         Key1("conv"), Key1("mem")>>

MCArgLists ==
  {<<>>,
   <<Key1("stats"), Key1("lower")>>,
   <<Key1("lower"), Key1("types")>>,
   All,
   <<Prefix("__other")>> \o All \o <<Prefix("__t81_ternary"), Key1("stats"), Key1("unheard-of")>>}

MCGccs == {[exact |-> TRUE, major |-> 12], [exact |-> FALSE, major |-> 12],
           [exact |-> TRUE, major |-> 8]}

MCBuilds ==
  [library : {"runtime"}, prefix : {"__ternary"}, compat : {FALSE}]
    \cup [library : {"skeleton"}, prefix : {"__ternary", "__t81_ternary"}, compat : BOOLEAN]

LinkEnvironments ==
  {[k \in 0 .. 20 |->
      IF k = 1 THEN v[1] ELSE IF k = 2 THEN v[2] ELSE IF k = 4 THEN c[1] ELSE IF k = 5 THEN c[2]
      ELSE IF k \in {3, 9, 12} THEN v[1] ELSE IF k = 15 THEN v[2] ELSE 7] :
     v \in {<<[k \in Idx |-> 1], [k \in Idx |-> 2]>>,
            <<[k \in Idx |-> 0], [k \in Idx |-> IF k = 0 THEN 0 ELSE 1]>>,
            <<[k \in Idx |-> IF k = 1 THEN 2 ELSE 1], [k \in Idx |-> 3]>>,
            <<[k \in Idx |-> k], [k \in Idx |-> 2 - k]>>},
     c \in {<<0, 2>>, <<2, -1>>, <<-MaxShort - 1, -1>>, <<MaxShort, 1>>, <<1, 0>>, <<-5, 3>>}}
=============================================================================
