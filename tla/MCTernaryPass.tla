---------------------------- MODULE MCTernaryPass ----------------------------
(* Small instances of the pass for TLC: every statement form on its own, and  *)
(* sequences of the forms that share a cache, a counter or the temporaries.   *)
EXTENDS PassMeaning

a == V("t32", 1)
b == V("t32", 2)
wide == V("t64", 3)
i == V("i32", 4)
j == V("i32", 5)
u == V("u32", 6)
f == V("f32", 7)
p == V("ptr", 8)
x == V("t32", 9)       (* destinations *)
n == V("i32", 10)
taken == V("i32", 11)  (* the outcome of a branch *)
last == V("i32", 20)   (* the variable numbered before the temporaries *)

T32Constants == {C("t32", k) : k \in {0, 1, 2, (Pow3[Trits] - 1) \div 2, MaxInt, Pow4[Trits] - 1}}
T32 == {a, b} \cup T32Constants

Assigns(ops, lhs, args) == {Stmt("assign", op, "", lhs, s) : op \in ops, s \in args}
Builtins(ops, lhs, args) == {Stmt("builtin", op, "", lhs, args) : op \in ops}

Conditionals ==
  Assigns({"COND_EXPR"}, x, {i, C("i32", 0), C("i32", 1), a, C("t32", 0), C("t32", 1),
                             C("t64", 0)} \X T32 \X T32)
    \cup Assigns({"COND_EXPR"}, n, {i, a, wide} \X {i, C("i32", 1)} \X {j})
    \cup Assigns({"COND_EXPR"}, V("t64", 12), {i} \X {wide} \X {C("t64", 0)})
    \cup Assigns({"COND_EXPR"}, V("ptr", 13), {i, a} \X {p} \X {C("ptr", 0)})

Operations ==
  Assigns(DOMAIN HelperOf \ {"NEGATE_EXPR", "BIT_NOT_EXPR", "CONVERT_EXPR"}, x, T32 \X T32)
    \cup Assigns({"NEGATE_EXPR", "BIT_NOT_EXPR", "COPY"}, x, {<<o>> : o \in T32})
    \cup Assigns({"LSHIFT_EXPR"}, x, {a} \X {i, C("i32", 1)})
    \cup Assigns({"CONVERT_EXPR"}, x, {<<i>>, <<C("i32", 5)>>, <<C("i32", -1)>>, <<wide>>})

Comparisons ==
  Assigns(CompareCode, n, {a} \X {b, C("t32", 0)})
    \cup {[s EXCEPT !.kind = "cond", !.lhs = taken] : s \in Assigns(CompareCode, n, {a} \X {b, C("t32", 0)})}
    \cup Assigns(CompareCode, n, {i} \X {j})
    \cup Assigns({"CONVERT_EXPR"}, n, {<<a>>, <<u>>})
    \cup Assigns({"CONVERT_EXPR"}, f, {<<a>>})

BuiltinCalls ==
  Builtins({"add", "neg", "and", "not", "shl", "cmp", "eq"}, n, <<i, j>>)
    \cup Builtins({"eq", "cmp"}, n, <<a, b>>)
    \cup Builtins(TernaryCompare, x, <<a, b>>)
    \cup Builtins({"tb2t"}, x, <<i>>) \cup Builtins({"tt2b"}, n, <<a>>)
    \cup Builtins({"t2f"}, f, <<a>>) \cup Builtins({"f2t"}, x, <<f>>)
    \cup Builtins({"select"}, n, <<i, i, j>>) \cup Builtins({"select"}, V("u32", 14), <<i, u, u>>)
    \cup Builtins({"load"}, x, <<p>>) \cup Builtins({"store"}, NoLhs, <<p, a>>)
    \cup Builtins({"add", "tb2t"}, x, <<a, b, b>>)
    \cup Builtins({"add_tv32"}, V("none", 15), <<V("none", 16), V("none", 17)>>)

Mixture ==
  Assigns({"COND_EXPR"}, n, {i, a} \X {i} \X {j})
    \cup Assigns({"COND_EXPR"}, V("u32", 14), {i} \X {u} \X {C("u32", 1)})
    \cup Assigns({"COND_EXPR"}, V("ptr", 13), {a} \X {p} \X {C("ptr", 0)})
    \cup Assigns({"COND_EXPR"}, x, {i} \X {a} \X {a, C("t32", 1)})
    \cup Builtins({"select"}, V("u32", 14), <<i, u, u>>)
    \cup Builtins({"cmplt"}, x, <<a, b>>)
    \cup Assigns({"LT_EXPR"}, n, {a} \X {b})
    \cup Assigns({"PLUS_EXPR"}, x, {a} \X {b, C("t32", 0)})
    \cup {[s EXCEPT !.kind = "cond", !.lhs = taken] : s \in Assigns({"NE_EXPR"}, n, {a} \X {b})}
    \cup {Stmt("return", "return", "", NoLhs, <<x>>)}

(* Statements that read what others wrote. *)
Chained ==
  Assigns({"PLUS_EXPR"}, x, {<<a, b>>, <<x, C("t32", 0)>>})
    \cup Assigns({"MINUS_EXPR", "BIT_IOR_EXPR"}, a, {x} \X {a})
    \cup Assigns({"BIT_NOT_EXPR"}, a, {<<x>>})
    \cup Assigns({"COND_EXPR"}, x, {last, a} \X {a} \X {x})
    \cup Assigns({"GT_EXPR"}, last, {x} \X {a})
    \cup Assigns({"CONVERT_EXPR"}, last, {<<x>>})

MCPrograms ==
  {<<s>> : s \in Conditionals \cup Operations \cup Comparisons \cup BuiltinCalls}
    \cup [1 .. 3 -> Mixture] \cup [1 .. 3 -> Chained]
    \cup [1 .. 2 -> Builtins(TernaryCompare, x, <<a, b>>)]

MCOptions == {{}, {"lower"}, {"lower", "arith", "logic", "cmp", "shift", "conv", "mem"}}

Words == {[k \in Idx |-> 1], [k \in Idx |-> 0], [k \in Idx |-> IF k = 0 THEN 0 ELSE 1],
          [k \in Idx |-> IF k = 1 THEN 2 ELSE 1], [k \in Idx |-> 3]}

MCEnvironments ==
  {[k \in 0 .. 20 |-> IF k = 1 THEN v ELSE IF k = 2 THEN w ELSE IF k = 4 THEN c
                      ELSE IF k \in {3, 9, 12} THEN v ELSE 7] :
     v \in Words, w \in Words, c \in {0, 2}}
=============================================================================
