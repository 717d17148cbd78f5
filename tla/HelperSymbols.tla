---------------------------- MODULE HelperSymbols ----------------------------
(***************************************************************************)
(* Which helpers each source defines.  A helper is <<op, suffix>>, for the *)
(* symbol <prefix>_<op>_<suffix>; the suffix of the helpers on C integers  *)
(* is "".  The reference runtime and the skeleton are libraries, the       *)
(* inline helpers come with include/ternary_helpers.h.                     *)
(***************************************************************************)

Arithmetic == {"add", "sub", "mul", "div", "mod", "neg"}
Logic  == {"and", "or", "xor"}
Shifts == {"shl", "shr", "rol", "ror"}
Orders == {"eq", "ne", "lt", "le", "gt", "ge"}
OrderWords == {"cmplt", "cmpeq", "cmpgt", "cmpneq"}
Floats == {"t2f32", "t2f64", "f2t32", "f2t64"}
Sizes  == {"t32", "t64"}

-----------------------------------------------------------------------------
(* runtime/ternary_runtime.c *)
RuntimeInt == Arithmetic \cup Logic \cup Shifts \cup Orders \cup {"not", "cmp"}
RuntimeTyped ==
  Arithmetic \cup Logic \cup Shifts \cup Orders \cup OrderWords \cup Floats
    \cup {"select", "not", "tb2t", "tt2b", "cmp"}
RuntimeIsa ==
  {"tmin", "tmax", "tmaj", "tlimp", "tquant", "tnot", "tinv", "tmuladd", "tround",
   "tnormalize", "tbias", "tmux", "tequiv", "txor", "tnet", "tsignjmp", "bt_str",
   "load", "store"}
RuntimeSelects == {"i8", "i16", "i32", "i64", "u8", "u16", "u32", "u64", "f32", "f64"}
RuntimeTv64 == {"add", "sub", "mul", "and", "or", "xor", "not", "cmp"}
RuntimeTv32 == RuntimeTv64 \cup {"tmin", "tmax", "tmaj", "tlimp", "tquant", "tround"}

RuntimeHelpers ==
  (RuntimeInt \X {""}) \cup ((RuntimeTyped \cup RuntimeIsa) \X Sizes)
    \cup ({"select"} \X RuntimeSelects)
    \cup (RuntimeTv32 \X {"tv32"}) \cup (RuntimeTv64 \X {"tv64"})

-----------------------------------------------------------------------------
(* runtime_skeleton/src/ternary_runtime_skeleton.c *)
SkeletonInt == Arithmetic \cup Logic \cup Shifts \cup Orders \cup {"not", "cmp"}
SkeletonT32 ==
  Arithmetic \cup Logic \cup Shifts \cup {"select", "tb2t", "tt2b", "cmp"}
    \cup {"tmin", "tmax", "tmaj", "tlimp", "tquant", "tnot", "tinv", "tmuladd", "tround",
          "tnormalize", "tbias"}
SkeletonT64 ==
  Arithmetic \cup Logic \cup Shifts \cup {"select", "tb2t", "tt2b", "cmp"}
    \cup {"tmin", "tmax", "tmaj", "tlimp", "tquant", "tnot", "tinv", "tmuladd", "tround",
          "tnormalize", "tbias"}
SkeletonSignJmp == {"tsignjmp"} \X Sizes

SkeletonHelpers ==
  (SkeletonInt \X {""}) \cup (SkeletonT32 \X {"t32"}) \cup (SkeletonT64 \X {"t64"})
    \cup SkeletonSignJmp

(* The helpers whose names #define gives TERNARY_RUNTIME_PREFIX; the others *)
(* are called __ternary_ whatever the prefix.                              *)
SkeletonRenamed ==
  (SkeletonInt \X {""})
    \cup ((Arithmetic \cup Logic \cup Shifts \cup {"select", "tb2t", "tt2b", "cmp"}) \X Sizes)

(* The definitions under __ternary_ that TERNARY_RUNTIME_NO_COMPAT leaves out. *)
SkeletonCompat ==
  SkeletonRenamed \cup ({"tmin", "tmax", "tmaj", "tlimp", "tquant"} \X Sizes)

-----------------------------------------------------------------------------
(* include/ternary_helpers.h *)
InlineInt == Arithmetic \cup Logic \cup Shifts \cup {"not", "cmp"}
InlineT32 ==
  Arithmetic \cup Logic \cup Shifts \cup Floats
    \cup {"select", "not", "tb2t", "tt2b", "cmp", "bt_str"}
InlineT64 ==
  Arithmetic \cup Logic \cup Shifts \cup Floats
    \cup {"select", "not", "tb2t", "tt2b", "cmp", "bt_str"}
InlineSelects == {"i8", "i16", "i32", "i64", "u8", "u16", "u32", "u64", "f32", "f64"}

InlineHelpers ==
  (InlineInt \X {""}) \cup (InlineT32 \X {"t32"}) \cup (InlineT64 \X {"t64"})
    \cup ({"select"} \X InlineSelects)

HelpersOf(source) ==
  CASE source = "runtime"  -> RuntimeHelpers
    [] source = "skeleton" -> SkeletonHelpers
    [] source = "inline"   -> InlineHelpers
=============================================================================
