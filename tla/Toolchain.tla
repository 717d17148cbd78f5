------------------------------ MODULE Toolchain ------------------------------
(***************************************************************************)
(* A compilation with the plugin and the link that follows it: plugin_init *)
(* checks GCC and reads the arguments, the pass walks the functions of the *)
(* translation unit one after the other, PLUGIN_FINISH reports, and the    *)
(* calls the pass left behind are linked with a helper library.            *)
(*                                                                         *)
(* The option flags, the prefix, the declaration cache and the counters    *)
(* are static variables of the plugin: they outlive the function that set  *)
(* them.  todo is the current function; unit is the translation unit.      *)
(***************************************************************************)
EXTENDS PassMeaning, HelperImplementations

CONSTANTS
  Gccs,      (* [exact, major]: built for this very GCC; its major version *)
  ArgLists,  (* sequences of -fplugin-arg-ternary_plugin-key=value *)
  Units,     (* translation units: sequences of functions *)
  Builds,    (* [library, prefix, compat]: the libraries to link with *)
  Inner,     (* variables the gimplifier makes for values inside an expression *)
  MaxShort   (* INT_MAX *)

(* Functions are what gimplification leaves of them; only the skeleton can *)
(* be built under another prefix.                                          *)
ASSUME ToolAssumption ==
  /\ Units \subseteq Seq(Seq(SourceStmt))
  /\ ArgLists \subseteq Seq([key : STRING, value : STRING])
  /\ Builds \subseteq [library : {"runtime", "skeleton"}, prefix : STRING, compat : BOOLEAN]
  /\ \A b \in Builds : b.library = "runtime" => b.prefix = "__ternary"

(* An int is no wider than an int64_t. *)
ASSUME ShortAssumption == MaxShort \in Nat /\ MaxShort <= MaxInt

NoStats == <<>>

VARIABLES
  stage,     (* "load", "args", "compile", "finished" or "refused" *)
  gcc,
  args,      (* arguments parse_args has still to read *)
  prefix,    (* opt_prefix *)
  type_uids, (* types of ternary_type_uids the plugin registered itself *)
  unit, next,
  stats,     (* what ternary_plugin_finish printed *)
  build

static == <<decl_cache, counts, temps>>
toolVars == <<vars, stage, gcc, args, prefix, type_uids, unit, next, stats, build>>

-----------------------------------------------------------------------------
(* Libraries.  A symbol is <<prefix, helper>>. *)
OwnSymbols(b) ==
  IF b.library = "runtime" THEN {"__ternary"} \X RuntimeHelpers
  ELSE ({b.prefix} \X SkeletonRenamed) \cup ({"__ternary"} \X (SkeletonHelpers \ SkeletonRenamed))
CompatSymbols(b) ==
  IF b.library = "skeleton" /\ b.compat THEN {"__ternary"} \X SkeletonCompat ELSE {}

(* A source that defines a symbol twice does not compile. *)
Buildable(b) == OwnSymbols(b) \cap CompatSymbols(b) = {}
LinkedSymbols(b) == OwnSymbols(b) \cup CompatSymbols(b)

-----------------------------------------------------------------------------
ToolInit ==
  /\ stage = "load" /\ gcc \in Gccs /\ args \in ArgLists /\ prefix = "__ternary"
  /\ type_uids = {} /\ unit \in Units /\ next = 1 /\ stats = NoStats
  /\ build \in {b \in Builds : Buildable(b)}
  /\ opt = {} /\ todo = <<>> /\ done = <<>>
  /\ decl_cache = [k \in Key |-> NoDecl]
  /\ ternary_count = 0 /\ lowered_count = 0 /\ surviving_count = 0 /\ temps = 0

(* plugin_default_version_check and check_gcc_version_compatibility. *)
Compatible == gcc.exact /\ gcc.major \in 9 .. 15

Load ==
  /\ stage = "load" /\ Compatible
  /\ stage' = "args"
  /\ UNCHANGED <<vars, gcc, args, prefix, type_uids, unit, next, stats, build>>

Refuse ==
  /\ stage = "load" /\ ~Compatible
  /\ stage' = "refused"
  /\ UNCHANGED <<vars, gcc, args, prefix, type_uids, unit, next, stats, build>>

(* A key that sets no flag, but for prefix=value, is warned of.  The value *)
(* "" stands for an argument without a value.                              *)
ParseArg ==
  /\ stage = "args" /\ args # <<>>
  /\ LET arg == Head(args) IN
       /\ opt' = opt \cup ({arg.key} \cap Flags)
       /\ prefix' = IF arg.key = "prefix" /\ arg.value # "" THEN arg.value ELSE prefix
  /\ args' = Tail(args)
  /\ UNCHANGED <<todo, done, static, stage, gcc, type_uids, unit, next, stats, build>>

(* The callbacks and the pass are registered, the unit is started and      *)
(* ternary_plugin_init makes the builtin types.                            *)
RegisteredWithVectors(flags) == IF {"types", "vector"} \subseteq flags THEN Ternary ELSE {}
Registered(flags) == IF "types" \in flags THEN Ternary ELSE {}

StartUnit ==
  /\ stage = "args" /\ args = <<>>
  /\ stage' = "compile"
  /\ type_uids' = Registered(opt)
  /\ UNCHANGED <<vars, gcc, args, prefix, unit, next, stats, build>>

(* get_ternary_type_trits knows a type by its uid or its name.  A variable *)
(* declared t32_t is always known.  One the gimplifier makes for a value   *)
(* inside an expression has the main variant of t32_t: the type the plugin *)
(* registered or, where t32_t is a typedef, a nameless unsigned long.      *)
Known(o, uids) ==
  IF o.n \in Inner /\ ~o.const /\ o.ty = "t32" /\ "t32" \notin uids
  THEN [o EXCEPT !.ty = "u64"] ELSE o
Seen(fn, uids) ==
  [i \in DOMAIN fn |->
     [fn[i] EXCEPT !.lhs = Known(fn[i].lhs, uids),
                   !.args = [k \in DOMAIN fn[i].args |-> Known(fn[i].args[k], uids)]]]

Between == stage = "compile" /\ todo = <<>>

(* With variables of execute instead of static ones. *)
EnterFunctionFresh ==
  /\ Between /\ next <= Len(unit)
  /\ todo' = Seen(unit[next], type_uids) /\ next' = next + 1
  /\ decl_cache' = [k \in Key |-> NoDecl]
  /\ UNCHANGED <<opt, done, counts, temps, stage, gcc, args, prefix, type_uids, unit, stats, build>>
EnterFunctionRecounts ==
  /\ Between /\ next <= Len(unit)
  /\ todo' = Seen(unit[next], type_uids) /\ next' = next + 1
  /\ ternary_count' = 0 /\ lowered_count' = 0 /\ surviving_count' = 0
  /\ UNCHANGED <<opt, done, decl_cache, temps, stage, gcc, args, prefix, type_uids, unit, stats, build>>

(* GCC runs the pass on its next function. *)
EnterFunction ==
  /\ Between /\ next <= Len(unit)
  /\ todo' = Seen(unit[next], type_uids) /\ next' = next + 1
  /\ UNCHANGED <<opt, done, static, stage, gcc, args, prefix, type_uids, unit, stats, build>>

PassStep ==
  /\ stage = "compile" /\ Next
  /\ UNCHANGED <<stage, gcc, args, prefix, type_uids, unit, next, stats, build>>

FinishUnit ==
  /\ Between /\ next > Len(unit)
  /\ stage' = "finished"
  /\ stats' = IF "stats" \in opt THEN counts ELSE NoStats
  /\ UNCHANGED <<vars, gcc, args, prefix, type_uids, unit, next, build>>

ToolNext ==
  \/ Load \/ Refuse \/ ParseArg \/ StartUnit \/ EnterFunction \/ PassStep \/ FinishUnit

(* GCC goes on with a compilation it has started. *)
ToolSpec == ToolInit /\ [][ToolNext]_toolVars /\ WF_toolVars(ToolNext)

-----------------------------------------------------------------------------
(* Compiling function by function is one walk of the pass over the whole   *)
(* unit, with the options all the arguments together give: what one        *)
(* function leaves in the cache and the counters is there for the next.    *)
FlagsOf(list) == {list[i].key : i \in DOMAIN list} \cap Flags
Walk == INSTANCE TernaryPass WITH
          Programs   <- {Seen(FlattenSeq(m), uids) : m \in Units, uids \in {{}, Ternary}},
          OptionSets <- {FlagsOf(list) : list \in ArgLists},
          opt  <- opt \cup FlagsOf(args),
          todo <- todo \o Seen(FlattenSeq(SubSeq(unit, next, Len(unit))),
                               Registered(opt \cup FlagsOf(args)))

ImplementsPass == Walk!Spec

(* The report covers the unit: no statement of any function was passed     *)
(* over unseen, and the numbers are those of the code that came out.       *)
ReportMatchesUnit ==
  stage = "finished" =>
    /\ [i \in DOMAIN done |-> done[i].src] = Seen(FlattenSeq(unit), type_uids)
    /\ "stats" \in opt =>
         /\ stats[1] = Cardinality({i \in DOMAIN done : done[i].src.op = "COND_EXPR"})
         /\ stats[2] = Cardinality({i \in DOMAIN done : Rewritten(done[i])})

(* Every compilation ends, refused or with the report that was asked for.  *)
CompilationEnds ==
  <>(stage = "refused" \/ (stage = "finished" /\ ("stats" \in opt => stats # NoStats)))
=============================================================================
