# Verification of the ternary GCC plugin

TLA+ models of the ternary GCC plugin and of the runtime its output is linked
against, TLC configurations that check them on small instances, and theorems
about them that TLAPS checks for every value of the constants. Paths are
relative to the repository root; line numbers refer to the commit the models
were written from.

## 1. The system

The plugin lets C and C++ code use balanced ternary integers (`t32_t`,
`t64_t`). A value is *packed*: each trit is a 2-bit code in a binary container
(0 is -1, 1 is 0, 2 is +1, 3 is reserved). During compilation a GIMPLE pass
(`src/ternary_plugin.cpp`) replaces operations on ternary types by calls to
helpers `__ternary_<op>_t<N>`; the helpers are implemented by
`runtime/ternary_runtime.c`.

### Components

| component | state it keeps | operations | interacts with |
|---|---|---|---|
| packed words, `runtime/ternary_runtime.c` 1-700 | none | decode/encode, tritwise logic, shifts, rotates, rounding, sign, mux | called by the ABI helpers and, inlined again, by the plugin's constant folder |
| helper ABI, same file 980-1381 | none of its own; the caller's variables and memory | arithmetic, logic, comparison, conversion, select, load, store for `t32_t` and `t64_t` | called by compiled programs |
| string parser, same file 55-102 | `s`, `acc`, `saw` of the loop | one digit or separator per iteration | behind `__ternary_bt_str_*` and the `T32_BT_STR` literals |
| lowering pass, `src/ternary_plugin.cpp` `execute` | option flags, three counters, the declaration cache, the statement iterator | one statement per iteration, about twenty ways through the body | reads and rewrites GCC's statements; relies on the helper ABI |
| plugin life cycle, same file 100-330 and 1796-1915 | option flags, prefix, registered types, all static | version checks, argument parsing, type registration and recognition, walk over the functions, report | runs before and after the pass and between its functions |
| compilation and link | none of its own | the calls the pass left are resolved to definitions | joins the pass's output with a library, under the plugin's prefix |
| vector helpers, runtime 1383-1622 | none | the scalar helpers, lane by lane | scalar helpers; called by programs directly, never by the plugin |
| `runtime_skeleton/` | none | a second implementation of the ABI on containers, under a prefix of its own, with wrappers for the other prefix; a neural-network demo using it | may be linked instead of the runtime |
| `include/ternary_helpers.h` | none | a third, inline implementation | an object that includes it runs its bodies, other objects the library's |

Every listed component, modelled or not, is in `PROJECT.json`.

### What is hard

Nothing in the repository runs concurrently and nothing is persisted: there are
no interleavings and no crashes to model. What is hard is of other kinds.

* **Long sequences of legal calls.** The reserved code 3 reads as +1, so a
  word holding it compares equal to a canonical word; loads, moves and
  `tnormalize` still see it. Which sequences of helpers can create or keep it
  cannot be seen in any one function.
* **Integers at a boundary.** `t64_t` values do not fit the `int64_t` that
  every helper decodes into; the parser's overflow test must be exactly right;
  `ternary_encode` borrows for remainders of either sign; rounding and shifting
  by the width or more.
* **State that outlives a statement and a function in the pass.** The declaration
  cache, the counters and the temporaries are shared by all statements of all
  functions of a translation unit.
* **Three implementations of one symbol.** One program may run the runtime's or the
  skeleton's body of a helper in one object and the header's in another; words
  travel between them.
* **Types known by name.** A type is ternary if the plugin made it or if it is called
  `t32_t`; a temporary of the gimplifier has the type without its name.
* **Two representations of one constant.** A ternary constant in the source is
  an integer, in the output a container. Each branch of the pass must know which
  one it holds, and 0 is a different bit pattern in each.

### What makes each component correct

* Words and ABI: each helper computes the promised integer operation whenever
  operands and result fit the container; words the runtime makes are canonical.
* Parser: a representable number parses to itself; only unrepresentable ones are
  rejected for overflow; the loop ends.
* Pass: emitted code computes what the source statement means; temporaries are
  written before they are read and once; a cached declaration belongs to the
  statement that uses it; statistics match the code; the walk ends.
* Life cycle: the functions of a unit are lowered as one walk with one set of
  options; the report covers all of them; every compilation ends, by refusal or
  with the report.
* Link: a helper that is called exists and takes what it is passed; the linked
  program computes what its source says.
* Mixed programs: the three sources agree bit for bit, and no mixture makes a
  reserved code.
* Vectors: each lane is the scalar helper's result on the same lane.

## 2. The modules and the code

| module | models | correspondence |
|---|---|---|
| `Powers` | the weights of digits | `Pow3[i]` is `pow3` after `i` iterations, `Pow4[i]` the weight `1 << 2i` of trit `i`'s code |
| `CInt` | `int64_t` arithmetic as compiled | `CQuot`, `CRem` are C's `/` and `%`; `Wrap` is two's complement in a container whose maximum is `MaxInt` |
| `TritWord` | the static functions on packed words | one operator per function; a word is the array of its codes, and the three copies for 64, 128 and 256 bits are one module over `Trits` and `MaxInt` |
| `HelperCalls` | the ABI's functions and operands | a call names its helper, its variables and its literal |
| `TernaryRuntime` | a program that uses the runtime | `regs` and `mem` are its variables and memory; `Call` picks any helper and operands, and `ReturnWord`, `ReturnScalar`, `ReturnMove`, `Load`, `Store` are the bodies of the five families of helpers; `Outside` is code that writes packed words itself |
| `AbstractTernary` | what the ABI promises, on integers | the same actions on unbounded integers; nothing is packed and no loop is left. The promises are those of `docs/SPECIFICATION.md`; where the code does something else, the promise is as built and named so: `XorAsBuilt`, `TxorAsBuilt`, `EquivAsBuilt`, `NetAsBuilt`, `RoundAllAsBuilt`. |
| `BtStrParser` | the parser's loop | one action per way through the body; `rest`, `acc`, `saw` are the C variables, `exact` and `pow` are ghosts no guard reads |
| `TernaryPass` | `ternary_pass::execute` | `todo` is what the iterator has not visited, `done` what it left behind, grouped by source statement; the guards follow the order of the tests in the body, so that each action's guard holds the negation of the earlier `continue`s |
| `PassMeaning` | what a source statement and an emitted statement compute | `SourceMeaning` from `docs/SPECIFICATION.md` but for `^`, which means what the runtime makes of it (`XorAsBuilt`: the document's line 115 defines another function); `Execute` from the helpers of `TritWord` |
| `PackedWord` | the static functions of the skeleton and of the header | on the container, an integer, with shifts and masks; the two sources are two instances that differ in `TritXor` |
| `HelperSymbols` | which source defines which helper, and under which name | a set of `<<op, suffix>>` per source; `SkeletonRenamed` is the list of `#define`s, `SkeletonCompat` that of the wrappers |
| `HelperImplementations` | what a helper returns, by source, and the lanes of the vector helpers | `Skeleton` and `Header` are instances of `PackedWord`; `Join` and `Lane` are the shifts by 64 bits |
| `MixedRuntime` | a program of several objects | `TernaryRuntime` with the body of each call chosen among those its object may have (`Providers`), vector calls, and `Trap`, the SIGFPE of `INT64_MIN / -1` |
| `MixedContract` | what is left of the ABI's promise then | `AbstractTernary`, its exceptions included, with the header's xor and the skeleton's `tround` and `tquant` as further exceptions, spelled out on integers |
| `Toolchain` | a compilation | `Load`, `Refuse`, `ParseArg`, `StartUnit`, `FinishUnit` are `plugin_init`, `parse_args` and the callbacks; `EnterFunction` is GCC's next function; `PassStep` is a step of `TernaryPass` |
| `ToolchainLink` | the link and the linked program | `Symbol` is `build_helper_name`, `LinkedSymbols` the library, `BodyOf` the body that runs; `IntMeaning` is what a builtin on `int` stands for, xor as the libraries build it (`IntXorAsBuilt`) |
| `MCTernaryRuntime`, `MCTernaryPass`, `MCMixedRuntime`, `MCToolchain` | instances for TLC | definitions of the constants only |
| `TritWordProofs`, `TernaryRuntimeProofs`, `BtStrParserProofs`, `TernaryPassProofs`, `MixedRuntimeProofs`, `ToolchainProofs` | theorems | one per component, see section 4 |
| `BaseProofs` | lemmas | integers, loops, induction and sums of digits; appending, concatenating, flattening and counting in sequences |
| `HelperProofs` | lemmas | the skeleton's and the header's bodies against the runtime's; the power of 3 of the shifts on `int` |

Modelling decisions a reader should know:

* **Undefined behaviour.** Signed overflow in the runtime is modelled as the
  machine code that GCC emits for it: wrap-around. Strictly it is undefined; the
  abstract specification promises nothing about any call where it happens, so no
  result depends on the choice. `INT64_MIN / -1` and `INT64_MIN % -1` trap on x86
  instead. `TernaryRuntime` has the wrapped quotient there, and its abstract
  specification promises nothing; `MixedRuntime` has the trap, and `MixedContract`
  allows it (`MayTrap`) only where an operand or the quotient is outside `int64_t`.
* **Container width.** The code's widths appear only through
  `3^Trits <= MaxInt` (`t32_t`) or not (`t64_t`).
* **Dead values.** A scalar result no later call reads is dropped
  (`ReadsRes`).
* **After gimplification** operands are variables or constants, so the code for
  a `COND_EXPR` nested in an operand has nothing to do and is left out.
* **The pass walks** one function after another; its counters and its cache are
  static. `TernaryPass` walks the statements of a unit in that order. `Toolchain`
  has the functions, and `ImplementsPass` shows that the result is that walk.
* **Temporaries of the gimplifier** are the variables in `Inner`. One of type `t32_t` has
  the main variant of that type: the plugin's own type with `-types`, else the
  nameless `unsigned long` behind the typedef (`Known`, `Seen`). That GCC gives
  temporaries the main variant is GCC's behaviour, read from its GIMPLE dumps.
* **`Symbol` equality** stands for name resolution: a name is a prefix and a helper, never
  a string.
* **Load builtins** are rewritten by setting the right-hand side of a call
  statement, which GCC defines for assignments only. The model takes the
  statement to become the assignment the code asks for.
* **Where the documents are silent** the promise is the code's: a result out of range is reduced
  modulo `3^Trits`, a shift count is taken modulo the width, and nothing is promised of what
  overflows `int64_t` (`Promise`). Where they contradict each other the code decides: `tround`
  "drops" trits, rounds "symmetrically" and "toward zero" (`docs/SPECIFICATION.md:167`,
  `docs/MASTER_ISA.md`), and the promise is division toward zero, as `tests/test_logic_helpers.c:72`
  expects. Where the documents say one thing and the code does another, the exception is
  named (`...AsBuilt`) and section 5 says what the documents have.
* **A comparison with a ternary result** is counted as a surviving operator
  (`src/ternary_plugin.cpp:1176`) and then lowered as well (1184). In GIMPLE the result of a comparison is
  a boolean or an `int`; `Gimplified` says so, and the model has no such statement.
* **Aliases** of one body (`tmin` of `and`, `tmax` of `or`, `tinv` of `tnot`) are
  not repeated.

## 3. What is model-checked

| run | question | instance |
|---|---|---|
| `runtime_narrow` | does every sequence of helper calls on values that fit `int64_t` implement exact modular arithmetic and the documented logic, but for the exceptions named `...AsBuilt`, and is the reserved code never made? | 3 trits, container -32..31; two variables, three initial words one of which holds the reserved code; counts 0..4 (below, at and above the width); literals at both ends of the container |
| `runtime_wide` | the same when values overflow the container, and when loads, stores and other code that writes the memory come in between: are words moved bit for bit? | 2 trits (values to 4), container -4..3, one cell of memory; `mixed` has 3 trits that overflow |
| `parser` | exactness, justified rejection and termination, on every string | all strings of up to 5 of 7 character classes, container -8..7: a number overflows at its third digit, so that an overflow can be followed by a digit that brings the accumulator back into range, by a separator or by an invalid character |
| `pass` | meaning, temporaries, statistics, cache and termination | every statement form alone, all sequences of 3 of those that share state, all sequences of 3 of nine that read each other's results, one of them in the variable numbered just before the temporaries, and all pairs of ternary comparisons; no options, `lower` alone, and all options; 3 trits; values with zero, negative, large and reserved words |
| `mixed` | what do programs keep of the ABI's promise when their objects run different bodies of a helper, with vectors and with the division trap? | 3 trits, container -8..7 (values to 13, so that both exact and wrapped results occur), `int` -4..3; two variables, three initial words, one with a reserved top trit; counts 0..4; both libraries |
| `toolchain` | does a whole compilation, linked with a library that can be built, compute what the source says, and does it end with a true report? | 3 trits, container -32..31, `int` -16..15; units of one statement of each form, functions of two statements from a nested expression, all pairs of statements that read and write one another's variables, and units of 2 and 3 functions that share cache and counters; five argument lists; three GCCs, two of which are refused; the runtime, and the skeleton under two prefixes with and without wrappers |
| `parser_invalid_is_zero`, `parser_accepted_is_exact`, `pass_compare_keeps_name`, `pass_casts_use_helpers`, `pass_branch_zero_is_false` | a statement of the documentation that the code contradicts | the instances above |
| `runtime_xor_is_documented` | the exception `XorAsBuilt` of the promises, stated as the documents have it: it is violated | that of `runtime_narrow` |

In `toolchain` the program and its linked form are compared in 24 environments: words
with every trit code, and `int`s at both ends of the range, negative counts and
zero divisors.

The runtime's and the pass's bounds on trits are enough because every loop treats
all its trits alike except for the first and the last one, and 3 trits have a
first, a middle and a last. `runtime_wide` has 2, so that the memory fits in as well; 3 trits
that overflow are in `mixed`, whose contract is the same but for its named exceptions. The pass's sequences of 3 are enough because the
cache and the counters relate a statement to one earlier statement at a time.

The properties, where they are stated in the modules:

* `ImplementsAbstract` (`TernaryRuntime`): refinement of `AbstractTernary` under
  the mapping that takes a word to its unbounded value and to whether it is
  canonical. It says nothing in favour of the exceptions: the promise is there what the code does.
* `XorIsDocumented` (`TernaryRuntime`): the xor of two words is the documented function of their
  trits, which the code violates. `XorDeviates` says for which trits.
* `ReservedOnlyFromOutside`: a word with the reserved code is bit for bit a word
  that came from outside.
* `RepresentableIsExact`, `RejectionJustified`, `ParseTerminates` (`BtStrParser`).
* `MeaningKept`, `TempsDefinedOnce`, `CountsMatchCode`, `SelectsOwnType`,
  `PassTerminates` (`PassMeaning`).
* `ProgramMeaning` (`PassMeaning`): the code of a whole stretch of statements, run after
  one another, gives every variable the number the source gives it. `MeaningKept` says so of
  one statement whose variables hold the same words on both sides; here they may hold other
  codes for the same number, as `x` and `x + 0` do.
* `ImplementsContract`, `SourcesAgree`, `MixedReservedOnlyFromOutside` (`MixedRuntime`):
  refinement of `MixedContract`; bit for bit agreement of all sources that define
  the pending call, on every reachable word, but for `KnownToDiffer`; no mixture
  makes a reserved code.
* `ImplementsPass` (`Toolchain`): compiling function by function refines one walk of
  `TernaryPass` over the unit, under the mapping that appends the functions not
  yet entered to `todo` and the arguments not yet read to `opt`.
* `ReportMatchesUnit`, `CompilationEnds` (`Toolchain`): every statement of every
  function was visited, and the numbers printed are those of the code that came
  out; every compilation is refused or ends with the report it was asked for.
* `HelpersDefined`, `OperandsFit` (`ToolchainLink`): a helper that is called is in the
  library exactly when it is not in `Missing`; it is passed what its definition
  takes unless the call is in `Mispassed`. Both lists are part of the statement, so
  that a helper leaving or joining them shows. What a call of a builtin passes follows its
  prototype (`Prototyped`: `include/ternary.h:25-49`), which the pass never looks at.
* `LinkedMeaning` (`ToolchainLink`): the calls left for a statement compute what it
  means, with any library and with or without the inline bodies. The statement's operands must
  have values of their types (`WellTyped`): a word in a ternary variable, an `int` in an `int`. In
  the environments of the run they always do.
* `LinkedProgram` (`ToolchainLink`): the same for a whole stretch of replaced statements, nested
  expressions among them, from any words in its variables. It is to `LinkedMeaning` what
  `ProgramMeaning` is to `MeaningKept`: a word one body leaves is read by the next, which may be
  of another source. The header's xor is the one exception.
* In `MeaningKept`, `ProgramMeaning`, `LinkedMeaning` and `LinkedProgram` an xor means the libraries'
  sum modulo 3. They say that no step between source and result changes what the libraries make of
  it, and not that it is what `docs/SPECIFICATION.md:115` defines, which it is not.
* `NestedExpressions` (`ToolchainLink`): which operators on `t32_t` are replaced and which are left
  to binary arithmetic, when the types are the plugin's and when they are not.

`MeaningKept` leaves out what is known to go wrong or has no stated meaning: a
ternary constant the plugin cannot represent, a call that hands a helper a
raw constant or a shift a ternary count (`RawOperand`), and operands of type `unsigned long`,
which are words to the helpers whatever they mean to the program. The run
`pass_branch_zero_is_false` shows the second of these.

**Fairness.** The parser and the pass are each one sequential loop. `WF_vars(Next)`
says that a running program executes its next instruction; nothing stronger is
assumed. `ToolSpec` has the
same for the compilation: GCC goes on with a compilation it has started.
The runtime has no liveness property: every helper is one action, and
a program need never call one.

**Deadlock** is checked for the runtime, whose programs never stop. The parser, the
pass and the compilation do stop, at the end of the string, of the statements and
after the report or the refusal, so it is disabled there; `ParseTerminates`,
`PassTerminates` and `CompilationEnds` say that they stop only there. A program of
`MixedRuntime` stops when it traps, and the refinement says when it may.

## 4. What is proved

All theorems hold for every value of the constants that satisfies these
assumptions, which TLC evaluates in the runs:

* `MaxIntAssumption`, `TritsAssumption`: a container of at least 3 bits, at least one trit.
* `RuntimeAssumption`: foreign words are packed words, shift counts and literals C integers.
* `PassAssumption`: programs are sequences of statements the gimplifier can leave
  (`SourceStmt`: no runtime calls yet, constants of ternary type that fit the container, variables
  the pass has not made; `Gimplified`: an operator has its operands, a `COND_EXPR` arms of the layout
  of its result, a comparison no ternary result, and a conversion changes a layout), options are sets of the flags
  `parse_args` knows.
* `EnvironmentAssumption`: an environment gives a value to every variable of the source, and to none
  that the pass makes (`FirstTemp` on). The values themselves are arbitrary.
* `ToolAssumption`: units are such functions, arguments are pairs of strings, and only the
  skeleton can be built under another prefix (`TERNARY_RUNTIME_PREFIX`).
* `ShortAssumption`: an `int` is no wider than an `int64_t`.
* `PrototypeAssumption`: the builtins of a unit are declared as in `include/ternary.h:25-49`, for
  these types or for others: operands and result of one type, but for the comparisons' result and
  a shift's count.

| theorem | states |
|---|---|
| `RuntimeTypes` | `TypeOK` of `TernaryRuntime`: words stay packed words, and integers `int64_t`s, through every sequence of calls |
| `RuntimeMakesNoReserved` | `ReservedOnlyFromOutside` |
| `MixedMakesNoReserved` | `MixedReservedOnlyFromOutside`: the same for all mixtures of the three sources, with vectors |
| `MixedSourcesAgree` | `SourcesAgree`: on every reachable word all sources of a helper return the same bits, but for `KnownToDiffer` |
| `MixedImplementsContract` | `ImplementsContract`: whichever body each call runs, and with vectors, a mixed program implements `MixedContract`, which has the exceptions of `AbstractTernary` and its own |
| `XorDeviates` | the libraries' xor of two trits is the documented one exactly where one trit is the negative of the other |
| `RuntimeImplementsAbstract` | `ImplementsAbstract`: for every trit count and container the runtime implements `AbstractTernary`, in which xor, `txor`, `tequiv`, `tnet` and a `tround` of all trits are promised as built |
| `EncodeReduces`, `DecodeFits` | `ternary_encode` keeps a value's residue in the range of the word; `ternary_decode` returns every value that fits `int64_t` |
| `ParserTypes` | `TypeOK` of `BtStrParser` |
| `ParserExact`, `ParserShortExact` | `RepresentableIsExact`, `ShortStringsExact`: for every width of the accumulator and every length of string; with 64 bits every string of up to 40 digits is exact |
| `ParserRejectionJustified` | the action property `RejectionJustified` |
| `PassTypes` | `TypeOK` of `PassMeaning`, with the operands of every emitted statement |
| `PassSelectsOwnType` | `SelectsOwnType`, for every program and set of options |
| `PassCountsMatchCode` | `CountsMatchCode`: the three counters against the code left behind |
| `PassTempsDefinedOnce` | `TempsDefinedOnce` |
| `PassMeaningKept` | `MeaningKept`: what the pass puts in place of an operator computes what the operator means, `^` being the libraries', for every value of the variables |
| `PassProgramMeaning` | `ProgramMeaning`: so does a program of any length, each statement reading what the ones before it left |
| `ToolchainReports` | `ReportMatchesUnit`, for every unit and list of arguments |
| `CompilationIsWalk` | `ImplementsPass`: `Toolchain` implements `TernaryPass`, initial states and steps |
| `LinkDefined` | `HelpersDefined`, for every unit, both libraries and every prefix |
| `HelpersTakeOperands` | `OperandsFit`, for every unit and list of arguments |
| `LinkedKeepsMeaning` | `LinkedMeaning`, for every unit and list of arguments, both libraries, and with or without the header's bodies; xor is the libraries' |
| `LinkedUnitMeaning` | `LinkedProgram`: so does a linked program of any length, whichever bodies its calls run |
| `NestedAreSeen` | `NestedExpressions`, for every unit, list of arguments and set `Inner` of gimplifier temporaries |
| `HeaderComputes`, `IntExact` | the header's helpers on words, but for xor, return the runtime's words; the helpers on `int` compute what fits an `int`, xor the sum modulo 3 |
| `DecodeRun`, `LoopExists` | the states of `ternary_decode`'s loop exist and are `int64_t`s, for every trit count |

The arguments:

* **Loops.** A loop of `Trits` iterations is a recursive function, of which TLAPS knows
  nothing but its `CHOOSE`. `LoopExists` and `EndlessLoopExists` show that the function of a
  loop's states exists, by induction over the iteration (`SetInduction`, from the
  well-foundedness of the order on the naturals), and `LoopUnique` that it is the only one.
* **Runtime.** `TypeOK` and `ReservedOnlyFromOutside` are inductive together. A
  helper that computes returns a canonical word (`TritWordProofs`: everything
  built by `FromTrits` is canonical, whatever the trits are); a helper that moves
  returns a word that was already there. `TypeOK` needs that decoding yields an
  `int64_t` (`DecodeRun`).
* **Digits.** A sum of digits times the powers of a radix has those digits and no other
  integer of its range has (`SumDigits`, `SumUnique`). Trits raised by one are digits to the base 3, so the
  trits of a word are the digits of its value, and decide it (`ValueDigits`, `DigitsDecide`). In
  `ternary_encode` the digits emitted plus what is left, weighed, are always the value
  (`EncodeInvariant`): the word stands for the value modulo `3^Trits`. In `ternary_decode` both running
  variables may wrap; they stay equal to the exact ones up to a multiple of `2^64`
  (`DecodeWraps`), and two `int64_t`s that differ by such a multiple are the same.
* **Runtime, refinement.** Helper by helper, the value of the word returned is one the abstract call
  promises (`WordKept`, from `ArithmeticKept` to `RoundKept`). What goes through
  `int64_t` needs `PromiseKept`: if operands and result fit, `Encode` gets the exact result, else
  everything is promised. What works on trits needs that a word with the promised digits is
  the one `CHOOSE` names (`DigitsDecide`); the exceptions are promised as what the runtime computes and add nothing to prove about the documents. Negating every trit negates the value
  (`NotNegates`), a shift to the left multiplies and reduces (`ShiftLeftReduces`), the highest
  trit that is not 0 is the sign (`SignIsSign`). `StepMapped` then has one case per action. The
  types are the only invariant needed: the promise is made of any words, reserved codes
  included.
* **Mixed programs.** The skeleton and the header compute on containers, the
  runtime's model on arrays of codes. `WrittenPacks` and `PackingCodes` say that a loop of
  `set_trit`s makes the container `BitsOf` gives the array, and that each code can be read
  back from it; then decode, encode and normalise agree iteration by iteration, and helper
  after helper returns the same word (`SkeletonComputes`, `HeaderComputes`). The
  agreement needs no more of a state than its types. That no code 3 is made needs that what each
  body writes is canonical, the skeleton's faulty `tround` included, and that the lanes of a
  vector are joined and split without mixing trits (`JoinLanes`).
* **Mixed programs, refinement.** Where the bodies agree a call keeps the promise the runtime keeps
  (`MixedWordKept`, from `WordKept`), and each lane of a vector is a scalar call of its own
  (`LaneKept`). Only the three helpers that differ need numbers again: the header's xor is the
  promised function of the digits (`InlineXorKept`), a word whose trits are all `q` has the value
  `q * Half` (`UniformValue`), and the trits from `k` on are a number of their own, the nearest to
  the value divided by `3^k`, under `k` trits of -1 (`UpperTrits`, `RoundedValue`). A trap needs
  `INT64_MIN / -1`, whose quotient does not fit `int64_t` (`TrapAllowed`).
* **Parser.** Exactness alone is not inductive, for after an overflow nothing
  relates the accumulator to the digits. What saves it is that a number that has
  left the container can never come back: `FoldStaysOutside`. The invariant
  `IInv` adds that the magnitude of the number is bounded by the number of digits
  read, which gives `ParserShortExact`.
* **Pass, selects.** `SelectsOwnType` is about code already emitted and says nothing of
  the cache it came from. `CacheOwn` does: an entry of the cache holds the
  declaration of its own key, or nothing. It is preserved because a select and a
  ternary comparison never share a key.
* **Pass, statistics.** Every action leaves exactly one group of code for exactly one
  statement (`StepCounted`), and raises the counter that says whether the group is the
  statement unchanged. `CountInv` relates the counters to cardinalities over `done`;
  `CountsAppended` carries them over the appended group.
* **Pass, temporaries.** That no temporary is written twice needs that all written so far lie
  below the next number, and that one read was written earlier in the flattened code
  (`TempInv`); `AppendStatement` carries both over one statement, of which a group has at most
  two. `StepNumbers` shows of each action that it numbers what it makes.
* **Pass, meaning.** `MeaningKept` is about the group the last step appended, so it is preserved
  by each action on its own, given that statements are what gimplification leaves (`IInv`) and
  that a temporary is no variable of the source (`TempInv`), whose value would be overwritten.
  Running a group of one or two statements is unfolded once (`RunOne`, `RunTwo`). A folded
  constant is right because packing and unpacking give back the source's integer (`PackedIs`,
  `ConstantUnpacked`) and the fold wraps as the helper does; a simplified operand need only decode
  to what the helper's result decodes to, which is a fact about what an operation encodes and
  decodes again (`DecodedIs`, `DecodeExact`). A call means what its helper computes from
  the words its operands are (`CallMeans`, `HelperMeans`), a select what the source's condition
  decides, for the cached declaration is of the type of the result (`SelectDeclOwn`).
* **Pass, programs.** `ProgramMeaning` is an induction over the statements. The source's variables
  and the emitted code's need not hold the same words, only words of the same number (`Agrees`),
  and where every word's value fits `int64_t` that decides every digit (`SameValueSameTrits`), so
  an operator makes words of the same number of them (`SameFromSame`). To go on from there,
  what a group computes must be known from the values its operands have *then*, not from those at
  the start: `KeptBy` keeps, beside `MeaningKept`, that the group means its statement in every
  environment (`Means`), and that it writes its own result and temporaries only (`AgreesMore`).
  Running the code of several groups is running one after the other (`RunAppend`, by the
  uniqueness of the states of a run, `WalkUnique`). `ProgramInv` keeps
  the agreement of all groups so far, and that no variable of the source is a temporary.
* **Compilation.** What is passed, what is left of the current function and what the functions to
  come will be are together the unit, as the pass sees it (`Covered`); the stages say which
  arguments are read and what the report holds (`Stages`). At the end nothing is left, which is
  `ReportMatchesUnit`.
* **Refinement.** `Walk` is `TernaryPass` with `todo` and `opt` replaced. Reading an
  argument, starting the unit and entering a function leave both replacements as they were
  (`FlagsRead`, `AheadIs`): they are stutters. A step of the pass takes the first statement of the
  longer walk; it is the same action there, since everything else an action reads is the same
  (`SameStep`, one case per action). Arguments must not be left when the pass steps, else the
  walk would have more options than the pass: that is in `Stages`.
* **Link.** `HelpersDefined` looks at the calls of one statement, some of them to declarations
  cached many statements ago. `CallInv` says of all calls and of all cache entries that they
  ask for a helper of `Callable`, the names the pass's own tables can build; it is found case by
  case (`BuiltinCallable`, `StepCalls`) and then compared with the lists of definitions
  (`DefinedOrMissing`). The equivalence goes both ways: a helper listed in `Missing` is
  defined nowhere.
* **Operands.** `OperandsFit` is about one call; what it is passed was decided by the statement's
  types, and for the ternary comparisons by the statement that filled the cache. `FitInv` says
  that every group fits the statement it came from, that the statements still to come are as
  their prototypes have them - the pass sees some of them with `unsigned long` for `t32_t`, which is
  passed alike (`SeenPrototyped`) - and that the comparison cached for a type is one of
  that size, though not the one asked for (`CompareOwn`).
* **Linked program.** `MeaningKept` runs every helper with the reference runtime's body; the linked
  program may run another. The code left for a statement calls at most one helper that has
  several bodies, on words in operands of the source (`Links`, found action by action in
  `StepLinks`), and those bodies return the same word (`BodiesAgree`, from `SkeletonComputes`,
  `HeaderComputes` and `ScalarsCompute`), so running either is the same (`GroupLinked`). The
  exceptions are those of the property: a raw operand, whose word may be none, and the header's
  xor. The builtins on `int` become one call each on their own operands (`IntCall`), and its helper
  is exact where the result fits: the register wraps back (`WrapToIdentity`), the shift's loop
  reaches the power of 3 (`ShiftPowerIs`), and the trit congruent to a sum is unique (`XorIs`).
  `LinkInv` keeps both for the group passed last, together with `MeaningKept` and `TempInv`.
* **Linked stretches.** `GroupLinked` needs words in the operands at the moment the group runs, and what
  runs before it is linked code too. So `LinkedProgramInv` keeps two things of the linked code of
  the statements so far: it agrees with the source (`Agrees`), and every ternary variable of the
  source still holds a word. The second follows from what a group leaves: a result that is a word
  if its operands were (`IsMeant`, `WordsMore`). Then a group links as the reference runtime
  runs it, and `AgreesMore` carries the agreement on. `LinkedMore` runs one group after the others,
  as `RunAppend` does for the unlinked code.
* **Nested expressions.** At the end only source statements and `done` can be compared; what was
  decided in between depended on `opt`, which no step of the pass changes. `DecidedInv` says of every
  statement passed that it was rewritten exactly if the types the pass saw ask for it (`Decided`); a
  step shows it with the counter, which `StepCounted` ties to the code. With `FinishedCovers` and
  what `Known` makes of a type, that is the property.

**Only model-checked**, being out of the prover's reach: the three liveness properties
`ParseTerminates`, `PassTerminates` and `CompilationEnds`, as TLAPS handles neither fairness nor
`ENABLED`.

## 5. Where the code and the documentation disagree

Checked by the runs expected to end in a violation:

1. An invalid string returns the container 0, which decodes to the most negative
   number; `docs/SPECIFICATION.md:78` says it returns zero.
2. The parser's overflow test looks only at the bound on the digit's own side: an
   accumulator far below zero followed by a 0 or a +1 overflows and is accepted.
   The accepted number is then not the one the digits spell.
3. `get_ternary_cmp_decl` caches one declaration for `cmplt`, `cmpeq`, `cmpgt` and
   `cmpneq`: the first one used in a translation unit replaces the others.
4. A cast of an integer variable to a ternary type meets the mixed-type test
   before the conversion helper and is left as it is.
5. Constants are packed and then the statement's own operands are used
   again: a branch on `x != 0` compares `x` with the container 0.
6. `docs/SPECIFICATION.md:115` defines `txor(a,b)`, "stable and documented", as 0 if the trits are
   equal and else the negative of the one that is not 0; line 534 gives the xor builtins and helpers
   those semantics. Both libraries add the trits modulo 3
   (`ternary_trit_xor`, `runtime/ternary_runtime.c:114`), in `^`, in `__ternary_xor_tN` and
   on `int`: another result for two equal trits that are not 0 and for one trit that is 0.
   `tests/test_ternary_logic.c:82-91` expects what the code does. `docs/MASTER_ISA.md:53-58` has a third
   function: "a + b mod 3", with 0 for equal trits (`XorIsDocumented`; `XorDeviates` has the trits on which they differ).

Promised as built in `AbstractTernary`, under these names, and so no failure of `ImplementsAbstract`,
`ImplementsContract` or the theorems about them:

7. `TxorAsBuilt`: `__ternary_txor_tN` (`runtime/ternary_runtime.c:432`) looks at the signs of whole
   words and returns one trit, where `docs/SPECIFICATION.md:153` lists it among the tritwise operations; and
   even of single trits it is neither the function of line 115 nor the sum modulo 3: equal signs
   give -1, exactly one 0 gives 1.
   `tests/test_logic_helpers.c:114-116` expects that.
8. `EquivAsBuilt`: `__ternary_tequiv_tN` (403) looks at the signs too; line 154 calls it tritwise.
9. `NetAsBuilt`: `__ternary_tnet_tN` (1230) returns the value of the word, as `tt2b` does; line 169 and
   `docs/MASTER_ISA.md:89` say it is count(+1) - count(-1). They are the same for a word whose trits above the lowest are 0.
   `tests/test_logic_helpers.c:47` expects the value: 2 for the word +1 -1, whose count is 0.
10. `RoundAllAsBuilt`: `tround` of all trits (210) returns the container 0, the most negative word;
    line 167 says it drops trits with symmetric rounding, which leaves nothing.
11. `XorAsBuilt` (in `PassMeaning` and, for `int`, `IntXorAsBuilt` in `ToolchainLink` too): number 6.

Of a `t64_t` word beyond `int64_t` a helper that decodes promises nothing; there `__ternary_not_tN` (1018), which goes through
`int64_t`, does not invert every trit, as line 107 has it. `__ternary_tnot_tN` does.

Stated in the passing runs as the exceptions the properties name:

12. The header's `^` on words and ints is the negated sum of the trits, the libraries'
   the sum modulo 3 (`KnownToDiffer`, `InlineXor`, `RunsInlineXor`). The header's agrees with
   the document where one trit is 0, and differs for two equal ones that are not; no source agrees for both.
13. The skeleton's `tround` leaves -1 in the trits it vacates, and its `tquant` fills every
   trit (`SkeletonRound`, `KnownToDiffer`). `docs/SPECIFICATION.md:297-299` and 332-333 ask
   for bit-for-bit compatible implementations.
14. A conditional expression of type `_Bool` calls `select_u1`, which no library defines
   (`Missing`); of the skeleton's ABI, the selects of C types, `not_tN`, the `cmplt`
   family and the float conversions are missing too.
15. The skeleton with its compatibility wrappers, whatever its prefix,
   defines `tmin`, `tmax`, `tmaj`, `tlimp` and `tquant` twice and does not compile
   (`Buildable`); `runtime_skeleton/run_tnn_demo.sh:7` misspells the macro that leaves
   the wrappers out.
16. Of the builtins, `eq` to `ge`, `neg` and `not` on words, and all of them on wider
    integers, go to the helpers on `int`; `tb2t` passes an `int` where the helper takes an
    `int64_t`; `select` passes its condition undecoded (`Mispassed`).
17. Where `t32_t` is a typedef, the operators inside a nested expression are left to
    binary arithmetic on the containers, with neither a warning nor a count
    (`NestedExpressions`).

Noticed while modelling and not turned into runs, for want of a statement precise
enough to check: stores are never lowered, because calls without a result are skipped; a shift by
an `int` is left as mixed types, a shift by a ternary count hands the container to
a helper that expects an `int`; the vector builtins have no lowering, and
`get_ternary_vector_type_trits` recognises no vector type by name, for its body returns
false before it records one (`src/ternary_plugin.cpp:241`);
`runtime_skeleton/test_runtime_skeleton.c:187` expects the skeleton's `txor`.

## 6. What is not modelled, and why

* Conversions to and from floating point: rounding of IEEE numbers has no useful
  small instance. `f2t` is a truncation followed by `Encode`.
* `t128_t`: compiled only with `_BitInt(256)`; the same loops as `TritWord`, but
  its `tmux` looks at the sign of the word instead of its decoded value.
* The self test of the plugin: it runs before GCC's types exist, and what it does to the
  declaration cache depends on what GCC's type nodes are then.
* Vector types and `COND_EXPR`s nested in operands in the pass: the first are never
  recognised by name, the second do not exist after gimplification.
* The header's copy of the parser, which is the runtime's text; its float
  conversions; the `TERNARY_USE_ISA_ASM` bodies, instructions of a machine that does
  not exist.
* Loads, stores and foreign writes in `MixedRuntime`: `runtime_wide` has them for the
  only source that defines them.
* The length of a helper's name (`name_buf[32]`).
* GCC itself: gimplification, statement iterators, temporaries and the pass manager
  are modelled from how the pass uses them.
* Scripts, examples, the TNN demo and the placeholder `runtime/ternary_runtime_opt.c`: no
  state of the system.

## 7. What is left

Words, ABI, parser and pass; the three sources of helpers and programs that mix them; vectors;
the compilation and the link are modelled and checked. Proved are all their invariants and action
properties, and the three refinements. What would come next is model rather than proof: a
program that passes words between two units compiled with different arguments, a stretch in which
some statements were left alone, and words whose values overflow `int64_t`, of which `ProgramMeaning`
and `LinkedProgram` say nothing (`ValuesFit`).
