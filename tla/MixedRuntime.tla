----------------------------- MODULE MixedRuntime -----------------------------
(***************************************************************************)
(* A program built from several objects: it is linked with one library,    *)
(* the reference runtime or the skeleton (with the prefix __ternary_), and *)
(* some of its objects were compiled with include/ternary_helpers.h.  Each *)
(* call runs the body its object was given, the header's where it has one, *)
(* else the library's, and the words travel from body to body.             *)
(*                                                                         *)
(* This is TernaryRuntime with the body of every call chosen anew, without *)
(* its memory, with the vector helpers of the runtime, and with the trap   *)
(* of INT64_MIN / -1 and INT64_MIN % -1 that x86 builds take.              *)
(***************************************************************************)
EXTENDS TernaryRuntime, HelperImplementations

VARIABLES
  library,   (* "runtime" or "skeleton" *)
  trapped    (* the program was stopped by SIGFPE *)

mixedVars == <<vars, library, trapped>>

MixedInit ==
  /\ Init
  /\ library \in {"runtime", "skeleton"}
  /\ trapped = FALSE

-----------------------------------------------------------------------------
HelperName(c) == IF c.op = "tb2t_res" THEN "tb2t" ELSE c.op
Sources == {"runtime", "skeleton", "inline"}
Defining(c) == {s \in Sources : <<HelperName(c), "t32">> \in HelpersOf(s)}

(* The bodies an object of this program may have been given for a call. *)
Providers(c) == Defining(c) \cap {library, "inline"}

(* The integer operand: a literal or the last result. *)
IntOperand(c) == IF c.op = "tb2t_res" THEN res ELSE c.k

WordFrom(source, c) ==
  LET x == regs[c.a]  y == regs[c.b]  z == regs[c.c]  k == IntOperand(c)
  IN CASE source = "runtime"  -> IF c.op \in TypeOps THEN TypeOpResult(c) ELSE IsaOpResult(c)
       [] source = "skeleton" -> SkeletonWord(HelperName(c), x, y, z, k)
       [] source = "inline"   -> HeaderWord(HelperName(c), x, y, z, k)

ScalarFrom(source, c) ==
  CASE source = "runtime"  -> ScalarResult(c)
    [] source = "skeleton" -> SkeletonScalar(c.op, regs[c.a], regs[c.b])
    [] source = "inline"   -> HeaderScalar(c.op, regs[c.a], regs[c.b])

(* Every body divides the decoded operands in int64_t, after the same test *)
(* for a divisor of 0.                                                     *)
TrapsAtZero(c) ==
  /\ c \in WordCalls /\ c.op \in {"div", "mod"}
  /\ \/ Decode(regs[c.b]) = 0
     \/ Decode(regs[c.a]) = MinInt /\ Decode(regs[c.b]) = -1
Traps(c) ==
  /\ c \in WordCalls /\ c.op \in {"div", "mod"}
  /\ Decode(regs[c.a]) = MinInt /\ Decode(regs[c.b]) = -1

-----------------------------------------------------------------------------
Running == ~trapped /\ UNCHANGED <<mem, library>>

MixedCall ==
  /\ Running /\ call = NoCall
  /\ call' \in WordCalls \cup ScalarCalls \cup MoveCalls
  /\ Providers(call') # {}
  /\ res' = IF call'.op \in ReadsRes THEN res ELSE 0
  /\ UNCHANGED <<regs, trapped>>

MixedReturnWord ==
  /\ Running /\ call \in WordCalls /\ ~Traps(call)
  /\ \E source \in Providers(call) :
       regs' = [regs EXCEPT ![call.a] = WordFrom(source, call)]
  /\ res' = 0 /\ call' = NoCall
  /\ UNCHANGED trapped

MixedReturnScalar ==
  /\ Running /\ call \in ScalarCalls
  /\ \E source \in Providers(call) : res' = ScalarFrom(source, call)
  /\ call' = NoCall
  /\ UNCHANGED <<regs, trapped>>

(* The bodies of select are the same everywhere; only the runtime has tmux. *)
MixedReturnMove ==
  /\ Running /\ ReturnMove
  /\ UNCHANGED trapped

Trap ==
  /\ Running /\ call # NoCall /\ Traps(call)
  /\ trapped' = TRUE
  /\ UNCHANGED <<regs, res, call>>

CallVector ==
  /\ Running /\ call = NoCall /\ library = "runtime"
  /\ call' \in VectorCalls
  /\ res' = 0
  /\ UNCHANGED <<regs, trapped>>

VectorResult(c) ==
  LET w(v, i) == regs[v[i]]
      packed(v) == Join(w(v, 1), w(v, 2))
      struct(v) == [lo |-> w(v, 1), hi |-> w(v, 2)]
      vector == PackedLanes(c.vec, packed(c.a), packed(c.b), packed(c.c), c.k)
  IN IF c.struct THEN StructLanes(c.vec, struct(c.a), struct(c.b))
     ELSE [lo |-> Lane(vector, 0), hi |-> Lane(vector, 1)]

ReturnVector ==
  /\ Running /\ call \in VectorCalls
  /\ regs' = [regs EXCEPT ![call.a[1]] = VectorResult(call).lo,
                          ![call.a[2]] = VectorResult(call).hi]
  /\ res' = 0 /\ call' = NoCall
  /\ UNCHANGED trapped

MixedNext ==
  \/ MixedCall \/ MixedReturnWord \/ MixedReturnScalar \/ MixedReturnMove
  \/ Trap \/ CallVector \/ ReturnVector

MixedSpec == MixedInit /\ [][MixedNext]_mixedVars

-----------------------------------------------------------------------------
(* Whatever mixture of bodies a program runs, none of them makes the       *)
(* reserved code: only bit for bit copies of foreign words hold it.        *)
MixedReservedOnlyFromOutside ==
  \A r \in Reg : Canonical(regs[r]) \/ regs[r] \in RawWord

(* docs/SPECIFICATION.md wants every implementation of a helper to be bit  *)
(* for bit compatible with the helper ABI.  The three sources are, on all  *)
(* words reachable through any of them, reserved codes included, but for   *)
(* three helpers: the header's xor, and the skeleton's tround and tquant.  *)
KnownToDiffer(c, s, t) ==
  \/ c.op = "xor" /\ "inline" \in {s, t}
  \/ c.op \in {"tround", "tquant"} /\ "skeleton" \in {s, t}
SourcesAgree ==
  /\ call \in WordCalls =>
       \A s, t \in Defining(call) :
         WordFrom(s, call) = WordFrom(t, call) \/ KnownToDiffer(call, s, t)
  /\ call \in ScalarCalls =>
       \A s, t \in Defining(call) : ScalarFrom(s, call) = ScalarFrom(t, call)

(* Every sequence of calls, whoever provides the bodies, does what the ABI *)
(* promises of integers, with the three differences spelled out; a program *)
(* is stopped only by a quotient outside int64_t, which no t32_t has.      *)
Contract == INSTANCE MixedContract WITH
              val       <- [r \in Reg  |-> ExactValue(regs[r])],
              clean     <- [r \in Reg  |-> Canonical(regs[r])],
              cellVal   <- [a \in Addr |-> ExactValue(mem[a])],
              cellClean <- [a \in Addr |-> Canonical(mem[a])]

ImplementsContract == Contract!MixedSpec
=============================================================================
