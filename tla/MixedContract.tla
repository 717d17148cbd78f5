---------------------------- MODULE MixedContract ----------------------------
(***************************************************************************)
(* AbstractTernary for a program whose helpers come from more than one     *)
(* source: what is left of its promises when a call may run the inline     *)
(* body of the header or the skeleton's, what the vector helpers add, and  *)
(* when a division may stop the program.                                   *)
(***************************************************************************)
EXTENDS AbstractTernary

VARIABLES library, trapped

mixedVars == <<vars, library, trapped>>

-----------------------------------------------------------------------------
(* The exceptions of AbstractTernary stand, for both libraries.  The       *)
(* header's xor is one more: of two trits it is the opposite of the sign   *)
(* of their sum, which differs from what the libraries do (XorAsBuilt),    *)
(* and for two equal trits other than 0 from docs/SPECIFICATION.md:115 too. *)
InlineXor(x, y) == OfDigits(LAMBDA i : -SignOf(Digit(x, i) + Digit(y, i)))

(* The skeleton's tround rounds to the nearest, never through int64_t, and *)
(* leaves -1 in each of the digits it vacates.                             *)
Nearest(x, d) == (x + (d - 1) \div 2) \div d
SkeletonRound(x, drop) ==
  LET k == IF drop < Trits THEN drop ELSE Trits
  IN Nearest(x, Pow3[k]) - (Pow3[Trits] - Pow3[Trits - k]) \div 2

MixedPromise(c) ==
  CASE c.op = "xor" -> WordPromise(c) \cup {InlineXor(val[c.a], val[c.b])}
    [] c.op = "tround" /\ library = "skeleton" -> {SkeletonRound(val[c.a], c.k)}
    [] c.op = "tquant" /\ library = "skeleton" -> {c.k * Half}
    [] OTHER -> WordPromise(c)

MayTrap(c) ==
  LET x == val[c.a]  y == val[c.b] IN
  /\ c \in WordCalls /\ c.op \in {"div", "mod"}
  /\ ~(Fits(x) /\ Fits(y) /\ Fits(Quotient(x, y)))

(* A vector helper does to both of its lanes at once what the scalar one   *)
(* of the same name does (cmp what cmplt does).                            *)
ScalarName(vec) ==
  CASE vec = "cmp" -> "cmplt"  [] vec = "tmin" -> "and"  [] vec = "tmax" -> "or"
    [] OTHER -> vec
OfLane(c, i) ==
  [op |-> ScalarName(c.vec), a |-> c.a[i], b |-> c.b[i], c |-> c.c[i], k |-> c.k]

-----------------------------------------------------------------------------
MixedInit == Init /\ library \in {"runtime", "skeleton"} /\ trapped = FALSE

Unmoved == UNCHANGED <<cellVal, cellClean, library>>

MixedCall ==
  /\ Call /\ call' \notin MemoryCalls
  /\ UNCHANGED trapped

MixedReturnWord ==
  /\ call \in WordCalls
  /\ Set(call.a, val'[call.a], TRUE)
  /\ val'[call.a] \in MixedPromise(call)
  /\ res' = 0 /\ call' = NoCall
  /\ UNCHANGED trapped

MixedReturn == (ReturnScalar \/ ReturnMove) /\ UNCHANGED trapped

Trap ==
  /\ call # NoCall /\ MayTrap(call)
  /\ trapped' = TRUE
  /\ UNCHANGED vars

CallVector ==
  /\ call = NoCall /\ library = "runtime"
  /\ call' \in VectorCalls
  /\ res' = 0
  /\ UNCHANGED <<val, clean, trapped>>

ReturnVector ==
  /\ call \in VectorCalls
  /\ \A i \in 1 .. 2 : val'[call.a[i]] \in WordPromise(OfLane(call, i))
  /\ \A r \in Reg : r \notin {call.a[1], call.a[2]} => val'[r] = val[r]
  /\ clean' = [r \in Reg |-> clean[r] \/ r \in {call.a[1], call.a[2]}]
  /\ res' = 0 /\ call' = NoCall
  /\ UNCHANGED trapped

MixedNext ==
  /\ ~trapped /\ Unmoved
  /\ \/ MixedCall \/ MixedReturnWord \/ MixedReturn \/ Trap \/ CallVector \/ ReturnVector

MixedSpec == MixedInit /\ [][MixedNext]_mixedVars
=============================================================================
