----------------------------- MODULE BtStrParser -----------------------------
(***************************************************************************)
(* ternary_parse_bt_str, the loop behind __ternary_bt_str_t32/_t64/_t128   *)
(* and the T32_BT_STR / T64_BT_STR literals: it reads a string of balanced *)
(* ternary digits, most significant first, into an int64_t accumulator and *)
(* rejects the string before the accumulator would overflow.               *)
(*                                                                         *)
(* One action per way through the loop body.  A character is abstracted to *)
(* the classes the code tells apart; the six blank characters are "blank". *)
(*                                                                         *)
(* Ghost variables (read by no guard): exact is the number the digits read *)
(* so far spell in unbounded arithmetic, pow is 3^(digits read).           *)
(***************************************************************************)
EXTENDS TritWord, Sequences, SequencesExt

CONSTANT MaxLen    (* bound on the length of the input string *)

ASSUME MaxLenAssumption == MaxLen \in Nat

Char == {"blank", "comma", "0", "1", "+", "-", "other"}

VARIABLES
  rest,     (* what s still points at; <<>> is the terminating NUL (or s == NULL) *)
  acc,      (* the accumulator *)
  saw,      (* a digit was read *)
  status,   (* "scan" in the loop, "ok" after return 1, "fail" after return 0 *)
  exact,    (* ghost *)
  pow       (* ghost *)

vars == <<rest, acc, saw, status, exact, pow>>

Init ==
  /\ rest \in BoundedSeq(Char, MaxLen)
  /\ acc = 0 /\ saw = FALSE /\ status = "scan"
  /\ exact = 0 /\ pow = 1

-----------------------------------------------------------------------------
(* The guards of the loop's three digit forms and its skipped characters.  *)
Separator == rest # <<>> /\ Head(rest) \in {"blank", "comma"}

SignedOne(sign) == Len(rest) >= 2 /\ rest[1] = sign /\ rest[2] = "1"

(* The token at the front of the string spells trit and is n characters.   *)
Token(trit, n) ==
  /\ rest # <<>>
  /\ \/ Head(rest) = "0" /\ trit = 0  /\ n = 1
     \/ Head(rest) = "1" /\ trit = 1  /\ n = 1
     \/ SignedOne("+")   /\ trit = 1  /\ n = 2
     \/ SignedOne("-")   /\ trit = -1 /\ n = 2

IsToken == \E trit \in -1 .. 1, n \in 1 .. 2 : Token(trit, n)

(* The overflow test before the digit is folded in: only the bound on the  *)
(* digit's own side is looked at.                                          *)
WouldReachBound(trit) ==
  IF trit >= 0 THEN acc >= CQuot(MaxInt - trit, 3)
               ELSE acc <= CQuot(MinInt - trit, 3)

WouldOverflow(trit) ==
  IF trit >= 0 THEN acc > CQuot(MaxInt - trit, 3)
               ELSE acc < CQuot(MinInt - trit, 3)

(* What folding in a digit makes of the accumulator and of saw. *)
FoldLeastFirst(trit) == Wrap(acc + trit * pow)
Fold(trit) == Wrap(acc * 3 + trit)
SawNonZero(trit) == saw \/ trit # 0
Saw(trit) == TRUE

-----------------------------------------------------------------------------
(* Moving past a separator. *)
SkipBlankOnly == IF Head(rest) = "blank" THEN Tail(rest) ELSE rest
Skip == Tail(rest)
SkipSeparator ==
  /\ status = "scan" /\ Separator
  /\ rest' = Skip
  /\ UNCHANGED <<acc, saw, status, exact, pow>>

AcceptDigit ==
  /\ status = "scan"
  /\ \E trit \in -1 .. 1, n \in 1 .. 2 :
       /\ Token(trit, n)
       /\ ~WouldOverflow(trit)
       /\ rest' = SubSeq(rest, n + 1, Len(rest))
       /\ acc' = Fold(trit)
       /\ exact' = exact * 3 + trit
       /\ saw' = Saw(trit)
  /\ pow' = 3 * pow
  /\ UNCHANGED status

(* Ghosts keep the rejected digit: exact is then the number that did not fit. *)
RejectOverflow ==
  /\ status = "scan"
  /\ \E trit \in -1 .. 1, n \in 1 .. 2 :
       /\ Token(trit, n)
       /\ WouldOverflow(trit)
       /\ rest' = SubSeq(rest, n + 1, Len(rest))
       /\ exact' = exact * 3 + trit
       /\ saw' = Saw(trit)
  /\ pow' = 3 * pow
  /\ status' = "fail"
  /\ UNCHANGED acc

RejectCharacter ==
  /\ status = "scan" /\ rest # <<>> /\ ~Separator /\ ~IsToken
  /\ status' = "fail"
  /\ UNCHANGED <<rest, acc, saw, exact, pow>>

Finish ==
  /\ status = "scan" /\ rest = <<>>
  /\ status' = IF saw THEN "ok" ELSE "fail"
  /\ UNCHANGED <<rest, acc, saw, exact, pow>>

Next == SkipSeparator \/ AcceptDigit \/ RejectOverflow \/ RejectCharacter \/ Finish

Spec == Init /\ [][Next]_vars
FairSpec == Spec /\ WF_vars(Next)

(* What __ternary_bt_str_tN hands back once the parse is over: the value's *)
(* low Trits digits, or the container 0.                                   *)
BtStrResult == IF status = "ok" THEN Encode(acc) ELSE PackedZero

-----------------------------------------------------------------------------
(* The types, with saw true exactly when digits were read. *)
TypeOK ==
  /\ rest \in Seq(Char)
  /\ acc \in CInteger /\ exact \in Int
  /\ pow \in Nat \ {0}
  /\ saw \in BOOLEAN /\ (saw <=> pow > 1)
  /\ status \in {"scan", "ok", "fail"}

(* The accumulator is the number the digits spell whenever that number is  *)
(* an int64_t: no value the guards let through was already spoiled by an   *)
(* earlier overflow and then came back into range.                         *)
RepresentableIsExact ==
  (status # "fail" /\ exact \in CInteger) => acc = exact

(* Strings of up to 40 digits (3^40 < 2^64), so every literal of a t32_t, *)
(* parse exactly.                                                          *)
ShortStringsExact == (status # "fail" /\ pow <= 2 * MaxInt + 1) => acc = exact

(* The overflow test turns down a digit only when the number it would      *)
(* complete really is no int64_t.                                          *)
RejectionJustified ==
  [][status' = "fail" /\ pow' # pow => exact' \notin CInteger]_vars

(* Every string is parsed to the end or rejected. *)
ParseTerminates == <>(status # "scan")

(* docs/SPECIFICATION.md:78: "Invalid strings return zero."                *)
InvalidIsZero == status = "fail" => Decode(BtStrResult) = 0

(* docs/SPECIFICATION.md:66-68: the string is parsed as a balanced ternary *)
(* number; what is accepted then means that number.                        *)
AcceptedIsExact == status = "ok" => acc = exact
=============================================================================
