-------------------------- MODULE BtStrParserProofs --------------------------
(***************************************************************************)
(* The string parser, for every container width and every input length.    *)
(*                                                                         *)
(* RepresentableIsExact alone is not inductive: after an overflow nothing  *)
(* relates acc to the digits.  What saves it is that a number that has     *)
(* left the container never comes back (each digit at least doubles its    *)
(* magnitude), and that the number of digits bounds the magnitude: IInv    *)
(* adds that bound and the types.                                          *)
(***************************************************************************)
EXTENDS BtStrParser, BaseProofs

IInv ==
  /\ TypeOK
  /\ 2 * Magnitude(exact) + 1 <= pow
  /\ RepresentableIsExact

(* The quotient of a non-negative number by 3, for the solver. *)
LEMMA Div3 ==
  ASSUME NEW n \in Nat
  PROVE  /\ n \div 3 \in Nat
         /\ 3 * (n \div 3) <= n
         /\ n <= 3 * (n \div 3) + 2
  BY Z3

(* A number that folding a digit in leaves representable was representable *)
(* before, and the overflow test lets the digit through.                   *)
LEMMA FoldStaysOutside ==
  ASSUME NEW e \in Int, NEW trit \in Trit, e * 3 + trit \in CInteger
  PROVE  e \in CInteger
  BY MaxIntAssumption DEF CInteger, MinInt, Trit

LEMMA OverflowTestSound ==
  ASSUME TypeOK, NEW trit \in Trit, acc * 3 + trit \in CInteger
  PROVE  ~WouldOverflow(trit)
<1> USE MaxIntAssumption DEF TypeOK, CInteger, MinInt, Trit
<1>1. CASE trit >= 0
  <2>1. MaxInt - trit \in Nat /\ ~(MaxInt - trit < 0)
    BY <1>1
  <2>2. acc <= (MaxInt - trit) \div 3
    BY <2>1, Div3
  <2> QED
    BY <1>1, <2>1, <2>2 DEF WouldOverflow, CQuot
<1>2. CASE trit = -1
  <2>1. MinInt - trit = -MaxInt
    BY <1>2
  <2>2. acc >= -(MaxInt \div 3)
    BY <1>2, Div3
  <2> QED
    BY <1>2, <2>1, <2>2, Div3 DEF WouldOverflow, CQuot
<1> QED
  BY <1>1, <1>2

-----------------------------------------------------------------------------
LEMMA InitIInv == Init => IInv
<1> SUFFICES ASSUME Init PROVE IInv
  OBVIOUS
<1>1. rest \in Seq(Char)
  BY MaxLenAssumption DEF Init, BoundedSeq, SeqOf
<1>2. acc = 0 /\ exact = 0 /\ pow = 1 /\ status = "scan" /\ saw = FALSE
  BY DEF Init
<1>3. acc \in CInteger /\ exact \in Int /\ pow \in Nat \ {0} /\ ~(pow > 1)
  BY <1>2, MaxIntAssumption DEF CInteger, MinInt
<1>4. 2 * Magnitude(exact) + 1 <= pow
  BY <1>2 DEF Magnitude
<1>5. TypeOK
  BY <1>1, <1>2, <1>3, Zenon DEF TypeOK
<1> QED
  BY <1>2, <1>4, <1>5 DEF IInv, RepresentableIsExact

LEMMA TokenType ==
  ASSUME TypeOK, NEW trit \in -1 .. 1, NEW n \in 1 .. 2, Token(trit, n)
  PROVE  SubSeq(rest, n + 1, Len(rest)) \in Seq(Char)
  BY DEF TypeOK, Token, SignedOne

(* Reading a digit, whether it is then folded in or turned down, keeps the *)
(* magnitude bound and the types of the ghosts.                            *)
LEMMA DigitBound ==
  ASSUME IInv, NEW trit \in -1 .. 1
  PROVE  /\ exact * 3 + trit \in Int
         /\ 3 * pow \in Nat \ {0} /\ 3 * pow > 1
         /\ 2 * Magnitude(exact * 3 + trit) + 1 <= 3 * pow
  BY DEF IInv, TypeOK, Magnitude

LEMMA NextIInv == IInv /\ [Next]_vars => IInv'
<1> SUFFICES ASSUME IInv, [Next]_vars PROVE IInv'
  OBVIOUS
<1> USE DEF IInv, TypeOK, RepresentableIsExact
<1>1. CASE SkipSeparator
  BY <1>1 DEF SkipSeparator, Separator, Skip, Magnitude
<1>2. CASE AcceptDigit
  <2>1. PICK trit \in -1 .. 1, n \in 1 .. 2 :
          /\ Token(trit, n) /\ ~WouldOverflow(trit)
          /\ rest' = SubSeq(rest, n + 1, Len(rest))
          /\ acc' = Fold(trit) /\ exact' = exact * 3 + trit /\ saw' = Saw(trit)
    BY <1>2 DEF AcceptDigit
  <2>2. pow' = 3 * pow /\ status' = status /\ status = "scan"
    BY <1>2 DEF AcceptDigit
  <2>3. rest' \in Seq(Char)
    BY <2>1, TokenType
  <2>4. acc * 3 + trit \in Int
    BY DEF CInteger, MinInt
  <2>5. acc' \in CInteger
    BY <2>1, <2>4, WrapType DEF Fold
  <2>6. exact' \in CInteger => acc' = exact'
    BY <2>1, <2>2, FoldStaysOutside, WrapIdentity DEF Fold, Trit
  <2> QED
    BY <2>1, <2>2, <2>3, <2>5, <2>6, DigitBound DEF Saw
<1>3. CASE RejectOverflow
  <2>1. PICK trit \in -1 .. 1, n \in 1 .. 2 :
          /\ Token(trit, n)
          /\ rest' = SubSeq(rest, n + 1, Len(rest))
          /\ exact' = exact * 3 + trit /\ saw' = Saw(trit)
    BY <1>3 DEF RejectOverflow
  <2>2. pow' = 3 * pow /\ status' = "fail" /\ acc' = acc
    BY <1>3 DEF RejectOverflow
  <2>3. rest' \in Seq(Char)
    BY <2>1, TokenType
  <2> QED
    BY <2>1, <2>2, <2>3, DigitBound DEF Saw
<1>4. CASE RejectCharacter
  BY <1>4 DEF RejectCharacter, Magnitude
<1>5. CASE Finish
  BY <1>5 DEF Finish, Magnitude
<1>6. CASE UNCHANGED vars
  BY <1>6 DEF vars, Magnitude
<1> QED
  BY <1>1, <1>2, <1>3, <1>4, <1>5, <1>6 DEF Next

(* The inductive invariant holds throughout every parse. *)
THEOREM ParserInvariant == Spec => []IInv
<1> QED
  BY InitIInv, NextIInv, PTL DEF Spec

(* The types of the parser's state hold for every width and length. *)
THEOREM ParserTypes == Spec => []TypeOK
<1>1. IInv => TypeOK
  BY DEF IInv
<1> QED
  BY <1>1, ParserInvariant, PTL

(* A number that fits the container is in the accumulator, whatever the    *)
(* digits before it did.                                                   *)
THEOREM ParserExact == Spec => []RepresentableIsExact
<1>1. IInv => RepresentableIsExact
  BY DEF IInv
<1> QED
  BY <1>1, ParserInvariant, PTL

(* With 3^digits <= 2 * INT64_MAX + 1, that is up to 40 digits, parsing is *)
(* exact.                                                                  *)
THEOREM ParserShortExact == Spec => []ShortStringsExact
<1>1. IInv => ShortStringsExact
  BY MaxIntAssumption
  DEF IInv, TypeOK, ShortStringsExact, RepresentableIsExact, Magnitude, CInteger, MinInt
<1> QED
  BY <1>1, ParserInvariant, PTL

(* The guard never rejects a number an int64_t could hold. *)
THEOREM ParserRejectionJustified == Spec => RejectionJustified
<1>1. IInv /\ [Next]_vars =>
        [status' = "fail" /\ pow' # pow => exact' \notin CInteger]_vars
  <2> SUFFICES ASSUME IInv, Next, status' = "fail", pow' # pow, exact' \in CInteger
               PROVE  FALSE
    OBVIOUS
  <2>1. RejectOverflow
    BY DEF Next, SkipSeparator, AcceptDigit, RejectCharacter, Finish, IInv, TypeOK
  <2>2. PICK trit \in -1 .. 1 : WouldOverflow(trit) /\ exact' = exact * 3 + trit
    BY <2>1 DEF RejectOverflow
  <2>3. acc = exact
    BY <2>1, <2>2, FoldStaysOutside
    DEF RejectOverflow, IInv, TypeOK, RepresentableIsExact, Trit
  <2> QED
    BY <2>2, <2>3, OverflowTestSound DEF IInv, Trit
<1> QED
  BY <1>1, ParserInvariant, PTL DEF RejectionJustified, Spec
=============================================================================
