------------------------------- MODULE Numbers -------------------------------
(***************************************************************************)
(* The conversions of text to integers that report what does not fit:      *)
(* safe_strto32_base and its kin over safe_int_internal and                *)
(* safe_uint_internal (base/numbers.cc), one turn of their loop a step.    *)
(*                                                                         *)
(* A character is a number: below 36 the digit it stands for in            *)
(* kAsciiToInt, which has no letter twice here.  A type of integers is its *)
(* least and its greatest number, and its arithmetic wraps.                *)
(***************************************************************************)
EXTENDS Integers, Sequences

CONSTANTS
  Character,    \* characters that texts are made of
  MaxLength,    \* bound: characters in a text
  Base,         \* bases asked for
  IntType       \* [least |-> ..., greatest |-> ...]

Zero == 0
LetterX == 33
NoDigit == 36     \* kAsciiToInt of any character but digits and letters
Space == 36
Minus == 37
Plus == 38

ASSUME NumbersAssumption ==
  /\ Character \subseteq Nat
  /\ MaxLength \in Nat
  /\ Base \subseteq Nat
  /\ IntType \subseteq [least : Int, greatest : Int] /\ IntType # {}
  /\ \A type \in IntType :
       /\ type.greatest > 0
       /\ type.least \in {0, -type.greatest - 1}

VARIABLES
  call,      \* what is asked: text, base and type
  phase,     \* "idle", "parsing"; "parsed", "refused", "too_large" on return
  negative,
  digits,    \* the text without spaces, sign and prefix
  base,
  turn,      \* digits the loop has gone over
  value,     \* the local, and *value_p on return
  exact      \* history: the number the digits read so far stand for

numberVars == <<call, phase, negative, digits, base, turn, value, exact>>

------------------------------------------------------------------------------
(* safe_parse_sign_and_base.                                               *)

DigitOf(character) == IF character \in 0..(NoDigit - 1) THEN character ELSE NoDigit

(* The text between the first and the last character that is no space.     *)
Trimmed(text) ==
  LET solid == {i \in DOMAIN text : text[i] # Space} IN
  IF solid = {} THEN <<>>
  ELSE LET first == CHOOSE i \in solid : \A j \in solid : i <= j
           last == CHOOSE i \in solid : \A j \in solid : j <= i
       IN  SubSeq(text, first, last)

From(text, n) == SubSeq(text, n, Len(text))

IsNegative(text) == text # <<>> /\ text[1] = Minus

Unsigned(text) ==
  IF text # <<>> /\ text[1] \in {Minus, Plus} THEN From(text, 2) ELSE text

HasHexPrefix(text) == Len(text) >= 2 /\ text[1] = Zero /\ text[2] = LetterX

(* The base to count in, and the digits to count; <<>> for a refusal.      *)
BaseAndDigits(asked, text) ==
  IF text = <<>> THEN <<>>
  ELSE IF asked \in {0, 16} /\ HasHexPrefix(text)
  THEN IF Len(text) = 2 THEN <<>> ELSE <<16, From(text, 3)>>
  ELSE IF asked = 0
  THEN IF text[1] = Zero THEN <<8, From(text, 2)>> ELSE <<10, text>>
  ELSE IF asked \in 2..36 THEN <<asked, text>> ELSE <<>>

------------------------------------------------------------------------------
(* The loop's arithmetic, in the width of the type.                        *)

Wrapped(type, n) ==
  ((n - type.least) % (type.greatest - type.least + 1)) + type.least

(* vmax / base; vmin / base, which C++ cuts off toward zero.               *)
MaxOverBaseX(type) == (type.greatest + 1) \div base

MaxOverBase(type) == type.greatest \div base

MinOverBase(type) == -((-type.least) \div base)

Product(type) == Wrapped(type, value * base)

(* Whether the number passes the type's bound with one more digit: before  *)
(* the product is made, and then before the digit is added.                *)
PassesBound(type, digit) ==
  IF negative
  THEN \/ value < MinOverBase(type)
       \/ Product(type) < type.least + digit
  ELSE \/ value > MaxOverBase(type)
       \/ Product(type) > type.greatest - digit

Bound(type) == IF negative THEN type.least ELSE type.greatest

WithDigit(type, digit) ==
  Wrapped(type, IF negative THEN Product(type) - digit ELSE Product(type) + digit)

------------------------------------------------------------------------------
NumbersInit ==
  /\ call = [text |-> <<>>, base |-> 10, type |-> CHOOSE type \in IntType : TRUE]
  /\ phase = "idle"
  /\ negative = FALSE
  /\ digits = <<>> /\ base = 10 /\ turn = 0 /\ value = 0 /\ exact = 0

(* safe_int_internal; a type whose least number is 0 is the business of    *)
(* safe_uint_internal, which takes no minus sign.                          *)
Convert(text, asked, type) ==
  LET trimmed == Trimmed(text)
      parts == BaseAndDigits(asked, Unsigned(trimmed))
      refused == parts = <<>> \/ (IsNegative(trimmed) /\ type.least = 0)
  IN
  /\ call' = [text |-> text, base |-> asked, type |-> type]
  /\ negative' = IsNegative(trimmed)
  /\ phase' = IF refused THEN "refused" ELSE "parsing"
  /\ base' = IF refused THEN 10 ELSE parts[1]
  /\ digits' = IF refused THEN <<>> ELSE parts[2]
  /\ turn' = 0 /\ value' = 0 /\ exact' = 0

(* A turn of safe_parse_positive_int or safe_parse_negative_int.           *)
Turn ==
  LET digit == DigitOf(digits[turn + 1])
      type == call.type
  IN
  /\ phase = "parsing"
  /\ turn < Len(digits)
  /\ IF digit >= base
     THEN phase' = "refused" /\ UNCHANGED <<turn, value, exact>>
     ELSE /\ turn' = turn + 1
          /\ exact' = exact * base + digit
          /\ IF PassesBound(type, digit)
             THEN phase' = "too_large" /\ value' = Bound(type)
             ELSE value' = WithDigit(type, digit) /\ UNCHANGED phase
  /\ UNCHANGED <<call, negative, digits, base>>

Finish ==
  /\ phase = "parsing"
  /\ turn = Len(digits)
  /\ phase' = "parsed"
  /\ UNCHANGED <<call, negative, digits, base, turn, value, exact>>

(* The caller has taken the number.                                        *)
Taken ==
  /\ phase \in {"parsed", "refused", "too_large"}
  /\ phase' = "idle"
  /\ call' = [text |-> <<>>, base |-> 10, type |-> CHOOSE type \in IntType : TRUE]
  /\ negative' = FALSE
  /\ digits' = <<>> /\ base' = 10 /\ turn' = 0 /\ value' = 0 /\ exact' = 0

NumbersNext ==
  \/ /\ phase = "idle"
     /\ \E n \in 0..MaxLength, asked \in Base, type \in IntType :
          \E text \in [1..n -> Character] : Convert(text, asked, type)
  \/ Turn
  \/ Finish
  \/ Taken

NumbersSpec == NumbersInit /\ [][NumbersNext]_numberVars
==============================================================================
