----------------------------- MODULE NumbersProps -----------------------------
(***************************************************************************)
(* What is asked of the conversions of text to integers.                   *)
(***************************************************************************)
EXTENDS Numbers

InRange(type, n) == type.least <= n /\ n <= type.greatest

Signed(n) == IF negative THEN -n ELSE n

(* The number that some digits stand for, to base b.                       *)
NumberOf(b, text) ==
  LET upto[n \in 0..Len(text)] ==
        IF n = 0 THEN 0 ELSE upto[n - 1] * b + DigitOf(text[n])
  IN  upto[Len(text)]

(* While the loop runs, and when it stops at a character that is no digit, *)
(* value is the number read so far, and no product or sum of the loop left *)
(* the type's range.  When it stops at a bound, the digits up to there     *)
(* stand for a number beyond it, and value is the bound.                   *)
ValueExact ==
  /\ phase \in {"parsing", "parsed"} \/ (phase = "refused" /\ turn > 0) =>
       InRange(call.type, Signed(exact)) /\ value = Signed(exact)
  /\ phase = "too_large" =>
       ~InRange(call.type, Signed(exact)) /\ value = Bound(call.type)

(* The whole of it against the digits of the text: a conversion succeeds   *)
(* if and only if there are but digits and their number fits.              *)
ConvertsAll ==
  /\ exact = NumberOf(base, SubSeq(digits, 1, turn))
  /\ phase = "parsed" => turn = Len(digits)
  /\ phase \in {"refused", "too_large"} /\ digits # <<>> =>
       \/ \E i \in DOMAIN digits : DigitOf(digits[i]) >= base
       \/ ~InRange(call.type, Signed(NumberOf(base, digits)))

(* Text is converted exactly, or refused with the nearest number there is. *)
NumbersExact == ValueExact /\ ConvertsAll
===============================================================================
