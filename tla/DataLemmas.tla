------------------------------ MODULE DataLemmas ------------------------------
(***************************************************************************)
(* What the proofs about data need: division, induction over numbers and   *)
(* the existence of recursive functions, from the well-foundedness of the  *)
(* numbers, and sequences.                                                 *)
(***************************************************************************)
EXTENDS Integers, Sequences, SequenceTheorems, WellFoundedInduction, TLAPS

--------------------------------------------------------------------------------
(* Division *)

(* A number is its whole blocks and the rest. *)
LEMMA DivisionWithRest ==
  ASSUME NEW n \in Nat, NEW b \in Nat \ {0}
  PROVE  /\ n \div b \in Nat
         /\ n % b \in 0..(b - 1)
         /\ n = (n \div b) * b + (n % b)
  BY SMT

(* ... and that in one way only. *)
LEMMA DivisionUnique ==
  ASSUME NEW b \in Nat \ {0}, NEW q \in Nat, NEW r \in 0..(b - 1)
  PROVE  (q * b + r) \div b = q /\ (q * b + r) % b = r
  BY SMT

--------------------------------------------------------------------------------
(* Induction *)

(* A set of numbers has a least one. *)
LEMMA LeastElement ==
  ASSUME NEW T, T \subseteq Nat, T # {}
  PROVE  \E x \in T : \A y \in T : x <= y
  <1>1. \E x \in T : \A y \in T : <<y, x>> \notin OpToRel(<, Nat)
    BY WFMin, NatLessThanWellFounded, Zenon
  <1>2. PICK x \in T : \A y \in T : <<y, x>> \notin OpToRel(<, Nat)
    BY <1>1
  <1>3. x \in Nat
    OBVIOUS
  <1>4. \A y \in Nat : y < x => <<y, x>> \in OpToRel(<, Nat)
    BY <1>3 DEF OpToRel
  <1>5. \A y \in T : x <= y
    <2> TAKE y \in T
    <2>1. y \in Nat /\ ~(y < x)
      BY <1>2, <1>4
    <2> QED
      BY <1>3, <2>1
  <1> QED
    BY <1>5

(* What holds of 0, and of n + 1 if it holds of n, holds of every number. *)
LEMMA InductionOverNat ==
  ASSUME NEW T, 0 \in T, \A n \in Nat : n \in T => n + 1 \in T
  PROVE  Nat \subseteq T
  <1> SUFFICES ASSUME Nat \ T # {} PROVE FALSE
    OBVIOUS
  <1> DEFINE U == Nat \ T
  <1>1. PICK x \in U : \A y \in U : x <= y
    <2>1. U \subseteq Nat /\ U # {}
      OBVIOUS
    <2> HIDE DEF U
    <2> QED
      BY <2>1, LeastElement
  <1>2. x \in Nat /\ x # 0 /\ x \notin T
    OBVIOUS
  <1>3. x - 1 \in Nat /\ (x - 1) + 1 = x
    BY <1>2
  <1>4. x - 1 \in T
    <2>1. ~(x <= x - 1)
      BY <1>2
    <2> QED
      BY <1>1, <1>3, <2>1
  <1> QED
    BY <1>2, <1>3, <1>4

(* f begins with c, and goes on by step. *)
StepsWithin(S, k, step) == \A n \in 1..k, x \in S : step[<<n, x>>] \in S

Recursion(f, S, c, k, step) ==
  /\ f \in [0..k -> S] /\ f[0] = c
  /\ \A n \in 1..k : f[n] = step[<<n, f[n - 1]>>]

(* A recursive definition has a function, as far as one counts. *)
LEMMA RecursionUpTo ==
  ASSUME NEW S, NEW c \in S, NEW k \in Nat, NEW step, StepsWithin(S, k, step)
  PROVE  \E f : Recursion(f, S, c, k, step)
  <1> DEFINE R(m, f) == /\ f \in [0..m -> S] /\ f[0] = c
                        /\ \A n \in 1..m : f[n] = step[<<n, f[n - 1]>>]
             T == {m \in Nat : m <= k => \E f : R(m, f)}
  <1>1. 0 \in T
    <2> DEFINE g == [n \in 0..0 |-> c]
    <2>1. R(0, g)
      OBVIOUS
    <2> QED
      BY <2>1
  <1>2. ASSUME NEW m \in Nat, m \in T PROVE m + 1 \in T
    <2> SUFFICES ASSUME m + 1 <= k PROVE \E f : R(m + 1, f)
      OBVIOUS
    <2>1. PICK f : R(m, f)
      BY <1>2
    <2> DEFINE g == [n \in 0..m + 1 |-> IF n = m + 1 THEN step[<<n, f[m]>>] ELSE f[n]]
    <2>2. f[m] \in S
      BY <2>1
    <2>3. step[<<m + 1, f[m]>>] \in S
      BY <2>2 DEF StepsWithin
    <2>4. g \in [0..m + 1 -> S]
      BY <2>1, <2>3
    <2>5. g[0] = c
      BY <2>1
    <2>6. \A n \in 1..m + 1 : g[n] = step[<<n, g[n - 1]>>]
      <3> TAKE n \in 1..m + 1
      <3>1. CASE n = m + 1
        BY <3>1
      <3>2. CASE n # m + 1
        <4>1. n \in 1..m /\ n - 1 \in 0..m /\ n - 1 # m + 1
          BY <3>2
        <4>2. g[n] = f[n] /\ g[n - 1] = f[n - 1]
          BY <4>1
        <4> QED
          BY <2>1, <4>1, <4>2
      <3> QED
        BY <3>1, <3>2
    <2> HIDE DEF g
    <2> QED
      BY <2>4, <2>5, <2>6
  <1>3. k \in T
    <2> HIDE DEF T
    <2> QED
      BY <1>1, <1>2, InductionOverNat
  <1>4. PICK f : R(k, f)
    BY <1>3
  <1> QED
    BY <1>4 DEF Recursion

(* ... and a greatest, if it ends. *)
LEMMA GreatestElement ==
  ASSUME NEW n \in Nat, NEW T, T \subseteq 1..n, T # {}
  PROVE  \E x \in T : \A y \in T : y <= x
  <1> DEFINE U == {n - x : x \in T}
  <1>1. U \subseteq Nat /\ U # {}
    <2>1. \A x \in T : n - x \in Nat
      OBVIOUS
    <2>2. PICK x \in T : TRUE
      OBVIOUS
    <2>3. n - x \in U
      OBVIOUS
    <2> QED
      BY <2>1, <2>3
  <1> HIDE DEF U
  <1>2. PICK u \in U : \A v \in U : u <= v
    BY <1>1, LeastElement
  <1>3. PICK x \in T : u = n - x
    BY DEF U
  <1>4. \A y \in T : n - x <= n - y
    BY <1>2, <1>3 DEF U
  <1>5. x \in Int /\ \A y \in T : y \in Int
    OBVIOUS
  <1>6. \A y \in T : y <= x
    BY <1>4, <1>5
  <1> QED
    BY <1>6

--------------------------------------------------------------------------------
(* Sequences *)

(* What is a sequence, of whatever elements. *)
IsSequence(s) == Len(s) \in Nat /\ s = [i \in 1..Len(s) |-> s[i]]

Elements(s) == {s[i] : i \in 1..Len(s)}

LEMMA SequenceOfElements ==
  ASSUME NEW s, IsSequence(s)
  PROVE  s \in Seq(Elements(s))
  <1> DEFINE n == Len(s)
  <1>1. n \in Nat /\ s = [i \in 1..n |-> s[i]]
    BY DEF IsSequence
  <1> HIDE DEF n
  <1>2. s \in [1..n -> Elements(s)]
    BY <1>1 DEF Elements, n
  <1> QED
    BY <1>1, <1>2, SeqDef

LEMMA IsSequenceIntro ==
  ASSUME NEW S, NEW s \in Seq(S)
  PROVE  IsSequence(s)
  BY LenProperties DEF IsSequence

(* A function of 1 to n is a sequence. *)
LEMMA FunctionIsSequence ==
  ASSUME NEW n \in Nat, NEW s, s = [i \in 1..n |-> s[i]]
  PROVE  IsSequence(s) /\ Len(s) = n
  <1> DEFINE S == {s[i] : i \in 1..n}
  <1>1. s \in [1..n -> S]
    OBVIOUS
  <1> HIDE DEF S
  <1>2. s \in Seq(S)
    BY <1>1, SeqDef
  <1>3. Len(s) = n
    BY <1>1, <1>2, LenProperties
  <1> QED
    BY <1>2, <1>3, IsSequenceIntro

(* There is one sequence of no elements. *)
LEMMA EmptyIsSequence ==
  /\ IsSequence(<<>>) /\ Len(<<>>) = 0
  /\ \A s : IsSequence(s) /\ Len(s) = 0 => s = <<>>
  <1>1. <<>> \in Seq({})
    BY EmptySeq
  <1>2. IsSequence(<<>>) /\ Len(<<>>) = 0
    BY <1>1, IsSequenceIntro, EmptySeq
  <1>3. ASSUME NEW s, IsSequence(s), Len(s) = 0 PROVE s = <<>>
    BY <1>3, SequenceOfElements, EmptySeq
  <1> QED
    BY <1>2, <1>3

(* Sequences are the same that have the same elements. *)
LEMMA SameSequence ==
  ASSUME NEW s, NEW t, IsSequence(s), IsSequence(t), Len(s) = Len(t),
         \A i \in 1..Len(s) : s[i] = t[i]
  PROVE  s = t
  BY DEF IsSequence

(* One sequence behind another, by elements. *)
LEMMA JoinedSequence ==
  ASSUME NEW s, NEW t, IsSequence(s), IsSequence(t)
  PROVE  /\ IsSequence(s \o t)
         /\ Len(s \o t) = Len(s) + Len(t)
         /\ \A i \in 1..Len(s) : (s \o t)[i] = s[i]
         /\ \A i \in 1..Len(t) : (s \o t)[Len(s) + i] = t[i]
  <1> DEFINE S == Elements(s) \cup Elements(t)
  <1>1. s \in Seq(Elements(s)) /\ t \in Seq(Elements(t))
    BY SequenceOfElements
  <1>2. s \in Seq(S) /\ t \in Seq(S)
    BY <1>1, SeqMonotonic
  <1> HIDE DEF S
  <1>3. /\ s \o t \in Seq(S)
        /\ Len(s \o t) = Len(s) + Len(t)
        /\ \A i \in 1..Len(s) + Len(t) : (s \o t)[i] = IF i <= Len(s) THEN s[i] ELSE t[i - Len(s)]
    BY <1>2, ConcatProperties
  <1>4. Len(s) \in Nat /\ Len(t) \in Nat
    BY DEF IsSequence
  <1>5. \A i \in 1..Len(t) : (s \o t)[Len(s) + i] = t[i]
    <2> TAKE i \in 1..Len(t)
    <2>1. Len(s) + i \in 1..Len(s) + Len(t) /\ ~(Len(s) + i <= Len(s)) /\ (Len(s) + i) - Len(s) = i
      BY <1>4
    <2> QED
      BY <2>1, <1>3
  <1>6. IsSequence(s \o t)
    BY <1>3, IsSequenceIntro
  <1>7. \A i \in 1..Len(s) : (s \o t)[i] = s[i]
    BY <1>3, <1>4
  <1> QED
    BY <1>3, <1>5, <1>6, <1>7

LEMMA AppendedSequence ==
  ASSUME NEW s, NEW x, IsSequence(s)
  PROVE  /\ IsSequence(Append(s, x))
         /\ Len(Append(s, x)) = Len(s) + 1
         /\ \A i \in 1..Len(s) : Append(s, x)[i] = s[i]
         /\ Append(s, x)[Len(s) + 1] = x
  <1> DEFINE S == Elements(s) \cup {x}
  <1>1. s \in Seq(Elements(s))
    BY SequenceOfElements
  <1>2. s \in Seq(S) /\ x \in S
    BY <1>1, SeqMonotonic
  <1> HIDE DEF S
  <1>3. Append(s, x) \in Seq(S)
    BY <1>2, AppendProperties
  <1>4. IsSequence(Append(s, x))
    BY <1>3, IsSequenceIntro
  <1>5. /\ Len(Append(s, x)) = Len(s) + 1
        /\ \A i \in 1..Len(s) : Append(s, x)[i] = s[i]
        /\ Append(s, x)[Len(s) + 1] = x
    BY <1>2, AppendProperties
  <1> QED
    BY <1>4, <1>5

LEMMA RestOfSequence ==
  ASSUME NEW s, IsSequence(s), s # <<>>
  PROVE  /\ Len(s) > 0 /\ Head(s) = s[1]
         /\ IsSequence(Tail(s)) /\ Len(Tail(s)) = Len(s) - 1
         /\ \A i \in 1..Len(s) - 1 : Tail(s)[i] = s[i + 1]
  <1>1. s \in Seq(Elements(s))
    BY SequenceOfElements
  <1>2. Tail(s) \in Seq(Elements(s))
    BY <1>1, HeadTailProperties
  <1>3. Len(s) > 0 /\ Len(s) \in Nat
    BY EmptyIsSequence DEF IsSequence
  <1>4. IsSequence(Tail(s))
    BY <1>2, IsSequenceIntro
  <1>5. Head(s) = s[1] /\ Len(Tail(s)) = Len(s) - 1 /\ \A i \in 1..Len(Tail(s)) : Tail(s)[i] = s[i + 1]
    BY <1>1, <1>3, HeadTailProperties
  <1> QED
    BY <1>3, <1>4, <1>5

(* The first n elements of anything. *)
LEMMA PartOfSequence ==
  ASSUME NEW s, NEW n \in Nat
  PROVE  /\ IsSequence(SubSeq(s, 1, n)) /\ Len(SubSeq(s, 1, n)) = n
         /\ \A i \in 1..n : SubSeq(s, 1, n)[i] = s[i]
  <1> DEFINE S == {s[i] : i \in 1..n}
  <1>1. \A i \in 1..n : s[i] \in S
    OBVIOUS
  <1> HIDE DEF S
  <1>2. /\ SubSeq(s, 1, n) \in Seq(S) /\ Len(SubSeq(s, 1, n)) = n
        /\ \A i \in 1..n : SubSeq(s, 1, n)[i] = s[i]
    BY <1>1, SubSeqProperties
  <1> QED
    BY <1>2, IsSequenceIntro

LEMMA OneBlock ==
  ASSUME NEW x
  PROVE  IsSequence(<<x>>) /\ Len(<<x>>) = 1 /\ <<x>>[1] = x
  <1>1. <<x>> \in Seq({x}) /\ Len(<<x>>) = 1 /\ <<x>>[1] = x
    OBVIOUS
  <1> QED
    BY <1>1, IsSequenceIntro

(* It does not matter which two are joined first. *)
LEMMA JoinedThrice ==
  ASSUME NEW s, NEW t, NEW u, IsSequence(s), IsSequence(t), IsSequence(u)
  PROVE  (s \o t) \o u = s \o (t \o u)
  <1> DEFINE S == Elements(s) \cup Elements(t) \cup Elements(u)
  <1>1. s \in Seq(Elements(s)) /\ t \in Seq(Elements(t)) /\ u \in Seq(Elements(u))
    BY SequenceOfElements
  <1>2. s \in Seq(S) /\ t \in Seq(S) /\ u \in Seq(S)
    BY <1>1, SeqMonotonic
  <1> HIDE DEF S
  <1> QED
    BY <1>2, ConcatAssociative

LEMMA AnyPartIsSequence ==
  ASSUME NEW s, NEW m \in Int, NEW n \in Int
  PROVE  IsSequence(SubSeq(s, m, n))
  <1> DEFINE S == {s[i] : i \in m..n}
  <1>1. \A i \in m..n : s[i] \in S
    OBVIOUS
  <1> HIDE DEF S
  <1>2. SubSeq(s, m, n) \in Seq(S)
    BY <1>1, SubSeqProperties
  <1> QED
    BY <1>2, IsSequenceIntro
================================================================================
