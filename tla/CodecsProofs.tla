----------------------------- MODULE CodecsProofs -----------------------------
(***************************************************************************)
(* Theorems about what turns data into other data: the file handlers, CTR  *)
(* mode, and numbers from text.                                            *)
(***************************************************************************)
EXTENDS FileServiceProps, SymmetricCryptProps, NumbersProps, DataLemmas
LOCAL INSTANCE SequencesExt

--------------------------------------------------------------------------------
(* Sequences *)

(* What has the elements of a beginning is one. *)
LEMMA PrefixByElements ==
  ASSUME NEW s, NEW t, IsSequence(s), IsSequence(t), Len(s) <= Len(t),
         \A i \in 1..Len(s) : s[i] = t[i]
  PROVE  IsPrefix(s, t)
  <1>1. Len(s) \in Nat
    BY DEF IsSequence
  <1>2. /\ IsSequence(SubSeq(s, 1, Len(s))) /\ Len(SubSeq(s, 1, Len(s))) = Len(s)
        /\ \A i \in 1..Len(s) : SubSeq(s, 1, Len(s))[i] = s[i]
    BY <1>1, PartOfSequence
  <1>3. /\ IsSequence(SubSeq(t, 1, Len(s))) /\ Len(SubSeq(t, 1, Len(s))) = Len(s)
        /\ \A i \in 1..Len(s) : SubSeq(t, 1, Len(s))[i] = t[i]
    BY <1>1, PartOfSequence
  <1>4. SubSeq(s, 1, Len(s)) = SubSeq(t, 1, Len(s))
    BY <1>2, <1>3, SameSequence
  <1> QED
    BY <1>4 DEF IsPrefix

(* f grows to the sequence of the pieces. *)
Flattens(f, pieces, n) ==
  /\ f[0] = <<>>
  /\ \A i \in 1..n : f[i] = f[i - 1] \o pieces[i]

(* There is such a growing sequence, *)
LEMMA FlatteningExists ==
  ASSUME NEW U, NEW pieces \in Seq(Seq(U))
  PROVE  \E f \in [0..Len(pieces) -> Seq(U)] : Flattens(f, pieces, Len(pieces))
  <1> DEFINE n == Len(pieces)
             S == Seq(U)
             step == [x \in (1..n) \X S |-> x[2] \o pieces[x[1]]]
  <1>1. n \in Nat /\ \A i \in 1..n : pieces[i] \in S
    OBVIOUS
  <1>2. \A i \in 1..n, x \in S : step[<<i, x>>] = x \o pieces[i]
    OBVIOUS
  <1>3. <<>> \in S
    OBVIOUS
  <1>4. \A x, y \in S : x \o y \in S
    OBVIOUS
  <1> HIDE DEF n, S, step
  <1>5. StepsWithin(S, n, step)
    BY <1>1, <1>2, <1>4 DEF StepsWithin
  <1>6. PICK f : Recursion(f, S, <<>>, n, step)
    BY <1>1, <1>3, <1>5, RecursionUpTo
  <1>7. f \in [0..n -> S] /\ f[0] = <<>>
    BY <1>6 DEF Recursion
  <1>8. \A i \in 1..n : f[i] = f[i - 1] \o pieces[i]
    <2> TAKE i \in 1..n
    <2>1. i - 1 \in 0..n
      BY <1>1
    <2>2. f[i - 1] \in S
      BY <1>7, <2>1
    <2>3. f[i] = step[<<i, f[i - 1]>>]
      BY <1>6 DEF Recursion
    <2> QED
      BY <1>2, <2>2, <2>3
  <1> QED
    BY <1>7, <1>8 DEF Flattens, n, S

(* ... and FlattenSeq is where it ends. *)
LEMMA FlatteningIs ==
  ASSUME NEW U, NEW pieces \in Seq(Seq(U)),
         NEW f \in [0..Len(pieces) -> Seq(U)], Flattens(f, pieces, Len(pieces))
  PROVE  FlattenSeq(pieces) = f[Len(pieces)]
  <1> DEFINE n == Len(pieces)
             flatten[i \in 1..n] == IF i = 1 THEN pieces[i] ELSE flatten[i - 1] \o pieces[i]
             g == [i \in 1..n |-> f[i]]
  <1>1. n \in Nat /\ \A i \in 1..n : pieces[i] \in Seq(U)
    OBVIOUS
  <1>2. CASE n = 0
    <2>1. pieces = <<>>
      BY <1>2
    <2>2. FlattenSeq(pieces) = pieces
      BY <1>2 DEF FlattenSeq
    <2> QED
      BY <1>2, <2>1, <2>2 DEF Flattens
  <1>3. CASE n # 0
    <2>1. f[0] = <<>> /\ \A i \in 1..n : f[i] = f[i - 1] \o pieces[i]
      BY DEF Flattens
    <2>2. g = [i \in 1..n |-> IF i = 1 THEN pieces[i] ELSE g[i - 1] \o pieces[i]]
      <3>1. \A i \in 1..n : g[i] = IF i = 1 THEN pieces[i] ELSE g[i - 1] \o pieces[i]
        <4> TAKE i \in 1..n
        <4>1. CASE i = 1
          <5>1. f[1] = <<>> \o pieces[1]
            <6>1. 1 \in 1..n /\ 1 - 1 = 0
              BY <4>1
            <6>2. f[1] = f[1 - 1] \o pieces[1]
              BY <2>1, <6>1
            <6> QED
              BY <2>1, <6>1, <6>2
          <5>2. pieces[1] \in Seq(U)
            BY <1>1, <4>1
          <5>3. f[1] = pieces[1]
            BY <5>1, <5>2
          <5> QED
            BY <4>1, <5>3
        <4>2. CASE i # 1
          <5>1. i - 1 \in 1..n
            BY <1>1, <4>2
          <5>2. g[i] = f[i] /\ g[i - 1] = f[i - 1]
            BY <5>1
          <5> QED
            BY <2>1, <4>2, <5>2
        <4> QED
          BY <4>1, <4>2
      <3> HIDE DEF n
      <3> QED
        BY <3>1
    <2>3. flatten = [i \in 1..n |-> IF i = 1 THEN pieces[i] ELSE flatten[i - 1] \o pieces[i]]
      <3> HIDE DEF g
      <3> QED
        BY <2>2, Zenon
    <2>4. FlattenSeq(pieces) = flatten[n]
      BY <1>3 DEF FlattenSeq
    <2> HIDE DEF flatten, n
    <2> DEFINE T == {m \in Nat : m + 1 \in 1..n => flatten[m + 1] = g[m + 1]}
    <2>5. 0 \in T
      <3> SUFFICES ASSUME 1 \in 1..n PROVE flatten[1] = g[1]
        OBVIOUS
      <3> HIDE DEF g
      <3> QED
        BY <2>2, <2>3
    <2>6. ASSUME NEW m \in Nat, m \in T PROVE m + 1 \in T
      <3> HIDE DEF g
      <3> SUFFICES ASSUME m + 2 \in 1..n PROVE flatten[m + 2] = g[m + 2]
        OBVIOUS
      <3>1. m + 1 \in 1..n /\ (m + 2) - 1 = m + 1 /\ m + 2 # 1
        BY <1>1
      <3>2. flatten[m + 1] = g[m + 1]
        BY <2>6, <3>1
      <3>3. flatten[m + 2] = flatten[m + 1] \o pieces[m + 2]
        BY <2>3, <3>1
      <3>4. g[m + 2] = g[m + 1] \o pieces[m + 2]
        BY <2>2, <3>1
      <3> QED
        BY <3>2, <3>3, <3>4
    <2>7. Nat \subseteq T
      <3> HIDE DEF T
      <3> QED
        BY <2>5, <2>6, InductionOverNat
    <2>8. n - 1 \in Nat /\ (n - 1) + 1 = n /\ n \in 1..n
      BY <1>1, <1>3
    <2>9. flatten[n] = g[n]
      <3> HIDE DEF g
      <3>1. n - 1 \in T
        BY <2>7, <2>8
      <3> QED
        BY <2>8, <3>1
    <2>10. g[n] = f[n]
      BY <2>8
    <2> QED
      BY <2>4, <2>9, <2>10 DEF n
  <1> QED
    BY <1>2, <1>3

LEMMA FlatIsSequence ==
  ASSUME NEW U, NEW pieces \in Seq(Seq(U))
  PROVE  FlattenSeq(pieces) \in Seq(U)
  <1>1. PICK f \in [0..Len(pieces) -> Seq(U)] : Flattens(f, pieces, Len(pieces))
    BY FlatteningExists
  <1>2. FlattenSeq(pieces) = f[Len(pieces)]
    BY <1>1, FlatteningIs
  <1>3. Len(pieces) \in 0..Len(pieces)
    OBVIOUS
  <1> QED
    BY <1>2, <1>3

LEMMA FlattenNothing == FlattenSeq(<<>>) = <<>>
  BY DEF FlattenSeq

(* One piece more is joined behind the others. *)
LEMMA FlattenAppend ==
  ASSUME NEW U, NEW pieces \in Seq(Seq(U)), NEW p \in Seq(U)
  PROVE  FlattenSeq(Append(pieces, p)) = FlattenSeq(pieces) \o p
  <1> DEFINE more == Append(pieces, p)
             n == Len(pieces)
  <1>1. /\ more \in Seq(Seq(U)) /\ Len(more) = n + 1 /\ n \in Nat
        /\ more[n + 1] = p /\ \A i \in 1..n : more[i] = pieces[i]
    BY AppendProperties
  <1> HIDE DEF more
  <1>2. PICK f \in [0..Len(more) -> Seq(U)] : Flattens(f, more, Len(more))
    BY <1>1, FlatteningExists
  <1>3. FlattenSeq(more) = f[n + 1]
    BY <1>1, <1>2, FlatteningIs
  <1> DEFINE g == [i \in 0..n |-> f[i]]
  <1>4. g \in [0..n -> Seq(U)]
    BY <1>1, <1>2
  <1>5. Flattens(g, pieces, n)
    <2>1. g[0] = <<>>
      BY <1>1, <1>2 DEF Flattens
    <2>2. ASSUME NEW i \in 1..n PROVE g[i] = g[i - 1] \o pieces[i]
      <3>1. i \in 1..n + 1 /\ i - 1 \in 0..n /\ i \in 0..n
        BY <1>1
      <3>2. f[i] = f[i - 1] \o more[i]
        BY <1>1, <1>2, <3>1 DEF Flattens
      <3> QED
        BY <1>1, <3>1, <3>2
    <2> QED
      BY <2>1, <2>2 DEF Flattens
  <1>6. FlattenSeq(pieces) = g[n]
    <2> HIDE DEF g
    <2> QED
      BY <1>4, <1>5, FlatteningIs
  <1>7. g[n] = f[n] /\ f[n + 1] = f[n] \o p
    <2>1. n \in 0..n /\ n + 1 \in 1..n + 1 /\ (n + 1) - 1 = n
      BY <1>1
    <2>2. f[n + 1] = f[n] \o more[n + 1]
      BY <1>1, <1>2, <2>1 DEF Flattens
    <2> QED
      BY <1>1, <2>1, <2>2
  <1> QED
    BY <1>3, <1>6, <1>7 DEF more

--------------------------------------------------------------------------------
(* Files: types *)

(* What is always true of files and handlers, disturbed or not. *)
HandlerTyped(h) ==
  /\ IsSequence(fed[h]) /\ IsSequence(ahead[h]) /\ IsSequence(behind[h])
  /\ IsSequence(taken[h])
  /\ at[h] # "idle" =>
       /\ request[h] \in Request
       /\ content[request[h].source] # Missing
       /\ at[h] = "loop" => content[request[h].target] # Missing
  /\ at[h] # "loop" => fed[h] = <<>> /\ behind[h] = <<>> /\ written[h] = 0
  /\ at[h] = "idle" => ahead[h] = <<>> /\ turns[h] = 0

FilesTyped ==
  /\ DOMAIN content = File
  /\ \A f \in File : content[f] # Missing => IsSequence(content[f])
  /\ at \in [Handler -> {"idle", "source", "loop"}]
  /\ turns \in [Handler -> Nat] /\ written \in [Handler -> Nat]
  /\ DOMAIN request = Handler /\ DOMAIN reply = Handler /\ DOMAIN taken = Handler
  /\ DOMAIN fed = Handler /\ DOMAIN ahead = Handler /\ DOMAIN behind = Handler
  /\ undisturbed \subseteq Handler
  /\ \A h \in Handler : HandlerTyped(h)

(* All that a handler will make of what it has taken. *)
Outcome(h) == IF request[h].do_encrypt THEN FileImage(taken[h]) ELSE TextOf(taken[h])

(* ... and how much of it there is after the turns up to now. *)
MadeLength(h) ==
  IF turns[h] = 0 THEN Len(Outcome(h))
  ELSE IF request[h].do_encrypt \/ fed[h] = <<>> THEN Len(fed[h])
  ELSE Len(fed[h]) - 1

(* The files of an undisturbed handler are its own to write, and what it   *)
(* has read is what was there when it opened the source.                   *)
Alone(h) ==
  /\ request[h] \in Request
  /\ at[h] # "idle" =>
       /\ \A g \in Handler : ~Writes(g, request[h].source)
       /\ content[request[h].source] = taken[h]
       /\ Len(fed[h]) + Len(ahead[h]) <= Len(taken[h])
       /\ \A i \in 1..Len(fed[h]) : fed[h][i] = taken[h][i]
       /\ \A i \in 1..Len(ahead[h]) : ahead[h][i] = taken[h][Len(fed[h]) + i]
  /\ at[h] # "source" =>
       /\ content[request[h].target] # Missing
       /\ \A g \in Handler \ {h} : ~Writes(g, request[h].target)
       
Sensible(h) == request[h].do_encrypt \/ IsImage(taken[h])

(* What it has made so far is in the file and in the buffer. *)
Working(h) ==
  /\ at[h] # "idle" => reply[h] = "none" /\ turns[h] + Len(fed[h]) = Len(taken[h])
  /\ at[h] = "loop" =>
       LET c == content[request[h].target] IN
       /\ written[h] = Len(c)
       /\ Len(c) + Len(behind[h]) = MadeLength(h)
       /\ \A i \in 1..Len(c) : c[i] = Outcome(h)[i]
       /\ \A i \in 1..Len(behind[h]) : behind[h][i] = Outcome(h)[Len(c) + i]
  /\ at[h] = "idle" =>
       LET c == content[request[h].target] IN
       /\ IsPrefix(c, Outcome(h))
       /\ reply[h] # "INTERNAL"
       /\ reply[h] = "OK" => c = Outcome(h)

LEMMA FileImageProperties ==
  ASSUME NEW X, IsSequence(X), X # <<>>
  PROVE  /\ IsSequence(FileImage(X)) /\ Len(FileImage(X)) = Len(X) + 1
         /\ \A i \in 1..Len(X) : FileImage(X)[i] = CipherBlock(SubSeq(X, 1, i))
         /\ FileImage(X)[Len(X) + 1] = CipherBlock(Append(X, PaddingBlock))
  <1> DEFINE P == Append(X, PaddingBlock)
             n == Len(X)
  <1>1. n \in Nat /\ IsSequence(P) /\ Len(P) = n + 1 /\ \A i \in 1..n : P[i] = X[i]
    BY AppendedSequence DEF IsSequence
  <1>2. FileImage(X) = [i \in 1..Len(P) |-> CipherBlock(SubSeq(P, 1, i))]
    BY DEF FileImage
  <1> HIDE DEF P, n
  <1>3. FileImage(X) = [i \in 1..n + 1 |-> CipherBlock(SubSeq(P, 1, i))]
    BY <1>1, <1>2
  <1>4. IsSequence(FileImage(X)) /\ Len(FileImage(X)) = n + 1
    <2>1. FileImage(X) = [i \in 1..n + 1 |-> FileImage(X)[i]] /\ n + 1 \in Nat
      BY <1>1, <1>3
    <2> QED
      BY <2>1, FunctionIsSequence
  <1>5. ASSUME NEW i \in 1..n PROVE FileImage(X)[i] = CipherBlock(SubSeq(X, 1, i))
    <2>1. i \in Nat /\ i \in 1..n + 1
      BY <1>1
    <2>2. /\ IsSequence(SubSeq(P, 1, i)) /\ Len(SubSeq(P, 1, i)) = i
          /\ \A k \in 1..i : SubSeq(P, 1, i)[k] = P[k]
      BY <2>1, PartOfSequence
    <2>3. /\ IsSequence(SubSeq(X, 1, i)) /\ Len(SubSeq(X, 1, i)) = i
          /\ \A k \in 1..i : SubSeq(X, 1, i)[k] = X[k]
      BY <2>1, PartOfSequence
    <2>4. \A k \in 1..i : P[k] = X[k]
      BY <1>1
    <2>5. SubSeq(P, 1, i) = SubSeq(X, 1, i)
      BY <2>2, <2>3, <2>4, SameSequence
    <2> QED
      BY <2>1, <2>5, <1>3
  <1>6. FileImage(X)[n + 1] = CipherBlock(P)
    <2>1. n + 1 \in Nat /\ n + 1 \in 1..n + 1
      BY <1>1
    <2>2. /\ IsSequence(SubSeq(P, 1, n + 1)) /\ Len(SubSeq(P, 1, n + 1)) = n + 1
          /\ \A k \in 1..n + 1 : SubSeq(P, 1, n + 1)[k] = P[k]
      BY <2>1, PartOfSequence
    <2>3. SubSeq(P, 1, n + 1) = P
      BY <2>2, <1>1, SameSequence
    <2> QED
      BY <2>1, <2>3, <1>3
  <1> QED
    BY <1>4, <1>5, <1>6 DEF n, P

(* A cipher text that is the image of a text. *)
LEMMA ImageTakenApart ==
  ASSUME NEW T, IsSequence(T), T # <<>>, IsImage(T)
  PROVE  /\ IsSequence(TextOf(T)) /\ Len(TextOf(T)) = Len(T) - 1 /\ Len(TextOf(T)) > 0
         /\ T = FileImage(TextOf(T))
  <1> DEFINE X == TextOf(T)
             P == Append(X, PaddingBlock)
             n == Len(T)
  <1>1. n \in Nat /\ n > 0 /\ DOMAIN T = 1..n
    BY EmptyIsSequence DEF IsSequence
  <1>2. T = FileImage(X) /\ X # <<>>
    <2>1. T = FileImage(X)
      BY DEF IsImage
    <2>2. X = <<>> => FileImage(X) = <<>>
      BY DEF FileImage
    <2> QED
      BY <2>1, <2>2
  <1>3. T = [i \in 1..Len(P) |-> CipherBlock(SubSeq(P, 1, i))]
    BY <1>2 DEF FileImage
  <1>4. X = SubSeq(T[n][2], 1, Len(T[n][2]) - 1)
    BY DEF TextOf, Front, Last
  <1> HIDE DEF X, P, n
  <1>5. n \in 1..Len(P)
    BY <1>1, <1>3
  <1>6. T[n] = CipherBlock(SubSeq(P, 1, n))
    BY <1>3, <1>5
  <1>7. T[n][2] = SubSeq(P, 1, n)
    <2>1. \A s : CipherBlock(s)[2] = s
      BY DEF CipherBlock
    <2> QED
      BY <2>1, <1>6
  <1>8. Len(T[n][2]) = n
    BY <1>1, <1>7, PartOfSequence
  <1>9. n - 1 \in Nat
    BY <1>1
  <1>10. IsSequence(X) /\ Len(X) = n - 1
    BY <1>4, <1>8, <1>9, PartOfSequence
  <1>11. Len(X) > 0
    BY <1>2, <1>9, <1>10, EmptyIsSequence
  <1> QED
    BY <1>2, <1>10, <1>11 DEF X, n

(* Each block of it opens after the ones before. *)
LEMMA ImageOpens ==
  ASSUME NEW T, IsSequence(T), T # <<>>, IsImage(T), NEW k \in Nat, k < Len(T)
  PROVE  Deciphered(SubSeq(T, 1, k), T[k + 1])
           = IF k + 1 = Len(T) THEN PaddingBlock ELSE TextOf(T)[k + 1]
  <1> DEFINE X == TextOf(T)
             P == Append(X, PaddingBlock)
             n == Len(T)
             before == SubSeq(T, 1, k)
             blocks == SubSeq(P, 1, k + 1)
  <1>1. /\ IsSequence(X) /\ Len(X) = n - 1 /\ Len(X) > 0 /\ X # <<>> /\ n \in Nat
        /\ T = FileImage(X)
    <2>1. IsSequence(X) /\ Len(X) = n - 1 /\ Len(X) > 0 /\ T = FileImage(X)
      BY ImageTakenApart
    <2>2. X # <<>>
      BY <2>1, EmptyIsSequence
    <2> QED
      BY <2>1, <2>2 DEF IsSequence
  <1> HIDE DEF X
  <1>2. IsSequence(P) /\ Len(P) = n /\ (\A i \in 1..n - 1 : P[i] = X[i]) /\ P[n] = PaddingBlock
    BY <1>1, AppendedSequence
  <1>3. \A i \in 1..n : T[i] = CipherBlock(SubSeq(P, 1, i))
    <2>1. T = [i \in 1..Len(P) |-> CipherBlock(SubSeq(P, 1, i))]
      BY <1>1 DEF FileImage
    <2> QED
      BY <2>1, <1>2
  <1> HIDE DEF P, n
  <1>4. k + 1 \in Nat /\ k + 1 \in 1..n
    BY <1>1 DEF n
  <1>5. /\ IsSequence(before) /\ Len(before) = k
        /\ \A i \in 1..k : before[i] = T[i]
    BY PartOfSequence
  <1>6. /\ IsSequence(blocks) /\ Len(blocks) = k + 1
        /\ \A i \in 1..k + 1 : blocks[i] = P[i]
    BY <1>4, PartOfSequence
  <1>7. T[k + 1] = CipherBlock(blocks)
    BY <1>3, <1>4
  <1>8. Last(blocks) = P[k + 1]
    BY <1>4, <1>6 DEF Last
  <1>9. Front(blocks) = SubSeq(P, 1, k)
    <2>1. Front(blocks) = SubSeq(blocks, 1, k)
      BY <1>6 DEF Front
    <2>2. /\ IsSequence(SubSeq(blocks, 1, k)) /\ Len(SubSeq(blocks, 1, k)) = k
          /\ \A i \in 1..k : SubSeq(blocks, 1, k)[i] = blocks[i]
      BY PartOfSequence
    <2>3. /\ IsSequence(SubSeq(P, 1, k)) /\ Len(SubSeq(P, 1, k)) = k
          /\ \A i \in 1..k : SubSeq(P, 1, k)[i] = P[i]
      BY PartOfSequence
    <2>4. \A i \in 1..k : blocks[i] = P[i]
      BY <1>6
    <2>5. SubSeq(blocks, 1, k) = SubSeq(P, 1, k)
      BY <2>2, <2>3, <2>4, SameSequence
    <2> QED
      BY <2>1, <2>5
  <1> HIDE DEF blocks, before
  <1>10. IF before = <<>> THEN Len(blocks) = 1 ELSE Last(before) = CipherBlock(Front(blocks))
    <2>1. CASE before = <<>>
      <3>1. k = 0
        BY <2>1, <1>5, EmptyIsSequence
      <3> QED
        BY <2>1, <3>1, <1>6
    <2>2. CASE before # <<>>
      <3>1. k > 0
        BY <2>2, <1>5, EmptyIsSequence
      <3>2. k \in 1..k /\ k \in 1..n
        BY <3>1, <1>1, <1>4
      <3>3. Last(before) = T[k]
        BY <3>2, <1>5 DEF Last
      <3> QED
        BY <2>2, <3>2, <3>3, <1>3, <1>9
    <2> QED
      BY <2>1, <2>2
  <1>11. Deciphered(before, T[k + 1]) = P[k + 1]
    BY <1>7, <1>8, <1>10 DEF Deciphered, CipherBlock
  <1>12. P[k + 1] = IF k + 1 = n THEN PaddingBlock ELSE X[k + 1]
    BY <1>1, <1>2, <1>4
  <1> QED
    BY <1>11, <1>12 DEF before, X, n

LEMMA OutcomeProperties ==
  ASSUME FilesTyped, NEW h \in Handler, Sensible(h)
  PROVE  /\ IsSequence(Outcome(h))
         /\ Len(Outcome(h)) = IF taken[h] = <<>> THEN 0
                              ELSE IF request[h].do_encrypt THEN Len(taken[h]) + 1
                              ELSE Len(taken[h]) - 1
  <1>1. IsSequence(taken[h])
    BY DEF FilesTyped, HandlerTyped
  <1>2. CASE taken[h] = <<>>
    BY <1>2, EmptyIsSequence DEF Outcome, FileImage, TextOf
  <1>3. CASE taken[h] # <<>> /\ request[h].do_encrypt
    BY <1>1, <1>3, FileImageProperties DEF Outcome
  <1>4. CASE taken[h] # <<>> /\ ~request[h].do_encrypt
    BY <1>1, <1>4, ImageTakenApart DEF Outcome, Sensible
  <1> QED
    BY <1>2, <1>3, <1>4

(* What is said of a handler that a step does not touch. *)
Same(h) ==
  /\ at'[h] = at[h] /\ request'[h] = request[h] /\ turns'[h] = turns[h]
  /\ fed'[h] = fed[h] /\ ahead'[h] = ahead[h] /\ behind'[h] = behind[h]
  /\ written'[h] = written[h] /\ reply'[h] = reply[h] /\ taken'[h] = taken[h]

LEMMA TypedWhenSame ==
  ASSUME FilesTyped, NEW h \in Handler, Same(h),
         \A f \in File : content[f] # Missing => content'[f] # Missing
  PROVE  HandlerTyped(h)'
  <1>1. HandlerTyped(h)
    BY DEF FilesTyped
  <1>2. request[h] \in Request => request[h].source \in File /\ request[h].target \in File
    BY DEF Request
  <1> QED
    BY <1>1, <1>2 DEF HandlerTyped, Same

LEMMA FilesTypedInit == FilesInit => FilesTyped
  BY EmptyIsSequence DEF FilesInit, FilesTyped, HandlerTyped

LEMMA PutFileTyped ==
  ASSUME FilesTyped, NEW f \in File, PutFile(f)
  PROVE  FilesTyped' /\ \A g \in File : content[g] # Missing => content'[g] = content[g]
  <1>1. PICK t \in Text : content' = [content EXCEPT ![f] = [i \in 1..Len(t) |-> PlainBlock(t[i])]]
    BY DEF PutFile
  <1>2. Len(t) \in Nat
    BY FileAssumption
  <1>3. IsSequence([i \in 1..Len(t) |-> PlainBlock(t[i])])
    <2> DEFINE s == [i \in 1..Len(t) |-> PlainBlock(t[i])]
    <2>1. s = [i \in 1..Len(t) |-> s[i]]
      OBVIOUS
    <2> HIDE DEF s
    <2>2. IsSequence(s)
      BY <1>2, <2>1, FunctionIsSequence
    <2> QED
      BY <2>2 DEF s
  <1>4. DOMAIN content' = File /\ \A g \in File : content'[g] # Missing => IsSequence(content'[g])
    BY <1>1, <1>3 DEF FilesTyped
  <1>5. \A g \in File : content[g] # Missing => content'[g] = content[g]
    BY <1>1 DEF FilesTyped, PutFile
  <1>6. \A h \in Handler : HandlerTyped(h)'
    BY <1>5, TypedWhenSame DEF PutFile, Same
  <1> QED
    BY <1>4, <1>5, <1>6 DEF FilesTyped, PutFile

LEMMA OpenSourceTyped ==
  ASSUME FilesTyped, NEW h \in Handler, NEW r \in Request, OpenSource(h, r)
  PROVE  FilesTyped'
  <1>1. \A g \in Handler \ {h} : Same(g)
    BY DEF OpenSource, Same, FilesTyped
  <1>2. \A g \in Handler \ {h} : HandlerTyped(g)'
    BY <1>1, TypedWhenSame DEF OpenSource
  <1>3. HandlerTyped(h)'
    <2>1. HandlerTyped(h) /\ at[h] = "idle" /\ r.source \in File
      BY DEF FilesTyped, OpenSource, Request
    <2> QED
      BY <2>1 DEF OpenSource, FilesTyped, HandlerTyped
  <1>4. content[r.source] # Missing => Len(content[r.source]) \in Nat
    BY DEF FilesTyped, Request, IsSequence
  <1>5. turns' \in [Handler -> Nat]
    BY <1>4 DEF OpenSource, FilesTyped
  <1>6. at' \in [Handler -> {"idle", "source", "loop"}]
    BY DEF OpenSource, FilesTyped
  <1>7. DOMAIN request' = Handler /\ DOMAIN reply' = Handler /\ DOMAIN taken' = Handler
        /\ undisturbed' \subseteq Handler
    BY DEF OpenSource, FilesTyped
  <1> QED
    BY <1>2, <1>3, <1>5, <1>6, <1>7 DEF OpenSource, FilesTyped

LEMMA OpenTargetTyped ==
  ASSUME FilesTyped, ~IsSequence(Missing), NEW h \in Handler, OpenTarget(h)
  PROVE  FilesTyped'
  <1>1. \A g \in Handler \ {h} : Same(g)
    BY DEF OpenTarget, Same, FilesTyped
  <1>2. at[h] = "source" /\ HandlerTyped(h) /\ request[h].target \in File /\ request[h].source \in File
    BY DEF OpenTarget, FilesTyped, HandlerTyped, Request
  <1>3. DOMAIN content' = File /\ content'[request[h].target] = <<>>
        /\ \A f \in File : f # request[h].target => content'[f] = content[f]
    BY <1>2 DEF OpenTarget, OpenedToWrite, FilesTyped
  <1>4. <<>> # Missing /\ IsSequence(<<>>)
    BY EmptyIsSequence
  <1>5. \A f \in File : content[f] # Missing => content'[f] # Missing
    BY <1>3, <1>4
  <1>6. \A g \in Handler \ {h} : HandlerTyped(g)'
    BY <1>1, <1>5, TypedWhenSame
  <1>7. HandlerTyped(h)'
    BY <1>2, <1>3, <1>4, <1>5 DEF OpenTarget, FilesTyped, HandlerTyped
  <1> QED
    BY <1>3, <1>4, <1>6, <1>7 DEF OpenTarget, FilesTyped

LEMMA OpenTargetFailsTyped ==
  ASSUME FilesTyped, NEW h \in Handler, OpenTargetFails(h)
  PROVE  FilesTyped'
  <1>1. \A g \in Handler \ {h} : HandlerTyped(g)'
    BY TypedWhenSame DEF OpenTargetFails, Emptied, Same, FilesTyped
  <1>2. HandlerTyped(h)'
    BY EmptyIsSequence DEF OpenTargetFails, Emptied, FilesTyped, HandlerTyped
  <1> QED
    BY <1>1, <1>2 DEF OpenTargetFails, Emptied, FilesTyped

LEMMA ReadAheadTyped ==
  ASSUME FilesTyped, NEW h \in Handler, ReadAhead(h)
  PROVE  FilesTyped'
  <1>1. \A g \in Handler \ {h} : HandlerTyped(g)'
    BY TypedWhenSame DEF ReadAhead, Same, FilesTyped
  <1>2. IsSequence(ahead'[h])
    BY AppendedSequence DEF ReadAhead, FilesTyped, HandlerTyped
  <1>3. HandlerTyped(h)'
    BY <1>2 DEF ReadAhead, FilesTyped, HandlerTyped
  <1> QED
    BY <1>1, <1>3 DEF ReadAhead, FilesTyped

(* What a turn does to a handler's own state. *)
LEMMA FileTurnEffect ==
  ASSUME FilesTyped, NEW h \in Handler, FileTurn(h)
  PROVE  /\ \A g \in Handler \ {h} : Same(g)
         /\ UNCHANGED <<content, at, request, written, handled, taken, undisturbed>>
         /\ at[h] = "loop" /\ turns[h] \in Nat \ {0} /\ Len(ahead[h]) > 0
         /\ DOMAIN fed' = Handler /\ DOMAIN ahead' = Handler /\ DOMAIN behind' = Handler
         /\ DOMAIN reply' = Handler
         /\ fed'[h] = Append(fed[h], ahead[h][1])
         /\ ahead'[h] = Tail(ahead[h])
         /\ turns' \in [Handler -> Nat]
         /\ \/ request[h].do_encrypt /\ Encipher(h, ahead[h][1])
            \/ ~request[h].do_encrypt /\ Decipher(h, ahead[h][1])
  <1>1. /\ at[h] = "loop" /\ turns[h] \in Nat \ {0} /\ ahead[h] # <<>>
        /\ IsSequence(ahead[h])
    BY DEF FileTurn, FilesTyped, HandlerTyped
  <1>2. Head(ahead[h]) = ahead[h][1] /\ Len(ahead[h]) > 0
    BY <1>1, RestOfSequence
  <1>3. /\ \/ request[h].do_encrypt /\ Encipher(h, ahead[h][1])
           \/ ~request[h].do_encrypt /\ Decipher(h, ahead[h][1])
        /\ fed' = [fed EXCEPT ![h] = Append(@, ahead[h][1])]
        /\ ahead' = [ahead EXCEPT ![h] = Tail(@)]
        /\ UNCHANGED <<content, at, request, written, handled, taken, undisturbed>>
    BY <1>2 DEF FileTurn
  <1>4. /\ \A g \in Handler \ {h} : behind'[g] = behind[g] /\ turns'[g] = turns[g] /\ reply'[g] = reply[g]
        /\ turns' \in [Handler -> Nat] /\ DOMAIN behind' = Handler /\ DOMAIN reply' = Handler
    <2>1. CASE Encipher(h, ahead[h][1])
      BY <1>1, <2>1 DEF Encipher, FilesTyped
    <2>2. CASE Decipher(h, ahead[h][1])
      BY <1>1, <2>2 DEF Decipher, FilesTyped
    <2> QED
      BY <1>3, <2>1, <2>2
  <1> QED
    BY <1>1, <1>2, <1>3, <1>4 DEF FilesTyped, Same

LEMMA FileTurnTyped ==
  ASSUME FilesTyped, NEW h \in Handler, FileTurn(h)
  PROVE  FilesTyped'
  <1>1. /\ \A g \in Handler \ {h} : Same(g)
        /\ UNCHANGED <<content, at, request, written, handled, taken, undisturbed>>
        /\ at[h] = "loop" /\ turns[h] \in Nat \ {0} /\ Len(ahead[h]) > 0
        /\ DOMAIN fed' = Handler /\ DOMAIN ahead' = Handler /\ DOMAIN behind' = Handler
        /\ DOMAIN reply' = Handler
        /\ fed'[h] = Append(fed[h], ahead[h][1])
        /\ ahead'[h] = Tail(ahead[h])
        /\ turns' \in [Handler -> Nat]
    BY FileTurnEffect
  <1>2. HandlerTyped(h)
    BY DEF FilesTyped
  <1>3. IsSequence(fed'[h]) /\ IsSequence(ahead'[h])
    <2>1. ahead[h] # <<>>
      BY <1>1, EmptyIsSequence
    <2> QED
      BY <1>1, <1>2, <2>1, AppendedSequence, RestOfSequence DEF HandlerTyped
  <1>4. IsSequence(behind'[h])
    <2>0. IsSequence(behind[h])
      BY <1>2 DEF HandlerTyped
    <2>1. \A x : IsSequence(<<x>>)
      <3> TAKE x
      <3>1. <<x>> \in Seq({x})
        OBVIOUS
      <3> QED
        BY <3>1, IsSequenceIntro
    <2>2. ASSUME Encipher(h, ahead[h][1]) PROVE IsSequence(behind'[h])
      <3> DEFINE blocks == Append(fed[h], ahead[h][1])
                 rest == IF turns[h] = 1 THEN <<CipherBlock(Append(blocks, PaddingBlock))>> ELSE <<>>
      <3>1. behind'[h] = behind[h] \o <<CipherBlock(blocks)>> \o rest
        BY <2>2 DEF Encipher, FilesTyped
      <3>2. IsSequence(rest) /\ IsSequence(<<CipherBlock(blocks)>>)
        BY <2>1, EmptyIsSequence
      <3> HIDE DEF blocks, rest
      <3>3. IsSequence(behind[h] \o <<CipherBlock(blocks)>>)
        BY <2>0, <3>2, JoinedSequence
      <3> QED
        BY <3>1, <3>2, <3>3, JoinedSequence
    <2>3. ASSUME Decipher(h, ahead[h][1]) PROVE IsSequence(behind'[h])
      <3> DEFINE before == IF fed[h] = <<>> THEN <<>>
                           ELSE <<Deciphered(Front(fed[h]), Last(fed[h]))>>
      <3>1. \/ behind'[h] = behind[h]
            \/ \E rest \in {<<>>, <<Garbled>>} : behind'[h] = behind[h] \o before \o rest
        BY <2>3 DEF Decipher, FilesTyped
      <3>2. IsSequence(before) /\ \A rest \in {<<>>, <<Garbled>>} : IsSequence(rest)
        BY <2>1, EmptyIsSequence
      <3> HIDE DEF before
      <3>3. IsSequence(behind[h] \o before)
        BY <2>0, <3>2, JoinedSequence
      <3>4. \A rest \in {<<>>, <<Garbled>>} : IsSequence((behind[h] \o before) \o rest)
        BY <3>2, <3>3, JoinedSequence
      <3> QED
        BY <2>0, <3>1, <3>4
    <2> QED
      BY <2>2, <2>3, FileTurnEffect
  <1>5. HandlerTyped(h)'
    BY <1>1, <1>2, <1>3, <1>4 DEF HandlerTyped
  <1>6. \A g \in Handler \ {h} : HandlerTyped(g)'
    BY <1>1, TypedWhenSame
  <1> QED
    BY <1>1, <1>5, <1>6 DEF FilesTyped

(* What a write at a place in a file leaves there. *)
LEMMA OverwrittenProperties ==
  ASSUME NEW old, IsSequence(old), NEW place \in Nat, NEW blocks, IsSequence(blocks)
  PROVE  LET end == place + Len(blocks)
             n == IF Len(old) > end THEN Len(old) ELSE end
             s == Overwritten(old, place, blocks) IN
         /\ IsSequence(s) /\ Len(s) = n
         /\ \A i \in 1..n : s[i] = IF i \in place + 1 .. end THEN blocks[i - place]
                                 ELSE IF i <= Len(old) THEN old[i] ELSE Hole
  <1> DEFINE end == place + Len(blocks)
             n == IF Len(old) > end THEN Len(old) ELSE end
             s == Overwritten(old, place, blocks)
             e(i) == IF i \in place + 1 .. end THEN blocks[i - place]
                     ELSE IF i <= Len(old) THEN old[i] ELSE Hole
  <1>1. n \in Nat
    BY DEF IsSequence
  <1>2. s = [i \in 1..n |-> e(i)]
    BY DEF Overwritten
  <1>3. \A i \in 1..n : s[i] = e(i)
    BY <1>2
  <1>4. IsSequence(s) /\ Len(s) = n
    <2>1. s = [i \in 1..n |-> s[i]]
      BY <1>2
    <2> HIDE DEF s, n
    <2> QED
      BY <1>1, <2>1, FunctionIsSequence
  <1> QED
    BY <1>3, <1>4

LEMMA OverwrittenAtEnd ==
  ASSUME NEW old, IsSequence(old), NEW place, place = Len(old), NEW blocks, IsSequence(blocks)
  PROVE  /\ Len(Overwritten(old, place, blocks)) = Len(old) + Len(blocks)
         /\ \A i \in 1..Len(old) : Overwritten(old, place, blocks)[i] = old[i]
         /\ \A i \in 1..Len(blocks) : Overwritten(old, place, blocks)[Len(old) + i] = blocks[i]
  <1> DEFINE n == Len(old)
             m == Len(blocks)
             s == Overwritten(old, place, blocks)
  <1>1. n \in Nat /\ m \in Nat /\ place = n
    BY DEF IsSequence
  <1>2. /\ Len(s) = IF n > place + m THEN n ELSE place + m
        /\ \A i \in 1..(IF n > place + m THEN n ELSE place + m) :
             s[i] = IF i \in place + 1 .. place + m THEN blocks[i - place]
                    ELSE IF i <= n THEN old[i] ELSE Hole
    BY <1>1, OverwrittenProperties
  <1> HIDE DEF n, m, s
  <1>3. /\ Len(s) = n + m
        /\ \A i \in 1..n + m : s[i] = IF i \in n + 1 .. n + m THEN blocks[i - n]
                                  ELSE IF i <= n THEN old[i] ELSE Hole
    BY <1>1, <1>2
  <1>4. \A i \in 1..n : s[i] = old[i]
    BY <1>1, <1>3
  <1>5. ASSUME NEW i \in 1..m PROVE s[n + i] = blocks[i]
    <2>1. n + i \in 1..n + m /\ n + i \in n + 1 .. n + m /\ (n + i) - n = i
      BY <1>1
    <2> QED
      BY <1>3, <2>1
  <1> QED
    BY <1>3, <1>4, <1>5 DEF n, m, s

LEMMA FlushTyped ==
  ASSUME FilesTyped, ~IsSequence(Missing), NEW h \in Handler, Flush(h)
  PROVE  /\ FilesTyped'
         /\ at[h] = "loop"
         /\ \A f \in File : f # request[h].target => content'[f] = content[f]
         /\ \A g \in Handler \ {h} : Same(g)
  <1> DEFINE f == request[h].target
             c == content[f]
  <1>1. /\ HandlerTyped(h) /\ at[h] = "loop" /\ IsSequence(behind[h]) /\ written[h] \in Nat
        /\ request[h] \in Request
    BY DEF FilesTyped, HandlerTyped, Flush
  <1>2. f \in File /\ IsSequence(c)
    BY <1>1 DEF FilesTyped, HandlerTyped, Request
  <1>3. PICK n \in 0..Len(behind[h]) :
          /\ content' = [content EXCEPT ![f] =
                           IF n = 0 THEN @
                           ELSE Overwritten(@, written[h], SubSeq(behind[h], 1, n))]
          /\ written' = [written EXCEPT ![h] = @ + n]
          /\ undisturbed' = IF n < Len(behind[h]) THEN undisturbed \ {h} ELSE undisturbed
    BY DEF Flush
  <1>4. n \in Nat
    BY <1>1 DEF IsSequence
  <1>5. IsSequence(content'[f]) /\ DOMAIN content' = File
    <2>1. IsSequence(SubSeq(behind[h], 1, n))
      BY <1>4, PartOfSequence
    <2>2. IsSequence(Overwritten(c, written[h], SubSeq(behind[h], 1, n)))
      BY <1>1, <1>2, <2>1, OverwrittenProperties
    <2>3. DOMAIN content = File
      BY DEF FilesTyped
    <2>4. content'[f] = IF n = 0 THEN c ELSE Overwritten(c, written[h], SubSeq(behind[h], 1, n))
      BY <1>2, <1>3, <2>3
    <2> HIDE DEF c
    <2> QED
      BY <1>2, <1>3, <2>2, <2>3, <2>4
  <1>6. \A g \in File : g # f => content'[g] = content[g]
    BY <1>2, <1>3 DEF FilesTyped
  <1>7. \A g \in File : content[g] # Missing => content'[g] # Missing
    BY <1>5, <1>6
  <1>8. \A g \in Handler \ {h} : Same(g)
    BY <1>3 DEF Flush, Same, FilesTyped
  <1>9. \A g \in Handler \ {h} : HandlerTyped(g)'
    BY <1>7, <1>8, TypedWhenSame
  <1>10. written' \in [Handler -> Nat]
    BY <1>3, <1>4 DEF FilesTyped
  <1>11. HandlerTyped(h)'
    <2>1. content'[request[h].source] # Missing /\ content'[f] # Missing
      BY <1>1, <1>7 DEF HandlerTyped, Request
    <2>2. behind'[h] = <<>> /\ UNCHANGED <<at, request, turns, fed, ahead, taken>>
      BY DEF Flush, FilesTyped
    <2> QED
      BY <1>1, <2>1, <2>2, EmptyIsSequence DEF HandlerTyped
  <1>12. \A g \in File : content'[g] # Missing => IsSequence(content'[g])
    BY <1>5, <1>6 DEF FilesTyped
  <1>13. undisturbed' \subseteq Handler
    BY <1>3 DEF FilesTyped
  <1> QED
    BY <1>1, <1>5, <1>6, <1>8, <1>9, <1>10, <1>11, <1>12, <1>13 DEF Flush, FilesTyped

LEMMA ReturnTyped ==
  ASSUME FilesTyped, NEW h \in Handler, Return(h)
  PROVE  FilesTyped'
  <1>1. \A g \in Handler \ {h} : HandlerTyped(g)'
    BY TypedWhenSame DEF Return, Emptied, Same, FilesTyped
  <1>2. HandlerTyped(h)'
    BY EmptyIsSequence DEF Return, Emptied, FilesTyped, HandlerTyped
  <1> QED
    BY <1>1, <1>2 DEF Return, Emptied, FilesTyped

LEMMA EndOfProcessTyped ==
  ASSUME FilesTyped, EndOfProcess
  PROVE  FilesTyped'
  <1>1. \A h \in Handler : HandlerTyped(h)'
    BY EmptyIsSequence DEF EndOfProcess, FilesTyped, HandlerTyped
  <1> QED
    BY <1>1 DEF EndOfProcess, FilesTyped

LEMMA RemoveFilesTyped ==
  ASSUME FilesTyped, RemoveFiles
  PROVE  FilesTyped'
  <1>1. \A h \in Handler : HandlerTyped(h)'
    BY EmptyIsSequence DEF RemoveFiles, FilesTyped, HandlerTyped
  <1> QED
    BY <1>1 DEF RemoveFiles, FilesTyped

--------------------------------------------------------------------------------
(* What others do leaves an undisturbed handler alone. *)
Intact(h) == Alone(h) /\ (Sensible(h) => Working(h))

LEMMA IntactWhenSame ==
  ASSUME NEW h \in Handler, Intact(h), Same(h),
         at[h] # "idle" =>
           /\ content'[request[h].source] = content[request[h].source]
           /\ \A g \in Handler : Writes(g, request[h].source)' => Writes(g, request[h].source),
         at[h] # "source" =>
           /\ content'[request[h].target] = content[request[h].target]
           /\ \A g \in Handler \ {h} : Writes(g, request[h].target)' => Writes(g, request[h].target)
  PROVE  Intact(h)'
  <1>1. Outcome(h)' = Outcome(h) /\ (Sensible(h)' <=> Sensible(h)) /\ MadeLength(h)' = MadeLength(h)
    BY DEF Same, Outcome, Sensible, MadeLength
  <1>3. Alone(h)'
    <2>1. Alone(h) /\ Same(h)
      BY DEF Intact
    <2>2. (at[h] # "idle" =>
             /\ \A g \in Handler : ~Writes(g, request[h].source)
             /\ content[request[h].source] = taken[h]
             /\ Len(fed[h]) + Len(ahead[h]) <= Len(taken[h])
             /\ \A i \in 1..Len(fed[h]) : fed[h][i] = taken[h][i]
             /\ \A i \in 1..Len(ahead[h]) : ahead[h][i] = taken[h][Len(fed[h]) + i])'
      BY <2>1 DEF Alone, Same, Writes
    <2>3. (at[h] # "source" =>
             /\ content[request[h].target] # Missing
             /\ \A g \in Handler \ {h} : ~Writes(g, request[h].target))'
      BY <2>1 DEF Alone, Same, Writes
    <2>4. request'[h] \in Request
      BY <2>1 DEF Alone, Same
    <2> QED
      BY <2>2, <2>3, <2>4 DEF Alone
  <1>4. Sensible(h) /\ Working(h) => Working(h)'
    BY <1>1 DEF Working, Same
  <1> QED
    BY <1>1, <1>3, <1>4 DEF Intact

FilesInv == FilesTyped /\ \A h \in undisturbed : Intact(h)

(* The files that matter to an undisturbed handler are there. *)
LEMMA FilesInUse ==
  ASSUME FilesTyped, NEW h \in Handler, Intact(h)
  PROVE  /\ request[h].source \in File /\ request[h].target \in File
         /\ at[h] # "idle" => content[request[h].source] # Missing
         /\ at[h] # "source" => content[request[h].target] # Missing
  BY DEF FilesTyped, HandlerTyped, Intact, Alone, Request

LEMMA PutFileIntact ==
  ASSUME FilesInv, NEW f \in File, PutFile(f), NEW h \in undisturbed'
  PROVE  Intact(h)'
  <1>1. h \in Handler /\ Intact(h) /\ FilesTyped
    BY DEF FilesInv, FilesTyped, PutFile
  <1>2. \A g \in File : content[g] # Missing => content'[g] = content[g]
    BY <1>1, PutFileTyped
  <1>3. Same(h)
    BY DEF PutFile, Same
  <1>5. /\ at[h] # "idle" => content'[request[h].source] = content[request[h].source]
        /\ at[h] # "source" => content'[request[h].target] = content[request[h].target]
    BY <1>1, <1>2, FilesInUse
  <1>6. \A g \in Handler : (Writes(g, request[h].source)' => Writes(g, request[h].source))
                           /\ (Writes(g, request[h].target)' => Writes(g, request[h].target))
    BY DEF PutFile, Writes
  <1> QED
    BY <1>1, <1>3, <1>5, <1>6, IntactWhenSame

LEMMA OpenSourceIntact ==
  ASSUME FilesInv, NEW g \in Handler, NEW r \in Request, OpenSource(g, r), NEW h \in undisturbed'
  PROVE  Intact(h)'
  <1>1. FilesTyped /\ HandlerTyped(g) /\ at[g] = "idle" /\ content' = content
    BY DEF FilesInv, FilesTyped, OpenSource
  <1>2. CASE h # g
    <2>1. h \in undisturbed /\ h \in Handler
      BY <1>1, <1>2 DEF OpenSource, FilesTyped
    <2>2. Same(h) /\ Intact(h)
      BY <1>2, <2>1 DEF OpenSource, Same, FilesTyped, FilesInv
    <2>3. \A x \in Handler : (Writes(x, request[h].source)' => Writes(x, request[h].source))
                             /\ (Writes(x, request[h].target)' => Writes(x, request[h].target))
      <3> TAKE x \in Handler
      <3>1. at'[g] # "loop"
        BY <1>1 DEF OpenSource, FilesTyped
      <3>2. request'[h] = request[h]
        BY <2>2 DEF Same
      <3>3. CASE x = g
        BY <3>1, <3>3 DEF Writes
      <3>4. CASE x # g
        <4>1. at'[x] = at[x] /\ request'[x] = request[x]
          BY <3>4, <1>1 DEF OpenSource, FilesTyped
        <4> QED
          BY <4>1, <3>2 DEF Writes
      <3> QED
        BY <3>3, <3>4
    <2> QED
      BY <1>1, <2>1, <2>2, <2>3, IntactWhenSame
  <1>3. CASE h = g
    <2> DEFINE c == content[r.source]
    <2>1. /\ c # Missing /\ \A x \in Handler : ~Writes(x, r.source)
          /\ at' = [at EXCEPT ![g] = "source"] /\ request' = [request EXCEPT ![g] = r]
          /\ reply' = [reply EXCEPT ![g] = "none"]
          /\ turns' = [turns EXCEPT ![g] = Len(c)]
          /\ taken' = [taken EXCEPT ![g] = c]
      BY <1>1, <1>3 DEF OpenSource, FilesTyped
    <2>2. /\ at'[g] = "source" /\ request'[g] = r /\ reply'[g] = "none" /\ turns'[g] = Len(c)
          /\ taken'[g] = c /\ fed'[g] = <<>> /\ ahead'[g] = <<>>
      BY <1>1, <2>1 DEF OpenSource, FilesTyped, HandlerTyped
    <2>3. IsSequence(c)
      BY <1>1, <2>1 DEF FilesTyped, Request
    <2>4. \A x \in Handler : ~Writes(x, r.source)'
      <3> TAKE x \in Handler
      <3>1. CASE x = g
        BY <3>1, <2>2 DEF Writes
      <3>2. CASE x # g
        <4>1. at'[x] = at[x] /\ request'[x] = request[x]
          BY <3>2, <2>1, <1>1 DEF FilesTyped
        <4> QED
          BY <4>1, <2>1 DEF Writes
      <3> QED
        BY <3>1, <3>2
    <2>5. Len(<<>>) = 0 /\ Len(c) \in Nat
      BY <2>3, EmptyIsSequence DEF IsSequence
    <2>6. Alone(g)'
      BY <1>1, <2>2, <2>4, <2>5 DEF Alone
    <2>7. Working(g)'
      BY <2>2, <2>5 DEF Working
    <2> QED
      BY <1>3, <2>6, <2>7 DEF Intact
  <1> QED
    BY <1>2, <1>3

LEMMA OpenTargetIntact ==
  ASSUME FilesInv, ~IsSequence(Missing), NEW g \in Handler, OpenTarget(g), NEW h \in undisturbed'
  PROVE  Intact(h)'
  <1> DEFINE f == request[g].target
  <1>1. FilesTyped /\ HandlerTyped(g) /\ at[g] = "source" /\ f \in File
    BY DEF FilesInv, FilesTyped, HandlerTyped, OpenTarget, Request
  <1>2. /\ h \in undisturbed /\ h \in Handler /\ Intact(h) /\ ~Reads(h, f)
        /\ h # g /\ at[h] # "source" => request[h].target # f
        /\ h = g => \A other \in Handler : ~Writes(other, f)
    BY DEF OpenTarget, FilesInv, FilesTyped
  <1>3. /\ at' = [at EXCEPT ![g] = "loop"]
        /\ content'[f] = <<>> /\ \A x \in File : x # f => content'[x] = content[x]
        /\ UNCHANGED <<request, turns, fed, ahead, behind, written, reply, handled, taken>>
    BY <1>1 DEF OpenTarget, OpenedToWrite, FilesTyped
  <1>4. request[h].source \in File /\ request[h].target \in File
    BY <1>1, <1>2, FilesInUse
  <1>5. \A y : \A x \in Handler : at'[x] = "loop" /\ request'[x].target = y => Writes(x, y) \/ y = f
    BY <1>1, <1>3 DEF Writes, FilesTyped
  <1>6. at[h] # "idle" => request[h].source # f
    BY <1>2 DEF Reads
  <1>7. CASE h # g
    <2>1. Same(h)
      BY <1>1, <1>2, <1>3, <1>7 DEF Same, FilesTyped
    <2>2. at[h] # "idle" =>
            /\ content'[request[h].source] = content[request[h].source]
            /\ \A x \in Handler : Writes(x, request[h].source)' => Writes(x, request[h].source)
      BY <1>3, <1>4, <1>5, <1>6 DEF Writes
    <2>3. at[h] # "source" =>
            /\ content'[request[h].target] = content[request[h].target]
            /\ \A x \in Handler : Writes(x, request[h].target)' => Writes(x, request[h].target)
      BY <1>2, <1>3, <1>4, <1>5, <1>7 DEF Writes
    <2> QED
      BY <1>2, <2>1, <2>2, <2>3, IntactWhenSame
  <1>8. CASE h = g
    <2>1. /\ request[g] \in Request /\ request[g].source # f
          /\ \A x \in Handler : ~Writes(x, request[g].source)
          /\ content[request[g].source] = taken[g]
          /\ Len(fed[g]) + Len(ahead[g]) <= Len(taken[g])
          /\ \A i \in 1..Len(fed[g]) : fed[g][i] = taken[g][i]
          /\ \A i \in 1..Len(ahead[g]) : ahead[g][i] = taken[g][Len(fed[g]) + i]
      BY <1>1, <1>2, <1>6, <1>8 DEF Intact, Alone
    <2>2. fed[g] = <<>> /\ behind[g] = <<>> /\ written[g] = 0 /\ turns[g] \in Nat
      BY <1>1 DEF HandlerTyped, FilesTyped
    <2>3. at'[g] = "loop" /\ content'[f] = <<>> /\ <<>> # Missing /\ Len(<<>>) = 0
      BY <1>1, <1>3, EmptyIsSequence DEF FilesTyped
    <2>4. \A x \in Handler : ~Writes(x, request[g].source)'
      BY <1>3, <1>5, <2>1 DEF Writes
    <2>5. \A x \in Handler \ {g} : ~Writes(x, f)'
      BY <1>1, <1>2, <1>3, <1>8 DEF Writes, FilesTyped
    <2>6. Alone(g)'
      BY <1>3, <1>4, <1>8, <2>1, <2>3, <2>4, <2>5 DEF Alone
    <2>7. ASSUME Sensible(g)' PROVE Working(g)'
      <3>1. Sensible(g) /\ Outcome(g)' = Outcome(g) /\ MadeLength(g)' = MadeLength(g)
        BY <1>3, <2>7 DEF Sensible, Outcome, MadeLength
      <3>2. reply[g] = "none" /\ turns[g] + Len(fed[g]) = Len(taken[g])
        BY <1>1, <1>2, <1>8, <3>1 DEF Intact, Working
      <3>3. MadeLength(g) = 0
        <4>1. CASE turns[g] = 0
          <5>1. taken[g] = <<>>
            BY <1>1, <2>2, <2>3, <3>2, <4>1, EmptyIsSequence DEF HandlerTyped
          <5> QED
            BY <1>1, <3>1, <4>1, <5>1, OutcomeProperties DEF MadeLength
        <4>2. CASE turns[g] # 0
          BY <2>2, <2>3, <4>2 DEF MadeLength
        <4> QED
          BY <4>1, <4>2
      <3>4. fed'[g] = <<>> /\ behind'[g] = <<>> /\ written'[g] = 0 /\ turns'[g] = turns[g]
            /\ reply'[g] = reply[g] /\ taken'[g] = taken[g] /\ request'[g] = request[g]
        BY <1>3, <2>2
      <3> QED
        BY <2>2, <2>3, <3>1, <3>2, <3>3, <3>4 DEF Working
    <2> QED
      BY <1>8, <2>6, <2>7 DEF Intact
  <1> QED
    BY <1>7, <1>8

(* A step of one handler that changes no file and no target. *)
LEMMA OthersIntact ==
  ASSUME FilesInv, NEW g \in Handler, NEW h \in undisturbed, h # g,
         \A x \in Handler \ {g} : Same(x),
         at'[g] = "loop" => at[g] = "loop" /\ request'[g] = request[g],
         content' = content
  PROVE  Intact(h)'
  <1>1. h \in Handler /\ Intact(h) /\ Same(h)
    BY DEF FilesInv, FilesTyped
  <1>2. \A x \in Handler : (Writes(x, request[h].source)' => Writes(x, request[h].source))
                           /\ (Writes(x, request[h].target)' => Writes(x, request[h].target))
    <2> TAKE x \in Handler
    <2>1. request'[h] = request[h]
      BY <1>1 DEF Same
    <2>2. at'[x] = "loop" => at[x] = "loop" /\ request'[x] = request[x]
      BY DEF Same
    <2> QED
      BY <2>1, <2>2 DEF Writes
  <1> QED
    BY <1>1, <1>2, IntactWhenSame

LEMMA OpenTargetFailsIntact ==
  ASSUME FilesInv, NEW g \in Handler, OpenTargetFails(g), NEW h \in undisturbed'
  PROVE  Intact(h)'
  <1>1. h \in undisturbed /\ h # g /\ content' = content /\ at'[g] = "idle"
    BY DEF OpenTargetFails, FilesInv, FilesTyped
  <1>2. \A x \in Handler \ {g} : Same(x)
    BY DEF OpenTargetFails, Emptied, Same, FilesInv, FilesTyped
  <1> QED
    BY <1>1, <1>2, OthersIntact

(* What is read ahead, and what is taken, goes on through the source. *)
LEMMA ReadsOn ==
  ASSUME NEW T, NEW n \in Nat, NEW a, IsSequence(a), Len(T) \in Nat, n + Len(a) < Len(T),
         \A i \in 1..Len(a) : a[i] = T[n + i]
  PROVE  LET b == Append(a, T[n + Len(a) + 1]) IN
         /\ n + Len(b) <= Len(T)
         /\ \A i \in 1..Len(b) : b[i] = T[n + i]
  <1> DEFINE m == Len(a)
             b == Append(a, T[n + m + 1])
  <1>1. m \in Nat
    BY DEF IsSequence
  <1>2. Len(b) = m + 1 /\ (\A i \in 1..m : b[i] = a[i]) /\ b[m + 1] = T[n + m + 1]
    BY AppendedSequence
  <1> HIDE DEF b
  <1>3. n + Len(b) <= Len(T)
    BY <1>1, <1>2
  <1>4. \A i \in 1..m + 1 : b[i] = T[n + i]
    <2> TAKE i \in 1..m + 1
    <2>1. CASE i \in 1..m
      BY <2>1, <1>2
    <2>2. CASE i = m + 1
      <3>1. n + i = n + m + 1
        BY <2>2, <1>1
      <3> QED
        BY <2>2, <3>1, <1>2
    <2> QED
      BY <2>1, <2>2, <1>1
  <1> QED
    BY <1>2, <1>3, <1>4 DEF b

(* f is a beginning of T, and a what comes next in it. *)
GoesThrough(T, f, a) ==
  /\ IsSequence(f) /\ IsSequence(a) /\ Len(a) > 0
  /\ Len(T) \in Nat /\ Len(f) + Len(a) <= Len(T)
  /\ \A i \in 1..Len(f) : f[i] = T[i]
  /\ \A i \in 1..Len(a) : a[i] = T[Len(f) + i]

TakesNext(T, f, a) ==
  /\ a[1] = T[Len(f) + 1]
  /\ Append(f, a[1]) = SubSeq(T, 1, Len(f) + 1)
  /\ Len(Append(f, a[1])) = Len(f) + 1
  /\ Len(Append(f, a[1])) + Len(Tail(a)) <= Len(T)
  /\ \A i \in 1..Len(f) + 1 : Append(f, a[1])[i] = T[i]
  /\ \A i \in 1..Len(Tail(a)) : Tail(a)[i] = T[Len(f) + 1 + i]

LEMMA TakesOn ==
  ASSUME NEW T, NEW f, NEW a, GoesThrough(T, f, a)
  PROVE  TakesNext(T, f, a)
  <1> DEFINE n == Len(f)
             m == Len(a)
             g == Append(f, a[1])
             c == Tail(a)
  <1>0. /\ IsSequence(f) /\ IsSequence(a) /\ m > 0
        /\ Len(T) \in Nat /\ n + m <= Len(T)
        /\ \A i \in 1..n : f[i] = T[i]
        /\ \A i \in 1..m : a[i] = T[n + i]
    BY DEF GoesThrough
  <1>1. n \in Nat /\ m \in Nat
    BY <1>0 DEF IsSequence
  <1>2. a # <<>>
    BY <1>0, EmptyIsSequence
  <1>3. IsSequence(g) /\ Len(g) = n + 1 /\ (\A i \in 1..n : g[i] = f[i]) /\ g[n + 1] = a[1]
    BY <1>0, AppendedSequence
  <1>4. Len(c) = m - 1 /\ \A i \in 1..m - 1 : c[i] = a[i + 1]
    BY <1>0, <1>2, RestOfSequence
  <1> HIDE DEF g, c
  <1>5. a[1] = T[n + 1]
    BY <1>0, <1>1
  <1>6. \A i \in 1..n + 1 : g[i] = T[i]
    BY <1>0, <1>1, <1>3, <1>5
  <1>7. g = SubSeq(T, 1, n + 1)
    <2>1. n + 1 \in Nat
      BY <1>0, <1>1
    <2>2. /\ IsSequence(SubSeq(T, 1, n + 1)) /\ Len(SubSeq(T, 1, n + 1)) = n + 1
          /\ \A i \in 1..n + 1 : SubSeq(T, 1, n + 1)[i] = T[i]
      BY <2>1, PartOfSequence
    <2> QED
      BY <2>2, <1>3, <1>6, SameSequence
  <1>8. Len(g) + Len(c) <= Len(T)
    BY <1>0, <1>1, <1>3, <1>4
  <1>9. \A i \in 1..Len(c) : c[i] = T[n + 1 + i]
    <2> TAKE i \in 1..Len(c)
    <2>0. Len(c) = m - 1 /\ m \in Nat /\ n \in Nat
      BY <1>0, <1>1, <1>4
    <2> HIDE DEF n, m
    <2>1. i + 1 \in 1..m /\ n + (i + 1) = n + 1 + i /\ i \in 1..m - 1
      BY <2>0
    <2>2. a[i + 1] = T[n + (i + 1)]
      BY <1>0, <2>1 DEF n, m
    <2> QED
      BY <2>1, <2>2, <1>4
  <1> QED
    BY <1>3, <1>5, <1>6, <1>7, <1>8, <1>9 DEF g, c, TakesNext

LEMMA ReadAheadIntact ==
  ASSUME FilesInv, NEW g \in Handler, ReadAhead(g), NEW h \in undisturbed'
  PROVE  Intact(h)'
  <1>1. h \in undisturbed /\ content' = content /\ at' = at /\ request' = request
        /\ FilesTyped /\ HandlerTyped(g)
    BY DEF ReadAhead, FilesInv, FilesTyped
  <1>2. \A x \in Handler \ {g} : Same(x)
    BY DEF ReadAhead, Same, FilesInv, FilesTyped
  <1>3. CASE h # g
    BY <1>1, <1>2, <1>3, OthersIntact
  <1>4. CASE h = g
    <2> DEFINE T == taken[g]
               n == Len(fed[g])
    <2>1. Intact(g) /\ at[g] # "idle" /\ content[request[g].source] = T
      BY <1>1, <1>4 DEF FilesInv, Intact, Alone, ReadAhead
    <2>2. n \in Nat /\ IsSequence(ahead[g]) /\ Len(T) \in Nat
      BY <1>1 DEF HandlerTyped, IsSequence
    <2>3. \A i \in 1..Len(ahead[g]) : ahead[g][i] = T[n + i]
      BY <2>1 DEF Intact, Alone
    <2>4. n + Len(ahead[g]) < Len(T) /\ ahead'[g] = Append(ahead[g], T[n + Len(ahead[g]) + 1])
      BY <1>1, <2>1 DEF ReadAhead, FilesTyped
    <2>5. /\ n + Len(ahead'[g]) <= Len(T)
          /\ \A i \in 1..Len(ahead'[g]) : ahead'[g][i] = T[n + i]
      <3> HIDE DEF T, n
      <3> QED
        BY <2>2, <2>3, <2>4, ReadsOn
    <2>6. UNCHANGED <<content, at, request, turns, fed, behind, written, reply, taken>>
      BY DEF ReadAhead
    <2>7. Alone(g)'
      BY <2>1, <2>5, <2>6 DEF Intact, Alone, Writes
    <2>8. Sensible(g)' => Working(g)'
      BY <2>1, <2>6 DEF Intact, Sensible, Working, Outcome, MadeLength
    <2> QED
      BY <1>4, <2>7, <2>8 DEF Intact
  <1> QED
    BY <1>3, <1>4

(* What is added to the buffer is the next part of the outcome. *)
LEMMA AddsToBuffer ==
  ASSUME NEW P, NEW place \in Nat, NEW old, IsSequence(old),
         \A i \in 1..Len(old) : old[i] = P[place + i],
         NEW more, IsSequence(more),
         \A i \in 1..Len(more) : more[i] = P[place + Len(old) + i]
  PROVE  /\ IsSequence(old \o more) /\ Len(old \o more) = Len(old) + Len(more)
         /\ \A i \in 1..Len(old \o more) : (old \o more)[i] = P[place + i]
  <1>1. /\ IsSequence(old \o more)
        /\ Len(old \o more) = Len(old) + Len(more)
        /\ \A i \in 1..Len(old) : (old \o more)[i] = old[i]
        /\ \A i \in 1..Len(more) : (old \o more)[Len(old) + i] = more[i]
    BY JoinedSequence
  <1>2. Len(old) \in Nat /\ Len(more) \in Nat
    BY DEF IsSequence
  <1>3. ASSUME NEW i \in 1..Len(old) + Len(more) PROVE (old \o more)[i] = P[place + i]
    <2>1. CASE i <= Len(old)
      BY <1>1, <1>2, <2>1
    <2>2. CASE i > Len(old)
      <3>1. i - Len(old) \in 1..Len(more) /\ Len(old) + (i - Len(old)) = i
            /\ place + Len(old) + (i - Len(old)) = place + i
        BY <1>2, <2>2
      <3> QED
        BY <1>1, <3>1
    <2> QED
      BY <1>2, <2>1, <2>2
  <1> QED
    BY <1>1, <1>3

(* A turn that makes the next part of the outcome. *)
MakesMore(h, more) ==
  /\ IsSequence(more) /\ behind'[h] = behind[h] \o more
  /\ \A i \in 1..Len(more) : more[i] = Outcome(h)[MadeLength(h) + i]
  /\ MadeLength(h)' = MadeLength(h) + Len(more)
  /\ turns'[h] = turns[h] - 1 /\ Len(fed'[h]) = Len(fed[h]) + 1
  /\ UNCHANGED <<content, at, request, written, taken>> /\ reply'[h] = reply[h]

LEMMA PutsBehind ==
  ASSUME FilesTyped, NEW h \in Handler, at[h] = "loop", Working(h),
         NEW more, MakesMore(h, more)
  PROVE  Working(h)'
  <1> DEFINE c == content[request[h].target]
             P == Outcome(h)
  <1>0. /\ IsSequence(more) /\ behind'[h] = behind[h] \o more
        /\ \A i \in 1..Len(more) : more[i] = P[MadeLength(h) + i]
        /\ MadeLength(h)' = MadeLength(h) + Len(more)
        /\ turns'[h] = turns[h] - 1 /\ Len(fed'[h]) = Len(fed[h]) + 1
        /\ content' = content /\ at' = at /\ request' = request /\ written' = written
        /\ taken' = taken /\ reply'[h] = reply[h]
    BY DEF MakesMore
  <1>1. /\ IsSequence(behind[h]) /\ IsSequence(fed[h]) /\ IsSequence(c)
        /\ turns[h] \in Nat
    BY DEF FilesTyped, HandlerTyped, Request
  <1>2. /\ turns[h] + Len(fed[h]) = Len(taken[h]) /\ reply[h] = "none"
        /\ written[h] = Len(c)
        /\ Len(c) + Len(behind[h]) = MadeLength(h)
        /\ \A i \in 1..Len(c) : c[i] = P[i]
        /\ \A i \in 1..Len(behind[h]) : behind[h][i] = P[Len(c) + i]
    BY DEF Working
  <1>3. Len(c) \in Nat /\ Len(behind[h]) \in Nat /\ Len(fed[h]) \in Nat /\ Len(more) \in Nat
    BY <1>0, <1>1 DEF IsSequence
  <1>4. /\ Len(behind'[h]) = Len(behind[h]) + Len(more)
        /\ \A i \in 1..Len(behind'[h]) : behind'[h][i] = P[Len(c) + i]
    <2>1. \A i \in 1..Len(more) : more[i] = P[Len(c) + Len(behind[h]) + i]
      BY <1>0, <1>2
    <2> DEFINE n == Len(c)
               old == behind[h]
               new == old \o more
    <2> HIDE DEF c, P
    <2>2. n \in Nat /\ IsSequence(old) /\ IsSequence(more)
          /\ (\A i \in 1..Len(old) : old[i] = P[n + i])
          /\ (\A i \in 1..Len(more) : more[i] = P[n + Len(old) + i])
      BY <1>0, <1>1, <1>2, <1>3, <2>1
    <2>3. behind'[h] = new
      BY <1>0
    <2> HIDE DEF n, old
    <2>4. Len(new) = Len(old) + Len(more) /\ \A i \in 1..Len(new) : new[i] = P[n + i]
      BY <2>2, AddsToBuffer
    <2> HIDE DEF new
    <2> QED
      BY <2>3, <2>4 DEF n, old
  <1>5. Outcome(h)' = P
    BY <1>0 DEF Outcome
  <1>6. content'[request'[h].target] = c
    BY <1>0
  <1>7. Len(c) + Len(behind'[h]) = MadeLength(h)'
    <2> HIDE DEF c
    <2> QED
      BY <1>0, <1>2, <1>3, <1>4
  <1>8. turns'[h] + Len(fed'[h]) = Len(taken'[h])
    <2> DEFINE t == turns[h]
               m == Len(fed[h])
               k == Len(taken[h])
    <2>1. t \in Nat /\ m \in Nat /\ t + m = k
      BY <1>1, <1>2, <1>3
    <2>2. turns'[h] = t - 1 /\ Len(fed'[h]) = m + 1 /\ taken'[h] = taken[h]
      BY <1>0
    <2> HIDE DEF t, m
    <2> QED
      BY <2>1, <2>2
  <1> HIDE DEF c, P
  <1> QED
    BY <1>0, <1>2, <1>4, <1>5, <1>6, <1>7, <1>8 DEF Working

LEMMA EncipherWorking ==
  ASSUME FilesTyped, NEW h \in Handler, FileTurn(h), Alone(h), Working(h), request[h].do_encrypt
  PROVE  Working(h)'
  <1> DEFINE T == taken[h]
             k == Len(fed[h])
             x == CipherBlock(SubSeq(T, 1, k + 1))
             last == IF turns[h] = 1 THEN <<CipherBlock(Append(T, PaddingBlock))>> ELSE <<>>
             more == <<x>> \o last
             P == Outcome(h)
  <1>1. /\ HandlerTyped(h) /\ Sensible(h) /\ at[h] = "loop"
        /\ UNCHANGED <<content, at, request, written, taken>>
        /\ turns[h] \in Nat \ {0} /\ Len(ahead[h]) > 0
        /\ fed'[h] = Append(fed[h], ahead[h][1])
        /\ Encipher(h, ahead[h][1])
    BY FileTurnEffect DEF FilesTyped, Sensible
  <1>2. /\ IsSequence(fed[h]) /\ IsSequence(ahead[h]) /\ IsSequence(behind[h]) /\ IsSequence(T)
        /\ k \in Nat /\ Len(T) \in Nat
    BY <1>1 DEF HandlerTyped, IsSequence
  <1>3. /\ turns[h] + k = Len(T)
        /\ k + Len(ahead[h]) <= Len(T)
        /\ \A i \in 1..k : fed[h][i] = T[i]
        /\ \A i \in 1..Len(ahead[h]) : ahead[h][i] = T[k + i]
    BY <1>1 DEF Working, Alone
  <1>4. Append(fed[h], ahead[h][1]) = SubSeq(T, 1, k + 1) /\ Len(fed'[h]) = k + 1
    <2> DEFINE f == fed[h]
               a == ahead[h]
    <2>1. /\ IsSequence(f) /\ IsSequence(a) /\ Len(a) > 0 /\ Len(T) \in Nat
          /\ Len(f) + Len(a) <= Len(T)
          /\ \A i \in 1..Len(f) : f[i] = T[i]
          /\ \A i \in 1..Len(a) : a[i] = T[Len(f) + i]
      BY <1>1, <1>2, <1>3
    <2> HIDE DEF T, f, a
    <2>2. GoesThrough(T, f, a)
      BY <2>1 DEF GoesThrough
    <2>3. Append(f, a[1]) = SubSeq(T, 1, Len(f) + 1) /\ Len(Append(f, a[1])) = Len(f) + 1
      BY <2>2, TakesOn DEF TakesNext
    <2> QED
      BY <1>1, <2>3 DEF f, a
  <1>5. T # <<>> /\ k + 1 \in 1..Len(T)
    BY <1>1, <1>2, <1>3, EmptyIsSequence
  <1>6. /\ IsSequence(P) /\ Len(P) = Len(T) + 1
        /\ \A i \in 1..Len(T) : P[i] = CipherBlock(SubSeq(T, 1, i))
        /\ P[Len(T) + 1] = CipherBlock(Append(T, PaddingBlock))
    <2>1. P = FileImage(T)
      BY DEF Outcome
    <2> HIDE DEF T, P
    <2> QED
      BY <1>2, <1>5, <2>1, FileImageProperties
  <1>7. turns[h] = 1 => Append(fed[h], ahead[h][1]) = T
    <2>1. ASSUME turns[h] = 1 PROVE k + 1 = Len(T)
      BY <1>2, <1>3, <2>1
    <2>2. /\ IsSequence(SubSeq(T, 1, Len(T))) /\ Len(SubSeq(T, 1, Len(T))) = Len(T)
          /\ \A i \in 1..Len(T) : SubSeq(T, 1, Len(T))[i] = T[i]
      BY <1>2, PartOfSequence
    <2>3. SubSeq(T, 1, Len(T)) = T
      <3> HIDE DEF T
      <3> QED
        BY <1>2, <2>2, SameSequence
    <2> QED
      BY <1>4, <2>1, <2>3
  <1>8. /\ behind'[h] = behind[h] \o <<x>> \o last
        /\ turns'[h] = turns[h] - 1 /\ reply'[h] = reply[h]
    BY <1>1, <1>4, <1>7 DEF Encipher, FilesTyped
  <1>9. /\ IsSequence(<<x>>) /\ Len(<<x>>) = 1 /\ <<x>>[1] = x
        /\ IsSequence(last) /\ Len(last) = IF turns[h] = 1 THEN 1 ELSE 0
        /\ turns[h] = 1 => last[1] = CipherBlock(Append(T, PaddingBlock))
    BY OneBlock, EmptyIsSequence
  <1>10. /\ IsSequence(more) /\ Len(more) = 1 + Len(last)
         /\ more[1] = x
         /\ \A i \in 1..Len(last) : more[1 + i] = last[i]
         /\ behind'[h] = behind[h] \o more
    <2> DEFINE first == <<x>>
    <2>1. /\ IsSequence(first) /\ Len(first) = 1 /\ first[1] = x /\ IsSequence(last)
      BY <1>9
    <2> DEFINE old == behind[h]
    <2>2. behind'[h] = (old \o first) \o last /\ IsSequence(old)
      BY <1>2, <1>8
    <2> HIDE DEF first, x, last, old
    <2>3. (old \o first) \o last = old \o (first \o last)
      BY <2>1, <2>2, JoinedThrice
    <2>4. /\ IsSequence(first \o last)
          /\ Len(first \o last) = Len(first) + Len(last)
          /\ \A i \in 1..Len(first) : (first \o last)[i] = first[i]
          /\ \A i \in 1..Len(last) : (first \o last)[Len(first) + i] = last[i]
      <3>1. IsSequence(first) /\ IsSequence(last)
        BY <2>1
      <3> QED
        BY <3>1, JoinedSequence
    <2>5. /\ Len(first \o last) = 1 + Len(last)
          /\ (first \o last)[1] = x
          /\ \A i \in 1..Len(last) : (first \o last)[1 + i] = last[i]
      BY <2>1, <2>4
    <2> QED
      BY <2>2, <2>3, <2>4, <2>5 DEF first, old
  <1>11. MadeLength(h) = k
    BY <1>1 DEF MadeLength
  <1>12. \A i \in 1..Len(more) : more[i] = P[k + i]
    <2> TAKE i \in 1..Len(more)
    <2> HIDE DEF more, P, T, k, last
    <2>1. CASE i = 1
      BY <2>1, <1>5, <1>6, <1>10
    <2>2. CASE i # 1
      <3>1. turns[h] = 1 /\ i = 2 /\ k + i = Len(T) + 1 /\ Len(last) = 1
        BY <2>2, <1>1, <1>2, <1>3, <1>9, <1>10
      <3> QED
        BY <3>1, <1>6, <1>9, <1>10
    <2> QED
      BY <2>1, <2>2
  <1>13. MadeLength(h)' = k + Len(more)
    <2>1. /\ turns'[h] = 0 => MadeLength(h)' = Len(P)
          /\ turns'[h] # 0 => MadeLength(h)' = Len(fed'[h])
      BY <1>1 DEF MadeLength, Outcome
    <2> HIDE DEF more, P, T, k, last
    <2> QED
      BY <1>1, <1>2, <1>3, <1>4, <1>6, <1>8, <1>9, <1>10, <2>1
  <1>14. \A i \in 1..Len(more) : more[i] = Outcome(h)[MadeLength(h) + i]
    BY <1>11, <1>12
  <1>15. MadeLength(h)' = MadeLength(h) + Len(more)
    BY <1>11, <1>13
  <1> HIDE DEF more
  <1>16. MakesMore(h, more)
    BY <1>1, <1>4, <1>8, <1>10, <1>14, <1>15 DEF MakesMore
  <1> QED
    BY <1>1, <1>16, PutsBehind

LEMMA DecipherWorking ==
  ASSUME FilesTyped, NEW h \in Handler, FileTurn(h), Alone(h), Working(h), ~request[h].do_encrypt,
         IsImage(taken[h])
  PROVE  Working(h)'
  <1> DEFINE T == taken[h]
             k == Len(fed[h])
             more == IF fed[h] = <<>> THEN <<>>
                     ELSE <<Deciphered(Front(fed[h]), Last(fed[h]))>>
             P == Outcome(h)
  <1>1. /\ HandlerTyped(h) /\ Sensible(h) /\ at[h] = "loop"
        /\ UNCHANGED <<content, at, request, written, taken>>
        /\ turns[h] \in Nat \ {0} /\ Len(ahead[h]) > 0
        /\ fed'[h] = Append(fed[h], ahead[h][1])
        /\ Decipher(h, ahead[h][1])
    BY FileTurnEffect DEF FilesTyped, Sensible
  <1>2. /\ IsSequence(fed[h]) /\ IsSequence(ahead[h]) /\ IsSequence(behind[h]) /\ IsSequence(T)
        /\ k \in Nat /\ Len(T) \in Nat
    BY <1>1 DEF HandlerTyped, IsSequence
  <1>3. /\ turns[h] + k = Len(T)
        /\ k + Len(ahead[h]) <= Len(T)
        /\ \A i \in 1..k : fed[h][i] = T[i]
        /\ \A i \in 1..Len(ahead[h]) : ahead[h][i] = T[k + i]
    BY <1>1 DEF Working, Alone
  <1>4. ahead[h][1] = T[k + 1] /\ Len(fed'[h]) = k + 1
    <2>1. ahead[h][1] = T[k + 1]
      BY <1>1, <1>2, <1>3
    <2>2. Len(Append(fed[h], ahead[h][1])) = k + 1
      BY <1>2, AppendedSequence
    <2> QED
      BY <1>1, <2>1, <2>2
  <1>5. T # <<>> /\ k < Len(T)
    BY <1>1, <1>2, <1>3, EmptyIsSequence
  <1>6. fed[h] = SubSeq(T, 1, k)
    <2>1. /\ IsSequence(SubSeq(T, 1, k)) /\ Len(SubSeq(T, 1, k)) = k
          /\ \A i \in 1..k : SubSeq(T, 1, k)[i] = T[i]
      BY <1>2, PartOfSequence
    <2> HIDE DEF T
    <2> QED
      BY <1>2, <1>3, <2>1, SameSequence
  <1>7. P = TextOf(T) /\ IsSequence(P) /\ Len(P) = Len(T) - 1
    BY <1>2, <1>5, ImageTakenApart DEF Outcome
  <1>8. ASSUME turns[h] = 1 PROVE Deciphered(fed[h], ahead[h][1]) = PaddingBlock
    <2>1. k + 1 = Len(T)
      BY <1>2, <1>3, <1>8
    <2> HIDE DEF T, k
    <2> QED
      BY <1>2, <1>4, <1>5, <1>6, <2>1, ImageOpens DEF T
  <1>9. ASSUME fed[h] # <<>>
        PROVE  /\ k > 0 /\ Deciphered(Front(fed[h]), Last(fed[h])) = P[k]
    <2>1. k > 0 /\ k - 1 \in Nat /\ (k - 1) + 1 = k
      BY <1>2, <1>9, EmptyIsSequence
    <2>2. Last(fed[h]) = T[k]
      BY <1>2, <1>3, <2>1 DEF Last
    <2>3. Front(fed[h]) = SubSeq(T, 1, k - 1)
      <3>1. Front(fed[h]) = SubSeq(fed[h], 1, k - 1)
        BY DEF Front
      <3>2. /\ IsSequence(SubSeq(T, 1, k - 1)) /\ Len(SubSeq(T, 1, k - 1)) = k - 1
            /\ \A i \in 1..k - 1 : SubSeq(T, 1, k - 1)[i] = T[i]
        BY <2>1, PartOfSequence
      <3>3. /\ IsSequence(SubSeq(fed[h], 1, k - 1)) /\ Len(SubSeq(fed[h], 1, k - 1)) = k - 1
            /\ \A i \in 1..k - 1 : SubSeq(fed[h], 1, k - 1)[i] = fed[h][i]
        BY <2>1, PartOfSequence
      <3>4. \A i \in 1..k - 1 : fed[h][i] = T[i]
        BY <1>2, <1>3
      <3> HIDE DEF T, k
      <3> QED
        BY <3>1, <3>2, <3>3, <3>4, SameSequence
    <2>4. k - 1 < Len(T) /\ k # Len(T)
      BY <1>2, <1>5
    <2> HIDE DEF T, k
    <2>5. Deciphered(SubSeq(T, 1, k - 1), T[(k - 1) + 1])
            = IF (k - 1) + 1 = Len(T) THEN PaddingBlock ELSE TextOf(T)[(k - 1) + 1]
      BY <1>2, <1>5, <2>1, <2>4, ImageOpens DEF T
    <2> QED
      BY <1>7, <2>1, <2>2, <2>3, <2>4, <2>5
  <1>10. /\ IsSequence(more)
         /\ fed[h] = <<>> => Len(more) = 0
         /\ fed[h] # <<>> => Len(more) = 1 /\ more[1] = P[k]
    BY <1>9, OneBlock, EmptyIsSequence
  <1>11. /\ behind'[h] = behind[h] \o more
         /\ turns'[h] = turns[h] - 1 /\ reply'[h] = reply[h]
    <2>1. \/ turns[h] > 1 \/ Deciphered(fed[h], ahead[h][1]) = PaddingBlock
      BY <1>1, <1>8
    <2>2. /\ behind' = [behind EXCEPT ![h] = @ \o more \o <<>>]
          /\ turns' = [turns EXCEPT ![h] = @ - 1] /\ reply' = reply
      BY <1>1, <2>1 DEF Decipher
    <2>3. behind'[h] = behind[h] \o more \o <<>> /\ turns'[h] = turns[h] - 1
      <3> HIDE DEF more
      <3> QED
        BY <2>2 DEF FilesTyped
    <2>4. (behind[h] \o more) \o <<>> = behind[h] \o more
      <3> HIDE DEF more
      <3>1. IsSequence(behind[h] \o more)
        BY <1>2, <1>10, JoinedSequence
      <3>2. behind[h] \o more \in Seq(Elements(behind[h] \o more))
        BY <3>1, SequenceOfElements
      <3> QED
        BY <3>2, ConcatEmptySeq
    <2> QED
      BY <2>2, <2>3, <2>4
  <1>12. MadeLength(h) = IF fed[h] = <<>> THEN k ELSE k - 1
    BY <1>1 DEF MadeLength
  <1>13. \A i \in 1..Len(more) : more[i] = P[MadeLength(h) + i]
    <2> TAKE i \in 1..Len(more)
    <2> HIDE DEF more, P, k
    <2>1. fed[h] # <<>>
      BY <1>10
    <2>2. i = 1 /\ more[1] = P[k]
      <3>1. Len(more) = 1 /\ more[1] = P[k]
        BY <2>1, <1>10
      <3> QED
        BY <3>1
    <2>3. MadeLength(h) = k - 1
      BY <2>1, <1>12
    <2>4. MadeLength(h) + i = k
      BY <1>2, <2>2, <2>3
    <2> QED
      BY <2>2, <2>4
  <1>14. MadeLength(h)' = MadeLength(h) + Len(more)
    <2>1. fed'[h] # <<>>
      BY <1>2, <1>4, EmptyIsSequence
    <2>2. /\ turns'[h] = 0 => MadeLength(h)' = Len(P)
          /\ turns'[h] # 0 => MadeLength(h)' = k
      BY <1>1, <1>2, <1>4, <2>1 DEF MadeLength, Outcome
    <2>3. fed[h] = <<>> => k = 0
      BY EmptyIsSequence
    <2>4. MadeLength(h)' = k
      <3> HIDE DEF P, T, k
      <3>1. CASE turns[h] = 1
        BY <3>1, <1>2, <1>3, <1>7, <1>11, <2>2
      <3>2. CASE turns[h] # 1
        BY <3>2, <1>1, <1>11, <2>2
      <3> QED
        BY <3>1, <3>2
    <2>5. CASE fed[h] = <<>>
      BY <2>3, <2>4, <2>5, <1>10, <1>12
    <2>6. CASE fed[h] # <<>>
      <3>1. MadeLength(h) = k - 1 /\ Len(more) = 1 /\ k \in Nat
        BY <2>6, <1>2, <1>10, <1>12
      <3> HIDE DEF k, more
      <3> QED
        BY <2>4, <3>1
    <2> QED
      BY <2>5, <2>6
  <1>15. \A i \in 1..Len(more) : more[i] = Outcome(h)[MadeLength(h) + i]
    BY <1>13
  <1> HIDE DEF more
  <1>16. MakesMore(h, more)
    BY <1>1, <1>4, <1>10, <1>11, <1>14, <1>15 DEF MakesMore
  <1> QED
    BY <1>1, <1>16, PutsBehind

LEMMA FileTurnIntact ==
  ASSUME FilesInv, NEW g \in Handler, FileTurn(g), NEW h \in undisturbed'
  PROVE  Intact(h)'
  <1>1. /\ FilesTyped /\ HandlerTyped(g)
        /\ \A x \in Handler \ {g} : Same(x)
        /\ UNCHANGED <<content, at, request, written, handled, taken, undisturbed>>
        /\ at[g] = "loop" /\ Len(ahead[g]) > 0
        /\ fed'[g] = Append(fed[g], ahead[g][1])
        /\ ahead'[g] = Tail(ahead[g])
    BY FileTurnEffect DEF FilesInv, FilesTyped
  <1>2. CASE h # g
    BY <1>1, <1>2, OthersIntact
  <1>3. CASE h = g
    <2>1. Intact(g)
      BY <1>1, <1>3 DEF FilesInv
    <2>2. /\ IsSequence(fed[g]) /\ IsSequence(ahead[g]) /\ Len(taken[g]) \in Nat
          /\ Len(fed[g]) + Len(ahead[g]) <= Len(taken[g])
          /\ \A i \in 1..Len(fed[g]) : fed[g][i] = taken[g][i]
          /\ \A i \in 1..Len(ahead[g]) : ahead[g][i] = taken[g][Len(fed[g]) + i]
      BY <1>1, <2>1 DEF HandlerTyped, IsSequence, Intact, Alone
    <2>3. /\ Len(fed'[g]) = Len(fed[g]) + 1
          /\ Len(fed'[g]) + Len(ahead'[g]) <= Len(taken[g])
          /\ \A i \in 1..Len(fed[g]) + 1 : fed'[g][i] = taken[g][i]
          /\ \A i \in 1..Len(ahead'[g]) : ahead'[g][i] = taken[g][Len(fed[g]) + 1 + i]
      <3> DEFINE T == taken[g]
                 f == fed[g]
                 a == ahead[g]
      <3>1. /\ IsSequence(f) /\ IsSequence(a) /\ Len(a) > 0 /\ Len(T) \in Nat
            /\ Len(f) + Len(a) <= Len(T)
            /\ \A i \in 1..Len(f) : f[i] = T[i]
            /\ \A i \in 1..Len(a) : a[i] = T[Len(f) + i]
            /\ fed'[g] = Append(f, a[1]) /\ ahead'[g] = Tail(a)
        BY <1>1, <2>2
      <3> HIDE DEF T, f, a
      <3>2. TakesNext(T, f, a)
        <4>1. GoesThrough(T, f, a)
          BY <3>1 DEF GoesThrough
        <4> QED
          BY <4>1, TakesOn
      <3>3. /\ Len(Append(f, a[1])) = Len(f) + 1
            /\ Len(Append(f, a[1])) + Len(Tail(a)) <= Len(T)
            /\ \A i \in 1..Len(f) + 1 : Append(f, a[1])[i] = T[i]
            /\ \A i \in 1..Len(Tail(a)) : Tail(a)[i] = T[Len(f) + 1 + i]
        <4> DEFINE d == Append(f, a[1])
                   e == Tail(a)
        <4>1. Len(d) = Len(f) + 1 /\ (\A i \in 1..Len(f) + 1 : d[i] = T[i])
          BY <3>2 DEF TakesNext
        <4>2. Len(d) + Len(e) <= Len(T)
          BY <3>2 DEF TakesNext
        <4>3. \A i \in 1..Len(e) : e[i] = T[Len(f) + 1 + i]
          BY <3>2 DEF TakesNext
        <4> QED
          BY <4>1, <4>2, <4>3
      <3>4. /\ Len(fed'[g]) = Len(f) + 1
            /\ Len(fed'[g]) + Len(ahead'[g]) <= Len(T)
            /\ \A i \in 1..Len(f) + 1 : fed'[g][i] = T[i]
            /\ \A i \in 1..Len(ahead'[g]) : ahead'[g][i] = T[Len(f) + 1 + i]
        BY <3>1, <3>3
      <3> QED
        BY <3>4 DEF T, f, a
    <2>4. Alone(g)'
      BY <1>1, <2>1, <2>3 DEF Intact, Alone, Writes
    <2>5. Sensible(g)' => Sensible(g)
      BY <1>1 DEF Sensible
    <2>6. Sensible(g) => Working(g)'
      BY <1>1, <2>1, EncipherWorking, DecipherWorking DEF Intact, Sensible
    <2> QED
      BY <1>3, <2>4, <2>5, <2>6 DEF Intact
  <1> QED
    BY <1>2, <1>3

LEMMA FlushIntact ==
  ASSUME FilesInv, ~IsSequence(Missing), NEW g \in Handler, Flush(g), NEW h \in undisturbed'
  PROVE  Intact(h)'
  <1> DEFINE f == request[g].target
  <1>1. /\ FilesTyped /\ HandlerTyped(g) /\ at[g] = "loop"
        /\ \A x \in File : x # f => content'[x] = content[x]
        /\ \A x \in Handler \ {g} : Same(x)
    BY FlushTyped DEF FilesInv, FilesTyped
  <1>2. /\ behind'[g] = <<>>
        /\ UNCHANGED <<at, request, turns, fed, ahead, reply, handled, taken>>
    BY <1>1 DEF Flush, FilesTyped
  <1>3. h \in undisturbed /\ h \in Handler /\ Intact(h)
    BY <1>1 DEF Flush, FilesInv, FilesTyped
  <1>4. /\ request[h].source \in File /\ request[h].target \in File
    BY <1>1, <1>3, FilesInUse
  <1>5. \A y : \A x \in Handler : Writes(x, y)' <=> Writes(x, y)
    BY <1>2 DEF Writes
  <1>6. at[h] # "idle" => request[h].source # f
    BY <1>1, <1>3 DEF Intact, Alone, Writes
  <1>7. CASE h # g
    <2>1. at[h] # "source" => request[h].target # f
      BY <1>1, <1>3, <1>7 DEF Intact, Alone, Writes
    <2>2. Same(h)
      BY <1>1, <1>3, <1>7
    <2> QED
      BY <1>1, <1>2, <1>3, <1>4, <1>5, <1>6, <2>1, <2>2, IntactWhenSame DEF Writes
  <1>8. CASE h = g
    <2> DEFINE c == content[f]
               b == behind[g]
               P == Outcome(g)
               k == Len(b)
    <2>1. /\ IsSequence(b) /\ IsSequence(c) /\ f \in File /\ k \in Nat /\ Len(c) \in Nat
      <3>1. f \in File /\ content[f] # Missing
        BY <1>1 DEF HandlerTyped, Request
      <3> QED
        BY <1>1, <3>1 DEF HandlerTyped, FilesTyped, IsSequence
    <2>2. k # 0
      BY <2>1, EmptyIsSequence DEF Flush
    <2>3. /\ content'[f] = Overwritten(c, written[g], SubSeq(b, 1, k))
          /\ written'[g] = written[g] + k
      <3>1. PICK n \in 0..k :
              /\ content' = [content EXCEPT ![f] =
                               IF n = 0 THEN @ ELSE Overwritten(@, written[g], SubSeq(b, 1, n))]
              /\ written' = [written EXCEPT ![g] = @ + n]
              /\ undisturbed' = IF n < k THEN undisturbed \ {g} ELSE undisturbed
        BY DEF Flush
      <3>2. n = k
        BY <1>8, <2>1, <3>1
      <3>3. DOMAIN content = File
        BY <1>1 DEF FilesTyped
      <3>4. DOMAIN written = Handler
        BY <1>1 DEF FilesTyped
      <3>5. written'[g] = written[g] + k
        BY <3>1, <3>2, <3>4
      <3>6. content' = [content EXCEPT ![f] = Overwritten(content[f], written[g], SubSeq(b, 1, k))]
        BY <2>2, <3>1, <3>2
      <3> QED
        BY <2>1, <3>3, <3>5, <3>6
    <2>4. SubSeq(b, 1, k) = b
      <3> HIDE DEF b
      <3>1. /\ IsSequence(SubSeq(b, 1, k)) /\ Len(SubSeq(b, 1, k)) = k
            /\ \A i \in 1..k : SubSeq(b, 1, k)[i] = b[i]
        BY <2>1, PartOfSequence
      <3> QED
        BY <2>1, <3>1, SameSequence
    <2>5. Alone(g)'
      <3>1. content'[request[g].source] = content[request[g].source]
        BY <1>1, <1>4, <1>6, <1>8
      <3>2. content'[f] # Missing
        <4>1. FilesTyped'
          BY <1>1, FlushTyped
        <4>2. at'[g] = "loop" /\ request'[g] = request[g]
          BY <1>1, <1>2
        <4> QED
          BY <4>1, <4>2 DEF FilesTyped, HandlerTyped
      <3> QED
        BY <1>1, <1>2, <1>3, <1>5, <1>8, <3>1, <3>2 DEF Intact, Alone
    <2>6. ASSUME Sensible(g)' PROVE Working(g)'
      <3>1. Sensible(g) /\ Outcome(g)' = P /\ MadeLength(g)' = MadeLength(g)
        BY <1>2, <2>6 DEF Sensible, Outcome, MadeLength
      <3>2. /\ reply[g] = "none" /\ turns[g] + Len(fed[g]) = Len(taken[g])
            /\ written[g] = Len(c) /\ Len(c) + k = MadeLength(g)
            /\ \A i \in 1..Len(c) : c[i] = P[i]
            /\ \A i \in 1..k : b[i] = P[Len(c) + i]
        BY <1>1, <1>3, <1>8, <3>1 DEF Intact, Working
      <3> DEFINE d == content'[f]
      <3>3. /\ Len(d) = Len(c) + k
            /\ \A i \in 1..Len(c) : d[i] = c[i]
            /\ \A i \in 1..k : d[Len(c) + i] = b[i]
        <4> DEFINE w == written[g]
                   o == Overwritten(c, w, b)
        <4>1. d = o /\ w = Len(c) /\ w \in Nat
          BY <2>1, <2>3, <2>4, <3>2
        <4>2. IsSequence(c) /\ IsSequence(b) /\ w \in Nat /\ w = Len(c)
          BY <2>1, <4>1
        <4> HIDE DEF c, b, w, d
        <4>3. /\ Len(o) = Len(c) + k
              /\ \A i \in 1..Len(c) : o[i] = c[i]
              /\ \A i \in 1..k : o[Len(c) + i] = b[i]
          BY <4>2, OverwrittenAtEnd
        <4> HIDE DEF o
        <4> QED
          BY <4>1, <4>3
      <3>4. \A i \in 1..Len(d) : d[i] = P[i]
        <4> HIDE DEF c, b, d, P, k
        <4> TAKE i \in 1..Len(d)
        <4>1. CASE i <= Len(c)
          BY <2>1, <3>2, <3>3, <4>1
        <4>2. CASE i > Len(c)
          <5>1. i - Len(c) \in 1..k /\ Len(c) + (i - Len(c)) = i
            BY <2>1, <3>3, <4>2
          <5>2. d[Len(c) + (i - Len(c))] = b[i - Len(c)] /\ b[i - Len(c)] = P[Len(c) + (i - Len(c))]
            BY <3>2, <3>3, <5>1
          <5> QED
            BY <5>1, <5>2
        <4> QED
          BY <2>1, <3>3, <4>1, <4>2
      <3>5. written'[g] = Len(d) /\ Len(d) + Len(<<>>) = MadeLength(g)'
        <4>1. Len(<<>>) = 0
          BY EmptyIsSequence
        <4> HIDE DEF d, c, k
        <4>2. Len(d) = Len(c) + k /\ Len(d) \in Nat
          BY <2>1, <3>3
        <4> QED
          BY <2>3, <3>1, <3>2, <4>1, <4>2
      <3>6. content'[request'[g].target] = d
        BY <1>2
      <3>7. turns'[g] + Len(fed'[g]) = Len(taken'[g]) /\ reply'[g] = "none" /\ at'[g] = "loop"
        BY <1>1, <1>2, <3>2
      <3>8. \A i \in 1..Len(behind'[g]) : behind'[g][i] = P[Len(d) + i]
        BY <1>2, EmptyIsSequence
      <3> HIDE DEF d, P
      <3> QED
        BY <1>2, <3>1, <3>4, <3>5, <3>6, <3>7, <3>8 DEF Working
    <2> QED
      BY <1>8, <2>5, <2>6 DEF Intact
  <1> QED
    BY <1>7, <1>8

(* In the loop, the target has a beginning of the outcome. *)
LEMMA BeginningOfOutcome ==
  ASSUME FilesTyped, NEW h \in Handler, Intact(h), Sensible(h), at[h] = "loop"
  PROVE  /\ IsPrefix(content[request[h].target], Outcome(h))
         /\ turns[h] = 0 /\ behind[h] = <<>> => content[request[h].target] = Outcome(h)
  <1> DEFINE c == content[request[h].target]
             P == Outcome(h)
             k == Len(fed[h])
             m == Len(behind[h])
             n == Len(c)
  <1>1. /\ IsSequence(c) /\ IsSequence(P) /\ IsSequence(taken[h]) /\ Working(h)
        /\ k \in Nat /\ m \in Nat /\ n \in Nat /\ Len(P) \in Nat /\ turns[h] \in Nat
        /\ Len(taken[h]) \in Nat
    <2>1. HandlerTyped(h) /\ Working(h) /\ request[h].target \in File
          /\ content[request[h].target] # Missing
      BY FilesInUse DEF FilesTyped, Intact
    <2>2. IsSequence(c) /\ IsSequence(P)
      BY <2>1, OutcomeProperties DEF FilesTyped
    <2> QED
      BY <2>1, <2>2 DEF FilesTyped, HandlerTyped, IsSequence
  <1>2. /\ turns[h] + k = Len(taken[h]) /\ n + m = MadeLength(h)
        /\ \A i \in 1..n : c[i] = P[i]
    BY <1>1 DEF Working
  <1>3. MadeLength(h) <= Len(P)
    <2>1. CASE turns[h] = 0
      BY <1>1, <2>1 DEF MadeLength
    <2>2. CASE turns[h] # 0
      <3>1. k < Len(taken[h]) /\ taken[h] # <<>>
        BY <1>1, <1>2, <2>2, EmptyIsSequence
      <3>2. Len(P) = IF request[h].do_encrypt THEN Len(taken[h]) + 1 ELSE Len(taken[h]) - 1
        BY <3>1, OutcomeProperties
      <3>3. fed[h] = <<>> => k = 0
        BY EmptyIsSequence
      <3>4. MadeLength(h) = IF request[h].do_encrypt \/ fed[h] = <<>> THEN k ELSE k - 1
        BY <2>2 DEF MadeLength
      <3> HIDE DEF P, k
      <3> QED
        BY <1>1, <3>1, <3>2, <3>3, <3>4
    <2> QED
      BY <2>1, <2>2
  <1>4. IsPrefix(c, P)
    <2>1. n <= Len(P)
      <3> HIDE DEF n, m, P
      <3> QED
        BY <1>1, <1>2, <1>3
    <2> HIDE DEF c, P
    <2> QED
      BY <1>1, <1>2, <2>1, PrefixByElements
  <1>5. ASSUME turns[h] = 0, behind[h] = <<>> PROVE c = P
    <2>1. n = Len(P)
      BY <1>1, <1>2, <1>5, EmptyIsSequence DEF MadeLength
    <2> HIDE DEF c, P
    <2> QED
      BY <1>1, <1>2, <2>1, SameSequence
  <1> QED
    BY <1>4, <1>5

LEMMA ReturnIntact ==
  ASSUME FilesInv, NEW g \in Handler, Return(g), NEW h \in undisturbed'
  PROVE  Intact(h)'
  <1>1. /\ FilesTyped /\ h \in undisturbed /\ content' = content /\ at'[g] = "idle"
        /\ request' = request /\ taken' = taken
        /\ at[g] = "loop" /\ turns[g] = 0 /\ behind[g] = <<>>
        /\ reply'[g] = IF reply[g] = "none" THEN "OK" ELSE reply[g]
        /\ \A x \in Handler : at'[x] = "loop" => at[x] = "loop"
    BY DEF Return, FilesInv, FilesTyped
  <1>2. \A x \in Handler \ {g} : Same(x)
    BY DEF Return, Emptied, Same, FilesInv, FilesTyped
  <1>3. CASE h # g
    BY <1>1, <1>2, <1>3, OthersIntact
  <1>4. CASE h = g
    <2>1. Intact(g)
      BY <1>1, <1>4 DEF FilesInv
    <2>2. Alone(g)'
      BY <1>1, <2>1 DEF Intact, Alone, Writes
    <2>3. ASSUME Sensible(g)' PROVE Working(g)'
      <3>1. Sensible(g) /\ Outcome(g)' = Outcome(g)
        BY <1>1, <2>3 DEF Sensible, Outcome
      <3>2. /\ IsPrefix(content[request[g].target], Outcome(g))
            /\ content[request[g].target] = Outcome(g)
        BY <1>1, <2>1, <3>1, BeginningOfOutcome
      <3>3. reply'[g] = "OK"
        BY <1>1, <2>1, <3>1 DEF Intact, Working
      <3> QED
        BY <1>1, <3>1, <3>2, <3>3 DEF Working
    <2> QED
      BY <1>4, <2>2, <2>3 DEF Intact
  <1> QED
    BY <1>3, <1>4

LEMMA EndOfProcessIntact ==
  ASSUME FilesInv, EndOfProcess, NEW h \in undisturbed'
  PROVE  Intact(h)'
  <1>1. /\ FilesTyped /\ h \in Handler /\ h \in undisturbed /\ at[h] # "source"
        /\ \A x \in Handler : at'[x] = "idle"
        /\ reply'[h] = IF at[h] = "idle" THEN reply[h] ELSE "none"
        /\ content' = content /\ request' = request /\ taken' = taken
    BY DEF EndOfProcess, FilesInv, FilesTyped
  <1>2. Intact(h)
    BY <1>1 DEF FilesInv
  <1>3. Alone(h)'
    BY <1>1, <1>2 DEF Intact, Alone, Writes
  <1>4. ASSUME Sensible(h)' PROVE Working(h)'
    <2>1. Sensible(h) /\ Outcome(h)' = Outcome(h)
      BY <1>1, <1>4 DEF Sensible, Outcome
    <2>2. CASE at[h] = "idle"
      BY <1>1, <1>2, <2>1, <2>2 DEF Intact, Working
    <2>3. CASE at[h] = "loop"
      <3>1. IsPrefix(content[request[h].target], Outcome(h))
        BY <1>1, <1>2, <2>1, <2>3, BeginningOfOutcome
      <3> QED
        BY <1>1, <2>1, <2>3, <3>1 DEF Working
    <2> QED
      BY <1>1, <2>2, <2>3 DEF FilesTyped
  <1> QED
    BY <1>3, <1>4 DEF Intact

(* Every step of every handler keeps the invariant. *)
LEMMA FilesInvStep ==
  ASSUME ~IsSequence(Missing), FilesInv, [FilesNext]_fileVars
  PROVE  FilesInv'
  <1>1. FilesTyped
    BY DEF FilesInv
  <1>2. ASSUME NEW f \in File, PutFile(f) PROVE FilesInv'
    BY <1>1, <1>2, PutFileTyped, PutFileIntact DEF FilesInv
  <1>3. CASE RemoveFiles
    <2>1. undisturbed' = {}
      BY <1>3 DEF RemoveFiles
    <2> QED
      BY <1>1, <1>3, <2>1, RemoveFilesTyped DEF FilesInv
  <1>4. ASSUME NEW h \in Handler, NEW r \in Request, OpenSource(h, r) PROVE FilesInv'
    BY <1>1, <1>4, OpenSourceTyped, OpenSourceIntact DEF FilesInv
  <1>5. ASSUME NEW h \in Handler, OpenTarget(h) PROVE FilesInv'
    BY <1>1, <1>5, OpenTargetTyped, OpenTargetIntact DEF FilesInv
  <1>6. ASSUME NEW h \in Handler, OpenTargetFails(h) PROVE FilesInv'
    BY <1>1, <1>6, OpenTargetFailsTyped, OpenTargetFailsIntact DEF FilesInv
  <1>7. ASSUME NEW h \in Handler, ReadAhead(h) PROVE FilesInv'
    BY <1>1, <1>7, ReadAheadTyped, ReadAheadIntact DEF FilesInv
  <1>8. ASSUME NEW h \in Handler, FileTurn(h) PROVE FilesInv'
    BY <1>1, <1>8, FileTurnTyped, FileTurnIntact DEF FilesInv
  <1>9. ASSUME NEW h \in Handler, Flush(h) PROVE FilesInv'
    BY <1>1, <1>9, FlushTyped, FlushIntact DEF FilesInv
  <1>10. ASSUME NEW h \in Handler, Return(h) PROVE FilesInv'
    BY <1>1, <1>10, ReturnTyped, ReturnIntact DEF FilesInv
  <1>11. CASE EndOfProcess
    BY <1>1, <1>11, EndOfProcessTyped, EndOfProcessIntact DEF FilesInv
  <1>12. CASE UNCHANGED fileVars
    <2>1. FilesTyped'
      BY <1>1, <1>12 DEF FilesTyped, HandlerTyped, fileVars
    <2>2. /\ \A h \in Handler : Same(h)
          /\ content' = content /\ undisturbed' = undisturbed
          /\ at' = at /\ request' = request
      BY <1>12 DEF fileVars, Same
    <2>3. ASSUME NEW h \in undisturbed PROVE Intact(h)'
      <3>1. h \in Handler /\ Intact(h)
        BY <1>1 DEF FilesInv, FilesTyped
      <3>2. \A g \in Handler : (Writes(g, request[h].source)' => Writes(g, request[h].source))
                               /\ (Writes(g, request[h].target)' => Writes(g, request[h].target))
        BY <2>2 DEF Writes
      <3> QED
        BY <2>2, <3>1, <3>2, IntactWhenSame
    <2> QED
      BY <2>1, <2>2, <2>3 DEF FilesInv
  <1> QED
    BY <1>2, <1>3, <1>4, <1>5, <1>6, <1>7, <1>8, <1>9, <1>10, <1>11, <1>12 DEF FilesNext

LEMMA FilesInvWhole == FilesInv => FilesAreWhole
  <1> SUFFICES ASSUME FilesInv, NEW h \in undisturbed, at[h] # "source",
                      request[h].do_encrypt \/ IsImage(taken[h])
               PROVE  LET c == content[request[h].target]
                          whole == IF request[h].do_encrypt THEN FileImage(taken[h])
                                   ELSE TextOf(taken[h]) IN
                      /\ IsPrefix(c, whole)
                      /\ at[h] = "idle" => reply[h] # "INTERNAL" /\ (reply[h] = "OK" => c = whole)
    BY DEF FilesAreWhole
  <1>1. FilesTyped /\ h \in Handler /\ Intact(h) /\ Sensible(h)
    BY DEF FilesInv, FilesTyped, Sensible
  <1>2. CASE at[h] = "idle"
    BY <1>1, <1>2 DEF Intact, Working, Outcome
  <1>3. CASE at[h] = "loop"
    BY <1>1, <1>3, BeginningOfOutcome DEF Outcome
  <1> QED
    BY <1>1, <1>2, <1>3 DEF FilesTyped

(* For any texts, handlers and files: as long as nobody else writes to its *)
(* files and the disk takes what it is given, a handler leaves in its      *)
(* target the whole outcome and at any moment a beginning of it.  That no  *)
(* file is there must not look like a text: Missing is no sequence.        *)
THEOREM FilesStayWhole ==
  ASSUME ~IsSequence(Missing)
  PROVE  FilesSpec => []FilesAreWhole
  <1>1. FilesInit => FilesInv
    BY FilesTypedInit DEF FilesInit, FilesInv
  <1>2. FilesInv /\ [FilesNext]_fileVars => FilesInv'
    BY FilesInvStep
  <1> QED
    BY <1>1, <1>2, FilesInvWhole, PTL DEF FilesSpec

--------------------------------------------------------------------------------
(* CTR mode: the counter as a number *)

LEMMA SumOfRest ==
  ASSUME NEW b \in Nat \ {0}, NEW x \in Nat, NEW n \in Nat
  PROVE  ((x % b) + n) % b = (x + n) % b
  <1> DEFINE q == x \div b
             r == x % b
             s == (r + n) \div b
             t == (r + n) % b
  <1>1. q \in Nat /\ r \in 0..(b - 1) /\ x = q * b + r
    BY DivisionWithRest
  <1> HIDE DEF q, r
  <1>2. r + n \in Nat
    BY <1>1
  <1>3. s \in Nat /\ t \in 0..(b - 1) /\ r + n = s * b + t
    BY <1>2, DivisionWithRest
  <1> HIDE DEF s, t
  <1>4. x + n = (q + s) * b + t
    BY <1>1, <1>3, SMT
  <1> DEFINE u == q + s
  <1>5. u \in Nat
    BY <1>1, <1>3
  <1> HIDE DEF u
  <1>6. (u * b + t) % b = t
    BY <1>3, <1>5, DivisionUnique
  <1> QED
    BY <1>4, <1>6 DEF t, r, u

LEMMA RestsDiffer ==
  ASSUME NEW b \in Nat \ {0}, NEW x \in Nat, NEW m \in 0..(b - 1), NEW n \in 0..(b - 1),
         (x + m) % b = (x + n) % b
  PROVE  m = n
  <1> DEFINE y == x + m
             z == x + n
             q == y \div b
             p == z \div b
             r == y % b
  <1>1. y \in Nat /\ z \in Nat /\ y % b = z % b
    OBVIOUS
  <1>2. y = x + m /\ z = x + n
    OBVIOUS
  <1> HIDE DEF y, z
  <1>3. q \in Nat /\ r \in 0..(b - 1) /\ x + m = q * b + r
    BY <1>1, <1>2, DivisionWithRest
  <1>4. p \in Nat /\ x + n = p * b + r
    BY <1>1, <1>2, DivisionWithRest
  <1> HIDE DEF q, p, r
  <1>5. p = q
    <2>1. \A k \in Nat \ {0} : k * b >= b
      BY SMT
    <2>2. ASSUME p > q PROVE FALSE
      <3>1. (p - q) * b = n - m
        BY <1>3, <1>4, SMT
      <3>2. (p - q) * b >= b
        BY <1>3, <1>4, <2>1, <2>2
      <3> QED
        BY <3>1, <3>2
    <2>3. ASSUME q > p PROVE FALSE
      <3>1. (q - p) * b = m - n
        BY <1>3, <1>4, SMT
      <3>2. (q - p) * b >= b
        BY <1>3, <1>4, <2>1, <2>3
      <3> QED
        BY <3>1, <3>2
    <2> QED
      BY <1>3, <1>4, <2>2, <2>3
  <1> QED
    BY <1>3, <1>4, <1>5

--------------------------------------------------------------------------------
(* How many counters there are. *)
All == WordSize * WordSize

(* A counter is one number, below WordSize times WordSize. *)
LEMMA CounterIsNumber ==
  ASSUME NEW c \in Counter
  PROVE  Number(c) \in 0..(All - 1) /\ c = <<Number(c) \div WordSize, Number(c) % WordSize>>
  <1>1. WordSize \in Nat \ {0}
    BY CtrAssumption
  <1>2. PICK hi \in Word, lo \in Word : c = <<hi, lo>>
    BY DEF Counter
  <1>3. hi \in 0..(WordSize - 1) /\ lo \in 0..(WordSize - 1) /\ Number(c) = hi * WordSize + lo
    BY <1>2 DEF Word, Number
  <1>4. hi * WordSize <= (WordSize - 1) * WordSize /\ hi * WordSize >= 0
    BY <1>1, <1>3, SMT
  <1>5. (WordSize - 1) * WordSize + WordSize = All /\ hi * WordSize \in Int /\ All \in Nat
    BY <1>1, <1>3, SMT DEF All
  <1>6. Number(c) \in 0..(All - 1)
    BY <1>1, <1>3, <1>4, <1>5
  <1>7. Number(c) \div WordSize = hi /\ Number(c) % WordSize = lo
    <2>1. hi \in Nat
      BY <1>1, <1>3
    <2>2. (hi * WordSize + lo) \div WordSize = hi /\ (hi * WordSize + lo) % WordSize = lo
      BY <1>1, <1>3, <2>1, DivisionUnique
    <2> QED
      BY <1>3, <2>2
  <1> QED
    BY <1>2, <1>6, <1>7

LEMMA AllIsNat == All \in Nat \ {0}
  <1>1. WordSize \in Nat \ {0}
    BY CtrAssumption
  <1> QED
    BY <1>1, SMT DEF All

(* The counter whose number it is. *)
LEMMA NumberIsCounter ==
  ASSUME NEW n \in 0..(All - 1)
  PROVE  /\ <<n \div WordSize, n % WordSize>> \in Counter
         /\ Number(<<n \div WordSize, n % WordSize>>) = n
  <1> DEFINE q == n \div WordSize
             r == n % WordSize
  <1>1. WordSize \in Nat \ {0} /\ n \in Nat /\ n < All
    BY CtrAssumption, AllIsNat
  <1>2. q \in Nat /\ r \in 0..(WordSize - 1) /\ n = q * WordSize + r
    BY <1>1, DivisionWithRest
  <1> HIDE DEF q, r
  <1>3. q < WordSize
    <2> SUFFICES ASSUME q >= WordSize PROVE FALSE
      BY <1>1, <1>2
    <2>1. q * WordSize >= WordSize * WordSize
      BY <1>1, <1>2, SMT
    <2> QED
      BY <1>1, <1>2, <2>1, SMT DEF All
  <1>4. <<q, r>> \in Counter
    BY <1>1, <1>2, <1>3 DEF Counter, Word
  <1>5. Number(<<q, r>>) = n
    BY <1>2 DEF Number
  <1> QED
    BY <1>4, <1>5 DEF q, r

LEMMA CounterPlusProperties ==
  ASSUME NEW c \in Counter, NEW n \in Nat
  PROVE  /\ CounterPlus(c, n) \in Counter
         /\ Number(CounterPlus(c, n)) = (Number(c) + n) % All
  <1> DEFINE sum == (Number(c) + n) % All
  <1>1. Number(c) \in Nat
    BY CounterIsNumber, AllIsNat
  <1>2. sum \in 0..(All - 1)
    <2> DEFINE x == Number(c) + n
    <2>1. x \in Nat
      BY <1>1
    <2> HIDE DEF x
    <2>2. x % All \in 0..(All - 1)
      BY <2>1, AllIsNat, DivisionWithRest
    <2> QED
      BY <2>2 DEF x
  <1>3. CounterPlus(c, n) = <<sum \div WordSize, sum % WordSize>>
    BY DEF CounterPlus, All
  <1> HIDE DEF sum
  <1>4. CounterPlus(c, n) \in Counter /\ Number(CounterPlus(c, n)) = sum
    BY <1>2, <1>3, NumberIsCounter
  <1> QED
    BY <1>4 DEF sum

LEMMA SameNumber ==
  ASSUME NEW c \in Counter, NEW d \in Counter, Number(c) = Number(d)
  PROVE  c = d
  BY CounterIsNumber

(* Going on twice is going on once, by the sum. *)
LEMMA CounterPlusTwice ==
  ASSUME NEW c \in Counter, NEW m \in Nat, NEW n \in Nat
  PROVE  CounterPlus(CounterPlus(c, m), n) = CounterPlus(c, m + n)
  <1> DEFINE d == CounterPlus(c, m)
             e == CounterPlus(d, n)
             f == CounterPlus(c, m + n)
             x == Number(c)
  <1>1. x \in Nat /\ m + n \in Nat
    BY CounterIsNumber, AllIsNat
  <1>2. d \in Counter /\ Number(d) = (x + m) % All
    BY CounterPlusProperties
  <1>3. f \in Counter /\ Number(f) = (x + (m + n)) % All
    BY <1>1, CounterPlusProperties
  <1> HIDE DEF d, f
  <1>4. e \in Counter /\ Number(e) = (Number(d) + n) % All
    BY <1>2, CounterPlusProperties
  <1> HIDE DEF e, x
  <1>5. (((x + m) % All) + n) % All = ((x + m) + n) % All
    <2>1. x + m \in Nat
      BY <1>1
    <2> QED
      BY <2>1, AllIsNat, SumOfRest
  <1>6. (x + m) + n = x + (m + n)
    BY <1>1
  <1>7. e = f
    BY <1>2, <1>3, <1>4, <1>5, <1>6, SameNumber
  <1> QED
    BY <1>7 DEF d, e, f

LEMMA CounterPlusNothing ==
  ASSUME NEW c \in Counter
  PROVE  CounterPlus(c, 0) = c
  <1>1. Number(c) \in 0..(All - 1)
    BY CounterIsNumber
  <1>2. Number(c) + 0 = Number(c) /\ Number(c) = 0 * All + Number(c)
    BY <1>1, AllIsNat
  <1>3. Number(c) % All = Number(c)
    BY <1>1, <1>2, AllIsNat, DivisionUnique
  <1>4. CounterPlus(c, 0) \in Counter /\ Number(CounterPlus(c, 0)) = (Number(c) + 0) % All
    BY CounterPlusProperties
  <1> QED
    BY <1>2, <1>3, <1>4, SameNumber

(* Unless it goes all round, a counter does not come back. *)
LEMMA CountersDiffer ==
  ASSUME NEW c \in Counter, NEW m \in 0..(All - 1), NEW n \in 0..(All - 1),
         CounterPlus(c, m) = CounterPlus(c, n)
  PROVE  m = n
  <1>1. Number(c) \in Nat /\ m \in Nat /\ n \in Nat
    BY CounterIsNumber, AllIsNat
  <1>2. (Number(c) + m) % All = (Number(c) + n) % All
    BY <1>1, CounterPlusProperties
  <1> QED
    BY <1>1, <1>2, AllIsNat, RestsDiffer

(* The carry of class Counter is that of one number. *)
LEMMA IncrementIsPlusOne ==
  ASSUME NEW c \in Counter
  PROVE  Increment(c) = CounterPlus(c, 1)
  <1> DEFINE W == WordSize
  <1>1. W \in Nat /\ W > 1
    BY CtrAssumption
  <1>2. PICK hi \in Word, lo \in Word : c = <<hi, lo>>
    BY DEF Counter
  <1>3. hi \in 0..(W - 1) /\ lo \in 0..(W - 1) /\ Number(c) = hi * W + lo
    BY <1>2 DEF Word, Number
  <1>4. \A k \in 0..(W - 1) : k % W = k
    BY <1>1, SMT
  <1>5. W % W = 0
    BY <1>1, SMT
  <1>6. \A k \in 0..(All - 1) : k % All = k
    BY AllIsNat, SMT
  <1>7. All % All = 0
    BY AllIsNat, SMT
  <1>8. CounterPlus(c, 1) \in Counter /\ Number(CounterPlus(c, 1)) = (Number(c) + 1) % All
    BY CounterPlusProperties
  <1>9. Number(c) + 1 \in Nat /\ hi * W \in Nat
    BY <1>1, <1>3, SMT
  <1>10. CASE lo + 1 < W
    <2>1. (lo + 1) % W = lo + 1 /\ lo + 1 \in Word
      BY <1>1, <1>3, <1>4, <1>10 DEF Word
    <2>2. Increment(c) = <<hi, lo + 1>>
      BY <1>2, <1>3, <2>1 DEF Increment
    <2>3. Increment(c) \in Counter /\ Number(Increment(c)) = Number(c) + 1
      BY <1>2, <1>3, <1>9, <2>1, <2>2 DEF Counter, Number
    <2>4. Number(c) + 1 \in 0..(All - 1)
      BY <2>3, CounterIsNumber
    <2> QED
      BY <1>6, <1>8, <2>3, <2>4, SameNumber
  <1>11. CASE lo + 1 = W
    <2>1. (lo + 1) % W = 0 /\ 0 < lo /\ 0 \in Word
      BY <1>1, <1>3, <1>5, <1>11 DEF Word
    <2>2. Increment(c) = <<(hi + 1) % W, 0>>
      BY <1>2, <2>1 DEF Increment
    <2>3. Number(c) + 1 = (hi + 1) * W
      BY <1>1, <1>3, <1>11, SMT
    <2>4. CASE hi + 1 < W
      <3>1. (hi + 1) % W = hi + 1 /\ hi + 1 \in Word
        BY <1>1, <1>3, <1>4, <2>4 DEF Word
      <3>2. Increment(c) \in Counter /\ Number(Increment(c)) = Number(c) + 1
        BY <1>1, <1>3, <1>9, <2>1, <2>2, <2>3, <3>1 DEF Counter, Number
      <3>3. Number(c) + 1 \in 0..(All - 1)
        BY <3>2, CounterIsNumber
      <3> QED
        BY <1>6, <1>8, <3>2, <3>3, SameNumber
    <2>5. CASE hi + 1 = W
      <3>1. (hi + 1) % W = 0
        BY <1>5, <2>5
      <3>2. Increment(c) \in Counter /\ Number(Increment(c)) = 0
        BY <1>1, <2>1, <2>2, <3>1 DEF Counter, Number
      <3>3. Number(c) + 1 = All
        BY <2>3, <2>5 DEF All
      <3> QED
        BY <1>7, <1>8, <3>2, <3>3, SameNumber
    <2> QED
      BY <1>1, <1>3, <2>4, <2>5
  <1> QED
    BY <1>1, <1>3, <1>10, <1>11

(* The loop of GenerateCounterMask counts as AES_ctr128_encrypt does. *)
LEMMA CounterAfterIsPlus ==
  ASSUME NEW c \in Counter, NEW n \in Nat
  PROVE  CounterAfter(c, n) = CounterPlus(c, n)
  <1> DEFINE after[i \in 0..n] == IF i = 0 THEN c ELSE Increment(after[i - 1])
             f == [i \in 0..n |-> CounterPlus(c, i)]
  <1>1. f = [i \in 0..n |-> IF i = 0 THEN c ELSE Increment(f[i - 1])]
    <2>1. \A i \in 0..n : f[i] = IF i = 0 THEN c ELSE Increment(f[i - 1])
      <3> TAKE i \in 0..n
      <3>1. CASE i = 0
        BY <3>1, CounterPlusNothing
      <3>2. CASE i # 0
        <4>1. i - 1 \in Nat /\ i - 1 \in 0..n /\ (i - 1) + 1 = i
          BY <3>2
        <4>2. f[i - 1] = CounterPlus(c, i - 1) /\ CounterPlus(c, i - 1) \in Counter
          BY <4>1, CounterPlusProperties
        <4>3. Increment(f[i - 1]) = CounterPlus(c, (i - 1) + 1)
          BY <4>1, <4>2, IncrementIsPlusOne, CounterPlusTwice
        <4> QED
          BY <3>2, <4>1, <4>3
      <3> QED
        BY <3>1, <3>2
    <2> QED
      BY <2>1
  <1>2. after = [i \in 0..n |-> IF i = 0 THEN c ELSE Increment(after[i - 1])]
    <2> HIDE DEF f
    <2> QED
      BY <1>1, Zenon
  <1>3. CounterAfter(c, n) = after[n]
    BY DEF CounterAfter
  <1> HIDE DEF after
  <1> DEFINE T == {m \in Nat : m <= n => after[m] = f[m]}
  <1>4. 0 \in T
    <2>1. 0 \in 0..n
      OBVIOUS
    <2>2. after[0] = c
      BY <1>2, <2>1
    <2>3. f[0] = c
      BY <2>1, CounterPlusNothing
    <2> QED
      BY <2>2, <2>3
  <1>5. ASSUME NEW m \in Nat, m \in T PROVE m + 1 \in T
    <2> SUFFICES ASSUME m + 1 <= n PROVE after[m + 1] = f[m + 1]
      OBVIOUS
    <2> HIDE DEF f
    <2>1. m + 1 \in 0..n /\ m + 1 # 0 /\ (m + 1) - 1 = m /\ after[m] = f[m]
      BY <1>5
    <2>2. after[m + 1] = Increment(after[m])
      BY <1>2, <2>1
    <2>3. f[m + 1] = Increment(f[m])
      BY <1>1, <2>1
    <2> QED
      BY <2>1, <2>2, <2>3
  <1> HIDE DEF T
  <1>6. Nat \subseteq T
    BY <1>4, <1>5, InductionOverNat
  <1>7. n \in T => after[n] = f[n]
    <2> HIDE DEF f
    <2> QED
      BY DEF T
  <1>8. f[n] = CounterPlus(c, n)
    OBVIOUS
  <1> QED
    <2> HIDE DEF f
    <2> QED
      BY <1>3, <1>6, <1>7, <1>8

--------------------------------------------------------------------------------
(* Pieces and blocks *)

LEMMA CutsOfNothing == Cuts(<<>>) = {}
  <1>1. Len(<<>>) = 0
    OBVIOUS
  <1> QED
    BY <1>1 DEF Cuts

LEMMA CutsAppend ==
  ASSUME NEW U, NEW pieces \in Seq(Seq(U)), NEW p \in Seq(U)
  PROVE  Cuts(Append(pieces, p)) = Cuts(pieces) \cup {Len(FlattenSeq(pieces)) + Len(p)}
  <1> DEFINE more == Append(pieces, p)
             n == Len(pieces)
             At(s, k) == Len(FlattenSeq(SubSeq(s, 1, k)))
  <1>1. /\ more \in Seq(Seq(U)) /\ Len(more) = n + 1 /\ n \in Nat
        /\ \A i \in 1..n : more[i] = pieces[i]
    BY AppendProperties
  <1>2. \A k \in 1..n : At(more, k) = At(pieces, k)
    <2> HIDE DEF more
    <2> TAKE k \in 1..n
    <2>1. k \in Nat /\ \A i \in 1..k : more[i] = pieces[i]
      BY <1>1
    <2>2. /\ IsSequence(SubSeq(more, 1, k)) /\ Len(SubSeq(more, 1, k)) = k
          /\ \A i \in 1..k : SubSeq(more, 1, k)[i] = more[i]
      BY <2>1, PartOfSequence
    <2>3. /\ IsSequence(SubSeq(pieces, 1, k)) /\ Len(SubSeq(pieces, 1, k)) = k
          /\ \A i \in 1..k : SubSeq(pieces, 1, k)[i] = pieces[i]
      BY <2>1, PartOfSequence
    <2>4. SubSeq(more, 1, k) = SubSeq(pieces, 1, k)
      BY <2>1, <2>2, <2>3, SameSequence
    <2> QED
      BY <2>4
  <1>3. At(more, n + 1) = Len(FlattenSeq(pieces)) + Len(p)
    <2>1. SubSeq(more, 1, n + 1) = more
      <3> HIDE DEF more
      <3>1. n + 1 \in Nat /\ IsSequence(more)
        BY <1>1, IsSequenceIntro
      <3>2. /\ IsSequence(SubSeq(more, 1, n + 1)) /\ Len(SubSeq(more, 1, n + 1)) = n + 1
            /\ \A i \in 1..n + 1 : SubSeq(more, 1, n + 1)[i] = more[i]
        BY <3>1, PartOfSequence
      <3> QED
        BY <1>1, <3>1, <3>2, SameSequence
    <2>2. FlattenSeq(more) = FlattenSeq(pieces) \o p
      BY FlattenAppend
    <2>3. FlattenSeq(pieces) \in Seq(U)
      BY FlatIsSequence
    <2>4. Len(FlattenSeq(pieces) \o p) = Len(FlattenSeq(pieces)) + Len(p)
      BY <2>3
    <2> QED
      BY <2>1, <2>2, <2>4
  <1>4. Cuts(more) = {At(more, k) : k \in 1..n + 1}
    BY <1>1 DEF Cuts
  <1>5. Cuts(pieces) = {At(pieces, k) : k \in 1..n}
    BY DEF Cuts
  <1>6. 1..n + 1 = (1..n) \cup {n + 1}
    BY <1>1
  <1> HIDE DEF At, more
  <1> QED
    BY <1>2, <1>3, <1>4, <1>5, <1>6 DEF more

LEMMA BlocksForIsNat ==
  ASSUME NEW n \in Nat
  PROVE  /\ BlocksFor(n) \in Nat
         /\ BlocksFor(n) * BlockLength >= n
         /\ n # 0 => BlocksFor(n) = ((n - 1) \div BlockLength) + 1
  <1> DEFINE B == BlockLength
             x == n + B - 1
             q == x \div B
             r == x % B
  <1>1. B \in Nat \ {0} /\ B > 1
    BY CtrAssumption
  <1> HIDE DEF B
  <1>2. x \in Nat /\ x = n + B - 1
    BY <1>1
  <1> HIDE DEF x
  <1>3. q \in Nat /\ r \in 0..(B - 1) /\ x = q * B + r
    BY <1>1, <1>2, DivisionWithRest
  <1>4. BlocksFor(n) = q
    BY DEF BlocksFor, B, x
  <1> HIDE DEF q, r
  <1>5. q * B \in Int
    BY <1>1, <1>3, SMT
  <1>6. q * B >= n
    BY <1>1, <1>2, <1>3, <1>5
  <1>7. n # 0 => q = ((n - 1) \div B) + 1
    <2> SUFFICES ASSUME n # 0 PROVE q = ((n - 1) \div B) + 1
      OBVIOUS
    <2> DEFINE k == q - 1
    <2>1. q # 0
      <3> SUFFICES ASSUME q = 0 PROVE FALSE
        OBVIOUS
      <3>1. q * B = 0
        BY <1>1
      <3> QED
        BY <1>2, <1>3, <1>1, <3>1
    <2>2. k \in Nat /\ q = k + 1
      BY <1>3, <2>1
    <2> HIDE DEF k
    <2>3. q * B = k * B + B /\ k * B \in Int
      BY <1>1, <2>2, SMT
    <2>4. n - 1 = k * B + r
      BY <1>1, <1>2, <1>3, <2>3
    <2>5. (k * B + r) \div B = k
      BY <1>1, <1>3, <2>2, DivisionUnique
    <2> QED
      BY <2>2, <2>4, <2>5
  <1> QED
    BY <1>3, <1>4, <1>6, <1>7 DEF B

LEMMA PiecesAreSequences ==
  ASSUME NEW U, NEW pieces \in Seq(Seq(U)), NEW i \in 1..Len(pieces)
  PROVE  BlocksFor(Len(pieces[i])) \in Nat
  <1>1. pieces[i] \in Seq(U)
    OBVIOUS
  <1>2. Len(pieces[i]) \in Nat
    BY <1>1
  <1> QED
    BY <1>2, BlocksForIsNat

(* f counts the blocks begun, piece by piece. *)
Counts(f, pieces, n) ==
  /\ f[0] = 0
  /\ \A i \in 1..n : f[i] = f[i - 1] + BlocksFor(Len(pieces[i]))

LEMMA CountExists ==
  ASSUME NEW U, NEW pieces \in Seq(Seq(U))
  PROVE  \E f \in [0..Len(pieces) -> Nat] : Counts(f, pieces, Len(pieces))
  <1> DEFINE n == Len(pieces)
             step == [x \in (1..n) \X Nat |-> x[2] + BlocksFor(Len(pieces[x[1]]))]
  <1>1. n \in Nat /\ \A i \in 1..n : BlocksFor(Len(pieces[i])) \in Nat
    BY PiecesAreSequences
  <1>2. \A i \in 1..n, x \in Nat : step[<<i, x>>] = x + BlocksFor(Len(pieces[i]))
    OBVIOUS
  <1> HIDE DEF n, step
  <1>3. StepsWithin(Nat, n, step)
    <2>1. ASSUME NEW i \in 1..n, NEW x \in Nat PROVE step[<<i, x>>] \in Nat
      <3>1. step[<<i, x>>] = x + BlocksFor(Len(pieces[i]))
        BY <1>2
      <3>2. BlocksFor(Len(pieces[i])) \in Nat
        BY <1>1
      <3> QED
        BY <3>1, <3>2
    <2> QED
      BY <2>1 DEF StepsWithin
  <1>4. PICK f : Recursion(f, Nat, 0, n, step)
    <2>1. 0 \in Nat
      OBVIOUS
    <2> QED
      BY <1>1, <1>3, <2>1, RecursionUpTo
  <1>5. f \in [0..n -> Nat] /\ f[0] = 0
    BY <1>4 DEF Recursion
  <1>6. \A i \in 1..n : f[i] = f[i - 1] + BlocksFor(Len(pieces[i]))
    <2> TAKE i \in 1..n
    <2>1. i - 1 \in 0..n
      BY <1>1
    <2>2. f[i - 1] \in Nat
      BY <1>5, <2>1
    <2>3. f[i] = step[<<i, f[i - 1]>>]
      BY <1>4 DEF Recursion
    <2> QED
      BY <1>2, <2>2, <2>3
  <1> QED
    BY <1>5, <1>6 DEF Counts, n

LEMMA CountIs ==
  ASSUME NEW U, NEW pieces \in Seq(Seq(U)),
         NEW f \in [0..Len(pieces) -> Nat], Counts(f, pieces, Len(pieces))
  PROVE  BlocksBegun(pieces) = f[Len(pieces)]
  <1> DEFINE n == Len(pieces)
             upto[k \in 0..n] == IF k = 0 THEN 0 ELSE upto[k - 1] + BlocksFor(Len(pieces[k]))
  <1>1. n \in Nat
    OBVIOUS
  <1>2. f = [k \in 0..n |-> IF k = 0 THEN 0 ELSE f[k - 1] + BlocksFor(Len(pieces[k]))]
    <2> HIDE DEF n
    <2>1. \A k \in 0..n : f[k] = IF k = 0 THEN 0 ELSE f[k - 1] + BlocksFor(Len(pieces[k]))
      <3> TAKE k \in 0..n
      <3>1. k # 0 => k \in 1..n
        BY <1>1
      <3> QED
        BY <3>1 DEF Counts, n
    <2>2. f = [k \in 0..n |-> f[k]]
      BY DEF n
    <2> QED
      BY <2>1, <2>2
  <1>3. upto = [k \in 0..n |-> IF k = 0 THEN 0 ELSE upto[k - 1] + BlocksFor(Len(pieces[k]))]
    BY <1>2, Zenon
  <1>4. BlocksBegun(pieces) = upto[n]
    BY DEF BlocksBegun
  <1> HIDE DEF upto, n
  <1> DEFINE T == {m \in Nat : m <= n => upto[m] = f[m]}
  <1>5. 0 \in T
    <2>1. 0 \in 0..n
      BY <1>1
    <2>2. upto[0] = 0
      BY <1>3, <2>1
    <2> QED
      BY <2>2 DEF Counts
  <1>6. ASSUME NEW m \in Nat, m \in T PROVE m + 1 \in T
    <2> SUFFICES ASSUME m + 1 <= n PROVE upto[m + 1] = f[m + 1]
      OBVIOUS
    <2>1. m + 1 \in 0..n /\ m + 1 # 0 /\ (m + 1) - 1 = m /\ upto[m] = f[m]
      BY <1>1, <1>6
    <2>2. upto[m + 1] = upto[m] + BlocksFor(Len(pieces[m + 1]))
      BY <1>3, <2>1
    <2>3. f[m + 1] = f[m] + BlocksFor(Len(pieces[m + 1]))
      BY <1>2, <2>1
    <2> QED
      BY <2>1, <2>2, <2>3
  <1>7. Nat \subseteq T
    <2> HIDE DEF T
    <2> QED
      BY <1>5, <1>6, InductionOverNat
  <1>8. upto[n] = f[n]
    BY <1>1, <1>7
  <1> QED
    BY <1>4, <1>8 DEF n

LEMMA BlocksBegunProperties ==
  ASSUME NEW U, NEW pieces \in Seq(Seq(U)), NEW p \in Seq(U)
  PROVE  /\ BlocksBegun(pieces) \in Nat
         /\ BlocksBegun(Append(pieces, p)) = BlocksBegun(pieces) + BlocksFor(Len(p))
  <1> DEFINE more == Append(pieces, p)
             n == Len(pieces)
  <1>1. /\ more \in Seq(Seq(U)) /\ Len(more) = n + 1 /\ n \in Nat
        /\ more[n + 1] = p /\ \A i \in 1..n : more[i] = pieces[i]
    BY AppendProperties
  <1> HIDE DEF more
  <1>2. PICK f \in [0..Len(more) -> Nat] : Counts(f, more, Len(more))
    BY <1>1, CountExists
  <1>3. BlocksBegun(more) = f[n + 1]
    BY <1>1, <1>2, CountIs
  <1> DEFINE g == [i \in 0..n |-> f[i]]
  <1>4. g \in [0..n -> Nat]
    BY <1>1, <1>2
  <1>5. Counts(g, pieces, n)
    <2>1. g[0] = 0
      BY <1>1, <1>2 DEF Counts
    <2>2. ASSUME NEW i \in 1..n PROVE g[i] = g[i - 1] + BlocksFor(Len(pieces[i]))
      <3>1. i \in 1..n + 1 /\ i - 1 \in 0..n /\ i \in 0..n
        BY <1>1
      <3>2. f[i] = f[i - 1] + BlocksFor(Len(more[i]))
        BY <1>1, <1>2, <3>1 DEF Counts
      <3> QED
        BY <1>1, <3>1, <3>2
    <2> QED
      BY <2>1, <2>2 DEF Counts
  <1>6. BlocksBegun(pieces) = g[n]
    <2> HIDE DEF g
    <2> QED
      BY <1>4, <1>5, CountIs
  <1>7. g[n] = f[n] /\ f[n + 1] = f[n] + BlocksFor(Len(p)) /\ f[n] \in Nat
    <2>1. n \in 0..n /\ n + 1 \in 1..n + 1 /\ (n + 1) - 1 = n
      BY <1>1
    <2>2. f[n + 1] = f[n] + BlocksFor(Len(more[n + 1]))
      BY <1>1, <1>2, <2>1 DEF Counts
    <2> QED
      BY <1>1, <1>2, <2>1, <2>2
  <1> QED
    BY <1>3, <1>6, <1>7 DEF more

LEMMA NothingBegun == BlocksBegun(<<>>) = 0
  <1> DEFINE f == [k \in 0..0 |-> 0]
  <1>1. <<>> \in Seq(Seq({})) /\ Len(<<>>) = 0
    OBVIOUS
  <1>2. f \in [0..Len(<<>>) -> Nat] /\ Counts(f, <<>>, Len(<<>>)) /\ f[0] = 0
    BY <1>1 DEF Counts
  <1> HIDE DEF f
  <1>3. BlocksBegun(<<>>) = f[Len(<<>>)]
    BY <1>1, <1>2, CountIs
  <1> QED
    BY <1>1, <1>2, <1>3

--------------------------------------------------------------------------------
(* Places in the key stream *)

LEMMA NextQuotient ==
  ASSUME NEW b \in Nat \ {0}, NEW j \in Nat
  PROVE  /\ j % b = b - 1 => (j + 1) \div b = (j \div b) + 1 /\ (j + 1) % b = 0
         /\ j % b # b - 1 => (j + 1) \div b = j \div b /\ (j + 1) % b = (j % b) + 1
  <1> DEFINE q == j \div b
             r == j % b
  <1>1. q \in Nat /\ r \in 0..(b - 1) /\ j = q * b + r
    BY DivisionWithRest
  <1> HIDE DEF q, r
  <1>2. q * b \in Int /\ (q + 1) * b = q * b + b
    BY <1>1, SMT
  <1>3. CASE r = b - 1
    <2> DEFINE k == q + 1
    <2>1. k \in Nat /\ k * b = q * b + b
      BY <1>1, <1>2
    <2> HIDE DEF k
    <2>2. j + 1 = k * b + 0
      BY <1>1, <1>2, <1>3, <2>1
    <2>3. 0 \in 0..(b - 1)
      OBVIOUS
    <2>4. (k * b + 0) \div b = k /\ (k * b + 0) % b = 0
      BY <2>1, <2>3, DivisionUnique
    <2> QED
      BY <1>3, <2>2, <2>4 DEF k, q, r
  <1>4. CASE r # b - 1
    <2> DEFINE t == r + 1
    <2>1. t \in 0..(b - 1)
      BY <1>1, <1>4
    <2>2. t = r + 1
      OBVIOUS
    <2> HIDE DEF t
    <2>3. j + 1 = q * b + t
      BY <1>1, <1>2, <2>2
    <2>4. (q * b + t) \div b = q /\ (q * b + t) % b = t
      BY <1>1, <2>1, DivisionUnique
    <2> QED
      BY <1>4, <2>2, <2>3, <2>4 DEF q, r
  <1> QED
    BY <1>3, <1>4 DEF r

Offset == 0..(BlockLength - 1)

(* A byte's place in the key stream is its block and where in it.  The next*)
(* byte has the next place, or the first of a new block after the end of   *)
(* the block or of the piece.                                              *)
NextPlace(place, cut) ==
  IF cut \/ place[2] = BlockLength - 1 THEN <<place[1] + 1, 0>> ELSE <<place[1], place[2] + 1>>

(* K has the places of the n bytes of pieces that end at the cuts. *)
Places(K, cuts, n) ==
  /\ \A i \in 1..n : K[i] \in Nat \X Offset
  /\ n > 0 => K[1] = <<0, 0>>
  /\ \A i \in 1..n - 1 : K[i + 1] = NextPlace(K[i], i \in cuts)

(* Places depend on the cuts before them only. *)
LEMMA PlacesAgree ==
  ASSUME NEW K, NEW L, NEW C, NEW D, NEW m \in Nat, NEW n \in Nat, NEW i \in Nat \ {0},
         Places(K, C, m), Places(L, D, n), i <= m, i <= n,
         C \cap 1..(i - 1) = D \cap 1..(i - 1)
  PROVE  K[i] = L[i]
  <1> DEFINE T == {j \in Nat : j + 1 <= i => K[j + 1] = L[j + 1]}
  <1>1. 0 \in T
    BY DEF Places
  <1>2. ASSUME NEW j \in Nat, j \in T PROVE j + 1 \in T
    <2> SUFFICES ASSUME j + 2 <= i PROVE K[j + 2] = L[j + 2]
      OBVIOUS
    <2>1. j + 1 \in 1..m - 1 /\ j + 1 \in 1..n - 1 /\ (j + 1) + 1 = j + 2 /\ j + 1 \in 1..(i - 1)
      OBVIOUS
    <2>2. K[j + 1] = L[j + 1]
      BY <1>2
    <2>3. K[j + 2] = NextPlace(K[j + 1], j + 1 \in C)
      BY <2>1 DEF Places
    <2>4. L[j + 2] = NextPlace(L[j + 1], j + 1 \in D)
      BY <2>1 DEF Places
    <2>5. (j + 1 \in C) <=> (j + 1 \in D)
      BY <2>1
    <2> QED
      BY <2>2, <2>3, <2>4, <2>5 DEF NextPlace
  <1>3. Nat \subseteq T
    <2> HIDE DEF T
    <2> QED
      BY <1>1, <1>2, InductionOverNat
  <1>4. i - 1 \in T /\ (i - 1) + 1 = i
    BY <1>3
  <1> QED
    BY <1>4

(* Cuts between blocks change no place. *)
LEMMA PlacesAtBlocks ==
  ASSUME NEW K, NEW C, NEW n \in Nat, NEW i \in 1..n, Places(K, C, n),
         \A c \in C \cap 1..(i - 1) : c % BlockLength = 0
  PROVE  K[i] = <<(i - 1) \div BlockLength, (i - 1) % BlockLength>>
  <1> DEFINE B == BlockLength
             At(j) == <<j \div B, j % B>>
             T == {j \in Nat : j + 1 <= i => K[j + 1] = At(j)}
  <1>1. B \in Nat \ {0} /\ B > 1
    BY CtrAssumption
  <1> HIDE DEF B
  <1>2. 0 \in T
    <2>1. 0 \div B = 0 /\ 0 % B = 0
      BY <1>1, SMT
    <2>2. K[1] = <<0, 0>>
      BY DEF Places
    <2> QED
      BY <2>1, <2>2
  <1>3. ASSUME NEW j \in Nat, j \in T PROVE j + 1 \in T
    <2> SUFFICES ASSUME j + 2 <= i PROVE K[j + 2] = At(j + 1)
      OBVIOUS
    <2>1. j + 1 \in 1..n - 1 /\ (j + 1) + 1 = j + 2 /\ j + 1 \in 1..(i - 1)
      OBVIOUS
    <2>2. K[j + 1] = <<j \div B, j % B>>
      BY <1>3
    <2>3. K[j + 2] = NextPlace(K[j + 1], j + 1 \in C)
      BY <2>1 DEF Places
    <2>4. j + 1 \in C => j % B = B - 1
      <3> SUFFICES ASSUME j + 1 \in C PROVE j % B = B - 1
        OBVIOUS
      <3>1. (j + 1) % B = 0
        BY <2>1 DEF B
      <3>2. j % B \in Nat
        BY <1>1, DivisionWithRest
      <3>3. j % B # B - 1 => (j + 1) % B = (j % B) + 1
        BY <1>1, NextQuotient
      <3> QED
        BY <3>1, <3>2, <3>3
    <2>5. CASE j % B = B - 1
      <3>1. K[j + 2] = <<(j \div B) + 1, 0>>
        BY <2>2, <2>3, <2>5 DEF NextPlace, B
      <3>2. (j + 1) \div B = (j \div B) + 1 /\ (j + 1) % B = 0
        BY <1>1, <2>5, NextQuotient
      <3> QED
        BY <3>1, <3>2
    <2>6. CASE j % B # B - 1
      <3>1. K[j + 2] = <<j \div B, (j % B) + 1>>
        BY <2>2, <2>3, <2>4, <2>6 DEF NextPlace, B
      <3>2. (j + 1) \div B = j \div B /\ (j + 1) % B = (j % B) + 1
        BY <1>1, <2>6, NextQuotient
      <3> QED
        BY <3>1, <3>2
    <2> QED
      BY <2>5, <2>6
  <1>4. Nat \subseteq T
    <2> HIDE DEF T
    <2> QED
      BY <1>2, <1>3, InductionOverNat
  <1>5. i - 1 \in T /\ (i - 1) + 1 = i
    BY <1>4
  <1>6. K[i] = At(i - 1)
    BY <1>5
  <1> QED
    BY <1>6 DEF B

(* One place comes before another. *)
Before(p, q) == p[1] < q[1] \/ (p[1] = q[1] /\ p[2] < q[2])

LEMMA PlacesGrow ==
  ASSUME NEW K, NEW C, NEW n \in Nat, Places(K, C, n), NEW i \in 1..n, NEW j \in 1..n, i < j
  PROVE  Before(K[i], K[j])
  <1> DEFINE T == {d \in Nat : i + d + 1 <= n => Before(K[i], K[i + d + 1])}
  <1>1. \A k \in 1..n : K[k][1] \in Nat /\ K[k][2] \in Nat
    BY CtrAssumption DEF Places, Offset
  <1>2. ASSUME NEW k \in 1..n - 1 PROVE Before(K[k], K[k + 1])
    <2>1. K[k + 1] = NextPlace(K[k], k \in C) /\ k \in 1..n
      BY DEF Places
    <2>2. K[k][1] \in Nat /\ K[k][2] \in Nat
      BY <1>1, <2>1
    <2> QED
      BY <2>1, <2>2 DEF NextPlace, Before
  <1>3. 0 \in T
    <2> SUFFICES ASSUME i + 0 + 1 <= n PROVE Before(K[i], K[i + 0 + 1])
      OBVIOUS
    <2>1. i + 0 + 1 = i + 1 /\ i \in 1..n - 1
      OBVIOUS
    <2> QED
      BY <1>2, <2>1
  <1>4. ASSUME NEW d \in Nat, d \in T PROVE d + 1 \in T
    <2> SUFFICES ASSUME i + (d + 1) + 1 <= n PROVE Before(K[i], K[i + (d + 1) + 1])
      OBVIOUS
    <2> DEFINE k == i + d + 1
    <2>1. k \in 1..n - 1 /\ k + 1 = i + (d + 1) + 1
      OBVIOUS
    <2>2. Before(K[i], K[k])
      BY <1>4
    <2> HIDE DEF k
    <2>3. Before(K[k], K[k + 1])
      BY <1>2, <2>1
    <2>4. K[i][1] \in Nat /\ K[i][2] \in Nat /\ K[k][1] \in Nat /\ K[k][2] \in Nat
          /\ K[k + 1][1] \in Nat /\ K[k + 1][2] \in Nat
      BY <1>1, <2>1
    <2>5. Before(K[i], K[k + 1])
      BY <2>2, <2>3, <2>4 DEF Before
    <2> QED
      BY <2>1, <2>5
  <1>5. Nat \subseteq T
    <2> HIDE DEF T
    <2> QED
      BY <1>3, <1>4, InductionOverNat
  <1>6. j - i - 1 \in T /\ i + (j - i - 1) + 1 = j
    BY <1>5
  <1> QED
    BY <1>6

(* No place serves two bytes. *)
LEMMA PlacesOnce ==
  ASSUME NEW K, NEW C, NEW n \in Nat, Places(K, C, n), NEW i \in 1..n, NEW j \in 1..n
  PROVE  /\ K[i] = K[j] => i = j
         /\ K[i][1] <= K[n][1]
  <1>1. \A k \in 1..n : K[k][1] \in Nat /\ K[k][2] \in Nat
    BY CtrAssumption DEF Places, Offset
  <1>2. ASSUME K[i] = K[j], i # j PROVE FALSE
    <2>1. Before(K[i], K[j]) \/ Before(K[j], K[i])
      BY <1>2, PlacesGrow
    <2> QED
      BY <1>1, <1>2, <2>1 DEF Before
  <1>3. K[i][1] <= K[n][1]
    <2>1. CASE i = n
      BY <1>1, <2>1
    <2>2. CASE i # n
      <3>1. n \in 1..n /\ i < n
        BY <2>2
      <3>2. Before(K[i], K[n])
        BY <3>1, PlacesGrow
      <3> QED
        BY <1>1, <3>1, <3>2 DEF Before
    <2> QED
      BY <2>1, <2>2
  <1> QED
    BY <1>2, <1>3

(* The places of a piece of m bytes more, of which the first is in block b. *)
PlacesOn(K, n, b, m) ==
  [i \in 1..n + m |->
     IF i <= n THEN K[i]
     ELSE <<b + ((i - n - 1) \div BlockLength), (i - n - 1) % BlockLength>>]

GoesOn(L, K, C, n, b, m) ==
  /\ Places(L, C \cup {n + m}, n + m)
  /\ L[n + m][1] + 1 = b + BlocksFor(m)
  /\ \A i \in 1..n : L[i] = K[i]
  /\ \A j \in 1..m : L[n + j] = <<b + ((j - 1) \div BlockLength), (j - 1) % BlockLength>>

LEMMA PlacesGoOn ==
  ASSUME NEW K, NEW C, NEW n \in Nat, NEW b \in Nat, NEW m \in Nat \ {0},
         Places(K, C, n),
         \A c \in C : c <= n,
         n > 0 => n \in C /\ K[n][1] + 1 = b,
         n = 0 => b = 0
  PROVE  GoesOn(PlacesOn(K, n, b, m), K, C, n, b, m)
  <1> DEFINE B == BlockLength
             L == PlacesOn(K, n, b, m)
             D == C \cup {n + m}
  <1>1. B \in Nat \ {0} /\ B > 1
    BY CtrAssumption
  <1>2. \A i \in 1..n : L[i] = K[i]
    <2> TAKE i \in 1..n
    <2>1. i \in 1..n + m /\ i <= n
      OBVIOUS
    <2> QED
      BY <2>1 DEF PlacesOn
  <1>3. \A j \in 1..m : L[n + j] = <<b + ((j - 1) \div B), (j - 1) % B>>
    <2> TAKE j \in 1..m
    <2>1. n + j \in 1..n + m /\ ~(n + j <= n) /\ (n + j) - n - 1 = j - 1
      OBVIOUS
    <2> QED
      BY <2>1 DEF PlacesOn
  <1> HIDE DEF L
  <1>4. \A j \in Nat : j \div B \in Nat /\ j % B \in 0..(B - 1)
    BY <1>1, DivisionWithRest
  <1> HIDE DEF B
  <1>5. \A i \in 1..n + m : i \in 1..n \/ \E j \in 1..m : i = n + j
    <2> TAKE i \in 1..n + m
    <2>1. i \in 1..n \/ (i - n \in 1..m /\ i = n + (i - n))
      OBVIOUS
    <2> QED
      BY <2>1
  <1>6. \A i \in 1..n + m : L[i] \in Nat \X (0..(B - 1))
    <2> TAKE i \in 1..n + m
    <2>1. CASE i \in 1..n
      BY <1>2, <2>1 DEF Places, Offset, B
    <2>2. ASSUME NEW j \in 1..m, i = n + j PROVE L[i] \in Nat \X (0..(B - 1))
      <3> DEFINE k == j - 1
      <3>1. k \in Nat
        OBVIOUS
      <3>2. L[i] = <<b + (k \div B), k % B>>
        BY <1>3, <2>2
      <3> HIDE DEF k
      <3>3. k \div B \in Nat /\ k % B \in 0..(B - 1)
        BY <1>4, <3>1
      <3> QED
        BY <3>2, <3>3
    <2> QED
      BY <1>5, <2>1, <2>2
  <1>7. 0 \div B = 0 /\ 0 % B = 0
    BY <1>1, SMT
  <1>8. L[n + 1] = <<b, 0>>
    <2>1. 1 \in 1..m /\ 1 - 1 = 0
      OBVIOUS
    <2>2. L[n + 1] = <<b + (0 \div B), 0 % B>>
      BY <1>3, <2>1
    <2> QED
      BY <1>7, <2>2
  <1>9. L[1] = <<0, 0>>
    <2>1. CASE n = 0
      BY <1>8, <2>1
    <2>2. CASE n # 0
      BY <1>2, <2>2 DEF Places
    <2> QED
      BY <2>1, <2>2
  <1>10. \A i \in 1..(n + m) - 1 : L[i + 1] = NextPlace(L[i], i \in D)
    <2> TAKE i \in 1..(n + m) - 1
    <2>1. i # n + m
      OBVIOUS
    <2>2. CASE i < n
      <3>1. i \in 1..n - 1 /\ i \in 1..n /\ i + 1 \in 1..n
        BY <2>2
      <3>2. K[i + 1] = NextPlace(K[i], i \in C)
        BY <3>1 DEF Places
      <3>3. (i \in D) <=> (i \in C)
        BY <2>1
      <3> QED
        BY <1>2, <3>1, <3>2, <3>3 DEF NextPlace
    <2>3. CASE i = n
      <3>1. n \in C /\ n \in 1..n /\ K[n][1] + 1 = b
        BY <2>3
      <3>2. NextPlace(L[n], n \in D) = <<b, 0>>
        BY <1>2, <3>1 DEF NextPlace
      <3> QED
        BY <1>8, <2>3, <3>2
    <2>4. CASE i > n
      <3>1. i \notin C => ((i \in D) <=> FALSE)
        BY <2>1
      <3>2. PICK j \in 1..m : i = n + j
        BY <1>5, <2>4
      <3> DEFINE k == j - 1
      <3>3. k \in Nat /\ j + 1 \in 1..m /\ i + 1 = n + (j + 1) /\ (j + 1) - 1 = k + 1
        BY <3>2
      <3>4. L[i] = <<b + (k \div B), k % B>>
        BY <1>3, <3>2
      <3>5. L[i + 1] = <<b + ((k + 1) \div B), (k + 1) % B>>
        BY <1>3, <3>3
      <3> HIDE DEF k
      <3>6. k \div B \in Nat /\ k % B \in 0..(B - 1)
        BY <1>4, <3>3
      <3>7. i \notin C
        BY <2>4
      <3>8. CASE k % B = B - 1
        <4>1. (k + 1) \div B = (k \div B) + 1 /\ (k + 1) % B = 0
          BY <1>1, <3>3, <3>8, NextQuotient
        <4>2. NextPlace(L[i], i \in D) = <<(b + (k \div B)) + 1, 0>>
          BY <3>4, <3>8 DEF NextPlace, B
        <4> QED
          BY <3>5, <3>6, <4>1, <4>2
      <3>9. CASE k % B # B - 1
        <4>1. (k + 1) \div B = k \div B /\ (k + 1) % B = (k % B) + 1
          BY <1>1, <3>3, <3>9, NextQuotient
        <4>2. NextPlace(L[i], i \in D) = <<b + (k \div B), (k % B) + 1>>
          BY <3>1, <3>4, <3>7, <3>9 DEF NextPlace, B
        <4> QED
          BY <3>5, <4>1, <4>2
      <3> QED
        BY <3>8, <3>9
    <2> QED
      BY <2>2, <2>3, <2>4
  <1>11. Places(L, D, n + m)
    BY <1>6, <1>9, <1>10 DEF Places, Offset, B
  <1>12. L[n + m][1] + 1 = b + BlocksFor(m)
    <2> DEFINE k == m - 1
    <2>1. k \in Nat /\ m \in 1..m
      OBVIOUS
    <2>2. L[n + m] = <<b + (k \div B), k % B>>
      BY <1>3, <2>1
    <2>3. BlocksFor(m) = (k \div B) + 1
      BY BlocksForIsNat DEF B
    <2> HIDE DEF k
    <2>4. k \div B \in Nat
      BY <1>4, <2>1
    <2> QED
      BY <2>2, <2>3, <2>4
  <1> QED
    BY <1>2, <1>3, <1>11, <1>12 DEF L, B, GoesOn

--------------------------------------------------------------------------------
(* What the two sides keep *)

Key == Counter \X Offset
Byte == [place : Nat, keys : SUBSET Key]
KeyOf(c, place) == <<CounterPlus(c, place[1]), place[2]>>

CtrTyped ==
  /\ counter \in [Side -> Counter \cup {NoCounter}]
  /\ agreed \in Counter
  /\ sent \in Seq(Seq(Byte))
  /\ opened \in Seq(Seq(Byte))

(* A side whose pieces have used the key stream of the places K, from the  *)
(* counter c on, and whose object holds the counter of the next block.     *)
Follows(K, c, pieces, holds) ==
  LET n == Len(FlattenSeq(pieces)) IN
  /\ Places(K, Cuts(pieces), n)
  /\ \A cut \in Cuts(pieces) : cut \in 1..n
  /\ n > 0 => n \in Cuts(pieces) /\ K[n][1] + 1 = BlocksBegun(pieces)
  /\ n = 0 => BlocksBegun(pieces) = 0
  /\ holds = NoCounter => pieces = <<>>
  /\ holds # NoCounter => holds = CounterPlus(c, BlocksBegun(pieces))

(* Each byte of the cipher text is mixed with the key stream of its place, *)
Ciphered(K, c, cipher) ==
  \A i \in 1..Len(cipher) : cipher[i] = [place |-> i, keys |-> {KeyOf(c, K[i])}]

(* ... and each byte of text is one of the cipher text, mixed again. *)
Opens(L, c, text, cipher) ==
  /\ Len(text) <= Len(cipher)
  /\ \A i \in 1..Len(text) : text[i] = Mix(cipher[i], KeyOf(c, L[i]))

(* The strengthening: the places of what either side has done so far. *)
CtrInv ==
  /\ CtrTyped
  /\ \E K : Follows(K, agreed, sent, counter["sender"]) /\ Ciphered(K, agreed, FlattenSeq(sent))
  /\ \E L : Follows(L, agreed, opened, counter["receiver"])
            /\ Opens(L, agreed, FlattenSeq(opened), FlattenSeq(sent))

LEMMA NoCounterIsNone == NoCounter \notin Counter
  <1>1. \A hi, lo \in Word : <<hi, lo>> # <<>>
    OBVIOUS
  <1> QED
    BY <1>1 DEF NoCounter, Counter

Joins(more, flat, p) ==
  /\ Len(flat) \in Nat /\ Len(p) \in Nat
  /\ Len(more) = Len(flat) + Len(p)
  /\ \A i \in 1..Len(flat) : more[i] = flat[i]
  /\ \A j \in 1..Len(p) : more[Len(flat) + j] = p[j]

LEMMA FlatIsByElement ==
  ASSUME NEW U, NEW pieces \in Seq(Seq(U)), NEW p \in Seq(U)
  PROVE  Joins(FlattenSeq(Append(pieces, p)), FlattenSeq(pieces), p)
  <1> DEFINE flat == FlattenSeq(pieces)
  <1>1. flat \in Seq(U) /\ FlattenSeq(Append(pieces, p)) = flat \o p
    BY FlatIsSequence, FlattenAppend
  <1> HIDE DEF flat
  <1>2. /\ Len(flat) \in Nat /\ Len(p) \in Nat
        /\ Len(flat \o p) = Len(flat) + Len(p)
    BY <1>1
  <1>3. \A i \in 1..Len(flat) : (flat \o p)[i] = flat[i]
    BY <1>1
  <1>4. \A j \in 1..Len(p) : (flat \o p)[Len(flat) + j] = p[j]
    BY <1>1
  <1> QED
    BY <1>1, <1>2, <1>3, <1>4 DEF flat, Joins

Extends(L, K, c, pieces, p, holds) ==
  LET n == Len(FlattenSeq(pieces))
      m == Len(p)
  IN  /\ Follows(L, c, Append(pieces, p), NextCounter(holds, m))
      /\ NextCounter(holds, m) \in Counter
      /\ \A i \in 1..n : L[i] = K[i]
      /\ \A j \in 1..m : KeyOf(c, L[n + j]) = KeyStream(holds, m)[j]

(* A call goes on with the places where the last one ended. *)
LEMMA FollowsOn ==
  ASSUME NEW K, NEW c \in Counter, NEW pieces \in Seq(Seq(Byte)), NEW holds \in Counter,
         NEW p \in Seq(Byte), p # <<>>, Follows(K, c, pieces, holds)
  PROVE  \E L : Extends(L, K, c, pieces, p, holds)
  <1> DEFINE n == Len(FlattenSeq(pieces))
             m == Len(p)
             b == BlocksBegun(pieces)
             more == Append(pieces, p)
             C == Cuts(pieces)
             L == PlacesOn(K, n, b, m)
  <1>1. n \in Nat /\ m \in Nat \ {0} /\ Len(FlattenSeq(more)) = n + m
    <2>1. Len(p) # 0
      OBVIOUS
    <2> QED
      BY <2>1, FlatIsByElement DEF Joins
  <1>2. b \in Nat /\ BlocksBegun(more) = b + BlocksFor(m) /\ BlocksFor(m) \in Nat
    BY <1>1, BlocksBegunProperties, BlocksForIsNat
  <1>3. Cuts(more) = C \cup {n + m}
    BY CutsAppend
  <1>4. holds = CounterPlus(c, b)
    BY NoCounterIsNone DEF Follows
  <1>5. /\ Places(K, C, n) /\ \A cut \in C : cut \in 1..n
        /\ n > 0 => n \in C /\ K[n][1] + 1 = b
        /\ n = 0 => b = 0
    BY DEF Follows
  <1> HIDE DEF n, m, b, more, C
  <1>6. \A cut \in C : cut <= n
    BY <1>1, <1>5
  <1>7. GoesOn(L, K, C, n, b, m)
    BY <1>1, <1>2, <1>5, <1>6, PlacesGoOn
  <1> HIDE DEF L
  <1>8. /\ Places(L, C \cup {n + m}, n + m)
        /\ L[n + m][1] + 1 = b + BlocksFor(m)
        /\ \A i \in 1..n : L[i] = K[i]
        /\ \A j \in 1..m : L[n + j] = <<b + ((j - 1) \div BlockLength), (j - 1) % BlockLength>>
    BY <1>7 DEF GoesOn
  <1>9. NextCounter(holds, m) = CounterPlus(c, BlocksBegun(more)) /\ NextCounter(holds, m) \in Counter
    BY <1>2, <1>4, CounterPlusTwice, CounterPlusProperties DEF NextCounter
  <1>10. Follows(L, c, more, NextCounter(holds, m))
    <2>1. \A cut \in Cuts(more) : cut \in 1..n + m
      BY <1>1, <1>3, <1>5
    <2>2. n + m > 0 /\ n + m # 0 /\ n + m \in Cuts(more)
      BY <1>1, <1>3
    <2>3. NextCounter(holds, m) # NoCounter
      BY <1>9, NoCounterIsNone
    <2> QED
      BY <1>1, <1>2, <1>3, <1>8, <1>9, <2>1, <2>2, <2>3 DEF Follows
  <1>11. \A j \in 1..m : KeyOf(c, L[n + j]) = KeyStream(holds, m)[j]
    <2> TAKE j \in 1..m
    <2> DEFINE d == (j - 1) \div BlockLength
    <2>1. d \in Nat
      <3>1. BlockLength \in Nat \ {0} /\ j - 1 \in Nat
        BY <1>1, CtrAssumption
      <3> DEFINE k == j - 1
      <3>2. k \in Nat
        BY <3>1
      <3> HIDE DEF k
      <3>3. k \div BlockLength \in Nat
        BY <3>1, <3>2, DivisionWithRest
      <3> QED
        BY <3>3 DEF k
    <2>2. L[n + j] = <<b + d, (j - 1) % BlockLength>>
      BY <1>8
    <2>3. KeyStream(holds, m)[j] = <<CounterPlus(holds, d), (j - 1) % BlockLength>>
      BY DEF KeyStream
    <2> HIDE DEF d
    <2>4. CounterPlus(holds, d) = CounterPlus(c, b + d)
      BY <1>2, <1>4, <2>1, CounterPlusTwice
    <2> QED
      BY <2>2, <2>3, <2>4 DEF KeyOf
  <1> QED
    BY <1>8, <1>9, <1>10, <1>11 DEF n, m, more, Extends

(* What a call gives: as many bytes as it was given, each mixed with its   *)
(* part of the key stream.                                                 *)
LEMMA MixedIsText ==
  ASSUME NEW c \in Counter, NEW input \in Seq(Byte)
  PROVE  LET output == MixAll(input, KeyStream(c, Len(input)))
         IN  /\ output \in Seq(Byte) /\ Len(output) = Len(input)
             /\ \A j \in 1..Len(input) : output[j] = Mix(input[j], KeyStream(c, Len(input))[j])
  <1> DEFINE m == Len(input)
             keys == KeyStream(c, m)
             output == MixAll(input, keys)
  <1>1. m \in Nat /\ DOMAIN input = 1..m /\ \A j \in 1..m : input[j] \in Byte
    OBVIOUS
  <1>2. BlockLength \in Nat \ {0}
    BY CtrAssumption
  <1> HIDE DEF m
  <1>3. \A j \in 1..m : keys[j] \in Key
    <2> TAKE j \in 1..m
    <2> DEFINE k == j - 1
    <2>1. k \in Nat
      BY <1>1
    <2>2. keys[j] = <<CounterPlus(c, k \div BlockLength), k % BlockLength>>
      BY DEF KeyStream
    <2> HIDE DEF k, keys
    <2>3. k \div BlockLength \in Nat /\ k % BlockLength \in Offset
      BY <1>2, <2>1, DivisionWithRest DEF Offset
    <2>4. CounterPlus(c, k \div BlockLength) \in Counter
      BY <2>3, CounterPlusProperties
    <2> QED
      BY <2>2, <2>3, <2>4 DEF Key
  <1>4. output = [j \in 1..m |-> Mix(input[j], keys[j])]
    BY <1>1 DEF MixAll
  <1> HIDE DEF keys
  <1>5. \A j \in 1..m : Mix(input[j], keys[j]) \in Byte
    <2> TAKE j \in 1..m
    <2>1. input[j] \in Byte /\ keys[j] \in Key
      BY <1>1, <1>3
    <2> QED
      BY <2>1 DEF Mix, Byte
  <1> HIDE DEF output
  <1>6. output \in [1..m -> Byte]
    BY <1>4, <1>5
  <1>7. output \in Seq(Byte) /\ Len(output) = m
    BY <1>1, <1>6, SeqDef, LenProperties
  <1> QED
    BY <1>4, <1>7 DEF output, keys, m

LEMMA InputIsText ==
  ASSUME NEW p \in Nat, NEW n \in Nat
  PROVE  PlainText(p, n) \in Seq(Byte) /\ Len(PlainText(p, n)) = n
  <1>1. \A i \in 1..n : [place |-> p + i, keys |-> {}] \in Byte
    BY DEF Byte
  <1>2. PlainText(p, n) \in [1..n -> Byte]
    BY <1>1 DEF PlainText
  <1> QED
    BY <1>2, SeqDef, LenProperties

LEMMA CtrInvInit == CtrInit => CtrInv
  <1> SUFFICES ASSUME CtrInit PROVE CtrInv
    OBVIOUS
  <1>1. /\ counter = [s \in Side |-> NoCounter] /\ agreed \in Counter
        /\ sent = <<>> /\ opened = <<>>
    BY DEF CtrInit
  <1>2. CtrTyped
    BY <1>1 DEF CtrTyped
  <1>3. \A K, c : Follows(K, c, <<>>, NoCounter)
    <2>1. Len(FlattenSeq(<<>>)) = 0
      BY FlattenNothing
    <2> QED
      BY <2>1, CutsOfNothing, NothingBegun DEF Follows, Places
  <1>4. counter["sender"] = NoCounter /\ counter["receiver"] = NoCounter
    BY <1>1 DEF Side
  <1>5. \A K, c : Ciphered(K, c, <<>>) /\ Opens(K, c, <<>>, <<>>)
    BY DEF Ciphered, Opens
  <1> QED
    BY <1>1, <1>2, <1>3, <1>4, <1>5, FlattenNothing DEF CtrInv

LEMMA SettingFollows ==
  ASSUME NEW K, NEW c \in Counter, NEW pieces, Follows(K, c, pieces, NoCounter)
  PROVE  Follows(K, c, pieces, c)
  <1>1. pieces = <<>>
    BY DEF Follows
  <1>2. BlocksBegun(pieces) = 0
    BY <1>1, NothingBegun
  <1>3. c = CounterPlus(c, 0) /\ c # NoCounter
    BY CounterPlusNothing, NoCounterIsNone
  <1> QED
    BY <1>2, <1>3 DEF Follows

LEMMA CtrSetCounter ==
  ASSUME CtrInv, NEW s \in Side, NEW c, NEW length, SetCounter(s, c, length)
  PROVE  CtrInv'
  <1>1. agreed' = agreed /\ sent' = sent /\ opened' = opened
    BY DEF SetCounter
  <1>2. PICK K : Follows(K, agreed, sent, counter["sender"]) /\ Ciphered(K, agreed, FlattenSeq(sent))
    BY DEF CtrInv
  <1>3. PICK L : Follows(L, agreed, opened, counter["receiver"])
                 /\ Opens(L, agreed, FlattenSeq(opened), FlattenSeq(sent))
    BY DEF CtrInv
  <1>4. agreed \in Counter /\ counter \in [Side -> Counter \cup {NoCounter}]
    BY DEF CtrInv, CtrTyped
  <1>5. \/ counter' = counter
        \/ counter[s] = NoCounter /\ counter' = [counter EXCEPT ![s] = agreed]
    BY DEF SetCounter
  <1>6. counter' \in [Side -> Counter \cup {NoCounter}]
    BY <1>4, <1>5
  <1>7. CtrTyped'
    BY <1>1, <1>6 DEF CtrInv, CtrTyped
  <1>8. \A t \in Side : counter'[t] = counter[t] \/ (counter[t] = NoCounter /\ counter'[t] = agreed)
    BY <1>4, <1>5
  <1>9. "sender" \in Side /\ "receiver" \in Side
    BY DEF Side
  <1>10. Follows(K, agreed, sent, counter'["sender"])
    BY <1>2, <1>4, <1>8, <1>9, SettingFollows
  <1>11. Follows(L, agreed, opened, counter'["receiver"])
    BY <1>3, <1>4, <1>8, <1>9, SettingFollows
  <1> QED
    BY <1>1, <1>2, <1>3, <1>7, <1>10, <1>11 DEF CtrInv

LEMMA TypedAppend ==
  ASSUME NEW pieces \in Seq(Seq(Byte)), NEW p \in Seq(Byte)
  PROVE  Append(pieces, p) \in Seq(Seq(Byte))
  OBVIOUS

LEMMA CtrEncrypts ==
  ASSUME CtrInv, NEW m \in 1..MaxStream, CtrEncrypt(m)
  PROVE  CtrInv'
  <1> DEFINE flat == FlattenSeq(sent)
             n == Len(flat)
             input == PlainText(n, m)
             holds == counter["sender"]
             p == MixAll(input, KeyStream(holds, m))
             next == NextCounter(holds, m)
             more == FlattenSeq(sent')
  <1>1. CtrTyped
    BY DEF CtrInv
  <1>2. sent \in Seq(Seq(Byte)) /\ agreed \in Counter /\ flat \in Seq(Byte) /\ n \in Nat
    BY <1>1, FlatIsSequence DEF CtrTyped
  <1>3. m \in Nat \ {0}
    BY CtrAssumption
  <1>4. input \in Seq(Byte) /\ Len(input) = m
    BY <1>2, <1>3, InputIsText
  <1>5. /\ agreed' = agreed /\ opened' = opened /\ holds # NoCounter
        /\ sent' = Append(sent, p) /\ counter' = [counter EXCEPT !["sender"] = next]
    BY <1>4 DEF CtrEncrypt, Crypt, CtrOutput
  <1>6. holds \in Counter
    BY <1>1, <1>5 DEF CtrTyped, Side
  <1> HIDE DEF input, holds
  <1>7. /\ p \in Seq(Byte) /\ Len(p) = m
        /\ \A j \in 1..m : p[j] = Mix(input[j], KeyStream(holds, m)[j])
    BY <1>4, <1>6, MixedIsText
  <1> HIDE DEF p
  <1>8. PICK K : Follows(K, agreed, sent, holds) /\ Ciphered(K, agreed, flat)
    BY DEF CtrInv, holds
  <1>9. p # <<>>
    BY <1>3, <1>7
  <1>10. PICK M : /\ Follows(M, agreed, sent', next) /\ next \in Counter
                  /\ \A i \in 1..n : M[i] = K[i]
                  /\ \A j \in 1..m : KeyOf(agreed, M[n + j]) = KeyStream(holds, m)[j]
    <2>1. PICK M : Extends(M, K, agreed, sent, p, holds)
      BY <1>2, <1>6, <1>7, <1>8, <1>9, FollowsOn
    <2> QED
      BY <1>5, <1>7, <2>1 DEF Extends
  <1> HIDE DEF next
  <1>11. counter'["sender"] = next /\ counter'["receiver"] = counter["receiver"]
         /\ counter' \in [Side -> Counter \cup {NoCounter}]
    BY <1>1, <1>5, <1>10 DEF CtrTyped, Side
  <1>12. CtrTyped'
    BY <1>1, <1>2, <1>5, <1>7, <1>11, TypedAppend DEF CtrTyped
  <1>13. /\ Len(more) = n + m
         /\ \A i \in 1..n : more[i] = flat[i]
         /\ \A j \in 1..m : more[n + j] = p[j]
    <2>1. Joins(more, flat, p)
      BY <1>2, <1>5, <1>7, FlatIsByElement
    <2> HIDE DEF more, flat
    <2> QED
      BY <1>7, <2>1 DEF Joins
  <1>14. \A j \in 1..m : input[j] = [place |-> n + j, keys |-> {}]
    BY DEF input, PlainText
  <1> HIDE DEF flat, more, n
  <1>15. Ciphered(M, agreed, more)
    <2> SUFFICES ASSUME NEW i \in 1..Len(more)
                 PROVE  more[i] = [place |-> i, keys |-> {KeyOf(agreed, M[i])}]
      BY DEF Ciphered
    <2>1. CASE i \in 1..n
      <3>1. flat[i] = [place |-> i, keys |-> {KeyOf(agreed, K[i])}]
        BY <1>8, <2>1 DEF Ciphered, n
      <3> QED
        BY <1>10, <1>13, <2>1, <3>1
    <2>2. CASE i \notin 1..n
      <3> DEFINE j == i - n
      <3>1. j \in 1..m /\ i = n + j
        BY <1>2, <1>3, <1>13, <2>2
      <3> HIDE DEF j
      <3> DEFINE key == KeyStream(holds, m)[j]
      <3>2. more[i] = Mix(input[j], key) /\ input[j] = [place |-> i, keys |-> {}]
        BY <1>7, <1>13, <1>14, <3>1
      <3>3. KeyOf(agreed, M[i]) = key
        BY <1>10, <3>1
      <3> HIDE DEF key
      <3>4. Mix([place |-> i, keys |-> {}], key) = [place |-> i, keys |-> {key}]
        <4> DEFINE byte == [place |-> i, keys |-> {}]
        <4>1. byte.keys = {} /\ {} \cup {key} = {key} /\ key \notin {}
          OBVIOUS
        <4>2. Mix(byte, key) = [byte EXCEPT !.keys = {key}]
          BY <4>1 DEF Mix
        <4> QED
          BY <4>2
      <3> QED
        BY <3>2, <3>3, <3>4
    <2> QED
      BY <2>1, <2>2
  <1>16. PICK L : Follows(L, agreed, opened, counter["receiver"])
                  /\ Opens(L, agreed, FlattenSeq(opened), flat)
    BY DEF CtrInv, flat
  <1>17. Opens(L, agreed, FlattenSeq(opened), more)
    <2>1. FlattenSeq(opened) \in Seq(Byte)
      BY <1>1, FlatIsSequence DEF CtrTyped
    <2>2. Len(FlattenSeq(opened)) \in Nat
      BY <2>1
    <2>3. Len(FlattenSeq(opened)) <= n /\ Len(FlattenSeq(opened)) <= Len(more)
      BY <1>2, <1>3, <1>13, <1>16, <2>2 DEF Opens, n
    <2> QED
      BY <1>2, <1>13, <1>16, <2>2, <2>3 DEF Opens
  <1> QED
    BY <1>5, <1>10, <1>11, <1>12, <1>15, <1>16, <1>17 DEF CtrInv, more

LEMMA CtrDecrypts ==
  ASSUME CtrInv, NEW m \in 1..MaxStream, CtrDecrypt(m)
  PROVE  CtrInv'
  <1> DEFINE cipher == FlattenSeq(sent)
             flat == FlattenSeq(opened)
             n == Len(flat)
             input == SubSeq(cipher, n + 1, n + m)
             holds == counter["receiver"]
             p == MixAll(input, KeyStream(holds, m))
             next == NextCounter(holds, m)
             more == FlattenSeq(opened')
  <1>1. CtrTyped
    BY DEF CtrInv
  <1>2. /\ opened \in Seq(Seq(Byte)) /\ agreed \in Counter /\ flat \in Seq(Byte) /\ n \in Nat
        /\ cipher \in Seq(Byte) /\ Len(cipher) \in Nat
    BY <1>1, FlatIsSequence DEF CtrTyped
  <1>3. m \in Nat \ {0}
    BY CtrAssumption
  <1>4. n + m <= Len(cipher)
    BY DEF CtrDecrypt
  <1>5. /\ input \in Seq(Byte) /\ Len(input) = m
        /\ \A j \in 1..m : input[j] = cipher[n + j]
    <2> HIDE DEF n, cipher
    <2>1. \A i \in n + 1..n + m : cipher[i] \in Byte
      BY <1>2, <1>3, <1>4
    <2>2. /\ input \in Seq(Byte)
          /\ Len(input) = IF n + 1 <= n + m THEN (n + m) - (n + 1) + 1 ELSE 0
          /\ \A j \in 1..(n + m) - (n + 1) + 1 : input[j] = cipher[(n + 1) + j - 1]
      BY <1>2, <1>3, <2>1, SubSeqProperties
    <2>3. (n + m) - (n + 1) + 1 = m /\ n + 1 <= n + m /\ \A j \in 1..m : (n + 1) + j - 1 = n + j
      BY <1>2, <1>3
    <2> HIDE DEF input
    <2> QED
      BY <2>2, <2>3
  <1>6. /\ agreed' = agreed /\ sent' = sent /\ holds # NoCounter
        /\ opened' = Append(opened, p) /\ counter' = [counter EXCEPT !["receiver"] = next]
    BY <1>5 DEF CtrDecrypt, Crypt, CtrOutput
  <1>7. holds \in Counter
    BY <1>1, <1>6 DEF CtrTyped, Side
  <1> HIDE DEF input, holds
  <1>8. /\ p \in Seq(Byte) /\ Len(p) = m
        /\ \A j \in 1..m : p[j] = Mix(input[j], KeyStream(holds, m)[j])
    BY <1>5, <1>7, MixedIsText
  <1> HIDE DEF p
  <1>9. PICK L : Follows(L, agreed, opened, holds) /\ Opens(L, agreed, flat, cipher)
    BY DEF CtrInv, holds
  <1>10. p # <<>>
    BY <1>3, <1>8
  <1>11. PICK M : /\ Follows(M, agreed, opened', next) /\ next \in Counter
                  /\ \A i \in 1..n : M[i] = L[i]
                  /\ \A j \in 1..m : KeyOf(agreed, M[n + j]) = KeyStream(holds, m)[j]
    <2>1. PICK M : Extends(M, L, agreed, opened, p, holds)
      BY <1>2, <1>7, <1>8, <1>9, <1>10, FollowsOn
    <2> QED
      BY <1>6, <1>8, <2>1 DEF Extends
  <1> HIDE DEF next
  <1>12. counter'["receiver"] = next /\ counter'["sender"] = counter["sender"]
         /\ counter' \in [Side -> Counter \cup {NoCounter}]
    BY <1>1, <1>6, <1>11 DEF CtrTyped, Side
  <1>13. CtrTyped'
    BY <1>1, <1>2, <1>6, <1>8, <1>12, TypedAppend DEF CtrTyped
  <1>14. /\ Len(more) = n + m
         /\ \A i \in 1..n : more[i] = flat[i]
         /\ \A j \in 1..m : more[n + j] = p[j]
    <2>1. Joins(more, flat, p)
      BY <1>2, <1>6, <1>8, FlatIsByElement
    <2> HIDE DEF more, flat
    <2> QED
      BY <1>8, <2>1 DEF Joins
  <1> HIDE DEF flat, more, n, cipher
  <1>15. Opens(M, agreed, more, cipher)
    <2>1. Len(more) <= Len(cipher)
      BY <1>4, <1>14
    <2>2. ASSUME NEW i \in 1..Len(more) PROVE more[i] = Mix(cipher[i], KeyOf(agreed, M[i]))
      <3>1. CASE i \in 1..n
        <4>1. flat[i] = Mix(cipher[i], KeyOf(agreed, L[i]))
          BY <1>9, <3>1 DEF Opens, n
        <4> QED
          BY <1>11, <1>14, <3>1, <4>1
      <3>2. CASE i \notin 1..n
        <4> DEFINE j == i - n
        <4>1. j \in 1..m /\ i = n + j
          BY <1>2, <1>3, <1>14, <2>2, <3>2
        <4> HIDE DEF j
        <4>2. more[i] = Mix(cipher[i], KeyStream(holds, m)[j])
          BY <1>5, <1>8, <1>14, <4>1
        <4>3. KeyOf(agreed, M[i]) = KeyStream(holds, m)[j]
          BY <1>11, <4>1
        <4> QED
          BY <4>2, <4>3
      <3> QED
        BY <3>1, <3>2
    <2> QED
      BY <2>1, <2>2 DEF Opens
  <1> QED
    BY <1>6, <1>11, <1>12, <1>13, <1>15 DEF CtrInv, more, cipher

LEMMA CtrInvNext == CtrInv /\ [CtrNext]_ctrVars => CtrInv'
  <1> SUFFICES ASSUME CtrInv, [CtrNext]_ctrVars PROVE CtrInv'
    OBVIOUS
  <1>1. ASSUME NEW s \in Side, NEW c \in Counter, NEW length \in {BlockLength - 1, BlockLength},
               SetCounter(s, c, length)
        PROVE  CtrInv'
    BY <1>1, CtrSetCounter
  <1>2. ASSUME UNCHANGED ctrVars PROVE CtrInv'
    BY <1>2 DEF ctrVars, CtrInv, CtrTyped
  <1>3. ASSUME NEW s \in Side, Refuse(s) PROVE CtrInv'
    BY <1>2, <1>3 DEF Refuse
  <1>4. ASSUME NEW m \in 1..MaxStream, CtrEncrypt(m) PROVE CtrInv'
    BY <1>4, CtrEncrypts
  <1>5. ASSUME NEW m \in 1..MaxStream, CtrDecrypt(m) PROVE CtrInv'
    BY <1>5, CtrDecrypts
  <1> QED
    BY <1>1, <1>2, <1>3, <1>4, <1>5 DEF CtrNext

--------------------------------------------------------------------------------
(* From there to the properties *)

LEMMA CipherIsSequence ==
  ASSUME CtrTyped
  PROVE  /\ FlattenSeq(sent) \in Seq(Byte) /\ FlattenSeq(opened) \in Seq(Byte)
         /\ Len(FlattenSeq(sent)) \in Nat /\ DOMAIN FlattenSeq(sent) = 1..Len(FlattenSeq(sent))
         /\ Len(FlattenSeq(opened)) \in Nat /\ DOMAIN FlattenSeq(opened) = 1..Len(FlattenSeq(opened))
         /\ BlocksBegun(sent) \in Nat
  <1>1. sent \in Seq(Seq(Byte)) /\ opened \in Seq(Seq(Byte))
    BY DEF CtrTyped
  <1>2. FlattenSeq(sent) \in Seq(Byte) /\ FlattenSeq(opened) \in Seq(Byte)
    BY <1>1, FlatIsSequence
  <1>3. BlocksBegun(sent) \in Nat
    <2>1. <<>> \in Seq(Byte)
      OBVIOUS
    <2> QED
      BY <1>1, <2>1, BlocksBegunProperties
  <1> QED
    BY <1>2, <1>3

LEMMA KeysServeOnce == CtrInv => KeysUsedOnce
  <1> SUFFICES ASSUME CtrInv, BlocksBegun(sent) <= WordSize * WordSize
               PROVE  \A i, j \in DOMAIN FlattenSeq(sent) :
                        FlattenSeq(sent)[i].keys = FlattenSeq(sent)[j].keys => i = j
    BY DEF KeysUsedOnce
  <1> DEFINE cipher == FlattenSeq(sent)
             n == Len(cipher)
             b == BlocksBegun(sent)
  <1>1. CtrTyped /\ agreed \in Counter
    BY DEF CtrInv, CtrTyped
  <1>2. n \in Nat /\ DOMAIN cipher = 1..n /\ b \in Nat
    BY <1>1, CipherIsSequence
  <1>3. PICK K : Follows(K, agreed, sent, counter["sender"]) /\ Ciphered(K, agreed, cipher)
    BY DEF CtrInv
  <1>4. /\ Places(K, Cuts(sent), n)
        /\ n > 0 => K[n][1] + 1 = b
    BY <1>3 DEF Follows
  <1>5. b <= All
    BY DEF All
  <1>6. \A i \in 1..n : cipher[i].keys = {KeyOf(agreed, K[i])}
    <2> TAKE i \in 1..n
    <2>1. cipher[i] = [place |-> i, keys |-> {KeyOf(agreed, K[i])}]
      BY <1>3 DEF Ciphered
    <2> HIDE DEF cipher
    <2> QED
      BY <2>1
  <1> HIDE DEF cipher, n, b
  <1>7. \A i \in 1..n : K[i] \in Nat \X Offset
    BY <1>4 DEF Places
  <1>8. ASSUME NEW i \in 1..n PROVE K[i][1] \in 0..(All - 1)
    <2>1. n \in 1..n /\ n > 0
      BY <1>2
    <2>2. K[i][1] <= K[n][1]
      BY <1>2, <1>4, <2>1, PlacesOnce
    <2>3. K[i][1] \in Nat /\ K[n][1] \in Nat
      BY <1>7, <2>1
    <2> QED
      BY <1>2, <1>4, <1>5, <2>1, <2>2, <2>3, AllIsNat
  <1>9. ASSUME NEW i \in 1..n, NEW j \in 1..n, cipher[i].keys = cipher[j].keys PROVE i = j
    <2>1. KeyOf(agreed, K[i]) = KeyOf(agreed, K[j])
      BY <1>6, <1>9
    <2>2. CounterPlus(agreed, K[i][1]) = CounterPlus(agreed, K[j][1]) /\ K[i][2] = K[j][2]
      BY <2>1 DEF KeyOf
    <2>3. K[i][1] = K[j][1]
      <3> DEFINE x == K[i][1]
                 y == K[j][1]
      <3>1. x \in 0..(All - 1) /\ y \in 0..(All - 1)
        BY <1>8
      <3>2. CounterPlus(agreed, x) = CounterPlus(agreed, y)
        BY <2>2
      <3> HIDE DEF x, y
      <3>3. x = y
        BY <1>1, <3>1, <3>2, CountersDiffer
      <3> QED
        BY <3>3 DEF x, y
    <2>4. K[i] = K[j]
      BY <1>7, <2>2, <2>3
    <2> QED
      BY <1>2, <1>4, <2>4, PlacesOnce
  <1> QED
    BY <1>2, <1>9 DEF cipher

LEMMA MixedTwice ==
  ASSUME NEW i, NEW key
  PROVE  Mix([place |-> i, keys |-> {key}], key) = [place |-> i, keys |-> {}]
  <1> DEFINE byte == [place |-> i, keys |-> {key}]
  <1>1. byte.keys = {key} /\ {key} \ {key} = {} /\ key \in {key}
    OBVIOUS
  <1>2. Mix(byte, key) = [byte EXCEPT !.keys = {}]
    BY <1>1 DEF Mix
  <1> QED
    BY <1>2

LEMMA OpensWhereInStep == CtrInv => OpensInStep
  <1> DEFINE cipher == FlattenSeq(sent)
             text == FlattenSeq(opened)
             n == Len(cipher)
             m == Len(text)
             C == Cuts(sent)
             D == Cuts(opened)
  <1> SUFFICES ASSUME CtrInv, NEW i \in DOMAIN text, InStep(i)
               PROVE  text[i] = [place |-> i, keys |-> {}]
    BY DEF OpensInStep
  <1>1. CtrTyped
    BY DEF CtrInv
  <1>2. n \in Nat /\ m \in Nat /\ DOMAIN text = 1..m
    BY <1>1, CipherIsSequence
  <1>3. PICK K : Follows(K, agreed, sent, counter["sender"]) /\ Ciphered(K, agreed, cipher)
    BY DEF CtrInv
  <1>4. PICK L : Follows(L, agreed, opened, counter["receiver"])
                 /\ Opens(L, agreed, text, cipher)
    BY DEF CtrInv
  <1>5. Places(K, C, n) /\ Places(L, D, m)
    BY <1>3, <1>4 DEF Follows
  <1>6. m <= n
    BY <1>4 DEF Opens
  <1>7. /\ \A c \in C : c \in 1..n
        /\ \/ C \cap 1..(i - 1) = D \cap 1..(i - 1)
           \/ \A c \in (C \cup D) \cap 1..(i - 1) : c % BlockLength = 0
    BY <1>3 DEF Follows, InStep
  <1>8. cipher[i] = [place |-> i, keys |-> {KeyOf(agreed, K[i])}]
    <2>1. i \in 1..n
      BY <1>2, <1>6
    <2> QED
      BY <1>3, <2>1 DEF Ciphered
  <1>9. text[i] = Mix(cipher[i], KeyOf(agreed, L[i]))
    BY <1>2, <1>4 DEF Opens
  <1>10. i \in 1..m /\ i \in 1..n /\ i \in Nat \ {0} /\ i <= m /\ i <= n
    BY <1>2, <1>6
  <1> HIDE DEF cipher, text, n, m, C, D
  <1>11. K[i] = L[i]
    <2>1. CASE C \cap 1..(i - 1) = D \cap 1..(i - 1)
      BY <1>2, <1>5, <1>10, <2>1, PlacesAgree
    <2>2. CASE \A c \in (C \cup D) \cap 1..(i - 1) : c % BlockLength = 0
      <3>1. /\ \A c \in C \cap 1..(i - 1) : c % BlockLength = 0
            /\ \A c \in D \cap 1..(i - 1) : c % BlockLength = 0
        BY <2>2
      <3>2. K[i] = <<(i - 1) \div BlockLength, (i - 1) % BlockLength>>
        BY <1>2, <1>5, <1>10, <3>1, PlacesAtBlocks
      <3>3. L[i] = <<(i - 1) \div BlockLength, (i - 1) % BlockLength>>
        BY <1>2, <1>5, <1>10, <3>1, PlacesAtBlocks
      <3> QED
        BY <3>2, <3>3
    <2> QED
      BY <1>7, <2>1, <2>2
  <1> QED
    BY <1>8, <1>9, <1>11, MixedTwice

LEMMA MaskFollows == CtrTyped => MaskIsKeyStream
  <1> SUFFICES ASSUME CtrTyped, NEW s \in Side, counter[s] # NoCounter, NEW n \in 1..MaxStream
               PROVE  SubSeq(GenerateCounterMask(counter[s], n), 1, n) = KeyStream(counter[s], n)
    BY DEF MaskIsKeyStream
  <1> DEFINE c == counter[s]
             mask == GenerateCounterMask(c, n)
             keys == KeyStream(c, n)
             all == BlocksFor(n) * BlockLength
  <1>1. c \in Counter
    BY DEF CtrTyped
  <1>2. n \in Nat /\ BlockLength \in Nat \ {0}
    BY CtrAssumption
  <1>3. all >= n /\ all \in Nat
    <2>1. BlocksFor(n) \in Nat /\ BlocksFor(n) * BlockLength >= n
      BY <1>2, BlocksForIsNat
    <2>2. \A x, y \in Nat : x * y \in Nat
      BY SMT
    <2> QED
      BY <1>2, <2>1, <2>2
  <1> HIDE DEF all
  <1>4. \A i \in 1..n : mask[i] = keys[i]
    <2> TAKE i \in 1..n
    <2> DEFINE k == i - 1
               d == k \div BlockLength
    <2>1. k \in Nat
      OBVIOUS
    <2>2. i \in 1..all
      BY <1>2, <1>3
    <2>3. mask[i] = <<CounterAfter(c, d), k % BlockLength>>
      BY <2>2 DEF GenerateCounterMask, all
    <2>4. keys[i] = <<CounterPlus(c, d), k % BlockLength>>
      BY DEF KeyStream
    <2> HIDE DEF k, mask, keys
    <2>5. d \in Nat
      BY <1>2, <2>1, DivisionWithRest
    <2> HIDE DEF d, c
    <2> QED
      BY <1>1, <2>3, <2>4, <2>5, CounterAfterIsPlus
  <1>5. keys = [i \in 1..n |-> keys[i]]
    BY DEF KeyStream
  <1> HIDE DEF mask, keys
  <1>6. IsSequence(keys) /\ Len(keys) = n
    BY <1>2, <1>5, FunctionIsSequence
  <1>7. /\ IsSequence(SubSeq(mask, 1, n)) /\ Len(SubSeq(mask, 1, n)) = n
        /\ \A i \in 1..n : SubSeq(mask, 1, n)[i] = mask[i]
    BY <1>2, PartOfSequence
  <1>8. SubSeq(mask, 1, n) = keys
    BY <1>4, <1>6, <1>7, SameSequence
  <1> QED
    BY <1>8 DEF mask, keys

(* For any words, blocks and pieces: no byte of key stream serves twice    *)
(* until the counter has been all round, the receiver has the text back    *)
(* where it cut the cipher text as the sender did or both cut it between   *)
(* blocks, and the mask of GenerateCounterMask is the key stream of        *)
(* AES_ctr128_encrypt.                                                     *)
THEOREM KeyStreamGoesOn == CtrSpec => []StreamGoesOn
  <1>1. CtrInv => StreamGoesOn
    BY KeysServeOnce, OpensWhereInStep, MaskFollows DEF CtrInv, StreamGoesOn
  <1> QED
    BY CtrInvInit, CtrInvNext, <1>1, PTL DEF CtrSpec

--------------------------------------------------------------------------------
(* Numbers: what digits stand for *)

LEMMA DigitIsNat == \A x : DigitOf(x) \in Nat
  <1> TAKE x
  <1>1. CASE x \in 0..(NoDigit - 1)
    BY <1>1 DEF DigitOf, NoDigit
  <1>2. CASE x \notin 0..(NoDigit - 1)
    BY <1>2 DEF DigitOf, NoDigit
  <1> QED
    BY <1>1, <1>2

LEMMA NumberOfRecursion ==
  ASSUME NEW text, Len(text) \in Nat, NEW b \in Nat
  PROVE  \E f \in [0..Len(text) -> Nat] :
           /\ f[0] = 0
           /\ \A n \in 1..Len(text) : f[n] = f[n - 1] * b + DigitOf(text[n])
           /\ NumberOf(b, text) = f[Len(text)]
  <1> DEFINE k == Len(text)
             upto[n \in 0..k] == IF n = 0 THEN 0 ELSE upto[n - 1] * b + DigitOf(text[n])
             step == [p \in (1..k) \X Nat |-> p[2] * b + DigitOf(text[p[1]])]
  <1>2. \A n \in 1..k, v \in Nat : step[<<n, v>>] = v * b + DigitOf(text[n])
    OBVIOUS
  <1>3. PICK f : Recursion(f, Nat, 0, k, step)
    <2>1. StepsWithin(Nat, k, step)
      <3>1. \A v, e, d \in Nat : v * e + d \in Nat
        OBVIOUS
      <3> HIDE DEF step
      <3>2. ASSUME NEW n \in 1..k, NEW v \in Nat PROVE step[<<n, v>>] \in Nat
        <4> DEFINE d == DigitOf(text[n])
        <4>1. d \in Nat
          BY DigitIsNat
        <4>2. step[<<n, v>>] = v * b + d
          BY <1>2
        <4> HIDE DEF d
        <4> QED
          BY <3>1, <4>1, <4>2
      <3> QED
        BY <3>2 DEF StepsWithin
    <2> HIDE DEF step
    <2> QED
      BY <2>1, RecursionUpTo
  <1>4. f[0] = 0 /\ \A n \in 1..k : f[n] = f[n - 1] * b + DigitOf(text[n])
    <2> HIDE DEF step
    <2>2. ASSUME NEW n \in 1..k PROVE f[n] = f[n - 1] * b + DigitOf(text[n])
      <3>1. n - 1 \in 0..k
        OBVIOUS
      <3>2. f[n] = step[<<n, f[n - 1]>>] /\ f[n - 1] \in Nat
        BY <1>3, <3>1 DEF Recursion
      <3> QED
        BY <1>2, <3>2
    <2> QED
      BY <1>3, <2>2 DEF Recursion
  <1>5. upto = [n \in 0..k |-> IF n = 0 THEN 0 ELSE upto[n - 1] * b + DigitOf(text[n])]
    <2>1. f = [n \in 0..k |-> IF n = 0 THEN 0 ELSE f[n - 1] * b + DigitOf(text[n])]
      <3>1. \A n \in 0..k : f[n] = IF n = 0 THEN 0 ELSE f[n - 1] * b + DigitOf(text[n])
        BY <1>4
      <3> HIDE DEF k
      <3> QED
        BY <1>3, <3>1 DEF Recursion
    <2> QED
      BY <2>1, Zenon
  <1>6. NumberOf(b, text) = upto[k]
    BY DEF NumberOf
  <1> HIDE DEF upto
  <1>7. upto[k] = f[k]
    <2> DEFINE T == {m \in Nat : m <= k => upto[m] = f[m]}
    <2>1. 0 \in T
      BY <1>4, <1>5
    <2>2. ASSUME NEW m \in Nat, m \in T PROVE m + 1 \in T
      <3> SUFFICES ASSUME m + 1 <= k PROVE upto[m + 1] = f[m + 1]
        OBVIOUS
      <3>1. upto[m] = f[m] /\ m + 1 \in 0..k /\ m + 1 # 0 /\ (m + 1) - 1 = m /\ m + 1 \in 1..k
        BY <2>2
      <3>2. upto[m + 1] = upto[(m + 1) - 1] * b + DigitOf(text[m + 1])
        BY <1>5, <3>1
      <3> QED
        BY <1>4, <3>1, <3>2
    <2> HIDE DEF T
    <2>3. Nat \subseteq T
      BY <2>1, <2>2, InductionOverNat
    <2> QED
      BY <2>3 DEF T
  <1> QED
    BY <1>3, <1>4, <1>6, <1>7 DEF Recursion

(* The digits up to place n stand for what the recursion has there. *)
LEMMA NumberOfPrefixes ==
  ASSUME NEW text, Len(text) \in Nat, NEW b \in Nat
  PROVE  \E f \in [0..Len(text) -> Nat] :
           /\ \A n \in 0..Len(text) : NumberOf(b, SubSeq(text, 1, n)) = f[n]
           /\ f[0] = 0
           /\ \A n \in 1..Len(text) : f[n] = f[n - 1] * b + DigitOf(text[n])
           /\ NumberOf(b, text) = f[Len(text)]
  <1>1. PICK f \in [0..Len(text) -> Nat] :
          /\ f[0] = 0
          /\ \A n \in 1..Len(text) : f[n] = f[n - 1] * b + DigitOf(text[n])
          /\ NumberOf(b, text) = f[Len(text)]
    BY NumberOfRecursion
  <1>2. ASSUME NEW n \in 0..Len(text) PROVE NumberOf(b, SubSeq(text, 1, n)) = f[n]
    <2> DEFINE part == SubSeq(text, 1, n)
    <2>1. n \in Nat
      OBVIOUS
    <2>2. Len(part) = n /\ \A i \in 1..n : part[i] = text[i]
      BY <2>1, PartOfSequence
    <2> HIDE DEF part
    <2>3. PICK g \in [0..n -> Nat] :
            /\ g[0] = 0
            /\ \A i \in 1..n : g[i] = g[i - 1] * b + DigitOf(part[i])
            /\ NumberOf(b, part) = g[n]
      BY <2>1, <2>2, NumberOfRecursion
    <2> DEFINE T == {m \in Nat : m <= n => g[m] = f[m]}
    <2>4. 0 \in T
      BY <1>1, <2>3
    <2>5. ASSUME NEW m \in Nat, m \in T PROVE m + 1 \in T
      <3> SUFFICES ASSUME m + 1 <= n PROVE g[m + 1] = f[m + 1]
        OBVIOUS
      <3>1. g[m] = f[m] /\ m + 1 \in 1..n /\ m + 1 \in 1..Len(text) /\ (m + 1) - 1 = m
        BY <2>5
      <3>2. part[m + 1] = text[m + 1]
        BY <2>2, <3>1
      <3>3. g[m + 1] = g[m] * b + DigitOf(part[m + 1])
        BY <2>3, <3>1
      <3>4. f[m + 1] = f[m] * b + DigitOf(text[m + 1])
        BY <1>1, <3>1
      <3> QED
        BY <3>1, <3>2, <3>3, <3>4
    <2> HIDE DEF T
    <2>6. Nat \subseteq T
      BY <2>4, <2>5, InductionOverNat
    <2>7. g[n] = f[n]
      BY <2>1, <2>6 DEF T
    <2> QED
      BY <2>3, <2>7 DEF part
  <1> QED
    BY <1>1, <1>2

(* More digits do not make it less. *)
LEMMA NumberOfGrows ==
  ASSUME NEW text, Len(text) \in Nat, NEW b \in Nat \ {0}, NEW n \in 0..Len(text)
  PROVE  /\ NumberOf(b, SubSeq(text, 1, n)) \in Nat /\ NumberOf(b, text) \in Nat
         /\ NumberOf(b, SubSeq(text, 1, n)) <= NumberOf(b, text)
  <1>1. PICK f \in [0..Len(text) -> Nat] :
           /\ \A m \in 0..Len(text) : NumberOf(b, SubSeq(text, 1, m)) = f[m]
           /\ f[0] = 0
           /\ \A m \in 1..Len(text) : f[m] = f[m - 1] * b + DigitOf(text[m])
           /\ NumberOf(b, text) = f[Len(text)]
    BY NumberOfPrefixes
  <1> DEFINE k == Len(text)
             T == {m \in Nat : n + m <= k => f[n] <= f[n + m]}
  <1>2. 0 \in T
    OBVIOUS
  <1>3. ASSUME NEW m \in Nat, m \in T PROVE m + 1 \in T
    <2> SUFFICES ASSUME n + (m + 1) <= k PROVE f[n] <= f[n + (m + 1)]
      OBVIOUS
    <2> DEFINE i == n + m
               d == DigitOf(text[i + 1])
    <2>1. i \in 0..k /\ i + 1 \in 1..k /\ i + 1 \in 0..k /\ (i + 1) - 1 = i /\ n + (m + 1) = i + 1
      OBVIOUS
    <2>2. f[n] <= f[i] /\ f[i] \in Nat /\ f[n] \in Nat
      BY <1>3, <2>1
    <2>3. f[i + 1] = f[i] * b + d
      BY <1>1, <2>1
    <2>4. d \in Nat
      BY DigitIsNat
    <2>5. \A x, e \in Nat : x <= x * b + e
      <3> TAKE x, e \in Nat
      <3>1. x * (b - 1) \in Nat /\ x * b = x * (b - 1) + x
        OBVIOUS
      <3> QED
        BY <3>1
    <2> HIDE DEF i, d
    <2>6. f[i] <= f[i + 1] /\ f[i + 1] \in Nat
      BY <2>1, <2>2, <2>3, <2>4, <2>5
    <2> QED
      BY <2>1, <2>2, <2>6
  <1> HIDE DEF T
  <1>4. Nat \subseteq T
    BY <1>2, <1>3, InductionOverNat
  <1>5. k - n \in T /\ n + (k - n) = k
    BY <1>4
  <1>6. f[n] <= f[k]
    BY <1>5 DEF T
  <1> QED
    BY <1>1, <1>6

USE NumbersAssumption DEF NoDigit
(* What the loop keeps: where it stands, the base and the type are proper, *)
(* and value is exact.                                                     *)
LoopTypeOK ==
  /\ call.type \in IntType
  /\ negative \in BOOLEAN
  /\ base \in 2..36
  /\ turn \in Nat
  /\ value \in Int
  /\ exact \in Nat
  /\ phase \in {"parsing", "parsed"} /\ negative => call.type.least # 0
  /\ phase = "idle" => turn = 0
  /\ turn = 0 => exact = 0 /\ value = 0

NumbersInv == LoopTypeOK /\ ValueExact

------------------------------------------------------------------------------
(* One digit more.                                                         *)

(* A number that exceeds a bound's quotient by the base has a product with *)
(* the base that exceeds the bound, and no other has.                      *)
LEMMA QuotientTells ==
  ASSUME NEW bound \in Nat, NEW b \in Nat, b >= 2, NEW n \in Nat
  PROVE  n > bound \div b <=> n * b > bound
<1> DEFINE q == bound \div b
<1>1. q \in Nat /\ b * q <= bound /\ bound < b * (q + 1)
  BY SMT
<1> HIDE DEF q
<1>2. CASE n > q
  <2>1. n >= q + 1
    BY <1>1, <1>2
  <2>2. n * b >= (q + 1) * b
    BY <1>1, <2>1, SMT
  <2> QED BY <1>1, <1>2, <2>2, SMT DEF q
<1>3. CASE n <= q
  <2>1. n * b <= q * b
    BY <1>1, <1>3, SMT
  <2> QED BY <1>1, <1>3, <2>1, SMT DEF q
<1> QED BY <1>1, <1>2, <1>3

(* A number in the type's range is not wrapped.                            *)
LEMMA WrapsNothing ==
  ASSUME NEW type \in IntType, NEW n \in Int, InRange(type, n)
  PROVE  Wrapped(type, n) = n
<1>1. type.least \in Int /\ type.greatest \in Int
  OBVIOUS
<1>2. /\ n - type.least \in 0..(type.greatest - type.least)
      /\ type.greatest - type.least + 1 \in Nat \ {0}
  BY <1>1 DEF InRange
<1>3. \A m \in Nat \ {0} : \A k \in 0..(m - 1) : k % m = k
  BY SMT
<1>4. (n - type.least) % (type.greatest - type.least + 1) = n - type.least
  BY <1>1, <1>2, <1>3
<1> QED BY <1>1, <1>4 DEF Wrapped

(* The two tests of a turn tell whether the number with the digit passes   *)
(* the bound, and unless it does, product and sum stay within the range.   *)
LEMMA DigitIsExact ==
  ASSUME NEW digit \in Nat, digit < base, LoopTypeOK, phase = "parsing", ValueExact
  PROVE  LET type == call.type
             next == exact * base + digit
         IN  /\ next \in Nat
             /\ PassesBound(type, digit) <=> ~InRange(type, Signed(next))
             /\ ~PassesBound(type, digit) => WithDigit(type, digit) = Signed(next)
<1> DEFINE type == call.type
           next == exact * base + digit
<1>1. /\ type \in IntType /\ type.least \in Int /\ type.greatest \in Nat
      /\ type.least \in {0, -type.greatest - 1}
      /\ base \in Nat /\ base >= 2 /\ exact \in Nat /\ negative \in BOOLEAN
  BY DEF LoopTypeOK
<1>2. value = Signed(exact) /\ InRange(type, Signed(exact))
  BY DEF ValueExact
<1>3. exact * base \in Nat /\ next \in Nat /\ next >= exact * base
  BY <1>1, SMT
<1>4. CASE negative
  <2> DEFINE bound == type.greatest + 1
  <2>1. type.least = -bound /\ bound \in Nat
    BY <1>1, <1>4 DEF LoopTypeOK
  <2>2. value = -exact /\ Signed(next) = -next
    BY <1>2, <1>4 DEF Signed
  <2>3. value * base = -(exact * base)
    BY <1>1, <2>2, SMT
  <2>4. -type.least = bound /\ MinOverBase(type) = -(bound \div base)
    BY <1>1, <2>1 DEF MinOverBase
  <2>5. bound \div base \in Nat
    BY <1>1, <2>1, SMT
  <2>6. value < MinOverBase(type) <=> exact * base > bound
    <3>1. value < MinOverBase(type) <=> exact > bound \div base
      BY <1>1, <2>2, <2>4, <2>5
    <3> QED BY <1>1, <2>1, <3>1, QuotientTells
  <2>7. CASE exact * base > bound
    <3>1. PassesBound(type, digit)
      BY <1>4, <2>6, <2>7 DEF PassesBound
    <3>2. ~InRange(type, Signed(next))
      BY <1>1, <1>3, <2>1, <2>2, <2>7 DEF InRange
    <3> QED BY <1>3, <3>1, <3>2
  <2>8. CASE exact * base <= bound
    <3>1. Product(type) = -(exact * base)
      <4>1. InRange(type, -(exact * base)) /\ -(exact * base) \in Int
        BY <1>1, <1>3, <2>1, <2>8 DEF InRange
      <4> QED BY <1>1, <2>3, <4>1, WrapsNothing DEF Product
    <3>2. PassesBound(type, digit) <=> next > bound
      BY <1>1, <1>3, <1>4, <2>1, <2>6, <2>8, <3>1 DEF PassesBound
    <3>3. InRange(type, Signed(next)) <=> next <= bound
      BY <1>1, <1>3, <2>1, <2>2 DEF InRange
    <3>4. ASSUME next <= bound PROVE WithDigit(type, digit) = Signed(next)
      <4>1. Product(type) - digit = Signed(next) /\ Signed(next) \in Int
        BY <1>1, <1>3, <2>2, <3>1
      <4> QED BY <1>1, <1>4, <3>3, <3>4, <4>1, WrapsNothing DEF WithDigit
    <3> QED BY <1>1, <1>3, <2>1, <3>2, <3>3, <3>4
  <2> QED BY <1>1, <1>3, <2>1, <2>7, <2>8
<1>5. CASE ~negative
  <2> DEFINE bound == type.greatest
  <2>1. type.least <= 0 /\ bound \in Nat
    BY <1>1
  <2>2. value = exact /\ Signed(next) = next
    BY <1>2, <1>5 DEF Signed
  <2>3. value > MaxOverBase(type) <=> exact * base > bound
    BY <1>1, <2>1, <2>2, QuotientTells DEF MaxOverBase
  <2>4. CASE exact * base > bound
    <3>1. PassesBound(type, digit)
      BY <1>5, <2>3, <2>4 DEF PassesBound
    <3>2. ~InRange(type, Signed(next))
      BY <1>1, <1>3, <2>1, <2>2, <2>4 DEF InRange
    <3> QED BY <1>3, <3>1, <3>2
  <2>5. CASE exact * base <= bound
    <3>1. Product(type) = exact * base
      <4>1. InRange(type, exact * base)
        BY <1>1, <1>3, <2>1, <2>5 DEF InRange
      <4> QED BY <1>1, <1>3, <2>2, <4>1, WrapsNothing DEF Product
    <3>2. PassesBound(type, digit) <=> next > bound
      BY <1>1, <1>3, <1>5, <2>1, <2>3, <2>5, <3>1 DEF PassesBound
    <3>3. InRange(type, Signed(next)) <=> next <= bound
      BY <1>1, <1>3, <2>1, <2>2 DEF InRange
    <3>4. ASSUME next <= bound PROVE WithDigit(type, digit) = Signed(next)
      <4>1. Product(type) + digit = Signed(next) /\ Signed(next) \in Int
        BY <1>1, <1>3, <2>2, <3>1
      <4> QED BY <1>1, <1>5, <3>3, <3>4, <4>1, WrapsNothing DEF WithDigit
    <3> QED BY <1>1, <1>3, <2>1, <3>2, <3>3, <3>4
  <2> QED BY <1>1, <1>3, <2>1, <2>4, <2>5
<1> QED BY <1>1, <1>4, <1>5

------------------------------------------------------------------------------
LEMMA NumbersInvInit == NumbersInit => NumbersInv
<1> SUFFICES ASSUME NumbersInit PROVE NumbersInv
  OBVIOUS
<1>1. call.type \in IntType
  BY DEF NumbersInit
<1>2. /\ phase = "idle" /\ negative \in BOOLEAN /\ ~negative
      /\ base = 10 /\ turn = 0 /\ value = 0 /\ exact = 0
  BY DEF NumbersInit
<1>3. LoopTypeOK
  BY <1>1, <1>2 DEF LoopTypeOK
<1>4. ValueExact
  BY <1>2 DEF ValueExact
<1> QED BY <1>3, <1>4 DEF NumbersInv

LEMMA ConvertKeeps ==
  ASSUME NumbersInv, phase = "idle", NEW text, NEW asked \in Base, NEW type \in IntType,
         Convert(text, asked, type)
  PROVE  NumbersInv'
<1> DEFINE trimmed == Trimmed(text)
           parts == BaseAndDigits(asked, Unsigned(trimmed))
<1>1. parts # <<>> => parts[1] \in 2..36
  <2> DEFINE unsigned == Unsigned(trimmed)
  <2> HIDE DEF trimmed
  <2> SUFFICES ASSUME BaseAndDigits(asked, unsigned) # <<>>
               PROVE  BaseAndDigits(asked, unsigned)[1] \in 2..36
    BY DEF trimmed
  <2> HIDE DEF unsigned
  <2> QED BY DEF BaseAndDigits
<1>2. IsNegative(trimmed) \in BOOLEAN
  BY DEF IsNegative
<1> HIDE DEF trimmed, parts
<1>3. /\ call'.type = type
      /\ negative' = IsNegative(trimmed)
      /\ turn' = 0 /\ value' = 0 /\ exact' = 0
  BY DEF Convert, trimmed
<1>4. CASE parts = <<>> \/ (IsNegative(trimmed) /\ type.least = 0)
  <2>1. phase' = "refused" /\ base' = 10
    BY <1>4 DEF Convert, trimmed, parts
  <2>2. LoopTypeOK'
    BY <1>2, <1>3, <2>1 DEF LoopTypeOK
  <2>3. ValueExact'
    BY <1>3, <2>1 DEF ValueExact
  <2> QED BY <2>2, <2>3 DEF NumbersInv
<1>5. CASE ~(parts = <<>> \/ (IsNegative(trimmed) /\ type.least = 0))
  <2>1. phase' = "parsing" /\ base' = parts[1]
    BY <1>5 DEF Convert, trimmed, parts
  <2>2. LoopTypeOK'
    BY <1>1, <1>2, <1>3, <1>5, <2>1 DEF LoopTypeOK
  <2>3. type.least <= 0 /\ 0 <= type.greatest
    OBVIOUS
  <2>4. Signed(exact)' = 0
    <3>1. exact' = 0 /\ -exact' = 0
      <4>1. exact' = 0 /\ exact' \in Int
        BY <1>3
      <4>2. \A n \in Int : n = 0 => -n \in Int /\ -n <= 0 /\ 0 <= -n
        OBVIOUS
      <4>3. \A n \in Int : n <= 0 /\ 0 <= n => n = 0
        OBVIOUS
      <4>4. -exact' \in Int /\ -exact' <= 0 /\ 0 <= -exact'
        BY <4>1, <4>2
      <4> QED BY <4>1, <4>3, <4>4
    <3>2. CASE negative'
      BY <3>1, <3>2 DEF Signed
    <3>3. CASE ~negative'
      BY <3>1, <3>3 DEF Signed
    <3> QED BY <3>2, <3>3
  <2>5. ValueExact'
    BY <1>3, <2>1, <2>3, <2>4 DEF ValueExact, InRange
  <2> QED BY <2>2, <2>5 DEF NumbersInv
<1> QED BY <1>4, <1>5

LEMMA TurnKeeps == ASSUME NumbersInv, Turn PROVE NumbersInv'
<1> DEFINE digit == DigitOf(digits[turn + 1])
           type == call.type
           next == exact * base + digit
<1>1. digit \in Nat
  BY DEF DigitOf
<1>2. /\ phase = "parsing"
      /\ UNCHANGED <<call, negative, digits, base>>
  BY DEF Turn
<1> HIDE DEF digit
<1>3. CASE digit >= base
  <2>1. phase' = "refused" /\ UNCHANGED <<turn, value, exact>>
    BY <1>3 DEF Turn, digit
  <2>2. LoopTypeOK'
    BY <1>2, <2>1 DEF NumbersInv, LoopTypeOK
  <2>3. ValueExact'
    BY <1>2, <2>1 DEF NumbersInv, ValueExact, InRange, Signed, Bound
  <2> QED BY <2>2, <2>3 DEF NumbersInv
<1>4. CASE ~(digit >= base)
  <2>1. base \in Nat /\ digit < base /\ turn \in Nat
    BY <1>1, <1>4 DEF NumbersInv, LoopTypeOK
  <2>2. /\ next \in Nat
        /\ PassesBound(type, digit) <=> ~InRange(type, Signed(next))
        /\ ~PassesBound(type, digit) => WithDigit(type, digit) = Signed(next)
    BY <1>1, <1>2, <2>1, DigitIsExact DEF NumbersInv
  <2>3. /\ turn' = turn + 1 /\ exact' = next
        /\ IF PassesBound(type, digit)
           THEN phase' = "too_large" /\ value' = Bound(type)
           ELSE value' = WithDigit(type, digit) /\ phase' = phase
    BY <1>4 DEF Turn, digit
  <2>4. type \in IntType /\ type.least \in Int /\ type.greatest \in Int
    BY DEF NumbersInv, LoopTypeOK
  <2>5. Signed(next) \in Int /\ Signed(exact)' = Signed(next)
    BY <1>2, <2>2, <2>3 DEF Signed, NumbersInv, LoopTypeOK
  <2>6. Bound(type) \in Int /\ Bound(call.type)' = Bound(type)
    BY <1>2, <2>4 DEF Bound
  <2> HIDE DEF next
  <2>7. CASE PassesBound(type, digit)
    <3>1. LoopTypeOK'
      BY <1>2, <2>1, <2>2, <2>3, <2>6, <2>7 DEF NumbersInv, LoopTypeOK
    <3>2. ValueExact'
      BY <1>2, <2>2, <2>3, <2>5, <2>6, <2>7 DEF ValueExact, InRange
    <3> QED BY <3>1, <3>2 DEF NumbersInv
  <2>8. CASE ~PassesBound(type, digit)
    <3>1. LoopTypeOK'
      BY <1>2, <2>1, <2>2, <2>3, <2>5, <2>8 DEF NumbersInv, LoopTypeOK
    <3>2. ValueExact'
      BY <1>2, <2>2, <2>3, <2>5, <2>8 DEF ValueExact, InRange
    <3> QED BY <3>1, <3>2 DEF NumbersInv
  <2> QED BY <2>7, <2>8
<1> QED BY <1>3, <1>4

(* Every conversion keeps value exact.                                     *)
LEMMA NumbersInvStep == NumbersInv /\ [NumbersNext]_numberVars => NumbersInv'
<1> SUFFICES ASSUME NumbersInv, [NumbersNext]_numberVars PROVE NumbersInv'
  OBVIOUS
<1>1. CASE phase = "idle" /\ \E n \in 0..MaxLength, asked \in Base, type \in IntType :
             \E text \in [1..n -> Character] : Convert(text, asked, type)
  BY <1>1, ConvertKeeps
<1>2. CASE Turn
  BY <1>2, TurnKeeps
<1>3. CASE Finish
  <2>1. LoopTypeOK'
    BY <1>3 DEF Finish, NumbersInv, LoopTypeOK
  <2>2. ValueExact'
    BY <1>3 DEF Finish, NumbersInv, ValueExact, InRange, Signed
  <2> QED BY <2>1, <2>2 DEF NumbersInv
<1>4. CASE Taken
  <2>1. call'.type \in IntType
    BY <1>4 DEF Taken
  <2>2. /\ phase' = "idle" /\ negative' \in BOOLEAN /\ ~negative'
        /\ base' = 10 /\ turn' = 0 /\ value' = 0 /\ exact' = 0
    BY <1>4 DEF Taken
  <2>3. LoopTypeOK'
    BY <2>1, <2>2 DEF LoopTypeOK
  <2>4. ValueExact'
    BY <2>2 DEF ValueExact
  <2> QED BY <2>3, <2>4 DEF NumbersInv
<1>5. CASE UNCHANGED numberVars
  BY <1>5 DEF numberVars, NumbersInv, LoopTypeOK, ValueExact, InRange, Signed, Bound
<1> QED BY <1>1, <1>2, <1>3, <1>4, <1>5 DEF NumbersNext


--------------------------------------------------------------------------------
(* The digits that are counted are a sequence. *)
LEMMA TrimmedIsSequence ==
  ASSUME NEW text, IsSequence(text)
  PROVE  IsSequence(Trimmed(text))
  <1> DEFINE n == Len(text)
             solid == {i \in DOMAIN text : text[i] # Space}
             first == CHOOSE i \in solid : \A j \in solid : i <= j
             last == CHOOSE i \in solid : \A j \in solid : j <= i
  <1>1. n \in Nat /\ solid \subseteq 1..n /\ solid \subseteq Nat
    BY DEF IsSequence
  <1>2. CASE solid = {}
    BY <1>2, EmptySeq, IsSequenceIntro DEF Trimmed
  <1>3. CASE solid # {}
    <2>1. Trimmed(text) = SubSeq(text, first, last)
      BY <1>3 DEF Trimmed
    <2> HIDE DEF solid, n
    <2>2. \E i \in solid : \A j \in solid : i <= j
      BY <1>1, <1>3, LeastElement
    <2>3. \E i \in solid : \A j \in solid : j <= i
      BY <1>1, <1>3, GreatestElement
    <2>4. first \in solid
      BY <2>2
    <2>5. last \in solid
      BY <2>3
    <2> HIDE DEF first, last
    <2>6. first \in Int /\ last \in Int
      BY <1>1, <2>4, <2>5
    <2> QED
      BY <2>1, <2>6, AnyPartIsSequence
  <1> QED
    BY <1>2, <1>3

LEMMA PartsAreSequences ==
  ASSUME NEW text, IsSequence(text), NEW asked,
         BaseAndDigits(asked, Unsigned(Trimmed(text))) # <<>>
  PROVE  IsSequence(BaseAndDigits(asked, Unsigned(Trimmed(text)))[2])
  <1> DEFINE t == Trimmed(text)
             u == Unsigned(t)
  <1>1. \A s, n : IsSequence(s) /\ n \in Nat => IsSequence(From(s, n))
    <2> TAKE s, n
    <2> HAVE IsSequence(s) /\ n \in Nat
    <2>1. n \in Int /\ Len(s) \in Int
      BY DEF IsSequence
    <2> QED
      BY <2>1, AnyPartIsSequence DEF From
  <1>2. IsSequence(t)
    BY TrimmedIsSequence
  <1> HIDE DEF t
  <1>3. IsSequence(u)
    BY <1>1, <1>2 DEF Unsigned
  <1> HIDE DEF u
  <1>4. ASSUME BaseAndDigits(asked, u) # <<>> PROVE IsSequence(BaseAndDigits(asked, u)[2])
    BY <1>1, <1>3, <1>4 DEF BaseAndDigits
  <1> QED
    BY <1>4 DEF u, t

(* For every type of integers, base and text: the value of a conversion is *)
(* the number of the digits it has read, unless that passes the type's     *)
(* bound, and then the conversion says so and gives the bound; no product  *)
(* or sum on the way leaves the type's range.                              *)
THEOREM ConversionIsExact == NumbersSpec => []ValueExact
<1>1. NumbersInv => ValueExact
  BY DEF NumbersInv
<1> QED BY <1>1, NumbersInvInit, NumbersInvStep, PTL DEF NumbersSpec

(* ConvertsAll, and what it needs. *)
DigitsInv ==
  /\ IsSequence(digits) /\ turn <= Len(digits)
  /\ ConvertsAll

LEMMA NothingRead ==
  ASSUME NEW b \in Nat, NEW d, Len(d) \in Nat
  PROVE  NumberOf(b, SubSeq(d, 1, 0)) = 0
  BY NumberOfPrefixes

(* Where no digit has been read, there is nothing to show. *)
LEMMA DigitsFresh ==
  ASSUME LoopTypeOK, IsSequence(digits), turn = 0, phase \in {"idle", "parsing", "refused"},
         phase = "refused" => digits = <<>>
  PROVE  DigitsInv
  <1>1. Len(digits) \in Nat /\ base \in Nat /\ exact = 0
    <2>1. Len(digits) \in Nat
      BY DEF IsSequence
    <2> QED
      BY <2>1 DEF LoopTypeOK
  <1>2. NumberOf(base, SubSeq(digits, 1, 0)) = 0
    BY <1>1, NothingRead
  <1> QED
    BY <1>1, <1>2 DEF DigitsInv, ConvertsAll

LEMMA DigitsFreshNext ==
  (LoopTypeOK /\ IsSequence(digits) /\ turn = 0 /\ phase \in {"idle", "parsing", "refused"}
     /\ (phase = "refused" => digits = <<>>) => DigitsInv)'
  BY DigitsFresh, PTL

LEMMA DigitsInit == NumbersInit => DigitsInv
  <1> SUFFICES ASSUME NumbersInit PROVE DigitsInv
    OBVIOUS
  <1>1. LoopTypeOK
    BY NumbersInvInit DEF NumbersInv
  <1>2. IsSequence(<<>>)
    BY EmptySeq, IsSequenceIntro
  <1> QED
    BY <1>1, <1>2, DigitsFresh DEF NumbersInit

LEMMA ConvertKeepsDigits ==
  ASSUME NumbersInv, DigitsInv, phase = "idle", NEW text, IsSequence(text),
         NEW asked \in Base, NEW type \in IntType, Convert(text, asked, type)
  PROVE  DigitsInv'
  <1> DEFINE trimmed == Trimmed(text)
             parts == BaseAndDigits(asked, Unsigned(trimmed))
             refused == parts = <<>> \/ (IsNegative(trimmed) /\ type.least = 0)
  <1>1. /\ phase' = IF refused THEN "refused" ELSE "parsing"
        /\ digits' = IF refused THEN <<>> ELSE parts[2]
        /\ turn' = 0
    BY DEF Convert
  <1>2. LoopTypeOK'
    BY ConvertKeeps DEF NumbersInv
  <1>3. IsSequence(<<>>)
    BY EmptySeq, IsSequenceIntro
  <1>4. parts # <<>> => IsSequence(parts[2])
    BY PartsAreSequences
  <1> HIDE DEF parts, trimmed
  <1>5. IsSequence(digits') /\ (phase' = "refused" => digits' = <<>>) /\ phase' \in {"refused", "parsing"}
    BY <1>1, <1>3, <1>4
  <1> QED
    BY <1>1, <1>2, <1>5, DigitsFreshNext

LEMMA TurnKeepsDigits ==
  ASSUME NumbersInv, DigitsInv, Turn
  PROVE  DigitsInv'
  <1> DEFINE digit == DigitOf(digits[turn + 1])
             type == call.type
             k == Len(digits)
             n == NumberOf(base, digits)
  <1>1. /\ phase = "parsing" /\ turn < k
        /\ UNCHANGED <<call, negative, digits, base>>
    BY DEF Turn
  <1>2. /\ k \in Nat /\ turn \in 0..k /\ base \in Nat \ {0} /\ exact \in Nat /\ DOMAIN digits = 1..k
    <2>1. k \in Nat /\ DOMAIN digits = 1..k
      BY DEF DigitsInv, IsSequence
    <2>2. turn \in Nat /\ base \in Nat \ {0} /\ exact \in Nat
      BY DEF NumbersInv, LoopTypeOK
    <2> QED
      BY <1>1, <2>1, <2>2
  <1>3. digit \in Nat
    BY DigitIsNat
  <1>4. exact = NumberOf(base, SubSeq(digits, 1, turn))
    BY DEF DigitsInv, ConvertsAll
  <1>5. NumbersInv'
    BY TurnKeeps
  <1>6. CASE digit >= base
    <2>1. phase' = "refused" /\ UNCHANGED <<turn, exact>>
      BY <1>6 DEF Turn
    <2>2. turn + 1 \in DOMAIN digits /\ DigitOf(digits[turn + 1]) >= base
      BY <1>1, <1>2, <1>6
    <2> QED
      BY <1>1, <1>4, <2>1, <2>2 DEF DigitsInv, ConvertsAll
  <1>7. CASE ~(digit >= base)
    <2>1. /\ turn' = turn + 1 /\ exact' = exact * base + digit
          /\ IF PassesBound(type, digit) THEN phase' = "too_large" ELSE phase' = phase
      BY <1>7 DEF Turn
    <2>2. exact' = NumberOf(base, SubSeq(digits, 1, turn + 1))
      <3>1. PICK f \in [0..k -> Nat] :
              /\ \A m \in 0..k : NumberOf(base, SubSeq(digits, 1, m)) = f[m]
              /\ \A m \in 1..k : f[m] = f[m - 1] * base + DigitOf(digits[m])
        <4> DEFINE b == base
                   d == digits
        <4>1. Len(d) \in Nat /\ b \in Nat
          BY <1>2
        <4> HIDE DEF b, d
        <4>2. \E f \in [0..Len(d) -> Nat] :
                /\ \A m \in 0..Len(d) : NumberOf(b, SubSeq(d, 1, m)) = f[m]
                /\ \A m \in 1..Len(d) : f[m] = f[m - 1] * b + DigitOf(d[m])
          BY <4>1, NumberOfPrefixes
        <4> QED
          BY <4>2 DEF b, d
      <3>2. turn + 1 \in 1..k /\ turn + 1 \in 0..k /\ (turn + 1) - 1 = turn
        BY <1>1, <1>2
      <3>3. exact = f[turn] /\ f[turn + 1] = f[turn] * base + digit
        BY <1>2, <1>4, <3>1, <3>2
      <3>4. NumberOf(base, SubSeq(digits, 1, turn + 1)) = f[turn + 1]
        BY <3>1, <3>2
      <3> QED
        BY <2>1, <3>3, <3>4
    <2>3. CASE PassesBound(type, digit)
      <3>1. phase' = "too_large"
        BY <2>1, <2>3
      <3>2. /\ exact' \in Nat /\ n \in Nat /\ exact' <= n
        <4> DEFINE b == base
                   d == digits
                   m == turn + 1
        <4>1. Len(d) \in Nat /\ b \in Nat \ {0} /\ m \in 0..Len(d)
          BY <1>1, <1>2
        <4> HIDE DEF b, d, m
        <4>2. /\ NumberOf(b, SubSeq(d, 1, m)) \in Nat /\ NumberOf(b, d) \in Nat
              /\ NumberOf(b, SubSeq(d, 1, m)) <= NumberOf(b, d)
          BY <4>1, NumberOfGrows
        <4> QED
          BY <2>2, <4>2 DEF b, d, m
      <3>3. ~InRange(type, Signed(exact)')
        BY <1>1, <1>5, <3>1 DEF NumbersInv, ValueExact, InRange, Signed
      <3>4. /\ type.least \in Int /\ type.greatest \in Int /\ type.greatest > 0
            /\ type.least <= 0 /\ negative \in BOOLEAN
        BY DEF NumbersInv, LoopTypeOK
      <3>5. ~InRange(type, Signed(n))
        <4> HIDE DEF n, type
        <4>1. CASE negative
          BY <1>1, <3>2, <3>3, <3>4, <4>1 DEF InRange, Signed
        <4>2. CASE ~negative
          BY <1>1, <3>2, <3>3, <3>4, <4>2 DEF InRange, Signed
        <4> QED
          BY <4>1, <4>2
      <3>6. ~InRange(call.type, Signed(NumberOf(base, digits)))'
        BY <1>1, <3>5 DEF Signed
      <3>7. IsSequence(digits)' /\ turn' <= Len(digits')
        BY <1>1, <1>2, <2>1 DEF DigitsInv
      <3>8. exact' = NumberOf(base', SubSeq(digits', 1, turn'))
        BY <1>1, <2>1, <2>2
      <3> QED
        BY <3>1, <3>6, <3>7, <3>8 DEF DigitsInv, ConvertsAll
    <2>4. CASE ~PassesBound(type, digit)
      <3>1. phase' = "parsing"
        BY <1>1, <2>1, <2>4
      <3>7. IsSequence(digits)' /\ turn' <= Len(digits')
        BY <1>1, <1>2, <2>1 DEF DigitsInv
      <3>8. exact' = NumberOf(base', SubSeq(digits', 1, turn'))
        BY <1>1, <2>1, <2>2
      <3> QED
        BY <3>1, <3>7, <3>8 DEF DigitsInv, ConvertsAll
    <2> QED
      BY <2>3, <2>4
  <1> QED
    BY <1>6, <1>7

LEMMA DigitsStep ==
  ASSUME NumbersInv, DigitsInv, [NumbersNext]_numberVars
  PROVE  DigitsInv'
  <1>1. CASE phase = "idle" /\ \E n \in 0..MaxLength, asked \in Base, type \in IntType :
               \E text \in [1..n -> Character] : Convert(text, asked, type)
    <2>1. PICK n \in 0..MaxLength, asked \in Base, type \in IntType :
            \E text \in [1..n -> Character] : Convert(text, asked, type)
      BY <1>1
    <2>2. PICK text \in [1..n -> Character] : Convert(text, asked, type)
      BY <2>1
    <2>3. IsSequence(text)
      <3>1. text \in Seq(Character)
        BY SeqDef
      <3> QED
        BY <3>1, IsSequenceIntro
    <2> QED
      BY <1>1, <2>2, <2>3, ConvertKeepsDigits
  <1>2. CASE Turn
    BY <1>2, TurnKeepsDigits
  <1>3. CASE Finish
    BY <1>3 DEF Finish, DigitsInv, ConvertsAll
  <1>4. CASE Taken
    <2>1. LoopTypeOK'
      BY <1>4, NumbersInvStep DEF NumbersInv, NumbersNext
    <2>2. IsSequence(<<>>)
      BY EmptySeq, IsSequenceIntro
    <2> QED
      BY <1>4, <2>1, <2>2, DigitsFreshNext DEF Taken
  <1>5. CASE UNCHANGED numberVars
    BY <1>5 DEF numberVars, DigitsInv, ConvertsAll, Signed
  <1> QED
    BY <1>1, <1>2, <1>3, <1>4, <1>5 DEF NumbersNext

(* A conversion succeeds if and only if the text has but digits, and at    *)
(* least one, and the number they stand for fits the type; and then it is  *)
(* that number.  For every type, base and text.                            *)
THEOREM TextIsConvertedExactly == NumbersSpec => []NumbersExact
  <1>1. NumbersInv /\ DigitsInv => NumbersExact
    BY DEF NumbersInv, DigitsInv, NumbersExact
  <1>2. NumbersInit => NumbersInv /\ DigitsInv
    BY NumbersInvInit, DigitsInit
  <1>3. NumbersInv /\ DigitsInv /\ [NumbersNext]_numberVars => NumbersInv' /\ DigitsInv'
    BY NumbersInvStep, DigitsStep
  <1> QED
    BY <1>1, <1>2, <1>3, PTL DEF NumbersSpec
================================================================================
