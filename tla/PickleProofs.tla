----------------------------- MODULE PickleProofs -----------------------------
(***************************************************************************)
(* Proof that what is written into pickles is read back, from the pickle,  *)
(* its copies and a stream of pickles, for any values, sizes, units and    *)
(* headers.  A payload is taken as its items one after the other, between  *)
(* offsets, and a stream as its pickles between starts.                    *)
(***************************************************************************)
EXTENDS PickleProps, DataLemmas

(* Bytes filled up to four, as WriteBytes does; an item as it is written.  *)
Filled(bytes) == bytes \o Padding(Align(Len(bytes), 4) - Len(bytes))

Encoded(item, id) ==
  IF item.kind = "bool" THEN Filled(BytesOf(id, 4))
  ELSE IF item.kind = "string"
  THEN LengthBytes(item.size) \o Filled(BytesOf(id, item.size))
  ELSE Filled(BytesOf(id, item.size))

(* `part` stands in `bytes` behind the first n.                            *)
Stands(bytes, n, part) == \A k \in 1..Len(part) : bytes[n + k] = part[k]

(* A pickle of these fields.                                               *)
Fields(h, c, w, bytes) ==
  [header_size |-> h, capacity |-> c, write_offset |-> w, payload |-> bytes]

(* A capacity of whole units, with room for n bytes.                       *)
Room(c, n) == c \in Nat /\ c % PayloadUnit = 0 /\ n <= c

(* Align gives the least multiple that is not less. *)
LEMMA AlignProperties ==
  ASSUME NEW n \in Nat, NEW a \in Nat \ {0}
  PROVE  /\ Align(n, a) \in Nat /\ n <= Align(n, a) /\ Align(n, a) % a = 0
         /\ Align(n, a) - n \in Nat
         /\ n % a = 0 => Align(n, a) = n
  <1> DEFINE m == n + a - 1
             q == m \div a
             r == m % a
  <1>1. m \in Nat /\ m = n + a - 1
    OBVIOUS
  <1>2. q \in Nat /\ r \in 0..a - 1 /\ m = q * a + r
    <2> HIDE DEF m
    <2> QED
      BY <1>1, DivisionWithRest
  <1>3. Align(n, a) = q * a
    BY DEF Align
  <1> HIDE DEF m, q, r
  <1>4. \A x, y \in Nat : x * y \in Nat
    OBVIOUS
  <1>5. q * a \in Nat
    BY <1>2, <1>4
  <1>6. (q * a) % a = 0
    <2>1. 0 \in 0..a - 1 /\ q * a + 0 = q * a
      BY <1>5
    <2> QED
      BY <1>2, <2>1, DivisionUnique
  <1>7. n <= q * a
    <2> DEFINE p == q * a
    <2>1. p \in Nat /\ n + a - 1 = p + r
      BY <1>1, <1>2, <1>5
    <2> HIDE DEF p
    <2>2. n <= p
      BY <1>2, <2>1
    <2> QED
      BY <2>2 DEF p
  <1>8. ASSUME n % a = 0 PROVE q * a = n
    <2> DEFINE k == n \div a
    <2>1. k \in Nat /\ n = k * a + (n % a)
      BY DivisionWithRest
    <2> HIDE DEF k
    <2>2. k * a \in Nat
      BY <1>4, <2>1
    <2>3. n = k * a
      BY <1>8, <2>1, <2>2
    <2>4. a - 1 \in 0..a - 1 /\ k * a + (a - 1) = n + a - 1
      BY <2>2, <2>3
    <2>5. (k * a + (a - 1)) \div a = k
      BY <2>1, <2>4, DivisionUnique
    <2>6. q = k
      BY <1>1, <2>4, <2>5 DEF q
    <2> QED
      BY <2>3, <2>6
  <1> QED
    BY <1>3, <1>5, <1>6, <1>7, <1>8

LEMMA BytesMade ==
  ASSUME NEW n \in Nat, NEW id
  PROVE  /\ IsSequence(BytesOf(id, n)) /\ Len(BytesOf(id, n)) = n
         /\ \A k \in 1..n : BytesOf(id, n)[k] = <<"value", id, k>>
         /\ IsSequence(Padding(n)) /\ Len(Padding(n)) = n
         /\ IsSequence(LengthBytes(n)) /\ Len(LengthBytes(n)) = 4
         /\ \A k \in 1..4 : LengthBytes(n)[k] = <<"length", n, k>>
         /\ IsSequence(SizeBytes(n)) /\ Len(SizeBytes(n)) = 4
         /\ SizeBytes(n)[1] = <<"payload_size", n, 1>>
  <1>1. /\ BytesOf(id, n) = [k \in 1..n |-> BytesOf(id, n)[k]]
        /\ \A k \in 1..n : BytesOf(id, n)[k] = <<"value", id, k>>
    BY DEF BytesOf
  <1>2. Padding(n) = [k \in 1..n |-> Padding(n)[k]]
    BY DEF Padding
  <1>3. /\ LengthBytes(n) = [k \in 1..4 |-> LengthBytes(n)[k]]
        /\ \A k \in 1..4 : LengthBytes(n)[k] = <<"length", n, k>>
    BY DEF LengthBytes
  <1>4. /\ SizeBytes(n) = [k \in 1..4 |-> SizeBytes(n)[k]]
        /\ SizeBytes(n)[1] = <<"payload_size", n, 1>>
    BY DEF SizeBytes
  <1>5. IsSequence(BytesOf(id, n)) /\ Len(BytesOf(id, n)) = n
    BY <1>1, FunctionIsSequence
  <1>6. IsSequence(Padding(n)) /\ Len(Padding(n)) = n
    BY <1>2, FunctionIsSequence
  <1>7. 4 \in Nat
    OBVIOUS
  <1>8. IsSequence(LengthBytes(n)) /\ Len(LengthBytes(n)) = 4
    BY <1>3, <1>7, FunctionIsSequence
  <1>9. IsSequence(SizeBytes(n)) /\ Len(SizeBytes(n)) = 4
    BY <1>4, <1>7, FunctionIsSequence
  <1> QED
    BY <1>1, <1>3, <1>4, <1>5, <1>6, <1>8, <1>9

LEMMA FilledProperties ==
  ASSUME NEW bytes, IsSequence(bytes)
  PROVE  /\ IsSequence(Filled(bytes))
         /\ Len(Filled(bytes)) = Align(Len(bytes), 4)
         /\ Len(Filled(bytes)) \in Nat /\ Len(Filled(bytes)) % 4 = 0
         /\ Len(bytes) <= Len(Filled(bytes))
         /\ Stands(Filled(bytes), 0, bytes)
         /\ Len(bytes) % 4 = 0 => Filled(bytes) = bytes
  <1> DEFINE n == Len(bytes)
             all == Align(n, 4)
             rest == Padding(all - n)
  <1>1. n \in Nat
    BY DEF IsSequence
  <1>2. /\ all \in Nat /\ n <= all /\ all % 4 = 0 /\ all - n \in Nat
        /\ n % 4 = 0 => all = n
    <2>1. 4 \in Nat \ {0}
      OBVIOUS
    <2> HIDE DEF n
    <2> QED
      BY <1>1, <2>1, AlignProperties
  <1>3. IsSequence(rest) /\ Len(rest) = all - n
    <2> HIDE DEF all, n
    <2> QED
      BY <1>2, BytesMade
  <1>4. Filled(bytes) = bytes \o rest
    BY DEF Filled
  <1> HIDE DEF rest, all
  <1>5. /\ IsSequence(bytes \o rest) /\ Len(bytes \o rest) = n + Len(rest)
        /\ \A i \in 1..n : (bytes \o rest)[i] = bytes[i]
    BY <1>3, JoinedSequence
  <1>6. Len(bytes \o rest) = all
    BY <1>1, <1>2, <1>3, <1>5
  <1>7. Stands(bytes \o rest, 0, bytes)
    BY <1>1, <1>5 DEF Stands
  <1>8. ASSUME n % 4 = 0 PROVE bytes \o rest = bytes
    <2>1. Len(bytes \o rest) = Len(bytes)
      BY <1>2, <1>6, <1>8
    <2> QED
      BY <1>5, <2>1, SameSequence
  <1> QED
    BY <1>2, <1>4, <1>5, <1>6, <1>7, <1>8 DEF all

LEMMA FilledValue ==
  ASSUME NEW n \in Nat, NEW id
  PROVE  /\ IsSequence(Filled(BytesOf(id, n))) /\ Len(Filled(BytesOf(id, n))) = Align(n, 4)
         /\ Align(n, 4) \in Nat /\ Align(n, 4) % 4 = 0 /\ n <= Align(n, 4)
         /\ Stands(Filled(BytesOf(id, n)), 0, BytesOf(id, n))
  <1> DEFINE bytes == BytesOf(id, n)
  <1>1. IsSequence(bytes) /\ Len(bytes) = n
    BY BytesMade
  <1> HIDE DEF bytes
  <1>2. /\ IsSequence(Filled(bytes)) /\ Len(Filled(bytes)) = Align(Len(bytes), 4)
        /\ Len(Filled(bytes)) \in Nat /\ Len(Filled(bytes)) % 4 = 0
        /\ Len(bytes) <= Len(Filled(bytes)) /\ Stands(Filled(bytes), 0, bytes)
    BY <1>1, FilledProperties
  <1> QED
    BY <1>1, <1>2 DEF bytes

(* Four bytes are filled as they are.                                      *)
LEMMA FourAreFilled == Align(4, 4) = 4
  <1>1. 4 \in Nat /\ 4 \in Nat \ {0} /\ 4 % 4 = 0
    OBVIOUS
  <1> QED
    BY <1>1, AlignProperties

LEMMA EncodedProperties ==
  ASSUME NEW item \in Kinds, NEW id
  PROVE  /\ IsSequence(Encoded(item, id))
         /\ Len(Encoded(item, id)) \in Nat /\ Len(Encoded(item, id)) % 4 = 0
  <1>1. item.size \in Nat /\ 4 \in Nat
    BY PickleAssumption
  <1>2. CASE item.kind = "bool"
    <2>1. Encoded(item, id) = Filled(BytesOf(id, 4))
      BY <1>2 DEF Encoded
    <2> QED
      BY <1>1, <2>1, FilledValue
  <1>3. CASE item.kind = "string"
    <2> DEFINE length == LengthBytes(item.size)
               rest == Filled(BytesOf(id, item.size))
    <2>1. Encoded(item, id) = length \o rest
      BY <1>3 DEF Encoded
    <2>2. IsSequence(length) /\ Len(length) = 4
      BY <1>1, BytesMade
    <2>3. IsSequence(rest) /\ Len(rest) \in Nat /\ Len(rest) % 4 = 0
      BY <1>1, FilledValue
    <2> HIDE DEF length, rest
    <2>4. IsSequence(length \o rest) /\ Len(length \o rest) = 4 + Len(rest)
      <3>1. IsSequence(length \o rest) /\ Len(length \o rest) = Len(length) + Len(rest)
        BY <2>2, <2>3, JoinedSequence
      <3> QED
        BY <2>2, <3>1
    <2>5. \A n \in Nat : n % 4 = 0 => 4 + n \in Nat /\ (4 + n) % 4 = 0
      OBVIOUS
    <2> QED
      BY <2>1, <2>3, <2>4, <2>5
  <1>4. CASE item.kind # "bool" /\ item.kind # "string"
    <2>1. Encoded(item, id) = Filled(BytesOf(id, item.size))
      BY <1>4 DEF Encoded
    <2> QED
      BY <1>1, <2>1, FilledValue
  <1> QED
    BY <1>2, <1>3, <1>4

(* What stands in a part stands in the whole.                              *)
LEMMA StandsWithin ==
  ASSUME NEW bytes, NEW n \in Nat, NEW part, NEW m \in Nat, NEW inner,
         Len(inner) \in Nat, Len(part) \in Nat, m + Len(inner) <= Len(part),
         Stands(bytes, n, part), Stands(part, m, inner)
  PROVE  Stands(bytes, n + m, inner)
  <1> SUFFICES ASSUME NEW k \in 1..Len(inner) PROVE bytes[(n + m) + k] = inner[k]
    BY DEF Stands
  <1>1. m + k \in 1..Len(part) /\ n + (m + k) = (n + m) + k
    OBVIOUS
  <1>2. bytes[n + (m + k)] = part[m + k] /\ part[m + k] = inner[k]
    BY <1>1 DEF Stands
  <1> QED
    BY <1>1, <1>2

LEMMA SecondStands ==
  ASSUME NEW s, NEW t, IsSequence(s), IsSequence(t)
  PROVE  Stands(s \o t, Len(s), t) /\ Stands(s \o t, 0, s)
  <1>1. Len(s) \in Nat
    BY DEF IsSequence
  <1>2. /\ \A i \in 1..Len(s) : (s \o t)[i] = s[i] /\ 0 + i = i
        /\ \A i \in 1..Len(t) : (s \o t)[Len(s) + i] = t[i]
    BY <1>1, JoinedSequence
  <1> QED
    BY <1>2 DEF Stands

(* What is behind the first n.                                             *)
LEMMA RestProperties ==
  ASSUME NEW s, IsSequence(s), NEW n \in Nat, NEW m \in Nat, n + m <= Len(s)
  PROVE  /\ IsSequence(SubSeq(s, n + 1, n + m)) /\ Len(SubSeq(s, n + 1, n + m)) = m
         /\ \A k \in 1..m : SubSeq(s, n + 1, n + m)[k] = s[n + k]
  <1> DEFINE t == SubSeq(s, n + 1, n + m)
             S == Elements(s)
             end == Len(s)
  <1>1. end \in Nat /\ n + m <= end
    BY DEF IsSequence
  <1>2. s \in Seq(S)
    BY SequenceOfElements
  <1>3. n + 1 \in Int /\ n + m \in Int
    OBVIOUS
  <1>4. IsSequence(t)
    BY <1>3, AnyPartIsSequence
  <1> HIDE DEF S
  <1>5. \A i \in n + 1..n + m : s[i] \in S
    <2>1. \A i \in n + 1..n + m : i \in 1..end
      <3> HIDE DEF end
      <3> QED
        BY <1>1
    <2> QED
      BY <1>2, <2>1
  <1>6. /\ Len(t) = IF n + 1 <= n + m THEN (n + m) - (n + 1) + 1 ELSE 0
        /\ \A k \in 1..(n + m) - (n + 1) + 1 : t[k] = s[(n + 1) + k - 1]
    BY <1>3, <1>5, SubSeqProperties
  <1> HIDE DEF t
  <1>7. (n + m) - (n + 1) + 1 = m /\ \A k \in 1..m : (n + 1) + k - 1 = n + k
    OBVIOUS
  <1>8. Len(t) = m
    BY <1>6
  <1>9. \A k \in 1..m : t[k] = s[n + k]
    BY <1>6, <1>7
  <1> QED
    BY <1>4, <1>8, <1>9 DEF t

LEMMA PartFound ==
  ASSUME NEW s, NEW n \in Nat, NEW part, IsSequence(s), IsSequence(part),
         n + Len(part) <= Len(s), Stands(s, n, part)
  PROVE  SubSeq(s, n + 1, n + Len(part)) = part
  <1> DEFINE m == Len(part)
             t == SubSeq(s, n + 1, n + m)
  <1>1. m \in Nat /\ n + m <= Len(s)
    BY DEF IsSequence
  <1> HIDE DEF m
  <1>2. IsSequence(t) /\ Len(t) = m /\ \A k \in 1..m : t[k] = s[n + k]
    BY <1>1, RestProperties
  <1>3. \A k \in 1..m : t[k] = part[k]
    BY <1>2 DEF Stands, m
  <1> HIDE DEF t
  <1>4. t = part
    BY <1>2, <1>3, SameSequence DEF m
  <1> QED
    BY <1>4 DEF t, m

(* A part of the payload that is all there is what a read finds.           *)
LEMMA ReadFinds ==
  ASSUME NEW p, NEW n \in Nat, NEW part, NEW size, IsSequence(p.payload), IsSequence(part),
         size = Len(part), n + Align(size, 4) <= Len(p.payload), Stands(p.payload, n, part)
  PROVE  ReadAt(p, n, size) = [ok |-> TRUE, next |-> n + Align(size, 4), found |-> part]
  <1> DEFINE end == Len(p.payload)
             all == Align(size, 4)
             found == SubSeq(p.payload, n + 1, n + size)
  <1>1. end \in Nat /\ size \in Nat
    BY DEF IsSequence
  <1>2. all \in Nat /\ size <= all
    <2>1. 4 \in Nat \ {0}
      OBVIOUS
    <2> QED
      BY <1>1, <2>1, AlignProperties
  <1> HIDE DEF all
  <1>3. n + all <= end
    BY DEF all
  <1> HIDE DEF end
  <1>4. ~(size < 0) /\ ~(end - n < size) /\ ~(end - n < all)
    BY <1>1, <1>2, <1>3
  <1>5. found = part
    <2>1. n + Len(part) <= end
      BY <1>1, <1>2, <1>3
    <2> QED
      BY <2>1, PartFound DEF end
  <1>6. AdvanceBy(end, n, size) = n + all
    BY <1>4 DEF AdvanceBy, all
  <1> HIDE DEF found
  <1>7. ReadAt(p, n, size) = [ok |-> TRUE, next |-> AdvanceBy(end, n, size), found |-> found]
    BY <1>4 DEF ReadAt, end, found
  <1> QED
    BY <1>5, <1>6, <1>7 DEF all


(* Reading finds an item where it was written.                             *)
LEMMA ItemIsRead ==
  ASSUME NEW p, NEW n \in Nat, NEW item \in Kinds, NEW id, IsSequence(p.payload),
         n + Len(Encoded(item, id)) <= Len(p.payload), Stands(p.payload, n, Encoded(item, id))
  PROVE  ReadItem(p, n, item) =
           [ok |-> TRUE, next |-> n + Len(Encoded(item, id)), found |-> Written(item, id)]
  <1> DEFINE size == item.size
             value == BytesOf(id, size)
  <1>1. size \in Nat /\ Len(p.payload) \in Nat
    BY PickleAssumption DEF IsSequence
  <1>2. /\ IsSequence(value) /\ Len(value) = size
        /\ IsSequence(Filled(value)) /\ Len(Filled(value)) = Align(size, 4)
        /\ Align(size, 4) \in Nat /\ size <= Align(size, 4) /\ Stands(Filled(value), 0, value)
    <2> HIDE DEF size
    <2> QED
      BY <1>1, BytesMade, FilledValue
  <1>3. CASE item.kind = "bool"
    <2> DEFINE four == Filled(BytesOf(id, 4))
               one == <<BytesOf(id, 4)[1]>>
    <2>1. Encoded(item, id) = four /\ Written(item, id) = one
      BY <1>3 DEF Encoded, Written
    <2>2. /\ IsSequence(four) /\ Len(four) = 4 /\ four[1] = BytesOf(id, 4)[1]
      <3>1. 4 \in Nat
        OBVIOUS
      <3>2. Len(BytesOf(id, 4)) = 4
        BY <3>1, BytesMade
      <3>3. 1 \in 1..4 /\ 0 + 1 = 1
        OBVIOUS
      <3>4. IsSequence(four) /\ Len(four) = Align(4, 4) /\ Stands(four, 0, BytesOf(id, 4))
        BY <3>1, FilledValue
      <3> HIDE DEF four
      <3>5. four[0 + 1] = BytesOf(id, 4)[1]
        BY <3>2, <3>3, <3>4 DEF Stands
      <3> QED
        BY <3>3, <3>4, <3>5, FourAreFilled
    <2>3. IsSequence(one) /\ Len(one) = 1 /\ one[1] = BytesOf(id, 4)[1]
      BY OneBlock
    <2>4. Align(1, 4) = 4
      <3>1. 1 + 4 - 1 = 4 /\ 4 \div 4 = 1 /\ 1 * 4 = 4
        OBVIOUS
      <3> QED
        BY <3>1 DEF Align
    <2>5. p.payload[n + 1] = four[1]
      <3>1. 1 \in 1..4
        OBVIOUS
      <3> QED
        BY <2>1, <2>2, <3>1 DEF Stands
    <2> HIDE DEF four, one
    <2>6. Stands(p.payload, n, one)
      <3>1. \A k \in 1..1 : k = 1
        OBVIOUS
      <3> QED
        BY <2>2, <2>3, <2>5, <3>1 DEF Stands
    <2>7. n + Align(1, 4) <= Len(p.payload) /\ n + Align(1, 4) = n + Len(four)
      BY <2>1, <2>2, <2>4
    <2>8. ReadAt(p, n, 1) = [ok |-> TRUE, next |-> n + Align(1, 4), found |-> one]
      <3>1. n + Align(Len(one), 4) <= Len(p.payload)
        BY <2>3, <2>7
      <3>2. ReadAt(p, n, Len(one)) = [ok |-> TRUE, next |-> n + Align(Len(one), 4), found |-> one]
        BY <2>3, <2>6, <3>1, ReadFinds
      <3> QED
        BY <2>3, <3>2
    <2> QED
      BY <1>3, <2>1, <2>7, <2>8 DEF ReadItem
  <1>4. CASE item.kind = "string"
    <2> DEFINE length == LengthBytes(size)
               rest == Filled(value)
               m == n + 4
    <2>1. Encoded(item, id) = length \o rest /\ Written(item, id) = value
      BY <1>4 DEF Encoded, Written
    <2>2. IsSequence(length) /\ Len(length) = 4 /\ length[1] = <<"length", size, 1>>
      <3>1. 1 \in 1..4
        OBVIOUS
      <3> HIDE DEF size
      <3> QED
        BY <1>1, <3>1, BytesMade
    <2>3. IsSequence(rest) /\ Len(rest) = Align(size, 4)
      BY <1>2
    <2>4. length # <<>> /\ LengthFrom(length) = size
      <3>1. length # <<>>
        <4> HIDE DEF length
        <4> QED
          BY <2>2, EmptyIsSequence
      <3> HIDE DEF length
      <3>2. length[1][1] = "length" /\ length[1][2] = size
        BY <2>2
      <3> QED
        BY <3>1, <3>2 DEF LengthFrom
    <2> HIDE DEF length, rest
    <2>5. /\ Len(length \o rest) = 4 + Len(rest) /\ Stands(length \o rest, 0, length)
          /\ Stands(length \o rest, 4, rest)
      <3>1. Len(length \o rest) = Len(length) + Len(rest)
        BY <2>2, <2>3, JoinedSequence
      <3>2. Stands(length \o rest, Len(length), rest) /\ Stands(length \o rest, 0, length)
        BY <2>2, <2>3, SecondStands
      <3> QED
        BY <2>2, <3>1, <3>2
    <2> DEFINE all == length \o rest
               filled == Align(size, 4)
    <2>6. Len(all) = 4 + filled /\ filled \in Nat /\ Len(rest) = filled
      BY <1>2, <2>3, <2>5
    <2>7. Stands(p.payload, n, all) /\ n + Len(all) <= Len(p.payload)
      BY <2>1
    <2>8. Stands(all, 0, length) /\ Stands(all, 4, rest)
      BY <2>5
    <2> HIDE DEF all, filled
    <2>9. Stands(p.payload, n, length) /\ Stands(p.payload, m, rest)
      <3>1. 0 \in Nat /\ 4 \in Nat /\ n + 0 = n
        OBVIOUS
      <3>2. 0 + Len(length) <= Len(all) /\ 4 + Len(rest) <= Len(all)
        BY <2>2, <2>6
      <3>3. Len(length) \in Nat /\ Len(rest) \in Nat /\ Len(all) \in Nat
        BY <2>2, <2>6
      <3>4. Stands(p.payload, n + 0, length)
        BY <2>7, <2>8, <3>1, <3>2, <3>3, StandsWithin
      <3>5. Stands(p.payload, n + 4, rest)
        BY <2>7, <2>8, <3>1, <3>2, <3>3, StandsWithin
      <3> QED
        BY <3>1, <3>4, <3>5
    <2>10. m + filled <= Len(p.payload) /\ m \in Nat /\ n + 4 <= Len(p.payload)
           /\ m + filled = n + Len(all)
      BY <1>1, <2>6, <2>7
    <2>11. ReadAt(p, n, 4) = [ok |-> TRUE, next |-> m, found |-> length]
      <3>1. n + Align(4, 4) <= Len(p.payload)
        BY <2>10, FourAreFilled
      <3>2. n + Align(Len(length), 4) <= Len(p.payload)
        BY <2>2, <3>1
      <3>3. ReadAt(p, n, Len(length)) = [ok |-> TRUE, next |-> n + Align(Len(length), 4), found |-> length]
        <4>1. IsSequence(length) /\ Stands(p.payload, n, length)
          BY <2>2, <2>9
        <4> DEFINE k == Len(length)
        <4>2. k = Len(length) /\ n + Align(k, 4) <= Len(p.payload)
          BY <3>2
        <4> HIDE DEF k
        <4>3. ReadAt(p, n, k) = [ok |-> TRUE, next |-> n + Align(k, 4), found |-> length]
          BY <4>1, <4>2, ReadFinds
        <4> QED
          BY <4>3 DEF k
      <3> QED
        BY <2>2, <3>3, FourAreFilled
    <2>12. Stands(p.payload, m, value)
      <3>1. 0 \in Nat /\ m + 0 = m /\ 0 + Len(value) <= Len(rest) /\ Len(rest) \in Nat /\ Len(value) \in Nat
        BY <1>1, <1>2, <2>6, <2>10 DEF filled
      <3>2. Stands(rest, 0, value)
        BY <1>2 DEF rest
      <3> HIDE DEF m, value
      <3>3. Stands(p.payload, m + 0, value)
        BY <2>9, <2>10, <3>1, <3>2, StandsWithin
      <3> QED
        BY <3>1, <3>3
    <2> HIDE DEF m, value, size
    <2>13. ReadAt(p, m, size) = [ok |-> TRUE, next |-> m + filled, found |-> value]
      <3>1. m + Align(size, 4) <= Len(p.payload)
        BY <2>10 DEF filled
      <3> QED
        BY <1>2, <2>10, <2>12, <3>1, ReadFinds DEF filled
    <2>14. ReadItem(p, n, item) = ReadAt(p, m, size)
      BY <1>4, <2>4, <2>11 DEF ReadItem
    <2> QED
      BY <2>1, <2>10, <2>13, <2>14 DEF all
  <1>5. CASE item.kind # "bool" /\ item.kind # "string"
    <2>1. Encoded(item, id) = Filled(value) /\ Written(item, id) = value
      BY <1>5 DEF Encoded, Written
    <2>2. Stands(p.payload, n, value)
      <3>1. 0 \in Nat /\ n + 0 = n /\ 0 + Len(value) <= Len(Filled(value)) /\ Len(Filled(value)) \in Nat
            /\ Len(value) \in Nat
        BY <1>1, <1>2
      <3>2. Stands(p.payload, n, Filled(value))
        BY <2>1
      <3> HIDE DEF value
      <3>3. Stands(p.payload, n + 0, value)
        BY <1>2, <3>1, <3>2, StandsWithin
      <3> QED
        BY <3>1, <3>3
    <2>3. n + Align(size, 4) <= Len(p.payload)
      BY <1>2, <2>1
    <2>4. ReadItem(p, n, item) = ReadAt(p, n, size)
      BY <1>5 DEF ReadItem
    <2> HIDE DEF value, size
    <2>5. ReadAt(p, n, size) = [ok |-> TRUE, next |-> n + Align(size, 4), found |-> value]
      BY <1>2, <2>2, <2>3, ReadFinds
    <2> QED
      BY <1>2, <2>1, <2>4, <2>5
  <1> QED
    BY <1>3, <1>4, <1>5


(* p has these bytes behind the first w of a payload, and room for them.   *)
HasWritten(p, h, w, payload, bytes) ==
  \E c : /\ Room(c, w + Len(bytes))
         /\ p = Fields(h, c, w + Len(bytes), SubSeq(payload, 1, w) \o bytes)

(* Writing appends the filled bytes at write_offset_.                      *)
LEMMA BytesAreWritten ==
  ASSUME NEW h, NEW c, NEW w \in Nat, NEW payload, NEW bytes, IsSequence(bytes), Room(c, 0)
  PROVE  HasWritten(WriteBytes(Fields(h, c, w, payload), bytes), h, w, payload, Filled(bytes))
  <1> DEFINE p == Fields(h, c, w, payload)
             n == Len(bytes)
             data_len == Align(n, 4)
             new_size == w + data_len
             grown == GrownCapacity(p, new_size)
             d == IF new_size > c THEN Align(grown, PayloadUnit) ELSE c
             before == SubSeq(payload, 1, w)
             fill == Padding(data_len - n)
  <1>1. p.header_size = h /\ p.capacity = c /\ p.write_offset = w /\ p.payload = payload
    BY DEF Fields
  <1>2. n \in Nat /\ c \in Nat /\ c % PayloadUnit = 0
    BY DEF IsSequence, Room
  <1>3. data_len \in Nat /\ n <= data_len /\ data_len - n \in Nat /\ Len(Filled(bytes)) = data_len
    <2>1. 4 \in Nat \ {0}
      OBVIOUS
    <2> HIDE DEF n
    <2>2. Align(n, 4) \in Nat /\ n <= Align(n, 4) /\ Align(n, 4) - n \in Nat
      BY <1>2, <2>1, AlignProperties
    <2>3. Len(Filled(bytes)) = Align(n, 4)
      BY FilledProperties DEF n
    <2> QED
      BY <2>2, <2>3
  <1>4. Room(d, new_size)
    <2>1. new_size \in Nat
      <3> HIDE DEF data_len
      <3> QED
        BY <1>3
    <2> HIDE DEF data_len, new_size
    <2>2. CASE new_size > c
      <3>1. grown \in Nat /\ new_size <= grown
        <4> DEFINE twice == c * 2
                   heap == Align(twice, PickleHeapAlign)
        <4>1. twice \in Nat
          BY <1>2
        <4> HIDE DEF twice
        <4>2. heap \in Nat
          BY <4>1, AlignProperties, PickleAssumption
        <4> HIDE DEF heap
        <4>3. grown = Larger(new_size, IF twice > PickleHeapAlign THEN heap - PayloadUnit ELSE twice)
          BY <1>1 DEF GrownCapacity, twice, heap
        <4>4. PayloadUnit \in Nat /\ PickleHeapAlign \in Nat
          BY PickleAssumption
        <4>5. \A x \in Int : Larger(new_size, x) \in Nat /\ new_size <= Larger(new_size, x)
          BY <2>1 DEF Larger
        <4> QED
          BY <4>1, <4>2, <4>3, <4>4, <4>5
      <3> HIDE DEF grown
      <3>2. /\ Align(grown, PayloadUnit) \in Nat /\ grown <= Align(grown, PayloadUnit)
            /\ Align(grown, PayloadUnit) % PayloadUnit = 0
        BY <3>1, AlignProperties, PickleAssumption
      <3> DEFINE a == Align(grown, PayloadUnit)
      <3>3. d = a /\ a \in Nat /\ grown <= a /\ a % PayloadUnit = 0
        BY <2>2, <3>2
      <3> HIDE DEF d, a
      <3>4. new_size <= a
        BY <2>1, <3>1, <3>3
      <3> QED
        BY <3>3, <3>4 DEF Room
    <2>3. CASE ~(new_size > c)
      <3>1. d = c /\ new_size <= c
        BY <1>2, <2>1, <2>3
      <3> QED
        BY <1>2, <3>1 DEF Room
    <2> QED
      BY <2>2, <2>3
  <1>5. (before \o bytes) \o fill = before \o Filled(bytes)
    <2>1. IsSequence(before)
      BY PartOfSequence
    <2>2. IsSequence(fill)
      <3> HIDE DEF data_len, n
      <3> QED
        BY <1>3, BytesMade
    <2>3. Filled(bytes) = bytes \o fill
      BY DEF Filled
    <2> HIDE DEF fill, before
    <2> QED
      BY <2>1, <2>2, <2>3, JoinedThrice
  <1>6. WriteBytes(p, bytes) = Fields(h, d, new_size, (before \o bytes) \o fill)
    <2> DEFINE room == IF new_size > p.capacity THEN Resize(p, grown) ELSE p
    <2>1. room = Fields(h, d, w, payload)
      <3> HIDE DEF new_size, grown
      <3>1. Resize(p, grown) = Fields(h, Align(grown, PayloadUnit), w, payload)
        BY DEF Resize, Fields
      <3>2. p.capacity = c
        BY <1>1
      <3> QED
        BY <3>1, <3>2
    <2>2. WriteBytes(p, bytes) =
            [room EXCEPT !.payload = SubSeq(@, 1, p.write_offset) \o bytes \o Padding(data_len - n),
                         !.write_offset = new_size]
      BY <1>1 DEF WriteBytes
    <2> HIDE DEF room, d, new_size, data_len, n
    <2>3. room.payload = payload /\ p.write_offset = w
      BY <1>1, <2>1 DEF Fields
    <2> HIDE DEF p
    <2> QED
      BY <2>1, <2>2, <2>3 DEF Fields
  <1> HIDE DEF d, before, fill
  <1>7. WriteBytes(p, bytes) = Fields(h, d, w + Len(Filled(bytes)), before \o Filled(bytes))
    BY <1>3, <1>5, <1>6
  <1>8. Room(d, w + Len(Filled(bytes)))
    BY <1>3, <1>4
  <1> QED
    BY <1>7, <1>8 DEF p, before, HasWritten


LEMMA WholeIsPart ==
  ASSUME NEW s, IsSequence(s)
  PROVE  SubSeq(s, 1, Len(s)) = s
  <1> DEFINE t == SubSeq(s, 1, Len(s))
  <1>1. Len(s) \in Nat
    BY DEF IsSequence
  <1>2. IsSequence(t) /\ Len(t) = Len(s) /\ \A i \in 1..Len(s) : t[i] = s[i]
    BY <1>1, PartOfSequence
  <1> HIDE DEF t
  <1>3. t = s
    BY <1>2, SameSequence
  <1> QED
    BY <1>3 DEF t

LEMMA ItemIsWritten ==
  ASSUME NEW h, NEW c, NEW w \in Nat, NEW payload, NEW item \in Kinds, NEW id, Room(c, 0)
  PROVE  HasWritten(WriteItem(Fields(h, c, w, payload), item, id), h, w, payload,
                    Encoded(item, id))
  <1> DEFINE size == item.size
  <1>1. size \in Nat /\ 4 \in Nat
    BY PickleAssumption
  <1>2. CASE item.kind # "string"
    <2> DEFINE value == IF item.kind = "bool" THEN BytesOf(id, 4) ELSE BytesOf(id, size)
    <2>1. IsSequence(value)
      BY <1>1, BytesMade
    <2>2. Encoded(item, id) = Filled(value)
      BY <1>2 DEF Encoded
    <2>3. WriteItem(Fields(h, c, w, payload), item, id) = WriteBytes(Fields(h, c, w, payload), value)
      BY <1>2 DEF WriteItem
    <2> HIDE DEF value
    <2> QED
      BY <2>1, <2>2, <2>3, BytesAreWritten
  <1>3. CASE item.kind = "string"
    <2> DEFINE length == LengthBytes(size)
               value == BytesOf(id, size)
               before == SubSeq(payload, 1, w)
               rest == Filled(value)
    <2>1. IsSequence(length) /\ Len(length) = 4 /\ IsSequence(value)
      <3> HIDE DEF size
      <3> QED
        BY <1>1, BytesMade
    <2>2. IsSequence(rest) /\ Len(rest) \in Nat
      <3> HIDE DEF value
      <3> QED
        BY <2>1, FilledProperties
    <2>3. IsSequence(before) /\ Len(before) = w
      BY PartOfSequence
    <2>4. Encoded(item, id) = length \o rest
      BY <1>3 DEF Encoded
    <2>5. WriteItem(Fields(h, c, w, payload), item, id) =
            WriteBytes(WriteBytes(Fields(h, c, w, payload), length), value)
      BY <1>3 DEF WriteItem
    <2>6. Filled(length) = length
      <3> HIDE DEF length
      <3>1. Len(length) % 4 = 0
        BY <2>1
      <3> QED
        BY <2>1, <3>1, FilledProperties
    <2> HIDE DEF length, value
    <2>7. PICK d : /\ Room(d, w + Len(length))
                   /\ WriteBytes(Fields(h, c, w, payload), length) =
                        Fields(h, d, w + Len(length), before \o length)
      <3>1. HasWritten(WriteBytes(Fields(h, c, w, payload), length), h, w, payload, Filled(length))
        <4>1. IsSequence(length)
          BY <2>1
        <4> QED
          BY <4>1, BytesAreWritten
      <3> QED
        BY <2>6, <3>1 DEF HasWritten
    <2> HIDE DEF rest, before
    <2> DEFINE m == w + Len(length)
               most == before \o length
    <2>8. IsSequence(most) /\ Len(most) = m /\ m \in Nat
      <3>1. IsSequence(most) /\ Len(most) = Len(before) + Len(length)
        BY <2>1, <2>3, JoinedSequence
      <3> QED
        BY <2>1, <2>3, <3>1
    <2>9. Room(d, 0)
      BY <2>7 DEF Room
    <2>10. (before \o length) \o rest = before \o (length \o rest)
      <3>1. IsSequence(before) /\ IsSequence(length) /\ IsSequence(rest)
        BY <2>1, <2>2, <2>3
      <3> QED
        BY <3>1, JoinedThrice
    <2>11. m + Len(rest) = w + Len(length \o rest)
      <3>1. Len(length \o rest) = Len(length) + Len(rest)
        BY <2>1, <2>2, JoinedSequence
      <3>2. \A x, y, z, u \in Nat : u = y + z => (x + y) + z = x + u
        OBVIOUS
      <3>3. Len(length) \in Nat /\ Len(length \o rest) \in Nat
        BY <2>1, <2>2, <3>1
      <3> QED
        BY <2>2, <3>1, <3>2, <3>3
    <2>12. WriteBytes(Fields(h, c, w, payload), length) = Fields(h, d, m, most)
      BY <2>7
    <2>13. most \o rest = before \o (length \o rest)
      BY <2>10
    <2> HIDE DEF m, most
    <2>14. SubSeq(most, 1, m) = most
      BY <2>8, WholeIsPart
    <2>15. HasWritten(WriteBytes(Fields(h, d, m, most), value), h, m, most, Filled(value))
      <3>1. IsSequence(value) /\ m \in Nat
        BY <2>1, <2>8
      <3> QED
        BY <3>1, <2>9, BytesAreWritten
    <2>16. \E f : /\ Room(f, m + Len(rest))
                  /\ WriteBytes(Fields(h, d, m, most), value) =
                       Fields(h, f, m + Len(rest), most \o rest)
      BY <2>14, <2>15 DEF rest, HasWritten
    <2> QED
      BY <2>4, <2>5, <2>11, <2>12, <2>13, <2>16 DEF before, HasWritten
  <1> QED
    BY <1>2, <1>3

------------------------------------------------------------------------------
(* Item n of `held` stands in the payload between two offsets; the payload *)
(* is its items one after the other.                                       *)
HoldsItem(payload, held, offset, n) ==
  /\ offset[n] = offset[n - 1] + Len(Encoded(held[n], n))
  /\ offset[n] <= Len(payload)
  /\ Stands(payload, offset[n - 1], Encoded(held[n], n))

Holds(payload, held, offset) ==
  /\ IsSequence(payload) /\ IsSequence(held)
  /\ offset \in [0..Len(held) -> Nat]
  /\ offset[0] = 0 /\ offset[Len(held)] = Len(payload)
  /\ \A n \in 1..Len(held) : held[n] \in Kinds /\ HoldsItem(payload, held, offset, n)

LEMMA NothingHeld == \E offset : Holds(<<>>, <<>>, offset)
  <1> DEFINE offset == [n \in 0..0 |-> 0]
  <1>1. Len(<<>>) = 0 /\ IsSequence(<<>>)
    BY EmptyIsSequence
  <1>2. offset \in [0..0 -> Nat] /\ offset[0] = 0 /\ 1..0 = {}
    OBVIOUS
  <1> HIDE DEF offset
  <1>3. Holds(<<>>, <<>>, offset)
    BY <1>1, <1>2 DEF Holds
  <1> QED
    BY <1>3

LEMMA OneMoreHeld ==
  ASSUME NEW payload, NEW held, NEW offset, Holds(payload, held, offset), NEW item \in Kinds
  PROVE  \E further : Holds(payload \o Encoded(item, Len(held) + 1), Append(held, item), further)
  <1> DEFINE id == Len(held) + 1
             bytes == Encoded(item, id)
             longer == payload \o bytes
             more == Append(held, item)
             further == [n \in 0..id |-> IF n = id THEN Len(longer) ELSE offset[n]]
  <1>1. /\ IsSequence(payload) /\ IsSequence(held) /\ Len(held) \in Nat /\ Len(payload) \in Nat
        /\ offset \in [0..Len(held) -> Nat] /\ offset[0] = 0 /\ offset[Len(held)] = Len(payload)
    BY DEF Holds, IsSequence
  <1>2. IsSequence(bytes) /\ Len(bytes) \in Nat
    BY EncodedProperties
  <1>3. /\ IsSequence(more) /\ Len(more) = id /\ more[id] = item
        /\ \A n \in 1..Len(held) : more[n] = held[n]
    BY <1>1, AppendedSequence
  <1> HIDE DEF bytes, more
  <1>4. /\ IsSequence(longer) /\ Len(longer) = Len(payload) + Len(bytes)
        /\ \A i \in 1..Len(payload) : longer[i] = payload[i]
        /\ Stands(longer, Len(payload), bytes)
    BY <1>1, <1>2, JoinedSequence, SecondStands
  <1> HIDE DEF longer
  <1>5. Len(longer) \in Nat /\ Len(payload) <= Len(longer) /\ id \in Nat /\ id # 0
    BY <1>1, <1>2, <1>4
  <1>6. /\ further \in [0..id -> Nat] /\ further[id] = Len(longer)
        /\ \A n \in 0..Len(held) : further[n] = offset[n]
    <2>1. \A n \in 0..id : n # id => n \in 0..Len(held)
      BY <1>1
    <2>2. \A n \in 0..Len(held) : n \in 0..id /\ n # id
      BY <1>1
    <2>3. id \in 0..id
      BY <1>5
    <2> HIDE DEF id
    <2>4. \A n \in 0..id : (IF n = id THEN Len(longer) ELSE offset[n]) \in Nat
      BY <1>1, <1>5, <2>1
    <2> QED
      BY <2>2, <2>3, <2>4
  <1> HIDE DEF further
  <1>7. ASSUME NEW n \in 1..id PROVE more[n] \in Kinds /\ HoldsItem(longer, more, further, n)
    <2>1. CASE n = id
      <3>1. n - 1 = Len(held) /\ Len(held) \in 0..Len(held)
        BY <1>1, <2>1
      <3>2. further[n - 1] = Len(payload) /\ further[n] = Len(longer) /\ more[n] = item
        BY <1>1, <1>3, <1>6, <2>1, <3>1
      <3>3. Encoded(more[n], n) = bytes
        BY <2>1, <3>2 DEF bytes
      <3>4. Len(longer) <= Len(longer)
        BY <1>5
      <3> QED
        BY <1>4, <3>2, <3>3, <3>4 DEF HoldsItem
    <2>2. CASE n # id
      <3>1. n \in 1..Len(held) /\ n \in 0..Len(held) /\ n - 1 \in 0..Len(held)
        BY <1>1, <2>2
      <3>2. further[n] = offset[n] /\ further[n - 1] = offset[n - 1] /\ more[n] = held[n]
        BY <1>3, <1>6, <3>1
      <3>3. held[n] \in Kinds /\ HoldsItem(payload, held, offset, n)
        BY <3>1 DEF Holds
      <3> DEFINE part == Encoded(held[n], n)
                 from == offset[n - 1]
      <3>4. /\ offset[n] = from + Len(part) /\ offset[n] <= Len(payload)
            /\ Stands(payload, from, part) /\ from \in Nat /\ offset[n] \in Nat
        BY <1>1, <3>1, <3>3 DEF HoldsItem
      <3>5. Len(part) \in Nat
        BY <3>3, EncodedProperties
      <3> HIDE DEF part, from
      <3>6. Stands(longer, from, part)
        <4>1. \A k \in 1..Len(part) : from + k \in 1..Len(payload)
          BY <1>1, <3>4, <3>5
        <4> QED
          BY <1>4, <3>4, <4>1 DEF Stands
      <3>7. offset[n] <= Len(longer)
        BY <1>1, <1>5, <3>4
      <3> QED
        BY <3>2, <3>3, <3>4, <3>6, <3>7 DEF HoldsItem, part, from
    <2> QED
      BY <2>1, <2>2
  <1>8. further[0] = 0
    BY <1>1, <1>6
  <1>9. Holds(longer, more, further)
    BY <1>3, <1>4, <1>6, <1>7, <1>8 DEF Holds
  <1> QED
    BY <1>9 DEF longer, more, bytes


(* Each item is read where the one before it ends.                         *)
LEMMA HeldIsRead ==
  ASSUME NEW p, NEW held, NEW offset, Holds(p.payload, held, offset), NEW n \in 1..Len(held)
  PROVE  /\ offset[n - 1] \in Nat /\ offset[n] \in Nat
         /\ ReadItem(p, offset[n - 1], held[n]) =
              [ok |-> TRUE, next |-> offset[n], found |-> Written(held[n], n)]
  <1> DEFINE from == offset[n - 1]
             item == held[n]
  <1>1. Len(held) \in Nat /\ IsSequence(p.payload) /\ offset \in [0..Len(held) -> Nat]
    BY DEF Holds, IsSequence
  <1>2. item \in Kinds /\ HoldsItem(p.payload, held, offset, n)
    BY DEF Holds
  <1>3. from \in Nat /\ offset[n] \in Nat
    <2>1. n - 1 \in 0..Len(held) /\ n \in 0..Len(held)
      BY <1>1
    <2> QED
      BY <1>1, <2>1
  <1>4. /\ offset[n] = from + Len(Encoded(item, n)) /\ offset[n] <= Len(p.payload)
        /\ Stands(p.payload, from, Encoded(item, n))
    BY <1>2 DEF HoldsItem
  <1> HIDE DEF from, item
  <1>5. from + Len(Encoded(item, n)) <= Len(p.payload)
    BY <1>4
  <1>6. ReadItem(p, from, item) =
          [ok |-> TRUE, next |-> from + Len(Encoded(item, n)), found |-> Written(item, n)]
    BY <1>1, <1>2, <1>3, <1>4, <1>5, ItemIsRead
  <1> QED
    BY <1>3, <1>4, <1>6 DEF from, item

LEMMA HeldReadsBack ==
  ASSUME NEW p, p # Absent, NEW held, NEW offset, Holds(p.payload, held, offset)
  PROVE  ReadsBack(p, held)
  <1> DEFINE k == Len(held)
             index[n \in 0..k] == IF n = 0 THEN 0 ELSE ReadItem(p, index[n - 1], held[n]).next
  <1>1. /\ k \in Nat /\ Len(p.payload) \in Nat /\ offset \in [0..k -> Nat]
        /\ offset[0] = 0 /\ offset[k] = Len(p.payload)
    BY DEF Holds, IsSequence
  <1>2. \A n \in 1..k :
          ReadItem(p, offset[n - 1], held[n]) =
            [ok |-> TRUE, next |-> offset[n], found |-> Written(held[n], n)]
    BY HeldIsRead
  <1>3. \A n \in 1..k : ReadItem(p, offset[n - 1], held[n]).next = offset[n]
    <2> TAKE n \in 1..k
    <2>1. ReadItem(p, offset[n - 1], held[n]) =
            [ok |-> TRUE, next |-> offset[n], found |-> Written(held[n], n)]
      BY <1>2
    <2> QED
      BY <2>1
  <1>4. index = [n \in 0..k |-> IF n = 0 THEN 0 ELSE ReadItem(p, index[n - 1], held[n]).next]
    <2>1. offset = [n \in 0..k |-> IF n = 0 THEN 0 ELSE ReadItem(p, offset[n - 1], held[n]).next]
      <3>1. ASSUME NEW n \in 0..k
            PROVE  offset[n] = IF n = 0 THEN 0 ELSE ReadItem(p, offset[n - 1], held[n]).next
        <4>1. CASE n = 0
          BY <1>1, <4>1
        <4>2. CASE n # 0
          <5>1. n \in 1..k
            BY <1>1, <4>2
          <5> HIDE DEF k
          <5>2. ReadItem(p, offset[n - 1], held[n]).next = offset[n]
            BY <1>3, <5>1
          <5> QED
            BY <4>2, <5>2
        <4> QED
          BY <4>1, <4>2
      <3> HIDE DEF k
      <3> QED
        BY <1>1, <3>1
    <2> QED
      BY <2>1, Zenon
  <1> DEFINE Back ==
        /\ p # Absent
        /\ \A n \in 1..k :
             LET read == ReadItem(p, index[n - 1], held[n]) IN
             read.ok /\ read.found = Written(held[n], n)
        /\ index[k] = Len(p.payload)
        /\ \A size \in 1..8 : ~ReadAt(p, Len(p.payload), size).ok
  <1>5. ReadsBack(p, held) <=> Back
    BY DEF ReadsBack
  <1> HIDE DEF index
  <1>6. \A n \in 0..k : index[n] = offset[n]
    <2> DEFINE T == {m \in Nat : m <= k => index[m] = offset[m]}
    <2>1. 0 \in T
      BY <1>1, <1>4
    <2>2. ASSUME NEW m \in Nat, m \in T PROVE m + 1 \in T
      <3> SUFFICES ASSUME m + 1 <= k PROVE index[m + 1] = offset[m + 1]
        OBVIOUS
      <3> HIDE DEF k
      <3>1. index[m] = offset[m] /\ m + 1 \in 0..k /\ m + 1 # 0 /\ (m + 1) - 1 = m /\ m + 1 \in 1..k
        BY <1>1, <2>2
      <3>2. index[m + 1] = ReadItem(p, index[(m + 1) - 1], held[m + 1]).next
        BY <1>4, <3>1
      <3>3. ReadItem(p, offset[(m + 1) - 1], held[m + 1]).next = offset[m + 1]
        BY <1>3, <3>1
      <3> QED
        BY <3>1, <3>2, <3>3
    <2> HIDE DEF T
    <2>3. Nat \subseteq T
      BY <2>1, <2>2, InductionOverNat
    <2>4. \A n \in 0..k : n \in Nat /\ n <= k
      BY <1>1
    <2> QED
      BY <2>3, <2>4 DEF T
  <1>7. ASSUME NEW n \in 1..k
        PROVE  /\ ReadItem(p, index[n - 1], held[n]).ok
               /\ ReadItem(p, index[n - 1], held[n]).found = Written(held[n], n)
    <2>1. n - 1 \in 0..k
      BY <1>1
    <2>2. index[n - 1] = offset[n - 1]
      BY <1>6, <2>1
    <2>3. ReadItem(p, index[n - 1], held[n]) =
            [ok |-> TRUE, next |-> offset[n], found |-> Written(held[n], n)]
      BY <1>2, <2>2
    <2> QED
      BY <2>3
  <1>8. index[k] = Len(p.payload)
    <2>1. k \in 0..k
      BY <1>1
    <2> QED
      BY <1>1, <1>6, <2>1
  <1>9. ASSUME NEW size \in 1..8 PROVE ~ReadAt(p, Len(p.payload), size).ok
    <2> DEFINE end == Len(p.payload)
    <2>1. end - end < size
      BY <1>1
    <2> HIDE DEF end
    <2>2. ReadAt(p, end, size) = [ok |-> FALSE, next |-> Len(p.payload), found |-> <<>>]
      BY <2>1 DEF ReadAt, end
    <2> QED
      BY <2>2 DEF end
  <1> QED
    BY <1>5, <1>7, <1>8, <1>9


------------------------------------------------------------------------------
(* A pickle as it is sent: its header and its payload.                     *)
Packed(payload) == SizeBytes(Len(payload)) \o Padding(StreamHeader - 4) \o payload

LEMMA StreamHeaderIsWords ==
  /\ StreamHeader \in Nat /\ StreamHeader - 4 \in Nat /\ StreamHeader # 0
  /\ StreamHeader = Align(StreamHeader, 4)
  <1>1. PICK n \in 1..(PayloadUnit \div 4) : StreamHeader = 4 * n
    BY PickleAssumption
  <1>2. n \in Nat /\ 1 <= n
    <2>1. PayloadUnit \div 4 \in Int
      BY PickleAssumption
    <2> QED
      BY <2>1
  <1>3. StreamHeader \in Nat /\ StreamHeader - 4 \in Nat /\ StreamHeader # 0
    BY <1>1, <1>2
  <1>4. StreamHeader % 4 = 0 /\ 4 \in Nat \ {0}
    BY <1>1, <1>2
  <1> QED
    BY <1>3, <1>4, AlignProperties

LEMMA PackedProperties ==
  ASSUME NEW payload, IsSequence(payload)
  PROVE  /\ IsSequence(Packed(payload)) /\ Len(payload) \in Nat
         /\ Len(Packed(payload)) = StreamHeader + Len(payload)
         /\ Packed(payload)[1] = <<"payload_size", Len(payload), 1>>
         /\ Stands(Packed(payload), StreamHeader, payload)
  <1> DEFINE size == SizeBytes(Len(payload))
             fill == Padding(StreamHeader - 4)
             header == size \o fill
  <1>1. Len(payload) \in Nat
    BY DEF IsSequence
  <1>2. IsSequence(size) /\ Len(size) = 4 /\ size[1] = <<"payload_size", Len(payload), 1>>
    BY <1>1, BytesMade
  <1>3. IsSequence(fill) /\ Len(fill) = StreamHeader - 4
    BY StreamHeaderIsWords, BytesMade
  <1> HIDE DEF size, fill
  <1>4. /\ IsSequence(header) /\ Len(header) = Len(size) + Len(fill)
        /\ \A i \in 1..Len(size) : header[i] = size[i]
    BY <1>2, <1>3, JoinedSequence
  <1>5. Packed(payload) = header \o payload
    BY DEF Packed, size, fill
  <1> HIDE DEF header
  <1>6. Len(header) = StreamHeader /\ header[1] = <<"payload_size", Len(payload), 1>> /\ 1 \in 1..Len(header)
    <2>1. Len(header) = StreamHeader
      BY <1>2, <1>3, <1>4, StreamHeaderIsWords
    <2>2. 1 \in 1..Len(size)
      BY <1>2
    <2>3. 1 \in 1..StreamHeader
      BY StreamHeaderIsWords
    <2> QED
      BY <1>2, <1>4, <2>1, <2>2, <2>3
  <1>7. /\ IsSequence(header \o payload)
        /\ Len(header \o payload) = Len(header) + Len(payload)
        /\ \A i \in 1..Len(header) : (header \o payload)[i] = header[i]
    BY <1>4, JoinedSequence
  <1>8. Stands(header \o payload, Len(header), payload)
    BY <1>4, SecondStands
  <1> QED
    BY <1>1, <1>5, <1>6, <1>7, <1>8

(* The receiver's constructor takes a pickle out of its header again.      *)
LEMMA FromPacked ==
  ASSUME NEW payload, IsSequence(payload)
  PROVE  FromData(Packed(payload)) = Fields(StreamHeader, ReadOnly, 0, payload)
  <1> DEFINE bytes == Packed(payload)
             n == Len(payload)
  <1>1. /\ IsSequence(bytes) /\ n \in Nat /\ Len(bytes) = StreamHeader + n
        /\ bytes[1] = <<"payload_size", n, 1>> /\ Stands(bytes, StreamHeader, payload)
    BY PackedProperties
  <1> HIDE DEF bytes, n
  <1>2. bytes[1][2] = n
    BY <1>1
  <1>3. Len(bytes) - bytes[1][2] = StreamHeader /\ ~(Len(bytes) < 4)
        /\ ~(StreamHeader < 0 \/ StreamHeader > Len(bytes))
    BY <1>1, <1>2, StreamHeaderIsWords
  <1>4. SubSeq(bytes, StreamHeader + 1, Len(bytes)) = payload
    <2>1. StreamHeader + Len(payload) <= Len(bytes)
      BY <1>1, StreamHeaderIsWords DEF n
    <2>2. SubSeq(bytes, StreamHeader + 1, StreamHeader + Len(payload)) = payload
      BY <1>1, <2>1, StreamHeaderIsWords, PartFound
    <2> QED
      BY <1>1, <2>2 DEF n
  <1>5. FromData(bytes) = [header_size |-> StreamHeader, capacity |-> ReadOnly, write_offset |-> 0,
                           payload |-> SubSeq(bytes, StreamHeader + 1, Len(bytes))]
    BY <1>3, StreamHeaderIsWords DEF FromData
  <1> QED
    BY <1>4, <1>5 DEF bytes, Fields

(* FindNext finds a pickle when its last byte has arrived, and not before. *)
LEMMA NextIsFound ==
  ASSUME NEW bytes, NEW n \in Nat, bytes[1] = <<"payload_size", n, 1>>, NEW length \in Int
  PROVE  FindNext(StreamHeader, bytes, length) =
           IF length < StreamHeader + n THEN 0 ELSE StreamHeader + n
  <1>1. bytes[1][2] = n
    OBVIOUS
  <1>2. CASE length < 4 \/ length < StreamHeader
    <2>1. length < StreamHeader + n
      BY <1>2, StreamHeaderIsWords
    <2> QED
      BY <1>2, <2>1 DEF FindNext
  <1>3. CASE ~(length < 4 \/ length < StreamHeader)
    <2>1. FindNext(StreamHeader, bytes, length) =
            IF StreamHeader + n > length THEN 0 ELSE StreamHeader + n
      BY <1>1, <1>3 DEF FindNext
    <2> QED
      BY <2>1, StreamHeaderIsWords
  <1> QED
    BY <1>2, <1>3


(* Pickle n of the stream is between two starts, and holds its items; the  *)
(* stream is its pickles one after the other.                              *)
HoldsPickle(bytes, queue, start, sent, n) ==
  /\ start[n] = start[n - 1] + StreamHeader + Len(sent[n])
  /\ start[n] <= Len(bytes)
  /\ IsSequence(sent[n]) /\ Len(sent[n]) % 4 = 0
  /\ Stands(bytes, start[n - 1], Packed(sent[n]))
  /\ \E offset : Holds(sent[n], queue[n], offset)

OnTheWay(bytes, queue, start, sent) ==
  /\ IsSequence(bytes) /\ IsSequence(queue)
  /\ start \in [0..Len(queue) -> Nat]
  /\ start[0] = 0 /\ start[Len(queue)] = Len(bytes)
  /\ \A n \in 1..Len(queue) : HoldsPickle(bytes, queue, start, sent, n)

LEMMA NothingOnTheWay == \E start, sent : OnTheWay(<<>>, <<>>, start, sent)
  <1> DEFINE start == [n \in 0..0 |-> 0]
  <1>1. Len(<<>>) = 0 /\ IsSequence(<<>>)
    BY EmptyIsSequence
  <1>2. start \in [0..0 -> Nat] /\ start[0] = 0 /\ 1..0 = {}
    OBVIOUS
  <1> HIDE DEF start
  <1>3. OnTheWay(<<>>, <<>>, start, <<>>)
    BY <1>1, <1>2 DEF OnTheWay
  <1> QED
    BY <1>3

LEMMA OneMoreOnTheWay ==
  ASSUME NEW bytes, NEW queue, NEW start, NEW sent, OnTheWay(bytes, queue, start, sent),
         NEW payload, NEW held, Len(payload) % 4 = 0, NEW offset, Holds(payload, held, offset)
  PROVE  \E ends, all : OnTheWay(bytes \o Packed(payload), Append(queue, held), ends, all)
  <1> DEFINE id == Len(queue) + 1
             packed == Packed(payload)
             longer == bytes \o packed
             more == Append(queue, held)
             ends == [n \in 0..id |-> IF n = id THEN Len(longer) ELSE start[n]]
             all == [n \in 1..id |-> IF n = id THEN payload ELSE sent[n]]
  <1>1. /\ IsSequence(bytes) /\ IsSequence(queue) /\ Len(queue) \in Nat /\ Len(bytes) \in Nat
        /\ start \in [0..Len(queue) -> Nat] /\ start[0] = 0 /\ start[Len(queue)] = Len(bytes)
        /\ IsSequence(payload)
    BY DEF OnTheWay, Holds, IsSequence
  <1>2. IsSequence(packed) /\ Len(packed) = StreamHeader + Len(payload) /\ Len(payload) \in Nat
    BY <1>1, PackedProperties
  <1>3. /\ IsSequence(more) /\ Len(more) = id /\ more[id] = held
        /\ \A n \in 1..Len(queue) : more[n] = queue[n]
    BY <1>1, AppendedSequence
  <1> HIDE DEF packed, more
  <1>4. /\ IsSequence(longer) /\ Len(longer) = Len(bytes) + Len(packed)
        /\ \A i \in 1..Len(bytes) : longer[i] = bytes[i]
        /\ Stands(longer, Len(bytes), packed)
    BY <1>1, <1>2, JoinedSequence, SecondStands
  <1> HIDE DEF longer
  <1>5. /\ Len(longer) = Len(bytes) + StreamHeader + Len(payload)
        /\ Len(longer) \in Nat /\ Len(bytes) <= Len(longer) /\ id \in Nat /\ id # 0
    BY <1>1, <1>2, <1>4, StreamHeaderIsWords
  <1>6. /\ ends \in [0..id -> Nat] /\ ends[id] = Len(longer)
        /\ \A n \in 0..Len(queue) : ends[n] = start[n]
        /\ all[id] = payload /\ \A n \in 1..Len(queue) : all[n] = sent[n]
    <2>1. \A n \in 0..id : n # id => n \in 0..Len(queue)
      BY <1>1
    <2>2. \A n \in 0..Len(queue) : n \in 0..id /\ n # id
      BY <1>1
    <2>3. id \in 0..id /\ id \in 1..id /\ \A n \in 1..Len(queue) : n \in 1..id /\ n # id
      BY <1>1
    <2> HIDE DEF id
    <2>4. \A n \in 0..id : (IF n = id THEN Len(longer) ELSE start[n]) \in Nat
      BY <1>1, <1>5, <2>1
    <2> QED
      BY <2>2, <2>3, <2>4
  <1> HIDE DEF ends, all
  <1>7. ASSUME NEW n \in 1..id PROVE HoldsPickle(longer, more, ends, all, n)
    <2>1. CASE n = id
      <3>1. n - 1 = Len(queue) /\ Len(queue) \in 0..Len(queue)
        BY <1>1, <2>1
      <3>2. ends[n - 1] = Len(bytes) /\ ends[n] = Len(longer) /\ more[n] = held /\ all[n] = payload
        BY <1>1, <1>3, <1>6, <2>1, <3>1
      <3>3. Len(longer) <= Len(longer)
        BY <1>5
      <3>4. Stands(longer, Len(bytes), Packed(payload))
        BY <1>4 DEF packed
      <3> QED
        BY <1>1, <1>5, <3>2, <3>3, <3>4 DEF HoldsPickle
    <2>2. CASE n # id
      <3>1. n \in 1..Len(queue) /\ n \in 0..Len(queue) /\ n - 1 \in 0..Len(queue)
        BY <1>1, <2>2
      <3>2. ends[n] = start[n] /\ ends[n - 1] = start[n - 1] /\ more[n] = queue[n] /\ all[n] = sent[n]
        BY <1>3, <1>6, <3>1
      <3>3. HoldsPickle(bytes, queue, start, sent, n)
        BY <3>1 DEF OnTheWay
      <3> DEFINE part == Packed(sent[n])
                 from == start[n - 1]
      <3>4. /\ start[n] = from + StreamHeader + Len(sent[n]) /\ start[n] <= Len(bytes)
            /\ Stands(bytes, from, part) /\ from \in Nat /\ start[n] \in Nat
            /\ IsSequence(sent[n])
        BY <1>1, <3>1, <3>3 DEF HoldsPickle
      <3>5. Len(part) = StreamHeader + Len(sent[n]) /\ Len(sent[n]) \in Nat
        BY <3>4, PackedProperties
      <3> HIDE DEF part, from
      <3>6. Stands(longer, from, part)
        <4> DEFINE m == Len(part)
        <4>1. \A k \in 1..m : from + k \in 1..Len(bytes)
          <5>1. m \in Nat /\ from + m <= Len(bytes)
            <6> DEFINE l == Len(sent[n])
                       e == start[n]
                       z == Len(bytes)
            <6>1. m = StreamHeader + l /\ l \in Nat
              BY <3>5
            <6>2. e = from + StreamHeader + l /\ e <= z /\ z \in Nat /\ e \in Nat
              BY <1>1, <3>4
            <6> HIDE DEF m, l, e, z
            <6>3. m \in Nat /\ from + m <= z
              BY <3>4, <6>1, <6>2, StreamHeaderIsWords
            <6> QED
              BY <6>3 DEF z
          <5> HIDE DEF m
          <5> QED
            BY <1>1, <3>4, <5>1
        <4> QED
          BY <1>4, <3>4, <4>1 DEF Stands
      <3>7. start[n] <= Len(longer)
        BY <1>1, <1>5, <3>4
      <3> QED
        BY <3>2, <3>3, <3>6, <3>7 DEF HoldsPickle, part, from
    <2> QED
      BY <2>1, <2>2
  <1>8. ends[0] = 0
    BY <1>1, <1>6
  <1>9. OnTheWay(longer, more, ends, all)
    BY <1>3, <1>4, <1>6, <1>7, <1>8 DEF OnTheWay
  <1> QED
    BY <1>9 DEF longer, more, packed

(* A pickle with a payload of n bytes begins behind the first k.           *)
BeginsThere(bytes, k, n) == bytes[k + 1] = <<"payload_size", n, 1>>

(* Pickle n of a stream, with its bytes.                                   *)
LEMMA FirstOnTheWay ==
  ASSUME NEW bytes, NEW queue, NEW start, NEW sent, OnTheWay(bytes, queue, start, sent),
         NEW n \in 1..Len(queue)
  PROVE  /\ start[n - 1] \in Nat /\ start[n] \in Nat /\ Len(sent[n]) \in Nat
         /\ IsSequence(sent[n]) /\ Len(bytes) \in Nat
         /\ start[n] = start[n - 1] + (StreamHeader + Len(sent[n])) /\ start[n] <= Len(bytes)
         /\ BeginsThere(bytes, start[n - 1], Len(sent[n]))
         /\ SubSeq(bytes, start[n - 1] + 1, start[n]) = Packed(sent[n])
  <1> DEFINE from == start[n - 1]
             m == Len(sent[n])
             part == Packed(sent[n])
  <1>1. HoldsPickle(bytes, queue, start, sent, n) /\ IsSequence(bytes) /\ IsSequence(queue)
        /\ start \in [0..Len(queue) -> Nat]
    BY DEF OnTheWay
  <1>2. Len(queue) \in Nat /\ Len(bytes) \in Nat
    BY <1>1 DEF IsSequence
  <1>3. n - 1 \in 0..Len(queue) /\ n \in 0..Len(queue)
    BY <1>2
  <1>4. from \in Nat /\ start[n] \in Nat
    BY <1>1, <1>3
  <1>5. /\ start[n] = from + StreamHeader + m /\ start[n] <= Len(bytes)
        /\ IsSequence(sent[n]) /\ Stands(bytes, from, part)
    BY <1>1 DEF HoldsPickle
  <1>6. /\ IsSequence(part) /\ m \in Nat /\ Len(part) = StreamHeader + m
        /\ part[1] = <<"payload_size", m, 1>>
    BY <1>5, PackedProperties
  <1> HIDE DEF from, m, part
  <1>7. start[n] = from + (StreamHeader + m) /\ from + Len(part) = start[n] /\ 1 \in 1..Len(part)
    BY <1>4, <1>5, <1>6, StreamHeaderIsWords
  <1>8. bytes[from + 1] = <<"payload_size", m, 1>>
    BY <1>5, <1>6, <1>7 DEF Stands
  <1>9. SubSeq(bytes, from + 1, start[n]) = part
    <2>1. from + Len(part) <= Len(bytes)
      BY <1>5, <1>7
    <2>2. SubSeq(bytes, from + 1, from + Len(part)) = part
      BY <1>1, <1>4, <1>5, <1>6, <2>1, PartFound
    <2> QED
      BY <1>7, <2>2
  <1> QED
    BY <1>2, <1>4, <1>5, <1>6, <1>7, <1>8, <1>9 DEF from, m, part, BeginsThere


(* No pickle ends before the first.                                        *)
LEMMA FirstEndsFirst ==
  ASSUME NEW bytes, NEW queue, NEW start, NEW sent, OnTheWay(bytes, queue, start, sent),
         NEW n \in 1..Len(queue)
  PROVE  start[1] <= start[n]
  <1> DEFINE T == {m \in Nat : m + 1 <= Len(queue) => start[1] <= start[m + 1]}
  <1>1. Len(queue) \in Nat /\ start \in [0..Len(queue) -> Nat]
    BY DEF OnTheWay, IsSequence
  <1>2. 0 \in T
    <2> SUFFICES ASSUME 0 + 1 <= Len(queue) PROVE start[1] <= start[0 + 1]
      OBVIOUS
    <2>1. 0 + 1 = 1 /\ 1 \in 0..Len(queue)
      BY <1>1
    <2>2. start[1] \in Nat
      BY <1>1, <2>1
    <2> QED
      BY <2>1, <2>2
  <1>3. ASSUME NEW m \in Nat, m \in T PROVE m + 1 \in T
    <2> SUFFICES ASSUME (m + 1) + 1 <= Len(queue) PROVE start[1] <= start[(m + 1) + 1]
      OBVIOUS
    <2> DEFINE k == (m + 1) + 1
    <2>1. k \in 1..Len(queue) /\ k - 1 = m + 1 /\ m + 1 <= Len(queue) /\ m + 1 \in 0..Len(queue)
          /\ 1 \in 0..Len(queue)
      BY <1>1
    <2>2. start[1] <= start[m + 1]
      BY <1>3, <2>1
    <2> HIDE DEF k
    <2>3. start[k] = start[k - 1] + (StreamHeader + Len(sent[k])) /\ Len(sent[k]) \in Nat
          /\ start[k] \in Nat
      BY <2>1, FirstOnTheWay
    <2>4. start[k] = start[m + 1] + (StreamHeader + Len(sent[k])) /\ start[1] \in Nat /\ start[m + 1] \in Nat
      BY <1>1, <2>1, <2>3
    <2>5. start[1] <= start[k]
      <3>1. \A a, b, c, d, e \in Nat : a <= b /\ e = b + (c + d) => a <= e
        OBVIOUS
      <3> QED
        BY <2>2, <2>3, <2>4, <3>1, StreamHeaderIsWords
    <2> QED
      BY <2>5 DEF k
  <1>4. Nat \subseteq T
    <2> HIDE DEF T
    <2> QED
      BY <1>2, <1>3, InductionOverNat
  <1>5. n - 1 \in Nat /\ (n - 1) + 1 = n /\ n <= Len(queue)
    BY <1>1
  <1>6. n - 1 \in T
    BY <1>4, <1>5
  <1> QED
    BY <1>5, <1>6

(* Without its first pickle the stream is on the way as it was.            *)
LEMMA FirstTaken ==
  ASSUME NEW bytes, NEW queue, NEW start, NEW sent, OnTheWay(bytes, queue, start, sent),
         Len(queue) # 0
  PROVE  \E ends, all : OnTheWay(SubSeq(bytes, start[1] + 1, Len(bytes)),
                                 SubSeq(queue, 2, Len(queue)), ends, all)
  <1> DEFINE size == start[1]
             b == Len(bytes) - size
             q == Len(queue) - 1
             less == SubSeq(bytes, size + 1, Len(bytes))
             fewer == SubSeq(queue, 2, Len(queue))
             ends == [n \in 0..q |-> start[n + 1] - size]
             all == [n \in 1..q |-> sent[n + 1]]
  <1>1. /\ IsSequence(bytes) /\ IsSequence(queue) /\ Len(queue) \in Nat /\ Len(bytes) \in Nat
        /\ start \in [0..Len(queue) -> Nat] /\ start[Len(queue)] = Len(bytes)
    BY DEF OnTheWay, IsSequence
  <1>2. 1 \in 1..Len(queue) /\ q \in Nat /\ Len(queue) = q + 1
    BY <1>1
  <1>3. size \in Nat /\ size <= Len(bytes)
    <2>1. start[1] \in Nat /\ start[1] <= Len(bytes)
      BY <1>2, FirstOnTheWay
    <2> QED
      BY <2>1
  <1> HIDE DEF size, q
  <1>4. b \in Nat /\ Len(bytes) = size + b
    BY <1>1, <1>3
  <1> HIDE DEF b
  <1>5. IsSequence(less) /\ Len(less) = b /\ \A k \in 1..b : less[k] = bytes[size + k]
    <2>1. size + b <= Len(bytes)
      BY <1>1, <1>4
    <2>2. /\ IsSequence(SubSeq(bytes, size + 1, size + b)) /\ Len(SubSeq(bytes, size + 1, size + b)) = b
          /\ \A k \in 1..b : SubSeq(bytes, size + 1, size + b)[k] = bytes[size + k]
      <3>1. IsSequence(bytes) /\ size \in Nat /\ b \in Nat
        BY <1>1, <1>3, <1>4
      <3> HIDE DEF less
      <3> QED
        BY <2>1, <3>1, RestProperties
    <2> QED
      BY <1>4, <2>2
  <1>6. IsSequence(fewer) /\ Len(fewer) = q /\ \A k \in 1..q : fewer[k] = queue[k + 1]
    <2> DEFINE one == 1
               part == SubSeq(queue, one + 1, one + q)
    <2>1. one + q <= Len(queue) /\ one \in Nat /\ one + q = Len(queue)
      BY <1>2
    <2>2. part = fewer
      BY <2>1
    <2>3. \A k \in 1..q : one + k = k + 1
      BY <1>2
    <2> HIDE DEF one, fewer
    <2>4. IsSequence(part) /\ Len(part) = q /\ \A k \in 1..q : part[k] = queue[one + k]
      <3>1. one + q <= Len(queue) /\ one \in Nat /\ q \in Nat /\ IsSequence(queue)
        BY <1>1, <1>2, <2>1
      <3> QED
        BY <3>1, RestProperties
    <2> HIDE DEF part
    <2> QED
      BY <2>2, <2>3, <2>4
  <1> HIDE DEF less, fewer
  <1>7. \A n \in 0..q : start[n + 1] \in Nat /\ size <= start[n + 1] /\ ends[n] = start[n + 1] - size
                        /\ ends[n] \in Nat
    <2> TAKE n \in 0..q
    <2>1. n + 1 \in 1..Len(queue) /\ n + 1 \in 0..Len(queue)
      BY <1>2
    <2>2. start[n + 1] \in Nat
      BY <1>1, <2>1
    <2>3. start[1] <= start[n + 1]
      BY <2>1, FirstEndsFirst
    <2> QED
      BY <1>3, <2>2, <2>3 DEF size
  <1>8. ends \in [0..q -> Nat] /\ ends[0] = 0 /\ ends[q] = b
    <2>1. 0 \in 0..q /\ q \in 0..q
      BY <1>2
    <2>2. ends[0] = 0
      <3>1. ends[0] = start[0 + 1] - size /\ 0 + 1 = 1
        BY <1>7, <2>1
      <3>2. ends[0] = size - size
        BY <3>1 DEF size
      <3> HIDE DEF ends
      <3> QED
        BY <1>3, <3>2
    <2>3. ends[q] = b
      <3>1. ends[q] = start[q + 1] - size
        BY <1>7, <2>1
      <3>2. start[q + 1] = Len(bytes)
        BY <1>1, <1>2
      <3> HIDE DEF ends
      <3>3. ends[q] = (size + b) - size
        BY <1>4, <3>1, <3>2
      <3> QED
        BY <1>3, <1>4, <3>3
    <2>4. \A n \in 0..q : start[n + 1] - size \in Nat
      BY <1>7
    <2>5. ends \in [0..q -> Nat]
      BY <2>4
    <2> QED
      BY <2>2, <2>3, <2>5
  <1>9. \A n \in 1..q : all[n] = sent[n + 1]
    OBVIOUS
  <1> HIDE DEF ends, all
  <1>10. ASSUME NEW n \in 1..q PROVE HoldsPickle(less, fewer, ends, all, n)
    <2> DEFINE m == n + 1
               from == start[n]
               part == Packed(sent[m])
               long == Len(sent[m])
    <2>1. m \in 1..Len(queue) /\ m - 1 = n /\ n \in 0..q /\ n - 1 \in 0..q /\ (n - 1) + 1 = n
      BY <1>2
    <2>2. HoldsPickle(bytes, queue, start, sent, m)
      BY <2>1 DEF OnTheWay
    <2>3. /\ start[m] = from + (StreamHeader + long) /\ start[m] <= Len(bytes)
          /\ from \in Nat /\ start[m] \in Nat /\ long \in Nat /\ IsSequence(sent[m])
      <3> HIDE DEF m
      <3>1. /\ start[m - 1] \in Nat /\ start[m] \in Nat /\ Len(sent[m]) \in Nat
            /\ IsSequence(sent[m])
            /\ start[m] = start[m - 1] + (StreamHeader + Len(sent[m])) /\ start[m] <= Len(bytes)
        <4>1. m \in 1..Len(queue)
          BY <2>1
        <4> QED
          BY <4>1, FirstOnTheWay
      <3> QED
        BY <2>1, <3>1
    <2>4. Len(part) = StreamHeader + long
      BY <2>3, PackedProperties
    <2>5. Stands(bytes, from, part) /\ Len(sent[m]) % 4 = 0 /\ \E offset : Holds(sent[m], queue[m], offset)
      <3> HIDE DEF m
      <3> QED
        BY <2>1, <2>2 DEF HoldsPickle
    <2>6. ends[n] = start[m] - size /\ ends[n - 1] = from - size /\ size <= from
          /\ ends[n] \in Nat /\ ends[n - 1] \in Nat
      BY <1>7, <2>1
    <2>7. all[n] = sent[m] /\ fewer[n] = queue[m]
      BY <1>6, <1>9
    <2> HIDE DEF part, from, long, m
    <2>8. ends[n] = ends[n - 1] + StreamHeader + long /\ ends[n] <= b
      BY <1>3, <1>4, <2>3, <2>6, StreamHeaderIsWords
    <2>9. Stands(less, ends[n - 1], part)
      <3> DEFINE k0 == ends[n - 1]
                 p == Len(part)
      <3>1. k0 \in Nat /\ size + k0 = from /\ p \in Nat /\ k0 + p <= b
        BY <1>3, <1>4, <2>3, <2>4, <2>6, <2>8, StreamHeaderIsWords
      <3> HIDE DEF k0, p
      <3>2. \A k \in 1..p : k0 + k \in 1..b /\ size + (k0 + k) = from + k
        BY <1>3, <1>4, <3>1
      <3>3. \A k \in 1..p : less[k0 + k] = bytes[from + k]
        BY <1>5, <3>2
      <3> QED
        BY <2>5, <3>3 DEF Stands, k0, p
    <2>10. ends[n] = ends[n - 1] + StreamHeader + Len(sent[m])
      BY <2>8 DEF long
    <2>11. Stands(less, ends[n - 1], Packed(sent[m]))
      BY <2>9 DEF part
    <2> QED
      BY <1>5, <2>3, <2>5, <2>7, <2>8, <2>10, <2>11 DEF HoldsPickle
  <1>11. OnTheWay(less, fewer, ends, all)
    BY <1>5, <1>6, <1>8, <1>10 DEF OnTheWay
  <1> QED
    BY <1>11 DEF less, fewer, size


(* FindNext goes from each pickle to the next.                             *)
LEMMA NextIsNext ==
  ASSUME NEW start, NEW sent, OnTheWay(stream, queued, start, sent), NEW n \in 1..Len(queued)
  PROVE  start[n - 1] + FindNext(StreamHeader, SubSeq(stream, start[n - 1] + 1, Len(stream)),
                                 Len(stream) - start[n - 1]) = start[n]
  <1> DEFINE from == start[n - 1]
             m == Len(sent[n])
             left == Len(stream) - from
             rest == SubSeq(stream, from + 1, Len(stream))
  <1>1. /\ from \in Nat /\ start[n] \in Nat /\ m \in Nat /\ Len(stream) \in Nat
        /\ start[n] = from + (StreamHeader + m) /\ start[n] <= Len(stream)
        /\ stream[from + 1] = <<"payload_size", m, 1>>
    <2>1. from \in Nat /\ start[n] \in Nat
      BY FirstOnTheWay
    <2>2. m \in Nat /\ Len(stream) \in Nat
      BY FirstOnTheWay
    <2>3. start[n] = from + (StreamHeader + m) /\ start[n] <= Len(stream)
      BY FirstOnTheWay
    <2>4. BeginsThere(stream, from, m)
      BY FirstOnTheWay
    <2> QED
      BY <2>1, <2>2, <2>3, <2>4 DEF BeginsThere
  <1>2. IsSequence(stream)
    BY DEF OnTheWay
  <1> HIDE DEF from, m
  <1>3. left \in Nat /\ from + left = Len(stream) /\ 1 \in 1..left /\ ~(left < StreamHeader + m)
    BY <1>1, StreamHeaderIsWords
  <1> HIDE DEF left
  <1>4. rest[1] = <<"payload_size", m, 1>>
    <2> DEFINE part == SubSeq(stream, from + 1, from + left)
    <2>1. part = rest
      BY <1>3
    <2>2. \A k \in 1..left : part[k] = stream[from + k]
      <3>1. from \in Nat /\ left \in Nat /\ from + left <= Len(stream)
        BY <1>1, <1>3
      <3> QED
        BY <1>2, <3>1, RestProperties
    <2> HIDE DEF part, rest
    <2>3. part[1] = stream[from + 1]
      BY <1>3, <2>2
    <2> QED
      BY <1>1, <2>1, <2>3
  <1> HIDE DEF rest
  <1>5. FindNext(StreamHeader, rest, left) = StreamHeader + m
    <2>1. left \in Int
      BY <1>3
    <2>2. FindNext(StreamHeader, rest, left) =
            IF left < StreamHeader + m THEN 0 ELSE StreamHeader + m
      BY <1>1, <1>4, <2>1, NextIsFound
    <2> QED
      BY <1>3, <2>2
  <1>6. from + FindNext(StreamHeader, rest, left) = start[n]
    BY <1>1, <1>5
  <1> QED
    BY <1>6 DEF from, left, rest

LEMMA SentIsCut ==
  ASSUME NEW start, NEW sent, OnTheWay(stream, queued, start, sent)
  PROVE  StreamIsCut
  <1> DEFINE k == Len(queued)
             Rest(x) == SubSeq(stream, x + 1, Len(stream))
             cut[n \in 0..k] ==
               IF n = 0 THEN 0
               ELSE cut[n - 1] + FindNext(StreamHeader, Rest(cut[n - 1]), Len(stream) - cut[n - 1])
  <1>1. /\ k \in Nat /\ Len(stream) \in Nat /\ start \in [0..k -> Nat]
        /\ start[0] = 0 /\ start[k] = Len(stream)
    BY DEF OnTheWay, IsSequence
  <1>2. \A n \in 1..k :
          start[n - 1] + FindNext(StreamHeader, Rest(start[n - 1]), Len(stream) - start[n - 1]) = start[n]
    BY NextIsNext
  <1>3. cut = [n \in 0..k |->
                 IF n = 0 THEN 0
                 ELSE cut[n - 1] + FindNext(StreamHeader, Rest(cut[n - 1]), Len(stream) - cut[n - 1])]
    <2>1. start = [n \in 0..k |->
                     IF n = 0 THEN 0
                     ELSE start[n - 1] + FindNext(StreamHeader, Rest(start[n - 1]), Len(stream) - start[n - 1])]
      <3>1. ASSUME NEW n \in 0..k
            PROVE  start[n] =
                     IF n = 0 THEN 0
                     ELSE start[n - 1] + FindNext(StreamHeader, Rest(start[n - 1]), Len(stream) - start[n - 1])
        <4>1. CASE n = 0
          BY <1>1, <4>1
        <4>2. CASE n # 0
          <5>1. n \in 1..k
            BY <1>1, <4>2
          <5> HIDE DEF k, Rest
          <5> QED
            BY <1>2, <4>2, <5>1
        <4> QED
          BY <4>1, <4>2
      <3> HIDE DEF k, Rest
      <3> QED
        BY <1>1, <3>1
    <2> QED
      BY <2>1, Zenon
  <1> DEFINE Cut ==
        /\ cut[k] = Len(stream)
        /\ \A n \in 1..k :
             ReadsBack(FromData(SubSeq(stream, cut[n - 1] + 1, cut[n])), queued[n])
        /\ queued # <<>> =>
             \A arrived \in 0..(cut[1] - 1) : FindNext(StreamHeader, stream, arrived) = 0
  <1>4. StreamIsCut <=> Cut
    BY DEF StreamIsCut
  <1> HIDE DEF cut
  <1>5. \A n \in 0..k : cut[n] = start[n]
    <2> DEFINE T == {m \in Nat : m <= k => cut[m] = start[m]}
    <2>1. 0 \in T
      BY <1>1, <1>3
    <2>2. ASSUME NEW m \in Nat, m \in T PROVE m + 1 \in T
      <3> SUFFICES ASSUME m + 1 <= k PROVE cut[m + 1] = start[m + 1]
        OBVIOUS
      <3> HIDE DEF k, Rest
      <3> DEFINE i == m + 1
      <3>1. cut[m] = start[m] /\ i \in 0..k /\ i # 0 /\ i - 1 = m /\ i \in 1..k
        BY <1>1, <2>2
      <3> HIDE DEF i
      <3>2. cut[i] = cut[i - 1] + FindNext(StreamHeader, Rest(cut[i - 1]), Len(stream) - cut[i - 1])
        BY <1>3, <3>1
      <3>3. start[i - 1] + FindNext(StreamHeader, Rest(start[i - 1]), Len(stream) - start[i - 1]) = start[i]
        BY <1>2, <3>1
      <3>4. cut[i] = start[i]
        BY <3>1, <3>2, <3>3
      <3> QED
        BY <3>4 DEF i
    <2> HIDE DEF T
    <2>3. Nat \subseteq T
      BY <2>1, <2>2, InductionOverNat
    <2>4. \A n \in 0..k : n \in Nat /\ n <= k
      BY <1>1
    <2> QED
      BY <2>3, <2>4 DEF T
  <1>6. cut[k] = Len(stream)
    <2>1. k \in 0..k
      BY <1>1
    <2> QED
      BY <1>1, <1>5, <2>1
  <1>7. ASSUME NEW n \in 1..k
        PROVE  ReadsBack(FromData(SubSeq(stream, cut[n - 1] + 1, cut[n])), queued[n])
    <2> DEFINE p == Fields(StreamHeader, ReadOnly, 0, sent[n])
    <2>1. n - 1 \in 0..k /\ n \in 0..k
      BY <1>1
    <2>2. cut[n - 1] = start[n - 1] /\ cut[n] = start[n]
      BY <1>5, <2>1
    <2>3. IsSequence(sent[n]) /\ SubSeq(stream, start[n - 1] + 1, start[n]) = Packed(sent[n])
      BY FirstOnTheWay
    <2>4. FromData(SubSeq(stream, cut[n - 1] + 1, cut[n])) = p
      BY <2>2, <2>3, FromPacked
    <2>5. PICK offset : Holds(sent[n], queued[n], offset)
      BY DEF OnTheWay, HoldsPickle
    <2>6. p # Absent /\ p.payload = sent[n]
      <3>1. p.header_size = StreamHeader /\ Absent.header_size = 0 /\ p.payload = sent[n]
        BY DEF Fields, Absent
      <3> HIDE DEF p
      <3> QED
        BY <3>1, StreamHeaderIsWords
    <2> HIDE DEF p
    <2>7. ReadsBack(p, queued[n])
      <3>1. Holds(p.payload, queued[n], offset)
        BY <2>5, <2>6
      <3> QED
        BY <2>6, <3>1, HeldReadsBack
    <2> QED
      BY <2>4, <2>7
  <1>8. ASSUME queued # <<>>, NEW arrived \in 0..(cut[1] - 1)
        PROVE  FindNext(StreamHeader, stream, arrived) = 0
    <2>1. 1 \in 1..k /\ 1 \in 0..k /\ 1 - 1 = 0
      <3>1. k # 0
        BY <1>8, EmptyIsSequence DEF OnTheWay
      <3> QED
        BY <1>1, <3>1
    <2> DEFINE one == 1
               m == Len(sent[1])
    <2>2. /\ m \in Nat /\ start[1] = start[0] + (StreamHeader + m)
          /\ stream[start[0] + 1] = <<"payload_size", m, 1>>
      <3>1. one \in 1..k /\ one - 1 = 0
        BY <2>1
      <3> HIDE DEF one
      <3>2. /\ Len(sent[one]) \in Nat /\ start[one] = start[one - 1] + (StreamHeader + Len(sent[one]))
            /\ stream[start[one - 1] + 1] = <<"payload_size", Len(sent[one]), 1>>
        <4>1. one \in 1..Len(queued)
          BY <3>1
        <4>2. Len(sent[one]) \in Nat
          BY <4>1, FirstOnTheWay
        <4>3. start[one] = start[one - 1] + (StreamHeader + Len(sent[one]))
          BY <4>1, FirstOnTheWay
        <4>4. BeginsThere(stream, start[one - 1], Len(sent[one]))
          BY <4>1, FirstOnTheWay
        <4> QED
          BY <4>2, <4>3, <4>4 DEF BeginsThere
      <3> QED
        BY <3>1, <3>2 DEF one
    <2> HIDE DEF m
    <2>3. start[1] = StreamHeader + m /\ stream[1] = <<"payload_size", m, 1>>
      BY <1>1, <2>2, StreamHeaderIsWords
    <2>4. cut[1] = StreamHeader + m
      BY <1>5, <2>1, <2>3
    <2>5. arrived \in Int /\ arrived < StreamHeader + m
      BY <2>2, <2>4, StreamHeaderIsWords
    <2>6. FindNext(StreamHeader, stream, arrived) =
            IF arrived < StreamHeader + m THEN 0 ELSE StreamHeader + m
      BY <2>2, <2>3, <2>5, NextIsFound
    <2> QED
      BY <2>5, <2>6
  <1> QED
    BY <1>4, <1>6, <1>7, <1>8


------------------------------------------------------------------------------
(* A pickle whose payload is these items, in the memory it has.            *)
Sound(p, held) ==
  /\ p = Fields(p.header_size, p.capacity, p.write_offset, p.payload)
  /\ p.capacity = ReadOnly \/ Room(p.capacity, Len(p.payload))
  /\ p.write_offset \in {0, Len(p.payload)}
  /\ Len(p.payload) % 4 = 0
  /\ \E offset : Holds(p.payload, held, offset)

ObjectsSound ==
  /\ pickle = [o \in Object |-> pickle[o]] /\ items = [o \in Object |-> items[o]]
  /\ \A o \in Object : pickle[o] # Absent => Sound(pickle[o], items[o])

StreamSound == \E start, sent : OnTheWay(stream, queued, start, sent)

PickleInv == ObjectsSound /\ StreamSound

LEMMA PickleInvInit == PickleInit => PickleInv
  <1> SUFFICES ASSUME PickleInit PROVE PickleInv
    OBVIOUS
  <1>1. ObjectsSound
    BY DEF PickleInit, ObjectsSound
  <1>2. StreamSound
    BY NothingOnTheWay DEF PickleInit, StreamSound
  <1> QED
    BY <1>1, <1>2 DEF PickleInv

LEMMA SetKeeps ==
  ASSUME ObjectsSound, NEW o \in Object, NEW p, NEW held, Set(o, p, held),
         p # Absent => Sound(p, held)
  PROVE  ObjectsSound'
  <1>1. pickle' = [pickle EXCEPT ![o] = p] /\ items' = [items EXCEPT ![o] = held]
    BY DEF Set
  <1>2. \A a \in Object : /\ pickle'[a] = (IF a = o THEN p ELSE pickle[a])
                          /\ items'[a] = (IF a = o THEN held ELSE items[a])
    BY <1>1 DEF ObjectsSound
  <1>3. pickle' = [a \in Object |-> pickle'[a]] /\ items' = [a \in Object |-> items'[a]]
    BY <1>1 DEF ObjectsSound
  <1>4. ASSUME NEW a \in Object, pickle'[a] # Absent PROVE Sound(pickle'[a], items'[a])
    <2>1. CASE a = o
      BY <1>2, <1>4, <2>1
    <2>2. CASE a # o
      <3>1. pickle'[a] = pickle[a] /\ items'[a] = items[a]
        BY <1>2, <2>2
      <3>2. Sound(pickle[a], items[a])
        BY <1>4, <3>1 DEF ObjectsSound
      <3> QED
        BY <3>1, <3>2
    <2> QED
      BY <2>1, <2>2
  <1> QED
    BY <1>3, <1>4 DEF ObjectsSound

LEMMA SoundIntro ==
  ASSUME NEW h, NEW c, NEW w, NEW payload, NEW held, c = ReadOnly \/ Room(c, Len(payload)),
         w \in {0, Len(payload)}, Len(payload) % 4 = 0, NEW offset, Holds(payload, held, offset)
  PROVE  Sound(Fields(h, c, w, payload), held)
  <1> DEFINE p == Fields(h, c, w, payload)
  <1>1. p.header_size = h /\ p.capacity = c /\ p.write_offset = w /\ p.payload = payload
    BY DEF Fields
  <1>2. p = Fields(h, c, w, payload)
    OBVIOUS
  <1> HIDE DEF p
  <1>3. Sound(p, held)
    BY <1>1, <1>2 DEF Sound
  <1> QED
    BY <1>3 DEF p

LEMMA SoundProperties ==
  ASSUME NEW p, NEW held, Sound(p, held)
  PROVE  IsSequence(p.payload) /\ Len(p.payload) \in Nat /\ p.write_offset \in Nat
         /\ p.write_offset % 4 = 0 /\ IsSequence(held) /\ Len(held) \in Nat
  <1>1. IsSequence(p.payload) /\ IsSequence(held)
    BY DEF Sound, Holds
  <1>2. Len(p.payload) \in Nat /\ Len(held) \in Nat
    BY <1>1 DEF IsSequence
  <1>3. p.write_offset \in {0, Len(p.payload)} /\ Len(p.payload) % 4 = 0
    BY DEF Sound
  <1>4. p.write_offset \in Nat /\ p.write_offset % 4 = 0
    <2>1. 0 \in Nat /\ 0 % 4 = 0
      OBVIOUS
    <2> QED
      BY <1>2, <1>3, <2>1
  <1> QED
    BY <1>1, <1>2, <1>4

LEMMA ConstructKeeps ==
  ASSUME ObjectsSound, NEW o \in Object, NEW h \in HeaderSizes, Construct(o, h)
  PROVE  ObjectsSound'
  <1> DEFINE c == Align(PayloadUnit, PayloadUnit)
             p == Fields(h, c, 0, <<>>)
  <1>1. Set(o, p, <<>>)
    BY DEF Construct, Resize, Fields
  <1>2. Room(c, 0)
    <2>1. PayloadUnit \in Nat /\ PayloadUnit \in Nat \ {0}
      BY PickleAssumption
    <2>2. c \in Nat /\ c % PayloadUnit = 0
      BY <2>1, AlignProperties
    <2> HIDE DEF c
    <2>3. 0 <= c
      BY <2>2
    <2> QED
      BY <2>2, <2>3 DEF Room
  <1>3. Len(<<>>) = 0 /\ 0 % 4 = 0
    BY EmptyIsSequence
  <1> HIDE DEF c
  <1>4. Sound(p, <<>>)
    <2>1. PICK offset : Holds(<<>>, <<>>, offset)
      BY NothingHeld
    <2>2. Room(c, Len(<<>>)) /\ 0 \in {0, Len(<<>>)} /\ Len(<<>>) % 4 = 0
      BY <1>2, <1>3
    <2> QED
      BY <2>1, <2>2, SoundIntro
  <1> HIDE DEF p
  <1> QED
    BY <1>1, <1>4, SetKeeps

LEMMA WriteKeeps ==
  ASSUME ObjectsSound, NEW o \in Object, NEW item \in Kinds, Write(o, item)
  PROVE  ObjectsSound'
  <1> DEFINE p == pickle[o]
             held == items[o]
             h == p.header_size
             c == p.capacity
             w == p.write_offset
             payload == p.payload
             kept == IF w = 0 THEN <<>> ELSE held
             id == Len(kept) + 1
             before == SubSeq(payload, 1, w)
             bytes == Encoded(item, id)
             q == WriteItem(p, item, id)
  <1>1. Owned(p) /\ Set(o, q, Append(kept, item))
    BY DEF Write
  <1>2. Sound(p, held)
    BY <1>1 DEF Owned, ObjectsSound
  <1>3. /\ IsSequence(payload) /\ Len(payload) \in Nat /\ w \in Nat /\ w % 4 = 0
        /\ IsSequence(held) /\ Len(held) \in Nat
    <2> HIDE DEF p, held
    <2> QED
      BY <1>2, SoundProperties
  <1>4. p = Fields(h, c, w, payload) /\ Room(c, Len(payload)) /\ w \in {0, Len(payload)}
    BY <1>1, <1>2 DEF Sound, Owned
  <1> HIDE DEF p, held
  <1>5. IsSequence(bytes) /\ Len(bytes) \in Nat /\ Len(bytes) % 4 = 0
    <2> HIDE DEF id
    <2> QED
      BY EncodedProperties
  <1>6. Room(c, 0)
    BY <1>3, <1>4 DEF Room
  <1>7. HasWritten(q, h, w, payload, bytes)
    <2> HIDE DEF h, c, w, payload, id
    <2>1. HasWritten(WriteItem(Fields(h, c, w, payload), item, id), h, w, payload,
                     Encoded(item, id))
      BY <1>3, <1>6, ItemIsWritten
    <2> QED
      BY <1>4, <2>1
  <1>8. PICK d : Room(d, w + Len(bytes)) /\ q = Fields(h, d, w + Len(bytes), before \o bytes)
    BY <1>7 DEF HasWritten
  <1> HIDE DEF q, h, c, w, payload
  <1>9. IsSequence(before) /\ Len(before) = w
    BY <1>3, PartOfSequence
  <1>10. \E offset : Holds(before, kept, offset)
    <2>1. CASE w = 0
      <3>1. before = <<>> /\ kept = <<>>
        BY <1>9, <2>1, EmptyIsSequence
      <3> HIDE DEF before, kept
      <3> QED
        BY <3>1, NothingHeld
    <2>2. CASE w # 0
      <3>1. w = Len(payload) /\ kept = held
        BY <1>4, <2>2
      <3>2. before = payload
        BY <1>3, <3>1, WholeIsPart
      <3>3. \E offset : Holds(payload, held, offset)
        BY <1>2 DEF Sound, payload
      <3> HIDE DEF before, kept
      <3> QED
        BY <3>1, <3>2, <3>3
    <2> QED
      BY <2>1, <2>2
  <1> HIDE DEF before, kept
  <1>11. PICK offset : Holds(before, kept, offset)
    BY <1>10
  <1>12. \E further : Holds(before \o bytes, Append(kept, item), further)
    BY <1>11, OneMoreHeld
  <1> HIDE DEF bytes, id
  <1> DEFINE n == w + Len(bytes)
             all == before \o bytes
  <1>13. Len(all) = n /\ n \in Nat /\ n % 4 = 0
    <2>1. Len(all) = Len(before) + Len(bytes)
      BY <1>5, <1>9, JoinedSequence
    <2>2. Len(all) = n
      BY <1>9, <2>1
    <2>3. \A a, b \in Nat : a % 4 = 0 /\ b % 4 = 0 => a + b \in Nat /\ (a + b) % 4 = 0
      OBVIOUS
    <2> QED
      BY <1>3, <1>5, <2>2, <2>3
  <1>14. Room(d, n) /\ q = Fields(h, d, n, all) /\ \E further : Holds(all, Append(kept, item), further)
    BY <1>8, <1>12
  <1> HIDE DEF n, all
  <1>15. Sound(q, Append(kept, item))
    <2>1. Room(d, Len(all)) /\ n \in {0, Len(all)} /\ Len(all) % 4 = 0
      BY <1>13, <1>14
    <2>2. PICK further : Holds(all, Append(kept, item), further)
      BY <1>14
    <2>3. Sound(Fields(h, d, n, all), Append(kept, item))
      BY <2>1, <2>2, SoundIntro
    <2> QED
      BY <1>14, <2>3
  <1>16. Set(o, q, Append(kept, item))
    BY <1>1 DEF q, kept, id, w
  <1> QED
    BY <1>15, <1>16, SetKeeps


(* A pickle stays sound in any memory that has room for it.                *)
LEMMA ResizedIsSound ==
  ASSUME NEW p, NEW held, Sound(p, held), NEW n \in Nat, Len(p.payload) <= n
  PROVE  Sound(Resize(p, n), held)
  <1> DEFINE h == p.header_size
             w == p.write_offset
             payload == p.payload
             c == Align(n, PayloadUnit)
  <1>1. p = Fields(h, p.capacity, w, payload) /\ w \in {0, Len(payload)} /\ Len(payload) % 4 = 0
    BY DEF Sound
  <1>2. Resize(p, n) = Fields(h, c, w, payload)
    <2>1. Resize(p, n) = [p EXCEPT !.capacity = c]
      BY DEF Resize
    <2> HIDE DEF c, h, w, payload
    <2> QED
      BY <1>1, <2>1 DEF Fields
  <1>3. Len(payload) \in Nat /\ Len(payload) <= n
    BY SoundProperties
  <1>4. c \in Nat /\ n <= c /\ c % PayloadUnit = 0
    BY AlignProperties, PickleAssumption
  <1>5. PICK offset : Holds(payload, held, offset)
    BY DEF Sound
  <1> HIDE DEF c, h, w, payload
  <1>6. Room(c, Len(payload))
    BY <1>3, <1>4 DEF Room
  <1>7. Sound(Fields(h, c, w, payload), held)
    BY <1>1, <1>5, <1>6, SoundIntro
  <1> QED
    BY <1>2, <1>7

LEMMA ReserveKeeps ==
  ASSUME ObjectsSound, NEW o \in Object, NEW length \in Reservations, Reserve(o, length)
  PROVE  ObjectsSound'
  <1> DEFINE p == pickle[o]
             held == items[o]
             need == Align(length, 4)
             n == p.capacity * 2 + p.write_offset + need
  <1>1. Owned(p) /\ Set(o, Resize(p, n), held)
    BY DEF Reserve
  <1>2. Sound(p, held)
    BY <1>1 DEF Owned, ObjectsSound
  <1>3. need \in Nat
    <2>1. 4 \in Nat \ {0} /\ length \in Nat
      BY PickleAssumption
    <2> QED
      BY <2>1, AlignProperties
  <1> HIDE DEF p, held, need
  <1>4. Room(p.capacity, Len(p.payload)) /\ p.write_offset \in Nat /\ Len(p.payload) \in Nat
    BY <1>1, <1>2, SoundProperties DEF Sound, Owned
  <1>5. n \in Nat /\ Len(p.payload) <= n
    <2> DEFINE c == p.capacity
               w == p.write_offset
               l == Len(p.payload)
    <2>1. c \in Nat /\ l <= c /\ w \in Nat /\ l \in Nat
      BY <1>4 DEF Room
    <2> HIDE DEF c, w, l
    <2>2. c * 2 + w + need \in Nat /\ l <= c * 2 + w + need
      BY <1>3, <2>1
    <2> QED
      BY <2>2 DEF c, w, l
  <1> HIDE DEF n
  <1>6. Sound(Resize(p, n), held)
    BY <1>2, <1>5, ResizedIsSound
  <1> QED
    BY <1>1, <1>6, SetKeeps

LEMMA AssignKeeps ==
  ASSUME ObjectsSound, NEW o \in Object, NEW other \in Object, Assign(o, other)
  PROVE  ObjectsSound'
  <1> DEFINE p == pickle[other]
             held == items[other]
  <1>1. p # Absent /\ Set(o, Resize(p, Len(p.payload)), held)
    BY DEF Assign, Copied
  <1>2. Sound(p, held)
    BY <1>1 DEF ObjectsSound
  <1> HIDE DEF p, held
  <1> DEFINE n == Len(p.payload)
  <1>3. n \in Nat /\ Len(p.payload) <= n
    BY <1>2, SoundProperties
  <1>4. Set(o, Resize(p, n), held)
    BY <1>1
  <1> HIDE DEF n
  <1>5. Sound(Resize(p, n), held)
    BY <1>2, <1>3, ResizedIsSound
  <1> QED
    BY <1>4, <1>5, SetKeeps

LEMMA SendKeeps ==
  ASSUME PickleInv, NEW o \in Object, Send(o)
  PROVE  PickleInv'
  <1> DEFINE p == pickle[o]
             held == items[o]
             payload == p.payload
             bytes == stream
             queue == queued
  <1>1. /\ p # Absent /\ p.header_size = StreamHeader
        /\ stream' = bytes \o Data(p) /\ queued' = Append(queue, held)
        /\ UNCHANGED <<pickle, items>>
    BY DEF Send
  <1>2. ObjectsSound'
    BY <1>1 DEF PickleInv, ObjectsSound
  <1>3. Sound(p, held)
    BY <1>1 DEF PickleInv, ObjectsSound
  <1>4. PICK start, sent : OnTheWay(bytes, queue, start, sent)
    BY DEF PickleInv, StreamSound
  <1> HIDE DEF p, held, bytes, queue
  <1>5. Data(p) = Packed(payload)
    BY <1>1 DEF Data, Packed
  <1>6. Len(payload) % 4 = 0 /\ \E offset : Holds(payload, held, offset)
    BY <1>3 DEF Sound
  <1> HIDE DEF payload
  <1>7. PICK offset : Holds(payload, held, offset)
    BY <1>6
  <1>8. \E ends, all : OnTheWay(bytes \o Packed(payload), Append(queue, held), ends, all)
    BY <1>4, <1>6, <1>7, OneMoreOnTheWay
  <1>9. StreamSound'
    BY <1>1, <1>5, <1>8 DEF StreamSound
  <1> QED
    BY <1>2, <1>9 DEF PickleInv

LEMMA ReceiveKeeps ==
  ASSUME PickleInv, NEW o \in Object, NEW length \in 0..Len(stream), Receive(o, length)
  PROVE  PickleInv'
  <1> DEFINE size == FindNext(StreamHeader, stream, length)
             bytes == stream
             queue == queued
             one == 1
  <1>1. /\ size # 0
        /\ Set(o, FromData(SubSeq(bytes, 1, size)), queue[one])
        /\ stream' = SubSeq(bytes, size + 1, Len(bytes))
        /\ queued' = SubSeq(queue, 2, Len(queue))
    BY DEF Receive
  <1>2. PICK start, sent : OnTheWay(bytes, queue, start, sent)
    BY DEF PickleInv, StreamSound
  <1>3. size = FindNext(StreamHeader, bytes, length) /\ length \in 0..Len(bytes)
    OBVIOUS
  <1> HIDE DEF size, bytes, queue
  <1>4. Len(queue) \in Nat /\ Len(bytes) \in Nat /\ start[0] = 0 /\ start[Len(queue)] = Len(bytes)
    BY <1>2 DEF OnTheWay, IsSequence
  <1>5. Len(queue) # 0
    <2> SUFFICES ASSUME Len(queue) = 0 PROVE FALSE
      OBVIOUS
    <2>1. length = 0
      BY <1>3, <1>4
    <2>2. size = 0
      BY <1>3, <2>1 DEF FindNext
    <2> QED
      BY <1>1, <2>2
  <1>6. one \in 1..Len(queue) /\ one - 1 = 0
    BY <1>4, <1>5
  <1> DEFINE m == Len(sent[one])
  <1> HIDE DEF one
  <1>7. /\ m \in Nat /\ start[one] \in Nat /\ start[one] <= Len(bytes) /\ IsSequence(sent[one])
        /\ start[one] = start[one - 1] + (StreamHeader + m)
        /\ BeginsThere(bytes, start[one - 1], m)
        /\ SubSeq(bytes, start[one - 1] + 1, start[one]) = Packed(sent[one])
    BY <1>2, <1>6, FirstOnTheWay
  <1> HIDE DEF m
  <1>8. start[one] = StreamHeader + m /\ bytes[1] = <<"payload_size", m, 1>>
    <2>1. start[one - 1] = 0
      BY <1>4, <1>6
    <2>2. start[one] = 0 + (StreamHeader + m) /\ BeginsThere(bytes, 0, m)
      BY <1>7, <2>1
    <2>3. 0 + (StreamHeader + m) = StreamHeader + m /\ 0 + 1 = 1
      BY <1>7, StreamHeaderIsWords
    <2> QED
      BY <2>2, <2>3 DEF BeginsThere
  <1>9. SubSeq(bytes, 1, start[one]) = Packed(sent[one])
    <2>1. start[one - 1] + 1 = 1
      BY <1>4, <1>6
    <2> QED
      BY <1>7, <2>1
  <1>10. size = start[one]
    <2>1. length \in Int
      BY <1>3
    <2>2. size = IF length < StreamHeader + m THEN 0 ELSE StreamHeader + m
      BY <1>3, <1>7, <1>8, <2>1, NextIsFound
    <2> QED
      BY <1>1, <1>8, <2>2
  <1> DEFINE p == Fields(StreamHeader, ReadOnly, 0, sent[one])
  <1>11. FromData(SubSeq(bytes, 1, size)) = p
    BY <1>7, <1>9, <1>10, FromPacked
  <1>12. Sound(p, queue[one])
    <2> DEFINE payload == sent[one]
    <2>1. HoldsPickle(bytes, queue, start, sent, one)
      BY <1>2, <1>6 DEF OnTheWay
    <2>2. Len(payload) % 4 = 0 /\ \E offset : Holds(payload, queue[one], offset)
      BY <2>1 DEF HoldsPickle
    <2>3. PICK offset : Holds(payload, queue[one], offset)
      BY <2>2
    <2> HIDE DEF payload
    <2>4. Sound(Fields(StreamHeader, ReadOnly, 0, payload), queue[one])
      BY <2>2, <2>3, SoundIntro
    <2> QED
      BY <2>4 DEF payload
  <1> HIDE DEF p
  <1>13. ObjectsSound'
    BY <1>1, <1>11, <1>12, SetKeeps DEF PickleInv
  <1>14. \E ends, all : OnTheWay(SubSeq(bytes, size + 1, Len(bytes)), SubSeq(queue, 2, Len(queue)), ends, all)
    <2>1. \E ends, all : OnTheWay(SubSeq(bytes, start[1] + 1, Len(bytes)), SubSeq(queue, 2, Len(queue)), ends, all)
      BY <1>2, <1>5, FirstTaken
    <2>2. start[1] = size
      BY <1>10 DEF one
    <2> QED
      BY <2>1, <2>2
  <1>15. StreamSound'
    BY <1>1, <1>14 DEF StreamSound
  <1> QED
    BY <1>13, <1>15 DEF PickleInv

LEMMA PickleInvNext == PickleInv /\ [PickleNext]_pickleVars => PickleInv'
  <1> SUFFICES ASSUME PickleInv, [PickleNext]_pickleVars PROVE PickleInv'
    OBVIOUS
  <1>1. ObjectsSound /\ StreamSound
    BY DEF PickleInv
  <1>2. ASSUME UNCHANGED <<stream, queued>> PROVE StreamSound'
    BY <1>1, <1>2 DEF StreamSound
  <1>3. ASSUME NEW o \in Object, NEW h \in HeaderSizes, Construct(o, h) PROVE PickleInv'
    BY <1>1, <1>2, <1>3, ConstructKeeps DEF PickleInv, Construct
  <1>4. ASSUME NEW o \in Object, NEW item \in Kinds, Write(o, item) PROVE PickleInv'
    BY <1>1, <1>2, <1>4, WriteKeeps DEF PickleInv, Write
  <1>5. ASSUME NEW o \in Object, NEW length \in Reservations, Reserve(o, length) PROVE PickleInv'
    BY <1>1, <1>2, <1>5, ReserveKeeps DEF PickleInv, Reserve
  <1>6. ASSUME NEW o \in Object, NEW other \in Object, Assign(o, other) PROVE PickleInv'
    BY <1>1, <1>2, <1>6, AssignKeeps DEF PickleInv, Assign
  <1>7. ASSUME NEW o \in Object, Destroy(o) PROVE PickleInv'
    BY <1>1, <1>2, <1>7, SetKeeps DEF PickleInv, Destroy
  <1>8. ASSUME NEW o \in Object, Send(o) PROVE PickleInv'
    BY <1>8, SendKeeps
  <1>9. ASSUME NEW o \in Object, NEW length \in 0..Len(stream), Receive(o, length) PROVE PickleInv'
    BY <1>9, ReceiveKeeps
  <1>10. CASE UNCHANGED pickleVars
    BY <1>1, <1>10 DEF PickleInv, ObjectsSound, StreamSound, pickleVars
  <1> QED
    BY <1>3, <1>4, <1>5, <1>6, <1>7, <1>8, <1>9, <1>10 DEF PickleNext

LEMMA PickleInvReadsBack == PickleInv => PicklesReadBack
  <1> SUFFICES ASSUME PickleInv PROVE PicklesReadBack
    OBVIOUS
  <1>1. ASSUME NEW o \in Object, pickle[o] # Absent PROVE Sound(pickle[o], items[o])
    BY <1>1 DEF PickleInv, ObjectsSound
  <1>2. FitsMemory
    <2> SUFFICES ASSUME NEW o \in Object, pickle[o] # Absent
                 PROVE  /\ Len(pickle[o].payload) % 4 = 0
                        /\ pickle[o].write_offset \in {0, Len(pickle[o].payload)}
                        /\ Owned(pickle[o]) => /\ Len(pickle[o].payload) <= pickle[o].capacity
                                               /\ pickle[o].capacity % PayloadUnit = 0
      BY DEF FitsMemory
    <2> DEFINE p == pickle[o]
               held == items[o]
    <2>1. Sound(p, held)
      BY <1>1
    <2> HIDE DEF p, held
    <2>2. /\ Len(p.payload) % 4 = 0 /\ p.write_offset \in {0, Len(p.payload)}
          /\ p.capacity = ReadOnly \/ Room(p.capacity, Len(p.payload))
      BY <2>1 DEF Sound
    <2>3. Owned(p) => Len(p.payload) <= p.capacity /\ p.capacity % PayloadUnit = 0
      BY <2>2 DEF Owned, Room
    <2> QED
      BY <2>2, <2>3 DEF p
  <1>3. ASSUME NEW o \in Object, pickle[o] # Absent PROVE ReadsBack(pickle[o], items[o])
    <2> DEFINE p == pickle[o]
               held == items[o]
    <2>1. Sound(p, held) /\ p # Absent
      BY <1>1, <1>3
    <2> HIDE DEF p, held
    <2>2. PICK offset : Holds(p.payload, held, offset)
      BY <2>1 DEF Sound
    <2>3. ReadsBack(p, held)
      BY <2>1, <2>2, HeldReadsBack
    <2> QED
      BY <2>3 DEF p, held
  <1>4. StreamIsCut
    <2>1. PICK start, sent : OnTheWay(stream, queued, start, sent)
      BY DEF PickleInv, StreamSound
    <2> QED
      BY <2>1, SentIsCut
  <1> QED
    BY <1>2, <1>3, <1>4 DEF PicklesReadBack

(* For any units, headers, values and any number of pickles: what was      *)
(* written is read back in its order, from the pickle, its copies and the  *)
(* stream, which FindNext cuts where one pickle ends and the next begins,  *)
(* and never before the last byte of one has arrived.                      *)
THEOREM PicklesComeBack == PickleSpec => []PicklesReadBack
  <1> QED
    BY PickleInvInit, PickleInvNext, PickleInvReadsBack, PTL DEF PickleSpec

===============================================================================
