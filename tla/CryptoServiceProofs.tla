-------------------------- MODULE CryptoServiceProofs --------------------------
(***************************************************************************)
(* Theorems about CryptoService, checked by TLAPS.                         *)
(***************************************************************************)
EXTENDS CryptoServiceProps, DataLemmas

--------------------------------------------------------------------------------
(* Reading *)

(* A read gives what is there, at most what was asked for. *)
LEMMA ReadProperties ==
  ASSUME NEW S, data \in Seq(S), position \in 0..Len(data), NEW n \in Nat
  PROVE  /\ Read(n) \in Seq(S)
         /\ Len(Read(n)) = Least(n, Available)
         /\ \A i \in 1..Len(Read(n)) : Read(n)[i] = data[position + i]
  <1>1. position + 1 \in Int /\ position + Least(n, Available) \in Int
    BY DEF Least, Available
  <1>2. \A i \in position + 1 .. position + Least(n, Available) : data[i] \in S
    BY DEF Least, Available
  <1> QED
    BY <1>1, <1>2, SubSeqProperties DEF Read, Least, Available

--------------------------------------------------------------------------------
(* Types *)

(* CryptInternal has read all but what its remaining turns will read. *)
Measured ==
  /\ pc = "crypt" => job.scheme # "sm2"
  /\ pc = "sm2" => job.scheme = "sm2"
  /\ pc = "crypt" /\ count > 0 => Len(data) = position + count * AesBlockSize + extra

Inv == FieldsOK /\ Measured

LEMMA JobTyped ==
  ASSUME NEW j \in Job, NEW b \in BOOLEAN
  PROVE  /\ [j EXCEPT !.do_encrypt = b] \in Job
         /\ [j EXCEPT !.do_encrypt = b].do_encrypt = b
         /\ [j EXCEPT !.do_encrypt = b].scheme = j.scheme
         /\ j.do_encrypt \in BOOLEAN
  BY DEF Job

LEMMA StartTyped ==
  ASSUME NEW j, NEW S
  PROVE  Start(j) \in [iv : Vector, blocks : Seq(S)]
  <1>1. <<>> \in Seq(S)
    BY EmptySeq
  <1> QED
    BY <1>1 DEF Start, Vector

(* A turn finds the bytes it was made for. *)
LEMMA ReadsWhatItAsksFor ==
  ASSUME NEW S, data \in Seq(S), position \in 0..Len(data),
         count \in Nat, extra \in 0..(AesBlockSize - 1),
         Measured, pc = "crypt", count > 0
  PROVE  /\ InSize \in Nat
         /\ InSize >= AesBlockSize
         /\ InSize = IF count = 1 /\ job.do_encrypt THEN AesBlockSize + extra ELSE AesBlockSize
         /\ Read(InSize) \in Seq(S)
         /\ Len(Read(InSize)) = InSize
         /\ \A i \in 1..InSize : Read(InSize)[i] = data[position + i]
  <1> USE CryptoAssumption
  <1>1. /\ InSize \in Nat
        /\ InSize >= AesBlockSize
        /\ InSize = IF count = 1 /\ job.do_encrypt THEN AesBlockSize + extra ELSE AesBlockSize
    BY DEF InSize, Last
  <1>2. count * AesBlockSize >= AesBlockSize /\ count * AesBlockSize \in Nat
    BY SMT
  <1>3. Len(data) \in Nat
    BY LenProperties
  <1>4. Least(InSize, Available) = InSize
    BY <1>1, <1>2, <1>3 DEF Least, Available, Measured
  <1> QED
    BY <1>1, <1>4, ReadProperties

LEMMA SealTyped ==
  ASSUME NEW c \in [iv : Vector, blocks : Seq(Block)], NEW b \in Block
  PROVE  /\ Seal(c, b) \in [iv : Vector, blocks : Seq(Block) \ {<<>>}]
         /\ Newest(Seal(c, b)) = b
  BY DEF Seal, Newest

LEMMA BytesTyped ==
  ASSUME NEW s \in [iv : Vector, blocks : Seq(Block) \ {<<>>}], NEW n \in Nat
  PROVE  /\ Bytes(s, n) \in Seq(CipherByte)
         /\ Len(Bytes(s, n)) = n
         /\ \A i \in 1..n : Bytes(s, n)[i] = [of |-> s, at |-> i]
  BY DEF Bytes, CipherByte

LEMMA NewestTyped ==
  ASSUME NEW b \in CipherByte
  PROVE  /\ b.of \in [iv : Vector, blocks : Seq(Block) \ {<<>>}]
         /\ Newest(b.of) \in Block
  <1>1. b.of \in [iv : Vector, blocks : Seq(Block) \ {<<>>}]
    BY DEF CipherByte
  <1>2. b.of.blocks \in Seq(Block) /\ b.of.blocks # <<>>
    BY <1>1
  <1>3. Len(b.of.blocks) \in 1..Len(b.of.blocks)
    BY <1>2, EmptySeq
  <1> QED
    BY <1>1, <1>2, <1>3, ElementOfSeq DEF Newest

(* Begin, with a text or with cipher text. *)
LEMMA BeginTyped ==
  ASSUME Inv, NEW j \in Job, NEW bytes, Begin(j, bytes), text' = text,
         j.scheme = job.scheme,
         bytes \in Seq(IF j.do_encrypt THEN Plain ELSE CipherByte)
  PROVE  Inv'
  <1> USE CryptoAssumption
  <1>1. job' = j /\ job'.scheme = job.scheme /\ data' = bytes /\ output' = <<>> /\ position' = 0
    BY DEF Begin
  <1>2. Block' = Block /\ CipherByte' = CipherByte
    BY <1>1 DEF Block, CipherByte
  <1>3. Len(bytes) \in Nat
    BY LenProperties
  <1>4. ctx' \in [chain : [iv : Vector, blocks : Seq(Block)], buf : Seq(Plain)]
    BY StartTyped, EmptySeq DEF Begin
  <1>5. output' \in Seq(IF j.do_encrypt THEN CipherByte ELSE Plain)
    BY <1>1, EmptySeq
  <1>6. Len(bytes) \div AesBlockSize \in Nat /\ Len(bytes) % AesBlockSize \in 0..(AesBlockSize - 1)
        /\ Len(bytes) = (Len(bytes) \div AesBlockSize) * AesBlockSize + (Len(bytes) % AesBlockSize)
    BY <1>3, DivisionWithRest
  <1>7. count' \in Nat /\ extra' \in 0..(AesBlockSize - 1)
    BY <1>6 DEF Begin, BlocksIn
  <1>8. FieldsOK'
    BY <1>1, <1>2, <1>3, <1>4, <1>5, <1>7 DEF Inv, FieldsOK, Begin
  <1>9. Measured'
    BY <1>1, <1>3, <1>6 DEF Measured, Begin, BlocksIn
  <1> QED
    BY <1>8, <1>9 DEF Inv

LEMMA EncryptTyped == ASSUME Inv, Encrypt PROVE Inv'
  <1> DEFINE j == [job EXCEPT !.do_encrypt = TRUE]
  <1>1. j \in Job /\ j.do_encrypt /\ j.scheme = job.scheme
    BY JobTyped DEF Inv, FieldsOK
  <1>2. text \in Seq(Plain)
    BY SeqMonotonic DEF Inv, FieldsOK, Plain
  <1>3. Begin(j, text) /\ text' = text
    BY DEF Encrypt
  <1> QED
    BY <1>1, <1>2, <1>3, BeginTyped

LEMMA DecryptTyped == ASSUME Inv, Decrypt PROVE Inv'
  <1> DEFINE j == [job EXCEPT !.do_encrypt = FALSE]
  <1>1. j \in Job /\ ~j.do_encrypt /\ j.scheme = job.scheme
    BY JobTyped DEF Inv, FieldsOK
  <1>2. PICK n \in 0..Len(output) : Begin(j, SubSeq(output, 1, n))
    BY DEF Decrypt
  <1>3. output \in Seq(CipherByte)
    BY DEF Decrypt, Inv, FieldsOK
  <1>4. SubSeq(output, 1, n) \in Seq(CipherByte)
    BY <1>3, LenProperties, ElementOfSeq, SubSeqProperties
  <1>5. text' = text
    BY DEF Decrypt
  <1> QED
    BY <1>1, <1>2, <1>4, <1>5, BeginTyped

Context == [chain : [iv : Vector, blocks : Seq(Block)], buf : Seq(Plain)]

LEMMA EncryptedTyped ==
  ASSUME NEW c \in Context, NEW b \in Block
  PROVE  /\ Encrypted(c, b).out = Bytes(Seal(c.chain, b), AesBlockSize)
         /\ Encrypted(c, b).out \in Seq(CipherByte)
         /\ Encrypted(c, b).chain = Chained(c.chain, Seal(c.chain, b))
         /\ Encrypted(c, b).chain \in [iv : Vector, blocks : Seq(Block)]
  <1>1. c.chain \in [iv : Vector, blocks : Seq(Block)]
    BY DEF Context
  <1>2. Seal(c.chain, b) \in [iv : Vector, blocks : Seq(Block) \ {<<>>}]
    BY <1>1, SealTyped
  <1>3. AesBlockSize \in Nat
    BY CryptoAssumption
  <1>4. Bytes(Seal(c.chain, b), AesBlockSize) \in Seq(CipherByte)
    BY <1>2, <1>3, BytesTyped
  <1>5. Chained(c.chain, Seal(c.chain, b)) \in [iv : Vector, blocks : Seq(Block)]
    BY <1>1, <1>2 DEF Chained
  <1> QED
    BY <1>4, <1>5 DEF Encrypted

LEMMA PaddedTyped ==
  ASSUME NEW buf \in Seq(Plain), Len(buf) < AesBlockSize
  PROVE  Padded(buf) \in [1..AesBlockSize -> Plain]
  <1> USE CryptoAssumption
  <1>1. Len(buf) \in Nat /\ \A i \in 1..Len(buf) : buf[i] \in Plain
    BY LenProperties, ElementOfSeq
  <1>2. AesBlockSize - Len(buf) \in Plain
    BY <1>1 DEF Plain
  <1> QED
    BY <1>1, <1>2 DEF Padded

(* The parts of what a turn of the encryption reads. *)
LEMMA EncryptionReads ==
  ASSUME Inv, pc = "crypt", job.do_encrypt, count > 0
  PROVE  /\ Len(Read(InSize)) = InSize
         /\ InSize = IF count = 1 THEN AesBlockSize + extra ELSE AesBlockSize
         /\ SubSeq(Read(InSize), 1, AesBlockSize) \in Block
         /\ SubSeq(Read(InSize), AesBlockSize + 1, Len(Read(InSize))) \in Seq(Plain)
         /\ Len(SubSeq(Read(InSize), AesBlockSize + 1, Len(Read(InSize)))) = InSize - AesBlockSize
  <1> USE CryptoAssumption
  <1>1. job.scheme # "sm2" /\ data \in Seq(Plain)
    BY DEF Inv, FieldsOK, Measured
  <1>2. /\ InSize \in Nat
        /\ InSize >= AesBlockSize
        /\ InSize = IF count = 1 THEN AesBlockSize + extra ELSE AesBlockSize
        /\ Read(InSize) \in Seq(Plain)
        /\ Len(Read(InSize)) = InSize
    BY <1>1, ReadsWhatItAsksFor DEF Inv, FieldsOK
  <1> DEFINE in == Read(InSize)
             first == SubSeq(in, 1, AesBlockSize)
             rest == SubSeq(in, AesBlockSize + 1, Len(in))
  <1> HIDE DEF in
  <1>3. \A i \in 1..Len(in) : in[i] \in Plain
    BY <1>2, ElementOfSeq DEF in
  <1>4. first \in Seq(Plain) /\ Len(first) = AesBlockSize
    BY <1>2, <1>3, SubSeqProperties DEF in
  <1>5. first \in [1..AesBlockSize -> Plain]
    BY <1>4, LenProperties
  <1>6. first \in Block
    BY <1>1, <1>5 DEF Block
  <1>7. rest \in Seq(Plain) /\ Len(rest) = InSize - AesBlockSize
    BY <1>2, <1>3, SubSeqProperties DEF in
  <1> QED
    BY <1>2, <1>6, <1>7 DEF in

(* The position and the count after a turn that read n bytes. *)
LEMMA AdvanceMeasured ==
  ASSUME Inv, pc = "crypt", count > 0, Advance(InSize)
  PROVE  /\ position' \in 0..Len(data)
         /\ count' \in Nat
         /\ count' > 0 => Len(data) = position' + count' * AesBlockSize + extra
  <1> USE CryptoAssumption
  <1>1. count \in Nat /\ extra \in 0..(AesBlockSize - 1) /\ position \in 0..Len(data)
        /\ Len(data) \in Nat /\ Len(data) = position + count * AesBlockSize + extra
    BY LenProperties DEF Inv, FieldsOK, Measured
  <1>2. InSize = IF count = 1 /\ job.do_encrypt THEN AesBlockSize + extra ELSE AesBlockSize
    BY DEF InSize, Last
  <1>3. position' = position + InSize /\ count' = count - 1
    BY DEF Advance
  <1>4. CASE count = 1
    BY <1>1, <1>2, <1>3, <1>4
  <1>5. CASE count > 1
    <2> DEFINE ahead == (count - 1) * AesBlockSize
    <2>1. count * AesBlockSize = ahead + AesBlockSize /\ ahead \in Nat
      BY <1>1, <1>5
    <2>2. position' = position + AesBlockSize
      BY <1>2, <1>3, <1>5
    <2>3. count' * AesBlockSize = ahead
      BY <1>3
    <2>4. Len(data) = position' + ahead + extra
      BY <1>1, <2>1, <2>2
    <2> HIDE DEF ahead
    <2> QED
      BY <1>1, <1>3, <1>5, <2>1, <2>2, <2>3, <2>4
  <1> QED
    BY <1>1, <1>4, <1>5

LEMMA EncryptBlockTyped == ASSUME Inv, EncryptBlock PROVE Inv'
  <1> USE CryptoAssumption
  <1> DEFINE in == Read(InSize)
             first == SubSeq(in, 1, AesBlockSize)
             rest == SubSeq(in, AesBlockSize + 1, Len(in))
             e == Encrypted(ctx, first)
             next == [chain |-> e.chain, buf |-> rest]
             final == IF Last THEN EncryptFinal(next) ELSE <<>>
  <1>1. pc = "crypt" /\ job.do_encrypt /\ count > 0
    BY DEF EncryptBlock
  <1>2. /\ Len(in) = InSize
        /\ InSize = IF count = 1 THEN AesBlockSize + extra ELSE AesBlockSize
        /\ first \in Block
        /\ rest \in Seq(Plain)
        /\ Len(rest) = InSize - AesBlockSize
    BY <1>1, EncryptionReads
  <1>3. ctx \in Context /\ job.scheme # "sm2" /\ output \in Seq(CipherByte) /\ data \in Seq(Plain)
        /\ count \in Nat /\ extra \in 0..(AesBlockSize - 1) /\ position \in 0..Len(data)
    BY <1>1 DEF Inv, FieldsOK, Context, Measured
  <1>4. ctx' = next /\ output' = output \o e.out \o final
        /\ position' = position + Len(in) /\ count' = count - 1
        /\ UNCHANGED <<pc, status, job, data, extra, text>>
    BY DEF EncryptBlock, EncryptUpdate, Advance
  <1>5. e.out \in Seq(CipherByte) /\ e.chain \in [iv : Vector, blocks : Seq(Block)]
    BY <1>2, <1>3, EncryptedTyped
  <1>6. next \in Context
    BY <1>2, <1>5 DEF Context
  <1>7. final \in Seq(CipherByte)
    <2>1. CASE Last
      <3>1. Len(rest) < AesBlockSize
        BY <2>1, <1>2, <1>3 DEF Last
      <3>2. Padded(rest) \in Block
        BY <1>2, <1>3, <3>1, PaddedTyped DEF Block
      <3>3. Encrypted(next, Padded(rest)).out \in Seq(CipherByte)
        BY <1>6, <3>2, EncryptedTyped
      <3> QED
        BY <2>1, <3>3 DEF EncryptFinal
    <2>2. CASE ~Last
      BY <2>2, EmptySeq
    <2> QED
      BY <2>1, <2>2
  <1>8. output' \in Seq(CipherByte)
    BY <1>3, <1>4, <1>5, <1>7, ConcatProperties
  <1>9. Block' = Block /\ CipherByte' = CipherByte
    BY <1>4 DEF Block, CipherByte
  <1> HIDE DEF in, e, next, final
  <1>10. Advance(InSize)
    BY <1>2 DEF EncryptBlock, in
  <1>11. position' \in 0..Len(data) /\ count' \in Nat
         /\ (count' > 0 => Len(data) = position' + count' * AesBlockSize + extra)
    BY <1>1, <1>10, AdvanceMeasured
  <1>12. FieldsOK'
    BY <1>1, <1>3, <1>4, <1>6, <1>8, <1>9, <1>11 DEF Inv, FieldsOK, Context
  <1> QED
    BY <1>4, <1>11, <1>12 DEF Inv, Measured

(* What decryption of one block makes of what it read. *)
LEMMA DecryptedTyped ==
  ASSUME NEW c \in Context, NEW in \in Seq(CipherByte), Len(in) = AesBlockSize,
         job.scheme # "sm2"
  PROVE  /\ Decrypted(c, in) \in Block
         /\ DecryptUpdate(c, in).ctx \in Context
         /\ DecryptUpdate(c, in).ctx.buf = Decrypted(c, in)
         /\ DecryptUpdate(c, in).out = c.buf
  <1> USE CryptoAssumption
  <1>1. in[1] \in CipherByte
    BY ElementOfSeq
  <1>2. in[1].of \in [iv : Vector, blocks : Seq(Block) \ {<<>>}] /\ Newest(in[1].of) \in Block
    BY <1>1, NewestTyped
  <1>3. Wrong(AesBlockSize) \in Block
    BY DEF Wrong, Block, Plain
  <1>4. Decrypted(c, in) \in Block
    BY <1>2, <1>3 DEF Decrypted
  <1>5. Block = [1..AesBlockSize -> Plain]
    BY DEF Block
  <1>6. Decrypted(c, in) \in Seq(Plain)
    BY <1>4, <1>5, SeqDef
  <1>7. c.chain \in [iv : Vector, blocks : Seq(Block)]
    BY DEF Context
  <1>8. Chained(c.chain, in[1].of) \in [iv : Vector, blocks : Seq(Block)]
    BY <1>2, <1>7 DEF Chained
  <1> QED
    BY <1>4, <1>6, <1>8 DEF DecryptUpdate, Context

LEMMA DecryptFinalTyped ==
  ASSUME NEW c \in Context, c.buf \in [1..AesBlockSize -> Plain], GoodPadding(c.buf)
  PROVE  DecryptFinal(c) \in Seq(Plain)
  <1> USE CryptoAssumption
  <1>1. c.buf[AesBlockSize] \in 1..AesBlockSize
    BY DEF GoodPadding
  <1>2. \A i \in 1 .. AesBlockSize - c.buf[AesBlockSize] : c.buf[i] \in Plain
    BY <1>1
  <1> QED
    BY <1>1, <1>2, SubSeqProperties DEF DecryptFinal

LEMMA DecryptBlockTyped == ASSUME Inv, DecryptBlock PROVE Inv'
  <1> USE CryptoAssumption
  <1> DEFINE in == Read(InSize)
             u == DecryptUpdate(ctx, in)
             final == IF Last THEN DecryptFinal(u.ctx) ELSE <<>>
  <1>1. pc = "crypt" /\ ~job.do_encrypt /\ count > 0 /\ job.scheme # "sm2"
    BY DEF DecryptBlock, Inv, Measured
  <1>2. ctx \in Context /\ data \in Seq(CipherByte) /\ output \in Seq(Plain)
    BY <1>1 DEF Inv, FieldsOK, Context
  <1>3. in \in Seq(CipherByte) /\ Len(in) = AesBlockSize /\ InSize = AesBlockSize
    BY <1>1, <1>2, ReadsWhatItAsksFor DEF Inv, FieldsOK
  <1>4. Advance(InSize)
    BY <1>3 DEF DecryptBlock
  <1>5. u.ctx \in Context /\ u.out \in Seq(Plain) /\ u.ctx.buf \in [1..AesBlockSize -> Plain]
    <2>1. Block = [1..AesBlockSize -> Plain]
      BY <1>1 DEF Block
    <2>2. u.ctx \in Context /\ u.out = ctx.buf /\ u.ctx.buf \in Block
      BY <1>1, <1>2, <1>3, DecryptedTyped
    <2> QED
      BY <2>1, <2>2, <1>2 DEF Context
  <1>6. ctx' = u.ctx /\ UNCHANGED <<job, data, extra, text>>
    BY <1>4 DEF DecryptBlock, Advance
  <1>7. CASE Last /\ ~GoodPadding(u.ctx.buf)
    <2>1. pc' = "idle" /\ status' = "INTERNAL" /\ output' = output
      BY <1>7 DEF DecryptBlock, Answer
    <2> QED
      BY <2>1, <1>1, <1>2, <1>4, <1>5, <1>6, AdvanceMeasured
      DEF Inv, FieldsOK, Measured, Context, Block, CipherByte
  <1>8. CASE ~(Last /\ ~GoodPadding(u.ctx.buf))
    <2>1. output' = output \o u.out \o final /\ UNCHANGED <<pc, status>>
      BY <1>8 DEF DecryptBlock
    <2>2. final \in Seq(Plain)
      BY <1>5, <1>8, DecryptFinalTyped, EmptySeq
    <2>3. output' \in Seq(Plain)
      BY <2>1, <2>2, <1>2, <1>5, ConcatProperties
    <2> HIDE DEF u, final
    <2> QED
      BY <2>1, <2>3, <1>1, <1>2, <1>4, <1>5, <1>6, AdvanceMeasured
      DEF Inv, FieldsOK, Measured, Context, Block, CipherByte
  <1> QED
    BY <1>7, <1>8

LEMMA Sm2EncryptBlockTyped == ASSUME Inv, Sm2EncryptBlock PROVE Inv'
  <1> USE CryptoAssumption
  <1> DEFINE block == Read(EncryptBlockSize)
             sealed == Seal(ctx.chain, Filled(block))
             message == Bytes(sealed, CipherLength(job.key_bits))
  <1>1. pc = "sm2" /\ job.do_encrypt /\ job.scheme = "sm2" /\ job.key_bits \in {192, 256}
    BY DEF Sm2EncryptBlock, Inv, Measured, FieldsOK, Job
  <1>2. ctx \in Context /\ data \in Seq(Plain) /\ output \in Seq(CipherByte) /\ position \in 0..Len(data)
    BY <1>1 DEF Inv, FieldsOK, Context
  <1>3. block \in Seq(Plain) /\ Len(block) = Least(EncryptBlockSize, Available)
        /\ \A i \in 1..Len(block) : block[i] \in Plain
    BY <1>2, ReadProperties, ElementOfSeq DEF EncryptBlockSize
  <1>4. Filled(block) \in Block
    BY <1>1, <1>3 DEF Filled, Block, Plain
  <1>5. sealed \in [iv : Vector, blocks : Seq(Block) \ {<<>>}]
    BY <1>2, <1>4, SealTyped DEF Context
  <1>6. CipherLength(job.key_bits) \in Nat
    BY <1>1 DEF CipherLength, HeaderLength, EncryptBlockSize
  <1>7. message \in Seq(CipherByte)
    BY <1>5, <1>6, BytesTyped
  <1>8. position + Len(block) \in 0..Len(data)
    BY <1>2, <1>3, LenProperties DEF Least, Available, EncryptBlockSize
  <1>9. output' = output \o message /\ position' = position + Len(block)
        /\ UNCHANGED <<pc, job, data, count, extra, ctx, status, text>>
    BY DEF Sm2EncryptBlock
  <1>10. output' \in Seq(CipherByte)
    BY <1>2, <1>7, <1>9, ConcatProperties
  <1> QED
    BY <1>1, <1>2, <1>8, <1>9, <1>10 DEF Inv, FieldsOK, Measured, Block, CipherByte

LEMMA Sm2DecryptBlockTyped == ASSUME Inv, Sm2DecryptBlock PROVE Inv'
  <1> USE CryptoAssumption
  <1> DEFINE block == Read(DecryptBufferSize)
  <1>1. pc = "sm2" /\ ~job.do_encrypt /\ job.scheme = "sm2" /\ job.key_bits \in {192, 256}
    BY DEF Sm2DecryptBlock, Inv, Measured, FieldsOK, Job
  <1>2. data \in Seq(CipherByte) /\ output \in Seq(Plain) /\ position \in 0..Len(data)
    BY <1>1 DEF Inv, FieldsOK
  <1>3. block \in Seq(CipherByte) /\ Len(block) = Least(DecryptBufferSize, Available)
    BY <1>2, ReadProperties DEF DecryptBufferSize
  <1> HIDE DEF block
  <1>4. position + Len(block) \in 0..Len(data)
    <2>1. Len(data) \in Nat /\ Len(block) \in Nat
      BY <1>2, <1>3, LenProperties
    <2> QED
      BY <2>1, <1>2, <1>3 DEF Least, Available, DecryptBufferSize
  <1>5. Opened(block) \subseteq Seq(Plain)
    <2>1. <<>> \in Seq(Plain)
      BY EmptySeq
    <2>2. ASSUME Whole(block, CipherLength(job.key_bits)) PROVE Newest(block[1].of) \in Seq(Plain)
      <3>1. Len(block) \in Nat \ {0}
        BY <1>3, <2>2, EmptySeq DEF Whole
      <3>2. block[1] \in CipherByte
        BY <1>3, <3>1, ElementOfSeq
      <3>3. Newest(block[1].of) \in [1..EncryptBlockSize -> Plain]
        BY <1>1, <3>2, NewestTyped DEF Block
      <3> QED
        BY <3>3, SeqDef DEF EncryptBlockSize
    <2>3. ASSUME Len(block) > CipherLength(job.key_bits)
          PROVE  Wrong(Len(block) - HeaderLength(job.key_bits)) \in Seq(Plain)
      <3>1. Len(block) - HeaderLength(job.key_bits) \in Nat
        BY <1>1, <1>3, <2>3, LenProperties DEF CipherLength, HeaderLength, EncryptBlockSize
      <3> QED
        BY <3>1, SeqDef DEF Wrong, Plain
    <2>4. Len(block) \in Nat /\ CipherLength(job.key_bits) \in Nat
      BY <1>1, <1>3, LenProperties DEF CipherLength, HeaderLength, EncryptBlockSize
    <2>5. CASE Whole(block, CipherLength(job.key_bits))
      BY <2>2, <2>5 DEF Opened
    <2>6. CASE ~Whole(block, CipherLength(job.key_bits)) /\ Len(block) <= CipherLength(job.key_bits)
      BY <2>1, <2>6 DEF Opened
    <2>7. CASE ~Whole(block, CipherLength(job.key_bits)) /\ Len(block) > CipherLength(job.key_bits)
      BY <2>1, <2>3, <2>4, <2>7 DEF Opened
    <2> QED
      BY <2>4, <2>5, <2>6, <2>7
  <1>6. position' = position + Len(block) /\ UNCHANGED <<job, data, count, extra, ctx, text>>
    BY DEF Sm2DecryptBlock, block
  <1>7. PICK plain \in Opened(block) :
          IF plain = <<>> THEN Answer("INTERNAL") /\ UNCHANGED output
          ELSE output' = output \o plain /\ UNCHANGED <<pc, status>>
    BY DEF Sm2DecryptBlock, block
  <1>8. output' \in Seq(Plain) /\ pc' \in {"idle", "sm2"} /\ status' \in {"none", "OK", "INTERNAL"}
    <2>1. plain \in Seq(Plain)
      BY <1>5
    <2>2. output \o plain \in Seq(Plain)
      BY <1>2, <2>1, ConcatProperties
    <2>3. status \in {"none", "OK", "INTERNAL"}
      BY DEF Inv, FieldsOK
    <2>4. plain = <<>> => output' = output /\ pc' = "idle" /\ status' = "INTERNAL"
      BY <1>7 DEF Answer
    <2>5. plain # <<>> => output' = output \o plain /\ pc' = pc /\ status' = status
      BY <1>7
    <2>6. CASE plain = <<>>
      BY <1>1, <1>2, <2>4, <2>6
    <2>7. CASE plain # <<>>
      <3>1. output' = output \o plain /\ pc' = pc /\ status' = status
        BY <2>5, <2>7
      <3>2. pc' \in {"idle", "sm2"}
        BY <1>1, <3>1
      <3>3. output' \in Seq(Plain)
        BY <2>2, <3>1
      <3> QED
        BY <2>3, <3>1, <3>2, <3>3
    <2> QED
      BY <2>6, <2>7
  <1> QED
    BY <1>1, <1>2, <1>4, <1>6, <1>8 DEF Inv, FieldsOK, Measured, Block, CipherByte

LEMMA InvInit == Init => Inv
  <1> SUFFICES ASSUME Init PROVE Inv
    OBVIOUS
  <1> USE CryptoAssumption
  <1>1. job \in Job /\ job.do_encrypt /\ pc = "idle" /\ data = <<>> /\ output = <<>> /\ position = 0
        /\ count = 0 /\ extra = 0 /\ status = "none"
    BY DEF Init
  <1>2. ctx \in [chain : [iv : Vector, blocks : Seq(Block)], buf : Seq(Plain)]
    BY StartTyped, EmptySeq DEF Init
  <1>3. text \in Seq(Byte)
    BY SeqDef DEF Init, Texts
  <1> QED
    BY <1>1, <1>2, <1>3, EmptySeq DEF Inv, FieldsOK, Measured

LEMMA InvStep == Inv /\ [Next]_vars => Inv'
  <1> SUFFICES ASSUME Inv, [Next]_vars PROVE Inv'
    OBVIOUS
  <1>1. CASE CryptReturn \/ Sm2Return
    BY <1>1 DEF CryptReturn, Sm2Return, Answer, Inv, FieldsOK, Measured, Block, CipherByte
  <1>2. CASE UNCHANGED vars
    BY <1>2 DEF vars, Inv, FieldsOK, Measured, Block, CipherByte
  <1> QED
    BY <1>1, <1>2, EncryptTyped, DecryptTyped, EncryptBlockTyped, DecryptBlockTyped,
       Sm2EncryptBlockTyped, Sm2DecryptBlockTyped DEF Next

(* The fields keep their types, and every read of CryptInternal finds as   *)
(* many bytes as the code counted on: its DCHECK never fails, whatever the *)
(* block size and the length of the text.                                  *)
THEOREM CryptoTypeCorrect == Spec => []TypeOK
  <1>1. Inv => TypeOK
    BY ReadsWhatItAsksFor DEF Inv, FieldsOK, TypeOK
  <1> QED
    BY InvInit, InvStep, <1>1, PTL DEF Spec
--------------------------------------------------------------------------------
(* Encryption *)

(* The first j blocks of the cipher text. *)
Beginning(plain, j) ==
  [k \in 1 .. j * AesBlockSize |->
    [of |-> SealedAt(plain, (k - 1) \div AesBlockSize + 1),
     at |-> ((k - 1) % AesBlockSize) + 1]]

(* What the next block is chained to after j blocks. *)
ChainAfter(plain, j) ==
  [iv |-> Origin,
   blocks |-> IF job.scheme = "ecb" THEN <<>> ELSE [h \in 1..j |-> BlockAt(plain, h)]]

WholeCipher == IF Len(data) >= AesBlockSize THEN Image(data) ELSE <<>>

(* What CryptInternal has made of the blocks that it has read. *)
Written ==
  job.do_encrypt /\ job.scheme # "sm2" =>
    /\ pc = "idle" => output = WholeCipher
    /\ pc = "crypt" =>
         /\ status = "none"
         /\ extra = Len(data) % AesBlockSize
         /\ count <= BlocksIn(Len(data))
         /\ count = 0 => output = WholeCipher
         /\ count > 0 => \A j \in Nat : j = BlocksIn(Len(data)) - count =>
                           output = Beginning(data, j) /\ ctx.chain = ChainAfter(data, j)

LEMMA OriginIsStart ==
  ASSUME job \in Job, job.do_encrypt
  PROVE  Origin = Start(job).iv
  <1>1. [job EXCEPT !.do_encrypt = TRUE].iv = job.iv
    BY DEF Job
  <1> QED
    BY <1>1 DEF Origin, Start

(* One block more. *)
LEMMA BeginningGrows ==
  ASSUME NEW plain, NEW j \in Nat
  PROVE  Beginning(plain, j) \o Bytes(SealedAt(plain, j + 1), AesBlockSize) = Beginning(plain, j + 1)
  <1> USE CryptoAssumption
  <1> DEFINE S == {[of |-> SealedAt(plain, i), at |-> k] : i \in Nat, k \in Nat}
             n == j * AesBlockSize
             m == (j + 1) * AesBlockSize
             s == Beginning(plain, j)
             t == Bytes(SealedAt(plain, j + 1), AesBlockSize)
             u == Beginning(plain, j + 1)
  <1>1. n \in Nat /\ m = n + AesBlockSize /\ m \in Nat
    OBVIOUS
  <1>2. \A k \in Nat \ {0} : (k - 1) \div AesBlockSize + 1 \in Nat /\ ((k - 1) % AesBlockSize) + 1 \in Nat
    BY DivisionWithRest
  <1> HIDE DEF n, m
  <1>3. s \in [1..n -> S] /\ \A k \in 1..n : s[k] = [of |-> SealedAt(plain, (k - 1) \div AesBlockSize + 1), at |-> ((k - 1) % AesBlockSize) + 1]
    BY <1>1, <1>2 DEF Beginning, n
  <1>4. u \in [1..m -> S] /\ \A k \in 1..m : u[k] = [of |-> SealedAt(plain, (k - 1) \div AesBlockSize + 1), at |-> ((k - 1) % AesBlockSize) + 1]
    BY <1>1, <1>2 DEF Beginning, m
  <1>5. t \in [1..AesBlockSize -> S] /\ \A i \in 1..AesBlockSize : t[i] = [of |-> SealedAt(plain, j + 1), at |-> i]
    BY DEF Bytes
  <1> HIDE DEF S, s, t, u
  <1>6. \A i \in 1..AesBlockSize : u[n + i] = t[i]
    <2> TAKE i \in 1..AesBlockSize
    <2>1. ((n + i) - 1) \div AesBlockSize = j /\ ((n + i) - 1) % AesBlockSize = i - 1
      <3>1. i - 1 \in 0..(AesBlockSize - 1)
        OBVIOUS
      <3>2. (n + i) - 1 = j * AesBlockSize + (i - 1)
        BY <1>1 DEF n
      <3> QED
        BY <3>1, <3>2, DivisionUnique
    <2>2. n + i \in 1..m
      BY <1>1
    <2>3. u[n + i] = [of |-> SealedAt(plain, ((n + i) - 1) \div AesBlockSize + 1),
                      at |-> (((n + i) - 1) % AesBlockSize) + 1]
      BY <1>4, <2>2
    <2>4. (i - 1) + 1 = i
      OBVIOUS
    <2> QED
      BY <1>5, <2>1, <2>3, <2>4
  <1>7. s \in Seq(S) /\ t \in Seq(S) /\ u \in Seq(S) /\ Len(s) = n /\ Len(t) = AesBlockSize /\ Len(u) = m
    BY <1>1, <1>3, <1>4, <1>5, SeqDef
  <1>8. s \o t \in Seq(S) /\ Len(s \o t) = m
        /\ \A i \in 1..m : (s \o t)[i] = IF i <= n THEN s[i] ELSE t[i - n]
    BY <1>1, <1>7, ConcatProperties
  <1>9. \A i \in 1..m : (s \o t)[i] = u[i]
    <2> TAKE i \in 1..m
    <2>1. CASE i <= n
      BY <1>1, <1>3, <1>4, <1>8, <2>1
    <2>2. CASE i > n
      <3>1. i - n \in 1..AesBlockSize /\ n + (i - n) = i
        BY <1>1, <2>2
      <3> QED
        <4>1. (s \o t)[i] = t[i - n]
          BY <1>1, <1>8, <2>2
        <4>2. u[n + (i - n)] = t[i - n]
          BY <1>6, <3>1
        <4> QED
          BY <3>1, <4>1, <4>2
    <2>3. i <= n \/ i > n
      BY <1>1
    <2> QED
      BY <2>1, <2>2, <2>3
  <1>10. s \o t = u
    BY <1>7, <1>8, <1>9, SeqEqual
  <1> QED
    BY <1>10 DEF s, t, u

LEMMA PaddedTextProperties ==
  ASSUME NEW plain \in Seq(Plain)
  PROVE  /\ PaddedText(plain) \in Seq(Plain)
         /\ Len(PaddedText(plain)) = (Len(plain) \div AesBlockSize + 1) * AesBlockSize
         /\ \A i \in 1..Len(PaddedText(plain)) :
              PaddedText(plain)[i] = IF i <= Len(plain) THEN plain[i]
                                     ELSE AesBlockSize - (Len(plain) % AesBlockSize)
  <1> USE CryptoAssumption
  <1> DEFINE q == Len(plain) \div AesBlockSize
             r == Len(plain) % AesBlockSize
             n == AesBlockSize - r
  <1>1. Len(plain) \in Nat /\ \A i \in 1..Len(plain) : plain[i] \in Plain
    BY LenProperties, ElementOfSeq
  <1>2. q \in Nat /\ r \in 0..(AesBlockSize - 1) /\ Len(plain) = q * AesBlockSize + r
    BY <1>1, DivisionWithRest
  <1>3. n \in Plain /\ n \in Nat
    BY <1>2 DEF Plain
  <1>4. Len(plain) + n = (q + 1) * AesBlockSize
    BY <1>1, <1>2
  <1>5. PaddedText(plain) = [i \in 1 .. Len(plain) + n |-> IF i <= Len(plain) THEN plain[i] ELSE n]
    BY DEF PaddedText
  <1> HIDE DEF n
  <1>6. PaddedText(plain) \in [1 .. Len(plain) + n -> Plain]
    BY <1>1, <1>3, <1>5
  <1>7. PaddedText(plain) \in Seq(Plain) /\ Len(PaddedText(plain)) = Len(plain) + n
    BY <1>1, <1>3, <1>6, SeqDef
  <1>8. \A i \in 1..Len(plain) + n : PaddedText(plain)[i] = IF i <= Len(plain) THEN plain[i] ELSE n
    BY <1>5
  <1> QED
    BY <1>4, <1>7, <1>8 DEF n

LEMMA BlockAtProperties ==
  ASSUME NEW plain \in Seq(Plain), NEW j \in Nat, j <= Len(plain) \div AesBlockSize
  PROVE  /\ BlockAt(plain, j + 1) \in Seq(Plain)
         /\ Len(BlockAt(plain, j + 1)) = AesBlockSize
         /\ \A i \in 1..AesBlockSize :
              BlockAt(plain, j + 1)[i] = IF j * AesBlockSize + i <= Len(plain)
                                         THEN plain[j * AesBlockSize + i]
                                         ELSE AesBlockSize - (Len(plain) % AesBlockSize)
  <1> USE CryptoAssumption
  <1> DEFINE P == PaddedText(plain)
             q == Len(plain) \div AesBlockSize
             m == j * AesBlockSize
  <1>1. q \in Nat
    BY LenProperties, DivisionWithRest
  <1>2. (j + 1) * AesBlockSize <= (q + 1) * AesBlockSize
    <2>1. \A a, b, c \in Nat : a <= b => a * c <= b * c
      BY SMT
    <2> QED
      BY <1>1, <2>1
  <1>3. m \in Nat /\ ((j + 1) - 1) * AesBlockSize = m /\ (j + 1) * AesBlockSize = m + AesBlockSize
    OBVIOUS
  <1> HIDE DEF m
  <1>4. P \in Seq(Plain) /\ Len(P) \in Nat /\ m + AesBlockSize <= Len(P)
        /\ \A i \in 1..Len(P) : P[i] = IF i <= Len(plain) THEN plain[i]
                                       ELSE AesBlockSize - (Len(plain) % AesBlockSize)
    BY <1>2, <1>3, PaddedTextProperties, LenProperties
  <1> HIDE DEF P
  <1>5. \A i \in m + 1 .. m + AesBlockSize : P[i] \in Plain
    BY <1>3, <1>4, ElementOfSeq
  <1>6. BlockAt(plain, j + 1) = SubSeq(P, m + 1, m + AesBlockSize)
    BY <1>3 DEF BlockAt, P
  <1>7. /\ SubSeq(P, m + 1, m + AesBlockSize) \in Seq(Plain)
        /\ Len(SubSeq(P, m + 1, m + AesBlockSize)) = AesBlockSize
        /\ \A i \in 1..AesBlockSize : SubSeq(P, m + 1, m + AesBlockSize)[i] = P[m + i]
    BY <1>3, <1>5, SubSeqProperties
  <1>8. \A i \in 1..AesBlockSize : P[m + i] = IF m + i <= Len(plain) THEN plain[m + i]
                                              ELSE AesBlockSize - (Len(plain) % AesBlockSize)
    BY <1>3, <1>4
  <1> QED
    BY <1>6, <1>7, <1>8 DEF m

(* What a turn reads is the next block of the text, and in the last turn   *)
(* the rest with its padding is the one after it.                          *)
LEMMA ReadsNextBlock ==
  ASSUME Inv, Written, pc = "crypt", job.do_encrypt, count > 0,
         NEW j, j = BlocksIn(Len(data)) - count
  PROVE  /\ j \in Nat
         /\ SubSeq(Read(InSize), 1, AesBlockSize) = BlockAt(data, j + 1)
         /\ count = 1 => Padded(SubSeq(Read(InSize), AesBlockSize + 1, Len(Read(InSize))))
                           = BlockAt(data, j + 2)
  <1> USE CryptoAssumption
  <1> DEFINE q == Len(data) \div AesBlockSize
             m == j * AesBlockSize
             ahead == count * AesBlockSize
             in == Read(InSize)
             first == SubSeq(in, 1, AesBlockSize)
             rest == SubSeq(in, AesBlockSize + 1, Len(in))
  <1>1. /\ job.scheme # "sm2" /\ data \in Seq(Plain) /\ Len(data) \in Nat
        /\ position \in 0..Len(data) /\ count \in Nat /\ extra \in 0..(AesBlockSize - 1)
        /\ count <= q /\ Len(data) = position + ahead + extra
    BY LenProperties DEF Inv, FieldsOK, Measured, Written, BlocksIn
  <1>2. extra = Len(data) % AesBlockSize
    BY <1>1 DEF Written
  <1> DEFINE whole == q * AesBlockSize
  <1>3. q \in Nat /\ whole \in Nat /\ Len(data) = whole + extra
    <2>1. /\ Len(data) \div AesBlockSize \in Nat
          /\ Len(data) = (Len(data) \div AesBlockSize) * AesBlockSize + (Len(data) % AesBlockSize)
      BY <1>1, DivisionWithRest
    <2>2. q \in Nat /\ whole \in Nat
      BY <2>1
    <2> QED
      BY <2>1, <2>2, <1>2
  <1> HIDE DEF q
  <1>4. j \in Nat /\ j = q - count
    BY <1>1, <1>3 DEF BlocksIn, q
  <1>5. m \in Nat /\ ahead \in Nat /\ m + ahead = whole
        /\ ahead >= AesBlockSize /\ (count = 1 => ahead = AesBlockSize)
        /\ (j + 1) * AesBlockSize = m + AesBlockSize
    <2>1. count \in Nat \ {0} /\ q = j + count
      BY <1>1, <1>3, <1>4
    <2>2. \A x, y, z \in Nat : (x + y) * z = x * z + y * z /\ x * z \in Nat
      BY SMT
    <2>3. \A y, z \in Nat : y > 0 => y * z >= z
      BY SMT
    <2>4. m \in Nat /\ ahead \in Nat /\ ahead >= AesBlockSize
      BY <2>1, <2>2, <2>3, <1>4
    <2>5. m + ahead = whole
      BY <2>1, <2>2, <1>4
    <2>6. count = 1 => ahead = AesBlockSize
      OBVIOUS
    <2>7. (j + 1) * AesBlockSize = m + AesBlockSize
      BY <1>4
    <2> HIDE DEF m, ahead, whole
    <2> QED
      BY <2>4, <2>5, <2>6, <2>7
  <1> HIDE DEF m, ahead, whole
  <1>6. position = m /\ Len(data) = m + ahead + extra
    BY <1>1, <1>3, <1>5
  <1>7. /\ InSize \in Nat /\ InSize >= AesBlockSize
        /\ InSize = IF count = 1 THEN AesBlockSize + extra ELSE AesBlockSize
        /\ in \in Seq(Plain) /\ Len(in) = InSize
        /\ \A i \in 1..InSize : in[i] = data[position + i]
    BY <1>1, ReadsWhatItAsksFor DEF Inv
  <1> HIDE DEF in
  <1>8. \A i \in 1..Len(in) : in[i] \in Plain
    BY <1>7, ElementOfSeq
  <1>9. /\ first \in Seq(Plain) /\ Len(first) = AesBlockSize
        /\ \A i \in 1..AesBlockSize : first[i] = in[i]
    BY <1>7, <1>8, SubSeqProperties
  <1>10. /\ rest \in Seq(Plain) /\ Len(rest) = InSize - AesBlockSize
        /\ \A i \in 1..InSize - AesBlockSize : rest[i] = in[AesBlockSize + i]
    BY <1>7, <1>8, SubSeqProperties
  <1> HIDE DEF first, rest
  <1>11. m + AesBlockSize <= Len(data)
    BY <1>1, <1>5, <1>6
  <1>12. first = BlockAt(data, j + 1)
    <2>1. /\ BlockAt(data, j + 1) \in Seq(Plain) /\ Len(BlockAt(data, j + 1)) = AesBlockSize
          /\ \A i \in 1..AesBlockSize :
               BlockAt(data, j + 1)[i] = IF m + i <= Len(data) THEN data[m + i] ELSE AesBlockSize - extra
      <3>1. j <= Len(data) \div AesBlockSize
        BY <1>1, <1>3, <1>4 DEF q
      <3> QED
        BY <3>1, <1>1, <1>4, <1>2, BlockAtProperties DEF m
    <2>2. \A i \in 1..AesBlockSize : first[i] = BlockAt(data, j + 1)[i]
      <3> TAKE i \in 1..AesBlockSize
      <3>1. first[i] = in[i] /\ in[i] = data[m + i]
        BY <1>1, <1>6, <1>7, <1>9
      <3>2. m + i <= Len(data)
        BY <1>1, <1>5, <1>11
      <3> QED
        BY <2>1, <3>1, <3>2
    <2> QED
      BY <2>1, <2>2, <1>9, SeqEqual
  <1>13. ASSUME count = 1 PROVE Padded(rest) = BlockAt(data, j + 2)
    <2>1. j + 1 = q /\ (j + 1) * AesBlockSize = m + AesBlockSize
          /\ Len(data) = m + AesBlockSize + extra /\ Len(rest) = extra
      BY <1>13, <1>1, <1>3, <1>4, <1>5, <1>6, <1>7, <1>10
    <2>2. /\ BlockAt(data, j + 2) \in Seq(Plain) /\ Len(BlockAt(data, j + 2)) = AesBlockSize
          /\ \A i \in 1..AesBlockSize :
               BlockAt(data, j + 2)[i] = IF m + AesBlockSize + i <= Len(data)
                                         THEN data[m + AesBlockSize + i] ELSE AesBlockSize - extra
      <3>1. j + 1 \in Nat /\ (j + 1) + 1 = j + 2
        BY <1>4
      <3>2. j + 1 <= Len(data) \div AesBlockSize
        BY <2>1, <1>3 DEF q
      <3>3. /\ BlockAt(data, (j + 1) + 1) \in Seq(Plain)
            /\ Len(BlockAt(data, (j + 1) + 1)) = AesBlockSize
            /\ \A i \in 1..AesBlockSize :
                 BlockAt(data, (j + 1) + 1)[i] = IF (j + 1) * AesBlockSize + i <= Len(data)
                                                 THEN data[(j + 1) * AesBlockSize + i]
                                                 ELSE AesBlockSize - (Len(data) % AesBlockSize)
        BY <3>1, <3>2, <1>1, BlockAtProperties
      <3> HIDE DEF rest
      <3> QED
        BY <2>1, <3>1, <3>3, <1>2
    <2>3. /\ Padded(rest) \in Seq(Plain) /\ Len(Padded(rest)) = AesBlockSize
          /\ \A i \in 1..AesBlockSize :
               Padded(rest)[i] = IF i <= extra THEN rest[i] ELSE AesBlockSize - extra
      <3>1. Padded(rest) \in [1..AesBlockSize -> Plain]
        BY <2>1, <1>1, <1>10, PaddedTyped
      <3>2. Padded(rest) \in Seq(Plain) /\ Len(Padded(rest)) = AesBlockSize
        BY <3>1, SeqDef
      <3> QED
        BY <3>2, <2>1 DEF Padded
    <2>4. \A i \in 1..AesBlockSize : Padded(rest)[i] = BlockAt(data, j + 2)[i]
      <3> TAKE i \in 1..AesBlockSize
      <3>1. CASE i <= extra
        <4>1. rest[i] = in[AesBlockSize + i] /\ in[AesBlockSize + i] = data[position + (AesBlockSize + i)]
          BY <3>1, <1>1, <1>7, <1>10, <1>13
        <4>2. position + (AesBlockSize + i) = m + AesBlockSize + i /\ m + AesBlockSize + i <= Len(data)
          BY <3>1, <2>1, <1>1, <1>5, <1>6
        <4> QED
          BY <3>1, <4>1, <4>2, <2>2, <2>3
      <3>2. CASE i > extra
        <4>1. ~(i <= extra) /\ ~(m + AesBlockSize + i <= Len(data))
          BY <3>2, <2>1, <1>1, <1>5
        <4> QED
          BY <4>1, <2>2, <2>3
      <3>3. i <= extra \/ i > extra
        BY <1>1
      <3> QED
        BY <3>1, <3>2, <3>3
    <2> QED
      BY <2>2, <2>3, <2>4, SeqEqual
  <1> QED
    BY <1>4, <1>12, <1>13 DEF first, rest, in

LEMMA SealsNextBlock ==
  ASSUME job.scheme \in {"ecb", "cbc"}, NEW plain, NEW j \in Nat
  PROVE  /\ Seal(ChainAfter(plain, j), BlockAt(plain, j + 1)) = SealedAt(plain, j + 1)
         /\ Chained(ChainAfter(plain, j), SealedAt(plain, j + 1)) = ChainAfter(plain, j + 1)
  <1> DEFINE S == {BlockAt(plain, h) : h \in Nat}
             blocks == [h \in 1..j |-> BlockAt(plain, h)]
             more == [h \in 1..j + 1 |-> BlockAt(plain, h)]
  <1>1. blocks \in Seq(S) /\ Len(blocks) = j
    <2>1. blocks \in [1..j -> S]
      OBVIOUS
    <2>2. blocks \in Seq(S)
      BY <2>1, SeqDef
    <2> QED
      BY <2>2
  <1>2. more \in Seq(S) /\ Len(more) = j + 1
    <2>1. more \in [1..j + 1 -> S] /\ j + 1 \in Nat
      OBVIOUS
    <2>2. more \in Seq(S)
      BY <2>1, SeqDef
    <2> QED
      BY <2>2
  <1>3. Append(blocks, BlockAt(plain, j + 1)) = more
    <2>1. BlockAt(plain, j + 1) \in S
      OBVIOUS
    <2> HIDE DEF S
    <2>2. \A h \in 1..j : Append(blocks, BlockAt(plain, j + 1))[h] = more[h]
      BY <1>1, <2>1
    <2>3. Append(blocks, BlockAt(plain, j + 1))[j + 1] = more[j + 1]
      BY <1>1, <2>1
    <2>4. Append(blocks, BlockAt(plain, j + 1)) \in Seq(S)
          /\ Len(Append(blocks, BlockAt(plain, j + 1))) = j + 1
      BY <1>1, <2>1
    <2>5. \A h \in 1..j + 1 : Append(blocks, BlockAt(plain, j + 1))[h] = more[h]
      BY <2>2, <2>3
    <2> HIDE DEF blocks, more
    <2> QED
      BY <1>2, <2>4, <2>5, SeqEqual
  <1>4. Append(<<>>, BlockAt(plain, j + 1)) = <<BlockAt(plain, j + 1)>>
    OBVIOUS
  <1>5. CASE job.scheme = "ecb"
    BY <1>4, <1>5 DEF Seal, ChainAfter, SealedAt, Chained
  <1>6. CASE job.scheme = "cbc"
    <2>1. ChainAfter(plain, j) = [iv |-> Origin, blocks |-> blocks]
          /\ ChainAfter(plain, j + 1) = [iv |-> Origin, blocks |-> more]
          /\ SealedAt(plain, j + 1) = [iv |-> Origin, blocks |-> more]
      BY <1>6 DEF ChainAfter, SealedAt
    <2> HIDE DEF blocks, more
    <2>2. Seal(ChainAfter(plain, j), BlockAt(plain, j + 1)) = SealedAt(plain, j + 1)
      BY <1>3, <2>1 DEF Seal
    <2> QED
      BY <1>6, <2>1, <2>2 DEF Chained
  <1> QED
    BY <1>5, <1>6

LEMMA ImageIsBeginning ==
  ASSUME NEW plain \in Seq(Plain)
  PROVE  Image(plain) = Beginning(plain, Len(plain) \div AesBlockSize + 1)
  BY PaddedTextProperties DEF Image, Beginning

LEMMA Frozen ==
  ASSUME data' = data, job' = job
  PROVE  /\ WholeCipher' = WholeCipher
         /\ \A j : Beginning(data, j)' = Beginning(data, j)
         /\ \A j : ChainAfter(data, j)' = ChainAfter(data, j)
  <1>1. Origin' = Origin
    BY DEF Origin
  <1>2. \A i : SealedAt(data, i)' = SealedAt(data, i)
    BY <1>1 DEF SealedAt
  <1>3. \A j : Beginning(data, j)' = Beginning(data, j)
    BY <1>2 DEF Beginning
  <1>4. \A j : ChainAfter(data, j)' = ChainAfter(data, j)
    BY <1>1 DEF ChainAfter
  <1>5. Image(data)' = Image(data)
    BY <1>2 DEF Image
  <1> QED
    BY <1>3, <1>4, <1>5 DEF WholeCipher

LEMMA EncryptBlockWrites == ASSUME Inv, Written, EncryptBlock PROVE Written'
  <1> USE CryptoAssumption
  <1> DEFINE q == BlocksIn(Len(data))
             in == Read(InSize)
             first == SubSeq(in, 1, AesBlockSize)
             rest == SubSeq(in, AesBlockSize + 1, Len(in))
             e == Encrypted(ctx, first)
             next == [chain |-> e.chain, buf |-> rest]
             final == IF Last THEN EncryptFinal(next) ELSE <<>>
  <1>1. /\ pc = "crypt" /\ job.do_encrypt /\ job \in Job /\ job.scheme \in {"ecb", "cbc"}
        /\ count \in Nat \ {0} /\ data \in Seq(Plain) /\ Len(data) \in Nat
        /\ ctx \in Context /\ output \in Seq(CipherByte)
    BY LenProperties DEF EncryptBlock, Inv, Measured, FieldsOK, Job, Context
  <1>2. q \in Nat /\ q = Len(data) \div AesBlockSize
    BY <1>1, DivisionWithRest DEF BlocksIn
  <1>3. count <= q
    BY <1>1 DEF Written
  <1> HIDE DEF q
  <1>4. q - count \in Nat
    BY <1>1, <1>2, <1>3
  <1>5. PICK j \in Nat : j = q - count
    BY <1>4
  <1>6. /\ status = "none" /\ extra = Len(data) % AesBlockSize /\ count <= q
        /\ output = Beginning(data, j) /\ ctx.chain = ChainAfter(data, j)
    BY <1>1, <1>5 DEF Written, q
  <1>7. /\ ctx' = next /\ output' = output \o e.out \o final /\ count' = count - 1
        /\ UNCHANGED <<pc, status, job, data, extra, text>>
    BY DEF EncryptBlock, EncryptUpdate, Advance
  <1>8. first = BlockAt(data, j + 1) /\ (count = 1 => Padded(rest) = BlockAt(data, j + 2))
    BY <1>1, <1>5, ReadsNextBlock DEF q
  <1>9. /\ first \in Block /\ rest \in Seq(Plain)
        /\ count = 1 => Len(rest) < AesBlockSize
    <2>1. extra \in 0..(AesBlockSize - 1)
      BY DEF Inv, FieldsOK
    <2> QED
      BY <1>1, <2>1, EncryptionReads
  <1> HIDE DEF in, first, rest
  <1>10. /\ e.out = Bytes(SealedAt(data, j + 1), AesBlockSize) /\ e.out \in Seq(CipherByte)
        /\ e.chain = ChainAfter(data, j + 1) /\ e.chain \in [iv : Vector, blocks : Seq(Block)]
    <2>1. /\ e.out = Bytes(Seal(ctx.chain, first), AesBlockSize) /\ e.out \in Seq(CipherByte)
          /\ e.chain = Chained(ctx.chain, Seal(ctx.chain, first))
          /\ e.chain \in [iv : Vector, blocks : Seq(Block)]
      BY <1>1, <1>9, EncryptedTyped
    <2> HIDE DEF e
    <2> QED
      BY <2>1, <1>1, <1>6, <1>8, SealsNextBlock
  <1> HIDE DEF e
  <1>11. output \o e.out = Beginning(data, j + 1)
    BY <1>6, <1>8, <1>10, BeginningGrows
  <1>12. output \o e.out \in Seq(CipherByte)
    BY <1>1, <1>10, ConcatProperties
  <1>13. WholeCipher' = WholeCipher /\ Beginning(data, j + 1)' = Beginning(data, j + 1)
        /\ ChainAfter(data, j + 1)' = ChainAfter(data, j + 1)
    BY <1>7, Frozen
  <1>14. CASE count = 1
    <2>1. Last /\ j + 1 = q /\ j + 2 = q + 1
      BY <1>2, <1>14, <1>5 DEF Last
    <2>2. Padded(rest) \in Block
      BY <1>1, <1>9, <1>14, PaddedTyped DEF Block
    <2>3. next \in Context
      BY <1>9, <1>10 DEF Context
    <2>4. final = Bytes(Seal(ChainAfter(data, j + 1), BlockAt(data, j + 2)), AesBlockSize)
      <3>1. Encrypted(next, Padded(rest)).out = Bytes(Seal(next.chain, Padded(rest)), AesBlockSize)
        BY <2>2, <2>3, EncryptedTyped
      <3> QED
        BY <3>1, <2>1, <1>8, <1>10, <1>14 DEF EncryptFinal
    <2>5. Seal(ChainAfter(data, j + 1), BlockAt(data, j + 2)) = SealedAt(data, j + 2)
      <3>1. j + 1 \in Nat /\ (j + 1) + 1 = j + 2
        BY <1>8
      <3> QED
        BY <3>1, <1>1, SealsNextBlock
    <2>6. output' = Beginning(data, q + 1)
      <3>1. j + 1 \in Nat /\ (j + 1) + 1 = q + 1
        BY <2>1, <1>8
      <3>2. Beginning(data, j + 1) \o Bytes(SealedAt(data, (j + 1) + 1), AesBlockSize)
              = Beginning(data, (j + 1) + 1)
        BY <3>1, BeginningGrows
      <3>3. (j + 1) + 1 = j + 2
        BY <1>8
      <3> HIDE DEF final
      <3>4. output' = Beginning(data, j + 1) \o final
        BY <1>7, <1>11
      <3> QED
        BY <3>1, <3>2, <3>3, <3>4, <2>4, <2>5
    <2>7. Len(data) >= AesBlockSize
      <3>1. Len(data) = q * AesBlockSize + (Len(data) % AesBlockSize)
            /\ Len(data) % AesBlockSize \in 0..(AesBlockSize - 1)
        BY <1>1, <1>2, DivisionWithRest
      <3>2. q \in Nat \ {0}
        BY <2>1, <1>2
      <3>3. q * AesBlockSize >= AesBlockSize /\ q * AesBlockSize \in Nat
        BY <3>2
      <3> QED
        BY <3>1, <3>3
    <2>8. output' = WholeCipher'
      BY <2>6, <2>7, <1>1, <1>13, <1>2, ImageIsBeginning DEF WholeCipher
    <2>9. pc' = "crypt" /\ status' = "none" /\ extra' = Len(data') % AesBlockSize /\ count' = 0
          /\ 0 <= BlocksIn(Len(data'))
      BY <1>1, <1>6, <1>7, <1>2, <1>14 DEF q
    <2> QED
      BY <2>8, <2>9 DEF Written
  <1>15. CASE count > 1
    <2>1. ~Last
      BY <1>15 DEF Last
    <2>2. output' = Beginning(data, j + 1)
      BY <1>7, <1>11, <1>12, <2>1, ConcatEmptySeq
    <2>3. ctx'.chain = ChainAfter(data, j + 1)
      BY <1>7, <1>10
    <2>4. pc' = "crypt" /\ status' = "none" /\ extra' = Len(data') % AesBlockSize
      BY <1>1, <1>6, <1>7
    <2>5. count' > 0 /\ count' <= q /\ q - count' = j + 1
      BY <1>1, <1>7, <1>2, <1>3, <1>5, <1>15
    <2>6. BlocksIn(Len(data'))  = q
      BY <1>7 DEF q
    <2> QED
      BY <2>2, <2>3, <2>4, <2>5, <2>6, <1>13 DEF Written
  <1> QED
    BY <1>1, <1>14, <1>15

LEMMA EncryptWrites == ASSUME Inv, Encrypt PROVE Written'
  <1> USE CryptoAssumption
  <1> DEFINE n == Len(text)
  <1>1. [job EXCEPT !.do_encrypt = TRUE] \in Job /\ [job EXCEPT !.do_encrypt = TRUE].scheme = job.scheme
        /\ [job EXCEPT !.do_encrypt = TRUE].do_encrypt
    BY JobTyped DEF Inv, FieldsOK
  <1>2. /\ job' \in Job /\ job'.do_encrypt /\ job'.scheme = job.scheme
        /\ pc' = IF job.scheme = "sm2" THEN "sm2" ELSE "crypt"
        /\ data' = text /\ output' = <<>> /\ status' = "none"
        /\ job.scheme # "sm2" => count' = BlocksIn(n) /\ extra' = n % AesBlockSize
        /\ ctx'.chain = Start(job')
    BY <1>1 DEF Encrypt, Begin
  <1>3. n \in Nat /\ BlocksIn(n) \in Nat
    BY LenProperties, DivisionWithRest DEF BlocksIn, Inv, FieldsOK
  <1>4. SUFFICES ASSUME job'.scheme # "sm2" PROVE Written'
    BY DEF Written
  <1>5. Beginning(data, 0)' = <<>>
    BY DEF Beginning
  <1>6. ChainAfter(data, 0)' = Start(job')
    <2>1. Origin' = Start(job').iv
      <3>1. [job' EXCEPT !.do_encrypt = TRUE].iv = job'.iv
        BY <1>2 DEF Job
      <3> QED
        BY <3>1 DEF Origin, Start
    <2>2. ChainAfter(data, 0)' = [iv |-> Origin', blocks |-> <<>>]
      BY DEF ChainAfter
    <2> QED
      BY <2>1, <2>2 DEF Start
  <1>7. BlocksIn(n) = 0 => n < AesBlockSize
    <2>1. n = (n \div AesBlockSize) * AesBlockSize + (n % AesBlockSize)
          /\ n % AesBlockSize \in 0..(AesBlockSize - 1)
      BY <1>3, DivisionWithRest
    <2>2. n \div AesBlockSize = 0 => (n \div AesBlockSize) * AesBlockSize = 0
      BY SMT
    <2> QED
      BY <2>1, <2>2 DEF BlocksIn
  <1>8. BlocksIn(n) = 0 => WholeCipher' = <<>>
    BY <1>2, <1>3, <1>7 DEF WholeCipher
  <1>9. pc' = "crypt" /\ extra' = Len(data') % AesBlockSize /\ count' = BlocksIn(Len(data'))
    BY <1>2, <1>4
  <1>10. \A j \in Nat : j = BlocksIn(Len(data')) - count' =>
           output' = Beginning(data, j)' /\ ctx'.chain = ChainAfter(data, j)'
    BY <1>2, <1>3, <1>5, <1>6, <1>9
  <1> QED
    BY <1>2, <1>3, <1>8, <1>9, <1>10 DEF Written

LEMMA WrittenInit == Init => Written
  <1> SUFFICES ASSUME Init PROVE Written
    OBVIOUS
  <1>1. Len(data) = 0 /\ output = <<>> /\ pc = "idle"
    BY DEF Init
  <1> QED
    BY <1>1, CryptoAssumption DEF Written, WholeCipher

LEMMA WrittenStep == Inv /\ Written /\ [Next]_vars => Written'
  <1> SUFFICES ASSUME Inv, Written, [Next]_vars PROVE Written'
    OBVIOUS
  <1>1. CASE CryptReturn
    <2>1. data' = data /\ job' = job /\ pc' = "idle" /\ pc = "crypt" /\ count = 0 /\ output' = output
      BY <1>1 DEF CryptReturn, Answer
    <2> QED
      BY <2>1, Frozen DEF Written
  <1>2. CASE Sm2Return \/ Sm2EncryptBlock
    BY <1>2 DEF Sm2Return, Sm2EncryptBlock, Inv, Measured, Written
  <1>3. CASE DecryptBlock \/ Sm2DecryptBlock
    BY <1>3 DEF DecryptBlock, Sm2DecryptBlock, Advance, Written
  <1>4. CASE Decrypt
    <2>1. ~job'.do_encrypt
      BY <1>4, JobTyped DEF Decrypt, Begin, Inv, FieldsOK
    <2> QED
      BY <2>1 DEF Written
  <1>5. CASE UNCHANGED vars
    BY <1>5, Frozen DEF vars, Written
  <1> QED
    BY <1>1, <1>2, <1>3, <1>4, <1>5, EncryptBlockWrites, EncryptWrites DEF Next

LEMMA BeginningIsInitialPart ==
  ASSUME NEW plain, NEW j \in Nat, NEW m \in Nat, j <= m
  PROVE  IsInitialPart(Beginning(plain, j), Beginning(plain, m))
  <1> USE CryptoAssumption
  <1> DEFINE S == {[of |-> SealedAt(plain, i), at |-> k] : i \in Nat, k \in Nat}
             a == j * AesBlockSize
             b == m * AesBlockSize
             s == Beginning(plain, j)
             t == Beginning(plain, m)
  <1>1. a \in Nat /\ b \in Nat /\ a <= b
    <2>1. \A x, y, z \in Nat : x <= y => x * z \in Nat /\ x * z <= y * z
      BY SMT
    <2> QED
      BY <2>1
  <1>2. \A k \in Nat \ {0} : (k - 1) \div AesBlockSize + 1 \in Nat /\ ((k - 1) % AesBlockSize) + 1 \in Nat
    BY DivisionWithRest
  <1> HIDE DEF a, b
  <1>3. s \in [1..a -> S]
    BY <1>1, <1>2 DEF Beginning, a
  <1>4. t \in [1..b -> S]
    BY <1>1, <1>2 DEF Beginning, b
  <1>5. \A k \in 1..a : s[k] = t[k]
    <2> TAKE k \in 1..a
    <2>1. k \in 1..b
      BY <1>1
    <2>2. s[k] = [of |-> SealedAt(plain, (k - 1) \div AesBlockSize + 1), at |-> ((k - 1) % AesBlockSize) + 1]
      BY DEF Beginning, a
    <2>3. t[k] = [of |-> SealedAt(plain, (k - 1) \div AesBlockSize + 1), at |-> ((k - 1) % AesBlockSize) + 1]
      BY <2>1 DEF Beginning, b
    <2> HIDE DEF s, t
    <2> QED
      BY <2>2, <2>3
  <1> HIDE DEF S, s, t
  <1>6. s \in Seq(S) /\ t \in Seq(S) /\ Len(s) = a /\ Len(t) = b
    BY <1>1, <1>3, <1>4, SeqDef
  <1>7. \A i \in 1..a : t[i] \in S
    BY <1>1, <1>4
  <1>8. SubSeq(t, 1, a) \in Seq(S) /\ Len(SubSeq(t, 1, a)) = a /\ \A k \in 1..a : SubSeq(t, 1, a)[k] = t[k]
    BY <1>1, <1>7, SubSeqProperties
  <1>9. s = SubSeq(t, 1, a)
    BY <1>5, <1>6, <1>8, SeqEqual
  <1> QED
    BY <1>1, <1>6, <1>9 DEF IsInitialPart, s, t

LEMMA WrittenIsImage == Inv /\ Written => CipherIsImage
  <1> SUFFICES ASSUME Inv, Written, job.do_encrypt, job.scheme # "sm2"
               PROVE  /\ Len(data) >= AesBlockSize => IsInitialPart(output, Image(data))
                      /\ status = "OK" => output = WholeCipher
    BY DEF CipherIsImage, WholeCipher
  <1> USE CryptoAssumption
  <1>1. data \in Seq(Plain) /\ Len(data) \in Nat /\ pc \in {"idle", "crypt"} /\ count \in Nat
    BY LenProperties DEF Inv, FieldsOK, Measured
  <1> DEFINE q == BlocksIn(Len(data))
  <1>2. q \in Nat /\ Image(data) = Beginning(data, q + 1)
    BY <1>1, DivisionWithRest, ImageIsBeginning DEF BlocksIn
  <1> HIDE DEF q
  <1>3. CASE output = WholeCipher
    <2>1. IsInitialPart(Image(data), Image(data))
      BY <1>2, BeginningIsInitialPart
    <2> QED
      BY <1>3, <2>1 DEF WholeCipher
  <1>4. CASE pc = "crypt" /\ count > 0
    <2>1. status = "none" /\ count <= q
      BY <1>4 DEF Written, q
    <2>2. q - count \in Nat /\ q - count <= q + 1
      BY <2>1, <1>1, <1>2
    <2>3. output = Beginning(data, q - count)
      BY <2>2, <1>4 DEF Written, q
    <2> QED
      BY <2>1, <2>2, <2>3, <1>2, BeginningIsInitialPart
  <1> QED
    BY <1>1, <1>3, <1>4 DEF Written

(* Cutting the text into blocks, encrypting one after the other and        *)
(* joining the rest to the last makes the cipher text of the whole text,   *)
(* for every block size, every length and every text.                      *)
THEOREM EncryptionMakesTheImage == Spec => []CipherIsImage
  <1>1. Init => Inv /\ Written
    BY InvInit, WrittenInit
  <1>2. Inv /\ Written /\ [Next]_vars => Inv' /\ Written'
    BY InvStep, WrittenStep
  <1> QED
    BY <1>1, <1>2, WrittenIsImage, PTL DEF Spec
--------------------------------------------------------------------------------
(* Decryption *)

(* The first k bytes of the text. *)
TextUpTo(k) == SubSeq(text, 1, k)

(* What a decryption that has ended must have left. *)
Outcome ==
  /\ IsInitialPart(output, text)
  /\ Len(text) >= AesBlockSize /\ data = Image(text) => status # "INTERNAL" /\ output = text

(* After j blocks the last one is held back, and the ones before it are    *)
(* written: they are text, since only the last turn reads the padding.     *)
HoldsBack(j) ==
  /\ ctx.chain = ChainAfter(text, j)
  /\ ctx.buf = IF j = 0 THEN <<>> ELSE BlockAt(text, j)
  /\ output = IF j = 0 THEN <<>> ELSE TextUpTo((j - 1) * AesBlockSize)

(* The client's text is what was encrypted last, and the cipher text that  *)
(* is decrypted is a beginning of its image.                               *)
Restored ==
  job.scheme # "sm2" =>
    /\ job.do_encrypt /\ (pc # "idle" \/ status = "OK") => data = text
    /\ ~job.do_encrypt =>
         /\ IsInitialPart(data, Image(text))
         /\ pc = "idle" => Outcome
         /\ pc = "crypt" =>
              /\ status = "none"
              /\ extra = Len(data) % AesBlockSize
              /\ count <= BlocksIn(Len(data))
              /\ count = 0 => Outcome
              /\ count > 0 => HoldsBack(BlocksIn(Len(data)) - count)

LEMMA TextIsPlain ==
  ASSUME Inv
  PROVE  text \in Seq(Plain) /\ Len(text) \in Nat /\ \A i \in 1..Len(text) : text[i] \in Plain
  <1>1. text \in Seq(Plain)
    BY SeqMonotonic DEF Inv, FieldsOK, Plain
  <1> QED
    BY <1>1, LenProperties, ElementOfSeq

LEMMA TextUpToProperties ==
  ASSUME Inv, NEW k \in 0..Len(text)
  PROVE  /\ TextUpTo(k) \in Seq(Plain)
         /\ Len(TextUpTo(k)) = k
         /\ \A i \in 1..k : TextUpTo(k)[i] = text[i]
         /\ IsInitialPart(TextUpTo(k), text)
  <1>1. Len(text) \in Nat /\ \A i \in 1..k : text[i] \in Plain
    BY TextIsPlain
  <1>2. /\ SubSeq(text, 1, k) \in Seq(Plain)
        /\ Len(SubSeq(text, 1, k)) = k
        /\ \A i \in 1..k : SubSeq(text, 1, k)[i] = text[i]
    BY <1>1, SubSeqProperties
  <1> QED
    BY <1>1, <1>2 DEF TextUpTo, IsInitialPart

LEMMA ExtendsText ==
  ASSUME Inv, NEW k \in Nat, NEW n \in Nat, k + n <= Len(text),
         NEW b \in Seq(Plain), Len(b) = n, \A i \in 1..n : b[i] = text[k + i]
  PROVE  TextUpTo(k) \o b = TextUpTo(k + n)
  <1>1. Len(text) \in Nat /\ k \in 0..Len(text) /\ k + n \in 0..Len(text)
    BY TextIsPlain
  <1>2. /\ TextUpTo(k) \in Seq(Plain) /\ Len(TextUpTo(k)) = k
        /\ \A i \in 1..k : TextUpTo(k)[i] = text[i]
    BY <1>1, TextUpToProperties
  <1>3. /\ TextUpTo(k + n) \in Seq(Plain) /\ Len(TextUpTo(k + n)) = k + n
        /\ \A i \in 1..(k + n) : TextUpTo(k + n)[i] = text[i]
    BY <1>1, TextUpToProperties
  <1>4. /\ TextUpTo(k) \o b \in Seq(Plain) /\ Len(TextUpTo(k) \o b) = k + n
        /\ \A i \in 1..(k + n) : (TextUpTo(k) \o b)[i] = IF i <= k THEN TextUpTo(k)[i] ELSE b[i - k]
    BY <1>2, ConcatProperties
  <1>5. \A i \in 1..(k + n) : (TextUpTo(k) \o b)[i] = TextUpTo(k + n)[i]
    <2> TAKE i \in 1..(k + n)
    <2>1. CASE i <= k
      BY <1>2, <1>3, <1>4, <2>1
    <2>2. CASE i > k
      <3>1. i - k \in 1..n /\ k + (i - k) = i
        BY <2>2
      <3>2. b[i - k] = text[i]
        BY <3>1
      <3> QED
        BY <1>3, <1>4, <2>2, <3>2
    <2>3. i <= k \/ i > k
      OBVIOUS
    <2> QED
      BY <2>1, <2>2, <2>3
  <1> QED
    BY <1>3, <1>4, <1>5, SeqEqual

LEMMA TextUpToEnds ==
  ASSUME Inv
  PROVE  TextUpTo(0) = <<>> /\ TextUpTo(Len(text)) = text
  <1>1. Len(text) \in Nat /\ text \in Seq(Plain)
    BY TextIsPlain
  <1>2. TextUpTo(0) \in Seq(Plain) /\ Len(TextUpTo(0)) = 0
    BY <1>1, TextUpToProperties
  <1>3. /\ TextUpTo(Len(text)) \in Seq(Plain) /\ Len(TextUpTo(Len(text))) = Len(text)
        /\ \A i \in 1..Len(text) : TextUpTo(Len(text))[i] = text[i]
    BY <1>1, TextUpToProperties
  <1>4. TextUpTo(0) = <<>>
    BY <1>2, EmptySeq
  <1>5. TextUpTo(Len(text)) = text
    BY <1>1, <1>3, SeqEqual
  <1> QED
    BY <1>4, <1>5

LEMMA ImageProperties ==
  ASSUME NEW plain \in Seq(Plain)
  PROVE  /\ Len(Image(plain)) = (Len(plain) \div AesBlockSize + 1) * AesBlockSize
         /\ Len(Image(plain)) \in Nat
         /\ \E S : Image(plain) \in Seq(S)
         /\ \A k \in 1..Len(Image(plain)) :
              Image(plain)[k] = [of |-> SealedAt(plain, (k - 1) \div AesBlockSize + 1),
                                 at |-> ((k - 1) % AesBlockSize) + 1]
  <1> USE CryptoAssumption
  <1> DEFINE n == (Len(plain) \div AesBlockSize + 1) * AesBlockSize
             S == {[of |-> SealedAt(plain, i), at |-> k] : i \in Nat, k \in Nat}
  <1>1. n \in Nat
    <2>1. Len(plain) \div AesBlockSize + 1 \in Nat
      <3>1. Len(plain) \in Nat
        BY LenProperties
      <3>2. Len(plain) \div AesBlockSize \in Nat
        BY <3>1, DivisionWithRest
      <3> QED
        BY <3>2
    <2> HIDE DEF n
    <2>2. \A x, y \in Nat : x * y \in Nat
      BY SMT
    <2> QED
      BY <2>1, <2>2 DEF n
  <1>2. Len(PaddedText(plain)) = n
    BY PaddedTextProperties
  <1> HIDE DEF n
  <1>3. \A k \in Nat \ {0} : (k - 1) \div AesBlockSize + 1 \in Nat /\ ((k - 1) % AesBlockSize) + 1 \in Nat
    BY DivisionWithRest
  <1>4. Image(plain) = [k \in 1..n |->
          [of |-> SealedAt(plain, (k - 1) \div AesBlockSize + 1), at |-> ((k - 1) % AesBlockSize) + 1]]
    BY <1>2 DEF Image
  <1>5. Image(plain) \in [1..n -> S]
    BY <1>1, <1>3, <1>4
  <1> HIDE DEF S
  <1>6. Len(Image(plain)) = n /\ Image(plain) \in Seq(S)
    BY <1>1, <1>5, SeqDef
  <1> QED
    BY <1>1, <1>4, <1>6 DEF n

(* A turn reads a whole block of the cipher text, the next one. *)
LEMMA DecryptionReads ==
  ASSUME Inv, Restored, pc = "crypt", ~job.do_encrypt, count > 0,
         NEW j, j = BlocksIn(Len(data)) - count
  PROVE  /\ j \in Nat
         /\ j <= Len(text) \div AesBlockSize
         /\ j * AesBlockSize <= Len(text)
         /\ InSize = AesBlockSize
         /\ Read(InSize) \in Seq(CipherByte) /\ Len(Read(InSize)) = AesBlockSize
         /\ Read(InSize) = Bytes(SealedAt(text, j + 1), AesBlockSize)
         /\ count = 1 /\ data = Image(text) => j = Len(text) \div AesBlockSize
  <1> USE CryptoAssumption
  <1> DEFINE q == BlocksIn(Len(data))
             t == Len(text) \div AesBlockSize
             m == j * AesBlockSize
             in == Read(InSize)
             I == Image(text)
  <1>1. /\ job.scheme # "sm2" /\ data \in Seq(CipherByte) /\ Len(data) \in Nat
        /\ position \in 0..Len(data) /\ count \in Nat /\ extra \in 0..(AesBlockSize - 1)
        /\ Len(data) = position + count * AesBlockSize + extra
    BY LenProperties DEF Inv, FieldsOK, Measured
  <1>2. count <= q /\ extra = Len(data) % AesBlockSize /\ IsInitialPart(data, I)
    BY <1>1 DEF Restored
  <1>3. q \in Nat /\ Len(data) = q * AesBlockSize + extra
    <2>1. /\ Len(data) \div AesBlockSize \in Nat
          /\ Len(data) = (Len(data) \div AesBlockSize) * AesBlockSize + (Len(data) % AesBlockSize)
      BY <1>1, DivisionWithRest
    <2> QED
      BY <2>1, <1>2 DEF BlocksIn
  <1> HIDE DEF q
  <1>4. j \in Nat /\ q = j + count /\ count \in Nat \ {0}
    <2>1. j = q - count
      BY DEF q
    <2> QED
      BY <2>1, <1>1, <1>2, <1>3
  <1>5. m \in Nat /\ m + AesBlockSize <= Len(data) /\ position = m
    <2>1. \A x, y, z \in Nat : (x + y) * z = x * z + y * z /\ x * z \in Nat
      BY SMT
    <2>2. \A y, z \in Nat : y > 0 => y * z >= z
      BY SMT
    <2>3. /\ m \in Nat /\ count * AesBlockSize \in Nat /\ q * AesBlockSize = m + count * AesBlockSize
          /\ count * AesBlockSize >= AesBlockSize
      BY <2>1, <2>2, <1>4
    <2> QED
      BY <2>3, <1>1, <1>3
  <1>6. InSize = AesBlockSize
    BY DEF InSize
  <1>7. in \in Seq(CipherByte) /\ Len(in) = AesBlockSize
        /\ \A i \in 1..AesBlockSize : in[i] = data[position + i]
    BY <1>1, <1>6, ReadsWhatItAsksFor DEF Inv
  <1>8. t \in Nat /\ Len(I) = (t + 1) * AesBlockSize /\ Len(I) \in Nat
        /\ Len(text) = t * AesBlockSize + (Len(text) % AesBlockSize)
        /\ Len(text) % AesBlockSize \in 0..(AesBlockSize - 1)
    BY TextIsPlain, ImageProperties, DivisionWithRest
  <1>9. Len(data) <= Len(I) /\ \A k \in 1..Len(data) : data[k] = I[k]
    <2>1. Len(data) <= Len(I) /\ data = SubSeq(I, 1, Len(data))
      BY <1>2 DEF IsInitialPart
    <2>2. PICK S : I \in Seq(S)
      BY TextIsPlain, ImageProperties
    <2> HIDE DEF I
    <2>3. \A k \in 1..Len(data) : I[k] \in S
      BY <1>1, <1>8, <2>1, <2>2, ElementOfSeq
    <2>4. \A k \in 1..Len(data) : SubSeq(I, 1, Len(data))[k] = I[k]
      BY <1>1, <2>3, SubSeqProperties
    <2> QED
      BY <2>1, <2>4
  <1> HIDE DEF I, in
  <1>10. j <= t /\ m <= Len(text)
    <2>1. \A x, y, z \in Nat : z > 0 /\ x * z + z <= (y + 1) * z => x <= y
      BY SMT
    <2>2. m + AesBlockSize <= (t + 1) * AesBlockSize
      <3> DEFINE e == (t + 1) * AesBlockSize
      <3>1. Len(I) = e
        BY <1>8
      <3> HIDE DEF e, m
      <3> QED
        BY <3>1, <1>1, <1>5, <1>8, <1>9 DEF e
    <2>3. j <= t
      BY <1>4, <1>8, <2>1, <2>2
    <2>4. \A x, y, z \in Nat : x <= y => x * z <= y * z /\ y * z \in Nat
      BY SMT
    <2>5. m <= t * AesBlockSize /\ t * AesBlockSize \in Nat
      BY <2>3, <2>4, <1>4, <1>8
    <2> QED
      BY <2>3, <2>5, <1>5, <1>8
  <1>11. in = Bytes(SealedAt(text, j + 1), AesBlockSize)
    <2>1. \A i \in 1..AesBlockSize : in[i] = [of |-> SealedAt(text, j + 1), at |-> i]
      <3> TAKE i \in 1..AesBlockSize
      <3>1. m + i \in 1..Len(data) /\ m + i \in 1..Len(I)
        <4> HIDE DEF m
        <4>1. m \in Nat /\ m + AesBlockSize <= Len(data) /\ Len(data) \in Nat
              /\ Len(data) <= Len(I) /\ Len(I) \in Nat
          BY <1>1, <1>5, <1>8, <1>9 DEF I
        <4> QED
          BY <4>1
      <3>2. ((m + i) - 1) \div AesBlockSize = j /\ ((m + i) - 1) % AesBlockSize = i - 1
        <4>1. i - 1 \in 0..(AesBlockSize - 1) /\ (m + i) - 1 = j * AesBlockSize + (i - 1)
          BY <1>5
        <4>2. (j * AesBlockSize + (i - 1)) \div AesBlockSize = j
              /\ (j * AesBlockSize + (i - 1)) % AesBlockSize = i - 1
          BY <4>1, <1>4, DivisionUnique
        <4> HIDE DEF m
        <4> QED
          BY <4>1, <4>2
      <3>3. I[m + i] = [of |-> SealedAt(text, ((m + i) - 1) \div AesBlockSize + 1),
                        at |-> (((m + i) - 1) % AesBlockSize) + 1]
        BY <3>1, TextIsPlain, ImageProperties DEF I
      <3>4. (i - 1) + 1 = i
        OBVIOUS
      <3>5. in[i] = I[m + i]
        BY <1>5, <1>7, <1>9, <3>1
      <3> QED
        BY <3>2, <3>3, <3>4, <3>5
    <2>2. in = [i \in 1..AesBlockSize |-> in[i]]
      BY <1>7
    <2> QED
      BY <2>1, <2>2 DEF Bytes
  <1>12. ASSUME count = 1, data = I PROVE j = t
    <2>1. q = j + 1 /\ Len(data) = (t + 1) * AesBlockSize
      BY <1>4, <1>8, <1>12 DEF I
    <2>2. (j + 1) * AesBlockSize = m + AesBlockSize
      BY <1>4, <1>5
    <2>3. m + AesBlockSize + extra = (t + 1) * AesBlockSize
      BY <2>1, <2>2, <1>3
    <2>4. (t + 1) \in Nat /\ (j + 1) \in Nat /\ (j + 1) * AesBlockSize + extra = (t + 1) * AesBlockSize + 0
      <3> DEFINE e == (t + 1) * AesBlockSize
                 f == (j + 1) * AesBlockSize
      <3>1. f = m + AesBlockSize /\ m + AesBlockSize + extra = e
        BY <2>2, <2>3
      <3>2. e = Len(data)
        BY <2>1
      <3> HIDE DEF e, f
      <3>3. f + extra = e /\ e + 0 = e
        BY <3>1, <3>2, <1>1
      <3>4. (t + 1) \in Nat /\ (j + 1) \in Nat
        BY <1>4, <1>8
      <3> QED
        BY <3>3, <3>4 DEF e, f
    <2>5. ((j + 1) * AesBlockSize + extra) \div AesBlockSize = j + 1
      BY <2>4, <1>1, DivisionUnique
    <2>6. ((t + 1) * AesBlockSize + 0) \div AesBlockSize = t + 1
      BY <2>4, DivisionUnique
    <2>7. (t + 1) * AesBlockSize \in Nat
      BY <1>8, <2>1, <1>1
    <2>8. j + 1 = t + 1
      <3> DEFINE e == (t + 1) * AesBlockSize
                 f == (j + 1) * AesBlockSize
      <3> HIDE DEF e, f
      <3>1. e + 0 = e /\ f + extra = e /\ e \in Nat
        BY <2>4, <2>7 DEF e, f
      <3>2. (f + extra) \div AesBlockSize = j + 1 /\ (e + 0) \div AesBlockSize = t + 1
        BY <2>5, <2>6 DEF e, f
      <3> QED
        BY <3>1, <3>2
    <2> QED
      BY <2>8, <1>4, <1>8
  <1> QED
    BY <1>4, <1>5, <1>6, <1>7, <1>10, <1>11, <1>12 DEF in, I

(* What a block of cipher text was made of is its newest block. *)
LEMMA NewestOfSealed ==
  ASSUME job.scheme \in {"ecb", "cbc"}, NEW plain, NEW j \in Nat
  PROVE  Newest(SealedAt(plain, j + 1)) = BlockAt(plain, j + 1)
  <1> DEFINE S == {BlockAt(plain, h) : h \in Nat}
             more == [h \in 1..j + 1 |-> BlockAt(plain, h)]
  <1>1. CASE job.scheme = "ecb"
    BY <1>1 DEF SealedAt, Newest
  <1>2. CASE job.scheme = "cbc"
    <2>1. more \in [1..j + 1 -> S] /\ j + 1 \in Nat
      OBVIOUS
    <2>2. Len(more) = j + 1
      BY <2>1, SeqDef
    <2>3. SealedAt(plain, j + 1).blocks = more
      BY <1>2 DEF SealedAt
    <2>4. more[j + 1] = BlockAt(plain, j + 1)
      OBVIOUS
    <2> HIDE DEF more
    <2> QED
      BY <2>2, <2>3, <2>4 DEF Newest
  <1> QED
    BY <1>1, <1>2

(* A turn of the decryption: the block held back is written, the next one  *)
(* is held back.                                                           *)
LEMMA DecryptsNextBlock ==
  ASSUME Inv, Restored, pc = "crypt", ~job.do_encrypt, count > 0,
         NEW j, j = BlocksIn(Len(data)) - count
  PROVE  LET u == DecryptUpdate(ctx, Read(InSize))
         IN  /\ u.ctx.buf = BlockAt(text, j + 1)
             /\ u.ctx.chain = ChainAfter(text, j + 1)
             /\ output \o u.out = TextUpTo(j * AesBlockSize)
  <1> USE CryptoAssumption
  <1> DEFINE in == Read(InSize)
             sealed == SealedAt(text, j + 1)
             u == DecryptUpdate(ctx, in)
  <1>1. /\ j \in Nat /\ j <= Len(text) \div AesBlockSize
        /\ j * AesBlockSize \in Nat /\ j * AesBlockSize <= Len(text)
        /\ in = Bytes(sealed, AesBlockSize)
    BY DecryptionReads
  <1>2. job.scheme \in {"ecb", "cbc"} /\ HoldsBack(j)
    BY DEF Restored, Inv, FieldsOK, Measured, Job
  <1>3. text \in Seq(Plain) /\ Len(text) \in Nat
    BY TextIsPlain
  <1> HIDE DEF in, sealed
  <1>4. Whole(in, AesBlockSize) /\ in[1].of = sealed
    <2>1. 1 \in 1..AesBlockSize
      OBVIOUS
    <2>2. in[1].of = sealed
      BY <1>1, <2>1 DEF Bytes
    <2>3. in # <<>>
      BY <1>1, <2>1 DEF Bytes
    <2> QED
      BY <1>1, <2>2, <2>3 DEF Whole
  <1>5. Newest(sealed) = BlockAt(text, j + 1)
    BY <1>1, <1>2, NewestOfSealed DEF sealed
  <1>6. /\ Seal(ctx.chain, BlockAt(text, j + 1)) = sealed
        /\ Chained(ctx.chain, sealed) = ChainAfter(text, j + 1)
    BY <1>1, <1>2, SealsNextBlock DEF sealed, HoldsBack
  <1>7. u.ctx.buf = BlockAt(text, j + 1) /\ u.ctx.chain = ChainAfter(text, j + 1) /\ u.out = ctx.buf
    BY <1>4, <1>5, <1>6 DEF DecryptUpdate, Decrypted
  <1>8. output \o ctx.buf = TextUpTo(j * AesBlockSize)
    <2>1. CASE j = 0
      <3>1. output = <<>> /\ ctx.buf = <<>>
        BY <1>2, <2>1 DEF HoldsBack
      <3>2. j * AesBlockSize = 0
        BY <2>1
      <3> QED
        BY <3>1, <3>2, TextUpToEnds
    <2>2. CASE j > 0
      <3> DEFINE k == (j - 1) * AesBlockSize
                 b == BlockAt(text, j)
      <3>1. output = TextUpTo(k) /\ ctx.buf = b
        BY <1>2, <2>2 DEF HoldsBack
      <3>2. j - 1 \in Nat /\ j - 1 <= Len(text) \div AesBlockSize /\ (j - 1) + 1 = j
        <4>1. Len(text) \div AesBlockSize \in Nat
          BY <1>3, DivisionWithRest
        <4> QED
          BY <1>1, <2>2, <4>1
      <3>3. k \in Nat /\ k + AesBlockSize = j * AesBlockSize
        BY <3>2
      <3>4. /\ b \in Seq(Plain) /\ Len(b) = AesBlockSize
            /\ \A i \in 1..AesBlockSize :
                 b[i] = IF k + i <= Len(text) THEN text[k + i]
                        ELSE AesBlockSize - (Len(text) % AesBlockSize)
        BY <3>2, <1>3, BlockAtProperties
      <3> HIDE DEF b, k
      <3>5. \A i \in 1..AesBlockSize : b[i] = text[k + i]
        <4> TAKE i \in 1..AesBlockSize
        <4> DEFINE e == j * AesBlockSize
        <4>1. e \in Nat /\ e <= Len(text) /\ k + AesBlockSize = e
          BY <3>3, <1>1
        <4> HIDE DEF e
        <4>2. k + i <= Len(text)
          BY <3>3, <4>1, <1>3
        <4> QED
          BY <3>4, <4>2
      <3>6. k + AesBlockSize <= Len(text)
        BY <3>3, <1>1
      <3>7. TextUpTo(k) \o b = TextUpTo(k + AesBlockSize)
        BY <3>3, <3>4, <3>5, <3>6, ExtendsText
      <3> QED
        BY <3>1, <3>3, <3>7
    <2> QED
      BY <1>1, <2>1, <2>2
  <1> HIDE DEF u
  <1> QED
    BY <1>7, <1>8 DEF u, in

(* The last block of the text has good padding, and taking it off leaves   *)
(* the rest of the text; of a block in the middle that happens to end like *)
(* padding, what is left is still text.                                    *)
LEMMA TakesOffPadding ==
  ASSUME Inv, NEW j \in Nat, j <= Len(text) \div AesBlockSize,
         j * AesBlockSize <= Len(text),
         NEW c, c.buf = BlockAt(text, j + 1)
  PROVE  /\ j = Len(text) \div AesBlockSize =>
              GoodPadding(c.buf) /\ TextUpTo(j * AesBlockSize) \o DecryptFinal(c) = text
         /\ GoodPadding(c.buf) =>
              IsInitialPart(TextUpTo(j * AesBlockSize) \o DecryptFinal(c), text)
  <1> USE CryptoAssumption
  <1> DEFINE t == Len(text) \div AesBlockSize
             r == Len(text) % AesBlockSize
             k == j * AesBlockSize
             b == BlockAt(text, j + 1)
             n == b[AesBlockSize]
  <1>1. text \in Seq(Plain) /\ Len(text) \in Nat
    BY TextIsPlain
  <1>2. t \in Nat /\ r \in 0..(AesBlockSize - 1) /\ Len(text) = t * AesBlockSize + r
    BY <1>1, DivisionWithRest
  <1>3. /\ b \in Seq(Plain) /\ Len(b) = AesBlockSize
        /\ \A i \in 1..AesBlockSize :
             b[i] = IF k + i <= Len(text) THEN text[k + i] ELSE AesBlockSize - r
    BY <1>1, BlockAtProperties
  <1>4. k \in Nat /\ k <= Len(text)
    BY <1>1
  <1>5. \A i \in 1..AesBlockSize : b[i] \in Plain
    BY <1>3, ElementOfSeq
  <1>6. ASSUME NEW m \in 0..AesBlockSize, k + m <= Len(text)
        PROVE  TextUpTo(k) \o SubSeq(b, 1, m) = TextUpTo(k + m)
    <2> HIDE DEF b, k
    <2>1. /\ SubSeq(b, 1, m) \in Seq(Plain) /\ Len(SubSeq(b, 1, m)) = m
          /\ \A i \in 1..m : SubSeq(b, 1, m)[i] = b[i]
      BY <1>3, <1>5, SubSeqProperties
    <2>2. \A i \in 1..m : b[i] = text[k + i]
      <3> TAKE i \in 1..m
      <3>1. i \in 1..AesBlockSize /\ k + i <= Len(text)
        BY <1>1, <1>4, <1>6
      <3> QED
        BY <1>3, <3>1
    <2>3. \A i \in 1..m : SubSeq(b, 1, m)[i] = text[k + i]
      BY <2>1, <2>2
    <2>4. m \in Nat
      OBVIOUS
    <2> QED
      BY <1>4, <1>6, <2>1, <2>3, <2>4, ExtendsText
  <1>7. ASSUME j = t PROVE GoodPadding(b) /\ n = AesBlockSize - r
    <2>1. k + r = Len(text)
      BY <1>2, <1>7
    <2>0. r \in 0..(AesBlockSize - 1)
      BY <1>2
    <2> HIDE DEF b, k, r
    <2>2. \A i \in r + 1 .. AesBlockSize : b[i] = AesBlockSize - r
      <3> TAKE i \in r + 1 .. AesBlockSize
      <3>1. i \in 1..AesBlockSize /\ ~(k + i <= Len(text))
        BY <2>0, <2>1, <1>1, <1>4
      <3> QED
        BY <3>1, <1>3
    <2>3. AesBlockSize \in r + 1 .. AesBlockSize
      BY <1>2
    <2>4. n = AesBlockSize - r /\ b # <<>>
      BY <2>2, <2>3, <1>3
    <2>5. AesBlockSize - n + 1 = r + 1 /\ n \in 1..AesBlockSize
      BY <2>4, <1>2
    <2> QED
      BY <2>2, <2>4, <2>5 DEF GoodPadding
  <1>8. ASSUME GoodPadding(b)
        PROVE  AesBlockSize - n \in 0..(AesBlockSize - 1)
    BY <1>8 DEF GoodPadding
  <1>9. DecryptFinal(c) = SubSeq(b, 1, AesBlockSize - n)
    BY DEF DecryptFinal
  <1>10. CASE j = t
    <2>1. GoodPadding(b) /\ AesBlockSize - n = r /\ k + r = Len(text)
      BY <1>2, <1>7, <1>10
    <2>2. TextUpTo(k) \o SubSeq(b, 1, r) = text
      <3> HIDE DEF b, k, r
      <3>1. r \in 0..AesBlockSize /\ k + r <= Len(text)
        <4>1. r \in 0..AesBlockSize
          BY <1>1, <1>2
        <4>2. Len(text) \in Nat
          BY <1>1
        <4> QED
          BY <2>1, <4>1, <4>2
      <3>2. TextUpTo(k) \o SubSeq(b, 1, r) = TextUpTo(k + r)
        BY <3>1, <1>6
      <3> QED
        BY <3>2, <2>1, TextUpToEnds
    <2>3. IsInitialPart(text, text)
      BY <1>1, TextUpToProperties, TextUpToEnds
    <2> HIDE DEF b, k, n
    <2>4. TextUpTo(k) \o DecryptFinal(c) = text
      BY <1>9, <2>1, <2>2
    <2> QED
      BY <2>1, <2>3, <2>4 DEF b, k
  <1>11. CASE j < t
    <2>1. k + AesBlockSize <= Len(text)
      <3>1. (j + 1) * AesBlockSize = k + AesBlockSize
        OBVIOUS
      <3>2. \A x, y, z \in Nat : x <= y => x * z <= y * z
        BY SMT
      <3>3. (j + 1) * AesBlockSize <= t * AesBlockSize /\ t * AesBlockSize \in Nat
        BY <3>2, <1>2, <1>11
      <3> QED
        BY <3>1, <3>3, <1>1, <1>2
    <2> SUFFICES ASSUME GoodPadding(b)
                 PROVE  IsInitialPart(TextUpTo(k) \o DecryptFinal(c), text)
      BY <1>2, <1>11
    <2> DEFINE m == AesBlockSize - n
    <2>2. m \in 0..AesBlockSize
      BY <1>8
    <2> HIDE DEF b, k, n, m
    <2>3. k + m <= Len(text) /\ k + m \in 0..Len(text)
      BY <1>1, <1>4, <2>1, <2>2
    <2>4. TextUpTo(k) \o SubSeq(b, 1, m) = TextUpTo(k + m)
      BY <1>6, <2>2, <2>3
    <2> QED
      BY <2>3, <2>4, <1>9, TextUpToProperties DEF m
  <1> QED
    BY <1>2, <1>10, <1>11

(* What is said of the text stays true as long as only do_encrypt changes. *)
LEMMA SameText ==
  ASSUME job \in Job, text' = text, NEW b, job' = [job EXCEPT !.do_encrypt = b]
  PROVE  /\ Image(text)' = Image(text)
         /\ \A j : ChainAfter(text, j)' = ChainAfter(text, j)
         /\ \A k : TextUpTo(k)' = TextUpTo(k)
         /\ \A j : BlockAt(text, j)' = BlockAt(text, j)
         /\ job'.scheme = job.scheme
  <1>1. job'.scheme = job.scheme /\ job'.iv = job.iv /\ [job' EXCEPT !.do_encrypt = TRUE].iv = job.iv
        /\ [job EXCEPT !.do_encrypt = TRUE].iv = job.iv
    BY DEF Job
  <1>2. Origin' = Origin
    BY <1>1 DEF Origin, Start
  <1>3. \A i : SealedAt(text, i)' = SealedAt(text, i)
    BY <1>1, <1>2 DEF SealedAt
  <1>4. Image(text)' = Image(text)
    BY <1>3 DEF Image
  <1>5. \A j : ChainAfter(text, j)' = ChainAfter(text, j)
    BY <1>1, <1>2 DEF ChainAfter
  <1> QED
    BY <1>1, <1>4, <1>5 DEF TextUpTo

LEMMA SameJob ==
  ASSUME job \in Job, text' = text, job' = job
  PROVE  /\ Image(text)' = Image(text)
         /\ \A j : ChainAfter(text, j)' = ChainAfter(text, j)
  <1>1. job = [job EXCEPT !.do_encrypt = job.do_encrypt]
    BY DEF Job
  <1> QED
    BY <1>1, SameText

LEMMA RestoredInit == Init => Restored
  BY DEF Init, Restored

LEMMA DecryptRestores == ASSUME Inv, Written, Restored, Decrypt PROVE Restored'
  <1> USE CryptoAssumption
  <1> SUFFICES ASSUME job'.scheme # "sm2" PROVE Restored'
    BY DEF Restored
  <1>1. /\ job \in Job /\ job.do_encrypt /\ status = "OK" /\ pc = "idle" /\ text' = text
        /\ job' = [job EXCEPT !.do_encrypt = FALSE]
    BY DEF Decrypt, Begin, Inv, FieldsOK
  <1>2. job'.scheme = job.scheme /\ job.scheme # "sm2" /\ ~job'.do_encrypt /\ job' \in Job
    BY <1>1, SameText, JobTyped
  <1>3. data = text /\ output = WholeCipher /\ output \in Seq(CipherByte)
    BY <1>1, <1>2 DEF Written, Restored, Inv, FieldsOK
  <1>4. PICK n \in 0..Len(output) : Begin([job EXCEPT !.do_encrypt = FALSE], SubSeq(output, 1, n))
    BY DEF Decrypt
  <1>5. Len(output) \in Nat /\ \A i \in 1..n : output[i] \in CipherByte
    BY <1>3, LenProperties, ElementOfSeq
  <1>6. Len(SubSeq(output, 1, n)) = n /\ SubSeq(output, 1, n) \in Seq(CipherByte)
    BY <1>5, SubSeqProperties
  <1>7. /\ data' = SubSeq(output, 1, n) /\ pc' = "crypt" /\ status' = "none" /\ output' = <<>>
        /\ count' = BlocksIn(n) /\ extra' = n % AesBlockSize
        /\ ctx' = [chain |-> Start(job'), buf |-> <<>>]
    BY <1>1, <1>2, <1>4, <1>6 DEF Begin
  <1>8. Image(text)' = Image(text)
    BY <1>1, SameText
  <1>9. text \in Seq(Plain) /\ Len(text) \in Nat
    BY TextIsPlain
  <1>10. Len(Image(text)) \in Nat /\ Len(Image(text)) >= AesBlockSize
    <2>1. Len(text) \div AesBlockSize \in Nat
      BY <1>9, DivisionWithRest
    <2>2. \A y, z \in Nat : (y + 1) * z >= z /\ (y + 1) * z \in Nat
      BY SMT
    <2>3. (Len(text) \div AesBlockSize + 1) * AesBlockSize >= AesBlockSize
      BY <2>1, <2>2
    <2> QED
      BY <2>3, <1>9, ImageProperties
  <1>11. IsInitialPart(data', Image(text)')
    <2>1. CASE output = Image(text)
      BY <2>1, <1>5, <1>6, <1>7, <1>8 DEF IsInitialPart
    <2>2. CASE output = <<>>
      <3>1. n = 0 /\ data' = <<>>
        BY <2>2, <1>6, <1>7, EmptySeq
      <3>2. SubSeq(Image(text), 1, 0) = <<>>
        <4>1. PICK S : Image(text) \in Seq(S)
          BY <1>9, ImageProperties
        <4>2. SubSeq(Image(text), 1, 0) \in Seq(S) /\ Len(SubSeq(Image(text), 1, 0)) = 0
          BY <4>1, SubSeqProperties
        <4> QED
          BY <4>2, EmptySeq
      <3> QED
        BY <3>1, <3>2, <1>8, <1>10 DEF IsInitialPart
    <2> QED
      BY <2>1, <2>2, <1>3 DEF WholeCipher
  <1>12. n \in Nat /\ BlocksIn(n) \in Nat
    <2>1. n \in Nat
      BY <1>5
    <2> QED
      BY <2>1, DivisionWithRest DEF BlocksIn
  <1>13. count' = 0 => Outcome'
    <2> SUFFICES ASSUME BlocksIn(n) = 0 PROVE Outcome'
      BY <1>7
    <2>1. n < AesBlockSize
      <3>1. n = (n \div AesBlockSize) * AesBlockSize + (n % AesBlockSize)
            /\ n % AesBlockSize \in 0..(AesBlockSize - 1)
        BY <1>12, DivisionWithRest
      <3>2. (n \div AesBlockSize) * AesBlockSize = 0
        BY <1>12 DEF BlocksIn
      <3> QED
        BY <3>1, <3>2
    <2>2. data' # Image(text)'
      BY <2>1, <1>6, <1>7, <1>8, <1>10
    <2>3. IsInitialPart(<<>>, text)
      <3>1. TextUpTo(0) = <<>> /\ IsInitialPart(TextUpTo(0), text)
        BY <1>9, TextUpToEnds, TextUpToProperties
      <3> QED
        BY <3>1
    <2>4. IsInitialPart(output', text')
      BY <2>3, <1>1, <1>7
    <2> QED
      BY <2>2, <2>4 DEF Outcome
  <1>14. HoldsBack(0)'
    <2>1. Origin' = Start(job').iv
      <3>1. [job' EXCEPT !.do_encrypt = TRUE].iv = job'.iv
        BY <1>2 DEF Job
      <3> QED
        BY <3>1 DEF Origin, Start
    <2>2. ChainAfter(text, 0)' = Start(job')
      BY <2>1 DEF ChainAfter, Start
    <2> QED
      BY <2>2, <1>7 DEF HoldsBack
  <1>15. BlocksIn(Len(data')) - count' = 0 /\ Len(data') = n /\ count' = BlocksIn(n)
    BY <1>6, <1>7, <1>12
  <1> QED
    BY <1>2, <1>7, <1>11, <1>12, <1>13, <1>14, <1>15 DEF Restored

LEMMA DecryptBlockRestores == ASSUME Inv, Restored, DecryptBlock PROVE Restored'
  <1> USE CryptoAssumption
  <1> DEFINE q == BlocksIn(Len(data))
             in == Read(InSize)
             u == DecryptUpdate(ctx, in)
             final == DecryptFinal(u.ctx)
  <1>0. PICK k : k = q - count
    OBVIOUS
  <1>1. /\ pc = "crypt" /\ ~job.do_encrypt /\ count > 0 /\ count \in Nat
        /\ job \in Job /\ job.scheme # "sm2"
    BY DEF DecryptBlock, Inv, FieldsOK, Measured
  <1>2. /\ ctx' = u.ctx /\ count' = count - 1
        /\ UNCHANGED <<job, data, extra, text>>
    BY DEF DecryptBlock, Advance
  <1>3. /\ k \in Nat /\ k <= Len(text) \div AesBlockSize
        /\ k * AesBlockSize <= Len(text)
        /\ count = 1 /\ data = Image(text) => k = Len(text) \div AesBlockSize
    BY <1>0, <1>1, DecryptionReads
  <1>4. /\ u.ctx.buf = BlockAt(text, k + 1)
        /\ u.ctx.chain = ChainAfter(text, k + 1)
        /\ output \o u.out = TextUpTo(k * AesBlockSize)
    BY <1>0, <1>1, DecryptsNextBlock
  <1>5. /\ Image(text)' = Image(text)
        /\ ChainAfter(text, k + 1)' = ChainAfter(text, k + 1)
    BY <1>1, <1>2, SameJob
  <1>6. /\ status = "none" /\ extra = Len(data) % AesBlockSize /\ count <= q
        /\ IsInitialPart(data, Image(text))
    BY <1>1 DEF Restored
  <1>7. IsInitialPart(data', Image(text)') /\ extra' = Len(data') % AesBlockSize
        /\ count' <= BlocksIn(Len(data')) /\ BlocksIn(Len(data')) = q
    <2>1. Len(data) \in Nat
      BY LenProperties DEF Inv, FieldsOK
    <2>2. q \in Nat
      BY <2>1, DivisionWithRest DEF BlocksIn
    <2>3. BlocksIn(Len(data')) = q
      BY <1>2
    <2> HIDE DEF q
    <2> QED
      BY <2>2, <2>3, <1>1, <1>2, <1>5, <1>6
  <1> HIDE DEF u, in
  <1>8. ASSUME Last
        PROVE  count = 1 /\ count' = 0
    BY <1>2, <1>8 DEF Last
  <1>9. CASE Last /\ ~GoodPadding(u.ctx.buf)
    <2>1. pc' = "idle" /\ status' = "INTERNAL" /\ output' = output
      BY <1>9 DEF DecryptBlock, Answer, u, in
    <2>2. k # Len(text) \div AesBlockSize
      BY <1>3, <1>4, <1>9, TakesOffPadding
    <2>3. data # Image(text)
      BY <1>3, <1>8, <1>9, <2>2
    <2>4. IsInitialPart(output, text)
      <3>1. HoldsBack(k)
        BY <1>0, <1>1 DEF Restored
      <3>2. Len(text) \in Nat
        BY TextIsPlain
      <3>3. CASE k = 0
        <4>1. output = TextUpTo(0)
          BY <3>1, <3>3, TextUpToEnds DEF HoldsBack
        <4> QED
          BY <4>1, <3>2, TextUpToProperties
      <3>4. CASE k > 0
        <4>1. output = TextUpTo((k - 1) * AesBlockSize)
          BY <3>1, <3>4 DEF HoldsBack
        <4>2. (k - 1) * AesBlockSize \in 0..Len(text)
          <5>1. k - 1 \in Nat /\ (k - 1) * AesBlockSize + AesBlockSize = k * AesBlockSize
            BY <1>3, <3>4
          <5>2. \A x, y \in Nat : x * y \in Nat
            BY SMT
          <5>3. (k - 1) * AesBlockSize \in Nat /\ k * AesBlockSize \in Nat
            BY <5>1, <5>2, <1>3
          <5> QED
            BY <5>1, <5>3, <3>2, <1>3
        <4> QED
          BY <4>1, <4>2, TextUpToProperties
      <3> QED
        BY <1>3, <3>3, <3>4
    <2>5. Outcome'
      BY <2>1, <2>3, <2>4, <1>2, <1>5 DEF Outcome
    <2> QED
      BY <2>1, <2>5, <1>1, <1>2, <1>7 DEF Restored
  <1>10. CASE Last /\ GoodPadding(u.ctx.buf)
    <2>1. pc' = pc /\ status' = status /\ output' = output \o u.out \o final
      BY <1>10 DEF DecryptBlock, u, in
    <2> HIDE DEF final
    <2>2. output' = TextUpTo(k * AesBlockSize) \o final
      BY <2>1, <1>4
    <2>3. IsInitialPart(output', text)
          /\ (k = Len(text) \div AesBlockSize => output' = text)
      BY <2>2, <1>3, <1>4, <1>10, TakesOffPadding DEF final
    <2>4. data = Image(text) => output' = text
      BY <2>3, <1>3, <1>8, <1>10
    <2>5. Outcome'
      BY <2>1, <2>3, <2>4, <1>2, <1>5, <1>6 DEF Outcome
    <2> QED
      BY <2>1, <2>5, <1>1, <1>2, <1>6, <1>7, <1>8, <1>10 DEF Restored
  <1>11. CASE ~Last
    <2>1. pc' = pc /\ status' = status /\ output' = output \o u.out \o <<>>
      BY <1>11 DEF DecryptBlock, u, in
    <2>2. output' = TextUpTo(k * AesBlockSize)
      <3>1. TextUpTo(k * AesBlockSize) \in Seq(Plain)
        <4>1. k * AesBlockSize \in Nat /\ Len(text) \in Nat
          BY <1>3, TextIsPlain
        <4> QED
          BY <4>1, <1>3, TextUpToProperties
      <3> QED
        BY <2>1, <1>4, <3>1, ConcatEmptySeq
    <2>3. count' > 0 /\ BlocksIn(Len(data')) - count' = k + 1 /\ k + 1 # 0 /\ (k + 1) - 1 = k
      <3>1. count > 1
        BY <1>1, <1>11 DEF Last
      <3>2. q \in Nat
        <4>1. Len(data) \in Nat
          BY LenProperties DEF Inv, FieldsOK
        <4> QED
          BY <4>1, DivisionWithRest DEF BlocksIn
      <3>3. BlocksIn(Len(data')) = q
        BY <1>7
      <3> HIDE DEF q
      <3> QED
        BY <3>1, <3>2, <3>3, <1>0, <1>1, <1>2, <1>3
    <2>4. HoldsBack(k + 1)'
      <3> QED
        BY <2>2, <2>3, <1>2, <1>4, <1>5 DEF HoldsBack, TextUpTo
    <2> QED
      BY <2>1, <2>3, <2>4, <1>1, <1>2, <1>6, <1>7 DEF Restored
  <1> QED
    BY <1>9, <1>10, <1>11

LEMMA RestoredStep == Inv /\ Written /\ Restored /\ [Next]_vars => Restored'
  <1> SUFFICES ASSUME Inv, Written, Restored, [Next]_vars PROVE Restored'
    OBVIOUS
  <1>1. job \in Job
    BY DEF Inv, FieldsOK
  <1>2. CASE Encrypt
    <2>1. job' = [job EXCEPT !.do_encrypt = TRUE] /\ data' = text /\ text' = text
      BY <1>2 DEF Encrypt, Begin
    <2>2. job'.do_encrypt
      BY <2>1, <1>1, JobTyped
    <2> QED
      BY <2>1, <2>2 DEF Restored
  <1>3. CASE EncryptBlock
    <2>1. /\ job' = job /\ data' = data /\ text' = text /\ pc' = pc /\ status' = status
          /\ job.do_encrypt
      BY <1>3 DEF EncryptBlock, Advance
    <2> QED
      BY <2>1 DEF Restored
  <1>4. CASE CryptReturn
    <2>1. /\ job' = job /\ data' = data /\ text' = text /\ output' = output /\ pc' = "idle"
          /\ status' = "OK" /\ pc = "crypt" /\ count = 0
      BY <1>4 DEF CryptReturn, Answer
    <2>2. Image(text)' = Image(text)
      BY <1>1, <2>1, SameJob
    <2> QED
      BY <2>1, <2>2 DEF Restored, Outcome
  <1>5. CASE Sm2EncryptBlock \/ Sm2DecryptBlock \/ Sm2Return
    <2>1. job.scheme = "sm2" /\ job' = job
      BY <1>5 DEF Sm2EncryptBlock, Sm2DecryptBlock, Sm2Return, Inv, Measured
    <2> QED
      BY <2>1 DEF Restored
  <1>6. CASE UNCHANGED vars
    <2>1. job' = job /\ text' = text
      BY <1>6 DEF vars
    <2>2. Image(text)' = Image(text) /\ \A j : ChainAfter(text, j)' = ChainAfter(text, j)
      BY <1>1, <2>1, SameJob
    <2> QED
      BY <2>2, <1>6 DEF vars, Restored, Outcome, HoldsBack, TextUpTo
  <1> QED
    BY <1>2, <1>3, <1>4, <1>5, <1>6, DecryptRestores, DecryptBlockRestores DEF Next

LEMMA RestoredIsText == Inv /\ Restored => DecryptsOnlyTheText
  <1> SUFFICES ASSUME Inv, Restored, ~job.do_encrypt, job.scheme # "sm2"
               PROVE  IsInitialPart(output, text)
    BY DEF DecryptsOnlyTheText
  <1> USE CryptoAssumption
  <1>1. pc \in {"idle", "crypt"} /\ count \in Nat /\ Len(data) \in Nat /\ Len(text) \in Nat
    BY LenProperties, TextIsPlain DEF Inv, FieldsOK, Measured
  <1>2. CASE pc = "idle" \/ count = 0
    BY <1>1, <1>2 DEF Restored, Outcome
  <1>3. CASE pc = "crypt" /\ count > 0
    <2> DEFINE j == BlocksIn(Len(data)) - count
    <2>1. /\ j \in Nat /\ j * AesBlockSize <= Len(text)
      BY <1>3, DecryptionReads
    <2>2. HoldsBack(j)
      BY <1>3 DEF Restored
    <2> HIDE DEF j
    <2>3. CASE j = 0
      BY <2>2, <2>3, <1>1, TextUpToEnds, TextUpToProperties DEF HoldsBack
    <2>4. CASE j > 0
      <3>1. j - 1 \in Nat /\ (j - 1) * AesBlockSize + AesBlockSize = j * AesBlockSize
        BY <2>1, <2>4
      <3>2. \A x, y \in Nat : x * y \in Nat
        BY SMT
      <3>3. (j - 1) * AesBlockSize \in Nat /\ j * AesBlockSize \in Nat
        BY <2>1, <3>1, <3>2
      <3>4. (j - 1) * AesBlockSize \in 0..Len(text)
        BY <2>1, <3>1, <3>3, <1>1
      <3>5. output = TextUpTo((j - 1) * AesBlockSize)
        BY <2>2, <2>4 DEF HoldsBack
      <3> QED
        BY <3>4, <3>5, TextUpToProperties
    <2> QED
      BY <2>1, <2>3, <2>4
  <1> QED
    BY <1>1, <1>2, <1>3

LEMMA RestoredInverts == Inv /\ Restored /\ (pc # "idle" => status = "none") => DecryptInverts
  <1> SUFFICES ASSUME Inv, Restored, ~job.do_encrypt, job.scheme # "sm2",
                      pc # "idle" => status = "none",
                      Len(text) >= AesBlockSize, status # "none", data = Image(text)
               PROVE  status = "OK" /\ output = text
    BY DEF DecryptInverts
  <1>1. pc = "idle" /\ status \in {"OK", "INTERNAL"}
    BY DEF Inv, FieldsOK
  <1> QED
    BY <1>1 DEF Restored, Outcome

(* Wherever the cipher text was cut off, and whether the padding is then   *)
(* good, bad or good by chance, what decryption has written is always the  *)
(* beginning of the text: the last block it has opened is held back until  *)
(* it knows that another one follows.  For every block size and text.      *)
THEOREM DecryptionGivesOnlyText == Spec => []DecryptsOnlyTheText
  <1>1. Init => Inv /\ Written /\ Restored
    BY InvInit, WrittenInit, RestoredInit
  <1>2. Inv /\ Written /\ Restored /\ [Next]_vars => Inv' /\ Written' /\ Restored'
    BY InvStep, WrittenStep, RestoredStep
  <1> QED
    BY <1>1, <1>2, RestoredIsText, PTL DEF Spec

(* Decryption undoes encryption: given the whole cipher text it answers    *)
(* with the text, for every block size and every text of a block or more.  *)
THEOREM DecryptionInvertsEncryption == Spec => []DecryptInverts
  <1>1. Init => Inv /\ Written /\ Restored
    BY InvInit, WrittenInit, RestoredInit
  <1>2. Inv /\ Written /\ Restored /\ [Next]_vars => Inv' /\ Written' /\ Restored'
    BY InvStep, WrittenStep, RestoredStep
  <1>3. Inv /\ Restored => DecryptInverts
    <2>1. Inv /\ Restored /\ ~job.do_encrypt /\ job.scheme # "sm2" /\ pc # "idle" => status = "none"
      BY DEF Inv, FieldsOK, Measured, Restored
    <2> QED
      BY <2>1, RestoredInverts DEF DecryptInverts
  <1> QED
    BY <1>1, <1>2, <1>3, PTL DEF Spec

--------------------------------------------------------------------------------
(* SM2, texts of one block *)

Unchained == [iv |-> "zeros", blocks |-> <<>>]

(* The cipher text of a text of at most one block. *)
Message ==
  IF text = <<>> THEN <<>>
  ELSE Bytes(Seal(Unchained, Filled(text)), CipherLength(job.key_bits))

(* Either way there is one turn. *)
Carried ==
  job.scheme = "sm2" =>
    /\ Len(text) <= EncryptBlockSize
    /\ pc # "idle" => status = "none" /\ ctx.chain = Unchained
    /\ job.do_encrypt =>
         /\ pc = "sm2" => /\ data = text
                          /\ \/ position = 0 /\ output = <<>>
                             \/ position = Len(text) /\ output = Message
         /\ status = "OK" => output = Message
    /\ ~job.do_encrypt => IsInitialPart(data, Message)
    /\ ~job.do_encrypt /\ data = Message =>
         /\ pc = "sm2" => \/ position = 0 /\ output = <<>>
                          \/ position = Len(data) /\ IsInitialPart(text, output)
         /\ pc = "idle" => status = "OK" /\ IsInitialPart(text, output)

LEMMA MessageProperties ==
  ASSUME Inv, job.scheme = "sm2", Len(text) <= EncryptBlockSize
  PROVE  /\ CipherLength(job.key_bits) \in 1..DecryptBufferSize
         /\ Filled(text) \in Block /\ Filled(text) # <<>> /\ Filled(text) \in Seq(Plain)
         /\ IsInitialPart(text, Filled(text))
         /\ Seal(Unchained, Filled(text)) \in [iv : Vector, blocks : Seq(Block) \ {<<>>}]
         /\ Newest(Seal(Unchained, Filled(text))) = Filled(text)
         /\ Message \in Seq(CipherByte)
         /\ Len(Message) = IF Len(text) = 0 THEN 0 ELSE CipherLength(job.key_bits)
  <1> USE CryptoAssumption
  <1>1. job.key_bits \in {192, 256}
    BY DEF Inv, FieldsOK, Job
  <1>2. CipherLength(job.key_bits) \in 1..DecryptBufferSize
    BY <1>1 DEF CipherLength, HeaderLength, EncryptBlockSize, DecryptBufferSize
  <1>3. text \in Seq(Plain) /\ Len(text) \in 0..2 /\ \A i \in 1..Len(text) : text[i] \in Plain
    <2>1. text \in Seq(Plain) /\ Len(text) \in Nat /\ \A i \in 1..Len(text) : text[i] \in Plain
      BY TextIsPlain
    <2>2. Len(text) <= 2
      BY DEF EncryptBlockSize
    <2>3. \A n \in Nat : n <= 2 => n \in 0..2
      BY SMT
    <2>4. Len(text) \in 0..2
      BY <2>1, <2>2, <2>3
    <2> QED
      BY <2>1, <2>4
  <1>4. Filled(text) \in [1..2 -> Plain] /\ \A i \in 1..Len(text) : Filled(text)[i] = text[i]
    BY <1>3 DEF Filled, EncryptBlockSize, Plain
  <1>5. Filled(text) \in Seq(Plain) /\ Len(Filled(text)) = 2 /\ Filled(text) # <<>>
    <2> DEFINE f == Filled(text)
               n == 2
    <2>1. n \in Nat /\ f \in [1..n -> Plain]
      BY <1>4
    <2> HIDE DEF f, n
    <2>2. f \in Seq(Plain)
      BY <2>1, SeqDef
    <2>3. Len(f) = n
      BY <2>1, <2>2, LenProperties
    <2>4. n = 2
      BY DEF n
    <2>5. f # <<>>
      BY <2>2, <2>3, <2>4, EmptySeq
    <2> QED
      BY <2>2, <2>3, <2>4, <2>5 DEF f
  <1>6. Filled(text) \in Block
    BY <1>4 DEF Block, EncryptBlockSize
  <1>7. IsInitialPart(text, Filled(text))
    <2> DEFINE f == Filled(text)
    <2> HIDE DEF f
    <2>1. /\ SubSeq(f, 1, Len(text)) \in Seq(Plain) /\ Len(SubSeq(f, 1, Len(text))) = Len(text)
          /\ \A i \in 1..Len(text) : SubSeq(f, 1, Len(text))[i] = f[i]
      <3>1. \A i \in 1..Len(text) : f[i] \in Plain
        BY <1>3, <1>4 DEF f
      <3> QED
        BY <3>1, <1>3, SubSeqProperties
    <2>2. text = SubSeq(f, 1, Len(text))
      BY <2>1, <1>3, <1>4, SeqEqual DEF f
    <2>3. Len(text) <= Len(f)
      BY <1>3, <1>5 DEF f
    <2> QED
      BY <2>2, <2>3 DEF IsInitialPart, f
  <1>8. Unchained \in [iv : Vector, blocks : Seq(Block)]
    BY EmptySeq DEF Unchained, Vector
  <1>9. /\ Seal(Unchained, Filled(text)) \in [iv : Vector, blocks : Seq(Block) \ {<<>>}]
        /\ Newest(Seal(Unchained, Filled(text))) = Filled(text)
    BY <1>6, <1>8, SealTyped
  <1>10. CipherLength(job.key_bits) \in Nat
    BY <1>2
  <1>11. /\ Bytes(Seal(Unchained, Filled(text)), CipherLength(job.key_bits)) \in Seq(CipherByte)
         /\ Len(Bytes(Seal(Unchained, Filled(text)), CipherLength(job.key_bits)))
              = CipherLength(job.key_bits)
    BY <1>9, <1>10, BytesTyped
  <1>12. text = <<>> <=> Len(text) = 0
    BY <1>3, EmptySeq
  <1>13. Message \in Seq(CipherByte)
         /\ Len(Message) = IF Len(text) = 0 THEN 0 ELSE CipherLength(job.key_bits)
    BY <1>11, <1>12, EmptySeq DEF Message
  <1> QED
    BY <1>2, <1>5, <1>6, <1>7, <1>9, <1>13

LEMMA InitialPartOfItself ==
  ASSUME NEW S, NEW s \in Seq(S)
  PROVE  IsInitialPart(s, s) /\ IsInitialPart(<<>>, s)
  <1>1. Len(s) \in Nat /\ \A i \in 1..Len(s) : s[i] \in S
    BY LenProperties, ElementOfSeq
  <1>2. /\ SubSeq(s, 1, Len(s)) \in Seq(S) /\ Len(SubSeq(s, 1, Len(s))) = Len(s)
        /\ \A i \in 1..Len(s) : SubSeq(s, 1, Len(s))[i] = s[i]
    BY <1>1, SubSeqProperties
  <1>3. s = SubSeq(s, 1, Len(s))
    BY <1>2, SeqEqual
  <1>4. SubSeq(s, 1, 0) \in Seq(S) /\ Len(SubSeq(s, 1, 0)) = 0
    BY <1>1, SubSeqProperties
  <1>5. SubSeq(s, 1, 0) = <<>>
    BY <1>4, EmptySeq
  <1> QED
    BY <1>1, <1>3, <1>5 DEF IsInitialPart

(* A read that asks for all there is, from the beginning. *)
LEMMA ReadsAll ==
  ASSUME NEW S, data \in Seq(S), position = 0, NEW n \in Nat, Len(data) <= n
  PROVE  Read(n) = data
  <1>1. Len(data) \in Nat
    BY LenProperties
  <1>2. Read(n) = SubSeq(data, 1, Len(data))
    BY <1>1 DEF Read, Least, Available
  <1> QED
    BY <1>2, InitialPartOfItself DEF IsInitialPart

LEMMA SameMessage ==
  ASSUME job \in Job, text' = text, NEW b, job' = [job EXCEPT !.do_encrypt = b]
  PROVE  Message' = Message /\ job'.scheme = job.scheme
  <1>1. job'.scheme = job.scheme /\ job'.key_bits = job.key_bits
    BY DEF Job
  <1> QED
    BY <1>1 DEF Message

LEMMA CarriedInit == ASSUME MaxSm2 <= EncryptBlockSize PROVE Init => Carried
  <1> SUFFICES ASSUME Init, job.scheme = "sm2" PROVE Carried
    BY DEF Carried
  <1>1. PICK n \in 0..MaxSm2 : text \in [1..n -> Byte]
    BY DEF Init, Texts
  <1>2. Len(text) <= EncryptBlockSize
    <2>1. n \in Nat
      BY CryptoAssumption
    <2>2. Len(text) = n
      BY <1>1, <2>1, SeqDef
    <2> QED
      BY <2>2, CryptoAssumption DEF EncryptBlockSize
  <1> QED
    BY <1>2 DEF Init, Carried

LEMMA BeginCarries ==
  ASSUME Inv, Carried, job.scheme = "sm2", Encrypt \/ Decrypt
  PROVE  Carried'
  <1>1. job \in Job /\ pc = "idle" /\ text' = text /\ text \in Seq(Plain)
    BY TextIsPlain DEF Encrypt, Decrypt, Begin, Inv, FieldsOK
  <1>2. PICK j, bytes : /\ Begin(j, bytes)
                        /\ \/ j = [job EXCEPT !.do_encrypt = TRUE] /\ bytes = text
                           \/ /\ j = [job EXCEPT !.do_encrypt = FALSE] /\ status = "OK" /\ job.do_encrypt
                              /\ \E n \in 0..Len(output) : bytes = SubSeq(output, 1, n)
    BY DEF Encrypt, Decrypt
  <1>3. job' = j /\ j \in Job /\ j.scheme = "sm2" /\ j.iv = "none"
    <2>1. j \in Job /\ j.scheme = "sm2"
      <3>1. \A b \in BOOLEAN : [job EXCEPT !.do_encrypt = b] \in Job
                               /\ [job EXCEPT !.do_encrypt = b].scheme = "sm2"
        BY <1>1, JobTyped
      <3>2. j = [job EXCEPT !.do_encrypt = TRUE] \/ j = [job EXCEPT !.do_encrypt = FALSE]
        BY <1>2
      <3> QED
        BY <3>1, <3>2
    <2>2. j.iv = "none"
      BY <2>1 DEF Job
    <2> QED
      BY <2>1, <2>2, <1>2 DEF Begin
  <1>4. /\ pc' = "sm2" /\ data' = bytes /\ position' = 0 /\ output' = <<>> /\ status' = "none"
        /\ ctx'.chain = Unchained
    BY <1>2, <1>3 DEF Begin, Start, Unchained
  <1>5. Message' = Message /\ Len(text) <= EncryptBlockSize
    BY <1>1, <1>2, <1>3, SameMessage DEF Carried
  <1>6. ASSUME ~j.do_encrypt PROVE IsInitialPart(bytes, Message)
    <2>1. j # [job EXCEPT !.do_encrypt = TRUE]
      <3>1. [job EXCEPT !.do_encrypt = TRUE].do_encrypt = TRUE
        BY <1>1, JobTyped
      <3> QED
        BY <3>1, <1>6
    <2>2. PICK n \in 0..Len(output) : bytes = SubSeq(output, 1, n)
      BY <1>2, <2>1
    <2>3. output = Message
      BY <1>2, <2>1 DEF Carried
    <2>4. Message \in Seq(CipherByte) /\ Len(Message) \in Nat
      BY <1>5, MessageProperties, LenProperties
    <2>5. \A i \in 1..n : Message[i] \in CipherByte
      BY <2>3, <2>4, ElementOfSeq
    <2>6. Len(SubSeq(Message, 1, n)) = n
      BY <2>3, <2>4, <2>5, SubSeqProperties
    <2> QED
      BY <2>2, <2>3, <2>4, <2>6 DEF IsInitialPart
  <1>7. j.do_encrypt => bytes = text
    BY <1>1, <1>2, JobTyped
  <1> QED
    BY <1>1, <1>3, <1>4, <1>5, <1>6, <1>7 DEF Carried

LEMMA Sm2EncryptBlockCarries == ASSUME Inv, Carried, Sm2EncryptBlock PROVE Carried'
  <1>1. /\ pc = "sm2" /\ job.do_encrypt /\ Available > 0 /\ job.scheme = "sm2" /\ job \in Job
        /\ data \in Seq(Plain) /\ Len(data) \in Nat
    BY LenProperties DEF Sm2EncryptBlock, Inv, Measured, FieldsOK
  <1>2. /\ data = text /\ position = 0 /\ output = <<>> /\ Len(text) <= EncryptBlockSize
        /\ status = "none" /\ ctx.chain = Unchained
    BY <1>1 DEF Carried, Available
  <1>3. Read(EncryptBlockSize) = text
    BY <1>1, <1>2, ReadsAll DEF EncryptBlockSize
  <1>4. text # <<>>
    BY <1>1, <1>2 DEF Available
  <1>5. /\ output' = output \o Message /\ position' = position + Len(text)
        /\ UNCHANGED <<pc, job, data, ctx, status, text>>
    BY <1>2, <1>3, <1>4 DEF Sm2EncryptBlock, Message
  <1>6. output' = Message
    BY <1>1, <1>2, <1>5, MessageProperties, ConcatEmptySeq
  <1>7. position' = Len(text)
    BY <1>1, <1>2, <1>5
  <1>8. Message' = Message
    BY <1>5 DEF Message
  <1> QED
    BY <1>1, <1>2, <1>5, <1>6, <1>7, <1>8 DEF Carried

LEMMA Sm2DecryptBlockCarries == ASSUME Inv, Carried, Sm2DecryptBlock PROVE Carried'
  <1> DEFINE block == Read(DecryptBufferSize)
  <1>1. /\ pc = "sm2" /\ ~job.do_encrypt /\ Available > 0 /\ job.scheme = "sm2" /\ job \in Job
        /\ data \in Seq(CipherByte) /\ Len(data) \in Nat
    BY LenProperties DEF Sm2DecryptBlock, Inv, Measured, FieldsOK
  <1>2. /\ Len(text) <= EncryptBlockSize /\ status = "none" /\ ctx.chain = Unchained
        /\ IsInitialPart(data, Message)
    BY <1>1 DEF Carried
  <1>3. position' = position + Len(block) /\ UNCHANGED <<job, data, ctx, text>>
    BY DEF Sm2DecryptBlock
  <1>4. PICK plain \in Opened(block) :
          IF plain = <<>> THEN Answer("INTERNAL") /\ UNCHANGED output
          ELSE output' = output \o plain /\ UNCHANGED <<pc, status>>
    BY DEF Sm2DecryptBlock
  <1>5. Message' = Message
    BY <1>3 DEF Message
  <1>6. pc' # "idle" => status' = "none"
    BY <1>1, <1>2, <1>4 DEF Answer
  <1>7. ASSUME data = Message
        PROVE  pc' = "sm2" /\ position' = Len(data) /\ IsInitialPart(text, output')
    <2>1. position = 0 /\ output = <<>>
      BY <1>1, <1>7 DEF Carried, Available
    <2>2. Len(data) = CipherLength(job.key_bits) /\ Len(data) \in 1..DecryptBufferSize /\ text # <<>>
      <3>1. Len(data) > 0
        BY <1>1, <2>1 DEF Available
      <3>2. Len(text) # 0
        BY <3>1, <1>1, <1>2, <1>7, MessageProperties
      <3> QED
        BY <3>2, <1>1, <1>2, <1>7, MessageProperties
    <2>3. block = data
      BY <1>1, <2>1, <2>2, ReadsAll DEF DecryptBufferSize
    <2> HIDE DEF block
    <2>4. data = Bytes(Seal(Unchained, Filled(text)), CipherLength(job.key_bits))
      BY <1>7, <2>2 DEF Message
    <2>5. data[1].of = Seal(Unchained, Filled(text)) /\ data # <<>>
      <3>1. 1 \in 1..CipherLength(job.key_bits)
        BY <2>2
      <3>2. data[1] = [of |-> Seal(Unchained, Filled(text)), at |-> 1]
        BY <2>4, <3>1 DEF Bytes
      <3>3. data # <<>>
        BY <2>2
      <3> QED
        BY <3>2, <3>3
    <2>6. Opened(block) = {Filled(text)}
      <3>1. Whole(block, CipherLength(job.key_bits))
        BY <2>3, <2>4, <2>5 DEF Whole
      <3> QED
        BY <3>1, <2>3, <2>5, <1>1, <1>2, MessageProperties DEF Opened
    <2>7. plain = Filled(text) /\ plain # <<>> /\ plain \in Seq(Plain)
      BY <2>6, <1>1, <1>2, MessageProperties
    <2>8. output' = <<>> \o plain /\ pc' = pc
      BY <1>4, <2>1, <2>7
    <2>9. output' = Filled(text)
      BY <2>7, <2>8, ConcatEmptySeq
    <2>10. position' = Len(data)
      BY <1>1, <1>3, <2>1, <2>3
    <2> QED
      BY <1>1, <1>2, <2>8, <2>9, <2>10, MessageProperties
  <1> QED
    BY <1>1, <1>2, <1>3, <1>5, <1>6, <1>7 DEF Carried

LEMMA CarriedStep == Inv /\ Carried /\ [Next]_vars => Carried'
  <1> SUFFICES ASSUME Inv, Carried, [Next]_vars PROVE Carried'
    OBVIOUS
  <1>1. job \in Job
    BY DEF Inv, FieldsOK
  <1>2. CASE Encrypt \/ Decrypt
    <2>1. CASE job.scheme = "sm2"
      BY <1>2, <2>1, BeginCarries
    <2>2. CASE job.scheme # "sm2"
      <3>1. job'.scheme = job.scheme
        BY <1>1, <1>2, JobTyped DEF Encrypt, Decrypt, Begin
      <3> QED
        BY <2>2, <3>1 DEF Carried
    <2> QED
      BY <2>1, <2>2
  <1>3. CASE EncryptBlock \/ DecryptBlock \/ CryptReturn
    <2>1. job.scheme # "sm2" /\ job' = job
      BY <1>3 DEF EncryptBlock, DecryptBlock, CryptReturn, Advance, Inv, Measured
    <2> QED
      BY <2>1 DEF Carried
  <1>4. CASE Sm2Return
    <2>1. /\ job' = job /\ data' = data /\ text' = text /\ output' = output /\ position' = position
          /\ pc' = "idle" /\ status' = "OK" /\ pc = "sm2" /\ Len(data) - position = 0
          /\ job.scheme = "sm2"
      BY <1>4 DEF Sm2Return, Answer, Available, Inv, Measured
    <2>2. Message' = Message
      BY <2>1 DEF Message
    <2>3. Len(text) <= EncryptBlockSize /\ text \in Seq(Plain) /\ Len(text) \in Nat /\ Len(data) \in Nat
      BY <2>1, TextIsPlain, LenProperties DEF Carried, Inv, FieldsOK
    <2>4. ASSUME job.do_encrypt PROVE output = Message
      <3>1. data = text
        BY <2>1, <2>4 DEF Carried
      <3>2. position = 0 => text = <<>>
        BY <2>1, <2>3, <3>1, EmptySeq
      <3> QED
        BY <2>1, <2>4, <3>2 DEF Carried, Message
    <2>5. ASSUME ~job.do_encrypt, data = Message PROVE IsInitialPart(text, output)
      <3>1. CASE position = 0 /\ output = <<>>
        <4>1. Len(Message) = 0
          BY <3>1, <2>1, <2>3, <2>5
        <4>2. Len(text) = 0
          BY <4>1, <2>1, <2>3, MessageProperties
        <4>3. text = <<>>
          BY <4>2, <2>3, EmptySeq
        <4> QED
          BY <4>3, <3>1, <2>3, InitialPartOfItself
      <3> QED
        BY <3>1, <2>1, <2>5 DEF Carried
    <2> QED
      BY <2>1, <2>2, <2>3, <2>4, <2>5 DEF Carried
  <1>5. CASE UNCHANGED vars
    <2>1. Message' = Message
      BY <1>5 DEF vars, Message
    <2> QED
      BY <2>1, <1>5 DEF vars, Carried
  <1> QED
    BY <1>2, <1>3, <1>4, <1>5, Sm2EncryptBlockCarries, Sm2DecryptBlockCarries DEF Next

LEMMA CarriedRoundTrip == Inv /\ Carried => Sm2RoundTrip
  <1> SUFFICES ASSUME Inv, Carried, ~job.do_encrypt, job.scheme = "sm2", status # "none",
                      Len(data) = CipherLength(job.key_bits)
                                    * ((Len(text) + EncryptBlockSize - 1) \div EncryptBlockSize)
               PROVE  status = "OK" /\ IsInitialPart(text, output)
    BY DEF Sm2RoundTrip
  <1> DEFINE n == CipherLength(job.key_bits)
             k == (Len(text) + EncryptBlockSize - 1) \div EncryptBlockSize
  <1>1. pc = "idle" /\ Len(text) \in 0..2 /\ IsInitialPart(data, Message)
    <2>1. pc = "idle" /\ IsInitialPart(data, Message) /\ Len(text) <= EncryptBlockSize
      BY DEF Carried
    <2>2. Len(text) \in Nat /\ Len(text) <= 2
      BY <2>1, TextIsPlain DEF EncryptBlockSize
    <2>3. \A x \in Nat : x <= 2 => x \in 0..2
      BY SMT
    <2> QED
      BY <2>1, <2>2, <2>3
  <1>2. n \in Nat /\ Message \in Seq(CipherByte)
        /\ Len(Message) = IF Len(text) = 0 THEN 0 ELSE n
    <2>1. Len(text) <= EncryptBlockSize
      BY DEF Carried
    <2>2. n \in 1..DecryptBufferSize /\ DecryptBufferSize = 16
      BY <2>1, MessageProperties DEF DecryptBufferSize
    <2>3. n \in Nat
      BY <2>2
    <2> QED
      BY <2>1, <2>3, MessageProperties
  <1>3. k = IF Len(text) = 0 THEN 0 ELSE 1
    <2>1. Len(text) = 0 \/ Len(text) = 1 \/ Len(text) = 2
      BY <1>1
    <2>2. 1 \div 2 = 0 /\ 2 \div 2 = 1 /\ 3 \div 2 = 1
      BY SMT
    <2>3. EncryptBlockSize = 2
      BY DEF EncryptBlockSize
    <2>4. CASE Len(text) = 0
      BY <2>2, <2>3, <2>4
    <2>5. CASE Len(text) = 1
      BY <2>2, <2>3, <2>5
    <2>6. CASE Len(text) = 2
      BY <2>2, <2>3, <2>6
    <2> QED
      BY <2>1, <2>4, <2>5, <2>6
  <1> HIDE DEF n, k
  <1>4. n * k = Len(Message)
    BY <1>2, <1>3
  <1>5. data = Message
    <2>1. data = SubSeq(Message, 1, Len(Message))
      BY <1>1, <1>4 DEF IsInitialPart, n, k
    <2> QED
      BY <2>1, <1>2, InitialPartOfItself DEF IsInitialPart
  <1> QED
    BY <1>1, <1>5 DEF Carried

(* A text of at most one block comes back from the SM2 cipher text, with   *)
(* zeros up to the end of the block.  (Longer texts do not: what one Read  *)
(* of PrivateDecrypt finds is then more than one cipher message.)          *)
THEOREM Sm2BlockComesBack ==
  ASSUME MaxSm2 <= EncryptBlockSize
  PROVE  Spec => []Sm2RoundTrip
  <1>1. Init => Inv /\ Carried
    BY InvInit, CarriedInit
  <1>2. Inv /\ Carried /\ [Next]_vars => Inv' /\ Carried'
    BY InvStep, CarriedStep
  <1> QED
    BY <1>1, <1>2, CarriedRoundTrip, PTL DEF Spec
================================================================================
