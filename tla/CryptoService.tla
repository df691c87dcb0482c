----------------------------- MODULE CryptoService -----------------------------
(***************************************************************************)
(* The string handlers of service/symmetric_service.cc and                 *)
(* service/asymmetric_service.cc over the loops that do their work:        *)
(* CryptInternal (crypto/symmetric_util.cc) and the two loops of           *)
(* Sm2AsymmetricEncryptor, between a MemoryInputStream and a               *)
(* MemoryOutputStream.                                                     *)
(*                                                                         *)
(* Ciphers are symbolic.  A cipher block is what determines it: the        *)
(* initial vector and the plain blocks up to it in the chained mode, the   *)
(* plain block alone otherwise.  A byte of cipher text is a cipher block   *)
(* and a place in it.  For AES the unit of data is the byte, for SM2 it is *)
(* 16 bytes.  A client keeps one text and has it encrypted and decrypted   *)
(* again and again: handlers share nothing and keep nothing between calls. *)
(*                                                                         *)
(* A definition whose name ends in a capital X is a slip that the          *)
(* definition below it could have: TLC must find it out (see README.md).   *)
(***************************************************************************)
EXTENDS Integers, Sequences

CONSTANTS
  Byte,           \* bytes of plain text, those of the padding among them
  NoByte,         \* a byte of what decryption makes of a wrong block
  AesBlockSize,   \* AES_BLOCK_SIZE
  MaxAes,         \* bound: bytes in a plain text to be encrypted with AES
  MaxSm2          \* bound: units in a plain text to be encrypted with SM2

ASSUME CryptoAssumption ==
  /\ AesBlockSize \in Nat \ {0}
  /\ 0..AesBlockSize \subseteq Byte
  /\ NoByte \notin Byte
  /\ MaxAes \in Nat
  /\ MaxSm2 \in Nat

(* kMaxSm2EncryptBlockSize and kMaxSm2DecryptBufferSize, in units. *)
EncryptBlockSize == 2
DecryptBufferSizeX == 2
DecryptBufferSize == 16

(* Units of a cipher message: two coordinates, 32 bytes of hash, the block. *)
HeaderLength(key_bits) == key_bits \div 64 + 2
CipherLength(key_bits) == HeaderLength(key_bits) + EncryptBlockSize

VARIABLES
  pc,         \* the loop the handler is in, or "idle"
  job,        \* what is asked: scheme, iv, key_bits, do_encrypt
  data,       \* data_ of the MemoryInputStream
  position,   \* its position_
  output,     \* data_ of the MemoryOutputStream
  count,      \* locals of CryptInternal
  extra,
  ctx,        \* its EVP_CIPHER_CTX
  status,     \* the answer to the last request, "none" while it is served
  text        \* the plain text the client keeps

vars == <<pc, job, data, position, output, count, extra, ctx, status, text>>

--------------------------------------------------------------------------------
(* MemoryInputStream *)

Available == Len(data) - position

Least(a, b) == IF a < b THEN a ELSE b

(* What Read(b) finds, where b has n places: less at the end of the data. *)
Read(n) == SubSeq(data, position + 1, position + Least(n, Available))

--------------------------------------------------------------------------------
(* The EVP cipher with padding, as far as CryptInternal uses it: chain is   *)
(* what the next block is chained to; buf is the incomplete block that     *)
(* encryption keeps, or the last block that decryption holds back.         *)

Seal(chain, block) == [chain EXCEPT !.blocks = Append(@, block)]

Bytes(sealed, n) == [i \in 1..n |-> [of |-> sealed, at |-> i]]

Whole(s, n) == s # <<>> /\ s = Bytes(s[1].of, n)

Chained(chain, sealed) == IF job.scheme = "cbc" THEN sealed ELSE chain

Encrypted(c, block) ==
  LET sealed == Seal(c.chain, block)
  IN  [out |-> Bytes(sealed, AesBlockSize), chain |-> Chained(c.chain, sealed)]

EncryptUpdate(c, in) ==
  LET e == Encrypted(c, SubSeq(in, 1, AesBlockSize))
  IN  [out |-> e.out,
       ctx |-> [chain |-> e.chain, buf |-> SubSeq(in, AesBlockSize + 1, Len(in))]]

(* The padding: n bytes of value n, at least one, up to a whole block. *)
Padded(buf) ==
  LET n == AesBlockSize - Len(buf)
  IN  [i \in 1..AesBlockSize |-> IF i <= Len(buf) THEN buf[i] ELSE n]

EncryptFinal(c) == Encrypted(c, Padded(c.buf)).out

Newest(sealed) == sealed.blocks[Len(sealed.blocks)]

Wrong(n) == [i \in 1..n |-> NoByte]

Decrypted(c, in) ==
  IF Whole(in, AesBlockSize) /\ in[1].of = Seal(c.chain, Newest(in[1].of))
  THEN Newest(in[1].of) ELSE Wrong(AesBlockSize)

DecryptUpdate(c, in) ==
  [out |-> c.buf, ctx |-> [chain |-> Chained(c.chain, in[1].of), buf |-> Decrypted(c, in)]]

GoodPadding(buf) ==
  /\ buf # <<>>
  /\ buf[AesBlockSize] \in 1..AesBlockSize
  /\ \A i \in AesBlockSize - buf[AesBlockSize] + 1 .. AesBlockSize :
       buf[i] = buf[AesBlockSize]

DecryptFinal(c) == SubSeq(c.buf, 1, AesBlockSize - c.buf[AesBlockSize])

--------------------------------------------------------------------------------
(* Requests *)

(* The iv of a request is empty, of 16 bytes, or of another length. *)
Job ==
  [scheme : {"ecb"}, iv : {"none"}, key_bits : {0}, do_encrypt : BOOLEAN]
    \cup [scheme : {"cbc"}, iv : {"empty", "sixteen", "other"}, key_bits : {0},
          do_encrypt : BOOLEAN]
    \cup [scheme : {"sm2"}, iv : {"none"}, key_bits : {192, 256}, do_encrypt : BOOLEAN]

(* What the first block is chained to.  An iv of another length than 16 is *)
(* not handed to EVP_CipherInit_ex, which then starts from zeros.          *)
StartX(j) == [iv |-> IF j.iv = "sixteen" /\ j.do_encrypt THEN "iv" ELSE "zeros",
              blocks |-> <<>>]
Start(j) ==
  [iv |-> IF j.iv = "empty" THEN "kDefaultCbcIV"
          ELSE IF j.iv = "sixteen" THEN "iv" ELSE "zeros",
   blocks |-> <<>>]

BlocksInX(n) == (n + AesBlockSize - 1) \div AesBlockSize
BlocksIn(n) == n \div AesBlockSize

(* A handler up to the loop: it decodes the request, makes the streams and *)
(* the context, and CryptInternal computes how often it will go round.     *)
Begin(j, bytes) ==
  /\ pc = "idle"
  /\ pc' = IF j.scheme = "sm2" THEN "sm2" ELSE "crypt"
  /\ job' = j
  /\ data' = bytes
  /\ position' = 0
  /\ output' = <<>>
  /\ count' = IF j.scheme = "sm2" THEN 0 ELSE BlocksIn(Len(bytes))
  /\ extra' = IF j.scheme = "sm2" THEN 0 ELSE Len(bytes) % AesBlockSize
  /\ ctx' = [chain |-> Start(j), buf |-> <<>>]
  /\ status' = "none"

(* EcbEncryptString, CbcEncryptString, PublicKeyEncrypt *)
Encrypt ==
  /\ Begin([job EXCEPT !.do_encrypt = TRUE], text)
  /\ UNCHANGED text

(* EcbDecryptString, CbcDecryptString, PrivateKeyDecrypt, asked to decrypt *)
(* what the last encryption answered, whole or cut short.  An SM2 message  *)
(* keeps its header: without it the length of the block comes out negative. *)
Decrypt ==
  /\ status = "OK"
  /\ job.do_encrypt
  /\ \E n \in 0..Len(output) :
       /\ job.scheme = "sm2" => n >= HeaderLength(job.key_bits)
       /\ Begin([job EXCEPT !.do_encrypt = FALSE], SubSeq(output, 1, n))
  /\ UNCHANGED text

Answer(s) ==
  /\ pc' = "idle"
  /\ status' = s

--------------------------------------------------------------------------------
(* CryptInternal *)

Last == count = 1

(* The size given to in_buf. *)
InSizeX == AesBlockSize
InSize == IF Last /\ job.do_encrypt THEN AesBlockSize + extra ELSE AesBlockSize

Advance(n) ==
  /\ position' = position + n
  /\ count' = count - 1
  /\ UNCHANGED <<job, data, extra, text>>

(* One turn of the loop that encrypts, the last with EVP_CipherFinal_ex. *)
EncryptBlock ==
  /\ pc = "crypt"
  /\ job.do_encrypt
  /\ count > 0
  /\ LET u == EncryptUpdate(ctx, Read(InSize))
     IN  /\ ctx' = u.ctx
         /\ output' = output \o u.out \o IF Last THEN EncryptFinal(u.ctx) ELSE <<>>
  /\ Advance(Len(Read(InSize)))
  /\ UNCHANGED <<pc, status>>

(* One turn of the loop that decrypts; EVP_CipherFinal_ex may refuse the   *)
(* padding of the last block, and then the handler answers INTERNAL.       *)
DecryptBlock ==
  /\ pc = "crypt"
  /\ ~job.do_encrypt
  /\ count > 0
  /\ LET u == DecryptUpdate(ctx, Read(InSize))
     IN  /\ ctx' = u.ctx
         /\ IF Last /\ ~GoodPadding(u.ctx.buf)
            THEN /\ Answer("INTERNAL")
                 /\ UNCHANGED output
            ELSE /\ output' = output \o u.out \o IF Last THEN DecryptFinal(u.ctx) ELSE <<>>
                 /\ UNCHANGED <<pc, status>>
  /\ Advance(Len(Read(InSize)))

(* The loop is over: the handler answers with what was written. *)
CryptReturn ==
  /\ pc = "crypt"
  /\ count = 0
  /\ Answer("OK")
  /\ UNCHANGED <<job, data, position, output, count, extra, ctx, text>>

--------------------------------------------------------------------------------
(* Sm2AsymmetricEncryptor, in each call with access_mutex_ held throughout *)

(* The block is made of 32 zeros before Read fills it from the front. *)
Filled(block) ==
  [i \in 1..EncryptBlockSize |-> IF i <= Len(block) THEN block[i] ELSE 0]

Sm2EncryptBlock ==
  /\ pc = "sm2"
  /\ job.do_encrypt
  /\ Available > 0
  /\ LET block == Read(EncryptBlockSize)
     IN  /\ output' = output \o Bytes(Seal(ctx.chain, Filled(block)),
                                      CipherLength(job.key_bits))
         /\ position' = position + Len(block)
  /\ UNCHANGED <<pc, job, data, count, extra, ctx, status, text>>

(* PrivateDecrypt of what one Read finds, taken for one cipher message.    *)
(* Of anything else the hash does not match: refused, written <<>>.  What  *)
(* is longer is also copied beyond the fields of CipherImpl, and whatever  *)
(* comes of that is not a block that was encrypted.                        *)
Opened(block) ==
  IF Whole(block, CipherLength(job.key_bits)) THEN {Newest(block[1].of)}
  ELSE {<<>>} \cup IF Len(block) <= CipherLength(job.key_bits) THEN {}
                   ELSE {Wrong(Len(block) - HeaderLength(job.key_bits))}

Sm2DecryptBlock ==
  /\ pc = "sm2"
  /\ ~job.do_encrypt
  /\ Available > 0
  /\ LET block == Read(DecryptBufferSize)
     IN  /\ position' = position + Len(block)
         /\ \E plain \in Opened(block) :
              IF plain = <<>>
              THEN /\ Answer("INTERNAL")
                   /\ UNCHANGED output
              ELSE /\ output' = output \o plain
                   /\ UNCHANGED <<pc, status>>
  /\ UNCHANGED <<job, data, count, extra, ctx, text>>

Sm2Return ==
  /\ pc = "sm2"
  /\ Available = 0
  /\ Answer("OK")
  /\ UNCHANGED <<job, data, position, output, count, extra, ctx, text>>

--------------------------------------------------------------------------------
Texts(j) ==
  UNION {[1..n -> Byte] : n \in 0 .. IF j.scheme = "sm2" THEN MaxSm2 ELSE MaxAes}

Init ==
  /\ pc = "idle"
  /\ job \in {j \in Job : j.do_encrypt}
  /\ data = <<>>
  /\ position = 0
  /\ output = <<>>
  /\ count = 0
  /\ extra = 0
  /\ ctx = [chain |-> Start(job), buf |-> <<>>]
  /\ status = "none"
  /\ text \in Texts(job)

Next ==
  \/ Encrypt
  \/ Decrypt
  \/ EncryptBlock
  \/ DecryptBlock
  \/ CryptReturn
  \/ Sm2EncryptBlock
  \/ Sm2DecryptBlock
  \/ Sm2Return

Spec == Init /\ [][Next]_vars
================================================================================
