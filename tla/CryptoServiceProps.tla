-------------------------- MODULE CryptoServiceProps --------------------------
(***************************************************************************)
(* What is asked of the handlers in CryptoService.                         *)
(***************************************************************************)
EXTENDS CryptoService

Plain == Byte \cup {NoByte}

(* What a chain begins with. *)
Vector == {"kDefaultCbcIV", "iv", "zeros"}

(* Blocks of plain text, and the bytes of the cipher text they become. *)
Block == [1 .. IF job.scheme = "sm2" THEN EncryptBlockSize ELSE AesBlockSize -> Plain]
CipherByte == [of : [iv : Vector, blocks : Seq(Block) \ {<<>>}], at : Nat]

FieldsOK ==
  /\ pc \in {"idle", "crypt", "sm2"}
  /\ job \in Job
  /\ data \in Seq(IF job.do_encrypt THEN Plain ELSE CipherByte)
  /\ output \in Seq(IF job.do_encrypt THEN CipherByte ELSE Plain)
  /\ position \in 0..Len(data)
  /\ count \in Nat
  /\ extra \in 0..(AesBlockSize - 1)
  /\ ctx \in [chain : [iv : Vector, blocks : Seq(Block)], buf : Seq(Plain)]
  /\ status \in {"none", "OK", "INTERNAL"}
  /\ text \in Seq(Byte)

(* Plain text goes in and cipher text comes out, or the other way round.   *)
(* Counters and positions are natural numbers, within the data.  The       *)
(* assertion DCHECK(in->Read(&in_buf) == in_buf.size()) of CryptInternal   *)
(* holds each time: the sizes it computes in advance are what is there.    *)
TypeOK ==
  /\ FieldsOK
  /\ pc = "crypt" /\ count > 0 => Len(Read(InSize)) = InSize

(* The cipher text of a whole plain text at once: pad it, cut it into      *)
(* blocks, encrypt each.                                                   *)
PaddedText(plain) ==
  LET n == AesBlockSize - (Len(plain) % AesBlockSize)
  IN  [i \in 1 .. Len(plain) + n |-> IF i <= Len(plain) THEN plain[i] ELSE n]

BlockAt(plain, i) ==
  SubSeq(PaddedText(plain), (i - 1) * AesBlockSize + 1, i * AesBlockSize)

Origin == Start([job EXCEPT !.do_encrypt = TRUE]).iv

SealedAt(plain, i) ==
  [iv |-> Origin,
   blocks |-> IF job.scheme = "ecb" THEN <<BlockAt(plain, i)>>
              ELSE [h \in 1..i |-> BlockAt(plain, h)]]

Image(plain) ==
  [k \in 1 .. Len(PaddedText(plain)) |->
    [of |-> SealedAt(plain, (k - 1) \div AesBlockSize + 1),
     at |-> ((k - 1) % AesBlockSize) + 1]]

IsInitialPart(s, t) == Len(s) <= Len(t) /\ s = SubSeq(t, 1, Len(s))

(* What CryptInternal has written so far is the beginning of the cipher    *)
(* text of the message as a whole, and all of it when the handler answers: *)
(* reading block by block, with the rest joined to the last block, leaves  *)
(* no trace.  Of a text shorter than one block nothing is written.         *)
CipherIsImage ==
  job.do_encrypt /\ job.scheme # "sm2" =>
    /\ Len(data) >= AesBlockSize => IsInitialPart(output, Image(data))
    /\ status = "OK" =>
         output = IF Len(data) >= AesBlockSize THEN Image(data) ELSE <<>>

(* Decryption never writes anything but the beginning of the text, wherever *)
(* the cipher text it is given was cut off, also when it then fails.       *)
DecryptsOnlyTheText ==
  ~job.do_encrypt /\ job.scheme # "sm2" => IsInitialPart(output, text)

(* The text comes back from decryption of the whole cipher text, if it has *)
(* a whole block.                                                          *)
DecryptInverts ==
  ~job.do_encrypt /\ job.scheme # "sm2" /\ Len(text) >= AesBlockSize
  /\ status # "none" /\ data = Image(text) =>
    status = "OK" /\ output = text

(* The text comes back from decryption of the whole SM2 cipher text, with  *)
(* zeros up to the end of the last block: the test expects PrivateKeyDecrypt *)
(* to return true and its output to begin with the text.                   *)
Sm2RoundTrip ==
  ~job.do_encrypt /\ job.scheme = "sm2" /\ status # "none"
  /\ Len(data) = CipherLength(job.key_bits)
                   * ((Len(text) + EncryptBlockSize - 1) \div EncryptBlockSize) =>
    status = "OK" /\ IsInitialPart(text, output)
================================================================================
