------------------------- MODULE SymmetricCryptProps -------------------------
(***************************************************************************)
(* What is asked of CTR mode over many calls.                              *)
(***************************************************************************)
EXTENDS SymmetricCrypt

LOCAL INSTANCE SequencesExt

(* Blocks of key stream that the pieces have begun.                        *)
BlocksBegun(pieces) ==
  LET upto[k \in 0..Len(pieces)] ==
        IF k = 0 THEN 0 ELSE upto[k - 1] + BlocksFor(Len(pieces[k]))
  IN  upto[Len(pieces)]

(* Until the counter has been all round, no byte of key stream is used for *)
(* two bytes of text, within a call or in two of them.                     *)
KeysUsedOnce ==
  LET cipher == FlattenSeq(sent) IN
  BlocksBegun(sent) <= WordSize * WordSize =>
    \A i, j \in DOMAIN cipher : cipher[i].keys = cipher[j].keys => i = j

(* The text positions at which pieces end.                                 *)
Cuts(pieces) ==
  {Len(FlattenSeq(SubSeq(pieces, 1, k))) : k \in 1..Len(pieces)}

(* Whether the pieces before place i were cut alike, or at whole blocks.   *)
InStep(i) ==
  \/ Cuts(sent) \cap 1..(i - 1) = Cuts(opened) \cap 1..(i - 1)
  \/ \A c \in (Cuts(sent) \cup Cuts(opened)) \cap 1..(i - 1) : c % BlockLength = 0

(* The receiver has the text back wherever it cut the cipher text as the   *)
(* sender did, or both cut it between blocks.                              *)
OpensInStep ==
  LET text == FlattenSeq(opened) IN
  \A i \in DOMAIN text : InStep(i) => text[i] = [place |-> i, keys |-> {}]

(* GenerateCounterMask, with its counter of two words, makes the key       *)
(* stream that AES_ctr128_encrypt makes with one number.                   *)
MaskIsKeyStream ==
  \A s \in Side : counter[s] # NoCounter =>
    \A n \in 1..MaxStream :
      SubSeq(GenerateCounterMask(counter[s], n), 1, n) = KeyStream(counter[s], n)

(* The key stream goes on from call to call: no part of it serves twice,   *)
(* and the receiver can follow it.                                         *)
StreamGoesOn == KeysUsedOnce /\ OpensInStep /\ MaskIsKeyStream
==============================================================================
