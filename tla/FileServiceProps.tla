--------------------------- MODULE FileServiceProps ---------------------------
(***************************************************************************)
(* What is asked of the file handlers, as modelled in FileService.         *)
(***************************************************************************)
EXTENDS FileService
LOCAL INSTANCE SequencesExt

(* The cipher text of a text as a whole; a text shorter than a block has   *)
(* none.                                                                   *)
FileImage(blocks) ==
  IF blocks = <<>> THEN <<>>
  ELSE LET padded == Append(blocks, PaddingBlock) IN
       [i \in 1..Len(padded) |-> CipherBlock(SubSeq(padded, 1, i))]

TextOf(c) == IF c = <<>> THEN <<>> ELSE Front(Last(c)[2])

IsImage(c) ==
  c # <<>> => Last(c)[1] = "cipher" /\ c = FileImage(TextOf(c))

(* As long as nobody else opens its files to write them, and the disk      *)
(* takes what it is given: a handler that answers OK leaves in its target  *)
(* the cipher text of what was in the source when it was opened, or the    *)
(* text of which that is the cipher text; and whenever one looks, also     *)
(* after the end of the process, the target has a beginning of that.       *)
(* Another handler may read the target, and write the source later.        *)
FilesAreWhole ==
  \A h \in undisturbed :
    LET c == content[request[h].target]
        whole == IF request[h].do_encrypt THEN FileImage(taken[h]) ELSE TextOf(taken[h]) IN
    at[h] # "source" /\ (request[h].do_encrypt \/ IsImage(taken[h])) =>
      /\ IsPrefix(c, whole)
      /\ at[h] = "idle" => reply[h] # "INTERNAL" /\ (reply[h] = "OK" => c = whole)
==============================================================================
