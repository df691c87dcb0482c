----------------------------- MODULE FileService -----------------------------
(***************************************************************************)
(* The file handlers of service/symmetric_service.cc, which run            *)
(* CryptInternal between a FileInputStream and a FileOutputStream, several *)
(* at a time and on any files.                                             *)
(*                                                                         *)
(* A file is a sequence of blocks; what CryptInternal does with the bytes  *)
(* of a block, and with a rest, is in CryptoService.  A block is a pair: a *)
(* block of plain text, or one of cipher text with all the blocks that it  *)
(* was chained from.  stdio reads ahead and writes behind as it likes.     *)
(* A signal ends the process, or a DCHECK, as when a source is shorter     *)
(* than it was; the next process begins with the same files.               *)
(***************************************************************************)
EXTENDS Naturals, Sequences
LOCAL INSTANCE SequencesExt

CONSTANTS
  File, Handler,
  Text,          \* that a client puts down: sequences, of anything
  MaxBlocks,     \* bound on what is encrypted
  MaxHandled,    \* bound on requests
  Missing        \* in place of the contents of a file, or of a request

ASSUME FileAssumption ==
  /\ MaxBlocks \in Nat
  /\ MaxHandled \in Nat
  /\ \A t \in Text : Len(t) \in Nat

PlainBlock(x) == <<"plain", x>>
CipherBlock(blocks) == <<"cipher", blocks>>
PaddingBlock == <<"padding", <<>>>>
Garbled == <<"garbled", <<>>>>   \* what is made of anything else
Hole == <<"hole", <<>>>>         \* where nothing was written

VARIABLES
  content,       \* of each file
  at,            \* "idle", "source" once the source is open, "loop" from then on
  request,       \* of each handler: source, target and do_encrypt
  turns,         \* count
  fed,           \* blocks the cipher has taken
  ahead,         \* in the buffer of the source
  behind,        \* in the buffer of the target
  written,       \* blocks written to the target
  reply,
  handled,       \* number of requests
  taken,         \* history: the source as it was when it was opened
  undisturbed    \* history: handlers whose files nobody else wrote, on a
                 \* disk that took everything

fileVars == <<content, at, request, turns, fed, ahead, behind, written, reply,
              handled, taken, undisturbed>>

Request == [source : File, target : File, do_encrypt : BOOLEAN]

FilesInit ==
  /\ content = [f \in File |-> Missing]
  /\ at = [h \in Handler |-> "idle"]
  /\ request = [h \in Handler |-> Missing]
  /\ turns = [h \in Handler |-> 0]
  /\ fed = [h \in Handler |-> <<>>]
  /\ ahead = [h \in Handler |-> <<>>]
  /\ behind = [h \in Handler |-> <<>>]
  /\ written = [h \in Handler |-> 0]
  /\ reply = [h \in Handler |-> "none"]
  /\ handled = 0
  /\ taken = [h \in Handler |-> <<>>]
  /\ undisturbed = {}

Reads(h, f) == at[h] # "idle" /\ request[h].source = f
Writes(h, f) == at[h] = "loop" /\ request[h].target = f

(* A client puts down a text.                                              *)
PutFile(f) ==
  /\ content[f] = Missing
  /\ \E t \in Text : content' = [content EXCEPT ![f] = [i \in 1..Len(t) |-> PlainBlock(t[i])]]
  /\ UNCHANGED <<at, request, turns, fed, ahead, behind, written, reply, handled,
                 taken, undisturbed>>

------------------------------------------------------------------------------
(* Opening.                                                                *)

(* The source is opened and measured; what is read is bounded by that.     *)
OpenSource(h, r) ==
  /\ at[h] = "idle"
  /\ handled < MaxHandled
  /\ handled' = handled + 1
  /\ request' = [request EXCEPT ![h] = r]
  /\ IF content[r.source] = Missing
     THEN /\ reply' = [reply EXCEPT ![h] = "INVALID_ARGUMENT"]
          /\ undisturbed' = undisturbed \ {h}
          /\ UNCHANGED <<at, turns, taken>>
     ELSE /\ r.do_encrypt => Len(content[r.source]) <= MaxBlocks
          /\ at' = [at EXCEPT ![h] = "source"]
          /\ reply' = [reply EXCEPT ![h] = "none"]
          /\ turns' = [turns EXCEPT ![h] = Len(content[r.source])]
          /\ taken' = [taken EXCEPT ![h] = content[r.source]]
          /\ undisturbed' = IF \E g \in Handler : Writes(g, r.source)
                            THEN undisturbed \ {h} ELSE undisturbed \cup {h}
  /\ UNCHANGED <<content, fed, ahead, behind, written>>

(* fopen with mode "w".                                                    *)
OpenedToWriteX(f) == IF content[f] = Missing THEN <<>> ELSE content[f]
OpenedToWrite(f) == <<>>

(* Those who read f, are writing it or have written it, are disturbed.     *)
OpenTarget(h) ==
  LET f == request[h].target IN
  /\ at[h] = "source"
  /\ at' = [at EXCEPT ![h] = "loop"]
  /\ content' = [content EXCEPT ![f] = OpenedToWrite(f)]
  /\ undisturbed' =
       {g \in undisturbed :
          /\ ~Reads(g, f)
          /\ g # h /\ at[g] # "source" => request[g].target # f
          /\ g = h => \A other \in Handler : ~Writes(other, f)}
  /\ UNCHANGED <<request, turns, fed, ahead, behind, written, reply, handled, taken>>

Emptied(h) ==
  /\ turns' = [turns EXCEPT ![h] = 0]
  /\ fed' = [fed EXCEPT ![h] = <<>>]
  /\ ahead' = [ahead EXCEPT ![h] = <<>>]
  /\ behind' = [behind EXCEPT ![h] = <<>>]
  /\ written' = [written EXCEPT ![h] = 0]

OpenTargetFails(h) ==
  /\ at[h] = "source"
  /\ at' = [at EXCEPT ![h] = "idle"]
  /\ reply' = [reply EXCEPT ![h] = "INVALID_ARGUMENT"]
  /\ undisturbed' = undisturbed \ {h}
  /\ Emptied(h)
  /\ UNCHANGED <<content, request, handled, taken>>

------------------------------------------------------------------------------
(* The loop.                                                               *)

(* The buffer of the source is filled, from what is in the file by now.    *)
ReadAhead(h) ==
  LET place == Len(fed[h]) + Len(ahead[h])
      c == content[request[h].source] IN
  /\ at[h] # "idle"
  /\ Len(ahead[h]) < turns[h]
  /\ place < Len(c)
  /\ ahead' = [ahead EXCEPT ![h] = Append(@, c[place + 1])]
  /\ UNCHANGED <<content, at, request, turns, fed, behind, written, reply, handled,
                 taken, undisturbed>>

(* The cipher makes sense only of a block it made, after its predecessor.  *)
Deciphered(before, b) ==
  LET blocks == b[2] IN
  IF /\ b[1] = "cipher"
     /\ IF before = <<>> THEN Len(blocks) = 1
        ELSE Last(before) = CipherBlock(Front(blocks))
  THEN Last(blocks) ELSE Garbled

Encipher(h, b) ==
  LET blocks == Append(fed[h], b) IN
  /\ behind' = [behind EXCEPT ![h] =
                  @ \o <<CipherBlock(blocks)>>
                    \o IF turns[h] = 1 THEN <<CipherBlock(Append(blocks, PaddingBlock))>> ELSE <<>>]
  /\ turns' = [turns EXCEPT ![h] = @ - 1]
  /\ UNCHANGED reply

(* The last block is held back, for it is padding.  What is not is refused,*)
(* and the turn writes nothing, or may look like some padding.             *)
Decipher(h, b) ==
  LET before == IF fed[h] = <<>> THEN <<>>
                ELSE <<Deciphered(Front(fed[h]), Last(fed[h]))>>
      writes(rest) == /\ behind' = [behind EXCEPT ![h] = @ \o before \o rest]
                      /\ turns' = [turns EXCEPT ![h] = @ - 1]
                      /\ UNCHANGED reply IN
  IF turns[h] > 1 \/ Deciphered(fed[h], b) = PaddingBlock THEN writes(<<>>)
  ELSE \/ writes(<<Garbled>>)
       \/ /\ turns' = [turns EXCEPT ![h] = 0]
          /\ reply' = [reply EXCEPT ![h] = "INTERNAL"]
          /\ UNCHANGED behind

FileTurn(h) ==
  /\ at[h] = "loop" /\ turns[h] > 0
  /\ ahead[h] # <<>>
  /\ LET b == Head(ahead[h]) IN
     /\ IF request[h].do_encrypt THEN Encipher(h, b) ELSE Decipher(h, b)
     /\ fed' = [fed EXCEPT ![h] = Append(@, b)]
  /\ ahead' = [ahead EXCEPT ![h] = Tail(@)]
  /\ UNCHANGED <<content, at, request, written, handled, taken, undisturbed>>

(* blocks at a place, perhaps beyond the end.                              *)
Overwritten(old, place, blocks) ==
  LET end == place + Len(blocks) IN
  [i \in 1 .. IF Len(old) > end THEN Len(old) ELSE end |->
     IF i \in place + 1 .. end THEN blocks[i - place]
     ELSE IF i <= Len(old) THEN old[i] ELSE Hole]

(* The buffer of the target goes to the file.  What the disk does not take *)
(* is lost, and nobody asks.                                               *)
Flush(h) ==
  LET f == request[h].target IN
  /\ behind[h] # <<>>
  /\ \E n \in 0..Len(behind[h]) :
       /\ content' = [content EXCEPT ![f] =
                        IF n = 0 THEN @
                        ELSE Overwritten(@, written[h], SubSeq(behind[h], 1, n))]
       /\ written' = [written EXCEPT ![h] = @ + n]
       /\ undisturbed' = IF n < Len(behind[h]) THEN undisturbed \ {h} ELSE undisturbed
  /\ behind' = [behind EXCEPT ![h] = <<>>]
  /\ UNCHANGED <<at, request, turns, fed, ahead, reply, handled, taken>>

(* The streams are closed, the target after a last Flush.                  *)
Return(h) ==
  /\ at[h] = "loop" /\ turns[h] = 0
  /\ behind[h] = <<>>
  /\ at' = [at EXCEPT ![h] = "idle"]
  /\ reply' = [reply EXCEPT ![h] = IF @ = "none" THEN "OK" ELSE @]
  /\ Emptied(h)
  /\ UNCHANGED <<content, request, handled, taken, undisturbed>>

EndOfProcess ==
  /\ \E h \in Handler : at[h] # "idle"
  /\ at' = [h \in Handler |-> "idle"]
  /\ reply' = [h \in Handler |-> IF at[h] = "idle" THEN reply[h] ELSE "none"]
  /\ undisturbed' = {h \in undisturbed : at[h] # "source"}
  /\ turns' = [h \in Handler |-> 0]
  /\ fed' = [h \in Handler |-> <<>>]
  /\ ahead' = [h \in Handler |-> <<>>]
  /\ behind' = [h \in Handler |-> <<>>]
  /\ written' = [h \in Handler |-> 0]
  /\ UNCHANGED <<content, request, handled, taken>>

(* Clients clear up after MaxHandled requests, and start again.            *)
RemoveFiles ==
  /\ handled = MaxHandled
  /\ \A h \in Handler : at[h] = "idle"
  /\ content' = [f \in File |-> Missing]
  /\ request' = [h \in Handler |-> Missing]
  /\ reply' = [h \in Handler |-> "none"]
  /\ handled' = 0
  /\ taken' = [h \in Handler |-> <<>>]
  /\ undisturbed' = {}
  /\ UNCHANGED <<at, turns, fed, ahead, behind, written>>

FilesNext ==
  \/ \E f \in File : PutFile(f)
  \/ RemoveFiles
  \/ \E h \in Handler :
       \/ \E r \in Request : OpenSource(h, r)
       \/ OpenTarget(h) \/ OpenTargetFails(h)
       \/ ReadAhead(h) \/ FileTurn(h) \/ Flush(h) \/ Return(h)
  \/ EndOfProcess

FilesSpec == FilesInit /\ [][FilesNext]_fileVars
==============================================================================
