----------------------------- MODULE PickleProps -----------------------------
(***************************************************************************)
(* What is asked of pickles.                                               *)
(***************************************************************************)
EXTENDS Pickle

(* The payload of an owned pickle fits into its memory, which is a number  *)
(* of whole units; it is made of whole words, and all of it has been       *)
(* written here, or none (in a read-only pickle or a copy of one).         *)
FitsMemory ==
  \A o \in Object : LET p == pickle[o] IN
    p # Absent =>
      /\ Len(p.payload) % 4 = 0
      /\ p.write_offset \in {0, Len(p.payload)}
      /\ Owned(p) => Len(p.payload) <= p.capacity /\ p.capacity % PayloadUnit = 0

(* What a read of an item that was written as number id has to find.       *)
Written(item, id) ==
  IF item.kind = "bool" THEN <<BytesOf(id, 4)[1]>> ELSE BytesOf(id, item.size)

(* An iterator that reads the kinds of values that were written finds each *)
(* of them, and after the last one nothing: a further read fails.          *)
ReadsBack(p, held) ==
  LET index[n \in 0..Len(held)] ==
        IF n = 0 THEN 0 ELSE ReadItem(p, index[n - 1], held[n]).next
  IN
  /\ p # Absent
  /\ \A n \in 1..Len(held) :
       LET read == ReadItem(p, index[n - 1], held[n]) IN
       read.ok /\ read.found = Written(held[n], n)
  /\ index[Len(held)] = Len(p.payload)
  /\ \A size \in 1..8 : ~ReadAt(p, Len(p.payload), size).ok

(* FindNext cuts the stream into the pickles that were sent, and finds     *)
(* none as long as a byte of the first one is missing.                     *)
StreamIsCut ==
  LET rest(start) == SubSeq(stream, start + 1, Len(stream))
      start[n \in 0..Len(queued)] ==
        IF n = 0 THEN 0
        ELSE start[n - 1] + FindNext(StreamHeader, rest(start[n - 1]),
                                     Len(stream) - start[n - 1])
  IN
  /\ start[Len(queued)] = Len(stream)
  /\ \A n \in 1..Len(queued) :
       ReadsBack(FromData(SubSeq(stream, start[n - 1] + 1, start[n])), queued[n])
  /\ queued # <<>> =>
       \A arrived \in 0..(start[1] - 1) : FindNext(StreamHeader, stream, arrived) = 0

(* Values come back as they were written: from the pickle, from its copies *)
(* and assignments, and at the end of a stream of pickles.                 *)
PicklesReadBack ==
  /\ FitsMemory
  /\ \A o \in Object : pickle[o] # Absent => ReadsBack(pickle[o], items[o])
  /\ StreamIsCut
==============================================================================
