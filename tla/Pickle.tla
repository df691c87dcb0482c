-------------------------------- MODULE Pickle --------------------------------
(***************************************************************************)
(* base::Pickle (base/pickle.cc): values written one after the other into  *)
(* a buffer that grows, each filled up to four bytes; PickleIterator,      *)
(* which reads them back; FindNext, which cuts a stream of pickles.        *)
(*                                                                         *)
(* A program makes pickles, writes to them, copies and assigns them, and   *)
(* sends them down a stream; a receiver finds the first pickle of what has *)
(* arrived with FindNext and makes a read-only one of its bytes.  A byte   *)
(* is symbolic: the value it belongs to and its place in it.  Memory is    *)
(* not modelled: Resize changes the capacity.                              *)
(***************************************************************************)
EXTENDS Integers, Sequences

CONSTANTS
  Object,          \* variables that may hold a pickle
  PayloadUnit,     \* kPayloadUnit
  PickleHeapAlign, \* kPickleHeapAlign
  HeaderSizes,     \* sizes of headers, already multiples of four
  StreamHeader,    \* the header of pickles that are sent
  Kinds,           \* the values written: [kind |-> ..., size |-> ...]
  Reservations,    \* arguments of Reserve
  MaxItems,        \* bound: values in a pickle
  MaxInFlight      \* bound: bytes in the stream

ASSUME PickleAssumption ==
  /\ PayloadUnit \in Nat \ {0} /\ PayloadUnit % 4 = 0
  /\ PickleHeapAlign \in Nat \ {0} /\ PickleHeapAlign % PayloadUnit = 0
  /\ HeaderSizes \subseteq {4 * n : n \in 1..(PayloadUnit \div 4)}
  /\ StreamHeader \in HeaderSizes
  /\ Kinds \subseteq [kind : {"bool", "pod", "string", "bytes"}, size : Nat]
  /\ Reservations \subseteq Nat
  /\ MaxItems \in Nat /\ MaxInFlight \in Nat

VARIABLES
  pickle,   \* each object: header_size_, capacity_after_header_,
            \* write_offset_ and the payload; Absent before its constructor
  stream,   \* bytes that were sent and not yet taken
  items,    \* history: the values in each object
  queued    \* history: the values in each pickle of the stream

pickleVars == <<pickle, stream, items, queued>>

Absent == [header_size |-> 0]
ReadOnly == -1        \* kCapacityReadOnly

------------------------------------------------------------------------------
(* bits::Align, for every alignment rather than powers of two.             *)
Align(n, alignment) == ((n + alignment - 1) \div alignment) * alignment

Larger(a, b) == IF a > b THEN a ELSE b

(* The bytes of value number `id`, of a length (WriteInt32), and the bytes *)
(* that fill up to four.                                                   *)
BytesOf(id, size) == [k \in 1..size |-> <<"value", id, k>>]
LengthBytes(size) == [k \in 1..4 |-> <<"length", size, k>>]
Padding(n) == [k \in 1..n |-> <<"padding", 0, 0>>]

Resize(p, new_capacity) == [p EXCEPT !.capacity = Align(new_capacity, PayloadUnit)]

(* ClaimUninitializedBytesInternal and the copy into what it claims.       *)
GrownCapacity(p, new_size) ==
  LET twice == p.capacity * 2 IN
  Larger(new_size, IF twice > PickleHeapAlign
                   THEN Align(twice, PickleHeapAlign) - PayloadUnit
                   ELSE twice)

WriteBytes(p, bytes) ==
  LET data_len == Align(Len(bytes), 4)
      new_size == p.write_offset + data_len
      room == IF new_size > p.capacity THEN Resize(p, GrownCapacity(p, new_size)) ELSE p
  IN
  [room EXCEPT
     !.payload = SubSeq(@, 1, p.write_offset) \o bytes \o Padding(data_len - Len(bytes)),
     !.write_offset = new_size]

(* WriteBool writes four bytes; WriteString and WriteData a length first.  *)
WriteItem(p, item, id) ==
  IF item.kind = "bool" THEN WriteBytes(p, BytesOf(id, 4))
  ELSE IF item.kind = "string"
  THEN WriteBytes(WriteBytes(p, LengthBytes(item.size)), BytesOf(id, item.size))
  ELSE WriteBytes(p, BytesOf(id, item.size))

------------------------------------------------------------------------------
(* PickleIterator.  A read gives the index after it and what it finds;     *)
(* <<>> and the end of the payload when that is too short.                 *)

AdvanceBy(end, index, size) ==
  LET aligned_size == Align(size, 4) IN
  IF end - index < aligned_size THEN end ELSE index + aligned_size

ReadAt(p, index, size) ==
  LET end == Len(p.payload) IN
  IF size < 0 \/ end - index < size THEN [ok |-> FALSE, next |-> end, found |-> <<>>]
  ELSE [ok |-> TRUE, next |-> AdvanceBy(end, index, size),
        found |-> SubSeq(p.payload, index + 1, index + size)]

(* What an int32 of these bytes is, if it was written as a length.         *)
LengthFrom(bytes) == IF bytes # <<>> /\ bytes[1][1] = "length" THEN bytes[1][2] ELSE -1

(* ReadBool reads one byte of the four.                                    *)
ReadItem(p, index, item) ==
  IF item.kind = "bool" THEN ReadAt(p, index, 1)
  ELSE IF item.kind = "string"
  THEN LET length == ReadAt(p, index, 4) IN
       IF ~length.ok THEN length ELSE ReadAt(p, length.next, LengthFrom(length.found))
  ELSE ReadAt(p, index, item.size)

------------------------------------------------------------------------------
(* The bytes at data(): the header, of which the first four hold the size  *)
(* of the payload, and the payload.                                        *)
SizeBytes(n) == [k \in 1..4 |-> <<"payload_size", n, k>>]

Data(p) == SizeBytes(Len(p.payload)) \o Padding(p.header_size - 4) \o p.payload

(* FindNext on the first `length` bytes of a stream: how many the first    *)
(* pickle takes, 0 if they are not all there.                              *)
FindNext(header_size, bytes, length) ==
  IF length < 4 \/ length < header_size THEN 0
  ELSE LET pickle_size == header_size + bytes[1][2] IN
       IF pickle_size > length THEN 0 ELSE pickle_size

(* Pickle(data, data_len).                                                 *)
FromData(bytes) ==
  LET header_size == Len(bytes) - bytes[1][2] IN
  IF \/ Len(bytes) < 4
     \/ header_size < 0 \/ header_size > Len(bytes)
     \/ header_size # Align(header_size, 4) \/ header_size = 0
  THEN Absent
  ELSE [header_size |-> header_size, capacity |-> ReadOnly, write_offset |-> 0,
        payload |-> SubSeq(bytes, header_size + 1, Len(bytes))]

------------------------------------------------------------------------------
PickleInit ==
  /\ pickle = [o \in Object |-> Absent]
  /\ stream = <<>>
  /\ items = [o \in Object |-> <<>>]
  /\ queued = <<>>

Set(o, p, held) ==
  /\ pickle' = [pickle EXCEPT ![o] = p]
  /\ items' = [items EXCEPT ![o] = held]

(* Pickle() and Pickle(int header_size).                                   *)
Construct(o, header_size) ==
  LET bare == [header_size |-> header_size, capacity |-> 0, write_offset |-> 0,
               payload |-> <<>>]
  IN
  /\ pickle[o] = Absent
  /\ Set(o, Resize(bare, PayloadUnit), <<>>)
  /\ UNCHANGED <<stream, queued>>

(* Only a pickle with memory of its own is written to (DCHECK_NE).         *)
Owned(p) == p # Absent /\ p.capacity # ReadOnly

(* A pickle copied from a read-only one has its write_offset_, 0: the next *)
(* write starts over at the beginning of the payload.                      *)
Write(o, item) ==
  LET p == pickle[o]
      kept == IF p.write_offset = 0 THEN <<>> ELSE items[o]
  IN
  /\ Owned(p)
  /\ Len(kept) < MaxItems
  /\ Set(o, WriteItem(p, item, Len(kept) + 1), Append(kept, item))
  /\ UNCHANGED <<stream, queued>>

Reserve(o, length) ==
  LET p == pickle[o] IN
  /\ Owned(p)
  /\ p.write_offset + Align(length, 4) > p.capacity
  /\ Set(o, Resize(p, p.capacity * 2 + p.write_offset + Align(length, 4)), items[o])
  /\ UNCHANGED <<stream, queued>>

(* The copy constructor and operator=: all but the capacity, which is what *)
(* the payload needs, whatever this pickle had.                            *)
CopiedX(p) == Resize(p, p.write_offset)

Copied(p) == Resize(p, Len(p.payload))

Assign(o, other) ==
  /\ pickle[other] # Absent
  /\ Set(o, Copied(pickle[other]), items[other])
  /\ UNCHANGED <<stream, queued>>

Destroy(o) ==
  /\ pickle[o] # Absent
  /\ Set(o, Absent, <<>>)
  /\ UNCHANGED <<stream, queued>>

(* The program writes data(), of size() bytes, to the stream.              *)
Send(o) ==
  /\ pickle[o] # Absent
  /\ pickle[o].header_size = StreamHeader
  /\ Len(stream) + Len(Data(pickle[o])) <= MaxInFlight
  /\ stream' = stream \o Data(pickle[o])
  /\ queued' = Append(queued, items[o])
  /\ UNCHANGED <<pickle, items>>

(* The first `length` bytes of the stream have arrived.                    *)
Receive(o, length) ==
  LET size == FindNext(StreamHeader, stream, length) IN
  /\ pickle[o] = Absent
  /\ size # 0
  /\ Set(o, FromData(SubSeq(stream, 1, size)), queued[1])
  /\ stream' = SubSeq(stream, size + 1, Len(stream))
  /\ queued' = SubSeq(queued, 2, Len(queued))

PickleNext ==
  \/ \E o \in Object, h \in HeaderSizes : Construct(o, h)
  \/ \E o \in Object, item \in Kinds : Write(o, item)
  \/ \E o \in Object, length \in Reservations : Reserve(o, length)
  \/ \E o, other \in Object : o # other /\ Assign(o, other)
  \/ \E o \in Object : Destroy(o) \/ Send(o)
  \/ \E o \in Object, length \in 0..Len(stream) : Receive(o, length)

PickleSpec == PickleInit /\ [][PickleNext]_pickleVars
=============================================================================
