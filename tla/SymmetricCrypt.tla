---------------------------- MODULE SymmetricCrypt ----------------------------
(***************************************************************************)
(* CTRSymmetricCrypt (crypto/symmetric_crypt.cc) under SymmetricEncryptor: *)
(* a sender encrypts one text piece by piece, a receiver decrypts what has *)
(* arrived, cut as it likes.  Each has an object of its own, with the same *)
(* key.  The counter is all that an object keeps between two calls.        *)
(*                                                                         *)
(* A counter is two words of 8 bytes, high before low; here a word takes   *)
(* WordSize values.  Key stream is symbolic: a byte of it is the counter   *)
(* it comes from and its place.  A byte of text is its place in the text   *)
(* and the key stream it is mixed with; mixed with the same again, it is   *)
(* mixed with none.                                                        *)
(***************************************************************************)
EXTENDS Integers, Sequences

LOCAL INSTANCE SequencesExt

CONSTANTS
  WordSize,      \* values of one of the counter's two words
  BlockLength,   \* kBlockLength: bytes of key stream from one counter
  MaxStream      \* bound: bytes of text in a conversation

ASSUME CtrAssumption ==
  /\ WordSize \in Nat /\ WordSize > 1
  /\ BlockLength \in Nat /\ BlockLength > 1
  /\ MaxStream \in Nat

Side == {"sender", "receiver"}

Word == 0..(WordSize - 1)
Counter == Word \X Word
NoCounter == <<>>

VARIABLES
  counter,   \* counter_ of either side's object, NoCounter for a null pointer
  agreed,    \* the counter the two sides have agreed on
  sent,      \* pieces of cipher text, in the order Encrypt made them
  opened     \* pieces of text, in the order Decrypt made them

ctrVars == <<counter, agreed, sent, opened>>

------------------------------------------------------------------------------
(* class Counter, and the mask made with it, which nothing calls.          *)

Number(c) == c[1] * WordSize + c[2]

Increment(c) ==
  LET low == (c[2] + 1) % WordSize IN
  <<IF low < c[2] THEN (c[1] + 1) % WordSize ELSE c[1], low>>

BlocksFor(n) == (n + BlockLength - 1) \div BlockLength

CounterAfter(c, n) ==
  LET after[i \in 0..n] == IF i = 0 THEN c ELSE Increment(after[i - 1])
  IN  after[n]

GenerateCounterMask(c, n) ==
  [i \in 1..(BlocksFor(n) * BlockLength) |->
     <<CounterAfter(c, (i - 1) \div BlockLength), (i - 1) % BlockLength>>]

------------------------------------------------------------------------------
(* AES_ctr128_encrypt: the counter is one number, and goes on by one for   *)
(* each block of key stream that was begun.                                *)

CounterPlus(c, n) ==
  LET sum == (Number(c) + n) % (WordSize * WordSize)
  IN  <<sum \div WordSize, sum % WordSize>>

KeyStream(c, n) ==
  [i \in 1..n |-> <<CounterPlus(c, (i - 1) \div BlockLength), (i - 1) % BlockLength>>]

Mix(byte, key) ==
  [byte EXCEPT !.keys = IF key \in @ THEN @ \ {key} ELSE @ \cup {key}]

MixAll(bytes, keys) == [i \in DOMAIN bytes |-> Mix(bytes[i], keys[i])]

------------------------------------------------------------------------------
CtrInit ==
  /\ counter = [s \in Side |-> NoCounter]
  /\ agreed \in Counter
  /\ sent = <<>>
  /\ opened = <<>>

(* Both sides set the counter once, before the first piece; one that is    *)
(* too short is refused, whenever it comes.                                *)
SetCounter(s, c, length) ==
  /\ IF length # BlockLength THEN UNCHANGED counter
     ELSE /\ counter[s] = NoCounter /\ c = agreed
          /\ counter' = [counter EXCEPT ![s] = c]
  /\ UNCHANGED <<agreed, sent, opened>>

(* What Crypt leaves in counter_: where AES_ctr128_encrypt left it.  The   *)
(* rest of a block that was begun is never used.                           *)
NextCounterX(c, n) == CounterPlus(c, n \div BlockLength)

NextCounter(c, n) == CounterPlus(c, BlocksFor(n))

(* Crypt on n bytes of input, which are at least one (CHECK_GT).  Without  *)
(* a counter it returns false.                                             *)
Crypt(s, input) ==
  /\ counter[s] # NoCounter
  /\ input # <<>>
  /\ counter' = [counter EXCEPT ![s] = NextCounter(@, Len(input))]

Refuse(s) == counter[s] = NoCounter /\ UNCHANGED ctrVars

CtrOutput(s, input) == MixAll(input, KeyStream(counter[s], Len(input)))

(* n bytes of text from place p on.                                        *)
PlainText(p, n) == [i \in 1..n |-> [place |-> p + i, keys |-> {}]]

CtrEncrypt(n) ==
  LET input == PlainText(Len(FlattenSeq(sent)), n) IN
  /\ Len(FlattenSeq(sent)) + n <= MaxStream
  /\ Crypt("sender", input)
  /\ sent' = Append(sent, CtrOutput("sender", input))
  /\ UNCHANGED <<agreed, opened>>

CtrDecrypt(n) ==
  LET arrived == FlattenSeq(sent)
      done == Len(FlattenSeq(opened))
      input == SubSeq(arrived, done + 1, done + n)
  IN
  /\ done + n <= Len(arrived)
  /\ Crypt("receiver", input)
  /\ opened' = Append(opened, CtrOutput("receiver", input))
  /\ UNCHANGED <<agreed, sent>>

CtrNext ==
  \/ \E s \in Side, c \in Counter, length \in {BlockLength - 1, BlockLength} :
       SetCounter(s, c, length)
  \/ \E s \in Side : Refuse(s)
  \/ \E n \in 1..MaxStream : CtrEncrypt(n)
  \/ \E n \in 1..MaxStream : CtrDecrypt(n)

CtrSpec == CtrInit /\ [][CtrNext]_ctrVars
=============================================================================
