---------------------------- MODULE ResultsProps ----------------------------
(***************************************************************************)
(* What is asked of statements and results, as modelled in Results.        *)
(***************************************************************************)
EXTENDS Results

ResultsTypeOK ==
  /\ held_connection \in [Holder -> Link \cup {NoLink}]
  /\ db_statement \in [StatementVar \cup ResultVar -> Native \cup {NoNative}]
  /\ db_result \in [ResultVar -> Answer \cup {NoAnswer}]
  /\ eof \subseteq ResultVar
  /\ available \subseteq Link
  /\ prepared_on \in [Native -> Link \cup {NoLink}]
  /\ statement \in [Answer -> Native \cup {NoNative}]
  /\ current_row \in [Answer -> Nat]
  /\ stored \in [Native \cup Answer ->
                   [total : Nat, taken : Nat, answer : Answer \cup {NoAnswer}]]
  /\ single \subseteq Answer

ProgramOf(h) == IF h \in Program THEN h ELSE Owner[h]

(* What a program can still use is on a connection that is its alone: each *)
(* statement and result holds the connection its statement was prepared    *)
(* on, which is not in the pool and in no other program's hands, however   *)
(* the program closed its session, copied, cleared and prepared meanwhile. *)
HeldTogether ==
  \A h \in Holder :
    LET c == held_connection[h] IN
    /\ c # NoLink =>
         /\ c \notin available
         /\ \A g \in Holder : held_connection[g] = c => ProgramOf(g) = ProgramOf(h)
    /\ h \notin Program =>
         (IF db_statement[h] = NoNative THEN c = NoLink
          ELSE c # NoLink /\ prepared_on[db_statement[h]] = c)

(* Until its statement is run again, and through however many copies of a  *)
(* result: none reports the end before the last row was taken, HasNext is  *)
(* true exactly if there is another row, and what Row returns has one row, *)
(* which it stands on, or none, which Empty() tells.                       *)
NothingMissed ==
  \A r \in ResultVar :
    LET a == db_result[r]
        kept == stored[Keeper(statement[a], a)] IN
    a # NoAnswer /\ Whole(a) =>
      /\ r \in eof => kept.taken = kept.total
      /\ HasNext(current_row[a], kept.total) <=> kept.taken < kept.total
      /\ a \in single => kept.taken = kept.total /\ kept.total <= 1
      /\ a \in single /\ kept.total = 0 => r \in eof

ResultsAreWhole == HeldTogether /\ NothingMissed
==============================================================================
