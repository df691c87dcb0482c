------------------------------- MODULE Results -------------------------------
(***************************************************************************)
(* Statements and results as programs hold them (db/frontend/), over the   *)
(* statements and results of the MySQL driver.                             *)
(*                                                                         *)
(* A program has one Session and variables of type Statement and Result,   *)
(* which it fills, copies and clears; each keeps references of its own to  *)
(* what it stands on.  A prepared statement keeps the rows of its last     *)
(* query, for all results to read from; a direct one leaves them to the    *)
(* result.  DBStatement::Dispose returns at once: no statement is deleted. *)
(*                                                                         *)
(* Values, of parameters and of columns, are left out, and fetched_, which *)
(* says whether Next was called at all.  A query that fails ends the       *)
(* process (DCHECK).  Programs close a session before they open it again,  *)
(* do not run a statement that was cleared, nor read from a result that    *)
(* was never filled or whose rows its statement has lost to a later run.   *)
(***************************************************************************)
EXTENDS Naturals

CONSTANTS Program, StatementVar, ResultVar,
          Owner,         \* the program of each variable
          Link,          \* connections
          Prepared, Direct,
          Answer,        \* results of the driver
          MaxRows,
          MaxNext,       \* bound on the calls of Next on one of them
          NoLink, NoNative, NoAnswer

Native == Prepared \cup Direct

ASSUME ResultsAssumption ==
  /\ NoLink \notin Link /\ NoNative \notin Native /\ NoAnswer \notin Answer
  /\ Prepared \cap Direct = {} /\ Native \cap Answer = {}
  /\ Program \cap (StatementVar \cup ResultVar) = {}
  /\ StatementVar \cap ResultVar = {}
  /\ Owner \in [StatementVar \cup ResultVar -> Program]
  /\ MaxRows \in Nat /\ MaxNext \in Nat

(* A program stands for its Session.                                       *)
Holder == Program \cup StatementVar \cup ResultVar

VARIABLES
  held_connection,       \* of each session, statement and result
  db_statement,          \* of each statement and result
  db_result,             \* of each result
  eof,                   \* results with eof_ set
  available,             \* the pool
  prepared_on,           \* the connection each driver statement was made on
  statement,             \* the driver statement behind each driver result
  current_row,           \* of each driver result
  stored,                \* rows kept by the client library
  single                 \* history: driver results that Row has returned

resultVars ==
  <<held_connection, db_statement, db_result, eof, available,
    prepared_on, statement, current_row, stored, single>>

(* How many rows there are and were taken, and the result they are for.    *)
Rows(total, taken, answer) == [total |-> total, taken |-> taken, answer |-> answer]

NoRows == Rows(0, 0, NoAnswer)

ResultsInit ==
  /\ held_connection = [h \in Holder |-> NoLink]
  /\ db_statement = [h \in StatementVar \cup ResultVar |-> NoNative]
  /\ db_result = [r \in ResultVar |-> NoAnswer]
  /\ eof = {} /\ available = {} /\ single = {}
  /\ prepared_on = [n \in Native |-> NoLink]
  /\ statement = [a \in Answer |-> NoNative]
  /\ current_row = [a \in Answer |-> 0]
  /\ stored = [x \in Native \cup Answer |-> NoRows]

handles == <<held_connection, db_statement, db_result, eof, available>>
answers == <<statement, current_row, single>>

------------------------------------------------------------------------------
(* References.                                                             *)

(* h lets go of its connection and takes c.  The last reference gives the  *)
(* old one to the pool, if it is recyclable, or deletes it.                *)
Takes(h, c) ==
  /\ held_connection' = [held_connection EXCEPT ![h] = c]
  /\ LET old == held_connection[h] IN
     IF old = NoLink \/ \E g \in Holder : held_connection'[g] = old
     THEN UNCHANGED available
     ELSE available' \in {available, available \cup {old}}

(* From the pool, or a new connection.                                     *)
OpenSession(p) ==
  /\ held_connection[p] = NoLink
  /\ \E c \in {c \in Link : \A h \in Holder : held_connection[h] # c} :
       /\ held_connection' = [held_connection EXCEPT ![p] = c]
       /\ available' = available \ {c}
  /\ UNCHANGED <<db_statement, db_result, eof, prepared_on, answers, stored>>

EndSessionX(p) ==
  /\ held_connection[p] # NoLink
  /\ held_connection' = [held_connection EXCEPT ![p] = NoLink]
  /\ available' = available \cup {held_connection[p]}
  /\ UNCHANGED <<db_statement, db_result, eof, prepared_on, answers, stored>>

EndSession(p) ==
  /\ held_connection[p] # NoLink
  /\ Takes(p, NoLink)
  /\ UNCHANGED <<db_statement, db_result, eof, prepared_on, answers, stored>>

(* On the connection of the program's session.                             *)
Prepare(x) ==
  /\ held_connection[Owner[x]] # NoLink
  /\ \E n \in Native :
       /\ prepared_on[n] = NoLink
       /\ prepared_on' = [prepared_on EXCEPT ![n] = held_connection[Owner[x]]]
       /\ db_statement' = [db_statement EXCEPT ![x] = n]
  /\ Takes(x, held_connection[Owner[x]])
  /\ UNCHANGED <<db_result, eof, answers, stored>>

CopyStatement(x, y) ==
  /\ x # y /\ Owner[x] = Owner[y]
  /\ db_statement' = [db_statement EXCEPT ![x] = db_statement[y]]
  /\ Takes(x, held_connection[y])
  /\ UNCHANGED <<db_result, eof, prepared_on, answers, stored>>

ClearStatement(x) ==
  /\ db_statement' = [db_statement EXCEPT ![x] = NoNative]
  /\ Takes(x, NoLink)
  /\ UNCHANGED <<db_result, eof, prepared_on, answers, stored>>

(* Driver results that nobody refers to are deleted, and rows kept for one *)
(* are as good as gone.                                                    *)
Deletes(statements, rows, kept, ones) ==
  LET live == {a \in Answer : \E r \in ResultVar : db_result'[r] = a} IN
  /\ statement' = [a \in Answer |-> IF a \in live THEN statements[a] ELSE NoNative]
  /\ current_row' = [a \in Answer |-> IF a \in live THEN rows[a] ELSE 0]
  /\ stored' = [x \in Native \cup Answer |->
                  IF kept[x].answer \in live THEN kept[x] ELSE NoRows]
  /\ single' = ones \cap live

(* set with x in it or not.                                                *)
With(set, x, in) == IF in THEN set \cup {x} ELSE set \ {x}

CopyResult(r, s) ==
  /\ r # s /\ Owner[r] = Owner[s]
  /\ eof' = With(eof, r, s \in eof)
  /\ db_result' = [db_result EXCEPT ![r] = db_result[s]]
  /\ Deletes(statement, current_row, stored, single)
  /\ db_statement' = [db_statement EXCEPT ![r] = db_statement[s]]
  /\ Takes(r, held_connection[s])
  /\ UNCHANGED prepared_on

ClearResult(r) ==
  /\ eof' = eof \cup {r}
  /\ db_result' = [db_result EXCEPT ![r] = NoAnswer]
  /\ Deletes(statement, current_row, stored, single)
  /\ db_statement' = [db_statement EXCEPT ![r] = NoNative]
  /\ Takes(r, NoLink)
  /\ UNCHANGED prepared_on

------------------------------------------------------------------------------
(* Running a statement, and reading.                                       *)

(* Where the rows of a driver result of n are.                             *)
Keeper(n, a) == IF n \in Direct THEN a ELSE n

HasNext(row, total) == row < total

Unused == {a \in Answer : \A r \in ResultVar : db_result[r] # a}

(* A new driver result, after the first `row` calls of Next, in r.         *)
Answers(x, r, a, total, row) ==
  LET n == db_statement[x]
      taken == IF row < total THEN row ELSE total IN
  /\ db_result' = [db_result EXCEPT ![r] = a]
  /\ Deletes([statement EXCEPT ![a] = n],
             [current_row EXCEPT ![a] = row],
             [stored EXCEPT ![Keeper(n, a)] = Rows(total, taken, a)],
             IF row > 0 THEN single \cup {a} ELSE single)
  /\ eof' = With(eof, r, row > total)
  /\ db_statement' = [db_statement EXCEPT ![r] = n]
  /\ Takes(r, held_connection[x])
  /\ UNCHANGED prepared_on

QueryInto(x, r) ==
  /\ db_statement[x] # NoNative /\ Owner[x] = Owner[r]
  /\ \E a \in Unused, total \in 0..MaxRows : Answers(x, r, a, total, 0)

(* Query, one Next, and HasNext if there was a row: a second row throws    *)
(* MultipleRowsQuery, and nothing is assigned.                             *)
RowInto(x, r) ==
  LET n == db_statement[x] IN
  /\ n # NoNative /\ Owner[x] = Owner[r]
  /\ \E a \in Unused, total \in 0..MaxRows :
       IF total > 0 /\ HasNext(1, total)
       THEN /\ stored' = [stored EXCEPT ![n] = NoRows]
            /\ UNCHANGED <<handles, prepared_on, answers>>
       ELSE Answers(x, r, a, total, 1)

(* Execute, whether it throws or not, and Reset: what a prepared statement *)
(* kept for its last result is gone.                                       *)
Run(x) ==
  /\ db_statement[x] # NoNative
  /\ stored' = [stored EXCEPT ![db_statement[x]] = NoRows]
  /\ UNCHANGED <<handles, prepared_on, answers>>

(* The rows of a are still there to be read.                               *)
Whole(a) == stored[Keeper(statement[a], a)].answer = a

More(a) ==
  LET kept == stored[Keeper(statement[a], a)] IN kept.taken < kept.total

(* The driver's Next: the call is counted, and a row taken if there is one.*)
Fetches(a) ==
  /\ current_row' = [current_row EXCEPT ![a] = @ + 1]
  /\ stored' = IF More(a) THEN [stored EXCEPT ![Keeper(statement[a], a)].taken = @ + 1]
               ELSE stored

(* Next calls the driver unless this variable has seen the end; its copies *)
(* have their own eof_, and share the driver's row.                        *)
NextRow(r) ==
  LET a == db_result[r] IN
  /\ r \notin eof /\ a # NoAnswer
  /\ Whole(a)
  /\ current_row[a] < MaxNext
  /\ Fetches(a)
  /\ eof' = IF More(a) THEN eof ELSE eof \cup {r}
  /\ UNCHANGED <<held_connection, db_statement, db_result, available, prepared_on,
                 statement, single>>

ResultsNext ==
  \/ \E p \in Program : OpenSession(p) \/ EndSession(p)
  \/ \E x \in StatementVar :
       \/ Prepare(x) \/ ClearStatement(x) \/ Run(x)
       \/ \E y \in StatementVar : CopyStatement(x, y)
       \/ \E r \in ResultVar : QueryInto(x, r) \/ RowInto(x, r)
  \/ \E r \in ResultVar :
       \/ NextRow(r) \/ ClearResult(r)
       \/ \E s \in ResultVar : CopyResult(r, s)

ResultsSpec == ResultsInit /\ [][ResultsNext]_resultVars
==============================================================================
