------------------------------- MODULE Session -------------------------------
(***************************************************************************)
(* Sessions, their Once functor and their transactions (db/frontend/), on  *)
(* connections that a pool hands from one session to the next, with the    *)
(* database server behind them.                                            *)
(*                                                                         *)
(* A scope is the life of one Transaction object, which is destroyed when  *)
(* its block is left, by an exception or not; each writes rows of its own. *)
(* Programs keep to what the class needs: one scope at a time in a session,*)
(* which keeps its connection meanwhile and is not copied; nothing written *)
(* in a scope after Commit or Rollback; a connection on which a driver     *)
(* call has thrown is not made recyclable again.                           *)
(*                                                                         *)
(* The MySQL driver throws from Execute of a prepared statement only, and  *)
(* nobody asks what became of the transaction.  A program may handle the   *)
(* exception in the scope and go on.  A BEGIN, COMMIT or ROLLBACK that     *)
(* fails ends the process, by a DCHECK; the server then undoes what was    *)
(* not committed, and a new process begins.                                *)
(***************************************************************************)
EXTENDS Naturals

CONSTANTS User,          \* the sessions
          Connection, Scope,
          RowsPerScope,
          NoConnection, NoScope

ASSUME SessionAssumption ==
  /\ NoConnection \notin Connection
  /\ NoScope \notin Scope

Row == Scope \X (1..RowsPerScope)

VARIABLES
  opened,                \* connections that exist
  idle,                  \* the pool
  leased,                \* db_connection_ of each session
  recyclable,            \* connections with recyclable_ set
  once_called,           \* connections with once_called_ set
  commited,              \* sessions whose scope has commited_ set
  doing,                 \* what each session is in
  scope,                 \* the scope it is in
  in_transaction,        \* server: connections with a transaction open
  pending, durable,      \* server: rows written in it; rows committed
  outcome,               \* history: how each scope ended
  written,               \* history: rows whose Execute has returned
  doubtful,              \* history: rows a program had written in a scope, and
  loose,                 \* those it had not, when it handled an exception there
  thrown,                \* history: connections on which a driver call has thrown
  completed              \* history: how often the functor has completed on each

sessionVars ==
  <<opened, idle, leased, recyclable, once_called, commited, doing, scope,
    in_transaction, pending, durable, outcome, written, doubtful, loose, thrown,
    completed>>

SessionInit ==
  /\ opened = {} /\ idle = {} /\ recyclable = {} /\ once_called = {}
  /\ leased = [s \in User |-> NoConnection]
  /\ commited = {}
  /\ doing = [s \in User |-> "closed"]
  /\ scope = [s \in User |-> NoScope]
  /\ in_transaction = {}
  /\ pending = [c \in Connection |-> {}]
  /\ durable = {}
  /\ outcome = [k \in Scope |-> "none"]
  /\ written = {} /\ doubtful = {} /\ loose = {} /\ thrown = {}
  /\ completed = [c \in Connection |-> 0]

flags  == <<recyclable, once_called, thrown, completed>>
server == <<in_transaction, pending, durable>>
handled == <<doubtful, loose>>
scopes == <<commited, scope, outcome, written, handled>>
leases == <<opened, idle, leased>>

At(s, place) == doing[s] = place

Goes(s, place) == doing' = [doing EXCEPT ![s] = place]

------------------------------------------------------------------------------
(* The server.                                                             *)

(* A BEGIN commits what is still open. *)
ServerBegin(c) ==
  /\ in_transaction' = in_transaction \cup {c}
  /\ durable' = durable \cup pending[c]
  /\ pending' = [pending EXCEPT ![c] = {}]

ServerWrite(c, row) ==
  /\ IF c \in in_transaction
     THEN pending' = [pending EXCEPT ![c] = @ \cup {row}] /\ UNCHANGED durable
     ELSE durable' = durable \cup {row} /\ UNCHANGED pending
  /\ UNCHANGED in_transaction

ServerEnd(c, kept) ==
  /\ in_transaction' = in_transaction \ {c}
  /\ durable' = durable \cup kept
  /\ pending' = [pending EXCEPT ![c] = {}]

(* A statement fails.  The transaction is as it was; or the row is in it,  *)
(* if what failed came after that; or all of it is undone, after a deadlock*)
(* or with a connection that was lost and, by opt_reconnect, is made anew. *)
(* No BEGIN follows: what is written later is committed row by row.        *)
ServerFails(c, row) ==
  \/ UNCHANGED server
  \/ ServerWrite(c, row)
  \/ ServerEnd(c, {})

------------------------------------------------------------------------------
(* Opening and closing.                                                    *)

Open(s) ==
  /\ At(s, "closed")
  /\ \E c \in idle \cup (Connection \ opened) :
       /\ leased' = [leased EXCEPT ![s] = c]
       /\ opened' = opened \cup {c}
       /\ idle' = idle \ {c}
  /\ Goes(s, "open")
  /\ UNCHANGED <<flags, server, scopes>>

SetRecyclable(s) ==
  /\ At(s, "open")
  /\ leased[s] \notin thrown
  /\ recyclable' = recyclable \cup {leased[s]}
  /\ UNCHANGED <<doing, once_called, thrown, completed, server, scopes, leases>>

(* The connection goes back to the pool, or its object is deleted and the  *)
(* name is free for a new one.  The destructor does not call mysql_close:  *)
(* the server hears nothing of it.                                         *)
CloseSession(s) ==
  LET c == leased[s] IN
  /\ At(s, "open")
  /\ leased' = [leased EXCEPT ![s] = NoConnection]
  /\ Goes(s, "closed")
  /\ IF c \in recyclable
     THEN idle' = idle \cup {c} /\ UNCHANGED <<opened, flags>>
     ELSE /\ opened' = opened \ {c}
          /\ once_called' = once_called \ {c}
          /\ thrown' = thrown \ {c}
          /\ completed' = [completed EXCEPT ![c] = 0]
          /\ UNCHANGED <<idle, recyclable>>
  /\ UNCHANGED <<server, scopes>>

------------------------------------------------------------------------------
(* Once.  A functor that throws leaves the flag as it was; if the exception *)
(* comes from a call on the session, a guard clears recyclable_.           *)

OnceBegins(s) ==
  /\ At(s, "open")
  /\ leased[s] \notin once_called
  /\ Goes(s, "once")
  /\ UNCHANGED <<flags, server, scopes, leases>>

OnceReturns(s) ==
  /\ At(s, "once")
  /\ once_called' = once_called \cup {leased[s]}
  /\ completed' = [completed EXCEPT ![leased[s]] = @ + 1]
  /\ Goes(s, "open")
  /\ UNCHANGED <<recyclable, thrown, server, scopes, leases>>

(* DBConnectionThrowGuard around a driver call that throws.                *)
GuardX(s) ==
  /\ thrown' = thrown \cup {leased[s]}
  /\ UNCHANGED recyclable

Guard(s) ==
  /\ thrown' = thrown \cup {leased[s]}
  /\ recyclable' = recyclable \ {leased[s]}

OnceThrows(s) ==
  /\ At(s, "once")
  /\ Guard(s) \/ UNCHANGED <<thrown, recyclable>>
  /\ Goes(s, "open")
  /\ UNCHANGED <<once_called, completed, server, scopes, leases>>

------------------------------------------------------------------------------
(* Transactions.                                                           *)

BeginScope(s) ==
  /\ At(s, "open")
  /\ \E k \in Scope :
       /\ outcome[k] = "none"
       /\ outcome' = [outcome EXCEPT ![k] = "running"]
       /\ scope' = [scope EXCEPT ![s] = k]
  /\ commited' = commited \ {s}
  /\ ServerBegin(leased[s])
  /\ Goes(s, "scope")
  /\ UNCHANGED <<written, handled, flags, leases>>

RowsIn(k) == {row \in Row : row[1] = k}

ToWrite(s) == RowsIn(scope[s]) \ written

Execute(s) ==
  /\ At(s, "scope")
  /\ s \notin commited
  /\ \E row \in ToWrite(s) :
       ServerWrite(leased[s], row) /\ written' = written \cup {row}
  /\ UNCHANGED <<doing, commited, scope, outcome, handled, flags, leases>>

(* The program leaves the scope, or handles the exception inside it.       *)
ExecuteThrows(s) ==
  /\ At(s, "scope")
  /\ s \notin commited
  /\ \E row \in ToWrite(s) : ServerFails(leased[s], row)
  /\ Guard(s)
  /\ \/ Goes(s, "unwinding") /\ UNCHANGED handled
     \/ /\ doubtful' = doubtful \cup (RowsIn(scope[s]) \cap written)
        /\ loose' = loose \cup ToWrite(s)
        /\ UNCHANGED doing
  /\ UNCHANGED <<once_called, completed, commited, scope, outcome, written, leases>>

(* Any other exception leaves the scope.                                   *)
Throw(s) ==
  /\ At(s, "scope")
  /\ Goes(s, "unwinding")
  /\ UNCHANGED <<flags, server, scopes, leases>>

Ends(s, how) ==
  /\ commited' = commited \cup {s}
  /\ outcome' = [outcome EXCEPT ![scope[s]] = how]

Commit(s) ==
  /\ At(s, "scope")
  /\ s \notin commited
  /\ ServerEnd(leased[s], pending[leased[s]])
  /\ Ends(s, "committed")
  /\ UNCHANGED <<doing, scope, written, handled, flags, leases>>

Rollback(s) ==
  /\ At(s, "scope")
  /\ s \notin commited
  /\ ServerEnd(leased[s], {})
  /\ Ends(s, "undone")
  /\ UNCHANGED <<doing, scope, written, handled, flags, leases>>

(* The destructor: a Rollback, whose guard sees that an exception is on    *)
(* its way and gives the connection up even if it was another's.           *)
EndScopeX(s) ==
  /\ \/ At(s, "scope")
     \/ At(s, "unwinding")
  /\ scope' = [scope EXCEPT ![s] = NoScope]
  /\ outcome' = [outcome EXCEPT ![scope[s]] = IF @ = "running" THEN "undone" ELSE @]
  /\ Goes(s, "open")
  /\ UNCHANGED <<commited, written, handled, flags, server, leases>>

EndScope(s) ==
  /\ \/ At(s, "scope")
     \/ At(s, "unwinding")
  /\ IF s \in commited THEN UNCHANGED <<recyclable, commited, outcome, server>>
     ELSE /\ ServerEnd(leased[s], {})
          /\ Ends(s, "undone")
          /\ recyclable' = IF doing[s] = "unwinding" THEN recyclable \ {leased[s]}
                           ELSE recyclable
  /\ scope' = [scope EXCEPT ![s] = NoScope]
  /\ Goes(s, "open")
  /\ UNCHANGED <<written, handled, once_called, thrown, completed, leases>>

------------------------------------------------------------------------------
(* The process ends, and another starts with nothing in hand.  A COMMIT    *)
(* under way may have reached the server.                                  *)
Crash(committing) ==
  LET kept == UNION {pending[leased[s]] : s \in committing} IN
  /\ in_transaction' = {}
  /\ pending' = [c \in Connection |-> {}]
  /\ durable' = durable \cup kept
  /\ outcome' = [k \in Scope |->
       IF outcome[k] # "running" THEN outcome[k]
       ELSE IF \E s \in committing : scope[s] = k THEN "committed" ELSE "undone"]
  /\ opened' = {} /\ idle' = {} /\ recyclable' = {} /\ once_called' = {}
  /\ leased' = [s \in User |-> NoConnection]
  /\ commited' = {}
  /\ doing' = [s \in User |-> "closed"]
  /\ scope' = [s \in User |-> NoScope]
  /\ thrown' = {}
  /\ completed' = [c \in Connection |-> 0]
  /\ UNCHANGED <<written, handled>>

CrashAnywhere == Crash({})

CrashInCommit(s) ==
  /\ At(s, "scope")
  /\ s \notin commited
  /\ Crash({s})

SessionNext ==
  \/ \E s \in User :
       \/ Open(s) \/ SetRecyclable(s) \/ CloseSession(s)
       \/ OnceBegins(s) \/ OnceReturns(s) \/ OnceThrows(s)
       \/ BeginScope(s) \/ Execute(s) \/ ExecuteThrows(s) \/ Throw(s)
       \/ Commit(s) \/ Rollback(s) \/ EndScope(s) \/ CrashInCommit(s)
  \/ CrashAnywhere

SessionSpec == SessionInit /\ [][SessionNext]_sessionVars
==============================================================================
