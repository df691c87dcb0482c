# A verification of mpr_crypto_system

mpr_crypto_system is a C++ library with an RPC server on top: AES and SM2
encryption behind gRPC services, a pooled database layer, a thread pool, and the
base library they share. This directory holds TLA+ models of its parts, TLC
configurations that check them on small instances, and proofs about them that
TLAPS checks. `PROJECT.json` is the index: components, runs, the source lines
behind each definition, hazards, findings and theorems.

    tlc -config tm_join.cfg MCThreadManager       # and the other tm_*.cfg
    tlc -config threads.cfg MCThreads
    tlc -config cp_pool.cfg MCConnectionPool
    tlc -config cm_map.cfg MCDatabase
    tlc -config cm_null.cfg MCConnectionManager
    tlc -config crypto_trip.cfg MCCodecs
    tlc -config crypto_long.cfg MCCryptoService
    tlapm ConnectionPoolProofs.tla                # and the other Proofs modules

## 1. Inventory

| component (src/) | state | operations | what is hard | what makes it correct |
|---|---|---|---|---|
| **Thread manager** `threading/thread_manager.*` | life-cycle state, task queue, three counters, sets of workers, one mutex with two condition variables and a monitor with a mutex of its own | `Start`, `Stop`, `Join`, `AddWorker`, `RemoveWorker`, `Add`, `RemoveNextPending`, `ExpiredTaskCount`, `Worker::Run` | one counter under two mutexes; unlocked reads; hand-counted wake-ups; timeouts; sleeping adders when the pool stops | every accepted task served once or dropped, FIFO, bounded queue, no lost wake-up, calls return, life cycle moves forward |
| **Guards, monitors, mutexes** `threading/mutex.*`, `monitor.*` | pthread objects | `Guard` (blocking, try, timed), `Wait`, `Notify`, `ReadWriteMutex` | spurious wake-ups, timeouts | mutual exclusion; writers are not starved |
| **Threads** `threading/thread_factory.*` | `state_`, `detached_`, weak self reference, the set of live ids | `Start`, `Join`, the destructor's join, `ThreadMain` | a thread that drops the last reference to itself; `Join` holding `state_lock_` | started once, joined once |
| **One-time initialisation** `base/once.*`, `singleton.h` | a word with three values, the instance | `OnceInit`, `GetInstance`, `ShutDown` | races to initialise; use after `ShutDown` | the closure runs once, nobody returns before it ends |
| **Reference counts** `base/ref_counted.*` | an atomic count | `AddRef`, `Release`, `HasOneRef`, assignment of `scoped_ref_ptr` | two last releases at once; a count taken over at zero | count = number of pointers |
| **Connection pool** `db/common/connection_pool.*`, `db/backend/db_connection.*` | list of idle entries, `size_`, per connection a count, a pointer to its pool and `recyclable_` | `Open`, `get`, `Put`, `GC`, `Clear`, `DBConnection::Dispose` | the clock is read before the lock; a connection returns itself from its own disposal | nothing leaks, dangles, is freed twice, is both idle and used, or is handed out too old |
| **Connection manager** `db/common/connection_manager.*` | map from connection string to pool | `Open`, `GC` | races to create a pool; erasing while iterating | one pool per string, none destroyed in use |
| **Statements and cache** `db/backend/db_statement.*` | a map and an LRU list | `Fetch`, `Put`, `Clear`, `SetSize` | map and list in step at the limit | a bounded LRU cache of statements nobody uses |
| **Sessions, transactions, results** `db/frontend/*` | a held connection, a statement, a result, `eof_`, `commited_` | open, copy, close, `Once`, begin, commit, rollback, prepare, run, fetch | exceptions part of the way, scope exit; copies of results that share a cursor | a transaction ends in exactly one of commit and rollback; statements and results keep their connection; all rows are read once |
| **MySQL driver** `db/drivers/mysql/*` | handles of libmysqlclient | prepare, bind, execute, fetch | which call throws, which aborts the process, what the server does then | no row is missed; modelled as far as sessions and results tell its calls apart |
| **Symmetric encryption** `crypto/symmetric_*` | key, IV, mode, CTR counter and offset | `Init`, `Encrypt`, `Decrypt`, `SetCounter`, `CryptInternal` over streams | chunking, padding at block boundaries, counter carry | decryption inverts encryption, however the input is cut |
| **SM2** `crypto/sm2_*`, `asymmetric_*` | keys | encrypt, decrypt, sign, verify, key import | framing of chunks | decryption cuts where encryption cut |
| **Streams** `crypto/*_stream.*` | position, buffer, an open file and its length | `Open`, `Read`, `Write`, `Close` | short reads and writes, the end, a file that others change | bytes come out in order, once |
| **Services** `service/*` | none of their own between calls; files | the RPC handlers | error paths; handlers on the same files | every call answers with a code, and OK means that the target is complete |
| **Base** `base/pickle.*`, `file*`, `string*`, `time*`, `zip/*`, `media/`, `protos/` | buffers, descriptors | serialisation, I/O, formatting | sizes at their limits | see the component list |

How they interact: the services call the crypto components, which read and write
streams. Sessions open connections through the connection manager, which keeps
one pool per connection string; a connection that loses its last reference hands
itself back to its pool, or is deleted. The thread manager runs tasks on threads
the factory creates; a task may call `Add` on the pool it runs in. A crash
loses the queue and the pools, which nothing tries to recover; what survives one is
the database, and what a crash may do to a transaction is in `Session`.

Concurrency is in `threading/`, in `base/once` and in the `db/common` layer; the
crypto and base layers are sequential, and hard at their numeric edges and in long
sequences of calls.

## 2. Plan

The order puts the shared, concurrent state first.

| step | modules | abstract specification | theorems | status |
|---|---|---|---|---|
| 1 | `ThreadManager` | `TaskQueue`, a bounded FIFO queue | types, counters, queue, refinement | done |
| 2 | `ConnectionPool` with reference counts and session hand-over | `ConnectionLeases` | types, counts, ownership, refinement | done |
| 3 | `ConnectionManager`, over pools seen from outside | | types, one pool per string, erased pools end | done |
| 4 | `CryptoService`: the string handlers, their streams, `CryptInternal` and SM2 framing | the cipher text of a text as a whole (`Image`) | types with the code's DCHECK, encryption makes the image, decryption gives the text back | done |
| 5 | `Singleton` over `OnceInit` | | built once, used only while it is there | done |
| 6 | `StatementCache` | `LruCache` | map and list in step, refinement | done; `DBStatement::Dispose` never puts |
| 7 | `PosixThreads`, composed with step 5 in `Threads` | | types, joins, reaping | done; `ReadWriteMutex` is used by nobody |
| 8 | `Session` with `Once` and `Transaction`, the server, crash and restart | | all or nothing, idle connections are fit | done; values are not |
| 9 | `SymmetricCrypt`: CTR mode over many calls | the key stream as one number counts it | the key stream goes on, the receiver gets the text back, the old mask is the same | done |
| 10 | `Pickle`; `Numbers` | what was written; the number the digits stand for | what is written is read back; exactness | done |
| 11 | `Results`: statements, results and their cursors | | types, held together, no row missed | done; values are not |
| 12 | `FileService`: the file handlers and file streams | the cipher text of a file as a whole (`FileImage`) | files are whole | done |

What is left is in section 13.

## 3. The thread manager

### Modules

* `ThreadManager` - state and actions. The fields of `ThreadManager::Impl` keep
  their names (`state_` is `state`). `monitor`, `max_monitor`
  and `worker_monitor` are the sets of threads asleep on the condition variables
  and not yet notified. `pc` says where each thread is.
* `ThreadManagerProps` - type invariant, safety, action and liveness properties.
* `TaskQueue` - the abstract queue: accept at the back if there is room, serve
  or drop from the front.
* `MCThreadManager` and `tm_*.cfg` - the programs TLC runs.
* `ThreadManagerProofs` - the theorems.

### How actions correspond to the code

A section executed under a mutex is one action, since nothing else reads or
writes the guarded fields meanwhile; each unlocked access is a separate action.

* `Add` is `Add` from its call to its return, its sleep, or its exception:
  removal of expired tasks, the test of the bound, the push and the `Notify`.
  `AddResume` is one turn of the loop around `max_monitor_.Wait`; `AddTimesOut`
  is a timed wait that ends. `AddLockFails` is a `Guard` that does not get the
  mutex in time: allowed at any time, as a try-lock may fail whenever another
  thread is inside a section, and sections take no time in the model.
* `Worker::Run` is `WorkerEnter`, `WorkerCountIn`, `WorkerAnnounce`, then
  `WorkerLoop`/`WorkerWake` (both `WorkerTest`: sleep, give up or take a task),
  `RunTask`, `WorkerExit`, `WorkerCountOut`.
  `worker_count_` is incremented under `mutex_` and decremented under the mutex
  of `worker_monitor_`, which is a data race: the two read-modify-writes are
  split into a load and a store, so an update may be lost as it may on a real
  machine. The comparison that follows a store is folded into it.
* `Start` is `StartConfigure`, `StartTest` (unlocked), `StartSet`, then the actions
  of `AddWorker`: `Create`, `Spawn` and `Register` for each thread, and a wait. A
  worker may run between `Spawn` and `Register`, when `CanSleep()` does not know it.
* `Stop` and `Join` are `StopTest` (unlocked), `StopBegin`, `StopCount` (the
  unlocked read of `worker_count_`), the actions of `RemoveWorker`, `StopSet`.
* `SpuriousWake` lets any sleeper wake unprompted; `Elapse` lets a deadline pass.

Clients run a `Script` each, so that a configuration decides which calls race.
`Await` is a client that waits for another to have made some calls: it stands for
the embedding program's own ordering.

### Left out, and why

* The thread factory is set before any other call, as the tests do.
  `expire_callback_` runs with `mutex_` held and belongs to the embedding program.
* `Remove` changes nothing in the code. The public `RemoveExpiredTasks` takes no
  lock and is called by nobody but `Add` and `Run`, where it is modelled.
* Concurrent access to `id_map_` and `dead_workers_` without a common lock is
  taken to be atomic; only `worker_count_` shows its race.
* Thread ids are not reused. The destructor's call of `Stop` is that of a client.
* `ThreadManager::NewThreadManager` differs from `SimpleThreadManager` only in
  that `Start` adds no workers and sets no bound: both constants 0.

### Runs

All have three clients and two workers, `SizeMax = 7` (enough that no counter
reaches it except by passing below zero, which must show as a very large value).
Scripts end, so the deadlock check is off. Every thread that must hold a mutex,
sleep or be woken has a rival at every point of the code, which is what the
properties need: a third worker adds no new race on the counters.

| run | program | shows |
|---|---|---|
| `tm_join` | unbounded queue; `Start`, `Join` against two submitting clients, one task adding another | no task waits beside a sleeper (`NoStrandedTask`), no surplus worker stays asleep (`NoSurplusSleeper`), `Join` drains (`JoinDrains`), FIFO (`QueueIsSuffix`), every call returns |
| `tm_bounded` | queue of one, five submissions that sleep, time out, are refused or come from a worker, deadlines passing | the abstract queue with its bound (`ImplementsTaskQueue`), every call returns, the queue empties again and again |
| `tm_resize` | `Start`, `AddWorker`, `RemoveWorker`, two `Stop`s, `Add`, `RemoveNextPending` in any order | types, `IdleCountExact`, `EachTaskOnce`, `NoTaskShared`, `LifecycleForward` |
| `tm_shrink` | `RemoveWorker(1)` on two workers | **violated**: finding 1 |
| `tm_stoppers` | `Join` and `Stop` at once | **violated**: finding 2 |
| `tm_late_add` | `Join` against two adders on a queue of one | **violated**: finding 3 |

`tm_resize` is the largest, about 720,000 states with the workers taken as symmetric:
no script names a worker, and its properties are invariants and action properties,
for which that is sound.

### Fairness

`FairSpec` has weak fairness of each thread's own steps: the scheduler runs every
thread that can run, and a mutex held only within a section is given in the end
to a thread that can take it. Spurious wake-ups and deadlines are not obliged to
happen: a system that only moves on because of them would hang. Only the liveness
properties use it. `tm_join` and `tm_bounded` oblige every call to return for
programs in which the code does ensure it; `RemoveWorker` with idle workers and
`Stop` beside sleeping adders are not such programs (findings, section 11).

## 4. The connection pool

### Modules

* `ConnectionPool` - the pool, the connections' reference counts and disposal, and
  the sessions that hold connections.
* `ConnectionLeases` - what a user of the pool sees: a connection is leased, idle or
  closed; at most `Limit` are idle.
* `ConnectionPoolProps` - properties and the refinement mapping.
* `MCConnectionPool`, `cp_pool.cfg` - the instance TLC checks, with `Results`
  (section 6) beside it as a sum: one moves while the other is as it was initially.
* `ConnectionPoolProofs` - the theorems.

### How actions correspond to the code

* `Open` is the call up to the reading of the clock in `get`; `Get` the section
  under `lock_`; `Sweep` the destruction of the garbage list after it; then
  `Reuse`, `Connect` or `ConnectFails`. Time may pass between any two.
* `Adopt` is the assignment to the session's `scoped_ref_ptr`: it takes the new
  pointer first and then, in an action `Release` of its own, drops the old one.
* `Release` is one atomic decrement; whoever reaches zero goes on to `Dispose`,
  which takes the connection's pointer to the pool away and either deletes the
  connection or calls `Put`. `Put` (with or without a connection: `GC`) is the
  reading of the clock, the section, and `Sweep`.
* `Copy` is `Session`'s assignment, `SetRecyclable` the flag a user or the guard
  around a failing call sets.
* What `Sweep` destroys was in the list, so its pool pointer is gone and `Dispose`
  deletes it: that is `IdleUnshared`, an invariant, not an assumption.

Not in the model: the statement cache that `Dispose` clears (step 6), what the
connector does (external: it gives a new connection or throws), and the pool's
own reference count: a pool outlives its connections, each of which holds a
reference to it (section 5 is about those references).
A connection's identity is not reused after it is deleted.

### The run

`cp_pool`: two clients, three connections, limit 2, life time 1, clock up to 3,
Connections and clients are symmetric. With three connections the pool can
be over its limit; with a clock up to 3, a reading can be older than the entries
that were pushed after it, and an entry can expire, stay behind a fresh one, and
expire for the reader only. The deadlock check is on. About 430,000 states, 317,000 of
them the pool's. That `size_` is the length of the list (`SizeExact`) is proved.

`FreshAtReading` is the property that is least obvious. `now` is read before the
lock, so entries can be pushed out of order of `last_used` and the scan, which
stops at the first entry that is fresh, can leave stale ones behind it. What `get`
hands out is at the *other* end of the list. It is not too old all the same: the
entries stand in the order in which they *came into* the list, and no entry is
marked later than that. So the scan stops at an entry that came in recently
enough, and everything behind it, the one handed out included, came in no earlier.
"Not too old" is by the reading: it had been in the pool for at most `life_time_` when
`get` read the clock, or came in later. By the time the thread has the lock it may have
been there for longer, by as much as the thread has waited; the code promises no more.

## 5. The connection manager

`ConnectionManager` is the map from connection strings to pools. A pool is seen
from outside: `Holders` is the set of clients that refer to it, through the
connection of their session, a local variable or GC's vector, and `HasOneRef` is
that there are none, the map's own reference apart. Strings are numbers: their order
in the map is all that counts. What a pool does inside is `ConnectionPool`'s; the
two share the hand-over of a session's connection (`Adopt`, `Dispose`), here with
the pool pointer that travels with it.

* `OpenString` is `Open(str)` up to `Open(info)` or to `pool->Open()`; `OpenInfo` the
  direct call of `Open(info)`; `Register` its section under `lock_`; `OpenPool` and
  `OpenFails` are `pool->Open()`. When `Register` finds a pool it leaves `pool` null,
  as the code does, and the client gets no further than `open`: the assertion in
  `operator->` ends the program (the model lets the other clients go on, which can
  only show more).
* `GCCollect`, `GCDrop`, `GCBegin`, `GCVisit`, `GCReturn` are `GC`: the copy of
  the map, the vector dropped one reference at a time, and the erasing loop one
  element at a time with `lock` held. The loop advances its iterator twice. From
  the last element it runs past the end, which is undefined; `Overrun` allows what
  a red-black tree does then: wander for ever, holding the lock, or come back to an element.

Runs: `cm_map` (two clients, three strings, four pools, so that both an even and an
odd number of pools are collected and one string can get a second pool after its
first was erased; about 60,000 states of the 570,000 of the run, which section 6
shares; no deadlock check, since a client can be stuck as described) and `cm_null`
(**violated**: finding 4).

## 6. Statements, sessions and transactions

`MCDatabase` checks the connection manager, the statement cache and the sessions in
one run, `cm_map`. They share no state, so the run takes their *sum*: one of them moves
while the other two stand as they did in the beginning. Every behaviour of each is
there, and none of the products, which would show nothing.

### The statement cache

`StatementCache` is `DBStatementCache`: the map `db_statements_`, the list `lru_`, and
iterators between them, which are nodes that the allocator reuses. `Replace`,
`Add` and `Evict` are the three ways through `Insert`, `Hit` and `Miss` those through
`Fetch`. `LruCache` says what a user of it sees: the statements put last, one for a
query, within the limit, each given back once, the one put longest ago forgotten first.
`CacheImplementsLru` is the refinement: checked here, proved in section 10.

In this version of the code the cache is idle. `DBStatement::Dispose` returns before it
puts its statement back, and `SetSize` does nothing to a cache that is active, which
each is from its constructor on, so `max_size_` stays 0. A limit of 0 lets one
statement in. The run checks it, and limits of 2 and 3, which the class is
written for: four statements, two of them of one query, and three nodes, so that a node
is taken again after an erase and a full cache evicts.

### Sessions

`Session` is `dbfrontend::Session` on a connection that goes from one session to the
next: `Once` and its flag, `SetRecyclable`, the guard that takes a connection on which a
call has thrown out of circulation, and `Transaction` with its scope. A scope is the
life of a `Transaction` object; it ends by a commit, a rollback, or its destructor, and
an exception may leave it from anywhere (`Throw`, `ExecuteThrows`). The server is
external: a BEGIN commits what is open, and the end of the process undoes it. The
driver never calls `mysql_close`, so that the server does not hear of a connection
that is deleted.

What the driver does decides what can happen: only `Execute` of a prepared statement
throws. A BEGIN, COMMIT or ROLLBACK that fails hits a DCHECK and ends the process.
What a failed statement leaves at the server, which nobody asks, is `ServerFails`: the
transaction as it was; the row in it, when `mysql_stmt_store_result` failed after it was
written; or nothing of it, after a deadlock, or when the connection was lost, which the next
call makes anew with `opt_reconnect`. libmysqlclient is taken at its word that it
does not reconnect in a transaction before a call has failed.
`Crash` is the end of the process, by a DCHECK or otherwise: the server undoes what is open, or has
received the COMMIT already (`CrashInCommit`); a new process begins with no connections.

`AllOrNothing` relates the rows in the database to how each scope ended. A program that
leaves the scope when `Execute` throws has all of it or nothing, the row that threw
included. One that handles the exception in the scope and goes on does not: what it wrote
before (`doubtful`) can be lost though it commits, and what it writes after (`loose`) can
be committed row by row though it rolls back. For it the property says what is left: a
commit keeps what was written after the last exception, any other end leaves nothing of
what was written before the first. TLC breaks the plain all-or-nothing in five steps if
`doubtful` or `loose` is left out. `PooledIsFit` says what the pool may rely on. Both hold
for programs with one scope at a time in a session that keeps its connection meanwhile: a
`Transaction` keeps a pointer to its session, and one that is closed or assigned in
between is a hazard without a property.

Bounds: two sessions and one connection, because connections do not interact
and a single one is handed over most often; two scopes, so that one can
follow another on a connection left by either session; two rows, so that a scope can end
half written, and an exception can fall between them. Pools and sessions are symmetric.

### Statements and results

`Results` is what a program holds in variables of type `Statement` and `Result`, and the
statements and results of the MySQL driver behind them. `Prepare`, `CopyStatement`,
`ClearStatement`, `QueryInto`, `RowInto`, `Run` (`Execute` and `Reset`), `NextRow`,
`CopyResult` and `ClearResult` are the calls; `OpenSession` and `EndSession` are the
session's. `held_connection` is the counted reference that each of them keeps.
`Takes` exchanges one: whoever drops the last reference gives the connection to the
pool or deletes it. `Deletes` is the same for driver results.
`stored` is what the client library keeps: a prepared statement has the rows of its last
query only, with one cursor for all results made from it, and a direct result has its
own. Rows are numbers, how many there are and how many were taken.

`ResultsAreWhole` has two halves. `HeldTogether`: a statement or result is on the
connection its statement was prepared on, and neither the pool nor another program has
that connection, though the program may have closed its session and opened it
again on another one. `NothingMissed`: as long as the rows are those of its query, no
copy of a result reports the end too early, `HasNext` is true exactly if there is a row to
come although `current_row_` counts calls and not rows, and what `Row` returned has one
row, or none, which `Empty` tells. Results share the driver's count and have an
`eof_` each, which is where this could go wrong.

Bounds: one connection, which two programs want; one of them has two statement
variables and two results, one prepared and one direct statement, two driver results, up
to two rows (`Row` tells none, one and two apart) and three calls of `Next`, so
that the count passes the rows. The 113,000 states are part of `cp_pool`.
A session that is opened again on *another* connection takes two, which is too much for TLC
here: that it does no harm is shown by the proof only (section 10).
A statement of the driver is never deleted (`DBStatement::Dispose` returns at once), so
programs run out of statements and not of connections.

## 7. The crypto service

### Modules

* `CryptoService` - the string handlers of both services, the memory streams they
  make, `CryptInternal` and the loops of `Sm2AsymmetricEncryptor`.
* `CryptoServiceProps` - properties, with `Image`, the cipher text of a text taken as
  a whole, as the reference that the loop is compared with.
* `MCCryptoService` with `crypto_long.cfg`, `MCCodecs` with `crypto_trip.cfg` - the
  instances.
* `CryptoServiceProofs` - the theorems.

### What stands for what

The ciphers are symbolic: an encrypted block *is* what determines it. In the chained
mode that is the initial vector and all plain blocks so far, otherwise the
plain block. Two different blocks or positions never look alike, and decrypting
with another chain than the block was made with gives `NoByte`s. The operators from
`Seal` to `DecryptFinal`, which say what BoringSSL and libsm2 do with one block, are
external; the padding is PKCS7, as BoringSSL's EVP functions apply it. Keys are those
of a matching pair, of a length the code accepts: any other ends the program
on a DCHECK.

* `Encrypt` and `Decrypt` are a handler up to its loop (`Begin`): the choice of the
  IV, the streams, the context, and `count` and `extra` computed from `Available()`.
  The model decrypts what the last encryption answered, whole or cut short at any
  byte. A client keeps one text: handlers share nothing, so one at a time is enough.
* `EncryptBlock`, `DecryptBlock` are one turn of the loop of `CryptInternal`, the
  last with `EVP_CipherFinal_ex`; `CryptReturn` the return to the handler.
* `Sm2EncryptBlock`, `Sm2DecryptBlock`, `Sm2Return` are the SM2 loops. The unit is 16
  bytes: block, header and message lengths are multiples of it. A
  piece longer than one message is copied by `CipherFromBuffer` beyond its
  fields: it may be refused or produce bytes that were never encrypted. (It
  may also end the program, which answers nothing.)
* Hex coding is left out: it is undone before anything looks at the bytes.
* The last turn of a decryption writes up to a block and 15 bytes through a string
  made for one block; the model has them arrive, as they do with the spare
  capacity the library's strings have. See the hazards.

### The runs

`crypto_trip` checks this model and the four of section 8 as a sum (`MCCodecs`), in the
way `MCDatabase` does. Here: a block of two bytes, every text over three bytes (the
paddings among them) up to three blocks and every cut of its cipher text, in ECB and in
CBC with an empty, a proper and a wrongly sized IV; SM2 with both key lengths and texts of
up to one message. Three blocks are a first, a middle and a last turn; two bytes give a
block with a rest and one without: 143,110 of the 489,000 states of the run. The deadlock
check is on. `TypeOK` holds the code's own assertion that each read returns what was
counted. `DecryptsOnlyTheText` looks at failed and cut decryptions too. `crypto_long` lets
SM2 texts have a second block: **violated**, finding 5.

A fact that the properties state as it is: of a text shorter than one block
nothing is encrypted at all, and the answer is OK with an empty cipher text
(`count` is 0). The tests and comments say nothing about it.

## 8. CTR mode, pickles, numbers and files

Each has a module, and one property with several parts in its `Props` module.

* `SymmetricCrypt` is `CTRSymmetricCrypt` under `SymmetricEncryptor`, which keeps a
  counter from call to call. A sender encrypts a text piece by piece and a receiver
  decrypts what has arrived, cut as it likes. A byte of key stream is the counter and the
  place it comes from. `AES_ctr128_encrypt` leaves the counter after the last block it
  began, and the offset into that block is a local variable of `Crypt`: the rest of it is
  never used. `StreamGoesOn` says that no byte of key stream serves twice before the
  counter has been all round, that the receiver gets the text back if it cuts where the
  sender did or both cut between blocks (otherwise it does not, and nothing says it
  should), and that `GenerateCounterMask`, with its two words and a carry, makes the same
  key stream as one long number. Nothing calls that function now. Bounds: words of two
  values, so that the carry and the wrap are two and four blocks away; six bytes.
* `Pickle` is `Pickle` and `PickleIterator`: every write and read, `Reserve`, copies,
  assignment, and a stream that `FindNext` cuts again. `PicklesReadBack` says that
  payload fits the memory, that all values come back in their order and then none, and that
  the stream is cut where it was joined and not before all of a pickle has arrived. A
  copy of a read-only pickle has a `write_offset_` of 0, so a write to it starts over: the
  property states what follows from that. Bounds: two objects, which one assignment
  takes; two values, of which the second makes the buffer grow; 24 bytes under way,
  enough for two pickles.
* `Numbers` is the family of `safe_strto32_base`, a turn of its loop a step, with
  arithmetic that wraps in the width of the type. `NumbersExact` says that a
  conversion is exact or gives the bound that was passed, that no product or sum leaves
  the type's range on the way, and that nothing which fits is refused. Bounds: types of
  five bits, signed and unsigned, texts of up to four characters out of eight (digits, a
  letter, the space, both signs), the bases 0, 2, 10, 16 and one out of range.
* `FileService` is the file handlers of `SymmetricServiceImpl` with `FileInputStream` and
  `FileOutputStream`, several at a time on any files. A handler measures its source as
  it opens it (`OpenSource`), and only then opens, and so empties, its target
  (`OpenTarget`), which may be its source, or a file that another handler reads or
  writes. A file is a sequence of blocks: what happens inside a block, and the rest of a
  text, is in `CryptoService`. stdio reads ahead and writes behind as it likes
  (`ReadAhead`, `Flush`), and a disk may take only a part, which nobody notices. A source
  that is shorter than it was hits the DCHECK of `CryptInternal`: that is an `EndOfProcess`,
  as any signal is, which loses what is in buffers and leaves the files.
  `undisturbed` keeps account of the handlers of whose files, since they opened them,
  no other has opened one to write it, and whose disk took everything. For them
  `FilesAreWhole` says that an answer of OK means that the target holds the cipher text of
  what was in the source at first, or the text it is the cipher text of; that decrypting a proper
  cipher text never fails; and that the target holds a beginning of that whenever
  somebody looks, after the end of the process too. Nothing can be said of the others, which
  the handlers cannot tell. Bounds: two files, so that one can be overwritten by the
  other's cipher text, two handlers with two requests, blocks of two values, up to two in a text,
  so that its cipher text has three and stdio may stop after any of them. What no
  encryption made decrypts to one value, `Garbled`, whose end may look like padding.

## 9. Threads and the singleton

* `PosixThreads` is `PthreadThread` with its factory: `shared_ptr`s held by owners, the
  reference `Start` makes for the new thread (`selfRef`), `state_lock_`, and pthreads,
  whose ids are reused once the thread, if detached, has ended or, if not, was joined.
  `Start` is three actions: the section up to `pthread_create`, which succeeds (`Create`)
  or makes it throw (`CreateFails`), and `Publish`, which adds the id to
  `live_thread_ids`, perhaps after the thread has come to its end. `Join` holds
  `state_lock_` while it waits. `Drop` lets a reference go; whoever drops the last one
  runs the destructor, which joins unless detached, in an owner or in the thread itself
  (`ReturnFromMain`).
* `Singleton` is `Singleton<T>` over `OnceInit`: each load, store and compare-and-swap
  of `once_` is an action.
* `Threads` composes them (`INSTANCE Singleton WITH Caller <- Thread`): the runnable of
  each thread takes the singleton, as the threads of `once_unittest.cc` do, and an owner
  shuts it down once what it has started was joined. It starts nothing afterwards, since
  `ShutDown` leaves `once_` at DONE and later calls of `GetInstance` give a null pointer.
* `ThreadsProps`, `MCThreads`, `threads.cfg`, `ThreadsProofs`.

`JoinsOwnThread`, `OwnersReap` and `UsersHoldTheInstance` are what joins, destructors
and the singleton promise each other. A thread whose own last reference is dropped in itself
is outside `OwnersReap`: `thread_factory.h:107-109` guarantees that threads are cleaned up with
their last reference, and `thread_factory.cc:130-136` admits that such a thread cannot be joined
and leaks. `EveryThreadEnds` says that every thread runs to
its end and every call returns. It needs weak fairness of each thread's own steps and of
an owner's steps within a call, which the scheduler gives; what an owner calls, and
when, is not obliged. Waiting in `pthread_join` is a step that is not enabled.

Run `threads`: two owners, two threads, two ids, about 128,000 states. Two owners can
hold an object each way round and race for the last reference and for `state_lock_`; two
threads race for the singleton; two ids are enough for one to be reused while the
other is alive. Owners stop when they like, so there is no deadlock check.

Ids are reused: the destructor of a joined object erases from `live_thread_ids` whatever
thread has its id by now. Nothing says that the id of a running thread stays
there, and the property covers only ids left behind.

Left out: a runnable that throws, which ends the process; names, priorities,
scheduling policy and stack size; a join of oneself outside the destructor.

## 10. Proofs

All theorems are about `Spec` (no fairness), for every value of the constants.
Assumptions on constants are named in the modules and say no more than the code
does: `ThreadsAssumption` (clients and workers are finite and distinct),
`ProgramAssumption` (scripts are sequences of calls, bodies are requests),
`SizeAssumption` (the initial sizes are size_t values), `TaskAssumption`
(`NoTask` is no task), `PoolAssumption` (finitely many clients; limits are
naturals), `ManagerAssumption` (the null values are none of the others),
`CryptoAssumption` (a block has at least one byte, and padding values are bytes),
`PosixAssumption` (owners, threads and the null values are distinct),
`CacheAssumption` and `SessionAssumption` (null values; limits are naturals),
`ResultsAssumption` (each variable has an owner; kinds of things are disjoint),
`NumbersAssumption` (a type is all numbers from 0 or `-max - 1` to a positive `max`),
`CtrAssumption` (a word has more than one value and a block more than one byte),
`PickleAssumption` (units of memory and headers are multiples of four, and a header fits
a unit) and
`FileAssumption` (texts have lengths). TLC evaluates all of them in the runs. A theorem
that needs more says so in its own ASSUME, and the text below says why.

The proof modules are one for each part of the system, as some of them share lemmas:
`ThreadManagerProofs`, `ConnectionPoolProofs`, `ThreadsProofs`, `CryptoServiceProofs`,
`PickleProofs`, `DatabaseProofs` (statement cache, connection manager, sessions, results)
and `CodecsProofs` (files, CTR mode, numbers). `DataLemmas` has what the proofs about data
rest on. Induction over numbers, and that a function recursive in a number exists and is
the only one, are proved there from `WFMin`: the least element of a set of numbers is a
first-order fact, while the library's induction theorems take an operator that the
installed provers cannot instantiate. So the models' recursive functions (`NumberOf`,
`FlattenSeq`, the offsets of items in a pickle) are reasoned about for all inputs.

**Thread manager.** `TypeOK` is inductive by itself because `LocalsOK` says what a
thread inside `Add`, or running a task, has in its hands. `IdleCountExact` is
inductive given types. For the queue, `QueueInv` joins four facts that
need one another: ids in the queue are consecutive (`QueueIsSuffix`), what left it
is exactly the rest, split between `begun` and `dropped` (`EachTaskOnce`), and what
workers hold was begun (`NoTaskShared`). Steps are first sorted into accepts, begins,
drops and steps that leave the queue alone (`EveryStepIsAQueueStep`), which also
carries the refinement. The bound needs `BoundSetFirst`: nothing is queued, and
nobody is about to reach STARTED, before `Start` has set it; otherwise a queue
filled while the bound was still 0 could exceed it.

| theorem | property |
|---|---|
| `TypeCorrect` | `TypeOK` |
| `IdleCountCorrect` | `IdleCountExact` |
| `QueueInOrder`, `NoTaskLostOrRepeated`, `TasksAreNotShared` | `QueueIsSuffix`, `EachTaskOnce`, `NoTaskShared` |
| `QueueStaysBounded` | `QueueBounded` (checked as a part of the abstract queue) |
| `ManagerImplementsQueue` | `ImplementsTaskQueue` |
| `LifecycleNeverGoesBack` | `LifecycleForward` |
| `NobodySleepsTooLong`, `NoWakeUpIsLost` | `NoSurplusSleeper`, `NoStrandedTask` |
| `JoinLeavesNothing` | `JoinDrains` |

The last three are not true of every program. TLC breaks `JoinDrains` with the programs of
`tm_late_add` (finding 3), `tm_stoppers` (finding 2) and `tm_resize`. `NoStrandedTask` and
`NoSurplusSleeper` hold with all the runs' programs, but `NoSurplusSleeper` can fail when
one client adds workers while another removes more: a new worker that finds the maximum
reached counts out without having counted in, and a later `worker_count_ <
worker_max_count_` compares with a count that is too low. They are proved of managers that
one client owns (`OwnedBy`): it calls `Start`, `AddWorker` and in the end `Join`, any
number of other clients add tasks, take them back and ask, and nobody calls `Stop` or
`RemoveWorker`. The program of `tm_join` is one, which `JoinScriptIsOwned` in
`MCThreadManager` has TLC evaluate. `OwnedInv` has two phases. Until the owner's `Join`
shrinks the pool, the maximum is the number of threads made, `worker_count_` is the number
of those counted in, and nobody leaves (`Growing`); when the owner is not inside
`AddWorker` the two are equal, so that `Join` takes away exactly what there is. After that
the maximum is 0, every sleeper has been woken (because `idle_count_` is exact,
`RousedAreAll`) and the count goes down with each worker that leaves (`Draining`). That
the two mutexes do not lose an update follows from the phases: no worker counts in while
another counts out. A task that is accepted wakes a sleeper if there is one (`PushWakes`),
and a worker that gives up leaves no sleeper behind, by `NoSurplusSleeper`. `Drains` adds
that nobody leaves before the queue is empty. It takes two more hypotheses, both needed:
no `Add` waits for room (finding 3), and `Start` makes at least one worker, since without
any `Join` returns at once and leaves the queue. All three also suppose that no more
threads are made than a `size_t` counts.

**Connection pool.** Three invariants, each using the ones before it.
`Shape`: the fields' types with the counts only known to be integers, `size_` the
length of the list, and no more entries than the limit. `Dated`: entries are in
order of entry and none is marked later than it came in, no reading of the clock is
in the future. `Owned`: every connection's count is the number of its references, it
is live exactly while referenced or disposed of by one thread, an idle one has the
list's reference alone and is detached. That a count is a *natural* number follows
from `Owned` and not before it, which is why `PoolTypeCorrect` comes after it.
References are counted as sums of cardinalities of sets of clients; `Frame`
gives each action the small change it makes to those sets.

| theorem | property |
|---|---|
| `PoolTypeCorrect` | `TypeOK` |
| `SizeIsExact` | `SizeExact` (not checked by a run) |
| `RefCountIsExact`, `HeldConnectionsLive`, `IdleIsUnshared` | `RefCountExact`, `LiveWhileHeld`, `IdleUnshared` |
| `HandsOutFreshAtReading` | `FreshAtReading` |
| `PoolImplementsLeases` | `ImplementsLeases` |

**Connection manager.** `Inv` joins the types, `Filed` (a pool not made yet is held by
nobody, and the map has each pool under the string it was made for) and the two
properties. Steps that leave the map alone and take pools only out of it (`Quiet`)
keep all of it; `Register` and `GCVisit` are the two others.

| theorem | property |
|---|---|
| `ManagerTypeCorrect` | `TypeOK` |
| `OnePoolForEachString` | `UsedPoolsAreRegistered` |
| `ErasedPoolsAreNotShared` | `ErasedPoolsEnd` |

**Crypto service.** `Measured` says that what is left in the stream is `count` whole
blocks and the rest, which is what makes each read find as much as it asks for.
`Written` says that after `j` blocks the output is the first `j` blocks of the image
and the chain that of the plain blocks so far; in the last turn the rest with its
padding is shown to be the last block of the padded text. `Restored` is its counterpart for
decryption: the client's text is what was encrypted last, the cipher text that is being
decrypted is a beginning of its image, and after `j` blocks one is held back and the ones
before it are written (`HoldsBack`), which are text because only the last turn looks
at the padding. From it follow both that decryption never writes anything but a beginning
of the text, wherever the cipher text was cut and also when it then fails, and that a whole
cipher text gives all of it. `Carried` says the same of SM2, with one message for one block.

| theorem | property |
|---|---|
| `CryptoTypeCorrect` | `TypeOK` |
| `EncryptionMakesTheImage` | `CipherIsImage` |
| `DecryptionGivesOnlyText` | `DecryptsOnlyTheText` |
| `DecryptionInvertsEncryption` | `DecryptInverts` |
| `Sm2BlockComesBack` | `Sm2RoundTrip` |

`Sm2BlockComesBack` is for texts of at most one block of SM2 (`MaxSm2 <= EncryptBlockSize`),
the bound of run `crypto_trip`: of longer ones it is false (finding 5).

**Threads and the singleton.** `PosixInv` has nine parts. `HostsOK` is the heart: an
id that has a host is that object's id, and a pthread keeps its id until it is
reaped. It needs `DetachedOK` (`detached_` is how the pthread was created, or a join
has returned), which needs `CallsOK` (what an owner inside `Start`, `Join` or the
destructor knows of its object), which needs `Locked`, `UnstartedOK`, `AbsentOK` (an
object that was started and has no pthread keeps a reference of its own) and `RefsOK`.
Each of the thirteen actions keeps each part. `SingletonInv` says how far the one
closure has come for each value of `once_`. `UseInv` ties the two: a thread is inside
`GetInstance`, or uses the instance, only while it runs, and after the shutdown none
does, because everything started was joined or failed (`QuiescentIsStill`).

| theorem | property |
|---|---|
| `TypesHold` | `TypeOK` |
| `JoinsAreOfOwnThreads` | `JoinsOwnThread` |
| `DestructorsReap` | `OwnersReap` |
| `InstanceOutlivesUsers` | `UsersHoldTheInstance` |

**Statement cache** (`DatabaseProofs`, as are the next two and the connection manager).
`InStep` relates any list and map, so that removing an entry (`RemovalInStep`) and putting
one in front (`PushInStep`) are a lemma each, and the three ways through `Insert` combine
them. For the refinement the contents are followed through the same two steps
(`RemovedContents`, `PushedContents`); that an eviction leaves exactly what the abstract
cache keeps needs `WithinLimit`.

| theorem | property |
|---|---|
| `CacheStaysInStep` | (`MapMatchesList`, which TLC no longer needs to check) |
| `CacheIsLru` | `CacheImplementsLru` |

**Sessions.** `Leases` (a connection is leased once and not idle meanwhile), `Scopes` (a
running scope is one session's), `Pending` (the server has a transaction open only for a
running scope, with rows of that scope; what the program has written there and is not
doubtful is in it or in the database; and if the transaction is no more, all that is left
to write is loose) and `Fit` make `AllOrNothing` inductive. `CrashKeeps` takes any set of
commits under way.

| theorem | property |
|---|---|
| `TransactionsAreWhole` | `AllOrNothing` |
| `IdleConnectionsAreFit` | `PooledIsFit` |

**Statements and results.** `HeldTogether` is inductive with the types. `NothingMissed` is
not: a count of calls tells whether there are rows to come only because rows taken are
the calls of `Next` as long as there were rows (`Read`), and a new driver result must not be
marked as one that `Row` has returned (the second part of `Reading`). `DeletesOthers` says
that a step which deletes what nobody refers to leaves the rest, so that a copy of a
result inherits from the original; `AnswersKeeps` serves `Query` and `Row` both.

| theorem | property |
|---|---|
| `ResultsTypesHold` | `ResultsTypeOK` |
| `ResultsStayWhole` | `ResultsAreWhole` |

**Numbers** (`CodecsProofs`, as are the next two). `ConversionIsExact` proves the first
half of `NumbersExact`, `ValueExact`, for every width, base and text: the tests by
`vmax / base` and `vmin / base` stop the loop exactly where the number leaves the type.
`QuotientTells` is the arithmetic of it. `TextIsConvertedExactly` proves all of it: `DigitsInv`
compares the loop with the number its digits stand for, by induction over the digits. A
number never gets smaller by one digit more (`NumberOfGrows`),
so that what overflows part of the way does not fit in the end.

**CTR mode.** `CtrInv` says that there is a list of places, one for each byte that a side has
handled, such that each is the next in the same block or, after the end of a call or of a
block, the first of the next block (`Places`), and that the object holds the counter of
the block after the last one begun (`Follows`). `PlacesGoOn` extends the list by a call.
From it: the places are all different, and so are the keys as long as the counter has not
been all round (`KeysServeOnce`); two sides that have cut alike have the same places
(`OpensWhereInStep`); and a carry between two words counts like one number (`MaskFollows`).

**Files.** `FilesInv` says of each handler that nobody has disturbed (`Intact`) that its files
are its own to write and its source is as it opened it (`Alone`), and that what it has
made so far, in the target and in the buffer, is a beginning of what it must make
(`Working`). Most of the work is that the steps of others keep it: they may not have the
file open to write, and if they come to open it the handler is disturbed. The theorem
supposes that `Missing`, which stands for a file that is not there, is no contents.

**Pickles.** A payload is taken as its items one after the other, between offsets (`Holds`), and
a stream as its pickles between starts (`OnTheWay`). `PickleInv` says that offsets exist for
each object and starts for the stream, that memory is whole units with room for the
payload (or is not the object's), and that a write goes to the end or, in a copy of a
read-only pickle, to the beginning. A write adds an offset, a copy keeps them, and what
`PickleIterator` reads at an offset is the item there, by the length bytes in front of it.

| theorem | property |
|---|---|
| `ConversionIsExact`, `TextIsConvertedExactly` | `ValueExact` (a part of the next), `NumbersExact` |
| `KeyStreamGoesOn` | `StreamGoesOn` |
| `FilesStayWhole` | `FilesAreWhole` |
| `PicklesComeBack` | `PicklesReadBack` |

**Only model-checked.** Every safety property of the passing runs is the property of a
theorem. The liveness properties `EveryCallReturns`, `AcceptedTaskIsServed` and
`EveryThreadEnds` rest on fairness, which is out of the prover's reach, as is ENABLED:
TLC checks them on the programs of `tm_join`, `tm_bounded` and `threads`. That `Sm2RoundTrip`
fails for longer texts, and the other findings, are TLC's counterexamples.

## 11. Findings

1. `tm_shrink`, `thread_manager.cc:268`. A worker compares `worker_count_` with the
   maximum under one mutex and decrements it later under another. Two workers
   woken for one `RemoveWorker(1)` can both leave; the count goes to 0, below the
   maximum of 1, and the wait for equality never ends.
2. `tm_stoppers`, `thread_manager.cc:362`. A `Stop` that meets a `Join` under way
   does not wait for it and sets STOPPED while a worker still runs a task,
   contrary to the header's description of `Join`.
3. `tm_late_add`, `thread_manager.cc:433`. `Add` does not test `state_` again after
   it has slept on `max_monitor_`: it pushes a task to a pool whose workers are
   gone and returns normally.
4. `cm_null`, `connection_manager.cc:52`. `Open(info)` sets its local `pool` only if it
   has created the pool. Called a second time for a string, or racing another call
   of `Open`, it calls `Open()` through a null pointer.
5. `crypto_long`, `sm2_asymmetric_encryptor.cc:103`. Decryption takes what it can read
   in 256 bytes for one message, while encryption writes a message of 112 or 128
   bytes for each 32 bytes: no text of more than 32 bytes decrypts. The unit test has
   a text of 33 bytes for this, but passes the size of a pointer for its length.

Other facts met on the way are in the models and in the hazards, without a run, since
nothing in the repository states the contrary: `ConnectionManager::GC` runs past the end
of its map when the number of pools is odd, and a new connection's `recyclable_` is 0, so
none returns to its pool until a user sets the flag. One fact does contradict a comment
and has no run: `thread_manager.h:116-118` says that `Add` throws in a worker thread when
the queue is full, but a worker that is not yet in `id_map_` (`thread_manager.cc:306`)
sleeps. With one worker, a queue of one and a client that adds before `Start` has returned
nothing ever wakes it. In the runs with a bound adders wait for `Start`. A file handler
whose target is its source empties the source, and one whose disk is full answers OK.

Each configuration of these runs checks the one property that the quoted comment,
header or test states, and TLC shows the code's way around it.

## 12. Reading the modules

A definition whose name ends in a capital `X` is not part of the system: it is a
slip the definition below it could have (a guard dropped, a notification left out,
a count off by one), kept next to it so that it can be put in its place to see that a
property notices. `PROJECT.json` lists one for each property of each passing run.

## 13. Not modelled

* Code generated by protoc, about 14,000 of the 35,000 lines of the implementation, and
  the vendored SM2, SM4 and minizip sources. BoringSSL and libmysqlclient are external:
  what they do is modelled where the callers depend on it.
* `Sm2AccessPoint`: every decryption reads `result[index + 1]` with `index` at the last
  element, past the end of the vector, so that what it answers is undefined and there is
  nothing to state about it. `ThreadManager`'s expire callback runs with `mutex_` held
  (`thread_manager.cc:493`), and one that calls the manager waits for itself; what it does
  is the embedding program's. A `Transaction` whose session goes away: a hazard
  without a property, with its reason.
* `ReadWriteMutex` and the unsynchronised `RefCounted`, which nothing uses; `PickleSizer`
  and `ClaimBytes` of `Pickle`, which nothing calls.
* CBC and ECB in `symmetric_crypt.cc`, one call of the library each; padding
  strategies, signatures and keys, likewise.
* `base/file*`, paths and temporary directories, zip archives: wrappers over system calls
  and minizip, which the server does not use. `Flush`, `Skip` and `Reset` of the file
  streams, which the handlers do not call.
* Time, formatting, string and value helpers, which keep no state that outlives a call.
* Binding and fetching of values; the registry of connectors, a map that is filled before
  it is read. Three facts there: a text bound to a statement is kept as a pointer to the
  caller's memory (`mysql_prepared_statement.h:20`); `MysqlDirectResult::At` with a
  length refuses column 0 (`mysql_direct_result.h:35`); `Result::Index` makes an exception
  for an unknown column and does not throw it (`result.cc:62`).
* What a program gets that runs a prepared statement again and then reads from the result
  it had before: both read through one cursor. `Results` states nothing for it.
* Memory orders weaker than sequential consistency: the counts and the once word use
  acquire and release where the models rely on it.

Nothing is left of the plan in section 2. What could be added is in this section: the
library under `base/`, which keeps little state, and the values that go through statements.
