SPECIFICATION DatabaseSpec
CONSTANTS
  Client = {a, b}
  Strings = 3
  Pool = {p, q, r, u}
  NoPool = NoPool
  NoClient = NoClient
  select = select
  update = update
  delete = delete
  again = again
  Statement = {select, update, delete, again}
  SqlQuery <- SqlQueries
  Node = {n1, n2, n3}
  Sizes = {0, 2, 3}
  NoStatement = NoStatement
  User = {v, w}
  Connection = {c}
  Scope = {k, l}
  RowsPerScope = 2
  NoConnection = NoConnection
  NoScope = NoScope
SYMMETRY Symmetry
CHECK_DEADLOCK FALSE
INVARIANTS TypeOK UsedPoolsAreRegistered ErasedPoolsEnd AllOrNothing PooledIsFit
PROPERTIES CacheImplementsLru
