SPECIFICATION Spec
CONSTANTS
  Client = {a, b}
  Strings = 3
  Pool = {p, q, r, u}
  NoPool = NoPool
  NoClient = NoClient
SYMMETRY Symmetry
CHECK_DEADLOCK FALSE
INVARIANTS PoolNotNull
