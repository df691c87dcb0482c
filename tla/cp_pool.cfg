SPECIFICATION PoolSpec
CONSTANTS
  Client = {a, b}
  Connection = {x, y, z}
  Limit = 2
  LifeTime = 1
  MaxTime = 3
  NoConnection = NoConnection
  reader = reader
  other = other
  Program = {reader, other}
  StatementVar = {m, n}
  ResultVar = {s, t}
  Owner <- Owners
  Link = {link}
  Prepared = {prepared}
  Direct = {direct}
  Answer = {i, j}
  MaxRows = 2
  MaxNext = 3
  NoLink = NoLink
  NoNative = NoNative
  NoAnswer = NoAnswer
SYMMETRY Symmetry
INVARIANTS TypeOK RefCountExact LiveWhileHeld IdleUnshared ResultsAreWhole
PROPERTIES FreshAtReading ImplementsLeases
