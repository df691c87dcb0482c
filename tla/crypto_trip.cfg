SPECIFICATION CodecsSpec
CONSTANTS
  Byte = {0, 1, 2}
  NoByte = NoByte
  AesBlockSize = 2
  MaxAes = 6
  MaxSm2 = 2
  WordSize = 2
  BlockLength = 2
  MaxStream = 6
  Object = {x, y}
  PayloadUnit = 8
  PickleHeapAlign = 16
  HeaderSizes = {4, 8}
  StreamHeader = 8
  Kinds <- Values
  Reservations = {9}
  MaxItems = 2
  MaxInFlight = 24
  Character = {0, 1, 5, 6, 33, 36, 37, 38}
  MaxLength = 4
  Base = {0, 2, 10, 16, 37}
  IntType <- IntTypes
  File = {f, g}
  Handler = {h, i}
  Text <- FileTexts
  MaxBlocks = 2
  MaxHandled = 2
  Missing = Missing
SYMMETRY Symmetry
INVARIANTS TypeOK CipherIsImage DecryptsOnlyTheText DecryptInverts Sm2RoundTrip StreamGoesOn PicklesReadBack NumbersExact FilesAreWhole
