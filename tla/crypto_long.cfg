SPECIFICATION Spec
CONSTANTS
  Byte = {0, 1, 2}
  NoByte = NoByte
  AesBlockSize = 2
  MaxAes = 0
  MaxSm2 = 3
INVARIANT Sm2RoundTrip
