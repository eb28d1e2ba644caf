SPECIFICATION Spec
CONSTANTS
  IntBits = 9
  LongBits = 10
  PRINT_BUF_LEN = 6
  Samples = {0, 1, 9, 10, 15, 16, 99, 100}
  Widths = {0, 1, 4, 7}
  Decimals = {0, 1, 2}
  Parts = 32
  DumpLengths = {0, 1, 16, 17}
  Mixed <- MixedC
  MaxMixed = 3
INVARIANTS TypeOK PrintsBack DoubleReadsBack DirectivesApart BufferFits HexdumpReadsBack
