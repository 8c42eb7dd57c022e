CONSTANTS
  Byte = {0, 1, 2}
  WordSize = 2
  Words <- MCWords
  DATA_BASE = 8
  Elfs <- MCElfs
  Hexes <- MCHexes
  NoElf = NoElf
  Junk = Junk
  MaxRuns = 3
SPECIFICATION ImageSpec
INVARIANTS
  HexIsImage
  HexOnlyCut
  BinaryIsImage
CHECK_DEADLOCK FALSE
