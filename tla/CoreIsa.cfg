CONSTANTS
  PcSpan = 8
  ICACHE_ENTRIES = 0
  None = None
  WordBits = 3
  Reg = {0, 1, 2}
  Addr <- MCAddr
  MtvecReset = 5
  Levels = {FALSE, TRUE}
  Word <- Instr
  Programs <- Sequential
SPECIFICATION CoreSpec
INVARIANTS
  PipelineInOrder
  AccessOwned
PROPERTIES
  ImplementsIsa
  DeliversStream
