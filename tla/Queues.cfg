CONSTANTS
  IdBit = {b}
  Body = {w}
  CtrlValues <- MCCtrlValues
  IrqEnValues <- MCIrqEnValues
  ErrSpan = 1
  SpiDepth = 2
  Byte = {x}
  Cs = {c}
  SpiCtrlValues <- MCSpiCtrlValues
  ClearMasks <- MCClearMasks
SPECIFICATION QueuesSpec
INVARIANTS
  FifoBounded
  PendingSound
  OverflowExplained
PROPERTIES
  ImplementsQueue
  FaultRecorded
  DropAnnounced
