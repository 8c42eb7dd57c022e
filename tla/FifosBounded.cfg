CONSTANTS
  SpiDepth = 4
  Byte = {x, y}
  Cs = {c}
  SpiCtrlValues <- MCSpiCtrlValues
  ClearMasks = {}
  Window = 8
SPECIFICATION EchoSpec
INVARIANT
  FifosBounded
