CONSTANTS
  Demos = {"can", "gpio"}
  Constructors = {FALSE}
  MaxRestarts = 1
  MaxGaps = 2
  ButtonPin = 8
  LedPins = {0, 1}
  CsLines = {0, 1}
  BlinkTicks = 1
  BeatTicks = 2
  Window64 = 2
  PwmTop = 2
  DutyStep = 1
  IdBit = {0, 1, 2, 3, 4, 5, 6, 7, 8, 9, 10}
  Body <- MCBody
  CtrlValues = {}
  IrqEnValues = {}
  ErrSpan = 2
  SpiDepth = 2
  Byte = {"A5", "3C"}
  Cs = {0, 1}
  SpiCtrlValues = {}
  ClearMasks = {}
  Window = 2
  I2cDepth = 2
  Bits = 8
  Lines = {TRUE}
  UartDepth = 2
  FRAME_BITS = 1
  LinByte = {"00", "3C", "55"}
  Sync = "55"
  MaxLength = 2
  Span = 3
  Channel = {0, 1}
  TimerWrites = {}
  Pin = {0, 1, 8}
  PwmPin = {0, 1}
  GpioSpan = 3
  ResetCycles = 2
  GpioOps = {}
  CHANNELS = 3
  CONV_LATENCY = 2
  AdcSpan = 3
  ResetDiv = 1
  Sample = {"s"}
  AdcOps = {}
SPECIFICATION FirmwareSpec
INVARIANT KnownAtMain
