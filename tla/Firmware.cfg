CONSTANTS
  Demos = {"echo", "can", "spi", "i2c", "rs485", "isr", "lin", "gpio", "adc", "pwm", "timer"}
  Constructors = {TRUE, FALSE}
  MaxRestarts = 2
  MaxGaps = 3
  ButtonPin = 8
  LedPins = {0, 1}
  CsLines = {0, 1}
  BlinkTicks = 2
  BeatTicks = 3
  Window64 = 3
  PwmTop = 3
  DutyStep = 1
  IdBit = {0, 1, 2, 3, 4, 5, 6, 7, 8, 9, 10}
  Body <- MCBody
  CtrlValues = {}
  IrqEnValues = {}
  ErrSpan = 2
  SpiDepth = 4
  Byte = {"A5", "3C"}
  Cs = {0, 1}
  SpiCtrlValues = {}
  ClearMasks = {}
  Window = 4
  I2cDepth = 4
  Bits = 8
  Lines = {TRUE}
  UartDepth = 8
  FRAME_BITS = 2
  LinByte = {"00", "3C", "55"}
  Sync = "55"
  MaxLength = 2
  Span = 4
  Channel = {0, 1}
  TimerWrites = {}
  Pin = {0, 1, 8}
  PwmPin = {0, 1}
  GpioSpan = 4
  ResetCycles = 2
  GpioOps = {}
  CHANNELS = 3
  CONV_LATENCY = 2
  AdcSpan = 3
  ResetDiv = 1
  Sample = {"s"}
  AdcOps = {}
SPECIFICATION FirmwareSpec
INVARIANTS
  EchoInOrder
  ReadsInOrder
  BusCarriesMessage
  InitQuiets
  GapCountedOnce
PROPERTIES
  DelayNotShort
  EchoArrives
  DemosFinish
