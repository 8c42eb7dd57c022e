CONSTANTS
  Units = {"watchdog"}
  I2cDepth = 2
  Bits = 2
  Lines = {TRUE, FALSE}
  UartDepth = 2
  FRAME_BITS = 1
  LinByte = {x55, own}
  Sync = x55
  MaxLength = 2
  Span = 4
  Channel = {c0}
  TimerWrites <- MCTimerWrites
  Pin = {p0}
  PwmPin = {p0}
  GpioSpan = 4
  ResetCycles = 2
  GpioOps <- MCGpioOps
  CHANNELS = 3
  CONV_LATENCY = 2
  AdcSpan = 3
  ResetDiv = 1
  Sample = {s}
  AdcOps <- MCAdcOps
SPECIFICATION EnginesSpec
PROPERTY
  KickReloads
