-------------------------------- MODULE MCEngines ------------------------------
(***************************************************************************)
(* The peripherals that go on by themselves: I2C master, UART, timer, GPIO *)
(* and converter.  They share no state but the PWM outputs, which the GPIO *)
(* module takes at any level, so a behaviour uses one of them, with one    *)
(* kind of firmware (unit, chosen at reset among Units), and the others    *)
(* rest.  The I2C master is used by firmware that sends or that receives;  *)
(* the UART by firmware that is a LIN slave, that is a LIN master, or that *)
(* receives plain bytes; the timer as an alarm, as a watchdog or for PWM   *)
(* and captures, which share nothing but the counter and its prescaler.    *)
(***************************************************************************)
EXTENDS QarI2c, QarUart, QarTimer, QarGpio, QarAdc

CONSTANT Units

I2cOps ==
  [i2c_out |->
     [reg: {"none"}] \cup [reg: {"TXDATA"}, value: {{0}}]
       \cup [reg: {"CMD"}, value: {{"START", "WRITE"}, {"WRITE", "STOP"}}]
       \cup [reg: {"CTRL"}, value: [enable: BOOLEAN, loopback: {FALSE}]]
       \cup [reg: {"STATUS"}, value: {I2cFault}],
   i2c_in |->
     [reg: {"none", "RXDATA"}]
       \cup [reg: {"CMD"}, value: {{"START"}, {"READ"}, {"READ", "STOP"}}]
       \cup [reg: {"IRQ_STATUS"}, value: {{"fault", "rx_ovf"}}]]

\* A line that is low, now or for a break, while no frame ends, and frames that end high.
Frames(fs) == [low: {FALSE}, long: {FALSE}, frame: fs]
Low == [low: {TRUE}, long: {FALSE}, frame: {"none"}]
LongLow == [low: {TRUE}, long: {TRUE}, frame: {"none"}]

UartOps ==
  [lin_slave |->
     [reg: {"none", "DATA"}]
       \cup [reg: {"CTRL"}, value: {[enable |-> TRUE, lin |-> TRUE]}]
       \cup [reg: {"LIN_CMD"}, value: {{"arm"}, {"cancel"}}]
       \cup [reg: {"LIN_SLAVE"}, value: [enable: {TRUE}, id: LinByte \ {Sync}, len: {2}]],
   lin_master |->
     [reg: {"none", "DATA"}]
       \cup [reg: {"CTRL"}, value: [enable: BOOLEAN, lin: {TRUE}]]
       \cup [reg: {"IRQ_STATUS"}, value: {UartFlag}]
       \cup [reg: {"LIN_CMD"}, value: {{"break"}, {"header"}, {"clear"}}],
   receiver |->
     [reg: {"none", "READ"}]
       \cup [reg: {"IRQ_STATUS"}, value: {{"error", "idle"}}]
       \cup [reg: {"IDLE_CFG"}, value: {TRUE}]]

VARIABLE unit

\* What is heard on the line: a LIN slave hears breaks at any time and the bytes of headers
\* (those between headers only fill the receive queue, which is the receiver's part), a LIN
\* master nothing, a receiver everything but breaks.
Heard ==
  CASE unit = "lin_slave" ->
         Frames({"none"} \cup (IF lin_header_state = 0 THEN {} ELSE LinByte)) \cup Low \cup LongLow
    [] unit = "lin_master" -> Frames({"none"})
    [] unit = "receiver" -> Frames({"none", "gap", "framing", "parity", Sync}) \cup Low

TimerUse ==
  LET Common ==
        [reg: {"CTRL"}, value: {[enable |-> TRUE, auto |-> Channel],
                                [enable |-> FALSE, auto |-> {}]}]
          \cup [reg: {"STATUS"}, value: {[wdt |-> TRUE, cmp |-> Channel, cap |-> Channel]}]
          \cup [reg: {"PRESCALE"}, value: {0, 1}]
          \cup [reg: {"COUNTER"}, value: {0}]
  IN [alarm |->
        Common
          \cup [reg: {"CMP"}, ch: Channel, value: {1, 2}]
          \cup [reg: {"CMP_PERIOD"}, ch: Channel, value: {2}],
      watchdog |->
        Common
          \cup [reg: {"WDT_CTRL"}, value: {[enable |-> TRUE, kick |-> TRUE],
                                           [enable |-> FALSE, kick |-> FALSE]}]
          \cup [reg: {"WDT_LOAD"}, value: {2}],
      pwm |->
        Common
          \cup [reg: {"CAPTURE_CTRL"}, value: {Channel}]
          \cup [reg: {"PWM_PERIOD"}, ch: Channel, value: {1, 2}]
          \cup [reg: {"PWM_DUTY"}, ch: Channel, value: {1}]]

MCTimerWrites == UNION {TimerUse[u] : u \in DOMAIN TimerUse}

MCGpioOps ==
  [reg: {"DIR", "OUT_SET", "OUT_CLR", "IRQ_STATUS", "IRQ_FALL", "DB_EN"}, value: {Pin}]
    \cup [reg: {"DIR", "ALT_PWM"}, value: {{}, PwmPin}]
    \cup [reg: {"DB_CYCLES"}, value: {0, GpioSpan - 1}]

MCAdcOps ==
  [reg: {"RESULT"}]
    \cup [reg: {"CTRL"},
          value: [enable: {TRUE}, continuous: BOOLEAN, start: {TRUE}, channel: {0, 2}]
                   \cup [enable: {TRUE}, continuous: BOOLEAN, start: {FALSE}, channel: {0}]
                   \cup {[enable |-> FALSE, continuous |-> TRUE, start |-> FALSE, channel |-> 0]}]
    \cup [reg: {"IRQ_STATUS"}, value: {{"ready", "overrun"}}]
    \cup [reg: {"SEQ_MASK"}, value: {{}, {1}, {0, 2}, {0, 1, 2}}]
    \cup [reg: {"SAMPLE_DIV"}, value: {0, AdcSpan - 1}]

--------------------------------------------------------------------------------
enginesVars == <<unit, i2cVars, uartVars, timerVars, gpioVars, adcVars>>

EnginesInit ==
  /\ I2cInit /\ UartInit /\ TimerInit /\ GpioInit /\ AdcInit
  /\ unit \in Units

OthersThanI2c == <<unit, uartVars, timerVars, gpioVars, adcVars>>
OthersThanUart == <<unit, i2cVars, timerVars, gpioVars, adcVars>>
OthersThanTimer == <<unit, i2cVars, uartVars, gpioVars, adcVars>>
OthersThanGpio == <<unit, i2cVars, uartVars, timerVars, adcVars>>
OthersThanAdc == <<unit, i2cVars, uartVars, timerVars, gpioVars>>

UsesI2c ==
  unit \in DOMAIN I2cOps /\ I2cNext(I2cOps[unit]) /\ UNCHANGED OthersThanI2c
UsesUart ==
  unit \in DOMAIN UartOps /\ UartNext(UartOps[unit], Heard) /\ UNCHANGED OthersThanUart
UsesTimer ==
  /\ unit \in DOMAIN TimerUse
  /\ Idle \/ \E w \in TimerUse[unit] : TimerEdge(w)
  /\ UNCHANGED OthersThanTimer
UsesGpio == unit = "gpio" /\ GpioNext /\ UNCHANGED OthersThanGpio
UsesAdc == unit = "adc" /\ AdcNext /\ UNCHANGED OthersThanAdc

EnginesNext == UsesI2c \/ UsesUart \/ UsesTimer \/ UsesGpio \/ UsesAdc

EnginesSpec == EnginesInit /\ [][EnginesNext]_enginesVars

\* The bit clocks run and a break ends; nothing makes the firmware or the line act.  For
\* timer, GPIO and converter the clock runs, and firmware does not write, nor pins change, at
\* every edge.
EnginesFairSpec ==
  /\ EnginesSpec
  /\ WF_enginesVars(unit \in DOMAIN I2cOps /\ I2cTick(I2cOps[unit]) /\ UNCHANGED OthersThanI2c)
  /\ WF_enginesVars(unit \in DOMAIN UartOps /\ UartTick(UartOps[unit], Heard)
                      /\ UNCHANGED OthersThanUart)
  /\ WF_enginesVars(unit \in DOMAIN TimerUse /\ Idle /\ UNCHANGED OthersThanTimer)
  /\ WF_enginesVars(unit = "gpio" /\ GpioStill /\ UNCHANGED OthersThanGpio)
  /\ WF_enginesVars(unit = "adc" /\ AdcQuiet /\ UNCHANGED OthersThanAdc)
================================================================================
