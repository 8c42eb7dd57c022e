--------------------------------- MODULE Firmware --------------------------------
(***************************************************************************)
(* One processor that runs one program of QarDemos on the peripherals, and *)
(* the peripherals themselves.  Every action is one clock edge of all of   *)
(* them: the processor makes the access of the step it is at, or none, as  *)
(* long as a poll does not see what it waits for or while it computes.     *)
(* devkit/sdk/crt0.S starts the program; qar_sdk_init comes first when a   *)
(* start-up calls the constructors, as devkit/sdk/hal_init.h describes.    *)
(* Start-up may also find the peripherals as an earlier program left them. *)
(* The pipeline and its buses are QarCore's; here accesses are in order    *)
(* and any number of edges apart.                                          *)
(***************************************************************************)
EXTENDS QarDemos, QarCan, SpiEcho, QarI2c, QarUart, QarTimer, QarGpio, QarAdc

CONSTANTS
  Demos,          \* the programs, "echo" for the driver of SpiEcho
  Constructors,   \* {TRUE} when start-up calls the constructors, {FALSE} when not
  MaxRestarts,    \* bound: starts without a reset
  MaxGaps         \* bound: idle gaps of the UART's line

\* The pins and channels are those that qar_sdk_init clears; a body is the three registers
\* of the CAN mailbox.
ASSUME FirmwareAssumption ==
  /\ Constructors \subseteq BOOLEAN
  /\ MaxRestarts \in Nat /\ MaxGaps \in Nat
  /\ Pin \subseteq AllPins /\ Channel = TimerChannels
  /\ \A b \in Body : b = [dlc |-> b.dlc, data0 |-> b.data0, data1 |-> b.data1]

VARIABLES
  pc,             \* 0 is _start; 1 is the first step of qar_sdk_init, or of uart_isr
  demo,
  mepc,           \* where uart_isr returns to, 0 outside
  acc,            \* the register a read-modify-write is made in
  log,            \* what the program has kept of its reads
  start,          \* local of firmware_delay
  pattern,        \* static of gpio_irq_demo
  idle_count,     \* global of uart_rs485_isr
  irq_mask,       \* the IRQ_EN registers the peripherals' modules leave out
  uart_seen,      \* the bits of the UART's STATUS that copy other registers
  inited, restarts,
  served, gaps, passed    \* history: I2C commands, idle gaps, ticks since a mark

programVars == <<pc, mepc, acc, log, start, pattern, idle_count>>
historyVars == <<served, gaps, passed>>
firmwareVars ==
  <<programVars, demo, irq_mask, uart_seen, inited, restarts, historyVars, canVars,
    echoVars, i2cVars, uartVars, timerVars, gpioVars, adcVars>>

Program ==
  [can |-> can_loopback, spi |-> spi_loopback, i2c |-> i2c_loopback,
   rs485 |-> uart_rs485, isr |-> uart_rs485_isr, lin |-> lin_auto_header,
   gpio |-> gpio_irq_demo, adc |-> adc_client,
   pwm |-> timer_pwm_demo, timer |-> timer_example]

Text == [d \in DOMAIN Program |-> qar_sdk_init \o Program[d]]
MainAt == Len(qar_sdk_init) + 1

Code == IF mepc = 0 THEN Text[demo] ELSE uart_isr
Running == demo \in DOMAIN Text /\ pc # 0 /\ pc <= Len(Code)
Now == Code[pc]
InDelay == Running /\ Now.step = "elapse"

\* Bound: the programs that a behaviour may start again.  The others' controllers hold
\* work that qar_sdk_init does not end; of uart_rs485, whose queued bytes it does not flush
\* either, the properties claim quiet registers and an end: see the README.
Restartable == {"can", "gpio", "rs485"}

\* The peripherals of a program.  Another one only sees the writes of qar_sdk_init: it
\* stays as after reset, where an edge without an access changes nothing.
Uses == [can |-> {"can"}, spi |-> {"spi"}, i2c |-> {"i2c"}, adc |-> {"adc"},
         rs485 |-> {"uart"}, isr |-> {"uart"}, lin |-> {"uart"},
         gpio |-> {"gpio", "timer"}, pwm |-> {"gpio", "timer"}, timer |-> {"timer"}]

\* A row that no program reads before it writes it.
AnyOf(S) == CHOOSE e \in S : TRUE

FirmwareInit ==
  /\ demo \in Demos
  /\ pc = 0 /\ mepc = 0 /\ acc = {} /\ log = <<>> /\ start = 0
  /\ pattern = 0 /\ idle_count = 0
  /\ irq_mask = [u \in {"gpio", "timer", "uart", "spi", "i2c", "adc"} |-> {}]
  /\ uart_seen = {} /\ inited = FALSE /\ restarts = 0
  /\ served = <<>> /\ gaps = 0 /\ passed = 0
  /\ tx_body = AnyOf(Body) /\ rx_fifo = [r \in 0 .. 3 |-> [id |-> {}, body |-> AnyOf(Body)]]
  /\ active_tx_byte = AnyOf(Byte)
  /\ spi_tx = [r \in SpiRow |-> AnyOf(Byte)] /\ spi_rx = [r \in SpiRow |-> AnyOf(Byte)]
  /\ cs_select = {0}
  /\ lin_slave_ctrl = [enable |-> FALSE, id |-> "00", len |-> 0]
  /\ CanInit /\ EchoInit /\ I2cInit /\ UartInit /\ TimerInit /\ GpioInit /\ AdcInit

--------------------------------------------------------------------------------
(* The peripherals at one edge: the access op is for the peripheral at *)

CanWrites(op) ==
  CASE op.reg = "CTRL" -> SetCtrl(op.value)
    [] op.reg = "IRQ_EN" -> SetIrqEn(op.value)
    [] op.reg = "IRQ_STATUS" -> Acknowledge(op.value)
    [] op.reg = "FILTER_ID" -> SetFilterId(op.value)
    [] op.reg = "FILTER_MASK" -> SetFilterMask(op.value)
    [] op.reg = "TX_ID" -> SetMailbox(op.value, tx_body)
    [] op.reg = "TX_DLC" -> SetMailbox(tx_id, [tx_body EXCEPT !.dlc = op.value])
    [] op.reg = "TX_DATA0" -> SetMailbox(tx_id, [tx_body EXCEPT !.data0 = op.value])
    [] op.reg = "TX_DATA1" -> SetMailbox(tx_id, [tx_body EXCEPT !.data1 = op.value])
    [] op.reg = "TX_CMD" /\ "enable" \in ctrl -> TxCmd
    [] op.reg = "RX_FIFO" -> FifoControl("pop" \in op.value, "flush" \in op.value, FALSE)
    [] OTHER -> UNCHANGED canVars

\* What the program has written to the SPI master and not read back.
SpiTraffic(op) ==
  outstanding' = CASE op.reg = "TXDATA" -> Append(outstanding, op.value)
                   [] op.reg = "RXDATA" -> Tail(outstanding)
                   [] OTHER -> outstanding

\* The copies in STATUS are registers too, one edge late.
UartCopies ==
  uart_seen' = {s \in {"header"} : lin_header_valid} \cup {s \in {"tx_space"} : ~uart_tx_full}

OtherMasks(at, op) ==
  irq_mask' = IF at \in DOMAIN irq_mask /\ op.reg = "IRQ_EN"
              THEN [irq_mask EXCEPT ![at] = op.value] ELSE irq_mask

Histories(at, step, rx) ==
  /\ served' = IF Taken = "none" THEN served
               ELSE Append(served, <<Taken, IF Taken = "WRITE" THEN NextByte ELSE {}>>)
  /\ gaps' = IF IdleGap(rx) /\ demo = "isr" THEN gaps + 1 ELSE gaps
  /\ passed' = IF step = "elapse" \/ (step # "mark" /\ ~InDelay) THEN 0
               ELSE IF Tick /\ passed < Span THEN passed + 1
               ELSE passed

\* One edge: the bit clocks run out (fast) or not, rx is the UART's line, in the pins.
\* MISO is not read: the programs that transfer set loopback.
Edge(at, step, op, fast, rx, in) ==
  LET For(unit) == IF at = unit THEN op ELSE NoAccess
      Runs(unit) == at = unit \/ unit \in Uses[demo]
      pwm == {p \in PwmPin : pwm_out[p]}
  IN
  /\ IdleGap(rx) /\ demo = "isr" => gaps < MaxGaps
  /\ Histories(at, step, rx)
  /\ UartCopies /\ OtherMasks(at, op) /\ SpiTraffic(For("spi"))
  /\ CanWrites(For("can"))
  /\ IF Runs("spi") THEN SpiEdge(For("spi"), fast, active_tx_byte) ELSE UNCHANGED spiVars
  /\ IF Runs("i2c") THEN I2cEdge(For("i2c"), fast, TRUE) ELSE UNCHANGED i2cVars
  /\ IF Runs("uart") THEN UartEdge(For("uart"), rx, fast /\ Sending, fast /\ lin_break_active)
     ELSE UNCHANGED uartVars
  /\ IF Runs("timer") THEN TimerEdge(For("timer")) ELSE UNCHANGED timerVars
  /\ IF Runs("gpio") THEN GpioEdge(For("gpio"), in, pwm) ELSE UNCHANGED gpioVars
  /\ IF Runs("adc") THEN \E sample \in Sample : AdcEdge(For("adc"), sample)
     ELSE UNCHANGED adcVars

Quiet == [low |-> FALSE, long |-> FALSE, frame |-> "none"]
Gap == [Quiet EXCEPT !.frame = "gap"]
StartBit == [Quiet EXCEPT !.low = TRUE]
FrameEnd == [Quiet EXCEPT !.frame = "framing"]

\* Other stations talk on the line of the programs that watch it, which read no byte: one
\* kind of frame will do.  A button is a pin.
OnLine == IF demo \in {"rs485", "isr"} THEN Possible({Quiet, Gap, StartBit, FrameEnd}) ELSE {Quiet}
OnPins == {level} \cup (IF demo = "gpio" THEN {level \cup {ButtonPin}, level \ {ButtonPin}} ELSE {})

--------------------------------------------------------------------------------
(* The processor *)

\* The flags that a read of the step's register shows.
Flags(s) ==
  IF s.reg = "IRQ_EN" THEN IF s.at = "can" THEN irq_en ELSE irq_mask[s.at]
  ELSE
  CASE s.at = "gpio" -> gpio_irq
    [] s.at = "timer" -> {c \in Channel : pwm_out[c]}
    [] s.at = "uart" -> uart_status \cup uart_seen
    [] s.at = "spi" -> {f \in {"tx_ready"} : ~spi_tx_full} \cup {f \in {"rx_valid"} : ~spi_rx_empty}
    [] s.at = "i2c" /\ s.reg = "CMD" -> cmd_reg
    [] s.at = "i2c" /\ s.reg # "CMD" -> i2c_flags \cup {f \in {"busy"} : state # "IDLE"}
    [] s.at = "adc" -> {f \in {"ready"} : data_valid} \cup {f \in {"busy"} : adc_busy}

\* What a read that is kept yields.
Kept(s) ==
  LET waiting == rx_fifo[rx_tail % FIFO_DEPTH] IN
  CASE s.reg = "RX_ID" -> waiting.id
    [] s.reg = "RX_DATA0" -> waiting.body.data0
    [] s.reg = "RX_DATA1" -> waiting.body.data1
    [] s.reg = "RXDATA" -> spi_rx[spi_rx_tail % SpiDepth]
    [] s.reg = "RESULT" -> result_channel
    [] s.reg = "CAPTURE_VALUE" -> capture_value[s.ch]
    [] s.reg = "LIN_HEADER" -> lin_header_valid
    [] s.reg = "STATUS" -> Flags(s)

\* mutant of Elapsed: the sum is compared, which wraps at another time
ElapsedOfSum(ticks) == counter >= (start + ticks) % Span

\* (uint32_t)(counter - start) >= ticks
Elapsed(ticks) == (counter - start) % Span >= ticks

Access(s) ==
  CASE s.step = "put" -> s.op
    [] s.step = "store" -> [reg |-> s.reg, value |-> (acc \cup s.set) \ s.clear]
    [] s.step = "beat" -> [reg |-> "OUT", value |-> {pattern}]
    [] s.step = "get" /\ s.reg \in {"RXDATA", "RESULT"} -> [reg |-> s.reg]
    [] OTHER -> NoAccess

\* A poll goes on when it has seen what it waits for.
GoesOn(s) ==
  CASE s.step = "until" -> s.flags \cap Flags(s) # {}
    [] s.step = "while" -> s.flags \cap Flags(s) = {}
    [] s.step = "least" -> RxEntries >= s.n
    [] s.step = "elapse" -> Elapsed(s.ticks)
    [] OTHER -> TRUE

NextPc(s) ==
  IF s.step = "mret" THEN mepc
  ELSE IF s.step = "jump" \/ (s.step = "unless" /\ s.flags \cap Flags(s) = {}) THEN pc + s.by
  ELSE pc + 1

Execute(fast, rx, in) ==
  LET s == Now IN
  /\ Running /\ GoesOn(s)
  /\ Edge(s.at, s.step, Access(s), fast, rx, in)
  /\ pc' = NextPc(s)
  /\ mepc' = IF s.step = "mret" THEN 0 ELSE mepc
  /\ acc' = CASE s.step = "load" -> Flags(s) [] s.step = "store" -> {} [] OTHER -> acc
  /\ log' = IF s.step = "get" THEN Append(log, Kept(s)) ELSE log
  /\ start' = CASE s.step = "mark" -> counter [] s.step = "elapse" -> 0 [] OTHER -> start
  /\ pattern' = IF s.step # "beat" THEN pattern
                ELSE IF pattern + 1 \in LedPins THEN pattern + 1 ELSE 0
  /\ idle_count' = IF s.step = "count" THEN idle_count + 1 ELSE idle_count
  /\ UNCHANGED <<demo, inited, restarts, program>>

\* The processor polls in vain, computes or has come to its last loop.
Compute(fast, rx, in) ==
  /\ demo \in DOMAIN Text
  /\ Edge("none", "none", NoAccess, fast, rx, in)
  /\ UNCHANGED <<programVars, demo, inited, restarts, program>>

\* The UART's line strikes the program that has enabled it.
Strikes ==
  /\ demo = "isr" /\ mepc = 0 /\ pc >= MainAt
  /\ irq_mask["uart"] \cap uart_irq # {}

Interrupt(fast, rx, in) ==
  /\ Strikes
  /\ Edge("none", "none", NoAccess, fast, rx, in)
  /\ pc' = 1 /\ mepc' = pc
  /\ UNCHANGED <<acc, log, start, pattern, idle_count, demo, inited, restarts, program>>

\* crt0.S clears the program's variables and calls main, at every start; a start-up that
\* calls the constructors would run qar_sdk_init between the two.
Boot(fast, rx, in) ==
  /\ demo \in DOMAIN Text /\ pc = 0
  /\ Edge("none", "none", NoAccess, fast, rx, in)
  /\ \E c \in Constructors :
       /\ inited' = c /\ pc' = IF c THEN 1 ELSE MainAt
  /\ mepc' = 0 /\ acc' = {} /\ log' = <<>> /\ start' = 0 /\ pattern' = 0 /\ idle_count' = 0
  /\ UNCHANGED <<demo, restarts, program>>

\* Control comes to _start again, without a reset of the peripherals.
Restart(fast, rx, in) ==
  /\ demo \in Restartable /\ pc # 0 /\ restarts < MaxRestarts
  /\ Edge("none", "none", NoAccess, fast, rx, in)
  /\ pc' = 0 /\ restarts' = restarts + 1
  /\ UNCHANGED <<mepc, acc, log, start, pattern, idle_count, demo, inited, program>>

\* The driver of SpiEcho uses the SPI master alone.
Echo(fast) ==
  /\ demo = "echo" /\ EchoStep(fast)
  /\ UNCHANGED <<programVars, demo, irq_mask, uart_seen, inited, restarts, historyVars,
                 canVars, i2cVars, uartVars, timerVars, gpioVars, adcVars>>

Processor(fast, rx, in) ==
  Execute(fast, rx, in) \/ Interrupt(fast, rx, in) \/ Boot(fast, rx, in)

\* A bit clock that serves a transfer may run out or not.
Clocked == busy \/ state # "IDLE" \/ Sending

FirmwareNext == \E fast \in {FALSE, Clocked} :
  \/ Echo(fast)
  \/ \E rx \in OnLine, in \in OnPins :
       Processor(fast, rx, in) \/ Compute(fast, rx, in) \/ Restart(fast, rx, in)

\* The program goes on, out of a poll too, whose loop is shorter than what it waits for
\* lasts; start-up and an interrupt that waits are taken.
ProgramFairness ==
  SF_pc(\/ Running /\ GoesOn(Now) /\ pc' = NextPc(Now)
        \/ demo \in DOMAIN Text /\ pc = 0 /\ pc' \in {1, MainAt}
        \/ Strikes /\ pc' = 1)

\* The clock runs: the shifter and the engine get on with their work, the transmitter with
\* its frames, the converter with its conversions.
ClockFairness ==
  /\ WF_busy((busy \/ Start) /\ busy' = ~busy)
  /\ WF_<<state, scl_state>>(/\ state # "IDLE" \/ Taken # "none"
                             /\ state' \in {"IDLE", "ACK"} \cup Cmd /\ scl_state' \in BOOLEAN)
  /\ WF_tx_bits_remaining(\/ Take /\ tx_bits_remaining' = FRAME_BITS
                          \/ TxShift(TRUE) /\ tx_bits_remaining' = tx_bits_remaining - 1)
  /\ WF_<<conv_counter, sample_counter, adc_busy>>(
        /\ adc_busy \/ ManualStart \/ AdcWaiting
        /\ conv_counter' \in 0 .. CONV_LATENCY - 1 /\ sample_counter' \in 0 .. AdcSpan
        /\ adc_busy' \in BOOLEAN)

\* A line that stays quiet shows its gap.
LineFairness ==
  WF_idle_irq_pending(IdleGap(Gap) /\ (demo = "isr" => gaps < MaxGaps) /\ idle_irq_pending' = TRUE)

FirmwareSpec == FirmwareInit /\ [][FirmwareNext]_firmwareVars 
                  /\ ProgramFairness /\ ClockFairness /\ LineFairness

--------------------------------------------------------------------------------
(* Properties *)

Halted == demo \in DOMAIN Text /\ mepc = 0 /\ pc > Len(Code)

\* What a program should have read when all is well.
Expected ==
  CASE demo = "can" -> <<Frame1.id, Frame1.data0, Frame1.data1,
                         Frame2.id, Frame2.data0, Frame2.data1>>
    [] demo = "spi" -> <<"A5", "3C">>
    [] demo = "adc" -> <<2>>
    [] OTHER -> log

\* What the program has read so far is what it should have read.  The code does not promise
\* it of a start without a reset that calls no constructor, which is crt0.S's: can_loopback
\* then reads frames that were left in the queue.  No run checks it (see the README).
ReadsOwnFrames == log = SubSeq(Expected, 1, Len(log))

\* The first start after reset, or one that has called qar_sdk_init.
FreshStart == restarts = 0 \/ inited

\* A program of examples/c that starts after reset, or after any number of starts by way of
\* qar_sdk_init, reads back what it sent, in order, and a converter that left continuous
\* conversion answers the channel asked for: no frame, byte or conversion that an earlier
\* command or, with qar_sdk_init between, an earlier program has left comes in between.
ReadsInOrder == FreshStart => ReadsOwnFrames

\* The commands of i2c_loopback, each with the byte it takes
Message ==
  <<<<"START", {}>>, <<"WRITE", I2cAddress>>, <<"WRITE", I2cPayload>>, <<"STOP", {}>>>>

\* i2c_loopback: the engine serves the commands in the order of issue, each WRITE with
\* its own byte; none is lost for an issue that comes too early, and at the end the bus
\* is released.
BusCarriesMessage ==
  demo = "i2c" =>
    /\ served = SubSeq(Message, 1, Len(served))
    /\ Halted => served = Message /\ state = "IDLE" /\ scl_state /\ sda_state

\* firmware_delay never returns early, wherever the counter wraps meanwhile.
DelayNotShort ==
  [][InDelay /\ pc' = pc + 1 => passed >= Now.ticks]_firmwareVars

\* A start-up that runs qar_sdk_init hands main() quiet peripherals whatever an earlier
\* program left and whatever happens on the pins and lines meanwhile: no pin is driven or
\* watched, no controller is enabled, no timer runs, no CAN frame waits, no UART frame is on
\* its way, no error, gap or break is recorded, and no interrupt is pending.  Bytes in the
\* queues of UART, SPI and I2C stay where they are (QueuesEmptyAtMain).
QuietAtMain ==
  /\ gpio_dir = {} /\ gpio_out_reg = {} /\ alt_pwm_sel = {} /\ gpio_irq = {}
  /\ irq_rise_mask = {} /\ irq_fall_mask = {} /\ debounce_enable = {}
  /\ ~timer_ctrl.enable /\ timer_status = [wdt |-> FALSE, cmp |-> {}, cap |-> {}]
  /\ cmp = Zero /\ pwm_period = Zero /\ ~wdt_enable
  /\ ~uart_ctrl.enable /\ uart_irq = {} /\ uart_status = {} /\ ~idle_cfg
  /\ tx_bits_remaining = 0 /\ ~rx_busy
  /\ ctrl = {} /\ irq_en = {} /\ irq_status = {} /\ RxEntries = 0
  /\ ~spi_ctrl.enable /\ ~i2c_ctrl.enable /\ ~ctrl_enable
  /\ \A u \in DOMAIN irq_mask : irq_mask[u] = {}

InitQuiets == pc = MainAt /\ mepc = 0 /\ inited => QuietAtMain

\* The UART comes to main() with nothing to send and nothing received.  hal_init.c flushes
\* none of its queues, so a second start finds what the first had queued; no run checks it
\* (see the README).
QueuesEmptyAtMain == pc = MainAt /\ mepc = 0 /\ inited => uart_tx_empty /\ uart_rx_empty

\* devkit/sdk/hal_init.h: qar_sdk_init "is invoked automatically by the SDK runtime before
\* main()", so that "C firmware always starts from a known state".  crt0.S calls main alone.
KnownAtMain == pc = MainAt /\ mepc = 0 => QuietAtMain

\* uart_isr counts no gap of the line twice, though STATUS, the interrupt flag and the
\* line move between its read and its acknowledge.
GapCountedOnce == idle_count <= gaps

\* Five inductive invariants, one behind each of GapCountedOnce, DelayNotShort, InitQuiets,
\* BusCarriesMessage and ReadsInOrder.  Control is in the program's text or, between an
\* interrupt and its return, in uart_isr.
ControlInv ==
  /\ pc \in Nat /\ mepc \in Nat
  /\ mepc # 0 => demo = "isr" /\ pc \in 1 .. Len(uart_isr)

\* An idle flag that is up stands for a gap not yet counted, unless the handler is between
\* its count and its acknowledge; the flag that the handler has seen is still up.
GapInv ==
  /\ ControlInv
  /\ gaps \in Nat /\ idle_count \in Nat
  /\ uart_seen \subseteq {"header", "tx_space"}
  /\ IF demo = "isr"
     THEN idle_count + (IF "idle" \in uart_status /\ (mepc # 0 => pc # 3) THEN 1 ELSE 0) <= gaps
     ELSE idle_count = 0
  /\ mepc # 0 /\ pc = 2 => "idle" \in uart_status

\* What firmware_delay compares never runs ahead of the ticks that have passed.
DelayInv ==
  /\ ControlInv
  /\ counter \in Value /\ start \in Value /\ passed \in Nat
  /\ InDelay => (counter - start) % Span <= passed

\* The registers hold flags, pins and channels that qar_sdk_init can clear.
Clearable ==
  /\ DOMAIN irq_mask = {"gpio", "timer", "uart", "spi", "i2c", "adc"}
  /\ irq_mask["uart"] \subseteq UartIrqAll /\ uart_irq \subseteq UartIrqAll
  /\ uart_status \subseteq {"framing", "overrun", "parity", "idle", "break"}
  /\ irq_en \subseteq CanIrqAll /\ irq_status \subseteq CanIrqAll /\ rx_head \in Nat
  /\ gpio_irq \subseteq Pin /\ last_input \subseteq Pin /\ debounced_input \subseteq Pin
  /\ timer_status \in [wdt: BOOLEAN, cmp: SUBSET Channel, cap: SUBSET Channel]
  /\ cmp = [c \in Channel |-> cmp[c]] /\ pwm_period = [c \in Channel |-> pwm_period[c]]

\* So does the accumulator when the store after a load is due, after an interrupt too.
Resume == IF mepc = 0 THEN pc ELSE mepc
StoreDue(at) ==
  /\ demo \in DOMAIN Text /\ Resume \in 1 .. Len(Text[demo])
  /\ Text[demo][Resume].step = "store" /\ Text[demo][Resume].at = at
Loaded ==
  /\ StoreDue("uart") => acc \subseteq UartIrqAll
  /\ StoreDue("can") => acc \subseteq CanIrqAll

\* The register that a step writes
Wrote(s, at, reg) ==
  /\ s.at = at
  /\ \/ s.step = "put" /\ s.op.reg = reg
     \/ s.step = "store" /\ s.reg = reg

\* What a step of qar_sdk_init has shut stays shut until main(), and a flag or a queue that
\* it has cleared stays clear, because what could fill it is shut by then.
Lasts(s) ==
  /\ Wrote(s, "gpio", "DIR") => gpio_dir = {}
  /\ Wrote(s, "gpio", "OUT") => gpio_out_reg = {}
  /\ Wrote(s, "gpio", "ALT_PWM") => alt_pwm_sel = {}
  /\ Wrote(s, "gpio", "IRQ_RISE") => irq_rise_mask = {}
  /\ Wrote(s, "gpio", "IRQ_FALL") => irq_fall_mask = {}
  /\ Wrote(s, "gpio", "DB_EN") => debounce_enable = {}
  /\ Wrote(s, "gpio", "IRQ_STATUS") => gpio_irq = {} /\ irq_rise_mask = {} /\ irq_fall_mask = {}
  /\ Wrote(s, "timer", "CTRL") => ~timer_ctrl.enable
  /\ Wrote(s, "timer", "STATUS") =>
       ~timer_ctrl.enable /\ timer_status = [wdt |-> FALSE, cmp |-> {}, cap |-> {}]
  /\ Wrote(s, "timer", "CMP") => ~timer_ctrl.enable /\ cmp[s.op.ch] = 0
  /\ Wrote(s, "timer", "PWM_PERIOD") => pwm_period[s.op.ch] = 0
  /\ Wrote(s, "timer", "WDT_CTRL") => ~wdt_enable
  /\ Wrote(s, "uart", "CTRL") => ~uart_ctrl.enable
  /\ Wrote(s, "uart", "IDLE_CFG") => ~idle_cfg
  /\ Wrote(s, "uart", "IRQ_STATUS") =>
       /\ ~uart_ctrl.enable /\ uart_irq = {} /\ uart_status \subseteq {"break"}
       /\ tx_bits_remaining = 0 /\ ~rx_busy
  /\ Wrote(s, "uart", "LIN_CMD") => ~uart_ctrl.enable /\ "break" \notin uart_status
  /\ Wrote(s, "can", "CTRL") => ctrl = {}
  /\ Wrote(s, "can", "IRQ_EN") => irq_en = {}
  /\ Wrote(s, "can", "IRQ_STATUS") => irq_status = {}
  /\ Wrote(s, "can", "RX_FIFO") => rx_tail = rx_head
  /\ Wrote(s, "spi", "CTRL") => ~spi_ctrl.enable
  /\ Wrote(s, "i2c", "CTRL") => ~i2c_ctrl.enable
  /\ Wrote(s, "adc", "CTRL") => ~ctrl_enable
  /\ \A u \in DOMAIN irq_mask : Wrote(s, u, "IRQ_EN") => irq_mask[u] = {}

InitInv ==
  /\ ControlInv /\ Clearable /\ Loaded
  /\ inited => demo \in DOMAIN Text
  /\ inited /\ mepc # 0 => mepc > MainAt
  /\ inited /\ mepc = 0 /\ pc <= MainAt => \A i \in 1 .. pc - 1 : Lasts(qar_sdk_init[i])

\* How many bytes and commands i2c_loopback has given when it is at pc, and where it has seen
\* that the engine has taken the last one.
Staged == IF pc <= MainAt + 3 THEN 0 ELSE IF pc = MainAt + 4 THEN 1 ELSE 2
Issued ==
  IF pc <= MainAt + 5 THEN 0 ELSE IF pc <= MainAt + 7 THEN 1
  ELSE IF pc <= MainAt + 9 THEN 2 ELSE IF pc <= MainAt + 11 THEN 3 ELSE 4
SeenTaken == pc \in {MainAt + 7, MainAt + 9, MainAt + 11} \/ pc > MainAt + 12

\* Of k commands and h bytes that firmware has given, all commands are served or all but
\* the last, which waits alone; the bytes not yet taken lie in the queue.
Bus(k, h) ==
  LET n == Len(served) IN
  /\ n \in 0 .. 4 /\ n \in {k - 1, k} /\ served = SubSeq(Message, 1, n)
  /\ cmd_reg = IF n = k THEN {} ELSE {Message[k][1]}
  /\ i2c_tx = [r \in I2cRow |-> i2c_tx[r]]
  /\ i2c_tx_head = h /\ i2c_tx_tail = IF n <= 1 THEN 0 ELSE IF n = 2 THEN 1 ELSE 2
  /\ h > 0 => i2c_tx[0] = I2cAddress
  /\ h > 1 => i2c_tx[1] = I2cPayload
  /\ n = 4 => \/ state = "STOP"
              \/ state = "IDLE" /\ scl_state /\ sda_state

Held ==
  /\ Bus(Issued, Staged)
  /\ SeenTaken => Len(served) = Issued
  /\ pc > MainAt + 13 => state = "IDLE"

BusInv == ControlInv /\ (demo = "i2c" => Held)

\* How far main() is, and how many values it has kept there
Place == pc - MainAt
Got ==
  CASE demo = "can" -> IF Place <= 18 THEN 0 ELSE IF Place <= 21 THEN Place - 18
                       ELSE IF Place = 22 THEN 3 ELSE IF Place <= 25 THEN Place - 19 ELSE 6
    [] demo = "spi" -> IF Place <= 6 THEN 0 ELSE IF Place <= 10 THEN 1 ELSE 2
    [] demo = "adc" -> IF Place <= 12 THEN 0 ELSE 1

\* can_loopback: what it has put into the mailbox (n writes of send_frame), and the frames
\* that wait in the queue.  Before main() a start on top of another program may find any.
Carried(f) == [id |-> f.id, body |-> [dlc |-> f.dlc, data0 |-> f.data0, data1 |-> f.data1]]
Mailbox(f, n) ==
  /\ n > 0 => tx_id = f.id
  /\ n > 1 => tx_body.dlc = f.dlc
  /\ n > 2 => tx_body.data0 = f.data0
  /\ n > 3 => tx_body.data1 = f.data1
WaitOne(f) == rx_head = (rx_tail + 1) % PTR_SPAN /\ rx_fifo[rx_tail % FIFO_DEPTH] = Carried(f)
WaitTwo ==
  /\ rx_head = (rx_tail + 2) % PTR_SPAN
  /\ rx_fifo[rx_tail % FIFO_DEPTH] = Carried(Frame1)
  /\ rx_fifo[(rx_tail + 1) % FIFO_DEPTH] = Carried(Frame2)
CanShape ==
  /\ rx_tail \in 0 .. PTR_SPAN - 1 /\ rx_head \in 0 .. PTR_SPAN - 1
  /\ rx_fifo = [r \in 0 .. FIFO_DEPTH - 1 |-> rx_fifo[r]]
  /\ tx_body = [dlc |-> tx_body.dlc, data0 |-> tx_body.data0, data1 |-> tx_body.data1]
CanOrder ==
  /\ CanShape
  /\ Place \in 2 .. 26 => ctrl = {"loopback", "bypass", "enable"}
  /\ Place \in 7 .. 11 => Mailbox(Frame1, Place - 7)
  /\ Place \in 12 .. 16 => Mailbox(Frame2, Place - 12)
  /\ Place <= 11 /\ (restarts = 0 \/ Place >= 0) => rx_head = rx_tail
  /\ Place \in 12 .. 16 => WaitOne(Frame1)
  /\ Place \in 17 .. 21 => WaitTwo
  /\ Place \in 22 .. 25 => WaitOne(Frame2)

\* spi_loopback: n bytes have come back; the next, b, is in the queue, in the shifter, or back.
Home(n) ==
  ~busy /\ spi_tx_head = n /\ spi_tx_tail = n /\ spi_rx_head = n /\ spi_rx_tail = n
Away(n, b) ==
  /\ spi_tx_head = n + 1 /\ spi_rx_tail = n
  /\ \/ ~busy /\ spi_tx_tail = n /\ spi_rx_head = n /\ spi_tx[n] = b
     \/ busy /\ spi_tx_tail = n + 1 /\ spi_rx_head = n /\ active_tx_byte = b
     \/ ~busy /\ spi_tx_tail = n + 1 /\ spi_rx_head = n + 1 /\ spi_rx[n] = b
SpiOrder ==
  /\ spi_tx = [r \in SpiRow |-> spi_tx[r]] /\ spi_rx = [r \in SpiRow |-> spi_rx[r]]
  /\ Place > 1 => spi_ctrl.loopback
  /\ Place <= 4 => Home(0)
  /\ Place \in 5 .. 6 => Away(0, "A5")
  /\ Place \in 7 .. 8 => Home(1)
  /\ Place \in 9 .. 10 => Away(1, "3C")
  /\ Place \in {6, 10} => ~spi_rx_empty

\* The client of the ADC: nothing of continuous conversion is left when it starts the single
\* one, and nothing but that one comes after.
AdcOrder ==
  /\ Place <= 10 => ~manual_start_pending
  /\ Place > 6 => ~ctrl_continuous
  /\ Place \in 8 .. 10 => ~adc_busy
  /\ Place \in 9 .. 10 => ~data_valid
  /\ Place > 10 => /\ ctrl_channel = 2
                   /\ adc_busy => active_channel = 2
                   /\ data_valid => result_channel = 2
                   /\ manual_start_pending => ~adc_busy /\ ~data_valid
  /\ Place = 12 => data_valid

\* Where the frames of can_loopback are is known of a fresh start only.
ReadInv ==
  /\ InitInv
  /\ restarts \in Nat
  /\ ReadsInOrder
  /\ demo \in {"can", "spi", "adc"} /\ pc # 0 => Len(log) = Got
  /\ demo = "can" => CanShape /\ (FreshStart => CanOrder)
  /\ demo = "spi" => SpiOrder
  /\ demo = "adc" => AdcOrder

\* The programs that have an end come to it and stay there: no poll waits for a flag that
\* has passed or that is never raised.  uart_rs485 needs a line that falls quiet.  A gap of
\* the line is counted in the end.
DemosFinish ==
  []<>(/\ demo \in {"can", "spi", "i2c", "adc"} => Halted
       /\ demo = "rs485" => Halted \/ rx_busy
       /\ gaps > 0 => idle_count > 0)
================================================================================
