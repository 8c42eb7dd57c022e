--------------------------------- MODULE QarHal --------------------------------
(***************************************************************************)
(* The helpers of devkit/hal/*.h.  A helper is the sequence of the steps   *)
(* the processor makes for it, in program order: at most one register      *)
(* access each, of the peripheral "at".  A step is one of                  *)
(*   put      write op, the record the peripheral's module understands,    *)
(*   get      read reg, the value is what the caller keeps,                *)
(*   load     read reg into the accumulator,                               *)
(*   store    write the accumulator back, with set added and clear removed,*)
(*   until    poll reg until one of the flags is up,                       *)
(*   while    poll reg until none of the flags is up,                      *)
(*   least    poll reg until it is at least n.                             *)
(* A register of flags is the set of its flags.  Registers a module leaves *)
(* out (dividers, times, levels) are written all the same and do nothing.  *)
(***************************************************************************)
EXTENDS Integers, Sequences

Put(at, reg, value) == <<[step |-> "put", at |-> at, op |-> [reg |-> reg, value |-> value]]>>
Get(at, reg) == <<[step |-> "get", at |-> at, reg |-> reg]>>
Until(at, reg, flags) == <<[step |-> "until", at |-> at, reg |-> reg, flags |-> flags]>>
While(at, reg, flags) == <<[step |-> "while", at |-> at, reg |-> reg, flags |-> flags]>>
AtLeast(at, reg, n) == <<[step |-> "least", at |-> at, reg |-> reg, n |-> n]>>

\* reg |= set and reg &= ~clear: two accesses
Modify(at, reg, set, clear) ==
  <<[step |-> "load", at |-> at, reg |-> reg],
    [step |-> "store", at |-> at, reg |-> reg, set |-> set, clear |-> clear]>>

--------------------------------------------------------------------------------
(* uart.h.  The flags of CTRL have no bit for LIN mode. *)

UartIrqAll == {"rx", "tx_empty", "error", "idle", "break", "header", "slave"}

qar_uart_init ==
  Put("uart", "BAUD", 0)
    \o Put("uart", "CTRL", [enable |-> TRUE, lin |-> FALSE])
    \o Put("uart", "IRQ_EN", {}) \o Put("uart", "IDLE_CFG", FALSE) \o Put("uart", "LIN_CTRL", 13)

qar_uart_set_idle_cycles(cycles) == Put("uart", "IDLE_CFG", cycles # 0)
qar_uart_enable_irq(mask) == Modify("uart", "IRQ_EN", mask, {})
qar_uart_disable_irq(mask) == Modify("uart", "IRQ_EN", {}, mask)
qar_uart_clear_irq(mask) == Put("uart", "IRQ_STATUS", mask)
qar_uart_config_rs485(value) == Put("uart", "RS485", value)
qar_uart_lin_set_break(periods) == Put("uart", "LIN_CTRL", periods)
qar_uart_lin_request_break == Put("uart", "LIN_CMD", {"break"})
qar_uart_lin_clear_break == Put("uart", "LIN_CMD", {"clear"})
qar_uart_lin_set_tx_id(id) == Put("uart", "LIN_TX_ID", id)
qar_uart_lin_start_auto_header == Put("uart", "LIN_CMD", {"header"})
qar_uart_lin_config_slave(match_id, length, enable) ==
  Put("uart", "LIN_SLAVE", [enable |-> enable, id |-> match_id, len |-> length])
qar_uart_lin_arm_slave == Put("uart", "LIN_CMD", {"arm"})
qar_uart_lin_header == Get("uart", "LIN_HEADER")

\* qar_uart_can_write is the test of the loop.
qar_uart_write(byte) == Until("uart", "STATUS", {"tx_space"}) \o Put("uart", "DATA", byte)

--------------------------------------------------------------------------------
(* timer.h *)

TimerChannels == {0, 1}

qar_timer_init(scale, auto) ==
  Put("timer", "PRESCALE", scale) \o Put("timer", "CTRL", [enable |-> TRUE, auto |-> auto])

\* The registers of a channel have addresses of their own.
PutTo(reg, ch, value) ==
  <<[step |-> "put", at |-> "timer", op |-> [reg |-> reg, ch |-> ch, value |-> value]]>>

qar_timer_set_compare(ch, value, period) ==
  PutTo("CMP", ch, value) \o PutTo("CMP_PERIOD", ch, period)
qar_timer_config_pwm(ch, period, duty) ==
  PutTo("PWM_PERIOD", ch, period) \o PutTo("PWM_DUTY", ch, duty)

qar_timer_enable_irq(mask) == Modify("timer", "IRQ_EN", mask, {})
qar_timer_clear_status(matched, wdt, cap) ==
  Put("timer", "STATUS", [wdt |-> wdt, cmp |-> matched, cap |-> cap])

qar_timer_config_wdt(load, enable_now) ==
  Put("timer", "WDT_LOAD", load)
    \o Put("timer", "WDT_CTRL", [enable |-> enable_now, kick |-> enable_now])

qar_timer_manual_capture(ch) ==
  Put("timer", "CAPTURE_CTRL", {ch})
    \o <<[step |-> "get", at |-> "timer", reg |-> "CAPTURE_VALUE", ch |-> ch]>>

--------------------------------------------------------------------------------
(* can.h *)

CanIrqAll == {"rx", "tx", "ovf"}

qar_can_init(ctrl_flags) ==
  Put("can", "BITTIME", 0) \o Put("can", "CTRL", ctrl_flags \cup {"enable"})
qar_can_set_ctrl(ctrl_flags) == Put("can", "CTRL", ctrl_flags)
qar_can_enable_irq(mask) == Put("can", "IRQ_STATUS", mask) \o Modify("can", "IRQ_EN", mask, {})
qar_can_disable_irq(mask) == Modify("can", "IRQ_EN", {}, mask)
qar_can_clear_irq(mask) == Put("can", "IRQ_STATUS", mask)

qar_can_send_word(id, data0, data1, dlc) ==
  Put("can", "TX_ID", id) \o Put("can", "TX_DLC", dlc)
    \o Put("can", "TX_DATA0", data0) \o Put("can", "TX_DATA1", data1)
    \o Put("can", "TX_CMD", 1)

qar_can_read_payload == Get("can", "RX_ID") \o Get("can", "RX_DATA0") \o Get("can", "RX_DATA1")
qar_can_pop_rx == Put("can", "RX_FIFO", {"pop"})
qar_can_flush_rx == Put("can", "RX_FIFO", {"flush"})

\* while (qar_can_rx_count(base) < n)
AwaitRxCount(n) == AtLeast("can", "RX_FIFO", n)

--------------------------------------------------------------------------------
(* gpio.h: masks are sets of pins *)

qar_gpio_config_dir(mask) == Put("gpio", "DIR", mask)
qar_gpio_write(value) == Put("gpio", "OUT", value)
qar_gpio_set(mask) == Put("gpio", "OUT_SET", mask)
qar_gpio_clear(mask) == Put("gpio", "OUT_CLR", mask)
qar_gpio_config_irq(enable, rise, fall) ==
  Put("gpio", "IRQ_EN", enable) \o Put("gpio", "IRQ_RISE", rise) \o Put("gpio", "IRQ_FALL", fall)
qar_gpio_config_debounce(mask, cycles) ==
  Put("gpio", "DB_EN", mask) \o Put("gpio", "DB_CYCLES", cycles)
qar_gpio_clear_irq(mask) == Put("gpio", "IRQ_STATUS", mask)

--------------------------------------------------------------------------------
(* spi.h *)

SpiIrqAll == {"rx", "tx_empty", "fault", "tx_ovf", "rx_ovf", "cs"}

qar_spi_init(loopback) ==
  Put("spi", "CLKDIV", 1)
    \o Put("spi", "CTRL", [enable |-> TRUE, loopback |-> loopback, count |-> 0])
qar_spi_set_cs(mask) == Put("spi", "CS_SELECT", mask)
qar_spi_write(value) == Until("spi", "STATUS", {"tx_ready"}) \o Put("spi", "TXDATA", value)
qar_spi_read == Until("spi", "STATUS", {"rx_valid"}) \o Get("spi", "RXDATA")

--------------------------------------------------------------------------------
(* i2c.h *)

I2cIrqAll == {"rx", "tx_empty", "fault", "tx_ovf", "rx_ovf", "nack"}

qar_i2c_init == Put("i2c", "CLKDIV", 10) \o Put("i2c", "CTRL", [enable |-> TRUE, loopback |-> FALSE])
qar_i2c_stage_tx(byte) == Put("i2c", "TXDATA", byte)
qar_i2c_issue_cmd(cmd) == Put("i2c", "CMD", cmd)

--------------------------------------------------------------------------------
(* adc.h *)

AdcIrqAll == {"ready", "overrun"}
AdcCommand(continuous, now, channel) ==
  Put("adc", "CTRL", [enable |-> TRUE, continuous |-> continuous, start |-> now, channel |-> channel])

qar_adc_set_sequence(mask, div) ==
  Put("adc", "SEQ_MASK", mask) \o Put("adc", "SAMPLE_DIV", div)
qar_adc_enable_continuous(mask, div) ==
  qar_adc_set_sequence(mask, div) \o AdcCommand(TRUE, FALSE, 0)
qar_adc_disable_continuous == AdcCommand(FALSE, FALSE, 0)
qar_adc_start_single(channel) == AdcCommand(FALSE, TRUE, channel)
qar_adc_read == Get("adc", "RESULT")
qar_adc_enable_irq(mask) == Modify("adc", "IRQ_EN", mask, {})
qar_adc_clear_irq(mask) == Put("adc", "IRQ_STATUS", mask)
================================================================================
