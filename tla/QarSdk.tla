--------------------------------- MODULE QarSdk --------------------------------
(***************************************************************************)
(* devkit/sdk/hal_init.c: the blocks of qar_sdk_init, one per peripheral,  *)
(* as the steps of QarHal.  One UART stands for the two, whose blocks are  *)
(* the same.                                                               *)
(***************************************************************************)
EXTENDS QarHal

CONSTANTS
  ButtonPin,      \* pin 8
  LedPins,        \* pins 0 to 7 in the code, 0 to Len of them less one
  CsLines         \* the chip select lines

ASSUME SdkAssumption == LedPins \subseteq Nat /\ ButtonPin \in Nat \ LedPins

AllPins == LedPins \cup {ButtonPin}

\* mutant of init_gpio_block: the flags are cleared before the masks
init_gpio_block_clears_first ==
  qar_gpio_clear_irq(AllPins)
    \o qar_gpio_config_dir({}) \o qar_gpio_write({}) \o Put("gpio", "ALT_PWM", {})
    \o qar_gpio_config_irq({}, {}, {}) \o qar_gpio_config_debounce({}, 0)

init_gpio_block ==
  qar_gpio_config_dir({}) \o qar_gpio_write({}) \o Put("gpio", "ALT_PWM", {})
    \o qar_gpio_config_irq({}, {}, {}) \o qar_gpio_config_debounce({}, 0)
    \o qar_gpio_clear_irq(AllPins)

init_timer_block ==
  Put("timer", "CTRL", [enable |-> FALSE, auto |-> {}])
    \o Put("timer", "IRQ_EN", {})
    \o qar_timer_clear_status(TimerChannels, TRUE, TimerChannels)
    \o Put("timer", "PRESCALE", 0)
    \o qar_timer_set_compare(0, 0, 0) \o qar_timer_set_compare(1, 0, 0)
    \o qar_timer_config_pwm(0, 0, 0) \o qar_timer_config_pwm(1, 0, 0)
    \o qar_timer_config_wdt(0, FALSE)
    \o Put("timer", "CAPTURE_CTRL", {})

init_uart_block ==
  Put("uart", "CTRL", [enable |-> FALSE, lin |-> FALSE])
    \o Put("uart", "BAUD", 500)
    \o qar_uart_config_rs485(0) \o qar_uart_set_idle_cycles(0) \o qar_uart_lin_set_break(13)
    \o qar_uart_lin_config_slave("00", 0, FALSE)
    \o qar_uart_disable_irq(UartIrqAll) \o qar_uart_clear_irq(UartIrqAll)
    \o qar_uart_lin_clear_break

init_can_block ==
  qar_can_set_ctrl({})
    \o Put("can", "BITTIME", 0) \o Put("can", "FILTER_ID", {}) \o Put("can", "FILTER_MASK", {})
    \o qar_can_disable_irq(CanIrqAll) \o qar_can_clear_irq(CanIrqAll)
    \o qar_can_flush_rx

init_spi_block ==
  Put("spi", "CTRL", [enable |-> FALSE, loopback |-> FALSE, count |-> 0])
    \o Put("spi", "CLKDIV", 4)
    \o qar_spi_set_cs(CsLines)
    \o Put("spi", "IRQ_EN", {}) \o Put("spi", "IRQ_STATUS", SpiIrqAll)

init_i2c_block ==
  Put("i2c", "CTRL", [enable |-> FALSE, loopback |-> FALSE])
    \o Put("i2c", "CLKDIV", 64)
    \o Put("i2c", "IRQ_EN", {}) \o Put("i2c", "IRQ_STATUS", I2cIrqAll)

init_adc_block ==
  Put("adc", "CTRL", [enable |-> FALSE, continuous |-> FALSE, start |-> FALSE, channel |-> 0])
    \o qar_adc_set_sequence({}, 0)
    \o Put("adc", "IRQ_EN", {}) \o qar_adc_clear_irq(AdcIrqAll)

qar_sdk_init ==
  init_gpio_block \o init_timer_block \o init_uart_block \o init_can_block
    \o init_spi_block \o init_i2c_block \o init_adc_block
================================================================================
