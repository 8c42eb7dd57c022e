-------------------------------- MODULE QarDemos -------------------------------
(***************************************************************************)
(* The firmware of devkit/examples: each main() as the steps of QarHal,    *)
(* with steps of their own besides: mark notes the timer's counter, elapse *)
(* polls it until the ticks have passed since, unless and jump skip steps, *)
(* count and beat change a variable of the program.  The idle loop at the  *)
(* end of a main() is the end of its sequence.  Times are scaled to the    *)
(* small timer of the run.                                                 *)
(***************************************************************************)
EXTENDS QarSdk

CONSTANTS
  BlinkTicks,     \* 1000
  BeatTicks,      \* 5000
  Window64,       \* 64, the debounce window of the button
  PwmTop,         \* 1024, the PWM period
  DutyStep        \* 64

ASSUME DemoAssumption ==
  {BlinkTicks, BeatTicks, Window64, PwmTop, DutyStep} \subseteq Nat \ {0}

\* A read whose value is dropped.
Glance(at, reg) == <<[step |-> "put", at |-> at, op |-> [reg |-> reg]]>>
Jump(by) == <<[step |-> "jump", at |-> "none", by |-> by]>>
Forever(body) == body \o Jump(-Len(body))
When(at, reg, flags, body) ==
  <<[step |-> "unless", at |-> at, reg |-> reg, flags |-> flags, by |-> Len(body) + 1]>> \o body

--------------------------------------------------------------------------------
(* can_loopback.c: a frame is its id and two payload words *)

Frame1 == [id |-> {0, 1, 5, 8}, data0 |-> "DEADBEEF", data1 |-> "0", dlc |-> 4]
Frame2 == [id |-> {0, 5, 8, 9}, data0 |-> "CAFEBABE", data1 |-> "01020304", dlc |-> 8]
Frame3 == [id |-> {9}, data0 |-> "11111111", data1 |-> "0", dlc |-> 4]

send_frame(f) == qar_can_send_word(f.id, f.data0, f.data1, f.dlc)
drain_rx == qar_can_read_payload \o qar_can_pop_rx

can_loopback ==
  qar_can_init({"loopback", "bypass"})
    \o Put("can", "FILTER_ID", Frame1.id) \o Put("can", "FILTER_MASK", 0 .. 10)
    \o qar_can_enable_irq({"rx", "tx"})
    \o send_frame(Frame1) \o send_frame(Frame2)
    \o AwaitRxCount(2)
    \o drain_rx \o drain_rx
    \o qar_can_set_ctrl({"loopback", "bypass", "quiet"})
    \o send_frame(Frame3)

--------------------------------------------------------------------------------
(* spi_loopback.c *)

spi_exchange(value) ==
  qar_spi_write(value) \o Until("spi", "STATUS", {"rx_valid"}) \o Get("spi", "RXDATA")

spi_loopback ==
  qar_spi_init(TRUE) \o qar_spi_set_cs({0}) \o spi_exchange("A5") \o spi_exchange("3C")

--------------------------------------------------------------------------------
(* i2c_loopback.c: a byte is the set of its bits *)

I2cAddress == {7, 5}            \* 0xA0
I2cPayload == {6, 4, 2, 0}      \* 0x55

\* mutant of wait_cmd_clear: firmware does not wait
wait_cmd_clear_not(cmd) == <<>>

wait_cmd_clear(cmd) == While("i2c", "CMD", {cmd})
wait_idle == While("i2c", "STATUS", {"busy"})
Issue(cmd) == qar_i2c_issue_cmd({cmd}) \o wait_cmd_clear(cmd)

i2c_loopback ==
  qar_i2c_init \o Put("i2c", "CTRL", [enable |-> TRUE, loopback |-> TRUE])
    \o qar_i2c_stage_tx(I2cAddress) \o qar_i2c_stage_tx(I2cPayload)
    \o Issue("START") \o Issue("WRITE") \o Issue("WRITE") \o Issue("STOP")
    \o wait_idle \o Get("i2c", "STATUS")

--------------------------------------------------------------------------------
(* uart_rs485.c, uart_rs485_isr.c and lin_auto_header.c.  The second calls a send_byte *)
(* that no file defines: the one of the first stands for it.                           *)

send_byte(byte) == qar_uart_write(byte)

\* mutant of uart_rs485: the idle time is set before the initialisation that resets it
uart_rs485_idle_first ==
  qar_uart_set_idle_cycles(1000)
    \o qar_uart_init \o qar_uart_config_rs485(1)
    \o qar_uart_enable_irq({"idle"})
    \o send_byte("33") \o send_byte("55")
    \o Until("uart", "STATUS", {"idle"}) \o qar_uart_clear_irq({"idle"})

uart_rs485 ==
  qar_uart_init \o qar_uart_config_rs485(1)
    \o qar_uart_enable_irq({"idle"}) \o qar_uart_set_idle_cycles(1000)
    \o send_byte("33") \o send_byte("55")
    \o Until("uart", "STATUS", {"idle"}) \o qar_uart_clear_irq({"idle"})

uart_rs485_isr ==
  qar_uart_init \o qar_uart_set_idle_cycles(1000) \o qar_uart_enable_irq({"idle"})
    \o send_byte("33") \o send_byte("55")

Count == <<[step |-> "count", at |-> "none"]>>
Mret == <<[step |-> "mret", at |-> "none"]>>

\* mutant of uart_isr: the interrupt is left for later
uart_isr_keeps_flag == When("uart", "STATUS", {"idle"}, Count) \o Mret

uart_isr ==
  When("uart", "STATUS", {"idle"}, Count \o qar_uart_clear_irq({"idle"})) \o Mret

LinId == "3C"

lin_auto_header ==
  qar_uart_init \o qar_uart_lin_set_break(16) \o qar_uart_lin_set_tx_id(LinId)
    \o qar_uart_lin_config_slave(LinId, 2, TRUE) \o qar_uart_lin_arm_slave
    \o qar_uart_write("55") \o qar_uart_write("AA")
    \o qar_uart_lin_request_break \o qar_uart_lin_start_auto_header
    \o Until("uart", "STATUS", {"header"})
    \o qar_uart_clear_irq({"header"}) \o qar_uart_lin_header

--------------------------------------------------------------------------------
(* gpio_irq_demo.c *)

firmware_delay(ticks) ==
  <<[step |-> "mark", at |-> "timer"], [step |-> "elapse", at |-> "timer", ticks |-> ticks]>>

Beat == <<[step |-> "beat", at |-> "gpio"]>>

gpio_irq_demo ==
  qar_gpio_config_dir(LedPins)
    \o Put("gpio", "ALT_PWM", {0, 1}) \o qar_gpio_write({0, 2} \cap LedPins)
    \o qar_gpio_config_irq({ButtonPin}, {ButtonPin}, {ButtonPin})
    \o qar_gpio_config_debounce({ButtonPin}, Window64)
    \o qar_timer_init(0, {})
    \o Forever(When("gpio", "IRQ_STATUS", {ButtonPin},
                    qar_gpio_set({0}) \o firmware_delay(BlinkTicks) \o qar_gpio_clear({0})
                      \o qar_gpio_clear_irq({ButtonPin}))
                 \o Beat \o firmware_delay(BeatTicks))

--------------------------------------------------------------------------------
(* A client of adc.h (there is none in C): it leaves continuous conversion, drops what is *)
(* on its way, and converts one channel.                                                 *)

AwaitSample == Until("adc", "STATUS", {"ready"})

\* mutant of LeaveContinuous: the conversion on its way is not waited for
LeaveContinuousAtOnce == qar_adc_disable_continuous \o qar_adc_clear_irq(AdcIrqAll)

LeaveContinuous ==
  qar_adc_disable_continuous
    \o While("adc", "STATUS", {"busy"}) \o Glance("adc", "RESULT")
    \o qar_adc_clear_irq(AdcIrqAll)

adc_client ==
  qar_adc_enable_continuous({0, 1}, 1) \o qar_adc_enable_irq({"ready"})
    \o AwaitSample
    \o LeaveContinuous
    \o qar_adc_start_single(2) \o AwaitSample \o qar_adc_read

--------------------------------------------------------------------------------
(* timer_pwm_demo.c and timer_hal_example.c *)

pwm_config(period, duty0, duty1) ==
  qar_timer_config_pwm(0, period, duty0) \o qar_timer_config_pwm(1, period, duty1)
capture_start == Put("timer", "CAPTURE_CTRL", {0, 1})
capture_read(ch) == Glance("timer", "CAPTURE_VALUE")

\* One round of the ramp, and the rounds of duty 0, DutyStep, ... below PwmTop
Round(duty) ==
  PutTo("PWM_DUTY", 0, duty) \o PutTo("PWM_DUTY", 1, PwmTop - 1 - duty)
    \o capture_read(0) \o capture_read(1)
Rounds == (PwmTop + DutyStep - 1) \div DutyStep
Ramp == [i \in 1 .. 4 * Rounds |-> Round(((i - 1) \div 4) * DutyStep)[((i - 1) % 4) + 1]]

timer_pwm_demo ==
  Put("gpio", "ALT_PWM", {0, 1})
    \o qar_timer_init(0, {0, 1})
    \o pwm_config(PwmTop, PwmTop \div 4, 3 * (PwmTop \div 4))
    \o capture_start
    \o Forever(Ramp)

timer_example ==
  qar_timer_init(0, {0})
    \o qar_timer_set_compare(0, 2, 2) \o qar_timer_enable_irq({"cmp0"})
    \o qar_timer_config_pwm(0, PwmTop, PwmTop \div 2)
    \o qar_timer_config_pwm(1, PwmTop, PwmTop \div 4)
    \o qar_timer_config_wdt(PwmTop, TRUE)
    \o qar_timer_manual_capture(0) \o qar_timer_manual_capture(1)
    \o While("timer", "PWM_STATUS", {0, 1})
    \o qar_timer_clear_status({0}, TRUE, {0, 1})
================================================================================
