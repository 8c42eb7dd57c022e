--------------------------------- MODULE QarGpio -------------------------------
(***************************************************************************)
(* The GPIO block, qar-core/rtl/gpio.v: outputs, the PWM override, inputs  *)
(* with the debounce filter, and edge interrupts.  A register is the set   *)
(* of the pins whose bit is 1.  An action is one clock edge with at most   *)
(* one register write; gpio_in and pwm are the pins that are high outside  *)
(* and the PWM outputs of the timer at that edge.  IRQ_EN only gates the   *)
(* interrupt line and is left out.  level and held are history, not state  *)
(* of the code: the pins that were high outside at the last edge, and for  *)
(* how many edges each pin has kept its level, counted up to GpioSpan.     *)
(***************************************************************************)
EXTENDS Integers

CONSTANTS
  Pin,            \* WIDTH of them
  PwmPin,         \* pins 0 and 1, which the timer may drive
  GpioSpan,       \* 2^16, of debounce_counter
  ResetCycles,    \* 32
  GpioOps         \* the register writes of the firmware

GpioMask == {"DIR", "OUT", "OUT_SET", "OUT_CLR", "IRQ_STATUS", "ALT_PWM", "IRQ_RISE",
             "IRQ_FALL", "DB_EN"}
GpioCount == 0 .. GpioSpan - 1
GpioWrite ==
  [reg: GpioMask, value: SUBSET Pin] \cup [reg: {"DB_CYCLES"}, value: GpioCount]

ASSUME GpioAssumption ==
  /\ PwmPin \subseteq Pin
  /\ GpioSpan \in Nat \ {0, 1} /\ ResetCycles \in GpioCount
  /\ GpioOps \subseteq GpioWrite

VARIABLES
  gpio_dir, gpio_out_reg, alt_pwm_sel,
  gpio_irq, irq_rise_mask, irq_fall_mask,
  last_input,
  debounce_enable, debounce_cycles, debounced_input, debounce_counter,
  level, held

gpioVars == <<gpio_dir, gpio_out_reg, alt_pwm_sel, gpio_irq, irq_rise_mask,
              irq_fall_mask, last_input, debounce_enable, debounce_cycles,
              debounced_input, debounce_counter, level, held>>

GpioInit ==
  /\ gpio_dir = {} /\ gpio_out_reg = {} /\ alt_pwm_sel = {}
  /\ gpio_irq = {} /\ irq_rise_mask = Pin /\ irq_fall_mask = {}
  /\ last_input = {}
  /\ debounce_enable = {} /\ debounce_cycles = ResetCycles
  /\ debounced_input = {} /\ debounce_counter = [p \in Pin |-> 0]
  /\ level = {} /\ held = [p \in Pin |-> 0]

--------------------------------------------------------------------------------
(* Wires *)

pwm_override == alt_pwm_sel \cap PwmPin
gpio_hw_out(pwm) == (gpio_out_reg \ pwm_override) \cup (pwm \cap pwm_override)

debounce_threshold == IF debounce_cycles = 0 THEN 1 ELSE debounce_cycles

filtered_input_only == debounced_input \ gpio_dir
rising_edges == filtered_input_only \ last_input
falling_edges == last_input \ filtered_input_only
irq_events ==
  (rising_edges \cap irq_rise_mask) \cup (falling_edges \cap irq_fall_mask)

\* A pin whose level, as an input, differs from what the filter shows.
Differs(p, gpio_in) == (p \in gpio_in) # (p \in debounced_input)

--------------------------------------------------------------------------------
(* The clock edge *)

Filtered(p) == p \notin gpio_dir /\ p \in debounce_enable

\* mutant of WindowOver: the count must pass the window
WindowOverAfter(p) == debounce_counter[p] > debounce_threshold

WindowOver(p) == debounce_counter[p] >= debounce_threshold

GpioSet(w, reg, old) == IF w.reg = reg THEN w.value ELSE old

GpioRegisters(w) ==
  /\ gpio_dir' = GpioSet(w, "DIR", gpio_dir)
  /\ gpio_out_reg' = CASE w.reg = "OUT" -> w.value
                       [] w.reg = "OUT_SET" -> gpio_out_reg \cup w.value
                       [] w.reg = "OUT_CLR" -> gpio_out_reg \ w.value
                       [] OTHER -> gpio_out_reg
  /\ alt_pwm_sel' = GpioSet(w, "ALT_PWM", alt_pwm_sel)
  /\ irq_rise_mask' = GpioSet(w, "IRQ_RISE", irq_rise_mask)
  /\ irq_fall_mask' = GpioSet(w, "IRQ_FALL", irq_fall_mask)
  /\ debounce_enable' = GpioSet(w, "DB_EN", debounce_enable)
  /\ debounce_cycles' = GpioSet(w, "DB_CYCLES", debounce_cycles)

\* mutant of Debounce: a bounce does not restart the window
DebounceKeepsCount(gpio_in, pwm) ==
  /\ debounced_input' = {p \in Pin :
       IF p \in gpio_dir THEN p \in gpio_hw_out(pwm)
       ELSE IF ~Filtered(p) \/ WindowOver(p) THEN p \in gpio_in
       ELSE p \in debounced_input}
  /\ debounce_counter' = [p \in Pin |->
       IF Filtered(p) /\ ~Differs(p, gpio_in) THEN debounce_counter[p]
       ELSE IF Filtered(p) /\ ~WindowOver(p) THEN (debounce_counter[p] + 1) % GpioSpan
       ELSE 0]

Debounce(gpio_in, pwm) ==
  /\ debounced_input' = {p \in Pin :
       IF p \in gpio_dir THEN p \in gpio_hw_out(pwm)
       ELSE IF ~Filtered(p) \/ WindowOver(p) THEN p \in gpio_in
       ELSE p \in debounced_input}
  /\ debounce_counter' = [p \in Pin |->
       IF Filtered(p) /\ Differs(p, gpio_in) /\ ~WindowOver(p)
       THEN (debounce_counter[p] + 1) % GpioSpan
       ELSE 0]

\* An event wins over the acknowledge of the same edge.
Events(w) ==
  /\ gpio_irq' = (IF w.reg = "IRQ_STATUS" THEN gpio_irq \ w.value ELSE gpio_irq) \cup irq_events
  /\ last_input' = filtered_input_only

History(gpio_in) ==
  /\ level' = gpio_in
  /\ held' = [p \in Pin |-> IF (p \in gpio_in) # (p \in level) THEN 1
                           ELSE IF held[p] = GpioSpan THEN GpioSpan
                           ELSE held[p] + 1]

GpioEdge(w, gpio_in, pwm) ==
  /\ GpioRegisters(w)
  /\ Debounce(gpio_in, pwm)
  /\ Events(w)
  /\ History(gpio_in)

GpioQuiet ==
  \E gpio_in \in SUBSET Pin, pwm \in SUBSET PwmPin :
    GpioEdge([reg |-> "none"], gpio_in, pwm)

\* A quiet edge at which the levels outside stay.
GpioStill == \E pwm \in SUBSET PwmPin : GpioEdge([reg |-> "none"], level, pwm)

GpioNext ==
  \/ GpioQuiet
  \/ \E w \in GpioOps, gpio_in \in SUBSET Pin, pwm \in SUBSET PwmPin :
       GpioEdge(w, gpio_in, pwm)

GpioSpec == GpioInit /\ [][GpioNext]_gpioVars

--------------------------------------------------------------------------------
(* Properties *)

\* A debounced input follows the pin only after the level outside has stayed for the
\* window, however firmware changes DIR, DB_EN and DB_CYCLES while the filter counts.
GlitchFree ==
  [][\A p \in Pin :
       Filtered(p) /\ (p \in debounced_input') # (p \in debounced_input) =>
         held'[p] > debounce_threshold]_gpioVars

\* When firmware falls silent and the levels outside stay, the filter shows the level of
\* every input, however long its window, and the edge detector has seen it.
LevelSettles ==
  \A l \in SUBSET Pin :
    <>[](level = l) /\ <>[][GpioQuiet]_gpioVars =>
      <>[](filtered_input_only = l \ gpio_dir /\ last_input = l \ gpio_dir)
================================================================================
