-------------------------------- MODULE QarTimer -------------------------------
(***************************************************************************)
(* The timer, qar-core/rtl/timer.v: prescaler, counter, compare channels   *)
(* with auto-reload, watchdog, PWM channels and manual captures.  An       *)
(* action is one clock edge with at most one register write.  A write and  *)
(* a tick that meet at one edge assign the same registers: the tick comes  *)
(* later in the code and wins.  The two channels are the same code twice,  *)
(* here functions of the channel; 32-bit registers count modulo Span.      *)
(* IRQ_EN (which gates the line) and the readback of CAPTURE_CTRL are left *)
(* out.                                                                    *)
(***************************************************************************)
EXTENDS Integers

CONSTANTS
  Span,           \* 2^32 in the code
  Channel,        \* {0, 1} in the code
  TimerWrites          \* the register writes of the firmware

Value == 0 .. Span - 1

TimerCtrl == [enable: BOOLEAN, auto: SUBSET Channel]
StatusWord == [wdt: BOOLEAN, cmp: SUBSET Channel, cap: SUBSET Channel]
WdtWord == [enable: BOOLEAN, kick: BOOLEAN]

TimerWrite ==
  [reg: {"CTRL"}, value: TimerCtrl]
    \cup [reg: {"STATUS"}, value: StatusWord]
    \cup [reg: {"WDT_CTRL"}, value: WdtWord]
    \cup [reg: {"PRESCALE", "COUNTER", "WDT_LOAD"}, value: Value]
    \cup [reg: {"CMP", "CMP_PERIOD", "PWM_PERIOD", "PWM_DUTY"}, ch: Channel, value: Value]
    \cup [reg: {"CAPTURE_CTRL"}, value: SUBSET Channel]

ASSUME TimerAssumption == Span \in Nat \ {0, 1} /\ TimerWrites \subseteq TimerWrite

VARIABLES
  timer_ctrl, prescale, prescale_cnt, counter,
  timer_status,         \* an event of a compare channel, the watchdog, a capture
  cmp, cmp_period,
  wdt_load, wdt_counter, wdt_enable,
  pwm_period, pwm_duty, pwm_counter, pwm_out,
  capture_value

timerVars == <<timer_ctrl, prescale, prescale_cnt, counter, timer_status, cmp, cmp_period, wdt_load,
               wdt_counter, wdt_enable, pwm_period, pwm_duty, pwm_counter, pwm_out,
               capture_value>>

Zero == [c \in Channel |-> 0]

TimerInit ==
  /\ timer_ctrl = [enable |-> FALSE, auto |-> {}]
  /\ prescale = 0 /\ prescale_cnt = 0 /\ counter = 0
  /\ timer_status = [wdt |-> FALSE, cmp |-> {}, cap |-> {}]
  /\ cmp = Zero /\ cmp_period = Zero
  /\ wdt_load = 0 /\ wdt_counter = 0 /\ wdt_enable = FALSE
  /\ pwm_period = Zero /\ pwm_duty = Zero /\ pwm_counter = Zero
  /\ pwm_out = [c \in Channel |-> FALSE]
  /\ capture_value = Zero

--------------------------------------------------------------------------------
(* The events of one edge; None is an edge without a write *)

None == [reg |-> "none"]

\* mutant of Next1: a counter that stops at its end
Next1Saturates(n) == IF n = Span - 1 THEN n ELSE n + 1

Next1(n) == (n + 1) % Span

\* mutant of Tick: the prescaler must hit its limit exactly
TickOnEqual == timer_ctrl.enable /\ prescale_cnt = prescale

Tick == timer_ctrl.enable /\ prescale_cnt >= prescale

TimerMatches(c) == Tick /\ cmp[c] # 0 /\ counter = cmp[c]

\* mutant of WdtTick: off by one
WdtTickAboveOne == Tick /\ wdt_enable /\ wdt_counter > 1

WdtTick == Tick /\ wdt_enable /\ wdt_counter # 0

\* The writes that reload the watchdog: a kick, an enable, a new load while it runs.
Kick(w) == w.reg = "WDT_CTRL" /\ (w.value.kick \/ (~wdt_enable /\ w.value.enable))
LoadRunning(w) == w.reg = "WDT_LOAD" /\ wdt_enable

\* A register a write may set, and a channel's register.
Set(w, reg, old) == IF w.reg = reg THEN w.value ELSE old
SetChannel(w, reg, old) == IF w.reg = reg THEN [old EXCEPT ![w.ch] = w.value] ELSE old

--------------------------------------------------------------------------------
(* The clock edge *)

Counting(w) ==
  /\ timer_ctrl' = Set(w, "CTRL", timer_ctrl)
  /\ prescale' = Set(w, "PRESCALE", prescale)
  /\ prescale_cnt' = IF ~timer_ctrl.enable \/ Tick THEN 0 ELSE Next1(prescale_cnt)
  /\ counter' = IF Tick THEN Next1(counter) ELSE Set(w, "COUNTER", counter)

Compare(w) ==
  /\ cmp' = [c \in Channel |->
       IF TimerMatches(c) /\ c \in timer_ctrl.auto /\ cmp_period[c] # 0
       THEN (cmp[c] + cmp_period[c]) % Span
       ELSE SetChannel(w, "CMP", cmp)[c]]
  /\ cmp_period' = SetChannel(w, "CMP_PERIOD", cmp_period)

Watchdog(w) ==
  /\ wdt_load' = Set(w, "WDT_LOAD", wdt_load)
  /\ wdt_enable' = IF w.reg = "WDT_CTRL" THEN w.value.enable ELSE wdt_enable
  /\ wdt_counter' = IF WdtTick THEN wdt_counter - 1
                    ELSE IF Kick(w) THEN wdt_load
                    ELSE IF LoadRunning(w) THEN w.value
                    ELSE wdt_counter

Pwm(w) ==
  /\ pwm_period' = SetChannel(w, "PWM_PERIOD", pwm_period)
  /\ pwm_duty' = SetChannel(w, "PWM_DUTY", pwm_duty)
  /\ pwm_counter' = [c \in Channel |->
       IF ~timer_ctrl.enable THEN 0
       ELSE IF Tick
       THEN IF pwm_period[c] = 0 \/ Next1(pwm_counter[c]) >= pwm_period[c] THEN 0
            ELSE Next1(pwm_counter[c])
       ELSE IF w.reg = "PWM_PERIOD" /\ w.ch = c THEN 0
       ELSE pwm_counter[c]]
  /\ pwm_out' = [c \in Channel |->
       IF ~timer_ctrl.enable THEN pwm_period[c] # 0 /\ pwm_duty[c] # 0
       ELSE IF Tick THEN pwm_period[c] # 0 /\ pwm_counter[c] < pwm_duty[c]
       ELSE pwm_out[c]]

Capture(w) ==
  capture_value' = [c \in Channel |->
    IF w.reg = "CAPTURE_CTRL" /\ c \in w.value THEN counter ELSE capture_value[c]]

\* The writes that clear the watchdog event.
Acknowledges(w) ==
  (w.reg = "STATUS" /\ w.value.wdt) \/ Kick(w) \/ LoadRunning(w)

\* mutant of Expired: the acknowledge wins over the last tick
ExpiredAckWins(w) ==
  ~Acknowledges(w) /\ (timer_status.wdt \/ (WdtTick /\ wdt_counter = 1))

Expired(w) == (WdtTick /\ wdt_counter = 1) \/ (timer_status.wdt /\ ~Acknowledges(w))

\* TimerWrite one to clear, then what the edge raises.
Status(w) ==
  LET Cleared(old, mask) == IF w.reg = "STATUS" THEN old \ mask ELSE old IN
  timer_status' =
    [wdt |-> Expired(w),
     cmp |-> Cleared(timer_status.cmp, w.value.cmp) \cup {c \in Channel : TimerMatches(c)},
     cap |-> Cleared(timer_status.cap, w.value.cap)
               \cup (IF w.reg = "CAPTURE_CTRL" THEN w.value ELSE {})]

TimerEdge(w) ==
  /\ Counting(w) /\ Compare(w) /\ Watchdog(w)
  /\ Pwm(w) /\ Capture(w) /\ Status(w)

Idle == TimerEdge(None)

TimerNext == Idle \/ \E w \in TimerWrites : TimerEdge(w)

TimerSpec == TimerInit /\ [][TimerNext]_timerVars

\* The clock runs, and firmware does not write at every edge.
TimerFairSpec == TimerSpec /\ WF_timerVars(Idle)

--------------------------------------------------------------------------------
(* Invariants and properties *)

\* Every register holds a value of its kind.
TimerTypeOK ==
  /\ timer_ctrl \in TimerCtrl
  /\ {prescale, prescale_cnt, counter, wdt_load, wdt_counter} \subseteq Value
  /\ timer_status \in StatusWord
  /\ cmp \in [Channel -> Value] /\ cmp_period \in [Channel -> Value]
  /\ wdt_enable \in BOOLEAN
  /\ pwm_period \in [Channel -> Value] /\ pwm_duty \in [Channel -> Value]
  /\ pwm_counter \in [Channel -> Value]
  /\ pwm_out \in [Channel -> BOOLEAN]
  /\ capture_value \in [Channel -> Value]

\* The watchdog never runs out in silence: whichever kick, reload or acknowledge
\* meets the last tick, the expiry stays latched.
ExpiryLatched ==
  [][wdt_counter # 0 /\ wdt_counter' = 0 /\ wdt_load' # 0 /\ wdt_load # 0
       => timer_status'.wdt]_timerVars

\* A prescaler or a PWM counter that firmware leaves beyond a new, shorter limit
\* restarts when it next moves: it never has to count through the whole span.
StaleCountersRestart ==
  [][/\ prescale_cnt > prescale => prescale_cnt' = 0
     /\ \A c \in Channel :
          pwm_counter[c] # 0 /\ pwm_counter[c] >= pwm_period[c] =>
            pwm_counter'[c] \in {0, pwm_counter[c]}]_timerVars

\* When firmware falls silent, every compare channel that is set is met again, as
\* long as the timer runs: neither the prescaler nor the reload that moves the
\* channel while it is compared lets the counter miss it.
AlarmComes ==
  <>[][Idle]_timerVars =>
    \A c \in Channel : []<>(~timer_ctrl.enable \/ cmp[c] = 0 \/ TimerMatches(c))

\* When firmware falls silent an armed watchdog runs out.
WatchdogBites ==
  <>[][Idle]_timerVars => <>[](timer_ctrl.enable /\ wdt_enable => wdt_counter = 0)

\* A kick reloads the watchdog.
KickReloads ==
  [][\A w \in TimerWrites :
       w.reg = "WDT_CTRL" /\ w.value.kick /\ TimerEdge(w) => wdt_counter' = wdt_load]_timerVars
================================================================================
