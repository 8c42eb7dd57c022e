---------------------------- MODULE QarPins_proofs -----------------------------
(***************************************************************************)
(* Proofs about the timer, for every set of channels and width of its      *)
(* registers, about the debounce filter of the GPIO, for every set of pins *)
(* and width of the counter, and about the converter, for every number of  *)
(* channels and latency; all three for any register traffic.               *)
(***************************************************************************)
EXTENDS QarTimer, QarGpio, QarAdc, TLAPS

--------------------------------------------------------------------------------
(* The timer *)

LEMMA Wraps == ASSUME NEW n \in Nat PROVE n % Span \in Value
  BY TimerAssumption DEF Value

LEMMA WriteOrNone ==
  ASSUME [TimerNext]_timerVars
  PROVE  UNCHANGED timerVars \/ \E w \in TimerWrite \cup {None} : TimerEdge(w)
  BY TimerAssumption DEF TimerNext, Idle

\* What a register write may put into a register.
LEMMA WrittenValues ==
  ASSUME NEW w \in TimerWrite \cup {None}
  PROVE  /\ w.reg = "CTRL" => w.value \in TimerCtrl
         /\ w.reg = "STATUS" => w.value \in StatusWord
         /\ w.reg = "WDT_CTRL" => w.value \in WdtWord
         /\ w.reg \in {"PRESCALE", "COUNTER", "WDT_LOAD"} => w.value \in Value
         /\ w.reg \in {"CMP", "CMP_PERIOD", "PWM_PERIOD", "PWM_DUTY"} =>
              w.ch \in Channel /\ w.value \in Value
         /\ w.reg = "CAPTURE_CTRL" => w.value \subseteq Channel
  BY DEF TimerWrite, None

\* The registers keep their types.
THEOREM TimerTypeCorrect == TimerSpec => []TimerTypeOK
<1>1. TimerInit => TimerTypeOK
  <2> SUFFICES ASSUME TimerInit PROVE TimerTypeOK
    OBVIOUS
  <2>1. 0 \in Value
    BY TimerAssumption DEF Value
  <2>2. Zero \in [Channel -> Value]
    BY <2>1 DEF Zero
  <2>3. timer_ctrl \in TimerCtrl /\ timer_status \in StatusWord
    BY DEF TimerInit, TimerCtrl, StatusWord
  <2>4. pwm_out \in [Channel -> BOOLEAN]
    BY DEF TimerInit
  <2> QED
    BY <2>1, <2>2, <2>3, <2>4 DEF TimerInit, TimerTypeOK
<1>2. TimerTypeOK /\ [TimerNext]_timerVars => TimerTypeOK'
  <2> SUFFICES ASSUME TimerTypeOK, [TimerNext]_timerVars PROVE TimerTypeOK'
    OBVIOUS
  <2>1. CASE UNCHANGED timerVars
    BY <2>1 DEF timerVars, TimerTypeOK
  <2>2. ASSUME NEW w \in TimerWrite \cup {None}, TimerEdge(w) PROVE TimerTypeOK'
    <3> Span \in Nat \ {0, 1}
      BY TimerAssumption
    <3>0. /\ Value \subseteq Nat
          /\ 0 \in Value
          /\ \A n \in Value : Next1(n) \in Value
          /\ \A n, m \in Value : (n + m) % Span \in Value
          /\ \A n \in Value \ {0} : n - 1 \in Value
      BY Wraps DEF Value, Next1
    <3>1. timer_ctrl' \in TimerCtrl /\ {prescale, prescale_cnt, counter}' \subseteq Value
      <4>1. timer_ctrl' \in TimerCtrl
        BY <2>2, WrittenValues DEF TimerEdge, Counting, Set, TimerTypeOK
      <4>2. prescale' \in Value
        BY <2>2, WrittenValues DEF TimerEdge, Counting, Set, TimerTypeOK
      <4>3. prescale_cnt' \in Value
        BY <2>2, <3>0 DEF TimerEdge, Counting, TimerTypeOK
      <4>4. counter' \in Value
        BY <2>2, <3>0, WrittenValues DEF TimerEdge, Counting, Set, TimerTypeOK
      <4> QED
        BY <4>1, <4>2, <4>3, <4>4
    <3>2. cmp' \in [Channel -> Value] /\ cmp_period' \in [Channel -> Value]
      <4>1. /\ SetChannel(w, "CMP", cmp) \in [Channel -> Value]
            /\ SetChannel(w, "CMP_PERIOD", cmp_period) \in [Channel -> Value]
        BY WrittenValues DEF SetChannel, TimerTypeOK
      <4> QED
        BY <2>2, <3>0, <4>1 DEF TimerEdge, Compare, TimerTypeOK
    <3>3. {wdt_load, wdt_counter}' \subseteq Value /\ wdt_enable' \in BOOLEAN
      <4>1. wdt_load' \in Value
        BY <2>2, WrittenValues DEF TimerEdge, Watchdog, Set, TimerTypeOK
      <4>2. wdt_enable' \in BOOLEAN
        BY <2>2, WrittenValues DEF TimerEdge, Watchdog, WdtWord, TimerTypeOK
      <4>3. WdtTick => wdt_counter - 1 \in Value
        BY <3>0 DEF WdtTick, TimerTypeOK
      <4>4. LoadRunning(w) => w.value \in Value
        BY WrittenValues DEF LoadRunning
      <4>5. wdt_counter' \in Value
        BY <2>2, <4>3, <4>4 DEF TimerEdge, Watchdog, TimerTypeOK
      <4> QED
        BY <4>1, <4>2, <4>5
    <3>4. /\ pwm_period' \in [Channel -> Value] /\ pwm_duty' \in [Channel -> Value]
          /\ pwm_counter' \in [Channel -> Value]
          /\ pwm_out' \in [Channel -> BOOLEAN]
      <4>1. /\ SetChannel(w, "PWM_PERIOD", pwm_period) \in [Channel -> Value]
            /\ SetChannel(w, "PWM_DUTY", pwm_duty) \in [Channel -> Value]
        BY WrittenValues DEF SetChannel, TimerTypeOK
      <4> QED
        BY <2>2, <3>0, <4>1 DEF TimerEdge, Pwm, TimerTypeOK
    <3>5. capture_value' \in [Channel -> Value]
      BY <2>2 DEF TimerEdge, Capture, TimerTypeOK
    <3>6. timer_status' \in StatusWord
      <4>1. Expired(w) \in BOOLEAN
        BY DEF Expired
      <4> QED
        BY <2>2, <4>1, WrittenValues DEF TimerEdge, Status, StatusWord, TimerTypeOK
    <3> QED
      BY <3>1, <3>2, <3>3, <3>4, <3>5, <3>6 DEF TimerTypeOK
  <2> QED
    BY <2>1, <2>2, WriteOrNone
<1> QED
  BY <1>1, <1>2, PTL DEF TimerSpec

\* The watchdog never runs out in silence: no kick, reload or acknowledge that
\* meets the last tick hides it.
THEOREM ExpiryIsLatched == TimerSpec => ExpiryLatched
<1> DEFINE Latched == wdt_counter # 0 /\ wdt_counter' = 0 /\ wdt_load' # 0 /\ wdt_load # 0
                        => timer_status'.wdt
<1>1. TimerTypeOK /\ [TimerNext]_timerVars => [Latched]_timerVars
  <2> SUFFICES ASSUME TimerTypeOK, [TimerNext]_timerVars, ~UNCHANGED timerVars
               PROVE  Latched
    OBVIOUS
  <2>1. PICK w \in TimerWrite \cup {None} : TimerEdge(w)
    BY WriteOrNone
  <2>2. HAVE wdt_counter # 0 /\ wdt_counter' = 0 /\ wdt_load' # 0 /\ wdt_load # 0
  <2>3. WdtTick /\ wdt_counter = 1
    BY <2>1, <2>2, WrittenValues
    DEF TimerEdge, Watchdog, Set, Kick, LoadRunning, TimerTypeOK, Value
  <2> QED
    BY <2>1, <2>3 DEF TimerEdge, Status, Expired
<1> QED
  BY <1>1, TimerTypeCorrect, PTL DEF TimerSpec, ExpiryLatched

\* A prescaler or a PWM counter that is beyond its limit restarts when it moves.
THEOREM CountersRestart == TimerSpec => StaleCountersRestart
<1> DEFINE Restart ==
      /\ prescale_cnt > prescale => prescale_cnt' = 0
      /\ \A c \in Channel :
           pwm_counter[c] # 0 /\ pwm_counter[c] >= pwm_period[c] =>
             pwm_counter'[c] \in {0, pwm_counter[c]}
<1>1. TimerTypeOK /\ [TimerNext]_timerVars => [Restart]_timerVars
  <2> SUFFICES ASSUME TimerTypeOK, [TimerNext]_timerVars, ~UNCHANGED timerVars
               PROVE  Restart
    OBVIOUS
  <2>1. PICK w \in TimerWrite \cup {None} : TimerEdge(w)
    BY WriteOrNone
  <2>2. prescale_cnt > prescale => prescale_cnt' = 0
    BY <2>1 DEF TimerEdge, Counting, Tick, TimerTypeOK, Value
  <2>3. ASSUME NEW c \in Channel, pwm_counter[c] # 0, pwm_counter[c] >= pwm_period[c]
        PROVE  pwm_counter'[c] \in {0, pwm_counter[c]}
    <3>1. /\ pwm_counter[c] \in 0 .. Span - 1 /\ pwm_period[c] \in 0 .. Span - 1
          /\ Span \in Nat
      BY TimerAssumption DEF TimerTypeOK, Value
    <3>2. Next1(pwm_counter[c]) = 0 \/ Next1(pwm_counter[c]) >= pwm_period[c]
      <4>1. CASE pwm_counter[c] = Span - 1
        BY <4>1, <3>1, TimerAssumption DEF Next1
      <4>2. CASE pwm_counter[c] < Span - 1
        BY <4>2, <3>1, <2>3 DEF Next1
      <4> QED
        BY <4>1, <4>2, <3>1
    <3> QED
      BY <2>1, <2>3, <3>2 DEF TimerEdge, Pwm
  <2> QED
    BY <2>2, <2>3
<1> QED
  BY <1>1, TimerTypeCorrect, PTL DEF TimerSpec, StaleCountersRestart


--------------------------------------------------------------------------------
(* The GPIO *)

\* The filter's count never exceeds the time the level outside has stayed, and a count
\* that runs belongs to a level that differs from the filtered one.
CountIsHonest ==
  /\ debounce_cycles \in GpioCount
  /\ debounce_counter \in [Pin -> GpioCount]
  /\ held \in [Pin -> 0 .. GpioSpan]
  /\ \A p \in Pin :
       /\ debounce_counter[p] <= held[p]
       /\ debounce_counter[p] > 0 => (p \in level) # (p \in debounced_input)

LEMMA GpioEveryEdge ==
  ASSUME [GpioNext]_gpioVars
  PROVE  \/ UNCHANGED gpioVars
         \/ \E w \in GpioWrite \cup {[reg |-> "none"]}, gpio_in \in SUBSET Pin,
               pwm \in SUBSET PwmPin : GpioEdge(w, gpio_in, pwm)
  BY GpioAssumption DEF GpioNext, GpioQuiet

\* The window is within the reach of the counter.
LEMMA ThresholdInReach ==
  ASSUME debounce_cycles \in GpioCount
  PROVE  debounce_threshold \in 1 .. GpioSpan - 1
  BY GpioAssumption DEF debounce_threshold, GpioCount

LEMMA CyclesStay ==
  ASSUME debounce_cycles \in GpioCount,
         NEW w \in GpioWrite \cup {[reg |-> "none"]}, GpioRegisters(w)
  PROVE  debounce_cycles' \in GpioCount
<1>1. w.reg = "DB_CYCLES" => w.value \in GpioCount
  BY DEF GpioWrite, GpioMask
<1> QED
  BY <1>1 DEF GpioRegisters, GpioSet

\* A level that differs from the filtered one, before and at an edge, has stayed.
LEMMA HeldGrows ==
  ASSUME CountIsHonest, NEW p \in Pin, NEW gpio_in \in SUBSET Pin, History(gpio_in),
         Differs(p, gpio_in)
  PROVE  /\ held'[p] \in 1 .. GpioSpan
         /\ debounce_counter[p] > 0 => held'[p] = GpioSpan \/ held'[p] = held[p] + 1
<1>1. held'[p] = IF (p \in gpio_in) # (p \in level) THEN 1
                 ELSE IF held[p] = GpioSpan THEN GpioSpan ELSE held[p] + 1
  BY DEF History
<1>2. held[p] \in 0 .. GpioSpan /\ GpioSpan \in Nat \ {0, 1}
  BY GpioAssumption DEF CountIsHonest
<1>3. debounce_counter[p] > 0 => ((p \in gpio_in) <=> (p \in level))
  BY DEF CountIsHonest, Differs
<1> QED
  BY <1>1, <1>2, <1>3

\* The debounce counter counts no more edges than the pin has stayed.
THEOREM CountStaysHonest == GpioSpec => []CountIsHonest
<1>1. GpioInit => CountIsHonest
  BY GpioAssumption DEF GpioInit, CountIsHonest, GpioCount
<1>2. CountIsHonest /\ [GpioNext]_gpioVars => CountIsHonest'
  <2> SUFFICES ASSUME CountIsHonest, [GpioNext]_gpioVars PROVE CountIsHonest'
    OBVIOUS
  <2>1. CASE UNCHANGED gpioVars
    BY <2>1 DEF gpioVars, CountIsHonest
  <2>2. ASSUME NEW w \in GpioWrite \cup {[reg |-> "none"]}, NEW gpio_in \in SUBSET Pin,
               NEW pwm \in SUBSET PwmPin, GpioEdge(w, gpio_in, pwm)
        PROVE  CountIsHonest'
    <3>1. debounce_cycles' \in GpioCount
      BY <2>2, CyclesStay DEF GpioEdge, CountIsHonest
    <3>2. \A p \in Pin : WindowOver(p) \/ debounce_counter[p] + 1 \in GpioCount
      BY GpioAssumption, ThresholdInReach DEF WindowOver, CountIsHonest, GpioCount
    <3>3. ASSUME NEW p \in Pin, Filtered(p), Differs(p, gpio_in), ~WindowOver(p)
          PROVE  /\ debounce_counter'[p] = debounce_counter[p] + 1
                 /\ debounce_counter'[p] \in GpioCount
                 /\ debounce_counter'[p] <= held'[p]
                 /\ (p \in level') # (p \in debounced_input')
      <4>1. debounce_counter'[p] = (debounce_counter[p] + 1) % GpioSpan
        BY <2>2, <3>3 DEF GpioEdge, Debounce
      <4>2. debounce_counter[p] + 1 \in GpioCount
        BY <3>2, <3>3
      <4>3. debounce_counter'[p] = debounce_counter[p] + 1
        BY <4>1, <4>2, GpioAssumption DEF GpioCount
      <4>4. debounce_counter'[p] <= held'[p]
        <5>1. /\ held'[p] \in 1 .. GpioSpan
              /\ debounce_counter[p] > 0 => held'[p] = GpioSpan \/ held'[p] = held[p] + 1
          BY <2>2, <3>3, HeldGrows DEF GpioEdge
        <5>2. debounce_counter[p] \in Nat /\ debounce_counter[p] <= held[p] /\ held[p] \in Nat
          BY DEF CountIsHonest, GpioCount
        <5> QED
          BY <4>2, <4>3, <5>1, <5>2, GpioAssumption DEF GpioCount
      <4>5. p \in debounced_input' <=> p \in debounced_input
        BY <2>2, <3>3 DEF GpioEdge, Debounce, Filtered
      <4>6. level' = gpio_in
        BY <2>2 DEF GpioEdge, History
      <4> QED
        BY <3>3, <4>2, <4>3, <4>4, <4>5, <4>6 DEF Differs
    <3>4. ASSUME NEW p \in Pin, ~(Filtered(p) /\ Differs(p, gpio_in) /\ ~WindowOver(p))
          PROVE  debounce_counter'[p] = 0
      BY <2>2, <3>4 DEF GpioEdge, Debounce
    <3>5. held' \in [Pin -> 0 .. GpioSpan]
      BY <2>2, GpioAssumption DEF GpioEdge, History, CountIsHonest
    <3>6. debounce_counter' \in [Pin -> GpioCount]
      <4>1. debounce_counter' = [p \in Pin |-> debounce_counter'[p]]
        BY <2>2 DEF GpioEdge, Debounce
      <4>2. 0 \in GpioCount
        BY GpioAssumption DEF GpioCount
      <4>3. \A p \in Pin : debounce_counter'[p] \in GpioCount
        BY <3>3, <3>4, <4>2
      <4> QED
        BY <4>1, <4>3
    <3>7. ASSUME NEW p \in Pin
          PROVE  /\ debounce_counter'[p] <= held'[p]
                 /\ debounce_counter'[p] > 0 => (p \in level') # (p \in debounced_input')
      <4>1. held'[p] \in 0 .. GpioSpan
        BY <3>5
      <4> QED
        BY <3>3, <3>4, <4>1, GpioAssumption
    <3> QED
      BY <3>1, <3>5, <3>6, <3>7 DEF CountIsHonest
  <2> QED
    BY <2>1, <2>2, GpioEveryEdge
<1> QED
  BY <1>1, <1>2, PTL DEF GpioSpec

\* A debounced input follows the pin only after the level outside has stayed for longer
\* than the window, whatever firmware writes while the filter counts.
THEOREM NoGlitchPasses == GpioSpec => GlitchFree
<1>1. CountIsHonest /\ [GpioNext]_gpioVars =>
        \A p \in Pin :
          Filtered(p) /\ (p \in debounced_input') # (p \in debounced_input) =>
            held'[p] > debounce_threshold
  <2> SUFFICES ASSUME CountIsHonest, [GpioNext]_gpioVars, NEW p \in Pin, Filtered(p),
                      (p \in debounced_input') # (p \in debounced_input)
               PROVE  held'[p] > debounce_threshold
    OBVIOUS
  <2>1. ~UNCHANGED gpioVars
    BY DEF gpioVars
  <2>2. PICK w \in GpioWrite \cup {[reg |-> "none"]}, gpio_in \in SUBSET Pin,
             pwm \in SUBSET PwmPin : GpioEdge(w, gpio_in, pwm)
    BY <2>1, GpioEveryEdge
  <2>3. WindowOver(p) /\ Differs(p, gpio_in)
    BY <2>2 DEF GpioEdge, Debounce, Filtered, Differs
  <2>4. /\ held'[p] \in 1 .. GpioSpan
        /\ debounce_counter[p] > 0 => held'[p] = GpioSpan \/ held'[p] = held[p] + 1
    BY <2>2, <2>3, HeldGrows DEF GpioEdge
  <2>5. debounce_threshold \in 1 .. GpioSpan - 1
    BY ThresholdInReach DEF CountIsHonest
  <2>6. /\ debounce_counter[p] >= debounce_threshold
        /\ debounce_counter[p] <= held[p]
        /\ debounce_counter[p] \in Nat /\ held[p] \in Nat
    BY <2>3 DEF WindowOver, CountIsHonest, GpioCount
  <2> QED
    BY <2>4, <2>5, <2>6, GpioAssumption
<1> QED
  BY <1>1, CountStaysHonest, PTL DEF GpioSpec, GlitchFree

--------------------------------------------------------------------------------
(* The converter *)

LEMMA AccessOrSilent ==
  ASSUME [AdcNext]_adcVars
  PROVE  UNCHANGED adcVars \/ \E op \in AdcAccess, sample \in Sample : AdcEdge(op, sample)
<1>1. Silent \in AdcAccess
  BY DEF Silent, AdcAccess
<1> QED
  BY <1>1, AdcAssumption DEF AdcNext, AdcQuiet

\* A ready result has its interrupt pending: the end of a conversion sets both, and
\* whatever takes the interrupt away without it takes the result away too.
THEOREM ReadyStaysPending == AdcSpec => []ReadyIsPending
<1>1. AdcInit => ReadyIsPending
  BY DEF AdcInit, ReadyIsPending
<1>2. ReadyIsPending /\ [AdcNext]_adcVars => ReadyIsPending'
  <2> SUFFICES ASSUME ReadyIsPending, [AdcNext]_adcVars PROVE ReadyIsPending'
    OBVIOUS
  <2>1. CASE UNCHANGED adcVars
    BY <2>1 DEF adcVars, ReadyIsPending
  <2>2. ASSUME NEW op \in AdcAccess, NEW sample \in Sample, AdcEdge(op, sample)
        PROVE ReadyIsPending'
    <3>1. CASE ConversionEnds
      <4>1. "ready" \in AdcRaised
        BY <3>1 DEF AdcRaised
      <4> QED
        BY <2>2, <4>1 DEF AdcEdge, Result, ReadyIsPending
    <3>2. CASE ~ConversionEnds
      <4>1. data_valid' => data_valid /\ "ready" \notin AdcCleared(op)
        BY <2>2, <3>2 DEF AdcEdge, Result
      <4> QED
        BY <2>2, <4>1 DEF AdcEdge, Result, ReadyIsPending
    <3> QED
      BY <3>1, <3>2
  <2> QED
    BY <2>1, <2>2, AccessOrSilent
<1> QED
  BY <1>1, <1>2, PTL DEF AdcSpec
================================================================================
