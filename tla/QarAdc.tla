--------------------------------- MODULE QarAdc --------------------------------
(***************************************************************************)
(* The analog-to-digital converter, qar-core/rtl/adc.v: single conversions *)
(* and the round robin sequencer.  An action is one clock edge with at     *)
(* most one register access of the firmware.  sample is the level at the   *)
(* input of the channel that the edge latches.  IRQ_EN only gates the      *)
(* interrupt line and is left out.                                         *)
(***************************************************************************)
EXTENDS Integers

CONSTANTS
  CHANNELS,       \* 4 in the code: channel 0 .. 3
  CONV_LATENCY,   \* 8 in the code
  AdcSpan,        \* 2^16, of the sample counter and its limit
  ResetDiv,       \* 16
  Sample,
  AdcOps          \* the register accesses of the firmware

AdcChannel == 0 .. CHANNELS - 1
AdcCtrl == [enable: BOOLEAN, continuous: BOOLEAN, start: BOOLEAN, channel: AdcChannel]
AdcFlag == {"ready", "overrun"}

AdcAccess ==
  [reg: {"none", "RESULT"}]
    \cup [reg: {"CTRL"}, value: AdcCtrl]
    \cup [reg: {"IRQ_STATUS"}, value: SUBSET AdcFlag]
    \cup [reg: {"SEQ_MASK"}, value: SUBSET AdcChannel]
    \cup [reg: {"SAMPLE_DIV"}, value: 0 .. AdcSpan - 1]

ASSUME AdcAssumption ==
  /\ CHANNELS \in Nat \ {0} /\ CONV_LATENCY \in Nat \ {0}
  /\ AdcSpan \in Nat \ {0, 1} /\ ResetDiv \in 0 .. AdcSpan - 1
  /\ Sample # {}
  /\ AdcOps \subseteq AdcAccess

VARIABLES
  ctrl_enable, ctrl_continuous, ctrl_channel, manual_start_pending,
  seq_mask, sample_div, sample_counter, seq_channel,
  adc_busy, active_channel, sample_hold, conv_counter,
  data_valid, result_value, result_channel, data_overrun,
  adc_irq

adcVars == <<ctrl_enable, ctrl_continuous, ctrl_channel, manual_start_pending, seq_mask,
             sample_div, sample_counter, seq_channel, adc_busy, active_channel,
             sample_hold, conv_counter, data_valid, result_value, result_channel,
             data_overrun, adc_irq>>

AdcInit ==
  /\ ctrl_enable = FALSE /\ ctrl_continuous = FALSE /\ ctrl_channel = 0
  /\ manual_start_pending = FALSE
  /\ seq_mask = {0} /\ sample_div = ResetDiv /\ sample_counter = 0 /\ seq_channel = 0
  /\ adc_busy = FALSE /\ active_channel = 0 /\ conv_counter = 0
  /\ sample_hold \in Sample /\ result_value \in Sample
  /\ data_valid = FALSE /\ result_channel = 0 /\ data_overrun = FALSE
  /\ adc_irq = {}

--------------------------------------------------------------------------------
(* The order of the channels *)

Least(S) == CHOOSE n \in S : \A m \in S : n <= m

first_channel(mask) == IF mask = {} THEN CHANNELS - 1 ELSE Least(mask)

\* mutant of next_channel: the search starts at channel 0 every time
next_channel_from_0(mask, curr) == first_channel(mask)

\* The next channel of the mask, cyclically; curr itself when there is no other.
next_channel(mask, curr) ==
  LET after == {c \in mask : c > curr}
      before == {c \in mask : c < curr}
  IN IF after # {} THEN Least(after) ELSE IF before # {} THEN Least(before) ELSE curr

--------------------------------------------------------------------------------
(* The events of an edge *)

Silent == [reg |-> "none"]

effective_sample_div == IF sample_div = 0 THEN 1 ELSE sample_div
continuous_ready == ctrl_enable /\ ctrl_continuous /\ seq_mask # {}

ManualStart == ~adc_busy /\ manual_start_pending /\ ctrl_enable
AdcWaiting == ~adc_busy /\ ~ManualStart /\ continuous_ready
SequencerStart == AdcWaiting /\ sample_counter >= effective_sample_div
ConversionEnds == adc_busy /\ conv_counter >= CONV_LATENCY - 1
Overrun == ConversionEnds /\ data_valid

AdcCleared(op) ==
  CASE op.reg = "IRQ_STATUS" -> op.value
    [] op.reg = "RESULT" -> {"ready"}
    [] OTHER -> {}

AdcRaised ==
  (IF ConversionEnds THEN {"ready"} ELSE {}) \cup (IF Overrun THEN {"overrun"} ELSE {})

--------------------------------------------------------------------------------
(* The clock edge *)

AdcRegisters(op) ==
  LET ctrl_written == op.reg = "CTRL" IN
  /\ ctrl_enable' = IF ctrl_written THEN op.value.enable ELSE ctrl_enable
  /\ ctrl_continuous' = IF ctrl_written THEN op.value.continuous ELSE ctrl_continuous
  /\ ctrl_channel' = IF ctrl_written THEN op.value.channel ELSE ctrl_channel
  /\ manual_start_pending' =
       (~ManualStart /\ (manual_start_pending \/ (ctrl_written /\ op.value.start)))
  /\ seq_mask' = IF op.reg = "SEQ_MASK" THEN op.value ELSE seq_mask
  /\ sample_div' = IF op.reg = "SAMPLE_DIV" THEN op.value ELSE sample_div

\* The channel after a conversion follows the old mask even when a new one is written.
Sequencer(op) ==
  /\ seq_channel' = IF SequencerStart THEN next_channel(seq_mask, seq_channel)
                    ELSE IF op.reg = "SEQ_MASK" THEN first_channel(op.value)
                    ELSE seq_channel
  /\ sample_counter' = IF SequencerStart \/ ~ctrl_continuous THEN 0
                       ELSE IF AdcWaiting THEN sample_counter + 1
                       ELSE IF adc_busy \/ ManualStart THEN sample_counter
                       ELSE 0

Conversion(sample) ==
  LET starts == ManualStart \/ SequencerStart IN
  /\ adc_busy' = (starts \/ (adc_busy /\ ~ConversionEnds))
  /\ active_channel' = IF ManualStart THEN ctrl_channel
                       ELSE IF SequencerStart THEN seq_channel
                       ELSE active_channel
  /\ sample_hold' = IF starts THEN sample ELSE sample_hold
  /\ conv_counter' = IF starts \/ ConversionEnds THEN 0
                     ELSE IF adc_busy THEN conv_counter + 1
                     ELSE conv_counter

Result(op) ==
  /\ data_valid' = (ConversionEnds \/ (data_valid /\ ~ManualStart /\ ~SequencerStart
                                         /\ "ready" \notin AdcCleared(op)))
  /\ data_overrun' = (Overrun \/ (data_overrun /\ ~(op.reg = "IRQ_STATUS"
                                                      /\ "overrun" \in op.value)))
  /\ result_value' = IF ConversionEnds THEN sample_hold ELSE result_value
  /\ result_channel' = IF ConversionEnds THEN active_channel ELSE result_channel
  /\ adc_irq' = (adc_irq \ AdcCleared(op)) \cup AdcRaised

AdcEdge(op, sample) ==
  /\ AdcRegisters(op)
  /\ Sequencer(op)
  /\ Conversion(sample)
  /\ Result(op)

AdcQuiet == \E sample \in Sample : AdcEdge(Silent, sample)

AdcNext == AdcQuiet \/ \E op \in AdcOps, sample \in Sample : AdcEdge(op, sample)

AdcSpec == AdcInit /\ [][AdcNext]_adcVars

--------------------------------------------------------------------------------
(* Properties *)

\* A result that STATUS shows as ready has its interrupt pending, whichever read,
\* acknowledge or start meets the end of the conversion.
ReadyIsPending == data_valid => "ready" \in adc_irq

\* When firmware falls silent the sequencer converts every channel of its mask again and
\* again, even if the mask was written at the very edge of a start, or the divider below
\* the running count.
RoundRobin ==
  <>[][AdcQuiet]_adcVars =>
    \A c \in AdcChannel :
      []<>(~continuous_ready \/ c \notin seq_mask \/ (adc_busy /\ active_channel = c))

\* A result that firmware has neither read nor acknowledged when the next one arrives
\* raises the overrun flag (docs/peripherals/adc.md: "Overruns are detected when firmware
\* fails to read RESULT before the next conversion completes").  The code does not keep
\* it; no run checks it (see the README).
OverrunDetected ==
  [][ConversionEnds /\ "ready" \in adc_irq => data_overrun']_adcVars
================================================================================
