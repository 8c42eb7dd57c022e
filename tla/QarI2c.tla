--------------------------------- MODULE QarI2c --------------------------------
(***************************************************************************)
(* The I2C master, qar-core/rtl/i2c.v.  An action is one clock edge: at    *)
(* most one register access of the firmware (op), and a step of the bit    *)
(* engine when the divider has run out (tick, at any edge: CLKDIV is left  *)
(* out).  line is the level of SDA that the engine reads back.  A byte is  *)
(* the set of its bits that are 1, and has Bits bits.  IRQ_EN, rx_fifo and *)
(* last_fault_byte are left out: nothing but the interrupt line and        *)
(* register reads depends on them.  Names have the prefix i2c where the    *)
(* code's own are those of other controllers.                              *)
(***************************************************************************)
EXTENDS Integers

CONSTANTS
  I2cDepth,       \* FIFO_DEPTH
  Bits,           \* 8 in the code
  Lines           \* the levels SDA may have when nobody but a device drives it

ASSUME I2cAssumption ==
  /\ I2cDepth \in Nat \ {0, 1}
  /\ Bits \in Nat \ {0}
  /\ Lines \subseteq BOOLEAN

I2cSpan == 2 * I2cDepth
I2cPtr == 0 .. I2cSpan - 1
I2cRow == 0 .. I2cDepth - 1
I2cByte == SUBSET (0 .. Bits - 1)

Cmd == {"START", "WRITE", "READ", "STOP"}
I2cFault == {"tx_ovf", "rx_ovf", "nack"}
I2cIrq == {"rx", "tx_empty", "fault"} \cup I2cFault
I2cCtrl == [enable: BOOLEAN, loopback: BOOLEAN]

VARIABLES
  i2c_ctrl, i2c_irq,
  cmd_reg,        \* the commands that wait
  i2c_flags,      \* ack_error_flag, rx_overflow_flag and tx_overflow_flag
  last_fault_code, last_fault_cmd,
  i2c_tx, i2c_tx_head, i2c_tx_tail, i2c_rx_head, i2c_rx_tail,
  state, scl_state, sda_state, sda_drive, bit_index, shift_reg

queueVars == <<i2c_tx, i2c_tx_head, i2c_tx_tail, i2c_rx_head, i2c_rx_tail>>
engineVars == <<state, scl_state, sda_state, sda_drive, bit_index, shift_reg>>
i2cVars == <<i2c_ctrl, i2c_irq, cmd_reg, i2c_flags, last_fault_code, last_fault_cmd,
             queueVars, engineVars>>

I2cInit ==
  /\ i2c_ctrl = [enable |-> TRUE, loopback |-> FALSE]
  /\ i2c_irq = {} /\ cmd_reg = {} /\ i2c_flags = {}
  /\ last_fault_code = "none" /\ last_fault_cmd = "none"
  /\ i2c_tx = [r \in I2cRow |-> {}]    \* no reset in the code; no row is read unwritten
  /\ i2c_tx_head = 0 /\ i2c_tx_tail = 0 /\ i2c_rx_head = 0 /\ i2c_rx_tail = 0
  /\ state = "IDLE" /\ scl_state = TRUE /\ sda_state = TRUE /\ sda_drive = FALSE
  /\ bit_index = 0 /\ shift_reg = {}

--------------------------------------------------------------------------------
(* Wires: the differences are 32-bit ones and never wrap with the pointers *)

i2c_tx_full == i2c_tx_head - i2c_tx_tail = I2cDepth
i2c_rx_full == i2c_rx_head - i2c_rx_tail = I2cDepth
i2c_tx_empty == i2c_tx_head = i2c_tx_tail
i2c_rx_empty == i2c_rx_head = i2c_rx_tail

NextPtr(p) == (p + 1) % I2cSpan
NextByte == i2c_tx[i2c_tx_tail % I2cDepth]

--------------------------------------------------------------------------------
(* The events of an edge *)

I2cAccess ==
  [reg: {"none", "RXDATA"}]
    \cup [reg: {"CTRL"}, value: I2cCtrl]
    \cup [reg: {"STATUS"}, value: SUBSET I2cFault]
    \cup [reg: {"IRQ_STATUS"}, value: SUBSET I2cIrq]
    \cup [reg: {"TXDATA"}, value: I2cByte]
    \cup [reg: {"CMD"}, value: SUBSET Cmd]

I2cPush(op) == op.reg = "TXDATA" /\ ~i2c_tx_full
I2cTxDrop(op) == op.reg = "TXDATA" /\ i2c_tx_full
I2cPop(op) == op.reg = "RXDATA" /\ ~i2c_rx_empty

\* mutant of Taken: a WRITE that waits for its byte holds back what follows
TakenInOrder ==
  IF state # "IDLE" \/ ~i2c_ctrl.enable THEN "none"
  ELSE IF "START" \in cmd_reg THEN "START"
  ELSE IF "WRITE" \in cmd_reg THEN (IF i2c_tx_empty THEN "none" ELSE "WRITE")
  ELSE IF "READ" \in cmd_reg THEN "READ"
  ELSE IF "STOP" \in cmd_reg THEN "STOP"
  ELSE "none"

\* The command the idle engine takes: a WRITE without a byte lets later ones pass.
Taken ==
  IF state # "IDLE" \/ ~i2c_ctrl.enable THEN "none"
  ELSE IF "START" \in cmd_reg THEN "START"
  ELSE IF "WRITE" \in cmd_reg /\ ~i2c_tx_empty THEN "WRITE"
  ELSE IF "READ" \in cmd_reg THEN "READ"
  ELSE IF "STOP" \in cmd_reg THEN "STOP"
  ELSE "none"

\* The acknowledge bit is looked at while SCL is high, the state left while it is low.
AckSampled(tick) == state = "ACK" /\ tick /\ scl_state
AckLeft(tick) == state = "ACK" /\ tick /\ ~scl_state
Nack(tick, line) == AckSampled(tick) /\ ~i2c_ctrl.loopback /\ line

ReadDone(tick) == state = "READ" /\ tick /\ scl_state /\ bit_index = 0
I2cKeep(tick) == ReadDone(tick) /\ ~i2c_rx_full
I2cRxDrop(tick) == ReadDone(tick) /\ i2c_rx_full

I2cFaults(op, tick, line) ==
  (IF I2cTxDrop(op) THEN {"tx_ovf"} ELSE {})
    \cup (IF I2cRxDrop(tick) THEN {"rx_ovf"} ELSE {})
    \cup (IF Nack(tick, line) THEN {"nack"} ELSE {})

I2cRaised(op, tick, line) ==
  I2cFaults(op, tick, line)
    \cup (IF I2cFaults(op, tick, line) # {} THEN {"fault"} ELSE {})
    \cup (IF AckLeft(tick) /\ i2c_tx_empty THEN {"tx_empty"} ELSE {})
    \cup (IF I2cKeep(tick) THEN {"rx"} ELSE {})

I2cCleared(op) ==
  CASE op.reg = "IRQ_STATUS" -> op.value
    [] I2cPush(op) -> {"tx_empty"}
    [] I2cPop(op) /\ i2c_rx_head - (i2c_rx_tail + 1) = 0 -> {"rx"}
    [] OTHER -> {}

\* Flags are cleared bit by bit, all by bit 2 of IRQ_STATUS, and NACK by an ACK.
I2cForgiven(op, tick) ==
  (IF op.reg \in {"STATUS", "IRQ_STATUS"} THEN op.value \cap I2cFault ELSE {})
    \cup (IF op.reg = "IRQ_STATUS" /\ "fault" \in op.value THEN I2cFault ELSE {})
    \cup (IF AckSampled(tick) THEN {"nack"} ELSE {})

--------------------------------------------------------------------------------
(* The clock edge *)

I2cRegisters(op, tick, line) ==
  /\ i2c_ctrl' = IF op.reg = "CTRL" THEN op.value ELSE i2c_ctrl
  /\ cmd_reg' = (IF op.reg = "CMD" THEN op.value ELSE cmd_reg) \ {Taken}
  /\ i2c_irq' = (i2c_irq \ I2cCleared(op)) \cup I2cRaised(op, tick, line)
  /\ i2c_flags' = (i2c_flags \ I2cForgiven(op, tick)) \cup I2cFaults(op, tick, line)

\* mutant of I2cRecord: a byte that finds no room leaves no code
I2cRecordWithoutRx(op, tick, line) ==
  /\ last_fault_code' = IF Nack(tick, line) THEN "nack"
                        ELSE IF I2cTxDrop(op) THEN "tx_ovf"
                        ELSE last_fault_code
  /\ last_fault_cmd' = IF Taken # "none" THEN Taken
                       ELSE IF I2cTxDrop(op) THEN "WRITE"
                       ELSE last_fault_cmd

\* The engine's assignments come after the register write's.
I2cRecord(op, tick, line) ==
  /\ last_fault_code' = IF Nack(tick, line) THEN "nack"
                        ELSE IF I2cRxDrop(tick) THEN "rx_ovf"
                        ELSE IF I2cTxDrop(op) THEN "tx_ovf"
                        ELSE last_fault_code
  /\ last_fault_cmd' = IF Taken # "none" THEN Taken
                       ELSE IF I2cTxDrop(op) THEN "WRITE"
                       ELSE last_fault_cmd

I2cQueues(op, tick) ==
  /\ i2c_tx' = IF I2cPush(op) THEN [i2c_tx EXCEPT ![i2c_tx_head % I2cDepth] = op.value]
               ELSE i2c_tx
  /\ i2c_tx_head' = IF I2cPush(op) THEN NextPtr(i2c_tx_head) ELSE i2c_tx_head
  /\ i2c_tx_tail' = IF Taken = "WRITE" THEN NextPtr(i2c_tx_tail) ELSE i2c_tx_tail
  /\ i2c_rx_head' = IF I2cKeep(tick) THEN NextPtr(i2c_rx_head) ELSE i2c_rx_head
  /\ i2c_rx_tail' = IF I2cPop(op) THEN NextPtr(i2c_rx_tail) ELSE i2c_rx_tail

\* The state an idle engine goes to with a command.
StateOf == [none |-> "IDLE", START |-> "START", WRITE |-> "WRITE", READ |-> "READ",
            STOP |-> "STOP"]

AtIdle ==
  /\ state = "IDLE"
  /\ state' = StateOf[Taken]
  /\ scl_state' = (Taken \notin {"WRITE", "READ"})
  /\ sda_drive' = (Taken \in {"START", "WRITE", "STOP"})
  /\ sda_state' = (Taken \notin {"START", "STOP"} /\ (Taken = "WRITE" => Bits - 1 \in NextByte))
  /\ bit_index' = IF Taken \in {"WRITE", "READ"} THEN Bits - 1 ELSE bit_index
  /\ shift_reg' = IF Taken = "WRITE" THEN NextByte ELSE shift_reg

\* A start condition ends with SCL low, a stop condition with both lines high.
AtCondition ==
  /\ state \in {"START", "STOP"}
  /\ state' = "IDLE"
  /\ scl_state' = (state = "STOP") /\ sda_state' = (state = "STOP")
  /\ UNCHANGED <<sda_drive, bit_index, shift_reg>>

\* mutant of AtWrite: off by one
AtWriteSameBit ==
  LET last == scl_state /\ bit_index = 0
      next == scl_state /\ bit_index # 0
  IN
  /\ state = "WRITE"
  /\ state' = IF last THEN "ACK" ELSE "WRITE"
  /\ scl_state' = ~scl_state
  /\ sda_drive' = (sda_drive /\ ~last)
  /\ bit_index' = IF next THEN bit_index - 1 ELSE bit_index
  /\ sda_state' = IF next THEN bit_index \in shift_reg ELSE sda_state
  /\ UNCHANGED shift_reg

AtWrite ==
  LET last == scl_state /\ bit_index = 0
      next == scl_state /\ bit_index # 0
  IN
  /\ state = "WRITE"
  /\ state' = IF last THEN "ACK" ELSE "WRITE"
  /\ scl_state' = ~scl_state
  /\ sda_drive' = (sda_drive /\ ~last)
  /\ bit_index' = IF next THEN bit_index - 1 ELSE bit_index
  /\ sda_state' = IF next THEN bit_index - 1 \in shift_reg ELSE sda_state
  /\ UNCHANGED shift_reg

AtAck ==
  /\ state = "ACK"
  /\ state' = IF scl_state THEN "ACK" ELSE "IDLE"
  /\ scl_state' = ~scl_state
  /\ UNCHANGED <<sda_state, sda_drive, bit_index, shift_reg>>

\* The byte goes to the queue at the edge that reads its last bit (see I2cKeep).
AtRead(line) ==
  LET bit == IF i2c_ctrl.loopback THEN sda_state ELSE line IN
  /\ state = "READ"
  /\ state' = IF scl_state /\ bit_index = 0 THEN "IDLE" ELSE "READ"
  /\ scl_state' = ~scl_state
  /\ shift_reg' = IF ~scl_state THEN shift_reg
                  ELSE IF bit THEN shift_reg \cup {bit_index}
                  ELSE shift_reg \ {bit_index}
  /\ bit_index' = IF scl_state /\ bit_index # 0 THEN bit_index - 1 ELSE bit_index
  /\ UNCHANGED <<sda_state, sda_drive>>

Engine(tick, line) ==
  \/ AtIdle
  \/ tick /\ (AtCondition \/ AtWrite \/ AtAck \/ AtRead(line))
  \/ state # "IDLE" /\ ~tick /\ UNCHANGED engineVars

I2cEdge(op, tick, line) ==
  /\ I2cRegisters(op, tick, line)
  /\ I2cRecord(op, tick, line)
  /\ I2cQueues(op, tick)
  /\ Engine(tick, line)

\* Firmware that makes the accesses ops and no other.
I2cNext(ops) == \E op \in ops, tick \in BOOLEAN, line \in Lines : I2cEdge(op, tick, line)

I2cSpec == I2cInit /\ [][I2cNext(I2cAccess)]_i2cVars

\* The step of an engine that has a command: the divider is a 16-bit counter and runs out.
I2cTick(ops) ==
  /\ Taken # "none" \/ state # "IDLE"
  /\ \E op \in ops, line \in Lines : I2cEdge(op, TRUE, line)

--------------------------------------------------------------------------------
(* Properties *)

\* While a byte goes out, SDA is driven and carries the very bit that the engine
\* counts, so that it never changes while SCL is high, whatever firmware writes to
\* TXDATA, CMD and CTRL meanwhile.
BitOnLine == state = "WRITE" => sda_drive /\ (sda_state <=> bit_index \in shift_reg)

\* When firmware gives no more bytes and commands to an enabled controller, the engine
\* comes to rest with every command served, but for a WRITE that has no byte.
CommandsServed ==
  <>[][UNCHANGED <<i2c_ctrl, i2c_tx_head>> /\ cmd_reg' \subseteq cmd_reg]_i2cVars =>
    <>[](i2c_ctrl.enable => /\ state = "IDLE" /\ cmd_reg \subseteq {"WRITE"}
                            /\ cmd_reg # {} => i2c_tx_empty)

\* A fault flag never appears without a diagnosis: at that edge FAULT_STATUS names a
\* fault whose flag is set, whichever faults and acknowledges coincide.
I2cFaultNamed == [][i2c_flags' \ i2c_flags # {} => last_fault_code' \in i2c_flags']_i2cVars

\* A byte is reported when no device can acknowledge it (docs/peripherals/i2c.md: "a
\* missing ACK raises STATUS[3]").  The code does not keep it; no run checks it (see the
\* README).
NackReported ==
  [][/\ Lines = {TRUE} /\ ~i2c_ctrl.loopback
     /\ state = "ACK" /\ state' = "IDLE" => "nack" \in i2c_flags']_i2cVars
================================================================================
