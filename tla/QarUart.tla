-------------------------------- MODULE QarUart --------------------------------
(***************************************************************************)
(* The UART with its LIN mode, qar-core/rtl/uart.v.  An action is one      *)
(* clock edge: at most one register access of the firmware (op), what the  *)
(* receiver sees (rx, an RxEvent), and whether the bit clock of the        *)
(* transmitter runs out (tick) and a break has lasted long enough (over).  *)
(*                                                                         *)
(* Left out: the bytes in the queues and on the wires, with parity and     *)
(* stop bits (a frame has FRAME_BITS bits and arrives whole, as a byte or  *)
(* as an error); BAUD, LIN_CTRL, LIN_TX_ID, IRQ_EN and RS485_CTRL, which   *)
(* only set periods, a byte or a level; the bits of STATUS that copy other *)
(* registers; LIN_HEADER, which is only read.                              *)
(***************************************************************************)
EXTENDS Integers

CONSTANTS
  UartDepth,      \* FIFO_DEPTH
  FRAME_BITS,     \* 10 to 12 in the code
  LinByte,        \* the bytes a header may have
  Sync,           \* 8'h55
  MaxLength       \* the longest response, 255

ASSUME UartAssumption ==
  /\ UartDepth \in Nat \ {0, 1} /\ FRAME_BITS \in Nat \ {0}
  /\ Sync \in LinByte
  /\ MaxLength \in Nat \ {0}

UartSpan == 2 * UartDepth
UartPtr == 0 .. UartSpan - 1
UartFlag == {"rx", "tx_empty", "error", "idle", "break", "header", "slave"}
Sticky == {"framing", "overrun", "parity", "idle", "break"}
UartCtrl == [enable: BOOLEAN, lin: BOOLEAN]
LinCmd == {"break", "clear", "capture", "header", "arm", "cancel"}
SlaveCtrl == [enable: BOOLEAN, id: LinByte, len: 0 .. MaxLength]

UartAccess ==
  [reg: {"none", "READ", "DATA"}]
    \cup [reg: {"CTRL"}, value: UartCtrl]
    \cup [reg: {"IRQ_STATUS"}, value: SUBSET UartFlag]
    \cup [reg: {"IDLE_CFG"}, value: BOOLEAN]
    \cup [reg: {"LIN_CMD"}, value: SUBSET LinCmd]
    \cup [reg: {"LIN_SLAVE"}, value: SlaveCtrl]

\* The level after the synchroniser; whether a low level has lasted for a break; and the
\* frame that ends at this edge, if one is being received, or the gap that has passed.
RxEvent ==
  [low: BOOLEAN, long: {FALSE}, frame: {"none", "gap", "framing", "parity"} \cup LinByte]
    \cup [low: {TRUE}, long: {TRUE}, frame: {"none", "framing", "parity"} \cup LinByte]

VARIABLES
  uart_ctrl, uart_irq,
  uart_status,               \* the sticky bits of STATUS
  idle_cfg, idle_irq_pending,
  uart_tx_head, uart_tx_tail, uart_rx_head, uart_rx_tail,
  tx_bits_remaining,
  rx_busy,
  lin_break_pending, lin_break_active,
  lin_auto_header_pending, lin_auto_state,
  lin_header_state,          \* 0 off, 1 the sync byte is due, 2 the identifier
  lin_header_valid, lin_sync_error, lin_wait_delimiter,
  lin_slave_ctrl, lin_slave_armed, lin_slave_tx_pending,
  lin_slave_bytes_remaining, lin_slave_underflow,
  response        \* history: the response due, what it sent, whether firmware cut it

txVars == <<uart_tx_head, uart_tx_tail, tx_bits_remaining>>
rxVars == <<uart_rx_head, uart_rx_tail, rx_busy, idle_cfg, idle_irq_pending>>
breakVars == <<lin_break_pending, lin_break_active, lin_auto_header_pending, lin_auto_state>>
headerVars == <<lin_header_state, lin_header_valid, lin_sync_error, lin_wait_delimiter>>
slaveVars == <<lin_slave_ctrl, lin_slave_armed, lin_slave_tx_pending,
               lin_slave_bytes_remaining, lin_slave_underflow, response>>
uartVars == <<uart_ctrl, uart_irq, uart_status, txVars, rxVars, breakVars, headerVars,
              slaveVars>>

UartInit ==
  /\ uart_ctrl = [enable |-> TRUE, lin |-> FALSE]
  /\ uart_irq = {} /\ uart_status = {}
  /\ idle_cfg = FALSE /\ idle_irq_pending = FALSE
  /\ uart_tx_head = 0 /\ uart_tx_tail = 0 /\ uart_rx_head = 0 /\ uart_rx_tail = 0
  /\ tx_bits_remaining = 0 /\ rx_busy = FALSE
  /\ lin_break_pending = FALSE /\ lin_break_active = FALSE
  /\ lin_auto_header_pending = FALSE /\ lin_auto_state = 0
  /\ lin_header_state = 0 /\ lin_header_valid = FALSE
  /\ lin_sync_error = FALSE /\ lin_wait_delimiter = FALSE
  /\ lin_slave_ctrl \in [enable: {FALSE}, id: LinByte \ {Sync}, len: {0}]
  /\ lin_slave_armed = FALSE /\ lin_slave_tx_pending = FALSE
  /\ lin_slave_bytes_remaining = 0 /\ lin_slave_underflow = FALSE
  /\ response = [len |-> 0, sent |-> 0, cut |-> FALSE]

--------------------------------------------------------------------------------
(* Wires *)

uart_tx_full == uart_tx_head - uart_tx_tail = UartDepth
uart_tx_empty == uart_tx_head = uart_tx_tail
uart_rx_full == uart_rx_head - uart_rx_tail = UartDepth
uart_rx_empty == uart_rx_head = uart_rx_tail

UartStep(p) == (p + 1) % UartSpan

lin_slave_gate_block ==
  lin_slave_ctrl.enable /\ lin_slave_armed /\ ~lin_slave_tx_pending

--------------------------------------------------------------------------------
(* The events of an edge: firmware *)

UartPush(op) == op.reg = "DATA" /\ ~uart_tx_full
UartPop(op) == op.reg = "READ" /\ ~uart_rx_empty
Asks(op, cmd) == op.reg = "LIN_CMD" /\ cmd \in op.value
Clears(op, flag) == op.reg = "IRQ_STATUS" /\ flag \in op.value
SlaveOff(op) == op.reg = "LIN_SLAVE" /\ ~op.value.enable

(* the transmitter *)

BreakStarts ==
  /\ uart_ctrl.lin /\ uart_ctrl.enable
  /\ lin_break_pending /\ ~lin_break_active
  /\ tx_bits_remaining = 0 /\ (uart_tx_empty \/ lin_slave_gate_block)
BreakEnds(tick, over) == uart_ctrl.enable /\ lin_break_active /\ tick /\ over

TxIdle == uart_ctrl.enable /\ ~lin_break_active /\ tx_bits_remaining = 0
AutoFrame == TxIdle /\ lin_auto_state # 0
Underflow == TxIdle /\ lin_auto_state = 0 /\ lin_slave_tx_pending /\ uart_tx_empty
Take == TxIdle /\ lin_auto_state = 0 /\ ~uart_tx_empty /\ ~lin_slave_gate_block

\* mutant of TxShift: off by one
TxShiftAboveOne(tick) ==
  uart_ctrl.enable /\ ~lin_break_active /\ tx_bits_remaining > 1 /\ tick

TxShift(tick) == uart_ctrl.enable /\ ~lin_break_active /\ tx_bits_remaining # 0 /\ tick
TxDrained(tick) == TxShift(tick) /\ tx_bits_remaining = 1 /\ uart_tx_empty

\* mutant of LastOfResponse: off by one
LastOfResponseAtZero == lin_slave_tx_pending /\ lin_slave_bytes_remaining = 0

LastOfResponse == lin_slave_tx_pending /\ lin_slave_bytes_remaining <= 1

(* the receiver *)

RxIdle == uart_ctrl.enable /\ ~rx_busy
AwaitsDelimiter == RxIdle /\ uart_ctrl.lin /\ lin_wait_delimiter
RxStart(rx) == RxIdle /\ ~AwaitsDelimiter /\ rx.low
IdleGap(rx) ==
  /\ RxIdle /\ ~AwaitsDelimiter /\ ~rx.low
  /\ idle_cfg /\ ~idle_irq_pending /\ rx.frame = "gap"

RxEnds(rx) == uart_ctrl.enable /\ rx_busy /\ rx.frame \notin {"none", "gap"}
RxError(rx) == RxEnds(rx) /\ rx.frame \in {"framing", "parity"}
InHeader == uart_ctrl.lin /\ lin_header_state # 0
SyncByte(rx) == RxEnds(rx) /\ ~RxError(rx) /\ InHeader /\ lin_header_state = 1
Identifier(rx) == RxEnds(rx) /\ ~RxError(rx) /\ InHeader /\ lin_header_state # 1
Matches(rx) ==
  /\ Identifier(rx)
  /\ lin_slave_ctrl.enable /\ lin_slave_armed
  /\ lin_slave_ctrl.len # 0 /\ rx.frame = lin_slave_ctrl.id
UartRxKeep(rx) == RxEnds(rx) /\ ~RxError(rx) /\ ~InHeader /\ ~uart_rx_full
UartRxDrop(rx) == RxEnds(rx) /\ ~RxError(rx) /\ ~InHeader /\ uart_rx_full
BreakSeen(rx) == uart_ctrl.lin /\ uart_ctrl.enable /\ rx.long

--------------------------------------------------------------------------------
(* The clock edge: where one register is assigned more than once, the write comes *)
(* first, then the transmitter, the receiver and the break detector.              *)

UartIrq(op, rx, tick, over) ==
  LET cleared ==
        (IF op.reg = "IRQ_STATUS" THEN op.value ELSE {})
          \cup {f \in {"tx_empty"} : UartPush(op)}
          \cup {f \in {"rx"} : \/ Asks(op, "capture")
                               \/ UartPop(op) /\ uart_rx_head - (uart_rx_tail + 1) = 0}
          \cup {f \in {"break"} : Asks(op, "clear")}
      asked == {f \in {"break"} : Asks(op, "break") /\ ~Asks(op, "clear")}
      raised ==
        {f \in {"break"} : \/ BreakEnds(tick, over)
                           \/ BreakSeen(rx) /\ "break" \notin uart_status}
          \cup {f \in {"tx_empty"} : TxDrained(tick)}
          \cup {f \in {"slave"} : Underflow}
          \cup {f \in {"error"} : RxError(rx) \/ UartRxDrop(rx)}
          \cup {f \in {"idle"} : IdleGap(rx)}
          \cup {f \in {"header"} : Identifier(rx)}
          \cup {f \in {"rx"} : UartRxKeep(rx)}
  IN uart_irq' = ((uart_irq \ cleared) \cup asked \cup raised)
                   \ {f \in {"rx"} : BreakSeen(rx)}

UartStatus(op, rx, tick, over) ==
  LET cleared ==
        {s \in {"framing", "overrun", "parity"} : Clears(op, "error")}
          \cup {s \in {"idle"} : Clears(op, "idle")}
          \cup {s \in {"break"} : Asks(op, "clear")}
      asked == {s \in {"break"} : Asks(op, "break") /\ ~Asks(op, "clear")}
      raised ==
        {s \in {"break"} : BreakEnds(tick, over) \/ BreakSeen(rx)}
          \cup {s \in {"framing", "parity"} : RxEnds(rx) /\ s = rx.frame}
          \cup {s \in {"overrun"} : UartRxDrop(rx)}
          \cup {s \in {"idle"} : IdleGap(rx)}
  IN uart_status' = (uart_status \ cleared) \cup asked \cup raised

Transmitter(op, tick, over) ==
  /\ uart_tx_head' = IF UartPush(op) THEN UartStep(uart_tx_head) ELSE uart_tx_head
  /\ uart_tx_tail' = IF Take THEN UartStep(uart_tx_tail) ELSE uart_tx_tail
  /\ tx_bits_remaining' =
       IF ~uart_ctrl.enable \/ lin_break_active THEN 0
       ELSE IF AutoFrame \/ Take THEN FRAME_BITS
       ELSE IF TxShift(tick) THEN tx_bits_remaining - 1
       ELSE tx_bits_remaining

\* A request that meets the end of a break is lost; a header that is still wanted then
\* uses this break.
Break(op, tick, over) ==
  LET ends == BreakEnds(tick, over) IN
  /\ lin_break_active' = (BreakStarts \/ (lin_break_active /\ ~ends))
  /\ lin_break_pending' =
       (~BreakStarts /\ ~ends
          /\ (lin_break_pending \/ Asks(op, "break") \/ Asks(op, "header")))
  /\ lin_auto_header_pending' =
       IF ends /\ lin_auto_header_pending THEN FALSE
       ELSE lin_auto_header_pending \/ Asks(op, "header")
  /\ lin_auto_state' = IF ends /\ lin_auto_header_pending THEN 1
                       ELSE IF AutoFrame THEN (IF lin_auto_state = 1 THEN 2 ELSE 0)
                       ELSE lin_auto_state

Receiver(op, rx) ==
  /\ uart_rx_head' = IF BreakSeen(rx) THEN uart_rx_tail
                     ELSE IF UartRxKeep(rx) THEN UartStep(uart_rx_head)
                     ELSE IF Asks(op, "capture") THEN uart_rx_tail
                     ELSE uart_rx_head
  /\ uart_rx_tail' = IF UartPop(op) THEN UartStep(uart_rx_tail) ELSE uart_rx_tail
  /\ rx_busy' = (/\ uart_ctrl.enable /\ ~BreakSeen(rx)
                 /\ RxStart(rx) \/ (rx_busy /\ ~RxEnds(rx)))
  /\ idle_cfg' = IF op.reg = "IDLE_CFG" THEN op.value ELSE idle_cfg
  /\ idle_irq_pending' =
       (\/ IdleGap(rx)
        \/ /\ idle_irq_pending /\ uart_ctrl.enable
           /\ ~Clears(op, "idle") /\ ~AwaitsDelimiter /\ ~RxStart(rx))

Header(op, rx) ==
  LET begins == Asks(op, "capture") \/ BreakSeen(rx) IN
  /\ lin_header_state' = IF BreakSeen(rx) THEN 1
                         ELSE IF SyncByte(rx) THEN 2
                         ELSE IF Identifier(rx) THEN 0
                         ELSE IF Asks(op, "capture") THEN 1
                         ELSE lin_header_state
  /\ lin_header_valid' = (~BreakSeen(rx) /\ (Identifier(rx) \/ (lin_header_valid /\ ~begins)))
  /\ lin_sync_error' = (/\ ~BreakSeen(rx)
                        /\ IF SyncByte(rx) THEN rx.frame # Sync
                           ELSE lin_sync_error /\ ~begins)
  /\ lin_wait_delimiter' =
       (BreakSeen(rx) \/ (~(AwaitsDelimiter /\ ~rx.low)
                            /\ (lin_wait_delimiter \/ Asks(op, "capture"))))

Slave(op, rx) ==
  LET cancels == Asks(op, "cancel") \/ SlaveOff(op)
      arms == Asks(op, "arm") /\ ~cancels
                /\ lin_slave_ctrl.enable /\ lin_slave_ctrl.len # 0
      stops == cancels \/ Asks(op, "arm")
  IN
  /\ lin_slave_ctrl' = IF op.reg = "LIN_SLAVE" THEN op.value ELSE lin_slave_ctrl
  /\ lin_slave_armed' = (~Matches(rx) /\ (arms \/ (lin_slave_armed /\ ~stops)))
  /\ lin_slave_tx_pending' =
       (\/ Matches(rx)
        \/ /\ lin_slave_tx_pending /\ ~stops
           /\ ~Underflow /\ ~(Take /\ LastOfResponse))
  /\ lin_slave_bytes_remaining' =
       IF Matches(rx) THEN lin_slave_ctrl.len
       ELSE IF Take /\ lin_slave_tx_pending /\ ~LastOfResponse
            THEN lin_slave_bytes_remaining - 1
            ELSE lin_slave_bytes_remaining
  /\ lin_slave_underflow' =
       (/\ ~Matches(rx)
        /\ Underflow \/ (lin_slave_underflow /\ ~stops /\ ~Clears(op, "slave")))
  /\ response' =
       IF Matches(rx) THEN [len |-> lin_slave_ctrl.len, sent |-> 0, cut |-> FALSE]
       ELSE IF lin_slave_tx_pending
            THEN [response EXCEPT !.sent = IF Take THEN @ + 1 ELSE @, !.cut = stops]
            ELSE response

UartEdge(op, rx, tick, over) ==
  /\ uart_ctrl' = IF op.reg = "CTRL" THEN op.value ELSE uart_ctrl
  /\ Transmitter(op, tick, over)
  /\ Break(op, tick, over)
  /\ Receiver(op, rx)
  /\ Header(op, rx)
  /\ Slave(op, rx)
  /\ UartIrq(op, rx, tick, over)
  /\ UartStatus(op, rx, tick, over)

\* A frame ends only while one is received, a gap passes only while none is; the bit
\* clock runs only while something is sent.
Possible(rxs) == {rx \in rxs : rx.frame = "none" \/ (rx.frame = "gap") # rx_busy}
Sending == tx_bits_remaining # 0 \/ lin_break_active

\* Firmware that makes the accesses ops, on a line that shows the events rxs.
UartNext(ops, rxs) ==
  \E op \in ops, rx \in Possible(rxs), tick \in {FALSE, Sending}, over \in {FALSE, lin_break_active} :
    UartEdge(op, rx, tick, over)

UartSpec == UartInit /\ [][UartNext(UartAccess, RxEvent)]_uartVars

\* The step of a transmitter that has one to make: the bit clock runs and a break ends.
UartTick(ops, rxs) ==
  /\ BreakStarts \/ AutoFrame \/ Underflow \/ Take \/ (uart_ctrl.enable /\ Sending)
  /\ \E op \in ops, rx \in Possible(rxs) : UartEdge(op, rx, TRUE, lin_break_active)

--------------------------------------------------------------------------------
(* Properties *)

\* A response ends with all its bytes sent, with the underflow flag, or because firmware
\* cancelled, re-armed or disabled it: never early, and never late.
ResponseAccounted ==
  [][/\ lin_slave_tx_pending /\ ~lin_slave_tx_pending' =>
          response'.cut \/ lin_slave_underflow' \/ response'.sent = response.len
     /\ lin_slave_tx_pending' => response'.sent < response'.len]_uartVars

\* Firmware gives the transmitter nothing more to do; it may still read and acknowledge.
NothingMore ==
  /\ UNCHANGED <<uart_ctrl, uart_tx_head>>
  /\ lin_break_pending' => lin_break_pending
  /\ lin_auto_header_pending' => lin_auto_header_pending
  /\ lin_slave_armed' => lin_slave_armed

\* An enabled transmitter that gets nothing more to do sends what it has: the queue unless
\* the gate is shut, a break that was asked for in LIN mode, a header, a response.
TransmitterRests ==
  <>[][NothingMore]_uartVars =>
    <>[](uart_ctrl.enable /\ ~lin_slave_gate_block =>
           /\ uart_tx_empty /\ tx_bits_remaining = 0
           /\ ~lin_break_active /\ lin_auto_state = 0 /\ ~lin_slave_tx_pending
           /\ uart_ctrl.lin => ~lin_break_pending)

\* Two statements of docs/peripherals/uart.md that the code does not keep; no run checks
\* them (see the README).

\* A break that is detected leaves an empty receive queue.
FlushEmpties ==
  [][lin_header_state # 1 /\ lin_header_state' = 1 => uart_rx_head' = uart_rx_tail']_uartVars

\* A header that was asked for in LIN mode is sent, without another request.
HeaderServed ==
  <>[][NothingMore]_uartVars =>
    <>[](uart_ctrl.enable /\ uart_ctrl.lin /\ uart_tx_empty => ~lin_auto_header_pending)
================================================================================
