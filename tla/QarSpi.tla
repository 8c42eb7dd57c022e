--------------------------------- MODULE QarSpi --------------------------------
(***************************************************************************)
(* The SPI master, qar-core/rtl/spi.v.  An action is one clock edge: at    *)
(* most one register access of the firmware, a transfer that starts when   *)
(* the shifter is idle and a byte waits, and a transfer that ends.  The    *)
(* bits of a byte and the clock divider are left out: a transfer ends at   *)
(* some later edge (done) and yields, without loopback, any byte (miso).   *)
(* IRQ_EN is left out too: it gates nothing but the interrupt line.        *)
(* Where one edge clears and raises a flag the code's later assignment,    *)
(* the raise, wins.                                                        *)
(***************************************************************************)
EXTENDS Integers, Sequences

CONSTANTS
  SpiDepth,
  Byte,
  Cs,             \* the chip select lines
  SpiCtrlValues,     \* the values firmware writes to CTRL
  ClearMasks      \* the masks firmware writes to IRQ_STATUS

SpiFault == {"tx_ovf", "rx_ovf", "cs"}
SpiIrq == {"rx", "tx_empty", "fault"} \cup SpiFault

\* enable, loopback, and the byte count of ctrl[11:8]
SpiCtrl == [enable: BOOLEAN, loopback: BOOLEAN, count: 0 .. 15]

ASSUME SpiAssumption ==
  /\ SpiDepth \in Nat \ {0, 1}
  /\ Byte # {}
  /\ SpiCtrlValues \subseteq SpiCtrl
  /\ ClearMasks \subseteq SUBSET SpiIrq

\* The four pointers have one bit more than an index needs.
SpiSpan == 2 * SpiDepth
SpiPtr == 0 .. SpiSpan - 1
SpiRow == 0 .. SpiDepth - 1

VARIABLES
  spi_ctrl, cs_select, spi_irq,
  cs_active, cs_auto_count,
  spi_flags,          \* tx_overflow_flag, rx_overflow_flag and cs_error_flag
  last_fault,     \* last_fault_code, last_fault_byte and last_fault_cs
  spi_tx, spi_tx_head, spi_tx_tail,
  spi_rx, spi_rx_head, spi_rx_tail,
  busy,
  active_tx_byte

spiVars == <<spi_ctrl, cs_select, spi_irq, cs_active, cs_auto_count, spi_flags,
             last_fault, spi_tx, spi_tx_head, spi_tx_tail, spi_rx, spi_rx_head, spi_rx_tail,
             busy, active_tx_byte>>

SpiInit ==
  /\ spi_ctrl = [enable |-> TRUE, loopback |-> FALSE, count |-> 0]
  /\ cs_select \in {{c} : c \in Cs}
  /\ spi_irq = {}
  /\ cs_active = {} /\ cs_auto_count = 1
  /\ spi_flags = {}
  /\ last_fault = <<"none">>
  /\ active_tx_byte \in Byte      \* this and the queues have no reset
  /\ spi_tx \in [SpiRow -> Byte] /\ spi_rx \in [SpiRow -> Byte]
  /\ spi_tx_head = 0 /\ spi_tx_tail = 0 /\ spi_rx_head = 0 /\ spi_rx_tail = 0
  /\ busy = FALSE

--------------------------------------------------------------------------------
(* Wires *)

\* mutant of spi_tx_empty: off by one
spi_tx_empty_early == spi_tx_head = spi_tx_tail \/ spi_tx_head - (spi_tx_tail + 1) = 0

\* The difference is compared with a 32-bit parameter: it is computed in 32 bits
\* and never wraps with the pointers.
spi_tx_full == spi_tx_head - spi_tx_tail = SpiDepth
spi_rx_full == spi_rx_head - spi_rx_tail = SpiDepth
spi_tx_empty == spi_tx_head = spi_tx_tail
spi_rx_empty == spi_rx_head = spi_rx_tail

\* One element is left, computed in 32 bits too.
LastOf(head, tail) == head - (tail + 1) = 0

SpiStep(p) == (p + 1) % SpiSpan

\* The chip select lines that are low: ~(busy ? cs_active : 0) | 4'b1111, inverted.
CsLow == Cs \ ((Cs \ (IF busy THEN cs_active ELSE {})) \cup Cs)

--------------------------------------------------------------------------------
(* What firmware may do at one edge *)

SpiAccess ==
  [reg: {"none", "RXDATA"}]
    \cup [reg: {"CTRL"}, value: SpiCtrlValues]
    \cup [reg: {"TXDATA"}, value: Byte]
    \cup [reg: {"CS_SELECT"}, value: SUBSET Cs]
    \cup [reg: {"IRQ_STATUS"}, value: ClearMasks]

\* The events of an edge
Push(op) == op.reg = "TXDATA" /\ ~spi_tx_full
TxDrop(op) == op.reg = "TXDATA" /\ spi_tx_full
Pop(op) == op.reg = "RXDATA" /\ ~spi_rx_empty

\* mutant of Attempt: the shifter is not asked
AttemptWhileBusy == spi_ctrl.enable /\ ~spi_tx_empty

Attempt == ~busy /\ spi_ctrl.enable /\ ~spi_tx_empty

Start == Attempt /\ cs_select # {}
CsFault == Attempt /\ cs_select = {}
Finish(done) == busy /\ done
Keep(done) == Finish(done) /\ ~spi_rx_full
RxDrop(done) == Finish(done) /\ spi_rx_full

Faults(op, done) ==
  (IF TxDrop(op) THEN {"tx_ovf"} ELSE {})
    \cup (IF CsFault THEN {"cs"} ELSE {})
    \cup (IF RxDrop(done) THEN {"rx_ovf"} ELSE {})

Raised(op, done) ==
  Faults(op, done)
    \cup (IF Faults(op, done) # {} THEN {"fault"} ELSE {})
    \cup (IF Start /\ LastOf(spi_tx_head, spi_tx_tail) THEN {"tx_empty"} ELSE {})
    \cup (IF Keep(done) THEN {"rx"} ELSE {})

Cleared(op) ==
  CASE op.reg = "IRQ_STATUS" -> op.value
    [] Push(op) -> {"tx_empty"}
    [] Pop(op) /\ LastOf(spi_rx_head, spi_rx_tail) -> {"rx"}
    [] OTHER -> {}

\* Bit 2 of a write to IRQ_STATUS clears all fault spi_flags.
Forgiven(op) ==
  IF op.reg # "IRQ_STATUS" THEN {}
  ELSE IF "fault" \in op.value THEN SpiFault ELSE op.value \cap SpiFault

Received(miso) == IF spi_ctrl.loopback THEN active_tx_byte ELSE miso

--------------------------------------------------------------------------------
(* The clock edge *)

\* mutant of Registers: an acknowledge wins over what the edge raises
RegistersClearLast(op, done) ==
  /\ spi_ctrl' = IF op.reg = "CTRL" THEN op.value ELSE spi_ctrl
  /\ cs_select' = IF op.reg = "CS_SELECT" THEN op.value ELSE cs_select
  /\ spi_irq' = (spi_irq \cup Raised(op, done)) \ Cleared(op)
  /\ spi_flags' = (spi_flags \cup Faults(op, done)) \ Forgiven(op)

Registers(op, done) ==
  /\ spi_ctrl' = IF op.reg = "CTRL" THEN op.value ELSE spi_ctrl
  /\ cs_select' = IF op.reg = "CS_SELECT" THEN op.value ELSE cs_select
  /\ spi_irq' = (spi_irq \ Cleared(op)) \cup Raised(op, done)
  /\ spi_flags' = (spi_flags \ Forgiven(op)) \cup Faults(op, done)

\* mutant of FaultRecord: a transfer without a chip select leaves no record
FaultRecordWithoutCs(op, done, miso) ==
  last_fault' = IF RxDrop(done) THEN <<"rx_ovf", Received(miso), cs_active>>
                ELSE IF TxDrop(op) THEN <<"tx_ovf", op.value, cs_select>>
                ELSE last_fault

\* The last assignment of the edge wins: transfer end, start, write.
FaultRecord(op, done, miso) ==
  last_fault' = IF RxDrop(done) THEN <<"rx_ovf", Received(miso), cs_active>>
                ELSE IF CsFault THEN <<"cs", spi_tx[spi_tx_tail % SpiDepth], {}>>
                ELSE IF TxDrop(op) THEN <<"tx_ovf", op.value, cs_select>>
                ELSE last_fault

Transfer(op, done) ==
  /\ busy' = (Start \/ (busy /\ ~done))
  /\ active_tx_byte' = IF Start THEN spi_tx[spi_tx_tail % SpiDepth] ELSE active_tx_byte
  /\ cs_active' = IF Start THEN cs_select
                  ELSE IF Finish(done) /\ cs_auto_count <= 1 THEN {}
                  ELSE cs_active
  /\ cs_auto_count' = IF Finish(done) /\ cs_auto_count > 1 THEN cs_auto_count - 1
                      ELSE IF Start THEN spi_ctrl.count
                      ELSE IF op.reg = "CS_SELECT" THEN 1
                      ELSE cs_auto_count

Fifos(op, done, miso) ==
  /\ spi_tx' = IF Push(op) THEN [spi_tx EXCEPT ![spi_tx_head % SpiDepth] = op.value]
                ELSE spi_tx
  /\ spi_tx_head' = IF Push(op) THEN SpiStep(spi_tx_head) ELSE spi_tx_head
  /\ spi_tx_tail' = IF Start THEN SpiStep(spi_tx_tail) ELSE spi_tx_tail
  /\ spi_rx' = IF Keep(done)
                THEN [spi_rx EXCEPT ![spi_rx_head % SpiDepth] = Received(miso)]
                ELSE spi_rx
  /\ spi_rx_head' = IF Keep(done) THEN SpiStep(spi_rx_head) ELSE spi_rx_head
  /\ spi_rx_tail' = IF Pop(op) THEN SpiStep(spi_rx_tail) ELSE spi_rx_tail

SpiEdge(op, done, miso) ==
  /\ Registers(op, done)
  /\ FaultRecord(op, done, miso)
  /\ Transfer(op, done)
  /\ Fifos(op, done, miso)

SpiNext == \E op \in SpiAccess, done \in BOOLEAN, miso \in Byte : SpiEdge(op, done, miso)

SpiSpec == SpiInit /\ [][SpiNext]_spiVars

--------------------------------------------------------------------------------
(* Invariants *)

SpiTxEntries == (spi_tx_head - spi_tx_tail) % SpiSpan
SpiRxEntries == (spi_rx_head - spi_rx_tail) % SpiSpan

\* Every register holds a value of its kind.
SpiTypeOK ==
  /\ spi_ctrl \in SpiCtrl
  /\ cs_select \subseteq Cs /\ cs_active \subseteq Cs
  /\ spi_irq \subseteq SpiIrq
  /\ cs_auto_count \in 0 .. 15
  /\ spi_flags \subseteq SpiFault
  /\ last_fault \in {<<"none">>} \cup (SpiFault \X Byte \X SUBSET Cs)
  /\ spi_tx \in [SpiRow -> Byte] /\ spi_rx \in [SpiRow -> Byte]
  /\ {spi_tx_head, spi_tx_tail, spi_rx_head, spi_rx_tail} \subseteq SpiPtr
  /\ busy \in BOOLEAN
  /\ active_tx_byte \in Byte

\* A transfer in progress has a chip select of its own, whatever firmware writes to
\* CS_SELECT and CTRL meanwhile.
TransferSelected == busy => cs_active # {}

\* A queue holds no more than its depth.
FifosBounded == SpiTxEntries <= SpiDepth /\ SpiRxEntries <= SpiDepth

\* Four statements of docs/peripherals/spi.md that the code does not keep; no run
\* checks them (see the README).

\* The receive interrupt is pending only while a byte waits.
RxReadyMeansByte == "rx" \in spi_irq => SpiRxEntries # 0

\* The transmit-empty interrupt is pending only while no byte waits.
TxEmptyMeansEmpty == "tx_empty" \in spi_irq => SpiTxEntries = 0

\* Bit 2 of IRQ_STATUS is the OR of bits 3 to 5.
FaultBitMirrors == "fault" \in spi_irq <=> spi_irq \cap SpiFault # {}

\* The lines of the selected devices are low during a transfer.
CsAsserted == busy => CsLow = cs_active

--------------------------------------------------------------------------------
(* Action properties *)

\* A fault flag never appears without a diagnosis: at that edge FAULT_STATUS names
\* a fault whose flag is set, whichever faults and acknowledges coincide.
FaultRecorded == [][spi_flags' \ spi_flags # {} => last_fault'[1] \in spi_flags']_spiVars

\* A transfer whose byte finds no place is announced by the flag and by both
\* interrupt bits, even when firmware acknowledges them at that very edge.
DropAnnounced ==
  [][busy /\ ~busy' /\ spi_rx_head' = spi_rx_head =>
       "rx_ovf" \in spi_flags' /\ {"rx_ovf", "fault"} \subseteq spi_irq']_spiVars
================================================================================
