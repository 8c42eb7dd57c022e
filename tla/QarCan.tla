--------------------------------- MODULE QarCan --------------------------------
(***************************************************************************)
(* The CAN controller, qar-core/rtl/can.v, as its driver sees it: one      *)
(* action per register write (one write per clock edge; reads change       *)
(* nothing).  Identifiers and masks are sets of bits, the DLC and the two  *)
(* payload words are one Body, registers of flags are sets of flags.       *)
(***************************************************************************)
EXTENDS Integers, Sequences

CONSTANTS
  IdBit,          \* the bits of an identifier
  Body,           \* DLC and payload of a frame
  CtrlValues,     \* the values firmware writes to CTRL
  IrqEnValues,    \* the values firmware writes to IRQ_EN
  ErrSpan         \* err_counter counts modulo ErrSpan (2^32 in the code)

Id == SUBSET IdBit
CtrlFlag == {"enable", "loopback", "quiet", "bypass"}
StatusFlag == {"pending", "idle", "overflow"}
IrqFlag == {"rx", "tx", "ovf"}
Frame == [id: Id, body: Body]

ASSUME CanAssumption ==
  /\ CtrlValues \subseteq SUBSET CtrlFlag
  /\ IrqEnValues \subseteq SUBSET IrqFlag
  /\ ErrSpan \in Nat \ {0}
  /\ Body # {}

\* reg [31:0] rx_fifo_* [0:3] and reg [2:0] rx_head, rx_tail
FIFO_DEPTH == 4
PTR_SPAN == 8

VARIABLES
  ctrl,
  status,
  err_counter,
  irq_en,
  irq_status,
  filter_id,
  filter_mask,
  tx_id,
  tx_body,        \* tx_dlc, tx_data0 and tx_data1
  rx_fifo,        \* rx_fifo_id, rx_fifo_dlc, rx_fifo_data0 and rx_fifo_data1
  rx_head,
  rx_tail

fifoVars == <<rx_fifo, rx_head, rx_tail>>
mailboxVars == <<tx_id, tx_body>>
filterVars == <<filter_id, filter_mask>>
flagVars == <<status, irq_status, err_counter>>
canVars == <<ctrl, irq_en, flagVars, filterVars, mailboxVars, fifoVars>>

RxEntries == (rx_head - rx_tail) % PTR_SPAN

Irq == irq_en \cap irq_status # {}

CanInit ==
  /\ ctrl = {"enable"}
  /\ status = {"idle"}
  /\ err_counter = 0
  /\ irq_en = {}
  /\ irq_status = {}
  /\ filter_id = {} /\ filter_mask = {}
  /\ tx_id = {} /\ tx_body \in Body
  /\ rx_fifo \in [0 .. FIFO_DEPTH - 1 -> Frame]     \* no reset in the code
  /\ rx_head = 0 /\ rx_tail = 0

--------------------------------------------------------------------------------
SetCtrl(value) ==
  /\ ctrl' = value
  /\ UNCHANGED <<irq_en, flagVars, filterVars, mailboxVars, fifoVars>>

WriteCtrl == \E value \in CtrlValues : SetCtrl(value)

WriteErrCounter ==
  /\ err_counter' \in 0 .. ErrSpan - 1
  /\ UNCHANGED <<ctrl, irq_en, status, irq_status, filterVars, mailboxVars, fifoVars>>

SetIrqEn(value) ==
  /\ irq_en' = value
  /\ UNCHANGED <<ctrl, flagVars, filterVars, mailboxVars, fifoVars>>

WriteIrqEn == \E value \in IrqEnValues : SetIrqEn(value)

\* mutant of Acknowledge: the rx bit clears the overflow status as well
AcknowledgeClearsOverflow(ones) ==
  /\ irq_status' = irq_status \ ones
  /\ status' = IF "rx" \in ones THEN status \ {"pending", "overflow"} ELSE status
  /\ UNCHANGED <<ctrl, irq_en, err_counter, filterVars, mailboxVars, fifoVars>>

\* Write one to clear; clearing rx also clears the pending status.
Acknowledge(ones) ==
  /\ irq_status' = irq_status \ ones
  /\ status' = (IF "rx" \in ones THEN status \ {"pending"} ELSE status)
               \cup (IF "tx" \in ones THEN {"idle"} ELSE {})
  /\ UNCHANGED <<ctrl, irq_en, err_counter, filterVars, mailboxVars, fifoVars>>

WriteIrqStatus == \E ones \in SUBSET IrqFlag : Acknowledge(ones)

SetFilterId(bits) ==
  /\ filter_id' = bits
  /\ UNCHANGED <<ctrl, irq_en, flagVars, filter_mask, mailboxVars, fifoVars>>

SetFilterMask(bits) ==
  /\ filter_mask' = bits
  /\ UNCHANGED <<ctrl, irq_en, flagVars, filter_id, mailboxVars, fifoVars>>

WriteFilter == \E bits \in Id : SetFilterId(bits) \/ SetFilterMask(bits)

SetMailbox(id, body) ==
  /\ tx_id' = id /\ tx_body' = body
  /\ UNCHANGED <<ctrl, irq_en, flagVars, filterVars, fifoVars>>

WriteMailbox ==
  \/ \E id \in Id : SetMailbox(id, tx_body)
  \/ \E body \in Body : SetMailbox(tx_id, body)

Accepted ==
  /\ "loopback" \in ctrl /\ "quiet" \notin ctrl
  /\ "bypass" \in ctrl \/ tx_id \cap filter_mask = filter_id \cap filter_mask

\* mutant of HasRoom: off by one
HasRoomForOneMore == RxEntries <= FIFO_DEPTH

HasRoom == RxEntries < FIFO_DEPTH

\* A send request: the frame is looped back into the receive queue, or dropped
\* and counted when the queue is full.
TxCmd ==
  /\ "enable" \in ctrl
  /\ IF ~Accepted
     THEN /\ status' = status \cup {"idle"}
          /\ irq_status' = irq_status \cup {"tx"}
          /\ UNCHANGED <<err_counter, fifoVars>>
     ELSE IF HasRoom
     THEN /\ rx_fifo' = [rx_fifo EXCEPT ![rx_head % FIFO_DEPTH] =
                           [id |-> tx_id, body |-> tx_body]]
          /\ rx_head' = (rx_head + 1) % PTR_SPAN
          /\ status' = status \cup {"idle", "pending"}
          /\ irq_status' = irq_status \cup {"tx", "rx"}
          /\ UNCHANGED <<err_counter, rx_tail>>
     ELSE /\ err_counter' = (err_counter + 1) % ErrSpan
          /\ status' = status \cup {"idle", "overflow"}
          /\ irq_status' = irq_status \cup {"tx", "ovf"}
          /\ UNCHANGED fifoVars
  /\ UNCHANGED <<ctrl, irq_en, filterVars, mailboxVars>>

\* mutant of NextTail: a flush that resets one pointer alone
NextTailToZero(pop, flush) ==
  IF flush THEN 0
  ELSE IF pop /\ RxEntries # 0 THEN (rx_tail + 1) % PTR_SPAN ELSE rx_tail

NextTail(pop, flush) ==
  IF flush THEN rx_head
  ELSE IF pop /\ RxEntries # 0 THEN (rx_tail + 1) % PTR_SPAN
  ELSE rx_tail

\* mutant of Drained: the pop of the last frame is forgotten
DrainedByFlush(pop, flush) == flush

\* The queue is empty after the write.
Drained(pop, flush) == flush \/ (pop /\ RxEntries = 1)

\* RX_FIFO_CTRL: flush wins over pop, the overflow flag is cleared besides.
FifoControl(pop, flush, clear) ==
  /\ rx_tail' = NextTail(pop, flush)
  /\ status' = status
       \ ((IF Drained(pop, flush) THEN {"pending"} ELSE {})
          \cup (IF clear THEN {"overflow"} ELSE {}))
  /\ irq_status' = IF clear THEN irq_status \ {"ovf"} ELSE irq_status
  /\ UNCHANGED <<ctrl, irq_en, err_counter, filterVars, mailboxVars, rx_fifo, rx_head>>

WriteFifoCtrl == \E pop, flush, clear \in BOOLEAN : FifoControl(pop, flush, clear)

CanNext ==
  \/ WriteCtrl \/ WriteErrCounter \/ WriteIrqEn \/ WriteIrqStatus
  \/ WriteFilter \/ WriteMailbox \/ TxCmd \/ WriteFifoCtrl

CanSpec == CanInit /\ [][CanNext]_canVars

--------------------------------------------------------------------------------
(* Invariants *)

\* Every register holds a value of its kind.
CanTypeOK ==
  /\ ctrl \subseteq CtrlFlag
  /\ status \subseteq StatusFlag
  /\ err_counter \in 0 .. ErrSpan - 1
  /\ irq_en \subseteq IrqFlag
  /\ irq_status \subseteq IrqFlag
  /\ filter_id \in Id /\ filter_mask \in Id
  /\ tx_id \in Id /\ tx_body \in Body
  /\ rx_fifo \in [0 .. FIFO_DEPTH - 1 -> Frame]
  /\ rx_head \in 0 .. PTR_SPAN - 1 /\ rx_tail \in 0 .. PTR_SPAN - 1

\* The pointers never run further apart than the queue is deep, so no frame that
\* waits is overwritten.
FifoBounded == RxEntries <= FIFO_DEPTH

\* STATUS never announces a frame that is not there.
PendingSound == "pending" \in status => RxEntries # 0

\* An overflow interrupt that waits still has its flag in STATUS: a handler that
\* reads STATUS finds the cause.
OverflowExplained == "ovf" \in irq_status => "overflow" \in status

\* Two statements of docs/peripherals/can.md that the code does not keep; no run
\* checks them (see the README).

\* STATUS bit 0 says that the queue is not empty, as its documentation has it.
PendingExact == "pending" \in status <=> RxEntries # 0

\* The bits of a read of RX_FIFO_CTRL: the count in 0 to 2, status[2] in bit 4.
FifoCtrlBits ==
  {i \in 0 .. 2 : (RxEntries \div 2^i) % 2 = 1}
    \cup (IF "overflow" \in status THEN {4} ELSE {})

\* Bit 3 of RX_FIFO_CTRL is the overflow flag, as its documentation has it.
OverflowInBit3 == 3 \in FifoCtrlBits <=> "overflow" \in status

--------------------------------------------------------------------------------
(* Properties *)

Waiting == [i \in 1 .. RxEntries |-> rx_fifo[(rx_tail + i - 1) % FIFO_DEPTH]]

Queue == INSTANCE FrameQueue
  WITH queue <- Waiting, overflow <- "overflow" \in status, Capacity <- FIFO_DEPTH

\* The two pointers and the four rows are the queue FrameQueue describes: order of
\* arrival kept, a frame dropped only when four wait, and the drop remembered.
ImplementsQueue == Queue!Spec
================================================================================
