----------------------------- MODULE QarCan_proofs -----------------------------
(***************************************************************************)
(* Proofs about the CAN controller: types, and that pointers, flags and    *)
(* interrupt bits agree for every set of frames, filters and control words.*)
(***************************************************************************)
EXTENDS QarCan, SequenceTheorems, TLAPS

\* The registers keep their types.
THEOREM CanTypeCorrect == CanSpec => []CanTypeOK
<1>1. CanInit => CanTypeOK
  BY CanAssumption
  DEF CanInit, CanTypeOK, Id, Frame, CtrlFlag, StatusFlag, IrqFlag, FIFO_DEPTH, PTR_SPAN
<1>2. CanTypeOK /\ [CanNext]_canVars => CanTypeOK'
  <2> SUFFICES ASSUME CanTypeOK, [CanNext]_canVars PROVE CanTypeOK'
    OBVIOUS
  <2> USE DEF CanTypeOK, fifoVars, mailboxVars, filterVars, flagVars
  <2>1. CASE WriteCtrl
    BY <2>1, CanAssumption DEF WriteCtrl, SetCtrl
  <2>2. CASE WriteErrCounter
    BY <2>2 DEF WriteErrCounter
  <2>3. CASE WriteIrqEn
    BY <2>3, CanAssumption DEF WriteIrqEn, SetIrqEn
  <2>4. CASE WriteIrqStatus
    BY <2>4 DEF WriteIrqStatus, Acknowledge, StatusFlag
  <2>5. CASE WriteFilter
    BY <2>5 DEF WriteFilter, SetFilterId, SetFilterMask
  <2>6. CASE WriteMailbox
    BY <2>6 DEF WriteMailbox, SetMailbox
  <2>7. CASE TxCmd
    <3>1. ASSUME rx_head' = (rx_head + 1) % PTR_SPAN,
                 rx_fifo' = [rx_fifo EXCEPT ![rx_head % FIFO_DEPTH] =
                               [id |-> tx_id, body |-> tx_body]]
          PROVE  rx_head' \in 0 .. PTR_SPAN - 1 /\ rx_fifo' \in [0 .. FIFO_DEPTH - 1 -> Frame]
      BY <3>1 DEF FIFO_DEPTH, PTR_SPAN, Frame
    <3>2. (err_counter + 1) % ErrSpan \in 0 .. ErrSpan - 1
      BY CanAssumption
    <3>3. /\ status' \subseteq StatusFlag
          /\ irq_status' \subseteq IrqFlag
          /\ err_counter' \in 0 .. ErrSpan - 1
      BY <2>7, <3>2 DEF TxCmd, HasRoom, StatusFlag, IrqFlag
    <3>4. /\ rx_fifo' \in [0 .. FIFO_DEPTH - 1 -> Frame]
          /\ rx_head' \in 0 .. PTR_SPAN - 1
          /\ rx_tail' \in 0 .. PTR_SPAN - 1
      BY <2>7, <3>1 DEF TxCmd, HasRoom
    <3> QED
      BY <2>7, <3>3, <3>4 DEF TxCmd, HasRoom
  <2>8. CASE WriteFifoCtrl
    <3>1. (rx_tail + 1) % PTR_SPAN \in 0 .. PTR_SPAN - 1
      BY DEF PTR_SPAN
    <3> QED
      BY <2>8, <3>1 DEF WriteFifoCtrl, FifoControl, NextTail, Drained
  <2>9. CASE UNCHANGED canVars
    BY <2>9 DEF canVars
  <2> QED
    BY <2>1, <2>2, <2>3, <2>4, <2>5, <2>6, <2>7, <2>8, <2>9 DEF CanNext
<1> QED
  BY <1>1, <1>2, PTL DEF CanSpec

\* What the pointers become in a push and in a pop, modulo their width.
LEMMA PushCount ==
  ASSUME NEW h \in 0 .. PTR_SPAN - 1, NEW t \in 0 .. PTR_SPAN - 1,
         (h - t) % PTR_SPAN < FIFO_DEPTH
  PROVE  (((h + 1) % PTR_SPAN) - t) % PTR_SPAN = ((h - t) % PTR_SPAN) + 1
  BY DEF PTR_SPAN, FIFO_DEPTH

LEMMA PopCount ==
  ASSUME NEW h \in 0 .. PTR_SPAN - 1, NEW t \in 0 .. PTR_SPAN - 1,
         (h - t) % PTR_SPAN # 0
  PROVE  (h - ((t + 1) % PTR_SPAN)) % PTR_SPAN = ((h - t) % PTR_SPAN) - 1
  BY DEF PTR_SPAN

LEMMA PopEntries ==
  ASSUME CanTypeOK, RxEntries # 0,
         rx_head' = rx_head, rx_tail' = (rx_tail + 1) % PTR_SPAN
  PROVE  RxEntries' = RxEntries - 1
<1>1. (rx_head - ((rx_tail + 1) % PTR_SPAN)) % PTR_SPAN = RxEntries - 1
  BY PopCount DEF CanTypeOK, RxEntries
<1> QED
  BY <1>1 DEF RxEntries, CanTypeOK, PTR_SPAN

LEMMA EntryRange ==
  ASSUME NEW h \in 0 .. PTR_SPAN - 1, NEW t \in 0 .. PTR_SPAN - 1
  PROVE  /\ (h - t) % PTR_SPAN \in 0 .. PTR_SPAN - 1
         /\ (h - h) % PTR_SPAN = 0
  BY DEF PTR_SPAN

\* The queue never holds more than four frames, STATUS announces no frame that is
\* not there, and an overflow interrupt always finds its flag.
THEOREM CanFlagsAgree == CanSpec => [](FifoBounded /\ PendingSound /\ OverflowExplained)
<1> DEFINE Flags == FifoBounded /\ PendingSound /\ OverflowExplained
<1>1. CanInit => Flags
  BY DEF CanInit, Flags, FifoBounded, PendingSound, OverflowExplained, RxEntries,
         PTR_SPAN, FIFO_DEPTH
<1>2. CanTypeOK /\ Flags /\ [CanNext]_canVars => Flags'
  <2> SUFFICES ASSUME CanTypeOK, Flags, [CanNext]_canVars PROVE Flags'
    OBVIOUS
  <2> USE DEF Flags, FifoBounded, PendingSound, OverflowExplained, RxEntries,
              fifoVars, mailboxVars, filterVars, flagVars
  <2> rx_head \in 0 .. PTR_SPAN - 1 /\ rx_tail \in 0 .. PTR_SPAN - 1
    BY DEF CanTypeOK
  <2>1. CASE WriteCtrl \/ WriteErrCounter \/ WriteIrqEn \/ WriteFilter \/ WriteMailbox
    BY <2>1 DEF WriteCtrl, SetCtrl, WriteErrCounter, WriteIrqEn, SetIrqEn, WriteFilter,
      SetFilterId, SetFilterMask, WriteMailbox, SetMailbox
  <2>2. CASE WriteIrqStatus
    BY <2>2 DEF WriteIrqStatus, Acknowledge
  <2>3. CASE TxCmd
    <3>1. CASE ~Accepted
      BY <2>3, <3>1 DEF TxCmd, HasRoom
    <3>2. CASE Accepted /\ RxEntries < FIFO_DEPTH
      <4>1. RxEntries' = RxEntries + 1
        BY <2>3, <3>2, PushCount DEF TxCmd, HasRoom
      <4>2. RxEntries \in 0 .. PTR_SPAN - 1
        BY EntryRange
      <4> QED
        BY <2>3, <3>2, <4>1, <4>2 DEF TxCmd, HasRoom, FIFO_DEPTH, PTR_SPAN
    <3>3. CASE Accepted /\ ~(RxEntries < FIFO_DEPTH)
      <4>1. RxEntries \in 0 .. PTR_SPAN - 1
        BY EntryRange
      <4> QED
        BY <2>3, <3>3, <4>1 DEF TxCmd, HasRoom, FIFO_DEPTH, PTR_SPAN
    <3> QED
      BY <3>1, <3>2, <3>3
  <2>4. CASE WriteFifoCtrl
    <3>0. PICK pop, flush, clear \in BOOLEAN :
            /\ rx_tail' = IF flush THEN rx_head
                          ELSE IF pop /\ RxEntries # 0 THEN (rx_tail + 1) % PTR_SPAN
                          ELSE rx_tail
            /\ status' = status
                 \ ((IF flush \/ (pop /\ RxEntries = 1) THEN {"pending"} ELSE {})
                    \cup (IF clear THEN {"overflow"} ELSE {}))
            /\ irq_status' = IF clear THEN irq_status \ {"ovf"} ELSE irq_status
            /\ rx_head' = rx_head
      BY <2>4 DEF WriteFifoCtrl, FifoControl, NextTail, Drained
    <3>1. OverflowExplained'
      BY <3>0
    <3>2. CASE flush
      BY <3>0, <3>1, <3>2, EntryRange DEF FIFO_DEPTH
    <3>3. CASE ~flush /\ pop /\ RxEntries # 0
      <4>0. rx_tail' = (rx_tail + 1) % PTR_SPAN /\ rx_head' = rx_head
        BY <3>0, <3>3
      <4>1. RxEntries' = RxEntries - 1
        BY <3>3, <4>0, PopEntries DEF CanTypeOK
      <4>2. RxEntries \in 0 .. PTR_SPAN - 1
        BY EntryRange
      <4>3. FifoBounded'
        BY <4>1, <4>2 DEF FIFO_DEPTH, PTR_SPAN
      <4>4. PendingSound'
        BY <3>0, <3>3, <4>1, <4>2 DEF PTR_SPAN
      <4> QED
        BY <3>1, <4>3, <4>4
    <3>4. CASE ~flush /\ ~(pop /\ RxEntries # 0)
      BY <3>0, <3>1, <3>4
    <3> QED
      BY <3>2, <3>3, <3>4
  <2>5. CASE UNCHANGED canVars
    BY <2>5 DEF canVars
  <2> QED
    BY <2>1, <2>2, <2>3, <2>4, <2>5 DEF CanNext
<1> QED
  BY <1>1, <1>2, CanTypeCorrect, PTL DEF CanSpec

--------------------------------------------------------------------------------
(* The refinement *)

\* The row a push writes is the one behind the rows that wait, and none of them.
LEMMA PushRow ==
  ASSUME NEW h \in 0 .. PTR_SPAN - 1, NEW t \in 0 .. PTR_SPAN - 1,
         NEW n \in 0 .. FIFO_DEPTH - 1, n = (h - t) % PTR_SPAN
  PROVE  /\ (t + (n + 1) - 1) % FIFO_DEPTH = h % FIFO_DEPTH
         /\ \A i \in 1 .. n : (t + i - 1) % FIFO_DEPTH # h % FIFO_DEPTH
  BY DEF PTR_SPAN, FIFO_DEPTH

\* After a pop the rows that wait are the same ones without the first.
LEMMA PopRow ==
  ASSUME NEW t \in 0 .. PTR_SPAN - 1, NEW i \in 1 .. PTR_SPAN
  PROVE  (((t + 1) % PTR_SPAN) + i - 1) % FIFO_DEPTH = (t + (i + 1) - 1) % FIFO_DEPTH
  BY DEF PTR_SPAN, FIFO_DEPTH

LEMMA RowRange ==
  ASSUME NEW t \in 0 .. PTR_SPAN - 1, NEW i \in 1 .. PTR_SPAN
  PROVE  (t + i - 1) % FIFO_DEPTH \in 0 .. FIFO_DEPTH - 1
  BY DEF PTR_SPAN, FIFO_DEPTH

Rows(fifo, t, n) == [i \in 1 .. n |-> fifo[(t + i - 1) % FIFO_DEPTH]]

LEMMA RowsSeq ==
  ASSUME NEW fifo \in [0 .. FIFO_DEPTH - 1 -> Frame],
         NEW t \in 0 .. PTR_SPAN - 1, NEW n \in 0 .. PTR_SPAN - 1
  PROVE  /\ Rows(fifo, t, n) \in Seq(Frame)
         /\ Len(Rows(fifo, t, n)) = n
         /\ \A i \in 1 .. n : Rows(fifo, t, n)[i] = fifo[(t + i - 1) % FIFO_DEPTH]
<1>1. ASSUME NEW i \in 1 .. n PROVE fifo[(t + i - 1) % FIFO_DEPTH] \in Frame
  <2>1. i \in 1 .. PTR_SPAN
    BY DEF PTR_SPAN
  <2> QED
    BY <2>1, RowRange
<1> QED
  BY <1>1 DEF PTR_SPAN, Rows

LEMMA WaitingSeq ==
  ASSUME CanTypeOK
  PROVE  /\ RxEntries \in 0 .. PTR_SPAN - 1
         /\ Waiting \in Seq(Frame)
         /\ Len(Waiting) = RxEntries
         /\ \A i \in 1 .. RxEntries : Waiting[i] = rx_fifo[(rx_tail + i - 1) % FIFO_DEPTH]
<1>1. RxEntries \in 0 .. PTR_SPAN - 1
  BY EntryRange DEF RxEntries, CanTypeOK
<1> DEFINE n == RxEntries
           rows == [i \in 1 .. n |-> rx_fifo[(rx_tail + i - 1) % FIFO_DEPTH]]
<1>2. /\ rows \in Seq(Frame)
      /\ Len(rows) = n
      /\ \A i \in 1 .. n : rows[i] = rx_fifo[(rx_tail + i - 1) % FIFO_DEPTH]
  <2> HIDE DEF n
  <2>1. n \in 0 .. PTR_SPAN - 1
    BY <1>1 DEF n
  <2>2. rx_fifo \in [0 .. FIFO_DEPTH - 1 -> Frame] /\ rx_tail \in 0 .. PTR_SPAN - 1
    BY DEF CanTypeOK
  <2>3. /\ Rows(rx_fifo, rx_tail, n) \in Seq(Frame)
        /\ Len(Rows(rx_fifo, rx_tail, n)) = n
        /\ \A i \in 1 .. n :
             Rows(rx_fifo, rx_tail, n)[i] = rx_fifo[(rx_tail + i - 1) % FIFO_DEPTH]
    BY <2>1, <2>2, RowsSeq
  <2> QED
    BY <2>3 DEF Rows
<1>3. Waiting = rows
  BY DEF Waiting
<1> QED
  BY <1>1, <1>2, <1>3

LEMMA PushAppends ==
  ASSUME CanTypeOK, RxEntries < FIFO_DEPTH, NEW f \in Frame,
         rx_fifo' = [rx_fifo EXCEPT ![rx_head % FIFO_DEPTH] = f],
         rx_head' = (rx_head + 1) % PTR_SPAN, rx_tail' = rx_tail
  PROVE  Waiting' = Append(Waiting, f)
<1> DEFINE n == RxEntries
           new == [i \in 1 .. n + 1 |-> rx_fifo'[(rx_tail + i - 1) % FIFO_DEPTH]]
<1>1. n \in 0 .. FIFO_DEPTH - 1 /\ n = (rx_head - rx_tail) % PTR_SPAN
  BY EntryRange DEF CanTypeOK, RxEntries, PTR_SPAN, FIFO_DEPTH
<1>2. Waiting' = new
  <2>1. (((rx_head + 1) % PTR_SPAN) - rx_tail) % PTR_SPAN = n + 1
    BY <1>1, PushCount DEF CanTypeOK
  <2>2. RxEntries' = n + 1
    BY <2>1 DEF RxEntries
  <2> QED
    BY <2>2 DEF Waiting
<1>3. /\ (rx_tail + (n + 1) - 1) % FIFO_DEPTH = rx_head % FIFO_DEPTH
      /\ \A i \in 1 .. n : (rx_tail + i - 1) % FIFO_DEPTH # rx_head % FIFO_DEPTH
  BY <1>1, PushRow DEF CanTypeOK
<1>4. rx_head % FIFO_DEPTH \in 0 .. FIFO_DEPTH - 1
  BY DEF CanTypeOK, PTR_SPAN, FIFO_DEPTH
<1>5. rx_fifo' \in [0 .. FIFO_DEPTH - 1 -> Frame] /\ n + 1 \in 0 .. PTR_SPAN - 1
  BY <1>1, <1>4 DEF CanTypeOK, PTR_SPAN, FIFO_DEPTH
<1>6. /\ new \in Seq(Frame)
      /\ Len(new) = n + 1
      /\ \A i \in 1 .. n + 1 : new[i] = rx_fifo'[(rx_tail + i - 1) % FIFO_DEPTH]
  <2> DEFINE next == rx_fifo'
             m == n + 1
  <2>1. next \in [0 .. FIFO_DEPTH - 1 -> Frame] /\ rx_tail \in 0 .. PTR_SPAN - 1
        /\ m \in 0 .. PTR_SPAN - 1
    BY <1>5 DEF CanTypeOK
  <2> HIDE DEF n, next, m
  <2>2. /\ Rows(next, rx_tail, m) \in Seq(Frame)
        /\ Len(Rows(next, rx_tail, m)) = m
        /\ \A i \in 1 .. m : Rows(next, rx_tail, m)[i] = next[(rx_tail + i - 1) % FIFO_DEPTH]
    BY <2>1, RowsSeq
  <2> QED
    BY <2>2 DEF m, next, Rows
<1> HIDE DEF n, new
<1>7. /\ Waiting \in Seq(Frame) /\ Len(Waiting) = n
      /\ \A i \in 1 .. n : Waiting[i] = rx_fifo[(rx_tail + i - 1) % FIFO_DEPTH]
  BY WaitingSeq DEF n
<1>8. /\ Append(Waiting, f) \in Seq(Frame)
      /\ Len(Append(Waiting, f)) = n + 1
      /\ \A i \in 1 .. n : Append(Waiting, f)[i] = Waiting[i]
      /\ Append(Waiting, f)[n + 1] = f
  BY <1>7, AppendProperties
<1>9. ASSUME NEW i \in 1 .. n + 1 PROVE new[i] = Append(Waiting, f)[i]
  <2>1. CASE i = n + 1
    BY <1>1, <1>3, <1>4, <1>6, <1>8, <2>1 DEF CanTypeOK
  <2>2. CASE i # n + 1
    <3>1. i \in 1 .. n
      BY <1>1, <2>2
    <3>2. (rx_tail + i - 1) % FIFO_DEPTH \in 0 .. FIFO_DEPTH - 1
      BY <1>1, <3>1, RowRange DEF CanTypeOK, PTR_SPAN, FIFO_DEPTH
    <3>3. rx_fifo'[(rx_tail + i - 1) % FIFO_DEPTH] = rx_fifo[(rx_tail + i - 1) % FIFO_DEPTH]
      BY <1>3, <1>4, <3>1, <3>2 DEF CanTypeOK
    <3> QED
      BY <1>6, <1>7, <1>8, <3>1, <3>3
  <2> QED
    BY <2>1, <2>2
<1> QED
  BY <1>2, <1>6, <1>8, <1>9, SeqEqual

LEMMA PopTakesHead ==
  ASSUME CanTypeOK, RxEntries # 0,
         rx_fifo' = rx_fifo, rx_head' = rx_head, rx_tail' = (rx_tail + 1) % PTR_SPAN
  PROVE  Waiting # <<>> /\ Waiting' = Tail(Waiting)
<1> DEFINE n == RxEntries
           t == (rx_tail + 1) % PTR_SPAN
           new == [i \in 1 .. n - 1 |-> rx_fifo[(t + i - 1) % FIFO_DEPTH]]
<1>1. /\ n \in 1 .. PTR_SPAN - 1 /\ Waiting \in Seq(Frame) /\ Len(Waiting) = n
      /\ \A i \in 1 .. n : Waiting[i] = rx_fifo[(rx_tail + i - 1) % FIFO_DEPTH]
  BY WaitingSeq
<1>2. Waiting' = new
  BY PopEntries DEF Waiting
<1>3. t \in 0 .. PTR_SPAN - 1
  BY DEF CanTypeOK, PTR_SPAN
<1>4. \A i \in 1 .. n - 1 : (t + i - 1) % FIFO_DEPTH = (rx_tail + (i + 1) - 1) % FIFO_DEPTH
  <2> SUFFICES ASSUME NEW i \in 1 .. n - 1
               PROVE  (t + i - 1) % FIFO_DEPTH = (rx_tail + (i + 1) - 1) % FIFO_DEPTH
    OBVIOUS
  <2>1. i \in 1 .. PTR_SPAN
    BY <1>1 DEF PTR_SPAN
  <2> QED
    BY <2>1, PopRow DEF CanTypeOK
<1> HIDE DEF n, t
<1>5. /\ new \in Seq(Frame)
      /\ Len(new) = n - 1
      /\ \A i \in 1 .. n - 1 : new[i] = rx_fifo[(t + i - 1) % FIFO_DEPTH]
  <2>1. n - 1 \in 0 .. PTR_SPAN - 1
    BY <1>1 DEF PTR_SPAN
  <2>2. /\ Rows(rx_fifo, t, n - 1) \in Seq(Frame)
        /\ Len(Rows(rx_fifo, t, n - 1)) = n - 1
        /\ \A i \in 1 .. n - 1 :
             Rows(rx_fifo, t, n - 1)[i] = rx_fifo[(t + i - 1) % FIFO_DEPTH]
    BY <1>3, <2>1, RowsSeq DEF CanTypeOK
  <2> QED
    BY <2>2 DEF Rows
<1> HIDE DEF new
<1>6. Waiting # <<>>
  BY <1>1, EmptySeq
<1>7. /\ Tail(Waiting) \in Seq(Frame)
      /\ Len(Tail(Waiting)) = n - 1
      /\ \A i \in 1 .. n - 1 : Tail(Waiting)[i] = Waiting[i + 1]
  BY <1>1, <1>6, HeadTailProperties
<1>8. ASSUME NEW i \in 1 .. n - 1 PROVE new[i] = Tail(Waiting)[i]
  <2>1. i + 1 \in 1 .. n
    BY <1>1 DEF PTR_SPAN
  <2>2. Waiting[i + 1] = rx_fifo[(rx_tail + (i + 1) - 1) % FIFO_DEPTH]
    BY <1>1, <2>1
  <2> QED
    BY <1>4, <1>5, <1>7, <2>2
<1> QED
  BY <1>2, <1>5, <1>6, <1>7, <1>8, SeqEqual

\* Every step of the controller that leaves the receive queue alone and sets no
\* overflow flag is a step of the abstract queue or none.
LEMMA QuietStep ==
  ASSUME UNCHANGED fifoVars, "overflow" \in status' => "overflow" \in status
  PROVE  [Queue!Next]_(Queue!vars)
<1>1. Waiting' = Waiting
  BY DEF Waiting, RxEntries, fifoVars
<1> QED
  BY <1>1 DEF Queue!Next, Queue!Control, Queue!vars

\* STATUS never announces a frame that is not there: a handler that reads on while bit 0 is
\* up reads no row twice, whatever flush, pop and acknowledge met the arrival.
THEOREM PendingIsSound == CanSpec => []PendingSound
  BY CanFlagsAgree, PTL

\* A handler of the overflow interrupt finds its cause in STATUS, though the two copies are
\* cleared through two registers.
THEOREM OverflowIsExplained == CanSpec => []OverflowExplained
  BY CanFlagsAgree, PTL

\* The controller is the bounded queue of FrameQueue: frames leave in the order in
\* which they were accepted, none is overwritten or repeated, and a frame is
\* dropped only when four wait and never without the overflow flag.
THEOREM CanImplementsQueue == CanSpec => ImplementsQueue
<1>1. CanInit => Queue!Init
  <2> SUFFICES ASSUME CanInit PROVE Queue!Init
    OBVIOUS
  <2>1. CanTypeOK
    BY CanAssumption
    DEF CanInit, CanTypeOK, Id, Frame, CtrlFlag, StatusFlag, IrqFlag, FIFO_DEPTH, PTR_SPAN
  <2>2. RxEntries = 0 /\ "overflow" \notin status
    BY DEF CanInit, RxEntries, PTR_SPAN
  <2> QED
    BY <2>1, <2>2, WaitingSeq, EmptySeq DEF Queue!Init
<1>2. /\ CanTypeOK /\ CanTypeOK'
      /\ FifoBounded
      /\ [CanNext]_canVars
      => [Queue!Next]_(Queue!vars)
  <2> SUFFICES ASSUME CanTypeOK, CanTypeOK', FifoBounded, [CanNext]_canVars
               PROVE  [Queue!Next]_(Queue!vars)
    OBVIOUS
  <2>1. CASE WriteCtrl \/ WriteErrCounter \/ WriteIrqEn \/ WriteFilter \/ WriteMailbox
    BY <2>1, QuietStep
    DEF WriteCtrl, SetCtrl, WriteErrCounter, WriteIrqEn, SetIrqEn, WriteFilter,
      SetFilterId, SetFilterMask, WriteMailbox, SetMailbox, flagVars
  <2>2. CASE WriteIrqStatus
    BY <2>2, QuietStep DEF WriteIrqStatus, Acknowledge
  <2>3. CASE TxCmd
    <3>1. CASE ~Accepted
      BY <2>3, <3>1, QuietStep DEF TxCmd, HasRoom
    <3>2. CASE Accepted /\ RxEntries < FIFO_DEPTH
      <4> DEFINE f == [id |-> tx_id, body |-> tx_body]
      <4>1. f \in Frame
        BY DEF CanTypeOK, Frame
      <4>2. /\ rx_fifo' = [rx_fifo EXCEPT ![rx_head % FIFO_DEPTH] = f]
            /\ rx_head' = (rx_head + 1) % PTR_SPAN
            /\ rx_tail' = rx_tail
            /\ status' = status \cup {"idle", "pending"}
        BY <2>3, <3>2 DEF TxCmd, HasRoom
      <4> HIDE DEF f
      <4>3. Waiting' = Append(Waiting, f)
        BY <3>2, <4>1, <4>2, PushAppends
      <4>4. Len(Waiting) < FIFO_DEPTH
        BY <3>2, WaitingSeq
      <4>5. ("overflow" \in status') = ("overflow" \in status)
        BY <4>2
      <4> QED
        BY <4>1, <4>3, <4>4, <4>5 DEF Queue!Next, Queue!Arrive
    <3>3. CASE Accepted /\ ~(RxEntries < FIFO_DEPTH)
      <4>1. Waiting' = Waiting /\ "overflow" \in status'
        BY <2>3, <3>3 DEF TxCmd, HasRoom, fifoVars, Waiting, RxEntries
      <4>2. Len(Waiting) = FIFO_DEPTH
        BY <3>3, WaitingSeq DEF FifoBounded, FIFO_DEPTH, PTR_SPAN
      <4> QED
        BY <4>1, <4>2 DEF Queue!Next, Queue!Drop
    <3> QED
      BY <3>1, <3>2, <3>3
  <2>4. CASE WriteFifoCtrl
    <3>1. PICK pop, flush, clear \in BOOLEAN :
            /\ rx_tail' = IF flush THEN rx_head
                          ELSE IF pop /\ RxEntries # 0 THEN (rx_tail + 1) % PTR_SPAN
                          ELSE rx_tail
            /\ status' = status
                 \ ((IF flush \/ (pop /\ RxEntries = 1) THEN {"pending"} ELSE {})
                    \cup (IF clear THEN {"overflow"} ELSE {}))
            /\ rx_head' = rx_head /\ rx_fifo' = rx_fifo
      BY <2>4 DEF WriteFifoCtrl, FifoControl, NextTail, Drained
    <3>2. "overflow" \in status' => "overflow" \in status
      BY <3>1
    <3>3. CASE flush
      <4>1. RxEntries' = 0
        BY <3>1, <3>3, EntryRange DEF CanTypeOK, RxEntries
      <4>2. Waiting' = << >>
        BY <4>1 DEF Waiting
      <4> QED
        BY <3>2, <4>2 DEF Queue!Next, Queue!Control
    <3>4. CASE ~flush /\ pop /\ RxEntries # 0
      <4>1. Waiting # << >> /\ Waiting' = Tail(Waiting)
        BY <3>1, <3>4, PopTakesHead
      <4> QED
        BY <3>2, <4>1 DEF Queue!Next, Queue!Control
    <3>5. CASE ~flush /\ ~(pop /\ RxEntries # 0)
      <4>1. Waiting' = Waiting
        BY <3>1, <3>5 DEF Waiting, RxEntries
      <4> QED
        BY <3>2, <4>1 DEF Queue!Next, Queue!Control
    <3> QED
      BY <3>3, <3>4, <3>5
  <2>5. CASE UNCHANGED canVars
    BY <2>5, QuietStep DEF canVars, flagVars
  <2> QED
    BY <2>1, <2>2, <2>3, <2>4, <2>5 DEF CanNext
<1> QED
  BY <1>1, <1>2, CanTypeCorrect, CanFlagsAgree, PTL
  DEF CanSpec, ImplementsQueue, Queue!Spec
================================================================================
