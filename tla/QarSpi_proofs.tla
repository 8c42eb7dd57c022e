------------------------------ MODULE QarSpi_proofs -----------------------------
(***************************************************************************)
(* Proofs about the SPI master for every queue depth, every set of bytes   *)
(* and chip selects, and every register traffic.                           *)
(***************************************************************************)
EXTENDS SpiEcho, SequenceTheorems, TLAPS

--------------------------------------------------------------------------------
(* Types and diagnosis *)

LEMMA Pointers ==
  ASSUME NEW p \in SpiPtr
  PROVE  SpiStep(p) \in SpiPtr /\ p % SpiDepth \in SpiRow
<1>1. SpiSpan \in Nat \ {0} /\ SpiDepth \in Nat \ {0}
  BY SpiAssumption DEF SpiSpan
<1>2. \A n \in Nat : n % SpiSpan \in 0 .. SpiSpan - 1
  BY <1>1
<1>3. \A n \in Nat : n % SpiDepth \in 0 .. SpiDepth - 1
  BY <1>1
<1>4. p \in Nat
  BY <1>1 DEF SpiPtr
<1> QED
  BY <1>2, <1>3, <1>4 DEF SpiStep, SpiPtr, SpiRow

\* What a register access may carry.
Carries(op) ==
  /\ op.reg = "CTRL" => op.value \in SpiCtrl
  /\ op.reg = "TXDATA" => op.value \in Byte
  /\ op.reg = "CS_SELECT" => op.value \subseteq Cs
  /\ op.reg = "IRQ_STATUS" => op.value \subseteq SpiIrq

LEMMA AccessValues == \A op \in SpiAccess : Carries(op)
  BY SpiAssumption DEF SpiAccess, Carries

LEMMA SpiTypeInit == SpiInit => SpiTypeOK
<1> SUFFICES ASSUME SpiInit PROVE SpiTypeOK
  OBVIOUS
<1>1. spi_ctrl \in SpiCtrl
  BY DEF SpiInit, SpiCtrl
<1>2. {spi_tx_head, spi_tx_tail, spi_rx_head, spi_rx_tail} \subseteq SpiPtr
  BY SpiAssumption DEF SpiInit, SpiPtr, SpiSpan
<1>3. cs_select \subseteq Cs /\ cs_active \subseteq Cs
  BY DEF SpiInit
<1>4. last_fault \in {<<"none">>} /\ cs_auto_count \in 0 .. 15
  BY DEF SpiInit
<1> QED
  BY <1>1, <1>2, <1>3, <1>4 DEF SpiInit, SpiTypeOK

\* An edge keeps the types, whatever firmware writes.
LEMMA SpiTypeEdge ==
  ASSUME SpiTypeOK, NEW op, Carries(op), NEW done \in BOOLEAN, NEW miso \in Byte,
         SpiEdge(op, done, miso)
  PROVE  SpiTypeOK'
<1>1. \A p \in SpiPtr : SpiStep(p) \in SpiPtr /\ p % SpiDepth \in SpiRow
  BY Pointers
<1>2. /\ spi_tx[spi_tx_tail % SpiDepth] \in Byte
      /\ Received(miso) \in Byte
  BY <1>1 DEF SpiTypeOK, Received
<1>3. Faults(op, done) \subseteq SpiFault
  BY DEF Faults, SpiFault
<1>4. Raised(op, done) \subseteq SpiIrq
  BY <1>3 DEF Raised, SpiIrq
<1>5. /\ spi_ctrl' \in SpiCtrl /\ cs_select' \subseteq Cs
      /\ spi_irq' \subseteq SpiIrq /\ spi_flags' \subseteq SpiFault
  BY <1>3, <1>4 DEF Carries, SpiEdge, Registers, SpiTypeOK
<1>6. last_fault' \in {<<"none">>} \cup (SpiFault \X Byte \X SUBSET Cs)
  <2>1. /\ <<"rx_ovf", Received(miso), cs_active>> \in SpiFault \X Byte \X SUBSET Cs
        /\ <<"cs", spi_tx[spi_tx_tail % SpiDepth], {}>> \in SpiFault \X Byte \X SUBSET Cs
        /\ op.reg = "TXDATA" =>
             <<"tx_ovf", op.value, cs_select>> \in SpiFault \X Byte \X SUBSET Cs
    BY <1>2 DEF Carries, SpiTypeOK, SpiFault
  <2>2. TxDrop(op) => op.reg = "TXDATA"
    BY DEF TxDrop
  <2> QED
    BY <2>1, <2>2 DEF SpiEdge, FaultRecord, SpiTypeOK
<1>7. busy' \in BOOLEAN /\ active_tx_byte' \in Byte /\ cs_active' \subseteq Cs
  BY <1>2 DEF SpiEdge, Transfer, Start, Attempt, SpiTypeOK
<1>8. cs_auto_count' \in 0 .. 15
  BY DEF SpiEdge, Transfer, SpiCtrl, SpiTypeOK
<1>9. {spi_tx_head, spi_tx_tail, spi_rx_head, spi_rx_tail}' \subseteq SpiPtr
  BY <1>1 DEF SpiEdge, Fifos, SpiTypeOK
<1>10. spi_tx' \in [SpiRow -> Byte] /\ spi_rx' \in [SpiRow -> Byte]
  BY <1>1, <1>2 DEF Carries, SpiEdge, Fifos, Push, SpiTypeOK
<1> QED
  BY <1>5, <1>6, <1>7, <1>8, <1>9, <1>10 DEF SpiTypeOK

\* The registers keep their types.
THEOREM SpiTypeCorrect == SpiSpec => []SpiTypeOK
<1>1. SpiTypeOK /\ [SpiNext]_spiVars => SpiTypeOK'
  <2>1. CASE UNCHANGED spiVars
    BY <2>1 DEF spiVars, SpiTypeOK
  <2>2. CASE SpiNext
    BY <2>2, AccessValues, SpiTypeEdge DEF SpiNext
  <2> QED
    BY <2>1, <2>2
<1> QED
  BY <1>1, SpiTypeInit, PTL DEF SpiSpec

\* The latched selection can become empty during a transfer only at the edge that
\* ends it, so a running transfer always has a device.
THEOREM TransfersAreSelected == SpiSpec => []TransferSelected
<1>1. SpiInit => TransferSelected
  BY DEF SpiInit, TransferSelected
<1>2. SpiTypeOK /\ TransferSelected /\ [SpiNext]_spiVars => TransferSelected'
  BY DEF SpiTypeOK, TransferSelected, SpiNext, spiVars, SpiEdge, Transfer, Start, Attempt,
         Finish
<1> QED
  BY <1>1, <1>2, SpiTypeCorrect, PTL DEF SpiSpec

\* Each fault that sets a flag at an edge loses the record only to a later
\* assignment of the edge, which sets its own flag.
THEOREM FaultsAreRecorded == SpiSpec => FaultRecorded
<1>1. [SpiNext]_spiVars => [spi_flags' \ spi_flags # {} => last_fault'[1] \in spi_flags']_spiVars
  <2> SUFFICES ASSUME [SpiNext]_spiVars, spi_flags' \ spi_flags # {}
               PROVE  last_fault'[1] \in spi_flags'
    OBVIOUS
  <2>1. PICK op \in SpiAccess, done \in BOOLEAN, miso \in Byte : SpiEdge(op, done, miso)
    BY DEF SpiNext, spiVars
  <2>2. Faults(op, done) # {} /\ Faults(op, done) \subseteq spi_flags'
    BY <2>1 DEF SpiEdge, Registers
  <2>3. /\ RxDrop(done) => "rx_ovf" \in Faults(op, done)
        /\ CsFault => "cs" \in Faults(op, done)
        /\ TxDrop(op) => "tx_ovf" \in Faults(op, done)
        /\ RxDrop(done) \/ CsFault \/ TxDrop(op)
    BY <2>2 DEF Faults
  <2>4. last_fault'[1] \in Faults(op, done)
    BY <2>1, <2>3 DEF SpiEdge, FaultRecord
  <2> QED
    BY <2>2, <2>4
<1> QED
  BY <1>1, PTL DEF SpiSpec, FaultRecorded

\* An edge that ends a transfer without moving spi_rx_head has dropped the byte, and
\* what it raises wins over what it clears.
THEOREM DropsAreAnnounced == SpiSpec => DropAnnounced
<1> DEFINE Announced ==
      busy /\ ~busy' /\ spi_rx_head' = spi_rx_head =>
        "rx_ovf" \in spi_flags' /\ {"rx_ovf", "fault"} \subseteq spi_irq'
<1>1. SpiTypeOK /\ [SpiNext]_spiVars => [Announced]_spiVars
  <2> SUFFICES ASSUME SpiTypeOK, [SpiNext]_spiVars, busy, ~busy', spi_rx_head' = spi_rx_head
               PROVE  "rx_ovf" \in spi_flags' /\ {"rx_ovf", "fault"} \subseteq spi_irq'
    OBVIOUS
  <2>1. PICK op \in SpiAccess, done \in BOOLEAN, miso \in Byte : SpiEdge(op, done, miso)
    BY DEF SpiNext, spiVars
  <2>2. Finish(done)
    BY <2>1 DEF SpiEdge, Transfer, Finish
  <2>3. SpiStep(spi_rx_head) # spi_rx_head
    <3>1. spi_rx_head \in 0 .. SpiSpan - 1 /\ SpiSpan \in Nat /\ SpiSpan > 1
      BY SpiAssumption DEF SpiTypeOK, SpiPtr, SpiSpan
    <3>2. CASE spi_rx_head = SpiSpan - 1
      BY <3>1, <3>2 DEF SpiStep
    <3>3. CASE spi_rx_head < SpiSpan - 1
      BY <3>1, <3>3 DEF SpiStep
    <3> QED
      BY <3>1, <3>2, <3>3
  <2>4. RxDrop(done)
    BY <2>1, <2>2, <2>3 DEF SpiEdge, Fifos, Keep, RxDrop
  <2>5. "rx_ovf" \in Faults(op, done) /\ {"rx_ovf", "fault"} \subseteq Raised(op, done)
    BY <2>4 DEF Faults, Raised
  <2> QED
    BY <2>1, <2>5 DEF SpiEdge, Registers
<1> QED
  BY <1>1, SpiTypeCorrect, PTL DEF SpiSpec, DropAnnounced

--------------------------------------------------------------------------------
(* Queues as sequences *)

LEMMA Division ==
  ASSUME NEW d \in Nat \ {0}, NEW m \in -d .. 3 * d - 1
  PROVE  m % d = IF m < 0 THEN m + d ELSE IF m < d THEN m
                 ELSE IF m < 2 * d THEN m - d ELSE m - 2 * d
<1> DEFINE q == m \div d
           r == m % d
<1>1. m = d * q + r /\ r \in 0 .. d - 1 /\ q \in Int
  OBVIOUS
<1> HIDE DEF q, r
<1>2. q <= -2 \/ q = -1 \/ q = 0 \/ q = 1 \/ q = 2 \/ q >= 3
  BY <1>1
<1>3. CASE q \in {-1, 0, 1, 2}
  BY <1>1, <1>3 DEF r
<1>4. CASE q >= 3
  <2>1. d * q >= d * 3
    BY <1>1, <1>4
  <2> QED BY <1>1, <2>1
<1>5. CASE q <= -2
  <2>1. d * q <= d * (-2)
    BY <1>1, <1>5
  <2> QED BY <1>1, <2>1
<1> QED BY <1>2, <1>3, <1>4, <1>5

LEMMA Difference ==
  ASSUME NEW h \in SpiPtr, NEW t \in SpiPtr
  PROVE  /\ (h - t) % SpiSpan = IF h >= t THEN h - t ELSE h - t + SpiSpan
         /\ SpiStep(t) = IF t + 1 = SpiSpan THEN 0 ELSE t + 1
         /\ (h - t) % SpiSpan \in SpiPtr /\ SpiStep(t) \in SpiPtr
<1> DEFINE n == SpiSpan
<1>1. n \in Nat \ {0} /\ n # 1 /\ h \in 0 .. n - 1 /\ t \in 0 .. n - 1
  BY SpiAssumption DEF SpiPtr, SpiSpan
<1> HIDE DEF n
<1>2. (h - t) % n = IF h >= t THEN h - t ELSE h - t + n
  <2>1. h - t \in -n .. 3 * n - 1
    BY <1>1
  <2>2. (h - t) % n = IF h - t < 0 THEN h - t + n ELSE IF h - t < n THEN h - t
                      ELSE IF h - t < 2 * n THEN h - t - n ELSE h - t - 2 * n
    BY <1>1, <2>1, Division, Zenon
  <2> QED BY <1>1, <2>2
<1>3. (t + 1) % n = IF t + 1 = n THEN 0 ELSE t + 1
  <2> DEFINE m == t + 1
  <2> HIDE DEF m
  <2>1. m \in -n .. 3 * n - 1
    BY <1>1 DEF m
  <2>2. m % n = IF m < 0 THEN m + n ELSE IF m < n THEN m
                ELSE IF m < 2 * n THEN m - n ELSE m - 2 * n
    BY <1>1, <2>1, Division, Zenon
  <2> QED BY <1>1, <2>2 DEF m
<1> QED BY <1>1, <1>2, <1>3 DEF n, SpiStep, SpiPtr

\* The row of the i-th waiting byte.
LEMMA RowOf ==
  ASSUME NEW t \in SpiPtr, NEW k \in 0 .. SpiDepth
  PROVE  (t + k) % SpiDepth = IF t + k < SpiDepth THEN t + k
                              ELSE IF t + k < SpiSpan THEN t + k - SpiDepth
                              ELSE t + k - SpiSpan
<1>1. SpiDepth \in Nat \ {0} /\ t + k \in -SpiDepth .. 3 * SpiDepth - 1
  BY SpiAssumption DEF SpiPtr, SpiSpan
<1> DEFINE m == t + k
<1> HIDE DEF m
<1>2. m % SpiDepth = IF m < 0 THEN m + SpiDepth ELSE IF m < SpiDepth THEN m
                     ELSE IF m < 2 * SpiDepth THEN m - SpiDepth ELSE m - 2 * SpiDepth
  BY <1>1, Division, Zenon DEF m
<1>3. t \in Nat /\ SpiDepth \in Nat /\ m >= 0
  BY SpiAssumption DEF SpiPtr, SpiSpan, m
<1> QED BY <1>1, <1>2, <1>3 DEF SpiSpan, m

\* The row of the i-th waiting byte of a queue that starts at t.
RowAt(t, i) ==
  IF t + i - 1 < SpiDepth THEN t + i - 1
  ELSE IF t + i - 1 < SpiSpan THEN t + i - 1 - SpiDepth ELSE t + i - 1 - SpiSpan

LEMMA RowAtType ==
  ASSUME NEW t \in SpiPtr, NEW i \in 1 .. SpiDepth + 1
  PROVE  RowAt(t, i) = (t + i - 1) % SpiDepth /\ RowAt(t, i) \in SpiRow
<1>1. t \in Nat /\ t < SpiSpan /\ SpiDepth \in Nat \ {0, 1} /\ SpiSpan = 2 * SpiDepth
  BY SpiAssumption DEF SpiPtr, SpiSpan
<1> DEFINE k == i - 1
<1>2. k \in 0 .. SpiDepth /\ t + k = t + i - 1
  BY <1>1
<1>3. (t + k) % SpiDepth = IF t + k < SpiDepth THEN t + k
                           ELSE IF t + k < SpiSpan THEN t + k - SpiDepth
                           ELSE t + k - SpiSpan
  <2> HIDE DEF k
  <2> QED BY <1>2, RowOf
<1> HIDE DEF k
<1> QED BY <1>1, <1>2, <1>3 DEF RowAt, SpiRow

LEMMA FifoSeq ==
  \A fifo \in [SpiRow -> Byte], t \in SpiPtr, n \in 0 .. SpiDepth :
    /\ InFifo(fifo, t, n) \in Seq(Byte)
    /\ Len(InFifo(fifo, t, n)) = n
    /\ \A i \in 1 .. n : InFifo(fifo, t, n)[i] = fifo[RowAt(t, i)]
<1> TAKE fifo \in [SpiRow -> Byte], t \in SpiPtr, n \in 0 .. SpiDepth
<1>1. n \in Nat /\ SpiDepth \in Nat
  BY SpiAssumption
<1>2. ASSUME NEW i \in 1 .. n
      PROVE  /\ (t + i - 1) % SpiDepth = RowAt(t, i) /\ RowAt(t, i) \in SpiRow
             /\ fifo[(t + i - 1) % SpiDepth] \in Byte
  <2>1. i \in 1 .. SpiDepth + 1
    BY <1>1
  <2> QED BY <2>1, RowAtType
<1> DEFINE s == [i \in 1 .. n |-> fifo[(t + i - 1) % SpiDepth]]
<1>3. s \in Seq(Byte) /\ Len(s) = n
  <2>1. s \in [1 .. n -> Byte]
    BY <1>2
  <2> HIDE DEF s
  <2> QED BY <1>1, <2>1
<1>4. \A i \in 1 .. n : s[i] = fifo[RowAt(t, i)]
  BY <1>2
<1>5. InFifo(fifo, t, n) = s
  BY DEF InFifo
<1> HIDE DEF s
<1> QED BY <1>3, <1>4, <1>5

\* One edge of a queue: a byte may leave at its tail and another enter at its head.
QueueMoves(fifo, head, tail, n, push, pop, b, fifo2, head2, tail2, n2) ==
  /\ fifo \in [SpiRow -> Byte] /\ head \in SpiPtr /\ tail \in SpiPtr
  /\ push \in BOOLEAN /\ pop \in BOOLEAN /\ b \in Byte
  /\ n = (head - tail) % SpiSpan /\ n <= SpiDepth
  /\ push => n < SpiDepth
  /\ pop => n # 0
  /\ fifo2 = IF push THEN [fifo EXCEPT ![head % SpiDepth] = b] ELSE fifo
  /\ head2 = IF push THEN SpiStep(head) ELSE head
  /\ tail2 = IF pop THEN SpiStep(tail) ELSE tail
  /\ n2 = (head2 - tail2) % SpiSpan

QueueMoved(fifo, tail, n, push, pop, b, fifo2, tail2, n2) ==
  /\ n2 = n + (IF push THEN 1 ELSE 0) - (IF pop THEN 1 ELSE 0)
  /\ InFifo(fifo, tail, n) \in Seq(Byte) /\ Len(InFifo(fifo, tail, n)) = n
  /\ pop => Head(InFifo(fifo, tail, n)) = fifo[tail % SpiDepth]
  /\ InFifo(fifo2, tail2, n2)
       = (IF pop THEN Tail(InFifo(fifo, tail, n)) ELSE InFifo(fifo, tail, n))
           \o (IF push THEN <<b>> ELSE <<>>)

LEMMA QueueEdge ==
  \A fifo, head, tail, n, push, pop, b, fifo2, head2, tail2, n2 :
    QueueMoves(fifo, head, tail, n, push, pop, b, fifo2, head2, tail2, n2)
      => QueueMoved(fifo, tail, n, push, pop, b, fifo2, tail2, n2)
<1> TAKE fifo, head, tail, n, push, pop, b, fifo2, head2, tail2, n2
<1> DEFINE q == InFifo(fifo, tail, n)
           q2 == InFifo(fifo2, tail2, n2)
           left == IF pop THEN 1 ELSE 0
           rest == IF pop THEN Tail(q) ELSE q
           new == IF push THEN <<b>> ELSE <<>>
           D == SpiDepth
<1> SUFFICES ASSUME QueueMoves(fifo, head, tail, n, push, pop, b, fifo2, head2, tail2, n2)
             PROVE  /\ n2 = n + (IF push THEN 1 ELSE 0) - left
                    /\ q \in Seq(Byte) /\ Len(q) = n
                    /\ pop => Head(q) = fifo[tail % SpiDepth]
                    /\ q2 = rest \o new
  BY Zenon DEF QueueMoved
<1>0. /\ n = (head - tail) % SpiSpan /\ n <= SpiDepth
      /\ push => n < SpiDepth
      /\ pop => n # 0
      /\ fifo2 = IF push THEN [fifo EXCEPT ![head % SpiDepth] = b] ELSE fifo
      /\ head2 = IF push THEN SpiStep(head) ELSE head
      /\ tail2 = IF pop THEN SpiStep(tail) ELSE tail
      /\ n2 = (head2 - tail2) % SpiSpan
  BY DEF QueueMoves
<1>type. /\ fifo \in [SpiRow -> Byte] /\ head \in SpiPtr /\ tail \in SpiPtr
         /\ push \in BOOLEAN /\ pop \in BOOLEAN /\ b \in Byte
  BY DEF QueueMoves
<1> USE <1>type
<1>1. /\ D \in Nat \ {0, 1} /\ SpiSpan = 2 * D
      /\ head \in 0 .. 2 * D - 1 /\ tail \in 0 .. 2 * D - 1
  BY SpiAssumption DEF SpiPtr, SpiSpan
<1>2. /\ n = IF head >= tail THEN head - tail ELSE head - tail + 2 * D
      /\ SpiStep(head) = IF head + 1 = 2 * D THEN 0 ELSE head + 1
      /\ SpiStep(tail) = IF tail + 1 = 2 * D THEN 0 ELSE tail + 1
      /\ SpiStep(head) \in SpiPtr /\ SpiStep(tail) \in SpiPtr
  BY <1>0, <1>1, Difference
<1>3. head2 \in SpiPtr /\ tail2 \in SpiPtr
  BY <1>0, <1>2
<1>4. n2 = IF head2 >= tail2 THEN head2 - tail2 ELSE head2 - tail2 + 2 * D
  <2>1. (head2 - tail2) % SpiSpan
          = IF head2 >= tail2 THEN head2 - tail2 ELSE head2 - tail2 + SpiSpan
    BY <1>3, Difference
  <2> QED BY <1>0, <1>1, <2>1
<1>5. n2 = n + (IF push THEN 1 ELSE 0) - left
  BY <1>0, <1>1, <1>2, <1>4
<1>6. n \in 0 .. D /\ n2 \in 0 .. D
  BY <1>0, <1>1, <1>2, <1>5
<1>7. head % D = RowAt(tail, n + 1) /\ head % D \in SpiRow
  <2>1. RowAt(head, 1) = (head + 1 - 1) % D /\ RowAt(head, 1) \in SpiRow
    BY <1>1, RowAtType
  <2>2. head + 1 - 1 = head
    BY <1>1
  <2>3. RowAt(head, 1) = RowAt(tail, n + 1)
    BY <1>0, <1>1, <1>2 DEF RowAt
  <2> QED BY <2>1, <2>2, <2>3
<1>8. fifo2 \in [SpiRow -> Byte]
  BY <1>0, <1>7
<1>9. /\ q \in Seq(Byte) /\ Len(q) = n
      /\ \A i \in 1 .. n : q[i] = fifo[RowAt(tail, i)]
  BY <1>6, FifoSeq
<1>10. /\ q2 \in Seq(Byte) /\ Len(q2) = n2
       /\ \A i \in 1 .. n2 : q2[i] = fifo2[RowAt(tail2, i)]
  BY <1>3, <1>6, <1>8, FifoSeq, Zenon
<1>11. \A i \in 1 .. n2 : RowAt(tail2, i) = RowAt(tail, i + left)
  BY <1>0, <1>1, <1>2, <1>5, <1>6 DEF RowAt
<1>12. \A i \in 1 .. n : RowAt(tail, i) # RowAt(tail, n + 1) \/ ~push
  BY <1>0, <1>1, <1>2, <1>6 DEF RowAt
<1>13. /\ rest \in Seq(Byte) /\ Len(rest) = n - left
       /\ \A i \in 1 .. n - left : rest[i] = q[i + left]
  <2> HIDE DEF q
  <2>1. CASE pop
    <3>1. q # <<>>
      BY <1>0, <1>9, <2>1
    <3> QED BY <1>6, <1>9, <2>1, <3>1, HeadTailProperties
  <2>2. CASE ~pop
    BY <1>6, <1>9, <2>2
  <2> QED BY <2>1, <2>2
<1>14. new \in Seq(Byte) /\ Len(new) = (IF push THEN 1 ELSE 0) /\ (push => new[1] = b)
  OBVIOUS
<1> HIDE DEF q, q2, rest, new
<1>15. /\ rest \o new \in Seq(Byte) /\ Len(rest \o new) = n2
       /\ \A i \in 1 .. n2 : (rest \o new)[i] = IF i <= n - left THEN q[i + left] ELSE b
  <2>1. /\ rest \o new \in Seq(Byte)
        /\ Len(rest \o new) = Len(rest) + Len(new)
        /\ \A i \in 1 .. Len(rest) + Len(new) :
             (rest \o new)[i] = IF i <= Len(rest) THEN rest[i] ELSE new[i - Len(rest)]
    BY <1>13, <1>14, ConcatProperties
  <2>2. Len(rest) + Len(new) = n2
    BY <1>5, <1>6, <1>13, <1>14
  <2>3. ASSUME NEW i \in 1 .. n2
        PROVE  (rest \o new)[i] = IF i <= n - left THEN q[i + left] ELSE b
    <3>1. (rest \o new)[i] = IF i <= Len(rest) THEN rest[i] ELSE new[i - Len(rest)]
      BY <2>1, <2>2
    <3>2. CASE i <= n - left
      BY <1>6, <1>13, <3>1, <3>2
    <3>3. CASE ~(i <= n - left)
      <4>1. push /\ i - (n - left) = 1
        BY <1>5, <1>6, <3>3
      <4> QED BY <1>13, <1>14, <3>1, <3>3, <4>1
    <3> QED BY <3>2, <3>3
  <2> QED BY <2>1, <2>2, <2>3
<1>16. ASSUME NEW i \in 1 .. n2 PROVE q2[i] = (rest \o new)[i]
  <2>1. q2[i] = fifo2[RowAt(tail, i + left)]
    BY <1>10, <1>11
  <2>2. CASE i <= n - left
    <3>1. i + left \in 1 .. n
      BY <1>6, <2>2
    <3>2. RowAt(tail, i + left) \in SpiRow
      BY <1>1, <1>6, <3>1, RowAtType
    <3>3. fifo2[RowAt(tail, i + left)] = fifo[RowAt(tail, i + left)]
      BY <1>0, <1>7, <1>12, <3>1, <3>2
    <3> QED BY <1>9, <1>15, <2>1, <2>2, <3>1, <3>3
  <2>3. CASE ~(i <= n - left)
    <3>1. push /\ i + left = n + 1
      BY <1>5, <1>6, <2>3
    <3> QED BY <1>0, <1>7, <1>15, <2>1, <2>3, <3>1
  <2> QED BY <2>2, <2>3
<1>17. q2 = rest \o new
  BY <1>10, <1>15, <1>16, SeqEqual
<1>18. pop => Head(q) = fifo[tail % D]
  <2>1. RowAt(tail, 1) = (tail + 1 - 1) % D /\ tail + 1 - 1 = tail
    BY <1>1, RowAtType
  <2>2. pop => Head(q) = q[1]
    BY <1>6, <1>9
  <2> QED BY <1>0, <1>6, <1>9, <2>1, <2>2
<1> QED BY <1>5, <1>9, <1>17, <1>18 DEF q, q2, rest, new

LEMMA TailConcat ==
  \A r, s \in Seq(Byte) : r # <<>> => Tail(r \o s) = Tail(r) \o s
<1> TAKE r \in Seq(Byte), s \in Seq(Byte)
<1> HAVE r # <<>>
<1>1. /\ r \o s \in Seq(Byte) /\ Len(r \o s) = Len(r) + Len(s)
      /\ \A i \in 1 .. Len(r) + Len(s) :
           (r \o s)[i] = IF i <= Len(r) THEN r[i] ELSE s[i - Len(r)]
  BY ConcatProperties
<1>2. Len(r) \in Nat \ {0} /\ Len(s) \in Nat
  BY EmptySeq, LenProperties
<1>3. r \o s # <<>>
  BY <1>1, <1>2, EmptySeq
<1>4. /\ Tail(r \o s) \in Seq(Byte) /\ Len(Tail(r \o s)) = Len(r) + Len(s) - 1
      /\ \A i \in 1 .. Len(r) + Len(s) - 1 : Tail(r \o s)[i] = (r \o s)[i + 1]
  BY <1>1, <1>3, HeadTailProperties
<1>5. /\ Tail(r) \in Seq(Byte) /\ Len(Tail(r)) = Len(r) - 1
      /\ \A i \in 1 .. Len(r) - 1 : Tail(r)[i] = r[i + 1]
  BY HeadTailProperties
<1>6. /\ Tail(r) \o s \in Seq(Byte) /\ Len(Tail(r) \o s) = Len(Tail(r)) + Len(s)
      /\ \A i \in 1 .. Len(Tail(r)) + Len(s) :
           (Tail(r) \o s)[i] = IF i <= Len(Tail(r)) THEN Tail(r)[i] ELSE s[i - Len(Tail(r))]
  BY <1>5, ConcatProperties
<1>7. ASSUME NEW i \in 1 .. Len(r) + Len(s) - 1
      PROVE  Tail(r \o s)[i] = (Tail(r) \o s)[i]
  <2>1. Tail(r \o s)[i] = IF i + 1 <= Len(r) THEN r[i + 1] ELSE s[i + 1 - Len(r)]
    BY <1>1, <1>2, <1>4
  <2>2. (Tail(r) \o s)[i] = IF i <= Len(r) - 1 THEN Tail(r)[i] ELSE s[i - (Len(r) - 1)]
    BY <1>2, <1>5, <1>6
  <2>3. i + 1 - Len(r) = i - (Len(r) - 1)
    BY <1>2
  <2> QED BY <1>2, <1>5, <2>1, <2>2, <2>3
<1> QED BY <1>2, <1>4, <1>5, <1>6, <1>7, SeqEqual

LEMMA HeadThenTail == \A t \in Seq(Byte) : t # <<>> => <<Head(t)>> \o Tail(t) = t
<1> SUFFICES ASSUME NEW t \in Seq(Byte), t # <<>> PROVE <<Head(t)>> \o Tail(t) = t
  BY Zenon
<1>1. /\ Tail(t) \in Seq(Byte) /\ Len(Tail(t)) = Len(t) - 1 /\ Head(t) \in Byte
      /\ \A i \in 1 .. Len(t) - 1 : Tail(t)[i] = t[i + 1]
  BY HeadTailProperties
<1>2. Len(t) \in Nat \ {0} /\ Head(t) = t[1]
  BY EmptySeq
<1>3. <<Head(t)>> \in Seq(Byte) /\ Len(<<Head(t)>>) = 1 /\ <<Head(t)>>[1] = Head(t)
  BY <1>1
<1>4. /\ <<Head(t)>> \o Tail(t) \in Seq(Byte) /\ Len(<<Head(t)>> \o Tail(t)) = Len(t)
      /\ \A i \in 1 .. Len(t) :
           (<<Head(t)>> \o Tail(t))[i] = IF i <= 1 THEN Head(t) ELSE Tail(t)[i - 1]
  <2>1. /\ <<Head(t)>> \o Tail(t) \in Seq(Byte)
        /\ Len(<<Head(t)>> \o Tail(t)) = 1 + Len(Tail(t))
        /\ \A i \in 1 .. 1 + Len(Tail(t)) :
             (<<Head(t)>> \o Tail(t))[i]
               = IF i <= 1 THEN <<Head(t)>>[i] ELSE Tail(t)[i - 1]
    BY <1>1, <1>3, ConcatProperties
  <2> QED BY <1>1, <1>2, <1>3, <2>1
<1>5. ASSUME NEW i \in 1 .. Len(t) PROVE (<<Head(t)>> \o Tail(t))[i] = t[i]
  BY <1>1, <1>2, <1>4
<1> QED BY <1>2, <1>4, <1>5, SeqEqual

LEMMA Associative ==
  \A r, s, t \in Seq(Byte) : (r \o s) \o t = r \o (s \o t)
  BY ConcatAssociative

Associates(r, s, t) == (r \o s) \o t = r \o (s \o t)

LEMMA AllAssociate == \A r, s, t \in Seq(Byte) : Associates(r, s, t)
  BY Associative DEF Associates

\* A byte that moves from one part of the pipe to the next leaves the pipe as it is.
PipeMove(r, m, t, p, pop, out, rest) ==
  /\ {r, m, t, p} \subseteq Seq(Byte)
  /\ pop \in BOOLEAN
  /\ pop => r # <<>>
  /\ out = IF pop THEN Tail(r \o m \o t) ELSE r \o m \o t
  /\ rest = IF pop THEN Tail(r) ELSE r

PipeMoved(m, t, p, out, rest) ==
  /\ rest \o m \o (t \o p) = out \o p
  /\ m = <<>> /\ t # <<>> => rest \o <<Head(t)>> \o (Tail(t) \o p) = out \o p
  /\ rest \o m \o <<>> \o (t \o p) = out \o p

LEMMA PipeMoves ==
  \A r, m, t, p, pop, out, rest :
    PipeMove(r, m, t, p, pop, out, rest) => PipeMoved(m, t, p, out, rest)
<1> TAKE r, m, t, p, pop, out, rest
<1> SUFFICES ASSUME PipeMove(r, m, t, p, pop, out, rest)
             PROVE  /\ rest \o m \o (t \o p) = out \o p
                    /\ m = <<>> /\ t # <<>> =>
                         rest \o <<Head(t)>> \o (Tail(t) \o p) = out \o p
                    /\ rest \o m \o <<>> \o (t \o p) = out \o p
  BY Zenon DEF PipeMoved
<1>0. /\ pop => r # <<>>
      /\ out = IF pop THEN Tail(r \o m \o t) ELSE r \o m \o t
      /\ rest = IF pop THEN Tail(r) ELSE r
  BY Zenon DEF PipeMove
<1>type. r \in Seq(Byte) /\ m \in Seq(Byte) /\ t \in Seq(Byte) /\ p \in Seq(Byte) /\ pop \in BOOLEAN
  BY Zenon DEF PipeMove
<1> USE <1>type
<1>1. /\ rest \in Seq(Byte) /\ r \o m \in Seq(Byte) /\ rest \o m \in Seq(Byte)
      /\ t \o p \in Seq(Byte)
  <2>1. rest \in Seq(Byte)
    BY <1>0, HeadTailProperties
  <2> QED BY <2>1, ConcatProperties
<1>2. out = rest \o m \o t
  <2>1. CASE pop
    <3>1. Tail(r \o m) = Tail(r) \o m
      BY <1>0, <2>1, TailConcat
    <3>2. r \o m # <<>>
      BY <1>0, <2>1, ConcatProperties, EmptySeq
    <3>3. Tail(r \o m \o t) = Tail(r \o m) \o t
      BY <1>1, <3>2, TailConcat
    <3> QED BY <1>0, <2>1, <3>1, <3>3
  <2>2. CASE ~pop
    BY <1>0, <2>2
  <2> QED BY <2>1, <2>2
<1>3. rest \o m \o (t \o p) = out \o p
  <2>1. \A x \in Seq(Byte) : x \o t \o p = x \o (t \o p)
    <3> TAKE x \in Seq(Byte)
    <3>1. Associates(x, t, p)
      BY AllAssociate, Zenon
    <3> QED BY <3>1 DEF Associates
  <2>2. rest \o m \o t \o p = rest \o m \o (t \o p)
    BY <1>1, <2>1, Zenon
  <2> QED BY <1>2, <2>2
<1>4. ASSUME m = <<>>, t # <<>>
      PROVE  rest \o <<Head(t)>> \o (Tail(t) \o p) = out \o p
  <2>1. Tail(t) \in Seq(Byte) /\ <<Head(t)>> \in Seq(Byte)
    BY <1>4, HeadTailProperties
  <2>2. <<Head(t)>> \o Tail(t) = t
    BY <1>4, HeadThenTail
  <2>3. rest \o <<Head(t)>> \o (Tail(t) \o p) = rest \o (<<Head(t)>> \o (Tail(t) \o p))
    <3>1. Tail(t) \o p \in Seq(Byte)
      BY <2>1, ConcatProperties
    <3> DEFINE y == Tail(t) \o p
    <3> HIDE DEF y
    <3>2. y \in Seq(Byte)
      BY <3>1 DEF y
    <3>3. Associates(rest, <<Head(t)>>, y)
      BY <1>1, <2>1, <3>2, AllAssociate, Zenon
    <3>4. rest \o <<Head(t)>> \o y = rest \o (<<Head(t)>> \o y)
      BY <3>3 DEF Associates
    <3> QED BY <3>4 DEF y
  <2>4. <<Head(t)>> \o (Tail(t) \o p) = t \o p
    BY <2>1, <2>2, Associative
  <2>5. rest \o (t \o p) = (rest \o t) \o p
    <3>1. Associates(rest, t, p)
      BY <1>1, AllAssociate, Zenon
    <3> QED BY <3>1 DEF Associates
  <2>6. out = rest \o t
    BY <1>1, <1>2, <1>4, ConcatEmptySeq
  <2> QED BY <2>3, <2>4, <2>5, <2>6
<1>5. rest \o m \o <<>> = rest \o m
  BY <1>1, ConcatEmptySeq
<1> QED BY <1>3, <1>4, <1>5

--------------------------------------------------------------------------------
(* The polling driver *)

Rx == InFifo(spi_rx, spi_rx_tail, SpiRxEntries)
Tx == InFifo(spi_tx, spi_tx_tail, SpiTxEntries)
InShifter == IF busy THEN <<active_tx_byte>> ELSE <<>>

LEMMA EmptyAndFull ==
  ASSUME SpiTypeOK
  PROVE  /\ SpiTxEntries \in Nat /\ SpiRxEntries \in Nat
         /\ spi_tx_empty <=> SpiTxEntries = 0
         /\ spi_rx_empty <=> SpiRxEntries = 0
         /\ spi_tx_full => SpiTxEntries = SpiDepth
         /\ spi_rx_full => SpiRxEntries = SpiDepth
<1>1. \A h, t \in SpiPtr :
        /\ (h - t) % SpiSpan \in Nat
        /\ h = t <=> (h - t) % SpiSpan = 0
        /\ h - t = SpiDepth => (h - t) % SpiSpan = SpiDepth
  <2> TAKE h \in SpiPtr, t \in SpiPtr
  <2>1. (h - t) % SpiSpan = IF h >= t THEN h - t ELSE h - t + SpiSpan
    BY Difference
  <2>2. h \in 0 .. SpiSpan - 1 /\ t \in 0 .. SpiSpan - 1 /\ SpiSpan \in Nat /\ SpiDepth \in Nat
    BY SpiAssumption DEF SpiPtr, SpiSpan
  <2> QED BY <2>1, <2>2
<1> QED
  BY <1>1 DEF SpiTypeOK, SpiTxEntries, SpiRxEntries, spi_tx_empty, spi_rx_empty,
              spi_tx_full, spi_rx_full

LEMMA PipeParts ==
  ASSUME SpiTypeOK, FifosBounded
  PROVE  /\ Rx \in Seq(Byte) /\ Tx \in Seq(Byte) /\ InShifter \in Seq(Byte)
         /\ Len(Rx) = SpiRxEntries /\ Len(Tx) = SpiTxEntries
         /\ Len(InShifter) = IF busy THEN 1 ELSE 0
         /\ Pipe = Rx \o InShifter \o Tx
         /\ Pipe \in Seq(Byte) /\ Len(Pipe) = Len(Rx) + Len(InShifter) + Len(Tx)
<1>1. SpiRxEntries \in 0 .. SpiDepth /\ SpiTxEntries \in 0 .. SpiDepth
  BY EmptyAndFull, SpiAssumption DEF FifosBounded
<1>2. /\ Rx \in Seq(Byte) /\ Tx \in Seq(Byte)
      /\ Len(Rx) = SpiRxEntries /\ Len(Tx) = SpiTxEntries
  BY <1>1, FifoSeq DEF SpiTypeOK, Rx, Tx
<1>3. InShifter \in Seq(Byte) /\ Len(InShifter) = IF busy THEN 1 ELSE 0
  BY DEF InShifter, SpiTypeOK
<1>4. Pipe = Rx \o InShifter \o Tx
  BY DEF Pipe, Rx, Tx, InShifter
<1>5. /\ Rx \o InShifter \in Seq(Byte) /\ Len(Rx \o InShifter) = Len(Rx) + Len(InShifter)
  BY <1>2, <1>3, ConcatProperties
<1>6. \A r \in Seq(Byte), t \in Seq(Byte) :
        r \o t \in Seq(Byte) /\ Len(r \o t) = Len(r) + Len(t)
  BY ConcatProperties
<1> DEFINE front == Rx \o InShifter
<1>7. front \in Seq(Byte) /\ Pipe = front \o Tx /\ Len(front) = Len(Rx) + Len(InShifter)
  BY <1>4, <1>5
<1> HIDE DEF front
<1>8. Pipe \in Seq(Byte) /\ Len(Pipe) = Len(front) + Len(Tx)
  BY <1>2, <1>6, <1>7
<1> QED BY <1>2, <1>3, <1>4, <1>7, <1>8

\* At an edge at which the driver keeps its rules a byte it writes enters the pipe at the
\* end, a byte it reads leaves at the front, and nothing else changes the pipe.
LEMMA EchoEdge ==
  ASSUME SpiTypeOK, FifosBounded,
         NEW op, Carries(op), NEW done \in BOOLEAN, NEW miso \in Byte,
         SpiEdge(op, done, miso),
         Len(Pipe) <= SpiDepth,
         op.reg = "TXDATA" => Len(Pipe) < SpiDepth,
         op.reg = "RXDATA" => ~spi_rx_empty,
         busy => spi_ctrl.loopback
  PROVE  /\ Pipe' = (IF op.reg = "RXDATA" THEN Tail(Pipe) ELSE Pipe)
                      \o (IF op.reg = "TXDATA" THEN <<op.value>> ELSE <<>>)
         /\ FifosBounded'
         /\ op.reg # "RXDATA" /\ ~spi_rx_empty => SpiRxEntries' # 0
<1> DEFINE writes == op.reg = "TXDATA"
           reads == op.reg = "RXDATA"
           entering == IF writes THEN op.value ELSE active_tx_byte
           byte == IF writes THEN <<op.value>> ELSE <<>>
           out == IF reads THEN Tail(Pipe) ELSE Pipe
           rest == IF reads THEN Tail(Rx) ELSE Rx
<1>1. /\ Rx \in Seq(Byte) /\ Tx \in Seq(Byte) /\ InShifter \in Seq(Byte)
      /\ Len(Rx) = SpiRxEntries /\ Len(Tx) = SpiTxEntries
      /\ Len(InShifter) = IF busy THEN 1 ELSE 0
      /\ Pipe = Rx \o InShifter \o Tx
      /\ Pipe \in Seq(Byte) /\ Len(Pipe) = Len(Rx) + Len(InShifter) + Len(Tx)
  BY PipeParts
<1>2. SpiRxEntries \in 0 .. SpiDepth /\ SpiTxEntries \in 0 .. SpiDepth /\ SpiDepth \in Nat
  BY EmptyAndFull, SpiAssumption DEF FifosBounded
<1>3. SpiTxEntries + SpiRxEntries + Len(InShifter) = Len(Pipe)
  BY <1>1, <1>2
<1>4. Push(op) <=> writes
  <2>1. writes => SpiTxEntries < SpiDepth
    BY <1>1, <1>2, <1>3
  <2> QED BY <1>2, <2>1, EmptyAndFull DEF Push
<1>5. Pop(op) <=> reads
  BY DEF Pop
<1>6. Keep(done) <=> busy /\ done
  <2>1. busy => SpiRxEntries < SpiDepth
    BY <1>1, <1>2, <1>3
  <2> QED BY <1>2, <2>1, EmptyAndFull DEF Keep, Finish
<1>7. /\ writes => SpiTxEntries < SpiDepth
      /\ Start => SpiTxEntries # 0 /\ ~busy
      /\ Keep(done) => SpiRxEntries < SpiDepth
      /\ reads => SpiRxEntries # 0
  <2>1. writes => SpiTxEntries < SpiDepth
    BY <1>1, <1>2, <1>3
  <2>2. busy => SpiRxEntries < SpiDepth
    BY <1>1, <1>2, <1>3
  <2> QED BY <1>6, <2>1, <2>2, EmptyAndFull DEF Start, Attempt
<1>8. entering \in Byte /\ Received(miso) \in Byte
  BY DEF Carries, Received, SpiTypeOK
<1>9. /\ SpiTxEntries' = SpiTxEntries + (IF writes THEN 1 ELSE 0) - (IF Start THEN 1 ELSE 0)
      /\ Start => Head(Tx) = spi_tx[spi_tx_tail % SpiDepth]
      /\ Tx' = (IF Start THEN Tail(Tx) ELSE Tx) \o byte
  <2>1. /\ spi_tx' = IF writes THEN [spi_tx EXCEPT ![spi_tx_head % SpiDepth] = entering]
                     ELSE spi_tx
        /\ spi_tx_head' = IF writes THEN SpiStep(spi_tx_head) ELSE spi_tx_head
        /\ spi_tx_tail' = IF Start THEN SpiStep(spi_tx_tail) ELSE spi_tx_tail
    BY <1>4 DEF SpiEdge, Fifos
  <2>2. /\ spi_tx \in [SpiRow -> Byte] /\ spi_tx_head \in SpiPtr /\ spi_tx_tail \in SpiPtr
        /\ writes \in BOOLEAN /\ Start \in BOOLEAN
    BY DEF SpiTypeOK, Start
  <2>3. SpiTxEntries = (spi_tx_head - spi_tx_tail) % SpiSpan
    BY DEF SpiTxEntries
  <2>4. SpiTxEntries' = (spi_tx_head' - spi_tx_tail') % SpiSpan
    BY DEF SpiTxEntries
  <2>5. SpiTxEntries <= SpiDepth
    BY <1>2
  <2> HIDE DEF writes, entering
  <2>6. QueueMoves(spi_tx, spi_tx_head, spi_tx_tail, SpiTxEntries, writes, Start, entering,
                   spi_tx', spi_tx_head', spi_tx_tail', SpiTxEntries')
    BY <1>7, <1>8, <2>1, <2>2, <2>3, <2>4, <2>5 DEF QueueMoves
  <2>7. Tx' = InFifo(spi_tx', spi_tx_tail', SpiTxEntries')
    BY DEF Tx, InFifo
  <2>8. QueueMoved(spi_tx, spi_tx_tail, SpiTxEntries, writes, Start, entering,
                   spi_tx', spi_tx_tail', SpiTxEntries')
    BY <2>6, QueueEdge, Zenon
  <2>9. /\ SpiTxEntries' = SpiTxEntries + (IF writes THEN 1 ELSE 0) - (IF Start THEN 1 ELSE 0)
        /\ Start => Head(Tx) = spi_tx[spi_tx_tail % SpiDepth]
        /\ Tx' = (IF Start THEN Tail(Tx) ELSE Tx) \o (IF writes THEN <<entering>> ELSE <<>>)
    BY <2>7, <2>8, Zenon DEF Tx, QueueMoved
  <2> QED BY <2>9 DEF entering
<1>10. /\ SpiRxEntries' = SpiRxEntries + (IF Keep(done) THEN 1 ELSE 0) - (IF reads THEN 1 ELSE 0)
       /\ Rx' = rest \o (IF Keep(done) THEN <<Received(miso)>> ELSE <<>>)
  <2>1. /\ spi_rx' = IF Keep(done)
                     THEN [spi_rx EXCEPT ![spi_rx_head % SpiDepth] = Received(miso)]
                     ELSE spi_rx
        /\ spi_rx_head' = IF Keep(done) THEN SpiStep(spi_rx_head) ELSE spi_rx_head
        /\ spi_rx_tail' = IF reads THEN SpiStep(spi_rx_tail) ELSE spi_rx_tail
    BY <1>5 DEF SpiEdge, Fifos
  <2>2. /\ spi_rx \in [SpiRow -> Byte] /\ spi_rx_head \in SpiPtr /\ spi_rx_tail \in SpiPtr
        /\ reads \in BOOLEAN /\ Keep(done) \in BOOLEAN
    BY DEF SpiTypeOK, Keep
  <2>3. SpiRxEntries = (spi_rx_head - spi_rx_tail) % SpiSpan
    BY DEF SpiRxEntries
  <2>4. SpiRxEntries' = (spi_rx_head' - spi_rx_tail') % SpiSpan
    BY DEF SpiRxEntries
  <2>5. SpiRxEntries <= SpiDepth
    BY <1>2
  <2> HIDE DEF reads
  <2>6. QueueMoves(spi_rx, spi_rx_head, spi_rx_tail, SpiRxEntries, Keep(done), reads,
                   Received(miso), spi_rx', spi_rx_head', spi_rx_tail', SpiRxEntries')
    BY <1>7, <1>8, <2>1, <2>2, <2>3, <2>4, <2>5 DEF QueueMoves
  <2>7. Rx' = InFifo(spi_rx', spi_rx_tail', SpiRxEntries')
    BY DEF Rx, InFifo
  <2>8. QueueMoved(spi_rx, spi_rx_tail, SpiRxEntries, Keep(done), reads,
                   Received(miso), spi_rx', spi_rx_tail', SpiRxEntries')
    BY <2>6, QueueEdge, Zenon
  <2>9. /\ SpiRxEntries' = SpiRxEntries + (IF Keep(done) THEN 1 ELSE 0)
                                        - (IF reads THEN 1 ELSE 0)
        /\ Rx' = (IF reads THEN Tail(Rx) ELSE Rx)
                   \o (IF Keep(done) THEN <<Received(miso)>> ELSE <<>>)
    BY <2>7, <2>8, Zenon DEF Rx, QueueMoved
  <2> QED BY <2>9
<1>11. FifosBounded'
  <2>1. SpiTxEntries' <= SpiDepth
    BY <1>2, <1>7, <1>9
  <2>2. SpiRxEntries' <= SpiDepth
    BY <1>2, <1>7, <1>10
  <2> QED BY <2>1, <2>2 DEF FifosBounded
<1>12. Pipe' = Rx' \o InShifter' \o Tx'
  BY DEF Pipe, Rx, Tx, InShifter
<1>13. InShifter' = IF Start THEN <<spi_tx[spi_tx_tail % SpiDepth]>>
                    ELSE IF Keep(done) THEN <<>> ELSE InShifter
  BY <1>6, <1>7 DEF InShifter, SpiEdge, Transfer, SpiTypeOK
<1>14. byte \in Seq(Byte) /\ reads \in BOOLEAN
  BY DEF Carries
<1>15. reads => Rx # <<>>
  BY <1>1, <1>7
<1>16. /\ rest \o InShifter \o (Tx \o byte) = out \o byte
       /\ InShifter = <<>> /\ Tx # <<>> =>
            rest \o <<Head(Tx)>> \o (Tail(Tx) \o byte) = out \o byte
       /\ rest \o InShifter \o <<>> \o (Tx \o byte) = out \o byte
  <2>1. out = IF reads THEN Tail(Rx \o InShifter \o Tx) ELSE Rx \o InShifter \o Tx
    BY <1>1
  <2>2. rest = IF reads THEN Tail(Rx) ELSE Rx
    OBVIOUS
  <2> HIDE DEF out, rest, byte, reads
  <2>3. PipeMove(Rx, InShifter, Tx, byte, reads, out, rest)
    BY <1>1, <1>14, <1>15, <2>1, <2>2, Zenon DEF PipeMove
  <2>4. PipeMoved(InShifter, Tx, byte, out, rest)
    BY <2>3, PipeMoves, Zenon
  <2> QED BY <2>4, Zenon DEF PipeMoved
<1>17. rest \in Seq(Byte)
  BY <1>1, <1>15, HeadTailProperties
<1>18. rest \o <<>> = rest
  BY <1>17, ConcatEmptySeq
<1>19. Pipe' = out \o byte
  <2> HIDE DEF out, rest, byte
  <2>1. CASE Start
    <3>1. InShifter = <<>> /\ ~Keep(done) /\ Tx # <<>>
      BY <1>1, <1>6, <1>7, <2>1 DEF InShifter
    <3>2. Rx' = rest
      BY <1>10, <1>18, <3>1
    <3>3. InShifter' = <<Head(Tx)>> /\ Tx' = Tail(Tx) \o byte
      BY <1>9, <1>13, <2>1
    <3> QED BY <1>12, <1>16, <3>1, <3>2, <3>3
  <2>2. CASE Keep(done)
    <3>1. ~Start /\ InShifter = <<Received(miso)>>
      BY <1>6, <1>7, <2>2 DEF InShifter, Received
    <3>2. Rx' = rest \o InShifter /\ InShifter' = <<>> /\ Tx' = Tx \o byte
      BY <1>9, <1>10, <1>13, <2>2, <3>1
    <3> QED BY <1>12, <1>16, <3>2
  <2>3. CASE ~Start /\ ~Keep(done)
    <3>1. Rx' = rest /\ InShifter' = InShifter /\ Tx' = Tx \o byte
      BY <1>9, <1>10, <1>13, <1>18, <2>3
    <3> QED BY <1>12, <1>16, <3>1
  <2> QED BY <2>1, <2>2, <2>3
<1>20. ~reads /\ ~spi_rx_empty => SpiRxEntries' # 0
  BY <1>2, <1>10, EmptyAndFull
<1> QED BY <1>11, <1>19, <1>20

LEMMA EchoInvInit == Window \in Nat /\ EchoInit => EchoInv
<1> SUFFICES ASSUME Window \in Nat, EchoInit PROVE EchoInv
  OBVIOUS
<1>1. SpiTypeOK
  BY SpiTypeInit DEF EchoInit
<1>2. spi_tx_empty /\ spi_rx_empty /\ ~busy
  BY DEF EchoInit, SpiInit, spi_tx_empty, spi_rx_empty
<1>3. SpiTxEntries = 0 /\ SpiRxEntries = 0
  BY <1>1, <1>2, EmptyAndFull
<1>4. FifosBounded
  BY <1>3, SpiAssumption DEF FifosBounded
<1>5. Pipe \in Seq(Byte) /\ Len(Pipe) = 0
  BY <1>1, <1>2, <1>3, <1>4, PipeParts
<1>6. Pipe = <<>>
  BY <1>5, EmptySeq
<1> QED
  BY <1>1, <1>2, <1>4, <1>6, EmptySeq DEF EchoInv, EchoInOrder, EchoInit, spi_rx_empty

\* What every step of the driver has in common, whatever it does to the registers.
LEMMA EchoAccess ==
  ASSUME EchoInv, Window \in 0 .. SpiDepth,
         NEW op, Carries(op), NEW done \in BOOLEAN, NEW miso \in Byte,
         SpiEdge(op, done, miso),
         op.reg = "TXDATA" => program = "write",
         op.reg = "RXDATA" => program = "read"
  PROVE  /\ SpiTypeOK' /\ FifosBounded'
         /\ Pipe' = (IF op.reg = "RXDATA" THEN Tail(outstanding) ELSE outstanding)
                      \o (IF op.reg = "TXDATA" THEN <<op.value>> ELSE <<>>)
         /\ outstanding \in Seq(Byte)
         /\ op.reg # "RXDATA" /\ ~spi_rx_empty => ~spi_rx_empty'
         /\ op.reg = "RXDATA" => outstanding # <<>>
<1>1. SpiTypeOK /\ FifosBounded /\ Pipe = outstanding
  BY DEF EchoInv, EchoInOrder
<1>2. /\ Pipe \in Seq(Byte) /\ Len(Pipe) = Len(Rx) + Len(InShifter) + Len(Tx)
      /\ Len(Rx) = SpiRxEntries /\ Len(Tx) = SpiTxEntries
      /\ Len(InShifter) = IF busy THEN 1 ELSE 0
  BY <1>1, PipeParts
<1>3. SpiDepth \in Nat /\ Window \in Int /\ Len(Pipe) \in Nat
  BY <1>2, SpiAssumption, LenProperties
<1>4. SpiRxEntries \in Nat /\ SpiTxEntries \in Nat
  BY <1>1, EmptyAndFull
<1>5. /\ Len(Pipe) <= SpiDepth
      /\ op.reg = "TXDATA" => Len(Pipe) < SpiDepth
  BY <1>1, <1>3 DEF EchoInv
<1>6. op.reg = "RXDATA" => ~spi_rx_empty
  BY DEF EchoInv
<1>7. busy => spi_ctrl.loopback
  <2>1. ~spi_ctrl.loopback => Len(Pipe) = 0
    BY <1>1, EmptySeq DEF EchoInv
  <2> QED BY <1>2, <1>4, <2>1
<1>8. SpiTypeOK'
  BY <1>1, SpiTypeEdge
<1>9. /\ Pipe' = (IF op.reg = "RXDATA" THEN Tail(Pipe) ELSE Pipe)
                   \o (IF op.reg = "TXDATA" THEN <<op.value>> ELSE <<>>)
      /\ FifosBounded'
      /\ op.reg # "RXDATA" /\ ~spi_rx_empty => SpiRxEntries' # 0
  BY <1>1, <1>5, <1>6, <1>7, EchoEdge
<1>10. spi_rx_empty' => SpiRxEntries' = 0
  <2>1. SpiSpan \in Nat \ {0}
    BY SpiAssumption DEF SpiSpan
  <2>2. spi_rx_head' \in Int /\ spi_rx_tail' \in Int
    BY <1>8, <2>1 DEF SpiTypeOK, SpiPtr
  <2>3. 0 % SpiSpan = 0
    BY <2>1
  <2> QED BY <2>2, <2>3 DEF spi_rx_empty, SpiRxEntries
<1>11. op.reg = "RXDATA" => outstanding # <<>>
  <2>1. op.reg = "RXDATA" => SpiRxEntries # 0
    BY <1>1, <1>6, EmptyAndFull
  <2>2. op.reg = "RXDATA" => Len(Pipe) # 0
    BY <1>2, <1>4, <2>1
  <2> QED BY <1>1, <2>2, EmptySeq
<1> QED BY <1>1, <1>2, <1>8, <1>9, <1>10, <1>11

LEMMA EchoInvStep ==
  ASSUME EchoInv, Window \in 0 .. SpiDepth, [EchoNext]_echoVars
  PROVE  EchoInv'
<1>1. ASSUME NEW done \in BOOLEAN, NEW miso \in Byte, EchoPoll(done, miso)
      PROVE  EchoInv'
  <2> DEFINE setup == [reg |-> "CTRL", value |-> [spi_ctrl EXCEPT !.loopback = TRUE]]
  <2>1. program = "poll" /\ outstanding' = outstanding
    BY <1>1 DEF EchoPoll
  <2>2. CASE spi_ctrl.loopback
    <3>1. /\ SpiEdge(NoAccess, done, miso)
          /\ \/ program' = "poll"
             \/ ~spi_tx_full /\ Len(outstanding) < Window /\ program' = "write"
             \/ ~spi_rx_empty /\ program' = "read"
      BY <1>1, <2>2 DEF EchoPoll
    <3>2. Carries(NoAccess) /\ NoAccess.reg \notin {"TXDATA", "RXDATA", "CTRL"}
      BY DEF Carries, NoAccess
    <3>3. /\ SpiTypeOK' /\ FifosBounded' /\ Pipe' = outstanding \o <<>>
          /\ outstanding \in Seq(Byte) /\ (~spi_rx_empty => ~spi_rx_empty')
      BY <3>1, <3>2, EchoAccess
    <3>4. Pipe' = outstanding'
      BY <2>1, <3>3, ConcatEmptySeq
    <3>5. spi_ctrl' = spi_ctrl
      BY <3>1, <3>2 DEF SpiEdge, Registers
    <3> QED BY <2>1, <2>2, <3>1, <3>3, <3>4, <3>5 DEF EchoInv, EchoInOrder
  <2>3. CASE ~spi_ctrl.loopback
    <3>1. SpiEdge(setup, done, miso) /\ program' = "poll"
      BY <1>1, <2>3 DEF EchoPoll
    <3>2. Carries(setup) /\ setup.reg = "CTRL" /\ setup.value.loopback
      BY DEF Carries, EchoInv, SpiTypeOK, SpiCtrl
    <3>3. /\ SpiTypeOK' /\ FifosBounded' /\ Pipe' = outstanding \o <<>>
          /\ outstanding \in Seq(Byte)
      BY <3>1, <3>2, EchoAccess
    <3>4. Pipe' = outstanding'
      BY <2>1, <3>3, ConcatEmptySeq
    <3>5. spi_ctrl'.loopback
      BY <3>1, <3>2 DEF SpiEdge, Registers
    <3> QED BY <2>1, <3>1, <3>3, <3>4, <3>5 DEF EchoInv, EchoInOrder
  <2> QED BY <2>2, <2>3
<1>2. ASSUME NEW done \in BOOLEAN, NEW miso \in Byte, EchoWrite(done, miso)
      PROVE  EchoInv'
  <2>1. PICK b \in Byte : /\ SpiEdge([reg |-> "TXDATA", value |-> b], done, miso)
                          /\ outstanding' = Append(outstanding, b)
    BY <1>2 DEF EchoWrite
  <2> DEFINE op == [reg |-> "TXDATA", value |-> b]
  <2>2. program = "write" /\ program' = "poll"
    BY <1>2 DEF EchoWrite
  <2>3. Carries(op) /\ op.reg = "TXDATA" /\ op.value = b
    BY DEF Carries
  <2> HIDE DEF op
  <2>4. SpiEdge(op, done, miso)
    BY <2>1 DEF op
  <2>5. /\ SpiTypeOK' /\ FifosBounded' /\ Pipe' = outstanding \o <<b>>
        /\ outstanding \in Seq(Byte)
    BY <2>2, <2>3, <2>4, EchoAccess
  <2>6. /\ Append(outstanding, b) = outstanding \o <<b>>
        /\ Len(Append(outstanding, b)) = Len(outstanding) + 1
    BY <2>5, AppendIsConcat, AppendProperties
  <2>7. spi_ctrl' = spi_ctrl
    BY <2>3, <2>4 DEF SpiEdge, Registers
  <2>8. spi_ctrl.loopback
    BY <2>2 DEF EchoInv
  <2>9. Len(outstanding') <= Window
    BY <2>1, <2>2, <2>5, <2>6, LenProperties, SpiAssumption DEF EchoInv
  <2> QED BY <2>1, <2>2, <2>5, <2>6, <2>7, <2>8, <2>9 DEF EchoInv, EchoInOrder
<1>3. ASSUME NEW done \in BOOLEAN, NEW miso \in Byte, EchoRead(done, miso)
      PROVE  EchoInv'
  <2> DEFINE op == [reg |-> "RXDATA"]
  <2>1. /\ program = "read" /\ program' = "poll"
        /\ SpiEdge(op, done, miso) /\ outstanding' = Tail(outstanding)
    BY <1>3 DEF EchoRead
  <2>2. Carries(op) /\ op.reg = "RXDATA"
    BY DEF Carries
  <2> HIDE DEF op
  <2>3. /\ SpiTypeOK' /\ FifosBounded' /\ Pipe' = Tail(outstanding) \o <<>>
        /\ outstanding \in Seq(Byte) /\ outstanding # <<>>
    BY <2>1, <2>2, EchoAccess
  <2>4. Tail(outstanding) \in Seq(Byte) /\ Len(Tail(outstanding)) = Len(outstanding) - 1
    BY <2>3, HeadTailProperties
  <2>5. Pipe' = outstanding'
    BY <2>1, <2>3, <2>4, ConcatEmptySeq
  <2>6. spi_ctrl' = spi_ctrl
    BY <2>1, <2>2 DEF SpiEdge, Registers
  <2>7. spi_ctrl.loopback
    BY <2>1 DEF EchoInv
  <2>8. Len(outstanding') <= Window
    BY <2>1, <2>3, <2>4, LenProperties, SpiAssumption DEF EchoInv
  <2> QED BY <2>1, <2>3, <2>5, <2>6, <2>7, <2>8 DEF EchoInv, EchoInOrder
<1>4. ASSUME UNCHANGED echoVars PROVE EchoInv'
  BY <1>4 DEF EchoInv, echoVars, spiVars, SpiTypeOK, FifosBounded, EchoInOrder, Pipe, InFifo,
              SpiTxEntries, SpiRxEntries, spi_rx_empty
<1> QED BY <1>1, <1>2, <1>3, <1>4 DEF EchoNext, EchoStep

\* Firmware that keeps no more bytes on their way than a queue holds gets every byte back
\* once, in order and unchanged: at every moment the receive queue, the shifter and the
\* transmit queue hold, in this order, exactly what it has sent and not yet read.
THEOREM EchoKeepsOrder ==
  ASSUME Window \in 0 .. SpiDepth
  PROVE  EchoSpec => []EchoInOrder
<1>1. EchoInit => EchoInv
  BY EchoInvInit, SpiAssumption
<1>2. EchoInv /\ [EchoNext]_echoVars => EchoInv'
  BY EchoInvStep
<1>3. EchoInv => EchoInOrder
  BY DEF EchoInv
<1> QED BY <1>1, <1>2, <1>3, PTL DEF EchoSpec
================================================================================
