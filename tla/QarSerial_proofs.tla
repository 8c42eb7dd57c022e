--------------------------- MODULE QarSerial_proofs ----------------------------
(***************************************************************************)
(* Proofs about the I2C master, for every queue depth and length of a      *)
(* byte, and about the LIN slave response of the UART, for every queue     *)
(* depth, frame and response length; both for any register traffic.        *)
(***************************************************************************)
EXTENDS QarI2c, QarUart, TLAPS

--------------------------------------------------------------------------------
(* The I2C master *)

\* The bit on the line is the bit that is counted: the engine alone moves both, and it
\* changes the count and SDA at the same edges.
THEOREM LineCarriesBit == I2cSpec => []BitOnLine
<1>1. I2cInit => BitOnLine
  BY DEF I2cInit, BitOnLine
<1>2. BitOnLine /\ [I2cNext(I2cAccess)]_i2cVars => BitOnLine'
  <2> SUFFICES ASSUME BitOnLine, [I2cNext(I2cAccess)]_i2cVars PROVE BitOnLine'
    OBVIOUS
  <2>1. CASE UNCHANGED i2cVars
    BY <2>1 DEF i2cVars, engineVars, BitOnLine
  <2>2. ASSUME NEW tick \in BOOLEAN, NEW line \in Lines, Engine(tick, line)
        PROVE BitOnLine'
    <3>1. CASE AtIdle
      <4> SUFFICES ASSUME state' = "WRITE" PROVE BitOnLine'
        BY DEF BitOnLine
      <4>1. Taken = "WRITE"
        BY <3>1 DEF AtIdle, StateOf, Taken
      <4> QED
        BY <3>1, <4>1 DEF AtIdle, BitOnLine
    <3>2. CASE AtCondition
      BY <3>2 DEF AtCondition, BitOnLine
    <3>3. CASE AtWrite
      <4> SUFFICES ASSUME state' = "WRITE" PROVE BitOnLine'
        BY DEF BitOnLine
      <4>1. state = "WRITE" /\ ~(scl_state /\ bit_index = 0)
        BY <3>3 DEF AtWrite
      <4>2. CASE scl_state
        BY <3>3, <4>1, <4>2 DEF AtWrite, BitOnLine
      <4>3. CASE ~scl_state
        BY <3>3, <4>1, <4>3 DEF AtWrite, BitOnLine
      <4> QED
        BY <4>2, <4>3
    <3>4. CASE AtAck
      BY <3>4 DEF AtAck, BitOnLine
    <3>5. CASE AtRead(line)
      BY <3>5 DEF AtRead, BitOnLine
    <3>6. CASE UNCHANGED engineVars
      BY <3>6 DEF engineVars, BitOnLine
    <3> QED
      BY <2>2, <3>1, <3>2, <3>3, <3>4, <3>5, <3>6 DEF Engine
  <2> QED
    BY <2>1, <2>2 DEF I2cNext, I2cEdge
<1> QED
  BY <1>1, <1>2, PTL DEF I2cSpec

\* A fault flag that appears is diagnosed at the same edge: the code names a fault of this
\* very edge, and the flag of a fault of this edge is set.
THEOREM FaultsAreNamed == I2cSpec => I2cFaultNamed
<1>1. [I2cNext(I2cAccess)]_i2cVars => (i2c_flags' \ i2c_flags # {} => last_fault_code' \in i2c_flags')
  <2> SUFFICES ASSUME [I2cNext(I2cAccess)]_i2cVars, i2c_flags' \ i2c_flags # {}
               PROVE last_fault_code' \in i2c_flags'
    OBVIOUS
  <2>1. ~UNCHANGED i2cVars
    BY DEF i2cVars
  <2>2. PICK op \in I2cAccess, tick \in BOOLEAN, line \in Lines : I2cEdge(op, tick, line)
    BY <2>1 DEF I2cNext
  <2>3. i2c_flags' = (i2c_flags \ I2cForgiven(op, tick)) \cup I2cFaults(op, tick, line)
    BY <2>2 DEF I2cEdge, I2cRegisters
  <2>4. I2cFaults(op, tick, line) # {}
    BY <2>3
  <2>5. last_fault_code' \in I2cFaults(op, tick, line)
    BY <2>2, <2>4 DEF I2cEdge, I2cRecord, I2cFaults
  <2> QED
    BY <2>3, <2>5
<1> QED
  BY <1>1, PTL DEF I2cSpec, I2cFaultNamed

--------------------------------------------------------------------------------
(* The UART *)

\* While a response is sent, what it sent and what it owes make up its length.
ResponseBalance ==
  /\ lin_slave_ctrl \in SlaveCtrl
  /\ response \in [len: Nat, sent: Nat, cut: BOOLEAN]
  /\ lin_slave_tx_pending =>
       /\ lin_slave_bytes_remaining \in Nat \ {0}
       /\ response.sent + lin_slave_bytes_remaining = response.len

\* Whether firmware cuts the response at an edge.
Stops(op) == Asks(op, "cancel") \/ SlaveOff(op) \/ Asks(op, "arm")

LEMMA SlaveEdge ==
  ASSUME UartNext(UartAccess, RxEvent)
  PROVE  \E op \in UartAccess, rx \in RxEvent : Slave(op, rx)
  BY DEF UartNext, Possible, UartEdge

LEMMA StopsIsBoolean == ASSUME NEW op \in UartAccess PROVE Stops(op) \in BOOLEAN
  BY DEF Stops, Asks, SlaveOff

\* What an edge does to a response.
LEMMA ResponseStep ==
  ASSUME ResponseBalance, NEW op \in UartAccess, NEW rx \in RxEvent, Slave(op, rx)
  PROVE  /\ lin_slave_ctrl' \in SlaveCtrl
         /\ response' \in [len: Nat, sent: Nat, cut: BOOLEAN]
         /\ lin_slave_tx_pending' =>
              /\ lin_slave_bytes_remaining' \in Nat \ {0}
              /\ response'.sent + lin_slave_bytes_remaining' = response'.len
         /\ lin_slave_tx_pending /\ ~lin_slave_tx_pending' =>
              response'.cut \/ lin_slave_underflow' \/ response'.sent = response.len
<1>1. lin_slave_ctrl' \in SlaveCtrl
  BY DEF Slave, UartAccess, ResponseBalance
<1>2. CASE Matches(rx)
  <2>1. response' = [len |-> lin_slave_ctrl.len, sent |-> 0, cut |-> FALSE]
    BY <1>2 DEF Slave
  <2>2. lin_slave_ctrl.len \in Nat \ {0}
    BY <1>2, UartAssumption DEF Matches, ResponseBalance, SlaveCtrl
  <2>3. lin_slave_bytes_remaining' = lin_slave_ctrl.len /\ lin_slave_tx_pending'
    BY <1>2 DEF Slave
  <2> QED
    BY <1>1, <2>1, <2>2, <2>3
<1>3. CASE ~Matches(rx) /\ ~lin_slave_tx_pending
  <2>1. response' = response /\ ~lin_slave_tx_pending'
    BY <1>3 DEF Slave
  <2> QED
    BY <1>1, <1>3, <2>1 DEF ResponseBalance
<1>4. CASE ~Matches(rx) /\ lin_slave_tx_pending
  <2> DEFINE sent == IF Take THEN response.sent + 1 ELSE response.sent
  <2>1. response' = [response EXCEPT !.sent = sent, !.cut = Stops(op)]
    BY <1>4 DEF Slave, Stops
  <2>2. /\ response \in [len: Nat, sent: Nat, cut: BOOLEAN]
        /\ lin_slave_bytes_remaining \in Nat \ {0}
        /\ response.sent + lin_slave_bytes_remaining = response.len
    BY <1>4 DEF ResponseBalance
  <2>3. /\ response' \in [len: Nat, sent: Nat, cut: BOOLEAN]
        /\ response'.len = response.len /\ response'.sent = sent
        /\ response'.cut = Stops(op)
    <3>1. sent \in Nat
      BY <2>2
    <3> DEFINE cut == Stops(op)
    <3>2. cut \in BOOLEAN /\ response' = [response EXCEPT !.sent = sent, !.cut = cut]
      BY <2>1, StopsIsBoolean
    <3> HIDE DEF sent, cut
    <3>3. /\ response' \in [len: Nat, sent: Nat, cut: BOOLEAN]
          /\ response'.len = response.len /\ response'.sent = sent
          /\ response'.cut = cut
      BY <2>2, <3>1, <3>2
    <3> QED
      BY <3>3 DEF cut
  <2>4. lin_slave_tx_pending' = (~Stops(op) /\ ~Underflow /\ ~(Take /\ LastOfResponse))
    BY <1>4 DEF Slave, Stops
  <2>5. lin_slave_bytes_remaining' = IF Take /\ ~LastOfResponse
                                     THEN lin_slave_bytes_remaining - 1
                                     ELSE lin_slave_bytes_remaining
    BY <1>4 DEF Slave
  <2>6. LastOfResponse <=> lin_slave_bytes_remaining = 1
    BY <1>4, <2>2 DEF LastOfResponse
  <2>7. ASSUME lin_slave_tx_pending'
        PROVE  /\ lin_slave_bytes_remaining' \in Nat \ {0}
               /\ response'.sent + lin_slave_bytes_remaining' = response'.len
    <3>1. CASE Take
      <4>1. ~LastOfResponse
        BY <2>4, <2>7, <3>1
      <4> QED
        BY <2>2, <2>3, <2>5, <2>6, <3>1, <4>1
    <3>2. CASE ~Take
      BY <2>2, <2>3, <2>5, <3>2
    <3> QED
      BY <3>1, <3>2
  <2>8. ASSUME ~lin_slave_tx_pending'
        PROVE  response'.cut \/ lin_slave_underflow' \/ response'.sent = response.len
    <3>1. CASE Stops(op)
      BY <2>3, <3>1
    <3>2. CASE Underflow
      BY <1>4, <3>2 DEF Slave
    <3>3. CASE Take /\ LastOfResponse
      BY <2>2, <2>3, <2>6, <3>3
    <3> QED
      BY <2>4, <2>8, <3>1, <3>2, <3>3
  <2> QED
    BY <1>1, <2>3, <2>7, <2>8
<1> QED
  BY <1>2, <1>3, <1>4

\* While a response is sent, what it sent and what it owes make up its length.
THEOREM ResponseStaysBalanced == UartSpec => []ResponseBalance
<1>1. UartInit => ResponseBalance
  <2> SUFFICES ASSUME UartInit PROVE ResponseBalance
    OBVIOUS
  <2>1. lin_slave_ctrl \in SlaveCtrl
    <3>1. lin_slave_ctrl \in [enable: {FALSE}, id: LinByte \ {Sync}, len: {0}]
      BY DEF UartInit
    <3>2. 0 \in 0 .. MaxLength
      BY UartAssumption
    <3> QED
      BY <3>1, <3>2 DEF SlaveCtrl
  <2>2. response \in [len: Nat, sent: Nat, cut: BOOLEAN]
    BY DEF UartInit
  <2>3. ~lin_slave_tx_pending
    BY DEF UartInit
  <2> QED
    BY <2>1, <2>2, <2>3 DEF ResponseBalance
<1>2. ResponseBalance /\ [UartNext(UartAccess, RxEvent)]_uartVars => ResponseBalance'
  <2> SUFFICES ASSUME ResponseBalance, [UartNext(UartAccess, RxEvent)]_uartVars
               PROVE  ResponseBalance'
    OBVIOUS
  <2>1. CASE UNCHANGED uartVars
    BY <2>1 DEF uartVars, slaveVars, ResponseBalance
  <2>2. CASE UartNext(UartAccess, RxEvent)
    BY <2>2, SlaveEdge, ResponseStep DEF ResponseBalance
  <2> QED
    BY <2>1, <2>2
<1> QED
  BY <1>1, <1>2, PTL DEF UartSpec

\* A response ends with all its bytes sent, with the underflow flag, or because firmware
\* cut it, and never runs past its length.
THEOREM ResponsesAreAccounted == UartSpec => ResponseAccounted
<1>1. ResponseBalance /\ [UartNext(UartAccess, RxEvent)]_uartVars =>
        \/ UNCHANGED uartVars
        \/ /\ lin_slave_tx_pending /\ ~lin_slave_tx_pending' =>
                response'.cut \/ lin_slave_underflow' \/ response'.sent = response.len
           /\ lin_slave_tx_pending' => response'.sent < response'.len
  <2> SUFFICES ASSUME ResponseBalance, UartNext(UartAccess, RxEvent)
               PROVE  /\ lin_slave_tx_pending /\ ~lin_slave_tx_pending' =>
                           response'.cut \/ lin_slave_underflow' \/ response'.sent = response.len
                      /\ lin_slave_tx_pending' => response'.sent < response'.len
    OBVIOUS
  <2>1. PICK op \in UartAccess, rx \in RxEvent : Slave(op, rx)
    BY SlaveEdge
  <2>2. /\ response' \in [len: Nat, sent: Nat, cut: BOOLEAN]
        /\ lin_slave_tx_pending' =>
             /\ lin_slave_bytes_remaining' \in Nat \ {0}
             /\ response'.sent + lin_slave_bytes_remaining' = response'.len
        /\ lin_slave_tx_pending /\ ~lin_slave_tx_pending' =>
             response'.cut \/ lin_slave_underflow' \/ response'.sent = response.len
    BY <2>1, ResponseStep
  <2> QED
    BY <2>2
<1> QED
  BY <1>1, ResponseStaysBalanced, PTL DEF UartSpec, ResponseAccounted
================================================================================
