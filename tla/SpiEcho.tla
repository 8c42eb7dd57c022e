-------------------------------- MODULE SpiEcho --------------------------------
(***************************************************************************)
(* Firmware that talks to the SPI master in loopback through the helpers   *)
(* of devkit/hal/spi.h: qar_spi_write polls TX_READY and writes TXDATA,    *)
(* qar_spi_read polls RX_VALID and reads RXDATA.  Between the poll and the *)
(* access the shifter runs on.  The firmware keeps at most Window bytes on *)
(* their way; outstanding is what it has sent and not read back.           *)
(***************************************************************************)
EXTENDS QarSpi

CONSTANT Window

VARIABLES
  program,        \* what firmware is about to do: "poll", "write" or "read"
  outstanding

echoVars == <<spiVars, program, outstanding>>

EchoInit ==
  /\ SpiInit
  /\ program = "poll"
  /\ outstanding = <<>>

NoAccess == [reg |-> "none"]

\* A read of STATUS, or any work of firmware's own; loopback is set up first.
EchoPoll(done, miso) ==
  /\ program = "poll"
  /\ IF spi_ctrl.loopback
     THEN /\ SpiEdge(NoAccess, done, miso)
          /\ \/ program' = "poll"
             \/ ~spi_tx_full /\ Len(outstanding) < Window /\ program' = "write"
             \/ ~spi_rx_empty /\ program' = "read"
     ELSE /\ SpiEdge([reg |-> "CTRL", value |-> [spi_ctrl EXCEPT !.loopback = TRUE]], done, miso)
          /\ program' = "poll"
  /\ UNCHANGED outstanding

EchoWrite(done, miso) ==
  /\ program = "write"
  /\ \E b \in Byte :
       /\ SpiEdge([reg |-> "TXDATA", value |-> b], done, miso)
       /\ outstanding' = Append(outstanding, b)
  /\ program' = "poll"

EchoRead(done, miso) ==
  /\ program = "read"
  /\ SpiEdge([reg |-> "RXDATA"], done, miso)
  /\ outstanding' = Tail(outstanding)
  /\ program' = "poll"

EchoStep(done) == \E miso \in Byte : EchoPoll(done, miso) \/ EchoWrite(done, miso) \/ EchoRead(done, miso)

EchoNext == \E done \in BOOLEAN : EchoStep(done)

EchoSpec == EchoInit /\ [][EchoNext]_echoVars

--------------------------------------------------------------------------------
InFifo(fifo, tail, n) == [i \in 1 .. n |-> fifo[(tail + i - 1) % SpiDepth]]

\* The bytes on their way, oldest first: received, in the shifter, not yet sent.
Pipe ==
  InFifo(spi_rx, spi_rx_tail, SpiRxEntries)
    \o (IF busy THEN <<active_tx_byte>> ELSE <<>>)
    \o InFifo(spi_tx, spi_tx_tail, SpiTxEntries)

\* Every byte comes back once, in order and unchanged, as long as the window does
\* not exceed the depth of a queue: not a byte is lost between the two queues and
\* the shifter although the three hand over at one clock edge.
EchoInOrder == Pipe = outstanding

\* The inductive invariant behind EchoInOrder: what the last poll saw still holds when the
\* program acts on it, and no byte enters before loopback is set.
EchoInv ==
  /\ SpiTypeOK /\ FifosBounded /\ EchoInOrder
  /\ program \in {"poll", "write", "read"}
  /\ Len(outstanding) <= Window
  /\ program = "write" => Len(outstanding) < Window
  /\ program = "read" => ~spi_rx_empty
  /\ ~spi_ctrl.loopback => program = "poll" /\ outstanding = <<>>

\* No fault is ever latched for such firmware.
NoFault == spi_flags = {} /\ "fault" \notin spi_irq

\* A byte that was written can be read back in the end: firmware that waits for one is not
\* left waiting with an empty queue for ever.
EchoArrives == []<>(outstanding # <<>> => ~spi_rx_empty)
================================================================================
