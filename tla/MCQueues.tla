-------------------------------- MODULE MCQueues -------------------------------
(***************************************************************************)
(* The CAN controller and the SPI master under register traffic.  They     *)
(* share no state, so a behaviour uses one of them (unit, chosen at reset) *)
(* and the other rests.                                                    *)
(***************************************************************************)
EXTENDS QarCan, QarSpi

\* Besides the reset value a filtered loopback and an open one; Firmware adds quiet ones.
MCCtrlValues == {{"enable", "loopback"}, {"enable", "loopback", "bypass"}}
MCIrqEnValues == {{}}         \* only gates the line

MCSpiCtrlValues == {[enable |-> FALSE, loopback |-> TRUE, count |-> 0],
                    [enable |-> TRUE, loopback |-> TRUE, count |-> 2]}
MCClearMasks == {{"rx_ovf"}}

VARIABLE unit

queuesVars == <<unit, canVars, spiVars>>

QueuesInit ==
  /\ CanInit /\ SpiInit
  /\ unit \in {"can", "spi"}
  /\ unit = "spi" => rx_fifo = [r \in 0 .. FIFO_DEPTH - 1 |-> [id |-> {}, body |-> tx_body]]

UsesCan == unit = "can" /\ CanNext /\ UNCHANGED <<unit, spiVars>>
UsesSpi == unit = "spi" /\ SpiNext /\ UNCHANGED <<unit, canVars>>

QueuesSpec == QueuesInit /\ [][UsesCan \/ UsesSpi]_queuesVars
================================================================================
