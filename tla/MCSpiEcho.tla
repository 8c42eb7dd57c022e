------------------------------- MODULE MCSpiEcho -------------------------------
(* Values for the constants of SpiEcho. *)
EXTENDS SpiEcho

Loop == [enable |-> TRUE, loopback |-> TRUE, count |-> 2]
MCSpiCtrlValues == {Loop}
================================================================================
