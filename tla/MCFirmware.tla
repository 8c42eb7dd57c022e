-------------------------------- MODULE MCFirmware ------------------------------
(* Values for the constants of Firmware: the frames of can_loopback.c. *)
EXTENDS Firmware

MCBody ==
  [dlc: {0, 4, 8}, data0: {"0", "DEADBEEF", "CAFEBABE", "11111111"}, data1: {"0", "01020304"}]
================================================================================
