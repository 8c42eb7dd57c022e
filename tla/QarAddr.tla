-------------------------------- MODULE QarAddr --------------------------------
(***************************************************************************)
(* Word addresses of the instruction memory.  The core counts bytes in 32  *)
(* bits and steps by 4; the models count words in a space of PcSpan, which *)
(* wraps the way the 32-bit counter does.                                  *)
(***************************************************************************)
EXTENDS Integers

CONSTANT PcSpan

ASSUME PcSpanAssumption == PcSpan \in Nat \ {0}

PC == 0 .. PcSpan - 1

\* mutant of Succ: the counter is one bit too wide
SuccNoWrap(p) == p + 1

Succ(p) == IF p = PcSpan - 1 THEN 0 ELSE p + 1
================================================================================
