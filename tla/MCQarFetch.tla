------------------------------- MODULE MCQarFetch ------------------------------
(* Values for the constants of QarFetch. *)
EXTENDS QarFetch

\* two programs: every word different, and one word at two addresses
MCWord == 0 .. PcSpan - 1
MCPrograms == {[p \in PC |-> p], [p \in PC |-> p \div 2]}
================================================================================
