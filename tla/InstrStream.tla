------------------------------ MODULE InstrStream ------------------------------
(***************************************************************************)
(* What the fetch unit of qar_core.v promises to the decode stage: the     *)
(* instructions of one control-flow path, in program order, none skipped   *)
(* and none repeated, until control flow asks for another path: then the   *)
(* stream goes there first, and it goes nowhere else.  The decode register *)
(* is the only thing a consumer sees of it.                                *)
(***************************************************************************)
EXTENDS QarAddr

CONSTANT None   \* the empty decode register

VARIABLES
  imem,         \* the program: a word for every address
  next,         \* the address of the instruction that is due
  id,           \* the decode register: None, or an instruction and its address
  redirect      \* input: the path control flow asks for in this cycle, or None;
                \* an action leaves its next value to control flow

vars == <<imem, next, id, redirect>>

Init ==
  /\ next \in PC
  /\ id = None

\* The instruction that is due is handed to an empty decode register.
Deliver ==
  /\ redirect = None
  /\ id = None
  /\ id' = [pc |-> next, instr |-> imem[next]]
  /\ next' = Succ(next)
  /\ UNCHANGED imem

\* The execute stage takes the instruction.
Consume ==
  /\ redirect = None
  /\ id # None
  /\ id' = None
  /\ UNCHANGED <<imem, next>>

\* A branch, a jump or a trap abandons the path and starts the one it asks for.
Redirect ==
  /\ redirect # None
  /\ next' = redirect
  /\ id' = None
  /\ UNCHANGED imem

\* Nothing arrives and nothing is taken; a redirect does not wait.
Wait ==
  /\ redirect = None
  /\ UNCHANGED <<imem, next, id>>

Next == Deliver \/ Consume \/ Redirect \/ Wait

Spec == Init /\ [][Next]_vars
================================================================================
