-------------------------------- MODULE QarInstr -------------------------------
(***************************************************************************)
(* Decode and execute of qar_core.v as functions: what one instruction     *)
(* does to the registers, the CSRs and the program counter, given its      *)
(* operands.  Instructions are records; the opcodes stand for the classes  *)
(* the decoder tells apart (ADDI and ADD for all of OP-IMM, OP, LUI and    *)
(* AUIPC, BEQ and BNE for the branches).  Words have WordBits bits.  A CSR *)
(* is packed: bit 0 of mstatus is MIE, bit 1 is MPIE; bit 0 of mie and mip *)
(* is the timer, bit 1 the external source.                                *)
(***************************************************************************)
EXTENDS QarAddr

CONSTANTS
  WordBits,       \* width of a data word
  Reg,            \* register numbers, with 0
  Addr,           \* addresses of the data memory
  MtvecReset      \* the reset value of mtvec

\* 2^i, for the positions of a word and its width
Pow2[i \in 0 .. WordBits] == IF i = 0 THEN 1 ELSE 2 * Pow2[i - 1]

WordSpan == Pow2[WordBits]
Data == 0 .. WordSpan - 1

\* Three bits hold the cause codes below.
ASSUME InstrAssumption ==
  /\ WordBits \in Nat /\ WordBits >= 3
  /\ PcSpan <= WordSpan
  /\ 0 \in Reg
  /\ Addr \subseteq Data
  /\ MtvecReset \in PC

CsrName == {"mstatus", "mtvec", "mepc", "mcause", "mie", "mip", "irqprio", "irqack"}

Op == {"NOP", "ADDI", "ADD", "BADOP", "LW", "SW", "BEQ", "BNE", "JAL", "JALR",
       "CSRRW", "CSRRS", "CSRRC", "ECALL", "MRET", "ILLEGAL"}

Instr == [op: Op, rd: Reg, rs1: Reg, rs2: Reg, imm: Data, csr: CsrName]

\* Four distinct words for 11, 2, 32'h80000007 and 32'h8000000B.
MCAUSE_ECALL == 1
MCAUSE_ILLEGAL == 2
MCAUSE_TIMER_IRQ == 3
MCAUSE_EXT_IRQ == 4

--------------------------------------------------------------------------------
(* Words *)

Plus(a, b) == (a + b) % WordSpan

Bit == 0 .. WordBits - 1

BitOf(w, i) == (w \div Pow2[i]) % 2 = 1

WithBit(w, i, b) ==
  IF b = BitOf(w, i) THEN w ELSE IF b THEN w + Pow2[i] ELSE w - Pow2[i]

\* the word with 1 at the positions of bits
FromBits(bits) ==
  LET sum[i \in 0 .. WordBits] ==
        IF i = 0 THEN 0 ELSE sum[i - 1] + (IF i - 1 \in bits THEN Pow2[i - 1] ELSE 0)
  IN  sum[WordBits]

OrBits(a, b) == FromBits({i \in Bit : BitOf(a, i) \/ BitOf(b, i)})
ClearBits(a, b) == FromBits({i \in Bit : BitOf(a, i) /\ ~BitOf(b, i)})

--------------------------------------------------------------------------------
(* One instruction; a and b are the values of rs1 and rs2 *)

UsesRs1(ins) ==
  ins.op \in {"ADDI", "ADD", "BADOP", "LW", "SW", "BEQ", "BNE", "JALR",
              "CSRRW", "CSRRS", "CSRRC"}

UsesRs2(ins) == ins.op \in {"ADD", "BADOP", "SW", "BEQ", "BNE"}

\* An address outside the data memory selects a peripheral.
Address(ins, a) == Plus(a, ins.imm)
OnDevice(ins, a) == ins.op \in {"LW", "SW"} /\ Address(ins, a) \notin Addr
OnMemory(ins, a) == ins.op \in {"LW", "SW"} /\ Address(ins, a) \in Addr

\* rf_we of the instruction itself; a load from memory writes when it commits,
\* an OP with a reserved funct writes and traps
WritesRd(ins, a) ==
  \/ ins.op \in {"ADDI", "ADD", "BADOP", "JAL", "JALR", "CSRRW", "CSRRS", "CSRRC"}
  \/ ins.op = "LW" /\ OnDevice(ins, a)

CsrRead(csr, name) == IF name = "irqack" THEN 0 ELSE csr[name]

RdValue(ins, pc, a, b, csr, dev) ==
  CASE ins.op = "ADDI" -> Plus(a, ins.imm)
    [] ins.op \in {"ADD", "BADOP"} -> Plus(a, b)
    [] ins.op \in {"JAL", "JALR"} -> Succ(pc)
    [] ins.op \in {"CSRRW", "CSRRS", "CSRRC"} -> CsrRead(csr, ins.csr)
    [] OTHER -> dev

Exception(ins) == ins.op \in {"ECALL", "ILLEGAL", "BADOP"}
Cause(ins) == IF ins.op = "ECALL" THEN MCAUSE_ECALL ELSE MCAUSE_ILLEGAL

\* branch_taken with flush_pipe, and the address it leads to
Jumps(ins, a, b) ==
  \/ ins.op \in {"JAL", "JALR", "MRET"}
  \/ ins.op = "BEQ" /\ a = b
  \/ ins.op = "BNE" /\ a # b

Target(ins, pc, a, csr) ==
  CASE ins.op = "JALR" -> Plus(a, ins.imm) % PcSpan
    [] ins.op = "MRET" -> csr["mepc"] % PcSpan
    [] OTHER -> (pc + ins.imm) % PcSpan

--------------------------------------------------------------------------------
(* Control and status registers *)

CsrReset == [c \in CsrName |-> IF c = "mtvec" THEN MtvecReset ELSE 0]

Mie(csr) == BitOf(csr["mstatus"], 0)
Mpie(csr) == BitOf(csr["mstatus"], 1)

TimerCanFire(csr) == Mie(csr) /\ BitOf(csr["mie"], 0) /\ BitOf(csr["mip"], 0)
ExtCanFire(csr) == Mie(csr) /\ BitOf(csr["mie"], 1) /\ BitOf(csr["mip"], 1)
TakeTimer(csr) == TimerCanFire(csr) /\ (~ExtCanFire(csr) \/ csr["irqprio"] = 0)
TakeExt(csr) == ExtCanFire(csr) /\ (~TimerCanFire(csr) \/ csr["irqprio"] = 1)
TakeIrq(csr) == TakeTimer(csr) \/ TakeExt(csr)
IrqCause(csr) == IF TakeTimer(csr) THEN MCAUSE_TIMER_IRQ ELSE MCAUSE_EXT_IRQ
Vector(csr) == csr["mtvec"] % PcSpan

\* CSRRS and CSRRC with rs1 = x0 do not write.
WritesCsr(ins) ==
  ins.op = "CSRRW" \/ (ins.op \in {"CSRRS", "CSRRC"} /\ ins.rs1 # 0)

CsrData(ins, a, csr) ==
  LET old == CsrRead(csr, ins.csr) IN
  CASE ins.op = "CSRRW" -> a
    [] ins.op = "CSRRS" -> OrBits(old, a)
    [] ins.op = "CSRRC" -> ClearBits(old, a)

\* mip mirrors the interrupt levels at every edge, whatever it held.
Mirrored(csr, timer, ext) ==
  [csr EXCEPT !["mip"] = WithBit(WithBit(@, 0, timer), 1, ext)]

\* A CSR instruction writes its register; a write to mip replaces the mirror,
\* an acknowledge of the external source also clears its pending bit.
AfterWrite(csr, timer, ext, ins, a) ==
  LET data == CsrData(ins, a, csr)
      mirror == Mirrored(csr, timer, ext)
  IN  CASE ins.csr = "mip" -> [csr EXCEPT !["mip"] = data]
        [] ins.csr = "irqack" ->
             IF BitOf(data, 1) THEN [mirror EXCEPT !["mip"] = WithBit(@, 1, FALSE)]
             ELSE mirror
        [] ins.csr = "irqprio" -> [mirror EXCEPT !["irqprio"] = data % 2]
        [] OTHER -> [mirror EXCEPT ![ins.csr] = data]

\* The strobes irq_timer_ack and irq_external_ack that an acknowledge raises.
Strobes(ins, a, csr) ==
  {s \in {"timer", "external"} :
     /\ WritesCsr(ins) /\ ins.csr = "irqack"
     /\ BitOf(CsrData(ins, a, csr), IF s = "timer" THEN 0 ELSE 1)}

\* Trap entry: mepc, mcause, and MIE saved into MPIE and cleared.  old is the
\* state before the edge, new what a CSR write of the same edge left.
TrapEntry(old, new, pc, cause) ==
  [new EXCEPT !["mepc"] = pc,
              !["mcause"] = cause,
              !["mstatus"] = WithBit(WithBit(@, 1, Mie(old)), 0, FALSE)]

\* mutant of TrapReturn: MIE is not restored
TrapReturnMasked(csr) == [csr EXCEPT !["mstatus"] = WithBit(@, 1, TRUE)]

\* MRET: MIE restored from MPIE, MPIE set.
TrapReturn(csr) ==
  [csr EXCEPT !["mstatus"] = WithBit(WithBit(@, 0, Mpie(csr)), 1, TRUE)]
================================================================================
