------------------------------- MODULE MCQarCore -------------------------------
(* Programs and values for the constants of QarCore. *)
EXTENDS QarCore

Ins(op, rd, rs1, rs2, imm, c) ==
  [op |-> op, rd |-> rd, rs1 |-> rs1, rs2 |-> rs2, imm |-> imm, csr |-> c]

Nop == Ins("NOP", 0, 0, 0, 0, "mip")
Addi(rd, rs1, imm) == Ins("ADDI", rd, rs1, 0, imm, "mip")
Lw(rd, rs1, imm) == Ins("LW", rd, rs1, 0, imm, "mip")
Sw(rs2, rs1, imm) == Ins("SW", 0, rs1, rs2, imm, "mip")
Jal(rd, imm) == Ins("JAL", rd, 0, 0, imm, "mip")
Csr(op, rd, c, rs1) == Ins(op, rd, rs1, 0, 0, c)
Sys(op) == Ins(op, 0, 0, 0, 0, "mip")

\* data memory at 0 and 1; address 2 and up is a peripheral
MCAddr == {0, 1}

Pool == {
  Addi(1, 0, 1), Addi(2, 1, 2), Ins("ADD", 2, 1, 2, 0, "mip"), Ins("BADOP", 2, 1, 1, 0, "mip"),
  Lw(1, 0, 0), Lw(2, 1, 0), Lw(1, 0, 2), Sw(2, 1, 1), Sw(1, 0, 3),
  Ins("BEQ", 0, 1, 2, 2, "mip"), Ins("BNE", 0, 1, 2, 2, "mip"), Jal(1, 2),
  Ins("JALR", 2, 1, 0, 2, "mip") }

\* those that depend on the data of the ones before them
Readers == {
  Addi(2, 1, 2), Ins("ADD", 2, 1, 2, 0, "mip"), Lw(2, 1, 0), Sw(2, 1, 1),
  Ins("BEQ", 0, 1, 2, 2, "mip"), Ins("JALR", 2, 1, 0, 2, "mip") }

\* every program of two instructions of the pool and a reader, then a halt; the trap
\* handler at 5 reads mepc and halts
Straight == {[p \in PC |->
    CASE p < 3 -> s[p]
      [] p = 5 -> Csr("CSRRS", 1, "mepc", 0)
      [] OTHER -> Jal(0, 0)] : s \in {t \in [0 .. 2 -> Pool] : t[2] \in Readers}}

\* CSR traffic: mip mirrors inputs that move, mstatus is saved and restored,
\* mtvec and mepc steer; no source is ever enabled in mie
CsrPool == {
  Addi(1, 1, 3), Csr("CSRRW", 1, "mstatus", 1), Csr("CSRRS", 2, "mstatus", 1),
  Csr("CSRRC", 2, "mstatus", 1), Csr("CSRRW", 2, "mip", 1), Csr("CSRRS", 1, "mip", 0),
  Csr("CSRRW", 0, "irqack", 1), Csr("CSRRS", 2, "irqprio", 1), Csr("CSRRW", 2, "mtvec", 1),
  Csr("CSRRC", 1, "mcause", 0), Sys("ECALL"), Sys("MRET"), Sys("ILLEGAL") }

\* after any two of them: a trap, a return, or a read and a write at once
CsrLast == {Csr("CSRRS", 2, "mstatus", 1), Sys("ECALL"), Sys("MRET")}

CsrTraffic == {[p \in PC |->
    CASE p = 0 -> Addi(1, 0, 3)
      [] p \in 1 .. 3 -> s[p]
      [] p = 4 -> Jal(0, 0)
      [] p = 5 -> Csr("CSRRW", 2, "mepc", 1)
      [] p = 6 -> Sys("MRET")
      [] OTHER -> Nop] : s \in {t \in [1 .. 3 -> CsrPool] : t[3] \in CsrLast}}

Sequential == Straight \cup CsrTraffic

\* interrupts enabled, a loop of two instructions, and a handler of one
\* instruction before MRET
Loop(s, h) == [p \in PC |->
    CASE p = 0 -> Addi(1, 0, 3)
      [] p = 1 -> Csr("CSRRW", 0, "mie", 1)
      [] p = 2 -> Csr("CSRRW", 0, "mstatus", 1)
      [] p \in {3, 4} -> s[p - 2]
      [] p = 5 -> Jal(0, PcSpan - 2)
      [] p = 6 -> h
      [] p = 7 -> Sys("MRET")]

\* a straight line that wraps around the address space: no source is enabled in mie, and
\* nothing ever redirects it
Line == [p \in PC |->
    CASE p = 0 -> Addi(1, 0, 3)
      [] p = 1 -> Csr("CSRRW", 0, "mstatus", 1)
      [] p = 3 -> Lw(2, 0, 1)
      [] p = 6 -> Sw(2, 0, 1)
      [] OTHER -> Nop]

Interrupted == {
  Line,
  Loop(<<Lw(2, 0, 1), Addi(2, 2, 0)>>, Sw(2, 0, 1)),
  Loop(<<Sw(1, 0, 1), Lw(2, 0, 1)>>, Csr("CSRRW", 0, "irqack", 1)),
  Loop(<<Addi(2, 0, 1), Sw(2, 0, 1)>>, Lw(2, 0, 0)) }
================================================================================
