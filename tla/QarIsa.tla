--------------------------------- MODULE QarIsa --------------------------------
(***************************************************************************)
(* What the core promises to a program: one instruction after the other,   *)
(* each taking effect at once, and interrupts taken between instructions   *)
(* with mepc the address of the instruction that is due.  No pipeline, no  *)
(* wait states.                                                            *)
(***************************************************************************)
EXTENDS QarInstr

CONSTANT Levels   \* the values the interrupt inputs may take

VARIABLES
  imem,           \* the program
  pc,             \* the address of the instruction that is due
  regs,           \* the register file
  mem,            \* the data memory
  csr,            \* the control and status registers
  dev,            \* the peripherals: one register that a read advances
  ack             \* the acknowledge strobes of this cycle

vars == <<imem, pc, regs, mem, csr, dev, ack>>

Init ==
  /\ imem \in [PC -> Instr]
  /\ pc = 0
  /\ regs = [r \in Reg |-> 0]
  /\ mem = [a \in Addr |-> 0]
  /\ csr = CsrReset
  /\ dev = 0
  /\ ack = {}

WriteReg(r, v) == [regs EXCEPT ![r] = IF r = 0 THEN 0 ELSE v]

\* Registers, memory and peripherals after the instruction that is due.
Effects(ins, a, b) ==
  /\ regs' = IF WritesRd(ins, a) THEN WriteReg(ins.rd, RdValue(ins, pc, a, b, csr, dev))
             ELSE IF ins.op = "LW" THEN WriteReg(ins.rd, mem[Address(ins, a)])
             ELSE regs
  /\ mem' = IF ins.op = "SW" /\ OnMemory(ins, a)
            THEN [mem EXCEPT ![Address(ins, a)] = b] ELSE mem
  /\ dev' = IF OnDevice(ins, a) THEN (IF ins.op = "SW" THEN b ELSE Plus(dev, 1))
            ELSE dev

Execute(timer, ext) ==
  LET ins == imem[pc]
      a == regs[ins.rs1]
      b == regs[ins.rs2]
      written == IF WritesCsr(ins) THEN AfterWrite(csr, timer, ext, ins, a)
                 ELSE Mirrored(csr, timer, ext)
  IN
  /\ Effects(ins, a, b)
  /\ csr' = IF Exception(ins) THEN TrapEntry(csr, written, pc, Cause(ins))
            ELSE IF ins.op = "MRET" THEN TrapReturn(written)
            ELSE written
  /\ pc' = IF Exception(ins) THEN Vector(csr)
           ELSE IF Jumps(ins, a, b) THEN Target(ins, pc, a, csr)
           ELSE Succ(pc)
  /\ ack' = Strobes(ins, a, csr)
  /\ UNCHANGED imem

Interrupt(timer, ext) ==
  /\ TakeIrq(csr)
  /\ csr' = TrapEntry(csr, Mirrored(csr, timer, ext), pc, IrqCause(csr))
  /\ pc' = Vector(csr)
  /\ ack' = {}
  /\ UNCHANGED <<imem, regs, mem, dev>>

\* The interrupt inputs are sampled while the next instruction is on its way.
Sample(timer, ext) ==
  /\ csr' = Mirrored(csr, timer, ext)
  /\ ack' = {}
  /\ UNCHANGED <<imem, pc, regs, mem, dev>>

Next == \E timer, ext \in Levels :
  Execute(timer, ext) \/ Interrupt(timer, ext) \/ Sample(timer, ext)

Spec == Init /\ [][Next]_vars
================================================================================
