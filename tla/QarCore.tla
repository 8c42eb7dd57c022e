-------------------------------- MODULE QarCore --------------------------------
(***************************************************************************)
(* The pipeline of qar-core/rtl/qar_core.v: the fetch unit of QarFetch,    *)
(* the execute stage with its load-use interlock and forwarding, the data  *)
(* bus with one outstanding access, the register file, the CSRs and the    *)
(* trap logic.  An action is one clock edge; imemReady and memReady are    *)
(* the answers of the two buses in that cycle, timer and ext the levels of *)
(* the interrupt inputs (mtime >= mtimecmp and the peripherals included).  *)
(***************************************************************************)
EXTENDS QarFetch, QarInstr

CONSTANT Levels   \* the values the interrupt inputs may take

\* What the execute stage, the data bus and the write port of the register file hold
\* when they are busy.
Executing == [pc: PC, instr: Instr, a: Data, b: Data]
DataAccess == [load: BOOLEAN, rd: Reg, addr: Addr, data: Data]
RegWrite == [rd: Reg, value: Data]

ASSUME CoreAssumption ==
  /\ Word = Instr
  /\ Levels \subseteq BOOLEAN
  /\ None \notin Data \cup Executing \cup DataAccess \cup RegWrite

VARIABLES
  ex,             \* the execute stage: None or the instruction and its operands
  dmem,           \* the access on the data bus: None or what was latched for it
  regs,           \* the register file
  mem,            \* the data memory, external to the core
  csr,            \* the control and status registers
  dev,            \* the peripherals: one register that a read advances
  ack             \* the strobes irq_timer_ack and irq_external_ack

coreVars == <<fetchVars, ex, dmem, regs, mem, csr, dev, ack>>

CoreInit ==
  /\ FetchInit
  /\ ex = None
  /\ dmem = None
  /\ regs = [r \in Reg |-> 0]
  /\ mem = [a \in Addr |-> 0]
  /\ csr = CsrReset
  /\ dev = 0
  /\ ack = {}

--------------------------------------------------------------------------------
(* The wires of the execute stage in one cycle *)

StartMem == ex # None /\ OnMemory(ex.instr, ex.a) /\ dmem = None

\* mutants of StallEx: EX does not wait for its access, EX does not see the answer
StallExNotAtStart(memReady) == dmem # None /\ ~memReady
StallExForEver(memReady) == dmem # None \/ StartMem

\* a pending access that does not answer, or one that starts
StallEx(memReady) == (dmem # None /\ ~memReady) \/ StartMem

\* mutant of LoadCommit: the load does not wait for the answer
LoadCommitEarly(memReady) == dmem # None /\ dmem.load

LoadCommit(memReady) == dmem # None /\ memReady /\ dmem.load

\* rf_we, rf_waddr and rf_wdata: a load that commits takes the write port from
\* whatever is in EX
WriteBack(memReady) ==
  IF LoadCommit(memReady) THEN [rd |-> dmem.rd, value |-> mem[dmem.addr]]
  ELSE IF ex # None /\ WritesRd(ex.instr, ex.a)
  THEN [rd |-> ex.instr.rd,
        value |-> RdValue(ex.instr, ex.pc, ex.a, ex.b, csr, dev)]
  ELSE None

\* an operand of ID: forwarded from the write port, or read from the file
Operand(r, uses, memReady) ==
  LET wb == WriteBack(memReady) IN
  IF ex # None /\ ~StallEx(memReady) /\ wb # None /\ uses /\ r # 0 /\ wb.rd = r
  THEN wb.value ELSE regs[r]

LoadUseHazard ==
  /\ id # None /\ dmem # None /\ dmem.load /\ dmem.rd # 0
  /\ \/ UsesRs1(id.instr) /\ id.instr.rs1 = dmem.rd
     \/ UsesRs2(id.instr) /\ id.instr.rs2 = dmem.rd

\* ID moves to EX
Drain(memReady) == id # None /\ ~LoadUseHazard /\ (ex = None \/ ~StallEx(memReady))

Trapping == (ex # None /\ Exception(ex.instr)) \/ TakeIrq(csr)
Flushing == ex # None /\ Jumps(ex.instr, ex.a, ex.b)

\* the path that a trap, a jump, a taken branch or MRET starts in this cycle
RedirectTo ==
  IF Trapping THEN Vector(csr)
  ELSE IF Flushing THEN Target(ex.instr, ex.pc, ex.a, csr)
  ELSE None

\* mutant of TrapPc: the IF buffer is forgotten
TrapPcWithoutIf ==
  IF ex # None THEN ex.pc ELSE IF id # None THEN id.pc ELSE pc_fetch

\* trap_mepc_value: the oldest valid stage, else the fetch counter
TrapPc ==
  IF ex # None THEN ex.pc
  ELSE IF id # None THEN id.pc
  ELSE IF if_buf # None THEN if_buf.pc
  ELSE pc_fetch

TrapCause == IF ex # None /\ Exception(ex.instr) THEN Cause(ex.instr) ELSE IrqCause(csr)

--------------------------------------------------------------------------------
(* Registers, buses and CSRs: what every edge does, trap or not *)

Commit(memReady) ==
  LET wb == WriteBack(memReady)
      onDevice == ex # None /\ OnDevice(ex.instr, ex.a)
  IN
  /\ regs' = IF wb = None \/ wb.rd = 0 THEN regs ELSE [regs EXCEPT ![wb.rd] = wb.value]
  /\ mem' = IF dmem # None /\ memReady /\ ~dmem.load
            THEN [mem EXCEPT ![dmem.addr] = dmem.data] ELSE mem
  /\ dmem' = IF StartMem
             THEN [load |-> ex.instr.op = "LW", rd |-> ex.instr.rd,
                   addr |-> Address(ex.instr, ex.a), data |-> ex.b]
             ELSE IF memReady THEN None ELSE dmem
  /\ dev' = IF ~onDevice THEN dev
            ELSE IF ex.instr.op = "SW" THEN ex.b ELSE Plus(dev, 1)
  /\ ack' = IF ex = None THEN {} ELSE Strobes(ex.instr, ex.a, csr)

\* The CSRs after the write of a CSR instruction, before trap entry or return.
Written(timer, ext) ==
  IF ex # None /\ WritesCsr(ex.instr) THEN AfterWrite(csr, timer, ext, ex.instr, ex.a)
  ELSE Mirrored(csr, timer, ext)

--------------------------------------------------------------------------------
(* The three kinds of clock edge *)

\* An exception in EX, or an interrupt: the pipeline is flushed whatever EX and
\* the data bus are doing.
Trap(memReady, timer, ext) ==
  /\ Trapping
  /\ Redirect(Vector(csr))
  /\ ex' = None
  /\ Commit(memReady)
  /\ csr' = TrapEntry(csr, Written(timer, ext), TrapPc, TrapCause)

\* A taken branch, a jump or MRET.
Jump(memReady, timer, ext) ==
  /\ ~Trapping
  /\ Flushing
  /\ Redirect(Target(ex.instr, ex.pc, ex.a, csr))
  /\ ex' = None
  /\ Commit(memReady)
  /\ csr' = IF ex.instr.op = "MRET" THEN TrapReturn(Written(timer, ext))
            ELSE Written(timer, ext)

\* Any other edge: ID moves to EX when it can, EX empties when it is done.
Flow(imemReady, memReady, timer, ext) ==
  /\ ~Trapping
  /\ ~Flushing
  /\ Advance(Drain(memReady), imemReady)
  /\ ex' = IF Drain(memReady)
           THEN [pc |-> id.pc, instr |-> id.instr,
                 a |-> Operand(id.instr.rs1, UsesRs1(id.instr), memReady),
                 b |-> Operand(id.instr.rs2, UsesRs2(id.instr), memReady)]
           ELSE IF ~StallEx(memReady) THEN None ELSE ex
  /\ Commit(memReady)
  /\ csr' = Written(timer, ext)

\* One edge; a bus answers only a request.
Edge(imemReady, memReady, timer, ext) ==
  /\ imemReady => fetch_req # None
  /\ memReady => dmem # None
  /\ \/ Trap(memReady, timer, ext)
     \/ Jump(memReady, timer, ext)
     \/ Flow(imemReady, memReady, timer, ext)

CoreNext ==
  \E imemReady, memReady \in BOOLEAN, timer, ext \in Levels :
    Edge(imemReady, memReady, timer, ext)

\* The clock runs and the wait states of both buses end.
CoreFairness ==
  /\ WF_coreVars(CoreNext)
  /\ WF_coreVars(\E memReady \in BOOLEAN, timer, ext \in Levels :
                   fetch_req # None /\ Edge(TRUE, memReady, timer, ext))
  /\ WF_coreVars(\E imemReady \in BOOLEAN, timer, ext \in Levels :
                   dmem # None /\ Edge(imemReady, TRUE, timer, ext))

CoreSpec == CoreInit /\ [][CoreNext]_coreVars
CoreFairSpec == CoreSpec /\ CoreFairness

--------------------------------------------------------------------------------
(* Invariants *)

\* Every stage, bus and register of the core holds a value of its kind.
CoreTypeOK ==
  /\ FetchTypeOK
  /\ ex \in Executing \cup {None}
  /\ dmem \in DataAccess \cup {None}
  /\ regs \in [Reg -> Data] /\ regs[0] = 0
  /\ mem \in [Addr -> Data]
  /\ csr \in [CsrName -> Data]
  /\ dev \in Data
  /\ ack \subseteq {"timer", "external"}

\* The address of the instruction a program is about to execute.
ArchPc == IF ex # None THEN ex.pc ELSE IF id # None THEN id.pc ELSE Due

\* The stages hold one run of consecutive addresses: EX is followed by its
\* successor, in ID or still in the fetch unit, whatever interlocks and wait
\* states kept them apart.
PipelineInOrder ==
  /\ ProgramOrder
  /\ ex # None => (IF id # None THEN id.pc ELSE Due) = Succ(ex.pc)

\* A pending access of the data bus belongs to the instruction in EX, which
\* holds its place until the access is answered.
AccessOwned ==
  dmem # None =>
    /\ ex # None
    /\ OnMemory(ex.instr, ex.a)
    /\ dmem.addr = Address(ex.instr, ex.a)
    /\ dmem.load = (ex.instr.op = "LW")

\* A program that enables no interrupt source.
EnablesNoSource(program) ==
  \A p \in PC : WritesCsr(program[p]) => program[p].csr # "mie"

\* What EX works with is what the program would read there and then: its own word, and
\* operands equal to the registers, although they were read or forwarded edges ago.
OperandsHold ==
  ex # None =>
    /\ ex.instr = imem[ex.pc]
    /\ UsesRs1(ex.instr) => ex.a = regs[ex.instr.rs1]
    /\ UsesRs2(ex.instr) => ex.b = regs[ex.instr.rs2]

\* A pending access carries the destination and the value of the instruction in EX.
AccessHolds ==
  dmem # None => dmem.rd = ex.instr.rd /\ dmem.data = ex.b

\* The inductive invariant behind ImplementsIsa, for programs that enable no source.
IsaInv ==
  /\ CoreTypeOK /\ StreamInv /\ PipelineInOrder
  /\ AccessOwned /\ AccessHolds /\ OperandsHold
  /\ EnablesNoSource(imem) /\ csr["mie"] = 0

--------------------------------------------------------------------------------
(* Properties *)

Stream == INSTANCE InstrStream WITH next <- Due, redirect <- RedirectTo

\* The fetch unit delivers the instruction stream of InstrStream: whatever the wait
\* states of the bus and the stalls of EX, ID sees every instruction of the path in
\* order with its own word, and the path is left only by a trap, a jump, a taken branch
\* or MRET, at that very edge, for where it goes.
DeliversStream == Stream!Spec

Machine == INSTANCE QarIsa WITH pc <- ArchPc

\* The pipeline executes programs as the one-instruction-at-a-time machine does.
ImplementsIsa == Machine!Spec

\* The core never hangs: EX is left and filled again and again.
CoreProgress == []<><<TRUE>>_ex

\* A handler that ends in MRET returns: interrupts are enabled again and again,
\* whatever the wait states, the exceptions and the accesses a trap left behind.
HandlersReturn == []<>Mie(csr)

\* An interrupt is about to be taken in this cycle.
Interrupting == TakeIrq(csr) /\ ~(ex # None /\ Exception(ex.instr))

\* The address an interrupt saves is that of the instruction that is due.
InterruptSavesDuePc ==
  [][Interrupting => csr'["mepc"] = ArchPc]_coreVars

\* An instruction an interrupt will return to has had no effect.  The code does not
\* promise it and does not keep it; no run checks it (see the README).
InterruptedHasNoEffect ==
  [][Interrupting /\ ex # None /\ dmem = None => UNCHANGED <<regs, dev>>]_coreVars

\* Whatever an interrupt hits, it resumes at the instruction that is due or, when
\* that one is still on the instruction bus, at the one after it: never earlier,
\* never further.
IrqResumeBound ==
  [][Interrupting =>
       \/ csr'["mepc"] = ArchPc
       \/ fetch_req = ArchPc /\ csr'["mepc"] = Succ(ArchPc)]_coreVars
================================================================================
