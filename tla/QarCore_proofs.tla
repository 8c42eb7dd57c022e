----------------------------- MODULE QarCore_proofs -----------------------------
(***************************************************************************)
(* Theorems about the whole core, for every word width, register file,     *)
(* data memory, program and timing of the two buses.                       *)
(***************************************************************************)
EXTENDS QarCore, QarFetch_proofs, WellFoundedInduction

--------------------------------------------------------------------------------
(* Powers of two and words made of bits *)

LEMMA LessIsRelated == \A m, n \in Nat : m < n => <<m, n>> \in OpToRel(<, Nat)
  BY DEF OpToRel

\* Induction for a set: the least number outside it would have its predecessor inside.
LEMMA NatSetInduction ==
  ASSUME NEW S, 0 \in S, \A n \in Nat : n \in S => n + 1 \in S
  PROVE  Nat \subseteq S
<1> SUFFICES ASSUME Nat \ S # {} PROVE FALSE
  OBVIOUS
<1>1. PICK n \in Nat \ S : \A m \in Nat \ S : <<m, n>> \notin OpToRel(<, Nat)
  <2>1. Nat \ S \subseteq Nat
    OBVIOUS
  <2> QED BY <2>1, NatLessThanWellFounded, WFMin
<1>2. PICK m \in Nat : n = m + 1 /\ m < n
  OBVIOUS
<1>3. m \notin S
  BY <1>2
<1>4. <<m, n>> \in OpToRel(<, Nat)
  BY <1>2, LessIsRelated, Zenon
<1> QED BY <1>1, <1>3, <1>4, Zenon

LEMMA Pow2Exists ==
  \A n \in Nat : \E f : f = [i \in 0 .. n |-> IF i = 0 THEN 1 ELSE 2 * f[i - 1]]
<1> DEFINE S == {n \in Nat : \E f : f = [i \in 0 .. n |-> IF i = 0 THEN 1 ELSE 2 * f[i - 1]]}
<1>1. 0 \in S
  <2>1. [i \in 0 .. 0 |-> 1]
          = [i \in 0 .. 0 |-> IF i = 0 THEN 1 ELSE 2 * [j \in 0 .. 0 |-> 1][i - 1]]
    OBVIOUS
  <2> QED BY <2>1
<1>2. ASSUME NEW n \in Nat, n \in S PROVE n + 1 \in S
  <2>1. PICK f : f = [i \in 0 .. n |-> IF i = 0 THEN 1 ELSE 2 * f[i - 1]]
    BY <1>2
  <2> DEFINE g == [i \in 0 .. n + 1 |-> IF i <= n THEN f[i] ELSE 2 * f[n]]
  <2>2. \A i \in 0 .. n + 1 : g[i] = IF i = 0 THEN 1 ELSE 2 * g[i - 1]
    <3> TAKE i \in 0 .. n + 1
    <3>1. CASE i = 0
      BY <2>1, <3>1
    <3>2. CASE i \in 1 .. n
      <4>1. i - 1 \in 0 .. n /\ i \in 0 .. n
        BY <3>2
      <4> QED BY <2>1, <3>2, <4>1
    <3>3. CASE i = n + 1
      BY <3>3
    <3> QED BY <3>1, <3>2, <3>3
  <2>3. g = [i \in 0 .. n + 1 |-> IF i = 0 THEN 1 ELSE 2 * g[i - 1]]
    BY <2>2
  <2> HIDE DEF g
  <2>4. \E e : e = [i \in 0 .. n + 1 |-> IF i = 0 THEN 1 ELSE 2 * e[i - 1]]
    BY <2>3, Zenon
  <2>5. n + 1 \in Nat
    OBVIOUS
  <2> QED BY <2>4, <2>5, Zenon
<1> HIDE DEF S
<1>3. Nat \subseteq S
  BY <1>1, <1>2, NatSetInduction
<1> QED BY <1>3 DEF S

LEMMA Pow2Values ==
  /\ DOMAIN Pow2 = 0 .. WordBits
  /\ Pow2[0] = 1
  /\ \A i \in 0 .. WordBits : i # 0 => Pow2[i] = 2 * Pow2[i - 1]
<1> DEFINE IsPow2(f) == f = [i \in 0 .. WordBits |-> IF i = 0 THEN 1 ELSE 2 * f[i - 1]]
<1>1. Pow2 = CHOOSE f : IsPow2(f)
  BY DEF Pow2
<1>2. \E f : IsPow2(f)
  BY Pow2Exists, InstrAssumption
<1> HIDE DEF IsPow2
<1>3. IsPow2(Pow2)
  BY <1>1, <1>2, Zenon
<1>4. Pow2 = [i \in 0 .. WordBits |-> IF i = 0 THEN 1 ELSE 2 * Pow2[i - 1]]
  BY <1>3 DEF IsPow2
<1> QED BY <1>4, InstrAssumption

\* A word has a multiple of eight values: the two lowest bits are bits of it.
LEMMA WordSpanValue ==
  /\ \E q \in Nat \ {0} : WordSpan = 8 * q
  /\ WordSpan \in Nat \ {0}
  /\ Pow2[0] = 1 /\ Pow2[1] = 2
  /\ \A i \in 0 .. WordBits : Pow2[i] \in Nat \ {0}
<1> DEFINE S == {n \in Nat : n <= WordBits => Pow2[n] \in Nat \ {0}}
<1>1. 0 \in S
  BY Pow2Values
<1>2. ASSUME NEW n \in Nat, n \in S PROVE n + 1 \in S
  BY <1>2, Pow2Values, InstrAssumption
<1> HIDE DEF S
<1>3. Nat \subseteq S
  BY <1>1, <1>2, NatSetInduction
<1>4. \A i \in 0 .. WordBits : Pow2[i] \in Nat \ {0}
  BY <1>3, InstrAssumption DEF S
<1>5. Pow2[1] = 2
  BY Pow2Values, InstrAssumption
<1>6. WordSpan = 8 * Pow2[WordBits - 3]
  <2>1. /\ Pow2[WordBits] = 2 * Pow2[WordBits - 1]
        /\ Pow2[WordBits - 1] = 2 * Pow2[WordBits - 2]
        /\ Pow2[WordBits - 2] = 2 * Pow2[WordBits - 3]
    BY Pow2Values, InstrAssumption
  <2>2. Pow2[WordBits - 3] \in Nat
    BY <1>4, InstrAssumption
  <2> QED BY <2>1, <2>2 DEF WordSpan
<1>7. Pow2[WordBits - 3] \in Nat \ {0} /\ WordSpan \in Nat \ {0}
  BY <1>4, InstrAssumption DEF WordSpan
<1> QED BY <1>4, <1>5, <1>6, <1>7, Pow2Values

LEMMA SumExists ==
  ASSUME NEW g
  PROVE  \A n \in Nat : \E f : f = [i \in 0 .. n |-> IF i = 0 THEN 0 ELSE f[i - 1] + g[i - 1]]
<1> DEFINE S == {n \in Nat :
                   \E f : f = [i \in 0 .. n |-> IF i = 0 THEN 0 ELSE f[i - 1] + g[i - 1]]}
<1>1. 0 \in S
  <2>1. [i \in 0 .. 0 |-> 0]
          = [i \in 0 .. 0 |-> IF i = 0 THEN 0 ELSE [j \in 0 .. 0 |-> 0][i - 1] + g[i - 1]]
    OBVIOUS
  <2> QED BY <2>1
<1>2. ASSUME NEW n \in Nat, n \in S PROVE n + 1 \in S
  <2>1. PICK f : f = [i \in 0 .. n |-> IF i = 0 THEN 0 ELSE f[i - 1] + g[i - 1]]
    BY <1>2
  <2> DEFINE h == [i \in 0 .. n + 1 |-> IF i <= n THEN f[i] ELSE f[n] + g[n]]
  <2>2. \A i \in 0 .. n + 1 : h[i] = IF i = 0 THEN 0 ELSE h[i - 1] + g[i - 1]
    <3> TAKE i \in 0 .. n + 1
    <3>1. CASE i = 0
      BY <2>1, <3>1
    <3>2. CASE i \in 1 .. n
      <4>1. i - 1 \in 0 .. n /\ i \in 0 .. n
        BY <3>2
      <4> QED BY <2>1, <3>2, <4>1
    <3>3. CASE i = n + 1
      BY <3>3
    <3> QED BY <3>1, <3>2, <3>3
  <2>3. h = [i \in 0 .. n + 1 |-> IF i = 0 THEN 0 ELSE h[i - 1] + g[i - 1]]
    BY <2>2
  <2> HIDE DEF h
  <2>4. \E e : e = [i \in 0 .. n + 1 |-> IF i = 0 THEN 0 ELSE e[i - 1] + g[i - 1]]
    BY <2>3, Zenon
  <2>5. n + 1 \in Nat
    OBVIOUS
  <2> QED BY <2>4, <2>5, Zenon
<1> HIDE DEF S
<1>3. Nat \subseteq S
  BY <1>1, <1>2, NatSetInduction
<1> QED BY <1>3 DEF S

\* The word made of any bits fits the width.
LEMMA FromBitsType == ASSUME NEW bits PROVE FromBits(bits) \in Data
<1> DEFINE g == [i \in Nat |-> IF i \in bits THEN Pow2[i] ELSE 0]
           IsSum(f) ==
             f = [i \in 0 .. WordBits |->
                    IF i = 0 THEN 0
                    ELSE f[i - 1] + (IF i - 1 \in bits THEN Pow2[i - 1] ELSE 0)]
           sum == CHOOSE f : IsSum(f)
<1>1. FromBits(bits) = sum[WordBits]
  BY DEF FromBits
<1>2. \E f : IsSum(f)
  <2>1. PICK f : f = [i \in 0 .. WordBits |-> IF i = 0 THEN 0 ELSE f[i - 1] + g[i - 1]]
    BY SumExists, InstrAssumption
  <2>2. \A i \in 0 .. WordBits :
          i # 0 => g[i - 1] = IF i - 1 \in bits THEN Pow2[i - 1] ELSE 0
    BY InstrAssumption
  <2> HIDE DEF g
  <2>3. f = [i \in 0 .. WordBits |->
               IF i = 0 THEN 0 ELSE f[i - 1] + (IF i - 1 \in bits THEN Pow2[i - 1] ELSE 0)]
    BY <2>1, <2>2
  <2> QED BY <2>3, Zenon
<1> HIDE DEF IsSum
<1>3. IsSum(sum)
  BY <1>2, Zenon
<1> HIDE DEF sum
<1>4. \A i \in 0 .. WordBits :
        sum[i] = IF i = 0 THEN 0 ELSE sum[i - 1] + (IF i - 1 \in bits THEN Pow2[i - 1] ELSE 0)
  BY <1>3 DEF IsSum
<1> DEFINE S == {n \in Nat : n <= WordBits => sum[n] \in Nat /\ sum[n] < Pow2[n]}
<1>5. 0 \in S
  BY <1>4, Pow2Values, InstrAssumption
<1>6. ASSUME NEW n \in Nat, n \in S PROVE n + 1 \in S
  <2> SUFFICES ASSUME n + 1 <= WordBits
               PROVE  sum[n + 1] \in Nat /\ sum[n + 1] < Pow2[n + 1]
    OBVIOUS
  <2>1. sum[n + 1] = sum[n] + (IF n \in bits THEN Pow2[n] ELSE 0)
    BY <1>4, InstrAssumption
  <2>2. Pow2[n + 1] = 2 * Pow2[n] /\ Pow2[n] \in Nat \ {0}
    <3>1. n + 1 \in 0 .. WordBits /\ n \in 0 .. WordBits /\ n + 1 # 0 /\ (n + 1) - 1 = n
      BY InstrAssumption
    <3>2. Pow2[n + 1] = 2 * Pow2[(n + 1) - 1]
      BY <3>1, Pow2Values, Zenon
    <3> QED BY <3>1, <3>2, WordSpanValue
  <2>3. sum[n] \in Nat /\ sum[n] < Pow2[n]
    BY <1>6, InstrAssumption
  <2> QED BY <2>1, <2>2, <2>3
<1> HIDE DEF S
<1>7. Nat \subseteq S
  BY <1>5, <1>6, NatSetInduction
<1>8. sum[WordBits] \in Nat /\ sum[WordBits] < Pow2[WordBits]
  BY <1>7, InstrAssumption DEF S
<1> QED BY <1>1, <1>8, WordSpanValue DEF Data, WordSpan

--------------------------------------------------------------------------------
(* Words *)

LEMMA DataValues ==
  /\ 0 \in Data /\ 1 \in Data
  /\ {MCAUSE_ECALL, MCAUSE_ILLEGAL, MCAUSE_TIMER_IRQ, MCAUSE_EXT_IRQ} \subseteq Data
  /\ PC \subseteq Data /\ Addr \subseteq Data /\ MtvecReset \in PC
  /\ Data \subseteq Nat
  BY WordSpanValue, InstrAssumption, PcSpanAssumption
     DEF Data, PC, MCAUSE_ECALL, MCAUSE_ILLEGAL, MCAUSE_TIMER_IRQ, MCAUSE_EXT_IRQ

LEMMA Remainder ==
  ASSUME NEW n \in Nat \ {0}
  PROVE  \A m \in Nat : m % n \in 0 .. n - 1
<1> TAKE m \in Nat
<1> QED BY SMTT(30)

LEMMA PlusType == \A a, b \in Data : Plus(a, b) \in Data
<1> TAKE a, b \in Data
<1>1. a + b \in Nat
  BY DataValues
<1> QED BY <1>1, WordSpanValue, Remainder DEF Plus, Data

LEMMA PcOfWord == \A w \in Nat : w % PcSpan \in PC
  BY PcSpanAssumption, Remainder DEF PC

\* The two low bits of a word can be set and cleared within the word.
LEMMA WithBitType ==
  \A w \in Data, i \in {0, 1}, b \in BOOLEAN : WithBit(w, i, b) \in Data
<1> TAKE w \in Data, i \in {0, 1}, b \in BOOLEAN
<1>1. PICK q \in Nat : WordSpan = 8 * q
  BY WordSpanValue
<1>2. w \in Nat /\ w < 8 * q
  BY <1>1 DEF Data
<1>3. CASE i = 0
  <2>1. WithBit(w, 0, b) = IF b = (w % 2 = 1) THEN w ELSE IF b THEN w + 1 ELSE w - 1
    <3>1. w \div 1 = w
      BY <1>2
    <3> QED BY <3>1, WordSpanValue DEF WithBit, BitOf
  <2> QED BY <1>1, <1>2, <1>3, <2>1 DEF Data
<1>4. CASE i = 1
  <2>1. WithBit(w, 1, b) = IF b = ((w \div 2) % 2 = 1) THEN w ELSE IF b THEN w + 2 ELSE w - 2
    BY WordSpanValue DEF WithBit, BitOf
  <2> QED BY <1>1, <1>2, <1>4, <2>1 DEF Data
<1> QED BY <1>3, <1>4

--------------------------------------------------------------------------------
(* Control and status registers *)

Csrs == [CsrName -> Data]

LEMMA CsrResetType == CsrReset \in Csrs
  BY DataValues DEF CsrReset, Csrs

LEMMA CsrReadType == \A c \in Csrs, n \in CsrName : CsrRead(c, n) \in Data
  BY DataValues DEF CsrRead, Csrs

LEMMA CsrDataType ==
  \A ins \in Instr, a \in Data, c \in Csrs : WritesCsr(ins) => CsrData(ins, a, c) \in Data
  BY FromBitsType DEF WritesCsr, CsrData, OrBits, ClearBits, Instr

LEMMA MirroredType ==
  \A c \in Csrs, timer, ext \in BOOLEAN : Mirrored(c, timer, ext) \in Csrs
<1> TAKE c \in Csrs, timer, ext \in BOOLEAN
<1>1. WithBit(WithBit(c["mip"], 0, timer), 1, ext) \in Data
  BY WithBitType DEF Csrs, CsrName
<1> QED BY <1>1 DEF Mirrored, Csrs

LEMMA AfterWriteType ==
  ASSUME NEW c \in Csrs, NEW timer \in BOOLEAN, NEW ext \in BOOLEAN,
         NEW ins \in Instr, NEW a \in Data, WritesCsr(ins)
  PROVE  AfterWrite(c, timer, ext, ins, a) \in Csrs
<1> DEFINE data == CsrData(ins, a, c)
           mirror == Mirrored(c, timer, ext)
<1>1. data \in Data /\ mirror \in Csrs /\ ins.csr \in CsrName
  BY CsrDataType, MirroredType DEF Instr
<1>2. data % 2 \in Data
  <2>1. \A n \in Nat : n % 2 \in {0, 1}
    OBVIOUS
  <2> HIDE DEF data
  <2> QED BY <1>1, <2>1, DataValues
<1>3. WithBit(mirror["mip"], 1, FALSE) \in Data
  BY <1>1, WithBitType DEF Csrs, CsrName
<1> HIDE DEF data, mirror
<1>4. /\ [c EXCEPT !["mip"] = data] \in Csrs
      /\ [mirror EXCEPT !["mip"] = WithBit(@, 1, FALSE)] \in Csrs
      /\ [mirror EXCEPT !["irqprio"] = data % 2] \in Csrs
      /\ [mirror EXCEPT ![ins.csr] = data] \in Csrs
  BY <1>1, <1>2, <1>3 DEF Csrs
<1> QED BY <1>1, <1>4 DEF AfterWrite, data, mirror

LEMMA TrapEntryType ==
  ASSUME NEW old, NEW new \in Csrs, NEW pc \in PC, NEW cause \in Data
  PROVE  /\ TrapEntry(old, new, pc, cause) \in Csrs
         /\ TrapEntry(old, new, pc, cause)["mepc"] = pc
         /\ TrapEntry(old, new, pc, cause)["mie"] = new["mie"]
<1>1. Mie(old) \in BOOLEAN
  BY DEF Mie, BitOf
<1>2. WithBit(WithBit(new["mstatus"], 1, Mie(old)), 0, FALSE) \in Data
  BY <1>1, WithBitType DEF Csrs, CsrName
<1> QED BY <1>2, DataValues DEF TrapEntry, Csrs, CsrName

LEMMA TrapReturnType ==
  \A c \in Csrs : TrapReturn(c) \in Csrs /\ TrapReturn(c)["mie"] = c["mie"]
<1> TAKE c \in Csrs
<1>1. Mpie(c) \in BOOLEAN
  BY DEF Mpie, BitOf
<1>2. WithBit(WithBit(c["mstatus"], 0, Mpie(c)), 1, TRUE) \in Data
  BY <1>1, WithBitType DEF Csrs, CsrName
<1> QED BY <1>2 DEF TrapReturn, Csrs, CsrName

--------------------------------------------------------------------------------
(* Type correctness *)

LEMMA NoneIsNothing ==
  None \notin Data /\ None \notin Executing /\ None \notin DataAccess /\ None \notin RegWrite
  BY CoreAssumption

LEMMA RdValueType ==
  ASSUME NEW ins \in Instr, NEW pc \in PC, NEW a \in Data, NEW b \in Data, NEW c \in Csrs,
         NEW d \in Data
  PROVE  RdValue(ins, pc, a, b, c, d) \in Data
<1>1. ins.imm \in Data /\ ins.csr \in CsrName
  BY DEF Instr
<1>2. /\ Plus(a, ins.imm) \in Data /\ Plus(a, b) \in Data
      /\ Succ(pc) \in Data /\ CsrRead(c, ins.csr) \in Data
  BY <1>1, PlusType, SuccType, DataValues, CsrReadType
<1> QED BY <1>2 DEF RdValue

LEMMA WriteBackType ==
  ASSUME CoreTypeOK, NEW memReady \in BOOLEAN
  PROVE  WriteBack(memReady) \in RegWrite \cup {None}
<1>1. CASE LoadCommit(memReady)
  <2>1. dmem \in DataAccess
    BY <1>1 DEF LoadCommit, CoreTypeOK
  <2>2. mem[dmem.addr] \in Data /\ dmem.rd \in Reg
    BY <2>1 DEF CoreTypeOK, DataAccess
  <2> QED BY <1>1, <2>2 DEF WriteBack, RegWrite
<1>2. CASE ~LoadCommit(memReady) /\ ex # None /\ WritesRd(ex.instr, ex.a)
  <2>1. /\ ex.instr \in Instr /\ ex.pc \in PC /\ ex.a \in Data /\ ex.b \in Data
        /\ csr \in Csrs /\ dev \in Data
    BY <1>2 DEF CoreTypeOK, Executing, Csrs
  <2>2. RdValue(ex.instr, ex.pc, ex.a, ex.b, csr, dev) \in Data
    BY <2>1, RdValueType
  <2>3. ex.instr.rd \in Reg
    BY <2>1 DEF Instr
  <2> QED BY <1>2, <2>2, <2>3 DEF WriteBack, RegWrite
<1> QED BY <1>1, <1>2 DEF WriteBack

LEMMA OperandType ==
  ASSUME CoreTypeOK, NEW memReady \in BOOLEAN, NEW r \in Reg, NEW uses
  PROVE  Operand(r, uses, memReady) \in Data
<1>1. WriteBack(memReady) # None => WriteBack(memReady).value \in Data
  BY WriteBackType DEF RegWrite
<1>2. regs[r] \in Data
  BY DEF CoreTypeOK
<1> QED BY <1>1, <1>2 DEF Operand

\* What every edge does to registers, buses and devices keeps the types.
LEMMA CommitType ==
  ASSUME CoreTypeOK, NEW memReady \in BOOLEAN, Commit(memReady)
  PROVE  /\ regs' \in [Reg -> Data] /\ regs'[0] = 0
         /\ mem' \in [Addr -> Data]
         /\ dmem' \in DataAccess \cup {None}
         /\ dev' \in Data
         /\ ack' \subseteq {"timer", "external"}
<1> USE DEF Commit
<1>1. regs' \in [Reg -> Data] /\ regs'[0] = 0
  <2>1. CASE WriteBack(memReady) = None
    BY <2>1 DEF CoreTypeOK
  <2>2. CASE WriteBack(memReady) # None
    <3>1. WriteBack(memReady).rd \in Reg /\ WriteBack(memReady).value \in Data
      BY <2>2, WriteBackType DEF RegWrite
    <3> QED BY <3>1, InstrAssumption DEF CoreTypeOK
  <2> QED BY <2>1, <2>2
<1>2. mem' \in [Addr -> Data]
  <2>1. dmem # None => dmem.addr \in Addr /\ dmem.data \in Data
    BY DEF CoreTypeOK, DataAccess
  <2> QED BY <2>1 DEF CoreTypeOK
<1>3. dmem' \in DataAccess \cup {None}
  <2>1. CASE StartMem
    <3>1. /\ (ex.instr.op = "LW") \in BOOLEAN /\ ex.instr.rd \in Reg /\ ex.b \in Data
          /\ Address(ex.instr, ex.a) \in Addr
      BY <2>1 DEF StartMem, OnMemory, CoreTypeOK, Executing, Instr
    <3> QED BY <2>1, <3>1 DEF DataAccess
  <2>2. CASE ~StartMem
    BY <2>2 DEF CoreTypeOK
  <2> QED BY <2>1, <2>2
<1>4. dev' \in Data
  BY PlusType, DataValues DEF CoreTypeOK, Executing
<1>5. ack' \subseteq {"timer", "external"}
  BY DEF Strobes
<1> QED BY <1>1, <1>2, <1>3, <1>4, <1>5

LEMMA WrittenType ==
  ASSUME CoreTypeOK, NEW timer \in BOOLEAN, NEW ext \in BOOLEAN
  PROVE  Written(timer, ext) \in Csrs
<1>1. csr \in Csrs
  BY DEF CoreTypeOK, Csrs
<1>2. ex # None => ex.instr \in Instr /\ ex.a \in Data
  BY DEF CoreTypeOK, Executing
<1> QED BY <1>1, <1>2, MirroredType, AfterWriteType DEF Written

LEMMA TargetType ==
  ASSUME NEW ins \in Instr, NEW pc \in PC, NEW a \in Data, NEW c \in Csrs
  PROVE  Target(ins, pc, a, c) \in PC /\ Vector(c) \in PC
<1>1. ins.imm \in Data /\ c["mepc"] \in Data /\ c["mtvec"] \in Data
  BY DEF Instr, Csrs, CsrName
<1>2. Plus(a, ins.imm) \in Nat /\ c["mepc"] \in Nat /\ c["mtvec"] \in Nat
  BY <1>1, PlusType, DataValues
<1>3. pc + ins.imm \in Nat
  BY <1>1, DataValues
<1> QED BY <1>2, <1>3, PcOfWord DEF Target, Vector

\* An edge of the core is an edge of its fetch unit.
LEMMA EdgeFetches ==
  ASSUME CoreTypeOK, NEW imemReady \in BOOLEAN, NEW memReady \in BOOLEAN,
         NEW timer, NEW ext, Edge(imemReady, memReady, timer, ext)
  PROVE  FetchNext
<1>1. csr \in Csrs /\ (ex # None => ex.instr \in Instr /\ ex.pc \in PC /\ ex.a \in Data)
  BY DEF CoreTypeOK, Csrs, Executing
<1>2. CASE Trap(memReady, timer, ext)
  <2>1. Vector(csr) \in PC
    <3>1. csr["mtvec"] \in Nat
      BY <1>1, DataValues DEF Csrs, CsrName
    <3> QED BY <3>1, PcOfWord DEF Vector
  <2> QED BY <1>2, <2>1 DEF Trap, FetchNext
<1>3. CASE Jump(memReady, timer, ext)
  <2>1. Target(ex.instr, ex.pc, ex.a, csr) \in PC
    BY <1>1, <1>3, TargetType DEF Jump, Flushing
  <2> QED BY <1>3, <2>1 DEF Jump, FetchNext
<1>4. CASE Flow(imemReady, memReady, timer, ext)
  <2>1. Drain(memReady) \in BOOLEAN /\ (Drain(memReady) => id # None)
    BY DEF Drain
  <2>2. Cycle(Drain(memReady), imemReady)
    BY <1>4, <2>1 DEF Flow, Edge, Cycle
  <2> QED BY <2>1, <2>2 DEF FetchNext
<1> QED BY <1>2, <1>3, <1>4 DEF Edge

LEMMA TrapPcType == CoreTypeOK => TrapPc \in PC
  BY DEF CoreTypeOK, FetchTypeOK, Executing, Entry, TrapPc

LEMMA CoreTypeStep == CoreTypeOK /\ [CoreNext]_coreVars => CoreTypeOK'
<1> SUFFICES ASSUME CoreTypeOK, [CoreNext]_coreVars PROVE CoreTypeOK'
  OBVIOUS
<1>1. CASE UNCHANGED coreVars
  BY <1>1 DEF coreVars, fetchVars, CoreTypeOK, FetchTypeOK
<1>2. ASSUME NEW imemReady \in BOOLEAN, NEW memReady \in BOOLEAN,
             NEW timer \in Levels, NEW ext \in Levels, Edge(imemReady, memReady, timer, ext)
      PROVE  CoreTypeOK'
  <2>1. FetchTypeOK'
    <3>1. FetchNext
      BY <1>2, EdgeFetches
    <3> QED BY <3>1, FetchTypeStep DEF CoreTypeOK
  <2>2. Commit(memReady)
    BY <1>2 DEF Edge, Trap, Jump, Flow
  <2>3. Written(timer, ext) \in Csrs /\ csr \in Csrs
    BY CoreAssumption, WrittenType DEF CoreTypeOK, Csrs
  <2>4. csr' \in Csrs
    <3>1. TrapPc \in PC /\ TrapCause \in Data
      BY TrapPcType, DataValues DEF TrapCause, Cause, IrqCause
    <3>2. CASE Trap(memReady, timer, ext)
      BY <2>3, <3>1, <3>2, TrapEntryType DEF Trap
    <3>3. CASE ~Trap(memReady, timer, ext)
      BY <1>2, <2>3, <3>3, TrapReturnType DEF Edge, Jump, Flow
    <3> QED BY <3>2, <3>3
  <2>5. ex' \in Executing \cup {None}
    <3>1. CASE Drain(memReady) /\ Flow(imemReady, memReady, timer, ext)
      <4>1. id.pc \in PC /\ id.instr \in Instr
        BY <3>1, CoreAssumption DEF Drain, CoreTypeOK, FetchTypeOK, Entry
      <4>2. /\ Operand(id.instr.rs1, UsesRs1(id.instr), memReady) \in Data
            /\ Operand(id.instr.rs2, UsesRs2(id.instr), memReady) \in Data
        BY <4>1, OperandType DEF Instr
      <4> QED BY <3>1, <4>1, <4>2 DEF Flow, Executing
    <3>2. CASE ~(Drain(memReady) /\ Flow(imemReady, memReady, timer, ext))
      BY <1>2, <3>2 DEF Edge, Trap, Jump, Flow, CoreTypeOK
    <3> QED BY <3>1, <3>2
  <2> QED
    BY <2>1, <2>2, <2>4, <2>5, CommitType DEF CoreTypeOK, Csrs
<1> QED BY <1>1, <1>2 DEF CoreNext

\* Every register, stage and bus of the core keeps its kind: no arithmetic, CSR write,
\* trap or jump leaves the width of a word or the address space.
THEOREM CoreTypeCorrect == CoreSpec => []CoreTypeOK
<1>1. CoreInit => CoreTypeOK
  <2> SUFFICES ASSUME CoreInit PROVE CoreTypeOK
    OBVIOUS
  <2>1. FetchTypeOK /\ csr \in [CsrName -> Data] /\ dev \in Data
    BY FetchTypeInit, CsrResetType, DataValues DEF CoreInit, Csrs
  <2>2. regs \in [Reg -> Data] /\ regs[0] = 0 /\ mem \in [Addr -> Data]
    BY DataValues, InstrAssumption DEF CoreInit
  <2> QED BY <2>1, <2>2 DEF CoreInit, CoreTypeOK
<1> QED BY <1>1, CoreTypeStep, PTL DEF CoreSpec

\* Whatever EX, the data bus, traps and interrupts do, they drive the fetch unit only as
\* its own specification allows: its theorems hold in the core.
THEOREM CoreDrivesFetch == CoreSpec => FetchSpec
<1>1. CoreInit => FetchInit
  BY DEF CoreInit
<1>2. CoreTypeOK /\ [CoreNext]_coreVars => [FetchNext]_fetchVars
  BY EdgeFetches DEF CoreNext, coreVars
<1> QED BY <1>1, <1>2, CoreTypeCorrect, PTL DEF CoreSpec, FetchSpec

\* Every edge of the core is a step of the instruction stream: a trap or a jump takes the
\* path where control flow asks for it, any other edge stays on it.
LEMMA StreamStep ==
  ASSUME ICACHE_ENTRIES = 0
  PROVE  CoreTypeOK /\ Ordered /\ WordsMatch /\ [CoreNext]_coreVars
           => [Stream!Next]_(Stream!vars)
<1> SUFFICES ASSUME CoreTypeOK, Ordered, WordsMatch, [CoreNext]_coreVars
             PROVE  [Stream!Next]_(Stream!vars)
  OBVIOUS
<1>1. CASE UNCHANGED coreVars
  BY <1>1 DEF coreVars, fetchVars, Stream!vars, Due, RedirectTo, Trapping, Flushing
<1>2. ASSUME NEW imemReady \in BOOLEAN, NEW memReady \in BOOLEAN,
             NEW timer \in Levels, NEW ext \in Levels, Edge(imemReady, memReady, timer, ext)
      PROVE  Stream!Next
  <2>1. /\ csr \in Csrs
        /\ ex # None => ex.instr \in Instr /\ ex.pc \in PC /\ ex.a \in Data
    BY DEF CoreTypeOK, Csrs, Executing
  <2>2. CASE Trap(memReady, timer, ext)
    <3>1. RedirectTo = Vector(csr)
      BY <2>2 DEF Trap, RedirectTo
    <3>2. RedirectTo # None
      <4>1. csr["mtvec"] \in Nat
        BY <2>1, DataValues DEF Csrs, CsrName
      <4>2. Vector(csr) \in PC
        BY <4>1, PcOfWord DEF Vector
      <4> QED BY <3>1, <4>2, NoneIsNoEntry
    <3>3. Redirect(RedirectTo)
      BY <2>2, <3>1 DEF Trap
    <3> QED BY <3>2, <3>3 DEF Redirect, Due, Stream!Next, Stream!Redirect
  <2>3. CASE Jump(memReady, timer, ext)
    <3>1. RedirectTo = Target(ex.instr, ex.pc, ex.a, csr)
      BY <2>3 DEF Jump, RedirectTo
    <3>2. RedirectTo # None
      <4>1. Target(ex.instr, ex.pc, ex.a, csr) \in PC
        BY <2>1, <2>3, TargetType DEF Jump, Flushing
      <4> QED BY <3>1, <4>1, NoneIsNoEntry
    <3>3. Redirect(RedirectTo)
      BY <2>3, <3>1 DEF Jump
    <3> QED BY <3>2, <3>3 DEF Redirect, Due, Stream!Next, Stream!Redirect
  <2>4. CASE Flow(imemReady, memReady, timer, ext)
    <3>1. RedirectTo = None
      BY <2>4 DEF Flow, RedirectTo
    <3>2. Drain(memReady) \in BOOLEAN /\ Cycle(Drain(memReady), imemReady)
      BY <1>2, <2>4 DEF Edge, Flow, Cycle, Drain
    <3>3. /\ imem' = imem
          /\ \/ /\ id = None
                /\ id' = [pc |-> Due, instr |-> imem[Due]]
                /\ Due' = Succ(Due)
             \/ id # None /\ id' = None /\ Due' = Due
             \/ id' = id /\ Due' = Due
      BY <3>2, CycleDelivers DEF CoreTypeOK
    <3> QED
      BY <3>1, <3>3
         DEF Stream!Next, Stream!Deliver, Stream!Consume, Stream!Wait, Stream!Succ, Succ
  <2> QED BY <1>2, <2>2, <2>3, <2>4 DEF Edge
<1> QED BY <1>1, <1>2 DEF CoreNext

\* Without a cache the core feeds its decode register the instruction stream of
\* InstrStream, interrupts, traps and stalls of EX included, and the stream changes its
\* path only where a trap, a jump, a taken branch or MRET takes it.
THEOREM CoreDeliversStream ==
  ASSUME ICACHE_ENTRIES = 0
  PROVE  CoreSpec => DeliversStream
<1>1. CoreInit => Stream!Init
  BY ZeroType DEF CoreInit, FetchInit, Stream!Init, Due, Stream!PC, PC
<1>2. CoreSpec => []Ordered
  BY CoreDrivesFetch, StaysOrdered, PTL
<1>3. CoreSpec => []WordsMatch
  BY CoreDrivesFetch, WordsAlwaysMatch, PTL
<1>4. CoreTypeOK /\ Ordered /\ WordsMatch /\ [CoreNext]_coreVars
        => [Stream!Next]_(Stream!vars)
  BY StreamStep
<1> QED
  BY <1>1, <1>2, <1>3, <1>4, CoreTypeCorrect, PTL
     DEF CoreSpec, DeliversStream, Stream!Spec

--------------------------------------------------------------------------------
(* The order of the stages *)

\* The instruction EX will receive next.
NextPc == IF id # None THEN id.pc ELSE Due

LEMMA RedirectIsNext ==
  ASSUME NEW target, Redirect(target)
  PROVE  NextPc' = target /\ id' = None /\ imem' = imem
  BY DEF Redirect, NextPc, Due

LEMMA CycleKeepsNext ==
  ASSUME ICACHE_ENTRIES = 0, FetchTypeOK, Ordered,
         NEW drain \in BOOLEAN, NEW ready \in BOOLEAN, Cycle(drain, ready)
  PROVE  /\ drain => NextPc' = Succ(id.pc)
         /\ ~drain => NextPc' = NextPc
         /\ imem' = imem
<1>1. CASE IdAccept
  BY <1>1 DEF IdAccept, Cycle, Advance, NextPc, Due
<1>2. CASE ~IdAccept
  <2>1. Due' = Due
    BY <1>2, DueStays
  <2>2. drain => id # None /\ id' = None /\ Due = Succ(id.pc)
    BY <1>2 DEF Cycle, Advance, Ordered, ProgramOrder
  <2>3. ~drain => id' = id
    BY <1>2 DEF Cycle, Advance
  <2> QED BY <2>1, <2>2, <2>3, <1>2 DEF NextPc, Cycle, Advance
<1> QED BY <1>1, <1>2

LEMMA FlowIsCycle ==
  ASSUME NEW imemReady \in BOOLEAN, NEW memReady \in BOOLEAN, NEW timer, NEW ext,
         imemReady => fetch_req # None, Flow(imemReady, memReady, timer, ext)
  PROVE  Drain(memReady) \in BOOLEAN /\ Cycle(Drain(memReady), imemReady)
  BY DEF Flow, Cycle, Drain

LEMMA StagesInOrderStep ==
  ASSUME ICACHE_ENTRIES = 0
  PROVE  CoreTypeOK /\ Ordered /\ PipelineInOrder /\ [CoreNext]_coreVars
           => (ex # None => NextPc = Succ(ex.pc))'
<1> SUFFICES ASSUME CoreTypeOK, Ordered, PipelineInOrder, [CoreNext]_coreVars, ex' # None
             PROVE  NextPc' = Succ(ex'.pc)
  OBVIOUS
<1>1. CASE UNCHANGED coreVars
  BY <1>1 DEF coreVars, fetchVars, PipelineInOrder, NextPc, Due
<1>2. ASSUME NEW imemReady \in BOOLEAN, NEW memReady \in BOOLEAN,
             NEW timer \in Levels, NEW ext \in Levels, Edge(imemReady, memReady, timer, ext)
      PROVE  NextPc' = Succ(ex'.pc)
  <2>1. Flow(imemReady, memReady, timer, ext)
    BY <1>2 DEF Edge, Trap, Jump
  <2>2. Drain(memReady) \in BOOLEAN /\ Cycle(Drain(memReady), imemReady)
    BY <1>2, <2>1, FlowIsCycle DEF Edge
  <2>3. CASE Drain(memReady)
    <3>1. ex'.pc = id.pc
      BY <2>1, <2>3 DEF Flow
    <3> QED BY <2>2, <2>3, <3>1, CycleKeepsNext DEF CoreTypeOK
  <2>4. CASE ~Drain(memReady)
    <3>1. ex' = ex
      BY <2>1, <2>4 DEF Flow
    <3>2. NextPc' = NextPc
      BY <2>2, <2>4, CycleKeepsNext DEF CoreTypeOK
    <3> QED BY <3>1, <3>2 DEF PipelineInOrder, NextPc
  <2> QED BY <2>3, <2>4
<1> QED BY <1>1, <1>2 DEF CoreNext

\* Without a cache the stages hold consecutive instructions through every stall, wait
\* state, jump, trap and interrupt.
THEOREM StagesInOrder ==
  ASSUME ICACHE_ENTRIES = 0
  PROVE  CoreSpec => []PipelineInOrder
<1> DEFINE InEx == ex # None => NextPc = Succ(ex.pc)
<1>1. CoreSpec => []Ordered
  BY CoreDrivesFetch, StaysOrdered, PTL
<1>2. Ordered => (PipelineInOrder <=> InEx)
  BY DEF Ordered, PipelineInOrder, NextPc
<1>3. CoreInit => InEx
  BY DEF CoreInit
<1>4. CoreTypeOK /\ Ordered /\ PipelineInOrder /\ [CoreNext]_coreVars => InEx'
  BY StagesInOrderStep
<1> HIDE DEF InEx
<1> QED BY <1>1, <1>2, <1>3, <1>4, CoreTypeCorrect, PTL DEF CoreSpec

\* Wherever an interrupt strikes, it resumes at the instruction that is due or at the one
\* behind a request that is still on the bus.
THEOREM InterruptResumes ==
  ASSUME ICACHE_ENTRIES = 0
  PROVE  CoreSpec => IrqResumeBound
<1> DEFINE Resumes ==
      Interrupting =>
        \/ csr'["mepc"] = ArchPc
        \/ fetch_req = ArchPc /\ csr'["mepc"] = Succ(ArchPc)
<1>1. CoreTypeOK /\ Ordered /\ [CoreNext]_coreVars => [Resumes]_coreVars
  <2> SUFFICES ASSUME CoreTypeOK, Ordered, CoreNext, Interrupting
               PROVE  \/ csr'["mepc"] = ArchPc
                      \/ fetch_req = ArchPc /\ csr'["mepc"] = Succ(ArchPc)
    OBVIOUS
  <2>1. PICK imemReady \in BOOLEAN, memReady \in BOOLEAN, timer \in Levels, ext \in Levels :
          Edge(imemReady, memReady, timer, ext)
    BY DEF CoreNext
  <2>2. Trap(memReady, timer, ext)
    BY <2>1 DEF Edge, Jump, Flow, Interrupting, Trapping
  <2>3. csr'["mepc"] = TrapPc
    <3>1. Written(timer, ext) \in Csrs
      BY WrittenType, CoreAssumption
    <3>2. TrapPc \in PC /\ TrapCause \in Data
      BY TrapPcType, DataValues DEF TrapCause, Cause, IrqCause
    <3> QED BY <2>2, <3>1, <3>2, TrapEntryType DEF Trap
  <2>4. TrapPc = ArchPc \/ (fetch_req = ArchPc /\ TrapPc = Succ(ArchPc))
    BY DEF TrapPc, ArchPc, Due, Ordered, QueueHasRoom, QueueInOrder
  <2> QED BY <2>3, <2>4
<1>2. CoreSpec => []Ordered
  BY CoreDrivesFetch, StaysOrdered, PTL
<1> QED BY <1>1, <1>2, CoreTypeCorrect, PTL DEF CoreSpec, IrqResumeBound

--------------------------------------------------------------------------------
(* Refinement of QarIsa *)

\* QarIsa has its own copy of QarInstr: the two agree.
LEMMA IsaWords ==
  /\ Machine!PC = PC /\ Machine!Instr = Instr
  /\ Machine!WordSpan = WordSpan /\ Machine!Pow2 = Pow2
  /\ \A p : Machine!Succ(p) = Succ(p)
  /\ \A a, b : Machine!Plus(a, b) = Plus(a, b)
  /\ \A w, i : Machine!BitOf(w, i) = BitOf(w, i)
  /\ \A w, i, b : Machine!WithBit(w, i, b) = WithBit(w, i, b)
  /\ \A bits : Machine!FromBits(bits) = FromBits(bits)
<1>1. Machine!Pow2 = Pow2
  BY DEF Machine!Pow2, Pow2
<1>2. Machine!WordSpan = WordSpan
  BY <1>1 DEF Machine!WordSpan, WordSpan
<1>3. Machine!PC = PC /\ \A p : Machine!Succ(p) = Succ(p)
  BY DEF Machine!PC, PC, Machine!Succ, Succ
<1>4. Machine!Instr = Instr
  BY <1>2 DEF Machine!Instr, Instr, Machine!Op, Op, Machine!Data, Data, Machine!CsrName, CsrName
<1>5. \A a, b : Machine!Plus(a, b) = Plus(a, b)
  BY <1>2 DEF Machine!Plus, Plus
<1>6. \A w, i : Machine!BitOf(w, i) = BitOf(w, i)
  BY <1>1 DEF Machine!BitOf, BitOf
<1>7. \A w, i, b : Machine!WithBit(w, i, b) = WithBit(w, i, b)
  BY <1>1, <1>6 DEF Machine!WithBit, WithBit
<1>8. \A bits : Machine!FromBits(bits) = FromBits(bits)
  BY <1>1 DEF Machine!FromBits, FromBits
<1> QED BY <1>1, <1>2, <1>3, <1>4, <1>5, <1>6, <1>7, <1>8

LEMMA IsaInstructions ==
  /\ \A ins : Machine!WritesCsr(ins) = WritesCsr(ins)
  /\ \A ins : Machine!Exception(ins) = Exception(ins)
  /\ \A ins : Machine!Cause(ins) = Cause(ins)
  /\ \A ins, a : Machine!Address(ins, a) = Address(ins, a)
  /\ \A ins, a : Machine!OnDevice(ins, a) = OnDevice(ins, a)
  /\ \A ins, a : Machine!OnMemory(ins, a) = OnMemory(ins, a)
  /\ \A ins, a : Machine!WritesRd(ins, a) = WritesRd(ins, a)
  /\ \A ins, a, b : Machine!Jumps(ins, a, b) = Jumps(ins, a, b)
  /\ \A ins, pc, a, c : Machine!Target(ins, pc, a, c) = Target(ins, pc, a, c)
  /\ \A ins, pc, a, b, c, d :
       Machine!RdValue(ins, pc, a, b, c, d) = RdValue(ins, pc, a, b, c, d)
<1>1. \A ins, a : Machine!Address(ins, a) = Address(ins, a)
  BY IsaWords DEF Machine!Address, Address
<1>2. \A c, n : Machine!CsrRead(c, n) = CsrRead(c, n)
  BY DEF Machine!CsrRead, CsrRead
<1>3. \A ins : Machine!WritesCsr(ins) = WritesCsr(ins) /\ Machine!Exception(ins) = Exception(ins)
  BY DEF Machine!WritesCsr, WritesCsr, Machine!Exception, Exception
<1>4. \A ins : Machine!Cause(ins) = Cause(ins)
  BY DEF Machine!Cause, Cause, Machine!MCAUSE_ECALL, MCAUSE_ECALL,
         Machine!MCAUSE_ILLEGAL, MCAUSE_ILLEGAL
<1>5. \A ins, a : /\ Machine!OnDevice(ins, a) = OnDevice(ins, a)
                 /\ Machine!OnMemory(ins, a) = OnMemory(ins, a)
  BY <1>1 DEF Machine!OnDevice, OnDevice, Machine!OnMemory, OnMemory
<1>6. \A ins, a : Machine!WritesRd(ins, a) = WritesRd(ins, a)
  BY <1>5, Zenon DEF Machine!WritesRd, WritesRd
<1>7. \A ins, a, b : Machine!Jumps(ins, a, b) = Jumps(ins, a, b)
  BY DEF Machine!Jumps, Jumps
<1>8. \A ins, pc, a, c : Machine!Target(ins, pc, a, c) = Target(ins, pc, a, c)
  BY IsaWords DEF Machine!Target, Target
<1>9. \A ins, pc, a, b, c, d :
        Machine!RdValue(ins, pc, a, b, c, d) = RdValue(ins, pc, a, b, c, d)
  BY IsaWords, <1>2 DEF Machine!RdValue, RdValue
<1> QED BY <1>1, <1>3, <1>4, <1>5, <1>6, <1>7, <1>8, <1>9, Zenon

LEMMA IsaCsrs ==
  /\ Machine!CsrReset = CsrReset
  /\ \A c : Machine!Vector(c) = Vector(c)
  /\ \A c, timer, ext : Machine!Mirrored(c, timer, ext) = Mirrored(c, timer, ext)
  /\ \A c, timer, ext, ins, a :
        Machine!AfterWrite(c, timer, ext, ins, a) = AfterWrite(c, timer, ext, ins, a)
  /\ \A old, new, pc, cause :
       Machine!TrapEntry(old, new, pc, cause) = TrapEntry(old, new, pc, cause)
  /\ \A c : Machine!TrapReturn(c) = TrapReturn(c)
  /\ \A ins, a, c : Machine!Strobes(ins, a, c) = Strobes(ins, a, c)
<1>1. \A c, timer, ext : Machine!Mirrored(c, timer, ext) = Mirrored(c, timer, ext)
  BY IsaWords DEF Machine!Mirrored, Mirrored
<1>2. \A ins, a, c : Machine!CsrData(ins, a, c) = CsrData(ins, a, c)
  BY IsaWords DEF Machine!CsrData, CsrData, Machine!CsrRead, CsrRead, Machine!OrBits, OrBits,
                  Machine!ClearBits, ClearBits, Machine!Bit, Bit
<1>3. \A c, timer, ext, ins, a :
        Machine!AfterWrite(c, timer, ext, ins, a) = AfterWrite(c, timer, ext, ins, a)
  <2> TAKE c, timer, ext, ins, a
  <2> DEFINE data == CsrData(ins, a, c)
             mirror == Mirrored(c, timer, ext)
  <2>1. Machine!CsrData(ins, a, c) = data /\ Machine!Mirrored(c, timer, ext) = mirror
    BY <1>1, <1>2
  <2>2. Machine!BitOf(data, 1) = BitOf(data, 1)
    BY IsaWords
  <2>3. Machine!WithBit(mirror["mip"], 1, FALSE) = WithBit(mirror["mip"], 1, FALSE)
    BY IsaWords
  <2> HIDE DEF data, mirror
  <2> QED BY <2>1, <2>2, <2>3 DEF Machine!AfterWrite, AfterWrite, data, mirror
<1>4. \A c : Machine!Mie(c) = Mie(c) /\ Machine!Mpie(c) = Mpie(c)
  BY IsaWords DEF Machine!Mie, Mie, Machine!Mpie, Mpie
<1>5. \A old, new, pc, cause :
        Machine!TrapEntry(old, new, pc, cause) = TrapEntry(old, new, pc, cause)
  <2> TAKE old, new, pc, cause
  <2>1. Machine!WithBit(Machine!WithBit(new["mstatus"], 1, Machine!Mie(old)), 0, FALSE)
          = WithBit(WithBit(new["mstatus"], 1, Mie(old)), 0, FALSE)
    BY <1>4, IsaWords, Zenon
  <2> QED BY <2>1, Zenon DEF Machine!TrapEntry, TrapEntry
<1>6. \A c : Machine!TrapReturn(c) = TrapReturn(c)
  <2> TAKE c
  <2>1. Machine!WithBit(Machine!WithBit(c["mstatus"], 0, Machine!Mpie(c)), 1, TRUE)
          = WithBit(WithBit(c["mstatus"], 0, Mpie(c)), 1, TRUE)
    BY <1>4, IsaWords, Zenon
  <2> QED BY <2>1, Zenon DEF Machine!TrapReturn, TrapReturn
<1>7. \A ins, a, c : Machine!Strobes(ins, a, c) = Strobes(ins, a, c)
  BY <1>2, IsaInstructions, IsaWords DEF Machine!Strobes, Strobes
<1>8. Machine!CsrReset = CsrReset /\ \A c : Machine!Vector(c) = Vector(c)
  BY DEF Machine!CsrReset, CsrReset, Machine!CsrName, CsrName, Machine!Vector, Vector
<1> QED BY <1>1, <1>3, <1>5, <1>6, <1>7, <1>8

--------------------------------------------------------------------------------
(* One edge of the execute stage, while no interrupt is taken *)

LEMMA NoIrq == csr["mie"] = 0 => ~TakeIrq(csr)
<1> SUFFICES ASSUME csr["mie"] = 0 PROVE ~TakeIrq(csr)
  OBVIOUS
<1>1. 0 \div 1 = 0 /\ 0 \div 2 = 0 /\ 0 % 2 = 0
  OBVIOUS
<1>2. ~BitOf(csr["mie"], 0) /\ ~BitOf(csr["mie"], 1)
  BY <1>1, WordSpanValue DEF BitOf
<1> QED BY <1>2 DEF TakeIrq, TakeTimer, TakeExt, TimerCanFire, ExtCanFire

\* An instruction looks at no operand it does not use.
LEMMA SameOperands ==
  \A ins, a, b, a2, b2 :
    (UsesRs1(ins) => a = a2) /\ (UsesRs2(ins) => b = b2) =>
      /\ OnDevice(ins, a) = OnDevice(ins, a2) /\ OnMemory(ins, a) = OnMemory(ins, a2)
      /\ OnMemory(ins, a) => Address(ins, a) = Address(ins, a2)
      /\ WritesRd(ins, a) = WritesRd(ins, a2)
      /\ ins.op = "SW" => b = b2
      /\ Jumps(ins, a, b) = Jumps(ins, a2, b2)
      /\ WritesCsr(ins) => a = a2
<1> TAKE ins, a, b, a2, b2
<1> HAVE (UsesRs1(ins) => a = a2) /\ (UsesRs2(ins) => b = b2)
<1>1. /\ ins.op \in {"LW", "SW", "ADDI", "ADD", "BADOP", "BEQ", "BNE", "JALR",
                     "CSRRW", "CSRRS", "CSRRC"} => a = a2
      /\ ins.op \in {"SW", "ADD", "BADOP", "BEQ", "BNE"} => b = b2
  BY DEF UsesRs1, UsesRs2
<1>2. WritesCsr(ins) => a = a2
  BY <1>1 DEF WritesCsr
<1>3. /\ OnDevice(ins, a) = OnDevice(ins, a2) /\ OnMemory(ins, a) = OnMemory(ins, a2)
      /\ OnMemory(ins, a) => Address(ins, a) = Address(ins, a2)
  BY <1>1 DEF OnDevice, OnMemory
<1>4. WritesRd(ins, a) = WritesRd(ins, a2)
  BY <1>3 DEF WritesRd
<1>5. Jumps(ins, a, b) = Jumps(ins, a2, b2)
  BY <1>1 DEF Jumps
<1> QED BY <1>1, <1>2, <1>3, <1>4, <1>5

LEMMA SameResult ==
  \A ins, pc, a, b, a2, b2, c, d :
    (UsesRs1(ins) => a = a2) /\ (UsesRs2(ins) => b = b2) /\ WritesRd(ins, a) =>
      RdValue(ins, pc, a, b, c, d) = RdValue(ins, pc, a2, b2, c, d)
  BY DEF UsesRs1, UsesRs2, WritesRd, OnDevice, RdValue

LEMMA SameTarget ==
  \A ins, pc, a, a2, c :
    (UsesRs1(ins) => a = a2) =>
      /\ Target(ins, pc, a, c) = Target(ins, pc, a2, c)
      /\ Strobes(ins, a, c) = Strobes(ins, a2, c)
<1> TAKE ins, pc, a, a2, c
<1> HAVE UsesRs1(ins) => a = a2
<1>1. ins.op \in {"JALR", "CSRRW", "CSRRS", "CSRRC"} => a = a2
  BY DEF UsesRs1
<1>2. Target(ins, pc, a, c) = Target(ins, pc, a2, c)
  BY <1>1 DEF Target
<1>3. Strobes(ins, a, c) = Strobes(ins, a2, c)
  BY <1>1 DEF Strobes, WritesCsr
<1> QED BY <1>2, <1>3

\* While EX waits for its access nothing is written.
LEMMA StallWritesNothing ==
  ASSUME IsaInv, NEW memReady \in BOOLEAN, ex # None, StallEx(memReady)
  PROVE  /\ OnMemory(ex.instr, ex.a)
         /\ WriteBack(memReady) = None
         /\ ~(dmem # None /\ memReady)
<1>1. OnMemory(ex.instr, ex.a) /\ ~(dmem # None /\ memReady)
  BY DEF StallEx, StartMem, IsaInv, AccessOwned
<1>2. ~WritesRd(ex.instr, ex.a)
  BY <1>1 DEF WritesRd, OnMemory, OnDevice
<1> QED BY <1>1, <1>2 DEF WriteBack, LoadCommit

\* An empty EX has no access on the bus and writes nothing.
LEMMA IdleWritesNothing ==
  ASSUME IsaInv, NEW memReady, ex = None
  PROVE  dmem = None /\ WriteBack(memReady) = None /\ ~StartMem
  BY DEF IsaInv, AccessOwned, WriteBack, LoadCommit, StartMem

\* An operand that ID reads or takes from the write port is what the register holds after
\* the edge.
LEMMA OperandIsRegister ==
  ASSUME IsaInv, NEW memReady \in BOOLEAN, Commit(memReady), NEW r \in Reg,
         ex = None \/ ~StallEx(memReady)
  PROVE  Operand(r, TRUE, memReady) = regs'[r]
<1> DEFINE wb == WriteBack(memReady)
<1>1. wb \in RegWrite \cup {None} /\ regs \in [Reg -> Data]
  BY WriteBackType DEF IsaInv, CoreTypeOK
<1>2. regs' = IF wb = None \/ wb.rd = 0 THEN regs ELSE [regs EXCEPT ![wb.rd] = wb.value]
  BY DEF Commit
<1>3. Operand(r, TRUE, memReady)
        = IF ex # None /\ ~StallEx(memReady) /\ wb # None /\ r # 0 /\ wb.rd = r
          THEN wb.value ELSE regs[r]
  BY DEF Operand
<1>4. ex = None => wb = None
  BY IdleWritesNothing
<1> HIDE DEF wb
<1> QED BY <1>1, <1>2, <1>3, <1>4 DEF RegWrite

--------------------------------------------------------------------------------
(* The invariant behind ImplementsIsa *)

LEMMA MieStays ==
  ASSUME IsaInv, NEW timer \in BOOLEAN, NEW ext \in BOOLEAN
  PROVE  Written(timer, ext)["mie"] = 0
<1>1. csr \in Csrs /\ csr["mie"] = 0
  BY DEF IsaInv, CoreTypeOK, Csrs
<1>2. Mirrored(csr, timer, ext)["mie"] = 0
  BY <1>1 DEF Mirrored, Csrs, CsrName
<1>3. ASSUME ex # None, WritesCsr(ex.instr)
      PROVE  AfterWrite(csr, timer, ext, ex.instr, ex.a)["mie"] = 0
  <2>1. ex.instr = imem[ex.pc] /\ ex.pc \in PC /\ ex.instr \in Instr
    BY <1>3 DEF IsaInv, OperandsHold, CoreTypeOK, Executing
  <2>2. ex.instr.csr # "mie" /\ ex.instr.csr \in CsrName
    BY <1>3, <2>1 DEF IsaInv, EnablesNoSource, Instr
  <2>3. Mirrored(csr, timer, ext) \in Csrs
    BY <1>1, MirroredType
  <2> QED BY <1>1, <1>2, <2>2, <2>3 DEF AfterWrite, Csrs, CsrName
<1> QED BY <1>2, <1>3 DEF Written

LEMMA IsaInvInit ==
  CoreInit => csr["mie"] = 0 /\ AccessOwned /\ AccessHolds /\ OperandsHold
  BY DEF CoreInit, FetchInit, CsrReset, CsrName, AccessOwned, AccessHolds, OperandsHold

LEMMA QuietEdge ==
  ASSUME IsaInv, NEW imemReady \in BOOLEAN, NEW memReady \in BOOLEAN,
         NEW timer, NEW ext, Edge(imemReady, memReady, timer, ext)
  PROVE  /\ Commit(memReady)
         /\ imem' = imem
         /\ Trap(memReady, timer, ext) => ex # None /\ Exception(ex.instr)
         /\ Trap(memReady, timer, ext) \/ Jump(memReady, timer, ext)
              => ex # None /\ ~OnMemory(ex.instr, ex.a) /\ dmem = None /\ ex' = None
<1>1. Trap(memReady, timer, ext) => ex # None /\ Exception(ex.instr)
  BY NoIrq DEF Trap, Trapping, IsaInv
<1>2. Jump(memReady, timer, ext) => ex # None /\ Jumps(ex.instr, ex.a, ex.b)
  BY DEF Jump, Flushing
<1>3. imem' = imem
  BY DEF Edge, Trap, Jump, Flow, Redirect, Advance
<1>4. Trap(memReady, timer, ext) \/ Jump(memReady, timer, ext)
        => ~OnMemory(ex.instr, ex.a) /\ dmem = None
  BY <1>1, <1>2 DEF Exception, Jumps, OnMemory, IsaInv, AccessOwned
<1> QED BY <1>1, <1>2, <1>3, <1>4 DEF Edge, Trap, Jump, Flow

LEMMA AccessStep ==
  ASSUME IsaInv, NEW imemReady \in BOOLEAN, NEW memReady \in BOOLEAN,
         NEW timer, NEW ext, Edge(imemReady, memReady, timer, ext)
  PROVE  AccessOwned' /\ AccessHolds'
<1> SUFFICES ASSUME dmem' # None
             PROVE  /\ ex' # None /\ OnMemory(ex'.instr, ex'.a)
                    /\ dmem'.addr = Address(ex'.instr, ex'.a)
                    /\ dmem'.load = (ex'.instr.op = "LW")
                    /\ dmem'.rd = ex'.instr.rd /\ dmem'.data = ex'.b
  BY DEF AccessOwned, AccessHolds, OnMemory, Address, Plus
<1>1. Commit(memReady)
  BY QuietEdge
<1>2. ex # None /\ StallEx(memReady)
  BY <1>1 DEF Commit, StallEx, StartMem, IsaInv, AccessOwned, Edge
<1>3. Flow(imemReady, memReady, timer, ext)
  BY <1>1, <1>2, QuietEdge, StallWritesNothing DEF Edge
<1>4. ex' = ex
  BY <1>2, <1>3 DEF Flow, Drain
<1>5. CASE StartMem
  BY <1>1, <1>4, <1>5 DEF Commit, StartMem
<1>6. CASE ~StartMem
  <2>1. dmem' = dmem
    BY <1>1, <1>2, <1>6, StallWritesNothing DEF Commit
  <2> QED BY <1>4, <2>1 DEF IsaInv, AccessOwned, AccessHolds
<1> QED BY <1>5, <1>6

LEMMA OperandsStep ==
  ASSUME IsaInv, NEW imemReady \in BOOLEAN, NEW memReady \in BOOLEAN,
         NEW timer, NEW ext, Edge(imemReady, memReady, timer, ext)
  PROVE  OperandsHold'
<1> SUFFICES ASSUME ex' # None
             PROVE  /\ ex'.instr = imem'[ex'.pc]
                    /\ UsesRs1(ex'.instr) => ex'.a = regs'[ex'.instr.rs1]
                    /\ UsesRs2(ex'.instr) => ex'.b = regs'[ex'.instr.rs2]
  BY DEF OperandsHold, UsesRs1, UsesRs2
<1>1. Commit(memReady) /\ imem' = imem /\ Flow(imemReady, memReady, timer, ext)
  BY QuietEdge DEF Edge
<1>2. CASE Drain(memReady)
  <2>1. id # None /\ id \in Entry /\ id.instr = imem[id.pc]
    BY <1>2 DEF Drain, IsaInv, CoreTypeOK, FetchTypeOK, StreamInv, WordsMatch
  <2>2. id.instr.rs1 \in Reg /\ id.instr.rs2 \in Reg
    BY <2>1, CoreAssumption DEF Entry, Instr
  <2>3. \A r \in Reg : Operand(r, TRUE, memReady) = regs'[r]
    BY <1>1, <1>2, OperandIsRegister DEF Drain
  <2>4. ex' = [pc |-> id.pc, instr |-> id.instr,
               a |-> Operand(id.instr.rs1, UsesRs1(id.instr), memReady),
               b |-> Operand(id.instr.rs2, UsesRs2(id.instr), memReady)]
    BY <1>1, <1>2 DEF Flow
  <2>5. /\ UsesRs1(id.instr) => UsesRs1(id.instr) = TRUE
        /\ UsesRs2(id.instr) => UsesRs2(id.instr) = TRUE
    BY DEF UsesRs1, UsesRs2
  <2> QED BY <1>1, <2>1, <2>2, <2>3, <2>4, <2>5
<1>3. CASE ~Drain(memReady)
  <2>1. ex' = ex /\ StallEx(memReady)
    BY <1>1, <1>3 DEF Flow, Drain, IsaInv
  <2>2. regs' = regs
    BY <1>1, <2>1, StallWritesNothing DEF Commit
  <2> QED BY <1>1, <2>1, <2>2 DEF IsaInv, OperandsHold
<1> QED BY <1>2, <1>3

LEMMA MieStep ==
  ASSUME IsaInv, NEW imemReady \in BOOLEAN, NEW memReady \in BOOLEAN,
         NEW timer \in BOOLEAN, NEW ext \in BOOLEAN, Edge(imemReady, memReady, timer, ext)
  PROVE  csr'["mie"] = 0
<1>1. Written(timer, ext) \in Csrs /\ Written(timer, ext)["mie"] = 0
  BY MieStays, WrittenType DEF IsaInv
<1>2. TrapPc \in PC /\ TrapCause \in Data
  BY TrapPcType, DataValues DEF TrapCause, Cause, IrqCause, IsaInv
<1>3. CASE Trap(memReady, timer, ext)
  BY <1>1, <1>2, <1>3, TrapEntryType DEF Trap
<1>4. CASE ~Trap(memReady, timer, ext)
  BY <1>1, <1>4, TrapReturnType DEF Edge, Jump, Flow
<1> QED BY <1>3, <1>4

\* What the type, the fetch unit and the order of the stages leave to show of IsaInv.
HoldsInEx ==
  /\ AccessOwned /\ AccessHolds /\ OperandsHold
  /\ EnablesNoSource(imem) /\ csr["mie"] = 0

LEMMA HoldsInExStep ==
  CoreTypeOK /\ StreamInv /\ PipelineInOrder /\ HoldsInEx /\ [CoreNext]_coreVars => HoldsInEx'
<1> SUFFICES ASSUME IsaInv, [CoreNext]_coreVars PROVE HoldsInEx'
  BY DEF IsaInv, HoldsInEx
<1>1. ASSUME NEW imemReady \in BOOLEAN, NEW memReady \in BOOLEAN,
             NEW timer \in Levels, NEW ext \in Levels, Edge(imemReady, memReady, timer, ext)
      PROVE  HoldsInEx'
  <2>1. timer \in BOOLEAN /\ ext \in BOOLEAN
    BY CoreAssumption
  <2>2. AccessOwned' /\ AccessHolds' /\ OperandsHold'
    BY <1>1, AccessStep, OperandsStep
  <2>3. EnablesNoSource(imem)'
    BY <1>1, QuietEdge DEF IsaInv, EnablesNoSource
  <2> QED BY <1>1, <2>1, <2>2, <2>3, MieStep DEF HoldsInEx
<1>2. CASE UNCHANGED coreVars
  <2>1. EnablesNoSource(imem)'
    BY <1>2 DEF coreVars, fetchVars, IsaInv, EnablesNoSource
  <2>2. AccessOwned' /\ AccessHolds' /\ OperandsHold' /\ csr'["mie"] = 0
    BY <1>2 DEF coreVars, fetchVars, IsaInv, AccessOwned, AccessHolds, OperandsHold
  <2> QED BY <2>1, <2>2 DEF HoldsInEx
<1> QED BY <1>1, <1>2 DEF CoreNext

\* While no source is enabled, what EX holds is what the program would read there and then,
\* and an access on the bus is that of the instruction in EX.
THEOREM IsaInvariant ==
  ASSUME ICACHE_ENTRIES = 0
  PROVE  CoreSpec /\ EnablesNoSource(imem) => []IsaInv
<1>1. CoreInit /\ EnablesNoSource(imem) => HoldsInEx
  BY IsaInvInit DEF HoldsInEx
<1>2. CoreSpec => []StreamInv
  <2>1. Ordered /\ WordsMatch => StreamInv
    BY DEF Ordered, StreamInv
  <2> QED BY <2>1, CoreDrivesFetch, StaysOrdered, WordsAlwaysMatch, PTL
<1>3. CoreTypeOK /\ StreamInv /\ PipelineInOrder /\ HoldsInEx => IsaInv
  BY DEF IsaInv, HoldsInEx
<1> QED
  BY <1>1, <1>2, <1>3, HoldsInExStep, CoreTypeCorrect, StagesInOrder, PTL DEF CoreSpec

\* Without interrupts an access on the data bus belongs to the instruction in EX from its
\* first cycle to its answer: neither a stall nor a trap nor a jump strands it.
THEOREM AccessStaysOwned ==
  ASSUME ICACHE_ENTRIES = 0
  PROVE  CoreSpec /\ EnablesNoSource(imem) => []AccessOwned
<1>1. IsaInv => AccessOwned
  BY DEF IsaInv
<1> QED BY <1>1, IsaInvariant, PTL

--------------------------------------------------------------------------------
(* Every edge is a step of QarIsa or samples the interrupt inputs *)

\* The values of the operands where the machine reads them: in the registers.
Rs1 == regs[ex.instr.rs1]
Rs2 == regs[ex.instr.rs2]

\* An edge at which EX completes leaves registers, memory and devices as its instruction
\* does when it executes at once: a load writes what memory holds, a store what it latched.
LEMMA RetireEffects ==
  ASSUME IsaInv, NEW memReady \in BOOLEAN, memReady => dmem # None, Commit(memReady),
         ex # None, ~StallEx(memReady)
  PROVE  /\ regs' = IF WritesRd(ex.instr, Rs1)
                    THEN [regs EXCEPT ![ex.instr.rd] =
                            IF ex.instr.rd = 0 THEN 0
                            ELSE RdValue(ex.instr, ex.pc, Rs1, Rs2, csr, dev)]
                    ELSE IF ex.instr.op = "LW"
                    THEN [regs EXCEPT ![ex.instr.rd] =
                            IF ex.instr.rd = 0 THEN 0 ELSE mem[Address(ex.instr, Rs1)]]
                    ELSE regs
         /\ mem' = IF ex.instr.op = "SW" /\ OnMemory(ex.instr, Rs1)
                   THEN [mem EXCEPT ![Address(ex.instr, Rs1)] = Rs2] ELSE mem
         /\ dev' = IF OnDevice(ex.instr, Rs1)
                   THEN (IF ex.instr.op = "SW" THEN Rs2 ELSE Plus(dev, 1)) ELSE dev
         /\ ack' = Strobes(ex.instr, Rs1, csr)
<1> DEFINE ins == ex.instr
           loaded == IF ins.rd = 0 THEN 0 ELSE mem[Address(ins, ex.a)]
           result == RdValue(ins, ex.pc, ex.a, ex.b, csr, dev)
           wb == WriteBack(memReady)
<1>1. /\ UsesRs1(ins) => ex.a = Rs1
      /\ UsesRs2(ins) => ex.b = Rs2
  BY DEF IsaInv, OperandsHold, Rs1, Rs2
<1>2. regs \in [Reg -> Data] /\ regs[0] = 0 /\ ins.rd \in Reg
  BY DEF IsaInv, CoreTypeOK, Executing, Instr
<1>3. OnMemory(ins, ex.a) <=> dmem # None /\ memReady
  BY DEF StallEx, StartMem, IsaInv, AccessOwned
<1>4. OnMemory(ins, ex.a) =>
        /\ dmem.addr = Address(ins, ex.a) /\ dmem.load = (ins.op = "LW")
        /\ dmem.rd = ins.rd /\ dmem.data = ex.b
  BY <1>3 DEF IsaInv, AccessOwned, AccessHolds
<1>5. wb = IF OnMemory(ins, ex.a) /\ ins.op = "LW"
           THEN [rd |-> ins.rd, value |-> mem[Address(ins, ex.a)]]
           ELSE IF WritesRd(ins, ex.a) THEN [rd |-> ins.rd, value |-> result]
           ELSE None
  BY <1>3, <1>4 DEF WriteBack, LoadCommit
<1>6. /\ regs' = IF wb = None \/ wb.rd = 0 THEN regs ELSE [regs EXCEPT ![wb.rd] = wb.value]
      /\ mem' = IF dmem # None /\ memReady /\ ~dmem.load
                THEN [mem EXCEPT ![dmem.addr] = dmem.data] ELSE mem
      /\ dev' = IF ~OnDevice(ins, ex.a) THEN dev
                ELSE IF ins.op = "SW" THEN ex.b ELSE Plus(dev, 1)
      /\ ack' = Strobes(ins, ex.a, csr)
  BY DEF Commit
<1>7. /\ OnMemory(ins, ex.a) => mem[Address(ins, ex.a)] \in Data
      /\ result \in Data
  BY RdValueType DEF IsaInv, CoreTypeOK, Executing, OnMemory, Csrs
<1>8. OnMemory(ins, ex.a) => ~WritesRd(ins, ex.a) /\ ins.op \in {"LW", "SW"}
  BY DEF WritesRd, OnMemory, OnDevice
<1>9. ins.op = "LW" => OnMemory(ins, ex.a) \/ WritesRd(ins, ex.a)
  BY DEF WritesRd, OnMemory, OnDevice
<1>10. ins.op = "LW" => Address(ins, ex.a) = Address(ins, Rs1)
  BY <1>1 DEF UsesRs1
<1>11. /\ OnDevice(ins, ex.a) = OnDevice(ins, Rs1) /\ OnMemory(ins, ex.a) = OnMemory(ins, Rs1)
       /\ OnMemory(ins, ex.a) => Address(ins, ex.a) = Address(ins, Rs1)
       /\ WritesRd(ins, ex.a) = WritesRd(ins, Rs1)
       /\ WritesRd(ins, ex.a) => result = RdValue(ins, ex.pc, Rs1, Rs2, csr, dev)
       /\ ins.op = "SW" => ex.b = Rs2
       /\ Strobes(ins, ex.a, csr) = Strobes(ins, Rs1, csr)
  <2> DEFINE a == ex.a
             b == ex.b
  <2>1. result = RdValue(ins, ex.pc, a, b, csr, dev)
    OBVIOUS
  <2> HIDE DEF ins, a, b, result
  <2>2. /\ UsesRs1(ins) => a = Rs1
        /\ UsesRs2(ins) => b = Rs2
    BY <1>1 DEF a, b
  <2>3. /\ OnDevice(ins, a) = OnDevice(ins, Rs1) /\ OnMemory(ins, a) = OnMemory(ins, Rs1)
        /\ OnMemory(ins, a) => Address(ins, a) = Address(ins, Rs1)
        /\ WritesRd(ins, a) = WritesRd(ins, Rs1)
        /\ ins.op = "SW" => b = Rs2
    BY <2>2, SameOperands, Zenon
  <2>4. Strobes(ins, a, csr) = Strobes(ins, Rs1, csr)
    BY <2>2, SameTarget, Zenon
  <2>5. WritesRd(ins, a) =>
          RdValue(ins, ex.pc, a, b, csr, dev) = RdValue(ins, ex.pc, Rs1, Rs2, csr, dev)
    BY <2>2, SameResult, SMT
  <2> QED BY <2>1, <2>3, <2>4, <2>5 DEF a, b
<1>12. regs = [regs EXCEPT ![0] = 0]
  BY <1>2
<1>13. regs' = IF WritesRd(ins, ex.a)
               THEN [regs EXCEPT ![ins.rd] = IF ins.rd = 0 THEN 0 ELSE result]
               ELSE IF ins.op = "LW" THEN [regs EXCEPT ![ins.rd] = loaded]
               ELSE regs
  <2> HIDE DEF ins, wb, result
  <2>1. CASE OnMemory(ins, ex.a) /\ ins.op = "LW"
    <3>1. wb # None /\ wb.rd = ins.rd /\ wb.value = mem[Address(ins, ex.a)]
      BY <1>2, <1>5, <1>7, <2>1, NoneIsNothing DEF RegWrite
    <3> QED BY <1>2, <1>6, <1>8, <1>12, <2>1, <3>1
  <2>2. CASE ~(OnMemory(ins, ex.a) /\ ins.op = "LW") /\ WritesRd(ins, ex.a)
    <3>1. wb # None /\ wb.rd = ins.rd /\ wb.value = result
      BY <1>2, <1>5, <1>7, <2>2, NoneIsNothing DEF RegWrite
    <3> QED BY <1>2, <1>6, <1>12, <2>2, <3>1
  <2>3. CASE ~(OnMemory(ins, ex.a) /\ ins.op = "LW") /\ ~WritesRd(ins, ex.a)
    BY <1>5, <1>6, <1>9, <2>3
  <2> QED BY <2>1, <2>2, <2>3
<1>14. mem' = IF ins.op = "SW" /\ OnMemory(ins, ex.a)
              THEN [mem EXCEPT ![Address(ins, ex.a)] = ex.b] ELSE mem
  BY <1>3, <1>4, <1>6, <1>8
<1> HIDE DEF ins, result, wb
<1>15. mem' = IF ins.op = "SW" /\ OnMemory(ins, Rs1)
              THEN [mem EXCEPT ![Address(ins, Rs1)] = Rs2] ELSE mem
  BY <1>11, <1>14
<1>16. dev' = IF OnDevice(ins, Rs1) THEN (IF ins.op = "SW" THEN Rs2 ELSE Plus(dev, 1)) ELSE dev
  BY <1>6, <1>11
<1>17. regs' = IF WritesRd(ins, Rs1)
               THEN [regs EXCEPT ![ins.rd] = IF ins.rd = 0 THEN 0
                                             ELSE RdValue(ins, ex.pc, Rs1, Rs2, csr, dev)]
               ELSE IF ins.op = "LW"
               THEN [regs EXCEPT ![ins.rd] = IF ins.rd = 0 THEN 0 ELSE mem[Address(ins, Rs1)]]
               ELSE regs
  BY <1>10, <1>11, <1>13
<1> QED BY <1>6, <1>11, <1>15, <1>16, <1>17 DEF ins

\* An edge at which EX waits, or is empty, changes nothing a program can see.
LEMMA IdleEffects ==
  ASSUME IsaInv, NEW memReady \in BOOLEAN, memReady => dmem # None, Commit(memReady),
         ex = None \/ StallEx(memReady)
  PROVE  UNCHANGED <<regs, mem, dev>> /\ ack' = {}
<1>1. WriteBack(memReady) = None /\ ~(dmem # None /\ memReady)
  BY IdleWritesNothing, StallWritesNothing
<1>2. ex # None => ~OnDevice(ex.instr, ex.a) /\ Strobes(ex.instr, ex.a, csr) = {}
  BY StallWritesNothing DEF OnMemory, OnDevice, Strobes, WritesCsr
<1> QED BY <1>1, <1>2 DEF Commit

\* The due instruction changes only when EX completes: to the target of a redirect or to
\* the successor.
LEMMA ArchPcStep ==
  ASSUME IsaInv, ICACHE_ENTRIES = 0, NEW imemReady \in BOOLEAN, NEW memReady \in BOOLEAN,
         NEW timer, NEW ext, Edge(imemReady, memReady, timer, ext)
  PROVE  /\ Trap(memReady, timer, ext) => ArchPc' = Vector(csr)
         /\ Jump(memReady, timer, ext) => ArchPc' = Target(ex.instr, ex.pc, ex.a, csr)
         /\ Flow(imemReady, memReady, timer, ext) =>
              ArchPc' = IF ex # None /\ ~StallEx(memReady) THEN Succ(ex.pc) ELSE ArchPc
<1>1. ArchPc = IF ex # None THEN ex.pc ELSE NextPc
  BY DEF ArchPc, NextPc
<1>2. ex' = None => ArchPc' = NextPc'
  BY DEF ArchPc, NextPc
<1>3. Trap(memReady, timer, ext) => ArchPc' = Vector(csr)
  BY <1>2, RedirectIsNext DEF Trap
<1>4. Jump(memReady, timer, ext) => ArchPc' = Target(ex.instr, ex.pc, ex.a, csr)
  BY <1>2, RedirectIsNext DEF Jump
<1>5. ASSUME Flow(imemReady, memReady, timer, ext)
      PROVE  ArchPc' = IF ex # None /\ ~StallEx(memReady) THEN Succ(ex.pc) ELSE ArchPc
  <2>1. ex # None => NextPc = Succ(ex.pc)
    BY DEF IsaInv, PipelineInOrder, NextPc
  <2>2. FetchTypeOK /\ Ordered
    BY DEF IsaInv, CoreTypeOK, StreamInv, Ordered
  <2>3. Drain(memReady) \in BOOLEAN /\ Cycle(Drain(memReady), imemReady)
    BY <1>5, FlowIsCycle DEF Edge
  <2>4. CASE Drain(memReady)
    <3>1. /\ ex'.pc = id.pc /\ id # None /\ (ex = None \/ ~StallEx(memReady))
          /\ ex' \in Executing
      <4>1. id \in Entry /\ id # None
        BY <2>2, <2>4 DEF FetchTypeOK, Drain
      <4>2. id.pc \in PC /\ id.instr \in Instr
        BY <4>1, CoreAssumption DEF Entry
      <4>3. /\ Operand(id.instr.rs1, UsesRs1(id.instr), memReady) \in Data
            /\ Operand(id.instr.rs2, UsesRs2(id.instr), memReady) \in Data
        BY <4>2, OperandType DEF Instr, IsaInv
      <4> QED BY <1>5, <2>4, <4>1, <4>2, <4>3 DEF Flow, Drain, Executing
    <3>2. ArchPc' = id.pc
      BY <3>1, NoneIsNothing DEF ArchPc
    <3>3. NextPc = id.pc
      BY <3>1 DEF NextPc
    <3> QED BY <1>1, <2>1, <3>1, <3>2, <3>3
  <2>5. CASE ~Drain(memReady)
    <3>1. NextPc' = NextPc
      BY <2>2, <2>3, <2>5, CycleKeepsNext
    <3>2. ex' = IF ~StallEx(memReady) THEN None ELSE ex
      BY <1>5, <2>5 DEF Flow
    <3>3. ArchPc' = IF ex' # None THEN (ex').pc ELSE NextPc'
      BY DEF ArchPc, NextPc
    <3>4. ex = None \/ ex # None
      OBVIOUS
    <3> QED BY <1>1, <2>1, <3>1, <3>2, <3>3
  <2> QED BY <2>4, <2>5
<1> QED BY <1>3, <1>4, <1>5

LEMMA SampleStep ==
  ASSUME IsaInv, ICACHE_ENTRIES = 0, NEW imemReady \in BOOLEAN, NEW memReady \in BOOLEAN,
         NEW timer, NEW ext, Edge(imemReady, memReady, timer, ext),
         ex = None \/ StallEx(memReady)
  PROVE  Machine!Sample(timer, ext)
<1>1. Flow(imemReady, memReady, timer, ext) /\ Commit(memReady) /\ imem' = imem
  BY QuietEdge, StallWritesNothing DEF Edge
<1>2. ArchPc' = ArchPc
  BY <1>1, ArchPcStep
<1>3. UNCHANGED <<regs, mem, dev>> /\ ack' = {}
  BY <1>1, IdleEffects DEF Edge
<1>4. csr' = Mirrored(csr, timer, ext)
  <2>1. ex # None => ~WritesCsr(ex.instr)
    BY StallWritesNothing DEF OnMemory, WritesCsr
  <2> QED BY <1>1, <2>1 DEF Flow, Written
<1>5. Machine!Mirrored(csr, timer, ext) = Mirrored(csr, timer, ext)
  BY IsaCsrs
<1> QED BY <1>1, <1>2, <1>3, <1>4, <1>5 DEF Machine!Sample

\* The CSRs and the due address after an edge at which EX completes.
LEMMA RetireControl ==
  ASSUME IsaInv, ICACHE_ENTRIES = 0, NEW imemReady \in BOOLEAN, NEW memReady \in BOOLEAN,
         NEW timer, NEW ext, Edge(imemReady, memReady, timer, ext),
         ex # None, ~StallEx(memReady), NEW written,
         written = IF WritesCsr(ex.instr) THEN AfterWrite(csr, timer, ext, ex.instr, Rs1)
                   ELSE Mirrored(csr, timer, ext)
  PROVE  /\ csr' = IF Exception(ex.instr) THEN TrapEntry(csr, written, ex.pc, Cause(ex.instr))
                   ELSE IF ex.instr.op = "MRET" THEN TrapReturn(written)
                   ELSE written
         /\ ArchPc' = IF Exception(ex.instr) THEN Vector(csr)
                      ELSE IF Jumps(ex.instr, Rs1, Rs2) THEN Target(ex.instr, ex.pc, Rs1, csr)
                      ELSE Succ(ex.pc)
<1>1. /\ UsesRs1(ex.instr) => ex.a = Rs1
      /\ UsesRs2(ex.instr) => ex.b = Rs2
  BY DEF IsaInv, OperandsHold, Rs1, Rs2
<1>2. Written(timer, ext) = written
  <2>1. WritesCsr(ex.instr) => ex.a = Rs1
    BY <1>1 DEF WritesCsr, UsesRs1
  <2> QED BY <2>1 DEF Written
<1>3. Jumps(ex.instr, ex.a, ex.b) = Jumps(ex.instr, Rs1, Rs2)
  <2> DEFINE ins == ex.instr
             a == ex.a
             b == ex.b
  <2> HIDE DEF ins, a, b
  <2>1. (UsesRs1(ins) => a = Rs1) /\ (UsesRs2(ins) => b = Rs2)
    BY <1>1 DEF ins, a, b
  <2>2. Jumps(ins, a, b) = Jumps(ins, Rs1, Rs2)
    BY <2>1, SameOperands, SMT
  <2> QED BY <2>2 DEF ins, a, b
<1>4. Target(ex.instr, ex.pc, ex.a, csr) = Target(ex.instr, ex.pc, Rs1, csr)
  BY <1>1, SameTarget
<1>5. CASE Trap(memReady, timer, ext)
  <2>1. Exception(ex.instr)
    BY <1>5, QuietEdge
  <2>2. TrapPc = ex.pc /\ TrapCause = Cause(ex.instr)
    BY <2>1 DEF TrapPc, TrapCause
  <2> QED BY <1>2, <1>5, <2>1, <2>2, ArchPcStep DEF Trap
<1>6. CASE Jump(memReady, timer, ext)
  <2>1. ~Exception(ex.instr) /\ Jumps(ex.instr, ex.a, ex.b)
    BY <1>6 DEF Jump, Trapping, Flushing
  <2> QED BY <1>2, <1>3, <1>4, <1>6, <2>1, ArchPcStep DEF Jump
<1>7. CASE Flow(imemReady, memReady, timer, ext)
  <2>1. ~Exception(ex.instr) /\ ~Jumps(ex.instr, ex.a, ex.b)
    BY <1>7 DEF Flow, Trapping, Flushing
  <2>2. ex.instr.op # "MRET"
    BY <2>1 DEF Jumps
  <2> QED BY <1>2, <1>3, <1>7, <2>1, <2>2, ArchPcStep DEF Flow
<1> QED BY <1>5, <1>6, <1>7 DEF Edge

LEMMA ExecuteStep ==
  ASSUME IsaInv, ICACHE_ENTRIES = 0, NEW imemReady \in BOOLEAN, NEW memReady \in BOOLEAN,
         NEW timer, NEW ext, Edge(imemReady, memReady, timer, ext),
         ex # None, ~StallEx(memReady)
  PROVE  Machine!Execute(timer, ext)
<1> DEFINE written == IF WritesCsr(ex.instr) THEN AfterWrite(csr, timer, ext, ex.instr, Rs1)
                      ELSE Mirrored(csr, timer, ext)
<1>1. ArchPc = ex.pc /\ imem[ArchPc] = ex.instr /\ imem' = imem /\ Commit(memReady)
  BY QuietEdge DEF ArchPc, IsaInv, OperandsHold
<1>2. /\ regs' = IF WritesRd(ex.instr, Rs1)
                 THEN [regs EXCEPT ![ex.instr.rd] =
                         IF ex.instr.rd = 0 THEN 0
                         ELSE RdValue(ex.instr, ex.pc, Rs1, Rs2, csr, dev)]
                 ELSE IF ex.instr.op = "LW"
                 THEN [regs EXCEPT ![ex.instr.rd] =
                         IF ex.instr.rd = 0 THEN 0 ELSE mem[Address(ex.instr, Rs1)]]
                 ELSE regs
      /\ mem' = IF ex.instr.op = "SW" /\ OnMemory(ex.instr, Rs1)
                THEN [mem EXCEPT ![Address(ex.instr, Rs1)] = Rs2] ELSE mem
      /\ dev' = IF OnDevice(ex.instr, Rs1)
                THEN (IF ex.instr.op = "SW" THEN Rs2 ELSE Plus(dev, 1)) ELSE dev
      /\ ack' = Strobes(ex.instr, Rs1, csr)
  BY <1>1, RetireEffects DEF Edge
<1>3. Machine!Effects(ex.instr, Rs1, Rs2)
  BY <1>1, <1>2, IsaInstructions, IsaWords DEF Machine!Effects, Machine!WriteReg
<1>4. /\ csr' = IF Exception(ex.instr) THEN TrapEntry(csr, written, ex.pc, Cause(ex.instr))
                ELSE IF ex.instr.op = "MRET" THEN TrapReturn(written)
                ELSE written
      /\ ArchPc' = IF Exception(ex.instr) THEN Vector(csr)
                   ELSE IF Jumps(ex.instr, Rs1, Rs2) THEN Target(ex.instr, ex.pc, Rs1, csr)
                   ELSE Succ(ex.pc)
  BY RetireControl
<1>5. /\ written = IF Machine!WritesCsr(ex.instr)
                   THEN Machine!AfterWrite(csr, timer, ext, ex.instr, Rs1)
                   ELSE Machine!Mirrored(csr, timer, ext)
      /\ Machine!TrapEntry(csr, written, ex.pc, Machine!Cause(ex.instr))
            = TrapEntry(csr, written, ex.pc, Cause(ex.instr))
      /\ Machine!TrapReturn(written) = TrapReturn(written)
      /\ Machine!Vector(csr) = Vector(csr)
      /\ Machine!Strobes(ex.instr, Rs1, csr) = Strobes(ex.instr, Rs1, csr)
      /\ Machine!Target(ex.instr, ex.pc, Rs1, csr) = Target(ex.instr, ex.pc, Rs1, csr)
      /\ Machine!Exception(ex.instr) = Exception(ex.instr)
      /\ Machine!Jumps(ex.instr, Rs1, Rs2) = Jumps(ex.instr, Rs1, Rs2)
      /\ Machine!Succ(ex.pc) = Succ(ex.pc)
  <2> HIDE DEF written
  <2>1. written = IF Machine!WritesCsr(ex.instr)
                  THEN Machine!AfterWrite(csr, timer, ext, ex.instr, Rs1)
                  ELSE Machine!Mirrored(csr, timer, ext)
    BY IsaInstructions, IsaCsrs DEF written
  <2> QED BY <2>1, IsaInstructions, IsaCsrs, IsaWords, Zenon
<1> HIDE DEF written
<1> QED BY <1>1, <1>2, <1>3, <1>4, <1>5 DEF Machine!Execute, Rs1, Rs2

\* The pipeline executes every program that enables no interrupt source as the machine of
\* QarIsa does: interlocks, forwarding, wait states, flushes and traps change when an
\* instruction takes effect, never what it does nor the order.
THEOREM CoreImplementsIsa ==
  ASSUME ICACHE_ENTRIES = 0
  PROVE  CoreSpec /\ EnablesNoSource(imem) => ImplementsIsa
<1>1. CoreInit => Machine!Init
  <2> SUFFICES ASSUME CoreInit PROVE Machine!Init
    OBVIOUS
  <2>1. imem \in [PC -> Instr] /\ ArchPc = 0
    BY FetchAssumption, CoreAssumption DEF CoreInit, FetchInit, ArchPc, Due
  <2> QED BY <2>1, IsaWords, IsaCsrs DEF CoreInit, Machine!Init
<1>2. IsaInv /\ [CoreNext]_coreVars => [Machine!Next]_(Machine!vars)
  <2> SUFFICES ASSUME IsaInv, [CoreNext]_coreVars PROVE [Machine!Next]_(Machine!vars)
    OBVIOUS
  <2>1. ASSUME NEW imemReady \in BOOLEAN, NEW memReady \in BOOLEAN,
               NEW timer \in Levels, NEW ext \in Levels, Edge(imemReady, memReady, timer, ext)
        PROVE  Machine!Next
    <3>1. CASE ex = None \/ StallEx(memReady)
      BY <2>1, <3>1, SampleStep DEF Machine!Next
    <3>2. CASE ex # None /\ ~StallEx(memReady)
      BY <2>1, <3>2, ExecuteStep DEF Machine!Next
    <3> QED BY <3>1, <3>2
  <2>2. CASE UNCHANGED coreVars
    <3>1. ArchPc' = ArchPc
      BY <2>2 DEF coreVars, fetchVars, ArchPc, Due
    <3> QED BY <2>2, <3>1 DEF coreVars, fetchVars, Machine!vars
  <2> QED BY <2>1, <2>2 DEF CoreNext
<1> QED
  BY <1>1, <1>2, IsaInvariant, PTL DEF CoreSpec, ImplementsIsa, Machine!Spec
================================================================================
