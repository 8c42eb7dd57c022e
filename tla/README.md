# Verification of the QAR core, its peripherals and its development kit

This directory holds TLA+ models of the RTL in `src/qar-core/rtl` and of the firmware and
image tools in `src/devkit`, the TLC runs that check them, and proofs checked by TLAPS. Every definition that models code names its
lines in `PROJECT.json` (`map`). Paths below are relative to `src/`.

- [1 The system](#1-the-system)
- [2 The modules](#2-the-modules)
- [3 The runs](#3-the-runs)
- [4 Fairness](#4-fairness)
- [5 Proofs](#5-proofs)
- [6 Where code and documentation disagree](#6-where-code-and-documentation-disagree)
- [7 What is not modelled](#7-what-is-not-modelled)
- [8 Plan](#8-plan)

## 1 The system

QAR is a 32-bit RISC-V microcontroller core in Verilog with memory-mapped peripherals, a
development kit (assembler and runner in Go, image tools and HAL in C), test benches and
SymbiYosys harnesses. All RTL runs on one clock; an RTL step is one clock edge at which
every register is assigned from the values before the edge. What is hard is therefore not
a scheduler but *which of several assignments of one edge wins*, and *in which order wait
states, register writes and hardware events meet*.

| Component | State | Operations | Interacts with | Hard behaviour | Correct when |
|---|---|---|---|---|---|
| Fetch unit (`qar_core.v` 114-253, 961-1104) | `pc_fetch`, bus request, IF buffer, prefetch slot, ID register, instruction cache | issue, hit, bus answer, accept into ID, shift, redirect | instruction bus, EX (drain), traps and branches (redirect) | four assignments of one edge to the same registers; bus wait states; redirect while a request waits | ID receives every instruction of the path once, in order, with its own word; nothing waits for ever |
| Pipeline (`qar_core.v` 475-906, `regfile.v`) | EX register, data bus access, register file | execute, forward, interlock, load and store, branch | fetch unit, data bus, CSRs, peripherals | forwarding against every wait state; one write port for EX and the late load | programs see one instruction at a time |
| CSRs and traps (`qar_core.v` 447-473, 540-646, 908-960, 1107-1155) | `mstatus` to `mip`, priorities, acknowledge strobes | CSR instructions, exception, interrupt, `MRET` | peripherals' interrupt lines, timer compare | an interrupt meets any state of the pipeline and both buses | `mepc` is the instruction that is due; a handler returns |
| ALU (`alu.v`) | none | 32-bit operations | EX | signed and shift edges | equals arithmetic modulo 2^32 |
| CAN (`can.v`) | receive queue of 4, filter, mailbox, status and interrupt bits | register writes, `TX_CMD` loops a frame back | firmware | copies of the queue's state kept by four writes; wrap of pointers | bounded queue, drops remembered, flags consistent |
| SPI (`spi.v`, `devkit/hal/spi.h`) | two queues, shifter, chip select, flags, diagnosis | register accesses, start and end of a byte | firmware polling | push, pop, start and end at one edge; acknowledge against event; pointer wrap | bytes come back once and in order; faults are never silent |
| Timer (`timer.v`) | prescaler, counter, 2 compare channels, watchdog, 2 PWM, 2 captures | register writes, tick | firmware, GPIO (PWM), interrupt | a write meets a tick at one edge | watchdog always bites visibly; a set channel is always met |
| I2C (`i2c.v`) | command and bit machine, two queues | START, byte, ACK, STOP | firmware, bus | commands that arrive while busy, CMD written before the last is taken, faults that coincide | the bit on the line is the one counted; commands end; faults are named |
| UART (`uart.v`) | two queues, shifters, RS-485 turnaround, LIN sequencer | write, read, break, header | firmware, line | flag races, overrun, break while bytes wait | the transmitter comes to rest; a response is whole, cut or flagged |
| GPIO (`gpio.v`) | direction, output, debounce counters, edge masks | register writes, input edges | pins, timer PWM | event and acknowledge at one edge, debounce before it | no glitch passes the filter; a steady level does |
| ADC (`adc.v`) | sequencer, conversion, result, overrun | start, continuous, read | firmware | read, acknowledge and finished conversion at one edge; mask and divider change while it runs | a ready result is pending; every channel has its turn |
| HAL (`devkit/hal`) | none | helpers: register accesses and polling loops | peripherals | poll, then access; read-modify-write while hardware moves | polls guard the access, and end |
| SDK (`devkit/sdk`) | none | `_start`, constructors, `qar_sdk_init` | HAL, every peripheral | runs on what an earlier program left, while pins and lines move | `main()` finds quiet peripherals |
| Example firmware (`devkit/examples`) | its variables, what it has read | `main()`, `uart_isr` | HAL, peripherals | a queue, an engine or a converter that is still busy when the next access comes | reads back what it sent, comes to its end |
| Image tools (`devkit/tools/elf2qar`, `qhex`) | images in memory, `program.hex`, `data.hex`, binary | one run from argument to last write | files | overlapping segments, segments at the end of a memory, full disk, interrupt, runs on what older runs left | image equals program |
| `qarsim` (`devkit/cli`) | none | assemble, run, call `elf2qar` | files, test benches | ranges and encodings, arguments of `elf2qar` | image equals program |
| Test benches, harnesses (`qar-core/sim`, `formal`) | none | drive the RTL | RTL | `qar_core_random_tb.v` has wait states and no interrupts, `qar_core_exec_tb.v` interrupts and no wait states | - |

`PROJECT.json` lists the hazards of this code at their lines, with the properties that
cover each.

## 2 The modules

| Module | Models | State and actions |
|---|---|---|
| `QarAddr` | program counters | `PC`, `Succ` (the counter wraps) |
| `InstrStream` | abstract: what the fetch unit promises | `Deliver`, `Consume`, `Redirect`, `Wait`; the input `redirect` is the address the path goes to, if any |
| `QarFetch` | the block *fetch management* | `Cycle(drain, ready)` is one edge: `Advance` composes issue, hit, accept, shift and answer in the code's order; `Redirect` is the flush |
| `QarInstr` | decode and execute as functions | `RdValue`, `Jumps`, `Target`, `Exception`, `AfterWrite`, `TrapEntry`, `TrapReturn`, `TakeIrq` |
| `QarIsa` | abstract: one instruction at a time | `Execute`, `Interrupt`, `Sample` |
| `QarCore` | fetch unit, EX, data bus, registers and CSRs together | `Edge` is `Trap`, `Jump` or `Flow`; each includes `Commit`, what every edge does to registers, buses and devices |
| `FrameQueue` | abstract: bounded queue with a drop memory | `Arrive`, `Take`, ... |
| `QarCan` | the CAN controller | one action per register write |
| `QarSpi` | the SPI master | `Edge(op, done, miso)`: one register access and one shifter event |
| `QarI2c` | the I2C master | `I2cEdge(op, tick, line)`: one register access, one step of the bit engine, the level of SDA |
| `QarUart` | the UART with LIN | `UartEdge(op, rx, tick, over)`: one register access, one event of the line, a step of the bit clock, the end of a break |
| `QarGpio` | GPIO and debounce filter | `GpioEdge(w, gpio_in, pwm)` |
| `QarAdc` | the converter | `AdcEdge(op, sample)`: one register access with the sequencer and the conversion |
| `SpiEcho` | `QarSpi` driven by the loops of `spi.h` | `Poll`, `Write`, `Read`; hardware runs on between poll and access |
| `QarTimer` | timer, watchdog, PWM, capture | `TimerEdge(w)`: one register write, or none, with the tick |
| `QarHal` | the helpers of `devkit/hal/*.h` | no state: each helper is its sequence of register accesses |
| `QarSdk` | `devkit/sdk/hal_init.c` | no state: `qar_sdk_init` and its blocks, in the helpers of `QarHal` |
| `QarDemos` | the programs of `devkit/examples` | no state: each `main()` and `uart_isr` as steps; `adc_client` is a client of `adc.h`, which no example uses |
| `Firmware` | `crt0.S` and one program of `QarDemos`, or the driver of `SpiEcho`, on all the peripherals | `Boot`, `Execute`, `Compute` (a poll in vain, or no access), `Interrupt`, `Restart` (a start without a reset), `Echo`; each is one clock edge of the peripherals |
| `QarImage` | `elf2qar` and `qhex` on one directory | one action per step of a tool: start, header, open, word or line, close; `Fail`, `Kill` |
| `MCQueues` | CAN or SPI under register traffic | `unit`, chosen at reset, names the one in use |
| `MCEngines` | I2C, UART, timer, GPIO or ADC under register traffic | `unit`, chosen at reset among `Units`, names the one in use and its firmware |
| other `MC*` | values of the constants for TLC | programs, control words, register writes |
| `*_proofs` | theorems | see section 5 |

Definitions named in a comment "mutant of X" are plausible wrong versions of X. No
specification uses them; they show that each property can fail.

Correspondence and abstraction:

- *Empty registers.* A register with a valid bit (`if_valid`, `prefetch_slot_valid`,
  `id_valid`, `ex_valid`, `dmem_pending`, `fetch_req_pending`) is one variable that is
  `None` when the bit is 0.
- *Order of assignment.* Where the Verilog assigns a register several times in one edge,
  the operator's `IF` chain lists the assignments from the last to the first.
- *Instructions.* A record of opcode class, register numbers, immediate and CSR. The
  classes are those the decoder distinguishes for control; `ADDI` and `ADD` stand for all
  register operations, `BEQ` and `BNE` for all branches. `BADOP` is an OP encoding with an
  unknown function: the code writes `rd` and then traps. A CSR is packed into few bits. The
  data word has `WordBits` bits and arithmetic wraps at that width. The `mcause` codes are
  four distinct small words.
- *Environment of the core.* The two buses answer after any number of cycles. The two
  interrupt inputs take any level at any edge; they stand for `mtime >= mtimecmp` and the
  peripherals' lines. One device register that a read advances stands for the peripherals:
  an access that is dropped or repeated becomes visible in it.
- *SPI bit timing.* `clkdiv` and the bit counter are one wait: a transfer ends at some
  later edge. A byte received without loopback is arbitrary.
- *I2C.* The divider is a `tick` that may come at any edge. A byte is the set of its 1
  bits. Received bytes are left out: only a register read shows them. `line` is the level
  the engine reads back from SDA.
- *UART.* Bytes, parity and stop bits are left out: a frame takes `FRAME_BITS` bits to send,
  and a frame that is received ends as a byte or as an error. LIN compares bytes, so the
  ones it compares (`LinByte`) are kept. The direction lines of RS-485 are combinational and
  left out. `response` is history, not state of the code: how many bytes the LIN response
  owes, how many it sent, whether firmware cut it.
- *GPIO.* `level` and `held` are history: the levels outside at the last edge and for how
  many edges each has stayed.
- *ADC.* All of `adc.v` but the interrupt enables. Samples are model values.
- *Register traffic.* Register contents come from the sets of the `MC` modules. `MCQueues`
  and `MCEngines` use one controller per behaviour: the controllers share nothing but the interrupt
  line and the PWM outputs, which `QarGpio` takes at any level.
- *Programs.* A helper is a sequence of steps: `put` and `get` are one register access,
  `load` and `store` the two of a `|=`, `until`, `while` and `least` the polling loops. The
  processor makes at most one access per edge, in program order, with any number of edges in
  between: what `QarCore` shows of its data bus. One UART stands for the two, whose blocks
  and registers are the same. A peripheral a program does not use sees the writes of
  `qar_sdk_init` and nothing else. `send_byte` of `uart_rs485.c` stands for the one that
  `uart_rs485_isr.c` calls and no file defines, and `uart_isr` is taken to be installed as
  `docs/devkit/sdk.md:33` has it. Times are scaled to a small timer. `served`, `gaps` and `passed`
  are history.
- *Starts without a reset.* `Restart` brings control back to `_start` from any step of the
  programs of `Restartable`, and `Boot` then calls the constructors or, as `crt0.S` does, does
  not. `Restartable` is a bound: the controllers of the other programs keep work that
  `qar_sdk_init` does not end. The UART of `uart_rs485`, which is in it, keeps its queued bytes
  (section 6).
- *Image tools.* A line of a hex file is the bytes of its word, most significant first; `%08x`
  and `sscanf("%x")` are modelled by what they do to those bytes, and a file is cut between
  bytes, not between digits. `stdio` keeps what is written until the disk takes it: once the
  disk is full all that follows is lost, and so is any part of what was written before. An
  interrupt loses any part of what was written. A file is shorter than 512 MiB, so that
  `addr + len` does not wrap.

## 3 The runs

"States" are distinct states; all runs end, so bounds are those of the constants only.

| Run | Checks | States |
|---|---|---|
| `fetch_cache` | `FetchTypeOK`, `QueueHasRoom`, `CacheCoherent` | 540 |
| `core_isa` | `PipelineInOrder`, `AccessOwned`, `ImplementsIsa` (implements `QarIsa`), `DeliversStream` (implements `InstrStream`) | 241 k |
| `core_irq` | `IrqResumeBound`, `CoreProgress`, `FetchProgress`, `HandlersReturn` | 19 k |
| `queues` | CAN: `FifoBounded`, `PendingSound`, `OverflowExplained`, `ImplementsQueue` (implements `FrameQueue`); SPI: `FaultRecorded`, `DropAnnounced` | 386 k |
| `engines` | I2C: `BitOnLine`, `I2cFaultNamed`, `CommandsServed`; UART: `ResponseAccounted`, `TransmitterRests`; Timer: `ExpiryLatched`, `StaleCountersRestart`, `AlarmComes`, `WatchdogBites`; GPIO: `GlitchFree`, `LevelSettles`; ADC: `RoundRobin` | 70 k |
| `firmware` | SPI driver: `EchoInOrder`, `EchoArrives`; programs: `ReadsInOrder`, `BusCarriesMessage`, `InitQuiets`, `GapCountedOnce`, `DelayNotShort`, `DemosFinish` | 476 k |
| `image` | `HexIsImage`, `HexOnlyCut`, `BinaryIsImage` | 51 k |
| `fetch_cache_order` | violation of `ProgramOrder` with a cache | - |
| `irq_saves_due_pc` | violation of `InterruptSavesDuePc` | - |
| `spi_fifos_bounded` | violation of `FifosBounded` | - |
| `timer_kick` | violation of `KickReloads` | - |
| `boot` | violation of `KnownAtMain` | - |

What the two runs of the development kit show:

- `firmware` lets every program meet the peripherals at every pace of the bit clocks and with
  every gap between its own accesses. `ReadsInOrder`: what `can_loopback`, `spi_loopback` and
  the client of `adc.h` read is what they sent or asked for, though queues, shifter and
  conversions go on between poll and access. It holds of the first start after reset, and of a
  start on top of a running program when that start runs `qar_sdk_init` (`FreshStart`): the
  frames an earlier program has left are then flushed. Of a start without it the code promises
  nothing, and `ReadsOwnFrames` is refuted there (section 6). `BusCarriesMessage`: no command of
  `i2c_loopback` overwrites one the engine has not taken, which a write of CMD would lose, and
  none takes another's byte. `InitQuiets`: after `qar_sdk_init` no pin is driven or watched, no
  controller is enabled, no timer runs, no interrupt is pending, no error, gap or break of the
  UART is recorded, no CAN frame waits and no UART frame is on its way, whatever button edges and
  gaps of the line come while it runs and wherever the program it interrupts was. Bytes queued
  in UART, SPI and I2C stay. `GapCountedOnce` and `DemosFinish`: `uart_isr` counts a gap once and
  in the end, and no poll waits for a flag that has passed. `DelayNotShort`: `firmware_delay` holds
  over the wrap of the timer.
- `image` runs both tools three times in any order on five ELF files, over old files, with
  failures, a full disk and an interrupt at every step. `PairOfOneElf` is stated and not
  checked: the code does not keep it (section 6).

`queues` has no fairness: a CAN frame arrives within one write, and an SPI transfer that never
ends is one of the cases. The engines go on by themselves, so `engines` also asks what must
come in the end, under the fairness of section 4.

Bounds and why they suffice:

- *Fetch.* Six addresses: at most four are in the unit at a time (`id`, `if_buf`, `slot`,
  `fetch_req`), so a skipped or repeated one is told from its neighbours. Two cache lines
  over six addresses give three tags per line, so evictions and false hits happen. Two
  programs: all words different, and equal words at two addresses.
- *`core_isa`.* Every two instructions from a pool of 13 (register operations, loads and
  stores to memory and device, branches, jumps, an unknown OP) and a third that depends on
  what they have done (`Readers`); every two from 13 CSR and system instructions and a third
  that enters a trap, returns, or reads and writes `mstatus` (`CsrLast`); each followed by a
  halt. An interlock or forward relates at most two neighbours and one access: every such
  pair is there, and what it leaves in registers, memory and CSRs is compared at every step. Three registers keep `x0`, a
  source and a destination apart; words of three bits wrap in the pools. Interrupts stay
  disabled, their inputs move: what `mip` reads is part of the check. Under interrupts
  `ImplementsIsa` does not hold (section 6), so interrupts have a run of their own.
- *`core_irq`.* Three loops with every kind of access in loop and handler; both interrupt
  inputs free at every edge, hence an interrupt in every state of the pipeline and buses.
- *CAN.* Four rows and 3-bit pointers as in the code, so every wrap happens. Two
  identifiers, told apart by one bit, under two filters and masks; frames are told apart by
  their identifier in `queues`, by identifier and payload in `firmware`. The error counter,
  which nothing in the code reads but firmware, has one value.
- *SPI.* Two rows in `queues` (every combination of head and tail, both flags full and
  empty), four as in the code in `firmware` and `spi_fifos_bounded`. `Window` is the depth of
  a queue: with a larger window the driver runs into the overrun of section 6.
- *Timer.* Registers of two bits and one channel: the two channels are the same code on
  disjoint registers and share only the tick. A prescaler of 0 or 1, loads, compares and
  PWM periods of 1 or 2 make every register cross its limit and wrap; the shorter period meets a
  PWM counter that is already past it. The timer is used
  as an alarm, as a watchdog, or for PWM and captures: the three share the counter, its
  prescaler and CTRL, and each kind of firmware writes those.
- *I2C.* Two rows, bytes of two bits: the engine has a first and a last bit, and nothing in
  it counts further. One kind of firmware sends (`i2c_out`: commands, bytes, enable and
  disable, acknowledges), one receives (`i2c_in`).
- *UART.* Two rows, frames of one bit, two LIN bytes (the sync byte and the slave's own
  identifier) and responses of two bytes, so that an underflow, a whole response and bytes
  left over all happen. Three kinds of firmware: a LIN slave under headers, breaks and
  noise, a LIN master that asks for breaks and headers, a receiver of plain frames with
  errors and gaps. The slave hears bytes within headers only (`Heard`): a byte between headers
  fills the receive queue, which is the receiver's part.
- *GPIO.* One pin, which is also a PWM pin (pins share no state), a counter modulo 4 and
  windows of 0, 2 (reset) and 3, the largest value the counter has.
- *ADC.* Three channels and masks of none to three of them, so the order wraps with a gap;
  a conversion of two edges, divider values 0, 1 and 2.
- *Firmware.* Queues of four and eight rows, eleven CAN identifier bits and I2C bytes of
  eight bits, as in the code; frames of the UART have two bits. A timer modulo 4 wraps within
  most delays of two and three ticks; a PWM period of 3 has three rounds of the ramp. Two
  starts without a reset, each of which strikes at every step, the second within the
  `qar_sdk_init` of the first too; three idle gaps of the line, so that one meets the
  handler of the other.
- *Image.* Words of two bytes have a first and a last byte; program memory of two words and
  data memory of one. The ELF files hold overlapping segments, an empty one, gaps, segments
  that end at, begin beyond and cross the end of a memory, a segment that is not loaded, a
  file that ends too early in its data or its headers, and a file that is not ELF. Two older
  `program.hex`: one with an empty and a short line, one with a line that is no number. Three
  runs are enough for a tool to work on what a failed or interrupted one has left on top of
  a good one.

Deadlock is an error in all runs but `image`: the clock can always tick, and so can firmware.
In `image` the developer stops after `MaxRuns` runs (`CHECK_DEADLOCK FALSE`).

Every property of a passing run has a mutant of a mapped definition in `PROJECT.json`
under which TLC reports the property violated.

## 4 Fairness

- The clock runs: weak fairness of the next-state relation (`FetchFairness`,
  `CoreFairness`), of an edge without a write of the timer
  (`Idle`) and of the ADC (`AdcQuiet`), and of an edge of the GPIO at which nothing outside
  changes (`GpioStill`).
- The bit clocks run and a break ends: weak fairness of `I2cTick` and `UartTick`, which are
  enabled only while the engine has a step to make, whatever firmware does at that edge. The
  dividers are counters that restart at their limit (`i2c.v:200-279`, `uart.v:336-390`).
  They make neither firmware nor the line act.
- A wait state ends: weak fairness of the edge at which a bus with a pending request
  answers. The code has no timeout on either bus and stalls until `ready`
  (`qar_core.v:654`, `1069`); memories that answer are its assumption
  (`docs/architecture.md`). A withdrawn request frees the environment from its answer.
- `FetchProgress` and `CoreProgress` are checked in `QarCore`, where EX is modelled: neither
  assumes that EX accepts what ID holds.
- An SPI transfer ends: the divider and bit counter count while `busy` (`spi.v:189-231`).
- A program goes on (`ProgramFairness`): strong fairness of the step that `pc` is at. The
  processor polls in a loop of a few cycles, and every flag it waits for stays up longer than
  that or until it acknowledges it, so a flag that is up again and again is seen. The interrupt
  of `uart_isr` is taken in the same sense.
- The peripherals a program uses run (`ClockFairness`): weak fairness of the end of an SPI
  transfer, of a step of the I2C engine, of a bit the UART sends and of a step of a conversion.
  A quiet line shows its gap (`LineFairness`), where the demo waits for one.
- The driver of `SpiEcho` need never start an access, and interrupt inputs need never move: a
  byte arrives (`EchoArrives`) without further writes or reads.
- `AlarmComes`, `WatchdogBites`, `RoundRobin`, `LevelSettles`, `CommandsServed` and
  `TransmitterRests` speak of behaviours in which firmware falls silent or gives the
  controller nothing new. The hypotheses (`<>[][Idle]_timerVars` and so on) are met in the
  runs: the quiet edge is always possible, and fairness never asks for another.

## 5 Proofs

`tlapm` proves the following for every value of the constants under the assumptions named
in the modules (`FetchAssumption`, `InstrAssumption`, `CanAssumption`, `SpiAssumption`,
`TimerAssumption`, `I2cAssumption`, `UartAssumption`, `GpioAssumption`, `AdcAssumption`,
`FirmwareAssumption`, `ImageAssumption`). A hypothesis a theorem has besides is in its row.
`FirmwareAssumption` says that the pins and channels are those that `qar_sdk_init` clears and
that a CAN body is the three registers of the mailbox.

| Theorem | Statement | Argument |
|---|---|---|
| `FetchTypeCorrect` | `[]FetchTypeOK` | inductive as it stands |
| `QueueNeverOverruns` | `[]QueueHasRoom` | a request is issued only with an empty slot, and the slot fills only from its answer; holds with the cache too |
| `CacheCorrect` | `[](CacheCoherent /\ HitStaysOffBus)` | the line written is that of the address answered; a fill changes one index only, and the request it satisfied is gone |
| `InstructionsInOrder` | `ICACHE_ENTRIES = 0 => (FetchSpec => []ProgramOrder)` | from `StreamInv` |
| `WordsAlwaysMatch` | `[]WordsMatch` | address and word move together |
| `CoreTypeCorrect` | `[]CoreTypeOK` | inductive, for every word width from three bits on, which hold the cause codes |
| `CoreDrivesFetch` | `CoreSpec => FetchSpec` | every edge of the core is a `Cycle` of the fetch unit: what is proved of the fetch unit holds in the core |
| `CoreDeliversStream` | without a cache `CoreSpec => DeliversStream` | each edge maps to `Deliver`, `Consume`, `Redirect`, `Wait` or a stutter, with `next <- Due` and `redirect <- RedirectTo`: a path is left only for the target of a trap, a jump, a taken branch or `MRET` of that cycle |
| `StagesInOrder` | without a cache `[]PipelineInOrder` | from `StreamInv`, and EX is left only for what follows it |
| `InterruptResumes` | without a cache `IrqResumeBound` | from `StagesInOrder`: `mepc` is the first valid stage, or `pc_fetch` behind the request on the bus |
| `IsaInvariant` | without a cache, no source enabled: `[]IsaInv` | inductive with `StagesInOrder` |
| `AccessStaysOwned` | the same hypotheses: `[]AccessOwned` | from `IsaInv` |
| `CoreImplementsIsa` | the same hypotheses: `ImplementsIsa` | from `IsaInv`: the edge that leaves EX maps to `Execute`, every other one to `Sample` or a stutter |
| `CanTypeCorrect` | `[]CanTypeOK` | inductive |
| `CanFlagsAgree` | `[](FifoBounded /\ PendingSound /\ OverflowExplained)` | inductive with the types; lemmas on the pointers modulo 8 |
| `PendingIsSound`, `OverflowIsExplained` | `[]PendingSound`, `[]OverflowExplained` | conjuncts of `CanFlagsAgree` |
| `CanImplementsQueue` | `CanSpec => Queue!Spec` | `Waiting` grows at the end on a push and loses its head on a pop |
| `SpiTypeCorrect` | `[]SpiTypeOK` | inductive, for every queue depth |
| `TransfersAreSelected` | `[]TransferSelected` | inductive with the types |
| `FaultsAreRecorded`, `DropsAreAnnounced` | `FaultRecorded`, `DropAnnounced` | from the order of the assignments of an edge |
| `EchoKeepsOrder` | for a window of at most a queue: `[]EchoInOrder` | from `EchoInv` |
| `TimerTypeCorrect` | `[]TimerTypeOK` | inductive, for every `Span` |
| `LineCarriesBit` | `[]BitOnLine` | inductive: the engine moves the count and SDA together |
| `FaultsAreNamed` | `I2cFaultNamed` | the code of an edge names a fault of that edge |
| `ResponsesAreAccounted` | `ResponseAccounted` | from `ResponseBalance`: while a response is sent, what it sent and what it owes make up its length |
| `NoGlitchPasses` | `GlitchFree` | from `CountIsHonest`: a count that runs is at most `held` and belongs to a level that differs from the filtered one |
| `ReadyStaysPending` | `[]ReadyIsPending` | inductive |
| `ExpiryIsLatched`, `CountersRestart` | `ExpiryLatched`, `StaleCountersRestart` | from the types and one edge |
| `GapsCountedOnce` | `[]GapCountedOnce` | from `GapInv` |
| `DelayIsNotShort` | `DelayNotShort` | from `DelayInv` |
| `InitIsQuiet` | `[]InitQuiets` | from `InitInv` |
| `MessageCarried` | `[]BusCarriesMessage` | from `BusInv` |
| `ReadsAreInOrder` | `[]ReadsInOrder` | from `ReadInv`; speaks of a `FreshStart` |
| `ImageInvariant` | `[]IInv` | inductive: what images, words and files hold at every stage of a tool |
| `HexHoldsImage`, `HexCutOnly`, `BinaryHoldsImage` | `[]HexIsImage`, `[]HexOnlyCut`, `[]BinaryIsImage` | from `IInv` |

`HexIsImage` speaks of closed files only and is not inductive. `IInv` adds what holds before:
after `i` program headers the images are `Image(elf, i)` (lemma `ImageStep`: one more header
stored over the image is one more header of which the last that covers a byte wins), a file
being written holds the first `i` lines, or less of them once the disk is full, and the
words of `qhex` are the values of the lines it has read. A file that `whole` names is not
touched before it is opened again. The theorems hold for every set of ELF files, every word
and memory size and any number of runs.

`ProgramOrder` is not inductive: it says nothing of the queue while ID is empty. The
strengthening `StreamInv` adds that the whole queue is one run of consecutive addresses
(`QueueInOrder`), that its places fill from the front (`QueueHasRoom`) and that words match
their addresses. `ICACHE_ENTRIES = 0` is needed: with a cache the run `fetch_cache_order`
refutes `ProgramOrder`.

*The core.* `PipelineInOrder` says where instructions are, not what they work with.
`IsaInv` adds the data: EX holds the word of its own address and operands equal to what the
register file holds now (`OperandsHold`), although they were read or forwarded edges ago,
and an access on the data bus is that of the instruction in EX, with its destination and its
value (`AccessOwned`, `AccessHolds`). ID reads its operands at the edge it enters EX; that
they are right then is where interlock and forwarding enter. Two hypotheses are needed, and
the code justifies no weaker ones. Without a cache: with one, `fetch_cache_order` refutes
`ProgramOrder`. A program that writes `mie` nowhere (`EnablesNoSource`): an interrupt strands
the access of the instruction it flushes (section 6), and a late answer writes a register of
another instruction. The inputs of the interrupts still move. `InterruptResumes` holds with
interrupts. Powers of two and the words built from bits are recursive functions; what is
needed of them (a word built from bits stays a word) is proved by an induction over a set
(`NatSetInduction`, from `WFMin`), which takes no operator.

*The SPI driver.* `EchoInOrder` alone is not inductive. `EchoInv` adds that what the last poll
saw still holds when the driver acts on it (`program = "write"` leaves room in the window,
`"read"` a byte in the queue), that the queues are not overrun (`FifosBounded`), and that no
byte enters before loopback is set. `Window <= SpiDepth` is the driver's part of the bargain:
TX_READY does not keep it from overrunning a queue, as `spi_fifos_bounded` shows. The proof
follows one edge through `Pipe`: it is the old one, the old one with the written byte at its
end, or the old one without its head, whether the shifter starts, ends or runs on. Lemmas on
pointers modulo twice the depth and on sequences that are windows of a ring carry it.

*The programs.* A program is some hundred steps, and no proof about all of them looks at
each. `Fit` says what all texts have in common: they write no timer counter and count no gap, their jumps stay in
the text, and a wait of `firmware_delay` is entered only through the `mark` before it. It is
kept by concatenation and by the loops and conditionals of `QarDemos`, so one lemma per
helper and per demo gives it for every `Text[d]` and every value of the scaled times.
`ControlInv` says that control is in the text or, between an interrupt and its `mret`, in
`uart_isr`. `GapInv` counts what the handler has not counted yet: an idle flag that is up
stands for one gap, except between the handler's count and its acknowledge, and the flag
that it has seen stays up until then. `DelayInv`: the difference `counter - start`, in the
width of the timer, never runs ahead of the ticks that have passed. That every edge moves
the counter by at most one tick while no program writes it is `EdgeTicks` and `OneTick`.
A delay of as many ticks as the counter has values, or more, never returns, and the theorem
holds of it in vain.

*Start-up.* `InitQuiets` speaks of one instant, the call of `main()`. `InitInv` says of every
step of `qar_sdk_init` that has been taken what it leaves behind and what can undo it
(`Lasts`): what a step has shut stays shut, since no later step opens it; a flag or a queue
that a step has cleared stays clear, since what could fill it was shut by an earlier step. So
the order of the steps carries the proof: it needs the masks of the edges to be cleared before
the GPIO's flags and the timer to be stopped before its own. The UART is disabled
first: from then on it sends and receives nothing and sees no gap, so its flags stay clear once
they are. The masks of UART and CAN are
cleared by a load and a store, and `Loaded` says what the accumulator holds in between, also
when `uart_isr` runs there and returns. `Hush` and `Ordered`, which say this of a text, are kept by
concatenation, as `Fit` is.

*The bus of I2C.* `BusInv` counts: of the `k` commands that `i2c_loopback` has given when it is
at `pc`, all are served or all but the last, which waits alone in the command register
(`Bus`), and the bytes that the engine has not taken lie in the queue in their order. After a
poll that has seen the register empty all `k` are served (`SeenTaken`), so that the next write
meets an empty register.

*What is read back.* `ReadInv` says for each place of `main()` how many values it has kept
(`Got`) and where the others are. `can_loopback` (`CanOrder`): how much of the frame is in
the mailbox, and which frames wait between the two pointers modulo eight. A program that is
started again without a reset may find frames of the program before it. When the start runs
`qar_sdk_init` they are gone at `main()`: the flush is one of the steps of `InitInv`. When it
does not, only the shape of the queue and the number of values read are kept (`CanShape`,
`Got`), and `CanOrder` is claimed under `FreshStart` alone. `spi_loopback` (`SpiOrder`): the byte on its way is in the transmit queue,
in the shifter or in the receive queue, and nowhere else. `adc_client` (`AdcOrder`): no
conversion of another channel is left when the single one starts. The log is a prefix of what
`Expected` names, and a step adds at most one value at its end (`Grows`, `OrderKept`). For these
four texts the proofs do use the steps, in one table each (`CanSteps`, `SpiSteps`, `I2cSteps`,
`AdcSteps`); all that happens before `main()` is left to the common part.

TLC agrees with each of these on a small instance before any proof: `GapInv`, `DelayInv`,
`InitInv`, `BusInv` and `ReadInv` hold on the instance of `firmware`, `IsaInv` on that of
`core_isa`, and `EchoInv` on `EchoSpec` with windows of two and four bytes.

`CoreTypeOK`, `HitStaysOffBus`, `CanTypeOK`, `SpiTypeOK`, `TransferSelected`, `TimerTypeOK` and
`ReadyIsPending` are proved and in no run.

Every invariant, every action property and every refinement that a passing run checks has its
theorem. Model-checked only: all liveness (`FetchProgress`, `CoreProgress`, `HandlersReturn`,
`EchoArrives`, `DemosFinish`, `AlarmComes`, `WatchdogBites`, `RoundRobin`, `LevelSettles`,
`CommandsServed`, `TransmitterRests`), which is out of the prover's reach.

## 6 Where code and documentation disagree

With a run:

1. *Cache hit lost* (`qar_core.v:1066`, run `fetch_cache_order`). A hit that goes to IF in
   the cycle in which ID takes the IF buffer sets `if_valid` (1043); the later
   `if_valid <= 0` (1066) wins, and the instruction is skipped.
2. *Interrupt skips the instruction on the bus* (`qar_core.v:927`, `939`, run
   `irq_saves_due_pc`). With EX, ID and IF empty `mepc` is `pc_fetch`, already one word
   past the request on the bus. `IrqResumeBound` shows that one instruction is the limit.
3. *SPI queues overrun after a wrap* (`spi.v:52`, `55`, run `spi_fifos_bounded`). The
   difference of the pointers is computed in 32 bits and never equals the depth once the
   head has wrapped. `firmware` shows what a driver may rely on: as many bytes on their way as
   a queue has places.
4. *Watchdog kick lost* (`timer.v:139`, run `timer_kick`). The tick's assignment comes
   later; with prescale 0 every kick is lost. `ExpiryLatched` shows that the expiry is at
   least never silent. The same order loses writes of `WDT_LOAD`, `COUNTER`, `CMP` and
   `PWM_PERIOD` that meet a tick.
5. *`main()` without `qar_sdk_init`* (`devkit/sdk/crt0.S:28`, run `boot`). `_start` calls no
   constructor, and `devkit/cli/linker.ld` keeps no `.init_array` (nor defines
   `__data_start`, `__data_end` and `__data_load_start`, which `crt0.S` uses), where
   `hal_init.h:11` has `qar_sdk_init` "invoked automatically by the SDK runtime before main()"
   and `README.md:104` the same. `InitQuiets` shows what a start-up that calls it would have. Without it a `can_loopback`
   that is started again without a reset reads frames that were left in the queue
   (`ReadsOwnFrames`).

Seen while modelling, stated as definitions where a definition is named, without a run:

- An instruction in EX that an interrupt interrupts has taken effect and runs again after
  `MRET` (`InterruptedHasNoEffect`, `qar_core.v:1031`); a load or store flushed by an
  interrupt leaves its access on the data bus, whose late answer writes `rd` or takes the
  write port (`902`).
- Forwarding (`qar_core.v:562-566`) never decides anything: `id_accept` needs an empty ID
  (967), so ID and EX are occupied together only while EX waits for the data bus, and the
  load-use interlock then holds ID back until the register file is written. The model
  keeps it; reading the file alone leaves the reachable states of `core_isa` unchanged.
- A redirect withdraws a request on the instruction bus before `ready`, where
  `docs/architecture.md:197` has the address held.
- `irqack` bit 0 does not clear the timer bit of `mip`: `mip` mirrors the level
  (`qar_core.v:1023`; `docs/architecture.md:119`).
- CAN: clearing IRQ_STATUS bit 0 clears STATUS bit 0 with frames waiting (`PendingExact`,
  `can.v:68`, `docs/peripherals/can.md:13`); the overflow flag of `RX_FIFO_CTRL` is read
  at bit 4, not 3 (`OverflowInBit3`, `can.v:143`, `can.md:29`).
- SPI: `RxReadyMeansByte` and `TxEmptyMeansEmpty` fail after a wrap and on a push that
  meets a start (`spi.v:162`, `186`); IRQ_STATUS bit 2 is no mirror of bits 3 to 5
  (`FaultBitMirrors`, `spi.md:17`); `spi_cs_n` is all ones (`CsAsserted`, `spi.v:75`,
  `| 4'b1111`; `spi.md:21`).
- Timer: `cmp + period` that wraps to 0 disables the channel (`timer.v:148`).
- I2C: a missing acknowledge is never seen (`NackReported`). `STATE_ACK` is entered with
  SCL low, is left at its first tick because SCL is low (`i2c.v:243`), and so never samples
  SDA; `docs/peripherals/i2c.md:21` has "a missing ACK raises `STATUS[3]`". A READ pushes
  `shift_reg` before its last bit is in it (`256`, `259`). A WRITE that finds no byte is
  overtaken by READ and STOP of the same CMD. A write of CMD drops commands that still wait
  (`152`). The command of FAULT_STATUS may be one that was taken at the edge of a fault of
  another (`i2c.md:17`, "last command").
- ADC: `data_valid` is cleared when a conversion starts (`adc.v:169`, `179`), so the overrun
  test of `192` never holds (`OverrunDetected`; `adc.md:23`, "Overruns are detected when
  firmware fails to read `RESULT` before the next conversion completes"). STATUS has overrun
  at bit 3 and the sequencer at bit 2, the reverse of the table in `adc.md`. A manual start
  converts the channel CTRL names when it starts, not when it was asked for.
- GPIO: the edge detector sees the filtered pin masked with DIR (`gpio.v:69-72`), so making a
  high pin an input or output latches an edge that no pin had (`gpio.md`, IRQ_RISE "latches
  low→high transitions").
- UART: a break that is detected at the edge of a read leaves a queue whose pointers have
  crossed (`FlushEmpties`, `uart.v:520` against `308`; `docs/peripherals/uart.md`: "Whenever
  a break is detected, the RX FIFO is flushed"). A header or break that is asked for at the
  edge a break ends is lost (`HeaderServed`, `347`; `uart.md`, `LIN_CMD[3]` "issues a break
  and transmits the Sync/ID bytes"). A break that starts between the sync byte and the
  identifier of a header swallows the identifier (`322`, `355`). Bytes beyond the length of a
  response are sent after it as plain frames ("drains exactly the requested number of
  bytes"). A cancel at the edge of a matching header has no effect (`484`). A framing error
  in the last stop bit is not seen (`459`, `466`). The driver enable falls when the last stop
  bit starts (`544`). STATUS bit 7 is set when a break is requested (`259`).
- The full tests of `i2c.v` and `uart.v` compute in 32 bits like those of `spi.v`.
- I2C: an idle engine between two commands of a message releases SCL and SDA, so a byte is
  sent on lines that were let go.
- SDK: `qar_sdk_init` flushes the queue of CAN and no other. Bytes that `uart_rs485` had queued are
  there when it comes to `main()` again, and are sent once it enables the UART
  (`QueuesEmptyAtMain`, `hal_init.c:88-99`; `hal_init.h`: "C firmware always starts from a known
  state"). A converter, a shifter and the I2C engine go on with what they have begun when
  `qar_sdk_init` disables them, and their queues keep their bytes too.
- UART: the idle flag may come up before the bytes of a program have been sent, as the
  transmitter does not count. `tx_space` of STATUS is one edge old; a write into a full queue
  is dropped.
- CAN: `qar_can_enable_irq` acknowledges all it enables, so a frame that waits is not
  announced. `can_loopback.c` writes CTRL without the enable flag before its third frame,
  which is therefore not sent.
- Demos: `lin_auto_header.c:32` waits for a header that cannot come, because no helper sets
  the LIN flag of CTRL; the model's program waits there too. `gpio_irq_demo.c` loses a press
  that comes before it acknowledges the last. `timer_pwm_demo.c` starts its captures once,
  and later reads show the first. `uart_rs485_isr.c` calls a `send_byte` of two arguments that no
  file defines, and nothing installs `uart_isr`.
- ADC helpers: `qar_adc_start_single` while a continuous conversion is on its way answers
  that one's channel; `adc_client` waits for it.
- SDK: `qar_sdk_init` writes all ones to the chip select register of SPI, which selects every
  line.
- Image tools: `fprintf`, `fwrite` and `fclose` of the hex files are not checked, so a tool
  whose disk is full ends with success and a hex file cut short, whose last line `qhex` and
  `$readmemh` read as another word. A tool that fails between its files leaves a new
  `program.hex` beside an old `data.hex` (`PairOfOneElf`). Segments outside their memory are
  left out without a message. `cbuild.go:73-79` passes `--imem=N` as one argument, which the
  argument loop of `elf2qar` takes for no option of its own.

## 7 What is not modelled

- *ALU*: not yet (section 8).
- *UART and I2C data*: received bytes, parity, stop bits and the direction lines (section 2).
- *Within the core*: individual ALU operations, misaligned and byte accesses (the core has
  none), `mtime` and `mtimecmp` as counters, the address decoder of the peripherals.
- *Registers without effect on the state*: CAN `BITTIME`, the read data of registers,
  the interrupt enables of SPI and timer, which only gate a line.
- *HAL*: helpers that no start-up code, example or driver calls, single reads or writes all.
- *SDK*: the copy of `.data` and the clearing of `.bss` are the initial values of the
  program's variables.
- *Image tools*: the arguments, and the statistics that `qhex` prints.
- *`qarsim`*: sequential string processing with no state between runs; encodings can be
  stated as operators later.
- *Test benches and formal harnesses*: they drive the RTL as the environment here does.
- *Metastability, reset in operation*: the RTL has one clock and a reset that is not
  asserted again.

## 8 Plan

Order: what every program depends on first (fetch, pipeline, traps), then peripherals by
how much of their state two actors assign.

Done: `QarFetch` against `InstrStream`, `QarCore` against `QarIsa`, `QarCan` against
`FrameQueue`, `QarSpi` with `SpiEcho`, `QarTimer`, `QarI2c`, `QarUart`, `QarGpio`, `QarAdc`; the
development kit: `QarHal`, `QarSdk` and `QarDemos` composed with all the peripherals in
`Firmware`, and `QarImage`; proofs for each of them, `CoreImplementsIsa` included.

Next, models:

1. The peripherals' lines joined to `QarCore`'s external interrupt: a handler that
   acknowledges a device and returns is not entered again for the same event. `Firmware` has
   the handler, on a processor without a pipeline.
2. A second UART on the line of the first: what a LIN master sends, a slave answers.
3. The bits of a UART frame (start, data, parity, stop) on both sides: a frame that is sent
   is received as the same byte, and every broken one as an error.
4. ALU and the assembler's encoders as operators against the decoder's fields.

Next, theorems: the queues of UART and I2C as refinements of `FrameQueue`.
