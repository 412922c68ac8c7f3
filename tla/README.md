# A TLA+ verification project for joho3

joho3 is a small RV32I system on chip written in C++ for a C-to-RTL tool
(`src/ex3_rv32/rv32.cpp`, `rv32_io.cpp`, `rv32_io.h`) together with the firmware
that runs on it (`src/ex3_rv32/rv_test`): interrupt-driven serial I/O on two
UARTs, buttons, a timer, a seven-segment display, six two-player games and a
dozen smaller programs, and a boot loader (`rv_boot_uart`). The same program
runs on an FPGA, on the clock-accurate model `RV32I_ARCH1` and on the
instruction-set simulator `RV32ISim`. Beside it the repository holds the C2R
support library (`src/C2Rlib`), of which three parts have behaviour of their own:
the ELF loader, a burst bus, and an image filter that hangs on that bus.

This directory holds TLA+ modules translated from that code, TLC runs that check
them on small instances, and TLAPS proofs of what matters most for every value
of the constants. Paths below are relative to `src/ex3_rv32/` unless they begin
with `C2Rlib/`.

## 1. Inventory

| Component | State | Operations | Talks to |
|---|---|---|---|
| **IOBuf** (`rv32_io.h:63`) | `rp`, `wp`, `full`, `not_empty`, `buf[3]` | `update(rflag, wflag)` once per clock, `reset` | used by both halves of each UART |
| **MasterFSM** (`rv32_io.cpp:117-214`) | `rw_state`, registered outputs `out` and inputs `in`, `pending_op` | one `fsm` call per clock: issue a load or store, collect its two or three handshakes | core (stall, latched data), channel |
| **SlaveFSM** (`rv32_io.cpp:497-603`) | `r_state`, `w_state`, outputs, end flags | `fsmRead`, `fsmWrite` per clock, calling the device's `devRead`, `devWrite` | channel, device |
| **CTRL** (`rv32_io.h:321-421`) | ownership tables, round-robin values | `connectChannel`: request, arbitrate, connect, release | all channels |
| **UART** (`rv32_io.cpp:216-495`) | two bit-level shifters, two IOBufs, `irq`, error, settings | `do_rx`, `do_tx` per clock, `write_command` | line, slave FSM, SYSCTRL (`intr`) |
| **SYSCTRL** (`rv32_io.cpp:25-101`) | `ext_irq_pending`, `ext_irq_enable`, `d_intr`, `mtime`, `mtimecmp`, `divider` | one `fsm` call per clock with the core's access | core (`meip`, `mtip`) |
| **GPIO** (`rv32_io.h:585-693`) | output registers, digit scan | answers every access at once; scans a digit every 8192 clocks | pins |
| **CSR** (`rv32.cpp:902-981`) | `mstatus`, `mie`, `mip`, `mtvec`, `mepc`, `mcause`, counters | `do_trap`, `do_mret`, CSR instructions | both cores |
| **RV32I_ARCH1** (`rv32.cpp:1006-1231`) | T-state, `pc`, `ir`, `tr`, register file, `IO_LD_completed` | `step` per clock | memory, bus, CSR, debug pins |
| **Debug interface** (`rv32.cpp:1343-1445`) | `step_pending`, halt condition, target | one call per clock: hold the core, let it go at a button | ARCH1, SYSCTRL (clears the button) |
| **MD** (`rv32.cpp:1055-1118`) | operand shift registers | a bit of the product per clock | stalls ARCH1 |
| **RV32ISim** (`rv32.cpp:381-476`) | `pc`, registers | `step` per instruction | same CSR and bus code |
| **Firmware I/O** (`rv_test/io.c`) | `UART_BUF_RX/TX[2]` (40-word rings), `prv_mstatus`, timer hook | `getch`, `putch`, enable and disable routines, handlers | UART, SYSCTRL, GPIO and CSR registers; main and handler share the rings |
| **Start-up** (`entry.S`, `main.c`) | | order of the enable routines | CSR |
| **Games** (`main.c`) | boards, dice, cards, scores, input lines | a menu, six games | firmware I/O, display |
| **Older programs** (`mancala*.c`, `program*.c`, `addprogram.c`, `connection.c`, `test_rv32_*.c`) | boards, lines, rings | calculators, chat, echo, counters | polled or interrupt-driven I/O, timer |
| **printf** (`printf.c`) | | conversions | `io_putch` |
| **Boot loader** (`boot_rv32.c`) | checksum, section counters | polled reads | UART, memory |
| **ELF loader** (`C2Rlib/utils/ELFUtil.cpp`) | tables of the file, `installedSectionEndAddr` | parse, install, dump for RTL and for the boot loader | files, memories |
| **Burst bus** (`C2Rlib/axi/axi4.h`) | as MasterFSM, SlaveFSM, CTRL, with burst counters | bursts of words | devices |
| **Image filter** (`C2Rlib/image/filterNxM*.hpp`) | line buffers, window, output FIFO, registers | `Step` per clock | burst bus, pixel streams |

What is hard in this system:

* *Order and distance of signals.* On the buses every component registers its
  outputs and sees its neighbours' through `connectChannel`, a clock late; master
  and slave withdraw up to three handshakes independently.
* *Interleaving.* The interrupt handler runs between any two instructions of
  main; both rewrite the rings' pointers, the timer's hook and main both write
  the display. Hardware moves in every clock.
* *Repeated clocks.* Device accesses, the multiplier and the debugger stall the
  core in any T-state; what a stalled clock repeats must not show.
* *Edges and levels.* The UART's interrupt line mixes a level (words waiting)
  and a one-clock pulse (word taken from the transmit buffer); SYSCTRL sees only
  rising edges; the handler clears everything at its end.
* *Two implementations of one instruction set.* ARCH1 and the simulator decode
  CSR instructions differently.
* *Limits.* Rings at their capacity, a line that is faster than the firmware, two
  clocks to a bit, carries between the halves of a 64-bit counter, a FIFO that
  must hold what a pipeline still delivers.
* *Damage.* Files that are cut short, a disturbed word in a transfer, noise on a
  line.

What makes each component correct: IOBuf is a bounded FIFO; the buses perform
each operation exactly once at the addressed device, give its answer to the
master that asked, and end it; the line delivers words in order and reports
disturbed ones; serial I/O neither loses, repeats nor reorders a word between line
and program and never waits for ever for a word it has; CSR code masks interrupts
exactly where it says and restores what it masked; ARCH1 computes what the simulator
computes; the debugger stops where its command says; the timer's hook comes on
time and the display shows what the program means; a loaded program is the one in
the file; a game keeps its rules, asks for a move only when there is one, and tells
the right result; the filter's output is the picture filtered.

## 2. Modules

| Module | Models | Abstract specification |
|---|---|---|
| `BoundedFifo` | what a buffer promises | |
| `IOBuf`, `IOBufProofs` | `IOBuf`; theorems about it | implements `BoundedFifo` |
| `BusTransaction` | what the bus promises a core | |
| `AxiBus`, `AxiBusProofs` | MasterFSM, SlaveFSM, CTRL; theorems about them | implements `BusTransaction` |
| `WordLine` | what a pair of UARTs promises | |
| `UartLine`, `UartLineProofs` | two UARTs and the wire, bit by bit; theorems | implements `WordLine` on an undisturbed line |
| `UartIrq`, `UartIrqProofs` | UART word buffers, SYSCTRL's external interrupts, trap and mret, the firmware's rings, `getch`, `putch` and handler; its rings are instances of `IOBuf`; theorems | |
| `Csr`, `CsrProofs` | control registers of both cores and the routines that write them; theorems | |
| `RV32I` | what the cores share: decoding, arithmetic (the simulator's and ARCH1's), formats | |
| `Iss` | RV32ISim | |
| `Core`, `CoreProofs` | RV32I_ARCH1 with MD and debug interface; theorems | implements `Iss` |
| `Timer`, `TimerProofs` | `mtime`, `mtimecmp`, the timer's handler, four hooks, the display; theorems | |
| `ElfFile`, `Loading` | ELF parser; installation, transfer, boot loader | |
| `Mancala`, `Morris`, `HitAndBlow`, `Speed`, `Yacht` | the games | |
| `Printf`, `LineInput`, `Relay`, `Echo` | printf and atoi; line editors and calculators; the chat; test programs | |
| `Programs` | composes `Loading` and all the programs: from the file to the end of a game | |
| `LineBuffer` | line buffers, borders and window of the filter | |
| `AxiBurst` | the burst bus | |
| `FilterAxi`, `FilterProofs` | composes `LineBuffer`, `AxiBurst` and the generated register interface; theorems about the three | |
| `MCCore`, `MCUart`, `MCUartLine`, `MCPrograms`, `MCFilter` | instances for TLC: programs, loads, settings, files, operations | |

Each module contains, next to a modelled operation, its mutation (`...Late`,
`...NoWrap`, `...Closed` and so on): a plausible bug in that operation, under
which the properties that guard it fail. A mutation is used by no specification.

### IOBuf

The state is the code's, with pointers wrapped as `nxt_pnt` wraps them. A
UART calls `update` once per clock, so a step is one call; the call with both
flags clear changes nothing and is the stutter. The guards of `Read`, `Write`
and `ReadWrite` are the flags as `do_rx` and `do_tx` test them. `Contents`
(the words between the pointers) is the refinement mapping to `BoundedFifo`.

### AxiBus

`turn` walks through one clock in the order of `RV32I_SOC_ARCH1`: for each slave
`fsmRead` and `fsmWrite`, each master's `fsm`, `connectChannel`. A set of channel
names stands for the asserted bits: `out[m]` are the master's registered `valid`
and `ready` bits, `rout` and `wout` the slave's, `rdrv` what `fsmRead` has put on
the channel (it copies its outputs *before* computing the next ones, `fsmWrite`
after), `min` what `connectChannel` has shown the master. `rconn`, `wconn` say
whose signals a slave sees. `served`, `rfor` and `wfor` are history: which
accesses the devices have made, and for whom.

`BusTransaction` has three steps, Issue, Access and Complete, and forgets
everything else. `ExactlyOneAccess` is `Transaction!Spec` under the mapping that
shows an operation while `rw_state` is not `RW_Init`: every step of the bus is
one of the three or a stutter.

Left out: bursts (`RV_AXI4_Master::fsm` sets `burst_length = 0` on each call, so
`rdat.last` is `rdat.valid`), the retry on a bad response (no device sets
`mutexError`), sizes and strobes. The code clears `raddr_end`, `waddr_end` and
`wres_end` when the next access starts, the model when the last one is over;
nothing reads them between. Round-robin values are 4-bit, slave numbers 8-bit:
larger systems would wrap, and the proofs are about mathematical integers.

### UartLine

A step is one clock of both ends: `do_tx` of the sender, the wire, `do_rx` of the
receiver, each with its tick counter, bit position, parity and state, and the
buffer between it and the processor as the sequence `IOBuf` is shown to be. Two
clocks lie between a bit's leaving `do_tx` and its being seen by `do_rx`, in both
directions. A period has two clocks at the fastest setting (`ULTRA_FAST`) and
four at the slow one checked. Noise inverts the wire for one clock inside a data
or parity bit, once. `WordLine` knows words only.

A word that fails its parity has been stored by then (`rv32_io.cpp:365`, `374`):
`ParityCatches` says that the error is raised, not that the word is kept out.

Every setting `write_command` decodes is modelled. The one of 1.5 stop bits (five bits
with the long stop bit) is a period too short at the transmitter, which leaves the stop
state at the first half period (`rv32_io.cpp:257`). With a parity bit the run checks it;
without one TLC finds `ImplementsWordLine` violated, words that follow each other are
garbled. The run and the firmware (eight bits) do not use it, and the theorems are about
the other settings (`WholeStops`).

Left out: `write_command` in mid-word, deactivation, `read_status`.

### UartIrq

A step is one clock of the hardware (`Clock`) with at most one access or register
step of the processor; `Tick` lets the processor be busy for as long as it likes,
so the time of every instruction and of every bus access is arbitrary.

`Clock` moves a word from the line into the receive buffer (dropped when that
was full at the start of the clock, as `do_rx` tests `full` before its own read),
a word from the transmit buffer into the shifter, computes `intr` from the
buffer's old `not_empty` and the transmitter's `rflag`, shifts `d_intr`, and sets
`mip` from what is pending *before* this clock's write to `irq_ctrl`, in the
order of `SYSCTRL::fsm`. Words are numbers, in the order of arrival, so loss and
reordering are visible. The hardware rings are sequences (that is what `IOBuf` is
shown to implement); the firmware's keep their pointers and flags, because main
loads them in one instruction and stores them in another (`Load`, then
`GetchStore`, `PutchStore` or `PutchPop`).

The trap and `mret` here are those of `Csr`, reduced to `mie`: nothing else
matters to this module.

`EdgeDetect` chooses between the two builds of SYSCTRL (`DETECT_INTR_POS_EDGE`,
defined in the repository). A load (`Workloads`) says how many words arrive and
are put, and whether the line is slow: a word takes 13020 clocks at 38400 baud
and 50 MHz, the handler a few hundred, so a slow line delivers (and drains) at
most one word between two moments at which the interrupt logic is quiet.

Left out: `num_new_lines` and `terminate_code` (they are in the programs that use
them), the buttons, `flush_UART`, the alternative handler for both ports at once.

### Csr

A step is one CSR instruction, a trap or an `mret`; `mip` may change in each. The
routines are the sequences of CSR instructions of `io.c`, `entry.S` and `main.c`,
in their order. `Exec` reads and writes as the chosen core does: `ReadArch1`
follows `ctrl_decode` and `step` (the read happens only if `rd` is not `x0`,
whatever the operation), `ReadIss` follows `do_csrrx`. `on` is history: the
sources main has switched on and not off again. `nesting` may reach 2 so that an
interrupted handler would be seen.

Left out: counters, `mepc` (one level of trap is shown to be all there is),
read-only registers, access faults.

### RV32I, Iss, Core

`Core` is one clock of ARCH1: `ctrl_decode`, the buses and the ALU are operators
over the state, `DbgNext` is `updateDebugInterface`, `IoStalled`, `IoCompleted` and
`NoIo` are `updateMemIO`, and the last part, skipped when the clock is stalled,
writes back. The bus is a delay and a word (that an access happens once is
`AxiBus`'s). Words have four bits, a byte one bit, the memory two words, SYSCTRL
sits behind the memory and answers at once, a device with a delay behind it. What a
device answers depends on the bytes asked for (`Words`): a byte load gets a byte, as
from the UART's data register (`rv_test/io.h:24`). Code addresses are instruction
numbers and code is apart from data, so programs do not rewrite themselves.

`Iss` executes an instruction at a time with the simulator's `compute`; `RV32I`
holds both that and `ALUcompute` with its shifters, which are different code for
the same function. The refinement shows `tr` as the program counter while an
instruction is under way, and hides a device's answer until the load has
written it. Three differences are stated, not hidden: the simulator's `compute`
ignores that an instruction is a multiplication (`rv32.cpp:439`), so the end of
`mul` is a step of its own (`MulEnds`, and `MulIsProduct` says what it does); an
interrupt may fall before or after an instruction that has already reached a
device; and a core that the debugger holds at a store or at a device access repeats it
(`AccessRepeated`).

The user gives the debugger's commands: one changes only while the core is held
and no button is pending. A button (`button`) and any other interrupt (`other`: timer or
UART) may come in every clock, whatever the debugger does, and that shows in what its
properties can say. The core is stopped after exactly one instruction, but another
interrupt that is pending lets the held core go on without a trap (`rv32.cpp:1376`), so
`StepsExactly` is about the clock in which it stops. While the core waits for the button's
interrupt to be cleared, another one keeps it waiting (`rv32.cpp:1412`) and the held core cannot
clear it: `WaitEnds` excepts that case by name.

### Timer

A step is one clock; the processor makes one access or register step in a clock,
never two in a row (an instruction takes at least four clocks). Halves of `mtime`
count to `Half - 1`, so that the lower one runs over several times in a run. The
handler's two loads and two stores are steps, as are a hook's stores and main's.
`Games` chooses who drives the display: the scrolling result and the score of
`main.c`, the words of `program5.c`, the counter of `test_rv32_5.c`; in the last
two a key switches the timer off and on. A digit is a label and its place. In any clock
the digits may instead show the register that the debugger has chosen: at `wfi` and
while the core is held, unless switch 6 is up (`rv32_io.h:667-671`, `rv32.cpp:1344`).
The start-up code ends in such a `wfi`; its loop back to `_start` (`entry.S`) is left out.

### Loading and ElfFile

`ElfFile` says up to which table `Parse` comes before it gives up, which sections have an
image then, and for which files the host ends in an assertion or for want of a name
(`Ends`; `MayEnd` where that hangs on what the stack held). `InstallElf` installs what it
has whether `Parse` gave up or not. `Loading` installs the sections in the simulators'
memory, word by word with the start moved behind the last installed section,
dumps them for the RTL and as the boot loader's stream, and runs the boot loader
on that stream, of which at most one word may be disturbed. Words have two digits
of base 4, the memory 14 bytes, less than a word can address, so that the end of
memory and the end of the word's range differ; the checksum is modulo the word.

Sections that share a memory word are among the files. In the simulator's memory they
are byte by byte where they belong; the boot loader writes whole words
(`boot_rv32.c:96`), so on the board a section that begins in mid-word is out of place
and overwrites the end of the one before it. `Loaded` says that much and no more
(`Overwritten`). It also leaves out a disturbed number or size of sections
(`Structural`): the loader may then take a word of the file for the trailer.

Left out: stores outside memory and unaligned ones after a disturbed address; several
errors, which can cancel out in a sum; sections of equal address; relocations, except
for whether the host ends in them.

### Programs

After the jump one of the programs runs; all share `board`, `turn`, `pc` and
`result`. `main` reads a line into the one character that its menu has for it
(`main.c:17`, `35`): what goes behind it is marked (`spilt`), and what then becomes of
main is open (`Lost`). When a game is over main announces a winner, a draw or an error
(`told`), and the properties compare that with the board. A step of a game is a turn of a player (`Mancala`, `Morris`, `Yacht`,
`HitAndBlow`), of a line editor a character, of `Speed`, `Relay` and `Echo`
a character that arrives, or one look of the program at a ring. Text is
abstracted except where a property reads it: the boards of Mancala as each player
sees them, the numbers of the calculators and of the sum. `Printf` has the recursion
of `puthex` and `putdec`; nothing is proved about these modules.

What the code does, and a player would not expect, is in the properties as an exception,
each at its place. Speed polls terminal 0 first and empties the rings after a round, so
the points need not go to the first who typed, only to a key typed in the round
(`main.c:628`, `658`). A guess with a digit twice counts its blows twice
(`main.c:1009`). `recv_choice` of Yacht consumes a newline it has not read, and the count
of newlines falls short by one for each choice that filled its buffer (`main.c:451`).
The echo of `test_rv32_3.c` waits for a terminal in mid-line; only that of
`test_rv32_4.c`, through a ring, never does. Player 2's victory in Nine Men's Morris is announced
as a draw (`main.c:746`).

Left out: prompts, `%f` and `%p`, the LEDs.

### LineBuffer, AxiBurst, FilterAxi

A pixel is its place in the stream and a filtered pixel is its window, so what
leaves the filter says where every pixel of it came from; the kernel's sum is left
out, but a write to a coefficient stops the stream like any other. `LineBuffer`
has the three buffers (simple, read-first, interleaved) and both borders. In
`AxiBurst` the order of slaves and masters within a clock does not matter: both
see what `connectChannel` has copied. `FilterAxi` is `FLT_PRG_AXI::Step` with the
registers `codeGenRegIF.h` generates. A width that shrinks in mid-line leaves the
position behind the line until the restart a clock later; nothing is read there.

The slave's counters of words are `ST_UINT4` (`axi4.h:338`) for a length of eight bits:
modulo `CountMod`, 16 in hardware, 256 in the simulation, where the type is a byte. A
burst that they cannot count loses its end, and the transfer is never over. `fsm` tells
its caller that it is done at the end of a transfer and also in every clock of
`RW_WBurstSetup` (`axi4.h:225-234`, `271`); `fsmReturns` is that value, and the model's
caller, like the library's caches, goes by the words and not by it.

The interleaved line buffer gives foreign pixels at odd widths (section 5), which are
among the pictures: `EvenWidth` is a condition in the property. `Step` is one stage: the
stages that `PIPE_COUNT` stands for are made by a directive under `USE_C2R_MODULE`
(`filterNxM.axi.hpp:135`), which is not defined, so only the queue's depth depends on it.

Left out: mutex, interrupts, bad responses.

## 3. Runs

| Run | Instance | Checks |
|---|---|---|
| `iobuf` | size 3 (the real one), 3 words | `TypeOK`, `FlagsAgree`, `ImplementsFifo` |
| `axi_two_masters` | 2 masters, 2 slaves, 2 words | `TypeOK`, `OutputsMatchState`, `OwnershipAgrees`, `ExactlyOneAccess`, `EveryOperationEnds` |
| `uart` | buffers 2, ring 3; 3 words received, 7 sent, or 2 each way on a line as fast as the clock | `TypeOK`, `RxInOrder`, `TxInOrder`, `GetchReturnsOneWay`, `PutIsSent` |
| `uart_race` | ring 3, 2 words each way on a slow line | `GetchReturns` **fails** |
| `uart_line` | buffers 2, three words, seven settings, one disturbance | `TypeOK`, `ErrorMeansFull`, `ParityCatches`, `ImplementsWordLine`, `EverythingArrives` |
| `csr` | both cores | `TypeOK`, `SectionsHold`, `TrapJustified`, `EnabledStaysOnIss` |
| `csr_arch1` | ARCH1 | `EnabledStays` **fails** |
| `core` | words of 4 bits; every operation on every pair of words; programs with accesses, calls, nested calls; 4 interrupts, of buttons or others | `TypeOK`, `StepsExactly`, `ImplementsIss`, `MulIsProduct`, `WaitEnds` |
| `core_step_over` | the same with the command step_over | `StepOverCalls` **fails** |
| `timer` | halves of 8, 20 ticks, interval 5, 8 digits, 2 turns, four programs | `TypeOK`, `DisplayShows`, `HookOnTime`, `EveryDigitLit` |
| `programs` | files with up to 3 sections, damaged or not; all programs at small sizes | `TypeOK`, `LoadedWhole`, `NobodyStuck`, `ResultIsRight`, `RulesKept` |
| `filter` | 2 masters, pictures 3 x 2, then 3 or 4 wide, 3 operations with bursts, a counter of one bit, 11 pixels, three builds | `TypeOK`, `StreamIsFiltered`, `BurstsWhole`, `EverythingEnds` |

Deadlock is checked in every run but `core`, `core_step_over` and `programs`,
where a program ends (`core` counts its interrupts, and stops when none are left and
the core waits).

Why the bounds are enough to be interesting. *IOBuf*: 3 is the real size, three
distinguishable words fill it with distinct contents, the state space is complete.
*AxiBus*: two masters and two slaves is the least instance in which arbitration,
two rounds of `arbitrate`, both outcomes of contention and independent traffic
occur, and it contains the SoC's single master; addresses include one that nobody
decodes. Nothing is cut off. *UartIrq*: every pointer wraps and full, empty and
in-between are distinct; 2 words are enough to be reordered or lost; 7 words
exceed ring, hardware buffer and shifter together (3 + 2 + 1), so putch waits on a
full ring. Words received do not exceed the ring, so the run is about edges, not
about a full ring. *UartLine*: three words make the buffer run full and two words
touch each other at every distance; the settings cover each length, each parity
and all three lengths of the stop bit. *Csr*: complete, no bound except two nested traps.
*Core*: at four bits every operation is checked on all operands; an interrupt may
fall in any clock of any program, four of them let the debugger be stopped and let go
repeatedly. *Timer*: two carries of the lower half, and calls
of the hook before, between and after them.
*Programs*: sizes at which every rule bites: pits that race a stone round the board,
lines of four characters with an editor, a mill, a passed turn, rings of two.
*FilterAxi*: pictures of the least height for a 3 x 3 window, of an odd and an even
width, a stream of almost two frames, a restart with another width. The counter of one
bit is too small for one of the bursts. The same with pictures 2 wide and 3 high, and with
a burst too long to be counted that is written, not read, was checked once and passed.

### Fairness

* `WF(Next)`: the clock never stops.
* `WF(Cpu)` (UartIrq), `WF(Handle)` (Timer): the processor executes instructions. It
  may take any number of clocks for each; a spinning loop (`while (!not_empty)`) is
  not a step. In `Timer` main may wait for a key for ever, the handler may not.
* `WF(Finishes(u))`: a word in the shifter is finished after its bits. No fairness
  is assumed of arrivals, keys or buttons.
* `SF(ReadAnswers(s))`, `SF(WriteTakes(s))` (AxiBus), `WF(Next /\ IoCompleted)` (Core):
  a device that is asked again and again in the end answers. GPIO, status and
  control registers answer at once. For a UART's data register it is what the line
  does, and the firmware reads and writes it only after looking at the status. Strong
  fairness is needed because a device is asked once per clock and the step is
  disabled between.
* `SF(Step(TRUE))` (FilterAxi): the consumer is ready again and again.

Arbitration is not assumed fair; that it is comes out of `axi_two_masters`.
`Programs` states no fairness and no liveness: its players may walk away.

## 4. What the failing runs show

* **`csr_arch1`** - `csrs` and `csrc` with `rd = x0` (that is, the assembler's
  `csrs` and `csrc`) write a register on ARCH1 as if it had been zero
  (`rv32.cpp:1020`, `1150`); `rv32.h:168` and the simulator keep the other bits.
  After `enable_timer_interrupt` the external interrupts, and with them buffered
  serial I/O, are off.
* **`uart_race`** - in full duplex a word that arrives while the handler is at
  work, after its last look at the receive buffer, raises its edge before
  `irq_ctrl = 0x7f` clears it. The level stays high, no further edge comes, and
  `getch` waits for ever with the word in the UART; `rv_test/io.h:56` describes a
  controller that would see the level. The same hang comes from receiving alone
  when more words wait than the firmware's ring holds.
* **`core_step_over`** - `DBG_step_over` is to advance "1 call or 1 instruction"
  (`rv32.h:396`). A core that is held after a step and let go by a button decides
  whether a call comes from the instruction that has ended (`rv32.cpp:1403`), and so
  stops inside the function.

Remarks without a run, from reading. `rv_test/io.h:53` documents `mtimecmp` at
`0x10001020`; `SYSCTRL::fsm` and the firmware's struct have it at `0x10001018`.
`Nine_Mens_Morris` returns 0 when player 1 loses, which main announces as a draw
(`main.c:746`; modelled, an exception in `ResultIsRight`); a game of `Hit_and_Blow_2` lost by its
turns leaves the timer on and its hook overwrites the result (`main.c:1094`). The menu
reads a line of up to 39 characters into one (`main.c:17`, `35`). Speed promises the points
to the first to type (`main.c:606`) and gives them by its polling order (`main.c:628`). At
1.5 stop bits without parity the transmitter ends the stop bit early
(`rv32_io.cpp:257`). `%f` prints a fraction without its leading zeros (`printf.c:128`).

## 5. What is proved

Every theorem holds for all values of the constants. What is assumed of them is
stated in the module that declares them, and TLC evaluates it in each run:

| Assumption | Why the code justifies it |
|---|---|
| `IOBuf`: `N` positive | `MAX_IO_BUF_SIZE` is 3 |
| `AxiBus`: `MC`, `SC` positive; `None` is no word, number or request | `None` marks what is not there; it stands for cleared flags |
| `UartIrq`: sizes positive, ports among 0 and 1, loads are counts; `None` no number | two UARTs; words are numbered |
| `Csr`: the cores are ARCH1 or the simulator | there are no others |
| `Core` (`RegsAssumption`): register numbers, the trap vector and the words devices answer, by the bytes asked for, are words, 0 is a register; `MaxIrq` is a count | x0 to x31, 32-bit addresses and a 32-bit bus |
| `RV32I` (`ArithmeticAssumption`): a sum of distinct powers of two is a word, and every word is such a sum; ARCH1's adder and shifters give what the simulator's `compute` gives; a load's cut-out is a word | these are facts of arithmetic, true of every width. Their proof is by induction on the width and needs the laws of exponentiation and of the binary digits, which the prover does not have. TLC evaluates them in the run `core`: every operation on every pair of words of four bits |
| `Timer`: halves of two values or more, the interval at most a half, `MaxTime + Half + Interval < Half * Half` | 2^64 ticks of 16 clocks are more than 100 000 years at 50 MHz |
| `AxiBurst`: `MC` and `CountMod` positive; `None` is no number | at least one master; a counter has a range; `None` marks the request that is not there |
| `FilterAxi`: bounds are counts; both sides of the window odd and above 1; widths from `FW - 1` to `MaxWidth`, heights from `FH - 1`; lengths of eight bits; a write has as many words as it says | a window has a pixel in its middle; the line memory has `MAX_WIDTH` places, and a border is mirrored within the picture |
| `FilterAxi` (`WordsAssumption`): what is written to `reset` is a flag, to `width` and `height` a size the filter was built for | nothing in `filterNxM.axi.hpp:35-38` or `Step` checks a size; a larger one would run past the line buffer |
| `UartLine`: settings as `write_command` can decode them; a payload is a row of bits | see section 2 |

A theorem `Spec => []P` comes from an inductive invariant, checked by TLC on the
runs' instances before it was proved; each step of an action is a lemma of its own.

**IOBuf** (`IOBufProofs`)

* `TypeCorrect`, `FlagsCorrect`: `Spec => []TypeOK`, `Spec => []FlagsAgree`. The
  inductive invariant is their conjunction: the flags are computed from the new
  pointers, so pointers must be in range for `nrp = nwp` to mean what it says, and
  the guards `not_empty`, `~full` only say something together with `FlagsAgree`.
* `RingImplementsFifo`: `Spec => Fifo!Spec`, for every size. The lemmas compute
  `Count` after each kind of update (`CountAfterRead` ...), then show that
  `Contents` loses its head, gains a tail, or both.

**AxiBus** (`AxiBusProofs`)

* `Invariance`: `Spec => []IInv`, `IInv == TypeOK /\ OutputsMatchState /\
  OwnershipAgrees`. The parts need each other: a store's word is a member of
  `Data` only because what a master asserts belongs to its operation, and
  the connection loop joins at most one master to a slave only because the
  ownership tables agree.
* `TypeCorrect`, `OutputsCorrect`, `OwnershipCorrect`: its parts. The heart is
  `Arbitration`: for any set of requesters and any round-robin value, of the
  masters that ask for one slave at most one is granted (`GrantUnique`), none that
  is owned is granted, and releases and grants of one clock concern different
  slaves; `ReadArbitration` and `WriteArbitration` apply it to the two channels.
* `AccessCorrect`: `Spec => ExactlyOneAccess`, the refinement of `BusTransaction`. A slave
  cannot tell an address of this access from one left over from the last; that it
  never sees such a one rests on the order in which both sides take their signals
  away. `Phases` (`PhasesInvariant`) lists the combinations of states and signals
  of a slave and its master before the slave's call, between the two calls, and after
  the master's; each call goes from one list to the next, and `connectChannel`
  back to the first.

**UartIrq** (`UartIrqProofs`)

* `RxCorrect`, `TxCorrect`: words are neither lost, repeated nor reordered between line and
  program (a word that met a full hardware buffer apart), for every ring and buffer
  size, load and number of ports. `TypeCorrect` comes with them.
* `HandlerExcluded`: why they hold. Handler and main load a ring's pointers in one
  step and store them in another. `Exclusion` says that between the two nobody else
  writes (the mask, and the value of `mstatus` main will restore); `MainKnows` and
  `HandlerKnows` say that what either has seen before it entered its section
  still holds in it, though the handler may have come between. The rings' arithmetic
  is `IOBufProofs`' argument again, with words of the handler in hand.

**Csr** (`CsrProofs`)

* `SectionsCorrect`, `TrapsCorrect` on both cores and `EnabledCorrect` on the
  simulator, with `TypeCorrect`. The invariant `Place` says for each remainder of a
  routine what `mstatus.mie` and `mpie` are there and which vector is set, `Masked`
  what holds in the handler. That ARCH1 reads zero for `x0` is in it: the
  theorems hold in spite of what `csrs` and `csrc` do there, but `EnabledCorrect` does
  not (run `csr_arch1`).

**Timer** (`TimerProofs`)

* `HookCorrect`: the hook is never early, and the next one is due an interval after
  the time read, which is torn by at most one carry between the two loads, for every
  width of the halves, divider and interval. `Timing` bounds, for each point of the
  handler, what it has read by the time then and now; that `mip` is a clock old needs
  the bound on `mtimecmp`, too.
* `DisplayCorrect`, `TypeCorrect`: what the display shows between two stores, for every
  number of digits and turns. `Displaying` says for each program where main and the
  hook are, which of the words are written, and that no handler runs any more once
  main has switched the timer off for good.

**UartLine** (`UartLineProofs`)

* `LineCorrect`: `Spec /\ []WholeStops => ImplementsWordLine`: as long as nothing disturbs the line, the
  two shifters, the wire and the buffer move words as `WordLine` does, for every
  period, length and parity, with one or two stop bits. `ErrorCorrect`: an error is raised
  only by a full buffer or a disturbance. `ParityCorrect`: with parity on, a
  disturbed word raises the error once its parity bit is in; the word itself is in the
  buffer by then. `TypeCorrect` comes with them. `WholeStops` leaves out the setting of 1.5 stop
  bits, and all four theorems have it as a hypothesis: with it the frame's bits could not be
  numbered, and without parity `LineCorrect` is false of the code (section 2).
* The invariant numbers the bits of a frame. `Lag`: the receiver is at the bit, and at the
  tick of it, where the transmitter was two clocks ago. It holds on a disturbed line
  too, since start and stop edges are never inverted (`Edges`) and a period has
  two clocks at least. From it follow `OneWord` (one word under way), `Sending` (what is on
  the wire is its frame), `Receiving` (what has been sampled are the first bits of it),
  and `OneFlip`, `Judging`, `Catching`, which follow the one inverted bit from the wire
  to the parity it spoils.

**Core** (`CoreProofs`)

* `CoreCorrect`: `SpecAlike => ImplementsIss`. Whatever the program, the registers and
  the size of memory, however long devices and the multiplier take, and in whichever
  clocks interrupts come and the debugger holds the core, ARCH1 does what the
  simulator does, instruction by instruction. The invariant says what the clocks hand
  to each other. `Fetched`: the instruction under way is the one at `tr`, and `pc` is
  behind it. `Halfway` (`HalfwayCorrect`): the word and the format that wait at T3 are
  what the simulator would read and how it would cut it now, `flg` what it would
  decide now, and a device's answer is the last access there was. Then a clock is one
  of five kinds, a lemma each: held, a trap, a fetch, the first clock of a load or
  branch (or of a `wfi` that waits), or the last of an instruction; the last are
  taken opcode by opcode. The end of `mul` stays a step of its own.
* Three hypotheses bound what is shown, each because the code needs it.
  `Instructions`: division and the upper half of a product are left out, which
  ARCH1 is built without, and the CSR instructions with `x0` that it decodes
  differently (run `csr_arch1`). `AnswersFit`: a device answers a load with just what it
  asks for, a byte with a byte at its own address and nothing above it, for ARCH1 takes the
  answer as it comes (`rv32.cpp:1078`) and the simulator cuts it out; words always do,
  and the bytes of the UART's data register, which `io.c:49` and `185` load.
  `AnswerUsed`: the debugger does not hold the core at T3 between a device's answer and
  its use. `updateMemIO` is called in held clocks too (`rv32.cpp:1175` stalls only the
  write-back), and at T3 it drops `IO_LD_completed`; only `DBG_step_cycle` can hold the core
  there. A core that is held at T2 of a store or of a device access is *not* left out: it
  repeats the access, which `ImplementsIss` says (`AccessRepeated`), and the registers come out
  the same.
* `MulCorrect`: `Spec => MulIsProduct`, without the last two.
  `Multiplying` says that what has been added up and what there is still to add
  are the product up to a multiple of the modulus; `ShiftAndAdd` is one clock of it.
* `StepsCorrect`: `Spec /\ []CallsReturn => []StepsExactly`, for every program and
  wherever buttons are pressed and interrupts come, the timer's and the UARTs' included.
  `SteppingIn` counts instructions since the core was let go by a button until the debugger stops it;
  `SteppingOut` says that outside of the calls `step_out` passes the core is at the depth
  where the button was pressed; `Slipping` says what is pending while another interrupt
  lets the held core go on. How long the core then stays held is no part of the theorem. `CallsReturn` is
  what the debugger needs of a program, for it knows the end of a call by its return
  address alone and takes address 0 for none: control comes to the address behind a call
  only when the call is over (a function that recurses through that call breaks it), and
  no call is the last word of memory. Every program of the run `core` has it. `step_in` needs
  nothing of the program: `StepInCorrect`, `Spec => []StepsInByOne`.
* `TypeCorrect`, from `Invariance`. The proofs found arms of the decoder's and
  of the bus selectors' cases that were not exclusive in the model, and a program
  counter of the model that did not wrap at the end of the address space; both
  are corrected.

**FilterAxi** (`FilterProofs`)

* Each theorem assumes `CountedOps`: masters ask for no more words than the slave can
  count, 16 in hardware. In the simulation that is every operation there is
  (`CountedInSimulation`). Beyond it the counts of master and slave part, and a transfer
  does not end.
* `BurstsAreWhole`: `Spec => BurstsWhole`, for any number of masters that wait for
  the one slave: when `fsm` says that a transfer is over, its words have been moved
  once each and in order; when it says so while a burst is set up, none has. The
  invariant (`BusInvariant`) lists, for the read
  and the write channel, the phases of a transfer as the calls of one clock go by
  (slave, masters, controller): which signals are up on which side, whose
  they are, and by how much the master's `burst_count` and the slave's differ from the words
  that were moved. A master that is not the owner moves nothing, which is why the
  order of the others does not matter.
* `FilterTypes`: `Spec => []TypeOK`. What counts in it are the positions, which index
  the line memory, when a register is written in mid-line, and the depth of the
  output queue. It is about the sizes that the filter was built for (`WordsAssumption`); with a
  larger one, which nothing refuses, positions would leave the memory. `Room`: the input
  stops two clocks after the consumer does, since
  `outPending` is `out_pending` of the clock before, so the queue, which holds one window
  while it is drained, never holds more than the three places that there are beside
  those for `PIPE_COUNT`; a window is never dropped by a full queue, which is what
  `StreamFiltered` needs of it. Those places themselves are for stages that `Step`, being one, has not.
* `StreamFiltered`: `Spec => []StreamIsFiltered`: what leaves the filter is
  the windows of the picture, in order and without a gap, however pixels
  come, the queue is drained and registers are written in between. `Counted` gives
  the positions after `t` pixels, `Kept` what the line memory and the shift register hold
  then, as the places of pixels in the picture; one lemma for each line buffer moves
  them on by a pixel. The stream is `InStep` or, after a write to a size and until
  the restart a clock later, `OutOfStep`, when only bounds are known and nothing leaves.
* `EvenWidth` is a condition in the property, on the contents of windows of the interleaved buffer only.
  It writes a pixel when the next one comes, to the bank that one does not use
  (`filterNxM.hpp:202`); with an odd width the last pixel of a line and the first of the
  next use the same bank, the pixel lands in the other, and without the condition TLC
  finds a foreign pixel in a window of a picture 3 wide. How many windows leave is
  right at every width, and the property says so.
* `given`, `taken` and the positions are related by division and remainder by the width
  only; that `arbitrate` grants somebody needs a least element (`NatMin`), which comes from the
  well-founded minimum of the library.

Only model-checked: everything of `Programs`, which reaches the recursion of `Printf`. Beyond the prover in
any case: liveness under fairness (`EveryOperationEnds`, `GetchReturnsOneWay`,
`PutIsSent`, `EverythingArrives`, `WaitEnds`, `EveryDigitLit`, `EverythingEnds`),
`ENABLED`, and what a recursive definition computes for every input.

## 6. Plan

Modelled, in this order, the most important behaviour first: `IOBuf`,
`AxiBus`, `UartIrq`, `Csr`, `Core` against `Iss`, `UartLine` against
`WordLine`, `Timer`, `Loading`, the programs, the filter on its bus. Proved: IOBuf, the
interconnect, the control registers, serial I/O, the timer, the line, the core,
the filter on its bus.

Open: theorems about `Loading` and the games, one by one, without `Printf`.
Models to come: the second port and the buttons in `UartIrq`, three masters on
the bus.

## 7. Not modelled

* `task1-6.c` does not compile; `rv_test_RTL` and `rv_test/a.out` are older copies
  and build results of the same programs.
* The printing of text: prompts, disassembly and traces (`rv32.cpp:488-628`), the
  listings of the ELF loader. `%f`, `%p`, `l`.
* Host-side harness: `RV32I_Testbench`, `X_UART`'s keyboard and streams.
* The code generators of `C2Rlib` apart from the register interface (they write
  text), and its caches, which nothing instantiates.
* Pin-level debouncing and the LEDs; the FPGA project and generated RTL.
* `mulh` and the divisions of MD, which the configuration leaves out.
