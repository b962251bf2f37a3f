# Azadi SoC: TLA+ specifications and proofs

Azadi is a RISC-V SoC in SystemVerilog: a lowRISC Ibex core, two TileLink-UL
crossbars, an instruction memory (ICCM), a data memory (DCCM), a boot ROM, a
QSPI flash controller, an SPI slave through which a host loads programs, a PLIC,
a timer interrupt controller (TIC), timers, UARTs, SPI hosts, PWMs and GPIO.  The
repository also carries the Python programs that test it at random: a generator
of instruction streams, a driver that runs them on two simulators, a comparison
of the traces, and a functional coverage model.

This directory holds TLA+ modules of two paths through the repository,

* **hardware**: what carries a program from the host's wires to the core's fetch
  port (programmer, boot logic, memories, flash, bus), and what carries an interrupt
  from a device to the core (PLIC);
* **verification**: what carries a random program from its seed to a verdict and to
  coverage figures (driver, converters, comparison, coverage run and model),

the TLC configurations that check them, and TLAPS proofs of what matters most about
them. `PROJECT.json` lists the components, the runs, the fault that each property must
notice, the source lines each definition stands for, the hazards, the findings and the
theorems. Paths are relative to the repository; `sub/` is the directory of the
peripherals, the top-level modules are in `src/`, and `verif/google_riscv-dv` holds the
verification programs.

Contents

1. Inventory of the system
2. How the modules are written
3. The modules, one by one
4. The runs, their bounds, and what they show
5. Fairness
6. What is proved, from what, and how
7. Findings and known deviations
8. What is only model-checked, and what is not modelled

To run things: `tlc -config SyncFifo.cfg MCSyncFifo`, `tlapm SocProofs.tla`.

## 1. Inventory

### How the parts interact

```
  SPI host                              serial flash
     | hk_* wires                            | qspi wires (or the host's, in a flash session)
     v                                       v
  azadi_spi_prgmr --config word-------> qspi_top / qspi_xip
     |  |   |                                | A/D channels
     |  |   +--write port--> instr_mem_top --+
     |  |                        (ICCM)      |
     |  | p_done, target_memory              +-- tlul_socket_1n (+ tlul_err_resp) <-- fetch unit
     |  v                        rom_top ----+
     | azadi_boot_mngr --boot_addr------------------------------------------> core
     |        +-- boot_reg_val --> data_mem_top (boot register over the DCCM)   |  ^
     |                                  |                                       |  | irq_external
     |            PLIC, TIC, timers, ---+-- tlul_socket_1n <-- load/store unit -+  |
     |            periph crossbar (UART, SPI, PWM, GPIO) --lines--> PLIC ----------+
     +-- iccm_wsel (= p_done) hands the ICCM's port to the programmer

  run.py: seeds -> generator -> asm -> gcc -> elf -> two simulators -> logs
                                                       |
             report <- instr_trace_compare <- traces <-+- log converters
                                                 |
             coverage report <- riscv_instr_cov_test, cover groups
```

The hardware parts talk over TileLink-UL (`a_valid/a_ready`, `d_valid/d_ready`), through
level status wires (`p_done`, `target_memory`, `boot_addr`, `boot_reg_val`,
`iccm_wsel`), by interrupts, and through memory. There are two resets: `por_ni`
(programmer and boot manager) and `rst_ni` through `azadi_rst_mngr` (the core and
all else), and either may come alone. Everything is one clock domain but the
programmer's byte register, which the host's `sck` clocks. The verification
programs talk through files of one output directory, which is never cleaned
(`--noclean` is true by default), across any number of invocations.

### Components

| Component | State | Operations | What is hard | What makes it correct |
|---|---|---|---|---|
| `fifo_sync` (`sub/mem`) | two pointers with wrap bit, storage, `under_rst` | push, pop, both, flush, reset | depth not a power of two, pass-through in the cycle of arrival, flush in the cycle of a transfer | it is a bounded queue |
| `tlul_socket_1n`, `tlul_err_resp`, `tlul_host_adapter` (`sub/tlul`) | outstanding counter, selected device, error responder's two flags, source number | accept, answer, both | requests to two devices in flight, counter wrap, accept and answer in one cycle | answers in request order, from the addressed device; nothing starves |
| `tlul_sram_adapter` | request, SRAM-request and response FIFOs | accept, access, return, answer | the three FIFOs fill at different times; `wready` of one is ignored | each access made once, each datum returned once, to its read |
| ICCM (`instr_mem_top`, `sram`) | SRAM, `rvalid` | fetch, programmer's write | the port changes hands with a read in flight | reads see the word held at acceptance; no read is lost |
| DCCM (`data_mem_top`) | SRAM, `rvalid`, boot register | load, masked store, boot register read | back-to-back load/store/boot-register reads | as above; boot word only from the boot register |
| SPI programmer (`azadi_spi_prgmr`) | csb FSM, main FSM, ICCM FSM, QSPI FSM, byte counter, shift register, write address, status bits | bytes, words, terminator, three commands | framing without a handshake, state left by one session for the next, power-on reset anywhere | the ICCM is the image; status follows the session; it ends |
| Boot manager, reset manager, ROM code | boot address, boot register value, two reset flops, the core's place in the ROM, GPIO 0 | update, reset release, poll, jump | two independent resets, stale boot address, poll then jump | the core never enters memory that is not ready; it does leave the ROM |
| QSPI controller (`qspi_top`, `qspi_xip`) | grant registers, transfer FSM, clock counter, shift register, `oe` | SPI read, XIP read, leave XIP, configure | grant pulse registered twice, counts shared with the flash, wire hand-over | each fetch gets the word of its address; wires never driven by both |
| PLIC (`sub/rv_plic`) behind `tlul_adapter_reg` | line history, pending, active, enables, priorities, threshold, registered claim id | edge/level gateway, claim, complete, configure | claim, complete and a new edge in one cycle; claim id a cycle old | no source claimed that does not ask, none delivered twice or blocked; the highest priority first; who asks is served |
| Regression driver (`run.py`, `lib.py`) | files of the output directory, seeds, report | generate, compile, simulate, compare, report | steps of several invocations over one directory; failures, timeouts, interrupts and the commands they leave running; batches and iterations; parallel commands | a verdict is about the newest program, and one that the seed file makes again; the report is complete |
| Trace converters | - | log to rows | rows cut from either end | what they drop does not change a verdict |
| Trace comparison (`instr_trace_compare.py`) | two indices, two register files, two counters | walk both traces | rows without a change, repeated writes, one trace longer | passes exactly when the register changes agree |
| Coverage run (`riscv_instr_cov_test.py`, `riscv_cov_instr.py`) | register values, last instruction, counters | open, read, skip, sample, crash, report | state shared by instructions and files; which fields a row fills; order of the two hazard checks | counts are of this program's instructions, in their own bins |
| Coverage model (`riscv_instr_cover_group.py`, `riscv_instr_pkg.py`) | - | which groups, points and bins an instruction is sampled into | bins numbered by another enumeration; two precisions of one group | each value in its own bin |
| ROM | registered output | fetch | as ICCM without programmer | as ICCM |
| Crossbar decode | none | address to device | overlapping or missing ranges | every address one device |
| Register adapter (`tlul_adapter_reg`, `tlul_err`) | outstanding, error, data | register access | one outstanding access, error answers | one answer per access |
| TIC (`sub/tic`) | shared id register, pending, active, enable | claim, complete | id register shared by both directions | the timer claimed is the timer completed |
| Timers (`sub/rv_timer`) | prescaler, 64-bit counter, compare, interrupt state | tick, compare, clear | equality against a register that software may lower | fires at compare, once armed |
| UART (`sub/uart`, `fifo_gen`, `sram_fifo`) | two buffers over single-port memory, serialisers, timeout | push, pop, clear, send, receive, timeout | read and write in one cycle, clear, full at pointer width | bytes come out in order and unharmed |
| SPI hosts, PWM, GPIO | shift registers, counters, filters | transfer, tick, masked writes | last bit, lowered period, edge detection | as configured |
| Ibex core (`lowrisc_ibex`) | pipeline | fetch, execute, trap | - | vendored |
| Instruction stream and CSR test generators, core test bench driver, flash model, pins, register files | - | - | - | sequential generation, generated code, vendored models |

The rows down to the coverage model are modelled.

## 2. How the modules are written

* **Hardware: one step is one clock edge** of the component, so an action is a
  conjunction of the next-state equations of all its `always_ff` blocks, with an action
  of its own for each asynchronous reset. Combinational wires are operators. Where the RTL
  has a state machine, each state (and way out of it) is an action, and the machines
  that step at one edge are conjoined.
* **Programs: one step is one command, one row or one branch of a loop**, whichever the
  next failure, or the next row of another trace, can come after.
* Names are those of the source: registers keep their names, FSM states too.
* Data are abstract: words are functions from byte lanes to a small `Byte`, or in the
  programmer sequences of four bytes (the terminator depends on bytes). The
  QSPI shift register is represented by what was loaded and how far it was shifted.
  A program is a record of what made it (test, generator, seed, index); a trace row is
  a sequence of register writes; bit vectors of the PLIC are sets of sources.
* `Nothing` stands for a valid bit that is low together with its don't-care payload.
* An operator `X_Fault` before `X` is a plausible mistake in the code `X` stands
  for. Nothing refers to it. `PROJECT.json` names, for each property, the fault that
  breaks it under the run's own configuration.
* No RECURSIVE operators.
* `SyncFifo`, `TlulSocket`, `Plic` and `BootFlow` share the proof module `SocProofs`, so the names
  that they would have in common carry a prefix: `FifoInit`, `SocketNext`, `plicVars`; and so do those
  of `TraceCompare`, which shares `TraceProofs` with `Regression`, and `InstrCoverage`.

### Composition

```
BoundedQueue   <--implements--  SyncFifo
InOrderBus     <--implements--  TlulSocket
MemoryPort     <--implements--  InstrMem, DataMem, QspiXip   (each EXTENDS SramAdapter)
ProgrammerStatus <--implements-- SpiProgrammer
ProgrammerStatus <--is composed into-- BootFlow
TraceRows      <--EXTENDS-- TraceCompare, Regression
CoverPoints <- CoverGroups, InstrAttributes <--EXTENDS-- InstrCoverage <--EXTENDS-- AssembledRows
```

The abstract specifications are the seams. `SramAdapter` treats its three FIFOs as
sequences because `SyncFifo` is proved to be a queue. `BootFlow` composes the boot
manager, the boot register, the reset manager and the ROM code with
`ProgrammerStatus` instead of the twenty-odd registers of the programmer, because
`SpiProgrammer` is proved to implement it. `InstrMem` may assume that the
programmer writes only while `p_done` is low, for `SpiProgrammer` is proved to
(`SessionStatus`). `Regression` takes the verdict on a pair of traces from the definition
`Passes` in `TraceRows`, because `TraceCompare`, the loop of the script, is proved to
return it.

## 3. The modules

**BoundedQueue, SyncFifo.** `FifoCycle(clr, wvalid, d, rready)` is one edge with the
inputs the parent may drive; `FifoReset` is `rst_ni`. `Advance` is the pointer increment of lines
100-106 of `fifo_sync.sv`. The storage starts with arbitrary content, as unreset flops
do; under reset only the word the write pointer shows (word 0) is cleared. `ImplementsQueue`
maps the FIFO to `BoundedQueue` by reading the storage from `rptr`.

**InOrderBus, TlulSocket.** `AcceptReq` and `AcceptRsp` are the handshakes at the host;
`Counter`, `HoldAllRequests` and `dev_select_outstanding` the three registers' logic.
`ErrResp` is `tlul_err_resp`. The source number is that of `tlul_host_adapter`. Devices
are external: they accept when they like and answer their oldest request later.
All FIFOs of the instances in `tlul_xbar_main.sv` and `tlul_xbar_periph.sv` have depth 0.
The history variables `sent` and `got` are what the host has seen.

**SramAdapter, MemoryPort.** `SramAdapter` is `tlul_sram_adapter` with `Outstanding = 2`
as an open specification: the memory extends it and passes `gnt_i`, `rvalid_i`,
`rdata_i`. `Owed` computes from the FIFOs the answers the bus is still owed; it is the
refinement mapping of all three memories: the k-th operation of `reqfifo` is a write, or
it is the `Rank`-th read, whose datum is that entry of the response FIFO, the datum now
coming back, or still to come. Error entries are left out: they are
made for malformed requests, which `tlul_host_adapter` does not send.

**InstrMem** is `instr_mem_top.sv` with `sram.sv`. `Sram` is the multiplexer (42-50) and
the single port. `Rvalid` is the register of lines 75-83, cleared when the programmer
writes. `Disciplined` says whether the core keeps its fetches away while the
programmer has the memory.

**DataMem** is `data_mem_top.sv`: the boot register is selected by the registered
comparison of the raw address bus (42-54), whether a request is valid or not.

**ProgrammerStatus, SpiProgrammer.** The host (external: `tx_spi.sv` and the test bench)
opens a session, sends it byte by byte in csb frames with `LowTimes` and `HighTimes`
clock edges, and shows partial bytes in between. `CsbFsm` is 77-118, each state and
branch of the main FSM (138-246) is an action, and `Clock` conjoins host, csb FSM, main
FSM and the ICCM's write port. `PowerOnReset` is `por_ni` at any edge. `loaded`,
`image` and `config` are history: what the ICCM took, what the host sent.
`ImplementsStatus` maps the states of the main FSM to the sessions of `ProgrammerStatus`.
`byte_reg` and csb cross from the host's clock to the system's without a synchroniser;
the model samples csb stable and `byte_reg` as the partial or whole byte.

**BootFlow.** One action per place in the ROM code (`verif/tests/post-rom/test.s`) that
reads or changes shared state; each may take any number of cycles. `LeaveReset` and
`BootSet` are the core's first two controller states; the fetch stage drops the low byte of
the boot address (`BootVector`). `SystemReset` and `PowerOnReset` are the two resets and
what each clears. `Programmer` is `ProgrammerStatus` plus what a load does to the ICCM.
Once a program runs it may drive GPIO 0, which enables updates of the boot address. The host
opens a session at any edge, whatever the core is about: nothing in the design prevents it.
`since` and `unseen` are history: how many edges ago a session opened, and whether
one opened that the boot register did not yet show when the core read it.

**QspiXip.** `Grant` is `qspi_top.sv` 75-92, one action for each state of `qspi_xip`
(`Start`, `Rest`, `Transmit`, `Toggle`, `Receive`). Clock counts are the real ones
(8 + 24 + 32 bits, or 6 nibbles, the dummy cycles and 8 nibbles). `flash` is the external
serial flash: the rising edges it has seen and whether they brought it the address, on
wires the controller was driving. It answers symbol by symbol from falling edges; a
symbol sampled at the wrong count spoils the word, which may then be anything. The
instruction fetch port is the only one wired to it (`tlul_xbar_main.sv`), so requests
are reads; the adapter's `we_o` is not connected. `dummy_cycles` is taken as 1 to 63:
with 0 the wires would be released before the last address nibble was taken.
`Reset`, `Configure` and `Release` are the system reset, the configuration written
under it and its end.

**Plic.** `Pending` and `Active` are the two registers of the gateway, `Leaf`, `Sel` and
`Tree` the priority tree of `rv_plic_target`, level by level from its leaves (those beyond the
sources are tied off), `Root` its top, `Irq` and `IrqId` the result, registered at each `Edge`. `Access` is what `tlul_adapter_reg` lets through: a
register access is accepted when none is outstanding, and the answer takes the next
cycle (`Idle`). The load/store unit takes its answers at once. `Claim` is a read and
`Complete` a write of `cc0`, `Configure` any other register write. Devices are external
and move their lines at any edge. Software is external: it claims whenever it
likes, interrupts or none, nests handlers, completes only what it has claimed, in any
order, and changes a line between level and edge only while all are masked. Source 0 is
tied low in `azadi_soc_top.sv`, which is why identifier 0 can mean that nothing asks.
`inService` is history: what software has claimed and not completed.

**TraceRows, TraceCompare.** A row is a sequence of register writes, as
`check_update_gpr` of `instr_trace_compare.py` sees it. `Updated` and `Changes` are that
function. `SameChanges` and `Passes` in `TraceRows` define the verdict on two whole traces
without a walk: the rows that change a register, counted, correspond and list the same
writes. `TraceCompare` is the nested loop: `NextRow` is the outer loop's body up to the
inner loop, `SeekRow` one turn of it, `SeekEnd`, `LoopEnd`, `RestRow` and `RestEnd` the
branches after either trace is used up.

**Regression.** `run.py` on a test list: generation in batches, compilation, simulation,
comparison, report. The phases are in `Order`; an invocation goes through those its
options ask for. State that outlives an invocation is the output directory: `asm`, `elf`,
`log`, `seed_yaml`, `report`. A program is a record of test, generator, seed and index in
its batch. `Fault` is a command that fails or is stopped (`lib.py` kills what runs too
long and takes a missing return code for a success); a stopped command leaves
some of its files, and a failed compilation the old binary, the new one or none. `Converted`
is what the converters keep of a log: Spike's the rows that write a register (`Written`) and the
final `ecall`, OVPsim's all but the last row it has seen.
`Interrupt` is Ctrl-C: the driver exits with 130, but generators and simulators were started in
sessions of their own (`start_new_session`, `lib.py:111`, `161`), do not see the signal and are stopped by nobody.
They become `children`, all of the batch in parallel mode, and write on at any
step of a later invocation: a generator its next program (`ChildGenerates`), a simulator its next row at
the place in the log where it stands (`ChildSimulates`), which spoils the log of a later simulator (`Mixed`)
unless both run the same program. Compilers are started without a session and die.
`sown`, `kept`, `built` and `ran` are history: the jobs whose program the drawn and the saved seeds
gave, the jobs compiled since their program was written, the logs made since their binary was.
Whoever writes a file takes the later ones out, a leftover command too. `clean` says of
an invocation that nothing failed and no leftover command was running when it started.

**CoverPoints, CoverGroups, InstrAttributes.** The data of the coverage model. A point
reads one field and sorts its number into bins; `CoverGroups` builds each covergroup of
`riscv_instr_cover_group.py` from its points and holds the table from instructions to
instances; `InstrAttributes` is `get_attr_list`, with the names that the enumeration has
and the attribute table lacks. They are as long as the tables they model, a line or two
per covergroup for the dozens of lines in Python.

**InstrCoverage.** One action per kind of row: malformed, skipped, without an opcode,
sampled, or one that ends the run with an exception. `Instruction` is
`assign_trace_info_to_instr` with `pre_sample`; `Has`, `Sources`, `FloatSources` and
`Parses` are which operands an instruction is said to have, where they are taken from,
and whether they convert; `check_hazard_condition` is the comparison with the
instruction sampled before. The registers (`gpr_state`) are a class attribute and survive
files. `arch` and `sampled` are history: what the program under test really did, as far as
the rows tell. A row is one of `TraceRow`: none updates x0. `RowsAsExecuted` relates
the tables to the instructions: where the operands of a row convert, the positions that
`update_src_regs` picks hold the registers the row reads.

**AssembledRows** says what a row of a log is. `convert2asm` is the notation in which the generator writes
an instruction, field by field; `process_instr` is how a converter turns an address around.
`AsWritten(e)` ties a row to the instruction it names: each operand is a spelling of the field in its
place, and what the row says the program read, wrote and accessed are the operands in the places of the
fields that the instruction set reads and writes (`ReadFields`, `WrittenFields`; external). So the
coverage run's own tables, which take the operands apart again, are compared with the tables that put
them together. `WrittenAssumption` is that the trace files hold such rows, in either order of the
operands; malformed rows, rows without an opcode and rows that are skipped may hold anything.

## 4. The runs

| Run | States | Bounds | Shows |
|---|---|---|---|
| `fifo` | 670 | depth 3, two items, pass-through, flush and reset at any edge | it is a bounded queue; pointers never cross |
| `socket` | 912 | three devices and the error responder, three source numbers, counter mod 5, host may refuse | exact counter, one device busy, in-order bus, every request accepted and answered |
| `iccm` | 268 | two addresses, one lane, any interleaving of programming and disciplined fetches | reads in order with the right word, none lost, all served |
| `dccm` | 80 028 | two addresses (one the boot register's), two lanes, all masks | loads and stores in order with merged bytes; boot word only from the register |
| `programmer` | 6 942 | images of 0, 1 and 2 words, ICCM of two words, frames of 2 and 4 edges, gaps of 2 and 4, reset at any edge | image loaded, configuration as sent, status follows the session, sessions end |
| `boot` | 1 785 | both resets and sessions at any edge | the core enters only memory that is ready, but for sessions that open too late for it to see; it leaves the ROM |
| `qspi` | 26 456 | two fetch addresses in a flash of three words, base 0 or 2, dummy cycles 1 and 10, SPI and XIP, host may refuse, reset at any edge | each fetch gets its word, grants meet their transfers, no wire contention, all served |
| `qspi_exit` | | same, with a configuration that leaves XIP | violated: the fetch that triggers it is never answered |
| `plic` | 57 536 | two sources and an unused leaf in a tree of four, two priorities and thresholds, lines, claims, handlers, register writes and reset in any order | claims are sound, sources accounted for, highest first, all served |
| `coverage` | 15 432 | two files of up to three and two rows: any instruction of the table first, then 35 and then 6 chosen ones | no stale field, operands where they are looked for, values and hazards of the program, right bins, report reached |
| `compare` | 461 179 | all pairs of traces of up to three rows over six rows (no write, one write, zero writes, double writes) | the verdict is that of the definition |
| `regression` | 212 576 | two invocations, three tests in two batches and one directed test, nine option sets, one failure, timeout or interrupt anywhere, and what an interrupt leaves running | verdicts of whole runs are about a reproducible program, others about the newest files; they say whether the simulators agree; finished reports are complete |

Why the bounds are enough:

* Depth 3 is not a power of two, so the index wraps before its bit width does; the depth
  itself is arbitrary in the proof. So is everything about the socket.
* The adapter's FIFOs have their real depth (2), and the control does not look at data.
  Two addresses tell a right word from a wrong one; two lanes make a partial store
  different from a whole one. Depth, addresses and words are arbitrary in the proofs.
* The programmer's ICCM of two words makes the two-word image fill it, so `iccm_addr`
  wraps, and the one-word image leave a word that must not be written. The images are
  chosen to hold command bytes, and bytes of the terminator which do not form it. Gaps of two
  edges are the shortest the csb FSM can see (a gap of one is excluded by
  `TimesAssumption`); four lets the ICCM FSM return to waiting between bytes.
* `BootFlow` has no bound: all its state is finite.
* In `QspiXip` counts are real. Two bases make an address and its flash address differ and
  the sum wrap; dummy counts 1 and 10 are the least and the reset value.
* `socket` counts modulo 5 with at most three requests: the counter cannot wrap as long
  as it is exact, which is what is checked.
* `plic`: sources interact in pairs only - the tree compares two children, and gateways are
  independent of each other - so two sources show ties, preemption, masking and a claim
  that races each of them. `NumSrc = 3` leaves one of the four leaves tied off.
  Priorities 0 and 1 and thresholds 0 and 1 give every relation of two priorities and a
  threshold but two distinct priorities that are both above it; the three safety
  properties also hold with `MAX_PRIO = 2` (set it in `Plic.cfg`).
* `compare`: two registers and two values give first writes of zero, repeated writes, and rows
  whose change is undone; the length is arbitrary in the proof.
* `coverage`: a row's effect depends on the row sampled before it and on register values, so
  three rows (before, at, after) and a second file for what carries over are the shortest traces
  in which each property can fail.
* `regression`: the second invocation is where stale files matter; a third meets the
  directory in a state the second could have met. Three iterations in batches of two give a
  full and a short batch. One fault suffices to break each property once its guard is
  dropped.

## 5. Fairness

* **Clock.** Weak fairness of a clock edge: nothing in the design stops the clock once
  the PLL is locked.
* **Socket.** Devices accept in the end and answer in the end: two separate weak
  fairness conditions. The host drives `d_ready` to 1 (`tlul_host_adapter.sv:84`); the
  models let it refuse, and the weak fairness requires only that it does not for ever.
  `ImplementsLiveBus` shows the memory adapters' promise (`Served`) is what the socket needs.
* **Memories.** `Delivering` is a clock edge at which the host takes an answer **and
  raises no new request if it had none**. The last conjunct matters: a read that is only
  answered because a later request pushes it out would count as stuck.
* **Programmer.** Only the clock is fair, and the host finishes a session it began (its
  frames have bounded length). A host that stops before the byte after the terminator
  keeps the core in the ROM for ever; this is the code's behaviour (`EndIccm`), listed
  as a hazard and excluded by the host's assumption.
* **Boot.** The clock is weakly fair, the core's instructions are strongly fair (resets
  keep disabling them), target memory is set in a session, and sessions end - the
  last two are what `Released` and `ImplementsStatus` say of the programmer.
  `BootCompletes` asks for its conclusion only if resets and new sessions stop.
* **PLIC.** The clock: weak fairness of `Idle`, the cycle in which an answer is taken. The core
  takes an interrupt in the end, whatever else it accesses (strong fairness of a claim
  while the line is up: the claim needs the register port, which other accesses keep
  occupying), and each handler completes what it claimed (strong, for the same reason). Both
  are what a handler does that is entered with interrupts enabled; neither is an assumption
  about devices. `Delivered` promises nothing to a source that higher ones keep outranking.
* **Verification programs.** Their properties are safety properties; no fairness is assumed. A
  comparison and a coverage run end because each step moves an index, and the runs allow it
  (`CHECK_DEADLOCK FALSE`).

## 6. What is proved

The proofs hold for every value of the constants that meets the named assumptions. In a module that
proves several components, the assumptions of each speak of its own constants only.

| Theorem | Says |
|---|---|
| `SocProofs!FifoTypeCorrect`, `FifoIsQueue` | pointers typed and in order; the FIFO implements `BoundedQueue`, for every depth, with and without pass-through |
| `SocProofs!SocketTypeCorrect`, `CounterIsExact`, `OnlyOneDeviceBusy`, `SocketIsInOrderBus` | the socket's registers are typed, its counter never wraps, all requests are at the selected device, and it implements `InOrderBus`, for every number of devices and source numbers |
| `SocProofs!PlicTypeCorrect`, `ClaimsAreSound`, `GatewaysAccounted`, `HighestIsPresented` | the PLIC's registers are typed, what is claimed asks and is not in service, a gateway is active exactly while its source is pending or in service, and the tree presents the highest priority, for every number of sources and priorities |
| `InstrMemProofs!TypeCorrect`, `ReadsTracked`, `IsMemoryPort` | while fetches and programming keep apart, no FIFO of the adapter overflows, no read is lost or answered twice, and the ICCM implements `MemoryPort`, for every depth of the FIFOs, every set of addresses and words |
| `DataMemProofs!TypeCorrect`, `ReadsTracked`, `IsMemoryPort` | the same for the DCCM, without any condition, with stores and the boot register |
| `SpiProgrammerProofs!TypeCorrect`, `StatusFollowsSession`, `ImplementsStatusSpec` | registers typed (the address stays in the ICCM), flash pins, `p_done` and the ICCM's write enable follow the session, and the programmer implements `ProgrammerStatus`, for all images, byte sets, frame timings and memory sizes, careful host or not |
| `SpiProgrammerProofs!LoadsImage`, `SendsConfig` | with a careful host (below) the ICCM holds exactly the image sent and the QSPI controller is given only configurations that were sent, for all images, configurations, memory sizes and frame timings |
| `SocProofs!TypeCorrect`, `CoreEntersReadyMemory` | boot state typed for any host; whenever sessions are opened, the core never leaves the ROM during one and never enters a partly loaded ICCM, but for the windows below |
| `QspiXipProofs!FlashTypeCorrect`, `GrantsAreMet` | the flash port's registers are typed and no counter or FIFO overflows; each grant meets the transfer of its request and each answer its fetch, for every flash, number of dummy cycles and depth of the FIFOs, leaving XIP and resets included |
| `QspiXipProofs!WiresUncontended`, `FlashIsMemoryPort` | unless a configuration leaves XIP, no wire is driven from both ends, and the flash implements `MemoryPort` until the next reset |
| `TraceProofs!CompareTypeCorrect`, `VerdictCorrect` | for all traces of any length, registers and values, the comparison passes exactly the pairs whose register changes agree as far as trace 2 goes |
| `TraceProofs!ReportsComplete`, `VerdictsReproduce` | for every testlist, batch size, option set and sequence of invocations: a run that compared and ended well has reported every iteration once and in order, with a summary that counts them; the verdict of a whole clean run is about the program that the seed file makes again, and any other about the newest binary, program and seeds, whatever leftover commands write |
| `TraceProofs!TypeCorrect`, `VerdictsOfExecutions` | if programs end (below), files hold programs of their own jobs, and on complete logs of one program equal executions pass and executions that change the registers differently fail |
| `CoverageProofs!CovTypeCorrect`, `RegistersKnown` | for all trace files the coverage run's state is typed, and `gpr_state` holds the value of every register that the file tells |
| `CoverageProofs!TablesAgree`, `AssembledAccepted` | for every instruction of the attribute table, all registers and either order of the operands: what `update_src_regs` takes from a row are the registers, base and offset the instruction has, or the row does not convert; and in the assembler's order the only rows that do not are `dret`, accesses of floating point and names without attributes |
| `CoverageProofs!OperandsAreThePrograms`, `HazardsAreThePrograms` | for all trace files the sources, values and addresses sampled are the program's, and so are the hazards, as far as `HazardsRecorded` goes |
| `CoverageProofs!PointsAreFed`, `HazardsCountedAsThemselves` | for all trace files every point of every covergroup that is sampled reads a field filled by this row, and hazards and precisions land in bins of their own name, but for the gaps that `NeverFilled` and `Renumbered` name |

**FIFO.** `IInv` is `TypeOK /\ PointersInOrder`. The refinement needs the facts that
`Contents` of an advanced `rptr` is the tail, and of an advanced `wptr` the sequence with
the item appended: one lemma each, by cases on the wrap bits and on `idx = Depth - 1`.

**Socket.** `OneDeviceBusy` is not inductive alone. `IInv` adds that the source numbers in
flight are consecutive modulo `MaxReqs` and end just before `source_q` (`SourcesInTurn`,
which gives `Fresh`), and that the error responder never has both a request
and an answer pending (`ErrOnce`). The counter is exact because at most `MaxReqs`
requests are in flight and `MaxReqs < CountMod` (`CountAssumption`).

**Memories.** The invariant is a counting argument, `Tracked`: the SRAM-request FIFO holds one
entry exactly if the SRAM is returning a datum, and that entry and the response FIFO
together hold as many as `reqfifo` has reads. From it the ignored `rspfifo_wready` is never
low when a datum comes (`DataFindRoom`), and the SRAM-request FIFO, whose readiness `req_o`
ignores, is never the fuller one, so that no access is made for a refused request. The
ICCM adds `HandsOff`: a programmer's write finds no fetch raised or in flight, which is
what `Disciplined` makes true step by step. The refinement is about `Owed`: `SramAdapterProofs`
shows, for any `reqfifo`, that accepting a request appends one answer (`AnswersAppend`) and
taking one removes the first (`AnswersRest`), and that a datum moving from the wire to the
response FIFO changes none (`CycleOfAnswers`). All rest on `Rank`, the number of reads up to a
place: how it grows, that equal prefixes have equal ranks, and what it becomes when the first
operation leaves (by a bijection of index sets). The two memories share all of it and differ in
one lemma each, on what the SRAM holds after a cycle.

**Programmer.** `SessionStatus` is inductive once we know that a terminator cannot be
complete when a session begins; otherwise the FSM could leave a flash session before
it ever set `target_memory`. `IInv = TypeOK /\ Framing /\ SessionInv`. `Framing` says what the csb
FSM and the host's frame timing owe each other: `main_state_init` lasts one cycle, with csb
high throughout, csb stays high until the FSM has seen it twice, and a low csb still has
its byte to send. It rests on `HighTimes` excluding 0 and 1. `SessionInv` says
no terminator is left over in `MIDLE` or `COMMAND` (each way out of a session clears
`word_reg`), and that until `target_memory` is set at most one byte has been shifted in,
so the first three bytes of the word are still zero and no terminator is complete.

**What is loaded.** `LoadsImage` and `SendsConfig` assume `CarefulHost`: no second load without a
power-on reset, images that fit and hold the terminator at their end only (`Loadable`), and frames
and gaps that together last at least four clock edges (`FramesApart`). TLC shows each part to
be needed, and that four is the exact bound: with three a byte completes while `UPDATE_ADDR` follows
the one before, and is lost. The strengthening, `LoadInv`, says for each state of the main FSM what
the host has sent (`Sent`), which of it is on its way through the csb FSM, and what `word_reg`, `byte_cnt` and
the memory hold: in a load or flash session `word_reg` is a window of four bytes on the `Stream` of
zeros, image and terminator, and the words written are those the window has passed. The window shows the
terminator only at the end of the stream, which is what `Loadable` is for. A
power-on reset re-establishes `LoadInv` whatever was going on.

**PLIC.** `PlicTypeOK`, `ActiveAccounted` and `ClaimSound` are inductive together: the identifier is a
cycle old, so the invariant speaks of what one edge can have changed since, and the register port is
busy in the cycle after a claim, so a stale identifier is not claimed again. `HighestFirst` and the type
of the identifier need what `Tree` computes at its root for any number of levels: the asking source
that outranks the others. That is an induction over levels. The library's induction rules take an
operator as a parameter, which the provers cannot instantiate, so the lemma is proved with the least
element of the set of levels at which it fails (`WFMin`); so is the existence of the function `Tree`.

**Flash port.** `XipInv` says which of four stages a grant is in (`Quiet`, `Queued`, `Granting`,
`Granted`) in each state of the transfer (`Handshake`), and bounds the counts (`Counting`, `Sampling`). The
grant follows the start of a transfer by two cycles, so its pulse falls into the first
clock of it. `FlashTypeCorrect` and `GrantsAreMet` hold whatever is configured. The other
two need `Timed`, which ties clock count, shifts, the edges the flash has seen and `oe` together at
every step, and assume `~EndsXip`: the transfer that leaves XIP mode returns to IDLE with the flash still selected, so
`NoContention` fails after it, and it is never answered (section 7). All four rest on `FetchesOnly`: the
crossbar connects the flash to the fetch port alone. The refinement uses the lemmas of
`SramAdapterProofs` about `Owed`; the word in flight is the one at the address in the shift
register (`FlightWord`).

**Boot flow.** `IInv = TypeOK /\ SessionShown /\ OutOfReset /\ HeldInRom /\ NothingNamesIccm`:
status and session agree; the core is off at least until the synchroniser releases it. `HeldInRom`
follows a session on its way to the core: one edge after it opened the boot address and the register behind
the boot word name the ROM, two edges after it the register that the core reads does, and a value
read since then is the ROM's. `NothingNamesIccm` is the same for an ICCM that holds no whole program.
Nothing is assumed of the host. The programmer does raise `reset_req_o` to keep the core away from
a session, but the SoC ties the reset manager's `rst_req_i` to 0 (`azadi_soc_top.sv:395`), and the
repository's benches open sessions after the reset is released. So `EntersReadyMemory` says exactly which
sessions find the core on its way: one that opens at the edge before the fetch from the boot address
(`at = "set"`, `since = 0`), and one that opens less than two edges before the core reads the boot register,
or between that read and the jump (`unseen`). TLC finds each exception needed: without it the property
fails. A host that leaves the ROM time to poll, or opens its session under reset, falls
into none of them.

**Comparison.** The definition (`Passes`) numbers the register-changing rows of each trace by
`Rank` and asks that rows of equal rank list the same writes; the script never sees a rank. `IInv =
TypeOK /\ RegistersTracked /\ Paired /\ NotAtLastChange /\ Counted /\ VerdictExact`: the two
register files are those the rows at the indices find (`RegistersTracked`); both indices have
passed equally many changes, but for the one the outer loop holds while the inner one
seeks (`Paired`); the loops go on only while trace 2 may have a change
left to pair (`NotAtLastChange`); and the mismatch count is zero exactly if the traces agree up to
the indices (`Counted`, over `AgreeUpTo`). One lemma per kind of step says how `AgreeUpTo` grows.
It assumes `ValuesAssumption` (0 is a value: registers start at zero) and `TracesAssumption`
(traces are finite sequences of rows).

**Regression.** Several invariants, each a conjunct of the next one's hypotheses. `PhaseInv` types the step and the
commands left: what is still to be compiled are jobs of the testlist, and no step is entered whose
option is not given. It rests on `Succession`, which step `Proceed` can lead to from which, and that on the minimum
of a set of naturals. `ReportInv` says that while jobs are compared the report holds the verdicts on the first of them, in
order, and `todo` the rest; so the last line is the only summary, and what it counts is what stands above it.
`FilesInv` and `ChildrenInv` are about whatever lies in the directory: a file that is newer than its source was made of
it, whoever wrote it. Leftover generators keep the seeds they were started with, so a program that one writes counts
as the saved seeds' only if these are the same.
`WholeInv` is about a clean run: nobody else writes, and by the step it has reached every promised job of its list has
its program from the seeds drawn (`GenDone`), its binary from that program (`GccDone`) and its
logs of that binary (`SimDone`), or has its command still to come. It rests on the lists of commands: that
those of each step together make every job of the test list, so that no stale file is used because a job was skipped.
That a batch makes the programs of its own
jobs, with its own seed, and no others, is division with remainder: `BatchOfJob` shows that a job of a
generated batch finds the number of the batch by `\div`, the last and shorter batch included
(`LastBatch`). `ValuesInv` adds what the files hold and what leftover commands are going to write. What the summary, the lists of commands and the
converters concatenate is `FlattenSeq` of the community modules, whose defining equation is
established first (`ConcatExists`).

`VerdictsOfExecutions` joins the two halves. Two traces are `Alike` if they have the same changes one by one and leave
the same registers; a row that writes nothing may be appended to either (`AlikeAppendEmpty`) and the
same row to both (`AlikeAppend`), so what a converter leaves of a complete log is `Alike` the execution
(`ConvertedAlike`), and `Passes` does not tell traces that are `Alike` from each other (`AlikeTransfers`).

**Coverage run.** `CovInv` adds to the types that `gpr_state` agrees with `arch` wherever the file
tells a register (`Coherent`; a row that is skipped makes its registers unknown, and a new file all but x0),
and that x0 reads as zero. `HazardInv` adds `Remembered`: `pre_instr` has the register numbers of the
row it was made from, which are `RegsOf` that row, and its address where it is known. `CoverInv`
adds `CoveredKept`: the covergroups sampled last are those of a row as the program wrote it, whose
fields are `Fed`; opening a file forgets the row but neither the instruction nor its groups.

The rest is about tables, and there are three layers of it. *The attribute table*: `RowFits`, `RowWritten`
and `RowCategories` are all of it that is needed, proved row by row. *The operands*: an operand converts
as a field only if it is of the field's kind (`Spelled`: the integer registers, the floating-point
registers, immediates and CSRs have no spelling in common), so a row parsed in the wrong order
ends the run rather than being miscounted (`Misplaced`); where the kinds agree the position is that of
the field, format by format (`WholeShown`, `CompressedShown`, `FloatShown`, `SignMoveShown`, `FswShown`, joined
in `RowShown`). That a field has one source (`OneSource`), that the operands an instruction is said to have are
those that are filled, wherever hazards are exact (`HasOfFused`, `HasOfWholeInteger`), and that numbers tell
registers of one file apart (`NumbersDiffer`) give the hazards. *The covergroups*: `PointFits` says of each
row of the attribute table which fields the points of its covergroup read, by format and category
(`PointFields`), and how hazards and precisions are binned; one step per group of rows with the same
attributes goes through all covergroups (`PointsTable`). `IntegerFilled` and `FloatFilled` then match the
fields that points read with the fields that rows fill. Floating-point loads are the one format of which
no row is ever sampled: their base register stands where `update_src_regs` looks for `fs1`, in both
orders (`FloatLoadUnparsed`), so that their covergroups cannot count a stale field.

`HazardsAreThePrograms` was first attempted for rows without an update, for which it is false
(section 7): `RegisterHazardCounted` now asks for one, and the run has such a row. It and
`OperandsAreThePrograms` once had `RowsAsExecuted` for a hypothesis; `TablesAgree` has
replaced it by what the generator's own notation says of the rows, `WrittenAssumption`.

Assumed of the constants: tests have at least one iteration and a generator, which is what
`process_regression_list` lets through; option sets name tests of the list (`TestsAssumption`, `OptionsAssumption`).
`TypeCorrect` and `VerdictsOfExecutions` also assume `Ends`: every program the generators can make ends with
an ecall on every simulator, and its execution is a trace. That is a hypothesis of the two theorems and not an
`ASSUME`, because it speaks of infinitely many programs; the definition that the run gives to
`Execution` meets it.

A proof attempt changed the model: a failed compilation once left the job counted as compiled, and the
invariant was not inductive. With one more invocation than the run allows, a job compiled once, then
compiled again in vain, then simulated with the binary of an earlier generation would have been judged by a
seed file that has another program's seed. `GccStopped` now takes the job out of `built`.

## 7. Findings and known deviations

One place where the code and what the repository says of it differ is shown by a `violation`
run and quoted in `PROJECT.json`: **`qspi_exit`**, the fetch that makes the controller leave
XIP is granted and never answered.

The models reproduce the following as well, and the properties are stated around them.

Hardware:

* `azadi_spi_prgmr.sv:185`: `byte_cnt` stays full after a load, so a second load without a power-on
  reset writes a zero word first and the image lands one word up (set `Reprogram = TRUE` in
  `SpiProgrammer.cfg`: `ImageLoaded` fails; `verif/tests/link.ld:6` places the program at the start).
* `azadi_spi_prgmr.sv:187`: the terminator is found at any byte offset, so an image that holds it
  across a word boundary ends early. The images of the run hold none.
* `instr_mem_top.sv:78`: a programmer's write clears the valid bit of a fetch in flight, which is then
  never answered (`Disciplined = FALSE` in `InstrMem.cfg`). Only the ROM code's discipline
  prevents it.
* The boot address of the flash is `0x8000_0008`, not aligned to 256 bytes as
  `ibex_if_stage.sv:614-615` asserts; the core drops the low byte.
* `azadi_soc_top.sv:240` says "por_ni = 0: ROM; else boot_sel = 1: QSPI, 0: ICCM", but the
  address stays at the ROM after a load until GPIO 0 is set; `azadi_soc_top.sv:27` says `hk_sdo_o` goes
  high when a program has been loaded, but outside a flash session it is tied to 0 (253-268).
* `rv_plic_gateway.sv:50-53` says that if `set` and `complete_i` happen at the same time "always `set`
  wins"; in line 58 completion wins, so an edge in the cycle of the completion, or any
  time while its source is in service, raises no interrupt. `ActiveAccounted` and
  `Delivered` are about what is pending, not about edges seen. A level is seen again.
* `verif/tests/uart-interrupt` and `verif/tests/timer-tic` complete before they clear the device, so the
  interrupt that was served is raised once more.
* `tic.sv:68`: a second timer that fires between the claim and the completion of a first one
  replaces its identifier; the completion is then of the second, and the first stays active
  and is never raised again.

Verification programs:

* `instr_trace_compare.py`: two empty traces pass; if trace 2 ends early on a row that changes a
  register the rest of trace 1 is not looked at (line 119), while it is if trace 2 has rows left. `Passes`
  states just this.
* `run.py`: outputs of earlier runs are never cleaned by default; timeouts and deaths by
  signal are no errors (`lib.py:126`), nor is any failure in parallel mode; the seed file is written after all
  sequential batches (415) but before parallel ones start; `--start_seed` adds `i*batch_cnt` (342), not
  `i`; in the Python generator the first test's name replaces later ones' (350) and only the first
  program of a batch gets its seed; the comparison ignores `no_iss` (830) and its `rm` deletes the
  verdicts of directed tests (828); the summary counts an earlier summary as a pass and
  as a failure (878); the driver exits with success whatever the verdicts; Ctrl-C leaves
  generators and simulators running, and the next invocation neither waits for them nor notices them. If
  one still runs, `VerdictsReproducible` promises its verdicts less (`clean`): a verdict may then be about a
  program of other seeds than the file's, without an error. An invocation that
  is asked for single steps only gets the same lesser promise.
* Coverage: the floating-point half of `check_hazard_condition` overwrites the integer half, so
  two integer instructions always count as RAW; registers carry over from one file to the next;
  skipped rows (li, la, ret, everything with amo, lr or sc in its name, thus jalr) do not update
  registers; one word "illegal" excuses all later opcodes; BLT and BGE compare as unsigned; integer
  loads and stores are parsed as rd, imm, rs1 and the converters write rd, rs1, imm, which ends the run;
  so do FLW, FLD, FSD, DRET and every name without attributes. `fs1` and `fs2` of the
  three-operand format, the signs of FCLASS's and FCVT's integer operands, FSW's immediate
  sign and ADDIW's similarity are never filled; FP accesses have no address.
  `store_lsu_hazard_e` and `jalr_riscv_reg_t` number their members anew; eight compressed groups
  sort register hazards into the store bins; `lwu` and `ld` read the register hazard as
  the memory hazard; the `fsw` instance is replaced by `fsd`'s.
  A row without an update, which is what an instruction that writes x0 leaves, has no destination, so
  register 0 is taken for it: a floating-point move to x0 counts as a RAW hazard with a next
  instruction that reads x0 or leaves a source field empty.
  `NeverFilled`, `Renumbered` and the premises of the properties name each of these.

## 8. Only model-checked, and not modelled

Only model-checked:

* liveness (`ImplementsLiveBus`, `Served`, `Released`, `BootCompletes`, `Delivered`),
  which the proof system cannot reach: what they say of safety is proved
  (`ImplementsBus`, `ImplementsMemory`, `ImplementsStatus`).

Not modelled, with the reason (`PROJECT.json` names each component):

* **TIC, UART**: the code promises too little. With two timers the identifier register loses one (section 7),
  so the properties of an interrupt controller hold for one timer only, where
  nothing is left to interleave; the UART's buffer has 64 bytes under eight-bit pointers and a
  single-port memory addressed with the OR of both, so it is no queue.
* **Timers, PWM, SPI hosts, GPIO**: counters and shift registers that are a function of their own
  registers; no second actor.
* **ROM, crossbar decode**: the reads of the ROM are those of the ICCM without a programmer; the decode is
  combinational and `TlulSocket` takes its result as an input.
* **Core**: Ibex and the FPU are vendored. The parts the models need, the host adapter's request
  discipline and the first two states of the controller, are in the modules that use them.
* **Generators, core test bench driver**: sequential text generation under a constraint solver,
  taken by `Regression` as one value; the driver repeats the steps of `run.py`.
* **Register files, pads, test benches, flash model**: generated, combinational or models themselves.

Of the modelled components: error answers of the SRAM and register adapters, `msip0` of the PLIC (not
connected), metastability of `byte_reg` and csb, a QSPI configuration written in mid-transfer, the
flash's internals, clock gating while the PLL is unlocked; of `run.py`, the style check, the options
`--co` and `--so`, the debug mode that only prints commands, directed tests named on the command
line, and a log cut in the middle of a row, and what leftover commands overwrite besides programs and logs: the
generator's own binary and the files of directed tests (programs are written whole, and short shell
commands are done at once); the text of the rows and the converters of Sail and
Whisper.
