# Spartan Mini NES: specifications

TLA+ specifications of the Spartan Mini NES, an NES in Verilog for a Spartan-6
board, and of NesDbg, the Windows program that debugs it over a serial line.
Paths below are relative to the repository's root.

Every hardware module works on one clock (`CLK_100MHZ`), so a step of a hardware
specification is one clock edge, `q_x' = d_x`, with the combinational `d_x` as
an operator. What is concurrent is what the design leaves to chance: when bytes
arrive, at which clock the program breaks, what the program does next, how the
phases of two baud clocks lie. NesDbg has one thread; what interleaves there is
what its message loops let in while a box, a dialog or a script is under way,
and what happens meanwhile to the adapter, the process and the machine.

## 1. Inventory

| Component | State | Operations | Talks to | What is hard |
|---|---|---|---|---|
| FIFO (`cmn/fifo/fifo.v`) | words, two pointers, `q_empty`, `q_full` | read, write, both, reset | UART | flags are computed from this cycle's requests, not from the contents |
| UART (`cmn/uart/*.v`) | baud counter, transmitter and receiver machines, two FIFOs | send, receive | interpreter, PC | two baud clocks of unknown phase; a FIFO output that lags a pop; a full flag nobody reads |
| Host command interpreter (`hci/hci.v`) | 22-state machine, counts, address, error code, cartridge configuration | 13 opcodes, one byte at a time | UART, buses, CPU registers | bytes arriving at any clock; room for answers; where one packet ends |
| Debug access (`nes_top.v`, `wram.v`, `vram.v`, `cart.v`, register port of `cpu.v`) | block RAMs with a registered address | read, write | interpreter | an answer is a clock behind its address |
| NesDbg packets (`sw/src/dbgpacket.cpp`) | bytes of a packet | 13 packets, text to packet | everything in NesDbg | counts of both ends must agree; casts |
| NesDbg serial port (`serialcomm.cpp`) | handle, bytes under way | `Init`, `SendData`, `ReceiveData` | interpreter | failed calls and short reads that nobody looks at; what a dead process has left in the machine |
| NesDbg scripts (`scriptmgr.cpp`, `scriptmgrdlg.cpp`) | Lua stack, files, tally | 13 Lua functions, run of a selection | serial port | boxes in the middle of a script; polling without end; verdicts taken from a stack |
| NesDbg program (`main.cpp`, `nesdbg.cpp`) | windows, open files | start, menu, `LoadRom`, raw debug dialog, end | all of these | message loops inside message loops; every step can fail |
| CPU (`cpu/cpu.v`) | 6502 registers, clock phase, ready, interrupts | instructions, HLT | bus, interpreter | stands still and goes on in mid-cycle |
| Sprite DMA and bus (`cpu/sprdma.v`, `cpu/rp2a03.v`, `nes_top.v`) | DMA machine, bus multiplexers | copy of a page on a write of 0x4014 | CPU, interpreter, PPU | three masters, of which one does not know the others |
| PPU register interface (`ppu/ppu_ri.v`) | scroll latches, read buffer, byte toggle, blank flag | 0x2000 to 0x2007 | bus, counters, memories | one access per CPU cycle of 56 clocks; latches and a buffer that lag |
| PPU sprites (`ppu/ppu_spr.v`) | sprite memory, temporary and buffer memory, 8 shift registers, count, overflow | evaluate, fetch, output | register interface, VGA | each memory is filled for the next line while read for this one |
| PPU background, multiplexer (`ppu/ppu_bg.v`, `ppu.v`) | counters, shift registers, palette | one pixel per dot | register interface, VGA | fetch schedule |
| VGA timing (`ppu/ppu_vga.v`, `cmn/vga_sync/vga_sync.v`) | line and pixel counters | frame, vertical blank | PPU, CPU's NMI | boundaries of the counters |
| APU (`cpu/apu/*.v`) | dividers, sequencers, length counters | 0x4000 to 0x4017 | CPU | counters that stop, reload and silence |
| Joypad port (`hw/ise/joypad_buttons.v`, `debounce.v`) | snapshot, strobe, shift register | 0x4016 | CPU | once per access, buttons change at any time |
| Game menu (`text_menu_gen.v`, `text_screen_gen.v`) | cursor, screen | bytes and buttons | Propeller, VGA | cursor at the borders |
| Cartridge loader (`propeller_src`) | | | menu, interpreter | firmware of another chip, with third-party SD drivers |

What makes each of them correct:

* **FIFO**: first in, first out, no entry lost, no entry invented, flags that can
  be trusted where it matters.
* **UART**: every byte sent arrives once, unchanged and in order, and no parity
  error is reported for it.
* **Interpreter**: each packet is read to its last byte and no further, its
  answer arrives complete and is the value that was written before, no byte is
  dropped, a halted machine stays halted until told to run.
* **NesDbg**: a program that has verified its connection is in step with the
  machine, whatever its predecessor did; a ROM that is loaded is there to the last
  byte; an answer belongs to its packet, a verdict to its script; files are closed;
  the program comes back to its user and ends when told to.
* **Bus**: an access of the program is made once; a DMA copies the whole page, in
  order; what the debugger does leaves everything else as it is.
* **Register interface**: the five scroll fields, their latches and counters, the
  buffer and the toggle amount to a scroll position, an address and a memory.
* **Sprites**: a dot shows the first object of OAM that has a pixel there, among the
  first eight of its line.

`PROJECT.json` lists the hazards of this code with the properties that answer them. Six have
no property of a run: more than one stop bit, the dialog's missing script manager, a break
in the middle of a PPU access, one in the middle of a DMA, adjacent PPU accesses, and the
NMI of a frozen CPU. The code goes wrong in the first five, and section 5 says how TLC shows
it (2 to 4; 12 is part of `nesdbg`); the last is not modelled (section 6, 2). Of a
seventh, the verdict on top of the Lua stack, `VerdictDeserved` covers all but the scripts
that return nothing (section 5, 11).

## 2. Modules

    QueueOps ─┬─ FlagQueue ◁── Fifo ◁┄ FifoProofs          ◁  implements
              ├─ Uart ┄ UartProofs                         ┄  proves about
              └─ Hci ─┬─ DebugLink ──▷ HciProtocol ─ SerialComm ─ ScriptMgr ─ NesDbg
                      └─ NesBus ── PpuRi ── PpuRegs ▷ PpuPort             ┊
                           ┊                  ┊                      NesDbgProofs
                       BusProofs          PpuProofs                  LinkProofs
    PpuSpr ┄ SprProofs                                              PacketProofs

The debug link is described twice. `DebugLink` has a host, the line, `Hci` and the
memories clock by clock, and is shown to implement `HciProtocol`, in which the
interpreter takes a byte and has done at once what the byte asks for. NesDbg is
composed with that: the interleavings of its message loops with failures could not
be explored together with a hundred clocks per byte.

| Module | Models | State and actions |
|---|---|---|
| `QueueOps` | a FIFO of `fifo.v` as a sequence with two flags | `EmptyQueue`, `QueueCycle`: one clock with its two requests |
| `FlagQueue` | the same as a specification of its own: what `fifo.v` promises | `Cycle`, `Clear` |
| `Fifo` | `fifo.v` | pointers, words, flags under their names without `q_`; `d_empty`, `d_full`, the protected enables; `Clock` is a clock edge with any requests, `Reset` |
| `Uart` | `uart.v`, `uart_tx.v`, `uart_rx.v`, `uart_baud_clk.v` | a byte as a function from its bits; transmit FIFO, transmitter, wire, receiver; `TxIdle` ... `TxStop`, `RxIdle` ... `RxStop` per state; the receiver's baud clock has any offset from the transmitter's |
| `HciOpcodes` | the opcodes of `hci.v` | |
| `Hci` | `hci.v` with both FIFOs | record `h` of the registers, one action per state of the case statement; `Edge` is the clock edge with every input as a parameter |
| `DbgPacket` | `dbgpacket.cpp`, `dbgpacket.h` | every packet byte by byte, with its casts to USHORT; size and expected answer; `CreateObjFromString` |
| `PacketMeaning` | what a packet asks of the machine, as a reference: no part of the code | `AfterPacket`, `Answer` |
| `DebugLink` | the packets on the serial line, `LuaWaitForHlt`, `Hci`, the memories and the CPU's register port | `HostSend`, `HostWait`, `HostPoll`, `Clock`; the UARTs as bytes that take `ByteTicks` ticks; refinement `Protocol` |
| `HciProtocol` | `hci.v` as its host sees it | `nes` (packet under way, memories, registers) and `out` (answers under way); `Take(b)`, `Break` |
| `SerialComm` | `serialcomm.cpp` at the host's end of `HciProtocol` | `OpenPort`, `SetTimeouts`, `SendEcho`, `VerifyEcho`, `InitFails`; `SendData`, `ReceiveData`; `Unplug`, `Replug`, `ResetButton` |
| `ScriptMgr` | `scriptmgr.cpp`, `scriptmgrdlg.cpp` | `stack` of calls under way, innermost first; one action per Lua function or per part of it between two calls of Windows; `TestScriptDlgRun`, `NextScript`, `LastScript` |
| `NesDbg` | `main.cpp`, `nesdbg.cpp` | `WinMain` to `Exits`, one action per menu item, per stage of `LoadRom` and of the raw debug dialog; `Dies`, `Fault` |
| `PpuRi` | `ppu_ri.v`, the scroll counters of `ppu_bg.v` that it drives, palette and sprite memory | record `ri` of the registers; one operator per register of the two case statements; `PpuClock` |
| `PpuPort` | what 0x2000 to 0x2007 promise: position and address as numbers, immediate answers | one action per access; `Ignored` for what the chip does not look at |
| `PpuRegs` | `PpuRi` under a program of CPU cycles | `Clock`; refinement `Port` |
| `PpuSpr` | `ppu_spr.v` under the counters of `ppu_vga.v` and `vga_sync.v` | memories and registers under their names without `q_`; `Dot` is what happens from one dot to the next: `Evaluate`, `Overflow`, `Fetch`, `Shift`; `Program` |
| `NesBus` | `sprdma.v`, bus multiplexers of `nes_top.v` and `rp2a03.v`, ready, phase and HLT of `cpu.v`, with `Hci` and `PpuRi` | `DmaReady`, `DmaRead`, `DmaWrite`, `DmaCooldown`, `Cpu`, `HostBytes`, `Clock` |

The modules `MC...` hold constant values and the bounds of the runs. Operators that
are used nowhere (`IncNoWrap`, `DmaReadsTooSoon`, ...) stand next to the definition
they alter: they are plausible mistakes, and putting one in the place of the
definition makes the property named in `PROJECT.json` fail.

### Abstractions

* Bytes are members of a small set in the hardware runs, where numbers of several
  bytes are written in base `Base` (16; the thirteen opcodes must fit). In the runs
  of NesDbg the base is 256 and bytes, addresses and opcodes are those of the code.
* `DebugLink` replaces the two UARTs by what the run of `Uart` shows of them: a byte
  arrives once, unchanged, a whole number of baud ticks after it left. Its bytes
  come no closer than `ByteTicks` ticks: NesDbg opens the port with 38400 baud,
  the FPGA divides 100 MHz by 162 and 16, which is 38580 baud.
* Memories behind the debugger's buses are one array per bus; address decoding is
  left out. They keep their registered address, and so the clock that an answer
  is behind.
* NesDbg: each function of Windows that may fail is a choice; `WriteFile` returns when
  its bytes have left, and `ReadFile` gives up only when nothing more is coming (the
  timeouts of `serialcomm.cpp:116` are longer than any pause within an answer). A
  short read leaves the rest of the buffer as `new` made it: `Heap` is what that may
  be. A box, a dialog and the file browser are entries of `stack` that let messages
  through; painting and the progress bar are left out. ROM banks and blocks are
  four bytes long, with the header, the checks and the order of the packets as they
  are.
* A script is its calls, their arguments, the values it compares, and whether it
  returns its result. The language itself, and results other than those of
  `scriptmgr.h:41`, are left out. `lua` is the top of the Lua stack between scripts.
* `HasScriptMgr` chooses between the code as it is, where the script manager is no
  longer created (`nesdbg.cpp:124` is commented out), and with those lines.
* The board's reset button (`Reset`) is pressed only while NesDbg is not running: before
  it starts, or after it has ended or died, in whatever packet. What a press at another time
  does is in section 5, 17.
* `PpuRi` leaves out what the registers only pass on to the renderer (fine
  horizontal scroll, pattern table and sprite settings, clipping) and the sprite
  bits of 0x2002; it assumes that nothing is rendered, so that the address bus
  belongs to the counters. `PpuPort` has two properties of the chip that a program
  must know: the read of 0x2007 answers with the word before, and a read of 0x2002
  at the very clock the blank begins suppresses the flag.
* `PpuSpr` takes dots instead of clocks: within a dot, evaluation happens with the
  pulse at its end, a shift register is loaded after the pulse at its beginning, and the rest
  holds all along. Each object has four dots of evaluation and each slot four of fetching
  (of two in the code), then comes the dot of the count's reset and one for all
  others until the next line. A write of the program counts from the next dot. The
  address of a pattern is left out: `Pattern` has the rows of the tiles.
* `NesBus` has the CPU's program as a sequence of bus cycles, with no two adjacent
  PPU accesses but those of an indexed store when `IndexedStores` holds. Of CPU
  memory it has the page that the DMA copies.
* Left out everywhere: reset of one end of the serial line in the middle of a byte,
  and noise on the line.

## 3. Runs

| Run | Question | Bounds |
|---|---|---|
| `fifo` | Does the buffer keep entries in order, whatever is asked of it, and implement `FlagQueue`? How wrong can a flag be? | 4 slots, 2 words: pointers wrap, every fill level |
| `uart` | Do bytes arrive, once, unchanged, without parity error? | 2 data bits, odd parity, 4 baud ticks per bit, 3 clocks per tick, 3 slots; every phase of the two baud clocks |
| `hci` | Are registers in range, counts never run through zero, checked answers never dropped, for any byte at any clock? | base 16, queues of 3 slots, one byte of backlog |
| `link` | Every packet end to end, one after another in any order, while the program may break at any clock: nothing dropped, in step, answers right, all as commanded; and does the whole implement `HciProtocol`? | base 16, 21 packets (counts of zero, one and two; addresses whose increment carries), 4 clocks per baud tick, 3 ticks per byte, memories of 2 words |
| `link_live` | Do answers arrive, does waiting for a halt return? | the packets with an answer and those around a halt; fairness below |
| `nesdbg` | ROMs loaded and raw packets sent, in any order and behind each other's boxes, with restarts, and the reset button while NesDbg is not running: is a program in step with the machine, is a ROM complete, is an answer that of its packet, are files closed? | 3 ROM files (one bank, which holds the bytes of the echo; two banks; one that is faulty and too short), 3 texts, 3 calls inside each other, one fault (a crash, an adapter pulled or back, a packet sent to a running machine) at any byte |
| `scripts` | Are verdicts and tallies right, does `LuaWaitForHlt` return with the machine halted, does the program come back to its user and end? | 4 scripts with every Lua function and an argument of a wrong type, 4 selections, 4 calls inside each other, one fault at any byte |
| `ppu_addr` | Do latches and counters amount to one position and one address? Is every access executed in its first clock only? | `NV`, `VTLO`, `HT` 2, the other digits 1; CPU cycles of 3 clocks |
| `ppu_mem` | Are words of memory, palette and sprite memory those written? Does the blank flag rise once per blank, and the toggle follow? | `VTHI`, `HT` 2, the other digits 1; one colour per palette, 2 sprite bytes, blank begins and ends at any clock |
| `sprites` | Does each dot show the object it should, and does evaluation find the first of a line? | 3 objects for 2 slots, 2 by 2 dots each, in all 64 placements of four; 9 lines of 22 dots, 3 rows with sprites of which one is behind the border; two changes by the program at any dot |
| `bus` | Is every PPU access made once, every DMA complete, when the debugger takes over after a HLT? Do its packets about RAM leave the PPU alone? | 4 clocks per CPU cycle, 3 bytes of sprite memory, packets that begin 9 and 2 bytes below the end of RAM and at the first byte of the cartridge's ROM |
| `bus_disable` | *Violated*: does PPU_DISABLE disable? (section 5) | the same with packets that end at 0x1FFF |

Why the bounds are enough. The FIFO's flags depend on the distance of two pointers;
with four slots there are all the distances that the code tells apart (0, 1, in
between, all but one). The UART's machines treat the data bits alike, count ticks
the same way whatever a bit has of them, and the offset of the clocks runs over
every value. The interpreter's counts and addresses are compared with zero only and
stepped by one; base 16 holds the opcodes and keeps the carries between the bytes.
A program of CPU cycles has no memory beyond the registers, so that the runs of
`PpuRegs` and `NesBus`, which are not bounded in length, meet every sequence. A CPU
cycle of three or four clocks has what one of 56 has: the clock of the access, the
clock after it in which buffer and counters follow, and clocks in which nothing may
happen; that the length does not matter is proved for both (section 4). The digits of
`PpuRi` (fine vertical 8, two name table bits, vertical tile 4 x 8, horizontal tile
32) are 1 or 2 in the runs, which keeps every carry but not the middle of a
digit; two runs put the 2s in different places because all at once is too many
states. With one colour per palette every palette entry is a mirrored one. For what
the runs do not exercise, the middle of a digit and a palette entry without mirror,
there is the proof, which is about digits of every size and any number of colours.

For NesDbg, `MaxDepth` bounds the calls under way when one more is started: with
three there is a box in a `LoadRom` behind which another is loaded, or a packet
sent; with four a dialog, a run in it, a box in the run and something behind the
box. `MaxFaults` is one: a second fault meets a program in one of the states a
first has already been tried in, except that a restart lies between them, and a
restart is in the runs without limit. `MaxLeft` keeps out of the runs what follows
when the machine has taken the count of a packet from the middle of another and
waits for thousands of bytes: the user then only ends the program and resets the
machine. `Heap` is one byte: in `nesdbg` one that no
answer can be mistaken for, in `scripts` 0, which keeps `LuaWaitForHlt` in its loop when
an answer is lost. `Selections` and `Texts` are what a user
picks. Sprites: two slots are one that is first and one that is last; three objects
are one too many; the placements have overlap, both kinds of mirroring, an object
that leaves the screen at the right, one with a row of 255 and one that is never
in range. `MaxChanges` is two, since sprites switched off and on are what can leave
something behind in the three memories.

### Fairness

Safety is checked without any. `link_live` assumes, and `uart` likewise:

* `WF` of the clock edge: the oscillator runs.
* `SF` that a byte handed to the PC's serial port is received by the FPGA's UART:
  the port shifts out what it holds. It is strong because the receiver may take
  the byte only at ticks at which it could arrive.
* `WF` of `HostPoll`: the loop of `LuaWaitForHlt` goes on while it reads zero.
* For `WaitForHltReturns`, `SF` that a running program halts: a script that waits
  for a HLT has loaded a program that reaches one. Nothing is assumed about when.

`scripts` assumes `WF` of `ProgramStep`, that the thread of NesDbg runs (after
WM_QUIT boxes and browsers return, as Windows makes them), `WF` of `Machine`, that
the port shifts out what it holds, and `SF` of `Program` as above. No fairness is
assumed about the user, about faults, or about a host sending anything.

## 4. Proofs

| Theorem | Statement | For every |
|---|---|---|
| `FifoProofs!TypeCorrect`, `FlagsNeverTooLow`, `FlagsHideAtMostOne` | `Spec => []TypeOK`, `[]FlagsSafe`, `[]FlagsOffByOne` | depth of at least 3, set of words |
| `FifoProofs!ImplementsFlagQueue` | `Spec => QueueSpec` | same |
| `FifoProofs!ApartFlagsExact` | `SpecApart => []FlagsExact`: both flags are exact if no cycle has both requests | same |
| `BusProofs!HciTypeCorrect`, `CountsStayLive`, `AnswersLand` | `HciSpec => []HciTypeOK`, `[]CountsLive`, `[]CheckedAnswersLand` | base of at least 13, depth of at least 3, any input at any clock |
| `PpuProofs!TypeCorrect` | `Spec => []TypeOK` | size of every digit, number of colours, size of sprite memory, program, length of a CPU cycle, blank |
| `PpuProofs!OneEvaluation` | `Spec => []EvaluatedOnce`: the chip select falls in the first clock of an access and in no other | same |
| `PpuProofs!NothingBetweenAccesses` | `Spec => QuietBetween`: in all other clocks `PpuPort` stutters | same |
| `PpuProofs!AccessExecutedOnce` | `Spec => ExecutedOnce`: the first clock is the step of `PpuPort` for the access, once | same |
| `PpuProofs!RegistersImplementPort` | `Spec => PortSpec`: the registers amount to a position, an address, a buffer and a memory | same |
| `BusProofs!AccessesOnce` | `Orderly => (Spec => []AccessOnce)`: a PPU access of the program is made once, whatever the debugger does and however often the CPU stands still | length of a CPU cycle, sizes, program, host |
| `BusProofs!DmaCopiesAll` | `Orderly => (Spec => []DmaCopies)`: a DMA that is over has copied every byte of its page to its place | same |
| `BusProofs!PpuMemPacketsApart` | `Orderly /\ OffPpu => (Spec => PpuMemLeavesRegs)`: what the debugger reads and writes leaves the PPU's registers alone | same |
| `BusProofs!DisablePacketWorks` | `Orderly /\ OffPpu => (Spec => DisableDisables)`: PPU_DISABLE disables interrupt and rendering | same |
| `NesDbgProofs!HoldsWhatItUses` | `Spec => []Released`: the open files are those of the calls under way; a program that has ended holds nothing | ROMs, scripts, texts, selections, depth of calls, number of faults |
| `NesDbgProofs!FilesAreExclusive` | no two calls under way hold the same file | same |
| `NesDbgProofs!TalliesComplete` | `Spec => []TallyComplete`: what the dialog shows when no run is under way is the end of one, every script counted once | same |
| `LinkProofs!TypesCorrect` | `Spec => []TypeOK`: whatever is on the wire is bytes, the open files are ROMs and programs | same, contents of the ROMs and of new memory, size of banks, blocks and memories |
| `LinkProofs!StaysInStep` | `Spec => []InStep`: once `Init` has passed, and until a packet goes to a running program (`rogue`), the machine is between two packets whenever nothing is on the wire, and an answer waits only for the call that asked for it. Not for a program whose predecessor died in a read of memory that answers with the bytes of the echo (`Mimics`; section 5, 15); the reset button is pressed while no program runs (17) | same |
| `PacketProofs!HaltsBeforeReturn` | `Spec => []HaltedAfterWait`: from `LuaWaitForHlt` until the script's next call the machine is halted | same |
| `PacketProofs!AnswersAreOwn` | `Spec => []AnswerIsOwn`: the raw debug dialog shows all of the answer to what was typed and nothing else | same, memories that divide the 16-bit addresses |
| `PacketProofs!RomsArrive` | `Spec => []RomPlays`: a ROM that `LoadRom` has sent is in the machine to the last byte, with its configuration, and starts at its reset vector | same, banks of whole blocks that divide 16 KB and fit into memory |
| `SprProofs!TakesTheFirst` | `Spec => []FirstInRange` | number of objects, slots, rows and lines, size of objects, contents of OAM, changes by the program |
| `SprProofs!ScreenShowsSprites` | `Spec => []SpritesShown`: a dot shows the first object that has a pixel there, of the first that fit in the slots | same, patterns; objects no wider than the dots after a visible line, at least one line before the first that is seen |
| `UartProofs!BytesArriveOnce` | `Spec => []DeliveredOnce`: each byte arrives once, unchanged, before the transmitter drops it | width of a byte, parity mode, number of stop bits, at least 4 ticks to a bit and 3 clocks to a tick, phase of the baud clocks, depth |
| `UartProofs!ParityIsRight` | `ParityMode # 2 => (Spec => []ParityAgrees)`: no byte is reported as a parity error | same |
| `UartProofs!UartInvariant` | `Spec => []UartInv`: both ends are in the same phase of the same frame | same |

* **FIFO.** The pointers alone do not tell an empty buffer from a full one, which is
  what the flags are for. The invariant is `TypeOK /\ PointersAgree`:
  `PointersAgree` relates the distance of the pointers to the number of entries held
  (a history variable) and to the flags, with the one entry that a flag may hide. The
  refinement maps the words between the pointers to the abstract sequence; each
  clock edge is one abstract cycle. `Inc` and `Diff`, the wrapping arithmetic, come
  as lemmas.
* **Interpreter.** `CountsLive` is not inductive: that a count is not zero while a
  packet executes follows from how a packet came to execute. `HInv` adds the ranges of the
  registers and `NoneUnderWay` (no answer is in the output register where a state
  begins that looks at `tx_full`); `QInv` describes each queue. There is one lemma
  per state of the machine, `StepInv` combines them, and a clock edge is a step and
  two queue cycles.
* **Register interface.** The invariant is `Types`, the ranges of registers, counters
  and memories, with `EdgeAtStart`, that during an access `q_ncs_in` is high exactly in
  the first clock, and `Delays`: a pending update of the counters (`q_upd_cntrs_out`) or
  of the read buffer (`q_rd_rdy`) is of the clock just before. An access may have a clock
  or two of such after-effects, and the mapping of `PpuRegs` counts them as done
  already. `PpuPort` has the position and the address as single numbers, so that the
  refinement is arithmetic on digits of unknown sizes: `DivMod`, `Unique`, `Nested` and
  `TwoParts` say that digits and numbers determine each other, `SetDigitOK` what
  replacing one digit does to the number, `SetTables` to `SetHigh` the same for the
  writes of 0x2000, 0x2005 and 0x2006, whose bytes cut through digits, and `FieldsOK`
  that a carry through the five counters is adding one or a row. `RiTyped` has each
  access's registers by name; `DoReadStatus` to `DoIgnored` map each kind of access to
  its step of `PpuPort`, and `PortStep` puts them together with the clocks in between.
* **Bus.** Three masters share the bus, and the invariant `BusInv` says who may be in
  the middle of what: while the debugger owns the bus, the CPU stands in a cycle that is
  no access; while the DMA does, it stands in that of the write to 0x4014 (`Stand`); when
  either gives the bus back, a clock passes with the chip select high before the CPU's next
  cycle (`Edges`); the DMA has copied as many bytes as its pointer says (`Copying`);
  nothing wakes an interpreter that sleeps (`HostWaits`). It rests on the interpreter's
  own invariant, in the first part of `BusProofs`. For the two properties of packets, `HostInv` relates where the
  interpreter points to the packet it executes: `Addressing` keeps it off the PPU's
  addresses but for PPU_DISABLE, and `Disabling` follows the two writes of that packet.
  The conditions are what the code needs, and section 5 has what happens without them:
  `Orderly` excludes indexed stores to PPU registers (2) and a break of the debugger at
  any moment of a running program (3), so that the debugger takes over where the program
  has a HLT; `OffPpu` excludes packets about the PPU's addresses, or one that ends just
  below them (6 and the finding), and has a base that is a multiple of 8, as 256 is.
* **NesDbg.** `Released` says that the set of open files is the union over the stack; it
  is not inductive, because a call that closes its file might close that of another
  with the same name. The invariant adds that each file is held by one call
  (`CreateFile` shares with nobody), that a script holds one only inside
  `LuaLoadAsm`, and that only the message loop has calls under way (`AppInv`). There is
  one lemma for each way in which the stack changes (`GoKeeps`, `BoxSound`,
  `ReturnKeeps`, `StartKeeps`, `EndKeeps`) and every action is an instance of one. The
  tally follows the same lines with `TallyInv`: of every run under way, wherever it is on
  the stack, the scripts are those counted, those left and the one it is in; only the run
  on top is between two scripts, since whatever starts behind a box finds the runs below
  inside a Lua call; and where a run is about to end, its tally is what the dialog shows,
  if one is live.
* **In step.** `InStep` says nothing of the moments when bytes are on the wire, and
  those are what has to be described. `LinkInv` has four parts. `FrameInv`: every call
  on the stack is one that could have come there; a ROM that is being sent has passed
  its checks, so that all its packets lie within the file. `WireInv` for a program that is up
  is `Agrees`: what the interpreter has taken of a packet and what is on the wire make one
  packet of NesDbg, as long as it says itself, and its answer, after what waits
  already, is no longer than what the call on top waits for (`Awaited`). For a program that starts
  it is `Verifying`: the machine may be inside any packet of a program that died there, and
  with `k` bytes of the echo gone it is either answering the echo, or has answered
  something that is not its beginning, or is where it cannot answer all of it. The last
  (`Astray`) has a case for each way of being lost: the echo is data of a write, the rest of
  a header whose count it completes, an opcode in mid-packet, a byte to a running program. `VerifyEnds` shows that the
  right four bytes leave only the first of the three: the machine is then at an opcode with nothing to
  answer, which is where `Agrees` begins. `Mimics` is the one exception (section 5, 15). The
  lemmas are ordered from the packets (`EchoAsked` to `RomToldPackets`: each is as long as it
  says, with bytes as its fields, for any argument of a script, any typed text and any ROM) over the
  interpreter (`AtOpcode` to `AtData`, `StepInHead`: a byte of the packet under way) to the actions
  (`SendStep`, `ReceiveStep`, `QuietStep`, `MachineStep`, and one for each group of calls).
* **Answers.** `Agrees` counts bytes; `PacketProofs` says which they are. Its invariant
  `AskInv` has three parts over `LinkInv`, from which it takes that a call asks a machine
  between two packets with no answer waiting. `Halting`: the question of `LuaWaitForHlt` is
  alone on the wire, or its answer is alone in the buffer, and if that is 1 the machine
  stands. Why it still stands when the script goes on is a matter of the stack: another call could have
  started it, and only from behind a box, and the one function of a script that has a box is
  `LuaLoadAsm` (`Apart`). `Answered`: the answer that the dialog's packet stands for is
  the same from byte to byte, be it still to be made of the whole packet, of the part of the head
  taken and the rest, or of the data of an echo that have come back and those to
  come (`Answers`; `AnswersAtOpcode`, `AnswersInHead` and `AnswersInData` are the
  three kinds of byte, `AnswersEmpty` the end). The reference `PacketMeaning` takes a read all at once,
  the interpreter cell by cell with a 16-bit address: `FetchIs` has them agree, by `CellsRepeat`.
  `TypedIsSent` has the packet equal to the text as far as that goes.
* **A loaded ROM.** No packet of `LoadRom` is answered, and none depends on what the machine
  has, so that what is in the machine is a matter of how many packets have gone out and how much of
  the last is still on the wire. `LoadedBy(n, w, d, q)` says this of a machine `n` with the bytes `w` to come
  after `q` packets of the file `d`, one disjunct for each kind of packet: the configuration
  moved in byte by byte (`InCfg`), PRG-ROM and then CHR-ROM in place up to the byte that the machine waits
  for (`InBlock`), the registers (`InReg`). The invariant `RomInv` has besides this `LoadInv` for the load on top of the
  stack `PauseInv`: a load with another call above it has sent nothing, for its boxes come before the
  first packet, so that no other packet gets between two of a ROM. `BlockTaken`, `CfgTaken` and
  `RegTaken` are a byte of each packet, where the data of a block changes no other cell
  of its bank (`CellsApart`, from `BankAssumption`) and nothing of the other (`Spares`); `LoadedByte` puts
  them together, `PacketAt` says which packet is the `q`-th, and `LoadedNext` that one whose
  predecessors are there may go out. `VectorAt` takes the vector from the file's last bank to address
  0xFFFC, where a cartridge of one bank appears a second time. A load whose write failed,
  or whose machine ran into a packet (`rogue`), is not claimed to be there.
* **UART.** What makes a byte arrive is where in a frame the two ends are, and
  `UartInv` says so in five phases: `Resting`; `Starting`, the two clocks in which the start bit is on
  its way through `q_tx` and `q_rx`; `Underway`; `Ending`, when the receiver is done and the
  transmitter still in its stop bit; and `Jammed`, where a frame with more than one stop bit is stuck (section 5, 4).
  Underway, each end is at a bit and at a clock of this bit (`TxPos`, `RxPos`). The
  receiver samples a start bit after half of it: counted as the last part of a whole one
  (`Skip`), it is ahead of the transmitter by a number of clocks that stays the same from the start bit
  to the stop bit (`Leads`). It is at least 1, so that the receiver is done first, and at most a bit less
  four, so that when it samples, the transmitter is in the same bit and the bit has
  passed both registers. These are the two places where the bounds on `Oversample` and
  `TickClks` are needed (`StartMoves`, `FromStarting`). `Sending` and `Receiving` divide the
  front byte of the FIFO into what is still to be shifted out and what has been shifted in.
  `NextPos` is the arithmetic of the tick and baud counters, `TxStep` and `RxStep` are one
  clock of an end, and there is one lemma for each phase (`FromResting` to `FromJammed`).
  Even parity is excepted from `ParityIsRight` because it fails there.
* **Sprites.** A line's evaluation begins with whatever count the line before has left,
  which is reset near the end of a line, only while sprites are enabled, and in no
  line after the last with sprites. The invariant is `FirstInRange` with `CountReady`:
  if sprites were enabled when the count was last to be reset, then it is 0 where a
  line begins, through all lines that have none. The step is an
  induction along the dots of a line: the witness is extended by the object taken, and an object
  not taken is out of range or finds the memory full. `SpritesShown` follows the objects
  through the three memories, of which each is filled for the next line while it is read for this
  one: `Fetched` has the slots that have been fetched equal to the entries of the
  temporary memory, from the count's reset on `SetUp` says that the buffer holds the next line, and
  `InUse` that it still does while that line is shown, twice on the screen, until fetching
  begins again. A line begins with empty shift registers, as the dots that are not seen are more than a
  register has pixels (`Drained`), and at each dot they hold what is left of their slot
  (`Shifting`, `ShiftOnce`). `SlotsShowThePicture` then compares the choice of the code, the lowest slot
  with a pixel, with the reference, the first object of OAM that has one and is among those
  taken; `ListedAreChosen` has the two say the same of which are taken.

Assumptions are `DepthAssumption` (at least three slots; the code has a power of two),
`HciAssumption` (the opcodes are bytes; at least three slots), `PpuAssumption` (no digit
is without a value, and the palette's entries divide into groups of colours as those of
the chip), `RegsAssumption` (CPU cycles are long enough for the after-effects; the bytes
written are within the fields of their registers; the memories begin with a value
everywhere), `BusAssumption` (CPU cycles of three clocks at least; the host sends bytes,
in addresses of two), `SprAssumption` and `ScreenAssumption` (numbers are numbers, and none that must be
positive is 0; an object is no wider than the dots after a visible line, 8 of 32 in the code, and
at least one line precedes those that are seen, 8 there), `UartAssumption` and
`ClockAssumption` (four ticks to a bit and three clocks to a tick at least, 16 and 162 in the
code; with fewer the transmitter may finish before the receiver, which learns of a
start bit three clocks late), and of NesDbg `CommAssumption` (bytes are bytes, and there is memory),
`ScriptsAssumption` (scripts hand numbers and tables of numbers to functions that check
for them, registers that are bytes to those that do not, and assembled programs have an
address and fit into a packet),
`NesDbgAssumption` (the machine's memory repeats evenly in the 16-bit addresses, files are
bytes, two PRG banks fit into the cartridge's half of the addresses, two hex digits are a
byte) and `BankAssumption` (a PRG bank has room for the vectors and is in 16 KB a whole number
of times, banks are sent in whole blocks, as 16 and 8 KB are in blocks of 1 KB, and a bank fits
into its memory without meeting itself); TLC evaluates all of them.

Only model-checked: liveness (the prover has no fairness), `DebugLink` with its
refinement, and of `NesDbg` what the scripts conclude from the answers they read
(`VerdictDeserved`).

## 5. What the checks show

**PPU_DISABLE after a packet that ends at 0x1FFF** does not disable the interrupt
(`hci.v:577`, run `bus_disable`): the interpreter still points at 0x2000, so that the
chip select does not fall for the first of its writes. The trace is short.

The following disagreements and limits have no run of their own; each says what makes
TLC show it.

*Hardware*

1. **FIFO, `empty`** (`fifo.v:96`): reading the only entry in the cycle of a write
   raises `empty` over the entry just written (`INVARIANT EmptyFlagExact` in
   `MCFifo.cfg`). Nothing is lost: it appears with the next write. In this design the
   two requests never meet there (`FlagsExact` in `link`): a byte's completion falls
   on a baud tick, the transmitter pops one clock after a tick, and the interpreter's
   answers come at clocks that a byte of the line has determined.
2. **Indexed stores to PPU registers** lose the write (`ppu_ri.v:218`): the dummy read
   of an indexed store (`cpu.v:1209`, `:1661`) leaves the chip select low.
   `IndexedStores = TRUE`, `Accesses <- Stores` and `Halted <- RunOnly` in `MCBus.cfg`
   violate `AccessOnce`. Read-modify-write instructions lose theirs in the same way.
3. **A break in the middle of a PPU access or of a DMA** (`nes_top.v:304`,
   `sprdma.v:93`): the access is executed again, and the DMA goes on writing into
   nothing. `Running <- Break` in `MCBus.cfg` violates `AccessOnce` and `DmaCopies`.
4. **Even parity and two stop bits** (`uart_tx.v:115`, `:166`) do not work:
   `ParityMode = 2` violates `ParityAgrees` and `StopBits = 2` violates
   `EveryByteLeaves` in `MCUartOdd.cfg`. `hci.v` uses odd parity and one stop bit.
5. **The stack pointer** is offered by the scripts' register list but `cpu.v` has no
   write branch for it: `CpuRegWrPacket(6, 4)` among the packets of `link`, with 6
   among the `Registers`, violates `AsCommanded`.
6. **Reading name tables through the debugger** reads CPU registers as well
   (`hci.v:649`): a packet PPU_MEM_RD at 0x2007 violates `PpuMemLeavesRegs`. A
   CPU_MEM_WR to a PPU register is executed as a read of it.
7. **Sprite overflow** is raised at eight sprites of a line, where the comments say more
   than eight (`ppu_spr.v:123`, `:169`): line 173 tests bit 3 of the count.
   `INVARIANT OverflowMeansMore` in `MCPpuSpr.cfg`.
8. **Sprites switched off in the middle of a line** leave its shift registers as they
   are, and what is left comes out at the beginning of the first line of a later frame,
   behind the border (`Border = 0` violates `SpritesShown`). Switched off where the
   count is reset (dot 320, `ppu_spr.v:188`), they leave it as it is, and the next line
   may take no object at all; this is why `SpritesShown` and `FirstInRange` wait for a
   line after the last change (`quiet`).
9. **An object with a y of 255** appears in row 0 (`ppu_spr.v:153` adds in eight bits).

*NesDbg*

10. **"NES FPGA not connected."** is shown although everything is connected when NesDbg
    starts while a ROM plays (`serialcomm.cpp:141`): a running machine does not answer
    ECHO. Without the machine halted by hand, a second start does no better.
11. **The verdict of a script that returns nothing** is that of an earlier one
    (`scriptmgr.cpp:131`); dropping `returns` from `VerdictDeserved` shows it.
12. **Test Scripts crashes the program** as it is built: the dialog goes through a script
    manager that is NULL (`nesdbg.cpp:124`, `scriptmgrdlg.cpp:50`).
13. **`LuaWaitForHlt` never returns once the adapter is pulled** (`scriptmgr.cpp:430`):
    `QuitEnds` without `port = "dead"`.
14. **A dialog that is ended behind a script's box** gets the tally of that run only when it
    is gone: `TallyComplete` without `Live`.
15. **A raw packet sent to a running machine** may leave it inside another packet if the
    program halts meanwhile (`rogue`); then even the echo of a later `Init` can be
    answered by a read of memory that holds those very bytes. The same can happen to a
    program that died in the middle of a CpuMemRd or PpuMemRd: the echo of the next
    completes the header, and if memory begins with "NE" at the address that this makes,
    the answer is taken for the echo's (`serialcomm.cpp:141`; without `Mimics` in `OpenPort`,
    `InStep` fails in `MCNesDbg.cfg`).
16. **A text that is too short for its packet** (`dbgpacket.cpp:53`) is completed with
    what lies behind it in memory: `CreateObjFromString` checks no length.
17. **The reset button pressed while NesDbg is running** (`hci.v:115`) is not in the model.
    The interpreter forgets the packet it is in and takes the rest of it for opcodes, and
    NesDbg looks at the connection only once, in `Init`. `Reset` without `app = "off"`
    violates `InStep` in `MCNesDbg.cfg` (a raw packet, the button in its middle), and
    `RomPlays` and `AnswerIsOwn` too, without any other fault.

What holds and is not obvious: ECHO and QUERY_DBG_BRK never look at `tx_full`, and
nothing is dropped all the same, since a byte cannot come faster than one leaves;
the dummy cycle that the memory reads insert for the memory's sake is also what
makes `tx_full` fresh; the receive FIFO's unconnected `full` output is harmless; a
program that dies inside a packet does not spoil the next one (but for 15), because the
echo that verifies the connection is then taken for data and not answered, or answered
with other bytes; message boxes
inside `LoadRom` and scripts let others start, and still every file is closed and
every answer reaches the call that asked for it; the three sprite memories, of
which each is overwritten while it is read, never show a line a pattern of another.

## 6. Not modelled

In the order in which they would be worth adding:

1. **Background and multiplexer** (`ppu_bg.v`, `ppu.v`): the fetch schedule against a
   reference picture, the choice between background and sprite, the sprite-0 flag. `PpuSpr` has
   the counters and the output it needs; `PpuRi` has the scroll counters as the
   registers drive them.
2. **Vertical blank and NMI** (`ppu_vga.v:342`, `cpu.v:406`): every blank interrupts once,
   with a CPU that the debugger freezes, which samples NMI at phase 0 of a cycle even then.
   `PpuRegs` has the blank at any clock; the rest needs the interrupt logic of `cpu.v`, which
   `NesBus` leaves out.
3. **Joypad, game menu, APU**: small sequential machines without interaction but the
   CPU's bus. Mixer and DAC are arithmetic on samples, the character generator is data.
4. **Instructions of `cpu.v`**: the decoder and the ALU are what the scripts under
   `sw/scripts` test instruction by instruction; a model of them would be a second CPU.
5. **Propeller firmware**: Spin code for another chip, built on third-party SD card
   drivers; it sends the bytes that the menu displays and the packets of `dbgpacket.cpp`.

Proofs that would come next: of `NesDbg`, `VerdictDeserved`, which needs what each script has read
and compared so far beside what the machine holds; the refinement of
`HciProtocol`, whose arithmetic on counts is within the prover's reach while its
sequences of pending answers, sliced at every step, are hard for it.
