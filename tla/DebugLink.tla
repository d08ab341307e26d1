------------------------------ MODULE DebugLink ------------------------------
(***************************************************************************)
(* The debugger end to end: the NesDbg program on the PC (dbgpacket.cpp,    *)
(* scriptmgr.cpp, serialcomm.cpp), the serial line, the UART with its two   *)
(* FIFOs, the host command interpreter (Hci), and the memories and CPU      *)
(* registers it works on (nes_top.v, wram.v, cpu.v).                        *)
(*                                                                         *)
(* One Clock step is one clock edge of the FPGA; the host's steps come      *)
(* between edges.  Both halves of the UART move on the ticks of one baud    *)
(* clock: a byte completes only at a tick, TickClks clocks apart, and takes *)
(* ByteTicks ticks (162 and 176 in the code).                               *)
(*                                                                         *)
(* Abstractions: Uart shows that bytes cross the wire once and unchanged,   *)
(* so here they do; each memory is MemSize cells mirrored over the address  *)
(* space; the running CPU leaves memory and registers alone and only raises *)
(* brk; the host keeps to the discipline of the scripts: it sends data      *)
(* packets only while it knows the CPU to be halted, and waits for the      *)
(* answer of a packet before the next.                                      *)
(***************************************************************************)
EXTENDS Hci

CONSTANTS TickClks, ByteTicks, MemSize,
          Packets,    \* packets the host may send while the CPU is halted
          Registers   \* the register selects of cpu.v that the host uses, but not REGSEL_P

ASSUME LinkAssumption ==
    /\ TickClks \in Nat \ {0} /\ MemSize \in Nat \ {0}
    /\ ByteTicks \in Nat
    /\ ByteTicks * TickClks > 2 * Depth + 4   \* a burst fits in a byte time

VARIABLES
    phase,                \* q_cnt of uart_baud_clk
    rxu,                  \* uart_rx: ticks since its last byte, and q_done_tick
    txu,                  \* uart_tx: busy, ticks spent on the byte, q_done_tick
    line,                 \* bytes the host's serial port has still to send
    cpu_mem, ppu_mem,     \* block RAM contents
    cpu_cell, ppu_cell,   \* address registers of the block RAMs
    regs,                 \* CPU registers
    host,                 \* the NesDbg program
    marks,                \* history: is each byte not yet read by Hci a packet's first?
    told                  \* history: memories and registers as the host commanded

envVars == <<phase, rxu, txu, line, cpu_mem, ppu_mem, cpu_cell, ppu_cell, regs,
             host, marks, told>>
vars == <<h, rx_q, tx_q, envVars>>

Cells == 0 .. MemSize - 1
Cell(a) == a % MemSize

-----------------------------------------------------------------------------
INSTANCE PacketMeaning      \* the packets, in the same base, and what they ask for

-----------------------------------------------------------------------------
(* The host.  It is idle, or waits for the answer to a packet, or is in the *)
(* loop of LuaWaitForHlt with a query to send ("poll") or sent ("query").   *)
Put(p) ==
    /\ line = <<>>
    /\ line' = SubSeq(p, 1, SizeInBytes(p))
    /\ marks' = marks \o [i \in 1 .. Len(line') |-> i = 1]

\* SendData, then ReceiveData when ReturnBytesExpected() > 0.
HostSend(p) ==
    /\ host.pc = "idle"
    /\ host.halted \/ p = DbgHltPacket
    /\ Put(p)
    /\ host' = [pc |-> IF ReturnBytesExpected(p) = 0 THEN "idle" ELSE "answer",
                left |-> ReturnBytesExpected(p),
                want |-> Answer(told, p),
                halted |-> p # DbgRunPacket]
    /\ told' = AfterPacket(told, p)
    /\ UNCHANGED <<h, rx_q, tx_q, phase, rxu, txu, cpu_mem, ppu_mem, cpu_cell,
                   ppu_cell, regs>>

\* LuaWaitForHlt is called, after a DbgRun.
HostWait ==
    /\ host.pc = "idle" /\ ~host.halted
    /\ host' = [host EXCEPT !.pc = "poll"]
    /\ UNCHANGED <<h, rx_q, tx_q, phase, rxu, txu, line, cpu_mem, ppu_mem,
                   cpu_cell, ppu_cell, regs, marks, told>>

HostPoll ==
    /\ host.pc = "poll"
    /\ Put(QueryHltPacket)
    /\ host' = [host EXCEPT !.pc = "query"]
    /\ UNCHANGED <<h, rx_q, tx_q, phase, rxu, txu, cpu_mem, ppu_mem, cpu_cell,
                   ppu_cell, regs, told>>

\* ReceiveData gets byte b.
HostReceives(b) ==
    host' = CASE host.pc = "query" /\ b = 0 -> [host EXCEPT !.pc = "poll"]
              [] host.pc = "query" /\ b # 0 -> [host EXCEPT !.pc = "idle",
                                                           !.halted = TRUE]
              [] host.pc = "answer" ->
                    [host EXCEPT !.left = @ - 1, !.want = SubSeq(@, 2, Len(@)),
                                 !.pc = IF host.left = 1 THEN "idle" ELSE @]
              [] OTHER -> host

-----------------------------------------------------------------------------
(* The UART, on the ticks of its baud clock.                                *)
RxTick == phase = TickClks - 1
TxTick == phase = TickClks - 1

\* uart_rx completes the next byte of the line, no sooner than a byte time
\* after the one before (the PC's 38400 baud is no faster than 100 MHz / 162 /
\* 16); how much later is up to the PC.
RxCompletes ==
    /\ RxTick /\ line # <<>> /\ rxu.ticks = ByteTicks - 1
    /\ rxu' = [ticks |-> 0, done |-> Head(line)]
    /\ line' = Tail(line)

RxContinues ==
    /\ rxu' = [ticks |-> IF RxTick /\ rxu.ticks < ByteTicks - 1
                         THEN rxu.ticks + 1 ELSE rxu.ticks,
               done |-> NoByte]
    /\ UNCHANGED line

TxDoneAtFirstTick ==
    txu' = IF ~txu.busy
           THEN [busy |-> ~tx_q.empty /\ ~txu.done, ticks |-> 0, done |-> FALSE]
           ELSE [busy |-> ~TxTick, ticks |-> 0, done |-> TxTick]

TxUart ==
    txu' = IF ~txu.busy
           THEN [busy |-> ~tx_q.empty /\ ~txu.done, ticks |-> 0, done |-> FALSE]
           ELSE IF TxTick /\ txu.ticks = ByteTicks - 1
                THEN [busy |-> FALSE, ticks |-> 0, done |-> TRUE]
                ELSE [txu EXCEPT !.ticks = IF TxTick THEN @ + 1 ELSE @]

-----------------------------------------------------------------------------
(* What Hci works on.  A block RAM registers the address and shows the cell *)
(* it points at; a CPU register answers at once.                            *)
cpu_din == cpu_mem[cpu_cell]
ppu_din == ppu_mem[ppu_cell]
dbgreg_out == IF cpu_dbgreg_sel \in DOMAIN regs THEN regs[cpu_dbgreg_sel] ELSE 0

\* PCL, PCH, AC, X, Y: cpu.v has no register write branch for REGSEL_S.
WritableRegs == 0 .. 4

Din == IF h.state = "CPU_MEM_RD_STG_1" THEN cpu_din
       ELSE IF h.state = "PPU_MEM_RD_STG_1" THEN ppu_din ELSE dbgreg_out

\* The PPU_DISABLE writes go to the PPU's registers, not to memory (PpuDisable).
Memories ==
    /\ cpu_mem' = IF CpuWrites /\ h.state # "PPU_DISABLE"
                  THEN [cpu_mem EXCEPT ![Cell(h.addr)] = cpu_dout] ELSE cpu_mem
    /\ ppu_mem' = IF PpuWrites
                  THEN [ppu_mem EXCEPT ![Cell(h.addr)] = rd_data] ELSE ppu_mem
    /\ regs' = IF cpu_dbgreg_wr /\ cpu_dbgreg_sel \in Registers \cap WritableRegs
               THEN [regs EXCEPT ![cpu_dbgreg_sel] = rd_data] ELSE regs
    /\ cpu_cell' = Cell(h.addr)
    /\ ppu_cell' = Cell(h.addr)

\* One clock edge; brk is the CPU executing HLT, which it can only while it runs.
Clock(brk) ==
    /\ brk => ~active
    /\ Edge(rxu.done, txu.done, FALSE, brk, Din)
    /\ Memories
    /\ phase' = (phase + 1) % TickClks
    /\ RxCompletes \/ RxContinues
    /\ TxUart
    /\ IF txu.done THEN HostReceives(Head(tx_q.items)) ELSE UNCHANGED host
    /\ marks' = IF rd_en(brk) THEN Tail(marks) ELSE marks
    /\ UNCHANGED told

Init ==
    /\ HciInit
    /\ phase = 0
    /\ rxu = [ticks |-> ByteTicks - 1, done |-> NoByte]
    /\ txu = [busy |-> FALSE, ticks |-> 0, done |-> FALSE]
    /\ line = <<>> /\ marks = <<>>
    /\ cpu_mem = [c \in Cells |-> 0] /\ ppu_mem = [c \in Cells |-> 0]
    /\ cpu_cell = 0 /\ ppu_cell = 0
    /\ regs = [r \in Registers |-> 0]
    /\ host = [pc |-> "idle", left |-> 0, want |-> <<>>, halted |-> FALSE]
    /\ told = [cpu |-> cpu_mem, ppu |-> ppu_mem, regs |-> regs,
               cfg |-> h.cart_cfg, err |-> 0]

Next ==
    \/ \E brk \in BOOLEAN : Clock(brk)
    \/ \E p \in Packets \cup {DbgHltPacket} : HostSend(p)
    \/ HostWait
    \/ HostPoll

\* The clock runs.  A byte handed to the serial port is sent in the end, at one
\* tick or another.  LuaWaitForHlt loops until it gets its answer.
Fairness ==
    /\ WF_vars(\E brk \in BOOLEAN : Clock(brk))
    /\ SF_vars(\E brk \in BOOLEAN : Clock(brk) /\ RxCompletes)
    /\ WF_vars(HostPoll)

Spec == Init /\ [][Next]_vars /\ Fairness

\* The program the CPU runs gets to a HLT.
ProgramHalts == SF_vars(Clock(TRUE))

SpecHalting == Spec /\ ProgramHalts

-----------------------------------------------------------------------------
\* Nothing of a packet is left anywhere between the host and the memories.
Quiet == /\ line = <<>> /\ rxu.done = NoByte /\ rx_q.items = <<>>
         /\ h.state \in {"DECODE", "DISABLED"}

\* Both FIFOs' flags are exact.  fifo.v gets them wrong when a read and a write
\* meet at one entry; the UART reads at a tick and Hci writes some clocks after
\* one, so in this design they do not meet.
FlagsExact == QueueFlagsExact(rx_q, Depth) /\ QueueFlagsExact(tx_q, Depth)

\* No byte is lost in front of a full FIFO: the receive FIFO's full output is
\* not even connected (uart.v), and ECHO answers without a look at tx_full.
NothingDropped ==
    /\ rxu.done # NoByte => ~rx_q.full
    /\ h.wr_en => ~tx_q.full

\* Hci reads an opcode where the host put one and nowhere else: no packet leaves
\* it a byte short or long, in any state it can be left in by brk, run and halt.
InSync ==
    HaveByte => ( /\ h.state \in {"DECODE", "DISABLED"} => Head(marks)
                  /\ h.state \in (ByteStates \ {"DECODE"}) \cup {"CPU_REG_RD"}
                        => ~Head(marks) )

\* Every byte the host receives is one it waits for, with the right value
\* (ReturnBytesExpected, and the checks of dbg_echo.lua, cpumc.lua, ppumc.lua).
AnswersRight ==
    txu.done => /\ host.pc \in {"answer", "query"}
                /\ host.pc = "answer" => /\ Len(host.want) = host.left
                                         /\ Head(tx_q.items) = Head(host.want)

\* Once quiet, memories, registers, cartridge configuration and error code are
\* as the host's packets, in their order, say; and a machine that the host
\* takes for halted is.
AsCommanded ==
    Quiet => /\ cpu_mem = told.cpu /\ ppu_mem = told.ppu /\ regs = told.regs
             /\ h.cart_cfg = told.cfg /\ h.err_code = told.err
             /\ host.halted => active

-----------------------------------------------------------------------------
\* A host that sees nothing but bytes cannot tell Hci from the interpreter of
\* HciProtocol, which does at once what a byte asks for.  The answers that Hci
\* still works on are on their way there.
Fetched(mem) == [i \in 1 .. (h.execute_cnt + 1) \div 2 |->
                    mem[Cell((h.addr + i - 1) % (Base * Base))]]
Given == IF h.wr_en THEN <<h.tx_data>> ELSE <<>>
Pending ==
    CASE h.state = "CPU_MEM_RD_STG_1" -> Fetched(cpu_mem)
      [] h.state = "PPU_MEM_RD_STG_1" -> Fetched(ppu_mem)
      [] h.state = "QUERY_ERR_CODE"   -> <<h.err_code>>
      [] OTHER                        -> <<>>

PacketIn ==
    CASE h.state \in {"ECHO_STG_0", "ECHO_STG_1"}             -> "echo"
      [] h.state = "CPU_MEM_RD_STG_0"                         -> "cpu_rd"
      [] h.state = "PPU_MEM_RD_STG_0"                         -> "ppu_rd"
      [] h.state \in {"CPU_MEM_WR_STG_0", "CPU_MEM_WR_STG_1"} -> "cpu_wr"
      [] h.state \in {"PPU_MEM_WR_STG_0", "PPU_MEM_WR_STG_1"} -> "ppu_wr"
      [] h.state = "CPU_REG_RD"                               -> "reg_rd"
      [] h.state \in {"CPU_REG_WR_STG_0", "CPU_REG_WR_STG_1"} -> "reg_wr"
      [] h.state \in {"CART_SET_CFG_STG_0", "CART_SET_CFG_STG_1"} -> "cfg"
      [] h.state = "DISABLED"                                 -> "disabled"
      [] OTHER                                                -> "opcode"

\* The bytes of the header that Hci has read, and the data bytes to come.
HeadRead ==
    CASE h.state = "ECHO_STG_0" -> SubSeq(<<h.execute_cnt>>, 1, h.decode_cnt)
      [] h.state \in AddrCountStg0 ->
            SubSeq(Word(h.addr) \o <<h.execute_cnt>>, 1, h.decode_cnt)
      [] OTHER -> <<>>

DataLeft ==
    CASE h.state \in MemWrStg1 \cup {"ECHO_STG_1"} -> h.execute_cnt
      [] h.state = "CPU_REG_WR_STG_1"              -> 1
      [] h.state = "CART_SET_CFG_STG_0"            -> 5
      [] h.state = "CART_SET_CFG_STG_1"            -> h.execute_cnt + 1
      [] OTHER                                     -> 0

Protocol == INSTANCE HciProtocol WITH
    nes <- [in |-> PacketIn, head |-> HeadRead, left |-> DataLeft,
            addr |-> IF h.state \in MemWrStg1 \cup {"CPU_REG_WR_STG_1"}
                     THEN h.addr ELSE 0,
            err |-> h.err_code, cpu |-> cpu_mem, ppu |-> ppu_mem,
            regs |-> regs, cfg |-> h.cart_cfg],
    out <- tx_q.items \o Given \o Pending

ProtocolSpec == Protocol!ProtocolSpec

\* Every packet with an answer gets all of it: ReceiveData returns.
AnswerArrives == host.pc = "answer" ~> host.pc = "idle"

\* LuaWaitForHlt returns, knowing the CPU halted, when the program halts.
WaitForHltReturns == host.pc = "poll" ~> host.halted
=============================================================================
