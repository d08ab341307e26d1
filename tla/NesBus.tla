------------------------------- MODULE NesBus -------------------------------
(***************************************************************************)
(* Three masters of one bus (nes_top.v, rp2a03.v): the CPU, the sprite DMA  *)
(* of sprdma.v and the host command interpreter of Hci.  The interpreter    *)
(* owns the bus while it is active, and the CPU stands still then; the DMA  *)
(* stops the CPU as well, but nothing stops the DMA.  On the bus is the PPU *)
(* of PpuRi, which takes a falling chip select for an access.               *)
(*                                                                         *)
(* Of the CPU (cpu.v) this module has the clock phase, the ready logic and  *)
(* the bus: its program is a sequence of bus cycles.  It does not address   *)
(* the PPU in two cycles running, but for the read that comes before the    *)
(* write of an indexed store when IndexedStores holds (STA_ABSX in cpu.v).  *)
(* Of memory it has the page that the DMA copies.                           *)
(*                                                                         *)
(* The host sends packets of its Halted opcodes to an active interpreter    *)
(* and bytes of its Running to one that is not; memory packets are about    *)
(* one byte at one of its Targets.                                          *)
(***************************************************************************)
EXTENDS Hci

CONSTANTS FV, NV, NH, VTHI, VTLO, HT, Colours, OamSize,     \* see PpuRi
          CycleLength,      \* clocks of a CPU cycle (56)
          Accesses,         \* PPU accesses of the program
          IndexedStores,
          Halted, Running, Targets

ASSUME BusAssumption ==
    /\ CycleLength \in Nat /\ CycleLength >= 3
    /\ OamSize \in Nat \ {0}
    /\ \A a \in Accesses : a.reg = 3 => a.d \in Nat
    /\ IndexedStores \in BOOLEAN
    /\ Halted \cup Running \subseteq 0 .. Base - 1
    /\ Targets \subseteq 0 .. Base * Base - 1

VARIABLES
    ri, cntrs, ram, ram_a, palette_ram, m_oam,      \* PpuRi
    cpu,        \* q_clk_phase, q_ready, and the bus cycle
    dma,        \* the q_ registers of sprdma.v
    wram_q,     \* the byte of the page that the block RAM shows, or Junk
    log         \* history: accesses of this CPU cycle, of this DMA

busVars == <<hciVars, ri, cntrs, ram, ram_a, palette_ram, m_oam, cpu, dma, wram_q, log>>

Ppu == INSTANCE PpuRi

Page == [i \in 0 .. OamSize - 1 |-> i + 1]
Junk == 0

-----------------------------------------------------------------------------
(* The masters' cycles.                                                     *)
Elsewhere == [kind |-> "else", reg |-> 0, wr |-> FALSE, d |-> 0]
Hlt       == [kind |-> "halt", reg |-> 0, wr |-> FALSE, d |-> 0]
Write4014 == [kind |-> "dma",  reg |-> 0, wr |-> TRUE,  d |-> 0]
PpuCycle(a) == [kind |-> "ppu", reg |-> a.reg, wr |-> a.wr, d |-> a.d]

\* What follows a cycle on the bus.
NextCycles ==
    {Elsewhere}
      \cup (IF cpu.cycle.kind = "else" THEN {Hlt, Write4014} ELSE {})
      \cup {PpuCycle(a) : a \in {b \in Accesses :
                \/ cpu.cycle.kind = "else"
                \/ /\ IndexedStores /\ b.wr
                   /\ cpu.cycle = [PpuCycle(b) EXCEPT !.wr = FALSE]}}

dma_active == dma.state = "ACTIVE"
ready_in == ~active /\ ~dma_active
rdy == ready_in /\ cpu.ready
brk_out == rdy /\ cpu.phase = 1 /\ cpu.cycle.kind = "halt"

\* An eighth of the address space belongs to the PPU.
Eighth == (Base * Base) \div 8
InPpuFromMiddle(a) == a >= Eighth \div 2 /\ a < 2 * Eighth
InPpu(a) == a >= Eighth /\ a < 2 * Eighth

\* A byte as PpuRi has it: of 0x2000 only the interrupt's bit is of interest.
Byte(sel, d) == IF sel = 0 THEN [nmi |-> d # 0, rows |-> FALSE, tables |-> 0] ELSE d

HciCycle == [ncs |-> ~InPpu(h.addr), sel |-> h.addr % 8, r_nw |-> ~CpuWrites,
             d |-> Byte(h.addr % 8, IF CpuWrites THEN cpu_dout ELSE 0)]
DmaCycle == IF dma.cnt = 2
            THEN [ncs |-> FALSE, sel |-> 4, r_nw |-> FALSE, d |-> dma.data]
            ELSE [ncs |-> TRUE,  sel |-> 0, r_nw |-> TRUE,  d |-> 0]
CpuCycle == [ncs |-> cpu.cycle.kind # "ppu", sel |-> cpu.cycle.reg,
             r_nw |-> ~cpu.cycle.wr, d |-> Byte(cpu.cycle.reg, cpu.cycle.d)]

\* cpumc_a, cpumc_r_nw, cpumc_din
cpumc == IF active THEN HciCycle ELSE IF dma_active THEN DmaCycle ELSE CpuCycle

-----------------------------------------------------------------------------
\* sprdma.v
DmaReady ==
    /\ dma.state = "READY"
    /\ dma' = IF cpu.cycle.kind = "dma"
              THEN [dma EXCEPT !.state = "ACTIVE", !.addr = 0] ELSE dma

DmaReadsTooSoon ==
    /\ dma.state = "ACTIVE" /\ dma.cnt < 2
    /\ dma' = [dma EXCEPT !.cnt = @ + 1, !.data = IF dma.cnt = 0 THEN wram_q ELSE @]
DmaRead ==
    /\ dma.state = "ACTIVE" /\ dma.cnt < 2
    /\ dma' = [dma EXCEPT !.cnt = @ + 1, !.data = IF dma.cnt = 1 THEN wram_q ELSE @]

DmaWrite ==
    /\ dma.state = "ACTIVE" /\ dma.cnt = 2
    /\ dma' = IF dma.addr = OamSize - 1
              THEN [dma EXCEPT !.cnt = 0, !.state = "COOLDOWN"]
              ELSE [dma EXCEPT !.cnt = 0, !.addr = @ + 1]

DmaCooldown ==
    /\ dma.state = "COOLDOWN"
    /\ dma' = IF cpu.cycle.wr THEN dma ELSE [dma EXCEPT !.state = "READY"]

Dma == DmaReady \/ DmaRead \/ DmaWrite \/ DmaCooldown

\* The phase moves while the CPU is ready; the bus cycle changes at phase 0.
Cpu ==
    \E c \in IF rdy /\ cpu.phase = 0 THEN NextCycles ELSE {cpu.cycle} :
        cpu' = [ready |-> ready_in, cycle |-> c,
                phase |-> IF rdy THEN (cpu.phase + 1) % CycleLength ELSE cpu.phase]

Memory ==
    wram_q' = IF dma_active /\ dma.cnt < 2 /\ ~active THEN Page[dma.addr] ELSE Junk

\* made: accesses of the PPU by this CPU cycle; dmas, sent, start: DMAs of this
\* CPU cycle, bytes the last has written to sprite memory, and from where on.
History ==
    LET byCpu == ~active /\ ~dma_active
        byDma == ~active /\ dma_active
        new   == rdy /\ cpu.phase = 0
        begins == dma.state = "READY" /\ cpu.cycle.kind = "dma"
    IN log' = [made |-> IF new THEN 0
                        ELSE IF byCpu /\ Ppu!Evaluates(cpumc) /\ log.made < 2
                             THEN log.made + 1 ELSE log.made,
               dmas |-> IF new THEN 0
                        ELSE IF begins /\ log.dmas < 2 THEN log.dmas + 1 ELSE log.dmas,
               sent |-> IF begins THEN 0
                        ELSE IF byDma /\ Ppu!spr_ram_wr(cpumc) THEN log.sent + 1
                        ELSE log.sent,
               start |-> IF begins THEN ri.spr_ram_a ELSE log.start]

-----------------------------------------------------------------------------
\* The next byte of the host, while none waits.
HostBytes ==
    IF rx_q.items # <<>> THEN {}
    ELSE CASE h.state = "DECODE" -> Halted
           [] h.state = "DISABLED" -> Running
           [] h.state \in AddrCountStg0 /\ h.decode_cnt = 0 -> {a % Base : a \in Targets}
           [] h.state \in AddrCountStg0 /\ h.decode_cnt = 1 ->
                  {a \div Base : a \in {t \in Targets : t % Base = h.addr}}
           [] h.state \in AddrCountStg0 /\ h.decode_cnt = 2 -> {1}
           [] h.state \in AddrCountStg0 /\ h.decode_cnt > 2 -> {0}
           [] h.state \in MemWrStg1 -> {0}
           [] OTHER -> {}

Clock ==
    /\ \E rx \in HostBytes \cup {NoByte} :
          Edge(rx, tx_q.items # <<>>, FALSE, brk_out, 0)
    /\ Ppu!PpuClock(cpumc, FALSE)
    /\ Cpu /\ Dma /\ Memory /\ History

Init ==
    /\ HciInit
    /\ Ppu!PpuInit([a \in 0 .. Ppu!MemSize - 1 |-> 0], [a \in 0 .. HT - 1 |-> 0],
                   [a \in 0 .. OamSize - 1 |-> 0])
    /\ cpu = [phase |-> 1, ready |-> FALSE, cycle |-> Elsewhere]
    /\ dma = [state |-> "READY", addr |-> 0, cnt |-> 0, data |-> 0]
    /\ wram_q = Junk
    /\ log = [made |-> 0, dmas |-> 0, sent |-> 0, start |-> 0]

Next == Clock

Spec == Init /\ [][Next]_busVars

-----------------------------------------------------------------------------
(* Properties.                                                              *)
\* A CPU cycle that addresses the PPU makes one access ("This prevents executing
\* the same command multiple times", ppu_ri.v) and has made it when it ends
\* ("PPU snoops the CPU address bus for register reads/writes", nes_top.v).
AccessOnce ==
    /\ log.made <= 1
    /\ cpu.phase = 0 /\ cpu.cycle.kind = "ppu" => log.made = 1

\* A write of 0x4014 copies the page to sprite memory, from its pointer on,
\* in order, each byte once, and before the CPU goes on.
DmaCopies ==
    /\ dma.state = "ACTIVE" => log.sent = dma.addr
    /\ dma.state = "COOLDOWN" =>
          /\ log.sent = OamSize
          /\ \A i \in 0 .. OamSize - 1 : m_oam[(log.start + i) % OamSize] = Page[i]
    /\ log.dmas <= 1
    /\ cpu.phase = 0 /\ cpu.cycle.kind = "dma" => log.dmas = 1 /\ ~dma_active

\* A PPU_DISABLE packet leaves the PPU with interrupt and rendering off and the
\* next byte of 0x2005 and 0x2006 a first one ("disable PPU", dbgpacket.h).
DisableDisables ==
    [][h.state = "PPU_DISABLE" /\ h'.state = "DECODE" =>
          ~ri'.nvbl_en /\ ~ri'.rendering /\ ~ri'.byte_sel]_busVars

\* A packet that reads or writes PPU memory leaves the PPU's registers and
\* counters alone ("read PPU memory", dbgpacket.h).
PpuMemLeavesRegs ==
    [][h.state \in {"PPU_MEM_RD_STG_0", "PPU_MEM_RD_STG_1",
                    "PPU_MEM_WR_STG_0", "PPU_MEM_WR_STG_1"} =>
          /\ cntrs' = IF ri.upd_cntrs THEN Ppu!Latches(ri) ELSE cntrs
          /\ ri'.byte_sel = ri.byte_sel /\ ri'.cpu_d_out = ri.cpu_d_out]_busVars
=============================================================================
