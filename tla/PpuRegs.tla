------------------------------ MODULE PpuRegs ------------------------------
(***************************************************************************)
(* The register interface of PpuRi driven by a program.  A CPU cycle is     *)
(* CycleLength clocks long (56 in cpu.v), and its address and data stay on  *)
(* the bus throughout.  Two cycles in a row never both address the PPU,     *)
(* whose chip select would not rise between them, and the vertical blank    *)
(* comes and goes at any clock.  Otherwise the program makes any of its     *)
(* Accesses in any order.                                                   *)
(***************************************************************************)
EXTENDS PpuRi

CONSTANTS CycleLength, Accesses, Blanks, RamInit, PaletteInit

\* A program reads and writes any register, but turns rendering on with none.
ReadCycles   == [reg : 0 .. 7, wr : {FALSE}]
CtrlWrites   == [reg : {0}, wr : {TRUE}, nmi : BOOLEAN, rows : BOOLEAN,
                 tables : 0 .. NV * NH - 1]
MaskWrites   == [reg : {1}, wr : {TRUE}, d : {0}]
ScrollWrites == [reg : {5}, wr : {TRUE}, tile : Nat, fine : Nat]
ByteWrites   == [reg : {2, 3, 4, 6, 7}, wr : {TRUE}, d : Nat]

ASSUME RegsAssumption ==
    /\ CycleLength \in Nat /\ CycleLength >= 3
    /\ Accesses \subseteq ReadCycles \cup CtrlWrites \cup MaskWrites
                          \cup ScrollWrites \cup ByteWrites
    /\ Blanks \subseteq BOOLEAN /\ FALSE \in Blanks
    /\ DOMAIN RamInit = 0 .. MemSize - 1 /\ DOMAIN PaletteInit = 0 .. HT - 1

VARIABLES
    cycle,      \* the access of the current CPU cycle, or NoCycle
    phase,      \* its clock, q_clk_phase
    blank       \* vblank_in

vars == <<ppuVars, cycle, phase, blank>>

NoCycle == [reg |-> 0, wr |-> FALSE]    \* somewhere else in memory

Bus == [ncs |-> cycle = NoCycle, r_nw |-> ~cycle.wr, sel |-> cycle.reg,
        d |-> IF "d" \in DOMAIN cycle THEN cycle.d ELSE cycle]

Init ==
    /\ PpuInit(RamInit, PaletteInit, [a \in 0 .. OamSize - 1 |-> 0])
    /\ cycle = NoCycle /\ phase = 0 /\ blank = FALSE

\* The last clock of a cycle: the program goes on to its next.
NextCycle ==
    cycle' \in IF cycle = NoCycle THEN Accesses \cup {NoCycle} ELSE {NoCycle}

Clock ==
    /\ PpuClock(Bus, blank)
    /\ phase' = (phase + 1) % CycleLength
    /\ IF phase = CycleLength - 1 THEN NextCycle ELSE UNCHANGED cycle
    /\ blank' \in Blanks

Next == Clock

Spec == Init /\ [][Next]_vars

-----------------------------------------------------------------------------
(* Properties.                                                              *)
TypeOK ==
    /\ Latches(ri) \in Scrolls /\ cntrs \in Scrolls
    /\ {ri.nvbl_en, ri.addr_incr, ri.rendering, ri.vblank, ri.byte_sel,
        ri.rd_rdy, ri.upd_cntrs, ri.ncs_in, ri.vblank_in, blank} \subseteq BOOLEAN
    /\ ri.spr_ram_a \in 0 .. OamSize - 1
    /\ ram_a \in DOMAIN ram /\ DOMAIN ram = 0 .. MemSize - 1
    /\ DOMAIN palette_ram = 0 .. HT - 1 /\ DOMAIN m_oam = 0 .. OamSize - 1
    /\ phase \in 0 .. CycleLength - 1

\* The registers, counters and memories implement PpuPort.  While a word of
\* 0x2007 is on its way it is the one the block RAM shows, and while the
\* counters are to be loaded their value is that of the latches.
Port == INSTANCE PpuPort WITH
    scroll <- Number(Latches(ri)),
    addr <- Number(IF ri.upd_cntrs THEN Latches(ri) ELSE cntrs),
    second <- ri.byte_sel,
    ahead <- IF ri.rd_rdy THEN vram_d_in ELSE ri.rd_buf,
    by_row <- ri.addr_incr,
    nmi_on <- ri.nvbl_en,
    in_blank <- ri.vblank_in, flag <- ri.vblank,
    mem <- ram, palette <- palette_ram, oam <- m_oam, oam_addr <- ri.spr_ram_a,
    answer <- ri.cpu_d_out

\* The fields, latches and delays of the code amount to the port's two
\* numbers and immediate answers, whatever the vertical blank does meanwhile.
PortSpec == Port!Spec

\* "Only evaluate RI reads/writes on /CS falling edges": a CPU cycle of many
\* clocks makes its access in the first and leaves everything alone in the
\* others, and so do cycles elsewhere.
ExecutedOnce ==
    [][IF phase = 0 /\ cycle # NoCycle THEN Port!Do(cycle) ELSE Port!NoAccess]_vars
=============================================================================
