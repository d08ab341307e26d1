------------------------------- MODULE PpuRi -------------------------------
(***************************************************************************)
(* The register interface of the PPU (ppu/ppu_ri.v) with what it works on:  *)
(* the scroll counters of ppu_bg.v, the block RAM behind the PPU's address  *)
(* bus, the palette RAM of ppu.v and the sprite RAM of ppu_spr.v.  One step *)
(* per clock edge; bus is what the CPU's address and data lines show in the *)
(* cycle: ncs and r_nw, the register sel and the byte written, d.  Nothing  *)
(* is rendered, so the address is the counters' (VRAM_A_SEL_RI).            *)
(*                                                                         *)
(* Abstractions: the digits of an address have the sizes FV, NV, NH,        *)
(* VTHI*VTLO and HT (4, 2, 2, 4*8 and 32 in the code, where a fine scroll   *)
(* is one bit more); a byte for 0x2000 or 0x2005 is a record of its fields, *)
(* any other a number.  The fine horizontal scroll, the pattern table and   *)
(* sprite settings, and the sprite bits of 0x2002, which the registers only *)
(* pass on, are left out, and so is the mirroring of name tables in cart.v. *)
(***************************************************************************)
EXTENDS Integers

CONSTANTS FV, NV, NH, VTHI, VTLO, HT, Colours, OamSize

ASSUME PpuAssumption ==
    /\ {FV, NV, NH, VTHI, VTLO, HT, Colours, OamSize} \subseteq Nat \ {0}
    /\ HT % (2 * Colours) = 0

VARIABLES
    ri,             \* the q_ registers of ppu_ri.v
    cntrs,          \* q_fvc, q_vc, q_hc, q_vtc, q_htc
    ram, ram_a,     \* the memory behind the address bus, its address register
    palette_ram, m_oam

ppuVars == <<ri, cntrs, ram, ram_a, palette_ram, m_oam>>

VT == VTHI * VTLO
MemSize == FV * NV * NH * VT * HT

Scrolls == [fv : 0 .. 2 * FV - 1, v : 0 .. NV - 1, h : 0 .. NH - 1,
            vt : 0 .. VT - 1, ht : 0 .. HT - 1]

Latches(r) == [fv |-> r.fv, v |-> r.v, h |-> r.h, vt |-> r.vt, ht |-> r.ht]

\* { q_fvc, q_vc, q_hc, q_vtc, q_htc } and back.
Number(c) == (((c.fv * NV + c.v) * NH + c.h) * VT + c.vt) * HT + c.ht
Fields(n) == [fv |-> (n \div (HT * VT * NH * NV)) % (2 * FV),
              v  |-> (n \div (HT * VT * NH)) % NV,
              h  |-> (n \div (HT * VT)) % NH,
              vt |-> (n \div HT) % VT,
              ht |-> n % HT]

vram_a == Number(cntrs) % MemSize       \* without the top bit of q_fvc
vram_d_in == ram[ram_a]

\* vram_a[13:8] == 6'h3F, PRAM_A(vram_a[4:0])
InPram == /\ cntrs.fv % FV = FV - 1 /\ cntrs.v = NV - 1 /\ cntrs.h = NH - 1
          /\ cntrs.vt \div VTLO = VTHI - 1
PramA(a) == IF a % Colours # 0 THEN a ELSE a % (HT \div 2)
pram_d_in == palette_ram[PramA(cntrs.ht)]

-----------------------------------------------------------------------------
(* The cycle of an access: only where the chip select has just fallen.      *)
WhileSelected(bus) == ~bus.ncs
Evaluates(bus) == ri.ncs_in /\ ~bus.ncs
Reads(bus, reg) == Evaluates(bus) /\ bus.r_nw /\ bus.sel = reg
Writes(bus, reg) == Evaluates(bus) /\ ~bus.r_nw /\ bus.sel = reg

inc_addr(bus) == Reads(bus, 7) \/ Writes(bus, 7)
pram_wr(bus) == Writes(bus, 7) /\ InPram
vram_wr(bus) == Writes(bus, 7) /\ ~InPram
spr_ram_wr(bus) == Writes(bus, 4)

\* What every cycle does to the registers, access or not.
VblankLevel(bus, vblank_in) ==
    [ri EXCEPT !.rd_buf = IF ri.rd_rdy THEN vram_d_in ELSE @,
               !.rd_rdy = FALSE, !.upd_cntrs = FALSE, !.vblank = vblank_in,
               !.ncs_in = bus.ncs, !.vblank_in = vblank_in]
Default(bus, vblank_in) ==
    [ri EXCEPT !.rd_buf = IF ri.rd_rdy THEN vram_d_in ELSE @,
               !.rd_rdy = FALSE,
               !.upd_cntrs = FALSE,
               !.vblank = vblank_in /\ (@ \/ ~ri.vblank_in),
               !.ncs_in = bus.ncs,
               !.vblank_in = vblank_in]

ReadStatus(r) ==
    [r EXCEPT !.cpu_d_out = IF ri.vblank THEN 1 ELSE 0,
              !.byte_sel = FALSE, !.vblank = FALSE]

ReadOam(r) == [r EXCEPT !.cpu_d_out = m_oam[ri.spr_ram_a]]

ReadData(r) ==
    [r EXCEPT !.cpu_d_out = IF InPram THEN pram_d_in ELSE ri.rd_buf,
              !.rd_rdy = TRUE]

WriteCtrl(r, d) ==
    [r EXCEPT !.nvbl_en = d.nmi, !.addr_incr = d.rows,
              !.v = d.tables \div NH, !.h = d.tables % NH]

WriteMask(r, d) == [r EXCEPT !.rendering = (d # 0)]     \* spr_en or bg_en

WriteOamAddr(r, d) == [r EXCEPT !.spr_ram_a = d % OamSize]

WriteOam(r) == [r EXCEPT !.spr_ram_a = (@ + 1) % OamSize]

WriteScroll(r, d) ==
    IF ri.byte_sel
    THEN [r EXCEPT !.byte_sel = FALSE, !.fv = d.fine % (2 * FV), !.vt = d.tile % VT]
    ELSE [r EXCEPT !.byte_sel = TRUE, !.ht = d.tile % HT]

AddrKeepsFine(r, d) ==
    IF ri.byte_sel
    THEN [r EXCEPT !.byte_sel = FALSE, !.upd_cntrs = TRUE,
                   !.vt = (@ - (@ % VTLO)) + ((d \div HT) % VTLO), !.ht = d % HT]
    ELSE LET fvh == d \div VTHI
         IN [r EXCEPT !.byte_sel = TRUE,
                      !.fv = (@ - (@ % FV)) + ((fvh \div (NV * NH)) % FV),
                      !.v = (fvh \div NH) % NV, !.h = fvh % NH,
                      !.vt = (d % VTHI) * VTLO + (@ % VTLO)]
WriteAddr(r, d) ==
    IF ri.byte_sel
    THEN [r EXCEPT !.byte_sel = FALSE,
                   !.vt = (@ - (@ % VTLO)) + ((d \div HT) % VTLO),
                   !.ht = d % HT,
                   !.upd_cntrs = TRUE]
    ELSE LET fvh == d \div VTHI         \* cpu_d_in[5:2]
         IN [r EXCEPT !.byte_sel = TRUE,
                      !.fv = (fvh \div (NV * NH)) % FV,
                      !.v = (fvh \div NH) % NV,
                      !.h = fvh % NH,
                      !.vt = (d % VTHI) * VTLO + (@ % VTLO)]

\* The registers after the cycle.
Next_ri(bus, vblank_in) ==
    LET r == Default(bus, vblank_in)
    IN CASE Reads(bus, 2)  -> ReadStatus(r)
         [] Reads(bus, 4)  -> ReadOam(r)
         [] Reads(bus, 7)  -> ReadData(r)
         [] Writes(bus, 0) -> WriteCtrl(r, bus.d)
         [] Writes(bus, 1) -> WriteMask(r, bus.d)
         [] Writes(bus, 3) -> WriteOamAddr(r, bus.d)
         [] Writes(bus, 4) -> WriteOam(r)
         [] Writes(bus, 5) -> WriteScroll(r, bus.d)
         [] Writes(bus, 6) -> WriteAddr(r, bus.d)
         [] OTHER          -> r

-----------------------------------------------------------------------------
\* The counters after the cycle: an access of 0x2007 advances them, and two
\* writes of 0x2006 load them a cycle later.
NextRow == Fields(Number(cntrs) + HT)
NextByteNoCarry == [cntrs EXCEPT !.ht = @ + 1]
NextByte == Fields(Number(cntrs) + 1)
RowForByte(bus) == IF inc_addr(bus) THEN NextByte
                   ELSE IF ri.upd_cntrs THEN Latches(ri) ELSE cntrs
Next_cntrs(bus) ==
    IF inc_addr(bus) THEN IF ri.addr_incr THEN NextRow ELSE NextByte
    ELSE IF ri.upd_cntrs THEN Latches(ri)
    ELSE cntrs

\* posedge clk_in
PpuClock(bus, vblank_in) ==
    /\ ri' = Next_ri(bus, vblank_in)
    /\ cntrs' = Next_cntrs(bus)
    /\ ram' = IF vram_wr(bus) THEN [ram EXCEPT ![vram_a] = bus.d] ELSE ram
    /\ ram_a' = vram_a
    /\ palette_ram' = IF pram_wr(bus)
                      THEN [palette_ram EXCEPT ![PramA(cntrs.ht)] = bus.d]
                      ELSE palette_ram
    /\ m_oam' = IF spr_ram_wr(bus)
                THEN [m_oam EXCEPT ![ri.spr_ram_a] = bus.d] ELSE m_oam

ResetRi == [fv |-> 0, v |-> 0, h |-> 0, vt |-> 0, ht |-> 0,
            nvbl_en |-> FALSE, addr_incr |-> FALSE, rendering |-> FALSE,
            vblank |-> FALSE, byte_sel |-> FALSE,
            rd_buf |-> 0, rd_rdy |-> FALSE, upd_cntrs |-> FALSE,
            spr_ram_a |-> 0, cpu_d_out |-> 0,
            ncs_in |-> TRUE, vblank_in |-> FALSE]

PpuInit(word, colour, sprite) ==
    /\ ri = ResetRi
    /\ cntrs = Fields(0)
    /\ ram = word /\ ram_a = 0
    /\ palette_ram = colour
    /\ m_oam = sprite
=============================================================================
