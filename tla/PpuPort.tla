------------------------------ MODULE PpuPort ------------------------------
(***************************************************************************)
(* What the registers 0x2000 .. 0x2007 of the PPU promise a program that    *)
(* uses them while nothing is rendered: one step per access.  The scroll    *)
(* position and the memory address are each one number, as the comment on   *)
(* the daisy-chained counters in ppu_bg.v has it, and a read of 0x2007      *)
(* answers at once with the word the previous one asked for.  PpuRegs,      *)
(* which has the fields, latches and delays of the code, implements this.   *)
(*                                                                         *)
(* A number is, from its top digit, fine vertical scroll, vertical and      *)
(* horizontal name table, vertical and horizontal tile: digits of base      *)
(* 2*FV, NV, NH, VTHI*VTLO and HT (8, 2, 2, 4*8 and 32 in the code), of     *)
(* which the memory address has all but the top bit.                        *)
(***************************************************************************)
EXTENDS Integers

CONSTANTS FV, NV, NH, VTHI, VTLO, HT,   \* sizes of the digits
          Colours,                      \* in one palette (4 in the code)
          OamSize,                      \* bytes of sprite memory
          Accesses                      \* what the program may do, see Do

VARIABLES
    scroll,     \* what 0x2000, 0x2005 and 0x2006 have set so far
    addr,       \* the address of 0x2007
    second,     \* the next byte for 0x2005 or 0x2006 is a second one
    ahead,      \* the word the next read of 0x2007 answers with
    by_row,     \* 0x2007 advances by a row, not by one
    nmi_on,     \* 0x2000 has enabled the interrupt
    in_blank, flag,     \* the vertical blank, and bit 7 of 0x2002
    mem, palette, oam, oam_addr,
    answer      \* of the last read

portVars == <<scroll, addr, second, ahead, by_row, nmi_on, in_blank, flag,
              mem, palette, oam, oam_addr, answer>>

Row == HT
NameTable == VTHI * VTLO * Row
Fine == NV * NH * NameTable
Total == 2 * FV * Fine
Page == VTLO * HT               \* what the second byte of 0x2006 selects
MemSize == Total \div 2
PaletteSize == HT

InPalette(a) == a % MemSize >= MemSize - Page

\* Every palette's first colour in the upper half is the one in the lower.
Colour(a) == LET c == a % PaletteSize
             IN IF c % Colours = 0 THEN c % (PaletteSize \div 2) ELSE c

-----------------------------------------------------------------------------
\* The number n with the digit of weight w and base b replaced by d.
SetDigit(n, w, b, d) == n + ((d % b) - ((n \div w) % b)) * w

Flip == second' = ~second
Advance == addr' = (addr + (IF by_row THEN Row ELSE 1)) % Total

(* An access is a record with the register, reg, whether it is a write, wr,  *)
(* and the fields of the byte written that the register takes.              *)
WriteCtrl(a) ==
    /\ a.wr /\ a.reg = 0
    /\ nmi_on' = a.nmi
    /\ by_row' = a.rows
    /\ scroll' = SetDigit(scroll, NameTable, NV * NH, a.tables)
    /\ UNCHANGED <<addr, second, ahead, mem, palette, oam, oam_addr, answer>>

ReadStatus(a) ==
    /\ ~a.wr /\ a.reg = 2
    /\ answer' = IF flag THEN 1 ELSE 0
    /\ second' = FALSE
    /\ UNCHANGED <<scroll, addr, ahead, by_row, nmi_on, mem, palette, oam, oam_addr>>

WriteOamAddr(a) ==
    /\ a.wr /\ a.reg = 3
    /\ oam_addr' = a.d % OamSize
    /\ UNCHANGED <<scroll, addr, second, ahead, by_row, nmi_on, mem, palette, oam, answer>>

ReadOam(a) ==
    /\ ~a.wr /\ a.reg = 4
    /\ answer' = oam[oam_addr]
    /\ UNCHANGED <<scroll, addr, second, ahead, by_row, nmi_on, mem, palette, oam, oam_addr>>

WriteOam(a) ==
    /\ a.wr /\ a.reg = 4
    /\ oam' = [oam EXCEPT ![oam_addr] = a.d]
    /\ oam_addr' = (oam_addr + 1) % OamSize
    /\ UNCHANGED <<scroll, addr, second, ahead, by_row, nmi_on, mem, palette, answer>>

WriteScroll(a) ==
    /\ a.wr /\ a.reg = 5
    /\ Flip
    /\ scroll' = IF second
                 THEN SetDigit(SetDigit(scroll, Fine, 2 * FV, a.fine),
                               Row, VTHI * VTLO, a.tile)
                 ELSE SetDigit(scroll, 1, Row, a.tile)
    /\ UNCHANGED <<addr, ahead, by_row, nmi_on, mem, palette, oam, oam_addr, answer>>

\* The first byte clears the top bit of the fine scroll.
WriteAddr(a) ==
    /\ a.wr /\ a.reg = 6
    /\ Flip
    /\ scroll' = IF second THEN SetDigit(scroll, 1, Page, a.d)
                 ELSE SetDigit(scroll, Page, Total \div Page, a.d % (MemSize \div Page))
    /\ addr' = IF second THEN scroll' ELSE addr
    /\ UNCHANGED <<ahead, by_row, nmi_on, mem, palette, oam, oam_addr, answer>>

ReadData(a) ==
    /\ ~a.wr /\ a.reg = 7
    /\ answer' = IF InPalette(addr) THEN palette[Colour(addr)] ELSE ahead
    /\ ahead' = mem[addr % MemSize]
    /\ Advance
    /\ UNCHANGED <<scroll, second, by_row, nmi_on, mem, palette, oam, oam_addr>>

WriteData(a) ==
    /\ a.wr /\ a.reg = 7
    /\ IF InPalette(addr)
       THEN palette' = [palette EXCEPT ![Colour(addr)] = a.d] /\ UNCHANGED mem
       ELSE mem' = [mem EXCEPT ![addr % MemSize] = a.d] /\ UNCHANGED palette
    /\ Advance
    /\ UNCHANGED <<scroll, second, ahead, by_row, nmi_on, oam, oam_addr, answer>>

NoAccess == UNCHANGED <<scroll, addr, second, ahead, by_row, nmi_on, mem,
                        palette, oam, oam_addr, answer>>

\* What cannot be read or written; and 0x2001 shows in the picture only.
Ignored(a) ==
    /\ IF a.wr THEN a.reg \in {1, 2} ELSE a.reg \notin {2, 4, 7}
    /\ NoAccess

Do(a) ==
    \/ WriteCtrl(a)    \/ ReadStatus(a)  \/ WriteOamAddr(a)
    \/ ReadOam(a)      \/ WriteOam(a)    \/ WriteScroll(a)
    \/ WriteAddr(a)    \/ ReadData(a)    \/ WriteData(a)
    \/ Ignored(a)

-----------------------------------------------------------------------------
\* The flag rises with the blank and falls with it; a read of the status
\* clears it, and one at the very moment it rises suppresses it.
Blank(polled) ==
    flag' = (in_blank' /\ ~polled /\ (flag \/ ~in_blank))

Init ==
    /\ scroll = 0 /\ addr = 0 /\ ~second /\ ahead = 0 /\ answer = 0
    /\ ~by_row /\ ~nmi_on /\ ~in_blank /\ ~flag
    /\ oam_addr = 0

Next ==
    /\ in_blank' \in BOOLEAN
    /\ \/ NoAccess /\ Blank(FALSE)
       \/ \E a \in Accesses : Do(a) /\ Blank(a.reg = 2 /\ ~a.wr)

Spec == Init /\ [][Next]_portVars
=============================================================================
