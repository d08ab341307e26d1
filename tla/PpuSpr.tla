------------------------------- MODULE PpuSpr -------------------------------
(***************************************************************************)
(* The sprites of the PPU (ppu_spr.v) under the counters of the screen      *)
(* (ppu_vga.v, vga_sync.v).  While a line is shown, the objects of the next *)
(* one are looked for, the first Slots of them; after it their patterns are *)
(* fetched; and in the next line each slot shifts its pattern out from its  *)
(* x on.  The screen shows every line of the NES twice.                     *)
(*                                                                         *)
(* A step is one dot, nes_x_in: registers are as they are when pix_pulse_in *)
(* is due.  Dots 0 to Width - 1 are visible (256); each slot has four dots  *)
(* of fetching (of two nes_x each); then comes the dot in which the count   *)
(* is reset (320), and one for all that follow.  A pattern is the row of a  *)
(* tile, wherever its two planes lie in memory.  The program may enable and *)
(* disable sprites and write objects at any dot; this counts from the next  *)
(* dot on.                                                                 *)
(***************************************************************************)
EXTENDS Integers, Sequences, FiniteSets

CONSTANTS
    Objs, Slots,    \* objects in OAM, 64, and those of a line, 8
    Wide, High,     \* dots and lines of an object: 8, and 8 or 16
    Rows, Lines,    \* lines that have sprites, 239; lines of the screen, 525
    Byte,           \* 256
    Border,         \* lines that are not seen at the top, 8
    Clip,           \* dots without sprites at the left: 0 or 8
    Pattern,        \* tile -> row -> plane -> bits, the leftmost first
    Oams,           \* what OAM holds at first
    Objects,        \* what the program may write to it
    MaxChanges      \* bound: how often the program changes anything

ASSUME SprAssumption ==
    /\ Objs \in Nat \ {0} /\ Slots \in Nat \ {0} /\ Rows \in Nat
    /\ Lines \in Nat \ {0} /\ Oams # {}

\* The rest of a line is long enough for a shift register to run empty; a line
\* before the first that is seen has sprites, too; an x is one of a dot.
ASSUME ScreenAssumption ==
    /\ Wide \in Nat \ {0} /\ Wide <= 4 * Slots /\ Border \in Nat \ {0}
    /\ \A oam \in Oams : DOMAIN oam = 0 .. Objs - 1 /\ \A i \in DOMAIN oam : oam[i].x \in Nat
    /\ \A o \in Objects : o.x \in Nat

VARIABLES
    line, x,        \* sync_y and the dot
    en,             \* en_in
    m_oam,
    in_rng_cnt, spr_overflow, m_stm,    \* evaluation
    pd0, pd1, m_sbm,                    \* fetch
    shift,          \* per slot the pixels of q_objN_pd1_shift and q_objN_pd0_shift
    reset,          \* history: were sprites enabled when the count was last to be reset?
    quiet,          \* history: lines, up to 2, since the program changed something
    changes         \* history: how often it has

evaluation == <<in_rng_cnt, m_stm>>
buffers == <<pd0, pd1, m_sbm>>
vars == <<line, x, en, m_oam, evaluation, spr_overflow, buffers, shift, reset, quiet, changes>>

Width    == 4 * Objs
ResetDot == Width + 4 * Slots
LastDot  == ResetDot + 1

nes_y(l)      == l \div 2
nes_y_next(l) == ((l + 1) % Lines) \div 2

NextLine == (line + 1) % Lines
Blank == [k \in 1 .. Wide |-> 0]
Empty == [primary |-> FALSE, priority |-> FALSE, ps |-> 0, pixels |-> Blank, x |-> 0]

-----------------------------------------------------------------------------
(* In-range evaluation, for the line that comes next.                       *)
\* Eight bits: an object at 255 begins in row 0.
oam_rd_y(o) == (o.y + 1) % Byte
rng_cmp_res(o, y) == y - oam_rd_y(o)
in_rng(o, y) == rng_cmp_res(o, y) \in 0 .. High - 1

StmEntry(i, y) ==
    LET o == m_oam[i]
        r == rng_cmp_res(o, y)
    IN  [primary |-> i = 0, tile |-> o.tile, x |-> o.x, ps |-> o.ps,
         priority |-> o.priority, h_inv |-> o.h_inv,
         row |-> IF o.v_inv THEN High - 1 - r ELSE r]

Evaluating == en /\ nes_y_next(line) < Rows
Object     == x \div 4
ObjectDue  == Evaluating /\ x < Width /\ x % 4 = 0

\* Slip: the limit is forgotten.
FitsAlways == in_rng(m_oam[Object], nes_y_next(line))
Fits       == in_rng(m_oam[Object], nes_y_next(line)) /\ in_rng_cnt # Slots

ResetCount ==
    /\ Evaluating /\ x = ResetDot
    /\ in_rng_cnt' = 0 /\ UNCHANGED m_stm

TakeObject ==
    /\ ObjectDue /\ Fits
    /\ m_stm' = [m_stm EXCEPT ![in_rng_cnt % Slots] = StmEntry(Object, nes_y_next(line))]
    /\ in_rng_cnt' = in_rng_cnt + 1

Evaluate ==
    \/ ResetCount \/ TakeObject
    \/ ~(Evaluating /\ x = ResetDot) /\ ~(ObjectDue /\ Fits) /\ UNCHANGED evaluation

\* Cleared at the start of the frame, else set as soon as the count is full.
Overflow(l, d) == spr_overflow' = IF nes_y_next(l) = 0 /\ d = 0 THEN FALSE
                                  ELSE spr_overflow \/ in_rng_cnt' = Slots

-----------------------------------------------------------------------------
(* Pattern fetch, at dot d of line l.                                       *)
Slot(d) == (d - Width) \div 4
Stage(d) == (d - Width) % 4
Fetching(l, d) == en /\ nes_y_next(l) < Rows /\ d \in Width .. ResetDot - 1

\* A shift register puts out its lowest bit first, vram has the leftmost highest.
FromVram(s, plane) ==
    LET bits == Pattern[m_stm[s].tile][m_stm[s].row][plane]
    IN  IF m_stm[s].h_inv THEN [k \in 1 .. Wide |-> bits[Wide + 1 - k]] ELSE bits

SbmEntry(s) == [primary |-> m_stm[s].primary, priority |-> m_stm[s].priority, ps |-> m_stm[s].ps,
                pixels |-> [k \in 1 .. Wide |-> 2 * pd1[k] + pd0[k]], x |-> m_stm[s].x]

FetchObject(s, stage) ==
    /\ pd0' = IF stage = 0 THEN FromVram(s, 0) ELSE pd0
    /\ pd1' = IF stage = 1 THEN FromVram(s, 1) ELSE pd1
    /\ m_sbm' = IF stage = 2 THEN [m_sbm EXCEPT ![s] = SbmEntry(s)] ELSE m_sbm

\* Slip: a slot without an object keeps what it had.
EmptySlotKept(s) == UNCHANGED buffers
EmptySlot(s)     == m_sbm' = [m_sbm EXCEPT ![s] = Empty] /\ UNCHANGED <<pd0, pd1>>

Fetch(l, d) ==
    \/ ~Fetching(l, d) /\ UNCHANGED buffers
    \/ Fetching(l, d) /\ Slot(d) <  in_rng_cnt /\ FetchObject(Slot(d), Stage(d))
    \/ Fetching(l, d) /\ Slot(d) >= in_rng_cnt /\ EmptySlot(Slot(d))

-----------------------------------------------------------------------------
(* Output.                                                                  *)
Outputs(l) == en /\ nes_y(l) < Rows
Shifted(p) == Append(Tail(p), 0)

\* The pulse of the last dot shifts; a slot whose x the next dot has is loaded.
Shift(l, d) ==
    shift' = [s \in 0 .. Slots - 1 |->
        IF Outputs(l) /\ d < Width /\ m_sbm[s].x = d THEN m_sbm[s].pixels
        ELSE IF Outputs(line) THEN Shifted(shift[s]) ELSE shift[s]]

\* primary_out, priority_out and palette_idx_out.
Transparent == [primary |-> FALSE, priority |-> FALSE, ps |-> 0, pd |-> 0]

Opaque == {s \in 0 .. Slots - 1 : shift[s][1] # 0}

Pixel ==
    IF ~en \/ x < Clip \/ Opaque = {} THEN Transparent
    ELSE LET s == CHOOSE t \in Opaque : \A u \in Opaque : t <= u
         IN  [primary |-> m_sbm[s].primary, priority |-> m_sbm[s].priority,
              ps |-> m_sbm[s].ps, pd |-> shift[s][1]]

-----------------------------------------------------------------------------
Dot ==
    LET d == IF x = LastDot THEN 0 ELSE x + 1
        l == IF x = LastDot THEN NextLine ELSE line
    IN  /\ x' = d /\ line' = l
        /\ Evaluate
        /\ Overflow(l, d)
        /\ Fetch(l, d)
        /\ Shift(l, d)
        /\ reset' = IF x = ResetDot /\ nes_y_next(line) < Rows THEN en ELSE reset
        /\ quiet' = IF d # 0 THEN quiet
                    ELSE IF ~(reset /\ en) THEN 0
                    ELSE IF quiet = 2 THEN 2 ELSE quiet + 1
        /\ UNCHANGED <<en, m_oam, changes>>

\* Writes of 0x2001, and of 0x2004 one after another.
Program ==
    /\ changes < MaxChanges /\ changes' = changes + 1
    /\ \/ en' = ~en /\ UNCHANGED m_oam
       \/ \E i \in DOMAIN m_oam, o \in Objects :
             m_oam' = [m_oam EXCEPT ![i] = o] /\ UNCHANGED en
    /\ quiet' = 0
    /\ UNCHANGED <<line, x, evaluation, spr_overflow, buffers, shift, reset>>

Init ==
    /\ line = 0 /\ x = 0 /\ en = TRUE /\ m_oam \in Oams
    /\ in_rng_cnt = 0 /\ spr_overflow = FALSE
    /\ m_stm = [s \in 0 .. Slots - 1 |-> Empty]
    /\ pd0 = Blank /\ pd1 = Blank
    /\ m_sbm = [s \in 0 .. Slots - 1 |-> Empty]
    /\ shift = [s \in 0 .. Slots - 1 |-> Blank]
    /\ reset = TRUE /\ quiet = 0 /\ changes = 0

Next == Dot \/ Program

Spec == Init /\ [][Next]_vars

-----------------------------------------------------------------------------
(* Properties.                                                              *)
InRow(y) == {i \in 0 .. Objs - 1 : in_rng(m_oam[i], y)}

\* The first Slots objects of a row, in the order of OAM.
Chosen(y) == {i \in InRow(y) : Cardinality({j \in InRow(y) : j < i}) < Slots}

\* What object i has at a dot of a row.
Colour(i, y, d) ==
    LET o == m_oam[i]
        c == IF o.h_inv THEN Wide - (d - o.x) ELSE d - o.x + 1
        r == IF o.v_inv THEN High - 1 - rng_cmp_res(o, y) ELSE rng_cmp_res(o, y)
    IN  IF d - o.x \in 0 .. Wide - 1
        THEN 2 * Pattern[o.tile][r][1][c] + Pattern[o.tile][r][0][c] ELSE 0

Picture(y, d) ==
    LET visible == {i \in Chosen(y) : Colour(i, y, d) # 0}
        i == CHOOSE j \in visible : \A k \in visible : j <= k
    IN  IF d < Clip \/ visible = {} THEN Transparent
        ELSE [primary |-> i = 0, priority |-> m_oam[i].priority, ps |-> m_oam[i].ps,
              pd |-> Colour(i, y, d)]

\* Every dot of a line shows the object that comes first in OAM of those that
\* have a pixel there, and no more than eight of a line: on the way from OAM to
\* the screen there are three memories, of which each is filled for the next
\* line while it is read for this one.  (Behind the border, the first line of a
\* frame may begin with what was left of an object when sprites were disabled.)
SpritesShown ==
    quiet = 2 /\ x < Width /\ nes_y(line) \in Border .. Rows - 1
        => Pixel = Picture(nes_y(line), x)

\* What the temporary memory holds of the objects looked at so far: those in
\* range, in the order of OAM, and none left out before the memory is full.
Scanned == {i \in 0 .. Objs - 1 : 4 * i < x}
Holds(f, y) ==
    /\ \A k \in DOMAIN f : m_stm[k] = StmEntry(f[k], y) /\ f[k] \in Scanned \cap InRow(y)
    /\ \A k, m \in DOMAIN f : k < m => f[k] < f[m]
    /\ \A i \in Scanned \cap InRow(y) :
          \/ \E k \in DOMAIN f : f[k] = i
          \/ in_rng_cnt = Slots /\ \A k \in DOMAIN f : f[k] < i
FirstInRange ==
    quiet > 0 /\ x <= ResetDot /\ nes_y_next(line) < Rows
        => /\ in_rng_cnt <= Slots
           /\ \E f \in [0 .. in_rng_cnt - 1 -> 0 .. Objs - 1] : Holds(f, nes_y_next(line))

\* "set the flag if any scanline in this frame has intersected more than 8 sprites"
OverflowMeansMore ==
    changes = 0 /\ spr_overflow => \E y \in 0 .. Rows - 1 : Cardinality(InRow(y)) > Slots
=============================================================================
