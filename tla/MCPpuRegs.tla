----------------------------- MODULE MCPpuRegs -----------------------------
(***************************************************************************)
(* Two programs for PpuRegs.  The first sets the scroll position and the    *)
(* address in every way and reads, the memory holding at each address a     *)
(* word of its own.  The second polls the vertical blank, which comes and   *)
(* goes at any clock, and works on memory, palette and sprite memory.  Each *)
(* leaves out the accesses that the other is about, so that it is small     *)
(* enough.                                                                  *)
(***************************************************************************)
EXTENDS PpuRegs

Read(reg) == [reg |-> reg, wr |-> FALSE]
Write(reg, d) == [reg |-> reg, wr |-> TRUE, d |-> d]

PollStatus == {Read(2)}
Ignoring == {Read(0), Write(1, 0), Write(2, 1)}
SetAddr == {Write(6, d) : d \in 0 .. (IF FV * NV * NH * VTHI > VTLO * HT
                                      THEN FV * NV * NH * VTHI ELSE VTLO * HT) - 1}
SetCtrl == {[reg |-> 0, wr |-> TRUE, nmi |-> b, rows |-> b, tables |-> t] :
                b \in BOOLEAN, t \in 0 .. NV * NH - 1}
SetScroll == {[reg |-> 5, wr |-> TRUE, tile |-> t, fine |-> f] :
                t \in 0 .. VT - 1, f \in 0 .. 2 * FV - 1}

ReadingAccesses == Ignoring \cup PollStatus \cup SetAddr \cup SetCtrl \cup SetScroll \cup {Read(7)}
MemoryAccesses == PollStatus \cup SetAddr \cup {Read(4), Read(7)}
                     \cup {Write(3, a) : a \in 0 .. OamSize - 1}
                     \cup {Write(reg, d) : reg \in {4, 7}, d \in {0, 1}}

Addresses == [a \in 0 .. MemSize - 1 |-> a + 2]
Colors == [a \in 0 .. HT - 1 |-> MemSize + a + 2]
BlankRam == [a \in 0 .. MemSize - 1 |-> 0]
BlankPalette == [a \in 0 .. HT - 1 |-> 0]
NoBlanks == {FALSE}
AnyBlanks == BOOLEAN
=============================================================================
