------------------------------ MODULE MCNesBus ------------------------------
(***************************************************************************)
(* Programs and hosts for NesBus.                                           *)
(***************************************************************************)
EXTENDS NesBus

\* Enable the interrupt and rendering, set the sprite pointer, set the address.
Program == {[reg |-> 0, wr |-> TRUE, d |-> 1], [reg |-> 1, wr |-> TRUE, d |-> 1],
            [reg |-> 3, wr |-> TRUE, d |-> 1], [reg |-> 6, wr |-> TRUE, d |-> 0]}

\* Read or write data, as an indexed store does: read, and then write.
Stores == {[reg |-> 7, wr |-> FALSE, d |-> 0], [reg |-> 7, wr |-> TRUE, d |-> 0]}

NoOps == {}
Break == {OP_DBG_BRK}
RunOnly == {OP_DBG_RUN}
Debug == {OP_DBG_RUN, OP_CPU_MEM_RD, OP_PPU_MEM_RD, OP_PPU_MEM_WR, OP_PPU_DISABLE}
ReadDisable == {OP_DBG_RUN, OP_CPU_MEM_RD, OP_PPU_DISABLE}

\* A byte of RAM whose last digit is that of 0x2007, the last byte of RAM but one
\* and the first of the cartridge's ROM; the last of RAM, after which the
\* interpreter points at 0x2000.
RamAndRom == {(Base * Base) \div 8 - 9, (Base * Base) \div 8 - 2, (Base * Base) \div 2}
EndOfRam == {(Base * Base) \div 8 - 1}
=============================================================================
