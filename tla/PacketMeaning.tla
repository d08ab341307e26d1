--------------------------- MODULE PacketMeaning ---------------------------
(***************************************************************************)
(* What each packet of NesDbg asks of the machine, all of it at once: the   *)
(* memories, registers, cartridge configuration and error code it leaves,   *)
(* and the answer it is sent for.  No part of the code: the properties of   *)
(* DebugLink and NesDbg measure the code by it.                             *)
(***************************************************************************)
EXTENDS DbgPacket

CONSTANT MemSize

\* A write leaves in each cell the last of the bytes that fall on it.
Store(mem, p) ==
    LET n == NumBytes(p)
        last(c) == {i \in 1 .. n : (Addr(p) + i - 1) % MemSize = c}
    IN  [c \in DOMAIN mem |->
            IF last(c) = {} THEN mem[c]
            ELSE Payload(p)[CHOOSE i \in last(c) : \A j \in last(c) : j <= i]]

AfterPacket(t, p) ==
    CASE Opcode(p) = DbgPacketOpCodeCpuMemWr -> [t EXCEPT !.cpu = Store(@, p)]
      [] Opcode(p) = DbgPacketOpCodePpuMemWr -> [t EXCEPT !.ppu = Store(@, p)]
      [] Opcode(p) = DbgPacketOpCodeCpuRegWr -> [t EXCEPT !.regs[p[2]] = p[3]]
      [] Opcode(p) = DbgPacketOpCodeCartSetCfg -> [t EXCEPT !.cfg = Tail(p)]
      [] Opcode(p) > DbgPacketOpCodeCartSetCfg -> [t EXCEPT !.err = 2]
      [] OTHER -> t

FetchAll(mem, p) == [i \in 1 .. NumBytes(p) |-> mem[(Addr(p) + i - 1) % MemSize]]

Answer(t, p) ==
    CASE Opcode(p) = DbgPacketOpCodeEcho         -> SubSeq(p, 4, Len(p))
      [] Opcode(p) = DbgPacketOpCodeCpuMemRd     -> FetchAll(t.cpu, p)
      [] Opcode(p) = DbgPacketOpCodePpuMemRd     -> FetchAll(t.ppu, p)
      [] Opcode(p) = DbgPacketOpCodeCpuRegRd     -> <<t.regs[p[2]]>>
      [] Opcode(p) = DbgPacketOpCodeQueryErrCode -> <<t.err>>
      [] Opcode(p) = DbgPacketOpCodeQueryHlt     -> <<1>>
      [] OTHER -> <<>>
=============================================================================
