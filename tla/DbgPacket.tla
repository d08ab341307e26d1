------------------------------ MODULE DbgPacket ------------------------------
(***************************************************************************)
(* The packets of NesDbg (dbgpacket.h, dbgpacket.cpp) as the bytes of their *)
(* m_pData, and the text of the raw debug dialog turned into one of them.   *)
(*                                                                         *)
(* Abstractions: a byte is 0 .. Base-1 (256 in the code) and a USHORT two   *)
(* digits in that base, low byte first as on the PC.  A typed character is  *)
(* the value of a hex digit, Space, or NoDigit for any other.               *)
(***************************************************************************)
EXTENDS Integers, Sequences

CONSTANT Base

DbgPacketOpCodeEcho         == 0
DbgPacketOpCodeCpuMemRd     == 1
DbgPacketOpCodeCpuMemWr     == 2
DbgPacketOpCodeDbgHlt       == 3
DbgPacketOpCodeDbgRun       == 4
DbgPacketOpCodeCpuRegRd     == 5
DbgPacketOpCodeCpuRegWr     == 6
DbgPacketOpCodeQueryHlt     == 7
DbgPacketOpCodeQueryErrCode == 8
DbgPacketOpCodePpuMemRd     == 9
DbgPacketOpCodePpuMemWr     == 10
DbgPacketOpCodePpuDisable   == 11
DbgPacketOpCodeCartSetCfg   == 12

CpuRegPcl == 0
CpuRegPch == 1
CpuRegAc  == 2
CpuRegX   == 3
CpuRegY   == 4

WordNoCast(n) == <<n, n \div Base>>
Word(n) == <<n % Base, n \div Base>>

EchoPacket(data) == <<DbgPacketOpCodeEcho>> \o Word(Len(data)) \o data
CpuMemRdPacket(addr, n) == <<DbgPacketOpCodeCpuMemRd>> \o Word(addr) \o Word(n)
CpuMemWrPacket(addr, data) ==
    <<DbgPacketOpCodeCpuMemWr>> \o Word(addr) \o Word(Len(data)) \o data
DbgHltPacket             == <<DbgPacketOpCodeDbgHlt>>
DbgRunPacket             == <<DbgPacketOpCodeDbgRun>>
CpuRegRdPacket(reg)      == <<DbgPacketOpCodeCpuRegRd, reg>>
CpuRegWrPacket(reg, val) == <<DbgPacketOpCodeCpuRegWr, reg, val>>
QueryHltPacketOther      == <<DbgPacketOpCodeQueryErrCode>>
QueryHltPacket           == <<DbgPacketOpCodeQueryHlt>>
QueryErrCodePacket       == <<DbgPacketOpCodeQueryErrCode>>
PpuMemRdPacket(addr, n)  == <<DbgPacketOpCodePpuMemRd>> \o Word(addr) \o Word(n)
PpuMemWrPacket(addr, data) ==
    <<DbgPacketOpCodePpuMemWr>> \o Word(addr) \o Word(Len(data)) \o data
PpuDisablePacket         == <<DbgPacketOpCodePpuDisable>>
\* Bytes 4 to 8 of the iNES header.
CartSetCfgPacketFrom5(header) == <<DbgPacketOpCodeCartSetCfg>> \o SubSeq(header, 6, 10)
CartSetCfgPacket(header) == <<DbgPacketOpCodeCartSetCfg>> \o SubSeq(header, 5, 9)

Opcode(p)   == p[1]
Addr(p)     == p[2] + Base * p[3]
NumBytes(p) == p[4] + Base * p[5]
Payload(p)  == SubSeq(p, 6, Len(p))
EchoCount(p) == p[2] + Base * p[3]

MemRdOpCodes == {DbgPacketOpCodeCpuMemRd, DbgPacketOpCodePpuMemRd}

\* The length of the packet, from its own count.
SizeInBytes(p) ==
    CASE Opcode(p) = DbgPacketOpCodeEcho -> 3 + EchoCount(p)
      [] Opcode(p) \in MemRdOpCodes -> 5
      [] Opcode(p) \in {DbgPacketOpCodeCpuMemWr, DbgPacketOpCodePpuMemWr} ->
            5 + NumBytes(p)
      [] Opcode(p) = DbgPacketOpCodeCpuRegRd   -> 2
      [] Opcode(p) = DbgPacketOpCodeCpuRegWr   -> 3
      [] Opcode(p) = DbgPacketOpCodeCartSetCfg -> 6
      [] OTHER -> 1

\* Slip: the last byte of an echo or a read is left for the next packet.
ReturnBytesOneLess(p) ==
    CASE Opcode(p) = DbgPacketOpCodeEcho -> EchoCount(p) - 1
      [] Opcode(p) \in MemRdOpCodes      -> NumBytes(p) - 1
      [] Opcode(p) \in {DbgPacketOpCodeCpuRegRd, DbgPacketOpCodeQueryHlt,
                        DbgPacketOpCodeQueryErrCode} -> 1
      [] OTHER -> 0

\* How many bytes the host waits for after sending p.
ReturnBytesExpected(p) ==
    CASE Opcode(p) = DbgPacketOpCodeEcho -> EchoCount(p)
      [] Opcode(p) \in MemRdOpCodes      -> NumBytes(p)
      [] Opcode(p) \in {DbgPacketOpCodeCpuRegRd, DbgPacketOpCodeQueryHlt,
                        DbgPacketOpCodeQueryErrCode} -> 1
      [] OTHER -> 0

-----------------------------------------------------------------------------
(* CreateObjFromString.                                                     *)
Space   == 16
NoDigit == 17
Digits(text) == SelectSeq(text, LAMBDA c : c # Space)
IsHex(text)  == \A i \in DOMAIN text : text[i] # NoDigit

TypedBytes(text) ==
    LET d == Digits(text)
    IN  [i \in 1 .. Len(d) \div 2 |-> 16 * d[2 * i - 1] + d[2 * i]]

NoPacket == <<>>

\* The packet a text stands for, or NoPacket.  The text is not checked to be as
\* long as its packet: beyond it the fields are what the heap holds there.
CreateObjFromString(text, heap) ==
    LET raw(i)    == LET b == TypedBytes(text) IN IF i <= Len(b) THEN b[i] ELSE heap
        ushort(i) == raw(i) + Base * raw(i + 1)
        data(i, n) == [k \in 1 .. n |-> raw(i + k - 1)]
    IN  IF ~IsHex(text) \/ Len(Digits(text)) % 2 = 1 THEN NoPacket
        ELSE CASE raw(1) = DbgPacketOpCodeEcho ->
                     EchoPacket(data(4, ushort(2)))
               [] raw(1) = DbgPacketOpCodeCpuMemRd ->
                     CpuMemRdPacket(ushort(2), ushort(4))
               [] raw(1) = DbgPacketOpCodeCpuMemWr ->
                     CpuMemWrPacket(ushort(2), data(6, ushort(4)))
               [] OTHER -> NoPacket
=============================================================================
