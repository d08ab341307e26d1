----------------------------- MODULE HciProtocol -----------------------------
(***************************************************************************)
(* What the host command interpreter promises to its host: it takes bytes,  *)
(* one at a time, and what a byte does it does at once.  Kept from hci.v    *)
(* are the packet it is in, the bytes still to come, memories, registers    *)
(* and answers; gone are clocks, FIFOs and UARTs.                           *)
(*                                                                         *)
(* DebugLink, with Hci clock by clock, implements this; NesDbg and          *)
(* ScriptMgr put their host on top of it.                                   *)
(***************************************************************************)
EXTENDS Integers, Sequences, HciOpcodes

CONSTANTS Base, MemSize, Registers

VARIABLES
    nes,    \* packet under way, memories, registers
    out     \* answers on their way to the host

protocolVars == <<nes, out>>

Cells == 0 .. MemSize - 1
Cell(a) == a % MemSize

\* PCL, PCH, AC, X, Y: cpu.v has no register write branch for REGSEL_S.
WritableRegs == 0 .. 4

OPCODE   == "opcode"       \* between two packets
DISABLED == "disabled"     \* the CPU runs
Reads    == {"cpu_rd", "ppu_rd"}
Writes   == {"cpu_wr", "ppu_wr"}

Running == nes.in = DISABLED

\* The packet that an opcode begins.
PacketOf ==
    [op \in {OP_ECHO, OP_CPU_MEM_RD, OP_CPU_MEM_WR, OP_CPU_REG_RD,
             OP_CPU_REG_WR, OP_PPU_MEM_RD, OP_PPU_MEM_WR} |->
        CASE op = OP_ECHO       -> "echo"
          [] op = OP_CPU_MEM_RD -> "cpu_rd"
          [] op = OP_CPU_MEM_WR -> "cpu_wr"
          [] op = OP_PPU_MEM_RD -> "ppu_rd"
          [] op = OP_PPU_MEM_WR -> "ppu_wr"
          [] op = OP_CPU_REG_RD -> "reg_rd"
          [] op = OP_CPU_REG_WR -> "reg_wr"]

\* Bytes before the data of a packet, and the count that the last two make.
HeadLen(p)  == IF p \in {"echo"} THEN 2 ELSE IF p \in Reads \cup Writes THEN 4 ELSE 1
Count(head, b) == head[Len(head)] + Base * b

Fetch(mem, a, n) == [i \in 1 .. n |-> mem[Cell((a + i - 1) % (Base * Base))]]

-----------------------------------------------------------------------------
(* What byte b does to nes, and the answer to it.                           *)
Between(n) == [n EXCEPT !.in = OPCODE, !.head = <<>>, !.addr = 0, !.left = 0]

\* A byte of data; the packet ends with the last.
Used(n) == IF n.left = 1 THEN Between(n) ELSE [n EXCEPT !.left = @ - 1]

AfterOpcode(b) ==
    CASE b \in DOMAIN PacketOf -> [nes EXCEPT !.in = PacketOf[b]]
      [] b = OP_CART_SET_CFG   -> [nes EXCEPT !.in = "cfg", !.left = 5]
      [] b = OP_DBG_RUN        -> [nes EXCEPT !.in = DISABLED]
      [] b > OP_CART_SET_CFG   -> [nes EXCEPT !.err = 2]
      [] OTHER                 -> nes

\* Data follow the header; a packet with none to come ends.
InHead     == nes.in \notin {OPCODE, DISABLED} /\ nes.left = 0
LastOfHead == InHead /\ Len(nes.head) = HeadLen(nes.in) - 1

AfterHead(b) ==
    LET data(addr, n) == [nes EXCEPT !.head = <<>>, !.addr = addr, !.left = n]
        count == Count(nes.head, b)
    IN  CASE nes.in = "reg_wr" -> data(b, 1)
          [] nes.in = "echo" /\ count > 0 -> data(0, count)
          [] nes.in \in Writes /\ count > 0 ->
                data(nes.head[1] + Base * nes.head[2], count)
          [] OTHER -> Between(nes)

AfterData(b) ==
    LET moved == [nes EXCEPT !.addr = (@ + 1) % (Base * Base)]
        reg   == nes.addr % 16
    IN  CASE nes.in = "echo"   -> Used(nes)
          [] nes.in = "cpu_wr" -> Used([moved EXCEPT !.cpu[Cell(nes.addr)] = b])
          [] nes.in = "ppu_wr" -> Used([moved EXCEPT !.ppu[Cell(nes.addr)] = b])
          [] nes.in = "cfg"    -> Used([nes EXCEPT !.cfg = Append(Tail(@), b)])
          [] OTHER -> Used(IF reg \in Registers \cap WritableRegs
                           THEN [nes EXCEPT !.regs[reg] = b] ELSE nes)

After(b) ==
    CASE Running       -> IF b = OP_DBG_BRK THEN [nes EXCEPT !.in = OPCODE] ELSE nes
      [] nes.in = OPCODE -> AfterOpcode(b)
      [] LastOfHead    -> AfterHead(b)
      [] InHead /\ ~LastOfHead -> [nes EXCEPT !.head = Append(@, b)]
      [] OTHER         -> AfterData(b)

Reply(b) ==
    CASE Running /\ b = OP_QUERY_DBG_BRK             -> <<0>>
      [] nes.in = OPCODE /\ b = OP_QUERY_DBG_BRK     -> <<1>>
      [] nes.in = OPCODE /\ b = OP_QUERY_ERR_CODE    -> <<nes.err>>
      [] nes.in = "reg_rd" ->
            <<IF b % 16 \in Registers THEN nes.regs[b % 16] ELSE 0>>
      [] nes.in \in Reads /\ LastOfHead ->
            Fetch(IF nes.in = "cpu_rd" THEN nes.cpu ELSE nes.ppu,
                  nes.head[1] + Base * nes.head[2], Count(nes.head, b))
      [] nes.in = "echo" /\ ~InHead -> <<b>>
      [] OTHER -> <<>>

Take(b) == nes' = After(b) /\ out' = out \o Reply(b)

\* The program executes HLT.
Break == Running /\ nes' = [nes EXCEPT !.in = OPCODE]

-----------------------------------------------------------------------------
ResetNes ==
    [in |-> OPCODE, head |-> <<>>, addr |-> 0, left |-> 0, err |-> 0,
     cpu |-> [c \in Cells |-> 0], ppu |-> [c \in Cells |-> 0],
     regs |-> [r \in Registers |-> 0], cfg |-> <<0, 0, 0, 0, 0>>]

ProtocolInit == nes = ResetNes /\ out = <<>>

\* A byte comes, or a HLT, or neither; and the host may get an answer.
Delivered == {out} \cup (IF out = <<>> THEN {} ELSE {Tail(out)})

ProtocolNext ==
    \E o \in Delivered :
       \/ \E b \in 0 .. Base - 1 : nes' = After(b) /\ out' = o \o Reply(b)
       \/ Break /\ out' = o
       \/ UNCHANGED nes /\ out' = o

ProtocolSpec == ProtocolInit /\ [][ProtocolNext]_protocolVars
=============================================================================
