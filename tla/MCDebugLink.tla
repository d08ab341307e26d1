---------------------------- MODULE MCDebugLink ----------------------------
(***************************************************************************)
(* DebugLink for TLC.  In base 16 every opcode is a byte and 13 is one that *)
(* names none.  The packets of a run are few but their order is free.       *)
(***************************************************************************)
EXTENDS DebugLink

\* Memory and cartridge packets: counts of zero, one, and enough to fill the
\* transmit FIFO; data that look like DBG_BRK and DBG_RUN; a write that wraps
\* around the address space.
MemoryPackets ==
    { CpuMemWrPacket(1, <<3, 4>>), CpuMemWrPacket(255, <<5, 6>>),
      CpuMemWrPacket(0, <<>>), CpuMemRdPacket(0, 5), CpuMemRdPacket(1, 0),
      PpuMemWrPacket(1, <<3, 4>>), PpuMemRdPacket(0, 5), PpuMemRdPacket(0, 0),
      CartSetCfgPacket(<<0, 0, 0, 0, 1, 2, 3, 4, 5>>) }

\* The other packets: an echo longer than the transmit FIFO, registers, halting
\* and running, an opcode that is none.
ControlPackets ==
    { EchoPacket(<<1, 3, 4, 1>>), EchoPacket(<<>>), EchoPacket(<<7>>),
      CpuRegWrPacket(2, 4), CpuRegWrPacket(0, 3), CpuRegRdPacket(2),
      CpuRegRdPacket(0), <<13>>, QueryErrCodePacket, QueryHltPacket,
      PpuDisablePacket, DbgRunPacket }

\* One packet of each kind of answer, for the liveness properties.
AnswerPackets ==
    { EchoPacket(<<1, 3, 4, 1>>), EchoPacket(<<>>), CpuMemRdPacket(0, 5),
      CpuRegRdPacket(2), QueryErrCodePacket, QueryHltPacket, PpuDisablePacket,
      CpuMemWrPacket(1, <<3, 4>>), DbgRunPacket }

AllPackets == MemoryPackets \cup ControlPackets
=============================================================================
