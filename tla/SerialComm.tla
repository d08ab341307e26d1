----------------------------- MODULE SerialComm -----------------------------
(***************************************************************************)
(* The serial port of NesDbg (serialcomm.cpp) with the interpreter of       *)
(* HciProtocol at its other end.                                            *)
(*                                                                         *)
(* WriteFile returns when the bytes have left (its own timeout is thirty    *)
(* times what a byte takes), so the program goes on only at Written; and    *)
(* ReadFile gives up only when nothing more comes, for the timeouts are     *)
(* longer than any pause in an answer.  An adapter can be unplugged: then   *)
(* every call on the handle fails and what was on its way is lost.          *)
(***************************************************************************)
EXTENDS HciProtocol

INSTANCE DbgPacket

CONSTANT Heap       \* bytes that memory fresh from new may hold

\* The strings and addresses below are those of bytes.
ASSUME CommAssumption ==
    /\ Base = 256 /\ MemSize \in Nat \ {0}
    /\ Registers \subseteq 0 .. 15 /\ Heap \subseteq 0 .. Base - 1

VARIABLES
    port,       \* m_hSerialComm: "closed", "open", or "dead" once unplugged
    comm,       \* SerialComm::Init: its next step, the box it shows, or its result
    wire,       \* bytes that WriteFile has still to see off
    plugged,    \* is there a COM23?
    rogue       \* history: a packet was sent to a running machine, which may stop inside
                \* it, or a program began at a machine that may take its echo for another's

BetweenPackets == nes.in \in {OPCODE, DISABLED}

commVars == <<port, comm, wire, plugged, rogue>>

Written == wire = <<>>

\* Nobody looks at the result, and the assertions are empty outside _DEBUG.
WriteFile(p) == wire' = IF port = "open" THEN SubSeq(p, 1, SizeInBytes(p)) ELSE wire

Reckless(p) == port = "open" /\ Running /\ Len(p) > 1
SendData(p) == WriteFile(p) /\ rogue' = (rogue \/ Reckless(p))

\* What ReadFile leaves in a buffer of n bytes of new memory.
Received(n, heap) == [i \in 1 .. n |-> IF i <= Len(out) THEN out[i] ELSE heap]

ReceiveData(n) == out' = SubSeq(out, n + 1, Len(out))

Close == port' = "closed" /\ wire' = <<>> /\ out' = <<>>

-----------------------------------------------------------------------------
(* Init, up to the echo that verifies the connection.                       *)
pInitString == <<78, 69, 83, 0>>      \* "NES"

\* The machine waits for the rest of a read, and memory begins like the string
\* where the echo as that rest would have it read.
Mimics ==
    LET head == nes.head \o EchoPacket(pInitString)
        mem  == IF nes.in = "cpu_rd" THEN nes.cpu ELSE nes.ppu
    IN  nes.in \in Reads
        /\ Fetch(mem, head[1] + Base * head[2], 2) = SubSeq(pInitString, 1, 2)

NoPort       == "no port box"
NotSet       == "no settings box"
NotConnected == "not connected box"
InitBoxes    == {NoPort, NotSet, NotConnected}

OpenPort ==
    /\ comm = "open"
    /\ \/ plugged /\ port' = "open" /\ comm' = "set"
       \/ port' = port /\ comm' = NoPort      \* not there, or not to be had
    /\ rogue' = (~BetweenPackets /\ (rogue \/ Mimics))
    /\ UNCHANGED <<nes, out, wire, plugged>>

SetTimeouts ==
    /\ comm = "set"
    /\ comm' = IF port = "open" THEN "echo" ELSE NotSet
    /\ UNCHANGED <<nes, out, port, wire, plugged, rogue>>

SendEcho ==
    /\ comm = "echo"
    /\ WriteFile(EchoPacket(pInitString))
    /\ comm' = "verify"
    /\ UNCHANGED <<nes, out, port, plugged, rogue>>

\* Slip: the bytes are read but not compared.
VerifyAny ==
    /\ comm = "verify"
    /\ ReceiveData(Len(pInitString))
    /\ comm' = "up"
    /\ UNCHANGED <<nes, port, wire, plugged, rogue>>

VerifyEcho ==
    /\ comm = "verify"
    /\ ReceiveData(Len(pInitString))
    /\ \E heap \in Heap :
          comm' = IF Received(Len(pInitString), heap) = pInitString
                  THEN "up" ELSE NotConnected
    /\ UNCHANGED <<nes, port, wire, plugged, rogue>>

\* The box is dismissed, and NesDbg::Init deletes the SerialComm.
InitFails ==
    /\ comm \in InitBoxes
    /\ comm' = "failed"
    /\ Close
    /\ UNCHANGED <<nes, plugged, rogue>>

SerialCommInit == OpenPort \/ SetTimeouts \/ SendEcho \/ VerifyEcho

-----------------------------------------------------------------------------
(* The other end of the wire, and the adapter.                              *)
NesTakes ==
    /\ wire # <<>>
    /\ Take(Head(wire))
    /\ wire' = Tail(wire)
    /\ UNCHANGED <<port, comm, plugged, rogue>>

NesBreaks == Break /\ UNCHANGED <<out, commVars>>

Unplug ==
    /\ plugged
    /\ plugged' = FALSE
    /\ port' = IF port = "open" THEN "dead" ELSE port
    /\ wire' = <<>> /\ out' = <<>>
    /\ UNCHANGED <<nes, comm, rogue>>

Replug ==
    /\ ~plugged
    /\ plugged' = TRUE
    /\ UNCHANGED <<nes, out, port, comm, wire, rogue>>

\* BTN_SOUTH: interpreter, configuration and CPU start again; memories stay.
\* CPU reset leaves PC at 8000 and zero elsewhere (cpu.v).
ResetButton ==
    /\ nes' = [ResetNes EXCEPT !.cpu = nes.cpu, !.ppu = nes.ppu,
                    !.regs = [r \in Registers |-> IF r = CpuRegPch THEN 128 ELSE 0]]
    /\ rogue' = FALSE
    /\ UNCHANGED <<out, port, comm, wire, plugged>>

CommInit ==
    /\ ProtocolInit
    /\ port = "closed" /\ comm = "none" /\ wire = <<>> /\ plugged = TRUE
    /\ rogue = FALSE
=============================================================================
