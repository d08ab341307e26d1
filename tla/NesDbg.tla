------------------------------- MODULE NesDbg -------------------------------
(***************************************************************************)
(* The whole NesDbg program (main.cpp, nesdbg.cpp): start and end, the      *)
(* menu, loading a ROM, the raw debug dialog, on top of ScriptMgr and       *)
(* SerialComm; with the machine it drives, and what may befall both.        *)
(*                                                                         *)
(* Abstractions: ROM banks and transfer blocks are a few bytes long; the    *)
(* ROM files are those of Roms and the texts typed those of Texts; painting *)
(* and the progress dialog (nobody can press anything in it) are left out.  *)
(* A machine that takes the count of a packet from the middle of another may *)
(* wait for thousands of bytes; beyond MaxLeft the user does nothing but end *)
(* the program and reset it.                                                *)
(***************************************************************************)
EXTENDS ScriptMgr

Meaning == INSTANCE PacketMeaning

CONSTANTS
    Roms,           \* name -> bytes of an iNES file
    PrgBank, ChrBank, Block,   \* 0x4000, 0x2000 and 0x400 in the code
    Texts,          \* what may be typed in the raw debug dialog
    HasScriptMgr,   \* nesdbg.cpp 124-130 are compiled, as they are not now
    MaxFaults,      \* bound: how often program, adapter or user fail
    MaxLeft         \* bound: bytes the machine waits for when the user starts something

\* Two banks fill the cartridge's half of memory, and blocks are never empty;
\* two hex digits make a byte.  An address has 16 bits, and a memory is there
\* as often as it fits (all have powers of 2).
ASSUME NesDbgAssumption ==
    /\ (Base * Base) % MemSize = 0
    /\ \A r \in DOMAIN Roms : Roms[r] \in Seq(0 .. Base - 1)
    /\ PrgBank \in 0 .. 16384 /\ ChrBank \in 0 .. 8192 /\ Block \in 1 .. 1024
    /\ \A t \in Texts : IsHex(t) => TypedBytes(t) \in Seq(0 .. Base - 1)
    /\ HasScriptMgr \in BOOLEAN /\ MaxFaults \in Nat /\ MaxLeft \in Nat

\* Banks are sent in whole blocks, and no two bytes of them are for one cell; a
\* bank is there over and over in the cartridge's 32 KB, the vectors at its end.
ASSUME BankAssumption ==
    /\ PrgBank >= 4 /\ 16384 % PrgBank = 0
    /\ PrgBank % Block = 0 /\ ChrBank % Block = 0
    /\ 2 * PrgBank <= MemSize /\ ChrBank <= MemSize

VARIABLES
    app,        \* WinMain: "off", "init", "loop" or "exit"
    quit,       \* WM_QUIT is posted
    faults      \* how often program or adapter have failed, or the user (RawSend)

appVars == <<app, quit, faults>>
vars == <<nes, out, commVars, scriptVars, appVars>>

Tractable == nes.left <= MaxLeft

-----------------------------------------------------------------------------
(* WinMain and NesDbg::Init.                                                *)
WinMain ==
    /\ app = "off" /\ Tractable
    /\ app' = "init" /\ comm' = "open"
    /\ UNCHANGED <<nes, out, port, wire, plugged, rogue, scriptVars, quit, faults>>

\* RegisterClassEx, CreateWindow or CreateFont fails before the port is opened.
NoWindow ==
    /\ app = "init" /\ comm = "open"
    /\ app' = "exit" /\ comm' = "none"
    /\ UNCHANGED <<nes, out, port, wire, plugged, rogue, scriptVars, quit, faults>>

InitSerialComm == app = "init" /\ SerialCommInit /\ UNCHANGED <<scriptVars, appVars>>

\* A script manager may find no memory for Lua.
InitReturns ==
    /\ app = "init" /\ comm \in {"up", "failed"}
    /\ \/ app' = IF comm = "up" THEN "loop" ELSE "exit"
       \/ HasScriptMgr /\ app' = "exit"
    /\ UNCHANGED <<nes, out, commVars, scriptVars, quit, faults>>

\* GetMessage gets WM_QUIT.
LoopEnds ==
    /\ app = "loop" /\ quit /\ stack = <<>>
    /\ app' = "exit"
    /\ UNCHANGED <<nes, out, commVars, scriptVars, quit, faults>>

\* delete g_pNesDbg, and with it the SerialComm if Init has left one.
Exits ==
    /\ app = "exit"
    /\ app' = "off" /\ quit' = FALSE /\ comm' = "none" /\ lua' = 0
    /\ Close
    /\ UNCHANGED <<nes, plugged, rogue, stack, files, shown, faults>>

-----------------------------------------------------------------------------
(* The menu.  A live dialog disables the main window it belongs to, but     *)
(* neither the file browser nor a box does.                                 *)
MainEnabled == app = "loop" /\ ~quit /\ ~Live("raw") /\ ~Live("scripts")

MenuExit ==
    /\ MainEnabled /\ Pumping
    /\ quit' = TRUE
    /\ UNCHANGED <<nes, out, commVars, scriptVars, app, faults>>

MenuLoadRom ==
    /\ MainEnabled /\ Tractable
    /\ Start([kind |-> "load", at |-> "browse", rom |-> "", heap |-> 0, i |-> 1, ok |-> TRUE])
    /\ UNCHANGED <<nes, out, commVars, files, lua, shown, appVars>>

MenuRawDebug ==
    /\ MainEnabled
    /\ Start([kind |-> "raw", ended |-> FALSE])
    /\ UNCHANGED <<nes, out, commVars, files, lua, shown, appVars>>

MenuTestScripts ==
    /\ MainEnabled /\ HasScriptMgr
    /\ TestScriptDlgInit
    /\ UNCHANGED <<nes, out, commVars, files, lua, appVars>>

\* The scripts take the machine to be halted; to run one on a program counts as a fault.
TestScriptsRun(selected) ==
    /\ TestScriptDlgRun(selected)
    /\ Running => faults < MaxFaults
    /\ faults' = IF Running THEN faults + 1 ELSE faults
    /\ UNCHANGED <<app, quit>>

\* The process is gone; Windows closes its handles.
Dies ==
    /\ app' = "off" /\ quit' = FALSE /\ comm' = "none"
    /\ stack' = <<>> /\ files' = {} /\ lua' = 0
    /\ Close
    /\ UNCHANGED <<nes, plugged, rogue, shown>>

\* TestScriptDlgProc goes through m_pScriptMgr, which is NULL.
MenuTestScriptsCrashes ==
    /\ MainEnabled /\ Pumping /\ ~HasScriptMgr
    /\ faults < MaxFaults /\ faults' = faults + 1
    /\ Dies

-----------------------------------------------------------------------------
(* LoadRom.                                                                 *)
LoadIs(s) == At("load", s)

\* pFileData: the file, and beyond its end what new memory holds.
RomSize    == 16 + 2 * PrgBank + ChrBank
Data(f)    == [k \in 1 .. RomSize |->
                  IF k <= Len(Roms[f.rom]) THEN Roms[f.rom][k] ELSE f.heap]
Prg(d)     == d[5] * PrgBank
Chr(d)     == d[6] * ChrBank
Bit3(b)    == (b \div 8) % 2
Slice(d, offset, n) == SubSeq(d, offset + 1, offset + n)

Faulty(d, check) ==
    CASE check = 1 -> SubSeq(d, 1, 4) # <<78, 69, 83, 26>>
      [] check = 2 -> d[5] > 2 \/ d[6] > 1
      [] check = 3 -> Bit3(d[7]) = 1
      [] check = 4 -> d[7] \div 16 # 0 \/ d[8] \div 16 # 0

\* The packets that the ROM is loaded with; array indexes count from 0.
RomPackets(d) ==
    LET prg(k) == CpuMemWrPacket(32768 + Block * (k - 1),
                                 Slice(d, 16 + Block * (k - 1), Block))
        chr(k) == PpuMemWrPacket(Block * (k - 1),
                                 Slice(d, 16 + Prg(d) + Block * (k - 1), Block))
    IN  <<DbgHltPacket, PpuDisablePacket, CartSetCfgPacket(d)>>
          \o [k \in 1 .. Prg(d) \div Block |-> prg(k)]
          \o [k \in 1 .. Chr(d) \div Block |-> chr(k)]
          \o << CpuRegWrPacket(CpuRegPcl, d[16 + Prg(d) - 4 + 1]),
                CpuRegWrPacket(CpuRegPch, d[16 + Prg(d) - 3 + 1]),
                DbgRunPacket >>

LoadBrowses ==
    /\ LoadIs("browse")
    /\ \/ ~quit /\ \E r \in DOMAIN Roms : Go([Top EXCEPT !.at = "open", !.rom = r])
       \/ Return
    /\ UNCHANGED <<nes, out, commVars, files, lua, shown, appVars>>

LoadOpens ==
    /\ LoadIs("open")
    /\ \/ /\ Top.rom \notin files
          /\ files' = files \cup {Top.rom}
          /\ Go([Top EXCEPT !.at = "read"])
       \/ BoxOver([Top EXCEPT !.at = "done"]) /\ UNCHANGED files
    /\ UNCHANGED <<nes, out, commVars, lua, shown, appVars>>

LoadReads ==
    /\ LoadIs("read")
    /\ \/ \E heap \in IF Len(Roms[Top.rom]) < RomSize THEN Heap ELSE {0} :
             Go([Top EXCEPT !.at = "check", !.heap = heap])
       \/ BoxOver([Top EXCEPT !.at = "close"])
    /\ UNCHANGED <<nes, out, commVars, files, lua, shown, appVars>>

\* Every check is made, and every one that fails has its box.
LoadChecks ==
    /\ LoadIs("check")
    /\ LET next == [Top EXCEPT !.i = @ + 1]
       IN  IF Top.i > 4
           THEN Go([Top EXCEPT !.at = IF Top.ok THEN "send" ELSE "close", !.i = 1])
           ELSE IF Faulty(Data(Top), Top.i) THEN BoxOver([next EXCEPT !.ok = FALSE])
           ELSE Go(next)
    /\ UNCHANGED <<nes, out, commVars, files, lua, shown, appVars>>

LoadSends ==
    /\ LoadIs("send")
    /\ LET packets == RomPackets(Data(Top))
       IN  IF Top.i <= Len(packets)
           THEN SendData(packets[Top.i]) /\ Go([Top EXCEPT !.i = @ + 1])
           ELSE Go([Top EXCEPT !.at = "close"]) /\ UNCHANGED <<wire, rogue>>
    /\ UNCHANGED <<nes, out, port, comm, plugged, files, lua, shown, appVars>>

\* Slip: a file that fails the checks is left open.
LoadClosesGood ==
    /\ LoadIs("close") \/ LoadIs("done")
    /\ files' = IF LoadIs("close") /\ Top.ok THEN files \ {Top.rom} ELSE files
    /\ Return
    /\ UNCHANGED <<nes, out, commVars, lua, shown, appVars>>

LoadCloses ==
    /\ LoadIs("close") \/ LoadIs("done")
    /\ files' = IF LoadIs("close") THEN files \ {Top.rom} ELSE files
    /\ Return
    /\ UNCHANGED <<nes, out, commVars, lua, shown, appVars>>

-----------------------------------------------------------------------------
(* RawDbgDlgProc.                                                           *)
\* history: a packet sent to a halted machine wants the answer it stands for.
NoAnswer == <<Base>>      \* no byte
AsTyped(text, p) == LET typed == TypedBytes(text)
                    IN  IF Len(typed) >= Len(p) THEN SubSeq(typed, 1, Len(p)) ELSE p
Wanted(p) == IF port = "open" /\ nes.in = OPCODE /\ ~rogue
             THEN Meaning!Answer(nes, p) ELSE NoAnswer

RawSend(text) ==
    /\ Live("raw") /\ Tractable
    /\ \E heap \in Heap :
       LET p == CreateObjFromString(text, heap)
       IN  IF p = NoPacket THEN Start(Box) /\ UNCHANGED <<wire, rogue, faults>>
           ELSE /\ Start([kind |-> "send", at |-> "receive", n |-> ReturnBytesExpected(p),
                          got |-> <<>>, want |-> Wanted(AsTyped(text, p))])
                /\ SendData(p)
                /\ Reckless(p) => faults < MaxFaults
                /\ faults' = IF Reckless(p) THEN faults + 1 ELSE faults
    /\ UNCHANGED <<nes, out, port, comm, plugged, files, lua, shown, app, quit>>

\* bytesToReceive may be 0; ReadFile is called all the same.
RawReceives ==
    /\ At("send", "receive")
    /\ ReceiveData(Top.n)
    /\ \E heap \in Heap : Go([Top EXCEPT !.at = "show", !.got = Received(Top.n, heap)])
    /\ UNCHANGED <<nes, commVars, files, lua, shown, appVars>>

RawShows ==
    /\ At("send", "show")
    /\ Return
    /\ UNCHANGED <<nes, out, commVars, files, lua, shown, appVars>>

RawDone ==
    /\ Live("raw") /\ Pumping
    /\ EndDialog("raw")
    /\ UNCHANGED <<nes, out, commVars, files, lua, shown, appVars>>

\* A dialog that has ended returns; so does a box when it is dismissed, or at WM_QUIT.
DialogReturns ==
    /\ (InTop("raw") \/ InTop("scripts")) /\ Top.ended
    /\ Return
    /\ UNCHANGED <<nes, out, commVars, files, lua, shown, appVars>>

BoxReturns ==
    /\ InTop("box")
    /\ Return
    /\ UNCHANGED <<nes, out, commVars, files, lua, shown, appVars>>

-----------------------------------------------------------------------------
Init == CommInit /\ ScriptInit /\ app = "off" /\ quit = FALSE /\ faults = 0

\* What the program does by itself, on its one thread.
ProgramStep ==
    /\ Written
    /\ \/ NoWindow \/ InitSerialComm \/ InitReturns \/ LoopEnds \/ Exits
       \/ LoadOpens \/ LoadReads \/ LoadChecks \/ LoadSends \/ LoadCloses
       \/ RawReceives \/ RawShows
       \/ DialogReturns
       \/ quit /\ (LoadBrowses \/ BoxReturns)
       \/ RunStep /\ UNCHANGED appVars

\* What its user does.
UserStep ==
    /\ Written
    /\ \/ WinMain \/ MenuExit \/ MenuLoadRom \/ MenuRawDebug \/ MenuTestScripts
       \/ InitFails /\ UNCHANGED <<scriptVars, appVars>>
       \/ LoadBrowses \/ BoxReturns
       \/ \E text \in Texts : RawSend(text)
       \/ RawDone
       \/ \E selected \in Selections : TestScriptsRun(selected)
       \/ TestScriptDlgDone /\ UNCHANGED appVars

Machine  == NesTakes /\ UNCHANGED <<scriptVars, appVars>>
Program  == NesBreaks /\ UNCHANGED <<scriptVars, appVars>>

\* The guard is narrower than the board: a button pressed under a running NesDbg
\* leaves it out of step, which it has no way to notice (README, section 5).
Reset    == app = "off" /\ ResetButton /\ UNCHANGED <<scriptVars, appVars>>

Fault ==
    /\ faults < MaxFaults /\ faults' = faults + 1
    /\ \/ app # "off" /\ Dies
       \/ (Unplug \/ Replug) /\ UNCHANGED <<scriptVars, app, quit>>

Next == \/ ProgramStep \/ UserStep \/ Machine \/ Program \/ Reset \/ Fault
        \/ Written /\ MenuTestScriptsCrashes

\* The thread runs, and the machine takes what it is sent.
Spec == Init /\ [][Next]_vars /\ WF_vars(ProgramStep) /\ WF_vars(Machine)

\* The programs of the scripts get to a HLT.
HaltingSpec == Spec /\ SF_vars(Program)

-----------------------------------------------------------------------------
TypeOK ==
    /\ port \in {"closed", "open", "dead"} /\ plugged \in BOOLEAN /\ rogue \in BOOLEAN
    /\ comm \in InitBoxes \cup {"none", "open", "set", "echo", "verify", "up", "failed"}
    /\ app \in {"off", "init", "loop", "exit"} /\ quit \in BOOLEAN
    /\ wire \in Seq(0 .. Base - 1) /\ out \in Seq(0 .. Base - 1)
    /\ \A i \in DOMAIN stack : stack[i].kind \in {"box", "load", "raw", "send", "scripts", "run"}
    /\ files \subseteq DOMAIN Roms \cup DOMAIN PrgFiles
    /\ lua \in {PASS, FAIL, ERROR} /\ faults \in 0 .. MaxFaults

\* A program that runs, however the one before it ended, has a machine that is
\* between two packets whenever nothing is on the wire, and no answer waits that
\* nobody asked for: Init lets no other pass, but for what Mimics says.
InStep ==
    app = "loop" /\ port = "open" /\ Written /\ ~rogue
        => /\ BetweenPackets
           /\ out # <<>> => At("send", "receive") \/ At("run", "receive") \/ At("run", "halted?")

\* What the cartridge has at an address (cart.v mirrors a single bank).
RomByte(d, a) == d[17 + ((a - 32768) % Prg(d))]

\* A ROM that is loaded is there to the last byte, with its configuration, and
\* starts where its reset vector says; whatever was loaded or running before.
RomPlays ==
    LoadIs("close") /\ Top.i > 7 /\ port = "open" /\ Written /\ ~rogue
        => LET d == Data(Top)
           IN  /\ \A k \in 0 .. Prg(d) - 1 : nes.cpu[Cell(32768 + k)] = RomByte(d, 32768 + k)
               /\ \A k \in 0 .. Chr(d) - 1 : nes.ppu[Cell(k)] = d[17 + Prg(d) + k]
               /\ nes.cfg = SubSeq(d, 5, 9)
               /\ Prg(d) > 0 => nes.regs = [r \in Registers |->
                        CASE r = CpuRegPcl -> RomByte(d, 65532)
                          [] r = CpuRegPch -> RomByte(d, 65533)
                          [] OTHER -> nes.regs[r]]

\* What the raw debug dialog shows for a packet sent to a halted machine is the
\* answer to what was typed, not a part of it nor the rest of another.
AnswerIsOwn ==
    At("send", "show") /\ Top.want # NoAnswer /\ port = "open" => Top.got = Top.want

\* Files are open while a call uses them and no longer, through every box and
\* every failure; a program that has ended holds nothing.
HeldBy(f) ==
    CASE f.kind = "load" /\ f.at \in {"read", "check", "send", "close"} -> {f.rom}
      [] f.kind = "run" -> f.held
      [] OTHER -> {}
Held == UNION {HeldBy(stack[i]) : i \in DOMAIN stack}
Released ==
    /\ files = Held
    /\ app = "off" => stack = <<>> /\ port = "closed" /\ out = <<>> /\ Written

\* The verdict on a script that returns one and had a halted machine to itself
\* is the one it deserves, whatever ran before it.  (ExecuteScript takes that of
\* an earlier script for one that returns none.)
VerdictDeserved ==
    At("run", "next") /\ Top.verdict # NoVerdict /\ Top.fair /\ port = "open" /\ ~rogue
        /\ Scripts[Top.script].returns
        => Top.verdict = Scripts[Top.script].deserves

\* When no run is under way a dialog shows the end of one: all its scripts
\* done, each counted once.  Runs may have been started inside runs.
TallyComplete ==
    Live("scripts") /\ (\A i \in DOMAIN stack : stack[i].kind # "run")
        => /\ shown.done = shown.of
           /\ shown.tally[1] + shown.tally[2] + shown.tally[3] = shown.of

\* When LuaWaitForHlt is back the machine is halted.
HaltedAfterWait ==
    /\ At("run", "call") /\ Top.pc > 1 /\ Calls[Top.pc - 1].fn = "WaitForHlt"
    /\ port = "open" /\ ~rogue
    => nes.in = OPCODE

\* The program is always back for its user in the end, unless its port is dead.
Waiting == \/ app = "off" \/ comm \in InitBoxes
           \/ app = "loop" /\ Pumping /\ Written
Responsive == []<>(Waiting \/ port = "dead")

\* Once WM_QUIT is posted the program ends, whatever is under way, unless its port is dead.
QuitEnds == quit ~> (app = "off" \/ port = "dead")
=============================================================================
