----------------------------- MODULE ScriptMgr -----------------------------
(***************************************************************************)
(* The test scripts of NesDbg (scriptmgr.cpp, scriptmgrdlg.cpp): the Lua    *)
(* functions that drive the machine, the scripts that call them, and the    *)
(* dialog that runs the scripts and keeps the tally.                        *)
(*                                                                         *)
(* The program has one thread, and everything it does is on `stack`: each   *)
(* entry is a call that waits for those before it.  Only a message box, a   *)
(* dialog or the file browser lets messages through; whatever these start   *)
(* goes on top of what is there.                                            *)
(*                                                                         *)
(* A script is the sequence of its calls, each with its arguments and the   *)
(* value expected of it, and the result the script returns when all are as  *)
(* expected.  Its text is left out, and so is what is printed.              *)
(***************************************************************************)
EXTENDS SerialComm

CONSTANTS
    Scripts,    \* name -> [calls |-> sequence of calls, returns |-> BOOLEAN]
    PrgFiles,   \* name -> bytes of an assembled program, two at least
    Selections, \* what may be selected in the dialog's list, in its order
    MaxDepth    \* bound: calls under way when one more is started

\* What a script may hand to its calls: numbers of Lua, tables of them, registers.
\* Nothing that could be wrong, where nothing is looked at.
Table(t) == \A i \in DOMAIN t : t[i] \in Int
CallOK(c) ==
    LET a == c.args
    IN  IF a = <<>> THEN c.fn \notin {"print", "DbgHlt", "DbgRun", "WaitForHlt"} ELSE
          CASE c.fn = "Echo" -> a[1] \in Int /\ Table(a[2])
            [] c.fn \in {"CpuMemRd", "PpuMemRd"} -> a[1] \in Int /\ a[2] \in Int
            [] c.fn \in {"CpuMemWr", "PpuMemWr"} -> a[1] \in Int /\ a[2] \in Int /\ Table(a[3])
            [] c.fn = "CpuRegRd" -> a[1] \in 0 .. Base - 1
            [] c.fn = "CpuRegWr" -> a[1] \in 0 .. Base - 1 /\ a[2] \in Int
            [] OTHER -> TRUE

ASSUME ScriptsAssumption ==
    /\ Selections \subseteq Seq(DOMAIN Scripts)
    /\ \A s \in DOMAIN Scripts :
          /\ Len(Scripts[s].calls) \in Nat
          /\ \A i \in 1 .. Len(Scripts[s].calls) : CallOK(Scripts[s].calls[i])
    /\ \A f \in DOMAIN PrgFiles :
          PrgFiles[f] \in Seq(0 .. Base - 1) /\ Len(PrgFiles[f]) \in 2 .. Base * Base
    /\ MaxDepth \in Nat

VARIABLES
    stack,      \* calls under way, the innermost first
    files,      \* files held open, each for one reader alone
    lua,        \* top of the Lua stack between scripts, as lua_tonumber has it
    shown       \* what the dialog shows: scripts done, of how many, and the tally

scriptVars == <<stack, files, lua, shown>>

PASS  == 0      \* SCRIPT_RESULT_PASS ...
FAIL  == 1
ERROR == 2

Top      == Head(stack)
InTop(k) == stack # <<>> /\ Top.kind = k
At(k, s) == InTop(k) /\ Top.at = s
Go(f)    == stack' = <<f>> \o Tail(stack)
Return   == stack' = Tail(stack)

\* MessageBox(NULL, ...), in front of f.
Box        == [kind |-> "box"]
BoxOver(f) == stack' = <<Box, f>> \o Tail(stack)

Live(k) == \E i \in DOMAIN stack : stack[i].kind = k /\ ~stack[i].ended

\* A loop over messages is innermost; one of an ended dialog returns.
Pumping == \/ stack = <<>> \/ InTop("box") \/ At("load", "browse")
           \/ (InTop("scripts") \/ InTop("raw")) /\ ~Top.ended

\* A message starts f, and a script below it does not have the machine to itself.
Start(f) ==
    /\ Pumping /\ Len(stack) < MaxDepth
    /\ stack' = <<f>> \o [i \in DOMAIN stack |->
                    IF stack[i].kind = "run" THEN [stack[i] EXCEPT !.fair = FALSE]
                    ELSE stack[i]]

\* EndDialog: the dialog hides, and returns when its loop is innermost again.
EndDialog(k) ==
    stack' = [i \in DOMAIN stack |->
                IF stack[i].kind = k THEN [stack[i] EXCEPT !.ended = TRUE] ELSE stack[i]]

-----------------------------------------------------------------------------
(* A script.  Its run is on top; at "call" it is to make call pc.           *)
Calls   == Scripts[Top.script].calls
InCalls == Top.pc <= Len(Calls)
TheCall == Calls[Top.pc]
Arg(i)  == TheCall.args[i]

\* lua_isnumber, lua_istable, lua_isstring hold; BadArgs stands for any that fail.
BadArgs == <<>>
Calling(fn) == At("run", "call") /\ InCalls /\ TheCall.fn = fn /\ TheCall.args # BadArgs

\* The function is back, with a value that the script compares.
Returned(v) ==
    [Top EXCEPT !.at = "call", !.pc = @ + 1,
                !.result = IF v # TheCall.expect THEN FAIL ELSE @]

\* An argument of the wrong type: no value is returned, and a script that uses
\* it all the same is at an error.
ReturnsNothing ==
    /\ At("run", "call") /\ InCalls /\ TheCall.args = BadArgs
    /\ Go(IF TheCall.expect = <<>> THEN Returned(<<>>) ELSE [Top EXCEPT !.at = "error"])
    /\ UNCHANGED <<nes, out, commVars, files, lua, shown>>

LuaPrint ==
    /\ Calling("print")
    /\ Go(Returned(<<>>))
    /\ UNCHANGED <<nes, out, commVars, files, lua, shown>>

\* A packet without an answer, and one with: SendData, then ReceiveData.
Tell(p) ==
    /\ SendData(p)
    /\ Go(Returned(<<>>))
    /\ UNCHANGED <<nes, out, port, comm, plugged, files, lua, shown>>

Ask(p) ==
    /\ SendData(p)
    /\ Go([Top EXCEPT !.at = "receive", !.n = ReturnBytesExpected(p)])
    /\ UNCHANGED <<nes, out, port, comm, plugged, files, lua, shown>>

Receive ==
    /\ At("run", "receive")
    /\ ReceiveData(Top.n)
    /\ \E heap \in Heap : Go(Returned(Received(Top.n, heap)))
    /\ UNCHANGED <<nes, commVars, files, lua, shown>>

Ushort(n) == n % (Base * Base)
Byte(n)   == n % Base

\* The first n elements of a table; lua_tonumber makes 0 of nil.
TableBytes(n, t) == [i \in 1 .. n |-> IF i \in DOMAIN t THEN Byte(t[i]) ELSE 0]

LuaEcho     == Calling("Echo") /\ Ask(EchoPacket(TableBytes(Ushort(Arg(1)), Arg(2))))
LuaCpuMemRd == Calling("CpuMemRd") /\ Ask(CpuMemRdPacket(Ushort(Arg(1)), Ushort(Arg(2))))
LuaPpuMemRdCopied == Calling("PpuMemRd") /\ Ask(CpuMemRdPacket(Ushort(Arg(1)), Ushort(Arg(2))))
LuaPpuMemRd == Calling("PpuMemRd") /\ Ask(PpuMemRdPacket(Ushort(Arg(1)), Ushort(Arg(2))))
LuaCpuRegRd == Calling("CpuRegRd") /\ Ask(CpuRegRdPacket(Arg(1)))
LuaCpuMemWr ==
    /\ Calling("CpuMemWr")
    /\ Tell(CpuMemWrPacket(Ushort(Arg(1)), TableBytes(Ushort(Arg(2)), Arg(3))))
LuaPpuMemWr ==
    /\ Calling("PpuMemWr")
    /\ Tell(PpuMemWrPacket(Ushort(Arg(1)), TableBytes(Ushort(Arg(2)), Arg(3))))
LuaCpuRegWr == Calling("CpuRegWr") /\ Tell(CpuRegWrPacket(Arg(1), Byte(Arg(2))))
LuaDbgHlt   == Calling("DbgHlt") /\ Tell(DbgHltPacket)
LuaDbgRun   == Calling("DbgRun") /\ Tell(DbgRunPacket)

\* LuaWaitForHlt: n is its buffer of one byte, which a read that fails leaves alone.
WaitForHltAsks ==
    /\ SendData(QueryHltPacket)
    /\ \/ Calling("WaitForHlt") /\ \E heap \in Heap : Go([Top EXCEPT !.at = "halted?", !.n = heap])
       \/ At("run", "wait") /\ Go([Top EXCEPT !.at = "halted?"])
    /\ UNCHANGED <<nes, out, port, comm, plugged, files, lua, shown>>

\* Slips: any answer will do; the sense is reversed.
WaitForHltReadsOnce ==
    /\ At("run", "halted?")
    /\ ReceiveData(1)
    /\ Go(Returned(<<>>))
    /\ UNCHANGED <<nes, commVars, files, lua, shown>>
WaitForHltReadsInverted ==
    /\ At("run", "halted?")
    /\ ReceiveData(1)
    /\ LET byte == Received(1, Top.n)[1]
       IN  Go(IF byte # 0 THEN [Top EXCEPT !.at = "wait", !.n = 0] ELSE Returned(<<>>))
    /\ UNCHANGED <<nes, commVars, files, lua, shown>>

WaitForHltReads ==
    /\ At("run", "halted?")
    /\ ReceiveData(1)
    /\ LET byte == Received(1, Top.n)[1]
       IN  Go(IF byte = 0 THEN [Top EXCEPT !.at = "wait", !.n = 0] ELSE Returned(<<>>))
    /\ UNCHANGED <<nes, commVars, files, lua, shown>>

LuaWaitForHlt == WaitForHltAsks \/ WaitForHltReads

\* A box of LuaLoadAsm may start another run, in the middle of this Lua call:
\* what that leaves on the Lua stack is above the file's name and goes with it.
Loading(startPc, held) ==
    [Top EXCEPT !.at = "loaded", !.n = startPc, !.held = held, !.below = lua]

LoadAsmReads ==
    /\ Calling("LoadAsm") /\ Arg(1) \in DOMAIN PrgFiles \ files
    /\ LET data    == PrgFiles[Arg(1)]
           startPc == data[1] + Base * data[2]
           held    == {Arg(1)}
       IN  /\ files' = files \cup held
           /\ \/ /\ SendData(CpuMemWrPacket(startPc, SubSeq(data, 3, Len(data))))
                 /\ Go(Loading(startPc, held))
              \/ /\ BoxOver([Loading(0, held) EXCEPT !.fair = FALSE])   \* ReadFile fails
                 /\ UNCHANGED <<wire, rogue>>
    /\ lua' = 0
    /\ UNCHANGED <<nes, out, port, comm, plugged, shown>>

LoadAsmFails ==
    /\ Calling("LoadAsm")
    /\ BoxOver([Loading(0, {}) EXCEPT !.fair = FALSE])
    /\ lua' = 0
    /\ UNCHANGED <<nes, out, commVars, files, shown>>

\* Slip: the file is left to the process.
LoadAsmKeepsFile ==
    /\ At("run", "loaded")
    /\ lua' = Top.below
    /\ Go([Returned(Word(Top.n)) EXCEPT !.held = {}, !.n = 0])
    /\ UNCHANGED <<nes, out, commVars, files, shown>>

LoadAsmReturns ==
    /\ At("run", "loaded")
    /\ files' = files \ Top.held
    /\ lua' = Top.below
    /\ Go([Returned(Word(Top.n)) EXCEPT !.held = {}, !.n = 0])
    /\ UNCHANGED <<nes, out, commVars, shown>>

LuaLoadAsm == LoadAsmReads \/ LoadAsmFails \/ LoadAsmReturns

-----------------------------------------------------------------------------
(* The dialog.  m_hWndDlg is set while it is live; without it nothing is    *)
(* shown (the assertions on it are empty).                                  *)
NoVerdict == 3

\* TestScriptDlgSetProgress and -SetResults of a run f.
Done(f) == f.tally[1] + f.tally[2] + f.tally[3]
SetProgress(f) == IF Live("scripts") THEN [shown EXCEPT !.done = Done(f), !.of = f.of] ELSE shown
SetResults(f)  == IF Live("scripts") THEN [shown EXCEPT !.tally = f.tally] ELSE shown

\* ExecuteScript is back with verdict v.
Verdict(v) ==
    LET f == [Top EXCEPT !.at = "next", !.verdict = v, !.tally[v + 1] = @ + 1]
    IN  Go(f) /\ shown' = SetResults(f)

\* luaL_dofile leaves the script's value, or an error's text, on the Lua stack
\* for good; lua_tonumber makes 0 of a text.
ScriptEnds ==
    /\ At("run", "call") /\ ~InCalls
    /\ lua' = IF Scripts[Top.script].returns THEN Top.result ELSE lua
    /\ Verdict(lua')

ScriptFails == (At("run", "error") \/ At("run", "no file")) /\ lua' = 0 /\ Verdict(ERROR)

ExecuteScript ==
    /\ ScriptEnds \/ ScriptFails
    /\ UNCHANGED <<nes, out, commVars, files>>

\* Without the dialog there is no list to get the script's name from.
NextScript ==
    /\ At("run", "next") /\ Top.left # <<>>
    /\ Go([Top EXCEPT !.left = Tail(@), !.script = Head(Top.left), !.verdict = NoVerdict,
                      !.pc = 1, !.result = PASS, !.n = 0,
                      !.at = IF Live("scripts") THEN "call" ELSE "no file",
                      !.fair = port = "open" /\ nes.in = OPCODE /\ ~rogue])
    /\ shown' = SetProgress(Top)
    /\ UNCHANGED <<nes, out, commVars, files, lua>>

\* Slip: no progress is shown after the last script.
LastScriptSilent ==
    /\ At("run", "next") /\ Top.left = <<>>
    /\ Return
    /\ UNCHANGED <<nes, out, commVars, files, lua, shown>>

LastScript ==
    /\ At("run", "next") /\ Top.left = <<>>
    /\ Return
    /\ shown' = SetProgress(Top)
    /\ UNCHANGED <<nes, out, commVars, files, lua>>

TestScriptDlgRun(selected) ==
    /\ Live("scripts")
    /\ IF selected = <<>> THEN Start(Box) /\ UNCHANGED shown
       ELSE /\ Start([kind |-> "run", at |-> "next", left |-> selected, of |-> Len(selected),
                      tally |-> <<0, 0, 0>>, script |-> Head(selected), pc |-> 1,
                      result |-> PASS, verdict |-> NoVerdict, n |-> 0, held |-> {},
                      below |-> 0, fair |-> FALSE])
            /\ shown' = [shown EXCEPT !.tally = <<0, 0, 0>>]
    /\ UNCHANGED <<nes, out, commVars, files, lua>>

TestScriptDlgInit ==
    /\ Start([kind |-> "scripts", ended |-> FALSE])
    /\ shown' = [done |-> 0, of |-> 0, tally |-> <<0, 0, 0>>]

TestScriptDlgDone ==
    /\ Live("scripts") /\ Pumping
    /\ EndDialog("scripts")
    /\ UNCHANGED <<nes, out, commVars, files, lua, shown>>

RunStep ==
    \/ ReturnsNothing \/ LuaPrint \/ LuaEcho \/ LuaCpuMemRd \/ LuaCpuMemWr
    \/ LuaPpuMemRd \/ LuaPpuMemWr \/ LuaCpuRegRd \/ LuaCpuRegWr \/ LuaDbgHlt
    \/ LuaDbgRun \/ LuaWaitForHlt \/ LuaLoadAsm \/ Receive
    \/ ExecuteScript \/ NextScript \/ LastScript

\* luaopen_base leaves a table on the Lua stack, of which lua_tonumber makes 0.
ScriptInit ==
    /\ stack = <<>> /\ files = {} /\ lua = 0
    /\ shown = [done |-> 0, of |-> 0, tally |-> <<0, 0, 0>>]
=============================================================================
