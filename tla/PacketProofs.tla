----------------------------- MODULE PacketProofs ---------------------------
(***************************************************************************)
(* Proofs of what comes of the packets that NesDbg sends, once it is in     *)
(* step with the machine: an answer is that to its own question             *)
(* (HaltedAfterWait, AnswerIsOwn), and a ROM that was loaded is in the      *)
(* machine (RomPlays).  Each half has a comment of its own.                 *)
(***************************************************************************)
EXTENDS LinkProofs

-----------------------------------------------------------------------------
(***************************************************************************)
(* An answer is that to its own question: LuaWaitForHlt is back only when   *)
(* the machine is halted (HaltedAfterWait), and the raw debug dialog shows  *)
(* the answer to what was typed (AnswerIsOwn), whatever else the program    *)
(* and its user do meanwhile.                                               *)
(*                                                                         *)
(* Agrees says how many bytes go between the two; now which they are.  Both *)
(* calls ask when the machine is between two packets and no answer waits,   *)
(* by LinkInv.  LuaWaitForHlt goes by one byte: it is on the wire, or its   *)
(* answer waits (Asking).  For the dialog the answer that is due stays the  *)
(* same from byte to byte, whether it is still to be made of the packet, of *)
(* the rest of its data, or is there (Answers).                             *)
(*                                                                         *)
(* And the machine may not start again before the script's next call.  That *)
(* is in the stack: a box lets the user start a call above a script, but of *)
(* the functions of a script only LuaLoadAsm has a box (Apart), and a       *)
(* script that it has been called from has not just come from               *)
(* LuaWaitForHlt.  There is one lemma for each way in which the stack       *)
(* changes and one for each kind of action.                                 *)
(***************************************************************************)
\* A run that receives an answer or has a file loaded has not called LuaWaitForHlt.
CallOf(f)     == Scripts[f.script].calls[f.pc].fn
NotWaiting(f) == f.at \in {"receive", "loaded"} => CallOf(f) # "WaitForHlt"

\* The script is just back from LuaWaitForHlt.
HasWaited(f) ==
    f.at = "call" /\ f.pc > 1 /\ Scripts[f.script].calls[f.pc - 1].fn = "WaitForHlt"

\* A call that has another above it; one of which Halting and Answered say nothing.
Below(f) ==
    /\ f.kind # "send"
    /\ f.kind = "run" => NotWaiting(f) /\ f.at = "loaded"
Plain(f) ==
    /\ f.kind # "send"
    /\ f.kind = "run" => NotWaiting(f) /\ f.at # "halted?" /\ ~HasWaited(f)

\* A script that another call has interrupted is in LuaLoadAsm.
Apart(s) == \A i \in DOMAIN s : IF i = 1 THEN s[i].kind = "run" => NotWaiting(s[i])
                                ELSE Below(s[i])

\* The question is on the wire and nothing else, or its answer waits.
Asking == \/ wire = << 7 >> /\ out = <<>> /\ nes.in \in {OPCODE, DISABLED}
          \/ wire = <<>> /\ out = << 0 >>
          \/ wire = <<>> /\ out = << 1 >> /\ nes.in = OPCODE

Halting ==
    InTop("run") /\ port = "open" /\ ~rogue
        => /\ Top.at = "halted?" => Asking
           /\ HasWaited(Top) => wire = <<>> /\ nes.in = OPCODE

\* What the machine n with w to come and o answered makes of the answer a: it
\* is there, or what remains is the packet, the rest of its head or of its data.
Asks(n, p, o, a) == IsPacket(p) /\ p[1] \in {0, 1, 2} /\ o = <<>> /\ a = Meaning!Answer(n, p)
Answers(n, w, o, a) ==
    \/ w = <<>> /\ o = a
    \/ n.in = OPCODE /\ Asks(n, w, o, a)
    \/ n.in \in {"echo", "cpu_rd", "cpu_wr"} /\ n.left = 0 /\ Asks(n, Full(n, w), o, a)
    \/ n.left > 0 /\ Len(w) = n.left /\ a = IF n.in = "echo" THEN o \o w ELSE o

Answered ==
    InTop("send")
        => /\ "want" \in DOMAIN Top
           /\ Top.want # NoAnswer /\ port = "open"
                 => /\ Top.at = "receive" => Top.want \in Seq(Bytes) /\ Len(Top.want) = Top.n
                                             /\ Answers(nes, wire, out, Top.want)
                    /\ Top.at = "show" => Top.got = Top.want

AskInv == Apart(stack) /\ Halting /\ Answered

-----------------------------------------------------------------------------
(* The ways in which the stack changes.                                     *)
LEMMA BelowPlain == \A f : Below(f) => Plain(f)
  BY DEF Below, Plain, HasWaited

LEMMA PlainTop ==
    ASSUME stack' # <<>> => Plain(Head(stack'))
    PROVE  Halting' /\ Answered'
  BY DEF Halting, Answered, InTop, Top, Plain

LEMMA GoApart ==
    ASSUME StackInv, stack # <<>>, Apart(stack), NEW f, Go(f), f.kind = "run" => NotWaiting(f)
    PROVE  Apart(stack') /\ stack' # <<>> /\ Head(stack') = f
<1>1. PICK S : stack \in Seq(S)
  BY DEF StackInv, Sound, IsStack
<1> DEFINE t == <<f>> \o Tail(stack)
<1>2. /\ t \in Seq(S \cup {f}) /\ DOMAIN t = DOMAIN stack /\ 1 \in DOMAIN stack
      /\ t[1] = f /\ \A i \in DOMAIN stack : i # 1 => t[i] = stack[i]
  BY <1>1, NewHead
<1> HIDE DEF t
<1>3. Apart(t)
  BY <1>2 DEF Apart
<1>4. t # <<>> /\ Head(t) = f
  BY <1>2
<1>5. stack' = t
  BY DEF Go, t
<1> QED
  BY <1>3, <1>4, <1>5

LEMMA GoPlain ==
    ASSUME StackInv, stack # <<>>, Apart(stack), NEW f, Go(f), Plain(f)
    PROVE  AskInv'
  BY GoApart, PlainTop DEF Plain, AskInv

\* A call is pushed on others that are below it.
LEMMA PushApart ==
    ASSUME NEW S, NEW s \in Seq(S), \A i \in DOMAIN s : Below(s[i]), NEW f,
           f.kind = "run" => NotWaiting(f), stack' = <<f>> \o s
    PROVE  Apart(stack') /\ stack' # <<>> /\ Head(stack') = f
<1> DEFINE t == <<f>> \o s
<1>1. /\ t \in Seq(S \cup {f}) /\ DOMAIN s = 1 .. Len(s) /\ Len(s) \in Nat
      /\ DOMAIN t = 1 .. Len(s) + 1
      /\ t[1] = f /\ \A i \in 1 .. Len(s) : t[i + 1] = s[i]
  BY Pushed
<1>2. stack' = t
  OBVIOUS
<1> HIDE DEF t
<1>3. \A j \in DOMAIN t : j = 1 \/ (j - 1 \in DOMAIN s /\ t[j] = s[j - 1])
  BY <1>1
<1>4. Apart(t)
  BY <1>1, <1>3 DEF Apart
<1>5. t # <<>> /\ Head(t) = f
  BY <1>1
<1> QED
  BY <1>2, <1>4, <1>5

LEMMA BoxApart ==
    ASSUME StackInv, stack # <<>>, Apart(stack), NEW f, Below(f), BoxOver(f)
    PROVE  AskInv'
<1>1. PICK S : stack \in Seq(S)
  BY DEF StackInv, Sound, IsStack
<1> DEFINE t == <<f>> \o Tail(stack)
<1>2. /\ t \in Seq(S \cup {f}) /\ DOMAIN t = DOMAIN stack /\ 1 \in DOMAIN stack
      /\ t[1] = f /\ \A i \in DOMAIN stack : i # 1 => t[i] = stack[i]
  BY <1>1, NewHead
<1>3. <<Box>> \o t = <<Box, f>> \o Tail(stack)
  BY <1>1
<1> HIDE DEF t
<1>4. \A i \in DOMAIN t : Below(t[i])
  BY <1>2 DEF Apart
<1>5. Plain(Box)
  BY DEF Plain, Box
<1>6. stack' = <<Box>> \o t
  BY <1>3 DEF BoxOver
<1> QED
  BY <1>2, <1>4, <1>5, <1>6, PushApart, PlainTop DEF Plain, AskInv

LEMMA ReturnApart ==
    ASSUME StackInv, stack # <<>>, Apart(stack), Return
    PROVE  AskInv'
<1>1. PICK S : stack \in Seq(S)
  BY DEF StackInv, Sound, IsStack
<1> DEFINE t == Tail(stack)
<1>2. /\ t \in Seq(S) /\ DOMAIN stack = 1 .. Len(stack) /\ Len(stack) \in Nat /\ Len(stack) >= 1
      /\ DOMAIN t = 1 .. Len(stack) - 1 /\ \A i \in 2 .. Len(stack) : t[i - 1] = stack[i]
  BY <1>1, Popped
<1>3. stack' = t
  BY DEF Return
<1> HIDE DEF t
<1>4. \A i \in DOMAIN t : i + 1 \in DOMAIN stack /\ i + 1 # 1 /\ t[i] = stack[i + 1]
  BY <1>2
<1>5. \A i \in DOMAIN t : Below(t[i])
  BY <1>4 DEF Apart
<1>6. Apart(t)
  BY <1>5 DEF Apart, Below
<1>7. t # <<>> => 1 \in DOMAIN t /\ Head(t) = t[1]
  BY <1>2
<1> QED
  BY <1>3, <1>5, <1>6, <1>7, BelowPlain, PlainTop DEF AskInv

\* Where messages are taken no script is innermost.
LEMMA PumpingBelow ==
    ASSUME StackInv, Apart(stack), Pumping
    PROVE  \A i \in DOMAIN stack : Below(stack[i])
<1> SUFFICES ASSUME NEW i \in DOMAIN stack
             PROVE  Below(stack[i])
  OBVIOUS
<1>1. stack # <<>>
  OBVIOUS
<1>2. Top = stack[1]
  BY <1>1, TopOK
<1>3. Top.kind \notin {"run", "send"}
  BY <1>1 DEF Pumping, InTop, At
<1> QED
  BY <1>2, <1>3 DEF Apart, Below

LEMMA StartApart ==
    ASSUME StackInv, FrameInv, Apart(stack), NEW f, f.kind = "run" => NotWaiting(f), Start(f)
    PROVE  Apart(stack') /\ stack' # <<>> /\ Head(stack') = f
<1> DEFINE e(i) == IF stack[i].kind = "run" THEN [stack[i] EXCEPT !.fair = FALSE]
                   ELSE stack[i]
           t == [i \in DOMAIN stack |-> e(i)]
<1>1. PICK S : stack \in Seq(S)
  BY DEF StackInv, Sound, IsStack
<1>2. t \in Seq({e(i) : i \in DOMAIN stack}) /\ DOMAIN t = DOMAIN stack
      /\ \A i \in DOMAIN stack : t[i] = e(i)
  BY <1>1
<1>3. Pumping /\ stack' = <<f>> \o t
  BY DEF Start
<1>4. ASSUME NEW i \in DOMAIN stack
      PROVE  Below(e(i))
  <2> DEFINE g == stack[i]
             h == [g EXCEPT !.fair = FALSE]
  <2>1. FrameOK(g) /\ "kind" \in DOMAIN g
    BY DEF FrameInv, FramesOK, StackInv, Sound, IsStack, IsFrame
  <2>2. Below(g)
    BY <1>3, PumpingBelow
  <2> HIDE DEF g
  <2>3. ASSUME g.kind = "run"
        PROVE  Below(h)
    <3>1. {"kind", "at", "pc", "script"} \subseteq DOMAIN g
      BY <2>1, <2>3 DEF FrameOK
    <3>2. h.kind = g.kind /\ h.at = g.at /\ h.pc = g.pc /\ h.script = g.script
      BY <3>1
    <3> HIDE DEF h
    <3> QED
      BY <2>2, <2>3, <3>2 DEF Below, NotWaiting, CallOf
  <2> QED
    BY <2>2, <2>3 DEF g
<1> DEFINE T == {e(i) : i \in DOMAIN stack}
<1> HIDE DEF e, t, T
<1>5. t \in Seq(T) /\ \A i \in DOMAIN t : Below(t[i])
  BY <1>2, <1>4 DEF T
<1> QED
  BY <1>3, <1>5, PushApart

LEMMA EndApart ==
    ASSUME StackInv, Apart(stack), Pumping, NEW k \in {"raw", "scripts"}, EndDialog(k)
    PROVE  AskInv'
<1> DEFINE e(i) == IF stack[i].kind = k THEN [stack[i] EXCEPT !.ended = TRUE]
                   ELSE stack[i]
           t == [i \in DOMAIN stack |-> e(i)]
<1>1. PICK S : stack \in Seq(S)
  BY DEF StackInv, Sound, IsStack
<1>2. t \in Seq({e(i) : i \in DOMAIN stack}) /\ DOMAIN t = DOMAIN stack
      /\ \A i \in DOMAIN stack : t[i] = e(i)
  BY <1>1
<1>3. stack' = t
  BY DEF EndDialog
<1>4. ASSUME NEW i \in DOMAIN stack
      PROVE  Below(e(i))
  <2> DEFINE g == stack[i]
             h == [g EXCEPT !.ended = TRUE]
  <2>1. "kind" \in DOMAIN g
    BY DEF StackInv, Sound, IsStack, IsFrame
  <2>2. Below(g)
    BY PumpingBelow
  <2> HIDE DEF g
  <2>3. g.kind = k => h.kind \notin {"run", "send"}
    BY <2>1
  <2> HIDE DEF h
  <2>4. g.kind = k => Below(h)
    BY <2>3 DEF Below
  <2> QED
    BY <2>2, <2>4 DEF g, h
<1> DEFINE T == {e(i) : i \in DOMAIN stack}
<1> HIDE DEF e, t, T
<1>5. t \in Seq(T) /\ \A i \in DOMAIN t : Below(t[i])
  BY <1>2, <1>4 DEF T
<1>6. Apart(t)
  BY <1>5 DEF Apart, Below
<1>7. t # <<>> => 1 \in DOMAIN t /\ Head(t) = t[1]
  BY <1>5
<1> QED
  BY <1>3, <1>5, <1>6, <1>7, BelowPlain, PlainTop DEF AskInv

-----------------------------------------------------------------------------
(* The steps of the loads, the dialogs and the boxes: what is on top after  *)
(* them has not come from LuaWaitForHlt.                                    *)
LEMMA OtherPlain == \A f : f.kind \notin {"run", "send"} => Below(f) /\ Plain(f)
  BY DEF Below, Plain

\* A load stays one whatever it goes on to.
LEMMA LoadForms ==
    ASSUME StackInv, FrameInv, InTop("load"), NEW at, NEW i, NEW rom, NEW heap
    PROVE  /\ [Top EXCEPT !.at = at].kind = "load"
           /\ [Top EXCEPT !.i = i].kind = "load"
           /\ [[Top EXCEPT !.i = i] EXCEPT !.ok = FALSE].kind = "load"
           /\ [Top EXCEPT !.at = at, !.i = i].kind = "load"
           /\ [Top EXCEPT !.at = at, !.rom = rom].kind = "load"
           /\ [Top EXCEPT !.at = at, !.heap = heap].kind = "load"
  BY LoadFrame

LEMMA LoadsAsk ==
    ASSUME StackInv, FrameInv, Apart(stack),
           LoadBrowses \/ LoadOpens \/ LoadReads \/ LoadChecks \/ LoadSends \/ LoadCloses
    PROVE  AskInv'
<1>1. InTop("load") /\ stack # <<>>
  BY DEF LoadBrowses, LoadOpens, LoadReads, LoadChecks, LoadSends, LoadCloses, LoadIs, At, InTop
<1>2. \/ \E f : f.kind = "load" /\ (Go(f) \/ BoxOver(f))
      \/ Return
  <2>1. CASE LoadBrowses
    BY <1>1, <2>1, LoadForms DEF LoadBrowses
  <2>2. CASE LoadOpens
    BY <1>1, <2>2, LoadForms DEF LoadOpens
  <2>3. CASE LoadReads
    BY <1>1, <2>3, LoadForms DEF LoadReads
  <2>4. CASE LoadChecks
    <3> DEFINE s == IF Top.ok THEN "send" ELSE "close"
               last == [Top EXCEPT !.at = s, !.i = 1]
               next == [Top EXCEPT !.i = Top.i + 1]
               bad  == [next EXCEPT !.ok = FALSE]
    <3>1. Go(last) \/ BoxOver(bad) \/ Go(next)
      BY <2>4 DEF LoadChecks
    <3> HIDE DEF s
    <3>2. last.kind = "load" /\ next.kind = "load" /\ bad.kind = "load"
      BY <1>1, LoadForms
    <3> HIDE DEF last, next, bad
    <3> QED
      BY <3>1, <3>2
  <2>5. CASE LoadSends
    <3>1. \/ Go([Top EXCEPT !.i = Top.i + 1])
          \/ Go([Top EXCEPT !.at = "close"])
      BY <2>5 DEF LoadSends
    <3> QED
      BY <1>1, <3>1, LoadForms
  <2>6. CASE LoadCloses
    BY <2>6 DEF LoadCloses
  <2> QED
    BY <2>1, <2>2, <2>3, <2>4, <2>5, <2>6
<1> QED
  BY <1>1, <1>2, OtherPlain, GoPlain, BoxApart, ReturnApart

\* What the user starts, and a dialog or a box that goes.
LEMMA StartsAsk ==
    ASSUME StackInv, FrameInv, Apart(stack),
           \/ MenuLoadRom \/ MenuRawDebug \/ MenuTestScripts
           \/ \E selected \in Selections : TestScriptsRun(selected)
    PROVE  AskInv'
<1>1. \E f : Plain(f) /\ Start(f)
  <2>1. CASE MenuLoadRom
    <3> DEFINE f == [kind |-> "load", at |-> "browse", rom |-> "", heap |-> 0, i |-> 1, ok |-> TRUE]
    <3>1. Plain(f) /\ Start(f)
      BY <2>1 DEF MenuLoadRom, Plain
    <3> QED
      BY <3>1
  <2>2. CASE MenuRawDebug \/ MenuTestScripts
    <3>1. PICK k \in {"raw", "scripts"} : Start([kind |-> k, ended |-> FALSE])
      BY <2>2 DEF MenuRawDebug, MenuTestScripts, TestScriptDlgInit
    <3> QED
      BY <3>1 DEF Plain
  <2>3. ASSUME NEW selected \in Selections, TestScriptsRun(selected)
        PROVE  \E f : Plain(f) /\ Start(f)
    <3> DEFINE f == [kind |-> "run", at |-> "next", left |-> selected, of |-> Len(selected),
                     tally |-> <<0, 0, 0>>, script |-> Head(selected), pc |-> 1,
                     result |-> PASS, verdict |-> NoVerdict, n |-> 0, held |-> {},
                     below |-> 0, fair |-> FALSE]
    <3>1. Start(Box) \/ Start(f)
      BY <2>3 DEF TestScriptsRun, TestScriptDlgRun
    <3>2. f.kind = "run" /\ f.at = "next"
      OBVIOUS
    <3> HIDE DEF f
    <3>3. Plain(f) /\ Plain(Box)
      BY <3>2 DEF Plain, Box, NotWaiting, HasWaited
    <3> QED
      BY <3>1, <3>3
  <2> QED
    BY <2>1, <2>2, <2>3
<1>2. PICK f : Plain(f) /\ Start(f)
  BY <1>1
<1> QED
  BY <1>2, StartApart, PlainTop DEF Plain, AskInv

LEMMA DialogsAsk ==
    ASSUME StackInv, FrameInv, Apart(stack),
           RawShows \/ RawDone \/ DialogReturns \/ BoxReturns \/ TestScriptDlgDone
    PROVE  AskInv'
<1>1. CASE RawShows \/ DialogReturns \/ BoxReturns
  <2>1. stack # <<>> /\ Return
    BY <1>1 DEF RawShows, DialogReturns, BoxReturns, At, InTop
  <2> QED
    BY <2>1, ReturnApart
<1>2. CASE RawDone \/ TestScriptDlgDone
  <2>1. Pumping /\ \E k \in {"raw", "scripts"} : EndDialog(k)
    BY <1>2 DEF RawDone, TestScriptDlgDone
  <2> QED
    BY <2>1, EndApart
<1> QED
  BY <1>1, <1>2

-----------------------------------------------------------------------------
(* The steps of a script but those of LuaWaitForHlt.                        *)
LEMMA TheCallIs == CallOf(Top) = TheCall.fn
  BY DEF CallOf, TheCall, Calls

\* A function is back that is not LuaWaitForHlt.
LEMMA ReturnedPlain ==
    ASSUME StackInv, FrameInv, InTop("run"), CallOf(Top) # "WaitForHlt", NEW v
    PROVE  /\ Plain(Returned(v))
           /\ Plain([Returned(v) EXCEPT !.held = {}, !.n = 0])
<1>1. /\ stack # <<>> /\ Top.kind = "run"
      /\ {"kind", "at", "n", "pc", "script", "held"} \subseteq DOMAIN Top
      /\ Top.pc \in Nat \ {0}
  BY RunFrame
<1> DEFINE f == Returned(v)
           g == [f EXCEPT !.held = {}, !.n = 0]
<1>2. /\ DOMAIN f = DOMAIN Top /\ f.kind = "run" /\ f.at = "call" /\ f.pc = Top.pc + 1
      /\ f.script = Top.script
  BY <1>1 DEF Returned
<1> HIDE DEF f
<1>3. g.kind = "run" /\ g.at = "call" /\ g.pc = f.pc /\ g.script = f.script
  BY <1>1, <1>2
<1> HIDE DEF g
<1>4. f.pc - 1 = Top.pc
  BY <1>1, <1>2
<1>5. ~HasWaited(f) /\ ~HasWaited(g)
  BY <1>2, <1>3, <1>4 DEF HasWaited, CallOf
<1>6. Plain(f) /\ Plain(g)
  BY <1>2, <1>3, <1>5 DEF Plain, NotWaiting
<1> QED
  BY <1>6 DEF f, g

\* The call at hand asks for an answer or has its file loaded.
LEMMA GoesOn ==
    ASSUME StackInv, FrameInv, InTop("run"), CallOf(Top) # "WaitForHlt", NEW n, NEW held
    PROVE  /\ Plain([Top EXCEPT !.at = "receive", !.n = n])
           /\ Plain(Loading(n, held)) /\ Below([Loading(n, held) EXCEPT !.fair = FALSE])
<1>1. /\ stack # <<>> /\ Top.kind = "run"
      /\ {"kind", "at", "n", "pc", "script", "held"} \subseteq DOMAIN Top
  BY RunFrame
<1> DEFINE f == [Top EXCEPT !.at = "receive", !.n = n]
           g == Loading(n, held)
           h == [g EXCEPT !.fair = FALSE]
<1>2. f.kind = "run" /\ f.at = "receive" /\ f.pc = Top.pc /\ f.script = Top.script
  BY <1>1
<1>3. /\ DOMAIN g = DOMAIN Top /\ g.kind = "run" /\ g.at = "loaded" /\ g.pc = Top.pc
      /\ g.script = Top.script
  BY <1>1 DEF Loading
<1> HIDE DEF f, g
<1>4. h.kind = "run" /\ h.at = "loaded" /\ h.pc = Top.pc /\ h.script = Top.script
  BY <1>1, <1>3
<1> HIDE DEF h
<1>5. Plain(f) /\ Plain(g) /\ Below(h)
  BY <1>2, <1>3, <1>4 DEF Plain, Below, NotWaiting, HasWaited, CallOf
<1> QED
  BY <1>5 DEF f, g, h

LEMMA ExchangesAsk ==
    ASSUME StackInv, FrameInv, Apart(stack), InTop("run"), CallOf(Top) # "WaitForHlt",
           NEW p, Tell(p) \/ Ask(p)
    PROVE  AskInv'
<1>1. stack # <<>>
  BY DEF InTop
<1>2. Go(Returned(<<>>)) \/ \E n : Go([Top EXCEPT !.at = "receive", !.n = n])
  BY DEF Tell, Ask
<1> QED
  BY <1>1, <1>2, ReturnedPlain, GoesOn, GoPlain

LEMMA CallsAsk ==
    ASSUME StackInv, FrameInv, Apart(stack),
           \/ LuaEcho \/ LuaCpuMemRd \/ LuaCpuMemWr \/ LuaPpuMemRd \/ LuaPpuMemWr
           \/ LuaCpuRegRd \/ LuaCpuRegWr \/ LuaDbgHlt \/ LuaDbgRun
    PROVE  AskInv'
<1>1. \E fn, p : fn # "WaitForHlt" /\ Calling(fn) /\ (Tell(p) \/ Ask(p))
  <2>1. CASE LuaEcho \/ LuaCpuMemRd \/ LuaPpuMemRd \/ LuaCpuRegRd
    BY <2>1 DEF LuaEcho, LuaCpuMemRd, LuaPpuMemRd, LuaCpuRegRd
  <2>2. CASE LuaCpuMemWr \/ LuaPpuMemWr \/ LuaCpuRegWr \/ LuaDbgHlt \/ LuaDbgRun
    BY <2>2 DEF LuaCpuMemWr, LuaPpuMemWr, LuaCpuRegWr, LuaDbgHlt, LuaDbgRun
  <2> QED
    BY <2>1, <2>2
<1> QED
  BY <1>1, CalledOK, TheCallIs, ExchangesAsk

LEMMA LocalAsk ==
    ASSUME StackInv, FrameInv, Apart(stack), ReturnsNothing \/ LuaPrint \/ Receive
    PROVE  AskInv'
<1>1. InTop("run") /\ stack # <<>>
  BY DEF ReturnsNothing, LuaPrint, Receive, Calling, At, InTop
<1>2. /\ {"kind", "at", "n", "pc", "script", "held"} \subseteq DOMAIN Top
      /\ Top.pc \in Nat \ {0} /\ Top.script \in DOMAIN Scripts /\ Top.kind = "run"
  BY <1>1, RunFrame
<1>3. CallOf(Top) # "WaitForHlt"
  <2>1. CASE ReturnsNothing
    <3>1. Len(Calls) \in Nat /\ \A i \in 1 .. Len(Calls) : CallOK(Calls[i])
      BY <1>2, ScriptsAssumption DEF Calls
    <3>2. Top.pc \in 1 .. Len(Calls) /\ TheCall.args = <<>>
      BY <1>2, <2>1, <3>1 DEF ReturnsNothing, InCalls, BadArgs
    <3>3. CallOK(TheCall)
      BY <3>1, <3>2 DEF TheCall
    <3> QED
      BY <3>2, <3>3, TheCallIs DEF CallOK
  <2>2. CASE LuaPrint
    BY <2>2, CalledOK, TheCallIs DEF LuaPrint
  <2>3. CASE Receive
    <3>1. Top.at = "receive" /\ Top = stack[1] /\ 1 \in DOMAIN stack
      BY <1>1, <2>3, TopOK DEF Receive, At
    <3> QED
      BY <1>2, <3>1 DEF Apart, NotWaiting
  <2> QED
    BY <2>1, <2>2, <2>3
<1>4. (\E v : Go(Returned(v))) \/ Go([Top EXCEPT !.at = "error"])
  BY DEF ReturnsNothing, LuaPrint, Receive
<1>5. Plain([Top EXCEPT !.at = "error"])
  <2> DEFINE f == [Top EXCEPT !.at = "error"]
  <2>1. f.kind = "run" /\ f.at = "error"
    BY <1>2
  <2> HIDE DEF f
  <2> QED
    BY <2>1 DEF Plain, NotWaiting, HasWaited, f
<1> QED
  BY <1>1, <1>3, <1>4, <1>5, ReturnedPlain, GoPlain

LEMMA LoadAsmAsk ==
    ASSUME StackInv, FrameInv, Apart(stack), LuaLoadAsm
    PROVE  AskInv'
<1>1. InTop("run") /\ stack # <<>>
  BY DEF LuaLoadAsm, LoadAsmReads, LoadAsmFails, LoadAsmReturns, Calling, At, InTop
<1>2. CallOf(Top) # "WaitForHlt"
  <2>1. CASE Calling("LoadAsm")
    BY <2>1, CalledOK, TheCallIs
  <2>2. CASE At("run", "loaded")
    <3>1. Top.at = "loaded" /\ Top.kind = "run" /\ Top = stack[1] /\ 1 \in DOMAIN stack
      BY <1>1, <2>2, TopOK DEF At, InTop
    <3> QED
      BY <3>1 DEF Apart, NotWaiting
  <2> QED
    BY <2>1, <2>2 DEF LuaLoadAsm, LoadAsmReads, LoadAsmFails, LoadAsmReturns
<1>3. \/ \E n, held : \/ Go(Loading(n, held))
                      \/ BoxOver([Loading(n, held) EXCEPT !.fair = FALSE])
      \/ \E v : Go([Returned(v) EXCEPT !.held = {}, !.n = 0])
  <2>1. CASE LoadAsmReads
    <3> DEFINE startPc == PrgFiles[Arg(1)][1] + Base * PrgFiles[Arg(1)][2]
    <3>1. \/ Go(Loading(startPc, {Arg(1)}))
          \/ BoxOver([Loading(0, {Arg(1)}) EXCEPT !.fair = FALSE])
      BY <2>1 DEF LoadAsmReads
    <3> HIDE DEF startPc
    <3> QED
      BY <3>1
  <2>2. CASE LoadAsmFails
    BY <2>2 DEF LoadAsmFails
  <2>3. CASE LoadAsmReturns
    BY <2>3 DEF LoadAsmReturns
  <2> QED
    BY <2>1, <2>2, <2>3 DEF LuaLoadAsm
<1> QED
  BY <1>1, <1>2, <1>3, ReturnedPlain, GoesOn, GoPlain, BoxApart

\* The end of a script, the next, and the end of the last.
LEMMA EndsAsk ==
    ASSUME StackInv, FrameInv, Apart(stack), ExecuteScript \/ NextScript \/ LastScript
    PROVE  AskInv'
<1>1. InTop("run") /\ stack # <<>>
  BY DEF ExecuteScript, ScriptEnds, ScriptFails, NextScript, LastScript, At, InTop
<1>2. {"kind", "at", "n", "pc", "script", "held"} \subseteq DOMAIN Top /\ Top.kind = "run"
  BY <1>1, RunFrame
<1>3. CASE ExecuteScript
  <2>1. PICK v : Verdict(v)
    BY <1>3 DEF ExecuteScript, ScriptEnds, ScriptFails
  <2> DEFINE f == [Top EXCEPT !.at = "next", !.verdict = v, !.tally[v + 1] = @ + 1]
  <2>2. Go(f)
    BY <2>1 DEF Verdict
  <2>3. f.kind = "run" /\ f.at = "next"
    BY <1>2
  <2> HIDE DEF f
  <2>4. Plain(f)
    BY <2>3 DEF Plain, NotWaiting, HasWaited
  <2> QED
    BY <1>1, <2>2, <2>4, GoPlain
<1>4. CASE NextScript
  <2> DEFINE s == IF Live("scripts") THEN "call" ELSE "no file"
             b == (port = "open" /\ nes.in = OPCODE /\ ~rogue)
             f == [Top EXCEPT !.left = Tail(@), !.script = Head(Top.left), !.verdict = NoVerdict,
                      !.pc = 1, !.result = PASS, !.n = 0, !.at = s, !.fair = b]
  <2>1. Go(f)
    BY <1>4 DEF NextScript
  <2>2. s \in {"call", "no file"}
    OBVIOUS
  <2> HIDE DEF s, b
  <2>3. f.kind = "run" /\ f.at = s /\ f.pc = 1
    BY <1>2
  <2> HIDE DEF f
  <2>4. ~(f.pc > 1)
    BY <2>3
  <2>5. Plain(f)
    BY <2>2, <2>3, <2>4 DEF Plain, NotWaiting, HasWaited
  <2> QED
    BY <1>1, <2>1, <2>5, GoPlain
<1>5. CASE LastScript
  BY <1>1, <1>5, ReturnApart DEF LastScript
<1> QED
  BY <1>3, <1>4, <1>5

-----------------------------------------------------------------------------
(* What the packets of the raw debug dialog are answered with.              *)

\* Multiples of m do not change what remains.
LEMMA Remains ==
    ASSUME NEW m \in Nat \ {0}, NEW c \in Int, NEW r \in Nat, m * c + r \in Nat
    PROVE  (m * c + r) % m = r % m
<1> DEFINE x == m * c + r
           d == r \div m
           s == r % m
           e == x \div m
           t == x % m
<1>1. r = m * d + s /\ s \in Int /\ 0 <= s /\ s < m /\ d \in Int
  BY Z3
<1>2. x = m * e + t /\ t \in Int /\ 0 <= t /\ t < m /\ e \in Int
  BY Z3
<1> HIDE DEF d, s, e, t
<1> DEFINE u == c + d - e
<1>3. m * u = t - s /\ u \in Int
  <2>1. m * c + m * d + s = m * e + t
    BY <1>1, <1>2
  <2>2. m * (c + d - e) = m * c + m * d - m * e
    BY <1>1, <1>2
  <2> QED
    BY <1>1, <1>2, <2>1, <2>2
<1> HIDE DEF u
<1>4. u = 0
  <2>1. u >= 1 => m * u >= m
    BY <1>3
  <2>2. u <= -1 => m * u <= -m
    BY <1>3
  <2> QED
    BY <1>1, <1>2, <1>3, <2>1, <2>2
<1>5. t = s
  BY <1>1, <1>2, <1>3, <1>4
<1> QED
  BY <1>5 DEF t, s

LEMMA CellsRepeat ==
    ASSUME NEW m \in Nat \ {0}, NEW N \in Nat \ {0}, N % m = 0, NEW a \in Nat
    PROVE  (a % N) % m = a % m
<1> DEFINE k == N \div m
           q == a \div N
           r == a % N
<1>1. N = m * k /\ k \in Int
  BY Z3
<1>2. a = N * q + r /\ q \in Int /\ r \in Nat
  BY Z3
<1> HIDE DEF k, q, r
<1>3. a = m * (k * q) + r /\ k * q \in Int
  BY <1>1, <1>2
<1> DEFINE c == k * q
<1> HIDE DEF c
<1>4. a = m * c + r /\ c \in Int
  BY <1>3 DEF c
<1>5. (m * c + r) % m = r % m
  BY <1>2, <1>4, Remains
<1> QED
  BY <1>4, <1>5 DEF r

\* The answers of Meaning by their opcode, which is a number.
LEMMA AnswerIs ==
    ASSUME NEW n, NEW p
    PROVE  /\ p[1] = 0 => Meaning!Answer(n, p) = SubSeq(p, 4, Len(p))
           /\ p[1] = 1 => Meaning!Answer(n, p) =
                 [i \in 1 .. NumBytes(p) |-> n.cpu[(Addr(p) + i - 1) % MemSize]]
           /\ p[1] = 2 => Meaning!Answer(n, p) = <<>>
  BY DEF Meaning!Answer, Meaning!Opcode, Meaning!FetchAll, Meaning!NumBytes, Meaning!Addr,
         NumBytes, Addr,
         Meaning!DbgPacketOpCodeEcho, Meaning!DbgPacketOpCodeCpuMemRd,
         Meaning!DbgPacketOpCodePpuMemRd, Meaning!DbgPacketOpCodeCpuRegRd,
         Meaning!DbgPacketOpCodeQueryErrCode, Meaning!DbgPacketOpCodeQueryHlt

\* A read that goes on from the first address where addresses end.
LEMMA FetchIs ==
    ASSUME NEW mem, NEW a \in Nat, NEW n \in Nat
    PROVE  Fetch(mem, a, n) = [i \in 1 .. n |-> mem[(a + i - 1) % MemSize]]
<1> DEFINE N == Base * Base
<1>1. N \in Nat \ {0} /\ MemSize \in Nat \ {0} /\ N % MemSize = 0
  BY CommAssumption, NesDbgAssumption, SMT
<1> HIDE DEF N
<1>2. ASSUME NEW i \in 1 .. n
      PROVE  Cell((a + i - 1) % N) = (a + i - 1) % MemSize
  <2>1. a + i - 1 \in Nat
    OBVIOUS
  <2> DEFINE c == a + i - 1
  <2> HIDE DEF c
  <2>2. (c % N) % MemSize = c % MemSize
    BY <1>1, <2>1, CellsRepeat DEF c
  <2> QED
    BY <2>2 DEF Cell, c
<1>3. Fetch(mem, a, n) = [i \in 1 .. n |-> mem[Cell((a + i - 1) % N)]]
  BY DEF Fetch, N
<1> QED
  BY <1>2, <1>3

LEMMA AfterThree ==
    ASSUME NEW g \in Seq(Bytes), Len(g) = 3, NEW t \in Seq(Bytes)
    PROVE  SubSeq(g \o t, 4, Len(g \o t)) = t
<1> DEFINE p == g \o t
           s == SubSeq(p, 4, Len(p))
<1> HIDE DEF p
<1>0. /\ p \in Seq(Bytes) /\ Len(p) = Len(g) + Len(t)
      /\ \A i \in 1 .. Len(g) + Len(t) : p[i] = IF i <= Len(g) THEN g[i] ELSE t[i - Len(g)]
  BY Joined DEF p
<1>1. p \in Seq(Bytes) /\ Len(p) = 3 + Len(t) /\ Len(t) \in Nat
      /\ \A i \in 1 .. Len(t) : p[i + 3] = t[i]
  <2>1. Len(t) \in Nat
    OBVIOUS
  <2>2. ASSUME NEW i \in 1 .. Len(t)
        PROVE  p[i + 3] = t[i]
    <3>1. i + 3 \in 1 .. 3 + Len(t) /\ ~(i + 3 <= 3) /\ i + 3 - 3 = i
      BY <2>1
    <3> QED
      BY <1>0, <3>1
  <2> QED
    BY <1>0, <2>1, <2>2
<1>2. s \in Seq(Bytes) /\ Len(s) = Len(t) /\ \A i \in 1 .. Len(t) : s[i] = p[i + 3]
  BY <1>1
<1> HIDE DEF s
<1>3. s = t
  BY <1>1, <1>2, SeqEqual
<1> QED
  BY <1>3 DEF s, p

\* What is typed is the packet made of it, unless the heap had to complete it.
LEMMA TypedIsSent ==
    ASSUME NEW text \in Texts, NEW heap \in Heap,
           CreateObjFromString(text, heap) # NoPacket
    PROVE  LET p == CreateObjFromString(text, heap)
           IN  IsPacket(p) /\ p[1] \in {0, 1, 2} /\ AsTyped(text, p) = p
<1> DEFINE b == TypedBytes(text)
           raw(i) == IF i <= Len(b) THEN b[i] ELSE heap
           ushort(i) == raw(i) + Base * raw(i + 1)
           data(i, n) == [k \in 1 .. n |-> raw(i + k - 1)]
           p == CreateObjFromString(text, heap)
<1>0. IsHex(text)
  BY DEF CreateObjFromString
<1>1. b \in Seq(Bytes) /\ heap \in Bytes
  BY <1>0, NesDbgAssumption, CommAssumption DEF Bytes
<1>2. \/ raw(1) = 0 /\ p = EchoPacket(data(4, ushort(2)))
      \/ raw(1) = 1 /\ p = CpuMemRdPacket(ushort(2), ushort(4))
      \/ raw(1) = 2 /\ p = CpuMemWrPacket(ushort(2), data(6, ushort(4)))
  BY DEF CreateObjFromString, DbgPacketOpCodeEcho, DbgPacketOpCodeCpuMemRd,
         DbgPacketOpCodeCpuMemWr
<1>3. IsPacket(p)
  BY TypedPacket
<1> HIDE DEF p, b
<1>4. \A i \in Nat \ {0} : raw(i) \in Bytes
  BY <1>1
<1>5. \A i \in 1 .. Len(b) : raw(i) = b[i]
  BY <1>1
<1> HIDE DEF raw
<1>6. ASSUME NEW i \in Nat \ {0}
      PROVE  /\ ushort(i) \in Ushorts /\ ushort(i) \in Nat
             /\ Word(ushort(i)) = <<raw(i), raw(i + 1)>>
  <2> DEFINE x == raw(i)
             y == raw(i + 1)
  <2>1. x \in Bytes /\ y \in Bytes
    BY <1>4
  <2> HIDE DEF x, y
  <2>2. x + Base * y \in Ushorts /\ x + Base * y \in Nat
    BY <2>1, TwoBytes
  <2>3. (x + 256 * y) % 256 = x /\ (x + 256 * y) \div 256 = y
    BY <2>1, ByteRange, SMT
  <2>4. Word(x + Base * y) = <<x, y>>
    BY <2>2, <2>3, WordBytes, ByteRange
  <2> QED
    BY <2>2, <2>4 DEF x, y
<1>7. ASSUME NEW i \in {4, 6}, NEW n \in Nat
      PROVE  /\ data(i, n) \in Seq(Bytes) /\ Len(data(i, n)) = n
             /\ \A k \in 1 .. n : data(i, n)[k] = raw(i + k - 1)
  <2>1. \A k \in 1 .. n : raw(i + k - 1) \in Bytes
    BY <1>4
  <2> QED
    BY <2>1
<1> HIDE DEF ushort, data
<1>8. p[1] \in {0, 1, 2} /\ \A i \in 1 .. Len(p) : p[i] = raw(i)
  <2>1. ASSUME NEW op \in Bytes, NEW d \in Seq(Bytes), op = raw(1),
               \A k \in 1 .. Len(d) : d[k] = raw(4 + k - 1),
               p = <<op>> \o Word(ushort(2)) \o d
        PROVE  p[1] = op /\ \A i \in 1 .. Len(p) : p[i] = raw(i)
    <3> DEFINE g == <<op>>
               v == Word(ushort(2))
               h == g \o v
    <3>1. g \in Seq(Bytes) /\ Len(g) = 1 /\ g[1] = raw(1)
      BY <2>1
    <3>2. v \in Seq(Bytes) /\ Len(v) = 2 /\ v[1] = raw(2) /\ v[2] = raw(3)
      <4>1. v = <<raw(2), raw(3)>> /\ raw(2) \in Bytes /\ raw(3) \in Bytes
        BY <1>4, <1>6
      <4> HIDE DEF v
      <4> QED
        BY <4>1
    <3>3. p = h \o d
      BY <2>1
    <3> HIDE DEF g, v, h
    <3>4. h \in Seq(Bytes) /\ Len(h) = 3 /\ h[1] = raw(1) /\ h[2] = raw(2) /\ h[3] = raw(3)
      <4>1. /\ h \in Seq(Bytes) /\ Len(h) = Len(g) + Len(v)
            /\ \A k \in 1 .. Len(g) + Len(v) : h[k] = IF k <= Len(g) THEN g[k] ELSE v[k - Len(g)]
        BY <3>1, <3>2, Joined DEF h
      <4> QED
        BY <3>1, <3>2, <4>1
    <3>5. /\ p \in Seq(Bytes) /\ Len(p) = 3 + Len(d) /\ Len(d) \in Nat
          /\ \A i \in 1 .. 3 + Len(d) : p[i] = IF i <= 3 THEN h[i] ELSE d[i - 3]
      <4> DEFINE q == h \o d
      <4>1. /\ q \in Seq(Bytes) /\ Len(q) = Len(h) + Len(d)
            /\ \A i \in 1 .. Len(h) + Len(d) : q[i] = IF i <= Len(h) THEN h[i] ELSE d[i - Len(h)]
        BY <3>4, Joined
      <4>2. Len(d) \in Nat
        OBVIOUS
      <4>3. p = q
        BY <3>3
      <4> HIDE DEF q
      <4> QED
        BY <3>4, <4>1, <4>2, <4>3
    <3>6. ASSUME NEW i \in 1 .. Len(p)
          PROVE  p[i] = raw(i)
      <4>1. CASE i <= 3
        <5>1. i \in {1, 2, 3}
          BY <3>5, <4>1
        <5> QED
          BY <3>4, <3>5, <4>1, <5>1
      <4>2. CASE ~(i <= 3)
        <5>1. i - 3 \in 1 .. Len(d) /\ 4 + (i - 3) - 1 = i
          BY <3>5, <4>2
        <5> QED
          BY <2>1, <3>5, <4>2, <5>1
      <4> QED
        BY <4>1, <4>2
    <3> QED
      BY <2>1, <3>5, <3>6
  <2>2. 0 \in Bytes /\ 1 \in Bytes /\ 2 \in Bytes
    BY ByteRange
  <2>3. CASE raw(1) = 0 /\ p = EchoPacket(data(4, ushort(2)))
    <3> DEFINE d == data(4, ushort(2))
    <3>1. d \in Seq(Bytes) /\ Len(d) = ushort(2) /\ \A k \in 1 .. Len(d) : d[k] = raw(4 + k - 1)
      <4>1. ushort(2) \in Nat
        BY <1>6
      <4> QED
        BY <1>7, <4>1
    <3> HIDE DEF d
    <3>2. p = << 0 >> \o Word(ushort(2)) \o d
      BY <2>3, <3>1 DEF EchoPacket, DbgPacketOpCodeEcho, d
    <3> QED
      BY <2>1, <2>2, <2>3, <3>1, <3>2
  <2>4. CASE raw(1) = 1 /\ p = CpuMemRdPacket(ushort(2), ushort(4))
    <3> DEFINE d == Word(ushort(4))
    <3>1. d = <<raw(4), raw(5)>> /\ raw(4) \in Bytes /\ raw(5) \in Bytes
      BY <1>4, <1>6
    <3> HIDE DEF d
    <3>2. d \in Seq(Bytes) /\ \A k \in 1 .. Len(d) : d[k] = raw(4 + k - 1)
      <4>1. d \in Seq(Bytes) /\ Len(d) = 2 /\ d[1] = raw(4) /\ d[2] = raw(5)
        BY <3>1
      <4>2. \A k \in 1 .. Len(d) : k = 1 \/ k = 2
        BY <4>1
      <4> QED
        BY <4>1, <4>2
    <3>3. p = << 1 >> \o Word(ushort(2)) \o d
      BY <2>4 DEF CpuMemRdPacket, DbgPacketOpCodeCpuMemRd, d
    <3> QED
      BY <2>1, <2>2, <2>4, <3>2, <3>3
  <2>5. CASE raw(1) = 2 /\ p = CpuMemWrPacket(ushort(2), data(6, ushort(4)))
    <3> DEFINE w == Word(ushort(4))
               x == data(6, ushort(4))
               d == w \o x
    <3>1. w = <<raw(4), raw(5)>> /\ raw(4) \in Bytes /\ raw(5) \in Bytes
      BY <1>4, <1>6
    <3>2. x \in Seq(Bytes) /\ Len(x) = ushort(4) /\ \A k \in 1 .. Len(x) : x[k] = raw(6 + k - 1)
      <4>1. ushort(4) \in Nat
        BY <1>6
      <4> QED
        BY <1>7, <4>1
    <3> HIDE DEF w, x
    <3>3. w \in Seq(Bytes) /\ Len(w) = 2 /\ w[1] = raw(4) /\ w[2] = raw(5)
      BY <3>1
    <3> HIDE DEF d
    <3>4. /\ d \in Seq(Bytes) /\ Len(d) = 2 + Len(x) /\ Len(x) \in Nat
          /\ \A k \in 1 .. 2 + Len(x) : d[k] = IF k <= 2 THEN w[k] ELSE x[k - 2]
      <4>1. /\ d \in Seq(Bytes) /\ Len(d) = Len(w) + Len(x)
            /\ \A k \in 1 .. Len(w) + Len(x) : d[k] = IF k <= Len(w) THEN w[k] ELSE x[k - Len(w)]
        BY <3>2, <3>3, Joined DEF d
      <4>2. Len(x) \in Nat
        BY <3>2
      <4> QED
        BY <3>3, <4>1, <4>2
    <3>5. ASSUME NEW k \in 1 .. Len(d)
          PROVE  d[k] = raw(4 + k - 1)
      <4>1. CASE k <= 2
        <5>1. k = 1 \/ k = 2
          BY <3>4, <4>1
        <5> QED
          BY <3>3, <3>4, <4>1, <5>1
      <4>2. CASE ~(k <= 2)
        <5>1. k - 2 \in 1 .. Len(x) /\ 6 + (k - 2) - 1 = 4 + k - 1
          BY <3>4, <4>2
        <5>2. d[k] = x[k - 2]
          BY <3>4, <4>2
        <5> QED
          BY <3>2, <5>1, <5>2
      <4> QED
        BY <4>1, <4>2
    <3>6. p = << 2 >> \o Word(ushort(2)) \o d
      <4> DEFINE h == << 2 >> \o Word(ushort(2))
      <4>1. h \in Seq(Bytes)
        BY <1>6, <2>2, Head3
      <4>2. p = h \o w \o x
        BY <2>5, <3>2 DEF CpuMemWrPacket, DbgPacketOpCodeCpuMemWr, w, x
      <4> HIDE DEF h
      <4>3. (h \o w) \o x = h \o (w \o x)
        BY <3>2, <3>3, <4>1, Assoc
      <4> QED
        BY <4>2, <4>3 DEF h, d
    <3> QED
      BY <2>1, <2>2, <2>5, <3>4, <3>5, <3>6
  <2> QED
    BY <1>2, <2>3, <2>4, <2>5
<1>9. AsTyped(text, p) = p
  <2> DEFINE s == SubSeq(b, 1, Len(p))
  <2>1. p \in Seq(Bytes) /\ Len(p) \in Nat /\ Len(b) \in Nat
    BY <1>1, <1>3 DEF IsPacket
  <2>2. ASSUME Len(b) >= Len(p)
        PROVE  s = p
    <3>1. \A i \in 1 .. Len(p) : b[i] \in Bytes
      BY <1>1, <2>1, <2>2
    <3>2. s \in Seq(Bytes) /\ Len(s) = Len(p) /\ \A i \in 1 .. Len(p) : s[i] = b[i]
      BY <1>1, <2>1, <2>2
    <3> HIDE DEF s
    <3>3. \A i \in 1 .. Len(p) : s[i] = p[i]
      BY <1>5, <1>8, <2>1, <2>2, <3>2
    <3> QED
      BY <2>1, <3>2, <3>3, SeqEqual
  <2>3. AsTyped(text, p) = IF Len(b) >= Len(p) THEN s ELSE p
    BY DEF AsTyped, b
  <2> QED
    BY <2>2, <2>3
<1> QED
  BY <1>3, <1>8, <1>9 DEF p

-----------------------------------------------------------------------------
(* What the machine makes of the packet, byte by byte.                      *)

\* The answer hangs on memory alone, and is as long as it is expected.
LEMMA SameAnswer ==
    ASSUME NEW n, NEW m, m.cpu = n.cpu, NEW p, NEW o, NEW a, Asks(n, p, o, a)
    PROVE  Asks(m, p, o, a)
<1>1. IsPacket(p) /\ p[1] \in {0, 1, 2} /\ o = <<>> /\ a = Meaning!Answer(n, p)
  BY DEF Asks
<1>2. Meaning!Answer(m, p) = Meaning!Answer(n, p)
  <2> DEFINE read(mem) == [i \in 1 .. NumBytes(p) |-> mem[(Addr(p) + i - 1) % MemSize]]
  <2>1. CASE p[1] = 1
    <3>1. Meaning!Answer(n, p) = read(n.cpu) /\ Meaning!Answer(m, p) = read(m.cpu)
      BY <2>1, AnswerIs
    <3> HIDE DEF read
    <3> QED
      BY <3>1
  <2>2. CASE p[1] \in {0, 2}
    BY <2>2, AnswerIs
  <2> QED
    BY <1>1, <2>1, <2>2
<1> QED
  BY <1>1, <1>2 DEF Asks

LEMMA AddressOf ==
    ASSUME NEW p, IsPacket(p), p[1] \in {1, 2}
    PROVE  Addr(p) \in Nat /\ NumBytes(p) \in Nat
<1>1. p \in Seq(Bytes) /\ Len(p) \in Nat /\ Len(p) >= 5
  BY DEF IsPacket
<1>2. p[2] \in Bytes /\ p[3] \in Bytes /\ p[4] \in Bytes /\ p[5] \in Bytes
  BY <1>1, ByteOf
<1>3. Addr(p) = p[2] + Base * p[3] /\ NumBytes(p) = p[4] + Base * p[5]
  BY DEF Addr, NumBytes
<1> QED
  BY <1>2, <1>3, TwoBytes

\* The data of an echo.
LEMMA AfterHeader ==
    ASSUME NEW p \in Seq(Bytes), Len(p) >= 3
    PROVE  SubSeq(p, 4, Len(p)) \in Seq(Bytes) /\ Len(SubSeq(p, 4, Len(p))) = Len(p) - 3
<1> DEFINE k == Len(p)
           u == SubSeq(p, 4, k)
<1>1. k \in Nat /\ k >= 3 /\ \A i \in 4 .. k : p[i] \in Bytes
  OBVIOUS
<1> HIDE DEF k
<1>2. u \in Seq(Bytes) /\ Len(u) = IF 4 <= k THEN k - 4 + 1 ELSE 0
  BY <1>1, SubSeqProperties
<1> HIDE DEF u
<1>3. Len(u) = k - 3
  BY <1>1, <1>2
<1> QED
  BY <1>2, <1>3 DEF u, k

LEMMA AnswerLen ==
    ASSUME NesOK(nes), NEW p, IsPacket(p), p[1] \in {0, 1, 2}
    PROVE  /\ Meaning!Answer(nes, p) \in Seq(Bytes)
           /\ Len(Meaning!Answer(nes, p)) = ReturnBytesExpected(p)
<1>1. p \in Seq(Bytes) /\ Len(p) \in Nat /\ Len(p) = SizeInBytes(p)
  BY DEF IsPacket
<1>2. CASE p[1] = 0
  <2>1. Len(p) >= 3 /\ Len(p) = 3 + EchoCount(p) /\ ReturnBytesExpected(p) = EchoCount(p)
    BY <1>1, <1>2, Sizes DEF IsPacket
  <2>2. EchoCount(p) \in Nat
    BY <2>1, ExpectedIsNat
  <2>3. Meaning!Answer(nes, p) = SubSeq(p, 4, Len(p))
    BY <1>2, AnswerIs
  <2>4. SubSeq(p, 4, Len(p)) \in Seq(Bytes) /\ Len(SubSeq(p, 4, Len(p))) = Len(p) - 3
    BY <1>1, <2>1, AfterHeader
  <2> DEFINE s == SubSeq(p, 4, Len(p))
  <2> HIDE DEF s
  <2>5. s \in Seq(Bytes) /\ Len(s) = EchoCount(p)
    BY <2>1, <2>2, <2>4 DEF s
  <2> QED
    BY <2>1, <2>3, <2>5 DEF s
<1>3. CASE p[1] = 1
  <2>1. Addr(p) \in Nat /\ NumBytes(p) \in Nat /\ nes.cpu \in Memories
    BY <1>3, AddressOf DEF NesOK, Machines
  <2>2. Meaning!Answer(nes, p) = Fetch(nes.cpu, Addr(p), NumBytes(p))
    <3> DEFINE read(x, n) == [i \in 1 .. n |-> nes.cpu[(x + i - 1) % MemSize]]
    <3>1. Meaning!Answer(nes, p) = read(Addr(p), NumBytes(p))
      BY <1>3, AnswerIs
    <3>2. \A x, n \in Nat : Fetch(nes.cpu, x, n) = read(x, n)
      BY FetchIs
    <3> HIDE DEF read
    <3> QED
      BY <2>1, <3>1, <3>2
  <2>3. ReturnBytesExpected(p) = NumBytes(p)
    BY <1>3, Sizes
  <2> QED
    BY <2>1, <2>2, <2>3, FetchOK
<1>4. CASE p[1] = 2
  <2>1. Meaning!Answer(nes, p) = <<>> /\ ReturnBytesExpected(p) = 0
    BY <1>4, AnswerIs, Sizes
  <2>2. <<>> \in Seq(Bytes) /\ Len(<<>>) = 0
    OBVIOUS
  <2> QED
    BY <2>1, <2>2
<1> QED
  BY <1>2, <1>3, <1>4

\* The opcode says only what is to come.
LEMMA OpcodeKeeps ==
    ASSUME NesOK(nes), nes.in = OPCODE, NEW b \in {0, 1, 2}
    PROVE  After(b).cpu = nes.cpu /\ After(b).in \in {"echo", "cpu_rd", "cpu_wr"}
<1>1. DOMAIN PacketOf = {0, 1, 2, 5, 6, 9, 10} /\ PacketOf[b] \in {"echo", "cpu_rd", "cpu_wr"}
  BY DEF PacketOf, OP_ECHO, OP_CPU_MEM_RD, OP_CPU_MEM_WR, OP_CPU_REG_RD, OP_CPU_REG_WR,
         OP_PPU_MEM_RD, OP_PPU_MEM_WR
<1>2. After(b) = AfterOpcode(b)
  BY DEF After, Running, OPCODE, DISABLED, InHead, LastOfHead
<1> DEFINE m == [nes EXCEPT !.in = PacketOf[b]]
<1>3. AfterOpcode(b) = m
  BY <1>1 DEF AfterOpcode, OP_CART_SET_CFG, OP_DBG_RUN
<1>4. {"in", "cpu"} \subseteq DOMAIN nes
  BY DEF NesOK, Machines
<1>5. m.cpu = nes.cpu /\ m.in = PacketOf[b]
  BY <1>4
<1> QED
  BY <1>1, <1>2, <1>3, <1>5

LEMMA AnswersAtOpcode ==
    ASSUME NesOK(nes), nes.in = OPCODE, NEW w, NEW o, NEW a, Asks(nes, w, o, a)
    PROVE  Answers(After(Head(w)), Tail(w), o \o Reply(Head(w)), a)
<1> DEFINE b == Head(w)
           m == After(b)
           t == Tail(w)
           r == Reply(b)
<1>1. IsPacket(w) /\ w[1] \in {0, 1, 2} /\ o = <<>> /\ w \in Seq(Bytes) /\ w # <<>>
  BY DEF Asks, IsPacket
<1>2. b \in Bytes /\ b = w[1] /\ t \in Seq(Bytes) /\ <<b>> \o t = w
  BY <1>1, FirstByte
<1>3. b \in {0, 1, 2}
  BY <1>1, <1>2
<1>4. m.in = PacketOf[b] /\ m.left = 0 /\ r = <<>> /\ m.head = <<>>
  BY <1>2, <1>3, AtOpcode
<1>5. m.cpu = nes.cpu /\ m.in \in {"echo", "cpu_rd", "cpu_wr"}
  BY <1>3, OpcodeKeeps
<1> HIDE DEF m, r
<1>6. OpOf[m.in] = b
  BY <1>3, <1>4, OpOfPackets
<1>7. Full(m, t) = <<b>> \o <<>> \o t
  BY <1>4, <1>6 DEF Full
<1>8. <<b>> \o <<>> = <<b>>
  <2>1. <<b>> \in Seq(Bytes)
    BY <1>2
  <2> QED
    BY <2>1, ConcatEmptySeq
<1>9. Full(m, t) = w
  BY <1>2, <1>7, <1>8
<1>10. o \o r = o
  BY <1>1, <1>4
<1>11. Asks(m, Full(m, t), o \o r, a)
  BY <1>5, <1>9, <1>10, SameAnswer
<1> QED
  BY <1>4, <1>5, <1>11 DEF Answers, m, t, r

\* The data of an echo are what is on the wire after the last byte of its head.
LEMMA EchoData ==
    ASSUME NEW op \in Bytes, NEW h \in Seq(Bytes), Len(h) = 1, NEW w \in Seq(Bytes), w # <<>>
    PROVE  LET p == <<op>> \o h \o w IN SubSeq(p, 4, Len(p)) = Tail(w)
<1> DEFINE b == Head(w)
           t == Tail(w)
           k == Append(h, b)
           g == <<op>> \o k
<1>1. b \in Bytes /\ t \in Seq(Bytes)
  BY FirstByte
<1>2. <<op>> \o k \o t = <<op>> \o h \o w
  BY AppendTail
<1> HIDE DEF b, t
<1>3. k \in Seq(Bytes) /\ Len(k) = 2
  <2>1. k \in Seq(Bytes) /\ Len(k) = Len(h) + 1
    BY <1>1, Appended
  <2> HIDE DEF k
  <2> QED
    BY <2>1
<1> HIDE DEF k
<1>4. g \in Seq(Bytes) /\ Len(g) = 3
  <2> DEFINE f == <<op>>
  <2>1. f \in Seq(Bytes) /\ Len(f) = 1
    OBVIOUS
  <2> HIDE DEF f
  <2>2. f \o k \in Seq(Bytes) /\ Len(f \o k) = Len(f) + Len(k)
    BY <1>3, <2>1, Joined
  <2> QED
    BY <1>3, <2>1, <2>2 DEF f
<1> HIDE DEF g
<1>5. SubSeq(g \o t, 4, Len(g \o t)) = t
  BY <1>1, <1>4, AfterThree
<1>6. g \o t = <<op>> \o h \o w
  BY <1>2 DEF g
<1> QED
  BY <1>5, <1>6 DEF t

LEMMA AnswersInHead ==
    ASSUME NesOK(nes), nes.in \in {"echo", "cpu_rd", "cpu_wr"}, nes.left = 0,
           NEW w \in Seq(Bytes), w # <<>>, NEW o, NEW a, Asks(nes, Full(nes, w), o, a)
    PROVE  Answers(After(Head(w)), Tail(w), o \o Reply(Head(w)), a)
<1> DEFINE b == Head(w)
           m == After(b)
           t == Tail(w)
           r == Reply(b)
           h == nes.head
           op == OpOf[nes.in]
           p == Full(nes, w)
<1>1. /\ b \in Bytes /\ t \in Seq(Bytes) /\ Len(t) = Len(w) - 1 /\ Len(w) \in Nat
      /\ (Len(w) = 1 => t = <<>>)
  BY FirstByte
<1>2. nes.in \in InPackets \ {"cfg"} /\ op \in Bytes
  BY OpOfPackets DEF InPackets
<1>3. h \in Seq(Bytes) /\ Len(h) \in Nat
  BY DEF NesOK, Machines
<1>4. IsPacket(p) /\ p[1] \in {0, 1, 2} /\ o = <<>> /\ a = Meaning!Answer(nes, p)
  BY DEF Asks
<1>5. p = <<op>> \o h \o w
  BY DEF Full
<1>6. CASE Len(h) # HeadLen(nes.in) - 1
  <2>1. /\ m.in = nes.in /\ m.left = 0 /\ m.head = Append(h, b) /\ r = <<>>
        /\ m.cpu = nes.cpu
    BY <1>1, <1>2, <1>6, AtHead
  <2> HIDE DEF m, t, r
  <2>2. Full(m, t) = <<op>> \o Append(h, b) \o t
    BY <2>1 DEF Full
  <2>3. Full(m, t) = p
    BY <1>2, <1>3, <1>5, <2>2, AppendTail DEF t
  <2>4. o \o r = o
    BY <1>4, <2>1
  <2>5. Asks(m, Full(m, t), o \o r, a)
    BY <2>1, <2>3, <2>4, SameAnswer
  <2> QED
    BY <2>1, <2>5 DEF Answers, m, t, r
<1>7. CASE Len(h) = HeadLen(nes.in) - 1
  <2> DEFINE c == Count(h, b)
  <2>1. /\ NesOK(m) /\ r \in Seq(Bytes)
        /\ nes.in = "echo" => c = h[1] + Base * b
        /\ nes.in \in Reads \cup Writes => c = h[3] + Base * b
        /\ nes.in \in {"echo"} \cup Writes => r = <<>> /\
                 IF c > 0 THEN m.in = nes.in /\ m.head = <<>> /\ m.left = c
                 ELSE IsBetween(m)
        /\ nes.in \in Reads => /\ IsBetween(m)
                 /\ r = Fetch(IF nes.in = "cpu_rd" THEN nes.cpu ELSE nes.ppu,
                              h[1] + Base * h[2], c)
    BY <1>1, <1>2, <1>7, AtHeadEnd
  <2>2. /\ Len(p) = 1 + Len(h) + Len(w) /\ p[1] = op
        /\ (\A i \in 1 .. Len(h) : p[i + 1] = h[i]) /\ p[Len(h) + 2] = b
    <3> DEFINE q == <<op>> \o h \o w
    <3> HIDE DEF op, h
    <3>1. /\ Len(q) = 1 + Len(h) + Len(w) /\ q[1] = op
          /\ (\A i \in 1 .. Len(h) : q[i + 1] = h[i]) /\ q[Len(h) + 2] = Head(w)
      BY <1>2, <1>3, InFull
    <3> HIDE DEF q
    <3>2. p = q
      BY <1>5 DEF q, op, h
    <3> QED
      BY <3>1, <3>2
  <2>3. Len(p) = SizeInBytes(p)
    BY <1>4 DEF IsPacket
  <2>4. SizeInBytes(p) = 1 + Len(h) + Len(w)
    BY <1>1, <2>2, <2>3
  <2>5. \A i \in 1 .. Len(h) : h[i] \in Bytes
    BY <1>3, ByteOf
  <2>6. ASSUME nes.in = "echo"
        PROVE  a = t
    <3>1. Len(h) = 1 /\ op = 0
      BY <1>7, <2>6, HeadLens, OpOfIn
    <3>2. a = SubSeq(p, 4, Len(p))
      BY <1>4, <2>2, <3>1, AnswerIs
    <3> DEFINE q == <<op>> \o h \o w
    <3> HIDE DEF op, h, t, b
    <3>3. SubSeq(q, 4, Len(q)) = t
      BY <1>2, <1>3, <3>1, EchoData DEF t
    <3> HIDE DEF q
    <3>4. p = q
      BY <1>5 DEF q
    <3> QED
      BY <3>2, <3>3, <3>4
  <2>7. <<>> \o <<>> = <<>> /\ (\A s \in Seq(Bytes) : <<>> \o s = s)
    OBVIOUS
  <2> HIDE DEF m, t, r, c, h, op, p, b
  \* Without data to come the answer is there; with some it is what they make it.
  <2>8. ASSUME c \in Nat, Len(t) = c, r = <<>>, nes.in = "echo" \/ a = <<>>,
               IF c > 0 THEN m.in = nes.in /\ m.head = <<>> /\ m.left = c ELSE IsBetween(m)
        PROVE  Answers(m, t, o \o r, a)
    <3>1. o \o r = <<>>
      BY <1>4, <2>7, <2>8
    <3>2. CASE c > 0
      <4>1. m.left > 0 /\ Len(t) = m.left /\ m.in = nes.in
        BY <2>8, <3>2
      <4>2. a = IF m.in = "echo" THEN (o \o r) \o t ELSE o \o r
        BY <1>1, <2>6, <2>7, <2>8, <3>1, <4>1
      <4> QED
        BY <4>1, <4>2 DEF Answers
    <3>3. CASE ~(c > 0)
      <4>1. t = <<>>
        BY <1>1, <2>8, <3>3, NoBytes
      <4> QED
        BY <2>6, <2>8, <3>1, <4>1 DEF Answers
    <3> QED
      BY <3>2, <3>3
  <2>9. CASE nes.in = "echo"
    <3>1. Len(h) = 1 /\ op = 0
      BY <1>7, <2>9, HeadLens, OpOfIn DEF op
    <3>2. p[2] = h[1] /\ p[3] = b /\ h[1] \in Bytes
      BY <2>2, <2>5, <3>1
    <3>3. EchoCount(p) = c /\ c \in Nat
      BY <1>1, <2>1, <2>9, <3>2, TwoBytes DEF EchoCount
    <3>4. SizeInBytes(p) = 3 + c
      BY <2>2, <3>1, <3>3, Sizes
    <3>5. Len(t) = c
      BY <1>1, <2>4, <3>1, <3>3, <3>4
    <3>6. Answers(m, t, o \o r, a)
      BY <2>1, <2>8, <2>9, <3>3, <3>5
    <3> QED
      BY <3>6 DEF m, t, r, b
  <2>10. CASE nes.in = "cpu_wr"
    <3>1. Len(h) = 3 /\ op = 2
      BY <1>7, <2>10, HeadLens, OpOfIn DEF op
    <3>2. p[4] = h[3] /\ p[5] = b /\ h[3] \in Bytes
      BY <2>2, <2>5, <3>1
    <3>3. NumBytes(p) = c /\ c \in Nat
      BY <1>1, <2>1, <2>10, <3>2, TwoBytes DEF NumBytes, Writes
    <3>4. SizeInBytes(p) = 5 + c
      BY <2>2, <3>1, <3>3, Sizes
    <3>5. Len(t) = c
      BY <1>1, <2>4, <3>1, <3>3, <3>4
    <3>6. a = <<>>
      BY <1>4, <2>2, <3>1, AnswerIs
    <3>7. Answers(m, t, o \o r, a)
      BY <2>1, <2>8, <2>10, <3>3, <3>5, <3>6 DEF Writes
    <3> QED
      BY <3>7 DEF m, t, r, b
  <2>11. CASE nes.in = "cpu_rd"
    <3>1. Len(h) = 3 /\ op = 1
      BY <1>7, <2>11, HeadLens, OpOfIn DEF op
    <3>2. /\ p[2] = h[1] /\ p[3] = h[2] /\ p[4] = h[3] /\ p[5] = b
      BY <2>2, <3>1
    <3>3. NumBytes(p) = c /\ Addr(p) = h[1] + Base * h[2]
      BY <2>1, <2>11, <3>2 DEF NumBytes, Addr, Reads
    <3>4. Addr(p) \in Nat /\ NumBytes(p) \in Nat
      BY <1>4, <2>2, <3>1, AddressOf
    <3>5. t = <<>>
      <4>1. SizeInBytes(p) = 5
        BY <2>2, <3>1, Sizes
      <4>2. Len(t) = 0
        BY <1>1, <2>4, <3>1, <4>1
      <4> QED
        BY <1>1, <4>2, NoBytes
    <3>6. r = Fetch(nes.cpu, Addr(p), NumBytes(p))
      BY <2>1, <2>11, <3>3 DEF Reads
    <3>7. a = r
      <4> DEFINE read(x, n) == [i \in 1 .. n |-> nes.cpu[(x + i - 1) % MemSize]]
      <4>1. Meaning!Answer(nes, p) = read(Addr(p), NumBytes(p))
        BY <2>2, <3>1, AnswerIs
      <4>2. \A x, n \in Nat : Fetch(nes.cpu, x, n) = read(x, n)
        BY FetchIs
      <4> HIDE DEF read
      <4> QED
        BY <1>4, <3>4, <3>6, <4>1, <4>2
    <3>8. o \o r = a
      BY <1>4, <2>1, <2>7, <3>7
    <3> QED
      BY <3>5, <3>8 DEF Answers, m, t, r, b
  <2> QED
    BY <2>9, <2>10, <2>11
<1> QED
  BY <1>6, <1>7

LEMMA AnswersInData ==
    ASSUME NesOK(nes), nes.left > 0, NEW w \in Seq(Bytes), w # <<>>, Len(w) = nes.left,
           NEW o \in Seq(Bytes), NEW a, a = IF nes.in = "echo" THEN o \o w ELSE o
    PROVE  Answers(After(Head(w)), Tail(w), o \o Reply(Head(w)), a)
<1> DEFINE b == Head(w)
           m == After(b)
           t == Tail(w)
           r == Reply(b)
           e == <<b>>
<1>1. /\ b \in Bytes /\ t \in Seq(Bytes) /\ Len(t) = Len(w) - 1 /\ Len(w) \in Nat
      /\ (Len(w) = 1 => t = <<>>) /\ <<b>> \o t = w /\ e \in Seq(Bytes)
  BY FirstByte
<1>2. /\ r = IF nes.in = "echo" THEN e ELSE <<>>
      /\ nes.left # 1 => m.in = nes.in /\ m.left = nes.left - 1
  BY <1>1, AtData
<1>3. e \o t = w
  BY <1>1
<1> HIDE DEF m, t, r, b, e
<1>4. nes.in = "echo" => (o \o r) \o t = a /\ o \o r \in Seq(Bytes)
  <2>1. (o \o e) \o t = o \o (e \o t) /\ o \o e \in Seq(Bytes)
    BY <1>1, Assoc, Joined
  <2> QED
    BY <1>2, <1>3, <2>1
<1>5. nes.in # "echo" => o \o r = a
  BY <1>2, NoReply
<1>6. CASE nes.left = 1
  <2>1. t = <<>>
    BY <1>1, <1>6
  <2>2. nes.in = "echo" => o \o r = a
    <3>1. \A s \in Seq(Bytes) : s \o <<>> = s
      BY NoReply
    <3> QED
      BY <1>4, <2>1, <3>1
  <2> QED
    BY <1>5, <2>1, <2>2 DEF Answers, m, t, r, b
<1>7. CASE nes.left # 1
  <2>1. m.left > 0 /\ Len(t) = m.left /\ m.in = nes.in
    BY <1>1, <1>2, <1>7
  <2>2. a = IF m.in = "echo" THEN (o \o r) \o t ELSE o \o r
    BY <1>4, <1>5, <2>1
  <2> QED
    BY <2>1, <2>2 DEF Answers, m, t, r, b
<1> QED
  BY <1>6, <1>7

\* A byte leaves the wire, and the answer stays the same.
LEMMA AnswersStep ==
    ASSUME NesOK(nes), NEW w \in Seq(Bytes), w # <<>>, NEW o \in Seq(Bytes), NEW a,
           Answers(nes, w, o, a)
    PROVE  Answers(After(Head(w)), Tail(w), o \o Reply(Head(w)), a)
<1>1. CASE nes.in = OPCODE /\ Asks(nes, w, o, a)
  BY <1>1, AnswersAtOpcode
<1>2. CASE /\ nes.in \in {"echo", "cpu_rd", "cpu_wr"} /\ nes.left = 0
           /\ Asks(nes, Full(nes, w), o, a)
  BY <1>2, AnswersInHead
<1>3. CASE nes.left > 0 /\ Len(w) = nes.left /\ a = IF nes.in = "echo" THEN o \o w ELSE o
  BY <1>3, AnswersInData
<1> QED
  BY <1>1, <1>2, <1>3 DEF Answers

\* With nothing on the wire the answer is there, all of it.
LEMMA AnswersEmpty ==
    ASSUME NesOK(nes), NEW o, NEW a, Answers(nes, <<>>, o, a)
    PROVE  o = a
<1>1. ~IsPacket(<<>>)
  BY DEF IsPacket
<1>2. ASSUME nes.in \in {"echo", "cpu_rd", "cpu_wr"}, nes.left = 0, Asks(nes, Full(nes, <<>>), o, a)
      PROVE  FALSE
  <2> DEFINE h == nes.head
             op == OpOf[nes.in]
             f == <<op>>
             p == f \o h
  <2>1. h \in Seq(Bytes) /\ Len(h) < HeadLen(nes.in) /\ op \in Bytes /\ nes.in \in InPackets
    BY <1>2, OpOfPackets DEF NesOK, Shape, Machines, InPackets
  <2>2. f \in Seq(Bytes) /\ Len(f) = 1 /\ f[1] = op
    BY <2>1
  <2> HIDE DEF f, h, op
  <2>3. p \in Seq(Bytes) /\ Len(p) = 1 + Len(h) /\ Len(h) \in Nat /\ p[1] = op
    <3>1. /\ p \in Seq(Bytes) /\ Len(p) = Len(f) + Len(h)
          /\ \A i \in 1 .. Len(f) + Len(h) : p[i] = IF i <= Len(f) THEN f[i] ELSE h[i - Len(f)]
      BY <2>1, <2>2, Joined
    <3>2. Len(h) \in Nat
      BY <2>1
    <3> HIDE DEF p
    <3> QED
      BY <2>2, <3>1, <3>2
  <2> HIDE DEF p
  <2>4. Full(nes, <<>>) = p
    <3>1. Full(nes, <<>>) = p \o <<>>
      BY DEF Full, p, f, h, op
    <3> QED
      BY <2>3, <3>1, NoReply
  <2>5. IsPacket(p)
    BY <1>2, <2>4 DEF Asks
  <2>6. CASE nes.in = "echo"
    <3>1. p[1] = 0 /\ HeadLen(nes.in) = 2
      BY <2>3, <2>6, HeadLens, OpOfIn DEF op
    <3> QED
      BY <2>1, <2>3, <2>5, <3>1 DEF IsPacket
  <2>7. CASE nes.in \in {"cpu_rd", "cpu_wr"}
    <3>1. p[1] \in {1, 2} /\ HeadLen(nes.in) = 4
      BY <2>3, <2>7, HeadLens, OpOfIn DEF op
    <3> QED
      BY <2>1, <2>3, <2>5, <3>1 DEF IsPacket
  <2> QED
    BY <1>2, <2>6, <2>7
<1>3. Len(<<>>) = 0
  OBVIOUS
<1> QED
  BY <1>1, <1>2, <1>3 DEF Answers, Asks

-----------------------------------------------------------------------------
(* The steps of LuaWaitForHlt, and those of the machine meanwhile.          *)

\* The question goes to a machine that is between two packets, and nothing waits.
LEMMA WaitAsks ==
    ASSUME StackInv, FrameInv, AppInv, ProgramInv, PortInv, WireInv, Written, Apart(stack),
           WaitForHltAsks
    PROVE  AskInv'
<1>1. InTop("run") /\ stack # <<>> /\ Top.at \in {"call", "wait"}
  BY DEF WaitForHltAsks, Calling, At, InTop
<1>2. /\ {"kind", "at", "n", "pc", "script", "held"} \subseteq DOMAIN Top
      /\ Top.kind = "run" /\ Awaited = 0 /\ comm = "up"
  BY <1>1, RunFrame, LoopIsUp
<1>3. PICK f : Go(f) /\ f.kind = "run" /\ f.at = "halted?"
  <2>1. (\E h : Go([Top EXCEPT !.at = "halted?", !.n = h])) \/ Go([Top EXCEPT !.at = "halted?"])
    BY DEF WaitForHltAsks
  <2>2. ASSUME NEW h
        PROVE  LET g == [Top EXCEPT !.at = "halted?", !.n = h] IN g.kind = "run" /\ g.at = "halted?"
    BY <1>2
  <2>3. LET g == [Top EXCEPT !.at = "halted?"] IN g.kind = "run" /\ g.at = "halted?"
    BY <1>2
  <2> QED
    BY <2>1, <2>2, <2>3
<1>4. NotWaiting(f) /\ ~HasWaited(f)
  BY <1>3 DEF NotWaiting, HasWaited
<1>5. Apart(stack') /\ stack' # <<>> /\ Head(stack') = f
  BY <1>1, <1>3, <1>4, GoApart
<1>6. /\ wire' = (IF port = "open" THEN << 7 >> ELSE wire) /\ rogue' = (rogue \/ Reckless(QueryHltPacket))
      /\ nes' = nes /\ out' = out /\ port' = port
  <2>1. IsPacket(QueryHltPacket)
    BY ShortPackets DEF Asked
  <2>2. SendData(QueryHltPacket) /\ nes' = nes /\ out' = out /\ port' = port
    BY DEF WaitForHltAsks
  <2>3. QueryHltPacket = << 7 >>
    BY DEF QueryHltPacket, DbgPacketOpCodeQueryHlt
  <2>4. wire' = (IF port = "open" THEN QueryHltPacket ELSE wire)
    BY <2>1, <2>2, SentWhole DEF SendData, WriteFile
  <2> QED
    BY <2>2, <2>3, <2>4 DEF SendData
<1>7. ASSUME port = "open", ~rogue
      PROVE  nes.in \in {OPCODE, DISABLED} /\ out = <<>>
  <2>1. nes.in \in {OPCODE, DISABLED} /\ Len(out) \in Nat /\ Len(out) <= 0
    BY <1>2, <1>7, AgreedEmpty
  <2>2. out \in Seq(Bytes) /\ Len(out) = 0
    BY <2>1 DEF PortInv
  <2> QED
    BY <2>1, <2>2, NoBytes
<1>8. Halting'
  BY <1>4, <1>5, <1>6, <1>7 DEF Halting, Asking, Top
<1>9. Answered'
  BY <1>3, <1>5 DEF Answered, InTop, Top
<1> QED
  BY <1>5, <1>8, <1>9 DEF AskInv

\* A byte other than 0 is the answer of a machine that is halted.
LEMMA WaitReads ==
    ASSUME StackInv, FrameInv, Written, AskInv, WaitForHltReads
    PROVE  AskInv'
<1>1. InTop("run") /\ stack # <<>> /\ Top.at = "halted?" /\ Apart(stack)
  BY DEF WaitForHltReads, At, InTop, AskInv
<1>2. /\ {"kind", "at", "n", "pc", "script", "held"} \subseteq DOMAIN Top /\ Top.pc \in Nat \ {0}
      /\ Top.kind = "run"
  BY <1>1, RunFrame
<1> DEFINE byte == Received(1, Top.n)[1]
           g == [Top EXCEPT !.at = "wait", !.n = 0]
           f == Returned(<<>>)
<1>3. /\ Go(IF byte = 0 THEN g ELSE f)
      /\ nes' = nes /\ port' = port /\ wire' = wire /\ rogue' = rogue
  BY DEF WaitForHltReads, commVars
<1>4. ASSUME port = "open", ~rogue
      PROVE  byte = 0 \/ nes.in = OPCODE
  <2>1. Asking /\ wire = <<>>
    BY <1>1, <1>4 DEF AskInv, Halting, Written
  <2>2. out = << 0 >> \/ (out = << 1 >> /\ nes.in = OPCODE)
    BY <2>1 DEF Asking
  <2>3. out = << 0 >> => byte = 0
    BY DEF Received
  <2> QED
    BY <2>2, <2>3
<1>5. g.kind = "run" /\ g.at = "wait"
  BY <1>2
<1>6. f.kind = "run" /\ f.at = "call"
  BY <1>2 DEF Returned
<1> HIDE DEF byte, f, g
<1>7. CASE byte = 0
  <2>1. Plain(g)
    BY <1>5 DEF Plain, NotWaiting, HasWaited
  <2> QED
    BY <1>1, <1>3, <1>7, <2>1, GoPlain
<1>8. CASE byte # 0
  <2>1. Apart(stack') /\ stack' # <<>> /\ Head(stack') = f
    BY <1>1, <1>3, <1>6, <1>8, GoApart DEF NotWaiting
  <2>2. Halting'
    BY <1>3, <1>4, <1>6, <1>8, <2>1 DEF Halting, Top, Written
  <2>3. Answered'
    BY <1>6, <2>1 DEF Answered, InTop, Top
  <2> QED
    BY <2>1, <2>2, <2>3 DEF AskInv
<1> QED
  BY <1>7, <1>8

LEMMA SameTop ==
    ASSUME AskInv, UNCHANGED stack, Halting => Halting', Answered => Answered'
    PROVE  AskInv'
  BY DEF AskInv

\* The machine takes the question: it answers 1 if and only if it is halted.
LEMMA MachineAnswers ==
    ASSUME PortInv, AskInv, Machine
    PROVE  AskInv'
<1> DEFINE b == Head(wire)
<1>1. /\ wire # <<>> /\ nes' = After(b) /\ out' = out \o Reply(b) /\ wire' = Tail(wire)
      /\ port' = port /\ rogue' = rogue /\ stack' = stack
  BY DEF Machine, NesTakes, Take, scriptVars
<1>2. ASSUME InTop("run"), port = "open", ~rogue, Halting
      PROVE  (Top.at = "halted?" => Asking') /\ ~HasWaited(Top)
  <2>1. ~HasWaited(Top)
    BY <1>1, <1>2 DEF Halting
  <2>2. ASSUME Top.at = "halted?"
        PROVE  Asking'
    <3>1. wire = << 7 >> /\ out = <<>> /\ nes.in \in {OPCODE, DISABLED}
      BY <1>1, <1>2, <2>2 DEF Halting, Asking
    <3>2. b = 7 /\ Tail(wire) = <<>> /\ 7 \in Bytes
      BY <3>1, ByteRange
    <3>3. NesOK(nes)
      BY DEF PortInv
    <3>4. \A x \in {0, 1} : <<>> \o << x >> = << x >>
      OBVIOUS
    <3>5. CASE nes.in = OPCODE
      <4>1. Reply(7) = << 1 >> /\ IsBetween(After(7))
        BY <3>2, <3>3, <3>5, AtOpcode
      <4> QED
        BY <1>1, <3>1, <3>2, <3>4, <4>1 DEF Asking, IsBetween
    <3>6. CASE nes.in = DISABLED
      <4>1. Reply(7) = << 0 >>
        BY <3>2, <3>3, <3>6, AtRun
      <4> QED
        BY <1>1, <3>1, <3>2, <3>4, <4>1 DEF Asking
    <3> QED
      BY <3>1, <3>5, <3>6
  <2> QED
    BY <2>1, <2>2
<1>3. Halting => Halting'
  BY <1>1, <1>2 DEF Halting, InTop, Top
<1>4. ASSUME NEW a, Answers(nes, wire, out, a)
      PROVE  Answers(nes, wire, out, a)'
  <2>1. NesOK(nes) /\ wire \in Seq(Bytes) /\ out \in Seq(Bytes)
    BY DEF PortInv
  <2>2. Answers(After(b), Tail(wire), out \o Reply(b), a)
    BY <1>1, <1>4, <2>1, AnswersStep
  <2> QED
    BY <1>1, <2>2
<1>5. Answered => Answered'
  <2>1. Top' = Top
    BY <1>1 DEF Top
  <2> QED
    BY <1>1, <1>4, <2>1 DEF Answered, InTop
<1> QED
  BY <1>1, <1>3, <1>5, SameTop

LEMMA BreakAnswers ==
    ASSUME PortInv, AskInv, Program
    PROVE  AskInv'
<1> DEFINE m == [nes EXCEPT !.in = OPCODE]
<1>1. /\ nes.in = DISABLED /\ nes' = m /\ out' = out /\ port' = port
      /\ wire' = wire /\ rogue' = rogue /\ stack' = stack
  BY DEF Program, NesBreaks, Break, Running, commVars, scriptVars
<1>2. nes'.in = OPCODE \/ nes'.in = nes.in
  BY <1>1
<1> HIDE DEF m
<1>3. Asking => Asking'
  BY <1>1, <1>2 DEF Asking
<1>4. Halting => Halting'
  BY <1>1, <1>2, <1>3 DEF Halting, InTop, Top, OPCODE, DISABLED
<1>5. ASSUME NEW a, Answers(nes, wire, out, a)
      PROVE  Answers(nes, wire, out, a)'
  <2>1. nes.left = 0
    BY <1>1 DEF PortInv, NesOK, Shape
  <2>2. wire = <<>> /\ out = a
    BY <1>1, <1>5, <2>1 DEF Answers, OPCODE, DISABLED
  <2> QED
    BY <1>1, <2>2 DEF Answers
<1>6. Answered => Answered'
  <2>1. Top' = Top
    BY <1>1 DEF Top
  <2> QED
    BY <1>1, <1>5, <2>1 DEF Answered, InTop
<1> QED
  BY <1>1, <1>4, <1>6, SameTop

-----------------------------------------------------------------------------
(* The packet of the raw debug dialog, and its answer.                      *)

\* The packet goes out whole to a machine that is between two, and nothing waits.
LEMMA RawSendAsks ==
    ASSUME StackInv, FrameInv, AppInv, ProgramInv, PortInv, WireInv, Written, Apart(stack),
           NEW text \in Texts, RawSend(text)
    PROVE  AskInv'
<1>1. comm = "up"
  BY LoopIsUp DEF RawSend
<1> DEFINE p(h) == CreateObjFromString(text, h)
           f(h) == [kind |-> "send", at |-> "receive", n |-> ReturnBytesExpected(p(h)),
                    got |-> <<>>, want |-> Wanted(AsTyped(text, p(h)))]
<1>2. PICK h \in Heap :
          IF p(h) = NoPacket THEN Start(Box) ELSE Start(f(h)) /\ SendData(p(h))
  BY DEF RawSend
<1>3. UNCHANGED <<nes, out, port>>
  BY DEF RawSend
<1> DEFINE q == p(h)
           g == f(h)
<1>4. q # NoPacket => IsPacket(q) /\ q[1] \in {0, 1, 2} /\ AsTyped(text, q) = q
  BY TypedIsSent
<1>5. /\ g.kind = "send" /\ g.at = "receive" /\ g.n = ReturnBytesExpected(q)
      /\ g.want = Wanted(AsTyped(text, q)) /\ "want" \in DOMAIN g
  OBVIOUS
<1>6. IF q = NoPacket THEN Start(Box) ELSE Start(g) /\ SendData(q)
  BY <1>2
<1> HIDE DEF q, g
<1>7. CASE q = NoPacket
  <2>1. Box.kind = "box"
    BY DEF Box
  <2>2. Apart(stack') /\ stack' # <<>> /\ Head(stack') = Box
    BY <1>6, <1>7, <2>1, StartApart
  <2> QED
    BY <2>1, <2>2, OtherPlain, PlainTop DEF AskInv
<1>8. CASE q # NoPacket
  <2>1. IsPacket(q) /\ q[1] \in {0, 1, 2} /\ g.want = Wanted(q)
    BY <1>4, <1>5, <1>8
  <2>2. Apart(stack') /\ stack' # <<>> /\ Head(stack') = g
    BY <1>5, <1>6, <1>8, StartApart
  <2>3. ASSUME g.want # NoAnswer
        PROVE  /\ g.want \in Seq(Bytes) /\ Len(g.want) = g.n
               /\ Answers(nes, q, out, g.want) /\ wire' = q
    <3>1. port = "open" /\ nes.in = OPCODE /\ ~rogue /\ g.want = Meaning!Answer(nes, q)
      BY <2>1, <2>3 DEF Wanted
    <3>2. out = <<>>
      <4>1. Awaited = 0
        BY <1>6, <1>8, PumpingIdle DEF Start
      <4>2. Len(out) \in Nat /\ Len(out) <= 0
        BY <1>1, <3>1, <4>1, AgreedEmpty
      <4>3. out \in Seq(Bytes) /\ Len(out) = 0
        BY <4>2 DEF PortInv
      <4> QED
        BY <4>3, NoBytes
    <3>3. g.want \in Seq(Bytes) /\ Len(g.want) = g.n
      <4>1. NesOK(nes)
        BY DEF PortInv
      <4> QED
        BY <1>5, <2>1, <3>1, <4>1, AnswerLen
    <3>4. wire' = q
      BY <1>6, <1>8, <2>1, <3>1, SentWhole DEF SendData, WriteFile
    <3> QED
      BY <2>1, <3>1, <3>2, <3>3, <3>4 DEF Answers, Asks
  <2>4. Answered'
    BY <1>3, <1>5, <2>2, <2>3 DEF Answered, InTop, Top
  <2>5. Halting'
    BY <1>5, <2>2 DEF Halting, InTop, Top
  <2> QED
    BY <2>2, <2>4, <2>5 DEF AskInv
<1> QED
  BY <1>7, <1>8

\* What is read is all there is, and as much as was asked for.
LEMMA RawReceivesAnswer ==
    ASSUME StackInv, FrameInv, PortInv, Written, AskInv, RawReceives
    PROVE  AskInv'
<1>1. InTop("send") /\ stack # <<>> /\ Top.kind = "send" /\ Top.at = "receive"
      /\ Apart(stack) /\ Answered /\ UNCHANGED port
  BY DEF RawReceives, At, InTop, AskInv, commVars
<1>2. PICK heap \in Heap : Go([Top EXCEPT !.at = "show", !.got = Received(Top.n, heap)])
  BY DEF RawReceives
<1> DEFINE got == Received(Top.n, heap)
           f == [Top EXCEPT !.at = "show", !.got = got]
<1>3. {"kind", "at", "n", "got"} \subseteq DOMAIN Top
  BY <1>1, TopOK DEF FrameOK
<1>4. f.kind = "send" /\ f.at = "show" /\ f.got = got /\ DOMAIN f = DOMAIN Top
      /\ f.want = Top.want
  BY <1>1, <1>3
<1>5. ASSUME Top.want # NoAnswer, port = "open"
      PROVE  got = Top.want
  <2>1. /\ Top.want \in Seq(Bytes) /\ Len(Top.want) = Top.n
        /\ Answers(nes, <<>>, out, Top.want)
    BY <1>1, <1>5 DEF Answered, Written
  <2>2. NesOK(nes)
    BY DEF PortInv
  <2>3. out = Top.want
    BY <2>1, <2>2, AnswersEmpty
  <2>4. out \in Seq(Bytes) /\ Len(out) = Top.n
    BY <2>1, <2>3
  <2>5. got = [i \in 1 .. Len(out) |-> IF i <= Len(out) THEN out[i] ELSE heap]
    BY <2>4 DEF Received
  <2>6. [i \in 1 .. Len(out) |-> IF i <= Len(out) THEN out[i] ELSE heap] = out
    BY <2>4
  <2> QED
    BY <2>3, <2>5, <2>6
<1> HIDE DEF got, f
<1>6. Apart(stack') /\ stack' # <<>> /\ Head(stack') = f
  BY <1>1, <1>2, <1>4, GoApart DEF f, got
<1>7. Answered'
  BY <1>1, <1>4, <1>5, <1>6 DEF Answered, InTop, Top
<1>8. Halting'
  BY <1>4, <1>6 DEF Halting, InTop, Top
<1> QED
  BY <1>6, <1>7, <1>8 DEF AskInv

-----------------------------------------------------------------------------
(* Every step.                                                              *)
LEMMA NothingUnderWay == stack' = <<>> => AskInv'
<1>1. DOMAIN <<>> = {}
  OBVIOUS
<1> QED
  BY <1>1 DEF AskInv, Apart, Halting, Answered, InTop

LEMMA StillAsk ==
    ASSUME AskInv, UNCHANGED <<nes, out, port, wire, rogue, stack>>
    PROVE  AskInv'
<1>1. /\ nes' = nes /\ out' = out /\ port' = port /\ wire' = wire /\ rogue' = rogue
      /\ stack' = stack
  OBVIOUS
<1>2. Halting => Halting'
  BY <1>1 DEF Halting, Asking, InTop, Top
<1>3. Answered => Answered'
  BY <1>1 DEF Answered, InTop, Top
<1> QED
  BY <1>1, <1>2, <1>3, SameTop

\* Start and end of the program, and what befalls it: no call is under way or
\* none is left, or the port is gone, or nothing of this changes.
LEMMA OuterAsk ==
    ASSUME AskInv, AppInv, PortInv, ProgramInv,
           \/ WinMain \/ NoWindow \/ InitSerialComm \/ InitReturns \/ LoopEnds \/ Exits
           \/ MenuExit \/ Dies \/ Reset
           \/ InitFails /\ UNCHANGED <<scriptVars, appVars>>
           \/ (Unplug \/ Replug) /\ UNCHANGED <<scriptVars, app, quit>>
    PROVE  AskInv'
<1>1. CASE WinMain \/ NoWindow \/ InitSerialComm \/ InitReturns \/ Exits \/ Reset
  <2>1. app # "loop" /\ UNCHANGED stack
    BY <1>1 DEF WinMain, NoWindow, InitSerialComm, InitReturns, Exits, Reset, scriptVars
  <2> QED
    BY <2>1, NothingUnderWay DEF AppInv
<1>2. CASE InitFails /\ UNCHANGED <<scriptVars, appVars>>
  <2>1. app # "loop" /\ UNCHANGED stack
    BY <1>2 DEF InitFails, ProgramInv, InitBoxes, NoPort, NotSet, NotConnected, scriptVars
  <2> QED
    BY <2>1, NothingUnderWay DEF AppInv
<1>3. CASE Dies
  BY <1>3, NothingUnderWay DEF Dies
<1>4. CASE LoopEnds \/ MenuExit
  BY <1>4, StillAsk DEF LoopEnds, MenuExit, scriptVars, commVars
<1>5. CASE Replug /\ UNCHANGED <<scriptVars, app, quit>>
  BY <1>5, StillAsk DEF Replug, scriptVars
<1>6. CASE Unplug /\ UNCHANGED <<scriptVars, app, quit>>
  <2>1. port' # "open" /\ stack' = stack
    BY <1>6 DEF Unplug, scriptVars, PortInv
  <2>2. Halting'
    BY <2>1 DEF Halting
  <2>3. Answered => Answered'
    BY <2>1 DEF Answered, InTop, Top
  <2> QED
    BY <2>1, <2>2, <2>3, SameTop
<1> QED
  BY <1>1, <1>2, <1>3, <1>4, <1>5, <1>6

LEMMA AskInvStep ==
    ASSUME IInv, LinkInv, AskInv, [Next]_vars
    PROVE  AskInv'
<1>1. /\ StackInv /\ AppInv /\ PortInv /\ ProgramInv /\ WireInv /\ FrameInv
      /\ Apart(stack)
  BY DEF IInv, LinkInv, AskInv
<1>2. CASE \/ WinMain \/ NoWindow \/ InitSerialComm \/ InitReturns \/ LoopEnds \/ Exits
           \/ MenuExit \/ Dies \/ Reset
           \/ InitFails /\ UNCHANGED <<scriptVars, appVars>>
           \/ (Unplug \/ Replug) /\ UNCHANGED <<scriptVars, app, quit>>
  BY <1>1, <1>2, OuterAsk
<1>3. CASE LoadBrowses \/ LoadOpens \/ LoadReads \/ LoadChecks \/ LoadSends \/ LoadCloses
  BY <1>1, <1>3, LoadsAsk
<1>4. CASE /\ Written
           /\ \/ RawReceives \/ RawShows \/ RawDone \/ DialogReturns \/ BoxReturns
              \/ TestScriptDlgDone
  BY <1>1, <1>4, DialogsAsk, RawReceivesAnswer
<1>5. CASE /\ Written
           /\ \/ MenuLoadRom \/ MenuRawDebug \/ MenuTestScripts
              \/ \E text \in Texts : RawSend(text)
              \/ \E selected \in Selections : TestScriptsRun(selected)
  BY <1>1, <1>5, StartsAsk, RawSendAsks
<1>6. CASE Written /\ RunStep
  <2>1. CASE WaitForHltAsks
    BY <1>1, <1>6, <2>1, WaitAsks
  <2>2. CASE WaitForHltReads
    BY <1>1, <1>6, <2>2, WaitReads
  <2>3. CASE LuaLoadAsm
    BY <1>1, <2>3, LoadAsmAsk
  <2>4. CASE ReturnsNothing \/ LuaPrint \/ Receive
    BY <1>1, <2>4, LocalAsk
  <2>5. CASE ExecuteScript \/ NextScript \/ LastScript
    BY <1>1, <2>5, EndsAsk
  <2> QED
    BY <1>1, <1>6, <2>1, <2>2, <2>3, <2>4, <2>5, CallsAsk DEF RunStep, LuaWaitForHlt
<1>7. CASE ProgramStep \/ UserStep
  BY <1>2, <1>3, <1>4, <1>5, <1>6, <1>7 DEF ProgramStep, UserStep
<1>8. CASE Machine
  BY <1>1, <1>8, MachineAnswers
<1>9. CASE Program
  BY <1>1, <1>9, BreakAnswers
<1>10. CASE Fault \/ (Written /\ MenuTestScriptsCrashes)
  BY <1>2, <1>10 DEF Fault, MenuTestScriptsCrashes
<1>11. CASE UNCHANGED vars
  BY <1>11, StillAsk DEF vars, scriptVars, commVars
<1> QED
  BY <1>2, <1>7, <1>8, <1>9, <1>10, <1>11 DEF Next

LEMMA AskInvBegins == Init => AskInv
<1> SUFFICES ASSUME Init PROVE AskInv
  OBVIOUS
<1>1. stack = <<>> /\ DOMAIN <<>> = {}
  BY DEF Init, ScriptInit
<1> QED
  BY <1>1 DEF AskInv, Apart, Halting, Answered, InTop

-----------------------------------------------------------------------------
(* The results.                                                             *)

\* LuaWaitForHlt is back only when the machine is halted, and it stays so until
\* the script's next call: the byte that ends the wait is no other answer, no byte
\* that memory held, and nothing the user may have started has run the machine.
THEOREM HaltsBeforeReturn == Spec => []HaltedAfterWait
<1>1. AskInv => HaltedAfterWait
  BY DEF AskInv, Halting, HaltedAfterWait, HasWaited, At, Calls
<1>2. IInv /\ LinkInv /\ AskInv /\ [Next]_vars => AskInv'
  BY AskInvStep
<1> QED
  BY <1>1, <1>2, AskInvBegins, LinkHolds, PTL DEF Spec

\* While the port stays open the raw debug dialog shows for a packet sent to a halted
\* machine the whole answer to what was typed: no byte of an earlier one, none
\* missing, and those of the heap only where it completed the packet.
THEOREM AnswersAreOwn == Spec => []AnswerIsOwn
<1>1. AskInv => AnswerIsOwn
  BY DEF AskInv, Answered, AnswerIsOwn, At, InTop
<1>2. IInv /\ LinkInv /\ AskInv /\ [Next]_vars => AskInv'
  BY AskInvStep
<1> QED
  BY <1>1, <1>2, AskInvBegins, LinkHolds, PTL DEF Spec

-----------------------------------------------------------------------------
(***************************************************************************)
(* A ROM that was loaded is there (RomPlays).                               *)
(*                                                                          *)
(* LoadRom sends one packet after another, and each says which part of the  *)
(* file goes where; none is answered.  What the machine has of the file is  *)
(* therefore told by how many packets were sent and how much of the last    *)
(* one is still on the wire (LoadedBy): after the third of them the         *)
(* configuration, one byte moved in after the other (InCfg); then PRG-ROM   *)
(* and CHR-ROM, block by block, each in place up to the byte the machine    *)
(* waits for (InBlock); then the vector of the reset in the two registers   *)
(* of the program counter (InReg).  The header of a block sets the address  *)
(* for all its data, so a block touches its own part of one memory only,    *)
(* and what an earlier block wrote stays (Spares): the two banks are in two *)
(* memories, and no two cells of a bank share a place (CellsApart).         *)
(*                                                                          *)
(* The load under way is on top of the stack: when a box or a second call   *)
(* is above it, it has not begun to send (PauseInv), so that no packet of   *)
(* another call comes between two of its own. The machine may run a program *)
(* when the load begins, and the first packet stops it; nothing is claimed  *)
(* once the machine is not what the program takes it for, because a write   *)
(* failed or a packet went to a running machine. How a file was checked     *)
(* matters once: its banks are no more than there is room for (RomOK, from  *)
(* the second check).                                                       *)
(*                                                                          *)
(* First come the stack, then the machine byte by byte, each kind of        *)
(* packet, the whole list of packets, and one lemma for each kind of        *)
(* action.                                                                  *)
(***************************************************************************)

-----------------------------------------------------------------------------
(* What is on top of the stack after a step: nothing that sends.            *)

\* A load that has sent packets, or all of them; one that has another call above it.
Sends     == LoadIs("send") \/ (LoadIs("close") /\ Top.i > 7)
Paused(f) == f.kind = "load" => f.at # "send" /\ (f.at = "close" => f.i = 1)
PauseInv  == \A i \in DOMAIN stack : i > 1 => Paused(stack[i])

\* Nothing that sends is on top.
Silent == PauseInv /\ ~Sends

LEMMA PausedSilent == \A f : f.kind = "load" /\ f.at = "close" /\ f.i = 1 => ~(f.i > 7)
  OBVIOUS

LEMMA TopSilent ==
    ASSUME stack' # <<>> => Paused(Head(stack'))
    PROVE  ~Sends'
<1> DEFINE f == Head(stack')
<1>1. Sends' => stack' # <<>> /\ f.kind = "load" /\ (f.at = "send" \/ (f.at = "close" /\ f.i > 7))
  BY DEF Sends, LoadIs, At, InTop, Top
<1> HIDE DEF f
<1>2. Paused(f) => ~(f.kind = "load" /\ (f.at = "send" \/ (f.at = "close" /\ f.i > 7)))
  BY PausedSilent DEF Paused
<1> QED
  BY <1>1, <1>2 DEF f

LEMMA GoPaused ==
    ASSUME StackInv, stack # <<>>, PauseInv, NEW f, Go(f)
    PROVE  PauseInv' /\ stack' # <<>> /\ Top' = f
<1>1. PICK S : stack \in Seq(S)
  BY DEF StackInv, Sound, IsStack
<1> DEFINE t == <<f>> \o Tail(stack)
<1>2. /\ t \in Seq(S \cup {f}) /\ DOMAIN t = DOMAIN stack /\ 1 \in DOMAIN stack
      /\ t[1] = f /\ \A i \in DOMAIN stack : i # 1 => t[i] = stack[i]
  BY <1>1, NewHead
<1> HIDE DEF t
<1>3. \A i \in DOMAIN t : i > 1 => i # 1
  BY <1>2
<1>4. \A i \in DOMAIN t : i > 1 => Paused(t[i])
  BY <1>2, <1>3 DEF PauseInv
<1>5. t # <<>> /\ Head(t) = f
  BY <1>2
<1>6. stack' = t
  BY DEF Go, t
<1> QED
  BY <1>4, <1>5, <1>6 DEF PauseInv, Top

LEMMA GoSilent ==
    ASSUME StackInv, stack # <<>>, PauseInv, NEW f, Go(f), Paused(f)
    PROVE  Silent'
  BY GoPaused, TopSilent DEF Silent, Top

LEMMA PushPaused ==
    ASSUME NEW S, NEW s \in Seq(S), \A i \in DOMAIN s : Paused(s[i]), NEW f,
           Paused(f), stack' = <<f>> \o s
    PROVE  Silent'
<1> DEFINE t == <<f>> \o s
<1>1. /\ t \in Seq(S \cup {f}) /\ DOMAIN s = 1 .. Len(s) /\ Len(s) \in Nat
      /\ DOMAIN t = 1 .. Len(s) + 1
      /\ t[1] = f /\ \A i \in 1 .. Len(s) : t[i + 1] = s[i]
  BY Pushed
<1>2. stack' = t
  OBVIOUS
<1> HIDE DEF t
<1>3. \A j \in DOMAIN t : j > 1 => j - 1 \in DOMAIN s /\ t[j] = s[j - 1]
  BY <1>1
<1>4. \A j \in DOMAIN t : j > 1 => Paused(t[j])
  BY <1>3
<1>5. t # <<>> /\ Head(t) = f
  BY <1>1
<1>6. PauseInv'
  BY <1>2, <1>4 DEF PauseInv
<1> QED
  BY <1>2, <1>5, <1>6, TopSilent DEF Silent

LEMMA BoxSilent ==
    ASSUME StackInv, stack # <<>>, PauseInv, NEW f, Paused(f), BoxOver(f)
    PROVE  Silent'
<1>1. PICK S : stack \in Seq(S)
  BY DEF StackInv, Sound, IsStack
<1> DEFINE t == <<f>> \o Tail(stack)
<1>2. /\ t \in Seq(S \cup {f}) /\ DOMAIN t = DOMAIN stack /\ 1 \in DOMAIN stack
      /\ t[1] = f /\ \A i \in DOMAIN stack : i # 1 => t[i] = stack[i]
  BY <1>1, NewHead
<1>3. <<Box>> \o t = <<Box, f>> \o Tail(stack)
  BY <1>1
<1>4. DOMAIN stack = 1 .. Len(stack)
  BY <1>1
<1> HIDE DEF t
<1>5. \A i \in DOMAIN t : i = 1 \/ i > 1
  BY <1>2, <1>4
<1>6. \A i \in DOMAIN t : Paused(t[i])
  BY <1>2, <1>5 DEF PauseInv
<1>7. Paused(Box)
  BY DEF Paused, Box
<1>8. stack' = <<Box>> \o t
  BY <1>3 DEF BoxOver
<1> QED
  BY <1>2, <1>6, <1>7, <1>8, PushPaused

LEMMA ReturnSilent ==
    ASSUME StackInv, stack # <<>>, PauseInv, Return
    PROVE  Silent'
<1>1. PICK S : stack \in Seq(S)
  BY DEF StackInv, Sound, IsStack
<1> DEFINE t == Tail(stack)
<1>2. /\ t \in Seq(S) /\ DOMAIN stack = 1 .. Len(stack) /\ Len(stack) \in Nat /\ Len(stack) >= 1
      /\ DOMAIN t = 1 .. Len(stack) - 1 /\ \A i \in 2 .. Len(stack) : t[i - 1] = stack[i]
  BY <1>1, Popped
<1>3. stack' = t
  BY DEF Return
<1> HIDE DEF t
<1>4. \A i \in DOMAIN t : i + 1 \in DOMAIN stack /\ i + 1 > 1 /\ t[i] = stack[i + 1]
  BY <1>2
<1>5. \A i \in DOMAIN t : Paused(t[i])
  BY <1>4 DEF PauseInv
<1>6. t # <<>> => 1 \in DOMAIN t /\ Head(t) = t[1]
  BY <1>2
<1>7. PauseInv'
  BY <1>3, <1>5 DEF PauseInv
<1> QED
  BY <1>3, <1>5, <1>6, <1>7, TopSilent DEF Silent

\* Where messages are taken nothing is being sent.
LEMMA PumpingPaused ==
    ASSUME StackInv, PauseInv, Pumping
    PROVE  \A i \in DOMAIN stack : Paused(stack[i])
<1> SUFFICES ASSUME NEW i \in DOMAIN stack
             PROVE  Paused(stack[i])
  OBVIOUS
<1>1. PICK S : stack \in Seq(S)
  BY DEF StackInv, Sound, IsStack
<1>2. stack # <<>> /\ (i = 1 \/ i > 1)
  BY <1>1
<1>3. Top = stack[1]
  BY <1>2, TopOK
<1>4. Top.kind # "load" \/ Top.at = "browse"
  BY <1>2 DEF Pumping, InTop, At
<1> QED
  BY <1>2, <1>3, <1>4 DEF PauseInv, Paused

LEMMA StartSilent ==
    ASSUME StackInv, PauseInv, NEW f, Paused(f), Start(f)
    PROVE  Silent'
<1> DEFINE e(i) == IF stack[i].kind = "run" THEN [stack[i] EXCEPT !.fair = FALSE]
                   ELSE stack[i]
           t == [i \in DOMAIN stack |-> e(i)]
<1>1. PICK S : stack \in Seq(S)
  BY DEF StackInv, Sound, IsStack
<1>2. t \in Seq({e(i) : i \in DOMAIN stack}) /\ DOMAIN t = DOMAIN stack
      /\ \A i \in DOMAIN stack : t[i] = e(i)
  BY <1>1
<1>3. Pumping /\ stack' = <<f>> \o t
  BY DEF Start
<1>4. ASSUME NEW i \in DOMAIN stack
      PROVE  Paused(e(i))
  <2> DEFINE g == stack[i]
             h == [g EXCEPT !.fair = FALSE]
  <2>1. "kind" \in DOMAIN g
    BY DEF StackInv, Sound, IsStack, IsFrame
  <2>2. Paused(g)
    BY <1>3, PumpingPaused
  <2> HIDE DEF g
  <2>3. g.kind = "run" => h.kind # "load"
    BY <2>1
  <2> HIDE DEF h
  <2>4. g.kind = "run" => Paused(h)
    BY <2>3 DEF Paused
  <2> QED
    BY <2>2, <2>4 DEF g, h
<1> DEFINE T == {e(i) : i \in DOMAIN stack}
<1> HIDE DEF e, t, T
<1>5. t \in Seq(T) /\ \A i \in DOMAIN t : Paused(t[i])
  BY <1>2, <1>4 DEF T
<1> QED
  BY <1>3, <1>5, PushPaused

LEMMA EndSilent ==
    ASSUME StackInv, PauseInv, Pumping, NEW k \in {"raw", "scripts"}, EndDialog(k)
    PROVE  Silent'
<1> DEFINE e(i) == IF stack[i].kind = k THEN [stack[i] EXCEPT !.ended = TRUE]
                   ELSE stack[i]
           t == [i \in DOMAIN stack |-> e(i)]
<1>1. PICK S : stack \in Seq(S)
  BY DEF StackInv, Sound, IsStack
<1>2. t \in Seq({e(i) : i \in DOMAIN stack}) /\ DOMAIN t = DOMAIN stack
      /\ \A i \in DOMAIN stack : t[i] = e(i)
  BY <1>1
<1>3. stack' = t
  BY DEF EndDialog
<1>4. ASSUME NEW i \in DOMAIN stack
      PROVE  Paused(e(i))
  <2> DEFINE g == stack[i]
             h == [g EXCEPT !.ended = TRUE]
  <2>1. "kind" \in DOMAIN g
    BY DEF StackInv, Sound, IsStack, IsFrame
  <2>2. Paused(g)
    BY PumpingPaused
  <2> HIDE DEF g
  <2>3. g.kind = k => h.kind # "load"
    BY <2>1
  <2> HIDE DEF h
  <2>4. g.kind = k => Paused(h)
    BY <2>3 DEF Paused
  <2> QED
    BY <2>2, <2>4 DEF g, h
<1> DEFINE T == {e(i) : i \in DOMAIN stack}
<1> HIDE DEF e, t, T
<1>5. t \in Seq(T) /\ \A i \in DOMAIN t : Paused(t[i])
  BY <1>2, <1>4 DEF T
<1>6. t # <<>> => 1 \in DOMAIN t /\ Head(t) = t[1]
  BY <1>5
<1>7. PauseInv'
  BY <1>3, <1>5 DEF PauseInv
<1> QED
  BY <1>3, <1>5, <1>6, <1>7, TopSilent DEF Silent

LEMMA EmptySilent == stack' = <<>> => Silent'
<1>1. DOMAIN <<>> = {}
  OBVIOUS
<1> QED
  BY <1>1 DEF Silent, PauseInv, Sends, LoadIs, At, InTop

-----------------------------------------------------------------------------
(* Which steps leave nothing on top that sends.                             *)
LEMMA RunSilent ==
    ASSUME StackInv, FrameInv, PauseInv, RunStep
    PROVE  Silent'
<1>1. InTop("run") /\ stack # <<>>
  BY DEF RunStep, ReturnsNothing, LuaPrint, LuaEcho, LuaCpuMemRd, LuaCpuMemWr,
         LuaPpuMemRd, LuaPpuMemWr, LuaCpuRegRd, LuaCpuRegWr, LuaDbgHlt, LuaDbgRun,
         LuaWaitForHlt, WaitForHltAsks, WaitForHltReads, LuaLoadAsm, LoadAsmReads,
         LoadAsmFails, LoadAsmReturns, Receive, ExecuteScript, ScriptEnds, ScriptFails,
         NextScript, LastScript, Calling, At, InTop
<1>2. Top.kind = "run" /\ "kind" \in DOMAIN Top
  BY <1>1, RunFrame
<1>3. \A v : Returned(v).kind = "run"
  BY <1>2 DEF Returned
<1>4. \A x : [Top EXCEPT !.at = x].kind = "run"
  BY <1>2
<1>5. \A x, n : [Top EXCEPT !.at = x, !.n = n].kind = "run"
  BY <1>2
<1>6. \A n, held : /\ Loading(n, held).kind = "run"
                   /\ [Loading(n, held) EXCEPT !.fair = FALSE].kind = "run"
  <2> TAKE n, held
  <2> DEFINE g == Loading(n, held)
             h == [g EXCEPT !.fair = FALSE]
  <2>1. g.kind = "run" /\ DOMAIN g = DOMAIN Top
    BY <1>2 DEF Loading
  <2> HIDE DEF g
  <2>2. h.kind = "run"
    BY <1>2, <2>1
  <2> QED
    BY <2>1, <2>2 DEF g
<1>7. \A v : [Returned(v) EXCEPT !.held = {}, !.n = 0].kind = "run"
  <2> TAKE v
  <2> DEFINE g == Returned(v)
             h == [g EXCEPT !.held = {}, !.n = 0]
  <2>1. g.kind = "run" /\ DOMAIN g = DOMAIN Top
    BY <1>2 DEF Returned
  <2> HIDE DEF g
  <2>2. h.kind = "run"
    BY <1>2, <2>1
  <2> QED
    BY <2>2 DEF g
<1>8. \/ Return
      \/ \E f : f.kind = "run" /\ (Go(f) \/ BoxOver(f))
  <2>1. CASE ReturnsNothing \/ LuaPrint \/ Receive
    <3>1. (\E v : Go(Returned(v))) \/ Go([Top EXCEPT !.at = "error"])
      BY <2>1 DEF ReturnsNothing, LuaPrint, Receive
    <3> QED
      BY <1>3, <1>4, <3>1
  <2>2. CASE \E p : Tell(p) \/ Ask(p)
    <3>1. Go(Returned(<<>>)) \/ \E n : Go([Top EXCEPT !.at = "receive", !.n = n])
      BY <2>2 DEF Tell, Ask
    <3> QED
      BY <1>3, <1>5, <3>1
  <2>3. CASE WaitForHltAsks
    <3>1. (\E n : Go([Top EXCEPT !.at = "halted?", !.n = n])) \/ Go([Top EXCEPT !.at = "halted?"])
      BY <2>3 DEF WaitForHltAsks
    <3> QED
      BY <1>4, <1>5, <3>1
  <2>4. CASE WaitForHltReads
    <3>1. Go([Top EXCEPT !.at = "wait", !.n = 0]) \/ Go(Returned(<<>>))
      BY <2>4 DEF WaitForHltReads
    <3> QED
      BY <1>3, <1>5, <3>1
  <2>5. CASE LuaLoadAsm
    <3>1. \/ \E n, held : \/ Go(Loading(n, held))
                          \/ BoxOver([Loading(n, held) EXCEPT !.fair = FALSE])
          \/ \E v : Go([Returned(v) EXCEPT !.held = {}, !.n = 0])
      <4>1. CASE LoadAsmReads
        <5> DEFINE startPc == PrgFiles[Arg(1)][1] + Base * PrgFiles[Arg(1)][2]
        <5>1. \/ Go(Loading(startPc, {Arg(1)}))
              \/ BoxOver([Loading(0, {Arg(1)}) EXCEPT !.fair = FALSE])
          BY <4>1 DEF LoadAsmReads
        <5> HIDE DEF startPc
        <5> QED
          BY <5>1
      <4>2. CASE LoadAsmFails
        BY <4>2 DEF LoadAsmFails
      <4>3. CASE LoadAsmReturns
        BY <4>3 DEF LoadAsmReturns
      <4> QED
        BY <2>5, <4>1, <4>2, <4>3 DEF LuaLoadAsm
    <3> QED
      BY <1>6, <1>7, <3>1
  <2>6. CASE ExecuteScript
    <3>1. PICK v : Verdict(v)
      BY <2>6 DEF ExecuteScript, ScriptEnds, ScriptFails
    <3> DEFINE f == [Top EXCEPT !.at = "next", !.verdict = v, !.tally[v + 1] = @ + 1]
    <3>2. Go(f)
      BY <3>1 DEF Verdict
    <3>3. f.kind = "run"
      BY <1>2
    <3> HIDE DEF f
    <3> QED
      BY <3>2, <3>3
  <2>7. CASE NextScript
    <3> DEFINE s == IF Live("scripts") THEN "call" ELSE "no file"
               b == (port = "open" /\ nes.in = OPCODE /\ ~rogue)
               f == [Top EXCEPT !.left = Tail(@), !.script = Head(Top.left), !.verdict = NoVerdict,
                        !.pc = 1, !.result = PASS, !.n = 0, !.at = s, !.fair = b]
    <3>1. Go(f)
      BY <2>7 DEF NextScript
    <3> HIDE DEF s, b
    <3>2. f.kind = "run"
      BY <1>2
    <3> HIDE DEF f
    <3> QED
      BY <3>1, <3>2
  <2>8. CASE LastScript
    BY <2>8 DEF LastScript
  <2>9. CASE LuaEcho \/ LuaCpuMemRd \/ LuaPpuMemRd \/ LuaCpuRegRd
    BY <2>2, <2>9 DEF LuaEcho, LuaCpuMemRd, LuaPpuMemRd, LuaCpuRegRd
  <2>10. CASE LuaCpuMemWr \/ LuaPpuMemWr \/ LuaCpuRegWr \/ LuaDbgHlt \/ LuaDbgRun
    BY <2>2, <2>10 DEF LuaCpuMemWr, LuaPpuMemWr, LuaCpuRegWr, LuaDbgHlt, LuaDbgRun
  <2> QED
    BY <2>1, <2>3, <2>4, <2>5, <2>6, <2>7, <2>8, <2>9, <2>10 DEF RunStep, LuaWaitForHlt
<1> QED
  BY <1>1, <1>8, GoSilent, BoxSilent, ReturnSilent DEF Paused

LEMMA LoadsSilent ==
    ASSUME StackInv, FrameInv, PauseInv, LoadBrowses \/ LoadOpens \/ LoadReads \/ LoadCloses
    PROVE  Silent'
<1>1. InTop("load")
  BY DEF LoadBrowses, LoadOpens, LoadReads, LoadCloses, LoadIs, At
<1>2. /\ stack # <<>> /\ Top.kind = "load" /\ FrameOK(Top)
      /\ {"kind", "at", "rom", "heap", "i", "ok"} \subseteq DOMAIN Top
  BY <1>1, LoadFrame
<1>3. Top.at \in {"browse", "open", "read"} => Top.i = 1
  BY <1>2 DEF FrameOK
<1>4. \A at, rom, heap :
         /\ at # "send" /\ (at = "close" => Top.i = 1)
               => /\ Paused([Top EXCEPT !.at = at])
                  /\ Paused([Top EXCEPT !.at = at, !.rom = rom])
                  /\ Paused([Top EXCEPT !.at = at, !.heap = heap])
  BY <1>2 DEF Paused
<1>5. CASE LoadBrowses
  <2>1. Return \/ \E rom : Go([Top EXCEPT !.at = "open", !.rom = rom])
    BY <1>5 DEF LoadBrowses
  <2> QED
    BY <1>2, <1>4, <2>1, GoSilent, ReturnSilent
<1>6. CASE LoadOpens
  <2>1. Go([Top EXCEPT !.at = "read"]) \/ BoxOver([Top EXCEPT !.at = "done"])
    BY <1>6 DEF LoadOpens
  <2> QED
    BY <1>2, <1>4, <2>1, GoSilent, BoxSilent
<1>7. CASE LoadReads
  <2>1. Top.i = 1
    BY <1>3, <1>7 DEF LoadReads, LoadIs, At
  <2>2. \/ \E heap : Go([Top EXCEPT !.at = "check", !.heap = heap])
        \/ BoxOver([Top EXCEPT !.at = "close"])
    BY <1>7 DEF LoadReads
  <2> QED
    BY <1>2, <1>4, <2>1, <2>2, GoSilent, BoxSilent
<1>8. CASE LoadCloses
  BY <1>2, <1>8, ReturnSilent DEF LoadCloses
<1> QED
  BY <1>5, <1>6, <1>7, <1>8

LEMMA DialogsSilent ==
    ASSUME StackInv, PauseInv,
           RawReceives \/ RawShows \/ RawDone \/ DialogReturns \/ BoxReturns \/ TestScriptDlgDone
    PROVE  Silent'
<1>1. CASE RawShows \/ DialogReturns \/ BoxReturns
  <2>1. stack # <<>> /\ Return
    BY <1>1 DEF RawShows, DialogReturns, BoxReturns, At, InTop
  <2> QED
    BY <2>1, ReturnSilent
<1>2. CASE RawDone \/ TestScriptDlgDone
  <2>1. Pumping /\ \E k \in {"raw", "scripts"} : EndDialog(k)
    BY <1>2 DEF RawDone, TestScriptDlgDone
  <2> QED
    BY <2>1, EndSilent
<1>3. CASE RawReceives
  <2>1. stack # <<>> /\ Top.kind = "send"
    BY <1>3 DEF RawReceives, At, InTop
  <2>2. "kind" \in DOMAIN Top
    BY <2>1, TopOK
  <2>3. PICK g : Go([Top EXCEPT !.at = "show", !.got = g])
    BY <1>3 DEF RawReceives
  <2>4. [Top EXCEPT !.at = "show", !.got = g].kind = "send"
    BY <2>1, <2>2
  <2> QED
    BY <2>1, <2>3, <2>4, GoSilent DEF Paused
<1> QED
  BY <1>1, <1>2, <1>3

LEMMA StartsSilent ==
    ASSUME StackInv, PauseInv,
           \/ MenuLoadRom \/ MenuRawDebug \/ MenuTestScripts
           \/ \E text \in Texts : RawSend(text)
           \/ \E selected \in Selections : TestScriptsRun(selected)
    PROVE  Silent'
<1>1. \E f : Paused(f) /\ Start(f)
  <2>1. CASE MenuLoadRom
    <3> DEFINE f == [kind |-> "load", at |-> "browse", rom |-> "", heap |-> 0, i |-> 1, ok |-> TRUE]
    <3>1. Paused(f) /\ Start(f)
      BY <2>1 DEF MenuLoadRom, Paused
    <3> QED
      BY <3>1
  <2>2. CASE MenuRawDebug \/ MenuTestScripts
    <3>1. PICK k \in {"raw", "scripts"} : Start([kind |-> k, ended |-> FALSE])
      BY <2>2 DEF MenuRawDebug, MenuTestScripts, TestScriptDlgInit
    <3> QED
      BY <3>1 DEF Paused
  <2>3. ASSUME NEW text \in Texts, RawSend(text)
        PROVE  \E f : Paused(f) /\ Start(f)
    <3>1. \E n, want : \/ Start(Box)
                       \/ Start([kind |-> "send", at |-> "receive", n |-> n, got |-> <<>>, want |-> want])
      BY <2>3 DEF RawSend
    <3>2. PICK n, want : \/ Start(Box)
                         \/ Start([kind |-> "send", at |-> "receive", n |-> n, got |-> <<>>, want |-> want])
      BY <3>1
    <3> QED
      BY <3>2 DEF Paused, Box
  <2>4. ASSUME NEW selected \in Selections, TestScriptsRun(selected)
        PROVE  \E f : Paused(f) /\ Start(f)
    <3> DEFINE f == [kind |-> "run", at |-> "next", left |-> selected, of |-> Len(selected),
                     tally |-> <<0, 0, 0>>, script |-> Head(selected), pc |-> 1,
                     result |-> PASS, verdict |-> NoVerdict, n |-> 0, held |-> {},
                     below |-> 0, fair |-> FALSE]
    <3>1. Start(Box) \/ Start(f)
      BY <2>4 DEF TestScriptsRun, TestScriptDlgRun
    <3>2. f.kind = "run"
      OBVIOUS
    <3> HIDE DEF f
    <3>3. Paused(f) /\ Paused(Box)
      BY <3>2 DEF Paused, Box
    <3> QED
      BY <3>1, <3>3
  <2> QED
    BY <2>1, <2>2, <2>3, <2>4
<1>2. PICK f : Paused(f) /\ Start(f)
  BY <1>1
<1> QED
  BY <1>2, StartSilent

-----------------------------------------------------------------------------
(* What the bytes of the packets of a ROM leave as it is, and what not.     *)
Kept(m, n) == m.cpu = n.cpu /\ m.ppu = n.ppu /\ m.regs = n.regs /\ m.cfg = n.cfg

LEMMA FieldsOf ==
    ASSUME NEW n, NesOK(n)
    PROVE  /\ n \in Machines
           /\ {"in", "head", "addr", "left", "err", "cpu", "ppu", "regs", "cfg"} = DOMAIN n
           /\ n.head \in Seq(Bytes) /\ n.addr \in Nat /\ n.left \in Nat
           /\ n.cpu \in Memories /\ n.ppu \in Memories /\ n.regs \in [Registers -> Bytes]
           /\ n.cfg \in Seq(Bytes) /\ Len(n.cfg) = 5
  BY DEF NesOK, Machines

LEMMA BetweenKept ==
    ASSUME NEW n, {"in", "head", "addr", "left", "err", "cpu", "ppu", "regs", "cfg"} = DOMAIN n
    PROVE  Kept(Between(n), n)
  BY DEF Between, Kept

LEMMA UsedKept ==
    ASSUME NEW n, {"in", "head", "addr", "left", "err", "cpu", "ppu", "regs", "cfg"} = DOMAIN n
    PROVE  Kept(Used(n), n) /\ (n.left # 1 => Used(n).addr = n.addr)
  BY DEF Used, Between, Kept

LEMMA OpcodeTaken ==
    ASSUME NesOK(nes), nes.in = OPCODE, NEW b \in {2, 3, 4, 6, 10, 11, 12}
    PROVE  Kept(After(b), nes) /\ (b \in {3, 11} => After(b) = nes)
<1> USE DEF OP_ECHO, OP_CPU_MEM_RD, OP_CPU_MEM_WR, OP_CPU_REG_RD, OP_CPU_REG_WR,
            OP_PPU_MEM_RD, OP_PPU_MEM_WR, OP_CART_SET_CFG, OP_DBG_RUN
<1>1. DOMAIN PacketOf = {0, 1, 2, 5, 6, 9, 10}
  BY DEF PacketOf
<1>2. After(b) = AfterOpcode(b)
  BY DEF After, Running, OPCODE, DISABLED, InHead, LastOfHead
<1>3. AfterOpcode(b) = CASE b \in {2, 6, 10} -> [nes EXCEPT !.in = PacketOf[b]]
                         [] b = 12 -> [nes EXCEPT !.in = "cfg", !.left = 5]
                         [] b = 4  -> [nes EXCEPT !.in = DISABLED]
                         [] b \in {3, 11} -> nes
  BY <1>1 DEF AfterOpcode
<1>4. b \in {3, 11} => AfterOpcode(b) = nes
  BY <1>3
<1>5. CASE b \in {2, 6, 10}
  BY <1>2, <1>3, <1>5, FieldsOf DEF Kept
<1>6. CASE b = 12
  <2>1. After(b) = [nes EXCEPT !.in = "cfg", !.left = 5]
    BY <1>2, <1>3, <1>6
  <2> QED
    BY <2>1, <1>6, FieldsOf DEF Kept
<1>7. CASE b = 4
  BY <1>2, <1>3, <1>7, FieldsOf DEF Kept
<1>8. CASE b \in {3, 11}
  <2>1. After(b) = nes
    BY <1>2, <1>4, <1>8
  <2> QED
    BY <2>1 DEF Kept
<1> QED
  BY <1>2, <1>4, <1>5, <1>6, <1>7, <1>8

LEMMA RunTaken ==
    ASSUME NesOK(nes), nes.in = DISABLED, NEW b \in Bytes
    PROVE  Kept(After(b), nes) /\ (b = 3 => After(b).in = OPCODE)
<1>1. After(b) = IF b = 3 THEN [nes EXCEPT !.in = OPCODE] ELSE nes
  BY DEF After, Running, OP_DBG_BRK, OPCODE, DISABLED, InHead, LastOfHead
<1> QED
  BY <1>1, FieldsOf DEF Kept

LEMMA HeadTaken ==
    ASSUME NesOK(nes), nes.in \in InPackets, nes.left = 0, NEW b \in Bytes,
           Len(nes.head) # HeadLen(nes.in) - 1
    PROVE  Kept(After(b), nes)
<1>1. nes.in \notin {OPCODE, DISABLED}
  BY DEF InPackets, OPCODE, DISABLED
<1>2. InHead /\ ~LastOfHead
  BY <1>1 DEF InHead, LastOfHead
<1>3. After(b) = [nes EXCEPT !.head = Append(@, b)]
  BY <1>1, <1>2 DEF After, Running
<1> QED
  BY <1>3, FieldsOf DEF Kept

\* The last byte of the head of a write.
LEMMA HeadEndTaken ==
    ASSUME NesOK(nes), nes.in \in Writes \cup {"reg_wr"}, nes.left = 0, NEW b \in Bytes,
           Len(nes.head) = HeadLen(nes.in) - 1
    PROVE  /\ Kept(After(b), nes)
           /\ nes.in \in Writes /\ Count(nes.head, b) > 0
                 => After(b).addr = nes.head[1] + Base * nes.head[2]
           /\ nes.in = "reg_wr" => After(b).addr = b
<1> DEFINE data(addr, n) == [nes EXCEPT !.head = <<>>, !.addr = addr, !.left = n]
           c == Count(nes.head, b)
           a == nes.head[1] + Base * nes.head[2]
<1>1. nes.in \notin {OPCODE, DISABLED}
  BY DEF Writes, OPCODE, DISABLED
<1>2. InHead /\ LastOfHead
  BY <1>1 DEF InHead, LastOfHead
<1>3. After(b) = AfterHead(b)
  BY <1>1, <1>2 DEF After, Running
<1>4. AfterHead(b) = IF nes.in = "reg_wr" THEN data(b, 1)
                     ELSE IF c > 0 THEN data(a, c) ELSE Between(nes)
  BY DEF AfterHead, Writes
<1>5. ASSUME NEW x, NEW n PROVE Kept(data(x, n), nes) /\ data(x, n).addr = x
  BY FieldsOf DEF Kept
<1>6. Kept(Between(nes), nes)
  BY FieldsOf, BetweenKept
<1> HIDE DEF data, c, a
<1>7. CASE nes.in = "reg_wr"
  BY <1>3, <1>4, <1>5, <1>7 DEF Writes
<1>8. CASE nes.in # "reg_wr"
  BY <1>3, <1>4, <1>5, <1>6, <1>8 DEF c, a
<1> QED
  BY <1>7, <1>8

\* A byte of data.
LEMMA DataTaken ==
    ASSUME NesOK(nes), nes.left > 0, nes.in \in {"cpu_wr", "ppu_wr", "reg_wr", "cfg"}, NEW b \in Bytes
    PROVE  LET m   == After(b)
               reg == nes.addr % 16
           IN  /\ m.cpu = IF nes.in = "cpu_wr" THEN [nes.cpu EXCEPT ![Cell(nes.addr)] = b] ELSE nes.cpu
               /\ m.ppu = IF nes.in = "ppu_wr" THEN [nes.ppu EXCEPT ![Cell(nes.addr)] = b] ELSE nes.ppu
               /\ m.cfg = IF nes.in = "cfg" THEN Append(Tail(nes.cfg), b) ELSE nes.cfg
               /\ m.regs = IF nes.in = "reg_wr" /\ reg \in Registers \cap WritableRegs
                           THEN [nes.regs EXCEPT ![reg] = b] ELSE nes.regs
               /\ nes.in \in Writes /\ nes.left # 1 => m.addr = (nes.addr + 1) % (Base * Base)
<1> DEFINE reg   == nes.addr % 16
           moved == [nes EXCEPT !.addr = (@ + 1) % (Base * Base)]
           n1 == [moved EXCEPT !.cpu[Cell(nes.addr)] = b]
           n2 == [moved EXCEPT !.ppu[Cell(nes.addr)] = b]
           n3 == [nes EXCEPT !.cfg = Append(Tail(@), b)]
           n4 == IF reg \in Registers \cap WritableRegs THEN [nes EXCEPT !.regs[reg] = b] ELSE nes
           n  == CASE nes.in = "cpu_wr" -> n1
                   [] nes.in = "ppu_wr" -> n2
                   [] nes.in = "cfg"    -> n3
                   [] OTHER -> n4
           F  == {"in", "head", "addr", "left", "err", "cpu", "ppu", "regs", "cfg"}
<1>1. nes.in \notin {OPCODE, DISABLED} /\ ~InHead /\ ~LastOfHead
  BY DEF InHead, LastOfHead, OPCODE, DISABLED
<1>2. After(b) = AfterData(b)
  BY <1>1 DEF After, Running
<1>3. AfterData(b) = Used(n)
  BY DEF AfterData
<1>4. nes \in Machines /\ DOMAIN nes = F
  BY FieldsOf
<1>5. /\ DOMAIN moved = F /\ moved.cpu = nes.cpu /\ moved.ppu = nes.ppu /\ moved.regs = nes.regs
      /\ moved.cfg = nes.cfg /\ moved.addr = (nes.addr + 1) % (Base * Base) /\ moved.left = nes.left
  BY <1>4
<1>6. /\ DOMAIN n1 = F /\ n1.cpu = [nes.cpu EXCEPT ![Cell(nes.addr)] = b] /\ n1.ppu = nes.ppu
      /\ n1.regs = nes.regs /\ n1.cfg = nes.cfg /\ n1.addr = moved.addr /\ n1.left = nes.left
  <2> HIDE DEF moved
  <2> QED
    BY <1>5
<1>7. /\ DOMAIN n2 = F /\ n2.ppu = [nes.ppu EXCEPT ![Cell(nes.addr)] = b] /\ n2.cpu = nes.cpu
      /\ n2.regs = nes.regs /\ n2.cfg = nes.cfg /\ n2.addr = moved.addr /\ n2.left = nes.left
  <2> HIDE DEF moved
  <2> QED
    BY <1>5
<1>8. /\ DOMAIN n3 = F /\ n3.cpu = nes.cpu /\ n3.ppu = nes.ppu
      /\ n3.regs = nes.regs /\ n3.cfg = Append(Tail(nes.cfg), b)
  BY <1>4
<1>9. /\ DOMAIN n4 = F /\ n4.cpu = nes.cpu /\ n4.ppu = nes.ppu /\ n4.cfg = nes.cfg
      /\ n4.regs = IF reg \in Registers \cap WritableRegs THEN [nes.regs EXCEPT ![reg] = b]
                   ELSE nes.regs
  BY <1>4
<1> HIDE DEF moved, n1, n2, n3, n4
<1>10. n = CASE nes.in = "cpu_wr" -> n1 [] nes.in = "ppu_wr" -> n2 [] nes.in = "cfg" -> n3
             [] nes.in = "reg_wr" -> n4
  OBVIOUS
<1> HIDE DEF n, reg
<1>11. /\ DOMAIN n = F
       /\ n.cpu = IF nes.in = "cpu_wr" THEN [nes.cpu EXCEPT ![Cell(nes.addr)] = b] ELSE nes.cpu
       /\ n.ppu = IF nes.in = "ppu_wr" THEN [nes.ppu EXCEPT ![Cell(nes.addr)] = b] ELSE nes.ppu
       /\ n.cfg = IF nes.in = "cfg" THEN Append(Tail(nes.cfg), b) ELSE nes.cfg
       /\ n.regs = IF nes.in = "reg_wr" /\ reg \in Registers \cap WritableRegs
                   THEN [nes.regs EXCEPT ![reg] = b] ELSE nes.regs
       /\ nes.in \in Writes => n.addr = (nes.addr + 1) % (Base * Base) /\ n.left = nes.left
  <2>1. CASE nes.in = "cpu_wr"
    BY <1>5, <1>6, <1>10, <2>1 DEF Writes
  <2>2. CASE nes.in = "ppu_wr"
    BY <1>5, <1>7, <1>10, <2>2 DEF Writes
  <2>3. CASE nes.in = "cfg"
    BY <1>8, <1>10, <2>3 DEF Writes
  <2>4. CASE nes.in = "reg_wr"
    BY <1>9, <1>10, <2>4 DEF Writes
  <2> QED
    BY <2>1, <2>2, <2>3, <2>4
<1>12. Kept(Used(n), n) /\ (n.left # 1 => Used(n).addr = n.addr)
  BY <1>11, UsedKept
<1>13. After(b) = Used(n)
  BY <1>2, <1>3 DEF n, n1, n2, n3, n4, moved, reg
<1> DEFINE m == After(b)
<1>14. Kept(m, n) /\ (n.left # 1 => m.addr = n.addr)
  BY <1>12, <1>13
<1> HIDE DEF m
<1>15. m.cpu = n.cpu /\ m.ppu = n.ppu /\ m.regs = n.regs /\ m.cfg = n.cfg
  BY <1>14 DEF Kept
<1> QED
  BY <1>11, <1>14, <1>15 DEF m, reg

-----------------------------------------------------------------------------
(* A block of a bank.                                                       *)
MemOf(n, kind) == IF kind = "cpu_wr" THEN n.cpu ELSE n.ppu

\* The first a bytes of a bank, at offset o of the file, are there from address s on.
InPlace(mem, s, d, o, a) == \A k \in 0 .. a - 1 : mem[Cell(s + k)] = d[o + 1 + k]

BlockPacket(kind, addr, data) == <<OpOf[kind]>> \o Word(addr) \o Word(Len(data)) \o data
BlockOf(kind, s, d, o, a) == BlockPacket(kind, s + a, Slice(d, o + a, Block))

\* The machine n with w to come is in the packet of the block that begins with
\* byte a of its bank: before its data the bank is in place up to the block, and
\* then up to the byte that the machine waits for.
InBlock(n, w, kind, s, d, o, a) ==
    \/ n.in = OPCODE /\ w = BlockOf(kind, s, d, o, a) /\ InPlace(MemOf(n, kind), s, d, o, a)
    \/ /\ n.in = kind /\ n.left = 0 /\ Full(n, w) = BlockOf(kind, s, d, o, a)
       /\ InPlace(MemOf(n, kind), s, d, o, a)
    \/ /\ n.in = kind
       /\ \E m \in a .. a + Block - 1 :
             /\ n.addr = s + m /\ n.left = a + Block - m /\ w = Slice(d, o + m, a + Block - m)
             /\ InPlace(MemOf(n, kind), s, d, o, m)
    \/ n.in = OPCODE /\ w = <<>> /\ InPlace(MemOf(n, kind), s, d, o, a + Block)

\* Where a bank is within the file, the address space and the memory.
Fits(s, d, o, size) ==
    /\ d \in Seq(Bytes) /\ s \in Nat /\ o \in Nat /\ size \in Nat
    /\ o + size <= Len(d) /\ s + size <= Base * Base /\ size <= MemSize

LEMMA SliceBegins ==
    ASSUME NEW d \in Seq(Bytes), NEW x \in Nat, NEW n \in Nat, n > 0, x + n <= Len(d)
    PROVE  LET w == Slice(d, x, n)
           IN  /\ w \in Seq(Bytes) /\ Len(w) = n /\ w # <<>> /\ Head(w) = d[x + 1]
               /\ Tail(w) = Slice(d, x + 1, n - 1) /\ (n = 1 => Tail(w) = <<>>)
<1> DEFINE w == Slice(d, x, n)
           t == Tail(w)
           v == Slice(d, x + 1, n - 1)
<1>1. w \in Seq(Bytes) /\ Len(w) = n /\ \A i \in 1 .. n : w[i] = d[x + i]
  <2>1. w \in Seq(Bytes) /\ Len(w) = n
    BY SliceOf
  <2>2. \A i \in 1 .. n : w[i] = d[x + i]
    BY DEF Slice
  <2> QED
    BY <2>1, <2>2
<1>2. v \in Seq(Bytes) /\ Len(v) = n - 1 /\ \A i \in 1 .. n - 1 : v[i] = d[x + 1 + i]
  <2>1. v \in Seq(Bytes) /\ Len(v) = n - 1
    BY SliceOf
  <2>2. \A i \in 1 .. n - 1 : v[i] = d[x + 1 + i]
    BY DEF Slice
  <2> QED
    BY <2>1, <2>2
<1> HIDE DEF w, v
<1>3. w # <<>> /\ Head(w) = w[1] /\ t \in Seq(Bytes) /\ Len(t) = n - 1
      /\ \A i \in 1 .. n - 1 : t[i] = w[i + 1]
  BY <1>1
<1> HIDE DEF t
<1>4. \A i \in 1 .. n - 1 : t[i] = v[i]
  <2> TAKE i \in 1 .. n - 1
  <2>1. i + 1 \in 1 .. n /\ x + (i + 1) = x + 1 + i
    OBVIOUS
  <2>2. t[i] = w[i + 1] /\ w[i + 1] = d[x + (i + 1)] /\ v[i] = d[x + 1 + i]
    BY <1>1, <1>2, <1>3, <2>1
  <2> QED
    BY <2>1, <2>2
<1>5. t = v
  BY <1>2, <1>3, <1>4, SeqEqual
<1>6. n = 1 => t = <<>>
  BY <1>3, NoBytes
<1>7. w[1] = d[x + 1]
  BY <1>1
<1> QED
  BY <1>1, <1>3, <1>5, <1>6, <1>7 DEF t, v, w

\* The parts of the packet.
LEMMA BlockParts ==
    ASSUME NEW kind \in Writes, NEW addr \in Ushorts, NEW data \in Seq(Bytes), Len(data) \in Ushorts
    PROVE  LET p == BlockPacket(kind, addr, data)
           IN  /\ p \in Seq(Bytes) /\ p # <<>> /\ Len(p) = 5 + Len(data)
               /\ p[1] = OpOf[kind] /\ OpOf[kind] \in {2, 10}
               /\ p[2] + Base * p[3] = addr /\ p[4] + Base * p[5] = Len(data)
               /\ \A i \in 1 .. Len(data) : p[5 + i] = data[i]
<1> DEFINE op == OpOf[kind]
           h == <<op>> \o Word(addr) \o Word(Len(data))
           p == h \o data
<1>1. op \in {2, 10} /\ op \in Bytes
  BY ByteRange, OpOfIn DEF Writes
<1> HIDE DEF op
<1>2. /\ h \in Seq(Bytes) /\ Len(h) = 5 /\ h[1] = op
      /\ h[2] + 256 * h[3] = addr /\ h[4] + 256 * h[5] = Len(data)
  BY <1>1, Head5
<1> HIDE DEF h
<1>3. h # <<>>
  BY <1>2
<1>4. /\ p \in Seq(Bytes) /\ p # <<>> /\ Len(p) = Len(h) + Len(data)
      /\ \A i \in 1 .. Len(h) : p[i] = h[i]
      /\ \A i \in 1 .. Len(data) : p[Len(h) + i] = data[i]
  BY <1>2, <1>3, WithData
<1> HIDE DEF p
<1>5. p[1] = h[1] /\ p[2] = h[2] /\ p[3] = h[3] /\ p[4] = h[4] /\ p[5] = h[5]
  BY <1>2, <1>4
<1>6. BlockPacket(kind, addr, data) = p
  BY DEF BlockPacket, p, h, op
<1> QED
  BY <1>1, <1>2, <1>4, <1>5, <1>6, ByteRange DEF op

\* The data are what follows the head.
LEMMA DataOf ==
    ASSUME NEW op \in Bytes, NEW h \in Seq(Bytes), Len(h) = 3, NEW w \in Seq(Bytes), w # <<>>,
           NEW data \in Seq(Bytes), Len(<<op>> \o h \o w) = 5 + Len(data),
           \A i \in 1 .. Len(data) : (<<op>> \o h \o w)[5 + i] = data[i]
    PROVE  Tail(w) = data
<1> DEFINE s == <<op>> \o h
           p == <<op>> \o h \o w
           t == Tail(w)
<1>1. s \in Seq(Bytes) /\ Len(s) = 4
  <2> DEFINE f == <<op>>
  <2>1. f \in Seq(Bytes) /\ Len(f) = 1
    OBVIOUS
  <2> HIDE DEF f
  <2>2. f \o h \in Seq(Bytes) /\ Len(f \o h) = Len(f) + Len(h)
    BY <2>1, Joined
  <2>3. s = f \o h
    BY DEF f
  <2> HIDE DEF s
  <2> QED
    BY <2>1, <2>2, <2>3
<1> HIDE DEF s
<1>2. s # <<>>
  <2>1. Len(s) >= 1
    BY <1>1
  <2> QED
    BY <1>1, <2>1, NotEmpty
<1>3. Len(p) = 5 + Len(data) /\ \A i \in 1 .. Len(data) : p[5 + i] = data[i]
  OBVIOUS
<1>4. Len(p) = 4 + Len(w) /\ \A i \in 1 .. Len(w) : p[4 + i] = w[i]
  <2>1. p = s \o w
    BY DEF s
  <2> DEFINE u == s \o w
  <2>2. Len(u) = Len(s) + Len(w) /\ \A i \in 1 .. Len(w) : u[Len(s) + i] = w[i]
    BY <1>1, <1>2, WithData
  <2> HIDE DEF u
  <2>3. Len(u) = 4 + Len(w) /\ \A i \in 1 .. Len(w) : u[4 + i] = w[i]
    BY <1>1, <2>2
  <2>4. p = u
    BY <2>1 DEF u
  <2> HIDE DEF p
  <2> QED
    BY <2>3, <2>4
<1> HIDE DEF p
<1>5. t \in Seq(Bytes) /\ Len(t) = Len(w) - 1 /\ \A i \in 1 .. Len(w) - 1 : t[i] = w[i + 1]
  OBVIOUS
<1> HIDE DEF t
<1>6. Len(w) \in Nat /\ Len(data) \in Nat
  OBVIOUS
<1>7. Len(t) = Len(data)
  BY <1>4, <1>5, <1>6, <1>3
<1>8. \A i \in 1 .. Len(data) : t[i] = data[i]
  <2> TAKE i \in 1 .. Len(data)
  <2>1. i + 1 \in 1 .. Len(w) /\ 4 + (i + 1) = 5 + i /\ i \in 1 .. Len(w) - 1
    BY <1>4, <1>6, <1>3
  <2> QED
    BY <1>4, <1>5, <1>3, <2>1
<1> QED
  BY <1>5, <1>7, <1>8, SeqEqual DEF t

\* A byte more of a bank, in a cell that no other byte of it has.
LEMMA CellsApart ==
    ASSUME NEW s \in Nat, NEW m \in Nat, m < MemSize, NEW k \in 0 .. m - 1
    PROVE  Cell(s + k) # Cell(s + m)
<1> DEFINE M == MemSize
           x == (s + k) \div M
           y == (s + m) \div M
           r == (s + k) % M
           t == (s + m) % M
<1>1. M \in Nat /\ M > 0
  BY CommAssumption
<1>2. s + k = M * x + r /\ r \in Int /\ x \in Int
  BY <1>1, Z3
<1>3. s + m = M * y + t /\ t \in Int /\ y \in Int
  BY <1>1, Z3
<1> HIDE DEF x, y, r, t
<1> SUFFICES ASSUME r = t
             PROVE  FALSE
  BY DEF Cell, r, t
<1>4. M * y - M * x = m - k
  BY <1>1, <1>2, <1>3
<1> DEFINE u == y - x
<1>5. M * u = m - k /\ u \in Int
  BY <1>1, <1>2, <1>3, <1>4
<1> HIDE DEF u
<1>6. u >= 1 => M * u >= M
  BY <1>1, <1>5
<1>7. u <= 0 => M * u <= 0
  BY <1>1, <1>5
<1>8. m - k > 0 /\ m - k < M
  BY <1>1
<1> QED
  BY <1>1, <1>5, <1>6, <1>7, <1>8

LEMMA OneMore ==
    ASSUME NEW mem \in Memories, NEW s \in Nat, NEW d, NEW o \in Nat, NEW m \in Nat, m < MemSize,
           InPlace(mem, s, d, o, m)
    PROVE  InPlace([mem EXCEPT ![Cell(s + m)] = d[o + 1 + m]], s, d, o, m + 1)
<1> DEFINE new == [mem EXCEPT ![Cell(s + m)] = d[o + 1 + m]]
<1>1. SUFFICES ASSUME NEW k \in 0 .. m
               PROVE  new[Cell(s + k)] = d[o + 1 + k]
  BY DEF InPlace
<1>2. DOMAIN mem = Cells /\ s + k \in Nat /\ Cell(s + k) \in Cells
  BY CellOK DEF Memories
<1>3. CASE k = m
  BY <1>2, <1>3
<1>4. CASE k # m
  <2>1. k \in 0 .. m - 1
    BY <1>4
  <2>2. Cell(s + k) # Cell(s + m)
    BY <2>1, CellsApart
  <2>3. mem[Cell(s + k)] = d[o + 1 + k]
    BY <2>1 DEF InPlace
  <2> QED
    BY <1>2, <2>2, <2>3
<1> QED
  BY <1>3, <1>4

\* A byte of a block: the opcode, the head, the data.
LEMMA BlockOpcode ==
    ASSUME NesOK(nes), NEW kind \in Writes, NEW s, NEW d, NEW o, NEW a, nes.in = OPCODE,
           NEW w \in Seq(Bytes), w # <<>>, w = BlockOf(kind, s, d, o, a),
           w[1] = OpOf[kind], OpOf[kind] \in {2, 10}, InPlace(MemOf(nes, kind), s, d, o, a)
    PROVE  InBlock(After(Head(w)), Tail(w), kind, s, d, o, a) /\ Kept(After(Head(w)), nes)
<1> DEFINE b == Head(w)
           t == Tail(w)
           m == After(b)
<1>1. b \in Bytes /\ b = w[1] /\ t \in Seq(Bytes) /\ <<b>> \o t = w
  BY FirstByte
<1>2. b \in {2, 10} /\ b = OpOf[kind] /\ PacketOf[b] = kind
  <2>1. kind \in InPackets \ {"cfg"} /\ kind \in {"cpu_wr", "ppu_wr"}
    BY DEF InPackets, Writes
  <2>2. PacketOf[2] = "cpu_wr" /\ PacketOf[10] = "ppu_wr"
    BY DEF PacketOf, OP_ECHO, OP_CPU_MEM_RD, OP_CPU_MEM_WR, OP_CPU_REG_RD, OP_CPU_REG_WR,
           OP_PPU_MEM_RD, OP_PPU_MEM_WR
  <2>3. OpOf["cpu_wr"] = 2 /\ OpOf["ppu_wr"] = 10
    BY OpOfIn
  <2> QED
    BY <1>1, <2>1, <2>2, <2>3
<1> HIDE DEF b, t
<1>3. m.in = kind /\ m.left = 0 /\ m.head = <<>>
  BY <1>1, <1>2, AtOpcode
<1>4. Kept(m, nes)
  BY <1>2, OpcodeTaken
<1> HIDE DEF m
<1>5. MemOf(m, kind) = MemOf(nes, kind)
  BY <1>4 DEF Kept, MemOf
<1>6. Full(m, t) = w
  <2>1. Full(m, t) = <<b>> \o <<>> \o t
    BY <1>2, <1>3 DEF Full
  <2> DEFINE f == <<b>>
  <2>2. f \in Seq(Bytes)
    BY <1>1
  <2> HIDE DEF f
  <2>3. f \o <<>> = f
    BY <2>2
  <2> QED
    BY <1>1, <2>1, <2>3 DEF f
<1>7. InBlock(m, t, kind, s, d, o, a)
  BY <1>3, <1>5, <1>6 DEF InBlock
<1> QED
  BY <1>4, <1>7 DEF b, t, m

LEMMA BlockHead ==
    ASSUME NesOK(nes), NEW kind \in Writes, NEW s, NEW d, NEW o, NEW a,
           nes.in = kind, nes.left = 0, Len(nes.head) # 3,
           NEW w \in Seq(Bytes), w # <<>>, Full(nes, w) = BlockOf(kind, s, d, o, a),
           InPlace(MemOf(nes, kind), s, d, o, a)
    PROVE  InBlock(After(Head(w)), Tail(w), kind, s, d, o, a) /\ Kept(After(Head(w)), nes)
<1> DEFINE b == Head(w)
           t == Tail(w)
           m == After(b)
<1>1. b \in Bytes /\ t \in Seq(Bytes)
  BY FirstByte
<1>2. nes.in \in InPackets /\ HeadLen(nes.in) - 1 = 3 /\ nes.head \in Seq(Bytes)
  BY HeadLens, FieldsOf DEF Writes, InPackets
<1>3. OpOf[kind] \in Bytes
  BY OpOfPackets DEF Writes, InPackets
<1>4. <<OpOf[kind]>> \o Append(nes.head, b) \o t = Full(nes, w)
  BY <1>2, <1>3, AppendTail DEF Full
<1> HIDE DEF b, t
<1>5. m.in = kind /\ m.left = 0 /\ m.head = Append(nes.head, b)
  BY <1>1, <1>2, AtHead
<1>6. Kept(m, nes)
  BY <1>1, <1>2, HeadTaken
<1> HIDE DEF m
<1>7. Full(m, t) = Full(nes, w)
  BY <1>4, <1>5 DEF Full
<1>8. MemOf(m, kind) = MemOf(nes, kind)
  BY <1>6 DEF Kept, MemOf
<1>9. InBlock(m, t, kind, s, d, o, a)
  BY <1>5, <1>7, <1>8 DEF InBlock
<1> QED
  BY <1>6, <1>9 DEF b, t, m

\* Where the data of a block are in the file.
LEMMA BlockWithin ==
    ASSUME NEW s, NEW d, NEW o, NEW size, Fits(s, d, o, size), NEW a \in Nat, a + Block <= size
    PROVE  /\ s + a \in Ushorts /\ o + a \in Nat /\ o + a + Block <= Len(d)
           /\ Block \in Nat /\ Block > 0 /\ Block \in Ushorts
           /\ Slice(d, o + a, Block) \in Seq(Bytes) /\ Len(Slice(d, o + a, Block)) = Block
<1>1. Block \in Nat /\ Block > 0 /\ Block \in Ushorts
  BY Banks DEF Ushorts
<1>2. s + a \in Ushorts /\ o + a \in Nat /\ o + a + Block <= Len(d) /\ d \in Seq(Bytes)
  BY <1>1, ByteRange DEF Fits, Ushorts
<1> QED
  BY <1>1, <1>2, SliceOf

LEMMA BlockHeadEnd ==
    ASSUME NesOK(nes), NEW kind \in Writes, NEW s, NEW d, NEW o, NEW size, Fits(s, d, o, size),
           NEW a \in Nat, a + Block <= size,
           nes.in = kind, nes.left = 0, Len(nes.head) = 3,
           NEW w \in Seq(Bytes), w # <<>>, Full(nes, w) = BlockOf(kind, s, d, o, a),
           InPlace(MemOf(nes, kind), s, d, o, a)
    PROVE  InBlock(After(Head(w)), Tail(w), kind, s, d, o, a) /\ Kept(After(Head(w)), nes)
<1> DEFINE b == Head(w)
           t == Tail(w)
           m == After(b)
           h == nes.head
           op == OpOf[kind]
           data == Slice(d, o + a, Block)
           p == BlockPacket(kind, s + a, data)
<1>1. b \in Bytes /\ t \in Seq(Bytes)
  BY FirstByte
<1>2. nes.in \in InPackets /\ HeadLen(nes.in) - 1 = 3 /\ h \in Seq(Bytes)
  BY HeadLens, FieldsOf DEF Writes, InPackets
<1>3. op \in Bytes
  BY OpOfPackets DEF Writes, InPackets
<1>4. /\ s + a \in Ushorts /\ Block \in Nat /\ Block > 0 /\ Block \in Ushorts
      /\ data \in Seq(Bytes) /\ Len(data) = Block
  BY BlockWithin
<1>5. p = <<op>> \o h \o w
  BY DEF Full, BlockOf
<1> HIDE DEF data, op, h
<1>6. /\ Len(p) = 5 + Block
      /\ p[2] + Base * p[3] = s + a /\ p[4] + Base * p[5] = Block
      /\ \A i \in 1 .. Len(data) : p[5 + i] = data[i]
  <2> DEFINE x == s + a
  <2>1. x \in Ushorts /\ data \in Seq(Bytes) /\ Len(data) \in Ushorts /\ Len(data) = Block
    BY <1>4
  <2>2. p = BlockPacket(kind, x, data)
    OBVIOUS
  <2> HIDE DEF p, x
  <2>3. /\ Len(p) = 5 + Len(data)
        /\ p[2] + Base * p[3] = x /\ p[4] + Base * p[5] = Len(data)
        /\ \A i \in 1 .. Len(data) : p[5 + i] = data[i]
    BY <2>1, <2>2, BlockParts
  <2> QED
    BY <2>1, <2>3 DEF x
<1> HIDE DEF p
<1>7. p[2] = h[1] /\ p[3] = h[2] /\ p[4] = h[3] /\ p[5] = b
  <2>1. \A i \in 1 .. Len(h) : p[i + 1] = h[i]
    BY <1>2, <1>3, <1>5, InFull
  <2>2. p[Len(h) + 2] = b
    BY <1>2, <1>3, <1>5, InFull
  <2>3. Len(h) = 3
    BY DEF h
  <2> QED
    BY <2>1, <2>2, <2>3
<1>8. t = data
  <2>1. Len(h) = 3 /\ Len(p) = 5 + Len(data)
    BY <1>4, <1>6 DEF h
  <2> QED
    <3>1. op \in Bytes /\ h \in Seq(Bytes) /\ data \in Seq(Bytes)
      BY <1>2, <1>3, <1>4
    <3>2. p = <<op>> \o h \o w
      BY <1>5
    <3>3. \A i \in 1 .. Len(data) : p[5 + i] = data[i]
      BY <1>6
    <3>4. Len(<<op>> \o h \o w) = 5 + Len(data)
          /\ \A i \in 1 .. Len(data) : (<<op>> \o h \o w)[5 + i] = data[i]
      BY <2>1, <3>2, <3>3
    <3> QED
      BY <2>1, <3>1, <3>4, DataOf
<1>9. Count(h, b) = Block /\ h[1] + Base * h[2] = s + a
  BY <1>2, <1>6, <1>7 DEF Count, h
<1> HIDE DEF b, t
<1>10. m.in = kind /\ m.head = <<>> /\ m.left = Block
  BY <1>1, <1>2, <1>4, <1>9, AtHeadEnd DEF h
<1>11. Kept(m, nes) /\ m.addr = s + a
  BY <1>1, <1>2, <1>4, <1>9, HeadEndTaken DEF h
<1> HIDE DEF m
<1>12. MemOf(m, kind) = MemOf(nes, kind)
  BY <1>11 DEF Kept, MemOf
<1>13. /\ a \in a .. a + Block - 1 /\ a + Block - a = Block
  BY <1>4
<1>14. InBlock(m, t, kind, s, d, o, a)
  BY <1>8, <1>10, <1>11, <1>12, <1>13 DEF InBlock, data
<1> QED
  BY <1>11, <1>14 DEF b, t, m

\* What a byte of data leaves alone.
Spares(m, n, kind) ==
    /\ m.cfg = n.cfg /\ m.regs = n.regs
    /\ kind # "cpu_wr" => m.cpu = n.cpu
    /\ kind # "ppu_wr" => m.ppu = n.ppu

LEMMA BlockData ==
    ASSUME NesOK(nes), NEW kind \in Writes, NEW s, NEW d, NEW o, NEW size, Fits(s, d, o, size),
           NEW a \in Nat, a + Block <= size, nes.in = kind,
           NEW k \in a .. a + Block - 1, nes.addr = s + k, nes.left = a + Block - k,
           NEW w \in Seq(Bytes), w # <<>>, w = Slice(d, o + k, a + Block - k),
           InPlace(MemOf(nes, kind), s, d, o, k)
    PROVE  /\ InBlock(After(Head(w)), Tail(w), kind, s, d, o, a)
           /\ Spares(After(Head(w)), nes, kind)
<1> DEFINE b == Head(w)
           t == Tail(w)
           m == After(b)
           n == a + Block - k
           mem == MemOf(nes, kind)
<1>1. Block \in Nat /\ Block > 0 /\ o + a + Block <= Len(d) /\ o \in Nat /\ s \in Nat
      /\ d \in Seq(Bytes) /\ size \in Nat /\ size <= MemSize /\ s + size <= Base * Base
      /\ Len(d) \in Nat /\ MemSize \in Nat /\ Base = 256
  <2>1. Block \in Nat /\ Block > 0 /\ o + a + Block <= Len(d)
    BY BlockWithin
  <2>2. o \in Nat /\ s \in Nat /\ d \in Seq(Bytes) /\ size \in Nat /\ size <= MemSize
        /\ s + size <= Base * Base
    BY DEF Fits
  <2>3. Len(d) \in Nat
    BY <2>2
  <2> QED
    BY <2>1, <2>2, <2>3, CommAssumption
<1>2. /\ k \in Nat /\ n \in Nat /\ n > 0 /\ o + k \in Nat /\ o + k + n <= Len(d) /\ k < MemSize
      /\ s + k + 1 <= Base * Base /\ (n # 1 => s + k + 1 < Base * Base)
  BY <1>1
<1>3. /\ b \in Bytes /\ t \in Seq(Bytes) /\ b = d[o + k + 1]
      /\ t = Slice(d, o + k + 1, n - 1) /\ (n = 1 => t = <<>>)
  <2>1. Head(w) = d[o + k + 1] /\ Tail(w) = Slice(d, o + k + 1, n - 1) /\ (n = 1 => Tail(w) = <<>>)
    <3> DEFINE x == o + k
    <3>1. x \in Nat /\ n \in Nat /\ n > 0 /\ x + n <= Len(d) /\ w = Slice(d, x, n)
      BY <1>2
    <3> HIDE DEF x, n
    <3>2. Head(w) = d[x + 1] /\ Tail(w) = Slice(d, x + 1, n - 1) /\ (n = 1 => Tail(w) = <<>>)
      <4>1. d \in Seq(Bytes)
        BY <1>1
      <4> DEFINE v == Slice(d, x, n)
      <4>2. Head(v) = d[x + 1] /\ Tail(v) = Slice(d, x + 1, n - 1) /\ (n = 1 => Tail(v) = <<>>)
        BY <3>1, <4>1, SliceBegins
      <4>3. v = w
        BY <3>1
      <4> HIDE DEF v
      <4> QED
        BY <4>2, <4>3
    <3> QED
      BY <3>2 DEF x
  <2> QED
    BY <2>1, FirstByte
<1>4. nes.left = n /\ nes.left > 0
  BY <1>2
<1> HIDE DEF b, t
<1>5. /\ nes.left = 1 => IsBetween(m)
      /\ nes.left # 1 => m.in = kind /\ m.left = nes.left - 1
  BY <1>3, <1>4, AtData
<1>6. nes.in \in {"cpu_wr", "ppu_wr", "reg_wr", "cfg"}
  BY DEF Writes
<1>7. /\ m.cpu = IF kind = "cpu_wr" THEN [nes.cpu EXCEPT ![Cell(s + k)] = b] ELSE nes.cpu
      /\ m.ppu = IF kind = "ppu_wr" THEN [nes.ppu EXCEPT ![Cell(s + k)] = b] ELSE nes.ppu
      /\ m.cfg = nes.cfg /\ m.regs = nes.regs
      /\ nes.left # 1 => m.addr = (nes.addr + 1) % (Base * Base)
  BY <1>3, <1>4, <1>6, DataTaken DEF Writes
<1> HIDE DEF m
<1>8. mem \in Memories
  BY FieldsOf DEF MemOf
<1>9. MemOf(m, kind) = [mem EXCEPT ![Cell(s + k)] = d[o + 1 + k]]
  <2>1. o + k + 1 = o + 1 + k
    BY <1>1, <1>2
  <2>2. b = d[o + 1 + k]
    BY <1>3, <2>1
  <2> QED
    BY <1>7, <2>2 DEF MemOf, Writes
<1> HIDE DEF mem
<1>10. InPlace(MemOf(m, kind), s, d, o, k + 1)
  <2>1. InPlace(mem, s, d, o, k)
    BY DEF mem
  <2> QED
    <3> DEFINE new == [mem EXCEPT ![Cell(s + k)] = d[o + 1 + k]]
    <3>1. InPlace(new, s, d, o, k + 1)
      BY <1>1, <1>2, <1>8, <2>1, OneMore
    <3> HIDE DEF new
    <3>2. MemOf(m, kind) = new
      BY <1>9 DEF new
    <3> QED
      BY <3>1, <3>2
<1> HIDE DEF n
<1>11. CASE n = 1
  <2>1. k + 1 = a + Block
    BY <1>1, <1>2, <1>11 DEF n
  <2>2. m.in = OPCODE /\ t = <<>>
    BY <1>3, <1>4, <1>5, <1>11 DEF IsBetween
  <2> QED
    BY <1>10, <2>1, <2>2, <1>7 DEF InBlock, Spares, b, t, m
<1>12. CASE n # 1
  <2>1. k + 1 \in a .. a + Block - 1 /\ n - 1 = a + Block - (k + 1) /\ o + k + 1 = o + (k + 1)
    BY <1>1, <1>2, <1>12 DEF n
  <2>2. m.in = kind /\ m.left = a + Block - (k + 1) /\ t = Slice(d, o + (k + 1), a + Block - (k + 1))
    BY <1>3, <1>4, <1>5, <1>12, <2>1
  <2>3. m.addr = s + (k + 1)
    <3>1. m.addr = (s + k + 1) % (Base * Base)
      BY <1>4, <1>7, <1>12
    <3>2. s + k + 1 \in Nat /\ s + k + 1 < Base * Base
      BY <1>1, <1>2, <1>12
    <3> DEFINE x == s + k + 1
               B == Base * Base
    <3>3. x % B = x
      <4> HIDE DEF x
      <4>1. B = 65536
        BY <1>1
      <4>2. x \in Nat /\ x < 65536
        BY <3>2, <4>1 DEF x
      <4> QED
        BY <4>1, <4>2
    <3>4. s + k + 1 = s + (k + 1)
      BY <1>1, <1>2
    <3> QED
      BY <3>1, <3>3, <3>4
  <2>4. InBlock(m, t, kind, s, d, o, a)
    BY <1>10, <2>1, <2>2, <2>3 DEF InBlock
  <2> QED
    BY <1>7, <2>4 DEF Spares, b, t, m
<1> QED
  BY <1>11, <1>12

\* A byte of a block is taken.
LEMMA BlockTaken ==
    ASSUME NesOK(nes), NEW kind \in Writes, NEW s, NEW d, NEW o, NEW size, Fits(s, d, o, size),
           NEW a \in Nat, a + Block <= size,
           NEW w \in Seq(Bytes), w # <<>>, InBlock(nes, w, kind, s, d, o, a)
    PROVE  /\ InBlock(After(Head(w)), Tail(w), kind, s, d, o, a)
           /\ Spares(After(Head(w)), nes, kind)
<1>1. \A m : Kept(m, nes) => Spares(m, nes, kind)
  BY DEF Kept, Spares
<1>2. CASE nes.in = OPCODE /\ w = BlockOf(kind, s, d, o, a) /\ InPlace(MemOf(nes, kind), s, d, o, a)
  <2> DEFINE data == Slice(d, o + a, Block)
  <2>1. s + a \in Ushorts /\ data \in Seq(Bytes) /\ Len(data) \in Ushorts
    BY BlockWithin
  <2> HIDE DEF data
  <2>2. BlockPacket(kind, s + a, data)[1] = OpOf[kind] /\ OpOf[kind] \in {2, 10}
    BY <2>1, BlockParts
  <2>3. w[1] = OpOf[kind]
    BY <1>2, <2>2 DEF BlockOf, data
  <2> QED
    BY <1>1, <1>2, <2>2, <2>3, BlockOpcode
<1>3. CASE /\ nes.in = kind /\ nes.left = 0 /\ Full(nes, w) = BlockOf(kind, s, d, o, a)
           /\ InPlace(MemOf(nes, kind), s, d, o, a)
  BY <1>1, <1>3, BlockHead, BlockHeadEnd
<1>4. ASSUME nes.in = kind,
             NEW m \in a .. a + Block - 1, nes.addr = s + m, nes.left = a + Block - m,
             w = Slice(d, o + m, a + Block - m), InPlace(MemOf(nes, kind), s, d, o, m)
      PROVE  /\ InBlock(After(Head(w)), Tail(w), kind, s, d, o, a)
             /\ Spares(After(Head(w)), nes, kind)
  BY <1>4, BlockData
<1> QED
  BY <1>2, <1>3, <1>4 DEF InBlock

-----------------------------------------------------------------------------
(* The packet of the configuration, and those of the registers.             *)
\* The machine n with w to come is in the packet of the configuration: it has
\* moved k bytes of it into the five it keeps.
InCfg(n, w, d) ==
    \/ n.in = OPCODE /\ w = CartSetCfgPacket(d)
    \/ /\ n.in = "cfg"
       /\ \E k \in 0 .. 4 : /\ n.left = 5 - k /\ w = Slice(d, 4 + k, 5 - k)
                            /\ \A j \in 1 .. k : n.cfg[5 - k + j] = d[4 + j]
    \/ n.in = OPCODE /\ w = <<>> /\ n.cfg = SubSeq(d, 5, 9)

\* It is in the packet that writes v to register r.
InReg(n, w, r, v) ==
    \/ n.in = OPCODE /\ w = <<6, r, v>>
    \/ n.in = "reg_wr" /\ n.left = 0 /\ w = <<r, v>>
    \/ n.in = "reg_wr" /\ n.left = 1 /\ n.addr = r /\ w = <<v>>
    \/ n.in = OPCODE /\ w = <<>> /\ (r \in Registers => n.regs[r] = v)

LEMMA CfgShifted ==
    ASSUME NEW cfg \in Seq(Bytes), Len(cfg) = 5, NEW b \in Bytes
    PROVE  LET c == Append(Tail(cfg), b)
           IN  /\ c \in Seq(Bytes) /\ Len(c) = 5 /\ c[5] = b
               /\ \A i \in 1 .. 4 : c[i] = cfg[i + 1]
<1> DEFINE t == Tail(cfg)
           c == Append(t, b)
<1>1. t \in Seq(Bytes) /\ Len(t) = Len(cfg) - 1 /\ \A i \in 1 .. Len(t) : t[i] = cfg[i + 1]
  <2>1. cfg # <<>>
    <3>1. Len(cfg) >= 1
      OBVIOUS
    <3> QED
      BY <3>1, NotEmpty
  <2> QED
    BY <2>1
<1> HIDE DEF t
<1>2. c \in Seq(Bytes) /\ Len(c) = 5 /\ c[5] = b /\ \A i \in 1 .. 4 : c[i] = t[i]
  <2>1. Len(t) = 4
    BY <1>1
  <2>2. c \in Seq(Bytes) /\ Len(c) = Len(t) + 1
    BY <1>1, Appended
  <2>3. c[Len(t) + 1] = b /\ \A i \in 1 .. Len(t) : c[i] = t[i]
    <3>1. t \in Seq(Bytes)
      BY <1>1
    <3> QED
      BY <3>1
  <2> HIDE DEF c
  <2>4. Len(c) = 5 /\ c[5] = b
    BY <2>1, <2>2, <2>3
  <2> QED
    BY <2>1, <2>2, <2>3, <2>4
<1> HIDE DEF c
<1>3. \A i \in 1 .. 4 : c[i] = cfg[i + 1]
  BY <1>1, <1>2
<1> QED
  BY <1>2, <1>3 DEF c, t

LEMMA CfgData ==
    ASSUME NesOK(nes), NEW d \in Seq(Bytes), Len(d) >= 9, NEW w \in Seq(Bytes), w # <<>>,
           nes.in = "cfg", NEW k \in 0 .. 4, nes.left = 5 - k, w = Slice(d, 4 + k, 5 - k),
           \A j \in 1 .. k : nes.cfg[5 - k + j] = d[4 + j]
    PROVE  InCfg(After(Head(w)), Tail(w), d)
<1> DEFINE b == Head(w)
           t == Tail(w)
           m == After(b)
           x == 4 + k
           n == 5 - k
<1>1. x \in Nat /\ n \in Nat /\ n > 0 /\ x + n <= Len(d) /\ w = Slice(d, x, n) /\ nes.left = n
      /\ x + n = 9 /\ n >= 1
  <2>1. Len(d) \in Nat
    OBVIOUS
  <2> QED
    BY <2>1
<1> HIDE DEF x, n
<1>2. b = d[x + 1] /\ t = Slice(d, x + 1, n - 1) /\ (n = 1 => t = <<>>)
  <2> DEFINE v == Slice(d, x, n)
  <2>1. Head(v) = d[x + 1] /\ Tail(v) = Slice(d, x + 1, n - 1) /\ (n = 1 => Tail(v) = <<>>)
    BY <1>1, SliceBegins
  <2>2. v = w
    BY <1>1
  <2> HIDE DEF v
  <2> QED
    BY <2>1, <2>2
<1>3. b \in Bytes /\ t \in Seq(Bytes)
  BY FirstByte
<1> HIDE DEF b, t
<1>4. nes.left > 0
  BY <1>1
<1>5. /\ nes.left = 1 => IsBetween(m)
      /\ nes.left # 1 => m.in = "cfg" /\ m.left = nes.left - 1
  BY <1>3, <1>4, AtData
<1>6. m.cfg = Append(Tail(nes.cfg), b)
  BY <1>3, <1>4, DataTaken
<1> HIDE DEF m
<1>7. nes.cfg \in Seq(Bytes) /\ Len(nes.cfg) = 5
  BY FieldsOf
<1>8. /\ m.cfg \in Seq(Bytes) /\ Len(m.cfg) = 5 /\ m.cfg[5] = b
      /\ \A i \in 1 .. 4 : m.cfg[i] = nes.cfg[i + 1]
  <2> DEFINE c == Append(Tail(nes.cfg), b)
  <2>1. /\ c \in Seq(Bytes) /\ Len(c) = 5 /\ c[5] = b
        /\ \A i \in 1 .. 4 : c[i] = nes.cfg[i + 1]
    BY <1>3, <1>7, CfgShifted
  <2>2. m.cfg = c
    BY <1>6
  <2> HIDE DEF c
  <2> QED
    BY <2>1, <2>2
<1>9. \A j \in 1 .. k + 1 : m.cfg[5 - (k + 1) + j] = d[4 + j]
  <2> SUFFICES ASSUME NEW j \in 1 .. k + 1
               PROVE  m.cfg[5 - (k + 1) + j] = d[4 + j]
    OBVIOUS
  <2>1. CASE j = k + 1
    <3>1. 5 - (k + 1) + j = 5 /\ 4 + j = x + 1
      BY <2>1 DEF x
    <3> QED
      BY <1>2, <1>8, <3>1
  <2>2. CASE j # k + 1
    <3>1. j \in 1 .. k /\ 5 - (k + 1) + j \in 1 .. 4 /\ (5 - (k + 1) + j) + 1 = 5 - k + j
      BY <2>2
    <3>2. m.cfg[5 - (k + 1) + j] = nes.cfg[5 - k + j]
      BY <1>8, <3>1
    <3>3. nes.cfg[5 - k + j] = d[4 + j]
      BY <3>1
    <3> QED
      BY <3>2, <3>3
  <2> QED
    BY <2>1, <2>2
<1>10. CASE n = 1
  <2>1. k = 4
    BY <1>10 DEF n
  <2>2. m.in = OPCODE /\ t = <<>>
    BY <1>1, <1>2, <1>5, <1>10 DEF IsBetween
  <2> DEFINE s == SubSeq(d, 5, 9)
  <2>3. s \in Seq(Bytes) /\ Len(s) = 5 /\ \A j \in 1 .. 5 : s[j] = d[4 + j]
    <3>1. Len(d) \in Nat
      OBVIOUS
    <3> QED
      BY <3>1
  <2> HIDE DEF s
  <2>4. \A j \in 1 .. 5 : m.cfg[j] = d[4 + j]
    <3>1. \A j \in 1 .. 5 : j \in 1 .. k + 1 /\ 5 - (k + 1) + j = j
      BY <2>1
    <3> QED
      BY <1>9, <3>1
  <2>5. m.cfg = s
    <3> DEFINE c == m.cfg
    <3>1. c \in Seq(Bytes) /\ Len(c) = Len(s) /\ \A j \in 1 .. 5 : c[j] = s[j]
      BY <1>8, <2>3, <2>4
    <3> HIDE DEF c
    <3>2. c = s
      BY <2>3, <3>1, SeqEqual
    <3> QED
      BY <3>2 DEF c
  <2> QED
    BY <2>2, <2>5 DEF InCfg, s, m, b, t
<1>11. CASE n # 1
  <2>1. k + 1 \in 0 .. 4 /\ 4 + (k + 1) = x + 1 /\ 5 - (k + 1) = n - 1
    BY <1>1, <1>11 DEF x, n
  <2>2. m.in = "cfg" /\ m.left = 5 - (k + 1) /\ t = Slice(d, 4 + (k + 1), 5 - (k + 1))
    BY <1>1, <1>2, <1>5, <1>11, <2>1
  <2>3. InCfg(m, t, d)
    BY <1>9, <2>1, <2>2 DEF InCfg
  <2> QED
    BY <2>3 DEF m, b, t
<1> QED
  BY <1>10, <1>11

LEMMA CfgTaken ==
    ASSUME NesOK(nes), NEW d \in Seq(Bytes), Len(d) >= 9, NEW w \in Seq(Bytes), w # <<>>,
           InCfg(nes, w, d)
    PROVE  InCfg(After(Head(w)), Tail(w), d)
<1>1. CASE nes.in = OPCODE /\ w = CartSetCfgPacket(d)
  <2> DEFINE s == SubSeq(d, 5, 9)
             p == << 12 >> \o s
             m == After(Head(w))
  <2>1. s \in Seq(Bytes) /\ s = Slice(d, 4, 5)
    <3>1. Len(d) \in Nat
      OBVIOUS
    <3> QED
      BY <3>1 DEF Slice
  <2>2. w = p
    BY <1>1 DEF CartSetCfgPacket, DbgPacketOpCodeCartSetCfg
  <2> HIDE DEF s
  <2>3. Head(p) = 12 /\ Tail(p) = s
    BY <2>1
  <2>4. Head(w) = 12 /\ Tail(w) = s
    BY <2>2, <2>3
  <2>5. m.in = "cfg" /\ m.left = 5
    <3>1. 12 \in Bytes
      BY ByteRange
    <3> QED
      BY <1>1, <2>4, <3>1, AtOpcode
  <2> HIDE DEF m
  <2>6. \E k \in 0 .. 4 : /\ m.left = 5 - k /\ Tail(w) = Slice(d, 4 + k, 5 - k)
                          /\ \A j \in 1 .. k : m.cfg[5 - k + j] = d[4 + j]
    <3>1. 0 \in 0 .. 4 /\ m.left = 5 - 0 /\ Tail(w) = Slice(d, 4 + 0, 5 - 0)
          /\ \A j \in 1 .. 0 : m.cfg[5 - 0 + j] = d[4 + j]
      BY <2>1, <2>4, <2>5
    <3> QED
      BY <3>1
  <2>7. InCfg(m, Tail(w), d)
    BY <2>5, <2>6 DEF InCfg
  <2> QED
    BY <2>7 DEF m
<1> QED
  BY <1>1, CfgData DEF InCfg

LEMMA RegTaken ==
    ASSUME NesOK(nes), NEW r \in {0, 1}, NEW v \in Bytes, NEW w, w # <<>>, InReg(nes, w, r, v)
    PROVE  LET m == After(Head(w))
           IN  /\ InReg(m, Tail(w), r, v)
               /\ m.cpu = nes.cpu /\ m.ppu = nes.ppu /\ m.cfg = nes.cfg
               /\ \A x \in Registers : x # r => m.regs[x] = nes.regs[x]
<1> DEFINE m == After(Head(w))
<1>1. r \in Bytes /\ 6 \in Bytes /\ nes.regs \in [Registers -> Bytes]
  BY ByteRange, FieldsOf
<1>2. CASE nes.in = OPCODE /\ w = <<6, r, v>>
  <2>1. Head(w) = 6 /\ Tail(w) = <<r, v>>
    BY <1>2
  <2>2. m.in = PacketOf[6] /\ m.left = 0 /\ Kept(m, nes)
    BY <1>1, <1>2, <2>1, AtOpcode, OpcodeTaken
  <2>3. PacketOf[6] = "reg_wr"
    BY DEF PacketOf, OP_ECHO, OP_CPU_MEM_RD, OP_CPU_MEM_WR, OP_CPU_REG_RD, OP_CPU_REG_WR,
           OP_PPU_MEM_RD, OP_PPU_MEM_WR
  <2> HIDE DEF m
  <2>4. InReg(m, Tail(w), r, v)
    BY <2>1, <2>2, <2>3 DEF InReg
  <2> QED
    BY <2>2, <2>4 DEF Kept, m
<1>3. CASE nes.in = "reg_wr" /\ nes.left = 0 /\ w = <<r, v>>
  <2>1. Head(w) = r /\ Tail(w) = <<v>>
    BY <1>3
  <2>2. nes.in \in InPackets /\ HeadLen(nes.in) = 1 /\ Len(nes.head) = HeadLen(nes.in) - 1
    <3>1. nes.in \in InPackets /\ HeadLen(nes.in) = 1
      BY <1>3, HeadLens DEF InPackets
    <3>2. Len(nes.head) \in Nat /\ Len(nes.head) < 1
      BY <1>3, <3>1, FieldsOf DEF NesOK, Shape
    <3> QED
      BY <3>1, <3>2
  <2>3. m.in = "reg_wr" /\ m.left = 1 /\ Kept(m, nes) /\ m.addr = r
    BY <1>1, <1>3, <2>1, <2>2, AtHeadEnd, HeadEndTaken
  <2> HIDE DEF m
  <2>4. InReg(m, Tail(w), r, v)
    BY <2>1, <2>3 DEF InReg
  <2> QED
    BY <2>3, <2>4 DEF Kept, m
<1>4. CASE nes.in = "reg_wr" /\ nes.left = 1 /\ nes.addr = r /\ w = <<v>>
  <2>1. Head(w) = v /\ Tail(w) = <<>>
    BY <1>4
  <2>2. nes.left > 0 /\ nes.addr % 16 = r /\ r \in WritableRegs
    BY <1>4 DEF WritableRegs
  <2>3. IsBetween(m)
    BY <1>4, <2>1, <2>2, AtData
  <2>4. /\ m.cpu = nes.cpu /\ m.ppu = nes.ppu /\ m.cfg = nes.cfg
        /\ m.regs = IF r \in Registers THEN [nes.regs EXCEPT ![r] = v] ELSE nes.regs
    BY <1>4, <2>1, <2>2, DataTaken
  <2> HIDE DEF m
  <2>5. /\ r \in Registers => m.regs[r] = v
        /\ \A x \in Registers : x # r => m.regs[x] = nes.regs[x]
    BY <1>1, <2>4
  <2>6. InReg(m, Tail(w), r, v)
    BY <2>1, <2>3, <2>5 DEF InReg, IsBetween
  <2> QED
    BY <2>4, <2>5, <2>6 DEF m
<1> QED
  BY <1>2, <1>3, <1>4 DEF InReg

-----------------------------------------------------------------------------
(* The packets of a ROM, one by one.                                        *)

\* A file that has passed the second check, in memory.
RomOK(d) == d \in Seq(Bytes) /\ Len(d) = RomSize /\ ~(d[5] > 2 \/ d[6] > 1)

PrgBlocks(d) == Prg(d) \div Block
ChrBlocks(d) == Chr(d) \div Block

LEMMA WholeParts ==
    ASSUME NEW n \in Nat, NEW b \in Nat, 0 < b, n % b = 0
    PROVE  n = b * (n \div b) /\ n \div b \in Nat
<1> DEFINE q == n \div b
           r == n % b
<1>1. n = b * q + r /\ q \in Int /\ r = 0
  BY Z3
<1>2. q \in Nat
  BY Z3
<1> HIDE DEF q, r
<1> QED
  BY <1>1, <1>2 DEF q

\* Both banks consist of blocks, and fit the file, the address space and the memory.
LEMMA BanksOf ==
    ASSUME NEW d, RomOK(d)
    PROVE  /\ Prg(d) \in {0, PrgBank, 2 * PrgBank} /\ Chr(d) \in Nat
           /\ Prg(d) \in Nat /\ PrgBlocks(d) \in Nat /\ Prg(d) = Block * PrgBlocks(d)
           /\ ChrBlocks(d) \in Nat /\ Chr(d) = Block * ChrBlocks(d)
           /\ Fits(32768, d, 16, Prg(d)) /\ Fits(0, d, 16 + Prg(d), Chr(d))
           /\ Len(d) \in Nat /\ Len(d) >= 16 + Prg(d) + Chr(d)
<1> DEFINE x == d[5]
           y == d[6]
           P == Prg(d)
           C == Chr(d)
           L == Len(d)
<1>1. L = 16 + 2 * PrgBank + ChrBank /\ L \in Nat /\ L >= 16 /\ d \in Seq(Bytes)
  BY Banks DEF RomSize, RomOK
<1>2. x \in {0, 1, 2} /\ y \in {0, 1}
  <2>1. x \in Bytes /\ y \in Bytes
    BY <1>1, ByteOf
  <2>2. ~(x > 2) /\ ~(y > 1)
    BY DEF RomOK
  <2> HIDE DEF x, y
  <2> QED
    BY <2>1, <2>2, ByteRange
<1>3. P = x * PrgBank /\ C = y * ChrBank
  BY DEF Prg, Chr
<1> HIDE DEF x, y, P, C, L
<1>4. P \in {0, PrgBank, 2 * PrgBank} /\ C \in {0, ChrBank}
  BY <1>2, <1>3, Banks
<1>5. P \in Nat /\ C \in Nat /\ P <= 2 * PrgBank /\ C <= ChrBank
  BY <1>4, Banks
<1>6. P % Block = 0 /\ C % Block = 0
  <2>1. PrgBank = Block * (PrgBank \div Block) /\ PrgBank \div Block \in Nat
        /\ ChrBank = Block * (ChrBank \div Block) /\ ChrBank \div Block \in Nat
    BY Banks, BankAssumption, WholeParts
  <2> DEFINE p == PrgBank \div Block
             c == ChrBank \div Block
  <2> HIDE DEF p, c
  <2>2. PrgBank = Block * p /\ p \in Nat /\ ChrBank = Block * c /\ c \in Nat
    BY <2>1 DEF p, c
  <2>3. \A n \in Nat : (Block * n) % Block = 0
    <3> TAKE n \in Nat
    <3>1. Block * n + 0 \in Nat /\ (Block * n + 0) % Block = 0 % Block
      BY Banks, Remains
    <3>2. Block * n + 0 = Block * n /\ 0 % Block = 0
      BY Banks
    <3> QED
      BY <3>1, <3>2
  <2>4. 2 * PrgBank = Block * (2 * p) /\ 0 = Block * 0
    BY <2>2, Banks
  <2> QED
    BY <1>4, <2>2, <2>3, <2>4
<1>7. P \div Block \in Nat /\ P = Block * (P \div Block)
      /\ C \div Block \in Nat /\ C = Block * (C \div Block)
  BY <1>5, <1>6, Banks, WholeParts
<1>8. P <= MemSize /\ C <= MemSize
  BY <1>5, Banks, BankAssumption, CommAssumption
<1>9. 32768 + P <= Base * Base /\ 0 + C <= Base * Base
  BY <1>5, Banks, ByteRange
<1>10. 16 + P <= L /\ 16 + P + C <= L /\ 16 + P \in Nat
  BY <1>1, <1>5, Banks
<1> QED
  BY <1>1, <1>4, <1>5, <1>7, <1>8, <1>9, <1>10 DEF P, C, L, PrgBlocks, ChrBlocks, Fits

LEMMA TwoJoined ==
    ASSUME NEW S, NEW s \in Seq(S), NEW t \in Seq(S)
    PROVE  /\ s \o t \in Seq(S) /\ Len(s \o t) = Len(s) + Len(t)
           /\ \A i \in 1 .. Len(s) : (s \o t)[i] = s[i]
           /\ \A i \in 1 .. Len(t) : (s \o t)[Len(s) + i] = t[i]
  OBVIOUS

Parts(S, s, t, u, v) == s \in Seq(S) /\ t \in Seq(S) /\ u \in Seq(S) /\ v \in Seq(S)

LEMMA FourJoined ==
    ASSUME NEW S, NEW s, NEW t, NEW u, NEW v, Parts(S, s, t, u, v)
    PROVE  LET p == s \o t \o u \o v
           IN  /\ Len(p) = Len(s) + Len(t) + Len(u) + Len(v)
               /\ \A i \in 1 .. Len(s) : p[i] = s[i]
               /\ \A i \in 1 .. Len(t) : p[Len(s) + i] = t[i]
               /\ \A i \in 1 .. Len(u) : p[Len(s) + Len(t) + i] = u[i]
               /\ \A i \in 1 .. Len(v) : p[Len(s) + Len(t) + Len(u) + i] = v[i]
<1> DEFINE a == s \o t
           b == a \o u
           p == b \o v
<1>1. /\ s \in Seq(S) /\ t \in Seq(S) /\ u \in Seq(S) /\ v \in Seq(S)
      /\ Len(s) \in Nat /\ Len(t) \in Nat /\ Len(u) \in Nat /\ Len(v) \in Nat
  BY DEF Parts
<1>2. /\ a \in Seq(S) /\ Len(a) = Len(s) + Len(t)
      /\ \A i \in 1 .. Len(s) : a[i] = s[i]
      /\ \A i \in 1 .. Len(t) : a[Len(s) + i] = t[i]
  BY <1>1, TwoJoined
<1> HIDE DEF a
<1>3. /\ b \in Seq(S) /\ Len(b) = Len(a) + Len(u)
      /\ \A i \in 1 .. Len(a) : b[i] = a[i]
      /\ \A i \in 1 .. Len(u) : b[Len(a) + i] = u[i]
  <2>1. a \in Seq(S) /\ u \in Seq(S)
    BY <1>1, <1>2
  <2> QED
    BY <2>1, TwoJoined
<1> HIDE DEF b
<1>4. /\ Len(p) = Len(b) + Len(v)
      /\ \A i \in 1 .. Len(b) : p[i] = b[i]
      /\ \A i \in 1 .. Len(v) : p[Len(b) + i] = v[i]
  <2>1. b \in Seq(S) /\ v \in Seq(S)
    BY <1>1, <1>3
  <2> QED
    BY <2>1, TwoJoined
<1> HIDE DEF p
<1>5. \A i \in 1 .. Len(s) : p[i] = s[i]
  <2> TAKE i \in 1 .. Len(s)
  <2>1. i \in 1 .. Len(a) /\ i \in 1 .. Len(b)
    BY <1>1, <1>2, <1>3
  <2> QED
    BY <1>2, <1>3, <1>4, <2>1
<1>6. \A i \in 1 .. Len(t) : p[Len(s) + i] = t[i]
  <2> TAKE i \in 1 .. Len(t)
  <2>1. Len(s) + i \in 1 .. Len(a) /\ Len(s) + i \in 1 .. Len(b)
    BY <1>1, <1>2, <1>3
  <2> QED
    BY <1>2, <1>3, <1>4, <2>1
<1>7. \A i \in 1 .. Len(u) : p[Len(s) + Len(t) + i] = u[i]
  <2> TAKE i \in 1 .. Len(u)
  <2>1. Len(a) + i \in 1 .. Len(b) /\ Len(a) + i = Len(s) + Len(t) + i
    BY <1>1, <1>2, <1>3
  <2>2. p[Len(a) + i] = b[Len(a) + i] /\ b[Len(a) + i] = u[i]
    BY <1>3, <1>4, <2>1
  <2> QED
    BY <2>1, <2>2
<1>8. \A i \in 1 .. Len(v) : p[Len(s) + Len(t) + Len(u) + i] = v[i]
  <2> TAKE i \in 1 .. Len(v)
  <2>1. Len(b) + i = Len(s) + Len(t) + Len(u) + i
    BY <1>1, <1>2, <1>3
  <2> QED
    BY <1>4, <2>1
<1>9. Len(p) = Len(s) + Len(t) + Len(u) + Len(v)
  BY <1>1, <1>2, <1>3, <1>4
<1> QED
  BY <1>5, <1>6, <1>7, <1>8, <1>9 DEF p, b, a

\* Bytes of the reset vector.
Vector(d, r) == d[16 + Prg(d) - 4 + 1 + r]

LEMMA PacketAt ==
    ASSUME NEW d, RomOK(d)
    PROVE  LET p == RomPackets(d)
               P == PrgBlocks(d)
               C == ChrBlocks(d)
           IN  /\ Len(p) = 6 + P + C
               /\ p[1] = DbgHltPacket /\ p[2] = PpuDisablePacket /\ p[3] = CartSetCfgPacket(d)
               /\ \A k \in 1 .. P : p[3 + k] = BlockOf("cpu_wr", 32768, d, 16, Block * (k - 1))
               /\ \A k \in 1 .. C :
                     p[3 + P + k] = BlockOf("ppu_wr", 0, d, 16 + Prg(d), Block * (k - 1))
               /\ p[3 + P + C + 1] = <<6, 0, Vector(d, 0)>>
               /\ p[3 + P + C + 2] = <<6, 1, Vector(d, 1)>>
               /\ p[3 + P + C + 3] = DbgRunPacket
<1> DEFINE prg(k) == CpuMemWrPacket(32768 + Block * (k - 1),
                                 Slice(d, 16 + Block * (k - 1), Block))
           chr(k) == PpuMemWrPacket(Block * (k - 1),
                                 Slice(d, 16 + Prg(d) + Block * (k - 1), Block))
           P == PrgBlocks(d)
           C == ChrBlocks(d)
           x1 == DbgHltPacket
           x2 == PpuDisablePacket
           x3 == CartSetCfgPacket(d)
           y1 == CpuRegWrPacket(CpuRegPcl, d[16 + Prg(d) - 4 + 1])
           y2 == CpuRegWrPacket(CpuRegPch, d[16 + Prg(d) - 3 + 1])
           y3 == DbgRunPacket
           s1 == <<x1, x2, x3>>
           s2 == [k \in 1 .. P |-> prg(k)]
           s3 == [k \in 1 .. C |-> chr(k)]
           s4 == <<y1, y2, y3>>
           S == {x1, x2, x3, y1, y2, y3} \cup {prg(k) : k \in 1 .. P} \cup {chr(k) : k \in 1 .. C}
           p == RomPackets(d)
<1>1. P \in Nat /\ C \in Nat /\ Prg(d) \in Nat /\ Block \in Nat
  BY BanksOf, Banks
<1>2. p = s1 \o s2 \o s3 \o s4
  BY DEF RomPackets, PrgBlocks, ChrBlocks
<1>3. \A k \in 1 .. P : prg(k) = BlockOf("cpu_wr", 32768, d, 16, Block * (k - 1))
  <2>1. OpOf["cpu_wr"] = DbgPacketOpCodeCpuMemWr
    BY OpOfIn DEF DbgPacketOpCodeCpuMemWr
  <2> QED
    BY <2>1 DEF BlockOf, BlockPacket, CpuMemWrPacket
<1>4. \A k \in 1 .. C : chr(k) = BlockOf("ppu_wr", 0, d, 16 + Prg(d), Block * (k - 1))
  <2> TAKE k \in 1 .. C
  <2>1. OpOf["ppu_wr"] = DbgPacketOpCodePpuMemWr
    BY OpOfIn DEF DbgPacketOpCodePpuMemWr
  <2>2. 0 + Block * (k - 1) = Block * (k - 1)
    BY <1>1
  <2> QED
    BY <2>1, <2>2 DEF BlockOf, BlockPacket, PpuMemWrPacket
<1>5. y1 = <<6, 0, Vector(d, 0)>> /\ y2 = <<6, 1, Vector(d, 1)>>
  <2>1. 16 + Prg(d) - 4 + 1 = 16 + Prg(d) - 4 + 1 + 0 /\ 16 + Prg(d) - 3 + 1 = 16 + Prg(d) - 4 + 1 + 1
    BY <1>1
  <2> QED
    BY <2>1 DEF CpuRegWrPacket, DbgPacketOpCodeCpuRegWr, CpuRegPcl, CpuRegPch, Vector
<1> HIDE DEF P, C, prg, chr, x1, x2, x3, y1, y2, y3, p
<1>6. s1 \in Seq(S) /\ Len(s1) = 3 /\ s1[1] = x1 /\ s1[2] = x2 /\ s1[3] = x3
  OBVIOUS
<1>7. s2 \in Seq(S) /\ Len(s2) = P /\ \A k \in 1 .. P : s2[k] = prg(k)
  BY <1>1
<1>8. s3 \in Seq(S) /\ Len(s3) = C /\ \A k \in 1 .. C : s3[k] = chr(k)
  BY <1>1
<1>9. s4 \in Seq(S) /\ Len(s4) = 3 /\ s4[1] = y1 /\ s4[2] = y2 /\ s4[3] = y3
  OBVIOUS
<1> HIDE DEF S, s1, s2, s3, s4
<1> DEFINE q == s1 \o s2 \o s3 \o s4
<1>10. /\ Len(q) = Len(s1) + Len(s2) + Len(s3) + Len(s4)
       /\ \A i \in 1 .. Len(s1) : q[i] = s1[i]
       /\ \A i \in 1 .. Len(s2) : q[Len(s1) + i] = s2[i]
       /\ \A i \in 1 .. Len(s3) : q[Len(s1) + Len(s2) + i] = s3[i]
       /\ \A i \in 1 .. Len(s4) : q[Len(s1) + Len(s2) + Len(s3) + i] = s4[i]
  <2>1. Parts(S, s1, s2, s3, s4)
    BY <1>6, <1>7, <1>8, <1>9 DEF Parts
  <2> QED
    BY <2>1, FourJoined
<1>11. p = q
  BY <1>2
<1> HIDE DEF q
<1>12. /\ Len(p) = 3 + P + C + 3
       /\ \A i \in 1 .. 3 : p[i] = s1[i]
       /\ \A i \in 1 .. P : p[3 + i] = s2[i]
       /\ \A i \in 1 .. C : p[3 + P + i] = s3[i]
       /\ \A i \in 1 .. 3 : p[3 + P + C + i] = s4[i]
  BY <1>6, <1>7, <1>8, <1>9, <1>10, <1>11
<1>13. Len(p) = 6 + P + C
  BY <1>1, <1>12
<1>14. 1 \in 1 .. 3 /\ 2 \in 1 .. 3 /\ 3 \in 1 .. 3
  OBVIOUS
<1>15. p[1] = x1 /\ p[2] = x2 /\ p[3] = x3
  BY <1>6, <1>12, <1>14
<1>16. p[3 + P + C + 1] = y1 /\ p[3 + P + C + 2] = y2 /\ p[3 + P + C + 3] = y3
  BY <1>9, <1>12, <1>14
<1>17. (\A k \in 1 .. P : p[3 + k] = prg(k)) /\ \A k \in 1 .. C : p[3 + P + k] = chr(k)
  BY <1>7, <1>8, <1>12
<1>18. /\ \A k \in 1 .. P : p[3 + k] = BlockOf("cpu_wr", 32768, d, 16, Block * (k - 1))
       /\ \A k \in 1 .. C : p[3 + P + k] = BlockOf("ppu_wr", 0, d, 16 + Prg(d), Block * (k - 1))
  BY <1>3, <1>4, <1>17
<1> QED
  BY <1>5, <1>13, <1>15, <1>16, <1>18 DEF p, P, C, x1, x2, x3, y3

-----------------------------------------------------------------------------
(* What a machine has of a ROM.                                             *)
Configured(n, d) == n.cfg = SubSeq(d, 5, 9)
PrgThere(n, d)   == InPlace(n.cpu, 32768, d, 16, Prg(d))
ChrThere(n, d)   == InPlace(n.ppu, 0, d, 16 + Prg(d), Chr(d))
Banked(n, d)     == Configured(n, d) /\ PrgThere(n, d) /\ ChrThere(n, d)
Starts(n, d, r)  == r \in Registers => n.regs[r] = Vector(d, r)

InPrg(n, w, d, k) == InBlock(n, w, "cpu_wr", 32768, d, 16, Block * (k - 1))
InChr(n, w, d, k) == InBlock(n, w, "ppu_wr", 0, d, 16 + Prg(d), Block * (k - 1))

Banks3(d) == 3 + PrgBlocks(d) + ChrBlocks(d)

\* The machine n, with w to come, has been sent the first q packets of d.
LoadedBy(n, w, d, q) ==
    \/ q = 0
    \/ q = 1 /\ \/ w = << 3 >> /\ n.in \in {OPCODE, DISABLED}
                \/ w = <<>> /\ n.in = OPCODE
    \/ q = 2 /\ w \in {<< 11 >>, <<>>} /\ n.in = OPCODE
    \/ q = 3 /\ InCfg(n, w, d)
    \/ \E k \in 1 .. PrgBlocks(d) : q = 3 + k /\ Configured(n, d) /\ InPrg(n, w, d, k)
    \/ \E k \in 1 .. ChrBlocks(d) :
          q = 3 + PrgBlocks(d) + k /\ Configured(n, d) /\ PrgThere(n, d) /\ InChr(n, w, d, k)
    \/ q = Banks3(d) + 1 /\ Banked(n, d) /\ InReg(n, w, 0, Vector(d, 0))
    \/ q = Banks3(d) + 2 /\ Banked(n, d) /\ Starts(n, d, 0) /\ InReg(n, w, 1, Vector(d, 1))
    \/ /\ q = Banks3(d) + 3 /\ Banked(n, d) /\ Starts(n, d, 0) /\ Starts(n, d, 1)
       /\ w = <<>> \/ (w = << 4 >> /\ n.in = OPCODE)

LEMMA VectorIs ==
    ASSUME NEW d, RomOK(d), NEW r \in {0, 1}
    PROVE  Vector(d, r) \in Bytes
<1> DEFINE P == Prg(d)
           C == Chr(d)
           L == Len(d)
           x == 16 + P - 4 + 1 + r
<1>1. P \in Nat /\ C \in Nat /\ L \in Nat /\ L >= 16 + P + C /\ d \in Seq(Bytes)
  BY BanksOf DEF RomOK
<1> HIDE DEF P, C, L
<1>2. x \in 1 .. L
  BY <1>1
<1> HIDE DEF x
<1>3. d[x] \in Bytes
  BY <1>1, <1>2, ByteOf DEF L
<1> QED
  BY <1>3 DEF Vector, x, P

LEMMA Lone == \A x : Head(<<x>>) = x /\ Tail(<<x>>) = <<>>
  OBVIOUS

\* A byte of one of the packets is taken.
LEMMA LoadedPrg ==
    ASSUME NesOK(nes), NEW d, RomOK(d), NEW w \in Seq(Bytes), w # <<>>,
           NEW k \in 1 .. PrgBlocks(d), Configured(nes, d), InPrg(nes, w, d, k)
    PROVE  LET m == After(Head(w)) IN Configured(m, d) /\ InPrg(m, Tail(w), d, k)
<1> DEFINE m == After(Head(w))
           a == Block * (k - 1)
<1>1. Prg(d) \in Nat /\ PrgBlocks(d) = Prg(d) \div Block /\ Fits(32768, d, 16, Prg(d))
  BY BanksOf DEF PrgBlocks
<1>2. a \in Nat /\ a + Block <= Prg(d)
  BY <1>1, Banks, BlockFits
<1> HIDE DEF a
<1>3. "cpu_wr" \in Writes /\ InBlock(nes, w, "cpu_wr", 32768, d, 16, a)
  BY DEF Writes, InPrg, a
<1>4. InBlock(m, Tail(w), "cpu_wr", 32768, d, 16, a) /\ Spares(m, nes, "cpu_wr")
  BY <1>1, <1>2, <1>3, BlockTaken
<1> HIDE DEF m
<1> QED
  BY <1>4 DEF Spares, Configured, InPrg, a, m

LEMMA LoadedChr ==
    ASSUME NesOK(nes), NEW d, RomOK(d), NEW w \in Seq(Bytes), w # <<>>,
           NEW k \in 1 .. ChrBlocks(d), Configured(nes, d), PrgThere(nes, d), InChr(nes, w, d, k)
    PROVE  LET m == After(Head(w))
           IN  Configured(m, d) /\ PrgThere(m, d) /\ InChr(m, Tail(w), d, k)
<1> DEFINE m == After(Head(w))
           a == Block * (k - 1)
           o == 16 + Prg(d)
<1>1. Chr(d) \in Nat /\ ChrBlocks(d) = Chr(d) \div Block /\ Fits(0, d, o, Chr(d))
  BY BanksOf DEF ChrBlocks
<1>2. a \in Nat /\ a + Block <= Chr(d)
  BY <1>1, Banks, BlockFits
<1> HIDE DEF a, o
<1>3. "ppu_wr" \in Writes /\ InBlock(nes, w, "ppu_wr", 0, d, o, a)
  BY DEF Writes, InChr, a, o
<1>4. InBlock(m, Tail(w), "ppu_wr", 0, d, o, a) /\ Spares(m, nes, "ppu_wr")
  BY <1>1, <1>2, <1>3, BlockTaken
<1> HIDE DEF m
<1>5. m.cfg = nes.cfg /\ m.cpu = nes.cpu
  BY <1>4 DEF Spares
<1> QED
  BY <1>4, <1>5 DEF Configured, PrgThere, InChr, a, m, o

LEMMA LoadedReg ==
    ASSUME NesOK(nes), NEW d, Banked(nes, d), NEW w, w # <<>>,
           NEW r \in {0, 1}, NEW v \in Bytes, InReg(nes, w, r, v)
    PROVE  LET m == After(Head(w))
           IN  /\ Banked(m, d) /\ InReg(m, Tail(w), r, v)
               /\ \A x \in {0, 1} \ {r} : Starts(nes, d, x) => Starts(m, d, x)
<1> DEFINE m == After(Head(w))
<1>1. /\ InReg(m, Tail(w), r, v)
      /\ m.cpu = nes.cpu /\ m.ppu = nes.ppu /\ m.cfg = nes.cfg
      /\ \A x \in Registers : x # r => m.regs[x] = nes.regs[x]
  BY RegTaken
<1> HIDE DEF m
<1> QED
  BY <1>1 DEF Banked, Configured, PrgThere, ChrThere, Starts, m

LEMMA LoadedByte ==
    ASSUME NesOK(nes), NEW d, RomOK(d), NEW q, NEW w \in Seq(Bytes), w # <<>>,
           LoadedBy(nes, w, d, q)
    PROVE  LoadedBy(After(Head(w)), Tail(w), d, q)
<1> DEFINE m == After(Head(w))
           t == Tail(w)
<1>1. CASE q = 0
  BY <1>1 DEF LoadedBy
<1>2. CASE q = 1 /\ w = << 3 >> /\ nes.in \in {OPCODE, DISABLED}
  <2>1. Head(w) = 3 /\ t = <<>>
    BY <1>2, Lone
  <2>2. 3 \in Bytes
    BY ByteRange
  <2>3. nes.in = OPCODE => m = nes
    BY <2>1, OpcodeTaken
  <2>4. nes.in = DISABLED => m.in = OPCODE
    BY <2>1, <2>2, RunTaken
  <2> HIDE DEF m, t
  <2>5. m.in = OPCODE
    BY <1>2, <2>3, <2>4
  <2>6. LoadedBy(m, t, d, q)
    BY <1>2, <2>1, <2>5 DEF LoadedBy
  <2> QED
    BY <2>6 DEF m, t
<1>3. CASE q = 2 /\ w = << 11 >> /\ nes.in = OPCODE
  <2>1. Head(w) = 11 /\ t = <<>>
    BY <1>3, Lone
  <2>2. m = nes
    BY <1>3, <2>1, OpcodeTaken
  <2> HIDE DEF m, t
  <2>3. LoadedBy(m, t, d, q)
    BY <1>3, <2>1, <2>2 DEF LoadedBy
  <2> QED
    BY <2>3 DEF m, t
<1>4. CASE q = 3 /\ InCfg(nes, w, d)
  <2>1. d \in Seq(Bytes) /\ Len(d) >= 9
    BY BanksOf DEF RomOK
  <2>2. InCfg(m, t, d)
    BY <1>4, <2>1, CfgTaken
  <2> HIDE DEF m, t
  <2>3. LoadedBy(m, t, d, q)
    BY <1>4, <2>2 DEF LoadedBy
  <2> QED
    BY <2>3 DEF m, t
<1>5. ASSUME NEW k \in 1 .. PrgBlocks(d), q = 3 + k, Configured(nes, d), InPrg(nes, w, d, k)
      PROVE  LoadedBy(m, t, d, q)
  <2>1. Configured(m, d) /\ InPrg(m, t, d, k)
    BY <1>5, LoadedPrg
  <2> HIDE DEF m, t
  <2> QED
    BY <1>5, <2>1 DEF LoadedBy
<1>6. ASSUME NEW k \in 1 .. ChrBlocks(d), q = 3 + PrgBlocks(d) + k, Configured(nes, d),
             PrgThere(nes, d), InChr(nes, w, d, k)
      PROVE  LoadedBy(m, t, d, q)
  <2>1. Configured(m, d) /\ PrgThere(m, d) /\ InChr(m, t, d, k)
    BY <1>6, LoadedChr
  <2> HIDE DEF m, t
  <2> QED
    BY <1>6, <2>1 DEF LoadedBy
<1>7. CASE q = Banks3(d) + 1 /\ Banked(nes, d) /\ InReg(nes, w, 0, Vector(d, 0))
  <2>1. Banked(m, d) /\ InReg(m, t, 0, Vector(d, 0))
    BY <1>7, VectorIs, LoadedReg
  <2> HIDE DEF m, t
  <2>2. LoadedBy(m, t, d, q)
    BY <1>7, <2>1 DEF LoadedBy
  <2> QED
    BY <2>2 DEF m, t
<1>8. CASE /\ q = Banks3(d) + 2 /\ Banked(nes, d) /\ Starts(nes, d, 0)
           /\ InReg(nes, w, 1, Vector(d, 1))
  <2>1. 0 \in {0, 1} \ {1}
    OBVIOUS
  <2>2. Banked(m, d) /\ Starts(m, d, 0) /\ InReg(m, t, 1, Vector(d, 1))
    BY <1>8, <2>1, VectorIs, LoadedReg
  <2> HIDE DEF m, t
  <2>3. LoadedBy(m, t, d, q)
    BY <1>8, <2>2 DEF LoadedBy
  <2> QED
    BY <2>3 DEF m, t
<1>9. CASE /\ q = Banks3(d) + 3 /\ Banked(nes, d) /\ Starts(nes, d, 0) /\ Starts(nes, d, 1)
           /\ w = << 4 >> /\ nes.in = OPCODE
  <2>1. Head(w) = 4 /\ t = <<>>
    BY <1>9, Lone
  <2>2. Kept(m, nes)
    BY <1>9, <2>1, OpcodeTaken
  <2> HIDE DEF m, t
  <2>3. Banked(m, d) /\ Starts(m, d, 0) /\ Starts(m, d, 1)
    BY <1>9, <2>2 DEF Kept, Banked, Configured, PrgThere, ChrThere, Starts
  <2>4. LoadedBy(m, t, d, q)
    BY <1>9, <2>1, <2>3 DEF LoadedBy
  <2> QED
    BY <2>4 DEF m, t
<1> QED
  BY <1>1, <1>2, <1>3, <1>4, <1>5, <1>6, <1>7, <1>8, <1>9 DEF LoadedBy

\* The program of a machine that was running gets to a HLT.
LEMMA LoadedBreak ==
    ASSUME nes \in Machines, nes.in = DISABLED, NEW d, NEW q, NEW w, LoadedBy(nes, w, d, q),
           NEW m, m = [nes EXCEPT !.in = OPCODE]
    PROVE  LoadedBy(m, w, d, q)
<1>1. m.in = OPCODE /\ Kept(m, nes)
  BY DEF Machines, Kept
<1>2. DISABLED \notin {OPCODE, "cfg", "reg_wr", "cpu_wr", "ppu_wr"}
  BY DEF OPCODE, DISABLED
<1>3. /\ ~InCfg(nes, w, d) /\ \A r, v : ~InReg(nes, w, r, v)
      /\ \A k : ~InPrg(nes, w, d, k) /\ ~InChr(nes, w, d, k)
  BY <1>2 DEF InCfg, InReg, InPrg, InChr, InBlock
<1>4. Banked(nes, d) => Banked(m, d)
  BY <1>1 DEF Kept, Banked, Configured, PrgThere, ChrThere
<1>5. \A r : Starts(nes, d, r) => Starts(m, d, r)
  BY <1>1 DEF Kept, Starts
<1> QED
  BY <1>1, <1>2, <1>3, <1>4, <1>5 DEF LoadedBy

-----------------------------------------------------------------------------
(* The next packet is sent once nothing is on the wire.                     *)
LEMMA BlockDone ==
    ASSUME NEW kind \in Writes, NEW s, NEW d, NEW o, NEW size, Fits(s, d, o, size), NEW a \in Nat,
           a + Block <= size, nes.in \in {OPCODE, DISABLED}, InBlock(nes, <<>>, kind, s, d, o, a)
    PROVE  nes.in = OPCODE /\ InPlace(MemOf(nes, kind), s, d, o, a + Block)
<1> DEFINE data == Slice(d, o + a, Block)
<1>1. s + a \in Ushorts /\ data \in Seq(Bytes) /\ Len(data) \in Ushorts
  BY BlockWithin
<1> HIDE DEF data
<1>2. BlockPacket(kind, s + a, data) # <<>>
  BY <1>1, BlockParts
<1>3. BlockOf(kind, s, d, o, a) # <<>>
  BY <1>2 DEF BlockOf, data
<1>4. kind \notin {OPCODE, DISABLED}
  BY DEF Writes, OPCODE, DISABLED
<1> QED
  BY <1>3, <1>4 DEF InBlock

LEMMA CfgDone ==
    ASSUME NEW d, RomOK(d), nes.in \in {OPCODE, DISABLED}, InCfg(nes, <<>>, d)
    PROVE  nes.in = OPCODE /\ Configured(nes, d)
<1>1. CartSetCfgPacket(d) # <<>>
  BY BanksOf, CfgTold DEF RomOK, Told, IsPacket
<1>2. "cfg" \notin {OPCODE, DISABLED}
  BY DEF OPCODE, DISABLED
<1> QED
  BY <1>1, <1>2 DEF InCfg, Configured

LEMMA RegDone ==
    ASSUME nes.in \in {OPCODE, DISABLED}, NEW r, NEW v, InReg(nes, <<>>, r, v)
    PROVE  nes.in = OPCODE /\ (r \in Registers => nes.regs[r] = v)
  BY DEF InReg, OPCODE, DISABLED

-----------------------------------------------------------------------------
(* One packet more.                                                         *)
LEMMA FirstReg ==
    ASSUME NEW d, RomOK(d), NEW n, n.in = OPCODE, Banked(n, d), NEW q, q = Banks3(d)
    PROVE  LoadedBy(n, RomPackets(d)[q + 1], d, q + 1)
<1> DEFINE p == RomPackets(d)[q + 1]
<1>1. p = <<6, 0, Vector(d, 0)>>
  BY PacketAt DEF Banks3
<1> HIDE DEF p
<1>2. LoadedBy(n, p, d, q + 1)
  BY <1>1 DEF LoadedBy, InReg
<1> QED
  BY <1>2 DEF p

\* k blocks of a bank are there, and the next is sent, or what comes after the last.
LEMMA NextChr ==
    ASSUME NEW d, RomOK(d), NEW n, n.in = OPCODE, Configured(n, d), PrgThere(n, d),
           NEW k \in 0 .. ChrBlocks(d), InPlace(n.ppu, 0, d, 16 + Prg(d), Block * k),
           NEW q, q = 3 + PrgBlocks(d) + k
    PROVE  LoadedBy(n, RomPackets(d)[q + 1], d, q + 1)
<1> DEFINE p == RomPackets(d)[q + 1]
           P == PrgBlocks(d)
           C == ChrBlocks(d)
<1>1. P \in Nat /\ C \in Nat /\ Chr(d) = Block * C
  BY BanksOf
<1>2. CASE k = C
  <2>1. Banked(n, d) /\ q = Banks3(d)
    BY <1>1, <1>2 DEF Banked, ChrThere, Banks3
  <2> QED
    BY <2>1, FirstReg
<1>3. CASE k # C
  <2>1. k + 1 \in 1 .. C /\ q + 1 = 3 + P + (k + 1) /\ (k + 1) - 1 = k
    BY <1>1, <1>3
  <2> DEFINE j == k + 1
  <2>2. p = BlockOf("ppu_wr", 0, d, 16 + Prg(d), Block * (j - 1))
    BY <2>1, PacketAt
  <2>3. MemOf(n, "ppu_wr") = n.ppu
    BY DEF MemOf
  <2> HIDE DEF p
  <2>4. InChr(n, p, d, j)
    BY <2>1, <2>2, <2>3 DEF InChr, InBlock
  <2>5. j \in 1 .. C /\ q + 1 = 3 + P + j
    BY <2>1
  <2> HIDE DEF j
  <2>6. LoadedBy(n, p, d, q + 1)
    BY <2>4, <2>5 DEF LoadedBy
  <2> QED
    BY <2>6 DEF p
<1> QED
  BY <1>2, <1>3

LEMMA NextPrg ==
    ASSUME NEW d, RomOK(d), NEW n, n.in = OPCODE, Configured(n, d),
           NEW k \in 0 .. PrgBlocks(d), InPlace(n.cpu, 32768, d, 16, Block * k),
           NEW q, q = 3 + k
    PROVE  LoadedBy(n, RomPackets(d)[q + 1], d, q + 1)
<1> DEFINE p == RomPackets(d)[q + 1]
           P == PrgBlocks(d)
           C == ChrBlocks(d)
<1>1. P \in Nat /\ C \in Nat /\ Prg(d) = Block * P /\ Block \in Nat
  BY BanksOf, Banks
<1>2. CASE k = P
  <2>1. PrgThere(n, d) /\ q = 3 + P + 0 /\ 0 \in 0 .. C
    BY <1>1, <1>2 DEF PrgThere
  <2>2. InPlace(n.ppu, 0, d, 16 + Prg(d), Block * 0)
    BY <1>1 DEF InPlace
  <2> QED
    BY <2>1, <2>2, NextChr
<1>3. CASE k # P
  <2>1. k + 1 \in 1 .. P /\ q + 1 = 3 + (k + 1) /\ (k + 1) - 1 = k
    BY <1>1, <1>3
  <2> DEFINE j == k + 1
  <2>2. p = BlockOf("cpu_wr", 32768, d, 16, Block * (j - 1))
    BY <2>1, PacketAt
  <2>3. MemOf(n, "cpu_wr") = n.cpu
    BY DEF MemOf
  <2> HIDE DEF p
  <2>4. InPrg(n, p, d, j)
    BY <2>1, <2>2, <2>3 DEF InPrg, InBlock
  <2>5. j \in 1 .. P /\ q + 1 = 3 + j
    BY <2>1
  <2> HIDE DEF j
  <2>6. LoadedBy(n, p, d, q + 1)
    BY <2>4, <2>5 DEF LoadedBy
  <2> QED
    BY <2>6 DEF p
<1> QED
  BY <1>2, <1>3

LEMMA LoadedNext ==
    ASSUME NEW d, RomOK(d), NEW q \in Nat, q < Len(RomPackets(d)),
           nes.in \in {OPCODE, DISABLED}, LoadedBy(nes, <<>>, d, q)
    PROVE  LoadedBy(nes, RomPackets(d)[q + 1], d, q + 1)
<1> DEFINE P == PrgBlocks(d)
           C == ChrBlocks(d)
<1>1. /\ P \in Nat /\ C \in Nat /\ Block \in Nat
      /\ Prg(d) \in Nat /\ Fits(32768, d, 16, Prg(d)) /\ Chr(d) \in Nat /\ Fits(0, d, 16 + Prg(d), Chr(d))
  BY BanksOf, Banks
<1>2. CASE q = 0
  <2>1. RomPackets(d)[q + 1] = << 3 >> /\ q + 1 = 1
    BY <1>2, PacketAt DEF DbgHltPacket, DbgPacketOpCodeDbgHlt
  <2> QED
    BY <2>1 DEF LoadedBy
<1>3. CASE q = 1 /\ nes.in = OPCODE
  <2>1. RomPackets(d)[q + 1] = << 11 >> /\ q + 1 = 2
    BY <1>3, PacketAt DEF PpuDisablePacket, DbgPacketOpCodePpuDisable
  <2> QED
    BY <1>3, <2>1 DEF LoadedBy
<1>4. CASE q = 2 /\ nes.in = OPCODE
  <2>1. RomPackets(d)[q + 1] = CartSetCfgPacket(d) /\ q + 1 = 3
    BY <1>4, PacketAt
  <2> QED
    BY <1>4, <2>1 DEF LoadedBy, InCfg
<1>5. CASE q = 3 /\ InCfg(nes, <<>>, d)
  <2>1. nes.in = OPCODE /\ Configured(nes, d)
    BY <1>5, CfgDone
  <2>2. InPlace(nes.cpu, 32768, d, 16, Block * 0) /\ 0 \in 0 .. P /\ q = 3 + 0
    BY <1>1, <1>5 DEF InPlace
  <2> QED
    BY <2>1, <2>2, NextPrg
<1>6. ASSUME NEW k \in 1 .. P, q = 3 + k, Configured(nes, d), InPrg(nes, <<>>, d, k)
      PROVE  LoadedBy(nes, RomPackets(d)[q + 1], d, q + 1)
  <2> DEFINE a == Block * (k - 1)
  <2>1. a \in Nat /\ a + Block <= Prg(d) /\ a + Block = Block * k
    <3>1. k \in 1 .. Prg(d) \div Block
      BY DEF PrgBlocks
    <3>2. Prg(d) \in Nat /\ Block \in Nat /\ 0 < Block
      BY <1>1, Banks
    <3>3. a \in Nat /\ a + Block <= Prg(d)
      BY <3>1, <3>2, BlockFits
    <3>4. a + Block = Block * k
      BY <1>1
    <3> QED
      BY <3>3, <3>4
  <2> HIDE DEF a
  <2>2. "cpu_wr" \in Writes /\ InBlock(nes, <<>>, "cpu_wr", 32768, d, 16, a)
    BY <1>6 DEF Writes, InPrg, a
  <2>3. nes.in = OPCODE /\ InPlace(MemOf(nes, "cpu_wr"), 32768, d, 16, a + Block)
    BY <1>1, <2>1, <2>2, BlockDone
  <2>4. MemOf(nes, "cpu_wr") = nes.cpu
    BY DEF MemOf
  <2>5. k \in 0 .. P /\ InPlace(nes.cpu, 32768, d, 16, Block * k)
    BY <2>1, <2>3, <2>4
  <2> QED
    BY <1>6, <2>3, <2>5, NextPrg
<1>7. ASSUME NEW k \in 1 .. C, q = 3 + P + k, Configured(nes, d), PrgThere(nes, d),
             InChr(nes, <<>>, d, k)
      PROVE  LoadedBy(nes, RomPackets(d)[q + 1], d, q + 1)
  <2> DEFINE a == Block * (k - 1)
             o == 16 + Prg(d)
  <2>1. a \in Nat /\ a + Block <= Chr(d) /\ a + Block = Block * k
    <3>1. k \in 1 .. Chr(d) \div Block
      BY DEF ChrBlocks
    <3>2. Chr(d) \in Nat /\ Block \in Nat /\ 0 < Block
      BY <1>1, Banks
    <3>3. a \in Nat /\ a + Block <= Chr(d)
      BY <3>1, <3>2, BlockFits
    <3>4. a + Block = Block * k
      BY <1>1
    <3> QED
      BY <3>3, <3>4
  <2>2. Fits(0, d, o, Chr(d))
    BY <1>1
  <2> HIDE DEF a, o
  <2>3. "ppu_wr" \in Writes /\ InBlock(nes, <<>>, "ppu_wr", 0, d, o, a)
    BY <1>7 DEF Writes, InChr, a, o
  <2>4. nes.in = OPCODE /\ InPlace(MemOf(nes, "ppu_wr"), 0, d, o, a + Block)
    BY <2>1, <2>2, <2>3, BlockDone
  <2>5. MemOf(nes, "ppu_wr") = nes.ppu
    BY DEF MemOf
  <2>6. k \in 0 .. C /\ InPlace(nes.ppu, 0, d, 16 + Prg(d), Block * k)
    BY <2>1, <2>4, <2>5 DEF o
  <2> QED
    BY <1>7, <2>4, <2>6, NextChr
<1>8. CASE q = Banks3(d) + 1 /\ Banked(nes, d) /\ InReg(nes, <<>>, 0, Vector(d, 0))
  <2>1. nes.in = OPCODE /\ Starts(nes, d, 0)
    BY <1>8, RegDone DEF Starts
  <2>2. q + 1 = Banks3(d) + 2 /\ q + 1 = 3 + P + C + 2
    BY <1>1, <1>8 DEF Banks3
  <2>3. RomPackets(d)[q + 1] = <<6, 1, Vector(d, 1)>>
    BY <2>2, PacketAt
  <2> QED
    BY <1>8, <2>1, <2>2, <2>3 DEF LoadedBy, InReg
<1>9. CASE /\ q = Banks3(d) + 2 /\ Banked(nes, d) /\ Starts(nes, d, 0)
           /\ InReg(nes, <<>>, 1, Vector(d, 1))
  <2>1. nes.in = OPCODE /\ Starts(nes, d, 1)
    BY <1>9, RegDone DEF Starts
  <2>2. q + 1 = Banks3(d) + 3 /\ q + 1 = 3 + P + C + 3
    BY <1>1, <1>9 DEF Banks3
  <2>3. RomPackets(d)[q + 1] = << 4 >>
    BY <2>2, PacketAt DEF DbgRunPacket, DbgPacketOpCodeDbgRun
  <2> QED
    BY <1>9, <2>1, <2>2, <2>3 DEF LoadedBy
<1>10. q # Banks3(d) + 3
  BY <1>1, PacketAt DEF Banks3
<1>11. <<>> # << 3 >>
  OBVIOUS
<1> QED
  BY <1>2, <1>3, <1>4, <1>5, <1>6, <1>7, <1>8, <1>9, <1>10, <1>11 DEF LoadedBy

-----------------------------------------------------------------------------
(* The invariant, and the steps of the load.                                *)
\* The load f with the machine n, w to come, if the program still has its port and
\* the machine is what it takes it to be.
LoadOK(n, w, f, told) ==
    /\ RomOK(Data(f)) /\ f.i \in 1 .. Len(RomPackets(Data(f))) + 1
    /\ f.at = "close" => f.i = Len(RomPackets(Data(f))) + 1
    /\ told => LoadedBy(n, w, Data(f), f.i - 1)

LoadInv == Sends => LoadOK(nes, wire, Top, port = "open" /\ ~rogue)

RomInv == PauseInv /\ LoadInv

LEMMA SilentLoads == ASSUME Silent' PROVE RomInv'
  BY DEF Silent, RomInv, LoadInv

LEMMA SendsLoad ==
    ASSUME StackInv, FrameInv, Sends
    PROVE  /\ InTop("load") /\ stack # <<>> /\ Top.kind = "load" /\ FrameOK(Top)
           /\ {"kind", "at", "rom", "heap", "i", "ok"} \subseteq DOMAIN Top
           /\ Top.i \in Nat \ {0} /\ Awaited = 0
<1>1. InTop("load")
  BY DEF Sends, LoadIs, At
<1> QED
  BY <1>1, LoadFrame

LEMMA PacketCount ==
    ASSUME NEW d, RomOK(d)
    PROVE  Len(RomPackets(d)) \in Nat /\ Len(RomPackets(d)) >= 6
<1>1. PrgBlocks(d) \in Nat /\ ChrBlocks(d) \in Nat
  BY BanksOf
<1>2. Len(RomPackets(d)) = 6 + PrgBlocks(d) + ChrBlocks(d)
  BY PacketAt
<1> QED
  BY <1>1, <1>2

\* What a checked load is.
LEMMA CheckedRom ==
    ASSUME NEW f, f.rom \in DOMAIN Roms, f.heap \in Bytes, ~Faulty(Data(f), 2)
    PROVE  RomOK(Data(f))
<1> DEFINE d == Data(f)
<1>1. d \in Seq(Bytes) /\ Len(d) = RomSize
  BY RomData
<1>2. ~(d[5] > 2 \/ d[6] > 1)
  BY DEF Faulty
<1> HIDE DEF d
<1> QED
  BY <1>1, <1>2 DEF RomOK, d

\* The last check is behind it: nothing is sent yet.
LEMMA ChecksLoad ==
    ASSUME StackInv, FrameInv, PauseInv, LoadChecks
    PROVE  RomInv'
<1>1. LoadIs("check") /\ InTop("load") /\ Top.at = "check"
  BY DEF LoadChecks, LoadIs, At
<1>2. /\ stack # <<>> /\ Top.kind = "load" /\ FrameOK(Top)
      /\ {"kind", "at", "rom", "heap", "i", "ok"} \subseteq DOMAIN Top
      /\ Top.heap \in Bytes /\ Top.i \in Nat \ {0} /\ Top.ok \in BOOLEAN
      /\ Top.rom \in DOMAIN Roms
  BY <1>1, LoadFrame
<1> DEFINE next == [Top EXCEPT !.i = @ + 1]
           bad  == [next EXCEPT !.ok = FALSE]
           last == [Top EXCEPT !.at = IF Top.ok THEN "send" ELSE "close", !.i = 1]
<1>3. IF Top.i > 4 THEN Go(last)
      ELSE IF Faulty(Data(Top), Top.i) THEN BoxOver(bad)
      ELSE Go(next)
  BY DEF LoadChecks
<1>4. Top.i > 2 /\ Top.ok => ~Faulty(Data(Top), 2)
  BY <1>1, <1>2 DEF FrameOK
<1>5. next.kind = "load" /\ next.at = "check" /\ DOMAIN next = DOMAIN Top
  BY <1>1, <1>2
<1>6. /\ last.kind = "load" /\ last.at = IF Top.ok THEN "send" ELSE "close"
      /\ last.heap = Top.heap /\ last.rom = Top.rom /\ last.i = 1
  BY <1>1, <1>2
<1>7. bad.kind = "load" /\ bad.at = "check"
  BY <1>2, <1>5
<1> HIDE DEF next, bad, last
<1>8. CASE Top.i > 4 /\ Top.ok
  <2>1. PauseInv' /\ Top' = last
    BY <1>2, <1>3, <1>8, GoPaused
  <2>2. RomOK(Data(Top))
    BY <1>2, <1>4, <1>8, CheckedRom
  <2>3. Data(last) = Data(Top)
    BY <1>6 DEF Data
  <2> DEFINE d == Data(last)
  <2>4. RomOK(d) /\ last.i \in 1 .. Len(RomPackets(d)) + 1 /\ last.i - 1 = 0
    BY <1>6, <2>2, <2>3, PacketCount
  <2>5. last.at # "close"
    BY <1>6, <1>8
  <2>6. \A n, w, told : LoadOK(n, w, last, told)
    BY <2>4, <2>5 DEF LoadOK, LoadedBy
  <2> QED
    BY <2>1, <2>6 DEF RomInv, LoadInv
<1>9. CASE Top.i > 4 /\ ~Top.ok
  <2>1. Paused(last)
    BY <1>6, <1>9 DEF Paused
  <2> QED
    BY <1>2, <1>3, <1>9, <2>1, GoSilent, SilentLoads
<1>10. CASE ~(Top.i > 4)
  <2>1. Paused(next) /\ Paused(bad)
    BY <1>5, <1>7 DEF Paused
  <2> QED
    BY <1>2, <1>3, <1>10, <2>1, GoSilent, BoxSilent, SilentLoads
<1> QED
  BY <1>8, <1>9, <1>10

\* A packet is sent to a machine that has the ones before it.
LEMMA SendsNext ==
    ASSUME StackInv, FrameInv, PortInv, WireInv, Written, comm = "up", RomInv, LoadSends
    PROVE  RomInv'
<1>1. Sends /\ Top.at = "send"
  BY DEF LoadSends, Sends, LoadIs, At
<1>2. /\ stack # <<>> /\ Top.kind = "load" /\ FrameOK(Top)
      /\ {"kind", "at", "rom", "heap", "i", "ok"} \subseteq DOMAIN Top
      /\ Top.i \in Nat \ {0} /\ Awaited = 0
  BY <1>1, SendsLoad
<1>3. LoadOK(nes, wire, Top, port = "open" /\ ~rogue)
  BY <1>1 DEF RomInv, LoadInv
<1> DEFINE d == Data(Top)
           ps == RomPackets(d)
           i == Top.i
           next == [Top EXCEPT !.i = @ + 1]
           last == [Top EXCEPT !.at = "close"]
<1>4. /\ UNCHANGED <<nes, port>>
      /\ IF i <= Len(ps) THEN SendData(ps[i]) /\ Go(next)
         ELSE Go(last) /\ UNCHANGED <<wire, rogue>>
  BY DEF LoadSends
<1>5. /\ next.at = "send" /\ next.heap = Top.heap /\ next.rom = Top.rom /\ next.i = i + 1
  BY <1>1, <1>2
<1>6. /\ last.at = "close" /\ last.heap = Top.heap /\ last.rom = Top.rom /\ last.i = i
  BY <1>1, <1>2
<1>7. Data(next) = d /\ Data(last) = d
  BY <1>5, <1>6 DEF Data
<1>8. RomOK(d) /\ i \in 1 .. Len(ps) + 1 /\ (port = "open" /\ ~rogue => LoadedBy(nes, wire, d, i - 1))
  BY <1>3 DEF LoadOK
<1>9. Len(ps) \in Nat
  BY <1>8, PacketCount
<1>10. PauseInv
  BY DEF RomInv
<1> HIDE DEF d, ps, i, next, last
<1>11. CASE i <= Len(ps)
  <2>1. PauseInv' /\ Top' = next
    BY <1>2, <1>4, <1>10, <1>11, GoPaused
  <2>2. port = "open" /\ ~rogue' => LoadedBy(nes, wire', d, i)
    <3> SUFFICES ASSUME port = "open", ~rogue'
                 PROVE  LoadedBy(nes, wire', d, i)
      OBVIOUS
    <3>1. ~rogue
      BY <1>4, <1>11 DEF SendData
    <3>2. nes.in \in {OPCODE, DISABLED}
      BY <1>2, <3>1, AgreedEmpty
    <3>3. LoadedBy(nes, <<>>, d, i - 1) /\ i - 1 \in Nat /\ i - 1 < Len(ps) /\ (i - 1) + 1 = i
      BY <1>8, <1>9, <1>11, <3>1 DEF Written
    <3>4. LoadedBy(nes, ps[i], d, i)
      <4> DEFINE q == i - 1
      <4>1. LoadedBy(nes, <<>>, d, q) /\ q \in Nat /\ q < Len(RomPackets(d)) /\ q + 1 = i
        BY <3>3 DEF ps
      <4> HIDE DEF q
      <4>2. LoadedBy(nes, RomPackets(d)[q + 1], d, q + 1)
        BY <1>8, <3>2, <4>1, LoadedNext
      <4> QED
        BY <4>1, <4>2 DEF ps
    <3>5. wire' = ps[i]
      <4>1. ps \in Seq(ToldPackets)
        BY <1>8, RomToldPackets DEF ps, RomOK
      <4>2. ps[i] \in ToldPackets
        BY <1>8, <1>11, <4>1
      <4>3. IsPacket(ps[i])
        BY <4>2 DEF ToldPackets, Told
      <4>4. wire' = SubSeq(ps[i], 1, SizeInBytes(ps[i]))
        BY <1>4, <1>11 DEF SendData, WriteFile
      <4> QED
        BY <4>3, <4>4, SentWhole
    <3> QED
      BY <3>4, <3>5
  <2>3. next.i \in 1 .. Len(ps) + 1 /\ next.i - 1 = i
    BY <1>5, <1>8, <1>9, <1>11
  <2>4. LoadOK(nes, wire', next, port = "open" /\ ~rogue')
    BY <1>5, <1>7, <1>8, <2>2, <2>3 DEF LoadOK, ps
  <2>5. nes' = nes /\ port' = port
    BY <1>4
  <2> QED
    BY <2>1, <2>4, <2>5 DEF RomInv, LoadInv
<1>12. CASE ~(i <= Len(ps))
  <2>1. PauseInv' /\ Top' = last
    BY <1>2, <1>4, <1>10, <1>12, GoPaused
  <2>2. i = Len(ps) + 1
    BY <1>8, <1>9, <1>12
  <2>3. LoadOK(nes, wire, last, port = "open" /\ ~rogue)
    BY <1>6, <1>7, <1>8, <2>2 DEF LoadOK, ps
  <2>4. nes' = nes /\ port' = port /\ wire' = wire /\ rogue' = rogue
    BY <1>4, <1>12
  <2> QED
    BY <2>1, <2>3, <2>4 DEF RomInv, LoadInv
<1> QED
  BY <1>11, <1>12

-----------------------------------------------------------------------------
(* Every other step, and the result.                                        *)
\* The machine takes a byte of a packet, its program gets to a HLT, and what has
\* nothing to do with loads.
LEMMA MachineLoads ==
    ASSUME StackInv, FrameInv, PortInv, RomInv, Machine
    PROVE  RomInv'
<1> DEFINE m == After(Head(wire))
           t == Tail(wire)
<1>1. /\ wire # <<>> /\ nes' = m /\ wire' = t /\ port' = port /\ rogue' = rogue /\ stack' = stack
  BY DEF Machine, NesTakes, Take, scriptVars
<1>2. NesOK(nes) /\ wire \in Seq(Bytes)
  BY DEF PortInv
<1>3. Top' = Top /\ (Sends' => Sends) /\ PauseInv'
  BY <1>1 DEF RomInv, PauseInv, Sends, LoadIs, At, InTop, Top
<1>4. ASSUME Sends
      PROVE  LoadOK(m, t, Top, port = "open" /\ ~rogue)
  <2> DEFINE d == Data(Top)
             q == Top.i - 1
  <2>1. LoadOK(nes, wire, Top, port = "open" /\ ~rogue)
    BY <1>4 DEF RomInv, LoadInv
  <2>2. RomOK(d) /\ (port = "open" /\ ~rogue => LoadedBy(nes, wire, d, q))
    BY <2>1 DEF LoadOK
  <2> HIDE DEF d, q, m, t
  <2>3. port = "open" /\ ~rogue => LoadedBy(m, t, d, q)
    BY <1>1, <1>2, <2>2, LoadedByte DEF m, t
  <2> QED
    BY <2>1, <2>3 DEF LoadOK, d, q
<1> HIDE DEF m, t
<1> QED
  BY <1>1, <1>3, <1>4 DEF RomInv, LoadInv

LEMMA BreakLoads ==
    ASSUME PortInv, RomInv, Program
    PROVE  RomInv'
<1> DEFINE m == [nes EXCEPT !.in = OPCODE]
<1>1. /\ nes.in = DISABLED /\ nes' = m /\ wire' = wire /\ port' = port /\ rogue' = rogue
      /\ stack' = stack
  BY DEF Program, NesBreaks, Break, Running, commVars, scriptVars
<1>2. nes \in Machines
  BY DEF PortInv, NesOK
<1>3. Top' = Top /\ (Sends' => Sends) /\ PauseInv'
  BY <1>1 DEF RomInv, PauseInv, Sends, LoadIs, At, InTop, Top
<1>4. \A d, q, w : LoadedBy(nes, w, d, q) => LoadedBy(m, w, d, q)
  BY <1>1, <1>2, LoadedBreak
<1> HIDE DEF m
<1>5. ASSUME Sends
      PROVE  LoadOK(m, wire, Top, port = "open" /\ ~rogue)
  <2>1. LoadOK(nes, wire, Top, port = "open" /\ ~rogue)
    BY <1>5 DEF RomInv, LoadInv
  <2> QED
    BY <1>4, <2>1 DEF LoadOK
<1> QED
  BY <1>1, <1>3, <1>5 DEF RomInv, LoadInv

LEMMA NoLoads == stack' = <<>> => RomInv'
  BY EmptySilent, SilentLoads

LEMMA StillLoads ==
    ASSUME RomInv, UNCHANGED <<nes, port, wire, rogue, stack>>
    PROVE  RomInv'
<1>1. nes' = nes /\ port' = port /\ wire' = wire /\ rogue' = rogue /\ stack' = stack
  OBVIOUS
<1> QED
  BY <1>1 DEF RomInv, PauseInv, LoadInv, Sends, LoadIs, At, InTop, Top

LEMMA OuterLoads ==
    ASSUME RomInv, AppInv, PortInv, ProgramInv,
           \/ WinMain \/ NoWindow \/ InitSerialComm \/ InitReturns \/ LoopEnds \/ Exits
           \/ MenuExit \/ Dies \/ Reset
           \/ InitFails /\ UNCHANGED <<scriptVars, appVars>>
           \/ (Unplug \/ Replug) /\ UNCHANGED <<scriptVars, app, quit>>
    PROVE  RomInv'
<1>1. CASE WinMain \/ NoWindow \/ InitSerialComm \/ InitReturns \/ Exits \/ Reset
  <2>1. app # "loop" /\ UNCHANGED stack
    BY <1>1 DEF WinMain, NoWindow, InitSerialComm, InitReturns, Exits, Reset, scriptVars
  <2> QED
    BY <2>1, NoLoads DEF AppInv
<1>2. CASE InitFails /\ UNCHANGED <<scriptVars, appVars>>
  <2>1. app # "loop" /\ UNCHANGED stack
    BY <1>2 DEF InitFails, ProgramInv, InitBoxes, NoPort, NotSet, NotConnected, scriptVars
  <2> QED
    BY <2>1, NoLoads DEF AppInv
<1>3. CASE Dies
  BY <1>3, NoLoads DEF Dies
<1>4. CASE LoopEnds \/ MenuExit
  BY <1>4, StillLoads DEF LoopEnds, MenuExit, scriptVars, commVars
<1>5. CASE Replug /\ UNCHANGED <<scriptVars, app, quit>>
  BY <1>5, StillLoads DEF Replug, scriptVars
<1>6. CASE Unplug /\ UNCHANGED <<scriptVars, app, quit>>
  <2>1. port' # "open" /\ stack' = stack
    BY <1>6 DEF Unplug, scriptVars, PortInv
  <2>2. Top' = Top /\ (Sends' => Sends) /\ PauseInv'
    BY <2>1 DEF RomInv, PauseInv, Sends, LoadIs, At, InTop, Top
  <2>3. Sends => \A n, w : LoadOK(n, w, Top, FALSE)
    BY DEF RomInv, LoadInv, LoadOK
  <2> QED
    BY <2>1, <2>2, <2>3 DEF RomInv, LoadInv
<1> QED
  BY <1>1, <1>2, <1>3, <1>4, <1>5, <1>6

LEMMA RomInvStep ==
    ASSUME IInv, LinkInv, RomInv, [Next]_vars
    PROVE  RomInv'
<1>1. /\ StackInv /\ AppInv /\ PortInv /\ ProgramInv /\ WireInv /\ FrameInv /\ PauseInv
  BY DEF IInv, LinkInv, RomInv
<1>2. CASE \/ WinMain \/ NoWindow \/ InitSerialComm \/ InitReturns \/ LoopEnds \/ Exits
           \/ MenuExit \/ Dies \/ Reset
           \/ InitFails /\ UNCHANGED <<scriptVars, appVars>>
           \/ (Unplug \/ Replug) /\ UNCHANGED <<scriptVars, app, quit>>
  BY <1>1, <1>2, OuterLoads
<1>3. CASE LoadBrowses \/ LoadOpens \/ LoadReads \/ LoadCloses
  BY <1>1, <1>3, LoadsSilent, SilentLoads
<1>4. CASE LoadChecks
  BY <1>1, <1>4, ChecksLoad
<1>5. CASE Written /\ LoadSends
  <2>1. stack # <<>>
    BY <1>5 DEF LoadSends, LoadIs, At, InTop
  <2>2. comm = "up"
    BY <1>1, <2>1, LoopIsUp
  <2> QED
    BY <1>1, <1>5, <2>2, SendsNext
<1>6. CASE RawReceives \/ RawShows \/ RawDone \/ DialogReturns \/ BoxReturns \/ TestScriptDlgDone
  BY <1>1, <1>6, DialogsSilent, SilentLoads
<1>7. CASE \/ MenuLoadRom \/ MenuRawDebug \/ MenuTestScripts
           \/ \E text \in Texts : RawSend(text)
           \/ \E selected \in Selections : TestScriptsRun(selected)
  BY <1>1, <1>7, StartsSilent, SilentLoads
<1>8. CASE RunStep
  BY <1>1, <1>8, RunSilent, SilentLoads
<1>9. CASE ProgramStep \/ UserStep
  BY <1>2, <1>3, <1>4, <1>5, <1>6, <1>7, <1>8, <1>9 DEF ProgramStep, UserStep
<1>10. CASE Machine
  BY <1>1, <1>10, MachineLoads
<1>11. CASE Program
  BY <1>1, <1>11, BreakLoads
<1>12. CASE Fault \/ (Written /\ MenuTestScriptsCrashes)
  BY <1>2, <1>12 DEF Fault, MenuTestScriptsCrashes
<1>13. CASE UNCHANGED vars
  BY <1>13, StillLoads DEF vars, scriptVars, commVars
<1> QED
  BY <1>2, <1>9, <1>10, <1>11, <1>12, <1>13 DEF Next

LEMMA RomInvBegins == Init => RomInv
<1> SUFFICES ASSUME Init PROVE RomInv
  OBVIOUS
<1>1. stack = <<>> /\ DOMAIN <<>> = {}
  BY DEF Init, ScriptInit
<1> QED
  BY <1>1 DEF RomInv, PauseInv, LoadInv, Sends, LoadIs, At, InTop

-----------------------------------------------------------------------------
\* A bank, or two, is in the cartridge's 32 KB a whole number of times.
LEMMA VectorAt ==
    ASSUME NEW d, RomOK(d), Prg(d) > 0, NEW r \in {0, 1}
    PROVE  RomByte(d, 65532 + r) = Vector(d, r)
<1> DEFINE P == Prg(d)
           B == PrgBank
           c == 16384 \div B
<1>1. B \in Nat /\ B >= 4 /\ 16384 % B = 0
  BY Banks, BankAssumption
<1>2. 16384 = B * c /\ c \in Nat
  BY <1>1, WholeParts
<1>3. P \in {B, 2 * B}
  BY BanksOf
<1> HIDE DEF P, B, c
<1>4. PICK e \in Int : 32768 = P * e
  <2>1. CASE P = B
    <3>1. 32768 = P * (2 * c) /\ 2 * c \in Int
      BY <1>1, <1>2, <2>1
    <3> QED
      BY <3>1
  <2>2. CASE P = 2 * B
    <3>1. 32768 = P * c /\ c \in Int
      BY <1>1, <1>2, <2>2
    <3> QED
      BY <3>1
  <2> QED
    BY <1>3, <2>1, <2>2
<1>5. P \in Nat /\ P >= 4
  BY <1>1, <1>3
<1> DEFINE x == P - 4 + r
           g == e - 1
<1>6. x \in Nat /\ x < P /\ g \in Int /\ P * g + x = 32764 + r
  <2>1. P * g = P * e - P
    BY <1>4, <1>5
  <2> QED
    BY <1>4, <1>5, <2>1
<1> HIDE DEF g
<1>7. (32764 + r) % P = x
  <2> HIDE DEF x
  <2> HIDE DEF g
  <2>0. P \in Nat \ {0} /\ g \in Int /\ x \in Nat /\ P * g + x \in Nat
    <3>1. 32764 + r \in Nat
      OBVIOUS
    <3> QED
      BY <1>5, <1>6, <3>1
  <2>1. (P * g + x) % P = x % P
    BY <2>0, Remains
  <2>2. x % P = x
    BY <1>5, <1>6
  <2> QED
    BY <1>6, <2>1, <2>2
<1>8. 65532 + r - 32768 = 32764 + r /\ 17 + x = 16 + P - 4 + 1 + r
  BY <1>5
<1> HIDE DEF x
<1>9. RomByte(d, 65532 + r) = d[17 + x]
  BY <1>7, <1>8 DEF RomByte, P
<1> QED
  BY <1>8, <1>9 DEF Vector, P

\* All packets are taken.
LEMMA AllTaken ==
    ASSUME NEW d, RomOK(d), NEW n, NEW q, q = Len(RomPackets(d)), q > 6, LoadedBy(n, <<>>, d, q)
    PROVE  Banked(n, d) /\ Starts(n, d, 0) /\ Starts(n, d, 1)
<1> DEFINE P == PrgBlocks(d)
           C == ChrBlocks(d)
<1>1. P \in Nat /\ C \in Nat /\ q = 6 + P + C
  BY BanksOf, PacketAt
<1>2. /\ q # 0 /\ q # 1 /\ q # 2 /\ q # 3
      /\ \A k \in 1 .. P : q # 3 + k
      /\ \A k \in 1 .. C : q # 3 + P + k
      /\ q # Banks3(d) + 1 /\ q # Banks3(d) + 2
  <2> HIDE DEF P, C
  <2>1. Banks3(d) = 3 + P + C
    BY DEF Banks3, P, C
  <2> QED
    BY <1>1, <2>1
<1> QED
  BY <1>2 DEF LoadedBy

LEMMA PlaysNow ==
    ASSUME PortInv, LoadInv
    PROVE  RomPlays
<1> SUFFICES ASSUME LoadIs("close"), Top.i > 7, port = "open", Written, ~rogue
             PROVE  LET d == Data(Top)
                    IN  /\ \A k \in 0 .. Prg(d) - 1 : nes.cpu[Cell(32768 + k)] = RomByte(d, 32768 + k)
                        /\ \A k \in 0 .. Chr(d) - 1 : nes.ppu[Cell(k)] = d[17 + Prg(d) + k]
                        /\ nes.cfg = SubSeq(d, 5, 9)
                        /\ Prg(d) > 0 => nes.regs = [r \in Registers |->
                                 CASE r = CpuRegPcl -> RomByte(d, 65532)
                                   [] r = CpuRegPch -> RomByte(d, 65533)
                                   [] OTHER -> nes.regs[r]]
  BY DEF RomPlays
<1> DEFINE d == Data(Top)
           q == Top.i - 1
<1>1. Sends /\ Top.at = "close"
  BY DEF Sends, LoadIs, At
<1>2. LoadOK(nes, <<>>, Top, TRUE)
  BY <1>1 DEF LoadInv, Written
<1>3. RomOK(d) /\ Top.i = Len(RomPackets(d)) + 1 /\ LoadedBy(nes, <<>>, d, q)
  BY <1>1, <1>2 DEF LoadOK
<1> HIDE DEF d
<1>4. q = Len(RomPackets(d)) /\ q > 6
  <2>1. Len(RomPackets(d)) \in Nat
    BY <1>3, PacketCount
  <2> QED
    BY <1>3, <2>1
<1> HIDE DEF q
<1>5. Banked(nes, d) /\ Starts(nes, d, 0) /\ Starts(nes, d, 1)
  BY <1>3, <1>4, AllTaken
<1>6. Prg(d) \in Nat /\ Chr(d) \in Nat
  BY <1>3, BanksOf
<1>7. \A k \in 0 .. Prg(d) - 1 : nes.cpu[Cell(32768 + k)] = RomByte(d, 32768 + k)
  <2> TAKE k \in 0 .. Prg(d) - 1
  <2>1. nes.cpu[Cell(32768 + k)] = d[16 + 1 + k]
    BY <1>5 DEF Banked, PrgThere, InPlace
  <2> DEFINE P == Prg(d)
  <2>2. P \in Nat /\ k \in 0 .. P - 1
    BY <1>6
  <2> HIDE DEF P
  <2>3. ((32768 + k) - 32768) % P = k /\ 17 + k = 16 + 1 + k
    BY <2>2
  <2> QED
    BY <2>1, <2>3 DEF RomByte, P
<1>8. \A k \in 0 .. Chr(d) - 1 : nes.ppu[Cell(k)] = d[17 + Prg(d) + k]
  <2> TAKE k \in 0 .. Chr(d) - 1
  <2>1. nes.ppu[Cell(0 + k)] = d[16 + Prg(d) + 1 + k]
    BY <1>5 DEF Banked, ChrThere, InPlace
  <2>2. 0 + k = k /\ 16 + Prg(d) + 1 + k = 17 + Prg(d) + k
    BY <1>6
  <2> QED
    BY <2>1, <2>2
<1>9. nes.cfg = SubSeq(d, 5, 9)
  BY <1>5 DEF Banked, Configured
<1>10. ASSUME Prg(d) > 0
       PROVE  nes.regs = [r \in Registers |-> CASE r = CpuRegPcl -> RomByte(d, 65532)
                                                [] r = CpuRegPch -> RomByte(d, 65533)
                                                [] OTHER -> nes.regs[r]]
  <2>1. RomByte(d, 65532) = Vector(d, 0) /\ RomByte(d, 65533) = Vector(d, 1)
    <3>1. 65532 + 0 = 65532 /\ 65532 + 1 = 65533
      OBVIOUS
    <3>2. RomByte(d, 65532 + 0) = Vector(d, 0) /\ RomByte(d, 65532 + 1) = Vector(d, 1)
      BY <1>3, <1>10, VectorAt
    <3> QED
      BY <3>1, <3>2
  <2>2. nes.regs \in [Registers -> Bytes]
    BY FieldsOf DEF PortInv
  <2>3. \A r \in Registers : /\ r = 0 => nes.regs[r] = RomByte(d, 65532)
                             /\ r = 1 => nes.regs[r] = RomByte(d, 65533)
    BY <1>5, <2>1 DEF Starts
  <2> QED
    BY <2>2, <2>3 DEF CpuRegPcl, CpuRegPch
<1> QED
  BY <1>7, <1>8, <1>9, <1>10 DEF d

\* A ROM that NesDbg has loaded is there: while the port stays open and the machine
\* was what the program took it for, both banks, the configuration and the program
\* counter are those of the file, whatever its size, and whatever ran or was loaded
\* before or interrupted an earlier load.
THEOREM RomsArrive == Spec => []RomPlays
<1>1. PortInv /\ RomInv => RomPlays
  BY PlaysNow DEF RomInv
<1>2. IInv /\ LinkInv /\ RomInv /\ [Next]_vars => RomInv'
  BY RomInvStep
<1>3. LinkInv => PortInv
  BY DEF LinkInv
<1> QED
  BY <1>1, <1>2, <1>3, RomInvBegins, LinkHolds, PTL DEF Spec
=============================================================================
