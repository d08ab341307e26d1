---------------------------- MODULE NesDbgProofs ----------------------------
(***************************************************************************)
(* Proofs about the calls under way of NesDbg.  It holds files and the      *)
(* serial port while it uses them and no longer, through every box,         *)
(* whatever is started behind it, and every failure; and what the dialog    *)
(* shows is the end of a run.                                               *)
(*                                                                         *)
(* What has to be shown of the stack is in Owns: the files held open are    *)
(* those of the calls under way, and no two calls hold the same.  There is  *)
(* one lemma for each way in which the stack changes (Go, BoxOver, Return,  *)
(* Start, EndDialog), and every action is an instance of one of them.  The  *)
(* tally follows the same lines, with TallyInv: of every run the scripts are *)
(* those counted, those left and the one it is in.                          *)
(***************************************************************************)
EXTENDS NesDbg, TLAPS

\* A script holds a file only in the call that loads it.
IsFrame(f) ==
    /\ "kind" \in DOMAIN f
    /\ f.kind = "load" => {"at", "rom"} \subseteq DOMAIN f
    /\ f.kind = "run"  => /\ {"at", "held"} \subseteq DOMAIN f
                          /\ f.at # "loaded" => f.held = {}

\* The files of F are those held by the calls of s, each by one.
Owns(s, F) ==
    /\ \A x \in F : \E i \in DOMAIN s : x \in HeldBy(s[i])
    /\ \A i \in DOMAIN s : HeldBy(s[i]) \subseteq F
    /\ \A i, j \in DOMAIN s : i # j => HeldBy(s[i]) \cap HeldBy(s[j]) = {}

IsStack(s) == (\E S : s \in Seq(S)) /\ (\A i \in DOMAIN s : IsFrame(s[i]))

Sound(s, F) == IsStack(s) /\ Owns(s, F)

StackInv == Sound(stack, files)

\* Only the message loop has calls under way, and a program that has ended no port.
AppInv ==
    /\ app # "loop" => stack = <<>>
    /\ app = "off" => port = "closed" /\ out = <<>> /\ wire = <<>>

IInv == StackInv /\ AppInv

-----------------------------------------------------------------------------
(* The ways in which the stack changes.                                     *)

\* A call on top takes another form: a sequence with another head.
LEMMA NewHead ==
    ASSUME NEW S, NEW s \in Seq(S), s # <<>>, NEW f
    PROVE  LET t == <<f>> \o Tail(s)
           IN  /\ t \in Seq(S \cup {f}) /\ DOMAIN t = DOMAIN s /\ 1 \in DOMAIN s
               /\ t[1] = f /\ \A i \in DOMAIN s : i # 1 => t[i] = s[i]
  OBVIOUS

\* The call on top is back.
LEMMA Popped ==
    ASSUME NEW S, NEW s \in Seq(S), s # <<>>
    PROVE  LET t == Tail(s)
           IN  /\ t \in Seq(S) /\ DOMAIN s = 1 .. Len(s) /\ Len(s) \in Nat /\ Len(s) >= 1
               /\ DOMAIN t = 1 .. Len(s) - 1 /\ \A i \in 2 .. Len(s) : t[i - 1] = s[i]
  OBVIOUS

\* A call starts above all others.
LEMMA Pushed ==
    ASSUME NEW S, NEW s \in Seq(S), NEW f
    PROVE  LET t == <<f>> \o s
           IN  /\ t \in Seq(S \cup {f}) /\ DOMAIN s = 1 .. Len(s) /\ Len(s) \in Nat
               /\ DOMAIN t = 1 .. Len(s) + 1
               /\ t[1] = f /\ \A i \in 1 .. Len(s) : t[i + 1] = s[i]
  OBVIOUS

\* Go: the call on top may have given files back and taken others that nobody holds.
LEMMA GoSound ==
    ASSUME NEW s, NEW F, Sound(s, F), s # <<>>, NEW f, IsFrame(f),
           HeldBy(f) \cap (F \ HeldBy(Head(s))) = {}
    PROVE  Sound(<<f>> \o Tail(s), (F \ HeldBy(Head(s))) \cup HeldBy(f))
<1> DEFINE t == <<f>> \o Tail(s)
           G == (F \ HeldBy(Head(s))) \cup HeldBy(f)
<1>1. PICK S : s \in Seq(S)
  BY DEF Sound, IsStack
<1>2. /\ t \in Seq(S \cup {f}) /\ DOMAIN t = DOMAIN s /\ 1 \in DOMAIN s
      /\ t[1] = f /\ \A i \in DOMAIN s : i # 1 => t[i] = s[i]
  BY <1>1, NewHead
<1>3. Head(s) = s[1]
  BY <1>1
<1> HIDE DEF t
<1>4. IsStack(t)
  BY <1>2 DEF Sound, IsStack
<1>5. \A x \in G : \E i \in DOMAIN t : x \in HeldBy(t[i])
  BY <1>2, <1>3 DEF Sound, Owns
<1>6. \A i \in DOMAIN t : HeldBy(t[i]) \subseteq G
  BY <1>2, <1>3 DEF Sound, Owns
<1>7. \A i, j \in DOMAIN t : i # j => HeldBy(t[i]) \cap HeldBy(t[j]) = {}
  <2> SUFFICES ASSUME NEW i \in DOMAIN t, NEW j \in DOMAIN t, i # j
               PROVE  HeldBy(t[i]) \cap HeldBy(t[j]) = {}
    OBVIOUS
  <2>1. \A k \in DOMAIN s : k # 1 => HeldBy(s[k]) \subseteq F \ HeldBy(s[1])
    BY <1>2 DEF Sound, Owns
  <2> QED
    BY <1>2, <1>3, <2>1 DEF Sound, Owns
<1> QED
  BY <1>4, <1>5, <1>6, <1>7 DEF t, Sound, Owns

\* A call that holds nothing starts.
LEMMA PushSound ==
    ASSUME NEW s, NEW F, Sound(s, F), NEW f, IsFrame(f), HeldBy(f) = {}
    PROVE  Sound(<<f>> \o s, F)
<1> DEFINE t == <<f>> \o s
<1>1. PICK S : s \in Seq(S)
  BY DEF Sound, IsStack
<1>2. /\ t \in Seq(S \cup {f}) /\ DOMAIN s = 1 .. Len(s) /\ Len(s) \in Nat
      /\ DOMAIN t = 1 .. Len(s) + 1
      /\ t[1] = f /\ \A i \in 1 .. Len(s) : t[i + 1] = s[i]
  BY <1>1, Pushed
<1> HIDE DEF t
<1>3. \A j \in DOMAIN t : j = 1 \/ (j - 1 \in DOMAIN s /\ t[j] = s[j - 1])
  BY <1>2
<1>4. \A i \in DOMAIN s : i + 1 \in DOMAIN t /\ t[i + 1] = s[i]
  BY <1>2
<1>5. IsStack(t)
  BY <1>2, <1>3 DEF Sound, IsStack
<1>6. \A x \in F : \E i \in DOMAIN t : x \in HeldBy(t[i])
  BY <1>4 DEF Sound, Owns
<1>7. \A i \in DOMAIN t : HeldBy(t[i]) \subseteq F
  BY <1>2, <1>3 DEF Sound, Owns
<1>8. \A i, j \in DOMAIN t : i # j => HeldBy(t[i]) \cap HeldBy(t[j]) = {}
  <2> SUFFICES ASSUME NEW i \in DOMAIN t, NEW j \in DOMAIN t, i # j
               PROVE  HeldBy(t[i]) \cap HeldBy(t[j]) = {}
    OBVIOUS
  <2>1. CASE i = 1 \/ j = 1
    BY <2>1, <1>2
  <2>2. CASE i # 1 /\ j # 1
    <3>1. i - 1 \in DOMAIN s /\ j - 1 \in DOMAIN s /\ t[i] = s[i - 1] /\ t[j] = s[j - 1]
      BY <2>2, <1>3
    <3>2. i - 1 # j - 1
      BY <1>2
    <3> QED
      BY <3>1, <3>2 DEF Sound, Owns
  <2> QED
    BY <2>1, <2>2
<1> QED
  BY <1>5, <1>6, <1>7, <1>8 DEF t, Sound, Owns

\* BoxOver: as Go, with a box in front.
LEMMA BoxSound ==
    ASSUME NEW s, NEW F, Sound(s, F), s # <<>>, NEW f, IsFrame(f),
           HeldBy(f) \cap (F \ HeldBy(Head(s))) = {}
    PROVE  Sound(<<Box, f>> \o Tail(s), (F \ HeldBy(Head(s))) \cup HeldBy(f))
<1> DEFINE r == <<f>> \o Tail(s)
<1>1. Sound(r, (F \ HeldBy(Head(s))) \cup HeldBy(f))
  BY GoSound
<1>2. PICK S : s \in Seq(S)
  BY DEF Sound, IsStack
<1>3. <<Box>> \o r = <<Box, f>> \o Tail(s)
  BY <1>2
<1>4. IsFrame(Box) /\ HeldBy(Box) = {}
  BY DEF Box, IsFrame, HeldBy
<1> HIDE DEF r
<1> QED
  BY <1>1, <1>3, <1>4, PushSound

\* Return: what the call held it has given back.
LEMMA ReturnSound ==
    ASSUME NEW s, NEW F, Sound(s, F), s # <<>>
    PROVE  Sound(Tail(s), F \ HeldBy(Head(s)))
<1> DEFINE t == Tail(s)
           G == F \ HeldBy(Head(s))
<1>1. PICK S : s \in Seq(S)
  BY DEF Sound, IsStack
<1>2. /\ t \in Seq(S) /\ DOMAIN s = 1 .. Len(s) /\ Len(s) \in Nat /\ Len(s) >= 1
      /\ DOMAIN t = 1 .. Len(s) - 1 /\ \A i \in 2 .. Len(s) : t[i - 1] = s[i]
  BY <1>1, Popped
<1>3. Head(s) = s[1] /\ 1 \in DOMAIN s
  BY <1>1, <1>2
<1> HIDE DEF t
<1>4. \A i \in DOMAIN t : i + 1 \in DOMAIN s /\ i + 1 # 1 /\ t[i] = s[i + 1]
  BY <1>2
<1>5. \A i \in DOMAIN s : i # 1 => i - 1 \in DOMAIN t /\ t[i - 1] = s[i]
  BY <1>2
<1>6. IsStack(t)
  BY <1>2, <1>4 DEF Sound, IsStack
<1>7. \A x \in G : \E i \in DOMAIN t : x \in HeldBy(t[i])
  BY <1>3, <1>5 DEF Sound, Owns
<1>8. \A i \in DOMAIN t : HeldBy(t[i]) \subseteq G
  <2> SUFFICES ASSUME NEW i \in DOMAIN t
               PROVE  HeldBy(t[i]) \subseteq G
    OBVIOUS
  <2> QED
    BY <1>3, <1>4 DEF Sound, Owns
<1>9. \A i, j \in DOMAIN t : i # j => HeldBy(t[i]) \cap HeldBy(t[j]) = {}
  <2> SUFFICES ASSUME NEW i \in DOMAIN t, NEW j \in DOMAIN t, i # j
               PROVE  HeldBy(t[i]) \cap HeldBy(t[j]) = {}
    OBVIOUS
  <2>1. i + 1 # j + 1
    BY <1>2
  <2> QED
    BY <1>4, <2>1 DEF Sound, Owns
<1> QED
  BY <1>6, <1>7, <1>8, <1>9 DEF t, Sound, Owns

\* Start below, and EndDialog: nothing of what is held changes.
LEMMA SameSound ==
    ASSUME NEW s, NEW F, Sound(s, F), NEW T, NEW t \in Seq(T), DOMAIN t = DOMAIN s,
           \A i \in DOMAIN s : IsFrame(t[i]) /\ HeldBy(t[i]) = HeldBy(s[i])
    PROVE  Sound(t, F)
<1>1. IsStack(t)
  BY DEF IsStack
<1>2. Owns(t, F)
  BY DEF Sound, Owns
<1> QED
  BY <1>1, <1>2 DEF Sound

-----------------------------------------------------------------------------
(* Calls.                                                                   *)
\* A call that goes on with the files it holds.
Keeps(f, g) == IsFrame(g) /\ HeldBy(g) = HeldBy(f)

LEMMA LoadHolds ==
    ASSUME NEW f, f.kind = "load"
    PROVE  HeldBy(f) = IF f.at \in {"read", "check", "send", "close"} THEN {f.rom} ELSE {}
  BY DEF HeldBy

LEMMA RunHolds ==
    ASSUME NEW f, f.kind = "run"
    PROVE  HeldBy(f) = f.held
  BY DEF HeldBy

LEMMA OthersHold ==
    ASSUME NEW f, f.kind \notin {"load", "run"}
    PROVE  HeldBy(f) = {}
  BY DEF HeldBy

LEMMA TopIsFrame ==
    ASSUME StackInv, stack # <<>>
    PROVE  IsFrame(Top) /\ HeldBy(Top) \subseteq files
<1>1. PICK S : stack \in Seq(S)
  BY DEF StackInv, Sound, IsStack
<1>2. Top = stack[1] /\ 1 \in DOMAIN stack
  BY <1>1 DEF Top
<1> QED
  BY <1>2 DEF StackInv, Sound, IsStack, Owns

LEMMA GoKeeps ==
    ASSUME StackInv, stack # <<>>, NEW f, Keeps(Top, f), Go(f) \/ BoxOver(f),
           UNCHANGED files
    PROVE  StackInv'
<1>1. (files \ HeldBy(Top)) \cup HeldBy(f) = files
  BY TopIsFrame DEF Keeps
<1>2. HeldBy(f) \cap (files \ HeldBy(Top)) = {}
  BY DEF Keeps
<1>3. Sound(stack, files) /\ IsFrame(f)
  BY DEF StackInv, Keeps
<1>4. Sound(<<f>> \o Tail(stack), (files \ HeldBy(Head(stack))) \cup HeldBy(f))
  BY <1>2, <1>3, GoSound DEF Top
<1>5. Sound(<<Box, f>> \o Tail(stack), (files \ HeldBy(Head(stack))) \cup HeldBy(f))
  BY <1>2, <1>3, BoxSound DEF Top
<1> QED
  BY <1>1, <1>4, <1>5 DEF StackInv, Go, BoxOver, Top

LEMMA StartKeeps ==
    ASSUME StackInv, NEW f, IsFrame(f), HeldBy(f) = {}, Start(f), UNCHANGED files
    PROVE  StackInv'
<1> DEFINE e(i) == IF stack[i].kind = "run" THEN [stack[i] EXCEPT !.fair = FALSE]
                   ELSE stack[i]
           t == [i \in DOMAIN stack |-> e(i)]
<1>1. PICK S : stack \in Seq(S)
  BY DEF StackInv, Sound, IsStack
<1>2. t \in Seq({e(i) : i \in DOMAIN stack}) /\ DOMAIN t = DOMAIN stack
  BY <1>1
<1>3. \A i \in DOMAIN stack : IsFrame(e(i)) /\ HeldBy(e(i)) = HeldBy(stack[i])
  BY DEF StackInv, Sound, IsStack, IsFrame, HeldBy
<1>4. Sound(t, files)
  BY <1>2, <1>3, SameSound DEF StackInv
<1>5. Sound(<<f>> \o t, files)
  BY <1>4, PushSound
<1> QED
  BY <1>5 DEF StackInv, Start

LEMMA EndKeeps ==
    ASSUME StackInv, NEW k \in {"raw", "scripts"}, EndDialog(k), UNCHANGED files
    PROVE  StackInv'
<1> DEFINE e(i) == IF stack[i].kind = k THEN [stack[i] EXCEPT !.ended = TRUE]
                   ELSE stack[i]
           t == [i \in DOMAIN stack |-> e(i)]
<1>1. PICK S : stack \in Seq(S)
  BY DEF StackInv, Sound, IsStack
<1>2. t \in Seq({e(i) : i \in DOMAIN stack}) /\ DOMAIN t = DOMAIN stack
  BY <1>1
<1>3. \A i \in DOMAIN stack : IsFrame(e(i)) /\ HeldBy(e(i)) = HeldBy(stack[i])
  BY DEF StackInv, Sound, IsStack, IsFrame, HeldBy
<1> QED
  BY <1>2, <1>3, SameSound DEF StackInv, EndDialog

LEMMA ReturnKeeps ==
    ASSUME StackInv, stack # <<>>, Return, files' = files \ HeldBy(Top)
    PROVE  StackInv'
  BY ReturnSound DEF StackInv, Return, Top

-----------------------------------------------------------------------------
(* The steps of a script.                                                   *)
\* From "call", and wherever no file is held, a run goes on as it is.
LEMMA RunKeeps ==
    ASSUME StackInv, InTop("run"), Top.at # "loaded",
           NEW f, DOMAIN f = DOMAIN Top, f.kind = "run", f.held = Top.held
    PROVE  Keeps(Top, f)
  BY TopIsFrame, RunHolds DEF InTop, IsFrame, Keeps

LEMMA ReturnedKeeps ==
    ASSUME StackInv, InTop("run"), Top.at # "loaded", NEW v
    PROVE  Keeps(Top, Returned(v))
<1>1. {"kind", "at", "held"} \subseteq DOMAIN Top /\ Top.kind = "run"
  BY TopIsFrame DEF InTop, IsFrame
<1>2. /\ DOMAIN Returned(v) = DOMAIN Top
      /\ Returned(v).kind = "run" /\ Returned(v).held = Top.held
  BY <1>1 DEF Returned
<1> QED
  BY <1>2, RunKeeps

\* What a call of a script does between its start and its end.
LEMMA AskKeeps ==
    ASSUME StackInv, NEW p, At("run", "call"), Tell(p) \/ Ask(p)
    PROVE  StackInv'
<1>1. InTop("run") /\ Top.at # "loaded" /\ stack # <<>>
  BY DEF At, InTop
<1>2. {"kind", "at", "held"} \subseteq DOMAIN Top /\ Top.kind = "run"
  BY <1>1, TopIsFrame DEF InTop, IsFrame
<1>3. CASE Tell(p)
  BY <1>1, <1>3, ReturnedKeeps, GoKeeps DEF Tell
<1>4. CASE Ask(p)
  <2> DEFINE f == [Top EXCEPT !.at = "receive", !.n = ReturnBytesExpected(p)]
  <2>1. DOMAIN f = DOMAIN Top /\ f.kind = "run" /\ f.held = Top.held
    BY <1>2
  <2>2. Keeps(Top, f)
    BY <1>1, <2>1, RunKeeps
  <2> QED
    BY <1>1, <1>4, <2>2, GoKeeps DEF Ask
<1> QED
  BY <1>3, <1>4

LEMMA WaitKeeps == StackInv /\ LuaWaitForHlt => StackInv'
<1> SUFFICES ASSUME StackInv, LuaWaitForHlt
             PROVE  StackInv'
  OBVIOUS
<1>1. InTop("run") /\ Top.at # "loaded" /\ stack # <<>>
  BY DEF At, InTop, LuaWaitForHlt, WaitForHltAsks, WaitForHltReads, Calling
<1>2. {"kind", "at", "held"} \subseteq DOMAIN Top /\ Top.kind = "run"
  BY <1>1, TopIsFrame DEF InTop, IsFrame
<1>3. CASE WaitForHltAsks
  <2>1. \A heap : Keeps(Top, [Top EXCEPT !.at = "halted?", !.n = heap])
    <3> TAKE heap
    <3> DEFINE f == [Top EXCEPT !.at = "halted?", !.n = heap]
    <3>1. DOMAIN f = DOMAIN Top /\ f.kind = "run" /\ f.held = Top.held
      BY <1>2
    <3> QED
      BY <1>1, <3>1, RunKeeps
  <2>2. Keeps(Top, [Top EXCEPT !.at = "halted?"])
    <3> DEFINE f == [Top EXCEPT !.at = "halted?"]
    <3>1. DOMAIN f = DOMAIN Top /\ f.kind = "run" /\ f.held = Top.held
      BY <1>2
    <3> QED
      BY <1>1, <3>1, RunKeeps
  <2> QED
    BY <1>1, <1>3, <2>1, <2>2, GoKeeps DEF WaitForHltAsks
<1>4. CASE WaitForHltReads
  <2> DEFINE f == [Top EXCEPT !.at = "wait", !.n = 0]
  <2>1. DOMAIN f = DOMAIN Top /\ f.kind = "run" /\ f.held = Top.held
    BY <1>2
  <2>2. Keeps(Top, f)
    BY <1>1, <2>1, RunKeeps
  <2> HIDE DEF f
  <2>3. Go(f) \/ Go(Returned(<<>>))
    BY <1>4 DEF WaitForHltReads, f
  <2> QED
    BY <1>1, <1>4, <2>2, <2>3, ReturnedKeeps, GoKeeps DEF WaitForHltReads
<1> QED
  BY <1>3, <1>4 DEF LuaWaitForHlt

\* LuaLoadAsm opens a file that is not open, and closes it.
LEMMA LoadAsmKeeps == StackInv /\ LuaLoadAsm => StackInv'
<1> SUFFICES ASSUME StackInv, LuaLoadAsm
             PROVE  StackInv'
  OBVIOUS
<1>1. InTop("run") /\ stack # <<>> /\ Top.kind = "run"
  BY DEF At, InTop, LuaLoadAsm, LoadAsmReads, LoadAsmFails, LoadAsmReturns, Calling
<1>2. /\ {"kind", "at", "held"} \subseteq DOMAIN Top
      /\ Top.at # "loaded" => Top.held = {}
  BY <1>1, TopIsFrame DEF InTop, IsFrame
<1>3. HeldBy(Top) = Top.held /\ Top.held \subseteq files
  BY <1>1, TopIsFrame, RunHolds
<1>4. Sound(stack, files)
  BY DEF StackInv
<1>5. ASSUME NEW startPc, NEW held, NEW g,
             g \in {Loading(startPc, held), [Loading(startPc, held) EXCEPT !.fair = FALSE]}
      PROVE  IsFrame(g) /\ HeldBy(g) = held
  <2>1. g.kind = "run" /\ g.at = "loaded" /\ g.held = held /\ DOMAIN g = DOMAIN Top
    BY <1>1, <1>2, <1>5 DEF Loading
  <2> QED
    BY <1>2, <2>1, RunHolds DEF IsFrame
<1>6. CASE LoadAsmReads
  <2>1. PICK startPc, g :
            /\ g \in {Loading(startPc, {Arg(1)}), [Loading(0, {Arg(1)}) EXCEPT !.fair = FALSE]}
            /\ Go(g) \/ BoxOver(g)
    BY <1>6 DEF LoadAsmReads
  <2>2. IsFrame(g) /\ HeldBy(g) = {Arg(1)}
    BY <1>5, <2>1
  <2>3. Arg(1) \notin files /\ files' = files \cup {Arg(1)} /\ Top.held = {}
    BY <1>2, <1>6 DEF LoadAsmReads, Calling, At
  <2>4. HeldBy(g) \cap (files \ HeldBy(Head(stack))) = {}
    BY <2>2, <2>3
  <2>5. files' = (files \ HeldBy(Head(stack))) \cup HeldBy(g)
    BY <1>3, <2>2, <2>3 DEF Top
  <2>6. Sound(<<g>> \o Tail(stack), files') /\ Sound(<<Box, g>> \o Tail(stack), files')
    BY <1>1, <1>4, <2>2, <2>4, <2>5, GoSound, BoxSound
  <2> QED
    BY <2>1, <2>6 DEF StackInv, Go, BoxOver
<1>7. CASE LoadAsmFails
  <2> DEFINE g == [Loading(0, {}) EXCEPT !.fair = FALSE]
  <2>1. Top.held = {}
    BY <1>2, <1>7 DEF LoadAsmFails, Calling, At
  <2>2. Keeps(Top, g)
    BY <1>3, <1>5, <2>1 DEF Keeps
  <2> QED
    BY <1>1, <1>7, <2>2, GoKeeps DEF LoadAsmFails
<1>8. CASE LoadAsmReturns
  <2> DEFINE g == [Returned(Word(Top.n)) EXCEPT !.held = {}, !.n = 0]
  <2>1. g.kind = "run" /\ g.held = {} /\ DOMAIN g = DOMAIN Top
    BY <1>1, <1>2 DEF Returned
  <2>2. IsFrame(g) /\ HeldBy(g) = {}
    BY <1>2, <2>1, RunHolds DEF IsFrame
  <2> HIDE DEF g
  <2>3. Go(g) /\ files' = files \ HeldBy(Head(stack))
    BY <1>3, <1>8 DEF LoadAsmReturns, Top, g
  <2> QED
    BY <1>1, <1>4, <2>2, <2>3, GoSound DEF StackInv, Go
<1> QED
  BY <1>6, <1>7, <1>8 DEF LuaLoadAsm

\* ExecuteScript comes to its verdict with no file open, and so does the run to its end.
LEMMA RunStepKeeps == StackInv /\ RunStep => StackInv'
<1> SUFFICES ASSUME StackInv, RunStep
             PROVE  StackInv'
  OBVIOUS
<1>1. CASE ReturnsNothing
  <2>1. InTop("run") /\ Top.at # "loaded" /\ stack # <<>>
    BY <1>1 DEF At, InTop, ReturnsNothing
  <2>2. {"kind", "at", "held"} \subseteq DOMAIN Top /\ Top.kind = "run"
    BY <2>1, TopIsFrame DEF InTop, IsFrame
  <2> DEFINE f == [Top EXCEPT !.at = "error"]
  <2>3. DOMAIN f = DOMAIN Top /\ f.kind = "run" /\ f.held = Top.held
    BY <2>2
  <2>4. Keeps(Top, f)
    BY <2>1, <2>3, RunKeeps
  <2> HIDE DEF f
  <2>5. Go(f) \/ Go(Returned(<<>>))
    BY <1>1 DEF ReturnsNothing, f
  <2> QED
    BY <1>1, <2>1, <2>4, <2>5, ReturnedKeeps, GoKeeps DEF ReturnsNothing
<1>2. CASE LuaPrint
  <2>1. InTop("run") /\ Top.at # "loaded" /\ stack # <<>>
    BY <1>2 DEF At, InTop, LuaPrint, Calling
  <2> QED
    BY <1>2, <2>1, ReturnedKeeps, GoKeeps DEF LuaPrint
<1>3. CASE \/ LuaEcho \/ LuaCpuMemRd \/ LuaCpuMemWr \/ LuaPpuMemRd \/ LuaPpuMemWr
           \/ LuaCpuRegRd \/ LuaCpuRegWr \/ LuaDbgHlt \/ LuaDbgRun
  <2>1. At("run", "call") /\ \E p : Tell(p) \/ Ask(p)
    BY <1>3 DEF LuaEcho, LuaCpuMemRd, LuaCpuMemWr, LuaPpuMemRd, LuaPpuMemWr,
                LuaCpuRegRd, LuaCpuRegWr, LuaDbgHlt, LuaDbgRun, Calling
  <2> QED
    BY <2>1, AskKeeps
<1>4. CASE Receive
  <2>1. InTop("run") /\ Top.at # "loaded" /\ stack # <<>>
    BY <1>4 DEF At, InTop, Receive
  <2> QED
    BY <1>4, <2>1, ReturnedKeeps, GoKeeps DEF Receive
<1>5. CASE ExecuteScript
  <2>1. InTop("run") /\ Top.at # "loaded" /\ stack # <<>>
    BY <1>5 DEF At, InTop, ExecuteScript, ScriptEnds, ScriptFails
  <2>2. {"kind", "at", "held"} \subseteq DOMAIN Top /\ Top.kind = "run"
    BY <2>1, TopIsFrame DEF InTop, IsFrame
  <2>3. PICK v : Verdict(v)
    BY <1>5 DEF ExecuteScript, ScriptEnds, ScriptFails
  <2> DEFINE f == [Top EXCEPT !.at = "next", !.verdict = v, !.tally[v + 1] = @ + 1]
  <2>4. DOMAIN f = DOMAIN Top /\ f.kind = "run" /\ f.held = Top.held
    BY <2>2
  <2>5. Keeps(Top, f)
    BY <2>1, <2>4, RunKeeps
  <2>6. Go(f)
    BY <2>3 DEF Verdict
  <2> HIDE DEF f
  <2> QED
    BY <1>5, <2>1, <2>5, <2>6, GoKeeps DEF ExecuteScript
<1>6. CASE NextScript
  <2>1. InTop("run") /\ Top.at # "loaded" /\ stack # <<>>
    BY <1>6 DEF At, InTop, NextScript
  <2>2. {"kind", "at", "held"} \subseteq DOMAIN Top /\ Top.kind = "run"
    BY <2>1, TopIsFrame DEF InTop, IsFrame
  <2> DEFINE f == [Top EXCEPT !.left = Tail(@), !.script = Head(Top.left),
                      !.verdict = NoVerdict, !.pc = 1, !.result = PASS, !.n = 0,
                      !.at = IF Live("scripts") THEN "call" ELSE "no file",
                      !.fair = port = "open" /\ nes.in = OPCODE /\ ~rogue]
  <2>3. DOMAIN f = DOMAIN Top /\ f.kind = "run" /\ f.held = Top.held
    BY <2>2
  <2>4. Keeps(Top, f)
    BY <2>1, <2>3, RunKeeps
  <2>5. Go(f)
    BY <1>6 DEF NextScript
  <2> HIDE DEF f
  <2> QED
    BY <1>6, <2>1, <2>4, <2>5, GoKeeps DEF NextScript
<1>7. CASE LastScript
  <2>1. InTop("run") /\ Top.at # "loaded" /\ stack # <<>>
    BY <1>7 DEF At, InTop, LastScript
  <2>2. HeldBy(Top) = {}
    BY <2>1, TopIsFrame, RunHolds DEF InTop, IsFrame
  <2> QED
    BY <1>7, <2>1, <2>2, ReturnKeeps DEF LastScript
<1> QED
  BY <1>1, <1>2, <1>3, <1>4, <1>5, <1>6, <1>7, WaitKeeps, LoadAsmKeeps DEF RunStep

-----------------------------------------------------------------------------
(* The steps of LoadRom.                                                    *)
LEMMA LoadKeeps ==
    ASSUME StackInv, InTop("load"), NEW f, DOMAIN f = DOMAIN Top, f.kind = "load",
           f.rom = Top.rom,
           LET holding == {"read", "check", "send", "close"}
           IN  f.at \in holding <=> Top.at \in holding
    PROVE  Keeps(Top, f)
<1>1. HeldBy(f) = HeldBy(Top)
  BY LoadHolds DEF InTop
<1>2. IsFrame(f)
  BY TopIsFrame DEF InTop, IsFrame
<1> QED
  BY <1>1, <1>2 DEF Keeps

LEMMA LoadStepKeeps ==
    StackInv /\ (LoadBrowses \/ LoadOpens \/ LoadReads \/ LoadChecks \/ LoadSends \/ LoadCloses)
        => StackInv'
<1> SUFFICES ASSUME StackInv, \/ LoadBrowses \/ LoadOpens \/ LoadReads
                              \/ LoadChecks \/ LoadSends \/ LoadCloses
             PROVE  StackInv'
  OBVIOUS
<1>1. InTop("load") /\ stack # <<>> /\ Top.kind = "load" /\ Sound(stack, files)
  BY DEF InTop, At, LoadIs, StackInv, LoadBrowses, LoadOpens, LoadReads, LoadChecks,
         LoadSends, LoadCloses
<1>2. {"kind", "at", "rom"} \subseteq DOMAIN Top
  BY <1>1, TopIsFrame DEF InTop, IsFrame
<1>3. CASE LoadBrowses
  <2>1. HeldBy(Top) = {}
    BY <1>1, <1>3, LoadHolds DEF LoadBrowses, LoadIs, At
  <2>2. ASSUME NEW r, Go([Top EXCEPT !.at = "open", !.rom = r])
        PROVE  StackInv'
    <3> DEFINE f == [Top EXCEPT !.at = "open", !.rom = r]
    <3>1. DOMAIN f = DOMAIN Top /\ f.kind = "load" /\ f.at = "open"
      BY <1>1, <1>2
    <3>2. Keeps(Top, f)
      BY <1>2, <2>1, <3>1, LoadHolds DEF Keeps, IsFrame
    <3> QED
      BY <1>1, <1>3, <2>2, <3>2, GoKeeps DEF LoadBrowses
  <2>3. CASE Return
    BY <1>1, <1>3, <2>1, <2>3, ReturnKeeps DEF LoadBrowses
  <2> QED
    BY <1>3, <2>2, <2>3 DEF LoadBrowses
<1>4. CASE LoadOpens
  <2>1. HeldBy(Top) = {} /\ Top.at = "open"
    BY <1>1, <1>4, LoadHolds DEF LoadOpens, LoadIs, At
  <2>2. CASE Top.rom \notin files /\ files' = files \cup {Top.rom} /\ Go([Top EXCEPT !.at = "read"])
    <3> DEFINE f == [Top EXCEPT !.at = "read"]
    <3>1. f.kind = "load" /\ f.at = "read" /\ f.rom = Top.rom /\ DOMAIN f = DOMAIN Top
      BY <1>1, <1>2
    <3>2. IsFrame(f) /\ HeldBy(f) = {Top.rom}
      BY <1>2, <3>1, LoadHolds DEF IsFrame
    <3> HIDE DEF f
    <3>3. HeldBy(f) \cap (files \ HeldBy(Head(stack))) = {}
      BY <2>2, <3>2
    <3>4. files' = (files \ HeldBy(Head(stack))) \cup HeldBy(f)
      BY <2>1, <2>2, <3>2 DEF Top
    <3>5. Sound(<<f>> \o Tail(stack), files')
      BY <1>1, <3>2, <3>3, <3>4, GoSound
    <3> QED
      BY <2>2, <3>5 DEF StackInv, Go, f
  <2>3. CASE BoxOver([Top EXCEPT !.at = "done"]) /\ UNCHANGED files
    <3> DEFINE f == [Top EXCEPT !.at = "done"]
    <3>1. f.kind = "load" /\ f.at = "done" /\ f.rom = Top.rom /\ DOMAIN f = DOMAIN Top
      BY <1>1, <1>2
    <3>2. Keeps(Top, f)
      BY <1>1, <2>1, <3>1, LoadKeeps
    <3> QED
      BY <1>1, <2>3, <3>2, GoKeeps
  <2> QED
    BY <1>4, <2>2, <2>3 DEF LoadOpens
<1>5. CASE LoadReads
  <2>1. Top.at = "read" /\ UNCHANGED files
    BY <1>5 DEF LoadReads, LoadIs, At
  <2>2. \A heap : Keeps(Top, [Top EXCEPT !.at = "check", !.heap = heap])
    <3> TAKE heap
    <3> DEFINE f == [Top EXCEPT !.at = "check", !.heap = heap]
    <3>1. f.kind = "load" /\ f.at = "check" /\ f.rom = Top.rom /\ DOMAIN f = DOMAIN Top
      BY <1>1, <1>2
    <3> QED
      BY <1>1, <2>1, <3>1, LoadKeeps
  <2>3. Keeps(Top, [Top EXCEPT !.at = "close"])
    <3> DEFINE f == [Top EXCEPT !.at = "close"]
    <3>1. f.kind = "load" /\ f.at = "close" /\ f.rom = Top.rom /\ DOMAIN f = DOMAIN Top
      BY <1>1, <1>2
    <3> QED
      BY <1>1, <2>1, <3>1, LoadKeeps
  <2> QED
    BY <1>1, <1>5, <2>1, <2>2, <2>3, GoKeeps DEF LoadReads
<1>6. CASE LoadChecks
  <2> DEFINE next == [Top EXCEPT !.i = @ + 1]
             bad  == [next EXCEPT !.ok = FALSE]
             last == [Top EXCEPT !.at = IF Top.ok THEN "send" ELSE "close", !.i = 1]
  <2>1. Top.at = "check" /\ UNCHANGED files
    BY <1>6 DEF LoadChecks, LoadIs, At
  <2>2. /\ next.kind = "load" /\ next.at = "check" /\ next.rom = Top.rom
        /\ DOMAIN next = DOMAIN Top
    BY <1>1, <1>2, <2>1
  <2>3. /\ bad.kind = "load" /\ bad.at = "check" /\ bad.rom = Top.rom
        /\ DOMAIN bad = DOMAIN Top
    BY <1>2, <2>2
  <2>4. /\ last.kind = "load" /\ last.at \in {"send", "close"} /\ last.rom = Top.rom
        /\ DOMAIN last = DOMAIN Top
    BY <1>1, <1>2
  <2>5. Go(next) \/ BoxOver(bad) \/ Go(last)
    BY <1>6 DEF LoadChecks
  <2> HIDE DEF next, bad, last
  <2>6. Keeps(Top, next) /\ Keeps(Top, bad) /\ Keeps(Top, last)
    BY <1>1, <2>1, <2>2, <2>3, <2>4, LoadKeeps
  <2> QED
    BY <1>1, <2>1, <2>5, <2>6, GoKeeps
<1>7. CASE LoadSends
  <2> DEFINE next == [Top EXCEPT !.i = @ + 1]
             last == [Top EXCEPT !.at = "close"]
  <2>1. Top.at = "send" /\ UNCHANGED files
    BY <1>7 DEF LoadSends, LoadIs, At
  <2>2. /\ next.kind = "load" /\ next.at = "send" /\ next.rom = Top.rom
        /\ DOMAIN next = DOMAIN Top
    BY <1>1, <1>2, <2>1
  <2>3. /\ last.kind = "load" /\ last.at = "close" /\ last.rom = Top.rom
        /\ DOMAIN last = DOMAIN Top
    BY <1>1, <1>2
  <2>4. Go(next) \/ Go(last)
    BY <1>7 DEF LoadSends
  <2> HIDE DEF next, last
  <2>5. Keeps(Top, next) /\ Keeps(Top, last)
    BY <1>1, <2>1, <2>2, <2>3, LoadKeeps
  <2> QED
    BY <1>1, <2>1, <2>4, <2>5, GoKeeps
<1>8. CASE LoadCloses
  <2>1. Return /\ files' = files \ HeldBy(Top)
    BY <1>1, <1>8, LoadHolds DEF LoadCloses, LoadIs, At
  <2> QED
    BY <1>1, <2>1, ReturnKeeps
<1> QED
  BY <1>3, <1>4, <1>5, <1>6, <1>7, <1>8

-----------------------------------------------------------------------------
(* Every step.                                                              *)
\* The machine, the adapter, and what of the program does not touch its calls.
Untouched == UNCHANGED <<stack, files>>

LEMMA UntouchedKeeps == StackInv /\ Untouched => StackInv'
  BY DEF StackInv, Untouched

LEMMA DiesKeeps == Dies => StackInv'
<1> SUFFICES ASSUME Dies PROVE StackInv'
  OBVIOUS
<1>1. stack' = <<>> /\ files' = {}
  BY DEF Dies
<1>2. <<>> \in Seq({}) /\ DOMAIN <<>> = {}
  OBVIOUS
<1> QED
  BY <1>1, <1>2 DEF StackInv, Sound, IsStack, Owns

LEMMA DialogsKeep ==
    StackInv /\ (\/ RawReceives \/ RawShows \/ RawDone \/ DialogReturns \/ BoxReturns
                 \/ TestScriptDlgDone)
        => StackInv'
<1> SUFFICES ASSUME StackInv, \/ RawReceives \/ RawShows \/ RawDone
                              \/ DialogReturns \/ BoxReturns \/ TestScriptDlgDone
             PROVE  StackInv'
  OBVIOUS
<1>1. CASE RawReceives
  <2>1. stack # <<>> /\ Top.kind = "send" /\ UNCHANGED files
    BY <1>1 DEF RawReceives, At, InTop
  <2>2. \A heap : Keeps(Top, [Top EXCEPT !.at = "show", !.got = Received(Top.n, heap)])
    <3> TAKE heap
    <3> DEFINE f == [Top EXCEPT !.at = "show", !.got = Received(Top.n, heap)]
    <3>1. "kind" \in DOMAIN Top
      BY <2>1, TopIsFrame DEF IsFrame
    <3>2. f.kind = "send" /\ DOMAIN f = DOMAIN Top
      BY <2>1, <3>1
    <3> QED
      BY <2>1, <3>1, <3>2, OthersHold DEF Keeps, IsFrame
  <2> QED
    BY <1>1, <2>1, <2>2, GoKeeps DEF RawReceives
<1>2. CASE RawShows \/ DialogReturns \/ BoxReturns
  <2>1. /\ stack # <<>> /\ Top.kind \in {"send", "raw", "scripts", "box"}
        /\ Return /\ UNCHANGED files
    BY <1>2 DEF RawShows, DialogReturns, BoxReturns, At, InTop
  <2>2. HeldBy(Top) = {}
    BY <2>1, OthersHold
  <2> QED
    BY <2>1, <2>2, ReturnKeeps
<1>3. CASE RawDone
  BY <1>3, EndKeeps DEF RawDone
<1>4. CASE TestScriptDlgDone
  BY <1>4, EndKeeps DEF TestScriptDlgDone
<1> QED
  BY <1>1, <1>2, <1>3, <1>4

LEMMA StartsKeep ==
    ASSUME StackInv,
           \/ MenuLoadRom \/ MenuRawDebug \/ MenuTestScripts
           \/ \E text \in Texts : RawSend(text)
           \/ \E selected \in Selections : TestScriptsRun(selected)
    PROVE  StackInv'
<1>1. PICK f : /\ Start(f) /\ UNCHANGED files
               /\ "kind" \in DOMAIN f
               /\ \/ f.kind \notin {"load", "run"}
                  \/ f.kind = "load" /\ {"at", "rom"} \subseteq DOMAIN f /\ f.at = "browse"
                  \/ f.kind = "run" /\ {"at", "held"} \subseteq DOMAIN f /\ f.held = {}
  <2>1. CASE MenuLoadRom
    <3> DEFINE f == [kind |-> "load", at |-> "browse", rom |-> "", heap |-> 0, i |-> 1, ok |-> TRUE]
    <3>1. Start(f) /\ UNCHANGED files
      BY <2>1 DEF MenuLoadRom
    <3>2. {"kind", "at", "rom"} \subseteq DOMAIN f /\ f.kind = "load" /\ f.at = "browse"
      OBVIOUS
    <3> HIDE DEF f
    <3> QED
      BY <3>1, <3>2
  <2>2. CASE MenuRawDebug
    BY <2>2 DEF MenuRawDebug
  <2>3. CASE MenuTestScripts
    BY <2>3 DEF MenuTestScripts, TestScriptDlgInit
  <2>4. ASSUME NEW text \in Texts, RawSend(text)
        PROVE  Start(Box) \/ \E n, w : Start([kind |-> "send", at |-> "receive", n |-> n,
                                              got |-> <<>>, want |-> w])
    BY <2>4 DEF RawSend
  <2>5. CASE \E text \in Texts : RawSend(text)
    BY <2>4, <2>5 DEF RawSend, Box
  <2>6. CASE \E selected \in Selections : TestScriptsRun(selected)
    BY <2>6 DEF TestScriptsRun, TestScriptDlgRun, Box
  <2> QED
    BY <2>1, <2>2, <2>3, <2>5, <2>6
<1>2. IsFrame(f) /\ HeldBy(f) = {}
  BY <1>1 DEF IsFrame, HeldBy
<1> QED
  BY <1>1, <1>2, StartKeeps

LEMMA StackStep == StackInv /\ [Next]_vars => StackInv'
<1> SUFFICES ASSUME StackInv, [Next]_vars
             PROVE  StackInv'
  OBVIOUS
<1>1. CASE ProgramStep
  <2>1. CASE NoWindow \/ InitSerialComm \/ InitReturns \/ LoopEnds \/ Exits
    BY <2>1, UntouchedKeeps DEF NoWindow, InitSerialComm, InitReturns, LoopEnds, Exits,
                                scriptVars, Untouched
  <2> QED
    BY <1>1, <2>1, LoadStepKeeps, DialogsKeep, RunStepKeeps DEF ProgramStep
<1>2. CASE UserStep
  <2>1. CASE WinMain \/ MenuExit \/ (InitFails /\ UNCHANGED <<scriptVars, appVars>>)
    BY <2>1, UntouchedKeeps DEF WinMain, MenuExit, scriptVars, Untouched
  <2> QED
    BY <1>2, <2>1, LoadStepKeeps, DialogsKeep, StartsKeep DEF UserStep
<1>3. CASE Machine \/ Program \/ Reset
  BY <1>3, UntouchedKeeps DEF Machine, Program, Reset, scriptVars, Untouched
<1>4. CASE Fault
  BY <1>4, DiesKeeps, UntouchedKeeps DEF Fault, scriptVars, Untouched
<1>5. CASE Written /\ MenuTestScriptsCrashes
  BY <1>5, DiesKeeps DEF MenuTestScriptsCrashes
<1>6. CASE UNCHANGED vars
  BY <1>6, UntouchedKeeps DEF vars, scriptVars, Untouched
<1> QED
  BY <1>1, <1>2, <1>3, <1>4, <1>5, <1>6 DEF Next

LEMMA AppStep == AppInv /\ [Next]_vars => AppInv'
<1> SUFFICES ASSUME AppInv, [Next]_vars
             PROVE  AppInv'
  OBVIOUS
<1>1. CASE NoWindow \/ InitSerialComm \/ InitReturns \/ LoopEnds \/ Exits \/ WinMain
  BY <1>1 DEF NoWindow, InitSerialComm, InitReturns, LoopEnds, Exits, WinMain, AppInv,
              Close, scriptVars, appVars, commVars
<1>2. CASE /\ app = "loop" /\ app' = "loop"
  BY <1>2 DEF AppInv
<1>3. CASE InitFails /\ UNCHANGED <<scriptVars, appVars>>
  BY <1>3 DEF InitFails, AppInv, Close, scriptVars, appVars
<1>4. CASE Machine
  BY <1>4 DEF Machine, NesTakes, AppInv, scriptVars, appVars
<1>5. CASE Program \/ Reset
  BY <1>5 DEF Program, Reset, NesBreaks, ResetButton, AppInv, commVars, scriptVars, appVars
<1>6. CASE Dies
  BY <1>6 DEF Dies, Close, AppInv
<1>7. CASE (Unplug \/ Replug) /\ UNCHANGED <<scriptVars, app, quit>>
  BY <1>7 DEF Unplug, Replug, AppInv, scriptVars
<1>8. CASE UNCHANGED vars
  BY <1>8 DEF vars, AppInv, scriptVars, appVars, commVars
\* Whatever else happens is part of a call, or starts one from the message loop.
<1>9. stack # <<>> => app = "loop"
  BY DEF AppInv
<1>10. CASE LoadBrowses \/ LoadOpens \/ LoadReads \/ LoadChecks \/ LoadSends \/ LoadCloses
  BY <1>2, <1>9, <1>10 DEF LoadBrowses, LoadOpens, LoadReads, LoadChecks, LoadSends,
                           LoadCloses, LoadIs, At, InTop, appVars
<1>11. CASE RawReceives \/ RawShows \/ DialogReturns \/ BoxReturns
  BY <1>2, <1>9, <1>11 DEF RawReceives, RawShows, DialogReturns, BoxReturns, At, InTop, appVars
<1>12. CASE RunStep /\ UNCHANGED appVars
  <2>1. InTop("run")
    BY <1>12 DEF RunStep, ReturnsNothing, LuaPrint, LuaEcho, LuaCpuMemRd, LuaCpuMemWr,
         LuaPpuMemRd, LuaPpuMemWr, LuaCpuRegRd, LuaCpuRegWr, LuaDbgHlt, LuaDbgRun,
         LuaWaitForHlt, WaitForHltAsks, WaitForHltReads, LuaLoadAsm, LoadAsmReads,
         LoadAsmFails, LoadAsmReturns, Receive, ExecuteScript, ScriptEnds, ScriptFails,
         NextScript, LastScript, Calling, At
  <2> QED
    BY <1>2, <1>9, <1>12, <2>1 DEF InTop, appVars
<1>13. CASE MenuExit \/ MenuLoadRom \/ MenuRawDebug \/ MenuTestScripts
  BY <1>2, <1>13 DEF MenuExit, MenuLoadRom, MenuRawDebug, MenuTestScripts, MainEnabled, appVars
<1>14. (\E k : Live(k)) => app = "loop"
  <2>1. stack = <<>> => DOMAIN stack = {}
    OBVIOUS
  <2> QED
    BY <1>9, <2>1 DEF Live
<1>15. CASE \/ \E text \in Texts : RawSend(text)
            \/ RawDone
            \/ \E selected \in Selections : TestScriptsRun(selected)
            \/ TestScriptDlgDone /\ UNCHANGED appVars
  BY <1>2, <1>14, <1>15 DEF RawSend, RawDone, TestScriptsRun, TestScriptDlgRun,
                            TestScriptDlgDone, appVars
<1> QED
  BY <1>1, <1>3, <1>4, <1>5, <1>6, <1>7, <1>8, <1>10, <1>11, <1>12, <1>13, <1>15
     DEF Next, ProgramStep, UserStep, Fault, MenuTestScriptsCrashes

\* The inductive invariant holds in every state of every run.
LEMMA InvHolds == Init /\ [][Next]_vars => []IInv
<1>1. Init => IInv
  <2>1. <<>> \in Seq({}) /\ DOMAIN <<>> = {}
    OBVIOUS
  <2> QED
    BY <2>1 DEF Init, CommInit, ProtocolInit, ScriptInit, IInv, StackInv, AppInv,
                Sound, IsStack, Owns
<1>2. IInv /\ [Next]_vars => IInv'
  BY StackStep, AppStep DEF IInv
<1> QED
  BY <1>1, <1>2, PTL

\* NesDbg holds the files and the port that its calls use and no others, however
\* calls are nested, whatever fails in them, and however it ends.
THEOREM HoldsWhatItUses == Spec => []Released
<1>1. IInv => Released
  <2> SUFFICES ASSUME IInv PROVE Released
    OBVIOUS
  <2>1. files = Held
    BY DEF IInv, StackInv, Sound, Owns, Held
  <2>2. app = "off" => stack = <<>> /\ port = "closed" /\ out = <<>> /\ Written
    BY DEF IInv, AppInv, Written
  <2> QED
    BY <2>1, <2>2 DEF Released
<1> QED
  BY <1>1, InvHolds, PTL DEF Spec

\* No two calls under way have the same file open: CreateFile gives it to one.
THEOREM FilesAreExclusive ==
    Spec => [](\A i, j \in DOMAIN stack :
                   i # j => HeldBy(stack[i]) \cap HeldBy(stack[j]) = {})
<1>1. IInv => \A i, j \in DOMAIN stack :
                  i # j => HeldBy(stack[i]) \cap HeldBy(stack[j]) = {}
  BY DEF IInv, StackInv, Sound, Owns
<1> QED
  BY <1>1, InvHolds, PTL DEF Spec
-----------------------------------------------------------------------------
(* The tally.  A run counts its scripts, and the dialog shows what the run  *)
(* on top has counted; runs are started behind the boxes of runs, in a      *)
(* dialog that may not be the one they come from.                           *)
Verdicts == {PASS, FAIL, ERROR}
Kinds    == {"box", "load", "raw", "send", "scripts", "run"}
Tallies  == [1 .. 3 -> Nat]

\* A run's scripts are those counted, those left and the one under way.
Counts(f) ==
    /\ {"at", "left", "of", "tally", "result", "below"} \subseteq DOMAIN f
    /\ f.left \in Seq(DOMAIN Scripts) /\ f.of \in Nat /\ f.tally \in Tallies
    /\ f.result \in {PASS, FAIL} /\ f.below \in Verdicts
    /\ f.of = Done(f) + Len(f.left) + (IF f.at = "next" THEN 0 ELSE 1)

IsCall(f) ==
    /\ "kind" \in DOMAIN f /\ f.kind \in Kinds
    /\ f.kind = "scripts" => "ended" \in DOMAIN f
    /\ f.kind = "run" => Counts(f)

\* Only the run on top is between two scripts.
BelowBusy(f) == f.kind = "run" => f.at # "next"
CallsOK(s) ==
    /\ \A i \in DOMAIN s : IsCall(s[i])
    /\ \A i \in DOMAIN s : i # 1 => BelowBusy(s[i])

LiveIn(s) == \E i \in DOMAIN s : s[i].kind = "scripts" /\ ~s[i].ended
RunIn(s)  == \E i \in DOMAIN s : s[i].kind = "run"

\* Where a run is about to end, its tally is shown; and that of the last, if none is left.
ShownOK(s, sh) ==
    /\ s # <<>> /\ s[1].kind = "run" /\ s[1].at = "next" /\ s[1].left = <<>> /\ LiveIn(s)
          => sh.tally = s[1].tally
    /\ LiveIn(s) /\ ~RunIn(s)
          => sh.done = sh.of /\ sh.tally[1] + sh.tally[2] + sh.tally[3] = sh.of

Boards == [done : Nat, of : Nat, tally : Tallies]
TallyInv ==
    /\ CallsOK(stack) /\ ShownOK(stack, shown)
    /\ shown \in Boards /\ lua \in Verdicts

LEMMA IsLive == Live("scripts") <=> LiveIn(stack)
  BY DEF Live, LiveIn

\* The call on top takes another form.
LEMMA GoCalls ==
    ASSUME NEW S, NEW s \in Seq(S), s # <<>>, CallsOK(s),
           NEW f, IsCall(f), f.kind = s[1].kind, f.kind # "scripts"
    PROVE  LET t == <<f>> \o Tail(s)
           IN  /\ t # <<>> /\ t[1] = f /\ t \in Seq(S \cup {f})
               /\ CallsOK(t) /\ (LiveIn(t) <=> LiveIn(s)) /\ (RunIn(t) <=> RunIn(s))
<1> DEFINE t == <<f>> \o Tail(s)
<1>1. /\ t \in Seq(S \cup {f}) /\ DOMAIN t = DOMAIN s /\ 1 \in DOMAIN s
      /\ t[1] = f /\ \A i \in DOMAIN s : i # 1 => t[i] = s[i]
  BY NewHead
<1>2. t # <<>>
  BY <1>1
<1> HIDE DEF t
<1>3. CallsOK(t)
  BY <1>1 DEF CallsOK
<1>4. LiveIn(t) <=> LiveIn(s)
  BY <1>1 DEF LiveIn
<1>5. RunIn(t) <=> RunIn(s)
  BY <1>1 DEF RunIn
<1> QED
  BY <1>1, <1>2, <1>3, <1>4, <1>5 DEF t

\* The calls t are the calls s and the new call f.
PushedOn(t, s, f) ==
    /\ t # <<>> /\ t[1] = f /\ CallsOK(t)
    /\ LiveIn(t) <=> LiveIn(s) \/ (f.kind = "scripts" /\ ~f.ended)
    /\ RunIn(t) <=> RunIn(s) \/ f.kind = "run"

\* A call starts above one that is not between two scripts.
LEMMA PushCalls ==
    ASSUME NEW S, NEW s \in Seq(S), CallsOK(s), s # <<>> => BelowBusy(s[1]), NEW f, IsCall(f)
    PROVE  PushedOn(<<f>> \o s, s, f)
<1> DEFINE t == <<f>> \o s
<1>1. /\ t \in Seq(S \cup {f}) /\ DOMAIN s = 1 .. Len(s) /\ Len(s) \in Nat
      /\ DOMAIN t = 1 .. Len(s) + 1
      /\ t[1] = f /\ \A i \in 1 .. Len(s) : t[i + 1] = s[i]
  BY Pushed
<1>2. t # <<>>
  BY <1>1
<1> HIDE DEF t
<1>3. \A j \in DOMAIN t : j = 1 \/ (j - 1 \in DOMAIN s /\ t[j] = s[j - 1])
  BY <1>1
<1>4. \A i \in DOMAIN s : i + 1 \in DOMAIN t /\ t[i + 1] = s[i]
  BY <1>1
<1>5. \A i \in DOMAIN s : BelowBusy(s[i])
  BY <1>1 DEF CallsOK
<1>6. CallsOK(t)
  <2>1. \A j \in DOMAIN t : IsCall(t[j])
    BY <1>1, <1>3 DEF CallsOK
  <2>2. \A j \in DOMAIN t : j # 1 => BelowBusy(t[j])
    BY <1>3, <1>5
  <2> QED
    BY <2>1, <2>2 DEF CallsOK
<1>7. 1 \in DOMAIN t
  BY <1>1
<1>8. LiveIn(t) <=> LiveIn(s) \/ (f.kind = "scripts" /\ ~f.ended)
  <2>1. LiveIn(t) => LiveIn(s) \/ (f.kind = "scripts" /\ ~f.ended)
    BY <1>1, <1>3 DEF LiveIn
  <2>2. LiveIn(s) => LiveIn(t)
    BY <1>4 DEF LiveIn
  <2>3. f.kind = "scripts" /\ ~f.ended => LiveIn(t)
    BY <1>1, <1>7 DEF LiveIn
  <2> QED
    BY <2>1, <2>2, <2>3
<1>9. RunIn(t) <=> RunIn(s) \/ f.kind = "run"
  <2>1. RunIn(t) => RunIn(s) \/ f.kind = "run"
    BY <1>1, <1>3 DEF RunIn
  <2>2. RunIn(s) => RunIn(t)
    BY <1>4 DEF RunIn
  <2>3. f.kind = "run" => RunIn(t)
    BY <1>1, <1>7 DEF RunIn
  <2> QED
    BY <2>1, <2>2, <2>3
<1> QED
  BY <1>1, <1>2, <1>6, <1>8, <1>9 DEF PushedOn, t

\* The call on top is back.
LEMMA PopCalls ==
    ASSUME NEW S, NEW s \in Seq(S), s # <<>>, CallsOK(s)
    PROVE  LET t == Tail(s)
           IN  /\ CallsOK(t) /\ (t # <<>> => BelowBusy(t[1]))
               /\ LiveIn(s) <=> LiveIn(t) \/ (s[1].kind = "scripts" /\ ~s[1].ended)
               /\ RunIn(s) <=> RunIn(t) \/ s[1].kind = "run"
<1> DEFINE t == Tail(s)
<1>1. /\ t \in Seq(S) /\ DOMAIN s = 1 .. Len(s) /\ Len(s) \in Nat /\ Len(s) >= 1
      /\ DOMAIN t = 1 .. Len(s) - 1 /\ \A i \in 2 .. Len(s) : t[i - 1] = s[i]
  BY Popped
<1>2. t # <<>> => 1 \in DOMAIN t
  OBVIOUS
<1> HIDE DEF t
<1>3. \A i \in DOMAIN t : i + 1 \in DOMAIN s /\ i + 1 # 1 /\ t[i] = s[i + 1]
  BY <1>1
<1>4. \A i \in DOMAIN s : i = 1 \/ (i - 1 \in DOMAIN t /\ t[i - 1] = s[i])
  BY <1>1
<1>5. \A i \in DOMAIN t : IsCall(t[i]) /\ BelowBusy(t[i])
  BY <1>3 DEF CallsOK
<1>6. CallsOK(t)
  BY <1>5 DEF CallsOK
<1>7. 1 \in DOMAIN s
  BY <1>1
<1>8. LiveIn(s) <=> LiveIn(t) \/ (s[1].kind = "scripts" /\ ~s[1].ended)
  <2>1. LiveIn(s) => LiveIn(t) \/ (s[1].kind = "scripts" /\ ~s[1].ended)
    BY <1>4 DEF LiveIn
  <2>2. LiveIn(t) => LiveIn(s)
    BY <1>3 DEF LiveIn
  <2>3. s[1].kind = "scripts" /\ ~s[1].ended => LiveIn(s)
    BY <1>7 DEF LiveIn
  <2> QED
    BY <2>1, <2>2, <2>3
<1>9. RunIn(s) <=> RunIn(t) \/ s[1].kind = "run"
  <2>1. RunIn(s) => RunIn(t) \/ s[1].kind = "run"
    BY <1>4 DEF RunIn
  <2>2. RunIn(t) => RunIn(s)
    BY <1>3 DEF RunIn
  <2>3. s[1].kind = "run" => RunIn(s)
    BY <1>7 DEF RunIn
  <2> QED
    BY <2>1, <2>2, <2>3
<1> QED
  BY <1>2, <1>5, <1>6, <1>8, <1>9 DEF t

\* A box in front of the call on top.
LEMMA BoxCalls ==
    ASSUME NEW S, NEW s \in Seq(S), s # <<>>, CallsOK(s),
           NEW f, IsCall(f), BelowBusy(f), f.kind = s[1].kind, f.kind # "scripts"
    PROVE  LET t == <<Box, f>> \o Tail(s)
           IN  /\ t # <<>> /\ t[1] = Box
               /\ CallsOK(t) /\ (LiveIn(t) <=> LiveIn(s)) /\ (RunIn(t) <=> RunIn(s))
<1> DEFINE r == <<f>> \o Tail(s)
<1>1. /\ r # <<>> /\ r[1] = f /\ r \in Seq(S \cup {f})
      /\ CallsOK(r) /\ (LiveIn(r) <=> LiveIn(s)) /\ (RunIn(r) <=> RunIn(s))
  BY GoCalls
<1>2. <<Box>> \o r = <<Box, f>> \o Tail(s)
  OBVIOUS
<1>3. IsCall(Box) /\ Box.kind = "box"
  BY DEF Box, IsCall, Kinds
<1> HIDE DEF r
<1> DEFINE t == <<Box>> \o r
<1>4. PushedOn(t, r, Box)
  <2>1. r # <<>> => BelowBusy(r[1])
    BY <1>1
  <2> QED
    BY <1>1, <1>3, <2>1, PushCalls
<1> QED
  BY <1>1, <1>2, <1>3, <1>4 DEF PushedOn

\* A call starts, from one that lets messages through.
LEMMA StartCalls ==
    ASSUME StackInv, CallsOK(stack), NEW f, IsCall(f), Start(f)
    PROVE  /\ stack' # <<>> /\ stack'[1] = f /\ CallsOK(stack')
           /\ LiveIn(stack') <=> LiveIn(stack) \/ (f.kind = "scripts" /\ ~f.ended)
           /\ RunIn(stack') <=> RunIn(stack) \/ f.kind = "run"
<1> DEFINE e(i) == IF stack[i].kind = "run" THEN [stack[i] EXCEPT !.fair = FALSE]
                   ELSE stack[i]
           t == [i \in DOMAIN stack |-> e(i)]
<1>1. PICK S : stack \in Seq(S)
  BY DEF StackInv, Sound, IsStack
<1>2. t \in Seq({e(i) : i \in DOMAIN stack}) /\ DOMAIN t = DOMAIN stack
  BY <1>1
<1>3. \A i \in DOMAIN stack :
          /\ IsCall(t[i]) /\ t[i].kind = stack[i].kind
          /\ t[i].kind = "scripts" => t[i] = stack[i]
          /\ BelowBusy(stack[i]) => BelowBusy(t[i])
  <2> SUFFICES ASSUME NEW i \in DOMAIN stack
               PROVE  /\ IsCall(e(i)) /\ e(i).kind = stack[i].kind
                      /\ e(i).kind = "scripts" => e(i) = stack[i]
                      /\ BelowBusy(stack[i]) => BelowBusy(e(i))
    OBVIOUS
  <2>1. IsCall(stack[i])
    BY DEF CallsOK
  <2>2. CASE stack[i].kind = "run"
    <3> DEFINE g == [stack[i] EXCEPT !.fair = FALSE]
    <3>1. /\ DOMAIN g = DOMAIN stack[i] /\ g.kind = "run"
          /\ g.at = stack[i].at /\ g.left = stack[i].left /\ g.of = stack[i].of
          /\ g.tally = stack[i].tally /\ g.result = stack[i].result /\ g.below = stack[i].below
      BY <2>1, <2>2 DEF IsCall, Counts
    <3>2. Counts(g) /\ e(i) = g
      BY <2>1, <2>2, <3>1 DEF IsCall, Counts, Done
    <3> HIDE DEF g
    <3> QED
      BY <2>1, <2>2, <3>1, <3>2 DEF IsCall, BelowBusy
  <2>3. CASE stack[i].kind # "run"
    BY <2>1, <2>3
  <2> QED
    BY <2>2, <2>3
<1> HIDE DEF t
<1>4. CallsOK(t) /\ (LiveIn(t) <=> LiveIn(stack)) /\ (RunIn(t) <=> RunIn(stack))
  <2>1. CallsOK(t)
    BY <1>2, <1>3 DEF CallsOK
  <2>2. LiveIn(t) <=> LiveIn(stack)
    BY <1>2, <1>3 DEF LiveIn
  <2>3. RunIn(t) <=> RunIn(stack)
    BY <1>2, <1>3 DEF RunIn
  <2> QED
    BY <2>1, <2>2, <2>3
<1>5. t # <<>> => BelowBusy(t[1])
  <2>1. t # <<>> => stack # <<>> /\ 1 \in DOMAIN stack /\ Top = stack[1]
    BY <1>1, <1>2 DEF Top
  <2>2. Pumping
    BY DEF Start
  <2>3. stack # <<>> => Top.kind # "run"
    BY <2>2 DEF Pumping, InTop, At
  <2> QED
    BY <1>3, <2>1, <2>3 DEF BelowBusy
<1>6. stack' = <<f>> \o t
  BY DEF Start, t
<1>7. PICK T : t \in Seq(T)
  BY <1>2
<1>8. t \in Seq(T) /\ CallsOK(t) /\ (t # <<>> => BelowBusy(t[1])) /\ IsCall(f)
  BY <1>4, <1>5, <1>7
<1> DEFINE u == <<f>> \o t
<1>9. PushedOn(u, t, f)
  BY <1>8, PushCalls
<1> HIDE DEF u
<1>10. stack' = u
  BY <1>6 DEF u
<1> QED
  BY <1>4, <1>9, <1>10 DEF PushedOn

\* The call on top, if there is one, is one of the stack.
LEMMA TopIsCall ==
    ASSUME StackInv, TallyInv, stack # <<>>
    PROVE  /\ Top = stack[1] /\ IsCall(Top)
           /\ \E S : stack \in Seq(S)
<1>1. PICK S : stack \in Seq(S)
  BY DEF StackInv, Sound, IsStack
<1>2. Top = stack[1] /\ 1 \in DOMAIN stack
  BY <1>1 DEF Top
<1> QED
  BY <1>1, <1>2 DEF TallyInv, CallsOK

LEMMA GoTally ==
    ASSUME StackInv, TallyInv, stack # <<>>, NEW f, IsCall(f), BelowBusy(f),
           f.kind = Top.kind, f.kind # "scripts", Go(f) \/ BoxOver(f),
           UNCHANGED shown, lua' \in Verdicts
    PROVE  TallyInv'
<1>1. PICK S : stack \in Seq(S)
  BY TopIsCall
<1>2. f.kind = stack[1].kind /\ CallsOK(stack)
  BY TopIsCall DEF TallyInv
<1>3. \/ stack' = <<f>> \o Tail(stack)
      \/ stack' = <<Box, f>> \o Tail(stack)
  BY DEF Go, BoxOver
<1>4. /\ stack' # <<>> /\ stack'[1] \in {f, Box}
      /\ CallsOK(stack') /\ (LiveIn(stack') <=> LiveIn(stack)) /\ (RunIn(stack') <=> RunIn(stack))
  <2>1. CASE stack' = <<f>> \o Tail(stack)
    <3> DEFINE t == <<f>> \o Tail(stack)
    <3>1. stack \in Seq(S) /\ f.kind = stack[1].kind /\ CallsOK(stack)
      BY <1>1, <1>2
    <3>2. t # <<>> /\ t[1] = f /\ CallsOK(t) /\ (LiveIn(t) <=> LiveIn(stack))
          /\ (RunIn(t) <=> RunIn(stack))
      BY <3>1, GoCalls
    <3> HIDE DEF t
    <3>3. stack' = t
      BY <2>1 DEF t
    <3> QED
      BY <3>2, <3>3
  <2>2. CASE stack' = <<Box, f>> \o Tail(stack)
    BY <1>1, <1>2, <2>2, BoxCalls
  <2> QED
    BY <1>3, <2>1, <2>2
<1>5. BelowBusy(stack'[1])
  BY <1>4 DEF Box, BelowBusy
<1>6. ShownOK(stack', shown')
  BY <1>4, <1>5 DEF TallyInv, ShownOK, BelowBusy
<1> QED
  BY <1>4, <1>6 DEF TallyInv

LEMMA ReturnTally ==
    ASSUME StackInv, TallyInv, stack # <<>>, Return, Top.kind # "run",
           Top.kind = "scripts" => Top.ended, UNCHANGED <<shown, lua>>
    PROVE  TallyInv'
<1>1. PICK S : stack \in Seq(S)
  BY TopIsCall
<1>2. Top = stack[1] /\ CallsOK(stack) /\ stack' = Tail(stack)
  BY TopIsCall DEF TallyInv, Return
<1>3. /\ CallsOK(stack') /\ (stack' # <<>> => BelowBusy(stack'[1]))
      /\ (LiveIn(stack) <=> LiveIn(stack')) /\ (RunIn(stack) <=> RunIn(stack'))
  BY <1>1, <1>2, PopCalls
<1>4. ShownOK(stack', shown')
  BY <1>3 DEF TallyInv, ShownOK, BelowBusy
<1> QED
  BY <1>3, <1>4 DEF TallyInv

\* Start of anything but a run and its dialog.
LEMMA StartTally ==
    ASSUME StackInv, TallyInv, NEW f, IsCall(f), f.kind \notin {"run", "scripts"}, Start(f),
           UNCHANGED <<shown, lua>>
    PROVE  TallyInv'
<1>1. /\ stack' # <<>> /\ stack'[1] = f /\ CallsOK(stack')
      /\ (LiveIn(stack') <=> LiveIn(stack)) /\ (RunIn(stack') <=> RunIn(stack))
  BY StartCalls DEF TallyInv
<1>2. ShownOK(stack', shown')
  BY <1>1 DEF TallyInv, ShownOK
<1> QED
  BY <1>1, <1>2 DEF TallyInv

LEMMA ZeroTally == <<0, 0, 0>> \in Tallies /\ DOMAIN <<0, 0, 0>> = 1 .. 3
  BY DEF Tallies

LEMMA DialogTally ==
    ASSUME StackInv, TallyInv, TestScriptDlgInit, UNCHANGED lua
    PROVE  TallyInv'
<1> DEFINE f == [kind |-> "scripts", ended |-> FALSE]
           b == [done |-> 0, of |-> 0, tally |-> <<0, 0, 0>>]
<1>1. Start(f) /\ shown' = b
  BY DEF TestScriptDlgInit
<1>2. IsCall(f) /\ f.kind = "scripts"
  BY DEF IsCall, Kinds
<1>3. b \in Boards /\ b.done = b.of /\ b.tally[1] + b.tally[2] + b.tally[3] = b.of
  BY ZeroTally DEF Boards
<1> HIDE DEF f, b
<1>4. stack' # <<>> /\ stack'[1] = f /\ CallsOK(stack')
  BY <1>1, <1>2, StartCalls DEF TallyInv
<1>5. ShownOK(stack', shown')
  BY <1>1, <1>2, <1>3, <1>4 DEF ShownOK
<1> QED
  BY <1>1, <1>3, <1>4, <1>5 DEF TallyInv

\* A run starts with nothing counted.
LEMMA RunTally ==
    ASSUME StackInv, TallyInv, NEW selected \in Selections, TestScriptDlgRun(selected)
    PROVE  TallyInv'
<1>1. CASE selected = <<>>
  <2>1. IsCall(Box) /\ Box.kind \notin {"run", "scripts"}
    BY DEF Box, IsCall, Kinds
  <2> QED
    BY <1>1, <2>1, StartTally DEF TestScriptDlgRun
<1>2. CASE selected # <<>>
  <2> DEFINE f == [kind |-> "run", at |-> "next", left |-> selected, of |-> Len(selected),
                   tally |-> <<0, 0, 0>>, script |-> Head(selected), pc |-> 1,
                   result |-> PASS, verdict |-> NoVerdict, n |-> 0, held |-> {},
                   below |-> 0, fair |-> FALSE]
  <2>1. Start(f) /\ shown' = [shown EXCEPT !.tally = <<0, 0, 0>>] /\ UNCHANGED lua
    BY <1>2 DEF TestScriptDlgRun
  <2>2. selected \in Seq(DOMAIN Scripts) /\ Len(selected) \in Nat
    BY ScriptsAssumption
  <2>3. Counts(f)
    <3>1. Done(f) = 0
      BY DEF Done
    <3> QED
      BY <2>2, <3>1, ZeroTally DEF Counts, PASS, FAIL, ERROR, Verdicts
  <2>4. IsCall(f) /\ f.kind = "run" /\ f.left # <<>>
    BY <1>2, <2>3 DEF IsCall, Kinds
  <2> HIDE DEF f
  <2>5. stack' # <<>> /\ stack'[1] = f /\ CallsOK(stack') /\ RunIn(stack')
    BY <2>1, <2>4, StartCalls DEF TallyInv
  <2>6. ShownOK(stack', shown')
    BY <2>4, <2>5 DEF ShownOK
  <2>7. shown' \in Boards
    BY <2>1, ZeroTally DEF TallyInv, Boards
  <2> QED
    BY <2>1, <2>5, <2>6, <2>7 DEF TallyInv
<1> QED
  BY <1>1, <1>2

LEMMA EndTally ==
    ASSUME StackInv, TallyInv, NEW k \in {"raw", "scripts"}, EndDialog(k),
           UNCHANGED <<shown, lua>>
    PROVE  TallyInv'
<1> DEFINE e(i) == IF stack[i].kind = k THEN [stack[i] EXCEPT !.ended = TRUE]
                   ELSE stack[i]
           t == [i \in DOMAIN stack |-> e(i)]
<1>1. PICK S : stack \in Seq(S)
  BY DEF StackInv, Sound, IsStack
<1>2. DOMAIN t = DOMAIN stack /\ stack' = t /\ CallsOK(stack)
  BY DEF EndDialog, TallyInv
<1>3. \A i \in DOMAIN stack :
          /\ IsCall(t[i]) /\ t[i].kind = stack[i].kind
          /\ t[i].kind = "scripts" => t[i].ended = TRUE \/ t[i] = stack[i]
          /\ t[i].kind = "run" => t[i] = stack[i]
  <2> SUFFICES ASSUME NEW i \in DOMAIN stack
               PROVE  /\ IsCall(e(i)) /\ e(i).kind = stack[i].kind
                      /\ e(i).kind = "scripts" => e(i).ended = TRUE \/ e(i) = stack[i]
                      /\ e(i).kind = "run" => e(i) = stack[i]
    OBVIOUS
  <2>1. IsCall(stack[i])
    BY <1>2 DEF CallsOK
  <2> QED
    BY <2>1 DEF IsCall
<1>4. t # <<>> => 1 \in DOMAIN stack /\ stack # <<>>
  BY <1>1, <1>2
<1> HIDE DEF t
<1>5. CallsOK(t)
  BY <1>2, <1>3 DEF CallsOK, BelowBusy
<1>6. LiveIn(t) => LiveIn(stack)
  BY <1>2, <1>3 DEF LiveIn
<1>7. RunIn(t) <=> RunIn(stack)
  BY <1>2, <1>3 DEF RunIn
<1>8. t # <<>> => t[1].kind = stack[1].kind /\ (t[1].kind = "run" => t[1] = stack[1])
  BY <1>3, <1>4
<1>9. ShownOK(t, shown)
  BY <1>4, <1>6, <1>7, <1>8 DEF TallyInv, ShownOK
<1> QED
  BY <1>2, <1>5, <1>9 DEF TallyInv

\* A run goes on with its script: its counts stay.
Runs(g) ==
    /\ g.kind = "run" /\ DOMAIN g = DOMAIN Top /\ g.at # "next"
    /\ g.left = Top.left /\ g.of = Top.of /\ g.tally = Top.tally
    /\ g.result \in {PASS, FAIL} /\ g.below \in Verdicts

LEMMA RunsTally ==
    ASSUME StackInv, TallyInv, InTop("run"), Top.at # "next", NEW g, Runs(g),
           Go(g) \/ BoxOver(g), UNCHANGED shown, lua' \in Verdicts
    PROVE  TallyInv'
<1>1. stack # <<>> /\ Top.kind = "run" /\ Counts(Top) /\ "kind" \in DOMAIN Top
  BY TopIsCall DEF InTop, IsCall
<1>2. Counts(g)
  BY <1>1 DEF Counts, Runs, Done
<1>3. IsCall(g) /\ BelowBusy(g) /\ g.kind = Top.kind /\ g.kind # "scripts"
  BY <1>1, <1>2 DEF IsCall, BelowBusy, Runs, Kinds
<1> QED
  BY <1>1, <1>3, GoTally

LEMMA ReturnedRuns ==
    ASSUME StackInv, TallyInv, InTop("run"), NEW v
    PROVE  /\ Runs(Returned(v))
           /\ Runs([Returned(v) EXCEPT !.held = {}, !.n = 0])
<1>1. Top.kind = "run" /\ Counts(Top) /\ "kind" \in DOMAIN Top
  BY TopIsCall DEF InTop, IsCall
<1>2. Runs(Returned(v))
  BY <1>1 DEF Counts, Runs, Returned, PASS, FAIL
<1>3. Runs([Returned(v) EXCEPT !.held = {}, !.n = 0])
  <2> DEFINE f == Returned(v)
             g == [f EXCEPT !.held = {}, !.n = 0]
  <2> HIDE DEF f
  <2>1. /\ DOMAIN g = DOMAIN f
        /\ g.kind = f.kind /\ g.at = f.at /\ g.left = f.left /\ g.of = f.of
        /\ g.tally = f.tally /\ g.result = f.result /\ g.below = f.below
    BY <1>1, <1>2 DEF Runs, Counts, f
  <2> QED
    BY <1>2, <2>1 DEF Runs, f
<1> QED
  BY <1>2, <1>3

\* Everything a script does but to end.
LEMMA ScriptTally ==
    ASSUME StackInv, TallyInv,
           \/ ReturnsNothing \/ LuaPrint \/ LuaEcho \/ LuaCpuMemRd \/ LuaCpuMemWr
           \/ LuaPpuMemRd \/ LuaPpuMemWr \/ LuaCpuRegRd \/ LuaCpuRegWr \/ LuaDbgHlt
           \/ LuaDbgRun \/ LuaWaitForHlt \/ Receive
    PROVE  TallyInv'
<1>1. InTop("run") /\ Top.at # "next" /\ UNCHANGED <<lua, shown>>
  BY DEF ReturnsNothing, LuaPrint, LuaEcho, LuaCpuMemRd, LuaCpuMemWr,
         LuaPpuMemRd, LuaPpuMemWr, LuaCpuRegRd, LuaCpuRegWr, LuaDbgHlt, LuaDbgRun,
         LuaWaitForHlt, WaitForHltAsks, WaitForHltReads, Receive, Calling, At, Tell, Ask
<1>2. Top.kind = "run" /\ Counts(Top) /\ "kind" \in DOMAIN Top
  BY <1>1, TopIsCall DEF InTop, IsCall
<1>3. ASSUME NEW g, Runs(g), Go(g) \/ BoxOver(g)
      PROVE  TallyInv'
  BY <1>1, <1>3, RunsTally DEF TallyInv
<1>4. \A v : Runs(Returned(v))
  BY <1>1, ReturnedRuns
<1>5. ASSUME NEW a \in {"error", "receive", "halted?", "wait"}, NEW x
      PROVE  Runs([Top EXCEPT !.at = a, !.n = x]) /\ Runs([Top EXCEPT !.at = a])
  BY <1>2 DEF Counts, Runs
<1>6. ASSUME NEW p, Tell(p) \/ Ask(p)
      PROVE  TallyInv'
  BY <1>3, <1>4, <1>5, <1>6 DEF Tell, Ask
<1>7. CASE \/ LuaEcho \/ LuaCpuMemRd \/ LuaCpuMemWr \/ LuaPpuMemRd \/ LuaPpuMemWr
           \/ LuaCpuRegRd \/ LuaCpuRegWr \/ LuaDbgHlt \/ LuaDbgRun
  BY <1>6, <1>7 DEF LuaEcho, LuaCpuMemRd, LuaCpuMemWr, LuaPpuMemRd, LuaPpuMemWr,
                    LuaCpuRegRd, LuaCpuRegWr, LuaDbgHlt, LuaDbgRun
<1>8. CASE ReturnsNothing
  <2>1. Go(Returned(<<>>)) \/ Go([Top EXCEPT !.at = "error"])
    BY <1>8 DEF ReturnsNothing
  <2> QED
    BY <2>1, <1>3, <1>4, <1>5
<1>9. CASE LuaPrint \/ Receive
  BY <1>3, <1>4, <1>9 DEF LuaPrint, Receive
<1>10. CASE LuaWaitForHlt
  <2>1. CASE WaitForHltAsks
    BY <1>3, <1>5, <2>1 DEF WaitForHltAsks
  <2>2. CASE WaitForHltReads
    <3>1. Go([Top EXCEPT !.at = "wait", !.n = 0]) \/ Go(Returned(<<>>))
      BY <2>2 DEF WaitForHltReads
    <3> QED
      BY <3>1, <1>3, <1>4, <1>5
  <2> QED
    BY <1>10, <2>1, <2>2 DEF LuaWaitForHlt
<1> QED
  BY <1>7, <1>8, <1>9, <1>10

LEMMA LoadAsmTally ==
    ASSUME StackInv, TallyInv, LuaLoadAsm
    PROVE  TallyInv'
<1>1. InTop("run") /\ Top.at # "next" /\ UNCHANGED shown
  BY DEF LuaLoadAsm, LoadAsmReads, LoadAsmFails, LoadAsmReturns, Calling, At
<1>2. Top.kind = "run" /\ Counts(Top) /\ "kind" \in DOMAIN Top /\ lua \in Verdicts
  BY <1>1, TopIsCall DEF InTop, IsCall, TallyInv
<1>3. ASSUME NEW startPc, NEW held, NEW g,
             g \in {Loading(startPc, held), [Loading(startPc, held) EXCEPT !.fair = FALSE]}
      PROVE  Runs(g)
  <2> DEFINE f == Loading(startPc, held)
  <2>1. Runs(f)
    BY <1>2 DEF Loading, Runs, Counts
  <2>2. Runs([f EXCEPT !.fair = FALSE])
    <3> DEFINE e == [f EXCEPT !.fair = FALSE]
    <3> HIDE DEF f
    <3>1. /\ DOMAIN e = DOMAIN f
          /\ e.kind = f.kind /\ e.at = f.at /\ e.left = f.left /\ e.of = f.of
          /\ e.tally = f.tally /\ e.result = f.result /\ e.below = f.below
      BY <1>2, <2>1 DEF Runs, Counts
    <3> QED
      BY <2>1, <3>1 DEF Runs
  <2> QED
    BY <1>3, <2>1, <2>2
<1>4. \E g : Runs(g) /\ (Go(g) \/ BoxOver(g))
  <2>1. CASE LoadAsmReads
    <3>1. \E startPc, held : \E g \in {Loading(startPc, held), [Loading(startPc, held) EXCEPT !.fair = FALSE]} :
              Go(g) \/ BoxOver(g)
      BY <2>1 DEF LoadAsmReads
    <3> QED
      BY <1>3, <3>1
  <2>2. CASE LoadAsmFails
    <3>1. BoxOver([Loading(0, {}) EXCEPT !.fair = FALSE])
      BY <2>2 DEF LoadAsmFails
    <3> QED
      BY <1>3, <3>1
  <2>3. CASE LoadAsmReturns
    <3>1. Go([Returned(Word(Top.n)) EXCEPT !.held = {}, !.n = 0])
      BY <2>3 DEF LoadAsmReturns
    <3> QED
      BY <1>1, <3>1, ReturnedRuns
  <2> QED
    BY <2>1, <2>2, <2>3 DEF LuaLoadAsm
<1>5. lua' \in Verdicts
  BY <1>2 DEF LuaLoadAsm, LoadAsmReads, LoadAsmFails, LoadAsmReturns, Verdicts, PASS, Counts
<1> QED
  BY <1>1, <1>4, <1>5, RunsTally

\* A script that ends is counted, under its verdict.
LEMMA VerdictTally ==
    ASSUME StackInv, TallyInv, ExecuteScript
    PROVE  TallyInv'
<1>1. InTop("run") /\ Top.at # "next" /\ stack # <<>>
  BY DEF ExecuteScript, ScriptEnds, ScriptFails, At, InTop
<1>2. Top.kind = "run" /\ Counts(Top) /\ "kind" \in DOMAIN Top /\ lua \in Verdicts
  BY <1>1, TopIsCall DEF InTop, IsCall, TallyInv
<1>3. PICK v \in Verdicts : Verdict(v) /\ lua' \in Verdicts
  BY <1>2 DEF ExecuteScript, ScriptEnds, ScriptFails, Verdicts, Counts, PASS, FAIL, ERROR
<1> DEFINE f == [Top EXCEPT !.at = "next", !.verdict = v, !.tally[v + 1] = @ + 1]
<1>4. Go(f) /\ shown' = SetResults(f)
  BY <1>3 DEF Verdict
<1>5. /\ DOMAIN f = DOMAIN Top /\ f.kind = "run" /\ f.at = "next"
      /\ f.left = Top.left /\ f.of = Top.of /\ f.result = Top.result /\ f.below = Top.below
      /\ f.tally = [Top.tally EXCEPT ![v + 1] = @ + 1]
  BY <1>2 DEF Counts
<1> HIDE DEF f
<1>6. f.tally \in Tallies /\ Done(f) = Done(Top) + 1
  <2> DEFINE a == Top.tally
  <2>1. v \in {0, 1, 2} /\ a \in [1 .. 3 -> Nat]
    BY <1>2 DEF Verdicts, PASS, FAIL, ERROR, Counts, Tallies
  <2> HIDE DEF a
  <2>2. [a EXCEPT ![v + 1] = @ + 1] \in [1 .. 3 -> Nat]
    BY <2>1
  <2>3. f.tally[1] + f.tally[2] + f.tally[3] = a[1] + a[2] + a[3] + 1
    <3>1. f.tally = [a EXCEPT ![v + 1] = @ + 1]
      BY <1>5 DEF a
    <3>2. CASE v = 0
      BY <2>1, <3>1, <3>2
    <3>3. CASE v = 1
      BY <2>1, <3>1, <3>3
    <3>4. CASE v = 2
      BY <2>1, <3>1, <3>4
    <3> QED
      BY <2>1, <3>2, <3>3, <3>4
  <2> QED
    BY <1>5, <2>2, <2>3 DEF Done, Tallies, a
<1>7. Counts(f)
  <2>1. Done(Top) \in Nat /\ Len(Top.left) \in Nat
    BY <1>2 DEF Counts, Done, Tallies
  <2> QED
    BY <1>1, <1>2, <1>5, <1>6, <2>1 DEF Counts
<1>8. IsCall(f) /\ f.kind = Top.kind /\ f.kind # "scripts"
  BY <1>2, <1>5, <1>7 DEF IsCall, Kinds
<1>9. PICK S : stack \in Seq(S)
  BY <1>1, TopIsCall
<1>10. /\ stack'[1] = f /\ CallsOK(stack')
       /\ (LiveIn(stack') <=> LiveIn(stack)) /\ RunIn(stack')
  <2>1. stack' = <<f>> \o Tail(stack) /\ Top = stack[1] /\ CallsOK(stack)
    BY <1>1, <1>4, TopIsCall DEF Go, TallyInv
  <2>2. 1 \in DOMAIN stack
    BY <1>1, <1>9
  <2>3. RunIn(stack)
    BY <1>2, <2>1, <2>2 DEF RunIn
  <2>4. f.kind = stack[1].kind /\ f.kind # "scripts"
    BY <1>8, <2>1
  <2> DEFINE t == <<f>> \o Tail(stack)
  <2>5. stack \in Seq(S) /\ stack # <<>> /\ CallsOK(stack) /\ IsCall(f)
        /\ f.kind = stack[1].kind /\ f.kind # "scripts"
    BY <1>1, <1>8, <1>9, <2>1, <2>4
  <2> HIDE DEF f
  <2>6. t[1] = f /\ CallsOK(t) /\ (LiveIn(t) <=> LiveIn(stack)) /\ (RunIn(t) <=> RunIn(stack))
    BY <2>5, GoCalls
  <2> HIDE DEF t
  <2>7. stack' = t
    BY <2>1 DEF t
  <2> QED
    BY <2>3, <2>6, <2>7
<1>11. shown' \in Boards /\ (LiveIn(stack) => shown'.tally = f.tally)
  BY <1>4, <1>6, IsLive DEF SetResults, TallyInv, Boards
<1>12. ShownOK(stack', shown')
  BY <1>10, <1>11 DEF ShownOK
<1> QED
  BY <1>3, <1>10, <1>11, <1>12 DEF TallyInv

LEMMA BoardOK ==
    ASSUME TallyInv, NEW f, Counts(f)
    PROVE  /\ SetProgress(f) \in Boards /\ SetProgress(f).tally = shown.tally
           /\ LiveIn(stack) => SetProgress(f).done = Done(f) /\ SetProgress(f).of = f.of
<1>1. Done(f) \in Nat /\ f.of \in Nat
  BY DEF Counts, Done, Tallies
<1> QED
  BY <1>1, IsLive DEF SetProgress, TallyInv, Boards

LEMMA NextTally ==
    ASSUME StackInv, TallyInv, NextScript
    PROVE  TallyInv'
<1>1. InTop("run") /\ Top.at = "next" /\ Top.left # <<>> /\ stack # <<>>
  BY DEF NextScript, At, InTop
<1>2. Top.kind = "run" /\ Counts(Top) /\ "kind" \in DOMAIN Top
  BY <1>1, TopIsCall DEF InTop, IsCall
<1> DEFINE f == [Top EXCEPT !.left = Tail(@), !.script = Head(Top.left),
                      !.verdict = NoVerdict, !.pc = 1, !.result = PASS, !.n = 0,
                      !.at = IF Live("scripts") THEN "call" ELSE "no file",
                      !.fair = port = "open" /\ nes.in = OPCODE /\ ~rogue]
<1>3. Go(f) /\ shown' = SetProgress(Top) /\ UNCHANGED lua
  BY DEF NextScript
<1>4. /\ DOMAIN f = DOMAIN Top /\ f.kind = "run" /\ f.at # "next"
      /\ f.left = Tail(Top.left) /\ f.of = Top.of /\ f.result = PASS /\ f.below = Top.below
      /\ f.tally = Top.tally
  BY <1>2 DEF Counts
<1> HIDE DEF f
<1>5. Counts(f)
  <2>1. /\ Tail(Top.left) \in Seq(DOMAIN Scripts)
        /\ Len(Tail(Top.left)) = Len(Top.left) - 1 /\ Len(Top.left) \in Nat
    BY <1>1, <1>2 DEF Counts
  <2>2. Done(f) = Done(Top) /\ Done(Top) \in Nat
    BY <1>2, <1>4 DEF Done, Counts, Tallies
  <2> QED
    BY <1>1, <1>2, <1>4, <2>1, <2>2 DEF Counts
<1>6. IsCall(f) /\ f.kind = Top.kind /\ f.kind # "scripts"
  BY <1>2, <1>4, <1>5 DEF IsCall, Kinds
<1>7. PICK S : stack \in Seq(S)
  BY <1>1, TopIsCall
<1>8. /\ stack'[1] = f /\ CallsOK(stack')
      /\ (LiveIn(stack') <=> LiveIn(stack)) /\ RunIn(stack')
  <2>1. stack' = <<f>> \o Tail(stack) /\ Top = stack[1] /\ CallsOK(stack)
    BY <1>1, <1>3, TopIsCall DEF Go, TallyInv
  <2>2. 1 \in DOMAIN stack
    BY <1>1, <1>7
  <2>3. RunIn(stack)
    BY <1>2, <2>1, <2>2 DEF RunIn
  <2>4. IsCall(f) /\ f.kind = stack[1].kind /\ f.kind # "scripts" /\ stack # <<>>
    BY <1>1, <1>6, <2>1
  <2> QED
    BY <1>7, <2>1, <2>3, <2>4, GoCalls, ZenonT(30)
<1>9. ShownOK(stack', shown')
  BY <1>4, <1>8 DEF ShownOK
<1> QED
  BY <1>2, <1>3, <1>8, <1>9, BoardOK DEF TallyInv

\* A run that ends has counted all its scripts, and its tally is shown.
LEMMA LastTally ==
    ASSUME StackInv, TallyInv, LastScript
    PROVE  TallyInv'
<1>1. Top.at = "next" /\ Top.left = <<>> /\ stack # <<>> /\ Top.kind = "run"
  BY DEF LastScript, At, InTop
<1>2. Top = stack[1] /\ Counts(Top) /\ CallsOK(stack) /\ stack' = Tail(stack)
  BY <1>1, TopIsCall DEF IsCall, TallyInv, LastScript, Return
<1>3. PICK S : stack \in Seq(S)
  BY <1>1, TopIsCall
<1>4. /\ CallsOK(stack') /\ (stack' # <<>> => BelowBusy(stack'[1]))
      /\ (LiveIn(stack) <=> LiveIn(stack'))
  BY <1>1, <1>2, <1>3, PopCalls
<1>5. shown' = SetProgress(Top) /\ UNCHANGED lua
  BY DEF LastScript
<1>6. LiveIn(stack) => /\ shown'.done = Done(Top) /\ shown'.of = Top.of
                       /\ shown'.tally = Top.tally
  BY <1>1, <1>2, <1>5, BoardOK DEF TallyInv, ShownOK
<1>7. Top.of = Done(Top)
  BY <1>1, <1>2 DEF Counts, Done, Tallies
<1>8. ShownOK(stack', shown')
  BY <1>4, <1>6, <1>7 DEF ShownOK, BelowBusy, Done
<1> QED
  BY <1>2, <1>4, <1>5, <1>8, BoardOK DEF TallyInv

\* Calls that are neither runs nor dialogs.
LEMMA CallsTally ==
    ASSUME StackInv, TallyInv,
           \/ LoadBrowses \/ LoadOpens \/ LoadReads \/ LoadChecks \/ LoadSends \/ LoadCloses
           \/ RawReceives \/ RawShows \/ DialogReturns \/ BoxReturns
    PROVE  TallyInv'
<1>1. /\ stack # <<>> /\ Top.kind # "run" /\ UNCHANGED <<lua, shown>>
      /\ Top.kind \in {"raw", "scripts"} => Top.ended
  BY DEF LoadBrowses, LoadOpens, LoadReads, LoadChecks, LoadSends, LoadCloses, LoadIs,
         RawReceives, RawShows, DialogReturns, BoxReturns, At, InTop
<1>2. "kind" \in DOMAIN Top /\ lua \in Verdicts
  BY <1>1, TopIsCall DEF IsCall, TallyInv
<1>3. CASE Return
  BY <1>1, <1>3, ReturnTally
<1>4. ASSUME NEW g, Go(g) \/ BoxOver(g), g.kind = Top.kind, Top.kind \in {"load", "send"},
             DOMAIN g = DOMAIN Top
      PROVE  TallyInv'
  <2>1. IsCall(g) /\ BelowBusy(g) /\ g.kind # "scripts"
    BY <1>2, <1>4 DEF IsCall, BelowBusy, Kinds
  <2> QED
    BY <1>1, <1>2, <1>4, <2>1, GoTally
<1>5. CASE LoadBrowses \/ LoadOpens \/ LoadReads \/ LoadSends
  <2>1. Top.kind = "load"
    BY <1>5 DEF LoadBrowses, LoadOpens, LoadReads, LoadSends, LoadIs, At, InTop
  <2> DEFINE opened(r) == [Top EXCEPT !.at = "open", !.rom = r]
             read(x)   == [Top EXCEPT !.at = "check", !.heap = x]
             moved(a)  == [Top EXCEPT !.at = a]
             sent      == [Top EXCEPT !.i = @ + 1]
  <2>2. /\ \A x : opened(x).kind = "load" /\ DOMAIN opened(x) = DOMAIN Top
        /\ \A x : read(x).kind = "load" /\ DOMAIN read(x) = DOMAIN Top
        /\ \A a : moved(a).kind = "load" /\ DOMAIN moved(a) = DOMAIN Top
        /\ sent.kind = "load" /\ DOMAIN sent = DOMAIN Top
    BY <1>2, <2>1
  <2>3. \/ Return \/ Go(sent) \/ \E x : Go(opened(x)) \/ Go(read(x))
        \/ \E a : Go(moved(a)) \/ BoxOver(moved(a))
    BY <1>5 DEF LoadBrowses, LoadOpens, LoadReads, LoadSends
  <2> HIDE DEF opened, read, moved, sent
  <2> QED
    BY <1>3, <1>4, <2>1, <2>2, <2>3
<1>6. CASE LoadChecks
  <2> DEFINE next == [Top EXCEPT !.i = @ + 1]
             bad  == [next EXCEPT !.ok = FALSE]
             last == [Top EXCEPT !.at = IF Top.ok THEN "send" ELSE "close", !.i = 1]
  <2>1. Top.kind = "load"
    BY <1>6 DEF LoadChecks, LoadIs, At, InTop
  <2>2. /\ next.kind = "load" /\ DOMAIN next = DOMAIN Top
        /\ bad.kind = "load" /\ DOMAIN bad = DOMAIN Top
        /\ last.kind = "load" /\ DOMAIN last = DOMAIN Top
    BY <1>2, <2>1
  <2>3. Go(next) \/ BoxOver(bad) \/ Go(last)
    BY <1>6 DEF LoadChecks
  <2> QED
    BY <1>4, <2>1, <2>2, <2>3
<1>7. CASE RawReceives
  <2>1. Top.kind = "send"
    BY <1>7 DEF RawReceives, At, InTop
  <2>2. PICK x : Go([Top EXCEPT !.at = "show", !.got = x])
    BY <1>7 DEF RawReceives
  <2>3. /\ [Top EXCEPT !.at = "show", !.got = x].kind = "send"
        /\ DOMAIN [Top EXCEPT !.at = "show", !.got = x] = DOMAIN Top
    BY <1>2, <2>1
  <2> QED
    BY <1>4, <2>1, <2>2, <2>3
<1>8. CASE LoadCloses \/ RawShows \/ DialogReturns \/ BoxReturns
  BY <1>3, <1>8 DEF LoadCloses, RawShows, DialogReturns, BoxReturns
<1> QED
  BY <1>5, <1>6, <1>7, <1>8

LEMMA EmptyTally ==
    ASSUME TallyInv, stack' = <<>>, lua' = 0, UNCHANGED shown
    PROVE  TallyInv'
<1>1. DOMAIN <<>> = {}
  OBVIOUS
<1> QED
  BY <1>1 DEF TallyInv, CallsOK, ShownOK, LiveIn, Verdicts, PASS

LEMMA SameTally ==
    ASSUME TallyInv, UNCHANGED <<stack, shown>>, lua' \in Verdicts
    PROVE  TallyInv'
  BY DEF TallyInv, CallsOK, ShownOK, LiveIn, RunIn

LEMMA TallyStep == StackInv /\ TallyInv /\ [Next]_vars => TallyInv'
<1> SUFFICES ASSUME StackInv, TallyInv, [Next]_vars
             PROVE  TallyInv'
  OBVIOUS
<1>1. lua \in Verdicts /\ 0 \in Verdicts
  BY DEF TallyInv, Verdicts, PASS
<1>2. CASE ProgramStep
  <2>1. CASE NoWindow \/ InitSerialComm \/ InitReturns \/ LoopEnds \/ Exits
    BY <1>1, <2>1, SameTally DEF NoWindow, InitSerialComm, InitReturns, LoopEnds, Exits,
                                 scriptVars
  <2>2. CASE RunStep
    BY <2>2, ScriptTally, LoadAsmTally, VerdictTally, NextTally, LastTally DEF RunStep
  <2> QED
    BY <1>2, <2>1, <2>2, CallsTally DEF ProgramStep
<1>3. CASE UserStep
  <2>1. CASE WinMain \/ MenuExit \/ (InitFails /\ UNCHANGED <<scriptVars, appVars>>)
    BY <1>1, <2>1, SameTally DEF WinMain, MenuExit, scriptVars
  <2>2. CASE MenuLoadRom \/ MenuRawDebug
    <3>1. \E f : Start(f) /\ IsCall(f) /\ f.kind \in {"load", "raw"} /\ UNCHANGED <<lua, shown>>
      BY <2>2 DEF MenuLoadRom, MenuRawDebug, IsCall, Kinds
    <3> QED
      BY <3>1, StartTally
  <2>3. CASE MenuTestScripts
    BY <2>3, DialogTally DEF MenuTestScripts
  <2>4. ASSUME NEW text \in Texts, RawSend(text)
        PROVE  TallyInv'
    <3>1. \E f : Start(f) /\ IsCall(f) /\ f.kind \in {"box", "send"} /\ UNCHANGED <<lua, shown>>
      BY <2>4 DEF RawSend, Box, IsCall, Kinds
    <3> QED
      BY <3>1, StartTally
  <2>5. CASE \E selected \in Selections : TestScriptsRun(selected)
    BY <2>5, RunTally DEF TestScriptsRun
  <2>6. CASE RawDone \/ TestScriptDlgDone
    BY <2>6, EndTally DEF RawDone, TestScriptDlgDone
  <2> QED
    BY <1>3, <2>1, <2>2, <2>3, <2>4, <2>5, <2>6, CallsTally DEF UserStep
<1>4. CASE Machine \/ Program \/ Reset
  BY <1>1, <1>4, SameTally DEF Machine, Program, Reset, scriptVars
<1>5. CASE Dies
  BY <1>5, EmptyTally DEF Dies
<1>6. CASE Fault
  BY <1>1, <1>5, <1>6, SameTally DEF Fault, scriptVars
<1>7. CASE Written /\ MenuTestScriptsCrashes
  BY <1>5, <1>7 DEF MenuTestScriptsCrashes
<1>8. CASE UNCHANGED vars
  BY <1>1, <1>8, SameTally DEF vars, scriptVars
<1> QED
  BY <1>2, <1>3, <1>4, <1>6, <1>7, <1>8 DEF Next

LEMMA TallyHolds == Init /\ [][Next]_vars => [](StackInv /\ TallyInv)
<1>1. Init => TallyInv
  <2>1. DOMAIN <<>> = {}
    OBVIOUS
  <2> QED
    BY <2>1, ZeroTally DEF Init, ScriptInit, TallyInv, CallsOK, ShownOK, LiveIn, Boards,
                           Verdicts, PASS
<1>2. TallyInv /\ StackInv /\ [Next]_vars => TallyInv'
  BY TallyStep
<1>3. IInv => StackInv
  BY DEF IInv
<1> QED
  BY <1>1, <1>2, <1>3, InvHolds, PTL

\* When no run is under way the dialog shows the end of one, each of its scripts
\* counted once: a run that ends is innermost, and what was started behind one
\* of its boxes has ended before.
THEOREM TalliesComplete == Spec => []TallyComplete
<1>1. StackInv /\ TallyInv => TallyComplete
  BY IsLive DEF TallyInv, TallyComplete, ShownOK, RunIn
<1> QED
  BY <1>1, TallyHolds, PTL DEF Spec
=============================================================================
