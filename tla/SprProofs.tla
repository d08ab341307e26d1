----------------------------- MODULE SprProofs -----------------------------
(***************************************************************************)
(* Proofs about the sprites, for any number of objects, slots, rows and     *)
(* lines and whatever the program does.  The first is that evaluation finds *)
(* the objects of the next line: those in range, in the order of OAM, none  *)
(* left out before all slots are taken.  What has to be known besides is    *)
(* that the count is 0 where a line begins, although it is reset near the   *)
(* end of a line only, only while sprites are enabled, and in no line after *)
(* the last that has sprites: CountReady.                                   *)
(*                                                                         *)
(* The second is that a dot shows what it should.  It follows the objects   *)
(* from memory to memory: the temporary one, as the first theorem has it;   *)
(* the buffer, slot by slot (Fetched), which has the whole of the next line *)
(* from ResetDot on (SetUp) and that of this line while it is shown (InUse); *)
(* and the shift registers, which are empty when a line begins (Drained)    *)
(* and at each dot hold the rest of what their slot has (Shifting).         *)
(***************************************************************************)
EXTENDS PpuSpr, FiniteSetTheorems, TLAPS

SprType ==
    /\ x \in 0 .. LastDot /\ in_rng_cnt \in 0 .. Slots /\ quiet \in 0 .. 2
    /\ en \in BOOLEAN /\ reset \in BOOLEAN
    /\ DOMAIN m_stm = 0 .. Slots - 1

\* Nothing is claimed of a line in which sprites are disabled.
QuietEnabled == quiet > 0 => en

CountReady == reset /\ (x = LastDot \/ ~(nes_y_next(line) < Rows)) => in_rng_cnt = 0

SprInv == SprType /\ QuietEnabled /\ CountReady /\ FirstInRange

\* Dots are numbers.
LEMMA Sizes ==
    /\ Objs \in Nat /\ Slots \in Nat /\ Objs > 0 /\ Slots > 0
    /\ Width = 4 * Objs /\ ResetDot = 4 * Objs + 4 * Slots /\ LastDot = ResetDot + 1
    /\ Width \in Nat /\ ResetDot \in Nat /\ LastDot \in Nat
  BY SprAssumption DEF Width, ResetDot, LastDot

\* At dot 0 nothing has been looked at.
LEMMA NothingScanned == x = 0 /\ in_rng_cnt = 0 => FirstInRange
<1> SUFFICES ASSUME x = 0, in_rng_cnt = 0
             PROVE  FirstInRange
  OBVIOUS
<1> DEFINE f == [k \in {} |-> 0]
<1>1. 0 .. in_rng_cnt - 1 = {}
  OBVIOUS
<1>2. f \in [0 .. in_rng_cnt - 1 -> 0 .. Objs - 1] /\ DOMAIN f = {}
  BY <1>1
<1>3. Scanned = {}
  BY Sizes DEF Scanned
<1> HIDE DEF f
<1>4. Holds(f, nes_y_next(line))
  BY <1>2, <1>3 DEF Holds
<1>5. in_rng_cnt <= Slots
  BY Sizes
<1> QED
  BY <1>2, <1>4, <1>5 DEF FirstInRange

LEMMA DotKeepsType == SprType /\ Dot => SprType'
<1> SUFFICES ASSUME SprType, Dot
             PROVE  SprType'
  OBVIOUS
<1>1. x' \in 0 .. LastDot
  BY Sizes DEF Dot, SprType
<1>2. in_rng_cnt' \in 0 .. Slots /\ DOMAIN m_stm' = 0 .. Slots - 1
  <2>1. CASE ResetCount
    BY <2>1, Sizes DEF ResetCount, SprType
  <2>2. CASE TakeObject
    <3>1. DOMAIN m_stm' = DOMAIN m_stm
      BY <2>2 DEF TakeObject
    <3>2. in_rng_cnt # Slots /\ in_rng_cnt' = in_rng_cnt + 1
      BY <2>2 DEF TakeObject, Fits
    <3> QED
      BY <3>1, <3>2, Sizes DEF SprType
  <2>3. CASE UNCHANGED evaluation
    BY <2>3 DEF evaluation, SprType
  <2> QED
    BY <2>1, <2>2, <2>3 DEF Dot, Evaluate
<1>3. quiet' \in 0 .. 2 /\ reset' \in BOOLEAN /\ en' \in BOOLEAN
  BY DEF Dot, SprType
<1> QED
  BY <1>1, <1>2, <1>3 DEF SprType

LEMMA DotKeepsReady == SprType /\ CountReady /\ Dot => CountReady'
<1> SUFFICES ASSUME SprType, CountReady, Dot, reset',
                    x' = LastDot \/ ~(nes_y_next(line') < Rows)
             PROVE  in_rng_cnt' = 0
  BY DEF CountReady, nes_y_next
<1>1. CASE x = LastDot
  <2>0. reset
    <3>1. x # ResetDot
      BY <1>1, Sizes
    <3>2. reset' = reset
      BY <3>1 DEF Dot
    <3> QED
      BY <3>2
  <2>1. in_rng_cnt = 0
    BY <1>1, <2>0 DEF CountReady
  <2>2. ~ResetCount /\ ~TakeObject
    BY <1>1, Sizes DEF ResetCount, TakeObject, ObjectDue
  <2> QED
    BY <2>1, <2>2 DEF Dot, Evaluate, evaluation
<1>2. CASE x # LastDot /\ ~(nes_y_next(line) < Rows)
  <2>1. in_rng_cnt = 0
    BY <1>2 DEF Dot, CountReady
  <2>2. ~ResetCount /\ ~TakeObject
    BY <1>2 DEF ResetCount, TakeObject, ObjectDue, Evaluating
  <2> QED
    BY <2>1, <2>2 DEF Dot, Evaluate, evaluation
<1>3. CASE x # LastDot /\ nes_y_next(line) < Rows
  <2>1. line' = line /\ x = ResetDot
    BY <1>3, Sizes DEF Dot, SprType
  <2>2. Evaluating
    BY <1>3, <2>1 DEF Dot, Evaluating
  <2>3. ~ObjectDue
    BY <2>1, Sizes DEF ObjectDue
  <2> QED
    BY <2>1, <2>2, <2>3 DEF Dot, Evaluate, ResetCount, TakeObject
<1> QED
  BY <1>1, <1>2, <1>3

\* One more dot: the object it is about, if any, is taken or has no place.
LEMMA DotScans ==
    ASSUME SprType, FirstInRange, Dot, quiet > 0, en, x < ResetDot, nes_y_next(line) < Rows
    PROVE  FirstInRange'
<1>0. PICK y : y = nes_y_next(line)
  OBVIOUS
<1>1. x' = x + 1 /\ line' = line /\ nes_y_next(line') = y /\ m_oam' = m_oam
  BY <1>0, Sizes DEF Dot, SprType, nes_y_next
<1>2. PICK f \in [0 .. in_rng_cnt - 1 -> 0 .. Objs - 1] : Holds(f, y)
  BY <1>0, Sizes DEF FirstInRange, SprType
<1>3. x \in Nat /\ in_rng_cnt \in 0 .. Slots
  BY Sizes DEF SprType
<1>4. InRow(y)' = InRow(y) /\ \A i : StmEntry(i, y)' = StmEntry(i, y)
  BY <1>1 DEF InRow, StmEntry, in_rng, rng_cmp_res, oam_rd_y
<1>5. Scanned \subseteq 0 .. Objs - 1 /\ \A i \in Scanned : i \in Nat /\ 4 * i < x
  BY Sizes DEF Scanned
<1>6. CASE ObjectDue
  <2>1. Object \in 0 .. Objs - 1 /\ 4 * Object = x
    BY <1>3, <1>6, Sizes DEF ObjectDue, Object
  <2>2. Scanned' = Scanned \cup {Object}
    BY <1>1, <1>3, <2>1, Sizes DEF Scanned
  <2>3. \A i \in Scanned : i < Object
    BY <1>5, <2>1
  <2>4. CASE Fits
    <3>1. TakeObject
      BY <1>6, <2>4, Sizes DEF Dot, Evaluate, ResetCount, ObjectDue
    <3>0. PICK n, o : n = in_rng_cnt /\ o = Object
      OBVIOUS
    <3> DEFINE g == [k \in 0 .. n |-> IF k < n THEN f[k] ELSE o]
    <3>2. n \in 0 .. Slots - 1 /\ n % Slots = n
      BY <1>3, <2>4, <3>0, Sizes DEF Fits
    <3>a. f \in [0 .. n - 1 -> 0 .. Objs - 1] /\ Holds(f, y)
      BY <1>2, <3>0
    <3>3. /\ in_rng_cnt' = n + 1
          /\ m_stm'[n] = StmEntry(Object, y)
          /\ \A k \in 0 .. n - 1 : m_stm'[k] = m_stm[k]
      BY <1>0, <3>0, <3>1, <3>2 DEF TakeObject, SprType
    <3>4. Object \in InRow(y)
      BY <1>0, <2>1, <2>4 DEF Fits, InRow
    <3>5. g \in [0 .. in_rng_cnt' - 1 -> 0 .. Objs - 1] /\ DOMAIN g = 0 .. n
      BY <2>1, <3>0, <3>2, <3>3, <3>a
    <3>6. /\ g[n] = Object
          /\ \A k \in 0 .. n - 1 : g[k] = f[k] /\ f[k] \in Scanned \cap InRow(y)
                                   /\ m_stm[k] = StmEntry(f[k], y)
      BY <3>0, <3>2, <3>a DEF Holds
    <3> HIDE DEF g
    <3>7. \A k \in DOMAIN g : /\ m_stm'[k] = StmEntry(g[k], y)
                              /\ g[k] \in (Scanned \cup {Object}) \cap InRow(y)
      <4> SUFFICES ASSUME NEW k \in 0 .. n
                   PROVE  /\ m_stm'[k] = StmEntry(g[k], y)
                          /\ g[k] \in (Scanned \cup {Object}) \cap InRow(y)
        BY <3>5
      <4>1. CASE k = n
        BY <3>3, <3>4, <3>6, <4>1
      <4>2. CASE k \in 0 .. n - 1
        BY <3>3, <3>6, <4>2
      <4> QED
        BY <3>2, <4>1, <4>2
    <3>8. \A k, m \in DOMAIN g : k < m => g[k] < g[m]
      <4> SUFFICES ASSUME NEW k \in 0 .. n, NEW m \in 0 .. n, k < m
                   PROVE  g[k] < g[m]
        BY <3>5
      <4>1. k \in 0 .. n - 1
        BY <3>2
      <4>2. CASE m = n
        BY <2>3, <3>6, <4>1, <4>2
      <4>3. CASE m \in 0 .. n - 1
        BY <3>6, <3>a, <4>1, <4>3 DEF Holds
      <4> QED
        BY <3>2, <4>2, <4>3
    <3>9. \A i \in (Scanned \cup {Object}) \cap InRow(y) : \E k \in DOMAIN g : g[k] = i
      <4> SUFFICES ASSUME NEW i \in (Scanned \cup {Object}) \cap InRow(y)
                   PROVE  \E k \in 0 .. n : g[k] = i
        BY <3>5
      <4>1. CASE i = Object
        BY <3>2, <3>6, <4>1
      <4>2. CASE i \in Scanned
        <5>1. PICK k \in DOMAIN f : f[k] = i
          BY <3>0, <3>2, <3>a, <4>2 DEF Holds
        <5>2. k \in 0 .. n - 1
          BY <3>a, <5>1
        <5> QED
          BY <3>2, <3>6, <5>1, <5>2
      <4> QED
        BY <4>1, <4>2
    <3>10. Holds(g, y)'
      BY <1>4, <2>2, <3>7, <3>8, <3>9 DEF Holds
    <3> QED
      BY <1>0, <1>1, <3>2, <3>3, <3>5, <3>10, Sizes DEF FirstInRange
  <2>5. CASE ~Fits
    <3>1. UNCHANGED evaluation
      BY <2>5, Sizes DEF Dot, Evaluate, ResetCount, TakeObject, ObjectDue
    <3>2. Holds(f, y)'
      <4>1. \A k \in DOMAIN f : /\ m_stm'[k] = StmEntry(f[k], y)
                                /\ f[k] \in (Scanned \cup {Object}) \cap InRow(y)
        BY <1>2, <3>1 DEF Holds, evaluation
      <4>2. \A k, m \in DOMAIN f : k < m => f[k] < f[m]
        BY <1>2 DEF Holds
      <4>3. Object \notin InRow(y) \/ (in_rng_cnt = Slots /\ \A k \in DOMAIN f : f[k] < Object)
        BY <1>0, <1>2, <2>3, <2>5 DEF Fits, InRow, Holds
      <4>4. \A i \in (Scanned \cup {Object}) \cap InRow(y) :
               \/ \E k \in DOMAIN f : f[k] = i
               \/ in_rng_cnt' = Slots /\ \A k \in DOMAIN f : f[k] < i
        BY <1>2, <3>1, <4>3 DEF Holds, evaluation
      <4> QED
        BY <1>4, <2>2, <4>1, <4>2, <4>4 DEF Holds
    <3> QED
      BY <1>1, <1>2, <1>3, <3>1, <3>2 DEF FirstInRange, evaluation
  <2> QED
    BY <2>4, <2>5
<1>7. CASE ~ObjectDue
  <2>1. UNCHANGED evaluation
    BY <1>7, Sizes DEF Dot, Evaluate, ResetCount, TakeObject, SprType
  <2>2. x >= Width \/ x % 4 # 0
    BY <1>3, <1>7, Sizes DEF ObjectDue, Evaluating
  <2>3. Scanned' = Scanned
    <3>1. ASSUME NEW i \in 0 .. Objs - 1
          PROVE  4 * i < x' <=> 4 * i < x
      BY <1>1, <1>3, <2>2, Sizes
    <3> QED
      BY <3>1 DEF Scanned
  <2>4. Holds(f, y)'
    BY <1>2, <1>4, <2>1, <2>3 DEF Holds, evaluation
  <2> QED
    BY <1>1, <1>2, <1>3, <2>1, <2>4 DEF FirstInRange, evaluation
<1> QED
  BY <1>6, <1>7

LEMMA DotKeeps == SprInv /\ Dot => SprInv'
<1> SUFFICES ASSUME SprInv, Dot
             PROVE  SprInv'
  OBVIOUS
<1>1. SprType' /\ CountReady'
  BY DotKeepsType, DotKeepsReady DEF SprInv
<1>2. QuietEnabled'
  BY DEF Dot, SprInv, QuietEnabled
<1>3. FirstInRange'
  <2>1. CASE x = LastDot
    <3>1. CASE quiet' > 0
      <4>1. x' = 0 /\ reset /\ in_rng_cnt = 0
        BY <2>1, <3>1, Sizes DEF Dot, SprInv, CountReady
      <4>2. ~ResetCount /\ ~TakeObject
        BY <2>1, Sizes DEF ResetCount, TakeObject, ObjectDue
      <4>3. in_rng_cnt' = 0
        BY <4>1, <4>2 DEF Dot, Evaluate, evaluation
      <4>4. (x = 0 /\ in_rng_cnt = 0)'
        BY <4>1, <4>3
      <4> QED
        BY <4>4, NothingScanned, PTL
    <3> QED
      BY <3>1 DEF FirstInRange
  <2>2. CASE x # LastDot
    <3> SUFFICES ASSUME quiet' > 0, x' <= ResetDot, nes_y_next(line') < Rows
                 PROVE  FirstInRange'
      BY DEF FirstInRange, nes_y_next
    <3>1. quiet > 0 /\ x < ResetDot /\ nes_y_next(line) < Rows
      BY <2>2, Sizes DEF Dot, SprInv, SprType
    <3> QED
      BY <3>1, DotScans DEF SprInv, QuietEnabled
  <2> QED
    BY <2>1, <2>2
<1> QED
  BY <1>1, <1>2, <1>3 DEF SprInv

LEMMA SprInvariant == Spec => []SprInv
<1>1. Init => SprInv
  <2> SUFFICES ASSUME Init
               PROVE  SprInv
    OBVIOUS
  <2>1. SprType
    BY Sizes DEF Init, SprType
  <2>2. QuietEnabled /\ CountReady
    BY DEF Init, QuietEnabled, CountReady
  <2>3. FirstInRange
    BY NothingScanned DEF Init
  <2> QED
    BY <2>1, <2>2, <2>3 DEF SprInv
<1>2. SprInv /\ [Next]_vars => SprInv'
  <2> SUFFICES ASSUME SprInv, [Next]_vars
               PROVE  SprInv'
    OBVIOUS
  <2>1. CASE Dot
    BY <2>1, DotKeeps
  <2>2. CASE Program
    <3>1. /\ quiet' = 0 /\ x' = x /\ line' = line /\ reset' = reset
          /\ in_rng_cnt' = in_rng_cnt /\ m_stm' = m_stm
      BY <2>2 DEF Program, evaluation
    <3>2. en' \in BOOLEAN
      BY <2>2 DEF Program, SprInv, SprType
    <3>3. SprType'
      BY <3>1, <3>2 DEF SprInv, SprType
    <3>4. QuietEnabled' /\ FirstInRange'
      BY <3>1 DEF QuietEnabled, FirstInRange
    <3>5. CountReady'
      BY <3>1 DEF SprInv, CountReady, nes_y_next
    <3> QED
      BY <3>3, <3>4, <3>5 DEF SprInv
  <2>3. CASE UNCHANGED vars
    <3>1. FirstInRange' <=> FirstInRange
      BY <2>3 DEF vars, evaluation, FirstInRange, Holds, Scanned, InRow, StmEntry,
                  in_rng, rng_cmp_res, oam_rd_y, nes_y_next
    <3>2. (SprType /\ QuietEnabled /\ CountReady)' <=> (SprType /\ QuietEnabled /\ CountReady)
      BY <2>3 DEF vars, evaluation, SprType, QuietEnabled, CountReady, nes_y_next
    <3> QED
      BY <3>1, <3>2 DEF SprInv
  <2> QED
    BY <2>1, <2>2, <2>3 DEF Next
<1> QED
  BY <1>1, <1>2, PTL DEF Spec

\* Evaluation takes the first objects in range, in order, for every OAM and
\* whatever the program changes, two lines after the last change at the latest.
THEOREM TakesTheFirst == Spec => []FirstInRange
<1>1. SprInv => FirstInRange
  BY DEF SprInv
<1> QED
  BY <1>1, SprInvariant, PTL

-----------------------------------------------------------------------------
(* From the temporary memory to the screen.                                 *)
\* Slot s is drawn from the entry the temporary memory holds for it.
Bits(e, plane) ==
    LET bits == Pattern[e.tile][e.row][plane]
    IN  IF e.h_inv THEN [k \in 1 .. Wide |-> bits[Wide + 1 - k]] ELSE bits

Drawn(e) == [primary |-> e.primary, priority |-> e.priority, ps |-> e.ps,
             pixels |-> [k \in 1 .. Wide |-> 2 * Bits(e, 1)[k] + Bits(e, 0)[k]], x |-> e.x]

\* What has been fetched is in the buffer, and the planes of the slot under way are read.
Fetched ==
    quiet > 0 /\ nes_y_next(line) < Rows /\ Width <= x /\ x <= ResetDot =>
        /\ \A s \in 0 .. Slots - 1 : Width + 4 * s + 2 <= x =>
              m_sbm[s] = IF s < in_rng_cnt THEN Drawn(m_stm[s]) ELSE Empty
        /\ x < ResetDot /\ Slot(x) < in_rng_cnt =>
              /\ pd0 = Bits(m_stm[Slot(x)], 0)
              /\ Stage(x) > 0 => pd1 = Bits(m_stm[Slot(x)], 1)

\* f lists the first objects of line y, n of them.
Lists(f, n, y) ==
    /\ \A k \in 0 .. n - 1 : f[k] \in InRow(y)
    /\ \A k, m \in 0 .. n - 1 : k < m => f[k] < f[m]
    /\ \A i \in InRow(y) : \/ \E k \in 0 .. n - 1 : f[k] = i
                           \/ n = Slots /\ \A k \in 0 .. n - 1 : f[k] < i

\* Object i of line y as a slot has it.
Slotted(i, y) ==
    [primary |-> i = 0, priority |-> m_oam[i].priority, ps |-> m_oam[i].ps,
     pixels |-> [k \in 1 .. Wide |-> Colour(i, y, m_oam[i].x + k - 1)], x |-> m_oam[i].x]

\* The buffer has line y.
Shows(y) ==
    \E n \in 0 .. Slots : \E f \in [0 .. n - 1 -> 0 .. Objs - 1] :
        /\ Lists(f, n, y)
        /\ \A s \in 0 .. Slots - 1 : m_sbm[s] = IF s < n THEN Slotted(f[s], y) ELSE Empty

SetUp == quiet > 0 /\ nes_y_next(line) < Rows /\ x >= ResetDot => Shows(nes_y_next(line))
InUse == quiet = 2 /\ nes_y(line) < Rows /\ x < Width => Shows(nes_y(line))

\* A shift register runs empty in the dots that are not visible.
Drained ==
    quiet > 0 /\ nes_y(line) < Rows /\ x >= Width =>
        \A s \in 0 .. Slots - 1, k \in 1 .. Wide : k + x > Wide + Width - 1 => shift[s][k] = 0

\* What is left at dot d of a slot that holds e.
ShiftedOut(e, d) ==
    [k \in 1 .. Wide |-> IF e.x <= d /\ d - e.x + k <= Wide THEN e.pixels[d - e.x + k] ELSE 0]

Shifting ==
    quiet = 2 /\ nes_y(line) \in Border .. Rows - 1 /\ x < Width =>
        \A s \in 0 .. Slots - 1 : shift[s] = ShiftedOut(m_sbm[s], x)

\* A row of pixels, and the types of what the second theorem needs.
Whole(p) == p = [k \in 1 .. Wide |-> p[k]]
MemType ==
    /\ line \in 0 .. Lines - 1
    /\ DOMAIN m_oam = 0 .. Objs - 1 /\ \A i \in 0 .. Objs - 1 : m_oam[i].x \in Nat
    /\ DOMAIN m_sbm = 0 .. Slots - 1
    /\ \A s \in 0 .. Slots - 1 : Whole(shift[s]) /\ Whole(m_sbm[s].pixels)

LEMMA Screen ==
    /\ Wide \in Nat /\ Wide > 0 /\ Wide <= 4 * Slots /\ Border \in Nat /\ Border > 0
    /\ Rows \in Nat /\ Lines \in Nat /\ Lines > 0
  BY SprAssumption, ScreenAssumption

\* One pulse moves every pixel one place to the left.
LEMMA ShiftOnce ==
    ASSUME NEW p, Whole(p)
    PROVE  Shifted(p) = [k \in 1 .. Wide |-> IF k < Wide THEN p[k + 1] ELSE 0]
<1> DEFINE S == {p[k] : k \in 1 .. Wide} \cup {0}
<1>0. Wide \in Nat /\ Wide > 0
  BY Screen
<1>1. \A k \in 1 .. Wide : p[k] \in S
  OBVIOUS
<1>2. 0 \in S
  OBVIOUS
<1> HIDE DEF S
<1>3. p \in [1 .. Wide -> S]
  BY <1>1 DEF Whole
<1>4. p \in Seq(S) /\ Len(p) = Wide
  BY <1>0, <1>3
<1>5. /\ Tail(p) \in Seq(S) /\ Len(Tail(p)) = Wide - 1
      /\ \A k \in 1 .. Wide - 1 : Tail(p)[k] = p[k + 1]
  BY <1>0, <1>4
<1> DEFINE q == Append(Tail(p), 0)
<1>6. /\ q \in Seq(S) /\ Len(q) = Wide
      /\ \A k \in 1 .. Wide - 1 : q[k] = Tail(p)[k]
      /\ q[Wide] = 0
  BY <1>0, <1>2, <1>5
<1>7. q = [k \in 1 .. Wide |-> q[k]]
  <2>1. q \in Seq(S) /\ Len(q) = Wide
    BY <1>6
  <2> HIDE DEF q
  <2>2. q \in [1 .. Wide -> S]
    BY <2>1
  <2> QED
    BY <2>2
<1>8. \A k \in 1 .. Wide : q[k] = IF k < Wide THEN p[k + 1] ELSE 0
  BY <1>0, <1>5, <1>6
<1>9. Shifted(p) = q
  BY DEF Shifted
<1> HIDE DEF q
<1> QED
  BY <1>7, <1>8, <1>9

\* The objects listed in order are those chosen.
LEMMA ListedAreChosen ==
    ASSUME NEW y, NEW n \in 0 .. Slots, NEW f \in [0 .. n - 1 -> 0 .. Objs - 1], Lists(f, n, y)
    PROVE  Chosen(y) = {f[k] : k \in 0 .. n - 1}
<1> DEFINE Below(i) == {j \in InRow(y) : j < i}
<1>0. /\ Slots \in Nat /\ n \in Nat /\ n <= Slots
      /\ InRow(y) \subseteq 0 .. Objs - 1 /\ IsFiniteSet(0 .. Objs - 1)
  <2>1. Slots \in Nat /\ n \in Nat /\ n <= Slots /\ InRow(y) \subseteq 0 .. Objs - 1
    BY Sizes DEF InRow
  <2>2. 0 \in Int /\ Objs - 1 \in Int
    BY Sizes
  <2>3. IsFiniteSet(0 .. Objs - 1)
    BY <2>2, FS_Interval
  <2> QED
    BY <2>1, <2>3
<1>1. \A i : IsFiniteSet(Below(i))
  BY <1>0, FS_Subset
<1>2. ASSUME NEW k \in 0 .. n - 1
      PROVE  f[k] \in Chosen(y)
  <2>1. f[k] \in InRow(y) /\ f[k] \in Int
    BY DEF Lists
  <2>2. k \in Nat /\ k < Slots
    BY <1>0
  <2>3. ASSUME NEW j \in Below(f[k])
        PROVE  \E m \in 1 .. k : f[m - 1] = j
    <3>1. j \in InRow(y) /\ j < f[k] /\ j \in Int
      BY <1>0, <2>3
    <3>2. ~(\A m \in 0 .. n - 1 : f[m] < j)
      BY <2>1, <3>1
    <3>3. PICK m \in 0 .. n - 1 : f[m] = j
      BY <3>1, <3>2 DEF Lists
    <3>4. m < k
      BY <2>1, <3>1, <3>3 DEF Lists
    <3>5. m + 1 \in 1 .. k /\ (m + 1) - 1 = m
      BY <3>4
    <3> QED
      BY <3>3, <3>5
  <2>4. \A m \in 1 .. k : f[m - 1] \in Below(f[k])
    <3> SUFFICES ASSUME NEW m \in 1 .. k
                 PROVE  f[m - 1] \in Below(f[k])
      OBVIOUS
    <3>1. m - 1 \in 0 .. n - 1 /\ m - 1 < k
      BY <1>0
    <3> QED
      BY <3>1 DEF Lists
  <2> DEFINE g == [m \in 1 .. k |-> f[m - 1]]
  <2>5. g \in [1 .. k -> Below(f[k])] /\ \A j \in Below(f[k]) : \E m \in 1 .. k : g[m] = j
    BY <2>3, <2>4
  <2> HIDE DEF g
  <2>6. ExistsSurjection(1 .. k, Below(f[k]))
    BY <2>5 DEF ExistsSurjection, Surjection
  <2> HIDE DEF Below
  <2>7. Cardinality(Below(f[k])) <= k
    BY <2>2, <2>6, FS_SurjCardinalityBound
  <2>8. Cardinality(Below(f[k])) \in Nat
    BY <1>1, FS_CardinalityType
  <2>9. Cardinality(Below(f[k])) < Slots
    BY <2>2, <2>7, <2>8, <1>0
  <2> QED
    BY <2>1, <2>9 DEF Chosen, Below
<1>3. ASSUME NEW i \in Chosen(y)
      PROVE  \E k \in 0 .. n - 1 : f[k] = i
  <2>1. i \in InRow(y) /\ Cardinality(Below(i)) < Slots
    BY DEF Chosen
  <2>2. CASE n = Slots /\ \A k \in 0 .. n - 1 : f[k] < i
    <3> DEFINE g == [m \in 1 .. Slots |-> f[m - 1]]
    <3>1. \A m \in 1 .. Slots : m - 1 \in 0 .. n - 1
      BY <1>0, <2>2
    <3>2. g \in [1 .. Slots -> Below(i)]
      BY <2>2, <3>1 DEF Lists
    <3>3. ASSUME NEW a \in 1 .. Slots, NEW b \in 1 .. Slots, a < b
          PROVE  g[a] # g[b]
      <4>1. g[a] < g[b] /\ g[a] \in Int /\ g[b] \in Int
        BY <3>1, <3>3, <1>0 DEF Lists
      <4> QED
        BY <4>1
    <3> HIDE DEF g
    <3>4. \A a, b \in 1 .. Slots : a # b => g[a] # g[b]
      <4> SUFFICES ASSUME NEW a \in 1 .. Slots, NEW b \in 1 .. Slots, a # b
                   PROVE  g[a] # g[b]
        OBVIOUS
      <4>1. a < b \/ b < a
        BY <1>0
      <4> QED
        BY <3>3, <4>1
    <3>5. g \in Injection(1 .. Slots, Below(i))
      BY <3>2, <3>4 DEF Injection, IsInjective
    <3> HIDE DEF Below
    <3>6. Cardinality(1 .. Slots) <= Cardinality(Below(i))
      BY <1>1, <3>5, FS_Injection
    <3>7. Cardinality(1 .. Slots) = Slots
      BY <1>0, FS_Interval
    <3>8. Cardinality(Below(i)) \in Nat
      BY <1>1, FS_CardinalityType
    <3> QED
      BY <1>0, <2>1, <3>6, <3>7, <3>8
  <2> QED
    BY <2>1, <2>2 DEF Lists
<1> QED
  BY <1>2, <1>3

LEMMA LeastOf ==
    ASSUME NEW S \in SUBSET Nat, S # {}
    PROVE  \E s \in S : \A t \in S : s <= t
<1>1. PICK s \in S : \A t \in S : ~(<<t, s>> \in OpToRel(<, Nat))
  BY NatLessThanWellFounded, WFMin
<1>2. \A t \in S : t \in Nat /\ s \in Nat /\ ~(t < s)
  BY <1>1 DEF OpToRel
<1> QED
  BY <1>2

\* What the shift registers put out is the picture.
LEMMA SlotsShowThePicture ==
    ASSUME NEW y, Shows(y), MemType, en, x \in Nat,
           \A s \in 0 .. Slots - 1 : shift[s] = ShiftedOut(m_sbm[s], x)
    PROVE  Pixel = Picture(y, x)
<1>1. PICK n \in 0 .. Slots : \E f \in [0 .. n - 1 -> 0 .. Objs - 1] :
         /\ Lists(f, n, y)
         /\ \A s \in 0 .. Slots - 1 : m_sbm[s] = IF s < n THEN Slotted(f[s], y) ELSE Empty
  BY DEF Shows
<1>2. PICK f \in [0 .. n - 1 -> 0 .. Objs - 1] :
         /\ Lists(f, n, y)
         /\ \A s \in 0 .. Slots - 1 : m_sbm[s] = IF s < n THEN Slotted(f[s], y) ELSE Empty
  BY <1>1
<1>3. /\ Slots \in Nat /\ Objs \in Nat /\ n \in Nat /\ n <= Slots /\ Wide \in Nat /\ Wide > 0
      /\ 1 \in 1 .. Wide
  BY Sizes, Screen
<1>4. ASSUME NEW s \in 0 .. n - 1
      PROVE  shift[s][1] = Colour(f[s], y, x) /\ m_sbm[s] = Slotted(f[s], y)
  <2>1. s \in 0 .. Slots - 1 /\ s < n
    BY <1>3
  <2>2. shift[s] = ShiftedOut(Slotted(f[s], y), x) /\ m_sbm[s] = Slotted(f[s], y)
    BY <1>2, <2>1
  <2>3. PICK i \in 0 .. Objs - 1 : i = f[s]
    OBVIOUS
  <2>4. PICK p : p = m_oam[i].x
    OBVIOUS
  <2>5. p \in Nat
    BY <2>4 DEF MemType
  <2>6. Slotted(i, y).x = p
    BY <2>4 DEF Slotted
  <2>7. shift[s][1] = IF p <= x /\ x - p + 1 <= Wide THEN Slotted(i, y).pixels[x - p + 1] ELSE 0
    BY <1>3, <2>2, <2>3, <2>6 DEF ShiftedOut
  <2>8. CASE p <= x /\ x - p + 1 <= Wide
    <3>1. x - p + 1 \in 1 .. Wide
      BY <1>3, <2>5, <2>8
    <3>2. Slotted(i, y).pixels[x - p + 1] = Colour(i, y, p + (x - p + 1) - 1)
      BY <2>4, <3>1 DEF Slotted
    <3>3. p + (x - p + 1) - 1 = x
      BY <2>5
    <3> QED
      BY <2>2, <2>3, <2>7, <2>8, <3>2, <3>3
  <2>9. CASE ~(p <= x /\ x - p + 1 <= Wide)
    <3>1. ~(x - p \in 0 .. Wide - 1)
      BY <1>3, <2>5, <2>9
    <3>2. Colour(i, y, x) = 0
      BY <2>4, <3>1 DEF Colour
    <3> QED
      BY <2>2, <2>3, <2>7, <2>9, <3>2
  <2> QED
    BY <2>8, <2>9
<1>5. ASSUME NEW s \in 0 .. Slots - 1, ~(s < n)
      PROVE  shift[s][1] = 0
  <2>1. shift[s] = ShiftedOut(Empty, x)
    BY <1>2, <1>5
  <2>2. Empty.x = 0 /\ Empty.pixels = Blank
    BY DEF Empty
  <2>3. \A k \in 1 .. Wide : Blank[k] = 0
    BY DEF Blank
  <2>4. shift[s][1] = IF 0 <= x /\ x - 0 + 1 <= Wide THEN Blank[x - 0 + 1] ELSE 0
    BY <1>3, <2>1, <2>2 DEF ShiftedOut
  <2>5. CASE x + 1 <= Wide
    <3>1. x - 0 + 1 \in 1 .. Wide
      BY <1>3, <2>5
    <3> QED
      BY <2>3, <2>4, <3>1
  <2>6. CASE ~(x + 1 <= Wide)
    BY <2>4, <2>6, <1>3
  <2> QED
    BY <2>5, <2>6
<1> DEFINE visible == {i \in Chosen(y) : Colour(i, y, x) # 0}
<1>6. Opaque = {s \in 0 .. n - 1 : Colour(f[s], y, x) # 0}
  <2>1. \A s \in 0 .. Slots - 1 : shift[s][1] # 0 <=> (s \in 0 .. n - 1 /\ Colour(f[s], y, x) # 0)
    BY <1>3, <1>4, <1>5
  <2> QED
    BY <1>3, <2>1 DEF Opaque
<1>7. Chosen(y) = {f[k] : k \in 0 .. n - 1}
  BY <1>2, ListedAreChosen
<1>8. visible = {f[s] : s \in Opaque}
  BY <1>6, <1>7
<1>9. CASE x < Clip \/ Opaque = {}
  <2>1. x < Clip \/ visible = {}
    BY <1>8, <1>9
  <2> QED
    BY <1>9, <2>1 DEF Pixel, Picture
<1>10. CASE ~(x < Clip) /\ Opaque # {}
  <2>1. Opaque \in SUBSET Nat
    BY <1>3, <1>6
  <2>2. PICK s \in Opaque : \A t \in Opaque : s <= t
    BY <1>10, <2>1, LeastOf
  <2>3. s = CHOOSE t \in Opaque : \A u \in Opaque : t <= u
    <3>1. \A t \in Opaque : (\A u \in Opaque : t <= u) => t = s
      BY <2>1, <2>2
    <3> QED
      BY <2>2, <3>1
  <2>4. s \in 0 .. n - 1
    BY <1>6
  <2>5. \A t \in Opaque : f[s] <= f[t] /\ f[t] \in Int
    <3> SUFFICES ASSUME NEW t \in Opaque
                 PROVE  f[s] <= f[t] /\ f[t] \in Int
      OBVIOUS
    <3>1. t \in 0 .. n - 1 /\ s <= t
      BY <1>6, <2>2
    <3>2. f[s] \in Int /\ f[t] \in Int
      BY <2>4, <3>1
    <3>3. CASE s = t
      BY <3>2, <3>3
    <3>4. CASE s < t
      BY <1>2, <2>4, <3>1, <3>2, <3>4 DEF Lists
    <3> QED
      BY <2>4, <3>1, <3>2, <3>3, <3>4
  <2>6. f[s] \in visible /\ \A k \in visible : f[s] <= k /\ k \in Int
    BY <1>8, <2>5
  <2> HIDE DEF visible
  <2>7. f[s] = CHOOSE j \in visible : \A k \in visible : j <= k
    <3>1. \A j \in visible : (\A k \in visible : j <= k) => j = f[s]
      BY <2>6
    <3> QED
      BY <2>6, <3>1
  <2>8. PICK i : i = f[s]
    OBVIOUS
  <2>9. Pixel = [primary |-> m_sbm[s].primary, priority |-> m_sbm[s].priority,
                 ps |-> m_sbm[s].ps, pd |-> shift[s][1]]
    BY <1>10, <2>3 DEF Pixel
  <2>10. Picture(y, x) = [primary |-> i = 0, priority |-> m_oam[i].priority,
                          ps |-> m_oam[i].ps, pd |-> Colour(i, y, x)]
    BY <1>10, <2>6, <2>7, <2>8 DEF Picture, visible
  <2>11. m_sbm[s] = Slotted(i, y) /\ shift[s][1] = Colour(i, y, x)
    BY <1>4, <2>4, <2>8
  <2>12. /\ m_sbm[s].primary = (i = 0) /\ m_sbm[s].priority = m_oam[i].priority
         /\ m_sbm[s].ps = m_oam[i].ps
    BY <2>11 DEF Slotted
  <2> QED
    BY <2>9, <2>10, <2>11, <2>12
<1> QED
  BY <1>9, <1>10

\* After the objects have been looked at, the temporary memory rests.
LEMMA MemoryRests ==
    ASSUME SprType, Dot, Width - 1 <= x, x # ResetDot
    PROVE  in_rng_cnt' = in_rng_cnt /\ m_stm' = m_stm
<1>1. ~ObjectDue
  <2>1. x >= Width \/ x = 4 * Objs - 1
    BY Sizes DEF SprType
  <2>2. \A n \in Nat : n > 0 => (4 * n - 1) % 4 = 3
    OBVIOUS
  <2>3. x >= Width \/ x % 4 = 3
    BY <2>1, <2>2, Sizes
  <2> QED
    BY <2>3, Sizes DEF ObjectDue, SprType
<1> QED
  BY <1>1 DEF Dot, Evaluate, ResetCount, TakeObject, evaluation

\* The four dots of each slot.
LEMMA DotFetches ==
    ASSUME SprType, MemType, Fetched, Dot, quiet > 0, en, nes_y_next(line) < Rows,
           Width - 1 <= x, x < ResetDot
    PROVE  Fetched'
<1>0. x \in Nat /\ Slots \in Nat /\ Slots > 0 /\ Width \in Nat /\ ResetDot = Width + 4 * Slots
  BY Sizes DEF SprType
<1>1. x' = x + 1 /\ line' = line /\ Fetch(line, x + 1)
  BY Sizes DEF Dot, SprType
<1>2. in_rng_cnt' = in_rng_cnt /\ m_stm' = m_stm
  BY <1>0, MemoryRests
<1>3. DOMAIN m_sbm = 0 .. Slots - 1
  BY DEF MemType
<1> DEFINE Right(s) == m_sbm[s] = IF s < in_rng_cnt THEN Drawn(m_stm[s]) ELSE Empty
           RightNow(s) == m_sbm'[s] = IF s < in_rng_cnt THEN Drawn(m_stm[s]) ELSE Empty
<1>4. ASSUME NEW s \in 0 .. Slots - 1, Width + 4 * s + 2 <= x
      PROVE  Right(s)
  <2>1. Width <= x /\ x <= ResetDot
    BY <1>0, <1>4
  <2> QED
    BY <1>4, <2>1 DEF Fetched
<1>5. CASE x + 1 = ResetDot
  <2>1. ~Fetching(line, x + 1)
    BY <1>0, <1>5 DEF Fetching
  <2>2. m_sbm' = m_sbm
    BY <1>1, <2>1 DEF Fetch, buffers
  <2>3. ASSUME NEW s \in 0 .. Slots - 1, Width + 4 * s + 2 <= x + 1
        PROVE  RightNow(s)
    <3>1. Width + 4 * s + 2 <= x
      BY <1>0, <1>5, <2>3
    <3> QED
      BY <1>4, <2>2, <3>1
  <2> QED
    BY <1>1, <1>2, <1>5, <2>3 DEF Fetched
<1>6. CASE x + 1 < ResetDot
  <2>1. PICK c, g : c = Slot(x + 1) /\ g = Stage(x + 1)
    OBVIOUS
  <2>2. /\ c \in 0 .. Slots - 1 /\ g \in 0 .. 3 /\ x + 1 = Width + 4 * c + g
        /\ g > 0 => Slot(x) = c /\ Stage(x) = g - 1 /\ Width <= x
    <3>1. PICK z \in 0 .. 4 * Slots - 1 : x + 1 = Width + z
      <4>1. x + 1 - Width \in 0 .. 4 * Slots - 1 /\ x + 1 = Width + (x + 1 - Width)
        BY <1>0, <1>6
      <4> QED
        BY <4>1
    <3>2. c = z \div 4 /\ g = z % 4
      <4>1. (x + 1) - Width = z
        BY <1>0, <3>1
      <4> QED
        BY <2>1, <4>1 DEF Slot, Stage
    <3>3. c \in 0 .. Slots - 1 /\ g \in 0 .. 3 /\ z = 4 * c + g
      BY <1>0, <3>1, <3>2
    <3>4. ASSUME g > 0
          PROVE  Slot(x) = c /\ Stage(x) = g - 1 /\ Width <= x
      <4>1. x - Width = z - 1 /\ Width <= x
        BY <1>0, <3>1, <3>3, <3>4
      <4>2. (z - 1) \div 4 = c /\ (z - 1) % 4 = g - 1
        BY <3>1, <3>3, <3>4
      <4> QED
        BY <4>1, <4>2 DEF Slot, Stage
    <3> QED
      BY <1>0, <3>1, <3>3, <3>4
  <2>3. Fetching(line, x + 1)
    BY <1>0, <1>6 DEF Fetching
  <2>4. ASSUME NEW s \in 0 .. Slots - 1, s < c
        PROVE  Right(s)
    <3>1. Width + 4 * s + 2 <= x
      BY <1>0, <2>2, <2>4
    <3> QED
      BY <1>4, <3>1
  <2>5. CASE c < in_rng_cnt
    <3>1. FetchObject(c, g)
      BY <1>1, <2>1, <2>3, <2>5, <2>2, Sizes DEF Fetch, SprType
    <3>2. ASSUME g > 0
          PROVE  pd0 = Bits(m_stm[c], 0) /\ (g > 1 => pd1 = Bits(m_stm[c], 1))
      <4>1. Slot(x) = c /\ Stage(x) = g - 1 /\ Width <= x /\ x < ResetDot /\ x <= ResetDot
        BY <1>0, <2>2, <3>2
      <4>2. pd0 = Bits(m_stm[c], 0) /\ (Stage(x) > 0 => pd1 = Bits(m_stm[c], 1))
        BY <2>5, <4>1 DEF Fetched
      <4> QED
        BY <2>2, <4>1, <4>2
    <3>3. FromVram(c, 0) = Bits(m_stm[c], 0) /\ FromVram(c, 1) = Bits(m_stm[c], 1)
      BY DEF FromVram, Bits
    <3>4. pd0' = Bits(m_stm[c], 0)
      BY <2>2, <3>1, <3>2, <3>3 DEF FetchObject
    <3>5. g > 0 => pd1' = Bits(m_stm[c], 1)
      BY <2>2, <3>1, <3>2, <3>3 DEF FetchObject
    <3>6. ASSUME g >= 2
          PROVE  RightNow(c)
      <4>1. CASE g = 2
        <5>1. SbmEntry(c) = Drawn(m_stm[c])
          BY <2>2, <3>2, <4>1 DEF SbmEntry, Drawn
        <5>2. m_sbm'[c] = SbmEntry(c)
          BY <1>3, <2>2, <3>1, <4>1 DEF FetchObject
        <5> QED
          BY <2>5, <5>1, <5>2
      <4>2. CASE g = 3
        <5>1. Width + 4 * c + 2 <= x
          BY <1>0, <2>2, <4>2
        <5>2. m_sbm' = m_sbm
          BY <3>1, <4>2 DEF FetchObject
        <5> QED
          BY <1>4, <2>2, <5>1, <5>2
      <4> QED
        BY <2>2, <3>6, <4>1, <4>2
    <3>7. ASSUME NEW s \in 0 .. Slots - 1, s # c
          PROVE  m_sbm'[s] = m_sbm[s]
      BY <1>3, <3>1, <3>7 DEF FetchObject
    <3>8. ASSUME NEW s \in 0 .. Slots - 1, Width + 4 * s + 2 <= x + 1
          PROVE  RightNow(s)
      <4>1. s < c \/ (s = c /\ g >= 2)
        BY <1>0, <2>2, <3>8
      <4>2. CASE s < c
        <5>1. Right(s) /\ m_sbm'[s] = m_sbm[s]
          BY <2>2, <2>4, <3>7, <4>2
        <5> QED
          BY <5>1
      <4> QED
        BY <3>6, <4>1, <4>2
    <3> HIDE DEF RightNow, Right
    <3>9. (\A s \in 0 .. Slots - 1 : Width + 4 * s + 2 <= x + 1 => RightNow(s))
      BY <3>8
    <3> QED
      BY <1>1, <1>2, <2>1, <3>4, <3>5, <3>9 DEF Fetched, RightNow
  <2>6. CASE ~(c < in_rng_cnt)
    <3>1. EmptySlot(c)
      BY <1>1, <2>1, <2>3, <2>6 DEF Fetch
    <3>2. m_sbm'[c] = Empty
      BY <1>3, <2>2, <3>1 DEF EmptySlot
    <3>3. ASSUME NEW s \in 0 .. Slots - 1, s # c
          PROVE  m_sbm'[s] = m_sbm[s]
      BY <1>3, <3>1, <3>3 DEF EmptySlot
    <3>4. ASSUME NEW s \in 0 .. Slots - 1, Width + 4 * s + 2 <= x + 1
          PROVE  RightNow(s)
      <4>1. s < c \/ s = c
        BY <1>0, <2>2, <3>4
      <4>2. CASE s < c
        <5>1. Right(s) /\ m_sbm'[s] = m_sbm[s]
          BY <2>2, <2>4, <3>3, <4>2
        <5> QED
          BY <5>1
      <4> QED
        BY <2>6, <3>2, <4>1, <4>2
    <3> HIDE DEF RightNow, Right
    <3>9. (\A s \in 0 .. Slots - 1 : Width + 4 * s + 2 <= x + 1 => RightNow(s))
      BY <3>4
    <3> QED
      BY <1>1, <1>2, <2>1, <2>6, <3>9 DEF Fetched, RightNow
  <2> QED
    BY <2>5, <2>6
<1> QED
  BY <1>0, <1>5, <1>6

\* Fetched objects in order are those of the next line.
AllFetched == SprType /\ MemType /\ Fetched /\ FirstInRange
              /\ quiet > 0 /\ x = ResetDot /\ nes_y_next(line) < Rows
LEMMA FetchedShows == AllFetched => Shows(nes_y_next(line))
<1> SUFFICES ASSUME SprType, MemType, Fetched, FirstInRange,
                    quiet > 0, x = ResetDot, nes_y_next(line) < Rows
             PROVE  Shows(nes_y_next(line))
  BY DEF AllFetched
<1>0. /\ Slots \in Nat /\ Slots > 0 /\ Objs \in Nat /\ Width = 4 * Objs
      /\ Width <= ResetDot /\ ResetDot = Width + 4 * Slots
  BY Sizes
<1>1. PICK y : y = nes_y_next(line)
  OBVIOUS
<1>2. PICK n \in 0 .. Slots : n = in_rng_cnt
  BY DEF SprType
<1>3. PICK f \in [0 .. n - 1 -> 0 .. Objs - 1] : Holds(f, y)
  BY <1>0, <1>1, <1>2 DEF FirstInRange
<1>4. Scanned = 0 .. Objs - 1 /\ DOMAIN f = 0 .. n - 1 /\ InRow(y) \subseteq 0 .. Objs - 1
  <2>1. \A i \in 0 .. Objs - 1 : 4 * i < x
    BY <1>0
  <2> QED
    BY <2>1 DEF Scanned, InRow
<1>5. Lists(f, n, y)
  BY <1>2, <1>3, <1>4 DEF Holds, Lists
<1>6. ASSUME NEW s \in 0 .. n - 1
      PROVE  Drawn(m_stm[s]) = Slotted(f[s], y)
  <2>1. m_stm[s] = StmEntry(f[s], y) /\ f[s] \in InRow(y)
    BY <1>3, <1>4 DEF Holds
  <2>2. PICK i \in 0 .. Objs - 1 : i = f[s]
    OBVIOUS
  <2>3. PICK e, o, row : /\ e = StmEntry(i, y) /\ o = m_oam[i]
                         /\ row = IF o.v_inv THEN High - 1 - rng_cmp_res(o, y) ELSE rng_cmp_res(o, y)
    OBVIOUS
  <2>4. /\ e.primary = (i = 0) /\ e.tile = o.tile /\ e.x = o.x /\ e.ps = o.ps
        /\ e.priority = o.priority /\ e.h_inv = o.h_inv /\ e.row = row
    BY <2>3 DEF StmEntry
  <2>5. o.x \in Nat
    BY <2>3 DEF MemType
  <2>6. ASSUME NEW k \in 1 .. Wide
        PROVE  2 * Bits(e, 1)[k] + Bits(e, 0)[k] = Colour(i, y, o.x + k - 1)
    <3>1. /\ (o.x + k - 1) - o.x = k - 1 /\ k - 1 \in 0 .. Wide - 1
          /\ Wide - (k - 1) = Wide + 1 - k /\ (k - 1) + 1 = k
      BY <2>5, Screen
    <3>2. PICK c : c = IF o.h_inv THEN Wide + 1 - k ELSE k
      OBVIOUS
    <3>3. c = IF o.h_inv THEN Wide - ((o.x + k - 1) - o.x) ELSE ((o.x + k - 1) - o.x) + 1
      BY <3>1, <3>2
    <3>4. Colour(i, y, o.x + k - 1) = 2 * Pattern[o.tile][row][1][c] + Pattern[o.tile][row][0][c]
      BY <2>3, <3>1, <3>3 DEF Colour
    <3>5. Bits(e, 1)[k] = Pattern[o.tile][row][1][c] /\ Bits(e, 0)[k] = Pattern[o.tile][row][0][c]
      BY <2>4, <3>2 DEF Bits
    <3> QED
      BY <3>4, <3>5
  <2>7. Drawn(e).pixels = Slotted(i, y).pixels
    BY <2>3, <2>6 DEF Drawn, Slotted
  <2>8. Drawn(e) = Slotted(i, y)
    BY <2>3, <2>4, <2>7 DEF Drawn, Slotted
  <2> QED
    BY <2>1, <2>2, <2>3, <2>8
<1>7. ASSUME NEW s \in 0 .. Slots - 1
      PROVE  m_sbm[s] = IF s < n THEN Slotted(f[s], y) ELSE Empty
  <2>1. Width + 4 * s + 2 <= x
    BY <1>0
  <2>2. m_sbm[s] = IF s < n THEN Drawn(m_stm[s]) ELSE Empty
    BY <1>0, <1>2, <2>1 DEF Fetched
  <2>3. s < n => s \in 0 .. n - 1
    BY <1>2
  <2> QED
    BY <1>6, <2>2, <2>3
<1> QED
  BY <1>1, <1>3, <1>5, <1>7 DEF Shows

\* What the slots show depends on them and on OAM alone.
LEMMA ShowsRests ==
    ASSUME NEW y, Shows(y), m_sbm' = m_sbm, m_oam' = m_oam
    PROVE  Shows(y)'
<1>1. InRow(y)' = InRow(y)
  BY DEF InRow, in_rng, rng_cmp_res, oam_rd_y
<1>2. \A i : Slotted(i, y)' = Slotted(i, y)
  BY DEF Slotted, Colour, rng_cmp_res, oam_rd_y
<1>3. \A n, f : Lists(f, n, y)' <=> Lists(f, n, y)
  BY <1>1 DEF Lists
<1> QED
  BY <1>2, <1>3 DEF Shows

\* What a dot of undisturbed lines says of the one before.
LEMMA DotQuiet ==
    ASSUME SprInv, Dot, quiet' > 0
    PROVE  /\ en /\ m_oam' = m_oam
           /\ x # LastDot => quiet = quiet' /\ x' = x + 1 /\ line' = line /\ quiet > 0
           /\ x = LastDot => x' = 0 /\ line' = NextLine /\ (quiet' = 2 => quiet > 0)
<1>1. /\ x' = IF x = LastDot THEN 0 ELSE x + 1
      /\ line' = IF x = LastDot THEN NextLine ELSE line
      /\ m_oam' = m_oam
      /\ quiet' = IF x' # 0 THEN quiet ELSE IF ~(reset /\ en) THEN 0
                  ELSE IF quiet = 2 THEN 2 ELSE quiet + 1
  BY DEF Dot
<1>2. quiet \in 0 .. 2 /\ x \in Nat /\ (quiet > 0 => en)
  BY Sizes DEF SprInv, SprType, QuietEnabled
<1> QED
  BY <1>1, <1>2

LEMMA SlotsRest ==
    ASSUME SprType, Dot, x' < Width \/ x' >= ResetDot
    PROVE  m_sbm' = m_sbm
<1>1. \A l : ~Fetching(l, x')
  BY Sizes DEF Fetching, Dot, SprType
<1>2. \E l : Fetch(l, x')
  BY DEF Dot
<1> QED
  BY <1>1, <1>2 DEF Fetch, buffers

LEMMA DotKeepsMem == SprType /\ MemType /\ Dot => MemType'
<1> SUFFICES ASSUME SprType, MemType, Dot
             PROVE  MemType'
  OBVIOUS
<1>1. line' \in 0 .. Lines - 1
  <2>1. line \in Nat /\ (line + 1) % Lines \in 0 .. Lines - 1
    BY Screen DEF MemType
  <2> QED
    BY <2>1 DEF Dot, NextLine, MemType
<1>2. m_oam' = m_oam
  BY DEF Dot
<1>3. PICK d, l : Fetch(l, d) /\ Shift(l, d) /\ (Fetching(l, d) => d \in Width .. ResetDot - 1)
  BY DEF Dot, Fetching
<1>4. ASSUME NEW s \in 0 .. Slots - 1
      PROVE  Whole(shift'[s])
  <2>1. Whole(m_sbm[s].pixels) /\ Whole(shift[s])
    BY DEF MemType
  <2>2. Whole(Shifted(shift[s]))
    BY <2>1, ShiftOnce DEF Whole
  <2>3. shift'[s] \in {m_sbm[s].pixels, Shifted(shift[s]), shift[s]}
    BY <1>3 DEF Shift
  <2> QED
    BY <2>1, <2>2, <2>3
<1>5. DOMAIN m_sbm' = 0 .. Slots - 1 /\ \A s \in 0 .. Slots - 1 : Whole(m_sbm'[s].pixels)
  <2>1. DOMAIN m_sbm = 0 .. Slots - 1 /\ \A s \in 0 .. Slots - 1 : Whole(m_sbm[s].pixels)
    BY DEF MemType
  <2>2. \A c : Whole(SbmEntry(c).pixels)
    BY DEF SbmEntry, Whole
  <2>3. Whole(Empty.pixels)
    BY DEF Empty, Blank, Whole
  <2>4. PICK e : /\ Whole(e.pixels)
                 /\ m_sbm' = m_sbm \/ \E c : m_sbm' = [m_sbm EXCEPT ![c] = e]
    BY <1>3, <2>2, <2>3 DEF Fetch, FetchObject, EmptySlot, buffers
  <2> QED
    BY <2>1, <2>4
<1> QED
  BY <1>1, <1>2, <1>4, <1>5 DEF MemType

ShownInv == SprInv /\ MemType /\ Fetched /\ SetUp /\ InUse /\ Drained /\ Shifting

LEMMA DotKeepsFetched == ShownInv /\ Dot => Fetched'
<1> SUFFICES ASSUME ShownInv, Dot, quiet' > 0, nes_y_next(line') < Rows, Width <= x', x' <= ResetDot
             PROVE  Fetched'
  BY DEF Fetched, nes_y_next
<1>1. SprInv /\ SprType /\ MemType /\ Fetched
  BY DEF ShownInv, SprInv
<1>2. x # LastDot
  BY <1>1, DotQuiet, Sizes
<1>3. Width - 1 <= x /\ x < ResetDot
  BY <1>1, <1>2, DotQuiet, Sizes DEF SprType
<1> QED
  BY <1>1, <1>2, <1>3, DotQuiet, DotFetches DEF nes_y_next

LEMMA DotKeepsSetUp == ShownInv /\ Dot /\ SprInv' /\ MemType' /\ Fetched' => SetUp' /\ InUse'
<1> SUFFICES ASSUME ShownInv, Dot, SprInv', MemType', Fetched'
             PROVE  SetUp' /\ InUse'
  OBVIOUS
<1>1. SprInv /\ SprType /\ SetUp /\ InUse /\ MemType
  BY DEF ShownInv, SprInv
<1>2. ASSUME quiet' > 0, nes_y_next(line') < Rows, x' >= ResetDot
      PROVE  Shows(nes_y_next(line))'
  <2>1. x # LastDot
    BY <1>1, <1>2, DotQuiet, Sizes
  <2>2. x' = x + 1 /\ line' = line /\ quiet > 0 /\ m_oam' = m_oam
    BY <1>1, <1>2, <2>1, DotQuiet
  <2>3. CASE x' = ResetDot
    <3>1. AllFetched'
      BY <1>2, <2>3 DEF AllFetched, SprInv, nes_y_next
    <3> QED
      BY <3>1, FetchedShows, PTL
  <2>4. CASE x' # ResetDot
    <3>1. x >= ResetDot
      BY <1>1, <1>2, <2>2, <2>4, Sizes DEF SprType
    <3>2. Shows(nes_y_next(line))
      BY <1>1, <1>2, <2>2, <3>1 DEF SetUp, nes_y_next
    <3>3. m_sbm' = m_sbm
      BY <1>1, <1>2, SlotsRest
    <3>4. PICK y : y = nes_y_next(line) /\ y = nes_y_next(line')
      BY <2>2
    <3>5. Shows(y)'
      BY <2>2, <3>2, <3>3, <3>4, ShowsRests
    <3> QED
      BY <3>4, <3>5 DEF nes_y_next
  <2> QED
    BY <2>3, <2>4
<1>3. ASSUME quiet' = 2, nes_y(line') < Rows, x' < Width
      PROVE  Shows(nes_y(line))'
  <2>1. m_sbm' = m_sbm /\ m_oam' = m_oam
    BY <1>1, <1>3, SlotsRest, DotQuiet
  <2>2. PICK y : y = nes_y(line')
    OBVIOUS
  <2>3. Shows(y)
    <3>1. CASE x = LastDot
      <4>1. line' = NextLine /\ quiet > 0 /\ x >= ResetDot
        BY <1>1, <1>3, <3>1, DotQuiet, Sizes
      <4>2. nes_y_next(line) = y
        BY <2>2, <4>1 DEF nes_y, nes_y_next, NextLine
      <4> QED
        BY <1>1, <1>3, <2>2, <4>1, <4>2 DEF SetUp
    <3>2. CASE x # LastDot
      <4>1. line' = line /\ quiet = 2 /\ x < Width
        BY <1>1, <1>3, <3>2, DotQuiet, Sizes DEF SprType
      <4> QED
        BY <1>1, <1>3, <2>2, <4>1 DEF InUse, nes_y
    <3> QED
      BY <3>1, <3>2
  <2>4. Shows(y)'
    BY <2>1, <2>3, ShowsRests
  <2> QED
    BY <2>2, <2>4 DEF nes_y
<1> QED
  BY <1>2, <1>3 DEF SetUp, InUse, nes_y, nes_y_next

LEMMA DotKeepsDrained == ShownInv /\ Dot => Drained'
<1> SUFFICES ASSUME ShownInv, Dot, quiet' > 0, nes_y(line') < Rows, x' >= Width,
                    NEW s \in 0 .. Slots - 1, NEW k \in 1 .. Wide, k + x' > Wide + Width - 1
             PROVE  shift'[s][k] = 0
  BY DEF Drained, nes_y
<1>1. SprInv /\ SprType /\ MemType /\ Drained
  BY DEF ShownInv, SprInv
<1>2. x # LastDot
  BY <1>1, DotQuiet, Sizes
<1>3. x' = x + 1 /\ line' = line /\ quiet > 0 /\ en /\ x \in Nat /\ x + 1 >= Width
  BY <1>1, <1>2, DotQuiet, Sizes DEF SprType
<1>4. Shift(line, x + 1) /\ Outputs(line)
  BY <1>2, <1>3 DEF Dot, Outputs, nes_y
<1>5. shift'[s] = Shifted(shift[s])
  BY <1>3, <1>4, Sizes DEF Shift
<1>6. shift'[s] = [j \in 1 .. Wide |-> IF j < Wide THEN shift[s][j + 1] ELSE 0]
  BY <1>1, <1>5, ShiftOnce DEF MemType
<1>7. CASE k < Wide
  <2>1. x >= Width /\ k + 1 \in 1 .. Wide /\ (k + 1) + x > Wide + Width - 1
    BY <1>3, <1>7, Screen, Sizes
  <2>2. shift[s][k + 1] = 0
    BY <1>1, <1>3, <2>1 DEF Drained, nes_y
  <2> QED
    BY <1>6, <1>7, <2>2
<1>8. CASE ~(k < Wide)
  BY <1>6, <1>8
<1> QED
  BY <1>7, <1>8

LEMMA DotKeepsShifting == ShownInv /\ Dot => Shifting'
<1> SUFFICES ASSUME ShownInv, Dot, quiet' = 2, nes_y(line') \in Border .. Rows - 1, x' < Width,
                    NEW s \in 0 .. Slots - 1
             PROVE  shift'[s] = ShiftedOut(m_sbm'[s], x')
  BY DEF Shifting, nes_y
<1>1. SprInv /\ SprType /\ MemType /\ Drained /\ Shifting /\ SetUp /\ InUse
  BY DEF ShownInv, SprInv
<1>2. m_sbm' = m_sbm /\ en /\ x \in Nat /\ line \in Nat /\ line < Lines
  BY <1>1, SlotsRest, DotQuiet, Sizes, Screen DEF SprType, MemType
<1>3. PICK e : e = m_sbm[s]
  OBVIOUS
<1>4. Whole(shift[s]) /\ Whole(e.pixels)
  BY <1>1, <1>3 DEF MemType
<1>5. Shifted(shift[s]) = [k \in 1 .. Wide |-> IF k < Wide THEN shift[s][k + 1] ELSE 0]
  BY <1>4, ShiftOnce
<1>6. ASSUME NEW y, Shows(y)
      PROVE  e.x \in Nat
  <2>1. \/ e = Empty
        \/ \E i \in 0 .. Objs - 1 : e = Slotted(i, y)
    BY <1>3, <1>6 DEF Shows
  <2> QED
    BY <1>1, <2>1 DEF Empty, Slotted, MemType
<1>7. CASE x = LastDot
  <2>1. x' = 0 /\ line' = NextLine /\ quiet > 0
    BY <1>1, <1>7, DotQuiet
  <2>2. nes_y(line) < Rows
    <3>1. NextLine = IF line + 1 = Lines THEN 0 ELSE line + 1
      BY <1>2, Screen DEF NextLine
    <3>2. line' = line + 1
      <4>1. 0 \div 2 = 0
        OBVIOUS
      <4> QED
        BY <2>1, <3>1, <4>1, Screen DEF nes_y
    <3>3. line \div 2 <= (line + 1) \div 2 /\ line \div 2 \in Nat /\ (line + 1) \div 2 \in Nat
      BY <1>2
    <3> QED
      BY <3>2, <3>3, Screen DEF nes_y
  <2>3. e.x \in Nat
    <3>1. Shows(nes_y_next(line))
      <4>1. nes_y_next(line) = nes_y(line') /\ x >= ResetDot
        BY <1>7, <2>1, Sizes DEF nes_y, nes_y_next, NextLine
      <4>2. nes_y_next(line) < Rows
        BY <4>1, Screen
      <4> QED
        BY <1>1, <2>1, <4>1, <4>2 DEF SetUp
    <3> QED
      BY <1>6, <3>1
  <2>4. \A k \in 1 .. Wide : shift[s][k] = 0
    <3>1. \A k \in 1 .. Wide : k + x > Wide + Width - 1 /\ x >= Width
      BY <1>7, Sizes, Screen
    <3> QED
      BY <1>1, <2>1, <2>2, <3>1 DEF Drained
  <2>5. Shift(NextLine, 0) /\ Outputs(line) /\ Outputs(NextLine)
    BY <1>2, <1>7, <2>1, <2>2, Screen DEF Dot, Outputs, nes_y
  <2>6. CASE e.x = 0
    <3>1. shift'[s] = e.pixels
      BY <1>3, <2>5, <2>6, Sizes DEF Shift
    <3>2. ShiftedOut(e, 0) = [k \in 1 .. Wide |-> e.pixels[k]]
      BY <2>6, Screen DEF ShiftedOut
    <3> QED
      BY <1>2, <1>3, <1>4, <2>1, <3>1, <3>2 DEF Whole
  <2>7. CASE e.x # 0
    <3>1. shift'[s] = Shifted(shift[s])
      BY <1>3, <2>5, <2>7 DEF Shift
    <3>2. ShiftedOut(e, 0) = [k \in 1 .. Wide |-> 0]
      BY <2>3, <2>7 DEF ShiftedOut
    <3>3. Shifted(shift[s]) = [k \in 1 .. Wide |-> 0]
      BY <1>5, <2>4, Screen
    <3> QED
      BY <1>2, <1>3, <2>1, <3>1, <3>2, <3>3
  <2> QED
    BY <2>6, <2>7
<1>8. CASE x # LastDot
  <2>1. x' = x + 1 /\ line' = line /\ quiet = 2 /\ x < Width
    BY <1>1, <1>2, <1>8, DotQuiet, Sizes
  <2>2. shift[s] = ShiftedOut(e, x)
    BY <1>1, <1>3, <2>1 DEF Shifting, nes_y
  <2>3. e.x \in Nat
    <3>1. Shows(nes_y(line))
      BY <1>1, <2>1, Screen DEF InUse, nes_y
    <3> QED
      BY <1>6, <3>1
  <2>4. Shift(line, x + 1) /\ Outputs(line)
    BY <1>2, <1>8, <2>1, Screen DEF Dot, Outputs, nes_y
  <2>5. CASE e.x = x + 1
    <3>1. shift'[s] = e.pixels
      BY <1>3, <2>1, <2>4, <2>5 DEF Shift
    <3>2. ShiftedOut(e, x + 1) = [k \in 1 .. Wide |-> e.pixels[k]]
      BY <1>2, <2>5, Screen DEF ShiftedOut
    <3> QED
      BY <1>2, <1>3, <1>4, <2>1, <3>1, <3>2 DEF Whole
  <2>6. CASE e.x # x + 1
    <3>1. shift'[s] = Shifted(shift[s])
      BY <1>3, <2>4, <2>6 DEF Shift
    <3>2. ASSUME NEW k \in 1 .. Wide
          PROVE  (IF k < Wide THEN shift[s][k + 1] ELSE 0)
                 = IF e.x <= x + 1 /\ (x + 1) - e.x + k <= Wide THEN e.pixels[(x + 1) - e.x + k] ELSE 0
      <4>1. CASE k < Wide
        <5>1. k + 1 \in 1 .. Wide
          BY <4>1, Screen
        <5>2. shift[s][k + 1] = IF e.x <= x /\ x - e.x + (k + 1) <= Wide
                                THEN e.pixels[x - e.x + (k + 1)] ELSE 0
          BY <2>2, <5>1 DEF ShiftedOut
        <5>3. x - e.x + (k + 1) = (x + 1) - e.x + k /\ (e.x <= x <=> e.x <= x + 1)
          BY <1>2, <2>3, <2>6
        <5> QED
          BY <4>1, <5>2, <5>3
      <4>2. CASE ~(k < Wide)
        <5>1. ~(e.x <= x + 1 /\ (x + 1) - e.x + k <= Wide)
          BY <1>2, <2>3, <2>6, <4>2, Screen
        <5> QED
          BY <4>2, <5>1
      <4> QED
        BY <4>1, <4>2
    <3>3. Shifted(shift[s]) = ShiftedOut(e, x + 1)
      BY <1>5, <3>2 DEF ShiftedOut
    <3> QED
      BY <1>2, <1>3, <2>1, <3>1, <3>3
  <2> QED
    BY <2>5, <2>6
<1> QED
  BY <1>7, <1>8

\* Every dot of the screen shows the picture, for every geometry, OAM and
\* pattern and whatever the program changes: the three memories are each filled
\* for the next line while they are read for this one.
THEOREM ScreenShowsSprites == Spec => []SpritesShown
<1>1. Init => MemType /\ Fetched /\ SetUp /\ InUse /\ Drained /\ Shifting
  <2> SUFFICES ASSUME Init
               PROVE  MemType /\ Fetched /\ SetUp /\ InUse /\ Drained /\ Shifting
    OBVIOUS
  <2>1. line \in 0 .. Lines - 1 /\ DOMAIN m_sbm = 0 .. Slots - 1
    BY Screen DEF Init
  <2>2. DOMAIN m_oam = 0 .. Objs - 1 /\ \A i \in 0 .. Objs - 1 : m_oam[i].x \in Nat
    BY ScreenAssumption DEF Init
  <2>3. Whole(Blank)
    BY DEF Blank, Whole
  <2>4. \A s \in 0 .. Slots - 1 : Whole(shift[s]) /\ Whole(m_sbm[s].pixels)
    BY <2>3 DEF Init, Empty
  <2>5. quiet = 0
    BY DEF Init
  <2> QED
    BY <2>1, <2>2, <2>4, <2>5 DEF MemType, Fetched, SetUp, InUse, Drained, Shifting
<1>2. ShownInv /\ SprInv' /\ [Next]_vars => ShownInv'
  <2> SUFFICES ASSUME ShownInv, SprInv', [Next]_vars
               PROVE  ShownInv'
    OBVIOUS
  <2>0. SprType /\ MemType
    BY DEF ShownInv, SprInv
  <2>1. CASE Dot
    <3>1. MemType'
      BY <2>0, <2>1, DotKeepsMem
    <3>2. Fetched'
      BY <2>1, DotKeepsFetched
    <3>3. SetUp' /\ InUse'
      BY <2>1, <3>1, <3>2, DotKeepsSetUp
    <3>4. Drained' /\ Shifting'
      BY <2>1, DotKeepsDrained, DotKeepsShifting
    <3> QED
      BY <3>1, <3>2, <3>3, <3>4 DEF ShownInv
  <2>2. CASE Program
    <3>1. quiet' = 0 /\ line' = line /\ m_sbm' = m_sbm /\ shift' = shift
      BY <2>2 DEF Program, buffers
    <3>2. DOMAIN m_oam' = 0 .. Objs - 1 /\ \A i \in 0 .. Objs - 1 : m_oam'[i].x \in Nat
      <4>1. DOMAIN m_oam = 0 .. Objs - 1 /\ \A i \in 0 .. Objs - 1 : m_oam[i].x \in Nat
        BY <2>0 DEF MemType
      <4>2. CASE m_oam' = m_oam
        BY <4>1, <4>2
      <4>3. CASE \E i \in DOMAIN m_oam, o \in Objects : m_oam' = [m_oam EXCEPT ![i] = o]
        BY <4>1, <4>3, ScreenAssumption
      <4> QED
        BY <2>2, <4>2, <4>3 DEF Program
    <3>3. MemType'
      BY <2>0, <3>1, <3>2 DEF MemType
    <3> QED
      BY <3>1, <3>3 DEF ShownInv, Fetched, SetUp, InUse, Drained, Shifting
  <2>3. CASE UNCHANGED vars
    <3>1. /\ line' = line /\ x' = x /\ en' = en /\ m_oam' = m_oam /\ m_sbm' = m_sbm
          /\ in_rng_cnt' = in_rng_cnt /\ m_stm' = m_stm /\ pd0' = pd0 /\ pd1' = pd1
          /\ shift' = shift /\ quiet' = quiet
      BY <2>3 DEF vars, evaluation, buffers
    <3>2. MemType' /\ Fetched' /\ Drained' /\ Shifting'
      BY <3>1 DEF ShownInv, MemType, Fetched, Drained, Shifting, nes_y, nes_y_next
    <3>3. \A y : Shows(y) => Shows(y)'
      BY <3>1, ShowsRests
    <3>4. SetUp' /\ InUse'
      BY <3>1, <3>3 DEF ShownInv, SetUp, InUse, nes_y, nes_y_next
    <3> QED
      BY <3>2, <3>4 DEF ShownInv
  <2> QED
    BY <2>1, <2>2, <2>3 DEF Next
<1>3. ShownInv => SpritesShown
  <2> SUFFICES ASSUME ShownInv, quiet = 2, x < Width, nes_y(line) \in Border .. Rows - 1
               PROVE  Pixel = Picture(nes_y(line), x)
    BY DEF SpritesShown
  <2>1. nes_y(line) < Rows
    BY Screen
  <2>2. Shows(nes_y(line)) /\ \A s \in 0 .. Slots - 1 : shift[s] = ShiftedOut(m_sbm[s], x)
    BY <2>1 DEF ShownInv, InUse, Shifting
  <2>3. en /\ x \in Nat /\ MemType
    BY Sizes DEF ShownInv, SprInv, SprType, QuietEnabled
  <2> QED
    BY <2>2, <2>3, SlotsShowThePicture
<1>4. SprInv /\ MemType /\ Fetched /\ SetUp /\ InUse /\ Drained /\ Shifting => ShownInv
  BY DEF ShownInv
<1> QED
  BY <1>1, <1>2, <1>3, <1>4, SprInvariant, PTL DEF Spec
=============================================================================
