----------------------------- MODULE UartProofs -----------------------------
(***************************************************************************)
(* Proofs that a byte sent over the serial line arrives once, unchanged and *)
(* before the transmitter drops it, for every width of a byte, parity mode, *)
(* number of stop bits, length of a bit and phase of the two baud clocks.   *)
(*                                                                         *)
(* The invariant says where in a frame the two ends are.  The transmitter   *)
(* and the receiver each are at a bit and at a clock of this bit; counting  *)
(* the receiver's half start bit as the last part of a whole one, it leads  *)
(* by a number of clocks that is fixed when it learns of the start bit:     *)
(* more than none, so that it is done first, and less than a bit without    *)
(* three clocks, so that what it samples is the bit it takes it for.        *)
(***************************************************************************)
EXTENDS Uart, FiniteSetTheorems, SequenceTheorems, TLAPS

\* A clock of a bit, counted from the bit's start.
Pos(cnt, baud) == cnt * TickClks + baud
BitClks == Oversample * TickClks

\* The receiver begins its start bit this many clocks late.
Skip == (Oversample - 1 - Centre) * TickClks

TxPos == Pos(t.cnt, tx_baud)
RxPos == Pos(r.cnt, rx_baud) + IF r.state = "START" THEN Skip ELSE 0

\* The bits of a frame in the order they are sent.
BitNo(state, idx) ==
    IF state = "START" THEN 0
    ELSE IF state = "DATA" THEN 1 + idx
    ELSE IF state = "PARITY" \/ ParityMode = 0 THEN DataBits + 1 ELSE DataBits + 2
TxBit == BitNo(t.state, t.idx)
RxBit == BitNo(r.state, r.idx)

\* What uart_tx is putting on the line.
OutBit == IF t.state = "START" THEN 0
          ELSE IF t.state = "DATA" THEN t.data[0]
          ELSE IF t.state = "PARITY" THEN t.parity ELSE 1

Busy == {"START", "DATA", "PARITY", "STOP"}
Front == Head(tx_q.items)

TxRegs == [state : Busy \cup {"IDLE"}, cnt : 0 .. Oversample - 1, data : Bytes,
           idx : 0 .. DataBits - 1, parity : {0, 1}, tx : {0, 1}, done : BOOLEAN]
RxRegs == [state : Busy \cup {"IDLE"}, cnt : 0 .. Oversample - 1, data : Bytes,
           idx : 0 .. DataBits - 1, rx : {0, 1}, done : BOOLEAN, err : BOOLEAN]

UartType ==
    /\ t \in TxRegs /\ r \in RxRegs
    /\ tx_baud \in 0 .. TickClks - 1 /\ rx_baud \in 0 .. TickClks - 1
    /\ delivered \in BOOLEAN /\ parity_err \in BOOLEAN
    /\ r.state = "START" => RxPos \in 0 .. BitClks - 1
    /\ tx_q.items \in Seq(Bytes) /\ Len(tx_q.items) <= Depth /\ QueueFlagsExact(tx_q, Depth)

\* What uart_tx still has of the front byte.
Sending ==
    /\ tx_q.items # <<>> /\ ~t.done
    /\ t.state = "START" => t.data = Front
    /\ t.state = "DATA" => \A j \in 0 .. DataBits - 1 - t.idx : t.data[j] = Front[j + t.idx]
    /\ t.state = "PARITY" => ParityMode # 0
    /\ t.state \in {"START", "DATA", "PARITY"} /\ ParityMode = 1 => t.parity = Not(XorBits(Front))

\* What uart_rx already has of it.
Receiving ==
    /\ r.state = "DATA" => \A j \in 0 .. r.idx - 1 : r.data[DataBits - r.idx + j] = Front[j]
    /\ r.state \in {"PARITY", "STOP"} => r.data = Front
    /\ r.state = "PARITY" => ParityMode # 0

\* Nothing is under way.
Resting ==
    /\ t.state = "IDLE" /\ r.state = "IDLE" /\ t.tx = 1 /\ r.rx = 1 /\ ~r.done
    /\ t.done <=> delivered
    /\ t.done => tx_q.items # <<>>

\* The start bit on its way, g clocks old.
StartingAt(g) ==
    /\ t.state = "START" /\ r.state = "IDLE"
    /\ t.tx = (IF g = 0 THEN 1 ELSE 0) /\ r.rx = (IF g = 2 THEN 0 ELSE 1)
    /\ TxPos \in g .. g + TickClks - 1
    /\ Sending /\ ~r.done /\ ~delivered
Starting == StartingAt(0) \/ StartingAt(1) \/ StartingAt(2)

\* The receiver is ahead by so many clocks.
Leads(lead) ==
    \/ RxBit = TxBit /\ RxPos = TxPos + lead
    \/ RxBit = TxBit + 1 /\ RxPos + BitClks = TxPos + lead

Underway ==
    /\ t.state \in Busy /\ r.state \in Busy
    /\ \E lead \in 1 .. BitClks - 4 : Leads(lead)
    /\ TxPos > 0 => t.tx = OutBit
    /\ TxPos > 1 => r.rx = OutBit
    /\ Sending /\ Receiving /\ ~r.done /\ ~delivered
    /\ r.state = "STOP" => StopBits = 1

\* The receiver is done, the transmitter in its stop bit.
Ending ==
    /\ StopBits = 1 /\ t.state = "STOP" /\ r.state = "IDLE" /\ t.tx = 1 /\ r.rx = 1
    /\ Sending /\ r.done = ~delivered /\ (r.done => r.data = Front)

\* More than one stop bit never ends.
Jammed ==
    /\ StopBits # 1 /\ t.state \in {"DATA", "PARITY", "STOP"} /\ r.state = "STOP"
    /\ ~t.done /\ ~r.done

NoParityError == ParityMode # 2 => ~r.err /\ ~parity_err

UartInv ==
    /\ UartType /\ NoParityError
    /\ Resting \/ Starting \/ Underway \/ Ending \/ Jammed

-----------------------------------------------------------------------------
(* Clocks.                                                                  *)
LEMMA Numbers ==
    /\ DataBits \in Nat /\ DataBits > 0 /\ StopBits \in Nat /\ StopBits > 0
    /\ Oversample \in Nat /\ Oversample >= 4 /\ TickClks \in Nat /\ TickClks >= 3
    /\ Depth \in Nat /\ Depth >= 3 /\ ParityMode \in {0, 1, 2}
    /\ Centre \in Nat /\ Centre >= 1 /\ Centre + 3 <= Oversample
<1>1. /\ DataBits \in Nat /\ DataBits > 0 /\ StopBits \in Nat /\ StopBits > 0
      /\ Oversample \in Nat /\ Oversample >= 4 /\ TickClks \in Nat /\ TickClks >= 3
      /\ Depth \in Nat /\ Depth >= 3 /\ ParityMode \in {0, 1, 2}
  BY UartAssumption, ClockAssumption
<1>2. \A n \in Nat : n >= 4 => LET c == (n - 1) \div 2 IN c \in Nat /\ c >= 1 /\ c + 3 <= n
  OBVIOUS
<1> QED
  BY <1>1, <1>2 DEF Centre

LEMMA Products ==
    ASSUME NEW a \in Nat, NEW b \in Nat, NEW k \in Nat, a <= b
    PROVE  /\ a * k \in Nat /\ b * k \in Nat /\ a * k <= b * k
           /\ (a + 1) * k = a * k + k
<1>1. a * k \in Nat /\ b * k \in Nat /\ (a + 1) * k = a * k + k
  BY Z3
<1>2. PICK c \in Nat : b = a + c
  <2>1. b - a \in Nat /\ b = a + (b - a)
    OBVIOUS
  <2> QED
    BY <2>1
<1>3. b * k = a * k + c * k /\ c * k \in Nat
  BY <1>2, Z3
<1> QED
  BY <1>1, <1>3

LEMMA Lengths ==
    /\ BitClks \in Nat /\ Skip \in Nat
    /\ BitClks >= 4 * TickClks /\ Skip >= 2 * TickClks /\ Skip + 2 * TickClks <= BitClks
<1>1. BitClks \in Nat /\ BitClks >= 4 * TickClks
  BY Numbers, Products DEF BitClks
<1>2. Oversample - 1 - Centre \in Nat /\ Oversample - 1 - Centre >= 2
  BY Numbers
<1>3. Skip \in Nat /\ Skip >= 2 * TickClks
  BY <1>2, Numbers, Products DEF Skip
<1>4. Skip + 2 * TickClks <= BitClks
  <2>1. PICK n \in Nat : n = Oversample - 1 - Centre
    BY <1>2
  <2>2. (n + 2) * TickClks <= Oversample * TickClks
    BY <2>1, Numbers, Products
  <2>3. (n + 2) * TickClks = n * TickClks + 2 * TickClks
    BY <2>1, Numbers, Z3
  <2> QED
    BY <2>1, <2>2, <2>3 DEF Skip, BitClks
<1> QED
  BY <1>1, <1>3, <1>4

\* One clock moves an end to the next clock of its bit or to the next bit.
LEMMA NextPos ==
    ASSUME NEW cnt \in 0 .. Oversample - 1, NEW baud \in 0 .. TickClks - 1
    PROVE  LET tick == baud_clk_tick(baud) IN
           /\ Pos(cnt, baud) \in 0 .. BitClks - 1
           /\ BitOver(cnt, tick) <=> Pos(cnt, baud) = BitClks - 1
           /\ (tick /\ cnt = Centre) <=> Pos(cnt, baud) + Skip = BitClks - 1
           /\ ~BitOver(cnt, tick) => Pos(NextCount(cnt, tick), BaudClock(baud)) = Pos(cnt, baud) + 1
           /\ BitOver(cnt, tick) => Pos(0, BaudClock(baud)) = 0
           /\ NextCount(cnt, tick) \in 0 .. Oversample - 1
           /\ BaudClock(baud) \in 0 .. TickClks - 1
           /\ Pos(0, BaudClock(baud)) = BaudClock(baud)
<1>0. PICK k, n, c : k = TickClks /\ n = Oversample /\ c = Centre
  OBVIOUS
<1>1. /\ k \in Nat /\ k >= 3 /\ n \in Nat /\ n >= 4 /\ c \in Nat /\ c + 3 <= n
      /\ cnt \in Nat /\ cnt <= n - 1 /\ baud \in Nat /\ baud <= k - 1
  BY <1>0, Numbers
<1>2. PICK p : p = cnt * k
  OBVIOUS
<1>3. p \in Nat /\ (cnt + 1) * k = p + k
  BY <1>1, <1>2, Products
<1>4. PICK q : q = (n - 1) * k
  OBVIOUS
<1>5. q \in Nat /\ BitClks = q + k
  <2>1. n - 1 \in Nat /\ (n - 1) + 1 = n
    BY <1>1
  <2> QED
    BY <1>0, <1>1, <1>4, <2>1, Products DEF BitClks
<1>6. (cnt = n - 1 => p = q) /\ (cnt # n - 1 => p + k <= q)
  <2>1. ASSUME cnt # n - 1
        PROVE  p + k <= q
    <3>1. cnt + 1 \in Nat /\ n - 1 \in Nat /\ cnt + 1 <= n - 1
      BY <1>1, <2>1
    <3>2. (cnt + 1) * k <= (n - 1) * k
      BY <1>1, <3>1, Products
    <3> QED
      BY <1>3, <1>4, <3>2
  <2> QED
    BY <1>2, <1>4, <2>1
<1>7. PICK s : s = c * k
  OBVIOUS
<1>8. s \in Nat /\ Skip + s = q
  <2>1. PICK e \in Nat : e = n - 1 - c
    BY <1>1
  <2>2. (e + c) * k = e * k + c * k /\ e + c = n - 1
    BY <1>1, <2>1, Z3
  <2> QED
    BY <1>0, <1>1, <1>4, <1>7, <2>1, <2>2, Products DEF Skip
<1>9. (cnt = c => p = s) /\ (cnt < c => p + k <= s) /\ (c < cnt => s + k <= p)
  <2>1. ASSUME NEW a \in Nat, NEW b \in Nat, a < b
        PROVE  a * k + k <= b * k
    <3>1. (a + 1) * k <= b * k /\ (a + 1) * k = a * k + k
      BY <1>1, <2>1, Products
    <3> QED
      BY <3>1
  <2> QED
    BY <1>1, <1>2, <1>7, <2>1
<1>10. (baud # k - 1 => (baud + 1) % k = baud + 1) /\ (baud = k - 1 => (baud + 1) % k = 0)
  BY <1>1
<1>11. cnt # n - 1 => (cnt + 1) % n = cnt + 1
  BY <1>1
<1>12. (cnt + 1) % n \in 0 .. n - 1
  BY <1>1
<1>13. Pos(cnt, baud) = p + baud
  BY <1>0, <1>2 DEF Pos
<1>14. \A b \in Nat : Pos(0, b) = b
  <2>1. 0 * k = 0
    BY <1>1
  <2> QED
    BY <1>0, <2>1 DEF Pos
<1>15. BaudClock(baud) = (baud + 1) % k /\ BaudClock(baud) \in 0 .. k - 1
  BY <1>0, <1>1 DEF BaudClock
<1>16. baud_clk_tick(baud) <=> baud = k - 1
  BY <1>0 DEF baud_clk_tick
<1>a. Pos(cnt, baud) \in 0 .. BitClks - 1
  BY <1>1, <1>3, <1>5, <1>6, <1>13
<1>b. BitOver(cnt, baud_clk_tick(baud)) <=> Pos(cnt, baud) = BitClks - 1
  BY <1>0, <1>1, <1>3, <1>5, <1>6, <1>13, <1>16 DEF BitOver
<1>c. (baud_clk_tick(baud) /\ cnt = Centre) <=> Pos(cnt, baud) + Skip = BitClks - 1
  <2>1. Skip = q - s
    BY <1>5, <1>8, Lengths
  <2> QED
    BY <1>0, <1>1, <1>3, <1>5, <1>8, <1>9, <1>13, <1>16, <2>1
<1>d. ASSUME ~BitOver(cnt, baud_clk_tick(baud))
      PROVE  Pos(NextCount(cnt, baud_clk_tick(baud)), BaudClock(baud)) = Pos(cnt, baud) + 1
  <2>1. CASE baud = k - 1
    <3>1. cnt # n - 1
      BY <1>0, <1>16, <1>d, <2>1 DEF BitOver
    <3>2. NextCount(cnt, baud_clk_tick(baud)) = cnt + 1 /\ BaudClock(baud) = 0
      BY <1>0, <1>10, <1>11, <1>15, <1>16, <2>1, <3>1 DEF NextCount
    <3>3. Pos(cnt + 1, 0) = p + k
      BY <1>0, <1>1, <1>3 DEF Pos
    <3> QED
      BY <1>1, <1>3, <1>13, <2>1, <3>2, <3>3
  <2>2. CASE baud # k - 1
    <3>1. NextCount(cnt, baud_clk_tick(baud)) = cnt /\ BaudClock(baud) = baud + 1
      BY <1>10, <1>15, <1>16, <2>2 DEF NextCount
    <3>2. Pos(cnt, baud + 1) = p + (baud + 1)
      BY <1>0, <1>2 DEF Pos
    <3> QED
      BY <1>1, <1>3, <1>13, <3>1, <3>2
  <2> QED
    BY <2>1, <2>2
<1>e. BitOver(cnt, baud_clk_tick(baud)) => Pos(0, BaudClock(baud)) = 0
  BY <1>10, <1>14, <1>15, <1>16 DEF BitOver
<1>f. NextCount(cnt, baud_clk_tick(baud)) \in 0 .. Oversample - 1
  BY <1>0, <1>12 DEF NextCount
<1>g. BaudClock(baud) \in 0 .. TickClks - 1 /\ Pos(0, BaudClock(baud)) = BaudClock(baud)
  BY <1>0, <1>1, <1>14, <1>15
<1> QED
  BY <1>a, <1>b, <1>c, <1>d, <1>e, <1>f, <1>g

-----------------------------------------------------------------------------
(* One clock of each part.                                                  *)
LEMMA BitTypes ==
    /\ Zeros \in Bytes
    /\ \A d \in Bytes, b \in {0, 1} : ShiftDown(d, b) \in Bytes
    /\ \A d \in Bytes : XorBits(d) \in {0, 1} /\ d[0] \in {0, 1}
    /\ \A b \in {0, 1} : Not(b) \in {0, 1}
<1>1. Zeros \in Bytes
  BY DEF Zeros, Bytes
<1>2. ASSUME NEW d \in Bytes, NEW b \in {0, 1}
      PROVE  ShiftDown(d, b) \in Bytes
  <2>1. \A i \in 0 .. DataBits - 1 : i # DataBits - 1 => i + 1 \in 0 .. DataBits - 1
    BY Numbers
  <2> QED
    BY <2>1 DEF ShiftDown, Bytes
<1>3. ASSUME NEW d \in Bytes
      PROVE  XorBits(d) \in {0, 1} /\ d[0] \in {0, 1}
  <2> DEFINE ones == {i \in 0 .. DataBits - 1 : d[i] = 1}
  <2>1. IsFiniteSet(0 .. DataBits - 1)
    BY Numbers, FS_Interval
  <2>2. IsFiniteSet(ones)
    BY <2>1, FS_Subset
  <2>3. Cardinality(ones) \in Nat
    BY <2>2, FS_CardinalityType
  <2> HIDE DEF ones
  <2>4. Cardinality(ones) % 2 \in {0, 1}
    BY <2>3
  <2>5. 0 \in 0 .. DataBits - 1
    BY Numbers
  <2> QED
    BY <2>4, <2>5 DEF XorBits, ones, Bytes
<1>4. \A b \in {0, 1} : Not(b) \in {0, 1}
  BY DEF Not
<1> QED
  BY <1>1, <1>2, <1>3, <1>4

LEMMA NoBytes == \A q \in Seq(Bytes) : Len(q) \in Nat /\ (q = <<>> <=> Len(q) = 0)
<1>1. /\ <<>> \in Seq(Bytes) /\ Len(<<>>) = 0
      /\ \A q \in Seq(Bytes) : (q # <<>>) => (Len(q) \in Nat \ {0})
  BY EmptySeq
<1> QED
  BY <1>1

LEMMA QueueMoves ==
    ASSUME UartType, NEW wr_en \in BOOLEAN, NEW b \in Bytes, wr_en => ~t.done,
           tx_q' = QueueCycle(tx_q, t.done, wr_en, b, Depth)
    PROVE  /\ tx_q'.items \in Seq(Bytes) /\ Len(tx_q'.items) <= Depth
           /\ QueueFlagsExact(tx_q', Depth)
           /\ tx_q.items # <<>> /\ ~t.done => tx_q'.items # <<>> /\ Front' = Front
<1>1. PICK s, n : s = tx_q.items /\ n = Len(s)
  OBVIOUS
<1>2. /\ s \in Seq(Bytes) /\ n \in Nat /\ (s = <<>> <=> n = 0)
      /\ (tx_q.empty <=> n = 0) /\ (tx_q.full <=> n = Depth) /\ n <= Depth
  BY <1>1 DEF UartType, TxRegs, RxRegs, QueueFlagsExact
<1>3. t.done \in BOOLEAN
  BY DEF UartType, TxRegs, RxRegs
<1>4. CASE t.done /\ n # 0
  <2>1. PICK u : u = Tail(s)
    OBVIOUS
  <2>2. u \in Seq(Bytes) /\ Len(u) = n - 1
    BY <1>1, <1>2, <1>4, <2>1
  <2>3. u = <<>> <=> n = 1
    <3>1. u = <<>> <=> Len(u) = 0
      BY <2>2, NoBytes
    <3> QED
      BY <1>2, <2>2, <3>1
  <2>4. n - 1 <= Depth /\ n - 1 # Depth
    BY <1>2, Numbers
  <2>5. /\ tx_q'.items = u
        /\ tx_q'.empty <=> n = 1
        /\ ~tx_q'.full
    BY <1>1, <1>2, <1>4, <2>1, Numbers DEF QueueCycle
  <2>6. QueueFlagsExact(tx_q', Depth)
    <3>1. tx_q'.empty <=> tx_q'.items = <<>>
      BY <2>3, <2>5
    <3>2. ~(Len(tx_q'.items) = Depth)
      BY <2>2, <2>4, <2>5
    <3> QED
      BY <2>5, <3>1, <3>2 DEF QueueFlagsExact
  <2>7. Len(tx_q'.items) <= Depth /\ tx_q'.items \in Seq(Bytes)
    BY <2>2, <2>4, <2>5
  <2> QED
    BY <1>4, <2>6, <2>7
<1>5. CASE ~(t.done /\ n # 0) /\ wr_en /\ n # Depth
  <2>1. /\ tx_q'.items = Append(s, b)
        /\ tx_q'.empty = FALSE
        /\ tx_q'.full = (tx_q.full \/ n = Depth - 1)
    BY <1>1, <1>2, <1>5, <1>3, Numbers DEF QueueCycle
  <2>2. Append(s, b) \in Seq(Bytes) /\ Len(Append(s, b)) = n + 1 /\ Append(s, b) # <<>>
    BY <1>1, <1>2
  <2>3. s # <<>> => Head(Append(s, b)) = Head(s)
    BY <1>1, <1>2
  <2>4. n + 1 = Depth <=> n = Depth - 1
    BY <1>2, Numbers
  <2>5. QueueFlagsExact(tx_q', Depth)
    BY <1>2, <1>5, <2>1, <2>2, <2>4 DEF QueueFlagsExact
  <2>6. n + 1 <= Depth
    BY <1>2, <1>5, Numbers
  <2> QED
    BY <1>1, <2>1, <2>2, <2>3, <2>5, <2>6 DEF Front
<1>6. CASE ~(t.done /\ n # 0) /\ ~(wr_en /\ n # Depth)
  <2>1. /\ tx_q'.items = s
        /\ tx_q'.empty <=> tx_q.empty
        /\ tx_q'.full <=> tx_q.full
    BY <1>1, <1>2, <1>6, <1>3 DEF QueueCycle
  <2> QED
    BY <1>1, <1>2, <2>1 DEF QueueFlagsExact, Front
<1> QED
  BY <1>3, <1>4, <1>5, <1>6

\* uart_tx before its stop bit.
LEMMA TxSends ==
    ASSUME UartType, TxClock, tx_baud' = BaudClock(tx_baud), t.state \in {"START", "DATA", "PARITY"}
    PROVE  /\ t'.tx = OutBit /\ t'.done = t.done /\ t'.parity = t.parity
           /\ TxPos \in 0 .. BitClks - 1
           /\ TxPos # BitClks - 1 => /\ TxPos' = TxPos + 1 /\ t'.state = t.state
                                     /\ t'.idx = t.idx /\ t'.data = t.data
           /\ TxPos = BitClks - 1 =>
                /\ TxPos' = 0
                /\ t.state = "START" => t'.state = "DATA" /\ t'.idx = 0 /\ t'.data = t.data
                /\ t.state = "DATA" =>
                     /\ t'.state = IF t.idx # DataBits - 1 THEN "DATA"
                                   ELSE IF ParityMode = 0 THEN "STOP" ELSE "PARITY"
                     /\ t'.idx = (t.idx + 1) % DataBits /\ t'.data = ShiftDown(t.data, 0)
                /\ t.state = "PARITY" => t'.state = "STOP"
<1>1. PICK c, b, tick : c = t.cnt /\ b = tx_baud /\ tick = baud_clk_tick(tx_baud)
  OBVIOUS
<1>2. c \in 0 .. Oversample - 1 /\ b \in 0 .. TickClks - 1 /\ tick = baud_clk_tick(b)
  BY <1>1 DEF UartType, TxRegs, RxRegs
<1>3. /\ Pos(c, b) \in 0 .. BitClks - 1
      /\ BitOver(c, tick) <=> Pos(c, b) = BitClks - 1
      /\ ~BitOver(c, tick) => Pos(NextCount(c, tick), BaudClock(b)) = Pos(c, b) + 1
      /\ BitOver(c, tick) => Pos(0, BaudClock(b)) = 0
  BY <1>2, NextPos
<1>4. TxPos = Pos(c, b) /\ TxPos' = Pos(t'.cnt, BaudClock(b))
  BY <1>1 DEF TxPos, Pos
<1>5. \A line, next : TxSend(line, next) <=>
         t' = IF BitOver(c, tick) THEN [next EXCEPT !.cnt = 0, !.tx = line]
              ELSE [t EXCEPT !.cnt = NextCount(c, tick), !.tx = line]
  BY <1>1 DEF TxSend
<1>6. t \in TxRegs
  BY DEF UartType, TxRegs, RxRegs
<1> USE DEF TxRegs
<1>7. CASE t.state = "START"
  <2>1. TxSend(0, [t EXCEPT !.state = "DATA", !.idx = 0])
    BY <1>7 DEF TxClock, TxStart
  <2>2. CASE BitOver(c, tick)
    <3>1. t' = [[t EXCEPT !.state = "DATA", !.idx = 0] EXCEPT !.cnt = 0, !.tx = 0]
      BY <1>5, <2>1, <2>2
    <3>2. /\ t'.cnt = 0 /\ t'.tx = 0 /\ t'.state = "DATA" /\ t'.idx = 0 /\ t'.data = t.data
          /\ t'.done = t.done /\ t'.parity = t.parity
      BY <1>6, <3>1
    <3> QED
      BY <1>3, <1>4, <1>7, <2>2, <3>2 DEF OutBit
  <2>3. CASE ~BitOver(c, tick)
    <3>1. t' = [t EXCEPT !.cnt = NextCount(c, tick), !.tx = 0]
      BY <1>5, <2>1, <2>3
    <3>2. /\ t'.cnt = NextCount(c, tick) /\ t'.tx = 0 /\ t'.state = t.state /\ t'.idx = t.idx
          /\ t'.data = t.data /\ t'.done = t.done /\ t'.parity = t.parity
      BY <1>6, <3>1
    <3> QED
      BY <1>3, <1>4, <1>7, <2>3, <3>2 DEF OutBit
  <2> QED
    BY <2>2, <2>3
<1>8. CASE t.state = "DATA"
  <2>0. PICK next : next = [t EXCEPT !.data = ShiftDown(t.data, 0),
                     !.idx = (t.idx + 1) % DataBits,
                     !.state = IF t.idx # DataBits - 1 THEN "DATA"
                               ELSE IF ParityMode = 0 THEN "STOP" ELSE "PARITY"]
    OBVIOUS
  <2>1. TxSend(t.data[0], next)
    BY <1>8, <2>0 DEF TxClock, TxData
  <2>2. CASE BitOver(c, tick)
    <3>1. t' = [next EXCEPT !.cnt = 0, !.tx = t.data[0]]
      BY <1>5, <2>1, <2>2
    <3>2. /\ t'.cnt = 0 /\ t'.tx = t.data[0]
          /\ t'.state = (IF t.idx # DataBits - 1 THEN "DATA"
                         ELSE IF ParityMode = 0 THEN "STOP" ELSE "PARITY")
          /\ t'.idx = (t.idx + 1) % DataBits /\ t'.data = ShiftDown(t.data, 0)
          /\ t'.done = t.done /\ t'.parity = t.parity
      BY <1>6, <2>0, <3>1
    <3> QED
      BY <1>3, <1>4, <1>8, <2>2, <3>2 DEF OutBit
  <2>3. CASE ~BitOver(c, tick)
    <3>1. t' = [t EXCEPT !.cnt = NextCount(c, tick), !.tx = t.data[0]]
      BY <1>5, <2>1, <2>3
    <3>2. /\ t'.cnt = NextCount(c, tick) /\ t'.tx = t.data[0] /\ t'.state = t.state /\ t'.idx = t.idx
          /\ t'.data = t.data /\ t'.done = t.done /\ t'.parity = t.parity
      BY <1>6, <3>1
    <3> QED
      BY <1>3, <1>4, <1>8, <2>3, <3>2 DEF OutBit
  <2> QED
    BY <2>2, <2>3
<1>9. CASE t.state = "PARITY"
  <2>1. TxSend(t.parity, [t EXCEPT !.state = "STOP"])
    BY <1>9 DEF TxClock, TxParity
  <2>2. CASE BitOver(c, tick)
    <3>1. t' = [[t EXCEPT !.state = "STOP"] EXCEPT !.cnt = 0, !.tx = t.parity]
      BY <1>5, <2>1, <2>2
    <3>2. /\ t'.cnt = 0 /\ t'.tx = t.parity /\ t'.state = "STOP"
          /\ t'.done = t.done /\ t'.parity = t.parity
      BY <1>6, <3>1
    <3> QED
      BY <1>3, <1>4, <1>9, <2>2, <3>2 DEF OutBit
  <2>3. CASE ~BitOver(c, tick)
    <3>1. t' = [t EXCEPT !.cnt = NextCount(c, tick), !.tx = t.parity]
      BY <1>5, <2>1, <2>3
    <3>2. /\ t'.cnt = NextCount(c, tick) /\ t'.tx = t.parity /\ t'.state = t.state /\ t'.idx = t.idx
          /\ t'.data = t.data /\ t'.done = t.done /\ t'.parity = t.parity
      BY <1>6, <3>1
    <3> QED
      BY <1>3, <1>4, <1>9, <2>3, <3>2 DEF OutBit
  <2> QED
    BY <2>2, <2>3
<1> QED
  BY <1>7, <1>8, <1>9

LEMMA StopTicks ==
    /\ StopBits = 1 => StopLast = Oversample - 1
    /\ StopBits # 1 => StopLast > Oversample - 1
<1>1. PICK n : n = StopBits * Oversample
  OBVIOUS
<1>2. StopBits = 1 => n = Oversample
  BY <1>1, Numbers
<1>3. StopBits # 1 => n > Oversample
  <2> SUFFICES ASSUME StopBits # 1
               PROVE  n > Oversample
    OBVIOUS
  <2>1. 2 <= StopBits /\ StopBits \in Nat /\ Oversample \in Nat /\ 2 \in Nat
    BY Numbers
  <2>2. 2 * Oversample <= n
    BY <1>1, <2>1, Products
  <2>3. n \in Nat
    BY <1>1, <2>1, Products
  <2> QED
    BY <2>2, <2>3, Numbers
<1>4. n \in Nat
  BY <1>1, Numbers, Products
<1> QED
  BY <1>1, <1>2, <1>3, <1>4, Numbers DEF StopLast, STOP_OVERSAMPLE_TICKS

\* uart_tx in its stop bit.
LEMMA TxStops ==
    ASSUME UartType, TxClock, tx_baud' = BaudClock(tx_baud), t.state = "STOP"
    PROVE  /\ t'.tx = 1 /\ TxPos \in 0 .. BitClks - 1
           /\ t'.data = t.data /\ t'.idx = t.idx /\ t'.parity = t.parity
           /\ StopBits = 1 /\ TxPos # BitClks - 1 =>
                 TxPos' = TxPos + 1 /\ t'.state = "STOP" /\ t'.done = FALSE
           /\ StopBits = 1 /\ TxPos = BitClks - 1 => t'.state = "IDLE" /\ t'.done = TRUE
           /\ StopBits # 1 => t'.state = "STOP" /\ t'.done = FALSE
           /\ t'.cnt \in 0 .. Oversample - 1
<1>1. PICK c, b, tick : c = t.cnt /\ b = tx_baud /\ tick = baud_clk_tick(tx_baud)
  OBVIOUS
<1>2. c \in 0 .. Oversample - 1 /\ b \in 0 .. TickClks - 1 /\ tick = baud_clk_tick(b)
  BY <1>1 DEF UartType, TxRegs, RxRegs
<1>3. /\ Pos(c, b) \in 0 .. BitClks - 1
      /\ BitOver(c, tick) <=> Pos(c, b) = BitClks - 1
      /\ ~BitOver(c, tick) => Pos(NextCount(c, tick), BaudClock(b)) = Pos(c, b) + 1
      /\ NextCount(c, tick) \in 0 .. Oversample - 1
  BY <1>2, NextPos
<1>4. TxPos = Pos(c, b) /\ TxPos' = Pos(t'.cnt, BaudClock(b))
  BY <1>1 DEF TxPos, Pos
<1>5. PICK over : over = (tick /\ c = StopLast)
  OBVIOUS
<1>6. t' = [t EXCEPT !.cnt = NextCount(c, tick), !.tx = 1, !.done = over,
                     !.state = IF over THEN "IDLE" ELSE "STOP"]
  BY <1>1, <1>5 DEF TxClock, TxStop
<1>7. /\ t'.cnt = NextCount(c, tick) /\ t'.tx = 1 /\ t'.done = over
      /\ t'.state = (IF over THEN "IDLE" ELSE "STOP")
      /\ t'.data = t.data /\ t'.idx = t.idx /\ t'.parity = t.parity
  BY <1>6 DEF UartType, TxRegs, RxRegs
<1>8. (StopBits = 1 => (over <=> BitOver(c, tick))) /\ (StopBits # 1 => ~over)
  <2>1. CASE StopBits = 1
    BY <1>5, <2>1, StopTicks DEF BitOver
  <2>2. CASE StopBits # 1
    <3>1. c # StopLast
      BY <1>2, <2>2, StopTicks, Numbers
    <3> QED
      BY <1>5, <2>2, <3>1
  <2> QED
    BY <2>1, <2>2
<1>9. over \in BOOLEAN
  BY <1>5
<1> QED
  BY <1>3, <1>4, <1>7, <1>8, <1>9

LEMMA TxIdles ==
    ASSUME UartType, TxClock, tx_baud' = BaudClock(tx_baud), t.state = "IDLE"
    PROVE  /\ t'.tx = 1 /\ t'.done = FALSE /\ t'.idx = t.idx
           /\ tx_start => /\ t'.state = "START" /\ t'.data = Front /\ TxPos' \in 0 .. TickClks - 1
                          /\ ParityMode = 1 => t'.parity = Not(XorBits(Front))
                          /\ t'.parity = ParityBit(Front) /\ t'.cnt = 0
           /\ ~tx_start => /\ t'.state = "IDLE" /\ t'.data = t.data /\ t'.parity = t.parity
                           /\ t'.cnt \in 0 .. Oversample - 1
<1>1. PICK c, b, tick : c = t.cnt /\ b = tx_baud /\ tick = baud_clk_tick(tx_baud)
  OBVIOUS
<1>2. c \in 0 .. Oversample - 1 /\ b \in 0 .. TickClks - 1 /\ tick = baud_clk_tick(b)
  BY <1>1 DEF UartType, TxRegs, RxRegs
<1>3. /\ NextCount(c, tick) \in 0 .. Oversample - 1
      /\ BaudClock(b) \in 0 .. TickClks - 1
      /\ Pos(0, BaudClock(b)) = BaudClock(b)
  BY <1>2, NextPos
<1>4. TxIdle
  BY DEF TxClock
<1>5. CASE tx_start
  <2>1. t' = [t EXCEPT !.state = "START", !.cnt = 0, !.data = Front,
                       !.parity = ParityBit(Front), !.tx = 1, !.done = FALSE]
    BY <1>4, <1>5 DEF TxIdle, Front
  <2>2. /\ t'.state = "START" /\ t'.cnt = 0 /\ t'.data = Front /\ t'.parity = ParityBit(Front)
        /\ t'.tx = 1 /\ t'.done = FALSE /\ t'.idx = t.idx
    BY <2>1 DEF UartType, TxRegs, RxRegs
  <2>3. TxPos' = Pos(0, BaudClock(b))
    BY <1>1, <2>2 DEF TxPos, Pos
  <2>4. ParityMode = 1 => ParityBit(Front) = Not(XorBits(Front))
    BY DEF ParityBit
  <2> QED
    BY <1>3, <1>5, <2>2, <2>3, <2>4
<1>6. CASE ~tx_start
  <2>1. t' = [t EXCEPT !.cnt = NextCount(c, tick), !.tx = 1, !.done = FALSE]
    BY <1>1, <1>4, <1>6 DEF TxIdle
  <2>2. /\ t'.cnt = NextCount(c, tick) /\ t'.tx = 1 /\ t'.done = FALSE /\ t'.idx = t.idx
        /\ t'.state = "IDLE" /\ t'.data = t.data /\ t'.parity = t.parity
    BY <2>1 DEF UartType, TxRegs, RxRegs
  <2> QED
    BY <1>3, <1>6, <2>2
<1> QED
  BY <1>5, <1>6

\* uart_rx within a frame.
LEMMA RxReceives ==
    ASSUME UartType, RxClock, rx_baud' = BaudClock(rx_baud), r.state \in Busy,
           r.state = "STOP" => StopBits = 1
    PROVE  /\ r'.rx = t.tx /\ RxPos \in 0 .. BitClks - 1
           /\ RxPos # BitClks - 1 =>
                /\ RxPos' = RxPos + 1 /\ r'.state = r.state /\ r'.idx = r.idx /\ r'.data = r.data
                /\ r'.done = FALSE /\ r'.err = FALSE
           /\ RxPos = BitClks - 1 =>
                /\ r.state # "STOP" => RxPos' = 0 /\ r'.done = FALSE
                /\ r.state # "PARITY" => r'.err = FALSE
                /\ r.state # "DATA" => r'.data = r.data
                /\ r.state = "START" => r'.state = "DATA" /\ r'.idx = 0
                /\ r.state = "DATA" =>
                     /\ r'.data = ShiftDown(r.data, r.rx)
                     /\ r'.idx = IF r.idx = DataBits - 1 THEN r.idx ELSE r.idx + 1
                     /\ r'.state = IF r.idx # DataBits - 1 THEN "DATA"
                                   ELSE IF ParityMode = 0 THEN "STOP" ELSE "PARITY"
                /\ r.state = "PARITY" =>
                     /\ r'.state = "STOP" /\ r'.idx = r.idx
                     /\ r'.err = (r.rx # IF ParityMode = 1 THEN Not(XorBits(r.data)) ELSE XorBits(r.data))
                /\ r.state = "STOP" => r'.state = "IDLE" /\ r'.done = TRUE /\ r'.idx = r.idx
<1>1. PICK c, b, tick : c = r.cnt /\ b = rx_baud /\ tick = baud_clk_tick(rx_baud)
  OBVIOUS
<1>2. c \in 0 .. Oversample - 1 /\ b \in 0 .. TickClks - 1 /\ tick = baud_clk_tick(b)
  BY <1>1 DEF UartType, TxRegs, RxRegs
<1>3. /\ Pos(c, b) \in 0 .. BitClks - 1
      /\ BitOver(c, tick) <=> Pos(c, b) = BitClks - 1
      /\ (tick /\ c = Centre) <=> Pos(c, b) + Skip = BitClks - 1
      /\ ~BitOver(c, tick) => Pos(NextCount(c, tick), BaudClock(b)) = Pos(c, b) + 1
      /\ BitOver(c, tick) => Pos(0, BaudClock(b)) = 0
      /\ Pos(0, BaudClock(b)) = BaudClock(b)
  BY <1>2, NextPos
<1>4. RxPos = Pos(c, b) + IF r.state = "START" THEN Skip ELSE 0
  BY <1>1 DEF RxPos
<1>5. RxPos' = Pos(r'.cnt, BaudClock(b)) + IF r'.state = "START" THEN Skip ELSE 0
  BY <1>1 DEF RxPos, Pos, Skip, Centre
<1>6. r \in RxRegs
  BY DEF UartType, TxRegs, RxRegs
<1> USE DEF RxRegs
<1>7. RxWait => /\ r'.rx = t.tx /\ r'.cnt = NextCount(c, tick) /\ r'.state = r.state
                /\ r'.idx = r.idx /\ r'.data = r.data /\ r'.done = FALSE /\ r'.err = FALSE
  BY <1>1, <1>6 DEF RxWait, RxTo
<1>8. Skip \in Nat /\ BitClks \in Nat
  BY Lengths
<1>9. CASE r.state = "START"
  <2>0. RxStart
    BY <1>9 DEF RxClock
  <2>1. CASE tick /\ c = Centre
    <3>1. /\ r'.rx = t.tx /\ r'.cnt = 0 /\ r'.state = "DATA" /\ r'.idx = 0 /\ r'.data = r.data
          /\ r'.done = FALSE /\ r'.err = FALSE
      BY <1>1, <1>6, <2>0, <2>1 DEF RxStart, RxTo
    <3>2. RxPos = BitClks - 1
      BY <1>3, <1>4, <1>9, <2>1
    <3>3. RxPos' = 0
      <4>1. b = TickClks - 1
        BY <1>2, <2>1 DEF baud_clk_tick
      <4>2. BaudClock(b) = 0
        BY <1>2, <4>1, Numbers DEF BaudClock
      <4> QED
        BY <1>3, <1>5, <3>1, <4>2
    <3> QED
      BY <1>8, <1>9, <3>1, <3>2, <3>3, Lengths, Numbers
  <2>2. CASE ~(tick /\ c = Centre)
    <3>1. RxWait
      BY <1>1, <2>0, <2>2 DEF RxStart
    <3>2. RxPos # BitClks - 1
      BY <1>3, <1>4, <1>9, <2>2
    <3>3. ~BitOver(c, tick) /\ RxPos \in 0 .. BitClks - 1
      <4>1. RxPos \in 0 .. BitClks - 1
        BY <1>9 DEF UartType, TxRegs, RxRegs
      <4>2. Pos(c, b) # BitClks - 1
        BY <1>3, <1>4, <1>8, <1>9, <4>1, Lengths, Numbers
      <4> QED
        BY <1>3, <4>1, <4>2
    <3> QED
      BY <1>3, <1>4, <1>5, <1>7, <1>8, <1>9, <3>1, <3>2, <3>3
  <2> QED
    BY <2>1, <2>2
<1>10. CASE r.state # "START"
  <2>0. RxPos = Pos(c, b) /\ RxPos \in 0 .. BitClks - 1 /\ (BitOver(c, tick) <=> RxPos = BitClks - 1)
    BY <1>3, <1>4, <1>10
  <2>1. CASE RxWait /\ ~BitOver(c, tick)
    <3>1. RxPos' = RxPos + 1
      BY <1>3, <1>5, <1>7, <1>8, <1>10, <2>0, <2>1
    <3> QED
      BY <1>7, <2>0, <2>1, <3>1
  <2>2. CASE r.state = "DATA"
    <3>1. RxData
      BY <2>2 DEF RxClock
    <3>2. CASE ~BitOver(c, tick)
      BY <1>1, <2>1, <3>1, <3>2 DEF RxData
    <3>3. CASE BitOver(c, tick)
      <4>1. /\ r'.rx = t.tx /\ r'.cnt = 0 /\ r'.data = ShiftDown(r.data, r.rx)
            /\ r'.idx = (IF r.idx = DataBits - 1 THEN r.idx ELSE r.idx + 1)
            /\ r'.state = (IF r.idx # DataBits - 1 THEN "DATA"
                           ELSE IF ParityMode = 0 THEN "STOP" ELSE "PARITY")
            /\ r'.done = FALSE /\ r'.err = FALSE
        BY <1>1, <1>6, <3>1, <3>3 DEF RxData, RxTo
      <4>2. RxPos' = 0
        BY <1>3, <1>5, <3>3, <4>1
      <4> QED
        BY <2>0, <2>2, <3>3, <4>1, <4>2
    <3> QED
      BY <3>2, <3>3
  <2>3. CASE r.state = "PARITY"
    <3>1. RxParity
      BY <2>3 DEF RxClock
    <3>2. CASE ~BitOver(c, tick)
      BY <1>1, <2>1, <3>1, <3>2 DEF RxParity
    <3>3. CASE BitOver(c, tick)
      <4>1. /\ r'.rx = t.tx /\ r'.cnt = 0 /\ r'.data = r.data /\ r'.idx = r.idx
            /\ r'.state = "STOP" /\ r'.done = FALSE
            /\ r'.err = (r.rx # IF ParityMode = 1 THEN Not(XorBits(r.data)) ELSE XorBits(r.data))
        BY <1>1, <1>6, <3>1, <3>3 DEF RxParity, RxTo
      <4>2. RxPos' = 0
        BY <1>3, <1>5, <3>3, <4>1
      <4> QED
        BY <2>0, <2>3, <3>3, <4>1, <4>2
    <3> QED
      BY <3>2, <3>3
  <2>4. CASE r.state = "STOP"
    <3>1. RxStop /\ StopLast = Oversample - 1
      BY <2>4, StopTicks DEF RxClock
    <3>2. PICK over : over = (tick /\ c = StopLast)
      OBVIOUS
    <3>3. /\ r'.rx = t.tx /\ r'.cnt = NextCount(c, tick) /\ r'.data = r.data /\ r'.idx = r.idx
          /\ r'.state = (IF over THEN "IDLE" ELSE "STOP") /\ r'.done = over /\ r'.err = FALSE
      BY <1>1, <1>6, <3>1, <3>2 DEF RxStop, RxTo
    <3>4. over \in BOOLEAN /\ (over <=> BitOver(c, tick))
      BY <3>1, <3>2 DEF BitOver
    <3>5. ~over => RxPos' = RxPos + 1
      BY <1>3, <1>5, <1>8, <2>0, <3>3, <3>4
    <3> QED
      BY <2>0, <2>4, <3>3, <3>4, <3>5
  <2> QED
    BY <1>10, <2>2, <2>3, <2>4 DEF Busy
<1> QED
  BY <1>9, <1>10

LEMMA RxIdles ==
    ASSUME UartType, RxClock, rx_baud' = BaudClock(rx_baud), r.state = "IDLE"
    PROVE  /\ r'.rx = t.tx /\ r'.done = FALSE /\ r'.err = FALSE /\ r'.data = r.data /\ r'.idx = r.idx
           /\ r.rx = 1 => r'.state = "IDLE" /\ r'.cnt \in 0 .. Oversample - 1
           /\ r.rx = 0 => r'.state = "START" /\ r'.cnt = 0
<1>1. RxIdle
  BY DEF RxClock
<1>2. NextCount(r.cnt, baud_clk_tick(rx_baud)) \in 0 .. Oversample - 1
  BY NextPos DEF UartType, TxRegs, RxRegs
<1>3. r.rx \in {0, 1}
  BY DEF UartType, TxRegs, RxRegs
<1>4. CASE r.rx = 0
  <2>1. r' = [r EXCEPT !.state = "START", !.cnt = 0, !.rx = t.tx, !.done = FALSE, !.err = FALSE]
    BY <1>1, <1>4 DEF RxIdle, RxTo
  <2> QED
    BY <1>4, <2>1 DEF UartType, TxRegs, RxRegs
<1>5. CASE r.rx = 1
  <2>1. r' = [r EXCEPT !.cnt = NextCount(r.cnt, baud_clk_tick(rx_baud)),
                       !.rx = t.tx, !.done = FALSE, !.err = FALSE]
    BY <1>1, <1>5 DEF RxIdle, RxWait, RxTo
  <2> QED
    BY <1>2, <1>5, <2>1 DEF UartType, TxRegs, RxRegs
<1> QED
  BY <1>3, <1>4, <1>5

LEMMA RxJams ==
    ASSUME UartType, RxClock, rx_baud' = BaudClock(rx_baud), r.state = "STOP", StopBits # 1
    PROVE  /\ r'.rx = t.tx /\ r'.done = FALSE /\ r'.err = FALSE /\ r'.data = r.data /\ r'.idx = r.idx
           /\ r'.state = "STOP" /\ r'.cnt \in 0 .. Oversample - 1
<1>1. RxStop
  BY DEF RxClock
<1>2. NextCount(r.cnt, baud_clk_tick(rx_baud)) \in 0 .. Oversample - 1
  BY NextPos DEF UartType, TxRegs, RxRegs
<1>3. r.cnt # StopLast
  BY StopTicks, Numbers DEF UartType, TxRegs, RxRegs
<1> QED
  BY <1>1, <1>2, <1>3 DEF UartType, TxRegs, RxRegs, RxStop, RxTo

LEMMA TxTyped ==
    ASSUME UartType, TxClock
    PROVE  t' \in TxRegs
<1>1. t \in TxRegs /\ tx_baud \in 0 .. TickClks - 1
  BY DEF UartType
<1>2. PICK c : c = NextCount(t.cnt, baud_clk_tick(tx_baud))
  OBVIOUS
<1>3. c \in 0 .. Oversample - 1 /\ 0 \in 0 .. Oversample - 1 /\ 0 \in 0 .. DataBits - 1
  BY <1>1, <1>2, NextPos, Numbers DEF TxRegs
<1>4. ASSUME NEW line \in {0, 1}, NEW next \in TxRegs, TxSend(line, next)
      PROVE  t' \in TxRegs
  <2>1. \/ t' = [next EXCEPT !.cnt = 0, !.tx = line]
        \/ t' = [t EXCEPT !.cnt = c, !.tx = line]
    BY <1>2, <1>4 DEF TxSend
  <2> QED
    BY <1>1, <1>3, <2>1 DEF TxRegs
<1>5. CASE t.state = "IDLE"
  <2>0. TxIdle
    BY <1>5 DEF TxClock
  <2>1. CASE tx_start
    <3>1. tx_q.items \in Seq(Bytes) /\ tx_q.items # <<>>
      BY <2>1 DEF tx_start, UartType, QueueFlagsExact
    <3>2. Front \in Bytes
      BY <3>1 DEF Front
    <3>3. ParityBit(Front) \in {0, 1}
      <4>1. XorBits(Front) \in {0, 1} /\ Front[0] \in {0, 1} /\ t.parity \in {0, 1}
        BY <1>1, <3>2, BitTypes DEF TxRegs
      <4>2. Not(XorBits(Front)) \in {0, 1} /\ Not(Front[0]) \in {0, 1}
        BY <4>1, BitTypes
      <4> QED
        BY <4>1, <4>2, Numbers DEF ParityBit
    <3>4. t' = [t EXCEPT !.state = "START", !.cnt = 0, !.data = Front,
                         !.parity = ParityBit(Front), !.tx = 1, !.done = FALSE]
      BY <2>0, <2>1 DEF TxIdle, Front
    <3> HIDE DEF Front
    <3> QED
      BY <1>1, <1>3, <3>2, <3>3, <3>4 DEF TxRegs, Busy
  <2>2. CASE ~tx_start
    <3>1. t' = [t EXCEPT !.cnt = c, !.tx = 1, !.done = FALSE]
      BY <1>2, <2>0, <2>2 DEF TxIdle
    <3> QED
      BY <1>1, <1>3, <3>1 DEF TxRegs
  <2> QED
    BY <2>1, <2>2
<1>6. CASE t.state = "START"
  <2>1. [t EXCEPT !.state = "DATA", !.idx = 0] \in TxRegs
    BY <1>1, <1>3 DEF TxRegs, Busy
  <2> QED
    BY <1>4, <1>6, <2>1 DEF TxClock, TxStart
<1>7. CASE t.state = "DATA"
  <2>1. ShiftDown(t.data, 0) \in Bytes /\ t.data[0] \in {0, 1}
    BY <1>1, BitTypes DEF TxRegs
  <2>2. (t.idx + 1) % DataBits \in 0 .. DataBits - 1
    BY <1>1, Numbers DEF TxRegs
  <2>3. PICK st : st = IF t.idx # DataBits - 1 THEN "DATA"
                       ELSE IF ParityMode = 0 THEN "STOP" ELSE "PARITY"
    OBVIOUS
  <2>4. st \in Busy \cup {"IDLE"}
    BY <2>3 DEF Busy
  <2>5. [t EXCEPT !.data = ShiftDown(t.data, 0), !.idx = (t.idx + 1) % DataBits, !.state = st] \in TxRegs
    BY <1>1, <2>1, <2>2, <2>4 DEF TxRegs
  <2> QED
    BY <1>4, <1>7, <2>1, <2>3, <2>5 DEF TxClock, TxData
<1>8. CASE t.state = "PARITY"
  <2>1. [t EXCEPT !.state = "STOP"] \in TxRegs /\ t.parity \in {0, 1}
    BY <1>1 DEF TxRegs, Busy
  <2> QED
    BY <1>4, <1>8, <2>1 DEF TxClock, TxParity
<1>9. CASE t.state = "STOP"
  <2>1. PICK over \in BOOLEAN : t' = [t EXCEPT !.cnt = c, !.tx = 1, !.done = over,
                                               !.state = IF over THEN "IDLE" ELSE "STOP"]
    BY <1>2, <1>9 DEF TxClock, TxStop
  <2> QED
    BY <1>1, <1>3, <2>1 DEF TxRegs, Busy
<1> QED
  BY <1>5, <1>6, <1>7, <1>8, <1>9 DEF TxClock

LEMMA RxTyped ==
    ASSUME UartType, RxClock
    PROVE  r' \in RxRegs
<1>1. r \in RxRegs /\ rx_baud \in 0 .. TickClks - 1 /\ t.tx \in {0, 1}
  BY DEF UartType, TxRegs
<1>2. PICK c : c = NextCount(r.cnt, baud_clk_tick(rx_baud))
  OBVIOUS
<1>3. c \in 0 .. Oversample - 1 /\ 0 \in 0 .. Oversample - 1 /\ 0 \in 0 .. DataBits - 1
  BY <1>1, <1>2, NextPos, Numbers DEF RxRegs
<1>4. ASSUME NEW next \in RxRegs, NEW done \in BOOLEAN, NEW err \in BOOLEAN, RxTo(next, done, err)
      PROVE  r' \in RxRegs
  <2>1. r' = [next EXCEPT !.rx = t.tx, !.done = done, !.err = err]
    BY <1>4 DEF RxTo
  <2> QED
    BY <1>1, <2>1 DEF RxRegs
<1>5. ASSUME RxWait
      PROVE  r' \in RxRegs
  <2>1. [r EXCEPT !.cnt = c] \in RxRegs
    BY <1>1, <1>3 DEF RxRegs
  <2> QED
    BY <1>2, <1>4, <1>5, <2>1 DEF RxWait
<1>6. CASE r.state = "IDLE"
  <2>1. [r EXCEPT !.state = "START", !.cnt = 0] \in RxRegs
    BY <1>1, <1>3 DEF RxRegs, Busy
  <2> QED
    BY <1>4, <1>5, <1>6, <2>1 DEF RxClock, RxIdle
<1>7. CASE r.state = "START"
  <2>1. [r EXCEPT !.state = "DATA", !.cnt = 0, !.idx = 0] \in RxRegs
    BY <1>1, <1>3 DEF RxRegs, Busy
  <2> QED
    BY <1>4, <1>5, <1>7, <2>1 DEF RxClock, RxStart
<1>8. CASE r.state = "DATA"
  <2>1. ShiftDown(r.data, r.rx) \in Bytes
    BY <1>1, BitTypes DEF RxRegs
  <2>2. PICK st, i : /\ st = (IF r.idx # DataBits - 1 THEN "DATA"
                              ELSE IF ParityMode = 0 THEN "STOP" ELSE "PARITY")
                     /\ i = (IF r.idx = DataBits - 1 THEN r.idx ELSE r.idx + 1)
    OBVIOUS
  <2>3. st \in Busy \cup {"IDLE"}
    BY <2>2 DEF Busy
  <2>4. i \in 0 .. DataBits - 1
    BY <1>1, <2>2, Numbers DEF RxRegs
  <2>5. [r EXCEPT !.data = ShiftDown(r.data, r.rx), !.cnt = 0, !.idx = i, !.state = st] \in RxRegs
    BY <1>1, <1>3, <2>1, <2>3, <2>4 DEF RxRegs
  <2>6. RxWait \/ RxTo([r EXCEPT !.data = ShiftDown(r.data, r.rx), !.cnt = 0, !.idx = i, !.state = st],
                       FALSE, FALSE)
    BY <1>8, <2>2 DEF RxClock, RxData
  <2> QED
    BY <1>4, <1>5, <2>5, <2>6
<1>9. CASE r.state = "PARITY"
  <2>1. [r EXCEPT !.state = "STOP", !.cnt = 0] \in RxRegs
    BY <1>1, <1>3 DEF RxRegs, Busy
  <2>2. RxWait \/ \E err \in BOOLEAN : RxTo([r EXCEPT !.state = "STOP", !.cnt = 0], FALSE, err)
    BY <1>9 DEF RxClock, RxParity
  <2> QED
    BY <1>4, <1>5, <2>1, <2>2
<1>10. CASE r.state = "STOP"
  <2>1. PICK over \in BOOLEAN :
           RxTo([r EXCEPT !.state = IF over THEN "IDLE" ELSE "STOP", !.cnt = c], over, FALSE)
    BY <1>2, <1>10 DEF RxClock, RxStop
  <2>2. [r EXCEPT !.state = IF over THEN "IDLE" ELSE "STOP", !.cnt = c] \in RxRegs
    BY <1>1, <1>3 DEF RxRegs, Busy
  <2> QED
    BY <1>4, <2>1, <2>2
<1> QED
  BY <1>6, <1>7, <1>8, <1>9, <1>10 DEF RxClock

-----------------------------------------------------------------------------
(* A frame.                                                                 *)
LEMMA Clocked ==
    ASSUME UartType, Next
    PROVE  /\ TxClock /\ RxClock
           /\ tx_baud' = BaudClock(tx_baud) /\ rx_baud' = BaudClock(rx_baud)
           /\ parity_err' = (parity_err \/ r.err)
           /\ delivered' = (r.done \/ (delivered /\ ~t.done))
           /\ tx_q'.items \in Seq(Bytes) /\ Len(tx_q'.items) <= Depth
           /\ QueueFlagsExact(tx_q', Depth)
           /\ tx_q.items # <<>> /\ ~t.done => tx_q'.items # <<>> /\ Front' = Front
<1>1. PICK b \in Bytes, wr_en \in BOOLEAN : (wr_en => ~t.done) /\ Clock(wr_en, b)
  BY DEF Next
<1>2. tx_q' = QueueCycle(tx_q, t.done, wr_en, b, Depth)
  BY <1>1 DEF Clock
<1>3. /\ tx_q'.items \in Seq(Bytes) /\ Len(tx_q'.items) <= Depth
      /\ QueueFlagsExact(tx_q', Depth)
      /\ tx_q.items # <<>> /\ ~t.done => tx_q'.items # <<>> /\ Front' = Front
  BY <1>1, <1>2, QueueMoves
<1> QED
  BY <1>1, <1>3 DEF Clock

LEMMA BitNumbers ==
    ASSUME NEW s \in Busy, NEW i \in 0 .. DataBits - 1, s = "PARITY" => ParityMode # 0
    PROVE  /\ BitNo(s, i) \in 0 .. DataBits + 2
           /\ BitNo(s, i) = 0 <=> s = "START"
           /\ BitNo(s, i) <= BitNo("STOP", 0)
           /\ BitNo(s, i) = BitNo("STOP", 0) <=> s = "STOP"
           /\ \A u \in Busy, j \in 0 .. DataBits - 1 :
                 (u = "PARITY" => ParityMode # 0) /\ BitNo(u, j) = BitNo(s, i)
                    => u = s /\ (s = "DATA" => i = j)
  BY Numbers DEF BitNo, Busy

LEMMA TxStep ==
    ASSUME UartType, Next, Sending, t.state \in Busy,
           t.state = "STOP" => StopBits = 1 /\ TxPos # BitClks - 1
    PROVE  /\ t'.tx = OutBit /\ Sending' /\ t'.state \in Busy /\ TxPos \in 0 .. BitClks - 1
           /\ TxPos # BitClks - 1 => /\ TxPos' = TxPos + 1 /\ TxBit' = TxBit /\ OutBit' = OutBit
                                     /\ t'.state = t.state
           /\ TxPos = BitClks - 1 => /\ TxPos' = 0 /\ TxBit' = TxBit + 1
                                     /\ t'.state # "START" /\ t.state # "STOP"
<1>1. /\ TxClock /\ tx_baud' = BaudClock(tx_baud)
      /\ tx_q'.items # <<>> /\ Front' = Front
  BY Clocked DEF Sending
<1>2. t \in TxRegs
  BY DEF UartType
<1>3. CASE t.state = "STOP"
  <2>1. /\ t'.tx = 1 /\ TxPos \in 0 .. BitClks - 1 /\ TxPos' = TxPos + 1
        /\ t'.state = "STOP" /\ t'.done = FALSE
    BY <1>1, <1>3, TxStops
  <2>2. OutBit = 1 /\ OutBit' = 1
    BY <1>3, <2>1 DEF OutBit
  <2>3. TxBit' = TxBit
    BY <1>3, <2>1 DEF TxBit, BitNo
  <2>4. Sending'
    BY <1>1, <2>1 DEF Sending
  <2> QED
    BY <1>3, <2>1, <2>2, <2>3, <2>4 DEF Busy
<1>4. CASE t.state # "STOP" /\ TxPos # BitClks - 1
  <2>1. /\ t'.tx = OutBit /\ t'.done = t.done /\ t'.parity = t.parity
        /\ TxPos \in 0 .. BitClks - 1 /\ TxPos' = TxPos + 1
        /\ t'.state = t.state /\ t'.idx = t.idx /\ t'.data = t.data
    BY <1>1, <1>4, TxSends DEF Busy
  <2>2. OutBit' = OutBit /\ TxBit' = TxBit
    BY <2>1 DEF OutBit, TxBit, BitNo
  <2>3. Sending'
    BY <1>1, <2>1 DEF Sending
  <2> QED
    BY <1>4, <2>1, <2>2, <2>3
<1>5. CASE t.state # "STOP" /\ TxPos = BitClks - 1
  <2>1. /\ t'.tx = OutBit /\ t'.done = t.done /\ t'.parity = t.parity
        /\ TxPos \in 0 .. BitClks - 1 /\ TxPos' = 0
        /\ t.state = "START" => t'.state = "DATA" /\ t'.idx = 0 /\ t'.data = t.data
        /\ t.state = "DATA" =>
             /\ t'.state = IF t.idx # DataBits - 1 THEN "DATA"
                           ELSE IF ParityMode = 0 THEN "STOP" ELSE "PARITY"
             /\ t'.idx = (t.idx + 1) % DataBits /\ t'.data = ShiftDown(t.data, 0)
        /\ t.state = "PARITY" => t'.state = "STOP"
    BY <1>1, <1>5, TxSends DEF Busy
  <2>2. t.idx \in 0 .. DataBits - 1 /\ t.data \in Bytes
    BY <1>2 DEF TxRegs
  <2>3. t.idx # DataBits - 1 => (t.idx + 1) % DataBits = t.idx + 1
    BY <2>2, Numbers
  <2>4. /\ t'.state \in {"DATA", "PARITY", "STOP"}
        /\ t'.state \in {"DATA", "PARITY"} => t.state \in {"START", "DATA"}
        /\ t'.state = "PARITY" => ParityMode # 0
    BY <1>5, <2>1 DEF Busy
  <2>5. TxBit' = TxBit + 1
    <3>1. ParityMode = 0 => t.state # "PARITY"
      BY DEF Sending
    <3> QED
      BY <1>5, <2>1, <2>2, <2>3, <3>1, Numbers DEF TxBit, BitNo, Busy
  <2>6. t'.state = "DATA" => \A j \in 0 .. DataBits - 1 - t'.idx : t'.data[j] = Front[j + t'.idx]
    <3> SUFFICES ASSUME t'.state = "DATA", NEW j \in 0 .. DataBits - 1 - t'.idx
                 PROVE  t'.data[j] = Front[j + t'.idx]
      OBVIOUS
    <3>1. CASE t.state = "START"
      BY <2>1, <3>1, Numbers DEF Sending
    <3>2. CASE t.state = "DATA"
      <4>1. t.idx # DataBits - 1 /\ t'.idx = t.idx + 1 /\ t'.data = ShiftDown(t.data, 0)
        BY <2>1, <2>3, <3>2
      <4>2. /\ j \in 0 .. DataBits - 1 /\ j # DataBits - 1 /\ j + 1 \in 0 .. DataBits - 1 - t.idx
            /\ (j + 1) + t.idx = j + t'.idx
        BY <2>2, <4>1, Numbers
      <4>3. t'.data[j] = t.data[j + 1]
        BY <4>1, <4>2 DEF ShiftDown
      <4>4. t.data[j + 1] = Front[(j + 1) + t.idx]
        BY <3>2, <4>2 DEF Sending
      <4> QED
        BY <4>2, <4>3, <4>4
    <3> QED
      BY <2>4, <3>1, <3>2
  <2>7. Sending'
    <3>1. t'.state \in {"START", "DATA", "PARITY"} /\ ParityMode = 1 => t'.parity = Not(XorBits(Front))
      BY <2>1, <2>4 DEF Sending
    <3> QED
      BY <1>1, <2>1, <2>4, <2>6, <3>1 DEF Sending
  <2> QED
    BY <1>5, <2>1, <2>4, <2>5, <2>7 DEF Busy
<1> QED
  BY <1>3, <1>4, <1>5

LEMMA RxStep ==
    ASSUME UartType, Next, Sending, Receiving, r.state \in Busy, r.state = "STOP" => StopBits = 1,
           RxPos = BitClks - 1 /\ r.state \in {"DATA", "PARITY"} =>
              r.rx = OutBit /\ t.state = r.state /\ (r.state = "DATA" => t.idx = r.idx)
    PROVE  /\ r'.rx = t.tx /\ RxPos \in 0 .. BitClks - 1
           /\ ParityMode # 2 => r'.err = FALSE
           /\ RxPos # BitClks - 1 => /\ RxPos' = RxPos + 1 /\ RxBit' = RxBit /\ r'.state = r.state
                                     /\ Receiving' /\ r'.done = FALSE
           /\ RxPos = BitClks - 1 /\ r.state # "STOP" =>
                 /\ RxPos' = 0 /\ RxBit' = RxBit + 1 /\ r'.state \in Busy /\ r'.state # "START"
                 /\ r.state = "START" => r'.state = "DATA"
                 /\ Receiving' /\ r'.done = FALSE
           /\ RxPos = BitClks - 1 /\ r.state = "STOP" =>
                 r'.state = "IDLE" /\ r'.done = TRUE /\ r'.data = Front'
<1>1. /\ RxClock /\ rx_baud' = BaudClock(rx_baud)
      /\ tx_q'.items # <<>> /\ Front' = Front
  BY Clocked DEF Sending
<1>2. r \in RxRegs /\ t \in TxRegs /\ tx_q.items \in Seq(Bytes) /\ tx_q.items # <<>>
  BY DEF UartType, Sending
<1>3. /\ r.idx \in 0 .. DataBits - 1 /\ r.data \in Bytes /\ r.rx \in {0, 1}
      /\ r' \in RxRegs /\ Front \in Bytes
  BY <1>1, <1>2, RxTyped DEF RxRegs, Front
<1>4. CASE RxPos # BitClks - 1
  <2>1. /\ r'.rx = t.tx /\ RxPos \in 0 .. BitClks - 1 /\ RxPos' = RxPos + 1
        /\ r'.state = r.state /\ r'.idx = r.idx /\ r'.data = r.data
        /\ r'.done = FALSE /\ r'.err = FALSE
    BY <1>1, <1>4, RxReceives
  <2>2. RxBit' = RxBit
    BY <2>1 DEF RxBit, BitNo
  <2>3. Receiving'
    BY <1>1, <2>1 DEF Receiving
  <2> QED
    BY <1>4, <2>1, <2>2, <2>3
<1>5. CASE RxPos = BitClks - 1
  <2>1. /\ r'.rx = t.tx /\ RxPos \in 0 .. BitClks - 1
        /\ r.state # "STOP" => RxPos' = 0 /\ r'.done = FALSE
        /\ r.state # "PARITY" => r'.err = FALSE
        /\ r.state # "DATA" => r'.data = r.data
        /\ r.state = "START" => r'.state = "DATA" /\ r'.idx = 0
        /\ r.state = "DATA" =>
             /\ r'.data = ShiftDown(r.data, r.rx)
             /\ r'.idx = IF r.idx = DataBits - 1 THEN r.idx ELSE r.idx + 1
             /\ r'.state = IF r.idx # DataBits - 1 THEN "DATA"
                           ELSE IF ParityMode = 0 THEN "STOP" ELSE "PARITY"
        /\ r.state = "PARITY" =>
             /\ r'.state = "STOP" /\ r'.idx = r.idx
             /\ r'.err = (r.rx # IF ParityMode = 1 THEN Not(XorBits(r.data)) ELSE XorBits(r.data))
        /\ r.state = "STOP" => r'.state = "IDLE" /\ r'.done = TRUE /\ r'.idx = r.idx
    BY <1>1, <1>5, RxReceives
  <2>2. CASE r.state = "START"
    <3>1. RxBit' = RxBit + 1
      BY <2>1, <2>2 DEF RxBit, BitNo
    <3>2. Receiving'
      BY <2>1, <2>2 DEF Receiving
    <3> QED
      BY <1>5, <2>1, <2>2, <3>1, <3>2 DEF Busy
  <2>3. CASE r.state = "DATA"
    <3>1. r.rx = Front[r.idx]
      <4>1. r.rx = t.data[0] /\ t.state = "DATA" /\ t.idx = r.idx
        BY <1>5, <2>3 DEF OutBit
      <4>2. 0 \in 0 .. DataBits - 1 - t.idx /\ 0 + t.idx = r.idx
        BY <1>3, <4>1, Numbers
      <4>3. t.data[0] = Front[0 + t.idx]
        BY <4>1, <4>2 DEF Sending
      <4> QED
        BY <4>1, <4>2, <4>3
    <3>2. PICK k : k = r.idx
      OBVIOUS
    <3>3. \A j \in 0 .. k - 1 : r.data[DataBits - k + j] = Front[j]
      BY <2>3, <3>2 DEF Receiving
    <3>4. \A j \in 0 .. k : r'.data[(DataBits - 1 - k) + j] = Front[j]
      <4> SUFFICES ASSUME NEW j \in 0 .. k
                   PROVE  r'.data[(DataBits - 1 - k) + j] = Front[j]
        OBVIOUS
      <4>1. PICK m : m = (DataBits - 1 - k) + j
        OBVIOUS
      <4>2. m \in 0 .. DataBits - 1
        BY <1>3, <3>2, <4>1, Numbers
      <4>3. r'.data[m] = IF m = DataBits - 1 THEN r.rx ELSE r.data[m + 1]
        BY <2>1, <2>3, <4>2 DEF ShiftDown
      <4>4. CASE j = k
        BY <1>3, <3>1, <3>2, <4>1, <4>3, <4>4, Numbers
      <4>5. CASE j # k
        <5>1. j \in 0 .. k - 1 /\ m # DataBits - 1 /\ m + 1 = DataBits - k + j
          BY <1>3, <3>2, <4>1, <4>5, Numbers
        <5> QED
          BY <3>3, <4>1, <4>3, <5>1
      <4> QED
        BY <4>4, <4>5
    <3>5. CASE k # DataBits - 1
      <4>1. r'.state = "DATA" /\ r'.idx = k + 1
        BY <2>1, <2>3, <3>2, <3>5
      <4>2. \A j \in 0 .. (k + 1) - 1 : r'.data[DataBits - (k + 1) + j] = Front[j]
        <5>1. (k + 1) - 1 = k /\ DataBits - (k + 1) = DataBits - 1 - k
          BY <1>3, <3>2, Numbers
        <5> QED
          BY <3>4, <5>1
      <4>3. Receiving'
        BY <1>1, <4>1, <4>2 DEF Receiving
      <4>4. RxBit' = RxBit + 1
        BY <1>3, <2>3, <3>2, <4>1, Numbers DEF RxBit, BitNo
      <4> QED
        BY <1>5, <2>1, <2>3, <4>1, <4>3, <4>4 DEF Busy
    <3>6. CASE k = DataBits - 1
      <4>1. /\ r'.state = IF ParityMode = 0 THEN "STOP" ELSE "PARITY"
            /\ r'.data \in Bytes
        BY <1>3, <2>1, <2>3, <3>2, <3>6 DEF RxRegs
      <4>2. \A j \in 0 .. DataBits - 1 : r'.data[j] = Front[j]
        <5>1. \A j \in 0 .. DataBits - 1 : j \in 0 .. k /\ (DataBits - 1 - k) + j = j
          BY <3>6, Numbers
        <5> QED
          BY <3>4, <5>1
      <4>3. r'.data = Front
        <5>1. PICK u, v : u = r'.data /\ v = Front
          OBVIOUS
        <5>2. u \in [0 .. DataBits - 1 -> {0, 1}] /\ v \in [0 .. DataBits - 1 -> {0, 1}]
          BY <1>3, <4>1, <5>1 DEF Bytes
        <5>3. \A j \in 0 .. DataBits - 1 : u[j] = v[j]
          BY <4>2, <5>1
        <5>4. u = v
          <6>1. u = [j \in 0 .. DataBits - 1 |-> u[j]] /\ v = [j \in 0 .. DataBits - 1 |-> v[j]]
            BY <5>2
          <6>2. [j \in 0 .. DataBits - 1 |-> u[j]] = [j \in 0 .. DataBits - 1 |-> v[j]]
            BY <5>3
          <6> QED
            BY <6>1, <6>2
        <5> QED
          BY <5>1, <5>4
      <4>4. Receiving'
        BY <1>1, <4>1, <4>3 DEF Receiving
      <4>5. RxBit' = RxBit + 1
        BY <1>3, <2>3, <3>2, <3>6, <4>1, Numbers DEF RxBit, BitNo
      <4> QED
        BY <1>5, <2>1, <2>3, <4>1, <4>4, <4>5 DEF Busy
    <3> QED
      BY <3>5, <3>6
  <2>4. CASE r.state = "PARITY"
    <3>1. r.data = Front /\ ParityMode # 0 /\ t.state = "PARITY" /\ r.rx = t.parity
      BY <1>5, <2>4 DEF Receiving, OutBit
    <3>2. ParityMode # 2 => r'.err = FALSE
      BY <2>1, <2>4, <3>1, Numbers DEF Sending
    <3>3. Receiving'
      BY <1>1, <2>1, <2>4, <3>1 DEF Receiving
    <3>4. RxBit' = RxBit + 1
      BY <2>1, <2>4, <3>1, Numbers DEF RxBit, BitNo
    <3> QED
      BY <1>5, <2>1, <2>4, <3>2, <3>3, <3>4 DEF Busy
  <2>5. CASE r.state = "STOP"
    BY <1>1, <1>5, <2>1, <2>5 DEF Receiving
  <2> QED
    BY <2>2, <2>3, <2>4, <2>5 DEF Busy
<1> QED
  BY <1>4, <1>5

-----------------------------------------------------------------------------
(* From phase to phase.                                                     *)
LEMMA TypeStep ==
    ASSUME UartType, Next
    PROVE  UartType'
<1>1. /\ TxClock /\ RxClock
      /\ tx_baud' = BaudClock(tx_baud) /\ rx_baud' = BaudClock(rx_baud)
      /\ parity_err' = (parity_err \/ r.err)
      /\ delivered' = (r.done \/ (delivered /\ ~t.done))
      /\ tx_q'.items \in Seq(Bytes) /\ Len(tx_q'.items) <= Depth
      /\ QueueFlagsExact(tx_q', Depth)
  BY Clocked
<1>2. t' \in TxRegs /\ r' \in RxRegs
  BY <1>1, TxTyped, RxTyped
<1>3. 0 \in 0 .. Oversample - 1 /\ tx_baud \in 0 .. TickClks - 1 /\ rx_baud \in 0 .. TickClks - 1
  BY Numbers DEF UartType
<1>4. /\ tx_baud' \in 0 .. TickClks - 1 /\ rx_baud' \in 0 .. TickClks - 1
      /\ Pos(0, rx_baud') = rx_baud'
  BY <1>1, <1>3, NextPos
<1>5. delivered' \in BOOLEAN /\ parity_err' \in BOOLEAN
  BY <1>1
<1>6. r'.state = "START" => RxPos' \in 0 .. BitClks - 1
  <2>1. CASE r.state = "IDLE"
    <3>1. r'.state = "START" => r'.cnt = 0
      BY <1>1, <2>1, RxIdles DEF UartType, RxRegs
    <3>2. r'.state = "START" => RxPos' = rx_baud' + Skip
      BY <1>4, <3>1 DEF RxPos, Pos, Skip, Centre
    <3>3. PICK b, k, s : b = rx_baud' /\ k = TickClks /\ s = Skip
      OBVIOUS
    <3>4. /\ b \in 0 .. k - 1 /\ k \in Nat /\ s \in Nat /\ BitClks \in Nat
          /\ s + 2 * k <= BitClks
      BY <1>4, <3>3, Lengths, Numbers
    <3>5. b + s \in 0 .. BitClks - 1
      BY <3>4
    <3> QED
      BY <3>2, <3>3, <3>5
  <2>2. CASE r.state = "START"
    <3>1. /\ RxPos \in 0 .. BitClks - 1
          /\ RxPos # BitClks - 1 => RxPos' = RxPos + 1
          /\ RxPos = BitClks - 1 => r'.state = "DATA"
      BY <1>1, <2>2, RxReceives DEF Busy
    <3> QED
      BY <3>1, Lengths
  <2>3. CASE r.state \in {"DATA", "PARITY", "STOP"}
    <3>1. r.state = "STOP" /\ StopBits # 1 => r'.state = "STOP"
      BY <1>1, RxJams
    <3>2. ASSUME r.state = "STOP" => StopBits = 1
          PROVE  r'.state # "START"
      BY <1>1, <2>3, <3>2, RxReceives DEF Busy
    <3> QED
      BY <3>1, <3>2
  <2> QED
    BY <2>1, <2>2, <2>3 DEF UartType, RxRegs, Busy
<1> QED
  BY <1>1, <1>2, <1>4, <1>5, <1>6 DEF UartType

LEMMA FromResting ==
    ASSUME UartType, Next, Resting
    PROVE  (Resting' \/ Starting') /\ r'.err = FALSE
<1>1. /\ TxClock /\ RxClock
      /\ tx_baud' = BaudClock(tx_baud) /\ rx_baud' = BaudClock(rx_baud)
      /\ delivered' = (r.done \/ (delivered /\ ~t.done))
      /\ tx_q.items # <<>> /\ ~t.done => tx_q'.items # <<>> /\ Front' = Front
  BY Clocked
<1>2. /\ t.state = "IDLE" /\ r.state = "IDLE" /\ t.tx = 1 /\ r.rx = 1 /\ ~r.done
      /\ t.done <=> delivered
      /\ t.done \in BOOLEAN /\ delivered \in BOOLEAN
  BY DEF Resting, UartType, TxRegs
<1>3. /\ r'.rx = 1 /\ ~r'.done /\ r'.err = FALSE /\ r'.state = "IDLE"
  BY <1>1, <1>2, RxIdles
<1>4. ~delivered'
  BY <1>1, <1>2
<1>5. /\ t'.tx = 1 /\ ~t'.done
      /\ tx_start => /\ t'.state = "START" /\ t'.data = Front /\ TxPos' \in 0 .. TickClks - 1
                     /\ ParityMode = 1 => t'.parity = Not(XorBits(Front))
      /\ ~tx_start => t'.state = "IDLE"
  BY <1>1, <1>2, TxIdles
<1>6. CASE tx_start
  <2>1. tx_q.items # <<>> /\ ~t.done
    BY <1>6 DEF tx_start, UartType, QueueFlagsExact
  <2>2. Sending'
    BY <1>1, <1>5, <1>6, <2>1 DEF Sending
  <2>3. StartingAt(0)'
    <3>1. 0 + TickClks - 1 = TickClks - 1
      BY Numbers
    <3> QED
      BY <1>3, <1>4, <1>5, <1>6, <2>2, <3>1 DEF StartingAt
  <2> QED
    BY <1>3, <2>3 DEF Starting
<1>7. CASE ~tx_start
  BY <1>3, <1>4, <1>5, <1>7 DEF Resting
<1> QED
  BY <1>6, <1>7

LEMMA StartMoves ==
    ASSUME UartType, Next, NEW g \in 0 .. 2, StartingAt(g)
    PROVE  /\ t'.state = "START" /\ t'.tx = 0 /\ TxPos' \in g + 1 .. g + TickClks
           /\ Sending' /\ ~delivered' /\ r'.rx = t.tx /\ r'.done = FALSE /\ r'.err = FALSE
           /\ g # 2 => r'.state = "IDLE"
           /\ g = 2 => r'.state = "START" /\ RxPos' \in Skip .. Skip + TickClks - 1
<1>1. /\ TxClock /\ RxClock
      /\ tx_baud' = BaudClock(tx_baud) /\ rx_baud' = BaudClock(rx_baud)
      /\ delivered' = (r.done \/ (delivered /\ ~t.done))
  BY Clocked
<1>2. /\ t.state = "START" /\ r.state = "IDLE" /\ r.rx = (IF g = 2 THEN 0 ELSE 1)
      /\ TxPos \in g .. g + TickClks - 1
      /\ Sending /\ ~r.done /\ ~delivered
  BY DEF StartingAt
<1>3. TxPos # BitClks - 1
  BY <1>2, Lengths, Numbers
<1>4. OutBit = 0 /\ t.state \in Busy
  BY <1>2 DEF OutBit, Busy
<1>5. t'.tx = 0 /\ Sending' /\ TxPos' = TxPos + 1 /\ t'.state = "START"
  BY <1>2, <1>3, <1>4, TxStep
<1>6. /\ r'.rx = t.tx /\ r'.done = FALSE /\ r'.err = FALSE
      /\ r.rx = 1 => r'.state = "IDLE"
      /\ r.rx = 0 => r'.state = "START" /\ r'.cnt = 0
  BY <1>1, <1>2, RxIdles
<1>7. ASSUME g = 2
      PROVE  RxPos' \in Skip .. Skip + TickClks - 1
  <2>1. 0 \in 0 .. Oversample - 1 /\ rx_baud \in 0 .. TickClks - 1
    BY Numbers DEF UartType
  <2>2. rx_baud' \in 0 .. TickClks - 1 /\ Pos(0, rx_baud') = rx_baud'
    BY <1>1, <2>1, NextPos
  <2>3. RxPos' = rx_baud' + Skip
    BY <1>2, <1>6, <1>7, <2>2 DEF RxPos, Pos, Skip, Centre
  <2>4. PICK b, k, s : b = rx_baud' /\ k = TickClks /\ s = Skip
    OBVIOUS
  <2>5. b \in 0 .. k - 1 /\ k \in Nat /\ s \in Nat
    BY <2>2, <2>4, Lengths, Numbers
  <2>6. b + s \in s .. s + k - 1
    BY <2>5
  <2> QED
    BY <2>3, <2>4, <2>6
<1>8. TxPos' \in g + 1 .. g + TickClks
  BY <1>2, <1>5, Numbers
<1> QED
  BY <1>1, <1>2, <1>5, <1>6, <1>7, <1>8

LEMMA FromStarting ==
    ASSUME UartType, Next, Starting
    PROVE  (Starting' \/ Underway') /\ r'.err = FALSE
<1>1. PICK g \in 0 .. 2 : StartingAt(g)
  BY DEF Starting
<1>2. /\ t'.state = "START" /\ t'.tx = 0 /\ TxPos' \in g + 1 .. g + TickClks
      /\ Sending' /\ ~delivered' /\ r'.rx = t.tx /\ r'.done = FALSE /\ r'.err = FALSE
      /\ g # 2 => r'.state = "IDLE"
      /\ g = 2 => r'.state = "START" /\ RxPos' \in Skip .. Skip + TickClks - 1
  BY <1>1, StartMoves
<1>3. t.tx = IF g = 0 THEN 1 ELSE 0
  BY <1>1 DEF StartingAt
<1>4. CASE g = 0
  <2>1. TxPos' \in 1 .. 1 + TickClks - 1
    BY <1>2, <1>4, Numbers
  <2>2. StartingAt(1)'
    BY <1>2, <1>3, <1>4, <2>1 DEF StartingAt
  <2> QED
    BY <1>2, <2>2 DEF Starting
<1>5. CASE g = 1
  <2>1. TxPos' \in 2 .. 2 + TickClks - 1
    BY <1>2, <1>5, Numbers
  <2>2. StartingAt(2)'
    BY <1>2, <1>3, <1>5, <2>1 DEF StartingAt
  <2> QED
    BY <1>2, <2>2 DEF Starting
<1>6. CASE g = 2
  <2>1. PICK lead : lead = RxPos' - TxPos'
    OBVIOUS
  <2>2. lead \in 1 .. BitClks - 4 /\ RxPos' = TxPos' + lead
    BY <1>2, <1>6, <2>1, Lengths, Numbers
  <2>3. TxBit' = 0 /\ RxBit' = 0 /\ OutBit' = 0
    BY <1>2, <1>6 DEF TxBit, RxBit, OutBit, BitNo
  <2>4. Leads(lead)'
    BY <2>2, <2>3 DEF Leads
  <2>5. Receiving'
    BY <1>2, <1>6 DEF Receiving
  <2>6. t'.tx = OutBit' /\ r'.rx = OutBit'
    BY <1>2, <1>3, <1>6, <2>3
  <2>7. BitClks' = BitClks
    BY DEF BitClks
  <2>8. \E l \in 1 .. BitClks - 4 : Leads(l)'
    BY <2>2, <2>4
  <2>9. Underway'
    BY <1>2, <1>6, <2>5, <2>6, <2>8 DEF Underway, Busy, BitClks
  <2> QED
    BY <1>2, <2>9
<1>7. g = 0 \/ g = 1 \/ g = 2
  OBVIOUS
<1> QED
  BY <1>4, <1>5, <1>6, <1>7

\* What the lead of the receiver says of the bit it samples and of the transmitter's last clock.
LEMMA LeadBounds ==
    ASSUME UartType, Underway, NEW lead \in 1 .. BitClks - 4, Leads(lead)
    PROVE  /\ TxPos \in 0 .. BitClks - 1 /\ RxPos \in 0 .. BitClks - 1
           /\ t.state = "STOP" => StopBits = 1 /\ TxPos # BitClks - 1
           /\ RxPos = BitClks - 1 =>
                /\ RxBit = TxBit /\ TxPos # BitClks - 1 /\ r.rx = OutBit /\ TxPos > 1
                /\ t.state = r.state /\ (r.state = "DATA" => t.idx = r.idx)
<1>1. /\ t.state \in Busy /\ r.state \in Busy
      /\ TxPos > 1 => r.rx = OutBit
      /\ r.state = "PARITY" => ParityMode # 0
      /\ t.state = "PARITY" => ParityMode # 0
      /\ r.state = "STOP" => StopBits = 1
  BY DEF Underway, Sending, Receiving
<1>2. /\ t.idx \in 0 .. DataBits - 1 /\ r.idx \in 0 .. DataBits - 1
      /\ t.cnt \in 0 .. Oversample - 1 /\ tx_baud \in 0 .. TickClks - 1
      /\ r.cnt \in 0 .. Oversample - 1 /\ rx_baud \in 0 .. TickClks - 1
      /\ r.state = "START" => RxPos \in 0 .. BitClks - 1
  BY DEF UartType, TxRegs, RxRegs
<1>3. TxPos \in 0 .. BitClks - 1
  BY <1>2, NextPos DEF TxPos
<1>4. RxPos \in 0 .. BitClks - 1
  <2>1. Pos(r.cnt, rx_baud) \in 0 .. BitClks - 1
    BY <1>2, NextPos
  <2>2. r.state # "START" => RxPos = Pos(r.cnt, rx_baud)
    BY <2>1, Lengths DEF RxPos
  <2> QED
    BY <1>2, <2>1, <2>2
<1>5. BitClks \in Nat
  BY Lengths
<1>6. /\ TxBit \in Nat /\ RxBit \in Nat
      /\ RxBit <= BitNo("STOP", 0)
      /\ TxBit = BitNo("STOP", 0) <=> t.state = "STOP"
      /\ RxBit = BitNo("STOP", 0) <=> r.state = "STOP"
      /\ RxBit = TxBit => t.state = r.state /\ (r.state = "DATA" => t.idx = r.idx)
  BY <1>1, <1>2, BitNumbers DEF TxBit, RxBit
<1>7. CASE RxBit = TxBit /\ RxPos = TxPos + lead
  <2>1. TxPos # BitClks - 1
    BY <1>3, <1>4, <1>5, <1>7
  <2>2. RxPos = BitClks - 1 => TxPos > 1
    BY <1>3, <1>4, <1>5, <1>7
  <2> QED
    BY <1>1, <1>3, <1>4, <1>6, <1>7, <2>1, <2>2
<1>8. CASE RxBit = TxBit + 1 /\ RxPos + BitClks = TxPos + lead
  <2>1. RxPos # BitClks - 1
    BY <1>3, <1>4, <1>5, <1>8
  <2>2. t.state # "STOP"
    BY <1>6, <1>8
  <2> QED
    BY <1>3, <1>4, <2>1, <2>2
<1> QED
  BY <1>7, <1>8 DEF Leads

LEMMA FromUnderway ==
    ASSUME UartType, Next, Underway
    PROVE  (Underway' \/ Ending' \/ Jammed') /\ (ParityMode # 2 => r'.err = FALSE)
<1>1. PICK lead \in 1 .. BitClks - 4 : Leads(lead)
  BY DEF Underway
<1>2. /\ TxPos \in 0 .. BitClks - 1 /\ RxPos \in 0 .. BitClks - 1
      /\ t.state = "STOP" => StopBits = 1 /\ TxPos # BitClks - 1
      /\ RxPos = BitClks - 1 =>
           /\ RxBit = TxBit /\ TxPos # BitClks - 1 /\ r.rx = OutBit /\ TxPos > 1
           /\ t.state = r.state /\ (r.state = "DATA" => t.idx = r.idx)
  BY <1>1, LeadBounds
<1>3. /\ t.state \in Busy /\ r.state \in Busy
      /\ TxPos > 0 => t.tx = OutBit
      /\ Sending /\ Receiving /\ ~r.done /\ ~delivered
      /\ r.state = "STOP" => StopBits = 1
  BY DEF Underway
<1>4. /\ t'.tx = OutBit /\ Sending' /\ t'.state \in Busy
      /\ TxPos # BitClks - 1 => /\ TxPos' = TxPos + 1 /\ TxBit' = TxBit /\ OutBit' = OutBit
                                /\ t'.state = t.state
      /\ TxPos = BitClks - 1 => /\ TxPos' = 0 /\ TxBit' = TxBit + 1
                                /\ t'.state # "START" /\ t.state # "STOP"
  BY <1>2, <1>3, TxStep
<1>5. /\ r'.rx = t.tx
      /\ ParityMode # 2 => r'.err = FALSE
      /\ RxPos # BitClks - 1 => /\ RxPos' = RxPos + 1 /\ RxBit' = RxBit /\ r'.state = r.state
                                /\ Receiving' /\ r'.done = FALSE
      /\ RxPos = BitClks - 1 /\ r.state # "STOP" =>
            /\ RxPos' = 0 /\ RxBit' = RxBit + 1 /\ r'.state \in Busy /\ r'.state # "START"
            /\ r.state = "START" => r'.state = "DATA"
            /\ Receiving' /\ r'.done = FALSE
      /\ RxPos = BitClks - 1 /\ r.state = "STOP" =>
            r'.state = "IDLE" /\ r'.done = TRUE /\ r'.data = Front'
  BY <1>2, <1>3, RxStep
<1>6. ~delivered'
  BY <1>3, Clocked
<1>7. PICK bc : bc = BitClks
  OBVIOUS
<1>8. bc \in Nat /\ bc = BitClks /\ BitClks' = BitClks
  BY <1>7, Lengths DEF BitClks
<1>9. \A p \in Nat : p + 1 > 1 => p > 0
  OBVIOUS
<1>10. ASSUME NEW l \in 1 .. bc - 4, Leads(l)', r'.state \in Busy, Receiving', ~r'.done,
              TxPos' > 0 => t'.tx = OutBit', TxPos' > 1 => r'.rx = OutBit',
              r'.state = "STOP" => StopBits = 1
       PROVE  Underway'
  BY <1>4, <1>6, <1>8, <1>10 DEF Underway, BitClks
<1>11. CASE RxPos = BitClks - 1 /\ r.state = "STOP"
  <2>1. /\ StopBits = 1 /\ t.state = "STOP" /\ t'.state = "STOP" /\ OutBit = 1 /\ t.tx = OutBit
    BY <1>2, <1>3, <1>4, <1>11 DEF OutBit
  <2> QED
    BY <1>4, <1>5, <1>6, <1>11, <2>1 DEF Ending
<1>12. CASE RxPos = BitClks - 1 /\ r.state # "STOP"
  <2>1. CASE r'.state = "STOP" /\ StopBits # 1
    <3>1. t'.state \in {"DATA", "PARITY"}
      BY <1>2, <1>3, <1>4, <1>5, <1>12, <2>1 DEF Busy
    <3>2. ~t'.done
      BY <1>4 DEF Sending
    <3> QED
      BY <1>5, <1>12, <2>1, <3>1, <3>2 DEF Jammed
  <2>2. CASE r'.state = "STOP" => StopBits = 1
    <3>1. RxPos = TxPos + lead
      BY <1>1, <1>2, <1>8, <1>12 DEF Leads
    <3>2. RxBit' = TxBit' + 1 /\ RxPos' + BitClks = TxPos' + lead
      <4>1. TxPos' = TxPos + 1 /\ RxPos' = 0 /\ RxBit' = TxBit' + 1
        BY <1>2, <1>4, <1>5, <1>12
      <4>2. 0 + bc = (TxPos + 1) + lead
        BY <1>2, <1>8, <1>12, <3>1
      <4> QED
        BY <1>8, <4>1, <4>2
    <3>3. Leads(lead)'
      BY <1>8, <3>2 DEF Leads
    <3>4. t'.tx = OutBit' /\ r'.rx = OutBit'
      BY <1>2, <1>3, <1>4, <1>5, <1>12
    <3> QED
      BY <1>1, <1>5, <1>8, <1>10, <1>12, <2>2, <3>3, <3>4
  <2> QED
    BY <2>1, <2>2
<1>13. CASE RxPos # BitClks - 1 /\ TxPos = BitClks - 1
  <2>1. RxBit = TxBit + 1 /\ RxPos + bc = TxPos + lead
    BY <1>1, <1>2, <1>8, <1>13 DEF Leads
  <2>2. RxBit' = TxBit' /\ RxPos' = TxPos' + lead
    <3>1. RxBit' = TxBit' /\ RxPos' = RxPos + 1 /\ TxPos' = 0
      BY <1>4, <1>5, <1>13, <2>1
    <3>2. RxPos + 1 = 0 + lead
      BY <1>2, <1>8, <1>13, <2>1
    <3> QED
      BY <3>1, <3>2
  <2>3. Leads(lead)'
    BY <2>2 DEF Leads
  <2>4. ~(TxPos' > 0) /\ ~(TxPos' > 1)
    BY <1>4, <1>13
  <2> QED
    BY <1>1, <1>3, <1>5, <1>8, <1>10, <1>13, <2>3, <2>4
<1>14. CASE RxPos # BitClks - 1 /\ TxPos # BitClks - 1
  <2>1. /\ TxPos' = TxPos + 1 /\ TxBit' = TxBit /\ OutBit' = OutBit
        /\ RxPos' = RxPos + 1 /\ RxBit' = RxBit
    BY <1>4, <1>5, <1>14
  <2>2. Leads(lead)'
    <3>1. CASE RxBit = TxBit /\ RxPos = TxPos + lead
      <4>1. RxPos + 1 = (TxPos + 1) + lead
        BY <1>1, <1>2, <1>8, <3>1
      <4> QED
        BY <2>1, <3>1, <4>1 DEF Leads
    <3>2. CASE RxBit = TxBit + 1 /\ RxPos + BitClks = TxPos + lead
      <4>1. (RxPos + 1) + bc = (TxPos + 1) + lead
        BY <1>1, <1>2, <1>8, <3>2
      <4>2. RxPos' + BitClks' = TxPos' + lead /\ RxBit' = TxBit' + 1
        BY <1>8, <2>1, <3>2, <4>1
      <4> QED
        BY <4>2 DEF Leads
    <3> QED
      BY <1>1, <3>1, <3>2 DEF Leads
  <2>3. (TxPos' > 0 => t'.tx = OutBit') /\ (TxPos' > 1 => r'.rx = OutBit')
    BY <1>2, <1>3, <1>4, <1>5, <1>9, <2>1
  <2> QED
    BY <1>1, <1>3, <1>5, <1>8, <1>10, <1>14, <2>2, <2>3
<1>15. (Underway' \/ Ending' \/ Jammed')
  BY <1>11, <1>12, <1>13, <1>14
<1> QED
  BY <1>5, <1>15

LEMMA FromEnding ==
    ASSUME UartType, Next, Ending
    PROVE  (Ending' \/ Resting') /\ r'.err = FALSE
<1>1. /\ TxClock /\ RxClock
      /\ tx_baud' = BaudClock(tx_baud) /\ rx_baud' = BaudClock(rx_baud)
      /\ delivered' = (r.done \/ (delivered /\ ~t.done))
  BY Clocked
<1>2. /\ StopBits = 1 /\ t.state = "STOP" /\ r.state = "IDLE" /\ t.tx = 1 /\ r.rx = 1
      /\ Sending /\ r.done = ~delivered
      /\ r.done \in BOOLEAN /\ delivered \in BOOLEAN
  BY DEF Ending, UartType, RxRegs
<1>3. tx_q'.items # <<>> /\ Front' = Front /\ ~t.done
  BY <1>2, Clocked DEF Sending
<1>4. /\ t'.tx = 1
      /\ TxPos # BitClks - 1 => t'.state = "STOP" /\ t'.done = FALSE
      /\ TxPos = BitClks - 1 => t'.state = "IDLE" /\ t'.done = TRUE
  BY <1>1, <1>2, TxStops
<1>5. r'.rx = 1 /\ r'.done = FALSE /\ r'.err = FALSE /\ r'.state = "IDLE"
  BY <1>1, <1>2, RxIdles
<1>6. delivered'
  BY <1>1, <1>2, <1>3
<1>7. CASE TxPos # BitClks - 1
  <2>1. Sending'
    BY <1>3, <1>4, <1>7 DEF Sending
  <2>2. r'.done = ~delivered'
    BY <1>5, <1>6
  <2> QED
    BY <1>2, <1>4, <1>5, <1>7, <2>1, <2>2 DEF Ending
<1>8. CASE TxPos = BitClks - 1
  BY <1>3, <1>4, <1>5, <1>6, <1>8 DEF Resting
<1> QED
  BY <1>7, <1>8

LEMMA FromJammed ==
    ASSUME UartType, Next, Jammed
    PROVE  Jammed' /\ r'.err = FALSE
<1>1. /\ TxClock /\ RxClock
      /\ tx_baud' = BaudClock(tx_baud) /\ rx_baud' = BaudClock(rx_baud)
  BY Clocked
<1>2. /\ StopBits # 1 /\ t.state \in {"DATA", "PARITY", "STOP"} /\ r.state = "STOP" /\ ~t.done
  BY DEF Jammed
<1>3. r'.done = FALSE /\ r'.err = FALSE /\ r'.state = "STOP"
  BY <1>1, <1>2, RxJams
<1>4. CASE t.state = "STOP"
  <2>1. t'.state = "STOP" /\ t'.done = FALSE
    BY <1>1, <1>2, <1>4, TxStops
  <2> QED
    BY <1>2, <1>3, <2>1 DEF Jammed
<1>5. CASE t.state \in {"DATA", "PARITY"}
  <2>1. /\ t'.done = t.done
        /\ TxPos # BitClks - 1 => t'.state = t.state
        /\ TxPos = BitClks - 1 =>
             /\ t.state = "DATA" => t'.state = IF t.idx # DataBits - 1 THEN "DATA"
                                               ELSE IF ParityMode = 0 THEN "STOP" ELSE "PARITY"
             /\ t.state = "PARITY" => t'.state = "STOP"
    BY <1>1, <1>5, TxSends
  <2>2. t'.state \in {"DATA", "PARITY", "STOP"}
    BY <1>5, <2>1
  <2> QED
    BY <1>2, <1>3, <2>1, <2>2 DEF Jammed
<1> QED
  BY <1>2, <1>4, <1>5

-----------------------------------------------------------------------------
(* The invariant.                                                           *)
LEMMA InvInit == Init => UartInv
<1> SUFFICES ASSUME Init
             PROVE  UartInv
  OBVIOUS
<1>1. Zeros \in Bytes /\ 0 \in 0 .. DataBits - 1 /\ 0 \in 0 .. Oversample - 1 /\ 0 \in 0 .. TickClks - 1
  BY BitTypes, Numbers
<1>2. /\ t = [state |-> "IDLE", cnt |-> 0, data |-> Zeros, idx |-> 0, parity |-> 0,
              tx |-> 1, done |-> FALSE]
      /\ r = [state |-> "IDLE", cnt |-> 0, data |-> Zeros, idx |-> 0, rx |-> 1,
              done |-> FALSE, err |-> FALSE]
      /\ tx_q = EmptyQueue /\ parity_err = FALSE /\ delivered = FALSE
      /\ tx_baud = 0 /\ rx_baud \in 0 .. TickClks - 1
  BY DEF Init
<1>3. t \in TxRegs /\ r \in RxRegs
  BY <1>1, <1>2 DEF TxRegs, RxRegs
<1>4. /\ tx_q.items \in Seq(Bytes) /\ Len(tx_q.items) <= Depth /\ QueueFlagsExact(tx_q, Depth)
  BY <1>2, Numbers DEF EmptyQueue, QueueFlagsExact
<1>5. r.state # "START"
  BY <1>2
<1>6. UartType
  BY <1>1, <1>2, <1>3, <1>4, <1>5 DEF UartType
<1>7. NoParityError /\ Resting
  BY <1>2 DEF NoParityError, Resting
<1> QED
  BY <1>6, <1>7 DEF UartInv

LEMMA InvStep == UartInv /\ [Next]_vars => UartInv'
<1> SUFFICES ASSUME UartInv, [Next]_vars
             PROVE  UartInv'
  OBVIOUS
<1>1. UartType /\ NoParityError /\ (Resting \/ Starting \/ Underway \/ Ending \/ Jammed)
  BY DEF UartInv
<1>2. CASE Next
  <2>1. UartType'
    BY <1>1, <1>2, TypeStep
  <2>2. /\ (Resting \/ Starting \/ Underway \/ Ending \/ Jammed)'
        /\ ParityMode # 2 => r'.err = FALSE
    BY <1>1, <1>2, FromResting, FromStarting, FromUnderway, FromEnding, FromJammed
  <2>3. NoParityError'
    <3>1. parity_err' = (parity_err \/ r.err)
      BY <1>1, <1>2, Clocked
    <3> QED
      BY <1>1, <2>2, <3>1 DEF NoParityError
  <2> QED
    BY <2>1, <2>2, <2>3 DEF UartInv
<1>3. CASE UNCHANGED vars
  <2>1. /\ tx_q' = tx_q /\ t' = t /\ r' = r /\ parity_err' = parity_err
        /\ tx_baud' = tx_baud /\ rx_baud' = rx_baud /\ delivered' = delivered
    BY <1>3 DEF vars
  <2>2. TxPos' = TxPos /\ RxPos' = RxPos /\ TxBit' = TxBit /\ RxBit' = RxBit /\ OutBit' = OutBit
        /\ Front' = Front
    BY <2>1 DEF TxPos, RxPos, Pos, TxBit, RxBit, BitNo, OutBit, Front, Skip, Centre
  <2>3. UartType' /\ NoParityError'
    BY <1>1, <2>1, <2>2 DEF UartType, NoParityError, BitClks
  <2>4. (Sending <=> Sending') /\ (Receiving <=> Receiving')
    BY <2>1, <2>2 DEF Sending, Receiving
  <2>5. \A l : Leads(l) <=> Leads(l)'
    BY <2>2 DEF Leads, BitClks
  <2>6. Resting => Resting'
    BY <2>1 DEF Resting
  <2>7. Starting => Starting'
    BY <2>1, <2>2, <2>4 DEF Starting, StartingAt
  <2>8. Underway => Underway'
    BY <2>1, <2>2, <2>4, <2>5 DEF Underway, BitClks
  <2>9. Ending => Ending'
    BY <2>1, <2>2, <2>4 DEF Ending
  <2>10. Jammed => Jammed'
    BY <2>1 DEF Jammed
  <2> QED
    BY <1>1, <2>3, <2>6, <2>7, <2>8, <2>9, <2>10 DEF UartInv
<1> QED
  BY <1>2, <1>3

\* Transmitter and receiver are in the same phase of the same frame, at every phase of
\* the baud clocks (q_state of uart_tx.v and uart_rx.v).
THEOREM UartInvariant == Spec => []UartInv
<1> QED
  BY InvInit, InvStep, PTL DEF Spec

\* Each byte is received once, unchanged, and before the transmitter takes it
\* from its FIFO (uart_rx.v rx_done_tick, uart_tx.v tx_done_tick).
THEOREM BytesArriveOnce == Spec => []DeliveredOnce
<1>1. UartInv => DeliveredOnce
  <2> SUFFICES ASSUME UartInv
               PROVE  DeliveredOnce
    OBVIOUS
  <2>1. Resting => ~r.done /\ (t.done => delivered)
    BY DEF Resting
  <2>2. Starting \/ Underway => ~r.done /\ ~t.done
    BY DEF Starting, StartingAt, Underway, Sending
  <2>3. Ending => /\ r.done => ~delivered /\ tx_q.items # <<>> /\ r.data = Head(tx_q.items)
                  /\ ~t.done
    BY DEF Ending, Sending, Front
  <2>4. Jammed => ~r.done /\ ~t.done
    BY DEF Jammed
  <2> QED
    BY <2>1, <2>2, <2>3, <2>4 DEF UartInv, DeliveredOnce
<1> QED
  BY <1>1, UartInvariant, PTL

\* Without parity and with odd parity the receiver never reports an error on an
\* undisturbed line; with even parity it does, as uart_tx.v sends another bit.
THEOREM ParityIsRight == ParityMode # 2 => (Spec => []ParityAgrees)
<1> SUFFICES ASSUME ParityMode # 2
             PROVE  Spec => []ParityAgrees
  OBVIOUS
<1>1. UartInv => ParityAgrees
  BY DEF UartInv, NoParityError, ParityAgrees
<1> QED
  BY <1>1, UartInvariant, PTL
=============================================================================
