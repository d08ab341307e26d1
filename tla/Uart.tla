-------------------------------- MODULE Uart --------------------------------
(***************************************************************************)
(* One direction of the serial link of cmn/uart: a transmit FIFO, uart_tx,  *)
(* the wire, and uart_rx at the far end, one step per clock edge.  Sender   *)
(* and receiver divide the clock by the same number (uart_baud_clk.v) but   *)
(* started counting at different moments, so the phase between their ticks  *)
(* is arbitrary.                                                            *)
(*                                                                         *)
(* Abstractions: Oversample stands for the 16 ticks of a bit and for the    *)
(* modulus of the 4-bit tick counters; TickClks for the 162 clocks of a     *)
(* tick; the two ends do not drift against each other.                      *)
(***************************************************************************)
EXTENDS Naturals, Sequences, FiniteSets, QueueOps

CONSTANTS DataBits, StopBits, ParityMode, Oversample, TickClks, Depth

ASSUME UartAssumption ==
    /\ DataBits \in Nat \ {0} /\ StopBits \in Nat \ {0}
    /\ ParityMode \in {0, 1, 2}
    /\ Depth \in Nat /\ Depth >= 3

\* With fewer clocks to a bit the three clocks by which the receiver learns late
\* of a start bit would let the transmitter finish first.
ASSUME ClockAssumption ==
    /\ Oversample \in Nat /\ Oversample >= 4 /\ TickClks \in Nat /\ TickClks >= 3

VARIABLES
    tx_q,       \* uart_tx_fifo
    t,          \* registers of uart_tx
    r,          \* registers of uart_rx
    parity_err, \* q_rx_parity_err of uart.v, sticky
    tx_baud, rx_baud,  \* q_cnt of the two uart_baud_clk
    delivered   \* history: the front byte of tx_q has been received

vars == <<tx_q, t, r, parity_err, tx_baud, rx_baud, delivered>>

\* A byte is its bits, bit 0 first.
Bytes == [0 .. DataBits - 1 -> {0, 1}]
Zeros == [i \in 0 .. DataBits - 1 |-> 0]

XorBits(d) == Cardinality({i \in 0 .. DataBits - 1 : d[i] = 1}) % 2
Not(b) == 1 - b

\* A data register moves down by one bit; b comes in at the top.
ShiftDown(d, b) == [i \in 0 .. DataBits - 1 |-> IF i = DataBits - 1 THEN b ELSE d[i + 1]]

STOP_OVERSAMPLE_TICKS == StopBits * Oversample
NextCount(cnt, tick) == IF tick THEN (cnt + 1) % Oversample ELSE cnt

baud_clk_tick(cnt) == cnt = TickClks - 1

-----------------------------------------------------------------------------
(* Mutated forms of definitions below.                                      *)
StartsAnyTime == t.state = "IDLE" /\ ~tx_q.empty
EvenForOdd(d) == IF ParityMode = 0 THEN t.parity ELSE XorBits(d)
StopTooLong == STOP_OVERSAMPLE_TICKS

-----------------------------------------------------------------------------
(* uart_tx.v                                                                *)

\* Even mode assigns ~tx_data to one bit: the complement of bit 0 alone.
ParityBit(d) == CASE ParityMode = 0 -> t.parity
                  [] ParityMode = 1 -> Not(XorBits(d))
                  [] ParityMode = 2 -> Not(d[0])

tx_start == t.state = "IDLE" /\ ~tx_q.empty /\ ~t.done

BitOver(cnt, tick) == tick /\ cnt = Oversample - 1

StopLast == STOP_OVERSAMPLE_TICKS - 1

TxIdle ==
    LET d == Head(tx_q.items) IN
    t' = IF tx_start
         THEN [t EXCEPT !.state = "START", !.cnt = 0, !.data = d,
                        !.parity = ParityBit(d), !.tx = 1, !.done = FALSE]
         ELSE [t EXCEPT !.cnt = NextCount(t.cnt, baud_clk_tick(tx_baud)),
                        !.tx = 1, !.done = FALSE]

TxSend(line, next) ==
    t' = IF BitOver(t.cnt, baud_clk_tick(tx_baud))
         THEN [next EXCEPT !.cnt = 0, !.tx = line]
         ELSE [t EXCEPT !.cnt = NextCount(t.cnt, baud_clk_tick(tx_baud)),
                        !.tx = line]

TxStart == TxSend(0, [t EXCEPT !.state = "DATA", !.idx = 0])

TxData ==
    TxSend(t.data[0],
           [t EXCEPT !.data = ShiftDown(t.data, 0),
                     !.idx = (t.idx + 1) % DataBits,
                     !.state = IF t.idx # DataBits - 1 THEN "DATA"
                               ELSE IF ParityMode = 0 THEN "STOP" ELSE "PARITY"])

TxParity == TxSend(t.parity, [t EXCEPT !.state = "STOP"])

TxStop ==
    LET tick == baud_clk_tick(tx_baud)
        over == tick /\ t.cnt = StopLast
    IN  t' = [t EXCEPT !.cnt = NextCount(t.cnt, tick), !.tx = 1, !.done = over,
                       !.state = IF over THEN "IDLE" ELSE "STOP"]

TxClock ==
    \/ t.state = "IDLE" /\ TxIdle
    \/ t.state = "START" /\ TxStart
    \/ t.state = "DATA" /\ TxData
    \/ t.state = "PARITY" /\ TxParity
    \/ t.state = "STOP" /\ TxStop

-----------------------------------------------------------------------------
(* uart_rx.v                                                                *)
Centre == (Oversample - 1) \div 2

RxTo(next, done, err) ==
    r' = [next EXCEPT !.rx = t.tx, !.done = done, !.err = err]

RxWait == RxTo([r EXCEPT !.cnt = NextCount(r.cnt, baud_clk_tick(rx_baud))],
               FALSE, FALSE)

RxIdle == IF r.rx = 0 THEN RxTo([r EXCEPT !.state = "START", !.cnt = 0], FALSE, FALSE)
                      ELSE RxWait

RxStart ==
    IF baud_clk_tick(rx_baud) /\ r.cnt = Centre
    THEN RxTo([r EXCEPT !.state = "DATA", !.cnt = 0, !.idx = 0], FALSE, FALSE)
    ELSE RxWait

RxData ==
    LET last == r.idx = DataBits - 1 IN
    IF BitOver(r.cnt, baud_clk_tick(rx_baud))
    THEN RxTo([r EXCEPT !.data = ShiftDown(r.data, r.rx),
                        !.cnt = 0,
                        !.idx = IF last THEN r.idx ELSE r.idx + 1,
                        !.state = IF ~last THEN "DATA"
                                  ELSE IF ParityMode = 0 THEN "STOP" ELSE "PARITY"],
              FALSE, FALSE)
    ELSE RxWait

RxParity ==
    LET good == IF ParityMode = 1 THEN Not(XorBits(r.data)) ELSE XorBits(r.data) IN
    IF BitOver(r.cnt, baud_clk_tick(rx_baud))
    THEN RxTo([r EXCEPT !.state = "STOP", !.cnt = 0], FALSE, r.rx # good)
    ELSE RxWait

RxStop ==
    LET tick == baud_clk_tick(rx_baud)
        over == tick /\ r.cnt = StopLast
    IN  RxTo([r EXCEPT !.state = IF over THEN "IDLE" ELSE "STOP",
                       !.cnt = NextCount(r.cnt, tick)], over, FALSE)

RxClock ==
    \/ r.state = "IDLE" /\ RxIdle
    \/ r.state = "START" /\ RxStart
    \/ r.state = "DATA" /\ RxData
    \/ r.state = "PARITY" /\ RxParity
    \/ r.state = "STOP" /\ RxStop

-----------------------------------------------------------------------------
Init ==
    /\ tx_q = EmptyQueue
    /\ t = [state |-> "IDLE", cnt |-> 0, data |-> Zeros, idx |-> 0, parity |-> 0,
            tx |-> 1, done |-> FALSE]
    /\ r = [state |-> "IDLE", cnt |-> 0, data |-> Zeros, idx |-> 0, rx |-> 1,
            done |-> FALSE, err |-> FALSE]
    /\ parity_err = FALSE
    /\ tx_baud = 0 /\ rx_baud \in 0 .. TickClks - 1
    /\ delivered = FALSE

BaudClock(cnt) == (cnt + 1) % TickClks

\* One clock edge; the client offers byte b when wr_en is up.
Clock(wr_en, b) ==
    /\ TxClock /\ RxClock
    /\ tx_q' = QueueCycle(tx_q, t.done, wr_en, b, Depth)
    /\ parity_err' = (parity_err \/ r.err)
    /\ tx_baud' = BaudClock(tx_baud) /\ rx_baud' = BaudClock(rx_baud)
    /\ delivered' = (r.done \/ (delivered /\ ~t.done))

\* The client writes in no cycle in which the transmitter finishes a byte.
\* Hci keeps to this (DebugLink!FlagsExact); a write in that cycle can leave
\* its byte hidden in the FIFO.
Next == \E b \in Bytes, wr_en \in BOOLEAN : (wr_en => ~t.done) /\ Clock(wr_en, b)

Spec == Init /\ [][Next]_vars /\ WF_vars(Next)

-----------------------------------------------------------------------------
\* Each byte of the FIFO arrives once, unchanged, before uart_tx drops it: the
\* receiver reports only the front byte, never twice ("Don't latch during
\* done_tick"), and the transmitter pops no byte the receiver has missed.
DeliveredOnce ==
    /\ r.done => /\ ~delivered
                 /\ tx_q.items # <<>>
                 /\ r.data = Head(tx_q.items)
    /\ t.done => delivered

\* An undisturbed byte is not reported as a parity error ("0 = NONE, 1 = ODD,
\* 2 = EVEN" at both ends).
ParityAgrees == ParityMode # 0 => ~parity_err

\* The transmitter gets through its stop bit ("Issue stop bit") and every byte
\* of the FIFO leaves.
EveryByteLeaves == tx_q.items # <<>> ~> t.done
=============================================================================
