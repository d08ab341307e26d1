--------------------------------- MODULE Hci ---------------------------------
(***************************************************************************)
(* The host command interpreter of hci/hci.v with the two FIFOs of its UART *)
(* (uart.v), one step per clock edge.  It takes packets from the receive    *)
(* FIFO, works on the memories, registers and cartridge configuration, and  *)
(* answers through the transmit FIFO; while it is active the CPU stands     *)
(* still.  Module DebugLink connects it to a host and to memories; here the *)
(* environment offers any input in any cycle.                               *)
(*                                                                         *)
(* Abstractions: a byte is 0 .. Base-1 (256 in the code), so addresses and  *)
(* counts are two digits in that base; din stands for whichever of cpu_din, *)
(* cpu_dbgreg_in and ppu_vram_din the state looks at.                       *)
(*                                                                         *)
(* The definitions that no other uses (ActiveInPackets, DoneEarly, ...) are *)
(* slips of the code that the properties are known to notice.               *)
(***************************************************************************)
EXTENDS Integers, Sequences, QueueOps, HciOpcodes

CONSTANTS Base, Depth, NoByte

ASSUME HciAssumption ==
    /\ Base \in Nat /\ Base >= 13        \* every opcode is a byte
    /\ Depth \in Nat /\ Depth >= 3
    /\ NoByte \notin 0 .. Base - 1

VARIABLES
    h,      \* the q_ registers of hci.v
    rx_q,   \* uart_rx_fifo
    tx_q    \* uart_tx_fifo

hciVars == <<h, rx_q, tx_q>>

Bytes == 0 .. Base - 1
Addrs == 0 .. Base * Base - 1
Counts == 0 .. 2 * Base * Base - 1      \* 17 bits in the code

MemRdStg1 == {"CPU_MEM_RD_STG_1", "PPU_MEM_RD_STG_1"}
MemWrStg1 == {"CPU_MEM_WR_STG_1", "PPU_MEM_WR_STG_1"}
AddrCountStg0 == {"CPU_MEM_RD_STG_0", "PPU_MEM_RD_STG_0",
                  "CPU_MEM_WR_STG_0", "PPU_MEM_WR_STG_0"}

\* States that do nothing until a byte is there, and then take it.
ByteStates == {"DECODE", "ECHO_STG_0", "ECHO_STG_1", "CPU_REG_WR_STG_0",
               "CPU_REG_WR_STG_1", "CART_SET_CFG_STG_1"}
                 \cup AddrCountStg0 \cup MemWrStg1

States == ByteStates \cup MemRdStg1
             \cup {"DISABLED", "CPU_REG_RD", "QUERY_ERR_CODE", "PPU_DISABLE",
                   "CART_SET_CFG_STG_0"}

\* The state an opcode leads to from S_DECODE, where that is all it does.
DecodeTo ==
    [op \in {OP_ECHO, OP_CPU_MEM_RD, OP_CPU_MEM_WR, OP_DBG_BRK, OP_DBG_RUN,
             OP_CPU_REG_RD, OP_CPU_REG_WR, OP_QUERY_ERR_CODE, OP_PPU_MEM_RD,
             OP_PPU_MEM_WR, OP_PPU_DISABLE, OP_CART_SET_CFG} |->
        CASE op = OP_ECHO           -> "ECHO_STG_0"
          [] op = OP_CPU_MEM_RD     -> "CPU_MEM_RD_STG_0"
          [] op = OP_CPU_MEM_WR     -> "CPU_MEM_WR_STG_0"
          [] op = OP_DBG_BRK        -> "DECODE"
          [] op = OP_DBG_RUN        -> "DISABLED"
          [] op = OP_CPU_REG_RD     -> "CPU_REG_RD"
          [] op = OP_CPU_REG_WR     -> "CPU_REG_WR_STG_0"
          [] op = OP_QUERY_ERR_CODE -> "QUERY_ERR_CODE"
          [] op = OP_PPU_MEM_RD     -> "PPU_MEM_RD_STG_0"
          [] op = OP_PPU_MEM_WR     -> "PPU_MEM_WR_STG_0"
          [] op = OP_PPU_DISABLE    -> "PPU_DISABLE"
          [] op = OP_CART_SET_CFG   -> "CART_SET_CFG_STG_0"]

ExecuteState ==
    [s \in AddrCountStg0 |->
        CASE s = "CPU_MEM_RD_STG_0" -> "CPU_MEM_RD_STG_1"
          [] s = "PPU_MEM_RD_STG_0" -> "PPU_MEM_RD_STG_1"
          [] s = "CPU_MEM_WR_STG_0" -> "CPU_MEM_WR_STG_1"
          [] s = "PPU_MEM_WR_STG_0" -> "PPU_MEM_WR_STG_1"]

-----------------------------------------------------------------------------
(* Inputs and outputs of a cycle.                                           *)
rd_data == Head(rx_q.items)
HaveByte == ~rx_q.empty
ActiveInPackets == h.state \notin {"DISABLED", "DECODE"}
active == h.state # "DISABLED"

\* A byte leaves the receive FIFO.
rd_en(brk) ==
    /\ HaveByte
    /\ \/ h.state \in ByteStates
       \/ h.state = "DISABLED" /\ ~brk
       \/ h.state = "CPU_REG_RD" /\ ~tx_q.full

\* ~cpu_r_nw with its address and data, ppu_vram_wr, cpu_dbgreg_wr.
CpuWrites == \/ h.state = "CPU_MEM_WR_STG_1" /\ HaveByte
             \/ h.state = "PPU_DISABLE" /\ h.decode_cnt \in {1, 3}
cpu_dout == IF h.state = "PPU_DISABLE" THEN 0 ELSE rd_data
PpuWrites == h.state = "PPU_MEM_WR_STG_1" /\ HaveByte
cpu_dbgreg_wr == h.state = "CPU_REG_WR_STG_1" /\ HaveByte
cpu_dbgreg_sel == IF cpu_dbgreg_wr THEN h.addr % 16
                  ELSE IF h.state = "CPU_REG_RD" /\ HaveByte THEN rd_data % 16
                  ELSE 0

-----------------------------------------------------------------------------
\* Error bits: 1 for DBG_UART_PARITY_ERR, 2 for DBG_UNKNOWN_OPCODE.
WithParity(err, parity_err) == IF parity_err /\ err % 2 = 0 THEN err + 1 ELSE err
WithUnknown(err) == IF err >= 2 THEN err ELSE err + 2

\* Every register keeps its value, but for the pulses and the parity bit.
Default(parity_err) ==
    [h EXCEPT !.wr_en = FALSE, !.tx_data = 0, !.cart_cfg_upd = FALSE,
              !.err_code = WithParity(@, parity_err)]

Say(d, b) == [d EXCEPT !.wr_en = TRUE, !.tx_data = b]

\* The header of a packet is complete: execute it, unless it has nothing to do.
ExecuteAnyCount(e, cnt, next) == [e EXCEPT !.execute_cnt = cnt, !.state = next]
Execute(e, cnt, next) ==
    [e EXCEPT !.execute_cnt = cnt, !.state = IF cnt = 0 THEN "DECODE" ELSE next]

\* After the last byte of a packet, return to the decode stage.
DoneEarly(d) == IF d.execute_cnt <= 1 THEN [d EXCEPT !.state = "DECODE"] ELSE d
Done(d) == IF d.execute_cnt = 0 THEN [d EXCEPT !.state = "DECODE"] ELSE d

NextAddrUnbounded(a) == a + 1
NextAddrSticks(a) == IF a = Base * Base - 1 THEN a ELSE a + 1
NextAddr(a) == (a + 1) % (Base * Base)

-----------------------------------------------------------------------------
Wait(d) ==
    /\ \/ h.state \in ByteStates /\ ~HaveByte
       \/ h.state = "CPU_REG_RD" /\ (tx_q.full \/ ~HaveByte)
       \/ h.state = "QUERY_ERR_CODE" /\ tx_q.full
       \/ h.state \in MemRdStg1 /\ h.execute_cnt % 2 = 1 /\ tx_q.full
    /\ h' = d

DisabledIgnoresHlt(d, brk) ==
    /\ h.state = "DISABLED"
    /\ h' = IF brk \/ ~HaveByte THEN d
            ELSE CASE rd_data = OP_DBG_BRK       -> [d EXCEPT !.state = "DECODE"]
                   [] rd_data = OP_QUERY_DBG_BRK -> Say(d, 0)
                   [] OTHER                      -> d

Disabled(d, brk) ==
    /\ h.state = "DISABLED"
    /\ \/ brk /\ h' = [d EXCEPT !.state = "DECODE"]
       \/ /\ ~brk /\ HaveByte
          /\ h' = CASE rd_data = OP_DBG_BRK       -> [d EXCEPT !.state = "DECODE"]
                    [] rd_data = OP_QUERY_DBG_BRK -> Say(d, 0)
                    [] OTHER                      -> d
       \/ ~brk /\ ~HaveByte /\ h' = d

Decode(d) ==
    /\ h.state = "DECODE" /\ HaveByte
    /\ LET e == [d EXCEPT !.decode_cnt = 0] IN
       \/ /\ rd_data \in DOMAIN DecodeTo
          /\ h' = [e EXCEPT !.state = DecodeTo[rd_data]]
       \/ rd_data = OP_QUERY_DBG_BRK /\ h' = Say(e, 1)
       \/ /\ rd_data \notin DOMAIN DecodeTo \cup {OP_QUERY_DBG_BRK}
          /\ h' = [e EXCEPT !.err_code = WithUnknown(@)]

EchoStg0(d) ==
    LET e   == [d EXCEPT !.decode_cnt = (@ + 1) % 8]
        cnt == rd_data * Base + (h.execute_cnt % Base)
    IN
    /\ h.state = "ECHO_STG_0" /\ HaveByte
    /\ h' = IF h.decode_cnt = 0
            THEN [e EXCEPT !.execute_cnt = rd_data]
            ELSE Execute(e, cnt, "ECHO_STG_1")

\* d_execute_cnt = q_execute_cnt - 1 on 17 bits.
CountDown == IF h.execute_cnt = 0 THEN 2 * Base * Base - 1 ELSE h.execute_cnt - 1

EchoStg1(d) ==
    /\ h.state = "ECHO_STG_1" /\ HaveByte
    /\ h' = Done(Say([d EXCEPT !.execute_cnt = CountDown], rd_data))

\* ADDR_LO, ADDR_HI, CNT_LO, CNT_HI of the four memory packets.  A read counts
\* two cycles per byte.
AddrCount(d, scale) ==
    LET e    == [d EXCEPT !.decode_cnt = (@ + 1) % 8]
        cnt  == scale * (rd_data * Base + (h.execute_cnt % Base))
    IN
    /\ HaveByte
    /\ h' = CASE h.decode_cnt = 0 -> [e EXCEPT !.addr = rd_data]
              [] h.decode_cnt = 1 -> [e EXCEPT !.addr = rd_data * Base + (@ % Base)]
              [] h.decode_cnt = 2 -> [e EXCEPT !.execute_cnt = rd_data]
              [] OTHER -> Execute(e, cnt, ExecuteState[h.state])

CpuMemRdStg0(d) == h.state = "CPU_MEM_RD_STG_0" /\ AddrCount(d, 2)
CpuMemWrStg0(d) == h.state = "CPU_MEM_WR_STG_0" /\ AddrCount(d, 1)
PpuMemRdStg0(d) == h.state = "PPU_MEM_RD_STG_0" /\ AddrCount(d, 2)
PpuMemWrStg0(d) == h.state = "PPU_MEM_WR_STG_0" /\ AddrCount(d, 1)

MemRdEveryCycle(d, din) ==
    /\ ~tx_q.full
    /\ h' = Done(Say([d EXCEPT !.execute_cnt = CountDown, !.addr = NextAddr(@)], din))
MemRdUnchecked(d, din) ==
    LET e == [d EXCEPT !.execute_cnt = CountDown] IN
    h' = IF h.execute_cnt % 2 = 0 THEN e
         ELSE Done(Say([e EXCEPT !.addr = NextAddr(@)], din))
MemRdTooSoon(d, din) ==
    LET e == [d EXCEPT !.execute_cnt = CountDown] IN
    \/ /\ h.execute_cnt % 2 = 0
       /\ h' = Say([e EXCEPT !.addr = NextAddr(@)], din)
    \/ h.execute_cnt % 2 = 1 /\ h' = Done(e)

\* A dummy cycle while the count is even, then the answer when there is room.
MemRd(d, din) ==
    LET e == [d EXCEPT !.execute_cnt = CountDown] IN
    \/ h.execute_cnt % 2 = 0 /\ h' = e
    \/ /\ h.execute_cnt % 2 = 1 /\ ~tx_q.full
       /\ h' = Done(Say([e EXCEPT !.addr = NextAddr(@)], din))

MemWr(d) ==
    HaveByte /\ h' = Done([d EXCEPT !.execute_cnt = CountDown,
                                    !.addr = NextAddr(@)])

CpuMemRdStg1(d, din) == h.state = "CPU_MEM_RD_STG_1" /\ MemRd(d, din)
CpuMemWrStg1(d)      == h.state = "CPU_MEM_WR_STG_1" /\ MemWr(d)
PpuMemRdStg1(d, din) == h.state = "PPU_MEM_RD_STG_1" /\ MemRd(d, din)
PpuMemWrStg1(d)      == h.state = "PPU_MEM_WR_STG_1" /\ MemWr(d)

CpuRegRd(d, din) ==
    /\ h.state = "CPU_REG_RD" /\ HaveByte /\ ~tx_q.full
    /\ h' = Say([d EXCEPT !.state = "DECODE"], din)

CpuRegWrStg0(d) ==
    /\ h.state = "CPU_REG_WR_STG_0" /\ HaveByte
    /\ h' = [d EXCEPT !.addr = rd_data, !.state = "CPU_REG_WR_STG_1"]

CpuRegWrStg1(d) ==
    /\ h.state = "CPU_REG_WR_STG_1" /\ HaveByte
    /\ h' = [d EXCEPT !.state = "DECODE"]

QueryErrCode(d) ==
    /\ h.state = "QUERY_ERR_CODE" /\ ~tx_q.full
    /\ h' = Say([d EXCEPT !.state = "DECODE"], h.err_code)

\* 0x2000, 0x2001 and 0x2002, scaled to the address width.
PpuReg(i) == (Base * Base) \div 8 + i

PpuDisableNoGap(d) ==
    LET e == [d EXCEPT !.decode_cnt = (@ + 1) % 8] IN
    /\ h.state = "PPU_DISABLE"
    /\ h' = CASE h.decode_cnt \in {0, 2, 4} ->
                    [e EXCEPT !.addr = PpuReg(h.decode_cnt \div 2)]
              [] h.decode_cnt = 5 -> [e EXCEPT !.addr = 0, !.state = "DECODE"]
              [] OTHER -> e
PpuDisable(d) ==
    LET e == [d EXCEPT !.decode_cnt = (@ + 1) % 8] IN
    /\ h.state = "PPU_DISABLE"
    /\ h' = CASE h.decode_cnt \in {0, 2, 4} ->
                    [e EXCEPT !.addr = PpuReg(h.decode_cnt \div 2)]
              [] h.decode_cnt \in {1, 3} -> [e EXCEPT !.addr = 0]
              [] h.decode_cnt = 5 -> [e EXCEPT !.addr = 0, !.state = "DECODE"]
              [] OTHER -> e

CartSetCfgOneMore(d) ==
    /\ h.state = "CART_SET_CFG_STG_0"
    /\ h' = [d EXCEPT !.execute_cnt = 5, !.state = "CART_SET_CFG_STG_1"]
CartSetCfgStg0(d) ==
    /\ h.state = "CART_SET_CFG_STG_0"
    /\ h' = [d EXCEPT !.execute_cnt = 4, !.state = "CART_SET_CFG_STG_1"]

CartSetCfgStg1(d) ==
    LET e == [d EXCEPT !.execute_cnt = CountDown,
                       !.cart_cfg = Append(Tail(@), rd_data)]
    IN
    /\ h.state = "CART_SET_CFG_STG_1" /\ HaveByte
    /\ h' = IF h.execute_cnt = 0
            THEN [e EXCEPT !.state = "DECODE", !.cart_cfg_upd = TRUE]
            ELSE e

-----------------------------------------------------------------------------
Step(d, brk, din) ==
    \/ Wait(d)           \/ Disabled(d, brk)     \/ Decode(d)
    \/ EchoStg0(d)       \/ EchoStg1(d)
    \/ CpuMemRdStg0(d)   \/ CpuMemRdStg1(d, din)
    \/ CpuMemWrStg0(d)   \/ CpuMemWrStg1(d)
    \/ PpuMemRdStg0(d)   \/ PpuMemRdStg1(d, din)
    \/ PpuMemWrStg0(d)   \/ PpuMemWrStg1(d)
    \/ CpuRegRd(d, din)  \/ CpuRegWrStg0(d)      \/ CpuRegWrStg1(d)
    \/ QueryErrCode(d)   \/ PpuDisable(d)
    \/ CartSetCfgStg0(d) \/ CartSetCfgStg1(d)

ResetRegs ==
    [state |-> "DECODE", decode_cnt |-> 0, execute_cnt |-> 0, addr |-> 0,
     err_code |-> 0, cart_cfg |-> <<0, 0, 0, 0, 0>>, cart_cfg_upd |-> FALSE,
     tx_data |-> 0, wr_en |-> FALSE]

HciInit ==
    /\ h = ResetRegs
    /\ rx_q = EmptyQueue
    /\ tx_q = EmptyQueue

\* One clock edge.  rx is the byte uart_rx has just completed, if any; tx_done
\* says uart_tx has just finished the front byte of the transmit FIFO.
Edge(rx, tx_done, parity_err, brk, din) ==
    /\ Step(Default(parity_err), brk, din)
    /\ rx_q' = QueueCycle(rx_q, rd_en(brk), rx # NoByte, rx, Depth)
    /\ tx_q' = QueueCycle(tx_q, tx_done, h.wr_en, h.tx_data, Depth)

HciReset ==
    /\ h' = ResetRegs
    /\ rx_q' = EmptyQueue /\ tx_q' = EmptyQueue

\* Any host, any CPU, any memory: every input may come in every cycle.
HciNext ==
    \/ HciReset
    \/ \E rx \in Bytes \cup {NoByte}, tx_done, parity_err, brk \in BOOLEAN,
          din \in Bytes : Edge(rx, tx_done, parity_err, brk, din)

HciSpec == HciInit /\ [][HciNext]_hciVars

-----------------------------------------------------------------------------
RegsOK ==
    h \in [state : States, decode_cnt : 0 .. 7, execute_cnt : Counts,
           addr : Addrs, err_code : 0 .. 3, cart_cfg : Seq(Bytes),
           cart_cfg_upd : BOOLEAN, tx_data : Bytes, wr_en : BOOLEAN]

QueueOK(q) == q \in [items : Seq(Bytes), empty : BOOLEAN, full : BOOLEAN]

\* Registers within their widths, under any input.
HciTypeOK ==
    /\ RegsOK
    /\ Len(h.cart_cfg) = 5
    /\ QueueOK(rx_q) /\ Len(rx_q.items) <= Depth
    /\ QueueOK(tx_q) /\ Len(tx_q.items) <= Depth

\* An executing packet has bytes to go, so that the count never runs through
\* zero and on for 2^17 - 1 more; decoding ends before its count wraps.
CountsLive ==
    /\ h.state \in MemRdStg1 \cup MemWrStg1 \cup {"ECHO_STG_1"} => h.execute_cnt > 0
    /\ h.state = "CART_SET_CFG_STG_1" => h.execute_cnt <= 4
    /\ h.state = "PPU_DISABLE" => h.decode_cnt <= 5
    /\ h.state \in AddrCountStg0 => h.decode_cnt <= 3

AnswerChecked ==
    \/ h.state \in MemRdStg1 /\ h.execute_cnt % 2 = 1
    \/ h.state \in {"CPU_REG_RD", "QUERY_ERR_CODE"}

\* An answer whose state looked at tx_full ("allow uart tx fifo 1 cycle to
\* update tx_full setting") finds room when it reaches the FIFO a cycle later,
\* whatever was answered before it and however fast the UART drains.
CheckedAnswersLand ==
    [][AnswerChecked /\ h'.wr_en => ~tx_q'.full]_hciVars

=============================================================================
