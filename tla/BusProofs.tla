----------------------------- MODULE BusProofs -----------------------------
(***************************************************************************)
(* Proofs about the host command interpreter, and about NesBus, where it    *)
(* shares the bus with CPU and DMA.                                         *)
(*                                                                          *)
(* The first part has the interpreter under any environment, for any size   *)
(* of byte and any depth of FIFO: it is about HciSpec, and needs nothing of *)
(* NesBus.  The second part, which uses its invariant, has a comment of its *)
(* own.                                                                     *)
(***************************************************************************)
EXTENDS NesBus, SequenceTheorems, TLAPS

-----------------------------------------------------------------------------
(* Arithmetic of two-digit numbers.                                         *)

LEMMA TwoDigits ==
    ASSUME NEW hi \in Bytes, NEW lo \in Bytes
    PROVE  hi * Base + lo \in Addrs
  <1> USE HciAssumption DEF Bytes, Addrs
  <1>1. hi * Base + lo \in Nat
    OBVIOUS
  <1>2. hi * Base <= (Base - 1) * Base
    <2>1. (Base - 1 - hi) * Base >= 0
      OBVIOUS
    <2>2. (Base - 1 - hi) * Base = (Base - 1) * Base - hi * Base
      OBVIOUS
    <2>3. QED  BY <2>1, <2>2
  <1>3. (Base - 1) * Base = Base * Base - Base
    OBVIOUS
  <1>4. QED  BY <1>1, <1>2, <1>3

LEMMA LowDigit == ASSUME NEW n \in Nat PROVE n % Base \in Bytes
  BY HciAssumption DEF Bytes

LEMMA NextAddrOK == ASSUME NEW a \in Addrs PROVE NextAddr(a) \in Addrs
  BY HciAssumption DEF Addrs, NextAddr

LEMMA PpuRegOK == ASSUME NEW i \in 0 .. 2 PROVE PpuReg(i) \in Addrs
  <1>1. Base * Base \in Nat /\ Base * Base >= 169
    BY HciAssumption
  <1>2. QED  BY <1>1 DEF PpuReg, Addrs

LEMMA Doubled ==
    ASSUME NEW n \in Addrs
    PROVE  2 * n \in Counts /\ (2 * n) % 2 = 0 /\ n \in Counts
  <1>1. Base * Base \in Nat /\ 2 * Base * Base = 2 * (Base * Base)
    BY HciAssumption
  <1>2. n \in Nat /\ n <= Base * Base - 1
    BY <1>1 DEF Addrs
  <1>3. 2 * n \in Counts /\ n \in Counts
    BY <1>1, <1>2 DEF Counts
  <1>4. (2 * n) % 2 = 0
    BY <1>2
  <1>5. QED  BY <1>3, <1>4

LEMMA BytesInRanges == Bytes \subseteq Addrs /\ Bytes \subseteq Counts /\ 0 \in Bytes /\ 1 \in Bytes
                       /\ 4 \in Counts
  <1>1. Base * Base \in Nat /\ 2 * Base * Base = 2 * (Base * Base)
    BY HciAssumption
  <1>2. Base * Base >= Base
    BY HciAssumption
  <1>3. QED  BY <1>1, <1>2, HciAssumption DEF Bytes, Addrs, Counts

LEMMA CountDownOK ==
    ASSUME h.execute_cnt \in Counts
    PROVE  CountDown \in Counts /\ (h.execute_cnt > 0 => CountDown = h.execute_cnt - 1)
  <1>1. Base * Base \in Nat /\ 2 * Base * Base = 2 * (Base * Base)
    BY HciAssumption
  <1>2. Base * Base >= 1
    BY HciAssumption
  <1>3. QED  BY <1>1, <1>2 DEF CountDown, Counts

-----------------------------------------------------------------------------
(* The inductive invariant.                                                 *)

HRegs == [state : States, decode_cnt : 0 .. 7, execute_cnt : Counts,
          addr : Addrs, err_code : 0 .. 3, cart_cfg : Seq(Bytes),
          cart_cfg_upd : BOOLEAN, tx_data : Bytes, wr_en : BOOLEAN]

\* A state that is about to answer has no answer under way to the FIFO.
NoneUnderWay == AnswerChecked => ~h.wr_en

HInv == /\ h \in HRegs /\ Len(h.cart_cfg) = 5
        /\ CountsLive
        /\ NoneUnderWay

QInv(q) ==
    /\ QueueOK(q) /\ Len(q.items) <= Depth
    /\ ~q.empty => Len(q.items) > 0
    /\ ~q.full => Len(q.items) < Depth

IInv == HInv /\ QInv(rx_q) /\ QInv(tx_q)

\* The registers as the combinational block defaults them.
Defaulted(d) ==
    /\ d \in HRegs /\ Len(d.cart_cfg) = 5
    /\ d.state = h.state /\ d.execute_cnt = h.execute_cnt
    /\ d.decode_cnt = h.decode_cnt /\ d.addr = h.addr
    /\ d.cart_cfg = h.cart_cfg /\ ~d.wr_en

LEMMA DefaultOK ==
    ASSUME HInv, NEW parity_err \in BOOLEAN
    PROVE  Defaulted(Default(parity_err))
  <1>1. WithParity(h.err_code, parity_err) \in 0 .. 3
    BY DEF HInv, HRegs, WithParity
  <1>2. 0 \in Bytes
    BY BytesInRanges
  <1>3. QED  BY <1>1, <1>2 DEF HInv, HRegs, Default, Defaulted

LEMMA RdDataOK == ASSUME IInv, HaveByte PROVE rd_data \in Bytes
  BY DEF IInv, QInv, QueueOK, HaveByte, rd_data

-----------------------------------------------------------------------------
(* One lemma per state of the interpreter.                                  *)

LEMMA WaitOK ==
    ASSUME IInv, NEW d, Defaulted(d), Wait(d)
    PROVE  HInv'
  BY DEF IInv, HInv, Defaulted, Wait, CountsLive, NoneUnderWay, AnswerChecked

\* In these states the invariant asks for no more than the registers' widths.
Undemanding == {"DECODE", "DISABLED", "ECHO_STG_0", "CPU_REG_WR_STG_0",
                "CPU_REG_WR_STG_1", "CART_SET_CFG_STG_0"}

LEMMA UndemandingOK ==
    ASSUME h' \in HRegs, Len(h'.cart_cfg) = 5, h'.state \in Undemanding
    PROVE  HInv'
  <1>1. h'.state \notin MemRdStg1 \cup MemWrStg1 \cup AddrCountStg0
                          \cup {"ECHO_STG_1", "CART_SET_CFG_STG_1", "PPU_DISABLE",
                                "CPU_REG_RD", "QUERY_ERR_CODE"}
    BY DEF Undemanding, MemRdStg1, MemWrStg1, AddrCountStg0
  <1>2. QED
    BY <1>1 DEF HInv, CountsLive, NoneUnderWay, AnswerChecked

LEMMA UndemandingStates == Undemanding \subseteq States
  BY DEF Undemanding, States, ByteStates

LEMMA SayOK ==
    ASSUME NEW d \in HRegs, NEW b \in Bytes
    PROVE  /\ Say(d, b) \in HRegs
           /\ Say(d, b).state = d.state
           /\ Say(d, b).execute_cnt = d.execute_cnt
           /\ Say(d, b).cart_cfg = d.cart_cfg
  BY DEF Say, HRegs

LEMMA StateOK ==
    ASSUME NEW d \in HRegs, NEW s \in States
    PROVE  /\ [d EXCEPT !.state = s] \in HRegs
           /\ [d EXCEPT !.state = s].state = s
           /\ [d EXCEPT !.state = s].cart_cfg = d.cart_cfg
  BY DEF HRegs

LEMMA DisabledOK ==
    ASSUME IInv, NEW d, Defaulted(d), NEW brk \in BOOLEAN, Disabled(d, brk)
    PROVE  HInv'
  <1>1. "DECODE" \in States /\ "DECODE" \in Undemanding /\ "DISABLED" \in Undemanding
    BY UndemandingStates DEF Undemanding
  <1>2. d \in HRegs /\ Len(d.cart_cfg) = 5 /\ d.state = "DISABLED" /\ 0 \in Bytes
    BY BytesInRanges DEF Defaulted, Disabled
  <1>3. CASE h' = [d EXCEPT !.state = "DECODE"]
    <2>1. h' \in HRegs /\ h'.state = "DECODE" /\ h'.cart_cfg = d.cart_cfg
      BY <1>1, <1>2, <1>3, StateOK
    <2>2. QED  BY <1>1, <1>2, <2>1, UndemandingOK
  <1>4. CASE h' = d
    BY <1>1, <1>2, <1>4, UndemandingOK
  <1>5. CASE h' = Say(d, 0)
    <2>1. h' \in HRegs /\ h'.state = "DISABLED" /\ h'.cart_cfg = d.cart_cfg
      BY <1>2, <1>5, SayOK
    <2>2. QED  BY <1>1, <1>2, <2>1, UndemandingOK
  <1>6. QED
    BY <1>3, <1>4, <1>5 DEF Disabled

LEMMA DecodeOK ==
    ASSUME IInv, NEW d, Defaulted(d), Decode(d)
    PROVE  HInv'
  <1> DEFINE e == [d EXCEPT !.decode_cnt = 0]
  <1>1. e \in HRegs /\ Len(e.cart_cfg) = 5 /\ e.state = "DECODE" /\ ~e.wr_en
        /\ e.decode_cnt = 0 /\ 1 \in Bytes
    BY BytesInRanges DEF Defaulted, Decode, HRegs
  <1>2. CASE rd_data \in DOMAIN DecodeTo /\ h' = [e EXCEPT !.state = DecodeTo[rd_data]]
    <2>1. DecodeTo[rd_data] \in
             Undemanding \cup AddrCountStg0 \cup {"CPU_REG_RD", "QUERY_ERR_CODE", "PPU_DISABLE"}
      BY <1>2 DEF DecodeTo, Undemanding, AddrCountStg0, OP_ECHO, OP_CPU_MEM_RD,
         OP_CPU_MEM_WR, OP_DBG_BRK, OP_DBG_RUN, OP_CPU_REG_RD, OP_CPU_REG_WR,
         OP_QUERY_ERR_CODE, OP_PPU_MEM_RD, OP_PPU_MEM_WR, OP_PPU_DISABLE,
         OP_CART_SET_CFG
    <2>2. DecodeTo[rd_data] \in States
      BY <2>1 DEF Undemanding, AddrCountStg0, States, ByteStates
    <2> HIDE DEF e
    <2>3. h' \in HRegs /\ h'.state = DecodeTo[rd_data] /\ Len(h'.cart_cfg) = 5
      BY <1>1, <1>2, <2>2, StateOK
    <2>4. ~h'.wr_en /\ h'.decode_cnt = 0
      BY <1>1, <1>2 DEF HRegs
    <2>5. h'.state \notin MemRdStg1 \cup MemWrStg1 \cup {"ECHO_STG_1", "CART_SET_CFG_STG_1"}
      BY <2>1, <2>3 DEF Undemanding, AddrCountStg0, MemRdStg1, MemWrStg1
    <2>6. QED
      BY <2>3, <2>4, <2>5 DEF HInv, CountsLive, NoneUnderWay
  <1>3. CASE h' = Say(e, 1)
    <2> HIDE DEF e
    <2>1. h' \in HRegs /\ h'.state = "DECODE" /\ h'.cart_cfg = e.cart_cfg
      BY <1>1, <1>3, SayOK
    <2>2. QED  BY <1>1, <2>1, UndemandingOK DEF Undemanding
  <1>4. CASE h' = [e EXCEPT !.err_code = WithUnknown(@)]
    <2> HIDE DEF e
    <2>1. WithUnknown(e.err_code) \in 0 .. 3
      BY <1>1 DEF HRegs, WithUnknown
    <2>2. h' \in HRegs /\ h'.state = "DECODE" /\ h'.cart_cfg = e.cart_cfg
      BY <1>1, <1>4, <2>1 DEF HRegs
    <2>3. QED  BY <1>1, <2>2, UndemandingOK DEF Undemanding
  <1>5. QED
    BY <1>2, <1>3, <1>4 DEF Decode

\* Execute moves on to a state that executes, with something to do, or is done.
LEMMA ExecuteOK ==
    ASSUME NEW e \in HRegs, Len(e.cart_cfg) = 5, ~e.wr_en,
           NEW cnt \in Counts, NEW next \in MemRdStg1 \cup MemWrStg1 \cup {"ECHO_STG_1"},
           next \in MemRdStg1 => cnt % 2 = 0,
           h' = Execute(e, cnt, next)
    PROVE  HInv'
  <1>1. cnt \in Nat
    BY HciAssumption DEF Counts
  <1>2. next \in States
    BY DEF States, ByteStates, MemRdStg1, MemWrStg1
  <1>3. CASE cnt = 0
    <2>1. h' = [e EXCEPT !.execute_cnt = cnt, !.state = "DECODE"]
      BY <1>3 DEF Execute
    <2>2. h' \in HRegs /\ h'.state = "DECODE" /\ Len(h'.cart_cfg) = 5
      BY <2>1, UndemandingStates DEF HRegs, Undemanding
    <2>3. QED  BY <2>2, UndemandingOK DEF Undemanding
  <1>4. CASE cnt # 0
    <2>1. h' = [e EXCEPT !.execute_cnt = cnt, !.state = next]
      BY <1>4 DEF Execute
    <2>2. h' \in HRegs /\ h'.state = next /\ Len(h'.cart_cfg) = 5
          /\ h'.execute_cnt = cnt /\ ~h'.wr_en
      BY <2>1, <1>2 DEF HRegs
    <2>3. next \notin AddrCountStg0 \cup {"CART_SET_CFG_STG_1", "PPU_DISABLE"}
      BY DEF MemRdStg1, MemWrStg1, AddrCountStg0
    <2>4. QED
      BY <1>1, <1>4, <2>2, <2>3 DEF HInv, CountsLive, NoneUnderWay
  <1>5. QED  BY <1>3, <1>4

\* The two digits a header's second count byte completes.
LEMMA LongCount ==
    ASSUME HInv, rd_data \in Bytes
    PROVE  rd_data * Base + (h.execute_cnt % Base) \in Addrs
  <1>1. h.execute_cnt \in Nat
    <2>1. 2 * Base * Base \in Nat
      BY HciAssumption
    <2>2. QED  BY <2>1 DEF HInv, HRegs, Counts
  <1>2. h.execute_cnt % Base \in Bytes
    BY <1>1, LowDigit
  <1>3. QED  BY <1>2, TwoDigits

LEMMA EchoStg0OK ==
    ASSUME IInv, NEW d, Defaulted(d), EchoStg0(d)
    PROVE  HInv'
  <1> DEFINE e == [d EXCEPT !.decode_cnt = (@ + 1) % 8]
             cnt == rd_data * Base + (h.execute_cnt % Base)
  <1>1. e \in HRegs /\ Len(e.cart_cfg) = 5 /\ ~e.wr_en /\ e.state = "ECHO_STG_0"
    BY DEF Defaulted, EchoStg0, HRegs
  <1>2. rd_data \in Bytes
    BY RdDataOK DEF EchoStg0
  <1>3. cnt \in Counts
    BY <1>2, LongCount, Doubled DEF IInv
  <1>4. CASE h' = [e EXCEPT !.execute_cnt = rd_data]
    <2>1. rd_data \in Counts
      BY <1>2, BytesInRanges
    <2> HIDE DEF e
    <2>2. h' \in HRegs /\ h'.state = "ECHO_STG_0" /\ Len(h'.cart_cfg) = 5
      BY <1>1, <1>4, <2>1 DEF HRegs
    <2>3. QED  BY <2>2, UndemandingOK DEF Undemanding
  <1>5. CASE h' = Execute(e, cnt, "ECHO_STG_1")
    <2>1. "ECHO_STG_1" \notin MemRdStg1
      BY DEF MemRdStg1
    <2> HIDE DEF e, cnt
    <2>2. QED  BY <1>1, <1>3, <1>5, <2>1, ExecuteOK
  <1>6. QED  BY <1>4, <1>5 DEF EchoStg0

LEMMA AddrCountOK ==
    ASSUME IInv, NEW d, Defaulted(d), NEW scale \in {1, 2}, h.state \in AddrCountStg0,
           scale = 1 => h.state \notin {"CPU_MEM_RD_STG_0", "PPU_MEM_RD_STG_0"},
           AddrCount(d, scale)
    PROVE  HInv'
  <1> DEFINE e == [d EXCEPT !.decode_cnt = (@ + 1) % 8]
             cnt == scale * (rd_data * Base + (h.execute_cnt % Base))
  <1>1. e \in HRegs /\ Len(e.cart_cfg) = 5 /\ ~e.wr_en /\ e.state = h.state
        /\ e.decode_cnt = (h.decode_cnt + 1) % 8 /\ e.addr = h.addr
    BY DEF Defaulted, HRegs
  <1>2. rd_data \in Bytes
    BY RdDataOK DEF AddrCount
  <1>3. cnt \in Counts /\ (scale = 2 => cnt % 2 = 0)
    <2> DEFINE n == rd_data * Base + (h.execute_cnt % Base)
    <2>1. n \in Addrs
      BY <1>2, LongCount DEF IInv
    <2>2. n \in Int
      BY <2>1 DEF Addrs
    <2> HIDE DEF n
    <2>3. CASE scale = 1
      <3>1. scale * n = n
        BY <2>2, <2>3
      <3>2. scale * n \in Counts
        BY <2>1, <3>1, Doubled
      <3>3. QED  BY <3>2, <2>3 DEF n
    <2>4. CASE scale = 2
      <3>1. scale * n \in Counts /\ (scale * n) % 2 = 0
        BY <2>1, <2>4, Doubled
      <3>2. QED  BY <3>1 DEF n
    <2>5. QED  BY <2>3, <2>4
  <1>4. h.decode_cnt \in 0 .. 3
    BY DEF IInv, HInv, HRegs, CountsLive
  \* Another byte of the header to come.
  <1>5. ASSUME h.decode_cnt < 3, h' \in HRegs, h'.state = h.state, ~h'.wr_en,
               Len(h'.cart_cfg) = 5, h'.decode_cnt = (h.decode_cnt + 1) % 8
        PROVE  HInv'
    <2>1. h'.decode_cnt <= 3
      BY <1>4, <1>5
    <2>2. h'.state \notin MemRdStg1 \cup MemWrStg1
                            \cup {"ECHO_STG_1", "CART_SET_CFG_STG_1", "PPU_DISABLE"}
      BY <1>5 DEF AddrCountStg0, MemRdStg1, MemWrStg1
    <2>3. QED  BY <1>5, <2>1, <2>2 DEF HInv, CountsLive, NoneUnderWay
  <1>6. CASE h.decode_cnt = 0
    <2>1. h' = [e EXCEPT !.addr = rd_data] /\ rd_data \in Addrs
      BY <1>2, <1>6, BytesInRanges DEF AddrCount
    <2> HIDE DEF e
    <2>2. QED  BY <1>1, <1>5, <1>6, <2>1 DEF HRegs
  <1>7. CASE h.decode_cnt = 1
    <2>1. h' = [e EXCEPT !.addr = rd_data * Base + (h.addr % Base)]
      <3>1. h' = [e EXCEPT !.addr = rd_data * Base + (@ % Base)]
        BY <1>7 DEF AddrCount
      <3> HIDE DEF e
      <3>2. QED  BY <1>1, <3>1
    <2>2. rd_data * Base + (h.addr % Base) \in Addrs
      <3>1. h.addr \in Nat
        BY HciAssumption DEF IInv, HInv, HRegs, Addrs
      <3>2. h.addr % Base \in Bytes
        BY <3>1, LowDigit
      <3>3. QED  BY <1>2, <3>2, TwoDigits
    <2> HIDE DEF e
    <2>3. QED  BY <1>1, <1>5, <1>7, <2>1, <2>2 DEF HRegs
  <1>8. CASE h.decode_cnt = 2
    <2>1. h' = [e EXCEPT !.execute_cnt = rd_data] /\ rd_data \in Counts
      BY <1>2, <1>8, BytesInRanges DEF AddrCount
    <2> HIDE DEF e
    <2>2. QED  BY <1>1, <1>5, <1>8, <2>1 DEF HRegs
  <1>9. CASE h.decode_cnt = 3
    <2>1. h' = Execute(e, cnt, ExecuteState[h.state])
      BY <1>9 DEF AddrCount
    <2>2. ExecuteState[h.state] \in MemRdStg1 \cup MemWrStg1
          /\ (ExecuteState[h.state] \in MemRdStg1 =>
                 h.state \in {"CPU_MEM_RD_STG_0", "PPU_MEM_RD_STG_0"})
      BY DEF ExecuteState, AddrCountStg0, MemRdStg1, MemWrStg1
    <2> HIDE DEF e, cnt
    <2>3. QED  BY <1>1, <1>3, <2>1, <2>2, ExecuteOK
  <1>10. QED  BY <1>4, <1>6, <1>7, <1>8, <1>9

LEMMA CountDownNat ==
    ASSUME HInv, h.execute_cnt > 0
    PROVE  CountDown \in Counts /\ CountDown = h.execute_cnt - 1 /\ h.execute_cnt \in Nat
  <1>1. 2 * Base * Base \in Nat
    BY HciAssumption
  <1>2. h.execute_cnt \in Counts
    BY DEF HInv, HRegs
  <1>3. QED  BY <1>1, <1>2, CountDownOK DEF Counts

\* A packet byte is dealt with: the state stays while the count lasts.
LEMMA DoneOK ==
    ASSUME NEW e \in HRegs, Len(e.cart_cfg) = 5, e.execute_cnt \in Nat,
           e.state \in MemRdStg1 \cup MemWrStg1 \cup {"ECHO_STG_1"},
           e.state \in MemRdStg1 => e.execute_cnt % 2 = 0,
           h' = Done(e)
    PROVE  HInv'
  <1>1. CASE e.execute_cnt = 0
    <2>1. h' = [e EXCEPT !.state = "DECODE"]
      BY <1>1 DEF Done
    <2>2. h' \in HRegs /\ h'.state = "DECODE" /\ h'.cart_cfg = e.cart_cfg
      BY <2>1, StateOK, UndemandingStates DEF Undemanding
    <2>3. QED  BY <2>2, UndemandingOK DEF Undemanding
  <1>2. CASE e.execute_cnt # 0
    <2>1. h' = e /\ e.execute_cnt > 0
      BY <1>2 DEF Done
    <2>2. e.state \notin AddrCountStg0 \cup {"CART_SET_CFG_STG_1", "PPU_DISABLE",
                                             "CPU_REG_RD", "QUERY_ERR_CODE"}
      BY DEF MemRdStg1, MemWrStg1, AddrCountStg0
    <2>3. QED
      BY <2>1, <2>2 DEF HInv, CountsLive, NoneUnderWay, AnswerChecked
  <1>3. QED  BY <1>1, <1>2

LEMMA EchoStg1OK ==
    ASSUME IInv, NEW d, Defaulted(d), EchoStg1(d)
    PROVE  HInv'
  <1> DEFINE e == [d EXCEPT !.execute_cnt = CountDown]
  <1>1. h.execute_cnt > 0
    BY DEF IInv, HInv, CountsLive, EchoStg1
  <1>2. CountDown \in Counts /\ CountDown \in Nat
    BY <1>1, CountDownNat DEF IInv
  <1>3. e \in HRegs /\ e.execute_cnt = CountDown /\ e.state = "ECHO_STG_1"
        /\ Len(e.cart_cfg) = 5
    BY <1>2 DEF Defaulted, EchoStg1, HRegs
  <1>4. rd_data \in Bytes
    BY RdDataOK DEF EchoStg1
  <1>5. h' = Done(Say(e, rd_data))
    BY DEF EchoStg1
  <1>6. "ECHO_STG_1" \notin MemRdStg1
    BY DEF MemRdStg1
  <1> HIDE DEF e
  <1>7. QED
    BY <1>2, <1>3, <1>4, <1>5, <1>6, SayOK, DoneOK

LEMMA MemRdOK ==
    ASSUME IInv, NEW d, Defaulted(d), NEW din \in Bytes, h.state \in MemRdStg1,
           MemRd(d, din)
    PROVE  HInv'
  <1> DEFINE e == [d EXCEPT !.execute_cnt = CountDown]
             f == [e EXCEPT !.addr = NextAddr(@)]
  <1>1. h.execute_cnt > 0
    BY DEF IInv, HInv, CountsLive
  <1>2. CountDown \in Counts /\ CountDown = h.execute_cnt - 1 /\ h.execute_cnt \in Nat
    BY <1>1, CountDownNat DEF IInv
  <1>3. e \in HRegs /\ e.execute_cnt = CountDown /\ e.state = h.state
        /\ Len(e.cart_cfg) = 5 /\ ~e.wr_en /\ e.addr \in Addrs
    BY <1>2 DEF Defaulted, HRegs
  <1>4. CASE h.execute_cnt % 2 = 0 /\ h' = e
    <2>1. CountDown > 0
      BY <1>1, <1>2, <1>4
    <2>2. h.state \notin AddrCountStg0 \cup {"CART_SET_CFG_STG_1", "PPU_DISABLE"}
      BY DEF MemRdStg1, AddrCountStg0
    <2> HIDE DEF e
    <2>3. QED
      BY <1>3, <1>4, <2>1, <2>2 DEF HInv, CountsLive, NoneUnderWay
  <1>5. CASE h.execute_cnt % 2 = 1 /\ h' = Done(Say(f, din))
    <2>1. f \in HRegs /\ f.execute_cnt = CountDown /\ f.state = h.state
          /\ Len(f.cart_cfg) = 5
      <3> HIDE DEF e
      <3>1. NextAddr(e.addr) \in Addrs
        BY <1>3, NextAddrOK
      <3>2. QED  BY <1>3, <3>1 DEF HRegs
    <2>2. CountDown \in Nat /\ CountDown % 2 = 0
      BY <1>1, <1>2, <1>5
    <2> HIDE DEF f
    <2>3. QED  BY <1>5, <2>1, <2>2, SayOK, DoneOK
  <1>6. QED  BY <1>4, <1>5 DEF MemRd

LEMMA MemWrOK ==
    ASSUME IInv, NEW d, Defaulted(d), h.state \in MemWrStg1, MemWr(d)
    PROVE  HInv'
  <1> DEFINE e == [d EXCEPT !.execute_cnt = CountDown, !.addr = NextAddr(@)]
  <1>1. h.execute_cnt > 0
    BY DEF IInv, HInv, CountsLive
  <1>2. CountDown \in Counts /\ CountDown \in Nat
    BY <1>1, CountDownNat DEF IInv
  <1>3. NextAddr(d.addr) \in Addrs
    BY NextAddrOK DEF Defaulted, HRegs
  <1>4. e \in HRegs /\ e.execute_cnt = CountDown /\ e.state = h.state
        /\ Len(e.cart_cfg) = 5
    BY <1>2, <1>3 DEF Defaulted, HRegs
  <1>5. h.state \notin MemRdStg1
    BY DEF MemRdStg1, MemWrStg1
  <1>6. h' = Done(e)
    BY DEF MemWr
  <1> HIDE DEF e
  <1>7. QED  BY <1>2, <1>4, <1>5, <1>6, DoneOK

LEMMA CpuRegRdOK ==
    ASSUME IInv, NEW d, Defaulted(d), NEW din \in Bytes, CpuRegRd(d, din)
    PROVE  HInv'
  <1>1. "DECODE" \in States
    BY UndemandingStates DEF Undemanding
  <1>2. [d EXCEPT !.state = "DECODE"] \in HRegs
        /\ [d EXCEPT !.state = "DECODE"].state = "DECODE"
        /\ [d EXCEPT !.state = "DECODE"].cart_cfg = d.cart_cfg
    BY <1>1, StateOK DEF Defaulted
  <1>3. h' \in HRegs /\ h'.state = "DECODE" /\ h'.cart_cfg = d.cart_cfg
    BY <1>2, SayOK DEF CpuRegRd
  <1>4. QED  BY <1>3, UndemandingOK DEF Defaulted, Undemanding

LEMMA CpuRegWrStg0OK ==
    ASSUME IInv, NEW d, Defaulted(d), CpuRegWrStg0(d)
    PROVE  HInv'
  <1>1. rd_data \in Addrs
    BY RdDataOK, BytesInRanges DEF CpuRegWrStg0
  <1>2. "CPU_REG_WR_STG_1" \in States
    BY UndemandingStates DEF Undemanding
  <1>3. h' \in HRegs /\ h'.state = "CPU_REG_WR_STG_1" /\ h'.cart_cfg = d.cart_cfg
    BY <1>1, <1>2 DEF CpuRegWrStg0, Defaulted, HRegs
  <1>4. QED  BY <1>3, UndemandingOK DEF Defaulted, Undemanding

LEMMA CpuRegWrStg1OK ==
    ASSUME IInv, NEW d, Defaulted(d), CpuRegWrStg1(d)
    PROVE  HInv'
  <1>1. "DECODE" \in States
    BY UndemandingStates DEF Undemanding
  <1>2. h' \in HRegs /\ h'.state = "DECODE" /\ h'.cart_cfg = d.cart_cfg
    BY <1>1, StateOK DEF CpuRegWrStg1, Defaulted
  <1>3. QED  BY <1>2, UndemandingOK DEF Defaulted, Undemanding

LEMMA QueryErrCodeOK ==
    ASSUME IInv, NEW d, Defaulted(d), QueryErrCode(d)
    PROVE  HInv'
  <1>1. "DECODE" \in States
    BY UndemandingStates DEF Undemanding
  <1>2. h.err_code \in Bytes
    BY HciAssumption DEF IInv, HInv, HRegs, Bytes
  <1>3. [d EXCEPT !.state = "DECODE"] \in HRegs
        /\ [d EXCEPT !.state = "DECODE"].state = "DECODE"
        /\ [d EXCEPT !.state = "DECODE"].cart_cfg = d.cart_cfg
    BY <1>1, StateOK DEF Defaulted
  <1>4. h' \in HRegs /\ h'.state = "DECODE" /\ h'.cart_cfg = d.cart_cfg
    BY <1>2, <1>3, SayOK DEF QueryErrCode
  <1>5. QED  BY <1>4, UndemandingOK DEF Defaulted, Undemanding

LEMMA PpuDisableOK ==
    ASSUME IInv, NEW d, Defaulted(d), PpuDisable(d)
    PROVE  HInv'
  <1> DEFINE e == [d EXCEPT !.decode_cnt = (@ + 1) % 8]
  <1>1. h.decode_cnt \in 0 .. 5 /\ "DECODE" \in States
    BY UndemandingStates DEF IInv, HInv, HRegs, CountsLive, PpuDisable, Undemanding
  <1>2. e \in HRegs /\ e.state = "PPU_DISABLE" /\ Len(e.cart_cfg) = 5
        /\ e.decode_cnt = (h.decode_cnt + 1) % 8
    <2>1. d \in HRegs /\ Len(d.cart_cfg) = 5 /\ d.decode_cnt = h.decode_cnt
          /\ d.state = "PPU_DISABLE"
      BY DEF Defaulted, PpuDisable
    <2> DEFINE n == (d.decode_cnt + 1) % 8
    <2>2. n \in 0 .. 7
      BY <1>1, <2>1
    <2>3. e = [d EXCEPT !.decode_cnt = n]
      OBVIOUS
    <2> HIDE DEF e, n
    <2>4. e \in HRegs /\ e.state = d.state /\ e.cart_cfg = d.cart_cfg /\ e.decode_cnt = n
      BY <2>1, <2>2, <2>3 DEF HRegs
    <2> QED
      BY <2>1, <2>4 DEF n
  <1>3. ASSUME h.decode_cnt < 5, NEW a \in Addrs, h' = [e EXCEPT !.addr = a]
        PROVE  HInv'
    <2> HIDE DEF e
    <2>1. h' \in HRegs /\ h'.state = "PPU_DISABLE" /\ Len(h'.cart_cfg) = 5
          /\ h'.decode_cnt <= 5
      BY <1>1, <1>2, <1>3 DEF HRegs
    <2>2. "PPU_DISABLE" \notin MemRdStg1 \cup MemWrStg1 \cup AddrCountStg0
      BY DEF MemRdStg1, MemWrStg1, AddrCountStg0
    <2>3. QED
      BY <2>1, <2>2 DEF HInv, CountsLive, NoneUnderWay, AnswerChecked
  <1>4. CASE h.decode_cnt \in {0, 2, 4}
    <2>1. h' = [e EXCEPT !.addr = PpuReg(h.decode_cnt \div 2)]
      BY <1>4 DEF PpuDisable
    <2>2. PpuReg(h.decode_cnt \div 2) \in Addrs
      <3>1. h.decode_cnt \div 2 \in 0 .. 2
        BY <1>4
      <3>2. QED  BY <3>1, PpuRegOK
    <2>3. h.decode_cnt < 5
      BY <1>4
    <2> HIDE DEF e
    <2>4. QED  BY <1>3, <2>1, <2>2, <2>3
  <1>5. CASE h.decode_cnt \in {1, 3}
    <2>1. h' = [e EXCEPT !.addr = 0] /\ 0 \in Addrs
      BY <1>5, BytesInRanges DEF PpuDisable
    <2> HIDE DEF e
    <2>2. QED  BY <1>3, <1>5, <2>1
  <1>6. CASE h.decode_cnt = 5
    <2>1. h' = [e EXCEPT !.addr = 0, !.state = "DECODE"] /\ 0 \in Addrs
      BY <1>6, BytesInRanges DEF PpuDisable
    <2> HIDE DEF e
    <2>2. h' \in HRegs /\ h'.state = "DECODE" /\ Len(h'.cart_cfg) = 5
      BY <1>1, <1>2, <2>1 DEF HRegs
    <2>3. QED  BY <2>2, UndemandingOK DEF Undemanding
  <1>7. QED  BY <1>1, <1>4, <1>5, <1>6

LEMMA CartSetCfgStg0OK ==
    ASSUME IInv, NEW d, Defaulted(d), CartSetCfgStg0(d)
    PROVE  HInv'
  <1>1. "CART_SET_CFG_STG_1" \in States
    BY DEF States, ByteStates
  <1>2. h' \in HRegs /\ h'.state = "CART_SET_CFG_STG_1" /\ Len(h'.cart_cfg) = 5
        /\ h'.execute_cnt = 4
    BY <1>1, BytesInRanges DEF CartSetCfgStg0, Defaulted, HRegs
  <1>3. "CART_SET_CFG_STG_1" \notin MemRdStg1 \cup MemWrStg1 \cup AddrCountStg0
    BY DEF MemRdStg1, MemWrStg1, AddrCountStg0
  <1>4. QED
    BY <1>2, <1>3 DEF HInv, CountsLive, NoneUnderWay, AnswerChecked

LEMMA ShiftIn ==
    ASSUME NEW s \in Seq(Bytes), Len(s) = 5, NEW b \in Bytes
    PROVE  Append(Tail(s), b) \in Seq(Bytes) /\ Len(Append(Tail(s), b)) = 5
  <1>1. Tail(s) \in Seq(Bytes) /\ Len(Tail(s)) = 4
    BY HeadTailProperties
  <1>2. QED  BY <1>1, AppendProperties

LEMMA CartSetCfgStg1OK ==
    ASSUME IInv, NEW d, Defaulted(d), CartSetCfgStg1(d)
    PROVE  HInv'
  <1> DEFINE cfg == Append(Tail(d.cart_cfg), rd_data)
             e   == [d EXCEPT !.execute_cnt = CountDown, !.cart_cfg = cfg]
  <1>1. rd_data \in Bytes
    BY RdDataOK DEF CartSetCfgStg1
  <1>2. cfg \in Seq(Bytes) /\ Len(cfg) = 5
    BY <1>1, ShiftIn DEF Defaulted, HRegs
  <1>3. h.execute_cnt \in Counts /\ h.execute_cnt <= 4 /\ CountDown \in Counts
    BY CountDownOK DEF IInv, HInv, HRegs, CountsLive, CartSetCfgStg1
  <1> HIDE DEF cfg
  <1>4. e \in HRegs /\ e.state = "CART_SET_CFG_STG_1" /\ e.cart_cfg = cfg
        /\ e.execute_cnt = CountDown
    BY <1>2, <1>3 DEF Defaulted, HRegs, CartSetCfgStg1
  <1>5. CASE h.execute_cnt = 0
    <2>1. h' = [e EXCEPT !.state = "DECODE", !.cart_cfg_upd = TRUE]
      BY <1>5 DEF CartSetCfgStg1, cfg
    <2> HIDE DEF e
    <2>2. h' \in HRegs /\ h'.state = "DECODE" /\ Len(h'.cart_cfg) = 5
      BY <1>2, <1>4, <2>1, UndemandingStates DEF HRegs, Undemanding
    <2>3. QED  BY <2>2, UndemandingOK DEF Undemanding
  <1>6. CASE h.execute_cnt # 0
    <2>1. h' = e
      BY <1>6 DEF CartSetCfgStg1, cfg
    <2>2. CountDown <= 4
      <3>1. 2 * Base * Base \in Nat
        BY HciAssumption
      <3>2. QED  BY <1>3, <1>6, <3>1 DEF CountDown, Counts
    <2>3. "CART_SET_CFG_STG_1" \notin MemRdStg1 \cup MemWrStg1 \cup AddrCountStg0
      BY DEF MemRdStg1, MemWrStg1, AddrCountStg0
    <2> HIDE DEF e
    <2>4. QED
      BY <1>2, <1>4, <2>1, <2>2, <2>3
      DEF HInv, CountsLive, NoneUnderWay, AnswerChecked
  <1>7. QED  BY <1>5, <1>6

-----------------------------------------------------------------------------
LEMMA StepOK ==
    ASSUME IInv, NEW d, Defaulted(d), NEW brk \in BOOLEAN, NEW din \in Bytes,
           Step(d, brk, din)
    PROVE  HInv'
  <1>1. CASE Wait(d)             BY <1>1, WaitOK
  <1>2. CASE Disabled(d, brk)    BY <1>2, DisabledOK
  <1>3. CASE Decode(d)           BY <1>3, DecodeOK
  <1>4. CASE EchoStg0(d)         BY <1>4, EchoStg0OK
  <1>5. CASE EchoStg1(d)         BY <1>5, EchoStg1OK
  <1>6. CASE CpuMemRdStg0(d)
    <2>1. h.state \in AddrCountStg0
      BY <1>6 DEF CpuMemRdStg0, AddrCountStg0
    <2>2. QED  BY <1>6, <2>1, AddrCountOK DEF CpuMemRdStg0
  <1>7. CASE PpuMemRdStg0(d)
    <2>1. h.state \in AddrCountStg0
      BY <1>7 DEF PpuMemRdStg0, AddrCountStg0
    <2>2. QED  BY <1>7, <2>1, AddrCountOK DEF PpuMemRdStg0
  <1>8. CASE CpuMemWrStg0(d)
    <2>1. h.state \in AddrCountStg0
          /\ h.state \notin {"CPU_MEM_RD_STG_0", "PPU_MEM_RD_STG_0"}
      BY <1>8 DEF CpuMemWrStg0, AddrCountStg0
    <2>2. QED  BY <1>8, <2>1, AddrCountOK DEF CpuMemWrStg0
  <1>9. CASE PpuMemWrStg0(d)
    <2>1. h.state \in AddrCountStg0
          /\ h.state \notin {"CPU_MEM_RD_STG_0", "PPU_MEM_RD_STG_0"}
      BY <1>9 DEF PpuMemWrStg0, AddrCountStg0
    <2>2. QED  BY <1>9, <2>1, AddrCountOK DEF PpuMemWrStg0
  <1>10. CASE CpuMemRdStg1(d, din)
    <2>1. h.state \in MemRdStg1
      BY <1>10 DEF CpuMemRdStg1, MemRdStg1
    <2>2. QED  BY <1>10, <2>1, MemRdOK DEF CpuMemRdStg1
  <1>11. CASE PpuMemRdStg1(d, din)
    <2>1. h.state \in MemRdStg1
      BY <1>11 DEF PpuMemRdStg1, MemRdStg1
    <2>2. QED  BY <1>11, <2>1, MemRdOK DEF PpuMemRdStg1
  <1>12. CASE CpuMemWrStg1(d)
    <2>1. h.state \in MemWrStg1
      BY <1>12 DEF CpuMemWrStg1, MemWrStg1
    <2>2. QED  BY <1>12, <2>1, MemWrOK DEF CpuMemWrStg1
  <1>13. CASE PpuMemWrStg1(d)
    <2>1. h.state \in MemWrStg1
      BY <1>13 DEF PpuMemWrStg1, MemWrStg1
    <2>2. QED  BY <1>13, <2>1, MemWrOK DEF PpuMemWrStg1
  <1>14. CASE CpuRegRd(d, din)   BY <1>14, CpuRegRdOK
  <1>15. CASE CpuRegWrStg0(d)    BY <1>15, CpuRegWrStg0OK
  <1>16. CASE CpuRegWrStg1(d)    BY <1>16, CpuRegWrStg1OK
  <1>17. CASE QueryErrCode(d)    BY <1>17, QueryErrCodeOK
  <1>18. CASE PpuDisable(d)      BY <1>18, PpuDisableOK
  <1>19. CASE CartSetCfgStg0(d)  BY <1>19, CartSetCfgStg0OK
  <1>20. CASE CartSetCfgStg1(d)  BY <1>20, CartSetCfgStg1OK
  <1>21. QED
    BY <1>1, <1>2, <1>3, <1>4, <1>5, <1>6, <1>7, <1>8, <1>9, <1>10, <1>11, <1>12,
       <1>13, <1>14, <1>15, <1>16, <1>17, <1>18, <1>19, <1>20 DEF Step

LEMMA FlagArithmetic ==
    ASSUME NEW len \in Nat, NEW empty \in BOOLEAN, NEW full \in BOOLEAN,
           NEW push \in BOOLEAN, NEW pop \in BOOLEAN,
           len <= Depth, ~empty => len > 0, ~full => len < Depth,
           push => ~full, pop => ~empty,
           NEW new, new = len - (IF pop THEN 1 ELSE 0) + (IF push THEN 1 ELSE 0)
    PROVE  /\ new <= Depth
           /\ ~((empty /\ ~push) \/ (len = 1 /\ pop)) => new > 0
           /\ ~((full /\ ~pop) \/ (len = Depth - 1 /\ push)) => new < Depth
  BY HciAssumption

\* A FIFO stays within its depth, and its flags stay safe.
LEMMA QueueCycleOK ==
    ASSUME NEW q, QInv(q), NEW rd \in BOOLEAN, NEW wr \in BOOLEAN, NEW b,
           wr => b \in Bytes
    PROVE  QInv(QueueCycle(q, rd, wr, b, Depth))
  <1> DEFINE pop  == rd /\ ~q.empty
             push == wr /\ ~q.full
             rest == IF pop THEN Tail(q.items) ELSE q.items
             items == IF push THEN Append(rest, b) ELSE rest
             n == QueueCycle(q, rd, wr, b, Depth)
             empty == (q.empty /\ ~push) \/ (Len(q.items) = 1 /\ pop)
             full == (q.full /\ ~pop) \/ (Len(q.items) = Depth - 1 /\ push)
  <1>1. n = [items |-> items, empty |-> empty, full |-> full]
    BY DEF QueueCycle
  <1>2. q.items \in Seq(Bytes) /\ q.empty \in BOOLEAN /\ q.full \in BOOLEAN
    BY DEF QInv, QueueOK
  <1>3. rest \in Seq(Bytes) /\ Len(rest) = Len(q.items) - (IF pop THEN 1 ELSE 0)
        /\ Len(q.items) \in Nat
    <2>1. CASE pop
      <3>1. Len(q.items) > 0
        BY <2>1 DEF QInv
      <3>2. QED  BY <1>2, <2>1, <3>1
    <2>2. CASE ~pop  BY <1>2, <2>2
    <2>3. QED  BY <2>1, <2>2
  <1>4. items \in Seq(Bytes) /\ Len(items) = Len(rest) + (IF push THEN 1 ELSE 0)
    <2>1. CASE push
      <3>1. b \in Bytes /\ items = Append(rest, b)
        BY <2>1
      <3> HIDE DEF rest
      <3>2. Append(rest, b) \in Seq(Bytes) /\ Len(Append(rest, b)) = Len(rest) + 1
        BY <1>3, <3>1, AppendProperties
      <3>3. QED  BY <2>1, <3>1, <3>2
    <2>2. CASE ~push
      <3>1. items = rest /\ Len(rest) \in Nat
        BY <1>3, <2>2
      <3> HIDE DEF items, rest, push
      <3>2. Len(rest) + (IF push THEN 1 ELSE 0) = Len(rest)
        BY <2>2, <3>1
      <3>3. QED  BY <1>3, <3>1, <3>2
    <2>3. QED  BY <2>1, <2>2
  <1>5. /\ Len(items) <= Depth
        /\ ~empty => Len(items) > 0
        /\ ~full => Len(items) < Depth
    <2>1. Len(q.items) <= Depth /\ (~q.empty => Len(q.items) > 0)
          /\ (~q.full => Len(q.items) < Depth)
      BY DEF QInv
    <2>2. push \in BOOLEAN /\ pop \in BOOLEAN /\ (push => ~q.full) /\ (pop => ~q.empty)
      BY <1>2
    <2>3. Len(items) = Len(q.items) - (IF pop THEN 1 ELSE 0) + (IF push THEN 1 ELSE 0)
      <3> HIDE DEF items, rest, push, pop
      <3>1. QED  BY <1>3, <1>4
    <2> HIDE DEF items, rest, push, pop
    <2>4. QED
      BY <1>2, <1>3, <2>1, <2>2, <2>3, FlagArithmetic
  <1>6. QueueOK(n) /\ n.items = items /\ n.empty = empty /\ n.full = full
    <2>1. empty \in BOOLEAN /\ full \in BOOLEAN
      BY <1>2
    <2> HIDE DEF n, items, empty, full
    <2>2. QED  BY <1>1, <1>4, <2>1 DEF QueueOK
  <1>7. QED  BY <1>5, <1>6 DEF QInv

LEMMA EmptyQueueOK == QInv(EmptyQueue)
  BY HciAssumption DEF QInv, QueueOK, EmptyQueue

LEMMA ResetRegsOK ==
    ResetRegs \in HRegs /\ Len(ResetRegs.cart_cfg) = 5 /\ ResetRegs.state = "DECODE"
  <1>1. "DECODE" \in States /\ 0 \in Bytes /\ 0 \in Addrs /\ 0 \in Counts
    BY BytesInRanges, UndemandingStates DEF Undemanding
  <1>2. <<0, 0, 0, 0, 0>> \in Seq(Bytes) /\ Len(<<0, 0, 0, 0, 0>>) = 5
    BY <1>1
  <1>3. QED  BY <1>1, <1>2 DEF ResetRegs, HRegs

LEMMA InitIInv == HciInit => IInv
  <1> SUFFICES ASSUME HciInit PROVE IInv
    OBVIOUS
  <1>1. h = ResetRegs
    BY DEF HciInit
  <1>2. h.state \notin MemRdStg1 \cup MemWrStg1 \cup AddrCountStg0
            \cup {"ECHO_STG_1", "CART_SET_CFG_STG_1", "PPU_DISABLE",
                  "CPU_REG_RD", "QUERY_ERR_CODE"}
    BY <1>1, ResetRegsOK DEF MemRdStg1, MemWrStg1, AddrCountStg0
  <1>3. HInv
    BY <1>1, <1>2, ResetRegsOK DEF HInv, CountsLive, NoneUnderWay, AnswerChecked
  <1>4. QED  BY <1>3, EmptyQueueOK DEF HciInit, IInv

\* What an edge does to the two FIFOs, and to an answer under way.
LEMMA EdgeQueues ==
    ASSUME IInv, NEW rx \in Bytes \cup {NoByte}, NEW tx_done \in BOOLEAN,
           NEW parity_err \in BOOLEAN, NEW brk \in BOOLEAN, NEW din,
           Edge(rx, tx_done, parity_err, brk, din)
    PROVE  QInv(rx_q)' /\ QInv(tx_q)'
  <1>1. rd_en(brk) \in BOOLEAN /\ (rx # NoByte) \in BOOLEAN
    BY DEF rd_en
  <1>2. QInv(QueueCycle(rx_q, rd_en(brk), rx # NoByte, rx, Depth))
    BY <1>1, QueueCycleOK DEF IInv
  <1>3. h.wr_en \in BOOLEAN /\ h.tx_data \in Bytes
    BY DEF IInv, HInv, HRegs
  <1>4. QInv(QueueCycle(tx_q, tx_done, h.wr_en, h.tx_data, Depth))
    BY <1>3, QueueCycleOK DEF IInv
  <1>5. QED  BY <1>2, <1>4 DEF Edge, QInv, QueueOK

LEMMA NextIInv == IInv /\ [HciNext]_hciVars => IInv'
  <1> SUFFICES ASSUME IInv, [HciNext]_hciVars PROVE IInv'
    OBVIOUS
  <1>1. CASE HciReset
    <2>1. h' = ResetRegs /\ rx_q' = EmptyQueue /\ tx_q' = EmptyQueue
      BY <1>1 DEF HciReset
    <2>2. HInv'
      BY <2>1, ResetRegsOK, UndemandingOK DEF Undemanding
    <2>3. QInv(rx_q)' /\ QInv(tx_q)'
      BY <2>1, EmptyQueueOK DEF QInv, QueueOK
    <2>4. QED  BY <2>2, <2>3 DEF IInv
  <1>2. ASSUME NEW rx \in Bytes \cup {NoByte}, NEW tx_done \in BOOLEAN,
               NEW parity_err \in BOOLEAN, NEW brk \in BOOLEAN, NEW din \in Bytes,
               Edge(rx, tx_done, parity_err, brk, din)
        PROVE  IInv'
    <2>1. HInv'
      BY <1>2, DefaultOK, StepOK DEF Edge, IInv
    <2>2. QInv(rx_q)' /\ QInv(tx_q)'
      BY <1>2, EdgeQueues
    <2>3. QED  BY <2>1, <2>2 DEF IInv
  <1>3. CASE UNCHANGED hciVars
    BY <1>3 DEF hciVars, IInv, HInv, CountsLive, NoneUnderWay, AnswerChecked, QInv,
                QueueOK
  <1>4. QED  BY <1>1, <1>2, <1>3 DEF HciNext

LEMMA Inductive == HciSpec => []IInv
  BY InitIInv, NextIInv, PTL DEF HciSpec

-----------------------------------------------------------------------------
\* Every register of hci.v stays within its width and both FIFOs within their
\* depth, whatever the host, the CPU and the memories do.
THEOREM HciTypeCorrect == HciSpec => []HciTypeOK
  <1>1. IInv => HciTypeOK
    BY DEF IInv, HInv, HRegs, QInv, HciTypeOK, RegsOK
  <1>2. QED  BY <1>1, Inductive, PTL

\* q_execute_cnt and q_decode_cnt never run past the end of a packet: no packet
\* makes the interpreter swallow what follows it as 2^17 bytes of its own.
THEOREM CountsStayLive == HciSpec => []CountsLive
  <1>1. IInv => CountsLive
    BY DEF IInv, HInv
  <1>2. QED  BY <1>1, Inductive, PTL

\* A state that is about to answer waits, or finds the transmit FIFO with room.
LEMMA CheckedStep ==
    ASSUME AnswerChecked, NEW d, NEW brk, NEW din, Step(d, brk, din), ~Wait(d)
    PROVE  ~tx_q.full
  <1>1. CASE h.state \in MemRdStg1 /\ h.execute_cnt % 2 = 1
    <2>1. MemRd(d, din)
      BY <1>1 DEF Step, MemRdStg1, Disabled, Decode, EchoStg0, EchoStg1, CpuMemRdStg0,
         CpuMemRdStg1, CpuMemWrStg0, CpuMemWrStg1, PpuMemRdStg0, PpuMemRdStg1,
         PpuMemWrStg0, PpuMemWrStg1, CpuRegRd, CpuRegWrStg0, CpuRegWrStg1,
         QueryErrCode, PpuDisable, CartSetCfgStg0, CartSetCfgStg1
    <2>2. QED  BY <1>1, <2>1 DEF MemRd
  <1>2. CASE h.state \in {"CPU_REG_RD", "QUERY_ERR_CODE"}
    BY <1>2 DEF Step, Disabled, Decode, EchoStg0, EchoStg1, CpuMemRdStg0,
       CpuMemRdStg1, CpuMemWrStg0, CpuMemWrStg1, PpuMemRdStg0, PpuMemRdStg1,
       PpuMemWrStg0, PpuMemWrStg1, CpuRegRd, CpuRegWrStg0, CpuRegWrStg1,
       QueryErrCode, PpuDisable, CartSetCfgStg0, CartSetCfgStg1
  <1>3. QED  BY <1>1, <1>2 DEF AnswerChecked

\* The answers of the states that look at tx_full are never dropped, though the
\* write reaches the FIFO a cycle after the look.
THEOREM AnswersLand == HciSpec => CheckedAnswersLand
  <1> DEFINE Lands == AnswerChecked /\ h'.wr_en => ~tx_q'.full
  <1>1. IInv /\ [HciNext]_hciVars => [Lands]_hciVars
    <2> SUFFICES ASSUME IInv, HciNext, AnswerChecked, h'.wr_en PROVE ~tx_q'.full
      BY DEF hciVars
    <2>1. CASE HciReset
      BY <2>1 DEF HciReset, ResetRegs, EmptyQueue
    <2>2. ASSUME NEW rx \in Bytes \cup {NoByte}, NEW tx_done \in BOOLEAN,
                 NEW parity_err \in BOOLEAN, NEW brk \in BOOLEAN, NEW din \in Bytes,
                 Edge(rx, tx_done, parity_err, brk, din)
          PROVE  ~tx_q'.full
      <3> DEFINE d == Default(parity_err)
      <3>1. ~h.wr_en /\ Defaulted(d)
        BY DefaultOK DEF IInv, HInv, NoneUnderWay
      <3>2. ~tx_q.full
        <4>1. ~Wait(d)
          BY <3>1 DEF Wait, Defaulted
        <4>2. Step(d, brk, din)
          BY <2>2 DEF Edge
        <4> HIDE DEF d
        <4>3. QED
          BY <4>1, <4>2, CheckedStep
      <3>3. tx_q' = QueueCycle(tx_q, tx_done, FALSE, h.tx_data, Depth)
        BY <2>2, <3>1 DEF Edge, IInv, HInv, HRegs
      <3>4. QED  BY <3>2, <3>3 DEF QueueCycle
    <2>3. QED  BY <2>1, <2>2 DEF HciNext
  <1>2. QED  BY <1>1, Inductive, PTL DEF HciSpec, CheckedAnswersLand

-----------------------------------------------------------------------------
(***************************************************************************)
(* Proofs about NesBus, for every length of a CPU cycle, size of sprite     *)
(* memory, program and host: as long as the debugger takes over only where  *)
(* the program halts, every PPU access of the program is made once and      *)
(* every DMA copies its page.                                              *)
(*                                                                         *)
(* Three masters share the bus, so most of the invariant says who can be in *)
(* the middle of what: while the debugger owns the bus the CPU stands in a  *)
(* cycle that is no access (Stand), while the DMA does it stands in that of *)
(* the write to 0x4014, and when either gives the bus back a clock passes   *)
(* with the chip select high before the CPU's next cycle (Edges).           *)
(***************************************************************************)

\* The program has no indexed stores to PPU registers, and no break comes from the host.
Orderly == ~IndexedStores /\ OP_DBG_BRK \notin Running

RiFields == {"fv", "v", "h", "vt", "ht", "nvbl_en", "addr_incr", "rendering",
             "vblank", "byte_sel", "rd_buf", "rd_rdy", "upd_cntrs",
             "spr_ram_a", "cpu_d_out", "ncs_in", "vblank_in"}

Cycles == {Elsewhere, Hlt, Write4014} \cup {PpuCycle(a) : a \in Accesses}

RiTypes(r) == DOMAIN r = RiFields /\ r = [f \in RiFields |-> r[f]]

DmaRegs == [state : {"READY", "ACTIVE", "COOLDOWN"}, addr : 0 .. OamSize - 1,
            cnt : 0 .. 2, data : Nat]

BusTypes ==
    /\ RiTypes(ri)
    /\ ri.ncs_in \in BOOLEAN /\ ri.spr_ram_a \in 0 .. OamSize - 1
    /\ DOMAIN m_oam = 0 .. OamSize - 1
    /\ cpu \in [phase : 0 .. CycleLength - 1, ready : BOOLEAN, cycle : Cycles]
    /\ dma \in DmaRegs
    /\ wram_q \in Nat
    /\ log \in [made : Nat, dmas : Nat, sent : Nat, start : 0 .. OamSize - 1]

\* At most one byte waits for the interpreter, and none that could wake it up.
HostWaits ==
    /\ Len(rx_q.items) <= 1
    /\ ~active /\ rx_q.items # <<>> => rx_q.items[1] # OP_DBG_BRK

kind == cpu.cycle.kind

\* Who stands still in what.
Stand ==
    /\ active => /\ kind \in {"else", "halt"} /\ cpu.phase \in {1, 2}
                 /\ dma.state = "READY"
    /\ kind \in {"ppu", "halt"} => dma.state = "READY"
    /\ kind = "dma" => (dma.state = "READY" <=> cpu.phase = 1)
    /\ dma_active => kind = "dma" /\ cpu.phase = 2
    /\ dma.state = "COOLDOWN" /\ kind = "else" => cpu.phase = 1 /\ cpu.ready
    /\ kind = "ppu" \/ (kind = "dma" /\ cpu.phase = 1) => cpu.ready
    /\ log.dmas = IF kind = "dma" /\ cpu.phase # 1 THEN 1 ELSE 0

\* The chip select has been high before every clock in which it may fall.
Edges ==
    /\ kind = "ppu" => (ri.ncs_in <=> cpu.phase = 1)
    /\ kind # "ppu" /\ cpu.ready /\ cpu.phase # 1 => ri.ncs_in
    /\ log.made = IF kind = "ppu" /\ cpu.phase # 1 THEN 1 ELSE 0

\* The DMA has copied dma.addr bytes, and carries the next one.
Copied(n) == \A i \in 0 .. n - 1 : m_oam[(log.start + i) % OamSize] = Page[i]
Copying ==
    /\ dma_active =>
          /\ log.sent = dma.addr /\ Copied(dma.addr)
          /\ ri.spr_ram_a = (log.start + dma.addr) % OamSize
          /\ dma.cnt > 0 => ri.ncs_in
          /\ dma.cnt = 1 => wram_q = Page[dma.addr]
          /\ dma.cnt = 2 => dma.data = Page[dma.addr]
    /\ ~dma_active => dma.cnt = 0
    /\ dma.state = "COOLDOWN" => log.sent = OamSize /\ Copied(OamSize)

BusInv == BusTypes /\ HostWaits /\ Stand /\ Edges /\ Copying

-----------------------------------------------------------------------------
(* The interpreter: it wakes up at a break, and sleeps after a DBG_RUN.      *)

\* States that a handler may leave for, other than from DECODE.
LEMMA OnlyDecodeSleeps ==
    ASSUME HInv, NEW d, Defaulted(d), NEW brk, NEW din, Step(d, brk, din),
           active, ~active'
    PROVE  Decode(d) /\ rd_data = OP_DBG_RUN
  <1> USE DEF active
  <1>1. d \in HRegs /\ d.state = h.state /\ h.state # "DISABLED"
    BY DEF Defaulted
  <1>2. \A s, c, n : n # "DISABLED" => Execute([d EXCEPT !.decode_cnt = s], c, n).state # "DISABLED"
    BY <1>1 DEF Execute, HRegs
  <1>3. \A e \in HRegs : Done(e).state \in {e.state, "DECODE"}
    BY DEF Done, HRegs
  <1>4. CASE Wait(d)
    BY <1>1, <1>4 DEF Wait
  <1>5. CASE EchoStg0(d) \/ CpuMemRdStg0(d) \/ CpuMemWrStg0(d) \/ PpuMemRdStg0(d) \/ PpuMemWrStg0(d)
    <2>1. h.state \in AddrCountStg0 => ExecuteState[h.state] # "DISABLED"
      BY DEF ExecuteState, AddrCountStg0
    <2>2. CASE EchoStg0(d)
      BY <1>1, <1>2, <2>2 DEF EchoStg0, HRegs
    <2>3. CASE h.state \in AddrCountStg0 /\ \E scale : AddrCount(d, scale)
      <3> DEFINE e == [d EXCEPT !.decode_cnt = (@ + 1) % 8]
      <3>1. PICK c : h' \in {[e EXCEPT !.addr = rd_data],
                             [e EXCEPT !.addr = rd_data * Base + (@ % Base)],
                             [e EXCEPT !.execute_cnt = rd_data],
                             Execute(e, c, ExecuteState[h.state])}
        BY <2>3 DEF AddrCount
      <3>2. Execute(e, c, ExecuteState[h.state]).state # "DISABLED"
        BY <1>2, <2>1, <2>3
      <3> QED
        BY <1>1, <3>1, <3>2 DEF HRegs
    <2>4. QED
      BY <1>5, <2>2, <2>3 DEF CpuMemRdStg0, CpuMemWrStg0, PpuMemRdStg0, PpuMemWrStg0, AddrCountStg0
  <1>6. CASE EchoStg1(d) \/ CpuMemRdStg1(d, din) \/ PpuMemRdStg1(d, din)
             \/ CpuMemWrStg1(d) \/ PpuMemWrStg1(d)
    BY <1>1, <1>6 DEF EchoStg1, CpuMemRdStg1, PpuMemRdStg1, CpuMemWrStg1, PpuMemWrStg1,
       MemRd, MemWr, Done, Say, HRegs
  <1>7. CASE CpuRegRd(d, din) \/ CpuRegWrStg0(d) \/ CpuRegWrStg1(d) \/ QueryErrCode(d)
    BY <1>1, <1>7 DEF CpuRegRd, CpuRegWrStg0, CpuRegWrStg1, QueryErrCode, Say, HRegs
  <1>8. CASE PpuDisable(d)
    BY <1>1, <1>8 DEF PpuDisable, HRegs
  <1>9. CASE CartSetCfgStg0(d) \/ CartSetCfgStg1(d)
    BY <1>1, <1>9 DEF CartSetCfgStg0, CartSetCfgStg1, HRegs
  <1>10. CASE Decode(d)
    <2>1. CASE rd_data \in DOMAIN DecodeTo
               /\ h' = [d EXCEPT !.decode_cnt = 0, !.state = DecodeTo[rd_data]]
      BY <1>1, <1>10, <2>1 DEF HRegs, DecodeTo
    <2>2. CASE h' \in {Say([d EXCEPT !.decode_cnt = 0], 1),
                       [[d EXCEPT !.decode_cnt = 0] EXCEPT !.err_code = WithUnknown(@)]}
      BY <1>1, <1>10, <2>2 DEF HRegs, Say
    <2>3. QED
      BY <1>10, <2>1, <2>2 DEF Decode
  <1>11. CASE Disabled(d, brk)
    BY <1>11 DEF Disabled
  <1>12. QED
    BY <1>4, <1>5, <1>6, <1>7, <1>8, <1>9, <1>10, <1>11 DEF Step

LEMMA BreakWakes ==
    ASSUME IInv, HostWaits, NEW d, Defaulted(d), NEW brk \in BOOLEAN, NEW din,
           Step(d, brk, din), ~active, active'
    PROVE  brk
  <1>1. h.state = "DISABLED" /\ d.state = "DISABLED" /\ d \in HRegs
    BY DEF active, Defaulted
  <1>2. h.state \notin ByteStates \cup MemRdStg1 \cup MemWrStg1 \cup AddrCountStg0
    BY <1>1 DEF ByteStates, MemRdStg1, MemWrStg1, AddrCountStg0
  <1>3. Disabled(d, brk)
    BY <1>1, <1>2 DEF Step, Wait, Decode, EchoStg0, EchoStg1, CpuMemRdStg0, CpuMemRdStg1,
       CpuMemWrStg0, CpuMemWrStg1, PpuMemRdStg0, PpuMemRdStg1, PpuMemWrStg0, PpuMemWrStg1,
       CpuRegRd, CpuRegWrStg0, CpuRegWrStg1, QueryErrCode, PpuDisable, CartSetCfgStg0,
       CartSetCfgStg1
  <1>4. HaveByte => rx_q.items # <<>> /\ rd_data = rx_q.items[1]
    BY DEF HaveByte, IInv, QInv, QueueOK, rd_data
  <1>5. HaveByte => rd_data # OP_DBG_BRK
    BY <1>4 DEF HostWaits
  <1>6. Say(d, 0).state = d.state
    BY <1>1 DEF Say, HRegs
  <1>7. QED
    BY <1>1, <1>3, <1>5, <1>6 DEF Disabled, active

\* The host sends bytes, and to an interpreter that sleeps none that wakes it.
LEMMA HostBytesOK ==
    ASSUME HInv, Orderly
    PROVE  /\ HostBytes \subseteq Bytes
           /\ ~active => OP_DBG_BRK \notin HostBytes
           /\ rx_q.items # <<>> => HostBytes = {}
  <1>1. {a % Base : a \in Targets} \subseteq Bytes /\ {a \div Base : a \in Targets} \subseteq Bytes
    <2> SUFFICES ASSUME NEW a \in Targets PROVE a % Base \in Bytes /\ a \div Base \in Bytes
      OBVIOUS
    <2>1. Base * Base \in Nat
      BY HciAssumption
    <2>2. a \in Nat /\ a < Base * Base
      BY <2>1, BusAssumption
    <2> QED
      BY <2>2, HciAssumption DEF Bytes
  <1>2. Halted \subseteq Bytes /\ Running \subseteq Bytes /\ {0} \subseteq Bytes /\ {1} \subseteq Bytes
    BY BusAssumption, BytesInRanges DEF Bytes
  <1>3. HostBytes \subseteq Bytes
    BY <1>1, <1>2 DEF HostBytes
  <1>4. ~active => HostBytes \subseteq Running
    BY DEF HostBytes, active, AddrCountStg0, MemWrStg1
  <1>5. rx_q.items # <<>> => HostBytes = {}
    BY DEF HostBytes
  <1> QED
    BY <1>3, <1>4, <1>5 DEF Orderly

\* What a clock does to the interpreter: it wakes up at a break only.
LEMMA HciClock ==
    ASSUME IInv, HostWaits, Orderly, Clock
    PROVE  IInv' /\ HostWaits' /\ (~active /\ active' => brk_out)
  <1>1. PICK rx \in HostBytes \cup {NoByte} : Edge(rx, tx_q.items # <<>>, FALSE, brk_out, 0)
    BY DEF Clock
  <1>2. rx \in Bytes \cup {NoByte} /\ 0 \in Bytes /\ brk_out \in BOOLEAN
    BY HostBytesOK, BytesInRanges DEF IInv, brk_out, rdy, ready_in
  <1>3. IInv'
    <2>1. HciNext
      BY <1>1, <1>2 DEF HciNext
    <2> QED
      BY <2>1, NextIInv
  <1> DEFINE d == Default(FALSE)
             q == rx_q
             pop  == rd_en(brk_out) /\ ~q.empty
             push == rx # NoByte /\ ~q.full
             rest == IF pop THEN Tail(q.items) ELSE q.items
  <1>4. Defaulted(d) /\ Step(d, brk_out, 0) /\ HInv
    BY <1>1, DefaultOK DEF IInv, Edge
  <1>5. rx_q'.items = IF push THEN Append(rest, rx) ELSE rest
    BY <1>1 DEF Edge, QueueCycle
  <1>6. q.items \in Seq(Bytes) /\ Len(q.items) <= 1 /\ (~q.empty => Len(q.items) = 1)
    <2>1. q.items \in Seq(Bytes) /\ Len(q.items) <= 1 /\ (~q.empty => Len(q.items) > 0)
      BY DEF IInv, QInv, QueueOK, HostWaits
    <2> HIDE DEF q
    <2>2. Len(q.items) \in Nat
      BY <2>1
    <2>3. \A n \in Nat : n <= 1 /\ n > 0 => n = 1
      OBVIOUS
    <2> QED
      BY <2>1, <2>2, <2>3, Zenon
  <1>7. push => q.items = <<>> /\ rx \in Bytes /\ (~active => rx # OP_DBG_BRK) /\ rest = <<>>
    BY <1>4, <1>6, HostBytesOK DEF IInv, QInv
  <1>8. pop => rest = <<>>
    BY <1>6
  <1> HIDE DEF d
  <1>9. Len(rx_q'.items) <= 1
    BY <1>5, <1>6, <1>7, <1>8
  <1>10. ASSUME ~active', rx_q'.items # <<>>
         PROVE  rx_q'.items[1] # OP_DBG_BRK
    <2>1. CASE active
      <3>1. Decode(d) /\ rd_data = OP_DBG_RUN
        BY <1>4, <1>10, <2>1, OnlyDecodeSleeps
      <3>2. HaveByte /\ h.state \in ByteStates
        BY <3>1 DEF Decode, ByteStates
      <3>3. pop
        BY <3>2 DEF rd_en, HaveByte
      <3>4. ~push
        BY <1>6, <1>7, <3>3
      <3> QED
        BY <1>5, <1>8, <1>10, <3>3, <3>4
    <2>2. CASE ~active
      <3>1. CASE push
        BY <1>5, <1>7, <2>2, <3>1
      <3>2. CASE ~push
        BY <1>5, <1>8, <1>10, <2>2, <3>2 DEF HostWaits
      <3> QED
        BY <3>1, <3>2
    <2> QED
      BY <2>1, <2>2
  <1>11. ~active /\ active' => brk_out
    BY <1>2, <1>4, BreakWakes
  <1> QED
    BY <1>3, <1>9, <1>10, <1>11 DEF HostWaits

-----------------------------------------------------------------------------
(* The PPU: what a clock leaves in the registers that the invariant is about. *)

\* What an access says of q_ncs_in and the sprite memory's pointer.
LEMMA NextRi ==
    ASSUME BusTypes, NEW bus, Ppu!Writes(bus, 3) => bus.d \in Nat
    PROVE  LET r == Ppu!Next_ri(bus, FALSE)
           IN  /\ RiTypes(r) /\ r.ncs_in = bus.ncs
               /\ r.spr_ram_a = IF Ppu!Writes(bus, 3) THEN bus.d % OamSize
                                ELSE IF Ppu!Writes(bus, 4) THEN (ri.spr_ram_a + 1) % OamSize
                                ELSE ri.spr_ram_a
  <1> DEFINE r == Ppu!Default(bus, FALSE)
             Same(s) == /\ RiTypes(s) /\ s.ncs_in = bus.ncs
                        /\ s.spr_ram_a = ri.spr_ram_a
  <1>1. Same(r)
    BY DEF BusTypes, Ppu!Default, RiFields, RiTypes
  <1> HIDE DEF r
  <1>2. Same(Ppu!ReadStatus(r)) /\ Same(Ppu!ReadOam(r)) /\ Same(Ppu!ReadData(r))
    BY <1>1 DEF Ppu!ReadStatus, Ppu!ReadOam, Ppu!ReadData, RiFields, RiTypes
  <1>3. Same(Ppu!WriteCtrl(r, bus.d)) /\ Same(Ppu!WriteMask(r, bus.d))
    BY <1>1 DEF Ppu!WriteCtrl, Ppu!WriteMask, RiFields, RiTypes
  <1>4. Same(Ppu!WriteScroll(r, bus.d))
    BY <1>1 DEF Ppu!WriteScroll, RiFields, RiTypes
  <1>5. Same(Ppu!WriteAddr(r, bus.d))
    BY <1>1 DEF Ppu!WriteAddr, RiFields, RiTypes
  <1>6. LET s == Ppu!WriteOamAddr(r, bus.d)
        IN  RiTypes(s) /\ s.ncs_in = bus.ncs /\ s.spr_ram_a = bus.d % OamSize
    BY <1>1 DEF Ppu!WriteOamAddr, RiFields, RiTypes
  <1>7. LET s == Ppu!WriteOam(r)
        IN  RiTypes(s) /\ s.ncs_in = bus.ncs /\ s.spr_ram_a = (ri.spr_ram_a + 1) % OamSize
    BY <1>1 DEF Ppu!WriteOam, RiFields, RiTypes
  <1>8. CASE Ppu!Writes(bus, 3)
    <2>1. /\ ~Ppu!Reads(bus, 2) /\ ~Ppu!Reads(bus, 4) /\ ~Ppu!Reads(bus, 7)
          /\ ~Ppu!Writes(bus, 0) /\ ~Ppu!Writes(bus, 1) /\ ~Ppu!Writes(bus, 4)
          /\ ~Ppu!Writes(bus, 5) /\ ~Ppu!Writes(bus, 6)
      BY <1>8 DEF Ppu!Writes, Ppu!Reads
    <2>2. Ppu!Next_ri(bus, FALSE) = Ppu!WriteOamAddr(r, bus.d)
      BY <1>8, <2>1 DEF Ppu!Next_ri, r
    <2> QED
      BY <1>6, <1>8, <2>2
  <1>9. CASE Ppu!Writes(bus, 4)
    <2>1. /\ ~Ppu!Reads(bus, 2) /\ ~Ppu!Reads(bus, 4) /\ ~Ppu!Reads(bus, 7)
          /\ ~Ppu!Writes(bus, 0) /\ ~Ppu!Writes(bus, 1) /\ ~Ppu!Writes(bus, 3)
          /\ ~Ppu!Writes(bus, 5) /\ ~Ppu!Writes(bus, 6)
      BY <1>9 DEF Ppu!Writes, Ppu!Reads
    <2>2. Ppu!Next_ri(bus, FALSE) = Ppu!WriteOam(r)
      BY <1>9, <2>1 DEF Ppu!Next_ri, r
    <2> QED
      BY <1>7, <1>9, <2>1, <2>2
  <1>10. CASE ~Ppu!Writes(bus, 3) /\ ~Ppu!Writes(bus, 4)
    <2> HIDE DEF Same
    <2>1. Same(Ppu!Next_ri(bus, FALSE))
      BY <1>1, <1>2, <1>3, <1>4, <1>5, <1>10 DEF Ppu!Next_ri, r
    <2> QED
      BY <1>10, <2>1 DEF Same
  <1> QED
    BY <1>8, <1>9, <1>10

\* The bus cycles of the three masters.
LEMMA BusCycles ==
    ASSUME IInv, BusTypes
    PROVE  /\ active => cpumc = HciCycle
           /\ dma_active /\ ~active => cpumc = DmaCycle
           /\ ~dma_active /\ ~active => cpumc = CpuCycle
           /\ Ppu!Writes(cpumc, 3) => cpumc.d \in Nat
  <1>1. Ppu!Writes(cpumc, 3) => cpumc.d \in Nat
    <2> SUFFICES ASSUME Ppu!Writes(cpumc, 3) PROVE cpumc.d \in Nat
      OBVIOUS
    <2>1. cpumc.sel = 3 /\ ~cpumc.r_nw /\ ~cpumc.ncs
      BY DEF Ppu!Writes, Ppu!Evaluates
    <2>2. CASE active
      <3>1. CpuWrites
        BY <2>1, <2>2 DEF cpumc, HciCycle
      <3>2. cpu_dout \in Nat
        <4>1. HaveByte => rd_data \in Nat
          BY RdDataOK, HciAssumption DEF Bytes
        <4> QED
          BY <3>1, <4>1 DEF CpuWrites, cpu_dout
      <3>3. h.addr % 8 = 3 /\ cpumc.d = Byte(3, cpu_dout)
        BY <2>1, <2>2, <3>1 DEF cpumc, HciCycle
      <3> QED
        BY <3>2, <3>3 DEF Byte
    <2>3. CASE ~active /\ dma_active
      BY <2>1, <2>3 DEF cpumc, DmaCycle
    <2>4. CASE ~active /\ ~dma_active
      <3>1. cpu.cycle.kind = "ppu" /\ cpu.cycle.reg = 3 /\ cpumc.d = Byte(3, cpu.cycle.d)
        BY <2>1, <2>4 DEF cpumc, CpuCycle
      <3>2. cpu.cycle \in Cycles
        BY DEF BusTypes
      <3>3. PICK a \in Accesses : cpu.cycle = PpuCycle(a)
        BY <3>1, <3>2 DEF Cycles, Elsewhere, Hlt, Write4014
      <3>4. a.d \in Nat
        BY <3>1, <3>3, BusAssumption DEF PpuCycle
      <3> QED
        BY <3>1, <3>3, <3>4 DEF Byte, PpuCycle
    <2> QED
      BY <2>2, <2>3, <2>4
  <1> QED
    BY <1>1 DEF cpumc

\* What a clock does to the PPU, for the invariant.
LEMMA PpuStep ==
    ASSUME IInv, BusTypes, Clock
    PROVE  /\ RiTypes(ri') /\ ri'.ncs_in = cpumc.ncs
           /\ ri'.spr_ram_a \in 0 .. OamSize - 1 /\ DOMAIN m_oam' = 0 .. OamSize - 1
           /\ cpumc.ncs => ri'.spr_ram_a = ri.spr_ram_a /\ m_oam' = m_oam
           /\ Ppu!Writes(cpumc, 4) => /\ ri'.spr_ram_a = (ri.spr_ram_a + 1) % OamSize
                                      /\ m_oam' = [m_oam EXCEPT ![ri.spr_ram_a] = cpumc.d]
  <1>1. /\ ri' = Ppu!Next_ri(cpumc, FALSE)
        /\ m_oam' = IF Ppu!Writes(cpumc, 4) THEN [m_oam EXCEPT ![ri.spr_ram_a] = cpumc.d] ELSE m_oam
    BY DEF Clock, Ppu!PpuClock, Ppu!spr_ram_wr
  <1>2. Ppu!Writes(cpumc, 3) => cpumc.d \in Nat
    BY BusCycles
  <1>3. /\ RiTypes(ri') /\ ri'.ncs_in = cpumc.ncs
        /\ ri'.spr_ram_a = IF Ppu!Writes(cpumc, 3) THEN cpumc.d % OamSize
                           ELSE IF Ppu!Writes(cpumc, 4) THEN (ri.spr_ram_a + 1) % OamSize
                           ELSE ri.spr_ram_a
    BY <1>1, <1>2, NextRi
  <1>4. \A n \in Nat : n % OamSize \in 0 .. OamSize - 1
    BY BusAssumption
  <1>5. ri.spr_ram_a + 1 \in Nat /\ ri.spr_ram_a \in 0 .. OamSize - 1
    BY BusAssumption DEF BusTypes
  <1>6. ri'.spr_ram_a \in 0 .. OamSize - 1
    BY <1>2, <1>3, <1>4, <1>5
  <1>7. DOMAIN m_oam' = 0 .. OamSize - 1
    BY <1>1 DEF BusTypes
  <1>8. cpumc.ncs => ~Ppu!Writes(cpumc, 3) /\ ~Ppu!Writes(cpumc, 4)
    BY DEF Ppu!Writes, Ppu!Evaluates
  <1>9. Ppu!Writes(cpumc, 4) => ~Ppu!Writes(cpumc, 3)
    BY DEF Ppu!Writes
  <1> QED
    BY <1>1, <1>3, <1>6, <1>7, <1>8, <1>9

-----------------------------------------------------------------------------
(* The CPU and the DMA.                                                     *)

\* The program's next cycle; after one that is anything it goes elsewhere first.
LEMMA NextCycleOK ==
    ASSUME Orderly, NEW c \in NextCycles
    PROVE  /\ c \in Cycles /\ c.kind \in {"else", "halt", "dma", "ppu"}
           /\ kind # "else" => c.kind = "else"
  <1>1. \/ c = Elsewhere
        \/ kind = "else" /\ c \in {Hlt, Write4014}
        \/ kind = "else" /\ \E a \in Accesses : c = PpuCycle(a)
    BY DEF Orderly, NextCycles, kind
  <1>2. c \in Cycles
    BY <1>1 DEF Cycles
  <1>3. c.kind \in {"else", "halt", "dma", "ppu"} /\ (c = Elsewhere => c.kind = "else")
    BY <1>1 DEF Elsewhere, Hlt, Write4014, PpuCycle
  <1> QED
    BY <1>1, <1>2, <1>3

LEMMA CycleOK ==
    ASSUME NEW c \in Cycles
    PROVE  /\ c.kind \in {"else", "halt", "dma", "ppu"}
           /\ c.kind = "else" => ~c.wr
           /\ c.kind = "dma" => c.wr
  BY DEF Cycles, Elsewhere, Hlt, Write4014, PpuCycle

\* The CPU stands still, stays in its cycle, or begins another.
LEMMA CpuStep ==
    ASSUME BusTypes, Orderly, Clock
    PROVE  /\ cpu'.ready = ready_in /\ ready_in \in BOOLEAN /\ rdy \in BOOLEAN
           /\ cpu' \in [phase : 0 .. CycleLength - 1, ready : BOOLEAN, cycle : Cycles]
           /\ ~rdy => cpu'.phase = cpu.phase /\ cpu'.cycle = cpu.cycle
           /\ rdy /\ cpu.phase # 0 =>
                 /\ cpu'.cycle = cpu.cycle
                 /\ cpu'.phase = IF cpu.phase = CycleLength - 1 THEN 0 ELSE cpu.phase + 1
           /\ rdy /\ cpu.phase = 0 =>
                 cpu'.phase = 1 /\ (kind # "else" => kind' = "else")
  <1>1. PICK c \in IF rdy /\ cpu.phase = 0 THEN NextCycles ELSE {cpu.cycle} :
          cpu' = [ready |-> ready_in, cycle |-> c,
                  phase |-> IF rdy THEN (cpu.phase + 1) % CycleLength ELSE cpu.phase]
    BY DEF Clock, Cpu
  <1>2. cpu.phase \in 0 .. CycleLength - 1 /\ cpu.cycle \in Cycles
    BY DEF BusTypes
  <1>3. ready_in \in BOOLEAN /\ rdy \in BOOLEAN
    BY DEF ready_in, rdy, BusTypes
  <1>4. \A n \in 0 .. CycleLength - 1 :
          (n + 1) % CycleLength = IF n = CycleLength - 1 THEN 0 ELSE n + 1
    BY BusAssumption
  <1>5. (cpu.phase + 1) % CycleLength = IF cpu.phase = CycleLength - 1 THEN 0 ELSE cpu.phase + 1
    BY <1>2, <1>4
  <1>6. (cpu.phase + 1) % CycleLength \in 0 .. CycleLength - 1
    BY <1>2, <1>5, BusAssumption
  <1>7. cpu.phase = 0 => (cpu.phase + 1) % CycleLength = 1
    BY <1>5, BusAssumption
  <1>8. c \in Cycles
    BY <1>1, <1>2, NextCycleOK
  <1>9. rdy /\ cpu.phase = 0 => (kind # "else" => c.kind = "else")
    BY <1>1, NextCycleOK
  <1>10. cpu' \in [phase : 0 .. CycleLength - 1, ready : BOOLEAN, cycle : Cycles]
    BY <1>1, <1>2, <1>3, <1>6, <1>8
  <1> QED
    BY <1>1, <1>3, <1>5, <1>7, <1>9, <1>10 DEF kind

\* An update of the DMA's registers within their widths.
LEMMA DmaUpdate ==
    ASSUME NEW d \in DmaRegs
    PROVE  /\ [d EXCEPT !.state = "READY"] \in DmaRegs
           /\ \A a \in 0 .. OamSize - 1 : [d EXCEPT !.state = "ACTIVE", !.addr = a] \in DmaRegs
           /\ \A n \in 0 .. 2 : [d EXCEPT !.cnt = n, !.state = "COOLDOWN"] \in DmaRegs
           /\ \A n \in 0 .. 2, a \in 0 .. OamSize - 1 : [d EXCEPT !.cnt = n, !.addr = a] \in DmaRegs
           /\ \A n \in 0 .. 2, b \in Nat : [d EXCEPT !.cnt = n, !.data = b] \in DmaRegs
  BY DEF DmaRegs

\* The DMA by state.
LEMMA DmaStep ==
    ASSUME BusTypes, Clock
    PROVE  /\ dma' \in DmaRegs
           /\ dma.state = "READY" =>
                 IF kind = "dma" THEN dma' = [dma EXCEPT !.state = "ACTIVE", !.addr = 0]
                 ELSE dma' = dma
           /\ dma_active /\ dma.cnt < 2 =>
                 dma' = [dma EXCEPT !.cnt = @ + 1, !.data = IF dma.cnt = 1 THEN wram_q ELSE @]
           /\ dma_active /\ dma.cnt = 2 =>
                 dma' = IF dma.addr = OamSize - 1
                        THEN [dma EXCEPT !.cnt = 0, !.state = "COOLDOWN"]
                        ELSE [dma EXCEPT !.cnt = 0, !.addr = @ + 1]
           /\ dma.state = "COOLDOWN" =>
                 IF cpu.cycle.wr THEN dma' = dma ELSE dma' = [dma EXCEPT !.state = "READY"]
  <1>1. dma \in DmaRegs /\ wram_q \in Nat
    BY DEF BusTypes
  <1>2. Dma
    BY DEF Clock
  <1>3. CASE dma.state = "READY"
    <2>1. DmaReady
      BY <1>2, <1>3 DEF Dma, DmaRead, DmaWrite, DmaCooldown
    <2>2. 0 \in 0 .. OamSize - 1
      BY BusAssumption
    <2>3. [dma EXCEPT !.state = "ACTIVE", !.addr = 0] \in DmaRegs
      BY <1>1, <2>2, DmaUpdate
    <2> QED
      BY <1>1, <1>3, <2>1, <2>3 DEF DmaReady, kind, dma_active
  <1>4. CASE dma.state = "ACTIVE" /\ dma.cnt < 2
    <2>1. DmaRead
      BY <1>2, <1>4, <1>1 DEF Dma, DmaReady, DmaWrite, DmaCooldown
    <2>2. dma.cnt + 1 \in 0 .. 2 /\ dma.data \in Nat
      BY <1>1, <1>4 DEF DmaRegs
    <2>3. dma' \in DmaRegs
      BY <1>1, <2>1, <2>2, DmaUpdate DEF DmaRead
    <2> QED
      BY <1>4, <2>1, <2>3 DEF DmaRead, dma_active
  <1>5. CASE dma.state = "ACTIVE" /\ dma.cnt = 2
    <2>1. DmaWrite
      BY <1>2, <1>5, <1>1 DEF Dma, DmaReady, DmaRead, DmaCooldown
    <2>2. dma.addr # OamSize - 1 => dma.addr + 1 \in 0 .. OamSize - 1
      BY <1>1, BusAssumption DEF DmaRegs
    <2>3. dma' \in DmaRegs
      <3>1. 0 \in 0 .. 2
        OBVIOUS
      <3> QED
        BY <1>1, <2>1, <2>2, <3>1, DmaUpdate DEF DmaWrite
    <2> QED
      BY <1>5, <2>1, <2>3 DEF DmaWrite, dma_active
  <1>6. CASE dma.state = "COOLDOWN"
    <2>1. DmaCooldown
      BY <1>2, <1>6 DEF Dma, DmaReady, DmaRead, DmaWrite
    <2>2. [dma EXCEPT !.state = "READY"] \in DmaRegs
      BY <1>1, DmaUpdate
    <2> QED
      BY <1>1, <1>6, <2>1, <2>2 DEF DmaCooldown, dma_active
  <1>7. dma.state \in {"READY", "ACTIVE", "COOLDOWN"} /\ (dma.cnt < 2 \/ dma.cnt = 2)
    BY <1>1 DEF DmaRegs
  <1> QED
    BY <1>3, <1>4, <1>5, <1>6, <1>7

-----------------------------------------------------------------------------
(* Who stands still in what: a clock by the master that has it.             *)

\* The counts of the history.
LEMMA LogStep ==
    ASSUME BusTypes, Clock
    PROVE  LET new == rdy /\ cpu.phase = 0
               begins == dma.state = "READY" /\ kind = "dma"
           IN  /\ log'.made = IF new THEN 0
                              ELSE IF ~active /\ ~dma_active /\ Ppu!Evaluates(cpumc) /\ log.made < 2
                                   THEN log.made + 1 ELSE log.made
               /\ log'.dmas = IF new THEN 0
                              ELSE IF begins /\ log.dmas < 2 THEN log.dmas + 1 ELSE log.dmas
               /\ log'.sent = IF begins THEN 0
                              ELSE IF ~active /\ dma_active /\ Ppu!Writes(cpumc, 4)
                                   THEN log.sent + 1 ELSE log.sent
               /\ log'.start = IF begins THEN ri.spr_ram_a ELSE log.start
               /\ log' \in [made : Nat, dmas : Nat, sent : Nat, start : 0 .. OamSize - 1]
  <1>1. log \in [made : Nat, dmas : Nat, sent : Nat, start : 0 .. OamSize - 1]
        /\ ri.spr_ram_a \in 0 .. OamSize - 1
    BY DEF BusTypes
  <1> QED
    BY <1>1 DEF Clock, History, Ppu!spr_ram_wr, kind

\* What the two CPU-side masters put on the chip select.
LEMMA ChipSelect ==
    ASSUME IInv, BusTypes
    PROVE  /\ ~dma_active /\ ~active => cpumc.ncs = (kind # "ppu")
           /\ dma_active /\ ~active => cpumc.ncs = (dma.cnt # 2)
  <1>1. CpuCycle.ncs = (kind # "ppu")
    BY DEF CpuCycle, kind
  <1>2. DmaCycle.ncs = (dma.cnt # 2)
    <2>1. CASE dma.cnt = 2
      BY <2>1 DEF DmaCycle
    <2>2. CASE dma.cnt # 2
      BY <2>2 DEF DmaCycle
    <2> QED
      BY <2>1, <2>2
  <1> QED
    BY <1>1, <1>2, BusCycles

LEMMA StandStep ==
    ASSUME IInv, BusInv, Orderly, Clock
    PROVE  Stand' /\ Edges'
  <1> DEFINE ph == cpu.phase
  <1>1. /\ BusTypes /\ HostWaits /\ Stand /\ Edges
        /\ kind \in {"else", "halt", "dma", "ppu"} /\ ph \in 0 .. CycleLength - 1
        /\ dma.state \in {"READY", "ACTIVE", "COOLDOWN"}
        /\ kind = "else" => ~cpu.cycle.wr
        /\ kind = "dma" => cpu.cycle.wr
    BY CycleOK DEF BusInv, BusTypes, kind, DmaRegs
  <1>2. ~active /\ active' => rdy /\ ph = 1 /\ kind = "halt"
    BY <1>1, HciClock DEF brk_out, kind
  <1>3. /\ cpu'.ready = ready_in /\ (rdy <=> ready_in /\ cpu.ready)
        /\ ready_in <=> ~active /\ ~dma_active
        /\ dma_active <=> dma.state = "ACTIVE"
        /\ dma_active' <=> dma'.state = "ACTIVE"
    BY <1>1, CpuStep DEF rdy, ready_in, dma_active
  <1>4. /\ dma.state = "READY" => dma'.state = IF kind = "dma" THEN "ACTIVE" ELSE "READY"
        /\ dma_active => dma'.state \in {"ACTIVE", "COOLDOWN"}
        /\ dma.state = "COOLDOWN" => dma'.state = IF cpu.cycle.wr THEN "COOLDOWN" ELSE "READY"
    <2>1. dma \in DmaRegs /\ dma' \in DmaRegs
      BY <1>1, DmaStep DEF BusTypes
    <2>2. CASE dma.state = "READY"
      BY <1>1, <2>1, <2>2, DmaStep DEF DmaRegs, dma_active
    <2>3. CASE dma_active
      <3>1. dma.cnt < 2 \/ dma.cnt = 2
        BY <2>1 DEF DmaRegs
      <3> QED
        BY <1>1, <2>1, <2>3, <3>1, DmaStep DEF DmaRegs, dma_active
    <2>4. CASE dma.state = "COOLDOWN"
      BY <1>1, <2>1, <2>4, DmaStep DEF DmaRegs, dma_active
    <2> QED
      BY <2>2, <2>3, <2>4 DEF dma_active
  <1>5. ri'.ncs_in = cpumc.ncs
    BY <1>1, PpuStep
  <1>6. CASE active
    <2>1. kind' = kind /\ cpu'.phase = ph /\ ~cpu'.ready /\ kind # "dma" /\ kind # "ppu"
      BY <1>1, <1>3, <1>6, CpuStep DEF kind, Stand
    <2>2. dma'.state = "READY" /\ log'.made = log.made /\ log'.dmas = log.dmas
      BY <1>1, <1>3, <1>4, <1>6, <2>1, LogStep DEF Stand
    <2> QED
      BY <1>1, <1>3, <1>6, <2>1, <2>2 DEF Stand, Edges
  <1>7. CASE ~active /\ dma_active
    <2>1. kind' = kind /\ cpu'.phase = ph /\ ~cpu'.ready /\ kind = "dma" /\ ph = 2 /\ ~active'
      BY <1>1, <1>2, <1>3, <1>7, CpuStep DEF kind, Stand
    <2>2. log'.made = log.made /\ log'.dmas = log.dmas
      BY <1>1, <1>3, <1>7, <2>1, LogStep DEF Stand
    <2> QED
      BY <1>1, <1>3, <1>4, <1>7, <2>1, <2>2 DEF Stand, Edges
  <1>8. CASE ~active /\ ~dma_active /\ ~rdy
    <2>1. kind' = kind /\ cpu'.phase = ph /\ cpu'.ready /\ ~cpu.ready /\ ~active'
      BY <1>1, <1>2, <1>3, <1>8, CpuStep DEF kind
    <2>2. kind # "ppu" /\ (kind = "dma" => ph # 1 /\ dma.state = "COOLDOWN")
          /\ (kind # "dma" => dma.state = "READY")
      BY <1>1, <1>3, <1>8, <2>1 DEF Stand
    <2>3. dma'.state = dma.state
      BY <1>1, <1>4, <2>2
    <2>4. ri'.ncs_in /\ ~Ppu!Evaluates(cpumc)
      BY <1>1, <1>5, <1>8, <2>2, ChipSelect DEF Ppu!Evaluates
    <2>5. log'.made = log.made /\ log'.dmas = log.dmas
      BY <1>1, <1>8, <2>2, <2>4, LogStep
    <2> QED
      BY <1>1, <1>3, <1>8, <2>1, <2>2, <2>3, <2>4, <2>5 DEF Stand, Edges
  <1>9. CASE rdy /\ ph = 0
    <2>1. ~active /\ ~dma_active /\ ~active' /\ cpu'.ready /\ cpu'.phase = 1
          /\ (kind # "else" => kind' = "else")
      BY <1>1, <1>2, <1>3, <1>9, CpuStep
    <2>2. dma.state = IF kind = "dma" THEN "COOLDOWN" ELSE "READY"
      BY <1>1, <1>3, <1>9, <2>1 DEF Stand
    <2>3. dma'.state = dma.state /\ log'.made = 0 /\ log'.dmas = 0
      BY <1>1, <1>4, <1>9, <2>2, LogStep
    <2>4. kind' = "ppu" => ri'.ncs_in
      BY <1>1, <1>5, <2>1, ChipSelect
    <2>5. kind' \in {"else", "halt", "dma", "ppu"}
      BY <1>1, CpuStep, CycleOK DEF kind
    <2> QED
      BY <1>3, <2>1, <2>2, <2>3, <2>4, <2>5 DEF Stand, Edges
  <1>10. CASE rdy /\ ph # 0
    <2>1. ~active /\ ~dma_active /\ cpu'.ready /\ kind' = kind
          /\ (cpu'.phase = IF ph = CycleLength - 1 THEN 0 ELSE ph + 1) /\ cpu'.phase # 1
          /\ (ph = 1 => cpu'.phase = 2)
      BY <1>1, <1>3, <1>10, CpuStep, BusAssumption DEF kind
    <2>2. /\ kind \in {"ppu", "halt"} => dma.state = "READY"
          /\ kind = "dma" => dma.state = IF ph = 1 THEN "READY" ELSE "COOLDOWN"
          /\ kind = "else" => dma.state \in {"READY", "COOLDOWN"}
      BY <1>1, <1>3, <2>1 DEF Stand
    <2>3. /\ kind # "dma" => dma'.state = "READY"
          /\ kind = "dma" => dma'.state = IF ph = 1 THEN "ACTIVE" ELSE "COOLDOWN"
      BY <1>1, <1>4, <2>2
    <2>4. ri'.ncs_in <=> kind # "ppu"
      BY <1>5, <2>1, <1>1, ChipSelect
    <2>5. Ppu!Evaluates(cpumc) <=> kind = "ppu" /\ ph = 1
      BY <1>1, <2>1, ChipSelect DEF Ppu!Evaluates, Edges
    <2>6. log'.made = (IF kind = "ppu" THEN 1 ELSE 0) /\ log'.dmas = (IF kind = "dma" THEN 1 ELSE 0)
      BY <1>1, <1>10, <2>1, <2>2, <2>5, LogStep DEF Stand, Edges
    <2>7. active' => kind = "halt" /\ ph = 1
      BY <1>2, <2>1
    <2> QED
      BY <1>1, <1>3, <2>1, <2>2, <2>3, <2>4, <2>6, <2>7 DEF Stand, Edges
  <1> QED
    BY <1>3, <1>6, <1>7, <1>8, <1>9, <1>10

-----------------------------------------------------------------------------
(* The copy.                                                                *)

\* Positions on the ring of sprite memory.
LEMMA Ring ==
    ASSUME NEW s \in 0 .. OamSize - 1
    PROVE  /\ \A i \in 0 .. OamSize : (s + i) % OamSize \in 0 .. OamSize - 1
           /\ s % OamSize = s
           /\ \A i \in 0 .. OamSize - 1 : (((s + i) % OamSize) + 1) % OamSize = (s + (i + 1)) % OamSize
           /\ \A i, j \in 0 .. OamSize - 1 : i # j => (s + i) % OamSize # (s + j) % OamSize
  <1>1. \A x \in 0 .. 2 * OamSize : x % OamSize = IF x < OamSize THEN x
                                                  ELSE IF x < 2 * OamSize THEN x - OamSize ELSE 0
    BY BusAssumption
  <1>2. OamSize \in Nat /\ OamSize >= 1
    BY BusAssumption
  <1> QED
    BY <1>1, <1>2

\* One byte more has been written where the pointer stood.
LEMMA CopyOne ==
    ASSUME BusTypes, dma_active, Copied(dma.addr), dma.data = Page[dma.addr],
           ri.spr_ram_a = (log.start + dma.addr) % OamSize,
           m_oam' = [m_oam EXCEPT ![ri.spr_ram_a] = dma.data],
           ri'.spr_ram_a = (ri.spr_ram_a + 1) % OamSize, log'.start = log.start
    PROVE  /\ \A i \in 0 .. dma.addr : m_oam'[(log'.start + i) % OamSize] = Page[i]
           /\ ri'.spr_ram_a = (log'.start + (dma.addr + 1)) % OamSize
  <1> DEFINE s == log.start
             n == dma.addr
             at(i) == (s + i) % OamSize
  <1>1. s \in 0 .. OamSize - 1 /\ n \in 0 .. OamSize - 1 /\ DOMAIN m_oam = 0 .. OamSize - 1
    BY DEF BusTypes, DmaRegs
  <1>2. \A i \in 0 .. n : i \in 0 .. OamSize - 1 /\ at(i) \in DOMAIN m_oam /\ (i # n => at(i) # at(n))
    <2>1. \A i \in 0 .. n : i \in 0 .. OamSize - 1
      BY <1>1, BusAssumption
    <2>2. /\ \A i \in 0 .. OamSize : at(i) \in 0 .. OamSize - 1
          /\ \A i, j \in 0 .. OamSize - 1 : i # j => at(i) # at(j)
      BY <1>1, Ring
    <2>3. \A i \in 0 .. OamSize - 1 : i \in 0 .. OamSize
      BY BusAssumption
    <2> HIDE DEF at
    <2> QED
      BY <1>1, <2>1, <2>2, <2>3
  <1>3. at(n) = ri.spr_ram_a
    OBVIOUS
  <1>4. \A i \in 0 .. n : i = n \/ i \in 0 .. n - 1
    BY <1>1
  <1>5. ASSUME NEW i \in 0 .. n
        PROVE  m_oam'[at(i)] = Page[i]
    <2> HIDE DEF at
    <2>1. CASE i = n
      BY <1>2, <1>3, <2>1
    <2>2. CASE i # n
      <3>1. m_oam'[at(i)] = m_oam[at(i)]
        BY <1>2, <1>3, <2>2
      <3>2. m_oam[at(i)] = Page[i]
        BY <1>4, <2>2 DEF Copied, at
      <3> QED
        BY <3>1, <3>2
    <2> QED
      BY <2>1, <2>2
  <1>6. (at(n) + 1) % OamSize = at(n + 1)
    BY <1>1, Ring
  <1> QED
    BY <1>3, <1>5, <1>6

LEMMA CopyStep ==
    ASSUME IInv, BusInv, Orderly, Clock
    PROVE  Copying'
  <1>1. /\ BusTypes /\ Stand /\ Edges /\ Copying /\ BusAssumption
        /\ dma.state \in {"READY", "ACTIVE", "COOLDOWN"}
        /\ dma \in DmaRegs /\ dma' \in DmaRegs
    BY DmaStep, BusAssumption DEF BusInv, BusTypes, DmaRegs
  <1>2. dma_active <=> dma.state = "ACTIVE"
    BY DEF dma_active
  <1>3. dma_active' <=> dma'.state = "ACTIVE"
    BY DEF dma_active
  <1>4. CASE dma.state = "READY" /\ kind = "dma"
    <2>1. ~active /\ ~dma_active /\ cpumc.ncs
      BY <1>1, <1>2, <1>4, ChipSelect DEF Stand
    <2>2. dma'.state = "ACTIVE" /\ dma'.addr = 0 /\ dma'.cnt = 0
      BY <1>1, <1>4, <2>1, DmaStep DEF Copying, DmaRegs
    <2>3. log'.sent = 0 /\ log'.start = ri.spr_ram_a /\ ri'.spr_ram_a = ri.spr_ram_a
      BY <1>1, <1>4, <2>1, LogStep, PpuStep
    <2>4. ri.spr_ram_a = (ri.spr_ram_a + 0) % OamSize
      <3>1. ri.spr_ram_a \in 0 .. OamSize - 1
        BY <1>1 DEF BusTypes
      <3>2. ri.spr_ram_a % OamSize = ri.spr_ram_a
        BY <3>1, Ring
      <3>3. ri.spr_ram_a + 0 = ri.spr_ram_a
        BY <3>1
      <3> QED
        BY <3>2, <3>3
    <2>5. Copied(0)'
      BY DEF Copied
    <2> QED
      BY <1>3, <2>2, <2>3, <2>4, <2>5 DEF Copying
  <1>5. CASE dma.state = "READY" /\ kind # "dma"
    <2>1. dma' = dma
      BY <1>1, <1>5, DmaStep
    <2> QED
      BY <1>1, <1>2, <1>3, <1>5, <2>1 DEF Copying
  <1>6. CASE dma_active /\ dma.cnt < 2
    <2>1. ~active /\ cpumc.ncs
      <3>1. dma.cnt # 2
        BY <1>6
      <3> QED
        BY <1>1, <1>6, <3>1, ChipSelect DEF Stand
    <2>2. dma' = [dma EXCEPT !.cnt = @ + 1, !.data = IF dma.cnt = 1 THEN wram_q ELSE @]
      BY <1>1, <1>6, DmaStep
    <2>3. /\ dma'.state = "ACTIVE" /\ dma'.addr = dma.addr /\ dma'.cnt = dma.cnt + 1
          /\ dma.cnt \in 0 .. 1
          /\ dma.cnt = 1 => dma'.data = wram_q
      BY <1>1, <1>2, <1>6, <2>2 DEF DmaRegs
    <2>4. wram_q' = Page[dma.addr]
      BY <1>6, <2>1 DEF Clock, Memory
    <2>5. ri'.ncs_in /\ ri'.spr_ram_a = ri.spr_ram_a /\ m_oam' = m_oam
      BY <1>1, <2>1, PpuStep
    <2>6. log'.sent = log.sent /\ log'.start = log.start
      <3>1. ~Ppu!Writes(cpumc, 4)
        BY <2>1 DEF Ppu!Writes, Ppu!Evaluates
      <3> QED
        BY <1>1, <1>2, <1>6, <3>1, LogStep
    <2>7. Copied(dma.addr)'
      BY <1>1, <1>6, <2>3, <2>5, <2>6 DEF Copying, Copied
    <2> QED
      BY <1>1, <1>3, <1>6, <2>3, <2>4, <2>5, <2>6, <2>7 DEF Copying
  <1>7. CASE dma_active /\ dma.cnt = 2
    <2>1. ~active /\ cpumc = DmaCycle
      BY <1>1, <1>7, BusCycles DEF Stand
    <2>2. Ppu!Writes(cpumc, 4) /\ cpumc.d = dma.data
      BY <1>1, <1>7, <2>1 DEF Copying, DmaCycle, Ppu!Writes, Ppu!Evaluates
    <2>3. /\ m_oam' = [m_oam EXCEPT ![ri.spr_ram_a] = dma.data]
          /\ ri'.spr_ram_a = (ri.spr_ram_a + 1) % OamSize
      BY <1>1, <2>2, PpuStep
    <2>4. log'.sent = dma.addr + 1 /\ log'.start = log.start
      BY <1>1, <1>2, <1>7, <2>1, <2>2, LogStep DEF Copying
    <2>5. /\ \A i \in 0 .. dma.addr : m_oam'[(log'.start + i) % OamSize] = Page[i]
          /\ ri'.spr_ram_a = (log'.start + (dma.addr + 1)) % OamSize
      BY <1>1, <1>7, <2>3, <2>4, CopyOne DEF Copying
    <2>6. dma.addr \in Nat /\ OamSize \in Nat
      BY <1>1, BusAssumption DEF DmaRegs
    <2>7. dma' = IF dma.addr = OamSize - 1
                 THEN [dma EXCEPT !.cnt = 0, !.state = "COOLDOWN"]
                 ELSE [dma EXCEPT !.cnt = 0, !.addr = @ + 1]
      BY <1>1, <1>7, DmaStep
    <2>8. CASE dma.addr = OamSize - 1
      <3>1. dma'.state = "COOLDOWN" /\ dma'.cnt = 0
        BY <1>1, <2>7, <2>8 DEF DmaRegs
      <3>2. log'.sent = OamSize /\ Copied(OamSize)'
        BY <2>4, <2>5, <2>6, <2>8 DEF Copied
      <3> QED
        BY <1>3, <3>1, <3>2 DEF Copying
    <2>9. CASE dma.addr # OamSize - 1
      <3>1. dma'.state = "ACTIVE" /\ dma'.cnt = 0 /\ dma'.addr = dma.addr + 1
        BY <1>1, <1>2, <1>7, <2>7, <2>9 DEF DmaRegs
      <3>2. Copied(dma.addr)'
        BY <2>5, <2>6, <3>1 DEF Copied
      <3> QED
        BY <1>3, <2>4, <2>5, <3>1, <3>2 DEF Copying
    <2> QED
      BY <2>8, <2>9
  <1>8. CASE dma.state = "COOLDOWN"
    <2>1. ~active /\ ~dma_active /\ cpumc.ncs
      BY <1>1, <1>2, <1>8, ChipSelect DEF Stand
    <2>2. dma'.state \in {"COOLDOWN", "READY"} /\ dma'.cnt = 0
      BY <1>1, <1>8, <2>1, DmaStep DEF Copying, DmaRegs
    <2>3. log'.sent = log.sent /\ log'.start = log.start /\ m_oam' = m_oam
      BY <1>1, <1>8, <2>1, LogStep, PpuStep
    <2>4. Copied(OamSize)'
      BY <1>1, <1>8, <2>3 DEF Copying, Copied
    <2> QED
      BY <1>1, <1>3, <1>8, <2>2, <2>3, <2>4 DEF Copying
  <1>9. dma_active => dma.cnt < 2 \/ dma.cnt = 2
    BY <1>1 DEF DmaRegs
  <1> QED
    BY <1>1, <1>2, <1>4, <1>5, <1>6, <1>7, <1>8, <1>9

-----------------------------------------------------------------------------
LEMMA TypesStep ==
    ASSUME IInv, BusTypes, Orderly, Clock
    PROVE  BusTypes'
  <1>1. wram_q' \in Nat
    <2>1. dma.addr \in 0 .. OamSize - 1
      BY DEF BusTypes, DmaRegs
    <2>2. Page[dma.addr] \in Nat
      BY <2>1, BusAssumption DEF Page
    <2> QED
      BY <2>2 DEF Clock, Memory, Junk
  <1>2. dma' \in DmaRegs
    BY DmaStep
  <1>3. cpu' \in [phase : 0 .. CycleLength - 1, ready : BOOLEAN, cycle : Cycles]
    BY CpuStep
  <1>4. log' \in [made : Nat, dmas : Nat, sent : Nat, start : 0 .. OamSize - 1]
    BY LogStep
  <1>5. cpumc.ncs \in BOOLEAN
    <2>1. CASE active
      <3>1. HciCycle.ncs = ~InPpu(h.addr)
        BY DEF HciCycle
      <3>2. cpumc.ncs = ~InPpu(h.addr)
        BY <2>1, <3>1, BusCycles
      <3> QED
        BY <3>2
    <2>2. CASE ~active
      BY <2>2, ChipSelect
    <2> QED
      BY <2>1, <2>2
  <1> QED
    BY <1>1, <1>2, <1>3, <1>4, <1>5, PpuStep DEF BusTypes

LEMMA BusInit == Init => IInv /\ BusInv
  <1> SUFFICES ASSUME Init PROVE IInv /\ BusInv
    OBVIOUS
  <1>1. IInv
    BY InitIInv DEF Init
  <1>2. /\ cpu = [phase |-> 1, ready |-> FALSE, cycle |-> Elsewhere]
        /\ dma = [state |-> "READY", addr |-> 0, cnt |-> 0, data |-> 0]
        /\ wram_q = 0 /\ log = [made |-> 0, dmas |-> 0, sent |-> 0, start |-> 0]
        /\ ri = Ppu!ResetRi /\ m_oam = [a \in 0 .. OamSize - 1 |-> 0]
    BY DEF Init, Ppu!PpuInit, Junk
  <1>3. 0 \in 0 .. OamSize - 1 /\ 1 \in 0 .. CycleLength - 1
    BY BusAssumption
  <1>4. BusTypes
    <2>1. RiTypes(ri) /\ ri.ncs_in = TRUE /\ ri.spr_ram_a = 0
      BY <1>2 DEF Ppu!ResetRi, RiTypes, RiFields
    <2>2. dma \in DmaRegs
      BY <1>2, <1>3 DEF DmaRegs
    <2>3. Elsewhere \in Cycles
      BY DEF Cycles
    <2>4. cpu \in [phase : 0 .. CycleLength - 1, ready : BOOLEAN, cycle : Cycles]
      BY <1>2, <1>3, <2>3
    <2> QED
      BY <1>2, <1>3, <2>1, <2>2, <2>4 DEF BusTypes
  <1>5. active /\ rx_q.items = <<>>
    BY DEF Init, HciInit, ResetRegs, EmptyQueue, active
  <1>6. HostWaits
    BY <1>5 DEF HostWaits
  <1>7. Stand /\ Edges /\ Copying
    BY <1>2, <1>5 DEF Stand, Edges, Copying, kind, Elsewhere, dma_active
  <1> QED
    BY <1>1, <1>4, <1>6, <1>7 DEF BusInv

LEMMA BusNext == Orderly /\ IInv /\ BusInv /\ [Next]_busVars => IInv' /\ BusInv'
  <1> SUFFICES ASSUME Orderly, IInv, BusInv, [Next]_busVars PROVE IInv' /\ BusInv'
    OBVIOUS
  <1>1. CASE Clock
    <2>1. IInv' /\ HostWaits'
      BY <1>1, HciClock DEF BusInv
    <2> QED
      BY <1>1, <2>1, TypesStep, StandStep, CopyStep DEF BusInv
  <1>2. CASE UNCHANGED busVars
    BY <1>2 DEF busVars, hciVars, IInv, HInv, QInv, QueueOK, CountsLive, NoneUnderWay,
       AnswerChecked, BusInv, BusTypes, HostWaits, Stand, Edges, Copying, Copied, kind,
       active, dma_active
  <1> QED
    BY <1>1, <1>2 DEF Next

LEMMA BusInductive == Orderly /\ Spec => []BusInv
  <1>1. Orderly /\ Init /\ [][Next]_busVars => [](Orderly /\ IInv /\ BusInv)
    <2>1. Orderly => Orderly'
      BY DEF Orderly
    <2> QED
      BY BusInit, BusNext, <2>1, PTL
  <1> QED
    BY <1>1, PTL DEF Spec

\* Whatever the debugger does while it has the bus, and whenever the DMA takes it:
\* an access of the program that has begun is made, and not again when the CPU
\* goes on (ppu_ri.v executes at falling edges of the chip select only).
THEOREM AccessesOnce == ASSUME Orderly PROVE Spec => []AccessOnce
  <1>1. BusInv => AccessOnce
    BY DEF BusInv, Edges, AccessOnce, kind
  <1> QED
    BY <1>1, BusInductive, PTL

\* The DMA of sprdma.v copies its page in order, each byte once, wherever the
\* pointer of sprite memory stands, and the CPU's cycle lasts until it has.
THEOREM DmaCopiesAll == ASSUME Orderly PROVE Spec => []DmaCopies
  <1>1. BusInv => DmaCopies
    <2> SUFFICES ASSUME BusInv PROVE DmaCopies
      OBVIOUS
    <2>1. log.dmas <= 1
      BY DEF BusInv, Stand
    <2>2. cpu.phase = 0 /\ kind = "dma" => log.dmas = 1 /\ ~dma_active
      BY DEF BusInv, Stand
    <2>3. /\ dma.state = "ACTIVE" => log.sent = dma.addr
          /\ dma.state = "COOLDOWN" => log.sent = OamSize /\ Copied(OamSize)
      BY DEF BusInv, Copying, dma_active
    <2> QED
      BY <2>1, <2>2, <2>3 DEF DmaCopies, Copied, kind
  <1> QED
    BY <1>1, BusInductive, PTL

-----------------------------------------------------------------------------
(* Packets about memory.  The interpreter's address stays off the PPU but in  *)
(* a PPU_DISABLE, whose accesses it is that the PPU shall see.               *)

\* No packet is about a byte of the PPU, or the last one before it, after which
\* the interpreter would point at 0x2000; and 0x2000 is a multiple of 8.
OffPpu == /\ \A t \in Targets : ~InPpu(t) /\ ~InPpu(NextAddr(t))
          /\ Base % 8 = 0

\* The byte that waits for the address and count of a memory packet.
HeaderByte(b) ==
    CASE h.decode_cnt = 0 -> b \in {a % Base : a \in Targets}
      [] h.decode_cnt = 1 -> \E a \in Targets : a % Base = h.addr /\ b = a \div Base
      [] h.decode_cnt = 2 -> b = 1
      [] h.decode_cnt = 3 -> b = 0

Addressing ==
    /\ h.state \in AddrCountStg0 =>
          /\ rx_q.items # <<>> => HeaderByte(rx_q.items[1])
          /\ h.decode_cnt = 1 => h.addr < Base
          /\ h.decode_cnt \in {2, 3} => h.addr \in Targets
          /\ h.decode_cnt = 3 => h.execute_cnt = 1
    /\ h.state \in MemRdStg1 => h.execute_cnt \in {1, 2} /\ h.addr \in Targets
    /\ h.state \in MemWrStg1 => h.execute_cnt = 1 /\ h.addr \in Targets
    /\ h.state # "PPU_DISABLE" => ~InPpu(h.addr)

\* What PPU_DISABLE has done when: 0x2000 and 0x2001 are written and 0x2002 read.
Disabling ==
    h.state = "PPU_DISABLE" =>
        /\ h.decode_cnt = 0 => ~InPpu(h.addr)
        /\ h.decode_cnt \in {2, 4} => h.addr = 0
        /\ h.decode_cnt \in {1, 3, 5} => ri.ncs_in /\ h.addr = PpuReg(h.decode_cnt \div 2)
        /\ h.decode_cnt >= 2 => ~ri.nvbl_en
        /\ h.decode_cnt >= 4 => ~ri.rendering

HostInv == Addressing /\ Disabling

LEMMA EighthOK ==
    ASSUME Base % 8 = 0
    PROVE  /\ \A a \in Bytes : ~InPpu(a)
           /\ \A i \in 0 .. 2 : PpuReg(i) % 8 = i /\ InPpu(PpuReg(i))
  <1>1. Base \in Nat /\ Base >= 13
    BY HciAssumption
  <1>2. PICK k \in Nat : Base = 8 * k
    BY <1>1
  <1>3. k >= 2
    BY <1>1, <1>2
  <1>4. k * k \in Nat /\ k * k >= 2 * k
    BY <1>3
  <1>5. Base * Base = 8 * (8 * (k * k))
    BY <1>2
  <1>6. Eighth = 8 * (k * k)
    BY <1>4, <1>5 DEF Eighth
  <1> DEFINE m == k * k
  <1>7. m \in Nat /\ m >= 2 * k /\ Eighth = 8 * m /\ m >= 4
    BY <1>3, <1>4, <1>6
  <1> HIDE DEF m
  <1>8. ASSUME NEW i \in 0 .. 2
        PROVE  PpuReg(i) % 8 = i /\ InPpu(PpuReg(i))
    <2>1. PpuReg(i) = 8 * m + i
      BY <1>7 DEF PpuReg, Eighth
    <2> QED
      BY <1>7, <2>1 DEF InPpu
  <1>9. Base <= Eighth /\ Eighth \in Nat
    BY <1>2, <1>3, <1>7
  <1>10. \A a \in Bytes : ~InPpu(a)
    BY <1>1, <1>9 DEF InPpu, Bytes
  <1> QED
    BY <1>8, <1>10

LEMMA TailOfOne ==
    ASSUME NEW S, NEW s \in Seq(S), Len(s) = 1
    PROVE  Tail(s) = <<>>
  <1>1. s # <<>>
    OBVIOUS
  <1>2. Tail(s) \in Seq(S) /\ Len(Tail(s)) = 0
    BY <1>1
  <1> QED
    BY <1>2, EmptySeq

\* A byte leaves the queue, or waits as it came.
LEMMA WaitingByte ==
    ASSUME IInv, HostWaits, Orderly, Clock
    PROVE  /\ HaveByte /\ h.state \in ByteStates => rx_q'.items = <<>>
           /\ ~HaveByte /\ rx_q'.items # <<>> =>
                 \/ rx_q'.items = rx_q.items
                 \/ rx_q.items = <<>> /\ rx_q'.items[1] \in HostBytes
           /\ HaveByte => rx_q.items # <<>> /\ rd_data = rx_q.items[1]
  <1>1. PICK rx \in HostBytes \cup {NoByte} : Edge(rx, tx_q.items # <<>>, FALSE, brk_out, 0)
    BY DEF Clock
  <1> DEFINE q == rx_q
             pop  == rd_en(brk_out) /\ ~q.empty
             push == rx # NoByte /\ ~q.full
             rest == IF pop THEN Tail(q.items) ELSE q.items
  <1>2. rx_q'.items = IF push THEN Append(rest, rx) ELSE rest
    BY <1>1 DEF Edge, QueueCycle
  <1>3. q.items \in Seq(Bytes) /\ Len(q.items) <= 1 /\ (~q.empty => q.items # <<>>)
    BY DEF IInv, QInv, QueueOK, HostWaits
  <1>4. push => q.items = <<>> /\ rx \in HostBytes
    BY <1>1, HostBytesOK DEF IInv
  <1>5. ~HaveByte <=> q.empty
    BY DEF HaveByte
  <1>6. CASE HaveByte
    <2>1. Len(q.items) \in Nat /\ Len(q.items) # 0
      BY <1>3, <1>5, <1>6
    <2>2. Len(q.items) = 1
      <3>1. \A n \in Nat : n <= 1 /\ n # 0 => n = 1
        OBVIOUS
      <3> QED
        BY <1>3, <2>1, <3>1, Zenon
    <2>3. h.state \in ByteStates => pop
      BY <1>6 DEF rd_en, HaveByte
    <2>4. Tail(q.items) = <<>>
      <3>1. q.items \in Seq(Bytes)
        BY <1>3
      <3> QED
        BY <2>2, <3>1, TailOfOne
    <2>5. ~push
      BY <1>3, <1>4, <1>5, <1>6
    <2> HIDE DEF push, pop
    <2>6. h.state \in ByteStates => rx_q'.items = <<>>
      BY <1>2, <2>3, <2>4, <2>5
    <2>7. rd_data = q.items[1] /\ q.items # <<>>
      BY <1>3, <1>5, <1>6 DEF rd_data
    <2> QED
      BY <1>6, <2>6, <2>7
  <1>7. CASE ~HaveByte
    <2>1. rest = q.items
      BY <1>5, <1>7
    <2>2. CASE push
      BY <1>2, <1>4, <1>7, <2>1, <2>2
    <2>3. CASE ~push
      BY <1>2, <1>7, <2>1, <2>3
    <2> QED
      BY <2>2, <2>3
  <1> QED
    BY <1>6, <1>7

\* What the host sends while a header is read, is read as it was meant.
LEMMA HeaderBytes ==
    ASSUME IInv, h.state \in AddrCountStg0, NEW b \in HostBytes
    PROVE  HeaderByte(b)
  <1>1. h.state \notin {"DECODE", "DISABLED"} \cup MemWrStg1
    BY DEF AddrCountStg0, MemWrStg1
  <1>2. h.decode_cnt \in 0 .. 7 /\ h.decode_cnt <= 3
    BY DEF IInv, HInv, HRegs, CountsLive
  <1>3. rx_q.items = <<>>
    BY DEF HostBytes
  <1>4. CASE h.decode_cnt = 0
    <2>1. HostBytes = {a % Base : a \in Targets}
      BY <1>1, <1>3, <1>4 DEF HostBytes
    <2> QED
      BY <1>4, <2>1 DEF HeaderByte
  <1>5. CASE h.decode_cnt = 1
    <2>1. HostBytes = {a \div Base : a \in {t \in Targets : t % Base = h.addr}}
      BY <1>1, <1>3, <1>5 DEF HostBytes
    <2>2. \E a \in Targets : a % Base = h.addr /\ b = a \div Base
      BY <2>1
    <2> QED
      BY <1>5, <2>2 DEF HeaderByte
  <1>6. CASE h.decode_cnt = 2
    <2>1. HostBytes = {1}
      BY <1>1, <1>3, <1>6 DEF HostBytes
    <2> QED
      BY <1>6, <2>1 DEF HeaderByte
  <1>7. CASE h.decode_cnt = 3
    <2>1. HostBytes = {0}
      BY <1>1, <1>3, <1>7 DEF HostBytes
    <2> QED
      BY <1>7, <2>1 DEF HeaderByte
  <1> QED
    BY <1>2, <1>4, <1>5, <1>6, <1>7

\* Without a falling chip select the PPU goes on as it was.
LEMMA QuietPpu ==
    ASSUME RiTypes(ri), NEW bus, Ppu!PpuClock(bus, FALSE), ~Ppu!Evaluates(bus)
    PROVE  /\ ri'.nvbl_en = ri.nvbl_en /\ ri'.rendering = ri.rendering
           /\ ri'.byte_sel = ri.byte_sel /\ ri'.cpu_d_out = ri.cpu_d_out
           /\ ri'.ncs_in = bus.ncs
           /\ cntrs' = IF ri.upd_cntrs THEN Ppu!Latches(ri) ELSE cntrs
  <1>1. \A reg : ~Ppu!Reads(bus, reg) /\ ~Ppu!Writes(bus, reg)
    BY DEF Ppu!Reads, Ppu!Writes
  <1>2. ri' = Ppu!Default(bus, FALSE)
    BY <1>1 DEF Ppu!PpuClock, Ppu!Next_ri
  <1>3. cntrs' = IF ri.upd_cntrs THEN Ppu!Latches(ri) ELSE cntrs
    BY <1>1 DEF Ppu!PpuClock, Ppu!Next_cntrs, Ppu!inc_addr
  <1> QED
    BY <1>2, <1>3 DEF Ppu!Default, RiTypes, RiFields

\* The three accesses of PPU_DISABLE.
LEMMA DisablingAccess ==
    ASSUME RiTypes(ri), NEW bus, Ppu!PpuClock(bus, FALSE), Ppu!Evaluates(bus)
    PROVE  /\ ~bus.r_nw /\ bus.sel = 0 /\ bus.d.nmi = FALSE => ~ri'.nvbl_en
           /\ ~bus.r_nw /\ bus.sel = 1 /\ bus.d = 0 =>
                 ~ri'.rendering /\ ri'.nvbl_en = ri.nvbl_en
           /\ bus.r_nw /\ bus.sel = 2 =>
                 /\ ~ri'.byte_sel
                 /\ ri'.nvbl_en = ri.nvbl_en /\ ri'.rendering = ri.rendering
  <1> DEFINE r == Ppu!Default(bus, FALSE)
  <1>1. RiTypes(r) /\ r.nvbl_en = ri.nvbl_en /\ r.rendering = ri.rendering
    BY DEF Ppu!Default, RiTypes, RiFields
  <1> HIDE DEF r
  <1>2. ASSUME ~bus.r_nw, bus.sel = 0, bus.d.nmi = FALSE
        PROVE  ~ri'.nvbl_en
    <2>1. ri' = Ppu!WriteCtrl(r, bus.d)
      BY <1>2 DEF Ppu!PpuClock, Ppu!Next_ri, Ppu!Reads, Ppu!Writes, r
    <2> QED
      BY <1>1, <1>2, <2>1 DEF Ppu!WriteCtrl, RiTypes, RiFields
  <1>3. ASSUME ~bus.r_nw, bus.sel = 1, bus.d = 0
        PROVE  ~ri'.rendering /\ ri'.nvbl_en = ri.nvbl_en
    <2>1. ri' = Ppu!WriteMask(r, bus.d)
      BY <1>3 DEF Ppu!PpuClock, Ppu!Next_ri, Ppu!Reads, Ppu!Writes, r
    <2> QED
      BY <1>1, <1>3, <2>1 DEF Ppu!WriteMask, RiTypes, RiFields
  <1>4. ASSUME bus.r_nw, bus.sel = 2
        PROVE  /\ ~ri'.byte_sel
               /\ ri'.nvbl_en = ri.nvbl_en /\ ri'.rendering = ri.rendering
    <2>1. ri' = Ppu!ReadStatus(r)
      BY <1>4 DEF Ppu!PpuClock, Ppu!Next_ri, Ppu!Reads, Ppu!Writes, r
    <2> QED
      BY <1>1, <2>1 DEF Ppu!ReadStatus, RiTypes, RiFields
  <1> QED
    BY <1>2, <1>3, <1>4

\* In any other state the address is all there is to say.
LEMMA AtRest ==
    ASSUME h'.state \notin AddrCountStg0 \cup MemRdStg1 \cup MemWrStg1,
           h'.state = "PPU_DISABLE" \/ ~InPpu(h'.addr)
    PROVE  Addressing'
  BY DEF Addressing

LEMMA AddrCountKeeps ==
    ASSUME IInv, OffPpu, Addressing, HaveByte, rd_data \in Bytes,
           rx_q.items # <<>>, rd_data = rx_q.items[1], rx_q'.items = <<>>,
           NEW d, Defaulted(d), h.state \in AddrCountStg0, NEW scale \in {1, 2},
           h.state \in {"CPU_MEM_RD_STG_0", "PPU_MEM_RD_STG_0"} <=> scale = 2,
           AddrCount(d, scale)
    PROVE  Addressing'
  <1> DEFINE e == [d EXCEPT !.decode_cnt = (@ + 1) % 8]
  <1>1. /\ d \in HRegs /\ d.state = h.state /\ d.addr = h.addr
        /\ d.decode_cnt = h.decode_cnt /\ h.state \notin MemRdStg1 \cup MemWrStg1 \cup {"PPU_DISABLE"}
        /\ h.decode_cnt \in {0, 1, 2, 3} /\ h \in HRegs
    <2>1. h.decode_cnt \in 0 .. 7 /\ h.decode_cnt <= 3
      BY DEF IInv, HInv, HRegs, CountsLive
    <2> QED
      BY <2>1 DEF Defaulted, IInv, HInv, AddrCountStg0, MemRdStg1, MemWrStg1
  <1>2. e \in HRegs /\ e.state = h.state /\ e.addr = h.addr /\ e.decode_cnt = (h.decode_cnt + 1) % 8
    <2>1. \A n \in 0 .. 7 : [d EXCEPT !.decode_cnt = n] \in HRegs
      BY <1>1 DEF HRegs
    <2>2. (d.decode_cnt + 1) % 8 \in 0 .. 7
      BY <1>1 DEF HRegs
    <2>3. e \in HRegs
      BY <2>1, <2>2
    <2> QED
      BY <1>1, <2>3 DEF HRegs
  <1> HIDE DEF e
  <1>3. HeaderByte(rd_data) /\ Base \in Nat /\ Base >= 13 /\ rd_data < Base /\ rd_data \in Nat
    BY HciAssumption DEF Addressing, Bytes
  <1>4. ~InPpu(rd_data) /\ ~InPpu(h.addr)
    BY <1>1, EighthOK DEF OffPpu, Addressing
  <1>5. \A t \in Targets : t \in Nat /\ ~InPpu(t)
    <2>1. Base * Base \in Nat
      BY <1>3
    <2>2. Targets \subseteq 0 .. Base * Base - 1
      BY BusAssumption
    <2> QED
      BY <2>1, <2>2 DEF OffPpu
  <1>6. CASE h.decode_cnt = 0
    <2>1. h' = [e EXCEPT !.addr = rd_data]
      BY <1>6 DEF AddrCount, e
    <2>2. h'.addr = rd_data /\ h'.state = h.state /\ h'.decode_cnt = 1
      BY <1>2, <1>6, <2>1 DEF HRegs
    <2> QED
      BY <1>1, <1>3, <1>4, <2>2 DEF Addressing
  <1>7. CASE h.decode_cnt = 1
    <2>1. h' = [e EXCEPT !.addr = rd_data * Base + (@ % Base)]
      BY <1>7 DEF AddrCount, e
    <2>2. h'.addr = rd_data * Base + (h.addr % Base) /\ h'.state = h.state /\ h'.decode_cnt = 2
      BY <1>2, <1>7, <2>1 DEF HRegs
    <2>3. PICK a \in Targets : a % Base = h.addr /\ rd_data = a \div Base
      BY <1>3, <1>7 DEF HeaderByte
    <2>4. a \in Nat /\ ~InPpu(a)
      BY <1>5
    <2>5. h.addr % Base = h.addr
      BY <1>3, <2>3, <2>4
    <2>6. (a \div Base) * Base + (a % Base) = a
      <3>1. a = Base * (a \div Base) + (a % Base) /\ a \div Base \in Int
        BY <1>3, <2>4
      <3>2. \A n \in Int : Base * n = n * Base
        BY <1>3
      <3> QED
        BY <3>1, <3>2
    <2>7. h'.addr = a
      BY <2>2, <2>3, <2>5, <2>6
    <2> QED
      BY <1>1, <2>2, <2>4, <2>7 DEF Addressing
  <1>8. CASE h.decode_cnt = 2
    <2>1. h' = [e EXCEPT !.execute_cnt = rd_data]
      BY <1>8 DEF AddrCount, e
    <2>2. h'.addr = h.addr /\ h'.state = h.state /\ h'.decode_cnt = 3 /\ h'.execute_cnt = rd_data
      BY <1>2, <1>8, <2>1 DEF HRegs
    <2>3. rd_data = 1 /\ h.addr \in Targets
      BY <1>3, <1>8 DEF HeaderByte, Addressing
    <2> QED
      BY <1>1, <1>4, <2>2, <2>3 DEF Addressing
  <1>9. CASE h.decode_cnt = 3
    <2> DEFINE cnt == scale * (rd_data * Base + (h.execute_cnt % Base))
    <2>1. h' = Execute(e, cnt, ExecuteState[h.state])
      BY <1>9 DEF AddrCount, e
    <2>2. rd_data = 0 /\ h.addr \in Targets /\ h.execute_cnt = 1
      BY <1>3, <1>9 DEF HeaderByte, Addressing
    <2>3. 1 % Base = 1 /\ 0 * Base = 0
      BY <1>3
    <2>4. cnt = scale
      BY <2>2, <2>3
    <2>5. h' = [e EXCEPT !.execute_cnt = cnt, !.state = ExecuteState[h.state]]
      <3> HIDE DEF cnt
      <3>1. cnt # 0
        BY <2>4
      <3> QED
        BY <2>1, <3>1 DEF Execute
    <2> HIDE DEF cnt
    <2>6. h'.addr = h.addr /\ h'.execute_cnt = scale /\ h'.state = ExecuteState[h.state]
      BY <1>2, <2>4, <2>5 DEF HRegs
    <2>7. CASE scale = 2
      <3>1. ExecuteState[h.state] \in MemRdStg1
        BY <2>7 DEF ExecuteState, AddrCountStg0, MemRdStg1
      <3>2. h'.state \notin AddrCountStg0 \cup MemWrStg1
        BY <2>6, <3>1 DEF MemRdStg1, MemWrStg1, AddrCountStg0
      <3> QED
        BY <1>4, <2>2, <2>6, <2>7, <3>1, <3>2 DEF Addressing
    <2>8. CASE scale = 1
      <3>1. ExecuteState[h.state] \in MemWrStg1
        BY <2>8 DEF ExecuteState, AddrCountStg0, MemWrStg1
      <3>2. h'.state \notin AddrCountStg0 \cup MemRdStg1
        BY <2>6, <3>1 DEF MemRdStg1, MemWrStg1, AddrCountStg0
      <3> QED
        BY <1>4, <2>2, <2>6, <2>8, <3>1, <3>2 DEF Addressing
    <2> QED
      BY <2>7, <2>8
  <1> QED
    BY <1>1, <1>6, <1>7, <1>8, <1>9

\* One byte of a packet about RAM: a read has two cycles, a write has one.
LEMMA MemoryKeeps ==
    ASSUME IInv, OffPpu, Addressing, NEW d, Defaulted(d), NEW din,
           \/ h.state \in MemRdStg1 /\ MemRd(d, din)
           \/ h.state \in MemWrStg1 /\ MemWr(d)
    PROVE  Addressing'
  <1> DEFINE e == [d EXCEPT !.execute_cnt = CountDown]
  <1>1. /\ d \in HRegs /\ d.state = h.state /\ d.addr = h.addr
        /\ h.state \notin AddrCountStg0 \cup {"PPU_DISABLE"}
        /\ h.execute_cnt \in {1, 2} /\ h.addr \in Targets /\ ~InPpu(h.addr)
        /\ h.state \in MemWrStg1 => h.execute_cnt = 1
    BY DEF Defaulted, Addressing, AddrCountStg0, MemRdStg1, MemWrStg1
  <1>2. CountDown = h.execute_cnt - 1
    BY <1>1 DEF CountDown
  <1>3. ~InPpu(NextAddr(h.addr))
    BY <1>1 DEF OffPpu
  <1>4. e.state = h.state /\ e.execute_cnt = h.execute_cnt - 1 /\ e.addr = h.addr
        /\ e = [f \in DOMAIN d |-> e[f]] /\ DOMAIN e = DOMAIN d
    BY <1>1, <1>2 DEF HRegs
  <1>5. DOMAIN d = {"state", "decode_cnt", "execute_cnt", "addr", "err_code",
                    "cart_cfg", "cart_cfg_upd", "tx_data", "wr_en"}
    BY <1>1 DEF HRegs
  <1> HIDE DEF e
  <1>6. CASE h.execute_cnt = 2 /\ h' = e
    <2>1. h.state \in MemRdStg1 /\ h.state \notin MemWrStg1
      BY <1>1, <1>6 DEF MemRdStg1, MemWrStg1
    <2> QED
      BY <1>1, <1>4, <1>6, <2>1 DEF Addressing
  <1>7. CASE h.execute_cnt = 1
    <2>1. h' \in {Done(Say([e EXCEPT !.addr = NextAddr(@)], din)),
                  Done([e EXCEPT !.addr = NextAddr(@)])}
      <3>1. [d EXCEPT !.execute_cnt = CountDown, !.addr = NextAddr(@)]
              = [e EXCEPT !.addr = NextAddr(@)]
        BY DEF e
      <3> QED
        BY <1>7, <3>1 DEF MemRd, MemWr, e
    <2>2. h'.state = "DECODE" /\ h'.addr = NextAddr(h.addr)
      <3> DEFINE f == [e EXCEPT !.addr = NextAddr(@)]
      <3>1. /\ f.execute_cnt = 0 /\ f.addr = NextAddr(h.addr) /\ DOMAIN f = DOMAIN d
            /\ f = [k \in DOMAIN d |-> f[k]]
        BY <1>4, <1>5, <1>7
      <3> HIDE DEF f
      <3>2. Done(f) = [f EXCEPT !.state = "DECODE"]
        BY <3>1 DEF Done
      <3>3. Say(f, din).execute_cnt = 0 /\ Done(Say(f, din)) = [Say(f, din) EXCEPT !.state = "DECODE"]
        BY <1>5, <3>1 DEF Done, Say
      <3>4. h' \in {[Say(f, din) EXCEPT !.state = "DECODE"], [f EXCEPT !.state = "DECODE"]}
        BY <2>1, <3>2, <3>3 DEF f
      <3> QED
        BY <1>5, <3>1, <3>4 DEF Say
    <2>3. h'.state \notin AddrCountStg0 \cup MemRdStg1 \cup MemWrStg1
      BY <2>2 DEF MemRdStg1, MemWrStg1, AddrCountStg0
    <2> QED
      BY <1>3, <2>2, <2>3, AtRest
  <1> QED
    BY <1>1, <1>6, <1>7 DEF MemRd, MemWr, e

LEMMA AddressingStep ==
    ASSUME IInv, HostWaits, Orderly, OffPpu, Addressing, Clock
    PROVE  Addressing'
  <1> DEFINE d == Default(FALSE)
  <1>1. Defaulted(d) /\ Step(d, brk_out, 0) /\ d \in HRegs
    BY DefaultOK DEF Clock, Edge, IInv, Defaulted
  <1>2. d.state = h.state /\ d.addr = h.addr /\ d.decode_cnt = h.decode_cnt
        /\ d.execute_cnt = h.execute_cnt
    BY <1>1 DEF Defaulted
  <1>3. HaveByte => /\ rd_data \in Bytes /\ rx_q.items # <<>> /\ rd_data = rx_q.items[1]
                    /\ h.state \in ByteStates => rx_q'.items = <<>>
    BY WaitingByte, RdDataOK
  <1>4. \A a \in Bytes : ~InPpu(a)
    BY EighthOK DEF OffPpu
  <1>5. h.state # "PPU_DISABLE" => ~InPpu(h.addr)
    BY DEF Addressing
  <1> DEFINE Quiet == {"DECODE", "DISABLED", "ECHO_STG_0", "ECHO_STG_1", "CPU_REG_RD",
                       "CPU_REG_WR_STG_0", "CPU_REG_WR_STG_1", "QUERY_ERR_CODE",
                       "CART_SET_CFG_STG_0", "CART_SET_CFG_STG_1", "PPU_DISABLE"}
  <1>6. Quiet \cap (AddrCountStg0 \cup MemRdStg1 \cup MemWrStg1) = {}
    BY DEF AddrCountStg0, MemRdStg1, MemWrStg1
  <1>7. ASSUME h'.state \in Quiet, h'.state = "PPU_DISABLE" \/ ~InPpu(h'.addr)
        PROVE  Addressing'
    BY <1>6, <1>7, AtRest
  <1> HIDE DEF d
  <1>8. CASE Wait(d)
    <2>1. h' = d /\ h' \in HRegs
      BY <1>1, <1>8 DEF Wait
    <2>2. CASE h.state \in AddrCountStg0
      <3>1. h.state \in ByteStates /\ h.state \notin MemRdStg1 \cup MemWrStg1 \cup {"PPU_DISABLE"}
            /\ ~HaveByte
        BY <1>8, <2>2 DEF Wait, ByteStates, AddrCountStg0, MemRdStg1, MemWrStg1
      <3>2. rx_q'.items # <<>> =>
                 \/ rx_q'.items = rx_q.items
                 \/ rx_q.items = <<>> /\ rx_q'.items[1] \in HostBytes
        BY <3>1, WaitingByte
      <3>3. rx_q'.items # <<>> => HeaderByte(rx_q'.items[1])
        BY <2>2, <3>2, HeaderBytes DEF Addressing
      <3>4. \A b : HeaderByte(b) => HeaderByte(b)'
        BY <1>2, <2>1 DEF HeaderByte
      <3> QED
        BY <1>2, <2>1, <2>2, <3>1, <3>3, <3>4 DEF Addressing
    <2>3. CASE h.state \notin AddrCountStg0
      BY <1>2, <2>1, <2>3 DEF Addressing
    <2> QED
      BY <2>2, <2>3
  <1>9. CASE Disabled(d, brk_out)
    <2>1. h.state = "DISABLED" /\ h' \in {d, [d EXCEPT !.state = "DECODE"], Say(d, 0)}
      BY <1>9 DEF Disabled
    <2>2. h'.state \in {"DECODE", "DISABLED"} /\ h'.addr = h.addr
      BY <1>1, <1>2, <2>1 DEF Say, HRegs
    <2> QED
      BY <1>5, <1>7, <2>1, <2>2
  <1>10. CASE Decode(d)
    <2>1. h.state = "DECODE" /\ HaveByte /\ rx_q'.items = <<>>
      BY <1>3, <1>10 DEF Decode, ByteStates
    <2>2. CASE /\ rd_data \in DOMAIN DecodeTo
               /\ h' = [d EXCEPT !.decode_cnt = 0, !.state = DecodeTo[rd_data]]
      <3>1. h'.decode_cnt = 0 /\ h'.state = DecodeTo[rd_data] /\ h'.addr = h.addr
        BY <1>1, <1>2, <2>2 DEF HRegs
      <3>2. h'.state \in Quiet \cup AddrCountStg0
        <4>1. /\ "CPU_MEM_RD_STG_0" \in AddrCountStg0 /\ "CPU_MEM_WR_STG_0" \in AddrCountStg0
              /\ "PPU_MEM_RD_STG_0" \in AddrCountStg0 /\ "PPU_MEM_WR_STG_0" \in AddrCountStg0
          BY DEF AddrCountStg0
        <4>2. DecodeTo[rd_data] \in
                  {"DECODE", "DISABLED", "ECHO_STG_0", "CPU_REG_RD", "CPU_REG_WR_STG_0",
                   "QUERY_ERR_CODE", "CART_SET_CFG_STG_0", "PPU_DISABLE",
                   "CPU_MEM_RD_STG_0", "CPU_MEM_WR_STG_0", "PPU_MEM_RD_STG_0",
                   "PPU_MEM_WR_STG_0"}
          BY <2>2 DEF DecodeTo
        <4> QED
          BY <3>1, <4>1, <4>2
      <3>3. h'.state \in AddrCountStg0 => h'.state \notin MemRdStg1 \cup MemWrStg1
        BY DEF AddrCountStg0, MemRdStg1, MemWrStg1
      <3>4. ~InPpu(h'.addr)
        BY <1>5, <2>1, <3>1
      <3>5. CASE h'.state \in AddrCountStg0
        BY <2>1, <3>1, <3>3, <3>4, <3>5 DEF Addressing
      <3> QED
        BY <1>7, <3>2, <3>4, <3>5
    <2>3. CASE h' \in {Say([d EXCEPT !.decode_cnt = 0], 1),
                       [[d EXCEPT !.decode_cnt = 0] EXCEPT !.err_code = WithUnknown(@)]}
      <3>1. h'.state = "DECODE" /\ h'.addr = h.addr
        BY <1>1, <1>2, <2>1, <2>3 DEF HRegs, Say
      <3> QED
        BY <1>5, <1>7, <2>1, <3>1
    <2> QED
      BY <1>10, <2>2, <2>3 DEF Decode
  <1>11. CASE EchoStg0(d) \/ EchoStg1(d)
    <2>1. h.state \in {"ECHO_STG_0", "ECHO_STG_1"}
      BY <1>11 DEF EchoStg0, EchoStg1
    <2>2. h'.state \in {"ECHO_STG_0", "ECHO_STG_1", "DECODE"} /\ h'.addr = h.addr
      BY <1>1, <1>2, <1>11 DEF EchoStg0, EchoStg1, Execute, Done, Say, HRegs
    <2> QED
      BY <1>5, <1>7, <2>1, <2>2
  <1>12. CASE h.state \in AddrCountStg0 /\ \E scale \in {1, 2} :
                 /\ h.state \in {"CPU_MEM_RD_STG_0", "PPU_MEM_RD_STG_0"} <=> scale = 2
                 /\ AddrCount(d, scale)
    <2>1. HaveByte /\ h.state \in ByteStates
      BY <1>12 DEF AddrCount, ByteStates
    <2> QED
      BY <1>1, <1>3, <1>12, <2>1, AddrCountKeeps
  <1>13. CASE \/ h.state \in MemRdStg1 /\ MemRd(d, 0)
              \/ h.state \in MemWrStg1 /\ MemWr(d)
    BY <1>1, <1>13, MemoryKeeps
  <1>14. CASE CpuRegRd(d, 0) \/ CpuRegWrStg1(d) \/ QueryErrCode(d)
    <2>1. h'.state = "DECODE" /\ h'.addr = h.addr
          /\ h.state \in {"CPU_REG_RD", "CPU_REG_WR_STG_1", "QUERY_ERR_CODE"}
      BY <1>1, <1>2, <1>14 DEF CpuRegRd, CpuRegWrStg1, QueryErrCode, Say, HRegs
    <2> QED
      BY <1>5, <1>7, <2>1
  <1>15. CASE CpuRegWrStg0(d)
    <2>1. h'.state = "CPU_REG_WR_STG_1" /\ h'.addr = rd_data /\ HaveByte
      BY <1>1, <1>15 DEF CpuRegWrStg0, HRegs
    <2>2. ~InPpu(h'.addr)
      BY <1>3, <1>4, <2>1
    <2> QED
      BY <1>7, <2>1, <2>2
  <1>16. CASE PpuDisable(d)
    <2>1. h'.state = "PPU_DISABLE" \/ (h'.state = "DECODE" /\ h'.addr = 0)
      <3> DEFINE e == [d EXCEPT !.decode_cnt = (@ + 1) % 8]
      <3>1. e \in HRegs /\ e.state = "PPU_DISABLE"
        <4>1. \A n \in 0 .. 7 : [d EXCEPT !.decode_cnt = n] \in HRegs
          BY <1>1 DEF HRegs
        <4>2. (d.decode_cnt + 1) % 8 \in 0 .. 7
          BY <1>1 DEF HRegs
        <4>3. e \in HRegs
          BY <4>1, <4>2
        <4> QED
          BY <1>1, <1>2, <1>16, <4>3 DEF PpuDisable, HRegs
      <3>2. h.decode_cnt \in 0 .. 5
        BY <1>16 DEF PpuDisable, IInv, HInv, HRegs, CountsLive
      <3>3. h' \in {[e EXCEPT !.addr = PpuReg(h.decode_cnt \div 2)], [e EXCEPT !.addr = 0],
                     [e EXCEPT !.addr = 0, !.state = "DECODE"]}
        BY <1>16, <3>2 DEF PpuDisable
      <3> HIDE DEF e
      <3>4. \A a : [e EXCEPT !.addr = a].state = "PPU_DISABLE"
        BY <3>1 DEF HRegs
      <3>5. /\ [e EXCEPT !.addr = 0, !.state = "DECODE"].state = "DECODE"
            /\ [e EXCEPT !.addr = 0, !.state = "DECODE"].addr = 0
        BY <3>1 DEF HRegs
      <3> QED
        BY <3>3, <3>4, <3>5, Zenon
    <2>2. ~InPpu(0)
      BY <1>4, BytesInRanges
    <2> QED
      BY <1>7, <2>1, <2>2
  <1>17. CASE CartSetCfgStg0(d) \/ CartSetCfgStg1(d)
    <2>1. h.state \in {"CART_SET_CFG_STG_0", "CART_SET_CFG_STG_1"} /\ h'.addr = h.addr
          /\ h'.state \in {"CART_SET_CFG_STG_1", "DECODE"}
      BY <1>1, <1>2, <1>17 DEF CartSetCfgStg0, CartSetCfgStg1, HRegs
    <2> QED
      BY <1>5, <1>7, <2>1
  <1>18. CpuMemRdStg0(d) \/ PpuMemRdStg0(d) \/ CpuMemWrStg0(d) \/ PpuMemWrStg0(d) =>
             h.state \in AddrCountStg0 /\ \E scale \in {1, 2} :
                 /\ h.state \in {"CPU_MEM_RD_STG_0", "PPU_MEM_RD_STG_0"} <=> scale = 2
                 /\ AddrCount(d, scale)
    BY DEF CpuMemRdStg0, PpuMemRdStg0, CpuMemWrStg0, PpuMemWrStg0, AddrCountStg0
  <1>19. CpuMemRdStg1(d, 0) \/ PpuMemRdStg1(d, 0) => h.state \in MemRdStg1 /\ MemRd(d, 0)
    BY DEF CpuMemRdStg1, PpuMemRdStg1, MemRdStg1
  <1>20. CpuMemWrStg1(d) \/ PpuMemWrStg1(d) => h.state \in MemWrStg1 /\ MemWr(d)
    BY DEF CpuMemWrStg1, PpuMemWrStg1, MemWrStg1
  <1> QED
    BY <1>1, <1>8, <1>9, <1>10, <1>11, <1>12, <1>13, <1>14, <1>15, <1>16, <1>17,
       <1>18, <1>19, <1>20 DEF Step

\* A PPU_DISABLE begins in DECODE.
LEMMA OnlyDecodeDisables ==
    ASSUME NEW d, Defaulted(d), NEW brk, NEW din, Step(d, brk, din),
           h.state # "PPU_DISABLE", h'.state = "PPU_DISABLE"
    PROVE  Decode(d)
  <1>1. d \in HRegs /\ d.state = h.state
    BY DEF Defaulted
  <1>2. CASE Wait(d)
    BY <1>1, <1>2 DEF Wait
  <1>3. CASE Disabled(d, brk)
    BY <1>1, <1>3 DEF Disabled, Say, HRegs
  <1>4. CASE EchoStg0(d) \/ EchoStg1(d)
    BY <1>1, <1>4 DEF EchoStg0, EchoStg1, Execute, Done, Say, HRegs
  <1>5. CASE h.state \in AddrCountStg0 /\ \E scale : AddrCount(d, scale)
    <2> DEFINE e == [d EXCEPT !.decode_cnt = (@ + 1) % 8]
    <2>1. PICK c : h' \in {[e EXCEPT !.addr = rd_data],
                           [e EXCEPT !.addr = rd_data * Base + (@ % Base)],
                           [e EXCEPT !.execute_cnt = rd_data],
                           Execute(e, c, ExecuteState[h.state])}
      BY <1>5 DEF AddrCount
    <2>2. ExecuteState[h.state] # "PPU_DISABLE"
      BY <1>5 DEF ExecuteState, AddrCountStg0
    <2>3. Execute(e, c, ExecuteState[h.state]).state # "PPU_DISABLE"
      BY <1>1, <2>2 DEF Execute, HRegs
    <2> QED
      BY <1>1, <2>1, <2>3 DEF HRegs
  <1>6. CASE CpuMemRdStg1(d, din) \/ PpuMemRdStg1(d, din)
             \/ CpuMemWrStg1(d) \/ PpuMemWrStg1(d)
    BY <1>1, <1>6 DEF CpuMemRdStg1, PpuMemRdStg1, CpuMemWrStg1, PpuMemWrStg1,
       MemRd, MemWr, Done, Say, HRegs
  <1>7. CASE CpuRegRd(d, din) \/ CpuRegWrStg0(d) \/ CpuRegWrStg1(d) \/ QueryErrCode(d)
    BY <1>1, <1>7 DEF CpuRegRd, CpuRegWrStg0, CpuRegWrStg1, QueryErrCode, Say, HRegs
  <1>8. CASE CartSetCfgStg0(d) \/ CartSetCfgStg1(d)
    BY <1>1, <1>8 DEF CartSetCfgStg0, CartSetCfgStg1, HRegs
  <1>9. CpuMemRdStg0(d) \/ PpuMemRdStg0(d) \/ CpuMemWrStg0(d) \/ PpuMemWrStg0(d) =>
             h.state \in AddrCountStg0 /\ \E scale : AddrCount(d, scale)
    BY DEF CpuMemRdStg0, PpuMemRdStg0, CpuMemWrStg0, PpuMemWrStg0, AddrCountStg0
  <1> QED
    BY <1>2, <1>3, <1>4, <1>5, <1>6, <1>7, <1>8, <1>9 DEF Step, PpuDisable

LEMMA DisablingStep ==
    ASSUME IInv, BusInv, Orderly, OffPpu, HostInv, Clock
    PROVE  /\ Disabling'
           /\ h.state = "PPU_DISABLE" /\ h'.state = "DECODE" =>
                 ~ri'.nvbl_en /\ ~ri'.rendering /\ ~ri'.byte_sel
  <1> DEFINE d == Default(FALSE)
             n == h.decode_cnt
  <1>1. Defaulted(d) /\ Step(d, brk_out, 0) /\ d \in HRegs /\ d.state = h.state
        /\ d.decode_cnt = n /\ d.addr = h.addr
    BY DefaultOK DEF Clock, Edge, IInv, Defaulted
  <1>2. Ppu!PpuClock(cpumc, FALSE) /\ RiTypes(ri)
    BY DEF Clock, BusInv, BusTypes
  <1> HIDE DEF d
  <1>3. CASE h.state = "PPU_DISABLE"
    <2>1. PpuDisable(d) /\ n \in 0 .. 5
      <3>1. n \in 0 .. 5
        BY <1>3 DEF IInv, HInv, HRegs, CountsLive
      <3>2. h.state \notin ByteStates \cup MemRdStg1 \cup MemWrStg1 \cup AddrCountStg0
        BY <1>3 DEF ByteStates, MemRdStg1, MemWrStg1, AddrCountStg0
      <3> QED
        BY <1>1, <1>3, <3>1, <3>2 DEF Step, Wait, Disabled, Decode, EchoStg0, EchoStg1,
           CpuMemRdStg0, CpuMemRdStg1, CpuMemWrStg0, CpuMemWrStg1, PpuMemRdStg0, PpuMemRdStg1,
           PpuMemWrStg0, PpuMemWrStg1, CpuRegRd, CpuRegWrStg0, CpuRegWrStg1, QueryErrCode,
           CartSetCfgStg0, CartSetCfgStg1
    <2>2. cpumc = HciCycle /\ active
      BY <1>3 DEF cpumc, active
    <2>3. CpuWrites <=> n \in {1, 3}
      BY <1>3 DEF CpuWrites
    <2>4. cpu_dout = 0
      BY <1>3 DEF cpu_dout
    <2> DEFINE e == [d EXCEPT !.decode_cnt = (@ + 1) % 8]
    <2>5. e \in HRegs /\ e.state = "PPU_DISABLE" /\ e.decode_cnt = n + 1
      <3>1. \A k \in 0 .. 7 : [d EXCEPT !.decode_cnt = k] \in HRegs
        BY <1>1 DEF HRegs
      <3>2. (d.decode_cnt + 1) % 8 \in 0 .. 7 /\ (d.decode_cnt + 1) % 8 = n + 1
        BY <1>1, <2>1
      <3>3. e \in HRegs
        BY <3>1, <3>2
      <3> QED
        BY <1>1, <1>3, <3>2, <3>3 DEF HRegs
    <2>6. CASE n \in {0, 2, 4}
      <3>1. h' = [e EXCEPT !.addr = PpuReg(n \div 2)]
        BY <2>1, <2>6 DEF PpuDisable, e
      <3> HIDE DEF e
      <3>2. h'.state = "PPU_DISABLE" /\ h'.decode_cnt = n + 1 /\ h'.addr = PpuReg(n \div 2)
        BY <2>5, <3>1 DEF HRegs
      <3>3. n \div 2 = (n + 1) \div 2 /\ n + 1 \in {1, 3, 5}
        BY <2>6
      <3>4. cpumc.ncs
        <4>1. ~InPpu(0)
          BY EighthOK, BytesInRanges DEF OffPpu
        <4>2. ~InPpu(h.addr)
          BY <1>3, <2>6, <4>1 DEF HostInv, Disabling
        <4> QED
          BY <2>2, <4>2 DEF HciCycle
      <3>5. ~Ppu!Evaluates(cpumc)
        BY <3>4 DEF Ppu!Evaluates
      <3>6. ri'.nvbl_en = ri.nvbl_en /\ ri'.rendering = ri.rendering /\ ri'.ncs_in
        BY <1>2, <3>4, <3>5, QuietPpu
      <3>7. /\ n >= 2 => ~ri.nvbl_en
            /\ n >= 4 => ~ri.rendering
        BY <1>3 DEF HostInv, Disabling
      <3>8. /\ n + 1 >= 2 => n >= 2
            /\ n + 1 >= 4 => n >= 4
        BY <2>6
      <3> QED
        BY <3>2, <3>3, <3>6, <3>7, <3>8 DEF Disabling
    <2>7. CASE n \in {1, 3, 5}
      <3>1. ri.ncs_in /\ h.addr = PpuReg(n \div 2)
        BY <1>3, <2>7 DEF HostInv, Disabling
      <3>2. n \div 2 \in 0 .. 2 /\ n \div 2 = IF n = 1 THEN 0 ELSE IF n = 3 THEN 1 ELSE 2
        BY <2>7
      <3>3. InPpu(h.addr) /\ h.addr % 8 = n \div 2
        BY <3>1, <3>2, EighthOK DEF OffPpu
      <3>4. /\ ~cpumc.ncs /\ cpumc.sel = n \div 2 /\ (cpumc.r_nw <=> n = 5)
            /\ n # 5 => cpumc.d = Byte(n \div 2, 0)
        <4>1. /\ HciCycle.ncs = ~InPpu(h.addr) /\ HciCycle.sel = h.addr % 8
              /\ HciCycle.r_nw = ~CpuWrites
              /\ HciCycle.d = Byte(h.addr % 8, IF CpuWrites THEN cpu_dout ELSE 0)
          BY DEF HciCycle
        <4>2. HciCycle.d = Byte(n \div 2, 0)
          BY <2>4, <3>3, <4>1
        <4>3. ~CpuWrites <=> n = 5
          BY <2>3, <2>7
        <4> QED
          BY <2>2, <3>3, <4>1, <4>2, <4>3
      <3>5. Ppu!Evaluates(cpumc)
        BY <3>1, <3>4 DEF Ppu!Evaluates
      <3>6. /\ n = 1 => ~ri'.nvbl_en
            /\ n = 3 => ~ri'.rendering /\ ri'.nvbl_en = ri.nvbl_en
            /\ n = 5 => /\ ~ri'.byte_sel
                        /\ ri'.nvbl_en = ri.nvbl_en /\ ri'.rendering = ri.rendering
        <4>1. n = 1 => cpumc.sel = 0 /\ ~cpumc.r_nw /\ cpumc.d.nmi = FALSE
          <5>1. Byte(0, 0).nmi = FALSE
            BY DEF Byte
          <5> QED
            BY <3>2, <3>4, <5>1
        <4>2. n = 3 => cpumc.sel = 1 /\ ~cpumc.r_nw /\ cpumc.d = 0
          BY <3>2, <3>4 DEF Byte
        <4>3. n = 5 => cpumc.sel = 2 /\ cpumc.r_nw
          BY <3>2, <3>4
        <4> QED
          BY <1>2, <3>5, <4>1, <4>2, <4>3, DisablingAccess
      <3>7. /\ n >= 2 => ~ri.nvbl_en
            /\ n >= 4 => ~ri.rendering
        BY <1>3 DEF HostInv, Disabling
      <3>8. CASE n = 5
        <4>1. h' = [e EXCEPT !.addr = 0, !.state = "DECODE"]
          BY <2>1, <3>8 DEF PpuDisable, e
        <4> HIDE DEF e
        <4>2. h'.state = "DECODE"
          BY <2>5, <4>1 DEF HRegs
        <4> QED
          BY <3>6, <3>7, <3>8, <4>2 DEF Disabling
      <3>9. CASE n \in {1, 3}
        <4>1. h' = [e EXCEPT !.addr = 0]
          BY <2>1, <3>9 DEF PpuDisable, e
        <4> HIDE DEF e
        <4>2. h'.state = "PPU_DISABLE" /\ h'.decode_cnt = n + 1 /\ h'.addr = 0
          BY <2>5, <4>1 DEF HRegs
        <4>3. h'.decode_cnt \in {2, 4} /\ (h'.decode_cnt >= 4 => n = 3)
          BY <3>9, <4>2
        <4>4. ~ri'.nvbl_en /\ (n = 3 => ~ri'.rendering)
          BY <3>6, <3>7, <3>9
        <4> QED
          BY <4>2, <4>3, <4>4 DEF Disabling
      <3> QED
        BY <2>7, <3>8, <3>9
    <2> QED
      BY <2>1, <2>6, <2>7
  <1>4. CASE h.state # "PPU_DISABLE" /\ h'.state = "PPU_DISABLE"
    <2>1. Decode(d)
      BY <1>1, <1>4, OnlyDecodeDisables
    <2>2. h'.decode_cnt = 0 /\ h'.addr = h.addr
      <3>1. CASE /\ rd_data \in DOMAIN DecodeTo
                 /\ h' = [d EXCEPT !.decode_cnt = 0, !.state = DecodeTo[rd_data]]
        BY <1>1, <3>1 DEF HRegs
      <3>2. CASE h' \in {Say([d EXCEPT !.decode_cnt = 0], 1),
                         [[d EXCEPT !.decode_cnt = 0] EXCEPT !.err_code = WithUnknown(@)]}
        BY <1>1, <3>2 DEF HRegs, Say
      <3> QED
        BY <2>1, <3>1, <3>2 DEF Decode
    <2>3. ~InPpu(h.addr)
      BY <1>4 DEF HostInv, Addressing
    <2> QED
      BY <1>4, <2>2, <2>3 DEF Disabling
  <1> QED
    BY <1>3, <1>4 DEF Disabling

\* What a packet about PPU memory leaves to the PPU's registers: their own course.
LEMMA PpuMemStep ==
    ASSUME IInv, BusInv, OffPpu, HostInv, Clock,
           h.state \in {"PPU_MEM_RD_STG_0", "PPU_MEM_RD_STG_1",
                        "PPU_MEM_WR_STG_0", "PPU_MEM_WR_STG_1"}
    PROVE  /\ cntrs' = IF ri.upd_cntrs THEN Ppu!Latches(ri) ELSE cntrs
           /\ ri'.byte_sel = ri.byte_sel /\ ri'.cpu_d_out = ri.cpu_d_out
  <1>1. cpumc = HciCycle
    BY DEF cpumc, active
  <1>2. ~InPpu(h.addr)
    BY DEF HostInv, Addressing
  <1>3. cpumc.ncs
    BY <1>1, <1>2 DEF HciCycle
  <1>4. ~Ppu!Evaluates(cpumc)
    BY <1>3 DEF Ppu!Evaluates
  <1>5. Ppu!PpuClock(cpumc, FALSE) /\ RiTypes(ri)
    BY DEF Clock, BusInv, BusTypes
  <1> QED
    BY <1>4, <1>5, QuietPpu

LEMMA HostInductive ==
    ASSUME Orderly, OffPpu
    PROVE  Spec => [](IInv /\ BusInv /\ HostInv)
  <1>1. Init => HostInv
    <2> SUFFICES ASSUME Init PROVE HostInv
      OBVIOUS
    <2>1. h.state = "DECODE" /\ h.addr = 0
      BY DEF Init, HciInit, ResetRegs
    <2>2. ~InPpu(0)
      BY EighthOK, BytesInRanges DEF OffPpu
    <2>3. h.state \notin AddrCountStg0 \cup MemRdStg1 \cup MemWrStg1
      BY <2>1 DEF AddrCountStg0, MemRdStg1, MemWrStg1
    <2> QED
      BY <2>1, <2>2, <2>3 DEF HostInv, Addressing, Disabling
  <1>2. IInv /\ BusInv /\ HostInv /\ [Next]_busVars => HostInv'
    <2> SUFFICES ASSUME IInv, BusInv, HostInv, [Next]_busVars PROVE HostInv'
      OBVIOUS
    <2>1. CASE Clock
      BY <2>1, AddressingStep, DisablingStep DEF HostInv, BusInv
    <2>2. CASE UNCHANGED busVars
      BY <2>2 DEF HostInv, Addressing, Disabling, HeaderByte, busVars, hciVars
    <2> QED
      BY <2>1, <2>2 DEF Next
  <1>3. Init => IInv /\ BusInv
    BY BusInit
  <1>4. IInv /\ BusInv /\ [Next]_busVars => (IInv /\ BusInv)'
    BY BusNext
  <1> QED
    BY <1>1, <1>2, <1>3, <1>4, PTL DEF Spec

\* A PPU_DISABLE packet leaves the PPU with interrupt and rendering off and the
\* next byte of 0x2005 and 0x2006 a first one, as long as no packet is
\* about its registers.
THEOREM DisablePacketWorks ==
    ASSUME Orderly, OffPpu
    PROVE  Spec => DisableDisables
  <1>1. IInv /\ BusInv /\ HostInv /\ [Next]_busVars =>
            [h.state = "PPU_DISABLE" /\ h'.state = "DECODE" =>
                ~ri'.nvbl_en /\ ~ri'.rendering /\ ~ri'.byte_sel]_busVars
    BY DisablingStep DEF Next
  <1> QED
    BY <1>1, HostInductive, PTL DEF Spec, DisableDisables

\* A packet that reads or writes PPU memory leaves the PPU's registers and counters
\* alone, though the interpreter drives the CPU's address bus meanwhile.
THEOREM PpuMemPacketsApart ==
    ASSUME Orderly, OffPpu
    PROVE  Spec => PpuMemLeavesRegs
  <1>1. IInv /\ BusInv /\ HostInv /\ [Next]_busVars =>
            [h.state \in {"PPU_MEM_RD_STG_0", "PPU_MEM_RD_STG_1",
                          "PPU_MEM_WR_STG_0", "PPU_MEM_WR_STG_1"} =>
                /\ cntrs' = IF ri.upd_cntrs THEN Ppu!Latches(ri) ELSE cntrs
                /\ ri'.byte_sel = ri.byte_sel /\ ri'.cpu_d_out = ri.cpu_d_out]_busVars
    BY PpuMemStep DEF Next
  <1> QED
    BY <1>1, HostInductive, PTL DEF Spec, PpuMemLeavesRegs

=============================================================================
