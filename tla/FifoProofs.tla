----------------------------- MODULE FifoProofs -----------------------------
(***************************************************************************)
(* Proofs about the buffer of fifo.v, for every word set and every depth.   *)
(*                                                                         *)
(* FlagsSafe is not inductive: it says nothing of where the pointers stand  *)
(* when a flag is up.  PointersAgree adds that, and with TypeOK is.         *)
(***************************************************************************)
EXTENDS Fifo, TLAPS

PointersAgree ==
    /\ q_wr_ptr = q_rd_ptr => (q_empty <=> ~q_full)
    /\ q_empty => q_wr_ptr = q_rd_ptr \/ q_wr_ptr = Inc(q_rd_ptr)
    /\ q_full  => q_wr_ptr = q_rd_ptr \/ q_rd_ptr = Inc(q_wr_ptr)

IInv == TypeOK /\ PointersAgree

-----------------------------------------------------------------------------
\* Moving a pointer keeps it within its width (q_rd_ptr + 1, q_wr_ptr + 1).
LEMMA IncInSlots == ASSUME NEW p \in Slots PROVE Inc(p) \in Slots
  BY DepthAssumption, SMT DEF Slots, Inc

\* The number of entries is between none and every slot (q_rd_ptr, q_wr_ptr).
LEMMA CountRange == IInv => Count \in 0 .. Depth
  BY DepthAssumption, SMT DEF IInv, TypeOK, PointersAgree, Count, Slots, Diff

\* Reset leaves the buffer empty with both pointers at the first slot.
LEMMA InitIInv == Init => IInv
  <1>1. 0 \in Slots
    BY DepthAssumption DEF Slots
  <1>2. Init => TypeOK
    BY <1>1 DEF Init, TypeOK
  <1>3. Init => PointersAgree
    BY DEF Init, PointersAgree
  <1>4. QED  BY <1>2, <1>3 DEF IInv

\* No step separates the flags from the pointers.
LEMMA NextIInv == IInv /\ [Next]_vars => IInv'
  <1> SUFFICES ASSUME IInv, [Next]_vars PROVE IInv'
    OBVIOUS
  <1> USE DepthAssumption
  <1>1. CASE Reset
    <2>1. 0 \in Slots
      BY DEF Slots
    <2>2. TypeOK'
      BY <1>1, <2>1 DEF IInv, TypeOK, Reset
    <2>3. PointersAgree'
      BY <1>1 DEF PointersAgree, Reset
    <2>4. QED  BY <2>2, <2>3 DEF IInv
  <1>2. ASSUME NEW rd_en \in BOOLEAN, NEW wr_en \in BOOLEAN, NEW wr_data \in Data,
               Clock(rd_en, wr_en, wr_data)
        PROVE  IInv'
    <2>1. TypeOK'
      <3>1. q_rd_ptr' \in Slots /\ q_wr_ptr' \in Slots
        BY <1>2, IncInSlots DEF IInv, TypeOK, Clock
      <3>2. q_empty' \in BOOLEAN /\ q_full' \in BOOLEAN
        BY <1>2 DEF IInv, TypeOK, Clock, d_empty, d_full
      <3>3. q_data_array' \in [Slots -> Data]
        BY <1>2 DEF IInv, TypeOK, Clock
      <3>4. QED  BY <3>1, <3>2, <3>3 DEF TypeOK
    <2>2. PointersAgree'
      <3> USE <1>2 DEF IInv, TypeOK, PointersAgree, Clock, d_empty, d_full,
                       rd_en_prot, wr_en_prot, Slots, Inc, Diff
      <3>1. CASE rd_en_prot(rd_en) /\ wr_en_prot(wr_en)
        BY <3>1, SMT
      <3>2. CASE rd_en_prot(rd_en) /\ ~wr_en_prot(wr_en)
        BY <3>2, SMT
      <3>3. CASE ~rd_en_prot(rd_en) /\ wr_en_prot(wr_en)
        BY <3>3, SMT
      <3>4. CASE ~rd_en_prot(rd_en) /\ ~wr_en_prot(wr_en)
        BY <3>4, SMT
      <3>5. QED  BY <3>1, <3>2, <3>3, <3>4
    <2>3. QED  BY <2>1, <2>2 DEF IInv
  <1>3. CASE UNCHANGED vars
    BY <1>3 DEF IInv, TypeOK, PointersAgree, vars, Inc
  <1>4. QED  BY <1>1, <1>2, <1>3 DEF Next

-----------------------------------------------------------------------------
\* Every register of the buffer keeps to its width.
THEOREM TypeCorrect == Spec => []TypeOK
  <1>1. IInv => TypeOK  BY DEF IInv
  <1>2. QED  BY <1>1, InitIInv, NextIInv, PTL DEF Spec

\* A read or write that is let through finds an entry or a free slot.
THEOREM FlagsNeverTooLow == Spec => []FlagsSafe
  <1>1. IInv => FlagsSafe
    BY DepthAssumption, SMT
       DEF IInv, TypeOK, PointersAgree, FlagsSafe, Count, Slots, Diff
  <1>2. QED  BY <1>1, InitIInv, NextIInv, PTL DEF Spec

\* A flag that is up too often hides one entry, or withholds one slot, at most.
THEOREM FlagsHideAtMostOne == Spec => []FlagsOffByOne
  <1>1. IInv => FlagsOffByOne
    BY DepthAssumption, SMT
       DEF IInv, TypeOK, PointersAgree, FlagsOffByOne, Count, Slots, Diff, Inc
  <1>2. QED  BY <1>1, InitIInv, NextIInv, PTL DEF Spec

\* A client that keeps reads and writes apart never sees a wrong flag (d_empty,
\* d_full): a flag is up only while the pointers agree.
FlagsAtMeeting == q_empty \/ q_full => q_wr_ptr = q_rd_ptr

THEOREM ApartFlagsExact == SpecApart => []FlagsExact
  <1> DEFINE Inv == IInv /\ FlagsAtMeeting
  <1>1. Init => Inv
    BY InitIInv DEF Init, FlagsAtMeeting
  <1>2. Inv /\ [NextApart]_vars => Inv'
    <2> SUFFICES ASSUME Inv, [NextApart]_vars PROVE Inv'
      OBVIOUS
    <2>1. IInv'
      BY NextIInv DEF NextApart, Next
    <2>2. CASE Reset
      BY <2>1, <2>2 DEF Reset, FlagsAtMeeting
    <2>3. ASSUME NEW rd_en \in BOOLEAN, NEW wr_en \in BOOLEAN, NEW wr_data \in Data,
                 ~(rd_en /\ wr_en), Clock(rd_en, wr_en, wr_data)
          PROVE  Inv'
      <3>1. FlagsAtMeeting'
        BY <2>3, DepthAssumption, SMT
           DEF IInv, TypeOK, PointersAgree, FlagsAtMeeting, Clock, d_empty, d_full,
               rd_en_prot, wr_en_prot, Slots, Inc, Diff
      <3>2. QED  BY <2>1, <3>1
    <2>4. CASE UNCHANGED vars
      BY <2>1, <2>4 DEF vars, FlagsAtMeeting
    <2>5. QED  BY <2>2, <2>3, <2>4 DEF NextApart
  <1>3. Inv => FlagsExact
    BY DepthAssumption, SMT
       DEF IInv, TypeOK, PointersAgree, FlagsAtMeeting, FlagsExact, EmptyFlagExact,
           FullFlagExact, Count, Slots, Diff
  <1>4. QED  BY <1>1, <1>2, <1>3, PTL DEF SpecApart

-----------------------------------------------------------------------------
(* The buffer implements FlagQueue.  The abstract queue is a function of    *)
(* the pointers and the array, so a step is compared entry by entry.        *)

\* Two sequences of one length that agree everywhere are equal.
LEMMA SequencesEqual ==
  ASSUME NEW S, NEW s \in Seq(S), NEW t \in Seq(S), Len(s) = Len(t),
         \A i \in 1 .. Len(s) : s[i] = t[i]
  PROVE  s = t
  OBVIOUS

\* The abstract queue: its length is Count, its entries lie between the pointers.
ContentsRight ==
    /\ Contents \in Seq(Data)
    /\ Len(Contents) = Count
    /\ Count \in 0 .. Depth
    /\ \A i \in 1 .. Count :
          /\ Slot(q_rd_ptr, i - 1) \in Slots
          /\ Contents[i] = q_data_array[Slot(q_rd_ptr, i - 1)]

\* Contents is well defined wherever the pointers agree with the flags.
LEMMA ContentsSeq == IInv => ContentsRight
  <1> SUFFICES ASSUME IInv PROVE ContentsRight
    OBVIOUS
  <1> USE DepthAssumption
  <1>1. Count \in 0 .. Depth
    BY CountRange
  <1>2. \A i \in 1 .. Count : Slot(q_rd_ptr, i - 1) \in Slots
    BY <1>1, SMT DEF IInv, TypeOK, Slot, Slots
  <1>3. \A i \in 1 .. Count : q_data_array[Slot(q_rd_ptr, i - 1)] \in Data
    BY <1>2 DEF IInv, TypeOK
  <1>4. Count \in Nat
    BY <1>1
  <1>5. Contents \in [1 .. Count -> Data]
    BY <1>3 DEF Contents
  <1>6. QED  BY <1>1, <1>2, <1>4, <1>5 DEF Contents, ContentsRight

\* What a cycle does to the number of entries.
LEMMA CountStep ==
  ASSUME IInv, NEW rd_en \in BOOLEAN, NEW wr_en \in BOOLEAN, NEW wr_data \in Data,
         Clock(rd_en, wr_en, wr_data)
  PROVE  /\ rd_en_prot(rd_en) => Count > 0
         /\ wr_en_prot(wr_en) => Count < Depth
         /\ Count' = (IF rd_en_prot(rd_en) THEN Count - 1 ELSE Count)
                      + (IF wr_en_prot(wr_en) THEN 1 ELSE 0)
         /\ Count = 1 <=> Diff(q_wr_ptr, q_rd_ptr) = 1
         /\ Count = Depth - 1 <=> Diff(q_rd_ptr, q_wr_ptr) = 1
  <1> USE DepthAssumption
  <1>1. rd_en_prot(rd_en) => Count > 0
    BY SMT DEF IInv, TypeOK, PointersAgree, Count, Slots, Diff, rd_en_prot
  <1>2. wr_en_prot(wr_en) => Count < Depth
    BY SMT DEF IInv, TypeOK, PointersAgree, Count, Slots, Diff, wr_en_prot
  <1>3. /\ Count = 1 <=> Diff(q_wr_ptr, q_rd_ptr) = 1
        /\ Count = Depth - 1 <=> Diff(q_rd_ptr, q_wr_ptr) = 1
    BY SMT DEF IInv, TypeOK, PointersAgree, Count, Slots, Diff
  <1>4. Count' = (IF rd_en_prot(rd_en) THEN Count - 1 ELSE Count)
                 + (IF wr_en_prot(wr_en) THEN 1 ELSE 0)
    <2> USE DEF IInv, TypeOK, PointersAgree, Count, Slots, Diff, Inc, Clock,
                d_full, rd_en_prot, wr_en_prot
    <2>1. CASE rd_en_prot(rd_en) /\ wr_en_prot(wr_en)    BY <2>1, SMT
    <2>2. CASE rd_en_prot(rd_en) /\ ~wr_en_prot(wr_en)   BY <2>2, SMT
    <2>3. CASE ~rd_en_prot(rd_en) /\ wr_en_prot(wr_en)   BY <2>3, SMT
    <2>4. CASE ~rd_en_prot(rd_en) /\ ~wr_en_prot(wr_en)  BY <2>4, SMT
    <2>5. QED  BY <2>1, <2>2, <2>3, <2>4
  <1>5. QED  BY <1>1, <1>2, <1>3, <1>4


\* Where a slot sits after the pointers moved.
LEMMA SlotStep ==
  ASSUME NEW p \in Slots, NEW i \in 0 .. Depth - 1
  PROVE  /\ Slot(p, i) \in Slots
         /\ i + 1 < Depth => Slot(Inc(p), i) = Slot(p, i + 1)
         /\ \A j \in 0 .. Depth - 1 : Slot(p, i) = Slot(p, j) => i = j
  BY DepthAssumption, SMT DEF Slots, Slot, Inc

\* The writer's pointer is Count slots ahead of the reader's.
LEMMA WriteSlot == IInv /\ Count < Depth => q_wr_ptr = Slot(q_rd_ptr, Count)
  BY DepthAssumption, SMT
     DEF IInv, TypeOK, PointersAgree, Count, Slots, Diff, Slot

\* The cycle at register level is the cycle of the abstract queue.
LEMMA ClockRefines ==
  ASSUME IInv, IInv', NEW rd_en \in BOOLEAN, NEW wr_en \in BOOLEAN,
         NEW wr_data \in Data, Clock(rd_en, wr_en, wr_data)
  PROVE  Queue!Cycle(rd_en, wr_en, wr_data)
  <1> USE DepthAssumption
  <1> DEFINE rest == IF rd_en_prot(rd_en) THEN Tail(Contents) ELSE Contents
             next == IF wr_en_prot(wr_en) THEN Append(rest, wr_data) ELSE rest
  <1>1. ContentsRight
    BY ContentsSeq
  <1>2. ContentsRight'
    BY ContentsSeq, PTL
  <1>3. /\ rd_en_prot(rd_en) => Count > 0
        /\ wr_en_prot(wr_en) => Count < Depth
        /\ Count' = (IF rd_en_prot(rd_en) THEN Count - 1 ELSE Count)
                     + (IF wr_en_prot(wr_en) THEN 1 ELSE 0)
        /\ Count = 1 <=> Diff(q_wr_ptr, q_rd_ptr) = 1
        /\ Count = Depth - 1 <=> Diff(q_rd_ptr, q_wr_ptr) = 1
    BY CountStep
  <1>4. /\ rest \in Seq(Data)
        /\ Len(rest) = IF rd_en_prot(rd_en) THEN Count - 1 ELSE Count
        /\ \A i \in 1 .. Len(rest) :
              rest[i] = q_data_array[Slot(q_rd_ptr', i - 1)]
    <2>1. CASE rd_en_prot(rd_en)
      <3>1. /\ rest \in Seq(Data)  /\ Len(rest) = Count - 1
            /\ \A i \in 1 .. Len(rest) : rest[i] = Contents[i + 1]
        BY <2>1, <1>1, <1>3 DEF ContentsRight
      <3>2. q_rd_ptr' = Inc(q_rd_ptr) /\ q_rd_ptr \in Slots
        BY <2>1 DEF Clock, IInv, TypeOK
      <3>3. ASSUME NEW i \in 1 .. Len(rest)
            PROVE  rest[i] = q_data_array[Slot(q_rd_ptr', i - 1)]
        <4>1. Slot(Inc(q_rd_ptr), i - 1) = Slot(q_rd_ptr, i)
          BY <3>1, <3>2, <1>1, SlotStep DEF ContentsRight
        <4>2. Contents[i + 1] = q_data_array[Slot(q_rd_ptr, i)]
          BY <3>1, <1>1 DEF ContentsRight
        <4>3. QED  BY <4>1, <4>2, <3>1, <3>2
      <3>4. QED  BY <2>1, <3>1, <3>3
    <2>2. CASE ~rd_en_prot(rd_en)
      BY <2>2, <1>1 DEF ContentsRight, Clock
    <2>3. QED  BY <2>1, <2>2
  <1>5. next = Contents'
    <2>1. CASE wr_en_prot(wr_en)
      <3>1. /\ next \in Seq(Data)  /\ Len(next) = Len(rest) + 1
            /\ \A i \in 1 .. Len(rest) : next[i] = rest[i]
            /\ next[Len(rest) + 1] = wr_data
        BY <2>1, <1>4
      <3>2. Len(next) = Count'
        BY <2>1, <3>1, <1>3, <1>4
      <3>3. /\ q_wr_ptr = Slot(q_rd_ptr, Count)
            /\ q_wr_ptr \in Slots /\ q_rd_ptr \in Slots
        BY <2>1, <1>3, WriteSlot DEF IInv, TypeOK
      <3>4. Slot(q_rd_ptr', Len(rest)) = q_wr_ptr
        BY <3>3, <1>3, <1>4, <1>1, SlotStep, <2>1 DEF Clock, ContentsRight
      <3>5. ASSUME NEW i \in 1 .. Len(next)
            PROVE  next[i] = q_data_array'[Slot(q_rd_ptr', i - 1)]
        <4>1. q_data_array' = [q_data_array EXCEPT ![q_wr_ptr] = wr_data]
          BY <2>1 DEF Clock
        <4>2. q_rd_ptr' \in Slots /\ q_data_array \in [Slots -> Data]
          BY DEF IInv, TypeOK
        <4>3. CASE i = Len(rest) + 1
          BY <4>1, <4>2, <4>3, <3>1, <3>3, <3>4, <1>4, <1>1 DEF ContentsRight
        <4>4. CASE i # Len(rest) + 1
          <5>1. i \in 1 .. Len(rest) /\ Len(rest) \in 0 .. Depth - 1
            BY <4>4, <3>1, <1>1, <1>3, <1>4, <2>1 DEF ContentsRight
          <5>2. Slot(q_rd_ptr', i - 1) # q_wr_ptr
            BY <5>1, <4>2, <3>4, SlotStep
          <5>3. Slot(q_rd_ptr', i - 1) \in Slots
            BY <5>1, <4>2, SlotStep
          <5>4. QED  BY <5>1, <5>2, <5>3, <4>1, <4>2, <3>1, <1>4
        <4>5. QED  BY <4>3, <4>4
      <3> HIDE DEF next
      <3>6. /\ Contents' \in Seq(Data)  /\ Len(next) = Len(Contents')
            /\ \A i \in 1 .. Len(next) : next[i] = Contents'[i]
        BY <3>2, <3>5, <1>2 DEF ContentsRight
      <3>7. QED  BY <3>1, <3>6, SequencesEqual
    <2>2. CASE ~wr_en_prot(wr_en)
      <3>1. q_data_array' = q_data_array /\ next = rest
        BY <2>2 DEF Clock
      <3>2. Len(next) = Count'
        BY <2>2, <3>1, <1>3, <1>4
      <3>3. /\ next \in Seq(Data)
            /\ Contents' \in Seq(Data)  /\ Len(next) = Len(Contents')
            /\ \A i \in 1 .. Len(next) : next[i] = Contents'[i]
        BY <3>1, <3>2, <1>2, <1>4 DEF ContentsRight
      <3> HIDE DEF next
      <3>4. QED  BY <3>3, SequencesEqual
    <2>3. QED  BY <2>1, <2>2
  <1>6. QED
    BY <1>1, <1>3, <1>5
       DEF ContentsRight, Queue!Cycle, Queue!Becomes, Queue!Now, Queue!QueueCycle,
           Clock, d_empty, d_full, rd_en_prot, wr_en_prot


\* The buffer of fifo.v is the queue with flags its clients are modelled with.
THEOREM ImplementsFlagQueue == Spec => QueueSpec
  <1>1. Init => Queue!Init
    BY DEF Init, Queue!Init, Contents, Count
  <1>2. IInv /\ IInv' /\ [Next]_vars => [Queue!Next]_Queue!vars
    <2> SUFFICES ASSUME IInv, IInv', [Next]_vars
                 PROVE  Queue!Next \/ UNCHANGED Queue!vars
      OBVIOUS
    <2>1. CASE Reset
      <3>1. Contents' = <<>> /\ q_empty' = TRUE /\ q_full' = FALSE
        BY <2>1 DEF Reset, Contents, Count
      <3>2. QED
        BY <3>1 DEF Queue!Next, Queue!Clear, Queue!Becomes, Queue!EmptyQueue
    <2>2. ASSUME NEW rd_en \in BOOLEAN, NEW wr_en \in BOOLEAN,
                 NEW wr_data \in Data, Clock(rd_en, wr_en, wr_data)
          PROVE  Queue!Next
      BY <2>2, ClockRefines DEF Queue!Next
    <2>3. CASE UNCHANGED vars
      BY <2>3 DEF vars, Queue!vars, Contents, Count, Slot
    <2>4. QED  BY <2>1, <2>2, <2>3 DEF Next
  <1>3. QED
    BY <1>1, <1>2, InitIInv, NextIInv, PTL DEF Spec, QueueSpec, Queue!Spec

=============================================================================
