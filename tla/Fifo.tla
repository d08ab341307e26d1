-------------------------------- MODULE Fifo --------------------------------
(***************************************************************************)
(* The circular buffer of cmn/fifo/fifo.v, one step per clock edge.  Two of *)
(* them sit between the debug UART and the host command interpreter.  The   *)
(* empty and full flags are registers of their own, computed from the       *)
(* requests of the cycle and the distance of the pointers.                  *)
(*                                                                         *)
(* Abstraction: the width of a word is the set Data; Depth is 2**ADDR_BITS  *)
(* and pointer arithmetic, modulo the pointer's width in the code, is       *)
(* modulo Depth.                                                            *)
(***************************************************************************)
EXTENDS Naturals, Sequences

CONSTANTS Data, Depth

\* ADDR_BITS is at least 2 (3 wherever the code uses the block): with two slots
\* a read and a write in one cycle could raise both flags for good.
ASSUME DepthAssumption == Depth \in Nat /\ Depth >= 3

VARIABLES q_rd_ptr, q_wr_ptr, q_empty, q_full, q_data_array

vars == <<q_rd_ptr, q_wr_ptr, q_empty, q_full, q_data_array>>

Slots == 0 .. Depth - 1

\* Mutated form of Inc (see the note on mutated forms below).
IncNoWrap(p) == p + 1

Inc(p)     == IF p = Depth - 1 THEN 0 ELSE p + 1
Diff(p, r) == IF p >= r THEN p - r ELSE (p + Depth) - r
Slot(p, i) == IF p + i < Depth THEN p + i ELSE (p + i) - Depth

-----------------------------------------------------------------------------
(* Mutated forms of definitions below: plausible slips in this file that the *)
(* properties must notice.  The specification uses none of them.            *)
WriteUnprotected(wr_en) == wr_en
EmptyNotHeld(rd_en, wr_en) ==
    Diff(q_wr_ptr, q_rd_ptr) = 1 /\ rd_en /\ ~q_empty
EmptyNeedsRead(rd_en, wr_en) ==
    \/ q_empty
    \/ Diff(q_wr_ptr, q_rd_ptr) = 1 /\ rd_en
FullOneEarly(rd_en, wr_en) ==
    \/ q_full /\ ~(rd_en /\ ~q_empty)
    \/ Diff(q_rd_ptr, q_wr_ptr) = 2 /\ wr_en /\ ~q_full

-----------------------------------------------------------------------------
rd_en_prot(rd_en) == rd_en /\ ~q_empty
wr_en_prot(wr_en) == wr_en /\ ~q_full

d_empty(rd_en, wr_en) ==
    \/ q_empty /\ ~wr_en_prot(wr_en)
    \/ Diff(q_wr_ptr, q_rd_ptr) = 1 /\ rd_en_prot(rd_en)

d_full(rd_en, wr_en) ==
    \/ q_full /\ ~rd_en_prot(rd_en)
    \/ Diff(q_rd_ptr, q_wr_ptr) = 1 /\ wr_en_prot(wr_en)

rd_data == q_data_array[q_rd_ptr]

\* The data array has no reset: it starts with whatever the memory holds.
Init ==
    /\ q_rd_ptr = 0 /\ q_wr_ptr = 0
    /\ q_empty = TRUE /\ q_full = FALSE
    /\ q_data_array \in [Slots -> Data]

Reset ==
    /\ q_rd_ptr' = 0 /\ q_wr_ptr' = 0
    /\ q_empty' = TRUE /\ q_full' = FALSE
    /\ UNCHANGED q_data_array

Clock(rd_en, wr_en, wr_data) ==
    /\ q_rd_ptr' = IF rd_en_prot(rd_en) THEN Inc(q_rd_ptr) ELSE q_rd_ptr
    /\ q_wr_ptr' = IF wr_en_prot(wr_en) THEN Inc(q_wr_ptr) ELSE q_wr_ptr
    /\ q_empty' = d_empty(rd_en, wr_en)
    /\ q_full' = d_full(rd_en, wr_en)
    /\ q_data_array' = IF wr_en_prot(wr_en)
                       THEN [q_data_array EXCEPT ![q_wr_ptr] = wr_data]
                       ELSE q_data_array

Next == \/ Reset
        \/ \E rd_en, wr_en \in BOOLEAN, wr_data \in Data :
              Clock(rd_en, wr_en, wr_data)

Spec == Init /\ [][Next]_vars

\* A client that never reads and writes in the same cycle.
NextApart == \/ Reset
             \/ \E rd_en \in BOOLEAN, wr_data \in Data :
                   Clock(rd_en, FALSE, wr_data)
             \/ \E wr_data \in Data : Clock(FALSE, TRUE, wr_data)

SpecApart == Init /\ [][NextApart]_vars

-----------------------------------------------------------------------------
(* What the registers mean: the entries between the two pointers.           *)
Count == IF q_wr_ptr = q_rd_ptr THEN (IF q_full THEN Depth ELSE 0)
                                ELSE Diff(q_wr_ptr, q_rd_ptr)

Contents == [i \in 1 .. Count |-> q_data_array[Slot(q_rd_ptr, i - 1)]]

\* Every register within its width.
TypeOK ==
    /\ q_rd_ptr \in Slots /\ q_wr_ptr \in Slots
    /\ q_empty \in BOOLEAN /\ q_full \in BOOLEAN
    /\ q_data_array \in [Slots -> Data]

\* A read that is let through finds an entry, a write that is let through
\* finds a free slot, whatever the interleaving of requests: the flags may be
\* raised too often (see EmptyFlagExact) but never too seldom.  rd_en_prot and
\* wr_en_prot rely on it.
FlagsSafe ==
    /\ ~q_empty => Count > 0
    /\ ~q_full  => Count < Depth

\* The port comment of fifo.v, "FIFO is empty (reads invalid)": the empty flag
\* is raised exactly when no entry is held.
EmptyFlagExact == q_empty <=> Count = 0

\* The port comment of fifo.v, "FIFO is full (writes invalid)".
FullFlagExact == q_full <=> Count = Depth

\* Both flags are exact for a client that keeps reads and writes apart.
FlagsExact == EmptyFlagExact /\ FullFlagExact

\* The flags are wrong by at most one entry: a buffer that says empty hides at
\* most one, and one that says full lacks at most one.
FlagsOffByOne ==
    /\ q_empty => Count <= 1
    /\ q_full  => Count >= Depth - 1

\* A hidden entry is not lost: whatever write makes two entries of it, it is
\* the first of them and readable.
HiddenEntrySurfaces ==
    [][Count = 1 /\ Count' = 2 => ~q_empty' /\ rd_data' = rd_data]_vars

-----------------------------------------------------------------------------
(* The register-level buffer implements the queue with flags of FlagQueue,  *)
(* which the composed specifications use.                                   *)
Queue == INSTANCE FlagQueue WITH
            queue <- Contents, empty <- q_empty, full <- q_full

QueueSpec == Queue!Spec
=============================================================================
