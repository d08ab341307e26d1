------------------------------ MODULE FlagQueue ------------------------------
(***************************************************************************)
(* What the blocks around a FIFO of cmn/fifo/fifo.v rely on: a queue of at  *)
(* most Depth entries, kept in the order they were accepted, behind two     *)
(* flags that decide which requests are accepted.  The flags are not a      *)
(* function of the queue: a read of the only entry in a cycle that also     *)
(* writes raises empty although the entry just written is held, and a write *)
(* that leaves one slot in a cycle that also reads raises full.             *)
(***************************************************************************)
EXTENDS Naturals, Sequences, QueueOps

CONSTANTS Data, Depth

VARIABLES queue, empty, full

vars == <<queue, empty, full>>

Now == [items |-> queue, empty |-> empty, full |-> full]

Becomes(q) == queue' = q.items /\ empty' = q.empty /\ full' = q.full

-----------------------------------------------------------------------------
Init == queue = <<>> /\ empty = TRUE /\ full = FALSE

Clear == Becomes(EmptyQueue)

Cycle(rd_en, wr_en, wr_data) ==
    Becomes(QueueCycle(Now, rd_en, wr_en, wr_data, Depth))

Next == Clear \/ \E rd_en, wr_en \in BOOLEAN, wr_data \in Data :
                    Cycle(rd_en, wr_en, wr_data)

Spec == Init /\ [][Next]_vars
=============================================================================
