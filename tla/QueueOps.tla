------------------------------ MODULE QueueOps ------------------------------
(***************************************************************************)
(* One clock cycle of a FIFO of cmn/fifo/fifo.v as an operator on a record: *)
(* the entries and the two flag registers.  Module FlagQueue makes it a     *)
(* specification that Fifo implements; the composed specifications apply it *)
(* to the two buffers of the UART.                                          *)
(***************************************************************************)
EXTENDS Naturals, Sequences

EmptyQueue == [items |-> <<>>, empty |-> TRUE, full |-> FALSE]

\* Both requests are judged by the flags as they stood when the cycle began.
QueueCycle(q, rd_en, wr_en, wr_data, depth) ==
    LET pop  == rd_en /\ ~q.empty
        push == wr_en /\ ~q.full
        rest == IF pop THEN Tail(q.items) ELSE q.items
    IN  [items |-> IF push THEN Append(rest, wr_data) ELSE rest,
         empty |-> \/ q.empty /\ ~push
                   \/ Len(q.items) = 1 /\ pop,
         full  |-> \/ q.full /\ ~pop
                   \/ Len(q.items) = depth - 1 /\ push]

\* The flags say what the queue holds.
QueueFlagsExact(q, depth) ==
    /\ q.empty <=> q.items = <<>>
    /\ q.full  <=> Len(q.items) = depth
=============================================================================
