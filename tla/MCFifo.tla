------------------------------- MODULE MCFifo -------------------------------
(***************************************************************************)
(* Fifo for TLC: two different words are enough to see an entry lost,       *)
(* duplicated or out of order; four slots make full, one-below-full, one    *)
(* entry and empty four different situations.                               *)
(***************************************************************************)
EXTENDS Fifo
=============================================================================
