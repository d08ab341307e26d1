------------------------------- MODULE MCUart -------------------------------
(***************************************************************************)
(* Uart for TLC.  Two data bits tell bit order, the parity of no, one and    *)
(* two ones, and the complement of bit 0 apart; four ticks per bit put the  *)
(* sampling point strictly inside a bit.                                    *)
(***************************************************************************)
EXTENDS Uart
=============================================================================
