------------------------------- MODULE MCHci -------------------------------
(***************************************************************************)
(* Hci under an open environment for TLC.  Any opcode, and one that is      *)
(* none, may come where an opcode is read; a count is zero or two, so that   *)
(* queues stay small, and an address the last, so that it wraps.  At most    *)
(* Backlog bytes wait.  Resets, breaks, parity errors and the pace of the   *)
(* transmitter are unconstrained.                                           *)
(***************************************************************************)
EXTENDS Hci

CONSTANT Backlog

ReadsCount(digit) ==
    \/ h.state \in AddrCountStg0 /\ h.decode_cnt = 2 + digit
    \/ h.state = "ECHO_STG_0" /\ h.decode_cnt = digit

Offered == IF h.state \in {"DECODE", "DISABLED"} THEN 0 .. 13
           ELSE IF ReadsCount(0) THEN {0, 2}
           ELSE IF ReadsCount(1) THEN {0}
           ELSE IF h.state \in AddrCountStg0 THEN {Base - 1}
           ELSE {2}

MCNext ==
    \/ HciReset
    \/ \E rx \in Offered \cup {NoByte}, tx_done, brk, parity_err \in BOOLEAN :
          /\ rx # NoByte => Len(rx_q.items) < Backlog
          /\ Edge(rx, tx_done, parity_err, brk, 0)

MCSpec == HciInit /\ [][MCNext]_hciVars
=============================================================================
