----------------------------- MODULE HciOpcodes -----------------------------
(***************************************************************************)
(* The opcodes of the host command interpreter (hci/hci.v).  The host has   *)
(* its own list of them, in DbgPacket.                                      *)
(***************************************************************************)
OP_ECHO            == 0
OP_CPU_MEM_RD      == 1
OP_CPU_MEM_WR      == 2
OP_DBG_BRK         == 3
OP_DBG_RUN         == 4
OP_CPU_REG_RD      == 5
OP_CPU_REG_WR      == 6
OP_QUERY_DBG_BRK   == 7
OP_QUERY_ERR_CODE  == 8
OP_PPU_MEM_RD      == 9
OP_PPU_MEM_WR      == 10
OP_PPU_DISABLE     == 11
OP_CART_SET_CFG    == 12
=============================================================================
