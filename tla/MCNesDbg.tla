------------------------------ MODULE MCNesDbg ------------------------------
(***************************************************************************)
(* NesDbg for TLC, with bytes, addresses and opcodes as they are; banks are *)
(* of 4 bytes and sent in blocks of 4.                                     *)
(***************************************************************************)
EXTENDS NesDbg

Header(prg, chr, f6, f7) == <<78, 69, 83, 26, prg, chr, f6, f7>> \o [i \in 1 .. 8 |-> 0]

\* Two that play, of one PRG bank with the bytes of the echo in it and of two,
\* and one of a wrong mapper whose second bank is missing.
MCRoms ==
    [one   |-> Header(1, 1, 1, 0) \o <<78, 69, 83, 0>> \o <<5, 6, 7, 8>>,
     two   |-> Header(2, 0, 0, 0) \o <<1, 2, 3, 4, 0, 192, 7, 8>>,
     wrong |-> Header(2, 0, 24, 0) \o <<1, 2, 3, 4>>]

\* Read two bytes at 8000; write two that look like DBG_BRK and QUERY_DBG_BRK;
\* no hex.
MCTexts ==
    { <<0, 1, 0, 0, 8, 0, 0, 2, 0, 0>>, <<0, 2, Space, 0, 0, 8, 0, 0, 2, 0, 0, 0, 3, 0, 7>>,
      <<NoDigit>> }

MCPrg == [prog |-> <<0, 128, 169, 0>>]

Op(fn, args, expect) == [fn |-> fn, args |-> args, expect |-> expect]
Script(calls, returns, deserves) == [calls |-> calls, returns |-> returns, deserves |-> deserves]

MCScripts ==
    [ echo  |-> Script(<<Op("Echo", <<3, <<7, 264>>>>, <<7, 8, 0>>), Op("print", <<"x">>, <<>>),
                         Op("CpuRegRd", BadArgs, <<0>>)>>, TRUE, ERROR),
      mem   |-> Script(<<Op("CpuMemWr", <<32768, 1, <<3>>>>, <<>>),
                         Op("PpuMemWr", <<0, 1, <<7>>>>, <<>>),
                         Op("CpuMemRd", <<32768, 1>>, <<3>>),
                         Op("PpuMemRd", <<0, 1>>, <<7>>)>>, TRUE, PASS),
      cpu   |-> Script(<<Op("LoadAsm", <<"prog">>, <<0, 128>>), Op("CpuRegWr", <<1, 128>>, <<>>),
                         Op("DbgRun", <<0>>, <<>>), Op("WaitForHlt", <<0>>, <<>>),
                         Op("CpuRegRd", <<1>>, <<129>>)>>, TRUE, FAIL),
      blink |-> Script(<<Op("DbgHlt", <<0>>, <<>>), Op("DbgRun", <<0>>, <<>>),
                         Op("DbgHlt", <<0>>, <<>>)>>, FALSE, PASS) ]

MCSelections == {<<>>, <<"echo", "cpu">>, <<"mem">>, <<"blink">>}

NoRoms == [r \in {} |-> <<>>]
=============================================================================
