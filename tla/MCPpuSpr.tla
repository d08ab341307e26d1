------------------------------ MODULE MCPpuSpr ------------------------------
(***************************************************************************)
(* Three objects for two slots on a screen of four rows, of which three have *)
(* sprites and two of these are seen.  Tile 0 differs in every row, column   *)
(* and plane; tile 1 has a hole.  Objects overlap, reach beyond the right    *)
(* edge, wrap around at 255 or are never in range.                           *)
(***************************************************************************)
EXTENDS PpuSpr

ThePattern ==
    [t \in {0, 1} |-> [r \in 0 .. High - 1 |-> [plane \in {0, 1} |->
        [k \in 1 .. Wide |->
            IF t = 1 THEN (IF k = 1 THEN 0 ELSE 1)
            ELSE IF plane = 0 THEN (k + r) % 2
            ELSE IF k = 1 THEN 1 ELSE 0]]]]

Obj(y, at, tile, ps, h, v) == [y |-> y, x |-> at, tile |-> tile, ps |-> ps,
                               priority |-> h, h_inv |-> h, v_inv |-> v]

TheObjects == {Obj(0, 4, 0, 1, FALSE, FALSE), Obj(Byte - 1, 3, 1, 2, TRUE, TRUE),
               Obj(1, Width - 1, 0, 3, TRUE, FALSE), Obj(Rows, 0, 0, 0, FALSE, FALSE)}
TheOams == [0 .. Objs - 1 -> TheObjects]
AnOverlay == {Obj(0, 4, 0, 0, TRUE, TRUE)}
=============================================================================
