------------------------------ MODULE MCCache ------------------------------
(* Two lengths, two numbers of heads, two values of max_L and of the other *)
(* columns of the key, and an old file with one row that a layer asks for. *)
EXTENDS RamulatorCache

MCLayers == [n : {1, 2}, dbyte : {2}, pim_numOp : {4}]

MCConfig(max_L, num_hbm, pim_type, fast_mode) ==
    [max_L |-> max_L, num_hbm |-> num_hbm, dhead |-> 3, pim_type |-> pim_type,
     power_constraint |-> TRUE, fast_mode |-> fast_mode]

MCConfigs == {MCConfig(7, 2, "BA", FALSE), MCConfig(8, 2, "BA", FALSE),
              MCConfig(7, 5, "BA", FALSE), MCConfig(7, 2, "BG", FALSE),
              MCConfig(7, 1, "BA", TRUE)}

OldKey(n) == [L |-> n, max_L |-> NoMaxL, nhead |-> 2, dhead |-> 3, dbyte |-> 2,
              pim_type |-> "BA", power_constraint |-> TRUE]
OldRow(n) == [key |-> OldKey(n), of |-> OldKey(n), counts |-> "whole"]
MCOldFiles == {<<OldRow(1)>>, <<OldRow(2), OldRow(1)>>}
=============================================================================
