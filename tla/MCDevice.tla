------------------------------ MODULE MCDevice ------------------------------
(* Two pseudochannels, two bank groups, two banks; every mode on its own   *)
(* and the mixed traffic of loads, all-bank and per-bank MACs.             *)
EXTENDS HBM3PIMDevice

MCClasses == {{"RD", "WR", "REFab"}, {"MACAB", "WRGB", "REFab"},
              {"MACPB", "SFM", "REFab"}, {"RD", "MACAB", "MACPB", "REFab"}}
=============================================================================
