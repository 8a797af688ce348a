------------------------------ MODULE MCTrace ------------------------------
(* All three generators over lengths, head sizes and numbers of heads that *)
(* leave partial groups, partial slices and partial iterations.            *)
EXTENDS AttaccTrace

MCParams == [style : {"bank", "bg", "buffer"}, L : 1..14, dhead : {1, 4, 10}, heads : 1..8]
=============================================================================
