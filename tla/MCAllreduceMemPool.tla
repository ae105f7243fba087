------------------------- MODULE MCAllreduceMemPool -------------------------
(***************************************************************************)
(* A pool created with two elements that may double once, over five        *)
(* addresses, so that malloc can also run out in the middle of a fill.     *)
(* Addresses are interchangeable.                                          *)
(***************************************************************************)
EXTENDS AllreduceMemPool, TLC

Addresses == Permutations(Elems)
=============================================================================
