------------------------------- MODULE MC_Pcur -------------------------------
(* Pcur with three keys, three blocks and pages of two records, so that   *)
(* a page splits, an emptied page is discarded, and a cursor meets both   *)
(* while its position is stored.                                          *)
EXTENDS Pcur, TLC

CONSTANTS b1, b2, b3

MC_Block == {b1, b2, b3}
MC_Key == 1..3
MC_Symmetry == Permutations(MC_Block)
==============================================================================
