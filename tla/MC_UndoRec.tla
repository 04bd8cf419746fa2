------------------------------ MODULE MC_UndoRec ------------------------------
(* UndoRec with two writers, one reader that opens one read view, and two *)
(* undo pages (3 and 4) of 128 bytes: a page holds one or two update undo  *)
(* records, so records fill pages, logs take more pages, and purge frees   *)
(* pages that later logs reuse.  An index orders on column c, so update    *)
(* undo records carry the ordering columns.  Roll pointers of rollback     *)
(* segment 1 take three compressed bytes in their high word.               *)
EXTENDS UndoRec, TLC

CONSTANTS t1, t2

MC_Trx == {t1, t2}
MC_PageNo == {3, 4}
MC_Symmetry == Permutations(MC_Trx)
=============================================================================
