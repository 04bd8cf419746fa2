---------------------------- MODULE MC_BufFlush ----------------------------
(* Instance of BufFlush for TLC: two pages, two user threads and the       *)
(* master thread; the doublewrite buffer holds two pages (one per block).  *)
EXTENDS BufFlush, TLC

CONSTANTS u1, u2, m

MC_Page == {1, 2}
MC_User == {u1, u2}
MC_User1 == {u1}
MC_MaxLsn2 == 2
MC_DwBlockSize == 1
MC_FreeBlockMargin == 1
MC_ExtraMargin == 1
MC_MaxLatches == 2
MC_MaxLatches1 == 1

MC_Symmetry == Permutations(MC_User)

====
