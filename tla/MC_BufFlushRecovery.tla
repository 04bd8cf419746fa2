------------------------ MODULE MC_BufFlushRecovery ------------------------
(* Instance of BufFlushRecovery for TLC: three pages, one user thread,    *)
(* the master thread, a two-page doublewrite buffer and one crash.  Three  *)
(* modifications of three pages are enough to fill the doublewrite buffer  *)
(* and to make a flush batch post more pages than it holds.                *)
EXTENDS BufFlushRecovery, TLC

CONSTANTS u1, m

MC_Page == {1, 2, 3}
MC_User == {u1}
MC_MaxLsn == 3
MC_DwBlockSize == 1
MC_FreeBlockMargin == 1
MC_ExtraMargin == 0
MC_MaxLatches == 1
MC_MaxRestarts == 1

====
