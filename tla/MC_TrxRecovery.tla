--------------------------- MODULE MC_TrxRecovery ---------------------------
(* Model-checking instance of TrxRecovery: two trx objects, one crash.     *)
EXTENDS TrxRecovery, TLC

CONSTANTS t1, t2, c1

MC_Trx == {t1, t2}

MC_Rseg == {0, 1}

MC_IdMargin == 2

MC_MaxTrxId == 10

MC_MaxLogLen == 3

MC_MaxRestarts == 1

\* One coordinator thread commits the recovered prepared trxs.
MC_XaCaller1 == {c1}

\* Liveness is checked without symmetry.  Two starts (ids 6 and 7) before
\* the crash, so that two trxs can be recovered; the restart value is at
\* least 10, so no trx starts after the crash.
MC_MaxTrxId_Live == 8

MC_NoReadView == \A t \in MC_Trx : read_view[t] = NONE

MC_Symmetry == Permutations(MC_Trx)
=============================================================================
