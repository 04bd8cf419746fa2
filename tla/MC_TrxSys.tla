----------------------------- MODULE MC_TrxSys -----------------------------
(* Model-checking instance of TrxSys: two transactions, a small id range.  *)
EXTENDS TrxSys, TLC

CONSTANTS t1, t2

MC_Trx == {t1, t2}

\* The SYSTEM rseg and one more: both trxs use rseg 1, so their commits meet
\* on one rseg mutex and one rseg header page.
MC_Rseg_Same == {0, 1}

MC_IdMargin == 2

\* InitMaxTrxId is 6: room for three ids: starts or trx numbers.
MC_MaxTrxId == 9

\* Enough for one undo record (or failed extension) per transaction.
MC_MaxLogLen == 3

MC_Symmetry == Permutations(MC_Trx)
=============================================================================
