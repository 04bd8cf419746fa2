CONSTANTS
  t1 = t1
  t2 = t2
  NONE = NONE
  Trx <- MC_Trx
  Rseg <- MC_Rseg_Same
  IdMargin <- MC_IdMargin
  MaxTrxId <- MC_MaxTrxId
  MaxLogLen <- MC_MaxLogLen
  FlushAtTrxCommit = 1
  UndoSpaceFull = TRUE
SYMMETRY MC_Symmetry
SPECIFICATION Spec
INVARIANTS
  TypeOK
  HistoryInTrxNoOrder
  CommitLsnFollowsTrxNo
  SeenCommitsPrecede
  TrxIsActiveCorrect
  NoLatchHeldAfterReturn
