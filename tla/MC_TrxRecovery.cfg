CONSTANTS
  t1 = t1
  t2 = t2
  c1 = c1
  NONE = NONE
  Trx <- MC_Trx
  Rseg <- MC_Rseg
  IdMargin <- MC_IdMargin
  MaxTrxId <- MC_MaxTrxId
  MaxLogLen <- MC_MaxLogLen
  MaxRestarts <- MC_MaxRestarts
  FlushAtTrxCommit = 1
  UndoSpaceFull = FALSE
  ForceRecovery = FALSE
  XaCaller <- MC_XaCaller1
  XaListLen = 2
SYMMETRY MC_Symmetry
SPECIFICATION SpecR
CONSTRAINT MC_NoReadView
INVARIANTS
  NoIdReuse
  CommitOwnsTrx
  AckedCommitsDurable
  TrxIsActiveCorrect
