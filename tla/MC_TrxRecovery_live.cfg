CONSTANTS
  t1 = t1
  t2 = t2
  c1 = c1
  NONE = NONE
  Trx <- MC_Trx
  Rseg <- MC_Rseg
  IdMargin <- MC_IdMargin
  MaxTrxId <- MC_MaxTrxId_Live
  MaxLogLen <- MC_MaxLogLen
  MaxRestarts <- MC_MaxRestarts
  FlushAtTrxCommit = 1
  UndoSpaceFull = FALSE
  ForceRecovery = FALSE
  XaCaller = {}
  XaListLen = 2
SPECIFICATION SpecR
CONSTRAINT MC_NoReadView
PROPERTIES
  RecoveryCompletes
CHECK_DEADLOCK FALSE
