----------------------------- MODULE TrxRecovery -----------------------------
(***************************************************************************)
(* Crash and restart of the transaction system.  The server may stop at    *)
(* any moment between two steps of TrxSys; only the log prefix up to       *)
(* flushed_lsn survives.  Restart runs trx_sys_init_at_db_start, which     *)
(* re-reads max_trx_id from the system header with the write margin, and   *)
(* trx_lists_init_at_db_start, which rebuilds trx_list from the states of  *)
(* the undo logs the durable log leaves behind.  The recovered             *)
(* transactions are then cleaned up or rolled back by the background       *)
(* rollback thread, and a client may commit a recovered prepared one,      *)
(* while new transactions run.                                             *)
(*                                                                         *)
(* The undo log of a transaction exists on disk once one of its undo       *)
(* records (or the erase of a full page) is durable.  Its update undo log  *)
(* leaves the undo lists with the commit mtr (it goes to the history       *)
(* list); its insert undo log stays, in state TO_FREE, until the free_ins  *)
(* mtr of trx_undo_insert_cleanup.                                         *)
(***************************************************************************)
EXTENDS TrxSys

CONSTANTS
  MaxRestarts,    \* bound: number of crashes
  ForceRecovery,  \* recovery != IB_RECOVERY_DEFAULT
  XaCaller,       \* threads that commit recovered trxs by their XID
  XaListLen       \* the len argument of trx_recover

ASSUME MaxRestarts \in Nat /\ ForceRecovery \in BOOLEAN /\ XaListLen \in Nat \ {0}

VARIABLES
  is_recovered,   \* trx->is_recovered
  acked,          \* history: ids whose commit returned to the client
  restarts,       \* crashes so far
  xa_pc,          \* where each XA caller is
  xa_xid,         \* the XID it asked for (a trx id, see XaRecover)
  xa_trx          \* what trx_get_trx_by_xid found or returned

xaVars == <<xa_pc, xa_xid, xa_trx>>
recVars == <<is_recovered, acked, restarts, xaVars>>
allVars == <<vars, recVars>>

\* The records of the durable log `dur` of types `types` for trx id i.
RecsOf(dur, i, types) ==
  {dur[k] : k \in {k \in DOMAIN dur : dur[k].type \in types /\ dur[k].trx = i}}

UndoTypes == {"undo", "undo_erase"}

\* Ids with an undo log in the durable log.
UndoIds(dur) ==
  {dur[k].trx : k \in {k \in DOMAIN dur : dur[k].type \in UndoTypes}}

HasInsertUndoOnDisk(dur, i) ==
  /\ \E r \in RecsOf(dur, i, UndoTypes) : r.op = "INSERT"
  /\ RecsOf(dur, i, {"free_ins"}) = {}

HasUpdateUndoOnDisk(dur, i) ==
  /\ \E r \in RecsOf(dur, i, UndoTypes) : r.op = "MODIFY"
  /\ RecsOf(dur, i, {"commit"}) = {}

\* The transactions trx_lists_init_at_db_start finds in the undo lists.
RecoveredIds(dur) ==
  {i \in UndoIds(dur) : HasInsertUndoOnDisk(dur, i) \/ HasUpdateUndoOnDisk(dur, i)}

\* The undo log state: TRX_UNDO_ACTIVE, PREPARED or one of the finished states.
UndoStateOnDisk(dur, i) ==
  IF RecsOf(dur, i, {"commit"}) # {} THEN "FINISHED"
  ELSE IF RecsOf(dur, i, {"prepare"}) # {} THEN "PREPARED"
  ELSE "ACTIVE"

\* trx_lists_init_at_db_start: conc_state from the undo state.
RecoveredState(dur, i) ==
  CASE UndoStateOnDisk(dur, i) = "ACTIVE"   -> "ACTIVE"
    [] UndoStateOnDisk(dur, i) = "PREPARED" ->
         IF ForceRecovery THEN "ACTIVE" ELSE "PREPARED"
    [] OTHER                                -> "COMMITTED_IN_MEMORY"

\* TRX_SYS_TRX_ID_STORE: the last value trx_sys_flush_max_trx_id made
\* durable, or the 1 trx_sysf_create wrote.
StoredMaxTrxId(dur) ==
  LET vals == {dur[k].val : k \in {k \in DOMAIN dur : dur[k].type = "maxid"}}
  IN  IF vals = {} THEN 1 ELSE Max(vals)

\* Mutant: the restart value without the two margins.
RestartMaxTrxId_NoMargin(stored) == ut_uint64_align_up(stored, IdMargin)

\* trx_sys_init_at_db_start
RestartMaxTrxId(stored) == ut_uint64_align_up(stored, IdMargin) + 2 * IdMargin

\* Mutant: the recovered trx is always added at the end of trx_list.
trx_list_insert_ordered_Last(list, t, id) == Append(list, t)

\* trx_list_insert_ordered: before the first trx with a smaller id, or last.
RECURSIVE trx_list_insert_ordered(_, _, _)
trx_list_insert_ordered(list, t, id) ==
  IF list = <<>> THEN <<t>>
  ELSE IF id[t] >= id[Head(list)] THEN <<t>> \o list
  ELSE <<Head(list)>> \o trx_list_insert_ordered(Tail(list), t, id)

-----------------------------------------------------------------------------
InitR ==
  /\ Init
  /\ is_recovered = [t \in Trx |-> FALSE]
  /\ acked = {}
  /\ restarts = 0
  /\ xa_pc = [c \in XaCaller |-> "idle"]
  /\ xa_xid = [c \in XaCaller |-> NONE]
  /\ xa_trx = [c \in XaCaller |-> NONE]

(***************************************************************************)
(* Crash, then trx_sys_init_at_db_start and trx_lists_init_at_db_start.    *)
(* Startup is single-threaded, so it is one step.  Each recovered trx gets *)
(* a fresh trx object (trx_create): a handle of Trx, chosen injectively.   *)
(* The order in which the lists are walked does not matter to              *)
(* trx_list_insert_ordered, since the ids are distinct.                    *)
(***************************************************************************)
CrashRestart ==
  LET dur == SubSeq(log, 1, flushed_lsn)
      R == RecoveredIds(dur)
  IN
  /\ restarts < MaxRestarts
  /\ \E f \in Injection(R, Trx) :
     LET H == Range(f)
         idOf(t) == CHOOSE i \in R : f[i] = t
         recs(t) == RecsOf(dur, idOf(t), UndoTypes)
         ids == [t \in Trx |-> IF t \in H THEN idOf(t) ELSE 0]
     IN
     /\ trx_id' = ids
     /\ conc_state' = [t \in Trx |->
                        IF t \in H THEN RecoveredState(dur, idOf(t)) ELSE "NOT_STARTED"]
     /\ trx_no' = [t \in Trx |->
                    IF t \in H /\ UndoStateOnDisk(dur, idOf(t)) # "ACTIVE"
                      THEN idOf(t) ELSE LSN_MAX]
     /\ trx_rseg' = [t \in Trx |->
                      IF t \in H THEN (CHOOSE r \in recs(t) : TRUE).rseg ELSE NONE]
     /\ insert_undo' = [t \in Trx |-> t \in H /\ HasInsertUndoOnDisk(dur, idOf(t))]
     /\ update_undo' = [t \in Trx |-> t \in H /\ HasUpdateUndoOnDisk(dur, idOf(t))]
     /\ undo_no' = [t \in Trx |->
                     IF t \in H
                       THEN Cardinality({k \in DOMAIN dur : dur[k].type = "undo"
                                                           /\ dur[k].trx = idOf(t)})
                     ELSE 0]
     /\ trx_list' = FoldSet(LAMBDA t, l : trx_list_insert_ordered(l, t, ids),
                            <<>>, H)
     /\ is_recovered' = [t \in Trx |-> t \in H]
  /\ read_view' = [t \in Trx |-> NONE]
  /\ commit_lsn' = [t \in Trx |-> 0]
  /\ pc' = [t \in Trx |-> "idle"]
  /\ rseg_mutex' = [r \in Rseg |-> NONE]
  /\ rseg_latch' = [r \in Rseg |-> NONE]
  /\ max_trx_id' = RestartMaxTrxId(StoredMaxTrxId(dur))
  /\ latest_rseg' = Min(Rseg)
  /\ history' = [r \in Rseg |->
                  SelectSeq(history[r], LAMBDA h : RecsOf(dur, h.trx, {"commit"}) # {})]
  /\ log' = dur
  /\ flushed_lsn' = Len(dur)
  /\ commits' = {c \in commits : c.lsn <= flushed_lsn}
  /\ restarts' = restarts + 1
  /\ xa_pc' = [c \in XaCaller |-> "idle"]
  /\ xa_xid' = [c \in XaCaller |-> NONE]
  /\ xa_trx' = [c \in XaCaller |-> NONE]
  /\ UNCHANGED acked

\* trx_cleanup_at_db_startup, called by the background rollback thread under
\* the kernel mutex for a recovered trx it finds COMMITTED_IN_MEMORY; the
\* trx object is then freed.
trx_cleanup_at_db_startup(t) ==
  /\ is_recovered[t] /\ conc_state[t] = "COMMITTED_IN_MEMORY"
  /\ log' = IF insert_undo[t]
              THEN Append(log, [type |-> "free_ins", trx |-> trx_id[t]])
              ELSE log
  /\ insert_undo' = [insert_undo EXCEPT ![t] = FALSE]
  /\ CommitCleanup(t)
  /\ is_recovered' = [is_recovered EXCEPT ![t] = FALSE]
  /\ UNCHANGED <<trx_id, trx_no, update_undo, read_view, commit_lsn, pc,
                 rseg_mutex, rseg_latch, max_trx_id, latest_rseg, history,
                 flushed_lsn, commits, acked, restarts, xaVars>>

\* Mutant: only a trx with an update undo log is rolled back.
RecoveredRollback_UpdateOnly(t) ==
  /\ is_recovered[t] /\ conc_state[t] = "ACTIVE" /\ update_undo[t]
  /\ Goto(t, "idle", "c_rseg")
  /\ log' = Append(log, [type |-> "rollback", trx |-> trx_id[t]])
  /\ UNCHANGED <<conc_state, trx_id, trx_no, trx_rseg, insert_undo,
                 update_undo, undo_no, read_view, commit_lsn, rseg_mutex,
                 rseg_latch, trx_list, max_trx_id, latest_rseg, history,
                 flushed_lsn, commits, recVars>>

\* The background thread rolls back a recovered ACTIVE trx: the undo log is
\* applied, then the rollback finishes through trx_commit_off_kernel.
RecoveredRollback(t) ==
  /\ is_recovered[t] /\ conc_state[t] = "ACTIVE" /\ HasUndo(t)
  /\ Goto(t, "idle", "c_rseg")
  /\ log' = Append(log, [type |-> "rollback", trx |-> trx_id[t]])
  /\ UNCHANGED <<conc_state, trx_id, trx_no, trx_rseg, insert_undo,
                 update_undo, undo_no, read_view, commit_lsn, rseg_mutex,
                 rseg_latch, trx_list, max_trx_id, latest_rseg, history,
                 flushed_lsn, commits, recVars>>

\* Mutant: COMMITTED_IN_MEMORY without clearing is_recovered.
CommitInMemoryR_KeepRecovered(t) ==
  CommitInMemory(t) /\ UNCHANGED recVars

\* trx_commit_off_kernel clears is_recovered with the state change.
CommitInMemoryR(t) ==
  /\ CommitInMemory(t)
  /\ is_recovered' = [is_recovered EXCEPT ![t] = FALSE]
  /\ UNCHANGED <<acked, restarts, xaVars>>

\* The commit returns to its caller; a rollback's commit is not a commit.
CommitEndR(t) ==
  /\ CommitEnd(t)
  /\ acked' = IF RecsOf(log, trx_id[t], {"rollback"}) = {}
                THEN acked \cup {trx_id[t]} ELSE acked
  /\ UNCHANGED <<is_recovered, restarts, xaVars>>

-----------------------------------------------------------------------------
(***************************************************************************)
(* XA callers.  After a restart the transaction coordinator learns the     *)
(* XIDs of the prepared trxs from trx_recover, then commits each by XID:   *)
(* trx_get_trx_by_xid, then trx_commit on the trx it returns.  An XID      *)
(* names one transaction, so it is modelled by the trx id the prepare      *)
(* wrote it with; a live prepared trx belongs to its own session, so the   *)
(* coordinator asks only for the recovered ones.  Each caller step is one  *)
(* step of the code: the list walk under the kernel mutex, the state check *)
(* after the mutex is released, the commit.                                *)
(***************************************************************************)

\* trx_recover: the first len trxs of trx_list that are TRX_PREPARED.
trx_recover(len) ==
  LET prepared == SelectSeq(trx_list, LAMBDA t : conc_state[t] = "PREPARED")
  IN  SubSeq(prepared, 1, IF Len(prepared) < len THEN Len(prepared) ELSE len)

XaRecover(c) ==
  /\ xa_pc[c] = "idle"
  /\ \E t \in ToSet(trx_recover(XaListLen)) :
       /\ is_recovered[t]
       /\ xa_xid' = [xa_xid EXCEPT ![c] = trx_id[t]]
  /\ xa_pc' = [xa_pc EXCEPT ![c] = "lookup"]
  /\ UNCHANGED <<vars, is_recovered, acked, restarts, xa_trx>>

\* The loop of trx_get_trx_by_xid: the first trx in trx_list with the XID.
FirstWithXid(x) ==
  LET match == SelectSeq(trx_list, LAMBDA t : trx_id[t] = x)
  IN  IF match = <<>> THEN NONE ELSE Head(match)

\* trx_get_trx_by_xid, under the kernel mutex.
XaLookup(c) ==
  /\ xa_pc[c] = "lookup"
  /\ xa_trx' = [xa_trx EXCEPT ![c] = FirstWithXid(xa_xid[c])]
  /\ xa_pc' = [xa_pc EXCEPT ![c] = "check"]
  /\ UNCHANGED <<vars, is_recovered, acked, restarts, xa_xid>>

\* trx_get_trx_by_xid, after mutex_exit: a trx that is not TRX_PREPARED
\* gives nullptr.  The trx object may have been committed and freed since
\* the walk, and its memory reused by trx_create for another trx.
XaCheck(c) ==
  LET t == xa_trx[c]
      ok == t # NONE /\ conc_state[t] = "PREPARED"
  IN
  /\ xa_pc[c] = "check"
  /\ xa_pc' = [xa_pc EXCEPT ![c] = IF ok THEN "commit" ELSE "idle"]
  /\ xa_trx' = IF ok THEN xa_trx ELSE [xa_trx EXCEPT ![c] = NONE]
  /\ UNCHANGED <<vars, is_recovered, acked, restarts, xa_xid>>

\* trx_commit on the returned trx: the caller's thread runs the commit
\* steps of the trx at once (a recovered PREPARED trx is idle: no session
\* and not the rollback thread runs it), and XaCommitReturn is the return
\* from trx_commit once those steps are done.
XaCommit(c) ==
  LET t == xa_trx[c] IN
  /\ xa_pc[c] = "commit"
  /\ CommitNoUndo(t) \/ CommitBegin(t)
  /\ xa_pc' = [xa_pc EXCEPT ![c] = "in_commit"]
  /\ UNCHANGED <<is_recovered, acked, restarts, xa_xid, xa_trx>>

XaCommitReturn(c) ==
  /\ xa_pc[c] = "in_commit"
  /\ pc[xa_trx[c]] = "idle"
  /\ xa_pc' = [xa_pc EXCEPT ![c] = "idle"]
  /\ xa_trx' = [xa_trx EXCEPT ![c] = NONE]
  /\ UNCHANGED <<vars, is_recovered, acked, restarts, xa_xid>>

XaStep(c) ==
  XaRecover(c) \/ XaLookup(c) \/ XaCheck(c) \/ XaCommit(c) \/ XaCommitReturn(c)

InternalStepR(t) ==
  \/ PrepareRseg(t) \/ PrepareMtr(t) \/ PrepareInMemory(t) \/ PrepareFlush(t)
  \/ CommitRseg(t) \/ CommitAssignNo(t) \/ CommitHistory(t) \/ CommitMtr(t)
  \/ CommitFlush(t)

NextR ==
  \/ \E t \in Trx :
       \/ ((~is_recovered[t] /\ ClientStep(t)) \/ InternalStepR(t))
            /\ UNCHANGED recVars
       \/ CommitInMemoryR(t) \/ CommitEndR(t)
       \/ trx_cleanup_at_db_startup(t) \/ RecoveredRollback(t)
  \/ \E c \in XaCaller : XaStep(c)
  \/ LogFlush /\ UNCHANGED recVars
  \/ CrashRestart
  \/ Terminated /\ UNCHANGED recVars

FairnessR ==
  /\ \A t \in Trx : WF_allVars(InternalStepR(t) /\ UNCHANGED recVars)
  /\ \A t \in Trx : WF_allVars(CommitInMemoryR(t) \/ CommitEndR(t))
  /\ \A t \in Trx : WF_allVars(trx_cleanup_at_db_startup(t) \/ RecoveredRollback(t))

SpecR == InitR /\ [][NextR]_allVars /\ FairnessR

-----------------------------------------------------------------------------
(***************************************************************************)
(* No trx id or trx number is handed out twice, across restarts: every id   *)
(* and number in the (durable) log is below max_trx_id.  The counter is    *)
(* written only every IdMargin ids, so this rests on the two margins       *)
(* trx_sys_init_at_db_start adds to the stored value.                      *)
(***************************************************************************)
NoIdReuse ==
  \A k \in DOMAIN log :
    /\ log[k].type # "maxid" => log[k].trx < max_trx_id
    /\ log[k].type = "commit" /\ log[k].no # LSN_MAX => log[k].no < max_trx_id

(***************************************************************************)
(* A trx that is between COMMITTED_IN_MEMORY and the end of its commit is   *)
(* still in trx_list, in that state: the background rollback thread never  *)
(* cleans up a recovered prepared trx that a client is committing.         *)
(***************************************************************************)
CommitOwnsTrx ==
  \A t \in Trx :
    pc[t] \in {"c_flush", "c_end"} =>
      /\ conc_state[t] = "COMMITTED_IN_MEMORY"
      /\ t \in ToSet(trx_list)

(***************************************************************************)
(* With srv_flush_log_at_trx_commit = 1, a commit that returned to the     *)
(* client survives every later crash: its commit record is in the log.     *)
(***************************************************************************)
AckedCommitsDurable ==
  \A i \in acked : RecsOf(log, i, {"commit"}) # {}

(***************************************************************************)
(* Every recovered trx is rolled back or cleaned up, and every commit that *)
(* began (of a client or of a rollback) returns.                           *)
(***************************************************************************)
RecoveryCompletes ==
  /\ \A t \in Trx : is_recovered[t] ~> ~is_recovered[t] \/ conc_state[t] = "PREPARED"
  /\ \A t \in Trx : pc[t] # "idle" ~> pc[t] = "idle"

=============================================================================
