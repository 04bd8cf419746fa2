------------------------------- MODULE TrxSys -------------------------------
(***************************************************************************)
(* The transaction system of the engine: trx_start_low, the undo report    *)
(* of a row operation, the read view, trx_prepare_off_kernel and           *)
(* trx_commit_off_kernel, with the kernel mutex, the rseg mutexes and the  *)
(* rseg header page latch held by the commit mini-transaction.             *)
(*                                                                         *)
(* Commit and prepare release the kernel mutex in the middle of the        *)
(* operation, so each mutex acquisition is its own step and the steps of   *)
(* several transactions interleave.  A section under the kernel mutex that *)
(* takes no other latch is one atomic step, so the kernel mutex needs no   *)
(* variable of its own.  The redo log is the sequence `log`,   *)
(* its length is the current LSN, and `flushed_lsn` is the durable prefix. *)
(* Page contents, records and locks are abstracted away: an undo report is *)
(* the log record it produces.                                             *)
(***************************************************************************)
EXTENDS Integers, Sequences, FiniteSets, SequencesExt

CONSTANTS
  Trx,              \* transaction handles (trx_t objects)
  Rseg,             \* rollback segment ids; 0 is the SYSTEM rollback segment
  IdMargin,         \* TRX_SYS_TRX_ID_WRITE_MARGIN
  MaxTrxId,         \* bound: no transaction starts once max_trx_id reaches it
  MaxLogLen,        \* bound: no undo report once the log has this many records
  FlushAtTrxCommit, \* srv_flush_log_at_trx_commit: 0, 1 or 2
  UndoSpaceFull,    \* TRUE if trx_undo_add_page can run out of file space
  NONE              \* model value: no holder / no read view / no rseg

ASSUME 0 \in Rseg /\ Rseg \subseteq Nat
ASSUME IdMargin \in Nat \ {0} /\ MaxTrxId \in Nat /\ MaxLogLen \in Nat
ASSUME FlushAtTrxCommit \in {0, 1, 2} /\ UndoSpaceFull \in BOOLEAN

VARIABLES
  conc_state,   \* trx->conc_state
  trx_id,       \* trx->id
  trx_no,       \* trx->no (LSN_MAX while running)
  trx_rseg,     \* trx->rseg
  insert_undo,  \* trx->insert_undo != nullptr
  update_undo,  \* trx->update_undo != nullptr
  undo_no,      \* trx->undo_no
  read_view,    \* trx->read_view: NONE or [low |-> low_limit, ids |-> active ids]
  commit_lsn,   \* the local `lsn` of the commit / prepare in progress
  pc,           \* step of the commit or prepare the trx is in
  rseg_mutex,   \* holder of rseg->mutex, per rseg
  rseg_latch,   \* mtr holding the x-latch on the rseg header page, per rseg
  trx_list,     \* trx_sys->trx_list, newest first
  max_trx_id,   \* trx_sys->max_trx_id
  latest_rseg,  \* trx_sys->latest_rseg
  history,      \* per-rseg history list, in the order undo logs were added
  log,          \* redo log records, LSN = position
  flushed_lsn,  \* LSN up to which the log is on disk
  commits       \* history variable: one record per commit that wrote a commit mtr

vars == <<conc_state, trx_id, trx_no, trx_rseg, insert_undo, update_undo,
          undo_no, read_view, commit_lsn, pc, rseg_mutex,
          rseg_latch, trx_list, max_trx_id, latest_rseg, history, log,
          flushed_lsn, commits>>

trxVars == <<conc_state, trx_id, trx_no, trx_rseg, insert_undo, update_undo,
             undo_no, read_view, commit_lsn, pc>>

TRX_SYS_SYSTEM_RSEG_ID == 0

\* Stands for the 64-bit LSN_MAX (a trx number no trx gets): larger than
\* every id the bounded model allocates, restarts included.
LSN_MAX == 2^30

States == {"NOT_STARTED", "ACTIVE", "PREPARED", "COMMITTED_IN_MEMORY"}

Steps == {"idle",
          "c_rseg", "c_no", "c_hist", "c_mtr", "c_mem", "c_flush", "c_end",
          "p_rseg", "p_mtr", "p_mem", "p_flush"}

LogRec ==
       [type : {"maxid"}, val : Nat]
  \cup [type : {"undo", "undo_erase"}, trx : Nat, op : {"INSERT", "MODIFY"},
        rseg : Rseg]
  \cup [type : {"prepare", "free_ins", "rollback"}, trx : Nat]
  \cup [type : {"commit"}, trx : Nat, no : Nat]

\* ut_uint64_align_up
ut_uint64_align_up(n, a) == ((n + a - 1) \div a) * a

\* trx_sys_init_at_db_start on a freshly created system header, whose
\* TRX_SYS_TRX_ID_STORE trx_sysf_create set to 1.
InitMaxTrxId == ut_uint64_align_up(1, IdMargin) + 2 * IdMargin

(***************************************************************************)
(* trx_sys_get_new_trx_id: the id is max_trx_id, the counter is bumped, and *)
(* when max_trx_id is a multiple of the margin it is first written to the  *)
(* system header by trx_sys_flush_max_trx_id, in a mini-transaction of its *)
(* own whose record enters the log.                                        *)
(***************************************************************************)
trx_sys_flush_max_trx_id(m) == <<[type |-> "maxid", val |-> m]>>

trx_sys_get_new_trx_id_log ==
  IF max_trx_id % IdMargin = 0 THEN trx_sys_flush_max_trx_id(max_trx_id) ELSE <<>>

\* trx_sys_get_new_trx_no takes its number from the same counter.
trx_sys_get_new_trx_no_log == trx_sys_get_new_trx_id_log

\* Mutant: the round robin forgets to wrap at the end of rseg_list.
NextRseg_NoWrap(r) == r + 1

\* Next rseg of trx_sys->rseg_list, which lists the slots in id order.
NextRseg(r) ==
  IF r = Max(Rseg) THEN Min(Rseg) ELSE Min({x \in Rseg : x > r})

\* trx_assign_rseg: round robin, skipping the SYSTEM rseg if there are others.
trx_assign_rseg ==
  LET n == NextRseg(latest_rseg)
  IN  IF n = TRX_SYS_SYSTEM_RSEG_ID /\ Cardinality(Rseg) > 1
        THEN NextRseg(n) ELSE n

\* trx_list_get_min_trx_id: the id of the LAST trx of trx_list.
trx_list_get_min_trx_id ==
  IF trx_list = <<>> THEN max_trx_id ELSE trx_id[Last(trx_list)]

\* trx_get_on_id: the trxs of trx_list with this id.
trx_get_on_id(i) == {t \in ToSet(trx_list) : trx_id[t] = i}

\* trx_is_active
trx_is_active(i) ==
  IF i < trx_list_get_min_trx_id THEN FALSE
  ELSE IF i >= max_trx_id THEN TRUE
  ELSE \E t \in trx_get_on_id(i) : conc_state[t] \in {"ACTIVE", "PREPARED"}

\* The read view's visibility test for the changes of transaction id i.
Sees(view, i) == view # NONE /\ i < view.low /\ i \notin view.ids

\* Mutant: policy 1 writes the log but does not flush it.
LogWriteUpTo_NoSync(lsn, buffered) == flushed_lsn' = flushed_lsn

\* log_write_up_to(lsn, ..., flush) with the log buffer ending at `buffered`:
\* if lsn is not yet on disk, the whole buffer is written.  Only policy 1
\* flushes; policies 0 and 2 leave durability to the background writer.
LogWriteUpTo(lsn, buffered) ==
  flushed_lsn' = IF FlushAtTrxCommit = 1 /\ lsn > flushed_lsn
                   THEN buffered ELSE flushed_lsn

Free(m) == m = NONE
HasUndo(t) == insert_undo[t] \/ update_undo[t]

Goto(t, from, to) == pc[t] = from /\ pc' = [pc EXCEPT ![t] = to]

-----------------------------------------------------------------------------
Init ==
  /\ conc_state = [t \in Trx |-> "NOT_STARTED"]
  /\ trx_id = [t \in Trx |-> 0]
  /\ trx_no = [t \in Trx |-> LSN_MAX]
  /\ trx_rseg = [t \in Trx |-> NONE]
  /\ insert_undo = [t \in Trx |-> FALSE]
  /\ update_undo = [t \in Trx |-> FALSE]
  /\ undo_no = [t \in Trx |-> 0]
  /\ read_view = [t \in Trx |-> NONE]
  /\ commit_lsn = [t \in Trx |-> 0]
  /\ pc = [t \in Trx |-> "idle"]
  /\ rseg_mutex = [r \in Rseg |-> NONE]
  /\ rseg_latch = [r \in Rseg |-> NONE]
  /\ trx_list = <<>>
  /\ max_trx_id = InitMaxTrxId
  /\ latest_rseg = Min(Rseg)
  /\ history = [r \in Rseg |-> <<>>]
  /\ log = <<>>
  /\ flushed_lsn = 0
  /\ commits = {}

\* Mutant: the new trx is added at the END of trx_list.
trx_start_AddLast(t) ==
  /\ pc[t] = "idle" /\ conc_state[t] = "NOT_STARTED"
  /\ max_trx_id < MaxTrxId
  /\ LET r == trx_assign_rseg IN
       /\ latest_rseg' = r
       /\ trx_rseg' = [trx_rseg EXCEPT ![t] = r]
  /\ trx_id' = [trx_id EXCEPT ![t] = max_trx_id]
  /\ max_trx_id' = max_trx_id + 1
  /\ log' = log \o trx_sys_get_new_trx_id_log
  /\ trx_no' = [trx_no EXCEPT ![t] = LSN_MAX]
  /\ conc_state' = [conc_state EXCEPT ![t] = "ACTIVE"]
  /\ trx_list' = Append(trx_list, t)
  /\ UNCHANGED <<insert_undo, update_undo, undo_no, read_view, commit_lsn, pc,
                 rseg_mutex, rseg_latch, history, flushed_lsn, commits>>

(***************************************************************************)
(* trx_start: under the kernel mutex, pick an rseg, take a new id, and     *)
(* put the trx at the head of trx_list.                                    *)
(***************************************************************************)
trx_start(t) ==
  /\ pc[t] = "idle" /\ conc_state[t] = "NOT_STARTED"
  /\ max_trx_id < MaxTrxId
  /\ LET r == trx_assign_rseg IN
       /\ latest_rseg' = r
       /\ trx_rseg' = [trx_rseg EXCEPT ![t] = r]
  /\ trx_id' = [trx_id EXCEPT ![t] = max_trx_id]
  /\ max_trx_id' = max_trx_id + 1
  /\ log' = log \o trx_sys_get_new_trx_id_log
  /\ trx_no' = [trx_no EXCEPT ![t] = LSN_MAX]
  /\ conc_state' = [conc_state EXCEPT ![t] = "ACTIVE"]
  /\ trx_list' = <<t>> \o trx_list
  /\ UNCHANGED <<insert_undo, update_undo, undo_no, read_view, commit_lsn, pc,
                 rseg_mutex, rseg_latch, history, flushed_lsn,
                 commits>>

(***************************************************************************)
(* trx_undo_report_row_operation.  An insert or update undo log is          *)
(* assigned under the rseg mutex if the trx has none yet (if that fails the *)
(* call returns with nothing changed, a stutter).  The record is written in *)
(* a mini-transaction; if it does not fit, the page end is erased in a      *)
(* logged mtr and trx_undo_add_page extends the log by a page between       *)
(* mutex_enter and mutex_exit of the rseg mutex (trx0rec.cc:1082-1086).    *)
(* That section takes no other latch a commit could hold while waiting for  *)
(* it, so it is part of the step, guarded by the mutex being free.  Then    *)
(* the record is written on the new page, or, if no page could be added,   *)
(* the call returns DB_OUT_OF_FILE_SPACE with the undo log assigned and no *)
(* record written.                                                          *)
(***************************************************************************)
trx_undo_report_row_operation(t, op) ==
  LET r == trx_rseg[t]
      isIns == op = "INSERT"
      assigned == IF isIns THEN insert_undo[t] ELSE update_undo[t]
      rec == [type |-> "undo", trx |-> trx_id[t], op |-> op, rseg |-> r]
      erase == [type |-> "undo_erase", trx |-> trx_id[t], op |-> op, rseg |-> r]
  IN
  /\ pc[t] = "idle" /\ conc_state[t] = "ACTIVE"
  /\ Len(log) < MaxLogLen
  /\ insert_undo' = [insert_undo EXCEPT ![t] = @ \/ isIns]
  /\ update_undo' = [update_undo EXCEPT ![t] = @ \/ ~isIns]
  /\ assigned \/ Free(rseg_mutex[r])
  /\ \/ /\ log' = Append(log, rec)
        /\ undo_no' = [undo_no EXCEPT ![t] = @ + 1]
     \/ /\ Free(rseg_mutex[r])
        /\ log' = log \o <<erase, rec>>
        /\ undo_no' = [undo_no EXCEPT ![t] = @ + 1]
     \/ /\ UndoSpaceFull /\ Free(rseg_mutex[r])
        /\ log' = Append(log, erase)
        /\ UNCHANGED undo_no
  /\ UNCHANGED <<conc_state, trx_id, trx_no, trx_rseg, read_view, commit_lsn,
                 pc, rseg_mutex, rseg_latch, trx_list,
                 max_trx_id, latest_rseg, history, flushed_lsn, commits>>

\* Mutant: the view leaves out prepared transactions.
trx_assign_read_view_ActiveOnly(t) ==
  /\ pc[t] = "idle" /\ conc_state[t] = "ACTIVE" /\ read_view[t] = NONE
  /\ read_view' = [read_view EXCEPT ![t] =
        [low |-> max_trx_id,
         ids |-> {trx_id[u] : u \in {u \in ToSet(trx_list) :
                    u # t /\ conc_state[u] = "ACTIVE"}}]]
  /\ UNCHANGED <<conc_state, trx_id, trx_no, trx_rseg, insert_undo,
                 update_undo, undo_no, commit_lsn, pc, rseg_mutex, rseg_latch,
                 trx_list, max_trx_id, latest_rseg, history, log, flushed_lsn,
                 commits>>

(***************************************************************************)
(* trx_assign_read_view: under the kernel mutex, snapshot max_trx_id and    *)
(* the ids of the other active or prepared transactions of trx_list.       *)
(***************************************************************************)
trx_assign_read_view(t) ==
  /\ pc[t] = "idle" /\ conc_state[t] = "ACTIVE" /\ read_view[t] = NONE
  /\ read_view' = [read_view EXCEPT ![t] =
        [low |-> max_trx_id,
         ids |-> {trx_id[u] : u \in {u \in ToSet(trx_list) :
                    u # t /\ conc_state[u] \in {"ACTIVE", "PREPARED"}}}]]
  /\ UNCHANGED <<conc_state, trx_id, trx_no, trx_rseg, insert_undo,
                 update_undo, undo_no, commit_lsn, pc,
                 rseg_mutex, rseg_latch, trx_list, max_trx_id, latest_rseg,
                 history, log, flushed_lsn, commits>>

-----------------------------------------------------------------------------
(***************************************************************************)
(* trx_prepare_off_kernel                                                  *)
(***************************************************************************)

\* A trx without undo is marked prepared under the kernel mutex.
PrepareNoUndo(t) ==
  /\ pc[t] = "idle" /\ conc_state[t] = "ACTIVE" /\ ~HasUndo(t)
  /\ conc_state' = [conc_state EXCEPT ![t] = "PREPARED"]
  /\ UNCHANGED <<trx_id, trx_no, trx_rseg, insert_undo, update_undo, undo_no,
                 read_view, commit_lsn, pc, rseg_mutex,
                 rseg_latch, trx_list, max_trx_id, latest_rseg, history, log,
                 flushed_lsn, commits>>

\* trx_prepare enters the kernel mutex; trx_prepare_off_kernel leaves it.
PrepareBegin(t) ==
  /\ conc_state[t] = "ACTIVE" /\ HasUndo(t)
  /\ Goto(t, "idle", "p_rseg")
  /\ UNCHANGED <<conc_state, trx_id, trx_no, trx_rseg, insert_undo,
                 update_undo, undo_no, read_view, commit_lsn,
                 rseg_mutex, rseg_latch, trx_list, max_trx_id, latest_rseg,
                 history, log, flushed_lsn, commits>>

\* Under the rseg mutex the undo headers are set to TRX_UNDO_PREPARED.
PrepareRseg(t) ==
  /\ Goto(t, "p_rseg", "p_mtr")
  /\ Free(rseg_mutex[trx_rseg[t]])
  /\ UNCHANGED <<conc_state, trx_id, trx_no, trx_rseg, insert_undo,
                 update_undo, undo_no, read_view, commit_lsn,
                 rseg_mutex, rseg_latch, trx_list, max_trx_id, latest_rseg,
                 history, log, flushed_lsn, commits>>

\* The mtr commit makes the trx prepared in the file-based world.
PrepareMtr(t) ==
  /\ Goto(t, "p_mtr", "p_mem")
  /\ log' = Append(log, [type |-> "prepare", trx |-> trx_id[t]])
  /\ commit_lsn' = [commit_lsn EXCEPT ![t] = Len(log')]
  /\ UNCHANGED <<conc_state, trx_id, trx_no, trx_rseg, insert_undo,
                 update_undo, undo_no, read_view, rseg_mutex,
                 rseg_latch, trx_list, max_trx_id, latest_rseg, history,
                 flushed_lsn, commits>>

PrepareInMemory(t) ==
  /\ Goto(t, "p_mem", "p_flush")
  /\ conc_state' = [conc_state EXCEPT ![t] = "PREPARED"]
  /\ UNCHANGED <<trx_id, trx_no, trx_rseg, insert_undo, update_undo, undo_no,
                 read_view, commit_lsn, rseg_mutex, rseg_latch,
                 trx_list, max_trx_id, latest_rseg, history, log, flushed_lsn,
                 commits>>

\* Flush per srv_flush_log_at_trx_commit, then re-enter and leave the kernel.
PrepareFlush(t) ==
  /\ Goto(t, "p_flush", "idle")
  /\ LogWriteUpTo(commit_lsn[t], Len(log))
  /\ commit_lsn' = [commit_lsn EXCEPT ![t] = 0]
  /\ UNCHANGED <<conc_state, trx_id, trx_no, trx_rseg, insert_undo,
                 update_undo, undo_no, read_view, rseg_mutex,
                 rseg_latch, trx_list, max_trx_id, latest_rseg, history, log,
                 commits>>

-----------------------------------------------------------------------------
(***************************************************************************)
(* trx_commit / trx_commit_off_kernel                                      *)
(***************************************************************************)

\* The trx leaves trx_list and returns to NOT_STARTED (end of the function).
CommitCleanup(t) ==
  /\ conc_state' = [conc_state EXCEPT ![t] = "NOT_STARTED"]
  /\ trx_rseg' = [trx_rseg EXCEPT ![t] = NONE]
  /\ undo_no' = [undo_no EXCEPT ![t] = 0]
  /\ trx_list' = Remove(trx_list, t)

\* Without undo logs the whole commit runs under the kernel mutex.
CommitNoUndo(t) ==
  /\ pc[t] = "idle" /\ conc_state[t] \in {"ACTIVE", "PREPARED"} /\ ~HasUndo(t)
  /\ read_view' = [read_view EXCEPT ![t] = NONE]
  /\ CommitCleanup(t)
  /\ UNCHANGED <<trx_id, trx_no, insert_undo, update_undo, commit_lsn, pc,
                 rseg_mutex, rseg_latch, max_trx_id, latest_rseg,
                 history, log, flushed_lsn, commits>>

\* trx_commit enters the kernel mutex; trx_commit_off_kernel leaves it.
CommitBegin(t) ==
  /\ conc_state[t] \in {"ACTIVE", "PREPARED"} /\ HasUndo(t)
  /\ Goto(t, "idle", "c_rseg")
  /\ UNCHANGED <<conc_state, trx_id, trx_no, trx_rseg, insert_undo,
                 update_undo, undo_no, read_view, commit_lsn,
                 rseg_mutex, rseg_latch, trx_list, max_trx_id, latest_rseg,
                 history, log, flushed_lsn, commits>>

\* Mutant: the rseg mutex is released before the trx_no is taken.
CommitRseg_Release(t) ==
  LET r == trx_rseg[t] IN
  /\ pc[t] = "c_rseg"
  /\ Free(rseg_mutex[r])
  /\ pc' = [pc EXCEPT ![t] = IF update_undo[t] THEN "c_no" ELSE "c_mtr"]
  /\ UNCHANGED <<conc_state, trx_id, trx_no, trx_rseg, insert_undo,
                 update_undo, undo_no, read_view, commit_lsn, rseg_mutex,
                 rseg_latch, trx_list, max_trx_id, latest_rseg, history, log,
                 flushed_lsn, commits>>

(***************************************************************************)
(* mutex_enter(rseg->mutex), taken whenever the trx has an undo log; the   *)
(* insert undo state is set at finish.  With an update undo the trx keeps  *)
(* the mutex for the trx_no and the history list.  Without one, only the   *)
(* insert undo page (latched by this trx's mtr alone) is written before    *)
(* mutex_exit, so enter and exit are one step: the guard is the wait for   *)
(* the mutex and the holder is unchanged after the step.                  *)
(***************************************************************************)
CommitRseg(t) ==
  LET r == trx_rseg[t] IN
  /\ pc[t] = "c_rseg"
  /\ Free(rseg_mutex[r])
  /\ IF update_undo[t]
       THEN /\ rseg_mutex' = [rseg_mutex EXCEPT ![r] = t]
            /\ pc' = [pc EXCEPT ![t] = "c_no"]
       ELSE /\ pc' = [pc EXCEPT ![t] = "c_mtr"]
            /\ UNCHANGED rseg_mutex
  /\ UNCHANGED <<conc_state, trx_id, trx_no, trx_rseg, insert_undo,
                 update_undo, undo_no, read_view, commit_lsn,
                 rseg_latch, trx_list, max_trx_id, latest_rseg, history, log,
                 flushed_lsn, commits>>

\* Under the kernel mutex: trx->no = trx_sys_get_new_trx_no().
CommitAssignNo(t) ==
  /\ Goto(t, "c_no", "c_hist")
  /\ trx_no' = [trx_no EXCEPT ![t] = max_trx_id]
  /\ max_trx_id' = max_trx_id + 1
  /\ log' = log \o trx_sys_get_new_trx_no_log
  /\ UNCHANGED <<conc_state, trx_id, trx_rseg, insert_undo, update_undo,
                 undo_no, read_view, commit_lsn, rseg_mutex,
                 rseg_latch, trx_list, latest_rseg, history, flushed_lsn,
                 commits>>

\* Mutant: the history list is updated without the rseg header page latch.
CommitHistory_NoLatch(t) ==
  LET r == trx_rseg[t] IN
  /\ Goto(t, "c_hist", "c_mtr")
  /\ history' = [history EXCEPT ![r] =
                   Append(@, [trx |-> trx_id[t], no |-> trx_no[t]])]
  /\ rseg_mutex' = [rseg_mutex EXCEPT ![r] = NONE]
  /\ update_undo' = [update_undo EXCEPT ![t] = FALSE]
  /\ UNCHANGED <<conc_state, trx_id, trx_no, trx_rseg, insert_undo, undo_no,
                 read_view, commit_lsn, rseg_latch, trx_list, max_trx_id,
                 latest_rseg, log, flushed_lsn, commits>>

(***************************************************************************)
(* trx_undo_set_state_at_finish and trx_undo_update_cleanup: the update    *)
(* undo log is added to the rseg history list, which x-latches the rseg    *)
(* header page in the commit mtr; then mutex_exit(&rseg->mutex).           *)
(***************************************************************************)
CommitHistory(t) ==
  LET r == trx_rseg[t] IN
  /\ Goto(t, "c_hist", "c_mtr")
  /\ Free(rseg_latch[r])
  /\ rseg_latch' = [rseg_latch EXCEPT ![r] = t]
  /\ history' = [history EXCEPT ![r] =
                   Append(@, [trx |-> trx_id[t], no |-> trx_no[t]])]
  /\ rseg_mutex' = [rseg_mutex EXCEPT ![r] = NONE]
  /\ update_undo' = [update_undo EXCEPT ![t] = FALSE]
  /\ UNCHANGED <<conc_state, trx_id, trx_no, trx_rseg, insert_undo, undo_no,
                 read_view, commit_lsn, trx_list, max_trx_id,
                 latest_rseg, log, flushed_lsn, commits>>

\* Mutant: mtr_commit does not release the page latches.
CommitMtr_KeepLatch(t) ==
  LET r == trx_rseg[t]
      lsn == Len(log) + 1
  IN
  /\ Goto(t, "c_mtr", "c_mem")
  /\ log' = Append(log, [type |-> "commit", trx |-> trx_id[t], no |-> trx_no[t]])
  /\ commit_lsn' = [commit_lsn EXCEPT ![t] = lsn]
  /\ commits' = commits \cup
       {[trx |-> trx_id[t], no |-> trx_no[t], rseg |-> r, lsn |-> lsn,
         view |-> read_view[t]]}
  /\ UNCHANGED <<conc_state, trx_id, trx_no, trx_rseg, insert_undo,
                 update_undo, undo_no, read_view, rseg_mutex, rseg_latch,
                 trx_list, max_trx_id, latest_rseg, history, flushed_lsn>>

\* mtr_commit: the commit record gets its LSN; the page latches are released.
CommitMtr(t) ==
  LET r == trx_rseg[t]
      lsn == Len(log) + 1
  IN
  /\ Goto(t, "c_mtr", "c_mem")
  /\ log' = Append(log, [type |-> "commit", trx |-> trx_id[t], no |-> trx_no[t]])
  /\ commit_lsn' = [commit_lsn EXCEPT ![t] = lsn]
  /\ rseg_latch' = [s \in Rseg |-> IF rseg_latch[s] = t THEN NONE ELSE rseg_latch[s]]
  /\ commits' = commits \cup
       {[trx |-> trx_id[t], no |-> trx_no[t], rseg |-> r, lsn |-> lsn,
         view |-> read_view[t]]}
  /\ UNCHANGED <<conc_state, trx_id, trx_no, trx_rseg, insert_undo,
                 update_undo, undo_no, read_view, rseg_mutex,
                 trx_list, max_trx_id, latest_rseg, history, flushed_lsn>>

\* Under the kernel mutex: TRX_COMMITTED_IN_MEMORY, locks released, the read
\* view closed.
CommitInMemory(t) ==
  /\ Goto(t, "c_mem", "c_flush")
  /\ conc_state' = [conc_state EXCEPT ![t] = "COMMITTED_IN_MEMORY"]
  /\ read_view' = [read_view EXCEPT ![t] = NONE]
  /\ UNCHANGED <<trx_id, trx_no, trx_rseg, insert_undo, update_undo, undo_no,
                 commit_lsn, rseg_mutex, rseg_latch, trx_list,
                 max_trx_id, latest_rseg, history, log, flushed_lsn, commits>>

\* Outside the kernel mutex: trx_undo_insert_cleanup frees the insert undo in
\* an mtr of its own, then the log is written per the flush policy.
CommitFlush(t) ==
  LET freeIns == IF insert_undo[t]
                   THEN <<[type |-> "free_ins", trx |-> trx_id[t]]>> ELSE <<>>
  IN
  /\ Goto(t, "c_flush", "c_end")
  /\ log' = log \o freeIns
  /\ insert_undo' = [insert_undo EXCEPT ![t] = FALSE]
  /\ LogWriteUpTo(commit_lsn[t], Len(log) + Len(freeIns))
  /\ UNCHANGED <<conc_state, trx_id, trx_no, trx_rseg, update_undo, undo_no,
                 read_view, commit_lsn, rseg_mutex, rseg_latch,
                 trx_list, max_trx_id, latest_rseg, history, commits>>

\* Back under the kernel mutex: NOT_STARTED, out of trx_list.
CommitEnd(t) ==
  /\ Goto(t, "c_end", "idle")
  /\ CommitCleanup(t)
  /\ commit_lsn' = [commit_lsn EXCEPT ![t] = 0]
  /\ trx_no' = [trx_no EXCEPT ![t] = LSN_MAX]
  /\ UNCHANGED <<trx_id, insert_undo, update_undo, read_view,
                 rseg_mutex, rseg_latch, max_trx_id, latest_rseg, history, log,
                 flushed_lsn, commits>>

\* The master thread's once-a-second log_buffer_flush_to_disk writes and
\* flushes the whole log buffer.
LogFlush ==
  /\ flushed_lsn < Len(log)
  /\ flushed_lsn' = Len(log)
  /\ UNCHANGED <<trxVars, rseg_mutex, rseg_latch, trx_list,
                 max_trx_id, latest_rseg, history, log, commits>>

-----------------------------------------------------------------------------
\* Steps a client calls.
ClientStep(t) ==
  \/ trx_start(t)
  \/ \E op \in {"INSERT", "MODIFY"} : trx_undo_report_row_operation(t, op)
  \/ trx_assign_read_view(t)
  \/ PrepareNoUndo(t) \/ PrepareBegin(t)
  \/ CommitNoUndo(t) \/ CommitBegin(t)

\* Steps inside trx_prepare / trx_commit, once the call has begun.
InternalStep(t) ==
  \/ PrepareRseg(t) \/ PrepareMtr(t) \/ PrepareInMemory(t) \/ PrepareFlush(t)
  \/ CommitRseg(t) \/ CommitAssignNo(t) \/ CommitHistory(t) \/ CommitMtr(t)
  \/ CommitInMemory(t) \/ CommitFlush(t) \/ CommitEnd(t)

\* Every id below MaxTrxId is used and every trx is back to idle.
Terminated ==
  /\ max_trx_id >= MaxTrxId
  /\ \A t \in Trx : pc[t] = "idle" /\ conc_state[t] = "NOT_STARTED"
  /\ flushed_lsn = Len(log)
  /\ UNCHANGED vars

Next ==
  \/ \E t \in Trx : ClientStep(t) \/ InternalStep(t)
  \/ LogFlush
  \/ Terminated

\* A thread inside prepare or commit keeps running: every step it can take
\* is eventually taken.  Clients and the log writer need not do anything.
Fairness == \A t \in Trx : WF_vars(InternalStep(t))

Spec == Init /\ [][Next]_vars /\ Fairness

-----------------------------------------------------------------------------
TypeOK ==
  /\ conc_state \in [Trx -> States]
  /\ trx_id \in [Trx -> Nat]
  /\ trx_no \in [Trx -> Nat]
  /\ trx_rseg \in [Trx -> Rseg \cup {NONE}]
  /\ insert_undo \in [Trx -> BOOLEAN] /\ update_undo \in [Trx -> BOOLEAN]
  /\ undo_no \in [Trx -> Nat]
  /\ commit_lsn \in [Trx -> Nat]
  /\ pc \in [Trx -> Steps]
  /\ rseg_mutex \in [Rseg -> Trx \cup {NONE}]
  /\ rseg_latch \in [Rseg -> Trx \cup {NONE}]
  /\ trx_list \in Seq(Trx)
  /\ max_trx_id \in Nat /\ latest_rseg \in Rseg
  /\ log \in Seq(LogRec)
  /\ flushed_lsn \in 0 .. Len(log)

(***************************************************************************)
(* The history list of every rseg is in trx_no order.  Purge takes the     *)
(* oldest undo log of each list as the one with the smallest trx_no;       *)
(* trx_commit_off_kernel keeps the rseg mutex from taking the trx_no until *)
(* the undo log is in the list so that no other commit can come between.   *)
(***************************************************************************)
HistoryInTrxNoOrder ==
  \A r \in Rseg : IsSorted([i \in DOMAIN history[r] |-> history[r][i].no], <)

(***************************************************************************)
(* Within one rseg, commit LSNs follow trx_no order: a trx with a smaller  *)
(* trx_no writes its commit record earlier.  The rseg mutex is released    *)
(* before mtr_commit, so this rests on the rseg header page latch the      *)
(* commit mtr holds until mtr_commit.                                      *)
(***************************************************************************)
CommitLsnFollowsTrxNo ==
  \A c1, c2 \in commits :
    c1.rseg = c2.rseg /\ c1.no < c2.no /\ c2.no # LSN_MAX => c1.lsn < c2.lsn

(***************************************************************************)
(* The claim of the comments in trx_commit_off_kernel: if T2 can see the   *)
(* modifications of T1, T2 gets a bigger trx number and a bigger commit    *)
(* LSN than T1.  T1 is visible once COMMITTED_IN_MEMORY, before its log is *)
(* flushed, so this is what makes recovery never keep T2 without T1.      *)
(***************************************************************************)
SeenCommitsPrecede ==
  \A c1, c2 \in commits :
    (c1.trx # c2.trx /\ Sees(c2.view, c1.trx)) =>
      /\ c1.lsn < c2.lsn
      /\ (c1.no # LSN_MAX /\ c2.no # LSN_MAX) => c1.no < c2.no

(***************************************************************************)
(* trx_is_active answers from trx_list: ids below the id of the LAST trx   *)
(* are taken to be inactive without a lookup.  It must agree with the      *)
(* states of the trxs for every id allocated so far.                       *)
(***************************************************************************)
TrxIsActiveCorrect ==
  \A i \in InitMaxTrxId .. max_trx_id - 1 :
    trx_is_active(i) <=>
      \E t \in Trx : trx_id[t] = i /\ conc_state[t] \in {"ACTIVE", "PREPARED"}

(***************************************************************************)
(* No rseg mutex and no rseg header latch is held by a thread that has     *)
(* returned from its prepare or commit: the mini-transaction that takes    *)
(* the header latch releases it at mtr_commit and the rseg mutex is left   *)
(* before the kernel-mutex step.  A leaked one is the first link of a      *)
(* wait cycle with the kernel mutex that would hang every later commit.    *)
(***************************************************************************)
NoLatchHeldAfterReturn ==
  \A r \in Rseg :
    /\ rseg_mutex[r] # NONE => pc[rseg_mutex[r]] # "idle"
    /\ rseg_latch[r] # NONE => pc[rseg_latch[r]] # "idle"

=============================================================================
