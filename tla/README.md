# TLA+ models of embedded-innodb

This directory holds TLA+ models of the concurrent and crash-sensitive parts
of the embedded InnoDB engine under `src/`, with TLC configurations that check
them. `PROJECT.json` lists:

- every component, modelled or not;
- every TLC run with its properties;
- the mutant that each property must catch;
- the source lines behind each definition;
- the hazards of the code.

## The system and its parts

A client transaction does its work in these steps:

1. It starts under the kernel mutex (`trx_start_low`). This gives it an id
   from the shared counter `trx_sys->max_trx_id` and a rollback segment
   (rseg), chosen round robin.
2. Before each row change it writes an undo record
   (`trx_undo_report_row_operation`). The rseg mutex guards the assignment of
   an undo log and the extension of its pages.
3. It may take a read view, a snapshot of the active transaction ids.
4. It commits (`trx_commit_off_kernel`) or first prepares
   (`trx_prepare_off_kernel`).

Commit hands off between several locks:

1. It leaves the kernel mutex and takes the rseg mutex.
2. Under the kernel mutex again, it takes a transaction number `trx_no` from
   the same counter as the ids.
3. It adds its update undo log to the rseg history list, latching the rseg
   header page inside its mini-transaction (mtr).
4. It releases the rseg mutex.
5. It commits the mtr. This gives the commit its LSN (log sequence number).
6. Back under the kernel mutex, it becomes COMMITTED_IN_MEMORY, which makes it
   visible to other transactions.
7. Outside the kernel mutex, it flushes the log according to
   `srv_flush_log_at_trx_commit`.
8. Under the kernel mutex once more, it leaves `trx_list`.

Other transactions run these steps at the same time, so the steps of two
commits can interleave at every point where a lock is released.

Below the transaction system:

- **Undo log records** (`trx0rec.cc`) are written on each row change and read
  back to rebuild old row versions for read views.
- **The buffer-pool flush pipeline** (`buf0flu.cc`) writes dirty pages in
  batches. Each batch goes through the doublewrite buffer (`trx0sys.cc`), and
  it follows the write-ahead-log rule: the log up to a page's newest LSN is
  flushed before that page is written.
- **At startup**, pages torn by a crash are restored from the doublewrite
  copy (`trx_sys_doublewrite_init_or_restore_pages`). The transaction lists
  are rebuilt from the undo logs (`trx_lists_init_at_db_start`).
- **The persistent cursor** (`btr0pcur.cc`) saves a position across mtr
  commits and restores it, optimistically when the page's `modify_clock` is
  unchanged.
- **The redo log records** (`mtr0log.cc`) are written by each mtr into a
  dyn array, appended to the redo log at mtr commit, and parsed and applied
  at startup. A record insert logs the record in **the record format**
  (`rem0rec.cc`), which recovery must rebuild byte for byte.

The code of these parts is not under `src/`: the lock manager, purge, the read
view (UndoRec takes the last two from the spec), the log system and the
undo-segment code (`trx0undo`). Where a model needs them, it takes their
behaviour from `spec.md`, and `PROJECT.json` marks those definitions `spec_modelled`.

## Modules

### TrxSys: the transaction system (`trx0trx.cc`, `trx0sys.h`, `trx0sys.cc`, `trx0rec.cc`)

**State.** Per transaction:

- `conc_state`, `trx_id`, `trx_no` and `trx_rseg`;
- whether an insert or update undo log is assigned (`insert_undo`,
  `update_undo`) and `undo_no`;
- `read_view`;
- the local `lsn` of a commit or prepare in progress (`commit_lsn`);
- `pc`, the step of the commit or prepare the transaction is in.

Shared:

- the holders of each rseg mutex (`rseg_mutex`) and of each rseg header page
  latch (`rseg_latch`);
- `trx_list`, newest first;
- `max_trx_id` and `latest_rseg`;
- the history list of each rseg;
- the redo `log`, a sequence of records, and its durable prefix
  `flushed_lsn`;
- `commits`, a history variable with one record per commit: id, number, rseg,
  LSN and the read view the transaction held.

**Abstraction.** A section under the kernel mutex that takes no other latch is
one atomic action, so the kernel mutex has no variable. The rseg mutex and the
header-page latch are held across steps, so they are variables.

**Actions.**

| Action | Code |
|---|---|
| `trx_start` | `trx_start_low`, with `trx_assign_rseg` and `trx_sys_get_new_trx_id` (its margin write to the header is a log record) |
| `trx_undo_report_row_operation` | the same function: the record fits; the page is full and `trx_undo_add_page` extends the log under the rseg mutex (an erase record, then the record on the new page); the extension runs out of space (`UndoSpaceFull`, erase record only). A failed assignment changes nothing, so it is a stutter. |
| `trx_assign_read_view` | the same function |
| `PrepareNoUndo` | `trx_prepare_off_kernel` for a transaction with no undo log |
| `PrepareBegin` … `PrepareFlush` | `trx_prepare_off_kernel`, one action per lock acquisition |
| `CommitNoUndo` | `trx_commit_off_kernel` for a transaction with no undo log |
| `CommitBegin`, `CommitRseg`, `CommitAssignNo`, `CommitHistory`, `CommitMtr`, `CommitInMemory`, `CommitFlush`, `CommitEnd` | the steps of `trx_commit_off_kernel` between lock acquisitions. For a trx with only an insert undo log, `CommitRseg` enters and leaves the rseg mutex in one step: in between only that trx's own insert undo page is written, which no other thread reads. |
| `LogFlush` | the master thread's periodic log flush |

**Properties.**

- `HistoryInTrxNoOrder`: each rseg history list is in `trx_no` order. Purge
  relies on this.
- `CommitLsnFollowsTrxNo`: within one rseg, a smaller `trx_no` has a smaller
  commit LSN.
- `SeenCommitsPrecede`: the claim of the comments in `trx_commit_off_kernel`.
  If T2's read view sees T1, then T1 has the smaller commit LSN and the
  smaller `trx_no`.
- `TrxIsActiveCorrect`: `trx_is_active`, with its shortcut through
  `trx_list_get_min_trx_id`, agrees with the states of the transactions.
- `NoLatchHeldAfterReturn`: no rseg mutex or rseg header latch is held by a
  transaction that has returned to its client. `trx_commit_off_kernel` takes
  the rseg mutex and the header page latch (through the mtr) and must release
  both (`mtr_commit`, `mutex_exit`) before it returns. A latch kept past the
  return would leave the other transaction on the same rseg waiting forever,
  a wait cycle no test with one transaction meets. That commits eventually
  return is checked as a liveness property on the recovery model
  (`RecoveryCompletes`, second conjunct).

**Fairness.** `WF_vars(InternalStep(t))` for each transaction. A thread inside
`trx_commit` or `trx_prepare` runs until it blocks on a mutex, and the mutexes
it waits for are released by threads in the same situation. No fairness is
assumed for clients, which may stop calling at any time, or for the
background log writer.

### Runs

| Run | Config | What it shows |
|---|---|---|
| `trxsys_same_rseg` | `MC_TrxSys.cfg` | Rsegs {0, 1}, so both transactions use rseg 1 and meet on its mutex and header latch. Flush policy 1. The out-of-space path is on. Checks TypeOK, the four safety properties and `NoLatchHeldAfterReturn`. |

Two transactions on different rsegs (three rsegs, round robin), where
`trx_no` and LSN order may disagree, are not a run of their own: the project
keeps one run per question, and `SeenCommitsPrecede` is checked on the shared
rseg, where its mutant is caught as well.

**Bounds.** Two transactions, which is the smallest number that interleaves.
`IdMargin` = 2, so the margin write to the header happens during the run. The
counter starts at `align_up(1, 2) + 2*2 = 6`. Starts stop at `MaxTrxId` = 9 in this run,
which leaves room for several starts and trx numbers. Undo reports stop once
the log holds `MaxLogLen` = 3 records, enough for an undo record of each
transaction. Each safety run explores 1.8M to 5.6M distinct states in at most
two minutes.

### TrxRecovery: crash and restart (`trx_sys_init_at_db_start`, `trx_lists_init_at_db_start`, `trx_cleanup_at_db_startup`)

TrxRecovery EXTENDS TrxSys and adds:

- `is_recovered` (`trx->is_recovered`);
- `acked`, a history variable with the ids whose commit returned to a client;
- `restarts`.

**CrashRestart.** The crash may happen between any two TrxSys steps. The
restart is one step, because startup is single-threaded. It does the
following:

- It keeps only the log up to `flushed_lsn`.
- It sets `max_trx_id = align_up(stored, M) + 2M`. `stored` is the value of
  the last durable margin write, or the 1 that `trx_sysf_create` wrote.
- It rebuilds `trx_list` with the recursive operator
  `trx_list_insert_ordered`.
- It takes each recovered transaction's state from its undo log:
  - still ACTIVE;
  - PREPARED, or ACTIVE under `ForceRecovery`;
  - finished, which recovers as COMMITTED_IN_MEMORY.
- It keeps the history-list entries whose commit record survived.

**What the durable log leaves on disk.** The code that manages undo segments
(`trx0undo`) is not under `src/`. These definitions come from the spec and
are marked `spec_modelled`:

- An undo log exists once one of its records is durable.
- The commit mtr moves the update undo log to the history list.
- The insert undo log stays in state TO_FREE until the `free_ins` mtr.
- The model always takes TO_FREE, never the cached-segment alternative. This
  keeps the cleanup path of `trx_cleanup_at_db_startup` reachable.

**Recovered transactions.**

- Each recovered transaction gets a fresh trx object, a handle of `Trx`
  chosen injectively.
- The background rollback thread (`trx_rollback_or_clean_all_recovered`,
  spec_modelled) does one of two things. For a recovered COMMITTED_IN_MEMORY
  transaction it calls `trx_cleanup_at_db_startup`. For a recovered ACTIVE
  one it applies the undo and finishes through the commit steps of TrxSys.
- A client may commit a recovered PREPARED transaction that it found by XID.
- One XA caller (`XaCaller`, variables `xa_pc`, `xa_xid`, `xa_trx`), the
  thread of an external transaction manager that resolves in-doubt
  transactions after a restart:
  - `XaRecover`: calls `trx_recover` (a list of at most `XaListLen` XIDs of
    PREPARED transactions, in `trx_list` order) and picks one XID. An XID is
    modelled by the trx id `trx_prepare` wrote it with.
  - `XaLookup`: `trx_get_trx_by_xid` scans `trx_list` under the kernel
    mutex, returns the first transaction with that XID and releases the mutex.
  - `XaCheck`: the rest of `trx_get_trx_by_xid`, after `mutex_exit`: it
    returns the handle only if it is still PREPARED, otherwise NULL, and the
    caller gives up.
  - `XaCommit`/`XaCommitReturn`: the caller's own thread runs `trx_commit` on
    the handle through the TrxSys commit steps; a recovered PREPARED
    transaction has no other thread, and `XaCommitReturn` is the return
    from `trx_commit` once the commit has ended.
- Two callers resolving the same XID at once is not modelled:
  `trx_get_trx_by_xid` hands out the pointer after releasing the kernel
  mutex, so two callers for one XID could both commit it, but nothing under
  `src/` calls it; the hazard is listed with this note.

**Properties.**

| Property | What it states | Mutant that breaks it |
|---|---|---|
| `NoIdReuse` | Every id and every trx number in the log stays below `max_trx_id`, across the restart. | The restart value without the two margins. |
| `CommitOwnsTrx` | A transaction between COMMITTED_IN_MEMORY and the end of its commit is still in `trx_list` in that state. | `trx_commit_off_kernel` without `trx->is_recovered = false` (line 677). The background thread then cleans up a recovered prepared transaction that a client is committing. |
| `AckedCommitsDurable` | With flush policy 1, every acknowledged commit has its commit record in the log, which survives a crash. | Policy 1 writes the log without flushing it. |
| `TrxIsActiveCorrect` | After restart it holds on the rebuilt `trx_list`. | Insertion at the end of the list. |
| `RecoveryCompletes` (liveness) | Recovered non-prepared transactions are rolled back or cleaned up, and every commit that begins returns. | — |

**Runs.**

- `trx_recovery` (`MC_TrxRecovery.cfg`, 520k states, about one minute):
  - two trx objects, rsegs {0, 1}, `IdMargin` = 2;
  - starts stop at id 10, and trx numbers are still drawn after the restart;
  - one crash, flush policy 1;
  - one XA caller, lists of at most 2 XIDs;
  - the state constraint `MC_NoReadView` keeps read views out: recovery
    reads nothing of them, and `trx_assign_read_view` is covered by the
    `trxsys_same_rseg` run;
  - checks the four safety properties.
- `trx_recovery_progress` (`MC_TrxRecovery_live.cfg`, 320k states, about two
  minutes):
  - starts stop at id 8: two starts (ids 6 and 7) before the crash, so that
    two recovered transactions, each ACTIVE or COMMITTED_IN_MEMORY, wait on
    the background thread together;
  - the same `MC_NoReadView` constraint, no symmetry, no XA callers;
  - `CHECK_DEADLOCK FALSE`. The model ends in a stuttering step once the ids
    are used up; a commit stuck on a latch would also be a state with no
    successor, and with the deadlock check off it becomes a violation of
    `RecoveryCompletes`, reported with its trace.

**Fairness.** Weak fairness of the background rollback thread, which runs
from startup until it has handled every recovered transaction. Weak fairness
of every step inside commit.

**Bounds that limit the crash points.** A crash is possible only where the
recovered transactions fit in `Trx`. Under flush policy 1 this holds
everywhere. The reason is that `CommitFlush` writes the `free_ins` record with
the commit record, so a trx object is reused only after its previous
transaction has fully left the undo lists.

### BufFlush: the flush pipeline (`buf0flu.cc`, `os0sync.h`)

**Threads.** `User` threads run mini-transactions and, when fewer than
`FreeBlockMargin` pages are replaceable, an LRU batch
(`buf_flush_free_margin`). The `Master` thread runs flush-list batches
(`buf_flush_batch(BUF_FLUSH_LIST, n, IB_UINT64_T_MAX)`). The i/o handler
completes page writes (`buf_flush_write_complete`) at any time.

**State.**

- Per page (`buf_page_t`): `oldest`, `newest` (modification LSNs), `io_fix`,
  `flush_type`, `xholder` (the mtr holding the x-latch), `fixed` (threads that
  buffer-fixed it) and `slatch` (the flusher's s-latch during the write).
- The pool: `flush_list` (newest first), `lru`, and per batch type `n_flush`,
  `init_flush` and the `no_flush` event.
- The log: `log[i]` is the set of pages record `i` changes; `flushed_lsn`.
- Doublewrite and files: `dw_mutex`, `dw_mem` (the memory buffer up to
  `first_free`), `dw_cache`/`dw_disk` (the doublewrite area, written and
  forced), `home_cache`/`home` (data pages, written and forced), `pending`
  (asynchronous writes not yet completed).
- Per thread: `pc`, a call `stack` (buffered writes is called from three
  places and returns to each), `victim`, `page_count`, `min_n`, `btype`, and
  `woken`, which stands for the event's `signal_count`.

**Atomicity.** Every section under `buf_pool_mutex` is one step, so that
mutex has no variable. The doublewrite mutex and the page latches are held
across steps and are variables.

**Actions.** `buf_flush_batch` is split at its mutex boundaries:
`buf_flush_batch_begin` (exclusion of a second batch of the same type),
`buf_flush_batch_scan`, `buf_flush_try_neighbors` (with `buf_flush_page`),
`buf_flush_page_s_lock`, `buf_flush_write_block_low`,
`buf_flush_post_to_doublewrite_buf` and `buf_flush_batch_end`.
`buf_flush_buffered_writes` has one action per stage: `_lock`, `_dw` (the
synchronous writes of block1 and block2), `_fsync` (`fil_flush`), `_home`
(the asynchronous home writes) and `_sync` (`buf_flush_sync_datafiles`, then
`first_free = 0`). The home write takes the block's current frame
(`block->frame`, buf0flu.cc:627), not the doublewrite copy. The LRU list is shorter than `BUF_LRU_OLD_MIN_LEN`, so the
neighbour area of `buf_flush_try_neighbors` is the page itself. The mtr
actions (`MtrGetPage`, `MtrXLatch`, `MtrCommit`) and the master thread come
from the spec, since `mtr0mtr` and `buf0buf` are not under `src/`. An mtr
latches pages in ascending order, as InnoDB's latching order requires.

**Fairness.** Flush steps and the i/o handler are weakly fair. A thread
waiting for a page latch is strongly fair, since a latch that is free
infinitely often is granted (`rw_lock` wakes its waiters). An mtr that holds
latches commits.

| Run | Config | What it shows |
|---|---|---|
| `bufflush_two_users` | `MC_BufFlush_two.cfg` | Two users under symmetry, so LRU batches collide and one user sleeps in `buf_flush_wait_batch_end`. Checks `NoLostWakeup` and `WALRule`. About 1M states. |
| `bufflush_progress` | `MC_BufFlush_live.cfg` | `AllCallsReturn` under the fairness above, with one user. |

**Bounds.** Two pages are enough for a batch to meet an mtr on another page
and for the flush list to have an order. `DwBlockSize` 1 gives a two-slot
doublewrite buffer, and the third page of the recovery run fills it. `MaxLsn`
bounds the log. `MaxLatches` 2 lets an mtr hold both pages; the two-user
run uses 1 to stay near one minute.

**A limit of the progress run.** With two users TLC finds a cycle in which
an LRU batch scans, the other user buffer-fixes the victim, the batch skips
it and finds it again. This needs the other thread to fix the page at the
exact moment on every round, forever, so the progress run uses one user. The
event protocol for two users is checked by the safety property
`NoLostWakeup` instead. The hazard is listed in `PROJECT.json`.

### BufFlushRecovery: crash, doublewrite restore and redo

BufFlushRecovery EXTENDS BufFlush with `restarts` and `fatal`.
`CrashRestart` may happen between any two steps. Every write the file
system has accepted but not forced (`home_cache`, `dw_cache`) ends up old,
new or torn (`TORN`). Then, in order:

1. `trx_sys_doublewrite_init_or_restore_pages` goes over the slots of the
   doublewrite area. A torn data page is rewritten from its copy. A torn copy
   of a torn page is fatal (`log_fatal` in the code).
2. Redo (from the spec) brings each page up to the durable log. A page that
   needed redo is dirty from the first record it applied, and is put on the
   flush list by `buf_flush_insert_sorted_into_flush_list`.
3. All in-memory state is reset.

`MC_BufFlushRecovery.cfg` (run `bufflush_recovery`) allows one crash, with
three pages, `MaxLsn` 3 and one page latch at a time. The third page fills the
two-slot doublewrite buffer, so the `try_again` path is taken.
`ExtraMargin` 0 makes an LRU batch ask for one page, which keeps the run
under five minutes; the master's flush-list batches still post all three
pages. It checks
`TornPagesRestored`, `CheckpointLsnSafe`, `WALRule`, `TypeOK`,
`CleanPagesWritten` and `DwSlotsDistinctUnderIo`. The last says that the
doublewrite buffer never holds one page twice, and that outside the
doublewrite mutex every page in it is still write-fixed. Without the
`io_fix` test of `buf_flush_ready_for_flush` a batch re-posts a page that is
already in the buffer.

Not modelled: the branch of `buf_flush_buffered_writes` that writes pages
directly when `srv_use_doublewrite_buf` is FALSE (buf0flu.cc:460-464). The
model always uses the doublewrite buffer, which is the default and the only
path that `trx_sys_doublewrite_init_or_restore_pages` relies on.

### PcurAbstract and Pcur: the persistent cursor (`btr0pcur.cc`)

**PcurAbstract** says what a persistent cursor promises, over the key set of
an index with no pages or latches. A position is a point of the key line:
`2*k` is the record with key `k`, and an odd number is a gap. `apos` is the
cursor's point, or NONE when no mtr holds its page. `stored` is the pair
`<<key, ON | BEFORE | AFTER>>` that `store_position` saved, or a whole-tree
sentinel. The actions are:

- `Open`, `Move` (to a neighbouring point, with no key skipped), `Store` and
  `Release`;
- `Restore`, which returns TRUE exactly when the stored key is still in the
  index, and then lands on it. Otherwise it lands just below (ON, BEFORE) or
  just above (AFTER) the key;
- `Modify`, for other sessions, which never removes the record under the
  cursor.

**Pcur** models the code. The leaf level is `chain`, a sequence of blocks.
Each block has `content` (its keys), `lowkey` (its node-pointer key) and
`clock` (its `modify_clock`). `cur` has the fields of `btr_pcur_t` that the
code reads: `pos_state`, the page cursor (`block` and `rec`, with `INF` and
`SUP` for the infimum and supremum records), `latch_mode`, `old_stored`,
`rel_pos`, `old_rec`, `block_when_stored` and `modify_clock`.
`clatch` is the set of blocks latched in the cursor thread's mtr. `pc` is the
caller's place:

- committed, then `MtrStart`, then restart;
- a restore or an open, then idle;
- idle, then `MtrCommit`;
- `mb_restore`, between the two mtrs of `move_backward_from_page`;
- halted, after `ut_error` or a failed `ut_a`.

Each function is one action, with its guards from the code:

- `restore_position` is three actions: the whole-tree sentinel, the
  optimistic `try_get`, and the search (`RestoreBySearch`, which stores the
  position again when it does not find the same record).
- `move_backward_from_page` is two actions, because it commits and restarts
  its mtr in the middle.

Other sessions run `Insert` (with a split at any point of a full page) and
`Delete` (discarding an emptied page) as atomic steps. They never touch a
block the cursor has latched. They bump the `modify_clock` of each block they
change, up to `MaxClock`.

The refinement mapping in `Pcur.tla` is:

| PcurAbstract | Pcur |
|---|---|
| `index` | the union of `content` over the chain |
| `apos` | the point of `cur` when `pc` is idle and the cursor is positioned |
| `stored` | the stored key and `rel_pos` |

The infimum of a block is the point `2*lowkey-1`, and its supremum is
`2*lowkey(next)-1`. A move from one page's supremum to the next page's
infimum is therefore a step that stays on the same point.

`MC_Pcur` uses keys 1..3, three blocks, pages of two records and `MaxClock`
2\. With these bounds a page splits, an emptied page is discarded and a clock
moves while a position is stored. The constant `LeafRelease` says whether
callers use `release_leaf`.

| Run | Cfg | Checks | Result |
|---|---|---|---|
| pcur_refinement | `MC_Pcur.cfg`, LeafRelease FALSE | `TypeOK`, `PcurRefinement` (`Abs!Spec`) | holds, 135k states |
| pcur_release | `MC_Pcur_release.cfg`, LeafRelease TRUE | `RestoreTrueExact` | holds, 62k states with symmetry |
| pcur_leaf_latch | `MC_Pcur_latch.cfg`, LeafRelease TRUE | `PositionedCursorLatched` | violated |

The violation is a finding. `restore_position` sets `m_latch_mode` only in
the optimistic ON branch (line 182). After `release_leaf` sets
`BTR_NO_LATCHES`, an optimistic restore of a BEFORE or AFTER position leaves
the cursor IS_POSITIONED with no latch mode. Then:

- `move_to_next_page` fetches the next page unlatched;
- `store_position` fails its `ut_a`;
- `move_backward_from_page` reaches `ut_error`.

The two LeafRelease runs set `CHECK_DEADLOCK FALSE`. An abort halts the
cursor thread, and then the other sessions run out of clock bound.

### Rec and MtrLog: the record format and the redo log records (`rem0rec.cc`, `mtr0log.cc`, `dyn0dyn.cc`)

**Rec** is a module of pure operators, with no variables. It models how
`rec_convert_dtuple_to_rec` lays a data tuple out as a record, in both
formats:

- the compact format (`_new`, `_comp`): a null bitmap, then 1- or 2-byte
  lengths, kept byte by byte below the record origin;
- the old format (`_old`): 1- or 2-byte field end offsets with the SQL-NULL
  and extern flags.

It also models how the record is read back:

- `rec_init_offsets` and `rec_init_offsets_comp_ordinary`,
  `rec_get_offsets_func` and `rec_get_offsets_reverse`;
- `rec_get_nth_field_offs_old`, `rec_get_n_extern_new`;
- `rec_copy_prefix_to_buf(_old)`, `rec_copy_prefix_to_dtuple` (checked only
  on prefixes with no external field, as the `ut_ad` at rem0rec.cc:1088
  requires);
- `rec_validate(_old)`, and `rec_set_nth_field_sql_null`.

Data bytes are abstracted to their count. A field's column is reduced to
`fixed_len`, `not_null` and `big` (`col->len > 255` or a BLOB), which is all
the format depends on. `Layout` is the reference: field *i* ends where the
data of fields 1..*i* ends, and is flagged NULL or external as the tuple says.

**MtrLog** EXTENDS Rec. Its state is:

- the page bytes and records a write touches (`page`);
- the running mtr's log (`mlog`) and its dyn-array block fill levels
  (`blocks`);
- the redo log (`log`), the page images after each commit (`images`, with
  their log offsets `bounds`);
- the recovery state (`recv`).

Actions:

- `MtrStart` and `MtrCommit`;
- one writer action per logging function: `mlog_write_ulint`,
  `mlog_write_uint64`, `mlog_write_string` (with `mlog_log_string` and
  `mlog_catenate_string`), `page_create` (`mlog_write_initial_log_record`) and
  `page_cur_insert_rec`;
- `Crash`, which cuts the log at any byte not yet flushed;
- `RecvApply` and `RecvEnd`, which parse one mtr group at a time with
  `mlog_parse_initial_log_record`, `mlog_parse_nbytes`, `mlog_parse_string`,
  `mlog_parse_index` and the insert parse, rebuilding each record with a
  dummy index;
- `Restart`.

Each writer produces the exact bytes the code writes, including the
compressed integers (`mach_write_compressed`, 1 to 5 bytes) and the 2-byte
field codes of `mlog_open_and_write_index`. It also tracks the reservations
(`mlog_open`/`mlog_close`, `dyn_array_add_block`) in blocks of
`DYN_ARRAY_DATA_SIZE` bytes.

The insert log record follows `page_cur_insert_rec_write_log` with the
cursor position left out. `page0cur`, `log0recv` and `mach0data` are not
under `src/`, so the insert log body, the recovery loop and the compressed
integer helpers are `spec_modelled`. The helpers (`mach_write_compressed`,
`mach_uint64_write_compressed`, `mach_uint64_write_much_compressed` and their
parsers) are in the module **Mach**, which UndoRec shares; a 32-bit value
from 2^31 on, such as `UNIV_SQL_NULL`, is a negative TLA+ integer there.
For that reason the range checks of `mlog_parse_nbytes` (`val > 0xFF`,
`val > 0xFFFF` on an unsigned `ulint`) also reject a negative value.

Run `mtrlog_recovery` (`MC_MtrLog.cfg`) checks four properties:

- `RedoReplaysWrites`: recovery never reports a corrupt log and never halts on
  a failed `ut_a`. It applies whole mtr groups only, and ends on exactly the
  pages after the last commit that fits in the cut log.
- `DynBlocksBounded`: no dyn-array block overflows.
- `RecordRoundTrip`, an action property on every insert: the inserted record
  reads back as its tuple through every reader above.
- `TypeOK`.

About 110k distinct states, under two minutes.

**Bounds.**

- Four pages whose numbers take 1, 2, 3 and 4 compressed bytes.
- `DynDataSize` 32, so index headers and record bodies cross block
  boundaries.
- `MaxRecs` 2, so an mtr has one record (`MLOG_SINGLE_REC_FLAG`) or two
  (`MLOG_MULTI_REC_END`).
- A crash at every log length.

The record inserts cover these cases:

- a field of 127 and one of 128 bytes, where the 1-byte and 2-byte length
  branches meet;
- an index of 13 nullable fields, whose null bitmap crosses a byte;
- a node pointer;
- old-style records of 1-byte offsets and, with an external field, of 2-byte
  offsets.

This is a safety-only run: recovery is a sequential loop, and no fairness is
assumed.

Not modelled here:

- the LSN check that makes redo idempotent. Each page is recovered once, from
  the image before the first write.
- page flushing during recovery, which BufFlushRecovery covers.
- the doublewrite-page branch of `mlog_write_initial_log_record_fast`.
- the `rec_print*` functions.

### UndoRec: undo records, old versions and purge (`trx0rec.cc`)

UndoRec EXTENDS Mach. Two writer transactions insert, update and
delete-mark one clustered-index row; one reader reads it in a read view;
purge frees undo logs. The index has a one-byte key (field 0), `DB_TRX_ID`,
`DB_ROLL_PTR` and a nullable column `c` (field 3); a secondary index may order
on `c` (`SecIndexOnC`), which decides whether update records carry the
ordering columns.

State: the trx states, ids, trx numbers and `undo_no`; each trx's insert and
update undo log as a list of page numbers; the row (`key`, `c`, info bits,
trx id, roll pointer); each undo page as its `TRX_UNDO_PAGE_FREE` and the
bytes of its data area; the free pages; the redo records of each page since it
was taken (`redo`, with its earlier image `base`); the history list; the
reader; the purge view. `hist`, the sequence of row changes with their trx
ids, is a history variable for the property.

Writing. `trx_undo_page_report_insert` and `trx_undo_page_report_modify`
are sequences of pieces `[need, data]`: each `trx_undo_left(ptr) < need`
check of the code, then the bytes it writes, in the code's order, with the
exact encodings (`mach_uint64_write_much_compressed` for undo_no and table
id, `mach_uint64_write_compressed` for trx id and roll pointer, 5-byte
`0xFFFFFFFF` for a NULL length). `WritePieces` stops at the first failed
check and leaves the bytes written so far, as the code does.
`trx_undo_page_set_next_prev_and_add` writes the prev and next pointers and
the free offset and logs `MLOG_UNDO_INSERT`. `RowOp` is one pass of the loop
of `trx_undo_report_row_operation`: on failure the page end is erased
(`MLOG_UNDO_ERASE_END`) and a page is added, or the operation fails with
`DB_OUT_OF_FILE_SPACE`; `RowOpRetry` is the next pass. The row change follows
in the same step: the row's page stays latched throughout, so no reader or
purge step comes between.

Reading. `ReadStep` is one step of the version walk: a version the view sees
ends it; otherwise `trx_undo_prev_version_build` returns nothing behind an
insert, `DB_MISSING_HISTORY` when `trx_purge_update_undo_must_exist` says so,
or decodes the record the roll pointer addresses (`trx_undo_rec_get_pars`,
`..._get_sys_cols`, `trx_undo_rec_skip_row_ref`,
`trx_undo_update_rec_get_update` with its `field_no` check, the table id
check) and applies it (`row_upd_rec_in_place`). A malformed record is
`DB_ERROR`. Each step is atomic because the code holds the purge latch in S
mode for one step; purge moves between steps.

From the specification (`spec_modelled`): read views (`read_view_open_now`,
`read_view_sees_trx_id`), commit's trx number and history list, freeing the
insert undo log at commit, the row lock, the roll-pointer layout, and purge.
Only a trx with an update undo log gets a trx number and joins the history
list (`CommitAssignNo`); one with only an insert undo log commits without one.
Purge adopts the oldest read view, or a new one when none is open
(`PurgeViewUpdate`); `PurgeTrx` takes the history head once its trx_no is
below the view's `low_limit_no`, removes the row if that trx left it
delete-marked, and frees its pages. Only removing the row needs the row's
page; freeing the undo log does not, so purge may free pages while a reader
is between two steps of its walk. The trx id in an update record is held as
its low word (the model's ids are small), so the decoder has no error for a
non-zero high word. A freed page keeps its bytes until a log
takes it again.

Run `undo_versions` (`MC_UndoRec.cfg`) checks:

- `ConsistentRead`: a finished read returns `DB_SUCCESS` and the value of the
  last change whose trx its view sees (no row for a delete). It fails if the
  walk meets `DB_MISSING_HISTORY`, a reused page or a mis-decoded record.
- `UndoPageReplay`: folding `ApplyUndoLogRec` over each page's redo records
  from its earlier image gives the page as it is.
- `UndoPagesOwnedOnce`: each page is free or in exactly one log, once.
- `TypeOK`.

About 240k distinct states, a little over one minute.

**Bounds.** Two writers with at most two row operations each, one read
view, `c` in {1, 2, NULL}. The row starts absent or as left by an earlier
committed trx. Two undo pages of 128 bytes: the data area (56..119) holds one
update record (about 36 bytes) and the `50`-byte check fails for a second,
so logs take new pages, retries happen, both out-of-space paths are reached,
and purge frees pages that later logs reuse. Table id 300 and rseg 1 make
the table id two compressed bytes and the roll pointer's high word four.
Symmetry over the two writers.

No fairness: the run is safety only. `Terminated` stutters once every trx
has committed and the reader has used its view.

Not modelled here: externally stored columns
(`trx_undo_page_report_modify_ext`, `trx_undo_page_fetch_ext`), the undo log
header on the first page of a log, rollback, and purge's index-entry removal
(`trx_undo_rec_get_partial_row`, `trx_undo_rec_get_row_ref`). A property
that no write leaves the data area was dropped: at the model's ids the
general fields of a modify record take about 20 bytes, far below the `50`
the code checks, and no mutant of a check could make a write reach the page
trailer.

## Not modelled yet, and the plan

`PROJECT.json` lists every component with its status. The next modules are,
in order:

1. **LockSys.** The lock manager, from the spec.
2. Rollback with `trx_undo_rec_get_row_ref` and `trx_undo_rec_get_partial_row`
   (their callers, row0undo and row0purge, are not under `src/`).

Pcur leaves out `copy_stored_position` and the page-cursor overload of
`open_on_user_rec`, because the model has one cursor opened by search. It
also leaves out the non-leaf levels of the tree.

These stay out of the models:

- the page, file-space and dictionary headers, which describe data layout;
- the session allocator (`usr0sess.cc`);
- the API declarations;
- printing.
