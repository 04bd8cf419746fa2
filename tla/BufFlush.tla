------------------------------ MODULE BufFlush ------------------------------
(***************************************************************************)
(* The buffer-pool flush pipeline of buf/buf0flu.cc: the flush list, the   *)
(* LRU and flush-list batches with their n_flush / init_flush bookkeeping  *)
(* and no_flush events, the write-ahead-log rule, the doublewrite buffer   *)
(* (post, write, fsync, home writes, datafile sync) and the completion of  *)
(* page writes by the i/o handler.                                         *)
(*                                                                         *)
(* Every section under buf_pool_mutex is one atomic step, so that mutex    *)
(* has no variable.  The doublewrite mutex and the page latches are held   *)
(* across steps and are variables.  Mini-transactions (mtr) of user        *)
(* threads latch pages and modify them; their code (mtr0mtr, buf0buf) is   *)
(* not under src/ and is modelled from the spec.                           *)
(***************************************************************************)
EXTENDS Naturals, Sequences, FiniteSets, SequencesExt, FiniteSetsExt

CONSTANTS
    Page,             \* page numbers, a set of naturals > 0
    User,             \* user threads running mtrs (and buf_flush_free_margin)
    Master,           \* the master thread, running flush-list batches
    NONE,
    MaxLsn,           \* bound on the redo log: no mtr commits past it
    DwBlockSize,      \* TRX_SYS_DOUBLEWRITE_BLOCK_SIZE
    FreeBlockMargin,  \* BUF_FLUSH_FREE_BLOCK_MARGIN
    ExtraMargin,      \* BUF_FLUSH_EXTRA_MARGIN
    MaxLatches        \* pages one mtr may hold latched

Thread == User \cup {Master}
FlushType == {"LRU", "LIST"}
LSN_MAX == 2^30                 \* IB_UINT64_T_MAX, the master's lsn_limit
TORN == -1                      \* a page image whose write was interrupted
DwSlots == 1..(2 * DwBlockSize)
ULINT_UNDEFINED == -1

VARIABLES
    \* buf_page_t of each page
    oldest, newest, io_fix, flush_type, slatch, xholder, fixed,
    \* buf_pool
    flush_list, lru, n_flush, init_flush, no_flush,
    \* log_sys: log[i] is the set of pages the record with lsn i modifies
    log, flushed_lsn,
    \* trx_doublewrite and the files
    dw_mutex, dw_mem, dw_cache, dw_disk, home_cache, home, pending,
    \* threads: program counter, call stack and locals
    pc, stack, victim, page_count, min_n, btype, woken

pageVars == <<oldest, newest, io_fix, flush_type, slatch, xholder, fixed>>
poolVars == <<flush_list, lru, n_flush, init_flush, no_flush>>
logVars == <<log, flushed_lsn>>
dwVars == <<dw_mutex, dw_mem, dw_cache, dw_disk, home_cache, home, pending>>
thrVars == <<pc, stack, victim, page_count, min_n, btype, woken>>
vars == <<pageVars, poolVars, logVars, dwVars, thrVars>>

Slot == [page : Page, lsn : Nat \cup {TORN}]

lsn == Len(log)

Goto(t, l) == pc' = [pc EXCEPT ![t] = l]

\* A call pushes the label to come back to; a return pops it.
Call(t, l, back) ==
    /\ pc' = [pc EXCEPT ![t] = l]
    /\ stack' = [stack EXCEPT ![t] = <<back>> \o @]

Return(t) ==
    /\ pc' = [pc EXCEPT ![t] = Head(stack[t])]
    /\ stack' = [stack EXCEPT ![t] = Tail(@)]

-----------------------------------------------------------------------------
(* Predicates on pages, buf0flu.cc                                         *)

\* buf_flush_ready_for_replace: clean, not under i/o and not buffer-fixed.
buf_flush_ready_for_replace(p) ==
    oldest[p] = 0 /\ io_fix[p] = NONE /\ fixed[p] = {}

\* Mutant: a page already under i/o counts as ready.
buf_flush_ready_for_flush_NoIoFix(p, ft) ==
    /\ oldest[p] # 0
    /\ ft = "LRU" => fixed[p] = {}

\* buf_flush_ready_for_flush: dirty and not under i/o; an LRU flush also
\* requires the page not to be buffer-fixed, so that it never waits for a
\* latch.
buf_flush_ready_for_flush(p, ft) ==
    /\ oldest[p] # 0
    /\ io_fix[p] = NONE
    /\ ft = "LRU" => fixed[p] = {}

\* Mutant: the block is added first, as outside recovery.
buf_flush_insert_sorted_First(fl, p, om) == <<p>> \o fl

\* buf_flush_insert_sorted_into_flush_list (used while recovery keeps the
\* flush_rbt), its linear-search branch: the block goes after the last
\* element with a larger oldest_modification `om`.
buf_flush_insert_sorted(fl, p, om) ==
    LET i == SelectInSeq(fl, LAMBDA b : om[b] <= om[p])
    IN  IF i = 0 THEN Append(fl, p) ELSE InsertAt(fl, i, p)

\* buf_flush_insert_into_flush_list: outside recovery (flush_rbt = NULL)
\* the block is added first; callers add in increasing lsn order.
buf_flush_insert_into_flush_list(fl, p) == <<p>> \o fl

\* buf_pool_get_oldest_modification: the last block of the flush list
\* (0 when the list is empty), where log_checkpoint may advance to.
oldest_of_flush_list ==
    IF flush_list = <<>> THEN 0 ELSE oldest[Last(flush_list)]

-----------------------------------------------------------------------------
(* Mini-transactions of user threads (spec: mtr_commit and buf_page_get    *)
(* with RW_X_LATCH).                                                       *)

\* buf_page_get: buffer-fix the page, then wait for the x-latch.
MtrGetPage(u) ==
    /\ pc[u] \in {"idle", "mtr"}
    /\ Cardinality({p \in Page : xholder[p] = u}) < MaxLatches
    /\ \E p \in Page :
         /\ \A q \in Page : xholder[q] = u => q < p
         /\ fixed' = [fixed EXCEPT ![p] = @ \cup {u}]
         /\ victim' = [victim EXCEPT ![u] = p]
    /\ Goto(u, "x_wait")
    /\ UNCHANGED <<oldest, newest, io_fix, flush_type, slatch, xholder,
                   poolVars, logVars, dwVars,
                   stack, page_count, min_n, btype, woken>>

\* The x-latch is granted when no thread holds the page latched: neither an
\* mtr (x) nor a write in progress (the s-latch of the flushing thread).
MtrXLatch(u) ==
    /\ pc[u] = "x_wait"
    /\ xholder[victim[u]] = NONE
    /\ ~slatch[victim[u]]
    /\ xholder' = [xholder EXCEPT ![victim[u]] = u]
    /\ Goto(u, "mtr")
    /\ UNCHANGED <<oldest, newest, io_fix, flush_type, slatch, fixed,
                   poolVars, logVars, dwVars,
                   stack, victim, page_count, min_n, btype, woken>>

\* mtr_commit: the pages the mtr modified get one new log record; each
\* gets newest_modification = its lsn, and a clean page also gets
\* oldest_modification and goes first on the flush list.  The latches are
\* released and the pages unfixed.  A commit that logged nothing only
\* releases.
MtrCommit(u) ==
    LET held == {p \in Page : xholder[p] = u}
        clean == {p \in held : oldest[p] = 0}
        l == lsn + 1
    IN
    /\ pc[u] = "mtr"
    /\ held # {}
    /\ \/ /\ lsn < MaxLsn
          /\ log' = Append(log, held)
          /\ newest' = [p \in Page |-> IF p \in held THEN l ELSE newest[p]]
          /\ oldest' = [p \in Page |-> IF p \in clean THEN l ELSE oldest[p]]
          /\ flush_list' = FoldSet(LAMBDA p, fl :
                                     buf_flush_insert_into_flush_list(fl, p),
                                   flush_list, clean)
       \/ /\ lsn = MaxLsn
          /\ UNCHANGED <<log, newest, oldest, flush_list>>
    /\ xholder' = [p \in Page |-> IF p \in held THEN NONE ELSE xholder[p]]
    /\ fixed' = [p \in Page |-> fixed[p] \ {u}]
    /\ Goto(u, "idle")
    /\ UNCHANGED <<io_fix, flush_type, slatch, lru, n_flush, init_flush,
                   no_flush, flushed_lsn, dwVars,
                   stack, victim, page_count, min_n, btype, woken>>

-----------------------------------------------------------------------------
(* os_event_set / os_event_reset on buf_pool->no_flush[ft] (os0sync.h).    *)
(* A thread sleeping in os_event_wait is woken by a set even when the      *)
(* event is reset again before it runs (the signal_count of the event).    *)

os_event_set(ft) ==
    /\ no_flush' = [no_flush EXCEPT ![ft] = TRUE]
    /\ woken' = [t \in Thread |->
                   woken[t] \/ (pc[t] = "fm_sleep" /\ btype[t] = ft)]

-----------------------------------------------------------------------------
(* buf_flush_batch                                                         *)

\* Entry under buf_pool_mutex: a second batch of a running type returns
\* ULINT_UNDEFINED at once.
buf_flush_batch_begin(t) ==
    LET ft == btype[t] IN
    /\ pc[t] = "b_begin"
    /\ \/ /\ n_flush[ft] > 0 \/ init_flush[ft]
          /\ page_count' = [page_count EXCEPT ![t] = ULINT_UNDEFINED]
          /\ Return(t)
          /\ UNCHANGED init_flush
       \/ /\ n_flush[ft] = 0 /\ ~init_flush[ft]
          /\ init_flush' = [init_flush EXCEPT ![ft] = TRUE]
          /\ page_count' = [page_count EXCEPT ![t] = 0]
          /\ Goto(t, "b_scan")
          /\ UNCHANGED stack
    /\ UNCHANGED <<pageVars, flush_list, lru, n_flush, no_flush, logVars,
                   dwVars, victim, min_n, btype, woken>>

\* The scan of one loop round under buf_pool_mutex: stop when min_n pages
\* were flushed or, for a flush-list batch, when the last block is not
\* older than lsn_limit; else look from the end of the list backwards for
\* a block ready for flush.
buf_flush_batch_scan(t) ==
    LET ft == btype[t]
        l == IF ft = "LRU" THEN lru ELSE flush_list
        i == SelectLastInSeq(l, LAMBDA p : buf_flush_ready_for_flush(p, ft))
        enough == \/ page_count[t] >= min_n[t]
                  \/ /\ ft = "LIST"
                     /\ IF flush_list = <<>> THEN TRUE
                        ELSE oldest[Last(flush_list)] >= LSN_MAX
    IN
    /\ pc[t] = "b_scan"
    /\ \/ /\ enough \/ i = 0
          /\ Goto(t, "b_end")
          /\ victim' = [victim EXCEPT ![t] = NONE]
       \/ /\ ~enough /\ i # 0
          /\ victim' = [victim EXCEPT ![t] = l[i]]
          /\ Goto(t, "b_nbr")
    /\ UNCHANGED <<pageVars, poolVars, logVars, dwVars,
                   stack, page_count, min_n, btype, woken>>

\* Mutant: buf_page_set_flush_type is not called.
buf_flush_try_neighbors_NoFlushType(t) ==
    LET ft == btype[t]
        p == victim[t]
    IN
    /\ pc[t] = "b_nbr"
    /\ \/ /\ ~buf_flush_ready_for_flush(p, ft)
          /\ Goto(t, "b_scan")
          /\ UNCHANGED <<io_fix, slatch, n_flush, no_flush,
                         stack, page_count>>
       \/ /\ buf_flush_ready_for_flush(p, ft)
          /\ io_fix' = [io_fix EXCEPT ![p] = "WRITE"]
          /\ UNCHANGED flush_type
          /\ no_flush' = IF n_flush[ft] = 0
                           THEN [no_flush EXCEPT ![ft] = FALSE]
                           ELSE no_flush
          /\ n_flush' = [n_flush EXCEPT ![ft] = @ + 1]
          /\ page_count' = [page_count EXCEPT ![t] = @ + 1]
          /\ IF ft = "LIST" /\ fixed[p] # {}
               THEN /\ Call(t, "bw_lock", "s_wait")
                    /\ UNCHANGED slatch
               ELSE /\ slatch' = [slatch EXCEPT ![p] = TRUE]
                    /\ Goto(t, "w_low")
                    /\ UNCHANGED stack
    /\ UNCHANGED <<flush_type, oldest, newest, xholder, fixed, flush_list, lru,
                   init_flush, logVars, dwVars,
                   victim, min_n, btype, woken>>


\* Mutant: the flush-list write of a buffer-fixed page does not wait for
\* the s-latch after writing out the doublewrite buffer.
buf_flush_try_neighbors_NoSLock(t) ==
    LET ft == btype[t]
        p == victim[t]
    IN
    /\ pc[t] = "b_nbr"
    /\ \/ /\ ~buf_flush_ready_for_flush(p, ft)
          /\ Goto(t, "b_scan")
          /\ UNCHANGED <<io_fix, flush_type, slatch, n_flush, no_flush,
                         stack, page_count>>
       \/ /\ buf_flush_ready_for_flush(p, ft)
          /\ io_fix' = [io_fix EXCEPT ![p] = "WRITE"]
          /\ flush_type' = [flush_type EXCEPT ![p] = ft]
          /\ no_flush' = IF n_flush[ft] = 0
                           THEN [no_flush EXCEPT ![ft] = FALSE]
                           ELSE no_flush
          /\ n_flush' = [n_flush EXCEPT ![ft] = @ + 1]
          /\ page_count' = [page_count EXCEPT ![t] = @ + 1]
          /\ IF ft = "LIST" /\ fixed[p] # {}
               THEN /\ Call(t, "bw_lock", "w_low")
                    /\ UNCHANGED slatch
               ELSE /\ slatch' = [slatch EXCEPT ![p] = TRUE]
                    /\ Goto(t, "w_low")
                    /\ UNCHANGED stack
    /\ UNCHANGED <<oldest, newest, xholder, fixed, flush_list, lru,
                   init_flush, logVars, dwVars,
                   victim, min_n, btype, woken>>


\* Mutant: the doublewrite buffer is not written out before waiting for
\* the s-latch of a buffer-fixed page.
buf_flush_try_neighbors_NoBufferedWrites(t) ==
    LET ft == btype[t]
        p == victim[t]
    IN
    /\ pc[t] = "b_nbr"
    /\ \/ /\ ~buf_flush_ready_for_flush(p, ft)
          /\ Goto(t, "b_scan")
          /\ UNCHANGED <<io_fix, flush_type, slatch, n_flush, no_flush,
                         stack, page_count>>
       \/ /\ buf_flush_ready_for_flush(p, ft)
          /\ io_fix' = [io_fix EXCEPT ![p] = "WRITE"]
          /\ flush_type' = [flush_type EXCEPT ![p] = ft]
          /\ no_flush' = IF n_flush[ft] = 0
                           THEN [no_flush EXCEPT ![ft] = FALSE]
                           ELSE no_flush
          /\ n_flush' = [n_flush EXCEPT ![ft] = @ + 1]
          /\ page_count' = [page_count EXCEPT ![t] = @ + 1]
          /\ IF ft = "LIST" /\ fixed[p] # {}
               THEN /\ Goto(t, "s_wait") /\ UNCHANGED stack
                    /\ UNCHANGED slatch
               ELSE /\ slatch' = [slatch EXCEPT ![p] = TRUE]
                    /\ Goto(t, "w_low")
                    /\ UNCHANGED stack
    /\ UNCHANGED <<oldest, newest, xholder, fixed, flush_list, lru,
                   init_flush, logVars, dwVars,
                   victim, min_n, btype, woken>>


\* buf_flush_try_neighbors with an LRU list shorter than BUF_LRU_OLD_MIN_LEN:
\* the area is the page itself, re-checked after buf_pool_mutex was
\* re-entered.  buf_flush_page io-fixes it, resets no_flush when it is the
\* first write of the batch type and counts it in n_flush.  A flush-list
\* write of a buffer-fixed page first writes out the doublewrite buffer and
\* then waits for the s-latch; otherwise the s-latch is free at once.
buf_flush_try_neighbors(t) ==
    LET ft == btype[t]
        p == victim[t]
    IN
    /\ pc[t] = "b_nbr"
    /\ \/ /\ ~buf_flush_ready_for_flush(p, ft)
          /\ Goto(t, "b_scan")
          /\ UNCHANGED <<io_fix, flush_type, slatch, n_flush, no_flush,
                         stack, page_count>>
       \/ /\ buf_flush_ready_for_flush(p, ft)
          /\ io_fix' = [io_fix EXCEPT ![p] = "WRITE"]
          /\ flush_type' = [flush_type EXCEPT ![p] = ft]
          /\ no_flush' = IF n_flush[ft] = 0
                           THEN [no_flush EXCEPT ![ft] = FALSE]
                           ELSE no_flush
          /\ n_flush' = [n_flush EXCEPT ![ft] = @ + 1]
          /\ page_count' = [page_count EXCEPT ![t] = @ + 1]
          /\ IF ft = "LIST" /\ fixed[p] # {}
               THEN /\ Call(t, "bw_lock", "s_wait")
                    /\ UNCHANGED slatch
               ELSE /\ slatch' = [slatch EXCEPT ![p] = TRUE]
                    /\ Goto(t, "w_low")
                    /\ UNCHANGED stack
    /\ UNCHANGED <<oldest, newest, xholder, fixed, flush_list, lru,
                   init_flush, logVars, dwVars,
                   victim, min_n, btype, woken>>

\* rw_lock_s_lock_gen(&block->lock, BUF_IO_WRITE) after the doublewrite
\* buffer was written out: waits for the mtr holding the x-latch.
buf_flush_page_s_lock(t) ==
    /\ pc[t] = "s_wait"
    /\ xholder[victim[t]] = NONE
    /\ slatch' = [slatch EXCEPT ![victim[t]] = TRUE]
    /\ Goto(t, "w_low")
    /\ UNCHANGED <<oldest, newest, io_fix, flush_type, xholder, fixed,
                   poolVars, logVars, dwVars,
                   stack, victim, page_count, min_n, btype, woken>>

\* Mutant: the log is not forced before the write (as under UNIV_LOG_DEBUG).
buf_flush_write_block_low_NoLogWrite(t) ==
    /\ pc[t] = "w_low"
    /\ Goto(t, "post")
    /\ UNCHANGED <<pageVars, poolVars, logVars, dwVars,
                   stack, victim, page_count, min_n, btype, woken>>

\* buf_flush_write_block_low: force the log up to newest_modification,
\* then stamp the page (buf_flush_init_for_writing) and post it.
buf_flush_write_block_low(t) ==
    /\ pc[t] = "w_low"
    /\ flushed_lsn' = Max({flushed_lsn, newest[victim[t]]})
    /\ Goto(t, "post")
    /\ UNCHANGED <<pageVars, poolVars, log, dwVars,
                   stack, victim, page_count, min_n, btype, woken>>

\* Mutant: the buffer counts as full only past 2 * BLOCK_SIZE pages.
buf_flush_post_to_doublewrite_buf_OffByOne(t) ==
    LET p == victim[t]
        full(b) == Len(b) > 2 * DwBlockSize
        mem == Append(dw_mem, [page |-> p, lsn |-> newest[p]])
    IN
    /\ pc[t] = "post"
    /\ dw_mutex = NONE
    /\ \/ /\ full(dw_mem)
          /\ Call(t, "bw_lock", "post")
          /\ UNCHANGED dw_mem
       \/ /\ ~full(dw_mem)
          /\ dw_mem' = mem
          /\ IF full(mem) THEN Call(t, "bw_lock", "b_scan")
                          ELSE Goto(t, "b_scan") /\ UNCHANGED stack
    /\ UNCHANGED <<pageVars, poolVars, logVars,
                   dw_mutex, dw_cache, dw_disk, home_cache, home, pending,
                   victim, page_count, min_n, btype, woken>>

\* buf_flush_post_to_doublewrite_buf: a full buffer is written out first
\* (try_again); the page image is copied into the next slot, and a buffer
\* that became full is written out before returning.
buf_flush_post_to_doublewrite_buf(t) ==
    LET p == victim[t]
        full(b) == Len(b) >= 2 * DwBlockSize
        mem == Append(dw_mem, [page |-> p, lsn |-> newest[p]])
    IN
    /\ pc[t] = "post"
    /\ dw_mutex = NONE
    /\ \/ /\ full(dw_mem)
          /\ Call(t, "bw_lock", "post")
          /\ UNCHANGED dw_mem
       \/ /\ ~full(dw_mem)
          /\ dw_mem' = mem
          /\ IF full(mem) THEN Call(t, "bw_lock", "b_scan")
                          ELSE Goto(t, "b_scan") /\ UNCHANGED stack
    /\ UNCHANGED <<pageVars, poolVars, logVars,
                   dw_mutex, dw_cache, dw_disk, home_cache, home, pending,
                   victim, page_count, min_n, btype, woken>>

\* Mutant: the batch end does not set no_flush when no write is pending.
buf_flush_batch_end_NoSet(t) ==
    LET ft == btype[t] IN
    /\ pc[t] = "b_end"
    /\ init_flush' = [init_flush EXCEPT ![ft] = FALSE]
    /\ Goto(t, "bw_lock")
    /\ UNCHANGED <<pageVars, flush_list, lru, n_flush, no_flush, logVars,
                   dwVars, stack, victim, page_count, min_n, btype, woken>>

\* End of the batch: init_flush is cleared and no_flush set when no write
\* of the type is pending; then the doublewrite buffer is written out and
\* the batch returns to its caller.
buf_flush_batch_end(t) ==
    LET ft == btype[t] IN
    /\ pc[t] = "b_end"
    /\ init_flush' = [init_flush EXCEPT ![ft] = FALSE]
    /\ IF n_flush[ft] = 0 THEN os_event_set(ft)
                          ELSE UNCHANGED <<no_flush, woken>>
    /\ Goto(t, "bw_lock")
    /\ UNCHANGED <<pageVars, flush_list, lru, n_flush, logVars, dwVars,
                   stack, victim, page_count, min_n, btype>>

-----------------------------------------------------------------------------
(* buf_flush_buffered_writes, called with a return label on the stack.     *)

\* Enter the doublewrite mutex; an empty buffer returns at once.
buf_flush_buffered_writes_lock(t) ==
    /\ pc[t] = "bw_lock"
    /\ dw_mutex = NONE
    /\ \/ /\ dw_mem = <<>>
          /\ Return(t)
          /\ UNCHANGED dw_mutex
       \/ /\ dw_mem # <<>>
          /\ dw_mutex' = t
          /\ Goto(t, "bw_dw")
          /\ UNCHANGED stack
    /\ UNCHANGED <<pageVars, poolVars, logVars,
                   dw_mem, dw_cache, dw_disk, home_cache, home, pending,
                   victim, page_count, min_n, btype, woken>>

\* Mutant: the home writes start without fil_flush(TRX_SYS_SPACE).
buf_flush_buffered_writes_dw_NoFsync(t) ==
    /\ pc[t] = "bw_dw"
    /\ dw_cache' = [i \in DwSlots |->
                      IF i <= Len(dw_mem) THEN dw_mem[i] ELSE dw_cache[i]]
    /\ Goto(t, "bw_home")
    /\ UNCHANGED <<pageVars, poolVars, logVars,
                   dw_mutex, dw_mem, dw_disk, home_cache, home, pending,
                   stack, victim, page_count, min_n, btype, woken>>

\* The synchronous writes of block1 and block2 of the doublewrite area:
\* done, but not yet forced to disk.
buf_flush_buffered_writes_dw(t) ==
    /\ pc[t] = "bw_dw"
    /\ dw_cache' = [i \in DwSlots |->
                      IF i <= Len(dw_mem) THEN dw_mem[i] ELSE dw_cache[i]]
    /\ Goto(t, "bw_dw_flush")
    /\ UNCHANGED <<pageVars, poolVars, logVars,
                   dw_mutex, dw_mem, dw_disk, home_cache, home, pending,
                   stack, victim, page_count, min_n, btype, woken>>

\* fil_flush(TRX_SYS_SPACE): the doublewrite copies are durable.
buf_flush_buffered_writes_fsync(t) ==
    /\ pc[t] = "bw_dw_flush"
    /\ dw_disk' = [i \in DwSlots |->
                     IF dw_cache[i] # NONE THEN dw_cache[i] ELSE dw_disk[i]]
    /\ dw_cache' = [i \in DwSlots |-> NONE]
    /\ Goto(t, "bw_home")
    /\ UNCHANGED <<pageVars, poolVars, logVars,
                   dw_mutex, dw_mem, home_cache, home, pending,
                   stack, victim, page_count, min_n, btype, woken>>

\* The asynchronous writes of the pages to their home positions: fil_io
\* writes block->frame, the page as it is now (buf0flu.cc:627).
buf_flush_buffered_writes_home(t) ==
    LET posted == {dw_mem[i].page : i \in 1..Len(dw_mem)}
    IN
    /\ pc[t] = "bw_home"
    /\ home_cache' = [p \in Page |->
                        IF p \in posted THEN newest[p] ELSE home_cache[p]]
    /\ pending' = pending \cup posted
    /\ Goto(t, "bw_sync")
    /\ UNCHANGED <<pageVars, poolVars, logVars,
                   dw_mutex, dw_mem, dw_cache, dw_disk, home,
                   stack, victim, page_count, min_n, btype, woken>>

\* buf_flush_sync_datafiles: wait for no pending write, fsync the data
\* files; then first_free = 0 and the doublewrite mutex is released.
buf_flush_buffered_writes_sync(t) ==
    /\ pc[t] = "bw_sync"
    /\ pending = {}
    /\ home' = [p \in Page |->
                  IF home_cache[p] # NONE THEN home_cache[p] ELSE home[p]]
    /\ home_cache' = [p \in Page |-> NONE]
    /\ dw_mem' = <<>>
    /\ dw_mutex' = NONE
    /\ Return(t)
    /\ UNCHANGED <<pageVars, poolVars, logVars, dw_cache, dw_disk, pending,
                   victim, page_count, min_n, btype, woken>>

-----------------------------------------------------------------------------
(* The i/o handler: buf_page_io_complete of a page write, which calls      *)
(* buf_flush_write_complete under buf_pool_mutex and releases the s-latch. *)

buf_flush_write_complete(p) ==
    LET ft == flush_type[p] IN
    /\ p \in pending
    /\ pending' = pending \ {p}
    /\ flush_list' = Remove(flush_list, p)
    /\ oldest' = [oldest EXCEPT ![p] = 0]
    /\ io_fix' = [io_fix EXCEPT ![p] = NONE]
    /\ slatch' = [slatch EXCEPT ![p] = FALSE]
    /\ n_flush' = [n_flush EXCEPT ![ft] = @ - 1]
    /\ lru' = IF ft = "LRU" THEN Append(Remove(lru, p), p) ELSE lru
    /\ IF n_flush'[ft] = 0 /\ ~init_flush[ft]
         THEN os_event_set(ft)
         ELSE UNCHANGED <<no_flush, woken>>
    /\ UNCHANGED <<newest, flush_type, xholder, fixed, init_flush, logVars,
                   dw_mutex, dw_mem, dw_cache, dw_disk, home_cache, home,
                   pc, stack, victim, page_count, min_n, btype>>

-----------------------------------------------------------------------------
(* Callers of buf_flush_batch                                              *)

\* buf_flush_free_margin from a user thread, inside an mtr or not: when
\* fewer than FreeBlockMargin blocks are replaceable
\* (buf_flush_LRU_recommendation) an LRU batch is run.
buf_flush_free_margin(u) ==
    LET n_replaceable == Cardinality({p \in Page :
                                        buf_flush_ready_for_replace(p)})
    IN
    /\ pc[u] \in {"idle", "mtr"}
    /\ n_replaceable < FreeBlockMargin
    /\ btype' = [btype EXCEPT ![u] = "LRU"]
    /\ min_n' = [min_n EXCEPT ![u] =
                   FreeBlockMargin + ExtraMargin - n_replaceable]
    /\ pc' = [pc EXCEPT ![u] = "b_begin"]
    /\ stack' = [stack EXCEPT ![u] = <<"fm_check", pc[u]>> \o @]
    /\ UNCHANGED <<pageVars, poolVars, logVars, dwVars,
                   victim, page_count, woken>>

\* The batch returned ULINT_UNDEFINED when one of the same type was
\* running: buf_flush_wait_batch_end.
buf_flush_free_margin_check(u) ==
    /\ pc[u] = "fm_check"
    /\ \/ /\ page_count[u] = ULINT_UNDEFINED
          /\ Goto(u, "fm_wait")
          /\ UNCHANGED stack
       \/ /\ page_count[u] # ULINT_UNDEFINED
          /\ Return(u)
    /\ page_count' = [page_count EXCEPT ![u] = 0]
    /\ UNCHANGED <<pageVars, poolVars, logVars, dwVars,
                   victim, min_n, btype, woken>>

\* os_event_wait(no_flush[LRU]): returns at once if the event is set, or
\* else sleeps until an os_event_set.
os_event_wait(u) ==
    /\ pc[u] = "fm_wait"
    /\ \/ /\ no_flush[btype[u]]
          /\ Return(u)
          /\ UNCHANGED woken
       \/ /\ ~no_flush[btype[u]]
          /\ woken' = [woken EXCEPT ![u] = FALSE]
          /\ Goto(u, "fm_sleep")
          /\ UNCHANGED stack
    /\ UNCHANGED <<pageVars, poolVars, logVars, dwVars,
                   victim, page_count, min_n, btype>>

os_event_wake(u) ==
    /\ pc[u] = "fm_sleep"
    /\ woken[u]
    /\ woken' = [woken EXCEPT ![u] = FALSE]
    /\ Return(u)
    /\ UNCHANGED <<pageVars, poolVars, logVars, dwVars,
                   victim, page_count, min_n, btype>>

\* The master thread's flush of the flush list (srv_master_thread, spec):
\* buf_flush_batch(BUF_FLUSH_LIST, n, IB_UINT64_T_MAX).
buf_flush_master(t) ==
    /\ pc[t] = "idle"
    /\ min_n' = [min_n EXCEPT ![t] = Cardinality(Page)]
    /\ btype' = [btype EXCEPT ![t] = "LIST"]
    /\ Call(t, "b_begin", "idle")
    /\ UNCHANGED <<pageVars, poolVars, logVars, dwVars,
                   victim, page_count, woken>>

-----------------------------------------------------------------------------

Init ==
    /\ oldest = [p \in Page |-> 0]
    /\ newest = [p \in Page |-> 0]
    /\ io_fix = [p \in Page |-> NONE]
    /\ flush_type = [p \in Page |-> "LIST"]
    /\ slatch = [p \in Page |-> FALSE]
    /\ xholder = [p \in Page |-> NONE]
    /\ fixed = [p \in Page |-> {}]
    /\ flush_list = <<>>
    /\ lru = SetToSeq(Page)
    /\ n_flush = [ft \in FlushType |-> 0]
    /\ init_flush = [ft \in FlushType |-> FALSE]
    /\ no_flush = [ft \in FlushType |-> FALSE]
    /\ log = <<>>
    /\ flushed_lsn = 0
    /\ dw_mutex = NONE
    /\ dw_mem = <<>>
    /\ dw_cache = [i \in DwSlots |-> NONE]
    /\ dw_disk = [i \in DwSlots |-> NONE]
    /\ home_cache = [p \in Page |-> NONE]
    /\ home = [p \in Page |-> 0]
    /\ pending = {}
    /\ pc = [t \in Thread |-> "idle"]
    /\ stack = [t \in Thread |-> <<>>]
    /\ victim = [t \in Thread |-> NONE]
    /\ page_count = [t \in Thread |-> 0]
    /\ min_n = [t \in Thread |-> 0]
    /\ btype = [t \in Thread |-> "LIST"]
    /\ woken = [t \in Thread |-> FALSE]

\* The steps of a thread inside buf_flush_batch, buf_flush_buffered_writes
\* or buf_flush_free_margin.
FlushStep(t) ==
    \/ buf_flush_batch_begin(t)
    \/ buf_flush_batch_scan(t)
    \/ buf_flush_try_neighbors(t)
    \/ buf_flush_page_s_lock(t)
    \/ buf_flush_write_block_low(t)
    \/ buf_flush_post_to_doublewrite_buf(t)
    \/ buf_flush_batch_end(t)
    \/ buf_flush_buffered_writes_lock(t)
    \/ buf_flush_buffered_writes_dw(t)
    \/ buf_flush_buffered_writes_fsync(t)
    \/ buf_flush_buffered_writes_home(t)
    \/ buf_flush_buffered_writes_sync(t)
    \/ buf_flush_free_margin_check(t)
    \/ os_event_wait(t)
    \/ os_event_wake(t)

Next ==
    \/ \E u \in User :
         \/ MtrGetPage(u) \/ MtrXLatch(u) \/ MtrCommit(u)
         \/ buf_flush_free_margin(u)
    \/ buf_flush_master(Master)
    \/ \E t \in Thread : FlushStep(t)
    \/ \E p \in Page : buf_flush_write_complete(p)

\* Inside the flush code every step is weakly fair, and so is the i/o
\* handler.  A thread waiting for a page latch (an mtr for the x-latch, a
\* flushing thread for the s-latch) is strongly fair: the latch is granted
\* if it is free infinitely often.  An mtr holding latches commits.
Fairness ==
    /\ \A t \in Thread : WF_vars(FlushStep(t))
    /\ \A t \in Thread : SF_vars(buf_flush_page_s_lock(t))
    /\ \A p \in Page : WF_vars(buf_flush_write_complete(p))
    /\ \A u \in User : SF_vars(MtrXLatch(u)) /\ SF_vars(MtrCommit(u))

Spec == Init /\ [][Next]_vars /\ Fairness

-----------------------------------------------------------------------------
(* Properties                                                              *)

TypeOK ==
    /\ oldest \in [Page -> 0..MaxLsn] /\ newest \in [Page -> 0..MaxLsn]
    /\ io_fix \in [Page -> {NONE, "WRITE"}]
    /\ flush_type \in [Page -> FlushType]
    /\ slatch \in [Page -> BOOLEAN]
    /\ xholder \in [Page -> User \cup {NONE}]
    /\ fixed \in [Page -> SUBSET User]
    /\ flush_list \in Seq(Page) /\ lru \in Seq(Page)
    /\ n_flush \in [FlushType -> Nat] /\ init_flush \in [FlushType -> BOOLEAN]
    /\ no_flush \in [FlushType -> BOOLEAN]
    /\ flushed_lsn \in 0..lsn
    /\ dw_mutex \in Thread \cup {NONE}
    /\ dw_mem \in Seq(Slot)
    /\ dw_cache \in [DwSlots -> Slot \cup {NONE}]
    /\ dw_disk \in [DwSlots -> Slot \cup {NONE}]
    /\ home_cache \in [Page -> 0..MaxLsn \cup {NONE}]
    /\ home \in [Page -> 0..MaxLsn]
    /\ pending \subseteq Page

\* The image of a page last handed to the file system.
LastImage(p) == IF home_cache[p] # NONE THEN home_cache[p] ELSE home[p]

\* The write-ahead-log rule of buf_flush_write_block_low: no page image
\* reaches the doublewrite buffer, the doublewrite area or the data file
\* before the log up to its newest_modification is on disk.  This must
\* hold whatever order batches of both types, the i/o handler and mtrs
\* take.
WALRule ==
    /\ \A i \in 1..Len(dw_mem) : dw_mem[i].lsn <= flushed_lsn
    /\ \A i \in DwSlots : dw_cache[i] # NONE => dw_cache[i].lsn <= flushed_lsn
    /\ \A p \in Page : LastImage(p) <= flushed_lsn

\* No modification is lost by the flush: a page that buf_flush_write_complete
\* took off the flush list (oldest_modification = 0) has its newest version
\* in the file.  It fails if a page could change between the copy into the
\* doublewrite buffer and the completion of its write, i.e. if the flusher
\* did not hold the s-latch across the write.
CleanPagesWritten ==
    \A p \in Page : oldest[p] = 0 => LastImage(p) = newest[p]

\* The slots of the doublewrite buffer, filled by flushers of both types
\* and emptied only by buf_flush_buffered_writes, hold distinct pages, no
\* more than the 2 * TRX_SYS_DOUBLEWRITE_BLOCK_SIZE of the buffer, and
\* while no write-out holds the doublewrite mutex every posted page is
\* still io-fixed for its write (during a write-out the i/o handler may
\* complete a home write before first_free is reset).  The io_fix
\* test of buf_flush_ready_for_flush is what keeps a second batch, or the
\* same batch on its next scan, from posting a page whose write is still
\* in the buffer: the page stays on the flush list with oldest_modification
\* set until buf_flush_write_complete.
DwSlotsDistinctUnderIo ==
    /\ Len(dw_mem) <= 2 * DwBlockSize
    /\ \A i, j \in 1..Len(dw_mem) : i # j => dw_mem[i].page # dw_mem[j].page
    /\ dw_mutex = NONE =>
          \A i \in 1..Len(dw_mem) : io_fix[dw_mem[i].page] = "WRITE"

\* No lost wake-up on buf_pool->no_flush: a thread asleep in
\* buf_flush_wait_batch_end, and not yet signalled, has a batch of its type
\* running, whose end (buf_flush_batch or buf_flush_write_complete) will
\* set the event.  It fails if a batch can end without setting it.
NoLostWakeup ==
    \A u \in User :
        pc[u] = "fm_sleep" /\ ~woken[u]
            => n_flush[btype[u]] > 0 \/ init_flush[btype[u]]

\* Every call into the flush code returns and every mtr commits: no thread
\* waits forever on a page latch, the doublewrite mutex, pending writes or
\* the no_flush event.  It fails when a flush-list batch waits for the
\* s-latch of a page while pages it posted are still in the doublewrite
\* buffer (the deadlock buf_flush_buffered_writes avoids).
AllCallsReturn == \A t \in Thread : pc[t] # "idle" ~> pc[t] = "idle"

====
