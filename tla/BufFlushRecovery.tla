--------------------------- MODULE BufFlushRecovery ---------------------------
(***************************************************************************)
(* A crash of the server at any moment of the flush pipeline, and the      *)
(* restart: trx_sys_doublewrite_init_or_restore_pages (trx0sys.cc)         *)
(* restores torn data pages from the doublewrite area, redo recovery       *)
(* (log0recv, modelled from the spec) brings the pages up to the durable   *)
(* log and puts the pages it dirtied on the flush list in order of         *)
(* oldest_modification (buf_flush_insert_sorted_into_flush_list, the       *)
(* flush_rbt being active during recovery).                                *)
(*                                                                         *)
(* A write that the file system has accepted but not yet forced (in       *)
(* home_cache or dw_cache) may, at the crash, have reached the disk, not   *)
(* have reached it, or be torn.                                            *)
(***************************************************************************)
EXTENDS BufFlush

CONSTANTS MaxRestarts

VARIABLES
    restarts,   \* crashes so far
    fatal       \* the restore met a torn page whose copy is torn too

recVars == <<restarts, fatal>>
allVars == <<vars, recVars>>

\* The outcomes of a write not yet forced to disk.
HomeOutcomes(p) ==
    IF home_cache[p] = NONE THEN {home[p]}
    ELSE {home[p], home_cache[p], TORN}

DwOutcomes(i) ==
    IF dw_cache[i] = NONE THEN {dw_disk[i]}
    ELSE {dw_disk[i], dw_cache[i], [dw_cache[i] EXCEPT !.lsn = TORN]}

\* One slot of the doublewrite area in trx_sys_doublewrite_init_or_restore_pages:
\* a data page that reads corrupt is rewritten from its copy; a corrupt
\* copy of a corrupt page stops the server (log_fatal).
RestoreSlot(slot, st) ==
    IF slot = NONE \/ st.home[slot.page] # TORN THEN st
    ELSE IF slot.lsn = TORN THEN [st EXCEPT !.fatal = TRUE]
    ELSE [st EXCEPT !.home[slot.page] = slot.lsn]

\* The loop over the 2 * TRX_SYS_DOUBLEWRITE_BLOCK_SIZE slots, in order.
trx_sys_doublewrite_init_or_restore_pages(dw, hm) ==
    FoldLeft(LAMBDA st, i : RestoreSlot(dw[i], st),
             [home |-> hm, fatal |-> FALSE],
             [i \in DwSlots |-> i])

\* Redo recovery: a page is brought to the last durable record that
\* touches it; the records past its disk version make it dirty from the
\* first of them.
RedoLsns(dur, p, from) == {i \in 1..Len(dur) : p \in dur[i] /\ i > from}

CrashRestart ==
    LET dur == SubSeq(log, 1, flushed_lsn) IN
    /\ restarts < MaxRestarts
    /\ ~fatal
    /\ \E hm \in [Page -> UNION {HomeOutcomes(p) : p \in Page}],
          dw \in [DwSlots -> UNION {DwOutcomes(i) : i \in DwSlots}] :
         /\ \A p \in Page : hm[p] \in HomeOutcomes(p)
         /\ \A i \in DwSlots : dw[i] \in DwOutcomes(i)
         /\ LET r == trx_sys_doublewrite_init_or_restore_pages(dw, hm)
                redo(p) == RedoLsns(dur, p, r.home[p])
                om == [p \in Page |-> IF redo(p) = {} THEN 0
                                      ELSE Min(redo(p))]
                dirty == {p \in Page : om[p] # 0}
            IN
            /\ home' = r.home
            /\ fatal' = r.fatal
            /\ dw_disk' = dw
            /\ oldest' = om
            /\ newest' = [p \in Page |-> IF redo(p) = {} THEN r.home[p]
                                         ELSE Max(redo(p))]
            /\ flush_list' = FoldSet(LAMBDA p, fl :
                                       buf_flush_insert_sorted(fl, p, om),
                                     <<>>, dirty)
    /\ log' = dur
    /\ flushed_lsn' = Len(dur)
    /\ restarts' = restarts + 1
    /\ io_fix' = [p \in Page |-> NONE]
    /\ flush_type' = [p \in Page |-> "LIST"]
    /\ slatch' = [p \in Page |-> FALSE]
    /\ xholder' = [p \in Page |-> NONE]
    /\ fixed' = [p \in Page |-> {}]
    /\ n_flush' = [ft \in FlushType |-> 0]
    /\ init_flush' = [ft \in FlushType |-> FALSE]
    /\ no_flush' = [ft \in FlushType |-> FALSE]
    /\ dw_mutex' = NONE
    /\ dw_mem' = <<>>
    /\ dw_cache' = [i \in DwSlots |-> NONE]
    /\ home_cache' = [p \in Page |-> NONE]
    /\ pending' = {}
    /\ pc' = [t \in Thread |-> "idle"]
    /\ stack' = [t \in Thread |-> <<>>]
    /\ victim' = [t \in Thread |-> NONE]
    /\ page_count' = [t \in Thread |-> 0]
    /\ min_n' = [t \in Thread |-> 0]
    /\ btype' = [t \in Thread |-> "LIST"]
    /\ woken' = [t \in Thread |-> FALSE]
    /\ UNCHANGED lru

InitR == Init /\ restarts = 0 /\ fatal = FALSE

\* After log_fatal nothing runs: both disjuncts require ~fatal.
NextR ==
    \/ ~fatal /\ Next /\ UNCHANGED recVars
    \/ CrashRestart

SpecR == InitR /\ [][NextR]_allVars

-----------------------------------------------------------------------------
(* Properties                                                              *)

\* After a crash at any point of buf_flush_buffered_writes, every data page
\* reads intact once the doublewrite restore has run: a page torn in its
\* home position has an intact copy in the doublewrite area, and the
\* restore never has to stop the server.  It relies on the doublewrite
\* area being forced (fil_flush) before the home writes start, and on the
\* area being reused only after the home writes are forced.
TornPagesRestored == ~fatal /\ \A p \in Page : home[p] # TORN

\* What log_checkpoint relies on: the last block of the flush list has the
\* smallest oldest_modification of all dirty pages, so no change older
\* than the checkpoint lsn is missing from the data files.  After restart
\* it depends on the sorted insertion of the pages recovery dirtied.
CheckpointLsnSafe ==
    /\ \A p \in Page : oldest[p] # 0 => oldest_of_flush_list <= oldest[p]
    /\ \A p \in Page : oldest[p] # 0 <=> p \in ToSet(flush_list)

====
