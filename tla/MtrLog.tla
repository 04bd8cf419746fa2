-------------------------------- MODULE MtrLog --------------------------------
(***************************************************************************)
(* Redo logging of page writes (mtr0log.cc) and their replay by recovery.  *)
(*                                                                         *)
(* A mini-transaction (mtr) changes pages in the buffer pool and appends   *)
(* typed log records to its log, a dyn array of blocks of                  *)
(* DYN_ARRAY_DATA_SIZE bytes: mlog_write_ulint, mlog_write_uint64,         *)
(* mlog_write_string, mlog_write_initial_log_record (page create) and the  *)
(* record insert, whose header mlog_open_and_write_index writes the index  *)
(* layout into.  mtr_commit appends the mtr's log to the redo log, with    *)
(* MLOG_SINGLE_REC_FLAG on a lone record or an MLOG_MULTI_REC_END after    *)
(* several.  The server may crash at any point: the durable redo log is    *)
(* any prefix of the redo log, and recovery parses it record by record     *)
(* (mlog_parse_initial_log_record, mlog_parse_nbytes, mlog_parse_string,   *)
(* mlog_parse_index), applying an mtr's records only once all of them,     *)
(* up to its end marker, have parsed.                                      *)
(*                                                                         *)
(* Log bytes are kept byte by byte; page bytes are kept for the offsets    *)
(* the writes touch.  A page holds the records inserted into it (Rec).     *)
(* mtr0mtr.cc, log0recv.cc, page0cur.cc and mach0data are not part of the  *)
(* repository: mtr_commit, the recovery loop, the insert record body and   *)
(* the compressed-integer encoding follow the redo-record rules of the     *)
(* specification.                                                          *)
(***************************************************************************)
EXTENDS Rec, Mach, SequencesExt

CONSTANTS
  Page,          \* the pages the mtrs modify
  IndexPage,     \* the pages of Page that are B-tree pages
  PageNo,        \* PageNo[p]: the page number of page p in space SpaceId
  SpaceId,
  Write,         \* the page writes an mtr may perform (see WriteKinds)
  DynDataSize,   \* DYN_ARRAY_DATA_SIZE
  MaxRecs        \* bound: log records written in all

VARIABLES
  page,     \* page[p]: [bytes, recs], the buffer pool image of p
  mtr_on,   \* an mtr is running
  mlog,     \* the bytes of the running mtr's log
  blocks,   \* blocks[k]: used bytes of block k of the running mtr's dyn array
  n_recs,   \* mtr->n_log_recs
  n_total,  \* log records written in all (bounded by MaxRecs)
  log,      \* the redo log: the logs of the committed mtrs
  flushed,  \* the length of the redo log known to be on disk
  images,   \* images[k]: the pages after the k-th committed mtr (history)
  bounds,   \* bounds[k]: the length of the redo log after the k-th mtr (history)
  recv,     \* recovery: NONE, or [end, ptr, pages, state]
  inserted  \* the insert requests performed so far (history)

vars == <<page, mtr_on, mlog, blocks, n_recs, n_total, log, flushed, images, bounds, recv, inserted>>

NONE == "NONE"

MLOG_1BYTE == 1
MLOG_2BYTES == 2
MLOG_4BYTES == 4
MLOG_8BYTES == 8
MLOG_REC_INSERT == 9
MLOG_PAGE_CREATE == 19
MLOG_WRITE_STRING == 30
MLOG_MULTI_REC_END == 31
MLOG_COMP_REC_INSERT == 38
MLOG_COMP_PAGE_CREATE == 58
MLOG_SINGLE_REC_FLAG == 128

-----------------------------------------------------------------------------
(***************************************************************************)
(* The mtr log, a dyn array (dyn0dyn).  A reservation is [open, w]: the    *)
(* block it opened in and the bytes written since mlog_open.               *)
(***************************************************************************)

\* dyn_array_open: a new block when the last one lacks size free bytes.
\* The test is in dyn0dyn.ic, which is not in the repository; the new
\* block is dyn_array_add_block's (used = 0, added last).  The
\* DYN_BLOCK_FULL_FLAG it sets on the old block only marks it for the
\* readers of the array and is left out.
dyn_array_open(bl, size) ==
  IF bl[Len(bl)] + size > DynDataSize THEN Append(bl, 0) ELSE bl

\* mlog_close: the block's used count grows by what was written.
mlog_close(bl, w) == [bl EXCEPT ![Len(bl)] = @ + w]

\* dyn_push_string (dyn0dyn.ic): the string in pieces of at most
\* DYN_ARRAY_DATA_SIZE bytes, each pushed with dyn_array_push.
RECURSIVE dyn_push_string(_, _)
dyn_push_string(bl, len) ==
  IF len = 0 THEN bl
  ELSE LET n == IF len > DynDataSize THEN DynDataSize ELSE len
       IN dyn_push_string(mlog_close(dyn_array_open(bl, n), n), len - n)

\* n filler bytes: the log carries data bytes whose value no property reads.
Filler(n) == [k \in 1..n |-> 0]

-----------------------------------------------------------------------------
(***************************************************************************)
(* Writing log records.                                                    *)
(***************************************************************************)

\* mlog_write_initial_log_record_fast: type, space id and page number.
\* (The doublewrite-buffer branch concerns pages of the system tablespace
\* that no modelled page is.)
mlog_write_initial_log_record_fast(p, type) ==
  <<type>> \o mach_write_compressed(SpaceId) \o mach_write_compressed(PageNo[p])

\* Mutant: the DATA_NOT_NULL flag is not logged.
FieldLenCodeNoNotNull(d) == IF d.fixed_len = 0 /\ d.big THEN 32767 ELSE d.fixed_len

\* The 2-byte length mlog_open_and_write_index logs for an index field.
FieldLenCode(d) ==
  (IF d.fixed_len = 0 /\ d.big THEN 32767 ELSE d.fixed_len)
  | (IF d.not_null THEN 32768 ELSE 0)

\* The field-length loop of mlog_open_and_write_index.  s: bl, the blocks;
\* w, log_ptr - log_start; alloc, log_end - log_start; total.
\* Mutant: the room check omits the two bytes about to be written.
RECURSIVE IndexFieldLoopNoRoom(_, _, _)
IndexFieldLoopNoRoom(index, i, s) ==
  IF i > Len(index.fields) THEN s
  ELSE LET t == IF s.w > s.alloc
                THEN LET total == s.total - s.w
                         alloc == IF total > DynDataSize THEN DynDataSize ELSE total
                     IN [bl |-> dyn_array_open(mlog_close(s.bl, s.w), alloc),
                         w |-> 0, alloc |-> alloc, total |-> total]
                ELSE s
       IN IndexFieldLoopNoRoom(index, i + 1, [t EXCEPT !.w = @ + 2])

RECURSIVE IndexFieldLoop(_, _, _)
IndexFieldLoop(index, i, s) ==
  IF i > Len(index.fields) THEN s
  ELSE LET t == IF s.w + 2 > s.alloc
                THEN LET total == s.total - s.w
                         alloc == IF total > DynDataSize THEN DynDataSize ELSE total
                     IN [bl |-> dyn_array_open(mlog_close(s.bl, s.w), alloc),
                         w |-> 0, alloc |-> alloc, total |-> total]
                ELSE s
       IN IndexFieldLoop(index, i + 1, [t EXCEPT !.w = @ + 2])

\* mlog_open_and_write_index: [bl, w, bytes], the log bytes written and, for
\* size > 0, the blocks with a reservation of size bytes open at w.
mlog_open_and_write_index(bl, p, index, type, size) ==
  LET init == mlog_write_initial_log_record_fast(p, type)
      n == Len(index.fields)
      total == 11 + size + (n + 2) * 2
      alloc == IF total > DynDataSize THEN DynDataSize ELSE total
      s == IF ~index.comp
           THEN [bl |-> dyn_array_open(bl, 11 + size), w |-> Len(init),
                 alloc |-> Len(init) + 11 + size, total |-> 0]
           ELSE IndexFieldLoop(index, 1,
                  [bl |-> dyn_array_open(bl, alloc), w |-> Len(init) + 4,
                   alloc |-> alloc, total |-> total])
      bytes == init \o IF ~index.comp THEN <<>>
                       ELSE BigEndian(n, 2)
                            \o BigEndian(dict_index_get_n_unique_in_tree(index), 2)
                            \o FlattenSeq([i \in 1..n |-> BigEndian(FieldLenCode(index.fields[i]), 2)])
  IN CASE size = 0 -> [bl |-> mlog_close(s.bl, s.w), w |-> 0, bytes |-> bytes]
       [] s.w + size > s.alloc ->
            [bl |-> dyn_array_open(mlog_close(s.bl, s.w), size), w |-> 0, bytes |-> bytes]
       [] OTHER -> [bl |-> s.bl, w |-> s.w, bytes |-> bytes]

\* REC_STATUS_* codes.
StatusCode == [s \in RecStatus |->
                 CASE s = "ORDINARY" -> 0 [] s = "NODE_PTR" -> 1
                   [] s = "INFIMUM" -> 2 [] OTHER -> 3]

\* The body of an insert record (page_cur_insert_rec_write_log, abridged):
\* a header of at most InsertHdrSize bytes (the extra size, the status or
\* the old-style field count and flag, the data size) and then the record
\* bytes from its start to its end: the extra bytes below the 5 or 6 fixed
\* header bytes, in address order, and the data.
InsertHdrSize == 12

InsertHdr(rec) ==
  mach_write_compressed(rec.extra)
  \o (IF rec.comp THEN <<StatusCode[rec.status]>>
      ELSE BigEndian(2 * rec.n_fields + (IF rec.one_byte THEN 1 ELSE 0), 2))
  \o mach_write_compressed(rec.data)

InsertPayload(rec) ==
  (IF rec.comp THEN Reverse(rec.below)
   ELSE FlattenSeq(Reverse([i \in 1..rec.n_fields |->
                              BigEndian(rec.info[i], IF rec.one_byte THEN 1 ELSE 2)])))
  \o Filler(rec.data)


-----------------------------------------------------------------------------
(***************************************************************************)
(* Parsing log records.  A parser reads s[i..e-1] (e is end_ptr) and       *)
(* returns [st, next, ...]: st "ok", "incomplete" (nullptr: the record     *)
(* does not end before e), "corrupt" (recv_sys->found_corrupt_log) or      *)
(* "halted" (a failed ut_a).                                               *)
(***************************************************************************)

Incomplete == [st |-> "incomplete", next |-> -1]
Corrupt == [st |-> "corrupt", next |-> -1]
Halted == [st |-> "halted", next |-> -1]

\* The record header once the space id sp is parsed; pn, the page number.
InitialRecord(s, i, sp, pn) ==
  IF sp.next = -1 \/ pn.next = -1 THEN Incomplete
  ELSE [st |-> "ok", next |-> pn.next, type |-> s[i] & 127,
        space |-> sp.val, page_no |-> pn.val]

InitialRecordSpace(s, i, e, sp) ==
  IF sp.next = -1 THEN Incomplete
  ELSE InitialRecord(s, i, sp, mach_parse_compressed(s, sp.next, e))

mlog_parse_initial_log_record(s, i, e) ==
  IF e < i + 1 THEN Incomplete
  ELSE IF e < i + 3 THEN Incomplete
  ELSE InitialRecordSpace(s, i, e, mach_parse_compressed(s, i + 1, e))

\* Page image pg with the bytes v written at offset off (bytes the model
\* does not keep are left out).
SetBytes(pg, off, v) ==
  [pg EXCEPT !.bytes = [o \in DOMAIN @ |->
                          IF o - off + 1 \in DOMAIN v THEN v[o - off + 1] ELSE @[o]]]

\* MLOG_8BYTES once the offset is read: d, the parsed value.
ParseNBytes8(pg, off, d) ==
  IF d.next = -1 THEN Incomplete
  ELSE [st |-> "ok", next |-> d.next,
        pg |-> SetBytes(pg, off, BigEndian(d.val.high, 4) \o BigEndian(d.val.low, 4))]

\* MLOG_1BYTE, MLOG_2BYTES, MLOG_4BYTES once the offset is read: v, the
\* parsed value.  The range checks compare unsigned: a value of 2^31 or
\* more is held negative (see Mach).
ParseNBytesVal(type, pg, off, v) ==
  CASE v.next = -1 -> Incomplete
    [] type = MLOG_1BYTE /\ (v.val < 0 \/ v.val > 255) -> Corrupt
    [] type = MLOG_2BYTES /\ (v.val < 0 \/ v.val > 65535) -> Corrupt
    [] type \in {MLOG_1BYTE, MLOG_2BYTES, MLOG_4BYTES} ->
         [st |-> "ok", next |-> v.next, pg |-> SetBytes(pg, off, BigEndian(v.val, type))]
    [] OTHER -> Corrupt

ParseNBytesAt(type, s, i, e, pg, off) ==
  CASE off >= UNIV_PAGE_SIZE -> Corrupt
    [] type = MLOG_8BYTES -> ParseNBytes8(pg, off, mach_uint64_parse_compressed(s, i + 2, e))
    [] OTHER -> ParseNBytesVal(type, pg, off, mach_parse_compressed(s, i + 2, e))

mlog_parse_nbytes(type, s, i, e, pg) ==
  IF e < i + 2 THEN Incomplete ELSE ParseNBytesAt(type, s, i, e, pg, ReadBE(s, i, 2))

ParseStringAt(s, i, e, pg, off, len) ==
  CASE off >= UNIV_PAGE_SIZE \/ len + off > UNIV_PAGE_SIZE -> Corrupt
    [] e < i + 4 + len -> Incomplete
    [] OTHER -> [st |-> "ok", next |-> i + 4 + len,
                 pg |-> SetBytes(pg, off, SubSeq(s, i + 4, i + 3 + len))]

\* is_index: the page is a B-tree page (FIL_PAGE_INDEX).
mlog_parse_string(s, i, e, pg, is_index) ==
  IF is_index THEN Halted
  ELSE IF e < i + 4 THEN Incomplete
  ELSE ParseStringAt(s, i, e, pg, ReadBE(s, i, 2), ReadBE(s, i + 2, 2))

\* The dummy index field of a logged field length (dict_mem_table_add_col
\* with DATA_BINARY or DATA_FIXBINARY and the length len & 0x7fff).
DummyField(len) ==
  [fixed_len |-> IF ((len + 1) & 32767) <= 1 THEN 0 ELSE len & 32767,
   not_null |-> (len & 32768) # 0,
   big |-> (len & 32767) > 255]

DATA_TRX_ID_LEN == 6
DATA_ROLL_PTR_LEN == 7

\* The column length logged for field k of the n at s[i].
LoggedColLen(s, i, k) == ReadBE(s, i + 2 + 2 * k, 2) & 32767

ParseIndexAt(s, i, e, n, n_uniq) ==
  CASE e < i + 4 + 2 * n -> Incomplete
    [] n_uniq # n /\ n_uniq + 2 > n -> Halted
    [] n_uniq # n /\ (LoggedColLen(s, i, n_uniq + 1) # DATA_TRX_ID_LEN
                      \/ LoggedColLen(s, i, n_uniq + 2) # DATA_ROLL_PTR_LEN) -> Halted
    [] OTHER -> [st |-> "ok", next |-> i + 4 + 2 * n,
                 index |-> [comp |-> TRUE, clust |-> n_uniq # n, n_uniq |-> n_uniq,
                            fields |-> [k \in 1..n |-> DummyField(ReadBE(s, i + 2 + 2 * k, 2))]]]

mlog_parse_index(s, i, e, comp) ==
  IF ~comp THEN [st |-> "ok", next |-> i,
                 index |-> [comp |-> FALSE, clust |-> FALSE, fields |-> <<>>, n_uniq |-> 1]]
  ELSE IF e < i + 4 THEN Incomplete
  ELSE ParseIndexAt(s, i, e, ReadBE(s, i, 2), ReadBE(s, i + 2, 2))

\* ULINT_UNDEFINED as the n_fields of rec_get_offsets: all fields.
ALL_FIELDS == REC_MAX_N_FIELDS + 1

\* The record rebuilt from the log: x, the extra size; hl, the bytes after
\* it (status, or field count and flag); dt, the data size; its extra
\* bytes start at s[dt.next].
RebuiltRec(s, index, x, dt) ==
  IF index.comp
  THEN [comp |-> TRUE, status |-> CHOOSE st \in RecStatus : StatusCode[st] = s[x.next],
        below |-> Reverse(SubSeq(s, dt.next, dt.next + x.val - REC_N_NEW_EXTRA_BYTES - 1)),
        data |-> dt.val, extra |-> x.val]
  ELSE LET nf == ReadBE(s, x.next, 2)
           w == IF nf % 2 = 1 THEN 1 ELSE 2
       IN [comp |-> FALSE, status |-> "ORDINARY", n_fields |-> nf \div 2, one_byte |-> w = 1,
           info |-> [k \in 1..(nf \div 2) |-> ReadBE(s, dt.next + (nf \div 2 - k) * w, w)],
           data |-> dt.val, extra |-> x.val]

\* The record inserted as rec_offs_size of its offsets says, up to next.
InsertRebuilt(pg, rec, offs, next) ==
  IF offs.fail THEN Halted
  ELSE [st |-> "ok", next |-> next,
        pg |-> [pg EXCEPT !.recs = Append(@, [rec EXCEPT !.extra = offs.extra,
                                                        !.data = offs.ends[Len(offs.ends)].end])]]

InsertRecBody(s, e, pg, index, x, dt) ==
  LET ne == x.val - (IF index.comp THEN REC_N_NEW_EXTRA_BYTES ELSE REC_N_OLD_EXTRA_BYTES)
  IN CASE dt.next = -1 -> Incomplete
       [] e < dt.next + ne + dt.val -> Incomplete
       [] OTHER -> LET rec == RebuiltRec(s, index, x, dt)
                   IN InsertRebuilt(pg, rec, rec_get_offsets_func(rec, index, ALL_FIELDS),
                                    dt.next + ne + dt.val)

InsertRecHdr(s, e, pg, index, x) ==
  LET hl == IF index.comp THEN 1 ELSE 2
  IN IF x.next = -1 \/ x.next + hl > e THEN Incomplete
     ELSE InsertRecBody(s, e, pg, index, x, mach_parse_compressed(s, x.next + hl, e))

\* page_cur_parse_insert_rec (abridged as InsertHdr and InsertPayload):
\* rebuild the record from the log, take its offsets with the dummy index
\* and insert the rec_offs_size bytes from its start.
page_cur_parse_insert_rec(s, i, e, pg, index) ==
  InsertRecHdr(s, e, pg, index, mach_parse_compressed(s, i, e))

\* The page of a record: PageNo[p] in the tablespace SpaceId.
PageOf(r) == {p \in Page : r.space = SpaceId /\ PageNo[p] = r.page_no}

\* The body of a record of header h on page p (recv_parse_or_apply_log_rec_body).
ParseBody(s, e, pg, h, p) ==
  CASE h.type \in {MLOG_1BYTE, MLOG_2BYTES, MLOG_4BYTES, MLOG_8BYTES} ->
         mlog_parse_nbytes(h.type, s, h.next, e, pg)
    [] h.type = MLOG_WRITE_STRING ->
         mlog_parse_string(s, h.next, e, pg, p \in IndexPage)
    [] h.type \in {MLOG_PAGE_CREATE, MLOG_COMP_PAGE_CREATE} ->
         [st |-> "ok", next |-> h.next, pg |-> [pg EXCEPT !.recs = <<>>]]
    [] h.type \in {MLOG_REC_INSERT, MLOG_COMP_REC_INSERT} ->
         LET ix == mlog_parse_index(s, h.next, e, h.type = MLOG_COMP_REC_INSERT)
         IN IF ix.st # "ok" THEN ix
            ELSE page_cur_parse_insert_rec(s, ix.next, e, pg, ix.index)
    [] OTHER -> Corrupt

ApplyBody(pgs, h, p, b) ==
  IF b.st # "ok" THEN b
  ELSE [st |-> "ok", next |-> b.next, type |-> h.type, pgs |-> [pgs EXCEPT ![p] = b.pg]]

ParseRecHdr(s, e, pgs, h) ==
  CASE h.st # "ok" -> h
    [] PageOf(h) = {} -> Corrupt
    [] OTHER -> LET p == CHOOSE q \in PageOf(h) : TRUE
                IN ApplyBody(pgs, h, p, ParseBody(s, e, pgs[p], h, p))

\* One log record at s[i] applied to the pages pgs (recv_parse_log_rec with
\* recv_parse_or_apply_log_rec_body): [st, next, type, pgs].
ParseRec(s, i, e, pgs) ==
  IF i >= e THEN Incomplete
  ELSE IF s[i] = MLOG_MULTI_REC_END
  THEN [st |-> "ok", next |-> i + 1, type |-> MLOG_MULTI_REC_END, pgs |-> pgs]
  ELSE ParseRecHdr(s, e, pgs, mlog_parse_initial_log_record(s, i, e))

\* The records of a multi-record group from s[i] up to and including its
\* MLOG_MULTI_REC_END, applied to pgs.
RECURSIVE ParseMulti(_, _, _, _)
ParseMultiNext(s, e, r) ==
  IF r.st # "ok" \/ r.type = MLOG_MULTI_REC_END THEN r ELSE ParseMulti(s, r.next, e, r.pgs)

ParseMulti(s, i, e, pgs) == ParseMultiNext(s, e, ParseRec(s, i, e, pgs))

-----------------------------------------------------------------------------
(***************************************************************************)
(* The system.  A write request w is one of                                *)
(*   [op |-> "ulint", page, off, type, val]     mlog_write_ulint           *)
(*   [op |-> "uint64", page, off, val]          mlog_write_uint64          *)
(*   [op |-> "string", page, off, str]          mlog_write_string          *)
(*   [op |-> "create", page]                    page create                *)
(*   [op |-> "insert", page, index, tuple]      record insert              *)
(* with val of uint64 a [high, low] pair of 32-bit words.                  *)
(***************************************************************************)

\* The page bytes a write request changes.
Touched(w) ==
  CASE w.op = "ulint"  -> w.off..(w.off + w.type - 1)
    [] w.op = "uint64" -> w.off..(w.off + 7)
    [] w.op = "string" -> w.off..(w.off + Len(w.str) - 1)
    [] OTHER           -> {}

PageBytes == UNION {Touched(w) : w \in Write}

EmptyPages == [p \in Page |-> [bytes |-> [o \in PageBytes |-> 0], recs |-> <<>>]]

Init ==
  /\ page = EmptyPages
  /\ mtr_on = FALSE
  /\ mlog = <<>>
  /\ blocks = <<0>>
  /\ n_recs = 0
  /\ n_total = 0
  /\ log = <<>>
  /\ flushed = 0
  /\ images = <<EmptyPages>>
  /\ bounds = <<0>>
  /\ recv = NONE
  /\ inserted = {}

\* mtr_start.
MtrStart ==
  /\ recv = NONE /\ ~mtr_on /\ n_total < MaxRecs
  /\ mtr_on' = TRUE /\ mlog' = <<>> /\ blocks' = <<0>> /\ n_recs' = 0
  /\ UNCHANGED <<page, n_total, log, flushed, images, bounds, recv, inserted>>

\* A write of the running mtr: the log bytes it appends and the dyn array
\* blocks after it.
Logged(bytes, bl) ==
  /\ mlog' = mlog \o bytes /\ blocks' = bl
  /\ n_recs' = n_recs + 1 /\ n_total' = n_total + 1
  /\ UNCHANGED <<mtr_on, log, flushed, images, bounds, recv>>

CanWrite(w, op) == mtr_on /\ n_total < MaxRecs /\ w.op = op

mlog_write_ulint(w) ==
  LET bytes == mlog_write_initial_log_record_fast(w.page, w.type)
               \o BigEndian(w.off, 2) \o mach_write_compressed(w.val)
  IN /\ CanWrite(w, "ulint") /\ w.type \in {MLOG_1BYTE, MLOG_2BYTES, MLOG_4BYTES}
     /\ page' = [page EXCEPT ![w.page] = SetBytes(@, w.off, BigEndian(w.val, w.type))]
     /\ Logged(bytes, mlog_close(dyn_array_open(blocks, 11 + 2 + 5), Len(bytes)))
     /\ UNCHANGED inserted

mlog_write_uint64(w) ==
  LET bytes == mlog_write_initial_log_record_fast(w.page, MLOG_8BYTES)
               \o BigEndian(w.off, 2) \o mach_uint64_write_compressed(w.val)
  IN /\ CanWrite(w, "uint64")
     /\ page' = [page EXCEPT ![w.page] =
                   SetBytes(@, w.off, BigEndian(w.val.high, 4) \o BigEndian(w.val.low, 4))]
     /\ Logged(bytes, mlog_close(dyn_array_open(blocks, 11 + 2 + 9), Len(bytes)))
     /\ UNCHANGED inserted

\* mlog_write_string: the copy, then mlog_log_string (its header in a
\* 30-byte reservation, the string by mlog_catenate_string).
mlog_write_string(w) ==
  LET len == Len(w.str)
      hdr == mlog_write_initial_log_record_fast(w.page, MLOG_WRITE_STRING)
             \o BigEndian(w.off, 2) \o BigEndian(len, 2)
  IN /\ CanWrite(w, "string") /\ len < UNIV_PAGE_SIZE
     /\ page' = [page EXCEPT ![w.page] = SetBytes(@, w.off, w.str)]
     /\ Logged(hdr \o w.str,
               dyn_push_string(mlog_close(dyn_array_open(blocks, 30), Len(hdr)), len))
     /\ UNCHANGED inserted

\* page_create: an empty page, logged by mlog_write_initial_log_record.
page_create(w) ==
  LET bytes == mlog_write_initial_log_record_fast(w.page, w.type)
  IN /\ CanWrite(w, "create") /\ w.type \in {MLOG_PAGE_CREATE, MLOG_COMP_PAGE_CREATE}
     /\ page' = [page EXCEPT ![w.page].recs = <<>>]
     /\ Logged(bytes, mlog_close(dyn_array_open(blocks, 11), Len(bytes)))
     /\ UNCHANGED inserted

\* page_cur_insert_rec_low with page_cur_insert_rec_write_log: the record
\* built from the tuple is inserted; its log record is the index header of
\* mlog_open_and_write_index, the insert header in the reservation it
\* leaves open, and the record bytes catenated.
page_cur_insert_rec(w) ==
  LET rec == rec_convert_dtuple_to_rec(w.index, w.tuple)
      type == IF w.index.comp THEN MLOG_COMP_REC_INSERT ELSE MLOG_REC_INSERT
      ix == mlog_open_and_write_index(blocks, w.page, w.index, type, InsertHdrSize)
      hdr == InsertHdr(rec)
  IN /\ CanWrite(w, "insert")
     /\ page' = [page EXCEPT ![w.page].recs = Append(@, rec)]
     /\ Logged(ix.bytes \o hdr \o InsertPayload(rec),
               dyn_push_string(mlog_close(ix.bl, ix.w + Len(hdr)), Len(InsertPayload(rec))))
     /\ inserted' = inserted \cup {w}

\* mtr_commit (mtr_log_reserve_and_write): a lone record gets
\* MLOG_SINGLE_REC_FLAG on its type byte, several are closed by
\* MLOG_MULTI_REC_END; the log goes to the redo log in one piece.
MtrCommit ==
  LET final == IF n_recs = 1 THEN [mlog EXCEPT ![1] = @ | MLOG_SINGLE_REC_FLAG]
               ELSE mlog \o <<MLOG_MULTI_REC_END>>
  IN /\ mtr_on /\ n_recs > 0
     /\ mtr_on' = FALSE
     /\ log' = log \o final
     /\ images' = Append(images, page)
     /\ bounds' = Append(bounds, Len(log) + Len(final))
     /\ UNCHANGED <<page, mlog, blocks, n_recs, n_total, flushed, recv, inserted>>

\* A crash: the running mtr and the buffer pool are lost, and of the redo
\* log a prefix of L bytes is on disk, L anywhere from what was flushed to
\* all of it.  Recovery parses from the start of the log over the pages as
\* they were before the first write (no page is flushed in this model).
Crash ==
  /\ recv = NONE
  /\ \E L \in flushed..Len(log) :
       /\ log' = SubSeq(log, 1, L)
       /\ recv' = [end |-> L, ptr |-> 0, pages |-> images[1], state |-> "parsing"]
  /\ mtr_on' = FALSE /\ mlog' = <<>> /\ blocks' = <<0>> /\ n_recs' = 0
  /\ UNCHANGED <<page, n_total, flushed, images, bounds, inserted>>

\* recv_parse_log_recs: the group at byte ptr of the log (bytes ptr+1..),
\* a lone record or the records up to MLOG_MULTI_REC_END; at the end of
\* the log, st "end".
RecvGroup(r, s) ==
  IF r.ptr = r.end THEN [st |-> "end", next |-> -1]
  ELSE IF (s[r.ptr + 1] & MLOG_SINGLE_REC_FLAG) # 0
  THEN ParseRec(s, r.ptr + 1, r.end + 1, r.pages)
  ELSE ParseMulti(s, r.ptr + 1, r.end + 1, r.pages)

\* A complete group g is applied and parsing moves past it.
RecvApplyGroup(g) ==
  /\ g.st = "ok"
  /\ recv' = [recv EXCEPT !.ptr = g.next - 1, !.pages = g.pgs]
  /\ UNCHANGED <<page, mtr_on, mlog, blocks, n_recs, n_total, log, flushed, images, bounds, inserted>>

\* The log ends, or ends inside a group: recovery is complete.
RecvEndGroup(g) ==
  /\ g.st \in {"end", "incomplete"}
  /\ recv' = [recv EXCEPT !.state = "done"]
  /\ UNCHANGED <<page, mtr_on, mlog, blocks, n_recs, n_total, log, flushed, images, bounds, inserted>>

\* The steps of recovery on the group at ptr.  (A corrupt group or a
\* failed assertion ends recovery with no step.)
RecvApply == recv # NONE /\ recv.state = "parsing" /\ RecvApplyGroup(RecvGroup(recv, log))

RecvEnd == recv # NONE /\ recv.state = "parsing" /\ RecvEndGroup(RecvGroup(recv, log))

\* The server runs on from the recovered pages; the log continues at the
\* end of the last complete group, and the mtrs past it never happened.
Restart ==
  /\ recv # NONE /\ recv.state = "done"
  /\ \E k \in DOMAIN bounds :
       /\ bounds[k] = recv.ptr
       /\ images' = SubSeq(images, 1, k)
       /\ bounds' = SubSeq(bounds, 1, k)
  /\ page' = recv.pages
  /\ log' = SubSeq(log, 1, recv.ptr)
  /\ flushed' = recv.ptr
  /\ recv' = NONE
  /\ UNCHANGED <<mtr_on, mlog, blocks, n_recs, n_total, inserted>>

Next ==
  \/ MtrStart
  \/ \E w \in Write :
       \/ mlog_write_ulint(w)
       \/ mlog_write_uint64(w)
       \/ mlog_write_string(w)
       \/ page_create(w)
       \/ page_cur_insert_rec(w)
  \/ MtrCommit
  \/ Crash
  \/ RecvApply
  \/ RecvEnd
  \/ Restart

Spec == Init /\ [][Next]_vars

-----------------------------------------------------------------------------
(***************************************************************************)
(* Properties.                                                             *)
(***************************************************************************)

RecvState == {"parsing", "done"}

TypeOK ==
  /\ mtr_on \in BOOLEAN
  /\ mlog \in Seq(0..255) /\ log \in Seq(0..255)
  /\ blocks \in Seq(Nat) /\ blocks # <<>>
  /\ n_recs \in 0..MaxRecs /\ n_total \in 0..MaxRecs
  /\ flushed \in 0..Len(log) \/ recv # NONE
  /\ Len(images) = Len(bounds)
  /\ inserted \subseteq Write
  /\ recv = NONE \/ (recv.state \in RecvState /\ recv.ptr \in 0..recv.end)

\* Recovery replays exactly the committed mtrs: whatever prefix of the log
\* survives a crash, the log parses without corrupt records or failed
\* assertions (recv_sys->found_corrupt_log or a failed ut_a would end
\* recovery there), parsing stops only between mtrs, the pages it has rebuilt
\* are the pages as those mtrs left them (the dummy index of
\* mlog_parse_index lays each inserted record out as the real index did),
\* and it stops at the last mtr the surviving prefix holds in full.
RedoReplaysWrites ==
  recv # NONE =>
    /\ recv.state = "parsing" => RecvGroup(recv, log).st \in {"ok", "end", "incomplete"}
    /\ \E k \in DOMAIN bounds :
         /\ bounds[k] = recv.ptr
         /\ recv.pages = images[k]
         /\ recv.state = "done" =>
              \A j \in DOMAIN bounds : bounds[j] <= recv.end => bounds[j] <= recv.ptr

\* Every mtr log write stays inside the dyn array block it reserved: the
\* reservations of mlog_write_ulint, mlog_write_uint64, mlog_log_string and
\* the chunked index header of mlog_open_and_write_index cover the bytes
\* written, so no block's used count passes DYN_ARRAY_DATA_SIZE.
DynBlocksBounded == \A k \in DOMAIN blocks : blocks[k] <= DynDataSize

\* The record format round-trips for every tuple an insert writes: the
\* offsets rec_get_offsets reads from the record rec_convert_dtuple_to_rec
\* built put every field where the tuple's lengths say, with its NULL and
\* external flags (the null bitmap across byte boundaries, 1- and 2-byte
\* lengths at 127/128, the old format's 1- and 2-byte end infos); the
\* record validates; rec_get_offsets_reverse, rec_get_n_extern_new and
\* rec_get_nth_field_offs_old agree with them; an old-style field set to
\* SQL NULL keeps its size and the record still validates; and every
\* prefix copied by rec_copy_prefix_to_buf, and every prefix without an
\* external field copied by rec_copy_prefix_to_dtuple, reads back as the
\* same fields.
RoundTrip(index, t) ==
  LET r == rec_convert_dtuple_to_rec(index, t)
      offs == rec_get_offsets_func(r, index, ALL_FIELDS)
      n == Len(t.fields)
      lay == Layout(index, t)
  IN /\ offs.ends = lay /\ offs.extra = r.extra /\ ~offs.fail
     /\ rec_validate(r, offs)
     /\ index.comp =>
          LET rv == rec_get_offsets_reverse(r.below, index, t.status = "NODE_PTR")
          IN rv.ends = lay /\ rv.extra = r.extra
     /\ index.comp /\ t.status = "ORDINARY" => rec_get_n_extern_new(r, index, n) = NExt(t)
     /\ ~index.comp =>
          \A i \in 0..(n - 1) :
            /\ rec_get_nth_field_offs_old(r, i) = rec_get_nth_field(offs, i)
            /\ LET r2 == rec_set_nth_field_sql_null(r, i)
               IN /\ rec_get_nth_field_offs_old(r2, i).len = UNIV_SQL_NULL
                  /\ rec_get_nth_field_size(r2, i) = rec_get_nth_field_size(r, i)
                  /\ rec_validate_old(r2)
     /\ t.status = "ORDINARY" =>
          \A k \in 1..n :
            /\ rec_get_offsets_func(rec_copy_prefix_to_buf(r, index, k), index, k).ends
                 = SubSeq(lay, 1, k)
            \* rec_copy_prefix_to_dtuple requires a prefix without external
            \* fields (ut_ad at rem0rec.cc:1088).
            /\ (\A i \in 1..k : ~t.fields[i].ext) =>
                 rec_copy_prefix_to_dtuple(r, index, k)
                 = [i \in 1..k |-> [null |-> t.fields[i].null,
                                    len |-> IF t.fields[i].null THEN UNIV_SQL_NULL
                                            ELSE t.fields[i].len,
                                    ext |-> FALSE]]

RecordRoundTrip == [][\A w \in inserted' \ inserted : RoundTrip(w.index, w.tuple)]_vars

====
