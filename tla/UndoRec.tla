-------------------------------- MODULE UndoRec --------------------------------
(***************************************************************************)
(* Undo log records (trx0rec.cc), the old row versions built from them,    *)
(* and purge freeing them.                                                 *)
(*                                                                         *)
(* Writer transactions insert, update and delete-mark one clustered index  *)
(* row.  Before each change trx_undo_report_row_operation writes an undo   *)
(* record on the last page of the trx's insert or update undo log          *)
(* (trx_undo_page_report_insert / trx_undo_page_report_modify), byte by    *)
(* byte, with the free-space checks the code makes between the pieces; a  *)
(* record that does not fit erases the page end and the log is extended by *)
(* a page.  Every change of an undo page is redo logged (MLOG_UNDO_INSERT, *)
(* MLOG_UNDO_ERASE_END, MLOG_UNDO_INIT).  The row holds DB_TRX_ID and      *)
(* DB_ROLL_PTR, the roll pointer of the undo record of its last change.    *)
(*                                                                         *)
(* A reader opens a read view and reads the row: while its view does not   *)
(* see the version's trx id it builds the previous version with           *)
(* trx_undo_prev_version_build, which decodes the undo record the roll    *)
(* pointer addresses (trx_undo_rec_get_pars, ..._get_sys_cols,             *)
(* trx_undo_rec_skip_row_ref, trx_undo_update_rec_get_update) or answers   *)
(* DB_MISSING_HISTORY when trx_purge_update_undo_must_exist says the undo  *)
(* may be gone.  Purge, from the specification (trx0purge.cc and row0purge *)
(* are not part of the repository), takes the oldest read view as its     *)
(* view, removes a delete-marked row and frees the update undo logs of the *)
(* trxs whose trx_no is below the view's low_limit_no; freed pages are     *)
(* reused by later undo logs.  Read views, trx numbers and the row locks   *)
(* (a row changed by an active trx is not changed by another) also follow  *)
(* the specification.                                                      *)
(*                                                                         *)
(* The index is clustered on a one-byte key; its fields are the key (0),   *)
(* DB_TRX_ID (1), DB_ROLL_PTR (2) and a nullable column c (3).  A field    *)
(* value is SQL_NULL or its bytes.  Externally stored columns are not      *)
(* modelled.                                                               *)
(***************************************************************************)
EXTENDS Mach, SequencesExt, FiniteSets

CONSTANTS
  Trx,           \* the writer transactions
  Val,           \* the byte values column c takes
  KeyByte,       \* the one-byte primary key of the row
  TableId,       \* table->id (high word 0)
  RsegId,        \* trx->rseg->id
  PageNo,        \* the undo page numbers of the tablespace
  UndoPageSize,  \* UNIV_PAGE_SIZE of the undo pages
  SecIndexOnC,   \* column c is an ordering column of a secondary index
  InitTrxId,     \* trx_sys->max_trx_id at startup
  MaxOps,        \* bound: row operations per trx
  MaxViews,      \* bound: read views the reader opens
  NONE,          \* no value
  SQL_NULL,      \* the SQL NULL value of a field
  ABSENT         \* no row in a read view

VARIABLES
  state,       \* state[t]: "NOT_STARTED", "ACTIVE" or "COMMITTED"
  trx_id,      \* trx_id[t]
  trx_no,      \* trx_no[t], 0 before commit
  undo_no,     \* trx->undo_no
  insert_undo, \* the pages of t's insert undo log, the last one current
  update_undo, \* the pages of t's update undo log
  pending,     \* the row operation t retries on a new page, or NONE
  n_ops,       \* row operations t has performed (bounded by MaxOps)
  max_trx_id,  \* trx_sys->max_trx_id
  row,         \* the clustered index record, or NONE
  pages,       \* pages[p]: [free, bytes], the undo page p
  free_pages,  \* the pages no undo log holds
  base,        \* base[p]: p before its current undo log took it (history)
  redo,        \* redo[p]: the redo log records of p since then
  history,     \* the trxs whose update undo logs wait for purge, by trx_no
  hist,        \* the committed-or-not changes of the row, in order (history)
  rd,          \* the reader: [st, view, vers, res]
  n_views,     \* read views the reader has opened
  purge_view   \* purge_sys->view

vars == <<state, trx_id, trx_no, undo_no, insert_undo, update_undo, pending,
          n_ops, max_trx_id, row, pages, free_pages, base, redo,
          history, hist, rd, n_views, purge_view>>

UNIV_SQL_NULL == -1
\* UNIV_SQL_NULL - UNIV_PAGE_SIZE of the server (16 kB pages).
UNIV_EXTERN_STORAGE_FIELD == -16385

TRX_UNDO_INSERT_REC == 11
TRX_UNDO_UPD_EXIST_REC == 12
TRX_UNDO_UPD_DEL_REC == 13
TRX_UNDO_DEL_MARK_REC == 14
TRX_UNDO_CMPL_INFO_MULT == 16
TRX_UNDO_UPD_EXTERN == 128
UPD_NODE_NO_ORD_CHANGE == 1
UPD_NODE_NO_SIZE_CHANGE == 2
REC_INFO_DELETED_FLAG == 32
TRX_UNDO_PAGE_HDR == 38
TRX_UNDO_PAGE_HDR_SIZE == 18
FIL_PAGE_DATA_END == 8

\* TRX_UNDO_PAGE_FREE after trx_undo_page_init, and the bytes after it.
PageStart == TRX_UNDO_PAGE_HDR + TRX_UNDO_PAGE_HDR_SIZE
DataArea == PageStart..(UndoPageSize - FIL_PAGE_DATA_END - 1)

\* The clustered index: n_unique 1, four fields.
N_UNIQUE == 1
N_FIELDS == 4
C_POS == 3

\* The positions of the ordering columns in table column order.
OrdPos == <<0>> \o (IF SecIndexOnC THEN <<C_POS>> ELSE <<>>)

CVal == {<<v>> : v \in Val} \cup {SQL_NULL}

FieldLen(f) == IF f = SQL_NULL THEN UNIV_SQL_NULL ELSE Len(f)

\* rec_get_nth_field for the user fields of a record version.
NthField(rec, pos) == IF pos = 0 THEN rec.key ELSE rec.c

TrxId64(id) == [high |-> 0, low |-> id]

\* trx_undo_build_roll_ptr and trx_undo_decode_roll_ptr (trx0undo.ic): bit
\* 55 is_insert, bits 48..54 the rseg id, 16..47 the page, 0..15 the offset.
trx_undo_build_roll_ptr(is_insert, rseg, page_no, offset) ==
  [high |-> (IF is_insert THEN 8388608 ELSE 0) + rseg * 65536 + page_no \div 65536,
   low |-> (page_no % 65536) * 65536 + offset]

trx_undo_decode_roll_ptr(rp) ==
  [is_insert |-> rp.high >= 8388608,
   page_no |-> (rp.high % 65536) * 65536 + rp.low \div 65536,
   offset |-> rp.low % 65536]

trx_undo_roll_ptr_is_insert(rp) == rp.high >= 8388608

-----------------------------------------------------------------------------
(***************************************************************************)
(* Read views (read0read, from the specification).                         *)
(***************************************************************************)

\* read_view_open_now: ids of the active trxs, low_limit_id the next id,
\* low_limit_no the smallest trx_no an active trx has been given.
read_view_open_now ==
  LET act == {t \in Trx : state[t] = "ACTIVE"}
  IN [low_id |-> max_trx_id,
      low_no |-> Min({max_trx_id} \cup {trx_no[t] : t \in {u \in act : trx_no[u] > 0}}),
      ids |-> {trx_id[t] : t \in act}]

\* read_view_sees_trx_id.
Sees(view, id) == id < view.low_id /\ id \notin view.ids

\* trx_purge_update_undo_must_exist.
trx_purge_update_undo_must_exist(id) == ~Sees(purge_view, id)

-----------------------------------------------------------------------------
(***************************************************************************)
(* Writing an undo record.  A record is written as a sequence of pieces    *)
(* [need, data]: the code checks trx_undo_left(ptr) >= need and returns 0  *)
(* (the record does not fit) when it is not, else writes data at ptr.  A   *)
(* data byte -1 is one the code skips (ptr += 2 for the next pointer).     *)
(***************************************************************************)

\* trx_undo_left: the bytes left at offset ptr, less the safety margin.
trx_undo_left(ptr) == UndoPageSize - ptr - 10 - FIL_PAGE_DATA_END

ByteAt(pg, o) == IF o \in DataArea THEN pg.bytes[o] ELSE 0

\* memcpy / mach_write_to_n of d at offset off (skipped bytes left alone).
PutBytes(pg, off, d) ==
  [pg EXCEPT !.bytes = [o \in DataArea |->
      IF o >= off /\ o < off + Len(d) /\ d[o - off + 1] >= 0
      THEN d[o - off + 1] ELSE pg.bytes[o]]]

\* The pieces in order: [ok, pg, ptr].
RECURSIVE WritePieces(_, _, _)
WritePieces(pg, ptr, ps) ==
  IF ps = <<>> THEN [ok |-> TRUE, pg |-> pg, ptr |-> ptr]
  ELSE IF trx_undo_left(ptr) < Head(ps).need THEN [ok |-> FALSE, pg |-> pg, ptr |-> ptr]
  ELSE WritePieces(PutBytes(pg, ptr, Head(ps).data), ptr + Len(Head(ps).data), Tail(ps))

PiecesBytes(ps) == FlattenSeq([i \in DOMAIN ps |-> ps[i].data])

\* The data of a stored field: the check of flen and the memcpy.
DataPiece(f) == IF f = SQL_NULL THEN <<>> ELSE <<[need |-> Len(f), data |-> f]>>

\* A field with its compressed length, the length checked against need.
FieldPieces(need, f) ==
  <<[need |-> need, data |-> mach_write_compressed(FieldLen(f))]>> \o DataPiece(f)

\* trx_undo_page_report_insert, up to trx_undo_page_set_next_prev_and_add.
trx_undo_page_report_insert(t) ==
  <<[need |-> 2 + 1 + 11 + 11,
     data |-> <<-1, -1, TRX_UNDO_INSERT_REC>>
              \o mach_uint64_write_much_compressed(TrxId64(undo_no[t]))
              \o mach_uint64_write_much_compressed(TrxId64(TableId))]>>
  \o FieldPieces(5, <<KeyByte>>)

\* The old values of the updated fields (update names their positions).
UpdatePieces(rec, update) ==
  <<[need |-> 5, data |-> mach_write_compressed(Len(update))]>>
  \o FlattenSeq([i \in DOMAIN update |->
       <<[need |-> 5, data |-> mach_write_compressed(update[i])]>>
       \o FieldPieces(15, NthField(rec, update[i]))])

\* The ordering columns: field number and length checked together (5 + 15).
OrdColPieces(rec) ==
  FlattenSeq([i \in DOMAIN OrdPos |->
    <<[need |-> 5 + 15, data |-> mach_write_compressed(OrdPos[i])
                                 \o mach_write_compressed(FieldLen(NthField(rec, OrdPos[i])))]>>
    \o DataPiece(NthField(rec, OrdPos[i]))])

\* trx_undo_page_report_modify, up to the prev/next pointers: update is
\* NONE for a delete marking.  The 2-byte length of the ordering columns,
\* reserved and patched by the code once they are written, is written with
\* its final value: the bytes are the same when the record fits and are
\* erased when it does not.
trx_undo_page_report_modify(t, rec, update, cmpl_info) ==
  LET type == IF update = NONE THEN TRX_UNDO_DEL_MARK_REC
              ELSE IF rec.info = REC_INFO_DELETED_FLAG THEN TRX_UNDO_UPD_DEL_REC
              ELSE TRX_UNDO_UPD_EXIST_REC
      ord == OrdColPieces(rec)
  IN <<[need |-> 50,
        data |-> <<-1, -1, type + cmpl_info * TRX_UNDO_CMPL_INFO_MULT>>
                 \o mach_uint64_write_much_compressed(TrxId64(undo_no[t]))
                 \o mach_uint64_write_much_compressed(TrxId64(TableId))
                 \o <<rec.info>>
                 \o mach_uint64_write_compressed(TrxId64(rec.trx_id))
                 \o mach_uint64_write_compressed(rec.roll_ptr)]>>
     \o FieldPieces(5, rec.key)
     \o (IF update = NONE THEN <<>> ELSE UpdatePieces(rec, update))
     \o (IF update = NONE \/ cmpl_info % 2 = 0
         THEN <<[need |-> 5, data |-> BigEndian(2 + Len(PiecesBytes(ord)), 2)]>> \o ord
         ELSE <<>>)

\* The logged length counts the record's prev pointer.
AddUndoRecLogWithPrev(pg, old_free, new_free) ==
  LET len == new_free - old_free - 2
  IN [type |-> "UNDO_INSERT",
      body |-> BigEndian(len, 2) \o [k \in 1..len |-> ByteAt(pg, old_free + 1 + k)]]

\* trx_undof_page_add_undo_rec_log: the MLOG_UNDO_INSERT body, the 2-byte
\* length and the record between its next and prev pointers.
trx_undof_page_add_undo_rec_log(pg, old_free, new_free) ==
  LET len == new_free - old_free - 4
  IN [type |-> "UNDO_INSERT",
      body |-> BigEndian(len, 2) \o [k \in 1..len |-> ByteAt(pg, old_free + 1 + k)]]

\* trx_undo_page_set_next_prev_and_add and the tail of report_modify: the
\* prev pointer at ptr, the next pointer at first_free, TRX_UNDO_PAGE_FREE,
\* and the redo record.  w is the result of writing the record's pieces.
trx_undo_page_set_next_prev_and_add(first_free, w) ==
  IF ~w.ok \/ trx_undo_left(w.ptr) < 2
  THEN [ok |-> FALSE, offset |-> 0, pg |-> w.pg]
  ELSE LET pg == [PutBytes(PutBytes(w.pg, w.ptr, BigEndian(first_free, 2)),
                           first_free, BigEndian(w.ptr + 2, 2))
                  EXCEPT !.free = w.ptr + 2]
       IN [ok |-> TRUE, offset |-> first_free, pg |-> pg,
           log |-> trx_undof_page_add_undo_rec_log(pg, first_free, w.ptr + 2)]

\* trx_undo_erase_page_end: 0xff from TRX_UNDO_PAGE_FREE to the page end.
trx_undo_erase_page_end(pg) ==
  [pg EXCEPT !.bytes = [o \in DataArea |-> IF o >= pg.free THEN 255 ELSE pg.bytes[o]]]

\* trx_undo_parse_add_undo_rec applied to page pg.
trx_undo_parse_add_undo_rec(s, pg) ==
  LET len == ReadBE(s, 1, 2)
      first_free == pg.free
  IN IF Len(s) < 2 + len THEN pg
     ELSE [PutBytes(PutBytes(PutBytes(pg, first_free, BigEndian(first_free + 4 + len, 2)),
                             first_free + 2 + len, BigEndian(first_free, 2)),
                    first_free + 2, SubSeq(s, 3, 2 + len))
           EXCEPT !.free = first_free + 4 + len]

\* Recovery applying one redo record of an undo page (recv_parse_or_apply_log_rec_body).
ApplyUndoLogRec(pg, r) ==
  CASE r.type = "UNDO_INIT" -> [pg EXCEPT !.free = PageStart]
    [] r.type = "UNDO_INSERT" -> trx_undo_parse_add_undo_rec(r.body, pg)
    [] r.type = "UNDO_ERASE_END" -> trx_undo_erase_page_end(pg)

-----------------------------------------------------------------------------
(***************************************************************************)
(* Reading an undo record.  s holds the record from its next pointer on,   *)
(* i is a position in s and e = Len(s) + 1 its end; a result with next =  *)
(* -1 is a read past the record, which only a malformed record causes.     *)
(***************************************************************************)

Bad == [next |-> -1]

\* trx_undo_rec_copy of the record at offset off: up to its next pointer.
trx_undo_rec_copy(pg, off) ==
  LET len == ByteAt(pg, off) * 256 + ByteAt(pg, off + 1) - off
  IN IF len <= 0 THEN <<>> ELSE [k \in 1..len |-> ByteAt(pg, off + k - 1)]

\* trx_undo_get_undo_rec_low: the record the roll pointer addresses.
trx_undo_get_undo_rec_low(roll_ptr) ==
  LET d == trx_undo_decode_roll_ptr(roll_ptr)
  IN IF d.page_no \in PageNo THEN trx_undo_rec_copy(pages[d.page_no], d.offset) ELSE <<>>

\* trx_undo_rec_get_pars: type, cmpl_info, updated_extern, undo_no, table_id.
ParsFrom(tc, un, tid) ==
  [type |-> (tc % TRX_UNDO_UPD_EXTERN) % TRX_UNDO_CMPL_INFO_MULT,
   cmpl_info |-> (tc % TRX_UNDO_UPD_EXTERN) \div TRX_UNDO_CMPL_INFO_MULT,
   updated_extern |-> tc >= TRX_UNDO_UPD_EXTERN,
   undo_no |-> un.val, table_id |-> tid.val, next |-> tid.next]

trx_undo_rec_get_pars(s, e) ==
  LET un == mach_uint64_parse_much_compressed(s, 4, e)
  IN IF Len(s) < 3 \/ un.next = -1 THEN Bad
     ELSE ParsFrom(s[3], un, mach_uint64_parse_much_compressed(s, un.next, e))

\* trx_undo_update_rec_get_sys_cols: info bits, DB_TRX_ID, DB_ROLL_PTR.
SysColsFrom(info, tid, rp) ==
  IF tid.next = -1 \/ rp.next = -1 THEN Bad
  ELSE [info_bits |-> info, trx_id |-> tid.val, roll_ptr |-> rp.val, next |-> rp.next]

trx_undo_update_rec_get_sys_cols(s, i, e) ==
  LET tid == mach_uint64_parse_compressed(s, i + 1, e)
  IN IF i >= e \/ tid.next = -1 THEN Bad
     ELSE SysColsFrom(s[i], tid, mach_uint64_parse_compressed(s, tid.next, e))

\* The len bytes at s[i] as a stored field.
FieldData(s, i, e, len, ext) ==
  IF i + len > e THEN Bad
  ELSE [val |-> SubSeq(s, i, i + len - 1), ext |-> ext, next |-> i + len]

\* trx_undo_rec_get_col_val; the length is read as a 32-bit value, so the
\* lengths UNIV_EXTERN_STORAGE_FIELD and up are the negative ones.  The
\* model writes no externally stored column.
ColValFrom(s, e, l) ==
  CASE l.next = -1 -> Bad
    [] l.val = UNIV_SQL_NULL -> [val |-> SQL_NULL, ext |-> FALSE, next |-> l.next]
    [] l.val = UNIV_EXTERN_STORAGE_FIELD -> Bad
    [] l.val < UNIV_EXTERN_STORAGE_FIELD -> Bad
    [] l.val < 0 -> FieldData(s, l.next, e, l.val - UNIV_EXTERN_STORAGE_FIELD, TRUE)
    [] OTHER -> FieldData(s, l.next, e, l.val, FALSE)

trx_undo_rec_get_col_val(s, i, e) == ColValFrom(s, e, mach_parse_compressed(s, i, e))

\* trx_undo_rec_skip_row_ref: the n_unique key fields.
trx_undo_rec_skip_row_ref(s, i, e) ==
  IF i = -1 THEN Bad ELSE trx_undo_rec_get_col_val(s, i, e)

\* The loop of trx_undo_update_rec_get_update over n fields:
\* trx_undo_update_rec_get_field_no, the check against the index's
\* n_fields, and the column value.
RECURSIVE UpdFields(_, _, _, _)
UpdFieldFrom(s, e, k, no, v) ==
  IF no.next = -1 \/ no.val < 0 \/ no.val >= N_FIELDS \/ v.next = -1 THEN Bad
  ELSE LET rest == UpdFields(s, v.next, e, k - 1)
       IN IF rest.next = -1 THEN Bad
          ELSE [fields |-> <<[field_no |-> no.val, val |-> v.val]>> \o rest.fields,
                next |-> rest.next]

UpdFields(s, i, e, k) ==
  IF k = 0 THEN [fields |-> <<>>, next |-> i]
  ELSE LET no == mach_parse_compressed(s, i, e)
       IN UpdFieldFrom(s, e, k, no,
                       IF no.next = -1 THEN Bad ELSE trx_undo_rec_get_col_val(s, no.next, e))

\* update->info_bits left at upd_create's 0.
UpdateGetUpdateNoInfo(s, i, e, type, tid, rp, info_bits) ==
  LET n == IF type # TRX_UNDO_DEL_MARK_REC THEN mach_parse_compressed(s, i, e)
           ELSE [val |-> 0, next |-> i]
      f == IF n.next = -1 \/ n.val < 0 \/ n.val > e THEN Bad ELSE UpdFields(s, n.next, e, n.val)
  IN IF i = -1 \/ f.next = -1 THEN Bad
     ELSE [info_bits |-> 0, trx_id |-> tid, roll_ptr |-> rp,
           fields |-> f.fields, next |-> f.next]

\* trx_undo_update_rec_get_update: the update vector of the old values, the
\* trx id and roll pointer of the old version last.  A count larger than the
\* bytes left cannot be read and is a read past the record.
trx_undo_update_rec_get_update(s, i, e, type, tid, rp, info_bits) ==
  LET n == IF type # TRX_UNDO_DEL_MARK_REC THEN mach_parse_compressed(s, i, e)
           ELSE [val |-> 0, next |-> i]
      f == IF n.next = -1 \/ n.val < 0 \/ n.val > e THEN Bad ELSE UpdFields(s, n.next, e, n.val)
  IN IF i = -1 \/ f.next = -1 THEN Bad
     ELSE [info_bits |-> info_bits, trx_id |-> tid, roll_ptr |-> rp,
           fields |-> f.fields, next |-> f.next]

\* row_upd_rec_in_place: the fields in order, then info bits and the system
\* columns (a user field numbered 1 or 2 is overwritten by them).
ApplyUpdField(rec, uf) ==
  CASE uf.field_no = 0 -> [rec EXCEPT !.key = uf.val]
    [] uf.field_no = C_POS -> [rec EXCEPT !.c = uf.val]
    [] OTHER -> rec

row_upd_rec_in_place(rec, upd) ==
  [FoldLeft(ApplyUpdField, rec, upd.fields) EXCEPT
     !.info = upd.info_bits, !.trx_id = upd.trx_id.low, !.roll_ptr = upd.roll_ptr]

\* The part of trx_undo_prev_version_build after the undo record is read:
\* the record's fields, the table id check, the old version.  A record's
\* trx id is held as its low word: every id of the model is below 2^32.
BuildFrom(rec, pars, upd) ==
  IF pars.next = -1 \/ upd.next = -1 \/ pars.table_id # TrxId64(TableId)
  THEN [err |-> "DB_ERROR", vers |-> NONE]
  ELSE [err |-> "DB_SUCCESS", vers |-> row_upd_rec_in_place(rec, upd)]

BuildFromSys(rec, s, e, pars, sys) ==
  IF sys.next = -1 THEN [err |-> "DB_ERROR", vers |-> NONE]
  ELSE BuildFrom(rec, pars,
         trx_undo_update_rec_get_update(s, trx_undo_rec_skip_row_ref(s, sys.next, e).next, e,
                                        pars.type, sys.trx_id, sys.roll_ptr, sys.info_bits))

BuildFromRec(rec, s, pars) ==
  IF pars.next = -1 THEN [err |-> "DB_ERROR", vers |-> NONE]
  ELSE BuildFromSys(rec, s, Len(s) + 1, pars,
                    trx_undo_update_rec_get_sys_cols(s, pars.next, Len(s) + 1))

\* trx_undo_prev_version_build: no older version behind an insert, and
\* DB_MISSING_HISTORY (trx_undo_get_undo_rec) when purge may have freed it.
trx_undo_prev_version_build(rec) ==
  IF trx_undo_roll_ptr_is_insert(rec.roll_ptr) THEN [err |-> "DB_SUCCESS", vers |-> NONE]
  ELSE IF ~trx_purge_update_undo_must_exist(rec.trx_id)
  THEN [err |-> "DB_MISSING_HISTORY", vers |-> NONE]
  ELSE LET s == trx_undo_get_undo_rec_low(rec.roll_ptr)
       IN BuildFromRec(rec, s, trx_undo_rec_get_pars(s, Len(s) + 1))

-----------------------------------------------------------------------------
(***************************************************************************)
(* The undo pages: S = [pages, redo, base, free] as one value, so that a   *)
(* step can take a page and write on it.                                   *)
(***************************************************************************)

Store == [pages |-> pages, redo |-> redo, base |-> base, free |-> free_pages]

SetStore(S) ==
  /\ pages' = S.pages /\ redo' = S.redo /\ base' = S.base /\ free_pages' = S.free

\* The page is taken but stays in the free list.
AddPageKeepsFree(S) ==
  LET q == Min(S.free)
  IN [pages |-> [S.pages EXCEPT ![q].free = PageStart],
      base |-> [S.base EXCEPT ![q] = S.pages[q]],
      redo |-> [S.redo EXCEPT ![q] = <<[type |-> "UNDO_INIT"]>>],
      free |-> S.free]

\* trx_undo_add_page / trx_undo_create (trx0undo.cc, from the specification):
\* the undo segment takes a free page and trx_undo_page_init sets its
\* TRX_UNDO_PAGE_FREE and logs MLOG_UNDO_INIT; the old bytes stay.
trx_undo_add_page(S) ==
  LET q == Min(S.free)
  IN [pages |-> [S.pages EXCEPT ![q].free = PageStart],
      base |-> [S.base EXCEPT ![q] = S.pages[q]],
      redo |-> [S.redo EXCEPT ![q] = <<[type |-> "UNDO_INIT"]>>],
      free |-> S.free \ {q}]

-----------------------------------------------------------------------------
(***************************************************************************)
(* Writers.                                                                *)
(***************************************************************************)

Ops == {[kind |-> k, v |-> v] : k \in {"insert", "update"}, v \in CVal}
       \cup {[kind |-> "delete", v |-> SQL_NULL]}

\* The row operations the row's state allows (row0ins / row0upd).
Allowed(op) ==
  CASE op.kind = "insert" -> IF row = NONE THEN TRUE ELSE row.info = REC_INFO_DELETED_FLAG
    [] op.kind = "update" -> row # NONE /\ row.info = 0 /\ op.v # row.c
    [] OTHER -> row # NONE /\ row.info = 0

\* The row lock: the row's last change is by an active trx other than t.
LockedByOther(t) ==
  row # NONE /\ \E u \in Trx \ {t} : state[u] = "ACTIVE" /\ row.trx_id = trx_id[u]

\* The update vector (field positions) and cmpl_info the callers pass: an
\* insert over a delete-marked row changes the differing fields with
\* cmpl_info 0; an update changes c, with UPD_NODE_NO_ORD_CHANGE when no
\* index orders on c and UPD_NODE_NO_SIZE_CHANGE when its size stays.
UpdateOf(op) ==
  CASE op.kind = "delete" -> NONE
    [] op.kind = "insert" -> IF op.v # row.c THEN <<C_POS>> ELSE <<>>
    [] OTHER -> <<C_POS>>

CmplInfo(op) ==
  IF op.kind # "update" THEN 0
  ELSE (IF SecIndexOnC THEN 0 ELSE UPD_NODE_NO_ORD_CHANGE)
       + (IF FieldLen(op.v) = FieldLen(row.c) THEN UPD_NODE_NO_SIZE_CHANGE ELSE 0)

\* The undo record of op: an insert of a new row goes to the insert undo log.
RowOpPieces(t, op) ==
  IF row = NONE THEN trx_undo_page_report_insert(t)
  ELSE trx_undo_page_report_modify(t, row, UpdateOf(op), CmplInfo(op))

\* The row after op, DB_ROLL_PTR addressing the undo record at offset of p.
NewRow(t, op, p, offset) ==
  [key |-> <<KeyByte>>,
   c |-> IF op.kind = "delete" THEN row.c ELSE op.v,
   info |-> IF op.kind = "delete" THEN REC_INFO_DELETED_FLAG ELSE 0,
   trx_id |-> trx_id[t],
   roll_ptr |-> trx_undo_build_roll_ptr(row = NONE, RsegId, p, offset)]

SetLog(t, log) ==
  IF row = NONE THEN insert_undo' = [insert_undo EXCEPT ![t] = log] /\ UNCHANGED update_undo
  ELSE update_undo' = [update_undo EXCEPT ![t] = log] /\ UNCHANGED insert_undo

\* A record that did not fit: the page end is erased, and the log takes a
\* new page and the operation is retried on it, or the tablespace is full
\* and the operation fails with DB_OUT_OF_FILE_SPACE.
AddPageOrFail(t, op, E, log) ==
  /\ UNCHANGED <<row, hist, undo_no>>
  /\ IF E.free = {}
     THEN SetStore(E) /\ SetLog(t, log) /\ pending' = [pending EXCEPT ![t] = NONE]
     ELSE /\ SetStore(trx_undo_add_page(E))
          /\ SetLog(t, Append(log, Min(E.free)))
          /\ pending' = [pending EXCEPT ![t] = op]

ReportOutcome(t, op, S, log, r) ==
  /\ IF r.ok
     THEN /\ SetStore([S EXCEPT !.pages[Last(log)] = r.pg,
                                !.redo[Last(log)] = Append(@, r.log)])
          /\ SetLog(t, log)
          /\ row' = NewRow(t, op, Last(log), r.offset)
          /\ hist' = Append(hist, [id |-> trx_id[t],
                                   val |-> IF op.kind = "delete" THEN ABSENT ELSE op.v])
          /\ undo_no' = [undo_no EXCEPT ![t] = @ + 1]
          /\ pending' = [pending EXCEPT ![t] = NONE]
     ELSE AddPageOrFail(t, op,
            [S EXCEPT !.pages[Last(log)] = trx_undo_erase_page_end(r.pg),
                      !.redo[Last(log)] = Append(@, [type |-> "UNDO_ERASE_END"])],
            log)

\* One pass of the loop of trx_undo_report_row_operation on the log's last
\* page, with the row change it precedes (btr_cur_*_low writing DB_TRX_ID
\* and DB_ROLL_PTR while the row's page stays latched).
ReportRowOperation(t, op, S, log) ==
  ReportOutcome(t, op, S, log,
    trx_undo_page_set_next_prev_and_add(S.pages[Last(log)].free,
      WritePieces(S.pages[Last(log)], S.pages[Last(log)].free, RowOpPieces(t, op))))

\* No row operation is half done and no reader holds the row's page latch.
PageFree == (\A u \in Trx : pending[u] = NONE) /\ rd.st # "walk"

TrxStart(t) ==
  /\ state[t] = "NOT_STARTED"
  /\ state' = [state EXCEPT ![t] = "ACTIVE"]
  /\ trx_id' = [trx_id EXCEPT ![t] = max_trx_id]
  /\ max_trx_id' = max_trx_id + 1
  /\ UNCHANGED <<trx_no, undo_no, insert_undo, update_undo, pending, n_ops, row, pages,
                 free_pages, base, redo, history, hist, rd, n_views, purge_view>>

\* trx_undo_report_row_operation for an insert, update or delete marking:
\* the log is assigned a first page when it has none (trx_undo_assign_undo).
RowOp(t, op) ==
  /\ state[t] = "ACTIVE" /\ trx_no[t] = 0
  /\ PageFree
  /\ n_ops[t] < MaxOps
  /\ Allowed(op) /\ ~LockedByOther(t)
  /\ n_ops' = [n_ops EXCEPT ![t] = @ + 1]
  /\ UNCHANGED <<state, trx_id, trx_no, max_trx_id, history, rd, n_views, purge_view>>
  /\ LET log == IF row = NONE THEN insert_undo[t] ELSE update_undo[t]
     IN IF log # <<>> THEN ReportRowOperation(t, op, Store, log)
        ELSE IF free_pages = {}
        THEN UNCHANGED <<undo_no, insert_undo, update_undo, pending, row, pages,
                         free_pages, base, redo, hist>>
        ELSE ReportRowOperation(t, op, trx_undo_add_page(Store), <<Min(free_pages)>>)

\* The next pass of the loop, on the page just added.
RowOpRetry(t) ==
  /\ pending[t] # NONE
  /\ ReportRowOperation(t, pending[t], Store,
                        IF row = NONE THEN insert_undo[t] ELSE update_undo[t])
  /\ UNCHANGED <<state, trx_id, trx_no, max_trx_id, n_ops, history, rd, n_views, purge_view>>

\* trx_commit_off_kernel: only a trx with an update undo log gets a trx_no
\* (trx_sys_get_new_trx_no), and its update undo log is added to the
\* history list in trx_no order.
CommitAssignNo(t) ==
  /\ state[t] = "ACTIVE" /\ trx_no[t] = 0 /\ pending[t] = NONE
  /\ update_undo[t] # <<>>
  /\ trx_no' = [trx_no EXCEPT ![t] = max_trx_id]
  /\ max_trx_id' = max_trx_id + 1
  /\ history' = Append(history, t)
  /\ UNCHANGED <<state, trx_id, undo_no, insert_undo, update_undo, pending, n_ops, row,
                 pages, free_pages, base, redo, hist, rd, n_views, purge_view>>

\* The trx leaves the active list; its insert undo log is freed at once.
\* A trx without an update undo log commits without a trx_no.
CommitInMemory(t) ==
  /\ state[t] = "ACTIVE" /\ pending[t] = NONE
  /\ update_undo[t] # <<>> => trx_no[t] > 0
  /\ state' = [state EXCEPT ![t] = "COMMITTED"]
  /\ free_pages' = free_pages \cup Range(insert_undo[t])
  /\ insert_undo' = [insert_undo EXCEPT ![t] = <<>>]
  /\ UNCHANGED <<trx_id, trx_no, undo_no, update_undo, pending, n_ops, max_trx_id, row,
                 pages, base, redo, history, hist, rd, n_views, purge_view>>

-----------------------------------------------------------------------------
(***************************************************************************)
(* The reader: a consistent read of the row (row_search_for_mysql and      *)
(* row_vers_build_for_consistent_read).  The row's page stays latched over *)
(* the walk; each step takes the purge latch in S mode around              *)
(* trx_undo_prev_version_build, so purge moves between steps.              *)
(***************************************************************************)

ReadViewOpen ==
  /\ rd.st = "idle" /\ n_views < MaxViews
  /\ rd' = [rd EXCEPT !.st = "open", !.view = read_view_open_now]
  /\ n_views' = n_views + 1
  /\ UNCHANGED <<state, trx_id, trx_no, undo_no, insert_undo, update_undo, pending, n_ops,
                 max_trx_id, row, pages, free_pages, base, redo, history, hist,
                 purge_view>>

ReadStart ==
  /\ rd.st \in {"open", "done"}
  /\ \A u \in Trx : pending[u] = NONE
  /\ rd' = [rd EXCEPT !.st = "walk", !.vers = row, !.res = NONE]
  /\ UNCHANGED <<state, trx_id, trx_no, undo_no, insert_undo, update_undo, pending, n_ops,
                 max_trx_id, row, pages, free_pages, base, redo, history, hist,
                 n_views, purge_view>>

\* A version the view sees ends the walk: a delete-marked one is no row.
ReadVisible(vers) == [err |-> "DB_SUCCESS",
   val |-> IF vers.info = REC_INFO_DELETED_FLAG THEN ABSENT ELSE vers.c]

ReadPrev(r) ==
  IF r.err = "DB_SUCCESS" THEN rd' = [rd EXCEPT !.vers = r.vers]
  ELSE rd' = [rd EXCEPT !.st = "done", !.res = [err |-> r.err, val |-> NONE]]

ReadStep ==
  /\ rd.st = "walk"
  /\ IF rd.vers = NONE THEN rd' = [rd EXCEPT !.st = "done", !.res = [err |-> "DB_SUCCESS", val |-> ABSENT]]
     ELSE IF Sees(rd.view, rd.vers.trx_id)
     THEN rd' = [rd EXCEPT !.st = "done", !.res = ReadVisible(rd.vers)]
     ELSE ReadPrev(trx_undo_prev_version_build(rd.vers))
  /\ UNCHANGED <<state, trx_id, trx_no, undo_no, insert_undo, update_undo, pending, n_ops,
                 max_trx_id, row, pages, free_pages, base, redo, history, hist,
                 n_views, purge_view>>

ReadViewClose ==
  /\ rd.st \in {"open", "done"}
  /\ rd' = [st |-> "idle", view |-> NONE, vers |-> NONE, res |-> NONE]
  /\ UNCHANGED <<state, trx_id, trx_no, undo_no, insert_undo, update_undo, pending, n_ops,
                 max_trx_id, row, pages, free_pages, base, redo, history, hist,
                 n_views, purge_view>>

-----------------------------------------------------------------------------
(***************************************************************************)
(* Purge (trx0purge / row0purge, from the specification).                  *)
(***************************************************************************)

\* read_view_oldest_copy_or_open_new: the reader's view, or a new one.
PurgeViewUpdate ==
  /\ purge_view' = IF rd.view # NONE THEN rd.view ELSE read_view_open_now
  /\ purge_view' # purge_view
  /\ UNCHANGED <<state, trx_id, trx_no, undo_no, insert_undo, update_undo, pending, n_ops,
                 max_trx_id, row, pages, free_pages, base, redo, history, hist,
                 rd, n_views>>

\* The oldest update undo log of the history, when its trx_no is below the
\* view's low_limit_no: a delete-marked row it left is removed, and its
\* pages are freed.  Removing the row needs the row's page latch, which a
\* row operation and a reader's walk hold; freeing the undo log of the
\* history does not, so purge can free logs between two steps of a walk.
PurgeTrx ==
  LET h == Head(history)
      rowPurge == row # NONE /\ row.info = REC_INFO_DELETED_FLAG
                    /\ row.trx_id = trx_id[h]
  IN
  /\ history # <<>>
  /\ trx_no[h] < purge_view.low_no
  /\ rowPurge => PageFree
  /\ row' = IF rowPurge THEN NONE ELSE row
  /\ free_pages' = free_pages \cup Range(update_undo[h])
  /\ update_undo' = [update_undo EXCEPT ![h] = <<>>]
  /\ history' = Tail(history)
  /\ UNCHANGED <<state, trx_id, trx_no, undo_no, insert_undo, pending, n_ops, max_trx_id,
                 pages, base, redo, hist, rd, n_views, purge_view>>

-----------------------------------------------------------------------------

\* Fresh pages: zero bytes, TRX_UNDO_PAGE_FREE at the start.
FreshPage == [free |-> PageStart, bytes |-> [o \in DataArea |-> 0]]

\* A row an earlier trx inserted and committed, its insert undo log gone.
OldRow == [key |-> <<KeyByte>>, c |-> SQL_NULL, info |-> 0, trx_id |-> InitTrxId - 1,
           roll_ptr |-> trx_undo_build_roll_ptr(TRUE, RsegId, Min(PageNo), PageStart)]

\* Startup: no trx, the row absent or left by an earlier trx, the purge
\* view opened by trx_purge_sys_create.
Init ==
  /\ state = [t \in Trx |-> "NOT_STARTED"]
  /\ trx_id = [t \in Trx |-> 0]
  /\ trx_no = [t \in Trx |-> 0]
  /\ undo_no = [t \in Trx |-> 0]
  /\ insert_undo = [t \in Trx |-> <<>>]
  /\ update_undo = [t \in Trx |-> <<>>]
  /\ pending = [t \in Trx |-> NONE]
  /\ n_ops = [t \in Trx |-> 0]
  /\ max_trx_id = InitTrxId
  /\ row \in {NONE, OldRow}
  /\ pages = [p \in PageNo |-> FreshPage]
  /\ free_pages = PageNo
  /\ base = [p \in PageNo |-> FreshPage]
  /\ redo = [p \in PageNo |-> <<>>]
  /\ history = <<>>
  /\ hist = IF row = NONE THEN <<>> ELSE <<[id |-> InitTrxId - 1, val |-> SQL_NULL]>>
  /\ rd = [st |-> "idle", view |-> NONE, vers |-> NONE, res |-> NONE]
  /\ n_views = 0
  /\ purge_view = [low_id |-> InitTrxId, low_no |-> InitTrxId, ids |-> {}]

\* Every trx committed and the reader done with its views.
Terminated ==
  /\ \A t \in Trx : state[t] = "COMMITTED"
  /\ rd.st = "idle" /\ n_views = MaxViews
  /\ UNCHANGED vars

Next ==
  \/ \E t \in Trx :
       \/ TrxStart(t) \/ RowOpRetry(t) \/ CommitAssignNo(t) \/ CommitInMemory(t)
       \/ \E op \in Ops : RowOp(t, op)
  \/ ReadViewOpen \/ ReadStart \/ ReadStep \/ ReadViewClose
  \/ PurgeViewUpdate \/ PurgeTrx
  \/ Terminated

Spec == Init /\ [][Next]_vars

-----------------------------------------------------------------------------

TypeOK ==
  /\ state \in [Trx -> {"NOT_STARTED", "ACTIVE", "COMMITTED"}]
  /\ pending \in [Trx -> Ops \cup {NONE}]
  /\ free_pages \subseteq PageNo
  /\ \A p \in PageNo : pages[p].free \in PageStart..(UndoPageSize - FIL_PAGE_DATA_END)
                       /\ pages[p].bytes \in [DataArea -> 0..255]
  /\ rd.st \in {"idle", "open", "walk", "done"}

\* The value of the row in a read view: the last change by a trx the view
\* sees.
ExpectedRead(view) ==
  LET seen == {i \in DOMAIN hist : Sees(view, hist[i].id)}
  IN IF seen = {} THEN ABSENT ELSE hist[Max(seen)].val

\* A consistent read returns the row as the read view saw it: the walk down
\* DB_ROLL_PTR through the undo records (trx_undo_prev_version_build) never
\* meets DB_MISSING_HISTORY or a malformed record, whatever purge freed and
\* later logs reused meanwhile, and rebuilds the right version.
ConsistentRead ==
  rd.st = "done" => rd.res = [err |-> "DB_SUCCESS", val |-> ExpectedRead(rd.view)]

\* Replaying the redo records of an undo page (MLOG_UNDO_INIT,
\* MLOG_UNDO_INSERT parsed by trx_undo_parse_add_undo_rec,
\* MLOG_UNDO_ERASE_END) on its earlier image gives the page as written.
UndoPageReplay ==
  \A p \in PageNo : FoldLeft(ApplyUndoLogRec, base[p], redo[p]) = pages[p]


\* Every undo page is either free or held by exactly one undo log, once:
\* the pages trx_undo_add_page takes, commit frees (insert undo) and purge
\* frees (update undo) never end up in two logs, nor free while in one.
UndoPagesOwnedOnce ==
  /\ \A p \in PageNo :
       (IF p \in free_pages THEN 1 ELSE 0)
       + Cardinality({t \in Trx : p \in Range(insert_undo[t])})
       + Cardinality({t \in Trx : p \in Range(update_undo[t])}) = 1
  /\ \A t \in Trx : IsInjective(insert_undo[t]) /\ IsInjective(update_undo[t])

=============================================================================
