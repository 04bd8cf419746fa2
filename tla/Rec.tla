--------------------------------- MODULE Rec ---------------------------------
(***************************************************************************)
(* The physical record format of rem0rec.cc: how a data tuple is laid out  *)
(* as a record (rec_convert_dtuple_to_rec_new and _old), and how the field *)
(* offsets are read back from it (rec_init_offsets,                        *)
(* rec_get_offsets_reverse, rec_get_nth_field_offs_old,                    *)
(* rec_copy_prefix_to_buf, ...).  These are pure operators; the redo log   *)
(* (MtrLog) and its model-checking instance drive them with the records    *)
(* its inserts write and recovery rebuilds.                                *)
(*                                                                         *)
(* Data bytes are abstracted to their count: what is kept byte by byte is  *)
(* what the format encodes, the null bitmap and the field lengths.         *)
(*                                                                         *)
(* A field of an index (with its column) is                                *)
(*   [fixed_len, not_null, big]                                            *)
(* where big is "col->len > 255 || col->mtype == DATA_BLOB": such a        *)
(* variable-length field may need two length bytes.  An index is           *)
(*   [comp, clust, fields, n_uniq]   (comp: dict_table_is_comp).           *)
(* A data field is [null, len, ext]; a tuple is [status, fields].          *)
(*                                                                         *)
(* A compact record is [comp |-> TRUE, status, below, data]: below[d] is   *)
(* the byte at rec - (REC_N_NEW_EXTRA_BYTES + d), so below starts with the *)
(* null bitmap and continues with the length bytes, in the order the code  *)
(* walks them (nulls--, lens--); data is the number of data bytes.  An     *)
(* old-style record is [comp |-> FALSE, n_fields, one_byte, info, data]:   *)
(* info[i] is the end info of field i-1 (rec_1/2_get_field_end_info).      *)
(*                                                                         *)
(* Offsets (rec_get_offsets) are [extra, comp, any_ext, ends]: the extra   *)
(* size, and per field its end offset with the REC_OFFS_SQL_NULL and       *)
(* REC_OFFS_EXTERNAL flags as the record fields null and ext.              *)
(***************************************************************************)
EXTENDS Integers, Sequences, FiniteSets, Bitwise

REC_N_NEW_EXTRA_BYTES == 5
REC_N_OLD_EXTRA_BYTES == 6
REC_NODE_PTR_SIZE == 4
REC_1BYTE_OFFS_LIMIT == 127
REC_1BYTE_SQL_NULL_MASK == 128
REC_2BYTE_SQL_NULL_MASK == 32768
REC_2BYTE_EXTERN_MASK == 16384
REC_MAX_N_FIELDS == 1023
UNIV_PAGE_SIZE == 16384
\* UNIV_SQL_NULL is ULINT32_UNDEFINED, past the integers TLC handles; -1 is
\* equally a value no field length takes.
UNIV_SQL_NULL == -1

RecStatus == {"ORDINARY", "NODE_PTR", "INFIMUM", "SUPREMUM"}

UT_BITS_IN_BYTES(n) == (n + 7) \div 8

n_nullable(index) == Cardinality({i \in DOMAIN index.fields : ~index.fields[i].not_null})

dict_index_get_n_unique_in_tree(index) ==
  IF index.clust THEN index.n_uniq ELSE Len(index.fields)

\* Sum of a sequence of naturals.
RECURSIVE SeqSum(_)
SeqSum(s) == IF s = <<>> THEN 0 ELSE Head(s) + SeqSum(Tail(s))

-----------------------------------------------------------------------------
(***************************************************************************)
(* Sizes.                                                                  *)
(***************************************************************************)

\* The bytes that store the length of a non-NULL field (none if fixed).
LenBytes(d, f) ==
  CASE d.fixed_len > 0           -> 0
    [] f.ext                     -> 2
    [] f.len < 128 \/ ~d.big     -> 1
    [] OTHER                     -> 2

rec_get_converted_size_comp_prefix(index, fields, n) ==
  LET live == {i \in 1..n : ~fields[i].null}
      extra == REC_N_NEW_EXTRA_BYTES + UT_BITS_IN_BYTES(n_nullable(index))
               + SeqSum([i \in 1..n |-> IF i \in live
                                        THEN LenBytes(index.fields[i], fields[i])
                                        ELSE 0])
      data == SeqSum([i \in 1..n |-> IF i \in live THEN fields[i].len ELSE 0])
  IN [extra |-> extra, size |-> extra + data]

rec_get_converted_size_comp(index, status, fields) ==
  CASE status = "ORDINARY" ->
         rec_get_converted_size_comp_prefix(index, fields, Len(fields))
    [] status = "NODE_PTR" ->
         LET s == rec_get_converted_size_comp_prefix(index, fields, Len(fields) - 1)
         IN [s EXCEPT !.size = @ + REC_NODE_PTR_SIZE]
    [] OTHER ->
         [extra |-> REC_N_NEW_EXTRA_BYTES, size |-> REC_N_NEW_EXTRA_BYTES + 8]

-----------------------------------------------------------------------------
(***************************************************************************)
(* Writing a compact record.  The loop state: nb, the null bitmap bytes;   *)
(* nulls, the bitmap byte in use (1 is the byte at rec - (extra + 1));     *)
(* mask, null_mask as an unbounded integer whose low byte the code tests;  *)
(* lens, the length bytes written so far; end, the data bytes.             *)
(***************************************************************************)

\* The length bytes stored for a non-NULL field, in the order of lens--.
LenCode(d, f) ==
  CASE d.fixed_len > 0 -> <<>>
    [] f.ext -> << ((f.len \div 256) % 256) | 192, f.len % 256 >>
    [] f.len < 128 \/ ~d.big -> << f.len % 256 >>
    [] OTHER -> << ((f.len \div 256) % 256) | 128, f.len % 256 >>

\* Before the null flag of a nullable field: if the mask has left the low
\* byte, move to the next bitmap byte.
NextNullByte(s) ==
  IF s.mask % 256 = 0 THEN [s EXCEPT !.nulls = @ + 1, !.mask = 1] ELSE s

\* The code tests DATA_NOT_NULL in the prtype of the tuple's field
\* (rem0rec.cc:946); an entry built for the index (row_build_index_entry)
\* copies the index column's type, so the index field's flag is the same.
RECURSIVE ConvComp(_, _, _, _, _)
ConvComp(index, fields, np, i, s) ==
  IF i > Len(fields) THEN s
  ELSE IF i = np THEN [s EXCEPT !.end = @ + 4]
  ELSE
    LET f == fields[i]
        d == index.fields[i]
        w == IF d.not_null THEN s ELSE NextNullByte(s)
    IN IF ~d.not_null /\ f.null
       THEN ConvComp(index, fields, np, i + 1,
                     [w EXCEPT !.nb[w.nulls] = @ | w.mask, !.mask = @ * 2])
       ELSE LET m == IF d.not_null THEN w ELSE [w EXCEPT !.mask = @ * 2]
            IN ConvComp(index, fields, np, i + 1,
                        [m EXCEPT !.lens = @ \o LenCode(d, f), !.end = @ + f.len])

\* rec_convert_dtuple_to_rec_comp: the bytes below the header and the data
\* size of the record built from fields with the given status.
rec_convert_dtuple_to_rec_comp(index, status, fields) ==
  LET np == IF status = "NODE_PTR" THEN Len(fields) ELSE 0
      s == ConvComp(index, fields, np, 1,
                    [nb |-> [k \in 1..UT_BITS_IN_BYTES(n_nullable(index)) |-> 0],
                     nulls |-> 1, mask |-> 1, lens |-> <<>>, end |-> 0])
  IN [below |-> s.nb \o s.lens, data |-> s.end]

\* rec_convert_dtuple_to_rec_new: size the record, build it, set the status.
rec_convert_dtuple_to_rec_new(index, t) ==
  LET r == rec_convert_dtuple_to_rec_comp(index, t.status, t.fields)
  IN [comp |-> TRUE, status |-> t.status, below |-> r.below, data |-> r.data,
      extra |-> rec_get_converted_size_comp(index, t.status, t.fields).extra]

-----------------------------------------------------------------------------
(***************************************************************************)
(* Reading a compact record: the loop "read the lengths of fields 0..n"   *)
(* that rec_init_offsets_comp_ordinary, the node-pointer branch of         *)
(* rec_init_offsets, rec_get_offsets_reverse, rec_copy_prefix_to_buf and   *)
(* rec_get_n_extern_new each spell out.  b is the byte string in the order *)
(* the loop walks it (for rec_get_offsets_reverse, the extra bytes in      *)
(* address order, which is the same order); n the number of fields; np    *)
(* the node pointer field (0-based; -1 for none).  The state adds lens,    *)
(* the next length byte; offs; any_ext; ends; and fail, a failed           *)
(* ut_a(!(len & 0x4000)) where strict (node pointers) forbids the flag.   *)
(***************************************************************************)
RECURSIVE ReadComp(_, _, _, _, _)
ReadComp(index, b, n, np, s) ==
  IF Len(s.ends) >= n THEN s
  ELSE
    LET i == Len(s.ends)
        Put(x, e) == ReadComp(index, b, n, np,
                              [x EXCEPT !.ends = Append(@, e)])
    IN IF i = np
       THEN Put([s EXCEPT !.offs = @ + 4],
                [end |-> s.offs + 4, null |-> FALSE, ext |-> FALSE])
       ELSE
         LET d == index.fields[i + 1]
             w == IF d.not_null THEN s ELSE NextNullByte(s)
         IN IF ~d.not_null /\ (b[w.nulls] & w.mask) # 0
            THEN Put([w EXCEPT !.mask = @ * 2],
                     [end |-> w.offs, null |-> TRUE, ext |-> FALSE])
            ELSE
              LET m == IF d.not_null THEN w ELSE [w EXCEPT !.mask = @ * 2]
                  len1 == b[m.lens]
                  len2 == len1 * 256 + b[m.lens + 1]
                  ext == (len2 & 16384) # 0
              IN CASE d.fixed_len > 0 ->
                        Put([m EXCEPT !.offs = @ + d.fixed_len],
                            [end |-> m.offs + d.fixed_len, null |-> FALSE, ext |-> FALSE])
                   [] d.big /\ (len1 & 128) # 0 ->
                        Put([m EXCEPT !.offs = @ + (len2 & 16383), !.lens = @ + 2,
                                      !.any_ext = @ \/ ext,
                                      !.fail = @ \/ (ext /\ s.strict)],
                            [end |-> m.offs + (len2 & 16383), null |-> FALSE, ext |-> ext])
                   [] OTHER ->
                        Put([m EXCEPT !.offs = @ + len1, !.lens = @ + 1],
                            [end |-> m.offs + len1, null |-> FALSE, ext |-> FALSE])

\* The loop started on the byte string b: nulls at 1, lens past the bitmap.
ReadCompFrom(index, b, n, np, strict) ==
  ReadComp(index, b, n, np,
           [nulls |-> 1, mask |-> 1, lens |-> 1 + UT_BITS_IN_BYTES(n_nullable(index)),
            offs |-> 0, any_ext |-> FALSE, fail |-> FALSE, strict |-> strict,
            ends |-> <<>>])

\* The offsets of a compact record whose loop stopped with lens at s.lens:
\* the extra size is rec - (lens + 1).
CompOffsets(s, any_ext) ==
  [extra |-> REC_N_NEW_EXTRA_BYTES + s.lens - 1, comp |-> TRUE,
   any_ext |-> any_ext, ends |-> s.ends, fail |-> s.fail]

rec_init_offsets_comp_ordinary(b, index, n) ==
  LET s == ReadCompFrom(index, b, n, -1, FALSE) IN CompOffsets(s, s.any_ext)

\* End info of old-style field i (1-based) without its flag bits.
OldEnd(rec, i) == rec.info[i] & (IF rec.one_byte THEN 127 ELSE 16383)

rec_init_offsets(rec, index, n) ==
  IF rec.comp
  THEN CASE rec.status \in {"INFIMUM", "SUPREMUM"} ->
              [extra |-> REC_N_NEW_EXTRA_BYTES, comp |-> TRUE, any_ext |-> FALSE,
               ends |-> <<[end |-> 8, null |-> FALSE, ext |-> FALSE]>>, fail |-> FALSE]
         [] rec.status = "NODE_PTR" ->
              CompOffsets(ReadCompFrom(index, rec.below, n,
                                       dict_index_get_n_unique_in_tree(index), TRUE),
                          FALSE)
         [] OTHER -> rec_init_offsets_comp_ordinary(rec.below, index, n)
  ELSE LET nullm == IF rec.one_byte THEN REC_1BYTE_SQL_NULL_MASK ELSE REC_2BYTE_SQL_NULL_MASK
           ends == [i \in 1..n |->
                      [end |-> OldEnd(rec, i),
                       null |-> (rec.info[i] & nullm) # 0,
                       ext |-> ~rec.one_byte /\ (rec.info[i] & REC_2BYTE_EXTERN_MASK) # 0]]
       IN [extra |-> REC_N_OLD_EXTRA_BYTES + (IF rec.one_byte THEN n ELSE 2 * n),
           comp |-> FALSE, any_ext |-> \E i \in 1..n : ends[i].ext,
           ends |-> ends, fail |-> FALSE]

\* rec_get_offsets: the number of fields the record has, at most n_fields.
rec_get_offsets_func(rec, index, n_fields) ==
  LET n == IF ~rec.comp THEN rec.n_fields
           ELSE CASE rec.status = "ORDINARY" -> Len(index.fields)
                  [] rec.status = "NODE_PTR" -> dict_index_get_n_unique_in_tree(index) + 1
                  [] OTHER -> 1
  IN rec_init_offsets(rec, index, IF n_fields < n THEN n_fields ELSE n)

\* The extra bytes of a compact record in address order (as page_zip keeps
\* them) are read with nulls++ and lens++: the same walk as below.
rec_get_offsets_reverse(extra, index, node_ptr) ==
  LET nptr == dict_index_get_n_unique_in_tree(index)
      s == ReadCompFrom(index, extra,
                        IF node_ptr THEN nptr + 1 ELSE Len(index.fields),
                        IF node_ptr THEN nptr ELSE -1, FALSE)
  IN CompOffsets(s, s.any_ext)

rec_get_n_extern_new(rec, index, n) ==
  LET s == ReadCompFrom(index, rec.below, n, -1, FALSE)
  IN Cardinality({i \in 1..n : s.ends[i].ext})

\* rec_get_nth_field through offsets (rem0rec.ic): start and length of
\* field i (0-based), the length UNIV_SQL_NULL for a NULL field.
rec_get_nth_field(offs, i) ==
  LET start == IF i = 0 THEN 0 ELSE offs.ends[i].end
  IN [start |-> start,
      len |-> IF offs.ends[i + 1].null THEN UNIV_SQL_NULL
              ELSE offs.ends[i + 1].end - start]

-----------------------------------------------------------------------------
(***************************************************************************)
(* Old-style records.                                                      *)
(***************************************************************************)

\* dtype_get_sql_null_size: a NULL of a fixed-size type keeps its size.
dtype_get_sql_null_size(d) == d.fixed_len

\* rec_get_converted_extra_size (rem0rec.ic).
rec_get_converted_extra_size(data_size, n_fields, n_ext) ==
  IF n_ext = 0 /\ data_size <= REC_1BYTE_OFFS_LIMIT
  THEN REC_N_OLD_EXTRA_BYTES + n_fields
  ELSE REC_N_OLD_EXTRA_BYTES + 2 * n_fields

\* Mutant: the 1-byte format is chosen by the data size alone.
RecConvertOldIgnoreExt(index, t, n_ext) ==
  LET n == Len(t.fields)
      size == [i \in 1..n |-> IF t.fields[i].null
                              THEN dtype_get_sql_null_size(index.fields[i])
                              ELSE t.fields[i].len]
      data_size == SeqSum(size)
      one == data_size <= REC_1BYTE_OFFS_LIMIT
      end(i) == SeqSum(SubSeq(size, 1, i))
      info(i) ==
        CASE t.fields[i].null /\ one  -> end(i) | REC_1BYTE_SQL_NULL_MASK
          [] t.fields[i].null        -> end(i) | REC_2BYTE_SQL_NULL_MASK
          [] t.fields[i].ext /\ ~one -> end(i) | REC_2BYTE_EXTERN_MASK
          [] OTHER                   -> end(i)
  IN [comp |-> FALSE, status |-> "ORDINARY", n_fields |-> n, one_byte |-> one,
      info |-> [i \in 1..n |-> info(i)], data |-> data_size,
      extra |-> rec_get_converted_extra_size(data_size, n, n_ext)]

rec_convert_dtuple_to_rec_old(index, t, n_ext) ==
  LET n == Len(t.fields)
      size == [i \in 1..n |-> IF t.fields[i].null
                              THEN dtype_get_sql_null_size(index.fields[i])
                              ELSE t.fields[i].len]
      data_size == SeqSum(size)
      one == n_ext = 0 /\ data_size <= REC_1BYTE_OFFS_LIMIT
      end(i) == SeqSum(SubSeq(size, 1, i))
      info(i) ==
        CASE t.fields[i].null /\ one  -> end(i) | REC_1BYTE_SQL_NULL_MASK
          [] t.fields[i].null        -> end(i) | REC_2BYTE_SQL_NULL_MASK
          [] t.fields[i].ext /\ ~one -> end(i) | REC_2BYTE_EXTERN_MASK
          [] OTHER                   -> end(i)
  IN [comp |-> FALSE, status |-> "ORDINARY", n_fields |-> n, one_byte |-> one,
      info |-> [i \in 1..n |-> info(i)], data |-> data_size,
      extra |-> rec_get_converted_extra_size(data_size, n, n_ext)]

\* rec_get_field_start_offs (rem0rec.ic): the end of the field before.
rec_get_field_start_offs(rec, n) == IF n = 0 THEN 0 ELSE OldEnd(rec, n)

\* rec_get_nth_field_size (rem0rec.ic).
rec_get_nth_field_size(rec, n) ==
  rec_get_field_start_offs(rec, n + 1) - rec_get_field_start_offs(rec, n)

rec_get_nth_field_offs_old(rec, n) ==
  LET os == rec_get_field_start_offs(rec, n)
      nullm == IF rec.one_byte THEN REC_1BYTE_SQL_NULL_MASK ELSE REC_2BYTE_SQL_NULL_MASK
  IN [start |-> os,
      len |-> IF (rec.info[n + 1] & nullm) # 0 THEN UNIV_SQL_NULL
              ELSE OldEnd(rec, n + 1) - os]

rec_set_nth_field_null_bit(rec, i, val) ==
  LET m == IF rec.one_byte THEN REC_1BYTE_SQL_NULL_MASK ELSE REC_2BYTE_SQL_NULL_MASK
      v == rec.info[i + 1]
  IN [rec EXCEPT !.info[i + 1] = IF val THEN v | m ELSE v - (v & m)]

\* rec_set_nth_field_sql_null: the field keeps its size (the data bytes
\* get the SQL NULL filler) and is flagged NULL.
rec_set_nth_field_sql_null(rec, n) == rec_set_nth_field_null_bit(rec, n, TRUE)

FieldLenOk(len) == len < UNIV_PAGE_SIZE \/ len = UNIV_SQL_NULL

rec_validate_old(rec) ==
  LET n == rec.n_fields
      f(i) == rec_get_nth_field_offs_old(rec, i).len
  IN /\ n \in 1..REC_MAX_N_FIELDS
     /\ \A i \in 0..(n - 1) : FieldLenOk(f(i))
     /\ SeqSum([i \in 1..n |-> IF f(i - 1) # UNIV_SQL_NULL THEN f(i - 1)
                               ELSE rec_get_nth_field_size(rec, i - 1)])
        = rec_get_field_start_offs(rec, n)

rec_validate(rec, offs) ==
  LET n == Len(offs.ends)
      f(i) == rec_get_nth_field(offs, i).len
  IN /\ n \in 1..REC_MAX_N_FIELDS
     /\ \A i \in 0..(n - 1) : FieldLenOk(f(i))
     /\ SeqSum([i \in 1..n |-> CASE f(i - 1) # UNIV_SQL_NULL -> f(i - 1)
                                 [] ~offs.comp -> rec_get_nth_field_size(rec, i - 1)
                                 [] OTHER -> 0])
        = offs.ends[n].end
     /\ ~offs.comp => rec_validate_old(rec)

-----------------------------------------------------------------------------
(***************************************************************************)
(* Copying a prefix of a record (the stored position of a persistent       *)
(* cursor, the node pointer of a parent page).                             *)
(***************************************************************************)

rec_copy_prefix_to_buf_old(rec, n_fields, area_end) ==
  [rec EXCEPT !.n_fields = n_fields, !.info = SubSeq(@, 1, n_fields),
              !.data = area_end,
              !.extra = REC_N_OLD_EXTRA_BYTES
                        + (IF rec.one_byte THEN n_fields ELSE 2 * n_fields)]

\* The copied prefix.  Infimum and supremum records (ut_error) are never
\* copied.
rec_copy_prefix_to_buf(rec, index, n_fields) ==
  IF ~rec.comp
  THEN rec_copy_prefix_to_buf_old(rec, n_fields,
                                  rec_get_field_start_offs(rec, n_fields))
  ELSE LET s == ReadCompFrom(index, rec.below, n_fields, -1, FALSE)
       IN [comp |-> TRUE, status |-> rec.status,
           below |-> SubSeq(rec.below, 1, s.lens - 1), data |-> s.offs,
           extra |-> REC_N_NEW_EXTRA_BYTES + s.lens - 1]

rec_copy_prefix_to_dtuple(rec, index, n_fields) ==
  LET offs == rec_get_offsets_func(rec, index, n_fields)
      len(i) == rec_get_nth_field(offs, i).len
  IN [i \in 1..n_fields |->
        [null |-> len(i - 1) = UNIV_SQL_NULL, len |-> len(i - 1), ext |-> FALSE]]

-----------------------------------------------------------------------------
(***************************************************************************)
(* What the format must preserve, stated from the tuple alone: field i     *)
(* ends where the data of fields 1..i ends (a compact NULL takes no bytes, *)
(* an old-style NULL its SQL NULL size; the node pointer takes 4), and is  *)
(* flagged NULL or external as the tuple says.                             *)
(***************************************************************************)

\* Data bytes of field i of t in index's format.
DataBytes(index, t, i) ==
  CASE t.status = "NODE_PTR" /\ i = Len(t.fields) -> REC_NODE_PTR_SIZE
    [] ~t.fields[i].null -> t.fields[i].len
    [] index.comp -> 0
    [] OTHER -> dtype_get_sql_null_size(index.fields[i])

Layout(index, t) ==
  [i \in 1..Len(t.fields) |->
     [end |-> SeqSum([j \in 1..i |-> DataBytes(index, t, j)]),
      null |-> t.fields[i].null,
      ext |-> t.fields[i].ext /\ ~(index.comp /\ t.status = "NODE_PTR")]]

\* The number of externally stored fields of t.
NExt(t) == Cardinality({i \in DOMAIN t.fields : t.fields[i].ext})

\* rec_convert_dtuple_to_rec (the dispatch on the table format).
rec_convert_dtuple_to_rec(index, t) ==
  IF index.comp THEN rec_convert_dtuple_to_rec_new(index, t)
  ELSE rec_convert_dtuple_to_rec_old(index, t, NExt(t))

====
