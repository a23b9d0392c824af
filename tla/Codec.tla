------------------------------- MODULE Codec -------------------------------
(***************************************************************************)
(* What the engine writes and reads back: varints and slices (coding.h,    *)
(* slice.c, buffer.c), internal keys (dbformat.c), write batches           *)
(* (write_batch.c), version edits (version_edit.c), footers and blocks     *)
(* (table/format.c), compressed blocks (snappy.c) and base64 text          *)
(* (stl_base64.c).  Encodings are sequences of bytes.  A reader returns    *)
(* whether it succeeded, what it read and the bytes it left.               *)
(***************************************************************************)
EXTENDS Integers, Sequences, FiniteSets, TLC

CONSTANTS CodNumbers,    \* file numbers, sizes and sequences, below 2^23
          CodSlices,     \* user keys, values and names, as sequences of bytes
          CodChunks,     \* pieces that inputs of snappy and base64 are made of
          CodMaxFields,  \* bound: fields of an edit, operations of a batch
          CodMaxChunks   \* bound: chunks of an input

VARIABLES cod_mode,      \* what is being encoded
          cod_edit,      \* an ldb_edit_t
          cod_batch,     \* two write batches, rep
          cod_ops,       \* ghost: the operations each batch was given
          cod_text       \* an input of snappy and base64

codVars == <<cod_mode, cod_edit, cod_batch, cod_ops, cod_text>>

Cut(s, n) == SubSeq(s, n + 1, Len(s))
FailedRead == [ok |-> FALSE, val |-> 0, rest |-> <<>>]
GoodRead(val, rest) == [ok |-> TRUE, val |-> val, rest |-> rest]

\* A reader applied to what the reader before it left.
ReadThen(r, Next(_, _)) == IF r.ok THEN Next(r.val, r.rest) ELSE FailedRead

----------------------------------------------------------------------------
(* Numbers and slices.                                                     *)

\* ldb_fixed32_write (n = 4), ldb_fixed64_write (n = 8): the low byte first.
FixedWrite(x, n) == [i \in 1..n |-> IF i <= 4 THEN (x \div 256^(i - 1)) % 256 ELSE 0]

\* ldb_fixed32_decode, ldb_fixed64_decode
FixedDecode(s, n) ==
  s[1] + 256 * s[2] + 65536 * s[3] + (IF s[4] < 128 THEN 16777216 * s[4] ELSE 0)

\* ldb_fixed32_read, ldb_fixed64_read
FixedRead(s, n) == IF Len(s) < n THEN FailedRead ELSE GoodRead(FixedDecode(s, n), Cut(s, n))

\* ldb_varint64_write
VarintWrite[x \in Nat] == IF x < 128 THEN <<x>> ELSE <<(x % 128) + 128>> \o VarintWrite[x \div 128]

\* ldb_varint32_write, by cases on the size.
Varint32Write(x) ==
  LET size == IF x < 128 THEN 1 ELSE IF x < 16384 THEN 2 ELSE IF x < 2097152 THEN 3
              ELSE IF x < 268435456 THEN 4 ELSE 5
  IN [i \in 1..size |-> ((x \div 128^(i - 1)) % 128) + (IF i < size THEN 128 ELSE 0)]

\* ldb_varint32_read (limit = 5 bytes), ldb_varint64_read (limit = 10 bytes).
VarintRead(s, limit) ==
  LET ends == {i \in 1..Len(s) : s[i] < 128}
      n    == CHOOSE i \in ends : \A j \in ends : i <= j
      sum[i \in 0..Len(s)] == IF i = 0 THEN 0 ELSE sum[i - 1] + (s[i] % 128) * 128^(i - 1)
  IN IF ends = {} \/ n > limit THEN FailedRead ELSE GoodRead(sum[n], Cut(s, n))

\* ldb_varint64_read
Varint64Read(s) == VarintRead(s, 10)

\* ldb_slice_write, ldb_slice_export
SliceExport(x) == Varint32Write(Len(x)) \o x

\* ldb_buffer_write, ldb_buffer_export
BufferExport(x) == SliceExport(x)

\* ldb_zraw_read
RawRead(s, n) == IF Len(s) < n THEN FailedRead ELSE GoodRead(SubSeq(s, 1, n), Cut(s, n))

\* ldb_slice_read, ldb_slice_slurp
SliceRead(s) == ReadThen(VarintRead(s, 5), LAMBDA n, rest : RawRead(rest, n))

\* ldb_buffer_read, ldb_buffer_slurp
BufferRead(s) == SliceRead(s)

\* ldb_pkey_write, ldb_pkey_export
PkeyExport(user, seq, type) == user \o FixedWrite(256 * seq + type, 8)

\* ldb_pkey_import
PkeyImport(s) ==
  IF Len(s) < 8 THEN FailedRead
  ELSE LET num == FixedDecode(Cut(s, Len(s) - 8), 8)
       IN IF num % 256 > 1 THEN FailedRead
          ELSE GoodRead([user |-> SubSeq(s, 1, Len(s) - 8), seq |-> num \div 256,
                         type |-> num % 256], <<>>)

\* ldb_lkey_init: a memtable key; the rest of it is the internal key.
LkeyInit(user, seq) == Varint32Write(Len(user) + 8) \o PkeyExport(user, seq, 1)

----------------------------------------------------------------------------
(* Write batches.                                                          *)

\* ldb_batch_reset: LDB_HEADER zero bytes.
BatchReset == [i \in 1..12 |-> 0]

\* ldb_batch_count, ldb_batch_set_count
BatchCount(rep) == FixedDecode(SubSeq(rep, 9, 12), 4)
BatchSetCount(rep, n) == SubSeq(rep, 1, 8) \o FixedWrite(n, 4) \o Cut(rep, 12)

\* ldb_batch_sequence, ldb_batch_set_sequence
BatchSequence(rep) == FixedDecode(SubSeq(rep, 1, 8), 8)
BatchSetSequence(rep, seq) == FixedWrite(seq, 8) \o Cut(rep, 8)

\* ldb_batch_put
BatchPut(rep, key, value) ==
  BatchSetCount(rep, BatchCount(rep) + 1) \o <<1>> \o SliceExport(key) \o SliceExport(value)

\* ldb_batch_del
BatchDel(rep, key) == BatchSetCount(rep, BatchCount(rep) + 1) \o <<0>> \o SliceExport(key)

\* The count of the batch appended is forgotten.
BatchAppendMutant(dst, src) == BatchSetCount(dst, BatchCount(dst)) \o Cut(src, 12)

\* ldb_batch_append
BatchAppend(dst, src) == BatchSetCount(dst, BatchCount(dst) + BatchCount(src)) \o Cut(src, 12)

\* The loop of ldb_batch_iterate: what the handler was given, and whether all of it parsed.
\* memtable_put and memtable_del give each operation the next sequence.
RECURSIVE BatchScan(_, _, _)
BatchScan(s, seq, ops) ==
  LET more(op, rest) == BatchScan(rest, seq + 1, Append(ops, [op EXCEPT !.seq = seq]))
      bad   == [ok |-> FALSE, ops |-> ops]
      key   == SliceRead(Tail(s))
      value == SliceRead(key.rest)
  IN IF s = <<>> THEN [ok |-> TRUE, ops |-> ops]
     ELSE CASE s[1] = 1 -> IF key.ok /\ value.ok
                           THEN more([type |-> 1, key |-> key.val, value |-> value.val, seq |-> 0],
                                     value.rest)
                           ELSE bad
            [] s[1] = 0 -> IF key.ok
                           THEN more([type |-> 0, key |-> key.val, value |-> <<>>, seq |-> 0],
                                     key.rest)
                           ELSE bad
            [] OTHER    -> bad

\* ldb_batch_iterate, ldb_batch_insert_into: the handler runs before an error is known.
BatchIterate(rep) ==
  IF Len(rep) < 12 THEN [ok |-> FALSE, ops |-> <<>>]
  ELSE LET r == BatchScan(Cut(rep, 12), BatchSequence(rep), <<>>)
       IN [r EXCEPT !.ok = @ /\ Len(r.ops) = BatchCount(rep)]

----------------------------------------------------------------------------
(* Version edits.                                                          *)

\* ldb_edit_init, ldb_edit_reset; an absent field is the empty sequence.
EditInit ==
  [comparator |-> <<>>, log |-> <<>>, prev |-> <<>>, next |-> <<>>, last |-> <<>>,
   pointers |-> <<>>, deleted |-> {}, files |-> <<>>]

\* ldb_edit_set_comparator_name, ldb_edit_set_log_number, ldb_edit_set_prev_log_number,
\* ldb_edit_set_next_file, ldb_edit_set_last_sequence
EditSet(e, field, x) == [e EXCEPT ![field] = <<x>>]

\* ldb_edit_set_compact_pointer, ldb_edit_add_file: pushed on a vector.
EditSetCompactPointer(e, level, key) ==
  [e EXCEPT !.pointers = Append(@, [level |-> level, key |-> key])]
EditAddFile(e, f) == [e EXCEPT !.files = Append(@, f)]

\* ldb_edit_remove_file: the set keeps one entry per file.
EditRemoveFile(e, level, number) == [e EXCEPT !.deleted = @ \cup {<<level, number>>}]

\* file_entry_compare: the order in which the deleted files are written.
FileEntryBefore(x, y) == x[1] < y[1] \/ (x[1] = y[1] /\ x[2] < y[2])

RECURSIVE SortedEntries(_)
SortedEntries(S) ==
  IF S = {} THEN <<>>
  ELSE LET x == CHOOSE y \in S : \A z \in S \ {y} : FileEntryBefore(y, z)
       IN <<x>> \o SortedEntries(S \ {x})

Concat(f, n) == LET cat[i \in 0..n] == IF i = 0 THEN <<>> ELSE cat[i - 1] \o f[i] IN cat[n]

FieldExport(tag, field) == IF field = <<>> THEN <<>> ELSE <<tag>> \o VarintWrite[field[1]]

\* ldb_edit_export
EditExport(e) ==
  LET deleted == SortedEntries(e.deleted)
      n       == Len(e.pointers)
      m       == Len(e.files)
  IN (IF e.comparator = <<>> THEN <<>> ELSE <<1>> \o BufferExport(e.comparator[1]))
     \o FieldExport(2, e.log) \o FieldExport(9, e.prev) \o FieldExport(3, e.next)
     \o FieldExport(4, e.last)
     \o Concat([i \in 1..n |-> <<5>> \o Varint32Write(e.pointers[i].level)
                                     \o SliceExport(e.pointers[i].key)], n)
     \o Concat([i \in 1..Len(deleted) |-> <<6>> \o Varint32Write(deleted[i][1])
                                               \o VarintWrite[deleted[i][2]]], Len(deleted))
     \o Concat([i \in 1..m |->
                  LET f == e.files[i]
                  IN <<7>> \o Varint32Write(f.level) \o VarintWrite[f.number]
                     \o VarintWrite[f.size] \o SliceExport(f.smallest)
                     \o SliceExport(f.largest)], m)

\* ldb_level_slurp: no level above LDB_NUM_LEVELS.
LevelRead(s) ==
  ReadThen(VarintRead(s, 5), LAMBDA n, rest : IF n >= 7 THEN FailedRead ELSE GoodRead(n, rest))

\* An internal key of at least eight bytes.
KeyRead(s) ==
  ReadThen(SliceRead(s), LAMBDA k, rest : IF Len(k) < 8 THEN FailedRead ELSE GoodRead(k, rest))

\* TAG_NEW_FILE
FileRead(s) ==
  ReadThen(LevelRead(s), LAMBDA level, s1 :
  ReadThen(Varint64Read(s1), LAMBDA number, s2 :
  ReadThen(Varint64Read(s2), LAMBDA size, s3 :
  ReadThen(KeyRead(s3), LAMBDA smallest, s4 :
  ReadThen(KeyRead(s4), LAMBDA largest, s5 :
    GoodRead([level |-> level, number |-> number, size |-> size, smallest |-> smallest,
              largest |-> largest], s5))))))

\* One turn of ldb_edit_import's loop after the tag: the edit so far with the field in it.
FieldRead(e, tag, s) ==
  LET number(field) ==
        ReadThen(Varint64Read(s), LAMBDA x, rest : GoodRead(EditSet(e, field, x), rest))
  IN CASE tag = 1 -> ReadThen(BufferRead(s), LAMBDA x, rest :
                       GoodRead(EditSet(e, "comparator", x), rest))
       [] tag = 2 -> number("log")
       [] tag = 9 -> number("prev")
       [] tag = 3 -> number("next")
       [] tag = 4 -> number("last")
       [] tag = 5 -> ReadThen(LevelRead(s), LAMBDA level, s1 :
                     ReadThen(KeyRead(s1), LAMBDA key, rest :
                       GoodRead(EditSetCompactPointer(e, level, key), rest)))
       [] tag = 6 -> ReadThen(LevelRead(s), LAMBDA level, s1 :
                     ReadThen(Varint64Read(s1), LAMBDA x, rest :
                       GoodRead(EditRemoveFile(e, level, x), rest)))
       [] tag = 7 -> ReadThen(FileRead(s), LAMBDA f, rest : GoodRead(EditAddFile(e, f), rest))
       [] OTHER   -> FailedRead

\* ldb_edit_import
RECURSIVE EditScan(_, _)
EditScan(e, s) ==
  IF s = <<>> THEN GoodRead(e, s)
  ELSE ReadThen(VarintRead(s, 5), LAMBDA tag, rest :
       ReadThen(FieldRead(e, tag, rest), LAMBDA f, left : EditScan(f, left)))

EditImport(s) == EditScan(EditInit, s)

----------------------------------------------------------------------------
(* Snappy.  The hash table only proposes candidates: slots is any function *)
(* from four bytes to slots, and encode_block compares what it finds.      *)

\* emit_literal
EmitLiteral(x) ==
  LET n == Len(x) - 1
  IN (IF n < 60 THEN <<4 * n>> ELSE IF n < 256 THEN <<240, n>> ELSE <<244, n % 256, n \div 256>>)
     \o x

Copy2(off, len) == <<4 * (len - 1) + 2, off % 256, off \div 256>>

\* emit_copy
RECURSIVE EmitCopy(_, _)
EmitCopy(off, len) ==
  IF len >= 68 THEN Copy2(off, 64) \o EmitCopy(off, len - 64)
  ELSE IF len > 64 THEN Copy2(off, 60) \o EmitCopy(off, len - 60)
  ELSE IF len >= 12 \/ off >= 2048 THEN Copy2(off, len)
  ELSE <<32 * (off \div 256) + 4 * (len - 4) + 1, off % 256>>

Load32(x, pos) == SubSeq(x, pos + 1, pos + 4)
TableAt(table, slot) == IF slot \in DOMAIN table THEN table[slot] ELSE 0
Hash32(quad) == (quad[1] + 3 * quad[2] + 5 * quad[3] + 7 * quad[4]) % 4

\* How far the match at cand goes on from pos: the inner while of encode_block.
MatchEnd(x, cand, pos) ==
  CHOOSE p \in pos + 4..Len(x) :
    /\ \A i \in pos + 4..p - 1 : x[i + 1] = x[cand + (i - pos) + 1]
    /\ p = Len(x) \/ x[p + 1] # x[cand + (p - pos) + 1]

\* The search for a match: skip grows, so that text without one is passed quickly.
RECURSIVE FindMatch(_, _, _, _, _)
FindMatch(x, table, next, npos, skip) ==
  LET pos  == npos
      to   == pos + skip \div 32
      cand == TableAt(table, next)
      t    == (next :> pos) @@ table
      n    == Hash32(Load32(x, to))
  IN IF to > Len(x) - 15 THEN [found |-> FALSE, pos |-> pos, cand |-> 0, table |-> table]
     ELSE IF Load32(x, pos) = Load32(x, cand)
          THEN [found |-> TRUE, pos |-> pos, cand |-> cand, table |-> t]
          ELSE FindMatch(x, t, n, to, skip + skip \div 32)

\* Copies while the text goes on matching.  The comparison at the end is one of 64 bits
\* with 32: it also asks that the three bytes after the four be zero.
RECURSIVE CopyRun(_, _, _, _, _)
CopyRun(x, table, pos, cand, out) ==
  LET end  == MatchEnd(x, cand, pos)
      z    == out \o EmitCopy(pos - cand, end - pos)
      t1   == (Hash32(Load32(x, end - 1)) :> end - 1) @@ table
      cur  == Hash32(Load32(x, end))
      c    == TableAt(t1, cur)
      t2   == (cur :> end) @@ t1
      same == Load32(x, end) = Load32(x, c) /\ \A i \in 5..7 : x[end + i] = 0
  IN IF end >= Len(x) - 15 THEN [done |-> TRUE, emit |-> end, out |-> z, table |-> table, pos |-> end]
     ELSE IF same THEN CopyRun(x, t2, end, c, z)
     ELSE [done |-> FALSE, emit |-> end, out |-> z, table |-> t2, pos |-> end + 1]

\* encode_block, from the head of its outer loop.
RECURSIVE EncodeFrom(_, _, _, _, _)
EncodeFrom(x, table, pos, emit, out) ==
  LET f == FindMatch(x, table, Hash32(Load32(x, pos)), pos, 32)
      r == CopyRun(x, f.table, f.pos, f.cand, out \o EmitLiteral(SubSeq(x, emit + 1, f.pos)))
      tail(z, from) == IF from < Len(x) THEN z \o EmitLiteral(Cut(x, from)) ELSE z
  IN IF ~f.found THEN tail(out, emit)
     ELSE IF r.done THEN tail(r.out, r.emit)
     ELSE EncodeFrom(x, r.table, r.pos, r.emit, r.out)

EncodeBlock(x) == EncodeFrom(x, <<>>, 1, 0, <<>>)

\* snappy_encode; inputs are shorter than MAX_BLOCK_SIZE.
SnappyEncode(x) ==
  Varint32Write(Len(x))
  \o (IF Len(x) = 0 THEN <<>> ELSE IF Len(x) >= 17 THEN EncodeBlock(x) ELSE EmitLiteral(x))

\* snappy_encode_size: the room a caller makes for the output.
SnappyEncodeSize(n) == 32 + n + n \div 6

\* One element of decode_blocks: a literal, or the offset and length of a copy.
Element(s) ==
  LET tag == s[1] % 4
      x   == s[1] \div 4
      extra == IF x < 60 THEN 0 ELSE x - 59
  IN CASE tag = 0 ->
            LET n == IF x < 60 THEN x
                     ELSE IF Len(s) < 1 + extra \/ (extra > 3 /\ s[5] > 127) THEN -1
                     ELSE s[2] + (IF extra > 1 THEN 256 * s[3] ELSE 0)
                               + (IF extra > 2 THEN 65536 * s[4] ELSE 0)
                               + (IF extra > 3 THEN 16777216 * s[5] ELSE 0)
            IN IF n < 0 \/ n = 2147483647 THEN FailedRead
               ELSE ReadThen(RawRead(Cut(s, 1 + extra), n + 1), LAMBDA v, rest :
                             GoodRead([lit |-> v, off |-> 0, len |-> 0], rest))
       [] tag = 1 -> IF Len(s) < 2 THEN FailedRead
                     ELSE GoodRead([lit |-> <<>>, off |-> 256 * (s[1] \div 32) + s[2],
                                    len |-> 4 + (x % 8)], Cut(s, 2))
       [] tag = 2 -> IF Len(s) < 3 THEN FailedRead
                     ELSE GoodRead([lit |-> <<>>, off |-> s[2] + 256 * s[3], len |-> 1 + x],
                                   Cut(s, 3))
       [] tag = 3 -> IF Len(s) < 5 \/ s[5] >= 128 THEN FailedRead
                     ELSE GoodRead([lit |-> <<>>, len |-> 1 + x,
                                    off |-> s[2] + 256 * s[3] + 65536 * s[4] + 16777216 * s[5]],
                                   Cut(s, 5))

\* A copy whose offset is smaller than its length repeats what it writes.
CopyBack(z, off, len) == [i \in 1..len |-> z[Len(z) - off + 1 + ((i - 1) % off)]]

\* decode_blocks: zn is the room that is left; it must be used up.
RECURSIVE DecodeBlocks(_, _, _)
DecodeBlocks(z, zn, s) ==
  IF s = <<>> THEN (IF zn = 0 THEN GoodRead(z, s) ELSE FailedRead)
  ELSE ReadThen(Element(s), LAMBDA e, rest :
         LET n == Len(e.lit) + e.len
         IN IF n > zn THEN FailedRead
            ELSE IF e.lit # <<>> THEN DecodeBlocks(z \o e.lit, zn - n, rest)
            ELSE IF e.off = 0 \/ Len(z) < e.off THEN FailedRead
            ELSE DecodeBlocks(z \o CopyBack(z, e.off, e.len), zn - n, rest))

\* snappy_decode_size, snappy_decode
SnappyDecode(s) == ReadThen(VarintRead(s, 5), LAMBDA zn, rest : DecodeBlocks(<<>>, zn, rest))

----------------------------------------------------------------------------
(* Blocks and footers of a table.                                          *)

\* ldb_crc32c_value over a block and its type byte: a checksum no other bytes have.
Checksum(data) == <<"crc", data>>

\* What ldb_read_block finds at a handle: the bytes and the trailer, as the builder wrote them.
BlockAt(raw, compressed) ==
  LET data == IF compressed THEN SnappyEncode(raw) ELSE raw
      type == IF compressed THEN 1 ELSE 0
  IN [data |-> data, type |-> type, crc |-> Checksum(Append(data, type))]

\* ldb_read_block
ReadTableBlock(b, size, verify) ==
  IF Len(b.data) < size THEN FailedRead
  ELSE IF verify /\ b.crc # Checksum(Append(b.data, b.type)) THEN FailedRead
  ELSE CASE b.type = 0 -> GoodRead(b.data, <<>>)
         [] b.type = 1 -> SnappyDecode(b.data)
         [] OTHER      -> FailedRead

\* ldb_handle_write, ldb_handle_read
HandleWrite(h) == VarintWrite[h[1]] \o VarintWrite[h[2]]
HandleRead(s) ==
  ReadThen(Varint64Read(s), LAMBDA off, s1 :
  ReadThen(Varint64Read(s1), LAMBDA size, rest : GoodRead(<<off, size>>, rest)))

TableMagic == <<87, 251, 128, 139, 36, 117, 71, 219>>

\* ldb_footer_write: two handles, padded to their largest size, and the magic number.
FooterWrite(meta, index) ==
  LET s == HandleWrite(meta) \o HandleWrite(index)
  IN s \o [i \in 1..40 - Len(s) |-> 0] \o TableMagic

\* ldb_footer_read
FooterRead(s) ==
  IF Len(s) < 48 \/ SubSeq(s, 41, 48) # TableMagic THEN FailedRead
  ELSE ReadThen(HandleRead(s), LAMBDA meta, s1 :
       ReadThen(HandleRead(s1), LAMBDA index, rest : GoodRead(<<meta, index>>, Cut(s, 48))))

----------------------------------------------------------------------------
(* Base64: 64 is the padding character, 65 one that is no symbol at all.   *)

\* stl_base64_encode: three bytes to four characters.
RECURSIVE Base64Encode(_)
Base64Encode(s) ==
  LET at(i) == IF i <= Len(s) THEN s[i] ELSE 0
      buf == 65536 * at(1) + 256 * at(2) + at(3)
      quad == <<buf \div 262144, (buf \div 4096) % 64,
                IF Len(s) = 1 THEN 64 ELSE (buf \div 64) % 64,
                IF Len(s) <= 2 THEN 64 ELSE buf % 64>>
  IN IF s = <<>> THEN <<>> ELSE quad \o Base64Encode(Cut(s, 3))

\* stl_base64_decode: end says how many bytes the last group holds; it outlives its group.
RECURSIVE Base64Decode(_, _, _)
Base64Decode(s, end, out) ==
  LET pads == {i \in 1..4 : s[i] = 64}
      first == CHOOSE i \in pads : \A j \in pads : i <= j
      e    == IF end # 0 \/ pads = {} THEN end ELSE first - 2
      v(i) == IF s[i] = 64 THEN 0 ELSE s[i]
      buf  == 262144 * v(1) + 4096 * v(2) + 64 * v(3) + v(4)
  IN IF s = <<>> THEN GoodRead(out, <<>>)
     ELSE IF Len(s) < 4 \/ \E i \in 1..4 : s[i] = 65 THEN FailedRead
     ELSE IF end = 0 /\ pads # {} /\ first < 3 THEN FailedRead
     ELSE Base64Decode(Cut(s, 4), e,
            out \o <<buf \div 65536>>
                \o (IF e = 0 \/ e > 1 THEN <<(buf \div 256) % 256>> ELSE <<>>)
                \o (IF e = 0 \/ e > 2 THEN <<buf % 256>> ELSE <<>>))

\* stl_base64_enc_len
Base64EncLen(n) == ((n + 2) * 4) \div 3

----------------------------------------------------------------------------

CodInit ==
  /\ cod_mode = "none"
  /\ cod_edit = EditInit
  /\ cod_batch = <<BatchReset, BatchReset>>
  /\ cod_ops = <<<<>>, <<>>>>
  /\ cod_text = <<>>

InMode(mode) == cod_mode \in {"none", mode} /\ cod_mode' = mode

\* Keys of the edits: exported internal keys.
CodKeys == {PkeyExport(user, 3, 1) : user \in CodSlices}

EditFields(e) ==
  Len(e.comparator) + Len(e.log) + Len(e.prev) + Len(e.next) + Len(e.last) + Len(e.pointers)
  + Cardinality(e.deleted) + Len(e.files)

CodEdit ==
  /\ InMode("edit") /\ EditFields(cod_edit) < CodMaxFields
  /\ \/ \E x \in CodSlices : cod_edit' = EditSet(cod_edit, "comparator", x)
     \/ \E field \in {"log", "prev", "next", "last"}, x \in CodNumbers :
          cod_edit' = EditSet(cod_edit, field, x)
     \/ \E level \in {0, 6}, key \in CodKeys :
          cod_edit' = EditSetCompactPointer(cod_edit, level, key)
     \/ \E level \in {0, 6}, x \in CodNumbers : cod_edit' = EditRemoveFile(cod_edit, level, x)
     \/ \E level \in {0, 6}, x \in CodNumbers, k1, k2 \in CodKeys :
          cod_edit' = EditAddFile(cod_edit, [level |-> level, number |-> x, size |-> x + 1,
                                             smallest |-> k1, largest |-> k2])
  /\ UNCHANGED <<cod_batch, cod_ops, cod_text>>

\* A write, a group commit's append, and the sequence the leader gives the batch.
CodBatch(b) ==
  /\ InMode("batch") /\ Len(cod_ops[b]) < CodMaxFields
  /\ \/ \E k, v \in CodSlices :
          /\ cod_batch' = [cod_batch EXCEPT ![b] = BatchPut(@, k, v)]
          /\ cod_ops' = [cod_ops EXCEPT ![b] = Append(@, [type |-> 1, key |-> k, value |-> v])]
     \/ \E k \in CodSlices :
          /\ cod_batch' = [cod_batch EXCEPT ![b] = BatchDel(@, k)]
          /\ cod_ops' = [cod_ops EXCEPT ![b] = Append(@, [type |-> 0, key |-> k, value |-> <<>>])]
     \/ /\ cod_batch' = [cod_batch EXCEPT ![b] = BatchAppend(@, cod_batch[3 - b])]
        /\ cod_ops' = [cod_ops EXCEPT ![b] = @ \o cod_ops[3 - b]]
     \/ \E seq \in CodNumbers :
          /\ cod_batch' = [cod_batch EXCEPT ![b] = BatchSetSequence(@, seq)]
          /\ UNCHANGED cod_ops
     \/ /\ cod_batch' = [cod_batch EXCEPT ![b] = BatchReset]
        /\ cod_ops' = [cod_ops EXCEPT ![b] = <<>>]
  /\ UNCHANGED <<cod_edit, cod_text>>

CodText(chunk) ==
  /\ InMode("text") /\ Len(cod_text) < CodMaxChunks
  /\ cod_text' = Append(cod_text, chunk)
  /\ UNCHANGED <<cod_edit, cod_batch, cod_ops>>

CodNext ==
  \/ CodEdit
  \/ \E b \in 1..2 : CodBatch(b)
  \/ \E chunk \in CodChunks : CodText(chunk)

----------------------------------------------------------------------------

\* An edit read back is the edit written; cut short it is refused, or it is the
\* edit of the fields that are whole and nothing else.
EditsReadBack ==
  LET s == EditExport(cod_edit)
  IN /\ EditImport(s) = GoodRead(cod_edit, <<>>)
     /\ \A n \in 0..Len(s) - 1 :
          LET r == EditImport(SubSeq(s, 1, n)) IN r.ok => EditExport(r.val) = SubSeq(s, 1, n)

\* A batch hands out the operations it was given, in order and each with the next
\* sequence; cut short it is refused, after a prefix of them was handed out.
BatchesReadBack ==
  \A b \in 1..2 :
    LET rep == cod_batch[b]
        ops == [i \in 1..Len(cod_ops[b]) |->
                  [type |-> cod_ops[b][i].type, key |-> cod_ops[b][i].key,
                   value |-> cod_ops[b][i].value, seq |-> BatchSequence(rep) + i - 1]]
    IN /\ BatchIterate(rep) = [ok |-> TRUE, ops |-> ops]
       /\ \A n \in 0..Len(rep) - 1 :
            LET r == BatchIterate(SubSeq(rep, 1, n))
            IN ~r.ok /\ r.ops = SubSeq(ops, 1, Len(r.ops))

\* A literal that gives the length of x in n bytes; emit_literal takes as few as it can.
LongLiteral(x, n) ==
  Varint32Write(Len(x)) \o <<4 * (59 + n)>> \o SubSeq(FixedWrite(Len(x) - 1, 4), 1, n) \o x

\* What snappy compresses fits the room made for it and comes back the same; cut short
\* it is refused.  A block read with its checksum verified is the block written or an
\* error, base64 comes back, fits, and is refused with a foreign character in it, and footers,
\* keys and slices come back.  A literal may give its length in more bytes than it needs.
TextsReadBack ==
  LET x == Concat(cod_text, Len(cod_text))
      z == SnappyEncode(x)
      b64 == Base64Encode(x)
  IN /\ SnappyDecode(z) = GoodRead(x, <<>>) /\ Len(z) <= SnappyEncodeSize(Len(x))
     /\ \A n \in 0..Len(z) - 1 : ~SnappyDecode(SubSeq(z, 1, n)).ok
     /\ \A c \in BOOLEAN :
          LET blk == BlockAt(x, c)
          IN /\ ReadTableBlock(blk, Len(blk.data), TRUE) = GoodRead(x, <<>>)
             /\ \A type \in 0..2 :
                  LET r == ReadTableBlock([blk EXCEPT !.type = type], Len(blk.data), TRUE)
                  IN r.ok => r.val = x
     /\ Base64Decode(b64, 0, <<>>) = GoodRead(x, <<>>) /\ Len(b64) <= Base64EncLen(Len(x))
     /\ \A i \in {1, Len(b64)} \cap DOMAIN b64 : ~Base64Decode([b64 EXCEPT ![i] = 65], 0, <<>>).ok
     /\ \A n \in 1..4 : SnappyDecode(LongLiteral(x, n)) = IF x = <<>> THEN FailedRead
                                                          ELSE GoodRead(x, <<>>)
     /\ SliceRead(SliceExport(x)) = GoodRead(x, <<>>)
     /\ \A n \in CodNumbers :
          /\ PkeyImport(PkeyExport(x, n, 1)) = GoodRead([user |-> x, seq |-> n, type |-> 1], <<>>)
          /\ SliceRead(LkeyInit(x, n)) = GoodRead(PkeyExport(x, n, 1), <<>>)
          /\ FooterRead(FooterWrite(<<n, Len(x)>>, <<Len(x), n>>))
               = GoodRead(<<<<n, Len(x)>>, <<Len(x), n>>>>, <<>>)

\* Everything the engine encodes is read back as it was written, and what is cut short
\* is never taken for something else.
CodecsReadBack ==
  /\ cod_mode = "edit" => EditsReadBack
  /\ cod_mode = "batch" => BatchesReadBack
  /\ cod_mode = "text" => TextsReadBack
=============================================================================
