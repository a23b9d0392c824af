------------------------------ MODULE LogFormat ------------------------------
(***************************************************************************)
(* The log format (log_writer.c, log_reader.c, log_format.h) over a file   *)
(* of the Unix environment: records are cut into fragments that never      *)
(* cross a block, a crash truncates the file behind what was synced, an    *)
(* append may fail half way, and the log may be opened again for           *)
(* appending (reuse_logs).                                                 *)
(*                                                                         *)
(* A file is a sequence of cells.  A header is two cells, the checksum and *)
(* the length with the type, so that it can be torn; a payload cell names  *)
(* its record and position.  A checksum is the data it was computed from:  *)
(* it matches nothing else.                                                *)
(***************************************************************************)
EXTENDS Integers, FiniteSetsExt, SequencesExt

CONSTANTS BlockSize,      \* LDB_BLOCK_SIZE, in cells
          RecordSizes,    \* payload lengths of the records that are added
          MaxRecords,     \* bound: records added
          MaxDamage,      \* bound: failed appends and torn tails appended to
          AppendFails,    \* may ldb_wfile_append fail half way?
          ReuseLogs       \* is a log opened again for appending?

ASSUME LogAssumption ==
  /\ BlockSize \in Nat /\ BlockSize > 2
  /\ RecordSizes \subseteq Nat
  /\ AppendFails \in BOOLEAN /\ ReuseLogs \in BOOLEAN

VARIABLES log_file,       \* the cells of the file
          log_synced,     \* how many of them a crash cannot lose
          log_block,      \* lw->block_offset
          log_recs,       \* every record added: its size and what its caller knows
          log_damage,     \* failed appends and torn tails appended to so far
          log_state,      \* "open" for appending, or "crashed"
          log_seen        \* the result of the last complete read

logVars == <<log_file, log_synced, log_block, log_recs, log_damage, log_state, log_seen>>

HeaderSize == 2

Zero == <<"zero">>
Byte(r, i) == <<"byte", r, i>>
Data(r, from, n) == [i \in 1..n |-> Byte(r, from + i)]
CrcOf(type, data) == <<"crc", type, data>>
LenCell(n, type) == <<"len", n, type>>

----------------------------------------------------------------------------
(* log_writer.c.  A writer's output is computed first, fragment by         *)
(* fragment; AddRecord appends it.                                         *)

Leftover(off) == BlockSize - off

\* Padding before a fragment: the trailer of a block too short for a header.
Padding(off) ==
  IF Leftover(off) < HeaderSize THEN [i \in 1..Leftover(off) |-> Zero] ELSE <<>>

FragmentOffset(off) == IF Leftover(off) < HeaderSize THEN 0 ELSE off

FragmentLength(off, left) ==
  Min({left, BlockSize - FragmentOffset(off) - HeaderSize})

\* Mutant: the last fragment of a split record looks like a middle one.
FragmentTypeMutant(begin, end) ==
  IF begin THEN (IF end THEN "full" ELSE "first") ELSE "middle"

FragmentType(begin, end) ==
  IF begin THEN (IF end THEN "full" ELSE "first")
           ELSE (IF end THEN "last" ELSE "middle")

\* emit_physical_record: checksum over type and payload, length, type, payload.
PhysicalRecord(type, data) ==
  <<CrcOf(type, data), LenCell(Len(data), type)>> \o data

\* The fragments of one record, each with the cells it appends and the block
\* offset after it.
RECURSIVE Fragments(_, _, _, _, _)
Fragments(r, done, left, off, begin) ==
  LET n   == FragmentLength(off, left)
      out == [cells |-> Padding(off) \o
                        PhysicalRecord(FragmentType(begin, left = n), Data(r, done, n)),
              block |-> FragmentOffset(off) + HeaderSize + n]
  IN <<out>> \o (IF left = n THEN <<>>
                 ELSE Fragments(r, done + n, left - n, out.block, FALSE))

LogCells(frags) == FlattenSeq([i \in DOMAIN frags |-> frags[i].cells])

----------------------------------------------------------------------------
(* log_reader.c.  lr is the ldb_reader_t: the block in its buffer, how far *)
(* the file has been read, and the resynchronisation state.                *)

\* skip_to_initial_block: the first block that may hold the initial record.
SkipToInitialBlock(offset) ==
  LET inblock == offset % BlockSize
  IN offset - inblock + (IF inblock > BlockSize - (HeaderSize - 1) THEN BlockSize ELSE 0)

\* ldb_reader_init.  bad is the position at which the file cannot be read.
ReaderInit(file, offset, bad) ==
  [file |-> file, next |-> SkipToInitialBlock(offset), buf |-> <<>>, eof |-> FALSE,
   initial |-> offset, resyncing |-> offset > 0, drops |-> 0, bad |-> bad]

\* lr->end_offset - lr->buffer.size, the position behind what was consumed.
Position(lr) == lr.next - Len(lr.buf)

\* report_drop, report_corruption: only what lies behind the initial offset.  The
\* difference is unsigned: below zero it is large.
ReportDrop(lr, n) ==
  IF Position(lr) - n \in 0..lr.initial - 1 THEN lr ELSE [lr EXCEPT !.drops = @ + 1]

\* ldb_rfile_read of one block; a short one is the last, and so is one that fails.
ReadFails(lr) == lr.next = lr.bad

ReadBlock(lr) ==
  LET blk == SubSeq(lr.file, lr.next + 1, Min({lr.next + BlockSize, Len(lr.file)}))
  IN IF ReadFails(lr)
     THEN ReportDrop([lr EXCEPT !.buf = <<>>, !.eof = TRUE], BlockSize)
     ELSE [lr EXCEPT !.buf = blk, !.next = @ + Len(blk), !.eof = Len(blk) < BlockSize]

DropBuffer(lr) == [lr EXCEPT !.buf = <<>>]

\* What the header bytes say.  Bytes that are no header say something, and the
\* checksum does not match it; all zeroes are a preallocated region.
HeaderOf(cells) ==
  IF cells[2][1] = "len" THEN [len |-> cells[2][2], type |-> cells[2][3]]
  ELSE [len |-> 0, type |-> IF cells[2] = Zero THEN "zero" ELSE "garbage"]

RECURSIVE ReadPhysicalRecord(_)
ReadPhysicalRecord(lr) ==
  IF Len(lr.buf) < HeaderSize
  THEN IF lr.eof THEN [lr |-> DropBuffer(lr), type |-> "eof", data |-> <<>>]
       ELSE ReadPhysicalRecord(ReadBlock(lr))
  ELSE LET h    == HeaderOf(lr.buf)
           data == SubSeq(lr.buf, HeaderSize + 1, HeaderSize + h.len)
           rest == [lr EXCEPT !.buf = SubSeq(@, HeaderSize + h.len + 1, Len(@))]
           bad(l) == [lr |-> l, type |-> "bad", data |-> <<>>]
       IN CASE HeaderSize + h.len > Len(lr.buf) /\ lr.eof ->
                 [lr |-> DropBuffer(lr), type |-> "eof", data |-> <<>>]
            [] HeaderSize + h.len > Len(lr.buf) /\ ~lr.eof ->
                 bad(ReportDrop(DropBuffer(lr), Len(lr.buf)))
            [] h.type = "zero" -> bad(DropBuffer(lr))
            [] HeaderSize + h.len <= Len(lr.buf) /\ h.type # "zero"
                 /\ lr.buf[1] # CrcOf(h.type, data) ->
                 bad(ReportDrop(DropBuffer(lr), Len(lr.buf)))
            [] OTHER ->
                 IF Position(rest) - HeaderSize - h.len < lr.initial THEN bad(rest)
                 ELSE [lr |-> rest, type |-> h.type, data |-> data]

\* ldb_reader_read_record: the loop, with its scratch buffer and whether it is
\* inside a fragmented record.  ok says whether a record was returned.
RECURSIVE ReadRecord(_, _, _)
ReadRecord(lr, scratch, inside) ==
  LET p    == ReadPhysicalRecord(lr)
      skip == p.lr.resyncing /\ p.type \in {"middle", "last"}
      q    == [p.lr EXCEPT !.resyncing = @ /\ p.type = "middle"]
      lost == IF inside /\ scratch # <<>> THEN ReportDrop(q, Len(scratch)) ELSE q
  IN CASE skip -> ReadRecord(q, scratch, inside)
       [] ~skip /\ p.type = "full" -> [ok |-> TRUE, lr |-> lost, data |-> p.data]
       [] ~skip /\ p.type = "first" -> ReadRecord(lost, p.data, TRUE)
       [] ~skip /\ p.type = "middle" ->
            IF inside THEN ReadRecord(q, scratch \o p.data, TRUE)
            ELSE ReadRecord(ReportDrop(q, Len(p.data)), scratch, FALSE)
       [] ~skip /\ p.type = "last" ->
            IF inside THEN [ok |-> TRUE, lr |-> q, data |-> scratch \o p.data]
            ELSE ReadRecord(ReportDrop(q, Len(p.data)), scratch, FALSE)
       [] p.type = "eof" -> [ok |-> FALSE, lr |-> q, data |-> <<>>]
       [] OTHER -> ReadRecord(IF inside THEN ReportDrop(q, Len(scratch)) ELSE q, <<>>, FALSE)

\* The caller's loop (ldb_recover_log_file, ldb_versions_recover).
RECURSIVE ReadAll(_, _)
ReadAll(lr, acc) ==
  LET r == ReadRecord(lr, <<>>, FALSE)
  IN IF r.ok THEN ReadAll(r.lr, Append(acc, r.data)) ELSE [recs |-> acc, drops |-> r.lr.drops]

ReadLog(file, offset, bad) == ReadAll(ReaderInit(file, offset, bad), <<>>)

----------------------------------------------------------------------------
NoRead == [recs |-> <<>>, drops |-> 0, offset |-> -1, bad |-> -1]

LogInit ==
  /\ log_file = <<>> /\ log_synced = 0 /\ log_block = 0 /\ log_state = "open"
  /\ log_recs = <<>> /\ log_damage = 0 /\ log_seen = NoRead

\* A record begins behind the padding of its first fragment.
Rec(n, state, cells) ==
  [size |-> n, state |-> state, at |-> Len(log_file) + Len(Padding(log_block)),
   end |-> Len(log_file) + cells]

\* ldb_writer_add_record: all of the record reaches the file.
AddRecord(n) ==
  LET out == Fragments(Len(log_recs) + 1, 0, n, log_block, TRUE)
  IN /\ log_state = "open" /\ Len(log_recs) < MaxRecords
     /\ log_file' = log_file \o LogCells(out)
     /\ log_block' = Last(out).block
     /\ log_recs' = Append(log_recs, Rec(n, "ok", Len(LogCells(out))))
     /\ log_seen' = NoRead
     /\ UNCHANGED <<log_synced, log_damage, log_state>>

\* ldb_wfile_append or ldb_wfile_flush fails in fragment i: part of its cells
\* are in the file, the writer counts them all, and the loop ends.
AddRecordFails(n, i, part) ==
  LET out  == Fragments(Len(log_recs) + 1, 0, n, log_block, TRUE)
      done == LogCells(SubSeq(out, 1, i - 1))
  IN /\ AppendFails /\ log_damage < MaxDamage
     /\ log_state = "open" /\ Len(log_recs) < MaxRecords
     /\ i \in DOMAIN out /\ part \in 0..Len(out[i].cells) - 1
     /\ log_file' = log_file \o done \o SubSeq(out[i].cells, 1, part)
     /\ log_block' = out[i].block
     /\ log_recs' = Append(log_recs, Rec(n, "failed", Len(done) + part))
     /\ log_damage' = log_damage + 1
     /\ log_seen' = NoRead
     /\ UNCHANGED <<log_synced, log_state>>

\* ldb_wfile_sync: everything written so far survives a crash.
Sync ==
  /\ log_state = "open" /\ log_synced < Len(log_file)
  /\ log_synced' = Len(log_file)
  /\ log_recs' = [r \in DOMAIN log_recs |->
                    IF log_recs[r].state = "ok" THEN [log_recs[r] EXCEPT !.state = "synced"]
                    ELSE log_recs[r]]
  /\ UNCHANGED <<log_file, log_block, log_damage, log_seen, log_state>>

\* A crash keeps at least what was synced, and may cut a record in two.
AfterCrash(rec, len) ==
  CASE rec.end <= len \/ rec.state = "lost" -> rec
    [] rec.end > len /\ rec.at < len /\ rec.state # "lost" -> [rec EXCEPT !.state = "torn"]
    [] OTHER -> [rec EXCEPT !.state = "lost"]

Crash(len) ==
  /\ log_state = "open" /\ len \in log_synced..Len(log_file)
  /\ log_file' = SubSeq(log_file, 1, len)
  /\ log_synced' = len
  /\ log_state' = "crashed"
  /\ log_seen' = NoRead
  /\ log_recs' = [r \in DOMAIN log_recs |-> AfterCrash(log_recs[r], len)]
  /\ UNCHANGED <<log_block, log_damage>>

\* ldb_recover_log_file reads the log from its start; a test reads it from any
\* offset, or over a file whose blocks cannot all be read.
Read(offset, bad) ==
  /\ log_state = "crashed" /\ log_seen = NoRead
  /\ LET r == ReadLog(log_file, offset, bad)
     IN log_seen' = [recs |-> r.recs, drops |-> r.drops, offset |-> offset, bad |-> bad]
  /\ UNCHANGED <<log_file, log_synced, log_block, log_recs, log_damage, log_state>>

\* With reuse_logs the log is opened again for appending, and ldb_writer_init
\* takes up the block where the file ends, behind a torn record if there is one.
TornEnd == \E r \in DOMAIN log_recs : log_recs[r].state = "torn"

Reopen ==
  /\ ReuseLogs /\ log_state = "crashed"
  /\ log_damage' = log_damage + (IF TornEnd THEN 1 ELSE 0) /\ log_damage' <= MaxDamage
  /\ log_recs' = [r \in DOMAIN log_recs |->
                    IF log_recs[r].state = "torn" THEN [log_recs[r] EXCEPT !.state = "lost"]
                    ELSE log_recs[r]]
  /\ log_state' = "open"
  /\ log_block' = Len(log_file) % BlockSize
  /\ log_seen' = NoRead
  /\ UNCHANGED <<log_file, log_synced>>

LogNext ==
  \/ \E n \in RecordSizes : AddRecord(n)
  \/ \E n \in RecordSizes, i \in 1..3, part \in 0..BlockSize : AddRecordFails(n, i, part)
  \/ Sync
  \/ \E len \in 0..Len(log_file) : Crash(len)
  \/ \E bad \in {-1, 0, BlockSize} : Read(0, bad)
  \/ \E offset \in 1..Len(log_file) : log_damage = 0 /\ Read(offset, -1)
  \/ Reopen

----------------------------------------------------------------------------
Record(r) == Data(r, 0, log_recs[r].size)

InOrder(recs) ==
  \E f \in [DOMAIN recs -> DOMAIN log_recs] :
    \A i \in DOMAIN recs :
      recs[i] = Record(f[i]) /\ (i > 1 => f[i - 1] < f[i])

\* The numbers of the records a read from offset should return.
Wanted(offset) ==
  SetToSortSeq({r \in DOMAIN log_recs :
                  log_recs[r].at >= offset /\ log_recs[r].state \in {"ok", "synced"}}, <)

\* The recovery contract of the log format: whatever failed, what a reader
\* returns are whole records in the order they were added, never a mixture of
\* two; a block that cannot be read is reported; and as long as no append failed
\* and nothing was appended behind a torn record, a read returns every record
\* that is wholly in the file behind its initial offset, and one from the start
\* takes the torn one at its end for the end, not for corruption.
LogReadBack ==
  log_seen # NoRead =>
    /\ InOrder(log_seen.recs)
    /\ log_seen.bad \in 0..Len(log_file) => log_seen.drops > 0
    /\ (log_damage = 0 /\ log_seen.bad = -1) =>
         /\ log_seen.recs = [i \in DOMAIN Wanted(log_seen.offset) |->
                               Record(Wanted(log_seen.offset)[i])]
         /\ log_seen.offset = 0 => log_seen.drops = 0

\* What a synced write promises, a crash and the failures before it
\* notwithstanding: options.h has it that a DB write with sync==1 is as safe as
\* a write() followed by an fsync().
SyncedSurvives ==
  log_seen.offset = 0 /\ log_seen.bad = -1 =>
    \A r \in DOMAIN log_recs :
      log_recs[r].state = "synced" => \E i \in DOMAIN log_seen.recs : log_seen.recs[i] = Record(r)
=============================================================================
