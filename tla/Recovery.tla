------------------------------ MODULE Recovery ------------------------------
(***************************************************************************)
(* What is on disk, and what survives a crash: opening and recovering a    *)
(* database (ldb_open, ldb_recover, ldb_versions_recover), the MANIFEST    *)
(* and CURRENT (ldb_versions_apply, ldb_set_current_file), obsolete files, *)
(* flushes and compactions as sequences of file operations, backups and    *)
(* repair.                                                                 *)
(*                                                                         *)
(* A write is its number and the sequence number it got; keys, levels and  *)
(* groups of writers are in Lsm and DbImpl.  A log and a manifest are the  *)
(* records in them and how many of them are synced: a machine crash keeps  *)
(* at least those, a process crash keeps everything, because each record   *)
(* is flushed to the operating system.  A crash or a failed append may     *)
(* leave bytes of an unfinished record at the end of a file; a reader      *)
(* takes them for the end (LogFormat), but records appended behind them,   *)
(* where a log or a manifest is reused or an append is tried again, may be *)
(* dropped with them.  Operations on the directory take effect in order.   *)
(* options.paranoid_checks is off, as by default: a damaged log is read as *)
(* far as it goes; a damaged manifest is always refused.                   *)
(***************************************************************************)
EXTENDS Integers, FiniteSetsExt, SequencesExt, Functions

CONSTANTS MaxWrites,      \* bound: writes
          MaxNumber,      \* bound: file numbers (one more for a flush in a compaction)
          MaxCrashes,     \* bound: crashes, closes, failed opens and failed appends to a log
          MaxCompactions, \* bound: compactions
          MaxRepairs,     \* bound: repairs
          ReuseLogs       \* the values options.reuse_logs takes

ASSUME RecoveryAssumption ==
  /\ {MaxWrites, MaxNumber, MaxCrashes, MaxCompactions, MaxRepairs} \subseteq Nat
  /\ ReuseLogs \subseteq BOOLEAN

VARIABLES
  tables,     \* number -> [ents, whole]: the table files
  logs,       \* number -> [recs, synced]: the log files
  manifests,  \* number -> [recs, synced]: the MANIFEST files
  current,    \* the manifest CURRENT names, 0 if there is none
  temps,      \* numbers of the temporary files
  torn,       \* <<kind, number, n>>: an unfinished record lies behind n records of a file
  pc,         \* where the thread that opens, repairs or uses the database is
  op,         \* its local variables (ldb_recover, ldb_open, ldb_repair_t)
  vs,         \* ldb_versions_t
  db,         \* ldb_t
  bg,         \* where the background thread is
  job,        \* its local variables
  acked,      \* writes that were acknowledged; after a machine crash, the synced ones
  synced,     \* writes that were acknowledged with options->sync; of both, after the
              \* database is opened again, those that were not behind torn bytes of a log
  written,    \* number of writes so far
  doubt,      \* why the promises below do not hold: "no"; "repair": one was begun
              \* and its result is not durable; "reuse": a manifest with unsynced
              \* records is in use; "lost": a machine crash or an ldb_open came then,
              \* a manifest with records behind torn bytes was opened, or a repair
              \* dropped a log
  bak,        \* what the last backup should recover and does not
  spent       \* crashes, compactions and repairs so far

disk == <<tables, logs, manifests, current, temps, torn>>
ghost == <<acked, synced, written, doubt, bak, spent>>
vars == <<tables, logs, manifests, current, temps, torn, pc, op, vs, db, bg, job,
          acked, synced, written, doubt, bak, spent>>

None == 0
NoEdit == [adds |-> {}, dels |-> {}, log |-> -1, next |-> -1, seq |-> -1]
NoOp == [reuse |-> FALSE, logs |-> {}, rest |-> <<>>, log |-> None, tabs |-> 0,
         max |-> 0, save |-> FALSE, edit |-> NoEdit, kill |-> {}, names |-> None,
         good |-> {}, next |-> 0, mans |-> {}]
NoJob == [kind |-> "none", out |-> None, ins |-> {}, edit |-> NoEdit, kill |-> {},
          outer |-> <<>>]
NoVersions == [next |-> 2, manifest |-> 0, desc |-> None, log |-> 0, seq |-> 0, live |-> {}]
NoDb == [logfile |-> 0, mem |-> {}, imm |-> {}, has_imm |-> FALSE, err |-> FALSE,
         pending |-> {}]

Put(f, n, v) == [m \in DOMAIN f \cup {n} |-> IF m = n THEN v ELSE f[m]]
Drop(f, S) == Restrict(f, DOMAIN f \ S)

EmptyLog == [recs |-> <<>>, synced |-> 0]
Whole(log) == [recs |-> log.recs, synced |-> Len(log.recs)]
Write(log, r) == [recs |-> Append(log.recs, r), synced |-> log.synced]
Table(ents) == [ents |-> ents, whole |-> TRUE]
Ents(recs) == {recs[i] : i \in DOMAIN recs}
Higher(a, b) == IF a > b THEN a ELSE b
Lower(a, b) == IF a > b THEN b ELSE a

\* A file that is made or removed has no torn bytes.
Untorn(files) == {t \in torn : <<t[1], t[2]>> \notin files}

----------------------------------------------------------------------------
(* Reading a MANIFEST (ldb_versions_recover): the edits are applied in     *)
(* order, the last value of each number counts.                            *)

\* builder_apply, builder_save_to: files added and not deleted afterwards.
LiveOf(recs) ==
  {t \in UNION {recs[i].adds : i \in DOMAIN recs} :
     \E i \in DOMAIN recs : /\ t \in recs[i].adds
                            /\ \A j \in DOMAIN recs : j > i => t \notin recs[j].dels}

\* The last edit that has the numbers; a snapshot has none.
Numbered(recs) == {i \in DOMAIN recs : recs[i].next # -1}
LastEdit(recs) == recs[Max(Numbered(recs))]

\* Logs that recovery replays: all that are not older than log_number.
LogsFrom(n) == {l \in DOMAIN logs : l >= n}

----------------------------------------------------------------------------
(* Torn bytes, and what a reader makes of the records behind them.         *)

Behind(kind, n, i) == \E k \in 0..i - 1 : <<kind, n, k>> \in torn

\* How many records are in front of the first torn bytes of a file.
Solid(kind, n, recs) == Min({k \in 0..Len(recs) : k = Len(recs) \/ <<kind, n, k>> \in torn})

\* ldb_reader_read_record: c of the records behind them are gone, those in the
\* block that is dropped for a bad checksum, or all if the torn header asks for
\* more than the file has.
Lose(file, k, c) ==
  [recs   |-> SubSeq(file.recs, 1, k) \o SubSeq(file.recs, k + c + 1, Len(file.recs)),
   synced |-> Higher(Lower(k, file.synced), file.synced - c)]

Longest(files) == Max({0} \cup {Len(files[n].recs) : n \in DOMAIN files})

Losses(kind, files) ==
  {c \in [DOMAIN files -> 0..Longest(files)] :
     \A n \in DOMAIN files : c[n] <= Len(files[n].recs) - Solid(kind, n, files[n].recs)}

ReadBack(kind, files, c) ==
  [n \in DOMAIN files |-> Lose(files[n], Solid(kind, n, files[n].recs), c[n])]

\* The end of a file is torn if it was, or if nothing behind torn bytes is read.
TornEnds(kind, files, c) ==
  {<<kind, n, Len(files[n].recs) - c[n]>> :
     n \in {m \in DOMAIN files :
             \/ <<kind, m, Len(files[m].recs)>> \in torn
             \/ 0 < c[m] /\ c[m] = Len(files[m].recs) - Solid(kind, m, files[m].recs)}}

\* The writes that are in a log behind torn bytes.
Doubtful ==
  UNION {{logs[l].recs[i] : i \in {j \in DOMAIN logs[l].recs : Behind("log", l, j)}} :
           l \in DOMAIN logs}

\* The manifest in use has records behind torn bytes.
Mixed ==
  /\ current \in DOMAIN manifests
  /\ \E i \in DOMAIN manifests[current].recs : Behind("manifest", current, i)

----------------------------------------------------------------------------
Init ==
  /\ tables = <<>> /\ logs = <<>> /\ manifests = <<>> /\ current = None /\ temps = {} /\ torn = {}
  /\ pc = "down" /\ op = NoOp /\ vs = NoVersions /\ db = NoDb
  /\ bg = "idle" /\ job = NoJob
  /\ acked = {} /\ synced = {} /\ written = 0 /\ doubt = "no"
  /\ bak = {}
  /\ spent = [crashes |-> 0, compactions |-> 0, repairs |-> 0]

----------------------------------------------------------------------------
(* ldb_open                                                                *)

\* ldb_create, ldb_recover as far as the test of CURRENT.  What the readers will
\* find behind torn bytes is settled here: corruption in the manifest (bad), for
\* which ldb_versions_recover uses nothing of it, or fewer records.
OpenStart(reuse) ==
  /\ pc = "down"
  /\ \E c \in Losses("log", logs), d \in Losses("manifest", manifests), bad \in {FALSE, Mixed} :
       /\ logs' = ReadBack("log", logs, c)
       /\ manifests' = IF bad THEN Put(ReadBack("manifest", manifests, d), current, EmptyLog)
                       ELSE ReadBack("manifest", manifests, d)
       /\ torn' = TornEnds("log", logs, c) \cup TornEnds("manifest", manifests, d)
  /\ acked' = acked \ Doubtful /\ synced' = synced \ Doubtful
  /\ op' = [NoOp EXCEPT !.reuse = reuse]
  /\ vs' = NoVersions /\ db' = NoDb
  /\ pc' = IF current = None THEN "newdb" ELSE "recover"
  /\ doubt' = IF doubt = "repair" \/ Mixed THEN "lost" ELSE doubt
  /\ UNCHANGED <<tables, current, temps, bg, job, written, bak, spent>>

\* ldb_new_db: MANIFEST-000001 with one record, synced; then CURRENT.
NewDb ==
  /\ pc = "newdb"
  /\ manifests' = Put(manifests, 1, [recs |-> <<[NoEdit EXCEPT !.log = 0, !.next = 2, !.seq = 0]>>,
                                     synced |-> 1])
  /\ torn' = Untorn({<<"manifest", 1>>})
  /\ op' = [op EXCEPT !.names = 1]
  /\ pc' = "temp"
  /\ UNCHANGED <<tables, logs, current, temps, vs, db, bg, job, ghost>>

\* The manifest in use is synced.
Settled == IF doubt = "reuse" THEN "no" ELSE doubt

\* ldb_set_current_file: a synced temporary file, then its rename to CURRENT.
\* Who called it is told by what comes next.
WriteTemp ==
  /\ pc \in {"temp", "temp2", "rep_temp"}
  /\ temps' = temps \cup {op.names}
  /\ pc' = CASE pc = "temp" -> "rename" [] pc = "temp2" -> "rename2" [] OTHER -> "rep_rename"
  /\ UNCHANGED <<tables, logs, manifests, current, torn, op, vs, db, bg, job, ghost>>

RenameTemp ==
  /\ pc \in {"rename", "rename2", "rep_rename"}
  /\ current' = op.names
  /\ temps' = temps \ {op.names}
  /\ pc' = CASE pc = "rename" -> "recover" [] pc = "rename2" -> "install" [] OTHER -> "down"
  /\ doubt' = CASE pc = "rep_rename" /\ doubt = "repair" -> (IF op.next = 1 THEN "lost" ELSE "no")
                [] pc = "rename2" -> Settled
                [] OTHER -> doubt
  /\ UNCHANGED <<tables, logs, manifests, torn, op, vs, db, bg, job, acked, synced, written, bak,
                 spent>>

\* ldb_versions_reuse_manifest; small: the manifest is below target_file_size.
ReusesManifest(small) == op.reuse /\ small

\* ldb_versions_recover and the test for missing tables in ldb_recover.
VersionsRecover(small) ==
  /\ pc = "recover"
  /\ current \in DOMAIN manifests
  /\ LET recs  == manifests[current].recs
         last  == LastEdit(recs)
         reuse == ReusesManifest(small)
     IN /\ Numbered(recs) # {}
        /\ LiveOf(recs) \subseteq DOMAIN tables
        /\ vs' = [next |-> last.next + 1, log |-> last.log, seq |-> last.seq,
                  live |-> LiveOf(recs),
                  manifest |-> IF reuse THEN current ELSE last.next,
                  desc |-> IF reuse THEN current ELSE None]
        /\ op' = [op EXCEPT !.logs = LogsFrom(last.log), !.save = ~reuse]
        /\ doubt' = IF reuse /\ manifests[current].synced < Len(recs) /\ doubt = "no"
                    THEN "reuse" ELSE doubt
  /\ pc' = "logs"
  /\ UNCHANGED <<disk, db, bg, job, acked, synced, written, bak, spent>>

\* The error returns of ldb_recover: CURRENT names no manifest, the manifest
\* lacks its numbers, or a table is missing.  ldb_open destroys what it made.
RecoverFails ==
  /\ pc = "recover"
  /\ \/ current \notin DOMAIN manifests
     \/ /\ current \in DOMAIN manifests
        /\ Numbered(manifests[current].recs) = {}
     \/ /\ current \in DOMAIN manifests
        /\ ~(LiveOf(manifests[current].recs) \subseteq DOMAIN tables)
  /\ pc' = "down" /\ vs' = NoVersions /\ op' = NoOp
  /\ UNCHANGED <<disk, db, bg, job, ghost>>

\* ldb_recover_log_file, one log after the other in the order of their numbers.
NextLog ==
  /\ pc = "logs" /\ op.logs # {}
  /\ LET l == Min(op.logs)
     IN op' = [op EXCEPT !.log = l, !.rest = logs[l].recs, !.tabs = 0,
                         !.logs = op.logs \ {l}]
  /\ pc' = "replay"
  /\ UNCHANGED <<disk, vs, db, bg, job, ghost>>

\* Mutant: a log that ends with the highest sequence number is one short.
MaxSeqMutant(recs) == Max({0} \cup {recs[i].seq - 1 : i \in DOMAIN recs})

MaxSeq(recs) == Max({0} \cup {recs[i].seq : i \in DOMAIN recs})

\* ldb_versions_mark_file_number
Mark(next, n) == Higher(next, n + 1)

\* The last log is kept for appending when nothing of it had to be written.
KeepsLog == op.reuse /\ op.logs = {} /\ op.tabs = 0

ReplayAndKeep ==
  /\ pc = "replay" /\ KeepsLog
  /\ db' = [db EXCEPT !.logfile = op.log, !.mem = Ents(op.rest)]
  /\ op' = [op EXCEPT !.max = Higher(@, MaxSeq(op.rest)), !.rest = <<>>]
  /\ vs' = [vs EXCEPT !.next = Mark(@, op.log)]
  /\ pc' = "logs"
  /\ UNCHANGED <<disk, bg, job, ghost>>

\* ldb_write_level0_table of the first n records: all that are left, or as many
\* as filled a write buffer.
ReplayToTable(n) ==
  /\ pc = "replay" /\ vs.next < MaxNumber
  /\ n \in 1..Len(op.rest)
  /\ n < Len(op.rest) \/ ~KeepsLog
  /\ LET chunk == SubSeq(op.rest, 1, n)
     IN /\ tables' = Put(tables, vs.next, Table(Ents(chunk)))
        /\ op' = [op EXCEPT !.rest = SubSeq(@, n + 1, Len(@)), !.tabs = @ + 1, !.save = TRUE,
                            !.max = Higher(@, MaxSeq(chunk)),
                            !.edit.adds = @ \cup {vs.next}]
        /\ vs' = [vs EXCEPT !.next = @ + 1]
  /\ UNCHANGED <<logs, manifests, current, temps, torn, pc, db, bg, job, ghost>>

ReplayEnds ==
  /\ pc = "replay" /\ op.rest = <<>> /\ ~KeepsLog
  /\ vs' = [vs EXCEPT !.next = Mark(@, op.log)]
  /\ pc' = "logs"
  /\ UNCHANGED <<disk, op, db, bg, job, ghost>>

\* The end of ldb_recover, and the new log ldb_open makes unless one is kept.
RecoverEnds ==
  /\ pc = "logs" /\ op.logs = {} /\ vs.next < MaxNumber
  /\ IF db.logfile # 0
     THEN /\ vs' = [vs EXCEPT !.seq = Higher(@, op.max)]
          /\ UNCHANGED <<logs, torn, db>>
     ELSE /\ vs' = [vs EXCEPT !.seq = Higher(@, op.max), !.next = @ + 1]
          /\ logs' = Put(logs, vs.next, EmptyLog)
          /\ torn' = Untorn({<<"log", vs.next>>})
          /\ db' = [db EXCEPT !.logfile = vs.next]
  /\ pc' = IF op.save THEN "apply" ELSE "clean"
  /\ UNCHANGED <<tables, manifests, current, temps, op, bg, job, ghost>>

\* ldb_versions_apply as ldb_open calls it: a new manifest begins with a
\* snapshot of the version it starts from.
FillEdit(edit, log) == [edit EXCEPT !.log = log, !.next = vs.next, !.seq = vs.seq]

Snapshot == [NoEdit EXCEPT !.adds = vs.live]

OpenApply ==
  /\ pc = "apply"
  /\ LET edit == FillEdit(op.edit, db.logfile)
         man  == IF vs.desc = None THEN Write(EmptyLog, Snapshot) ELSE manifests[vs.desc]
     IN /\ manifests' = Put(manifests, vs.manifest, Write(man, edit))
        /\ op' = [op EXCEPT !.edit = edit, !.names = vs.manifest]
  /\ torn' = IF vs.desc = None THEN Untorn({<<"manifest", vs.manifest>>}) ELSE torn
  /\ pc' = "sync"
  /\ UNCHANGED <<tables, logs, current, temps, vs, db, bg, job, ghost>>

OpenSync ==
  /\ pc = "sync"
  /\ manifests' = [manifests EXCEPT ![vs.manifest] = Whole(@)]
  /\ pc' = IF vs.desc = None THEN "temp2" ELSE "install"
  /\ doubt' = IF vs.desc = None THEN doubt ELSE Settled
  /\ UNCHANGED <<tables, logs, current, temps, torn, op, vs, db, bg, job, acked, synced, written,
                 bak, spent>>

\* An append to the manifest in use that fails half way.
HalfEdit == torn \cup {<<"manifest", vs.desc, Len(manifests[vs.desc].recs)>>}

\* An error while the manifest is written or CURRENT switched: the temporary
\* file and a manifest made by this call are removed, and ldb_open fails.  Part of
\* the record may stay in a manifest that was reused.
OpenApplyFails ==
  /\ pc \in {"apply", "sync", "temp2", "rename2"}
  /\ spent.crashes < MaxCrashes
  /\ spent' = [spent EXCEPT !.crashes = @ + 1]
  /\ manifests' = IF vs.desc = None THEN Drop(manifests, {vs.manifest}) ELSE manifests
  /\ IF vs.desc = None THEN torn' = Untorn({<<"manifest", vs.manifest>>})
     ELSE torn' \in {torn, IF pc = "apply" THEN HalfEdit ELSE torn}
  /\ temps' = temps \ {op.names}
  /\ pc' = "down" /\ vs' = NoVersions /\ db' = NoDb /\ op' = NoOp
  /\ UNCHANGED <<tables, logs, current, bg, job, acked, synced, written, doubt, bak>>

Install(edit, desc) ==
  [vs EXCEPT !.live = (@ \ edit.dels) \cup edit.adds, !.log = edit.log, !.desc = desc]

OpenInstall ==
  /\ pc = "install"
  /\ vs' = Install(op.edit, vs.manifest)
  /\ pc' = "clean"
  /\ UNCHANGED <<disk, op, db, bg, job, ghost>>

\* Mutant: a log is obsolete when it is not the one being written.
KeptMutant(file) ==
  CASE file[1] = "log"      -> file[2] >= db.logfile
    [] file[1] = "manifest" -> file[2] >= vs.manifest
    [] OTHER                -> file[2] \in vs.live \cup db.pending

\* ldb_remove_obsolete_files: what to keep is decided with the mutex held, the
\* files are removed one by one without it.
Kept(file) ==
  CASE file[1] = "log"      -> file[2] >= vs.log
    [] file[1] = "manifest" -> file[2] >= vs.manifest
    [] OTHER                -> file[2] \in vs.live \cup db.pending

Files == ({"log"} \X DOMAIN logs) \cup ({"manifest"} \X DOMAIN manifests)
           \cup ({"table"} \X DOMAIN tables) \cup ({"temp"} \X temps)

\* Mutant: only logs and tables are looked at.
ObsoleteMutant == {f \in Files : f[1] \in {"log", "table"} /\ ~Kept(f)}

Obsolete == {f \in Files : ~Kept(f)}

Named(kind, files) == {f[2] : f \in {g \in files : g[1] = kind}}

RemoveFiles(files) ==
  /\ logs' = Drop(logs, Named("log", files))
  /\ manifests' = Drop(manifests, Named("manifest", files))
  /\ tables' = Drop(tables, Named("table", files))
  /\ temps' = temps \ Named("temp", files)
  /\ torn' = Untorn(files)

OpenClean ==
  /\ pc = "clean"
  /\ op' = [op EXCEPT !.kill = Obsolete]
  /\ pc' = "kill"
  /\ UNCHANGED <<disk, vs, db, bg, job, ghost>>

OpenRemove ==
  /\ pc = "kill"
  /\ \E f \in op.kill : RemoveFiles({f}) /\ op' = [op EXCEPT !.kill = @ \ {f}]
  /\ UNCHANGED <<current, pc, vs, db, bg, job, ghost>>

OpenEnds ==
  /\ pc = "kill" /\ op.kill = {}
  /\ pc' = "open" /\ op' = NoOp
  /\ UNCHANGED <<disk, vs, db, bg, job, ghost>>

----------------------------------------------------------------------------
(* The open database: ldb_write, the switch of memtables, ldb_backup.      *)

Entry == [id |-> written + 1, seq |-> vs.seq + 1]

\* The end of ldb_write: add to the log, sync if asked, insert, publish.
LdbWrite(sync) ==
  /\ pc = "open" /\ ~db.err /\ written < MaxWrites
  /\ LET log == Write(logs[db.logfile], Entry)
     IN logs' = [logs EXCEPT ![db.logfile] = IF sync THEN Whole(log) ELSE log]
  /\ db' = [db EXCEPT !.mem = @ \cup {Entry}]
  /\ vs' = [vs EXCEPT !.seq = @ + 1]
  /\ acked' = acked \cup {Entry}
  /\ synced' = IF sync THEN synced \cup {Entry} ELSE synced
  /\ written' = written + 1
  /\ UNCHANGED <<tables, manifests, current, temps, torn, pc, op, bg, job, doubt, bak, spent>>

\* ldb_writer_add_record fails: part of the record may be in the log, and the next
\* one goes behind it.
WriteAppendFails ==
  /\ pc = "open" /\ ~db.err /\ spent.crashes < MaxCrashes
  /\ spent' = [spent EXCEPT !.crashes = @ + 1]
  /\ torn' = torn \cup {<<"log", db.logfile, Len(logs[db.logfile].recs)>>}
  /\ vs' = [vs EXCEPT !.seq = @ + 1]
  /\ UNCHANGED <<tables, logs, manifests, current, temps, pc, op, db, bg, job, acked, synced,
                 written, doubt, bak>>

\* The sync fails: nobody knows whether the record is there, all later writes
\* are refused.
WriteSyncFails ==
  /\ pc = "open" /\ ~db.err /\ written < MaxWrites
  /\ logs' = [logs EXCEPT ![db.logfile] = Write(@, Entry)]
  /\ db' = [db EXCEPT !.err = TRUE]
  /\ vs' = [vs EXCEPT !.seq = @ + 1]
  /\ written' = written + 1
  /\ UNCHANGED <<tables, manifests, current, temps, torn, pc, op, bg, job, acked, synced, doubt,
                 bak, spent>>

\* ldb_make_room_for_write: a new log and memtable; the old log is closed
\* without a sync.
SwitchMemtable ==
  /\ pc = "open" /\ ~db.err /\ ~db.has_imm /\ vs.next < MaxNumber
  /\ logs' = Put(logs, vs.next, EmptyLog)
  /\ torn' = Untorn({<<"log", vs.next>>})
  /\ vs' = [vs EXCEPT !.next = @ + 1]
  /\ db' = [db EXCEPT !.logfile = vs.next, !.imm = db.mem, !.has_imm = TRUE, !.mem = {}]
  /\ UNCHANGED <<tables, manifests, current, temps, pc, op, bg, job, ghost>>

\* What ldb_open would recover from the files given.
Recovers(ts, ls, recs) ==
  (UNION {ts[t].ents : t \in LiveOf(recs)}) \cup
  (UNION {Ents(ls[l].recs) : l \in {n \in DOMAIN ls : n >= LastEdit(recs).log}})

Readable == db.mem \cup db.imm \cup UNION {tables[t].ents : t \in vs.live}

\* ldb_backup_inner: what a copy with these logs recovers; live tables are linked, the
\* manifests and CURRENT copied.
Copied(ls) == Recovers(Restrict(tables, DOMAIN tables \cap vs.live), ls, manifests[current].recs)

\* What the copy should recover: with a manifest or writes behind torn bytes it
\* has the fate of the original.
Backed == IF Mixed THEN {} ELSE Readable \ Doubtful

\* Mutant: the log in use is not copied.
BackupMutant ==
  /\ pc = "open" /\ bg = "idle" /\ ~db.has_imm /\ ~db.err
  /\ bak' = Backed \ Copied(Drop(logs, {db.logfile}))
  /\ UNCHANGED <<disk, pc, op, vs, db, bg, job, acked, synced, written, doubt, spent>>

\* ldb_backup: with the mutex held, no job scheduled and no error.
Backup ==
  /\ pc = "open" /\ bg = "idle" /\ ~db.has_imm /\ ~db.err
  /\ bak' = Backed \ Copied(logs)
  /\ UNCHANGED <<disk, pc, op, vs, db, bg, job, acked, synced, written, doubt, spent>>

\* ldb_close, ldb_destroy_internal: no new jobs, wait for the one that runs.
CloseStart ==
  /\ pc = "open" /\ spent.crashes < MaxCrashes
  /\ spent' = [spent EXCEPT !.crashes = @ + 1]
  /\ pc' = "closing"
  /\ UNCHANGED <<disk, op, vs, db, bg, job, acked, synced, written, doubt, bak>>

CloseEnds ==
  /\ pc = "closing" /\ bg = "idle"
  /\ pc' = "down" /\ vs' = NoVersions /\ db' = NoDb
  /\ UNCHANGED <<disk, op, bg, job, ghost>>

----------------------------------------------------------------------------
(* The background thread.  The mutex is released while a table is built,   *)
(* while the manifest is written and while files are removed.              *)

BgUnchanged == UNCHANGED <<pc, op, acked, synced, written, doubt, bak>>

\* ldb_compact_memtable, ldb_write_level0_table: a number for the table.
FlushStart ==
  /\ pc = "open" /\ bg = "idle" /\ db.has_imm /\ ~db.err /\ vs.next < MaxNumber
  /\ job' = [NoJob EXCEPT !.kind = "flush", !.out = vs.next]
  /\ vs' = [vs EXCEPT !.next = @ + 1]
  /\ db' = [db EXCEPT !.pending = @ \cup {vs.next}]
  /\ bg' = "build"
  /\ BgUnchanged /\ UNCHANGED <<disk, spent>>

\* ldb_do_compaction_work flushes the immutable memtable between two keys, whatever
\* db->bg_error says, and again at the next key if that failed.
InnerFlush ==
  /\ pc = "open" /\ bg = "build" /\ job.kind = "compact" /\ db.has_imm /\ vs.next <= MaxNumber
  /\ job' = [NoJob EXCEPT !.kind = "flush", !.out = vs.next, !.outer = <<job>>]
  /\ vs' = [vs EXCEPT !.next = @ + 1]
  /\ db' = [db EXCEPT !.pending = @ \cup {vs.next}]
  /\ BgUnchanged /\ UNCHANGED <<disk, bg, spent>>

\* A flush ends, and the compaction it was part of goes on; or the job ends.
JobEnds ==
  IF job.outer = <<>> THEN bg' = "idle" /\ job' = NoJob
  ELSE bg' = "build" /\ job' = job.outer[1]

\* A compaction of some tables into a new one (which ones: Lsm), whose file is
\* begun.
CompactStart(ins) ==
  /\ pc = "open" /\ bg = "idle" /\ ~db.has_imm /\ ~db.err /\ vs.next < MaxNumber
  /\ spent.compactions < MaxCompactions
  /\ spent' = [spent EXCEPT !.compactions = @ + 1]
  /\ job' = [NoJob EXCEPT !.kind = "compact", !.out = vs.next, !.ins = ins]
  /\ vs' = [vs EXCEPT !.next = @ + 1]
  /\ db' = [db EXCEPT !.pending = @ \cup {vs.next}]
  /\ tables' = Put(tables, vs.next, [ents |-> {}, whole |-> FALSE])
  /\ bg' = "build"
  /\ BgUnchanged /\ UNCHANGED <<logs, manifests, current, temps, torn>>

\* A trivial move: the same file is deleted at one level and added at the next.
MoveStart(t) ==
  /\ pc = "open" /\ bg = "idle" /\ ~db.has_imm /\ ~db.err
  /\ spent.compactions < MaxCompactions
  /\ spent' = [spent EXCEPT !.compactions = @ + 1]
  /\ job' = [NoJob EXCEPT !.kind = "move", !.ins = {t},
               !.edit = FillEdit([NoEdit EXCEPT !.adds = {t}, !.dels = {t}], vs.log)]
  /\ bg' = "apply"
  /\ BgUnchanged /\ UNCHANGED <<disk, vs, db>>

Output ==
  IF job.kind = "flush" THEN db.imm ELSE UNION {tables[t].ents : t \in job.ins}

\* ldb_build_table and the output of a compaction: written, synced, closed, and
\* opened again to see whether it is there.  An empty memtable leaves no file.
BuildTable ==
  /\ bg = "build"
  /\ job.kind = "compact" => job.out \in DOMAIN tables
  /\ tables' = IF Output = {} THEN tables ELSE Put(tables, job.out, Table(Output))
  /\ bg' = "edit"
  /\ BgUnchanged /\ UNCHANGED <<logs, manifests, current, temps, torn, vs, db, job, spent>>

\* An error: ldb_build_table removes the file, the compaction's output stays.
BuildFails ==
  /\ bg = "build"
  /\ tables' = IF job.kind = "flush" THEN Drop(tables, {job.out}) ELSE tables
  /\ db' = [db EXCEPT !.err = TRUE, !.pending = @ \ {job.out}]
  /\ JobEnds
  /\ BgUnchanged /\ UNCHANGED <<logs, manifests, current, temps, torn, vs, spent>>

\* The edit gets its numbers with the mutex held (ldb_versions_apply); a flush
\* retires the logs before the one now written.
MakeEdit ==
  /\ bg = "edit" /\ pc = "open"
  /\ LET adds == {job.out} \cap DOMAIN tables
         edit == [NoEdit EXCEPT !.adds = adds, !.dels = job.ins]
     IN job' = [job EXCEPT !.edit =
                  FillEdit(edit, IF job.kind = "flush" THEN db.logfile ELSE vs.log)]
  /\ db' = IF job.kind = "flush" THEN [db EXCEPT !.pending = @ \ {job.out}] ELSE db
  /\ bg' = "apply"
  /\ BgUnchanged /\ UNCHANGED <<disk, vs, spent>>

\* The database is being closed: the table is built and goes unrecorded.
AbandonJob ==
  /\ bg = "edit" /\ pc = "closing"
  /\ db' = [db EXCEPT !.err = TRUE, !.pending = @ \ {job.out}]
  /\ JobEnds
  /\ BgUnchanged /\ UNCHANGED <<disk, vs, spent>>

LogEdit ==
  /\ bg = "apply"
  /\ manifests' = [manifests EXCEPT ![vs.desc] = Write(@, job.edit)]
  /\ bg' = "sync"
  /\ BgUnchanged /\ UNCHANGED <<tables, logs, current, temps, torn, vs, db, job, spent>>

SyncEdit ==
  /\ bg = "sync"
  /\ manifests' = [manifests EXCEPT ![vs.desc] = Whole(@)]
  /\ bg' = "install"
  /\ doubt' = Settled
  /\ UNCHANGED <<tables, logs, current, temps, torn, pc, op, vs, db, job, acked, synced, written,
                 bak, spent>>

\* The append or the sync fails; the record, or part of it, may be there or not.
LogEditFails ==
  /\ bg \in {"apply", "sync"}
  /\ torn' \in {torn, IF bg = "apply" THEN HalfEdit ELSE torn}
  /\ db' = [db EXCEPT !.err = TRUE, !.pending = @ \ {job.out}]
  /\ JobEnds
  /\ BgUnchanged /\ UNCHANGED <<tables, logs, manifests, current, temps, vs, spent>>

\* The new version is installed and the memtable released; a flush and a merge
\* look for obsolete files next, a move does not.
\* Mutant: a compaction releases the memtable as well.
BgInstallMutant ==
  /\ bg = "install"
  /\ vs' = Install(job.edit, vs.desc)
  /\ db' = [db EXCEPT !.pending = @ \ {job.out}, !.imm = {}, !.has_imm = FALSE]
  /\ bg' = IF job.kind = "move" THEN "idle" ELSE "clean"
  /\ job' = IF job.kind = "move" THEN NoJob ELSE job
  /\ BgUnchanged /\ UNCHANGED <<disk, spent>>

BgInstall ==
  /\ bg = "install"
  /\ vs' = Install(job.edit, vs.desc)
  /\ db' = [db EXCEPT !.pending = @ \ {job.out},
                      !.imm = IF job.kind = "flush" THEN {} ELSE @,
                      !.has_imm = IF job.kind = "flush" THEN FALSE ELSE @]
  /\ bg' = IF job.kind = "move" THEN "idle" ELSE "clean"
  /\ job' = IF job.kind = "move" THEN NoJob ELSE job
  /\ BgUnchanged /\ UNCHANGED <<disk, spent>>

BgClean ==
  /\ bg = "clean"
  /\ job' = [job EXCEPT !.kill = IF db.err THEN {} ELSE Obsolete]
  /\ bg' = "kill"
  /\ BgUnchanged /\ UNCHANGED <<disk, vs, db, spent>>

BgRemove ==
  /\ bg = "kill"
  /\ \E f \in job.kill : RemoveFiles({f}) /\ job' = [job EXCEPT !.kill = @ \ {f}]
  /\ BgUnchanged /\ UNCHANGED <<current, vs, db, bg, spent>>

BgEnds ==
  /\ bg = "kill" /\ job.kill = {}
  /\ JobEnds
  /\ BgUnchanged /\ UNCHANGED <<disk, vs, db, spent>>

----------------------------------------------------------------------------
(* ldb_repair, run on a database that is not open.                         *)

RepUnchanged == UNCHANGED <<vs, db, bg, job, acked, synced, written, bak>>

\* find_files: the numbers of manifests do not count.  The logs will be read.
RepairStart ==
  /\ pc = "down" /\ Files # {} /\ spent.repairs < MaxRepairs
  /\ spent' = [spent EXCEPT !.repairs = @ + 1]
  /\ doubt' = IF doubt = "lost" THEN "lost" ELSE "repair"
  /\ op' = [NoOp EXCEPT !.logs = DOMAIN logs, !.good = DOMAIN tables,
               !.mans = DOMAIN manifests,
               !.next = 1 + Max({0} \cup DOMAIN logs \cup DOMAIN tables \cup temps)]
  /\ \E c \in Losses("log", logs) :
       /\ logs' = ReadBack("log", logs, c)
       /\ torn' = TornEnds("log", logs, c) \cup {t \in torn : t[1] = "manifest"}
  /\ acked' = acked \ Doubtful /\ synced' = synced \ Doubtful
  /\ pc' = "rep_logs"
  /\ UNCHANGED <<tables, manifests, current, temps, vs, db, bg, job, written, bak>>

\* convert_log_to_table: logs in the order of the directory, each to a table.
RepairConvert(l) ==
  /\ pc = "rep_logs" /\ l \in op.logs /\ op.next < MaxNumber
  /\ LET ents == Ents(logs[l].recs)
     IN /\ tables' = IF ents = {} THEN tables ELSE Put(tables, op.next, Table(ents))
        /\ op' = [op EXCEPT !.logs = @ \ {l}, !.log = l, !.next = @ + 1,
                            !.good = IF ents = {} THEN @ ELSE @ \cup {op.next}]
  /\ pc' = "rep_arch"
  /\ UNCHANGED <<logs, manifests, current, temps, torn, doubt, spent>> /\ RepUnchanged

\* The log cannot be opened, or the table not be built: the error is ignored and
\* the log archived all the same.
RepairConvertFails(l) ==
  /\ pc = "rep_logs" /\ l \in op.logs /\ op.next < MaxNumber
  /\ op' \in {[op EXCEPT !.logs = @ \ {l}, !.log = l, !.next = n] : n \in {op.next, op.next + 1}}
  /\ doubt' = IF logs[l].recs = <<>> THEN doubt ELSE "lost"
  /\ pc' = "rep_arch"
  /\ UNCHANGED <<disk, spent>> /\ RepUnchanged

\* archive_file: out of the way, into dbname/lost.
RepairArchive ==
  /\ pc = "rep_arch"
  /\ logs' = Drop(logs, {op.log})
  /\ torn' = Untorn({<<"log", op.log>>})
  /\ pc' = "rep_logs"
  /\ UNCHANGED <<tables, manifests, current, temps, op, doubt, spent>> /\ RepUnchanged

\* repair_table: a table that cannot be read through is archived, and nothing of
\* the ones that a crash leaves can be copied.
Unreadable == {t \in op.good : ~tables[t].whole}

\* scan_table, extract_meta_data.
RepairScan ==
  /\ pc = "rep_logs" /\ op.logs = {}
  /\ tables' = Drop(tables, Unreadable)
  /\ LET good == op.good \ Unreadable
     IN op' = [op EXCEPT !.good = good,
                 !.max = Max({0} \cup {e.seq : e \in UNION {tables[t].ents : t \in good}})]
  /\ pc' = "rep_desc"
  /\ UNCHANGED <<logs, manifests, current, temps, torn, doubt, spent>> /\ RepUnchanged

\* write_descriptor: a temporary file, the old manifests archived one by one,
\* the rename to MANIFEST-000001 and then CURRENT.  Nothing syncs it.
RepairDescriptor ==
  /\ pc = "rep_desc"
  /\ temps' = temps \cup {1}
  /\ op' = [op EXCEPT !.names = 1, !.edit = [adds |-> op.good, dels |-> {}, log |-> 0,
                                            next |-> op.next, seq |-> op.max]]
  /\ pc' = "rep_mans"
  /\ UNCHANGED <<tables, logs, manifests, current, torn, doubt, spent>> /\ RepUnchanged

RepairDiscard(m) ==
  /\ pc = "rep_mans" /\ m \in op.mans
  /\ manifests' = Drop(manifests, {m})
  /\ torn' = Untorn({<<"manifest", m>>})
  /\ op' = [op EXCEPT !.mans = @ \ {m}]
  /\ UNCHANGED <<tables, logs, current, temps, pc, doubt, spent>> /\ RepUnchanged

RepairInstall ==
  /\ pc = "rep_mans" /\ op.mans = {}
  /\ manifests' = Put(manifests, 1, [recs |-> <<op.edit>>, synced |-> 0])
  /\ torn' = Untorn({<<"manifest", 1>>})
  /\ temps' = temps \ {1}
  /\ pc' = "rep_temp"
  /\ UNCHANGED <<tables, logs, current, op, doubt, spent>> /\ RepUnchanged

\* ldb_destroy: every file of the database goes, CURRENT included.
Destroy ==
  /\ pc = "down" /\ Files # {} /\ spent.repairs < MaxRepairs
  /\ spent' = [spent EXCEPT !.repairs = @ + 1]
  /\ RemoveFiles(Files) /\ current' = None
  /\ acked' = {} /\ synced' = {} /\ doubt' = "no"
  /\ UNCHANGED <<pc, op, vs, db, bg, job, written, bak>>

----------------------------------------------------------------------------
(* Crashes.                                                                *)

Gone == /\ pc' = "down" /\ op' = NoOp /\ vs' = NoVersions /\ db' = NoDb
        /\ bg' = "idle" /\ job' = NoJob

\* The process dies: what it wrote is with the operating system.
ProcessCrash ==
  /\ pc # "down" /\ spent.crashes < MaxCrashes
  /\ spent' = [spent EXCEPT !.crashes = @ + 1]
  /\ Gone
  /\ UNCHANGED <<disk, acked, synced, written, doubt, bak>>

\* The machine dies: of each file at least what was synced is left, and of the
\* record behind the last one that is left whole perhaps some bytes.
Cut(log, n) == [recs |-> SubSeq(log.recs, 1, n), synced |-> n]

Images(files) ==
  {[n \in DOMAIN files |-> Cut(files[n], len[n])] :
     len \in {f \in [DOMAIN files -> 0..Longest(files)] :
              \A n \in DOMAIN files : f[n] \in files[n].synced..Len(files[n].recs)}}

\* cut is what the crash made of files.
CutEnds(kind, files, cut) ==
  {<<kind, n, Len(cut[n].recs)>> :
     n \in {m \in DOMAIN files : \/ Len(cut[m].recs) < Len(files[m].recs)
                                \/ <<kind, m, Len(cut[m].recs)>> \in torn}}

StillTorn(kind, cut) ==
  {t \in torn : t[1] = kind /\ t[2] \in DOMAIN cut /\ t[3] < Len(cut[t[2]].recs)}

Unsynced == \/ \E n \in DOMAIN logs : logs[n].synced < Len(logs[n].recs)
            \/ \E n \in DOMAIN manifests : manifests[n].synced < Len(manifests[n].recs)

MachineCrash ==
  /\ Unsynced /\ spent.crashes < MaxCrashes
  /\ spent' = [spent EXCEPT !.crashes = @ + 1]
  /\ logs' \in Images(logs) /\ manifests' \in Images(manifests)
  /\ \E ends \in SUBSET (CutEnds("log", logs, logs') \cup CutEnds("manifest", manifests, manifests')) :
       torn' = StillTorn("log", logs') \cup StillTorn("manifest", manifests') \cup ends
  /\ acked' = synced
  /\ doubt' = CASE doubt = "reuse" -> "lost"
                [] doubt = "no" /\ current # None /\ manifests[current].synced = 0 -> "repair"
                [] OTHER -> doubt
  /\ Gone
  /\ UNCHANGED <<tables, current, temps, synced, written, bak>>

----------------------------------------------------------------------------
OpenStep ==
  \/ \E reuse \in ReuseLogs : OpenStart(reuse)
  \/ NewDb \/ WriteTemp \/ RenameTemp \/ RecoverFails
  \/ \E small \in BOOLEAN : VersionsRecover(small)
  \/ NextLog \/ ReplayAndKeep \/ ReplayEnds \/ RecoverEnds
  \/ \E n \in 1..MaxWrites : ReplayToTable(n)
  \/ OpenApply \/ OpenSync \/ OpenApplyFails \/ OpenInstall
  \/ OpenClean \/ OpenRemove \/ OpenEnds

UserStep ==
  \/ \E sync \in BOOLEAN : LdbWrite(sync)
  \/ WriteAppendFails \/ WriteSyncFails \/ SwitchMemtable \/ Backup \/ CloseStart \/ CloseEnds \/ Destroy

BgStep ==
  \/ FlushStart \/ InnerFlush \/ BuildTable \/ BuildFails \/ MakeEdit \/ AbandonJob
  \/ LogEdit \/ SyncEdit \/ LogEditFails \/ BgInstall \/ BgClean \/ BgRemove \/ BgEnds
  \/ \E ins \in (SUBSET vs.live) \ {{}} : CompactStart(ins)
  \/ \E t \in vs.live : MoveStart(t)

RepairStep ==
  \/ RepairStart \/ RepairArchive \/ RepairScan \/ RepairDescriptor \/ RepairInstall
  \/ \E l \in DOMAIN logs : RepairConvert(l) \/ RepairConvertFails(l)
  \/ \E m \in DOMAIN manifests : RepairDiscard(m)

Next == OpenStep \/ UserStep \/ BgStep \/ RepairStep \/ ProcessCrash \/ MachineCrash

Spec == Init /\ [][Next]_vars

----------------------------------------------------------------------------
\* Recoverable: whenever the database is not open, no repair was cut short or
\* dropped a log, and no record of the manifest in use is behind torn bytes,
\* CURRENT names a manifest ldb_open accepts, all tables that it lists are there
\* and whole, and what ldb_open then recovers includes every acknowledged write
\* a crash of the process leaves and every synced write in any case, but for
\* those appended to a log behind torn bytes.
Openable ==
  /\ current \in DOMAIN manifests
  /\ Numbered(manifests[current].recs) # {}
  /\ \A t \in LiveOf(manifests[current].recs) : t \in DOMAIN tables /\ tables[t].whole

Recoverable ==
  pc = "down" /\ doubt \in {"no", "reuse"} /\ ~Mixed =>
    IF current = None THEN acked \cup synced = {}
    ELSE /\ Openable
         /\ (acked \cup synced) \ Doubtful \subseteq
              Recovers(tables, logs, manifests[current].recs)

\* Served: while it is open, the database finds every acknowledged write in its
\* memtables or in a whole table of the current version, whatever the
\* background thread is doing and removing.
Served ==
  pc \in {"open", "closing"} /\ doubt \in {"no", "reuse"} =>
    /\ \A t \in vs.live : t \in DOMAIN tables /\ tables[t].whole
    /\ acked \cup synced \subseteq Readable

\* SequenceFresh: no sequence number is given out twice among the writes that
\* can be read, and the next one is above all of them, recovered ones included.
SequenceFresh ==
  pc \in {"open", "closing"} =>
    /\ \A e \in Readable : e.seq <= vs.seq
    /\ \A e, f \in Readable : e.seq = f.seq => e = f

\* NoLeaks: once ldb_open is done and the background thread rests without an
\* error, no table, log, manifest or temporary file is left that nothing needs
\* (a temporary file that happens to have the number of a live table stays).
NoLeaks ==
  pc = "open" /\ bg = "idle" /\ ~db.err =>
    /\ DOMAIN tables \subseteq vs.live /\ temps \subseteq vs.live
    /\ \A l \in DOMAIN logs : l >= vs.log
    /\ \A m \in DOMAIN manifests : m >= vs.manifest

\* SyncedOutlivesReuse: what options.h says of sync==1, that such a write is as
\* safe as a write() followed by an fsync(), also when a manifest is reused.
SyncedOutlivesReuse ==
  pc = "down" /\ current # None =>
    synced \subseteq Recovers(tables, logs, manifests[current].recs)

\* BackupComplete: a backup recovers every write that could be read when it was
\* made, but for those behind torn bytes, or all where the manifest has records there.
BackupComplete == bak = {}
=============================================================================
