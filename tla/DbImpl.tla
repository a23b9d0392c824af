------------------------------- MODULE DbImpl -------------------------------
(***************************************************************************)
(* engine/src/db_impl.c: the write queue with group commit, the memtable   *)
(* switch, point reads, manual compaction, and the one background job that *)
(* they all share db->mutex, bg_error and two condition variables with.    *)
(*                                                                         *)
(* An action is a stretch of code between two points where db->mutex is    *)
(* taken or released (or one system call outside it).  What a stretch      *)
(* leaves running while it still holds the mutex, the next one continues,  *)
(* and `mutex' says who that is.                                           *)
(*                                                                         *)
(* Data: a batch is a sequence of keys tagged with its caller, an entry is *)
(* the key, its sequence number and the caller (the value and the          *)
(* put/delete tag are a function of the sequence number).  Sizes are       *)
(* counted in entries.  The version is the set of entries in its files,    *)
(* the number of level-0 files and the number of compactions that deeper   *)
(* levels or exhausted seeks ask for; module Lsm models the files.  They   *)
(* count what this session adds to the files the database was opened with. *)
(***************************************************************************)
EXTENDS Integers, Sequences, FiniteSets

CONSTANTS
  Writers,      \* calls of ldb_write with a batch, one per element
  Compactors,   \* calls of ldb_compact, one per element
  Readers,      \* calls of ldb_get, one per element
  Keys,
  Batches,      \* the key sequences a writer may submit
  WriteBuffer,  \* options.write_buffer_size
  SmallBatch,   \* 128 << 10 of ldb_build_batch_group
  MaxBatch,     \* 1 << 20 of ldb_build_batch_group
  L0Trigger,    \* LDB_L0_COMPACTION_TRIGGER
  L0Slowdown,   \* LDB_L0_SLOWDOWN_WRITES_TRIGGER
  L0Stop,       \* LDB_L0_STOP_WRITES_TRIGGER
  MaxHot,       \* bound: pending compactions of deeper levels
  MaxLevels,    \* bound: levels one ldb_compact goes through
  MaxChunks,    \* bound: compactions one manual request is split into
  Faults        \* whether file operations may fail

VARIABLES
  mutex,            \* db->mutex: its holder between two actions, or "free"
  writers,          \* db->writers: the queue of waiting ldb_write calls
  waiter,           \* ldb_waiter_t of each call: batch, sync, done, status
  pc,               \* where each call of ldb_write / ldb_compact stands
  loc,              \* the locals of the call at the head of the queue
  tmp_batch,        \* db->tmp_batch
  last_sequence,    \* db->versions->last_sequence
  mem, imm,         \* db->mem and db->imm: memtable numbers, imm 0 for NULL
  tables, refs,     \* contents and reference count of each memtable
  log,              \* the entries in the current log file
  durable,          \* the entries a crash cannot lose
  disk,             \* the entries in the files of the current version
  l0,               \* ldb_versions_files(db->versions, 0)
  hot,              \* pending compactions of deeper levels or by seeks
  bg_error,         \* db->bg_error # LDB_OK
  scheduled,        \* db->background_compaction_scheduled
  jobs,             \* calls of ldb_background_call waiting in db->pool
  bg,               \* the background thread: pc, job, inputs, rc
  manual,           \* db->manual_compaction: its owner, or "none"
  request,          \* each ldb_manual_t (done, chunks left) and the levels left
                    \* to do; floor and flushed only record, for the properties,
                    \* last_sequence at the call and that the memtable wait passed
  shutting_down,    \* db->shutting_down
  closer,           \* where ldb_close stands
  read              \* each ldb_get: pc, key, snap, mem, imm, ver, result, miss

Clients == Writers \cup Compactors
clientVars == <<writers, waiter, pc, loc, tmp_batch>>
dataVars == <<last_sequence, mem, imm, tables, refs, log, durable, disk>>
verVars == <<l0, hot>>
bgVars == <<scheduled, jobs, bg, manual, request>>
endVars == <<shutting_down, closer>>
EngineFixed == UNCHANGED <<dataVars, verVars, bg_error, bgVars, endVars, read>>
vars == <<mutex, clientVars, dataVars, verVars, bg_error, bgVars, endVars, read>>

Entry == [key : Keys, seq : Nat, by : Writers]
Item == [key : Keys, by : Writers]
Tables == 1..(Cardinality(Clients) + 1)  \* each call switches at most once

ASSUME ClientsAssumption ==
  /\ Writers \cap Compactors = {}
  /\ IsFiniteSet(Clients)
  /\ {"free", "bg", "none"} \cap Clients = {}
ASSUME ReadersAssumption == IsFiniteSet(Readers)
ASSUME BatchesAssumption == Batches \subseteq Seq(Keys)
ASSUME NumbersAssumption ==
  /\ {WriteBuffer, SmallBatch, MaxBatch, MaxHot, MaxLevels, MaxChunks} \subseteq Nat
  /\ {L0Trigger, L0Slowdown, L0Stop} \subseteq Nat \ {0}
  /\ L0Trigger <= L0Stop
  /\ Faults \in BOOLEAN

(* Who may run: a thread that needs the mutex and one that still holds it. *)
Free == mutex = "free"
Holds(t) == mutex \in {"free", t}

(* The locals of ldb_write and ldb_make_room_for_write as a call starts.   *)
NewLoc(force) == [force |-> force, delay |-> ~force, n |-> 0, size |-> 0, tmp |-> FALSE,
                  base |-> 0, pos |-> 0, rc |-> "ok", syncerr |-> FALSE]

Init ==
  /\ mutex = "free"
  /\ writers = <<>>
  /\ waiter = [w \in Clients |-> [batch |-> <<>>, sync |-> FALSE, done |-> FALSE, status |-> "ok"]]
  /\ pc = [w \in Clients |-> "idle"]
  /\ loc = [w \in Clients |-> NewLoc(FALSE)]
  /\ tmp_batch = <<>>
  /\ last_sequence = 0
  /\ mem = 1 /\ imm = 0
  /\ tables = [t \in Tables |-> {}]
  /\ refs = [t \in Tables |-> IF t = 1 THEN 1 ELSE 0]
  /\ log = {} /\ durable = {} /\ disk = {}
  /\ l0 = 0 /\ hot = 0
  /\ bg_error = FALSE
  /\ scheduled = FALSE /\ jobs = 0
  /\ bg = [pc |-> "idle", job |-> "none", inputs |-> 0, rc |-> "ok"]
  /\ manual = "none"
  /\ request = [c \in Compactors |-> [done |-> FALSE, chunks |-> 0, levels |-> 0,
                                    floor |-> 0, flushed |-> FALSE]]
  /\ shutting_down = FALSE /\ closer = "open"
  /\ read = [r \in Readers |-> [pc |-> "idle", key |-> 0, snap |-> 0, mem |-> 0, imm |-> 0,
                                ver |-> {}, result |-> 0, miss |-> FALSE]]

-----------------------------------------------------------------------------
(* Condition variables and scheduling.                                     *)

(* Mutant: the broadcast is missing.                                       *)
WokenNot(f) == f

(* ldb_cond_broadcast on background_work_finished_signal: every call that  *)
(* waits on it goes back to its loop condition.                            *)
Woken(f) ==
  [w \in Clients |-> CASE f[w] = "roomwait"  -> "room"
                       [] f[w] = "immwait"   -> "immcheck"
                       [] f[w] = "rangewait" -> "range"
                       [] OTHER              -> f[w]]
WokenCloser == IF closer = "wait" THEN "check" ELSE closer

(* ldb_versions_needs_compaction.                                          *)
NeedsCompaction(l, h) == l >= L0Trigger \/ h > 0

(* Mutants: the flag is not looked at; the immutable memtable is forgotten.*)
ScheduleTwice(flag, im, man, l, h, err) ==
  /\ ~shutting_down /\ ~err
  /\ im # 0 \/ man # "none" \/ NeedsCompaction(l, h)
ScheduleNotImm(flag, im, man, l, h, err) ==
  /\ ~flag /\ ~shutting_down /\ ~err
  /\ man # "none" \/ NeedsCompaction(l, h)

(* The branches of ldb_maybe_schedule_compaction that start a job.         *)
ShouldSchedule(flag, im, man, l, h, err) ==
  /\ ~flag /\ ~shutting_down /\ ~err
  /\ im # 0 \/ man # "none" \/ NeedsCompaction(l, h)

(* ldb_maybe_schedule_compaction, with the values the caller leaves behind.*)
MaybeSchedule(flag, im, man, l, h, err) ==
  LET go == ShouldSchedule(flag, im, man, l, h, err)
  IN  /\ scheduled' = (flag \/ go)
      /\ jobs' = IF go THEN jobs + 1 ELSE jobs

(* Mutant: a later success overwrites the error.                           *)
OverwriteError(err) == bg_error' = err

(* ldb_record_background_error, when err; the broadcast is with the caller.*)
RecordBackgroundError(err) == bg_error' = (bg_error \/ err)

(* ldb_versions_finalize: a new version may ask for one more compaction.   *)
Warmer(h) == {x \in {h, h + 1} : x <= MaxHot}

-----------------------------------------------------------------------------
(* ldb_write.                                                              *)

IsNull(w) == w \in Compactors    \* the NULL batch of ldb_test_compact_memtable

(* Mutant: only the leader's own batch is logged.                          *)
ContentsOwn(w) == waiter[w].batch

(* The batch the leader logs: its own, or the group's in db->tmp_batch.    *)
Contents(w) == IF loc[w].tmp THEN tmp_batch ELSE waiter[w].batch
EntryAt(w, i) == [key |-> Contents(w)[i].key, seq |-> loc[w].base + i, by |-> Contents(w)[i].by]
Record(w) == {EntryAt(w, i) : i \in DOMAIN Contents(w)}

(* Mutant: the wait is dropped.                                            *)
NeverWaits(q, w) == FALSE

(* The loop condition of ldb_write, for a call no leader has finished yet. *)
MustWait(q, w) == q[1] # w

(* The call is queued; alone in the queue, it goes on without waiting.     *)
Enqueue(w, batch, sync) ==
  /\ Free
  /\ waiter' = [waiter EXCEPT ![w] =
                 [batch |-> batch, sync |-> sync, done |-> FALSE, status |-> "ok"]]
  /\ writers' = Append(writers, w)
  /\ loc' = [loc EXCEPT ![w] = NewLoc(IsNull(w))]
  /\ IF MustWait(Append(writers, w), w)
     THEN pc' = [pc EXCEPT ![w] = "cvwait"] /\ mutex' = "free"
     ELSE pc' = [pc EXCEPT ![w] = "room"] /\ mutex' = w

Write(w) ==
  /\ pc[w] = "idle"
  /\ ~shutting_down
  /\ \E b \in Batches, s \in BOOLEAN :
       Enqueue(w, [i \in DOMAIN b |-> [key |-> b[i], by |-> w]], s)
  /\ UNCHANGED tmp_batch /\ EngineFixed

(* What the caller does with the result: a writer returns, ldb_compact     *)
(* waits for the memtable only if the write went through.                  *)
AfterWrite(w, rc) == IF w \in Writers THEN "ret" ELSE IF rc = "ok" THEN "immcheck" ELSE "level"

(* Mutant: the new head of the queue is not notified.                      *)
NobodyNotified(rest) == {}

(* "Notify new head of write queue."                                       *)
Notified(rest) == IF rest = <<>> THEN {} ELSE {rest[1]}

(* The tail of ldb_write: the first n calls leave the queue, all but the   *)
(* leader w get its result and are signalled, and so is the new head; the  *)
(* leader's locals go out of scope.                                        *)
(* f is pc after any broadcast this stretch made before.                   *)
Dequeue(w, n, rc, f) ==
  LET rest == SubSeq(writers, n + 1, Len(writers))
      ready == {writers[i] : i \in 2..n}
  IN  /\ writers' = rest
      /\ waiter' = [x \in Clients |->
           IF x = w THEN [waiter[x] EXCEPT !.status = rc]
           ELSE IF x \in ready THEN [waiter[x] EXCEPT !.done = TRUE, !.status = rc]
           ELSE waiter[x]]
      /\ pc' = [x \in Clients |->
           IF x = w THEN AfterWrite(w, rc)
           ELSE IF f[x] = "cvwait" /\ x \in ready \cup Notified(rest) THEN "queue"
           ELSE f[x]]
      /\ loc' = [loc EXCEPT ![w] = NewLoc(FALSE)]
      /\ mutex' = "free"

(* Back from ldb_cond_wait(&w.cv): finished by a leader, or the new head.  *)
Wake(w) ==
  /\ pc[w] = "queue" /\ Free
  /\ \/ /\ waiter[w].done
        /\ pc' = [pc EXCEPT ![w] = AfterWrite(w, waiter[w].status)]
        /\ mutex' = "free"
     \/ /\ ~waiter[w].done /\ ~MustWait(writers, w)
        /\ pc' = [pc EXCEPT ![w] = "room"]
        /\ mutex' = w
  /\ UNCHANGED <<writers, waiter, loc, tmp_batch>> /\ EngineFixed

-----------------------------------------------------------------------------
(* ldb_make_room_for_write: one action per branch of its loop.             *)

InRoom(w) == pc[w] = "room" /\ Holds(w)
Delayed(w) == loc[w].delay /\ l0 >= L0Slowdown
HasRoom(w) == ~loc[w].force /\ Cardinality(tables[mem]) <= WriteBuffer

RoomError(w) ==
  /\ InRoom(w) /\ bg_error
  /\ Dequeue(w, 1, "err", pc)
  /\ UNCHANGED tmp_batch /\ EngineFixed

RoomDelay(w) ==
  /\ InRoom(w) /\ ~bg_error /\ Delayed(w)
  /\ pc' = [pc EXCEPT ![w] = "sleep"]
  /\ loc' = [loc EXCEPT ![w].delay = FALSE]
  /\ mutex' = "free"
  /\ UNCHANGED <<writers, waiter, tmp_batch>> /\ EngineFixed

SleepOver(w) ==
  /\ pc[w] = "sleep"
  /\ pc' = [pc EXCEPT ![w] = "room"]
  /\ UNCHANGED <<mutex, writers, waiter, loc, tmp_batch>> /\ EngineFixed

(* There is room.  The NULL batch is done; a writer starts its group.      *)
RoomOk(w) ==
  /\ InRoom(w) /\ ~bg_error /\ ~Delayed(w) /\ HasRoom(w)
  /\ IF IsNull(w)
     THEN Dequeue(w, 1, "ok", pc)
     ELSE /\ pc' = [pc EXCEPT ![w] = "group"]
          /\ loc' = [loc EXCEPT ![w].n = 1, ![w].size = Len(waiter[w].batch),
                                ![w].base = last_sequence]
          /\ mutex' = w
          /\ UNCHANGED <<writers, waiter>>
  /\ UNCHANGED tmp_batch /\ EngineFixed

RoomWait(w) ==
  /\ InRoom(w) /\ ~bg_error /\ ~Delayed(w) /\ ~HasRoom(w)
  /\ imm # 0 \/ l0 >= L0Stop
  /\ pc' = [pc EXCEPT ![w] = "roomwait"]
  /\ mutex' = "free"
  /\ UNCHANGED <<writers, waiter, loc, tmp_batch>> /\ EngineFixed

MustSwitch(w) == /\ InRoom(w) /\ ~bg_error /\ ~Delayed(w) /\ ~HasRoom(w)
                 /\ imm = 0 /\ l0 < L0Stop

(* Mutant: force stays set.                                                *)
StillForced(l) == l

(* "Do not force another compaction if have room."                         *)
NotForced(l) == [l EXCEPT !.force = FALSE]

(* A new log and memtable; the old ones become imm.  Closing the old log   *)
(* may fail (err), which stops all further writes.                         *)
SwitchMemtable(w, err) ==
  /\ MustSwitch(w)
  /\ err => Faults
  /\ imm' = mem /\ mem' = mem + 1
  /\ refs' = [refs EXCEPT ![mem + 1] = 1]
  /\ log' = {}
  /\ loc' = [loc EXCEPT ![w] = NotForced(@)]
  /\ RecordBackgroundError(err)
  /\ pc' = IF err THEN Woken(pc) ELSE pc
  /\ closer' = IF err THEN WokenCloser ELSE closer
  /\ MaybeSchedule(scheduled, mem, manual, l0, hot, err)
  /\ mutex' = w
  /\ UNCHANGED <<writers, waiter, tmp_batch, last_sequence, tables, durable, disk, verVars,
                 bg, manual, request, shutting_down, read>>

(* ldb_truncfile_create fails: this call and no other gets the error.      *)
SwitchFails(w) ==
  /\ MustSwitch(w) /\ Faults
  /\ Dequeue(w, 1, "err", pc)
  /\ UNCHANGED tmp_batch /\ EngineFixed

-----------------------------------------------------------------------------
(* ldb_build_batch_group: one action per iteration, the mutex held.        *)

MaxSize(w) == LET own == Len(waiter[w].batch)
              IN  IF own <= SmallBatch THEN own + SmallBatch ELSE MaxBatch

(* Mutant: a sync write joins a group that is not synced.                  *)
JoinsUnsynced(w, x) == ~IsNull(x) => loc[w].size + Len(waiter[x].batch) <= MaxSize(w)

Joins(w, x) ==
  /\ ~(waiter[x].sync /\ ~waiter[w].sync)
  /\ ~IsNull(x) => loc[w].size + Len(waiter[x].batch) <= MaxSize(w)

GroupJoin(w) ==
  /\ pc[w] = "group" /\ mutex = w
  /\ loc[w].n < Len(writers)
  /\ LET x == writers[loc[w].n + 1] IN
     /\ Joins(w, x)
     /\ IF IsNull(x)
        THEN /\ loc' = [loc EXCEPT ![w].n = @ + 1]
             /\ UNCHANGED tmp_batch
        ELSE /\ loc' = [loc EXCEPT ![w].n = @ + 1, ![w].tmp = TRUE,
                                   ![w].size = @ + Len(waiter[x].batch)]
             /\ tmp_batch' = (IF loc[w].tmp THEN tmp_batch ELSE tmp_batch \o waiter[w].batch)
                             \o waiter[x].batch
  /\ UNCHANGED <<mutex, writers, waiter, pc>> /\ EngineFixed

(* The group is complete: the mutex is released for the log and memtable.  *)
GroupReady(w) ==
  /\ pc[w] = "group" /\ mutex = w
  /\ loc[w].n < Len(writers) => ~Joins(w, writers[loc[w].n + 1])
  /\ pc' = [pc EXCEPT ![w] = "log"]
  /\ mutex' = "free"
  /\ UNCHANGED <<writers, waiter, loc, tmp_batch>> /\ EngineFixed

-----------------------------------------------------------------------------
(* ldb_write, outside the mutex: log, sync, memtable.                      *)

(* A failed append adds nothing here; the bytes it may leave in the file,  *)
(* behind which the next record goes, are LogFormat's and Recovery's.      *)
AddRecord(w) ==
  /\ pc[w] = "log"
  /\ \/ /\ log' = log \cup Record(w)
        /\ pc' = [pc EXCEPT ![w] = IF waiter[w].sync THEN "sync" ELSE "insert"]
        /\ UNCHANGED loc
     \/ /\ Faults
        /\ loc' = [loc EXCEPT ![w].rc = "err"]
        /\ pc' = [pc EXCEPT ![w] = "commit"]
        /\ UNCHANGED log
  /\ UNCHANGED <<mutex, writers, waiter, tmp_batch, last_sequence, mem, imm, tables, refs, durable,
                 disk, verVars, bg_error, bgVars, endVars, read>>

SyncLog(w) ==
  /\ pc[w] = "sync"
  /\ \/ /\ durable' = durable \cup log
        /\ pc' = [pc EXCEPT ![w] = "insert"]
        /\ UNCHANGED loc
     \/ /\ Faults
        /\ loc' = [loc EXCEPT ![w].rc = "err", ![w].syncerr = TRUE]
        /\ pc' = [pc EXCEPT ![w] = "commit"]
        /\ UNCHANGED durable
  /\ UNCHANGED <<mutex, writers, waiter, tmp_batch, last_sequence, mem, imm, tables, refs, log,
                 disk, verVars, bg_error, bgVars, endVars, read>>

(* ldb_batch_insert_into: one entry at a time, readers may run in between. *)
InsertInto(w) ==
  /\ pc[w] = "insert"
  /\ IF loc[w].pos < Len(Contents(w))
     THEN /\ tables' = [tables EXCEPT ![mem] = @ \cup {EntryAt(w, loc[w].pos + 1)}]
          /\ loc' = [loc EXCEPT ![w].pos = @ + 1]
          /\ UNCHANGED pc
     ELSE /\ pc' = [pc EXCEPT ![w] = "commit"]
          /\ UNCHANGED <<tables, loc>>
  /\ UNCHANGED <<mutex, writers, waiter, tmp_batch, last_sequence, mem, imm, refs, log, durable,
                 disk, verVars, bg_error, bgVars, endVars, read>>

(* The mutex is back: publish the sequence numbers, hand out the result.   *)
Commit(w) ==
  /\ pc[w] = "commit" /\ Free
  /\ LET bad == loc[w].syncerr /\ ~bg_error IN
     /\ RecordBackgroundError(loc[w].syncerr)
     /\ closer' = IF bad THEN WokenCloser ELSE closer
     /\ Dequeue(w, loc[w].n, loc[w].rc, IF bad THEN Woken(pc) ELSE pc)
  /\ tmp_batch' = IF loc[w].tmp THEN <<>> ELSE tmp_batch
  /\ last_sequence' = loc[w].base + Len(Contents(w))
  /\ UNCHANGED <<mem, imm, tables, refs, log, durable, disk, verVars, bgVars,
                 shutting_down, read>>

-----------------------------------------------------------------------------
(* ldb_compact: ldb_test_compact_memtable, then ldb_test_compact_range for *)
(* each level.                                                             *)

CompactBegin(c) ==
  /\ pc[c] = "idle" /\ ~shutting_down /\ Free
  /\ \E levels \in 1..MaxLevels :
       request' = [request EXCEPT ![c].levels = levels, ![c].floor = last_sequence]
  /\ pc' = [pc EXCEPT ![c] = "memtable"]
  /\ UNCHANGED <<mutex, writers, waiter, loc, tmp_batch, dataVars, verVars, bg_error, scheduled,
                 jobs, bg, manual, endVars, read>>

CompactMemtable(c) ==
  /\ pc[c] = "memtable"
  /\ Enqueue(c, <<>>, FALSE)
  /\ UNCHANGED tmp_batch /\ EngineFixed

(* The wait of ldb_test_compact_memtable.                                  *)
ImmCheck(c) ==
  /\ pc[c] = "immcheck" /\ Free
  /\ pc' = [pc EXCEPT ![c] = IF imm # 0 /\ ~bg_error THEN "immwait" ELSE "level"]
  /\ request' = [request EXCEPT ![c].flushed = (imm = 0)]
  /\ UNCHANGED <<mutex, writers, waiter, loc, tmp_batch, dataVars, verVars, bg_error, scheduled,
                 jobs, bg, manual, endVars, read>>

(* ldb_manual_init for the next level: its range may need several chunks.  *)
RangeBegin(c) ==
  /\ pc[c] = "level"
  /\ \E chunks \in 0..MaxChunks :
       request' = [request EXCEPT ![c].done = FALSE, ![c].chunks = chunks]
  /\ pc' = [pc EXCEPT ![c] = "range"]
  /\ UNCHANGED <<mutex, writers, waiter, loc, tmp_batch, dataVars, verVars, bg_error, scheduled,
                 jobs, bg, manual, endVars, read>>

(* The loop of ldb_test_compact_range: install the request, or wait.       *)
RangeWait(c) ==
  /\ pc[c] = "range" /\ Free
  /\ ~request[c].done /\ ~shutting_down /\ ~bg_error
  /\ IF manual = "none"
     THEN /\ manual' = c
          /\ MaybeSchedule(scheduled, imm, c, l0, hot, bg_error)
     ELSE UNCHANGED <<manual, scheduled, jobs>>
  /\ pc' = [pc EXCEPT ![c] = "rangewait"]
  /\ UNCHANGED <<mutex, writers, waiter, loc, tmp_batch, dataVars, verVars, bg_error, bg, request,
                 endVars, read>>

(* The loop is over: withdraw the request; next level, or return.          *)
RangeEnd(c) ==
  /\ pc[c] = "range" /\ Free
  /\ request[c].done \/ shutting_down \/ bg_error
  /\ manual' = IF manual = c THEN "none" ELSE manual
  /\ request' = [request EXCEPT ![c].levels = @ - 1]
  /\ pc' = [pc EXCEPT ![c] = IF request[c].levels > 1 THEN "level" ELSE "ret"]
  /\ UNCHANGED <<mutex, writers, waiter, loc, tmp_batch, dataVars, verVars, bg_error, scheduled,
                 jobs, bg, endVars, read>>

-----------------------------------------------------------------------------
(* ldb_get and ldb_snapshot.                                               *)

(* Mutant: the snapshot is not looked at.                                  *)
LookupLatest(S, k, s) ==
  LET hits == {e.seq : e \in {x \in S : x.key = k}}
  IN  IF hits = {} THEN 0
      ELSE CHOOSE n \in hits : \A m \in hits : m <= n

(* The newest entry of key k in S at sequence number s: its number, or 0.  *)
Lookup(S, k, s) ==
  LET hits == {e.seq : e \in {x \in S : x.key = k /\ x.seq <= s}}
  IN  IF hits = {} THEN 0
      ELSE CHOOSE n \in hits : \A m \in hits : m <= n

Snapshot(r) ==
  /\ read[r].pc = "idle" /\ ~shutting_down /\ Free
  /\ read' = [read EXCEPT ![r].pc = "pinned", ![r].snap = last_sequence]
  /\ UNCHANGED <<mutex, clientVars, dataVars, verVars, bg_error, bgVars, endVars>>

(* Mutant: the reader takes no reference.                                  *)
RefNothing(f, ts) == f

(* One more reference on the memtables a reader is about to use.           *)
RefTables(f, ts) == [t \in Tables |-> IF t \in ts THEN f[t] + 1 ELSE f[t]]
UnrefTables(f, ts) == [t \in Tables |-> IF t \in ts THEN f[t] - 1 ELSE f[t]]
(* A memtable whose last reference goes is freed.                          *)
FreeTables(f) == [t \in Tables |-> IF f[t] = 0 THEN {} ELSE tables[t]]

GetBegin(r) ==
  /\ read[r].pc \in {"idle", "pinned"} /\ ~shutting_down /\ Free
  /\ \E k \in Keys :
       read' = [read EXCEPT ![r].pc = "look", ![r].key = k,
                  ![r].snap = IF read[r].pc = "idle" THEN last_sequence ELSE @,
                  ![r].mem = mem, ![r].imm = imm, ![r].ver = disk]
  /\ refs' = RefTables(refs, {mem, imm} \ {0})
  /\ UNCHANGED <<mutex, clientVars, last_sequence, mem, imm, tables, log, durable, disk, verVars,
                 bg_error, bgVars, endVars>>

(* Outside the mutex: the first answer of the memtable, the immutable one  *)
(* and the version.  The three lookups are one step: the memtables and the *)
(* version are pinned, and what is added to a memtable between two of them *)
(* is newer than the snapshot.                                             *)
GetLook(r) ==
  /\ read[r].pc = "look"
  /\ LET g == read[r]
         a == Lookup(tables[g.mem], g.key, g.snap)
         b == IF g.imm = 0 THEN 0 ELSE Lookup(tables[g.imm], g.key, g.snap)
         c == Lookup(g.ver, g.key, g.snap)
     IN  read' = [read EXCEPT ![r].pc = "unref", ![r].miss = (a = 0 /\ b = 0),
                    ![r].result = IF a # 0 THEN a ELSE IF b # 0 THEN b ELSE c]
  /\ UNCHANGED <<mutex, clientVars, dataVars, verVars, bg_error, bgVars, endVars>>

(* ldb_version_update_stats may have found a file worth compacting.        *)
GetEnd(r) ==
  /\ read[r].pc = "unref" /\ Free
  /\ hot' \in IF read[r].miss THEN Warmer(hot) ELSE {hot}
  /\ IF hot' # hot THEN MaybeSchedule(scheduled, imm, manual, l0, hot', bg_error)
     ELSE UNCHANGED <<scheduled, jobs>>
  /\ refs' = UnrefTables(refs, {read[r].mem, read[r].imm} \ {0})
  /\ tables' = FreeTables(refs')
  /\ read' = [read EXCEPT ![r].pc = "done", ![r].mem = 0, ![r].imm = 0, ![r].ver = {}]
  /\ UNCHANGED <<mutex, clientVars, last_sequence, mem, imm, log, durable, disk, l0, bg_error, bg,
                 manual, request, endVars>>

-----------------------------------------------------------------------------
(* ldb_background_call and ldb_background_compaction.                      *)

BgFixed == UNCHANGED <<writers, waiter, loc, tmp_batch, last_sequence, mem, log, shutting_down, read>>

(* The error of a background job, when err, and the broadcasts.            *)
RecordError(err, wake) ==
  /\ RecordBackgroundError(err)
  /\ pc' = IF wake \/ (err /\ ~bg_error) THEN Woken(pc) ELSE pc
  /\ closer' = IF wake \/ (err /\ ~bg_error) THEN WokenCloser ELSE closer

(* The pool starts the job; nothing to do, or not any more.                *)
BgNothing ==
  /\ bg.pc = "idle" /\ jobs > 0 /\ Free
  /\ \/ shutting_down
     \/ bg_error
     \/ imm = 0 /\ manual = "none" /\ ~NeedsCompaction(l0, hot)
  /\ jobs' = jobs - 1
  /\ bg' = [bg EXCEPT !.pc = "end", !.job = "none"]
  /\ mutex' = "bg"
  /\ UNCHANGED <<pc, imm, tables, refs, durable, disk, verVars, bg_error, scheduled, manual, request, closer>>
  /\ BgFixed

BgMayWork == bg.pc = "idle" /\ jobs > 0 /\ Free /\ ~shutting_down /\ ~bg_error

(* ldb_compact_memtable up to the unlock in ldb_write_level0_table.        *)
BgFlush ==
  /\ BgMayWork /\ imm # 0
  /\ jobs' = jobs - 1
  /\ bg' = [bg EXCEPT !.pc = "build", !.job = "flush"]
  /\ UNCHANGED <<mutex, pc, imm, tables, refs, durable, disk, verVars, bg_error, scheduled, manual, request, closer>>
  /\ BgFixed

(* A manual request: nothing left in its range, or one chunk of it.        *)
BgManual ==
  /\ BgMayWork /\ imm = 0 /\ manual # "none"
  /\ jobs' = jobs - 1
  /\ IF request[manual].chunks = 0
     THEN /\ request' = [request EXCEPT ![manual].done = TRUE]
          /\ bg' = [bg EXCEPT !.pc = "post", !.job = "manual", !.rc = "ok"]
          /\ mutex' = "bg"
     ELSE /\ request' = [request EXCEPT ![manual].chunks = @ - 1]
          /\ \E k \in 0..l0 :
               bg' = [pc |-> "compact", job |-> "manual", inputs |-> k, rc |-> "ok"]
          /\ UNCHANGED mutex
  /\ UNCHANGED <<pc, imm, tables, refs, durable, disk, verVars, bg_error, scheduled, manual, closer>>
  /\ BgFixed

(* ldb_versions_pick_compaction: a real compaction or a trivial move.      *)
BgAuto ==
  /\ BgMayWork /\ imm = 0 /\ manual = "none"
  /\ jobs' = jobs - 1
  /\ \E next \in {"compact", "move"} :
       \/ /\ l0 >= L0Trigger
          /\ \E k \in 1..l0 :
               /\ next = "move" => k = 1
               /\ bg' = [pc |-> next, job |-> "l0", inputs |-> k, rc |-> "ok"]
       \/ /\ hot > 0
          /\ bg' = [pc |-> next, job |-> "deep", inputs |-> 0, rc |-> "ok"]
  /\ UNCHANGED <<mutex, pc, imm, tables, refs, durable, disk, verVars, bg_error, scheduled, manual, request, closer>>
  /\ BgFixed

(* ldb_do_compaction_work prefers the immutable memtable between two keys. *)
BgPrioritize ==
  /\ bg.pc = "compact" /\ Free /\ ~shutting_down /\ imm # 0
  /\ bg' = [bg EXCEPT !.pc = "build"]
  /\ UNCHANGED <<mutex, pc, imm, tables, refs, durable, disk, verVars, bg_error, scheduled, jobs, manual, request, closer>>
  /\ BgFixed

(* A failed flush: the error is recorded; inside a compaction the loop     *)
(* goes on after a broadcast, otherwise ldb_background_call ends.          *)
FlushFails ==
  /\ RecordError(TRUE, bg.job # "flush")
  /\ IF bg.job = "flush"
     THEN bg' = [bg EXCEPT !.pc = "end"] /\ mutex' = "bg"
     ELSE bg' = [bg EXCEPT !.pc = "compact"] /\ UNCHANGED mutex
  /\ UNCHANGED <<imm, tables, refs, durable, disk, verVars>>

(* The table is written and the mutex back; then ldb_versions_apply        *)
(* releases it again to write the MANIFEST.                                *)
BgBuilt(ok) ==
  /\ bg.pc = "build" /\ Free
  /\ ~ok => Faults
  /\ IF ok /\ ~shutting_down
     THEN /\ bg' = [bg EXCEPT !.pc = "apply"]
          /\ UNCHANGED <<mutex, pc, imm, tables, refs, durable, disk, verVars, bg_error, closer>>
     ELSE FlushFails
  /\ UNCHANGED <<scheduled, jobs, manual, request>>
  /\ BgFixed

(* The new version is current, imm is gone; ldb_remove_obsolete_files      *)
(* releases the mutex once more, unless there is an error.                 *)
BgApplied(ok) ==
  /\ bg.pc = "apply" /\ Free
  /\ ~ok => Faults
  /\ IF ok
     THEN /\ disk' = disk \cup tables[imm]
          /\ durable' = durable \cup tables[imm]
          /\ refs' = UnrefTables(refs, {imm})
          /\ tables' = FreeTables(refs')
          /\ imm' = 0
          /\ l0' \in {l0, l0 + 1} /\ hot' \in Warmer(hot)
          /\ bg' = [bg EXCEPT !.pc = "flushed"]
          /\ mutex' = IF bg_error THEN "bg" ELSE "free"
          /\ UNCHANGED <<pc, bg_error, closer>>
     ELSE FlushFails
  /\ UNCHANGED <<scheduled, jobs, manual, request>>
  /\ BgFixed

BgFlushed ==
  /\ bg.pc = "flushed" /\ Holds("bg")
  /\ IF bg.job = "flush"
     THEN /\ bg' = [bg EXCEPT !.pc = "end"]
          /\ mutex' = "bg"
          /\ UNCHANGED <<pc, bg_error, closer>>
     ELSE /\ bg' = [bg EXCEPT !.pc = "compact"]
          /\ RecordError(FALSE, TRUE)
          /\ mutex' = "free"
  /\ UNCHANGED <<imm, tables, refs, durable, disk, verVars, scheduled, jobs, manual, request>>
  /\ BgFixed

(* ldb_do_compaction_work after its loop, and ldb_background_compaction up *)
(* to the end of ldb_remove_obsolete_files, which keeps the mutex if there *)
(* is an error.                                                            *)
BgCompacted(ok) ==
  /\ bg.pc = "compact" /\ Free
  /\ ~ok => Faults
  /\ IF ok /\ ~shutting_down
     THEN /\ bg' = [bg EXCEPT !.pc = "install"]
          /\ UNCHANGED <<mutex, pc, bg_error, closer>>
     ELSE /\ bg' = [bg EXCEPT !.pc = "post", !.rc = "err"]
          /\ RecordError(TRUE, FALSE)
          /\ mutex' = "bg"
  /\ UNCHANGED <<imm, tables, refs, durable, disk, verVars, scheduled, jobs, manual, request>>
  /\ BgFixed

(* ldb_install_compaction_results, or the edit of a trivial move.          *)
BgInstalled(ok) ==
  /\ bg.pc \in {"install", "move"} /\ Free
  /\ ~ok => Faults
  /\ IF ok
     THEN /\ l0' = l0 - bg.inputs
          /\ hot' \in IF bg.job = "deep" THEN {hot - 1} ELSE Warmer(hot)
     ELSE UNCHANGED verVars
  /\ RecordError(~ok, FALSE)
  /\ bg' = [bg EXCEPT !.pc = "post", !.rc = IF ok THEN "ok" ELSE "err"]
  /\ mutex' = IF bg.pc = "move" \/ bg_error' THEN "bg" ELSE "free"
  /\ UNCHANGED <<imm, tables, refs, durable, disk, scheduled, jobs, manual, request>>
  /\ BgFixed

(* The end of ldb_background_compaction reads db->manual_compaction again: *)
(* NULL by now, it is dereferenced all the same, and the process dies with *)
(* the mutex held.                                                         *)
BgPost ==
  /\ bg.pc = "post" /\ Holds("bg")
  /\ IF bg.job # "manual"
     THEN bg' = [bg EXCEPT !.pc = "end"] /\ UNCHANGED <<manual, request>>
     ELSE IF manual = "none"
          THEN bg' = [bg EXCEPT !.pc = "crashed"] /\ UNCHANGED <<manual, request>>
          ELSE /\ request' = [request EXCEPT ![manual].done = @ \/ bg.rc = "err"]
               /\ manual' = "none"
               /\ bg' = [bg EXCEPT !.pc = "end"]
  /\ mutex' = "bg"
  /\ UNCHANGED <<clientVars, dataVars, verVars, bg_error, scheduled, jobs, shutting_down, closer, read>>

(* The end of ldb_background_call.                                         *)
BgEnd ==
  /\ bg.pc = "end" /\ Holds("bg")
  /\ bg' = [bg EXCEPT !.pc = "idle", !.job = "none", !.inputs = 0, !.rc = "ok"]
  /\ MaybeSchedule(FALSE, imm, manual, l0, hot, bg_error)
  /\ RecordError(FALSE, TRUE)
  /\ mutex' = "free"
  /\ UNCHANGED <<imm, tables, refs, durable, disk, verVars, manual, request>>
  /\ BgFixed

-----------------------------------------------------------------------------
(* ldb_close, called once no other call is under way.                      *)

Quiet == /\ \A w \in Clients : pc[w] \in {"idle", "ret"}
         /\ \A r \in Readers : read[r].pc \in {"idle", "done"}

Close ==
  /\ closer \in {"open", "check"} /\ Quiet /\ Free
  /\ shutting_down' = TRUE
  /\ closer' = IF scheduled THEN "wait" ELSE "closed"
  /\ UNCHANGED <<mutex, clientVars, dataVars, verVars, bg_error, bgVars, read>>

(* Nothing is left to do.                                                  *)
Closed == closer = "closed" /\ UNCHANGED vars

WriterStep(w) ==
  \/ Write(w) \/ Wake(w)
  \/ RoomError(w) \/ RoomDelay(w) \/ SleepOver(w) \/ RoomOk(w) \/ RoomWait(w)
  \/ (\E err \in BOOLEAN : SwitchMemtable(w, err)) \/ SwitchFails(w)
  \/ GroupJoin(w) \/ GroupReady(w)
  \/ AddRecord(w) \/ SyncLog(w) \/ InsertInto(w) \/ Commit(w)

CompactorStep(c) ==
  \/ CompactBegin(c) \/ CompactMemtable(c) \/ Wake(c)
  \/ RoomError(c) \/ RoomOk(c) \/ RoomWait(c)
  \/ (\E err \in BOOLEAN : SwitchMemtable(c, err)) \/ SwitchFails(c)
  \/ ImmCheck(c) \/ RangeBegin(c) \/ RangeWait(c) \/ RangeEnd(c)

ReaderStep(r) == Snapshot(r) \/ GetBegin(r) \/ GetLook(r) \/ GetEnd(r)

BgStep ==
  \/ BgNothing \/ BgFlush \/ BgManual \/ BgAuto \/ BgPrioritize
  \/ (\E ok \in BOOLEAN : BgBuilt(ok) \/ BgApplied(ok) \/ BgCompacted(ok) \/ BgInstalled(ok))
  \/ BgFlushed \/ BgPost \/ BgEnd

Next ==
  \/ \E w \in Writers : WriterStep(w)
  \/ \E c \in Compactors : CompactorStep(c)
  \/ \E r \in Readers : ReaderStep(r)
  \/ BgStep \/ Close \/ Closed

Spec == Init /\ [][Next]_vars

(* Every thread that can run is eventually run, and a compaction reads its *)
(* last input key after finitely many detours for the immutable memtable.  *)
Fairness ==
  /\ \A w \in Writers : WF_vars(WriterStep(w))
  /\ \A c \in Compactors : WF_vars(CompactorStep(c))
  /\ \A r \in Readers : WF_vars(ReaderStep(r))
  /\ WF_vars(BgStep)
  /\ SF_vars(\E ok \in BOOLEAN : BgCompacted(ok))
  /\ WF_vars(Close)

FairSpec == Spec /\ Fairness

-----------------------------------------------------------------------------
(* Properties.                                                             *)

Leading == {"room", "sleep", "roomwait", "group", "log", "sync", "insert", "commit"}
Queued == Leading \cup {"cvwait", "queue"}

Stages == Queued \cup {"idle", "ret", "memtable", "immcheck", "immwait", "level", "range", "rangewait"}

Waiters == [batch : Seq(Item), sync : BOOLEAN, done : BOOLEAN, status : {"ok", "err"}]
Locals == [force : BOOLEAN, delay : BOOLEAN, n : Nat, size : Nat, tmp : BOOLEAN, base : Nat,
           pos : Nat, rc : {"ok", "err"}, syncerr : BOOLEAN]
Requests == [done : BOOLEAN, chunks : Nat, levels : Nat, floor : Nat, flushed : BOOLEAN]
Reads == [pc : {"idle", "pinned", "look", "unref", "done"}, key : Keys \cup {0}, snap : Nat,
          mem : Tables \cup {0}, imm : Tables \cup {0}, ver : SUBSET Entry, result : Nat, miss : BOOLEAN]
BgStates == [pc : {"idle", "build", "apply", "flushed", "compact", "install", "move", "post", "end", "crashed"},
             job : {"none", "flush", "manual", "l0", "deep"}, inputs : Nat, rc : {"ok", "err"}]

ClientsType ==
  /\ mutex \in Clients \cup {"free", "bg"}
  /\ writers \in Seq(Clients)
  /\ waiter \in [Clients -> Waiters]
  /\ pc \in [Clients -> Stages]
  /\ loc \in [Clients -> Locals]
  /\ tmp_batch \in Seq(Item)
  /\ last_sequence \in Nat
DataType ==
  /\ mem \in Tables /\ imm \in Tables \cup {0}
  /\ tables \in [Tables -> SUBSET Entry] /\ refs \in [Tables -> Int]
  /\ log \subseteq Entry /\ durable \subseteq Entry /\ disk \subseteq Entry
  /\ read \in [Readers -> Reads]
BgType ==
  /\ l0 \in Nat /\ hot \in Nat
  /\ bg_error \in BOOLEAN /\ scheduled \in BOOLEAN /\ jobs \in Nat
  /\ bg \in BgStates
  /\ manual \in Compactors \cup {"none"}
  /\ request \in [Compactors -> Requests]
  /\ shutting_down \in BOOLEAN
  /\ closer \in {"open", "wait", "check", "closed"}

(* Every variable keeps its type; in particular no call switches memtables *)
(* twice (mem \in Tables), and a compaction removes no level-0 file that   *)
(* the version does not have (l0 \in Nat).                                 *)
TypeOK == ClientsType /\ DataType /\ BgType

(* "&w is currently responsible for logging and protects against           *)
(* concurrent loggers and concurrent writes into db->mem": whoever is past *)
(* the wait in ldb_write is the head of the queue, so there is one such    *)
(* call, and tmp_batch is empty whenever no group uses it (the assertion   *)
(* in ldb_build_batch_group).                                              *)
OneLeader ==
  /\ \A w \in Clients : pc[w] \in Leading => Len(writers) > 0 /\ writers[1] = w
  /\ tmp_batch # <<>> => \E w \in Clients : pc[w] \in Leading /\ loc[w].tmp

(* "Notify new head of write queue": the call at the head is never left    *)
(* asleep on its own condition variable, which nobody would signal again.  *)
HeadAwake == writers # <<>> => pc[writers[1]] # "cvwait"

Visible == {e \in disk \cup tables[mem] \cup (IF imm = 0 THEN {} ELSE tables[imm]) :
              e.seq <= last_sequence}
OwnBatch(w) == {e \in Visible : e.by = w}

(* A call of ldb_write that returned OK has every entry of its batch       *)
(* visible to the next reader, in whichever group it was committed; one    *)
(* that returned an error has none.                                        *)
ResultsHonest ==
  \A w \in Writers : pc[w] = "ret" =>
    Cardinality(OwnBatch(w)) = IF waiter[w].status = "ok" THEN Len(waiter[w].batch) ELSE 0

(* A sync write that returned OK survives a crash: its group's log record  *)
(* was synced, or its memtable has reached a table.                        *)
SyncedIsDurable ==
  \A w \in Writers : (pc[w] = "ret" /\ waiter[w].status = "ok" /\ waiter[w].sync) =>
    OwnBatch(w) \subseteq durable

(* At most one background job is queued or running, and the flag says so:  *)
(* the assertion in ldb_background_call, and what versions, imm and        *)
(* pending_outputs rely on.  Once closed there is none.                    *)
OneBackgroundJob ==
  /\ jobs + (IF bg.pc = "idle" THEN 0 ELSE 1) = (IF scheduled THEN 1 ELSE 0)
  /\ closer = "closed" => ~scheduled

(* No work is forgotten: an immutable memtable, a manual request or a      *)
(* version that needs compaction has a background job whose end will wake  *)
(* the calls that wait for it, until an error or ldb_close stops it all.   *)
WorkIsScheduled ==
  (/\ ~bg_error /\ ~shutting_down
   /\ imm # 0 \/ manual # "none" \/ NeedsCompaction(l0, hot)) => scheduled

(* The memtables a reader holds, and the two the database uses, are not    *)
(* freed under it.                                                         *)
TablesPinned ==
  /\ \A t \in {mem, imm} \ {0} : refs[t] > 0
  /\ \A r \in Readers : \A t \in {read[r].mem, read[r].imm} \ {0} : refs[t] > 0

(* A background error is never cleared, and from then on last_sequence     *)
(* only moves for the group already past ldb_make_room_for_write.          *)
ErrorIsSticky ==
  [][bg_error => /\ bg_error'
                 /\ ~(\E w \in Clients : pc[w] = "room" /\ pc'[w] = "group")]_vars

(* What a reader of the abstract store is doing.                           *)
StageOf(p) == CASE p = "look" -> "reading"
                [] p \in {"unref", "done"} -> "answered"
                [] OTHER -> p
Reading == [r \in Readers |-> [stage |-> StageOf(read[r].pc), key |-> read[r].key,
                               snap |-> read[r].snap, result |-> read[r].result]]
Store == INSTANCE KvStore WITH store <- Visible, clock <- last_sequence, reading <- Reading

(* The engine implements the abstract store: a group becomes visible in    *)
(* one step, and a read is answered from its snapshot although memtables,  *)
(* versions and inserts move under it while the mutex is released.         *)
StoreSpec == Store!Spec

(* Every call of ldb_write, ldb_compact and ldb_get returns, and so does   *)
(* ldb_close: no wakeup is lost on either condition variable.              *)
CallsReturn ==
  /\ \A w \in Clients : pc[w] # "idle" ~> pc[w] = "ret"
  /\ \A r \in Readers : read[r].pc = "look" ~> read[r].pc = "done"
  /\ closer = "wait" ~> closer = "closed"

(* "Running either my compaction or another compaction": while a manual    *)
(* compaction runs, the request it will report to is still installed.      *)
ManualStillInstalled == bg.pc # "crashed"

(* "Force current memtable contents to be compacted": when                 *)
(* ldb_test_compact_memtable has returned OK, nothing written before the   *)
(* call is left in a memtable.                                             *)
MemtableCompacted ==
  \A c \in Compactors : request[c].flushed =>
    \A e \in tables[mem] \cup (IF imm = 0 THEN {} ELSE tables[imm]) : e.seq > request[c].floor
=============================================================================
