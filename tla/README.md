# A TLA+ model of kedis

kedis is a key-value server in C: an RPC layer on UCX (`src/rpc`), a library of
containers and utilities (`src/stl`), and the storage engine `lcdb`, a LevelDB
in C (`src/engine`). Nearly all of the state, the concurrency and the promises
to a user are in the engine, so the models start there; the parts around it
have modules of their own.

Contents: [parts of the system](#1-parts-of-the-system),
[modules](#2-modules-and-the-code-they-model), [runs](#3-runs),
[bounds](#4-bounds-and-why-they-are-enough), [fairness](#5-fairness),
[proofs](#6-proofs), [disagreements found](#7-where-code-and-comments-disagree),
[not modelled](#8-what-is-not-modelled), [plan](#9-plan).

## 1. Parts of the system

| Part | State it keeps | Operations | Talks to |
| --- | --- | --- | --- |
| `db_impl.c` | write queue, `mem`/`imm`, current log, `bg_error`, `background_compaction_scheduled`, `manual_compaction`, `snapshots`, `pending_outputs`, one mutex, one condition variable for background work and one per queued write | `ldb_write`, `ldb_get`, `ldb_snapshot`/`release`, `ldb_compact`, `ldb_backup`, `ldb_open`, `ldb_close`, the background job | version set, memtable, log writer, thread pool, table cache |
| `version_set.c` | list of versions with their files per level, `compact_pointer`, file numbers, MANIFEST | lookup through the levels, choice of flush level and compaction inputs, `ldb_versions_apply`, recovery | table cache, log writer/reader |
| `log_writer.c`, `log_reader.c` | block offset; resynchronisation state | append, read with torn tails | environment |
| `memtable.c`, `skiplist.c` | sorted entries, reference count | insert under the queue's protection, read without a lock | |
| `table/`, `builder.c`, `table_cache.c`, `util/cache.c` | tables on disk; open tables and blocks with reference counts and an LRU list | build, seek, get, evict | environment |
| `db_iter.c`, `table/merger.c`, `two_level_iterator.c` | direction, saved key | next, prev, seek in both directions | memtable, tables |
| `util/thread_pool.c`, `util/port_*_impl.h` | queue of jobs, `running`, `left`, `stop`; mutexes and condition variables | schedule, wait, destroy | |
| `repair.c` | files found | rebuild a MANIFEST | log reader, tables |
| `util/env_*_impl.h` | open files with their buffers, limiters for descriptors and mappings, the set of locked files | append, sync, read, remove, rename, link, lock | operating system |
| `util/rbt.c`, `coding.h`, `write_batch.c`, `version_edit.c`, `table/format.c`, `snappy.c` | ordered maps; encodings | put, delete, iterate; write and read back | |
| `rpc/` | accepted connections, per-thread queue, semaphore and connection cache | accept callback, dispatcher, workers, client | UCX, `stl` |
| `stl/` | queue, array, heap, list, ring buffer, dictionary, set, trie, Bloom filter; threads, condition, timer wheel; text, hash and file helpers | | |

What is hard in them, with the lines where it bites, is the list `hazards` in
`PROJECT.json`. In short: `ldb_write` gives up the mutex while it logs and
inserts, protected only by its place in the queue; one background job serves
flushes, compactions and manual requests, and whoever brings work must not
lose it nor start a second job; an error in any of them has to stop the rest
and wake everybody who waits; readers hold memtables and versions that the
others replace; a compaction works on a version that is no longer current when
it installs its result; and a crash may come between any two file operations of
all of this.

What makes the parts correct: writes are atomic, ordered, and durable when a
sync write returns; reads are answered from one moment; the levels keep the
order that lookups rely on; nobody waits for ever.

## 2. Modules and the code they model

| Module | Models | Kind |
| --- | --- | --- |
| `KvStore` | what the engine promises its clients: groups of updates become visible in one step, reads are answered at their sequence number | abstract specification |
| `DbImpl` | `db_impl.c`: queue and group commit, making room, log and memtable, point reads, manual compaction, background job, close | specification, properties, mutants |
| `MCDbImpl` | the keys and batches of its runs | TLC |
| `Lsm` | `version_set.c` and the compaction half of `db_impl.c`: level of a flush, choice of inputs, dropped entries, lookup | specification, properties, mutants |
| `MCLsm` | its runs | TLC |
| `DbThreadProofs` | the write queue, the background job and the error state for any number of callers; the type invariant of `DbImpl` | proofs |
| `DbStoreProofs` | memtable references; `DbImpl` implements `KvStore` | proofs |
| `DbResultProofs` | what `ldb_write` returns is true | proofs |
| `LsmProofs` | levels, layers and reads of `Lsm` | proofs |
| `MemtableProofs` | readers of the skiplist beside its writer | proofs |
| `PartsProofs` | `FileLocks`, `ThreadPool`, `Environment` and `Rpc` for any number of threads, names, readers and clients | proofs |
| `RecoveryInv` | the inductive invariant of `Recovery`; the steps of `ldb_open` | proofs |
| `RecoveryProofs` | its other steps: the open database, the background thread, `ldb_repair`, crashes; what follows; obsolete files and sequence numbers | proofs |
| `Recovery` | files on disk and crashes: `ldb_open`, `ldb_recover`, `ldb_versions_recover`, `ldb_versions_apply`, `ldb_remove_obsolete_files`, backup, `repair.c` | specification, properties, mutants |
| `LogFormat` | `log_writer.c`, `log_reader.c` | part |
| `Memtable` | `memtable.c`, `skiplist.c` | part |
| `ThreadPool` | `util/thread_pool.c`, the conditions of both ports | part |
| `LruCache` | `util/cache.c`, `table_cache.c` | part |
| `Iterators` | `db_iter.c`, `table/merger.c`, `table/two_level_iterator.c`, `table/iterator.c` | part |
| `Tables` | `table/` builders and readers, `util/bloom.c`, key shortening | part |
| `Environment` | `util/env.c`, `util/env_unix_impl.h`, `util/env_win_impl.h`, `util/env_mem_impl.h` | part |
| `FileLocks` | the LOCK file in the same three | part |
| `RbTree` | `util/rbt.c` | part |
| `Codec` | `coding.h`, `slice.c`, `dbformat.c`, `write_batch.c`, `version_edit.c`, `table/format.c`, `snappy.c`, `stl_base64.c` | part |
| `StlContainers` | the nine containers of `src/stl` | part |
| `StlThreads` | `stl_thread.c`, `stl_cond.c`, `stl_timer.c` | part |
| `Rpc` | `rpc_server.c`, `rpc_client.c` and what they share | part |
| `MCParts` | all parts side by side | TLC |
| `MCLog` | `LogFormat` alone | TLC |

A *part* is a module with its own variables, initial predicate and next-state
relation (`LogInit`, `LogNext`, ...), its property and its mutant. Parts share
no state, so `MCParts` puts them next to each other: a first step chooses one
and then only that one moves. Where two modules model the two sides of one
interface, the side that is not in question is what the other shows it to be:
`DbImpl` uses the pool as a counter of jobs, and `ThreadPool` shows that every
job scheduled is run once and waited for; `Recovery` takes a torn record at the
end of a file for no record, as `LogFormat` shows of the reader, and keeps the
torn bytes in the file, since records may be appended behind them; `DbImpl` and
`Lsm` take a memtable for a set of entries that can be searched at any time,
and `Memtable` shows that a search beside an insert finds what was there.

Operators whose comment starts with *Mutant:* are wrong on purpose: each is the
version of the definition after it that a plausible slip in the code would
give, and shows that a property can tell the two apart.

### DbImpl

An action is a stretch of code between two points where `db->mutex` is taken
or released, or one system call outside it. `mutex` names the thread that
still holds it when the next action continues the same critical section;
`pc[w]` is the place of a call of `ldb_write` or `ldb_compact`:

- `idle`, `ret`: not called, returned;
- `cvwait`, `queue`: asleep on its own condition variable, woken;
- `room`, `sleep`, `roomwait`: the loop of `ldb_make_room_for_write`, its one
  millisecond delay, its wait for the background job;
- `group`: `ldb_build_batch_group`, an iteration per action;
- `log`, `sync`, `insert`, `commit`: outside the mutex, and the end of the call;
- `memtable`, `immcheck`, `immwait`: `ldb_test_compact_memtable`;
- `level`, `range`, `rangewait`: `ldb_test_compact_range`, once per level.

`bg.pc` is the place of the background thread: `build`, `apply`, `flushed` are
`ldb_compact_memtable` (also when `ldb_do_compaction_work` calls it between two
keys), `compact`, `install` and `move` a compaction or a trivial move, `post`
the end of `ldb_background_compaction`, `end` that of `ldb_background_call`.
`crashed` is the use of a NULL `db->manual_compaction`.

File operations fail nondeterministically when `Faults` is TRUE: creating and
closing a log, appending to it, syncing it, building a table, writing the
MANIFEST, compacting. Data is abstracted: a batch is a sequence of keys, an
entry a key with its sequence number and its writer, sizes are numbers of
entries. The version is the set of its entries, the number of level-0 files,
and `hot`, the number of pending compactions that deeper levels or exhausted
seeks ask for. `durable` is what a crash cannot lose: synced log records and
flushed memtables. A lookup takes its memtables and version in one action and
probes them in another: they are pinned, and what is added to them meanwhile is
above its sequence number, so that probing one after the other is the same. A
failed append leaves `log` as it was; what bytes of it do to later records is in
`LogFormat` and `Recovery`. In `request`, the fields `floor` and `flushed` only record
facts for a property.

### Lsm

A version maps each level to its set of files; a file has its number, entries
and first and last internal key, ordered as `ldb_ikc_compare` orders them.
A flush and a trivial move are one action. A real compaction is two: the choice
of inputs, with the version and the oldest snapshot it will use, and the
installation, so that writes, snapshots and the flush of an immutable memtable
(`ldb_do_compaction_work` calls `ldb_compact_memtable` in its loop) happen in
between on the current version. The helpers follow the C functions one by one:
`OverlappingInputs`, `AddBoundaryInputs`, `SetupOtherInputs`, `PickLevel`,
`PickCompaction`, `PickRange`, `IsBaseLevelForKey`, `Dropped`. Outputs are cut
anywhere, since the code cuts by bytes. Seeks are charged by lookups
(`ChargeSeek`) and by the samples of an iterator (`RecordReadSample`). `history` keeps every update ever
written: the reference that lookups are compared with.

### Recovery

The disk is `tables`, `logs`, `manifests`, `current` and `temps`. A log or a
manifest is a sequence of records of which the first `synced` survive a crash of
the machine (`MachineCrash` keeps any prefix at least that long); a crash of the
process keeps everything.

`torn` says behind how many records of a file bytes of an unfinished one lie: a
machine crash may leave some, and an append that fails half way
(`WriteAppendFails`, `LogEditFails`, `OpenApplyFails`; followed by `ProcessCrash`
also a process that dies in the middle of one). At the end of a file they are
harmless. But `ldb_recover_log_file` opens a reused log at its full size
(`db_impl.c:931-934`), `ldb_versions_reuse_manifest` does so with a MANIFEST
(`version_set.c:1431`), and after a failed append the same file is written on
(`db_impl.c:2243`, `1341`). Of records behind torn bytes a reader may lose a
stretch: those in the block it drops, or all if the torn header asks for more
than there is. `OpenStart` and `RepairStart` choose how many when the files are
next read (`Losses`, `ReadBack`), and a MANIFEST with such records may also be
refused as corrupt.

`pc` walks the opening thread through
`ldb_recover`, the replay of each log (into a table, or into a memtable that is
kept when the log is reused), `ldb_versions_apply` with its new MANIFEST and the
rename behind CURRENT, and `ldb_remove_obsolete_files`, which decides with the
mutex held and unlinks without it; `bg` and `job` walk the background thread
through flushes, compactions and moves in the same steps. A flush in the middle
of a compaction (`InnerFlush`) keeps the compaction in `job.outer`; it happens
also after an error, as in `ldb_do_compaction_work`. Each table
build, log append, MANIFEST record and sync may fail. `ldb_repair` is a third walk
over the same files; a log that it fails to convert is archived all the same
(`RepairConvertFails`). Which keys a table holds, and at which level, is in `Lsm`: here an
entry is the number of a write and its sequence number.

`acked` and `synced` are what a user was promised. `Doubtful` are the writes that
stand in a log behind torn bytes: nothing is promised of them from the moment
the log is read again (`log_damage` shows why), and of all others
everything. `Mixed` says the same of the MANIFEST in use as a whole. `doubt` says
when all promises are known to be void: `repair` from the start of a repair until
CURRENT names its result, which is not synced; `reuse` while a reused MANIFEST
ends in an unsynced record; `lost` once a machine crash, or an `ldb_open` in the
middle of a repair, came in such a moment, a mixed MANIFEST was opened, or a
repair dropped a log that had records. `reuse_manifest` shows that `reuse` is needed.

Assumed of the file system: operations on a directory take effect in the order
they are issued and a rename is atomic, as `ldb_sync_dir` and the use of
temporary files rely on; on Windows 9x it is not (`Environment`).

### The parts

- `LogFormat`: a file is a sequence of cells, a header two of them, so that it
  can be torn. `AddRecord` cuts fragments by `block_offset`, which advances also
  when an append fails; the reader is the loop of `ldb_reader_read_record` with
  its resynchronisation after a skip to `initial_offset`, checksum and length
  failures, and an unreadable block. A checksum matches only what it was
  computed from. `log_damage` counts failed appends and reuses of a log behind a
  torn record; a torn end that nothing is appended to is no damage.
- `Memtable`: an action is one load or store of a next pointer, in the order of
  `ldb_skiplist_insert` and the three searches. `next` is loaded with acquire
  and stored with release order, for which interleaving is the right model;
  `max_height` is relaxed, so that a reader may start from an older height.
- `ThreadPool`: a critical section is an action. The waits are those of POSIX,
  with spurious wake-ups, or the two events and the count of `port_win_impl.h`,
  each call an action of its own.
- `LruCache`: one shard with its chained hash table, resizing, the in-use and
  LRU lists and the charge, and `find_table` of two readers over it.
- `Iterators`: the loops of `db_iter.c` advance one internal entry per action,
  so that writes come in between; merge and two-level iterator are functions on
  their state. Blocks may be unreadable and keys unparsable.
- `Tables`: entries with shared prefixes and restart points, blocks cut by
  size, index keys shortened by the comparator, filters per window of offsets,
  compressed or raw blocks; the block iterator is moved in every way.
- `Environment`: the write buffer with partial writes, retries and errors; the
  limiters with each fetch as an action; files that are removed and renamed
  under their readers; reference counts of memory files. A writer stops at its
  first error, as the engine's do except for logs and the MANIFEST, which
  `LogFormat` and `Recovery` follow beyond it.
- `FileLocks`: processes with threads that open, are refused, unlock and die;
  record locks belong to a process and vanish with any descriptor's close.
- `RbTree`: nodes in a store with one sentinel, whose parent a removal writes.
  Mirrored branches are one branch over the side.
- `Codec`: functions between values and sequences of bytes, checked against
  each other on all values of the configuration and on every truncation.
- `StlContainers`: each container with its representation and next to it the
  sequence, set or map that its calls make. The trie is called with counted keys
  and with strings, which end at a zero byte (`Text`).
- `StlThreads`: threads, condition and join; the timer wheel whose callbacks add
  up to two timers to the list that is walked, which may expand it under the walk.
- `Rpc`: run thread, accept callback, workers and clients over ordered byte
  streams. Once its peer is gone the error callback of a connection may run in any
  `ucp_worker_progress` and frees it, also beside a receive or send that completes
  OK. A worker that uses a freed connection, or takes from its queue, without the
  lock, while it grows, uses freed memory: that is recorded in `rpc_raced` and the
  behaviour ends there.

## 3. Runs

| Run | Configuration | Result | Shows |
| --- | --- | --- | --- |
| `group_commit` | `DbWrite.cfg` | pass, 1.2 million states | three writers, sync or not, with faults: `OneLeader`, `HeadAwake`, `ResultsHonest`, `SyncedIsDurable`, `ErrorIsSticky` |
| `reads` | `DbRead.cfg` | pass, 174 thousand states | two writers and a reader with faults: `TablesPinned`, the refinement `StoreSpec`, `CallsReturn` |
| `manual` | `DbManual.cfg` | pass, 55 thousand states | two `ldb_compact` calls: `TypeOK`, `OneBackgroundJob`, `WorkIsScheduled`, `CallsReturn` |
| `lsm_drop` | `LsmDrop.cfg` | pass, 650 thousand states | puts, deletions, a snapshot, flushes, automatic and manual compactions: `ReadsAgree`, `LayersOrdered` |
| `lsm_pick` | `LsmPick.cfg` | pass, 81 thousand states | flushes below level 0, size and seek compactions: `TypeOK`, `LevelsDisjoint`, `ReadsAgree`, `Descends` |
| `recovery` | `Recovery.cfg` | pass, 3.5 million states | open, write, flush, compact, back up, close, destroy, repair, with crashes, failed appends and torn records: `Recoverable`, `Served`, `SequenceFresh`, `NoLeaks`, `BackupComplete` |
| `parts` | `Parts.cfg` | pass, 675 thousand states | thirteen parts: `LogReadBack`, `MemReads`, `PoolWakeups`, `LruBooks`, `IteratorIsSnapshot`, `TableFinds`, `BlockIterAgrees`, `EnvWrites`, `EnvBooks`, `LockExclusive`, `RbSound`, `CodecsReadBack`, `ContainersAgree`, `ThreadsAndTimers`, `RpcServes` |
| `cancelled_manual` | `DbCancel.cfg` | violation of `ManualStillInstalled` | see section 7 |
| `absorbed_flush` | `DbMemtable.cfg` | violation of `MemtableCompacted` | see section 7 |
| `lsm_manual` | `LsmManual.cfg` | violation of `LevelsDisjoint` | see section 7 |
| `reuse_manifest` | `Reuse.cfg` | violation of `SyncedOutlivesReuse` | see section 7 |
| `log_damage` | `LogDamage.cfg` | violation of `SyncedSurvives` | see section 7 |

The properties, briefly (each is stated in full above its definition):

- `OneLeader`: only the head of the queue is past the wait of `ldb_write`, and
  `tmp_batch` is empty unless that call uses it.
- `HeadAwake`: the head of the queue does not sleep on its condition variable.
- `ResultsHonest`: a write that returned OK has all of its batch visible, one
  that returned an error none of it, in whichever group it was.
- `SyncedIsDurable`: what a successful sync write wrote survives a crash.
- `ErrorIsSticky`: `bg_error` is never cleared, and stops new groups.
- `TablesPinned`: no memtable is freed under a reader or the database.
- `StoreSpec`: `DbImpl` implements `KvStore`. `store` is the set of entries in
  files and memtables up to `last_sequence`, `clock` is `last_sequence`.
- `CallsReturn`: every call returns, `ldb_close` included.
- `OneBackgroundJob`, `WorkIsScheduled`: never two jobs, never work without one.
- `ReadsAgree`: a read at any live sequence number gets the answer that the
  whole history gives.
- `LayersOrdered`: for every key, memtables are newer than files, level-0
  files are ordered by number and each level is newer than the deeper ones.
- `LevelsDisjoint`: the files of a level below 0 do not overlap.
- `Descends`: each installed compaction leaves fewer entries or moves them
  down, so background work between two flushes is finite.

- `Recoverable`: whenever the database is closed or crashed, `ldb_open` finds a
  MANIFEST it accepts, with all its tables whole, and recovers what was promised,
  but for writes behind torn bytes of a log, and unless the MANIFEST itself has
  records behind torn bytes.
- `Served`: while it is open, every acknowledged write is in a memtable or a
  whole live table, whatever is being installed and removed.
- `SequenceFresh`: no sequence number is used twice, across recoveries too.
- `NoLeaks`: a database at rest has no file that nothing needs.
- `BackupComplete`: a backup recovers all that could be read when it was made,
  with the same exceptions.
- `LogReadBack`: whatever failed, a reader returns whole records in order, never a
  mixture, and reports a block it cannot read; unless an append failed or the log
  was appended to behind a torn record, it returns all that is in the file and
  takes a torn record at its end for the end, without a report.
- `MemReads`: a search beside an insert misses nothing that was there before.
- `PoolWakeups`: nobody sleeps while there is something to do or to be told.
- `LruBooks`: references, lists, hash table and usage agree; a table is closed
  once, and never under a reader.
- `IteratorIsSnapshot`: every operation ends where it would in the snapshot, in
  both directions, or reports an error.
- `TableFinds`, `BlockIterAgrees`: what is built is found, through index, filter
  and restarts, however the block iterator stands.
- `EnvWrites`, `EnvBooks`: no byte lost, doubled or reordered while calls report
  success; limiters and reference counts add up.
- `LockExclusive`: a database is open once, with the one exception of section 7.
- `RbSound`: the tree is a balanced search tree with the map's entries.
- `CodecsReadBack`: what is written is read back; truncated, it is refused.
- `ContainersAgree`, `ThreadsAndTimers`: the stl containers are what they stand
  for; data signalled is handed over once, timers fire once, not early, and no
  later than the walk past their slot.
- `RpcServes`: until a thread uses freed memory, a connection is in one place and
  reaches one worker; answers come in the order of the messages.

## 4. Bounds and why they are enough

`DbImpl` is finite because every call happens once; `MaxHot`, `MaxLevels` and
`MaxChunks` bound what the version asks for and how long a manual request is.
Three writers give a leader, a follower that joins its group and one that does
not, and a new head after that; batches of one and two entries with
`SmallBatch = 1`, `MaxBatch = 3` reach both limits of `ldb_build_batch_group`.
`WriteBuffer` of 0 or 1 makes the memtable switch with the first or second
write; `L0Trigger = L0Slowdown = 1`, `L0Stop = 2` reach the slowdown and the
stop within the few flushes there are. One reader sees every order of a switch, a flush
and an insert with two writers beside it. Two `ldb_compact` calls share the one
slot; each also goes through the write queue, the second as a follower or as a
leader. With faults, `manual` would meet the crash of `cancelled_manual`, so it
runs without.

`Lsm` is bounded by `MaxSeq` updates. In `lsm_drop` three updates of two keys
with a snapshot suffice for an entry hidden by a newer one on each side of the
snapshot, and for a deletion above an older value in a deeper level; with two
adjacent keys no file fits into a gap between others, so that the disagreement
of `lsm_manual` stays out. In `lsm_pick` five updates of three keys give files
on three levels, expansion of inputs, boundary files and trivial moves. It and
`lsm_manual` do not check for deadlock: once `MaxSeq` updates are written and
merged, the engine is idle. Level sizes grow by 2 instead of 10, and
`LDB_NUM_LEVELS` is 3 instead of 7: one level to skip, one to be the base.

`Recovery`: two writes and two crashes give a record before and after a switch,
a crash during the recovery from a crash, and a recovery that meets the remains
of both; `MaxCrashes` also counts closes, opens that fail and appends to a log
that fail, so that a torn record, a write behind it and a second recovery fit; file numbers below `MaxNumber = 7` allow two logs, two manifests and
three tables in one life. A flush in the middle of a compaction may use one
number more, so that it can fail and be retried within the bound. One compaction
and one repair, at any moment of the behaviour, keep the run small enough.
`Reuse.cfg` needs one write, no compaction and no repair.

`Parts.cfg`, in the order of the parts. Log: blocks of 5 cells and records of 1
and 7, so that records fit, fill a block and span three; three records, with one
append that fails or one reuse. Memtable: two users, two levels, two inserts
beside a reader with two operations. Pool: two workers and five jobs, so that
both are idle or busy when a job comes. Cache: three keys, capacities 0 and 2, a
table that starts with one bucket and grows. Iterators: two users at three
sequence numbers, one entry per block. Tables: user keys that are prefixes of
each other and differ by more than one byte, restart intervals 1 and 2, filters
per 8 cells. Environment: two names, two readers, buffers of 2 cells and appends
of 1 and 4, one descriptor and one mapping. Locks: two processes of two threads.
Red-black tree: seven keys, enough for every case of both fix-ups. Codec:
numbers of one, two and three bytes; texts that have no match, a near match, a
run and more than one literal length. Containers: six calls each, keys that are
prefixes of each other and one with a zero byte, primes 2, 5, 7. Timers: two
wheels of one slot that must expand, delays of no tick and of one, steps of the
clock up to more than a whole turn, and four timers: two that fire in one walk and two added by a callback of the first,
so that the walk goes on over the expanded list. RPC: two clients, two workers, queues
that must grow. Deadlock is not checked: a part that has used up its bound stops.

No symmetry is used: liveness is checked in two of the runs, and keys are ordered.

## 5. Fairness

`FairSpec` asks for weak fairness of each thread (a call, a reader, the
background thread, the closer): the operating system runs every thread that can
run, and a mutex that is free again and again is eventually obtained. The model
has no action in which a thread holds the mutex for ever. It asks for strong
fairness of the end of a compaction: between two keys `ldb_do_compaction_work`
may make a detour to flush the immutable memtable, but its input iterator is
finite, so it comes to the end after finitely many detours. Nothing is
assumed about failures; with `Faults`, calls return also if every file
operation fails.

## 6. Proofs

`tlapm` proves, for every value of the constants that satisfies the named
assumptions of the modules (`DbImpl`: callers and readers are finitely many, and
the callers distinct from the names used for other threads; batches are sequences
of keys; limits are numbers and `L0Trigger` is at most `L0Stop`. `ThreadPool`: at
least one and finitely many threads. `FileLocks`: nothing. `Environment`: finitely
many names and readers, a buffer of at least one byte, limits that are numbers. `Rpc`:
finitely many clients, none of which is the name for no connection, and at least one thread, message,
message per turn and place in a queue. `Memtable` and `Lsm`:
keys are numbers, limits and bounds are numbers, with at least two levels.
`Recovery`: its bounds are numbers, so that what is proved holds for any number of
writes, files, crashes, compactions and repairs):

| Theorem | Statement | Module |
| --- | --- | --- |
| `LeaderUnique` | `Spec => []OneLeader` | `DbThreadProofs` |
| `HeadNeverSleeps` | `Spec => []HeadAwake` | `DbThreadProofs` |
| `SingleBackgroundJob` | `Spec => []OneBackgroundJob` | `DbThreadProofs` |
| `NoWorkForgotten` | `Spec => []WorkIsScheduled` | `DbThreadProofs` |
| `ErrorIsFinal` | `Spec => ErrorIsSticky` | `DbThreadProofs` |
| `TypeCorrect` | `Spec => []TypeOK` | `DbThreadProofs` |
| `MemtablesStay` | `Spec => []TablesPinned` | `DbStoreProofs` |
| `EngineIsStore` | `Spec => StoreSpec` | `DbStoreProofs` |
| `ResultsAreHonest` | `Spec => []ResultsHonest` | `DbResultProofs` |
| `SyncedSurvives` | `Spec => []SyncedIsDurable` | `DbResultProofs` |
| `LockIsExclusive` | `LockSpec => []LockExclusive` | `PartsProofs` |
| `NoLostWakeup` | `PoolSpec => []PoolWakeups` | `PartsProofs` |
| `BufferLosesNothing` | `EnvSpec => []EnvWrites` | `PartsProofs` |
| `LimitsAndRefsExact` | `EnvSpec => []EnvBooks` | `PartsProofs` |
| `ConnectionsServedOnce` | `RpcSpec => []RpcServes` | `PartsProofs` |
| `RecoverableAlways` | `Spec => []Recoverable` | `RecoveryProofs` |
| `ServedAlways` | `Spec => []Served` | `RecoveryProofs` |
| `BackupAlways` | `Spec => []BackupComplete` | `RecoveryProofs` |
| `NoLeaksAlways` | `Spec => []NoLeaks` | `RecoveryProofs` |
| `SequenceFreshAlways` | `Spec => [](doubt # "lost" => SequenceFresh)` | `RecoveryProofs` |
| `ReaderMissesNothing` | `MemSpec => []MemReads` | `MemtableProofs` |
| `LsmTypeCorrect` | `Spec => []TypeOK` (\*) | `LsmProofs` |
| `LevelsStayDisjoint` | `Spec => []LevelsDisjoint` (\*) | `LsmProofs` |
| `LayersStayOrdered` | `Spec => []LayersOrdered` (\*) | `LsmProofs` |
| `ReadsSeeHistory` | `Spec => []ReadsAgree` (\*) | `LsmProofs` |

(\*) for the engine without manual compactions, or with every memtable flushed to
level 0 (`~Manual \/ MaxMemLevel = 0`). The exclusion is needed: `lsm_manual` is
the counterexample without it.

*The queue.* `OneLeader` is not inductive: that a woken call at the head may go
on depends on no other call being past the wait, and that depends on who is in
the queue. `Inv` adds that the queue holds exactly the calls that are in
`ldb_write` and not finished, each once (`QueueExact`); that a sleeping call is
never the head and never finished (`LeaderIsHead`); who may hold the mutex from
one action to the next (`MutexHeld`); and that a group is a prefix of the queue
(`GroupSane`). The proof has a lemma for entering the queue, one for leaving it
(the tail of `ldb_write`, shared by four actions), one for steps of the leader
that keep it the leader, and one for everybody else.

*The background job.* `OneBackgroundJob` and `WorkIsScheduled` need each other
and the fact that what a running job took from the version is still there
(`InputsThere`). `ScheduleInv` says once what a call of
`ldb_maybe_schedule_compaction` establishes, with the values its caller leaves.

*Types.* Two parts of `TypeOK` take an argument. Memtables do not run out
because each call switches at most once: `SwitchesCounted` compares the number
of the memtable in use with the number of calls that are past making room, or
in the loop with a fresh memtable and no order to switch. And a lookup returns
a number because a bounded set of numbers has a greatest element, which follows
from the well-foundedness of `<`.

*The engine is a store.* `EngineInv` joins the three invariants above with
`PinInv` and `StoreInv`. `PinInv` counts: the references of a memtable are one
for the database and one for each reader that holds it (`RefsExact`), memtables
are numbered in the order of their use, and so a new one has no holder. From it
alone follows `TablesPinned`. `StoreInv` says what a reader relies on while it
searches without the mutex: entries above `last_sequence` belong to the one
group that is being inserted (`InsertProgress`, `InFlight`, `Numbered`); a later
memtable has only later numbers and the files only earlier ones than the
memtables that are not flushed (`Layered`), so that the first hit is the newest;
and what a reader took at its start still holds all that its sequence number may
see (`SnapshotKept`): an insert adds only above it, a switch, a flush and a
compaction move entries between layers it has or has not taken. `EngineIsStore`
then maps every action to a step of `KvStore` or to a stutter: the commit of a
group publishes it whole, the last probe of a lookup answers, the rest stutters.

*Results.* A follower's result is decided by a leader that logged a batch built
from many. `ResultInv` carries where the updates of each member are in the group's
batch (`Gathers`: one stretch per member and nothing else, and the group is synced
if a member asked for that), that the record is in the log before the sync and
durable after it (`LogAt`), and that a call without a result has nothing visible
(`Results`). That an error leaves nothing visible rests on `EngineInv`: what was
inserted is above `last_sequence`, and after an error nothing more is published.

*The LOCK file and the pool.* `LockInv` says per system who owns what: on Windows
the holder has the system's lock, on Unix the process-wide set knows the holder
and the record lock has one owner unless a refused call closed a descriptor.
`PoolInv` says that `running` and `left` count the threads and the unfinished
jobs, and that a job that waits has a thread that is up or will be woken by a
signal not yet consumed (`JobHasThread`), which the three-step waits of the
Windows port make delicate.

*The files of an environment.* `EnvBooks` is nearly inductive: `EnvReading` adds that
a reader has a file from its open to its close unless it opens it by name for every
read, and holds a limiter only once it is open. Each step then changes the books by one
reader (`ReaderBooks`, `ReaderStep`) or one name (`NameBooks`, `NameStep`, `DroppedFile`,
`NewFileStep`); that a limiter grants nothing beyond its maximum holds although it is
decremented before it is tested, because those that were granted are among those it is
short by. `EnvWrites` needs to know where the writer was opened (`base`), that the
file only grows under it although names and readers come and go (a file in use has a
reference of its own and is never freed: `UserCounted`), and what
`ldb_wfile_append0` does with data that is shorter than, as long as, or longer than the room
left (`AppendProps`), which is arithmetic about sequences (`SuffixConcat`).

*The RPC server.* All of `RpcInv` is under the condition that no thread has used a
queue or a connection that was freed: what freed memory holds is undefined, and
nothing is claimed after it. `RpcPlaces`
says that the dispatch queue, the run thread's hand, the threads' queues and the
connections taken are disjoint and without repetition, and that together they are the
accepted ones. `RpcTaking` is what makes the unlocked `stl_queue_del_first` keep this: a
thread between its two halves has the head of its queue in hand, unless the queue has
grown, which is the race. `RpcHolding` says that no two threads serve one connection. `RpcTalking` says that at most one message of a
client is on its way, or its answer, and which one, from which the order of the answers
follows; before the server runs nothing has been answered, so that
`rpc_server_set_msg_handle` cannot change an answer's kind halfway.

*Readers of the skiplist.* What is in the list is a matter of reachability, and
reachability a matter of induction along it. `MemInv` avoids both: it says of any two
linked nodes that nothing linked at that level is between them (`SkipGaps`) and
that a node linked at a level is linked below it (`SkipNested`). These are local, so
that linking one node at one level disturbs only its predecessor, and they are all
that a search needs: `ReaderHolds` says that what a reader has to find is never
behind it. `WriterHolds` says the same of the `prev` array of the insert, and
`MemRefs` counts the references that keep the memtable.

*Levels, layers and reads.* The difficulty of `Lsm` is a compaction that installs
what it chose in a version that is no longer there. `CompactionInv` says of a
running compaction what its choice of inputs secured and no later step undoes: what
stays behind in the input level and overlaps the inputs is newer (`AddBoundaryInputs`,
and the overlapping files of level 0), the rest of the output level lies beside the
inputs, a file flushed below them meanwhile does not overlap them, and the oldest
snapshot it respects is not younger than one that is still held. From this follow
`LevelsDisjoint` and `LayersOrdered`. When memtables may go below level 0 the
inputs must also have no gap that a flush could fall into, which is true of every
compaction but a manual one. `ReadsAgree` needs in addition `ReadInv`: every
update ever written is stored, or superseded by a stored one that every snapshot
sees, or erased by a deletion marker that was dropped with nothing below it
(`IsBaseLevelForKey`). That a walk through the levels returns the newest visible entry
is then a consequence of the order of the layers.

*Crashes and recovery.* `Recoverable` speaks of a database that nobody has open,
and what decides it happened long before: a record that a crash may or may not
leave at the end of the manifest in use. `RecInv` therefore speaks of `Survivors`,
the lengths a crash may leave that manifest with, and says that each of these
prefixes would be accepted and has every synced write in its tables or in the
logs it does not retire (`Covered`). Torn records do not weaken this: what a file
has in front of its first torn bytes is read back as it is (`SolidProps`), so that
a reading of the logs keeps every promised write that is not `Doubtful`, and one of
the MANIFEST keeps all of it unless it is `Mixed`; there the promise is given up in the
same step. The other parts say what makes the next step
keep this, at each place where a thread may be:

- `StartInv`, `ManifestInv`, `ReplayInv`, `ApplyInv`: what `ldb_open` has read of
  each log is in new tables, in the memtable or still to come; the manifest it
  writes has the version it found and those tables, and is synced before CURRENT
  names it.
- `MemoryInv`, `ServeInv`: what is in a memtable is in a log that is kept;
  memtables and tables together have every acknowledged write.
- `LinkInv`, `JobInv`: the version and the manifest agree exactly as long as
  there was no error; a job's output has what its inputs have, the output of a
  compaction around a flush is pending meanwhile, and an edit retires a log only
  when a whole table has its writes.
- `KillInv`: a file that is about to be removed is in no version that is in use
  or that a crash could bring back.
- `RepairInv`, `Repairable`: nothing of what `ldb_repair` must save is in neither a
  whole table nor a log, so that a repair that is cut short can be repeated.

There is one lemma per action (`OpenStartInv` ... `MachineCrashInv`), on top of
lemmas about what a manifest lists once an edit is appended (`LiveAppend`,
`OrderedAppend`), what a crash leaves of it (`PrefixProps`, `OrderedPrefix`) and
when files that come and go leave `Covered` alone (`CoveredKept`,
`CoveredAppend`, `CoveredSwitch`). TLC checked each part on small instances before it was proved.
`Served` and `Recoverable` then follow from the invariant, and `BackupComplete`
from the step that makes the backup. `NoLeaks` needs an invariant of its own beside
`RecInv`: `LeakInv` says that only outputs of jobs under way are pending, that all
files are kept or listed for removal whenever the thread rests or removes, and that a
trivial move, which looks for no files, changes no file of the version. The attempt found one thing wrong with the
model: a manifest that is synced after it was reused is no longer in doubt
(`Settled`), also when it is the background thread that syncs it.

*Sequence numbers.* The number of a new write comes from memory, and memory from
whatever a crash left of the manifest and the logs. `SeqInv` says that no number is
used twice on disk, and of every prefix of the manifest in use that a crash may
leave that the number in its last edit is not below those of the tables it
lists (`DiskSeq`, `UseSeq`). Records that are dropped behind torn bytes take
their numbers with them, and a failed append uses one up. `ldb_open` then takes a number above its version and the
logs it reads (`ReplaySeq`, `ViewSeq`), and removes whatever else could have a higher
one before it serves; an edit carries a number above everything on disk (`EditSeq`,
`UsingSeq`, `JobSeq`), and a repaired manifest the highest of its tables (`RepairSeq`).
The theorem leaves out `doubt = "lost"`: a manifest that lost its tail or records
behind torn bytes, or one an interrupted repair left, may list a table that is gone, and `ldb_repair`, which does
not count the numbers in manifests, may give that number to another table. The run
`recovery` checks `SequenceFresh` in these states as well.

Only model-checked: the descent of compactions (`Descends` of `Lsm`, a sum), the
properties of `StlThreads`; and, because the prover has no rules for them, liveness (`CallsReturn`) and facts about what
recursive definitions compute (the modules `LogFormat`, `LruCache`, `Iterators`,
`Tables`, `RbTree`, `Codec` and `StlContainers`).

## 7. Where code and comments disagree

- `cancelled_manual`: `ldb_background_compaction` uses `db->manual_compaction`
  at its end without looking whether the waiting call has withdrawn it, which
  it does when another thread records a background error.
- `absorbed_flush`: a NULL batch is taken into another writer's group, so
  `ldb_test_compact_memtable`, "Force current memtable contents to be
  compacted.", may return without having had any effect.
- `lsm_manual`: a manual compaction over files with a gap between them, and a
  memtable flushed into the gap of the output level while it runs, end in two
  overlapping files, which `builder_save_to` treats as impossible.

- `reuse_manifest`: with `reuse_logs` a MANIFEST is reused although its last
  records may not be synced, and the log they retire is removed: a synced write
  can be lost.
- `log_damage`: after an append that failed later records follow in the same log,
  behind part of a record or away from the block boundaries the writer counts, and
  the reader may drop a synced one. The same happens behind a torn record at the end
  of a log that `reuse_logs` opens for appending (`db_impl.c:924-934`); with
  `AppendFails = FALSE` in `LogDamage.cfg` TLC shows this case.

Seen while modelling, and kept in the models as the code has it:

- It also happens to a MANIFEST: a reused one that ends in a torn record
  (`version_set.c:1431`), or one to which a flush inside a compaction appends again
  after a half-written record (`db_impl.c:1341`), may at the next open be refused or
  lack an edit. `Recoverable` excepts it (`Mixed`).
- A repair archives a log whose conversion failed (`repair.c:373-381`): its writes are
  then only in `lost/`, and `doubt` excepts it.
- A second `ldb_open` in one process closes a descriptor of LOCK and with it
  drops the lock the first one holds (`env_unix_impl.h:895`): `LockExclusive`
  has to except it.
- An `ldb_open` after an interrupted repair removes the tables the repair had
  made of the logs, and the repaired descriptor is not synced (`repair.c:634`):
  `doubt` excepts both; `Recoverable` speaks again once a repair was completed. A repair that finds no numbered file leaves
  `next_file_number` 1, which the next open refuses.
- A temporary file that has the number of a live table is never removed
  (`db_impl.c:690`): `NoLeaks` excepts it.
- The Windows condition variable can erase a broadcast
  (`port_win_impl.h:125-154`). The pool does not depend on that one;
  `background_work_finished_signal` does.
- An LRU entry released while the cache is over its capacity stays until the
  next insertion (`cache.c:278`).
- `stl_dict` compares only as many bytes as the key asked for has
  (`stl_dict.c:152`), `stl_heap_add` counts an element it could not store
  (`stl_heap.c:77`), and when an empty queue cannot get its first memory
  `stl_queue_init` sets the caller's handle to NULL (`stl_queue.c:71-76`, called
  from `:119`): `ContainersAgree` ends at any of the three. `stl_timer` drops the
  rest of a tick at each call, so that timers come late, and counts timers that
  it refused (`stl_timer.c:135`). A second `stl_cond_signal` overwrites the
  first datum.
- The RPC server empties its queues without the lock (`rpc_server.c:238`), frees
  a connection in the error callback and goes on with it after a failed send, or a
  receive that completed beside the callback (`rpc_server.c:109`, `160`, `258`), and
  counts each connection twice, so that with
  two workers connections that come one at a time all go to one
  (`rpc_server.c:215`, `412`).

Each of the five runs is quoted with its lines under `findings` in `PROJECT.json`.

## 8. What is not modelled

`PROJECT.json` lists each component with its status. Left out for good, because
a model says nothing about them that a test does not say better: CRC and MD5,
hash functions (the models use small ones, or let a checksum tell what it was
computed from), text and file helpers of `stl`, allocation, the info log, the C
binding, benchmarks and contributed programs.

Left out of the modelled parts: statistics, property strings and approximate
sizes of `db_impl.c`; the version's own iterators; the rescue of single entries
from a damaged table in `repair.c`; a reused log that cannot be opened for
appending (`db_impl.c:931`), whose memtable goes to a table; directory listing, paths and clocks of the
environments; `rpc_server_deinit`, which joins threads that never end; the
effect of two threads that remove from two red-black trees at once, which share
a sentinel (`rbt.c:396`).

The Windows condition variable is modelled for the pool only, which broadcasts
once; that it may erase a broadcast to `background_work_finished_signal` is listed
among the hazards, and `CallsReturn` is about POSIX condition variables.

UCX, record locks and freed memory are external: they are
modelled from how the code uses them.

## 9. Plan

What is left is to prove more, for every value of the constants:

1. `SequenceFresh` of `Recovery` also when `doubt` is `"lost"`: it needs that
   `ldb_repair` never gives a number that a manifest in use lists to another table,
   as long as that table could be read.
2. `ThreadsAndTimers` of `StlThreads`.
