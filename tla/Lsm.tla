-------------------------------- MODULE Lsm --------------------------------
(***************************************************************************)
(* engine/src/version_set.c and the compaction half of db_impl.c: which    *)
(* level a memtable is flushed to, which files a compaction takes, what it *)
(* drops, and how a read walks the levels of a version.                    *)
(*                                                                         *)
(* Background work is one thread: a flush and a trivial move are one step, *)
(* a real compaction picks its inputs in one step and installs its outputs *)
(* in a later one, with writes, snapshots and a flush of the immutable     *)
(* memtable in between.  Sizes are counted in entries.  A file number is   *)
(* only compared with those of other live files, so a new file is numbered *)
(* one above them.                                                         *)
(***************************************************************************)
EXTENDS Integers, FiniteSets, FiniteSetsExt

CONSTANTS
  MaxKey,          \* bound: user keys are 1..MaxKey, ordered
  MaxSeq,          \* bound: updates written
  Tags,            \* what is written: FALSE a put, TRUE a deletion
  MaxSnapshots,    \* bound: snapshots held at once
  MaxOutputs,      \* bound: output files of one compaction
  NumLevels,       \* LDB_NUM_LEVELS
  MaxMemLevel,     \* LDB_MAX_MEM_COMPACT_LEVEL
  L0Trigger,       \* LDB_L0_COMPACTION_TRIGGER
  LevelLimit,      \* max_bytes_for_level of level 1; the next is twice it
  FileLimit,       \* max_file_size_for_level
  GrandLimit,      \* max_grandparent_overlap_bytes
  ExpandLimit,     \* expanded_compaction_byte_size_limit
  Manual,          \* whether ldb_test_compact_range is called
  Seeks            \* whether reads exhaust allowed_seeks

Keys == 1..MaxKey
Levels == 0..(NumLevels - 1)

ASSUME LsmAssumption ==
  /\ {MaxKey, MaxSeq, L0Trigger, LevelLimit, FileLimit, MaxOutputs} \subseteq Nat \ {0}
  /\ {MaxSnapshots, MaxMemLevel, GrandLimit, ExpandLimit} \subseteq Nat
  /\ NumLevels \in Nat /\ MaxMemLevel + 1 < NumLevels
  /\ {Manual, Seeks} \subseteq BOOLEAN /\ Tags \subseteq BOOLEAN

VARIABLES
  last_sequence,     \* db->versions->last_sequence
  history,           \* every update ever written
  mem, imm,          \* entries of db->mem and db->imm; {} for no imm
  files,             \* current->files: level -> its set of files
  snapshots,         \* db->snapshots: their sequence numbers
  compact_pointer,   \* vset->compact_pointer: level -> internal key or Null
  file_to_compact,   \* current->file_to_compact: [level, file] or Null
  compaction         \* the running ldb_compaction_t with its state, or Null

vars == <<last_sequence, history, mem, imm, files, snapshots, compact_pointer,
          file_to_compact, compaction>>

Null == [null |-> TRUE]

Init ==
  /\ last_sequence = 0
  /\ history = {} /\ mem = {} /\ imm = {}
  /\ files = [l \in Levels |-> {}]
  /\ snapshots = {}
  /\ compact_pointer = [l \in Levels |-> Null]
  /\ file_to_compact = Null
  /\ compaction = Null

-----------------------------------------------------------------------------
(* Internal keys and files.                                                *)

(* ldb_ikc_compare: user key ascending, then sequence number descending.   *)
Before(a, b) == a.key < b.key \/ (a.key = b.key /\ a.seq > b.seq)
AtOrBefore(a, b) == ~Before(b, a)

FirstKey(ents) == CHOOSE e \in ents : \A x \in ents : AtOrBefore(e, x)
LastKey(ents) == CHOOSE e \in ents : \A x \in ents : AtOrBefore(x, e)

(* A finished table and its ldb_filemeta_t.                                *)
NewFile(num, ents) == [num |-> num, ents |-> ents, smallest |-> FirstKey(ents), largest |-> LastKey(ents)]

(* ldb_versions_get_range, get_range2, find_largest_key.                   *)
RangeStart(S) == FirstKey({f.smallest : f \in S})
RangeLimit(S) == LastKey({f.largest : f \in S})

(* by_smallest_key: the order of a level's file vector.                    *)
Precedes(f, g) == \/ Before(f.smallest, g.smallest)
                  \/ f.smallest = g.smallest /\ f.num < g.num
FirstFile(S) == CHOOSE f \in S : \A g \in S : f = g \/ Precedes(f, g)

(* total_file_size; no entry is in two files.                              *)
TotalSize(S) == Cardinality(UNION {f.ents : f \in S})

Overlaps(f, b, e) == f.largest.key >= b /\ f.smallest.key <= e

(* some_file_overlaps_range.                                               *)
OverlapInLevel(v, level, b, e) == \E f \in v[level] : Overlaps(f, b, e)

(* ldb_version_get_overlapping_inputs: in level 0 a file that sticks out   *)
(* of the range widens it and restarts the search, up to the narrowest     *)
(* range that no file sticks out of.                                       *)
Closed(v, b, e) == \A f \in v[0] : Overlaps(f, b, e) => f.smallest.key >= b /\ f.largest.key <= e
Widened(v, b, e) ==
  CHOOSE r \in (1..b) \X (e..MaxKey) :
    /\ Closed(v, r[1], r[2])
    /\ \A x \in 1..b, y \in e..MaxKey : Closed(v, x, y) => x <= r[1] /\ r[2] <= y
OverlappingInputs(v, level, b, e) ==
  LET r == IF level = 0 THEN Widened(v, b, e) ELSE <<b, e>>
  IN  {f \in v[level] : Overlaps(f, r[1], r[2])}

-----------------------------------------------------------------------------
(* Reading.                                                                *)

NoEntry == [key |-> 0, seq |-> 0, del |-> TRUE]

(* The newest entry of key k at sequence number s, or NoEntry.             *)
NewestIn(ents, k, s) ==
  LET hits == {e \in ents : e.key = k /\ e.seq <= s}
  IN  IF hits = {} THEN NoEntry ELSE CHOOSE e \in hits : \A x \in hits : x.seq <= e.seq

(* ldb_version_for_each_overlapping: the files a lookup consults, level 0  *)
(* newest first, then at most one file per level, the first whose largest  *)
(* key is not before the lookup key.                                       *)
Candidate(v, level, k, s) ==
  LET ahead == {f \in v[level] : AtOrBefore([key |-> k, seq |-> s], f.largest)}
  IN  IF ahead = {} THEN {}
      ELSE IF FirstFile(ahead).smallest.key <= k THEN {FirstFile(ahead)} ELSE {}
Consulted(v, k, s) ==
  {[level |-> 0, file |-> f] : f \in {g \in v[0] : Overlaps(g, k, k)}}
  \cup UNION {{[level |-> l, file |-> f] : f \in Candidate(v, l, k, s)} : l \in 1..(NumLevels - 1)}

(* Mutant: level-0 files are consulted oldest first.                       *)
SoonerIfOlder(a, b) == a.level < b.level \/ (a.level = b.level /\ a.file.num < b.file.num)

(* newest_first within level 0, then level by level.                       *)
Sooner(a, b) == a.level < b.level \/ (a.level = b.level /\ a.file.num > b.file.num)
Soonest(C) == CHOOSE a \in C : \A b \in C : a = b \/ Sooner(a, b)

(* ldb_version_get: the first file with an entry decides.                  *)
VersionGet(v, k, s) ==
  LET hits == {c \in Consulted(v, k, s) : NewestIn(c.file.ents, k, s) # NoEntry}
  IN  IF hits = {} THEN NoEntry ELSE NewestIn(Soonest(hits).file.ents, k, s)

(* ldb_get: the memtables, then the version; a deletion is an answer too.  *)
GetEntry(v, k, s) ==
  LET a == NewestIn(mem, k, s)
      b == NewestIn(imm, k, s)
  IN  IF a # NoEntry THEN a ELSE IF b # NoEntry THEN b ELSE VersionGet(v, k, s)
Answer(e) == IF e.del THEN 0 ELSE e.seq     \* the value, or LDB_NOTFOUND

-----------------------------------------------------------------------------
(* Clients.                                                                *)

Write(k, del) ==
  /\ last_sequence < MaxSeq
  /\ LET e == [key |-> k, seq |-> last_sequence + 1, del |-> del] IN
     /\ mem' = mem \cup {e}
     /\ history' = history \cup {e}
  /\ last_sequence' = last_sequence + 1
  /\ UNCHANGED <<imm, files, snapshots, compact_pointer, file_to_compact, compaction>>

(* The switch in ldb_make_room_for_write; a NULL batch forces it any time. *)
SwitchMemtable ==
  /\ mem # {} /\ imm = {}
  /\ imm' = mem /\ mem' = {}
  /\ UNCHANGED <<last_sequence, history, files, snapshots, compact_pointer, file_to_compact, compaction>>

TakeSnapshot ==
  /\ Cardinality(snapshots) < MaxSnapshots
  /\ snapshots' = snapshots \cup {last_sequence}
  /\ UNCHANGED <<last_sequence, history, mem, imm, files, compact_pointer, file_to_compact, compaction>>

ReleaseSnapshot ==
  /\ \E s \in snapshots : snapshots' = snapshots \ {s}
  /\ UNCHANGED <<last_sequence, history, mem, imm, files, compact_pointer, file_to_compact, compaction>>

(* The files a lookup reads before it is answered.                         *)
Reads(v, k, s) ==
  LET all == Consulted(v, k, s)
      hits == {c \in all : NewestIn(c.file.ents, k, s) # NoEntry}
  IN  IF hits = {} THEN all ELSE {c \in all : ~Sooner(Soonest(hits), c)}

(* Mutant: a lookup that reads one file charges it.                        *)
ChargedAlways(read) == IF read # {} THEN {Soonest(read)} ELSE {}

(* getstate_match: a lookup that reads a second file charges the first.    *)
Charged(read) == IF Cardinality(read) >= 2 THEN {Soonest(read)} ELSE {}

(* ldb_version_update_stats, for the charge that uses up allowed_seeks.    *)
ChargeSeek(k) ==
  /\ Seeks /\ file_to_compact = Null
  /\ NewestIn(mem \cup imm, k, last_sequence) = NoEntry
  /\ \E f \in Charged(Reads(files, k, last_sequence)) : file_to_compact' = f
  /\ UNCHANGED <<last_sequence, history, mem, imm, files, snapshots, compact_pointer, compaction>>

(* ldb_version_record_read_sample: an entry that an iterator passes, which *)
(* the version may have dropped since, charges the first of the files that *)
(* a lookup of it may have to read.                                        *)
RecordReadSample(e) ==
  /\ Seeks /\ file_to_compact = Null
  /\ \E f \in Charged(Consulted(files, e.key, e.seq)) : file_to_compact' = f
  /\ UNCHANGED <<last_sequence, history, mem, imm, files, snapshots, compact_pointer, compaction>>

-----------------------------------------------------------------------------
(* Flushing the immutable memtable.                                        *)

NextNumber == 1 + Max({0} \cup {f.num : f \in UNION {files[l] : l \in Levels}})

(* Mutant: the overlap is looked for one level too high.                   *)
PickLevelTooDeep(v, b, e) ==
  IF OverlapInLevel(v, 0, b, e) THEN 0
  ELSE Min({l \in 0..(MaxMemLevel - 1) : OverlapInLevel(v, l, b, e)} \cup {MaxMemLevel})

(* ldb_version_pick_level_for_memtable_output.                             *)
PickLevel(v, b, e) ==
  LET stop(l) == \/ OverlapInLevel(v, l + 1, b, e)
                 \/ /\ l + 2 < NumLevels
                    /\ TotalSize(OverlappingInputs(v, l + 2, b, e)) > GrandLimit
  IN  IF OverlapInLevel(v, 0, b, e) THEN 0
      ELSE Min({l \in 0..(MaxMemLevel - 1) : stop(l)} \cup {MaxMemLevel})

(* ldb_compact_memtable and ldb_write_level0_table.  Here and below, a new *)
(* version has no file_to_compact (ldb_version_init).                      *)
CompactMemtable ==
  /\ imm # {}
  /\ LET f == NewFile(NextNumber, imm)
         l == PickLevel(files, f.smallest.key, f.largest.key)
     IN  files' = [files EXCEPT ![l] = @ \cup {f}]
  /\ imm' = {}
  /\ file_to_compact' = Null
  /\ UNCHANGED <<last_sequence, history, mem, snapshots, compact_pointer, compaction>>

-----------------------------------------------------------------------------
(* Picking a compaction.                                                   *)

(* Mutant: files that share their last user key are not kept together.     *)
NoBoundaryFile(S, largest) == {}

(* find_smallest_boundary_file: at most one file.                          *)
SmallestBoundaryFile(S, largest) ==
  LET b == {f \in S : Before(largest, f.smallest) /\ f.smallest.key = largest.key}
  IN  {f \in b : \A g \in b : AtOrBefore(f.smallest, g.smallest)}

(* add_boundary_inputs.                                                    *)
AddBoundaryInputs(S, inputs) ==
  LET grow[n \in 0..Cardinality(S)] ==
        IF n = 0 THEN inputs
        ELSE LET T == grow[n - 1] IN T \cup SmallestBoundaryFile(S, RangeLimit(T))
  IN  IF inputs = {} THEN {} ELSE grow[Cardinality(S)]

(* The files of the level below that inputs meet, with their boundaries.   *)
Parents(v, level, inputs) ==
  AddBoundaryInputs(v[level + 1],
    OverlappingInputs(v, level + 1, RangeStart(inputs).key, RangeLimit(inputs).key))

(* ldb_versions_setup_other_inputs.                                        *)
SetupOtherInputs(v, level, picked) ==
  LET in0 == AddBoundaryInputs(v[level], picked)
      in1 == Parents(v, level, in0)
      all == in0 \cup in1
      exp0 == AddBoundaryInputs(v[level],
                OverlappingInputs(v, level, RangeStart(all).key, RangeLimit(all).key))
      grown == /\ in1 # {}
               /\ Cardinality(exp0) > Cardinality(in0)
               /\ TotalSize(in1) + TotalSize(exp0) < ExpandLimit
               /\ Cardinality(Parents(v, level, exp0)) = Cardinality(in1)
      out0 == IF grown THEN exp0 ELSE in0
      out1 == IF grown THEN Parents(v, level, exp0) ELSE in1
      both == out0 \cup out1
  IN  [level |-> level, in0 |-> out0, in1 |-> out1,
       largest |-> RangeLimit(out0),
       grandparents |-> IF level + 2 < NumLevels
                        THEN OverlappingInputs(v, level + 2, RangeStart(both).key, RangeLimit(both).key)
                        ELSE {}]

(* max_bytes_for_level.                                                    *)
MaxBytes[l \in Levels] == IF l <= 1 THEN LevelLimit ELSE 2 * MaxBytes[l - 1]

(* ldb_versions_finalize: the lowest of the levels with the highest score, *)
(* a quotient of load and capacity; it is compacted from a score of 1 on.  *)
Load(v, l) == IF l = 0 THEN Cardinality(v[0]) ELSE TotalSize(v[l])
Capacity(l) == IF l = 0 THEN L0Trigger ELSE MaxBytes[l]
HigherScore(v, l, m) == Load(v, l) * Capacity(m) > Load(v, m) * Capacity(l)
SizeLevels(v) ==
  {l \in 0..(NumLevels - 2) :
    /\ Load(v, l) >= Capacity(l)
    /\ \A m \in 0..(NumLevels - 2) : HigherScore(v, l, m) \/ (~HigherScore(v, m, l) /\ l <= m)}
SizeCompaction(v) == SizeLevels(v) # {}
BestLevel(v) == CHOOSE l \in SizeLevels(v) : TRUE

(* The first file after compact_pointer, or the first of the level.        *)
NextFile(v, level) ==
  LET after == {f \in v[level] : \/ compact_pointer[level] = Null
                                 \/ Before(compact_pointer[level], f.largest)}
  IN  FirstFile(IF after = {} THEN v[level] ELSE after)

(* ldb_versions_pick_compaction.                                           *)
PickCompaction(v) ==
  LET level == IF SizeCompaction(v) THEN BestLevel(v) ELSE file_to_compact.level
      f == IF SizeCompaction(v) THEN NextFile(v, level) ELSE file_to_compact.file
      picked == IF level = 0 THEN OverlappingInputs(v, 0, f.smallest.key, f.largest.key) ELSE {f}
  IN  SetupOtherInputs(v, level, picked)

(* ldb_versions_compact_range, for a range some file overlaps: below level *)
(* 0 only as many files as fill one output.                                *)
PickRange(v, level, b, e) ==
  LET inputs == OverlappingInputs(v, level, b, e)
      before(f) == {g \in inputs : Precedes(g, f)}
  IN  SetupOtherInputs(v, level, IF level = 0 THEN inputs
                                 ELSE {f \in inputs : TotalSize(before(f)) < FileLimit})

(* ldb_compaction_is_trivial_move.                                         *)
TrivialMove(c) == /\ Cardinality(c.in0) = 1 /\ c.in1 = {}
                  /\ TotalSize(c.grandparents) <= GrandLimit

(* smallest_snapshot in ldb_do_compaction_work.                            *)
SmallestSnapshot == IF snapshots = {} THEN last_sequence ELSE Min(snapshots)

(* The compaction starts: its inputs, its input version and the oldest     *)
(* snapshot are fixed now and used until it is installed.                  *)
Begin(c) ==
  /\ compaction' = [level |-> c.level, in0 |-> c.in0, in1 |-> c.in1,
                    version |-> files, smallest_snapshot |-> SmallestSnapshot]
  /\ compact_pointer' = [compact_pointer EXCEPT ![c.level] = c.largest]
  /\ UNCHANGED <<files, file_to_compact>>

NeedsCompaction(v) == SizeCompaction(v) \/ file_to_compact # Null

(* ldb_background_compaction without a manual request.                     *)
AutoCompaction ==
  /\ compaction = Null /\ imm = {} /\ NeedsCompaction(files)
  /\ LET c == PickCompaction(files) IN
     IF TrivialMove(c)
     THEN /\ files' = [files EXCEPT ![c.level] = @ \ c.in0, ![c.level + 1] = @ \cup c.in0]
          /\ compact_pointer' = [compact_pointer EXCEPT ![c.level] = c.largest]
          /\ file_to_compact' = Null
          /\ UNCHANGED compaction
     ELSE Begin(c)
  /\ UNCHANGED <<last_sequence, history, mem, imm, snapshots>>

(* ldb_background_compaction with one; never a trivial move.               *)
ManualCompaction(level, b, e) ==
  /\ Manual /\ b <= e /\ compaction = Null /\ imm = {}
  /\ OverlapInLevel(files, level, b, e)
  /\ Begin(PickRange(files, level, b, e))
  /\ UNCHANGED <<last_sequence, history, mem, imm, snapshots>>

-----------------------------------------------------------------------------
(* ldb_do_compaction_work and ldb_install_compaction_results.              *)

Inputs(c) == UNION {f.ents : f \in c.in0 \cup c.in1}

(* ldb_compaction_is_base_level_for_key.                                   *)
IsBaseLevelForKey(c, k) ==
  \A l \in (c.level + 2)..(NumLevels - 1) : ~OverlapInLevel(c.version, l, k, k)

(* Mutant: a deletion marker is dropped although a deeper level has the key.*)
DroppedTooSoon(c, e) ==
  \/ \E x \in Inputs(c) : x.key = e.key /\ x.seq > e.seq /\ x.seq <= c.smallest_snapshot
  \/ e.del /\ e.seq <= c.smallest_snapshot

(* Rule (A) and the rule for obsolete deletion markers.                    *)
Dropped(c, e) ==
  \/ \E x \in Inputs(c) : x.key = e.key /\ x.seq > e.seq /\ x.seq <= c.smallest_snapshot
  \/ e.del /\ e.seq <= c.smallest_snapshot /\ IsBaseLevelForKey(c, e.key)

Kept(c) == {e \in Inputs(c) : ~Dropped(c, e)}

(* The outputs may be cut anywhere: ldb_tablegen_size and                  *)
(* ldb_compaction_should_stop_before decide by bytes.  An output runs from *)
(* its first entry to the next output's, and they are numbered in order.   *)
Outputs(c, starts) ==
  LET piece(i) == {e \in Kept(c) : AtOrBefore(i, e) /\ \A t \in starts : Before(i, t) => Before(e, t)}
  IN  {NewFile(NextNumber + Cardinality({t \in starts : Before(t, i)}), piece(i)) : i \in starts}

(* Mutant: only the inputs of the upper level are deleted.                 *)
DeleteUpper(c) == [files EXCEPT ![c.level] = @ \ c.in0]

(* ldb_compaction_add_input_deletions.                                     *)
DeleteInputs(c) == [files EXCEPT ![c.level] = @ \ c.in0, ![c.level + 1] = @ \ c.in1]

InstallCompaction ==
  /\ compaction # Null
  /\ LET c == compaction IN
       \E starts \in SUBSET Kept(c) :
         /\ Cardinality(starts) <= MaxOutputs
         /\ Kept(c) # {} => FirstKey(Kept(c)) \in starts
         /\ files' = [DeleteInputs(c) EXCEPT ![c.level + 1] = @ \cup Outputs(c, starts)]
  /\ compaction' = Null
  /\ file_to_compact' = Null
  /\ UNCHANGED <<last_sequence, history, mem, imm, snapshots, compact_pointer>>

Next ==
  \/ \E k \in Keys, del \in Tags : Write(k, del)
  \/ SwitchMemtable \/ TakeSnapshot \/ ReleaseSnapshot
  \/ \E k \in Keys : ChargeSeek(k)
  \/ \E e \in history : RecordReadSample(e)
  \/ CompactMemtable
  \/ AutoCompaction
  \/ \E level \in 0..(NumLevels - 2), b \in Keys, e \in Keys : ManualCompaction(level, b, e)
  \/ InstallCompaction

Spec == Init /\ [][Next]_vars

-----------------------------------------------------------------------------
(* Properties.                                                             *)

Entries == [key : Keys, seq : 1..MaxSeq, del : BOOLEAN]

(* Every variable keeps its type.                                          *)
TypeOK ==
  /\ last_sequence \in 0..MaxSeq
  /\ history \subseteq Entries /\ mem \subseteq Entries /\ imm \subseteq Entries
  /\ \A l \in Levels : \A f \in files[l] : f.num \in Nat /\ f.ents # {} /\ f.ents \subseteq Entries
  /\ snapshots \subseteq 0..MaxSeq
  /\ \A l \in Levels : compact_pointer[l] = Null \/ compact_pointer[l] \in Entries
  /\ file_to_compact = Null \/ file_to_compact.level \in 0..(NumLevels - 2)
  /\ compaction = Null \/ compaction.level \in 0..(NumLevels - 2)

(* "Make sure there is no overlap in levels > 0" (the check at the end of  *)
(* builder_save_to, and the assertion "Must not overlap" of maybe_add):    *)
(* the binary search over a level's files relies on it.                    *)
LevelsDisjoint ==
  \A l \in 1..(NumLevels - 1) : \A f, g \in files[l] :
    f # g => Before(f.largest, g.smallest) \/ Before(g.largest, f.smallest)

(* A read at any live sequence number finds the newest update of its key   *)
(* at that number, whatever has been flushed, moved, merged and dropped:   *)
(* ldb_get with a snapshot against the whole history.                      *)
ReadsAgree ==
  \A k \in Keys : \A s \in snapshots \cup {last_sequence} :
    Answer(GetEntry(files, k, s)) = Answer(NewestIn(history, k, s))

NewerThan(A, B) == \A a \in A, b \in B : a.key = b.key => a.seq > b.seq
Ents(l) == UNION {f.ents : f \in files[l]}

(* The order the lookup relies on, for every key and not only where a      *)
(* reader looks now: mem is newer than imm, imm than the files, a level-0  *)
(* file than those with smaller numbers, and a level than the deeper ones. *)
LayersOrdered ==
  /\ NewerThan(mem, imm)
  /\ \A l \in Levels : NewerThan(mem \cup imm, Ents(l))
  /\ \A f, g \in files[0] : f.num > g.num => NewerThan(f.ents, g.ents)
  /\ \A l, m \in Levels : l < m => NewerThan(Ents(l), Ents(m))

Weight == MapThenSumSet(LAMBDA l : (NumLevels - l) * TotalSize(files[l]), Levels)

(* Background work comes to an end: every compaction that is installed     *)
(* leaves fewer entries or moves them down, so between two flushes there   *)
(* are only finitely many, and none works on files of an older version.    *)
Descends == [][files' # files /\ imm' = imm => Weight' < Weight]_vars
=============================================================================
