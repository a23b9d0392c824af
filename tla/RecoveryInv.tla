---------------------------- MODULE RecoveryInv ----------------------------
(***************************************************************************)
(* The inductive invariant of Recovery, and the proof that each step of    *)
(* ldb_open keeps it, for any number of writes, files, crashes,            *)
(* compactions and repairs.  RecoveryProofs has the other steps and what   *)
(* follows: whatever the crash, ldb_open finds a manifest it accepts and   *)
(* recovers what was promised (Recoverable), an open database finds every  *)
(* acknowledged write (Served), and a backup is complete (BackupComplete). *)
(*                                                                         *)
(* None of the three is inductive.  What a crash may leave of the manifest *)
(* in use is any prefix that includes its synced records, so the invariant *)
(* says of every such prefix that its tables are whole and that, with the  *)
(* logs it does not retire, it has every synced write; and it says at each *)
(* place of ldb_open, of ldb_repair and of the background thread what is   *)
(* already in a table, in a log or in a manifest, so that the next step,   *)
(* or a crash before it, keeps that.                                       *)
(***************************************************************************)
EXTENDS Recovery, FiniteSetTheorems, WellFoundedInduction, TLAPS

----------------------------------------------------------------------------
(* Types                                                                   *)

Number == Nat \ {0}
LogEntry == [id : Int, seq : Int]
EntrySet == {S \in SUBSET LogEntry : IsFiniteSet(S)}
TableFile == [ents : EntrySet, whole : BOOLEAN]
LogFile == [recs : Seq(LogEntry), synced : Nat]
Edit == [adds : SUBSET Number, dels : SUBSET Number, log : Int, next : {-1} \cup Number, seq : Int]
ManifestFile == [recs : Seq(Edit), synced : Nat]
FileNames == {"log", "manifest", "table", "temp"} \X Number

OpType == [reuse : BOOLEAN, logs : SUBSET Number, rest : Seq(LogEntry), log : Nat, tabs : Nat,
           max : Int, save : BOOLEAN, edit : Edit, kill : SUBSET FileNames, names : Nat,
           good : SUBSET Number, next : Nat, mans : SUBSET Number]
VersionsType == [next : Number, manifest : Nat, desc : Nat, log : Int, seq : Int,
                 live : SUBSET Number]
DbType == [logfile : Nat, mem : EntrySet, imm : EntrySet, has_imm : BOOLEAN, err : BOOLEAN,
           pending : SUBSET Number]
JobKinds == {"none", "flush", "compact", "move"}
PlainJob == [kind : JobKinds, out : Nat, ins : SUBSET Number, edit : Edit, kill : SUBSET FileNames,
             outer : {<<>>}]
JobType == [kind : JobKinds, out : Nat, ins : SUBSET Number, edit : Edit, kill : SUBSET FileNames,
            outer : Seq(PlainJob)]

Starting == {"newdb", "temp", "rename", "recover"}
Replaying == {"logs", "replay"}
Applying == {"apply", "sync", "temp2", "rename2", "install"}
Cleaning == {"clean", "kill"}
Using == {"open", "closing"}
Repairing == {"rep_logs", "rep_arch", "rep_desc", "rep_mans", "rep_temp", "rep_rename"}
BgPlaces == {"idle", "build", "edit", "apply", "sync", "install", "clean", "kill"}

TablesType(ts) ==
  /\ DOMAIN ts \subseteq Number /\ IsFiniteSet(DOMAIN ts)
  /\ \A t \in DOMAIN ts : ts[t] \in TableFile /\ (ts[t].whole => ts[t].ents # {})
LogsType(ls) ==
  /\ DOMAIN ls \subseteq Number /\ IsFiniteSet(DOMAIN ls)
  /\ \A l \in DOMAIN ls : ls[l] \in LogFile /\ ls[l].synced <= Len(ls[l].recs)

\* In a manifest only the first record, a snapshot, lacks its numbers, and they grow.
Ordered(recs) ==
  /\ \A j \in 2..Len(recs) : recs[j].next # -1
  /\ \A j \in 1..Len(recs) : recs[j].next # -1 =>
       /\ recs[j].log < recs[j].next
       /\ \A i \in 1..j : recs[i].next <= recs[j].next /\ \A t \in recs[i].adds : t < recs[j].next
ManifestsType(ms) ==
  /\ DOMAIN ms \subseteq Number
  /\ \A m \in DOMAIN ms : /\ ms[m] \in ManifestFile /\ ms[m].synced <= Len(ms[m].recs)
                          /\ Ordered(ms[m].recs)

DiskTypes ==
  /\ TablesType(tables) /\ LogsType(logs) /\ ManifestsType(manifests)
  /\ temps \subseteq Number /\ IsFiniteSet(temps)
  /\ current \in Nat

MemoryTypes ==
  /\ pc \in {"down"} \cup Starting \cup Replaying \cup Applying \cup Cleaning \cup Using \cup Repairing
  /\ op \in OpType /\ vs \in VersionsType /\ db \in DbType
  /\ bg \in BgPlaces /\ job \in JobType
  /\ written \in Nat
  /\ doubt \in {"no", "repair", "reuse", "lost"}

----------------------------------------------------------------------------
(* The parts of the invariant                                              *)

\* What is in the tables S, in the logs from n on, and in their synced parts.
Holds(ts, S) == UNION {ts[t].ents : t \in S}
SyncedOf(log) == {log.recs[i] : i \in 1..log.synced}
Since(ls, n) == {l \in DOMAIN ls : l >= n}
Logged(ls, n) == UNION {Ents(ls[l].recs) : l \in Since(ls, n)}
Durable(ls, n) == UNION {SyncedOf(ls[l]) : l \in Since(ls, n)}
WholeOf(ts) == {t \in DOMAIN ts : ts[t].whole}

\* The promises hold.
Promised == doubt \in {"no", "reuse"}

\* The manifest in use, and the lengths a crash may leave it with.
InUse == manifests[current].recs
Survivors ==
  IF doubt = "no" THEN Higher(1, manifests[current].synced)..Len(InUse) ELSE {Len(InUse)}

\* A manifest that ldb_open accepts, and with which no synced write is missing; the number
\* it gives the next manifest is not that of the one in use.
Accepted(ts, ls, recs, cur, S) ==
  /\ Numbered(recs) # {}
  /\ LiveOf(recs) \subseteq WholeOf(ts)
  /\ cur < LastEdit(recs).next
  /\ S \subseteq Holds(ts, LiveOf(recs)) \cup Durable(ls, LastEdit(recs).log)

\* What a promise rests on: whatever a crash leaves of the manifest in use is accepted,
\* and all of it has every acknowledged write.
Covered ==
  Promised =>
    IF current = None THEN acked \cup synced = {}
    ELSE /\ current \in DOMAIN manifests /\ Len(InUse) > 0
         /\ \A n \in Survivors : Accepted(tables, logs, SubSeq(InUse, 1, n), current, synced)
         /\ acked \subseteq Holds(tables, LiveOf(InUse)) \cup Logged(logs, LastEdit(InUse).log)

\* Where a repair was cut short, nothing is lost that another cannot find.
Repairable ==
  doubt = "repair" =>
    /\ pc \in {"down"} \cup Repairing
    /\ acked \subseteq Holds(tables, WholeOf(tables)) \cup Logged(logs, 0)
    /\ synced \subseteq Holds(tables, WholeOf(tables)) \cup Durable(logs, 0)

\* ldb_repair on its way.
RepairInv ==
  pc \in Repairing =>
    /\ doubt \in {"repair", "lost"}
    /\ op.good = DOMAIN tables /\ op.next > 0 /\ \A t \in DOMAIN tables : t < op.next
    /\ pc = "rep_logs" => DOMAIN logs = op.logs
    /\ pc = "rep_arch" => /\ DOMAIN logs = op.logs \cup {op.log} /\ op.log \notin op.logs
                          /\ doubt = "repair" =>
                               Ents(logs[op.log].recs) \subseteq Holds(tables, WholeOf(tables))
    /\ pc \in {"rep_desc", "rep_mans", "rep_temp", "rep_rename"} =>
         DOMAIN logs = {} /\ op.good = WholeOf(tables)
    /\ pc \in {"rep_mans", "rep_temp", "rep_rename"} =>
         /\ op.names = 1 /\ op.edit.adds = op.good /\ op.edit.dels = {} /\ op.edit.log = 0
         /\ op.edit.next = op.next
    /\ pc \in {"rep_temp", "rep_rename"} =>
         1 \in DOMAIN manifests /\ manifests[1].recs = <<op.edit>>

\* A new database: its first manifest is there and synced before CURRENT.
FirstEdit == [NoEdit EXCEPT !.log = 0, !.next = 2, !.seq = 0]
StartInv ==
  pc \in Starting =>
    /\ op.edit = NoEdit /\ db = NoDb
    /\ IF pc = "recover" THEN current # None ELSE current = None
    /\ pc \in {"temp", "rename"} =>
         /\ op.names = 1 /\ 1 \in DOMAIN manifests
         /\ manifests[1] = [recs |-> <<FirstEdit>>, synced |-> 1]

\* Which manifest ldb_open will write, if any.
ManifestInv ==
  pc \in Replaying \cup {"apply"} =>
    /\ current \in DOMAIN manifests /\ Numbered(InUse) # {}
    /\ vs.live = LiveOf(InUse) /\ vs.log = LastEdit(InUse).log /\ LastEdit(InUse).next < vs.next
    /\ op.edit.dels = {}
    /\ \/ vs.desc = None /\ vs.manifest = LastEdit(InUse).next /\ op.save
       \/ /\ vs.desc = current /\ vs.manifest = current /\ current # None
          /\ doubt = "no" => manifests[current].synced = Len(InUse)
    /\ pc = "apply" => op.save

\* What ldb_recover has read: of each log a part that is in new tables, in the memtable,
\* or still to come.
ReplayInv ==
  pc \in Replaying =>
    /\ db.imm = {} /\ ~db.has_imm /\ ~db.err /\ db.pending = {}
    /\ op.edit.adds # {} => op.save
    /\ op.edit.adds \subseteq WholeOf(tables) /\ \A t \in op.edit.adds : t < vs.next
    /\ vs.live \subseteq DOMAIN tables
    /\ op.logs \subseteq Since(logs, vs.log)
    /\ IF db.logfile = 0 THEN db.mem = {}
       ELSE /\ pc = "logs" /\ op.logs = {} /\ db.logfile \in Since(logs, vs.log)
            /\ db.mem = Ents(logs[db.logfile].recs)
    /\ pc = "replay" =>
         /\ op.log \in Since(logs, vs.log)
         /\ op.tabs = 0 => op.rest = logs[op.log].recs
         /\ Ents(logs[op.log].recs) \subseteq Ents(op.rest) \cup Holds(tables, op.edit.adds)
    /\ \A l \in Since(logs, vs.log) \ op.logs :
         \/ pc = "replay" /\ l = op.log
         \/ l < vs.next /\ (l # db.logfile =>
                              Ents(logs[l].recs) \subseteq Holds(tables, op.edit.adds))

\* The manifest ldb_open has written: the version it found and the tables it made.
Written == manifests[vs.manifest].recs
ApplyInv ==
  pc \in Applying \ {"apply"} =>
    /\ vs.manifest \in DOMAIN manifests /\ vs.manifest # None /\ op.names = vs.manifest
    /\ LiveOf(Written) = vs.live \cup op.edit.adds
    /\ Numbered(Written) # {} /\ LastEdit(Written) = op.edit
    /\ op.edit.dels = {} /\ op.edit.log = db.logfile /\ op.edit.next = vs.next
    /\ pc # "sync" => manifests[vs.manifest].synced = Len(Written)
    /\ vs.desc # None \/ pc = "install" => vs.manifest = current
    /\ Promised => vs.manifest < vs.next
    /\ Promised /\ vs.desc = None /\ pc # "install" => vs.manifest # current
    /\ pc \in {"temp2", "rename2"} => vs.desc = None

\* The tables that are, or are about to be, in the current version.
View == vs.live \cup (IF pc \in Applying THEN op.edit.adds ELSE {})
Serving == Applying \cup Cleaning \cup Using

\* What is in memory is on disk too: the memtable in the log in use, the immutable one
\* in a log that is kept.
MemoryInv ==
  pc \in Serving =>
    /\ db.logfile \in DOMAIN logs /\ vs.log <= db.logfile /\ \A l \in DOMAIN logs : l < vs.next
    /\ View \subseteq DOMAIN tables /\ \A t \in View : t < vs.next
    /\ db.mem \subseteq Ents(logs[db.logfile].recs)
    /\ db.imm \subseteq Logged(logs, vs.log) /\ (~db.has_imm => db.imm = {})
    /\ pc \notin Using => ~db.has_imm /\ ~db.err /\ db.pending = {}
    /\ pc \in Using => \A t \in DOMAIN tables : t < vs.next

\* Between the memtables and the tables nothing is missing, nor in what a crash leaves.
ServeInv ==
  pc \in Serving /\ Promised =>
    /\ View \subseteq WholeOf(tables)
    /\ acked \cup synced \subseteq db.mem \cup db.imm \cup Holds(tables, View)
    /\ synced \subseteq db.imm \cup Holds(tables, View) \cup SyncedOf(logs[db.logfile])
    /\ synced \subseteq Holds(tables, View) \cup Durable(logs, vs.log)

\* The manifest in use and the version agree exactly as long as there was no error, and
\* a version never has a table that the manifest lacks while a job may still record one.
LinkInv ==
  pc \in Cleaning \cup Using =>
    /\ vs.desc = current /\ vs.manifest = current /\ current # None /\ current \in DOMAIN manifests
    /\ Numbered(InUse) # {} /\ LastEdit(InUse).next <= vs.next
    /\ bg \notin {"sync", "install"} /\ ~db.err =>
         LiveOf(InUse) = vs.live /\ LastEdit(InUse).log = vs.log
    /\ bg \notin {"idle", "sync", "install"} => vs.live \subseteq LiveOf(InUse)
    /\ bg \in {"sync", "install"} =>
         /\ LastEdit(InUse) = job.edit
         /\ (vs.live \ job.edit.dels) \cup job.edit.adds \subseteq LiveOf(InUse)
         /\ ~db.err => LiveOf(InUse) = (vs.live \ job.edit.dels) \cup job.edit.adds
    /\ Promised => \A n \in Survivors : InUse[n].log <= db.logfile
    /\ bg \in {"install", "clean", "kill"} \/ (pc \in Cleaning /\ doubt = "no") =>
         manifests[current].synced = Len(InUse)

\* Files that are being removed are not needed.
Unneeded(f) ==
  CASE f[1] = "log"      -> f[2] < vs.log /\ f[2] < LastEdit(InUse).log
    [] f[1] = "manifest" -> f[2] < vs.manifest
    [] OTHER             -> f[2] \notin vs.live \cup db.pending \cup LiveOf(InUse)

KillInv ==
  /\ pc = "kill" => \A f \in op.kill : Unneeded(f)
  /\ pc = "kill" => \A f \in Files : Kept(f) \/ f \in op.kill
  /\ bg = "kill" => \A f \in job.kill : Unneeded(f)

\* A compaction that is under way, alone or around a flush.
Compacting(c, v, d, ts) ==
  /\ c.kind = "compact" /\ c.outer = <<>> /\ c.kill = {}
  /\ c.ins \subseteq v.live /\ c.ins # {}
  /\ c.out \in DOMAIN ts /\ c.out \in d.pending /\ c.out \notin v.live
JobShape ==
  /\ pc \notin Using => bg = "idle"
  /\ bg = "idle" => job = NoJob
  /\ bg # "idle" =>
       /\ job.kind # "none"
       /\ job.kind = "flush" => job.ins = {}
       /\ Len(job.outer) <= 1
       /\ job.outer # <<>> => /\ job.kind = "flush" /\ Compacting(job.outer[1], vs, db, tables)
                              /\ job.outer[1].out # job.out /\ tables[job.outer[1].out].ents = {}
  /\ bg \in {"clean", "kill"} => job.kind # "move"

\* A table is being built, and has been.
BuildInv ==
  /\ bg \in {"build", "edit"} =>
       /\ job.kind # "move" /\ job.out < vs.next /\ job.out # 0
       /\ job.kind = "flush" => db.has_imm
       /\ job.kind = "compact" => Compacting(job, vs, db, tables)
  /\ bg = "build" =>
       /\ job.kind = "flush" => job.out \notin DOMAIN tables
       /\ job.kind = "compact" => tables[job.out].ents = {}
  /\ bg = "edit" =>
       /\ job.kind = "flush" => IF job.out \in DOMAIN tables
                                THEN tables[job.out].ents = db.imm /\ tables[job.out].whole
                                ELSE db.imm = {}
       /\ job.kind = "compact" => /\ tables[job.out].ents = Holds(tables, job.ins)
                                  /\ Promised => tables[job.out].whole

\* An edit that is being recorded: what it adds has what it retires.
RecordInv ==
  bg \in {"apply", "sync", "install"} =>
    /\ job.edit.next # -1 /\ job.edit.next <= vs.next /\ job.edit.log < job.edit.next
    /\ job.edit.adds \subseteq DOMAIN tables /\ \A t \in job.edit.adds : t < job.edit.next
    /\ bg = "apply" => LastEdit(InUse).next <= job.edit.next
    /\ Promised => job.edit.adds \subseteq WholeOf(tables)
    /\ job.kind = "flush" => /\ db.has_imm /\ job.edit.dels = {} /\ job.edit.log = db.logfile
                             /\ job.edit.adds \subseteq {job.out}
                             /\ Holds(tables, job.edit.adds) = db.imm
    /\ job.kind # "flush" => /\ job.edit.dels = job.ins /\ job.edit.log = vs.log
                             /\ job.ins \subseteq vs.live
                             /\ Holds(tables, job.edit.adds) = Holds(tables, job.ins)
JobInv == JobShape /\ BuildInv /\ RecordInv

RecInv ==
  /\ DiskTypes /\ MemoryTypes /\ Covered /\ Repairable /\ RepairInv /\ StartInv /\ ManifestInv
  /\ ReplayInv /\ ApplyInv /\ MemoryInv /\ ServeInv /\ LinkInv /\ KillInv /\ JobInv

----------------------------------------------------------------------------
(* Facts about the operators the model is built from                       *)

\* A finite set of numbers that is not empty has a greatest and a least member.
LEMMA MaxProps ==
  ASSUME NEW S \in SUBSET Int, IsFiniteSet(S), S # {}
  PROVE  Max(S) \in S /\ \A x \in S : Max(S) >= x
<1> DEFINE C == {c \in Nat : \E T \in SUBSET S : T # {} /\ Cardinality(T) = c
                              /\ \A x \in T, y \in S \ T : x >= y}
<1>1. C # {}
  <2>1. Cardinality(S) \in Nat
    BY FS_CardinalityType
  <2>2. Cardinality(S) \in C
    BY <2>1
  <2> QED
    BY <2>2
<1>2. PICK c \in C : \A d \in C : ~(<<d, c>> \in OpToRel(<, Nat))
  <2>1. C \subseteq Nat
    OBVIOUS
  <2> HIDE DEF C
  <2> QED
    BY <1>1, <2>1, NatLessThanWellFounded, WFMin
<1>w. \A d \in C : ~(d < c)
  BY <1>2 DEF OpToRel
<1>3. PICK T \in SUBSET S : T # {} /\ Cardinality(T) = c /\ \A x \in T, y \in S \ T : x >= y
  OBVIOUS
<1>4. PICK m \in T : TRUE
  BY <1>3
<1>5. ASSUME NEW z \in S, z > m PROVE FALSE
  <2> DEFINE U == {x \in T : x > m}
  <2>1. z \in U
    BY <1>3, <1>4, <1>5
  <2>2. U \in SUBSET T /\ U # T /\ IsFiniteSet(T)
    <3>1. m \in Int /\ ~(m > m)
      BY <1>4
    <3>2. IsFiniteSet(T)
      BY FS_Subset
    <3> QED
      BY <1>4, <3>1, <3>2
  <2>3. Cardinality(U) \in Nat /\ Cardinality(U) < c
    BY <1>3, <2>2, FS_Subset, FS_CardinalityType
  <2>4. \A x \in U, y \in S \ U : x >= y
    <3> SUFFICES ASSUME NEW x \in U, NEW y \in S \ U PROVE x >= y
      OBVIOUS
    <3>1. CASE y \in T
      BY <3>1
    <3>2. CASE y \notin T
      BY <1>3, <3>2
    <3> QED
      BY <3>1, <3>2
  <2>5. Cardinality(U) \in C
    <3> HIDE DEF U
    <3> QED
      BY <2>1, <2>2, <2>3, <2>4
  <2> QED
    BY <1>w, <2>3, <2>5
<1>6. m \in S /\ \A x \in S : m >= x
  BY <1>4, <1>5
<1> QED
  BY <1>6 DEF Max

\* A set of file numbers that is not empty has a least member.
LEMMA MinProps ==
  ASSUME NEW S \in SUBSET Number, S # {}
  PROVE  Min(S) \in S
<1>1. PICK m \in S : \A x \in S : ~(<<x, m>> \in OpToRel(<, Nat))
  <2>1. S \subseteq Nat
    BY DEF Number
  <2> QED
    BY <2>1, NatLessThanWellFounded, WFMin
<1>2. \A x \in S : ~(x < m)
  BY <1>1 DEF OpToRel, Number
<1>3. \A x \in S : m <= x
  BY <1>2 DEF Number
<1> QED
  BY <1>3 DEF Min

\* The same for any natural numbers.
LEMMA LeastNat ==
  ASSUME NEW S \in SUBSET Nat, S # {}
  PROVE  Min(S) \in S /\ \A x \in S : Min(S) <= x
<1>1. PICK m \in S : \A x \in S : ~(<<x, m>> \in OpToRel(<, Nat))
  BY NatLessThanWellFounded, WFMin
<1>2. \A x \in S : ~(x < m)
  BY <1>1 DEF OpToRel
<1>3. \A x \in S : m <= x
  BY <1>2
<1> QED
  BY <1>3 DEF Min

\* The records of a log are finitely many.
LEMMA EntsFinite ==
  ASSUME NEW recs \in Seq(LogEntry)
  PROVE  Ents(recs) \in EntrySet
<1>1. Ents(recs) \subseteq LogEntry
  BY DEF Ents
<1>2. 1..Len(recs) = DOMAIN recs /\ IsFiniteSet(1..Len(recs))
  BY FS_Interval
<1>3. recs \in Surjection(1..Len(recs), Ents(recs))
  BY <1>2 DEF Surjection, Ents
<1>4. IsFiniteSet(Ents(recs))
  BY <1>2, <1>3, FS_Surjection
<1> QED
  BY <1>1, <1>4 DEF EntrySet

\* A record more, and a log cut in two.
LEMMA EntsAppend ==
  ASSUME NEW recs \in Seq(LogEntry), NEW e \in LogEntry
  PROVE  Ents(Append(recs, e)) = Ents(recs) \cup {e}
<1>1. DOMAIN Append(recs, e) = DOMAIN recs \cup {Len(recs) + 1}
  OBVIOUS
<1>2. /\ Append(recs, e)[Len(recs) + 1] = e
      /\ \A i \in DOMAIN recs : Append(recs, e)[i] = recs[i]
  OBVIOUS
<1> QED
  BY <1>1, <1>2, Zenon DEF Ents

\* A log cut after its nth record: the two parts have between them what the log has.
LEMMA EntsCut ==
  ASSUME NEW recs \in Seq(LogEntry), NEW n \in 1..Len(recs)
  PROVE  /\ SubSeq(recs, 1, n) \in Seq(LogEntry) /\ SubSeq(recs, n + 1, Len(recs)) \in Seq(LogEntry)
         /\ Ents(SubSeq(recs, 1, n)) # {}
         /\ Ents(recs) = Ents(SubSeq(recs, 1, n)) \cup Ents(SubSeq(recs, n + 1, Len(recs)))
<1> DEFINE a == SubSeq(recs, 1, n)
           b == SubSeq(recs, n + 1, Len(recs))
<1>1. /\ a \in Seq(LogEntry) /\ Len(a) = n /\ \A i \in 1..n : a[i] = recs[i]
  OBVIOUS
<1>2. /\ b \in Seq(LogEntry) /\ Len(b) = Len(recs) - n
      /\ \A i \in 1..(Len(recs) - n) : b[i] = recs[n + i]
  OBVIOUS
<1> HIDE DEF a, b
<1>d. DOMAIN a = 1..n /\ DOMAIN b = 1..(Len(recs) - n) /\ DOMAIN recs = 1..Len(recs)
  BY <1>1, <1>2
<1>3. ASSUME NEW e \in Ents(recs) PROVE e \in Ents(a) \cup Ents(b)
  <2>1. PICK i \in 1..Len(recs) : e = recs[i]
    BY <1>d DEF Ents
  <2>2. CASE i <= n
    BY <1>1, <1>d, <2>1, <2>2 DEF Ents
  <2>3. CASE i > n
    <3>1. i - n \in 1..(Len(recs) - n) /\ n + (i - n) = i
      BY <2>3
    <3> QED
      BY <1>2, <1>d, <2>1, <3>1 DEF Ents
  <2> QED
    BY <2>2, <2>3
<1>4. ASSUME NEW e \in Ents(a) \cup Ents(b) PROVE e \in Ents(recs)
  <2>1. CASE e \in Ents(a)
    <3>1. PICK i \in 1..n : e = recs[i]
      BY <1>1, <1>d, <2>1 DEF Ents
    <3> QED
      BY <1>d, <3>1 DEF Ents
  <2>2. CASE e \in Ents(b)
    <3>1. PICK i \in 1..(Len(recs) - n) : e = recs[n + i]
      BY <1>2, <1>d, <2>2 DEF Ents
    <3>2. n + i \in 1..Len(recs)
      OBVIOUS
    <3> QED
      BY <1>d, <3>1, <3>2 DEF Ents
  <2> QED
    BY <2>1, <2>2
<1>5. Ents(a) # {}
  <2>1. 1 \in DOMAIN a
    BY <1>d
  <2> QED
    BY <2>1 DEF Ents
<1> QED
  BY <1>1, <1>2, <1>3, <1>4, <1>5 DEF a, b

----------------------------------------------------------------------------
(* Manifests                                                               *)

\* An edit at the end takes its deletions away and brings its additions.
LEMMA LiveAppend ==
  ASSUME NEW recs \in Seq(Edit), NEW e \in Edit
  PROVE  LiveOf(Append(recs, e)) = (LiveOf(recs) \ e.dels) \cup e.adds
<1> DEFINE new == Append(recs, e)
           n == Len(recs)
<1>1. DOMAIN new = 1..(n + 1) /\ DOMAIN recs = 1..n /\ n \in Nat
  OBVIOUS
<1>2. new[n + 1] = e /\ \A i \in 1..n : new[i] = recs[i]
  OBVIOUS
<1> HIDE DEF new, n
<1>3. ASSUME NEW t \in LiveOf(new) PROVE t \in (LiveOf(recs) \ e.dels) \cup e.adds
  <2>1. PICK i \in 1..(n + 1) : /\ t \in new[i].adds
                                /\ \A j \in 1..(n + 1) : j > i => t \notin new[j].dels
    BY <1>1 DEF LiveOf
  <2>2. CASE i = n + 1
    BY <1>2, <2>1, <2>2
  <2>3. CASE i # n + 1
    <3>1. i \in 1..n /\ t \in recs[i].adds
      BY <1>1, <1>2, <2>1, <2>3
    <3>2. \A j \in 1..n : j > i => t \notin recs[j].dels
      BY <1>1, <1>2, <2>1
    <3>3. t \notin e.dels
      BY <1>1, <1>2, <2>1, <2>3
    <3> QED
      BY <1>1, <3>1, <3>2, <3>3 DEF LiveOf
  <2> QED
    BY <2>2, <2>3
<1>4. ASSUME NEW t \in LiveOf(recs), t \notin e.dels PROVE t \in LiveOf(new)
  <2>1. PICK i \in 1..n : t \in recs[i].adds /\ \A j \in 1..n : j > i => t \notin recs[j].dels
    BY <1>1 DEF LiveOf
  <2>2. i \in 1..(n + 1) /\ t \in new[i].adds
    BY <1>1, <1>2, <2>1
  <2>3. \A j \in 1..(n + 1) : j > i => t \notin new[j].dels
    <3> SUFFICES ASSUME NEW j \in 1..(n + 1), j > i PROVE t \notin new[j].dels
      OBVIOUS
    <3>1. CASE j = n + 1
      BY <1>2, <1>4, <3>1
    <3>2. CASE j # n + 1
      BY <1>1, <1>2, <2>1, <3>2
    <3> QED
      BY <3>1, <3>2
  <2> QED
    BY <1>1, <2>2, <2>3 DEF LiveOf
<1>5. ASSUME NEW t \in e.adds PROVE t \in LiveOf(new)
  <2>1. n + 1 \in 1..(n + 1) /\ t \in new[n + 1].adds /\ \A j \in 1..(n + 1) : ~(j > n + 1)
    BY <1>1, <1>2
  <2> QED
    BY <1>1, <2>1 DEF LiveOf
<1>6. LiveOf(new) = (LiveOf(recs) \ e.dels) \cup e.adds
  BY <1>3, <1>4, <1>5
<1> QED
  BY <1>6 DEF new

\* What the last record is to ldb_versions_recover when it has the numbers.
LEMMA LastProps ==
  ASSUME NEW recs \in Seq(Edit), Len(recs) > 0, recs[Len(recs)].next # -1
  PROVE  Numbered(recs) # {} /\ LastEdit(recs) = recs[Len(recs)]
<1>1. Len(recs) \in Numbered(recs) /\ Numbered(recs) \subseteq 1..Len(recs)
  BY DEF Numbered
<1>2. Max(Numbered(recs)) = Len(recs)
  <2>1. \A y \in Numbered(recs) : Len(recs) >= y
    BY <1>1
  <2>2. \A x \in Numbered(recs) : (\A y \in Numbered(recs) : x >= y) => x = Len(recs)
    BY <1>1
  <2> QED
    BY <1>1, <2>1, <2>2 DEF Max
<1> QED
  BY <1>1, <1>2 DEF LastEdit

\* In an ordered manifest the last record with numbers is the last record.
LEMMA LastOrdered ==
  ASSUME NEW recs \in Seq(Edit), Ordered(recs), Numbered(recs) # {}
  PROVE  /\ Len(recs) > 0 /\ recs[Len(recs)].next # -1 /\ LastEdit(recs) = recs[Len(recs)]
         /\ LastEdit(recs) \in Edit /\ LastEdit(recs).log < LastEdit(recs).next
         /\ LastEdit(recs).next \in Number
<1>1. PICK i \in 1..Len(recs) : recs[i].next # -1
  BY DEF Numbered
<1>2. Len(recs) \in Nat /\ Len(recs) > 0
  OBVIOUS
<1>3. recs[Len(recs)].next # -1
  <2>1. CASE Len(recs) = 1
    BY <1>1, <2>1
  <2>2. CASE Len(recs) > 1
    BY <1>2, <2>2 DEF Ordered
  <2>0. \A n \in Nat : n > 0 => n = 1 \/ n > 1
    OBVIOUS
  <2>3. Len(recs) = 1 \/ Len(recs) > 1
    BY <1>2, <2>0, Zenon
  <2> QED
    BY <2>1, <2>2, <2>3, Zenon
<1>4. recs[Len(recs)] \in Edit
  BY <1>2
<1>5. recs[Len(recs)].log < recs[Len(recs)].next
  BY <1>2, <1>3 DEF Ordered
<1>6. LastEdit(recs) = recs[Len(recs)]
  BY <1>2, <1>3, LastProps
<1> QED
  BY <1>2, <1>3, <1>4, <1>5, <1>6 DEF Edit

\* An edit with numbers that is appended is the last one.
LEMMA LastAppend ==
  ASSUME NEW recs \in Seq(Edit), NEW e \in Edit, e.next # -1
  PROVE  /\ Append(recs, e) \in Seq(Edit) /\ Len(Append(recs, e)) = Len(recs) + 1
         /\ Numbered(Append(recs, e)) # {} /\ LastEdit(Append(recs, e)) = e
<1> DEFINE new == Append(recs, e)
<1>1. new \in Seq(Edit) /\ Len(new) = Len(recs) + 1 /\ new[Len(recs) + 1] = e
  OBVIOUS
<1> HIDE DEF new
<1>2. Len(new) > 0 /\ new[Len(new)] = e
  BY <1>1
<1>3. Numbered(new) # {} /\ LastEdit(new) = e
  BY <1>1, <1>2, LastProps
<1> QED
  BY <1>1, <1>3 DEF new

\* What begins a manifest, as a crash leaves it.
LEMMA PrefixProps ==
  ASSUME NEW recs \in Seq(Edit), NEW n \in 0..Len(recs)
  PROVE  /\ SubSeq(recs, 1, n) \in Seq(Edit) /\ Len(SubSeq(recs, 1, n)) = n
         /\ \A i \in 1..n : SubSeq(recs, 1, n)[i] = recs[i]
         /\ \A m \in 0..n : SubSeq(SubSeq(recs, 1, n), 1, m) = SubSeq(recs, 1, m)
         /\ SubSeq(recs, 1, Len(recs)) = recs
         /\ \A e \in Edit : SubSeq(Append(recs, e), 1, n) = SubSeq(recs, 1, n)
<1>1. /\ SubSeq(recs, 1, n) \in Seq(Edit) /\ Len(SubSeq(recs, 1, n)) = n
      /\ \A i \in 1..n : SubSeq(recs, 1, n)[i] = recs[i]
  OBVIOUS
<1>2. SubSeq(recs, 1, Len(recs)) = recs
  OBVIOUS
<1>3. ASSUME NEW m \in 0..n PROVE SubSeq(SubSeq(recs, 1, n), 1, m) = SubSeq(recs, 1, m)
  BY <1>1, <1>3
<1>4. ASSUME NEW e \in Edit PROVE SubSeq(Append(recs, e), 1, n) = SubSeq(recs, 1, n)
  OBVIOUS
<1> QED
  BY <1>1, <1>2, <1>3, <1>4

\* A number that is above all that a manifest mentions.
Below(recs, k) == \A i \in 1..Len(recs) : recs[i].next <= k /\ \A t \in recs[i].adds : t < k

\* What an ordered manifest names is below the next number of its last record.
LEMMA OrderedBelow ==
  ASSUME NEW recs \in Seq(Edit), Ordered(recs), Numbered(recs) # {},
         NEW k \in Int, LastEdit(recs).next <= k
  PROVE  Below(recs, k)
<1> DEFINE m == LastEdit(recs).next
<1>1. Len(recs) \in Nat /\ Len(recs) > 0 /\ recs[Len(recs)].next # -1 /\ recs[Len(recs)].next = m
      /\ m \in Int
  BY LastOrdered DEF Number
<1>2. \A i \in 1..Len(recs) : recs[i].next <= m /\ \A t \in recs[i].adds : t < m
  <2>1. Len(recs) \in 1..Len(recs)
    BY <1>1
  <2> HIDE DEF m
  <2> QED
    BY <1>1, <2>1 DEF Ordered
<1>3. ASSUME NEW i \in 1..Len(recs) PROVE recs[i].next \in Int /\ recs[i].adds \subseteq Int
  <2>1. recs[i] \in Edit
    OBVIOUS
  <2> QED
    BY <2>1 DEF Edit, Number
<1> HIDE DEF m
<1>4. m <= k
  BY DEF m
<1>5. ASSUME NEW i \in 1..Len(recs) PROVE recs[i].next <= k /\ \A t \in recs[i].adds : t < k
  <2>1. recs[i].next \in Int /\ recs[i].adds \subseteq Int /\ recs[i].next <= m /\ m \in Int
        /\ \A t \in recs[i].adds : t < m
    BY <1>1, <1>2, <1>3
  <2>2. \A x \in Int : (x <= m => x <= k) /\ (x < m => x < k)
    BY <1>1, <1>4
  <2> QED
    BY <2>1, <2>2, Zenon
<1> QED
  BY <1>5 DEF Below

\* What a crash leaves of an ordered manifest is ordered.
LEMMA OrderedPrefix ==
  ASSUME NEW recs \in Seq(Edit), Ordered(recs), NEW n \in 0..Len(recs)
  PROVE  Ordered(SubSeq(recs, 1, n))
<1> DEFINE s == SubSeq(recs, 1, n)
<1>1. Len(s) = n /\ (\A i \in 1..n : s[i] = recs[i]) /\ n \in Nat /\ n <= Len(recs)
  BY PrefixProps
<1> HIDE DEF s
<1>2. \A j \in 2..n : s[j].next # -1
  BY <1>1 DEF Ordered
<1>3. ASSUME NEW j \in 1..n, s[j].next # -1
      PROVE  /\ s[j].log < s[j].next
             /\ \A i \in 1..j : s[i].next <= s[j].next /\ \A t \in s[i].adds : t < s[j].next
  <2>1. s[j] = recs[j] /\ j \in 1..Len(recs) /\ \A i \in 1..j : s[i] = recs[i]
    BY <1>1
  <2> QED
    BY <1>3, <2>1 DEF Ordered
<1>4. Ordered(s)
  BY <1>1, <1>2, <1>3 DEF Ordered
<1> QED
  BY <1>4 DEF s

\* An edit with numbers as high as those before it keeps a manifest ordered.
LEMMA OrderedAppend ==
  ASSUME NEW recs \in Seq(Edit), Ordered(recs), NEW e \in Edit, Below(recs, e.next),
         e.next = -1 => recs = <<>>, e.next # -1 => e.log < e.next /\ \A t \in e.adds : t < e.next
  PROVE  Ordered(Append(recs, e))
<1> DEFINE s == Append(recs, e)
           n == Len(recs)
<1>1. Len(s) = n + 1 /\ s[n + 1] = e /\ (\A i \in 1..n : s[i] = recs[i]) /\ n \in Nat
  OBVIOUS
<1>0. e.next = -1 => n = 0
  OBVIOUS
<1>e. e.next \in Int
  BY DEF Edit, Number
<1> HIDE DEF s
<1>2. ASSUME NEW j \in 2..(n + 1) PROVE s[j].next # -1
  <2>1. CASE j = n + 1
    BY <1>0, <1>1, <2>1
  <2>2. CASE j # n + 1
    <3>1. j \in 2..n
      BY <1>1, <2>2
    <3> QED
      BY <1>1, <3>1 DEF Ordered
  <2> QED
    BY <2>1, <2>2
<1>3. ASSUME NEW j \in 1..(n + 1), s[j].next # -1
      PROVE  /\ s[j].log < s[j].next
             /\ \A i \in 1..j : s[i].next <= s[j].next /\ \A t \in s[i].adds : t < s[j].next
  <2>1. CASE j = n + 1
    <3>1. s[j] = e /\ e.next # -1
      BY <1>1, <1>3, <2>1
    <3>2. \A i \in 1..n : s[i].next <= e.next /\ \A t \in s[i].adds : t < e.next
      BY <1>1 DEF Below
    <3>3. \A i \in 1..j : i \in 1..n \/ s[i] = e
      BY <1>1, <2>1
    <3> QED
      BY <1>e, <3>1, <3>2, <3>3
  <2>2. CASE j # n + 1
    <3>1. j \in 1..n /\ s[j] = recs[j] /\ \A i \in 1..j : s[i] = recs[i]
      BY <1>1, <2>2
    <3> QED
      BY <1>3, <3>1 DEF Ordered
  <2> QED
    BY <2>1, <2>2
<1>4. Ordered(s)
  BY <1>1, <1>2, <1>3 DEF Ordered
<1> QED
  BY <1>4 DEF s

\* A table that any part of a manifest lists has a number below.
LEMMA LiveBelow ==
  ASSUME NEW recs \in Seq(Edit), NEW k \in Int, Below(recs, k), NEW n \in 0..Len(recs)
  PROVE  \A t \in LiveOf(SubSeq(recs, 1, n)) : t < k
<1> DEFINE s == SubSeq(recs, 1, n)
<1>1. Len(s) = n /\ s \in Seq(Edit) /\ (\A i \in 1..n : s[i] = recs[i]) /\ n \in Nat /\ n <= Len(recs)
  BY PrefixProps
<1> HIDE DEF s
<1>2. ASSUME NEW t \in LiveOf(s) PROVE t < k
  <2>1. PICK i \in 1..n : t \in s[i].adds
    BY <1>1 DEF LiveOf
  <2>2. i \in 1..Len(recs) /\ t \in recs[i].adds
    BY <1>1, <2>1
  <2> QED
    BY <2>2 DEF Below
<1> QED
  BY <1>2 DEF s

\* A manifest of one record.
LEMMA SingleEdit ==
  ASSUME NEW e \in Edit
  PROVE  /\ <<e>> \in Seq(Edit) /\ Len(<<e>>) = 1 /\ <<e>>[1] = e
         /\ LiveOf(<<e>>) = e.adds
         /\ e.next # -1 => Numbered(<<e>>) # {} /\ LastEdit(<<e>>) = e
         /\ (e.next # -1 => e.log < e.next /\ \A t \in e.adds : t < e.next) => Ordered(<<e>>)
<1>1. <<e>> \in Seq(Edit) /\ Len(<<e>>) = 1 /\ <<e>>[1] = e
  OBVIOUS
<1>2. <<e>> = Append(<<>>, e) /\ <<>> \in Seq(Edit) /\ Len(<<>>) = 0
  OBVIOUS
<1>3. LiveOf(<<>>) = {} /\ Ordered(<<>>) /\ Below(<<>>, e.next)
  BY <1>2 DEF LiveOf, Ordered, Below
<1>4. LiveOf(<<e>>) = e.adds
  BY <1>2, <1>3, LiveAppend
<1>5. ASSUME e.next # -1 PROVE Numbered(<<e>>) # {} /\ LastEdit(<<e>>) = e
  BY <1>2, <1>5, LastAppend
<1>6. ASSUME e.next # -1 => e.log < e.next /\ \A t \in e.adds : t < e.next PROVE Ordered(<<e>>)
  BY <1>2, <1>3, <1>6, OrderedAppend
<1> QED
  BY <1>1, <1>4, <1>5, <1>6

----------------------------------------------------------------------------
(* What is in tables and logs                                              *)

\* More tables, or more in each, hold more.
LEMMA HoldsMono ==
  ASSUME NEW ts, NEW us, NEW S, NEW T, S \subseteq T, \A t \in S : ts[t].ents \subseteq us[t].ents
  PROVE  Holds(ts, S) \subseteq Holds(us, T)
BY DEF Holds

\* What tables hold, by parts.
LEMMA HoldsUnion ==
  ASSUME NEW ts, NEW S, NEW T
  PROVE  /\ Holds(ts, S \cup T) = Holds(ts, S) \cup Holds(ts, T)
         /\ Holds(ts, S) \subseteq Holds(ts, S \ T) \cup Holds(ts, T)
         /\ \A t : Holds(ts, {t}) = ts[t].ents
         /\ Holds(ts, {}) = {}
BY DEF Holds

\* A log that has at least what another had, and as much of it synced.
LogGrows(a, b) == Ents(a.recs) \subseteq Ents(b.recs) /\ SyncedOf(a) \subseteq SyncedOf(b)

\* Logs that only grow lose nothing, synced or not.
LEMMA LogsMono ==
  ASSUME NEW ls, NEW ms, NEW n, NEW k,
         \A l \in Since(ls, n) : l \in Since(ms, k) /\ LogGrows(ls[l], ms[l])
  PROVE  Logged(ls, n) \subseteq Logged(ms, k) /\ Durable(ls, n) \subseteq Durable(ms, k)
BY DEF Logged, Durable, LogGrows

\* One log's part of it.
LEMMA LogsOne ==
  ASSUME NEW ls, NEW n, NEW l \in Since(ls, n)
  PROVE  Ents(ls[l].recs) \subseteq Logged(ls, n) /\ SyncedOf(ls[l]) \subseteq Durable(ls, n)
BY DEF Logged, Durable

\* What is synced is there.
LEMMA SyncedLogged ==
  ASSUME NEW ls, LogsType(ls), NEW n
  PROVE  /\ \A l \in DOMAIN ls : SyncedOf(ls[l]) \subseteq Ents(ls[l].recs)
         /\ Durable(ls, n) \subseteq Logged(ls, n)
<1>1. ASSUME NEW l \in DOMAIN ls PROVE SyncedOf(ls[l]) \subseteq Ents(ls[l].recs)
  <2>1. ls[l].recs \in Seq(LogEntry) /\ ls[l].synced \in Nat /\ ls[l].synced <= Len(ls[l].recs)
    BY DEF LogsType, LogFile
  <2>2. \A i \in 1..ls[l].synced : i \in DOMAIN ls[l].recs
    BY <2>1
  <2> QED
    BY <2>2 DEF SyncedOf, Ents
<1> QED
  BY <1>1 DEF Durable, Logged, Since

----------------------------------------------------------------------------
(* Torn bytes                                                              *)

\* Whatever is not in front of the first torn bytes of a file is behind them.
LEMMA SolidProps ==
  ASSUME NEW kind, NEW n, NEW T, NEW recs \in Seq(T)
  PROVE  /\ Solid(kind, n, recs) \in 0..Len(recs)
         /\ \A i \in 1..Len(recs) : i > Solid(kind, n, recs) => Behind(kind, n, i)
<1> DEFINE S == {k \in 0..Len(recs) : k = Len(recs) \/ <<kind, n, k>> \in torn}
<1>1. Len(recs) \in S /\ S \subseteq Nat
  OBVIOUS
<1>2. Min(S) \in S
  <2> HIDE DEF S
  <2> QED
    BY <1>1, LeastNat
<1>3. Solid(kind, n, recs) = Min(S)
  BY DEF Solid
<1> DEFINE k == Min(S)
<1>4. k \in 0..Len(recs) /\ (k = Len(recs) \/ <<kind, n, k>> \in torn)
  BY <1>2
<1> HIDE DEF k, S
<1>5. ASSUME NEW i \in 1..Len(recs), i > k PROVE Behind(kind, n, i)
  <2>1. k \in 0..i - 1 /\ k # Len(recs)
    BY <1>4, <1>5
  <2> QED
    BY <1>4, <2>1 DEF Behind
<1> QED
  BY <1>3, <1>4, <1>5 DEF k

\* Two sequences one after the other.
LEMMA ConcatProps ==
  ASSUME NEW T, NEW a \in Seq(T), NEW b \in Seq(T)
  PROVE  /\ a \o b \in Seq(T) /\ Len(a \o b) = Len(a) + Len(b)
         /\ \A i \in 1..Len(a) : (a \o b)[i] = a[i]
         /\ \A i \in (Len(a) + 1)..(Len(a) + Len(b)) : (a \o b)[i] = b[i - Len(a)]
OBVIOUS

\* What is read of a file from which c records behind the first k are dropped.
LEMMA LoseProps ==
  ASSUME NEW T, NEW recs \in Seq(T), NEW synced_ \in Nat, synced_ <= Len(recs), NEW k \in 0..Len(recs),
         NEW c \in 0..(Len(recs) - k), NEW file, file.recs = recs, file.synced = synced_,
         NEW f, f = Lose(file, k, c)
  PROVE  /\ f = [recs |-> f.recs, synced |-> f.synced]
         /\ f.recs \in Seq(T) /\ f.synced \in Nat /\ f.synced <= Len(f.recs)
         /\ Len(f.recs) = Len(recs) - c
         /\ \A i \in 1..k : f.recs[i] = recs[i] /\ (i <= synced_ => i <= f.synced)
         /\ \A i \in (k + 1)..(Len(recs) - c) : f.recs[i] = recs[i + c]
         /\ c = 0 => f.synced = synced_
<1> DEFINE a == SubSeq(recs, 1, k)
           b == SubSeq(recs, k + c + 1, Len(recs))
<1>1. /\ a \in Seq(T) /\ Len(a) = k /\ \A i \in 1..k : a[i] = recs[i]
  OBVIOUS
<1>2. /\ b \in Seq(T) /\ Len(b) = Len(recs) - k - c
      /\ \A i \in 1..(Len(recs) - k - c) : b[i] = recs[k + c + i]
  OBVIOUS
<1>3. f = [recs |-> a \o b, synced |-> Higher(Lower(k, synced_), synced_ - c)]
  BY DEF Lose
<1> HIDE DEF a, b
<1>4. f.recs = a \o b /\ f.synced = Higher(Lower(k, synced_), synced_ - c)
      /\ f = [recs |-> f.recs, synced |-> f.synced]
  <2>1. ASSUME NEW x, NEW y, f = [recs |-> x, synced |-> y]
        PROVE  f.recs = x /\ f.synced = y /\ f = [recs |-> f.recs, synced |-> f.synced]
    BY <2>1
  <2> QED
    BY <1>3, <2>1
<1>5. /\ a \o b \in Seq(T) /\ Len(a \o b) = Len(recs) - c
      /\ \A i \in 1..k : (a \o b)[i] = recs[i]
      /\ \A i \in (k + 1)..(Len(recs) - c) : (a \o b)[i] = b[i - k]
  <2>1. Len(recs) \in Nat /\ Len(a) + Len(b) = Len(recs) - c
    BY <1>1, <1>2
  <2> QED
    <3>1. a \o b \in Seq(T) /\ Len(a \o b) = Len(a) + Len(b)
          /\ (\A i \in 1..Len(a) : (a \o b)[i] = a[i])
          /\ \A i \in (Len(a) + 1)..(Len(a) + Len(b)) : (a \o b)[i] = b[i - Len(a)]
      BY <1>1, <1>2, ConcatProps
    <3> QED
      BY <1>1, <2>1, <3>1
<1>6. \A i \in (k + 1)..(Len(recs) - c) : b[i - k] = recs[i + c]
  <2> TAKE i \in (k + 1)..(Len(recs) - c)
  <2>1. i - k \in 1..(Len(recs) - k - c) /\ k + c + (i - k) = i + c
    OBVIOUS
  <2> QED
    BY <1>2, <2>1
<1>7. /\ f.synced \in Nat /\ f.synced <= Len(recs) - c
      /\ \A i \in 1..k : i <= synced_ => i <= f.synced
      /\ c = 0 => f.synced = synced_
  BY <1>4 DEF Higher, Lower
<1> QED
  BY <1>4, <1>5, <1>6, <1>7

\* A sequence from which records in the middle or at the end are dropped.
Skips(recs, s) ==
  \E k \in Nat, e \in Nat :
    /\ k + e <= Len(recs) /\ Len(s) = Len(recs) - e
    /\ \A i \in 1..k : s[i] = recs[i]
    /\ \A i \in (k + 1)..(Len(recs) - e) : s[i] = recs[i + e]

\* The same of a file that is read back, with what the reader may drop.
LEMMA ReadFile ==
  ASSUME NEW kind, NEW files, NEW T, NEW c \in Losses(kind, files), NEW n \in DOMAIN files,
         files[n] \in [recs : Seq(T), synced : Nat], files[n].synced <= Len(files[n].recs)
  PROVE  /\ DOMAIN ReadBack(kind, files, c) = DOMAIN files
         /\ ReadBack(kind, files, c)[n] \in [recs : Seq(T), synced : Nat]
         /\ ReadBack(kind, files, c)[n].synced <= Len(ReadBack(kind, files, c)[n].recs)
         /\ Ents(ReadBack(kind, files, c)[n].recs) \subseteq Ents(files[n].recs)
         /\ Skips(files[n].recs, ReadBack(kind, files, c)[n].recs)
         /\ \A i \in DOMAIN files[n].recs :
              \/ Behind(kind, n, i)
              \/ /\ files[n].recs[i] \in Ents(ReadBack(kind, files, c)[n].recs)
                 /\ i <= files[n].synced => files[n].recs[i] \in SyncedOf(ReadBack(kind, files, c)[n])
         /\ (\A i \in DOMAIN files[n].recs : ~Behind(kind, n, i)) =>
              ReadBack(kind, files, c)[n] = files[n]
<1> DEFINE recs == files[n].recs
           k == Solid(kind, n, recs)
           f == Lose(files[n], k, c[n])
           sy == files[n].synced
<1>1. recs \in Seq(T) /\ sy \in Nat /\ sy <= Len(recs) /\ Len(recs) \in Nat /\ DOMAIN recs = 1..Len(recs)
  OBVIOUS
<1>2. k \in 0..Len(recs) /\ \A i \in 1..Len(recs) : i > k => Behind(kind, n, i)
  <2> HIDE DEF recs
  <2> QED
    BY <1>1, SolidProps
<1>3. c[n] \in 0..(Len(recs) - k)
  <2>1. c[n] \in 0..Longest(files) /\ c[n] <= Len(recs) - k
    BY DEF Losses
  <2> HIDE DEF k, recs
  <2> QED
    BY <1>1, <1>2, <2>1
<1>4. DOMAIN ReadBack(kind, files, c) = DOMAIN files /\ ReadBack(kind, files, c)[n] = f
  BY DEF ReadBack
<1>f. files[n].recs = recs /\ files[n].synced = sy
  OBVIOUS
<1> DEFINE d == c[n]
<1>d. d \in 0..(Len(recs) - k) /\ f = Lose(files[n], k, d)
  BY <1>3
<1> DEFINE file == files[n]
<1>g. file.recs = recs /\ file.synced = sy /\ f = Lose(file, k, d)
  BY <1>d
<1> HIDE DEF recs, k, f, sy, d, file
<1>5. /\ f = [recs |-> f.recs, synced |-> f.synced]
      /\ f.recs \in Seq(T) /\ f.synced \in Nat /\ f.synced <= Len(f.recs)
      /\ Len(f.recs) = Len(recs) - d
      /\ \A i \in 1..k : f.recs[i] = recs[i] /\ (i <= sy => i <= f.synced)
      /\ \A i \in (k + 1)..(Len(recs) - d) : f.recs[i] = recs[i + d]
      /\ d = 0 => f.synced = sy
  <2>1. /\ recs \in Seq(T) /\ sy \in Nat /\ sy <= Len(recs) /\ k \in 0..Len(recs)
        /\ d \in 0..(Len(recs) - k)
    BY <1>1, <1>2, <1>d
  <2> QED
    BY ONLY <2>1, <1>g, LoseProps
<1>6. f \in [recs : Seq(T), synced : Nat]
  BY <1>5
<1>7. Ents(f.recs) \subseteq Ents(recs)
  <2>d. DOMAIN f.recs = 1..(Len(recs) - d)
    BY <1>5
  <2> SUFFICES ASSUME NEW i \in 1..(Len(recs) - d) PROVE \E j \in 1..Len(recs) : f.recs[i] = recs[j]
    BY <1>1, <2>d DEF Ents
  <2>1. CASE i <= k
    BY <1>1, <1>2, <1>5, <2>1
  <2>2. CASE i > k
    <3>1. i \in (k + 1)..(Len(recs) - d) /\ i + d \in 1..Len(recs)
      BY <1>1, <1>2, <1>d, <2>2
    <3> QED
      BY <1>5, <3>1
  <2> QED
    BY <1>2, <2>1, <2>2
<1>8. ASSUME NEW i \in 1..Len(recs), ~Behind(kind, n, i)
      PROVE  recs[i] \in Ents(f.recs) /\ (i <= sy => recs[i] \in SyncedOf(f))
  <2>1. i \in 1..k /\ i \in 1..Len(f.recs)
    BY <1>1, <1>2, <1>5, <1>8, <1>d
  <2>2. f.recs[i] = recs[i] /\ (i <= sy => i \in 1..f.synced)
    BY <1>5, <2>1
  <2> QED
    BY <1>5, <2>1, <2>2 DEF Ents, SyncedOf
<1>9. ASSUME \A i \in 1..Len(recs) : ~Behind(kind, n, i) PROVE f = files[n]
  <2>1. k = Len(recs)
    <3>1. CASE Len(recs) = 0
      BY <1>2, <3>1
    <3>2. CASE Len(recs) # 0
      <4>1. Len(recs) \in 1..Len(recs)
        BY <1>1, <3>2
      <4> QED
        BY <1>1, <1>2, <1>9, <4>1
    <3> QED
      BY <3>1, <3>2
  <2>2. d = 0
    BY <1>1, <1>d, <2>1
  <2>3. f.recs = recs
    <3>1. f.recs \in Seq(T) /\ Len(f.recs) = Len(recs) /\ \A i \in 1..Len(recs) : f.recs[i] = recs[i]
      BY <1>1, <1>5, <2>1, <2>2
    <3> QED
      BY <1>1, <3>1
  <2>4. f.synced = sy
    BY <1>5, <2>2
  <2>5. files[n] = [recs |-> files[n].recs, synced |-> files[n].synced]
    OBVIOUS
  <2> QED
    BY <1>5, <1>f, <2>3, <2>4, <2>5
<1>s. Skips(recs, f.recs)
  <2>1. k \in Nat /\ d \in Nat /\ k + d <= Len(recs)
    BY <1>1, <1>2, <1>d
  <2> QED
    BY <1>5, <2>1 DEF Skips
<1> QED
  BY <1>1, <1>4, <1>5, <1>6, <1>7, <1>8, <1>9, <1>f, <1>s

\* The logs that are read back have all that is not behind torn bytes, and nothing else.
LEMMA LogsReadBack ==
  ASSUME LogsType(logs), NEW c \in Losses("log", logs), NEW ls, ls = ReadBack("log", logs, c)
  PROVE  /\ LogsType(ls) /\ DOMAIN ls = DOMAIN logs
         /\ \A l \in DOMAIN logs : Ents(ls[l].recs) \subseteq Ents(logs[l].recs)
         /\ \A n : Logged(logs, n) \ Doubtful \subseteq Logged(ls, n)
         /\ \A n : Durable(logs, n) \ Doubtful \subseteq Durable(ls, n)
<1>0. DOMAIN ls = DOMAIN logs
  BY DEF ReadBack
<1>1. ASSUME NEW l \in DOMAIN logs
      PROVE  /\ ls[l] \in LogFile /\ ls[l].synced <= Len(ls[l].recs)
             /\ Ents(ls[l].recs) \subseteq Ents(logs[l].recs)
             /\ \A i \in DOMAIN logs[l].recs :
                  \/ Behind("log", l, i)
                  \/ /\ logs[l].recs[i] \in Ents(ls[l].recs)
                     /\ i <= logs[l].synced => logs[l].recs[i] \in SyncedOf(ls[l])
  <2>1. logs[l] \in [recs : Seq(LogEntry), synced : Nat] /\ logs[l].synced <= Len(logs[l].recs)
    BY DEF LogsType, LogFile
  <2> QED
    BY <2>1, ReadFile DEF LogFile
<1>2. LogsType(ls)
  BY <1>0, <1>1 DEF LogsType
<1>3. ASSUME NEW l \in DOMAIN logs
      PROVE  /\ Ents(logs[l].recs) \ Doubtful \subseteq Ents(ls[l].recs)
             /\ SyncedOf(logs[l]) \ Doubtful \subseteq SyncedOf(ls[l])
  <2>1. \A i \in DOMAIN logs[l].recs : Behind("log", l, i) => logs[l].recs[i] \in Doubtful
    BY DEF Doubtful
  <2>2. logs[l].recs \in Seq(LogEntry) /\ logs[l].synced \in Nat /\ logs[l].synced <= Len(logs[l].recs)
    BY DEF LogsType, LogFile
  <2>3. \A i \in 1..logs[l].synced : i \in DOMAIN logs[l].recs /\ i <= logs[l].synced
    BY <2>2
  <2>4. Ents(logs[l].recs) \ Doubtful \subseteq Ents(ls[l].recs)
    <3> SUFFICES ASSUME NEW e \in Ents(logs[l].recs), e \notin Doubtful PROVE e \in Ents(ls[l].recs)
      OBVIOUS
    <3>1. PICK i \in DOMAIN logs[l].recs : e = logs[l].recs[i]
      BY DEF Ents
    <3> QED
      BY <1>1, <2>1, <3>1
  <2>5. SyncedOf(logs[l]) \ Doubtful \subseteq SyncedOf(ls[l])
    <3> SUFFICES ASSUME NEW e \in SyncedOf(logs[l]), e \notin Doubtful PROVE e \in SyncedOf(ls[l])
      OBVIOUS
    <3>1. PICK i \in 1..logs[l].synced : e = logs[l].recs[i]
      BY DEF SyncedOf
    <3> QED
      BY <1>1, <2>1, <2>3, <3>1
  <2> QED
    BY <2>4, <2>5
<1>4. ASSUME NEW n PROVE Since(ls, n) = Since(logs, n) /\ Since(logs, n) \subseteq DOMAIN logs
  BY <1>0 DEF Since
<1>5. ASSUME NEW n PROVE Logged(logs, n) \ Doubtful \subseteq Logged(ls, n)
  BY <1>3, <1>4, Zenon DEF Logged
<1>6. ASSUME NEW n PROVE Durable(logs, n) \ Doubtful \subseteq Durable(ls, n)
  BY <1>3, <1>4, Zenon DEF Durable
<1> QED
  BY <1>0, <1>1, <1>2, <1>5, <1>6

\* An ordered manifest from which records are dropped is ordered.
LEMMA OrderedSkip ==
  ASSUME NEW recs \in Seq(Edit), Ordered(recs), NEW s \in Seq(Edit), NEW k \in Nat, NEW d \in Nat,
         k + d <= Len(recs), Len(s) = Len(recs) - d, \A i \in 1..k : s[i] = recs[i],
         \A i \in (k + 1)..(Len(recs) - d) : s[i] = recs[i + d]
  PROVE  Ordered(s)
<1> DEFINE at(i) == IF i <= k THEN i ELSE i + d
<1>1. \A i \in 1..Len(s) : at(i) \in 1..Len(recs) /\ at(i) >= i /\ s[i] = recs[at(i)]
  OBVIOUS
<1>2. \A j \in 1..Len(s) : \A i \in 1..j : i \in 1..Len(s) /\ at(i) \in 1..at(j)
  OBVIOUS
<1>l. Len(s) \in Nat /\ Len(recs) \in Nat
  OBVIOUS
<1> HIDE DEF at
<1>3. ASSUME NEW j \in 2..Len(s) PROVE s[j].next # -1
  <2>1. j \in 1..Len(s) /\ at(j) \in 2..Len(recs) /\ s[j] = recs[at(j)]
    BY <1>1, <1>l
  <2> QED
    BY <2>1 DEF Ordered
<1>4. ASSUME NEW j \in 1..Len(s), s[j].next # -1
      PROVE  /\ s[j].log < s[j].next
             /\ \A i \in 1..j : s[i].next <= s[j].next /\ \A t \in s[i].adds : t < s[j].next
  <2>1. at(j) \in 1..Len(recs) /\ s[j] = recs[at(j)]
    BY <1>1
  <2>2. \A i \in 1..j : s[i] = recs[at(i)] /\ at(i) \in 1..at(j)
    BY <1>1, <1>2
  <2> QED
    BY <1>4, <2>1, <2>2 DEF Ordered
<1> QED
  BY <1>3, <1>4 DEF Ordered

\* The manifests that are read back; one without records behind torn bytes is as it was.
LEMMA ManifestsReadBack ==
  ASSUME ManifestsType(manifests), NEW d \in Losses("manifest", manifests),
         NEW ms, ms = ReadBack("manifest", manifests, d)
  PROVE  /\ ManifestsType(ms) /\ DOMAIN ms = DOMAIN manifests
         /\ current \in DOMAIN manifests /\ ~Mixed => ms[current] = manifests[current]
<1>0. DOMAIN ms = DOMAIN manifests
  BY DEF ReadBack
<1>t. \A m \in DOMAIN manifests : /\ manifests[m] \in [recs : Seq(Edit), synced : Nat]
                                  /\ manifests[m].synced <= Len(manifests[m].recs)
                                  /\ Ordered(manifests[m].recs)
  BY DEF ManifestsType, ManifestFile
<1>1. ASSUME NEW m \in DOMAIN manifests
      PROVE  ms[m] \in ManifestFile /\ ms[m].synced <= Len(ms[m].recs) /\ Ordered(ms[m].recs)
  <2>1. /\ ms[m] \in [recs : Seq(Edit), synced : Nat] /\ ms[m].synced <= Len(ms[m].recs)
        /\ Skips(manifests[m].recs, ms[m].recs)
    BY <1>t, ReadFile
  <2>2. PICK k \in Nat, e \in Nat :
          /\ k + e <= Len(manifests[m].recs) /\ Len(ms[m].recs) = Len(manifests[m].recs) - e
          /\ \A i \in 1..k : ms[m].recs[i] = manifests[m].recs[i]
          /\ \A i \in (k + 1)..(Len(manifests[m].recs) - e) : ms[m].recs[i] = manifests[m].recs[i + e]
    BY <2>1 DEF Skips
  <2>3. manifests[m].recs \in Seq(Edit) /\ ms[m].recs \in Seq(Edit) /\ Ordered(manifests[m].recs)
    BY <1>t, <2>1
  <2>4. Ordered(ms[m].recs)
    BY <2>2, <2>3, OrderedSkip
  <2> QED
    BY <2>1, <2>4 DEF ManifestFile
<1>2. ASSUME current \in DOMAIN manifests, ~Mixed PROVE ms[current] = manifests[current]
  <2>1. \A i \in DOMAIN manifests[current].recs : ~Behind("manifest", current, i)
    BY <1>2 DEF Mixed
  <2> QED
    BY <1>2, <1>t, <2>1, ReadFile
<1> QED
  BY <1>0, <1>1, <1>2 DEF ManifestsType

----------------------------------------------------------------------------
(* What a manifest promises                                                *)

\* More files, or more of them, take nothing from it.
LEMMA AcceptedMono ==
  ASSUME NEW ts, NEW us, NEW ls, NEW ms, NEW recs, NEW cur, NEW S,
         Accepted(ts, ls, recs, cur, S),
         \A t \in LiveOf(recs) : t \in DOMAIN us /\ us[t] = ts[t],
         Durable(ls, LastEdit(recs).log) \subseteq Durable(ms, LastEdit(recs).log)
  PROVE  Accepted(us, ms, recs, cur, S)
<1>1. Holds(ts, LiveOf(recs)) \subseteq Holds(us, LiveOf(recs))
  BY HoldsMono
<1>2. LiveOf(recs) \subseteq WholeOf(us)
  BY DEF Accepted, WholeOf
<1> QED
  BY <1>1, <1>2 DEF Accepted

\* The manifest in use as it is.
LEMMA UseType ==
  ASSUME DiskTypes, current \in DOMAIN manifests
  PROVE  /\ InUse \in Seq(Edit) /\ Ordered(InUse) /\ Len(InUse) \in Nat
         /\ manifests[current].synced \in Nat /\ manifests[current].synced <= Len(InUse)
         /\ current \in Number
BY DEF DiskTypes, ManifestsType, ManifestFile, InUse

\* While the promises hold, the manifest in use is accepted, as is all a crash may leave of it.
LEMMA UseAccepted ==
  ASSUME DiskTypes, Covered, Promised, current # None
  PROVE  /\ Len(InUse) \in Survivors /\ Survivors \subseteq 1..Len(InUse)
         /\ Accepted(tables, logs, InUse, current, synced)
         /\ \A n \in Survivors : Accepted(tables, logs, SubSeq(InUse, 1, n), current, synced)
         /\ LastEdit(InUse).next \in Number /\ current < LastEdit(InUse).next
         /\ LastEdit(InUse) = InUse[Len(InUse)] /\ LastEdit(InUse) \in Edit
<1>1. /\ current \in DOMAIN manifests /\ Len(InUse) > 0
      /\ \A n \in Survivors : Accepted(tables, logs, SubSeq(InUse, 1, n), current, synced)
  BY DEF Covered
<1>2. /\ InUse \in Seq(Edit) /\ Ordered(InUse) /\ Len(InUse) \in Nat
      /\ manifests[current].synced \in Nat /\ manifests[current].synced <= Len(InUse)
  BY <1>1, UseType
<1>3. Len(InUse) \in Survivors /\ Survivors \subseteq 1..Len(InUse)
  BY <1>1, <1>2 DEF Survivors, Higher
<1>4. SubSeq(InUse, 1, Len(InUse)) = InUse
  BY <1>2, PrefixProps
<1>5. Accepted(tables, logs, InUse, current, synced)
  BY <1>1, <1>3, <1>4
<1>6. Numbered(InUse) # {} /\ current < LastEdit(InUse).next
  BY <1>5 DEF Accepted
<1>7. LastEdit(InUse).next \in Number /\ LastEdit(InUse) = InUse[Len(InUse)] /\ LastEdit(InUse) \in Edit
  BY <1>2, <1>6, LastOrdered
<1> QED
  BY <1>1, <1>3, <1>5, <1>6, <1>7

\* Steps that leave the manifest in use alone: what it and its prefixes need is kept.
LEMMA CoveredKept ==
  ASSUME DiskTypes, Covered, UNCHANGED <<current, acked, synced>>, Promised' => doubt' = doubt,
         Promised /\ current # None =>
           /\ current \in DOMAIN manifests' /\ manifests'[current] = manifests[current]
           /\ \A n \in Survivors : \A t \in LiveOf(SubSeq(InUse, 1, n)) :
                t \in DOMAIN tables' /\ tables'[t] = tables[t]
           /\ \A n \in Survivors : Durable(logs, LastEdit(SubSeq(InUse, 1, n)).log)
                                     \subseteq Durable(logs', LastEdit(SubSeq(InUse, 1, n)).log)
           /\ Logged(logs, LastEdit(InUse).log) \subseteq Logged(logs', LastEdit(InUse).log)
  PROVE  Covered'
<1> SUFFICES ASSUME Promised', current # None PROVE Covered'
  BY DEF Covered, Promised
<1>p. Promised /\ doubt' = doubt
  BY DEF Promised
<1>1. InUse' = InUse /\ Survivors' = Survivors
  BY <1>p DEF InUse, Survivors
<1>2. \A n \in Survivors' : Accepted(tables, logs, SubSeq(InUse, 1, n), current, synced)'
  <2> SUFFICES ASSUME NEW n \in Survivors
               PROVE  Accepted(tables', logs', SubSeq(InUse, 1, n), current, synced)
    BY <1>1
  <2>1. Accepted(tables, logs, SubSeq(InUse, 1, n), current, synced)
    BY <1>p DEF Covered
  <2> QED
    BY <1>p, <2>1, AcceptedMono
<1>3. Len(InUse) \in Survivors /\ SubSeq(InUse, 1, Len(InUse)) = InUse
  <2>1. current \in DOMAIN manifests
    BY <1>p DEF Covered
  <2> QED
    BY <1>p, <2>1, UseAccepted, UseType, PrefixProps
<1>4. Holds(tables, LiveOf(InUse)) \subseteq Holds(tables', LiveOf(InUse))
  <2>1. \A t \in LiveOf(InUse) : tables'[t] = tables[t]
    BY <1>p, <1>3
  <2> QED
    BY <2>1, HoldsMono
<1>5. acked' \subseteq Holds(tables', LiveOf(InUse')) \cup Logged(logs', LastEdit(InUse').log)
  BY <1>p, <1>1, <1>4 DEF Covered
<1>6. current' \in DOMAIN manifests' /\ Len(InUse') > 0
  BY <1>p, <1>1 DEF Covered
<1> QED
  BY <1>2, <1>5, <1>6 DEF Covered

\* The logs are read back, and what was behind torn bytes is no longer promised.
LEMMA CoveredRead ==
  ASSUME DiskTypes, Covered, UNCHANGED <<current, tables>>, Promised' => doubt' = doubt,
         acked' = acked \ Doubtful, synced' = synced \ Doubtful,
         Promised' /\ current # None => current \in DOMAIN manifests' /\ manifests'[current] = manifests[current],
         \A n : Logged(logs, n) \ Doubtful \subseteq Logged(logs', n),
         \A n : Durable(logs, n) \ Doubtful \subseteq Durable(logs', n)
  PROVE  Covered'
<1> SUFFICES ASSUME Promised' PROVE Covered'
  BY DEF Covered
<1>p. Promised /\ doubt' = doubt
  BY DEF Promised
<1>n. CASE current = None
  BY <1>p, <1>n DEF Covered
<1>c. CASE current # None
  <2>1. InUse' = InUse /\ Survivors' = Survivors
    BY <1>p, <1>c DEF InUse, Survivors
  <2>2. ASSUME NEW n \in Survivors
        PROVE  Accepted(tables', logs', SubSeq(InUse, 1, n), current', synced')
    <3>1. Accepted(tables, logs, SubSeq(InUse, 1, n), current, synced)
      BY <1>p, <1>c DEF Covered
    <3> QED
      BY <3>1 DEF Accepted
  <2>3. acked' \subseteq Holds(tables', LiveOf(InUse')) \cup Logged(logs', LastEdit(InUse').log)
    BY <1>p, <1>c, <2>1 DEF Covered
  <2>4. current' \in DOMAIN manifests' /\ Len(InUse') > 0
    BY <1>p, <1>c, <2>1 DEF Covered
  <2> QED
    BY <1>c, <2>1, <2>2, <2>3, <2>4 DEF Covered
<1> QED
  BY <1>n, <1>c

----------------------------------------------------------------------------
(* What the invariant says of each place, and what it leaves open          *)

\* The parts that speak of every place.
DiskInv == DiskTypes /\ MemoryTypes /\ Covered /\ Repairable

\* The invariant where ldb_open has not yet read a manifest, from the parts that speak of it.
LEMMA AtStart ==
  ASSUME DiskInv', StartInv', pc' \in {"down"} \cup Starting, bg' = "idle", job' = NoJob
  PROVE  RecInv'
<1> USE DEF Starting, Replaying, Applying, Cleaning, Using, Repairing, Serving
<1>1. RepairInv' /\ ManifestInv' /\ ReplayInv' /\ ApplyInv'
  BY DEF RepairInv, ManifestInv, ReplayInv, ApplyInv
<1>2. MemoryInv' /\ ServeInv' /\ LinkInv'
  BY DEF MemoryInv, ServeInv, LinkInv
<1>3. KillInv' /\ JobInv'
  BY DEF KillInv, JobInv, JobShape, BuildInv, RecordInv
<1> QED
  BY <1>1, <1>2, <1>3 DEF RecInv, DiskInv

\* The invariant where no process has the database.
LEMMA AtDown ==
  ASSUME DiskInv', pc' = "down", bg' = "idle", job' = NoJob
  PROVE  RecInv'
<1>1. StartInv'
  BY DEF StartInv, Starting
<1> QED
  BY <1>1, AtStart

\* The invariant where ldb_recover reads the logs.
LEMMA AtReplay ==
  ASSUME DiskInv', ManifestInv', ReplayInv', pc' \in Replaying, bg' = "idle", job' = NoJob
  PROVE  RecInv'
<1> USE DEF Starting, Replaying, Applying, Cleaning, Using, Repairing, Serving
<1>1. RepairInv' /\ StartInv' /\ ApplyInv'
  BY DEF RepairInv, StartInv, ApplyInv
<1>2. MemoryInv' /\ ServeInv' /\ LinkInv'
  BY DEF MemoryInv, ServeInv, LinkInv
<1>3. KillInv' /\ JobInv'
  BY DEF KillInv, JobInv, JobShape, BuildInv, RecordInv
<1> QED
  BY <1>1, <1>2, <1>3 DEF RecInv, DiskInv

\* The invariant where ldb_open records its edit.
LEMMA AtApply ==
  ASSUME DiskInv', ManifestInv', ApplyInv', MemoryInv', ServeInv',
         pc' \in Applying, bg' = "idle", job' = NoJob
  PROVE  RecInv'
<1> USE DEF Starting, Replaying, Applying, Cleaning, Using, Repairing
<1>1. RepairInv' /\ StartInv' /\ ReplayInv' /\ LinkInv'
  BY DEF RepairInv, StartInv, ReplayInv, LinkInv
<1>2. KillInv' /\ JobInv'
  BY DEF KillInv, JobInv, JobShape, BuildInv, RecordInv
<1> QED
  BY <1>1, <1>2 DEF RecInv, DiskInv

\* The invariant where ldb_open removes files, and where the background thread rests.
LEMMA AtClean ==
  ASSUME DiskInv', MemoryInv', ServeInv', LinkInv', KillInv', pc' \in Cleaning \cup Using,
         bg' = "idle", job' = NoJob
  PROVE  RecInv'
<1> USE DEF Starting, Replaying, Applying, Cleaning, Using, Repairing
<1>1. RepairInv' /\ StartInv' /\ ReplayInv' /\ ManifestInv' /\ ApplyInv'
  BY DEF RepairInv, StartInv, ReplayInv, ManifestInv, ApplyInv
<1>2. JobInv'
  BY DEF JobInv, JobShape, BuildInv, RecordInv
<1> QED
  BY <1>1, <1>2 DEF RecInv, DiskInv

\* The invariant while the database is in use.
LEMMA AtUse ==
  ASSUME DiskInv', MemoryInv', ServeInv', LinkInv', KillInv', JobInv', pc' \in Using
  PROVE  RecInv'
<1> USE DEF Starting, Replaying, Applying, Cleaning, Using, Repairing
<1>1. RepairInv' /\ StartInv' /\ ReplayInv' /\ ManifestInv' /\ ApplyInv'
  BY DEF RepairInv, StartInv, ReplayInv, ManifestInv, ApplyInv
<1> QED
  BY <1>1 DEF RecInv, DiskInv

\* The invariant while ldb_repair is at work.
LEMMA AtRepair ==
  ASSUME DiskInv', RepairInv', pc' \in Repairing, bg' = "idle", job' = NoJob
  PROVE  RecInv'
<1> USE DEF Starting, Replaying, Applying, Cleaning, Using, Repairing, Serving
<1>1. StartInv' /\ ManifestInv' /\ ReplayInv' /\ ApplyInv'
  BY DEF StartInv, ManifestInv, ReplayInv, ApplyInv
<1>2. MemoryInv' /\ ServeInv' /\ LinkInv'
  BY DEF MemoryInv, ServeInv, LinkInv
<1>3. KillInv' /\ JobInv'
  BY DEF KillInv, JobInv, JobShape, BuildInv, RecordInv
<1> QED
  BY <1>1, <1>2, <1>3 DEF RecInv, DiskInv

\* The background thread rests unless the database is in use.
LEMMA BgRests ==
  ASSUME RecInv, pc \notin Using
  PROVE  bg = "idle" /\ job = NoJob
BY DEF RecInv, JobInv, JobShape

\* The promises are not in doubt because of a repair while a database is opened or used.
LEMMA NoRepair ==
  ASSUME RecInv, pc \notin {"down"} \cup Repairing
  PROVE  doubt # "repair"
BY DEF RecInv, Repairable

\* The values that ldb_create and the start of a job give.
LEMMA NoTypes ==
  /\ NoEdit \in Edit /\ FirstEdit \in Edit /\ NoOp \in OpType /\ NoVersions \in VersionsType
  /\ NoDb \in DbType /\ NoJob \in JobType
<1>0. 2 \in Number /\ {} \in SUBSET Number /\ -1 \in Int /\ 0 \in Int /\ 0 \in Nat
  BY DEF Number
<1>1. NoEdit \in Edit /\ FirstEdit \in Edit
  <2>2. NoEdit \in Edit
    BY <1>0 DEF NoEdit, Edit
  <2>3. FirstEdit \in Edit
    BY <1>0, <2>2 DEF FirstEdit, Edit
  <2> QED
    BY <2>2, <2>3
<1>2. {} \in EntrySet
  BY FS_EmptySet DEF EntrySet
<1>3. NoVersions \in VersionsType
  BY <1>0 DEF NoVersions, VersionsType, None
<1>4. NoDb \in DbType
  BY <1>2 DEF NoDb, DbType
<1>5. <<>> \in Seq(LogEntry) /\ <<>> \in Seq(PlainJob) /\ {} \in SUBSET FileNames
  OBVIOUS
<1>6. NoOp \in OpType
  BY <1>1, <1>5 DEF NoOp, OpType, None
<1>7. NoJob \in JobType
  BY <1>1, <1>5 DEF NoJob, JobType, JobKinds, None
<1> QED
  BY <1>1, <1>3, <1>4, <1>6, <1>7

\* The state of the invariant before any step.
LEMMA InitInv == Init => RecInv
<1> SUFFICES ASSUME Init PROVE RecInv
  OBVIOUS
<1> USE DEF Init
<1>0. DOMAIN <<>> = {} /\ IsFiniteSet({})
  BY FS_EmptySet
<1>1. DiskTypes
  BY <1>0 DEF DiskTypes, TablesType, LogsType, ManifestsType, None
<1>2. MemoryTypes
  BY NoTypes DEF MemoryTypes, BgPlaces
<1>3. Covered /\ Repairable
  BY DEF Covered, Repairable
<1>4. RepairInv /\ StartInv /\ ManifestInv /\ ReplayInv /\ ApplyInv
  BY DEF RepairInv, StartInv, ManifestInv, ReplayInv, ApplyInv, Starting, Replaying, Applying, Repairing
<1>5. MemoryInv /\ ServeInv /\ LinkInv
  BY DEF MemoryInv, ServeInv, LinkInv, Applying, Cleaning, Using, Serving
<1>6. KillInv /\ JobInv
  BY DEF KillInv, JobInv, JobShape, BuildInv, RecordInv
<1> QED
  BY <1>1, <1>2, <1>3, <1>4, <1>5, <1>6 DEF RecInv

\* Manifests, tables and logs stay what they are as files come and go.
LEMMA ManifestPut ==
  ASSUME NEW ms, ManifestsType(ms), NEW n \in Number, NEW v \in ManifestFile,
         v.synced <= Len(v.recs), Ordered(v.recs)
  PROVE  /\ ManifestsType(Put(ms, n, v)) /\ n \in DOMAIN Put(ms, n, v) /\ Put(ms, n, v)[n] = v
         /\ \A m \in DOMAIN ms : m # n => m \in DOMAIN Put(ms, n, v) /\ Put(ms, n, v)[m] = ms[m]
<1>1. /\ DOMAIN Put(ms, n, v) = DOMAIN ms \cup {n} /\ Put(ms, n, v)[n] = v
      /\ \A m \in DOMAIN ms : m # n => Put(ms, n, v)[m] = ms[m]
  BY DEF Put
<1>2. ASSUME NEW m \in DOMAIN Put(ms, n, v)
      PROVE  /\ Put(ms, n, v)[m] \in ManifestFile
             /\ Put(ms, n, v)[m].synced <= Len(Put(ms, n, v)[m].recs)
             /\ Ordered(Put(ms, n, v)[m].recs)
  BY <1>1 DEF ManifestsType
<1> QED
  BY <1>1, <1>2 DEF ManifestsType

\* The same for manifests that are removed,
LEMMA ManifestDrop ==
  ASSUME NEW ms, ManifestsType(ms), NEW S
  PROVE  ManifestsType(Drop(ms, S))
<1>1. /\ DOMAIN Drop(ms, S) = DOMAIN ms \ S /\ \A m \in DOMAIN ms \ S : Drop(ms, S)[m] = ms[m]
  BY DEF Drop, Restrict
<1> QED
  BY <1>1 DEF ManifestsType

\* for a table that is written,
LEMMA TablePut ==
  ASSUME NEW ts, TablesType(ts), NEW n \in Number, NEW v \in TableFile, v.whole => v.ents # {}
  PROVE  TablesType(Put(ts, n, v))
<1>1. /\ DOMAIN Put(ts, n, v) = DOMAIN ts \cup {n} /\ Put(ts, n, v)[n] = v
      /\ \A m \in DOMAIN ts : m # n => Put(ts, n, v)[m] = ts[m]
  BY DEF Put
<1>2. IsFiniteSet(DOMAIN ts \cup {n})
  BY FS_AddElement DEF TablesType
<1> QED
  BY <1>1, <1>2 DEF TablesType

\* for tables that are removed,
LEMMA TableDrop ==
  ASSUME NEW ts, TablesType(ts), NEW S
  PROVE  TablesType(Drop(ts, S))
<1>1. /\ DOMAIN Drop(ts, S) = DOMAIN ts \ S /\ \A m \in DOMAIN ts \ S : Drop(ts, S)[m] = ts[m]
  BY DEF Drop, Restrict
<1>2. IsFiniteSet(DOMAIN ts \ S)
  BY FS_Subset DEF TablesType
<1> QED
  BY <1>1, <1>2 DEF TablesType

\* for a log that is written,
LEMMA LogPut ==
  ASSUME NEW ls, LogsType(ls), NEW n \in Number, NEW v \in LogFile, v.synced <= Len(v.recs)
  PROVE  LogsType(Put(ls, n, v))
<1>1. /\ DOMAIN Put(ls, n, v) = DOMAIN ls \cup {n} /\ Put(ls, n, v)[n] = v
      /\ \A m \in DOMAIN ls : m # n => Put(ls, n, v)[m] = ls[m]
  BY DEF Put
<1>2. IsFiniteSet(DOMAIN ls \cup {n})
  BY FS_AddElement DEF LogsType
<1> QED
  BY <1>1, <1>2 DEF LogsType

\* and for logs that are removed.
LEMMA LogDrop ==
  ASSUME NEW ls, LogsType(ls), NEW S
  PROVE  LogsType(Drop(ls, S))
<1>1. /\ DOMAIN Drop(ls, S) = DOMAIN ls \ S /\ \A m \in DOMAIN ls \ S : Drop(ls, S)[m] = ls[m]
  BY DEF Drop, Restrict
<1>2. IsFiniteSet(DOMAIN ls \ S)
  BY FS_Subset DEF LogsType
<1> QED
  BY <1>1, <1>2 DEF LogsType

----------------------------------------------------------------------------
(* ldb_open as far as the manifest                                         *)

\* ldb_open takes the lock and looks for CURRENT.
LEMMA OpenStartInv ==
  ASSUME RecInv, NEW reuse \in BOOLEAN, OpenStart(reuse)
  PROVE  RecInv'
<1>u. /\ pc = "down" /\ op' = [NoOp EXCEPT !.reuse = reuse] /\ vs' = NoVersions /\ db' = NoDb
      /\ pc' = (IF current = None THEN "newdb" ELSE "recover")
      /\ doubt' = (IF doubt = "repair" \/ Mixed THEN "lost" ELSE doubt)
      /\ acked' = acked \ Doubtful /\ synced' = synced \ Doubtful
      /\ UNCHANGED <<tables, current, temps, bg, job, written>>
  BY DEF OpenStart
<1>r. PICK c \in Losses("log", logs), d \in Losses("manifest", manifests), bad \in {FALSE, Mixed} :
        /\ logs' = ReadBack("log", logs, c)
        /\ manifests' = IF bad THEN Put(ReadBack("manifest", manifests, d), current, EmptyLog)
                        ELSE ReadBack("manifest", manifests, d)
  BY DEF OpenStart
<1>t. DiskTypes /\ Covered
  BY DEF RecInv
<1>l. /\ LogsType(logs') /\ \A n : Logged(logs, n) \ Doubtful \subseteq Logged(logs', n)
      /\ \A n : Durable(logs, n) \ Doubtful \subseteq Durable(logs', n)
  BY <1>r, <1>t, LogsReadBack DEF DiskTypes
<1>m. /\ ManifestsType(manifests')
      /\ current \in DOMAIN manifests /\ ~Mixed =>
           current \in DOMAIN manifests' /\ manifests'[current] = manifests[current]
  <2> DEFINE ms == ReadBack("manifest", manifests, d)
  <2>1. /\ ManifestsType(ms) /\ DOMAIN ms = DOMAIN manifests
        /\ current \in DOMAIN manifests /\ ~Mixed => ms[current] = manifests[current]
    BY <1>t, ManifestsReadBack DEF DiskTypes
  <2>2. manifests' = IF bad THEN Put(ms, current, EmptyLog) ELSE ms
    BY <1>r
  <2> HIDE DEF ms
  <2>3. CASE ~bad
    BY <2>1, <2>2, <2>3
  <2>4. CASE bad
    <3>1. Mixed /\ current \in DOMAIN manifests
      BY <2>4 DEF Mixed
    <3>2. current \in Number
      BY <1>t, <3>1 DEF DiskTypes, ManifestsType
    <3>3. EmptyLog \in ManifestFile /\ EmptyLog.synced <= Len(EmptyLog.recs) /\ Ordered(EmptyLog.recs)
      BY DEF EmptyLog, ManifestFile, Ordered
    <3>4. ManifestsType(Put(ms, current, EmptyLog))
      BY <2>1, <3>2, <3>3, ManifestPut
    <3> QED
      BY <2>2, <2>4, <3>1, <3>4
  <2> QED
    BY <2>3, <2>4
<1>b. bg' = "idle" /\ job' = NoJob
  BY <1>u, BgRests DEF Using
<1>o. op' \in OpType /\ op'.edit = NoEdit
  BY <1>u, NoTypes DEF OpType, NoOp
<1>1. DiskTypes' /\ MemoryTypes'
  <2>1. DiskTypes'
    BY <1>u, <1>t, <1>l, <1>m DEF DiskTypes
  <2>2. doubt' \in {"no", "repair", "reuse", "lost"}
    BY <1>u DEF RecInv, MemoryTypes
  <2> QED
    BY <1>u, <1>b, <1>o, <2>1, <2>2, NoTypes DEF RecInv, MemoryTypes, Starting, BgPlaces
<1>2. Covered'
  <2>1. Promised' => doubt' = doubt /\ ~Mixed
    BY <1>u DEF Promised
  <2>2. Promised' /\ current # None => current \in DOMAIN manifests
    BY <1>t, <2>1 DEF Covered, Promised
  <2> QED
    BY <1>u, <1>t, <1>l, <1>m, <2>1, <2>2, CoveredRead
<1>3. Repairable'
  BY <1>u DEF Repairable
<1>4. StartInv'
  BY <1>u, <1>o DEF StartInv
<1> QED
  BY <1>u, <1>b, <1>1, <1>2, <1>3, <1>4, AtStart DEF DiskInv, Starting

\* ldb_new_db writes the first manifest and syncs it.
LEMMA NewDbInv ==
  ASSUME RecInv, NewDb
  PROVE  RecInv'
<1>u. /\ pc = "newdb" /\ pc' = "temp" /\ op' = [op EXCEPT !.names = 1]
      /\ manifests' = Put(manifests, 1, [recs |-> <<FirstEdit>>, synced |-> 1])
      /\ UNCHANGED <<tables, logs, current, temps, vs, db, bg, job, acked, synced, written, doubt>>
  BY DEF NewDb, FirstEdit, ghost
<1>b. bg' = "idle" /\ job' = NoJob
  BY <1>u, BgRests DEF Using
<1>t. DiskTypes /\ op \in OpType /\ current = None /\ op.edit = NoEdit /\ db = NoDb
  BY <1>u DEF RecInv, MemoryTypes, StartInv, Starting
<1>o. op' \in OpType /\ op'.edit = NoEdit /\ op'.names = 1
  BY <1>u, <1>t DEF OpType
<1>m. ManifestsType(manifests') /\ 1 \in DOMAIN manifests' /\ manifests'[1] = [recs |-> <<FirstEdit>>, synced |-> 1]
  <2>0. FirstEdit.log = 0 /\ FirstEdit.next = 2 /\ FirstEdit.adds = {} /\ FirstEdit \in Edit
    BY NoTypes DEF FirstEdit, NoEdit
  <2>1. /\ <<FirstEdit>> \in Seq(Edit) /\ Len(<<FirstEdit>>) = 1 /\ Ordered(<<FirstEdit>>)
    BY <2>0, SingleEdit
  <2>2. [recs |-> <<FirstEdit>>, synced |-> 1] \in ManifestFile
    BY <2>1 DEF ManifestFile
  <2>3. 1 \in Number /\ 1 <= 1 /\ ManifestsType(manifests)
    BY <1>t DEF DiskTypes, Number
  <2> HIDE DEF FirstEdit
  <2> QED
    BY <1>u, <2>1, <2>2, <2>3, ManifestPut
<1>1. DiskTypes' /\ MemoryTypes'
  BY <1>u, <1>t, <1>o, <1>m DEF RecInv, DiskTypes, MemoryTypes, Starting
<1>2. Covered' /\ Repairable'
  BY <1>u, <1>t, NoRepair DEF RecInv, Covered, Promised, Repairable, Repairing
<1>3. StartInv'
  BY <1>u, <1>t, <1>o, <1>m DEF StartInv
<1> QED
  BY <1>u, <1>b, <1>1, <1>2, <1>3, AtStart DEF DiskInv, Starting

\* ldb_set_current_file writes its temporary file.
LEMMA WriteTempInv ==
  ASSUME RecInv, WriteTemp
  PROVE  RecInv'
<1>u. /\ pc \in {"temp", "temp2", "rep_temp"} /\ temps' = temps \cup {op.names}
      /\ pc' = (CASE pc = "temp" -> "rename" [] pc = "temp2" -> "rename2" [] OTHER -> "rep_rename")
      /\ UNCHANGED <<tables, logs, manifests, current, op, vs, db, bg, job, acked, synced, written, doubt>>
  BY DEF WriteTemp, ghost
<1>b. bg' = "idle" /\ job' = NoJob
  BY <1>u, BgRests DEF Using
<1>n. op.names \in Number
  <2>1. CASE pc = "temp"
    BY <2>1 DEF RecInv, StartInv, Starting, Number
  <2>2. CASE pc = "temp2"
    BY <2>2 DEF RecInv, ApplyInv, Applying, DiskTypes, ManifestsType
  <2>3. CASE pc = "rep_temp"
    BY <2>3 DEF RecInv, RepairInv, Repairing, Number
  <2> QED
    BY <1>u, <2>1, <2>2, <2>3
<1>1. DiskTypes'
  <2>1. IsFiniteSet(temps')
    BY <1>u, FS_AddElement DEF RecInv, DiskTypes
  <2> QED
    BY <1>u, <1>n, <2>1 DEF RecInv, DiskTypes
<1>2. MemoryTypes'
  BY <1>u DEF RecInv, MemoryTypes, Starting, Applying, Repairing
<1>3. Covered' /\ Repairable'
  BY <1>u DEF RecInv, Covered, Promised, InUse, Survivors, Repairable, Repairing
<1>4. DiskInv'
  BY <1>1, <1>2, <1>3 DEF DiskInv
<1>5. CASE pc = "temp"
  <2>1. StartInv'
    BY <1>u, <1>5 DEF RecInv, StartInv, Starting
  <2> QED
    BY <1>u, <1>b, <1>4, <1>5, <2>1, AtStart DEF Starting
<1>6. CASE pc = "temp2"
  <2>1. ApplyInv' /\ MemoryInv' /\ ServeInv' /\ ManifestInv'
    BY <1>u, <1>6 DEF RecInv, ApplyInv, Written, MemoryInv, ServeInv, ManifestInv, View, Promised,
                      Serving, Applying, Replaying, Using
  <2> QED
    BY <1>u, <1>b, <1>4, <1>6, <2>1, AtApply DEF Applying
<1>7. CASE pc = "rep_temp"
  <2>1. RepairInv'
    BY <1>u, <1>7 DEF RecInv, RepairInv, Repairing
  <2> QED
    BY <1>u, <1>b, <1>4, <1>7, <2>1, AtRepair DEF Repairing
<1> QED
  BY <1>u, <1>5, <1>6, <1>7

\* CURRENT is switched to a manifest that is complete: the one of a new database, the one
\* ldb_open wrote, or the one ldb_repair wrote.
LEMMA CoveredSwitch ==
  ASSUME DiskTypes', current' # None, current' \in DOMAIN manifests',
         Numbered(InUse') # {}, Len(InUse') = 1 \/ manifests'[current'].synced = Len(InUse'),
         Promised' => /\ LiveOf(InUse') \subseteq WholeOf(tables')
                      /\ current' < LastEdit(InUse').next
                      /\ synced' \subseteq Holds(tables', LiveOf(InUse')) \cup Durable(logs', LastEdit(InUse').log)
                      /\ acked' \subseteq Holds(tables', LiveOf(InUse')) \cup Logged(logs', LastEdit(InUse').log)
  PROVE  Covered'
<1>1. /\ InUse' \in Seq(Edit) /\ Ordered(InUse')
      /\ manifests'[current'].synced \in Nat /\ manifests'[current'].synced <= Len(InUse')
  BY DEF DiskTypes, ManifestsType, ManifestFile, InUse
<1>2. Len(InUse') \in Nat /\ Len(InUse') > 0
  BY <1>1, LastOrdered
<1>3. Survivors' = {Len(InUse')}
  <2>1. \A n \in Nat, s \in Nat : n > 0 /\ s <= n /\ (n = 1 \/ s = n) => Higher(1, s)..n = {n}
    BY DEF Higher
  <2> QED
    BY <1>1, <1>2, <2>1 DEF Survivors
<1>4. SubSeq(InUse', 1, Len(InUse')) = InUse'
  BY <1>1, <1>2, PrefixProps
<1> QED
  BY <1>2, <1>3, <1>4 DEF Covered, Accepted

\* Without an immutable memtable the tables in view and the log in use have everything.
LEMMA ServeLogs ==
  ASSUME RecInv, pc \in Serving, Promised, ~db.has_imm
  PROVE  /\ View \subseteq WholeOf(tables) /\ db.logfile \in DOMAIN logs /\ db.logfile \in Number
         /\ synced \subseteq Holds(tables, View) \cup Durable(logs, db.logfile)
         /\ acked \subseteq Holds(tables, View) \cup Logged(logs, db.logfile)
<1>1. db.imm = {} /\ db.logfile \in DOMAIN logs /\ db.mem \subseteq Ents(logs[db.logfile].recs)
  BY DEF RecInv, MemoryInv
<1>2. db.logfile \in Number /\ db.logfile \in Since(logs, db.logfile)
  <2>1. db.logfile \in Number
    BY <1>1 DEF RecInv, DiskTypes, LogsType
  <2> QED
    BY <1>1, <2>1 DEF Since, Number
<1>3. /\ Ents(logs[db.logfile].recs) \subseteq Logged(logs, db.logfile)
      /\ SyncedOf(logs[db.logfile]) \subseteq Durable(logs, db.logfile)
  BY <1>2, LogsOne
<1>4. /\ View \subseteq WholeOf(tables)
      /\ acked \cup synced \subseteq db.mem \cup db.imm \cup Holds(tables, View)
      /\ synced \subseteq db.imm \cup Holds(tables, View) \cup SyncedOf(logs[db.logfile])
  BY DEF RecInv, ServeInv
<1> QED
  BY <1>1, <1>2, <1>3, <1>4

\* ldb_set_current_file renames it: the new manifest is the one in use, with all it needs.
LEMMA RenameTempInv ==
  ASSUME RecInv, RenameTemp
  PROVE  RecInv'
<1>u. /\ pc \in {"rename", "rename2", "rep_rename"}
      /\ current' = op.names /\ temps' = temps \ {op.names}
      /\ pc' = (CASE pc = "rename" -> "recover" [] pc = "rename2" -> "install" [] OTHER -> "down")
      /\ UNCHANGED <<tables, logs, manifests, op, vs, db, bg, job, acked, synced, written>>
  BY DEF RenameTemp
<1>b. bg' = "idle" /\ job' = NoJob
  BY <1>u, BgRests DEF Using
<1>t. DiskTypes /\ MemoryTypes
  BY DEF RecInv
<1>1. DiskTypes'
  <2>1. IsFiniteSet(temps')
    BY <1>u, <1>t, FS_Subset DEF DiskTypes
  <2>2. op.names \in Nat
    BY <1>t DEF MemoryTypes, OpType
  <2> QED
    BY <1>u, <1>t, <2>1, <2>2 DEF DiskTypes
<1>2. CASE pc = "rename"
  <2>d. doubt' = doubt /\ doubt # "repair"
    <3>1. doubt' = doubt
      BY <1>2 DEF RenameTemp
    <3> QED
      BY <1>2, <3>1, NoRepair DEF Repairing
  <2>0. /\ op.edit = NoEdit /\ db = NoDb /\ current = None /\ current' = 1 /\ 1 \in DOMAIN manifests
        /\ manifests[1] = [recs |-> <<FirstEdit>>, synced |-> 1]
    BY <1>u, <1>2 DEF RecInv, StartInv, Starting
  <2>1. InUse' = <<FirstEdit>>
    BY <1>u, <2>0 DEF InUse
  <2>2. /\ Numbered(<<FirstEdit>>) # {} /\ Len(<<FirstEdit>>) = 1 /\ LiveOf(<<FirstEdit>>) = {}
        /\ LastEdit(<<FirstEdit>>).next = 2
    <3>1. FirstEdit \in Edit /\ FirstEdit.next = 2 /\ FirstEdit.adds = {}
      BY NoTypes DEF FirstEdit, NoEdit
    <3> QED
      BY <3>1, SingleEdit
  <2>3. Promised' => acked' = {} /\ synced' = {}
    BY <1>u, <2>0, <2>d DEF RecInv, Covered, Promised
  <2>4. Covered'
    BY <1>u, <1>1, <2>0, <2>1, <2>2, <2>3, CoveredSwitch DEF None
  <2>5. Repairable' /\ StartInv' /\ MemoryTypes'
    BY <1>u, <1>t, <1>2, <2>0, <2>d DEF Repairable, StartInv, MemoryTypes, Starting, None
  <2> QED
    BY <1>u, <1>b, <1>1, <1>2, <2>4, <2>5, AtStart DEF DiskInv, Starting
<1>3. CASE pc = "rename2"
  <2>d. doubt' = Settled /\ doubt # "repair"
    <3>1. doubt' = Settled
      BY <1>3 DEF RenameTemp
    <3> QED
      BY <1>3, <3>1, NoRepair DEF Repairing
  <2>p. (Promised' => Promised) /\ doubt' # "repair" /\ doubt' \in {"no", "repair", "reuse", "lost"}
    BY <1>t, <2>d DEF Promised, Settled, MemoryTypes
  <2>0. /\ vs.manifest \in DOMAIN manifests /\ vs.manifest # None /\ current' = vs.manifest
        /\ LiveOf(Written) = vs.live \cup op.edit.adds
        /\ Numbered(Written) # {} /\ LastEdit(Written) = op.edit
        /\ op.edit.log = db.logfile /\ op.edit.next = vs.next
        /\ manifests[vs.manifest].synced = Len(Written)
        /\ Promised => vs.manifest < vs.next
    BY <1>u, <1>3 DEF RecInv, ApplyInv, Applying
  <2>1. InUse' = Written /\ View = LiveOf(Written)
    BY <1>u, <1>3, <2>0 DEF InUse, Written, View, Applying
  <2>2. ~db.has_imm
    BY <1>3 DEF RecInv, MemoryInv, Serving, Applying, Using
  <2>3. Covered'
    <3>1. ASSUME Promised'
          PROVE  /\ LiveOf(InUse') \subseteq WholeOf(tables')
                 /\ current' < LastEdit(InUse').next
                 /\ synced' \subseteq Holds(tables', LiveOf(InUse')) \cup Durable(logs', LastEdit(InUse').log)
                 /\ acked' \subseteq Holds(tables', LiveOf(InUse')) \cup Logged(logs', LastEdit(InUse').log)
      BY <1>u, <1>3, <2>p, <2>0, <2>1, <2>2, <3>1, ServeLogs DEF Serving, Applying
    <3>2. current' \in DOMAIN manifests' /\ current' # None /\ Numbered(InUse') # {}
          /\ manifests'[current'].synced = Len(InUse')
      BY <1>u, <2>0, <2>1
    <3> QED
      BY <1>1, <3>1, <3>2, CoveredSwitch
  <2>4. Repairable' /\ MemoryTypes' /\ ManifestInv'
    BY <1>u, <1>t, <1>3, <2>p DEF Repairable, MemoryTypes, ManifestInv, Applying, Replaying
  <2>5. ApplyInv'
    BY <1>u, <1>3, <2>p, <2>0 DEF RecInv, ApplyInv, Applying, Written
  <2>6. MemoryInv' /\ ServeInv'
    BY <1>u, <1>3, <2>p DEF RecInv, MemoryInv, ServeInv, View, Serving, Applying, Using
  <2> QED
    BY <1>u, <1>b, <1>1, <1>3, <2>3, <2>4, <2>5, <2>6, AtApply DEF DiskInv, Applying
<1>4. CASE pc = "rep_rename"
  <2>d. doubt' = (IF doubt = "repair" THEN (IF op.next = 1 THEN "lost" ELSE "no") ELSE doubt)
    BY <1>4 DEF RenameTemp
  <2>0. /\ doubt \in {"repair", "lost"} /\ op.good = WholeOf(tables) /\ DOMAIN logs = {} /\ op.next > 0
        /\ op.names = 1 /\ op.edit.adds = op.good /\ op.edit.log = 0 /\ op.edit.next = op.next
        /\ 1 \in DOMAIN manifests /\ manifests[1].recs = <<op.edit>>
    BY <1>4 DEF RecInv, RepairInv, Repairing
  <2>1. op.edit \in Edit /\ op.next \in Nat
    BY <1>t DEF MemoryTypes, OpType
  <2>2. InUse' = <<op.edit>> /\ current' = 1
    BY <1>u, <2>0 DEF InUse
  <2>3. /\ Numbered(<<op.edit>>) # {} /\ Len(<<op.edit>>) = 1 /\ LiveOf(<<op.edit>>) = WholeOf(tables)
        /\ LastEdit(<<op.edit>>) = op.edit
    BY <2>0, <2>1, SingleEdit
  <2>4. Covered'
    <3>1. ASSUME Promised'
          PROVE  /\ LiveOf(InUse') \subseteq WholeOf(tables')
                 /\ current' < LastEdit(InUse').next
                 /\ synced' \subseteq Holds(tables', LiveOf(InUse')) \cup Durable(logs', LastEdit(InUse').log)
                 /\ acked' \subseteq Holds(tables', LiveOf(InUse')) \cup Logged(logs', LastEdit(InUse').log)
      <4>1. doubt = "repair" /\ op.next # 1
        BY <2>d, <2>0, <3>1 DEF Promised
      <4>2. 1 < op.next
        BY <2>0, <2>1, <4>1
      <4>3. /\ acked \subseteq Holds(tables, WholeOf(tables)) \cup Logged(logs, 0)
            /\ synced \subseteq Holds(tables, WholeOf(tables)) \cup Durable(logs, 0)
        BY <4>1 DEF RecInv, Repairable
      <4> QED
        BY <1>u, <2>0, <2>2, <2>3, <4>2, <4>3
    <3> QED
      BY <1>u, <1>1, <2>0, <2>2, <2>3, <3>1, CoveredSwitch DEF None
  <2>5. Repairable' /\ MemoryTypes'
    BY <1>u, <1>t, <1>4, <2>0, <2>d DEF Repairable, MemoryTypes
  <2> QED
    BY <1>u, <1>b, <1>1, <1>4, <2>4, <2>5, AtDown DEF DiskInv
<1> QED
  BY <1>u, <1>2, <1>3, <1>4

\* ldb_versions_recover reads the manifest in use, and may go on with it.
LEMMA VersionsRecoverInv ==
  ASSUME RecInv, NEW small \in BOOLEAN, VersionsRecover(small)
  PROVE  RecInv'
<1> DEFINE last == LastEdit(InUse)
           reuse == ReusesManifest(small)
<1>u. /\ pc = "recover" /\ pc' = "logs" /\ current \in DOMAIN manifests
      /\ Numbered(InUse) # {} /\ LiveOf(InUse) \subseteq DOMAIN tables
      /\ vs' = [next |-> last.next + 1, log |-> last.log, seq |-> last.seq, live |-> LiveOf(InUse),
                manifest |-> IF reuse THEN current ELSE last.next,
                desc |-> IF reuse THEN current ELSE None]
      /\ op' = [op EXCEPT !.logs = LogsFrom(last.log), !.save = ~reuse]
      /\ doubt' = (IF reuse /\ manifests[current].synced < Len(InUse) /\ doubt = "no"
                   THEN "reuse" ELSE doubt)
      /\ UNCHANGED <<tables, logs, manifests, current, temps, db, bg, job, acked, synced, written>>
  BY DEF VersionsRecover, InUse, disk
<1>b. bg' = "idle" /\ job' = NoJob
  BY <1>u, BgRests DEF Using
<1>t. DiskTypes /\ MemoryTypes /\ op \in OpType /\ reuse \in BOOLEAN
  BY DEF RecInv, MemoryTypes, ReusesManifest, OpType
<1>m. /\ InUse \in Seq(Edit) /\ Ordered(InUse) /\ Len(InUse) \in Nat
      /\ manifests[current].synced \in Nat /\ manifests[current].synced <= Len(InUse)
      /\ last \in Edit /\ last.next \in Number /\ last.log \in Int /\ last.seq \in Int
      /\ last.log < last.next /\ last.next < last.next + 1 /\ last.log < last.next + 1
      /\ last.next + 1 \in Number
  <2>1. /\ InUse \in Seq(Edit) /\ Ordered(InUse) /\ Len(InUse) \in Nat
        /\ manifests[current].synced \in Nat /\ manifests[current].synced <= Len(InUse)
    BY <1>u, <1>t, UseType
  <2>2. last \in Edit /\ last.next \in Number /\ last.log < last.next
    BY <1>u, <2>1, LastOrdered
  <2>3. last.log \in Int /\ last.seq \in Int
    BY <2>2 DEF Edit
  <2>4. last.next < last.next + 1 /\ last.log < last.next + 1 /\ last.next + 1 \in Number
    BY <2>2, <2>3 DEF Number
  <2> QED
    BY <2>1, <2>2, <2>3, <2>4
<1>l. LiveOf(InUse) \subseteq Number /\ LogsFrom(last.log) = Since(logs, last.log)
      /\ Since(logs, last.log) \subseteq Number
  BY <1>u, <1>t DEF DiskTypes, TablesType, LogsType, LogsFrom, Since
<1> HIDE DEF last, reuse
<1>s. /\ op.edit = NoEdit /\ db = NoDb /\ current # None
  BY <1>u DEF RecInv, StartInv, Starting
<1>o. /\ op' \in OpType /\ op'.edit = NoEdit /\ op'.logs = Since(logs, last.log) /\ op'.save = ~reuse
  BY <1>u, <1>t, <1>l, <1>s DEF OpType
<1>v. /\ vs'.next = last.next + 1 /\ vs'.log = last.log /\ vs'.live = LiveOf(InUse)
      /\ vs'.manifest = (IF reuse THEN current ELSE last.next)
      /\ vs'.desc = (IF reuse THEN current ELSE None)
      /\ vs' \in VersionsType
  <2>1. current \in Nat /\ last.next \in Nat /\ None \in Nat
    BY <1>t, <1>m DEF DiskTypes, Number, None
  <2> QED
    BY <1>u, <1>m, <1>l, <2>1 DEF VersionsType
<1>d. doubt # "repair" /\ doubt' # "repair" /\ doubt' \in {"no", "reuse", "lost"}
  BY <1>u, <1>t, NoRepair DEF MemoryTypes, Repairing
<1>1. DiskTypes' /\ MemoryTypes' /\ Repairable'
  BY <1>u, <1>t, <1>o, <1>v, <1>d DEF DiskTypes, MemoryTypes, Repairable, Replaying
<1>2. Covered'
  <2>1. CASE doubt' = doubt
    BY <1>u, <2>1 DEF RecInv, Covered, InUse, Survivors, Promised
  <2>2. CASE doubt' # doubt
    <3>1. doubt = "no" /\ doubt' = "reuse" /\ Promised
      BY <1>u, <2>2 DEF Promised
    <3>2. Survivors' = {Len(InUse)} /\ InUse' = InUse
      BY <1>u, <3>1 DEF Survivors, InUse
    <3>3. /\ Len(InUse) \in Survivors
          /\ \A n \in Survivors : Accepted(tables, logs, SubSeq(InUse, 1, n), current, synced)
      BY <1>t, <1>s, <3>1, UseAccepted DEF RecInv
    <3>4. \A n \in Survivors' : Accepted(tables, logs, SubSeq(InUse, 1, n), current, synced)
      BY <3>2, <3>3
    <3> QED
      BY <1>u, <1>s, <3>1, <3>2, <3>4 DEF RecInv, Covered
  <2> QED
    BY <2>1, <2>2
<1>3. ManifestInv'
  <2>1. InUse' = InUse
    BY <1>u DEF InUse
  <2>2. op'.edit.dels = {}
    BY <1>o DEF NoEdit
  <2>3. reuse => (doubt' = "no" => manifests'[current'].synced = Len(InUse'))
    BY <1>u, <1>m, <2>1
  <2> QED
    BY <1>u, <1>m, <1>s, <1>o, <1>v, <2>1, <2>2, <2>3 DEF ManifestInv, last
<1>4. ReplayInv'
  <2>1. op'.edit.adds = {} /\ db'.imm = {} /\ ~db'.has_imm /\ ~db'.err /\ db'.pending = {}
        /\ db'.logfile = 0 /\ db'.mem = {}
    BY <1>u, <1>o, <1>s DEF NoEdit, NoDb
  <2>2. op'.logs = Since(logs', vs'.log) /\ vs'.live \subseteq DOMAIN tables'
    BY <1>u, <1>v, <1>o
  <2> QED
    BY <1>u, <1>v, <2>1, <2>2 DEF ReplayInv
<1> QED
  BY <1>u, <1>b, <1>1, <1>2, <1>3, <1>4, AtReplay DEF DiskInv, Replaying

\* ldb_versions_recover refuses the manifest: the disk is as it was.
LEMMA RecoverFailsInv ==
  ASSUME RecInv, RecoverFails
  PROVE  RecInv'
<1>u. /\ pc = "recover" /\ pc' = "down" /\ vs' = NoVersions /\ op' = NoOp
      /\ UNCHANGED <<tables, logs, manifests, current, temps, db, bg, job, acked, synced, written, doubt>>
  BY DEF RecoverFails, disk, ghost
<1>b. bg' = "idle" /\ job' = NoJob
  BY <1>u, BgRests DEF Using
<1>1. DiskTypes' /\ MemoryTypes'
  BY <1>u, NoTypes DEF RecInv, DiskTypes, MemoryTypes
<1>2. Covered' /\ Repairable'
  BY <1>u DEF RecInv, Covered, Promised, InUse, Survivors, Repairable
<1> QED
  BY <1>u, <1>b, <1>1, <1>2, AtDown DEF DiskInv

\* A step that leaves the files alone leaves the promises alone.
LEMMA DiskSame ==
  ASSUME RecInv, UNCHANGED <<tables, logs, manifests, current, temps, acked, synced, doubt>>,
         pc' \in {"down"} \cup Repairing \/ pc \notin {"down"} \cup Repairing
  PROVE  DiskTypes' /\ Covered' /\ Repairable' /\ InUse' = InUse
<1>1. DiskTypes' /\ InUse' = InUse
  BY DEF RecInv, DiskTypes, InUse
<1>2. Covered'
  BY DEF RecInv, Covered, Promised, InUse, Survivors
<1>3. Repairable'
  BY NoRepair DEF RecInv, Repairable
<1> QED
  BY <1>1, <1>2, <1>3

\* While the logs are replayed the manifest ldb_open will write stays the same.
LEMMA ManifestSame ==
  ASSUME RecInv, pc \in Replaying, pc' \in Replaying \cup {"apply"},
         UNCHANGED <<manifests, current, doubt>>,
         vs'.manifest = vs.manifest, vs'.desc = vs.desc, vs'.live = vs.live, vs'.log = vs.log,
         vs'.next \in Int, vs.next <= vs'.next, op'.edit.dels = op.edit.dels,
         op.save => op'.save, pc' = "apply" => op'.save
  PROVE  ManifestInv'
<1>1. /\ current \in DOMAIN manifests /\ Numbered(InUse) # {}
      /\ vs.live = LiveOf(InUse) /\ vs.log = LastEdit(InUse).log /\ LastEdit(InUse).next < vs.next
      /\ op.edit.dels = {}
      /\ \/ vs.desc = None /\ vs.manifest = LastEdit(InUse).next /\ op.save
         \/ /\ vs.desc = current /\ vs.manifest = current /\ current # None
            /\ doubt = "no" => manifests[current].synced = Len(InUse)
  BY DEF RecInv, ManifestInv
<1>2. InUse' = InUse
  BY DEF InUse
<1>3. LastEdit(InUse).next < vs'.next
  <2>1. LastEdit(InUse).next \in Number
    BY <1>1, UseType, LastOrdered DEF RecInv
  <2>2. vs.next \in Int
    BY DEF RecInv, MemoryTypes, VersionsType, Number
  <2> QED
    BY <1>1, <2>1, <2>2 DEF Number
<1> QED
  BY <1>1, <1>2, <1>3 DEF ManifestInv

\* ldb_recover opens the oldest log that is left.
LEMMA NextLogInv ==
  ASSUME RecInv, NextLog
  PROVE  RecInv'
<1> DEFINE l == Min(op.logs)
<1>u. /\ pc = "logs" /\ pc' = "replay" /\ op.logs # {}
      /\ op' = [op EXCEPT !.log = l, !.rest = logs[l].recs, !.tabs = 0, !.logs = op.logs \ {l}]
      /\ UNCHANGED <<tables, logs, manifests, current, temps, vs, db, bg, job, acked, synced, written, doubt>>
  BY DEF NextLog, disk, ghost
<1>b. bg' = "idle" /\ job' = NoJob
  BY <1>u, BgRests DEF Using
<1>t. DiskTypes /\ MemoryTypes /\ op \in OpType /\ op.logs \subseteq Number
  BY DEF RecInv, MemoryTypes, OpType
<1>l. l \in op.logs /\ l \in Number
  BY <1>u, <1>t, MinProps
<1> HIDE DEF l
<1>r. /\ db.imm = {} /\ ~db.has_imm /\ ~db.err /\ db.pending = {}
      /\ op.edit.adds # {} => op.save
      /\ op.edit.adds \subseteq WholeOf(tables) /\ \A t \in op.edit.adds : t < vs.next
      /\ vs.live \subseteq DOMAIN tables
      /\ op.logs \subseteq Since(logs, vs.log)
      /\ db.logfile = 0 /\ db.mem = {}
      /\ \A k \in Since(logs, vs.log) \ op.logs :
           k < vs.next /\ (k # db.logfile => Ents(logs[k].recs) \subseteq Holds(tables, op.edit.adds))
  BY <1>u DEF RecInv, ReplayInv, Replaying
<1>f. logs[l].recs \in Seq(LogEntry) /\ l \in Since(logs, vs.log)
  BY <1>t, <1>l, <1>r DEF DiskTypes, LogsType, LogFile, Since
<1>o. /\ op' \in OpType /\ op'.edit = op.edit /\ op'.save = op.save /\ op'.log = l
      /\ op'.rest = logs[l].recs /\ op'.logs = op.logs \ {l}
  BY <1>u, <1>t, <1>l, <1>f DEF OpType, Number
<1>1. DiskTypes' /\ Covered' /\ Repairable' /\ MemoryTypes'
  <2>1. DiskTypes' /\ Covered' /\ Repairable'
    BY <1>u, DiskSame DEF Repairing
  <2> QED
    BY <1>u, <1>t, <1>o, <2>1 DEF MemoryTypes, Replaying
<1>2. ManifestInv'
  <2>1. vs.next \in Int /\ vs.next <= vs.next
    BY <1>t DEF MemoryTypes, VersionsType, Number
  <2> QED
    BY <1>u, <1>o, <2>1, ManifestSame DEF Replaying
<1>3. ReplayInv'
  <2>1. Ents(logs[l].recs) \subseteq Ents(op'.rest) \cup Holds(tables, op.edit.adds)
    BY <1>o
  <2>2. ASSUME NEW k \in Since(logs, vs.log) \ op'.logs
        PROVE  k = l \/ (k < vs.next /\ (k # db.logfile => Ents(logs[k].recs) \subseteq Holds(tables, op.edit.adds)))
    BY <1>o, <1>r
  <2>3. /\ op'.log \in Since(logs', vs'.log) /\ op'.rest = logs'[op'.log].recs
        /\ Ents(logs'[op'.log].recs) \subseteq Ents(op'.rest) \cup Holds(tables', op'.edit.adds)
        /\ op'.logs \subseteq Since(logs', vs'.log)
    BY <1>u, <1>o, <1>r, <1>f, <2>1
  <2>4. \A k \in Since(logs', vs'.log) \ op'.logs :
          \/ pc' = "replay" /\ k = op'.log
          \/ k < vs'.next /\ (k # db'.logfile => Ents(logs'[k].recs) \subseteq Holds(tables', op'.edit.adds))
    BY <1>u, <1>o, <2>2
  <2>5. /\ db'.imm = {} /\ ~db'.has_imm /\ ~db'.err /\ db'.pending = {}
        /\ op'.edit.adds # {} => op'.save
        /\ op'.edit.adds \subseteq WholeOf(tables') /\ (\A t \in op'.edit.adds : t < vs'.next)
        /\ vs'.live \subseteq DOMAIN tables' /\ db'.logfile = 0 /\ db'.mem = {}
    BY <1>u, <1>o, <1>r
  <2> QED
    BY <2>3, <2>4, <2>5 DEF ReplayInv
<1> QED
  BY <1>u, <1>b, <1>1, <1>2, <1>3, AtReplay DEF DiskInv, Replaying

\* ldb_versions_mark_file_number, and the largest sequence number of a log.
LEMMA MarkProps ==
  ASSUME NEW next \in Number, NEW n \in Nat
  PROVE  /\ Mark(next, n) \in Number /\ next <= Mark(next, n) /\ n < Mark(next, n)
         /\ \A k \in Int : k < next => k < Mark(next, n)
BY DEF Mark, Higher, Number

\* The highest sequence number of a log is a number.
LEMMA MaxSeqType ==
  ASSUME NEW recs \in Seq(LogEntry), NEW m \in Int
  PROVE  Higher(m, MaxSeq(recs)) \in Int
<1> DEFINE seqs == {recs[i].seq : i \in DOMAIN recs}
<1>1. seqs \subseteq Int
  <2>1. \A i \in DOMAIN recs : recs[i] \in LogEntry
    OBVIOUS
  <2> QED
    BY <2>1 DEF LogEntry
<1>2. IsFiniteSet(seqs)
  <2>1. IsFiniteSet(1..Len(recs)) /\ DOMAIN recs = 1..Len(recs)
    BY FS_Interval
  <2>2. [i \in DOMAIN recs |-> recs[i].seq] \in Surjection(DOMAIN recs, seqs)
    BY DEF Surjection
  <2> HIDE DEF seqs
  <2> QED
    BY <2>1, <2>2, FS_Surjection
<1> HIDE DEF seqs
<1>3. {0} \cup seqs = seqs \cup {0} /\ IsFiniteSet(seqs \cup {0})
  BY <1>2, FS_AddElement
<1>4. Max({0} \cup seqs) \in {0} \cup seqs
  BY <1>1, <1>3, MaxProps
<1>5. MaxSeq(recs) \in Int
  BY <1>1, <1>4 DEF MaxSeq, seqs
<1> QED
  BY <1>5 DEF Higher

\* What ldb_recover knows while it reads a log.
Reading ==
  /\ db.imm = {} /\ ~db.has_imm /\ ~db.err /\ db.pending = {} /\ db.logfile = 0 /\ db.mem = {}
  /\ op.edit.adds # {} => op.save
  /\ op.edit.adds \subseteq WholeOf(tables) /\ \A t \in op.edit.adds : t < vs.next
  /\ vs.live \subseteq DOMAIN tables
  /\ op.logs \subseteq Since(logs, vs.log) /\ op.log \in Since(logs, vs.log)
  /\ op.log \in Number /\ Since(logs, vs.log) \subseteq Number
  /\ op.tabs = 0 => op.rest = logs[op.log].recs
  /\ Ents(logs[op.log].recs) \subseteq Ents(op.rest) \cup Holds(tables, op.edit.adds)
  /\ \A k \in Since(logs, vs.log) \ op.logs :
       k # op.log => k < vs.next /\ Ents(logs[k].recs) \subseteq Holds(tables, op.edit.adds)

\* What the invariant says while a log is read.
LEMMA InReplay ==
  ASSUME RecInv, pc = "replay"
  PROVE  Reading
<1>1. /\ db.imm = {} /\ ~db.has_imm /\ ~db.err /\ db.pending = {} /\ db.logfile = 0 /\ db.mem = {}
      /\ op.edit.adds # {} => op.save
      /\ op.edit.adds \subseteq WholeOf(tables) /\ \A t \in op.edit.adds : t < vs.next
      /\ vs.live \subseteq DOMAIN tables
      /\ op.logs \subseteq Since(logs, vs.log) /\ op.log \in Since(logs, vs.log)
      /\ op.tabs = 0 => op.rest = logs[op.log].recs
      /\ Ents(logs[op.log].recs) \subseteq Ents(op.rest) \cup Holds(tables, op.edit.adds)
  BY DEF RecInv, ReplayInv, Replaying
<1>2. Since(logs, vs.log) \subseteq Number
  BY DEF RecInv, DiskTypes, LogsType, Since
<1>3. ASSUME NEW k \in Since(logs, vs.log) \ op.logs, k # op.log
      PROVE  k < vs.next /\ Ents(logs[k].recs) \subseteq Holds(tables, op.edit.adds)
  <2>1. k # 0
    BY <1>2 DEF Number
  <2> QED
    BY <1>1, <1>3, <2>1 DEF RecInv, ReplayInv, Replaying
<1> QED
  BY <1>1, <1>2, <1>3 DEF Reading

\* The last log is read into a memtable and stays the log in use.
LEMMA ReplayAndKeepInv ==
  ASSUME RecInv, ReplayAndKeep
  PROVE  RecInv'
<1>u. /\ pc = "replay" /\ pc' = "logs" /\ op.reuse /\ op.logs = {} /\ op.tabs = 0
      /\ db' = [db EXCEPT !.logfile = op.log, !.mem = Ents(op.rest)]
      /\ op' = [op EXCEPT !.max = Higher(op.max, MaxSeq(op.rest)), !.rest = <<>>]
      /\ vs' = [vs EXCEPT !.next = Mark(vs.next, op.log)]
      /\ UNCHANGED <<tables, logs, manifests, current, temps, bg, job, acked, synced, written, doubt>>
  BY DEF ReplayAndKeep, KeepsLog, disk, ghost
<1>b. bg' = "idle" /\ job' = NoJob
  BY <1>u, BgRests DEF Using
<1>t. DiskTypes /\ MemoryTypes /\ op \in OpType /\ vs \in VersionsType /\ db \in DbType
      /\ op.rest \in Seq(LogEntry) /\ op.max \in Int /\ op.log \in Nat /\ vs.next \in Number
  BY DEF RecInv, MemoryTypes, OpType, VersionsType
<1>r. Reading
  BY <1>u, InReplay
<1>k. /\ Mark(vs.next, op.log) \in Number /\ vs.next <= Mark(vs.next, op.log) /\ op.log < Mark(vs.next, op.log)
      /\ \A k \in Int : k < vs.next => k < Mark(vs.next, op.log)
  BY <1>t, MarkProps
<1>o. /\ op' \in OpType /\ op'.edit = op.edit /\ op'.save = op.save /\ op'.logs = {}
  <2>1. Higher(op.max, MaxSeq(op.rest)) \in Int /\ <<>> \in Seq(LogEntry)
    BY <1>t, MaxSeqType
  <2> QED
    BY <1>u, <1>t, <2>1 DEF OpType
<1>v. /\ vs' \in VersionsType /\ vs'.next = Mark(vs.next, op.log) /\ vs'.live = vs.live /\ vs'.log = vs.log
      /\ vs'.manifest = vs.manifest /\ vs'.desc = vs.desc
  BY <1>u, <1>t, <1>k DEF VersionsType
<1>d. db' \in DbType /\ db'.logfile = op.log /\ db'.mem = Ents(op.rest) /\ db'.imm = db.imm
      /\ db'.has_imm = db.has_imm /\ db'.err = db.err /\ db'.pending = db.pending
  BY <1>u, <1>t, EntsFinite DEF DbType
<1>1. DiskTypes' /\ Covered' /\ Repairable' /\ MemoryTypes'
  <2>1. DiskTypes' /\ Covered' /\ Repairable'
    BY <1>u, DiskSame DEF Repairing
  <2> QED
    BY <1>u, <1>t, <1>o, <1>v, <1>d, <2>1 DEF MemoryTypes, Replaying
<1>2. ManifestInv'
  BY <1>u, <1>o, <1>v, <1>k, ManifestSame DEF Replaying, Number
<1>3. ReplayInv'
  <2>1. /\ db'.logfile \in Since(logs', vs'.log) /\ db'.logfile # 0
        /\ db'.mem = Ents(logs'[db'.logfile].recs)
    BY <1>u, <1>d, <1>v, <1>r DEF Reading, Number
  <2>2. ASSUME NEW k \in Since(logs, vs.log)
        PROVE  k < vs'.next /\ (k # op.log => Ents(logs[k].recs) \subseteq Holds(tables, op.edit.adds))
    <3>1. k \in Int
      BY <1>r DEF Reading, Number
    <3>2. CASE k = op.log
      BY <1>v, <1>k, <3>2
    <3>3. CASE k # op.log
      BY <1>u, <1>v, <1>k, <1>r, <3>1, <3>3 DEF Reading
    <3> QED
      BY <3>2, <3>3
  <2>3. \A k \in Since(logs', vs'.log) \ op'.logs :
          \/ pc' = "replay" /\ k = op'.log
          \/ k < vs'.next /\ (k # db'.logfile => Ents(logs'[k].recs) \subseteq Holds(tables', op'.edit.adds))
    BY <1>u, <1>o, <1>v, <1>d, <2>2
  <2>4. \A t \in op'.edit.adds : t < vs'.next
    <3>1. op.edit.adds \subseteq Number
      BY <1>t DEF OpType, Edit
    <3> QED
      BY <1>o, <1>v, <1>k, <1>r, <3>1 DEF Reading, Number
  <2>5. /\ db'.imm = {} /\ ~db'.has_imm /\ ~db'.err /\ db'.pending = {}
        /\ op'.edit.adds # {} => op'.save
        /\ op'.edit.adds \subseteq WholeOf(tables')
        /\ vs'.live \subseteq DOMAIN tables' /\ op'.logs = {}
    BY <1>u, <1>o, <1>v, <1>d, <1>r DEF Reading
  <2> QED
    BY <1>u, <2>1, <2>3, <2>4, <2>5 DEF ReplayInv
<1> QED
  BY <1>u, <1>b, <1>1, <1>2, <1>3, AtReplay DEF DiskInv, Replaying

\* A log is read to its end.
LEMMA ReplayEndsInv ==
  ASSUME RecInv, ReplayEnds
  PROVE  RecInv'
<1>u. /\ pc = "replay" /\ pc' = "logs" /\ op.rest = <<>>
      /\ vs' = [vs EXCEPT !.next = Mark(vs.next, op.log)]
      /\ UNCHANGED <<tables, logs, manifests, current, temps, op, db, bg, job, acked, synced, written, doubt>>
  BY DEF ReplayEnds, disk, ghost
<1>b. bg' = "idle" /\ job' = NoJob
  BY <1>u, BgRests DEF Using
<1>t. DiskTypes /\ MemoryTypes /\ op \in OpType /\ vs \in VersionsType
      /\ op.log \in Nat /\ vs.next \in Number
  BY DEF RecInv, MemoryTypes, OpType, VersionsType
<1>r. Reading
  BY <1>u, InReplay
<1>k. /\ Mark(vs.next, op.log) \in Number /\ vs.next <= Mark(vs.next, op.log) /\ op.log < Mark(vs.next, op.log)
      /\ \A k \in Int : k < vs.next => k < Mark(vs.next, op.log)
  BY <1>t, MarkProps
<1>v. /\ vs' \in VersionsType /\ vs'.next = Mark(vs.next, op.log) /\ vs'.live = vs.live /\ vs'.log = vs.log
      /\ vs'.manifest = vs.manifest /\ vs'.desc = vs.desc
  BY <1>u, <1>t, <1>k DEF VersionsType
<1>1. DiskTypes' /\ Covered' /\ Repairable' /\ MemoryTypes'
  <2>1. DiskTypes' /\ Covered' /\ Repairable'
    BY <1>u, DiskSame DEF Repairing
  <2> QED
    BY <1>u, <1>t, <1>v, <2>1 DEF MemoryTypes, Replaying
<1>2. ManifestInv'
  BY <1>u, <1>v, <1>k, ManifestSame DEF Replaying, Number
<1>3. ReplayInv'
  <2>1. ASSUME NEW k \in Since(logs, vs.log) \ op.logs
        PROVE  k < vs'.next /\ Ents(logs[k].recs) \subseteq Holds(tables, op.edit.adds)
    <3>1. k \in Int
      BY <1>r DEF Reading, Number
    <3>2. CASE k = op.log
      <4>1. Ents(<<>>) = {}
        BY DEF Ents
      <4> QED
        BY <1>u, <1>v, <1>k, <1>r, <3>2, <4>1 DEF Reading
    <3>3. CASE k # op.log
      BY <1>u, <1>v, <1>k, <1>r, <3>1, <3>3 DEF Reading
    <3> QED
      BY <3>2, <3>3
  <2>2. \A k \in Since(logs', vs'.log) \ op'.logs :
          \/ pc' = "replay" /\ k = op'.log
          \/ k < vs'.next /\ (k # db'.logfile => Ents(logs'[k].recs) \subseteq Holds(tables', op'.edit.adds))
    BY <1>u, <1>v, <2>1
  <2>4. \A t \in op'.edit.adds : t < vs'.next
    <3>1. op.edit.adds \subseteq Number
      BY <1>t DEF OpType, Edit
    <3> QED
      BY <1>u, <1>v, <1>k, <1>r, <3>1 DEF Reading, Number
  <2>5. /\ db'.imm = {} /\ ~db'.has_imm /\ ~db'.err /\ db'.pending = {} /\ db'.logfile = 0 /\ db'.mem = {}
        /\ op'.edit.adds # {} => op'.save
        /\ op'.edit.adds \subseteq WholeOf(tables')
        /\ vs'.live \subseteq DOMAIN tables' /\ op'.logs \subseteq Since(logs', vs'.log)
    BY <1>u, <1>v, <1>r DEF Reading
  <2> QED
    BY <1>u, <2>2, <2>4, <2>5 DEF ReplayInv
<1> QED
  BY <1>u, <1>b, <1>1, <1>2, <1>3, AtReplay DEF DiskInv, Replaying

\* A number that the manifest in use has not given out is in no version a crash can leave.
LEMMA FreshNumber ==
  ASSUME DiskTypes, Covered, Promised, current # None, NEW n \in Int, LastEdit(InUse).next <= n
  PROVE  \A m \in Survivors : n \notin LiveOf(SubSeq(InUse, 1, m))
<1>1. /\ Survivors \subseteq 1..Len(InUse) /\ InUse \in Seq(Edit) /\ Ordered(InUse) /\ Numbered(InUse) # {}
  <2>1. current \in DOMAIN manifests
    BY DEF Covered
  <2>2. Accepted(tables, logs, InUse, current, synced) /\ Survivors \subseteq 1..Len(InUse)
    BY UseAccepted
  <2> QED
    BY <2>1, <2>2, UseType DEF Accepted
<1>2. Below(InUse, n)
  BY <1>1, OrderedBelow
<1>3. ASSUME NEW m \in Survivors PROVE n \notin LiveOf(SubSeq(InUse, 1, m))
  <2>1. m \in 0..Len(InUse)
    BY <1>1
  <2>2. \A t \in LiveOf(SubSeq(InUse, 1, m)) : t < n
    BY <1>1, <1>2, <2>1, LiveBelow
  <2>3. ~(n < n)
    OBVIOUS
  <2> QED
    BY <2>2, <2>3
<1> QED
  BY <1>3

\* A table that no version a crash can leave has is written or replaced.
LEMMA CoveredPut ==
  ASSUME DiskTypes, Covered, NEW n, NEW v, tables' = Put(tables, n, v),
         UNCHANGED <<logs, manifests, current, acked, synced, doubt>>,
         Promised /\ current # None => \A m \in Survivors : n \notin LiveOf(SubSeq(InUse, 1, m))
  PROVE  Covered'
<1>1. /\ DOMAIN tables' = DOMAIN tables \cup {n}
      /\ \A t \in DOMAIN tables : t # n => tables'[t] = tables[t]
  BY DEF Put
<1>2. ASSUME Promised, current # None
      PROVE  /\ current \in DOMAIN manifests'
             /\ \A m \in Survivors : \A t \in LiveOf(SubSeq(InUse, 1, m)) :
                  t \in DOMAIN tables' /\ tables'[t] = tables[t]
  <2>1. \A m \in Survivors : LiveOf(SubSeq(InUse, 1, m)) \subseteq DOMAIN tables
    BY <1>2 DEF Covered, Accepted, WholeOf
  <2> QED
    BY <1>1, <1>2, <2>1 DEF Covered
<1>3. Promised' => doubt' = doubt
  OBVIOUS
<1> QED
  BY <1>2, <1>3, CoveredKept

\* The memtable of a log being read is written to a table.
LEMMA ReplayToTableInv ==
  ASSUME RecInv, NEW n \in Nat, ReplayToTable(n)
  PROVE  RecInv'
<1> DEFINE chunk == SubSeq(op.rest, 1, n)
           rest  == SubSeq(op.rest, n + 1, Len(op.rest))
           adds  == op.edit.adds \cup {vs.next}
<1>u. /\ pc = "replay" /\ pc' = "replay" /\ n \in 1..Len(op.rest)
      /\ tables' = Put(tables, vs.next, Table(Ents(chunk)))
      /\ op' = [op EXCEPT !.rest = rest, !.tabs = op.tabs + 1, !.save = TRUE,
                          !.max = Higher(op.max, MaxSeq(chunk)), !.edit.adds = adds]
      /\ vs' = [vs EXCEPT !.next = vs.next + 1]
      /\ UNCHANGED <<logs, manifests, current, temps, db, bg, job, acked, synced, written, doubt>>
  BY DEF ReplayToTable, ghost
<1>b. bg' = "idle" /\ job' = NoJob
  BY <1>u, BgRests DEF Using
<1>t. DiskTypes /\ MemoryTypes /\ op \in OpType /\ vs \in VersionsType /\ op.edit \in Edit
      /\ op.rest \in Seq(LogEntry) /\ op.max \in Int /\ vs.next \in Number /\ op.tabs \in Nat
      /\ op.edit.adds \subseteq Number
  <2>1. DiskTypes /\ MemoryTypes
    BY DEF RecInv
  <2>2. op \in OpType /\ vs \in VersionsType
    BY <2>1 DEF MemoryTypes
  <2>3. op.edit \in Edit
    BY <2>2 DEF OpType
  <2>4. op.edit.adds \subseteq Number
    BY <2>3 DEF Edit
  <2> QED
    BY <2>1, <2>2, <2>3, <2>4 DEF OpType, VersionsType
<1>r. Reading
  BY <1>u, InReplay
<1>c. /\ chunk \in Seq(LogEntry) /\ rest \in Seq(LogEntry) /\ Ents(chunk) # {}
      /\ Ents(op.rest) = Ents(chunk) \cup Ents(rest) /\ Ents(chunk) \in EntrySet
      /\ Higher(op.max, MaxSeq(chunk)) \in Int
  <2>1. /\ chunk \in Seq(LogEntry) /\ rest \in Seq(LogEntry) /\ Ents(chunk) # {}
        /\ Ents(op.rest) = Ents(chunk) \cup Ents(rest)
    BY <1>u, <1>t, EntsCut
  <2> HIDE DEF chunk, rest
  <2> QED
    BY <1>t, <2>1, EntsFinite, MaxSeqType
<1>k. vs.next + 1 \in Number /\ vs.next <= vs.next + 1 /\ vs.next < vs.next + 1
      /\ \A k \in Int : k < vs.next => k < vs.next + 1
  BY <1>t DEF Number
<1>a. adds \subseteq Number
  BY <1>t
<1> HIDE DEF chunk, rest, adds
<1>o. /\ op' \in OpType /\ op'.edit.adds = adds /\ op'.edit.dels = op.edit.dels /\ op'.save
      /\ op'.rest = rest /\ op'.tabs # 0 /\ op'.logs = op.logs /\ op'.log = op.log
  <2>1. /\ [op.edit EXCEPT !.adds = adds] \in Edit /\ [op.edit EXCEPT !.adds = adds].adds = adds
        /\ [op.edit EXCEPT !.adds = adds].dels = op.edit.dels
    BY <1>t, <1>a DEF Edit
  <2>2. op'.edit = [op.edit EXCEPT !.adds = adds]
    BY <1>u, <1>t DEF OpType
  <2>3. op.tabs + 1 \in Nat /\ op.tabs + 1 # 0
    BY <1>t
  <2>4. op' = [op EXCEPT !.rest = rest, !.tabs = op.tabs + 1, !.save = TRUE,
                         !.max = Higher(op.max, MaxSeq(chunk)),
                         !.edit = [op.edit EXCEPT !.adds = adds]]
    BY <1>u, <1>t DEF OpType
  <2> QED
    BY <1>t, <1>c, <2>1, <2>3, <2>4 DEF OpType
<1>v. /\ vs' \in VersionsType /\ vs'.next = vs.next + 1 /\ vs'.live = vs.live /\ vs'.log = vs.log
      /\ vs'.manifest = vs.manifest /\ vs'.desc = vs.desc
  BY <1>u, <1>t, <1>k DEF VersionsType
<1>p. /\ DOMAIN tables' = DOMAIN tables \cup {vs.next}
      /\ tables'[vs.next].ents = Ents(chunk) /\ tables'[vs.next].whole
      /\ \A t \in DOMAIN tables : t # vs.next => tables'[t] = tables[t]
  BY <1>u DEF Put, Table
<1>1. DiskTypes' /\ Repairable' /\ MemoryTypes'
  <2>1. TablesType(tables')
    <3>1. Table(Ents(chunk)) \in TableFile /\ Table(Ents(chunk)).ents # {}
      BY <1>c DEF Table, TableFile
    <3> QED
      BY <1>u, <1>t, <3>1, TablePut DEF DiskTypes
  <2>2. Repairable'
    BY <1>u, NoRepair DEF Repairable, Repairing
  <2> QED
    BY <1>u, <1>t, <1>o, <1>v, <2>1, <2>2 DEF DiskTypes, MemoryTypes, Replaying
<1>2. Covered'
  <2>1. /\ LastEdit(InUse).next < vs.next /\ current \in DOMAIN manifests /\ Numbered(InUse) # {}
    BY <1>u DEF RecInv, ManifestInv, Replaying
  <2>2. LastEdit(InUse).next \in Number
    BY <1>t, <2>1, UseType, LastOrdered
  <2>3. LastEdit(InUse).next <= vs.next /\ vs.next \in Int
    BY <1>t, <2>1, <2>2 DEF Number
  <2>4. Covered
    BY DEF RecInv
  <2>5. Promised /\ current # None => \A m \in Survivors : vs.next \notin LiveOf(SubSeq(InUse, 1, m))
    BY <1>t, <2>3, <2>4, FreshNumber
  <2> QED
    BY <1>u, <1>t, <2>4, <2>5, CoveredPut
<1>3. ManifestInv'
  BY <1>u, <1>o, <1>v, <1>k, ManifestSame DEF Replaying, Number
<1>4. ReplayInv'
  <2>1. \A t \in op.edit.adds : t # vs.next /\ t \in DOMAIN tables /\ t < vs.next /\ tables[t].whole
    <3>1. ~(vs.next < vs.next)
      BY <1>t DEF Number
    <3> QED
      BY <1>r, <3>1 DEF Reading, WholeOf
  <2>2. Holds(tables, op.edit.adds) \subseteq Holds(tables', adds)
    BY <1>p, <2>1, HoldsMono DEF adds
  <2>3. Ents(chunk) \subseteq Holds(tables', adds)
    BY <1>p DEF adds, Holds
  <2>4. adds \subseteq WholeOf(tables')
    BY <1>p, <2>1 DEF adds, WholeOf
  <2>5. \A t \in adds : t < vs'.next
    BY <1>k, <1>v, <1>t, <2>1 DEF adds, Number
  <2>6. Ents(logs[op.log].recs) \subseteq Ents(rest) \cup Holds(tables', adds)
    BY <1>r, <1>c, <2>2, <2>3 DEF Reading
  <2>7. ASSUME NEW k \in Since(logs, vs.log) \ op.logs
        PROVE  k = op.log \/ (k < vs'.next /\ Ents(logs[k].recs) \subseteq Holds(tables', adds))
    <3>1. k \in Int
      BY <1>r DEF Reading, Number
    <3> QED
      BY <1>r, <1>k, <1>v, <2>2, <3>1 DEF Reading
  <2>8. /\ db'.imm = {} /\ ~db'.has_imm /\ ~db'.err /\ db'.pending = {} /\ db'.logfile = 0 /\ db'.mem = {}
        /\ vs'.live \subseteq DOMAIN tables' /\ op'.logs \subseteq Since(logs', vs'.log)
        /\ op'.log \in Since(logs', vs'.log)
    BY <1>u, <1>v, <1>o, <1>p, <1>r DEF Reading
  <2> QED
    BY <1>u, <1>o, <1>v, <2>4, <2>5, <2>6, <2>7, <2>8 DEF ReplayInv
<1> QED
  BY <1>u, <1>b, <1>1, <1>2, <1>3, <1>4, AtReplay DEF DiskInv, Replaying

\* Logs that only grow.
LEMMA CoveredLogs ==
  ASSUME DiskTypes, Covered, UNCHANGED <<tables, manifests, current, acked, synced, doubt>>,
         \A l \in DOMAIN logs : l \in DOMAIN logs' /\ LogGrows(logs[l], logs'[l])
  PROVE  /\ Covered'
         /\ \A n : Durable(logs, n) \subseteq Durable(logs', n) /\ Logged(logs, n) \subseteq Logged(logs', n)
<1>1. ASSUME NEW n
      PROVE  Durable(logs, n) \subseteq Durable(logs', n) /\ Logged(logs, n) \subseteq Logged(logs', n)
  <2>1. \A l \in Since(logs, n) : l \in Since(logs', n) /\ LogGrows(logs[l], logs'[l])
    BY DEF Since
  <2> QED
    BY <2>1, LogsMono
<1>2. Covered'
  <2>1. Promised' => doubt' = doubt
    OBVIOUS
  <2>2. Promised /\ current # None =>
          /\ current \in DOMAIN manifests' /\ manifests'[current] = manifests[current]
          /\ \A n \in Survivors : \A t \in LiveOf(SubSeq(InUse, 1, n)) :
               t \in DOMAIN tables' /\ tables'[t] = tables[t]
    BY DEF Covered, Accepted, WholeOf
  <2> QED
    BY <1>1, <2>1, <2>2, CoveredKept
<1> QED
  BY <1>1, <1>2

\* Nothing of the manifest in use can be lost.
LEMMA SoleSurvivor ==
  ASSUME DiskTypes, current \in DOMAIN manifests, Numbered(InUse) # {},
         doubt = "no" => manifests[current].synced = Len(InUse)
  PROVE  Survivors = {Len(InUse)} /\ InUse[Len(InUse)] = LastEdit(InUse)
<1>1. Len(InUse) \in Nat /\ Len(InUse) > 0 /\ InUse[Len(InUse)] = LastEdit(InUse)
  BY UseType, LastOrdered
<1>2. \A n \in Nat : n > 0 => Higher(1, n)..n = {n}
  BY DEF Higher
<1> QED
  BY <1>1, <1>2 DEF Survivors

\* The version that is found, and the numbers it leaves free.
LEMMA LiveFresh ==
  ASSUME DiskTypes, current \in DOMAIN manifests, Numbered(InUse) # {}, NEW k \in Int,
         LastEdit(InUse).next <= k
  PROVE  (\A t \in LiveOf(InUse) : t < k) /\ LastEdit(InUse).log < k
<1>1. InUse \in Seq(Edit) /\ Ordered(InUse) /\ Len(InUse) \in Nat
  BY UseType
<1>2. LastEdit(InUse).log < LastEdit(InUse).next /\ LastEdit(InUse).next \in Number
      /\ LastEdit(InUse) \in Edit
  BY <1>1, LastOrdered
<1>3. Below(InUse, k)
  BY <1>1, OrderedBelow
<1>4. SubSeq(InUse, 1, Len(InUse)) = InUse
  BY <1>1, PrefixProps
<1>5. \A t \in LiveOf(InUse) : t < k
  <2>1. Len(InUse) \in 0..Len(InUse)
    BY <1>1
  <2>2. \A t \in LiveOf(SubSeq(InUse, 1, Len(InUse))) : t < k
    BY <1>1, <1>3, <2>1, LiveBelow
  <2> QED
    BY <1>4, <2>2
<1>6. LastEdit(InUse).log \in Int
  BY <1>2 DEF Edit
<1> QED
  BY <1>2, <1>5, <1>6 DEF Number

\* ldb_recover is done: the new log is made, unless one is kept.
LEMMA RecoverEndsInv ==
  ASSUME RecInv, RecoverEnds
  PROVE  RecInv'
<1> DEFINE log == db'.logfile
           view == vs.live \cup op.edit.adds
<1>u. /\ pc = "logs" /\ op.logs = {} /\ pc' = (IF op.save THEN "apply" ELSE "clean")
      /\ UNCHANGED <<tables, manifests, current, temps, op, bg, job, acked, synced, written, doubt>>
  BY DEF RecoverEnds, ghost
<1>c. \/ /\ db.logfile # 0 /\ vs' = [vs EXCEPT !.seq = Higher(vs.seq, op.max)] /\ logs' = logs /\ db' = db
      \/ /\ db.logfile = 0 /\ logs' = Put(logs, vs.next, EmptyLog) /\ db' = [db EXCEPT !.logfile = vs.next]
         /\ vs' = [vs EXCEPT !.seq = Higher(vs.seq, op.max), !.next = vs.next + 1]
  BY DEF RecoverEnds
<1>b. bg' = "idle" /\ job' = NoJob
  BY <1>u, BgRests DEF Using
<1>t. DiskTypes /\ MemoryTypes /\ op \in OpType /\ vs \in VersionsType /\ db \in DbType
      /\ vs.next \in Number /\ vs.next \in Nat /\ vs.log \in Int /\ op.edit.adds \subseteq Number
      /\ vs.live \subseteq Number /\ vs.seq \in Int /\ op.max \in Int
  <2>1. DiskTypes /\ MemoryTypes
    BY DEF RecInv
  <2>2. op \in OpType /\ vs \in VersionsType /\ db \in DbType
    BY <2>1 DEF MemoryTypes
  <2>3. op.edit \in Edit
    BY <2>2 DEF OpType
  <2>4. op.edit.adds \subseteq Number
    BY <2>3 DEF Edit
  <2> QED
    BY <2>1, <2>2, <2>4 DEF OpType, VersionsType, Number
<1>m. /\ current \in DOMAIN manifests /\ Numbered(InUse) # {}
      /\ vs.live = LiveOf(InUse) /\ vs.log = LastEdit(InUse).log /\ LastEdit(InUse).next < vs.next
      /\ op.edit.dels = {}
      /\ \/ op.save
         \/ /\ vs.desc = current /\ vs.manifest = current /\ current # None
            /\ doubt = "no" => manifests[current].synced = Len(InUse)
  BY <1>u DEF RecInv, ManifestInv, Replaying
<1>r. /\ db.imm = {} /\ ~db.has_imm /\ ~db.err /\ db.pending = {}
      /\ op.edit.adds # {} => op.save
      /\ op.edit.adds \subseteq WholeOf(tables) /\ \A t \in op.edit.adds : t < vs.next
      /\ vs.live \subseteq DOMAIN tables
      /\ IF db.logfile = 0 THEN db.mem = {}
         ELSE db.logfile \in Since(logs, vs.log) /\ db.mem = Ents(logs[db.logfile].recs)
      /\ \A k \in Since(logs, vs.log) :
           k < vs.next /\ (k # db.logfile => Ents(logs[k].recs) \subseteq Holds(tables, op.edit.adds))
  BY <1>u DEF RecInv, ReplayInv, Replaying
<1>n. LastEdit(InUse).next <= vs.next /\ vs.log < vs.next /\ \A t \in vs.live : t < vs.next
  <2>1. LastEdit(InUse).next \in Number
    BY <1>t, <1>m, UseType, LastOrdered
  <2>2. LastEdit(InUse).next <= vs.next
    BY <1>t, <1>m, <2>1 DEF Number
  <2> QED
    BY <1>t, <1>m, <2>2, LiveFresh
<1>k. ASSUME NEW k \in DOMAIN logs PROVE k < vs.next /\ k \in Number
  <2>1. k \in Number
    BY <1>t DEF DiskTypes, LogsType
  <2>2. CASE k >= vs.log
    BY <1>r, <2>1, <2>2 DEF Since
  <2>3. CASE ~(k >= vs.log)
    BY <1>t, <1>n, <2>1, <2>3 DEF Number
  <2> QED
    BY <2>1, <2>2, <2>3
<1>v. /\ vs' \in VersionsType /\ vs'.live = vs.live /\ vs'.log = vs.log
      /\ vs'.manifest = vs.manifest /\ vs'.desc = vs.desc /\ vs'.next \in Int /\ vs.next <= vs'.next
      /\ (db.logfile = 0 => vs'.next = vs.next + 1) /\ (db.logfile # 0 => vs'.next = vs.next)
  <2>1. Higher(vs.seq, op.max) \in Int /\ vs.next + 1 \in Number
    BY <1>t DEF Higher, Number
  <2>2. /\ vs' \in VersionsType /\ vs'.live = vs.live /\ vs'.log = vs.log
        /\ vs'.manifest = vs.manifest /\ vs'.desc = vs.desc
        /\ (db.logfile = 0 => vs'.next = vs.next + 1) /\ (db.logfile # 0 => vs'.next = vs.next)
    BY <1>c, <1>t, <2>1 DEF VersionsType
  <2> QED
    BY <1>t, <2>2 DEF Number
<1>d. /\ db' \in DbType /\ db'.mem = db.mem /\ db'.imm = {} /\ ~db'.has_imm /\ ~db'.err /\ db'.pending = {}
      /\ (db.logfile = 0 => log = vs.next) /\ (db.logfile # 0 => log = db.logfile)
  BY <1>c, <1>t, <1>r DEF DbType
<1>l. /\ LogsType(logs') /\ log \in DOMAIN logs'
      /\ \A l \in DOMAIN logs : l \in DOMAIN logs' /\ logs'[l] = logs[l]
      /\ \A l \in DOMAIN logs' : l \in DOMAIN logs \/ l = log
      /\ db.logfile = 0 => logs'[log] = EmptyLog
  <2>1. CASE db.logfile # 0
    BY <1>c, <1>d, <1>r, <1>t, <2>1 DEF DiskTypes, Since
  <2>2. CASE db.logfile = 0
    <3>1. logs' = Put(logs, vs.next, EmptyLog) /\ log = vs.next
      BY <1>c, <1>d, <2>2
    <3>2. /\ DOMAIN logs' = DOMAIN logs \cup {vs.next} /\ logs'[vs.next] = EmptyLog
          /\ \A l \in DOMAIN logs : l # vs.next => logs'[l] = logs[l]
      BY <3>1 DEF Put
    <3>3. vs.next \notin DOMAIN logs
      BY <1>k, <1>t
    <3>4. EmptyLog \in LogFile /\ EmptyLog.synced <= Len(EmptyLog.recs)
      BY DEF EmptyLog, LogFile
    <3>5. LogsType(logs')
      BY <1>t, <3>1, <3>4, LogPut DEF DiskTypes
    <3> QED
      BY <3>1, <3>2, <3>3, <3>5
  <2> QED
    BY <2>1, <2>2
<1> HIDE DEF log
<1>g. /\ Covered'
      /\ \A n : Durable(logs, n) \subseteq Durable(logs', n) /\ Logged(logs, n) \subseteq Logged(logs', n)
  <2>1. \A l \in DOMAIN logs : l \in DOMAIN logs' /\ LogGrows(logs[l], logs'[l])
    BY <1>l DEF LogGrows
  <2>2. Covered
    BY DEF RecInv
  <2> QED
    BY <1>u, <1>t, <2>1, <2>2, CoveredLogs
<1>w. /\ db'.mem = Ents(logs'[log].recs) /\ SyncedOf(logs'[log]) \subseteq db'.mem
      /\ vs.log <= log /\ \A l \in DOMAIN logs' : l < vs'.next
  <2>1. CASE db.logfile # 0
    <3>1. db.mem = Ents(logs[db.logfile].recs) /\ db.logfile \in DOMAIN logs /\ db.logfile >= vs.log
      BY <1>r, <2>1 DEF Since
    <3>2. logs' = logs /\ log = db.logfile /\ vs'.next = vs.next
      BY <1>c, <1>d, <1>v, <2>1
    <3>3. SyncedOf(logs[log]) \subseteq Ents(logs[log].recs)
      BY <1>t, <3>1, <3>2, SyncedLogged DEF DiskTypes
    <3>4. vs.log <= log
      BY <1>t, <1>k, <3>1, <3>2 DEF Number
    <3> QED
      BY <1>d, <1>k, <3>1, <3>2, <3>3, <3>4
  <2>2. CASE db.logfile = 0
    <3>1. logs'[log] = EmptyLog /\ log = vs.next /\ db'.mem = {} /\ vs'.next = vs.next + 1
      BY <1>l, <1>d, <1>r, <1>v, <2>2
    <3>2. Ents(EmptyLog.recs) = {} /\ SyncedOf(EmptyLog) = {}
      BY DEF EmptyLog, Ents, SyncedOf
    <3>3. vs.log <= log
      BY <1>t, <1>n, <3>1
    <3>4. \A l \in Int : l < vs.next => l < vs.next + 1
      BY <1>t
    <3>5. ASSUME NEW l \in DOMAIN logs' PROVE l < vs'.next
      <4>1. CASE l = log
        BY <1>t, <3>1, <4>1
      <4>2. CASE l \in DOMAIN logs
        BY <1>k, <3>1, <3>4, <4>2 DEF Number
      <4> QED
        BY <1>l, <4>1, <4>2
    <3> QED
      BY <3>1, <3>2, <3>3, <3>5
  <2> QED
    BY <2>1, <2>2
<1>1. DiskTypes' /\ MemoryTypes' /\ Repairable'
  <2>1. Repairable'
    BY <1>u, NoRepair DEF Repairable, Repairing
  <2> QED
    BY <1>u, <1>t, <1>v, <1>d, <1>l, <2>1 DEF DiskTypes, MemoryTypes, Applying, Cleaning
<1>e. View' = view
  BY <1>u, <1>v, <1>r DEF View, Applying
<1>2. MemoryInv'
  <2>1. view \subseteq DOMAIN tables /\ \A t \in view : t < vs'.next
    <3>1. view \subseteq Number /\ \A t \in view : t < vs.next
      BY <1>t, <1>r, <1>n
    <3>2. \A t \in Number : t < vs.next => t < vs'.next
      BY <1>t, <1>v DEF Number
    <3> QED
      BY <1>r, <3>1, <3>2 DEF WholeOf
  <2> HIDE DEF view
  <2> QED
    BY <1>u, <1>v, <1>d, <1>l, <1>w, <1>e, <2>1 DEF MemoryInv, Using, log
<1>3. ServeInv'
  <2> SUFFICES ASSUME Promised
               PROVE  /\ view \subseteq WholeOf(tables)
                      /\ acked \cup synced \subseteq db'.mem \cup Holds(tables, view)
                      /\ synced \subseteq Holds(tables, view) \cup SyncedOf(logs'[log])
                      /\ synced \subseteq Holds(tables, view) \cup Durable(logs', vs.log)
    BY <1>u, <1>v, <1>d, <1>e DEF ServeInv, Promised, log
  <2>1. Covered /\ current # None
    BY <1>m, <1>t DEF RecInv, DiskTypes, ManifestsType, Number, None
  <2>2. Accepted(tables, logs, InUse, current, synced)
    BY <1>t, <2>1, UseAccepted
  <2>3. /\ vs.live \subseteq WholeOf(tables) /\ synced \subseteq Holds(tables, vs.live) \cup Durable(logs, vs.log)
        /\ acked \subseteq Holds(tables, vs.live) \cup Logged(logs, vs.log)
    BY <1>m, <2>1, <2>2 DEF Accepted, Covered
  <2>4. Holds(tables, view) = Holds(tables, vs.live) \cup Holds(tables, op.edit.adds)
    BY DEF Holds
  <2>5. ASSUME NEW k \in Since(logs, vs.log)
        PROVE  /\ Ents(logs[k].recs) \subseteq Holds(tables, op.edit.adds) \cup db'.mem
               /\ SyncedOf(logs[k]) \subseteq Holds(tables, op.edit.adds) \cup SyncedOf(logs'[log])
    <3>1. k \in DOMAIN logs /\ k # 0 /\ SyncedOf(logs[k]) \subseteq Ents(logs[k].recs)
      BY <1>t, <1>k, SyncedLogged DEF Since, DiskTypes, Number
    <3>2. CASE k = db.logfile
      BY <1>d, <1>l, <1>w, <3>1, <3>2
    <3>3. CASE k # db.logfile
      BY <1>r, <3>1, <3>3
    <3> QED
      BY <3>2, <3>3
  <2>6. /\ Logged(logs, vs.log) \subseteq Holds(tables, op.edit.adds) \cup db'.mem
        /\ Durable(logs, vs.log) \subseteq Holds(tables, op.edit.adds) \cup SyncedOf(logs'[log])
    BY <2>5 DEF Logged, Durable
  <2>7. Durable(logs, vs.log) \subseteq Durable(logs', vs.log)
    BY <1>g
  <2>8. view \subseteq WholeOf(tables)
    BY <1>r, <2>3
  <2> HIDE DEF view
  <2>9. synced \subseteq db'.mem \cup Holds(tables, view)
    BY <1>w, <2>3, <2>4, <2>6
  <2> QED
    BY <2>3, <2>4, <2>6, <2>7, <2>8, <2>9
<1>4. CASE op.save
  <2>1. ManifestInv'
    BY <1>u, <1>v, <1>4, ManifestSame DEF Replaying
  <2>2. ApplyInv'
    BY <1>u, <1>4 DEF ApplyInv
  <2> QED
    BY <1>u, <1>b, <1>g, <1>1, <1>2, <1>3, <1>4, <2>1, <2>2, AtApply DEF DiskInv, Applying
<1>5. CASE ~op.save
  <2>1. InUse' = InUse /\ Survivors' = Survivors
    BY <1>u DEF InUse, Survivors
  <2>2. Survivors = {Len(InUse)} /\ InUse[Len(InUse)] = LastEdit(InUse)
    BY <1>t, <1>m, <1>5, SoleSurvivor
  <2>3. \A n \in Survivors : InUse[n].log <= log
    BY <1>m, <1>w, <2>2
  <2>4. LastEdit(InUse).next <= vs'.next
    <3>1. LastEdit(InUse).next \in Number
      BY <1>t, <1>m, UseType, LastOrdered
    <3> QED
      BY <1>t, <1>n, <1>v, <3>1 DEF Number
  <2>5. LinkInv'
    <3>1. /\ vs.desc = current /\ vs.manifest = current /\ current # None
          /\ doubt = "no" => manifests[current].synced = Len(InUse)
      BY <1>m, <1>5
    <3>2. /\ vs'.desc = current' /\ vs'.manifest = current' /\ current' # None
          /\ current' \in DOMAIN manifests'
          /\ Numbered(InUse') # {} /\ LastEdit(InUse').next <= vs'.next
          /\ LiveOf(InUse') = vs'.live /\ LastEdit(InUse').log = vs'.log
      BY <1>u, <1>m, <1>v, <2>1, <2>4, <3>1
    <3>3. /\ Promised' => \A n \in Survivors' : InUse'[n].log <= db'.logfile
          /\ doubt' = "no" => manifests'[current'].synced = Len(InUse')
      BY <1>u, <2>1, <2>3, <3>1 DEF log
    <3>4. pc' = "clean" /\ bg' = "idle"
      BY <1>u, <1>b, <1>5
    <3> QED
      BY <3>2, <3>3, <3>4 DEF LinkInv, Cleaning
  <2>6. KillInv'
    BY <1>u, <1>b, <1>5 DEF KillInv
  <2> QED
    BY <1>u, <1>b, <1>g, <1>1, <1>2, <1>3, <1>5, <2>5, <2>6, AtClean DEF DiskInv, Cleaning
<1> QED
  BY <1>4, <1>5

----------------------------------------------------------------------------
(* ldb_versions_apply as ldb_open calls it                                 *)

\* An edit is added to the manifest in use: a crash keeps what it could keep before, or all.
LEMMA SurvivorsAppend ==
  ASSUME DiskTypes, NEW e \in Edit, e.next # -1, current \in DOMAIN manifests, current' = current,
         manifests'[current] = Write(manifests[current], e), doubt' = doubt
  PROVE  /\ InUse' = Append(InUse, e) /\ Len(InUse') = Len(InUse) + 1 /\ LastEdit(InUse') = e
         /\ Numbered(InUse') # {} /\ InUse' \in Seq(Edit)
         /\ manifests'[current].synced = manifests[current].synced
         /\ \A n \in Survivors' : n = Len(InUse) + 1 \/ (n \in Survivors /\ n \in 0..Len(InUse))
<1>1. /\ InUse \in Seq(Edit) /\ Len(InUse) \in Nat /\ manifests[current].synced \in Nat
      /\ manifests[current].synced <= Len(InUse)
  BY UseType
<1>2. /\ InUse' = Append(InUse, e) /\ manifests'[current].synced = manifests[current].synced
  BY DEF InUse, Write
<1>3. Len(InUse') = Len(InUse) + 1 /\ LastEdit(InUse') = e /\ InUse' \in Seq(Edit) /\ Numbered(InUse') # {}
  BY <1>1, <1>2, LastAppend
<1>4. ASSUME NEW n \in Survivors'
      PROVE  n = Len(InUse) + 1 \/ (n \in Survivors /\ n \in 0..Len(InUse))
  <2>1. \A k, s, m \in Nat : s <= k /\ m \in Higher(1, s)..(k + 1) => m = k + 1 \/ (m \in Higher(1, s)..k /\ m \in 0..k)
    BY DEF Higher
  <2>2. CASE doubt = "no"
    <3>1. Survivors' = Higher(1, manifests[current].synced)..(Len(InUse) + 1)
      BY <1>2, <1>3, <2>2 DEF Survivors
    <3>2. Survivors = Higher(1, manifests[current].synced)..Len(InUse)
      BY <2>2 DEF Survivors
    <3>3. n \in Nat
      BY <1>1, <3>1 DEF Higher
    <3> QED
      BY <1>1, <2>1, <3>1, <3>2, <3>3
  <2>3. CASE doubt # "no"
    BY <1>3, <2>3 DEF Survivors
  <2> QED
    BY <2>2, <2>3
<1> QED
  BY <1>2, <1>3, <1>4

\* An edit at the end of the manifest in use that is accepted with it keeps what is covered.
LEMMA CoveredAppend ==
  ASSUME DiskTypes, DiskTypes', Covered, NEW e \in Edit, e.next # -1, current # None,
         current \in DOMAIN manifests, current \in DOMAIN manifests',
         manifests'[current] = Write(manifests[current], e),
         UNCHANGED <<tables, logs, current, acked, synced, doubt>>,
         Promised => /\ Accepted(tables, logs, Append(InUse, e), current, synced)
                     /\ acked \subseteq Holds(tables, LiveOf(Append(InUse, e))) \cup Logged(logs, e.log)
  PROVE  Covered'
<1>1. InUse \in Seq(Edit) /\ Len(InUse) \in Nat
  BY UseType
<1>2. InUse' = Append(InUse, e) /\ Len(InUse') = Len(InUse) + 1 /\ LastEdit(InUse') = e /\ InUse' \in Seq(Edit)
  BY SurvivorsAppend
<1>3. \A n \in Survivors' : n = Len(InUse) + 1 \/ (n \in Survivors /\ n \in 0..Len(InUse))
  BY SurvivorsAppend
<1>4. SubSeq(InUse', 1, Len(InUse) + 1) = InUse'
  <2>1. Len(InUse') \in 0..Len(InUse')
    BY <1>1, <1>2
  <2> QED
    BY <1>2, <2>1, PrefixProps
<1>5. ASSUME Promised, NEW n \in Survivors'
      PROVE  Accepted(tables, logs, SubSeq(InUse', 1, n), current, synced)
  <2>1. n = Len(InUse) + 1 \/ (n \in Survivors /\ n \in 0..Len(InUse))
    BY <1>3
  <2>2. CASE n = Len(InUse) + 1
    BY <1>2, <1>4, <1>5, <2>2
  <2>3. CASE n \in Survivors /\ n \in 0..Len(InUse)
    <3>1. SubSeq(InUse', 1, n) = SubSeq(InUse, 1, n)
      BY <1>1, <1>2, <2>3, PrefixProps
    <3>2. Accepted(tables, logs, SubSeq(InUse, 1, n), current, synced)
      BY <1>5, <2>3 DEF Covered
    <3> QED
      BY <3>1, <3>2
  <2> QED
    BY <2>1, <2>2, <2>3
<1>6. Len(InUse') > 0
  BY <1>1, <1>2
<1>7. Promised => acked' \subseteq Holds(tables', LiveOf(InUse')) \cup Logged(logs', LastEdit(InUse').log)
  BY <1>2
<1>8. Promised' <=> Promised
  BY DEF Promised
<1> QED
  BY <1>5, <1>6, <1>7, <1>8 DEF Covered

\* ldb_open writes its edit, to the manifest in use or, after a snapshot, to a new one.
LEMMA OpenApplyInv ==
  ASSUME RecInv, OpenApply
  PROVE  RecInv'
<1> DEFINE edit == FillEdit(op.edit, db.logfile)
           man == IF vs.desc = None THEN Write(EmptyLog, Snapshot) ELSE manifests[vs.desc]
           view == vs.live \cup op.edit.adds
<1>u. /\ pc = "apply" /\ pc' = "sync"
      /\ manifests' = Put(manifests, vs.manifest, Write(man, edit))
      /\ op' = [op EXCEPT !.edit = edit, !.names = vs.manifest]
      /\ UNCHANGED <<tables, logs, current, temps, vs, db, bg, job, acked, synced, written, doubt>>
  BY DEF OpenApply, ghost
<1>b. bg' = "idle" /\ job' = NoJob
  BY <1>u, BgRests DEF Using
<1>t. DiskTypes /\ MemoryTypes /\ op \in OpType /\ vs \in VersionsType /\ db \in DbType /\ op.edit \in Edit
      /\ vs.next \in Number /\ vs.next \in Int /\ vs.live \subseteq Number /\ vs.seq \in Int
      /\ db.logfile \in Nat /\ vs.manifest \in Nat /\ ManifestsType(manifests)
  <2>1. DiskTypes /\ MemoryTypes
    BY DEF RecInv
  <2>2. op \in OpType /\ vs \in VersionsType /\ db \in DbType /\ ManifestsType(manifests)
    BY <2>1 DEF MemoryTypes, DiskTypes
  <2> QED
    BY <2>1, <2>2 DEF OpType, VersionsType, DbType, Number
<1>m. /\ current \in DOMAIN manifests /\ Numbered(InUse) # {}
      /\ vs.live = LiveOf(InUse) /\ vs.log = LastEdit(InUse).log /\ LastEdit(InUse).next < vs.next
      /\ op.edit.dels = {}
      /\ \/ vs.desc = None /\ vs.manifest = LastEdit(InUse).next
         \/ /\ vs.desc = current /\ vs.manifest = current /\ current # None
            /\ doubt = "no" => manifests[current].synced = Len(InUse)
  BY <1>u DEF RecInv, ManifestInv, Replaying
<1>i. /\ InUse \in Seq(Edit) /\ Ordered(InUse) /\ Len(InUse) \in Nat /\ current \in Number
      /\ manifests[current].synced \in Nat /\ manifests[current].synced <= Len(InUse)
      /\ LastEdit(InUse).next \in Number
  BY <1>t, <1>m, UseType, LastOrdered
<1>y. /\ db.logfile \in DOMAIN logs /\ db.logfile < vs.next /\ View = view /\ ~db.has_imm
      /\ view \subseteq DOMAIN tables /\ \A t \in view : t < vs.next
  BY <1>u DEF RecInv, MemoryInv, View, Serving, Applying, Using
<1>e. /\ edit \in Edit /\ edit.adds = op.edit.adds /\ edit.dels = {} /\ edit.log = db.logfile
      /\ edit.next = vs.next /\ edit.next # -1
  <2>1. vs.next # -1 /\ db.logfile \in Int
    BY <1>t DEF Number
  <2> QED
    BY <1>t, <1>m, <2>1 DEF FillEdit, Edit
<1>p. Promised => /\ Accepted(tables, logs, InUse, current, synced) /\ current < LastEdit(InUse).next
                  /\ view \subseteq WholeOf(tables)
                  /\ synced \subseteq Holds(tables, view) \cup Durable(logs, db.logfile)
                  /\ acked \subseteq Holds(tables, view) \cup Logged(logs, db.logfile)
  <2>1. Promised => Accepted(tables, logs, InUse, current, synced) /\ current < LastEdit(InUse).next
    <3>1. Covered /\ current # None
      BY <1>i DEF RecInv, Number, None
    <3> QED
      BY <1>t, <3>1, UseAccepted
  <2> QED
    BY <1>u, <1>y, <2>1, ServeLogs DEF Serving, Applying
<1> HIDE DEF edit, view
<1>c. /\ vs.manifest \in Number /\ (Promised => vs.manifest < vs.next)
      /\ Write(man, edit) \in ManifestFile /\ Write(man, edit).synced <= Len(Write(man, edit).recs)
      /\ Ordered(Write(man, edit).recs)
      /\ LiveOf(Write(man, edit).recs) = view /\ Numbered(Write(man, edit).recs) # {}
      /\ LastEdit(Write(man, edit).recs) = edit
  <2>1. CASE vs.desc = None
    <3> DEFINE one == <<Snapshot>>
    <3>1. Write(man, edit) = [recs |-> Append(one, edit), synced |-> 0]
      <4>1. man = [recs |-> <<Snapshot>>, synced |-> 0]
        BY <2>1 DEF Write, EmptyLog
      <4> HIDE DEF man
      <4> QED
        BY <4>1 DEF Write
    <3>2. Snapshot \in Edit /\ Snapshot.adds = vs.live /\ Snapshot.next = -1 /\ Snapshot.dels = {}
      BY <1>t, NoTypes DEF Snapshot, NoEdit, Edit
    <3>3. one \in Seq(Edit) /\ Len(one) = 1 /\ one[1] = Snapshot /\ LiveOf(one) = vs.live /\ Ordered(one)
      BY <3>2, SingleEdit
    <3> HIDE DEF one
    <3> DEFINE two == Append(one, edit)
    <3>4. /\ two \in Seq(Edit) /\ Len(two) \in Nat /\ Numbered(two) # {} /\ LastEdit(two) = edit
      BY <1>e, <3>3, LastAppend
    <3>5. LiveOf(two) = view
      <4>1. LiveOf(two) = (vs.live \ edit.dels) \cup edit.adds
        BY <1>e, <3>3, LiveAppend
      <4> QED
        BY <1>e, <4>1 DEF view
    <3>6. Ordered(two)
      <4>1. Below(one, edit.next)
        BY <1>e, <1>t, <1>y, <3>2, <3>3 DEF Below, view, Number
      <4>2. edit.log < edit.next /\ \A t \in edit.adds : t < edit.next
        BY <1>e, <1>y DEF view
      <4> QED
        BY <1>e, <3>3, <4>1, <4>2, OrderedAppend
    <3>7. vs.manifest = LastEdit(InUse).next
      BY <1>m, <1>i, <2>1 DEF Number, None
    <3> HIDE DEF two
    <3>8. Write(man, edit) = [recs |-> two, synced |-> 0]
      BY <3>1 DEF two
    <3>9. 0 <= Len(two) /\ 0 \in Nat
      BY <3>4
    <3> QED
      BY <1>i, <1>m, <3>4, <3>5, <3>6, <3>7, <3>8, <3>9 DEF ManifestFile
  <2>2. CASE vs.desc # None
    <3>1. vs.desc = current /\ vs.manifest = current
      BY <1>m, <2>2
    <3> DEFINE more == Append(InUse, edit)
    <3>2. Write(man, edit) = [recs |-> more, synced |-> manifests[current].synced]
      BY <2>2, <3>1 DEF Write, InUse
    <3>3. /\ more \in Seq(Edit) /\ Len(more) = Len(InUse) + 1 /\ Numbered(more) # {} /\ LastEdit(more) = edit
      BY <1>e, <1>i, LastAppend
    <3>4. LiveOf(more) = view
      <4>1. LiveOf(more) = (LiveOf(InUse) \ edit.dels) \cup edit.adds
        BY <1>e, <1>i, LiveAppend
      <4> QED
        BY <1>e, <1>m, <4>1 DEF view
    <3>5. Ordered(more)
      <4>1. LastEdit(InUse).next <= vs.next
        BY <1>i, <1>m, <1>t DEF Number
      <4>2. Below(InUse, edit.next)
        BY <1>i, <1>m, <1>e, <1>t, <4>1, OrderedBelow
      <4>3. edit.log < edit.next /\ \A t \in edit.adds : t < edit.next
        BY <1>e, <1>y DEF view
      <4> QED
        BY <1>e, <1>i, <4>2, <4>3, OrderedAppend
    <3>6. Promised => vs.manifest < vs.next
      BY <1>i, <1>m, <1>t, <1>p, <3>1 DEF Number
    <3>7. manifests[current].synced <= Len(more)
      BY <1>i, <3>3
    <3> HIDE DEF more
    <3> QED
      BY <1>i, <3>1, <3>2, <3>3, <3>4, <3>5, <3>6, <3>7 DEF ManifestFile
  <2> QED
    BY <2>1, <2>2
<1> HIDE DEF man
<1>x. /\ ManifestsType(manifests') /\ vs.manifest \in DOMAIN manifests'
      /\ manifests'[vs.manifest] = Write(man, edit)
      /\ \A m \in DOMAIN manifests : m # vs.manifest => m \in DOMAIN manifests' /\ manifests'[m] = manifests[m]
  <2>1. /\ DOMAIN manifests' = DOMAIN manifests \cup {vs.manifest} /\ manifests'[vs.manifest] = Write(man, edit)
        /\ \A m \in DOMAIN manifests : m # vs.manifest => manifests'[m] = manifests[m]
    BY <1>u DEF Put
  <2>2. ManifestsType(manifests')
    BY <1>u, <1>t, <1>c, ManifestPut
  <2> QED
    BY <2>1, <2>2
<1>o. op' \in OpType /\ op'.edit = edit /\ op'.names = vs.manifest
  BY <1>u, <1>t, <1>e DEF OpType
<1>1. DiskTypes' /\ MemoryTypes' /\ Repairable'
  <2>1. Repairable'
    BY <1>u, NoRepair DEF Repairable, Repairing
  <2> QED
    BY <1>u, <1>t, <1>o, <1>x, <2>1 DEF DiskTypes, MemoryTypes, Applying
<1>2. Covered'
  <2>0. Covered /\ current # None
    BY <1>i DEF RecInv, Number, None
  <2>1. CASE vs.desc = None
    <3>1. Promised => current # vs.manifest
      <4>1. vs.manifest = LastEdit(InUse).next
        BY <1>m, <2>0, <2>1
      <4> QED
        BY <1>i, <1>p, <4>1 DEF Number
    <3>2. Promised /\ current # None =>
            /\ current \in DOMAIN manifests' /\ manifests'[current] = manifests[current]
            /\ \A n \in Survivors : \A t \in LiveOf(SubSeq(InUse, 1, n)) :
                 t \in DOMAIN tables' /\ tables'[t] = tables[t]
      BY <1>u, <1>m, <1>x, <2>0, <3>1 DEF Covered, Accepted, WholeOf
    <3>3. Promised' => doubt' = doubt
      BY <1>u
    <3>4. \A n : Durable(logs, n) \subseteq Durable(logs', n) /\ Logged(logs, n) \subseteq Logged(logs', n)
      BY <1>u
    <3> QED
      BY <1>u, <1>t, <2>0, <3>2, <3>3, <3>4, CoveredKept
  <2>2. CASE vs.desc # None
    <3>1. vs.manifest = current /\ man = manifests[current]
      BY <1>m, <2>2 DEF man
    <3>2. Write(man, edit).recs = Append(InUse, edit)
      BY <3>1 DEF Write, InUse
    <3>3. Promised => /\ Accepted(tables, logs, Append(InUse, edit), current, synced)
                      /\ acked \subseteq Holds(tables, LiveOf(Append(InUse, edit))) \cup Logged(logs, edit.log)
      BY <1>p, <1>c, <1>e, <3>1, <3>2 DEF Accepted
    <3> QED
      BY <1>u, <1>t, <1>e, <1>m, <1>x, <1>1, <2>0, <3>1, <3>3, CoveredAppend
  <2> QED
    BY <2>1, <2>2
<1>3. ApplyInv'
  <2>1. /\ Written' = Write(man, edit).recs /\ LiveOf(Written') = vs.live \cup edit.adds
    BY <1>u, <1>x, <1>c, <1>e DEF Written, view
  <2>2. vs.desc # None => vs.manifest = current
    BY <1>m
  <2>3. Promised /\ vs.desc = None => vs.manifest # current
    <3>1. vs.desc = None => vs.manifest = LastEdit(InUse).next
      BY <1>m
    <3> QED
      BY <1>i, <1>p, <3>1 DEF Number
  <2>4. vs.manifest # None
    BY <1>c DEF Number, None
  <2>5. Promised' <=> Promised
    BY <1>u DEF Promised
  <2> QED
    BY <1>u, <1>x, <1>c, <1>e, <1>o, <2>1, <2>2, <2>3, <2>4, <2>5 DEF ApplyInv
<1>4. MemoryInv' /\ ServeInv' /\ ManifestInv'
  <2>1. View' = View
    BY <1>u, <1>o, <1>e DEF View, Applying
  <2>2. MemoryInv'
    BY <1>u, <2>1 DEF RecInv, MemoryInv, Serving, Applying, Using
  <2>3. ServeInv'
    BY <1>u, <2>1 DEF RecInv, ServeInv, Promised, Serving, Applying
  <2>4. ManifestInv'
    BY <1>u DEF ManifestInv, Replaying
  <2> QED
    BY <2>2, <2>3, <2>4
<1> QED
  BY <1>u, <1>b, <1>1, <1>2, <1>3, <1>4, AtApply DEF DiskInv, Applying

\* What is known of the manifest ldb_open has written.
LEMMA InApply ==
  ASSUME RecInv, pc \in {"sync", "temp2", "rename2", "install"}
  PROVE  /\ vs.manifest \in DOMAIN manifests /\ vs.manifest # None /\ op.names = vs.manifest
         /\ LiveOf(Written) = vs.live \cup op.edit.adds /\ View = vs.live \cup op.edit.adds
         /\ Numbered(Written) # {} /\ LastEdit(Written) = op.edit
         /\ op.edit.dels = {} /\ op.edit.log = db.logfile /\ op.edit.next = vs.next
         /\ (pc # "sync" => manifests[vs.manifest].synced = Len(Written))
         /\ (vs.desc # None \/ pc = "install" => vs.manifest = current)
         /\ (Promised => vs.manifest < vs.next)
         /\ (Promised /\ vs.desc = None /\ pc # "install" => vs.manifest # current)
         /\ ~db.has_imm /\ vs.manifest \in Number
         /\ manifests[vs.manifest] \in ManifestFile /\ Ordered(Written)
<1>1. pc \in Applying \ {"apply"}
  BY DEF Applying
<1>2. vs.manifest \in DOMAIN manifests
  BY <1>1 DEF RecInv, ApplyInv
<1>3. vs.manifest \in Number /\ manifests[vs.manifest] \in ManifestFile /\ Ordered(Written)
  BY <1>2 DEF RecInv, DiskTypes, ManifestsType, Written
<1>4. ~db.has_imm /\ View = vs.live \cup op.edit.adds
  BY <1>1 DEF RecInv, MemoryInv, View, Serving, Applying, Using
<1> QED
  BY <1>1, <1>2, <1>3, <1>4 DEF RecInv, ApplyInv

\* ldb_open syncs the manifest.
LEMMA OpenSyncInv ==
  ASSUME RecInv, OpenSync
  PROVE  RecInv'
<1>u. /\ pc = "sync" /\ pc' = (IF vs.desc = None THEN "temp2" ELSE "install")
      /\ manifests' = [manifests EXCEPT ![vs.manifest] = Whole(manifests[vs.manifest])]
      /\ doubt' = (IF vs.desc = None THEN doubt ELSE Settled)
      /\ UNCHANGED <<tables, logs, current, temps, op, vs, db, bg, job, acked, synced, written>>
  BY DEF OpenSync
<1>b. bg' = "idle" /\ job' = NoJob
  BY <1>u, BgRests DEF Using
<1>t. DiskTypes /\ MemoryTypes
  BY DEF RecInv
<1>a. /\ vs.manifest \in DOMAIN manifests /\ vs.manifest # None /\ op.names = vs.manifest
      /\ LiveOf(Written) = vs.live \cup op.edit.adds
      /\ Numbered(Written) # {} /\ LastEdit(Written) = op.edit
      /\ op.edit.dels = {} /\ op.edit.log = db.logfile /\ op.edit.next = vs.next
      /\ (vs.desc # None => vs.manifest = current)
      /\ (Promised => vs.manifest < vs.next)
      /\ (Promised /\ vs.desc = None => vs.manifest # current)
      /\ manifests[vs.manifest] \in ManifestFile /\ Ordered(Written)
  BY <1>u, InApply
<1>m. /\ DOMAIN manifests' = DOMAIN manifests /\ Written' = Written
      /\ manifests'[vs.manifest].synced = Len(Written)
      /\ manifests'[vs.manifest] \in ManifestFile
      /\ \A m \in DOMAIN manifests : m # vs.manifest => manifests'[m] = manifests[m]
  <2>1. /\ DOMAIN manifests' = DOMAIN manifests /\ manifests'[vs.manifest] = Whole(manifests[vs.manifest])
        /\ \A m \in DOMAIN manifests : m # vs.manifest => manifests'[m] = manifests[m]
    BY <1>u, <1>a
  <2>2. /\ Whole(manifests[vs.manifest]).recs = Written /\ Whole(manifests[vs.manifest]).synced = Len(Written)
        /\ Whole(manifests[vs.manifest]) \in ManifestFile
    BY <1>a DEF Whole, ManifestFile, Written
  <2> QED
    BY <1>u, <2>1, <2>2 DEF Written
<1>d. doubt' \in {"no", "reuse", "lost"} /\ (Promised' => Promised)
  BY <1>u, <1>t, NoRepair DEF MemoryTypes, Settled, Repairing, Promised
<1>1. DiskTypes' /\ MemoryTypes' /\ Repairable'
  <2>1. ManifestsType(manifests')
    <3>1. ASSUME NEW m \in DOMAIN manifests
          PROVE  /\ m \in Number /\ manifests'[m] \in ManifestFile /\ manifests'[m].synced <= Len(manifests'[m].recs)
                 /\ Ordered(manifests'[m].recs)
      <4>1. CASE m = vs.manifest
        <5>1. manifests'[m].recs = Written /\ Len(Written) \in Nat /\ m \in Number
          BY <1>u, <1>t, <1>m, <1>a, <4>1 DEF Written, DiskTypes, ManifestsType, ManifestFile
        <5> QED
          BY <1>m, <1>a, <4>1, <5>1
      <4>2. CASE m # vs.manifest
        BY <1>t, <1>m, <4>2 DEF DiskTypes, ManifestsType
      <4> QED
        BY <4>1, <4>2
    <3> QED
      BY <1>m, <3>1 DEF ManifestsType
  <2> QED
    BY <1>u, <1>t, <1>d, <2>1 DEF DiskTypes, MemoryTypes, Repairable, Applying
<1>2. Covered'
  <2>0. Covered
    BY DEF RecInv
  <2>1. CASE vs.desc = None
    <3>1. Promised /\ current # None =>
            /\ current \in DOMAIN manifests' /\ manifests'[current] = manifests[current]
            /\ \A n \in Survivors : \A t \in LiveOf(SubSeq(InUse, 1, n)) :
                 t \in DOMAIN tables' /\ tables'[t] = tables[t]
      BY <1>u, <1>m, <1>a, <2>0, <2>1 DEF Covered, Accepted, WholeOf
    <3>2. Promised' => doubt' = doubt
      BY <1>u, <2>1
    <3>3. \A n : Durable(logs, n) \subseteq Durable(logs', n) /\ Logged(logs, n) \subseteq Logged(logs', n)
      BY <1>u
    <3> QED
      BY <1>u, <1>t, <2>0, <3>1, <3>2, <3>3, CoveredKept
  <2>2. CASE vs.desc # None
    <3>1. /\ vs.manifest = current /\ current # None /\ InUse = Written /\ InUse' = InUse
          /\ manifests'[current].synced = Len(InUse) /\ current \in DOMAIN manifests' /\ Numbered(InUse) # {}
      BY <1>u, <1>a, <1>m, <2>2 DEF InUse, Written
    <3>2. Promised' => /\ Accepted(tables, logs, InUse, current, synced)
                       /\ acked \subseteq Holds(tables, LiveOf(InUse)) \cup Logged(logs, LastEdit(InUse).log)
      BY <1>t, <1>d, <2>0, <3>1, UseAccepted DEF Covered
    <3>3. Promised' => /\ LiveOf(InUse') \subseteq WholeOf(tables')
                       /\ current' < LastEdit(InUse').next
                       /\ synced' \subseteq Holds(tables', LiveOf(InUse')) \cup Durable(logs', LastEdit(InUse').log)
                       /\ acked' \subseteq Holds(tables', LiveOf(InUse')) \cup Logged(logs', LastEdit(InUse').log)
      BY <1>u, <3>1, <3>2 DEF Accepted
    <3> QED
      BY <1>u, <1>1, <3>1, <3>3, CoveredSwitch
  <2> QED
    BY <2>1, <2>2
<1>3. ApplyInv'
  BY <1>u, <1>a, <1>m, <1>d DEF ApplyInv
<1>4. MemoryInv' /\ ServeInv' /\ ManifestInv'
  <2>1. View' = View
    BY <1>u DEF View, Applying
  <2>2. MemoryInv'
    BY <1>u, <2>1 DEF RecInv, MemoryInv, Serving, Applying, Using
  <2>3. ServeInv'
    BY <1>u, <1>d, <2>1 DEF RecInv, ServeInv, Serving, Applying
  <2>4. ManifestInv'
    BY <1>u DEF ManifestInv, Replaying
  <2> QED
    BY <2>2, <2>3, <2>4
<1> QED
  BY <1>u, <1>b, <1>1, <1>2, <1>3, <1>4, AtApply DEF DiskInv, Applying

\* ldb_open fails to record its edit: a new manifest is removed, the one in use is not.
LEMMA OpenApplyFailsInv ==
  ASSUME RecInv, OpenApplyFails
  PROVE  RecInv'
<1>u. /\ pc \in {"apply", "sync", "temp2", "rename2"} /\ pc' = "down"
      /\ vs' = NoVersions /\ db' = NoDb /\ op' = NoOp
      /\ manifests' = (IF vs.desc = None THEN Drop(manifests, {vs.manifest}) ELSE manifests)
      /\ temps' = temps \ {op.names}
      /\ UNCHANGED <<tables, logs, current, bg, job, acked, synced, written, doubt>>
  BY DEF OpenApplyFails
<1>b. bg' = "idle" /\ job' = NoJob
  BY <1>u, BgRests DEF Using
<1>t. DiskTypes /\ MemoryTypes /\ Covered
  BY DEF RecInv
<1>n. Promised /\ current # None /\ vs.desc = None => vs.manifest # current
  <2>1. CASE pc = "apply"
    <3>1. vs.desc = None => vs.manifest = LastEdit(InUse).next \/ current = None
      BY <2>1 DEF RecInv, ManifestInv
    <3>2. Promised /\ current # None => LastEdit(InUse).next \in Number /\ current < LastEdit(InUse).next
      BY <1>t, UseAccepted
    <3>3. current \in Nat
      BY <1>t DEF DiskTypes
    <3> QED
      BY <3>1, <3>2, <3>3 DEF Number
  <2>2. CASE pc # "apply"
    BY <1>u, <2>2, InApply
  <2> QED
    BY <2>1, <2>2
<1>m. /\ \A m \in DOMAIN manifests : (vs.desc = None /\ m = vs.manifest) \/ (m \in DOMAIN manifests' /\ manifests'[m] = manifests[m])
      /\ ManifestsType(manifests')
  <2>1. ManifestsType(manifests')
    BY <1>u, <1>t, ManifestDrop DEF DiskTypes
  <2> QED
    BY <1>u, <2>1 DEF Drop, Restrict
<1>1. DiskTypes' /\ MemoryTypes' /\ Repairable'
  <2>1. IsFiniteSet(temps')
    BY <1>u, <1>t, FS_Subset DEF DiskTypes
  <2>2. Repairable'
    BY <1>u, NoRepair DEF Repairable, Repairing
  <2> QED
    BY <1>u, <1>t, <1>m, <2>1, <2>2, NoTypes DEF DiskTypes, MemoryTypes
<1>2. Covered'
  <2>1. Promised /\ current # None =>
          /\ current \in DOMAIN manifests' /\ manifests'[current] = manifests[current]
          /\ \A n \in Survivors : \A t \in LiveOf(SubSeq(InUse, 1, n)) :
               t \in DOMAIN tables' /\ tables'[t] = tables[t]
    BY <1>u, <1>m, <1>n, <1>t DEF Covered, Accepted, WholeOf
  <2>2. Promised' => doubt' = doubt
    BY <1>u
  <2>3. \A n : Durable(logs, n) \subseteq Durable(logs', n) /\ Logged(logs, n) \subseteq Logged(logs', n)
    BY <1>u
  <2> QED
    BY <1>u, <1>t, <2>1, <2>2, <2>3, CoveredKept
<1> QED
  BY <1>u, <1>b, <1>1, <1>2, AtDown DEF DiskInv

\* ldb_open installs the version it recorded.
LEMMA OpenInstallInv ==
  ASSUME RecInv, OpenInstall
  PROVE  RecInv'
<1>u. /\ pc = "install" /\ pc' = "clean"
      /\ vs' = [vs EXCEPT !.live = (vs.live \ op.edit.dels) \cup op.edit.adds, !.log = op.edit.log,
                          !.desc = vs.manifest]
      /\ UNCHANGED <<tables, logs, manifests, current, temps, op, db, bg, job, acked, synced, written, doubt>>
  BY DEF OpenInstall, Install, disk, ghost
<1>b. bg' = "idle" /\ job' = NoJob
  BY <1>u, BgRests DEF Using
<1>t. DiskTypes /\ MemoryTypes /\ vs \in VersionsType /\ op.edit \in Edit /\ op.edit.adds \subseteq Number
      /\ vs.next \in Int /\ vs.manifest \in Nat /\ vs.live \subseteq Number /\ op.edit.log \in Int
  <2>1. DiskTypes /\ MemoryTypes
    BY DEF RecInv
  <2>2. vs \in VersionsType /\ op.edit \in Edit
    BY <2>1 DEF MemoryTypes, OpType
  <2> QED
    BY <2>1, <2>2 DEF VersionsType, Edit, Number
<1>a. /\ current = vs.manifest /\ current \in DOMAIN manifests /\ current # None
      /\ LiveOf(InUse) = vs.live \cup op.edit.adds /\ View = vs.live \cup op.edit.adds
      /\ Numbered(InUse) # {} /\ LastEdit(InUse) = op.edit
      /\ op.edit.dels = {} /\ op.edit.log = db.logfile /\ op.edit.next = vs.next
      /\ manifests[current].synced = Len(InUse) /\ ~db.has_imm
  BY <1>u, InApply DEF InUse, Written
<1>v. /\ vs' \in VersionsType /\ vs'.live = View /\ vs'.log = db.logfile /\ vs'.next = vs.next
      /\ vs'.manifest = current /\ vs'.desc = current
  BY <1>u, <1>t, <1>a DEF VersionsType
<1>1. DiskTypes' /\ Covered' /\ Repairable' /\ InUse' = InUse /\ MemoryTypes'
  <2>1. DiskTypes' /\ Covered' /\ Repairable' /\ InUse' = InUse
    BY <1>u, DiskSame DEF Repairing
  <2> QED
    BY <1>u, <1>t, <1>v, <2>1 DEF MemoryTypes, Cleaning
<1>w. View' = View /\ Survivors' = Survivors
  BY <1>u, <1>v DEF View, Applying, Survivors, InUse
<1>y. /\ db.logfile \in DOMAIN logs /\ db.logfile \in Int /\ \A l \in DOMAIN logs : l < vs.next
      /\ View \subseteq DOMAIN tables /\ \A t \in View : t < vs.next
      /\ db.mem \subseteq Ents(logs[db.logfile].recs)
      /\ db.imm = {} /\ ~db.has_imm /\ ~db.err /\ db.pending = {}
  BY <1>u, <1>t, <1>a DEF RecInv, MemoryInv, Serving, Applying, Using
<1>2. MemoryInv'
  <2>1. db.logfile <= db.logfile
    BY <1>y
  <2> QED
    BY <1>u, <1>v, <1>w, <1>y, <2>1 DEF MemoryInv, Using
<1>3. ServeInv'
  <2>1. Promised => synced \subseteq Holds(tables, View) \cup Durable(logs, db.logfile)
    BY <1>u, <1>a, ServeLogs DEF Serving, Applying
  <2>2. Promised => /\ View \subseteq WholeOf(tables)
                    /\ acked \cup synced \subseteq db.mem \cup db.imm \cup Holds(tables, View)
                    /\ synced \subseteq db.imm \cup Holds(tables, View) \cup SyncedOf(logs[db.logfile])
    BY <1>u DEF RecInv, ServeInv, Serving, Applying
  <2> QED
    BY <1>u, <1>v, <1>w, <2>1, <2>2 DEF ServeInv, Promised
<1>4. LinkInv'
  <2>1. Survivors = {Len(InUse)} /\ InUse[Len(InUse)] = LastEdit(InUse)
    BY <1>t, <1>a, SoleSurvivor
  <2>2. \A n \in Survivors : InUse[n].log <= db.logfile
    BY <1>a, <1>y, <2>1
  <2>3. vs.next <= vs.next
    BY <1>t
  <2> QED
    BY <1>u, <1>b, <1>1, <1>a, <1>v, <1>w, <2>2, <2>3 DEF LinkInv, Cleaning
<1>5. KillInv'
  BY <1>u, <1>b DEF KillInv
<1> QED
  BY <1>u, <1>b, <1>1, <1>2, <1>3, <1>4, <1>5, AtClean DEF DiskInv, Cleaning

----------------------------------------------------------------------------
(* Obsolete files                                                          *)

\* One file goes: what it takes from each kind of file.
LEMMA RemoveEffect ==
  ASSUME NEW f, RemoveFiles({f}), f[1] \in {"log", "manifest", "table", "temp"}
  PROVE  /\ DOMAIN logs' \subseteq DOMAIN logs
         /\ \A l \in DOMAIN logs : ~(f[1] = "log" /\ f[2] = l) => l \in DOMAIN logs' /\ logs'[l] = logs[l]
         /\ DOMAIN manifests' \subseteq DOMAIN manifests
         /\ \A m \in DOMAIN manifests : ~(f[1] = "manifest" /\ f[2] = m) =>
              m \in DOMAIN manifests' /\ manifests'[m] = manifests[m]
         /\ DOMAIN tables' \subseteq DOMAIN tables
         /\ \A t \in DOMAIN tables : ~(f[1] = "table" /\ f[2] = t) => t \in DOMAIN tables' /\ tables'[t] = tables[t]
         /\ \A t \in DOMAIN tables' : tables'[t] = tables[t]
         /\ temps' \subseteq temps
<1>1. ASSUME NEW kind PROVE \A x \in Named(kind, {f}) : f[1] = kind /\ x = f[2]
  BY DEF Named
<1>2. /\ DOMAIN logs' = DOMAIN logs \ Named("log", {f})
      /\ \A l \in DOMAIN logs' : logs'[l] = logs[l]
  BY DEF RemoveFiles, Drop, Restrict
<1>3. /\ DOMAIN manifests' = DOMAIN manifests \ Named("manifest", {f})
      /\ \A m \in DOMAIN manifests' : manifests'[m] = manifests[m]
  BY DEF RemoveFiles, Drop, Restrict
<1>4. /\ DOMAIN tables' = DOMAIN tables \ Named("table", {f})
      /\ \A t \in DOMAIN tables' : tables'[t] = tables[t]
  BY DEF RemoveFiles, Drop, Restrict
<1>5. temps' \subseteq temps
  BY DEF RemoveFiles
<1> QED
  BY <1>1, <1>2, <1>3, <1>4, <1>5

\* A removal keeps the types.
LEMMA RemoveTypes ==
  ASSUME DiskTypes, NEW files, RemoveFiles(files), current' \in Nat
  PROVE  DiskTypes'
<1>1. LogsType(logs') /\ ManifestsType(manifests') /\ TablesType(tables')
  BY LogDrop, ManifestDrop, TableDrop DEF DiskTypes, RemoveFiles
<1>2. temps' \subseteq Number /\ IsFiniteSet(temps')
  BY FS_Subset DEF DiskTypes, RemoveFiles
<1> QED
  BY <1>1, <1>2 DEF DiskTypes

\* A file that is not needed goes: nothing changes for anyone.
LEMMA RemoveOne ==
  ASSUME RecInv, pc = "kill" \/ (pc \in Using /\ bg = "kill"), NEW f \in FileNames, Unneeded(f),
         RemoveFiles({f}),
         UNCHANGED <<current, pc, vs, db, bg, acked, synced, doubt>>
  PROVE  /\ DiskTypes' /\ Covered' /\ Repairable' /\ MemoryInv' /\ ServeInv' /\ LinkInv' /\ InUse' = InUse
         /\ Files' \subseteq Files
         /\ DOMAIN tables' \subseteq DOMAIN tables
         /\ \A t \in vs.live \cup db.pending : t \in DOMAIN tables => t \in DOMAIN tables' /\ tables'[t] = tables[t]
<1>t. DiskTypes /\ MemoryTypes /\ Covered /\ db.logfile \in Nat /\ vs.log \in Int /\ vs.manifest \in Nat
  BY DEF RecInv, MemoryTypes, DbType, VersionsType
<1>f. f[1] \in {"log", "manifest", "table", "temp"} /\ f[2] \in Number
  BY DEF FileNames
<1>e. /\ DOMAIN logs' \subseteq DOMAIN logs
      /\ \A l \in DOMAIN logs : ~(f[1] = "log" /\ f[2] = l) => l \in DOMAIN logs' /\ logs'[l] = logs[l]
      /\ DOMAIN manifests' \subseteq DOMAIN manifests
      /\ \A m \in DOMAIN manifests : ~(f[1] = "manifest" /\ f[2] = m) =>
           m \in DOMAIN manifests' /\ manifests'[m] = manifests[m]
      /\ DOMAIN tables' \subseteq DOMAIN tables
      /\ \A t \in DOMAIN tables : ~(f[1] = "table" /\ f[2] = t) => t \in DOMAIN tables' /\ tables'[t] = tables[t]
      /\ \A t \in DOMAIN tables' : tables'[t] = tables[t]
      /\ temps' \subseteq temps
  BY <1>f, RemoveEffect
<1>n. /\ f[1] = "log" => f[2] < vs.log /\ f[2] < LastEdit(InUse).log
      /\ f[1] = "manifest" => f[2] < vs.manifest
      /\ f[1] = "table" => f[2] \notin vs.live \cup db.pending \cup LiveOf(InUse)
  BY DEF Unneeded
<1>l. /\ vs.manifest = current /\ current # None /\ current \in DOMAIN manifests /\ Numbered(InUse) # {}
      /\ (doubt = "no" => manifests[current].synced = Len(InUse))
  BY DEF RecInv, LinkInv, Cleaning
<1>i. LastEdit(InUse).log \in Int
  <2>1. LastEdit(InUse) \in Edit
    BY <1>t, <1>l, UseType, LastOrdered
  <2> QED
    BY <2>1 DEF Edit
<1>c. current \in DOMAIN manifests' /\ manifests'[current] = manifests[current] /\ InUse' = InUse
  <2>1. ~(f[1] = "manifest" /\ f[2] = current)
    BY <1>f, <1>n, <1>l DEF Number
  <2> QED
    BY <1>e, <1>l, <2>1 DEF InUse
<1>s. Survivors = {Len(InUse)} /\ SubSeq(InUse, 1, Len(InUse)) = InUse /\ Survivors' = Survivors
  <2>1. Survivors = {Len(InUse)}
    BY <1>t, <1>l, SoleSurvivor
  <2>2. SubSeq(InUse, 1, Len(InUse)) = InUse
    <3>1. InUse \in Seq(Edit) /\ Len(InUse) \in 0..Len(InUse)
      BY <1>t, <1>l, UseType
    <3> QED
      BY <3>1, PrefixProps
  <2> QED
    BY <1>c, <2>1, <2>2 DEF Survivors
<1>v. \A t \in vs.live \cup db.pending \cup LiveOf(InUse) :
        t \in DOMAIN tables => t \in DOMAIN tables' /\ tables'[t] = tables[t]
  BY <1>e, <1>n
<1>g. ASSUME NEW n \in Int, f[1] = "log" => f[2] < n
      PROVE  /\ Since(logs', n) = Since(logs, n) /\ \A l \in Since(logs, n) : logs'[l] = logs[l]
             /\ Logged(logs', n) = Logged(logs, n) /\ Durable(logs', n) = Durable(logs, n)
  <2>1. ASSUME NEW l \in DOMAIN logs, l >= n PROVE l \in DOMAIN logs' /\ logs'[l] = logs[l]
    <3>1. ~(f[1] = "log" /\ f[2] = l)
      BY <1>f, <1>g, <2>1 DEF Number
    <3> QED
      BY <1>e, <3>1
  <2>2. Since(logs', n) = Since(logs, n) /\ \A l \in Since(logs, n) : logs'[l] = logs[l]
    BY <1>e, <2>1 DEF Since
  <2> QED
    BY <2>2 DEF Logged, Durable
<1>1. DiskTypes' /\ Repairable'
  <2>1. DiskTypes'
    BY <1>t, RemoveTypes DEF DiskTypes
  <2> QED
    BY <2>1, NoRepair DEF Repairable, Repairing, Using
<1>2. Covered'
  <2>1. Promised /\ current # None =>
          /\ current \in DOMAIN manifests' /\ manifests'[current] = manifests[current]
          /\ \A n \in Survivors : \A t \in LiveOf(SubSeq(InUse, 1, n)) :
               t \in DOMAIN tables' /\ tables'[t] = tables[t]
    <3>1. Promised /\ current # None => LiveOf(InUse) \subseteq DOMAIN tables
      BY <1>t, UseAccepted DEF Accepted, WholeOf
    <3> QED
      BY <1>c, <1>s, <1>v, <3>1
  <2>2. /\ Durable(logs', LastEdit(InUse).log) = Durable(logs, LastEdit(InUse).log)
        /\ Logged(logs', LastEdit(InUse).log) = Logged(logs, LastEdit(InUse).log)
    BY <1>i, <1>n, <1>g
  <2>3. Promised' => doubt' = doubt
    OBVIOUS
  <2>4. \A n \in Survivors : Durable(logs, LastEdit(SubSeq(InUse, 1, n)).log)
                               \subseteq Durable(logs', LastEdit(SubSeq(InUse, 1, n)).log)
    BY <1>s, <2>2
  <2> QED
    BY <1>t, <2>1, <2>2, <2>3, <2>4, CoveredKept
<1>w. View = vs.live /\ View' = vs.live /\ pc \in Serving /\ pc' \in Serving
  BY DEF View, Applying, Using, Serving, Cleaning
<1>m. /\ Logged(logs', vs.log) = Logged(logs, vs.log) /\ Durable(logs', vs.log) = Durable(logs, vs.log)
      /\ \A l \in Since(logs, vs.log) : logs'[l] = logs[l] /\ l \in Since(logs', vs.log)
  BY <1>t, <1>n, <1>g
<1>y. /\ db.logfile \in DOMAIN logs /\ vs.log <= db.logfile /\ (\A l \in DOMAIN logs : l < vs.next)
      /\ vs.live \subseteq DOMAIN tables /\ (\A t \in vs.live : t < vs.next)
      /\ db.mem \subseteq Ents(logs[db.logfile].recs)
      /\ db.imm \subseteq Logged(logs, vs.log) /\ (~db.has_imm => db.imm = {})
      /\ (pc \notin Using => ~db.has_imm /\ ~db.err /\ db.pending = {})
      /\ (pc \in Using => \A t \in DOMAIN tables : t < vs.next)
  BY <1>w DEF RecInv, MemoryInv
<1>z. db.logfile \in DOMAIN logs' /\ logs'[db.logfile] = logs[db.logfile]
  BY <1>t, <1>m, <1>y DEF Since
<1>3. MemoryInv'
  BY <1>e, <1>w, <1>m, <1>y, <1>z, <1>v DEF MemoryInv
<1>4. ServeInv'
  <2>1. Holds(tables', vs.live) = Holds(tables, vs.live)
    BY <1>v, <1>y DEF Holds
  <2>2. vs.live \subseteq WholeOf(tables) => vs.live \subseteq WholeOf(tables')
    BY <1>v, <1>y DEF WholeOf
  <2>3. Promised' <=> Promised
    BY DEF Promised
  <2> QED
    BY <1>w, <1>m, <1>z, <2>1, <2>2, <2>3 DEF RecInv, ServeInv
<1>5. LinkInv'
  <2>1. bg \notin {"sync", "install"}
    BY DEF RecInv, JobInv, JobShape, Using
  <2>2. Promised' <=> Promised
    BY DEF Promised
  <2>3. LinkInv
    BY DEF RecInv
  <2> QED
    BY <1>c, <1>s, <1>l, <2>1, <2>2, <2>3 DEF LinkInv
<1>6. Files' \subseteq Files
  BY <1>e DEF Files
<1> QED
  BY <1>1, <1>2, <1>3, <1>4, <1>5, <1>6, <1>c, <1>e, <1>v

\* What ldb_remove_obsolete_files decides to remove is not needed.
LEMMA ObsoleteUnneeded ==
  ASSUME DiskTypes, vs \in VersionsType, LiveOf(InUse) = vs.live, LastEdit(InUse).log = vs.log
  PROVE  Obsolete \subseteq FileNames /\ \A f \in Obsolete : Unneeded(f)
<1>1. Files \subseteq FileNames
  BY DEF DiskTypes, LogsType, ManifestsType, TablesType, Files, FileNames
<1>2. ASSUME NEW f \in Obsolete PROVE Unneeded(f)
  <2>1. f \in FileNames /\ ~Kept(f)
    BY <1>1, <1>2 DEF Obsolete
  <2>2. f[1] \in {"log", "manifest", "table", "temp"} /\ f[2] \in Int /\ vs.log \in Int /\ vs.manifest \in Int
    BY <2>1 DEF FileNames, Number, VersionsType
  <2>3. CASE f[1] = "log"
    BY <2>1, <2>2, <2>3 DEF Kept, Unneeded
  <2>4. CASE f[1] = "manifest"
    BY <2>1, <2>2, <2>4 DEF Kept, Unneeded
  <2>5. CASE f[1] \in {"table", "temp"}
    BY <2>1, <2>5 DEF Kept, Unneeded
  <2> QED
    BY <2>2, <2>3, <2>4, <2>5
<1> QED
  BY <1>1, <1>2 DEF Obsolete

\* ldb_open lists the obsolete files: none that is needed.
LEMMA OpenCleanInv ==
  ASSUME RecInv, OpenClean
  PROVE  RecInv'
<1>u. /\ pc = "clean" /\ pc' = "kill" /\ op' = [op EXCEPT !.kill = Obsolete]
      /\ UNCHANGED <<tables, logs, manifests, current, temps, vs, db, bg, job, acked, synced, written, doubt>>
  BY DEF OpenClean, disk, ghost
<1>b. bg' = "idle" /\ job' = NoJob /\ bg = "idle"
  BY <1>u, BgRests DEF Using
<1>t. DiskTypes /\ MemoryTypes /\ op \in OpType /\ vs \in VersionsType
  BY DEF RecInv, MemoryTypes
<1>e. ~db.err
  BY <1>u DEF RecInv, MemoryInv, Serving, Cleaning, Using
<1>l. LiveOf(InUse) = vs.live /\ LastEdit(InUse).log = vs.log
  BY <1>u, <1>b, <1>e DEF RecInv, LinkInv, Cleaning
<1>k. Obsolete \subseteq FileNames /\ \A f \in Obsolete : Unneeded(f)
  BY <1>t, <1>l, ObsoleteUnneeded
<1>o. op' \in OpType /\ op'.kill = Obsolete
  BY <1>u, <1>t, <1>k DEF OpType
<1>1. DiskTypes' /\ Covered' /\ Repairable' /\ InUse' = InUse /\ MemoryTypes'
  <2>1. DiskTypes' /\ Covered' /\ Repairable' /\ InUse' = InUse
    BY <1>u, DiskSame DEF Repairing
  <2> QED
    BY <1>u, <1>t, <1>o, <2>1 DEF MemoryTypes, Cleaning
<1>2. MemoryInv' /\ ServeInv'
  <2>1. View' = View
    BY <1>u DEF View, Applying
  <2>2. MemoryInv'
    BY <1>u, <2>1 DEF RecInv, MemoryInv, Serving, Cleaning, Using
  <2>3. ServeInv'
    BY <1>u, <2>1 DEF RecInv, ServeInv, Promised, Serving, Cleaning
  <2> QED
    BY <2>2, <2>3
<1>3. LinkInv'
  <2>1. Survivors' = Survivors /\ (Promised' <=> Promised)
    BY <1>u DEF Survivors, InUse, Promised
  <2> QED
    BY <1>u, <1>1, <2>1 DEF RecInv, LinkInv, Cleaning
<1>4. KillInv'
  <2>1. \A f : (Unneeded(f)' <=> Unneeded(f)) /\ (Kept(f)' <=> Kept(f))
    BY <1>u DEF Unneeded, Kept, InUse
  <2>2. Files' = Files
    BY <1>u DEF Files
  <2>3. \A f \in Files : Kept(f) \/ f \in Obsolete
    BY DEF Obsolete
  <2> QED
    BY <1>u, <1>b, <1>k, <1>o, <2>1, <2>2, <2>3 DEF KillInv
<1> QED
  BY <1>u, <1>b, <1>1, <1>2, <1>3, <1>4, AtClean DEF DiskInv, Cleaning

\* ldb_open removes one of them.
LEMMA OpenRemoveInv ==
  ASSUME RecInv, OpenRemove
  PROVE  RecInv'
<1>u. /\ pc = "kill" /\ UNCHANGED <<current, pc, vs, db, bg, job, acked, synced, written, doubt>>
  BY DEF OpenRemove, ghost
<1>f. PICK f \in op.kill : RemoveFiles({f}) /\ op' = [op EXCEPT !.kill = op.kill \ {f}]
  BY DEF OpenRemove
<1>b. bg' = "idle" /\ job' = NoJob
  BY <1>u, BgRests DEF Using
<1>t. MemoryTypes /\ op \in OpType /\ op.kill \subseteq FileNames
  BY DEF RecInv, MemoryTypes, OpType
<1>k. /\ \A g \in op.kill : Unneeded(g)
      /\ \A g \in Files : Kept(g) \/ g \in op.kill
  BY <1>u DEF RecInv, KillInv
<1>o. op' \in OpType /\ op'.kill = op.kill \ {f}
  BY <1>f, <1>t DEF OpType
<1>1. DiskTypes' /\ Covered' /\ Repairable' /\ MemoryInv' /\ ServeInv' /\ LinkInv' /\ InUse' = InUse
      /\ Files' \subseteq Files
  BY <1>u, <1>f, <1>t, <1>k, RemoveOne
<1>2. MemoryTypes'
  BY <1>u, <1>t, <1>o DEF MemoryTypes
<1>3. KillInv'
  <2>1. \A g : (Unneeded(g)' <=> Unneeded(g)) /\ (Kept(g)' <=> Kept(g))
    BY <1>u, <1>1 DEF Unneeded, Kept
  <2>2. f \notin Files'
    <3>1. f \in FileNames
      BY <1>f, <1>t
    <3>2. f[1] \in {"log", "manifest", "table", "temp"}
      BY <3>1 DEF FileNames
    <3>3. f[2] \in Named(f[1], {f})
      BY DEF Named
    <3>4. /\ DOMAIN logs' = DOMAIN logs \ Named("log", {f})
          /\ DOMAIN manifests' = DOMAIN manifests \ Named("manifest", {f})
          /\ DOMAIN tables' = DOMAIN tables \ Named("table", {f})
          /\ temps' = temps \ Named("temp", {f})
      BY <1>f DEF RemoveFiles, Drop, Restrict
    <3> QED
      BY <3>2, <3>3, <3>4 DEF Files
  <2> QED
    BY <1>u, <1>b, <1>k, <1>o, <1>1, <2>1, <2>2 DEF KillInv
<1> QED
  BY <1>u, <1>b, <1>1, <1>2, <1>3, AtClean DEF DiskInv, Cleaning

\* ldb_open returns the database.
LEMMA OpenEndsInv ==
  ASSUME RecInv, OpenEnds
  PROVE  RecInv'
<1>u. /\ pc = "kill" /\ op.kill = {} /\ pc' = "open" /\ op' = NoOp
      /\ UNCHANGED <<tables, logs, manifests, current, temps, vs, db, bg, job, acked, synced, written, doubt>>
  BY DEF OpenEnds, disk, ghost
<1>b. bg' = "idle" /\ job' = NoJob
  BY <1>u, BgRests DEF Using
<1>1. DiskTypes' /\ Covered' /\ Repairable' /\ InUse' = InUse /\ MemoryTypes'
  <2>1. DiskTypes' /\ Covered' /\ Repairable' /\ InUse' = InUse
    BY <1>u, DiskSame DEF Repairing
  <2> QED
    BY <1>u, <2>1, NoTypes DEF RecInv, MemoryTypes, Using
<1>w. View' = View /\ View = vs.live
  BY <1>u DEF View, Applying
<1>2. MemoryInv'
  <2>1. db.pending = {} /\ \A t \in vs.live : t < vs.next
    BY <1>u, <1>w DEF RecInv, MemoryInv, Serving, Cleaning, Using
  <2>2. \A f \in Files : Kept(f)
    BY <1>u DEF RecInv, KillInv
  <2>3. ASSUME NEW t \in DOMAIN tables PROVE t < vs.next
    <3>1. <<"table", t>> \in Files
      BY DEF Files
    <3>2. Kept(<<"table", t>>)
      BY <2>2, <3>1
    <3>3. t \in vs.live \cup db.pending
      BY <3>2 DEF Kept
    <3> QED
      BY <2>1, <3>3
  <2> QED
    BY <1>u, <1>w, <2>3 DEF RecInv, MemoryInv, Serving, Cleaning, Using
<1>3. ServeInv'
  BY <1>u, <1>w DEF RecInv, ServeInv, Promised, Serving, Cleaning
<1>4. LinkInv'
  <2>1. Survivors' = Survivors /\ (Promised' <=> Promised)
    BY <1>u DEF Survivors, InUse, Promised
  <2> QED
    BY <1>u, <1>1, <2>1 DEF RecInv, LinkInv, Cleaning
<1>5. KillInv'
  BY <1>u, <1>b DEF KillInv
<1> QED
  BY <1>u, <1>b, <1>1, <1>2, <1>3, <1>4, <1>5, AtClean DEF DiskInv, Using

----------------------------------------------------------------------------
(* The open database                                                       *)

\* Steps of the user leave the background thread and what it relies on alone.
LEMMA UserSame ==
  ASSUME RecInv, pc \in Using, pc' \in Using, UNCHANGED <<tables, manifests, current, bg, job, doubt>>,
         vs'.manifest = vs.manifest, vs'.desc = vs.desc, vs'.live = vs.live, vs'.log = vs.log,
         vs'.next \in Int, vs.next <= vs'.next,
         db'.pending = db.pending, db.err => db'.err, db'.logfile \in Int, db.logfile <= db'.logfile,
         db.has_imm => db'.has_imm /\ db'.imm = db.imm /\ db'.logfile = db.logfile
  PROVE  LinkInv' /\ KillInv' /\ JobInv' /\ InUse' = InUse /\ Survivors' = Survivors
<1>t. vs.next \in Int /\ db.logfile \in Int /\ job \in JobType /\ DiskTypes
  BY DEF RecInv, MemoryTypes, VersionsType, DbType, Number
<1>i. InUse' = InUse /\ Survivors' = Survivors /\ (Promised' <=> Promised)
  BY DEF InUse, Survivors, Promised
<1>n. \A k \in Int : (k < vs.next => k < vs'.next) /\ (k <= vs.next => k <= vs'.next)
  BY <1>t
<1>1. LinkInv'
  <2>1. LinkInv
    BY DEF RecInv
  <2>2. /\ vs.desc = current /\ vs.manifest = current /\ current # None /\ current \in DOMAIN manifests
        /\ Numbered(InUse) # {} /\ LastEdit(InUse).next <= vs.next
        /\ Promised => \A n \in Survivors : InUse[n].log <= db.logfile
    BY <2>1 DEF LinkInv
  <2>3. LastEdit(InUse).next <= vs'.next
    <3>1. LastEdit(InUse).next \in Number
      BY <1>t, <2>2, UseType, LastOrdered
    <3> QED
      BY <1>n, <2>2, <3>1 DEF Number
  <2>4. Promised => \A n \in Survivors : InUse[n].log <= db'.logfile
    <3>1. Promised => Survivors \subseteq 1..Len(InUse)
      BY <1>t, <2>2, UseAccepted DEF RecInv
    <3>2. \A n \in 1..Len(InUse) : InUse[n].log \in Int
      <4>1. \A n \in 1..Len(InUse) : InUse[n] \in Edit
        BY <1>t, <2>2, UseType
      <4> QED
        BY <4>1 DEF Edit
    <3>3. \A k \in Int : k <= db.logfile => k <= db'.logfile
      BY <1>t
    <3> QED
      BY <2>2, <3>1, <3>2, <3>3
  <2> QED
    BY <1>i, <2>1, <2>2, <2>3, <2>4 DEF LinkInv, Using, Cleaning
<1>2. KillInv'
  <2>1. \A f : Unneeded(f)' <=> Unneeded(f)
    BY <1>i DEF Unneeded
  <2> QED
    BY <2>1 DEF RecInv, KillInv, Using
<1>3. JobShape'
  <2>1. \A c : Compacting(c, vs', db', tables') <=> Compacting(c, vs, db, tables)
    BY DEF Compacting
  <2> QED
    BY <2>1 DEF RecInv, JobInv, JobShape
<1>4. BuildInv'
  <2>0. BuildInv
    BY DEF RecInv, JobInv
  <2>1. \A c : Compacting(c, vs', db', tables') <=> Compacting(c, vs, db, tables)
    BY DEF Compacting
  <2>2. job.out < vs.next => job.out < vs'.next
    BY <1>t, <1>n DEF JobType
  <2> QED
    BY <1>i, <2>0, <2>1, <2>2 DEF BuildInv
<1>5. RecordInv'
  <2>0. RecordInv
    BY DEF RecInv, JobInv
  <2>1. job.edit \in Edit
    BY <1>t DEF JobType
  <2>2. job.edit.next <= vs.next => job.edit.next <= vs'.next
    BY <1>n, <2>1 DEF Edit, Number
  <2> QED
    BY <1>i, <2>0, <2>2 DEF RecordInv
<1> QED
  BY <1>1, <1>2, <1>3, <1>4, <1>5, <1>i DEF JobInv

\* A record at the end of a log, and how much of it is synced.
LEMMA WriteLog ==
  ASSUME NEW log \in LogFile, log.synced <= Len(log.recs), NEW e \in LogEntry
  PROVE  /\ Write(log, e) \in LogFile /\ Whole(Write(log, e)) \in LogFile
         /\ Write(log, e).synced <= Len(Write(log, e).recs)
         /\ Whole(Write(log, e)).synced <= Len(Whole(Write(log, e)).recs)
         /\ Ents(Write(log, e).recs) = Ents(log.recs) \cup {e}
         /\ Ents(Whole(Write(log, e)).recs) = Ents(log.recs) \cup {e}
         /\ SyncedOf(Write(log, e)) = SyncedOf(log)
         /\ SyncedOf(Whole(Write(log, e))) = Ents(log.recs) \cup {e}
         /\ SyncedOf(log) \subseteq Ents(log.recs)
<1> DEFINE recs == log.recs
           new == Append(recs, e)
<1>1. recs \in Seq(LogEntry) /\ log.synced \in Nat /\ Len(recs) \in Nat /\ log.synced <= Len(recs)
  BY DEF LogFile
<1>2. Write(log, e) = [recs |-> new, synced |-> log.synced]
  BY DEF Write
<1>3. Ents(new) = Ents(recs) \cup {e}
  BY <1>1, EntsAppend
<1>4. new \in Seq(LogEntry) /\ Len(new) = Len(recs) + 1 /\ Len(new) \in Nat /\ log.synced <= Len(new)
      /\ DOMAIN new = 1..Len(new) /\ \A i \in 1..Len(recs) : new[i] = recs[i]
  BY <1>1
<1> HIDE DEF new, recs
<1>5. Whole(Write(log, e)) = [recs |-> new, synced |-> Len(new)]
  BY <1>2 DEF Whole
<1>6. SyncedOf(Write(log, e)) = SyncedOf(log)
  <2>1. \A i \in 1..log.synced : new[i] = recs[i]
    BY <1>1, <1>4
  <2> QED
    BY <1>2, <2>1 DEF SyncedOf, recs
<1>7. SyncedOf(Whole(Write(log, e))) = Ents(new)
  BY <1>4, <1>5 DEF SyncedOf, Ents
<1>8. SyncedOf(log) \subseteq Ents(recs)
  <2>1. DOMAIN recs = 1..Len(recs) /\ 1..log.synced \subseteq 1..Len(recs)
    BY <1>1
  <2> QED
    BY <2>1 DEF SyncedOf, Ents, recs
<1> QED
  BY <1>2, <1>3, <1>4, <1>5, <1>6, <1>7, <1>8 DEF LogFile, recs

\* What is known while the database is open.
UseFacts ==
  /\ DiskTypes /\ MemoryTypes /\ Covered /\ vs \in VersionsType /\ db \in DbType /\ job \in JobType
  /\ vs.next \in Number /\ vs.next \in Int /\ vs.log \in Int /\ vs.live \subseteq Number /\ vs.seq \in Int
  /\ db.logfile \in Number /\ db.logfile \in Int
  /\ db.logfile \in DOMAIN logs /\ logs[db.logfile] \in LogFile
  /\ logs[db.logfile].synced <= Len(logs[db.logfile].recs)
  /\ View = vs.live /\ pc \in Serving /\ db.logfile \in Since(logs, vs.log)
  /\ current # None /\ current \in DOMAIN manifests /\ Numbered(InUse) # {}
  /\ vs.desc = current /\ vs.manifest = current
  /\ doubt # "repair"

\* The parts of the invariant that the steps of an open database use.
LEMMA InUseFacts ==
  ASSUME RecInv, pc \in Using
  PROVE  UseFacts
<1>1. DiskTypes /\ MemoryTypes /\ Covered
  BY DEF RecInv
<1>2. vs \in VersionsType /\ db \in DbType /\ job \in JobType
  BY <1>1 DEF MemoryTypes
<1>3. vs.next \in Number /\ vs.next \in Int /\ vs.log \in Int /\ vs.live \subseteq Number /\ vs.seq \in Int
  BY <1>2 DEF VersionsType, Number
<1>4. View = vs.live /\ pc \in Serving
  BY DEF View, Applying, Using, Serving
<1>5. db.logfile \in DOMAIN logs /\ vs.log <= db.logfile
  BY <1>4 DEF RecInv, MemoryInv
<1>6. /\ db.logfile \in Number /\ logs[db.logfile] \in LogFile
      /\ logs[db.logfile].synced <= Len(logs[db.logfile].recs)
  BY <1>1, <1>5 DEF DiskTypes, LogsType
<1>7. db.logfile \in Since(logs, vs.log) /\ db.logfile \in Int
  BY <1>3, <1>5, <1>6 DEF Since, Number
<1>8. /\ current # None /\ current \in DOMAIN manifests /\ Numbered(InUse) # {}
      /\ vs.desc = current /\ vs.manifest = current
  BY DEF RecInv, LinkInv
<1>9. doubt # "repair"
  BY NoRepair DEF Using, Repairing
<1> QED
  BY <1>1, <1>2, <1>3, <1>4, <1>5, <1>6, <1>7, <1>8, <1>9 DEF UseFacts

\* The last edit of a prefix that a crash can leave is its last record.
LEMMA SurvivorLast ==
  ASSUME DiskTypes, Covered, Promised, current # None, NEW n \in Survivors
  PROVE  LastEdit(SubSeq(InUse, 1, n)) = InUse[n] /\ InUse[n].log \in Int /\ n \in 1..Len(InUse)
<1>1. current \in DOMAIN manifests
  BY DEF Covered
<1>2. InUse \in Seq(Edit) /\ Ordered(InUse) /\ n \in 1..Len(InUse) /\ n \in 0..Len(InUse)
  BY <1>1, UseType, UseAccepted
<1>3. Numbered(SubSeq(InUse, 1, n)) # {}
  BY DEF Covered, Accepted
<1>4. /\ SubSeq(InUse, 1, n) \in Seq(Edit) /\ Len(SubSeq(InUse, 1, n)) = n /\ SubSeq(InUse, 1, n)[n] = InUse[n]
      /\ Ordered(SubSeq(InUse, 1, n))
  BY <1>2, PrefixProps, OrderedPrefix
<1>5. LastEdit(SubSeq(InUse, 1, n)) = InUse[n]
  BY <1>3, <1>4, LastOrdered
<1>6. InUse[n] \in Edit
  BY <1>2
<1> QED
  BY <1>2, <1>5, <1>6 DEF Edit
=============================================================================
