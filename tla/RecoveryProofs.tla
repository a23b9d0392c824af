--------------------------- MODULE RecoveryProofs ---------------------------
(***************************************************************************)
(* The steps of the open database, of the background thread, of ldb_repair *)
(* and of crashes keep the invariant of RecoveryInv, and what follows.     *)
(* Two more invariants on top of it: LeakInv, with which no obsolete file  *)
(* is left (NoLeaks), and SeqInv, with which no sequence number is used    *)
(* for two entries that can be read (SequenceFresh).                       *)
(***************************************************************************)
EXTENDS RecoveryInv

\* ldb_write: the record is in the log before it is in the memtable and acknowledged.
LEMMA LdbWriteInv ==
  ASSUME RecInv, NEW sync \in BOOLEAN, LdbWrite(sync)
  PROVE  RecInv'
<1> DEFINE e == Entry
           old == logs[db.logfile]
           new == logs'[db.logfile]
<1>u. /\ pc = "open" /\ pc' = "open" /\ ~db.err
      /\ logs' = [logs EXCEPT ![db.logfile] = IF sync THEN Whole(Write(old, e)) ELSE Write(old, e)]
      /\ db' = [db EXCEPT !.mem = db.mem \cup {e}]
      /\ vs' = [vs EXCEPT !.seq = vs.seq + 1]
      /\ acked' = acked \cup {e} /\ synced' = (IF sync THEN synced \cup {e} ELSE synced)
      /\ written' = written + 1
      /\ UNCHANGED <<tables, manifests, current, temps, op, bg, job, doubt>>
  BY DEF LdbWrite
<1>f. UseFacts
  BY <1>u, InUseFacts DEF Using
<1> USE DEF UseFacts
<1>e. e \in LogEntry
  BY <1>f DEF Entry, LogEntry, MemoryTypes
<1> HIDE DEF e
<1>l. /\ DOMAIN logs' = DOMAIN logs /\ new = (IF sync THEN Whole(Write(old, e)) ELSE Write(old, e))
      /\ \A l \in DOMAIN logs : l # db.logfile => logs'[l] = logs[l]
  BY <1>u, <1>f
<1> HIDE DEF new, old
<1>n. /\ new \in LogFile /\ new.synced <= Len(new.recs) /\ Ents(new.recs) = Ents(old.recs) \cup {e}
      /\ SyncedOf(old) \subseteq SyncedOf(new) /\ (sync => e \in SyncedOf(new))
  <2>1. old \in LogFile /\ old.synced <= Len(old.recs)
    BY <1>f DEF old
  <2>2. CASE sync
    <3>1. new = Whole(Write(old, e))
      BY <1>l, <2>2
    <3>2. /\ Whole(Write(old, e)) \in LogFile
          /\ Whole(Write(old, e)).synced <= Len(Whole(Write(old, e)).recs)
          /\ Ents(Whole(Write(old, e)).recs) = Ents(old.recs) \cup {e}
          /\ SyncedOf(Whole(Write(old, e))) = Ents(old.recs) \cup {e}
          /\ SyncedOf(old) \subseteq Ents(old.recs)
      BY <1>e, <2>1, WriteLog
    <3> QED
      BY <3>1, <3>2
  <2>3. CASE ~sync
    <3>1. new = Write(old, e)
      BY <1>l, <2>3
    <3> QED
      BY <1>e, <2>1, <2>3, <3>1, WriteLog
  <2> QED
    BY <2>2, <2>3
<1>g. /\ \A l \in DOMAIN logs : LogGrows(logs[l], logs'[l])
      /\ \A n : Durable(logs, n) \subseteq Durable(logs', n) /\ Logged(logs, n) \subseteq Logged(logs', n)
      /\ \A n \in Int : n <= db.logfile => Ents(new.recs) \subseteq Logged(logs', n) /\ SyncedOf(new) \subseteq Durable(logs', n)
  <2>1. ASSUME NEW l \in DOMAIN logs PROVE LogGrows(logs[l], logs'[l])
    BY <1>l, <1>n DEF LogGrows, new, old
  <2>2. ASSUME NEW n
        PROVE  Durable(logs, n) \subseteq Durable(logs', n) /\ Logged(logs, n) \subseteq Logged(logs', n)
    <3>1. \A l \in Since(logs, n) : l \in Since(logs', n) /\ LogGrows(logs[l], logs'[l])
      BY <1>l, <2>1 DEF Since
    <3> QED
      BY <3>1, LogsMono
  <2>3. ASSUME NEW n \in Int, n <= db.logfile
        PROVE  Ents(new.recs) \subseteq Logged(logs', n) /\ SyncedOf(new) \subseteq Durable(logs', n)
    <3>1. db.logfile \in Since(logs', n)
      BY <1>f, <1>l, <2>3 DEF Since
    <3> QED
      BY <3>1, LogsOne DEF new
  <2> QED
    BY <2>1, <2>2, <2>3
<1>d. /\ db' \in DbType /\ db'.mem = db.mem \cup {e} /\ db'.imm = db.imm /\ db'.has_imm = db.has_imm
      /\ db'.logfile = db.logfile /\ db'.err = db.err /\ db'.pending = db.pending
  <2>1. db.mem \cup {e} \in EntrySet
    BY <1>f, <1>e, FS_AddElement DEF DbType, EntrySet
  <2> QED
    BY <1>u, <1>f, <2>1 DEF DbType
<1>v. /\ vs' \in VersionsType /\ vs'.next = vs.next /\ vs'.live = vs.live /\ vs'.log = vs.log
      /\ vs'.manifest = vs.manifest /\ vs'.desc = vs.desc
  BY <1>u, <1>f DEF VersionsType
<1>1. DiskTypes' /\ MemoryTypes' /\ Repairable'
  <2>1. LogsType(logs')
    <3>1. \A l \in DOMAIN logs : logs'[l] \in LogFile /\ logs'[l].synced <= Len(logs'[l].recs)
      BY <1>f, <1>l, <1>n DEF DiskTypes, LogsType, new
    <3> QED
      BY <1>f, <1>l, <3>1 DEF DiskTypes, LogsType
  <2>2. written' \in Nat
    BY <1>u, <1>f DEF MemoryTypes
  <2> QED
    BY <1>u, <1>f, <1>d, <1>v, <2>1, <2>2 DEF DiskTypes, MemoryTypes, Repairable, Using
<1>2. LinkInv' /\ KillInv' /\ JobInv' /\ InUse' = InUse /\ Survivors' = Survivors
  BY <1>u, <1>f, <1>d, <1>v, UserSame DEF Using
<1>3. Covered'
  <2> SUFFICES ASSUME Promised
               PROVE  /\ \A n \in Survivors : Accepted(tables, logs', SubSeq(InUse, 1, n), current, synced')
                      /\ acked' \subseteq Holds(tables, LiveOf(InUse)) \cup Logged(logs', LastEdit(InUse).log)
    BY <1>u, <1>f, <1>2 DEF Covered, Promised
  <2>1. \A n \in Survivors : InUse[n].log <= db.logfile
    BY <1>u DEF RecInv, LinkInv, Using
  <2>2. ASSUME NEW n \in Survivors
        PROVE  Accepted(tables, logs', SubSeq(InUse, 1, n), current, synced')
    <3>1. LastEdit(SubSeq(InUse, 1, n)) = InUse[n] /\ InUse[n].log \in Int
      BY <1>f, SurvivorLast
    <3>2. SyncedOf(new) \subseteq Durable(logs', InUse[n].log) /\ Durable(logs, InUse[n].log) \subseteq Durable(logs', InUse[n].log)
      BY <1>g, <2>1, <3>1
    <3>3. Accepted(tables, logs, SubSeq(InUse, 1, n), current, synced)
      BY <1>f DEF Covered
    <3>4. synced' \subseteq synced \cup SyncedOf(new)
      BY <1>u, <1>n
    <3> QED
      BY <3>1, <3>2, <3>3, <3>4 DEF Accepted
  <2>3. acked' \subseteq Holds(tables, LiveOf(InUse)) \cup Logged(logs', LastEdit(InUse).log)
    <3>1. Len(InUse) \in Survivors /\ LastEdit(InUse) = InUse[Len(InUse)]
      BY <1>f, UseAccepted
    <3>2. InUse[Len(InUse)].log \in Int
      BY <1>f, <3>1, SurvivorLast
    <3>3. Ents(new.recs) \subseteq Logged(logs', LastEdit(InUse).log)
      BY <1>g, <2>1, <3>1, <3>2
    <3>4. acked \subseteq Holds(tables, LiveOf(InUse)) \cup Logged(logs, LastEdit(InUse).log)
      BY <1>f DEF Covered
    <3>5. Logged(logs, LastEdit(InUse).log) \subseteq Logged(logs', LastEdit(InUse).log)
      BY <1>g
    <3> QED
      BY <1>u, <1>n, <3>3, <3>4, <3>5
  <2> QED
    BY <2>2, <2>3
<1>w. View' = vs.live /\ pc' \in Serving
  BY <1>u, <1>v DEF View, Applying, Serving, Using
<1>4. MemoryInv'
  <2>1. /\ vs.log <= db.logfile /\ (\A l \in DOMAIN logs : l < vs.next)
        /\ vs.live \subseteq DOMAIN tables /\ (\A t \in vs.live : t < vs.next)
        /\ db.mem \subseteq Ents(old.recs)
        /\ db.imm \subseteq Logged(logs, vs.log) /\ (~db.has_imm => db.imm = {})
        /\ \A t \in DOMAIN tables : t < vs.next
    BY <1>u, <1>f DEF RecInv, MemoryInv, Using, old
  <2>2. db'.mem \subseteq Ents(logs'[db'.logfile].recs)
    BY <1>d, <1>n, <2>1 DEF new
  <2>3. db'.imm \subseteq Logged(logs', vs'.log)
    BY <1>d, <1>v, <1>g, <2>1
  <2> QED
    BY <1>u, <1>f, <1>l, <1>d, <1>v, <1>w, <2>1, <2>2, <2>3 DEF MemoryInv, Using
<1>5. ServeInv'
  <2>1. Promised => /\ vs.live \subseteq WholeOf(tables)
                    /\ acked \cup synced \subseteq db.mem \cup db.imm \cup Holds(tables, vs.live)
                    /\ synced \subseteq db.imm \cup Holds(tables, vs.live) \cup SyncedOf(old)
                    /\ synced \subseteq Holds(tables, vs.live) \cup Durable(logs, vs.log)
    BY <1>f DEF RecInv, ServeInv, old
  <2>2. synced' \subseteq synced \cup {e} /\ synced' \subseteq synced \cup SyncedOf(new)
    BY <1>u, <1>n
  <2>3. SyncedOf(new) \subseteq Durable(logs', vs.log) /\ Durable(logs, vs.log) \subseteq Durable(logs', vs.log)
    BY <1>f, <1>g DEF Since
  <2>4. Promised' <=> Promised
    BY <1>u DEF Promised
  <2> SUFFICES ASSUME Promised
               PROVE  /\ vs.live \subseteq WholeOf(tables)
                      /\ acked' \cup synced' \subseteq db'.mem \cup db'.imm \cup Holds(tables, vs.live)
                      /\ synced' \subseteq db'.imm \cup Holds(tables, vs.live) \cup SyncedOf(new)
                      /\ synced' \subseteq Holds(tables, vs.live) \cup Durable(logs', vs.log)
    BY <1>u, <1>d, <1>v, <1>w, <2>4 DEF ServeInv, new
  <2>5. acked' \cup synced' \subseteq db'.mem \cup db'.imm \cup Holds(tables, vs.live)
    BY <1>u, <1>d, <2>1, <2>2
  <2>6. synced' \subseteq db'.imm \cup Holds(tables, vs.live) \cup SyncedOf(new)
    BY <1>d, <1>n, <2>1, <2>2
  <2> QED
    BY <2>1, <2>2, <2>3, <2>5, <2>6
<1> QED
  BY <1>u, <1>1, <1>2, <1>3, <1>4, <1>5, AtUse DEF DiskInv, Using

\* ldb_write fails to sync its record: it is not promised, and the error stays.
LEMMA WriteSyncFailsInv ==
  ASSUME RecInv, WriteSyncFails
  PROVE  RecInv'
<1> DEFINE e == Entry
           old == logs[db.logfile]
           new == logs'[db.logfile]
<1>u. /\ pc = "open" /\ pc' = "open" /\ ~db.err
      /\ logs' = [logs EXCEPT ![db.logfile] = Write(old, e)]
      /\ db' = [db EXCEPT !.err = TRUE]
      /\ vs' = [vs EXCEPT !.seq = vs.seq + 1]
      /\ written' = written + 1
      /\ UNCHANGED <<tables, manifests, current, temps, op, bg, job, acked, synced, doubt>>
  BY DEF WriteSyncFails
<1>f. UseFacts
  BY <1>u, InUseFacts DEF Using
<1> USE DEF UseFacts
<1>e. e \in LogEntry
  BY <1>f DEF Entry, LogEntry, MemoryTypes
<1> HIDE DEF e
<1>l. /\ DOMAIN logs' = DOMAIN logs /\ new = Write(old, e)
      /\ \A l \in DOMAIN logs : l # db.logfile => logs'[l] = logs[l]
  BY <1>u, <1>f
<1> HIDE DEF new, old
<1>n. /\ new \in LogFile /\ new.synced <= Len(new.recs) /\ Ents(new.recs) = Ents(old.recs) \cup {e}
      /\ SyncedOf(old) = SyncedOf(new)
  <2>1. old \in LogFile /\ old.synced <= Len(old.recs)
    BY <1>f DEF old
  <2> QED
    BY <1>e, <1>l, <2>1, WriteLog
<1>g. \A l \in DOMAIN logs : l \in DOMAIN logs' /\ LogGrows(logs[l], logs'[l])
  BY <1>l, <1>n DEF LogGrows, new, old
<1>d. /\ db' \in DbType /\ db'.mem = db.mem /\ db'.imm = db.imm /\ db'.has_imm = db.has_imm
      /\ db'.logfile = db.logfile /\ db'.err /\ db'.pending = db.pending
  BY <1>u, <1>f DEF DbType
<1>v. /\ vs' \in VersionsType /\ vs'.next = vs.next /\ vs'.live = vs.live /\ vs'.log = vs.log
      /\ vs'.manifest = vs.manifest /\ vs'.desc = vs.desc
  BY <1>u, <1>f DEF VersionsType
<1>1. DiskTypes' /\ MemoryTypes' /\ Repairable'
  <2>1. LogsType(logs')
    <3>1. \A l \in DOMAIN logs : logs'[l] \in LogFile /\ logs'[l].synced <= Len(logs'[l].recs)
      BY <1>f, <1>l, <1>n DEF DiskTypes, LogsType, new
    <3> QED
      BY <1>f, <1>l, <3>1 DEF DiskTypes, LogsType
  <2>2. written' \in Nat
    BY <1>u, <1>f DEF MemoryTypes
  <2> QED
    BY <1>u, <1>f, <1>d, <1>v, <2>1, <2>2 DEF DiskTypes, MemoryTypes, Repairable, Using
<1>2. LinkInv' /\ KillInv' /\ JobInv' /\ InUse' = InUse /\ Survivors' = Survivors
  BY <1>u, <1>f, <1>d, <1>v, UserSame DEF Using
<1>3. /\ Covered'
      /\ \A n : Durable(logs, n) \subseteq Durable(logs', n) /\ Logged(logs, n) \subseteq Logged(logs', n)
  BY <1>u, <1>f, <1>g, CoveredLogs
<1>w. View' = vs.live /\ pc' \in Serving /\ (Promised' <=> Promised)
  BY <1>u, <1>v DEF View, Applying, Serving, Using, Promised
<1>4. MemoryInv'
  <2>1. /\ vs.log <= db.logfile /\ (\A l \in DOMAIN logs : l < vs.next)
        /\ vs.live \subseteq DOMAIN tables /\ (\A t \in vs.live : t < vs.next)
        /\ db.mem \subseteq Ents(old.recs)
        /\ db.imm \subseteq Logged(logs, vs.log) /\ (~db.has_imm => db.imm = {})
        /\ \A t \in DOMAIN tables : t < vs.next
    BY <1>u, <1>f DEF RecInv, MemoryInv, Using, old
  <2>2. db'.mem \subseteq Ents(logs'[db'.logfile].recs)
    BY <1>d, <1>n, <2>1 DEF new
  <2>3. db'.imm \subseteq Logged(logs', vs'.log)
    BY <1>d, <1>v, <1>3, <2>1
  <2> QED
    BY <1>u, <1>f, <1>l, <1>d, <1>v, <1>w, <2>1, <2>2, <2>3 DEF MemoryInv, Using
<1>5. ServeInv'
  <2>1. Promised => /\ vs.live \subseteq WholeOf(tables)
                    /\ acked \cup synced \subseteq db.mem \cup db.imm \cup Holds(tables, vs.live)
                    /\ synced \subseteq db.imm \cup Holds(tables, vs.live) \cup SyncedOf(new)
                    /\ synced \subseteq Holds(tables, vs.live) \cup Durable(logs, vs.log)
    BY <1>f, <1>n DEF RecInv, ServeInv, old
  <2>2. Durable(logs, vs.log) \subseteq Durable(logs', vs.log)
    BY <1>3
  <2> QED
    BY <1>u, <1>d, <1>v, <1>w, <2>1, <2>2 DEF ServeInv, new
<1> QED
  BY <1>u, <1>1, <1>2, <1>3, <1>4, <1>5, AtUse DEF DiskInv, Using

\* ldb_make_room: the new log begins, the log of the immutable memtable stays.
LEMMA SwitchMemtableInv ==
  ASSUME RecInv, SwitchMemtable
  PROVE  RecInv'
<1>u. /\ pc = "open" /\ pc' = "open" /\ ~db.has_imm
      /\ logs' = Put(logs, vs.next, EmptyLog)
      /\ vs' = [vs EXCEPT !.next = vs.next + 1]
      /\ db' = [db EXCEPT !.logfile = vs.next, !.imm = db.mem, !.has_imm = TRUE, !.mem = {}]
      /\ UNCHANGED <<tables, manifests, current, temps, op, bg, job, acked, synced, written, doubt>>
  BY DEF SwitchMemtable, ghost
<1>f. UseFacts
  BY <1>u, InUseFacts DEF Using
<1> USE DEF UseFacts
<1>y. /\ vs.log <= db.logfile /\ (\A l \in DOMAIN logs : l < vs.next)
      /\ vs.live \subseteq DOMAIN tables /\ (\A t \in DOMAIN tables : t < vs.next)
      /\ db.mem \subseteq Ents(logs[db.logfile].recs) /\ db.imm = {}
  BY <1>u, <1>f DEF RecInv, MemoryInv, Using
<1>k. /\ vs.next + 1 \in Number /\ vs.next <= vs.next + 1 /\ vs.next < vs.next + 1
      /\ (\A k \in Int : k < vs.next => k < vs.next + 1)
      /\ db.logfile <= vs.next /\ vs.log <= vs.next /\ vs.next \in Nat
  BY <1>f, <1>y DEF Number
<1>n. vs.next \notin DOMAIN logs
  BY <1>f, <1>y
<1>l. /\ DOMAIN logs' = DOMAIN logs \cup {vs.next} /\ logs'[vs.next] = EmptyLog
      /\ \A l \in DOMAIN logs : logs'[l] = logs[l]
  BY <1>u, <1>n DEF Put
<1>d. /\ db' \in DbType /\ db'.mem = {} /\ db'.imm = db.mem /\ db'.has_imm
      /\ db'.logfile = vs.next /\ db'.err = db.err /\ db'.pending = db.pending
  <2>1. {} \in EntrySet /\ db.mem \in EntrySet
    BY <1>f, FS_EmptySet DEF EntrySet, DbType
  <2> QED
    BY <1>u, <1>f, <1>k, <2>1 DEF DbType
<1>v. /\ vs' \in VersionsType /\ vs'.next = vs.next + 1 /\ vs'.live = vs.live /\ vs'.log = vs.log
      /\ vs'.manifest = vs.manifest /\ vs'.desc = vs.desc
  BY <1>u, <1>f, <1>k DEF VersionsType
<1>1. DiskTypes' /\ MemoryTypes' /\ Repairable'
  <2>1. LogsType(logs')
    <3>1. EmptyLog \in LogFile /\ EmptyLog.synced <= Len(EmptyLog.recs)
      BY DEF EmptyLog, LogFile
    <3> QED
      BY <1>u, <1>f, <3>1, LogPut DEF DiskTypes
  <2> QED
    BY <1>u, <1>f, <1>d, <1>v, <2>1 DEF DiskTypes, MemoryTypes, Repairable, Using
<1>2. LinkInv' /\ KillInv' /\ JobInv' /\ InUse' = InUse /\ Survivors' = Survivors
  <2>1. vs'.next \in Int /\ vs.next <= vs'.next /\ db'.logfile \in Int /\ db.logfile <= db'.logfile
    BY <1>f, <1>k, <1>v, <1>d DEF Number
  <2> QED
    BY <1>u, <1>f, <1>d, <1>v, <2>1, UserSame DEF Using
<1>3. /\ Covered'
      /\ \A n : Durable(logs, n) \subseteq Durable(logs', n) /\ Logged(logs, n) \subseteq Logged(logs', n)
  <2>1. \A l \in DOMAIN logs : l \in DOMAIN logs' /\ LogGrows(logs[l], logs'[l])
    BY <1>l DEF LogGrows
  <2> QED
    BY <1>u, <1>f, <2>1, CoveredLogs
<1>w. View' = vs.live /\ pc' \in Serving /\ (Promised' <=> Promised)
  BY <1>u, <1>v DEF View, Applying, Serving, Using, Promised
<1>4. MemoryInv'
  <2>1. db'.imm \subseteq Logged(logs', vs'.log)
    <3>1. Ents(logs[db.logfile].recs) \subseteq Logged(logs, vs.log)
      BY <1>f, LogsOne
    <3> QED
      BY <1>d, <1>v, <1>y, <1>3, <3>1
  <2>2. \A l \in DOMAIN logs' : l < vs'.next
    <3>1. DOMAIN logs \subseteq Int
      BY <1>f DEF DiskTypes, LogsType, Number
    <3> QED
      BY <1>l, <1>k, <1>y, <1>v, <3>1
  <2>3. \A t \in DOMAIN tables : t < vs'.next
    <3>1. DOMAIN tables \subseteq Int
      BY <1>f DEF DiskTypes, TablesType, Number
    <3> QED
      BY <1>k, <1>y, <1>v, <3>1
  <2> QED
    BY <1>u, <1>l, <1>d, <1>v, <1>w, <1>k, <1>y, <2>1, <2>2, <2>3 DEF MemoryInv, Using
<1>5. ServeInv'
  <2>1. Promised => /\ vs.live \subseteq WholeOf(tables)
                    /\ acked \cup synced \subseteq db.mem \cup Holds(tables, vs.live)
                    /\ synced \subseteq Holds(tables, vs.live) \cup Durable(logs, vs.log)
    BY <1>f, <1>y DEF RecInv, ServeInv
  <2>2. Durable(logs, vs.log) \subseteq Durable(logs', vs.log)
    BY <1>3
  <2>3. Promised => /\ acked' \cup synced' \subseteq db'.mem \cup db'.imm \cup Holds(tables, vs.live)
                    /\ synced' \subseteq db'.imm \cup Holds(tables, vs.live) \cup SyncedOf(logs'[db'.logfile])
                    /\ synced' \subseteq Holds(tables, vs.live) \cup Durable(logs', vs.log)
    BY <1>u, <1>d, <2>1, <2>2
  <2> QED
    BY <1>u, <1>v, <1>w, <2>1, <2>3 DEF ServeInv
<1> QED
  BY <1>u, <1>1, <1>2, <1>3, <1>4, <1>5, AtUse DEF DiskInv, Using

\* Steps that change nothing the invariant speaks of but the place.
LEMMA UserIdle ==
  ASSUME RecInv, pc \in Using, pc' \in Using,
         UNCHANGED <<tables, logs, manifests, current, temps, op, vs, db, bg, job, acked, synced, written, doubt>>
  PROVE  RecInv'
<1>f. UseFacts
  BY InUseFacts
<1> USE DEF UseFacts
<1>1. DiskTypes' /\ Covered' /\ Repairable' /\ MemoryTypes'
  <2>1. DiskTypes' /\ Covered' /\ Repairable'
    BY DiskSame DEF Repairing, Using
  <2> QED
    BY <1>f, <2>1 DEF MemoryTypes
<1>2. LinkInv' /\ KillInv' /\ JobInv'
  <2>1. vs.next <= vs.next /\ db.logfile <= db.logfile
    BY <1>f
  <2> QED
    BY <1>f, <2>1, UserSame
<1>w. View' = View /\ pc' \in Serving /\ (Promised' <=> Promised)
  BY <1>f DEF View, Applying, Serving, Using, Promised
<1>3. MemoryInv' /\ ServeInv'
  BY <1>f, <1>w DEF RecInv, MemoryInv, ServeInv
<1> QED
  BY <1>1, <1>2, <1>3, AtUse DEF DiskInv

\* An append to the log that fails uses up a sequence number and no more.
LEMMA WriteAppendFailsInv ==
  ASSUME RecInv, WriteAppendFails
  PROVE  RecInv'
<1>u. /\ pc = "open" /\ pc' = "open" /\ vs' = [vs EXCEPT !.seq = vs.seq + 1]
      /\ UNCHANGED <<tables, logs, manifests, current, temps, op, db, bg, job, acked, synced, written, doubt>>
  BY DEF WriteAppendFails
<1>p. pc \in Using /\ pc' \in Using
  BY <1>u DEF Using
<1>f. UseFacts
  BY <1>p, InUseFacts
<1> USE DEF UseFacts
<1>v. /\ vs' \in VersionsType /\ vs'.next = vs.next /\ vs'.live = vs.live /\ vs'.log = vs.log
      /\ vs'.manifest = vs.manifest /\ vs'.desc = vs.desc
  BY <1>u, <1>f DEF VersionsType
<1>1. DiskTypes' /\ Covered' /\ Repairable' /\ MemoryTypes'
  <2>1. DiskTypes' /\ Covered' /\ Repairable'
    BY <1>u, DiskSame
  <2> QED
    BY <1>u, <1>v, <1>f, <2>1 DEF MemoryTypes
<1>2. LinkInv' /\ KillInv' /\ JobInv'
  <2>1. vs.next <= vs'.next /\ db.logfile <= db'.logfile
    BY <1>u, <1>v, <1>f
  <2> QED
    BY <1>u, <1>p, <1>v, <1>f, <2>1, UserSame
<1>w. View' = View /\ pc' \in Serving /\ (Promised' <=> Promised)
  BY <1>u, <1>v, <1>p, <1>f DEF View, Applying, Serving, Using, Promised
<1>3. MemoryInv' /\ ServeInv'
  BY <1>u, <1>v, <1>f, <1>w DEF RecInv, MemoryInv, ServeInv
<1> QED
  BY <1>p, <1>1, <1>2, <1>3, AtUse DEF DiskInv

\* ldb_backup, and ldb_close before the background thread is done, leave the files alone.
LEMMA BackupInv ==
  ASSUME RecInv, Backup \/ CloseStart
  PROVE  RecInv'
BY UserIdle DEF Backup, CloseStart, disk, Using

\* ldb_close returns: what was in memory is in the logs.
LEMMA CloseEndsInv ==
  ASSUME RecInv, CloseEnds
  PROVE  RecInv'
<1>u. /\ pc = "closing" /\ bg = "idle" /\ pc' = "down" /\ vs' = NoVersions /\ db' = NoDb
      /\ UNCHANGED <<tables, logs, manifests, current, temps, op, bg, job, acked, synced, written, doubt>>
  BY DEF CloseEnds, disk, ghost
<1>b. bg' = "idle" /\ job' = NoJob
  BY <1>u DEF RecInv, JobInv, JobShape
<1>1. DiskTypes' /\ Covered' /\ Repairable'
  BY <1>u, DiskSame
<1>2. MemoryTypes'
  BY <1>u, NoTypes DEF RecInv, MemoryTypes
<1> QED
  BY <1>u, <1>b, <1>1, <1>2, AtDown DEF DiskInv

\* ldb_destroy removes everything, the promises too.
LEMMA DestroyInv ==
  ASSUME RecInv, Destroy
  PROVE  RecInv'
<1>u. /\ pc = "down" /\ RemoveFiles(Files) /\ current' = None
      /\ acked' = {} /\ synced' = {} /\ doubt' = "no"
      /\ UNCHANGED <<pc, op, vs, db, bg, job, written>>
  BY DEF Destroy
<1>b. bg' = "idle" /\ job' = NoJob
  BY <1>u, BgRests DEF Using
<1>1. DiskTypes'
  BY <1>u, RemoveTypes DEF RecInv, None
<1>2. MemoryTypes' /\ Covered' /\ Repairable'
  BY <1>u DEF RecInv, MemoryTypes, Covered, Repairable
<1> QED
  BY <1>u, <1>b, <1>1, <1>2, AtDown DEF DiskInv

----------------------------------------------------------------------------
(* The background thread                                                   *)

\* A step of the background thread that leaves the memtables, the version and its tables
\* alone changes nothing of what is served.
LEMMA BgFrame ==
  ASSUME RecInv, pc \in Using, pc' = pc, UNCHANGED <<logs, acked, synced>>, Promised' => Promised,
         vs'.live = vs.live, vs'.log = vs.log, vs'.next \in Int, vs.next <= vs'.next,
         db'.mem = db.mem, db'.imm = db.imm, db'.has_imm = db.has_imm, db'.logfile = db.logfile,
         \A t \in vs.live : t \in DOMAIN tables' /\ tables'[t] = tables[t],
         \A t \in DOMAIN tables' : t < vs'.next
  PROVE  MemoryInv' /\ ServeInv'
<1>f. UseFacts
  BY InUseFacts
<1> USE DEF UseFacts
<1>w. View' = vs.live /\ pc' \in Serving
  BY <1>f DEF View, Applying, Using
<1>y. /\ db.logfile \in DOMAIN logs /\ vs.log <= db.logfile /\ (\A l \in DOMAIN logs : l < vs.next)
      /\ db.mem \subseteq Ents(logs[db.logfile].recs)
      /\ db.imm \subseteq Logged(logs, vs.log) /\ (~db.has_imm => db.imm = {})
  BY <1>f DEF RecInv, MemoryInv
<1>1. MemoryInv'
  <2>1. \A l \in DOMAIN logs : l < vs'.next
    <3>1. DOMAIN logs \subseteq Int
      BY <1>f DEF DiskTypes, LogsType, Number
    <3>2. \A k \in Int : k < vs.next => k < vs'.next
      BY <1>f
    <3> QED
      BY <1>y, <3>1, <3>2
  <2> QED
    BY <1>w, <1>y, <2>1 DEF MemoryInv
<1>2. ServeInv'
  <2>1. Holds(tables', vs.live) = Holds(tables, vs.live)
    BY DEF Holds
  <2>2. vs.live \subseteq WholeOf(tables) => vs.live \subseteq WholeOf(tables')
    BY DEF WholeOf
  <2>3. Promised => /\ vs.live \subseteq WholeOf(tables)
                    /\ acked \cup synced \subseteq db.mem \cup db.imm \cup Holds(tables, vs.live)
                    /\ synced \subseteq db.imm \cup Holds(tables, vs.live) \cup SyncedOf(logs[db.logfile])
                    /\ synced \subseteq Holds(tables, vs.live) \cup Durable(logs, vs.log)
    BY <1>f DEF RecInv, ServeInv
  <2> QED
    BY <1>w, <2>1, <2>2, <2>3 DEF ServeInv
<1> QED
  BY <1>1, <1>2

\* A step that takes a file number for a table.
LEMMA NumberTaken ==
  ASSUME RecInv, pc \in Using, vs' = [vs EXCEPT !.next = vs.next + 1],
         db' = [db EXCEPT !.pending = db.pending \cup {vs.next}]
  PROVE  /\ vs' \in VersionsType /\ vs'.next = vs.next + 1 /\ vs'.live = vs.live /\ vs'.log = vs.log
         /\ vs'.manifest = vs.manifest /\ vs'.desc = vs.desc
         /\ db' \in DbType /\ db'.mem = db.mem /\ db'.imm = db.imm /\ db'.has_imm = db.has_imm
         /\ db'.logfile = db.logfile /\ db'.err = db.err /\ db'.pending = db.pending \cup {vs.next}
         /\ vs'.next \in Int /\ vs.next <= vs'.next /\ vs.next < vs'.next
         /\ \A k \in Int : (k < vs.next => k < vs'.next) /\ (k <= vs.next => k <= vs'.next)
         /\ (\A t \in DOMAIN tables : t < vs.next /\ t < vs'.next) /\ vs.next \notin DOMAIN tables
         /\ vs.live \subseteq DOMAIN tables
<1>f. UseFacts
  BY InUseFacts
<1> USE DEF UseFacts
<1>1. vs.next + 1 \in Number /\ vs.next + 1 \in Int /\ vs.next < vs.next + 1 /\ vs.next <= vs.next + 1
      /\ \A k \in Int : (k < vs.next => k < vs.next + 1) /\ (k <= vs.next => k <= vs.next + 1)
  BY <1>f DEF Number
<1>2. vs' \in VersionsType /\ vs'.next = vs.next + 1 /\ vs'.live = vs.live /\ vs'.log = vs.log
      /\ vs'.manifest = vs.manifest /\ vs'.desc = vs.desc
  BY <1>f, <1>1 DEF VersionsType
<1>3. /\ db' \in DbType /\ db'.mem = db.mem /\ db'.imm = db.imm /\ db'.has_imm = db.has_imm
      /\ db'.logfile = db.logfile /\ db'.err = db.err /\ db'.pending = db.pending \cup {vs.next}
  BY <1>f DEF DbType
<1>4. DOMAIN tables \subseteq Int /\ \A t \in DOMAIN tables : t < vs.next
  BY <1>f DEF RecInv, MemoryInv, DiskTypes, TablesType, Number
<1>5. vs.next \notin DOMAIN tables
  BY <1>f, <1>4
<1>6. vs.live \subseteq DOMAIN tables
  BY <1>f DEF RecInv, MemoryInv
<1> QED
  BY <1>1, <1>2, <1>3, <1>4, <1>5, <1>6

\* What the job is, and the link to the manifest, when the job goes on or begins.
LEMMA LinkStays ==
  ASSUME RecInv, pc \in Using, pc' = pc, UNCHANGED <<manifests, current, doubt>>,
         bg \in {"idle", "build", "edit"}, bg' \in {"build", "edit", "apply"}, bg = "idle" => ~db.err,
         vs'.manifest = vs.manifest, vs'.desc = vs.desc, vs'.live = vs.live, vs'.log = vs.log,
         vs'.next \in Int, vs.next <= vs'.next, db'.logfile = db.logfile, db.err => db'.err
  PROVE  LinkInv' /\ InUse' = InUse
<1>f. UseFacts
  BY InUseFacts
<1> USE DEF UseFacts
<1>i. InUse' = InUse /\ Survivors' = Survivors /\ (Promised' <=> Promised)
  BY DEF InUse, Survivors, Promised
<1>1. LastEdit(InUse).next <= vs'.next
  <2>1. LastEdit(InUse).next \in Number
    BY <1>f, UseType, LastOrdered
  <2>2. \A k \in Int : k <= vs.next => k <= vs'.next
    BY <1>f
  <2> QED
    BY <2>1, <2>2 DEF RecInv, LinkInv, Number
<1>2. LinkInv
  BY DEF RecInv
<1>3. /\ ~db.err => LiveOf(InUse) = vs.live /\ LastEdit(InUse).log = vs.log
      /\ vs.live \subseteq LiveOf(InUse)
      /\ Promised => \A n \in Survivors : InUse[n].log <= db.logfile
  BY <1>2 DEF LinkInv, Using
<1> QED
  BY <1>f, <1>i, <1>1, <1>3 DEF LinkInv, Using, Cleaning

\* A flush of the immutable memtable begins.
LEMMA FlushStartInv ==
  ASSUME RecInv, FlushStart
  PROVE  RecInv'
<1>u. /\ pc = "open" /\ pc' = pc /\ bg = "idle" /\ bg' = "build" /\ db.has_imm /\ ~db.err
      /\ job' = [NoJob EXCEPT !.kind = "flush", !.out = vs.next]
      /\ vs' = [vs EXCEPT !.next = vs.next + 1]
      /\ db' = [db EXCEPT !.pending = db.pending \cup {vs.next}]
      /\ UNCHANGED <<tables, logs, manifests, current, temps, op, acked, synced, written, doubt>>
  BY DEF FlushStart, BgUnchanged, disk
<1>p. pc \in Using
  BY <1>u DEF Using
<1>f. UseFacts
  BY <1>p, InUseFacts
<1> USE DEF UseFacts
<1>v. /\ vs' \in VersionsType /\ vs'.next = vs.next + 1 /\ vs'.live = vs.live /\ vs'.log = vs.log
      /\ vs'.manifest = vs.manifest /\ vs'.desc = vs.desc
      /\ db' \in DbType /\ db'.mem = db.mem /\ db'.imm = db.imm /\ db'.has_imm = db.has_imm
      /\ db'.logfile = db.logfile /\ db'.err = db.err /\ db'.pending = db.pending \cup {vs.next}
      /\ vs'.next \in Int /\ vs.next <= vs'.next /\ vs.next < vs'.next
      /\ (\A t \in DOMAIN tables : t < vs.next /\ t < vs'.next) /\ vs.next \notin DOMAIN tables
      /\ vs.live \subseteq DOMAIN tables
  BY <1>u, <1>p, NumberTaken
<1>j. /\ job'.kind = "flush" /\ job'.out = vs.next /\ job'.ins = {} /\ job'.outer = <<>> /\ job' \in JobType
  <2>1. NoJob \in JobType /\ vs.next \in Nat
    BY <1>f, NoTypes DEF Number
  <2> QED
    BY <1>u, <2>1 DEF JobType, JobKinds, NoJob
<1>1. DiskTypes' /\ Covered' /\ Repairable'
  BY <1>u, DiskSame DEF Repairing
<1>2. MemoryTypes'
  BY <1>u, <1>f, <1>v, <1>j DEF MemoryTypes, BgPlaces
<1>3. MemoryInv' /\ ServeInv'
  <2>1. Promised' => Promised
    BY <1>u DEF Promised
  <2> QED
    BY <1>u, <1>p, <1>v, <2>1, BgFrame
<1>4. LinkInv'
  BY <1>u, <1>p, <1>v, LinkStays
<1>5. KillInv'
  BY <1>u DEF KillInv
<1>6. JobInv'
  <2>1. JobShape'
    BY <1>u, <1>p, <1>j DEF JobShape
  <2>2. BuildInv'
    BY <1>u, <1>f, <1>v, <1>j DEF BuildInv, Number
  <2>3. RecordInv'
    BY <1>u DEF RecordInv
  <2> QED
    BY <2>1, <2>2, <2>3 DEF JobInv
<1> QED
  BY <1>u, <1>p, <1>1, <1>2, <1>3, <1>4, <1>5, <1>6, AtUse DEF DiskInv

\* A flush begins inside a compaction, which waits with its output pending.
LEMMA InnerFlushInv ==
  ASSUME RecInv, InnerFlush
  PROVE  RecInv'
<1>u. /\ pc = "open" /\ pc' = pc /\ bg = "build" /\ bg' = "build" /\ db.has_imm /\ job.kind = "compact"
      /\ job' = [NoJob EXCEPT !.kind = "flush", !.out = vs.next, !.outer = <<job>>]
      /\ vs' = [vs EXCEPT !.next = vs.next + 1]
      /\ db' = [db EXCEPT !.pending = db.pending \cup {vs.next}]
      /\ UNCHANGED <<tables, logs, manifests, current, temps, op, acked, synced, written, doubt>>
  BY DEF InnerFlush, BgUnchanged, disk
<1>p. pc \in Using
  BY <1>u DEF Using
<1>f. UseFacts
  BY <1>p, InUseFacts
<1> USE DEF UseFacts
<1>v. /\ vs' \in VersionsType /\ vs'.next = vs.next + 1 /\ vs'.live = vs.live /\ vs'.log = vs.log
      /\ vs'.manifest = vs.manifest /\ vs'.desc = vs.desc
      /\ db' \in DbType /\ db'.mem = db.mem /\ db'.imm = db.imm /\ db'.has_imm = db.has_imm
      /\ db'.logfile = db.logfile /\ db'.err = db.err /\ db'.pending = db.pending \cup {vs.next}
      /\ vs'.next \in Int /\ vs.next <= vs'.next /\ vs.next < vs'.next
      /\ (\A t \in DOMAIN tables : t < vs.next /\ t < vs'.next) /\ vs.next \notin DOMAIN tables
      /\ vs.live \subseteq DOMAIN tables
  BY <1>u, <1>p, NumberTaken
<1>c. Compacting(job, vs, db, tables) /\ tables[job.out].ents = {}
  BY <1>u DEF RecInv, JobInv, BuildInv
<1>d. Compacting(job, vs', db', tables') /\ job.out # vs.next /\ job.outer = <<>>
  BY <1>u, <1>v, <1>c DEF Compacting
<1>j. /\ job'.kind = "flush" /\ job'.out = vs.next /\ job'.ins = {} /\ job'.outer = <<job>> /\ job' \in JobType
      /\ Len(job'.outer) = 1 /\ job'.outer[1] = job
  <2>1. NoJob \in JobType /\ vs.next \in Nat
    BY <1>f, NoTypes DEF Number
  <2>2. job \in PlainJob
    BY <1>f, <1>d DEF JobType, PlainJob
  <2>3. <<job>> \in Seq(PlainJob) /\ Len(<<job>>) = 1 /\ <<job>>[1] = job
    BY <2>2
  <2>4. /\ job'.kind = "flush" /\ job'.out = vs.next /\ job'.ins = {} /\ job'.outer = <<job>>
    BY <1>u DEF NoJob
  <2>5. job' \in JobType
    BY <1>u, <2>1, <2>3 DEF JobType, JobKinds, NoJob
  <2> QED
    BY <2>3, <2>4, <2>5
<1>1. DiskTypes' /\ Covered' /\ Repairable'
  BY <1>u, DiskSame DEF Repairing
<1>2. MemoryTypes'
  BY <1>u, <1>f, <1>v, <1>j DEF MemoryTypes, BgPlaces
<1>3. MemoryInv' /\ ServeInv'
  <2>1. Promised' => Promised
    BY <1>u DEF Promised
  <2> QED
    BY <1>u, <1>p, <1>v, <2>1, BgFrame
<1>4. LinkInv'
  BY <1>u, <1>p, <1>v, LinkStays
<1>5. KillInv'
  BY <1>u DEF KillInv
<1>6. JobInv'
  <2>1. JobShape'
    BY <1>u, <1>p, <1>j, <1>c, <1>d DEF JobShape
  <2>2. BuildInv'
    BY <1>u, <1>f, <1>v, <1>j DEF BuildInv, Number
  <2>3. RecordInv'
    BY <1>u DEF RecordInv
  <2> QED
    BY <2>1, <2>2, <2>3 DEF JobInv
<1> QED
  BY <1>u, <1>p, <1>1, <1>2, <1>3, <1>4, <1>5, <1>6, AtUse DEF DiskInv

\* A compaction begins and takes the number of its output.
LEMMA CompactStartInv ==
  ASSUME RecInv, NEW ins \in SUBSET vs.live, ins # {}, CompactStart(ins)
  PROVE  RecInv'
<1>u. /\ pc = "open" /\ pc' = pc /\ bg = "idle" /\ bg' = "build" /\ ~db.has_imm /\ ~db.err
      /\ job' = [NoJob EXCEPT !.kind = "compact", !.out = vs.next, !.ins = ins]
      /\ vs' = [vs EXCEPT !.next = vs.next + 1]
      /\ db' = [db EXCEPT !.pending = db.pending \cup {vs.next}]
      /\ tables' = Put(tables, vs.next, [ents |-> {}, whole |-> FALSE])
      /\ UNCHANGED <<logs, manifests, current, temps, op, acked, synced, written, doubt>>
  BY DEF CompactStart, BgUnchanged, disk
<1>p. pc \in Using
  BY <1>u DEF Using
<1>f. UseFacts
  BY <1>p, InUseFacts
<1> USE DEF UseFacts
<1>v. /\ vs' \in VersionsType /\ vs'.next = vs.next + 1 /\ vs'.live = vs.live /\ vs'.log = vs.log
      /\ vs'.manifest = vs.manifest /\ vs'.desc = vs.desc
      /\ db' \in DbType /\ db'.mem = db.mem /\ db'.imm = db.imm /\ db'.has_imm = db.has_imm
      /\ db'.logfile = db.logfile /\ db'.err = db.err /\ db'.pending = db.pending \cup {vs.next}
      /\ vs'.next \in Int /\ vs.next <= vs'.next /\ vs.next < vs'.next
      /\ (\A t \in DOMAIN tables : t < vs.next /\ t < vs'.next) /\ vs.next \notin DOMAIN tables
      /\ vs.live \subseteq DOMAIN tables
  BY <1>u, <1>p, NumberTaken
<1>k. /\ DOMAIN tables' = DOMAIN tables \cup {vs.next} /\ tables'[vs.next] = [ents |-> {}, whole |-> FALSE]
      /\ \A t \in DOMAIN tables : tables'[t] = tables[t]
  BY <1>u, <1>v DEF Put
<1>j. /\ job'.kind = "compact" /\ job'.out = vs.next /\ job'.ins = ins /\ job'.outer = <<>>
      /\ job'.kill = {} /\ job' \in JobType
  <2>1. NoJob \in JobType /\ vs.next \in Nat /\ ins \subseteq Number
    BY <1>f, NoTypes DEF Number
  <2> QED
    BY <1>u, <2>1 DEF JobType, JobKinds, NoJob
<1>1. DiskTypes' /\ Covered' /\ Repairable'
  <2>1. TablesType(tables')
    <3>1. {} \in EntrySet
      BY FS_EmptySet DEF EntrySet
    <3>2. [ents |-> {}, whole |-> FALSE] \in TableFile
      BY <3>1 DEF TableFile
    <3> QED
      BY <1>u, <1>f, <3>2, TablePut DEF DiskTypes
  <2>2. Covered'
    <3>1. LastEdit(InUse).next <= vs.next
      BY <1>p DEF RecInv, LinkInv
    <3>2. Promised /\ current # None => \A m \in Survivors : vs.next \notin LiveOf(SubSeq(InUse, 1, m))
      BY <1>f, <3>1, FreshNumber
    <3> QED
      BY <1>u, <1>f, <3>2, CoveredPut
  <2> QED
    BY <1>u, <1>f, <2>1, <2>2 DEF DiskTypes, Repairable
<1>2. MemoryTypes'
  BY <1>u, <1>f, <1>v, <1>j DEF MemoryTypes, BgPlaces
<1>3. MemoryInv' /\ ServeInv'
  <2>1. Promised' => Promised
    BY <1>u DEF Promised
  <2> QED
    BY <1>u, <1>p, <1>v, <1>k, <2>1, BgFrame
<1>4. LinkInv'
  BY <1>u, <1>p, <1>v, LinkStays
<1>5. KillInv'
  BY <1>u DEF KillInv
<1>c. Compacting(job', vs', db', tables') /\ tables'[job'.out].ents = {}
  BY <1>u, <1>v, <1>j, <1>k DEF Compacting
<1>6. JobInv'
  <2>1. JobShape'
    BY <1>u, <1>p, <1>j DEF JobShape
  <2>2. BuildInv'
    BY <1>u, <1>f, <1>v, <1>j, <1>c DEF BuildInv, Number
  <2>3. RecordInv'
    BY <1>u DEF RecordInv
  <2> QED
    BY <2>1, <2>2, <2>3 DEF JobInv
<1> QED
  BY <1>u, <1>p, <1>1, <1>2, <1>3, <1>4, <1>5, <1>6, AtUse DEF DiskInv

\* A trivial move makes its edit without building a table.
LEMMA MoveStartInv ==
  ASSUME RecInv, NEW t \in vs.live, MoveStart(t)
  PROVE  RecInv'
<1> DEFINE e == FillEdit([NoEdit EXCEPT !.adds = {t}, !.dels = {t}], vs.log)
<1>u. /\ pc = "open" /\ pc' = pc /\ bg = "idle" /\ bg' = "apply" /\ ~db.has_imm /\ ~db.err
      /\ job' = [NoJob EXCEPT !.kind = "move", !.ins = {t}, !.edit = e]
      /\ UNCHANGED <<tables, logs, manifests, current, temps, op, vs, db, acked, synced, written, doubt>>
  BY DEF MoveStart, BgUnchanged, disk
<1>p. pc \in Using
  BY <1>u DEF Using
<1>f. UseFacts
  BY <1>p, InUseFacts
<1> USE DEF UseFacts
<1>e. e \in Edit /\ e.adds = {t} /\ e.dels = {t} /\ e.log = vs.log /\ e.next = vs.next
  <2>1. NoEdit \in Edit /\ {t} \in SUBSET Number
    BY <1>f, NoTypes
  <2>2. [NoEdit EXCEPT !.adds = {t}, !.dels = {t}] \in Edit
    BY <2>1 DEF Edit
  <2>3. e.adds = {t} /\ e.dels = {t} /\ e.log = vs.log /\ e.next = vs.next
    BY DEF FillEdit, NoEdit
  <2> QED
    BY <1>f, <2>2, <2>3 DEF Edit, FillEdit
<1> HIDE DEF e
<1>j. /\ job'.kind = "move" /\ job'.ins = {t} /\ job'.outer = <<>> /\ job'.edit = e /\ job' \in JobType
  <2>1. NoJob \in JobType /\ t \in Number
    BY <1>f, NoTypes DEF Number
  <2>2. /\ job'.kind = "move" /\ job'.ins = {t} /\ job'.outer = <<>> /\ job'.edit = e
    BY <1>u DEF NoJob
  <2>3. job' \in JobType
    BY <1>u, <1>e, <2>1 DEF JobType, JobKinds
  <2> QED
    BY <2>2, <2>3
<1>1. DiskTypes' /\ Covered' /\ Repairable'
  BY <1>u, DiskSame DEF Repairing
<1>2. MemoryTypes'
  BY <1>u, <1>f, <1>j DEF MemoryTypes, BgPlaces
<1>y. (\A x \in DOMAIN tables : x < vs.next) /\ vs.live \subseteq DOMAIN tables
  BY <1>f, <1>p DEF RecInv, MemoryInv
<1>n. vs.next <= vs.next /\ vs.next # -1
  BY <1>f DEF Number
<1>3. MemoryInv' /\ ServeInv'
  <2>1. Promised' => Promised
    BY <1>u DEF Promised
  <2>2. \A x \in vs.live : x \in DOMAIN tables' /\ tables'[x] = tables[x]
    BY <1>u, <1>y
  <2> QED
    BY <1>u, <1>p, <1>f, <1>y, <1>n, <2>1, <2>2, BgFrame
<1>4. LinkInv' /\ InUse' = InUse
  BY <1>u, <1>p, <1>f, <1>n, LinkStays
<1>5. KillInv'
  BY <1>u DEF KillInv
<1>6. JobInv'
  <2>1. JobShape'
    BY <1>u, <1>p, <1>j DEF JobShape
  <2>2. BuildInv'
    BY <1>u DEF BuildInv
  <2>3. RecordInv'
    <3>1. LastEdit(InUse).next <= vs.next /\ LastEdit(InUse).log = vs.log
      BY <1>u, <1>p DEF RecInv, LinkInv
    <3>2. vs.log < vs.next
      <4>1. LastEdit(InUse).log < vs.next
        BY <1>f, <3>1, LiveFresh
      <4> QED
        BY <3>1, <4>1
    <3>3. Promised' => vs.live \subseteq WholeOf(tables)
      BY <1>u, <1>f DEF RecInv, ServeInv, Promised
    <3> QED
      BY <1>u, <1>e, <1>j, <1>y, <1>n, <1>4, <3>1, <3>2, <3>3 DEF RecordInv
  <2> QED
    BY <2>1, <2>2, <2>3 DEF JobInv
<1> QED
  BY <1>u, <1>p, <1>1, <1>2, <1>3, <1>4, <1>5, <1>6, AtUse DEF DiskInv

\* A job ends without a change of the version: with an error, or once its files are removed.
LEMMA JobEndsInv ==
  ASSUME RecInv, pc \in Using, pc' = pc, UNCHANGED <<vs, manifests, current, doubt>>,
         bg \in {"build", "edit", "apply", "sync", "kill"}, JobEnds,
         db'.logfile = db.logfile, db'.err \/ (bg = "kill" /\ db'.err = db.err),
         db.pending \ {job.out} \subseteq db'.pending,
         job.outer # <<>> => /\ job.outer[1].out \in DOMAIN tables'
                             /\ tables'[job.outer[1].out] = tables[job.outer[1].out]
  PROVE  JobInv' /\ KillInv' /\ LinkInv' /\ job' \in JobType /\ bg' \in BgPlaces
<1>f. UseFacts
  BY InUseFacts
<1> USE DEF UseFacts
<1>i. InUse' = InUse /\ Survivors' = Survivors /\ (Promised' <=> Promised)
  BY DEF InUse, Survivors, Promised
<1>s. /\ job.kind = "flush" => job.ins = {}
      /\ Len(job.outer) <= 1
      /\ job.outer # <<>> => /\ job.kind = "flush" /\ Compacting(job.outer[1], vs, db, tables)
                             /\ job.outer[1].out # job.out /\ tables[job.outer[1].out].ents = {}
  BY DEF RecInv, JobInv, JobShape
<1>l. LinkInv
  BY DEF RecInv
<1>1. /\ vs.desc = current /\ vs.manifest = current /\ LastEdit(InUse).next <= vs.next
      /\ Promised => \A n \in Survivors : InUse[n].log <= db.logfile
      /\ bg = "kill" /\ ~db.err => LiveOf(InUse) = vs.live /\ LastEdit(InUse).log = vs.log
      /\ job.outer # <<>> => vs.live \subseteq LiveOf(InUse)
  <2>1. CASE bg = "sync"
    <3>1. job.kind = "flush" => job.edit.dels = {}
      BY <2>1 DEF RecInv, JobInv, RecordInv
    <3>2. (vs.live \ job.edit.dels) \cup job.edit.adds \subseteq LiveOf(InUse)
      BY <1>l, <2>1 DEF LinkInv
    <3> QED
      BY <1>l, <1>s, <2>1, <3>1, <3>2 DEF LinkInv
  <2>2. CASE bg # "sync"
    BY <1>l, <2>2 DEF LinkInv
  <2> QED
    BY <2>1, <2>2
<1>2. CASE job.outer = <<>>
  <2>1. bg' = "idle" /\ job' = NoJob
    BY <1>2 DEF JobEnds
  <2>2. LinkInv'
    BY <1>f, <1>i, <1>1, <2>1 DEF LinkInv, Cleaning, Using
  <2> QED
    BY <2>1, <2>2, NoTypes DEF JobInv, JobShape, BuildInv, RecordInv, KillInv, Using, BgPlaces
<1>3. CASE job.outer # <<>>
  <2> DEFINE c == job.outer[1]
  <2>1. bg' = "build" /\ job' = c
    BY <1>3 DEF JobEnds
  <2>2. Compacting(c, vs, db, tables) /\ c.out # job.out /\ tables[c.out].ents = {}
    BY <1>3, <1>s
  <2>3. c \in PlainJob
    <3>1. job.outer \in Seq(PlainJob)
      BY <1>f DEF JobType
    <3>2. 1 \in 1..Len(job.outer)
      BY <1>3, <3>1
    <3> QED
      BY <3>1, <3>2
  <2>t. c.out \in DOMAIN tables' /\ tables'[c.out] = tables[c.out]
    BY <1>3
  <2> HIDE DEF c
  <2>4. c \in JobType
    <3>1. c \in [kind : JobKinds, out : Nat, ins : SUBSET Number, edit : Edit,
                 kill : SUBSET FileNames, outer : {<<>>}]
      BY <2>3 DEF PlainJob
    <3>2. {<<>>} \subseteq Seq(PlainJob)
      OBVIOUS
    <3> QED
      BY <3>1, <3>2 DEF JobType
  <2>5. Compacting(c, vs', db', tables') /\ tables'[c.out].ents = {}
    BY <2>2, <2>t DEF Compacting
  <2>6. c.out < vs'.next /\ c.out # 0
    <3>1. c.out \in DOMAIN tables
      BY <2>2 DEF Compacting
    <3>2. \A t \in DOMAIN tables : t < vs.next /\ t \in Number
      BY <1>f DEF RecInv, MemoryInv, DiskTypes, TablesType
    <3> QED
      BY <3>1, <3>2 DEF Number
  <2>7. c.kind = "compact" /\ c.outer = <<>>
    BY <2>2 DEF Compacting
  <2>8. JobInv'
    <3>1. JobShape'
      BY <2>1, <2>7 DEF JobShape
    <3>2. BuildInv'
      BY <2>1, <2>5, <2>6, <2>7 DEF BuildInv
    <3> QED
      BY <2>1, <3>1, <3>2 DEF JobInv, RecordInv
  <2>9. LinkInv'
    BY <1>f, <1>i, <1>1, <1>3, <2>1 DEF LinkInv, Cleaning, Using
  <2> QED
    BY <2>1, <2>4, <2>8, <2>9 DEF KillInv, BgPlaces, Using
<1> QED
  BY <1>2, <1>3

\* The error that a job leaves.
LEMMA ErrorSet ==
  ASSUME RecInv, pc \in Using, db' = [db EXCEPT !.err = TRUE, !.pending = db.pending \ {job.out}]
  PROVE  /\ db' \in DbType /\ db'.mem = db.mem /\ db'.imm = db.imm /\ db'.has_imm = db.has_imm
         /\ db'.logfile = db.logfile /\ db'.err /\ db'.pending = db.pending \ {job.out}
<1>f. db \in DbType
  BY InUseFacts DEF UseFacts
<1> QED
  BY <1>f DEF DbType

\* The numbers of tables are all below the next one, and the tables of the version are there.
LEMMA TablesBelow ==
  ASSUME RecInv, pc \in Using
  PROVE  /\ vs.live \subseteq DOMAIN tables /\ (\A t \in DOMAIN tables : t < vs.next)
         /\ DOMAIN tables \subseteq Int /\ vs.next <= vs.next /\ vs.next \in Int
<1>f. UseFacts
  BY InUseFacts
<1> USE DEF UseFacts
<1> QED
  BY <1>f DEF RecInv, MemoryInv, DiskTypes, TablesType, Number

\* The job is at a place only while the database is in use.
LEMMA JobInUse ==
  ASSUME RecInv, bg # "idle"
  PROVE  pc \in Using
BY DEF RecInv, JobInv, JobShape

\* A table cannot be built: no version has it.
LEMMA BuildFailsInv ==
  ASSUME RecInv, BuildFails
  PROVE  RecInv'
<1>u. /\ pc' = pc /\ bg = "build"
      /\ tables' = (IF job.kind = "flush" THEN Drop(tables, {job.out}) ELSE tables)
      /\ db' = [db EXCEPT !.err = TRUE, !.pending = db.pending \ {job.out}]
      /\ JobEnds
      /\ UNCHANGED <<logs, manifests, current, temps, vs, op, acked, synced, written, doubt>>
  BY DEF BuildFails, BgUnchanged
<1>p. pc \in Using
  BY <1>u, JobInUse
<1>f. UseFacts
  BY <1>p, InUseFacts
<1> USE DEF UseFacts
<1>d. /\ db' \in DbType /\ db'.mem = db.mem /\ db'.imm = db.imm /\ db'.has_imm = db.has_imm
      /\ db'.logfile = db.logfile /\ db'.err /\ db'.pending = db.pending \ {job.out}
  BY <1>u, <1>p, ErrorSet
<1>t. DOMAIN tables' = DOMAIN tables /\ \A t \in DOMAIN tables : tables'[t] = tables[t]
  <2>1. job.kind = "flush" => job.out \notin DOMAIN tables
    BY <1>u DEF RecInv, JobInv, BuildInv
  <2> QED
    BY <1>u, <2>1 DEF Drop, Restrict
<1>e. \A t \in vs.live : t \in DOMAIN tables' /\ tables'[t] = tables[t]
  BY <1>t, <1>p, TablesBelow
<1>1. JobInv' /\ KillInv' /\ LinkInv' /\ job' \in JobType /\ bg' \in BgPlaces
  <2>1. job.outer # <<>> => job.outer[1].out \in DOMAIN tables
    BY <1>u DEF RecInv, JobInv, JobShape, Compacting
  <2> QED
    BY <1>u, <1>p, <1>d, <1>t, <2>1, JobEndsInv
<1>2. DiskTypes' /\ Covered' /\ Repairable'
  <2>1. TablesType(tables')
    BY <1>u, <1>f, TableDrop DEF DiskTypes
  <2>2. Covered'
    <3>1. Promised /\ current # None => \A n \in Survivors : LiveOf(SubSeq(InUse, 1, n)) \subseteq DOMAIN tables
      BY <1>f, UseAccepted DEF Accepted, WholeOf
    <3>2. Promised /\ current # None =>
           /\ current \in DOMAIN manifests' /\ manifests'[current] = manifests[current]
           /\ \A n \in Survivors : \A t \in LiveOf(SubSeq(InUse, 1, n)) :
                t \in DOMAIN tables' /\ tables'[t] = tables[t]
      BY <1>u, <1>f, <1>t, <3>1
    <3>3. /\ \A n \in Survivors : Durable(logs, LastEdit(SubSeq(InUse, 1, n)).log)
                                    \subseteq Durable(logs', LastEdit(SubSeq(InUse, 1, n)).log)
          /\ Logged(logs, LastEdit(InUse).log) \subseteq Logged(logs', LastEdit(InUse).log)
      BY <1>u
    <3> QED
      BY <1>u, <1>f, <3>2, <3>3, CoveredKept
  <2> QED
    BY <1>u, <1>f, <2>1, <2>2 DEF DiskTypes, Repairable
<1>3. MemoryTypes'
  BY <1>u, <1>f, <1>d, <1>1 DEF MemoryTypes
<1>4. MemoryInv' /\ ServeInv'
  <2>1. Promised' => Promised
    BY <1>u DEF Promised
  <2> QED
    BY <1>u, <1>p, <1>d, <1>t, <1>e, <2>1, BgFrame, TablesBelow
<1> QED
  BY <1>u, <1>p, <1>1, <1>2, <1>3, <1>4, AtUse DEF DiskInv

\* A job stops at an error, before or after its edit is written.
LEMMA AbandonInv ==
  ASSUME RecInv, AbandonJob \/ LogEditFails
  PROVE  RecInv'
<1>u. /\ pc' = pc /\ bg \in {"edit", "apply", "sync"}
      /\ db' = [db EXCEPT !.err = TRUE, !.pending = db.pending \ {job.out}]
      /\ JobEnds
      /\ UNCHANGED <<tables, logs, manifests, current, temps, vs, op, acked, synced, written, doubt>>
  BY DEF AbandonJob, LogEditFails, BgUnchanged, disk
<1>p. pc \in Using
  BY <1>u, JobInUse
<1>f. UseFacts
  BY <1>p, InUseFacts
<1> USE DEF UseFacts
<1>d. /\ db' \in DbType /\ db'.mem = db.mem /\ db'.imm = db.imm /\ db'.has_imm = db.has_imm
      /\ db'.logfile = db.logfile /\ db'.err /\ db'.pending = db.pending \ {job.out}
  BY <1>u, <1>p, ErrorSet
<1>1. JobInv' /\ KillInv' /\ LinkInv' /\ job' \in JobType /\ bg' \in BgPlaces
  <2>1. job.outer # <<>> => job.outer[1].out \in DOMAIN tables
    BY <1>u DEF RecInv, JobInv, JobShape, Compacting
  <2> QED
    BY <1>u, <1>p, <1>d, <2>1, JobEndsInv
<1>2. DiskTypes' /\ Covered' /\ Repairable'
  BY <1>u, <1>p, DiskSame DEF Using, Repairing
<1>3. MemoryTypes'
  BY <1>u, <1>f, <1>d, <1>1 DEF MemoryTypes
<1>4. MemoryInv' /\ ServeInv'
  <2>1. Promised' => Promised
    BY <1>u DEF Promised
  <2>2. \A t \in vs.live : t \in DOMAIN tables' /\ tables'[t] = tables[t]
    BY <1>u, <1>p, TablesBelow
  <2> QED
    BY <1>u, <1>p, <1>d, <2>1, <2>2, BgFrame, TablesBelow
<1> QED
  BY <1>u, <1>p, <1>1, <1>2, <1>3, <1>4, AtUse DEF DiskInv

\* A job is done with its obsolete files.
LEMMA BgEndsInv ==
  ASSUME RecInv, BgEnds
  PROVE  RecInv'
<1>u. /\ pc' = pc /\ bg = "kill" /\ JobEnds
      /\ UNCHANGED <<tables, logs, manifests, current, temps, vs, db, op, acked, synced, written, doubt>>
  BY DEF BgEnds, BgUnchanged, disk
<1>p. pc \in Using
  BY <1>u, JobInUse
<1>f. UseFacts
  BY <1>p, InUseFacts
<1> USE DEF UseFacts
<1>1. JobInv' /\ KillInv' /\ LinkInv' /\ job' \in JobType /\ bg' \in BgPlaces
  <2>1. job.outer # <<>> => job.outer[1].out \in DOMAIN tables
    BY <1>u DEF RecInv, JobInv, JobShape, Compacting
  <2>2. db.pending \ {job.out} \subseteq db'.pending
    BY <1>u
  <2> QED
    BY <1>u, <1>p, <2>1, <2>2, JobEndsInv
<1>2. DiskTypes' /\ Covered' /\ Repairable'
  BY <1>u, <1>p, DiskSame DEF Using, Repairing
<1>3. MemoryTypes'
  BY <1>u, <1>f, <1>1 DEF MemoryTypes
<1>4. MemoryInv' /\ ServeInv'
  <2>1. Promised' => Promised
    BY <1>u DEF Promised
  <2>2. \A t \in vs.live : t \in DOMAIN tables' /\ tables'[t] = tables[t]
    BY <1>u, <1>p, TablesBelow
  <2> QED
    BY <1>u, <1>p, <2>1, <2>2, BgFrame, TablesBelow
<1> QED
  BY <1>u, <1>p, <1>1, <1>2, <1>3, <1>4, AtUse DEF DiskInv

\* What is in some tables is finitely many entries.
LEMMA HoldsFinite ==
  ASSUME NEW ts, TablesType(ts), NEW S \in SUBSET DOMAIN ts
  PROVE  Holds(ts, S) \in EntrySet
<1> DEFINE f == [t \in S |-> ts[t].ents]
           T == {ts[t].ents : t \in S}
<1>1. IsFiniteSet(S)
  BY FS_Subset DEF TablesType
<1>2. f \in Surjection(S, T)
  BY DEF Surjection
<1>3. IsFiniteSet(T)
  <2> HIDE DEF f, T
  <2> QED
    BY <1>1, <1>2, FS_Surjection
<1>4. \A t \in S : ts[t].ents \in SUBSET LogEntry /\ IsFiniteSet(ts[t].ents)
  <2>1. \A t \in S : ts[t] \in TableFile
    BY DEF TablesType
  <2> QED
    BY <2>1 DEF TableFile, EntrySet
<1>5. (\A E \in T : IsFiniteSet(E)) /\ UNION T \subseteq LogEntry
  BY <1>4
<1>6. IsFiniteSet(UNION T)
  <2> HIDE DEF T
  <2> QED
    BY <1>3, <1>5, FS_UNION
<1> QED
  BY <1>5, <1>6 DEF Holds, EntrySet

\* A job writes its table: whole, with all that it retires.
LEMMA BuildTableInv ==
  ASSUME RecInv, BuildTable
  PROVE  RecInv'
<1>u. /\ pc' = pc /\ bg = "build" /\ bg' = "edit"
      /\ tables' = (IF Output = {} THEN tables ELSE Put(tables, job.out, Table(Output)))
      /\ UNCHANGED <<logs, manifests, current, temps, vs, db, job, op, acked, synced, written, doubt>>
  BY DEF BuildTable, BgUnchanged
<1>p. pc \in Using
  BY <1>u, JobInUse
<1>f. UseFacts
  BY <1>p, InUseFacts
<1> USE DEF UseFacts
<1>y. /\ vs.live \subseteq DOMAIN tables /\ (\A t \in DOMAIN tables : t < vs.next)
      /\ DOMAIN tables \subseteq Int /\ vs.next <= vs.next /\ vs.next \in Int
  BY <1>p, TablesBelow
<1>b. /\ job.kind \in {"flush", "compact"} /\ job.out < vs.next /\ job.out # 0
      /\ job.kind = "flush" => db.has_imm /\ job.out \notin DOMAIN tables
      /\ job.kind = "compact" => Compacting(job, vs, db, tables) /\ tables[job.out].ents = {}
  <2>1. job.kind \in JobKinds
    BY <1>f DEF JobType
  <2> QED
    BY <1>u, <2>1 DEF RecInv, JobInv, JobShape, BuildInv, JobKinds
<1>n. job.out \notin WholeOf(tables) /\ job.out \notin vs.live /\ job.out \in Number
  <2>1. job.out \in Nat
    BY <1>f DEF JobType
  <2>2. CASE job.kind = "flush"
    BY <1>b, <1>y, <2>1, <2>2 DEF WholeOf, Number
  <2>3. CASE job.kind = "compact"
    <3>1. job.out \notin WholeOf(tables)
      BY <1>b, <1>f, <2>3 DEF WholeOf, DiskTypes, TablesType
    <3> QED
      BY <1>b, <2>1, <2>3, <3>1 DEF Compacting, Number
  <2> QED
    BY <1>b, <2>2, <2>3
<1>o. /\ Output \in EntrySet /\ (job.kind = "flush" => Output = db.imm)
      /\ job.kind = "compact" => Output = Holds(tables, job.ins) /\ job.ins \subseteq vs.live
                                 /\ job.ins \subseteq DOMAIN tables /\ job.ins # {}
  <2>1. CASE job.kind = "flush"
    BY <1>f, <2>1 DEF Output, DbType
  <2>2. CASE job.kind = "compact"
    <3>1. Output = Holds(tables, job.ins)
      BY <2>2 DEF Output, Holds
    <3>2. job.ins \subseteq vs.live /\ job.ins \subseteq DOMAIN tables /\ job.ins # {}
      BY <1>b, <1>y, <2>2 DEF Compacting
    <3>3. Holds(tables, job.ins) \in EntrySet
      BY <1>f, <3>2, HoldsFinite DEF DiskTypes
    <3> QED
      BY <2>2, <3>1, <3>2, <3>3
  <2> QED
    BY <1>b, <2>1, <2>2
<1>t. /\ \A t \in DOMAIN tables \ {job.out} : t \in DOMAIN tables' /\ tables'[t] = tables[t]
      /\ DOMAIN tables \subseteq DOMAIN tables'
      /\ DOMAIN tables' \subseteq DOMAIN tables \cup {job.out}
      /\ Output # {} => job.out \in DOMAIN tables' /\ tables'[job.out] = Table(Output)
      /\ Output = {} => tables' = tables
  BY <1>u DEF Put
<1>e. \A t \in vs.live : t \in DOMAIN tables' /\ tables'[t] = tables[t]
  BY <1>t, <1>y, <1>n
<1>1. DiskTypes' /\ Covered' /\ Repairable'
  <2>1. CASE Output = {}
    BY <1>u, <1>p, <2>1, DiskSame DEF Using, Repairing
  <2>2. CASE Output # {}
    <3>1. TablesType(tables')
      <4>1. Table(Output) \in TableFile /\ Table(Output).ents = Output
        BY <1>o DEF Table, TableFile
      <4> QED
        BY <1>u, <1>f, <1>n, <2>2, <4>1, TablePut DEF DiskTypes
    <3>2. Covered'
      <4>1. Promised /\ current # None => \A m \in Survivors : LiveOf(SubSeq(InUse, 1, m)) \subseteq WholeOf(tables)
        BY <1>f, UseAccepted DEF Accepted
      <4>2. tables' = Put(tables, job.out, Table(Output))
        BY <1>u, <2>2
      <4>3. Promised /\ current # None => \A m \in Survivors : job.out \notin LiveOf(SubSeq(InUse, 1, m))
        BY <1>n, <4>1
      <4> QED
        BY <1>u, <1>f, <4>2, <4>3, CoveredPut
    <3> QED
      BY <1>u, <1>f, <3>1, <3>2 DEF DiskTypes, Repairable
  <2> QED
    BY <2>1, <2>2
<1>2. MemoryTypes'
  BY <1>u, <1>f DEF MemoryTypes, BgPlaces
<1>3. MemoryInv' /\ ServeInv'
  <2>1. Promised' => Promised
    BY <1>u DEF Promised
  <2>2. \A t \in DOMAIN tables' : t < vs'.next
    BY <1>u, <1>t, <1>b, <1>y
  <2> QED
    BY <1>u, <1>p, <1>y, <1>e, <2>1, <2>2, BgFrame
<1>4. LinkInv'
  BY <1>u, <1>p, <1>y, LinkStays
<1>5. KillInv'
  BY <1>u, <1>p DEF KillInv, Using
<1>6. JobInv'
  <2>1. JobShape'
    <3>1. /\ Len(job.outer) <= 1 /\ (job.kind = "flush" => job.ins = {})
          /\ job.outer # <<>> => /\ job.kind = "flush" /\ Compacting(job.outer[1], vs, db, tables)
                                 /\ job.outer[1].out # job.out /\ tables[job.outer[1].out].ents = {}
      BY <1>u DEF RecInv, JobInv, JobShape
    <3>2. job.outer # <<>> => Compacting(job.outer[1], vs, db, tables') /\ tables'[job.outer[1].out].ents = {}
      BY <1>t, <3>1 DEF Compacting
    <3> QED
      BY <1>u, <1>p, <1>b, <3>1, <3>2 DEF JobShape
  <2>2. BuildInv'
    <3>1. job.kind = "compact" => Compacting(job, vs, db, tables')
      BY <1>b, <1>t DEF Compacting
    <3>2. job.kind = "flush" => IF job.out \in DOMAIN tables'
                                THEN tables'[job.out].ents = db.imm /\ tables'[job.out].whole
                                ELSE db.imm = {}
      <4>1. Table(Output).ents = Output /\ Table(Output).whole
        BY DEF Table
      <4> QED
        BY <1>b, <1>o, <1>t, <4>1
    <3>3. job.kind = "compact" => tables'[job.out].ents = Holds(tables', job.ins)
      <4>1. job.kind = "compact" => Holds(tables', job.ins) = Holds(tables, job.ins)
        BY <1>e, <1>o DEF Holds
      <4>2. Table(Output).ents = Output
        BY DEF Table
      <4> QED
        BY <1>b, <1>o, <1>t, <4>1, <4>2
    <3>4. job.kind = "compact" /\ Promised' => tables'[job.out].whole
      <4> SUFFICES ASSUME job.kind = "compact", Promised PROVE tables'[job.out].whole
        BY <1>u DEF Promised
      <4>1. vs.live \subseteq WholeOf(tables)
        BY <1>f DEF RecInv, ServeInv
      <4>2. PICK t \in job.ins : t \in WholeOf(tables)
        BY <1>o, <4>1
      <4>3. tables[t].ents # {}
        BY <1>f, <4>2 DEF WholeOf, DiskTypes, TablesType
      <4>4. Output # {}
        BY <1>o, <4>2, <4>3 DEF Holds
      <4> QED
        BY <1>t, <4>4 DEF Table
    <3> QED
      BY <1>u, <1>b, <3>1, <3>2, <3>3, <3>4 DEF BuildInv
  <2>3. RecordInv'
    BY <1>u DEF RecordInv
  <2> QED
    BY <2>1, <2>2, <2>3 DEF JobInv
<1> QED
  BY <1>u, <1>p, <1>1, <1>2, <1>3, <1>4, <1>5, <1>6, AtUse DEF DiskInv

\* A job makes its edit, which retires the log only of a flush.
LEMMA MakeEditInv ==
  ASSUME RecInv, MakeEdit
  PROVE  RecInv'
<1> DEFINE adds == {job.out} \cap DOMAIN tables
           log == IF job.kind = "flush" THEN db.logfile ELSE vs.log
           e == FillEdit([NoEdit EXCEPT !.adds = adds, !.dels = job.ins], log)
<1>u. /\ pc = "open" /\ pc' = pc /\ bg = "edit" /\ bg' = "apply" /\ job' = [job EXCEPT !.edit = e]
      /\ db' = (IF job.kind = "flush" THEN [db EXCEPT !.pending = db.pending \ {job.out}] ELSE db)
      /\ UNCHANGED <<tables, logs, manifests, current, temps, vs, op, acked, synced, written, doubt>>
  BY DEF MakeEdit, BgUnchanged, disk
<1>p. pc \in Using
  BY <1>u, JobInUse
<1>f. UseFacts
  BY <1>p, InUseFacts
<1> USE DEF UseFacts
<1>y. /\ vs.live \subseteq DOMAIN tables /\ (\A t \in DOMAIN tables : t < vs.next)
      /\ DOMAIN tables \subseteq Int /\ vs.next <= vs.next /\ vs.next \in Int
  BY <1>p, TablesBelow
<1>t. job.ins \subseteq Number /\ job.out \in Nat /\ job.kind \in JobKinds
  BY <1>f DEF JobType
<1>e. e \in Edit /\ e.adds = adds /\ e.dels = job.ins /\ e.log = log /\ e.next = vs.next
  <2>1. NoEdit \in Edit /\ adds \in SUBSET Number /\ job.ins \in SUBSET Number
    BY <1>f, <1>t, NoTypes DEF DiskTypes, TablesType
  <2>l. log \in Int
    BY <1>f
  <2> HIDE DEF adds, log
  <2>2. [NoEdit EXCEPT !.adds = adds, !.dels = job.ins] \in Edit
    BY <2>1 DEF Edit
  <2>3. e.adds = adds /\ e.dels = job.ins /\ e.log = log /\ e.next = vs.next
    BY DEF FillEdit, NoEdit
  <2> QED
    BY <1>f, <2>l, <2>2, <2>3 DEF Edit, FillEdit
<1>d. /\ db' \in DbType /\ db'.mem = db.mem /\ db'.imm = db.imm /\ db'.has_imm = db.has_imm
      /\ db'.logfile = db.logfile /\ db'.err = db.err /\ db.pending \ {job.out} \subseteq db'.pending
  BY <1>u, <1>f DEF DbType
<1> HIDE DEF e
<1>j. /\ job' \in JobType /\ job'.kind = job.kind /\ job'.ins = job.ins /\ job'.out = job.out
      /\ job'.outer = job.outer /\ job'.edit = e
  BY <1>u, <1>f, <1>e DEF JobType
<1>b. /\ job.kind \in {"flush", "compact"} /\ job.out < vs.next
      /\ job.kind = "flush" => /\ db.has_imm /\ job.ins = {}
                               /\ IF job.out \in DOMAIN tables
                                  THEN tables[job.out].ents = db.imm /\ tables[job.out].whole
                                  ELSE db.imm = {}
      /\ job.kind = "compact" => /\ Compacting(job, vs, db, tables)
                                 /\ tables[job.out].ents = Holds(tables, job.ins)
                                 /\ Promised => tables[job.out].whole
  BY <1>u, <1>t DEF RecInv, JobInv, JobShape, BuildInv, JobKinds
<1>1. DiskTypes' /\ Covered' /\ Repairable'
  BY <1>u, DiskSame DEF Repairing
<1>2. MemoryTypes'
  BY <1>u, <1>f, <1>d, <1>j DEF MemoryTypes, BgPlaces
<1>3. MemoryInv' /\ ServeInv'
  <2>1. Promised' => Promised
    BY <1>u DEF Promised
  <2>2. \A t \in vs.live : t \in DOMAIN tables' /\ tables'[t] = tables[t]
    BY <1>u, <1>y
  <2> QED
    BY <1>u, <1>p, <1>d, <1>y, <2>1, <2>2, BgFrame
<1>4. LinkInv' /\ InUse' = InUse
  BY <1>u, <1>p, <1>d, <1>y, LinkStays
<1>5. KillInv'
  BY <1>u DEF KillInv
<1>6. JobInv'
  <2>1. JobShape'
    <3>1. /\ Len(job.outer) <= 1
          /\ job.outer # <<>> => /\ job.kind = "flush" /\ Compacting(job.outer[1], vs, db, tables)
                                 /\ job.outer[1].out # job.out /\ tables[job.outer[1].out].ents = {}
      BY <1>u DEF RecInv, JobInv, JobShape
    <3>2. job.outer # <<>> => Compacting(job.outer[1], vs, db', tables)
      BY <1>d, <3>1 DEF Compacting
    <3> QED
      BY <1>u, <1>p, <1>b, <1>j, <3>1, <3>2 DEF JobShape
  <2>2. BuildInv'
    BY <1>u DEF BuildInv
  <2>3. RecordInv'
    <3>1. LastEdit(InUse).next <= vs.next
      BY <1>p DEF RecInv, LinkInv
    <3>2. log < vs.next
      <4>1. vs.log <= db.logfile /\ db.logfile < vs.next
        BY <1>f DEF RecInv, MemoryInv
      <4>2. vs.log < vs.next
        BY <1>f, <4>1
      <4> QED
        BY <4>1, <4>2
    <3>3. job.kind = "compact" => job.ins \subseteq vs.live /\ job.out \in DOMAIN tables
      BY <1>b DEF Compacting
    <3>4. Promised' => adds \subseteq WholeOf(tables)
      BY <1>u, <1>b DEF WholeOf, Promised
    <3>5. \A t \in adds : t < vs.next
      BY <1>b
    <3>6. job.kind = "flush" => Holds(tables, adds) = db.imm
      BY <1>b DEF Holds
    <3>7. job.kind = "compact" => Holds(tables, adds) = Holds(tables, job.ins)
      <4> SUFFICES ASSUME job.kind = "compact" PROVE Holds(tables, adds) = Holds(tables, job.ins)
        OBVIOUS
      <4>1. adds = {job.out}
        BY <3>3
      <4>2. Holds(tables, {job.out}) = tables[job.out].ents
        BY DEF Holds
      <4> QED
        BY <1>b, <4>1, <4>2
    <3>8. vs.next # -1 /\ adds \subseteq DOMAIN tables /\ adds \subseteq {job.out}
      BY <1>f DEF Number
    <3> HIDE DEF adds
    <3>9. job.kind = "flush" => log = db.logfile
      OBVIOUS
    <3>10. job.kind = "compact" => log = vs.log
      OBVIOUS
    <3> HIDE DEF log
    <3> QED
      BY <1>u, <1>e, <1>d, <1>j, <1>b, <1>y, <1>4, <3>1, <3>2, <3>3, <3>4, <3>5, <3>6, <3>7, <3>8, <3>9, <3>10
         DEF RecordInv
  <2> QED
    BY <2>1, <2>2, <2>3 DEF JobInv
<1> QED
  BY <1>u, <1>p, <1>1, <1>2, <1>3, <1>4, <1>5, <1>6, AtUse DEF DiskInv

\* With a job's edit the version has what it had, and what a flush retires besides.
LEMMA EditKeeps ==
  ASSUME RecInv, bg \in {"apply", "sync", "install"}, Promised,
         NEW S, (vs.live \ job.edit.dels) \cup job.edit.adds \subseteq S
  PROVE  /\ synced \subseteq Holds(tables, S) \cup Durable(logs, job.edit.log)
         /\ acked \subseteq Holds(tables, S) \cup Logged(logs, job.edit.log)
         /\ job.kind = "flush" =>
              /\ acked \cup synced \subseteq db.mem \cup Holds(tables, S)
              /\ synced \subseteq Holds(tables, S) \cup SyncedOf(logs[db.logfile])
         /\ job.kind # "flush" =>
              /\ acked \cup synced \subseteq db.mem \cup db.imm \cup Holds(tables, S)
              /\ synced \subseteq db.imm \cup Holds(tables, S) \cup SyncedOf(logs[db.logfile])
<1>p. pc \in Using
  BY JobInUse
<1>f. UseFacts
  BY <1>p, InUseFacts
<1> USE DEF UseFacts
<1>r. /\ job.kind = "flush" => /\ job.edit.dels = {} /\ job.edit.log = db.logfile
                               /\ Holds(tables, job.edit.adds) = db.imm
      /\ job.kind # "flush" => /\ job.edit.dels = job.ins /\ job.edit.log = vs.log
                               /\ Holds(tables, job.edit.adds) = Holds(tables, job.ins)
  BY DEF RecInv, JobInv, RecordInv
<1>s. /\ acked \cup synced \subseteq db.mem \cup db.imm \cup Holds(tables, vs.live)
      /\ synced \subseteq db.imm \cup Holds(tables, vs.live) \cup SyncedOf(logs[db.logfile])
      /\ synced \subseteq Holds(tables, vs.live) \cup Durable(logs, vs.log)
  BY <1>f DEF RecInv, ServeInv
<1>m. /\ db.mem \subseteq Ents(logs[db.logfile].recs) /\ db.imm \subseteq Logged(logs, vs.log)
  BY <1>f DEF RecInv, MemoryInv
<1>1. db.logfile \in Since(logs, db.logfile) /\ db.logfile \in Since(logs, vs.log)
  BY <1>f DEF Since
<1>2. /\ Ents(logs[db.logfile].recs) \subseteq Logged(logs, db.logfile)
      /\ SyncedOf(logs[db.logfile]) \subseteq Durable(logs, db.logfile)
      /\ Ents(logs[db.logfile].recs) \subseteq Logged(logs, vs.log)
  BY <1>1, LogsOne
<1>3. CASE job.kind = "flush"
  <2>1. Holds(tables, vs.live) \subseteq Holds(tables, S) /\ db.imm \subseteq Holds(tables, S)
    BY <1>3, <1>r DEF Holds
  <2> QED
    BY <1>3, <1>r, <1>s, <1>m, <1>2, <2>1
<1>4. CASE job.kind # "flush"
  <2>1. Holds(tables, vs.live) \subseteq Holds(tables, vs.live \ job.ins) \cup Holds(tables, job.ins)
    BY DEF Holds
  <2>2. Holds(tables, vs.live \ job.ins) \subseteq Holds(tables, S) /\ Holds(tables, job.edit.adds) \subseteq Holds(tables, S)
    BY <1>4, <1>r DEF Holds
  <2>3. Holds(tables, vs.live) \subseteq Holds(tables, S)
    BY <1>4, <1>r, <2>1, <2>2
  <2> QED
    BY <1>4, <1>r, <1>s, <1>m, <1>2, <2>3
<1> QED
  BY <1>3, <1>4

\* ldb_versions_apply appends the edit: it is accepted whether a crash leaves it or not.
LEMMA LogEditInv ==
  ASSUME RecInv, LogEdit
  PROVE  RecInv'
<1> DEFINE e == job.edit
           man == manifests[current]
<1>u. /\ pc' = pc /\ bg = "apply" /\ bg' = "sync"
      /\ manifests' = [manifests EXCEPT ![vs.desc] = Write(manifests[vs.desc], job.edit)]
      /\ UNCHANGED <<tables, logs, current, temps, vs, db, job, op, acked, synced, written, doubt>>
  BY DEF LogEdit, BgUnchanged
<1>p. pc \in Using
  BY <1>u, JobInUse
<1>f. UseFacts
  BY <1>p, InUseFacts
<1> USE DEF UseFacts
<1>y. /\ vs.live \subseteq DOMAIN tables /\ (\A t \in DOMAIN tables : t < vs.next)
      /\ DOMAIN tables \subseteq Int /\ vs.next <= vs.next /\ vs.next \in Int
  BY <1>p, TablesBelow
<1>m. /\ DOMAIN manifests' = DOMAIN manifests /\ manifests'[current] = Write(man, e)
      /\ \A m \in DOMAIN manifests : m # current => manifests'[m] = manifests[m]
  BY <1>u, <1>f
<1>e. e \in Edit /\ e.next \in Int
  <2>1. e \in Edit
    BY <1>f DEF JobType
  <2> QED
    BY <2>1 DEF Edit, Number
<1>r. /\ e.next # -1 /\ e.next <= vs.next /\ e.log < e.next
      /\ e.adds \subseteq DOMAIN tables /\ (\A t \in e.adds : t < e.next)
      /\ LastEdit(InUse).next <= e.next
      /\ Promised => e.adds \subseteq WholeOf(tables)
      /\ job.kind = "flush" => e.log = db.logfile
      /\ job.kind # "flush" => e.log = vs.log
  BY <1>u DEF RecInv, JobInv, RecordInv
<1>k. /\ InUse \in Seq(Edit) /\ Ordered(InUse) /\ man.synced \in Nat /\ man.synced <= Len(InUse)
      /\ LastEdit(InUse).next \in Number /\ Len(InUse) \in Nat /\ Len(InUse) > 0
  BY <1>f, UseType, LastOrdered
<1> HIDE DEF e, man
<1>w. /\ Write(man, e).recs = Append(InUse, e) /\ Write(man, e).synced = man.synced
      /\ Write(man, e) = [recs |-> Append(InUse, e), synced |-> man.synced]
  BY DEF Write, InUse, man
<1>i. /\ InUse' = Append(InUse, e) /\ Len(InUse') = Len(InUse) + 1 /\ LastEdit(InUse') = e
      /\ Numbered(InUse') # {} /\ InUse' \in Seq(Edit)
      /\ \A n \in Survivors' : n = Len(InUse) + 1 \/ (n \in Survivors /\ n \in 0..Len(InUse))
  BY <1>u, <1>f, <1>m, <1>e, <1>r, SurvivorsAppend DEF man
<1>o. LiveOf(Append(InUse, e)) = (LiveOf(InUse) \ e.dels) \cup e.adds
  BY <1>e, <1>k, LiveAppend
<1>1. DiskTypes'
  <2>1. Ordered(Append(InUse, e))
    <3>1. Below(InUse, e.next)
      BY <1>f, <1>e, <1>k, <1>r, OrderedBelow
    <3> QED
      BY <1>e, <1>k, <1>r, <3>1, OrderedAppend
  <2>2. Write(man, e) \in ManifestFile /\ Write(man, e).synced <= Len(Write(man, e).recs)
    <3>1. man.synced <= Len(InUse) + 1 /\ Len(Append(InUse, e)) = Len(InUse) + 1 /\ Append(InUse, e) \in Seq(Edit)
      BY <1>e, <1>k
    <3> QED
      BY <1>k, <1>w, <3>1 DEF ManifestFile
  <2>3. \A m \in DOMAIN manifests' : /\ manifests'[m] \in ManifestFile /\ manifests'[m].synced <= Len(manifests'[m].recs)
                                     /\ Ordered(manifests'[m].recs)
    BY <1>f, <1>m, <1>w, <2>1, <2>2 DEF DiskTypes, ManifestsType
  <2> QED
    BY <1>u, <1>f, <1>m, <2>3 DEF DiskTypes, ManifestsType
<1>l. vs.live \subseteq LiveOf(InUse) /\ (~db.err => LiveOf(InUse) = vs.live /\ LastEdit(InUse).log = vs.log)
  BY <1>u, <1>p DEF RecInv, LinkInv
<1>2. Covered'
  <2>1. Promised => Accepted(tables, logs, Append(InUse, e), current, synced)
    <3> SUFFICES ASSUME Promised PROVE Accepted(tables, logs, Append(InUse, e), current, synced)
      OBVIOUS
    <3>1. LiveOf(InUse) \subseteq WholeOf(tables) /\ current < LastEdit(InUse).next
      BY <1>f, UseAccepted DEF Accepted
    <3>2. current < e.next
      <4>1. current \in Int /\ LastEdit(InUse).next \in Int
        BY <1>f, <1>k DEF DiskTypes, Number
      <4> QED
        BY <1>e, <1>r, <3>1, <4>1
    <3>3. (vs.live \ e.dels) \cup e.adds \subseteq LiveOf(Append(InUse, e))
      BY <1>o, <1>l
    <3>4. synced \subseteq Holds(tables, LiveOf(Append(InUse, e))) \cup Durable(logs, e.log)
      BY <1>u, <3>3, EditKeeps DEF e
    <3>5. LiveOf(Append(InUse, e)) \subseteq WholeOf(tables)
      BY <1>o, <1>r, <3>1
    <3> QED
      BY <1>i, <3>2, <3>4, <3>5 DEF Accepted
  <2>2. Promised => acked \subseteq Holds(tables, LiveOf(Append(InUse, e))) \cup Logged(logs, e.log)
    <3> SUFFICES ASSUME Promised
                 PROVE  acked \subseteq Holds(tables, LiveOf(Append(InUse, e))) \cup Logged(logs, e.log)
      OBVIOUS
    <3>1. (vs.live \ e.dels) \cup e.adds \subseteq LiveOf(Append(InUse, e))
      BY <1>o, <1>l
    <3> QED
      BY <1>u, <3>1, EditKeeps DEF e
  <2>3. current \in DOMAIN manifests'
    BY <1>f, <1>m
  <2> QED
    BY <1>u, <1>f, <1>m, <1>e, <1>r, <1>1, <2>1, <2>2, <2>3, CoveredAppend DEF man
<1>3. Repairable' /\ MemoryTypes'
  BY <1>u, <1>f DEF Repairable, MemoryTypes, BgPlaces
<1>4. MemoryInv' /\ ServeInv'
  <2>1. Promised' => Promised
    BY <1>u DEF Promised
  <2>2. \A t \in vs.live : t \in DOMAIN tables' /\ tables'[t] = tables[t]
    BY <1>u, <1>y
  <2> QED
    BY <1>u, <1>p, <1>y, <2>1, <2>2, BgFrame
<1>5. LinkInv'
  <2>1. ASSUME Promised', NEW n \in Survivors' PROVE InUse'[n].log <= db.logfile
    <3>1. CASE n = Len(InUse) + 1
      <4>1. InUse'[n] = e
        BY <1>i, <1>e, <1>k, <3>1
      <4>2. vs.log <= db.logfile /\ db.logfile <= db.logfile
        BY <1>f DEF RecInv, MemoryInv
      <4> QED
        BY <1>r, <4>1, <4>2
    <3>2. CASE n \in Survivors /\ n \in 0..Len(InUse)
      <4>1. Promised
        BY <1>u, <2>1 DEF Promised
      <4>2. n \in 1..Len(InUse)
        BY <1>f, <3>2, <4>1, SurvivorLast
      <4>3. InUse'[n] = InUse[n]
        BY <1>i, <1>e, <1>k, <4>2
      <4> QED
        BY <1>p, <3>2, <4>1, <4>3 DEF RecInv, LinkInv
    <3> QED
      BY <1>i, <3>1, <3>2
  <2>2. /\ LastEdit(InUse') = job.edit
        /\ (vs.live \ job.edit.dels) \cup job.edit.adds \subseteq LiveOf(InUse')
        /\ ~db.err => LiveOf(InUse') = (vs.live \ job.edit.dels) \cup job.edit.adds
    BY <1>i, <1>o, <1>l DEF e
  <2>3. LastEdit(InUse').next <= vs.next
    BY <1>i, <1>r
  <2> QED
    BY <1>u, <1>p, <1>f, <1>m, <1>i, <2>1, <2>2, <2>3 DEF LinkInv, Using, Cleaning
<1>6. KillInv'
  BY <1>u, <1>p DEF KillInv, Using
<1>7. JobInv'
  <2>1. JobShape'
    BY <1>u DEF RecInv, JobInv, JobShape
  <2>2. BuildInv'
    BY <1>u DEF BuildInv
  <2>3. RecordInv'
    <3>1. Promised' <=> Promised
      BY <1>u DEF Promised
    <3> QED
      BY <1>u, <3>1 DEF RecInv, JobInv, RecordInv
  <2> QED
    BY <2>1, <2>2, <2>3 DEF JobInv
<1> QED
  BY <1>u, <1>p, <1>1, <1>2, <1>3, <1>4, <1>5, <1>6, <1>7, AtUse DEF DiskInv

\* ldb_versions_apply syncs the edit: now a crash leaves no shorter manifest.
LEMMA SyncEditInv ==
  ASSUME RecInv, SyncEdit
  PROVE  RecInv'
<1> DEFINE man == manifests[current]
<1>u. /\ pc' = pc /\ bg = "sync" /\ bg' = "install" /\ doubt' = Settled
      /\ manifests' = [manifests EXCEPT ![vs.desc] = Whole(manifests[vs.desc])]
      /\ UNCHANGED <<tables, logs, current, temps, vs, db, job, op, acked, synced, written>>
  BY DEF SyncEdit
<1>p. pc \in Using
  BY <1>u, JobInUse
<1>f. UseFacts
  BY <1>p, InUseFacts
<1> USE DEF UseFacts
<1>y. /\ vs.live \subseteq DOMAIN tables /\ (\A t \in DOMAIN tables : t < vs.next)
      /\ DOMAIN tables \subseteq Int /\ vs.next <= vs.next /\ vs.next \in Int
  BY <1>p, TablesBelow
<1>m. /\ DOMAIN manifests' = DOMAIN manifests /\ manifests'[current] = Whole(man)
      /\ \A m \in DOMAIN manifests : m # current => manifests'[m] = manifests[m]
  BY <1>u, <1>f
<1>k. /\ InUse \in Seq(Edit) /\ Ordered(InUse) /\ Len(InUse) \in Nat /\ Len(InUse) > 0
      /\ LastEdit(InUse) = InUse[Len(InUse)]
  BY <1>f, UseType, LastOrdered
<1> HIDE DEF man
<1>w. /\ Whole(man).recs = InUse /\ Whole(man).synced = Len(InUse)
      /\ Whole(man) = [recs |-> InUse, synced |-> Len(InUse)]
  BY DEF Whole, InUse, man
<1>i. InUse' = InUse /\ manifests'[current'].synced = Len(InUse') /\ (Promised' <=> Promised)
  BY <1>u, <1>m, <1>w DEF InUse, Promised, Settled
<1>1. DiskTypes'
  <2>1. Whole(man) \in ManifestFile /\ Whole(man).synced <= Len(Whole(man).recs)
    BY <1>k, <1>w DEF ManifestFile
  <2>2. \A m \in DOMAIN manifests' : /\ manifests'[m] \in ManifestFile /\ manifests'[m].synced <= Len(manifests'[m].recs)
                                     /\ Ordered(manifests'[m].recs)
    BY <1>f, <1>m, <1>w, <1>k, <2>1 DEF DiskTypes, ManifestsType
  <2> QED
    BY <1>u, <1>f, <1>m, <2>2 DEF DiskTypes, ManifestsType
<1>2. Covered'
  <2>1. Promised' => /\ LiveOf(InUse') \subseteq WholeOf(tables')
                     /\ current' < LastEdit(InUse').next
                     /\ synced' \subseteq Holds(tables', LiveOf(InUse')) \cup Durable(logs', LastEdit(InUse').log)
                     /\ acked' \subseteq Holds(tables', LiveOf(InUse')) \cup Logged(logs', LastEdit(InUse').log)
    <3> SUFFICES ASSUME Promised
                 PROVE  /\ LiveOf(InUse) \subseteq WholeOf(tables)
                        /\ current < LastEdit(InUse).next
                        /\ synced \subseteq Holds(tables, LiveOf(InUse)) \cup Durable(logs, LastEdit(InUse).log)
                        /\ acked \subseteq Holds(tables, LiveOf(InUse)) \cup Logged(logs, LastEdit(InUse).log)
      BY <1>u, <1>i
    <3>1. Accepted(tables, logs, InUse, current, synced)
      BY <1>f, UseAccepted
    <3> QED
      BY <1>f, <3>1 DEF Accepted, Covered
  <2>2. current' # None /\ current' \in DOMAIN manifests' /\ Numbered(InUse') # {}
    BY <1>u, <1>f, <1>m, <1>i
  <2> QED
    BY <1>1, <1>i, <2>1, <2>2, CoveredSwitch
<1>3. Repairable' /\ MemoryTypes'
  BY <1>u, <1>f DEF Repairable, MemoryTypes, BgPlaces, Settled
<1>4. MemoryInv' /\ ServeInv'
  <2>2. \A t \in vs.live : t \in DOMAIN tables' /\ tables'[t] = tables[t]
    BY <1>u, <1>y
  <2> QED
    BY <1>u, <1>p, <1>y, <1>i, <2>2, BgFrame
<1>5. LinkInv'
  <2>0. LinkInv
    BY DEF RecInv
  <2>1. ASSUME Promised', NEW n \in Survivors' PROVE InUse'[n].log <= db.logfile
    <3>1. Promised /\ Len(InUse) \in Survivors
      BY <1>f, <1>i, <2>1, UseAccepted
    <3>2. n = Len(InUse)
      <4>1. \A k \in Int : k > 0 => \A j \in Higher(1, k)..k : j = k
        BY DEF Higher
      <4> QED
        BY <1>i, <1>k, <4>1 DEF Survivors
    <3> QED
      BY <1>p, <1>i, <2>0, <3>1, <3>2 DEF LinkInv
  <2>2. /\ LastEdit(InUse) = job.edit
        /\ (vs.live \ job.edit.dels) \cup job.edit.adds \subseteq LiveOf(InUse)
        /\ ~db.err => LiveOf(InUse) = (vs.live \ job.edit.dels) \cup job.edit.adds
        /\ LastEdit(InUse).next <= vs.next
    BY <1>u, <1>p, <2>0 DEF LinkInv
  <2> QED
    BY <1>u, <1>p, <1>f, <1>m, <1>i, <2>1, <2>2 DEF LinkInv, Using, Cleaning
<1>6. KillInv'
  BY <1>u, <1>p DEF KillInv, Using
<1>7. JobInv'
  <2>1. JobShape'
    BY <1>u DEF RecInv, JobInv, JobShape
  <2>2. BuildInv'
    BY <1>u DEF BuildInv
  <2>3. RecordInv'
    BY <1>u, <1>i DEF RecInv, JobInv, RecordInv
  <2> QED
    BY <2>1, <2>2, <2>3 DEF JobInv
<1> QED
  BY <1>u, <1>p, <1>1, <1>2, <1>3, <1>4, <1>5, <1>6, <1>7, AtUse DEF DiskInv

\* ldb_versions_apply installs the version whose edit is synced.
LEMMA BgInstallInv ==
  ASSUME RecInv, BgInstall
  PROVE  RecInv'
<1> DEFINE e == job.edit
           live == (vs.live \ e.dels) \cup e.adds
<1>u. /\ pc' = pc /\ bg = "install" /\ bg' = (IF job.kind = "move" THEN "idle" ELSE "clean")
      /\ job' = (IF job.kind = "move" THEN NoJob ELSE job)
      /\ vs' = [vs EXCEPT !.live = live, !.log = e.log, !.desc = vs.desc]
      /\ db' = [db EXCEPT !.pending = db.pending \ {job.out},
                          !.imm = IF job.kind = "flush" THEN {} ELSE db.imm,
                          !.has_imm = IF job.kind = "flush" THEN FALSE ELSE db.has_imm]
      /\ UNCHANGED <<tables, logs, manifests, current, temps, op, acked, synced, written, doubt>>
  BY DEF BgInstall, BgUnchanged, disk, Install
<1>p. pc \in Using
  BY <1>u, JobInUse
<1>f. UseFacts
  BY <1>p, InUseFacts
<1> USE DEF UseFacts
<1>y. /\ vs.live \subseteq DOMAIN tables /\ (\A t \in DOMAIN tables : t < vs.next)
      /\ DOMAIN tables \subseteq Int /\ vs.next <= vs.next /\ vs.next \in Int
  BY <1>p, TablesBelow
<1>e. e \in Edit /\ e.log \in Int /\ e.adds \subseteq Number
  <2>1. e \in Edit
    BY <1>f DEF JobType
  <2> QED
    BY <2>1 DEF Edit
<1>r. /\ e.adds \subseteq DOMAIN tables
      /\ Promised => e.adds \subseteq WholeOf(tables)
      /\ job.kind = "flush" => e.log = db.logfile /\ e.dels = {} /\ e.adds \subseteq {job.out}
      /\ job.kind # "flush" => e.log = vs.log
  BY <1>u DEF RecInv, JobInv, RecordInv
<1>s. /\ (job.kind = "flush" => job.ins = {}) /\ Len(job.outer) <= 1 /\ job.kind # "none"
      /\ job.outer # <<>> => /\ job.kind = "flush" /\ Compacting(job.outer[1], vs, db, tables)
                             /\ job.outer[1].out # job.out /\ tables[job.outer[1].out].ents = {}
  BY <1>u DEF RecInv, JobInv, JobShape
<1>l. /\ LastEdit(InUse) = e /\ live \subseteq LiveOf(InUse)
      /\ ~db.err => LiveOf(InUse) = live
      /\ LastEdit(InUse).next <= vs.next
      /\ Promised => \A n \in Survivors : InUse[n].log <= db.logfile
      /\ manifests[current].synced = Len(InUse)
  BY <1>u, <1>p DEF RecInv, LinkInv
<1>k. Promised =>
         /\ synced \subseteq Holds(tables, live) \cup Durable(logs, e.log)
         /\ job.kind = "flush" =>
              /\ acked \cup synced \subseteq db.mem \cup Holds(tables, live)
              /\ synced \subseteq Holds(tables, live) \cup SyncedOf(logs[db.logfile])
         /\ job.kind # "flush" =>
              /\ acked \cup synced \subseteq db.mem \cup db.imm \cup Holds(tables, live)
              /\ synced \subseteq db.imm \cup Holds(tables, live) \cup SyncedOf(logs[db.logfile])
  BY <1>u, EditKeeps
<1>o. /\ live \subseteq DOMAIN tables /\ live \subseteq Number
      /\ Promised => live \subseteq WholeOf(tables)
      /\ job.kind = "flush" => live \subseteq vs.live \cup {job.out} /\ vs.live \subseteq live
  <2>1. Promised => vs.live \subseteq WholeOf(tables)
    BY <1>f DEF RecInv, ServeInv
  <2> QED
    BY <1>f, <1>e, <1>r, <1>y, <2>1
<1> HIDE DEF e, live
<1>v. /\ vs' \in VersionsType /\ vs'.next = vs.next /\ vs'.live = live /\ vs'.log = e.log
      /\ vs'.manifest = vs.manifest /\ vs'.desc = vs.desc
  BY <1>u, <1>f, <1>e, <1>o DEF VersionsType
<1>d. /\ db' \in DbType /\ db'.mem = db.mem /\ db'.logfile = db.logfile /\ db'.err = db.err
      /\ db'.pending = db.pending \ {job.out}
      /\ job.kind = "flush" => db'.imm = {} /\ ~db'.has_imm
      /\ job.kind # "flush" => db'.imm = db.imm /\ db'.has_imm = db.has_imm
  <2>1. {} \in EntrySet
    BY FS_EmptySet DEF EntrySet
  <2>2. db.imm \in EntrySet /\ db.has_imm \in BOOLEAN
    BY <1>f DEF DbType
  <2>3. CASE job.kind = "flush"
    <3>1. db' = [db EXCEPT !.pending = db.pending \ {job.out}, !.imm = {}, !.has_imm = FALSE]
      BY <1>u, <2>3
    <3> QED
      BY <1>f, <2>1, <2>3, <3>1 DEF DbType
  <2>4. CASE job.kind # "flush"
    <3>1. db' = [db EXCEPT !.pending = db.pending \ {job.out}, !.imm = db.imm, !.has_imm = db.has_imm]
      BY <1>u, <2>4
    <3> QED
      BY <1>f, <2>2, <2>4, <3>1 DEF DbType
  <2> QED
    BY <2>3, <2>4
<1>i. InUse' = InUse /\ Survivors' = Survivors /\ (Promised' <=> Promised)
  BY <1>u DEF InUse, Survivors, Promised
<1>w. View' = live /\ pc' \in Serving
  BY <1>u, <1>p, <1>v DEF View, Applying, Using, Serving
<1>1. DiskTypes' /\ Covered' /\ Repairable'
  BY <1>u, <1>p, DiskSame DEF Using, Repairing
<1>2. MemoryTypes'
  BY <1>u, <1>f, <1>v, <1>d, NoTypes DEF MemoryTypes, BgPlaces
<1>3. MemoryInv'
  <2>1. /\ vs.log <= db.logfile /\ (\A l \in DOMAIN logs : l < vs.next)
        /\ db.mem \subseteq Ents(logs[db.logfile].recs)
        /\ db.imm \subseteq Logged(logs, vs.log) /\ (~db.has_imm => db.imm = {})
    BY <1>f DEF RecInv, MemoryInv
  <2>2. e.log <= db.logfile
    BY <1>f, <1>r, <2>1
  <2>3. db'.imm \subseteq Logged(logs, e.log) /\ (~db'.has_imm => db'.imm = {})
    BY <1>r, <1>d, <2>1
  <2> QED
    BY <1>u, <1>p, <1>f, <1>v, <1>d, <1>w, <1>o, <1>y, <2>1, <2>2, <2>3 DEF MemoryInv
<1>4. ServeInv'
  <2>1. Promised => /\ acked \cup synced \subseteq db'.mem \cup db'.imm \cup Holds(tables, live)
                    /\ synced \subseteq db'.imm \cup Holds(tables, live) \cup SyncedOf(logs[db.logfile])
    BY <1>k, <1>d
  <2> QED
    BY <1>u, <1>v, <1>d, <1>w, <1>i, <1>o, <1>k, <2>1 DEF ServeInv
<1>5. LinkInv'
  BY <1>u, <1>p, <1>f, <1>v, <1>d, <1>i, <1>l DEF LinkInv, Using, Cleaning
<1>6. KillInv'
  BY <1>u, <1>p DEF KillInv, Using
<1>7. JobInv'
  <2>1. JobShape'
    <3>1. job.outer # <<>> => Compacting(job.outer[1], vs', db', tables)
      BY <1>s, <1>v, <1>d, <1>o DEF Compacting
    <3> QED
      BY <1>u, <1>p, <1>s, <3>1 DEF JobShape
  <2>2. BuildInv'
    BY <1>u DEF BuildInv
  <2>3. RecordInv'
    BY <1>u DEF RecordInv
  <2> QED
    BY <2>1, <2>2, <2>3 DEF JobInv
<1> QED
  BY <1>u, <1>p, <1>1, <1>2, <1>3, <1>4, <1>5, <1>6, <1>7, AtUse DEF DiskInv

\* A job lists the obsolete files, none of which is needed, and none at all after an error.
LEMMA BgCleanInv ==
  ASSUME RecInv, BgClean
  PROVE  RecInv'
<1>u. /\ pc' = pc /\ bg = "clean" /\ bg' = "kill"
      /\ job' = [job EXCEPT !.kill = IF db.err THEN {} ELSE Obsolete]
      /\ UNCHANGED <<tables, logs, manifests, current, temps, vs, db, op, acked, synced, written, doubt>>
  BY DEF BgClean, BgUnchanged, disk
<1>p. pc \in Using
  BY <1>u, JobInUse
<1>f. UseFacts
  BY <1>p, InUseFacts
<1> USE DEF UseFacts
<1>y. /\ vs.live \subseteq DOMAIN tables /\ (\A t \in DOMAIN tables : t < vs.next)
      /\ DOMAIN tables \subseteq Int /\ vs.next <= vs.next /\ vs.next \in Int
  BY <1>p, TablesBelow
<1>i. InUse' = InUse /\ Survivors' = Survivors /\ (Promised' <=> Promised)
  BY <1>u DEF InUse, Survivors, Promised
<1>o. ~db.err => Obsolete \subseteq FileNames /\ \A f \in Obsolete : Unneeded(f)
  <2>1. ~db.err => LiveOf(InUse) = vs.live /\ LastEdit(InUse).log = vs.log
    BY <1>u, <1>p DEF RecInv, LinkInv
  <2> QED
    BY <1>f, <2>1, ObsoleteUnneeded
<1>j. /\ job' \in JobType /\ job'.kind = job.kind /\ job'.ins = job.ins /\ job'.out = job.out
      /\ job'.outer = job.outer /\ job'.edit = job.edit
      /\ job'.kill = (IF db.err THEN {} ELSE Obsolete)
  <2>1. (IF db.err THEN {} ELSE Obsolete) \in SUBSET FileNames
    BY <1>o
  <2> QED
    BY <1>u, <1>f, <2>1 DEF JobType
<1>1. DiskTypes' /\ Covered' /\ Repairable'
  BY <1>u, <1>p, DiskSame DEF Using, Repairing
<1>2. MemoryTypes'
  BY <1>u, <1>f, <1>j DEF MemoryTypes, BgPlaces
<1>3. MemoryInv' /\ ServeInv'
  <2>2. \A t \in vs.live : t \in DOMAIN tables' /\ tables'[t] = tables[t]
    BY <1>u, <1>y
  <2> QED
    BY <1>u, <1>p, <1>y, <1>i, <2>2, BgFrame
<1>4. LinkInv'
  <2>1. LinkInv
    BY DEF RecInv
  <2> QED
    BY <1>u, <1>p, <1>i, <2>1 DEF LinkInv, Using, Cleaning
<1>5. KillInv'
  <2>1. \A f : Unneeded(f)' <=> Unneeded(f)
    BY <1>u, <1>i DEF Unneeded
  <2> QED
    BY <1>u, <1>p, <1>j, <1>o, <2>1 DEF KillInv, Using
<1>6. JobInv'
  <2>1. JobShape'
    BY <1>u, <1>j DEF RecInv, JobInv, JobShape
  <2>2. BuildInv' /\ RecordInv'
    BY <1>u DEF BuildInv, RecordInv
  <2> QED
    BY <2>1, <2>2 DEF JobInv
<1> QED
  BY <1>u, <1>p, <1>1, <1>2, <1>3, <1>4, <1>5, <1>6, AtUse DEF DiskInv

\* A job removes one of them.
LEMMA BgRemoveInv ==
  ASSUME RecInv, BgRemove
  PROVE  RecInv'
<1>u. /\ pc' = pc /\ bg = "kill"
      /\ UNCHANGED <<current, vs, db, bg, op, acked, synced, written, doubt>>
  BY DEF BgRemove, BgUnchanged
<1>p. pc \in Using
  BY <1>u, JobInUse
<1>f. UseFacts
  BY <1>p, InUseFacts
<1> USE DEF UseFacts
<1>g. PICK f \in job.kill : RemoveFiles({f}) /\ job' = [job EXCEPT !.kill = job.kill \ {f}]
  BY DEF BgRemove
<1>k. (\A g \in job.kill : Unneeded(g)) /\ f \in FileNames
  BY <1>u, <1>f, <1>g DEF RecInv, KillInv, JobType
<1>j. /\ job' \in JobType /\ job'.kind = job.kind /\ job'.ins = job.ins /\ job'.out = job.out
      /\ job'.outer = job.outer /\ job'.edit = job.edit /\ job'.kill = job.kill \ {f}
  BY <1>f, <1>g DEF JobType
<1>1. /\ DiskTypes' /\ Covered' /\ Repairable' /\ MemoryInv' /\ ServeInv' /\ LinkInv' /\ InUse' = InUse
      /\ \A t \in vs.live \cup db.pending : t \in DOMAIN tables => t \in DOMAIN tables' /\ tables'[t] = tables[t]
  BY <1>u, <1>p, <1>g, <1>k, RemoveOne
<1>2. MemoryTypes'
  BY <1>u, <1>f, <1>j DEF MemoryTypes
<1>3. KillInv'
  <2>1. \A g : Unneeded(g)' <=> Unneeded(g)
    BY <1>u, <1>1 DEF Unneeded
  <2> QED
    BY <1>u, <1>p, <1>j, <1>k, <2>1 DEF KillInv, Using
<1>4. JobInv'
  <2>0. /\ (job.kind = "flush" => job.ins = {}) /\ Len(job.outer) <= 1 /\ job.kind # "none" /\ job.kind # "move"
        /\ job.outer # <<>> => /\ job.kind = "flush" /\ Compacting(job.outer[1], vs, db, tables)
                               /\ job.outer[1].out # job.out /\ tables[job.outer[1].out].ents = {}
    BY <1>u DEF RecInv, JobInv, JobShape
  <2>1. JobShape'
    <3>1. job.outer # <<>> => Compacting(job.outer[1], vs, db, tables') /\ tables'[job.outer[1].out].ents = {}
      BY <1>1, <2>0 DEF Compacting
    <3> QED
      BY <1>u, <1>p, <1>j, <2>0, <3>1 DEF JobShape
  <2>2. BuildInv' /\ RecordInv'
    BY <1>u DEF BuildInv, RecordInv
  <2> QED
    BY <2>1, <2>2 DEF JobInv
<1> QED
  BY <1>u, <1>p, <1>1, <1>2, <1>3, <1>4, AtUse DEF DiskInv

----------------------------------------------------------------------------
(* ldb_repair                                                              *)

\* The highest sequence number among finitely many entries.
LEMMA MaxEntry ==
  ASSUME NEW E \in EntrySet
  PROVE  Max({0} \cup {e.seq : e \in E}) \in Int
<1> DEFINE f == [e \in E |-> e.seq]
           T == {e.seq : e \in E}
<1>1. f \in Surjection(E, T)
  BY DEF Surjection
<1>2. IsFiniteSet(E) /\ E \subseteq LogEntry
  BY DEF EntrySet
<1>3. T \subseteq Int
  BY <1>2 DEF LogEntry
<1> HIDE DEF f, T
<1>4. IsFiniteSet(T)
  BY <1>1, <1>2, FS_Surjection
<1>5. IsFiniteSet({0} \cup T) /\ {0} \cup T \in SUBSET Int /\ {0} \cup T # {}
  <2>1. {0} \cup T = T \cup {0}
    OBVIOUS
  <2>2. IsFiniteSet(T \cup {0})
    BY <1>4, FS_AddElement
  <2> QED
    BY <1>3, <2>1, <2>2
<1>6. Max({0} \cup T) \in {0} \cup T
  BY <1>5, MaxProps
<1> QED
  BY <1>5, <1>6 DEF T

\* Everything is in the logs from the first on.
LEMMA FromFirst ==
  ASSUME NEW ls, LogsType(ls), NEW n
  PROVE  Logged(ls, n) \subseteq Logged(ls, 0) /\ Durable(ls, n) \subseteq Durable(ls, 0)
<1>1. Since(ls, n) \subseteq Since(ls, 0)
  BY DEF Since, LogsType, Number
<1> QED
  BY <1>1 DEF Logged, Durable

\* As long as the promises hold, whole tables and logs have everything there is to save.
LEMMA NothingLost ==
  ASSUME DiskTypes, Covered, Promised
  PROVE  /\ acked \subseteq Holds(tables, WholeOf(tables)) \cup Logged(logs, 0)
         /\ synced \subseteq Holds(tables, WholeOf(tables)) \cup Durable(logs, 0)
<1>1. CASE current = None
  BY <1>1 DEF Covered
<1>2. CASE current # None
  <2>1. Accepted(tables, logs, InUse, current, synced)
    BY <1>2, UseAccepted
  <2>2. acked \subseteq Holds(tables, LiveOf(InUse)) \cup Logged(logs, LastEdit(InUse).log)
    BY <1>2 DEF Covered
  <2>3. Holds(tables, LiveOf(InUse)) \subseteq Holds(tables, WholeOf(tables))
    BY <2>1 DEF Accepted, Holds
  <2>4. /\ Logged(logs, LastEdit(InUse).log) \subseteq Logged(logs, 0)
        /\ Durable(logs, LastEdit(InUse).log) \subseteq Durable(logs, 0)
    BY FromFirst DEF DiskTypes
  <2> QED
    BY <2>1, <2>2, <2>3, <2>4 DEF Accepted
<1> QED
  BY <1>1, <1>2

\* ldb_repair lists the files.
LEMMA RepairStartInv ==
  ASSUME RecInv, RepairStart
  PROVE  RecInv'
<1> DEFINE N == {0} \cup DOMAIN logs \cup DOMAIN tables \cup temps
<1>u. /\ pc = "down" /\ pc' = "rep_logs" /\ doubt' = (IF doubt = "lost" THEN "lost" ELSE "repair")
      /\ op' = [NoOp EXCEPT !.logs = DOMAIN logs, !.good = DOMAIN tables,
                  !.mans = DOMAIN manifests, !.next = 1 + Max(N)]
      /\ acked' = acked \ Doubtful /\ synced' = synced \ Doubtful
      /\ UNCHANGED <<tables, manifests, current, temps, vs, db, bg, job, written>>
  BY DEF RepairStart
<1>t. DiskTypes /\ MemoryTypes /\ Covered /\ Repairable
  BY DEF RecInv
<1>c. PICK c \in Losses("log", logs) : logs' = ReadBack("log", logs, c)
  BY DEF RepairStart
<1>l. /\ LogsType(logs') /\ DOMAIN logs' = DOMAIN logs
      /\ Logged(logs, 0) \ Doubtful \subseteq Logged(logs', 0)
      /\ Durable(logs, 0) \ Doubtful \subseteq Durable(logs', 0)
  BY <1>t, <1>c, LogsReadBack DEF DiskTypes
<1>b. bg' = "idle" /\ job' = NoJob
  BY <1>u, BgRests DEF Using
<1>n. /\ Max(N) \in Nat /\ \A t \in DOMAIN tables : t < 1 + Max(N)
  <2>1. IsFiniteSet(N)
    <3>1. IsFiniteSet(DOMAIN logs) /\ IsFiniteSet(DOMAIN tables) /\ IsFiniteSet(temps)
      BY <1>t DEF DiskTypes, LogsType, TablesType
    <3>2. IsFiniteSet({0} \cup DOMAIN logs)
      BY <3>1, FS_Singleton, FS_Union
    <3>3. IsFiniteSet(({0} \cup DOMAIN logs) \cup DOMAIN tables)
      BY <3>1, <3>2, FS_Union
    <3>4. IsFiniteSet((({0} \cup DOMAIN logs) \cup DOMAIN tables) \cup temps)
      BY <3>1, <3>3, FS_Union
    <3> QED
      BY <3>4
  <2>2. N \in SUBSET Nat /\ 0 \in N /\ DOMAIN tables \subseteq N
    <3>1. DOMAIN logs \subseteq Nat /\ DOMAIN tables \subseteq Nat /\ temps \subseteq Nat
      BY <1>t DEF DiskTypes, LogsType, TablesType, Number
    <3>2. {0} \subseteq Nat /\ 0 \in N /\ DOMAIN tables \subseteq N
      OBVIOUS
    <3>3. N \subseteq Nat
      BY <3>1, <3>2, Zenon
    <3> QED
      BY <3>2, <3>3
  <2> HIDE DEF N
  <2>3. Max(N) \in N /\ \A x \in N : Max(N) >= x
    BY <2>1, <2>2, MaxProps
  <2>4. \A x \in N : x < 1 + Max(N)
    <3>1. \A x, m \in Nat : m >= x => x < 1 + m
      OBVIOUS
    <3> QED
      BY <2>2, <2>3, <3>1
  <2> QED
    BY <2>2, <2>3, <2>4
<1> HIDE DEF N
<1>o. /\ op' \in OpType /\ op'.good = DOMAIN tables /\ op'.next = 1 + Max(N) /\ op'.logs = DOMAIN logs
  <2>1. NoOp \in OpType
    BY NoTypes
  <2>2. DOMAIN logs \subseteq Number /\ DOMAIN tables \subseteq Number /\ DOMAIN manifests \subseteq Number
    BY <1>t DEF DiskTypes, LogsType, TablesType, ManifestsType
  <2>3. 1 + Max(N) \in Nat
    BY <1>n
  <2>4. op' \in OpType
    BY <1>u, <2>1, <2>2, <2>3 DEF OpType
  <2> QED
    BY <1>u, <2>4 DEF NoOp
<1>1. DiskTypes' /\ MemoryTypes' /\ Covered'
  BY <1>u, <1>t, <1>l, <1>o DEF DiskTypes, MemoryTypes, Covered, Promised, Repairing
<1>2. Repairable'
  <2> SUFFICES ASSUME doubt # "lost"
               PROVE  /\ acked \subseteq Holds(tables, WholeOf(tables)) \cup Logged(logs, 0)
                      /\ synced \subseteq Holds(tables, WholeOf(tables)) \cup Durable(logs, 0)
    BY <1>u, <1>l DEF Repairable, Repairing
  <2>1. CASE doubt = "repair"
    BY <1>t, <2>1 DEF Repairable
  <2>2. CASE Promised
    BY <1>t, <2>2, NothingLost
  <2> QED
    BY <1>t, <2>1, <2>2 DEF MemoryTypes, Promised
<1>3. RepairInv'
  <2>1. 1 + Max(N) > 0
    BY <1>n
  <2> QED
    BY <1>u, <1>l, <1>n, <1>o, <2>1 DEF RepairInv, Repairing
<1> QED
  BY <1>u, <1>b, <1>1, <1>2, <1>3, AtRepair DEF DiskInv, Repairing

\* What is known while ldb_repair runs, and what is left to show of its steps.
RepairFacts ==
  /\ DiskTypes /\ MemoryTypes /\ Repairable /\ op \in OpType /\ op.next \in Nat /\ op.log \in Nat
  /\ op.good = DOMAIN tables /\ op.next > 0 /\ (\A t \in DOMAIN tables : t < op.next)
  /\ DOMAIN tables \subseteq Number /\ op.edit \in Edit

\* The parts of the invariant that the steps of ldb_repair use.
LEMMA InRepair ==
  ASSUME RecInv, pc \in Repairing
  PROVE  RepairFacts
<1>1. DiskTypes /\ MemoryTypes /\ Repairable /\ op \in OpType
  BY DEF RecInv, MemoryTypes
<1>2. op.next \in Nat /\ op.log \in Nat /\ op.edit \in Edit
  BY <1>1 DEF OpType
<1>3. DOMAIN tables \subseteq Number
  BY <1>1 DEF DiskTypes, TablesType
<1>4. op.good = DOMAIN tables /\ op.next > 0 /\ (\A t \in DOMAIN tables : t < op.next)
  BY DEF RecInv, RepairInv
<1> QED
  BY <1>1, <1>2, <1>3, <1>4 DEF RepairFacts

\* A step of ldb_repair keeps the invariant if what it must save is still in a table or a log.
LEMMA RepairFrame ==
  ASSUME RecInv, pc \in Repairing, pc' \in Repairing, RepUnchanged, doubt' \in {doubt, "lost"},
         DiskTypes', op' \in OpType, RepairInv',
         doubt' = "repair" =>
           /\ acked \subseteq Holds(tables', WholeOf(tables')) \cup Logged(logs', 0)
           /\ synced \subseteq Holds(tables', WholeOf(tables')) \cup Durable(logs', 0)
  PROVE  RecInv'
<1>1. doubt \in {"repair", "lost"} /\ bg = "idle" /\ job = NoJob /\ MemoryTypes
  <2>1. pc \notin Using
    BY DEF Using, Repairing
  <2> QED
    BY <2>1, BgRests DEF RecInv, RepairInv
<1>2. Covered' /\ Repairable'
  BY <1>1 DEF Covered, Promised, Repairable, RepUnchanged
<1>3. MemoryTypes'
  BY <1>1 DEF MemoryTypes, RepUnchanged
<1> QED
  BY <1>1, <1>2, <1>3, AtRepair DEF DiskInv, RepUnchanged

\* ldb_repair writes what a log has to a table.
LEMMA RepairConvertInv ==
  ASSUME RecInv, NEW l, RepairConvert(l)
  PROVE  RecInv'
<1> DEFINE ents == Ents(logs[l].recs)
<1>u. /\ pc = "rep_logs" /\ pc' = "rep_arch" /\ l \in op.logs
      /\ tables' = (IF ents = {} THEN tables ELSE Put(tables, op.next, Table(ents)))
      /\ op' = [op EXCEPT !.logs = op.logs \ {l}, !.log = l, !.next = op.next + 1,
                          !.good = IF ents = {} THEN op.good ELSE op.good \cup {op.next}]
      /\ RepUnchanged /\ UNCHANGED <<logs, manifests, current, temps, doubt>>
  BY DEF RepairConvert
<1>p. pc \in Repairing /\ pc' \in Repairing
  BY <1>u DEF Repairing
<1>f. RepairFacts
  BY <1>p, InRepair
<1> USE DEF RepairFacts
<1>l. DOMAIN logs = op.logs /\ l \in DOMAIN logs /\ l \in Number /\ logs[l] \in LogFile
  BY <1>u, <1>f DEF RecInv, RepairInv, Repairing, DiskTypes, LogsType
<1>e. ents \in EntrySet
  <2>1. logs[l].recs \in Seq(LogEntry)
    BY <1>l DEF LogFile
  <2> QED
    BY <2>1, EntsFinite
<1>n. /\ op.next + 1 \in Nat /\ op.next + 1 > 0 /\ op.next < op.next + 1 /\ op.next \in Number
      /\ (\A t \in DOMAIN tables : t < op.next + 1) /\ op.next \notin DOMAIN tables
  <2>1. \A k \in Int : k < op.next => k < op.next + 1
    BY <1>f
  <2>2. op.next + 1 \in Nat /\ op.next + 1 > 0 /\ op.next < op.next + 1 /\ op.next \in Number
        /\ ~(op.next < op.next)
    BY <1>f DEF Number
  <2> QED
    BY <1>f, <2>1, <2>2 DEF Number
<1> HIDE DEF ents
<1>t. /\ \A t \in DOMAIN tables : t \in DOMAIN tables' /\ tables'[t] = tables[t]
      /\ ents = {} => tables' = tables
      /\ ents # {} => /\ DOMAIN tables' = DOMAIN tables \cup {op.next}
                      /\ tables'[op.next] = Table(ents)
  BY <1>u, <1>n DEF Put
<1>o. /\ op' \in OpType /\ op'.logs = op.logs \ {l} /\ op'.log = l /\ op'.next = op.next + 1
      /\ op'.good = DOMAIN tables'
  <2>1. op'.logs = op.logs \ {l} /\ op'.log = l /\ op'.next = op.next + 1
        /\ op'.good = (IF ents = {} THEN op.good ELSE op.good \cup {op.next})
    BY <1>u, <1>f DEF OpType
  <2>2. (IF ents = {} THEN op.good ELSE op.good \cup {op.next}) \in SUBSET Number
    BY <1>f, <1>n DEF Number
  <2>3. op.logs \ {l} \in SUBSET Number /\ l \in Nat
    BY <1>f, <1>l DEF OpType, Number
  <2>4. op' \in OpType
    BY <1>u, <1>f, <1>n, <2>2, <2>3 DEF OpType
  <2> QED
    BY <1>f, <1>t, <2>1, <2>4
<1>1. DiskTypes'
  <2>1. TablesType(tables')
    <3>1. CASE ents = {}
      BY <1>f, <1>t, <3>1 DEF DiskTypes
    <3>2. CASE ents # {}
      <4>1. Table(ents) \in TableFile /\ Table(ents).ents = ents
        BY <1>e DEF Table, TableFile
      <4> QED
        BY <1>u, <1>f, <1>n, <3>2, <4>1, TablePut DEF DiskTypes
    <3> QED
      BY <3>1, <3>2
  <2> QED
    BY <1>u, <1>f, <2>1 DEF DiskTypes
<1>2. /\ Holds(tables, WholeOf(tables)) \subseteq Holds(tables', WholeOf(tables'))
      /\ ents \subseteq Holds(tables', WholeOf(tables'))
  <2>1. WholeOf(tables) \subseteq WholeOf(tables') /\ \A t \in WholeOf(tables) : tables'[t] = tables[t]
    BY <1>t DEF WholeOf
  <2>2. ents # {} => op.next \in WholeOf(tables') /\ tables'[op.next].ents = ents
    <3>1. Table(ents).ents = ents /\ Table(ents).whole
      BY DEF Table
    <3> QED
      BY <1>t, <3>1 DEF WholeOf
  <2> QED
    BY <2>1, <2>2 DEF Holds
<1>3. RepairInv'
  <2>1. \A t \in DOMAIN tables' : t < op.next + 1
    BY <1>t, <1>n
  <2>2. DOMAIN logs' = op'.logs \cup {op'.log} /\ op'.log \notin op'.logs
    BY <1>u, <1>l, <1>o
  <2>3. Ents(logs'[op'.log].recs) \subseteq Holds(tables', WholeOf(tables'))
    BY <1>u, <1>o, <1>2 DEF ents
  <2>4. doubt' \in {"repair", "lost"}
    BY <1>u, <1>p DEF RecInv, RepairInv
  <2> QED
    BY <1>u, <1>n, <1>o, <2>1, <2>2, <2>3, <2>4 DEF RepairInv
<1>4. doubt = "repair" =>
        /\ acked \subseteq Holds(tables', WholeOf(tables')) \cup Logged(logs', 0)
        /\ synced \subseteq Holds(tables', WholeOf(tables')) \cup Durable(logs', 0)
  BY <1>u, <1>f, <1>2 DEF Repairable
<1> QED
  BY <1>u, <1>p, <1>o, <1>1, <1>3, <1>4, RepairFrame

\* ldb_repair fails to write it, and gives the log up if there was something in it.
LEMMA RepairConvertFailsInv ==
  ASSUME RecInv, NEW l, RepairConvertFails(l)
  PROVE  RecInv'
<1>u. /\ pc = "rep_logs" /\ pc' = "rep_arch" /\ l \in op.logs
      /\ \E n \in {op.next, op.next + 1} : op' = [op EXCEPT !.logs = op.logs \ {l}, !.log = l, !.next = n]
      /\ doubt' = (IF logs[l].recs = <<>> THEN doubt ELSE "lost")
      /\ RepUnchanged /\ UNCHANGED <<tables, logs, manifests, current, temps>>
  BY DEF RepairConvertFails, disk
<1>p. pc \in Repairing /\ pc' \in Repairing
  BY <1>u DEF Repairing
<1>f. RepairFacts
  BY <1>p, InRepair
<1> USE DEF RepairFacts
<1>l. DOMAIN logs = op.logs /\ l \in DOMAIN logs /\ l \in Number /\ doubt \in {"repair", "lost"}
  BY <1>u, <1>p, <1>f DEF RecInv, RepairInv, DiskTypes, LogsType
<1>n. PICK n \in {op.next, op.next + 1} : op' = [op EXCEPT !.logs = op.logs \ {l}, !.log = l, !.next = n]
  BY <1>u
<1>o. /\ op' \in OpType /\ op'.logs = op.logs \ {l} /\ op'.log = l /\ op'.next = n /\ op'.good = op.good
      /\ n \in Nat /\ n > 0 /\ \A t \in DOMAIN tables : t < n
  <2>1. n \in Nat /\ n > 0 /\ \A k \in Int : k < op.next => k < n
    BY <1>f
  <2>2. \A t \in DOMAIN tables : t < n
    BY <1>f, <2>1 DEF Number
  <2>3. op.logs \ {l} \in SUBSET Number /\ l \in Nat
    BY <1>f, <1>l DEF OpType, Number
  <2>4. op' \in OpType
    BY <1>n, <1>f, <2>1, <2>3 DEF OpType
  <2> QED
    BY <1>n, <1>f, <2>1, <2>2, <2>4 DEF OpType
<1>1. DiskTypes'
  BY <1>u, <1>f DEF DiskTypes
<1>2. RepairInv'
  <2>1. doubt' = "repair" => Ents(logs[l].recs) = {}
    BY <1>u DEF Ents
  <2> QED
    BY <1>u, <1>f, <1>l, <1>o, <2>1 DEF RepairInv
<1>3. doubt' = "repair" =>
        /\ acked \subseteq Holds(tables', WholeOf(tables')) \cup Logged(logs', 0)
        /\ synced \subseteq Holds(tables', WholeOf(tables')) \cup Durable(logs', 0)
  BY <1>u, <1>f DEF Repairable
<1> QED
  BY <1>u, <1>p, <1>o, <1>1, <1>2, <1>3, RepairFrame

\* ldb_repair moves the log away, which its table now replaces.
LEMMA RepairArchiveInv ==
  ASSUME RecInv, RepairArchive
  PROVE  RecInv'
<1>u. /\ pc = "rep_arch" /\ pc' = "rep_logs" /\ logs' = Drop(logs, {op.log})
      /\ RepUnchanged /\ UNCHANGED <<tables, manifests, current, temps, op, doubt>>
  BY DEF RepairArchive
<1>p. pc \in Repairing /\ pc' \in Repairing
  BY <1>u DEF Repairing
<1>f. RepairFacts
  BY <1>p, InRepair
<1> USE DEF RepairFacts
<1>r. /\ DOMAIN logs = op.logs \cup {op.log} /\ op.log \notin op.logs
      /\ doubt = "repair" => Ents(logs[op.log].recs) \subseteq Holds(tables, WholeOf(tables))
      /\ doubt \in {"repair", "lost"}
  BY <1>u, <1>p DEF RecInv, RepairInv
<1>l. DOMAIN logs' = op.logs /\ \A l \in op.logs : logs'[l] = logs[l]
  BY <1>u, <1>r DEF Drop, Restrict
<1>1. DiskTypes'
  <2>1. LogsType(logs')
    BY <1>u, <1>f, LogDrop DEF DiskTypes
  <2> QED
    BY <1>u, <1>f, <2>1 DEF DiskTypes
<1>2. RepairInv'
  BY <1>u, <1>f, <1>l, <1>r DEF RepairInv
<1>3. /\ Logged(logs, 0) \subseteq Logged(logs', 0) \cup Ents(logs[op.log].recs)
      /\ Durable(logs, 0) \subseteq Durable(logs', 0) \cup Ents(logs[op.log].recs)
  <2>1. \A l \in Since(logs, 0) : l = op.log \/ (l \in Since(logs', 0) /\ logs'[l] = logs[l])
    BY <1>l, <1>r DEF Since
  <2>2. SyncedOf(logs[op.log]) \subseteq Ents(logs[op.log].recs)
    BY <1>f, <1>r, SyncedLogged DEF DiskTypes
  <2> QED
    BY <2>1, <2>2 DEF Logged, Durable
<1>4. doubt = "repair" =>
        /\ acked \subseteq Holds(tables', WholeOf(tables')) \cup Logged(logs', 0)
        /\ synced \subseteq Holds(tables', WholeOf(tables')) \cup Durable(logs', 0)
  BY <1>u, <1>f, <1>r, <1>3 DEF Repairable
<1> QED
  BY <1>u, <1>p, <1>f, <1>1, <1>2, <1>4, RepairFrame

\* ldb_repair drops the tables it cannot read.
LEMMA RepairScanInv ==
  ASSUME RecInv, RepairScan
  PROVE  RecInv'
<1> DEFINE good == op.good \ Unreadable
           max == Max({0} \cup {e.seq : e \in UNION {tables[t].ents : t \in good}})
<1>u. /\ pc = "rep_logs" /\ pc' = "rep_desc" /\ op.logs = {} /\ tables' = Drop(tables, Unreadable)
      /\ op' = [op EXCEPT !.good = good, !.max = max]
      /\ RepUnchanged /\ UNCHANGED <<logs, manifests, current, temps, doubt>>
  BY DEF RepairScan
<1>p. pc \in Repairing /\ pc' \in Repairing
  BY <1>u DEF Repairing
<1>f. RepairFacts
  BY <1>p, InRepair
<1> USE DEF RepairFacts
<1>g. good = WholeOf(tables) /\ good \subseteq DOMAIN tables
  BY <1>f DEF Unreadable, WholeOf
<1>m. max \in Int
  <2>1. Holds(tables, good) \in EntrySet
    BY <1>f, <1>g, HoldsFinite DEF DiskTypes
  <2>2. Max({0} \cup {e.seq : e \in Holds(tables, good)}) \in Int
    BY <2>1, MaxEntry
  <2> QED
    BY <2>2 DEF Holds
<1>t. DOMAIN tables' = good /\ (\A t \in good : tables'[t] = tables[t]) /\ WholeOf(tables') = good
  <2>1. DOMAIN tables' = good /\ (\A t \in good : tables'[t] = tables[t])
    BY <1>u, <1>f DEF Drop, Restrict
  <2> QED
    BY <1>g, <2>1 DEF WholeOf
<1> HIDE DEF good, max
<1>o. op' \in OpType /\ op'.good = good /\ op'.next = op.next
  <2>1. good \in SUBSET Number
    BY <1>f, <1>g
  <2> QED
    BY <1>u, <1>f, <1>m, <2>1 DEF OpType
<1>1. DiskTypes'
  <2>1. TablesType(tables')
    BY <1>u, <1>f, TableDrop DEF DiskTypes
  <2> QED
    BY <1>u, <1>f, <2>1 DEF DiskTypes
<1>2. RepairInv'
  <2>1. DOMAIN logs = {} /\ doubt \in {"repair", "lost"}
    BY <1>u, <1>p DEF RecInv, RepairInv
  <2> QED
    BY <1>u, <1>f, <1>g, <1>t, <1>o, <2>1 DEF RepairInv
<1>3. Holds(tables', WholeOf(tables')) = Holds(tables, WholeOf(tables))
  BY <1>g, <1>t DEF Holds
<1>4. doubt = "repair" =>
        /\ acked \subseteq Holds(tables', WholeOf(tables')) \cup Logged(logs', 0)
        /\ synced \subseteq Holds(tables', WholeOf(tables')) \cup Durable(logs', 0)
  BY <1>u, <1>f, <1>3 DEF Repairable
<1> QED
  BY <1>u, <1>p, <1>o, <1>1, <1>2, <1>4, RepairFrame

\* ldb_repair writes the new manifest to a temporary file.
LEMMA RepairDescriptorInv ==
  ASSUME RecInv, RepairDescriptor
  PROVE  RecInv'
<1> DEFINE e == [adds |-> op.good, dels |-> {}, log |-> 0, next |-> op.next, seq |-> op.max]
<1>u. /\ pc = "rep_desc" /\ pc' = "rep_mans" /\ temps' = temps \cup {1}
      /\ op' = [op EXCEPT !.names = 1, !.edit = e]
      /\ RepUnchanged /\ UNCHANGED <<tables, logs, manifests, current, doubt>>
  BY DEF RepairDescriptor
<1>p. pc \in Repairing /\ pc' \in Repairing
  BY <1>u DEF Repairing
<1>f. RepairFacts
  BY <1>p, InRepair
<1> USE DEF RepairFacts
<1>e. e \in Edit /\ e.adds = op.good /\ e.dels = {} /\ e.log = 0 /\ e.next = op.next
  <2>1. op.max \in Int /\ op.next \in Number
    BY <1>f DEF OpType, Number
  <2> QED
    BY <1>f, <2>1 DEF Edit
<1> HIDE DEF e
<1>o. op' \in OpType /\ op'.good = op.good /\ op'.next = op.next /\ op'.edit = e /\ op'.names = 1
  BY <1>u, <1>f, <1>e DEF OpType
<1>1. DiskTypes'
  <2>1. temps' \subseteq Number /\ IsFiniteSet(temps')
    BY <1>u, <1>f, FS_AddElement DEF DiskTypes, Number
  <2> QED
    BY <1>u, <1>f, <2>1 DEF DiskTypes
<1>2. RepairInv'
  BY <1>u, <1>e, <1>o DEF RecInv, RepairInv, Repairing
<1>4. doubt = "repair" =>
        /\ acked \subseteq Holds(tables', WholeOf(tables')) \cup Logged(logs', 0)
        /\ synced \subseteq Holds(tables', WholeOf(tables')) \cup Durable(logs', 0)
  BY <1>u, <1>f DEF Repairable
<1> QED
  BY <1>u, <1>p, <1>o, <1>1, <1>2, <1>4, RepairFrame

\* ldb_repair moves an old manifest away.
LEMMA RepairDiscardInv ==
  ASSUME RecInv, NEW m, RepairDiscard(m)
  PROVE  RecInv'
<1>u. /\ pc = "rep_mans" /\ pc' = pc /\ manifests' = Drop(manifests, {m})
      /\ op' = [op EXCEPT !.mans = op.mans \ {m}]
      /\ RepUnchanged /\ UNCHANGED <<tables, logs, current, temps, doubt>>
  BY DEF RepairDiscard
<1>p. pc \in Repairing /\ pc' \in Repairing
  BY <1>u DEF Repairing
<1>f. RepairFacts
  BY <1>p, InRepair
<1> USE DEF RepairFacts
<1>o. op' \in OpType /\ op'.good = op.good /\ op'.next = op.next /\ op'.edit = op.edit /\ op'.names = op.names
  BY <1>u, <1>f DEF OpType
<1>1. DiskTypes'
  <2>1. ManifestsType(manifests')
    BY <1>u, <1>f, ManifestDrop DEF DiskTypes
  <2> QED
    BY <1>u, <1>f, <2>1 DEF DiskTypes
<1>2. RepairInv'
  BY <1>u, <1>o DEF RecInv, RepairInv, Repairing
<1>4. doubt = "repair" =>
        /\ acked \subseteq Holds(tables', WholeOf(tables')) \cup Logged(logs', 0)
        /\ synced \subseteq Holds(tables', WholeOf(tables')) \cup Durable(logs', 0)
  BY <1>u, <1>f DEF Repairable
<1> QED
  BY <1>u, <1>p, <1>o, <1>1, <1>2, <1>4, RepairFrame

\* ldb_repair renames the new manifest into place.
LEMMA RepairInstallInv ==
  ASSUME RecInv, RepairInstall
  PROVE  RecInv'
<1> DEFINE v == [recs |-> <<op.edit>>, synced |-> 0]
<1>u. /\ pc = "rep_mans" /\ pc' = "rep_temp" /\ manifests' = Put(manifests, 1, v)
      /\ temps' = temps \ {1}
      /\ RepUnchanged /\ UNCHANGED <<tables, logs, current, op, doubt>>
  BY DEF RepairInstall
<1>p. pc \in Repairing /\ pc' \in Repairing
  BY <1>u DEF Repairing
<1>f. RepairFacts
  BY <1>p, InRepair
<1> USE DEF RepairFacts
<1>r. /\ op.names = 1 /\ op.edit.adds = op.good /\ op.edit.dels = {} /\ op.edit.log = 0
      /\ op.edit.next = op.next
  BY <1>u, <1>p DEF RecInv, RepairInv
<1>v. v \in ManifestFile /\ v.synced <= Len(v.recs) /\ Ordered(v.recs) /\ v.recs = <<op.edit>>
  <2>1. <<op.edit>> \in Seq(Edit) /\ Len(<<op.edit>>) = 1
    BY <1>f, SingleEdit
  <2>2. Ordered(<<op.edit>>)
    <3>1. op.edit.log < op.edit.next /\ \A t \in op.edit.adds : t < op.edit.next
      BY <1>f, <1>r
    <3> QED
      BY <1>f, <3>1, SingleEdit
  <2> QED
    BY <2>1, <2>2 DEF ManifestFile
<1> HIDE DEF v
<1>m. 1 \in DOMAIN manifests' /\ manifests'[1] = v /\ 1 \in Number
  BY <1>u DEF Put, Number
<1>1. DiskTypes'
  <2>1. ManifestsType(manifests')
    BY <1>u, <1>f, <1>v, <1>m, ManifestPut DEF DiskTypes
  <2>2. temps' \subseteq Number /\ IsFiniteSet(temps')
    BY <1>u, <1>f, FS_Subset DEF DiskTypes
  <2> QED
    BY <1>u, <1>f, <2>1, <2>2 DEF DiskTypes
<1>2. RepairInv'
  BY <1>u, <1>m, <1>v DEF RecInv, RepairInv, Repairing
<1>4. doubt = "repair" =>
        /\ acked \subseteq Holds(tables', WholeOf(tables')) \cup Logged(logs', 0)
        /\ synced \subseteq Holds(tables', WholeOf(tables')) \cup Durable(logs', 0)
  BY <1>u, <1>f DEF Repairable
<1> QED
  BY <1>u, <1>p, <1>f, <1>1, <1>2, <1>4, RepairFrame

----------------------------------------------------------------------------
(* Crashes                                                                 *)

\* A process that dies leaves the files as they are.
LEMMA ProcessCrashInv ==
  ASSUME RecInv, ProcessCrash
  PROVE  RecInv'
<1>u. /\ pc' = "down" /\ op' = NoOp /\ vs' = NoVersions /\ db' = NoDb /\ bg' = "idle" /\ job' = NoJob
      /\ UNCHANGED <<tables, logs, manifests, current, temps, acked, synced, written, doubt>>
  BY DEF ProcessCrash, Gone, disk
<1>1. DiskTypes' /\ Covered' /\ Repairable'
  BY <1>u, DiskSame
<1>2. MemoryTypes'
  BY <1>u, NoTypes DEF RecInv, MemoryTypes, BgPlaces
<1> QED
  BY <1>u, <1>1, <1>2, AtDown DEF DiskInv

\* What a machine crash leaves of each file is a prefix with what was synced.
LEMMA ImageProps ==
  ASSUME NEW files, NEW image \in Images(files)
  PROVE  /\ DOMAIN image = DOMAIN files
         /\ \A n \in DOMAIN files : \E k \in files[n].synced..Len(files[n].recs) :
              image[n] = Cut(files[n], k)
<1> DEFINE lens == {f \in [DOMAIN files -> 0..Longest(files)] :
                     \A n \in DOMAIN files : f[n] \in files[n].synced..Len(files[n].recs)}
<1>1. PICK len \in lens : image = [n \in DOMAIN files |-> Cut(files[n], len[n])]
  BY DEF Images
<1>2. \A n \in DOMAIN files : len[n] \in files[n].synced..Len(files[n].recs)
  BY <1>1
<1> HIDE DEF lens
<1> QED
  BY <1>1, <1>2

\* A log that is cut keeps what was synced, and that is all it has.
LEMMA CutLog ==
  ASSUME NEW log \in LogFile, NEW k \in log.synced..Len(log.recs)
  PROVE  /\ Cut(log, k) \in LogFile /\ Cut(log, k).synced <= Len(Cut(log, k).recs)
         /\ SyncedOf(log) \subseteq SyncedOf(Cut(log, k))
         /\ SyncedOf(log) \subseteq Ents(Cut(log, k).recs)
<1> DEFINE recs == SubSeq(log.recs, 1, k)
<1>1. log.recs \in Seq(LogEntry) /\ log.synced \in Nat /\ k \in Nat /\ log.synced <= k /\ k <= Len(log.recs)
      /\ k <= k
  BY DEF LogFile
<1>2. recs \in Seq(LogEntry) /\ Len(recs) = k /\ DOMAIN recs = 1..k /\ \A i \in 1..k : recs[i] = log.recs[i]
  BY <1>1
<1> HIDE DEF recs
<1>3. Cut(log, k) = [recs |-> recs, synced |-> k]
  BY DEF Cut, recs
<1>4. 1..log.synced \subseteq 1..k
  BY <1>1
<1>5. SyncedOf(log) \subseteq {recs[i] : i \in 1..k}
  BY <1>2, <1>4 DEF SyncedOf
<1> QED
  BY <1>1, <1>2, <1>3, <1>5 DEF LogFile, SyncedOf, Ents

\* What a machine crash leaves of a manifest is a manifest, all of it synced.
LEMMA CutManifest ==
  ASSUME NEW man \in ManifestFile, Ordered(man.recs), NEW k \in man.synced..Len(man.recs)
  PROVE  /\ Cut(man, k) \in ManifestFile /\ Cut(man, k).synced <= Len(Cut(man, k).recs)
         /\ Ordered(Cut(man, k).recs)
<1>1. man.recs \in Seq(Edit) /\ man.synced \in Nat /\ k \in Nat /\ k <= k /\ k \in 0..Len(man.recs)
  BY DEF ManifestFile
<1>2. SubSeq(man.recs, 1, k) \in Seq(Edit) /\ Len(SubSeq(man.recs, 1, k)) = k /\ Ordered(SubSeq(man.recs, 1, k))
  BY <1>1, PrefixProps, OrderedPrefix
<1> QED
  BY <1>1, <1>2 DEF Cut, ManifestFile

\* A machine that dies leaves of each file any prefix that has its synced records.
LEMMA MachineCrashInv ==
  ASSUME RecInv, MachineCrash
  PROVE  RecInv'
<1>u. /\ pc' = "down" /\ op' = NoOp /\ vs' = NoVersions /\ db' = NoDb /\ bg' = "idle" /\ job' = NoJob
      /\ logs' \in Images(logs) /\ manifests' \in Images(manifests) /\ acked' = synced
      /\ doubt' = (CASE doubt = "reuse" -> "lost"
                     [] doubt = "no" /\ current # None /\ manifests[current].synced = 0 -> "repair"
                     [] OTHER -> doubt)
      /\ UNCHANGED <<tables, current, temps, synced, written>>
  BY DEF MachineCrash, Gone
<1>t. DiskTypes /\ MemoryTypes /\ Covered /\ Repairable
  BY DEF RecInv
<1>l. /\ DOMAIN logs' = DOMAIN logs
      /\ \A l \in DOMAIN logs : /\ logs'[l] \in LogFile /\ logs'[l].synced <= Len(logs'[l].recs)
                                /\ SyncedOf(logs[l]) \subseteq SyncedOf(logs'[l])
                                /\ SyncedOf(logs[l]) \subseteq Ents(logs'[l].recs)
  <2>1. DOMAIN logs' = DOMAIN logs
    BY <1>u, ImageProps
  <2>2. ASSUME NEW l \in DOMAIN logs
        PROVE  /\ logs'[l] \in LogFile /\ logs'[l].synced <= Len(logs'[l].recs)
               /\ SyncedOf(logs[l]) \subseteq SyncedOf(logs'[l])
               /\ SyncedOf(logs[l]) \subseteq Ents(logs'[l].recs)
    <3>1. PICK k \in logs[l].synced..Len(logs[l].recs) : logs'[l] = Cut(logs[l], k)
      BY <1>u, ImageProps
    <3>2. logs[l] \in LogFile
      BY <1>t DEF DiskTypes, LogsType
    <3> QED
      BY <3>1, <3>2, CutLog
  <2> QED
    BY <2>1, <2>2
<1>m. /\ DOMAIN manifests' = DOMAIN manifests
      /\ \A m \in DOMAIN manifests : \E k \in manifests[m].synced..Len(manifests[m].recs) :
           manifests'[m] = Cut(manifests[m], k)
  BY <1>u, ImageProps
<1>d. \A n : Durable(logs, n) \subseteq Durable(logs', n) /\ Durable(logs, n) \subseteq Logged(logs', n)
  <2>1. \A n : Since(logs', n) = Since(logs, n)
    BY <1>l DEF Since
  <2>2. \A n : \A l \in Since(logs, n) : l \in DOMAIN logs
    BY DEF Since
  <2> QED
    BY <1>l, <2>1, <2>2 DEF Durable, Logged
<1>1. DiskTypes'
  <2>1. LogsType(logs')
    BY <1>t, <1>l DEF DiskTypes, LogsType
  <2>2. ASSUME NEW m \in DOMAIN manifests
        PROVE  /\ manifests'[m] \in ManifestFile /\ manifests'[m].synced <= Len(manifests'[m].recs)
               /\ Ordered(manifests'[m].recs)
    <3>1. PICK k \in manifests[m].synced..Len(manifests[m].recs) : manifests'[m] = Cut(manifests[m], k)
      BY <1>m
    <3>2. manifests[m] \in ManifestFile /\ Ordered(manifests[m].recs)
      BY <1>t DEF DiskTypes, ManifestsType
    <3> QED
      BY <3>1, <3>2, CutManifest
  <2>3. ManifestsType(manifests')
    BY <1>t, <1>m, <2>2 DEF DiskTypes, ManifestsType
  <2> QED
    BY <1>u, <1>t, <2>1, <2>3 DEF DiskTypes
<1>2. MemoryTypes'
  BY <1>u, <1>t, NoTypes DEF MemoryTypes, BgPlaces
<1>3. Covered'
  <2>1. CASE ~Promised'
    BY <2>1 DEF Covered
  <2>2. CASE current = None /\ Promised'
    <3>1. Promised
      BY <1>u, <2>2 DEF Promised
    <3> QED
      BY <1>u, <1>t, <2>2, <3>1 DEF Covered
  <2>3. CASE current # None /\ Promised'
    <3>1. Promised /\ doubt = "no" /\ manifests[current].synced # 0
      BY <1>u, <1>t, <2>3 DEF Promised, MemoryTypes
    <3>2. current \in DOMAIN manifests
      BY <1>t, <2>3, <3>1 DEF Covered
    <3>3. PICK k \in manifests[current].synced..Len(manifests[current].recs) :
             manifests'[current] = Cut(manifests[current], k)
      BY <1>m, <3>2
    <3>4. InUse' = SubSeq(InUse, 1, k) /\ manifests'[current'].synced = k
      BY <1>u, <3>3 DEF InUse, Cut
    <3>5. k \in Survivors
      <4>1. manifests[current].synced \in Nat /\ Len(InUse) \in Nat
        BY <1>t, <3>2, UseType
      <4>2. k \in manifests[current].synced..Len(InUse)
        BY <3>3 DEF InUse
      <4>3. Higher(1, manifests[current].synced) = manifests[current].synced
        BY <3>1, <4>1 DEF Higher
      <4> QED
        BY <3>1, <4>2, <4>3 DEF Survivors
    <3>6. Accepted(tables, logs, InUse', current, synced)
      BY <1>t, <2>3, <3>1, <3>4, <3>5, UseAccepted
    <3>7. Len(InUse') = k
      <4>1. InUse \in Seq(Edit) /\ k \in 1..Len(InUse)
        BY <1>t, <2>3, <3>1, <3>2, <3>5, UseType, UseAccepted
      <4> QED
        BY <3>4, <4>1, PrefixProps
    <3>8. /\ LiveOf(InUse') \subseteq WholeOf(tables') /\ current' < LastEdit(InUse').next
          /\ Numbered(InUse') # {}
          /\ synced' \subseteq Holds(tables', LiveOf(InUse')) \cup Durable(logs', LastEdit(InUse').log)
          /\ acked' \subseteq Holds(tables', LiveOf(InUse')) \cup Logged(logs', LastEdit(InUse').log)
      BY <1>u, <1>d, <3>6 DEF Accepted
    <3>9. current' # None /\ current' \in DOMAIN manifests' /\ manifests'[current'].synced = Len(InUse')
      BY <1>u, <1>m, <2>3, <3>2, <3>4, <3>7
    <3> QED
      BY <1>1, <3>8, <3>9, CoveredSwitch
  <2> QED
    BY <2>1, <2>2, <2>3
<1>4. Repairable'
  <2> SUFFICES ASSUME doubt' = "repair"
               PROVE  synced \subseteq Holds(tables, WholeOf(tables)) \cup Durable(logs, 0)
    BY <1>u, <1>d DEF Repairable
  <2>1. doubt = "repair" \/ Promised
    BY <1>u DEF Promised
  <2> QED
    BY <1>t, <2>1, NothingLost DEF Repairable
<1> QED
  BY <1>u, <1>1, <1>2, <1>3, <1>4, AtDown DEF DiskInv

----------------------------------------------------------------------------
(* Every step, and what follows                                            *)

\* The invariant is about the variables of the model alone.
LEMMA StutterInv ==
  ASSUME RecInv, UNCHANGED vars
  PROVE  RecInv'
<1>u. UNCHANGED <<tables, logs, manifests, current, temps, pc, op, vs, db, bg, job, acked, synced, written, doubt>>
  BY DEF vars
<1>i. /\ InUse' = InUse /\ Survivors' = Survivors /\ View' = View /\ Written' = Written /\ Files' = Files
      /\ (Promised' <=> Promised) /\ \A f : (Unneeded(f)' <=> Unneeded(f)) /\ (Kept(f)' <=> Kept(f))
  BY <1>u DEF InUse, Survivors, View, Written, Files, Promised, Unneeded, Kept
<1>1. DiskTypes' /\ Covered' /\ Repairable' /\ MemoryTypes'
  <2>1. DiskTypes' /\ MemoryTypes'
    BY <1>u DEF RecInv, DiskTypes, MemoryTypes
  <2>2. Covered' /\ Repairable'
    BY <1>u, <1>i DEF RecInv, Covered, Repairable
  <2> QED
    BY <2>1, <2>2
<1>2. RepairInv' /\ StartInv' /\ ManifestInv' /\ ReplayInv' /\ ApplyInv'
  BY <1>u, <1>i DEF RecInv, RepairInv, StartInv, ManifestInv, ReplayInv, ApplyInv
<1>3. MemoryInv' /\ ServeInv' /\ LinkInv' /\ KillInv'
  BY <1>u, <1>i DEF RecInv, MemoryInv, ServeInv, LinkInv, KillInv
<1>4. JobInv'
  BY <1>u, <1>i DEF RecInv, JobInv, JobShape, BuildInv, RecordInv
<1> QED
  BY <1>1, <1>2, <1>3, <1>4 DEF RecInv

\* The invariant is kept by every step of the system and by every crash.
LEMMA StepInv ==
  ASSUME RecInv, [Next]_vars
  PROVE  RecInv'
<1>1. CASE OpenStep
  <2>1. ASSUME NEW reuse \in ReuseLogs, OpenStart(reuse) PROVE RecInv'
    <3>1. reuse \in BOOLEAN
      BY RecoveryAssumption
    <3> QED
      BY <2>1, <3>1, OpenStartInv
  <2>2. ASSUME NEW n \in 1..MaxWrites, ReplayToTable(n) PROVE RecInv'
    <3>1. n \in Nat
      BY RecoveryAssumption
    <3> QED
      BY <2>2, <3>1, ReplayToTableInv
  <2> QED
    BY <1>1, <2>1, <2>2, NewDbInv, WriteTempInv, RenameTempInv, RecoverFailsInv, VersionsRecoverInv,
       NextLogInv, ReplayAndKeepInv, ReplayEndsInv, RecoverEndsInv, OpenApplyInv, OpenSyncInv,
       OpenApplyFailsInv, OpenInstallInv, OpenCleanInv, OpenRemoveInv, OpenEndsInv DEF OpenStep
<1>2. CASE UserStep
  BY <1>2, LdbWriteInv, WriteAppendFailsInv, WriteSyncFailsInv, SwitchMemtableInv, BackupInv, CloseEndsInv, DestroyInv
     DEF UserStep
<1>3. CASE BgStep
  <2>1. ASSUME NEW ins \in (SUBSET vs.live) \ {{}}, CompactStart(ins) PROVE RecInv'
    BY <2>1, CompactStartInv
  <2>2. ASSUME NEW t \in vs.live, MoveStart(t) PROVE RecInv'
    BY <2>2, MoveStartInv
  <2> QED
    BY <1>3, <2>1, <2>2, FlushStartInv, InnerFlushInv, BuildTableInv, BuildFailsInv, MakeEditInv,
       AbandonInv, LogEditInv, SyncEditInv, BgInstallInv, BgCleanInv, BgRemoveInv, BgEndsInv DEF BgStep
<1>4. CASE RepairStep
  BY <1>4, RepairStartInv, RepairArchiveInv, RepairScanInv, RepairDescriptorInv, RepairInstallInv,
     RepairConvertInv, RepairConvertFailsInv, RepairDiscardInv DEF RepairStep
<1> QED
  BY <1>1, <1>2, <1>3, <1>4, ProcessCrashInv, MachineCrashInv, StutterInv DEF Next

\* The invariant holds in every reachable state.
THEOREM Invariant == Spec => []RecInv
<1>1. Init => RecInv
  BY InitInv
<1>2. RecInv /\ [Next]_vars => RecInv'
  BY StepInv
<1> QED
  BY <1>1, <1>2, PTL DEF Spec

\* What ldb_open recovers is what the live tables have and what the logs have that it replays.
LEMMA RecoversParts ==
  ASSUME NEW ts, NEW ls, NEW recs
  PROVE  Recovers(ts, ls, recs) = Holds(ts, LiveOf(recs)) \cup Logged(ls, LastEdit(recs).log)
BY DEF Recovers, Holds, Logged, Since

\* Recoverable: whenever the database is not open, no repair was cut short or dropped a log,
\* no reused MANIFEST lost its tail and the one in use has no record behind torn bytes, ldb_open
\* accepts what CURRENT names and recovers every acknowledged write the last crash left and
\* every synced one, except those appended to a log behind torn bytes, however many crashes,
\* failed appends, failed opens, compactions and repairs there were.
THEOREM RecoverableAlways == Spec => []Recoverable
<1>1. RecInv => Recoverable
  <2> SUFFICES ASSUME RecInv, pc = "down", doubt \in {"no", "reuse"}
               PROVE  IF current = None THEN acked \cup synced = {}
                      ELSE /\ Openable
                           /\ acked \cup synced \subseteq Recovers(tables, logs, manifests[current].recs)
    BY DEF Recoverable
  <2>t. DiskTypes /\ Covered /\ Promised
    BY DEF RecInv, Promised
  <2>1. CASE current = None
    BY <2>1, <2>t DEF Covered
  <2>2. CASE current # None
    <3>1. Accepted(tables, logs, InUse, current, synced)
      BY <2>2, <2>t, UseAccepted
    <3>2. /\ current \in DOMAIN manifests
          /\ acked \subseteq Holds(tables, LiveOf(InUse)) \cup Logged(logs, LastEdit(InUse).log)
      BY <2>2, <2>t DEF Covered
    <3>3. Durable(logs, LastEdit(InUse).log) \subseteq Logged(logs, LastEdit(InUse).log)
      BY <2>t, SyncedLogged DEF DiskTypes
    <3>4. Recovers(tables, logs, InUse) = Holds(tables, LiveOf(InUse)) \cup Logged(logs, LastEdit(InUse).log)
      BY RecoversParts
    <3>5. Openable
      BY <3>1, <3>2 DEF Openable, Accepted, WholeOf, InUse
    <3>6. acked \cup synced \subseteq Recovers(tables, logs, InUse)
      BY <3>1, <3>2, <3>3, <3>4 DEF Accepted
    <3> QED
      BY <2>2, <3>5, <3>6 DEF InUse
  <2> QED
    BY <2>1, <2>2
<1> QED
  BY <1>1, Invariant, PTL

\* Served: while the database is open, every acknowledged write is in a memtable or in a whole
\* table of the current version, whatever the background thread builds, records and removes.
THEOREM ServedAlways == Spec => []Served
<1>1. RecInv => Served
  <2> SUFFICES ASSUME RecInv, pc \in Using, doubt \in {"no", "reuse"}
               PROVE  /\ \A t \in vs.live : t \in DOMAIN tables /\ tables[t].whole
                      /\ acked \cup synced \subseteq Readable
    BY DEF Served, Using
  <2>1. View = vs.live /\ pc \in Serving /\ Promised
    BY InUseFacts DEF UseFacts, Promised
  <2>2. /\ vs.live \subseteq WholeOf(tables)
        /\ acked \cup synced \subseteq db.mem \cup db.imm \cup Holds(tables, vs.live)
    BY <2>1 DEF RecInv, ServeInv
  <2> QED
    BY <2>2 DEF WholeOf, Holds, Readable
<1> QED
  BY <1>1, Invariant, PTL

\* A backup copies what the version and the logs have.
LEMMA BackupCopies ==
  ASSUME RecInv, Backup
  PROVE  BackupComplete'
<1> DEFINE R == Restrict(tables, DOMAIN tables \cap vs.live)
<1>u. /\ pc = "open" /\ bg = "idle" /\ ~db.has_imm /\ ~db.err
      /\ bak' = Backed \ Copied(logs)
  BY DEF Backup
<1>p. pc \in Using
  BY <1>u DEF Using
<1>f. UseFacts
  BY <1>p, InUseFacts
<1> USE DEF UseFacts
<1>1. LiveOf(InUse) = vs.live /\ LastEdit(InUse).log = vs.log
  BY <1>u, <1>p DEF RecInv, LinkInv
<1>2. vs.live \subseteq DOMAIN tables /\ db.imm = {} /\ db.mem \subseteq Ents(logs[db.logfile].recs)
  BY <1>u, <1>f DEF RecInv, MemoryInv
<1>3. \A t \in vs.live : R[t] = tables[t]
  BY <1>2 DEF Restrict
<1> HIDE DEF R
<1>4. Copied(logs) = Holds(R, vs.live) \cup Logged(logs, vs.log)
  <2>1. Copied(logs) = Recovers(R, logs, InUse)
    BY DEF Copied, InUse, R
  <2>2. Recovers(R, logs, InUse) = Holds(R, LiveOf(InUse)) \cup Logged(logs, LastEdit(InUse).log)
    BY RecoversParts
  <2> QED
    BY <1>1, <2>1, <2>2
<1>5. db.mem \subseteq Copied(logs)
  <2>1. Ents(logs[db.logfile].recs) \subseteq Logged(logs, vs.log)
    BY <1>f, LogsOne
  <2> QED
    BY <1>2, <1>4, <2>1
<1>6. UNION {tables[t].ents : t \in vs.live} \subseteq Copied(logs)
  BY <1>3, <1>4 DEF Holds
<1>7. Readable \subseteq Copied(logs)
  BY <1>2, <1>5, <1>6 DEF Readable
<1>8. Backed \subseteq Readable
  BY DEF Backed
<1> QED
  BY <1>u, <1>7, <1>8 DEF BackupComplete

\* Nothing else touches the last backup.
LEMMA BackupStays ==
  ASSUME [Next]_vars
  PROVE  Backup \/ bak' = bak
<1>1. CASE OpenStep
  BY <1>1 DEF OpenStep, OpenStart, NewDb, WriteTemp, RenameTemp, RecoverFails, VersionsRecover, NextLog,
     ReplayAndKeep, ReplayEnds, RecoverEnds, ReplayToTable, OpenApply, OpenSync, OpenApplyFails,
     OpenInstall, OpenClean, OpenRemove, OpenEnds, ghost
<1>2. CASE UserStep
  BY <1>2 DEF UserStep, LdbWrite, WriteAppendFails, WriteSyncFails, SwitchMemtable, CloseStart, CloseEnds,
     Destroy, ghost
<1>3. CASE BgStep
  BY <1>3 DEF BgStep, FlushStart, InnerFlush, BuildTable, BuildFails, MakeEdit, AbandonJob, LogEdit,
     SyncEdit, LogEditFails, BgInstall, BgClean, BgRemove, BgEnds, CompactStart, MoveStart, BgUnchanged
<1>4. CASE RepairStep
  BY <1>4 DEF RepairStep, RepairStart, RepairArchive, RepairScan, RepairDescriptor, RepairInstall,
     RepairConvert, RepairConvertFails, RepairDiscard, RepUnchanged
<1>5. CASE ProcessCrash \/ MachineCrash
  BY <1>5 DEF ProcessCrash, MachineCrash
<1>6. CASE UNCHANGED vars
  BY <1>6 DEF vars
<1> QED
  BY <1>1, <1>2, <1>3, <1>4, <1>5, <1>6 DEF Next

\* BackupComplete: what ldb_backup copies recovers every write that could be read when it
\* was made, the ones that were only in the memtable and its log included, but for writes
\* behind torn bytes of a log, and unless the MANIFEST in use has records behind torn bytes.
THEOREM BackupAlways == Spec => []BackupComplete
<1>1. Init => BackupComplete
  BY DEF Init, BackupComplete
<1>2. RecInv /\ BackupComplete /\ [Next]_vars => BackupComplete'
  BY BackupCopies, BackupStays DEF BackupComplete
<1> QED
  BY <1>1, <1>2, Invariant, PTL DEF Spec

----------------------------------------------------------------------------
(* Obsolete files.  A job that ends without an error has looked for them   *)
(* after its last change of the version, so that what is left is kept by   *)
(* it; and the numbers in pending_outputs are those of jobs under way.     *)

Outputs ==
  (IF bg \in {"idle", "clean", "kill"} THEN {} ELSE {job.out})
    \cup {job.outer[i].out : i \in DOMAIN job.outer}

Tidy == \A f \in Files : Kept(f) \/ (bg = "kill" /\ f \in job.kill)

LeakInv ==
  pc \in Using /\ ~db.err =>
    /\ db.pending \subseteq Outputs
    /\ bg \in {"idle", "kill"} \/ job.kind = "move" => Tidy
    /\ job.kind = "move" => job.edit.adds = job.edit.dels /\ job.out = None

\* A file that is removed is not there, and no other file comes.
LEMMA Removed ==
  ASSUME NEW f \in FileNames, RemoveFiles({f})
  PROVE  Files' \subseteq Files \ {f}
<1>1. f[1] \in {"log", "manifest", "table", "temp"}
  BY DEF FileNames
<1>2. f[2] \in Named(f[1], {f})
  BY DEF Named
<1>3. /\ DOMAIN logs' = DOMAIN logs \ Named("log", {f})
      /\ DOMAIN manifests' = DOMAIN manifests \ Named("manifest", {f})
      /\ DOMAIN tables' = DOMAIN tables \ Named("table", {f})
      /\ temps' = temps \ Named("temp", {f})
  BY DEF RemoveFiles, Drop, Restrict
<1> QED
  BY <1>1, <1>2, <1>3 DEF Files

\* A step that leaves the version, the job and the names of the files alone.
LEMMA LeakStays ==
  ASSUME LeakInv, pc \in Using, pc' \in Using, UNCHANGED <<bg, job>>,
         db'.pending = db.pending, db'.err = db.err, Files' \subseteq Files,
         vs'.live = vs.live, vs'.log = vs.log, vs'.manifest = vs.manifest
  PROVE  LeakInv'
<1>1. \A f : Kept(f)' <=> Kept(f)
  BY DEF Kept
<1>2. Outputs' = Outputs /\ (Tidy => Tidy')
  BY <1>1 DEF Outputs, Tidy
<1> QED
  BY <1>2 DEF LeakInv

\* A step to a place where nobody uses the database, and one that leaves an error.
LEMMA LeakOff ==
  ASSUME pc' \notin Using \/ db'.err
  PROVE  LeakInv'
BY DEF LeakInv

\* ldb_open has removed what it listed, and it listed all that was not to be kept.
LEMMA LeakOpen ==
  ASSUME RecInv, OpenEnds
  PROVE  LeakInv'
<1>u. pc = "kill" /\ op.kill = {} /\ UNCHANGED <<tables, logs, manifests, temps, vs, db, bg, job>>
  BY DEF OpenEnds, disk
<1>1. bg = "idle" /\ job = NoJob
  BY <1>u, BgRests DEF Using
<1>2. db.pending = {} /\ \A f \in Files : Kept(f)
  <2>1. db.pending = {}
    BY <1>u DEF RecInv, MemoryInv, Serving, Cleaning, Using
  <2>2. \A f \in Files : Kept(f)
    BY <1>u DEF RecInv, KillInv
  <2> QED
    BY <2>1, <2>2
<1>3. Files' = Files /\ \A f : Kept(f)' <=> Kept(f)
  BY <1>u DEF Files, Kept
<1>4. Tidy' /\ job'.kind # "move" /\ db'.pending = {}
  BY <1>u, <1>1, <1>2, <1>3 DEF Tidy, NoJob
<1> QED
  BY <1>4 DEF LeakInv

\* The user's steps: a new log has a number above that of the logs that are kept.
LEMMA LeakUser ==
  ASSUME RecInv, LeakInv, UserStep
  PROVE  LeakInv'
<1>1. ASSUME NEW sync \in BOOLEAN, LdbWrite(sync) PROVE LeakInv'
  <2>u. /\ pc = "open" /\ pc' = "open" /\ db' = [db EXCEPT !.mem = db.mem \cup {Entry}]
        /\ vs' = [vs EXCEPT !.seq = vs.seq + 1]
        /\ logs' = [logs EXCEPT ![db.logfile] =
                      IF sync THEN Whole(Write(logs[db.logfile], Entry)) ELSE Write(logs[db.logfile], Entry)]
        /\ UNCHANGED <<tables, manifests, temps, bg, job>>
    BY <1>1 DEF LdbWrite
  <2>1. vs \in VersionsType /\ db \in DbType
    BY <2>u, InUseFacts DEF Using, UseFacts
  <2>2. /\ db'.pending = db.pending /\ db'.err = db.err
        /\ vs'.live = vs.live /\ vs'.log = vs.log /\ vs'.manifest = vs.manifest
    BY <2>u, <2>1 DEF DbType, VersionsType
  <2>3. Files' = Files
    BY <2>u DEF Files
  <2> QED
    BY <2>u, <2>2, <2>3, LeakStays DEF Using
<1>2. CASE WriteSyncFails
  <2>1. pc = "open" /\ db' = [db EXCEPT !.err = TRUE]
    BY <1>2 DEF WriteSyncFails
  <2>2. db \in DbType
    BY <2>1, InUseFacts DEF Using, UseFacts
  <2>3. db'.err
    BY <2>1, <2>2 DEF DbType
  <2> QED
    BY <2>3, LeakOff
<1>3. CASE SwitchMemtable
  <2>u. /\ pc = "open" /\ pc' = "open"
        /\ db' = [db EXCEPT !.logfile = vs.next, !.imm = db.mem, !.has_imm = TRUE, !.mem = {}]
        /\ vs' = [vs EXCEPT !.next = vs.next + 1] /\ logs' = Put(logs, vs.next, EmptyLog)
        /\ UNCHANGED <<tables, manifests, temps, bg, job>>
    BY <1>3 DEF SwitchMemtable
  <2>1. UseFacts
    BY <2>u, InUseFacts DEF Using
  <2>2. /\ db'.pending = db.pending /\ db'.err = db.err
        /\ vs'.live = vs.live /\ vs'.log = vs.log /\ vs'.manifest = vs.manifest
    BY <2>u, <2>1 DEF DbType, VersionsType, UseFacts
  <2>3. vs.log <= vs.next
    <3>1. vs.log <= db.logfile /\ db.logfile < vs.next
      BY <2>1 DEF RecInv, MemoryInv, UseFacts
    <3> QED
      BY <2>1, <3>1 DEF UseFacts
  <2>4. \A f \in Files' : f \in Files \/ f = <<"log", vs.next>>
    <3>1. DOMAIN logs' = DOMAIN logs \cup {vs.next}
      BY <2>u DEF Put
    <3> QED
      BY <2>u, <3>1 DEF Files
  <2>5. (\A f : Kept(f)' <=> Kept(f)) /\ Outputs' = Outputs
    BY <2>u, <2>2 DEF Kept, Outputs
  <2>6. Kept(<<"log", vs.next>>)
    BY <2>3, <2>1 DEF Kept, UseFacts
  <2>7. Tidy => Tidy'
    BY <2>u, <2>4, <2>5, <2>6 DEF Tidy
  <2> QED
    BY <2>u, <2>2, <2>5, <2>7 DEF LeakInv, Using
<1>4. CASE Backup \/ CloseStart
  <2>1. /\ pc = "open" /\ pc' \in Using /\ UNCHANGED <<tables, logs, manifests, temps, bg, job, vs, db>>
    BY <1>4 DEF Backup, CloseStart, disk, Using
  <2> QED
    BY <2>1, LeakStays DEF Files, Using
<1>5. CASE CloseEnds \/ Destroy
  BY <1>5, LeakOff DEF CloseEnds, Destroy, Using
<1>6. CASE WriteAppendFails
  <2>1. /\ pc = "open" /\ pc' = "open" /\ vs' = [vs EXCEPT !.seq = vs.seq + 1]
        /\ UNCHANGED <<tables, logs, manifests, temps, db, bg, job>>
    BY <1>6 DEF WriteAppendFails
  <2>2. vs \in VersionsType
    BY <2>1, InUseFacts DEF Using, UseFacts
  <2>3. vs'.live = vs.live /\ vs'.log = vs.log /\ vs'.manifest = vs.manifest
    BY <2>1, <2>2 DEF VersionsType
  <2>4. Files' = Files
    BY <2>1 DEF Files
  <2> QED
    BY <2>1, <2>3, <2>4, LeakStays DEF Using
<1> QED
  BY <1>1, <1>2, <1>3, <1>4, <1>5, <1>6 DEF UserStep

\* The background thread's steps.
LEMMA LeakBg ==
  ASSUME RecInv, LeakInv, BgStep
  PROVE  LeakInv'
<1>p. pc \in Using /\ pc' = pc
  <2>1. pc' = pc
    BY DEF BgStep, FlushStart, InnerFlush, BuildTable, BuildFails, MakeEdit, AbandonJob, LogEdit, SyncEdit,
           LogEditFails, BgInstall, BgClean, BgRemove, BgEnds, CompactStart, MoveStart, BgUnchanged
  <2>2. bg # "idle" \/ pc = "open"
    BY DEF BgStep, FlushStart, InnerFlush, BuildTable, BuildFails, MakeEdit, AbandonJob, LogEdit, SyncEdit,
           LogEditFails, BgInstall, BgClean, BgRemove, BgEnds, CompactStart, MoveStart
  <2> QED
    BY <2>1, <2>2, JobInUse DEF Using
<1>t. vs \in VersionsType /\ db \in DbType /\ job \in JobType
  BY <1>p, InUseFacts DEF UseFacts
<1>j. /\ JobShape /\ BuildInv
  BY DEF RecInv, JobInv
<1>1. CASE FlushStart \/ \E ins \in (SUBSET vs.live) \ {{}} : CompactStart(ins)
  <2>1. /\ bg = "idle" /\ bg' = "build" /\ ~db.err /\ db' = [db EXCEPT !.pending = db.pending \cup {vs.next}]
        /\ job'.out = vs.next /\ job'.kind # "move"
    <3>1. CASE FlushStart
      BY <3>1 DEF FlushStart, NoJob
    <3>2. CASE \E ins \in (SUBSET vs.live) \ {{}} : CompactStart(ins)
      <4>1. PICK ins : CompactStart(ins)
        BY <3>2
      <4> QED
        BY <4>1 DEF CompactStart, NoJob
    <3> QED
      BY <1>1, <3>1, <3>2
  <2>2. db.pending \subseteq {}
    <3>1. Outputs = {}
      BY <2>1, <1>j DEF Outputs, JobShape, NoJob
    <3> QED
      BY <1>p, <2>1, <3>1 DEF LeakInv
  <2>3. db'.pending \subseteq Outputs'
    BY <2>1, <2>2, <1>t DEF Outputs, DbType
  <2> QED
    BY <2>1, <2>3 DEF LeakInv
<1>2. CASE InnerFlush
  <2>1. /\ bg = "build" /\ bg' = "build" /\ db' = [db EXCEPT !.pending = db.pending \cup {vs.next}]
        /\ job' = [NoJob EXCEPT !.kind = "flush", !.out = vs.next, !.outer = <<job>>]
        /\ job.kind = "compact"
    BY <1>2 DEF InnerFlush
  <2>2. job'.out = vs.next /\ job'.kind = "flush" /\ job'.outer = <<job>> /\ DOMAIN <<job>> = {1} /\ <<job>>[1] = job
    BY <2>1 DEF NoJob
  <2>3. Outputs' = {vs.next, job.out}
    BY <2>1, <2>2 DEF Outputs
  <2>4. job.outer = <<>>
    BY <2>1, <1>j DEF BuildInv, Compacting
  <2>5. Outputs = {job.out}
    BY <2>1, <2>4 DEF Outputs
  <2>6. db'.pending = db.pending \cup {vs.next} /\ db'.err = db.err
    BY <2>1, <1>t DEF DbType
  <2> QED
    BY <1>p, <2>1, <2>2, <2>3, <2>5, <2>6 DEF LeakInv
<1>3. CASE \E t \in vs.live : MoveStart(t)
  <2>1. PICK t \in vs.live : MoveStart(t)
    BY <1>3
  <2>2. /\ bg = "idle" /\ bg' = "apply" /\ UNCHANGED <<tables, logs, manifests, temps, vs, db>>
        /\ job' = [NoJob EXCEPT !.kind = "move", !.ins = {t},
                     !.edit = FillEdit([NoEdit EXCEPT !.adds = {t}, !.dels = {t}], vs.log)]
    BY <2>1 DEF MoveStart, disk
  <2>3. job'.kind = "move" /\ job'.edit.adds = job'.edit.dels /\ job'.out = None
    BY <2>2 DEF NoJob, FillEdit, NoEdit
  <2>4. Outputs = {}
    BY <2>2, <1>j DEF Outputs, JobShape, NoJob
  <2>5. Tidy => Tidy'
    BY <2>2 DEF Tidy, Files, Kept
  <2> QED
    BY <1>p, <2>2, <2>3, <2>4, <2>5 DEF LeakInv
<1>4. CASE BuildTable
  <2>1. bg = "build" /\ bg' = "edit" /\ UNCHANGED <<job, db>>
    BY <1>4 DEF BuildTable
  <2>2. job.kind # "move" /\ Outputs' = Outputs
    BY <2>1, <1>j DEF BuildInv, Outputs
  <2> QED
    BY <1>p, <2>1, <2>2 DEF LeakInv
<1>5. CASE BuildFails \/ AbandonJob \/ LogEditFails
  <2>1. db' = [db EXCEPT !.err = TRUE, !.pending = db.pending \ {job.out}]
    BY <1>5 DEF BuildFails, AbandonJob, LogEditFails
  <2> QED
    BY <1>p, <2>1, ErrorSet, LeakOff
<1>6. CASE MakeEdit
  <2> DEFINE log == IF job.kind = "flush" THEN db.logfile ELSE vs.log
             e == FillEdit([NoEdit EXCEPT !.adds = {job.out} \cap DOMAIN tables, !.dels = job.ins], log)
  <2>1. /\ bg = "edit" /\ bg' = "apply" /\ job' = [job EXCEPT !.edit = e]
        /\ db' = IF job.kind = "flush" THEN [db EXCEPT !.pending = db.pending \ {job.out}] ELSE db
    BY <1>6 DEF MakeEdit
  <2> HIDE DEF e
  <2>2. job.kind # "move" /\ job'.kind = job.kind /\ job'.out = job.out /\ job'.outer = job.outer
    BY <2>1, <1>j, <1>t DEF BuildInv, JobType
  <2>3. db'.pending \subseteq db.pending /\ db'.err = db.err
    BY <2>1, <1>t DEF DbType
  <2>4. Outputs' = Outputs
    BY <2>1, <2>2 DEF Outputs
  <2> QED
    BY <1>p, <2>1, <2>2, <2>3, <2>4 DEF LeakInv
<1>7. CASE LogEdit \/ SyncEdit
  <2>1. /\ bg \in {"apply", "sync"} /\ bg' \in {"sync", "install"} /\ DOMAIN manifests' = DOMAIN manifests
        /\ UNCHANGED <<tables, logs, temps, vs, db, job>>
    BY <1>7 DEF LogEdit, SyncEdit
  <2>2. Outputs' = Outputs /\ (Tidy => Tidy')
    BY <2>1 DEF Outputs, Tidy, Files, Kept
  <2> QED
    BY <1>p, <2>1, <2>2 DEF LeakInv
<1>8. CASE BgInstall
  <2>1. /\ bg = "install" /\ vs' = Install(job.edit, vs.desc)
        /\ db' = [db EXCEPT !.pending = db.pending \ {job.out},
                            !.imm = IF job.kind = "flush" THEN {} ELSE db.imm,
                            !.has_imm = IF job.kind = "flush" THEN FALSE ELSE db.has_imm]
        /\ bg' = (IF job.kind = "move" THEN "idle" ELSE "clean")
        /\ job' = (IF job.kind = "move" THEN NoJob ELSE job)
        /\ UNCHANGED <<tables, logs, manifests, temps>>
    BY <1>8 DEF BgInstall, disk
  <2>2. db'.pending = db.pending \ {job.out} /\ db'.err = db.err
    BY <2>1, <1>t DEF DbType
  <2>3. CASE job.kind = "move"
    <3>1. job.outer = <<>> /\ Outputs = {job.out} /\ job'.outer = <<>> /\ job'.kind # "move"
      BY <2>1, <2>3, <1>j DEF JobShape, Outputs, NoJob
    <3>2. /\ vs'.live = (vs.live \ job.edit.dels) \cup job.edit.adds /\ vs'.log = job.edit.log
          /\ vs'.manifest = vs.manifest
      BY <2>1, <1>t DEF Install, VersionsType
    <3>3. job.edit.log = vs.log /\ job.edit.dels \subseteq vs.live
      BY <2>1, <2>3 DEF RecInv, JobInv, RecordInv
    <3>4. ASSUME ~db.err PROVE Tidy' /\ db'.pending = {}
      <4>1. Tidy /\ job.edit.adds = job.edit.dels /\ db.pending \subseteq {job.out} /\ job.out = None
        BY <1>p, <2>3, <3>1, <3>4 DEF LeakInv
      <4>2. vs'.live = vs.live /\ vs'.log = vs.log
        BY <3>2, <3>3, <4>1
      <4>3. db'.pending = {} /\ db.pending \subseteq {job.out}
        BY <2>2, <4>1
      <4>4. job.out \notin Number
        BY <4>1 DEF None, Number
      <4>5. db.pending = {}
        BY <4>3, <4>4, <1>t DEF DbType
      <4>6. \A f : Kept(f)' <=> Kept(f)
        BY <3>2, <4>2, <4>3, <4>5 DEF Kept
      <4> QED
        BY <2>1, <4>1, <4>3, <4>6 DEF Tidy, Files
    <3> QED
      BY <2>1, <2>2, <2>3, <3>1, <3>4 DEF LeakInv
  <2>4. CASE job.kind # "move"
    <3>1. bg' = "clean" /\ job' = job
      BY <2>1, <2>4
    <3>2. Outputs = {job.out} \cup Outputs'
      BY <2>1, <3>1 DEF Outputs
    <3> QED
      BY <1>p, <2>2, <2>4, <3>1, <3>2 DEF LeakInv
  <2> QED
    BY <2>3, <2>4
<1>9. CASE BgClean
  <2>1. /\ bg = "clean" /\ bg' = "kill" /\ job' = [job EXCEPT !.kill = IF db.err THEN {} ELSE Obsolete]
        /\ UNCHANGED <<tables, logs, manifests, temps, vs, db>>
    BY <1>9 DEF BgClean, disk
  <2>2. job.kind # "move" /\ job'.kind = job.kind /\ job'.out = job.out /\ job'.outer = job.outer
    BY <2>1, <1>j, <1>t DEF JobShape, JobType
  <2>3. Outputs' = Outputs
    BY <2>1, <2>2 DEF Outputs
  <2>4. ~db.err => Tidy'
    <3>1. ~db.err => job'.kill = Obsolete
      BY <2>1, <1>t DEF JobType
    <3>2. Files' = Files /\ \A f : Kept(f)' <=> Kept(f)
      BY <2>1 DEF Files, Kept
    <3> QED
      BY <2>1, <3>1, <3>2 DEF Tidy, Obsolete
  <2> QED
    BY <1>p, <2>1, <2>2, <2>3, <2>4 DEF LeakInv
<1>10. CASE BgRemove
  <2>1. bg = "kill" /\ bg' = "kill" /\ UNCHANGED <<vs, db>>
    BY <1>10 DEF BgRemove
  <2>2. PICK f \in job.kill : RemoveFiles({f}) /\ job' = [job EXCEPT !.kill = job.kill \ {f}]
    BY <1>10 DEF BgRemove
  <2>3. job.kind # "move" /\ job'.kind = job.kind /\ job'.out = job.out /\ job'.outer = job.outer
        /\ job'.kill = job.kill \ {f} /\ f \in FileNames
    BY <2>1, <2>2, <1>j, <1>t DEF JobShape, JobType
  <2>4. Outputs' = Outputs
    BY <2>1, <2>3 DEF Outputs
  <2>5. Tidy => Tidy'
    <3>1. Files' \subseteq Files \ {f}
      BY <2>2, <2>3, Removed
    <3>2. \A g : Kept(g)' <=> Kept(g)
      BY <2>1 DEF Kept
    <3> QED
      BY <2>1, <2>3, <3>1, <3>2 DEF Tidy
  <2> QED
    BY <1>p, <2>1, <2>3, <2>4, <2>5 DEF LeakInv
<1>11. CASE BgEnds
  <2>1. bg = "kill" /\ job.kill = {} /\ JobEnds /\ UNCHANGED <<tables, logs, manifests, temps, vs, db>>
    BY <1>11 DEF BgEnds, disk
  <2>2. CASE job.outer = <<>>
    <3>1. bg' = "idle" /\ job' = NoJob
      BY <2>1, <2>2 DEF JobEnds
    <3>2. Outputs = {} /\ Outputs' = {} /\ job'.kind # "move"
      BY <2>1, <2>2, <3>1 DEF Outputs, NoJob
    <3>3. Tidy => Tidy'
      BY <2>1, <3>1 DEF Tidy, Files, Kept
    <3> QED
      BY <1>p, <2>1, <3>1, <3>2, <3>3 DEF LeakInv
  <2>3. CASE job.outer # <<>>
    <3>1. bg' = "build" /\ job' = job.outer[1]
      BY <2>1, <2>3 DEF JobEnds
    <3>2. job'.kind = "compact" /\ job'.outer = <<>> /\ Len(job.outer) <= 1
      BY <2>1, <2>3, <3>1, <1>j DEF JobShape, Compacting
    <3>3. job.outer \in Seq(PlainJob) /\ DOMAIN job.outer = {1}
      <4>1. job.outer \in Seq(PlainJob)
        BY <1>t DEF JobType
      <4> QED
        BY <4>1, <2>3, <3>2
    <3>4. Outputs' = Outputs
      BY <2>1, <3>1, <3>2, <3>3 DEF Outputs
    <3> QED
      BY <1>p, <2>1, <3>1, <3>2, <3>4 DEF LeakInv
  <2> QED
    BY <2>2, <2>3
<1> QED
  BY <1>1, <1>2, <1>3, <1>4, <1>5, <1>6, <1>7, <1>8, <1>9, <1>10, <1>11 DEF BgStep

\* Nothing is left behind, in every reachable state.
LEMMA LeakStep ==
  ASSUME RecInv, LeakInv, [Next]_vars
  PROVE  LeakInv'
<1>1. CASE OpenStep
  <2>1. CASE OpenEnds
    BY <2>1, LeakOpen
  <2>2. CASE ~OpenEnds
    <3>1. pc' \notin Using
      BY <1>1, <2>2 DEF OpenStep, OpenStart, NewDb, WriteTemp, RenameTemp, RecoverFails, VersionsRecover,
         NextLog, ReplayAndKeep, ReplayEnds, RecoverEnds, ReplayToTable, OpenApply, OpenSync,
         OpenApplyFails, OpenInstall, OpenClean, OpenRemove, Using
    <3> QED
      BY <3>1, LeakOff
  <2> QED
    BY <2>1, <2>2
<1>2. CASE RepairStep \/ ProcessCrash \/ MachineCrash
  <2>1. pc' \notin Using
    BY <1>2 DEF RepairStep, RepairStart, RepairArchive, RepairScan, RepairDescriptor, RepairInstall,
       RepairConvert, RepairConvertFails, RepairDiscard, ProcessCrash, MachineCrash, Gone, Using
  <2> QED
    BY <2>1, LeakOff
<1>3. CASE UNCHANGED vars
  <2>1. UNCHANGED <<tables, logs, manifests, temps, pc, vs, db, bg, job>>
    BY <1>3 DEF vars
  <2> QED
    BY <2>1 DEF LeakInv, Outputs, Tidy, Files, Kept
<1> QED
  BY <1>1, <1>2, <1>3, LeakUser, LeakBg DEF Next

\* NoLeaks: when ldb_open is done and the background thread rests without an error, every
\* table, log, manifest and temporary file that is left is one that the version needs.
THEOREM NoLeaksAlways == Spec => []NoLeaks
<1>1. Init => LeakInv
  BY DEF Init, LeakInv, Using
<1>2. RecInv /\ LeakInv /\ [Next]_vars => LeakInv'
  BY LeakStep
<1>3. RecInv /\ LeakInv => NoLeaks
  <2> SUFFICES ASSUME RecInv, LeakInv, pc = "open", bg = "idle", ~db.err
               PROVE  /\ DOMAIN tables \subseteq vs.live /\ temps \subseteq vs.live
                      /\ \A l \in DOMAIN logs : l >= vs.log
                      /\ \A m \in DOMAIN manifests : m >= vs.manifest
    BY DEF NoLeaks
  <2>1. Outputs = {}
    BY DEF RecInv, JobInv, JobShape, Outputs, NoJob
  <2>2. db.pending = {} /\ \A f \in Files : Kept(f)
    BY <2>1 DEF LeakInv, Tidy, Using
  <2>3. \A n \in DOMAIN tables : <<"table", n>> \in Files
    BY DEF Files
  <2>4. \A n \in temps : <<"temp", n>> \in Files
    BY DEF Files
  <2>5. \A n \in DOMAIN logs : <<"log", n>> \in Files
    BY DEF Files
  <2>6. \A n \in DOMAIN manifests : <<"manifest", n>> \in Files
    BY DEF Files
  <2> QED
    BY <2>2, <2>3, <2>4, <2>5, <2>6 DEF Kept
<1> QED
  BY <1>1, <1>2, <1>3, Invariant, PTL DEF Spec

----------------------------------------------------------------------------
(* Sequence numbers.  On the disk no number is there twice, and whatever   *)
(* is left of the manifest in use carries a number that is not below those *)
(* in its tables; so ldb_open, which reads the rest from the logs, starts  *)
(* above everything that is left when it has removed what nobody needs.    *)
(* Nothing is said where a repair was cut short and the database opened    *)
(* all the same, or a reused MANIFEST lost its tail.                       *)

UpTo(S, n) == \A e \in S : e.seq <= n
OneEach(S) == \A e, f \in S : e.seq = f.seq => e = f
OnDisk(ts, ls) == Holds(ts, DOMAIN ts) \cup UNION {Ents(ls[l].recs) : l \in DOMAIN ls}
Dated(ts, recs) == \A t \in LiveOf(recs) \cap DOMAIN ts : UpTo(ts[t].ents, LastEdit(recs).seq)

DiskSeq == OneEach(OnDisk(tables, logs))
UseSeq == Promised /\ current # None => \A n \in Survivors : Dated(tables, SubSeq(InUse, 1, n))

\* What ldb_recover has seen so far, and what ldb_open installs.
ReplaySeq ==
  pc \in Replaying => /\ vs.seq = LastEdit(InUse).seq
                      /\ UpTo(db.mem \cup Holds(tables, op.edit.adds), op.max)
                      /\ pc = "replay" => Ents(op.rest) \subseteq Ents(logs[op.log].recs)
ViewSeq == pc \in Applying \cup Cleaning => UpTo(Holds(tables, View) \cup Logged(logs, vs.log), vs.seq)
EditSeq == pc \in Applying \ {"apply"} => op.edit.seq = vs.seq

\* An open database, the edit it is about to record, and a repair.
UsingSeq == pc \in Using => UpTo(OnDisk(tables, logs), vs.seq)
JobSeq == bg = "apply" => UpTo(Holds(tables, LiveOf(InUse) \cup job.edit.adds), job.edit.seq)
RepairSeq ==
  /\ pc \in {"rep_desc", "rep_mans", "rep_temp", "rep_rename"} => UpTo(Holds(tables, op.good), op.max)
  /\ pc \in {"rep_mans", "rep_temp", "rep_rename"} => op.edit.seq = op.max

SeqInv ==
  doubt # "lost" =>
    DiskSeq /\ UseSeq /\ ReplaySeq /\ ViewSeq /\ EditSeq /\ UsingSeq /\ JobSeq /\ RepairSeq

\* The invariant at each place, from the parts that speak of it.
LEMMA SeqDown ==
  ASSUME doubt' # "lost" => DiskSeq' /\ UseSeq', pc' \in {"down"} \cup Starting, bg' = "idle"
  PROVE  SeqInv'
BY DEF SeqInv, ReplaySeq, ViewSeq, EditSeq, UsingSeq, JobSeq, RepairSeq, Starting, Replaying, Applying,
       Cleaning, Using

\* While the logs are read;
LEMMA SeqReplay ==
  ASSUME doubt' # "lost" => DiskSeq' /\ UseSeq' /\ ReplaySeq', pc' \in Replaying, bg' = "idle"
  PROVE  SeqInv'
BY DEF SeqInv, ViewSeq, EditSeq, UsingSeq, JobSeq, RepairSeq, Replaying, Applying, Cleaning, Using

\* until ldb_open is done;
LEMMA SeqOpen ==
  ASSUME doubt' # "lost" => DiskSeq' /\ UseSeq' /\ ViewSeq' /\ EditSeq',
         pc' \in Applying \cup Cleaning, bg' = "idle"
  PROVE  SeqInv'
BY DEF SeqInv, ReplaySeq, UsingSeq, JobSeq, RepairSeq, Replaying, Applying, Cleaning, Using

\* in use;
LEMMA SeqUse ==
  ASSUME doubt' # "lost" => DiskSeq' /\ UseSeq' /\ UsingSeq' /\ JobSeq', pc' \in Using
  PROVE  SeqInv'
BY DEF SeqInv, ReplaySeq, ViewSeq, EditSeq, RepairSeq, Replaying, Applying, Cleaning, Using

\* and in a repair, where no promise is made.
LEMMA SeqRepair ==
  ASSUME doubt' # "lost" => DiskSeq' /\ RepairSeq', pc' \in Repairing, doubt' \in {"repair", "lost"},
         bg' = "idle"
  PROVE  SeqInv'
BY DEF SeqInv, UseSeq, ReplaySeq, ViewSeq, EditSeq, UsingSeq, JobSeq, Replaying, Applying, Cleaning,
       Using, Repairing, Promised

\* What is on the disk, file by file.
LEMMA DiskParts ==
  ASSUME NEW ts, NEW ls
  PROVE  /\ \A t \in DOMAIN ts : ts[t].ents \subseteq OnDisk(ts, ls)
         /\ \A l \in DOMAIN ls : Ents(ls[l].recs) \subseteq OnDisk(ts, ls)
         /\ \A n : Logged(ls, n) \subseteq OnDisk(ts, ls)
         /\ \A S : S \subseteq DOMAIN ts => Holds(ts, S) \subseteq OnDisk(ts, ls)
<1>1. \A t \in DOMAIN ts : ts[t].ents \subseteq OnDisk(ts, ls)
  BY DEF OnDisk, Holds
<1>2. \A l \in DOMAIN ls : Ents(ls[l].recs) \subseteq OnDisk(ts, ls)
  BY DEF OnDisk
<1>3. \A n : Logged(ls, n) \subseteq OnDisk(ts, ls)
  BY <1>2 DEF Logged, Since
<1>4. \A S : S \subseteq DOMAIN ts => Holds(ts, S) \subseteq OnDisk(ts, ls)
  BY <1>1 DEF Holds
<1> QED
  BY <1>1, <1>2, <1>3, <1>4

\* A disk whose files have nothing new.
LEMMA DiskFrom ==
  ASSUME NEW S, NEW ts, NEW ls, \A t \in DOMAIN ts : ts[t].ents \subseteq S,
         \A l \in DOMAIN ls : Ents(ls[l].recs) \subseteq S
  PROVE  OnDisk(ts, ls) \subseteq S
BY DEF OnDisk, Holds

\* The entries on the disk have numbers.
LEMMA DiskNumbers ==
  ASSUME DiskTypes
  PROVE  \A e \in OnDisk(tables, logs) : e \in LogEntry /\ e.seq \in Int
<1>1. ASSUME NEW t \in DOMAIN tables PROVE tables[t].ents \subseteq LogEntry
  <2>1. tables[t] \in TableFile
    BY DEF DiskTypes, TablesType
  <2> QED
    BY <2>1 DEF TableFile, EntrySet
<1>2. ASSUME NEW l \in DOMAIN logs PROVE Ents(logs[l].recs) \subseteq LogEntry
  <2>1. logs[l].recs \in Seq(LogEntry)
    BY DEF DiskTypes, LogsType, LogFile
  <2> QED
    BY <2>1 DEF Ents
<1>3. OnDisk(tables, logs) \subseteq LogEntry
  BY <1>1, <1>2, DiskFrom
<1> QED
  BY <1>3 DEF LogEntry

\* Fewer entries, and a higher bound.
LEMMA FewerEach ==
  ASSUME NEW S, OneEach(S), NEW T, T \subseteq S
  PROVE  OneEach(T)
BY DEF OneEach

\* A step that adds nothing to what is on the disk.
LEMMA DiskLess ==
  ASSUME \A t \in DOMAIN tables' : tables'[t].ents \subseteq OnDisk(tables, logs),
         \A l \in DOMAIN logs' : Ents(logs'[l].recs) \subseteq OnDisk(tables, logs)
  PROVE  OnDisk(tables', logs') \subseteq OnDisk(tables, logs) /\ (DiskSeq => DiskSeq')
<1>1. OnDisk(tables', logs') \subseteq OnDisk(tables, logs)
  BY DiskFrom
<1> QED
  BY <1>1, FewerEach DEF DiskSeq

\* Bounds of parts of what is on the disk.
LEMMA UpToMore ==
  ASSUME DiskTypes, NEW S, S \subseteq OnDisk(tables, logs), NEW m \in Int, NEW n \in Int, m <= n, UpTo(S, m)
  PROVE  UpTo(S, n)
BY DiskNumbers DEF UpTo

\* A step that leaves the manifest in use alone, and the tables it may name.
LEMMA UseStays ==
  ASSUME UseSeq, current' = current, Promised' => doubt' = doubt,
         Promised /\ current # None =>
           /\ manifests'[current] = manifests[current]
           /\ \A n \in Survivors : \A t \in LiveOf(SubSeq(InUse, 1, n)) \cap DOMAIN tables' :
                t \in DOMAIN tables /\ tables'[t].ents \subseteq tables[t].ents
  PROVE  UseSeq'
<1> SUFFICES ASSUME Promised', current' # None, NEW n \in Survivors'
             PROVE  Dated(tables', SubSeq(InUse', 1, n))
  BY DEF UseSeq
<1>1. Promised /\ InUse' = InUse /\ Survivors' = Survivors
  <2>1. Promised /\ doubt' = doubt
    BY DEF Promised
  <2> QED
    BY <2>1 DEF InUse, Survivors
<1>2. Dated(tables, SubSeq(InUse, 1, n))
  BY <1>1 DEF UseSeq
<1> QED
  BY <1>1, <1>2 DEF Dated, UpTo

\* CURRENT is switched to a manifest of which nothing can be lost.
LEMMA UseSwitch ==
  ASSUME DiskTypes', current' # None, current' \in DOMAIN manifests',
         Numbered(InUse') # {}, Len(InUse') = 1 \/ manifests'[current'].synced = Len(InUse'),
         Promised' => Dated(tables', InUse')
  PROVE  UseSeq'
<1>1. /\ InUse' \in Seq(Edit) /\ Ordered(InUse')
      /\ manifests'[current'].synced \in Nat /\ manifests'[current'].synced <= Len(InUse')
  BY DEF DiskTypes, ManifestsType, ManifestFile, InUse
<1>2. Len(InUse') \in Nat /\ Len(InUse') > 0
  BY <1>1, LastOrdered
<1>3. Survivors' = {Len(InUse')}
  <2>1. \A n \in Nat, s \in Nat : n > 0 /\ s <= n /\ (n = 1 \/ s = n) => Higher(1, s)..n = {n}
    BY DEF Higher
  <2> QED
    BY <1>1, <1>2, <2>1 DEF Survivors
<1>4. SubSeq(InUse', 1, Len(InUse')) = InUse'
  BY <1>1, <1>2, PrefixProps
<1> QED
  BY <1>3, <1>4 DEF UseSeq

\* An edit is added to the manifest in use.
LEMMA UseAppend ==
  ASSUME DiskTypes, UseSeq, current' = current, current \in DOMAIN manifests, doubt' = doubt, tables' = tables,
         NEW e \in Edit, e.next # -1, manifests'[current] = Write(manifests[current], e),
         Promised => \A t \in (LiveOf(InUse) \cup e.adds) \cap DOMAIN tables : UpTo(tables[t].ents, e.seq)
  PROVE  UseSeq'
<1> SUFFICES ASSUME Promised, current # None, NEW n \in Survivors'
             PROVE  Dated(tables, SubSeq(InUse', 1, n))
  BY DEF UseSeq, Promised
<1>1. /\ InUse \in Seq(Edit) /\ Len(InUse) \in Nat
      /\ manifests[current].synced \in Nat /\ manifests[current].synced <= Len(InUse)
  BY UseType
<1>2. InUse' = Append(InUse, e) /\ manifests'[current].synced = manifests[current].synced
  BY DEF InUse, Write
<1>3. /\ Append(InUse, e) \in Seq(Edit) /\ Len(Append(InUse, e)) = Len(InUse) + 1
      /\ LastEdit(Append(InUse, e)) = e /\ LiveOf(Append(InUse, e)) \subseteq LiveOf(InUse) \cup e.adds
  BY <1>1, LastAppend, LiveAppend
<1>4. Dated(tables, Append(InUse, e))
  BY <1>3 DEF Dated
<1>5. CASE n = Len(InUse) + 1
  <2>1. SubSeq(Append(InUse, e), 1, n) = Append(InUse, e)
    <3>1. Len(Append(InUse, e)) \in 0..Len(Append(InUse, e))
      BY <1>1, <1>3
    <3> QED
      BY <1>3, <1>5, <3>1, PrefixProps
  <2> QED
    BY <1>2, <1>4, <2>1
<1>6. CASE n # Len(InUse) + 1
  <2>1. doubt = "no" /\ n \in Higher(1, manifests[current].synced)..(Len(InUse) + 1)
    BY <1>2, <1>3, <1>6 DEF Survivors
  <2>2. n \in 0..Len(InUse) /\ n \in Survivors
    BY <1>1, <1>6, <2>1 DEF Survivors, Higher
  <2>3. SubSeq(InUse', 1, n) = SubSeq(InUse, 1, n)
    BY <1>1, <1>2, <2>2, PrefixProps
  <2> QED
    BY <2>2, <2>3 DEF UseSeq
<1> QED
  BY <1>5, <1>6

\* The manifest in use is synced.
LEMMA UseSynced ==
  ASSUME DiskTypes, Covered, UseSeq, current' = current, tables' = tables, Promised' => Promised,
         Promised /\ current # None => manifests'[current] = Whole(manifests[current])
  PROVE  UseSeq'
<1> SUFFICES ASSUME Promised, Promised', current # None, NEW n \in Survivors'
             PROVE  Dated(tables, SubSeq(InUse', 1, n))
  BY DEF UseSeq
<1>1. /\ Len(InUse) \in Survivors /\ current \in DOMAIN manifests /\ Len(InUse) > 0
  BY UseAccepted DEF Covered
<1>2. InUse \in Seq(Edit) /\ Len(InUse) \in Nat
  BY <1>1, UseType
<1>3. InUse' = InUse /\ manifests'[current].synced = Len(InUse)
  BY DEF InUse, Whole
<1>4. n = Len(InUse)
  BY <1>1, <1>2, <1>3 DEF Survivors, Higher
<1> QED
  BY <1>1, <1>3, <1>4 DEF UseSeq

\* A step that leaves the disk alone.
LEMMA SameDisk ==
  ASSUME UNCHANGED <<tables, logs, manifests, current>>, Promised' => doubt' = doubt
  PROVE  /\ DiskSeq => DiskSeq'
         /\ UseSeq => UseSeq'
<1>1. DiskSeq => DiskSeq'
  BY DEF DiskSeq
<1>2. UseSeq => UseSeq'
  BY UseStays
<1> QED
  BY <1>1, <1>2

\* ldb_open up to the manifest it reads.
LEMMA StartSeq ==
  ASSUME RecInv, SeqInv
  PROVE  /\ \A reuse \in BOOLEAN : OpenStart(reuse) => SeqInv'
         /\ NewDb => SeqInv'
         /\ RecoverFails => SeqInv'
<1>1. ASSUME NEW reuse \in BOOLEAN, OpenStart(reuse) PROVE SeqInv'
  <2>1. /\ UNCHANGED <<tables, current, bg>> /\ pc = "down" /\ pc' \in Starting
        /\ doubt' = (IF doubt = "repair" \/ Mixed THEN "lost" ELSE doubt)
    BY <1>1 DEF OpenStart, Starting
  <2>2. bg' = "idle"
    BY <2>1, BgRests DEF Using
  <2>3. PICK c \in Losses("log", logs), d \in Losses("manifest", manifests), bad \in {FALSE, Mixed} :
          /\ logs' = ReadBack("log", logs, c)
          /\ manifests' = IF bad THEN Put(ReadBack("manifest", manifests, d), current, EmptyLog)
                          ELSE ReadBack("manifest", manifests, d)
    BY <1>1 DEF OpenStart
  <2>t. LogsType(logs) /\ ManifestsType(manifests) /\ Covered
    BY DEF RecInv, DiskTypes
  <2>4. DiskSeq => DiskSeq'
    <3>1. DOMAIN logs' = DOMAIN logs /\ \A l \in DOMAIN logs : Ents(logs'[l].recs) \subseteq Ents(logs[l].recs)
      BY <2>t, <2>3, LogsReadBack
    <3>2. \A l \in DOMAIN logs' : Ents(logs'[l].recs) \subseteq OnDisk(tables, logs)
      BY <3>1, DiskParts
    <3> QED
      BY <2>1, <3>2, DiskParts, DiskLess
  <2>5. doubt' # "lost" /\ UseSeq => UseSeq'
    <3> SUFFICES ASSUME doubt' # "lost", UseSeq PROVE UseSeq'
      OBVIOUS
    <3>1. ~Mixed /\ doubt' = doubt /\ manifests' = ReadBack("manifest", manifests, d)
      <4>1. ~Mixed /\ doubt' = doubt
        BY <2>1
      <4>2. ~bad
        BY <4>1, Zenon
      <4> QED
        BY <2>3, <4>1, <4>2
    <3>2. Promised /\ current # None => current \in DOMAIN manifests
      BY <2>t DEF Covered
    <3>3. Promised /\ current # None => manifests'[current] = manifests[current]
      BY <2>t, <3>1, <3>2, ManifestsReadBack
    <3> QED
      BY <2>1, <3>1, <3>3, UseStays
  <2>6. doubt' # "lost" => DiskSeq' /\ UseSeq'
    BY <2>1, <2>4, <2>5 DEF SeqInv
  <2> QED
    BY <2>1, <2>2, <2>6, SeqDown
<1>2. CASE NewDb
  <2>1. UNCHANGED <<tables, logs, current, bg, doubt>> /\ pc = "newdb" /\ pc' = "temp"
    BY <1>2 DEF NewDb, ghost
  <2>2. bg' = "idle" /\ current = None
    BY <2>1, BgRests DEF Using, RecInv, StartInv, Starting
  <2>3. doubt' # "lost" => DiskSeq' /\ UseSeq'
    BY <2>1, <2>2 DEF SeqInv, DiskSeq, UseSeq
  <2> QED
    BY <2>1, <2>2, <2>3, SeqDown DEF Starting
<1>3. CASE RecoverFails
  <2>1. UNCHANGED <<tables, logs, manifests, current, bg, doubt>> /\ pc = "recover" /\ pc' = "down"
    BY <1>3 DEF RecoverFails, ghost, disk
  <2>2. bg' = "idle"
    BY <2>1, BgRests DEF Using
  <2>3. doubt' # "lost" => DiskSeq' /\ UseSeq'
    BY <2>1, SameDisk DEF SeqInv
  <2> QED
    BY <2>1, <2>2, <2>3, SeqDown
<1> QED
  BY <1>1, <1>2, <1>3

\* The temporary file for CURRENT.
LEMMA WriteTempSeq ==
  ASSUME RecInv, SeqInv, WriteTemp
  PROVE  SeqInv'
<1>u. /\ pc \in {"temp", "temp2", "rep_temp"}
      /\ pc' = (CASE pc = "temp" -> "rename" [] pc = "temp2" -> "rename2" [] OTHER -> "rep_rename")
      /\ UNCHANGED <<tables, logs, manifests, current, op, vs, db, bg, job, doubt>>
  BY DEF WriteTemp, ghost
<1>b. bg' = "idle"
  BY <1>u, BgRests DEF Using
<1>d. doubt' # "lost" => DiskSeq' /\ UseSeq'
  BY <1>u, SameDisk DEF SeqInv
<1>1. CASE pc = "temp"
  BY <1>u, <1>b, <1>d, <1>1, SeqDown DEF Starting
<1>2. CASE pc = "temp2"
  <2>1. pc \in Applying \ {"apply"} /\ pc' \in Applying \ {"apply"}
    BY <1>u, <1>2 DEF Applying
  <2>2. doubt' # "lost" => ViewSeq' /\ EditSeq'
    BY <1>u, <2>1 DEF SeqInv, ViewSeq, EditSeq, View
  <2> QED
    BY <1>b, <1>d, <2>1, <2>2, SeqOpen
<1>3. CASE pc = "rep_temp"
  <2>1. doubt' \in {"repair", "lost"} /\ pc' \in Repairing
    BY <1>u, <1>3 DEF RecInv, RepairInv, Repairing
  <2>2. doubt' # "lost" => RepairSeq'
    BY <1>u, <1>3 DEF SeqInv, RepairSeq
  <2> QED
    BY <1>b, <1>d, <2>1, <2>2, SeqRepair
<1> QED
  BY <1>u, <1>1, <1>2, <1>3

\* CURRENT names another manifest.
LEMMA RenameTempSeq ==
  ASSUME RecInv, RecInv', SeqInv, RenameTemp
  PROVE  SeqInv'
<1>u. /\ pc \in {"rename", "rename2", "rep_rename"} /\ current' = op.names
      /\ pc' = (CASE pc = "rename" -> "recover" [] pc = "rename2" -> "install" [] OTHER -> "down")
      /\ UNCHANGED <<tables, logs, manifests, op, vs, db, bg, job>>
  BY DEF RenameTemp
<1>b. bg' = "idle"
  BY <1>u, BgRests DEF Using
<1>t. DiskTypes' /\ op.edit \in Edit
  BY DEF RecInv, MemoryTypes, OpType
<1>d. doubt # "lost" => DiskSeq'
  BY <1>u DEF SeqInv, DiskSeq
<1>1. CASE pc = "rename"
  <2>0. /\ current' = 1 /\ 1 \in DOMAIN manifests /\ manifests[1] = [recs |-> <<FirstEdit>>, synced |-> 1]
    BY <1>u, <1>1 DEF RecInv, StartInv, Starting
  <2>1. doubt' = doubt
    BY <1>1 DEF RenameTemp
  <2>2. FirstEdit \in Edit /\ FirstEdit.next = 2 /\ FirstEdit.adds = {}
    BY NoTypes DEF FirstEdit, NoEdit
  <2>3. InUse' = <<FirstEdit>>
    BY <1>u, <2>0 DEF InUse
  <2>4. Numbered(InUse') # {} /\ Len(InUse') = 1 /\ LiveOf(InUse') = {}
    BY <2>2, <2>3, SingleEdit
  <2>5. UseSeq'
    BY <1>t, <1>u, <2>0, <2>4, UseSwitch DEF Dated, None
  <2> QED
    BY <1>u, <1>1, <1>b, <1>d, <2>1, <2>5, SeqDown DEF Starting
<1>2. CASE pc = "rename2"
  <2>0. /\ vs.manifest \in DOMAIN manifests /\ vs.manifest # None /\ op.names = vs.manifest
        /\ LiveOf(Written) = vs.live \cup op.edit.adds /\ Numbered(Written) # {} /\ LastEdit(Written) = op.edit
        /\ manifests[vs.manifest].synced = Len(Written)
    BY <1>2 DEF RecInv, ApplyInv, Applying
  <2>1. doubt' # "lost" => doubt # "lost"
    BY <1>2 DEF RenameTemp, Settled
  <2>2. pc \in Applying \ {"apply"} /\ pc' \in Applying \ {"apply"}
    BY <1>u, <1>2 DEF Applying
  <2>3. InUse' = Written /\ View' = View /\ View = vs.live \cup op.edit.adds
    BY <1>u, <2>0, <2>2 DEF InUse, Written, View
  <2>4. doubt # "lost" => ViewSeq' /\ EditSeq'
    BY <1>u, <2>2, <2>3 DEF SeqInv, ViewSeq, EditSeq
  <2>5. doubt # "lost" => Dated(tables', InUse')
    <3>1. doubt # "lost" => UpTo(Holds(tables, View), vs.seq) /\ op.edit.seq = vs.seq
      BY <2>2 DEF SeqInv, ViewSeq, EditSeq, UpTo
    <3> QED
      BY <3>1, <1>u, <2>0, <2>3 DEF Dated, UpTo, Holds
  <2>6. doubt # "lost" => UseSeq'
    BY <1>t, <1>u, <2>0, <2>3, <2>5, UseSwitch DEF Written
  <2> QED
    BY <1>b, <1>d, <2>1, <2>2, <2>4, <2>6, SeqOpen
<1>3. CASE pc = "rep_rename"
  <2>0. /\ op.names = 1 /\ op.edit.adds = op.good /\ op.edit.next = op.next /\ op.next > 0
        /\ 1 \in DOMAIN manifests /\ manifests[1].recs = <<op.edit>> /\ doubt \in {"repair", "lost"}
    BY <1>3 DEF RecInv, RepairInv, Repairing
  <2>1. doubt' # "lost" => doubt # "lost"
    BY <1>3, <2>0 DEF RenameTemp
  <2>2. op.edit.next # -1
    <3>1. op.next \in Nat
      BY DEF RecInv, MemoryTypes, OpType
    <3> QED
      BY <2>0, <3>1
  <2>3. InUse' = <<op.edit>>
    BY <1>u, <2>0 DEF InUse
  <2>4. Numbered(InUse') # {} /\ Len(InUse') = 1 /\ LiveOf(InUse') = op.good /\ LastEdit(InUse') = op.edit
    BY <1>t, <2>0, <2>2, <2>3, SingleEdit
  <2>5. doubt # "lost" => Dated(tables', InUse')
    <3>1. doubt # "lost" => UpTo(Holds(tables, op.good), op.max) /\ op.edit.seq = op.max
      BY <1>3 DEF SeqInv, RepairSeq
    <3> QED
      BY <3>1, <1>u, <2>4 DEF Dated, UpTo, Holds
  <2>6. doubt # "lost" => UseSeq'
    BY <1>t, <1>u, <2>0, <2>4, <2>5, UseSwitch DEF None
  <2> QED
    BY <1>u, <1>3, <1>b, <1>d, <2>1, <2>6, SeqDown
<1> QED
  BY <1>u, <1>1, <1>2, <1>3

\* The highest number of a log.
LEMMA MaxSeqBounds ==
  ASSUME NEW recs \in Seq(LogEntry), NEW m \in Int
  PROVE  /\ Higher(m, MaxSeq(recs)) \in Int /\ m <= Higher(m, MaxSeq(recs))
         /\ UpTo(Ents(recs), Higher(m, MaxSeq(recs)))
<1> DEFINE seqs == {recs[i].seq : i \in DOMAIN recs}
<1>1. seqs \subseteq Int
  <2>1. \A i \in DOMAIN recs : recs[i] \in LogEntry
    OBVIOUS
  <2> QED
    BY <2>1 DEF LogEntry
<1>2. IsFiniteSet(seqs)
  <2>1. IsFiniteSet(1..Len(recs)) /\ DOMAIN recs = 1..Len(recs)
    BY FS_Interval
  <2>2. [i \in DOMAIN recs |-> recs[i].seq] \in Surjection(DOMAIN recs, seqs)
    BY DEF Surjection
  <2> HIDE DEF seqs
  <2> QED
    BY <2>1, <2>2, FS_Surjection
<1>e. \A e \in Ents(recs) : e.seq \in seqs
  BY DEF Ents
<1>q. MaxSeq(recs) = Max({0} \cup seqs)
  BY DEF MaxSeq
<1> HIDE DEF seqs
<1> DEFINE S == {0} \cup seqs
<1>3. S \in SUBSET Int /\ S # {} /\ 0 \in S /\ seqs \subseteq S /\ S = seqs \cup {0}
  BY <1>1
<1>s. MaxSeq(recs) = Max(S)
  BY <1>q
<1> HIDE DEF S
<1>4. IsFiniteSet(S)
  BY <1>2, <1>3, FS_AddElement
<1>5. Max(S) \in S /\ \A x \in S : Max(S) >= x
  BY <1>3, <1>4, MaxProps
<1>6. MaxSeq(recs) \in Int /\ \A e \in Ents(recs) : e.seq \in Int /\ e.seq <= MaxSeq(recs)
  BY <1>1, <1>3, <1>5, <1>e, <1>s
<1> QED
  BY <1>6 DEF Higher, UpTo

\* ldb_versions_recover reads the manifest in use.
LEMMA VersionsRecoverSeq ==
  ASSUME RecInv, SeqInv, NEW small \in BOOLEAN, VersionsRecover(small)
  PROVE  SeqInv'
<1>u. /\ pc = "recover" /\ pc' = "logs" /\ vs'.seq = LastEdit(InUse).seq
      /\ op'.edit = op.edit /\ (doubt' = doubt \/ (doubt = "no" /\ doubt' = "reuse"))
      /\ UNCHANGED <<tables, logs, manifests, current, db, bg>>
  <2>1. op \in OpType
    BY DEF RecInv, MemoryTypes
  <2> QED
    BY <2>1 DEF VersionsRecover, InUse, disk, OpType
<1>b. bg' = "idle" /\ op.edit = NoEdit /\ db = NoDb /\ InUse' = InUse
  BY <1>u, BgRests DEF Using, RecInv, StartInv, Starting, InUse
<1>1. doubt' # "lost" => ReplaySeq'
  <2>1. db'.mem \cup Holds(tables', op'.edit.adds) = {}
    BY <1>u, <1>b DEF NoDb, NoEdit, Holds
  <2> QED
    BY <1>u, <1>b, <2>1 DEF ReplaySeq, UpTo
<1>2. doubt' # "lost" => DiskSeq' /\ UseSeq'
  <2>1. CASE doubt' = doubt
    BY <1>u, <2>1, SameDisk DEF SeqInv
  <2>2. CASE doubt' # doubt
    <3>1. DiskSeq /\ UseSeq /\ Promised /\ Survivors' = {Len(InUse)}
      BY <1>u, <1>b, <2>2 DEF SeqInv, Promised, Survivors
    <3>2. current # None => Len(InUse) \in Survivors
      BY <3>1, UseAccepted DEF RecInv
    <3> QED
      BY <1>u, <1>b, <3>1, <3>2 DEF DiskSeq, UseSeq
  <2> QED
    BY <2>1, <2>2
<1> QED
  BY <1>u, <1>b, <1>1, <1>2, SeqReplay DEF Replaying

\* The next log is read, and its end.
LEMMA NextLogSeq ==
  ASSUME RecInv, SeqInv, NextLog \/ ReplayEnds
  PROVE  SeqInv'
<1>t. op \in OpType /\ vs \in VersionsType
  BY DEF RecInv, MemoryTypes
<1>u. /\ pc \in Replaying /\ pc' \in Replaying /\ vs'.seq = vs.seq /\ op'.edit = op.edit /\ op'.max = op.max
      /\ UNCHANGED <<tables, logs, manifests, current, db, bg, doubt>>
      /\ (pc' = "replay" => op'.rest = logs[op'.log].recs)
  BY <1>t DEF NextLog, ReplayEnds, disk, ghost, Replaying, OpType, VersionsType
<1>b. bg' = "idle" /\ InUse' = InUse
  BY <1>u, BgRests DEF Using, Replaying, InUse
<1>1. doubt' # "lost" => DiskSeq' /\ UseSeq'
  BY <1>u, SameDisk DEF SeqInv
<1>2. doubt' # "lost" => ReplaySeq'
  BY <1>u, <1>b DEF SeqInv, ReplaySeq
<1> QED
  BY <1>u, <1>b, <1>1, <1>2, SeqReplay

\* A log is read into the memtable.
LEMMA ReplayAndKeepSeq ==
  ASSUME RecInv, SeqInv, ReplayAndKeep
  PROVE  SeqInv'
<1>t. op \in OpType /\ vs \in VersionsType /\ db \in DbType /\ DiskTypes
  BY DEF RecInv, MemoryTypes
<1>u. /\ pc = "replay" /\ pc' = "logs" /\ vs'.seq = vs.seq /\ op'.edit = op.edit
      /\ op'.max = Higher(op.max, MaxSeq(op.rest)) /\ db'.mem = Ents(op.rest)
      /\ UNCHANGED <<tables, logs, manifests, current, bg, doubt>>
  BY <1>t DEF ReplayAndKeep, disk, ghost, OpType, VersionsType, DbType
<1>b. bg' = "idle" /\ InUse' = InUse
  BY <1>u, BgRests DEF Using, InUse
<1>m. /\ op.max \in Int /\ op'.max \in Int /\ op.max <= op'.max /\ UpTo(db'.mem, op'.max)
  <2>1. op.rest \in Seq(LogEntry) /\ op.max \in Int
    BY <1>t DEF OpType
  <2> QED
    BY <1>u, <2>1, MaxSeqBounds
<1>1. doubt' # "lost" => DiskSeq' /\ UseSeq'
  BY <1>u, SameDisk DEF SeqInv
<1>2. doubt' # "lost" => ReplaySeq'
  <2>1. op.edit.adds \subseteq DOMAIN tables
    BY <1>u, InReplay DEF Reading, WholeOf
  <2>2. doubt' # "lost" => UpTo(Holds(tables, op.edit.adds), op.max) /\ vs.seq = LastEdit(InUse).seq
    BY <1>u DEF SeqInv, ReplaySeq, Replaying, UpTo
  <2>3. doubt' # "lost" => UpTo(Holds(tables, op.edit.adds), op'.max)
    BY <1>t, <1>m, <2>1, <2>2, UpToMore, DiskParts
  <2> QED
    BY <1>u, <1>b, <1>m, <2>2, <2>3 DEF ReplaySeq, UpTo
<1> QED
  BY <1>u, <1>b, <1>1, <1>2, SeqReplay DEF Replaying

\* A table is written whose entries are on the disk already.
LEMMA TableSeq ==
  ASSUME NEW n, NEW v, tables' = Put(tables, n, v), v.ents \subseteq OnDisk(tables, logs), logs' = logs
  PROVE  /\ OnDisk(tables', logs') \subseteq OnDisk(tables, logs) /\ (DiskSeq => DiskSeq')
         /\ tables'[n].ents = v.ents /\ DOMAIN tables' = DOMAIN tables \cup {n}
         /\ \A t \in DOMAIN tables : t # n => tables'[t] = tables[t]
<1>1. /\ DOMAIN tables' = DOMAIN tables \cup {n} /\ tables'[n] = v
      /\ \A t \in DOMAIN tables : t # n => tables'[t] = tables[t]
  BY DEF Put
<1>2. \A t \in DOMAIN tables' : tables'[t].ents \subseteq OnDisk(tables, logs)
  BY <1>1, DiskParts
<1>3. \A l \in DOMAIN logs' : Ents(logs'[l].recs) \subseteq OnDisk(tables, logs)
  BY DiskParts
<1> QED
  BY <1>1, <1>2, <1>3, DiskLess

\* That table is in no version which a crash may leave.
LEMMA UseOther ==
  ASSUME UseSeq, NEW n, UNCHANGED <<manifests, current>>, Promised' => doubt' = doubt,
         DOMAIN tables' \subseteq DOMAIN tables \cup {n},
         \A t \in DOMAIN tables' : t # n => tables'[t] = tables[t],
         Promised /\ current # None => \A m \in Survivors : n \notin LiveOf(SubSeq(InUse, 1, m))
  PROVE  UseSeq'
<1>1. Promised /\ current # None =>
        \A m \in Survivors : \A t \in LiveOf(SubSeq(InUse, 1, m)) \cap DOMAIN tables' :
          t \in DOMAIN tables /\ tables'[t].ents \subseteq tables[t].ents
  OBVIOUS
<1> QED
  BY <1>1, UseStays

\* A part of a log is written to a table.
LEMMA ReplayToTableSeq ==
  ASSUME RecInv, SeqInv, NEW n \in Nat, ReplayToTable(n)
  PROVE  SeqInv'
<1> DEFINE chunk == SubSeq(op.rest, 1, n)
           rest  == SubSeq(op.rest, n + 1, Len(op.rest))
           adds  == op.edit.adds \cup {vs.next}
<1>u. /\ pc = "replay" /\ pc' = "replay" /\ n \in 1..Len(op.rest)
      /\ tables' = Put(tables, vs.next, Table(Ents(chunk)))
      /\ op' = [op EXCEPT !.rest = rest, !.tabs = op.tabs + 1, !.save = TRUE,
                          !.max = Higher(op.max, MaxSeq(chunk)), !.edit.adds = adds]
      /\ vs' = [vs EXCEPT !.next = vs.next + 1]
      /\ UNCHANGED <<logs, manifests, current, db, bg, doubt>>
  BY DEF ReplayToTable, ghost
<1>b. bg' = "idle" /\ InUse' = InUse
  BY <1>u, BgRests DEF Using, InUse
<1>t. DiskTypes /\ Covered /\ op \in OpType /\ vs \in VersionsType /\ op.edit \in Edit
      /\ op.rest \in Seq(LogEntry) /\ op.max \in Int /\ vs.next \in Number
  <2>1. DiskTypes /\ Covered /\ op \in OpType /\ vs \in VersionsType
    BY DEF RecInv, MemoryTypes
  <2> QED
    BY <2>1 DEF OpType, VersionsType
<1>r. Reading
  BY <1>u, InReplay
<1>c. /\ chunk \in Seq(LogEntry) /\ Ents(op.rest) = Ents(chunk) \cup Ents(rest)
  BY <1>u, <1>t, EntsCut
<1> HIDE DEF chunk, rest, adds
<1>m. LET max == Higher(op.max, MaxSeq(chunk)) IN max \in Int /\ op.max <= max /\ UpTo(Ents(chunk), max)
  BY <1>t, <1>c, MaxSeqBounds
<1>o. /\ op'.edit.adds = adds /\ op'.rest = rest /\ op'.log = op.log
      /\ op'.max = Higher(op.max, MaxSeq(chunk)) /\ vs'.seq = vs.seq
  <2>1. [op.edit EXCEPT !.adds = adds].adds = adds
    BY <1>t DEF Edit
  <2> QED
    BY <1>u, <1>t, <2>1 DEF OpType, VersionsType
<1>n. /\ Promised /\ current # None => \A m \in Survivors : vs.next \notin LiveOf(SubSeq(InUse, 1, m))
      /\ vs.next \notin op.edit.adds
  <2>1. current \in DOMAIN manifests /\ Numbered(InUse) # {} /\ LastEdit(InUse).next < vs.next
    BY <1>u DEF RecInv, ManifestInv, Replaying
  <2>2. LastEdit(InUse).next \in Number
    BY <1>t, <2>1, UseType, LastOrdered
  <2>3. LastEdit(InUse).next <= vs.next /\ vs.next \in Int /\ ~(vs.next < vs.next)
    BY <1>t, <2>1, <2>2 DEF Number
  <2> QED
    BY <1>t, <1>r, <2>3, FreshNumber DEF Reading
<1>s. doubt # "lost" => /\ DiskSeq /\ UseSeq /\ vs.seq = LastEdit(InUse).seq
                        /\ UpTo(db.mem, op.max) /\ UpTo(Holds(tables, op.edit.adds), op.max)
                        /\ Ents(op.rest) \subseteq Ents(logs[op.log].recs)
  BY <1>u DEF SeqInv, ReplaySeq, Replaying, UpTo
<1>d. doubt # "lost" =>
        /\ DiskSeq' /\ tables'[vs.next].ents = Ents(chunk) /\ DOMAIN tables' = DOMAIN tables \cup {vs.next}
        /\ \A t \in DOMAIN tables : t # vs.next => tables'[t] = tables[t]
  <2>1. Table(Ents(chunk)).ents = Ents(chunk)
    BY DEF Table
  <2>2. doubt # "lost" => Ents(chunk) \subseteq OnDisk(tables, logs)
    BY <1>s, <1>c, <1>r, DiskParts DEF Reading, Since
  <2>3. ASSUME doubt # "lost"
        PROVE  /\ DiskSeq' /\ tables'[vs.next].ents = Table(Ents(chunk)).ents
               /\ DOMAIN tables' = DOMAIN tables \cup {vs.next}
               /\ \A t \in DOMAIN tables : t # vs.next => tables'[t] = tables[t]
    <3>1. Table(Ents(chunk)).ents \subseteq OnDisk(tables, logs) /\ DiskSeq
      BY <1>s, <2>1, <2>2, <2>3
    <3>2. tables' = Put(tables, vs.next, Table(Ents(chunk))) /\ logs' = logs
      BY <1>u
    <3> QED
      BY <3>1, <3>2, TableSeq
  <2> QED
    BY <2>1, <2>3
<1>1. doubt' # "lost" => DiskSeq' /\ UseSeq'
  <2>1. doubt # "lost" => UseSeq'
    BY <1>u, <1>d, <1>n, <1>s, UseOther
  <2> QED
    BY <1>u, <1>d, <2>1
<1>2. doubt' # "lost" => ReplaySeq'
  <2>1. op.edit.adds \subseteq DOMAIN tables
    BY <1>r DEF Reading, WholeOf
  <2>2. doubt # "lost" => UpTo(Holds(tables, op.edit.adds), op'.max)
    BY <1>t, <1>m, <1>o, <1>s, <2>1, UpToMore, DiskParts
  <2>3. doubt # "lost" => UpTo(Holds(tables', adds), op'.max)
    BY <1>m, <1>o, <1>d, <1>n, <2>1, <2>2 DEF UpTo, Holds, adds
  <2>4. db.mem = {}
    BY <1>r DEF Reading
  <2> QED
    BY <1>u, <1>b, <1>c, <1>o, <1>s, <2>3, <2>4 DEF ReplaySeq, UpTo
<1> QED
  BY <1>u, <1>b, <1>1, <1>2, SeqReplay DEF Replaying

\* ldb_recover is done: the number to go on from is above the version found and the logs read.
LEMMA RecoverEndsSeq ==
  ASSUME RecInv, SeqInv, RecoverEnds
  PROVE  SeqInv'
<1>t. DiskTypes /\ Covered /\ op \in OpType /\ vs \in VersionsType /\ db \in DbType
      /\ vs.seq \in Int /\ op.max \in Int
  <2>1. DiskTypes /\ Covered /\ op \in OpType /\ vs \in VersionsType /\ db \in DbType
    BY DEF RecInv, MemoryTypes
  <2> QED
    BY <2>1 DEF OpType, VersionsType
<1>u. /\ pc = "logs" /\ op.logs = {} /\ pc' = (IF op.save THEN "apply" ELSE "clean")
      /\ UNCHANGED <<tables, manifests, current, op, bg, doubt>>
      /\ vs'.seq = Higher(vs.seq, op.max) /\ vs'.log = vs.log /\ vs'.live = vs.live
      /\ (logs' = logs \/ logs' = Put(logs, vs.next, EmptyLog))
  BY <1>t DEF RecoverEnds, ghost, VersionsType
<1>b. bg' = "idle" /\ pc' \in Applying \cup Cleaning /\ pc \in Replaying
  BY <1>u, BgRests DEF Using, Applying, Cleaning, Replaying
<1>l. /\ DOMAIN logs \subseteq DOMAIN logs'
      /\ \A l \in DOMAIN logs' : Ents(logs'[l].recs) = {} \/ (l \in DOMAIN logs /\ logs'[l] = logs[l])
  <2>1. Ents(EmptyLog.recs) = {}
    BY DEF EmptyLog, Ents
  <2> QED
    BY <1>u, <2>1 DEF Put
<1>1. doubt' # "lost" => DiskSeq' /\ UseSeq'
  <2>1. \A t \in DOMAIN tables' : tables'[t].ents \subseteq OnDisk(tables, logs)
    BY <1>u, DiskParts
  <2>2. \A l \in DOMAIN logs' : Ents(logs'[l].recs) \subseteq OnDisk(tables, logs)
    BY <1>l, DiskParts
  <2>3. UseSeq => UseSeq'
    BY <1>u, UseStays
  <2> QED
    BY <1>u, <2>1, <2>2, <2>3, DiskLess DEF SeqInv
<1>m. /\ current \in DOMAIN manifests /\ vs.live = LiveOf(InUse) /\ Numbered(InUse) # {}
      /\ vs.log = LastEdit(InUse).log
  BY <1>b DEF RecInv, ManifestInv
<1>r. /\ op.edit.adds # {} => op.save
      /\ op.edit.adds \subseteq DOMAIN tables /\ vs.live \subseteq DOMAIN tables
      /\ IF db.logfile = 0 THEN db.mem = {}
         ELSE db.logfile \in Since(logs, vs.log) /\ db.mem = Ents(logs[db.logfile].recs)
      /\ \A k \in Since(logs, vs.log) :
           k # db.logfile => Ents(logs[k].recs) \subseteq Holds(tables, op.edit.adds)
  BY <1>u DEF RecInv, ReplayInv, Replaying, WholeOf
<1>n. vs'.seq \in Int /\ vs.seq <= vs'.seq /\ op.max <= vs'.seq
  BY <1>u, <1>t DEF Higher
<1>2. doubt' # "lost" => ViewSeq'
  <2> SUFFICES ASSUME doubt # "lost" PROVE ViewSeq'
    BY <1>u
  <2>s. /\ UseSeq /\ vs.seq = LastEdit(InUse).seq /\ UpTo(db.mem \cup Holds(tables, op.edit.adds), op.max)
    BY <1>b DEF SeqInv, ReplaySeq
  <2>p. Promised /\ current # None
    <3>1. doubt # "repair" /\ doubt \in {"no", "repair", "reuse", "lost"}
      BY <1>u, NoRepair DEF Repairing, RecInv, MemoryTypes
    <3> QED
      BY <1>t, <1>m, <3>1, UseType DEF Promised, Number, None
  <2>1. UpTo(Holds(tables, vs.live), vs.seq)
    <3>1. Len(InUse) \in Survivors /\ InUse \in Seq(Edit) /\ Len(InUse) \in Nat
      BY <1>t, <1>m, <2>p, UseAccepted, UseType
    <3>2. SubSeq(InUse, 1, Len(InUse)) = InUse
      BY <3>1, PrefixProps
    <3>3. Dated(tables, InUse)
      BY <2>s, <2>p, <3>1, <3>2 DEF UseSeq
    <3> QED
      BY <1>m, <1>r, <2>s, <3>3 DEF Dated, UpTo, Holds
  <2>2. UpTo(Holds(tables, vs.live), vs'.seq)
    BY <1>t, <1>n, <1>r, <2>1, UpToMore, DiskParts
  <2>3. Logged(logs, vs.log) \subseteq db.mem \cup Holds(tables, op.edit.adds)
    <3>1. \A l \in Since(logs, vs.log) : Ents(logs[l].recs) \subseteq db.mem \cup Holds(tables, op.edit.adds)
      <4>1. \A l \in Since(logs, vs.log) : l # 0
        BY <1>t DEF DiskTypes, LogsType, Since, Number
      <4> QED
        BY <1>r, <4>1
    <3> QED
      BY <3>1 DEF Logged
  <2>4. Logged(logs', vs'.log) \subseteq Logged(logs, vs.log)
    BY <1>u, <1>l DEF Logged, Since
  <2>5. UpTo(db.mem \cup Holds(tables, op.edit.adds), vs'.seq)
    <3>1. db.mem \cup Holds(tables, op.edit.adds) \subseteq OnDisk(tables, logs)
      BY <1>r, DiskParts DEF Since
    <3> QED
      BY <1>t, <1>n, <2>s, <3>1, UpToMore
  <2>6. Holds(tables', View') \subseteq Holds(tables, vs.live) \cup Holds(tables, op.edit.adds)
    <3>1. View' \subseteq vs.live \cup op.edit.adds
      BY <1>u DEF View
    <3> QED
      BY <1>u, <3>1 DEF Holds
  <2> QED
    BY <2>2, <2>3, <2>4, <2>5, <2>6 DEF ViewSeq, UpTo
<1>3. doubt' # "lost" => EditSeq'
  BY <1>u DEF EditSeq, Applying
<1> QED
  BY <1>b, <1>1, <1>2, <1>3, SeqOpen

\* The edit of ldb_open carries the number to go on from.
LEMMA OpenApplySeq ==
  ASSUME RecInv, SeqInv, OpenApply
  PROVE  SeqInv'
<1> DEFINE edit == FillEdit(op.edit, db.logfile)
           man == IF vs.desc = None THEN Write(EmptyLog, Snapshot) ELSE manifests[vs.desc]
<1>u. /\ pc = "apply" /\ pc' = "sync"
      /\ manifests' = Put(manifests, vs.manifest, Write(man, edit))
      /\ op' = [op EXCEPT !.edit = edit, !.names = vs.manifest]
      /\ UNCHANGED <<tables, logs, current, vs, bg, doubt>>
  BY DEF OpenApply, ghost
<1>b. bg' = "idle" /\ pc \in Applying /\ pc' \in Applying
  BY <1>u, BgRests DEF Using, Applying
<1>t. DiskTypes /\ Covered /\ op \in OpType /\ vs \in VersionsType /\ db \in DbType /\ op.edit \in Edit
      /\ vs.next \in Number /\ vs.seq \in Int /\ db.logfile \in Nat
  <2>1. DiskTypes /\ Covered /\ op \in OpType /\ vs \in VersionsType /\ db \in DbType
    BY DEF RecInv, MemoryTypes
  <2> QED
    BY <2>1 DEF OpType, VersionsType, DbType
<1>m. /\ current \in DOMAIN manifests /\ Numbered(InUse) # {} /\ vs.live = LiveOf(InUse)
      /\ \/ vs.desc = None /\ vs.manifest = LastEdit(InUse).next
         \/ vs.desc = current /\ vs.manifest = current /\ current # None
  BY <1>u DEF RecInv, ManifestInv, Replaying
<1>e. edit \in Edit /\ edit.adds = op.edit.adds /\ edit.next # -1 /\ edit.seq = vs.seq
  <2>1. vs.next # -1 /\ db.logfile \in Int
    BY <1>t DEF Number
  <2> QED
    BY <1>t, <2>1 DEF FillEdit, Edit
<1>p. \/ vs.manifest # current /\ manifests'[current] = manifests[current]
      \/ ~Promised
      \/ manifests'[current] = Write(manifests[current], edit)
  <2>1. CASE vs.desc # None
    BY <1>u, <1>m, <2>1 DEF Put
  <2>2. CASE vs.desc = None /\ Promised
    <3>1. current # None /\ current \in Number
      BY <1>t, <1>m, UseType DEF Number, None
    <3>2. current < LastEdit(InUse).next /\ LastEdit(InUse).next \in Number
      BY <1>t, <2>2, <3>1, UseAccepted
    <3>3. vs.manifest # current
      BY <1>m, <2>2, <3>1, <3>2 DEF Number
    <3> QED
      BY <1>u, <1>m, <3>3 DEF Put
  <2> QED
    BY <2>1, <2>2
<1> HIDE DEF edit, man
<1>o. op'.edit = edit /\ View = vs.live \cup op.edit.adds /\ View' = View
  <2>1. op'.edit = edit
    BY <1>u, <1>t DEF OpType
  <2> QED
    BY <1>u, <1>b, <1>e, <2>1 DEF View
<1>1. doubt' # "lost" => ViewSeq' /\ EditSeq'
  BY <1>u, <1>b, <1>e, <1>o DEF SeqInv, ViewSeq, EditSeq
<1>2. doubt' # "lost" => DiskSeq'
  BY <1>u DEF SeqInv, DiskSeq
<1>3. doubt' # "lost" => UseSeq'
  <2> SUFFICES ASSUME doubt # "lost" PROVE UseSeq'
    BY <1>u
  <2>s. UseSeq /\ UpTo(Holds(tables, View), vs.seq)
    BY <1>b DEF SeqInv, ViewSeq, UpTo
  <2>1. CASE manifests'[current] = manifests[current]
    BY <1>u, <2>s, <2>1, UseStays
  <2>2. CASE manifests'[current] = Write(manifests[current], edit)
    <3>1. \A t \in (LiveOf(InUse) \cup edit.adds) \cap DOMAIN tables : UpTo(tables[t].ents, edit.seq)
      BY <1>m, <1>e, <1>o, <2>s DEF UpTo, Holds
    <3> QED
      BY <1>t, <1>u, <1>m, <1>e, <2>s, <2>2, <3>1, UseAppend
  <2>3. CASE ~Promised
    BY <1>u, <2>3 DEF UseSeq, Promised
  <2> QED
    BY <1>p, <2>1, <2>2, <2>3
<1> QED
  BY <1>b, <1>1, <1>2, <1>3, SeqOpen

\* The manifest of ldb_open is synced.
LEMMA OpenSyncSeq ==
  ASSUME RecInv, SeqInv, OpenSync
  PROVE  SeqInv'
<1>u. /\ pc = "sync" /\ pc' = (IF vs.desc = None THEN "temp2" ELSE "install")
      /\ manifests' = [manifests EXCEPT ![vs.manifest] = Whole(manifests[vs.manifest])]
      /\ doubt' = (IF vs.desc = None THEN doubt ELSE Settled)
      /\ UNCHANGED <<tables, logs, current, op, vs, db, bg>>
  BY DEF OpenSync
<1>b. /\ bg' = "idle" /\ pc \in Applying \ {"apply"} /\ pc' \in Applying \ {"apply"}
  BY <1>u, BgRests DEF Using, Applying
<1>a. /\ vs.manifest \in DOMAIN manifests /\ (vs.desc # None => vs.manifest = current)
      /\ (Promised /\ vs.desc = None => vs.manifest # current)
  BY <1>u, InApply
<1>d. (Promised' => Promised) /\ (doubt' # "lost" => doubt # "lost")
  BY <1>u, NoRepair DEF Settled, Repairing, Promised
<1>1. doubt' # "lost" => ViewSeq' /\ EditSeq' /\ DiskSeq'
  <2>1. View' = View
    BY <1>u, <1>b DEF View
  <2> QED
    BY <1>u, <1>b, <1>d, <2>1 DEF SeqInv, ViewSeq, EditSeq, DiskSeq
<1>2. doubt' # "lost" => UseSeq'
  <2> SUFFICES ASSUME doubt # "lost" PROVE UseSeq'
    BY <1>d
  <2>s. UseSeq /\ DiskTypes /\ Covered
    BY DEF SeqInv, RecInv
  <2>1. CASE vs.desc = None
    <3>1. doubt' = doubt /\ (Promised /\ current # None => manifests'[current] = manifests[current])
      BY <1>u, <1>a, <2>1
    <3> QED
      BY <1>u, <2>s, <3>1, UseStays
  <2>2. CASE vs.desc # None
    <3>1. manifests'[current] = Whole(manifests[current])
      BY <1>u, <1>a, <2>2
    <3> QED
      BY <1>u, <1>d, <2>s, <3>1, UseSynced
  <2> QED
    BY <2>1, <2>2
<1> QED
  BY <1>b, <1>1, <1>2, SeqOpen

\* ldb_open gives up: CURRENT names what it did.
LEMMA OpenApplyFailsSeq ==
  ASSUME RecInv, SeqInv, OpenApplyFails
  PROVE  SeqInv'
<1>u. /\ pc \in {"apply", "sync", "temp2", "rename2"} /\ pc' = "down"
      /\ manifests' = (IF vs.desc = None THEN Drop(manifests, {vs.manifest}) ELSE manifests)
      /\ UNCHANGED <<tables, logs, current, bg, doubt>>
  BY DEF OpenApplyFails
<1>b. bg' = "idle"
  BY <1>u, BgRests DEF Using
<1>1. Promised /\ current # None => manifests'[current] = manifests[current]
  <2> SUFFICES ASSUME Promised, current # None, vs.desc = None PROVE manifests'[current] = manifests[current]
    BY <1>u
  <2>1. DiskTypes /\ Covered /\ current \in DOMAIN manifests
    BY DEF RecInv, Covered
  <2>2. vs.manifest # current
    <3>1. CASE pc = "apply"
      <4>1. vs.manifest = LastEdit(InUse).next
        BY <3>1 DEF RecInv, ManifestInv
      <4>2. current < LastEdit(InUse).next /\ LastEdit(InUse).next \in Number /\ current \in Number
        BY <2>1, UseAccepted, UseType
      <4> QED
        BY <4>1, <4>2 DEF Number
    <3>2. CASE pc # "apply"
      BY <1>u, <3>2, InApply
    <3> QED
      BY <3>1, <3>2
  <2> QED
    BY <1>u, <2>1, <2>2 DEF Drop, Restrict
<1>2. doubt' # "lost" => DiskSeq' /\ UseSeq'
  <2>1. UseSeq => UseSeq'
    BY <1>u, <1>1, UseStays
  <2> QED
    BY <1>u, <2>1 DEF SeqInv, DiskSeq
<1> QED
  BY <1>u, <1>b, <1>2, SeqDown

\* The version ldb_open has recorded is installed.
LEMMA OpenInstallSeq ==
  ASSUME RecInv, SeqInv, OpenInstall
  PROVE  SeqInv'
<1>t. vs \in VersionsType /\ op.edit \in Edit /\ DiskTypes
  BY DEF RecInv, MemoryTypes, OpType
<1>u. /\ pc = "install" /\ pc' = "clean" /\ vs'.seq = vs.seq
      /\ vs'.live = (vs.live \ op.edit.dels) \cup op.edit.adds /\ vs'.log = op.edit.log
      /\ UNCHANGED <<tables, logs, manifests, current, bg, doubt>>
  BY <1>t DEF OpenInstall, Install, disk, ghost, VersionsType
<1>b. bg' = "idle" /\ pc' \in Applying \cup Cleaning
  BY <1>u, BgRests DEF Using, Cleaning
<1>a. View = vs.live \cup op.edit.adds /\ op.edit.dels = {} /\ op.edit.log = db.logfile
  BY <1>u, InApply
<1>v. View' = View
  BY <1>u, <1>a DEF View, Applying
<1>l. Logged(logs, vs'.log) \subseteq Logged(logs, vs.log)
  <2>1. vs.log <= db.logfile /\ db.logfile \in DOMAIN logs
    BY <1>u DEF RecInv, MemoryInv, Serving, Applying
  <2>2. vs.log \in Int /\ DOMAIN logs \subseteq Int
    BY <1>t DEF VersionsType, DiskTypes, LogsType, Number
  <2>3. Since(logs, vs'.log) \subseteq Since(logs, vs.log)
    BY <1>u, <1>a, <2>1, <2>2 DEF Since
  <2> QED
    BY <2>3 DEF Logged
<1>1. doubt' # "lost" => DiskSeq' /\ UseSeq'
  BY <1>u, SameDisk DEF SeqInv
<1>2. doubt' # "lost" => ViewSeq' /\ EditSeq'
  <2>1. doubt # "lost" => UpTo(Holds(tables, View) \cup Logged(logs, vs.log), vs.seq)
    BY <1>u DEF SeqInv, ViewSeq, Applying
  <2> QED
    BY <1>u, <1>v, <1>l, <2>1 DEF ViewSeq, EditSeq, Applying, UpTo
<1> QED
  BY <1>b, <1>1, <1>2, SeqOpen

\* What is obsolete is decided.
LEMMA OpenCleanSeq ==
  ASSUME RecInv, SeqInv, OpenClean
  PROVE  SeqInv'
<1>u. /\ pc = "clean" /\ pc' = "kill" /\ UNCHANGED <<tables, logs, manifests, current, vs, db, bg, doubt>>
  BY DEF OpenClean, disk, ghost
<1>b. bg' = "idle" /\ pc' \in Applying \cup Cleaning /\ View' = View
  BY <1>u, BgRests DEF Using, Cleaning, View, Applying
<1>1. doubt' # "lost" => DiskSeq' /\ UseSeq'
  BY <1>u, SameDisk DEF SeqInv
<1>2. doubt' # "lost" => ViewSeq' /\ EditSeq'
  BY <1>u, <1>b DEF SeqInv, ViewSeq, EditSeq, Applying, Cleaning
<1> QED
  BY <1>b, <1>1, <1>2, SeqOpen

\* A file that is not needed is removed.
LEMMA RemoveSeq ==
  ASSUME RecInv, pc \in Cleaning \cup Using, NEW f \in FileNames, Unneeded(f), RemoveFiles({f}),
         UNCHANGED <<current, doubt>>
  PROVE  /\ DOMAIN tables' \subseteq DOMAIN tables /\ \A t \in DOMAIN tables' : tables'[t] = tables[t]
         /\ OnDisk(tables', logs') \subseteq OnDisk(tables, logs)
         /\ \A n : Logged(logs', n) \subseteq Logged(logs, n)
         /\ DiskSeq => DiskSeq'
         /\ UseSeq => UseSeq'
<1>1. f[1] \in {"log", "manifest", "table", "temp"}
  BY DEF FileNames
<1>2. /\ DOMAIN logs' \subseteq DOMAIN logs
      /\ \A m \in DOMAIN manifests : ~(f[1] = "manifest" /\ f[2] = m) => manifests'[m] = manifests[m]
      /\ DOMAIN tables' \subseteq DOMAIN tables /\ \A t \in DOMAIN tables' : tables'[t] = tables[t]
  BY <1>1, RemoveEffect
<1>3. \A l \in DOMAIN logs' : logs'[l] = logs[l]
  BY DEF RemoveFiles, Drop, Restrict
<1>4. manifests'[current] = manifests[current]
  <2>1. current \in DOMAIN manifests /\ vs.manifest = current
    BY DEF RecInv, LinkInv
  <2>2. f[1] = "manifest" => f[2] # current
    <3>1. current \in Nat
      BY DEF RecInv, DiskTypes
    <3>2. f[1] = "manifest" => f[2] < current
      BY <2>1 DEF Unneeded
    <3> QED
      BY <3>1, <3>2
  <2> QED
    BY <1>2, <2>1, <2>2
<1>5. OnDisk(tables', logs') \subseteq OnDisk(tables, logs) /\ (DiskSeq => DiskSeq')
  <2>1. \A t \in DOMAIN tables' : tables'[t].ents \subseteq OnDisk(tables, logs)
    BY <1>2, DiskParts
  <2>2. \A l \in DOMAIN logs' : Ents(logs'[l].recs) \subseteq OnDisk(tables, logs)
    BY <1>2, <1>3, DiskParts
  <2> QED
    BY <2>1, <2>2, DiskLess
<1>6. UseSeq => UseSeq'
  BY <1>2, <1>4, UseStays
<1>7. \A n : Logged(logs', n) \subseteq Logged(logs, n)
  BY <1>2, <1>3 DEF Logged, Since
<1> QED
  BY <1>2, <1>5, <1>6, <1>7

\* ldb_open removes a file.
LEMMA OpenRemoveSeq ==
  ASSUME RecInv, SeqInv, OpenRemove
  PROVE  SeqInv'
<1>u. pc = "kill" /\ UNCHANGED <<current, pc, vs, db, bg, acked, synced, doubt>>
  BY DEF OpenRemove, ghost
<1>f. PICK f \in op.kill : RemoveFiles({f})
  BY DEF OpenRemove
<1>b. bg' = "idle" /\ pc' \in Applying \cup Cleaning /\ pc \in Cleaning
  BY <1>u, BgRests DEF Using, Cleaning
<1>k. f \in FileNames /\ Unneeded(f)
  <2>1. op.kill \subseteq FileNames
    BY DEF RecInv, MemoryTypes, OpType
  <2> QED
    BY <1>u, <1>f, <2>1 DEF RecInv, KillInv
<1>v. View' = View /\ View \subseteq DOMAIN tables /\ View = vs.live
  BY <1>u DEF View, Applying, RecInv, MemoryInv, Serving, Cleaning
<1>1. /\ \A t \in DOMAIN tables' : tables'[t] = tables[t]
      /\ \A n : Logged(logs', n) \subseteq Logged(logs, n)
      /\ DiskSeq => DiskSeq'
      /\ UseSeq => UseSeq'
  BY <1>u, <1>b, <1>f, <1>k, RemoveSeq
<1>2. \A t \in View : t \in DOMAIN tables' /\ tables'[t] = tables[t]
  BY <1>u, <1>b, <1>f, <1>k, <1>v, RemoveOne
<1>3. doubt' # "lost" => ViewSeq' /\ EditSeq'
  <2>1. Holds(tables', View') \subseteq Holds(tables, View)
    BY <1>v, <1>2 DEF Holds
  <2>2. doubt # "lost" => UpTo(Holds(tables, View) \cup Logged(logs, vs.log), vs.seq)
    BY <1>b DEF SeqInv, ViewSeq
  <2> QED
    BY <1>u, <1>1, <2>1, <2>2 DEF ViewSeq, EditSeq, Applying, UpTo
<1> QED
  BY <1>u, <1>b, <1>1, <1>3, SeqOpen DEF SeqInv

\* ldb_open is done, and what nobody needs is gone: the next number is above all that is left.
LEMMA OpenEndsSeq ==
  ASSUME RecInv, SeqInv, OpenEnds
  PROVE  SeqInv'
<1>u. pc = "kill" /\ pc' = "open" /\ op.kill = {} /\ UNCHANGED <<tables, logs, manifests, current, vs, bg, doubt>>
  BY DEF OpenEnds, disk, ghost
<1>b. bg' = "idle" /\ pc' \in Using
  BY <1>u, BgRests DEF Using
<1>1. doubt' # "lost" => DiskSeq' /\ UseSeq'
  BY <1>u, SameDisk DEF SeqInv
<1>2. OnDisk(tables, logs) \subseteq Holds(tables, View) \cup Logged(logs, vs.log)
  <2>1. \A f \in Files : Kept(f)
    BY <1>u DEF RecInv, KillInv
  <2>2. db.pending = {} /\ View = vs.live
    BY <1>u DEF RecInv, MemoryInv, Serving, Cleaning, Using, View, Applying
  <2>3. ASSUME NEW t \in DOMAIN tables PROVE tables[t].ents \subseteq Holds(tables, View)
    <3>1. <<"table", t>> \in Files
      BY DEF Files
    <3>2. t \in vs.live
      BY <2>1, <2>2, <3>1 DEF Kept
    <3> QED
      BY <2>2, <3>2 DEF Holds
  <2>4. ASSUME NEW l \in DOMAIN logs PROVE Ents(logs[l].recs) \subseteq Logged(logs, vs.log)
    <3>1. <<"log", l>> \in Files
      BY DEF Files
    <3>2. l >= vs.log
      BY <2>1, <3>1 DEF Kept
    <3> QED
      BY <3>2 DEF Logged, Since
  <2>5. /\ \A t \in DOMAIN tables : tables[t].ents \subseteq Holds(tables, View) \cup Logged(logs, vs.log)
        /\ \A l \in DOMAIN logs : Ents(logs[l].recs) \subseteq Holds(tables, View) \cup Logged(logs, vs.log)
    BY <2>3, <2>4
  <2> QED
    BY <2>5, DiskFrom
<1>3. doubt' # "lost" => UsingSeq' /\ JobSeq'
  <2>1. doubt # "lost" => UpTo(Holds(tables, View) \cup Logged(logs, vs.log), vs.seq)
    BY <1>u DEF SeqInv, ViewSeq, Cleaning
  <2> QED
    BY <1>u, <1>b, <1>2, <2>1 DEF UsingSeq, JobSeq, UpTo
<1> QED
  BY <1>b, <1>1, <1>3, SeqUse

\* A write gets a number above all that is on the disk.
LEMMA WriteSeq ==
  ASSUME RecInv, SeqInv, WriteSyncFails \/ \E sync \in BOOLEAN : LdbWrite(sync)
  PROVE  SeqInv'
<1> DEFINE e == Entry
           old == logs[db.logfile]
<1>f. pc = "open" /\ pc' = "open" /\ UseFacts
  BY InUseFacts DEF WriteSyncFails, LdbWrite, Using
<1> USE DEF UseFacts
<1>u. /\ vs'.seq = vs.seq + 1 /\ UNCHANGED <<tables, manifests, current, bg, job, doubt>>
      /\ \/ logs' = [logs EXCEPT ![db.logfile] = Whole(Write(old, e))]
         \/ logs' = [logs EXCEPT ![db.logfile] = Write(old, e)]
  <2>1. vs' = [vs EXCEPT !.seq = vs.seq + 1] /\ UNCHANGED <<tables, manifests, current, bg, job, doubt>>
    BY DEF WriteSyncFails, LdbWrite
  <2>2. \/ logs' = [logs EXCEPT ![db.logfile] = Whole(Write(old, e))]
        \/ logs' = [logs EXCEPT ![db.logfile] = Write(old, e)]
    <3>1. CASE WriteSyncFails
      BY <3>1 DEF WriteSyncFails
    <3>2. ASSUME NEW sync \in BOOLEAN, LdbWrite(sync)
          PROVE  logs' = [logs EXCEPT ![db.logfile] = IF sync THEN Whole(Write(old, e)) ELSE Write(old, e)]
      BY <3>2 DEF LdbWrite
    <3> QED
      BY <3>1, <3>2
  <2> QED
    BY <1>f, <2>1, <2>2 DEF VersionsType
<1>b. pc \in Using /\ pc' \in Using /\ InUse' = InUse
  BY <1>f, <1>u DEF Using, InUse
<1>e. e \in LogEntry /\ e.seq = vs.seq + 1
  BY <1>f DEF Entry, LogEntry, MemoryTypes
<1>o. old \in LogFile /\ old.synced <= Len(old.recs)
  BY <1>f
<1> HIDE DEF e, old
<1>n. /\ Ents(Write(old, e).recs) = Ents(old.recs) \cup {e}
      /\ Ents(Whole(Write(old, e)).recs) = Ents(old.recs) \cup {e}
  BY <1>e, <1>o, WriteLog
<1>l. /\ DOMAIN logs' = DOMAIN logs /\ \A l \in DOMAIN logs : l # db.logfile => logs'[l] = logs[l]
      /\ Ents(logs'[db.logfile].recs) = Ents(old.recs) \cup {e}
  BY <1>f, <1>u, <1>n
<1>1. OnDisk(tables', logs') \subseteq OnDisk(tables, logs) \cup {e}
  <2>1. \A t \in DOMAIN tables' : tables'[t].ents \subseteq OnDisk(tables, logs) \cup {e}
    BY <1>u, DiskParts
  <2>2. \A l \in DOMAIN logs' : Ents(logs'[l].recs) \subseteq OnDisk(tables, logs) \cup {e}
    <3>1. \A l \in DOMAIN logs : Ents(logs[l].recs) \subseteq OnDisk(tables, logs)
      BY DiskParts
    <3> QED
      BY <1>f, <1>l, <3>1 DEF old
  <2> QED
    BY <2>1, <2>2, DiskFrom
<1>2. doubt' # "lost" => DiskSeq' /\ UsingSeq'
  <2> SUFFICES ASSUME doubt # "lost" PROVE DiskSeq' /\ UsingSeq'
    BY <1>u
  <2>1. OneEach(OnDisk(tables, logs)) /\ UpTo(OnDisk(tables, logs), vs.seq)
    BY <1>b DEF SeqInv, DiskSeq, UsingSeq
  <2>2. \A d \in OnDisk(tables, logs) : d.seq \in Int /\ d.seq <= vs.seq /\ vs.seq \in Int
    BY <1>f, <2>1, DiskNumbers DEF UpTo
  <2>3. \A d \in OnDisk(tables, logs) : d.seq # e.seq /\ d.seq <= vs.seq + 1
    BY <1>e, <2>2
  <2>4. OneEach(OnDisk(tables', logs'))
    BY <1>1, <2>1, <2>3 DEF OneEach
  <2>5. e.seq <= vs.seq + 1
    BY <1>f, <1>e
  <2> QED
    BY <1>u, <1>1, <2>3, <2>4, <2>5 DEF DiskSeq, UsingSeq, UpTo
<1>3. doubt' # "lost" => UseSeq' /\ JobSeq'
  <2>1. UseSeq => UseSeq'
    BY <1>u, UseStays
  <2> QED
    BY <1>u, <1>b, <2>1 DEF SeqInv, JobSeq
<1> QED
  BY <1>b, <1>2, <1>3, SeqUse

\* A step of an open database that adds nothing to the disk and takes no number.
LEMMA SeqOn ==
  ASSUME SeqInv, pc \in Using, pc' \in Using, vs'.seq = vs.seq, doubt' # "lost" => doubt # "lost",
         bg' = "apply" => bg = "apply" /\ UNCHANGED <<tables, manifests, current, job>>,
         \A t \in DOMAIN tables' : tables'[t].ents \subseteq OnDisk(tables, logs),
         \A l \in DOMAIN logs' : Ents(logs'[l].recs) \subseteq OnDisk(tables, logs),
         UseSeq => UseSeq'
  PROVE  SeqInv'
<1>1. OnDisk(tables', logs') \subseteq OnDisk(tables, logs) /\ (DiskSeq => DiskSeq')
  BY DiskLess
<1>2. doubt # "lost" => UsingSeq'
  BY <1>1 DEF SeqInv, UsingSeq, UpTo
<1>3. doubt # "lost" => JobSeq'
  BY DEF SeqInv, JobSeq, InUse
<1> QED
  BY <1>1, <1>2, <1>3, SeqUse DEF SeqInv

\* One that leaves the files alone.
LEMMA SeqIdle ==
  ASSUME SeqInv, pc \in Using, pc' \in Using, vs'.seq = vs.seq,
         bg' = "apply" => bg = "apply" /\ job' = job,
         UNCHANGED <<tables, logs, manifests, current, doubt>>
  PROVE  SeqInv'
<1>1. /\ \A t \in DOMAIN tables' : tables'[t].ents \subseteq OnDisk(tables, logs)
      /\ \A l \in DOMAIN logs' : Ents(logs'[l].recs) \subseteq OnDisk(tables, logs)
  BY DiskParts
<1>2. UseSeq => UseSeq'
  BY SameDisk
<1> QED
  BY <1>1, <1>2, SeqOn

\* The other steps of those who use the database.
LEMMA UserSeq ==
  ASSUME RecInv, SeqInv, UserStep
  PROVE  SeqInv'
<1>t. vs \in VersionsType
  BY DEF RecInv, MemoryTypes
<1>1. CASE WriteSyncFails \/ \E sync \in BOOLEAN : LdbWrite(sync)
  BY <1>1, WriteSeq
<1>2. CASE SwitchMemtable
  <2>1. /\ pc \in Using /\ pc' \in Using /\ vs'.seq = vs.seq /\ logs' = Put(logs, vs.next, EmptyLog)
        /\ UNCHANGED <<tables, manifests, current, bg, job, doubt>>
    BY <1>t, <1>2 DEF SwitchMemtable, ghost, Using, VersionsType
  <2>2. \A l \in DOMAIN logs' : Ents(logs'[l].recs) = {} \/ (l \in DOMAIN logs /\ logs'[l] = logs[l])
    <3>1. Ents(EmptyLog.recs) = {}
      BY DEF EmptyLog, Ents
    <3> QED
      BY <2>1, <3>1 DEF Put
  <2>3. /\ \A t \in DOMAIN tables' : tables'[t].ents \subseteq OnDisk(tables, logs)
        /\ \A l \in DOMAIN logs' : Ents(logs'[l].recs) \subseteq OnDisk(tables, logs)
    BY <2>1, <2>2, DiskParts
  <2>4. UseSeq => UseSeq'
    BY <2>1, UseStays
  <2> QED
    BY <2>1, <2>3, <2>4, SeqOn
<1>3. CASE Backup \/ CloseStart
  <2>1. pc \in Using /\ pc' \in Using /\ UNCHANGED <<tables, logs, manifests, current, vs, bg, job, doubt>>
    BY <1>3 DEF Backup, CloseStart, disk, Using
  <2> QED
    BY <2>1, SeqIdle
<1>4. CASE CloseEnds
  <2>1. pc' = "down" /\ bg' = "idle" /\ UNCHANGED <<tables, logs, manifests, current, doubt>>
    BY <1>4 DEF CloseEnds, disk, ghost
  <2>2. doubt' # "lost" => DiskSeq' /\ UseSeq'
    BY <2>1, SameDisk DEF SeqInv
  <2> QED
    BY <2>1, <2>2, SeqDown
<1>5. CASE Destroy
  <2>1. pc' = "down" /\ pc = "down" /\ bg' = bg /\ current' = None /\ RemoveFiles(Files)
    BY <1>5 DEF Destroy
  <2>2. bg' = "idle"
    BY <2>1, BgRests DEF Using
  <2>3. DOMAIN tables' = {} /\ DOMAIN logs' = {}
    <3>1. \A t \in DOMAIN tables : t \in Named("table", Files)
      <4>1. \A t \in DOMAIN tables : <<"table", t>> \in {g \in Files : g[1] = "table"}
        BY DEF Files
      <4>2. \A t \in DOMAIN tables : t = <<"table", t>>[2]
        OBVIOUS
      <4> QED
        BY <4>1, <4>2 DEF Named
    <3>2. \A l \in DOMAIN logs : l \in Named("log", Files)
      <4>1. \A l \in DOMAIN logs : <<"log", l>> \in {g \in Files : g[1] = "log"}
        BY DEF Files
      <4>2. \A l \in DOMAIN logs : l = <<"log", l>>[2]
        OBVIOUS
      <4> QED
        BY <4>1, <4>2 DEF Named
    <3> QED
      BY <2>1, <3>1, <3>2 DEF RemoveFiles, Drop, Restrict
  <2>4. OnDisk(tables', logs') = {}
    BY <2>3 DEF OnDisk, Holds
  <2>5. DiskSeq' /\ UseSeq'
    BY <2>1, <2>4 DEF DiskSeq, UseSeq, OneEach
  <2> QED
    BY <2>1, <2>2, <2>5, SeqDown
<1>6. CASE WriteAppendFails
  <2>1. /\ pc \in Using /\ pc' \in Using /\ vs' = [vs EXCEPT !.seq = vs.seq + 1]
        /\ UNCHANGED <<tables, logs, manifests, current, bg, job, doubt>>
    BY <1>6 DEF WriteAppendFails, Using
  <2>2. vs'.seq = vs.seq + 1 /\ vs.seq \in Int
    BY <1>t, <2>1 DEF VersionsType
  <2>3. DiskTypes
    BY DEF RecInv
  <2>4. doubt # "lost" => UsingSeq'
    <3>1. vs.seq <= vs.seq + 1 /\ vs.seq + 1 \in Int
      BY <2>2
    <3>2. OnDisk(tables, logs) \subseteq OnDisk(tables, logs)
      OBVIOUS
    <3>3. doubt # "lost" => UpTo(OnDisk(tables, logs), vs.seq)
      BY <2>1 DEF SeqInv, UsingSeq
    <3>4. doubt # "lost" => UpTo(OnDisk(tables, logs), vs.seq + 1)
      BY <2>2, <2>3, <3>1, <3>2, <3>3, UpToMore
    <3> QED
      BY <2>1, <2>2, <3>4 DEF UsingSeq
  <2>5. doubt # "lost" => DiskSeq' /\ UseSeq' /\ JobSeq'
    <3>1. doubt # "lost" => DiskSeq' /\ UseSeq'
      BY <2>1, SameDisk DEF SeqInv
    <3>2. doubt # "lost" => JobSeq'
      BY <2>1 DEF SeqInv, JobSeq, InUse
    <3> QED
      BY <3>1, <3>2
  <2> QED
    BY <2>1, <2>4, <2>5, SeqUse
<1> QED
  BY <1>1, <1>2, <1>3, <1>4, <1>5, <1>6 DEF UserStep

\* Jobs begin.
LEMMA JobStartSeq ==
  ASSUME RecInv, SeqInv,
         FlushStart \/ InnerFlush \/ \E ins \in (SUBSET vs.live) \ {{}} : CompactStart(ins)
  PROVE  SeqInv'
<1>u. /\ pc \in Using /\ pc' = pc /\ vs' = [vs EXCEPT !.next = vs.next + 1]
      /\ db' = [db EXCEPT !.pending = db.pending \cup {vs.next}] /\ bg' = "build"
      /\ tables' = tables \/ tables' = Put(tables, vs.next, [ents |-> {}, whole |-> FALSE])
      /\ UNCHANGED <<logs, manifests, current, doubt>>
  BY DEF FlushStart, InnerFlush, CompactStart, BgUnchanged, disk, Using
<1>v. vs'.seq = vs.seq
  BY <1>u DEF RecInv, MemoryTypes, VersionsType
<1>n. vs.next \notin DOMAIN tables
  BY <1>u, NumberTaken
<1>k. \A t \in DOMAIN tables' : tables'[t].ents = {} \/ (t \in DOMAIN tables /\ tables'[t] = tables[t])
  BY <1>u DEF Put
<1>1. /\ \A t \in DOMAIN tables' : tables'[t].ents \subseteq OnDisk(tables, logs)
      /\ \A l \in DOMAIN logs' : Ents(logs'[l].recs) \subseteq OnDisk(tables, logs)
  BY <1>u, <1>k, DiskParts
<1>2. UseSeq => UseSeq'
  <2>1. Promised /\ current # None => \A m \in Survivors : LiveOf(SubSeq(InUse, 1, m)) \subseteq DOMAIN tables
    BY UseAccepted DEF RecInv, Accepted, WholeOf
  <2> QED
    BY <1>u, <1>k, <2>1, UseStays
<1> QED
  BY <1>u, <1>v, <1>1, <1>2, SeqOn

\* An edit is made: its number is above everything.
LEMMA EditMadeSeq ==
  ASSUME RecInv, SeqInv, MakeEdit \/ \E t \in vs.live : MoveStart(t)
  PROVE  SeqInv'
<1>p. pc \in Using /\ pc' \in Using /\ bg' = "apply" /\ UNCHANGED <<tables, logs, manifests, current, vs, doubt>>
  BY DEF MakeEdit, MoveStart, BgUnchanged, disk, Using
<1>f. UseFacts /\ vs.live \subseteq DOMAIN tables
  BY <1>p, InUseFacts, TablesBelow
<1>e. job'.edit.seq = vs.seq /\ job'.edit.adds \subseteq DOMAIN tables
  <2>1. CASE MakeEdit
    <3> DEFINE log == IF job.kind = "flush" THEN db.logfile ELSE vs.log
               e == FillEdit([NoEdit EXCEPT !.adds = {job.out} \cap DOMAIN tables, !.dels = job.ins], log)
    <3>1. job' = [job EXCEPT !.edit = e]
      BY <2>1 DEF MakeEdit
    <3>2. e.seq = vs.seq /\ e.adds = {job.out} \cap DOMAIN tables
      BY DEF FillEdit, NoEdit
    <3> HIDE DEF e, log
    <3>3. job'.edit = e
      BY <1>f, <3>1 DEF UseFacts, JobType
    <3> QED
      BY <3>2, <3>3
  <2>2. ASSUME NEW t \in vs.live, MoveStart(t) PROVE job'.edit.seq = vs.seq /\ job'.edit.adds = {t}
    BY <2>2 DEF MoveStart, FillEdit, NoEdit, NoJob
  <2> QED
    BY <1>f, <2>1, <2>2
<1>1. doubt' # "lost" => DiskSeq' /\ UseSeq'
  BY <1>p, SameDisk DEF SeqInv
<1>2. doubt' # "lost" => UsingSeq'
  BY <1>p DEF SeqInv, UsingSeq
<1>3. doubt' # "lost" => JobSeq'
  <2> SUFFICES ASSUME doubt # "lost" PROVE JobSeq'
    BY <1>p
  <2>1. Promised
    BY <1>f DEF UseFacts, MemoryTypes, Promised
  <2>2. LiveOf(InUse) \subseteq DOMAIN tables
    BY <1>f, <2>1, UseAccepted DEF UseFacts, Accepted, WholeOf
  <2>3. Holds(tables, LiveOf(InUse) \cup job'.edit.adds) \subseteq OnDisk(tables, logs)
    BY <1>e, <2>2, DiskParts
  <2>4. UpTo(OnDisk(tables, logs), vs.seq)
    BY <1>p DEF SeqInv, UsingSeq
  <2>5. InUse' = InUse
    BY <1>p DEF InUse
  <2> QED
    BY <1>p, <1>e, <2>3, <2>4, <2>5 DEF JobSeq, UpTo
<1> QED
  BY <1>p, <1>1, <1>2, <1>3, SeqUse

\* A table is built from the memtable or from other tables.
LEMMA BuildTableSeq ==
  ASSUME RecInv, SeqInv, BuildTable
  PROVE  SeqInv'
<1>u. /\ pc' = pc /\ bg = "build" /\ bg' = "edit"
      /\ tables' = (IF Output = {} THEN tables ELSE Put(tables, job.out, Table(Output)))
      /\ UNCHANGED <<logs, manifests, current, vs, doubt>>
  BY DEF BuildTable, BgUnchanged
<1>p. pc \in Using
  BY <1>u, JobInUse
<1>f. UseFacts /\ vs.live \subseteq DOMAIN tables
  BY <1>p, InUseFacts, TablesBelow
<1> USE DEF UseFacts
<1>b. /\ job.kind \in {"flush", "compact"}
      /\ job.kind = "flush" => job.out \notin DOMAIN tables
      /\ job.kind = "compact" => job.ins \subseteq vs.live /\ tables[job.out].ents = {} /\ job.out \in DOMAIN tables
  <2>1. job.kind \in JobKinds
    BY <1>f DEF JobType
  <2> QED
    BY <1>u, <2>1 DEF RecInv, JobInv, JobShape, BuildInv, JobKinds, Compacting
<1>n. job.out \notin WholeOf(tables)
  BY <1>b, <1>f DEF WholeOf, DiskTypes, TablesType
<1>o. Output \subseteq OnDisk(tables, logs)
  <2>1. CASE job.kind = "flush"
    <3>1. db.imm \subseteq Logged(logs, vs.log)
      BY <1>f DEF RecInv, MemoryInv
    <3> QED
      BY <2>1, <3>1, DiskParts DEF Output
  <2>2. CASE job.kind = "compact"
    BY <1>b, <1>f, <2>2, DiskParts DEF Output
  <2> QED
    BY <1>b, <2>1, <2>2
<1>k. /\ DOMAIN tables' \subseteq DOMAIN tables \cup {job.out}
      /\ \A t \in DOMAIN tables' : t # job.out => tables'[t] = tables[t]
      /\ job.out \in DOMAIN tables' => tables'[job.out].ents = Output \/ tables' = tables
  BY <1>u DEF Put, Table
<1>1. \A t \in DOMAIN tables' : tables'[t].ents \subseteq OnDisk(tables, logs)
  BY <1>k, <1>o, DiskParts
<1>2. \A l \in DOMAIN logs' : Ents(logs'[l].recs) \subseteq OnDisk(tables, logs)
  BY <1>u, DiskParts
<1>3. UseSeq => UseSeq'
  <2>1. Promised /\ current # None => \A m \in Survivors : LiveOf(SubSeq(InUse, 1, m)) \subseteq WholeOf(tables)
    BY <1>f, UseAccepted DEF Accepted
  <2>2. Promised /\ current # None => \A m \in Survivors : job.out \notin LiveOf(SubSeq(InUse, 1, m))
    BY <1>n, <2>1
  <2> QED
    BY <1>u, <1>k, <2>2, UseOther
<1> QED
  BY <1>u, <1>p, <1>1, <1>2, <1>3, SeqOn

\* A job fails or ends.
LEMMA JobEndsSeq ==
  ASSUME RecInv, SeqInv, BuildFails \/ AbandonJob \/ LogEditFails \/ BgEnds
  PROVE  SeqInv'
<1>u. /\ pc' = pc /\ bg # "idle" /\ JobEnds /\ UNCHANGED <<logs, manifests, current, vs, doubt>>
      /\ (tables' = tables \/ tables' = Drop(tables, {job.out}))
  BY DEF BuildFails, AbandonJob, LogEditFails, BgEnds, BgUnchanged, disk
<1>p. pc \in Using /\ bg' # "apply"
  BY <1>u, JobInUse DEF JobEnds
<1>k. DOMAIN tables' \subseteq DOMAIN tables /\ \A t \in DOMAIN tables' : tables'[t] = tables[t]
  BY <1>u DEF Drop, Restrict
<1>1. /\ \A t \in DOMAIN tables' : tables'[t].ents \subseteq OnDisk(tables, logs)
      /\ \A l \in DOMAIN logs' : Ents(logs'[l].recs) \subseteq OnDisk(tables, logs)
  BY <1>u, <1>k, DiskParts
<1>2. UseSeq => UseSeq'
  BY <1>u, <1>k, UseStays
<1> QED
  BY <1>u, <1>p, <1>1, <1>2, SeqOn

\* An edit is recorded and synced.
LEMMA RecordSeq ==
  ASSUME RecInv, SeqInv, LogEdit \/ SyncEdit
  PROVE  SeqInv'
<1>u. /\ pc' = pc /\ bg \in {"apply", "sync"} /\ bg' # "apply"
      /\ UNCHANGED <<tables, logs, current, vs>>
  BY DEF LogEdit, SyncEdit, BgUnchanged
<1>p. pc \in Using
  BY <1>u, JobInUse
<1>f. UseFacts
  BY <1>p, InUseFacts
<1> USE DEF UseFacts
<1>1. /\ \A t \in DOMAIN tables' : tables'[t].ents \subseteq OnDisk(tables, logs)
      /\ \A l \in DOMAIN logs' : Ents(logs'[l].recs) \subseteq OnDisk(tables, logs)
  BY <1>u, DiskParts
<1>2. CASE LogEdit
  <2>1. /\ bg = "apply" /\ doubt' = doubt /\ manifests'[current] = Write(manifests[current], job.edit)
    BY <1>f, <1>2 DEF LogEdit, BgUnchanged
  <2>2. job.edit \in Edit /\ job.edit.next # -1
    BY <1>f, <2>1 DEF JobType, RecInv, JobInv, RecordInv
  <2>3. doubt # "lost" =>
          \A t \in (LiveOf(InUse) \cup job.edit.adds) \cap DOMAIN tables : UpTo(tables[t].ents, job.edit.seq)
    BY <2>1 DEF SeqInv, JobSeq, UpTo, Holds
  <2>4. Promised => doubt # "lost"
    BY DEF Promised
  <2>5. UseSeq => UseSeq'
    BY <1>u, <1>f, <2>1, <2>2, <2>3, <2>4, UseAppend
  <2> QED
    BY <1>u, <1>p, <1>1, <2>1, <2>5, SeqOn
<1>3. CASE SyncEdit
  <2>1. doubt' = Settled /\ manifests'[current] = Whole(manifests[current])
    BY <1>f, <1>3 DEF SyncEdit
  <2>2. (Promised' => Promised) /\ (doubt' # "lost" => doubt # "lost")
    BY <2>1 DEF Promised, Settled
  <2>3. UseSeq => UseSeq'
    BY <1>u, <1>f, <2>1, <2>2, UseSynced
  <2> QED
    BY <1>u, <1>p, <1>1, <2>2, <2>3, SeqOn
<1> QED
  BY <1>2, <1>3

\* The background thread installs a version and removes what is obsolete.
LEMMA BgCleanSeq ==
  ASSUME RecInv, SeqInv, BgInstall \/ BgClean \/ BgRemove
  PROVE  SeqInv'
<1>u. /\ pc' = pc /\ bg # "idle" /\ bg' # "apply" /\ UNCHANGED <<current, doubt>> /\ vs'.seq = vs.seq
  BY DEF BgInstall, BgClean, BgRemove, BgUnchanged, disk, Install, RecInv, MemoryTypes, VersionsType
<1>p. pc \in Using
  BY <1>u, JobInUse
<1>1. CASE BgInstall \/ BgClean
  <2>1. UNCHANGED <<tables, logs, manifests>>
    BY <1>1 DEF BgInstall, BgClean, disk
  <2> QED
    BY <1>u, <1>p, <2>1, SeqIdle
<1>2. CASE BgRemove
  <2>1. PICK f \in job.kill : RemoveFiles({f})
    BY <1>2 DEF BgRemove
  <2>2. Unneeded(f) /\ f \in FileNames
    <3>1. job.kill \subseteq FileNames /\ bg = "kill"
      BY <1>2 DEF RecInv, MemoryTypes, JobType, BgRemove
    <3> QED
      BY <2>1, <3>1 DEF RecInv, KillInv
  <2>3. /\ OnDisk(tables', logs') \subseteq OnDisk(tables, logs) /\ (UseSeq => UseSeq')
    BY <1>u, <1>p, <2>1, <2>2, RemoveSeq
  <2>4. /\ \A t \in DOMAIN tables' : tables'[t].ents \subseteq OnDisk(tables, logs)
        /\ \A l \in DOMAIN logs' : Ents(logs'[l].recs) \subseteq OnDisk(tables, logs)
    BY <2>3 DEF OnDisk, Holds
  <2> QED
    BY <1>u, <1>p, <2>3, <2>4, SeqOn
<1> QED
  BY <1>1, <1>2

\* The highest number in a table.
LEMMA MaxEntryBounds ==
  ASSUME NEW E \in EntrySet
  PROVE  UpTo(E, Max({0} \cup {e.seq : e \in E}))
<1> DEFINE f == [e \in E |-> e.seq]
           T == {e.seq : e \in E}
           S == {0} \cup T
<1>1. f \in Surjection(E, T)
  BY DEF Surjection
<1>2. IsFiniteSet(E) /\ E \subseteq LogEntry
  BY DEF EntrySet
<1>3. T \subseteq Int
  BY <1>2 DEF LogEntry
<1>4. \A e \in E : e.seq \in T
  OBVIOUS
<1> HIDE DEF f, T
<1>5. IsFiniteSet(T)
  BY <1>1, <1>2, FS_Surjection
<1>6. S \in SUBSET Int /\ S # {} /\ T \subseteq S /\ S = T \cup {0}
  BY <1>3
<1> HIDE DEF S
<1>7. IsFiniteSet(S)
  BY <1>5, <1>6, FS_AddElement
<1>8. Max(S) \in S /\ \A x \in S : Max(S) >= x
  BY <1>6, <1>7, MaxProps
<1>9. \A e \in E : e.seq <= Max(S)
  BY <1>4, <1>6, <1>8
<1> QED
  BY <1>9 DEF UpTo, S, T

\* ldb_repair: its tables have what the logs had, and its manifest the highest number in them.
LEMMA RepairSteps ==
  ASSUME RecInv, SeqInv, RepairStep
  PROVE  SeqInv'
<1>b. bg' = "idle" /\ (pc \in Repairing \/ RepairStart)
  <2>1. bg' = bg /\ pc \in {"down"} \cup Repairing /\ (pc \in Repairing \/ RepairStart)
    BY DEF RepairStep, RepairStart, RepairArchive, RepairScan, RepairDescriptor, RepairInstall, RepairConvert,
           RepairConvertFails, RepairDiscard, RepUnchanged, Repairing
  <2> QED
    BY <2>1, BgRests DEF Using, Repairing
<1>d. pc \in Repairing => doubt \in {"repair", "lost"}
  BY DEF RecInv, RepairInv
<1>1. CASE RepairStart
  <2>1. /\ pc' = "rep_logs" /\ doubt' \in {"repair", "lost"} /\ (doubt' # "lost" => doubt # "lost")
        /\ tables' = tables /\ \E c \in Losses("log", logs) : logs' = ReadBack("log", logs, c)
    BY <1>1 DEF RepairStart
  <2>t. LogsType(logs)
    BY DEF RecInv, DiskTypes
  <2>3. DOMAIN logs' = DOMAIN logs /\ \A l \in DOMAIN logs : Ents(logs'[l].recs) \subseteq Ents(logs[l].recs)
    BY <2>t, <2>1, LogsReadBack
  <2>4. \A l \in DOMAIN logs' : Ents(logs'[l].recs) \subseteq OnDisk(tables, logs)
    BY <2>3, DiskParts
  <2>5. DiskSeq => DiskSeq'
    BY <2>1, <2>4, DiskParts, DiskLess
  <2>2. doubt' # "lost" => DiskSeq' /\ RepairSeq'
    BY <2>1, <2>5 DEF SeqInv, RepairSeq
  <2> QED
    BY <1>b, <2>1, <2>2, SeqRepair DEF Repairing
<1>2. ASSUME NEW l \in DOMAIN logs, RepairConvert(l) PROVE SeqInv'
  <2> DEFINE ents == Ents(logs[l].recs)
  <2>1. /\ pc = "rep_logs" /\ pc' = "rep_arch" /\ UNCHANGED <<logs, doubt>>
        /\ tables' = tables \/ tables' = Put(tables, op.next, Table(ents))
    BY <1>2 DEF RepairConvert
  <2>2. Table(ents).ents = ents /\ ents \subseteq OnDisk(tables, logs)
    BY DiskParts DEF Table
  <2> HIDE DEF ents
  <2>3. DiskSeq => DiskSeq'
    <3>1. CASE tables' = tables
      BY <2>1, <3>1 DEF DiskSeq
    <3>2. CASE tables' = Put(tables, op.next, Table(ents))
      BY <2>1, <2>2, <3>2, TableSeq
    <3> QED
      BY <2>1, <3>1, <3>2
  <2>4. doubt' # "lost" => DiskSeq' /\ RepairSeq'
    BY <2>1, <2>3 DEF SeqInv, RepairSeq
  <2> QED
    BY <1>b, <1>d, <2>1, <2>4, SeqRepair DEF Repairing
<1>3. CASE RepairArchive
  <2>1. pc = "rep_arch" /\ pc' = "rep_logs" /\ UNCHANGED <<tables, doubt>> /\ logs' = Drop(logs, {op.log})
    BY <1>3 DEF RepairArchive
  <2>2. DOMAIN logs' \subseteq DOMAIN logs /\ \A l \in DOMAIN logs' : logs'[l] = logs[l]
    BY <2>1 DEF Drop, Restrict
  <2>3. DiskSeq => DiskSeq'
    BY <2>1, <2>2, DiskParts, DiskLess
  <2>4. doubt' # "lost" => DiskSeq' /\ RepairSeq'
    BY <2>1, <2>3 DEF SeqInv, RepairSeq
  <2> QED
    BY <1>b, <1>d, <2>1, <2>4, SeqRepair DEF Repairing
<1>4. CASE RepairScan
  <2> DEFINE good == op.good \ Unreadable
             max == Max({0} \cup {e.seq : e \in UNION {tables[t].ents : t \in good}})
  <2>1. /\ pc = "rep_logs" /\ pc' = "rep_desc" /\ tables' = Drop(tables, Unreadable)
        /\ op' = [op EXCEPT !.good = good, !.max = max] /\ UNCHANGED <<logs, doubt>>
    BY <1>4 DEF RepairScan
  <2>f. RepairFacts /\ pc \in Repairing
    BY <2>1, InRepair DEF Repairing
  <2> USE DEF RepairFacts
  <2>2. good \subseteq DOMAIN tables
    BY <2>f
  <2>3. UpTo(Holds(tables, good), max)
    <3>1. Holds(tables, good) \in EntrySet
      BY <2>f, <2>2, HoldsFinite DEF DiskTypes
    <3>2. UpTo(Holds(tables, good), Max({0} \cup {e.seq : e \in Holds(tables, good)}))
      BY <3>1, MaxEntryBounds
    <3> QED
      BY <3>2 DEF Holds
  <2>4. DOMAIN tables' = good /\ \A t \in good : tables'[t] = tables[t]
    BY <2>1, <2>f DEF Drop, Restrict
  <2> HIDE DEF good, max
  <2>5. op'.good = good /\ op'.max = max
    BY <2>1, <2>f DEF OpType
  <2>6. DiskSeq => DiskSeq'
    BY <2>1, <2>2, <2>4, DiskParts, DiskLess
  <2>7. RepairSeq'
    <3>1. Holds(tables', good) = Holds(tables, good)
      BY <2>4 DEF Holds
    <3> QED
      BY <2>1, <2>3, <2>5, <3>1 DEF RepairSeq
  <2> QED
    BY <1>b, <1>d, <2>1, <2>6, <2>7, SeqRepair DEF Repairing, SeqInv
<1>5. CASE RepairDescriptor
  <2>1. /\ pc = "rep_desc" /\ pc' = "rep_mans" /\ UNCHANGED <<tables, logs, doubt>>
        /\ op' = [op EXCEPT !.names = 1, !.edit = [adds |-> op.good, dels |-> {}, log |-> 0,
                                                   next |-> op.next, seq |-> op.max]]
    BY <1>5 DEF RepairDescriptor
  <2>2. op'.good = op.good /\ op'.max = op.max /\ op'.edit.seq = op.max
    BY <2>1 DEF RecInv, MemoryTypes, OpType
  <2>3. doubt' # "lost" => DiskSeq' /\ RepairSeq'
    BY <2>1, <2>2 DEF SeqInv, DiskSeq, RepairSeq
  <2> QED
    BY <1>b, <1>d, <2>1, <2>3, SeqRepair DEF Repairing
<1>6. ASSUME RepairInstall \/ \E m \in DOMAIN manifests : RepairDiscard(m) PROVE SeqInv'
  <2>1. /\ pc = "rep_mans" /\ pc' \in {"rep_mans", "rep_temp"} /\ UNCHANGED <<tables, logs, doubt>>
        /\ op'.good = op.good /\ op'.max = op.max /\ op'.edit = op.edit
    BY <1>6 DEF RepairInstall, RepairDiscard, RecInv, MemoryTypes, OpType
  <2>2. doubt' # "lost" => DiskSeq' /\ RepairSeq'
    BY <2>1 DEF SeqInv, DiskSeq, RepairSeq
  <2> QED
    BY <1>b, <1>d, <2>1, <2>2, SeqRepair DEF Repairing
<1>7. ASSUME NEW l \in DOMAIN logs, RepairConvertFails(l) PROVE SeqInv'
  <2>1. pc = "rep_logs" /\ pc' = "rep_arch" /\ UNCHANGED <<tables, logs>> /\ doubt' \in {doubt, "lost"}
    BY <1>7 DEF RepairConvertFails, disk
  <2>2. doubt' # "lost" => DiskSeq' /\ RepairSeq'
    BY <2>1 DEF SeqInv, DiskSeq, RepairSeq
  <2> QED
    BY <1>b, <1>d, <2>1, <2>2, SeqRepair DEF Repairing
<1> QED
  BY <1>1, <1>2, <1>3, <1>4, <1>5, <1>6, <1>7 DEF RepairStep

\* The process dies.
LEMMA ProcessCrashSeq ==
  ASSUME RecInv, SeqInv, ProcessCrash
  PROVE  SeqInv'
<1>1. pc' = "down" /\ bg' = "idle" /\ UNCHANGED <<tables, logs, manifests, current, doubt>>
  BY DEF ProcessCrash, Gone, disk
<1>2. doubt' # "lost" => DiskSeq' /\ UseSeq'
  BY <1>1, SameDisk DEF SeqInv
<1> QED
  BY <1>1, <1>2, SeqDown

\* The machine dies: the logs have less, and what is left of the manifest carries its own number.
LEMMA MachineCrashSeq ==
  ASSUME RecInv, RecInv', SeqInv, MachineCrash
  PROVE  SeqInv'
<1>u. /\ pc' = "down" /\ bg' = "idle" /\ logs' \in Images(logs) /\ manifests' \in Images(manifests)
      /\ doubt' = (CASE doubt = "reuse" -> "lost"
                     [] doubt = "no" /\ current # None /\ manifests[current].synced = 0 -> "repair"
                     [] OTHER -> doubt)
      /\ UNCHANGED <<tables, current>>
  BY DEF MachineCrash, Gone
<1>t. DiskTypes /\ MemoryTypes /\ Covered /\ DiskTypes'
  BY DEF RecInv
<1>1. DiskSeq => DiskSeq'
  <2>1. ASSUME NEW l \in DOMAIN logs' PROVE l \in DOMAIN logs /\ Ents(logs'[l].recs) \subseteq Ents(logs[l].recs)
    <3>1. l \in DOMAIN logs
      BY <1>u, ImageProps
    <3>2. PICK k \in logs[l].synced..Len(logs[l].recs) : logs'[l] = Cut(logs[l], k)
      BY <1>u, <3>1, ImageProps
    <3>3. logs[l].recs \in Seq(LogEntry) /\ k \in Int /\ k <= Len(logs[l].recs) /\ 0 <= k
      BY <1>t, <3>1, <3>2 DEF DiskTypes, LogsType, LogFile
    <3>4. logs'[l].recs = SubSeq(logs[l].recs, 1, k)
      BY <3>2 DEF Cut
    <3>5. \A i \in DOMAIN SubSeq(logs[l].recs, 1, k) :
            i \in DOMAIN logs[l].recs /\ SubSeq(logs[l].recs, 1, k)[i] = logs[l].recs[i]
      BY <3>3
    <3> QED
      BY <3>1, <3>4, <3>5 DEF Ents
  <2>2. \A l \in DOMAIN logs' : Ents(logs'[l].recs) \subseteq OnDisk(tables, logs)
    BY <2>1, DiskParts
  <2> QED
    BY <1>u, <2>2, DiskParts, DiskLess
<1>2. doubt # "lost" => UseSeq'
  <2>1. CASE ~Promised' \/ current = None
    BY <1>u, <2>1 DEF UseSeq
  <2>2. CASE current # None /\ Promised' /\ doubt # "lost"
    <3>1. Promised /\ doubt = "no" /\ manifests[current].synced # 0 /\ UseSeq
      BY <1>u, <1>t, <2>2 DEF Promised, MemoryTypes, SeqInv
    <3>2. current \in DOMAIN manifests
      BY <1>t, <2>2, <3>1 DEF Covered
    <3>3. PICK k \in manifests[current].synced..Len(manifests[current].recs) :
             manifests'[current] = Cut(manifests[current], k)
      BY <1>u, <3>2, ImageProps
    <3>4. InUse' = SubSeq(InUse, 1, k) /\ manifests'[current].synced = k
      BY <1>u, <3>3 DEF InUse, Cut
    <3>5. manifests[current].synced \in Nat /\ Len(InUse) \in Nat /\ InUse \in Seq(Edit)
      BY <1>t, <3>2, UseType
    <3>6. k \in Survivors /\ k \in 0..Len(InUse)
      BY <3>1, <3>3, <3>5 DEF Survivors, Higher, InUse
    <3>7. Len(InUse') = k
      BY <3>4, <3>5, <3>6, PrefixProps
    <3>8. Dated(tables', InUse') /\ Numbered(InUse') # {}
      BY <1>u, <1>t, <2>2, <3>1, <3>4, <3>6, UseAccepted DEF UseSeq, Accepted
    <3>9. current' # None /\ current' \in DOMAIN manifests' /\ manifests'[current'].synced = Len(InUse')
      BY <1>u, <2>2, <3>2, <3>4, <3>7, ImageProps
    <3> QED
      BY <1>t, <3>8, <3>9, UseSwitch
  <2> QED
    BY <2>1, <2>2
<1>3. doubt' # "lost" => doubt # "lost"
  BY <1>u
<1> QED
  BY <1>u, <1>1, <1>2, <1>3, SeqDown DEF SeqInv

\* ldb_open keeps it,
LEMMA OpenSeq ==
  ASSUME RecInv, RecInv', SeqInv, OpenStep
  PROVE  SeqInv'
<1>1. ASSUME NEW reuse \in ReuseLogs, OpenStart(reuse) PROVE SeqInv'
  <2>1. reuse \in BOOLEAN
    BY RecoveryAssumption
  <2> QED
    BY <1>1, <2>1, StartSeq
<1>2. ASSUME NEW n \in 1..MaxWrites, ReplayToTable(n) PROVE SeqInv'
  <2>1. n \in Nat
    BY RecoveryAssumption
  <2> QED
    BY <1>2, <2>1, ReplayToTableSeq
<1> QED
  BY <1>1, <1>2, StartSeq, WriteTempSeq, RenameTempSeq, VersionsRecoverSeq, NextLogSeq, ReplayAndKeepSeq,
     RecoverEndsSeq, OpenApplySeq, OpenSyncSeq, OpenApplyFailsSeq, OpenInstallSeq, OpenCleanSeq,
     OpenRemoveSeq, OpenEndsSeq DEF OpenStep

\* and so does every step.
LEMMA SeqStep ==
  ASSUME RecInv, RecInv', SeqInv, [Next]_vars
  PROVE  SeqInv'
<1>1. CASE BgStep
  BY <1>1, JobStartSeq, EditMadeSeq, BuildTableSeq, JobEndsSeq, RecordSeq, BgCleanSeq DEF BgStep
<1>2. CASE UNCHANGED vars
  <2>1. /\ DiskSeq' = DiskSeq /\ UseSeq' = UseSeq /\ ReplaySeq' = ReplaySeq /\ ViewSeq' = ViewSeq
        /\ EditSeq' = EditSeq /\ UsingSeq' = UsingSeq /\ JobSeq' = JobSeq /\ RepairSeq' = RepairSeq
        /\ doubt' = doubt
    BY <1>2 DEF vars, DiskSeq, UseSeq, ReplaySeq, ViewSeq, EditSeq, UsingSeq, JobSeq, RepairSeq, Promised,
                Survivors, InUse, View
  <2> QED
    BY <2>1 DEF SeqInv
<1> QED
  BY <1>1, <1>2, OpenSeq, UserSeq, RepairSteps, ProcessCrashSeq, MachineCrashSeq DEF Next

\* SequenceFresh: as long as no repair was cut short before an ldb_open or dropped a log, no
\* reused MANIFEST has lost its tail in a machine crash and none with records behind torn bytes
\* was opened, no sequence number is given out twice among the writes
\* that can be read, and ldb_write's next one is above all of them, recovered ones included.
THEOREM SequenceFreshAlways == Spec => [](doubt # "lost" => SequenceFresh)
<1>1. Init => SeqInv
  <2> SUFFICES ASSUME Init PROVE SeqInv
    OBVIOUS
  <2>1. OnDisk(tables, logs) = {}
    BY DEF Init, OnDisk, Holds
  <2> QED
    BY <2>1 DEF Init, SeqInv, DiskSeq, UseSeq, ReplaySeq, ViewSeq, EditSeq, UsingSeq, JobSeq, RepairSeq,
                OneEach, Replaying, Applying, Cleaning, Using
<1>2. RecInv /\ RecInv' /\ SeqInv /\ [Next]_vars => SeqInv'
  BY SeqStep
<1>3. RecInv /\ SeqInv => (doubt # "lost" => SequenceFresh)
  <2> SUFFICES ASSUME RecInv, SeqInv, doubt # "lost", pc \in Using
               PROVE  /\ \A e \in Readable : e.seq <= vs.seq
                      /\ \A e, f \in Readable : e.seq = f.seq => e = f
    BY DEF SequenceFresh, Using
  <2>1. UseFacts /\ vs.live \subseteq DOMAIN tables
    BY InUseFacts, TablesBelow
  <2>2. db.mem \subseteq Ents(logs[db.logfile].recs) /\ db.imm \subseteq Logged(logs, vs.log)
    BY <2>1 DEF RecInv, MemoryInv, UseFacts
  <2>3. Holds(tables, vs.live) \subseteq OnDisk(tables, logs)
    BY <2>1, DiskParts
  <2>4. db.mem \cup db.imm \subseteq OnDisk(tables, logs)
    BY <2>1, <2>2, DiskParts DEF UseFacts
  <2>5. Readable \subseteq OnDisk(tables, logs)
    BY <2>3, <2>4 DEF Readable, Holds
  <2>6. DiskSeq /\ UpTo(OnDisk(tables, logs), vs.seq)
    BY DEF SeqInv, UsingSeq
  <2> QED
    BY <2>5, <2>6 DEF DiskSeq, UpTo, OneEach
<1> QED
  BY <1>1, <1>2, <1>3, Invariant, PTL DEF Spec
=============================================================================
