---------------------------- MODULE DbStoreProofs ----------------------------
(***************************************************************************)
(* DbImpl implements KvStore, for any number of callers and readers: what  *)
(* a reader finds in its two memtables and its version, searched one after *)
(* the other without the mutex, is what the abstract store answers at its  *)
(* sequence number.  It takes that the memtables a reader holds are not    *)
(* freed (their references are counted exactly), that the layers it        *)
(* searches are ordered by sequence number, and that every entry above     *)
(* last_sequence belongs to the one group that is being inserted.          *)
(***************************************************************************)
EXTENDS DbThreadProofs

-----------------------------------------------------------------------------
(* The references.                                                         *)

(* The readers that took a reference on memtable t.                        *)
Holding(t) == {r \in Readers : t \in {read[r].mem, read[r].imm}}

(* One reference for the database and one for each reader.                 *)
RefsExact ==
  \A t \in Tables : refs[t] = (IF t \in {mem, imm} THEN 1 ELSE 0) + Cardinality(Holding(t))

(* A reader holds memtables only between taking and dropping its           *)
(* references.                                                             *)
HoldsInUse ==
  \A r \in Readers : read[r].pc \notin {"look", "unref"} => read[r].mem = 0 /\ read[r].imm = 0

(* Memtables are numbered in the order they were used.                     *)
TablesInOrder ==
  /\ imm < mem
  /\ \A r \in Readers : read[r].mem <= mem /\ read[r].imm <= mem

PinInv == RefsExact /\ HoldsInUse /\ TablesInOrder

(* The holders of a memtable are finitely many.                            *)
LEMMA HoldingFinite ==
  ASSUME NEW t
  PROVE  IsFiniteSet(Holding(t)) /\ Cardinality(Holding(t)) \in Nat
<1>1. Holding(t) \in SUBSET Readers
  BY DEF Holding
<1> QED
  BY <1>1, ReadersAssumption, FS_Subset, FS_CardinalityType

(* The fields of a reader's record.                                        *)
LEMMA ReadFields ==
  ASSUME DataInv, NEW r \in Readers
  PROVE  /\ read[r].mem \in Tables \cup {0} /\ read[r].imm \in Tables \cup {0}
         /\ read[r].mem \in Nat /\ read[r].imm \in Nat
         /\ read[r].snap \in Nat /\ read[r].ver \subseteq Entry
<1>1. \A t \in Tables \cup {0} : t \in Nat
  BY DEF Tables
<1>2. read[r] \in Reads
  BY DEF DataInv, DataType
<1>3. /\ read[r].mem \in Tables \cup {0} /\ read[r].imm \in Tables \cup {0}
      /\ read[r].snap \in Nat /\ read[r].ver \subseteq Entry
  BY <1>2 DEF Reads
<1> QED
  BY <1>1, <1>3, Zenon

(* The invariant holds as the database opens.                              *)
LEMMA PinInit == Init => PinInv
<1> SUFFICES ASSUME Init PROVE PinInv
  OBVIOUS
<1>1. Tables \subseteq Nat \ {0}
  BY SpentFinite DEF Tables
<1>2. ASSUME NEW t \in Tables PROVE Cardinality(Holding(t)) = 0
  <2>1. Holding(t) = {}
    BY <1>1 DEF Init, Holding
  <2> QED
    BY <2>1, FS_EmptySet
<1>3. RefsExact
  <2> SUFFICES ASSUME NEW t \in Tables
               PROVE  refs[t] = (IF t \in {mem, imm} THEN 1 ELSE 0) + Cardinality(Holding(t))
    BY DEF RefsExact
  <2> QED
    BY <1>1, <1>2 DEF Init
<1>4. HoldsInUse /\ TablesInOrder
  BY DEF Init, HoldsInUse, TablesInOrder
<1> QED
  BY <1>3, <1>4 DEF PinInv

(* A memtable in use by the database or by a reader has a reference.       *)
LEMMA Pinned == DataInv /\ PinInv => TablesPinned
<1> SUFFICES ASSUME DataInv, PinInv PROVE TablesPinned
  OBVIOUS
<1>1. \A t \in {mem, imm} \ {0} : t \in Tables
  BY DEF DataInv, DataType
<1>2. \A r \in Readers : \A t \in {read[r].mem, read[r].imm} \ {0} : t \in Tables
  BY DEF DataInv, DataType, Reads
<1>3. \A t \in {mem, imm} \ {0} : refs[t] > 0
  BY <1>1, HoldingFinite DEF PinInv, RefsExact
<1>4. ASSUME NEW r \in Readers, NEW t \in {read[r].mem, read[r].imm} \ {0}
      PROVE  refs[t] > 0
  <2>1. r \in Holding(t)
    BY DEF Holding
  <2>2. Cardinality(Holding(t)) # 0
    BY <2>1, HoldingFinite, FS_EmptySet
  <2> QED
    BY <1>2, <2>2, HoldingFinite DEF PinInv, RefsExact
<1> QED
  BY <1>3, <1>4 DEF TablesPinned

(* A step that moves no reference.                                         *)
LEMMA PinFrame ==
  ASSUME PinInv, UNCHANGED <<mem, imm, refs>>,
         \A r \in Readers : /\ read'[r].mem = read[r].mem /\ read'[r].imm = read[r].imm
                            /\ read'[r].pc \notin {"look", "unref"} => read[r].pc \notin {"look", "unref"}
  PROVE  PinInv'
<1>1. \A t \in Tables : Holding(t)' = Holding(t)
  BY DEF Holding
<1>2. RefsExact'
  BY <1>1 DEF PinInv, RefsExact
<1>3. HoldsInUse' /\ TablesInOrder'
  BY DEF PinInv, HoldsInUse, TablesInOrder
<1> QED
  BY <1>2, <1>3 DEF PinInv

(* The memtable switch: the database's reference on the old memtable stays *)
(* with imm, the new one has no holder yet.                                *)
LEMMA PinSwitch ==
  ASSUME DataInv, DataInv', PinInv, NEW w \in Clients, NEW err \in BOOLEAN, SwitchMemtable(w, err)
  PROVE  PinInv'
<1>u. /\ imm = 0 /\ imm' = mem /\ mem' = mem + 1 /\ refs' = [refs EXCEPT ![mem + 1] = 1]
      /\ read' = read
  BY DEF SwitchMemtable, MustSwitch
<1>d. /\ mem \in Tables /\ mem + 1 \in Tables /\ Tables \subseteq Nat \ {0}
      /\ refs \in [Tables -> Int] /\ read \in [Readers -> Reads]
  BY <1>u DEF DataInv, DataType, Tables
<1>t. TablesInOrder /\ HoldsInUse /\ RefsExact
  BY DEF PinInv
<1>1. \A t \in Tables : Holding(t)' = Holding(t)
  BY <1>u DEF Holding
<1>2. Cardinality(Holding(mem + 1)) = 0
  <2>1. \A r \in Readers : read[r].mem \in Nat /\ read[r].imm \in Nat
    BY ReadFields
  <2>2. Holding(mem + 1) = {}
    BY <1>d, <1>t, <2>1 DEF Holding, TablesInOrder
  <2> QED
    BY <2>2, FS_EmptySet
<1>3. RefsExact'
  <2> SUFFICES ASSUME NEW t \in Tables
               PROVE  refs'[t] = (IF t \in {mem', imm'} THEN 1 ELSE 0) + Cardinality(Holding(t)')
    BY DEF RefsExact
  <2>1. CASE t = mem + 1
    BY <1>u, <1>d, <1>1, <1>2, <2>1
  <2>2. CASE t # mem + 1
    <3>1. refs'[t] = refs[t]
      BY <1>u, <1>d, <2>2
    <3>2. t \in {mem', imm'} <=> t \in {mem, imm}
      BY <1>u, <1>d, <2>2
    <3>3. refs[t] = (IF t \in {mem, imm} THEN 1 ELSE 0) + Cardinality(Holding(t))
      BY <1>t DEF RefsExact
    <3> QED
      BY <1>1, <3>1, <3>2, <3>3
  <2> QED
    BY <2>1, <2>2
<1>4. TablesInOrder' /\ HoldsInUse'
  <2>1. \A r \in Readers : read[r].mem \in Nat /\ read[r].imm \in Nat
    BY ReadFields
  <2> QED
    BY <1>u, <1>d, <1>t, <2>1 DEF TablesInOrder, HoldsInUse
<1> QED
  BY <1>3, <1>4 DEF PinInv

(* A flushed memtable loses the database's reference.                      *)
LEMMA PinApplied ==
  ASSUME DataInv, PinInv, BgApplied(TRUE)
  PROVE  PinInv'
<1>u. /\ bg.pc = "apply" /\ imm' = 0 /\ mem' = mem /\ refs' = UnrefTables(refs, {imm})
      /\ read' = read
  BY DEF BgApplied, BgFixed
<1>d. /\ mem \in Tables /\ imm \in Tables /\ Tables \subseteq Nat \ {0}
      /\ refs \in [Tables -> Int]
  BY <1>u DEF DataInv, DataType, Tables, FlushHasInput
<1>t. TablesInOrder /\ HoldsInUse /\ RefsExact /\ imm < mem
  BY DEF PinInv, TablesInOrder
<1>1. \A t \in Tables : Holding(t)' = Holding(t)
  BY <1>u DEF Holding
<1>3. RefsExact'
  <2> SUFFICES ASSUME NEW t \in Tables
               PROVE  refs'[t] = (IF t \in {mem', imm'} THEN 1 ELSE 0) + Cardinality(Holding(t)')
    BY DEF RefsExact
  <2>1. refs[t] = (IF t \in {mem, imm} THEN 1 ELSE 0) + Cardinality(Holding(t))
    BY <1>t DEF RefsExact
  <2>2. refs'[t] = IF t = imm THEN refs[t] - 1 ELSE refs[t]
    BY <1>u DEF UnrefTables
  <2> QED
    BY <1>u, <1>d, <1>t, <1>1, <2>1, <2>2, HoldingFinite
<1>4. TablesInOrder' /\ HoldsInUse'
  BY <1>u, <1>d, <1>t DEF TablesInOrder, HoldsInUse
<1> QED
  BY <1>3, <1>4 DEF PinInv

(* A reader takes its references.                                          *)
LEMMA PinBegin ==
  ASSUME DataInv, PinInv, NEW r \in Readers, GetBegin(r)
  PROVE  PinInv'
<1>u. /\ read[r].pc \in {"idle", "pinned"} /\ UNCHANGED <<mem, imm>>
      /\ refs' = RefTables(refs, {mem, imm} \ {0})
  BY DEF GetBegin
<1>d. /\ mem \in Tables /\ imm \in Tables \cup {0} /\ Tables \subseteq Nat \ {0}
      /\ refs \in [Tables -> Int] /\ read \in [Readers -> Reads]
  BY DEF DataInv, DataType, Tables
<1>t. TablesInOrder /\ HoldsInUse /\ RefsExact /\ read[r].mem = 0 /\ read[r].imm = 0
  BY <1>u DEF PinInv, HoldsInUse
<1>r. /\ read'[r].mem = mem /\ read'[r].imm = imm /\ read'[r].pc = "look"
      /\ \A q \in Readers : q # r => read'[q] = read[q]
  BY <1>d DEF GetBegin, Reads
<1>1. ASSUME NEW t \in Tables
      PROVE  Cardinality(Holding(t)') = Cardinality(Holding(t)) + (IF t \in {mem, imm} THEN 1 ELSE 0)
  <2>1. r \notin Holding(t)
    BY <1>d, <1>t DEF Holding
  <2>2. CASE t \in {mem, imm}
    <3>1. Holding(t)' = Holding(t) \cup {r}
      BY <1>r, <2>2 DEF Holding
    <3> QED
      BY <2>1, <2>2, <3>1, HoldingFinite, FS_AddElement
  <2>3. CASE t \notin {mem, imm}
    <3>1. Holding(t)' = Holding(t)
      BY <1>r, <2>1, <2>3 DEF Holding
    <3> QED
      BY <2>3, <3>1, HoldingFinite
  <2> QED
    BY <2>2, <2>3
<1>2. RefsExact'
  <2> SUFFICES ASSUME NEW t \in Tables
               PROVE  refs'[t] = (IF t \in {mem', imm'} THEN 1 ELSE 0) + Cardinality(Holding(t)')
    BY DEF RefsExact
  <2>1. refs[t] = (IF t \in {mem, imm} THEN 1 ELSE 0) + Cardinality(Holding(t))
    BY <1>t DEF RefsExact
  <2>2. refs'[t] = IF t \in {mem, imm} THEN refs[t] + 1 ELSE refs[t]
    BY <1>u, <1>d DEF RefTables
  <2> QED
    BY <1>u, <1>1, <2>1, <2>2, HoldingFinite
<1>3. HoldsInUse' /\ TablesInOrder'
  <2>1. mem \in Nat /\ imm \in Nat
    BY <1>d
  <2> QED
    BY <1>u, <1>t, <1>r, <2>1 DEF HoldsInUse, TablesInOrder
<1> QED
  BY <1>2, <1>3 DEF PinInv

(* A reader drops them.                                                    *)
LEMMA PinEnd ==
  ASSUME DataInv, PinInv, NEW r \in Readers, GetEnd(r)
  PROVE  PinInv'
<1>u. /\ UNCHANGED <<mem, imm>>
      /\ refs' = UnrefTables(refs, {read[r].mem, read[r].imm} \ {0})
  BY DEF GetEnd
<1>d. /\ mem \in Tables /\ imm \in Tables \cup {0} /\ Tables \subseteq Nat \ {0}
      /\ refs \in [Tables -> Int] /\ read \in [Readers -> Reads]
  BY DEF DataInv, DataType, Tables
<1>t. TablesInOrder /\ HoldsInUse /\ RefsExact
  BY DEF PinInv
<1>r. /\ read'[r].mem = 0 /\ read'[r].imm = 0
      /\ \A q \in Readers : q # r => read'[q] = read[q]
  BY <1>d DEF GetEnd, Reads
<1>1. ASSUME NEW t \in Tables
      PROVE  Cardinality(Holding(t)') = Cardinality(Holding(t)) -
               (IF t \in {read[r].mem, read[r].imm} THEN 1 ELSE 0)
  <2>1. Holding(t)' = Holding(t) \ {r} /\ t # 0
    BY <1>d, <1>r DEF Holding
  <2>2. r \in Holding(t) <=> t \in {read[r].mem, read[r].imm}
    BY DEF Holding
  <2>3. CASE r \in Holding(t)
    BY <2>1, <2>2, <2>3, HoldingFinite, FS_RemoveElement
  <2>4. CASE r \notin Holding(t)
    <3>1. Holding(t)' = Holding(t)
      BY <2>1, <2>4
    <3> QED
      BY <2>2, <2>4, <3>1, HoldingFinite
  <2> QED
    BY <2>3, <2>4
<1>2. RefsExact'
  <2> SUFFICES ASSUME NEW t \in Tables
               PROVE  refs'[t] = (IF t \in {mem', imm'} THEN 1 ELSE 0) + Cardinality(Holding(t)')
    BY DEF RefsExact
  <2>1. refs[t] = (IF t \in {mem, imm} THEN 1 ELSE 0) + Cardinality(Holding(t))
    BY <1>t DEF RefsExact
  <2>2. refs'[t] = IF t \in {read[r].mem, read[r].imm} THEN refs[t] - 1 ELSE refs[t]
    BY <1>u, <1>d DEF UnrefTables
  <2> QED
    BY <1>u, <1>1, <2>1, <2>2, HoldingFinite
<1>3. HoldsInUse' /\ TablesInOrder'
  <2>1. mem \in Nat /\ imm \in Nat
    BY <1>d
  <2> QED
    BY <1>u, <1>d, <1>t, <1>r, <2>1 DEF HoldsInUse, TablesInOrder
<1> QED
  BY <1>2, <1>3 DEF PinInv

-----------------------------------------------------------------------------
(* The group that is being written.                                        *)

(* How far call w is with its group: the numbers it hands out start after  *)
(* last_sequence; entries go in only between the log and the end, and at   *)
(* the end all of them are in, or none after an error.                     *)
ProgressAt(w) ==
  /\ pc[w] \in InGroup => loc[w].base = last_sequence
  /\ pc[w] \notin {"insert", "commit"} => loc[w].pos = 0
  /\ pc[w] # "commit" => loc[w].rc = "ok"
  /\ pc[w] = "insert" => loc[w].pos <= Len(Contents(w))
  /\ pc[w] = "commit" => loc[w].pos = IF loc[w].rc = "ok" THEN Len(Contents(w)) ELSE 0
InsertProgress == \A w \in Clients : ProgressAt(w)

(* The entries of its group that call w has inserted so far.               *)
Half(w) == {EntryAt(w, i) : i \in 1..loc[w].pos}

(* What most steps do to it: nothing.                                      *)
HalfKept == \A x \in Clients : Half(x)' = Half(x)

(* A call that no step of its own moves, or that is not inserting.         *)
LEMMA ProgressOther ==
  ASSUME NEW x \in Clients, ProgressAt(x), loc'[x] = loc[x],
         \/ pc[x] \notin InGroup /\ pc'[x] \notin InGroup
         \/ pc'[x] = pc[x] /\ UNCHANGED <<last_sequence, tmp_batch>> /\ waiter'[x] = waiter[x]
  PROVE  ProgressAt(x)' /\ Half(x)' = Half(x)
<1>1. CASE pc[x] \notin InGroup /\ pc'[x] \notin InGroup
  <2>1. /\ pc[x] \notin {"insert", "commit"} /\ pc'[x] \notin {"insert", "commit"}
        /\ loc[x].pos = 0 /\ loc[x].rc = "ok"
    BY <1>1 DEF ProgressAt, InGroup
  <2> QED
    BY <1>1, <2>1 DEF ProgressAt, Half
<1>2. CASE pc'[x] = pc[x] /\ UNCHANGED <<last_sequence, tmp_batch>> /\ waiter'[x] = waiter[x]
  <2>1. Contents(x)' = Contents(x)
    BY <1>2 DEF Contents
  <2>2. \A i : EntryAt(x, i)' = EntryAt(x, i)
    BY <2>1 DEF EntryAt
  <2> QED
    BY <1>2, <2>1, <2>2 DEF ProgressAt, Half
<1> QED
  BY <1>1, <1>2

(* Nobody but the leader is in a group, before and after a broadcast.      *)
LEMMA OthersOutside ==
  ASSUME Inv, NEW w \in Clients, pc[w] \in Leading, NEW x \in Clients, x # w
  PROVE  pc[x] \notin InGroup /\ Woken(pc)[x] \notin InGroup
<1>1. pc[x] \notin InGroup
  BY StagesFacts DEF Inv, QueueInv, LeaderIsHead
<1> QED
  BY <1>1 DEF Woken, InGroup

(* A step of the leader before its first insertion.                        *)
LEMMA ProgressLeader ==
  ASSUME Inv, Inv', InsertProgress, NEW w \in Clients, pc[w] \in Leading,
         \A x \in Clients : x # w => loc'[x] = loc[x] /\ pc'[x] \in {pc[x], Woken(pc)[x]},
         loc[w].pos = 0, loc'[w].pos = 0,
         pc'[w] = "commit" <=> loc'[w].rc # "ok",
         pc'[w] \in InGroup => loc'[w].base = last_sequence'
  PROVE  InsertProgress' /\ HalfKept
<1>1. ASSUME NEW x \in Clients, x # w PROVE ProgressAt(x)' /\ Half(x)' = Half(x)
  BY <1>1, OthersOutside, ProgressOther DEF InsertProgress
<1>2. Len(Contents(w)') \in Nat
  BY DEF Inv, ClientsType, Waiters, Contents
<1>3. ProgressAt(w)'
  BY <1>2 DEF ProgressAt
<1>4. Half(w)' = Half(w)
  BY DEF Half
<1> QED
  BY <1>1, <1>3, <1>4 DEF InsertProgress, HalfKept

(* The end of ldb_write.                                                   *)
LEMMA ProgressDequeue ==
  ASSUME Inv, InsertProgress, NEW w \in Clients, pc[w] \in Leading,
         NEW n, NEW rc, NEW f, f = pc \/ f = Woken(pc), Dequeue(w, n, rc, f)
  PROVE  /\ InsertProgress' /\ Half(w)' = {}
         /\ \A x \in Clients : x # w => Half(x)' = Half(x) /\ Half(x) = {}
<1>p. /\ pc'[w] = AfterWrite(w, rc) /\ loc'[w] = NewLoc(FALSE)
      /\ \A x \in Clients : x # w => loc'[x] = loc[x] /\ pc'[x] \in {f[x], "queue"}
  BY DEF Dequeue, Inv, ClientsType
<1>1. ASSUME NEW x \in Clients, x # w
      PROVE  ProgressAt(x)' /\ Half(x)' = Half(x) /\ Half(x) = {}
  <2>1. pc[x] \notin InGroup /\ f[x] \notin InGroup /\ "queue" \notin InGroup
    BY <1>1, OthersOutside DEF InGroup
  <2>2. pc'[x] \notin InGroup
    BY <1>p, <1>1, <2>1
  <2>3. loc[x].pos = 0
    BY <2>1 DEF InsertProgress, ProgressAt, InGroup
  <2>4. Half(x) = {}
    BY <2>3 DEF Half
  <2> QED
    BY <1>1, <1>p, <2>1, <2>2, <2>4, ProgressOther DEF InsertProgress
<1>2. pc'[w] \notin InGroup
  BY <1>p DEF AfterWrite, InGroup
<1>3. ProgressAt(w)' /\ Half(w)' = {}
  BY <1>p, <1>2 DEF ProgressAt, Half, NewLoc, InGroup
<1> QED
  BY <1>1, <1>3 DEF InsertProgress

(* A call begins, or leaves ldb_write, or is in another part of the code.  *)
LEMMA ProgressOutside ==
  ASSUME Inv, InsertProgress, NEW w \in Clients, pc[w] \notin InGroup,
         NEW t, t \notin InGroup, pc' = [pc EXCEPT ![w] = t],
         \A x \in Clients : x # w => loc'[x] = loc[x] /\ waiter'[x] = waiter[x],
         loc'[w] = loc[w] \/ loc'[w] = NewLoc(IsNull(w)),
         UNCHANGED <<last_sequence, tmp_batch>>
  PROVE  InsertProgress' /\ HalfKept
<1>p. pc'[w] = t /\ \A x \in Clients : x # w => pc'[x] = pc[x]
  BY DEF Inv, ClientsType
<1>1. ASSUME NEW x \in Clients, x # w PROVE ProgressAt(x)' /\ Half(x)' = Half(x)
  BY <1>1, <1>p, ProgressOther DEF InsertProgress
<1>2. CASE loc'[w] = loc[w]
  <2>1. ProgressAt(w)' /\ Half(w)' = Half(w)
    BY <1>2, <1>p, ProgressOther DEF InsertProgress
  <2> QED
    BY <1>1, <2>1 DEF InsertProgress, HalfKept
<1>3. CASE loc'[w] = NewLoc(IsNull(w))
  <2>1. loc[w].pos = 0 /\ loc'[w].pos = 0 /\ loc'[w].rc = "ok"
    BY <1>3 DEF InsertProgress, ProgressAt, InGroup, NewLoc
  <2>2. ProgressAt(w)'
    BY <1>p, <2>1 DEF ProgressAt, InGroup
  <2>3. Half(w)' = Half(w)
    BY <2>1 DEF Half
  <2> QED
    BY <1>1, <2>2, <2>3 DEF InsertProgress, HalfKept
<1> QED
  BY <1>2, <1>3

(* A step of another thread, with or without a broadcast.                  *)
LEMMA ProgressElse ==
  ASSUME InsertProgress, pc' = pc \/ pc' = Woken(pc),
         UNCHANGED <<loc, waiter, tmp_batch, last_sequence>>
  PROVE  InsertProgress' /\ HalfKept
<1>1. ASSUME NEW x \in Clients PROVE ProgressAt(x)' /\ Half(x)' = Half(x)
  <2>1. pc'[x] = pc[x] \/ (pc[x] \notin InGroup /\ pc'[x] \notin InGroup)
    BY DEF Woken, InGroup
  <2> QED
    BY <2>1, ProgressOther DEF InsertProgress
<1> QED
  BY <1>1 DEF InsertProgress, HalfKept

(* The steps of ldb_write that insert nothing, and those of ldb_compact.   *)
LEMMA ProgressCall ==
  ASSUME Inv, Inv', InsertProgress, NEW w \in Clients,
         \/ Write(w) \/ CompactMemtable(w) \/ Wake(w)
         \/ RoomError(w) \/ RoomDelay(w) \/ SleepOver(w) \/ RoomOk(w) \/ RoomWait(w) \/ SwitchFails(w)
         \/ (\E err \in BOOLEAN : SwitchMemtable(w, err))
         \/ GroupJoin(w) \/ GroupReady(w) \/ AddRecord(w) \/ SyncLog(w)
         \/ CompactBegin(w) \/ ImmCheck(w) \/ RangeBegin(w) \/ RangeWait(w) \/ RangeEnd(w)
  PROVE  InsertProgress' /\ HalfKept
<1>p. /\ pc \in [Clients -> Stages] /\ loc \in [Clients -> Locals] /\ waiter \in [Clients -> Waiters]
      /\ loc[w] \in Locals
  BY DEF Inv, ClientsType
<1>g. ProgressAt(w)
  BY DEF InsertProgress
<1>1. CASE Write(w) \/ CompactMemtable(w)
  <2>1. PICK b, s : Enqueue(w, b, s)
    BY <1>1 DEF Write, CompactMemtable
  <2>2. UNCHANGED <<last_sequence, tmp_batch>> /\ pc[w] \in {"idle", "memtable"}
    BY <1>1 DEF Write, CompactMemtable, EngineFixed, dataVars
  <2>3. /\ \E t \in {"cvwait", "room"} : pc' = [pc EXCEPT ![w] = t]
        /\ \A x \in Clients : x # w => loc'[x] = loc[x] /\ waiter'[x] = waiter[x]
        /\ loc'[w] = NewLoc(IsNull(w))
    BY <1>p, <2>1 DEF Enqueue
  <2>4. pc[w] \notin InGroup /\ "cvwait" \notin InGroup /\ "room" \notin InGroup
    BY <2>2 DEF InGroup
  <2> QED
    BY <2>2, <2>3, <2>4, ProgressOutside
<1>2. CASE Wake(w)
  <2>1. /\ UNCHANGED <<last_sequence, tmp_batch, loc, waiter>> /\ pc[w] = "queue"
        /\ \E t \in {"ret", "immcheck", "level", "room"} : pc' = [pc EXCEPT ![w] = t]
    BY <1>2 DEF Wake, EngineFixed, dataVars, AfterWrite
  <2>2. pc[w] \notin InGroup /\ {"ret", "immcheck", "level", "room"} \cap InGroup = {}
    BY <2>1 DEF InGroup
  <2> QED
    BY <2>1, <2>2, ProgressOutside
<1>3. CASE CompactBegin(w) \/ ImmCheck(w) \/ RangeBegin(w) \/ RangeWait(w) \/ RangeEnd(w)
  <2>1. /\ UNCHANGED <<last_sequence, tmp_batch, loc, waiter>>
        /\ pc[w] \in {"idle", "immcheck", "level", "range"}
        /\ \E t \in {"memtable", "immwait", "level", "range", "rangewait", "ret"} :
             pc' = [pc EXCEPT ![w] = t]
    BY <1>3 DEF CompactBegin, ImmCheck, RangeBegin, RangeWait, RangeEnd, dataVars
  <2>2. /\ pc[w] \notin InGroup
        /\ {"memtable", "immwait", "level", "range", "rangewait", "ret"} \cap InGroup = {}
    BY <2>1 DEF InGroup
  <2> QED
    BY <2>1, <2>2, ProgressOutside
<1>4. CASE RoomError(w) \/ SwitchFails(w) \/ (RoomOk(w) /\ IsNull(w))
  <2>1. pc[w] = "room" /\ \E rc \in {"ok", "err"} : Dequeue(w, 1, rc, pc)
    BY <1>4 DEF RoomError, SwitchFails, RoomOk, MustSwitch, InRoom
  <2>2. pc[w] \in Leading /\ Half(w) = {}
    BY <1>g, <2>1 DEF Leading, ProgressAt, Half
  <2> QED
    BY <2>1, <2>2, ProgressDequeue DEF HalfKept
<1>5. CASE \/ RoomDelay(w) \/ SleepOver(w) \/ RoomWait(w) \/ (RoomOk(w) /\ ~IsNull(w))
           \/ \E err \in BOOLEAN : SwitchMemtable(w, err)
  <2>1. pc[w] \in {"room", "sleep"} /\ last_sequence' = last_sequence
    BY <1>5 DEF RoomDelay, SleepOver, RoomWait, RoomOk, SwitchMemtable, MustSwitch, InRoom,
       EngineFixed, dataVars
  <2>2. pc[w] \in Leading /\ loc[w].pos = 0 /\ loc[w].rc = "ok"
    BY <1>g, <2>1 DEF Leading, ProgressAt
  <2>3. /\ \A x \in Clients : x # w => loc'[x] = loc[x] /\ pc'[x] \in {pc[x], Woken(pc)[x]}
        /\ pc'[w] \in {"room", "sleep", "roomwait", "group"}
        /\ pc'[w] = "group" => loc'[w].base = last_sequence
        /\ loc'[w].pos = loc[w].pos /\ loc'[w].rc = loc[w].rc
    <3>1. CASE RoomDelay(w)
      BY <1>p, <3>1 DEF RoomDelay, Locals
    <3>2. CASE SleepOver(w) \/ RoomWait(w)
      BY <1>p, <3>2 DEF SleepOver, RoomWait
    <3>3. CASE RoomOk(w) /\ ~IsNull(w)
      BY <1>p, <3>3 DEF RoomOk, Locals
    <3>4. CASE \E err \in BOOLEAN : SwitchMemtable(w, err)
      <4>1. /\ pc[w] = "room" /\ (pc' = pc \/ pc' = Woken(pc))
            /\ loc' = [loc EXCEPT ![w] = [loc[w] EXCEPT !.force = FALSE]]
        BY <3>4 DEF SwitchMemtable, MustSwitch, InRoom, NotForced
      <4>2. pc'[w] = "room"
        BY <4>1 DEF Woken
      <4>3. loc'[w].pos = loc[w].pos /\ loc'[w].rc = loc[w].rc
        BY <1>p, <4>1 DEF Locals
      <4> QED
        BY <1>p, <4>1, <4>2, <4>3
    <3> QED
      BY <1>5, <3>1, <3>2, <3>3, <3>4
  <2>4. /\ pc'[w] # "commit" /\ loc'[w].rc = "ok" /\ loc'[w].pos = 0
        /\ pc'[w] \in InGroup => loc'[w].base = last_sequence'
    BY <2>1, <2>2, <2>3 DEF InGroup
  <2> QED
    BY <2>2, <2>3, <2>4, ProgressLeader
<1>6. CASE GroupJoin(w) \/ GroupReady(w) \/ AddRecord(w) \/ SyncLog(w)
  <2>1. pc[w] \in {"group", "log", "sync"} /\ last_sequence' = last_sequence
    BY <1>6 DEF GroupJoin, GroupReady, AddRecord, SyncLog, EngineFixed, dataVars
  <2>2. /\ pc[w] \in Leading /\ loc[w].pos = 0 /\ loc[w].rc = "ok"
        /\ loc[w].base = last_sequence
    BY <1>g, <2>1 DEF Leading, InGroup, ProgressAt
  <2>3. /\ \A x \in Clients : x # w => loc'[x] = loc[x] /\ pc'[x] = pc[x]
        /\ pc'[w] = "commit" <=> loc'[w].rc # "ok"
        /\ loc'[w].pos = loc[w].pos /\ loc'[w].base = loc[w].base
    <3>1. CASE GroupJoin(w)
      <4> DEFINE m == loc[w].n + 1
                 x == writers[m]
                 z == loc[w].size + Len(waiter[x].batch)
      <4>1. /\ pc' = pc /\ pc[w] = "group"
            /\ \/ loc' = [loc EXCEPT ![w].n = m]
               \/ loc' = [loc EXCEPT ![w].n = m, ![w].tmp = TRUE, ![w].size = z]
        BY <3>1 DEF GroupJoin
      <4> HIDE DEF m, z
      <4>2. CASE loc' = [loc EXCEPT ![w].n = m]
        BY <1>p, <2>2, <4>1, <4>2 DEF Locals
      <4>3. CASE loc' = [loc EXCEPT ![w].n = m, ![w].tmp = TRUE, ![w].size = z]
        BY <1>p, <2>2, <4>1, <4>3 DEF Locals
      <4> QED
        BY <4>1, <4>2, <4>3
    <3>2. CASE GroupReady(w)
      BY <1>p, <2>2, <3>2 DEF GroupReady
    <3>3. CASE AddRecord(w)
      BY <1>p, <2>2, <3>3 DEF AddRecord, Locals
    <3>4. CASE SyncLog(w)
      BY <1>p, <2>2, <3>4 DEF SyncLog, Locals
    <3> QED
      BY <1>6, <3>1, <3>2, <3>3, <3>4
  <2> QED
    BY <2>1, <2>2, <2>3, ProgressLeader
<1> QED
  BY <1>1, <1>2, <1>3, <1>4, <1>5, <1>6

(* One entry goes in, or the last one is in.                               *)
LEMMA ProgressInsert ==
  ASSUME Inv, InsertProgress, NEW w \in Clients, InsertInto(w)
  PROVE  /\ InsertProgress'
         /\ \A x \in Clients : x # w => Half(x)' = Half(x)
         /\ \/ /\ tables' = [tables EXCEPT ![mem] = @ \cup {EntryAt(w, loc[w].pos + 1)}]
               /\ Half(w)' = Half(w) \cup {EntryAt(w, loc[w].pos + 1)}
            \/ tables' = tables /\ Half(w)' = Half(w)
<1>p. /\ pc \in [Clients -> Stages] /\ loc \in [Clients -> Locals] /\ loc[w] \in Locals
      /\ loc[w].pos \in Nat
  BY DEF Inv, ClientsType, Locals
<1>g. ProgressAt(w)
  BY DEF InsertProgress
<1>u. pc[w] = "insert" /\ UNCHANGED <<waiter, tmp_batch, last_sequence>>
  BY DEF InsertInto
<1>l. Len(Contents(w)) \in Nat
  BY ContentsType
<1>1. CASE loc[w].pos < Len(Contents(w))
  <2>1. /\ tables' = [tables EXCEPT ![mem] = @ \cup {EntryAt(w, loc[w].pos + 1)}]
        /\ loc' = [loc EXCEPT ![w].pos = loc[w].pos + 1] /\ pc' = pc
    BY <1>1 DEF InsertInto
  <2>2. /\ \A x \in Clients : x # w => loc'[x] = loc[x]
        /\ loc'[w].pos = loc[w].pos + 1 /\ loc'[w].base = loc[w].base /\ loc'[w].rc = loc[w].rc
        /\ loc'[w].tmp = loc[w].tmp
    BY <1>p, <2>1 DEF Locals
  <2>3. \A x \in Clients : x # w => ProgressAt(x)' /\ Half(x)' = Half(x)
    BY <1>u, <2>1, <2>2, ProgressOther DEF InsertProgress
  <2>4. Contents(w)' = Contents(w)
    BY <1>u, <2>2 DEF Contents
  <2>5. \A i : EntryAt(w, i)' = EntryAt(w, i)
    BY <2>2, <2>4 DEF EntryAt
  <2>6. ProgressAt(w)'
    BY <1>p, <1>g, <1>u, <1>l, <1>1, <2>1, <2>2, <2>4 DEF ProgressAt
  <2>7. 1..(loc[w].pos + 1) = 1..loc[w].pos \cup {loc[w].pos + 1}
    BY <1>p
  <2>8. Half(w)' = {EntryAt(w, i) : i \in 1..(loc[w].pos + 1)}
    BY <2>2, <2>5 DEF Half
  <2>9. Half(w)' = Half(w) \cup {EntryAt(w, loc[w].pos + 1)}
    BY <2>7, <2>8 DEF Half
  <2> QED
    BY <2>1, <2>3, <2>6, <2>9 DEF InsertProgress
<1>2. CASE ~(loc[w].pos < Len(Contents(w)))
  <2>1. tables' = tables /\ loc' = loc /\ pc' = [pc EXCEPT ![w] = "commit"]
    BY <1>2 DEF InsertInto
  <2>2. pc'[w] = "commit" /\ \A x \in Clients : x # w => pc'[x] = pc[x]
    BY <1>p, <2>1
  <2>3. \A x \in Clients : x # w => ProgressAt(x)' /\ Half(x)' = Half(x)
    BY <1>u, <2>1, <2>2, ProgressOther DEF InsertProgress
  <2>4. Contents(w)' = Contents(w)
    BY <1>u, <2>1 DEF Contents
  <2>5. \A i : EntryAt(w, i)' = EntryAt(w, i)
    BY <2>1, <2>4 DEF EntryAt
  <2>6. ProgressAt(w)'
    BY <1>p, <1>g, <1>u, <1>l, <1>2, <2>1, <2>2, <2>4 DEF ProgressAt, InGroup
  <2>7. Half(w)' = Half(w)
    BY <2>1, <2>5 DEF Half
  <2> QED
    BY <2>1, <2>3, <2>6, <2>7 DEF InsertProgress
<1> QED
  BY <1>1, <1>2

-----------------------------------------------------------------------------
(* The layers a reader searches.                                           *)

(* What has been inserted is in the memtable in use.                       *)
InFlight == \A w \in Clients : Half(w) \subseteq tables[mem]

(* A number above last_sequence belongs to the group being inserted; no    *)
(* number is 0, which a lookup returns for "not found".                    *)
Numbered ==
  /\ \A t \in Tables : \A e \in tables[t] :
       /\ e.seq > 0
       /\ e.seq > last_sequence => t = mem /\ \E w \in Clients : e \in Half(w)
  /\ \A e \in disk : e.seq > 0 /\ e.seq <= last_sequence

(* A later memtable has only later numbers, and so has every memtable the  *)
(* version does not have yet.                                              *)
Layered ==
  /\ \A t, u \in Tables : t < u => \A e \in tables[t], f \in tables[u] : e.seq < f.seq
  /\ \A e \in disk : \A t \in {mem, imm} \ {0} : \A f \in tables[t] : e.seq < f.seq

(* What reader r searches, in layers, is what was visible when it began,   *)
(* up to its snapshot.                                                     *)
Held(r) == read[r].ver \cup tables[read[r].mem] \cup
           (IF read[r].imm = 0 THEN {} ELSE tables[read[r].imm])
SnapshotAt(r) ==
  /\ read[r].snap <= last_sequence
  /\ read[r].pc = "look" =>
       /\ read[r].imm < read[r].mem
       /\ \A e \in read[r].ver :
            /\ e.seq > 0 /\ e.seq <= last_sequence
            /\ \A t \in {read[r].mem, read[r].imm} \ {0} : \A f \in tables[t] : e.seq < f.seq
       /\ {e \in Held(r) : e.seq <= read[r].snap} = {e \in Visible : e.seq <= read[r].snap}
SnapshotKept == \A r \in Readers : SnapshotAt(r)

StoreInv == InsertProgress /\ InFlight /\ Numbered /\ Layered /\ SnapshotKept

(* The invariant holds as the database opens.                              *)
LEMMA StoreInit == Init => StoreInv
<1> SUFFICES ASSUME Init PROVE StoreInv
  OBVIOUS
<1>1. \A w \in Clients : pc[w] = "idle" /\ loc[w] = NewLoc(FALSE)
  BY DEF Init
<1>2. \A t \in Tables : tables[t] = {}
  BY DEF Init
<1>3. InsertProgress
  BY <1>1 DEF InsertProgress, ProgressAt, NewLoc, InGroup
<1>4. \A w \in Clients : Half(w) = {}
  BY <1>1 DEF Half, NewLoc
<1>5. InFlight /\ Numbered /\ Layered
  <2>1. \A t \in {mem, imm} \ {0} : t \in Tables
    BY SpentFinite DEF Init, Tables
  <2> QED
    BY <1>2, <1>4, <2>1 DEF Init, InFlight, Numbered, Layered
<1>6. SnapshotKept
  BY DEF Init, SnapshotKept, SnapshotAt
<1> QED
  BY <1>3, <1>5, <1>6 DEF StoreInv

(* Numbers are numbers.                                                    *)
LEMMA SeqNat ==
  ASSUME NEW e \in Entry
  PROVE  e.seq \in Nat
BY DEF Entry

(* A reader that a step leaves alone: the memtables it holds may have got  *)
(* entries above last_sequence, and above it more may have become visible. *)
LEMMA SnapshotStep ==
  ASSUME Inv, Inv', DataInv, DataInv', NEW r \in Readers, SnapshotAt(r), read'[r] = read[r],
         last_sequence <= last_sequence',
         {e \in Visible' : e.seq <= last_sequence} = Visible,
         read[r].pc = "look" =>
           \A t \in {read[r].mem, read[r].imm} \ {0} :
             /\ tables[t] \subseteq tables'[t]
             /\ \A e \in tables'[t] \ tables[t] : e.seq > last_sequence
  PROVE  SnapshotAt(r)'
<1>n. last_sequence \in Nat /\ last_sequence' \in Nat /\ read[r].snap \in Nat
  BY ReadFields DEF Inv, ClientsType
<1>1. read'[r].snap <= last_sequence'
  BY <1>n DEF SnapshotAt
<1>2. ASSUME read[r].pc = "look"
      PROVE  /\ read'[r].imm < read'[r].mem
             /\ \A e \in read'[r].ver :
                  /\ e.seq > 0 /\ e.seq <= last_sequence'
                  /\ \A t \in {read'[r].mem, read'[r].imm} \ {0} : \A f \in tables'[t] : e.seq < f.seq
             /\ {e \in Held(r)' : e.seq <= read'[r].snap} = {e \in Visible' : e.seq <= read'[r].snap}
  <2>t. /\ read[r].mem \in Tables /\ read[r].imm \in Tables \cup {0} /\ read[r].mem # 0
        /\ read[r].ver \subseteq Entry
        /\ \A t \in Tables : tables[t] \subseteq Entry /\ tables'[t] \subseteq Entry
    <3>1. read[r].mem \in Tables /\ 0 \notin Tables
      BY <1>2 DEF DataInv, ReaderHasTable, Tables
    <3>2. \A t \in Tables : tables[t] \subseteq Entry /\ tables'[t] \subseteq Entry
      BY DEF DataInv, DataType
    <3> QED
      BY <3>1, <3>2, ReadFields
  <2>s. /\ read[r].imm < read[r].mem /\ read[r].snap <= last_sequence
        /\ {e \in Held(r) : e.seq <= read[r].snap} = {e \in Visible : e.seq <= read[r].snap}
        /\ \A e \in read[r].ver :
             /\ e.seq > 0 /\ e.seq <= last_sequence
             /\ \A t \in {read[r].mem, read[r].imm} \ {0} : \A f \in tables[t] : e.seq < f.seq
    BY <1>2 DEF SnapshotAt
  <2>1. ASSUME NEW e \in read[r].ver
        PROVE  /\ e.seq > 0 /\ e.seq <= last_sequence'
               /\ \A t \in {read[r].mem, read[r].imm} \ {0} : \A f \in tables'[t] : e.seq < f.seq
    <3>1. e.seq \in Nat /\ e.seq > 0 /\ e.seq <= last_sequence
      BY <2>t, <2>s, SeqNat
    <3>2. ASSUME NEW t \in {read[r].mem, read[r].imm} \ {0}, NEW f \in tables'[t] PROVE e.seq < f.seq
      <4>1. f.seq \in Nat
        BY <2>t, SeqNat
      <4>2. CASE f \in tables[t]
        BY <2>s, <4>2
      <4>3. CASE f \notin tables[t]
        BY <1>n, <1>2, <3>1, <4>1, <4>3
      <4> QED
        BY <4>2, <4>3
    <3> QED
      BY <1>n, <3>1, <3>2
  <2>2. ASSUME NEW e, e.seq <= read[r].snap PROVE e \in Held(r)' <=> e \in Held(r)
    <3>1. ASSUME NEW t \in {read[r].mem, read[r].imm} \ {0} PROVE e \in tables'[t] <=> e \in tables[t]
      <4>1. e \in tables'[t] => e.seq \in Nat
        BY <2>t, SeqNat
      <4> QED
        BY <1>n, <1>2, <2>2, <2>s, <4>1
    <3> QED
      BY <2>t, <3>1 DEF Held
  <2>3. ASSUME NEW e, e.seq <= read[r].snap PROVE e \in Visible' <=> e \in Visible
    <3>1. e \in Visible' => e.seq \in Nat
      <4>1. /\ disk' \subseteq Entry /\ mem' \in Tables /\ imm' \in Tables \cup {0}
            /\ \A t \in Tables : tables'[t] \subseteq Entry
        BY DEF DataInv, DataType
      <4> QED
        BY <4>1, SeqNat DEF Visible
    <3>2. e \in Visible' => e.seq <= last_sequence
      BY <1>n, <2>s, <2>3, <3>1
    <3> QED
      BY <3>2
  <2> QED
    BY <2>s, <2>1, <2>2, <2>3
<1> QED
  BY <1>1, <1>2 DEF SnapshotAt

-----------------------------------------------------------------------------
(* The steps, by what they do to the data.                                 *)

DataFixed == UNCHANGED <<last_sequence, mem, imm, tables, refs, disk, read>>

(* Every step is one of these.                                             *)
LEMMA StepKinds ==
  ASSUME Inv, Inv', InsertProgress, [Next]_vars
  PROVE  \/ DataFixed /\ InsertProgress' /\ HalfKept
         \/ \E w \in Writers : InsertInto(w) \/ Commit(w)
         \/ \E w \in Clients, err \in BOOLEAN : SwitchMemtable(w, err)
         \/ \E r \in Readers : ReaderStep(r)
         \/ BgApplied(TRUE)
<1> DEFINE Goal == \/ DataFixed /\ InsertProgress' /\ HalfKept
                   \/ \E w \in Writers : InsertInto(w) \/ Commit(w)
                   \/ \E w \in Clients, err \in BOOLEAN : SwitchMemtable(w, err)
                   \/ \E r \in Readers : ReaderStep(r)
                   \/ BgApplied(TRUE)
<1>c. Writers \subseteq Clients /\ Compactors \subseteq Clients
  BY DEF Clients
<1>0. ASSUME NEW w \in Clients,
             \/ Write(w) \/ CompactMemtable(w) \/ Wake(w)
             \/ RoomError(w) \/ RoomDelay(w) \/ SleepOver(w) \/ RoomOk(w) \/ RoomWait(w) \/ SwitchFails(w)
             \/ GroupJoin(w) \/ GroupReady(w) \/ AddRecord(w) \/ SyncLog(w)
             \/ CompactBegin(w) \/ ImmCheck(w) \/ RangeBegin(w) \/ RangeWait(w) \/ RangeEnd(w)
      PROVE  DataFixed /\ InsertProgress' /\ HalfKept
  <2>1. CASE AddRecord(w) \/ SyncLog(w)
    BY <2>1, ProgressCall DEF AddRecord, SyncLog, DataFixed
  <2>2. CASE CompactBegin(w) \/ ImmCheck(w) \/ RangeBegin(w) \/ RangeWait(w) \/ RangeEnd(w)
    <3>1. DataFixed
      BY <2>2 DEF CompactBegin, ImmCheck, RangeBegin, RangeWait, RangeEnd, dataVars, DataFixed
    <3> QED
      BY <2>2, <3>1, ProgressCall
  <2>3. CASE EngineFixed
    <3>1. DataFixed
      BY <2>3 DEF EngineFixed, dataVars, DataFixed
    <3> QED
      BY <1>0, <3>1, ProgressCall
  <2> QED
    BY <1>0, <2>1, <2>2, <2>3 DEF Write, CompactMemtable, Wake, RoomError, RoomDelay, SleepOver,
       RoomOk, RoomWait, SwitchFails, GroupJoin, GroupReady
<1>1. ASSUME NEW w \in Writers, WriterStep(w) PROVE Goal
  BY <1>c, <1>0, <1>1 DEF WriterStep
<1>2. ASSUME NEW c \in Compactors, CompactorStep(c) PROVE Goal
  BY <1>c, <1>0, <1>2 DEF CompactorStep
<1>3. ASSUME BgStep, ~BgApplied(TRUE)
      PROVE  DataFixed /\ InsertProgress' /\ HalfKept
  <2>1. /\ DataFixed /\ UNCHANGED <<loc, waiter, tmp_batch>>
        /\ pc' = pc \/ pc' = Woken(pc)
    <3> USE DEF BgFixed, RecordError, FlushFails, DataFixed
    <3>1. CASE BgNothing \/ BgFlush \/ BgManual \/ BgAuto \/ BgPrioritize
      BY <3>1 DEF BgNothing, BgFlush, BgManual, BgAuto, BgPrioritize
    <3>2. CASE \E ok \in BOOLEAN : BgBuilt(ok)
      BY <3>2 DEF BgBuilt
    <3>3. CASE \E ok \in BOOLEAN : BgApplied(ok)
      <4>1. BgApplied(FALSE)
        BY <1>3, <3>3
      <4> QED
        BY <4>1 DEF BgApplied
    <3>4. CASE \E ok \in BOOLEAN : BgCompacted(ok) \/ BgInstalled(ok)
      BY <3>4 DEF BgCompacted, BgInstalled
    <3>5. CASE BgFlushed \/ BgPost \/ BgEnd
      BY <3>5 DEF BgFlushed, BgPost, BgEnd, clientVars, dataVars
    <3> QED
      BY <1>3, <3>1, <3>2, <3>3, <3>4, <3>5 DEF BgStep
  <2> QED
    BY <2>1, ProgressElse DEF DataFixed
<1>4. CASE Close \/ Closed \/ UNCHANGED vars
  <2>1. DataFixed /\ UNCHANGED <<pc, loc, waiter, tmp_batch>>
    BY <1>4 DEF Close, Closed, vars, clientVars, dataVars, DataFixed
  <2> QED
    BY <2>1, ProgressElse DEF DataFixed
<1> QED
  BY <1>1, <1>2, <1>3, <1>4 DEF Next

(* Most steps touch no data.                                               *)
LEMMA FixedStore ==
  ASSUME Inv, Inv', DataInv, DataInv', StoreInv, DataFixed, InsertProgress', HalfKept
  PROVE  StoreInv' /\ Visible' = Visible
<1>u. UNCHANGED <<last_sequence, mem, imm, tables, refs, disk, read>>
  BY DEF DataFixed
<1>1. Visible' = Visible
  BY <1>u DEF Visible
<1>2. InFlight' /\ Numbered' /\ Layered'
  BY <1>u DEF StoreInv, InFlight, Numbered, Layered, HalfKept
<1>3. SnapshotKept'
  <2>1. \A r \in Readers : Held(r)' = Held(r)
    BY <1>u DEF Held
  <2> QED
    BY <1>u, <1>1, <2>1 DEF StoreInv, SnapshotKept, SnapshotAt
<1> QED
  BY <1>1, <1>2, <1>3 DEF StoreInv

(* The entry that goes in next has a number nobody has seen.               *)
LEMMA NextEntry ==
  ASSUME Inv, InsertProgress, NEW w \in Clients, pc[w] \in InGroup, NEW i \in Nat \ {0}
  PROVE  EntryAt(w, i).seq = last_sequence + i
BY DEF InsertProgress, ProgressAt, EntryAt

(* Only the leader has inserted anything.                                  *)
LEMMA HalfOfLeader ==
  ASSUME Inv, InsertProgress, NEW w \in Clients, pc[w] \in Leading, NEW x \in Clients, Half(x) # {}
  PROVE  x = w /\ pc[x] \in {"insert", "commit"}
<1>1. loc[x].pos # 0
  BY DEF Half
<1>2. pc[x] \in {"insert", "commit"}
  BY <1>1 DEF InsertProgress, ProgressAt
<1> QED
  BY <1>2, OthersOutside DEF InGroup

(* ldb_batch_insert_into puts one more entry into the memtable.            *)
LEMMA InsertStore ==
  ASSUME Inv, Inv', DataInv, DataInv', StoreInv, NEW w \in Clients, InsertInto(w)
  PROVE  StoreInv' /\ Visible' = Visible
<1>u. UNCHANGED <<last_sequence, mem, imm, refs, disk, read>> /\ pc[w] = "insert"
  BY DEF InsertInto
<1>d. /\ mem \in Tables /\ imm \in Tables \cup {0} /\ Tables \subseteq Nat \ {0}
      /\ tables \in [Tables -> SUBSET Entry] /\ tables' \in [Tables -> SUBSET Entry]
      /\ disk \subseteq Entry /\ last_sequence \in Nat /\ loc[w].pos \in Nat
  <2>1. Tables \subseteq Nat \ {0}
    BY DEF Tables
  <2>2. last_sequence \in Nat /\ loc[w].pos \in Nat
    BY DEF Inv, ClientsType, Locals
  <2> QED
    BY <2>1, <2>2 DEF DataInv, DataType
<1>p. /\ InsertProgress'
      /\ \A x \in Clients : x # w => Half(x)' = Half(x)
      /\ \/ /\ tables' = [tables EXCEPT ![mem] = @ \cup {EntryAt(w, loc[w].pos + 1)}]
            /\ Half(w)' = Half(w) \cup {EntryAt(w, loc[w].pos + 1)}
         \/ tables' = tables /\ Half(w)' = Half(w)
  BY ProgressInsert DEF StoreInv
<1>1. CASE tables' = tables /\ Half(w)' = Half(w)
  <2>1. DataFixed /\ HalfKept
    BY <1>u, <1>p, <1>1 DEF DataFixed, HalfKept
  <2> QED
    BY <1>p, <2>1, FixedStore
<1>2. CASE /\ tables' = [tables EXCEPT ![mem] = @ \cup {EntryAt(w, loc[w].pos + 1)}]
           /\ Half(w)' = Half(w) \cup {EntryAt(w, loc[w].pos + 1)}
  <2> DEFINE n == EntryAt(w, loc[w].pos + 1)
  <2>n. n.seq = last_sequence + loc[w].pos + 1 /\ n.seq > last_sequence /\ n.seq \in Nat /\ n.seq > 0
    <3>1. n.seq = last_sequence + (loc[w].pos + 1)
      BY <1>u, <1>d, NextEntry DEF StoreInv, InGroup
    <3> QED
      BY <1>d, <3>1
  <2> HIDE DEF n
  <2>t. /\ tables'[mem] = tables[mem] \cup {n}
        /\ \A t \in Tables : t # mem => tables'[t] = tables[t]
    BY <1>d, <1>2 DEF n
  <2>h. Half(w)' = Half(w) \cup {n}
    BY <1>2 DEF n
  <2>1. InFlight'
    BY <1>u, <1>p, <2>t, <2>h DEF StoreInv, InFlight
  <2>2. Numbered'
    <3>1. \A x \in Clients : Half(x) \subseteq Half(x)'
      BY <1>p, <2>h
    <3>2. ASSUME NEW t \in Tables, NEW e \in tables'[t]
          PROVE  /\ e.seq > 0
                 /\ e.seq > last_sequence => t = mem /\ \E x \in Clients : e \in Half(x)'
      <4>1. CASE e \in tables[t]
        BY <3>1, <4>1 DEF StoreInv, Numbered
      <4>2. CASE e \notin tables[t]
        <5>1. t = mem /\ e = n
          BY <2>t, <4>2
        <5> QED
          BY <2>n, <2>h, <5>1
      <4> QED
        BY <4>1, <4>2
    <3>3. \A e \in disk : e.seq > 0 /\ e.seq <= last_sequence
      BY DEF StoreInv, Numbered
    <3> QED
      BY <1>u, <3>2, <3>3 DEF Numbered
  <2>3. Layered'
    <3>1. ASSUME NEW t \in Tables, NEW u \in Tables, t < u, NEW e \in tables'[t], NEW f \in tables'[u]
          PROVE  e.seq < f.seq
      <4>1. t # mem
        <5>1. t = mem => tables'[u] = {}
          BY <1>d, <1>u, <3>1 DEF DataInv, Unused
        <5> QED
          BY <5>1
      <4>2. e \in tables[t] /\ e.seq \in Nat /\ e.seq <= last_sequence
        <5>1. e \in tables[t] /\ e \in Entry
          BY <1>d, <2>t, <4>1
        <5>2. ~(e.seq > last_sequence)
          BY <4>1, <5>1 DEF StoreInv, Numbered
        <5> QED
          BY <1>d, <5>1, <5>2, SeqNat
      <4>3. CASE f \in tables[u]
        BY <3>1, <4>2, <4>3 DEF StoreInv, Layered
      <4>4. CASE f \notin tables[u]
        <5>1. f = n
          BY <2>t, <4>4
        <5> QED
          BY <1>d, <2>n, <4>2, <5>1
      <4> QED
        BY <4>3, <4>4
    <3>2. ASSUME NEW e \in disk, NEW t \in {mem, imm} \ {0}, NEW f \in tables'[t]
          PROVE  e.seq < f.seq
      <4>1. e.seq \in Nat /\ e.seq <= last_sequence
        BY <1>d, SeqNat DEF StoreInv, Numbered
      <4>2. CASE f \in tables[t]
        BY <4>2 DEF StoreInv, Layered
      <4>3. CASE f \notin tables[t]
        <5>1. f = n
          BY <1>d, <2>t, <4>3
        <5> QED
          BY <1>d, <2>n, <4>1, <5>1
      <4> QED
        BY <4>2, <4>3
    <3> QED
      BY <1>u, <3>1, <3>2 DEF Layered
  <2>4. Visible' = Visible
    <3>1. imm # 0 => tables'[imm] = tables[imm] \/ imm = mem
      BY <1>d, <2>t
    <3> QED
      BY <1>d, <1>u, <2>n, <2>t, <3>1 DEF Visible
  <2>5. SnapshotKept'
    <3> SUFFICES ASSUME NEW r \in Readers PROVE SnapshotAt(r)'
      BY DEF SnapshotKept
    <3>1. \A t \in {read[r].mem, read[r].imm} \ {0} :
            /\ tables[t] \subseteq tables'[t]
            /\ \A e \in tables'[t] \ tables[t] : e.seq > last_sequence
      <4>1. \A t \in {read[r].mem, read[r].imm} \ {0} : t \in Tables
        BY ReadFields
      <4> QED
        BY <2>n, <2>t, <4>1
    <3>2. {e \in Visible' : e.seq <= last_sequence} = Visible
      BY <2>4 DEF Visible
    <3>3. last_sequence <= last_sequence' /\ read'[r] = read[r] /\ SnapshotAt(r)
      BY <1>u, <1>d DEF StoreInv, SnapshotKept
    <3> QED
      BY <3>1, <3>2, <3>3, SnapshotStep
  <2> QED
    BY <1>p, <2>1, <2>2, <2>3, <2>4, <2>5 DEF StoreInv
<1> QED
  BY <1>p, <1>1, <1>2

(* The types of the data, in one place.                                    *)
LEMMA DataTypes ==
  ASSUME Inv, DataInv
  PROVE  /\ mem \in Tables /\ imm \in Tables \cup {0} /\ Tables \subseteq Nat \ {0}
         /\ tables \in [Tables -> SUBSET Entry] /\ disk \subseteq Entry /\ last_sequence \in Nat
         /\ \A w \in Clients : loc[w].pos \in Nat
<1>1. Tables \subseteq Nat \ {0}
  BY DEF Tables
<1>2. last_sequence \in Nat /\ \A w \in Clients : loc[w].pos \in Nat
  BY DEF Inv, ClientsType, Locals
<1> QED
  BY <1>1, <1>2 DEF DataInv, DataType

(* A visible entry is an entry that is not above last_sequence.            *)
LEMMA VisibleType ==
  ASSUME Inv, DataInv
  PROVE  Visible \subseteq Entry /\ \A e \in Visible : e.seq \in Nat /\ e.seq <= last_sequence
<1>1. Visible \subseteq Entry
  BY DataTypes DEF Visible
<1> QED
  BY <1>1, SeqNat DEF Visible

(* The end of a group publishes what it inserted, and only that.           *)
LEMMA CommitStore ==
  ASSUME Inv, Inv', DataInv, DataInv', StoreInv, NEW w \in Clients, Commit(w)
  PROVE  /\ StoreInv'
         /\ last_sequence' = last_sequence + Len(Contents(w))
         /\ read' = read
         /\ Visible' = Visible \cup Half(w)
<1>u. /\ UNCHANGED <<mem, imm, refs, tables, disk, read>> /\ pc[w] = "commit"
      /\ last_sequence' = loc[w].base + Len(Contents(w))
      /\ \E f : (f = pc \/ f = Woken(pc)) /\ Dequeue(w, loc[w].n, loc[w].rc, f)
  BY DEF Commit
<1>w. pc[w] \in Leading /\ pc[w] \in InGroup
  BY <1>u DEF Leading, InGroup
<1>l. Len(Contents(w)) \in Nat
  BY ContentsType
<1>d. /\ mem \in Tables /\ imm \in Tables \cup {0} /\ Tables \subseteq Nat \ {0}
      /\ tables \in [Tables -> SUBSET Entry] /\ disk \subseteq Entry
      /\ last_sequence \in Nat /\ loc[w].pos \in Nat
  BY DataTypes
<1>p. /\ loc[w].base = last_sequence /\ loc[w].pos <= Len(Contents(w))
      /\ InsertProgress
  BY <1>u, <1>w, <1>l DEF StoreInv, InsertProgress, ProgressAt
<1>1. last_sequence' = last_sequence + Len(Contents(w))
  BY <1>u, <1>p
<1>2. /\ InsertProgress' /\ \A x \in Clients : Half(x)' = {}
      /\ \A x \in Clients : x # w => Half(x) = {}
  BY <1>u, <1>w, <1>p, ProgressDequeue
<1>h. \A e \in Half(w) : e.seq \in Nat /\ e.seq > last_sequence /\ e.seq <= last_sequence'
  <2> SUFFICES ASSUME NEW i \in 1..loc[w].pos
               PROVE  /\ EntryAt(w, i).seq \in Nat
                      /\ EntryAt(w, i).seq > last_sequence /\ EntryAt(w, i).seq <= last_sequence'
    BY DEF Half
  <2>1. EntryAt(w, i).seq = last_sequence + i
    BY <1>w, <1>p, NextEntry
  <2> QED
    BY <1>d, <1>l, <1>p, <1>1, <2>1
<1>n. \A t \in Tables : \A e \in tables[t] :
        /\ e.seq \in Nat /\ e.seq > 0 /\ e.seq <= last_sequence'
        /\ e.seq > last_sequence => t = mem /\ e \in Half(w)
  <2> SUFFICES ASSUME NEW t \in Tables, NEW e \in tables[t]
               PROVE  /\ e.seq \in Nat /\ e.seq > 0 /\ e.seq <= last_sequence'
                      /\ e.seq > last_sequence => t = mem /\ e \in Half(w)
    OBVIOUS
  <2>1. e.seq \in Nat /\ e.seq > 0
    BY <1>d, SeqNat DEF StoreInv, Numbered
  <2>2. e.seq > last_sequence => t = mem /\ e \in Half(w)
    BY <1>2 DEF StoreInv, Numbered
  <2> QED
    BY <1>d, <1>l, <1>1, <1>h, <2>1, <2>2
<1>3. InFlight' /\ Layered'
  BY <1>u, <1>2 DEF StoreInv, InFlight, Layered
<1>4. Numbered'
  <2>1. ASSUME NEW e \in disk PROVE e.seq > 0 /\ e.seq <= last_sequence'
    <3>1. e.seq \in Nat /\ e.seq > 0 /\ e.seq <= last_sequence
      BY <1>d, SeqNat DEF StoreInv, Numbered
    <3> QED
      BY <1>d, <1>l, <1>1, <3>1
  <2>2. last_sequence' \in Nat
    BY <1>d, <1>l, <1>1
  <2> QED
    BY <1>u, <1>n, <2>1, <2>2 DEF Numbered
<1>5. Visible' = Visible \cup Half(w)
  <2> DEFINE all == disk \cup tables[mem] \cup (IF imm = 0 THEN {} ELSE tables[imm])
  <2>1. Visible = {e \in all : e.seq <= last_sequence} /\ Visible' = {e \in all : e.seq <= last_sequence'}
    BY <1>u DEF Visible
  <2>2. Half(w) \subseteq all
    BY DEF StoreInv, InFlight
  <2>3. \A e \in all : e.seq \in Nat /\ (e.seq > last_sequence => e \in Half(w))
    <3>1. \A e \in disk : e.seq \in Nat /\ e.seq <= last_sequence
      BY <1>d, SeqNat DEF StoreInv, Numbered
    <3> QED
      BY <1>d, <1>n, <3>1
  <2> HIDE DEF all
  <2> QED
    BY <1>d, <1>l, <1>1, <1>h, <2>1, <2>2, <2>3
<1>6. SnapshotKept'
  <2> SUFFICES ASSUME NEW r \in Readers PROVE SnapshotAt(r)'
    BY DEF SnapshotKept
  <2>1. {e \in Visible' : e.seq <= last_sequence} = Visible
    <3>1. \A e \in Visible : e.seq <= last_sequence
      BY VisibleType
    <3>2. \A e \in Half(w) : ~(e.seq <= last_sequence)
      BY <1>d, <1>h
    <3> QED
      BY <1>5, <3>1, <3>2
  <2>2. last_sequence <= last_sequence' /\ read'[r] = read[r] /\ SnapshotAt(r)
    BY <1>u, <1>d, <1>l, <1>1 DEF StoreInv, SnapshotKept
  <2>3. \A t \in {read[r].mem, read[r].imm} \ {0} :
            /\ tables[t] \subseteq tables'[t]
            /\ \A e \in tables'[t] \ tables[t] : e.seq > last_sequence
    BY <1>u
  <2> QED
    BY <2>1, <2>2, <2>3, SnapshotStep
<1> QED
  BY <1>u, <1>1, <1>2, <1>3, <1>4, <1>5, <1>6 DEF StoreInv

(* A memtable switch: the old memtable is whole, the new one is empty.     *)
LEMMA SwitchStore ==
  ASSUME Inv, Inv', DataInv, DataInv', StoreInv,
         NEW w \in Clients, NEW err \in BOOLEAN, SwitchMemtable(w, err)
  PROVE  StoreInv' /\ Visible' = Visible /\ UNCHANGED <<last_sequence, read>>
<1>u. /\ imm = 0 /\ imm' = mem /\ mem' = mem + 1 /\ pc[w] = "room"
      /\ UNCHANGED <<last_sequence, tables, disk, read>>
  BY DEF SwitchMemtable, MustSwitch, InRoom
<1>d. /\ mem \in Tables /\ mem + 1 \in Tables /\ Tables \subseteq Nat \ {0}
      /\ tables \in [Tables -> SUBSET Entry] /\ disk \subseteq Entry /\ last_sequence \in Nat
  <2>1. mem' \in Tables
    BY DEF DataInv, DataType
  <2> QED
    BY <1>u, <2>1, DataTypes
<1>e. tables[mem + 1] = {}
  BY <1>d DEF DataInv, Unused
<1>p. InsertProgress' /\ HalfKept
  BY ProgressCall DEF StoreInv
<1>h. \A x \in Clients : Half(x) = {} /\ Half(x)' = {}
  <2>1. pc[w] \in Leading /\ pc[w] \notin {"insert", "commit"}
    BY <1>u DEF Leading
  <2> QED
    BY <1>p, <2>1, HalfOfLeader DEF StoreInv, HalfKept
<1>1. InFlight'
  BY <1>h DEF InFlight
<1>2. Numbered'
  BY <1>u, <1>h DEF StoreInv, Numbered
<1>3. Layered'
  BY <1>u, <1>d, <1>e DEF StoreInv, Layered
<1>4. Visible' = Visible
  <2>1. mem # 0
    BY <1>d
  <2> QED
    BY <1>u, <1>e, <2>1 DEF Visible
<1>5. SnapshotKept'
  <2>1. \A r \in Readers : Held(r)' = Held(r)
    BY <1>u DEF Held
  <2> QED
    BY <1>u, <1>4, <2>1 DEF StoreInv, SnapshotKept, SnapshotAt
<1> QED
  BY <1>u, <1>p, <1>1, <1>2, <1>3, <1>4, <1>5 DEF StoreInv

(* Freeing leaves a memtable with a reference alone and adds nothing.      *)
LEMMA Freed ==
  ASSUME DataInv, NEW f, NEW t \in Tables
  PROVE  /\ f[t] # 0 => FreeTables(f)[t] = tables[t]
         /\ FreeTables(f)[t] \subseteq tables[t]
BY DEF FreeTables

(* A step that at most frees memtables, and moves the one that was being   *)
(* flushed to the version.                                                 *)
LEMMA ReleaseStore ==
  ASSUME Inv, Inv', DataInv, DataInv', PinInv, PinInv', StoreInv, InsertProgress', HalfKept,
         UNCHANGED <<last_sequence, mem>>, tables' = FreeTables(refs'),
         \/ imm' = imm /\ disk' = disk
         \/ imm # 0 /\ imm' = 0 /\ disk' = disk \cup tables[imm]
  PROVE  /\ InFlight' /\ Numbered' /\ Layered' /\ Visible' = Visible
         /\ \A r \in Readers : read'[r] = read[r] => SnapshotAt(r)'
<1>d. /\ mem \in Tables /\ imm \in Tables \cup {0} /\ Tables \subseteq Nat \ {0}
      /\ tables \in [Tables -> SUBSET Entry] /\ disk \subseteq Entry
      /\ last_sequence \in Nat /\ imm < mem
  BY DataTypes DEF PinInv, TablesInOrder
<1>p. TablesPinned'
  <2>1. (DataInv /\ PinInv => TablesPinned)'
    BY Pinned, PTL
  <2> QED
    BY <2>1
<1>t. /\ tables'[mem] = tables[mem]
      /\ \A t \in Tables : tables'[t] \subseteq tables[t]
      /\ imm' # 0 => tables'[imm] = tables[imm]
      /\ \A r \in Readers : read'[r] = read[r] =>
           \A t \in {read[r].mem, read[r].imm} \ {0} : tables'[t] = tables[t]
  <2>1. \A t \in Tables : tables'[t] \subseteq tables[t]
    BY Freed
  <2>2. tables'[mem] = tables[mem]
    BY <1>d, <1>p, Freed DEF TablesPinned
  <2>3. imm' # 0 => tables'[imm] = tables[imm]
    BY <1>d, <1>p, Freed DEF TablesPinned
  <2>4. ASSUME NEW r \in Readers, read'[r] = read[r], NEW t \in {read[r].mem, read[r].imm} \ {0}
        PROVE  tables'[t] = tables[t]
    <3>1. t \in Tables
      BY ReadFields
    <3>2. refs'[t] > 0
      BY <1>p, <2>4 DEF TablesPinned
    <3>3. refs'[t] # 0
      BY <3>2
    <3> QED
      BY <3>1, <3>3, Freed
  <2> QED
    BY <2>1, <2>2, <2>3, <2>4
<1>1. InFlight'
  BY <1>t DEF StoreInv, InFlight, HalfKept
<1>2. Numbered'
  <2>1. \A t \in Tables : \A e \in tables'[t] :
          /\ e.seq > 0
          /\ e.seq > last_sequence => t = mem /\ \E w \in Clients : e \in Half(w)'
    BY <1>t DEF StoreInv, Numbered, HalfKept
  <2>2. \A e \in disk' : e.seq > 0 /\ e.seq <= last_sequence
    <3>1. \A e \in disk : e.seq > 0 /\ e.seq <= last_sequence
      BY DEF StoreInv, Numbered
    <3>2. imm # 0 => \A e \in tables[imm] : e.seq > 0 /\ e.seq <= last_sequence
      <4>1. imm # 0 => imm \in Tables /\ imm # mem
        BY <1>d
      <4>2. imm # 0 => \A e \in tables[imm] : e.seq \in Nat /\ e.seq > 0 /\ ~(e.seq > last_sequence)
        BY <1>d, <4>1, SeqNat DEF StoreInv, Numbered
      <4> QED
        BY <1>d, <4>2
    <3> QED
      BY <3>1, <3>2
  <2> QED
    BY <2>1, <2>2 DEF Numbered
<1>3. Layered'
  <2>1. \A t, u \in Tables : t < u => \A e \in tables'[t], f \in tables'[u] : e.seq < f.seq
    BY <1>t DEF StoreInv, Layered
  <2>2. \A e \in disk' : \A t \in {mem', imm'} \ {0} : \A f \in tables'[t] : e.seq < f.seq
    <3>1. CASE imm' = imm /\ disk' = disk
      BY <1>d, <1>t, <3>1 DEF StoreInv, Layered
    <3>2. CASE imm # 0 /\ imm' = 0 /\ disk' = disk \cup tables[imm]
      <4>1. \A e \in disk : \A f \in tables[mem] : e.seq < f.seq
        BY <1>d DEF StoreInv, Layered
      <4>2. \A e \in tables[imm] : \A f \in tables[mem] : e.seq < f.seq
        BY <1>d, <3>2 DEF StoreInv, Layered
      <4> QED
        BY <1>t, <3>2, <4>1, <4>2
    <3> QED
      BY <3>1, <3>2
  <2> QED
    BY <2>1, <2>2 DEF Layered
<1>4. Visible' = Visible
  BY <1>t DEF Visible
<1>5. ASSUME NEW r \in Readers, read'[r] = read[r] PROVE SnapshotAt(r)'
  <2>1. {e \in Visible' : e.seq <= last_sequence} = Visible
    BY <1>4 DEF Visible
  <2>2. last_sequence <= last_sequence' /\ SnapshotAt(r)
    BY <1>d DEF StoreInv, SnapshotKept
  <2>3. \A t \in {read[r].mem, read[r].imm} \ {0} :
            /\ tables[t] \subseteq tables'[t]
            /\ \A e \in tables'[t] \ tables[t] : e.seq > last_sequence
    BY <1>t, <1>5
  <2> QED
    BY <1>5, <2>1, <2>2, <2>3, SnapshotStep
<1> QED
  BY <1>1, <1>2, <1>3, <1>4, <1>5

-----------------------------------------------------------------------------
(* A lookup through the layers.                                            *)

(* The newest entry of a key is what a lookup returns.                     *)
LEMMA LookupMax ==
  ASSUME NEW S, S \subseteq Entry, NEW k, NEW s \in Nat,
         NEW e \in S, e.key = k, e.seq <= s,
         \A f \in S : f.key = k /\ f.seq <= s => f.seq <= e.seq
  PROVE  Lookup(S, k, s) = e.seq
<1> DEFINE hits == {x.seq : x \in {y \in S : y.key = k /\ y.seq <= s}}
<1>1. e.seq \in hits /\ \A m \in hits : m <= e.seq
  OBVIOUS
<1>2. hits \subseteq Nat
  BY SeqNat
<1>3. Lookup(S, k, s) = CHOOSE n \in hits : \A m \in hits : m <= n
  BY <1>1 DEF Lookup
<1> HIDE DEF hits
<1>4. ASSUME NEW n \in hits, \A m \in hits : m <= n PROVE n = e.seq
  <2>1. n \in Nat /\ e.seq \in Nat /\ n <= e.seq /\ e.seq <= n
    BY <1>1, <1>2, <1>4
  <2> QED
    BY <2>1
<1> QED
  BY <1>1, <1>3, <1>4

(* Without one it returns 0.                                               *)
LEMMA LookupNone ==
  ASSUME NEW S, NEW k, NEW s, \A f \in S : ~(f.key = k /\ f.seq <= s)
  PROVE  Lookup(S, k, s) = 0
BY DEF Lookup

(* If there is an entry at all, there is a newest one.                     *)
LEMMA LookupSome ==
  ASSUME NEW S, S \subseteq Entry, NEW k, NEW s \in Nat, \E f \in S : f.key = k /\ f.seq <= s
  PROVE  \E e \in S : /\ e.key = k /\ e.seq <= s /\ Lookup(S, k, s) = e.seq
                      /\ \A f \in S : f.key = k /\ f.seq <= s => f.seq <= e.seq
<1> DEFINE hits == {x.seq : x \in {y \in S : y.key = k /\ y.seq <= s}}
<1>1. hits \subseteq Nat /\ hits # {} /\ \A n \in hits : n <= s
  BY SeqNat
<1>2. PICK n \in hits : \A m \in hits : m <= n
  <2> HIDE DEF hits
  <2> QED
    BY <1>1, GreatestOf
<1>3. PICK e \in S : e.key = k /\ e.seq <= s /\ e.seq = n
  OBVIOUS
<1>4. \A f \in S : f.key = k /\ f.seq <= s => f.seq <= e.seq
  BY <1>2, <1>3
<1>5. Lookup(S, k, s) = e.seq
  BY <1>3, <1>4, LookupMax
<1> QED
  BY <1>3, <1>4, <1>5

(* A, B and C, from new to old, hold what V holds up to number s.          *)
Layers(A, B, C, V, s) ==
  /\ A \subseteq Entry /\ B \subseteq Entry /\ C \subseteq Entry /\ V \subseteq Entry
  /\ \A e \in B, f \in A : e.seq < f.seq
  /\ \A e \in C, f \in A \cup B : e.seq < f.seq
  /\ \A e \in A \cup B : e.seq > 0
  /\ {e \in C \cup A \cup B : e.seq <= s} = {e \in V : e.seq <= s}

(* Layers ordered by number, newest first: the first hit is the newest.    *)
LEMMA LookupLayers ==
  ASSUME NEW A, NEW B, NEW C, NEW V, NEW k, NEW s \in Nat, Layers(A, B, C, V, s)
  PROVE  Lookup(V, k, s) = IF Lookup(A, k, s) # 0 THEN Lookup(A, k, s)
                           ELSE IF Lookup(B, k, s) # 0 THEN Lookup(B, k, s) ELSE Lookup(C, k, s)
<1> DEFINE Hit(S) == \E f \in S : f.key = k /\ f.seq <= s
<1>a. /\ A \subseteq Entry /\ B \subseteq Entry /\ C \subseteq Entry /\ V \subseteq Entry
      /\ \A e \in B, f \in A : e.seq < f.seq
      /\ \A e \in C, f \in A \cup B : e.seq < f.seq
      /\ \A e \in A \cup B : e.seq > 0
  BY DEF Layers
<1>v. \A e : e.seq <= s => (e \in V <=> e \in A \/ e \in B \/ e \in C)
  BY DEF Layers
<1>n. \A e \in A \cup B \cup C : e.seq \in Nat
  BY <1>a, SeqNat
<1> USE <1>a
<1>1. CASE Hit(A)
  <2>1. PICK e \in A : /\ e.key = k /\ e.seq <= s /\ Lookup(A, k, s) = e.seq
                       /\ \A f \in A : f.key = k /\ f.seq <= s => f.seq <= e.seq
    BY <1>1, LookupSome
  <2>2. e \in V /\ e.seq # 0 /\ e.seq \in Nat
    BY <1>v, <1>n, <2>1
  <2>3. ASSUME NEW f \in V, f.key = k, f.seq <= s PROVE f.seq <= e.seq
    <3>1. f \in A \/ f \in B \/ f \in C
      BY <1>v, <2>3
    <3>2. f \in B \cup C => f.seq < e.seq
      BY <2>1
    <3> QED
      BY <1>n, <2>1, <2>2, <2>3, <3>1, <3>2
  <2>4. Lookup(V, k, s) = e.seq
    BY <2>1, <2>2, <2>3, LookupMax
  <2> QED
    BY <2>1, <2>2, <2>4
<1>2. CASE ~Hit(A) /\ Hit(B)
  <2>1. PICK e \in B : /\ e.key = k /\ e.seq <= s /\ Lookup(B, k, s) = e.seq
                       /\ \A f \in B : f.key = k /\ f.seq <= s => f.seq <= e.seq
    BY <1>2, LookupSome
  <2>2. e \in V /\ e.seq # 0 /\ e.seq \in Nat
    BY <1>v, <1>n, <2>1
  <2>3. ASSUME NEW f \in V, f.key = k, f.seq <= s PROVE f.seq <= e.seq
    <3>1. f \in B \/ f \in C
      BY <1>v, <1>2, <2>3
    <3>2. f \in C => f.seq < e.seq
      BY <2>1
    <3> QED
      BY <1>n, <2>1, <2>2, <2>3, <3>1, <3>2
  <2>4. Lookup(V, k, s) = e.seq
    BY <2>1, <2>2, <2>3, LookupMax
  <2>5. Lookup(A, k, s) = 0
    BY <1>2, LookupNone
  <2> QED
    BY <2>1, <2>2, <2>4, <2>5
<1>3. CASE ~Hit(A) /\ ~Hit(B)
  <2>1. Lookup(A, k, s) = 0 /\ Lookup(B, k, s) = 0
    BY <1>3, LookupNone
  <2>2. CASE Hit(C)
    <3>1. PICK e \in C : /\ e.key = k /\ e.seq <= s /\ Lookup(C, k, s) = e.seq
                         /\ \A f \in C : f.key = k /\ f.seq <= s => f.seq <= e.seq
      BY <2>2, LookupSome
    <3>2. e \in V /\ \A f \in V : f.key = k /\ f.seq <= s => f \in C
      BY <1>v, <1>3, <3>1
    <3>3. Lookup(V, k, s) = e.seq
      BY <3>1, <3>2, LookupMax
    <3> QED
      BY <2>1, <3>1, <3>3
  <2>3. CASE ~Hit(C)
    <3>1. \A f \in V : ~(f.key = k /\ f.seq <= s)
      BY <1>v, <1>3, <2>3
    <3>2. Lookup(V, k, s) = 0 /\ Lookup(C, k, s) = 0
      BY <2>3, <3>1, LookupNone
    <3> QED
      BY <2>1, <3>2
  <2> QED
    BY <2>2, <2>3
<1> QED
  BY <1>1, <1>2, <1>3

(* So a reader's answer is the abstract store's at its snapshot.           *)
LEMMA AnswerRight ==
  ASSUME Inv, DataInv, StoreInv, NEW r \in Readers, GetLook(r)
  PROVE  read' = [read EXCEPT ![r].pc = "unref", ![r].miss = read'[r].miss,
                    ![r].result = Lookup(Visible, read[r].key, read[r].snap)]
<1> DEFINE g == read[r]
           A == tables[g.mem]
           B == IF g.imm = 0 THEN {} ELSE tables[g.imm]
           a == Lookup(A, g.key, g.snap)
           b == Lookup(B, g.key, g.snap)
           c == Lookup(g.ver, g.key, g.snap)
<1>d. read \in [Readers -> Reads] /\ g.pc = "look"
  BY DEF DataInv, DataType, GetLook
<1>t. /\ g.mem \in Tables /\ g.imm \in Tables \cup {0} /\ g.ver \subseteq Entry /\ g.snap \in Nat
      /\ 0 \notin Tables
      /\ A \subseteq Entry /\ B \subseteq Entry /\ Visible \subseteq Entry
  <2>1. g.mem \in Tables
    BY <1>d DEF DataInv, ReaderHasTable
  <2>2. g.imm \in Tables \cup {0} /\ g.ver \subseteq Entry /\ g.snap \in Nat
    BY ReadFields
  <2> QED
    BY <2>1, <2>2, DataTypes, VisibleType
<1>s. /\ g.imm < g.mem
      /\ \A e \in g.ver : \A t \in {g.mem, g.imm} \ {0} : \A f \in tables[t] : e.seq < f.seq
      /\ {e \in Held(r) : e.seq <= g.snap} = {e \in Visible : e.seq <= g.snap}
  BY <1>d DEF StoreInv, SnapshotKept, SnapshotAt
<1>1. \A e \in B, f \in A : e.seq < f.seq
  BY <1>t, <1>s DEF StoreInv, Layered
<1>2. \A e \in g.ver, f \in A \cup B : e.seq < f.seq
  BY <1>t, <1>s
<1>3. \A e \in A \cup B : e.seq > 0
  BY <1>t DEF StoreInv, Numbered
<1>4. {e \in g.ver \cup A \cup B : e.seq <= g.snap} = {e \in Visible : e.seq <= g.snap}
  BY <1>s DEF Held
<1>5. (IF a # 0 THEN a ELSE IF b # 0 THEN b ELSE c) = Lookup(Visible, g.key, g.snap)
  <2>1. Layers(A, B, g.ver, Visible, g.snap)
    BY <1>t, <1>1, <1>2, <1>3, <1>4 DEF Layers
  <2>2. g.snap \in Nat
    BY <1>t
  <2> HIDE DEF A, B, g
  <2> QED
    BY <2>1, <2>2, LookupLayers
<1>6. b = IF g.imm = 0 THEN 0 ELSE Lookup(tables[g.imm], g.key, g.snap)
  BY LookupNone
<1>7. read' = [read EXCEPT ![r].pc = "unref", ![r].miss = (a = 0 /\ b = 0),
                 ![r].result = IF a # 0 THEN a ELSE IF b # 0 THEN b ELSE c]
  BY <1>6 DEF GetLook
<1> HIDE DEF a, b, c
<1>8. read'[r].miss = (a = 0 /\ b = 0)
  BY <1>d, <1>7 DEF Reads
<1> QED
  BY <1>5, <1>7, <1>8

-----------------------------------------------------------------------------
(* The steps of readers and of the flush.                                  *)

(* A reader's step moves no other reader and nothing of ldb_write.         *)
LEMMA ReaderAlone ==
  ASSUME DataInv, NEW r \in Readers, ReaderStep(r)
  PROVE  /\ \A q \in Readers : q # r => read'[q] = read[q]
         /\ UNCHANGED <<last_sequence, mem, imm, disk, pc, loc, waiter, tmp_batch>>
         /\ GetEnd(r) \/ (tables' = tables /\ (GetBegin(r) \/ refs' = refs))
<1>d. read \in [Readers -> Reads]
  BY DEF DataInv, DataType
<1> QED
  BY <1>d DEF ReaderStep, Snapshot, GetBegin, GetLook, GetEnd, clientVars, dataVars

(* References through a reader's step.                                     *)
LEMMA ReaderPin ==
  ASSUME DataInv, PinInv, NEW r \in Readers, ReaderStep(r)
  PROVE  PinInv'
<1>d. read \in [Readers -> Reads]
  BY DEF DataInv, DataType
<1>1. CASE Snapshot(r) \/ GetLook(r)
  <2>1. UNCHANGED <<mem, imm, refs>>
    BY <1>1 DEF Snapshot, GetLook, dataVars
  <2>2. /\ read'[r].mem = read[r].mem /\ read'[r].imm = read[r].imm
        /\ read'[r].pc \notin {"look", "unref"} => read[r].pc \notin {"look", "unref"}
        /\ \A q \in Readers : q # r => read'[q] = read[q]
    <3>1. CASE Snapshot(r)
      BY <1>d, <3>1 DEF Snapshot, Reads
    <3>2. CASE GetLook(r)
      <4>1. PICK m, v : read' = [read EXCEPT ![r].pc = "unref", ![r].miss = m, ![r].result = v]
        BY <3>2 DEF GetLook
      <4> QED
        BY <1>d, <4>1 DEF Reads
    <3> QED
      BY <1>1, <3>1, <3>2
  <2> QED
    BY <2>1, <2>2, PinFrame
<1> QED
  BY <1>1, PinBegin, PinEnd DEF ReaderStep

(* Every step keeps the references exact.                                  *)
LEMMA PinNext == Inv /\ Inv' /\ DataInv /\ DataInv' /\ PinInv /\ InsertProgress /\ [Next]_vars => PinInv'
<1> SUFFICES ASSUME Inv, Inv', DataInv, DataInv', PinInv, InsertProgress, [Next]_vars PROVE PinInv'
  OBVIOUS
<1>1. CASE DataFixed
  BY <1>1, PinFrame DEF DataFixed
<1>2. ASSUME NEW w \in Writers, InsertInto(w) \/ Commit(w) PROVE PinInv'
  BY <1>2, PinFrame DEF InsertInto, Commit
<1> QED
  BY <1>1, <1>2, StepKinds, PinSwitch, ReaderPin, PinApplied

(* ldb_snapshot and ldb_get.                                               *)
LEMMA ReaderStore ==
  ASSUME Inv, Inv', DataInv, DataInv', PinInv, PinInv', StoreInv, NEW r \in Readers, ReaderStep(r)
  PROVE  StoreInv' /\ Visible' = Visible /\ last_sequence' = last_sequence
<1>u. /\ \A q \in Readers : q # r => read'[q] = read[q]
      /\ UNCHANGED <<last_sequence, mem, imm, disk, pc, loc, waiter, tmp_batch>>
      /\ GetEnd(r) \/ (tables' = tables /\ (GetBegin(r) \/ refs' = refs))
  BY ReaderAlone
<1>p. InsertProgress' /\ HalfKept
  BY <1>u, ProgressElse DEF StoreInv
<1>d. read \in [Readers -> Reads] /\ last_sequence \in Nat /\ read[r].snap <= last_sequence
  BY DataTypes DEF DataInv, DataType, StoreInv, SnapshotKept, SnapshotAt
<1>1. CASE GetEnd(r)
  <2>1. tables' = FreeTables(refs') /\ read'[r].pc = "done" /\ read'[r].snap = read[r].snap
    BY <1>d, <1>1 DEF GetEnd, Reads
  <2>2. SnapshotAt(r)'
    BY <1>u, <1>d, <2>1 DEF SnapshotAt
  <2>3. /\ InFlight' /\ Numbered' /\ Layered' /\ Visible' = Visible
        /\ \A q \in Readers : read'[q] = read[q] => SnapshotAt(q)'
    BY <1>u, <1>p, <2>1, ReleaseStore
  <2>4. SnapshotKept'
    BY <1>u, <2>2, <2>3 DEF SnapshotKept
  <2> QED
    BY <1>u, <1>p, <2>3, <2>4 DEF StoreInv
<1>2. CASE tables' = tables /\ ~GetEnd(r)
  <2>1. Visible' = Visible
    BY <1>u, <1>2 DEF Visible
  <2>2. InFlight' /\ Numbered' /\ Layered'
    BY <1>u, <1>2, <1>p DEF StoreInv, InFlight, Numbered, Layered, HalfKept
  <2>3. ASSUME NEW q \in Readers, q # r PROVE SnapshotAt(q)'
    <3>1. read'[q] = read[q]
      BY <1>u, <2>3
    <3>2. Held(q)' = Held(q)
      BY <1>2, <3>1 DEF Held
    <3> QED
      BY <1>u, <1>2, <2>1, <3>1, <3>2 DEF StoreInv, SnapshotKept, SnapshotAt
  <2>4. SnapshotAt(r)'
    <3>1. CASE Snapshot(r)
      <4>1. read'[r].pc = "pinned" /\ read'[r].snap = last_sequence
        BY <1>d, <3>1 DEF Snapshot, Reads
      <4> QED
        BY <1>u, <1>d, <4>1 DEF SnapshotAt
    <3>2. CASE GetLook(r)
      <4>1. PICK m, v : read' = [read EXCEPT ![r].pc = "unref", ![r].miss = m, ![r].result = v]
        BY <3>2 DEF GetLook
      <4>2. read'[r].pc = "unref" /\ read'[r].snap = read[r].snap
        BY <1>d, <4>1 DEF Reads
      <4> QED
        BY <1>u, <1>d, <4>2 DEF SnapshotAt
    <3>3. CASE GetBegin(r)
      <4>1. /\ read'[r].pc = "look" /\ read'[r].mem = mem /\ read'[r].imm = imm /\ read'[r].ver = disk
            /\ read'[r].snap = IF read[r].pc = "idle" THEN last_sequence ELSE read[r].snap
        BY <1>d, <3>3 DEF GetBegin, Reads
      <4>2. read'[r].snap <= last_sequence
        BY <1>d, <4>1
      <4>3. imm < mem
        BY DEF PinInv, TablesInOrder
      <4>4. \A e \in disk : /\ e.seq > 0 /\ e.seq <= last_sequence
                            /\ \A t \in {mem, imm} \ {0} : \A f \in tables[t] : e.seq < f.seq
        BY DEF StoreInv, Numbered, Layered
      <4>5. {e \in Held(r)' : e.seq <= read'[r].snap} = {e \in Visible' : e.seq <= read'[r].snap}
        <5> DEFINE all == disk \cup tables[mem] \cup (IF imm = 0 THEN {} ELSE tables[imm])
        <5>1. Held(r)' = all
          BY <1>2, <4>1 DEF Held
        <5>2. Visible' = {e \in all : e.seq <= last_sequence}
          BY <2>1 DEF Visible
        <5>3. all \subseteq Entry /\ read'[r].snap \in Nat
          BY <1>d, <4>1, DataTypes, ReadFields
        <5>4. \A e \in all : e.seq <= read'[r].snap => e.seq <= last_sequence
          BY <1>d, <4>2, <5>3, SeqNat
        <5> HIDE DEF all
        <5> QED
          BY <5>1, <5>2, <5>4
      <4> QED
        BY <1>u, <1>2, <4>1, <4>2, <4>3, <4>4, <4>5 DEF SnapshotAt
    <3> QED
      BY <1>2, <3>1, <3>2, <3>3 DEF ReaderStep
  <2>5. SnapshotKept'
    BY <2>3, <2>4 DEF SnapshotKept
  <2> QED
    BY <1>u, <1>p, <2>1, <2>2, <2>5 DEF StoreInv
<1> QED
  BY <1>u, <1>1, <1>2

(* The memtable that was flushed is now in the version.                    *)
LEMMA AppliedStore ==
  ASSUME Inv, Inv', DataInv, DataInv', PinInv, PinInv', StoreInv, BgApplied(TRUE)
  PROVE  StoreInv' /\ Visible' = Visible /\ UNCHANGED <<last_sequence, read>>
<1>u. /\ bg.pc = "apply" /\ UNCHANGED <<last_sequence, mem, read, pc, loc, waiter, tmp_batch>>
      /\ tables' = FreeTables(refs') /\ imm' = 0 /\ disk' = disk \cup tables[imm]
  BY DEF BgApplied, BgFixed
<1>1. imm # 0
  BY <1>u DEF DataInv, FlushHasInput
<1>2. InsertProgress' /\ HalfKept
  BY <1>u, ProgressElse DEF StoreInv
<1>3. /\ InFlight' /\ Numbered' /\ Layered' /\ Visible' = Visible
      /\ \A r \in Readers : read'[r] = read[r] => SnapshotAt(r)'
  BY <1>u, <1>1, <1>2, ReleaseStore
<1>4. SnapshotKept'
  BY <1>u, <1>3 DEF SnapshotKept
<1> QED
  BY <1>u, <1>2, <1>3, <1>4 DEF StoreInv

(* All that is known of a state.                                           *)
EngineInv == Inv /\ BgInv /\ DataInv /\ PinInv /\ StoreInv

(* It holds as the database opens.                                         *)
LEMMA EngineInit == Init => EngineInv
BY InitInv, BgInit, DataInit, PinInit, StoreInit DEF EngineInv

(* Every step keeps it.                                                    *)
LEMMA EngineNext == EngineInv /\ [Next]_vars => EngineInv'
<1> SUFFICES ASSUME EngineInv, [Next]_vars PROVE EngineInv'
  OBVIOUS
<1>1. Inv' /\ BgInv' /\ DataInv'
  BY NextInv, BgNext, DataNext DEF EngineInv
<1>2. PinInv'
  BY <1>1, PinNext DEF EngineInv, StoreInv
<1>3. StoreInv'
  <2>1. Inv /\ DataInv /\ PinInv /\ StoreInv /\ InsertProgress
    BY DEF EngineInv, StoreInv
  <2>2. \A w \in Writers : w \in Clients
    BY DEF Clients
  <2> QED
    BY <1>1, <1>2, <2>1, <2>2, StepKinds, FixedStore, InsertStore, CommitStore, SwitchStore,
       ReaderStore, AppliedStore
<1> QED
  BY <1>1, <1>2, <1>3 DEF EngineInv

(* ldb_memtable_ref and ldb_memtable_unref are paired in every             *)
(* interleaving of readers, memtable switches and flushes: the memtables   *)
(* that the database or a reader uses are never freed.                     *)
THEOREM MemtablesStay == Spec => []TablesPinned
<1>1. EngineInv => TablesPinned
  BY Pinned DEF EngineInv
<1> QED
  BY EngineInit, EngineNext, <1>1, PTL DEF Spec

-----------------------------------------------------------------------------
(* The refinement, step by step.                                           *)

(* The end of a group is one commit of the abstract store.                 *)
LEMMA CommitRefines ==
  ASSUME EngineInv, EngineInv', NEW w \in Clients, Commit(w)
  PROVE  Store!Commit
<1>i. Inv /\ Inv' /\ DataInv /\ DataInv' /\ StoreInv /\ InsertProgress
  BY DEF EngineInv, StoreInv
<1>c. /\ last_sequence' = last_sequence + Len(Contents(w)) /\ read' = read
      /\ Visible' = Visible \cup Half(w)
  BY <1>i, CommitStore
<1>d. /\ last_sequence \in Nat /\ loc[w].pos \in Nat /\ Len(Contents(w)) \in Nat
      /\ \A e \in Visible : e.seq <= last_sequence
  BY <1>i, DataTypes, ContentsType, VisibleType
<1>p. pc[w] = "commit" /\ loc[w].pos \in {0, Len(Contents(w))}
  BY <1>i DEF Commit, InsertProgress, ProgressAt
<1>s. \A i \in 1..loc[w].pos : EntryAt(w, i).seq = last_sequence + i
  BY <1>i, <1>p, NextEntry DEF InGroup
<1>1. Visible' \ Visible = Half(w)
  <2>1. ASSUME NEW i \in 1..loc[w].pos PROVE EntryAt(w, i) \notin Visible
    <3>1. ~(EntryAt(w, i).seq <= last_sequence)
      BY <1>d, <1>s
    <3> QED
      BY <1>d, <3>1
  <2> QED
    BY <1>c, <2>1 DEF Half
<1>2. CASE loc[w].pos = 0
  <2>1. Half(w) = {}
    BY <1>2 DEF Half
  <2> QED
    BY <1>c, <1>d, <1>1, <2>1 DEF Store!Commit, Reading
<1>3. CASE loc[w].pos = Len(Contents(w))
  <2>1. {e.seq : e \in Half(w)} = (last_sequence + 1)..last_sequence'
    <3>1. {e.seq : e \in Half(w)} = {EntryAt(w, i).seq : i \in 1..loc[w].pos}
      BY DEF Half
    <3>2. {EntryAt(w, i).seq : i \in 1..loc[w].pos} = {last_sequence + i : i \in 1..loc[w].pos}
      BY <1>s
    <3>3. ASSUME NEW n \in (last_sequence + 1)..last_sequence'
          PROVE  n \in {last_sequence + i : i \in 1..loc[w].pos}
      <4>1. n - last_sequence \in 1..loc[w].pos /\ n = last_sequence + (n - last_sequence)
        BY <1>c, <1>d, <1>3
      <4> QED
        BY <4>1
    <3>4. \A i \in 1..loc[w].pos : last_sequence + i \in (last_sequence + 1)..last_sequence'
      BY <1>c, <1>d, <1>3
    <3> QED
      BY <3>1, <3>2, <3>3, <3>4
  <2>2. Cardinality(Half(w)) = last_sequence' - last_sequence
    <3> DEFINE N == 1..loc[w].pos
               g == [i \in N |-> EntryAt(w, i)]
    <3>1. g \in [N -> Half(w)] /\ \A e \in Half(w) : \E i \in N : g[i] = e
      BY DEF Half
    <3>2. \A i, j \in N : g[i] = g[j] => i = j
      <4> SUFFICES ASSUME NEW i \in N, NEW j \in N, g[i] = g[j] PROVE i = j
        OBVIOUS
      <4>1. last_sequence + i = last_sequence + j
        BY <1>s
      <4> QED
        BY <1>d, <4>1
    <3>3. g \in Bijection(N, Half(w))
      BY <3>1, <3>2 DEF Bijection, Injection, Surjection, IsInjective
    <3>4. IsFiniteSet(N) /\ Cardinality(N) = loc[w].pos
      <4>1. 1 \in Int /\ loc[w].pos \in Int /\ (1 > loc[w].pos => loc[w].pos = 0)
            /\ loc[w].pos - 1 + 1 = loc[w].pos
        BY <1>d
      <4> QED
        BY <4>1, FS_Interval
    <3>5. Cardinality(Half(w)) = Cardinality(N)
      <4>1. ExistsBijection(N, Half(w))
        BY <3>3 DEF ExistsBijection
      <4> HIDE DEF N
      <4> QED
        BY <3>4, <4>1, FS_Bijection
    <3> QED
      BY <1>c, <1>d, <1>3, <3>4, <3>5
  <2>3. Reading' = Reading
    BY <1>c DEF Reading
  <2>4. last_sequence' >= last_sequence /\ Visible \subseteq Visible'
    BY <1>c, <1>d
  <2>5. {e.seq : e \in Visible' \ Visible} = (last_sequence + 1)..last_sequence'
    BY <1>1, <2>1, Zenon
  <2>6. Store!Cardinality(Visible' \ Visible) = last_sequence' - last_sequence
    <3>1. Cardinality(Half(w)) = Store!Cardinality(Half(w))
      BY Zenon DEF Cardinality, Store!Cardinality
    <3> QED
      BY <1>1, <2>2, <3>1, Zenon
  <2> QED
    BY <2>3, <2>4, <2>5, <2>6, Zenon DEF Store!Commit
<1> QED
  BY <1>p, <1>2, <1>3

(* The states of an abstract reader.                                       *)
AbstractReads == [stage : {"idle", "pinned", "reading", "answered"}, key : Keys \cup {0},
                  snap : Nat, result : Nat]

(* Two of them with the same fields are the same.                          *)
LEMMA SameRead ==
  ASSUME NEW a \in AbstractReads, NEW b \in AbstractReads,
         a.stage = b.stage, a.key = b.key, a.snap = b.snap, a.result = b.result
  PROVE  a = b
  BY DEF AbstractReads

(* A reader's step is one of the abstract reader's, or the release of its  *)
(* references, which the abstract reader does not see.                     *)
LEMMA ReaderRefines ==
  ASSUME EngineInv, EngineInv', NEW r \in Readers, ReaderStep(r)
  PROVE  \/ Store!TakeSnapshot(r) \/ Store!BeginRead(r) \/ Store!EndRead(r)
         \/ UNCHANGED <<Visible, last_sequence, Reading>>
<1>i. Inv /\ Inv' /\ DataInv /\ DataInv' /\ PinInv /\ PinInv' /\ StoreInv
  BY DEF EngineInv
<1>v. Visible' = Visible /\ last_sequence' = last_sequence
  BY <1>i, ReaderStore
<1>d. read \in [Readers -> Reads]
  BY <1>i DEF DataInv, DataType
<1>q. \A q \in Readers : q # r => Reading'[q] = Reading[q]
  BY <1>i, ReaderAlone DEF Reading
<1>r. /\ Reading \in [Readers -> [stage : {StageOf(read[q].pc) : q \in Readers}, key : {read[q].key : q \in Readers},
                                  snap : {read[q].snap : q \in Readers}, result : {read[q].result : q \in Readers}]]
      /\ Reading[r] = [stage |-> StageOf(read[r].pc), key |-> read[r].key,
                       snap |-> read[r].snap, result |-> read[r].result]
      /\ Reading'[r] = [stage |-> StageOf(read'[r].pc), key |-> read'[r].key,
                        snap |-> read'[r].snap, result |-> read'[r].result]
      /\ DOMAIN Reading' = Readers /\ Reading' = [q \in Readers |-> Reading'[q]]
  BY DEF Reading
<1>a. Reading[r] \in AbstractReads /\ Reading'[r] \in AbstractReads
  <2>1. read[r] \in Reads /\ read'[r] \in Reads
    BY <1>i DEF DataInv, DataType
  <2>2. /\ StageOf(read[r].pc) \in {"idle", "pinned", "reading", "answered"}
        /\ StageOf(read'[r].pc) \in {"idle", "pinned", "reading", "answered"}
    BY <2>1 DEF Reads, StageOf
  <2>3. /\ read[r].key \in Keys \cup {0} /\ read[r].snap \in Nat /\ read[r].result \in Nat
        /\ read'[r].key \in Keys \cup {0} /\ read'[r].snap \in Nat /\ read'[r].result \in Nat
    BY <2>1 DEF Reads
  <2>4. Reading[r] \in AbstractReads
    <3>1. [stage |-> StageOf(read[r].pc), key |-> read[r].key, snap |-> read[r].snap,
           result |-> read[r].result] \in AbstractReads
      BY <2>2, <2>3 DEF AbstractReads
    <3> QED
      BY <1>r, <3>1, Zenon
  <2>5. Reading'[r] \in AbstractReads
    <3>1. [stage |-> StageOf(read'[r].pc), key |-> read'[r].key, snap |-> read'[r].snap,
           result |-> read'[r].result] \in AbstractReads
      BY <2>2, <2>3 DEF AbstractReads
    <3> QED
      BY <1>r, <3>1, Zenon
  <2> QED
    BY <2>4, <2>5
<1>n. last_sequence \in Nat
  BY <1>i, DataTypes
<1>1. CASE Snapshot(r)
  <2>1. /\ read[r].pc = "idle" /\ read'[r].pc = "pinned" /\ read'[r].snap = last_sequence
        /\ read'[r].key = read[r].key /\ read'[r].result = read[r].result
    BY <1>d, <1>1 DEF Snapshot, Reads
  <2>s. StageOf(read[r].pc) = "idle" /\ StageOf(read'[r].pc) = "pinned"
    BY <2>1 DEF StageOf
  <2>2. Reading[r].stage = "idle"
    BY <1>r, <2>s
  <2>3. Reading'[r] = [Reading[r] EXCEPT !.stage = "pinned", !.snap = last_sequence]
    <3> DEFINE e == [Reading[r] EXCEPT !.stage = "pinned", !.snap = last_sequence]
    <3>1. e \in AbstractReads
      BY <1>a, <1>n DEF AbstractReads
    <3>2. /\ e.stage = "pinned"
          /\ e.snap = last_sequence
          /\ e.key = Reading[r].key
          /\ e.result = Reading[r].result
      BY <1>a DEF AbstractReads
    <3>3. /\ Reading'[r].stage = "pinned"
          /\ Reading'[r].snap = last_sequence
          /\ Reading'[r].key = Reading[r].key
          /\ Reading'[r].result = Reading[r].result
      BY <1>r, <2>1, <2>s
    <3> HIDE DEF e
    <3>4. Reading'[r] = e
      BY <1>a, <3>1, <3>2, <3>3, SameRead
    <3> QED
      BY <3>4 DEF e
  <2>4. Reading' = [Reading EXCEPT ![r].stage = "pinned", ![r].snap = last_sequence]
    BY <1>q, <1>r, <2>3
  <2> QED
    BY <1>v, <2>2, <2>4 DEF Store!TakeSnapshot
<1>2. CASE GetBegin(r)
  <2>1. PICK k \in Keys :
          read' = [read EXCEPT ![r].pc = "look", ![r].key = k,
                     ![r].snap = IF read[r].pc = "idle" THEN last_sequence ELSE @,
                     ![r].mem = mem, ![r].imm = imm, ![r].ver = disk]
    BY <1>2 DEF GetBegin
  <2>2. /\ read[r].pc \in {"idle", "pinned"} /\ read'[r].pc = "look" /\ read'[r].key = k
        /\ read'[r].snap = IF read[r].pc = "idle" THEN last_sequence ELSE read[r].snap
        /\ read'[r].result = read[r].result
    BY <1>d, <1>2, <2>1 DEF GetBegin, Reads
  <2>s. StageOf(read[r].pc) = read[r].pc /\ StageOf(read'[r].pc) = "reading"
    BY <2>2 DEF StageOf
  <2>3. Reading[r].stage = read[r].pc /\ Reading[r].snap = read[r].snap
    BY <1>r, <2>s
  <2>4. Reading'[r] = [Reading[r] EXCEPT !.stage = "reading", !.key = k,
                         !.snap = IF Reading[r].stage = "idle" THEN last_sequence ELSE Reading[r].snap]
    <3> DEFINE e == [Reading[r] EXCEPT !.stage = "reading", !.key = k, !.snap = IF Reading[r].stage = "idle" THEN last_sequence ELSE Reading[r].snap]
    <3>1. e \in AbstractReads
      BY <1>a, <1>n DEF AbstractReads
    <3>2. /\ e.stage = "reading"
          /\ e.snap = IF Reading[r].stage = "idle" THEN last_sequence ELSE Reading[r].snap
          /\ e.key = k
          /\ e.result = Reading[r].result
      BY <1>a DEF AbstractReads
    <3>3. /\ Reading'[r].stage = "reading"
          /\ Reading'[r].snap = IF Reading[r].stage = "idle" THEN last_sequence ELSE Reading[r].snap
          /\ Reading'[r].key = k
          /\ Reading'[r].result = Reading[r].result
      BY <1>r, <2>2, <2>3, <2>s
    <3> HIDE DEF e
    <3>4. Reading'[r] = e
      BY <1>a, <3>1, <3>2, <3>3, SameRead
    <3> QED
      BY <3>4 DEF e
  <2>5. Reading' = [Reading EXCEPT ![r].stage = "reading", ![r].key = k,
                      ![r].snap = IF Reading[r].stage = "idle" THEN last_sequence ELSE @]
    BY <1>q, <1>r, <2>4
  <2> QED
    BY <1>v, <2>2, <2>3, <2>5 DEF Store!BeginRead
<1>3. CASE GetLook(r)
  <2> DEFINE v == Lookup(Visible, read[r].key, read[r].snap)
  <2>1. PICK m : read' = [read EXCEPT ![r].pc = "unref", ![r].miss = m, ![r].result = v]
    BY <1>i, <1>3, AnswerRight
  <2>0. read[r].pc = "look"
    BY <1>3 DEF GetLook
  <2> HIDE DEF v
  <2>2. /\ read'[r].pc = "unref" /\ read'[r].key = read[r].key
        /\ read'[r].snap = read[r].snap /\ read'[r].result = v
    BY <1>d, <2>1 DEF Reads
  <2>v. v \in Nat
    BY <1>a, <1>r, <2>2 DEF AbstractReads
  <2>s. StageOf(read[r].pc) = "reading" /\ StageOf(read'[r].pc) = "answered"
    BY <2>0, <2>2 DEF StageOf
  <2>3. Reading[r].stage = "reading" /\ Reading[r].key = read[r].key /\ Reading[r].snap = read[r].snap
    BY <1>r, <2>s
  <2>4. Reading'[r] = [Reading[r] EXCEPT !.stage = "answered", !.result = v]
    <3> DEFINE e == [Reading[r] EXCEPT !.stage = "answered", !.result = v]
    <3>1. e \in AbstractReads
      BY <1>a, <2>v DEF AbstractReads
    <3>2. /\ e.stage = "answered"
          /\ e.snap = Reading[r].snap
          /\ e.key = Reading[r].key
          /\ e.result = v
      BY <1>a DEF AbstractReads
    <3>3. /\ Reading'[r].stage = "answered"
          /\ Reading'[r].snap = Reading[r].snap
          /\ Reading'[r].key = Reading[r].key
          /\ Reading'[r].result = v
      BY <1>r, <2>2, <2>s
    <3> HIDE DEF e
    <3>4. Reading'[r] = e
      BY <1>a, <3>1, <3>2, <3>3, SameRead
    <3> QED
      BY <3>4 DEF e
  <2>5. Reading' = [Reading EXCEPT ![r].stage = "answered", ![r].result = v]
    BY <1>q, <1>r, <2>4
  <2>6. v = Store!Newest(Visible, Reading[r].key, Reading[r].snap)
    BY <2>3 DEF v, Lookup, Store!Newest
  <2> QED
    BY <1>v, <2>3, <2>5, <2>6 DEF Store!EndRead
<1>4. CASE GetEnd(r)
  <2>1. /\ read[r].pc = "unref" /\ read'[r].pc = "done" /\ read'[r].key = read[r].key
        /\ read'[r].snap = read[r].snap /\ read'[r].result = read[r].result
    BY <1>d, <1>4 DEF GetEnd, Reads
  <2>s. StageOf(read[r].pc) = "answered" /\ StageOf(read'[r].pc) = "answered"
    BY <2>1 DEF StageOf
  <2>2. Reading'[r] = Reading[r]
    BY <1>r, <2>1, <2>s
  <2>3. Reading' = Reading
    BY <1>q, <1>r, <2>2
  <2> QED
    BY <1>v, <2>3
<1> QED
  BY <1>1, <1>2, <1>3, <1>4 DEF ReaderStep

(* Every step of the engine is a step of the store, or none.               *)
LEMMA StepRefines == EngineInv /\ EngineInv' /\ [Next]_vars => [Store!Next]_(Store!vars)
<1> SUFFICES ASSUME EngineInv, EngineInv', [Next]_vars
             PROVE  Store!Next \/ UNCHANGED <<Visible, last_sequence, Reading>>
  BY DEF Store!vars
<1>i. Inv /\ Inv' /\ DataInv /\ DataInv' /\ PinInv /\ PinInv' /\ StoreInv /\ InsertProgress
  BY DEF EngineInv, StoreInv
<1>w. Writers \subseteq Clients
  BY DEF Clients
<1>1. CASE DataFixed /\ InsertProgress' /\ HalfKept
  <2>1. Visible' = Visible /\ last_sequence' = last_sequence /\ read' = read
    BY <1>i, <1>1, FixedStore DEF DataFixed
  <2> QED
    BY <2>1 DEF Reading
<1>2. ASSUME NEW w \in Writers, InsertInto(w)
      PROVE  UNCHANGED <<Visible, last_sequence, Reading>>
  <2>1. Visible' = Visible /\ last_sequence' = last_sequence /\ read' = read
    BY <1>i, <1>w, <1>2, InsertStore DEF InsertInto
  <2> QED
    BY <2>1 DEF Reading
<1>3. ASSUME NEW w \in Writers, Commit(w) PROVE Store!Next
  BY <1>w, <1>3, CommitRefines DEF Store!Next
<1>4. ASSUME NEW w \in Clients, NEW err \in BOOLEAN, SwitchMemtable(w, err)
      PROVE  UNCHANGED <<Visible, last_sequence, Reading>>
  <2>1. Visible' = Visible /\ last_sequence' = last_sequence /\ read' = read
    BY <1>i, <1>4, SwitchStore
  <2> QED
    BY <2>1 DEF Reading
<1>5. ASSUME NEW r \in Readers, ReaderStep(r)
      PROVE  Store!Next \/ UNCHANGED <<Visible, last_sequence, Reading>>
  BY <1>5, ReaderRefines DEF Store!Next
<1>6. CASE BgApplied(TRUE)
  <2>1. Visible' = Visible /\ last_sequence' = last_sequence /\ read' = read
    BY <1>i, <1>6, AppliedStore
  <2> QED
    BY <2>1 DEF Reading
<1> QED
  BY <1>i, <1>1, <1>2, <1>3, <1>4, <1>5, <1>6, StepKinds

(* The engine, with its queue, its log, its two memtables, its versions    *)
(* and its background job, is a store of versioned entries: whatever the   *)
(* numbers of callers and readers and however their steps interleave, a    *)
(* group becomes visible in one step, all of it or none, and a reader gets *)
(* the newest entry of its key at the sequence number it started with.     *)
THEOREM EngineIsStore == Spec => StoreSpec
<1>1. Init => Store!Init
  <2> SUFFICES ASSUME Init PROVE Visible = {} /\ last_sequence = 0 /\
         Reading = [r \in Readers |-> [stage |-> "idle", key |-> 0, snap |-> 0, result |-> 0]]
    BY DEF Store!Init
  <2>1. Visible = {}
    <3>1. 1 \in Tables
      BY SpentFinite DEF Tables
    <3> QED
      BY <3>1 DEF Init, Visible
  <2>2. \A r \in Readers : [stage |-> StageOf(read[r].pc), key |-> read[r].key,
                            snap |-> read[r].snap, result |-> read[r].result]
                           = [stage |-> "idle", key |-> 0, snap |-> 0, result |-> 0]
    BY DEF Init, StageOf
  <2> QED
    BY <2>1, <2>2 DEF Init, Reading
<1> QED
  BY <1>1, EngineInit, EngineNext, StepRefines, PTL DEF Spec, StoreSpec, Store!Spec
=============================================================================
