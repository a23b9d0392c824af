--------------------------- MODULE DbResultProofs ---------------------------
(***************************************************************************)
(* What ldb_write tells its caller is true, for any number of callers:     *)
(* ResultsHonest and SyncedIsDurable of DbImpl.  A follower's result is    *)
(* decided by a leader that logged a batch built from many, so neither is  *)
(* inductive: what a call will be told depends on where its updates are in *)
(* the group's batch, on whether the leader syncs for the calls it took    *)
(* in, and on what the log held when it was synced.                        *)
(***************************************************************************)
EXTENDS DbStoreProofs

(* Call x has its result: it returned, or a leader finished it.            *)
Finished(x) == pc[x] = "ret" \/ waiter[x].done

(* A finished call that succeeded has its whole batch visible, and safe if *)
(* it asked for that; any other call has nothing visible.                  *)
ResultAt(x) ==
  IF Finished(x) /\ waiter[x].status = "ok"
  THEN /\ Cardinality(OwnBatch(x)) = Len(waiter[x].batch)
       /\ waiter[x].sync => OwnBatch(x) \subseteq durable
  ELSE OwnBatch(x) = {}

(* A batch holds its caller's updates.                                     *)
Signed == \A x \in Clients : \A i \in 1..Len(waiter[x].batch) : waiter[x].batch[i].by = x

(* A writer that has not called yet has not been finished either.          *)
NotYet == \A x \in Writers : pc[x] = "idle" => ~waiter[x].done

Results == Signed /\ NotYet /\ \A x \in Writers : ResultAt(x)

(* The k updates of x in the batch s are the ones after the first o.       *)
Stretch(s, x, o, k) ==
  /\ o + k <= Len(s)
  /\ \A i \in 1..Len(s) : s[i].by = x <=> i \in (o + 1)..(o + k)

(* The calls that w leads.                                                 *)
GroupOf(w) == {writers[j] : j \in 1..loc[w].n}

(* The batch of a group holds the whole batch of every member and nothing  *)
(* else, and the group is synced if one of them asked for it.              *)
Gathers(s, G, sync) ==
  /\ \A i \in 1..Len(s) : s[i].by \in G
  /\ \A x \in G : /\ \E o \in Nat : Stretch(s, x, o, Len(waiter[x].batch))
                  /\ waiter[x].sync => sync
GroupAt(w) == pc[w] \in InGroup => Gathers(Contents(w), GroupOf(w), waiter[w].sync)

(* The record is in the log before the log is synced, and durable before   *)
(* the group of a sync write is inserted and published.                    *)
LogAt(w) ==
  /\ pc[w] = "sync" => Record(w) \subseteq log
  /\ pc[w] \in {"insert", "commit"} /\ loc[w].rc = "ok" /\ waiter[w].sync => Record(w) \subseteq durable

Groups == \A w \in Clients : GroupAt(w) /\ LogAt(w)
ResultInv == Results /\ Groups

-----------------------------------------------------------------------------
(* The invariant holds as the database opens.                              *)
LEMMA ResultInit == Init => ResultInv
<1> SUFFICES ASSUME Init PROVE ResultInv
  OBVIOUS
<1>v. Visible = {}
  <2>1. 1 \in Tables
    BY SpentFinite DEF Tables
  <2> QED
    BY <2>1 DEF Init, Visible
<1>1. Signed /\ NotYet
  BY DEF Init, Signed, NotYet, Clients
<1>2. ASSUME NEW x \in Writers PROVE ResultAt(x)
  <2>1. OwnBatch(x) = {} /\ ~Finished(x)
    BY <1>v DEF OwnBatch, Finished, Init, Clients
  <2> QED
    BY <2>1 DEF ResultAt
<1>3. Groups
  BY DEF Init, Groups, GroupAt, LogAt, InGroup
<1> QED
  BY <1>1, <1>2, <1>3 DEF ResultInv, Results

(* Nothing new is visible and no call got its result.                      *)
LEMMA ResultsKept ==
  ASSUME Results, Visible' = Visible, durable \subseteq durable', waiter' = waiter,
         \A x \in Writers : Finished(x)' = Finished(x) /\ (pc'[x] = "idle" => pc[x] = "idle")
  PROVE  Results'
<1>1. Signed' /\ NotYet'
  BY DEF Results, Signed, NotYet
<1>2. ASSUME NEW x \in Writers PROVE ResultAt(x)'
  <2>1. OwnBatch(x)' = OwnBatch(x)
    BY DEF OwnBatch
  <2>2. ResultAt(x) /\ Finished(x)' = Finished(x)
    BY DEF Results
  <2> QED
    BY <2>1, <2>2 DEF ResultAt
<1> QED
  BY <1>1, <1>2 DEF Results

(* No call is in a group after the step.                                   *)
LEMMA NoGroup ==
  ASSUME \A x \in Clients : pc'[x] \notin InGroup
  PROVE  Groups'
BY DEF Groups, GroupAt, LogAt, InGroup

(* The leader's group and the batch it writes stay as they are.            *)
LEMMA GroupKept ==
  ASSUME Inv, NEW w \in Clients, pc[w] \in InGroup, GroupAt(w),
         loc'[w].n = loc[w].n, loc'[w].tmp = loc[w].tmp, tmp_batch' = tmp_batch,
         \A j \in 1..loc[w].n : writers'[j] = writers[j] /\ waiter'[writers[j]] = waiter[writers[j]]
  PROVE  /\ GroupAt(w)' /\ Contents(w)' = Contents(w) /\ waiter'[w] = waiter[w]
         /\ loc'[w].base = loc[w].base => Record(w)' = Record(w)
<1>1. pc[w] \in Leading /\ loc[w].n \in 1..Len(writers) /\ writers \in Seq(Clients)
  BY StagesFacts DEF Inv, QueueInv, GroupSane, ClientsType
<1>2. writers[1] = w /\ 1 \in 1..loc[w].n
  BY <1>1 DEF Inv, QueueInv, LeaderIsHead
<1>3. waiter'[w] = waiter[w]
  BY <1>2
<1>4. Contents(w)' = Contents(w)
  BY <1>3 DEF Contents
<1>5. GroupOf(w)' = GroupOf(w) /\ \A x \in GroupOf(w) : waiter'[x] = waiter[x]
  BY DEF GroupOf
<1>6. Gathers(Contents(w), GroupOf(w), waiter[w].sync)'
  BY <1>3, <1>4, <1>5 DEF GroupAt, Gathers
<1>7. ASSUME loc'[w].base = loc[w].base PROVE Record(w)' = Record(w)
  <2>1. \A i : EntryAt(w, i)' = EntryAt(w, i)
    BY <1>4, <1>7 DEF EntryAt
  <2> QED
    BY <1>4, <2>1 DEF Record
<1> QED
  BY <1>3, <1>4, <1>6, <1>7 DEF GroupAt

-----------------------------------------------------------------------------
(* The queue.                                                              *)

(* A call that begins: the groups before it in the queue do not see it.    *)
LEMMA EnqueueResult ==
  ASSUME Inv, ResultInv, NEW w \in Clients, pc[w] \in {"idle", "memtable"},
         NEW b \in Seq(Item), NEW s \in BOOLEAN, Enqueue(w, b, s), UNCHANGED <<tmp_batch, log, durable>>,
         \A i \in 1..Len(b) : b[i].by = w, w \in Writers => pc[w] = "idle", Visible' = Visible
  PROVE  ResultInv'
<1>t. /\ writers \in Seq(Clients) /\ waiter \in [Clients -> Waiters] /\ loc \in [Clients -> Locals]
      /\ pc \in [Clients -> Stages]
  BY DEF Inv, ClientsType
<1>w. /\ waiter'[w] = [batch |-> b, sync |-> s, done |-> FALSE, status |-> "ok"]
      /\ \A x \in Clients : x # w => waiter'[x] = waiter[x] /\ loc'[x] = loc[x] /\ pc'[x] = pc[x]
      /\ pc'[w] \in {"cvwait", "room"} /\ writers' = Append(writers, w)
  BY <1>t DEF Enqueue
<1>1. Signed'
  BY <1>w DEF ResultInv, Results, Signed
<1>2. NotYet'
  BY <1>w DEF ResultInv, Results, NotYet, Clients
<1>3. ASSUME NEW x \in Writers PROVE ResultAt(x)'
  <2>1. OwnBatch(x)' = OwnBatch(x) /\ ResultAt(x) /\ x \in Clients
    BY DEF OwnBatch, ResultInv, Results, Clients
  <2>2. CASE x = w
    <3>1. ~Finished(x) /\ ~Finished(x)'
      BY <1>w, <2>2 DEF Finished, ResultInv, Results, NotYet
    <3> QED
      BY <2>1, <3>1 DEF ResultAt
  <2>3. CASE x # w
    BY <1>w, <2>1, <2>3 DEF ResultAt, Finished
  <2> QED
    BY <2>2, <2>3
<1>4. ASSUME NEW x \in Clients PROVE GroupAt(x)' /\ LogAt(x)'
  <2>1. CASE pc'[x] \notin InGroup
    BY <2>1 DEF GroupAt, LogAt, InGroup
  <2>2. CASE pc'[x] \in InGroup
    <3>1. x # w
      BY <1>w, <2>2 DEF InGroup
    <3>2. pc[x] \in InGroup /\ GroupAt(x) /\ LogAt(x) /\ loc[x].n \in 1..Len(writers)
      BY <1>w, <2>2, <3>1 DEF ResultInv, Groups, Inv, QueueInv, GroupSane
    <3>3. \A j \in 1..loc[x].n : writers'[j] = writers[j] /\ waiter'[writers[j]] = waiter[writers[j]]
      <4> SUFFICES ASSUME NEW j \in 1..loc[x].n
                   PROVE  writers'[j] = writers[j] /\ waiter'[writers[j]] = waiter[writers[j]]
        OBVIOUS
      <4>1. j \in 1..Len(writers) /\ writers[j] \in Clients
        BY <1>t, <3>2
      <4>2. writers[j] # w
        BY <4>1 DEF Inv, QueueInv, QueueExact, Queued, Leading
      <4> QED
        BY <1>t, <1>w, <4>1, <4>2
    <3>4. GroupAt(x)' /\ waiter'[x] = waiter[x] /\ Record(x)' = Record(x)
      BY <1>w, <3>1, <3>2, <3>3, GroupKept
    <3> QED
      BY <1>w, <3>1, <3>2, <3>4 DEF LogAt
  <2> QED
    BY <2>1, <2>2
<1> QED
  BY <1>1, <1>2, <1>3, <1>4 DEF ResultInv, Results, Groups

(* What the tail of ldb_write does to the first n calls of the queue and   *)
(* to the others.                                                          *)
LEMMA DequeueFacts ==
  ASSUME Inv, NEW w \in Clients, pc[w] \in Leading, NEW n \in 1..Len(writers), NEW rc \in {"ok", "err"},
         NEW f, f = pc \/ f = Woken(pc), Dequeue(w, n, rc, f)
  PROVE  /\ \A x \in Clients : pc'[x] \notin InGroup /\ waiter'[x].batch = waiter[x].batch
                               /\ waiter'[x].sync = waiter[x].sync
         /\ \A x \in Clients : (\E j \in 1..n : writers[j] = x) =>
              /\ waiter'[x].status = rc
              /\ ~Finished(x) /\ pc[x] # "idle"
              /\ x \in Writers => Finished(x)' /\ pc'[x] # "idle"
         /\ \A x \in Clients : (\A j \in 1..n : writers[j] # x) =>
              /\ waiter'[x] = waiter[x]
              /\ pc'[x] = "ret" <=> pc[x] = "ret"
              /\ pc'[x] = "idle" <=> pc[x] = "idle"
<1> DEFINE ready == {writers[i] : i \in 2..n}
<1>t. /\ writers \in Seq(Clients) /\ waiter \in [Clients -> Waiters] /\ loc \in [Clients -> Locals]
      /\ pc \in [Clients -> Stages]
  BY DEF Inv, ClientsType
<1>h. writers[1] = w /\ n \in Nat /\ Len(writers) \in Nat
  BY <1>t DEF Inv, QueueInv, LeaderIsHead
<1>f. \A x \in Clients : /\ f[x] = "ret" <=> pc[x] = "ret"
                         /\ f[x] = "idle" <=> pc[x] = "idle"
                         /\ x # w => f[x] \notin InGroup
  <2>1. \A x \in Clients : /\ f[x] = "ret" <=> pc[x] = "ret"
                           /\ f[x] = "idle" <=> pc[x] = "idle"
    BY <1>t DEF Woken
  <2>2. ASSUME NEW x \in Clients, x # w PROVE f[x] \notin InGroup
    BY <2>2, OthersOutside
  <2> QED
    BY <2>1, <2>2
<1> HIDE DEF ready
<1>p. /\ pc'[w] = AfterWrite(w, rc)
      /\ \A x \in Clients : x # w => pc'[x] = f[x] \/ (f[x] = "cvwait" /\ pc'[x] = "queue")
  BY DEF Dequeue
<1>w. /\ \A x \in Clients : waiter'[x].batch = waiter[x].batch /\ waiter'[x].sync = waiter[x].sync
      /\ waiter'[w].status = rc
      /\ \A x \in Clients : x # w /\ x \in ready => waiter'[x].done /\ waiter'[x].status = rc
      /\ \A x \in Clients : x # w /\ x \notin ready => waiter'[x] = waiter[x]
  <2>1. \A x \in Clients : waiter[x] \in Waiters
    BY <1>t
  <2>2. waiter' = [x \in Clients |->
           IF x = w THEN [waiter[x] EXCEPT !.status = rc]
           ELSE IF x \in ready THEN [waiter[x] EXCEPT !.done = TRUE, !.status = rc]
           ELSE waiter[x]]
    BY Zenon DEF Dequeue, ready
  <2> QED
    BY <2>1, <2>2 DEF Waiters
<1>1. ASSUME NEW x \in Clients
      PROVE  pc'[x] \notin InGroup /\ waiter'[x].batch = waiter[x].batch /\ waiter'[x].sync = waiter[x].sync
  <2>1. AfterWrite(w, rc) \notin InGroup /\ "queue" \notin InGroup
    BY DEF AfterWrite, InGroup
  <2>2. CASE x = w
    BY <1>p, <1>w, <2>1, <2>2
  <2>3. CASE x # w
    BY <1>f, <1>p, <1>w, <2>1, <2>3
  <2> QED
    BY <2>2, <2>3
<1>2. ASSUME NEW x \in Clients, NEW j \in 1..n, writers[j] = x
      PROVE  /\ waiter'[x].status = rc
             /\ ~Finished(x) /\ pc[x] # "idle"
             /\ x \in Writers => Finished(x)' /\ pc'[x] # "idle"
  <2>1. j \in 1..Len(writers)
    BY <1>h
  <2>2. pc[x] \in Queued /\ ~waiter[x].done
    BY <1>2, <2>1 DEF Inv, QueueInv, QueueExact
  <2>3. ~Finished(x) /\ pc[x] # "idle"
    BY <2>2 DEF Finished, Queued, Leading
  <2>4. CASE x = w
    <3>1. w \in Writers => pc'[w] = "ret"
      BY <1>p DEF AfterWrite
    <3> QED
      BY <1>w, <2>3, <2>4, <3>1 DEF Finished
  <2>5. CASE x # w
    <3>1. x \in ready
      BY <1>h, <1>2, <2>5 DEF ready
    <3>2. waiter'[x].status = rc /\ waiter'[x].done
      BY <1>w, <2>5, <3>1
    <3>3. pc'[x] # "idle"
      BY <1>f, <1>p, <2>3, <2>5
    <3> QED
      BY <2>3, <3>2, <3>3 DEF Finished
  <2> QED
    BY <2>4, <2>5
<1>3. ASSUME NEW x \in Clients, \A j \in 1..n : writers[j] # x
      PROVE  /\ waiter'[x] = waiter[x]
             /\ pc'[x] = "ret" <=> pc[x] = "ret"
             /\ pc'[x] = "idle" <=> pc[x] = "idle"
  <2>1. x # w /\ x \notin ready
    <3>1. 1 \in 1..n /\ \A i \in 2..n : i \in 1..n
      BY <1>h
    <3> QED
      BY <1>3, <1>h, <3>1 DEF ready
  <2> QED
    BY <1>f, <1>p, <1>w, <2>1
<1> QED
  BY <1>1, <1>2, <1>3

(* A call that gets its result before it has a group: an error, or the     *)
(* NULL batch.                                                             *)
LEMMA RoomEndResult ==
  ASSUME Inv, ResultInv, NEW w \in Clients, durable' = durable, Visible' = Visible,
         RoomError(w) \/ SwitchFails(w) \/ (RoomOk(w) /\ IsNull(w))
  PROVE  ResultInv'
<1>1. PICK rc \in {"ok", "err"} : /\ pc[w] = "room" /\ Dequeue(w, 1, rc, pc)
                                  /\ rc = "ok" => w \in Compactors
  BY DEF RoomError, SwitchFails, RoomOk, MustSwitch, InRoom, IsNull
<1>2. pc[w] \in Leading /\ 1 \in 1..Len(writers) /\ writers[1] = w /\ w \in Clients
  BY <1>1 DEF Inv, QueueInv, LeaderIsHead, ClientsType, Leading
<1>3. /\ \A x \in Clients : pc'[x] \notin InGroup /\ waiter'[x].batch = waiter[x].batch
      /\ waiter'[w].status = rc /\ ~Finished(w) /\ (w \in Writers => pc'[w] # "idle")
      /\ \A x \in Clients : x # w => /\ waiter'[x] = waiter[x]
                                     /\ pc'[x] = "ret" <=> pc[x] = "ret"
                                     /\ pc'[x] = "idle" <=> pc[x] = "idle"
  <2>1. \A x \in Clients : (\A j \in 1..1 : writers[j] # x) <=> x # w
    BY <1>2
  <2>2. \E j \in 1..1 : writers[j] = w
    BY <1>2
  <2> QED
    BY <1>1, <1>2, <2>1, <2>2, DequeueFacts
<1>4. Signed'
  BY <1>3 DEF ResultInv, Results, Signed
<1>5. NotYet'
  BY <1>3 DEF ResultInv, Results, NotYet, Clients
<1>6. ASSUME NEW x \in Writers PROVE ResultAt(x)'
  <2>1. OwnBatch(x)' = OwnBatch(x) /\ ResultAt(x) /\ x \in Clients
    BY DEF OwnBatch, ResultInv, Results, Clients
  <2>2. CASE x = w
    <3>1. rc = "err"
      BY <1>1, <2>2, ClientsAssumption
    <3> QED
      BY <1>3, <2>1, <2>2, <3>1 DEF ResultAt
  <2>3. CASE x # w
    BY <1>3, <2>1, <2>3 DEF ResultAt, Finished
  <2> QED
    BY <2>2, <2>3
<1> QED
  BY <1>3, <1>4, <1>5, <1>6, NoGroup DEF ResultInv, Results

(* The updates of one member, published by the leader: as many entries as  *)
(* its batch had, all in the record of the group.                          *)
LEMMA OwnPublished ==
  ASSUME Inv, InsertProgress, NEW w \in Clients, pc[w] = "commit", loc[w].rc = "ok",
         NEW x, NEW k \in Nat, NEW o \in Nat, Stretch(Contents(w), x, o, k)
  PROVE  /\ Cardinality({e \in Half(w) : e.by = x}) = k
         /\ {e \in Half(w) : e.by = x} \subseteq Record(w)
<1> DEFINE N == (o + 1)..(o + k)
           S == {e \in Half(w) : e.by = x}
           g == [i \in N |-> EntryAt(w, i)]
           len == Len(Contents(w))
<1>c. Contents(w) \in Seq(Item) /\ len \in Nat /\ last_sequence \in Nat
  BY ContentsType DEF Inv, ClientsType
<1>p. loc[w].pos = len /\ pc[w] \in InGroup
  BY DEF InsertProgress, ProgressAt, InGroup
<1>n. N \subseteq 1..len /\ \A i \in 1..len : Contents(w)[i].by = x <=> i \in N
  BY <1>c DEF Stretch
<1>e. \A i \in 1..len : EntryAt(w, i).seq = last_sequence + i /\ EntryAt(w, i).by = Contents(w)[i].by
  <2>1. \A i \in 1..len : EntryAt(w, i).seq = last_sequence + i
    BY <1>p, NextEntry
  <2> QED
    BY <2>1 DEF EntryAt
<1> HIDE DEF N, len
<1>h. Half(w) = {EntryAt(w, i) : i \in 1..len}
  BY <1>p DEF Half
<1>1. g \in [N -> S] /\ \A e \in S : \E i \in N : g[i] = e
  <2>1. ASSUME NEW i \in N PROVE EntryAt(w, i) \in S
    BY <1>n, <1>e, <1>h
  <2>2. ASSUME NEW e \in S PROVE \E i \in N : EntryAt(w, i) = e
    <3>1. PICK i \in 1..len : EntryAt(w, i) = e /\ e.by = x
      BY <1>h
    <3>2. i \in N
      BY <1>n, <1>e, <3>1
    <3> QED
      BY <3>1, <3>2
  <2> QED
    BY <2>1, <2>2
<1>2. \A i, j \in N : g[i] = g[j] => i = j
  <2> SUFFICES ASSUME NEW i \in N, NEW j \in N, g[i] = g[j] PROVE i = j
    OBVIOUS
  <2>1. EntryAt(w, i).seq = EntryAt(w, j).seq /\ i \in 1..len /\ j \in 1..len
    BY <1>n
  <2>2. last_sequence + i = last_sequence + j /\ i \in Int /\ j \in Int
    BY <1>c, <1>e, <2>1 DEF len
  <2> QED
    BY <1>c, <2>2
<1>3. ExistsBijection(N, S)
  <2> HIDE DEF g, S
  <2>1. g \in Bijection(N, S)
    BY <1>1, <1>2 DEF Bijection, Injection, Surjection, IsInjective
  <2> QED
    BY <2>1 DEF ExistsBijection
<1>4. IsFiniteSet(N) /\ Cardinality(N) = k
  <2>1. o + 1 \in Int /\ o + k \in Int /\ (o + 1 > o + k => k = 0) /\ (o + k) - (o + 1) + 1 = k
    OBVIOUS
  <2> QED
    BY <2>1, FS_Interval DEF N
<1>5. Cardinality(S) = k
  <2> HIDE DEF S
  <2> QED
    BY <1>3, <1>4, FS_Bijection
<1>6. S \subseteq Record(w)
  <2>1. DOMAIN Contents(w) = 1..len
    BY <1>c DEF len
  <2> QED
    BY <1>h, <2>1 DEF Record
<1> QED
  BY <1>5, <1>6

(* The end of a group: its members get the leader's result, and what they  *)
(* asked for has been done.                                                *)
LEMMA CommitResult ==
  ASSUME EngineInv, EngineInv', ResultInv, NEW w \in Clients, Commit(w)
  PROVE  ResultInv'
<1>i. Inv /\ Inv' /\ DataInv /\ DataInv' /\ StoreInv /\ InsertProgress
  BY DEF EngineInv, StoreInv
<1>u. pc[w] = "commit" /\ durable' = durable
  BY DEF Commit
<1>v. Visible' = Visible \cup Half(w)
  BY <1>i, CommitStore
<1>g. /\ pc[w] \in InGroup /\ pc[w] \in Leading /\ loc[w].n \in 1..Len(writers)
      /\ loc[w].rc \in {"ok", "err"} /\ writers \in Seq(Clients)
  BY <1>i, <1>u DEF InGroup, Leading, Inv, QueueInv, GroupSane, ClientsType, Locals
<1>f. \E f : (f = pc \/ f = Woken(pc)) /\ Dequeue(w, loc[w].n, loc[w].rc, f)
  BY DEF Commit
<1>d. /\ \A x \in Clients : pc'[x] \notin InGroup /\ waiter'[x].batch = waiter[x].batch
                            /\ waiter'[x].sync = waiter[x].sync
      /\ \A x \in Clients : x \in GroupOf(w) =>
           /\ waiter'[x].status = loc[w].rc
           /\ ~Finished(x) /\ pc[x] # "idle"
           /\ x \in Writers => Finished(x)' /\ pc'[x] # "idle"
      /\ \A x \in Clients : x \notin GroupOf(w) =>
           /\ waiter'[x] = waiter[x]
           /\ pc'[x] = "ret" <=> pc[x] = "ret"
           /\ pc'[x] = "idle" <=> pc[x] = "idle"
  BY <1>i, <1>g, <1>f, DequeueFacts DEF GroupOf
<1>a. Gathers(Contents(w), GroupOf(w), waiter[w].sync) /\ LogAt(w)
  BY <1>g DEF ResultInv, Groups, GroupAt
<1>c. Contents(w) \in Seq(Item) /\ Len(Contents(w)) \in Nat
  BY <1>i, ContentsType
<1>p. loc[w].pos = IF loc[w].rc = "ok" THEN Len(Contents(w)) ELSE 0
  BY <1>i, <1>u DEF InsertProgress, ProgressAt
<1>h. \A e \in Half(w) : e.by \in GroupOf(w)
  <2> SUFFICES ASSUME NEW i \in 1..loc[w].pos PROVE EntryAt(w, i).by \in GroupOf(w)
    BY DEF Half
  <2>1. i \in 1..Len(Contents(w))
    BY <1>c, <1>p
  <2> QED
    BY <1>a, <2>1 DEF Gathers, EntryAt
<1>o. \A x : OwnBatch(x)' = OwnBatch(x) \cup {e \in Half(w) : e.by = x}
  BY <1>v DEF OwnBatch
<1>1. Signed'
  BY <1>d DEF ResultInv, Results, Signed
<1>2. NotYet'
  <2> SUFFICES ASSUME NEW x \in Writers, pc'[x] = "idle" PROVE ~waiter'[x].done
    BY DEF NotYet
  <2>1. x \in Clients /\ x \notin GroupOf(w)
    BY <1>d DEF Clients
  <2> QED
    BY <1>d, <2>1 DEF ResultInv, Results, NotYet
<1>3. ASSUME NEW x \in Writers PROVE ResultAt(x)'
  <2>0. x \in Clients /\ ResultAt(x)
    BY DEF Clients, ResultInv, Results
  <2>1. CASE x \notin GroupOf(w)
    <3>1. {e \in Half(w) : e.by = x} = {}
      BY <1>h, <2>1
    <3>2. OwnBatch(x)' = OwnBatch(x)
      BY <1>o, <3>1
    <3>3. waiter'[x] = waiter[x] /\ Finished(x)' = Finished(x)
      BY <1>d, <2>0, <2>1 DEF Finished
    <3> QED
      BY <1>u, <2>0, <3>2, <3>3 DEF ResultAt
  <2>2. CASE x \in GroupOf(w)
    <3>1. /\ OwnBatch(x) = {} /\ Finished(x)' /\ waiter'[x].status = loc[w].rc
          /\ waiter'[x].batch = waiter[x].batch /\ waiter'[x].sync = waiter[x].sync
      BY <1>d, <2>0, <2>2 DEF ResultAt
    <3>2. OwnBatch(x)' = {e \in Half(w) : e.by = x}
      BY <1>o, <3>1
    <3>3. CASE loc[w].rc = "ok"
      <4>1. PICK o \in Nat : Stretch(Contents(w), x, o, Len(waiter[x].batch))
        BY <1>a, <2>2 DEF Gathers
      <4>2. Len(waiter[x].batch) \in Nat
        BY <1>i, <2>0 DEF Inv, ClientsType, Waiters
      <4>3. /\ Cardinality({e \in Half(w) : e.by = x}) = Len(waiter[x].batch)
            /\ {e \in Half(w) : e.by = x} \subseteq Record(w)
        BY <1>i, <1>u, <3>3, <4>1, <4>2, OwnPublished
      <4>4. waiter[x].sync => Record(w) \subseteq durable
        BY <1>a, <1>u, <2>2, <3>3 DEF Gathers, LogAt
      <4>5. Cardinality(OwnBatch(x)') = Len(waiter'[x].batch)
        BY <3>1, <3>2, <4>3
      <4>6. waiter'[x].sync => OwnBatch(x)' \subseteq durable'
        BY <1>u, <3>1, <3>2, <4>3, <4>4
      <4> QED
        BY <3>1, <3>3, <4>5, <4>6 DEF ResultAt
    <3>4. CASE loc[w].rc = "err"
      <4>1. Half(w) = {}
        BY <1>p, <3>4 DEF Half
      <4>2. OwnBatch(x)' = {}
        BY <3>2, <4>1
      <4> QED
        BY <3>1, <3>4, <4>2 DEF ResultAt
    <3> QED
      BY <1>g, <3>3, <3>4
  <2> QED
    BY <2>1, <2>2
<1> QED
  BY <1>d, <1>1, <1>2, <1>3, NoGroup DEF ResultInv, Results

-----------------------------------------------------------------------------
(* The group.                                                              *)

(* One more member, its batch after the others.                            *)
LEMMA GatherMore ==
  ASSUME NEW s \in Seq(Item), NEW G, NEW sync, Gathers(s, G, sync), NEW x, x \notin G,
         \A y \in G \cup {x} : waiter[y].batch \in Seq(Item),
         \A i \in 1..Len(waiter[x].batch) : waiter[x].batch[i].by = x,
         waiter[x].sync => sync
  PROVE  Gathers(s \o waiter[x].batch, G \cup {x}, sync)
<1> DEFINE b == waiter[x].batch
           t == s \o b
<1>1. /\ t \in Seq(Item) /\ Len(s) \in Nat /\ Len(b) \in Nat /\ Len(t) = Len(s) + Len(b)
      /\ \A i \in 1..Len(s) : t[i] = s[i]
      /\ \A i \in 1..Len(t) : i > Len(s) => t[i] = b[i - Len(s)]
  OBVIOUS
<1>2. /\ \A i \in 1..Len(s) : i \in 1..Len(t)
      /\ \A i \in 1..Len(t) : i <= Len(s) => i \in 1..Len(s)
      /\ \A i \in 1..Len(t) : i > Len(s) => i - Len(s) \in 1..Len(b)
  BY <1>1
<1> HIDE DEF t
<1>3. \A i \in 1..Len(t) : i > Len(s) => t[i].by = x
  BY <1>1, <1>2
<1>4. \A i \in 1..Len(s) : t[i].by \in G /\ t[i].by # x
  BY <1>1 DEF Gathers
<1>5. \A i \in 1..Len(t) : i <= Len(s) \/ i > Len(s)
  BY <1>1
<1>6. \A i \in 1..Len(t) : t[i].by \in G \cup {x}
  BY <1>2, <1>3, <1>4, <1>5
<1>7. ASSUME NEW y \in G PROVE \E o \in Nat : Stretch(t, y, o, Len(waiter[y].batch))
  <2>1. PICK o \in Nat : Stretch(s, y, o, Len(waiter[y].batch))
    BY DEF Gathers
  <2> DEFINE R == (o + 1)..(o + Len(waiter[y].batch))
             k == Len(waiter[y].batch)
  <2>2. o + k <= Len(s) /\ \A i \in 1..Len(s) : s[i].by = y <=> i \in R
    BY <2>1 DEF Stretch
  <2>3. \A i \in 1..Len(t) : i > Len(s) => i \notin R /\ t[i].by # y
    <3> SUFFICES ASSUME NEW i \in 1..Len(t), i > Len(s) PROVE i \notin R /\ t[i].by # y
      OBVIOUS
    <3>1. t[i].by # y
      BY <1>3
    <3>2. ASSUME i \in R PROVE FALSE
      <4>1. i <= o + k /\ i \in Int
        BY <3>2
      <4>2. k \in Nat /\ Len(s) \in Nat /\ o + k <= Len(s)
        BY <1>1, <2>2
      <4> HIDE DEF k
      <4> QED
        BY <4>1, <4>2
    <3> QED
      BY <3>1, <3>2
  <2>4. o + k <= Len(t)
    <3>1. k \in Nat /\ o + k <= Len(s)
      BY <2>2
    <3> HIDE DEF k
    <3> QED
      BY <1>1, <3>1
  <2>5. \A i \in 1..Len(t) : t[i].by = y <=> i \in R
    <3> HIDE DEF R
    <3> QED
      BY <1>1, <1>2, <1>5, <2>2, <2>3
  <2> QED
    BY <2>4, <2>5 DEF Stretch
<1>8. Stretch(t, x, Len(s), Len(b))
  <2>1. \A i \in 1..Len(t) : i \in (Len(s) + 1)..(Len(s) + Len(b)) <=> i > Len(s)
    BY <1>1
  <2>2. \A i \in 1..Len(t) : t[i].by = x <=> i > Len(s)
    BY <1>2, <1>3, <1>4, <1>5
  <2> QED
    BY <1>1, <2>1, <2>2 DEF Stretch
<1>9. \A y \in G : waiter[y].sync => sync
  BY DEF Gathers
<1> QED
  BY <1>1, <1>6, <1>7, <1>8, <1>9 DEF Gathers, t

(* ldb_build_batch_group starts with the leader's own batch.               *)
LEMMA StartGroup ==
  ASSUME Inv, ResultInv, NEW w \in Clients, RoomOk(w), ~IsNull(w)
  PROVE  Groups'
<1>t. /\ pc \in [Clients -> Stages] /\ loc \in [Clients -> Locals] /\ loc[w] \in Locals
      /\ waiter[w].batch \in Seq(Item) /\ Len(waiter[w].batch) \in Nat
  BY DEF Inv, ClientsType, Waiters
<1>u. /\ pc[w] = "room" /\ pc' = [pc EXCEPT ![w] = "group"] /\ UNCHANGED <<writers, waiter>>
      /\ loc' = [loc EXCEPT ![w].n = 1, ![w].size = Len(waiter[w].batch), ![w].base = last_sequence]
  BY DEF RoomOk, InRoom
<1>l. pc[w] \in Leading /\ writers[1] = w /\ ~loc[w].tmp
  BY <1>u DEF Leading, InRoomLoop, Inv, QueueInv, LeaderIsHead, GroupSane
<1>n. loc'[w].n = 1 /\ ~loc'[w].tmp
  BY <1>t, <1>u, <1>l DEF Locals
<1>1. Contents(w)' = waiter[w].batch /\ GroupOf(w)' = {w}
  BY <1>u, <1>l, <1>n DEF Contents, GroupOf
<1>2. \A i \in 1..Len(waiter[w].batch) : waiter[w].batch[i].by = w
  BY DEF ResultInv, Results, Signed
<1>3. Stretch(waiter[w].batch, w, 0, Len(waiter[w].batch))
  BY <1>t, <1>2 DEF Stretch
<1>4. Gathers(waiter[w].batch, {w}, waiter[w].sync)'
  BY <1>u, <1>2, <1>3 DEF Gathers
<1>5. GroupAt(w)'
  BY <1>u, <1>1, <1>4 DEF GroupAt, Gathers
<1>6. LogAt(w)'
  BY <1>t, <1>u DEF LogAt
<1>7. ASSUME NEW x \in Clients, x # w PROVE GroupAt(x)' /\ LogAt(x)'
  <2>1. pc'[x] \notin InGroup
    BY <1>t, <1>u, <1>l, <1>7, OthersOutside
  <2> QED
    BY <2>1 DEF GroupAt, LogAt, InGroup
<1> QED
  BY <1>5, <1>6, <1>7 DEF Groups

(* One iteration of its loop: the next call of the queue joins.            *)
LEMMA JoinGroup ==
  ASSUME Inv, ResultInv, NEW w \in Clients, GroupJoin(w)
  PROVE  Groups'
<1> DEFINE m == loc[w].n + 1
           x == writers[m]
<1>t. /\ pc \in [Clients -> Stages] /\ loc \in [Clients -> Locals] /\ loc[w] \in Locals
      /\ \A y \in Clients : waiter[y].batch \in Seq(Item) /\ waiter[y].sync \in BOOLEAN
      /\ writers \in Seq(Clients) /\ loc[w].n \in Nat /\ tmp_batch \in Seq(Item)
  BY DEF Inv, ClientsType, Waiters, Locals
<1>u. /\ pc[w] = "group" /\ pc' = pc /\ UNCHANGED <<writers, waiter>>
      /\ loc[w].n < Len(writers) /\ Joins(w, x)
  BY DEF GroupJoin
<1>l. pc[w] \in Leading /\ pc[w] \in InGroup /\ loc[w].n \in 1..Len(writers) /\ writers[1] = w
  BY <1>u DEF Leading, InGroup, Inv, QueueInv, LeaderIsHead, GroupSane
<1>m. m \in 1..Len(writers) /\ x \in Clients /\ 1..m = 1..loc[w].n \cup {m}
  BY <1>t, <1>u, <1>l
<1>x. x \notin GroupOf(w) /\ GroupOf(w) \subseteq Clients
  <2>1. \A j \in 1..loc[w].n : j \in 1..Len(writers) /\ j # m
    BY <1>t, <1>l
  <2>2. \A j \in 1..loc[w].n : writers[j] # x /\ writers[j] \in Clients
    BY <1>t, <1>m, <2>1 DEF Inv, QueueInv, QueueExact
  <2> QED
    BY <2>2 DEF GroupOf
<1>s. waiter[x].sync => waiter[w].sync
  BY <1>u DEF Joins
<1>b. \A i \in 1..Len(waiter[x].batch) : waiter[x].batch[i].by = x
  BY <1>m DEF ResultInv, Results, Signed
<1>c. Contents(w) \in Seq(Item) /\ Gathers(Contents(w), GroupOf(w), waiter[w].sync)
  BY <1>l, ContentsType DEF ResultInv, Groups, GroupAt
<1> HIDE DEF m
<1>1. Contents(w)' = Contents(w) \o waiter[x].batch /\ loc'[w].n = m
  <2>1. CASE IsNull(x)
    <3>1. loc' = [loc EXCEPT ![w].n = m] /\ tmp_batch' = tmp_batch
      BY <2>1 DEF GroupJoin, m
    <3>2. loc'[w].n = m /\ loc'[w].tmp = loc[w].tmp
      BY <1>t, <3>1 DEF Locals
    <3>3. Contents(w)' = Contents(w)
      BY <1>u, <3>1, <3>2 DEF Contents
    <3>4. waiter[x].batch = <<>>
      <4>1. ASSUME NEW i \in 1..Len(waiter[x].batch) PROVE FALSE
        <5>1. waiter[x].batch[i] \in Item
          BY <1>t, <1>m
        <5>2. x \in Writers
          BY <1>b, <5>1 DEF Item
        <5> QED
          BY <2>1, <5>2, ClientsAssumption DEF IsNull
      <4>2. Len(waiter[x].batch) \in Nat /\ waiter[x].batch \in Seq(Item)
        BY <1>t, <1>m
      <4>3. Len(waiter[x].batch) = 0
        BY <4>1, <4>2
      <4> QED
        BY <4>2, <4>3
    <3>5. Contents(w) \o <<>> = Contents(w)
      BY <1>c
    <3> QED
      BY <3>2, <3>3, <3>4, <3>5
  <2>2. CASE ~IsNull(x)
    <3> DEFINE z == loc[w].size + Len(waiter[x].batch)
    <3>1. /\ loc' = [loc EXCEPT ![w].n = m, ![w].tmp = TRUE, ![w].size = z]
          /\ tmp_batch' = (IF loc[w].tmp THEN tmp_batch ELSE tmp_batch \o waiter[w].batch) \o waiter[x].batch
      BY <2>2 DEF GroupJoin, m
    <3> HIDE DEF z
    <3>2. loc'[w].n = m /\ loc'[w].tmp
      BY <1>t, <3>1 DEF Locals
    <3>3. Contents(w)' = tmp_batch'
      BY <3>2 DEF Contents
    <3>4. CASE loc[w].tmp
      BY <3>1, <3>2, <3>3, <3>4 DEF Contents
    <3>5. CASE ~loc[w].tmp
      <4>1. tmp_batch = <<>>
        BY <1>l, <3>5, TmpOfLeader
      <4>2. <<>> \o waiter[w].batch = waiter[w].batch
        BY <1>t
      <4> QED
        BY <3>1, <3>2, <3>3, <3>5, <4>1, <4>2 DEF Contents
    <3> QED
      BY <3>4, <3>5
  <2> QED
    BY <2>1, <2>2
<1>2. GroupOf(w)' = GroupOf(w) \cup {x}
  BY <1>u, <1>m, <1>1 DEF GroupOf
<1>3. Gathers(Contents(w) \o waiter[x].batch, GroupOf(w) \cup {x}, waiter[w].sync)
  <2>1. \A y \in GroupOf(w) \cup {x} : waiter[y].batch \in Seq(Item)
    BY <1>t, <1>m, <1>x
  <2> HIDE DEF x
  <2> QED
    BY <1>b, <1>c, <1>s, <1>x, <2>1, GatherMore
<1>4. GroupAt(w)' /\ LogAt(w)'
  BY <1>u, <1>1, <1>2, <1>3 DEF GroupAt, LogAt, Gathers
<1>5. ASSUME NEW y \in Clients, y # w PROVE GroupAt(y)' /\ LogAt(y)'
  <2>1. pc'[y] \notin InGroup
    BY <1>u, <1>l, <1>5, OthersOutside
  <2> QED
    BY <2>1 DEF GroupAt, LogAt, InGroup
<1> QED
  BY <1>4, <1>5 DEF Groups

(* The log and the memtable: the group stays, and its record is logged     *)
(* before it is synced and synced before it is inserted.                   *)
LEMMA WriteGroup ==
  ASSUME Inv, ResultInv, NEW w \in Clients,
         GroupReady(w) \/ AddRecord(w) \/ SyncLog(w) \/ InsertInto(w)
  PROVE  Groups' /\ durable \subseteq durable' /\ waiter' = waiter
         /\ \A x \in Clients : pc'[x] = pc[x] \/ {pc[x], pc'[x]} \subseteq InGroup
<1>t. pc \in [Clients -> Stages] /\ loc \in [Clients -> Locals] /\ loc[w] \in Locals
  BY DEF Inv, ClientsType
<1>u. /\ pc[w] \in {"group", "log", "sync", "insert"} /\ UNCHANGED <<writers, waiter, tmp_batch>>
      /\ \A x \in Clients : x # w => pc'[x] = pc[x]
      /\ durable \subseteq durable'
  <2>1. CASE GroupReady(w)
    BY <1>t, <2>1 DEF GroupReady, EngineFixed, dataVars
  <2>2. CASE AddRecord(w)
    BY <1>t, <2>2 DEF AddRecord
  <2>3. CASE SyncLog(w)
    BY <1>t, <2>3 DEF SyncLog
  <2>4. CASE InsertInto(w)
    BY <1>t, <2>4 DEF InsertInto
  <2> QED
    BY <2>1, <2>2, <2>3, <2>4
<1>l. pc[w] \in Leading /\ pc[w] \in InGroup /\ GroupAt(w) /\ LogAt(w)
  BY <1>u DEF Leading, InGroup, ResultInv, Groups
<1>1. loc'[w].n = loc[w].n /\ loc'[w].tmp = loc[w].tmp /\ loc'[w].base = loc[w].base
  <2>1. CASE GroupReady(w)
    BY <2>1 DEF GroupReady
  <2>2. CASE AddRecord(w)
    BY <1>t, <2>2 DEF AddRecord, Locals
  <2>3. CASE SyncLog(w)
    BY <1>t, <2>3 DEF SyncLog, Locals
  <2>4. CASE InsertInto(w)
    BY <1>t, <2>4 DEF InsertInto, Locals
  <2> QED
    BY <2>1, <2>2, <2>3, <2>4
<1>2. GroupAt(w)' /\ Record(w)' = Record(w)
  BY <1>u, <1>l, <1>1, GroupKept
<1>3. pc'[w] \in InGroup /\ LogAt(w)'
  <2>1. CASE GroupReady(w)
    BY <1>t, <2>1 DEF GroupReady, LogAt, InGroup
  <2>2. CASE AddRecord(w)
    <3>1. CASE /\ log' = log \cup Record(w)
               /\ pc' = [pc EXCEPT ![w] = IF waiter[w].sync THEN "sync" ELSE "insert"]
      BY <1>t, <1>u, <1>2, <3>1 DEF LogAt, InGroup
    <3>2. CASE loc' = [loc EXCEPT ![w].rc = "err"] /\ pc' = [pc EXCEPT ![w] = "commit"]
      BY <1>t, <3>2 DEF LogAt, InGroup, Locals
    <3> QED
      BY <2>2, <3>1, <3>2 DEF AddRecord
  <2>3. CASE SyncLog(w)
    <3>0. pc[w] = "sync"
      BY <2>3 DEF SyncLog
    <3>1. CASE durable' = durable \cup log /\ pc' = [pc EXCEPT ![w] = "insert"]
      BY <1>t, <1>l, <1>2, <3>0, <3>1 DEF LogAt, InGroup
    <3>2. CASE /\ loc' = [loc EXCEPT ![w].rc = "err", ![w].syncerr = TRUE]
               /\ pc' = [pc EXCEPT ![w] = "commit"]
      BY <1>t, <3>2 DEF LogAt, InGroup, Locals
    <3> QED
      BY <2>3, <3>1, <3>2 DEF SyncLog
  <2>4. CASE InsertInto(w)
    <3>1. pc[w] = "insert" /\ pc'[w] \in {"insert", "commit"} /\ loc'[w].rc = loc[w].rc /\ durable' = durable
      BY <1>t, <2>4 DEF InsertInto, Locals
    <3> QED
      BY <1>u, <1>l, <1>2, <3>1 DEF LogAt, InGroup
  <2> QED
    BY <2>1, <2>2, <2>3, <2>4
<1>4. ASSUME NEW x \in Clients, x # w PROVE GroupAt(x)' /\ LogAt(x)'
  <2>1. pc'[x] \notin InGroup
    BY <1>u, <1>l, <1>4, OthersOutside
  <2> QED
    BY <2>1 DEF GroupAt, LogAt, InGroup
<1> QED
  BY <1>u, <1>l, <1>2, <1>3, <1>4 DEF Groups

(* A step that leaves the queue and the log alone and moves no call into   *)
(* or within its group.                                                    *)
LEMMA GroupsKept ==
  ASSUME Inv, Groups, UNCHANGED <<writers, waiter, loc, tmp_batch, log>>, durable \subseteq durable',
         \A x \in Clients : pc'[x] \in InGroup => pc'[x] = pc[x]
  PROVE  Groups'
<1> SUFFICES ASSUME NEW x \in Clients PROVE GroupAt(x)' /\ LogAt(x)'
  BY DEF Groups
<1>1. CASE pc'[x] \notin InGroup
  BY <1>1 DEF GroupAt, LogAt, InGroup
<1>2. CASE pc'[x] \in InGroup
  <2>1. pc'[x] = pc[x] /\ pc[x] \in InGroup /\ GroupAt(x) /\ LogAt(x)
    BY <1>2 DEF Groups
  <2>2. GroupAt(x)' /\ Record(x)' = Record(x)
    BY <2>1, GroupKept
  <2> QED
    BY <2>1, <2>2 DEF LogAt
<1> QED
  BY <1>1, <1>2

-----------------------------------------------------------------------------
(* Every step.                                                             *)

(* Only the end of a group changes what is visible.                        *)
LEMMA VisibleStep ==
  ASSUME EngineInv, EngineInv', [Next]_vars
  PROVE  Visible' = Visible \/ \E w \in Writers : Commit(w)
<1>i. Inv /\ Inv' /\ DataInv /\ DataInv' /\ PinInv /\ PinInv' /\ StoreInv /\ InsertProgress
  BY DEF EngineInv, StoreInv
<1>w. \A w \in Writers : w \in Clients
  BY DEF Clients
<1> QED
  BY <1>i, <1>w, StepKinds, FixedStore, InsertStore, SwitchStore, ReaderStore, AppliedStore

(* A call that moves on, or is woken, gets no result by that.              *)
LEMMA NobodyFinishes ==
  ASSUME Inv, waiter' = waiter,
         \A x \in Writers : \/ pc'[x] \in {pc[x], Woken(pc)[x]}
                            \/ pc[x] \in Queued /\ pc'[x] \in Leading
                            \/ waiter[x].done /\ pc'[x] = "ret"
  PROVE  \A x \in Writers : Finished(x)' = Finished(x) /\ (pc'[x] = "idle" => pc[x] = "idle")
<1> SUFFICES ASSUME NEW x \in Writers
             PROVE  Finished(x)' = Finished(x) /\ (pc'[x] = "idle" => pc[x] = "idle")
  OBVIOUS
<1>c. x \in Clients
  BY DEF Clients
<1>1. CASE pc'[x] \in {pc[x], Woken(pc)[x]}
  <2>1. (pc'[x] = "ret" <=> pc[x] = "ret") /\ (pc'[x] = "idle" <=> pc[x] = "idle")
    BY <1>c, <1>1 DEF Woken
  <2> QED
    BY <2>1 DEF Finished
<1>2. CASE pc[x] \in Queued /\ pc'[x] \in Leading
  BY <1>2 DEF Finished, Queued, Leading
<1>3. CASE waiter[x].done /\ pc'[x] = "ret"
  BY <1>3 DEF Finished
<1> QED
  BY <1>1, <1>2, <1>3

(* A step of ldb_write, or of the other parts of ldb_compact.              *)
LEMMA CallResult ==
  ASSUME EngineInv, EngineInv', ResultInv, Visible' = Visible, NEW w \in Clients,
         \/ w \in Writers /\ WriterStep(w) /\ ~Commit(w)
         \/ w \in Compactors /\ CompactorStep(w)
  PROVE  ResultInv'
<1>i. Inv /\ Inv' /\ Results /\ Groups
  BY DEF EngineInv, ResultInv
<1>t. pc \in [Clients -> Stages] /\ Writers \subseteq Clients /\ (w \in Compactors => w \notin Writers)
  BY <1>i, ClientsAssumption DEF Inv, ClientsType, Clients
<1>1. CASE Write(w) /\ w \in Writers
  <2>1. PICK b \in Batches, s \in BOOLEAN :
          Enqueue(w, [i \in DOMAIN b |-> [key |-> b[i], by |-> w]], s)
    BY <1>1 DEF Write
  <2>2. b \in Seq(Keys) /\ DOMAIN b = 1..Len(b) /\ Len(b) \in Nat
    BY BatchesAssumption
  <2> DEFINE c == [i \in 1..Len(b) |-> [key |-> b[i], by |-> w]]
  <2>3. c \in Seq(Item) /\ Len(c) = Len(b) /\ \A i \in 1..Len(c) : c[i].by = w
    <3>1. \A i \in 1..Len(b) : [key |-> b[i], by |-> w] \in Item
      BY <1>1, <2>2 DEF Item
    <3>2. c \in [1..Len(b) -> Item]
      BY <3>1
    <3>3. c \in Seq(Item)
      BY <2>2, <3>2
    <3>4. Len(c) = Len(b)
      BY <2>2
    <3> QED
      BY <3>3, <3>4
  <2>4. Enqueue(w, c, s)
    BY <2>1, <2>2
  <2>5. pc[w] = "idle" /\ UNCHANGED <<tmp_batch, log, durable>>
    BY <1>1 DEF Write, EngineFixed, dataVars
  <2> HIDE DEF c
  <2> QED
    BY <1>i, <2>3, <2>4, <2>5, EnqueueResult
<1>2. CASE CompactMemtable(w) /\ w \in Compactors
  <2>1. /\ Enqueue(w, <<>>, FALSE) /\ pc[w] = "memtable" /\ UNCHANGED <<tmp_batch, log, durable>>
        /\ <<>> \in Seq(Item) /\ Len(<<>>) = 0
    <3>1. Enqueue(w, <<>>, FALSE)
      BY <1>2, Zenon DEF CompactMemtable
    <3>2. pc[w] = "memtable" /\ UNCHANGED <<tmp_batch, log, durable>>
      BY <1>2 DEF CompactMemtable, EngineFixed, dataVars
    <3>3. <<>> \in Seq(Item) /\ Len(<<>>) = 0
      OBVIOUS
    <3> QED
      BY <3>1, <3>2, <3>3
  <2>2. \A i \in 1..Len(<<>>) : <<>>[i].by = w
    <3>0. 1..0 = {}
      OBVIOUS
    <3>1. 1..Len(<<>>) = {}
      BY <2>1, <3>0, Zenon
    <3> QED
      BY <3>1, Zenon
  <2> QED
    BY <1>i, <1>t, <1>2, <2>1, <2>2, EnqueueResult
<1>3. CASE Wake(w)
  <2>1. UNCHANGED <<writers, waiter, loc, tmp_batch, log, durable>> /\ pc[w] = "queue"
    BY <1>3 DEF Wake, EngineFixed, dataVars
  <2>2. \/ waiter[w].done /\ pc' = [pc EXCEPT ![w] = AfterWrite(w, waiter[w].status)]
        \/ pc' = [pc EXCEPT ![w] = "room"]
    BY <1>3 DEF Wake
  <2>3. /\ \A x \in Clients : x # w => pc'[x] = pc[x]
        /\ pc'[w] \notin InGroup
        /\ w \in Writers => (waiter[w].done /\ pc'[w] = "ret") \/ pc'[w] = "room"
    BY <1>t, <2>2 DEF AfterWrite, InGroup
  <2>4. "queue" \in Queued /\ "room" \in Leading
    BY DEF Queued, Leading
  <2>5. \A x \in Writers : Finished(x)' = Finished(x) /\ (pc'[x] = "idle" => pc[x] = "idle")
    BY <1>i, <1>t, <2>1, <2>3, <2>4, NobodyFinishes
  <2>6. Results'
    BY <1>i, <2>1, <2>5, ResultsKept
  <2>7. Groups'
    BY <1>i, <2>1, <2>3, GroupsKept
  <2> QED
    BY <2>6, <2>7 DEF ResultInv
<1>4. CASE RoomError(w) \/ SwitchFails(w) \/ (RoomOk(w) /\ IsNull(w))
  <2>1. durable' = durable
    BY <1>4 DEF RoomError, SwitchFails, RoomOk, EngineFixed, dataVars
  <2> QED
    BY <1>i, <1>4, <2>1, RoomEndResult
<1>5. CASE \/ RoomDelay(w) \/ SleepOver(w) \/ RoomWait(w)
           \/ \E err \in BOOLEAN : SwitchMemtable(w, err)
  <2>1. pc[w] \in {"room", "sleep"} /\ waiter' = waiter /\ durable' = durable
    BY <1>5 DEF RoomDelay, SleepOver, RoomWait, SwitchMemtable, MustSwitch, InRoom, EngineFixed, dataVars
  <2>2. /\ \A x \in Clients : x # w => pc'[x] \in {pc[x], Woken(pc)[x]}
        /\ pc'[w] \in InRoomLoop
    <3>1. CASE RoomDelay(w) \/ SleepOver(w) \/ RoomWait(w)
      BY <1>t, <3>1 DEF RoomDelay, SleepOver, RoomWait, InRoomLoop
    <3>2. CASE \E err \in BOOLEAN : SwitchMemtable(w, err)
      <4>1. pc[w] = "room" /\ (pc' = pc \/ pc' = Woken(pc))
        BY <3>2 DEF SwitchMemtable, MustSwitch, InRoom
      <4>2. pc'[w] = "room"
        BY <4>1 DEF Woken
      <4> QED
        BY <4>1, <4>2 DEF InRoomLoop
    <3> QED
      BY <1>5, <3>1, <3>2
  <2>3. pc[w] \in Leading /\ pc[w] \in Queued /\ pc'[w] \in Leading /\ pc'[w] \notin InGroup
    BY <2>1, <2>2, StagesFacts DEF Leading, Queued, InRoomLoop
  <2>4. \A x \in Clients : pc'[x] \notin InGroup
    BY <1>i, <2>2, <2>3, OthersOutside
  <2>5. \A x \in Writers : Finished(x)' = Finished(x) /\ (pc'[x] = "idle" => pc[x] = "idle")
    BY <1>i, <1>t, <2>1, <2>2, <2>3, NobodyFinishes
  <2> QED
    BY <1>i, <2>1, <2>4, <2>5, ResultsKept, NoGroup DEF ResultInv
<1>6. CASE (RoomOk(w) /\ ~IsNull(w)) \/ GroupJoin(w)
  <2>1. /\ pc[w] \in {"room", "group"} /\ waiter' = waiter /\ durable' = durable
        /\ pc' = pc \/ pc' = [pc EXCEPT ![w] = "group"]
    BY <1>6 DEF RoomOk, InRoom, GroupJoin, EngineFixed, dataVars
  <2>2. \A x \in Writers : pc'[x] = pc[x] \/ (pc[x] \in Queued /\ pc'[x] \in Leading)
    BY <1>t, <2>1 DEF Queued, Leading
  <2>3. \A x \in Writers : Finished(x)' = Finished(x) /\ (pc'[x] = "idle" => pc[x] = "idle")
    BY <1>i, <2>1, <2>2, NobodyFinishes
  <2>4. Groups'
    BY <1>i, <1>6, StartGroup, JoinGroup
  <2> QED
    BY <1>i, <2>1, <2>3, <2>4, ResultsKept DEF ResultInv
<1>7. CASE GroupReady(w) \/ AddRecord(w) \/ SyncLog(w) \/ InsertInto(w)
  <2>1. /\ Groups' /\ durable \subseteq durable' /\ waiter' = waiter
        /\ \A x \in Clients : pc'[x] = pc[x] \/ {pc[x], pc'[x]} \subseteq InGroup
    BY <1>i, <1>7, WriteGroup
  <2>2. InGroup \subseteq Queued /\ InGroup \subseteq Leading
    BY DEF InGroup, Queued, Leading
  <2>3. \A x \in Writers : Finished(x)' = Finished(x) /\ (pc'[x] = "idle" => pc[x] = "idle")
    BY <1>i, <1>t, <2>1, <2>2, NobodyFinishes
  <2> QED
    BY <1>i, <2>1, <2>3, ResultsKept DEF ResultInv
<1>8. CASE /\ w \in Compactors
           /\ CompactBegin(w) \/ ImmCheck(w) \/ RangeBegin(w) \/ RangeWait(w) \/ RangeEnd(w)
  <2>1. /\ UNCHANGED <<writers, waiter, loc, tmp_batch, log, durable>>
        /\ \E s \in {"memtable", "immwait", "level", "range", "rangewait", "ret"} :
             pc' = [pc EXCEPT ![w] = s]
    BY <1>8 DEF CompactBegin, ImmCheck, RangeBegin, RangeWait, RangeEnd, dataVars
  <2>2. (\A x \in Clients : x # w => pc'[x] = pc[x]) /\ pc'[w] \notin InGroup
    BY <1>t, <2>1 DEF InGroup
  <2>3. \A x \in Writers : Finished(x)' = Finished(x) /\ (pc'[x] = "idle" => pc[x] = "idle")
    BY <1>i, <1>t, <1>8, <2>1, <2>2, NobodyFinishes
  <2>4. Groups'
    BY <1>i, <2>1, <2>2, GroupsKept
  <2> QED
    BY <1>i, <2>1, <2>3, <2>4, ResultsKept DEF ResultInv
<1> QED
  BY <1>1, <1>2, <1>3, <1>4, <1>5, <1>6, <1>7, <1>8 DEF WriterStep, CompactorStep

(* A step of a reader, of the background thread or of ldb_close.           *)
LEMMA OtherResult ==
  ASSUME EngineInv, ResultInv, Visible' = Visible,
         (\E r \in Readers : ReaderStep(r)) \/ BgStep \/ Close \/ Closed \/ UNCHANGED vars
  PROVE  ResultInv'
<1>i. Inv /\ Results /\ Groups
  BY DEF EngineInv, ResultInv
<1>1. /\ UNCHANGED <<writers, waiter, loc, tmp_batch, log>> /\ durable \subseteq durable'
      /\ pc' = pc \/ pc' = Woken(pc)
  <2>1. CASE \E r \in Readers : ReaderStep(r)
    BY <2>1 DEF ReaderStep, Snapshot, GetBegin, GetLook, GetEnd, clientVars, dataVars
  <2>2. CASE BgStep
    <3> USE DEF BgFixed, RecordError, FlushFails
    <3>1. CASE BgNothing \/ BgFlush \/ BgManual \/ BgAuto \/ BgPrioritize
      BY <3>1 DEF BgNothing, BgFlush, BgManual, BgAuto, BgPrioritize
    <3>2. CASE \E ok \in BOOLEAN : BgBuilt(ok)
      BY <3>2 DEF BgBuilt
    <3>3. CASE \E ok \in BOOLEAN : BgApplied(ok)
      BY <3>3 DEF BgApplied
    <3>4. CASE \E ok \in BOOLEAN : BgCompacted(ok) \/ BgInstalled(ok)
      BY <3>4 DEF BgCompacted, BgInstalled
    <3>5. CASE BgFlushed \/ BgPost \/ BgEnd
      BY <3>5 DEF BgFlushed, BgPost, BgEnd, clientVars, dataVars
    <3> QED
      BY <2>2, <3>1, <3>2, <3>3, <3>4, <3>5 DEF BgStep
  <2>3. CASE Close \/ Closed \/ UNCHANGED vars
    BY <2>3 DEF Close, Closed, vars, clientVars, dataVars
  <2> QED
    BY <2>1, <2>2, <2>3
<1>2. \A x \in Writers : Finished(x)' = Finished(x) /\ (pc'[x] = "idle" => pc[x] = "idle")
  BY <1>i, <1>1, NobodyFinishes
<1>3. \A x \in Clients : pc'[x] \in InGroup => pc'[x] = pc[x]
  BY <1>1 DEF Woken, InGroup
<1> QED
  BY <1>i, <1>1, <1>2, <1>3, ResultsKept, GroupsKept DEF ResultInv

(* Every step keeps the invariant.                                         *)
LEMMA ResultNext ==
  ASSUME EngineInv, EngineInv', ResultInv, [Next]_vars
  PROVE  ResultInv'
<1>1. CASE \E w \in Writers : Commit(w)
  BY <1>1, CommitResult DEF Clients
<1>2. CASE ~\E w \in Writers : Commit(w)
  <2>1. Visible' = Visible
    BY <1>2, VisibleStep
  <2>2. ASSUME NEW w \in Writers, WriterStep(w) PROVE ResultInv'
    BY <1>2, <2>1, <2>2, CallResult DEF Clients
  <2>3. ASSUME NEW w \in Compactors, CompactorStep(w) PROVE ResultInv'
    BY <2>1, <2>3, CallResult DEF Clients
  <2> QED
    BY <2>1, <2>2, <2>3, OtherResult DEF Next
<1> QED
  BY <1>1, <1>2

(* ldb_write tells the truth: a call that returned OK has every update of  *)
(* its batch visible, whoever led its group, and one that returned an      *)
(* error has none of them.                                                 *)
THEOREM ResultsAreHonest == Spec => []ResultsHonest
<1>1. ResultInv => ResultsHonest
  <2> SUFFICES ASSUME ResultInv, NEW w \in Writers, pc[w] = "ret"
               PROVE  Cardinality(OwnBatch(w)) = IF waiter[w].status = "ok" THEN Len(waiter[w].batch) ELSE 0
    BY DEF ResultsHonest
  <2>1. ResultAt(w) /\ Finished(w)
    BY DEF ResultInv, Results, Finished
  <2>2. CASE waiter[w].status = "ok"
    BY <2>1, <2>2 DEF ResultAt
  <2>3. CASE waiter[w].status # "ok"
    <3>1. OwnBatch(w) = {}
      BY <2>1, <2>3 DEF ResultAt
    <3> QED
      BY <2>3, <3>1, FS_EmptySet
  <2> QED
    BY <2>2, <2>3
<1>2. Init => EngineInv /\ ResultInv
  BY EngineInit, ResultInit
<1>3. (EngineInv /\ ResultInv) /\ [Next]_vars => (EngineInv /\ ResultInv)'
  BY EngineNext, ResultNext
<1> QED
  BY <1>1, <1>2, <1>3, PTL DEF Spec

(* A sync write that returned OK survives a crash, also when the call that *)
(* logged and synced it was another's.                                     *)
THEOREM SyncedSurvives == Spec => []SyncedIsDurable
<1>1. ResultInv => SyncedIsDurable
  BY DEF ResultInv, Results, ResultAt, Finished, SyncedIsDurable
<1>2. Init => EngineInv /\ ResultInv
  BY EngineInit, ResultInit
<1>3. (EngineInv /\ ResultInv) /\ [Next]_vars => (EngineInv /\ ResultInv)'
  BY EngineNext, ResultNext
<1> QED
  BY <1>1, <1>2, <1>3, PTL DEF Spec
=============================================================================
