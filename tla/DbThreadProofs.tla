--------------------------- MODULE DbThreadProofs ---------------------------
(***************************************************************************)
(* The threads of DbImpl, for any number of callers and readers: the write *)
(* queue, the background job, and the type invariant.                      *)
(***************************************************************************)
EXTENDS DbImpl, FiniteSetTheorems, WellFoundedInduction, TLAPS

-----------------------------------------------------------------------------
(* The write queue: one leader at a time, and no call that waits at the    *)
(* head of the queue.  OneLeader is not inductive alone: who may become    *)
(* the leader depends on who is in the queue and on which calls a leader   *)
(* has already finished, so QueueInv also says that the queue holds        *)
(* exactly the unfinished calls, each once.                                *)

InRoomLoop == {"room", "sleep", "roomwait"}
InGroup == {"group", "log", "sync", "insert", "commit"}

(* The queue holds the calls that are neither finished nor out of          *)
(* ldb_write, once each.                                                   *)
QueueExact ==
  /\ \A i, j \in 1..Len(writers) : writers[i] = writers[j] => i = j
  /\ \A i \in 1..Len(writers) : pc[writers[i]] \in Queued /\ ~waiter[writers[i]].done
  /\ \A w \in Clients : pc[w] \in Queued /\ ~waiter[w].done =>
       \E i \in 1..Len(writers) : writers[i] = w

(* Its head leads or has been woken; nobody else leads.                    *)
LeaderIsHead ==
  /\ \A w \in Clients : pc[w] \in Leading => Len(writers) > 0 /\ writers[1] = w /\ ~waiter[w].done
  /\ \A w \in Clients : pc[w] = "cvwait" => Len(writers) > 0 /\ writers[1] # w /\ ~waiter[w].done

(* Only a call in ldb_make_room_for_write or ldb_build_batch_group keeps   *)
(* db->mutex from one action to the next.                                  *)
MutexHeld ==
  /\ mutex \in Clients => pc[mutex] \in {"room", "group"}
  /\ \A w \in Clients : pc[w] = "group" => mutex = w

(* The group is a prefix of the queue, and tmp_batch is only in use        *)
(* between ldb_build_batch_group and the end of ldb_write.                 *)
GroupSane ==
  /\ \A w \in Clients : pc[w] \in InGroup => loc[w].n \in 1..Len(writers)
  /\ \A w \in Clients : pc[w] \in InRoomLoop \cup {"cvwait", "queue"} => ~loc[w].tmp
  /\ tmp_batch # <<>> => \E w \in Clients : pc[w] \in Leading /\ loc[w].tmp

QueueInv == QueueExact /\ LeaderIsHead /\ MutexHeld /\ GroupSane

Inv == ClientsType /\ QueueInv

-----------------------------------------------------------------------------
(* The places of a call, in the sets the invariant speaks of.              *)
LEMMA StagesFacts ==
  /\ Leading = InRoomLoop \cup InGroup
  /\ InRoomLoop \cap InGroup = {}
  /\ Leading \cap {"cvwait", "queue"} = {}
  /\ {"idle", "ret", "memtable", "immcheck", "immwait", "level", "range", "rangewait"} \cap Queued = {}
BY DEF Leading, InRoomLoop, InGroup, Queued

(* The broadcast moves waiting calls back to their loops and no call into  *)
(* or out of the queue.                                                    *)
LEMMA WokenFacts ==
  ASSUME NEW f \in [Clients -> Stages]
  PROVE  /\ Woken(f) \in [Clients -> Stages]
         /\ \A w \in Clients : \A S \in {Queued, Leading, InGroup, InRoomLoop, {"cvwait"}, {"queue"}, {"group"}} :
              Woken(f)[w] \in S <=> f[w] \in S
         /\ \A w \in Clients : f[w] \in {"room", "group"} => Woken(f)[w] = f[w]
BY DEF Woken, Stages, Queued, Leading, InGroup, InRoomLoop

(* The invariant holds as the database opens.                              *)
LEMMA InitInv == Init => Inv
<1> SUFFICES ASSUME Init PROVE Inv
  OBVIOUS
<1>1. ClientsType
  BY DEF Init, ClientsType, NewLoc, Stages, Waiters, Locals
<1>2. QueueInv
  BY ClientsAssumption DEF Init, QueueInv, QueueExact, LeaderIsHead, MutexHeld, GroupSane,
     Leading, Queued, InGroup, InRoomLoop, NewLoc, Clients
<1> QED
  BY <1>1, <1>2 DEF Inv

(* No leader, then no batch under construction.                            *)
LEMMA TmpOfLeader ==
  ASSUME Inv, NEW w \in Clients, pc[w] \in Leading, ~loc[w].tmp
  PROVE  tmp_batch = <<>>
BY DEF Inv, QueueInv, GroupSane, LeaderIsHead

-----------------------------------------------------------------------------
(* The start of ldb_write: one more call at the end of the queue.          *)
LEMMA EnqueueInv ==
  ASSUME Inv, NEW w \in Clients, pc[w] \in {"idle", "memtable"},
         NEW b \in Seq(Item), NEW s \in BOOLEAN,
         Enqueue(w, b, s), UNCHANGED <<tmp_batch, last_sequence>>
  PROVE  Inv'
<1> USE DEF Inv, QueueInv
<1>q. writers' = Append(writers, w) /\ writers \in Seq(Clients)
  BY DEF Enqueue, ClientsType
<1>l. /\ Len(writers') = Len(writers) + 1
      /\ writers'[Len(writers) + 1] = w
      /\ \A i \in 1..Len(writers) : writers'[i] = writers[i]
      /\ Len(writers) \in Nat
  BY <1>q
<1>n. \A i \in 1..Len(writers) : writers[i] # w
  BY DEF QueueExact, Queued, Leading
<1>m. mutex = "free" /\ mutex \notin Clients
  BY ClientsAssumption DEF Enqueue, Free
<1>p. /\ pc' = [pc EXCEPT ![w] = IF Len(writers) = 0 THEN "room" ELSE "cvwait"]
      /\ mutex' = IF Len(writers) = 0 THEN w ELSE "free"
  <2>1. MustWait(Append(writers, w), w) <=> Len(writers) # 0
    BY <1>q, <1>l, <1>n DEF MustWait
  <2> QED
    BY <2>1 DEF Enqueue
<1>w. waiter' = [waiter EXCEPT ![w] = [batch |-> b, sync |-> s, done |-> FALSE, status |-> "ok"]]
  BY DEF Enqueue
<1>c. loc' = [loc EXCEPT ![w] = NewLoc(IsNull(w))]
  BY DEF Enqueue
<1>1. ClientsType'
  <2>1. NewLoc(IsNull(w)) \in Locals
    BY DEF NewLoc, Locals, IsNull
  <2>2. [batch |-> b, sync |-> s, done |-> FALSE, status |-> "ok"] \in Waiters
    BY DEF Waiters
  <2>3. pc' \in [Clients -> Stages]
    BY <1>p DEF ClientsType, Stages, Queued, Leading
  <2>4. waiter' \in [Clients -> Waiters] /\ loc' \in [Clients -> Locals]
    BY <1>w, <1>c, <2>1, <2>2 DEF ClientsType
  <2> QED
    BY <1>q, <1>p, <2>3, <2>4 DEF ClientsType
<1>2. QueueExact'
  BY <1>q, <1>l, <1>n, <1>p, <1>w DEF QueueExact, ClientsType, Queued, Leading
<1>3. LeaderIsHead'
  BY <1>q, <1>l, <1>n, <1>p, <1>w DEF LeaderIsHead, ClientsType, Leading
<1>4. MutexHeld'
  BY <1>m, <1>p, ClientsAssumption DEF MutexHeld, ClientsType
<1>5. GroupSane'
  BY <1>l, <1>p, <1>c DEF GroupSane, LeaderIsHead, ClientsType, InGroup, InRoomLoop, Leading, NewLoc
<1> QED
  BY <1>1, <1>2, <1>3, <1>4, <1>5

(* The end of ldb_write: the leader and its group leave the queue.         *)
LEMMA DequeueInv ==
  ASSUME Inv, NEW w \in Clients, pc[w] \in Leading,
         NEW n \in 1..Len(writers), NEW rc \in {"ok", "err"},
         NEW f, f = pc \/ f = Woken(pc), Dequeue(w, n, rc, f),
         tmp_batch' = <<>>, last_sequence' \in Nat
  PROVE  Inv'
<1> DEFINE ready == {writers[i] : i \in 2..n}
<1> USE DEF Inv, QueueInv
<1>s. /\ writers \in Seq(Clients) /\ Len(writers) \in Nat /\ Len(writers) > 0
      /\ writers[1] = w
  BY DEF ClientsType, LeaderIsHead
<1>r. /\ writers' \in Seq(Clients)
      /\ Len(writers') = Len(writers) - n
      /\ \A i \in 1..(Len(writers) - n) : writers'[i] = writers[i + n]
  <2>1. writers' = SubSeq(writers, n + 1, Len(writers))
    BY DEF Dequeue
  <2> QED
    BY <1>s, <2>1
<1>f. /\ f \in [Clients -> Stages]
      /\ \A x \in Clients : /\ f[x] \in Queued <=> pc[x] \in Queued
                            /\ f[x] \in Leading <=> pc[x] \in Leading
                            /\ f[x] = "cvwait" <=> pc[x] = "cvwait"
                            /\ f[x] = "queue" <=> pc[x] = "queue"
  BY WokenFacts DEF ClientsType
<1>o. \A x \in Clients : x # w => pc[x] \notin Leading
  BY <1>s DEF LeaderIsHead
<1>a. AfterWrite(w, rc) \in Stages \ Queued
  BY DEF AfterWrite, Stages, Queued, Leading
<1>p. /\ pc'[w] = AfterWrite(w, rc)
      /\ \A x \in Clients : x # w /\ f[x] = "cvwait" /\ x \in ready => pc'[x] = "queue"
      /\ \A x \in Clients : x # w /\ f[x] # "cvwait" => pc'[x] = f[x]
      /\ \A x \in Clients : x # w /\ f[x] = "cvwait" => pc'[x] \in {"queue", "cvwait"}
      /\ \A x \in Clients : x # w /\ pc'[x] = "cvwait" => writers' = <<>> \/ writers'[1] # x
      /\ pc' \in [Clients -> Stages]
  BY <1>f, <1>a DEF Dequeue, Notified, Stages, Queued
<1>w. /\ \A x \in Clients : x # w /\ x \in ready => waiter'[x].done
      /\ \A x \in Clients : x # w /\ x \notin ready => waiter'[x] = waiter[x]
      /\ waiter' \in [Clients -> Waiters]
  BY DEF Dequeue, ClientsType, Waiters
<1>l. \A x \in Clients : x # w => loc'[x] = loc[x]
  BY DEF Dequeue, ClientsType
<1>n. \A x \in Clients : pc'[x] \notin Leading
  BY <1>a, <1>f, <1>o, <1>p DEF Queued, Leading
<1>i. \A x \in Clients : x # w /\ x \notin ready /\ pc[x] \in Queued /\ ~waiter[x].done =>
        \E i \in 1..(Len(writers) - n) : writers[i + n] = x
  <2> SUFFICES ASSUME NEW x \in Clients, x # w, x \notin ready, pc[x] \in Queued, ~waiter[x].done
               PROVE  \E i \in 1..(Len(writers) - n) : writers[i + n] = x
    OBVIOUS
  <2>1. PICK i \in 1..Len(writers) : writers[i] = x
    BY DEF QueueExact
  <2>2. i > n
    BY <2>1, <1>s
  <2>3. i - n \in 1..(Len(writers) - n) /\ writers[(i - n) + n] = x
    BY <2>1, <2>2, <1>s
  <2> QED
    BY <2>3
<1>t. \A i \in 1..(Len(writers) - n) : /\ writers[i + n] \in Clients
                                       /\ writers[i + n] # w
                                       /\ writers[i + n] \notin ready
  <2> SUFFICES ASSUME NEW i \in 1..(Len(writers) - n)
               PROVE  /\ writers[i + n] \in Clients
                      /\ writers[i + n] # w
                      /\ writers[i + n] \notin ready
    OBVIOUS
  <2>1. i + n \in 2..Len(writers) /\ 1 \in 1..Len(writers)
    BY <1>s
  <2>2. \A j \in 1..Len(writers) : j # i + n => writers[j] # writers[i + n]
    BY <2>1 DEF QueueExact
  <2>3. writers[i + n] \in Clients
    BY <1>s, <2>1
  <2>4. writers[i + n] # w
    BY <1>s, <2>1, <2>2
  <2>5. ASSUME NEW j \in 2..n PROVE writers[j] # writers[i + n]
    <3>1. j \in 1..Len(writers) /\ j # i + n
      BY <2>1
    <3> QED
      BY <2>2, <3>1
  <2> QED
    BY <2>3, <2>4, <2>5
<1>1. ClientsType'
  <2>1. NewLoc(FALSE) \in Locals
    BY DEF NewLoc, Locals
  <2>2. mutex' = "free" /\ loc' = [loc EXCEPT ![w] = NewLoc(FALSE)]
    BY DEF Dequeue
  <2>3. <<>> \in Seq(Item)
    OBVIOUS
  <2> QED
    BY <1>r, <1>p, <1>w, <2>1, <2>2, <2>3 DEF ClientsType
<1>2. QueueExact'
  <2>1. \A i, j \in 1..Len(writers') : writers'[i] = writers'[j] => i = j
    <3> SUFFICES ASSUME NEW i \in 1..Len(writers'), NEW j \in 1..Len(writers'), writers'[i] = writers'[j]
                 PROVE  i = j
      OBVIOUS
    <3>1. /\ i + n \in 1..Len(writers) /\ writers'[i] = writers[i + n] /\ i \in Int
          /\ j + n \in 1..Len(writers) /\ writers'[j] = writers[j + n] /\ j \in Int
      BY <1>s, <1>r
    <3>2. i + n = j + n
      BY <3>1 DEF QueueExact
    <3> QED
      BY <3>1, <3>2
  <2>2. \A i \in 1..Len(writers') : pc'[writers'[i]] \in Queued /\ ~waiter'[writers'[i]].done
    <3> SUFFICES ASSUME NEW i \in 1..Len(writers')
                 PROVE  pc'[writers'[i]] \in Queued /\ ~waiter'[writers'[i]].done
      OBVIOUS
    <3>1. i + n \in 1..Len(writers) /\ writers'[i] = writers[i + n] /\ i \in 1..(Len(writers) - n)
      BY <1>s, <1>r
    <3>2. pc[writers'[i]] \in Queued /\ ~waiter[writers'[i]].done
      BY <3>1 DEF QueueExact
    <3>3. /\ writers'[i] \in Clients /\ writers'[i] # w /\ writers'[i] \notin ready
      BY <3>1, <1>t
    <3>4. waiter'[writers'[i]] = waiter[writers'[i]]
      BY <3>3, <1>w
    <3>5. pc'[writers'[i]] \in Queued
      BY <3>2, <3>3, <1>f, <1>p DEF Queued
    <3> QED
      BY <3>2, <3>4, <3>5
  <2>3. \A x \in Clients : pc'[x] \in Queued /\ ~waiter'[x].done =>
          \E i \in 1..Len(writers') : writers'[i] = x
    <3> SUFFICES ASSUME NEW x \in Clients, pc'[x] \in Queued, ~waiter'[x].done
                 PROVE  \E i \in 1..Len(writers') : writers'[i] = x
      OBVIOUS
    <3>1. x # w /\ x \notin ready
      BY <1>a, <1>p, <1>w
    <3>2. pc[x] \in Queued /\ ~waiter[x].done
      BY <3>1, <1>f, <1>p, <1>w DEF Queued
    <3> QED
      BY <3>1, <3>2, <1>i, <1>r
  <2> QED
    BY <2>1, <2>2, <2>3 DEF QueueExact
<1>3. LeaderIsHead'
  <2> SUFFICES ASSUME NEW x \in Clients, pc'[x] = "cvwait"
               PROVE  Len(writers') > 0 /\ writers'[1] # x /\ ~waiter'[x].done
    BY <1>n DEF LeaderIsHead
  <2>1. x # w /\ f[x] = "cvwait" /\ x \notin ready /\ pc[x] = "cvwait"
    BY <1>a, <1>f, <1>p DEF Queued
  <2>2. ~waiter[x].done /\ ~waiter'[x].done
    BY <2>1, <1>w DEF LeaderIsHead
  <2>3. Len(writers') > 0
    BY <2>1, <2>2, <1>i, <1>r, <1>s DEF Queued
  <2> QED
    BY <2>1, <2>2, <2>3, <1>p, <1>r
<1>4. MutexHeld'
  BY <1>n, ClientsAssumption DEF MutexHeld, Dequeue, Leading
<1>5. GroupSane'
  BY <1>n, <1>l, <1>a, <1>f, <1>p DEF GroupSane, Leading, InGroup, InRoomLoop, Queued
<1> QED
  BY <1>1, <1>2, <1>3, <1>4, <1>5

-----------------------------------------------------------------------------
(* A step of a thread that is not in ldb_write, with or without a          *)
(* broadcast.                                                              *)
LEMMA OtherInv ==
  ASSUME Inv, UNCHANGED <<writers, waiter, loc, tmp_batch, last_sequence>>,
         pc' = pc \/ pc' = Woken(pc),
         mutex' = mutex \/ (mutex \notin Clients /\ mutex' \in {"free", "bg"})
  PROVE  Inv'
<1> USE DEF Inv, QueueInv
<1>f. /\ pc' \in [Clients -> Stages]
      /\ \A x \in Clients : /\ pc'[x] \in Queued <=> pc[x] \in Queued
                            /\ pc'[x] \in Leading <=> pc[x] \in Leading
                            /\ pc'[x] \in InGroup <=> pc[x] \in InGroup
                            /\ pc'[x] \in InRoomLoop <=> pc[x] \in InRoomLoop
                            /\ pc'[x] = "cvwait" <=> pc[x] = "cvwait"
                            /\ pc'[x] = "queue" <=> pc[x] = "queue"
                            /\ pc'[x] = "group" <=> pc[x] = "group"
                            /\ pc[x] \in {"room", "group"} => pc'[x] = pc[x]
  BY WokenFacts DEF ClientsType
<1>1. ClientsType'
  BY <1>f DEF ClientsType
<1>2. QueueExact'
  <2>1. writers \in Seq(Clients)
    BY DEF ClientsType
  <2> QED
    BY <1>f, <2>1 DEF QueueExact
<1>3. LeaderIsHead'
  BY <1>f DEF LeaderIsHead
<1>4. MutexHeld'
  BY <1>f, ClientsAssumption DEF MutexHeld
<1>5. GroupSane'
  BY <1>f DEF GroupSane
<1> QED
  BY <1>1, <1>2, <1>3, <1>4, <1>5

(* A call that is not queued, or that a leader has finished, moves on.     *)
LEMMA OutsideInv ==
  ASSUME Inv, NEW c \in Clients, pc[c] \notin Queued \/ (pc[c] = "queue" /\ waiter[c].done),
         NEW t \in Stages \ Queued, pc' = [pc EXCEPT ![c] = t],
         UNCHANGED <<mutex, writers, waiter, loc, tmp_batch, last_sequence>>
  PROVE  Inv'
<1> USE DEF Inv, QueueInv
<1>w. writers \in Seq(Clients) /\ pc \in [Clients -> Stages]
  BY DEF ClientsType
<1>n. pc[c] \notin Leading /\ t \notin Leading /\ t \notin {"cvwait", "queue", "group"}
  BY DEF Queued, Leading
<1>1. ClientsType'
  BY DEF ClientsType
<1>2. QueueExact'
  BY <1>w DEF QueueExact
<1>3. LeaderIsHead'
  BY <1>w, <1>n DEF LeaderIsHead
<1>4. MutexHeld'
  BY <1>w, <1>n DEF MutexHeld, Leading
<1>5. GroupSane'
  BY <1>w, <1>n, StagesFacts DEF GroupSane
<1> QED
  BY <1>1, <1>2, <1>3, <1>4, <1>5

(* A step of the leader that leaves it the leader.                         *)
LEMMA LeaderInv ==
  ASSUME Inv, NEW w \in Clients, pc[w] \in Leading,
         NEW f, f = pc \/ f = Woken(pc), NEW t \in Leading, pc' = [f EXCEPT ![w] = t],
         NEW l \in Locals, loc' = [loc EXCEPT ![w] = l],
         UNCHANGED <<writers, waiter, last_sequence>>,
         mutex' \in {"free", "bg"} \/ (mutex' = w /\ t \in {"room", "group"}),
         t = "group" => mutex' = w,
         t \in InGroup => l.n \in 1..Len(writers),
         t \in InRoomLoop => ~l.tmp,
         tmp_batch' \in Seq(Item), tmp_batch' # <<>> => l.tmp
  PROVE  Inv'
<1> USE DEF Inv, QueueInv
<1>w. writers \in Seq(Clients) /\ pc \in [Clients -> Stages] /\ loc \in [Clients -> Locals]
  BY DEF ClientsType
<1>f. /\ f \in [Clients -> Stages]
      /\ \A x \in Clients : /\ f[x] \in Queued <=> pc[x] \in Queued
                            /\ f[x] \in Leading <=> pc[x] \in Leading
                            /\ f[x] = "cvwait" <=> pc[x] = "cvwait"
                            /\ f[x] = "queue" <=> pc[x] = "queue"
  BY <1>w, WokenFacts
<1>t. t \in Stages /\ t \in Queued /\ t \notin {"cvwait", "queue"}
  BY DEF Stages, Queued, Leading
<1>o. \A x \in Clients : x # w => f[x] \notin Leading /\ loc'[x] = loc[x] /\ pc'[x] = f[x]
  BY <1>w, <1>f DEF LeaderIsHead
<1>p. pc'[w] = t /\ loc'[w] = l
  BY <1>w, <1>f
<1>1. ClientsType'
  BY <1>f, <1>t DEF ClientsType
<1>2. QueueExact'
  BY <1>w, <1>f, <1>t, <1>o, <1>p DEF QueueExact, Queued
<1>3. LeaderIsHead'
  BY <1>w, <1>f, <1>t, <1>o, <1>p DEF LeaderIsHead
<1>4. MutexHeld'
  BY <1>o, <1>p, ClientsAssumption DEF MutexHeld, Leading
<1>5. GroupSane'
  BY <1>f, <1>t, <1>o, <1>p, StagesFacts DEF GroupSane
<1> QED
  BY <1>1, <1>2, <1>3, <1>4, <1>5

-----------------------------------------------------------------------------
(* The calls of ldb_write, one lemma per stretch of it.                    *)

(* The return from the wait of ldb_write.                                  *)
LEMMA WakeInv ==
  ASSUME Inv, NEW w \in Clients, Wake(w)
  PROVE  Inv'
<1> USE DEF Inv, QueueInv
<1>q. /\ pc[w] = "queue" /\ mutex = "free"
      /\ UNCHANGED <<writers, waiter, loc, tmp_batch, last_sequence>>
      /\ pc \in [Clients -> Stages] /\ writers \in Seq(Clients) /\ waiter \in [Clients -> Waiters]
  BY DEF Wake, Free, EngineFixed, dataVars, ClientsType
<1>1. CASE /\ waiter[w].done /\ mutex' = "free"
           /\ pc' = [pc EXCEPT ![w] = AfterWrite(w, waiter[w].status)]
  <2>1. AfterWrite(w, waiter[w].status) \in Stages \ Queued
    BY DEF AfterWrite, Stages, Queued, Leading
  <2> QED
    BY <1>1, <1>q, <2>1, OutsideInv
<1>2. CASE /\ ~waiter[w].done /\ ~MustWait(writers, w)
           /\ pc' = [pc EXCEPT ![w] = "room"] /\ mutex' = w
  <2>1. \E i \in 1..Len(writers) : writers[i] = w
    BY <1>q, <1>2 DEF QueueExact, Queued
  <2>2. Len(writers) > 0 /\ writers[1] = w
    BY <1>q, <1>2, <2>1 DEF MustWait
  <2>3. \A x \in Clients : pc[x] \notin Leading
    BY <1>q, <2>2, StagesFacts DEF LeaderIsHead
  <2>4. ClientsType'
    BY <1>q, <1>2 DEF ClientsType, Stages, Queued, Leading
  <2>5. QueueExact'
    BY <1>q, <1>2, <2>2 DEF QueueExact, Queued, Leading
  <2>6. LeaderIsHead'
    BY <1>q, <1>2, <2>2, <2>3 DEF LeaderIsHead, Leading
  <2>7. MutexHeld'
    BY <1>q, <1>2, <2>3, ClientsAssumption DEF MutexHeld, Leading
  <2>8. GroupSane'
    BY <1>q, <1>2, <2>3 DEF GroupSane, Leading, InGroup, InRoomLoop
  <2> QED
    BY <2>4, <2>5, <2>6, <2>7, <2>8
<1> QED
  BY <1>1, <1>2 DEF Wake

(* ldb_write called with a batch.                                          *)
LEMMA WriteInv ==
  ASSUME Inv, NEW w \in Writers, Write(w)
  PROVE  Inv'
<1>1. PICK b \in Batches, s \in BOOLEAN :
        Enqueue(w, [i \in DOMAIN b |-> [key |-> b[i], by |-> w]], s)
  BY DEF Write
<1>2. [i \in DOMAIN b |-> [key |-> b[i], by |-> w]] \in Seq(Item)
  <2>1. b \in Seq(Keys)
    BY BatchesAssumption
  <2>2. Len(b) \in Nat /\ DOMAIN b = 1..Len(b) /\ \A i \in 1..Len(b) : b[i] \in Keys
    BY <2>1
  <2>3. \A i \in 1..Len(b) : [key |-> b[i], by |-> w] \in Item
    BY <2>2 DEF Item
  <2>4. [i \in 1..Len(b) |-> [key |-> b[i], by |-> w]] \in [1..Len(b) -> Item]
    BY <2>3
  <2>5. [1..Len(b) -> Item] \subseteq Seq(Item)
    BY <2>2
  <2> QED
    BY <2>2, <2>4, <2>5
<1>3. w \in Clients /\ pc[w] = "idle" /\ UNCHANGED <<tmp_batch, last_sequence>>
  BY DEF Write, Clients, EngineFixed, dataVars
<1> QED
  BY <1>1, <1>2, <1>3, EnqueueInv

(* The branches of ldb_make_room_for_write that end the call.              *)
LEMMA RoomEndInv ==
  ASSUME Inv, NEW w \in Clients,
         RoomError(w) \/ SwitchFails(w) \/ (RoomOk(w) /\ IsNull(w))
  PROVE  Inv'
<1>1. pc[w] = "room" /\ UNCHANGED <<tmp_batch, last_sequence>>
  BY DEF RoomError, SwitchFails, RoomOk, MustSwitch, InRoom, EngineFixed, dataVars
<1>2. \E rc \in {"ok", "err"} : Dequeue(w, 1, rc, pc)
  BY DEF RoomError, SwitchFails, RoomOk
<1>3. pc[w] \in Leading /\ ~loc[w].tmp /\ 1 \in 1..Len(writers) /\ last_sequence \in Nat
  BY <1>1 DEF Inv, QueueInv, GroupSane, LeaderIsHead, Leading, InRoomLoop, ClientsType
<1>4. tmp_batch = <<>>
  BY <1>3, TmpOfLeader
<1> QED
  BY <1>1, <1>2, <1>3, <1>4, DequeueInv

(* The branches that keep it at the head of the queue.                     *)
LEMMA RoomStepInv ==
  ASSUME Inv, NEW w \in Clients,
         \/ RoomDelay(w) \/ SleepOver(w) \/ RoomWait(w) \/ (RoomOk(w) /\ ~IsNull(w))
         \/ \E err \in BOOLEAN : SwitchMemtable(w, err)
  PROVE  Inv'
<1>t. pc[w] \in {"room", "sleep"} /\ UNCHANGED <<writers, waiter, tmp_batch, last_sequence>>
  BY DEF RoomDelay, SleepOver, RoomWait, RoomOk, SwitchMemtable, MustSwitch, InRoom, EngineFixed, dataVars
<1>a. /\ pc[w] \in Leading /\ ~loc[w].tmp /\ Len(writers) > 0 /\ Len(writers) \in Nat
      /\ loc \in [Clients -> Locals] /\ loc[w] \in Locals /\ pc \in [Clients -> Stages]
      /\ tmp_batch = <<>> /\ <<>> \in Seq(Item)
  <2>1. pc[w] \in Leading /\ ~loc[w].tmp
    BY <1>t DEF Inv, QueueInv, GroupSane, Leading, InRoomLoop
  <2> QED
    BY <2>1, TmpOfLeader DEF Inv, QueueInv, LeaderIsHead, ClientsType
<1>m. mutex \in Clients => mutex = w
  BY <1>a DEF Inv, QueueInv, MutexHeld, LeaderIsHead, Leading
<1>1. CASE RoomDelay(w)
  <2>1. PICK l \in Locals : loc' = [loc EXCEPT ![w] = l] /\ ~l.tmp
    <3>1. [loc[w] EXCEPT !.delay = FALSE] \in Locals /\ ~[loc[w] EXCEPT !.delay = FALSE].tmp
      BY <1>a DEF Locals
    <3> QED
      BY <1>1, <3>1 DEF RoomDelay
  <2>2. pc' = [pc EXCEPT ![w] = "sleep"] /\ mutex' = "free"
    BY <1>1 DEF RoomDelay
  <2> QED
    BY <1>t, <1>a, <2>1, <2>2, LeaderInv DEF Leading, InGroup, InRoomLoop
<1>2. CASE SleepOver(w)
  <2>1. loc' = [loc EXCEPT ![w] = loc[w]] /\ pc' = [pc EXCEPT ![w] = "room"] /\ mutex' = mutex
    BY <1>2, <1>a DEF SleepOver
  <2>2. mutex' \in {"free", "bg"} \/ mutex' = w
    BY <2>1, <1>m DEF Inv, ClientsType
  <2> QED
    BY <1>t, <1>a, <2>1, <2>2, LeaderInv DEF Leading, InGroup, InRoomLoop
<1>3. CASE RoomWait(w)
  <2>1. loc' = [loc EXCEPT ![w] = loc[w]] /\ pc' = [pc EXCEPT ![w] = "roomwait"] /\ mutex' = "free"
    BY <1>3, <1>a DEF RoomWait
  <2> QED
    BY <1>t, <1>a, <2>1, LeaderInv DEF Leading, InGroup, InRoomLoop
<1>4. CASE RoomOk(w) /\ ~IsNull(w)
  <2>1. PICK l \in Locals : loc' = [loc EXCEPT ![w] = l] /\ ~l.tmp /\ l.n = 1
    <3> DEFINE l == [loc[w] EXCEPT !.n = 1, !.size = Len(waiter[w].batch), !.base = last_sequence]
    <3>1. Len(waiter[w].batch) \in Nat /\ last_sequence \in Nat
      BY DEF Inv, ClientsType, Waiters
    <3>2. l \in Locals /\ ~l.tmp /\ l.n = 1
      BY <1>a, <3>1 DEF Locals
    <3> QED
      BY <1>4, <3>2 DEF RoomOk
  <2>2. pc' = [pc EXCEPT ![w] = "group"] /\ mutex' = w
    BY <1>4 DEF RoomOk
  <2>3. l.n \in 1..Len(writers)
    BY <1>a, <2>1
  <2>4. "group" \in Leading /\ "group" \in InGroup /\ "group" \notin InRoomLoop
    BY DEF Leading, InGroup, InRoomLoop
  <2>5. UNCHANGED <<writers, waiter, last_sequence>> /\ tmp_batch' = <<>>
    BY <1>t, <1>a
  <2> QED
    BY <1>a, <2>1, <2>2, <2>3, <2>4, <2>5, LeaderInv
<1>5. ASSUME NEW err \in BOOLEAN, SwitchMemtable(w, err) PROVE Inv'
  <2>1. PICK l \in Locals : loc' = [loc EXCEPT ![w] = l] /\ ~l.tmp
    <3>1. NotForced(loc[w]) \in Locals /\ ~NotForced(loc[w]).tmp
      BY <1>a DEF Locals, NotForced
    <3> QED
      BY <1>5, <3>1 DEF SwitchMemtable
  <2>2. PICK f : (f = pc \/ f = Woken(pc)) /\ pc' = [f EXCEPT ![w] = "room"]
    <3>1. pc[w] = "room" /\ (pc' = pc \/ pc' = Woken(pc))
      BY <1>5 DEF SwitchMemtable, MustSwitch, InRoom
    <3>2. Woken(pc) \in [Clients -> Stages] /\ Woken(pc)[w] = "room"
      BY <1>a, <3>1, WokenFacts
    <3>3. pc = [pc EXCEPT ![w] = "room"] /\ Woken(pc) = [Woken(pc) EXCEPT ![w] = "room"]
      BY <1>a, <3>1, <3>2
    <3> QED
      BY <3>1, <3>3
  <2>3. mutex' = w
    BY <1>5 DEF SwitchMemtable
  <2> QED
    BY <1>t, <1>a, <2>1, <2>2, <2>3, LeaderInv DEF Leading, InGroup, InRoomLoop
<1> QED
  BY <1>1, <1>2, <1>3, <1>4, <1>5

(* What the leader logs is a sequence of updates.                          *)
LEMMA ContentsType ==
  ASSUME Inv, NEW w \in Clients
  PROVE  Contents(w) \in Seq(Item) /\ Len(Contents(w)) \in Nat
BY DEF Inv, ClientsType, Waiters, Contents

(* The counters among the leader's locals are numbers.                     *)
LEMMA LocalsNat ==
  ASSUME NEW l \in Locals
  PROVE  l.n \in Nat /\ l.size \in Nat /\ l.pos \in Nat
BY DEF Locals

(* One more call in the group, without a batch of its own.                 *)
LEMMA LocalsNull ==
  ASSUME NEW l \in Locals, NEW n \in Nat
  PROVE  /\ [l EXCEPT !.n = n] \in Locals
         /\ [l EXCEPT !.n = n].n = n
         /\ [l EXCEPT !.n = n].tmp <=> l.tmp
BY DEF Locals

(* One more call in the group, with its batch.                             *)
Grown(l, n, z) == [l EXCEPT !.n = n, !.tmp = TRUE, !.size = z]

(* One more call in the group, with a batch.                               *)
LEMMA LocalsBatch ==
  ASSUME NEW l \in Locals, NEW n \in Nat, NEW z \in Nat
  PROVE  Grown(l, n, z) \in Locals /\ Grown(l, n, z).n = n /\ Grown(l, n, z).tmp
BY DEF Locals, Grown

(* One more entry in the memtable.                                         *)
LEMMA LocalsPos ==
  ASSUME NEW l \in Locals, NEW p \in Nat
  PROVE  /\ [l EXCEPT !.pos = p] \in Locals
         /\ [l EXCEPT !.pos = p].n = l.n
         /\ [l EXCEPT !.pos = p].tmp <=> l.tmp
BY DEF Locals

(* ldb_build_batch_group.                                                  *)
LEMMA GroupInv ==
  ASSUME Inv, NEW w \in Clients, GroupJoin(w) \/ GroupReady(w)
  PROVE  Inv'
<1>t. pc[w] = "group" /\ mutex = w /\ UNCHANGED <<writers, waiter, last_sequence>>
  BY DEF GroupJoin, GroupReady, EngineFixed, dataVars
<1>a. /\ pc[w] \in Leading /\ loc[w].n \in 1..Len(writers) /\ Len(writers) \in Nat
      /\ loc \in [Clients -> Locals] /\ loc[w] \in Locals /\ pc \in [Clients -> Stages]
      /\ tmp_batch \in Seq(Item) /\ writers \in Seq(Clients)
      /\ tmp_batch # <<>> => loc[w].tmp
  BY <1>t, TmpOfLeader DEF Inv, QueueInv, GroupSane, Leading, InGroup, ClientsType
<1>g. /\ "group" \in Leading /\ "group" \in InGroup /\ "group" \notin InRoomLoop
      /\ "log" \in Leading /\ "log" \in InGroup /\ "log" \notin InRoomLoop
  BY DEF Leading, InGroup, InRoomLoop
<1>1. CASE GroupJoin(w)
  <2> DEFINE x == writers[loc[w].n + 1]
  <2>0. loc[w].n < Len(writers)
    BY <1>1 DEF GroupJoin
  <2>1. loc[w].n + 1 \in 1..Len(writers) /\ loc[w].n + 1 \in Nat /\ x \in Clients
    BY <1>a, <2>0
  <2>2. Len(waiter[x].batch) \in Nat /\ waiter[x].batch \in Seq(Item) /\ waiter[w].batch \in Seq(Item)
    BY <2>1 DEF Inv, ClientsType, Waiters
  <2>3. PICK l \in Locals : /\ loc' = [loc EXCEPT ![w] = l] /\ l.n \in 1..Len(writers)
                            /\ tmp_batch' # <<>> => l.tmp
                            /\ tmp_batch' \in Seq(Item)
    <3>1. CASE IsNull(x)
      <4> DEFINE l == [loc[w] EXCEPT !.n = loc[w].n + 1]
      <4>1. l \in Locals /\ l.n = loc[w].n + 1 /\ (l.tmp <=> loc[w].tmp)
        BY <1>a, <2>1, LocalsNull, Zenon
      <4>2. loc' = [loc EXCEPT ![w] = l] /\ tmp_batch' = tmp_batch
        BY <1>1, <3>1 DEF GroupJoin
      <4> HIDE DEF l
      <4> QED
        BY <1>a, <2>1, <4>1, <4>2
    <3>2. CASE ~IsNull(x)
      <4> DEFINE z == loc[w].size + Len(waiter[x].batch)
                 l == Grown(loc[w], loc[w].n + 1, z)
      <4>0. z \in Nat
        <5>1. loc[w].size \in Nat
          BY <1>a, LocalsNat, Zenon
        <5>2. Len(waiter[x].batch) \in Nat
          BY <2>2, Zenon
        <5>3. \A a, b \in Nat : a + b \in Nat
          OBVIOUS
        <5> QED
          BY <5>1, <5>2, <5>3, Zenon
      <4>1. l \in Locals /\ l.n = loc[w].n + 1 /\ l.tmp
        <5> HIDE DEF z
        <5> QED
          BY <1>a, <2>1, <4>0, LocalsBatch, Zenon
      <4>2. /\ loc' = [loc EXCEPT ![w] = l]
            /\ tmp_batch' = (IF loc[w].tmp THEN tmp_batch ELSE tmp_batch \o waiter[w].batch)
                            \o waiter[x].batch
        BY <1>1, <3>2 DEF GroupJoin, Grown
      <4>3. tmp_batch' \in Seq(Item)
        <5>1. tmp_batch \in Seq(Item) /\ tmp_batch \o waiter[w].batch \in Seq(Item)
          BY <1>a, <2>2
        <5>2. (IF loc[w].tmp THEN tmp_batch ELSE tmp_batch \o waiter[w].batch) \in Seq(Item)
          BY <5>1, Zenon
        <5>3. \A s, t \in Seq(Item) : s \o t \in Seq(Item)
          OBVIOUS
        <5> HIDE DEF l
        <5> QED
          BY <2>2, <4>2, <5>2, <5>3, Zenon
      <4> HIDE DEF l
      <4> QED
        BY <2>1, <4>1, <4>2, <4>3
    <3> QED
      BY <3>1, <3>2
  <2>4. pc' = [pc EXCEPT ![w] = "group"] /\ mutex' = w
    BY <1>1, <1>t, <1>a DEF GroupJoin
  <2> QED
    BY <1>t, <1>a, <1>g, <2>3, <2>4, LeaderInv
<1>2. CASE GroupReady(w)
  <2>1. /\ loc' = [loc EXCEPT ![w] = loc[w]] /\ pc' = [pc EXCEPT ![w] = "log"]
        /\ mutex' = "free" /\ tmp_batch' = tmp_batch
    BY <1>2, <1>a DEF GroupReady
  <2>2. /\ mutex' \in {"free", "bg"} \/ (mutex' = w /\ "log" \in {"room", "group"})
        /\ "log" = "group" => mutex' = w
        /\ tmp_batch' \in Seq(Item)
    BY <1>a, <2>1
  <2>3. tmp_batch' # <<>> => loc[w].tmp
    BY <1>a, <2>1, Zenon
  <2> QED
    BY <1>t, <1>a, <1>g, <2>1, <2>2, <2>3, LeaderInv, Zenon
<1> QED
  BY <1>1, <1>2

(* The log, its sync and the memtable, outside the mutex.                  *)
LEMMA LogInv ==
  ASSUME Inv, NEW w \in Clients, AddRecord(w) \/ SyncLog(w) \/ InsertInto(w)
  PROVE  Inv'
<1>t. /\ pc[w] \in {"log", "sync", "insert"}
      /\ UNCHANGED <<mutex, writers, waiter, tmp_batch, last_sequence>>
  BY DEF AddRecord, SyncLog, InsertInto
<1>a. /\ pc[w] \in Leading /\ loc[w].n \in 1..Len(writers)
      /\ loc \in [Clients -> Locals] /\ loc[w] \in Locals /\ pc \in [Clients -> Stages]
      /\ tmp_batch \in Seq(Item)
      /\ tmp_batch # <<>> => loc[w].tmp
  <2>1. pc[w] \in Leading /\ pc[w] \in InGroup
    BY <1>t DEF Leading, InGroup
  <2> QED
    BY <2>1, TmpOfLeader DEF Inv, QueueInv, GroupSane, ClientsType
<1>m. mutex' \in {"free", "bg"}
  BY <1>t, <1>a DEF Inv, QueueInv, ClientsType, MutexHeld, LeaderIsHead, Leading
<1>g. \A t \in {"sync", "insert", "commit"} :
        t \in Leading /\ t \in InGroup /\ t \notin InRoomLoop /\ t # "group"
  BY DEF Leading, InGroup, InRoomLoop
<1>1. PICK l \in Locals, t \in {"sync", "insert", "commit"} :
        /\ loc' = [loc EXCEPT ![w] = l] /\ l.n = loc[w].n /\ (l.tmp <=> loc[w].tmp)
        /\ pc' = [pc EXCEPT ![w] = t]
  <2>1. CASE UNCHANGED loc
    <3>1. loc' = [loc EXCEPT ![w] = loc[w]]
      BY <2>1, <1>a
    <3>2. \E t \in {"sync", "insert", "commit"} : pc' = [pc EXCEPT ![w] = t]
      BY <1>a DEF AddRecord, SyncLog, InsertInto
    <3> QED
      BY <3>1, <3>2, <1>a
  <2>2. CASE loc' = [loc EXCEPT ![w].rc = "err"] /\ pc' = [pc EXCEPT ![w] = "commit"]
    <3> DEFINE l == [loc[w] EXCEPT !.rc = "err"]
    <3>1. l \in Locals /\ l.n = loc[w].n /\ (l.tmp <=> loc[w].tmp)
      BY <1>a DEF Locals
    <3>2. loc' = [loc EXCEPT ![w] = l]
      BY <2>2
    <3> QED
      BY <2>2, <3>1, <3>2
  <2>3. CASE loc' = [loc EXCEPT ![w].rc = "err", ![w].syncerr = TRUE] /\ pc' = [pc EXCEPT ![w] = "commit"]
    <3> DEFINE l == [loc[w] EXCEPT !.rc = "err", !.syncerr = TRUE]
    <3>1. l \in Locals /\ l.n = loc[w].n /\ (l.tmp <=> loc[w].tmp)
      BY <1>a DEF Locals
    <3>2. loc' = [loc EXCEPT ![w] = l]
      BY <2>3
    <3> QED
      BY <2>3, <3>1, <3>2
  <2>4. CASE loc' = [loc EXCEPT ![w].pos = @ + 1] /\ pc' = pc /\ pc[w] = "insert"
    <3> DEFINE l == [loc[w] EXCEPT !.pos = loc[w].pos + 1]
    <3>0. loc[w].pos + 1 \in Nat
      <4>1. loc[w].pos \in Nat
        BY <1>a, LocalsNat, Zenon
      <4> QED
        BY <4>1
    <3>1. l \in Locals /\ l.n = loc[w].n /\ (l.tmp <=> loc[w].tmp)
      BY <1>a, <3>0, LocalsPos, Zenon
    <3>2. loc' = [loc EXCEPT ![w] = l] /\ pc' = [pc EXCEPT ![w] = "insert"]
      BY <2>4, <1>a
    <3> QED
      BY <3>1, <3>2
  <2> QED
    BY <2>1, <2>2, <2>3, <2>4 DEF AddRecord, SyncLog, InsertInto
<1>2. /\ t \in Leading /\ t \in InGroup /\ t \notin InRoomLoop /\ t # "group"
      /\ l.n \in 1..Len(writers)
  BY <1>a, <1>g, <1>1, Zenon
<1>3. tmp_batch' \in Seq(Item)
  BY <1>t, <1>a
<1>4. tmp_batch' # <<>> => l.tmp
  <2>1. tmp_batch' = tmp_batch
    BY <1>t
  <2> QED
    BY <2>1, <1>a, <1>1, Zenon
<1> QED
  BY <1>t, <1>a, <1>m, <1>1, <1>2, <1>3, <1>4, LeaderInv, Zenon

(* The end of a group: results handed out, tmp_batch cleared.              *)
LEMMA CommitInv ==
  ASSUME Inv, NEW w \in Clients, Commit(w)
  PROVE  Inv'
<1>1. /\ pc[w] \in Leading /\ loc[w].n \in 1..Len(writers)
      /\ loc[w].rc \in {"ok", "err"} /\ loc[w].base \in Nat
  BY DEF Commit, Inv, QueueInv, GroupSane, ClientsType, Locals, Leading, InGroup
<1>2. tmp_batch' = <<>>
  BY <1>1, TmpOfLeader DEF Commit
<1>3. last_sequence' \in Nat
  BY <1>1, ContentsType DEF Commit
<1>4. PICK f : (f = pc \/ f = Woken(pc)) /\ Dequeue(w, loc[w].n, loc[w].rc, f)
  BY DEF Commit
<1> QED
  BY <1>1, <1>2, <1>3, <1>4, DequeueInv

-----------------------------------------------------------------------------
(* Everything else leaves the queue alone.                                 *)

(* ldb_compact outside the write queue.                                    *)
LEMMA CompactorInv ==
  ASSUME Inv, NEW c \in Compactors,
         CompactBegin(c) \/ ImmCheck(c) \/ RangeBegin(c) \/ RangeWait(c) \/ RangeEnd(c)
  PROVE  Inv'
<1>1. /\ pc[c] \in {"idle", "immcheck", "level", "range"}
      /\ UNCHANGED <<mutex, writers, waiter, loc, tmp_batch, last_sequence>>
      /\ \E t \in {"memtable", "immwait", "level", "range", "rangewait", "ret"} :
           pc' = [pc EXCEPT ![c] = t]
  BY DEF CompactBegin, ImmCheck, RangeBegin, RangeWait, RangeEnd, dataVars
<1>2. c \in Clients /\ pc[c] \notin Queued
  BY <1>1 DEF Clients, Queued, Leading
<1>3. {"memtable", "immwait", "level", "range", "rangewait", "ret"} \subseteq Stages \ Queued
  BY DEF Stages, Queued, Leading
<1> QED
  BY <1>1, <1>2, <1>3, OutsideInv

(* ldb_write called with the NULL batch.                                   *)
LEMMA CompactMemtableInv ==
  ASSUME Inv, NEW c \in Compactors, CompactMemtable(c)
  PROVE  Inv'
<1>1. c \in Clients /\ pc[c] = "memtable" /\ Enqueue(c, <<>>, FALSE)
      /\ UNCHANGED <<tmp_batch, last_sequence>>
  BY DEF CompactMemtable, Clients, EngineFixed, dataVars
<1>2. <<>> \in Seq(Item) /\ FALSE \in BOOLEAN
  OBVIOUS
<1> QED
  BY <1>1, <1>2, EnqueueInv

(* Reads touch no state of the queue.                                      *)
LEMMA ReaderInv ==
  ASSUME Inv, NEW r \in Readers, ReaderStep(r)
  PROVE  Inv'
<1>1. UNCHANGED <<mutex, writers, waiter, pc, loc, tmp_batch, last_sequence>>
  BY DEF ReaderStep, Snapshot, GetBegin, GetLook, GetEnd, clientVars, dataVars
<1> QED
  BY <1>1, OtherInv

(* The background thread touches it only by broadcasts.                    *)
LEMMA BackgroundInv ==
  ASSUME Inv, BgStep
  PROVE  Inv'
<1>1. /\ UNCHANGED <<writers, waiter, loc, tmp_batch, last_sequence>>
      /\ pc' = pc \/ pc' = Woken(pc)
      /\ mutex \in {"free", "bg"} /\ mutex' \in {"free", "bg"}
  <2> USE DEF BgFixed, RecordError, FlushFails, Free, Holds, BgMayWork
  <2>1. CASE BgNothing \/ BgFlush \/ BgManual \/ BgAuto \/ BgPrioritize
    BY <2>1 DEF BgNothing, BgFlush, BgManual, BgAuto, BgPrioritize
  <2>2. ASSUME NEW ok \in BOOLEAN, BgBuilt(ok) \/ BgApplied(ok) PROVE <1>1!:
    BY <2>2 DEF BgBuilt, BgApplied
  <2>3. ASSUME NEW ok \in BOOLEAN, BgCompacted(ok) \/ BgInstalled(ok) PROVE <1>1!:
    BY <2>3 DEF BgCompacted, BgInstalled
  <2>4. CASE BgFlushed \/ BgPost \/ BgEnd
    BY <2>4 DEF BgFlushed, BgPost, BgEnd, clientVars, dataVars
  <2> QED
    BY <2>1, <2>2, <2>3, <2>4 DEF BgStep
<1> QED
  BY <1>1, OtherInv, ClientsAssumption

(* Every step preserves the invariant.                                     *)
LEMMA NextInv == Inv /\ [Next]_vars => Inv'
<1> SUFFICES ASSUME Inv, [Next]_vars PROVE Inv'
  OBVIOUS
<1>0. \A w \in Writers : w \in Clients /\ ~IsNull(w)
  BY ClientsAssumption DEF Clients, IsNull
<1>1. ASSUME NEW w \in Writers, WriterStep(w) PROVE Inv'
  BY <1>0, <1>1, WriteInv, WakeInv, RoomEndInv, RoomStepInv, GroupInv, LogInv, CommitInv DEF WriterStep
<1>2. ASSUME NEW c \in Compactors, CompactorStep(c) PROVE Inv'
  <2>1. c \in Clients
    BY DEF Clients
  <2> QED
    BY <1>2, <2>1, CompactorInv, CompactMemtableInv, WakeInv, RoomEndInv, RoomStepInv DEF CompactorStep
<1>3. ASSUME NEW r \in Readers, ReaderStep(r) PROVE Inv'
  BY <1>3, ReaderInv
<1>4. CASE BgStep
  BY <1>4, BackgroundInv
<1>5. CASE Close \/ Closed \/ UNCHANGED vars
  <2>1. UNCHANGED <<mutex, writers, waiter, pc, loc, tmp_batch, last_sequence>>
    BY <1>5 DEF Close, Closed, vars, clientVars, dataVars
  <2> QED
    BY <2>1, OtherInv
<1> QED
  BY <1>1, <1>2, <1>3, <1>4, <1>5 DEF Next

-----------------------------------------------------------------------------
(* However many callers there are and however they interleave with the     *)
(* background thread, one call at a time is past the wait in ldb_write,    *)
(* and it is the head of db->writers; db->tmp_batch is empty unless that   *)
(* call is using it.                                                       *)
THEOREM LeaderUnique == Spec => []OneLeader
<1>1. Inv => OneLeader
  BY DEF Inv, QueueInv, LeaderIsHead, GroupSane, OneLeader
<1> QED
  BY InitInv, NextInv, <1>1, PTL DEF Spec

(* No wakeup is lost in the write queue: whoever is at its head is not     *)
(* waiting on its condition variable, so the queue can always move.        *)
THEOREM HeadNeverSleeps == Spec => []HeadAwake
<1>1. Inv => HeadAwake
  <2> SUFFICES ASSUME Inv, writers # <<>> PROVE pc[writers[1]] # "cvwait"
    BY DEF HeadAwake
  <2>1. writers[1] \in Clients
    BY DEF Inv, ClientsType
  <2> QED
    BY <2>1 DEF Inv, QueueInv, LeaderIsHead
<1> QED
  BY InitInv, NextInv, <1>1, PTL DEF Spec

-----------------------------------------------------------------------------
(* The background job: there is at most one, it exists whenever there is   *)
(* work and no error, and the error that stops it is final.                *)

Outside == {"idle", "ret"}
Working == {"build", "apply", "flushed", "compact", "install", "move"}

(* A call of ldb_compact still has a level to go through.                  *)
LevelsLeft == \A c \in Compactors : pc[c] \notin Outside => request[c].levels > 0

(* What the running job took from the version is still there.              *)
InputsThere ==
  /\ bg.pc = "idle" => bg.inputs = 0
  /\ bg.pc \in Working => bg.inputs <= l0 /\ (bg.job = "deep" => hot > 0)

ClosingDown == closer # "open" => shutting_down

BgInv == /\ BgType /\ LevelsLeft /\ InputsThere /\ ClosingDown
         /\ OneBackgroundJob /\ WorkIsScheduled

(* The invariant holds as the database opens.                              *)
LEMMA BgInit == Init => BgInv
<1> SUFFICES ASSUME Init PROVE BgInv
  OBVIOUS
<1>1. BgType
  BY DEF Init, BgType, BgStates, Requests
<1>2. LevelsLeft /\ InputsThere /\ ClosingDown /\ OneBackgroundJob
  BY ClientsAssumption DEF Init, LevelsLeft, InputsThere, ClosingDown, OneBackgroundJob, Outside,
     Working, Clients
<1>3. WorkIsScheduled
  BY NumbersAssumption DEF Init, WorkIsScheduled, NeedsCompaction
<1> QED
  BY <1>1, <1>2, <1>3 DEF BgInv

(* No call that has not begun or has returned is back in ldb_compact.      *)
StaysOutside == \A c \in Compactors : pc[c] \in Outside => pc'[c] \in Outside

(* A broadcast changes the place of no call outside the three waits.       *)
LEMMA WokenOutside ==
  ASSUME NEW f \in [Clients -> Stages], NEW w \in Clients
  PROVE  Woken(f)[w] \in Outside <=> f[w] \in Outside
BY DEF Woken, Outside, Stages

(* A step that touches no background state, except for an error.           *)
LEMMA FrameInv ==
  ASSUME BgInv, StaysOutside, UNCHANGED <<imm, l0, hot, scheduled, jobs, bg, manual, request, shutting_down>>,
         bg_error' \in BOOLEAN, bg_error => bg_error', closer' = closer \/ closer' = WokenCloser
  PROVE  BgInv'
<1> USE DEF BgInv
<1>1. BgType' /\ ClosingDown' /\ OneBackgroundJob'
  BY DEF BgType, ClosingDown, OneBackgroundJob, WokenCloser
<1>2. LevelsLeft'
  BY DEF LevelsLeft, StaysOutside
<1>3. InputsThere'
  BY DEF InputsThere
<1>4. WorkIsScheduled'
  BY DEF WorkIsScheduled, NeedsCompaction
<1> QED
  BY <1>1, <1>2, <1>3, <1>4

-----------------------------------------------------------------------------
(* The calls.                                                              *)

(* A call that moves on, with or without a broadcast, leaves every         *)
(* other call where it is outside those waits.                             *)
LEMMA MoveOutside ==
  ASSUME Inv, NEW w \in Clients, pc[w] \notin Outside \/ w \in Writers,
         NEW f, f = pc \/ f = Woken(pc), NEW t, pc' = [f EXCEPT ![w] = t]
  PROVE  StaysOutside
<1>1. pc \in [Clients -> Stages] /\ f \in [Clients -> Stages] /\ Compactors \subseteq Clients
  <2>1. pc \in [Clients -> Stages]
    BY DEF Inv, ClientsType
  <2>2. Woken(pc) \in [Clients -> Stages]
    BY <2>1, WokenFacts
  <2> QED
    BY <2>1, <2>2 DEF Clients
<1>2. \A c \in Compactors : c # w => pc'[c] = f[c]
  BY <1>1
<1>3. w \in Compactors => pc[w] \notin Outside
  BY ClientsAssumption
<1> QED
  BY <1>1, <1>2, <1>3, WokenOutside DEF StaysOutside

(* The end of ldb_write sends no call into ldb_test_compact_range.         *)
LEMMA DequeueOutside ==
  ASSUME Inv, NEW w \in Clients, pc[w] \in Leading, NEW n, NEW rc,
         NEW f, f = pc \/ f = Woken(pc), Dequeue(w, n, rc, f)
  PROVE  StaysOutside
<1>1. pc \in [Clients -> Stages] /\ Compactors \subseteq Clients /\ pc[w] \notin Outside
  BY DEF Inv, ClientsType, Clients, Outside, Leading
<1>2. \A c \in Clients : c # w /\ f[c] # "cvwait" => pc'[c] = f[c]
  BY DEF Dequeue
<1>3. \A c \in Clients : pc[c] \in Outside => f[c] \in Outside
  BY <1>1, WokenOutside
<1> QED
  BY <1>1, <1>2, <1>3 DEF StaysOutside, Outside

(* The stretches of ldb_write that touch nothing the background job uses.  *)
LEMMA CallFrame ==
  ASSUME Inv, BgInv, NEW w \in Clients,
         \/ w \in Writers /\ Write(w)
         \/ w \in Compactors /\ CompactMemtable(w)
         \/ Wake(w) \/ RoomError(w) \/ RoomDelay(w) \/ SleepOver(w) \/ RoomOk(w) \/ RoomWait(w)
         \/ SwitchFails(w) \/ GroupJoin(w) \/ GroupReady(w)
         \/ AddRecord(w) \/ SyncLog(w) \/ InsertInto(w) \/ Commit(w)
  PROVE  BgInv'
<1>p. pc \in [Clients -> Stages] /\ bg_error \in BOOLEAN
  BY DEF Inv, ClientsType, BgInv, BgType
<1>u. /\ UNCHANGED <<imm, l0, hot, scheduled, jobs, bg, manual, request, shutting_down>>
      /\ bg_error' \in BOOLEAN /\ (bg_error => bg_error')
      /\ closer' = closer \/ closer' = WokenCloser
  <2>1. CASE Commit(w)
    BY <2>1 DEF Commit, RecordBackgroundError, verVars, bgVars
  <2>2. CASE AddRecord(w) \/ SyncLog(w) \/ InsertInto(w)
    BY <2>2, <1>p DEF AddRecord, SyncLog, InsertInto, verVars, bgVars, endVars
  <2>3. CASE EngineFixed
    BY <2>3, <1>p DEF EngineFixed, dataVars, verVars, bgVars, endVars
  <2> QED
    BY <2>1, <2>2, <2>3 DEF Write, CompactMemtable, Wake, RoomError, RoomDelay, SleepOver, RoomOk,
       RoomWait, SwitchFails, GroupJoin, GroupReady
<1>o. StaysOutside
  <2>1. CASE RoomError(w) \/ SwitchFails(w) \/ (RoomOk(w) /\ IsNull(w))
    <3>1. pc[w] = "room" /\ \E rc \in {"ok", "err"} : Dequeue(w, 1, rc, pc)
      BY <2>1 DEF RoomError, SwitchFails, RoomOk, MustSwitch, InRoom
    <3> QED
      BY <3>1, DequeueOutside DEF Leading
  <2>2. CASE Commit(w)
    <3>1. pc[w] = "commit" /\ \E f \in {pc, Woken(pc)} : Dequeue(w, loc[w].n, loc[w].rc, f)
      BY <2>2 DEF Commit
    <3> QED
      BY <3>1, DequeueOutside DEF Leading
  <2>3. CASE (w \in Writers /\ Write(w)) \/ (w \in Compactors /\ CompactMemtable(w))
    <3>1. pc[w] \notin Outside \/ w \in Writers
      BY <2>3 DEF CompactMemtable, Outside
    <3>2. \E t : pc' = [pc EXCEPT ![w] = t]
      BY <2>3 DEF Write, CompactMemtable, Enqueue
    <3> QED
      BY <3>1, <3>2, MoveOutside
  <2>4. CASE \/ Wake(w) \/ RoomDelay(w) \/ SleepOver(w) \/ (RoomOk(w) /\ ~IsNull(w)) \/ RoomWait(w)
             \/ GroupReady(w) \/ AddRecord(w) \/ SyncLog(w)
    <3>1. pc[w] \notin Outside
      BY <2>4 DEF Wake, RoomDelay, SleepOver, RoomOk, RoomWait, GroupReady, AddRecord, SyncLog,
         InRoom, Outside
    <3>2. \E t : pc' = [pc EXCEPT ![w] = t]
      BY <2>4 DEF Wake, RoomDelay, SleepOver, RoomOk, RoomWait, GroupReady, AddRecord, SyncLog
    <3> QED
      BY <3>1, <3>2, MoveOutside
  <2>5. CASE GroupJoin(w)
    BY <2>5 DEF GroupJoin, StaysOutside
  <2>6. CASE InsertInto(w)
    <3>1. pc' = pc \/ pc' = [pc EXCEPT ![w] = "commit"]
      BY <2>6 DEF InsertInto
    <3>2. pc[w] \notin Outside
      BY <2>6 DEF InsertInto, Outside
    <3> QED
      BY <3>1, <3>2, MoveOutside DEF StaysOutside
  <2> QED
    BY <2>1, <2>2, <2>3, <2>4, <2>5, <2>6
<1> QED
  BY <1>u, <1>o, FrameInv

-----------------------------------------------------------------------------
(* ldb_maybe_schedule_compaction, called with the values the step leaves   *)
(* behind, keeps the flag exact and forgets no work.                       *)
LEMMA ScheduleInv ==
  ASSUME BgInv, bg' = bg, shutting_down' = shutting_down, closer' = closer \/ closer' = WokenCloser,
         NEW err \in BOOLEAN, bg_error' <=> err, MaybeSchedule(scheduled, imm', manual', l0', hot', err)
  PROVE  /\ OneBackgroundJob' /\ WorkIsScheduled'
         /\ scheduled' \in BOOLEAN /\ jobs' \in Nat
<1> USE DEF BgInv, BgType, ShouldSchedule
<1>1. scheduled' \in BOOLEAN /\ jobs' \in Nat
  BY DEF MaybeSchedule
<1>2. WorkIsScheduled'
  BY DEF MaybeSchedule, WorkIsScheduled, NeedsCompaction
<1>3. OneBackgroundJob'
  <2>1. CASE ShouldSchedule(scheduled, imm', manual', l0', hot', err)
    <3>1. ~scheduled /\ closer = "open" /\ closer' = "open"
      BY <2>1 DEF ClosingDown, WokenCloser
    <3>2. scheduled' /\ jobs' = jobs + 1
      BY <2>1 DEF MaybeSchedule
    <3>3. jobs = 0 /\ bg.pc = "idle"
      BY <3>1 DEF OneBackgroundJob
    <3> QED
      BY <3>1, <3>2, <3>3 DEF OneBackgroundJob
  <2>2. CASE ~ShouldSchedule(scheduled, imm', manual', l0', hot', err)
    <3>1. scheduled' = scheduled /\ jobs' = jobs
      BY <2>2 DEF MaybeSchedule
    <3> QED
      BY <3>1 DEF OneBackgroundJob, WokenCloser
  <2> QED
    BY <2>1, <2>2
<1> QED
  BY <1>1, <1>2, <1>3

(* A memtable switch hands the old memtable to a background job.           *)
LEMMA SwitchBg ==
  ASSUME Inv, BgInv, NEW w \in Clients, NEW err \in BOOLEAN, SwitchMemtable(w, err)
  PROVE  BgInv'
<1>t. /\ imm' = mem /\ l0' = l0 /\ hot' = hot /\ manual' = manual /\ request' = request
      /\ bg' = bg /\ shutting_down' = shutting_down
      /\ closer' = closer \/ closer' = WokenCloser
      /\ MaybeSchedule(scheduled, mem, manual, l0, hot, err)
      /\ pc' = pc \/ pc' = Woken(pc)
  BY DEF SwitchMemtable, verVars
<1>e. ~bg_error /\ (bg_error' <=> err) /\ bg_error' \in BOOLEAN
  BY DEF SwitchMemtable, MustSwitch, RecordBackgroundError
<1>p. pc \in [Clients -> Stages] /\ Compactors \subseteq Clients
  BY DEF Inv, ClientsType, Clients
<1>1. OneBackgroundJob' /\ WorkIsScheduled' /\ scheduled' \in BOOLEAN /\ jobs' \in Nat
  <2>1. MaybeSchedule(scheduled, imm', manual', l0', hot', err)
    BY <1>t
  <2> QED
    BY <1>t, <1>e, <2>1, ScheduleInv
<1>2. LevelsLeft'
  BY <1>t, <1>p, WokenOutside DEF LevelsLeft, BgInv
<1>3. InputsThere' /\ ClosingDown'
  BY <1>t DEF InputsThere, ClosingDown, WokenCloser, BgInv
<1>4. BgType'
  BY <1>t, <1>e, <1>1 DEF BgType, WokenCloser, BgInv
<1> QED
  BY <1>1, <1>2, <1>3, <1>4 DEF BgInv

(* ldb_compact outside the write queue.                                    *)
LEMMA RangeBg ==
  ASSUME Inv, BgInv, NEW c \in Compactors,
         CompactBegin(c) \/ ImmCheck(c) \/ RangeBegin(c) \/ RangeWait(c) \/ RangeEnd(c)
  PROVE  BgInv'
<1>t. UNCHANGED <<imm, l0, hot, bg, shutting_down, closer, bg_error>>
  BY DEF CompactBegin, ImmCheck, RangeBegin, RangeWait, RangeEnd, dataVars, verVars, endVars
<1>p. /\ pc \in [Clients -> Stages] /\ c \in Clients /\ Compactors \subseteq Clients
      /\ request \in [Compactors -> Requests] /\ request[c] \in Requests
      /\ manual \in Compactors \cup {"none"} /\ bg_error \in BOOLEAN
  BY DEF Inv, ClientsType, Clients, BgInv, BgType
<1>n. request[c].levels \in Nat /\ request[c].chunks \in Nat /\ (pc[c] \notin Outside => request[c].levels > 0)
  BY <1>p DEF Requests, BgInv, LevelsLeft
<1>1. request' \in [Compactors -> Requests] /\ LevelsLeft' /\ manual' \in Compactors \cup {"none"}
  <2>1. CASE CompactBegin(c)
    <3>1. PICK levels \in 1..MaxLevels :
            request' = [request EXCEPT ![c] = [request[c] EXCEPT !.levels = levels, !.floor = last_sequence]]
      BY <2>1 DEF CompactBegin
    <3>2. levels \in Nat /\ levels > 0 /\ last_sequence \in Nat
      BY NumbersAssumption DEF Inv, ClientsType
    <3>3. [request[c] EXCEPT !.levels = levels, !.floor = last_sequence] \in Requests
      BY <1>p, <3>2 DEF Requests
    <3>4. pc' = [pc EXCEPT ![c] = "memtable"] /\ manual' = manual
      BY <2>1 DEF CompactBegin
    <3>5. request'[c].levels = levels
      BY <1>p, <3>1 DEF Requests
    <3>6. \A x \in Compactors : x # c => request'[x] = request[x] /\ pc'[x] = pc[x]
      BY <1>p, <3>1, <3>4
    <3> QED
      BY <1>p, <3>1, <3>2, <3>3, <3>4, <3>5, <3>6 DEF LevelsLeft, BgInv
  <2>2. CASE ImmCheck(c)
    <3> DEFINE q == [request[c] EXCEPT !.flushed = (imm = 0)]
    <3>1. request' = [request EXCEPT ![c] = q]
      BY <2>2 DEF ImmCheck
    <3>2. q \in Requests /\ q.levels = request[c].levels
      BY <1>p DEF Requests
    <3>3. pc[c] \notin Outside /\ manual' = manual /\ \E t : pc' = [pc EXCEPT ![c] = t]
      BY <2>2 DEF ImmCheck, Outside
    <3> HIDE DEF q
    <3> QED
      BY <1>p, <1>n, <3>1, <3>2, <3>3 DEF LevelsLeft, BgInv
  <2>3. CASE RangeBegin(c)
    <3>1. PICK chunks \in 0..MaxChunks :
            request' = [request EXCEPT ![c] = [request[c] EXCEPT !.done = FALSE, !.chunks = chunks]]
      BY <2>3 DEF RangeBegin
    <3> DEFINE q == [request[c] EXCEPT !.done = FALSE, !.chunks = chunks]
    <3>a. chunks \in Nat
      BY NumbersAssumption
    <3>2. q \in Requests /\ q.levels = request[c].levels
      BY <1>p, <3>a DEF Requests
    <3>3. pc[c] \notin Outside /\ manual' = manual /\ \E t : pc' = [pc EXCEPT ![c] = t]
      BY <2>3 DEF RangeBegin, Outside
    <3>4. request' = [request EXCEPT ![c] = q]
      BY <3>1
    <3> HIDE DEF q
    <3> QED
      BY <1>p, <1>n, <3>4, <3>2, <3>3 DEF LevelsLeft, BgInv
  <2>4. CASE RangeWait(c)
    <3>1. request' = request /\ pc[c] \notin Outside /\ \E t : pc' = [pc EXCEPT ![c] = t]
      BY <2>4 DEF RangeWait, Outside
    <3>2. manual' = c \/ manual' = manual
      BY <2>4 DEF RangeWait
    <3> QED
      BY <1>p, <1>n, <3>1, <3>2 DEF LevelsLeft, BgInv
  <2>5. CASE RangeEnd(c)
    <3> DEFINE q == [request[c] EXCEPT !.levels = request[c].levels - 1]
    <3>1. request' = [request EXCEPT ![c] = q]
      BY <2>5 DEF RangeEnd
    <3>2. pc[c] \notin Outside
      BY <2>5 DEF RangeEnd, Outside
    <3>3. q \in Requests /\ q.levels = request[c].levels - 1
      BY <1>p, <1>n, <3>2 DEF Requests
    <3>4. pc' = [pc EXCEPT ![c] = IF request[c].levels > 1 THEN "level" ELSE "ret"]
      BY <2>5 DEF RangeEnd
    <3>5. manual' \in Compactors \cup {"none"}
      BY <2>5, <1>p DEF RangeEnd
    <3> HIDE DEF q
    <3>6. request'[c].levels = request[c].levels - 1
      BY <1>p, <3>1, <3>3
    <3>7. pc'[c] \notin Outside => request'[c].levels > 0
      BY <1>p, <1>n, <3>4, <3>6 DEF Outside
    <3>8. \A x \in Compactors : x # c => request'[x] = request[x] /\ pc'[x] = pc[x]
      BY <1>p, <3>1, <3>4
    <3> QED
      BY <1>p, <3>1, <3>3, <3>5, <3>7, <3>8 DEF LevelsLeft, BgInv
  <2> QED
    BY <2>1, <2>2, <2>3, <2>4, <2>5
<1>2. OneBackgroundJob' /\ WorkIsScheduled' /\ scheduled' \in BOOLEAN /\ jobs' \in Nat
  <2>1. CASE UNCHANGED <<scheduled, jobs>> /\ (manual' = manual \/ manual' = "none")
    BY <2>1, <1>t DEF OneBackgroundJob, WorkIsScheduled, NeedsCompaction, BgInv, BgType
  <2>2. CASE MaybeSchedule(scheduled, imm, c, l0, hot, bg_error) /\ manual' = c
    <3>1. MaybeSchedule(scheduled, imm', manual', l0', hot', bg_error)
      BY <2>2, <1>t
    <3> QED
      BY <3>1, <1>t, <1>p, ScheduleInv
  <2> QED
    BY <2>1, <2>2 DEF CompactBegin, ImmCheck, RangeBegin, RangeWait, RangeEnd
<1>3. InputsThere' /\ ClosingDown'
  BY <1>t DEF InputsThere, ClosingDown, BgInv
<1>4. BgType'
  BY <1>t, <1>1, <1>2 DEF BgType, BgInv
<1> QED
  BY <1>1, <1>2, <1>3, <1>4 DEF BgInv

(* A read may find that a file is worth compacting.                        *)
LEMMA ReaderBg ==
  ASSUME Inv, BgInv, NEW r \in Readers, ReaderStep(r)
  PROVE  BgInv'
<1>1. CASE Snapshot(r) \/ GetBegin(r) \/ GetLook(r)
  <2>1. UNCHANGED <<pc, imm, l0, hot, scheduled, jobs, bg, manual, request, shutting_down, bg_error, closer>>
    BY <1>1 DEF Snapshot, GetBegin, GetLook, clientVars, dataVars, verVars, bgVars, endVars
  <2>2. bg_error \in BOOLEAN /\ StaysOutside
    BY <2>1 DEF BgInv, BgType, StaysOutside
  <2> QED
    BY <2>1, <2>2, FrameInv
<1>2. CASE GetEnd(r)
  <2>t. /\ UNCHANGED <<pc, imm, l0, bg, manual, request, shutting_down, bg_error, closer>>
        /\ bg_error \in BOOLEAN
    BY <1>2 DEF GetEnd, clientVars, endVars, BgInv, BgType
  <2>h. hot' \in Nat /\ hot' >= hot
    BY <1>2 DEF GetEnd, Warmer, BgInv, BgType
  <2>1. OneBackgroundJob' /\ WorkIsScheduled' /\ scheduled' \in BOOLEAN /\ jobs' \in Nat
    <3>1. CASE hot' = hot /\ UNCHANGED <<scheduled, jobs>>
      BY <3>1, <2>t DEF OneBackgroundJob, WorkIsScheduled, NeedsCompaction, BgInv, BgType
    <3>2. CASE MaybeSchedule(scheduled, imm, manual, l0, hot', bg_error)
      <4>1. MaybeSchedule(scheduled, imm', manual', l0', hot', bg_error)
        BY <3>2, <2>t
      <4> QED
        BY <4>1, <2>t, ScheduleInv
    <3> QED
      BY <1>2, <3>1, <3>2 DEF GetEnd
  <2>2. LevelsLeft' /\ InputsThere' /\ ClosingDown'
    BY <2>t, <2>h DEF LevelsLeft, InputsThere, ClosingDown, BgInv, BgType
  <2>3. BgType'
    BY <2>t, <2>h, <2>1 DEF BgType, BgInv
  <2> QED
    BY <2>1, <2>2, <2>3 DEF BgInv
<1> QED
  BY <1>1, <1>2 DEF ReaderStep

-----------------------------------------------------------------------------
(* The background thread.  While it runs, the flag is set: all that a step *)
(* before the last has to keep is the shape of the job.                    *)
LEMMA JobInv ==
  ASSUME Inv, BgInv, scheduled, scheduled' = scheduled,
         jobs' \in Nat, jobs' + (IF bg'.pc = "idle" THEN 0 ELSE 1) = 1,
         l0' \in Nat, hot' \in Nat, bg_error' \in BOOLEAN,
         bg' \in BgStates, InputsThere', manual' \in Compactors \cup {"none"},
         request' \in [Compactors -> Requests],
         \A c \in Compactors : request'[c].levels = request[c].levels,
         shutting_down' = shutting_down,
         pc' = pc \/ pc' = Woken(pc), closer' = closer \/ closer' = WokenCloser
  PROVE  BgInv'
<1>p. pc \in [Clients -> Stages] /\ Compactors \subseteq Clients
  BY DEF Inv, ClientsType, Clients
<1>1. LevelsLeft'
  BY <1>p, WokenOutside DEF LevelsLeft, BgInv
<1>2. ClosingDown' /\ BgType'
  BY DEF ClosingDown, BgType, WokenCloser, BgInv
<1>3. OneBackgroundJob'
  BY DEF OneBackgroundJob, WokenCloser, BgInv
<1>4. WorkIsScheduled'
  BY DEF WorkIsScheduled
<1> QED
  BY <1>1, <1>2, <1>3, <1>4 DEF BgInv

(* The pool starts the job.                                                *)
LEMMA StartBg ==
  ASSUME Inv, BgInv, BgNothing \/ BgFlush \/ BgManual \/ BgAuto
  PROVE  BgInv'
<1>i. bg.pc = "idle" /\ jobs > 0
  BY DEF BgNothing, BgFlush, BgManual, BgAuto, BgMayWork
<1>s. scheduled /\ jobs = 1 /\ bg.inputs = 0 /\ bg \in BgStates
  BY <1>i DEF BgInv, BgType, OneBackgroundJob, InputsThere
<1>t. /\ UNCHANGED <<pc, l0, hot, bg_error, scheduled, manual, shutting_down, closer>>
      /\ jobs' = jobs - 1
  BY DEF BgNothing, BgFlush, BgManual, BgAuto, BgFixed, verVars
<1>r. /\ request' \in [Compactors -> Requests]
      /\ \A c \in Compactors : request'[c].levels = request[c].levels
  <2>1. CASE UNCHANGED request
    BY <2>1 DEF BgInv, BgType
  <2>2. CASE BgManual
    <3>1. manual \in Compactors /\ request \in [Compactors -> Requests] /\ request[manual] \in Requests
      BY <2>2 DEF BgManual, BgInv, BgType
    <3>2. request[manual].chunks \in Nat
      BY <3>1 DEF Requests
    <3>3. CASE request[manual].chunks = 0
      <4> DEFINE q == [request[manual] EXCEPT !.done = TRUE]
      <4>1. q \in Requests /\ q.levels = request[manual].levels
        BY <3>1 DEF Requests
      <4>2. request' = [request EXCEPT ![manual] = q]
        BY <2>2, <3>3 DEF BgManual
      <4> HIDE DEF q
      <4> QED
        BY <3>1, <4>1, <4>2
    <3>4. CASE request[manual].chunks # 0
      <4> DEFINE q == [request[manual] EXCEPT !.chunks = request[manual].chunks - 1]
      <4>1. q \in Requests /\ q.levels = request[manual].levels
        BY <3>1, <3>2, <3>4 DEF Requests
      <4>2. request' = [request EXCEPT ![manual] = q]
        BY <2>2, <3>4 DEF BgManual
      <4> HIDE DEF q
      <4> QED
        BY <3>1, <4>1, <4>2
    <3> QED
      BY <3>3, <3>4
  <2> QED
    BY <2>1, <2>2 DEF BgNothing, BgFlush, BgAuto
<1>b. bg' \in BgStates /\ bg'.pc # "idle" /\ InputsThere'
  <2>n. l0 \in Nat /\ hot \in Nat
    BY DEF BgInv, BgType
  <2>1. CASE BgNothing
    BY <2>1, <1>s DEF BgNothing, BgStates, InputsThere, Working
  <2>2. CASE BgFlush
    <3>1. bg' = [bg EXCEPT !.pc = "build", !.job = "flush"]
      BY <2>2 DEF BgFlush
    <3>2. bg' \in BgStates /\ bg'.pc = "build" /\ bg'.job = "flush" /\ bg'.inputs = 0
      BY <3>1, <1>s DEF BgStates
    <3> QED
      BY <3>2, <1>t, <2>n DEF InputsThere, Working
  <2>3. CASE BgManual
    <3>1. CASE bg' = [bg EXCEPT !.pc = "post", !.job = "manual", !.rc = "ok"]
      BY <3>1, <1>s DEF BgStates, InputsThere, Working
    <3>2. ASSUME NEW k \in 0..l0, bg' = [pc |-> "compact", job |-> "manual", inputs |-> k, rc |-> "ok"]
          PROVE  <1>b!:
      BY <3>2, <1>t, <2>n DEF BgStates, InputsThere, Working
    <3> QED
      BY <2>3, <3>1, <3>2 DEF BgManual
  <2>4. CASE BgAuto
    <3>1. ASSUME NEW next \in {"compact", "move"}, NEW k \in 1..l0,
                 bg' = [pc |-> next, job |-> "l0", inputs |-> k, rc |-> "ok"]
          PROVE  <1>b!:
      BY <3>1, <1>t, <2>n DEF BgStates, InputsThere, Working
    <3>2. ASSUME NEW next \in {"compact", "move"}, hot > 0,
                 bg' = [pc |-> next, job |-> "deep", inputs |-> 0, rc |-> "ok"]
          PROVE  <1>b!:
      BY <3>2, <1>t, <2>n DEF BgStates, InputsThere, Working
    <3> QED
      BY <2>4, <3>1, <3>2 DEF BgAuto
  <2> QED
    BY <2>1, <2>2, <2>3, <2>4
<1>j. jobs' \in Nat /\ jobs' + (IF bg'.pc = "idle" THEN 0 ELSE 1) = 1
  BY <1>s, <1>t, <1>b
<1>y. l0' \in Nat /\ hot' \in Nat /\ bg_error' \in BOOLEAN /\ manual' \in Compactors \cup {"none"}
  BY <1>t DEF BgInv, BgType
<1> QED
  BY <1>s, <1>t, <1>r, <1>b, <1>j, <1>y, JobInv

(* The job works: flushes, compacts, installs.                             *)
LEMMA WorkBg ==
  ASSUME Inv, BgInv, NEW ok \in BOOLEAN,
         \/ BgPrioritize \/ BgBuilt(ok) \/ BgApplied(ok) \/ BgFlushed \/ BgCompacted(ok) \/ BgInstalled(ok)
  PROVE  BgInv'
<1>i. bg.pc \in Working
  BY DEF BgPrioritize, BgBuilt, BgApplied, BgFlushed, BgCompacted, BgInstalled, Working
<1>s. /\ scheduled /\ jobs = 0 /\ bg \in BgStates /\ bg_error \in BOOLEAN
      /\ bg.inputs <= l0 /\ bg.inputs \in Nat /\ l0 \in Nat /\ hot \in Nat
      /\ bg.job = "deep" => hot > 0
  BY <1>i DEF BgInv, BgType, BgStates, OneBackgroundJob, InputsThere, Working
<1>t. UNCHANGED <<scheduled, jobs, manual, request, shutting_down>>
  BY DEF BgPrioritize, BgBuilt, BgApplied, BgFlushed, BgCompacted, BgInstalled, BgFixed
<1>e. /\ pc' = pc \/ pc' = Woken(pc)
      /\ closer' = closer \/ closer' = WokenCloser
      /\ bg_error' \in BOOLEAN
  <2>1. CASE UNCHANGED <<pc, bg_error, closer>>
    BY <2>1, <1>s
  <2>2. CASE \E err \in BOOLEAN, wake \in BOOLEAN : RecordError(err, wake)
    BY <2>2 DEF RecordError, RecordBackgroundError
  <2>3. \A err : err \in BOOLEAN => (bg.job # err) \in BOOLEAN
    OBVIOUS
  <2> QED
    BY <2>1, <2>2 DEF BgPrioritize, BgBuilt, BgApplied, BgFlushed, BgCompacted, BgInstalled, FlushFails
<1>b. bg' \in BgStates /\ bg'.pc # "idle" /\ InputsThere' /\ l0' \in Nat /\ hot' \in Nat
  <2>1. CASE /\ UNCHANGED <<l0, hot>>
             /\ \E p \in {"build", "apply", "flushed", "compact", "install", "end"} : bg' = [bg EXCEPT !.pc = p]
    BY <2>1, <1>s DEF BgStates, InputsThere, Working
  <2>2. CASE UNCHANGED <<l0, hot>> /\ bg' = [bg EXCEPT !.pc = "post", !.rc = "err"]
    BY <2>2, <1>s DEF BgStates, InputsThere, Working
  <2>3. CASE l0' \in {l0, l0 + 1} /\ hot' \in Warmer(hot) /\ bg' = [bg EXCEPT !.pc = "flushed"]
    BY <2>3, <1>s DEF BgStates, InputsThere, Working, Warmer
  <2>4. CASE BgInstalled(ok)
    <3>1. \E rc \in {"ok", "err"} : bg' = [bg EXCEPT !.pc = "post", !.rc = rc]
      BY <2>4 DEF BgInstalled
    <3>2. bg' \in BgStates /\ bg'.pc = "post"
      BY <3>1, <1>s DEF BgStates
    <3>3. l0' \in Nat /\ hot' \in Nat
      BY <2>4, <1>s DEF BgInstalled, verVars, Warmer
    <3> QED
      BY <3>2, <3>3 DEF InputsThere, Working
  <2>5. CASE BgApplied(ok)
    BY <2>5, <2>1, <2>3 DEF BgApplied, FlushFails, verVars
  <2>6. CASE BgCompacted(ok)
    BY <2>6, <2>1, <2>2 DEF BgCompacted, verVars
  <2>7. CASE BgPrioritize \/ BgBuilt(ok) \/ BgFlushed
    BY <2>7, <2>1 DEF BgPrioritize, BgBuilt, BgFlushed, FlushFails, verVars
  <2> QED
    BY <2>4, <2>5, <2>6, <2>7
<1>j. jobs' \in Nat /\ jobs' + (IF bg'.pc = "idle" THEN 0 ELSE 1) = 1
  BY <1>s, <1>t, <1>b
<1>y. /\ manual' \in Compactors \cup {"none"} /\ request' \in [Compactors -> Requests]
      /\ \A c \in Compactors : request'[c].levels = request[c].levels
  BY <1>t DEF BgInv, BgType
<1> QED
  BY <1>s, <1>t, <1>e, <1>b, <1>j, <1>y, JobInv

(* It reports to the manual request, if that is what it ran for.           *)
LEMMA PostBg ==
  ASSUME Inv, BgInv, BgPost
  PROVE  BgInv'
<1>s. /\ scheduled /\ jobs = 0 /\ bg \in BgStates /\ bg_error \in BOOLEAN /\ l0 \in Nat /\ hot \in Nat
      /\ manual \in Compactors \cup {"none"} /\ request \in [Compactors -> Requests]
  BY DEF BgPost, BgInv, BgType, OneBackgroundJob
<1>t. UNCHANGED <<pc, l0, hot, bg_error, scheduled, jobs, shutting_down, closer>>
  BY DEF BgPost, clientVars, verVars
<1>b. bg' \in BgStates /\ bg'.pc # "idle" /\ InputsThere'
  <2>1. \E p \in {"end", "crashed"} : bg' = [bg EXCEPT !.pc = p]
    BY DEF BgPost
  <2> QED
    BY <2>1, <1>s DEF BgStates, InputsThere, Working
<1>r. /\ manual' \in Compactors \cup {"none"} /\ request' \in [Compactors -> Requests]
      /\ \A c \in Compactors : request'[c].levels = request[c].levels
  <2>1. CASE UNCHANGED <<manual, request>>
    BY <2>1, <1>s
  <2>2. CASE manual # "none" /\ manual' = "none"
             /\ request' = [request EXCEPT ![manual].done = @ \/ bg.rc = "err"]
    <3>1. manual \in Compactors /\ request[manual] \in Requests
      BY <2>2, <1>s
    <3> DEFINE q == [request[manual] EXCEPT !.done = request[manual].done \/ bg.rc = "err"]
    <3>2. q \in Requests /\ q.levels = request[manual].levels
      BY <3>1 DEF Requests
    <3>3. request' = [request EXCEPT ![manual] = q]
      BY <2>2
    <3> HIDE DEF q
    <3> QED
      BY <1>s, <2>2, <3>1, <3>2, <3>3
  <2> QED
    BY <2>1, <2>2 DEF BgPost
<1>j. jobs' \in Nat /\ jobs' + (IF bg'.pc = "idle" THEN 0 ELSE 1) = 1
  BY <1>s, <1>t, <1>b
<1>y. l0' \in Nat /\ hot' \in Nat /\ bg_error' \in BOOLEAN
  BY <1>s, <1>t
<1> QED
  BY <1>s, <1>t, <1>b, <1>r, <1>j, <1>y, JobInv

(* It ends, and ldb_maybe_schedule_compaction starts the next if needed.   *)
LEMMA EndBg ==
  ASSUME Inv, BgInv, BgEnd
  PROVE  BgInv'
<1>s. /\ scheduled /\ jobs = 0 /\ closer # "closed" /\ bg \in BgStates /\ bg_error \in BOOLEAN
  BY DEF BgEnd, BgInv, BgType, OneBackgroundJob
<1>t. /\ UNCHANGED <<imm, l0, hot, manual, request, shutting_down>>
      /\ pc' = Woken(pc) /\ closer' = WokenCloser
      /\ bg_error' \in BOOLEAN /\ (bg_error' <=> bg_error)
      /\ bg' \in BgStates /\ bg'.pc = "idle" /\ bg'.inputs = 0
      /\ MaybeSchedule(FALSE, imm, manual, l0, hot, bg_error)
  BY <1>s DEF BgEnd, RecordError, RecordBackgroundError, BgFixed, verVars, BgStates
<1>p. pc \in [Clients -> Stages] /\ Compactors \subseteq Clients
  BY DEF Inv, ClientsType, Clients
<1> DEFINE go == ShouldSchedule(FALSE, imm, manual, l0, hot, bg_error)
<1>1. scheduled' \in BOOLEAN /\ (scheduled' <=> go) /\ jobs' = (IF go THEN 1 ELSE 0)
  <2>0. go \in BOOLEAN
    BY DEF ShouldSchedule
  <2>1. scheduled' = (FALSE \/ go) /\ jobs' = IF go THEN jobs + 1 ELSE jobs
    BY <1>t DEF MaybeSchedule
  <2> HIDE DEF go
  <2>2. jobs' = IF go THEN 1 ELSE 0
    BY <2>1, <1>s
  <2>3. scheduled' \in BOOLEAN /\ (scheduled' <=> go)
    BY <2>0, <2>1, Zenon
  <2> QED
    BY <2>2, <2>3
<1>2. closer' # "closed"
  BY <1>t, <1>s DEF WokenCloser
<1>3. OneBackgroundJob'
  <2> HIDE DEF go
  <2>1. jobs' = IF scheduled' THEN 1 ELSE 0
    BY <1>1
  <2> QED
    BY <1>t, <2>1, <1>2 DEF OneBackgroundJob
<1>4. WorkIsScheduled'
  BY <1>t, <1>1 DEF WorkIsScheduled, ShouldSchedule, NeedsCompaction
<1>5. LevelsLeft'
  BY <1>t, <1>p, WokenOutside DEF LevelsLeft, BgInv
<1>6. InputsThere' /\ ClosingDown'
  BY <1>t DEF InputsThere, ClosingDown, WokenCloser, Working, BgInv
<1>7. BgType'
  BY <1>t, <1>1 DEF BgType, WokenCloser, BgInv
<1> QED
  BY <1>3, <1>4, <1>5, <1>6, <1>7 DEF BgInv

(* ldb_close stops further jobs and waits for the one there is.            *)
LEMMA CloseBg ==
  ASSUME Inv, BgInv, Close
  PROVE  BgInv'
<1>t. /\ UNCHANGED <<pc, imm, l0, hot, bg_error, scheduled, jobs, bg, manual, request>>
      /\ shutting_down' = TRUE /\ closer' = IF scheduled THEN "wait" ELSE "closed"
  BY DEF Close, clientVars, dataVars, verVars, bgVars
<1>1. OneBackgroundJob' /\ WorkIsScheduled' /\ ClosingDown' /\ LevelsLeft' /\ InputsThere'
  BY <1>t DEF BgInv, OneBackgroundJob, WorkIsScheduled, ClosingDown, LevelsLeft, InputsThere
<1>2. BgType'
  BY <1>t DEF BgInv, BgType
<1> QED
  BY <1>1, <1>2 DEF BgInv

(* Every step preserves the invariant.                                     *)
LEMMA BgNext == Inv /\ BgInv /\ [Next]_vars => BgInv'
<1> SUFFICES ASSUME Inv, BgInv, [Next]_vars PROVE BgInv'
  OBVIOUS
<1>1. ASSUME NEW w \in Writers, WriterStep(w) PROVE BgInv'
  <2>1. w \in Clients
    BY DEF Clients
  <2> QED
    BY <1>1, <2>1, CallFrame, SwitchBg DEF WriterStep
<1>2. ASSUME NEW c \in Compactors, CompactorStep(c) PROVE BgInv'
  <2>1. c \in Clients
    BY DEF Clients
  <2> QED
    BY <1>2, <2>1, CallFrame, SwitchBg, RangeBg DEF CompactorStep
<1>3. ASSUME NEW r \in Readers, ReaderStep(r) PROVE BgInv'
  BY <1>3, ReaderBg
<1>4. CASE BgStep
  BY <1>4, StartBg, WorkBg, PostBg, EndBg DEF BgStep
<1>5. CASE Close
  BY <1>5, CloseBg
<1>6. CASE Closed \/ UNCHANGED vars
  <2>1. UNCHANGED <<pc, imm, l0, hot, scheduled, jobs, bg, manual, request, shutting_down, bg_error, closer>>
    BY <1>6 DEF Closed, vars, clientVars, dataVars, verVars, bgVars, endVars
  <2>2. bg_error \in BOOLEAN /\ StaysOutside
    BY <2>1 DEF BgInv, BgType, StaysOutside
  <2> QED
    BY <2>1, <2>2, FrameInv
<1> QED
  BY <1>1, <1>2, <1>3, <1>4, <1>5, <1>6 DEF Next

-----------------------------------------------------------------------------
(* For any number of callers: at most one background job is queued or      *)
(* running and background_compaction_scheduled says so, which              *)
(* ldb_background_call asserts and the unlocked parts of a compaction rely *)
(* on; ldb_close returns only when there is none.                          *)
THEOREM SingleBackgroundJob == Spec => []OneBackgroundJob
<1>1. BgInv => OneBackgroundJob
  BY DEF BgInv
<1> QED
  BY InitInv, NextInv, BgInit, BgNext, <1>1, PTL DEF Spec

(* Every step that creates work calls ldb_maybe_schedule_compaction: an    *)
(* immutable memtable, a manual request or a version that needs compaction *)
(* is never left without a job, unless an error or ldb_close stopped it.   *)
THEOREM NoWorkForgotten == Spec => []WorkIsScheduled
<1>1. BgInv => WorkIsScheduled
  BY DEF BgInv
<1> QED
  BY InitInv, NextInv, BgInit, BgNext, <1>1, PTL DEF Spec

(* Who enters ldb_build_batch_group does so in RoomOk.                     *)
LEMMA GroupEntry ==
  ASSUME Inv, NEW w \in Clients,
         \/ pc' \in {pc, Woken(pc)}
         \/ \E t : t # "group" /\ pc' = [pc EXCEPT ![w] = t]
         \/ \E n, rc : \E f \in {pc, Woken(pc)} : Dequeue(w, n, rc, f)
  PROVE  \A x \in Clients : pc'[x] = "group" => pc[x] = "group"
<1>1. pc \in [Clients -> Stages] /\ \A x \in Clients : Woken(pc)[x] = "group" => pc[x] = "group"
  <2>1. pc \in [Clients -> Stages]
    BY DEF Inv, ClientsType
  <2> QED
    BY <2>1 DEF Woken
<1>2. ASSUME NEW n, NEW rc, NEW f \in {pc, Woken(pc)}, Dequeue(w, n, rc, f)
      PROVE  \A x \in Clients : pc'[x] = "group" => f[x] = "group"
  BY <1>2 DEF Dequeue, AfterWrite
<1>3. ASSUME NEW t, t # "group", pc' = [pc EXCEPT ![w] = t]
      PROVE  \A x \in Clients : pc'[x] = "group" => pc[x] = "group"
  BY <1>1, <1>3
<1> QED
  BY <1>1, <1>2, <1>3

(* With an error set, no step takes a call into its group.                 *)
LEMMA NoEntryOnError ==
  ASSUME Inv, Next, bg_error
  PROVE  \A x \in Clients : pc'[x] = "group" => pc[x] = "group"
<1>1. ASSUME NEW w \in Clients, WriterStep(w) PROVE \A x \in Clients : pc'[x] = "group" => pc[x] = "group"
  <2>1. CASE \/ Write(w) \/ Wake(w) \/ RoomDelay(w) \/ SleepOver(w) \/ RoomWait(w) \/ GroupReady(w)
             \/ AddRecord(w) \/ SyncLog(w)
    <3>1. \E t : t # "group" /\ pc' = [pc EXCEPT ![w] = t]
      BY <2>1 DEF Write, Enqueue, Wake, AfterWrite, RoomDelay, SleepOver, RoomWait, GroupReady,
         AddRecord, SyncLog
    <3> QED
      BY <3>1, GroupEntry
  <2>2. CASE GroupJoin(w) \/ InsertInto(w)
    <3>1. pc' = pc \/ pc' = [pc EXCEPT ![w] = "commit"]
      BY <2>2 DEF GroupJoin, InsertInto
    <3> QED
      BY <3>1, GroupEntry
  <2>3. CASE RoomError(w) \/ SwitchFails(w) \/ Commit(w)
    <3>1. \E n, rc : \E f \in {pc, Woken(pc)} : Dequeue(w, n, rc, f)
      BY <2>3 DEF RoomError, SwitchFails, Commit
    <3> QED
      BY <3>1, GroupEntry
  <2>4. ~RoomOk(w) /\ \A err \in BOOLEAN : ~SwitchMemtable(w, err)
    BY DEF RoomOk, SwitchMemtable, MustSwitch
  <2> QED
    BY <1>1, <2>1, <2>2, <2>3, <2>4 DEF WriterStep
<1>2. ASSUME NEW c \in Compactors, CompactorStep(c) PROVE \A x \in Clients : pc'[x] = "group" => pc[x] = "group"
  <2>0. c \in Clients
    BY DEF Clients
  <2>1. CASE CompactBegin(c) \/ CompactMemtable(c) \/ ImmCheck(c) \/ RangeBegin(c) \/ RangeWait(c) \/ RangeEnd(c)
    <3>1. \E t : t # "group" /\ pc' = [pc EXCEPT ![c] = t]
      BY <2>1 DEF CompactBegin, CompactMemtable, Enqueue, ImmCheck, RangeBegin, RangeWait, RangeEnd
    <3> QED
      BY <2>0, <3>1, GroupEntry
  <2>2. CASE \/ Wake(c) \/ RoomError(c) \/ RoomOk(c) \/ RoomWait(c) \/ SwitchFails(c)
             \/ \E err \in BOOLEAN : SwitchMemtable(c, err)
    BY <2>0, <2>2, <1>1 DEF WriterStep
  <2> QED
    BY <1>2, <2>1, <2>2 DEF CompactorStep
<1>3. CASE (\E r \in Readers : ReaderStep(r)) \/ BgStep \/ Close \/ Closed
  <2>1. pc' \in {pc, Woken(pc)}
    <3>1. CASE \E r \in Readers : ReaderStep(r)
      BY <3>1 DEF ReaderStep, Snapshot, GetBegin, GetLook, GetEnd, clientVars
    <3>2. CASE BgNothing \/ BgFlush \/ BgPrioritize \/ BgPost \/ BgFlushed \/ BgEnd
      BY <3>2 DEF BgNothing, BgFlush, BgPrioritize, BgPost, BgFlushed, BgEnd, RecordError, clientVars
    <3>5. CASE BgManual \/ BgAuto
      BY <3>5 DEF BgManual, BgAuto
    <3>3. ASSUME NEW ok \in BOOLEAN, BgBuilt(ok) \/ BgApplied(ok) \/ BgCompacted(ok) \/ BgInstalled(ok)
          PROVE  pc' \in {pc, Woken(pc)}
      BY <3>3 DEF BgBuilt, BgApplied, BgCompacted, BgInstalled, FlushFails, RecordError
    <3>4. CASE Close \/ Closed
      BY <3>4 DEF Close, Closed, vars, clientVars
    <3> QED
      BY <1>3, <3>1, <3>2, <3>3, <3>4, <3>5 DEF BgStep
  <2> SUFFICES ASSUME NEW x \in Clients PROVE pc'[x] = "group" => pc[x] = "group"
    OBVIOUS
  <2> QED
    BY <2>1, GroupEntry
<1> QED
  BY <1>1, <1>2, <1>3 DEF Next, Clients

(* No step clears the error.                                               *)
LEMMA ErrorStays ==
  ASSUME Next, bg_error
  PROVE  bg_error'
<1> USE DEF RecordBackgroundError, RecordError
<1>1. ASSUME NEW w, WriterStep(w) \/ CompactorStep(w) PROVE bg_error'
  <2>1. CASE EngineFixed
    BY <2>1 DEF EngineFixed
  <2>2. CASE AddRecord(w) \/ SyncLog(w) \/ InsertInto(w) \/ Commit(w) \/ \E err \in BOOLEAN : SwitchMemtable(w, err)
    BY <2>2 DEF AddRecord, SyncLog, InsertInto, Commit, SwitchMemtable
  <2>3. CASE CompactBegin(w) \/ ImmCheck(w) \/ RangeBegin(w) \/ RangeWait(w) \/ RangeEnd(w)
    BY <2>3 DEF CompactBegin, ImmCheck, RangeBegin, RangeWait, RangeEnd
  <2> QED
    BY <1>1, <2>1, <2>2, <2>3 DEF WriterStep, CompactorStep, Write, CompactMemtable, Wake, RoomError, RoomDelay,
       SleepOver, RoomOk, RoomWait, SwitchFails, GroupJoin, GroupReady
<1>2. CASE \E r \in Readers : ReaderStep(r)
  BY <1>2 DEF ReaderStep, Snapshot, GetBegin, GetLook, GetEnd
<1>3. CASE BgNothing \/ BgFlush \/ BgManual \/ BgAuto \/ BgPrioritize \/ BgPost \/ BgFlushed \/ BgEnd
  BY <1>3 DEF BgNothing, BgFlush, BgManual, BgAuto, BgPrioritize, BgPost, BgFlushed, BgEnd
<1>4. ASSUME NEW ok \in BOOLEAN, BgBuilt(ok) \/ BgApplied(ok) \/ BgCompacted(ok) \/ BgInstalled(ok) PROVE bg_error'
  BY <1>4 DEF BgBuilt, BgApplied, BgCompacted, BgInstalled, FlushFails
<1>5. CASE Close \/ Closed
  BY <1>5 DEF Close, Closed, vars
<1> QED
  BY <1>1, <1>2, <1>3, <1>4, <1>5 DEF Next, BgStep

(* No step of any thread clears bg_error, and no call gets through         *)
(* ldb_make_room_for_write to the log once it is set.                      *)
THEOREM ErrorIsFinal == Spec => ErrorIsSticky
<1>1. Inv /\ [Next]_vars =>
        [bg_error => bg_error' /\ ~(\E w \in Clients : pc[w] = "room" /\ pc'[w] = "group")]_vars
  BY NoEntryOnError, ErrorStays
<1> QED
  BY InitInv, NextInv, <1>1, PTL DEF Spec, ErrorIsSticky

-----------------------------------------------------------------------------
(* The type invariant.  Its hard parts are that the memtables never run    *)
(* out, which takes a count of the calls that may still switch, and that a *)
(* lookup returns a number, which takes the existence of a newest entry.   *)

(* The places from which ldb_write does not come back to its loop for room.*)
PastRoom == InGroup \cup {"ret", "immcheck", "immwait", "level", "range", "rangewait"}

(* The calls that switch no memtable any more: past the loop, or in it     *)
(* with a fresh memtable and no order to switch it.                        *)
Spent == {w \in Clients : \/ pc[w] \in PastRoom
                          \/ pc[w] \in InRoomLoop /\ ~loc[w].force /\ tables[mem] = {}}

(* Each switch has used up one call.                                       *)
SwitchesCounted == mem <= 1 + Cardinality(Spent)

(* Memtables not yet used are empty.                                       *)
Unused == \A t \in Tables : t > mem => tables[t] = {}

(* A flush has a memtable to write.                                        *)
FlushHasInput == bg.pc \in {"build", "apply"} => imm # 0

(* A reader that searches has a memtable.                                  *)
ReaderHasTable == \A r \in Readers : read[r].pc = "look" => read[r].mem \in Tables

DataInv == DataType /\ SwitchesCounted /\ Unused /\ FlushHasInput /\ ReaderHasTable

-----------------------------------------------------------------------------
(* A nonempty set of numbers with a bound has a greatest element.          *)
LEMMA GreatestOf ==
  ASSUME NEW s \in Nat, NEW H, H \subseteq Nat, \A n \in H : n <= s, H # {}
  PROVE  \E n \in H : \A m \in H : m <= n
<1> DEFINE T == {s - n : n \in H}
<1>1. T \subseteq Nat /\ T # {}
  <2>1. \A n \in H : s - n \in Nat
    OBVIOUS
  <2>2. PICK n \in H : TRUE
    OBVIOUS
  <2>3. s - n \in T
    OBVIOUS
  <2> QED
    BY <2>1, <2>3
<1>2. PICK x \in T : \A y \in T : ~(<<y, x>> \in OpToRel(<, Nat))
  <2> HIDE DEF T
  <2> QED
    BY <1>1, NatLessThanWellFounded, WFMin
<1>3. \A y \in T : ~(y < x)
  BY <1>1, <1>2 DEF OpToRel
<1>4. PICK n \in H : x = s - n
  OBVIOUS
<1>5. ASSUME NEW m \in H PROVE m <= n
  <2>1. ~(s - m < s - n)
    BY <1>3, <1>4
  <2>2. m \in Nat /\ n \in Nat
    OBVIOUS
  <2> QED
    BY <2>1, <2>2
<1> QED
  BY <1>5

(* What a lookup returns.                                                  *)
LEMMA LookupType ==
  ASSUME NEW S, S \subseteq Entry, NEW k, NEW s \in Nat
  PROVE  Lookup(S, k, s) \in Nat
<1> DEFINE hits == {e.seq : e \in {x \in S : x.key = k /\ x.seq <= s}}
<1>1. hits \subseteq Nat /\ \A n \in hits : n <= s
  BY DEF Entry
<1>2. CASE hits = {}
  BY <1>2 DEF Lookup
<1>3. CASE hits # {}
  <2>1. \E n \in hits : \A m \in hits : m <= n
    <3> HIDE DEF hits
    <3> QED
      BY <1>1, <1>3, GreatestOf
  <2>2. Lookup(S, k, s) = CHOOSE n \in hits : \A m \in hits : m <= n
    BY <1>3 DEF Lookup
  <2> HIDE DEF hits
  <2> QED
    BY <1>1, <2>1, <2>2
<1> QED
  BY <1>2, <1>3

(* An entry of the batch being written.                                    *)
LEMMA EntryType ==
  ASSUME Inv, NEW w \in Clients, NEW i \in 1..Len(Contents(w))
  PROVE  EntryAt(w, i) \in Entry
<1>1. Contents(w) \in Seq(Item)
  BY ContentsType
<1>2. Contents(w)[i] \in Item
  BY <1>1
<1>3. loc[w].base \in Nat
  BY DEF Inv, ClientsType, Locals
<1> QED
  BY <1>2, <1>3 DEF EntryAt, Item, Entry

(* The calls are finitely many, and so are those that are spent.           *)
LEMMA SpentFinite ==
  /\ IsFiniteSet(Spent) /\ Cardinality(Spent) \in Nat
  /\ Cardinality(Clients) \in Nat /\ Cardinality(Spent) <= Cardinality(Clients)
<1>1. Spent \in SUBSET Clients /\ IsFiniteSet(Clients)
  BY ClientsAssumption DEF Spent
<1> QED
  BY <1>1, FS_Subset, FS_CardinalityType

(* The invariant holds as the database opens.                              *)
LEMMA DataInit == Init => DataInv
<1> SUFFICES ASSUME Init PROVE DataInv
  OBVIOUS
<1>1. 1 \in Tables
  BY SpentFinite DEF Tables
<1>2. DataType
  <2>1. mem \in Tables /\ imm \in Tables \cup {0}
    BY <1>1 DEF Init
  <2>2. tables \in [Tables -> SUBSET Entry] /\ refs \in [Tables -> Int]
    BY DEF Init
  <2>3. log \subseteq Entry /\ durable \subseteq Entry /\ disk \subseteq Entry
    BY DEF Init
  <2>4. read \in [Readers -> Reads]
    BY DEF Init, Reads
  <2> QED
    BY <2>1, <2>2, <2>3, <2>4 DEF DataType
<1>3. SwitchesCounted
  BY SpentFinite DEF Init, SwitchesCounted
<1>4. Unused /\ FlushHasInput /\ ReaderHasTable
  BY DEF Init, Unused, FlushHasInput, ReaderHasTable
<1> QED
  BY <1>2, <1>3, <1>4 DEF DataInv

-----------------------------------------------------------------------------
(* No call returns to its loop for room, and none in it is ordered to      *)
(* switch again.                                                           *)
OnwardAt(x) ==
  /\ pc[x] \in PastRoom => pc'[x] \in PastRoom
  /\ pc[x] \in InRoomLoop =>
       \/ pc'[x] \in PastRoom
       \/ pc'[x] \in InRoomLoop /\ (~loc[x].force => ~loc'[x].force)
Onward == \A x \in Clients : OnwardAt(x)

(* A broadcast leaves the calls past the loop past it, those in it in it.  *)
LEMMA WokenPast ==
  ASSUME NEW f, NEW x \in Clients
  PROVE  /\ Woken(f)[x] \in PastRoom <=> f[x] \in PastRoom
         /\ Woken(f)[x] \in InRoomLoop <=> f[x] \in InRoomLoop
         /\ Woken(f)[x] = "cvwait" <=> f[x] = "cvwait"
BY DEF Woken, PastRoom, InGroup, InRoomLoop

(* Steps of others, with or without a broadcast.                           *)
LEMMA OnwardOther ==
  ASSUME pc' = pc \/ pc' = Woken(pc), loc' = loc
  PROVE  Onward
BY WokenPast DEF Onward, OnwardAt

(* The end of ldb_write.                                                   *)
LEMMA OnwardDequeue ==
  ASSUME Inv, NEW w \in Clients, NEW n, NEW rc, NEW f, f = pc \/ f = Woken(pc), Dequeue(w, n, rc, f)
  PROVE  Onward
<1>1. pc'[w] \in PastRoom
  BY DEF Dequeue, AfterWrite, PastRoom
<1>2. ASSUME NEW x \in Clients, x # w, f[x] # "cvwait" PROVE pc'[x] = f[x] /\ loc'[x] = loc[x]
  BY <1>2 DEF Dequeue, Inv, ClientsType
<1>3. "cvwait" \notin PastRoom /\ "cvwait" \notin InRoomLoop
  BY DEF PastRoom, InGroup, InRoomLoop
<1>4. ASSUME NEW x \in Clients
      PROVE  /\ pc[x] \in PastRoom <=> f[x] \in PastRoom
             /\ pc[x] \in InRoomLoop <=> f[x] \in InRoomLoop
  BY WokenPast
<1>5. OnwardAt(w)
  BY <1>1, Zenon DEF OnwardAt
<1>6. ASSUME NEW x \in Clients, x # w PROVE OnwardAt(x)
  BY <1>2, <1>3, <1>4, <1>6 DEF OnwardAt
<1> QED
  BY <1>5, <1>6, Zenon DEF Onward

(* One call moves on.                                                      *)
LEMMA OnwardMove ==
  ASSUME Inv, NEW w \in Clients, NEW t, pc' = [pc EXCEPT ![w] = t],
         pc[w] \in PastRoom => t \in PastRoom,
         pc[w] \in InRoomLoop => t \in PastRoom \cup InRoomLoop,
         \A x \in Clients : x # w => loc'[x] = loc[x],
         pc[w] \in InRoomLoop /\ t \in InRoomLoop => (~loc[w].force => ~loc'[w].force)
  PROVE  Onward
<1>1. \A x \in Clients : x # w => pc'[x] = pc[x] /\ loc'[x] = loc[x]
  BY DEF Inv, ClientsType
<1>2. pc'[w] = t
  BY DEF Inv, ClientsType
<1>3. OnwardAt(w)
  <2>1. pc[w] \in PastRoom => pc'[w] \in PastRoom
    BY <1>2
  <2>2. CASE t \in PastRoom
    BY <1>2, <2>1, <2>2, Zenon DEF OnwardAt
  <2>3. CASE t \in InRoomLoop
    BY <1>2, <2>1, <2>3, Zenon DEF OnwardAt
  <2>4. CASE t \notin PastRoom /\ t \notin InRoomLoop
    BY <1>2, <2>1, <2>4 DEF OnwardAt
  <2> QED
    BY <2>2, <2>3, <2>4
<1>4. ASSUME NEW x \in Clients, x # w PROVE OnwardAt(x)
  BY <1>1, <1>4 DEF OnwardAt
<1> QED
  BY <1>3, <1>4, Zenon DEF Onward

(* While the memtable in use stays the same, the count stays right.        *)
LEMMA CountKept ==
  ASSUME DataInv, Onward, mem' = mem,
         tables[mem] = {} /\ (\E x \in Clients : pc[x] \in InRoomLoop) => tables'[mem] = {}
  PROVE  SwitchesCounted'
<1>1. Spent' \in SUBSET Clients /\ Spent \in SUBSET Spent'
  BY DEF Spent, Onward, OnwardAt
<1>2. IsFiniteSet(Clients)
  BY ClientsAssumption
<1>3. IsFiniteSet(Spent') /\ Cardinality(Spent') \in Nat
  BY <1>1, <1>2, FS_Subset, FS_CardinalityType
<1>4. Cardinality(Spent) <= Cardinality(Spent')
  BY <1>1, <1>3, FS_Subset
<1>5. mem \in Nat /\ mem <= 1 + Cardinality(Spent) /\ Cardinality(Spent) \in Nat
  BY SpentFinite DEF DataInv, DataType, Tables, SwitchesCounted
<1> HIDE DEF Spent
<1> QED
  BY <1>3, <1>4, <1>5 DEF SwitchesCounted

(* A call's step that leaves memtables, files, job and readers alone.      *)
LEMMA FrameData ==
  ASSUME DataInv, Onward, UNCHANGED <<mem, imm, tables, refs, disk, bg, read>>,
         log' \subseteq Entry, durable' \subseteq Entry
  PROVE  DataInv'
<1>1. SwitchesCounted'
  BY CountKept
<1>2. DataType'
  BY DEF DataInv, DataType
<1>3. Unused' /\ FlushHasInput' /\ ReaderHasTable'
  BY DEF DataInv, Unused, FlushHasInput, ReaderHasTable
<1> QED
  BY <1>1, <1>2, <1>3 DEF DataInv

-----------------------------------------------------------------------------
(* The steps of ldb_write and ldb_compact that only touch the queue, the   *)
(* log and the requests.                                                   *)
LEMMA CallData ==
  ASSUME Inv, DataInv, NEW w \in Clients,
         \/ Write(w) \/ CompactMemtable(w) \/ Wake(w)
         \/ RoomError(w) \/ RoomDelay(w) \/ SleepOver(w) \/ RoomOk(w) \/ RoomWait(w) \/ SwitchFails(w)
         \/ GroupJoin(w) \/ GroupReady(w) \/ AddRecord(w) \/ SyncLog(w) \/ Commit(w)
         \/ CompactBegin(w) \/ ImmCheck(w) \/ RangeBegin(w) \/ RangeWait(w) \/ RangeEnd(w)
  PROVE  DataInv'
<1>u. /\ UNCHANGED <<mem, imm, tables, refs, disk, bg, read>>
      /\ log' \subseteq Entry /\ durable' \subseteq Entry
  <2>0. log \subseteq Entry /\ durable \subseteq Entry
    BY DEF DataInv, DataType
  <2>1. CASE AddRecord(w)
    <3>1. DOMAIN Contents(w) = 1..Len(Contents(w))
      BY ContentsType
    <3>2. Record(w) \subseteq Entry
      BY <3>1, EntryType DEF Record
    <3> QED
      BY <2>0, <2>1, <3>2 DEF AddRecord, bgVars
  <2>2. CASE SyncLog(w) \/ Commit(w)
    BY <2>0, <2>2 DEF SyncLog, Commit, bgVars
  <2>3. CASE CompactBegin(w) \/ ImmCheck(w) \/ RangeBegin(w) \/ RangeWait(w) \/ RangeEnd(w)
    BY <2>0, <2>3 DEF CompactBegin, ImmCheck, RangeBegin, RangeWait, RangeEnd, dataVars
  <2>4. CASE EngineFixed
    BY <2>0, <2>4 DEF EngineFixed, dataVars, bgVars
  <2> QED
    BY <2>1, <2>2, <2>3, <2>4 DEF Write, CompactMemtable, Wake, RoomError, RoomDelay, SleepOver,
       RoomOk, RoomWait, SwitchFails, GroupJoin, GroupReady
<1>o. Onward
  <2>p. pc \in [Clients -> Stages] /\ loc \in [Clients -> Locals]
    BY DEF Inv, ClientsType
  <2>1. CASE RoomError(w) \/ SwitchFails(w) \/ (RoomOk(w) /\ IsNull(w))
    <3>1. \E rc \in {"ok", "err"} : Dequeue(w, 1, rc, pc)
      BY <2>1 DEF RoomError, SwitchFails, RoomOk
    <3> QED
      BY <3>1, OnwardDequeue
  <2>2. CASE Commit(w)
    <3>1. \E f \in {pc, Woken(pc)} : Dequeue(w, loc[w].n, loc[w].rc, f)
      BY <2>2 DEF Commit
    <3> QED
      BY <3>1, OnwardDequeue
  <2>3. CASE Write(w) \/ CompactMemtable(w)
    <3>1. /\ pc[w] \in {"idle", "memtable"} /\ \E t : pc' = [pc EXCEPT ![w] = t]
          /\ \A x \in Clients : x # w => loc'[x] = loc[x]
      BY <2>p, <2>3 DEF Write, CompactMemtable, Enqueue
    <3>2. pc[w] \notin PastRoom /\ pc[w] \notin InRoomLoop
      BY <3>1 DEF PastRoom, InGroup, InRoomLoop
    <3> QED
      BY <3>1, <3>2, OnwardMove
  <2>4. CASE Wake(w) \/ CompactBegin(w)
    <3>1. pc[w] \in {"idle", "queue"} /\ (\E t : pc' = [pc EXCEPT ![w] = t]) /\ loc' = loc
      BY <2>4 DEF Wake, CompactBegin
    <3>2. pc[w] \notin PastRoom /\ pc[w] \notin InRoomLoop
      BY <3>1 DEF PastRoom, InGroup, InRoomLoop
    <3> QED
      BY <3>1, <3>2, OnwardMove
  <2>5. CASE SleepOver(w) \/ RoomWait(w) \/ RoomDelay(w)
    <3>1. /\ pc[w] \in InRoomLoop /\ \E t \in InRoomLoop : pc' = [pc EXCEPT ![w] = t]
          /\ \A x \in Clients : x # w => loc'[x] = loc[x]
          /\ ~loc[w].force => ~loc'[w].force
      BY <2>p, <2>5 DEF SleepOver, RoomWait, RoomDelay, InRoom, InRoomLoop, Locals
    <3>2. pc[w] \notin PastRoom
      BY <3>1 DEF PastRoom, InGroup, InRoomLoop
    <3> QED
      BY <3>1, <3>2, OnwardMove
  <2>6. CASE \/ RoomOk(w) /\ ~IsNull(w)
             \/ GroupReady(w) \/ AddRecord(w) \/ SyncLog(w)
             \/ ImmCheck(w) \/ RangeBegin(w) \/ RangeWait(w) \/ RangeEnd(w)
    <3>1. /\ \E t \in PastRoom : pc' = [pc EXCEPT ![w] = t]
          /\ \A x \in Clients : x # w => loc'[x] = loc[x]
      BY <2>p, <2>6 DEF RoomOk, GroupReady, AddRecord, SyncLog, ImmCheck, RangeBegin, RangeWait,
         RangeEnd, PastRoom, InGroup
    <3>2. PastRoom \cap InRoomLoop = {}
      BY DEF PastRoom, InGroup, InRoomLoop
    <3> QED
      BY <3>1, <3>2, OnwardMove
  <2>7. CASE GroupJoin(w)
    <3>1. pc' = pc /\ pc[w] = "group" /\ \A x \in Clients : x # w => loc'[x] = loc[x]
      BY <2>p, <2>7 DEF GroupJoin
    <3>2. "group" \notin InRoomLoop
      BY DEF InRoomLoop
    <3> QED
      BY <3>1, <3>2 DEF Onward, OnwardAt
  <2> QED
    BY <2>1, <2>2, <2>3, <2>4, <2>5, <2>6, <2>7
<1> QED
  BY <1>u, <1>o, FrameData

(* One entry goes into the memtable; nobody else is in the loop for room.  *)
LEMMA InsertData ==
  ASSUME Inv, DataInv, NEW w \in Clients, InsertInto(w)
  PROVE  DataInv'
<1>p. pc \in [Clients -> Stages] /\ loc \in [Clients -> Locals]
  BY DEF Inv, ClientsType
<1>d. mem \in Tables /\ tables \in [Tables -> SUBSET Entry]
  BY DEF DataInv, DataType
<1>u. UNCHANGED <<mem, imm, refs, log, durable, disk, bg, read>> /\ pc[w] = "insert"
  BY DEF InsertInto, bgVars
<1>1. \A x \in Clients : pc[x] \notin InRoomLoop
  <2>1. \A x \in Clients : pc[x] \in Leading => x = w
    BY <1>u DEF Inv, QueueInv, LeaderIsHead, Leading
  <2> QED
    BY <1>u, <2>1 DEF InRoomLoop, Leading
<1>2. /\ tables' \in [Tables -> SUBSET Entry]
      /\ \A t \in Tables : t # mem => tables'[t] = tables[t]
  <2>1. CASE loc[w].pos < Len(Contents(w))
    <3>1. loc[w].pos + 1 \in 1..Len(Contents(w))
      BY <1>p, <2>1, ContentsType DEF Locals
    <3>2. EntryAt(w, loc[w].pos + 1) \in Entry
      BY <3>1, EntryType
    <3>3. tables' = [tables EXCEPT ![mem] = @ \cup {EntryAt(w, loc[w].pos + 1)}]
      BY <2>1 DEF InsertInto
    <3> QED
      BY <1>d, <3>2, <3>3
  <2>2. CASE ~(loc[w].pos < Len(Contents(w)))
    BY <1>d, <2>2 DEF InsertInto
  <2> QED
    BY <2>1, <2>2
<1>3. Onward
  <2>1. pc' = pc \/ pc' = [pc EXCEPT ![w] = "commit"]
    BY DEF InsertInto
  <2>2. \A x \in Clients : pc[x] \in PastRoom => pc'[x] \in PastRoom
    BY <1>p, <2>1 DEF PastRoom, InGroup
  <2> QED
    BY <1>1, <2>2 DEF Onward, OnwardAt
<1>4. SwitchesCounted'
  BY <1>u, <1>1, <1>3, CountKept
<1>5. DataType'
  BY <1>u, <1>2 DEF DataInv, DataType
<1>6. Unused'
  <2>1. mem \in Nat
    BY <1>d DEF Tables
  <2> QED
    BY <1>u, <1>2, <2>1 DEF DataInv, Unused, Tables
<1>7. FlushHasInput' /\ ReaderHasTable'
  BY <1>u DEF DataInv, FlushHasInput, ReaderHasTable
<1> QED
  BY <1>4, <1>5, <1>6, <1>7 DEF DataInv

(* A memtable switch uses up one call that was not spent before.           *)
LEMMA SwitchData ==
  ASSUME Inv, DataInv, NEW w \in Clients, NEW err \in BOOLEAN, SwitchMemtable(w, err)
  PROVE  DataInv'
<1>p. pc \in [Clients -> Stages] /\ loc \in [Clients -> Locals]
  BY DEF Inv, ClientsType
<1>d. /\ mem \in Tables /\ mem \in Nat /\ mem > 0
      /\ tables \in [Tables -> SUBSET Entry] /\ refs \in [Tables -> Int]
  BY DEF DataInv, DataType, Tables
<1>u. /\ imm' = mem /\ mem' = mem + 1 /\ log' = {} /\ refs' = [refs EXCEPT ![mem + 1] = 1]
      /\ UNCHANGED <<tables, durable, disk, bg, read>>
      /\ pc[w] = "room" /\ (pc' = pc \/ pc' = Woken(pc))
      /\ loc' = [loc EXCEPT ![w] = [loc[w] EXCEPT !.force = FALSE]]
      /\ ~HasRoom(w)
  BY DEF SwitchMemtable, MustSwitch, InRoom, NotForced
<1>1. w \notin Spent
  <2>1. SUFFICES ASSUME ~loc[w].force, tables[mem] = {} PROVE FALSE
    BY <1>u DEF Spent, PastRoom, InGroup
  <2>2. Cardinality(tables[mem]) = 0
    BY <2>1, FS_EmptySet
  <2> QED
    BY <1>u, <2>1, <2>2, NumbersAssumption DEF HasRoom
<1>2. /\ mem + 1 <= 1 + Cardinality(Spent \cup {w}) /\ mem + 1 \in Tables
      /\ IsFiniteSet(Spent \cup {w})
  <2>1. /\ IsFiniteSet(Spent \cup {w})
        /\ Cardinality(Spent \cup {w}) = Cardinality(Spent) + 1
    BY <1>1, SpentFinite, FS_AddElement
  <2>2. Spent \cup {w} \in SUBSET Clients
    BY DEF Spent
  <2>3. Cardinality(Spent \cup {w}) <= Cardinality(Clients)
    BY <2>2, ClientsAssumption, FS_Subset
  <2>4. mem <= 1 + Cardinality(Spent)
    BY DEF DataInv, SwitchesCounted
  <2> QED
    BY <1>d, <2>1, <2>3, <2>4, SpentFinite DEF Tables
<1>3. tables'[mem'] = {}
  BY <1>d, <1>u, <1>2 DEF DataInv, Unused
<1>4. (Spent \cup {w}) \in SUBSET (Spent') /\ Spent' \in SUBSET Clients
  <2>1. \A x \in Clients : pc[x] \in PastRoom => pc'[x] \in PastRoom
    BY <1>u, WokenPast
  <2>2. \A x \in Clients : pc[x] \in InRoomLoop => pc'[x] \in InRoomLoop
    BY <1>u, WokenPast
  <2>3. \A x \in Clients : pc[x] \in InRoomLoop => x = w
    <3>1. pc[w] \in Leading
      BY <1>u DEF Leading
    <3> QED
      BY <3>1, StagesFacts DEF Inv, QueueInv, LeaderIsHead
  <2>4. ~loc'[w].force /\ pc[w] \in InRoomLoop
    BY <1>p, <1>u DEF Locals, InRoomLoop
  <2>5. w \in Spent'
    BY <1>3, <2>2, <2>4 DEF Spent
  <2>6. Spent \subseteq Spent'
    BY <2>1, <2>3, <2>5 DEF Spent
  <2> QED
    BY <2>5, <2>6 DEF Spent
<1>5. SwitchesCounted'
  <2>1. IsFiniteSet(Spent') /\ Cardinality(Spent') \in Nat
    BY <1>4, ClientsAssumption, FS_Subset, FS_CardinalityType
  <2>2. Cardinality(Spent \cup {w}) <= Cardinality(Spent')
    BY <1>4, <2>1, FS_Subset
  <2>3. Cardinality(Spent \cup {w}) \in Nat
    BY <1>2, FS_CardinalityType
  <2> HIDE DEF Spent
  <2> QED
    BY <1>d, <1>u, <1>2, <2>1, <2>2, <2>3 DEF SwitchesCounted
<1>6. DataType'
  BY <1>d, <1>u, <1>2 DEF DataInv, DataType
<1>7. Unused' /\ FlushHasInput' /\ ReaderHasTable'
  BY <1>d, <1>u DEF DataInv, Unused, FlushHasInput, ReaderHasTable, Tables
<1> QED
  BY <1>5, <1>6, <1>7 DEF DataInv

-----------------------------------------------------------------------------
(* Steps of readers, of the background job and of ldb_close: the memtable  *)
(* in use stays, another may be freed.                                     *)
LEMMA OtherData ==
  ASSUME DataInv, pc' = pc \/ pc' = Woken(pc), UNCHANGED <<loc, mem, log>>,
         imm' \in Tables \cup {0}, tables' = tables \/ tables' = FreeTables(refs'),
         refs' \in [Tables -> Int], durable' \subseteq Entry, disk' \subseteq Entry,
         read' \in [Readers -> Reads], FlushHasInput', ReaderHasTable'
  PROVE  DataInv'
<1>1. /\ mem \in Tables /\ tables \in [Tables -> SUBSET Entry]
      /\ \A t \in Tables : t > mem => tables[t] = {}
      /\ log \subseteq Entry
  BY DEF DataInv, DataType, Unused
<1>2. tables' \in [Tables -> SUBSET Entry] /\ \A t \in Tables : tables'[t] \in {tables[t], {}}
  BY <1>1 DEF FreeTables
<1>3. SwitchesCounted'
  <2>1. tables[mem] = {} => tables'[mem] = {}
    BY <1>1, <1>2
  <2> QED
    BY <2>1, OnwardOther, CountKept
<1>4. DataType'
  BY <1>1, <1>2 DEF DataType
<1>5. Unused'
  BY <1>1, <1>2 DEF Unused
<1> QED
  BY <1>3, <1>4, <1>5 DEF DataInv

(* References taken and dropped are counted in numbers.                    *)
LEMMA RefsType ==
  ASSUME NEW f \in [Tables -> Int], NEW ts
  PROVE  RefTables(f, ts) \in [Tables -> Int] /\ UnrefTables(f, ts) \in [Tables -> Int]
BY DEF RefTables, UnrefTables

(* ldb_snapshot and ldb_get.                                               *)
LEMMA ReaderData ==
  ASSUME Inv, DataInv, NEW r \in Readers, ReaderStep(r)
  PROVE  DataInv'
<1>d. /\ mem \in Tables /\ imm \in Tables \cup {0} /\ refs \in [Tables -> Int]
      /\ tables \in [Tables -> SUBSET Entry]
      /\ durable \subseteq Entry /\ disk \subseteq Entry
      /\ read \in [Readers -> Reads] /\ read[r] \in Reads
  BY DEF DataInv, DataType
<1>n. last_sequence \in Nat
  BY DEF Inv, ClientsType
<1>u. /\ pc' = pc /\ UNCHANGED <<loc, mem, imm, log, durable, disk, bg>>
      /\ tables' = tables \/ tables' = FreeTables(refs')
  BY DEF ReaderStep, Snapshot, GetBegin, GetLook, GetEnd, clientVars, dataVars, bgVars
<1>f. FlushHasInput'
  BY <1>u DEF DataInv, FlushHasInput
<1>h. \A q \in Readers : read[q].pc = "look" => read[q].mem \in Tables
  BY DEF DataInv, ReaderHasTable
<1>1. CASE Snapshot(r)
  <2>1. read' \in [Readers -> Reads] /\ refs' = refs
    BY <1>1, <1>d, <1>n DEF Snapshot, Reads, dataVars
  <2>2. ReaderHasTable'
    BY <1>1, <1>d, <1>h DEF Snapshot, ReaderHasTable, Reads
  <2> QED
    BY <1>d, <1>u, <1>f, <2>1, <2>2, OtherData
<1>2. CASE GetBegin(r)
  <2>1. PICK k \in Keys :
          read' = [read EXCEPT ![r].pc = "look", ![r].key = k,
                     ![r].snap = IF read[r].pc = "idle" THEN last_sequence ELSE @,
                     ![r].mem = mem, ![r].imm = imm, ![r].ver = disk]
    BY <1>2 DEF GetBegin
  <2>2. read' \in [Readers -> Reads]
    BY <1>d, <1>n, <2>1 DEF Reads
  <2>3. ReaderHasTable'
    BY <1>d, <1>h, <2>1 DEF ReaderHasTable, Reads
  <2>4. refs' \in [Tables -> Int]
    BY <1>2, <1>d, RefsType DEF GetBegin
  <2> QED
    BY <1>d, <1>u, <1>f, <2>2, <2>3, <2>4, OtherData
<1>3. CASE GetLook(r)
  <2> DEFINE g == read[r]
             a == Lookup(tables[g.mem], g.key, g.snap)
             b == IF g.imm = 0 THEN 0 ELSE Lookup(tables[g.imm], g.key, g.snap)
             c == Lookup(g.ver, g.key, g.snap)
             res == IF a # 0 THEN a ELSE IF b # 0 THEN b ELSE c
             miss == (a = 0 /\ b = 0)
  <2>1. g.snap \in Nat /\ g.mem \in Tables /\ g.imm \in Tables \cup {0} /\ g.ver \subseteq Entry
    BY <1>3, <1>d, <1>h DEF GetLook, Reads
  <2>2. a \in Nat /\ b \in Nat /\ c \in Nat
    BY <1>d, <2>1, LookupType
  <2>3. read' = [read EXCEPT ![r].pc = "unref", ![r].miss = miss, ![r].result = res]
    BY <1>3 DEF GetLook
  <2>4. res \in Nat /\ miss \in BOOLEAN
    BY <2>2
  <2>5. refs' = refs
    BY <1>3 DEF GetLook, dataVars
  <2> HIDE DEF res, miss
  <2>6. read' \in [Readers -> Reads]
    BY <1>d, <2>3, <2>4 DEF Reads
  <2>7. ReaderHasTable'
    BY <1>d, <1>h, <2>3 DEF ReaderHasTable, Reads
  <2> QED
    BY <1>d, <1>u, <1>f, <2>5, <2>6, <2>7, OtherData
<1>4. CASE GetEnd(r)
  <2>1. read' \in [Readers -> Reads]
    BY <1>4, <1>d DEF GetEnd, Reads
  <2>2. ReaderHasTable'
    BY <1>4, <1>d, <1>h DEF GetEnd, ReaderHasTable, Reads
  <2>3. refs' \in [Tables -> Int]
    BY <1>4, <1>d, RefsType DEF GetEnd
  <2> QED
    BY <1>d, <1>u, <1>f, <2>1, <2>2, <2>3, OtherData
<1> QED
  BY <1>1, <1>2, <1>3, <1>4 DEF ReaderStep

(* The background job.                                                     *)
LEMMA BackgroundData ==
  ASSUME BgInv, DataInv, BgStep
  PROVE  DataInv'
<1> USE DEF BgFixed
<1>b. bg \in BgStates
  BY DEF BgInv, BgType
<1>d. /\ mem \in Tables /\ imm \in Tables \cup {0} /\ refs \in [Tables -> Int]
      /\ tables \in [Tables -> SUBSET Entry]
      /\ durable \subseteq Entry /\ disk \subseteq Entry /\ read \in [Readers -> Reads]
      /\ FlushHasInput /\ ReaderHasTable
  BY DEF DataInv, DataType
<1>1. CASE \E ok \in BOOLEAN : ok /\ BgApplied(ok)
  <2>1. /\ bg.pc = "apply" /\ pc' = pc /\ UNCHANGED <<loc, mem, log, read>>
        /\ disk' = disk \cup tables[imm] /\ durable' = durable \cup tables[imm]
        /\ refs' = UnrefTables(refs, {imm}) /\ tables' = FreeTables(refs')
        /\ imm' = 0 /\ bg' = [bg EXCEPT !.pc = "flushed"]
    BY <1>1 DEF BgApplied
  <2>2. imm \in Tables
    BY <1>d, <2>1 DEF FlushHasInput
  <2>3. disk' \subseteq Entry /\ durable' \subseteq Entry /\ refs' \in [Tables -> Int]
    BY <1>d, <2>1, <2>2, RefsType
  <2>4. FlushHasInput' /\ ReaderHasTable'
    BY <1>d, <2>1 DEF FlushHasInput, ReaderHasTable
  <2> QED
    BY <1>d, <2>1, <2>3, <2>4, OtherData
<1>2. ASSUME ~\E ok \in BOOLEAN : ok /\ BgApplied(ok)
      PROVE  /\ pc' = pc \/ pc' = Woken(pc)
             /\ UNCHANGED <<loc, mem, log, imm, tables, refs, durable, disk, read>>
             /\ FlushHasInput'
  <2> USE <1>b, <1>d DEF RecordError, FlushFails, FlushHasInput, BgStates
  <2>1. CASE BgNothing \/ BgFlush \/ BgPrioritize
    BY <2>1 DEF BgNothing, BgFlush, BgPrioritize
  <2>2. CASE BgManual
    <3>1. bg'.pc \in {"post", "compact"}
      <4>1. CASE request[manual].chunks = 0
        BY <2>2, <4>1 DEF BgManual
      <4>2. CASE request[manual].chunks # 0
        BY <2>2, <4>2 DEF BgManual
      <4> QED
        BY <4>1, <4>2
    <3> QED
      BY <2>2, <3>1 DEF BgManual
  <2>3. CASE BgAuto
    BY <2>3 DEF BgAuto
  <2>4. CASE \E ok \in BOOLEAN : BgBuilt(ok) \/ BgApplied(ok)
    BY <1>2, <2>4 DEF BgBuilt, BgApplied
  <2>5. CASE \E ok \in BOOLEAN : BgCompacted(ok) \/ BgInstalled(ok)
    BY <2>5 DEF BgCompacted, BgInstalled
  <2>6. CASE BgFlushed \/ BgPost \/ BgEnd
    BY <2>6 DEF BgFlushed, BgPost, BgEnd, clientVars, dataVars
  <2> QED
    BY <2>1, <2>2, <2>3, <2>4, <2>5, <2>6 DEF BgStep
<1>3. CASE ~\E ok \in BOOLEAN : ok /\ BgApplied(ok)
  <2>1. ReaderHasTable'
    BY <1>d, <1>2, <1>3 DEF ReaderHasTable
  <2> QED
    BY <1>d, <1>2, <1>3, <2>1, OtherData
<1> QED
  BY <1>1, <1>3

(* Every step preserves the invariant.                                     *)
LEMMA DataNext == Inv /\ BgInv /\ DataInv /\ [Next]_vars => DataInv'
<1> SUFFICES ASSUME Inv, BgInv, DataInv, [Next]_vars PROVE DataInv'
  OBVIOUS
<1>1. ASSUME NEW w \in Writers, WriterStep(w) PROVE DataInv'
  <2>1. w \in Clients
    BY DEF Clients
  <2> QED
    BY <1>1, <2>1, CallData, InsertData, SwitchData DEF WriterStep
<1>2. ASSUME NEW c \in Compactors, CompactorStep(c) PROVE DataInv'
  <2>1. c \in Clients
    BY DEF Clients
  <2> QED
    BY <1>2, <2>1, CallData, SwitchData DEF CompactorStep
<1>3. ASSUME NEW r \in Readers, ReaderStep(r) PROVE DataInv'
  BY <1>3, ReaderData
<1>4. CASE BgStep
  BY <1>4, BackgroundData
<1>5. CASE Close \/ Closed \/ UNCHANGED vars
  <2>1. UNCHANGED <<pc, loc, mem, log, imm, tables, refs, durable, disk, read, bg>>
    BY <1>5 DEF Close, Closed, vars, clientVars, dataVars, bgVars
  <2>2. /\ imm \in Tables \cup {0} /\ refs \in [Tables -> Int]
        /\ durable \subseteq Entry /\ disk \subseteq Entry /\ read \in [Readers -> Reads]
    BY DEF DataInv, DataType
  <2>3. FlushHasInput' /\ ReaderHasTable'
    BY <2>1 DEF DataInv, FlushHasInput, ReaderHasTable
  <2> QED
    BY <2>1, <2>2, <2>3, OtherData
<1> QED
  BY <1>1, <1>2, <1>3, <1>4, <1>5 DEF Next

(* Every variable of DbImpl keeps its type: no call switches memtables     *)
(* twice, no lookup is without a result, no compaction removes a level-0   *)
(* file that is not there.                                                 *)
THEOREM TypeCorrect == Spec => []TypeOK
<1>1. Init => Inv /\ BgInv /\ DataInv
  BY InitInv, BgInit, DataInit
<1>2. Inv /\ BgInv /\ DataInv /\ [Next]_vars => (Inv /\ BgInv /\ DataInv)'
  BY NextInv, BgNext, DataNext
<1>3. Inv /\ BgInv /\ DataInv => TypeOK
  BY DEF Inv, BgInv, DataInv, TypeOK
<1> QED
  BY <1>1, <1>2, <1>3, PTL DEF Spec
=============================================================================
