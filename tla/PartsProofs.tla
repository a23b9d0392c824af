----------------------------- MODULE PartsProofs -----------------------------
(***************************************************************************)
(* What is proved of four parts, for any number of processes, threads,     *)
(* names, readers and clients: the LOCK file (FileLocks) is exclusive, the *)
(* thread pool (ThreadPool) loses no wakeup, an environment (Environment)  *)
(* keeps what is written through its buffer and the books of its limiters  *)
(* and references, and the RPC server (Rpc) serves a connection once and   *)
(* answers its messages in order.                                          *)
(***************************************************************************)
EXTENDS FileLocks, ThreadPool, Environment, Rpc, FiniteSetTheorems, SequenceTheorems, TLAPS

----------------------------------------------------------------------------
(* The LOCK file                                                           *)

\* What the variables hold.
LockTypes ==
  /\ lock_kind \in {"none", "unix", "win", "mem"}
  /\ lock_set \in [LockProcesses -> BOOLEAN]
  /\ lock_os \subseteq LockProcesses
  /\ lock_pc \in [LockCallers -> {"idle", "mutex", "held"}]

\* Before the choice nobody has called.
LockUnused == lock_kind = "none" => lock_os = {} /\ \A c \in LockCallers : lock_pc[c] = "idle"

\* Windows: whoever holds the file has the system's lock, alone.
LockWin ==
  lock_kind = "win" =>
    /\ \A c \in LockCallers : lock_pc[c] # "mutex" /\ (lock_pc[c] = "held" => lock_os = {c[1]})
    /\ \A c, d \in LockCallers : lock_pc[c] = "held" /\ lock_pc[d] = "held" => c = d

\* file_mutex has one owner in a process, file_set one, and file_set knows it.
LockMutex ==
  lock_kind # "win" =>
    \A p \in LockProcesses, t, u \in LockThreads :
      /\ lock_pc[<<p, t>>] = "held" => lock_set[p]
      /\ lock_pc[<<p, t>>] = lock_pc[<<p, u>>] /\ lock_pc[<<p, t>>] # "idle" => t = u

\* Unix: a record lock has one owner, and a holder without it was robbed of it by the
\* descriptor that a refused call closed.
LockRecord ==
  lock_kind = "unix" =>
    /\ \A p, q \in lock_os : p = q
    /\ \A c \in LockCallers : lock_pc[c] = "held" => c[1] \in lock_os \cup lock_refused

LockInv == LockTypes /\ LockUnused /\ LockWin /\ LockMutex /\ LockRecord

\* No lock is held before the first call of ldb_lock_file.
LEMMA LockInitInv == LockInit => LockInv
BY DEF LockInit, LockInv, LockTypes, LockUnused, LockWin, LockMutex, LockRecord, LockCallers

\* Every step of the processes and of the system keeps it.
LEMMA LockStepInv == LockInv /\ [LockNext]_lockVars => LockInv'
<1> SUFFICES ASSUME LockInv, [LockNext]_lockVars PROVE LockInv'
  OBVIOUS
<1> USE DEF LockInv, LockTypes, LockCallers
<1>1. ASSUME NEW kind \in {"unix", "win", "mem"}, LockChoose(kind) PROVE LockInv'
  BY <1>1 DEF LockChoose, LockUnused, LockWin, LockMutex, LockRecord
<1>2. ASSUME NEW p \in LockProcesses, NEW t \in LockThreads, LockBegin(p, t) PROVE LockInv'
  BY <1>2 DEF LockBegin, MutexFree, LockUnused, LockWin, LockMutex, LockRecord
<1>3. ASSUME NEW p \in LockProcesses, NEW t \in LockThreads, LockRefused(p, t) PROVE LockInv'
  BY <1>3 DEF LockRefused, LockUnused, LockWin, LockMutex, LockRecord
<1>4. ASSUME NEW p \in LockProcesses, NEW t \in LockThreads, LockTaken(p, t) PROVE LockInv'
  BY <1>4 DEF LockTaken, LockUnused, LockWin, LockMutex, LockRecord
<1>5. ASSUME NEW p \in LockProcesses, NEW t \in LockThreads, LockFails(p, t) PROVE LockInv'
  BY <1>5 DEF LockFails, LockUnused, LockWin, LockMutex, LockRecord
<1>6. ASSUME NEW p \in LockProcesses, NEW t \in LockThreads, UnlockFile(p, t) PROVE LockInv'
  BY <1>6 DEF UnlockFile, LockUnused, LockWin, LockMutex, LockRecord
<1>7. ASSUME NEW p \in LockProcesses, NEW t \in LockThreads, WinLock(p, t) PROVE LockInv'
  <2>1. lock_kind = "win" /\ UNCHANGED <<lock_kind, lock_set>> /\ lock_pc[<<p, t>>] = "idle"
    BY <1>7 DEF WinLock
  <2>2. CASE lock_os = {}
    <3>1. \A c \in LockCallers : lock_pc[c] # "held"
      BY <2>1, <2>2 DEF LockWin
    <3>2. lock_os' = {p} /\ lock_pc' = [lock_pc EXCEPT ![<<p, t>>] = "held"]
      BY <1>7, <2>2 DEF WinLock
    <3>3. \A c \in LockCallers : lock_pc'[c] # "mutex" /\ (lock_pc'[c] = "held" => c = <<p, t>>)
      BY <2>1, <3>1, <3>2 DEF LockWin
    <3> QED
      BY <2>1, <3>2, <3>3 DEF LockUnused, LockWin, LockMutex, LockRecord
  <2>3. CASE lock_os # {}
    BY <1>7, <2>1, <2>3 DEF WinLock, LockUnused, LockWin, LockMutex, LockRecord
  <2> QED
    BY <2>2, <2>3
<1>8. ASSUME NEW p \in LockProcesses, NEW t \in LockThreads, WinUnlock(p, t) PROVE LockInv'
  BY <1>8 DEF WinUnlock, LockUnused, LockWin, LockMutex, LockRecord
<1>9. ASSUME NEW p \in LockProcesses, LockCrash(p) PROVE LockInv'
  BY <1>9 DEF LockCrash, LockUnused, LockWin, LockMutex, LockRecord
<1>10. CASE UNCHANGED lockVars
  BY <1>10 DEF lockVars, LockUnused, LockWin, LockMutex, LockRecord
<1> QED
  BY <1>1, <1>2, <1>3, <1>4, <1>5, <1>6, <1>7, <1>8, <1>9, <1>10 DEF LockNext

\* A set whose members are equal has at most one.
LEMMA AtMostOne ==
  ASSUME NEW S, \A x, y \in S : x = y
  PROVE  Cardinality(S) <= 1
<1>1. CASE S = {}
  BY <1>1, FS_EmptySet
<1>2. CASE S # {}
  <2>0. PICK x \in S : TRUE
    BY <1>2
  <2>1. S = {x}
    BY <2>0
  <2> QED
    BY <2>1, FS_Singleton
<1> QED
  BY <1>1, <1>2

\* What the invariant says of the holders.
LEMMA LockInvExclusive == LockInv => LockExclusive
<1> SUFFICES ASSUME LockInv PROVE LockExclusive
  OBVIOUS
<1>1. ASSUME NEW p \in LockProcesses PROVE Cardinality(HoldersIn(p)) <= 1
  <2>1. \A t, u \in HoldersIn(p) : t = u
    BY DEF LockInv, LockWin, LockMutex, HoldersIn, LockCallers
  <2> QED
    BY <2>1, AtMostOne
<1>2. ASSUME lock_kind # "mem", NEW p \in LockProcesses, NEW q \in LockProcesses,
             p # q, HoldersIn(p) # {}, HoldersIn(q) # {}
      PROVE  lock_refused \cap {p, q} # {}
  <2>1. PICK t \in LockThreads, u \in LockThreads :
          lock_pc[<<p, t>>] = "held" /\ lock_pc[<<q, u>>] = "held"
    BY <1>2 DEF HoldersIn
  <2>2. <<p, t>> \in LockCallers /\ <<q, u>> \in LockCallers /\ <<p, t>> # <<q, u>>
    BY <1>2 DEF LockCallers
  <2>3. lock_kind = "unix"
    BY <1>2, <2>1, <2>2 DEF LockInv, LockTypes, LockUnused, LockWin
  <2>4. p \in lock_os \cup lock_refused /\ q \in lock_os \cup lock_refused
    BY <2>1, <2>2, <2>3 DEF LockInv, LockRecord
  <2> QED
    BY <1>2, <2>3, <2>4 DEF LockInv, LockRecord
<1> QED
  BY <1>1, <1>2 DEF LockExclusive

\* The database is open once, for any number of processes and threads, any number of
\* calls, and any order of calls, unlocks and deaths (env_unix_impl.h:879,
\* env_win_impl.h, env_mem_impl.h); the one exception is the process that asked
\* twice, on Unix.
THEOREM LockIsExclusive == LockSpec => []LockExclusive
<1>1. LockSpec => []LockInv
  BY LockInitInv, LockStepInv, PTL DEF LockSpec
<1> QED
  BY <1>1, LockInvExclusive, PTL

----------------------------------------------------------------------------
(* The thread pool                                                         *)

\* A thread that will look at the queue again without being woken.
Up == {"lock", "woken", "exec", "signalled", "broadcasted", "last"}

WorkerState == [pc : Up \cup {"none", "wait", "exited"}, job : Nat, ran : BOOLEAN]

\* The threads that run, and the ones with a job that pool->left still counts.
Alive == {w \in PoolWorkers : pool_worker[w].pc \in Up \cup {"wait"}}
Busy == {w \in PoolWorkers : pool_worker[w].pc = "exec"
                               \/ (pool_worker[w].pc = "lock" /\ pool_worker[w].ran)}

Ending == {"destroy_woken", "destroying", "destroyed"}

PoolTypes ==
  /\ pool_port \in {"none", "posix", "win"}
  /\ pool_signal \in BOOLEAN /\ pool_broadcast \in BOOLEAN /\ pool_stop \in BOOLEAN
  /\ pool_queue \in Seq(Nat) /\ pool_done \in Seq(Nat) /\ pool_jobs \in Nat
  /\ pool_running \in Int /\ pool_left \in Int
  /\ pool_worker \in [PoolWorkers -> WorkerState]
  /\ pool_master \in {"idle", "waiting", "wait_woken"} \cup Ending

\* The jobs that began, then the jobs that wait, are numbered upwards.
JobsInOrder ==
  /\ \A i, j \in 1..Len(pool_done) : i < j => pool_done[i] < pool_done[j]
  /\ \A i \in 1..Len(pool_done), j \in 1..Len(pool_queue) : pool_done[i] < pool_queue[j]
  /\ \A i, j \in 1..Len(pool_queue) : i < j => pool_queue[i] < pool_queue[j]
  /\ \A i \in 1..Len(pool_done) : pool_done[i] <= pool_jobs
  /\ \A i \in 1..Len(pool_queue) : pool_queue[i] <= pool_jobs

\* pool->running counts the threads, and a thread that executes has a job.
RunningCounts ==
  /\ pool_running = Cardinality(Alive)
  /\ \A w \in PoolWorkers : pool_worker[w].pc = "exec" => pool_worker[w].ran

\* Until the pool stops, pool->left counts the jobs that wait and the ones with a thread.
LeftCounts == ~pool_stop => pool_left = Len(pool_queue) + Cardinality(Busy)

\* The master sleeps only while what it waits for has not happened.
MasterWaits ==
  /\ pool_stop <=> pool_master \in Ending
  /\ pool_master = "waiting" => pool_left > 0
  /\ pool_master = "destroying" => pool_running > 0
  /\ pool_master = "destroyed" => pool_running = 0

\* While a job waits, a thread is up or about to be woken.
JobHasThread ==
  ~pool_stop /\ pool_queue # <<>> =>
    \E w \in PoolWorkers : \/ pool_worker[w].pc \in Up
                           \/ pool_worker[w].pc = "wait" /\ (pool_signal \/ pool_broadcast)

\* A stopped pool has nobody asleep but under a broadcast, which ends when it has
\* nobody left.
StopReaches ==
  /\ pool_stop => \A w \in PoolWorkers : pool_worker[w].pc = "wait" => pool_broadcast
  /\ \A w \in PoolWorkers :
       pool_worker[w].pc = "last" => pool_stop /\ \A v \in PoolWorkers : pool_worker[v].pc # "wait"
  /\ pool_broadcast => pool_stop
  /\ \A w \in PoolWorkers : pool_worker[w].pc = "broadcasted" => pool_stop

PoolInv ==
  PoolTypes /\ JobsInOrder /\ RunningCounts /\ LeftCounts /\ MasterWaits /\ JobHasThread /\ StopReaches

\* The counts are of finite sets.
LEMMA PoolFinite ==
  /\ IsFiniteSet(Alive) /\ Cardinality(Alive) \in Nat
  /\ IsFiniteSet(Busy) /\ Cardinality(Busy) \in Nat
<1>1. Alive \subseteq PoolWorkers /\ Busy \subseteq PoolWorkers
  BY DEF Alive, Busy
<1>2. IsFiniteSet(Alive) /\ IsFiniteSet(Busy)
  BY <1>1, PoolAssumption, FS_Subset
<1> QED
  BY <1>2, FS_CardinalityType

\* With no thread counted there is none.
LEMMA NobodyRuns ==
  ASSUME PoolInv, pool_running = 0
  PROVE  /\ Alive = {} /\ Busy = {}
         /\ \A w \in PoolWorkers : pool_worker[w].pc \in {"none", "exited"}
<1>1. Alive = {}
  BY PoolFinite, FS_EmptySet DEF PoolInv, RunningCounts
<1>2. \A w \in PoolWorkers : pool_worker[w].pc \in {"none", "exited"}
  BY <1>1 DEF Alive, PoolInv, PoolTypes, WorkerState
<1>3. Busy = {}
  BY <1>2 DEF Busy
<1> QED
  BY <1>1, <1>2, <1>3

\* Adding a member to a finite set, and taking one out.
LEMMA CountOne ==
  ASSUME NEW S, IsFiniteSet(S), NEW x
  PROVE  /\ x \in S => Cardinality(S \ {x}) = Cardinality(S) - 1 /\ Cardinality(S) > 0
         /\ x \notin S => Cardinality(S \cup {x}) = Cardinality(S) + 1
<1>1. Cardinality(S) \in Nat
  BY FS_CardinalityType
<1>2. ASSUME x \in S PROVE Cardinality(S \ {x}) = Cardinality(S) - 1 /\ Cardinality(S) > 0
  <2>1. Cardinality(S \ {x}) = Cardinality(S) - 1
    BY <1>2, FS_RemoveElement
  <2>2. Cardinality(S) # 0
    BY <1>2, FS_EmptySet
  <2> QED
    BY <1>1, <2>1, <2>2
<1>3. ASSUME x \notin S PROVE Cardinality(S \cup {x}) = Cardinality(S) + 1
  BY <1>3, FS_AddElement
<1> QED
  BY <1>2, <1>3

\* ldb_cond_signal on pool->master wakes it, whichever wait it is in.
LEMMA MasterSignalled ==
  ASSUME NEW m \in {"idle", "waiting", "wait_woken"} \cup Ending
  PROVE  /\ SignalMaster(m) \in {"idle", "wait_woken"} \cup (Ending \ {"destroying"})
         /\ SignalMaster(m) \in Ending <=> m \in Ending
         /\ SignalMaster(m) = "destroyed" <=> m = "destroyed"
BY DEF SignalMaster, Ending

\* No thread runs at first.
LEMMA PoolInitInv == PoolInit => PoolInv
<1> SUFFICES ASSUME PoolInit PROVE PoolInv
  OBVIOUS
<1>1. Alive = {} /\ Busy = {} /\ Cardinality({}) = 0
  BY FS_EmptySet DEF PoolInit, Alive, Busy, Up
<1>2. PoolTypes
  <2>1. [pc |-> "none", job |-> 0, ran |-> FALSE] \in WorkerState
    BY DEF WorkerState
  <2>2. pool_worker \in [PoolWorkers -> WorkerState]
    BY <2>1 DEF PoolInit
  <2>3. pool_queue \in Seq(Nat) /\ pool_done \in Seq(Nat)
    BY DEF PoolInit
  <2>4. pool_signal \in BOOLEAN /\ pool_broadcast \in BOOLEAN /\ pool_stop \in BOOLEAN
    BY Zenon DEF PoolInit
  <2>5. pool_jobs \in Nat /\ pool_running \in Int /\ pool_left \in Int
    BY DEF PoolInit
  <2>6. pool_port \in {"none", "posix", "win"} /\ pool_master \in {"idle", "waiting", "wait_woken"} \cup Ending
    BY Zenon DEF PoolInit
  <2> QED
    BY <2>2, <2>3, <2>4, <2>5, <2>6, Zenon DEF PoolTypes
<1>3. RunningCounts /\ LeftCounts
  BY <1>1 DEF PoolInit, RunningCounts, LeftCounts
<1>4. JobsInOrder
  BY DEF PoolInit, JobsInOrder
<1>5. MasterWaits /\ JobHasThread /\ StopReaches
  BY DEF PoolInit, MasterWaits, JobHasThread, StopReaches, Ending
<1> QED
  BY <1>2, <1>3, <1>4, <1>5 DEF PoolInv

\* A step that moves threads between the places where they run, busy or not, and leaves
\* the books alone: what the threads owe is all there is to show.
LEMMA PlacesInv ==
  ASSUME PoolInv, pool_worker' \in [PoolWorkers -> WorkerState],
         pool_port' = pool_port \/ pool_port' \in {"posix", "win"},
         pool_signal' \in BOOLEAN, pool_broadcast' \in BOOLEAN,
         UNCHANGED <<pool_queue, pool_running, pool_left, pool_stop, pool_master, pool_jobs, pool_done>>,
         \A v \in PoolWorkers :
           /\ pool_worker'[v].pc \in Up \cup {"wait"} <=> pool_worker[v].pc \in Up \cup {"wait"}
           /\ pool_worker'[v].ran = pool_worker[v].ran
           /\ pool_worker'[v].pc = "exec" => pool_worker[v].pc = "exec"
           /\ pool_worker'[v].pc = "lock" => pool_worker[v].pc \in {"lock", "exec"}
           /\ pool_worker[v].pc = "lock" => pool_worker'[v].pc = "lock"
           /\ pool_worker[v].pc = "exec" => pool_worker'[v].pc \in {"lock", "exec"},
         JobHasThread', StopReaches'
  PROVE  PoolInv'
<1>1. \A v \in PoolWorkers : pool_worker[v].pc = "exec" => pool_worker[v].ran
  BY DEF PoolInv, RunningCounts
<1>2. Alive' = Alive
  BY DEF Alive
<1>3. Busy' = Busy
  BY <1>1 DEF Busy
<1>4. PoolTypes'
  BY DEF PoolInv, PoolTypes
<1>5. JobsInOrder'
  BY DEF PoolInv, JobsInOrder
<1>6. RunningCounts' /\ LeftCounts'
  BY <1>1, <1>2, <1>3 DEF PoolInv, RunningCounts, LeftCounts
<1>7. MasterWaits'
  BY DEF PoolInv, MasterWaits
<1> QED
  BY <1>4, <1>5, <1>6, <1>7 DEF PoolInv

\* The record of a thread that goes somewhere else.
LEMMA SetPc ==
  ASSUME NEW r \in WorkerState, NEW x \in Up \cup {"none", "wait", "exited"}
  PROVE  /\ [r EXCEPT !.pc = x] \in WorkerState
         /\ [r EXCEPT !.pc = x].pc = x /\ [r EXCEPT !.pc = x].ran = r.ran
BY DEF WorkerState

\* A sleeper wakes for no reason, or because an event is set; it counts itself out, and
\* the last one of a broadcast ends it.
LEMMA WakeInv ==
  ASSUME PoolInv, NEW w \in PoolWorkers,
         SpuriousWakeup(w) \/ WinWake(w) \/ WinLeave(w) \/ WinReset(w)
  PROVE  PoolInv'
<1>t. PoolTypes /\ JobHasThread /\ StopReaches
  BY DEF PoolInv
<1>1. PICK y \in {"woken", "signalled", "broadcasted", "last"} :
        pool_worker' = [pool_worker EXCEPT ![w].pc = y]
  BY DEF SpuriousWakeup, WinWake, WinLeave, WinReset
<1>2. pool_worker[w].pc \in {"wait", "signalled", "broadcasted", "last"}
  BY DEF SpuriousWakeup, WinWake, WinLeave, WinReset
<1>3. /\ pool_worker' \in [PoolWorkers -> WorkerState] /\ pool_worker'[w].pc = y
      /\ pool_worker'[w].ran = pool_worker[w].ran
      /\ \A v \in PoolWorkers : v # w => pool_worker'[v] = pool_worker[v]
  <2>1. y \in Up \cup {"none", "wait", "exited"} /\ pool_worker \in [PoolWorkers -> WorkerState]
    BY <1>t, <1>1 DEF Up, PoolTypes
  <2>2. pool_worker' = [pool_worker EXCEPT ![w] = [pool_worker[w] EXCEPT !.pc = y]]
    BY <1>1, Zenon
  <2> QED
    BY <2>1, <2>2, SetPc
<1>4. /\ pool_port' = pool_port
      /\ UNCHANGED <<pool_queue, pool_running, pool_left, pool_stop, pool_master, pool_jobs, pool_done>>
  BY DEF SpuriousWakeup, WinWake, WinLeave, WinReset
<1>5. pool_signal' \in BOOLEAN /\ pool_broadcast' \in BOOLEAN
  BY <1>t DEF SpuriousWakeup, WinWake, WinLeave, WinReset, poolEvents, PoolTypes
<1>6. JobHasThread'
  BY <1>1, <1>3 DEF JobHasThread, Up
<1>7. StopReaches'
  <2>1. CASE SpuriousWakeup(w)
    <3>1. pool_worker'[w].pc = "woken" /\ pool_broadcast' = pool_broadcast
      BY <1>t, <2>1 DEF SpuriousWakeup, poolEvents, PoolTypes
    <3> QED
      BY <1>t, <1>3, <1>4, <3>1 DEF StopReaches
  <2>2. CASE WinWake(w)
    <3>1. /\ pool_worker'[w].pc \in {"signalled", "broadcasted"} /\ pool_broadcast' = pool_broadcast
          /\ pool_worker'[w].pc = "broadcasted" => pool_broadcast
      BY <1>t, <2>2 DEF WinWake, PoolTypes, WorkerState
    <3> QED
      BY <1>t, <1>3, <1>4, <3>1 DEF StopReaches
  <2>3. CASE WinLeave(w)
    <3>1. pool_worker'[w].pc \in {"woken", "last"} /\ pool_broadcast' = pool_broadcast
      BY <1>t, <2>3 DEF WinLeave, poolEvents, PoolTypes, WorkerState
    <3>2. pool_worker'[w].pc = "last" =>
            pool_worker[w].pc = "broadcasted" /\ \A v \in PoolWorkers : v # w => pool_worker[v].pc # "wait"
      BY <1>t, <2>3 DEF WinLeave, WinWaiters, PoolTypes, WorkerState
    <3> QED
      BY <1>t, <1>3, <1>4, <3>1, <3>2 DEF StopReaches
  <2>4. CASE WinReset(w)
    <3>1. pool_worker[w].pc = "last" /\ pool_worker'[w].pc = "woken" /\ pool_broadcast' = FALSE
      BY <1>t, <2>4 DEF WinReset, PoolTypes, WorkerState
    <3> QED
      BY <1>t, <1>3, <1>4, <3>1 DEF StopReaches
  <2> QED
    BY <2>1, <2>2, <2>3, <2>4
<1>8. \A v \in PoolWorkers :
        /\ pool_worker'[v].pc \in Up \cup {"wait"} <=> pool_worker[v].pc \in Up \cup {"wait"}
        /\ pool_worker'[v].ran = pool_worker[v].ran
        /\ pool_worker'[v].pc = "exec" => pool_worker[v].pc = "exec"
        /\ pool_worker'[v].pc = "lock" => pool_worker[v].pc \in {"lock", "exec"}
        /\ pool_worker[v].pc = "lock" => pool_worker'[v].pc = "lock"
        /\ pool_worker[v].pc = "exec" => pool_worker'[v].pc \in {"lock", "exec"}
  BY <1>1, <1>2, <1>3 DEF Up
<1> QED
  BY <1>3, <1>4, <1>5, <1>6, <1>7, <1>8, PlacesInv

\* The port is chosen.
LEMMA ChooseInv ==
  ASSUME PoolInv, NEW port \in {"posix", "win"}, PoolChoose(port)
  PROVE  PoolInv'
<1>1. /\ pool_port' \in {"posix", "win"}
      /\ UNCHANGED <<pool_signal, pool_broadcast, pool_queue, pool_running, pool_left, pool_stop,
                     pool_worker, pool_master, pool_jobs, pool_done>>
  BY DEF PoolChoose, poolEvents
<1>2. JobHasThread' /\ StopReaches'
  BY <1>1 DEF PoolInv, JobHasThread, StopReaches
<1>3. pool_worker' \in [PoolWorkers -> WorkerState] /\ pool_signal' \in BOOLEAN /\ pool_broadcast' \in BOOLEAN
  BY <1>1 DEF PoolInv, PoolTypes
<1> QED
  BY <1>1, <1>2, <1>3, PlacesInv

\* The master enters its wait or leaves it, and ends the destruction when nobody runs.
LEMMA MasterInv ==
  ASSUME PoolInv, PoolWait \/ MasterSpurious \/ PoolDestroyed
  PROVE  PoolInv'
<1>t. PoolTypes /\ RunningCounts /\ MasterWaits
  BY DEF PoolInv
<1>1. UNCHANGED <<pool_port, pool_signal, pool_broadcast, pool_queue, pool_running, pool_left,
                  pool_stop, pool_worker, pool_jobs, pool_done>>
  BY DEF PoolWait, MasterSpurious, PoolDestroyed, poolEvents
<1>2. pool_running \in Nat
  BY <1>t, PoolFinite DEF RunningCounts
<1>3. /\ pool_master' \in {"idle", "waiting", "wait_woken"} \cup Ending /\ MasterWaits'
  <2>1. CASE PoolWait
    BY <1>t, <1>1, <2>1 DEF PoolWait, MasterWaits, Ending, PoolTypes
  <2>2. CASE MasterSpurious
    BY <1>t, <1>1, <2>2, MasterSignalled DEF MasterSpurious, MasterWaits, Ending, PoolTypes
  <2>3. CASE PoolDestroyed
    BY <1>t, <1>1, <1>2, <2>3 DEF PoolDestroyed, MasterWaits, Ending, PoolTypes
  <2> QED
    BY <2>1, <2>2, <2>3
<1>4. PoolTypes'
  BY <1>t, <1>1, <1>3 DEF PoolTypes
<1>5. JobsInOrder' /\ RunningCounts' /\ LeftCounts' /\ JobHasThread' /\ StopReaches'
  BY <1>1 DEF PoolInv, JobsInOrder, RunningCounts, LeftCounts, JobHasThread, StopReaches, Alive, Busy
<1> QED
  BY <1>3, <1>4, <1>5 DEF PoolInv

\* The pool stops: the broadcast reaches every sleeper.
LEMMA DestroyInv ==
  ASSUME PoolInv, PoolDestroy
  PROVE  PoolInv'
<1>t. PoolTypes /\ RunningCounts /\ StopReaches /\ JobsInOrder
  BY DEF PoolInv
<1>1. /\ pool_queue' = <<>> /\ pool_stop' = TRUE /\ pool_master' = "destroy_woken"
      /\ UNCHANGED <<pool_port, pool_signal, pool_running, pool_left, pool_jobs, pool_done>>
  BY DEF PoolDestroy
<1>2. /\ pool_worker' \in [PoolWorkers -> WorkerState] /\ pool_broadcast' \in BOOLEAN
      /\ \A v \in PoolWorkers :
           /\ pool_worker'[v].ran = pool_worker[v].ran
           /\ \/ pool_worker'[v].pc = pool_worker[v].pc /\ (pool_worker[v].pc = "wait" => pool_broadcast')
              \/ pool_worker[v].pc = "wait" /\ pool_worker'[v].pc = "woken"
  <2>1. CASE pool_port = "posix"
    <3>1. /\ pool_broadcast' = pool_broadcast
          /\ pool_worker' = [v \in PoolWorkers |->
               IF pool_worker[v].pc = "wait" THEN [pool_worker[v] EXCEPT !.pc = "woken"] ELSE pool_worker[v]]
      BY <2>1 DEF PoolDestroy, BroadcastWorker, Sleeping
    <3>2. \A v \in PoolWorkers : pool_worker[v] \in WorkerState
      BY <1>t DEF PoolTypes
    <3>3. "woken" \in Up \cup {"none", "wait", "exited"}
      BY DEF Up
    <3>4. \A v \in PoolWorkers :
            /\ pool_worker'[v] \in WorkerState /\ pool_worker'[v].ran = pool_worker[v].ran
            /\ pool_worker'[v].pc = IF pool_worker[v].pc = "wait" THEN "woken" ELSE pool_worker[v].pc
      BY <3>1, <3>2, <3>3, SetPc
    <3> QED
      BY <1>t, <3>1, <3>4 DEF PoolTypes
  <2>2. CASE pool_port = "win"
    <3>1. pool_worker' = pool_worker /\ pool_broadcast' = (pool_broadcast \/ WinWaiters(pool_worker) # {})
      BY <2>2 DEF PoolDestroy, BroadcastWorker
    <3>2. pool_broadcast' \in BOOLEAN
      BY <3>1, Zenon
    <3>3. \A v \in PoolWorkers : pool_worker[v].pc = "wait" => pool_broadcast'
      BY <3>1 DEF WinWaiters
    <3> QED
      BY <1>t, <3>1, <3>2, <3>3 DEF PoolTypes
  <2> QED
    BY <2>1, <2>2 DEF PoolDestroy, BroadcastWorker
<1>3. Alive' = Alive
  BY <1>2 DEF Alive, Up
<1>4. PoolTypes'
  <2>1. pool_queue' \in Seq(Nat)
    BY <1>1
  <2>2. pool_stop' \in BOOLEAN
    BY <1>1, Zenon
  <2> QED
    BY <1>t, <1>1, <1>2, <2>1, <2>2 DEF PoolTypes, Ending
<1>5. JobsInOrder'
  BY <1>t, <1>1 DEF JobsInOrder
<1>6. RunningCounts'
  BY <1>t, <1>1, <1>2, <1>3 DEF RunningCounts
<1>7. LeftCounts' /\ JobHasThread'
  BY <1>1 DEF LeftCounts, JobHasThread
<1>8. MasterWaits'
  BY <1>1 DEF MasterWaits, Ending
<1>9. StopReaches'
  BY <1>t, <1>1, <1>2 DEF StopReaches
<1> QED
  BY <1>4, <1>5, <1>6, <1>7, <1>8, <1>9 DEF PoolInv

\* ldb_cond_signal on pool->worker: a sleeper may wake, and where somebody waits a
\* sleeper does, or the event is set.
LEMMA SignalWakes ==
  ASSUME NEW ws \in [PoolWorkers -> WorkerState], SignalWorker(ws), pool_signal \in BOOLEAN
  PROVE  /\ pool_worker' \in [PoolWorkers -> WorkerState] /\ pool_signal' \in BOOLEAN
         /\ pool_signal => pool_signal'
         /\ \A v \in PoolWorkers :
              /\ pool_worker'[v].ran = ws[v].ran
              /\ \/ pool_worker'[v].pc = ws[v].pc
                 \/ ws[v].pc = "wait" /\ pool_worker'[v].pc = "woken"
         /\ \A v \in PoolWorkers : ws[v].pc = "wait" =>
              pool_signal' \/ \E u \in PoolWorkers : pool_worker'[u].pc = "woken"
<1>1. CASE pool_port = "posix"
  <2>1. pool_signal' = pool_signal
    BY <1>1 DEF SignalWorker
  <2>2. CASE Sleeping(ws) = {}
    <3>1. pool_worker' = ws
      BY <1>1, <2>2 DEF SignalWorker
    <3> QED
      BY <2>1, <2>2, <3>1 DEF Sleeping
  <2>3. CASE Sleeping(ws) # {}
    <3>1. PICK w \in Sleeping(ws) : pool_worker' = [ws EXCEPT ![w].pc = "woken"]
      BY <1>1, <2>3 DEF SignalWorker
    <3>2. w \in PoolWorkers /\ ws[w].pc = "wait" /\ ws[w] \in WorkerState
      BY <3>1 DEF Sleeping
    <3>3. pool_worker' = [ws EXCEPT ![w] = [ws[w] EXCEPT !.pc = "woken"]]
      BY <3>1, Zenon
    <3>4. "woken" \in Up \cup {"none", "wait", "exited"}
      BY DEF Up
    <3>5. /\ [ws[w] EXCEPT !.pc = "woken"] \in WorkerState
          /\ [ws[w] EXCEPT !.pc = "woken"].pc = "woken" /\ [ws[w] EXCEPT !.pc = "woken"].ran = ws[w].ran
      BY <3>2, <3>4, SetPc
    <3> QED
      BY <2>1, <3>2, <3>3, <3>5
  <2> QED
    BY <2>2, <2>3
<1>2. CASE pool_port = "win"
  <2>1. pool_worker' = ws /\ pool_signal' = (pool_signal \/ WinWaiters(ws) # {})
    BY <1>2 DEF SignalWorker
  <2>2. pool_signal' \in BOOLEAN /\ (pool_signal => pool_signal')
    BY <2>1, Zenon
  <2>3. \A v \in PoolWorkers : ws[v].pc = "wait" => pool_signal'
    BY <2>1 DEF WinWaiters
  <2> QED
    BY <2>1, <2>2, <2>3
<1> QED
  BY <1>1, <1>2 DEF SignalWorker

\* A new job, from a client or from a job: somebody is there to take it.  ws are the
\* worker states, in which at most a thread has finished executing.
LEMMA ScheduleInv ==
  ASSUME PoolInv, NEW ws \in [PoolWorkers -> WorkerState], Schedule(ws),
         \A v \in PoolWorkers :
           /\ ws[v].ran = pool_worker[v].ran
           /\ \/ ws[v].pc = pool_worker[v].pc
              \/ pool_worker[v].pc = "exec" /\ ws[v].pc = "lock",
         ~pool_stop \/ pool_running # 0,
         UNCHANGED <<pool_port, pool_broadcast, pool_stop, pool_master, pool_done>>
  PROVE  PoolInv'
<1> DEFINE fresh == [pc |-> "lock", job |-> 0, ran |-> FALSE]
           started == IF pool_running = 0 THEN [w \in PoolWorkers |-> fresh] ELSE ws
<1>t. PoolTypes /\ JobsInOrder /\ RunningCounts /\ LeftCounts /\ MasterWaits /\ StopReaches
  BY DEF PoolInv
<1>1. /\ pool_running' = IF pool_running = 0 THEN Cardinality(PoolWorkers) ELSE pool_running
      /\ pool_queue' = Append(pool_queue, pool_jobs + 1) /\ pool_jobs' = pool_jobs + 1
      /\ pool_left' = pool_left + 1 /\ SignalWorker(started)
  BY DEF Schedule
<1>2. fresh \in WorkerState /\ fresh.pc = "lock" /\ fresh.ran = FALSE
  BY DEF WorkerState, Up
<1>3. started \in [PoolWorkers -> WorkerState]
  BY <1>2
<1>4. \A v \in PoolWorkers : pool_running = 0 => started[v].pc = "lock" /\ started[v].ran = FALSE
  BY <1>2
<1>5. \A v \in PoolWorkers : pool_running # 0 => started[v] = ws[v]
  OBVIOUS
<1> HIDE DEF fresh, started
<1>6. /\ pool_worker' \in [PoolWorkers -> WorkerState] /\ pool_signal' \in BOOLEAN
      /\ pool_signal => pool_signal'
      /\ \A v \in PoolWorkers :
           /\ pool_worker'[v].ran = started[v].ran
           /\ \/ pool_worker'[v].pc = started[v].pc
              \/ started[v].pc = "wait" /\ pool_worker'[v].pc = "woken"
      /\ \A v \in PoolWorkers : started[v].pc = "wait" =>
           pool_signal' \/ \E u \in PoolWorkers : pool_worker'[u].pc = "woken"
  BY <1>t, <1>1, <1>3, SignalWakes DEF PoolTypes
<1>7. pool_running = Cardinality(Alive) /\ pool_running \in Nat /\ Cardinality(Busy) \in Nat
  BY <1>t, PoolFinite DEF RunningCounts
<1>8. Busy' = Busy
  <2>1. CASE pool_running = 0
    <3>1. Busy = {}
      BY <2>1, NobodyRuns
    <3>2. \A v \in PoolWorkers : pool_worker'[v].pc = "lock" /\ pool_worker'[v].ran = FALSE
      BY <1>4, <1>6, <2>1
    <3> QED
      BY <3>1, <3>2 DEF Busy
  <2>2. CASE pool_running # 0
    BY <1>t, <1>5, <1>6, <2>2 DEF Busy, RunningCounts
  <2> QED
    BY <2>1, <2>2
<1>9. PoolTypes'
  <2>1. Cardinality(PoolWorkers) \in Nat
    BY PoolAssumption, FS_CardinalityType
  <2>2. pool_queue' \in Seq(Nat)
    BY <1>t, <1>1 DEF PoolTypes
  <2> QED
    BY <1>t, <1>1, <1>6, <2>1, <2>2 DEF PoolTypes
<1>10. JobsInOrder'
  <2>1. /\ Len(pool_queue') = Len(pool_queue) + 1 /\ Len(pool_queue) \in Nat
        /\ \A i \in 1..Len(pool_queue) : pool_queue'[i] = pool_queue[i]
        /\ pool_queue'[Len(pool_queue) + 1] = pool_jobs + 1
    BY <1>t, <1>1 DEF PoolTypes
  <2>2. /\ \A i \in 1..Len(pool_queue) : pool_queue[i] \in Nat
        /\ \A i \in 1..Len(pool_done) : pool_done[i] \in Nat
        /\ pool_jobs \in Nat
    BY <1>t DEF PoolTypes
  <2>3. pool_done' = pool_done /\ pool_jobs' = pool_jobs + 1
    BY <1>1
  <2>4. \A i \in 1..Len(pool_queue') : i \in 1..Len(pool_queue) \/ i = Len(pool_queue) + 1
    BY <2>1
  <2>5. Len(pool_done) \in Nat /\ Len(pool_done') = Len(pool_done)
    BY <1>t, <2>3 DEF PoolTypes
  <2>6. \A i, j \in 1..Len(pool_done') : i < j => pool_done'[i] < pool_done'[j]
    BY <1>t, <2>3 DEF JobsInOrder
  <2>7. ASSUME NEW i \in 1..Len(pool_done), NEW j \in 1..Len(pool_queue')
        PROVE  pool_done[i] < pool_queue'[j]
    <3>1. CASE j \in 1..Len(pool_queue)
      BY <1>t, <2>1, <3>1 DEF JobsInOrder
    <3>2. CASE j = Len(pool_queue) + 1
      BY <1>t, <2>1, <2>2, <3>2 DEF JobsInOrder
    <3> QED
      BY <2>4, <3>1, <3>2
  <2>8. ASSUME NEW i \in 1..Len(pool_queue'), NEW j \in 1..Len(pool_queue'), i < j
        PROVE  pool_queue'[i] < pool_queue'[j]
    <3>1. i \in 1..Len(pool_queue)
      BY <2>1, <2>8
    <3>2. CASE j \in 1..Len(pool_queue)
      BY <1>t, <2>1, <2>8, <3>1, <3>2 DEF JobsInOrder
    <3>3. CASE j = Len(pool_queue) + 1
      BY <1>t, <2>1, <2>2, <3>1, <3>3 DEF JobsInOrder
    <3> QED
      BY <2>4, <3>2, <3>3
  <2>9. \A i \in 1..Len(pool_done') : pool_done'[i] <= pool_jobs'
    BY <1>t, <2>2, <2>3 DEF JobsInOrder
  <2>10. \A i \in 1..Len(pool_queue') : pool_queue'[i] <= pool_jobs'
    BY <1>t, <2>1, <2>2, <2>3, <2>4 DEF JobsInOrder
  <2> QED
    BY <2>3, <2>6, <2>7, <2>8, <2>9, <2>10 DEF JobsInOrder
<1>11. RunningCounts'
  <2>1. \A v \in PoolWorkers : pool_worker'[v].pc = "exec" => pool_worker'[v].ran
    BY <1>t, <1>4, <1>5, <1>6 DEF RunningCounts
  <2>2. CASE pool_running = 0
    <3>1. \A v \in PoolWorkers : pool_worker'[v].pc = "lock"
      BY <1>4, <1>6, <2>2
    <3>2. Alive' = PoolWorkers
      BY <3>1 DEF Alive, Up
    <3> QED
      BY <1>1, <2>1, <2>2, <3>2 DEF RunningCounts
  <2>3. CASE pool_running # 0
    <3>1. Alive' = Alive
      BY <1>5, <1>6, <2>3 DEF Alive, Up
    <3> QED
      BY <1>1, <1>7, <2>1, <2>3, <3>1 DEF RunningCounts
  <2> QED
    BY <2>2, <2>3
<1>12. LeftCounts'
  <2>1. Len(pool_queue') = Len(pool_queue) + 1 /\ Len(pool_queue) \in Nat
    BY <1>t, <1>1 DEF PoolTypes
  <2> QED
    BY <1>t, <1>1, <1>7, <1>8, <2>1 DEF LeftCounts, PoolTypes
<1>13. MasterWaits'
  <2>1. pool_running' > 0 \/ ~pool_stop
    BY <1>1, <1>7
  <2>2. pool_master # "destroyed"
    BY <1>t DEF MasterWaits, Ending
  <2>3. pool_left' > pool_left /\ pool_left \in Int
    BY <1>t, <1>1 DEF PoolTypes
  <2>4. pool_master = "destroying" => pool_running' > 0
    BY <1>t, <2>1 DEF MasterWaits, Ending
  <2> QED
    BY <1>t, <1>1, <2>2, <2>3, <2>4 DEF MasterWaits
<1>14. JobHasThread'
  <2>1. CASE \E v \in PoolWorkers : started[v].pc = "wait"
    <3>1. PICK v \in PoolWorkers : started[v].pc = "wait"
      BY <2>1
    <3>2. CASE pool_signal'
      BY <1>6, <3>1, <3>2 DEF JobHasThread, Up
    <3>3. CASE \E u \in PoolWorkers : pool_worker'[u].pc = "woken"
      BY <3>3 DEF JobHasThread, Up
    <3> QED
      BY <1>6, <3>1, <3>2, <3>3
  <2>2. CASE \A v \in PoolWorkers : started[v].pc # "wait"
    <3>1. PICK v \in PoolWorkers : started[v].pc \in Up
      <4>1. CASE pool_running = 0
        BY <1>4, <4>1, PoolAssumption DEF Up
      <4>2. CASE pool_running # 0
        <5>1. Alive # {}
          BY <1>7, <4>2, FS_EmptySet
        <5>2. PICK v \in PoolWorkers : pool_worker[v].pc \in Up \cup {"wait"}
          BY <5>1 DEF Alive
        <5> QED
          BY <1>5, <2>2, <4>2, <5>2 DEF Up
      <4> QED
        BY <4>1, <4>2
    <3>2. pool_worker'[v].pc \in Up
      BY <1>6, <3>1, <2>2
    <3> QED
      BY <3>2 DEF JobHasThread
  <2> QED
    BY <2>1, <2>2
<1>15. StopReaches'
  <2>1. \A v \in PoolWorkers :
          /\ pool_worker'[v].pc = "wait" => pool_worker[v].pc = "wait"
          /\ pool_worker'[v].pc = "last" => pool_worker[v].pc = "last" /\ pool_running # 0
          /\ pool_worker'[v].pc = "broadcasted" => pool_worker[v].pc = "broadcasted"
    BY <1>4, <1>5, <1>6
  <2> QED
    BY <1>t, <2>1 DEF StopReaches
<1> QED
  BY <1>9, <1>10, <1>11, <1>12, <1>13, <1>14, <1>15 DEF PoolInv

\* The loop of a thread on the queue: it sleeps when nothing waits, leaves a stopped
\* pool, or takes the first job.  left and master are what the section has made of
\* pool->left and of the master so far.
LEMMA LoopInv ==
  ASSUME PoolInv, NEW w \in PoolWorkers, pool_worker[w].pc \in {"lock", "woken"}, NEW master,
         WorkerLoop(w, master),
         pool_left' = IF w \in Busy THEN pool_left - 1 ELSE pool_left,
         \/ master = pool_master /\ (pool_master = "waiting" => pool_left' > 0)
         \/ master = SignalMaster(pool_master),
         UNCHANGED <<pool_port, pool_signal, pool_broadcast, pool_stop, pool_jobs>>
  PROVE  PoolInv'
<1>t. PoolTypes /\ JobsInOrder /\ RunningCounts /\ LeftCounts /\ MasterWaits /\ JobHasThread /\ StopReaches
  BY DEF PoolInv
<1>c. /\ IsFiniteSet(Alive) /\ Cardinality(Alive) \in Nat
      /\ IsFiniteSet(Busy) /\ Cardinality(Busy) \in Nat
  BY PoolFinite
<1>w. w \in Alive /\ Cardinality(Alive) > 0
  <2>1. w \in Alive
    BY DEF Alive, Up
  <2> QED
    BY <1>c, <2>1, CountOne
<1>m. /\ master \in {"idle", "waiting", "wait_woken"} \cup Ending
      /\ master \in Ending <=> pool_master \in Ending
      /\ master # "destroyed" /\ pool_master # "destroyed"
      /\ master = "waiting" => pool_left' > 0
      /\ master = "destroying" => pool_master = "destroying"
  <2>1. pool_master # "destroyed"
    BY <1>t, <1>w DEF MasterWaits, RunningCounts
  <2> QED
    BY <1>t, <2>1, MasterSignalled DEF PoolTypes, Ending
<1>s. pool_worker \in [PoolWorkers -> WorkerState] /\ pool_worker[w] \in WorkerState
  BY <1>t DEF PoolTypes
<1>1. CASE ~pool_stop /\ pool_queue = <<>> /\ pool_worker' = [pool_worker EXCEPT ![w].pc = "wait"]
           /\ pool_master' = master /\ UNCHANGED <<pool_queue, pool_running, pool_done>>
  <2>1. /\ pool_worker' \in [PoolWorkers -> WorkerState] /\ pool_worker'[w].pc = "wait"
        /\ pool_worker'[w].ran = pool_worker[w].ran
        /\ \A v \in PoolWorkers : v # w => pool_worker'[v] = pool_worker[v]
    <3>1. pool_worker' = [pool_worker EXCEPT ![w] = [pool_worker[w] EXCEPT !.pc = "wait"]]
      BY <1>1, Zenon
    <3> QED
      BY <1>s, <3>1, SetPc
  <2>2. Alive' = Alive /\ Busy' = Busy \ {w}
    BY <1>w, <2>1 DEF Alive, Busy
  <2>3. pool_left' = Len(pool_queue) + Cardinality(Busy')
    <3>1. CASE w \in Busy
      BY <1>t, <1>c, <1>1, <2>2, <3>1, CountOne DEF LeftCounts, PoolTypes
    <3>2. CASE w \notin Busy
      <4>1. Busy' = Busy
        BY <2>2, <3>2
      <4> QED
        BY <1>t, <1>1, <3>2, <4>1 DEF LeftCounts
    <3> QED
      BY <3>1, <3>2
  <2>4. PoolTypes'
    BY <1>t, <1>m, <1>1, <2>1 DEF PoolTypes
  <2>5. RunningCounts'
    BY <1>t, <1>1, <2>1, <2>2 DEF RunningCounts
  <2>6. JobsInOrder'
    BY <1>t, <1>1 DEF JobsInOrder
  <2>7. MasterWaits'
    BY <1>t, <1>m, <1>1 DEF MasterWaits
  <2>8. LeftCounts' /\ JobHasThread'
    BY <1>1, <2>3 DEF LeftCounts, JobHasThread
  <2>9. StopReaches'
    BY <1>t, <1>1, <2>1 DEF StopReaches
  <2> QED
    BY <2>4, <2>5, <2>6, <2>7, <2>8, <2>9 DEF PoolInv
<1>2. CASE pool_stop /\ pool_running' = pool_running - 1
           /\ pool_master' = (IF pool_running = 1 THEN SignalMaster(master) ELSE master)
           /\ pool_worker' = [pool_worker EXCEPT ![w].pc = "exited"] /\ UNCHANGED <<pool_queue, pool_done>>
  <2>1. /\ pool_worker' \in [PoolWorkers -> WorkerState] /\ pool_worker'[w].pc = "exited"
        /\ pool_worker'[w].ran = pool_worker[w].ran
        /\ \A v \in PoolWorkers : v # w => pool_worker'[v] = pool_worker[v]
    <3>1. pool_worker' = [pool_worker EXCEPT ![w] = [pool_worker[w] EXCEPT !.pc = "exited"]]
      BY <1>2, Zenon
    <3> QED
      BY <1>s, <3>1, SetPc
  <2>2. Alive' = Alive \ {w}
    BY <2>1 DEF Alive, Up
  <2>3. pool_running = Cardinality(Alive) /\ pool_running' = Cardinality(Alive') /\ pool_running > 0
    BY <1>t, <1>c, <1>w, <1>2, <2>2, CountOne DEF RunningCounts
  <2>4. /\ pool_master' \in {"idle", "waiting", "wait_woken"} \cup Ending
        /\ pool_master' \in Ending /\ pool_master' # "destroyed"
        /\ pool_running = 1 => pool_master' # "destroying"
    <3>1. master \in Ending
      BY <1>t, <1>m, <1>2 DEF MasterWaits
    <3> QED
      BY <1>m, <1>2, <3>1, MasterSignalled DEF Ending
  <2>5. PoolTypes'
    BY <1>t, <1>2, <2>1, <2>4 DEF PoolTypes
  <2>6. RunningCounts'
    BY <1>t, <2>1, <2>3 DEF RunningCounts
  <2>7. JobsInOrder'
    BY <1>t, <1>2 DEF JobsInOrder
  <2>8. MasterWaits'
    <3>1. pool_master' = "destroying" => pool_running' > 0
      BY <1>c, <1>2, <2>3, <2>4
    <3> QED
      BY <1>2, <2>4, <3>1 DEF MasterWaits, Ending
  <2>9. LeftCounts' /\ JobHasThread'
    BY <1>2 DEF LeftCounts, JobHasThread
  <2>10. StopReaches'
    BY <1>t, <1>2, <2>1 DEF StopReaches
  <2> QED
    BY <2>5, <2>6, <2>7, <2>8, <2>9, <2>10 DEF PoolInv
<1>3. CASE /\ ~pool_stop /\ pool_queue # <<>> /\ pool_queue' = Tail(pool_queue)
           /\ pool_done' = Append(pool_done, Head(pool_queue))
           /\ pool_worker' = [pool_worker EXCEPT ![w] = [pc |-> "exec", job |-> Head(pool_queue), ran |-> TRUE]]
           /\ pool_master' = master /\ pool_running' = pool_running
  <2>1. /\ Head(pool_queue) = pool_queue[1] /\ Head(pool_queue) \in Nat
        /\ Len(pool_queue) \in Nat /\ Len(pool_queue) > 0 /\ Len(pool_queue') = Len(pool_queue) - 1
        /\ \A i \in 1..Len(pool_queue') : i + 1 \in 1..Len(pool_queue) /\ pool_queue'[i] = pool_queue[i + 1]
    BY <1>t, <1>3 DEF PoolTypes
  <2>2. [pc |-> "exec", job |-> Head(pool_queue), ran |-> TRUE] \in WorkerState
    BY <2>1 DEF WorkerState, Up
  <2>3. /\ pool_worker' \in [PoolWorkers -> WorkerState] /\ pool_worker'[w].pc = "exec" /\ pool_worker'[w].ran
        /\ \A v \in PoolWorkers : v # w => pool_worker'[v] = pool_worker[v]
    BY <1>s, <1>3, <2>2
  <2>4. Alive' = Alive /\ Busy' = Busy \cup {w}
    BY <1>w, <2>3 DEF Alive, Busy, Up
  <2>5. pool_left' = Len(pool_queue') + Cardinality(Busy')
    <3>1. CASE w \in Busy
      <4>1. Busy' = Busy
        BY <2>4, <3>1
      <4> QED
        BY <1>t, <1>c, <1>3, <2>1, <3>1, <4>1 DEF LeftCounts
    <3>2. CASE w \notin Busy
      BY <1>t, <1>c, <1>3, <2>1, <2>4, <3>2, CountOne DEF LeftCounts
    <3> QED
      BY <3>1, <3>2
  <2>6. PoolTypes'
    <3>1. pool_queue' \in Seq(Nat) /\ pool_done' \in Seq(Nat)
      BY <1>t, <1>3, <2>1 DEF PoolTypes
    <3> QED
      BY <1>t, <1>m, <1>3, <2>3, <3>1 DEF PoolTypes
  <2>7. RunningCounts'
    BY <1>t, <1>3, <2>3, <2>4 DEF RunningCounts
  <2>8. JobsInOrder'
    <3>1. /\ Len(pool_done) \in Nat /\ Len(pool_done') = Len(pool_done) + 1
          /\ \A i \in 1..Len(pool_done) : pool_done'[i] = pool_done[i]
          /\ pool_done'[Len(pool_done) + 1] = pool_queue[1]
      BY <1>t, <1>3, <2>1 DEF PoolTypes
    <3>2. \A i \in 1..Len(pool_done') : i \in 1..Len(pool_done) \/ i = Len(pool_done) + 1
      BY <3>1
    <3>3. 1 \in 1..Len(pool_queue) /\ \A i \in 1..Len(pool_queue') : 1 < i + 1
      BY <2>1
    <3>4. ASSUME NEW i \in 1..Len(pool_done'), NEW j \in 1..Len(pool_done'), i < j
          PROVE  pool_done'[i] < pool_done'[j]
      <4>1. i \in 1..Len(pool_done)
        BY <3>1, <3>4
      <4> QED
        BY <1>t, <3>1, <3>2, <3>3, <3>4, <4>1 DEF JobsInOrder
    <3>5. ASSUME NEW i \in 1..Len(pool_done'), NEW j \in 1..Len(pool_queue')
          PROVE  pool_done'[i] < pool_queue'[j]
      <4>1. j + 1 \in 1..Len(pool_queue) /\ pool_queue'[j] = pool_queue[j + 1]
        BY <2>1
      <4>2. CASE i \in 1..Len(pool_done)
        BY <1>t, <3>1, <4>1, <4>2 DEF JobsInOrder
      <4>3. CASE i = Len(pool_done) + 1
        BY <1>t, <3>1, <3>3, <4>1, <4>3 DEF JobsInOrder
      <4> QED
        BY <3>2, <4>2, <4>3
    <3>6. ASSUME NEW i \in 1..Len(pool_queue'), NEW j \in 1..Len(pool_queue'), i < j
          PROVE  pool_queue'[i] < pool_queue'[j]
      <4>1. /\ i + 1 \in 1..Len(pool_queue) /\ pool_queue'[i] = pool_queue[i + 1]
            /\ j + 1 \in 1..Len(pool_queue) /\ pool_queue'[j] = pool_queue[j + 1] /\ i + 1 < j + 1
        <5>1. i + 1 \in 1..Len(pool_queue) /\ pool_queue'[i] = pool_queue[i + 1]
          BY <2>1
        <5>2. j + 1 \in 1..Len(pool_queue) /\ pool_queue'[j] = pool_queue[j + 1]
          BY <2>1
        <5>3. i + 1 < j + 1
          BY <3>6
        <5> QED
          BY <5>1, <5>2, <5>3
      <4> QED
        BY <1>t, <4>1 DEF JobsInOrder
    <3>7. \A i \in 1..Len(pool_done') : pool_done'[i] <= pool_jobs'
      BY <1>t, <3>1, <3>2, <3>3 DEF JobsInOrder
    <3>8. \A i \in 1..Len(pool_queue') : pool_queue'[i] <= pool_jobs'
      BY <1>t, <2>1 DEF JobsInOrder
    <3> QED
      BY <3>4, <3>5, <3>6, <3>7, <3>8 DEF JobsInOrder
  <2>9. MasterWaits'
    BY <1>t, <1>m, <1>3 DEF MasterWaits
  <2>10. LeftCounts' /\ JobHasThread'
    BY <2>3, <2>5 DEF LeftCounts, JobHasThread, Up
  <2>11. StopReaches'
    BY <1>t, <1>3, <2>3 DEF StopReaches
  <2> QED
    BY <2>6, <2>7, <2>8, <2>9, <2>10, <2>11 DEF PoolInv
<1> QED
  BY <1>1, <1>2, <1>3 DEF WorkerLoop

\* A client's job.
LEMMA ClientScheduleInv ==
  ASSUME PoolInv, PoolSchedule
  PROVE  PoolInv'
<1>1. Schedule(pool_worker) /\ ~pool_stop
  BY DEF PoolSchedule
<1>2. UNCHANGED <<pool_port, pool_broadcast, pool_stop, pool_master, pool_done>>
  BY DEF PoolSchedule
<1>3. pool_worker \in [PoolWorkers -> WorkerState]
  BY DEF PoolInv, PoolTypes
<1> QED
  BY <1>1, <1>2, <1>3, ScheduleInv

\* A thread counts its job and looks at the queue, or looks at it again after a wakeup.
LEMMA WorkerInv ==
  ASSUME PoolInv, NEW w \in PoolWorkers, WorkerLock(w) \/ WorkerWoken(w)
  PROVE  PoolInv'
<1>t. PoolTypes /\ MasterWaits
  BY DEF PoolInv
<1>1. UNCHANGED <<pool_port, pool_signal, pool_broadcast, pool_stop, pool_jobs>>
  BY DEF WorkerLock, WorkerWoken, poolEvents
<1>2. CASE WorkerLock(w)
  <2> DEFINE master == IF pool_worker[w].ran /\ ~pool_stop /\ pool_left = 1
                       THEN SignalMaster(pool_master) ELSE pool_master
  <2>1. /\ pool_worker[w].pc = "lock" /\ WorkerLoop(w, master)
        /\ pool_left' = IF pool_worker[w].ran THEN pool_left - 1 ELSE pool_left
    BY <1>2 DEF WorkerLock
  <2>2. w \in Busy <=> pool_worker[w].ran
    BY <2>1 DEF Busy
  <2>3. \/ master = pool_master /\ (pool_master = "waiting" => pool_left' > 0)
        \/ master = SignalMaster(pool_master)
    <3>1. pool_master = "waiting" => ~pool_stop /\ pool_left > 0 /\ pool_left \in Int
      BY <1>t DEF MasterWaits, PoolTypes, Ending
    <3> QED
      BY <2>1, <3>1
  <2> HIDE DEF master
  <2> QED
    BY <1>1, <2>1, <2>2, <2>3, LoopInv
<1>3. CASE WorkerWoken(w)
  <2>1. pool_worker[w].pc = "woken" /\ WorkerLoop(w, pool_master) /\ pool_left' = pool_left
    BY <1>3 DEF WorkerWoken
  <2>2. w \notin Busy /\ (pool_master = "waiting" => pool_left > 0)
    BY <1>t, <2>1 DEF Busy, MasterWaits
  <2> QED
    BY <1>1, <2>1, <2>2, LoopInv
<1> QED
  BY <1>2, <1>3

\* A job is executed, and may have scheduled another.
LEMMA ExecuteInv ==
  ASSUME PoolInv, NEW w \in PoolWorkers, WorkExecute(w)
  PROVE  PoolInv'
<1> DEFINE ws == [pool_worker EXCEPT ![w].pc = "lock", ![w].job = 0]
<1>t. PoolTypes /\ RunningCounts /\ JobHasThread /\ StopReaches
  BY DEF PoolInv
<1>1. /\ pool_worker[w].pc = "exec" /\ pool_worker[w] \in WorkerState
      /\ pool_worker \in [PoolWorkers -> WorkerState]
  BY <1>t DEF WorkExecute, PoolTypes
<1>2. UNCHANGED <<pool_port, pool_broadcast, pool_stop, pool_master, pool_done>>
  BY DEF WorkExecute
<1>3. /\ ws \in [PoolWorkers -> WorkerState] /\ ws[w].pc = "lock" /\ ws[w].ran = pool_worker[w].ran
      /\ \A v \in PoolWorkers : v # w => ws[v] = pool_worker[v]
  BY <1>1 DEF WorkerState, Up
<1>4. \/ pool_worker' = ws /\ UNCHANGED <<pool_signal, pool_queue, pool_running, pool_left, pool_jobs>>
      \/ Schedule(ws)
  BY DEF WorkExecute
<1> HIDE DEF ws
<1>5. CASE Schedule(ws)
  <2>1. pool_running # 0
    BY <1>1, NobodyRuns
  <2>2. \A v \in PoolWorkers :
          /\ ws[v].ran = pool_worker[v].ran
          /\ \/ ws[v].pc = pool_worker[v].pc
             \/ pool_worker[v].pc = "exec" /\ ws[v].pc = "lock"
    BY <1>1, <1>3
  <2> QED
    BY <1>2, <1>3, <1>5, <2>1, <2>2, ScheduleInv
<1>6. CASE pool_worker' = ws /\ UNCHANGED <<pool_signal, pool_queue, pool_running, pool_left, pool_jobs>>
  <2>1. JobHasThread'
    BY <1>3, <1>6 DEF JobHasThread, Up
  <2>2. StopReaches'
    BY <1>t, <1>2, <1>3, <1>6 DEF StopReaches
  <2>3. pool_signal' \in BOOLEAN /\ pool_broadcast' \in BOOLEAN /\ pool_port' = pool_port
    BY <1>t, <1>2, <1>6 DEF PoolTypes
  <2>4. \A v \in PoolWorkers :
          /\ pool_worker'[v].pc \in Up \cup {"wait"} <=> pool_worker[v].pc \in Up \cup {"wait"}
          /\ pool_worker'[v].ran = pool_worker[v].ran
          /\ pool_worker'[v].pc = "exec" => pool_worker[v].pc = "exec"
          /\ pool_worker'[v].pc = "lock" => pool_worker[v].pc \in {"lock", "exec"}
          /\ pool_worker[v].pc = "lock" => pool_worker'[v].pc = "lock"
          /\ pool_worker[v].pc = "exec" => pool_worker'[v].pc \in {"lock", "exec"}
    BY <1>1, <1>3, <1>6 DEF Up
  <2> QED
    BY <1>2, <1>3, <1>6, <2>1, <2>2, <2>3, <2>4, PlacesInv
<1> QED
  BY <1>4, <1>5, <1>6

\* Every step of the clients, the threads and the master keeps the invariant.
LEMMA PoolStepInv == PoolInv /\ [PoolNext]_poolVars => PoolInv'
<1> SUFFICES ASSUME PoolInv, [PoolNext]_poolVars PROVE PoolInv'
  OBVIOUS
<1>1. CASE UNCHANGED poolVars
  <2>1. UNCHANGED <<pool_port, pool_signal, pool_broadcast, pool_queue, pool_running, pool_left,
                    pool_stop, pool_worker, pool_master, pool_jobs, pool_done>>
    BY <1>1 DEF poolVars, poolEvents
  <2> QED
    BY <2>1 DEF PoolInv, PoolTypes, JobsInOrder, RunningCounts, LeftCounts, MasterWaits, JobHasThread,
                StopReaches, Alive, Busy
<1> QED
  BY <1>1, ChooseInv, ClientScheduleInv, WorkerInv, ExecuteInv, WakeInv, MasterInv, DestroyInv DEF PoolNext

\* What the invariant says when every thread sleeps.
LEMMA PoolInvWakeups == PoolInv => PoolWakeups
<1> SUFFICES ASSUME PoolInv PROVE PoolWakeups
  OBVIOUS
<1>t. PoolTypes /\ JobsInOrder /\ RunningCounts /\ LeftCounts /\ MasterWaits /\ JobHasThread /\ StopReaches
  BY DEF PoolInv
<1>1. ASSUME PoolQuiet PROVE (pool_queue # <<>> => pool_stop) /\ pool_master \notin {"waiting", "destroying"}
  <2>1. pool_queue # <<>> => pool_stop
    BY <1>t, <1>1 DEF PoolQuiet, JobHasThread, Up
  <2>2. pool_master # "waiting"
    <3> SUFFICES ASSUME pool_master = "waiting" PROVE FALSE
      OBVIOUS
    <3>1. ~pool_stop /\ pool_left > 0
      BY <1>t DEF MasterWaits, Ending
    <3>2. pool_queue = <<>>
      BY <2>1, <3>1
    <3>3. Len(pool_queue) = 0
      BY <3>2
    <3>4. Busy = {}
      BY <1>1 DEF PoolQuiet, Busy
    <3>5. Cardinality(Busy) = 0
      BY <3>4, FS_EmptySet
    <3> QED
      BY <1>t, <3>1, <3>3, <3>5 DEF LeftCounts
  <2>3. pool_master # "destroying"
    <3> SUFFICES ASSUME pool_master = "destroying" PROVE FALSE
      OBVIOUS
    <3>1. pool_stop /\ Cardinality(Alive) > 0
      BY <1>t DEF MasterWaits, RunningCounts, Ending
    <3>2. Alive # {}
      BY <3>1, FS_EmptySet
    <3>3. PICK w \in PoolWorkers : pool_worker[w].pc \in Up \cup {"wait"}
      BY <3>2 DEF Alive
    <3>4. pool_worker[w].pc = "wait" /\ ~pool_broadcast
      BY <1>1, <3>3 DEF PoolQuiet, Up
    <3> QED
      BY <1>t, <3>1, <3>4 DEF StopReaches
  <2> QED
    BY <2>1, <2>2, <2>3
<1>2. \A i, j \in DOMAIN pool_done : i < j => pool_done[i] < pool_done[j]
  <2>1. DOMAIN pool_done = 1..Len(pool_done)
    BY <1>t DEF PoolTypes
  <2> QED
    BY <1>t, <2>1 DEF JobsInOrder
<1>3. ASSUME pool_master = "destroyed" PROVE \A w \in PoolWorkers : pool_worker[w].pc \in {"none", "exited"}
  BY <1>t, <1>3, NobodyRuns DEF MasterWaits
<1> QED
  BY <1>1, <1>2, <1>3 DEF PoolWakeups

\* No wakeup of the pool is lost and no job begins twice or out of order, for any number
\* of threads and jobs, on POSIX with its spurious wakeups and on Windows, where two
\* signals may become one (thread_pool.c:153-242, port_win_impl.h:101-125).
THEOREM NoLostWakeup == PoolSpec => []PoolWakeups
<1>1. PoolSpec => []PoolInv
  BY PoolInitInv, PoolStepInv, PTL DEF PoolSpec
<1> QED
  BY <1>1, PoolInvWakeups, PTL
----------------------------------------------------------------------------
(* The files of an environment                                             *)

EnvFile == [cells : Seq(Nat), synced : Nat, refs : Nat, freed : BOOLEAN]
EnvFileOf == 0..Len(env_files)
EnvWriter == [open : BOOLEAN, file : EnvFileOf, buf : Seq(Nat), err : BOOLEAN, base : Nat,
              sent : Seq(Nat)]
EnvReader ==
  [pc     : {"closed", "acquire_map", "undo_map", "map", "acquire_fd", "undo_fd", "by_name", "open"},
   file   : EnvFileOf, name : EnvNames \cup {0}, lim : {"none", "fd", "map"},
   length : Nat, pos : Nat]

\* What the variables hold.
EnvTypes ==
  /\ env_kind \in {"none", "unix", "win", "win9x", "mem"}
  /\ env_files \in Seq(EnvFile)
  /\ env_names \in [EnvNames -> EnvFileOf]
  /\ env_w \in EnvWriter
  /\ env_r \in [EnvReaders -> EnvReader]
  /\ env_fds \in Int /\ env_maps \in Int /\ env_bytes \in Nat

\* A reader has a file from its open to its close, except one that opens it by name
\* for every read, and holds a limiter only when it is done with opening.
EnvReading ==
  \A r \in EnvReaders :
    /\ env_r[r].pc \in {"closed", "by_name"} <=> env_r[r].file = 0
    /\ env_r[r].lim # "none" => env_r[r].pc = "open"

\* Who is in the books of the limiters, and who was granted one.
FdShort == {r \in EnvReaders : env_r[r].lim = "fd" \/ env_r[r].pc = "undo_fd"}
FdGranted == {r \in EnvReaders : env_r[r].lim = "fd"}
MapShort == {r \in EnvReaders : env_r[r].lim = "map" \/ env_r[r].pc \in {"map", "undo_map"}}
MapGranted == {r \in EnvReaders : env_r[r].lim = "map" \/ env_r[r].pc = "map"}

EnvLimits ==
  /\ env_fds = EnvMaxFds - Cardinality(FdShort) /\ Cardinality(FdGranted) <= EnvMaxFds
  /\ env_maps = EnvMaxMaps - Cardinality(MapShort) /\ Cardinality(MapGranted) <= EnvMaxMaps

\* The references of a file: names, readers and the writer.
NamesOf(f) == {n \in EnvNames : env_names[n] = f}
ReadersOf(f) == {r \in EnvReaders : env_r[r].file = f}
UsersOf(f) ==
  Cardinality(NamesOf(f)) + Cardinality(ReadersOf(f)) + (IF env_w.file = f THEN 1 ELSE 0)

EnvRefs ==
  \A f \in 1..Len(env_files) :
    /\ env_files[f].refs = UsersOf(f)
    /\ env_files[f].freed <=> env_files[f].refs = 0

\* Concatenation and parts of sequences, kept from the provers' own rules for them.
Cat(s, t) == s \o t
Part(s, m, n) == SubSeq(s, m, n)

\* The writer: what it was given is in the file after base, then in the buffer.
EnvWriting ==
  /\ env_w.open <=> env_w.file # 0
  /\ env_kind = "none" => ~env_w.open
  /\ \A f \in 1..Len(env_files) : env_files[f].synced <= Len(env_files[f].cells)
  /\ env_w.open /\ ~env_w.err =>
       /\ env_w.base <= Len(Cells)
       /\ Cat(Part(Cells, env_w.base + 1, Len(Cells)), env_w.buf) = env_w.sent
       /\ Len(env_w.buf) <= EnvBuffer
       /\ env_kind = "mem" => env_w.buf = <<>>

EnvInv == EnvTypes /\ EnvReading /\ EnvLimits /\ EnvRefs /\ EnvWriting

----------------------------------------------------------------------------

\* One member more or less.
LEMMA CountMember ==
  ASSUME NEW S, IsFiniteSet(S), NEW A \in SUBSET S, NEW B \in SUBSET S, NEW x \in S,
         \A y \in S \ {x} : y \in A <=> y \in B
  PROVE  /\ Cardinality(A) \in Nat /\ Cardinality(B) \in Nat
         /\ Cardinality(B) + (IF x \in A THEN 1 ELSE 0) = Cardinality(A) + (IF x \in B THEN 1 ELSE 0)
<1>1. IsFiniteSet(A) /\ IsFiniteSet(B)
  BY FS_Subset
<1>2. Cardinality(A) \in Nat /\ Cardinality(B) \in Nat
  BY <1>1, FS_CardinalityType
<1>3. A \ {x} = B \ {x}
  OBVIOUS
<1>4. Cardinality(A \ {x}) = IF x \in A THEN Cardinality(A) - 1 ELSE Cardinality(A)
  BY <1>1, FS_RemoveElement
<1>5. Cardinality(B \ {x}) = IF x \in B THEN Cardinality(B) - 1 ELSE Cardinality(B)
  BY <1>1, FS_RemoveElement
<1> HIDE DEF Cardinality
<1> QED
  BY <1>2, <1>3, <1>4, <1>5

\* The counts are numbers.
LEMMA EnvCounts ==
  ASSUME NEW f
  PROVE  /\ Cardinality(NamesOf(f)) \in Nat /\ Cardinality(ReadersOf(f)) \in Nat
         /\ Cardinality(FdShort) \in Nat /\ Cardinality(FdGranted) \in Nat
         /\ Cardinality(MapShort) \in Nat /\ Cardinality(MapGranted) \in Nat
         /\ UsersOf(f) \in Nat
<1>1. /\ NamesOf(f) \in SUBSET EnvNames /\ ReadersOf(f) \in SUBSET EnvReaders
      /\ FdShort \in SUBSET EnvReaders /\ FdGranted \in SUBSET EnvReaders
      /\ MapShort \in SUBSET EnvReaders /\ MapGranted \in SUBSET EnvReaders
  BY DEF NamesOf, ReadersOf, FdShort, FdGranted, MapShort, MapGranted
<1>2. /\ IsFiniteSet(NamesOf(f)) /\ IsFiniteSet(ReadersOf(f)) /\ IsFiniteSet(FdShort)
      /\ IsFiniteSet(FdGranted) /\ IsFiniteSet(MapShort) /\ IsFiniteSet(MapGranted)
  BY <1>1, EnvAssumption, FS_Subset
<1>3. /\ Cardinality(NamesOf(f)) \in Nat /\ Cardinality(ReadersOf(f)) \in Nat
      /\ Cardinality(FdShort) \in Nat /\ Cardinality(FdGranted) \in Nat
      /\ Cardinality(MapShort) \in Nat /\ Cardinality(MapGranted) \in Nat
  BY <1>2, FS_CardinalityType
<1> QED
  BY <1>3 DEF UsersOf

\* A file nobody can refer to.
LEMMA NoUsers ==
  ASSUME EnvTypes, NEW f, f \notin EnvFileOf
  PROVE  /\ \A n \in EnvNames : env_names[n] # f
         /\ \A r \in EnvReaders : env_r[r].file # f
         /\ UsersOf(f) = 0
<1>1. \A n \in EnvNames : env_names[n] \in EnvFileOf
  BY DEF EnvTypes
<1>2. \A r \in EnvReaders : env_r[r] \in EnvReader
  BY DEF EnvTypes
<1>3. \A r \in EnvReaders : env_r[r].file \in EnvFileOf
  BY <1>2 DEF EnvReader
<1>4. env_w.file \in EnvFileOf
  BY DEF EnvTypes, EnvWriter
<1>5. NamesOf(f) = {} /\ ReadersOf(f) = {}
  BY <1>1, <1>3 DEF NamesOf, ReadersOf
<1> QED
  BY <1>1, <1>3, <1>4, <1>5, FS_EmptySet DEF UsersOf

\* A reader moves on: the books change by what it was and what it is.
LEMMA ReaderBooks ==
  ASSUME NEW r \in EnvReaders, DOMAIN env_r = EnvReaders,
         NEW v, env_r' = [env_r EXCEPT ![r] = v]
  PROVE  /\ Cardinality(FdShort') + (IF env_r[r].lim = "fd" \/ env_r[r].pc = "undo_fd" THEN 1 ELSE 0)
              = Cardinality(FdShort) + (IF v.lim = "fd" \/ v.pc = "undo_fd" THEN 1 ELSE 0)
         /\ Cardinality(FdGranted') + (IF env_r[r].lim = "fd" THEN 1 ELSE 0)
              = Cardinality(FdGranted) + (IF v.lim = "fd" THEN 1 ELSE 0)
         /\ Cardinality(MapShort')
                + (IF env_r[r].lim = "map" \/ env_r[r].pc \in {"map", "undo_map"} THEN 1 ELSE 0)
              = Cardinality(MapShort) + (IF v.lim = "map" \/ v.pc \in {"map", "undo_map"} THEN 1 ELSE 0)
         /\ Cardinality(MapGranted') + (IF env_r[r].lim = "map" \/ env_r[r].pc = "map" THEN 1 ELSE 0)
              = Cardinality(MapGranted) + (IF v.lim = "map" \/ v.pc = "map" THEN 1 ELSE 0)
         /\ \A f : Cardinality(ReadersOf(f)') + (IF env_r[r].file = f THEN 1 ELSE 0)
              = Cardinality(ReadersOf(f)) + (IF v.file = f THEN 1 ELSE 0)
<1>1. env_r'[r] = v /\ \A s \in EnvReaders \ {r} : env_r'[s] = env_r[s]
  OBVIOUS
<1>2. /\ FdShort \in SUBSET EnvReaders /\ FdShort' \in SUBSET EnvReaders
      /\ r \in FdShort <=> (env_r[r].lim = "fd" \/ env_r[r].pc = "undo_fd")
      /\ r \in FdShort' <=> (v.lim = "fd" \/ v.pc = "undo_fd")
      /\ \A s \in EnvReaders \ {r} : s \in FdShort <=> s \in FdShort'
  BY <1>1 DEF FdShort
<1>3. /\ FdGranted \in SUBSET EnvReaders /\ FdGranted' \in SUBSET EnvReaders
      /\ r \in FdGranted <=> env_r[r].lim = "fd"
      /\ r \in FdGranted' <=> v.lim = "fd"
      /\ \A s \in EnvReaders \ {r} : s \in FdGranted <=> s \in FdGranted'
  BY <1>1 DEF FdGranted
<1>4. /\ MapShort \in SUBSET EnvReaders /\ MapShort' \in SUBSET EnvReaders
      /\ r \in MapShort <=> (env_r[r].lim = "map" \/ env_r[r].pc \in {"map", "undo_map"})
      /\ r \in MapShort' <=> (v.lim = "map" \/ v.pc \in {"map", "undo_map"})
      /\ \A s \in EnvReaders \ {r} : s \in MapShort <=> s \in MapShort'
  BY <1>1 DEF MapShort
<1>5. /\ MapGranted \in SUBSET EnvReaders /\ MapGranted' \in SUBSET EnvReaders
      /\ r \in MapGranted <=> (env_r[r].lim = "map" \/ env_r[r].pc = "map")
      /\ r \in MapGranted' <=> (v.lim = "map" \/ v.pc = "map")
      /\ \A s \in EnvReaders \ {r} : s \in MapGranted <=> s \in MapGranted'
  BY <1>1 DEF MapGranted
<1>6. ASSUME NEW f
      PROVE  Cardinality(ReadersOf(f)') + (IF env_r[r].file = f THEN 1 ELSE 0)
               = Cardinality(ReadersOf(f)) + (IF v.file = f THEN 1 ELSE 0)
  <2>1. /\ ReadersOf(f) \in SUBSET EnvReaders /\ ReadersOf(f)' \in SUBSET EnvReaders
        /\ r \in ReadersOf(f) <=> env_r[r].file = f
        /\ r \in ReadersOf(f)' <=> v.file = f
        /\ \A s \in EnvReaders \ {r} : s \in ReadersOf(f) <=> s \in ReadersOf(f)'
    BY <1>1 DEF ReadersOf
  <2> HIDE DEF ReadersOf
  <2>2. Cardinality(ReadersOf(f)') + (IF r \in ReadersOf(f) THEN 1 ELSE 0)
          = Cardinality(ReadersOf(f)) + (IF r \in ReadersOf(f)' THEN 1 ELSE 0)
    BY <2>1, EnvAssumption, CountMember
  <2> QED
    BY <2>1, <2>2
<1>7. Cardinality(FdShort') + (IF r \in FdShort THEN 1 ELSE 0)
        = Cardinality(FdShort) + (IF r \in FdShort' THEN 1 ELSE 0)
  BY <1>2, EnvAssumption, CountMember
<1>8. Cardinality(FdGranted') + (IF r \in FdGranted THEN 1 ELSE 0)
        = Cardinality(FdGranted) + (IF r \in FdGranted' THEN 1 ELSE 0)
  BY <1>3, EnvAssumption, CountMember
<1>9. Cardinality(MapShort') + (IF r \in MapShort THEN 1 ELSE 0)
        = Cardinality(MapShort) + (IF r \in MapShort' THEN 1 ELSE 0)
  BY <1>4, EnvAssumption, CountMember
<1>10. Cardinality(MapGranted') + (IF r \in MapGranted THEN 1 ELSE 0)
        = Cardinality(MapGranted) + (IF r \in MapGranted' THEN 1 ELSE 0)
  BY <1>5, EnvAssumption, CountMember
<1> QED
  BY <1>2, <1>3, <1>4, <1>5, <1>6, <1>7, <1>8, <1>9, <1>10

\* A name gets another file.
NamesIn(names, f) == {n \in EnvNames : names[n] = f}

LEMMA NameBooks ==
  ASSUME NEW names, NEW after, NEW n \in EnvNames, NEW f,
         \A m \in EnvNames \ {n} : after[m] = names[m]
  PROVE  /\ Cardinality(NamesIn(after, f)) + (IF names[n] = f THEN 1 ELSE 0)
              = Cardinality(NamesIn(names, f)) + (IF after[n] = f THEN 1 ELSE 0)
         /\ Cardinality(NamesIn(names, f)) \in Nat
         /\ names[n] = f => Cardinality(NamesIn(names, f)) > 0
<1> DEFINE A == NamesIn(names, f)
           B == NamesIn(after, f)
<1>1. /\ A \in SUBSET EnvNames /\ B \in SUBSET EnvNames
      /\ n \in A <=> names[n] = f
      /\ n \in B <=> after[n] = f
      /\ \A m \in EnvNames \ {n} : m \in A <=> m \in B
  BY DEF NamesIn
<1> HIDE DEF A, B
<1>2. /\ Cardinality(B) + (IF n \in A THEN 1 ELSE 0) = Cardinality(A) + (IF n \in B THEN 1 ELSE 0)
      /\ Cardinality(A) \in Nat
  BY <1>1, EnvAssumption, CountMember
<1>3. IsFiniteSet(A)
  BY <1>1, EnvAssumption, FS_Subset
<1>4. n \in A => Cardinality(A) # 0
  BY <1>3, FS_EmptySet
<1> QED
  BY <1>1, <1>2, <1>4 DEF A, B

LEMMA NamesNow ==
  ASSUME NEW f PROVE NamesOf(f) = NamesIn(env_names, f) /\ NamesOf(f)' = NamesIn(env_names', f)
BY DEF NamesOf, NamesIn

\* Whoever refers to a file is counted.
LEMMA UserCounted ==
  ASSUME EnvTypes, EnvRefs, NEW f \in 1..Len(env_files)
  PROVE  /\ env_files[f].refs = UsersOf(f) /\ UsersOf(f) \in Nat
         /\ \A n \in EnvNames : env_names[n] = f => UsersOf(f) > 0
         /\ \A r \in EnvReaders : env_r[r].file = f => UsersOf(f) > 0
         /\ env_w.file = f => UsersOf(f) > 0
         /\ env_w.file = f => \A n \in EnvNames : env_names[n] = f => UsersOf(f) > 1
         /\ env_w.file = f => \A r \in EnvReaders : env_r[r].file = f => UsersOf(f) > 1
<1>1. /\ Cardinality(NamesOf(f)) \in Nat /\ Cardinality(ReadersOf(f)) \in Nat
      /\ UsersOf(f) \in Nat
  BY EnvCounts
<1>2. ASSUME NEW n \in EnvNames, env_names[n] = f PROVE Cardinality(NamesOf(f)) > 0
  BY <1>2, NameBooks, NamesNow
<1>3. ASSUME NEW r \in EnvReaders, env_r[r].file = f PROVE Cardinality(ReadersOf(f)) > 0
  <2>1. r \in ReadersOf(f) /\ ReadersOf(f) \in SUBSET EnvReaders
    BY <1>3 DEF ReadersOf
  <2>2. IsFiniteSet(ReadersOf(f))
    BY <2>1, EnvAssumption, FS_Subset
  <2>3. Cardinality(ReadersOf(f)) # 0
    BY <2>1, <2>2, FS_EmptySet
  <2> QED
    BY <1>1, <2>3
<1>4. env_files[f].refs = UsersOf(f)
  BY DEF EnvRefs
<1> QED
  BY <1>1, <1>2, <1>3, <1>4 DEF UsersOf

\* A field of a file changes and the others do not.
WithRefs(x, k) == [x EXCEPT !.refs = k]
WithCells(x, c) == [x EXCEPT !.cells = c]
WithSynced(x, k) == [x EXCEPT !.synced = k]

LEMMA RefsField ==
  ASSUME NEW x \in EnvFile, NEW k \in Nat
  PROVE  /\ WithRefs(x, k) \in EnvFile
         /\ WithRefs(x, k).cells = x.cells /\ WithRefs(x, k).synced = x.synced
         /\ WithRefs(x, k).freed = x.freed /\ WithRefs(x, k).refs = k
BY DEF EnvFile, WithRefs

LEMMA CellsField ==
  ASSUME NEW x \in EnvFile, NEW c \in Seq(Nat)
  PROVE  /\ WithCells(x, c) \in EnvFile
         /\ WithCells(x, c).cells = c /\ WithCells(x, c).synced = x.synced
         /\ WithCells(x, c).freed = x.freed /\ WithCells(x, c).refs = x.refs
BY DEF EnvFile, WithCells

LEMMA SyncedField ==
  ASSUME NEW x \in EnvFile, NEW k \in Nat
  PROVE  /\ WithSynced(x, k) \in EnvFile
         /\ WithSynced(x, k).cells = x.cells /\ WithSynced(x, k).synced = k
         /\ WithSynced(x, k).freed = x.freed /\ WithSynced(x, k).refs = x.refs
BY DEF EnvFile, WithSynced

\* ldb_fstate_ref
LEMMA RefProps ==
  ASSUME NEW files \in Seq(EnvFile), NEW f \in 1..Len(files)
  PROVE  /\ Ref(files, f) \in Seq(EnvFile) /\ Len(Ref(files, f)) = Len(files)
         /\ \A g \in 1..Len(files) :
              /\ Ref(files, f)[g].cells = files[g].cells /\ Ref(files, f)[g].synced = files[g].synced
              /\ Ref(files, f)[g].freed = files[g].freed
              /\ Ref(files, f)[g].refs = files[g].refs + (IF g = f THEN 1 ELSE 0)
<1> DEFINE e == WithRefs(files[f], files[f].refs + 1)
<1>1. \A g \in 1..Len(files) : files[g] \in EnvFile
  BY ElementOfSeq
<1>2. \A g \in 1..Len(files) : files[g].refs \in Nat
  BY <1>1 DEF EnvFile
<1>3. e \in EnvFile /\ e.cells = files[f].cells /\ e.synced = files[f].synced
      /\ e.freed = files[f].freed /\ e.refs = files[f].refs + 1
  <2>1. files[f] \in EnvFile /\ files[f].refs + 1 \in Nat
    BY <1>1, <1>2
  <2> QED
    BY <2>1, RefsField
<1>4. Ref(files, f) = [files EXCEPT ![f] = e]
  BY DEF Ref, WithRefs
<1> HIDE DEF e
<1> QED
  BY <1>2, <1>3, <1>4, ExceptSeq

\* ldb_fstate_unref
LEMMA UnrefProps ==
  ASSUME NEW files \in Seq(EnvFile), NEW f \in 1..Len(files), files[f].refs > 0, ~files[f].freed
  PROVE  /\ Unref(files, f) \in Seq(EnvFile) /\ Len(Unref(files, f)) = Len(files)
         /\ \A g \in 1..Len(files) : g # f => Unref(files, f)[g] = files[g]
         /\ Unref(files, f)[f].refs = files[f].refs - 1
         /\ Unref(files, f)[f].freed <=> Unref(files, f)[f].refs = 0
         /\ files[f].refs > 1 => /\ Unref(files, f)[f].cells = files[f].cells
                                 /\ Unref(files, f)[f].synced = files[f].synced
         /\ files[f].synced <= Len(files[f].cells) =>
              Unref(files, f)[f].synced <= Len(Unref(files, f)[f].cells)
<1> DEFINE e == IF files[f].refs > 1 THEN WithRefs(files[f], files[f].refs - 1) ELSE Freed
<1>1. files[f] \in EnvFile
  BY ElementOfSeq
<1>2. files[f].refs \in Nat
  BY <1>1 DEF EnvFile
<1>3. Unref(files, f) = [files EXCEPT ![f] = e]
  BY DEF Unref, WithRefs
<1>4. CASE files[f].refs > 1
  <2>1. e \in EnvFile /\ e.cells = files[f].cells /\ e.synced = files[f].synced
        /\ e.freed = files[f].freed /\ e.refs = files[f].refs - 1
    <3>1. files[f].refs - 1 \in Nat
      BY <1>2, <1>4
    <3>2. e = WithRefs(files[f], files[f].refs - 1)
      BY <1>4
    <3> HIDE DEF e
    <3> QED
      BY <1>1, <3>1, <3>2, RefsField
  <2> HIDE DEF e
  <2> QED
    BY <1>2, <1>3, <1>4, <2>1, ExceptSeq
<1>5. CASE ~(files[f].refs > 1)
  <2>1. <<>> \in Seq(Nat) /\ Len(<<>>) = 0
    BY EmptySeq
  <2>2. e \in EnvFile /\ e.freed /\ e.refs = 0 /\ e.synced = 0 /\ e.cells = <<>>
    BY <1>5, <2>1 DEF EnvFile, Freed
  <2>3. files[f].refs = 1
    BY <1>2, <1>5
  <2> HIDE DEF e
  <2> QED
    BY <1>3, <2>1, <2>2, <2>3, ExceptSeq
<1> QED
  BY <1>4, <1>5

----------------------------------------------------------------------------
(* The writer                                                              *)

\* Concatenation and parts of sequences of bytes, by their lengths and elements.
LEMMA CatProps ==
  ASSUME NEW s \in Seq(Nat), NEW t \in Seq(Nat)
  PROVE  /\ Cat(s, t) \in Seq(Nat) /\ Len(Cat(s, t)) = Len(s) + Len(t)
         /\ \A i \in 1..Len(s) + Len(t) :
              Cat(s, t)[i] = IF i <= Len(s) THEN s[i] ELSE t[i - Len(s)]
         /\ Len(s) \in Nat /\ Len(t) \in Nat
BY ConcatProperties, LenProperties, Zenon DEF Cat

LEMMA PartProps ==
  ASSUME NEW s \in Seq(Nat), NEW m \in Nat, NEW n \in Nat, m > 0, m <= n + 1, n <= Len(s)
  PROVE  /\ Part(s, m, n) \in Seq(Nat) /\ Len(Part(s, m, n)) = n - m + 1
         /\ \A i \in 1..n - m + 1 : Part(s, m, n)[i] = s[m + i - 1]
<1>1. Len(s) \in Nat /\ \A i \in 1..Len(s) : s[i] \in Nat
  BY LenProperties, ElementOfSeq
<1>2. \A i \in m..n : s[i] \in Nat
  BY <1>1
<1>3. m \in Int /\ n \in Int
  OBVIOUS
<1>4. /\ SubSeq(s, m, n) \in Seq(Nat)
      /\ Len(SubSeq(s, m, n)) = IF m <= n THEN n - m + 1 ELSE 0
      /\ \A i \in 1..n - m + 1 : SubSeq(s, m, n)[i] = s[m + i - 1]
  BY ONLY <1>2, <1>3, SubSeqProperties
<1>5. /\ Part(s, m, n) \in Seq(Nat)
      /\ Len(Part(s, m, n)) = IF m <= n THEN n - m + 1 ELSE 0
      /\ \A i \in 1..n - m + 1 : Part(s, m, n)[i] = s[m + i - 1]
  BY <1>4, Zenon DEF Part
<1> QED
  BY <1>5

LEMMA SameBytes ==
  ASSUME NEW s \in Seq(Nat), NEW t \in Seq(Nat), Len(s) = Len(t), \A i \in 1..Len(s) : s[i] = t[i]
  PROVE  s = t
BY SeqEqual, Zenon

LEMMA CatEmpty ==
  ASSUME NEW s \in Seq(Nat)
  PROVE  Cat(s, <<>>) = s /\ Cat(<<>>, s) = s /\ <<>> \in Seq(Nat) /\ Len(<<>>) = 0
BY ConcatEmptySeq, EmptySeq, Zenon DEF Cat

LEMMA CatAssociative ==
  ASSUME NEW s \in Seq(Nat), NEW t \in Seq(Nat), NEW u \in Seq(Nat)
  PROVE  Cat(Cat(s, t), u) = Cat(s, Cat(t, u))
<1> DEFINE x == Cat(Cat(s, t), u)
           y == Cat(s, Cat(t, u))
           st == Cat(s, t)
           tu == Cat(t, u)
<1>1. /\ st \in Seq(Nat) /\ Len(st) = Len(s) + Len(t)
      /\ \A i \in 1..Len(s) + Len(t) : st[i] = IF i <= Len(s) THEN s[i] ELSE t[i - Len(s)]
  BY CatProps
<1>2. /\ tu \in Seq(Nat) /\ Len(tu) = Len(t) + Len(u)
      /\ \A i \in 1..Len(t) + Len(u) : tu[i] = IF i <= Len(t) THEN t[i] ELSE u[i - Len(t)]
  BY CatProps
<1>3. Len(s) \in Nat /\ Len(t) \in Nat /\ Len(u) \in Nat
  BY LenProperties
<1> HIDE DEF st, tu
<1>4. /\ x \in Seq(Nat) /\ Len(x) = Len(st) + Len(u)
      /\ \A i \in 1..Len(st) + Len(u) : x[i] = IF i <= Len(st) THEN st[i] ELSE u[i - Len(st)]
  <2>1. x = Cat(st, u)
    BY Zenon DEF x, st
  <2> HIDE DEF x
  <2> QED
    BY <1>1, <2>1, CatProps
<1>5. /\ y \in Seq(Nat) /\ Len(y) = Len(s) + Len(tu)
      /\ \A i \in 1..Len(s) + Len(tu) : y[i] = IF i <= Len(s) THEN s[i] ELSE tu[i - Len(s)]
  <2>1. y = Cat(s, tu)
    BY Zenon DEF y, tu
  <2> HIDE DEF y
  <2> QED
    BY <1>2, <2>1, CatProps
<1> HIDE DEF x, y
<1>6. Len(x) = Len(y)
  BY <1>1, <1>2, <1>3, <1>4, <1>5
<1>7. ASSUME NEW i \in 1..Len(x) PROVE x[i] = y[i]
  <2>1. i \in 1..Len(st) + Len(u) /\ i \in 1..Len(s) + Len(tu)
    BY <1>1, <1>2, <1>3, <1>4
  <2>2. /\ x[i] = IF i <= Len(st) THEN st[i] ELSE u[i - Len(st)]
        /\ y[i] = IF i <= Len(s) THEN s[i] ELSE tu[i - Len(s)]
    BY <1>4, <1>5, <2>1
  <2>3. CASE i <= Len(s)
    BY <1>1, <1>3, <2>2, <2>3
  <2>4. CASE ~(i <= Len(s)) /\ i <= Len(st)
    <3>1. i - Len(s) \in 1..Len(t) + Len(u) /\ i - Len(s) <= Len(t) /\ i \in 1..Len(s) + Len(t)
      BY <1>1, <1>3, <2>4
    <3>2. tu[i - Len(s)] = t[i - Len(s)] /\ st[i] = t[i - Len(s)]
      BY <1>1, <1>2, <2>4, <3>1
    <3> QED
      BY <2>2, <2>4, <3>2
  <2>5. CASE ~(i <= Len(st))
    <3>1. /\ i - Len(s) \in 1..Len(t) + Len(u) /\ ~(i - Len(s) <= Len(t)) /\ ~(i <= Len(s))
          /\ i - Len(s) - Len(t) = i - Len(st)
      BY <1>1, <1>2, <1>3, <2>1, <2>5
    <3>2. tu[i - Len(s)] = u[i - Len(s) - Len(t)]
      BY <1>2, <3>1
    <3> QED
      BY <2>2, <2>5, <3>1, <3>2
  <2> QED
    BY <2>3, <2>4, <2>5
<1>8. x = y
  BY <1>4, <1>5, <1>6, <1>7, SameBytes
<1> QED
  BY <1>8 DEF x, y

\* A sequence is its two parts.
LEMMA CatParts ==
  ASSUME NEW s \in Seq(Nat), NEW n \in Nat, n <= Len(s)
  PROVE  /\ Cat(Part(s, 1, n), Part(s, n + 1, Len(s))) = s
         /\ Part(s, 1, n) \in Seq(Nat) /\ Len(Part(s, 1, n)) = n
         /\ Part(s, n + 1, Len(s)) \in Seq(Nat) /\ Len(Part(s, n + 1, Len(s))) = Len(s) - n
<1> DEFINE x == Part(s, 1, n)
           y == Part(s, n + 1, Len(s))
<1>1. Len(s) \in Nat
  BY LenProperties
<1>2. x \in Seq(Nat) /\ Len(x) = n /\ \A i \in 1..n : x[i] = s[i]
  <2>1. /\ x \in Seq(Nat) /\ Len(x) = n - 1 + 1
        /\ \A i \in 1..n - 1 + 1 : x[i] = s[1 + i - 1]
    BY PartProps
  <2> HIDE DEF x
  <2> QED
    BY <2>1
<1>3. y \in Seq(Nat) /\ Len(y) = Len(s) - n /\ \A i \in 1..Len(s) - n : y[i] = s[n + i]
  <2>1. /\ y \in Seq(Nat) /\ Len(y) = Len(s) - (n + 1) + 1
        /\ \A i \in 1..Len(s) - (n + 1) + 1 : y[i] = s[n + 1 + i - 1]
    <3>1. n + 1 \in Nat /\ n + 1 > 0 /\ n + 1 <= Len(s) + 1 /\ Len(s) <= Len(s)
      BY <1>1
    <3> QED
      BY <1>1, <3>1, PartProps
  <2> HIDE DEF y
  <2> QED
    BY <1>1, <2>1
<1> HIDE DEF x, y
<1>4. /\ Cat(x, y) \in Seq(Nat) /\ Len(Cat(x, y)) = Len(s)
      /\ \A i \in 1..Len(s) : Cat(x, y)[i] = IF i <= n THEN x[i] ELSE y[i - n]
  <2>1. /\ Cat(x, y) \in Seq(Nat) /\ Len(Cat(x, y)) = Len(x) + Len(y)
        /\ \A i \in 1..Len(x) + Len(y) : Cat(x, y)[i] = IF i <= Len(x) THEN x[i] ELSE y[i - Len(x)]
    BY <1>2, <1>3, CatProps
  <2> QED
    BY <1>1, <1>2, <1>3, <2>1
<1>5. ASSUME NEW i \in 1..Len(s) PROVE Cat(x, y)[i] = s[i]
  <2>1. Cat(x, y)[i] = IF i <= n THEN x[i] ELSE y[i - n]
    BY <1>4
  <2>2. CASE i <= n
    BY <1>2, <2>1, <2>2
  <2>3. CASE ~(i <= n)
    <3>1. i - n \in 1..Len(s) - n /\ n + (i - n) = i
      BY <1>1, <2>3
    <3>2. y[i - n] = s[n + (i - n)]
      BY <1>3, <3>1
    <3> QED
      BY <2>1, <2>3, <3>1, <3>2
  <2> QED
    BY <2>2, <2>3
<1>6. Cat(x, y) = s
  BY <1>4, <1>5, SameBytes
<1> QED
  BY <1>2, <1>3, <1>6 DEF x, y

\* What follows base in a file, and what is appended to it.
LEMMA SuffixConcat ==
  ASSUME NEW c \in Seq(Nat), NEW d \in Seq(Nat), NEW b \in Nat, b <= Len(c)
  PROVE  /\ Part(c, b + 1, Len(c)) \in Seq(Nat)
         /\ Part(Cat(c, d), b + 1, Len(Cat(c, d))) = Cat(Part(c, b + 1, Len(c)), d)
         /\ b = Len(c) => Part(c, b + 1, Len(c)) = <<>>
<1> DEFINE x == Part(c, b + 1, Len(c))
           cd == Cat(c, d)
           y == Part(cd, b + 1, Len(cd))
           xd == Cat(x, d)
<1>1. Len(c) \in Nat /\ Len(d) \in Nat
  BY LenProperties
<1>2. /\ cd \in Seq(Nat) /\ Len(cd) = Len(c) + Len(d)
      /\ \A i \in 1..Len(c) + Len(d) : cd[i] = IF i <= Len(c) THEN c[i] ELSE d[i - Len(c)]
  BY CatProps
<1> HIDE DEF cd
<1>4. /\ x \in Seq(Nat) /\ Len(x) = Len(c) - b /\ \A i \in 1..Len(c) - b : x[i] = c[b + i]
  <2>2. /\ x \in Seq(Nat) /\ Len(x) = Len(c) - (b + 1) + 1
        /\ \A i \in 1..Len(c) - (b + 1) + 1 : x[i] = c[b + 1 + i - 1]
    <3>1. b + 1 \in Nat /\ b + 1 > 0 /\ b + 1 <= Len(c) + 1 /\ Len(c) <= Len(c)
      BY <1>1
    <3> QED
      BY <1>1, <3>1, PartProps
  <2> HIDE DEF x
  <2> QED
    BY <1>1, <2>2
<1>5. /\ y \in Seq(Nat) /\ Len(y) = Len(c) + Len(d) - b
      /\ \A i \in 1..Len(c) + Len(d) - b : y[i] = cd[b + i]
  <2>2. /\ Len(cd) \in Nat /\ b + 1 \in Nat /\ b + 1 > 0 /\ b + 1 <= Len(cd) + 1
        /\ Len(cd) <= Len(cd)
    BY <1>1, <1>2
  <2>3. /\ y \in Seq(Nat) /\ Len(y) = Len(cd) - (b + 1) + 1
        /\ \A i \in 1..Len(cd) - (b + 1) + 1 : y[i] = cd[b + 1 + i - 1]
    BY <1>2, <2>2, PartProps
  <2> HIDE DEF y
  <2> QED
    BY <1>1, <1>2, <2>3
<1> HIDE DEF x, y
<1>6. /\ xd \in Seq(Nat) /\ Len(xd) = Len(x) + Len(d)
      /\ \A i \in 1..Len(x) + Len(d) : xd[i] = IF i <= Len(x) THEN x[i] ELSE d[i - Len(x)]
  BY <1>4, CatProps
<1> HIDE DEF xd
<1>7. Len(xd) = Len(y)
  BY <1>1, <1>4, <1>5, <1>6
<1>8. ASSUME NEW i \in 1..Len(y) PROVE y[i] = xd[i]
  <2>1. i \in Nat /\ i > 0 /\ i <= Len(c) + Len(d) - b
    BY <1>1, <1>5
  <2>2. y[i] = cd[b + i] /\ cd[b + i] = IF b + i <= Len(c) THEN c[b + i] ELSE d[b + i - Len(c)]
    <3>1. b + i \in 1..Len(c) + Len(d) /\ i \in 1..Len(c) + Len(d) - b
      BY <1>1, <2>1
    <3>2. y[i] = cd[b + i]
      BY <1>5, <3>1
    <3>3. cd[b + i] = IF b + i <= Len(c) THEN c[b + i] ELSE d[b + i - Len(c)]
      <4> DEFINE j == b + i
      <4>1. j \in 1..Len(c) + Len(d)
        BY <3>1
      <4> HIDE DEF j
      <4>2. cd[j] = IF j <= Len(c) THEN c[j] ELSE d[j - Len(c)]
        BY <1>2, <4>1
      <4> QED
        BY <4>2 DEF j
    <3> QED
      BY <3>2, <3>3
  <2>3. xd[i] = IF i <= Len(c) - b THEN x[i] ELSE d[i - (Len(c) - b)]
    BY <1>1, <1>4, <1>6, <2>1
  <2>4. CASE i <= Len(c) - b
    BY <1>1, <1>4, <2>1, <2>2, <2>3, <2>4
  <2>5. CASE ~(i <= Len(c) - b)
    <3>1. i - (Len(c) - b) = b + i - Len(c) /\ ~(b + i <= Len(c))
      BY <1>1, <2>1, <2>5
    <3> QED
      BY <2>2, <2>3, <2>5, <3>1
  <2> QED
    BY <2>4, <2>5
<1>9. y = xd
  BY <1>5, <1>6, <1>7, <1>8, SameBytes
<1>10. b = Len(c) => x = <<>>
  <2>1. b = Len(c) => Len(x) = 0
    BY <1>1, <1>4
  <2> QED
    BY <1>4, <2>1, EmptySeq
<1> QED
  BY <1>4, <1>9, <1>10 DEF x, y, xd, cd

\* ldb_write leaves a prefix of the data in the file, all of it unless it failed.
LEMMA WriteProps ==
  ASSUME NEW c \in Seq(Nat), NEW data \in Seq(Nat), NEW o \in WriteOutcomes(c, data)
  PROVE  /\ o.cells \in Seq(Nat) /\ Len(o.cells) \in Nat /\ Len(o.cells) >= Len(c)
         /\ o.ok \in BOOLEAN /\ (o.ok => o.cells = Cat(c, data))
<1>0. Len(c) \in Nat /\ Len(data) \in Nat
  BY LenProperties
<1>1. CASE o = [cells |-> c \o data, ok |-> TRUE]
  <2>1. o.cells = Cat(c, data) /\ o.ok = TRUE
    BY <1>1 DEF Cat
  <2>2. Cat(c, data) \in Seq(Nat) /\ Len(Cat(c, data)) = Len(c) + Len(data)
    BY CatProps
  <2>3. o.cells \in Seq(Nat) /\ Len(o.cells) \in Nat /\ Len(o.cells) >= Len(c)
    BY <1>0, <2>1, <2>2
  <2> QED
    BY <2>1, <2>3, Zenon
<1>2. ASSUME NEW n \in 0..Len(data) - 1, o = [cells |-> c \o SubSeq(data, 1, n), ok |-> FALSE]
      PROVE  o.cells \in Seq(Nat) /\ Len(o.cells) \in Nat /\ Len(o.cells) >= Len(c) /\ o.ok = FALSE
  <2>1. o.cells = Cat(c, Part(data, 1, n)) /\ o.ok = FALSE
    BY <1>2 DEF Cat, Part
  <2>2. n \in Nat /\ n <= Len(data)
    BY <1>0
  <2>3. Part(data, 1, n) \in Seq(Nat) /\ Len(Part(data, 1, n)) = n
    BY <2>2, CatParts
  <2>4. Cat(c, Part(data, 1, n)) \in Seq(Nat) /\ Len(Cat(c, Part(data, 1, n))) = Len(c) + n
    BY <2>3, CatProps
  <2> QED
    BY <1>0, <2>1, <2>2, <2>4
<1> QED
  BY <1>1, <1>2 DEF WriteOutcomes

\* The smaller of two numbers.
LEMMA MinOfTwo ==
  ASSUME NEW a \in Int, NEW b \in Int
  PROVE  Min({a, b}) = IF a <= b THEN a ELSE b
<1> DEFINE m == IF a <= b THEN a ELSE b
<1>1. m \in {a, b} /\ \A y \in {a, b} : m =< y
  OBVIOUS
<1>2. Min({a, b}) \in {a, b} /\ \A y \in {a, b} : Min({a, b}) =< y
  BY <1>1 DEF Min
<1> QED
  BY <1>1, <1>2

\* ldb_wfile_append0: file and buffer together grow by exactly the data.
LEMMA AppendProps ==
  ASSUME NEW c \in Seq(Nat), NEW buf \in Seq(Nat), NEW data \in Seq(Nat),
         Len(buf) <= EnvBuffer, NEW o \in AppendOutcomes(c, buf, data)
  PROVE  /\ o.cells \in Seq(Nat) /\ Len(o.cells) \in Nat /\ Len(o.cells) >= Len(c)
         /\ o.buf \in Seq(Nat) /\ o.ok \in BOOLEAN
         /\ o.ok => /\ Len(o.buf) <= EnvBuffer
                    /\ \E d \in Seq(Nat) : o.cells = Cat(c, d) /\ Cat(d, o.buf) = Cat(buf, data)
<1> DEFINE copy == Min({Len(data), EnvBuffer - Len(buf)})
           first == Part(data, 1, copy)
           full == Cat(buf, first)
           rest == Part(data, copy + 1, Len(data))
<1>1. Len(data) \in Nat /\ Len(buf) \in Nat /\ Len(c) \in Nat /\ EnvBuffer \in Nat /\ EnvBuffer > 0
  BY LenProperties, EnvAssumption
<1>2. copy \in Nat /\ copy <= Len(data) /\ copy <= EnvBuffer - Len(buf)
  <2>1. Len(data) \in Int /\ EnvBuffer - Len(buf) \in Int /\ EnvBuffer - Len(buf) >= 0
    BY <1>1
  <2>2. copy = IF Len(data) <= EnvBuffer - Len(buf) THEN Len(data) ELSE EnvBuffer - Len(buf)
    BY <2>1, MinOfTwo
  <2> HIDE DEF copy
  <2> QED
    BY <1>1, <2>1, <2>2
<1>3. o \in IF rest = <<>> THEN {[cells |-> c, buf |-> full, ok |-> TRUE]}
            ELSE UNION {IF ~w.ok THEN {[cells |-> w.cells, buf |-> <<>>, ok |-> FALSE]}
                        ELSE IF Len(rest) < EnvBuffer
                             THEN {[cells |-> w.cells, buf |-> rest, ok |-> TRUE]}
                        ELSE {[cells |-> p.cells, buf |-> <<>>, ok |-> p.ok]
                                 : p \in WriteOutcomes(w.cells, rest)}
                        : w \in WriteOutcomes(c, full)}
  BY DEF AppendOutcomes, Cat, Part
<1> HIDE DEF copy
<1>4. /\ first \in Seq(Nat) /\ Len(first) = copy
      /\ rest \in Seq(Nat) /\ Len(rest) = Len(data) - copy
      /\ Cat(first, rest) = data
  BY <1>2, CatParts
<1> HIDE DEF first, rest
<1>5. full \in Seq(Nat) /\ Len(full) = Len(buf) + copy
  BY <1>4, CatProps
<1>6. Cat(full, rest) = Cat(buf, data)
  <2>1. Cat(Cat(buf, first), rest) = Cat(buf, Cat(first, rest))
    BY <1>4, CatAssociative
  <2> QED
    BY <1>4, <2>1
<1> HIDE DEF full
<1>7. <<>> \in Seq(Nat) /\ Len(<<>>) = 0
  BY EmptySeq
<1>8. CASE rest = <<>>
  <2>1. o = [cells |-> c, buf |-> full, ok |-> TRUE]
    BY <1>3, <1>8
  <2>2. o.cells = c /\ o.buf = full /\ o.ok = TRUE
    BY <2>1
  <2>3. Cat(c, <<>>) = c /\ Cat(<<>>, full) = full /\ Cat(full, rest) = full
    BY <1>5, <1>8, CatEmpty
  <2>4. Cat(<<>>, o.buf) = Cat(buf, data) /\ o.cells = Cat(c, <<>>)
    BY <1>6, <2>2, <2>3
  <2>5. Len(full) <= EnvBuffer
    BY <1>1, <1>2, <1>5
  <2>6. Len(o.cells) \in Nat /\ Len(o.cells) >= Len(c)
    BY <1>1, <2>2
  <2> QED
    BY <1>5, <1>7, <2>2, <2>4, <2>5, <2>6, Zenon
<1>9. CASE rest # <<>>
  <2>1. PICK w \in WriteOutcomes(c, full) :
          o \in IF ~w.ok THEN {[cells |-> w.cells, buf |-> <<>>, ok |-> FALSE]}
                ELSE IF Len(rest) < EnvBuffer THEN {[cells |-> w.cells, buf |-> rest, ok |-> TRUE]}
                ELSE {[cells |-> p.cells, buf |-> <<>>, ok |-> p.ok]
                         : p \in WriteOutcomes(w.cells, rest)}
    BY <1>3, <1>9
  <2>2. /\ w.cells \in Seq(Nat) /\ Len(w.cells) \in Nat /\ Len(w.cells) >= Len(c)
        /\ w.ok \in BOOLEAN /\ (w.ok => w.cells = Cat(c, full))
    BY <1>5, WriteProps
  <2>3. CASE ~w.ok
    <3>1. o = [cells |-> w.cells, buf |-> <<>>, ok |-> FALSE]
      BY <2>1, <2>3
    <3>2. o.cells = w.cells /\ o.buf = <<>> /\ o.ok = FALSE
      BY <3>1
    <3> QED
      BY <1>7, <2>2, <3>2
  <2>4. CASE w.ok /\ Len(rest) < EnvBuffer
    <3>1. o = [cells |-> w.cells, buf |-> rest, ok |-> TRUE]
      BY <2>1, <2>4
    <3>2. o.cells = w.cells /\ o.buf = rest /\ o.ok = TRUE
      BY <3>1
    <3>3. Len(rest) <= EnvBuffer
      BY <1>1, <1>2, <1>4, <2>4
    <3>4. o.cells = Cat(c, full) /\ Cat(full, o.buf) = Cat(buf, data)
      BY <1>6, <2>2, <2>4, <3>2
    <3> QED
      BY <1>4, <1>5, <2>2, <3>2, <3>3, <3>4
  <2>5. CASE w.ok /\ ~(Len(rest) < EnvBuffer)
    <3>1. PICK p \in WriteOutcomes(w.cells, rest) : o = [cells |-> p.cells, buf |-> <<>>, ok |-> p.ok]
      BY <2>1, <2>5
    <3>2. o.cells = p.cells /\ o.buf = <<>> /\ o.ok = p.ok
      BY <3>1
    <3>3. /\ p.cells \in Seq(Nat) /\ Len(p.cells) \in Nat /\ Len(p.cells) >= Len(w.cells)
          /\ p.ok \in BOOLEAN /\ (p.ok => p.cells = Cat(w.cells, rest))
      BY <1>4, <2>2, WriteProps
    <3>4. w.cells = Cat(c, full) /\ Cat(full, rest) \in Seq(Nat)
      BY <1>4, <1>5, <2>2, <2>5, CatProps
    <3>5. Cat(Cat(c, full), rest) = Cat(c, Cat(full, rest))
      BY <1>4, <1>5, CatAssociative
    <3>6. Cat(Cat(full, rest), <<>>) = Cat(full, rest)
      BY <3>4, CatEmpty
    <3>7. p.ok => o.cells = Cat(c, Cat(full, rest)) /\ Cat(Cat(full, rest), o.buf) = Cat(buf, data)
      BY <1>6, <3>2, <3>3, <3>4, <3>5, <3>6
    <3>8. Len(o.cells) >= Len(c)
      BY <1>1, <2>2, <3>2, <3>3
    <3>9. Len(o.buf) <= EnvBuffer /\ o.buf \in Seq(Nat)
      BY <1>1, <1>7, <3>2
    <3> QED
      BY <3>2, <3>3, <3>4, <3>7, <3>8, <3>9
  <2> QED
    BY <2>2, <2>3, <2>4, <2>5
<1> QED
  BY <1>8, <1>9

----------------------------------------------------------------------------
(* The steps                                                               *)

\* Nothing is open before the choice.
LEMMA EnvInitInv == EnvInit => EnvInv
<1> SUFFICES ASSUME EnvInit PROVE EnvInv
  OBVIOUS
<1>1. env_files = <<>> /\ env_files \in Seq(EnvFile) /\ Len(env_files) = 0
  BY EmptySeq DEF EnvInit
<1>2. <<>> \in Seq(Nat)
  BY EmptySeq
<1>3. EnvTypes
  BY <1>1, <1>2, EnvAssumption
     DEF EnvInit, EnvTypes, EnvWriter, EnvReader, EnvFileOf, ClosedWriter, ClosedReader
<1>4. EnvReading
  BY DEF EnvInit, EnvReading, ClosedReader
<1>5. FdShort = {} /\ FdGranted = {} /\ MapShort = {} /\ MapGranted = {}
  BY DEF EnvInit, FdShort, FdGranted, MapShort, MapGranted, ClosedReader
<1>6. EnvLimits
  BY <1>5, FS_EmptySet, EnvAssumption DEF EnvInit, EnvLimits
<1>7. EnvRefs
  BY <1>1 DEF EnvRefs
<1>8. EnvWriting
  BY <1>1 DEF EnvInit, EnvWriting, ClosedWriter
<1> QED
  BY <1>3, <1>4, <1>6, <1>7, <1>8 DEF EnvInv

\* A file's number as a member of the sequence.
LEMMA FileNumbers ==
  ASSUME EnvTypes
  PROVE  /\ Len(env_files) \in Nat
         /\ \A f \in 1..Len(env_files) : env_files[f] \in EnvFile
         /\ \A n \in EnvNames : env_names[n] # 0 => env_names[n] \in 1..Len(env_files)
         /\ \A r \in EnvReaders : /\ env_r[r] \in EnvReader
                                  /\ env_r[r].file # 0 => env_r[r].file \in 1..Len(env_files)
         /\ env_w.file # 0 => env_w.file \in 1..Len(env_files)
<1>1. Len(env_files) \in Nat /\ \A f \in 1..Len(env_files) : env_files[f] \in EnvFile
  BY LenProperties, ElementOfSeq DEF EnvTypes
<1>2. \A n \in EnvNames : env_names[n] \in EnvFileOf
  BY DEF EnvTypes
<1>3. \A r \in EnvReaders : env_r[r] \in EnvReader
  BY DEF EnvTypes
<1>4. \A r \in EnvReaders : env_r[r].file \in EnvFileOf
  BY <1>3 DEF EnvReader
<1>5. env_w.file \in EnvFileOf
  BY DEF EnvTypes, EnvWriter
<1> QED
  BY <1>1, <1>2, <1>3, <1>4, <1>5 DEF EnvFileOf

\* The books when readers, names and the writer's file stay.
LEMMA QuietBooks ==
  ASSUME UNCHANGED <<env_names, env_r>>, env_w'.file = env_w.file
  PROVE  /\ EnvReading => EnvReading'
         /\ UNCHANGED <<env_fds, env_maps>> /\ EnvLimits => EnvLimits'
         /\ \A f : UsersOf(f)' = UsersOf(f)
<1>1. EnvReading => EnvReading'
  BY DEF EnvReading
<1>2. FdShort' = FdShort /\ FdGranted' = FdGranted /\ MapShort' = MapShort /\ MapGranted' = MapGranted
  BY DEF FdShort, FdGranted, MapShort, MapGranted
<1>3. UNCHANGED <<env_fds, env_maps>> /\ EnvLimits => EnvLimits'
  BY <1>2 DEF EnvLimits
<1>4. ASSUME NEW f PROVE UsersOf(f)' = UsersOf(f)
  <2>1. NamesOf(f)' = NamesOf(f) /\ ReadersOf(f)' = ReadersOf(f)
    BY DEF NamesOf, ReadersOf
  <2> QED
    BY <2>1 DEF UsersOf
<1> QED
  BY <1>1, <1>3, <1>4

\* A call on the writable file: its cells, its buffer and its error.
LEMMA WriterStep ==
  ASSUME EnvInv, env_w.open,
         NEW x \in EnvFile, env_files' = [env_files EXCEPT ![env_w.file] = x],
         x.refs = env_files[env_w.file].refs, x.freed = env_files[env_w.file].freed,
         x.synced <= Len(x.cells),
         env_w' \in EnvWriter, env_w'.file = env_w.file, env_w'.open,
         env_bytes' \in Nat, UNCHANGED <<env_kind, env_names, env_r, env_fds, env_maps>>,
         ~env_w'.err => /\ env_w'.base <= Len(x.cells)
                        /\ Cat(Part(x.cells, env_w'.base + 1, Len(x.cells)), env_w'.buf) = env_w'.sent
                        /\ Len(env_w'.buf) <= EnvBuffer
                        /\ env_kind = "mem" => env_w'.buf = <<>>
  PROVE  EnvInv'
<1> DEFINE f == env_w.file
<1>1. f \in 1..Len(env_files) /\ env_kind # "none" /\ f # 0
  BY FileNumbers DEF EnvInv, EnvWriting
<1>2. /\ env_files' \in Seq(EnvFile) /\ Len(env_files') = Len(env_files) /\ env_files'[f] = x
      /\ \A g \in 1..Len(env_files) : g # f => env_files'[g] = env_files[g]
  BY <1>1, ExceptSeq DEF EnvInv, EnvTypes
<1>3. EnvFileOf' = EnvFileOf
  BY <1>2 DEF EnvFileOf
<1>4. EnvTypes'
  BY <1>2, <1>3 DEF EnvInv, EnvTypes, EnvWriter, EnvReader
<1>5. EnvReading' /\ EnvLimits' /\ \A g : UsersOf(g)' = UsersOf(g)
  BY QuietBooks DEF EnvInv
<1>6. EnvRefs'
  <2> SUFFICES ASSUME NEW g \in 1..Len(env_files)
               PROVE  /\ env_files'[g].refs = UsersOf(g)
                      /\ env_files'[g].freed <=> env_files'[g].refs = 0
    BY <1>2, <1>5 DEF EnvRefs
  <2>1. env_files[g].refs = UsersOf(g) /\ (env_files[g].freed <=> env_files[g].refs = 0)
    BY DEF EnvInv, EnvRefs
  <2>2. env_files'[g].refs = env_files[g].refs /\ env_files'[g].freed = env_files[g].freed
    BY <1>2
  <2> QED
    BY <2>1, <2>2
<1>7. EnvWriting'
  <2>1. Cells' = x.cells
    BY <1>2 DEF Cells
  <2>2. \A g \in 1..Len(env_files') : env_files'[g].synced <= Len(env_files'[g].cells)
    BY <1>2 DEF EnvInv, EnvWriting
  <2>3. (env_w.open <=> env_w.file # 0)' /\ (env_kind = "none" => ~env_w.open)'
    BY <1>1
  <2> QED
    BY <2>1, <2>2, <2>3 DEF EnvWriting
<1> QED
  BY <1>4, <1>5, <1>6, <1>7 DEF EnvInv

\* What the invariant says of a writer that has met no error.
LEMMA WriterNow ==
  ASSUME EnvInv, env_w.open
  PROVE  /\ env_w.file \in 1..Len(env_files) /\ env_files[env_w.file] \in EnvFile
         /\ Cells \in Seq(Nat) /\ Len(Cells) \in Nat
         /\ env_files[env_w.file].synced \in Nat /\ env_files[env_w.file].synced <= Len(Cells)
         /\ env_w \in EnvWriter /\ env_w.buf \in Seq(Nat) /\ env_w.sent \in Seq(Nat) /\ env_w.base \in Nat
         /\ env_w.err \in BOOLEAN /\ env_bytes \in Nat /\ env_kind \in {"unix", "win", "win9x", "mem"}
<1>1. env_w.file \in 1..Len(env_files) /\ env_files[env_w.file] \in EnvFile
  BY FileNumbers DEF EnvInv, EnvWriting
<1>2. Cells \in Seq(Nat) /\ env_files[env_w.file].synced \in Nat
  BY <1>1 DEF Cells, EnvFile
<1>3. env_files[env_w.file].synced <= Len(Cells)
  BY <1>1 DEF EnvInv, EnvWriting, Cells
<1>4. env_w \in EnvWriter /\ env_bytes \in Nat
  BY DEF EnvInv, EnvTypes
<1>5. env_kind \in {"unix", "win", "win9x", "mem"}
  BY DEF EnvInv, EnvTypes, EnvWriting
<1>6. /\ env_w.buf \in Seq(Nat) /\ env_w.sent \in Seq(Nat) /\ env_w.base \in Nat
      /\ env_w.err \in BOOLEAN
  BY <1>4 DEF EnvWriter
<1> QED
  BY <1>1, <1>2, <1>3, <1>4, <1>5, <1>6, LenProperties

\* The file and the buffer after more was moved from the buffer to the file.
LEMMA SentKept ==
  ASSUME NEW c \in Seq(Nat), NEW b \in Nat, b <= Len(c), NEW buf \in Seq(Nat),
         NEW data \in Seq(Nat), NEW d \in Seq(Nat), NEW rest \in Seq(Nat),
         Cat(d, rest) = Cat(buf, data)
  PROVE  /\ Cat(Part(Cat(c, d), b + 1, Len(Cat(c, d))), rest)
              = Cat(Cat(Part(c, b + 1, Len(c)), buf), data)
         /\ b <= Len(Cat(c, d))
<1> DEFINE x == Part(c, b + 1, Len(c))
<1>1. x \in Seq(Nat) /\ Part(Cat(c, d), b + 1, Len(Cat(c, d))) = Cat(x, d)
  BY SuffixConcat
<1> HIDE DEF x
<1>2. Cat(Cat(x, d), rest) = Cat(x, Cat(d, rest)) /\ Cat(Cat(x, buf), data) = Cat(x, Cat(buf, data))
  BY <1>1, CatAssociative
<1>3. Len(Cat(c, d)) = Len(c) + Len(d) /\ Len(c) \in Nat /\ Len(d) \in Nat
  BY CatProps
<1>4. b <= Len(Cat(c, d))
  BY <1>3
<1>5. Cat(Cat(x, d), rest) = Cat(Cat(x, buf), data)
  BY <1>2
<1> QED
  BY <1>1, <1>4, <1>5 DEF x

LEMMA WfileAppendInv == ASSUME EnvInv, NEW k \in EnvChunks, WfileAppend(k) PROVE EnvInv'
<1> DEFINE data == [i \in 1..k |-> env_bytes + i]
           f == env_w.file
           c == Cells
           buf == env_w.buf
           b == env_w.base
<1>1. env_w.open /\ ~env_w.err /\ env_bytes' = env_bytes + k
  BY DEF WfileAppend, Usable
<1>2. UNCHANGED <<env_kind, env_names, env_r, env_fds, env_maps>>
  BY DEF WfileAppend
<1>3. /\ f \in 1..Len(env_files) /\ env_files[f] \in EnvFile /\ c \in Seq(Nat) /\ Len(c) \in Nat
      /\ env_files[f].synced \in Nat /\ env_files[f].synced <= Len(c)
      /\ env_w \in EnvWriter /\ buf \in Seq(Nat) /\ env_w.sent \in Seq(Nat) /\ b \in Nat
      /\ env_bytes \in Nat /\ env_kind \in {"unix", "win", "win9x", "mem"}
  BY <1>1, WriterNow
<1>4. k \in Nat /\ env_bytes' \in Nat
  BY <1>1, <1>3, EnvAssumption
<1>5. data \in Seq(Nat)
  <2>1. data \in [1..k -> Nat]
    BY <1>3, <1>4
  <2> HIDE DEF data
  <2> QED
    BY <1>4, <2>1, SeqDef
<1>6. b <= Len(c) /\ Cat(Part(c, b + 1, Len(c)), buf) = env_w.sent /\ Len(buf) <= EnvBuffer
      /\ (env_kind = "mem" => buf = <<>>)
  BY <1>1 DEF EnvInv, EnvWriting
<1>7. PICK o \in (CASE env_kind = "mem" -> MemAppend(c, data)
                    [] env_kind = "unix" -> AppendOutcomes(c, buf, data)
                    [] env_kind \in Windows -> WinAppend(c, buf, data)) :
        /\ env_files' = [env_files EXCEPT ![f].cells = o.cells]
        /\ env_w' = [env_w EXCEPT !.buf = o.buf, !.err = @ \/ ~o.ok,
                                  !.sent = IF o.ok THEN @ \o data ELSE @]
  BY DEF WfileAppend
<1> HIDE DEF data
<1>8. /\ o.cells \in Seq(Nat) /\ Len(o.cells) \in Nat /\ Len(o.cells) >= Len(c)
      /\ o.buf \in Seq(Nat) /\ o.ok \in BOOLEAN
      /\ o.ok => /\ Len(o.buf) <= EnvBuffer /\ (env_kind = "mem" => o.buf = <<>>)
                 /\ \E d \in Seq(Nat) : o.cells = Cat(c, d) /\ Cat(d, o.buf) = Cat(buf, data)
  <2>1. CASE env_kind = "mem"
    <3>1. o = [cells |-> c \o data, buf |-> <<>>, ok |-> TRUE]
      BY <1>7, <2>1 DEF MemAppend, Windows
    <3>2. o.cells = Cat(c, data) /\ o.buf = <<>> /\ o.ok = TRUE
      BY <3>1 DEF Cat
    <3>3. /\ Cat(c, data) \in Seq(Nat) /\ Len(Cat(c, data)) = Len(c) + Len(data)
          /\ Len(data) \in Nat
      BY <1>3, <1>5, CatProps
    <3>4. Cat(data, <<>>) = data /\ Cat(<<>>, data) = data /\ <<>> \in Seq(Nat) /\ Len(<<>>) = 0
      BY <1>5, CatEmpty
    <3>5. Cat(data, o.buf) = Cat(buf, data) /\ Len(o.buf) <= EnvBuffer
      BY <1>6, <2>1, <3>2, <3>4, EnvAssumption
    <3>6. Len(o.cells) \in Nat /\ Len(o.cells) >= Len(c)
      BY <1>3, <3>2, <3>3
    <3> QED
      BY <1>5, <3>2, <3>3, <3>4, <3>5, <3>6, Zenon
  <2>2. CASE env_kind # "mem"
    <3>1. o \in AppendOutcomes(c, buf, data)
      BY <1>3, <1>7, <2>2 DEF Windows, WinAppend
    <3>2. /\ o.cells \in Seq(Nat) /\ Len(o.cells) \in Nat /\ Len(o.cells) >= Len(c)
          /\ o.buf \in Seq(Nat) /\ o.ok \in BOOLEAN
          /\ o.ok => /\ Len(o.buf) <= EnvBuffer
                     /\ \E d \in Seq(Nat) : o.cells = Cat(c, d) /\ Cat(d, o.buf) = Cat(buf, data)
      BY <1>3, <1>5, <1>6, <3>1, AppendProps
    <3> QED
      BY <2>2, <3>2
  <2> QED
    BY <2>1, <2>2
<1> DEFINE x == WithCells(env_files[f], o.cells)
<1>9. /\ x \in EnvFile /\ x.cells = o.cells /\ x.synced = env_files[f].synced
      /\ x.refs = env_files[f].refs /\ x.freed = env_files[f].freed
  BY <1>3, <1>8, CellsField
<1>10. env_files' = [env_files EXCEPT ![f] = x]
  BY <1>7 DEF WithCells
<1> HIDE DEF x
<1>11. /\ env_w' \in EnvWriter /\ env_w'.file = f /\ env_w'.open /\ env_w'.base = b
       /\ env_w'.buf = o.buf /\ env_w'.err = ~o.ok
       /\ env_w'.sent = IF o.ok THEN Cat(env_w.sent, data) ELSE env_w.sent
  <2>1. Cat(env_w.sent, data) \in Seq(Nat)
    BY <1>3, <1>5, CatProps
  <2>2. env_w' = [env_w EXCEPT !.buf = o.buf, !.err = ~o.ok,
                               !.sent = IF o.ok THEN Cat(env_w.sent, data) ELSE env_w.sent]
    BY <1>1, <1>7 DEF Cat
  <2> QED
    BY <1>1, <1>3, <1>8, <2>1, <2>2 DEF EnvWriter
<1>12. ASSUME ~env_w'.err
       PROVE  /\ env_w'.base <= Len(x.cells)
              /\ Cat(Part(x.cells, env_w'.base + 1, Len(x.cells)), env_w'.buf) = env_w'.sent
              /\ Len(env_w'.buf) <= EnvBuffer
              /\ env_kind = "mem" => env_w'.buf = <<>>
  <2>1. o.ok
    BY <1>8, <1>11, <1>12
  <2>2. PICK d \in Seq(Nat) : o.cells = Cat(c, d) /\ Cat(d, o.buf) = Cat(buf, data)
    BY <1>8, <2>1
  <2>3. /\ Cat(Part(Cat(c, d), b + 1, Len(Cat(c, d))), o.buf)
             = Cat(Cat(Part(c, b + 1, Len(c)), buf), data)
        /\ b <= Len(Cat(c, d))
    <3>1. o.buf \in Seq(Nat)
      BY <1>8
    <3>2. c \in Seq(Nat) /\ buf \in Seq(Nat) /\ b \in Nat /\ b <= Len(c)
      BY <1>3, <1>6
    <3> HIDE DEF c, b, buf
    <3> QED
      BY <1>5, <2>2, <3>1, <3>2, SentKept
  <2> QED
    BY <1>6, <1>8, <1>9, <1>11, <2>1, <2>2, <2>3
<1>13. x.synced <= Len(x.cells)
  BY <1>3, <1>8, <1>9
<1> QED
  BY <1>1, <1>2, <1>4, <1>9, <1>10, <1>11, <1>12, <1>13, WriterStep

\* ldb_wfile_flush: nothing is left in the buffer and nothing is lost unless it failed.
LEMMA FlushProps ==
  ASSUME EnvInv, env_w.open, NEW o \in FlushOutcomes
  PROVE  /\ o.cells \in Seq(Nat) /\ Len(o.cells) \in Nat /\ Len(o.cells) >= Len(Cells)
         /\ o.ok \in BOOLEAN
         /\ ~env_w.err /\ o.ok =>
              /\ env_w.base <= Len(o.cells)
              /\ Cat(Part(o.cells, env_w.base + 1, Len(o.cells)), <<>>) = env_w.sent
<1> DEFINE c == Cells
           buf == env_w.buf
           b == env_w.base
           x == Part(c, b + 1, Len(c))
<1>1. c \in Seq(Nat) /\ buf \in Seq(Nat) /\ b \in Nat /\ env_w.sent \in Seq(Nat)
  BY WriterNow
<1>2. /\ o.cells \in Seq(Nat) /\ Len(o.cells) \in Nat /\ Len(o.cells) >= Len(c)
      /\ o.ok \in BOOLEAN /\ (o.ok => o.cells = Cat(c, buf))
  BY <1>1, WriteProps DEF FlushOutcomes
<1>3. ASSUME ~env_w.err, o.ok
      PROVE  b <= Len(o.cells) /\ Cat(Part(o.cells, b + 1, Len(o.cells)), <<>>) = env_w.sent
  <2>1. b <= Len(c) /\ Cat(x, buf) = env_w.sent
    BY <1>3 DEF EnvInv, EnvWriting
  <2>2. o.cells = Cat(c, buf)
    BY <1>2, <1>3
  <2>3. <<>> \in Seq(Nat) /\ Cat(env_w.sent, <<>>) = env_w.sent
    BY <1>1, CatEmpty
  <2> HIDE DEF c, buf, b
  <2>4. /\ Cat(Part(Cat(c, buf), b + 1, Len(Cat(c, buf))), <<>>) = Cat(Cat(x, buf), <<>>)
        /\ b <= Len(Cat(c, buf))
    BY <1>1, <2>1, <2>3, SentKept
  <2> QED
    BY <2>1, <2>2, <2>3, <2>4
<1> QED
  BY <1>2, <1>3

\* The buffer's new state for a call that emptied it.
LEMMA EmptiedBuffer ==
  ASSUME EnvInv, NEW e \in BOOLEAN, env_w' = [env_w EXCEPT !.buf = <<>>, !.err = e]
  PROVE  /\ env_w' \in EnvWriter /\ env_w'.file = env_w.file /\ env_w'.open = env_w.open
         /\ env_w'.base = env_w.base /\ env_w'.sent = env_w.sent
         /\ env_w'.buf = <<>> /\ env_w'.err = e /\ Len(<<>>) <= EnvBuffer
<1>1. <<>> \in Seq(Nat) /\ Len(<<>>) = 0
  BY EmptySeq
<1>2. env_w \in EnvWriter
  BY DEF EnvInv, EnvTypes
<1>3. Len(<<>>) <= EnvBuffer
  BY <1>1, EnvAssumption
<1> QED
  BY <1>1, <1>2, <1>3 DEF EnvWriter

LEMMA WfileFlushInv == ASSUME EnvInv, WfileFlush PROVE EnvInv'
<1> DEFINE f == env_w.file
<1>1. /\ env_w.open /\ ~env_w.err /\ env_bytes' = env_bytes
      /\ UNCHANGED <<env_kind, env_names, env_r, env_fds, env_maps>>
  BY DEF WfileFlush, Usable
<1>2. PICK o \in FlushOutcomes :
        /\ env_files' = [env_files EXCEPT ![f].cells = o.cells]
        /\ env_w' = [env_w EXCEPT !.buf = <<>>, !.err = @ \/ ~o.ok]
  BY DEF WfileFlush
<1>3. /\ env_files[f] \in EnvFile /\ env_files[f].synced \in Nat /\ env_files[f].synced <= Len(Cells)
      /\ Len(Cells) \in Nat /\ env_bytes \in Nat
  BY <1>1, WriterNow
<1>4. /\ o.cells \in Seq(Nat) /\ Len(o.cells) \in Nat /\ Len(o.cells) >= Len(Cells)
      /\ o.ok \in BOOLEAN
      /\ o.ok => /\ env_w.base <= Len(o.cells)
                 /\ Cat(Part(o.cells, env_w.base + 1, Len(o.cells)), <<>>) = env_w.sent
  BY <1>1, FlushProps
<1> DEFINE x == WithCells(env_files[f], o.cells)
<1>5. /\ x \in EnvFile /\ x.cells = o.cells /\ x.synced = env_files[f].synced
      /\ x.refs = env_files[f].refs /\ x.freed = env_files[f].freed
  BY <1>3, <1>4, CellsField
<1>6. env_files' = [env_files EXCEPT ![f] = x]
  BY <1>2 DEF WithCells
<1> HIDE DEF x
<1>7. env_w' = [env_w EXCEPT !.buf = <<>>, !.err = ~o.ok]
  BY <1>1, <1>2
<1>8. /\ env_w' \in EnvWriter /\ env_w'.file = env_w.file /\ env_w'.open
      /\ env_w'.base = env_w.base /\ env_w'.sent = env_w.sent
      /\ env_w'.buf = <<>> /\ env_w'.err = ~o.ok /\ Len(<<>>) <= EnvBuffer
  BY <1>1, <1>4, <1>7, EmptiedBuffer
<1>9. ASSUME ~env_w'.err
      PROVE  /\ env_w'.base <= Len(x.cells)
             /\ Cat(Part(x.cells, env_w'.base + 1, Len(x.cells)), env_w'.buf) = env_w'.sent
             /\ Len(env_w'.buf) <= EnvBuffer
             /\ env_kind = "mem" => env_w'.buf = <<>>
  BY <1>4, <1>5, <1>8, <1>9
<1>10. x.synced <= Len(x.cells)
  BY <1>3, <1>4, <1>5
<1> QED
  BY <1>1, <1>3, <1>5, <1>6, <1>8, <1>9, <1>10, WriterStep

LEMMA WfileSyncInv == ASSUME EnvInv, NEW fsync \in BOOLEAN, WfileSync(fsync) PROVE EnvInv'
<1> DEFINE f == env_w.file
<1>1. /\ env_w.open /\ ~env_w.err /\ env_bytes' = env_bytes
      /\ UNCHANGED <<env_kind, env_names, env_r, env_fds, env_maps>>
  BY DEF WfileSync, Usable
<1>2. PICK o \in FlushOutcomes :
        /\ env_files' = [env_files EXCEPT ![f] = Fsync([@ EXCEPT !.cells = o.cells], o.ok /\ fsync)]
        /\ env_w' = [env_w EXCEPT !.buf = <<>>, !.err = @ \/ ~o.ok \/ ~fsync]
  BY DEF WfileSync
<1>3. /\ env_files[f] \in EnvFile /\ env_files[f].synced \in Nat /\ env_files[f].synced <= Len(Cells)
      /\ Len(Cells) \in Nat /\ env_bytes \in Nat
  BY <1>1, WriterNow
<1>4. /\ o.cells \in Seq(Nat) /\ Len(o.cells) \in Nat /\ Len(o.cells) >= Len(Cells)
      /\ o.ok \in BOOLEAN
      /\ o.ok => /\ env_w.base <= Len(o.cells)
                 /\ Cat(Part(o.cells, env_w.base + 1, Len(o.cells)), <<>>) = env_w.sent
  BY <1>1, FlushProps
<1> DEFINE y == WithCells(env_files[f], o.cells)
           x == IF o.ok /\ fsync THEN WithSynced(y, Len(y.cells)) ELSE y
<1>5. /\ y \in EnvFile /\ y.cells = o.cells /\ y.synced = env_files[f].synced
      /\ y.refs = env_files[f].refs /\ y.freed = env_files[f].freed
  BY <1>3, <1>4, CellsField
<1>6. env_files' = [env_files EXCEPT ![f] = x]
  BY <1>2 DEF WithCells, WithSynced, Fsync
<1> HIDE DEF y
<1>7. /\ x \in EnvFile /\ x.cells = o.cells /\ x.refs = env_files[f].refs
      /\ x.freed = env_files[f].freed /\ x.synced <= Len(x.cells)
  <2>1. Len(y.cells) \in Nat
    BY <1>4, <1>5
  <2>2. CASE o.ok /\ fsync
    <3>1. x = WithSynced(y, Len(y.cells))
      BY <2>2
    <3> HIDE DEF x
    <3>2. x \in EnvFile /\ x.cells = y.cells /\ x.synced = Len(y.cells) /\ x.freed = y.freed
          /\ x.refs = y.refs
      BY <1>5, <2>1, <3>1, SyncedField
    <3> QED
      BY <1>4, <1>5, <3>2
  <2>3. CASE ~(o.ok /\ fsync)
    <3>1. x = y
      BY <2>3
    <3> HIDE DEF x
    <3> QED
      BY <1>3, <1>4, <1>5, <3>1
  <2> QED
    BY <2>2, <2>3
<1> HIDE DEF x
<1>8. env_w' = [env_w EXCEPT !.buf = <<>>, !.err = ~o.ok \/ ~fsync]
  BY <1>1, <1>2
<1>9. /\ env_w' \in EnvWriter /\ env_w'.file = env_w.file /\ env_w'.open
      /\ env_w'.base = env_w.base /\ env_w'.sent = env_w.sent
      /\ env_w'.buf = <<>> /\ env_w'.err = (~o.ok \/ ~fsync) /\ Len(<<>>) <= EnvBuffer
  BY <1>1, <1>4, <1>8, EmptiedBuffer
<1>10. ASSUME ~env_w'.err
       PROVE  /\ env_w'.base <= Len(x.cells)
              /\ Cat(Part(x.cells, env_w'.base + 1, Len(x.cells)), env_w'.buf) = env_w'.sent
              /\ Len(env_w'.buf) <= EnvBuffer
              /\ env_kind = "mem" => env_w'.buf = <<>>
  BY <1>4, <1>7, <1>9, <1>10
<1> QED
  BY <1>1, <1>3, <1>6, <1>7, <1>9, <1>10, WriterStep

LEMMA SimulatedErrorInv == ASSUME EnvInv, SimulatedError PROVE EnvInv'
<1> DEFINE f == env_w.file
           x == env_files[f]
<1>1. /\ env_w.open /\ env_bytes' = env_bytes /\ env_files' = env_files
      /\ UNCHANGED <<env_kind, env_names, env_r, env_fds, env_maps>>
      /\ env_w' = [env_w EXCEPT !.err = TRUE]
  BY DEF SimulatedError, Usable
<1>2. /\ f \in 1..Len(env_files) /\ x \in EnvFile /\ x.synced <= Len(x.cells)
      /\ env_bytes \in Nat /\ env_w \in EnvWriter
  BY <1>1, WriterNow DEF Cells
<1>3. env_files' = [env_files EXCEPT ![f] = x]
  BY <1>1, <1>2, LenProperties DEF EnvInv, EnvTypes
<1>4. env_w' \in EnvWriter /\ env_w'.file = env_w.file /\ env_w'.open /\ env_w'.err = TRUE
  BY <1>1, <1>2 DEF EnvWriter
<1> QED
  BY <1>1, <1>2, <1>3, <1>4, WriterStep

----------------------------------------------------------------------------
(* Names and readers                                                       *)

\* More files, and the same types.
LEMMA TypesGrow ==
  ASSUME EnvTypes, env_files' \in Seq(EnvFile), Len(env_files') >= Len(env_files)
  PROVE  /\ EnvFileOf \subseteq EnvFileOf'
         /\ env_w \in EnvWriter' /\ env_r \in [EnvReaders -> EnvReader']
<1>1. Len(env_files) \in Nat /\ Len(env_files') \in Nat
  BY LenProperties DEF EnvTypes
<1>2. EnvFileOf \subseteq EnvFileOf'
  BY <1>1 DEF EnvFileOf
<1> QED
  BY <1>2 DEF EnvTypes, EnvWriter, EnvReader

\* The writer while others move.
LEMMA WritingKept ==
  ASSUME EnvInv, UNCHANGED <<env_w, env_kind>>,
         env_w.open => env_files'[env_w.file].cells = env_files[env_w.file].cells,
         \A g \in 1..Len(env_files') : env_files'[g].synced <= Len(env_files'[g].cells)
  PROVE  EnvWriting'
<1>1. env_w.open => Cells' = Cells
  BY DEF Cells
<1> HIDE DEF Cells
<1> QED
  BY <1>1 DEF EnvInv, EnvWriting

\* A step that changes names and files only.
LEMMA NameStep ==
  ASSUME EnvInv, UNCHANGED <<env_kind, env_w, env_r, env_fds, env_maps>>, env_bytes' \in Nat,
         env_files' \in Seq(EnvFile), Len(env_files') >= Len(env_files),
         env_names' \in [EnvNames -> 0..Len(env_files')],
         \A g \in 1..Len(env_files') :
           /\ env_files'[g].refs = UsersOf(g)'
           /\ env_files'[g].freed <=> env_files'[g].refs = 0
           /\ env_files'[g].synced <= Len(env_files'[g].cells),
         env_w.open => env_files'[env_w.file].cells = env_files[env_w.file].cells
  PROVE  EnvInv'
<1>1. EnvTypes'
  BY TypesGrow DEF EnvInv, EnvTypes, EnvFileOf
<1>2. EnvReading'
  BY DEF EnvInv, EnvReading
<1>3. FdShort' = FdShort /\ FdGranted' = FdGranted /\ MapShort' = MapShort /\ MapGranted' = MapGranted
  BY DEF FdShort, FdGranted, MapShort, MapGranted
<1>4. EnvLimits'
  BY <1>3 DEF EnvInv, EnvLimits
<1>5. EnvRefs'
  BY DEF EnvRefs
<1>6. EnvWriting'
  BY WritingKept
<1> QED
  BY <1>1, <1>2, <1>4, <1>5, <1>6 DEF EnvInv

\* The arithmetic of a file's references.
LEMMA RefMoves ==
  ASSUME NEW a \in Nat, NEW b \in Nat, NEW n \in Nat, NEW p \in Nat, NEW q \in Nat,
         NEW o \in {0, 1}, NEW w \in {0, 1}, NEW k \in {0, 1},
         q + o = p + w, b + o = a + w, a = n + p + k
  PROVE  b = n + q + k
OBVIOUS

\* A step of a reader.
LEMMA ReaderStep ==
  ASSUME EnvInv, NEW r \in EnvReaders, NEW v \in EnvReader, env_r' = [env_r EXCEPT ![r] = v],
         UNCHANGED <<env_kind, env_names, env_w, env_bytes>>,
         v.pc \in {"closed", "by_name"} <=> v.file = 0,
         v.lim # "none" => v.pc = "open",
         env_files' \in Seq(EnvFile), Len(env_files') = Len(env_files),
         \A g \in 1..Len(env_files) :
           /\ env_files'[g].refs + (IF env_r[r].file = g THEN 1 ELSE 0)
                = env_files[g].refs + (IF v.file = g THEN 1 ELSE 0)
           /\ env_files'[g].freed <=> env_files'[g].refs = 0
           /\ env_files'[g].synced <= Len(env_files'[g].cells),
         env_w.open => env_files'[env_w.file].cells = env_files[env_w.file].cells,
         env_fds' = env_fds + (IF env_r[r].lim = "fd" \/ env_r[r].pc = "undo_fd" THEN 1 ELSE 0)
                            - (IF v.lim = "fd" \/ v.pc = "undo_fd" THEN 1 ELSE 0),
         env_maps' = env_maps
           + (IF env_r[r].lim = "map" \/ env_r[r].pc \in {"map", "undo_map"} THEN 1 ELSE 0)
           - (IF v.lim = "map" \/ v.pc \in {"map", "undo_map"} THEN 1 ELSE 0),
         v.lim = "fd" => env_r[r].lim = "fd" \/ env_fds > 0,
         v.lim = "map" \/ v.pc = "map" => env_r[r].lim = "map" \/ env_r[r].pc = "map" \/ env_maps > 0
  PROVE  EnvInv'
<1>1. EnvFileOf' = EnvFileOf
  BY DEF EnvFileOf
<1>2. /\ env_fds \in Int /\ env_maps \in Int /\ EnvMaxFds \in Nat /\ EnvMaxMaps \in Nat
      /\ DOMAIN env_r = EnvReaders
  BY EnvAssumption DEF EnvInv, EnvTypes
<1>3. EnvTypes'
  <2>1. env_r' \in [EnvReaders -> EnvReader]
    BY DEF EnvInv, EnvTypes
  <2>2. env_fds' \in Int /\ env_maps' \in Int
    BY <1>2
  <2>3. EnvReader' = EnvReader /\ EnvWriter' = EnvWriter
    BY <1>1 DEF EnvReader, EnvWriter
  <2> QED
    BY <1>1, <2>1, <2>2, <2>3 DEF EnvInv, EnvTypes
<1>4. EnvReading'
  BY <1>2 DEF EnvInv, EnvReading
<1> DEFINE ofs == IF env_r[r].lim = "fd" \/ env_r[r].pc = "undo_fd" THEN 1 ELSE 0
           nfs == IF v.lim = "fd" \/ v.pc = "undo_fd" THEN 1 ELSE 0
           ofg == IF env_r[r].lim = "fd" THEN 1 ELSE 0
           nfg == IF v.lim = "fd" THEN 1 ELSE 0
           oms == IF env_r[r].lim = "map" \/ env_r[r].pc \in {"map", "undo_map"} THEN 1 ELSE 0
           nms == IF v.lim = "map" \/ v.pc \in {"map", "undo_map"} THEN 1 ELSE 0
           omg == IF env_r[r].lim = "map" \/ env_r[r].pc = "map" THEN 1 ELSE 0
           nmg == IF v.lim = "map" \/ v.pc = "map" THEN 1 ELSE 0
<1>5. /\ Cardinality(FdShort') + ofs = Cardinality(FdShort) + nfs
      /\ Cardinality(FdGranted') + ofg = Cardinality(FdGranted) + nfg
      /\ Cardinality(MapShort') + oms = Cardinality(MapShort) + nms
      /\ Cardinality(MapGranted') + omg = Cardinality(MapGranted) + nmg
  BY <1>2, ReaderBooks
<1>6. /\ Cardinality(FdShort) \in Nat /\ Cardinality(FdGranted) \in Nat
      /\ Cardinality(MapShort) \in Nat /\ Cardinality(MapGranted) \in Nat
  BY EnvCounts
<1>7. /\ Cardinality(FdShort') \in Nat /\ Cardinality(FdGranted') \in Nat
      /\ Cardinality(MapShort') \in Nat /\ Cardinality(MapGranted') \in Nat
  <2>1. /\ FdShort' \in SUBSET EnvReaders /\ FdGranted' \in SUBSET EnvReaders
        /\ MapShort' \in SUBSET EnvReaders /\ MapGranted' \in SUBSET EnvReaders
    BY DEF FdShort, FdGranted, MapShort, MapGranted
  <2>2. /\ IsFiniteSet(FdShort') /\ IsFiniteSet(FdGranted')
        /\ IsFiniteSet(MapShort') /\ IsFiniteSet(MapGranted')
    BY <2>1, EnvAssumption, FS_Subset
  <2> QED
    BY <2>2, FS_CardinalityType
<1>8. /\ Cardinality(FdGranted) <= Cardinality(FdShort)
      /\ Cardinality(MapGranted) <= Cardinality(MapShort)
  <2>1. FdGranted \in SUBSET FdShort /\ MapGranted \in SUBSET MapShort
    BY DEF FdShort, FdGranted, MapShort, MapGranted
  <2>2. FdShort \in SUBSET EnvReaders /\ MapShort \in SUBSET EnvReaders
    BY DEF FdShort, MapShort
  <2>3. IsFiniteSet(FdShort) /\ IsFiniteSet(MapShort)
    BY <2>2, EnvAssumption, FS_Subset
  <2> QED
    BY <2>1, <2>3, FS_Subset
<1>9. /\ env_fds = EnvMaxFds - Cardinality(FdShort) /\ Cardinality(FdGranted) <= EnvMaxFds
      /\ env_maps = EnvMaxMaps - Cardinality(MapShort) /\ Cardinality(MapGranted) <= EnvMaxMaps
  BY DEF EnvInv, EnvLimits
<1>10. /\ env_fds' = env_fds + ofs - nfs /\ env_maps' = env_maps + oms - nms
       /\ nfg = 1 => ofg = 1 \/ env_fds > 0
       /\ nmg = 1 => omg = 1 \/ env_maps > 0
       /\ ofs \in {0, 1} /\ nfs \in {0, 1} /\ oms \in {0, 1} /\ nms \in {0, 1}
       /\ ofg \in {0, 1} /\ nfg \in {0, 1} /\ omg \in {0, 1} /\ nmg \in {0, 1}
  OBVIOUS
<1> DEFINE fs == Cardinality(FdShort)
           fsp == Cardinality(FdShort')
           fg == Cardinality(FdGranted)
           fgp == Cardinality(FdGranted')
           ms == Cardinality(MapShort)
           msp == Cardinality(MapShort')
           mg == Cardinality(MapGranted)
           mgp == Cardinality(MapGranted')
<1>11. fsp + ofs = fs + nfs /\ fgp + ofg = fg + nfg /\ msp + oms = ms + nms /\ mgp + omg = mg + nmg
  BY <1>5
<1>12. /\ fs \in Nat /\ fsp \in Nat /\ fg \in Nat /\ fgp \in Nat
       /\ ms \in Nat /\ msp \in Nat /\ mg \in Nat /\ mgp \in Nat
       /\ fg <= fs /\ mg <= ms
       /\ env_fds = EnvMaxFds - fs /\ fg <= EnvMaxFds
       /\ env_maps = EnvMaxMaps - ms /\ mg <= EnvMaxMaps
  BY <1>6, <1>7, <1>8, <1>9
<1> HIDE DEF ofs, nfs, ofg, nfg, oms, nms, omg, nmg, fs, fsp, fg, fgp, ms, msp, mg, mgp
<1>13. env_fds' \in Int /\ env_maps' \in Int
  BY <1>3 DEF EnvTypes
<1>14. env_fds' = EnvMaxFds - fsp /\ fgp <= EnvMaxFds
  <2>1. /\ EnvMaxFds \in Nat /\ env_fds \in Int /\ env_fds' \in Int
        /\ fs \in Nat /\ fsp \in Nat /\ fg \in Nat /\ fgp \in Nat
        /\ ofs \in {0, 1} /\ nfs \in {0, 1} /\ ofg \in {0, 1} /\ nfg \in {0, 1}
    BY <1>2, <1>10, <1>12, <1>13
  <2>2. /\ fsp + ofs = fs + nfs /\ fgp + ofg = fg + nfg /\ fg <= fs /\ fg <= EnvMaxFds
        /\ env_fds = EnvMaxFds - fs /\ env_fds' = env_fds + ofs - nfs
        /\ nfg = 1 => ofg = 1 \/ env_fds > 0
    BY <1>10, <1>11, <1>12
  <2> QED
    BY ONLY <2>1, <2>2
<1>15. env_maps' = EnvMaxMaps - msp /\ mgp <= EnvMaxMaps
  <2>1. /\ EnvMaxMaps \in Nat /\ env_maps \in Int /\ env_maps' \in Int
        /\ ms \in Nat /\ msp \in Nat /\ mg \in Nat /\ mgp \in Nat
        /\ oms \in {0, 1} /\ nms \in {0, 1} /\ omg \in {0, 1} /\ nmg \in {0, 1}
    BY <1>2, <1>10, <1>12, <1>13
  <2>2. /\ msp + oms = ms + nms /\ mgp + omg = mg + nmg /\ mg <= ms /\ mg <= EnvMaxMaps
        /\ env_maps = EnvMaxMaps - ms /\ env_maps' = env_maps + oms - nms
        /\ nmg = 1 => omg = 1 \/ env_maps > 0
    BY <1>10, <1>11, <1>12
  <2> QED
    BY ONLY <2>1, <2>2
<1>16. EnvLimits'
  BY <1>13, <1>14, <1>15 DEF EnvLimits, fsp, fgp, msp, mgp
<1>17. EnvRefs'
  <2> SUFFICES ASSUME NEW g \in 1..Len(env_files)
               PROVE  /\ env_files'[g].refs = UsersOf(g)'
                      /\ env_files'[g].freed <=> env_files'[g].refs = 0
    BY DEF EnvRefs
  <2>1. Cardinality(ReadersOf(g)') + (IF env_r[r].file = g THEN 1 ELSE 0)
          = Cardinality(ReadersOf(g)) + (IF v.file = g THEN 1 ELSE 0)
    <3>1. \A h : Cardinality(ReadersOf(h)') + (IF env_r[r].file = h THEN 1 ELSE 0)
            = Cardinality(ReadersOf(h)) + (IF v.file = h THEN 1 ELSE 0)
      BY <1>2, ReaderBooks
    <3> QED
      BY <3>1
  <2>2. NamesOf(g)' = NamesOf(g)
    BY DEF NamesOf
  <2>3. /\ Cardinality(NamesOf(g)) \in Nat /\ Cardinality(ReadersOf(g)) \in Nat /\ UsersOf(g) \in Nat
        /\ env_files[g].refs = UsersOf(g)
    BY EnvCounts DEF EnvInv, EnvRefs
  <2>4. Cardinality(ReadersOf(g)') \in Nat
    <3>1. ReadersOf(g)' \in SUBSET EnvReaders
      BY DEF ReadersOf
    <3> QED
      BY <3>1, EnvAssumption, FS_Subset, FS_CardinalityType
  <2>5. env_files'[g].refs \in Nat
    <3>1. env_files'[g] \in EnvFile
      BY ElementOfSeq
    <3> QED
      BY <3>1 DEF EnvFile
  <2>6. UsersOf(g)' = Cardinality(NamesOf(g)) + Cardinality(ReadersOf(g)')
                        + (IF env_w.file = g THEN 1 ELSE 0)
    BY <2>2 DEF UsersOf
  <2>7. UsersOf(g) = Cardinality(NamesOf(g)) + Cardinality(ReadersOf(g))
                       + (IF env_w.file = g THEN 1 ELSE 0)
    BY DEF UsersOf
  <2>8. env_files'[g].refs + (IF env_r[r].file = g THEN 1 ELSE 0)
          = env_files[g].refs + (IF v.file = g THEN 1 ELSE 0)
    OBVIOUS
  <2> DEFINE o == IF env_r[r].file = g THEN 1 ELSE 0
             w == IF v.file = g THEN 1 ELSE 0
             k == IF env_w.file = g THEN 1 ELSE 0
             cn == Cardinality(NamesOf(g))
             cr == Cardinality(ReadersOf(g))
             crp == Cardinality(ReadersOf(g)')
             a == env_files[g].refs
             b == env_files'[g].refs
  <2>9. /\ crp + o = cr + w /\ b + o = a + w /\ a = cn + cr + k
        /\ cn \in Nat /\ cr \in Nat /\ crp \in Nat /\ b \in Nat /\ a \in Nat
        /\ o \in {0, 1} /\ w \in {0, 1} /\ k \in {0, 1}
    BY <2>1, <2>3, <2>4, <2>5, <2>7, <2>8
  <2>10. UsersOf(g)' = cn + crp + k
    BY <2>6
  <2> HIDE DEF o, w, k, cn, cr, crp, b, a
  <2>11. b = cn + crp + k
    BY <2>9, RefMoves
  <2>12. env_files'[g].refs = UsersOf(g)'
    BY <2>10, <2>11 DEF b
  <2> QED
    BY <2>12
<1>18. EnvWriting'
  BY WritingKept
<1> QED
  BY <1>3, <1>4, <1>16, <1>17, <1>18 DEF EnvInv
\* What a step of a reader does to it and to the limiters.
ReaderMoves(r, v) ==
  /\ v \in EnvReader /\ env_r' = [env_r EXCEPT ![r] = v]
  /\ UNCHANGED <<env_kind, env_names, env_w, env_bytes>>
  /\ v.pc \in {"closed", "by_name"} <=> v.file = 0
  /\ v.lim # "none" => v.pc = "open"
  /\ env_fds' = env_fds + (IF env_r[r].lim = "fd" \/ env_r[r].pc = "undo_fd" THEN 1 ELSE 0)
                        - (IF v.lim = "fd" \/ v.pc = "undo_fd" THEN 1 ELSE 0)
  /\ env_maps' = env_maps
       + (IF env_r[r].lim = "map" \/ env_r[r].pc \in {"map", "undo_map"} THEN 1 ELSE 0)
       - (IF v.lim = "map" \/ v.pc \in {"map", "undo_map"} THEN 1 ELSE 0)
  /\ v.lim = "fd" => env_r[r].lim = "fd" \/ env_fds > 0
  /\ v.lim = "map" \/ v.pc = "map" => env_r[r].lim = "map" \/ env_r[r].pc = "map" \/ env_maps > 0

\* The files are in order.
LEMMA FilesNow ==
  ASSUME EnvInv
  PROVE  /\ env_files \in Seq(EnvFile) /\ Len(env_files) \in Nat
         /\ \A g \in 1..Len(env_files) :
              /\ env_files[g] \in EnvFile /\ env_files[g].refs \in Nat
              /\ env_files[g].refs = UsersOf(g)
              /\ env_files[g].freed <=> env_files[g].refs = 0
              /\ env_files[g].synced <= Len(env_files[g].cells)
<1>1. /\ env_files \in Seq(EnvFile) /\ Len(env_files) \in Nat
      /\ \A g \in 1..Len(env_files) : env_files[g] \in EnvFile
  BY FileNumbers DEF EnvInv, EnvTypes
<1>2. \A g \in 1..Len(env_files) : env_files[g].refs \in Nat
  BY <1>1 DEF EnvFile
<1> QED
  BY <1>1, <1>2 DEF EnvInv, EnvRefs, EnvWriting

\* A reader that keeps its file.
LEMMA QuietReader ==
  ASSUME EnvInv, NEW r \in EnvReaders, NEW v, ReaderMoves(r, v), v.file = env_r[r].file,
         env_files' = env_files
  PROVE  EnvInv'
<1>1. /\ env_files' \in Seq(EnvFile) /\ Len(env_files') = Len(env_files)
      /\ \A g \in 1..Len(env_files) :
           /\ env_files'[g].refs + (IF env_r[r].file = g THEN 1 ELSE 0)
                = env_files[g].refs + (IF v.file = g THEN 1 ELSE 0)
           /\ env_files'[g].freed <=> env_files'[g].refs = 0
           /\ env_files'[g].synced <= Len(env_files'[g].cells)
      /\ env_w.open => env_files'[env_w.file].cells = env_files[env_w.file].cells
  BY FilesNow
<1> QED
  BY <1>1, ReaderStep DEF ReaderMoves

\* A reader that gets a file.
LEMMA RefReader ==
  ASSUME EnvInv, NEW r \in EnvReaders, NEW v, ReaderMoves(r, v), NEW f \in 1..Len(env_files),
         env_r[r].file = 0, v.file = f, ~env_files[f].freed, env_files' = Ref(env_files, f)
  PROVE  EnvInv'
<1>1. /\ env_files' \in Seq(EnvFile) /\ Len(env_files') = Len(env_files)
      /\ \A g \in 1..Len(env_files) :
           /\ env_files'[g].cells = env_files[g].cells /\ env_files'[g].synced = env_files[g].synced
           /\ env_files'[g].freed = env_files[g].freed
           /\ env_files'[g].refs = env_files[g].refs + (IF g = f THEN 1 ELSE 0)
  BY FilesNow, RefProps
<1>2. ASSUME NEW g \in 1..Len(env_files)
      PROVE  /\ env_files'[g].refs + (IF env_r[r].file = g THEN 1 ELSE 0)
                  = env_files[g].refs + (IF v.file = g THEN 1 ELSE 0)
             /\ env_files'[g].freed <=> env_files'[g].refs = 0
             /\ env_files'[g].synced <= Len(env_files'[g].cells)
  <2>1. /\ env_files[g].refs \in Nat /\ (env_files[g].freed <=> env_files[g].refs = 0)
        /\ env_files[g].synced <= Len(env_files[g].cells) /\ g # 0
    BY FilesNow
  <2>2. CASE g = f
    <3>1. env_files'[g].refs = env_files[g].refs + 1
      BY <1>1, <2>2
    <3> QED
      BY <1>1, <2>1, <2>2, <3>1
  <2>3. CASE g # f
    <3>1. env_files'[g].refs = env_files[g].refs
      BY <1>1, <2>1, <2>3
    <3> QED
      BY <1>1, <2>1, <2>3, <3>1
  <2> QED
    BY <2>2, <2>3
<1>3. env_w.open => env_w.file \in 1..Len(env_files)
  BY WriterNow
<1> QED
  BY <1>1, <1>2, <1>3, ReaderStep DEF ReaderMoves

\* A reader that gives its file back.
LEMMA UnrefReader ==
  ASSUME EnvInv, NEW r \in EnvReaders, NEW v, ReaderMoves(r, v),
         env_r[r].file # 0, v.file = 0, env_files' = Unref(env_files, env_r[r].file)
  PROVE  EnvInv'
<1> DEFINE f == env_r[r].file
<1>1. f \in 1..Len(env_files)
  BY FileNumbers DEF EnvInv
<1>2. env_files[f].refs > 0 /\ (env_w.file = f => env_files[f].refs > 1)
  BY <1>1, UserCounted DEF EnvInv
<1>3. env_files[f].refs \in Nat /\ ~env_files[f].freed /\ env_files[f].synced <= Len(env_files[f].cells)
  BY <1>1, <1>2, FilesNow
<1> HIDE DEF f
<1>4. /\ env_files' \in Seq(EnvFile) /\ Len(env_files') = Len(env_files)
      /\ \A g \in 1..Len(env_files) : g # f => env_files'[g] = env_files[g]
      /\ env_files'[f].refs = env_files[f].refs - 1
      /\ env_files'[f].freed <=> env_files'[f].refs = 0
      /\ env_files[f].refs > 1 => env_files'[f].cells = env_files[f].cells
      /\ env_files'[f].synced <= Len(env_files'[f].cells)
  <2>1. env_files' = Unref(env_files, f)
    BY DEF f
  <2> QED
    BY <1>1, <1>2, <1>3, <2>1, FilesNow, UnrefProps
<1>5. ASSUME NEW g \in 1..Len(env_files)
      PROVE  /\ env_files'[g].refs + (IF f = g THEN 1 ELSE 0)
                  = env_files[g].refs + (IF v.file = g THEN 1 ELSE 0)
             /\ env_files'[g].freed <=> env_files'[g].refs = 0
             /\ env_files'[g].synced <= Len(env_files'[g].cells)
  <2>1. /\ env_files[g].refs \in Nat /\ (env_files[g].freed <=> env_files[g].refs = 0)
        /\ env_files[g].synced <= Len(env_files[g].cells) /\ g # 0
    BY FilesNow
  <2>2. CASE g = f
    <3>1. env_files'[g].refs = env_files[g].refs - 1 /\ v.file # g
      BY <1>4, <2>1, <2>2
    <3>2. (IF f = g THEN 1 ELSE 0) = 1 /\ (IF v.file = g THEN 1 ELSE 0) = 0
      BY <2>2, <3>1
    <3>3. env_files'[g].refs + 1 = env_files[g].refs + 0
      BY <2>1, <3>1
    <3> QED
      BY <1>4, <2>2, <3>2, <3>3
  <2>3. CASE g # f
    BY <1>4, <2>1, <2>3
  <2> QED
    BY <2>2, <2>3
<1>6. env_w.open => env_files'[env_w.file].cells = env_files[env_w.file].cells
  <2>1. env_w.open => env_w.file \in 1..Len(env_files)
    BY WriterNow
  <2>2. env_w.file = f => env_files'[env_w.file].cells = env_files[env_w.file].cells
    BY <1>2, <1>4 DEF f
  <2> QED
    BY <1>4, <2>1, <2>2
<1> QED
  BY <1>4, <1>5, <1>6, ReaderStep DEF ReaderMoves, f

\* A reader's state, and the values it takes.
LEMMA ReaderNow ==
  ASSUME EnvInv, NEW r \in EnvReaders
  PROVE  /\ env_r[r] \in EnvReader /\ env_fds \in Int /\ env_maps \in Int
         /\ env_r[r].pc \in {"closed", "by_name"} <=> env_r[r].file = 0
         /\ env_r[r].lim # "none" => env_r[r].pc = "open"
         /\ env_r[r].lim \in {"none", "fd", "map"}
<1>1. env_r[r] \in EnvReader
  BY DEF EnvInv, EnvTypes
<1> QED
  BY <1>1 DEF EnvInv, EnvTypes, EnvReader, EnvReading

LEMMA ClosedIsReader ==
  ASSUME EnvTypes
  PROVE  /\ ClosedReader \in EnvReader /\ ClosedReader.pc = "closed" /\ ClosedReader.file = 0
         /\ ClosedReader.lim = "none"
<1>1. 0 \in EnvFileOf
  BY FileNumbers DEF EnvFileOf
<1> QED
  BY <1>1 DEF ClosedReader, EnvReader

LEMMA OpenReaderInv ==
  ASSUME EnvInv, NEW r \in EnvReaders, NEW n \in EnvNames, NEW random \in BOOLEAN,
         NEW mmap \in BOOLEAN, OpenReader(r, n, random, mmap)
  PROVE  EnvInv'
<1> DEFINE f == env_names[n]
           next == IF ~random \/ env_kind = "mem" THEN "open"
                   ELSE IF env_kind = "unix" THEN UnixOpens(mmap) ELSE WinOpens(mmap)
           v == [ClosedReader EXCEPT !.pc = next, !.file = f, !.name = n]
<1>1. /\ env_r[r].pc = "closed" /\ f # 0 /\ env_files' = Ref(env_files, f)
      /\ env_r' = [env_r EXCEPT ![r] = v]
      /\ UNCHANGED <<env_kind, env_names, env_w, env_fds, env_maps, env_bytes>>
  BY DEF OpenReader, Opened, SetReader
<1>2. next \in {"open", "acquire_map", "acquire_fd"}
  BY DEF UnixOpens, WinOpens
<1>3. f \in 1..Len(env_files)
  BY <1>1, FileNumbers DEF EnvInv
<1>4. ~env_files[f].freed
  <2>1. UsersOf(f) > 0 /\ env_files[f].refs = UsersOf(f)
    BY <1>3, UserCounted DEF EnvInv
  <2> QED
    BY <1>3, <2>1, FilesNow
<1> HIDE DEF next
<1>5. /\ v \in EnvReader /\ v.pc = next /\ v.file = f /\ v.lim = "none"
  <2>1. ClosedReader \in EnvReader /\ ClosedReader.lim = "none" /\ f \in EnvFileOf
    BY ClosedIsReader DEF EnvInv, EnvTypes
  <2> HIDE DEF f
  <2> QED
    BY <1>2, <2>1 DEF EnvReader
<1>6. /\ env_r[r].file = 0 /\ env_r[r].lim = "none" /\ env_fds \in Int /\ env_maps \in Int
  BY <1>1, ReaderNow
<1> HIDE DEF v
<1>7. ReaderMoves(r, v)
  BY <1>1, <1>2, <1>5, <1>6 DEF ReaderMoves
<1> QED
  BY <1>1, <1>3, <1>4, <1>5, <1>6, <1>7, RefReader

LEMMA AcquireMapInv == ASSUME EnvInv, NEW r \in EnvReaders, AcquireMap(r) PROVE EnvInv'
<1> DEFINE p == IF env_maps > 0 THEN "map" ELSE "undo_map"
           v == [env_r[r] EXCEPT !.pc = p]
<1>1. /\ env_r[r].pc = "acquire_map" /\ env_maps' = env_maps - 1
      /\ env_r' = [env_r EXCEPT ![r] = v] /\ env_files' = env_files
      /\ UNCHANGED <<env_kind, env_names, env_w, env_fds, env_bytes>>
  BY DEF AcquireMap, SetReader
<1>2. /\ env_r[r] \in EnvReader /\ env_fds \in Int /\ env_maps \in Int
      /\ env_r[r].file # 0 /\ env_r[r].lim = "none"
  BY <1>1, ReaderNow
<1>3. /\ v \in EnvReader /\ v.pc = p /\ v.file = env_r[r].file /\ v.lim = env_r[r].lim
  BY <1>2 DEF EnvReader
<1> HIDE DEF v
<1>4. ReaderMoves(r, v)
  BY <1>1, <1>2, <1>3 DEF ReaderMoves
<1> QED
  BY <1>1, <1>3, <1>4, QuietReader

LEMMA UndoMapInv == ASSUME EnvInv, NEW r \in EnvReaders, UndoMap(r) PROVE EnvInv'
<1> DEFINE p == IF env_kind = "unix" THEN "acquire_fd" ELSE "open"
           v == [env_r[r] EXCEPT !.pc = p]
<1>1. /\ env_r[r].pc = "undo_map" /\ env_maps' = env_maps + 1
      /\ env_r' = [env_r EXCEPT ![r] = v] /\ env_files' = env_files
      /\ UNCHANGED <<env_kind, env_names, env_w, env_fds, env_bytes>>
  BY DEF UndoMap, SetReader
<1>2. /\ env_r[r] \in EnvReader /\ env_fds \in Int /\ env_maps \in Int
      /\ env_r[r].file # 0 /\ env_r[r].lim = "none"
  BY <1>1, ReaderNow
<1>3. /\ v \in EnvReader /\ v.pc = p /\ v.file = env_r[r].file /\ v.lim = env_r[r].lim
  BY <1>2 DEF EnvReader
<1> HIDE DEF v
<1>4. ReaderMoves(r, v)
  BY <1>1, <1>2, <1>3 DEF ReaderMoves
<1> QED
  BY <1>1, <1>3, <1>4, QuietReader

LEMMA MapFileInv == ASSUME EnvInv, NEW r \in EnvReaders, MapFile(r) PROVE EnvInv'
<1> DEFINE k == Len(env_files[env_r[r].file].cells)
           v == [env_r[r] EXCEPT !.pc = "open", !.lim = "map", !.length = k]
<1>1. /\ env_r[r].pc = "map" /\ env_r' = [env_r EXCEPT ![r] = v] /\ env_files' = env_files
      /\ UNCHANGED <<env_kind, env_names, env_w, env_fds, env_maps, env_bytes>>
  BY DEF MapFile, SetReader
<1>2. /\ env_r[r] \in EnvReader /\ env_fds \in Int /\ env_maps \in Int
      /\ env_r[r].file # 0 /\ env_r[r].lim = "none"
  BY <1>1, ReaderNow
<1>3. k \in Nat
  <2>1. env_r[r].file \in 1..Len(env_files)
    BY <1>2, FileNumbers DEF EnvInv
  <2>2. env_files[env_r[r].file].cells \in Seq(Nat)
    BY <2>1, FilesNow DEF EnvFile
  <2> QED
    BY <2>2, LenProperties
<1> HIDE DEF k
<1>4. /\ v \in EnvReader /\ v.pc = "open" /\ v.file = env_r[r].file /\ v.lim = "map"
  BY <1>2, <1>3 DEF EnvReader
<1> HIDE DEF v
<1>5. ReaderMoves(r, v)
  BY <1>1, <1>2, <1>4 DEF ReaderMoves
<1> QED
  BY <1>1, <1>4, <1>5, QuietReader

LEMMA MapFailsInv == ASSUME EnvInv, NEW r \in EnvReaders, MapFails(r) PROVE EnvInv'
<1> DEFINE v == ClosedReader
<1>1. /\ env_r[r].pc = "map" /\ env_maps' = env_maps + 1 /\ env_r' = [env_r EXCEPT ![r] = v]
      /\ env_files' = Unref(env_files, env_r[r].file)
      /\ UNCHANGED <<env_kind, env_names, env_w, env_fds, env_bytes>>
  BY DEF MapFails, SetReader
<1>2. /\ env_fds \in Int /\ env_maps \in Int /\ env_r[r].file # 0 /\ env_r[r].lim = "none"
  BY <1>1, ReaderNow
<1>3. v \in EnvReader /\ v.pc = "closed" /\ v.file = 0 /\ v.lim = "none"
  BY ClosedIsReader DEF EnvInv
<1> HIDE DEF v
<1>4. ReaderMoves(r, v)
  BY <1>1, <1>2, <1>3 DEF ReaderMoves
<1> QED
  BY <1>1, <1>2, <1>3, <1>4, UnrefReader

LEMMA AcquireFdInv == ASSUME EnvInv, NEW r \in EnvReaders, AcquireFd(r) PROVE EnvInv'
<1> DEFINE v == IF env_fds > 0 THEN [env_r[r] EXCEPT !.pc = "open", !.lim = "fd"]
                               ELSE [env_r[r] EXCEPT !.pc = "undo_fd"]
<1>1. /\ env_r[r].pc = "acquire_fd" /\ env_fds' = env_fds - 1
      /\ env_r' = [env_r EXCEPT ![r] = v] /\ env_files' = env_files
      /\ UNCHANGED <<env_kind, env_names, env_w, env_maps, env_bytes>>
  BY DEF AcquireFd, SetReader
<1>2. /\ env_r[r] \in EnvReader /\ env_fds \in Int /\ env_maps \in Int
      /\ env_r[r].file # 0 /\ env_r[r].lim = "none"
  BY <1>1, ReaderNow
<1>3. /\ v \in EnvReader /\ v.file = env_r[r].file
      /\ env_fds > 0 => v.pc = "open" /\ v.lim = "fd"
      /\ ~(env_fds > 0) => v.pc = "undo_fd" /\ v.lim = "none"
  BY <1>2 DEF EnvReader
<1> HIDE DEF v
<1>4. ReaderMoves(r, v)
  BY <1>1, <1>2, <1>3 DEF ReaderMoves
<1> QED
  BY <1>1, <1>3, <1>4, QuietReader

LEMMA UndoFdInv == ASSUME EnvInv, NEW r \in EnvReaders, UndoFd(r) PROVE EnvInv'
<1> DEFINE v == [env_r[r] EXCEPT !.pc = "by_name", !.file = 0]
<1>1. /\ env_r[r].pc = "undo_fd" /\ env_fds' = env_fds + 1
      /\ env_r' = [env_r EXCEPT ![r] = v] /\ env_files' = Unref(env_files, env_r[r].file)
      /\ UNCHANGED <<env_kind, env_names, env_w, env_maps, env_bytes>>
  BY DEF UndoFd, SetReader
<1>2. /\ env_r[r] \in EnvReader /\ env_fds \in Int /\ env_maps \in Int
      /\ env_r[r].file # 0 /\ env_r[r].lim = "none"
  BY <1>1, ReaderNow
<1>3. v \in EnvReader /\ v.pc = "by_name" /\ v.file = 0 /\ v.lim = "none"
  <2>1. 0 \in EnvFileOf
    BY FileNumbers DEF EnvInv, EnvFileOf
  <2> QED
    BY <1>2, <2>1 DEF EnvReader
<1> HIDE DEF v
<1>4. ReaderMoves(r, v)
  BY <1>1, <1>2, <1>3 DEF ReaderMoves
<1> QED
  BY <1>1, <1>2, <1>3, <1>4, UnrefReader

LEMMA CloseReaderInv == ASSUME EnvInv, NEW r \in EnvReaders, CloseReader(r) PROVE EnvInv'
<1> DEFINE v == ClosedReader
<1>1. /\ env_r[r].pc \in {"open", "by_name"} /\ env_r' = [env_r EXCEPT ![r] = v]
      /\ env_fds' = env_fds + (IF env_r[r].lim = "fd" THEN 1 ELSE 0)
      /\ env_maps' = env_maps + (IF env_r[r].lim = "map" THEN 1 ELSE 0)
      /\ env_files' = IF env_r[r].file = 0 THEN env_files ELSE Unref(env_files, env_r[r].file)
      /\ UNCHANGED <<env_kind, env_names, env_w, env_bytes>>
  BY DEF CloseReader, SetReader
<1>2. /\ env_fds \in Int /\ env_maps \in Int
  BY ReaderNow
<1>3. v \in EnvReader /\ v.pc = "closed" /\ v.file = 0 /\ v.lim = "none"
  BY ClosedIsReader DEF EnvInv
<1> HIDE DEF v
<1>4. ReaderMoves(r, v)
  BY <1>1, <1>2, <1>3 DEF ReaderMoves
<1>5. CASE env_r[r].file = 0
  BY <1>1, <1>3, <1>4, <1>5, QuietReader
<1>6. CASE env_r[r].file # 0
  BY <1>1, <1>3, <1>4, <1>6, UnrefReader
<1> QED
  BY <1>5, <1>6

\* A read returns some bytes.
LEMMA ReadLength ==
  ASSUME NEW c \in Seq(Nat), NEW count \in Nat, NEW offset \in Nat
  PROVE  Len(ReadAt(c, count, offset)) \in Nat
<1> DEFINE n == Min({offset + count, Len(c)})
<1>1. Len(c) \in Nat /\ \A i \in 1..Len(c) : c[i] \in Nat
  BY LenProperties, ElementOfSeq
<1>2. n \in Int /\ n <= Len(c)
  <2>1. offset + count \in Int /\ Len(c) \in Int
    BY <1>1
  <2>2. n = IF offset + count <= Len(c) THEN offset + count ELSE Len(c)
    BY <2>1, MinOfTwo
  <2> HIDE DEF n
  <2> QED
    BY <2>1, <2>2
<1> HIDE DEF n
<1>3. \A i \in (offset + 1)..n : c[i] \in Nat
  BY <1>1, <1>2
<1>4. offset + 1 \in Int
  OBVIOUS
<1>5. SubSeq(c, offset + 1, n) \in Seq(Nat)
  BY <1>2, <1>3, <1>4, SubSeqProperties, Zenon
<1>6. Len(SubSeq(c, offset + 1, n)) \in Nat
  BY <1>5, LenProperties, Zenon
<1> QED
  BY <1>6, Zenon DEF ReadAt, n

LEMMA ReadFileInv == ASSUME EnvInv, NEW r \in EnvReaders, ReadFile(r, EnvBuffer) PROVE EnvInv'
<1> DEFINE k == Len(Pread(r, EnvBuffer, env_r[r].pos))
           v == [env_r[r] EXCEPT !.pos = @ + k]
<1>1. /\ env_r[r].pc = "open" /\ env_r[r].lim = "none" /\ env_r' = [env_r EXCEPT ![r] = v]
      /\ env_files' = env_files
      /\ UNCHANGED <<env_kind, env_names, env_w, env_fds, env_maps, env_bytes>>
  BY DEF ReadFile, SetReader
<1>2. /\ env_r[r] \in EnvReader /\ env_fds \in Int /\ env_maps \in Int /\ env_r[r].file # 0
  BY <1>1, ReaderNow
<1>3. env_r[r].pos \in Nat /\ EnvBuffer \in Nat
  BY <1>2, EnvAssumption DEF EnvReader
<1>4. k \in Nat
  <2> DEFINE c == env_files[env_r[r].file].cells
             p == env_r[r].pos
  <2>1. env_r[r].file \in 1..Len(env_files)
    BY <1>2, FileNumbers DEF EnvInv
  <2>2. c \in Seq(Nat)
    BY <2>1, FilesNow DEF EnvFile
  <2>3. Len(<<0>>) = 1
    OBVIOUS
  <2>4. Len(ReadAt(c, EnvBuffer, p)) \in Nat
    BY <1>3, <2>2, ReadLength
  <2>5. Pread(r, EnvBuffer, p) \in {<<0>>, ReadAt(c, EnvBuffer, p)}
    BY <1>1, <1>2 DEF Pread, WinPread, MapPread, MemPread, WinReadAt
  <2> QED
    BY <2>3, <2>4, <2>5
<1> HIDE DEF k
<1>5. /\ v \in EnvReader /\ v.pc = "open" /\ v.file = env_r[r].file /\ v.lim = "none"
  BY <1>1, <1>2, <1>3, <1>4 DEF EnvReader
<1> HIDE DEF v
<1>6. ReaderMoves(r, v)
  BY <1>1, <1>2, <1>5 DEF ReaderMoves
<1> QED
  BY <1>1, <1>5, <1>6, QuietReader

LEMMA SkipFileInv == ASSUME EnvInv, NEW r \in EnvReaders, SkipFile(r, EnvBuffer) PROVE EnvInv'
<1> DEFINE size == Len(env_files[env_r[r].file].cells)
           k == IF env_kind = "mem" THEN MemSkip(env_r[r].pos, EnvBuffer, size)
                                    ELSE SeekSkip(env_r[r].pos, EnvBuffer)
           v == [env_r[r] EXCEPT !.pos = k]
<1>1. /\ env_r[r].pc = "open" /\ env_r[r].lim = "none" /\ env_r' = [env_r EXCEPT ![r] = v]
      /\ env_files' = env_files
      /\ UNCHANGED <<env_kind, env_names, env_w, env_fds, env_maps, env_bytes>>
  BY DEF SkipFile, SetReader
<1>2. /\ env_r[r] \in EnvReader /\ env_fds \in Int /\ env_maps \in Int /\ env_r[r].file # 0
  BY <1>1, ReaderNow
<1>3. env_r[r].pos \in Nat /\ EnvBuffer \in Nat
  BY <1>2, EnvAssumption DEF EnvReader
<1>4. size \in Nat
  <2>1. env_r[r].file \in 1..Len(env_files)
    BY <1>2, FileNumbers DEF EnvInv
  <2>2. env_files[env_r[r].file].cells \in Seq(Nat)
    BY <2>1, FilesNow DEF EnvFile
  <2> QED
    BY <2>2, LenProperties
<1> HIDE DEF size
<1>5. k \in Nat
  <2>1. Min({env_r[r].pos + EnvBuffer, size})
          = IF env_r[r].pos + EnvBuffer <= size THEN env_r[r].pos + EnvBuffer ELSE size
    BY <1>3, <1>4, MinOfTwo
  <2> QED
    BY <1>3, <1>4, <2>1 DEF MemSkip, SeekSkip
<1> HIDE DEF k
<1>6. /\ v \in EnvReader /\ v.pc = "open" /\ v.file = env_r[r].file /\ v.lim = "none"
  BY <1>1, <1>2, <1>5 DEF EnvReader
<1> HIDE DEF v
<1>7. ReaderMoves(r, v)
  BY <1>1, <1>2, <1>6 DEF ReaderMoves
<1> QED
  BY <1>1, <1>6, <1>7, QuietReader

----------------------------------------------------------------------------

\* Who refers to a file when a name gets another one and the writer another file.
LEMMA UsersMove ==
  ASSUME UNCHANGED env_r, NEW n \in EnvNames, NEW g,
         \A m \in EnvNames \ {n} : env_names'[m] = env_names[m]
  PROVE  /\ UsersOf(g)' \in Nat
         /\ UsersOf(g)' + (IF env_names[n] = g THEN 1 ELSE 0) + (IF env_w.file = g THEN 1 ELSE 0)
              = UsersOf(g) + (IF env_names'[n] = g THEN 1 ELSE 0) + (IF env_w'.file = g THEN 1 ELSE 0)
<1> DEFINE a == Cardinality(NamesIn(env_names, g))
           b == Cardinality(NamesIn(env_names', g))
           c == Cardinality(ReadersOf(g))
<1>1. a \in Nat /\ b \in Nat /\ b + (IF env_names[n] = g THEN 1 ELSE 0) = a + (IF env_names'[n] = g THEN 1 ELSE 0)
  <2>1. a \in Nat /\ b + (IF env_names[n] = g THEN 1 ELSE 0) = a + (IF env_names'[n] = g THEN 1 ELSE 0)
    BY NameBooks
  <2>2. NamesIn(env_names', g) \in SUBSET EnvNames
    BY DEF NamesIn
  <2>3. b \in Nat
    BY <2>2, EnvAssumption, FS_Subset, FS_CardinalityType
  <2> QED
    BY <2>1, <2>3
<1>2. c \in Nat
  BY EnvCounts
<1>3. NamesOf(g) = NamesIn(env_names, g) /\ NamesOf(g)' = NamesIn(env_names', g)
  BY NamesNow
<1>4. ReadersOf(g)' = ReadersOf(g)
  BY DEF ReadersOf
<1>5. /\ UsersOf(g) = a + c + (IF env_w.file = g THEN 1 ELSE 0)
      /\ UsersOf(g)' = b + c + (IF env_w'.file = g THEN 1 ELSE 0)
  BY <1>3, <1>4 DEF UsersOf
<1> HIDE DEF a, b, c
<1> QED
  BY <1>1, <1>2, <1>5

\* The writer stays: a name is taken from its file.
LEMMA UsersDropped ==
  ASSUME UNCHANGED <<env_w, env_r>>, NEW n \in EnvNames, NEW g, env_names'[n] # g,
         \A m \in EnvNames \ {n} : env_names'[m] = env_names[m]
  PROVE  UsersOf(g)' \in Nat /\ UsersOf(g)' + (IF env_names[n] = g THEN 1 ELSE 0) = UsersOf(g)
<1> DEFINE k == IF env_w.file = g THEN 1 ELSE 0
           a == IF env_names[n] = g THEN 1 ELSE 0
           b == IF env_names'[n] = g THEN 1 ELSE 0
<1>1. UsersOf(g)' \in Nat /\ UsersOf(g)' + a + k = UsersOf(g) + b + k
  <2>0. UNCHANGED env_r
    OBVIOUS
  <2>1. /\ UsersOf(g)' \in Nat
        /\ UsersOf(g)' + (IF env_names[n] = g THEN 1 ELSE 0) + (IF env_w.file = g THEN 1 ELSE 0)
             = UsersOf(g) + (IF env_names'[n] = g THEN 1 ELSE 0) + (IF env_w'.file = g THEN 1 ELSE 0)
    BY <2>0, UsersMove
  <2> QED
    BY <2>1
<1>2. UsersOf(g) \in Nat
  BY EnvCounts
<1>3. a \in Nat /\ k \in Nat /\ b = 0
  OBVIOUS
<1> HIDE DEF a, b, k
<1>4. UsersOf(g)' + a = UsersOf(g)
  BY <1>1, <1>2, <1>3
<1> QED
  BY <1>1, <1>4 DEF a

\* A step that changes names, files and the writer.
LEMMA FileStep ==
  ASSUME EnvInv, UNCHANGED <<env_r, env_fds, env_maps>>, env_bytes' \in Nat,
         env_kind' \in {"none", "unix", "win", "win9x", "mem"},
         env_files' \in Seq(EnvFile), Len(env_files') >= Len(env_files),
         env_names' \in [EnvNames -> 0..Len(env_files')],
         env_w' \in EnvWriter',
         \A g \in 1..Len(env_files') :
           /\ env_files'[g].refs = UsersOf(g)'
           /\ env_files'[g].freed <=> env_files'[g].refs = 0,
         EnvWriting'
  PROVE  EnvInv'
<1>1. EnvTypes'
  BY TypesGrow DEF EnvInv, EnvTypes, EnvFileOf
<1>2. EnvReading'
  BY DEF EnvInv, EnvReading
<1>3. FdShort' = FdShort /\ FdGranted' = FdGranted /\ MapShort' = MapShort /\ MapGranted' = MapGranted
  BY DEF FdShort, FdGranted, MapShort, MapGranted
<1>4. EnvLimits'
  BY <1>3 DEF EnvInv, EnvLimits
<1>5. EnvRefs'
  BY DEF EnvRefs
<1> QED
  BY <1>1, <1>2, <1>4, <1>5 DEF EnvInv

\* The same files, the same references.
LEMMA SameFiles ==
  ASSUME EnvInv, UNCHANGED <<env_kind, env_files, env_w, env_r, env_fds, env_maps, env_bytes>>,
         env_names' \in [EnvNames -> 0..Len(env_files)],
         \A g \in 1..Len(env_files) : UsersOf(g)' = UsersOf(g)
  PROVE  EnvInv'
<1>1. env_files \in Seq(EnvFile) /\ Len(env_files) \in Nat /\ env_bytes' \in Nat
  BY FilesNow DEF EnvInv, EnvTypes
<1>2. \A g \in 1..Len(env_files') :
        /\ env_files'[g].refs = UsersOf(g)'
        /\ env_files'[g].freed <=> env_files'[g].refs = 0
        /\ env_files'[g].synced <= Len(env_files'[g].cells)
  BY FilesNow
<1> QED
  BY <1>1, <1>2, NameStep

\* A name gives up its file.
LEMMA DroppedFile ==
  ASSUME EnvInv, UNCHANGED <<env_kind, env_w, env_r, env_fds, env_maps, env_bytes>>,
         NEW n \in EnvNames, env_names[n] # 0, env_files' = Unref(env_files, env_names[n]),
         env_names' \in [EnvNames -> 0..Len(env_files)],
         \A g \in 1..Len(env_files) :
           UsersOf(g)' \in Nat /\ UsersOf(g)' + (IF env_names[n] = g THEN 1 ELSE 0) = UsersOf(g)
  PROVE  EnvInv'
<1> DEFINE f == env_names[n]
<1>1. f \in 1..Len(env_files)
  BY FileNumbers DEF EnvInv
<1>2. env_files[f].refs > 0 /\ (env_w.file = f => env_files[f].refs > 1)
  BY <1>1, UserCounted DEF EnvInv
<1>3. env_files[f].refs \in Nat /\ ~env_files[f].freed /\ env_files[f].synced <= Len(env_files[f].cells)
  BY <1>1, <1>2, FilesNow
<1> HIDE DEF f
<1>4. /\ env_files' \in Seq(EnvFile) /\ Len(env_files') = Len(env_files)
      /\ \A g \in 1..Len(env_files) : g # f => env_files'[g] = env_files[g]
      /\ env_files'[f].refs = env_files[f].refs - 1
      /\ env_files'[f].freed <=> env_files'[f].refs = 0
      /\ env_files[f].refs > 1 => env_files'[f].cells = env_files[f].cells
      /\ env_files'[f].synced <= Len(env_files'[f].cells)
  <2>1. env_files' = Unref(env_files, f)
    BY DEF f
  <2> QED
    BY <1>1, <1>2, <1>3, <2>1, FilesNow, UnrefProps
<1>5. ASSUME NEW g \in 1..Len(env_files)
      PROVE  /\ env_files'[g].refs = UsersOf(g)'
             /\ env_files'[g].freed <=> env_files'[g].refs = 0
             /\ env_files'[g].synced <= Len(env_files'[g].cells)
  <2>1. /\ env_files[g].refs \in Nat /\ (env_files[g].freed <=> env_files[g].refs = 0)
        /\ env_files[g].synced <= Len(env_files[g].cells) /\ env_files[g].refs = UsersOf(g)
    BY FilesNow
  <2>2. UsersOf(g)' \in Nat /\ UsersOf(g)' + (IF f = g THEN 1 ELSE 0) = UsersOf(g)
    BY DEF f
  <2>3. CASE g = f
    <3>1. UsersOf(g)' + 1 = UsersOf(g)
      BY <2>2, <2>3
    <3>2. env_files'[g].refs = UsersOf(g) - 1
      BY <1>4, <2>1, <2>3
    <3>3. UsersOf(g) - 1 = UsersOf(g)'
      BY <2>1, <2>2, <3>1
    <3> QED
      BY <1>4, <2>3, <3>2, <3>3
  <2>4. CASE g # f
    <3>1. UsersOf(g)' = UsersOf(g)
      BY <2>1, <2>2, <2>4
    <3> QED
      BY <1>4, <2>1, <2>4, <3>1
  <2> QED
    BY <2>3, <2>4
<1>6. env_w.open => env_files'[env_w.file].cells = env_files[env_w.file].cells
  <2>1. env_w.open => env_w.file \in 1..Len(env_files)
    BY WriterNow
  <2>2. env_w.file = f => env_files'[env_w.file].cells = env_files[env_w.file].cells
    BY <1>2, <1>4
  <2> QED
    BY <1>4, <2>1, <2>2
<1>7. env_bytes' \in Nat /\ Len(env_files) \in Nat
  BY FilesNow DEF EnvInv, EnvTypes
<1> QED
  BY <1>4, <1>5, <1>6, <1>7, NameStep

\* A name that had no file gets a new one.
LEMMA NewFileStep ==
  ASSUME EnvInv, UNCHANGED <<env_kind, env_w, env_r, env_fds, env_maps>>, env_bytes' \in Nat,
         NEW n \in EnvNames, env_names[n] = 0, NEW x \in EnvFile, x.synced <= Len(x.cells),
         env_files' = Append(env_files, x), NEW v \in {0, Len(env_files) + 1},
         env_names' = [env_names EXCEPT ![n] = v],
         x.refs = IF v = 0 THEN 0 ELSE 1,
         x.freed <=> v = 0
  PROVE  EnvInv'
<1> DEFINE l == Len(env_files)
<1>1. /\ env_files \in Seq(EnvFile) /\ l \in Nat /\ DOMAIN env_names = EnvNames
      /\ env_names \in [EnvNames -> 0..l]
  BY FilesNow DEF EnvInv, EnvTypes, EnvFileOf
<1>2. /\ env_files' \in Seq(EnvFile) /\ Len(env_files') = l + 1 /\ env_files'[l + 1] = x
      /\ \A g \in 1..l : env_files'[g] = env_files[g]
  BY <1>1, AppendProperties
<1>2a. env_names'[n] = v /\ \A m \in EnvNames \ {n} : env_names'[m] = env_names[m]
  BY <1>1
<1>3. ASSUME NEW g \in 1..l + 1
      PROVE  /\ env_files'[g].refs = UsersOf(g)'
             /\ env_files'[g].freed <=> env_files'[g].refs = 0
             /\ env_files'[g].synced <= Len(env_files'[g].cells)
  <2>0. UNCHANGED env_r
    OBVIOUS
  <2>1. /\ UsersOf(g)' \in Nat
        /\ UsersOf(g)' + (IF env_names[n] = g THEN 1 ELSE 0) + (IF env_w.file = g THEN 1 ELSE 0)
             = UsersOf(g) + (IF v = g THEN 1 ELSE 0) + (IF env_w'.file = g THEN 1 ELSE 0)
    BY <1>2a, <2>0, UsersMove
  <2>2. UsersOf(g) \in Nat
    BY EnvCounts
  <2>3. UsersOf(g)' = UsersOf(g) + (IF v = g THEN 1 ELSE 0)
    <3>1. (IF env_names[n] = g THEN 1 ELSE 0) = 0
      BY <1>1
    <3> DEFINE k == IF env_w.file = g THEN 1 ELSE 0
               a == IF v = g THEN 1 ELSE 0
    <3>2. UsersOf(g)' + 0 + k = UsersOf(g) + a + k /\ k \in Nat /\ a \in Nat
      BY <2>1, <3>1
    <3> HIDE DEF k, a
    <3>3. UsersOf(g)' = UsersOf(g) + a
      BY <2>1, <2>2, <3>2
    <3> QED
      BY <3>3 DEF a
  <2>4. CASE g = l + 1
    <3>1. UsersOf(g) = 0
      BY <1>1, <2>4, NoUsers DEF EnvInv, EnvFileOf
    <3> QED
      BY <1>1, <1>2, <2>3, <2>4, <3>1
  <2>5. CASE g # l + 1
    <3>1. g \in 1..l /\ v # g
      BY <1>1, <2>5
    <3>2. UsersOf(g)' = UsersOf(g)
      BY <2>2, <2>3, <3>1
    <3> QED
      BY <1>2, <3>1, <3>2, FilesNow
  <2> QED
    BY <2>4, <2>5
<1>4. env_names' \in [EnvNames -> 0..l + 1]
  BY <1>1
<1>5. env_w.open => env_files'[env_w.file].cells = env_files[env_w.file].cells
  BY <1>2, WriterNow
<1> HIDE DEF l
<1>6. Len(env_files') >= Len(env_files)
  BY <1>1, <1>2 DEF l
<1> QED
  BY <1>2, <1>3, <1>4, <1>5, <1>6, NameStep

LEMMA EmptyFile ==
  ASSUME NEW c \in Seq(Nat), NEW k \in Nat
  PROVE  /\ NewFile(c, k) \in EnvFile /\ NewFile(c, k).cells = c /\ NewFile(c, k).synced = k
         /\ NewFile(c, k).refs = 1 /\ ~NewFile(c, k).freed
         /\ Freed \in EnvFile /\ Freed.refs = 0 /\ Freed.freed /\ Freed.synced <= Len(Freed.cells)
<1>1. <<>> \in Seq(Nat) /\ Len(<<>>) = 0
  BY EmptySeq
<1> QED
  BY <1>1 DEF NewFile, Freed, EnvFile

LEMMA AppendOpenFailsInv == ASSUME EnvInv, NEW n \in EnvNames, AppendOpenFails(n) PROVE EnvInv'
<1> DEFINE x == NewFile(<<>>, 0)
           v == Len(env_files) + 1
<1>1. /\ env_names[n] = 0 /\ env_files' = Append(env_files, x)
      /\ env_names' = [env_names EXCEPT ![n] = v]
      /\ UNCHANGED <<env_kind, env_w, env_r, env_fds, env_maps, env_bytes>>
  BY DEF AppendOpenFails
<1>2. <<>> \in Seq(Nat) /\ Len(<<>>) = 0
  BY EmptySeq
<1>3. x \in EnvFile /\ x.synced <= Len(x.cells) /\ x.refs = 1 /\ ~x.freed
  BY <1>2 DEF NewFile, EnvFile
<1>4. v # 0 /\ v \in {0, Len(env_files) + 1} /\ env_bytes \in Nat
  BY FilesNow DEF EnvInv, EnvTypes
<1> HIDE DEF x, v
<1> QED
  BY <1>1, <1>3, <1>4, NewFileStep

LEMMA CopyFileInv ==
  ASSUME EnvInv, NEW from \in EnvNames, NEW to \in EnvNames, CopyFile(from, to)
  PROVE  EnvInv'
<1> DEFINE c == env_files[env_names[from]].cells
           x == CASE env_kind = "unix" -> UnixCopy(c)
                  [] env_kind \in Windows -> WinCopy(c)
                  [] env_kind = "mem"  -> MemClone(c)
           v == Len(env_files) + 1
<1>1. /\ env_names[from] # 0 /\ env_names[to] = 0 /\ env_kind # "none"
      /\ env_files' = Append(env_files, x) /\ env_names' = [env_names EXCEPT ![to] = v]
      /\ UNCHANGED <<env_kind, env_w, env_r, env_fds, env_maps, env_bytes>>
  BY DEF CopyFile, Room
<1>2. c \in Seq(Nat)
  BY <1>1, FileNumbers DEF EnvInv, EnvFile
<1>3. Len(c) \in Nat
  BY <1>2, LenProperties
<1>4. x \in {NewFile(c, Len(c)), NewFile(c, 0)}
  BY <1>1 DEF UnixCopy, WinCopy, MemClone, Windows, EnvInv, EnvTypes
<1> HIDE DEF c, x
<1>5. x \in EnvFile /\ x.synced <= Len(x.cells) /\ x.refs = 1 /\ ~x.freed
  <2>1. CASE x = NewFile(c, Len(c))
    BY <1>2, <1>3, <2>1, EmptyFile
  <2>2. CASE x = NewFile(c, 0)
    BY <1>2, <1>3, <2>2, EmptyFile
  <2> QED
    BY <1>4, <2>1, <2>2
<1>6. v # 0 /\ v \in {0, Len(env_files) + 1} /\ env_bytes \in Nat
  BY FilesNow DEF EnvInv, EnvTypes
<1> HIDE DEF v
<1> QED
  BY <1>1, <1>5, <1>6, NewFileStep

LEMMA WriteFileInv ==
  ASSUME EnvInv, NEW n \in EnvNames, NEW sync \in BOOLEAN, NEW fails \in BOOLEAN,
         WriteFile(n, sync, fails)
  PROVE  EnvInv'
<1> DEFINE c == <<env_bytes + 1>>
           k == IF sync THEN 1 ELSE 0
           x == IF fails THEN Freed ELSE NewFile(c, k)
           v == IF fails THEN 0 ELSE Len(env_files) + 1
<1>1. /\ env_names[n] = 0 /\ env_bytes' = env_bytes + 1
      /\ env_files' = Append(env_files, x) /\ env_names' = [env_names EXCEPT ![n] = v]
      /\ UNCHANGED <<env_kind, env_w, env_r, env_fds, env_maps>>
  BY DEF WriteFile
<1>2. env_bytes \in Nat /\ Len(env_files) \in Nat
  BY FilesNow DEF EnvInv, EnvTypes
<1>3. c \in Seq(Nat) /\ Len(c) = 1 /\ k \in Nat /\ k <= 1
  BY <1>2
<1> HIDE DEF c, k
<1>4. /\ x \in EnvFile /\ x.synced <= Len(x.cells) /\ x.refs = (IF v = 0 THEN 0 ELSE 1)
      /\ x.freed <=> v = 0
  <2>1. CASE fails
    <3>1. x = Freed /\ v = 0
      BY <2>1
    <3> QED
      BY <1>3, <3>1, EmptyFile
  <2>2. CASE ~fails
    <3>1. x = NewFile(c, k) /\ v # 0
      BY <1>2, <2>2
    <3> HIDE DEF x
    <3>2. x \in EnvFile /\ x.synced = k /\ x.cells = c /\ x.refs = 1 /\ ~x.freed
      BY <1>3, <3>1, EmptyFile
    <3> QED
      BY <1>3, <3>1, <3>2
  <2> QED
    BY <2>1, <2>2
<1>5. v \in {0, Len(env_files) + 1} /\ env_bytes' \in Nat
  BY <1>1, <1>2
<1> HIDE DEF x, v
<1> QED
  BY <1>1, <1>4, <1>5, NewFileStep

LEMMA RemoveFileInv == ASSUME EnvInv, NEW n \in EnvNames, RemoveFile(n) PROVE EnvInv'
<1>1. /\ env_names[n] # 0 /\ env_files' = Unref(env_files, env_names[n])
      /\ env_names' = [env_names EXCEPT ![n] = 0]
      /\ UNCHANGED <<env_kind, env_w, env_r, env_fds, env_maps, env_bytes>>
  BY DEF RemoveFile, DropName
<1>2. /\ Len(env_files) \in Nat /\ DOMAIN env_names = EnvNames
      /\ env_names \in [EnvNames -> 0..Len(env_files)]
  BY FilesNow DEF EnvInv, EnvTypes, EnvFileOf
<1>3. env_names' \in [EnvNames -> 0..Len(env_files)]
  BY <1>1, <1>2
<1>4. ASSUME NEW g \in 1..Len(env_files)
      PROVE  UsersOf(g)' \in Nat /\ UsersOf(g)' + (IF env_names[n] = g THEN 1 ELSE 0) = UsersOf(g)
  <2>1. env_names'[n] # g /\ \A m \in EnvNames \ {n} : env_names'[m] = env_names[m]
    BY <1>1, <1>2
  <2>2. UNCHANGED <<env_w, env_r>>
    BY <1>1
  <2> QED
    BY <2>1, <2>2, UsersDropped
<1> QED
  BY <1>1, <1>3, <1>4, DroppedFile

LEMMA LinkFileInv ==
  ASSUME EnvInv, NEW from \in EnvNames, NEW to \in EnvNames, LinkFile(from, to)
  PROVE  EnvInv'
<1> DEFINE f == env_names[from]
           l == Len(env_files)
<1>1. /\ f # 0 /\ env_names[to] = 0 /\ env_files' = Ref(env_files, f)
      /\ env_names' = [env_names EXCEPT ![to] = f]
      /\ UNCHANGED <<env_kind, env_w, env_r, env_fds, env_maps, env_bytes>>
  BY DEF LinkFile
<1>2. /\ env_files \in Seq(EnvFile) /\ l \in Nat /\ env_names \in [EnvNames -> 0..l]
      /\ env_bytes' \in Nat
  BY <1>1, FilesNow DEF EnvInv, EnvTypes, EnvFileOf
<1>3. f \in 1..l
  BY <1>1, FileNumbers DEF EnvInv
<1>4. env_files[f].refs > 0 /\ env_files[f].refs \in Nat
  BY <1>3, UserCounted DEF EnvInv
<1>5. /\ env_files' \in Seq(EnvFile) /\ Len(env_files') = l
      /\ \A g \in 1..l :
           /\ env_files'[g].cells = env_files[g].cells /\ env_files'[g].synced = env_files[g].synced
           /\ env_files'[g].freed = env_files[g].freed
           /\ env_files'[g].refs = env_files[g].refs + (IF g = f THEN 1 ELSE 0)
  BY <1>1, <1>2, <1>3, RefProps
<1>6. /\ env_names'[to] = f /\ \A m \in EnvNames \ {to} : env_names'[m] = env_names[m]
      /\ env_names' \in [EnvNames -> 0..l]
  BY <1>1, <1>2, <1>3
<1>7. ASSUME NEW g \in 1..l
      PROVE  /\ env_files'[g].refs = UsersOf(g)'
             /\ env_files'[g].freed <=> env_files'[g].refs = 0
             /\ env_files'[g].synced <= Len(env_files'[g].cells)
  <2> DEFINE a == IF env_names[to] = g THEN 1 ELSE 0
             b == IF env_names'[to] = g THEN 1 ELSE 0
             k == IF env_w.file = g THEN 1 ELSE 0
             k2 == IF env_w'.file = g THEN 1 ELSE 0
             j == IF g = f THEN 1 ELSE 0
  <2>1. UNCHANGED env_r
    BY <1>1
  <2>2. UsersOf(g)' \in Nat /\ UsersOf(g)' + a + k = UsersOf(g) + b + k2
    BY <1>6, <2>1, UsersMove
  <2>3. UsersOf(g) \in Nat
    BY EnvCounts
  <2>4. a = 0 /\ b = j /\ k2 = k /\ k \in Nat /\ j \in Nat
    BY <1>1, <1>2, <1>6
  <2>5. /\ env_files[g].refs \in Nat /\ (env_files[g].freed <=> env_files[g].refs = 0)
        /\ env_files[g].synced <= Len(env_files[g].cells) /\ env_files[g].refs = UsersOf(g)
    BY FilesNow
  <2>6. env_files'[g].refs = env_files[g].refs + j
    BY <1>5
  <2> HIDE DEF a, b, k, k2
  <2>7. UsersOf(g)' = UsersOf(g) + j
    BY <2>2, <2>3, <2>4
  <2>8. CASE g = f
    BY <1>4, <1>5, <2>5, <2>6, <2>7, <2>8
  <2>9. CASE g # f
    BY <1>5, <2>5, <2>6, <2>7, <2>9
  <2> QED
    BY <2>8, <2>9
<1>8. env_w.open => env_files'[env_w.file].cells = env_files[env_w.file].cells
  BY <1>5, WriterNow
<1> HIDE DEF f
<1>9. Len(env_files') >= Len(env_files)
  BY <1>2, <1>5
<1> QED
  BY <1>1, <1>2, <1>5, <1>6, <1>7, <1>8, <1>9, NameStep

\* The users of a file when one name takes another's.
LEMMA UsersMoved ==
  ASSUME UNCHANGED <<env_w, env_r>>, DOMAIN env_names = EnvNames,
         NEW from \in EnvNames, NEW to \in EnvNames, from # to,
         env_names' = Moved(from, to), NEW g, g # 0
  PROVE  UsersOf(g)' \in Nat /\ UsersOf(g)' + (IF env_names[to] = g THEN 1 ELSE 0) = UsersOf(g)
<1> DEFINE mid == [env_names EXCEPT ![to] = env_names[from]]
           a == Cardinality(NamesIn(env_names, g))
           b == Cardinality(NamesIn(mid, g))
           c == Cardinality(NamesIn(env_names', g))
           d == Cardinality(ReadersOf(g))
           k == IF env_w.file = g THEN 1 ELSE 0
           i == IF env_names[to] = g THEN 1 ELSE 0
           j == IF env_names[from] = g THEN 1 ELSE 0
<1>1. /\ mid[to] = env_names[from] /\ mid[from] = env_names[from]
      /\ \A m \in EnvNames \ {to} : mid[m] = env_names[m]
  OBVIOUS
<1>2. env_names'[from] = 0 /\ \A m \in EnvNames \ {from} : env_names'[m] = mid[m]
  BY DEF Moved
<1> HIDE DEF mid
<1>3. b + (IF env_names[to] = g THEN 1 ELSE 0) = a + (IF mid[to] = g THEN 1 ELSE 0) /\ a \in Nat
  BY <1>1, NameBooks
<1>4. c + (IF mid[from] = g THEN 1 ELSE 0) = b + (IF env_names'[from] = g THEN 1 ELSE 0) /\ b \in Nat
  BY <1>2, NameBooks
<1>5. c \in Nat
  <2>1. NamesIn(env_names', g) \in SUBSET EnvNames
    BY DEF NamesIn
  <2> QED
    BY <2>1, EnvAssumption, FS_Subset, FS_CardinalityType
<1>6. d \in Nat /\ k \in Nat /\ i \in Nat /\ j \in Nat
  BY EnvCounts
<1>7. b + i = a + j /\ c + j = b
  BY <1>1, <1>2, <1>3, <1>4
<1>8. ReadersOf(g)' = ReadersOf(g)
  BY DEF ReadersOf
<1>9. UsersOf(g) = a + d + k /\ UsersOf(g)' = c + d + k
  BY <1>8, NamesNow DEF UsersOf
<1> HIDE DEF a, b, c, d, k, i, j
<1>10. UsersOf(g)' \in Nat /\ UsersOf(g)' + i = UsersOf(g)
  BY <1>3, <1>4, <1>5, <1>6, <1>7, <1>9
<1> QED
  BY <1>10 DEF i

LEMMA RenameFileInv ==
  ASSUME EnvInv, NEW from \in EnvNames, NEW to \in EnvNames, RenameFile(from, to)
  PROVE  EnvInv'
<1> DEFINE l == Len(env_files)
<1>1. /\ env_names[from] # 0 /\ from # to
      /\ env_files' = DropName(env_files, env_names, to)
      /\ UNCHANGED <<env_kind, env_w, env_r, env_fds, env_maps, env_bytes>>
      /\ \/ env_names' = Moved(from, to)
         \/ env_names[to] # 0 /\ env_names' = [env_names EXCEPT ![to] = 0]
  BY DEF RenameFile, Win9xRename
<1>2. /\ l \in Nat /\ DOMAIN env_names = EnvNames /\ env_names \in [EnvNames -> 0..l]
  BY FilesNow DEF EnvInv, EnvTypes, EnvFileOf
<1>3. env_names' \in [EnvNames -> 0..l]
  BY <1>1, <1>2 DEF Moved
<1>4. ASSUME NEW g \in 1..l
      PROVE  UsersOf(g)' \in Nat /\ UsersOf(g)' + (IF env_names[to] = g THEN 1 ELSE 0) = UsersOf(g)
  <2>1. UNCHANGED <<env_w, env_r>> /\ g # 0
    BY <1>1, <1>2
  <2>2. CASE env_names' = Moved(from, to)
    BY <1>1, <1>2, <2>1, <2>2, UsersMoved
  <2>3. CASE env_names' = [env_names EXCEPT ![to] = 0]
    <3>1. env_names'[to] # g /\ \A m \in EnvNames \ {to} : env_names'[m] = env_names[m]
      BY <1>2, <2>1, <2>3
    <3> QED
      BY <2>1, <3>1, UsersDropped
  <2> QED
    BY <1>1, <2>2, <2>3
<1>5. CASE env_names[to] = 0
  <2>1. env_files' = env_files
    BY <1>1, <1>5 DEF DropName
  <2>2. ASSUME NEW g \in 1..l PROVE UsersOf(g)' = UsersOf(g)
    <3>1. (IF env_names[to] = g THEN 1 ELSE 0) = 0
      BY <1>2, <1>5
    <3>2. UsersOf(g)' \in Nat /\ UsersOf(g)' + 0 = UsersOf(g)
      BY <1>4, <3>1
    <3> QED
      BY <3>2
  <2> QED
    BY <1>1, <1>3, <2>1, <2>2, SameFiles
<1>6. CASE env_names[to] # 0
  <2>1. env_files' = Unref(env_files, env_names[to])
    BY <1>1, <1>6 DEF DropName
  <2> QED
    BY <1>1, <1>3, <1>4, <1>6, <2>1, DroppedFile
<1> QED
  BY <1>5, <1>6

LEMMA EnvChooseInv ==
  ASSUME EnvInv, NEW kind \in {"unix", "win", "win9x", "mem"}, EnvChoose(kind)
  PROVE  EnvInv'
<1>1. /\ env_kind = "none" /\ env_kind' = kind
      /\ UNCHANGED <<env_names, env_files, env_w, env_r, env_fds, env_maps, env_bytes>>
  BY DEF EnvChoose
<1>2. ~env_w.open
  BY <1>1 DEF EnvInv, EnvWriting
<1>3. EnvTypes'
  BY <1>1 DEF EnvInv, EnvTypes, EnvFileOf, EnvWriter, EnvReader
<1>4. EnvReading' /\ EnvLimits' /\ \A f : UsersOf(f)' = UsersOf(f)
  BY <1>1, QuietBooks DEF EnvInv
<1>5. EnvRefs'
  BY <1>1, <1>4 DEF EnvInv, EnvRefs
<1>6. EnvWriting'
  BY <1>1, <1>2 DEF EnvInv, EnvWriting
<1> QED
  BY <1>3, <1>4, <1>5, <1>6 DEF EnvInv

\* The users of a file when the writer gets another.
LEMMA UsersWithout ==
  ASSUME UNCHANGED <<env_names, env_r>>, NEW g
  PROVE  /\ UsersOf(g)' \in Nat
         /\ UsersOf(g)' + (IF env_w.file = g THEN 1 ELSE 0)
              = UsersOf(g) + (IF env_w'.file = g THEN 1 ELSE 0)
<1>1. NamesOf(g)' = NamesOf(g) /\ ReadersOf(g)' = ReadersOf(g)
  BY DEF NamesOf, ReadersOf
<1> DEFINE a == Cardinality(NamesOf(g))
           b == Cardinality(ReadersOf(g))
           k == IF env_w.file = g THEN 1 ELSE 0
           j == IF env_w'.file = g THEN 1 ELSE 0
<1>2. a \in Nat /\ b \in Nat /\ k \in Nat /\ j \in Nat
  BY EnvCounts
<1>3. UsersOf(g) = a + b + k /\ UsersOf(g)' = a + b + j
  BY <1>1 DEF UsersOf
<1> HIDE DEF a, b, k, j
<1>4. UsersOf(g)' \in Nat /\ UsersOf(g)' + k = UsersOf(g) + j
  BY <1>2, <1>3
<1> QED
  BY <1>4 DEF k, j

LEMMA ClosedIsWriter ==
  ASSUME NEW S, 0 \in S
  PROVE  /\ ClosedWriter \in [open : BOOLEAN, file : S, buf : Seq(Nat), err : BOOLEAN, base : Nat,
                              sent : Seq(Nat)]
         /\ ~ClosedWriter.open /\ ClosedWriter.file = 0
<1>1. <<>> \in Seq(Nat)
  BY EmptySeq
<1> QED
  BY <1>1 DEF ClosedWriter

LEMMA WfileDestroyInv ==
  ASSUME EnvInv, NEW closed \in BOOLEAN, WfileDestroy(closed)
  PROVE  EnvInv'
<1> DEFINE f == env_w.file
           l == Len(env_files)
<1>1. /\ env_w.open /\ env_w' = ClosedWriter
      /\ UNCHANGED <<env_kind, env_names, env_r, env_fds, env_maps, env_bytes>>
  BY DEF WfileDestroy
<1>2. PICK o \in CloseOutcomes(closed) :
        env_files' = Unref([env_files EXCEPT ![f].cells = o.cells], f)
  BY DEF WfileDestroy
<1>3. /\ f \in 1..l /\ env_files[f] \in EnvFile /\ Cells \in Seq(Nat) /\ Len(Cells) \in Nat
      /\ env_files[f].synced \in Nat /\ env_files[f].synced <= Len(Cells)
  BY <1>1, WriterNow
<1>4. o.cells \in Seq(Nat) /\ Len(o.cells) \in Nat /\ Len(o.cells) >= Len(Cells)
  <2>1. CASE closed
    BY <1>1, <2>1, FlushProps DEF CloseOutcomes
  <2>2. CASE ~closed
    BY <1>3, <2>2 DEF CloseOutcomes
  <2> QED
    BY <2>1, <2>2
<1> DEFINE x == WithCells(env_files[f], o.cells)
           y == [env_files EXCEPT ![f] = x]
<1>5. /\ x \in EnvFile /\ x.cells = o.cells /\ x.synced = env_files[f].synced
      /\ x.refs = env_files[f].refs /\ x.freed = env_files[f].freed
  BY <1>3, <1>4, CellsField
<1>6. env_files' = Unref(y, f)
  BY <1>2 DEF WithCells
<1> HIDE DEF x, f
<1>7. env_files \in Seq(EnvFile) /\ l \in Nat /\ env_names \in [EnvNames -> 0..l] /\ env_bytes \in Nat
  BY FilesNow DEF EnvInv, EnvTypes, EnvFileOf
<1>8. /\ y \in Seq(EnvFile) /\ Len(y) = l /\ y[f] = x
      /\ \A g \in 1..l : g # f => y[g] = env_files[g]
  BY <1>3, <1>5, <1>7, ExceptSeq
<1> HIDE DEF y
<1>9. env_files[f].refs > 0 /\ env_files[f].refs \in Nat /\ ~env_files[f].freed
  <2>1. env_files[f].refs > 0 /\ env_files[f].refs \in Nat
    BY <1>3, UserCounted DEF EnvInv, f
  <2> QED
    BY <1>3, <2>1, FilesNow
<1>10. /\ env_files' \in Seq(EnvFile) /\ Len(env_files') = l
       /\ \A g \in 1..l : g # f => env_files'[g] = env_files[g]
       /\ env_files'[f].refs = env_files[f].refs - 1
       /\ env_files'[f].freed <=> env_files'[f].refs = 0
       /\ env_files'[f].synced <= Len(env_files'[f].cells)
  <2>1. y[f].refs > 0 /\ ~y[f].freed /\ y[f].synced <= Len(y[f].cells)
    BY <1>3, <1>4, <1>5, <1>8, <1>9
  <2>2. f \in 1..Len(y)
    BY <1>3, <1>8
  <2>3. /\ Unref(y, f) \in Seq(EnvFile) /\ Len(Unref(y, f)) = Len(y)
        /\ \A g \in 1..Len(y) : g # f => Unref(y, f)[g] = y[g]
        /\ Unref(y, f)[f].refs = y[f].refs - 1
        /\ Unref(y, f)[f].freed <=> Unref(y, f)[f].refs = 0
        /\ Unref(y, f)[f].synced <= Len(Unref(y, f)[f].cells)
    BY <1>8, <2>1, <2>2, UnrefProps
  <2> QED
    BY <1>5, <1>6, <1>8, <2>3
<1>11. env_w'.file = 0 /\ ~env_w'.open /\ env_w' \in EnvWriter'
  <2>1. 0 \in 0..Len(env_files')
    BY <1>7, <1>10
  <2> QED
    BY <1>1, <2>1, ClosedIsWriter DEF EnvWriter, EnvFileOf
<1>12. ASSUME NEW g \in 1..l
       PROVE  /\ env_files'[g].refs = UsersOf(g)'
              /\ env_files'[g].freed <=> env_files'[g].refs = 0
              /\ env_files'[g].synced <= Len(env_files'[g].cells)
  <2> DEFINE k == IF env_w.file = g THEN 1 ELSE 0
             j == IF env_w'.file = g THEN 1 ELSE 0
  <2>1. UNCHANGED <<env_names, env_r>>
    BY <1>1
  <2>2. UsersOf(g)' \in Nat /\ UsersOf(g)' + k = UsersOf(g) + j
    BY <2>1, UsersWithout
  <2>3. j = 0 /\ k = IF g = f THEN 1 ELSE 0
    BY <1>7, <1>11 DEF f
  <2> HIDE DEF k, j
  <2>4. /\ env_files[g].refs \in Nat /\ (env_files[g].freed <=> env_files[g].refs = 0)
        /\ env_files[g].synced <= Len(env_files[g].cells) /\ env_files[g].refs = UsersOf(g)
    BY FilesNow
  <2>5. CASE g = f
    <3>1. k = 1
      BY <2>3, <2>5
    <3>2. UsersOf(g)' = UsersOf(g) - 1
      BY <2>2, <2>3, <2>4, <3>1
    <3> QED
      BY <1>10, <2>4, <2>5, <3>2
  <2>6. CASE g # f
    <3>1. k = 0
      BY <2>3, <2>6
    <3>2. UsersOf(g)' = UsersOf(g)
      BY <2>2, <2>3, <2>4, <3>1
    <3> QED
      BY <1>10, <2>4, <2>6, <3>2
  <2> QED
    BY <2>5, <2>6
<1>13. EnvWriting'
  BY <1>10, <1>11, <1>12 DEF EnvWriting
<1>14. env_kind' \in {"none", "unix", "win", "win9x", "mem"} /\ env_bytes' \in Nat
  BY <1>1, <1>7 DEF EnvInv, EnvTypes
<1>15. Len(env_files') >= Len(env_files) /\ env_names' \in [EnvNames -> 0..Len(env_files')]
  BY <1>1, <1>7, <1>10
<1> QED
  BY <1>1, <1>10, <1>11, <1>12, <1>13, <1>14, <1>15, FileStep

\* The file OpenWriter finds or makes, before the writer refers to it.
FoundAt(n) == IF env_names[n] = 0 THEN Len(env_files) + 1 ELSE env_names[n]
FoundIn(n) == IF env_names[n] = 0 THEN Append(env_files, NewFile(<<>>, 0)) ELSE env_files

LEMMA FoundFile ==
  ASSUME EnvInv, NEW n \in EnvNames
  PROVE  /\ FoundIn(n) \in Seq(EnvFile) /\ Len(FoundIn(n)) \in Nat
         /\ Len(FoundIn(n)) >= Len(env_files) /\ FoundAt(n) \in 1..Len(FoundIn(n))
         /\ \A g \in 1..Len(FoundIn(n)) :
              /\ FoundIn(n)[g].refs
                   = UsersOf(g) + (IF g = FoundAt(n) /\ env_names[n] = 0 THEN 1 ELSE 0)
              /\ FoundIn(n)[g].freed <=> FoundIn(n)[g].refs = 0
              /\ FoundIn(n)[g].synced <= Len(FoundIn(n)[g].cells)
         /\ FoundIn(n)[FoundAt(n)].refs > 0
<1> DEFINE f == FoundAt(n)
           before == FoundIn(n)
           l == Len(env_files)
<1>1. env_files \in Seq(EnvFile) /\ l \in Nat
  BY FilesNow
<1>2. CASE env_names[n] = 0
  <2> DEFINE x == NewFile(<<>>, 0)
  <2>1. <<>> \in Seq(Nat) /\ Len(<<>>) = 0
    BY EmptySeq
  <2>2. x \in EnvFile /\ x.synced <= Len(x.cells) /\ x.refs = 1 /\ ~x.freed
    BY <2>1 DEF NewFile, EnvFile
  <2>3. f = l + 1 /\ before = Append(env_files, x)
    BY <1>2 DEF FoundAt, FoundIn
  <2> HIDE DEF x, f, before
  <2>4. /\ before \in Seq(EnvFile) /\ Len(before) = l + 1 /\ before[l + 1] = x
        /\ \A g \in 1..l : before[g] = env_files[g]
    BY <1>1, <2>2, <2>3, AppendProperties
  <2>5. ASSUME NEW g \in 1..l + 1
        PROVE  /\ before[g].refs = UsersOf(g) + (IF g = f /\ env_names[n] = 0 THEN 1 ELSE 0)
               /\ before[g].freed <=> before[g].refs = 0
               /\ before[g].synced <= Len(before[g].cells)
    <3>1. CASE g = l + 1
      <4>1. UsersOf(g) = 0
        BY <1>1, <3>1, NoUsers DEF EnvInv, EnvFileOf
      <4> QED
        BY <1>2, <2>2, <2>3, <2>4, <3>1, <4>1
    <3>2. CASE g # l + 1
      <4>1. g \in 1..l /\ g # f
        BY <1>1, <2>3, <3>2
      <4>2. /\ before[g] = env_files[g] /\ env_files[g].refs = UsersOf(g) /\ env_files[g].refs \in Nat
            /\ (env_files[g].freed <=> env_files[g].refs = 0)
            /\ env_files[g].synced <= Len(env_files[g].cells)
        BY <2>4, <4>1, FilesNow
      <4>3. UsersOf(g) + (IF g = f /\ env_names[n] = 0 THEN 1 ELSE 0) = UsersOf(g)
        BY <4>1, <4>2
      <4> QED
        BY <4>2, <4>3
    <3> QED
      BY <3>1, <3>2
  <2> QED
    BY <1>1, <2>2, <2>3, <2>4, <2>5 DEF f, before
<1>3. CASE env_names[n] # 0
  <2>1. f = env_names[n] /\ before = env_files
    BY <1>3 DEF FoundAt, FoundIn
  <2> HIDE DEF f, before
  <2>2. f \in 1..l
    BY <1>3, <2>1, FileNumbers DEF EnvInv
  <2>3. env_files[f].refs > 0
    BY <2>1, <2>2, UserCounted DEF EnvInv
  <2>4. ASSUME NEW g \in 1..l
        PROVE  /\ env_files[g].refs = UsersOf(g) + (IF g = f /\ env_names[n] = 0 THEN 1 ELSE 0)
               /\ env_files[g].freed <=> env_files[g].refs = 0
               /\ env_files[g].synced <= Len(env_files[g].cells)
    <3>1. /\ env_files[g].refs = UsersOf(g) /\ env_files[g].refs \in Nat
          /\ (env_files[g].freed <=> env_files[g].refs = 0)
          /\ env_files[g].synced <= Len(env_files[g].cells)
      BY FilesNow
    <3>2. UsersOf(g) + (IF g = f /\ env_names[n] = 0 THEN 1 ELSE 0) = UsersOf(g)
      BY <1>3, <3>1
    <3> QED
      BY <3>1, <3>2
  <2> QED
    BY <1>1, <2>1, <2>2, <2>3, <2>4 DEF f, before
<1> QED
  BY <1>2, <1>3

\* O_TRUNC keeps who refers to the file.
LEMMA EmptiedProps ==
  ASSUME NEW files \in Seq(EnvFile), NEW f \in 1..Len(files)
  PROVE  /\ Emptied(files, f) \in Seq(EnvFile) /\ Len(Emptied(files, f)) = Len(files)
         /\ \A g \in 1..Len(files) : /\ Emptied(files, f)[g].refs = files[g].refs
                                     /\ Emptied(files, f)[g].freed = files[g].freed
                                     /\ g # f => Emptied(files, f)[g] = files[g]
         /\ Emptied(files, f)[f].synced <= Len(Emptied(files, f)[f].cells)
<1> DEFINE y == WithCells(files[f], <<>>)
           x == WithSynced(y, 0)
<1>1. <<>> \in Seq(Nat) /\ Len(<<>>) = 0 /\ files[f] \in EnvFile
  BY EmptySeq, ElementOfSeq
<1>2. /\ y \in EnvFile /\ y.cells = <<>> /\ y.refs = files[f].refs /\ y.freed = files[f].freed
  BY <1>1 DEF WithCells, EnvFile
<1>3. /\ x \in EnvFile /\ x.cells = y.cells /\ x.synced = 0 /\ x.refs = y.refs /\ x.freed = y.freed
  <2> HIDE DEF y
  <2> QED
    BY <1>2, SyncedField
<1>4. Emptied(files, f) = [files EXCEPT ![f] = x]
  <2> DEFINE p == [files EXCEPT ![f] = y]
  <2>1. DOMAIN files = 1..Len(files)
    BY LenProperties
  <2>2. p = [files EXCEPT ![f].cells = <<>>]
    BY DEF WithCells
  <2>3. p[f] = y
    BY <2>1
  <2> HIDE DEF y
  <2>4. [p EXCEPT ![f] = x] = [files EXCEPT ![f] = x]
    BY <2>1
  <2> HIDE DEF p
  <2>5. Emptied(files, f) = [p EXCEPT ![f].synced = 0]
    BY <2>2 DEF Emptied
  <2>6. [p EXCEPT ![f].synced = 0] = [p EXCEPT ![f] = x]
    BY <2>3 DEF WithSynced
  <2> QED
    BY <2>4, <2>5, <2>6
<1> HIDE DEF x, y
<1> QED
  BY <1>1, <1>2, <1>3, <1>4, ExceptSeq

LEMMA OpenWriterInv ==
  ASSUME EnvInv, NEW n \in EnvNames, NEW trunc \in BOOLEAN, OpenWriter(n, trunc)
  PROVE  EnvInv'
<1> DEFINE f == FoundAt(n)
           before == FoundIn(n)
           files == IF trunc THEN Emptied(before, f) ELSE before
           l == Len(env_files)
<1>1. /\ env_kind # "none" /\ ~env_w.open
      /\ env_names' = [env_names EXCEPT ![n] = f] /\ env_files' = Ref(files, f)
      /\ env_w' = [ClosedWriter EXCEPT !.open = TRUE, !.file = f, !.base = Len(files[f].cells)]
      /\ UNCHANGED <<env_kind, env_r, env_fds, env_maps, env_bytes>>
  BY DEF OpenWriter, FoundAt, FoundIn
<1>2. /\ before \in Seq(EnvFile) /\ Len(before) \in Nat /\ Len(before) >= l /\ f \in 1..Len(before)
      /\ \A g \in 1..Len(before) :
           /\ before[g].refs = UsersOf(g) + (IF g = f /\ env_names[n] = 0 THEN 1 ELSE 0)
           /\ before[g].freed <=> before[g].refs = 0
           /\ before[g].synced <= Len(before[g].cells)
      /\ before[f].refs > 0
  BY FoundFile
<1>3. env_names[n] # 0 => f = env_names[n]
  BY DEF FoundAt
<1>3a. env_names[n] = 0 => f # 0 /\ f = l + 1
  BY FilesNow DEF FoundAt
<1> HIDE DEF f, before
<1>4. /\ files \in Seq(EnvFile) /\ Len(files) = Len(before)
      /\ \A g \in 1..Len(before) :
           /\ files[g].refs = before[g].refs /\ files[g].freed = before[g].freed
           /\ files[g].synced <= Len(files[g].cells)
  <2>1. CASE trunc
    <3>1. files = Emptied(before, f)
      BY <2>1
    <3> HIDE DEF files
    <3> QED
      BY <1>2, <3>1, EmptiedProps
  <2>2. CASE ~trunc
    <3>1. files = before
      BY <2>2
    <3> HIDE DEF files
    <3> QED
      BY <1>2, <3>1
  <2> QED
    BY <2>1, <2>2
<1> HIDE DEF files
<1>5. /\ env_files' \in Seq(EnvFile) /\ Len(env_files') = Len(before)
      /\ \A g \in 1..Len(before) :
           /\ env_files'[g].cells = files[g].cells /\ env_files'[g].synced = files[g].synced
           /\ env_files'[g].freed = files[g].freed
           /\ env_files'[g].refs = files[g].refs + (IF g = f THEN 1 ELSE 0)
  <2>1. f \in 1..Len(files) /\ files \in Seq(EnvFile) /\ env_files' = Ref(files, f)
    BY <1>1, <1>2, <1>4
  <2>2. /\ env_files' \in Seq(EnvFile) /\ Len(env_files') = Len(files)
        /\ \A g \in 1..Len(files) :
             /\ env_files'[g].cells = files[g].cells /\ env_files'[g].synced = files[g].synced
             /\ env_files'[g].freed = files[g].freed
             /\ env_files'[g].refs = files[g].refs + (IF g = f THEN 1 ELSE 0)
    BY <2>1, RefProps
  <2> QED
    BY <1>4, <2>2
<1>6. files[f].cells \in Seq(Nat)
  <2>1. files[f] \in EnvFile
    BY <1>2, <1>4, ElementOfSeq
  <2> QED
    BY <2>1 DEF EnvFile
<1> DEFINE c == files[f].cells
<1>7. Len(c) \in Nat
  BY <1>6, LenProperties
<1>8. /\ env_w' \in EnvWriter' /\ env_w'.open /\ env_w'.file = f /\ env_w'.base = Len(c)
      /\ env_w'.buf = <<>> /\ env_w'.sent = <<>>
  <2>1. 0 \in 0..Len(env_files') /\ f \in 0..Len(env_files')
    BY <1>2, <1>5
  <2>2. <<>> \in Seq(Nat)
    BY EmptySeq
  <2> HIDE DEF c
  <2>3. env_w' = [ClosedWriter EXCEPT !.open = TRUE, !.file = f, !.base = Len(c)]
    BY <1>1 DEF c
  <2> QED
    BY <1>7, <2>1, <2>2, <2>3 DEF EnvWriter, EnvFileOf, ClosedWriter
<1>9. env_w.file = 0 /\ env_names \in [EnvNames -> 0..l] /\ l \in Nat /\ env_bytes \in Nat
  BY <1>1, FilesNow DEF EnvInv, EnvTypes, EnvWriting, EnvFileOf
<1>10. ASSUME NEW g \in 1..Len(before)
       PROVE  /\ env_files'[g].refs = UsersOf(g)'
              /\ env_files'[g].freed <=> env_files'[g].refs = 0
              /\ env_files'[g].synced <= Len(env_files'[g].cells)
  <2> DEFINE a == IF env_names[n] = g THEN 1 ELSE 0
             b == IF env_names'[n] = g THEN 1 ELSE 0
             k == IF env_w.file = g THEN 1 ELSE 0
             j == IF env_w'.file = g THEN 1 ELSE 0
             e == IF g = f /\ env_names[n] = 0 THEN 1 ELSE 0
             i == IF g = f THEN 1 ELSE 0
  <2>1. UNCHANGED env_r /\ env_names'[n] = f /\ \A m \in EnvNames \ {n} : env_names'[m] = env_names[m]
    BY <1>1, <1>9
  <2>2. UsersOf(g)' \in Nat /\ UsersOf(g)' + a + k = UsersOf(g) + b + j
    BY <2>1, UsersMove
  <2>3. UsersOf(g) \in Nat
    BY EnvCounts
  <2>4. before[g].refs = UsersOf(g) + e /\ env_files'[g].refs = before[g].refs + i
    BY <1>2, <1>4, <1>5
  <2>5. k = 0 /\ j = i /\ b = i
    BY <1>2, <1>8, <1>9, <2>1
  <2>6. e + a = i /\ e \in Nat /\ a \in Nat /\ i \in Nat
    <3>1. CASE g = f
      BY <1>3a, <1>2, <1>3, <3>1
    <3>2. CASE g # f
      BY <1>2, <1>3, <3>2
    <3> QED
      BY <3>1, <3>2
  <2>7. g = f => i = 1
    OBVIOUS
  <2> HIDE DEF a, b, k, j, e, i
  <2>8. env_files'[g].refs = UsersOf(g)'
    BY <2>2, <2>3, <2>4, <2>5, <2>6
  <2>9. env_files'[g].freed <=> env_files'[g].refs = 0
    <3>1. before[g].refs \in Nat
      BY <2>3, <2>4, <2>6
    <3>2. CASE g = f
      <4>1. before[g].refs > 0 /\ env_files'[g].refs = before[g].refs + 1
        BY <1>2, <2>4, <2>7, <3>2
      <4> QED
        BY <1>2, <1>4, <1>5, <3>1, <4>1
    <3>3. CASE g # f
      <4>1. env_files'[g].refs = before[g].refs
        BY <2>4, <3>1, <3>3 DEF i
      <4> QED
        BY <1>2, <1>4, <1>5, <4>1
    <3> QED
      BY <3>2, <3>3
  <2> QED
    BY <1>4, <1>5, <2>8, <2>9
<1>11. EnvWriting'
  <2>1. Cells' = c
    BY <1>2, <1>5, <1>8 DEF Cells
  <2>2. Cat(Part(c, Len(c) + 1, Len(c)), <<>>) = <<>>
    <3> HIDE DEF c
    <3>1. c \in Seq(Nat)
      BY <1>6 DEF c
    <3>2. Part(c, Len(c) + 1, Len(c)) \in Seq(Nat) /\ Len(Part(c, Len(c) + 1, Len(c))) = 0
      <4> DEFINE k == Len(c)
                 m == k + 1
      <4>1. k \in Nat /\ k = Len(c)
        BY <3>1, LenProperties
      <4> HIDE DEF k
      <4>2. m \in Nat /\ m > 0 /\ m <= k + 1 /\ k <= k /\ k - m + 1 = 0
        BY ONLY <4>1
      <4> HIDE DEF m
      <4>3. k <= Len(c)
        BY ONLY <4>1, <4>2
      <4>4. Part(c, m, k) \in Seq(Nat) /\ Len(Part(c, m, k)) = k - m + 1
        BY ONLY <3>1, <4>1, <4>2, <4>3, PartProps
      <4> QED
        BY <4>2, <4>4 DEF k, m
    <3>3. Part(c, Len(c) + 1, Len(c)) = <<>>
      BY <3>2, EmptySeq
    <3>4. <<>> \in Seq(Nat)
      BY EmptySeq
    <3>5. Cat(<<>>, <<>>) = <<>>
      BY <3>4, CatEmpty, Zenon
    <3> QED
      BY <3>3, <3>5, Zenon
  <2>3. Len(<<>>) <= EnvBuffer
    BY EmptySeq, EnvAssumption
  <2>4. f # 0
    BY <1>2
  <2> HIDE DEF c
  <2> QED
    BY <1>1, <1>5, <1>7, <1>8, <1>10, <2>1, <2>2, <2>3, <2>4 DEF EnvWriting
<1>12. /\ env_kind' \in {"none", "unix", "win", "win9x", "mem"} /\ env_bytes' \in Nat
       /\ Len(env_files') >= Len(env_files) /\ env_names' \in [EnvNames -> 0..Len(env_files')]
  <2>1. env_kind' \in {"none", "unix", "win", "win9x", "mem"}
    BY <1>1 DEF EnvInv, EnvTypes
  <2>2. env_names' \in [EnvNames -> 0..Len(env_files')]
    BY <1>1, <1>2, <1>5, <1>9
  <2> QED
    BY <1>1, <1>2, <1>5, <1>9, <2>1, <2>2
<1> QED
  BY <1>1, <1>5, <1>8, <1>10, <1>11, <1>12, FileStep

----------------------------------------------------------------------------

LEMMA EnvStepInv == EnvInv /\ [EnvNext]_envVars => EnvInv'
<1> SUFFICES ASSUME EnvInv, [EnvNext]_envVars PROVE EnvInv'
  OBVIOUS
<1>1. CASE UNCHANGED envVars
  <2>1. UNCHANGED <<env_kind, env_names, env_files, env_w, env_r, env_fds, env_maps, env_bytes>>
    BY <1>1 DEF envVars
  <2>2. EnvTypes'
    BY <2>1 DEF EnvInv, EnvTypes, EnvFileOf, EnvWriter, EnvReader
  <2>3. EnvReading' /\ EnvLimits' /\ \A f : UsersOf(f)' = UsersOf(f)
    BY <2>1, QuietBooks DEF EnvInv
  <2>4. EnvRefs'
    BY <2>1, <2>3 DEF EnvInv, EnvRefs
  <2>5. Cells' = Cells
    BY <2>1 DEF Cells
  <2>6. EnvWriting'
    BY <2>1, <2>5 DEF EnvInv, EnvWriting
  <2> QED
    BY <2>2, <2>3, <2>4, <2>6 DEF EnvInv
<1>2. ASSUME NEW r \in EnvReaders, ReaderNext(r) PROVE EnvInv'
  BY <1>2, OpenReaderInv, AcquireMapInv, UndoMapInv, MapFileInv, MapFailsInv, AcquireFdInv,
     UndoFdInv, ReadFileInv, SkipFileInv, CloseReaderInv DEF ReaderNext
<1>3. CASE EnvNext
  BY <1>2, <1>3, EnvChooseInv, OpenWriterInv, AppendOpenFailsInv, WfileAppendInv, WfileFlushInv,
     SimulatedErrorInv, WfileSyncInv, WfileDestroyInv, RemoveFileInv, RenameFileInv, CopyFileInv,
     LinkFileInv, WriteFileInv DEF EnvNext
<1> QED
  BY <1>1, <1>3

LEMMA EnvInvAlways == EnvSpec => []EnvInv
BY EnvInitInv, EnvStepInv, PTL DEF EnvSpec

\* The write buffer of a writable file (ldb_wfile_append0, ldb_wfile_flush): for every
\* buffer size and every sizes of the appends, as long as no call failed, the file
\* after the point where it was opened and the buffer together are exactly the bytes
\* accepted, in order; the buffer never overflows and nothing is synced that is not there.
THEOREM BufferLosesNothing == EnvSpec => []EnvWrites
<1>1. EnvInv => EnvWrites
  <2> SUFFICES ASSUME EnvInv, env_w.open, ~env_w.err
               PROVE  /\ SubSeq(Cells, env_w.base + 1, Len(Cells)) \o env_w.buf = env_w.sent
                      /\ Len(env_w.buf) <= EnvBuffer
                      /\ env_files[env_w.file].synced <= Len(Cells)
    BY DEF EnvWrites
  <2>1. /\ Cat(Part(Cells, env_w.base + 1, Len(Cells)), env_w.buf) = env_w.sent
        /\ Len(env_w.buf) <= EnvBuffer
    BY DEF EnvInv, EnvWriting
  <2>2. SubSeq(Cells, env_w.base + 1, Len(Cells)) \o env_w.buf = env_w.sent
    BY <2>1, Zenon DEF Cat, Part
  <2>3. env_files[env_w.file].synced <= Len(Cells)
    BY WriterNow
  <2> QED
    BY <2>1, <2>2, <2>3, Zenon
<1> QED
  BY <1>1, EnvInvAlways, PTL

\* The limiters and the references (ldb_limiter_acquire, ldb_fstate_ref, ldb_fstate_unref):
\* for every number of names and readers, however opens, failed maps, renames and closes
\* interleave, a limiter is short by exactly what is held or about to be put back, never
\* grants more than its maximum, and a file is freed exactly when nothing refers to it.
THEOREM LimitsAndRefsExact == EnvSpec => []EnvBooks
<1>1. EnvInv => EnvBooks
  <2> SUFFICES ASSUME EnvInv PROVE EnvBooks
    OBVIOUS
  <2>1. DOMAIN env_files = 1..Len(env_files)
    BY LenProperties DEF EnvInv, EnvTypes
  <2>2. ASSUME NEW f \in 1..Len(env_files)
        PROVE  env_files[f].refs = UsersOf(f) /\ (env_files[f].freed <=> UsersOf(f) = 0)
    BY DEF EnvInv, EnvRefs
  <2>3. \A f \in DOMAIN env_files :
          LET users == Cardinality({n \in EnvNames : env_names[n] = f})
                         + Cardinality({r \in EnvReaders : env_r[r].file = f})
                         + (IF env_w.file = f THEN 1 ELSE 0)
          IN env_files[f].refs = users /\ (env_files[f].freed <=> users = 0)
    BY <2>1, <2>2 DEF UsersOf, NamesOf, ReadersOf
  <2> QED
    BY <2>3 DEF EnvBooks, EnvInv, EnvLimits, FdShort, FdGranted, MapShort, MapGranted
<1> QED
  BY <1>1, EnvInvAlways, PTL

----------------------------------------------------------------------------
(* The RPC server and its clients                                          *)

RpcAnswers == {"answer", "echo"} \X Nat
RpcRun == [pc : {"init", "progress", "loop", "grow"}, conn : RpcClients \cup {NoConn}, copy : Seq(RpcClients)]
RpcThread ==
  [pc   : {"sem", "take", "advance", "accept", "recv", "send"},
   conn : RpcClients \cup {NoConn}, served : Nat, gen : Nat]
RpcQueue == [conns : Seq(RpcClients), cap : Nat, gen : Nat]
RpcClient ==
  [pc : {"init", "unconnected", "send", "recv", "gone"}, sent : Nat, got : Seq(RpcAnswers)]

\* What the variables hold.
RpcTypes ==
  /\ rpc_run \in RpcRun /\ rpc_cnt \in Nat /\ rpc_dispatch \in Seq(RpcClients)
  /\ rpc_magic \in [RpcClients -> Nat]
  /\ rpc_thread \in [RpcThreads -> RpcThread]
  /\ rpc_queue \in [RpcThreads -> RpcQueue]
  /\ rpc_sem \in [RpcThreads -> Nat]
  /\ rpc_handle \in BOOLEAN
  /\ rpc_client \in [RpcClients -> RpcClient]
  /\ rpc_up \in [RpcClients -> Seq(Nat)] /\ rpc_down \in [RpcClients -> Seq(RpcAnswers)]
  /\ rpc_served \in Seq(RpcClients)

\* What a sequence holds, each once.
Elems(s) == {s[i] : i \in 1..Len(s)}
Distinct(s) == \A i, j \in 1..Len(s) : s[i] = s[j] => i = j
Queued(t) == Elems(rpc_queue[t].conns)

\* A connection that was accepted is in one place.
RpcPlaces ==
  /\ Distinct(rpc_dispatch) /\ Distinct(rpc_served)
  /\ \A t \in RpcThreads : Distinct(rpc_queue[t].conns)
  /\ \A c \in Elems(rpc_dispatch) : c \notin Elems(rpc_served)
  /\ \A t \in RpcThreads : \A c \in Queued(t) : c \notin Elems(rpc_dispatch) /\ c \notin Elems(rpc_served)
  /\ \A t, u \in RpcThreads : \A c \in Queued(t) : c \in Queued(u) => t = u
  /\ rpc_run.conn \notin Elems(rpc_dispatch) /\ rpc_run.conn \notin Elems(rpc_served)
  /\ \A t \in RpcThreads : rpc_run.conn \notin Queued(t)
  /\ \A c \in RpcClients :
       rpc_magic[c] # 0 <=> \/ c \in Elems(rpc_dispatch) \/ c \in Elems(rpc_served) \/ rpc_run.conn = c
                            \/ \E t \in RpcThreads : c \in Queued(t)

\* The run thread has a connection in hand only while a queue grows; before it runs
\* there is none.
RpcRunning ==
  /\ rpc_run.pc = "grow" <=> rpc_run.conn # NoConn
  /\ rpc_run.pc = "init" => \A c \in RpcClients : rpc_magic[c] = 0

\* A thread between the two halves of stl_queue_del_first has the head of its queue,
\* unless the queue has grown; the semaphore counts the rest.
RpcTaking ==
  \A t \in RpcThreads :
    /\ rpc_thread[t].gen <= rpc_queue[t].gen
    /\ rpc_thread[t].pc = "advance" /\ rpc_thread[t].gen = rpc_queue[t].gen =>
         rpc_queue[t].conns # <<>> /\ rpc_thread[t].conn = Head(rpc_queue[t].conns)
    /\ Len(rpc_queue[t].conns) = rpc_sem[t] + (IF rpc_thread[t].pc \in {"take", "advance"} THEN 1 ELSE 0)

\* A connection has at most one thread that serves it.
Serving == {"accept", "recv", "send"}
RpcHolding ==
  /\ \A t \in RpcThreads : rpc_thread[t].pc \in Serving =>
       rpc_thread[t].conn \in Elems(rpc_served)
  /\ \A t, u \in RpcThreads :
       rpc_thread[t].pc \in Serving /\ rpc_thread[u].pc \in Serving
         /\ rpc_thread[t].conn = rpc_thread[u].conn => t = u
  /\ \A t \in RpcThreads : rpc_thread[t].pc = "send" => rpc_up[rpc_thread[t].conn] # <<>>

\* One message of a client is on its way, or its answer.
Talks(r, up, down, magic) ==
  LET n == Len(r.got) IN
    /\ Len(up) + Len(down) <= 1 /\ n + Len(up) + Len(down) <= r.sent
    /\ r.pc \in {"init", "unconnected", "send"} => n = r.sent
    /\ r.pc = "recv" => n + 1 = r.sent
    /\ Len(up) = 1 => up[1] = n + 1
    /\ Len(down) = 1 => down[1] = Answer(n + 1)
    /\ \A i \in 1..n : r.got[i] = Answer(i)
    /\ magic = 0 => n = 0 /\ Len(down) = 0
RpcTalking ==
  \A c \in RpcClients : Talks(rpc_client[c], rpc_up[c], rpc_down[c], rpc_magic[c])

RpcAll == RpcTypes /\ RpcPlaces /\ RpcRunning /\ RpcTaking /\ RpcHolding /\ RpcTalking
RpcInv == rpc_raced = {} => RpcAll

----------------------------------------------------------------------------

\* One more connection in a sequence, and one less.
LEMMA AppendElems ==
  ASSUME NEW S, NEW s \in Seq(S), NEW x \in S
  PROVE  /\ Append(s, x) \in Seq(S) /\ Len(Append(s, x)) = Len(s) + 1 /\ Append(s, x) # <<>>
         /\ Elems(Append(s, x)) = Elems(s) \cup {x}
         /\ Distinct(s) /\ x \notin Elems(s) => Distinct(Append(s, x))
         /\ s # <<>> => Head(Append(s, x)) = Head(s)
<1>1. /\ Append(s, x) \in Seq(S) /\ Len(Append(s, x)) = Len(s) + 1 /\ Len(s) \in Nat
      /\ Append(s, x)[Len(s) + 1] = x /\ \A i \in 1..Len(s) : Append(s, x)[i] = s[i]
      /\ Append(s, x) # <<>>
  BY AppendProperties, LenProperties
<1>2. s # <<>> => Head(Append(s, x)) = Head(s)
  OBVIOUS
<1> DEFINE a == Append(s, x)
<1> HIDE DEF a
<1>3. /\ Len(a) = Len(s) + 1 /\ Len(s) \in Nat /\ a[Len(s) + 1] = x
      /\ \A i \in 1..Len(s) : a[i] = s[i]
  BY <1>1 DEF a
<1>4. Elems(a) = Elems(s) \cup {x}
  BY <1>3 DEF Elems
<1>5. ASSUME Distinct(s), x \notin Elems(s) PROVE Distinct(a)
  <2> SUFFICES ASSUME NEW i \in 1..Len(a), NEW j \in 1..Len(a), a[i] = a[j] PROVE i = j
    BY DEF Distinct
  <2>1. CASE i \in 1..Len(s) /\ j \in 1..Len(s)
    BY <1>3, <1>5, <2>1 DEF Distinct
  <2>2. CASE i = Len(s) + 1 /\ j \in 1..Len(s)
    BY <1>3, <1>5, <2>2 DEF Elems
  <2>3. CASE i \in 1..Len(s) /\ j = Len(s) + 1
    BY <1>3, <1>5, <2>3 DEF Elems
  <2>4. CASE i = Len(s) + 1 /\ j = Len(s) + 1
    BY <2>4
  <2> QED
    BY <1>3, <2>1, <2>2, <2>3, <2>4
<1> QED
  BY <1>1, <1>2, <1>4, <1>5 DEF a

LEMMA TailElems ==
  ASSUME NEW S, NEW s \in Seq(S), s # <<>>
  PROVE  /\ Head(s) \in S /\ Head(s) \in Elems(s) /\ Tail(s) \in Seq(S) /\ Len(Tail(s)) = Len(s) - 1
         /\ Len(s) \in Nat /\ Len(s) > 0 /\ Head(s) = s[1]
         /\ Distinct(s) => Distinct(Tail(s)) /\ Elems(Tail(s)) = Elems(s) \ {Head(s)}
<1>1. /\ Head(s) \in S /\ Tail(s) \in Seq(S) /\ Len(Tail(s)) = Len(s) - 1
      /\ \A i \in 1..Len(Tail(s)) : Tail(s)[i] = s[i + 1]
  BY HeadTailProperties
<1>2. Len(s) \in Nat /\ Len(s) > 0 /\ Head(s) = s[1]
  BY LenProperties, EmptySeq
<1> DEFINE b == Tail(s)
           h == Head(s)
<1> HIDE DEF b, h
<1>3. /\ h = s[1] /\ Len(b) = Len(s) - 1 /\ \A i \in 1..Len(b) : b[i] = s[i + 1]
      /\ Len(s) \in Nat /\ Len(s) > 0
  BY <1>1, <1>2 DEF b, h
<1>4. h \in Elems(s)
  BY <1>3 DEF Elems
<1>5. ASSUME Distinct(s) PROVE Distinct(b) /\ Elems(b) = Elems(s) \ {h}
  <2>1. Distinct(b)
    <3> SUFFICES ASSUME NEW i \in 1..Len(b), NEW j \in 1..Len(b), b[i] = b[j] PROVE i = j
      BY DEF Distinct
    <3>1. i + 1 \in 1..Len(s) /\ j + 1 \in 1..Len(s) /\ s[i + 1] = s[j + 1]
      BY <1>3
    <3>2. i + 1 = j + 1
      BY <1>5, <3>1 DEF Distinct
    <3> QED
      BY <1>3, <3>2
  <2>2. ASSUME NEW y \in Elems(b) PROVE y \in Elems(s) \ {h}
    <3>1. PICK i \in 1..Len(b) : y = b[i]
      BY <2>2 DEF Elems
    <3>2. i + 1 \in 1..Len(s) /\ y = s[i + 1] /\ 1 \in 1..Len(s) /\ i + 1 # 1
      BY <1>3, <3>1
    <3>3. y # h
      BY <1>3, <1>5, <3>2 DEF Distinct
    <3> QED
      BY <3>2, <3>3 DEF Elems
  <2>3. ASSUME NEW y \in Elems(s), y # h PROVE y \in Elems(b)
    <3>1. PICK i \in 1..Len(s) : y = s[i]
      BY <2>3 DEF Elems
    <3>2. i - 1 \in 1..Len(b) /\ (i - 1) + 1 = i
      BY <1>3, <2>3, <3>1
    <3>3. b[i - 1] = y
      BY <1>3, <3>1, <3>2
    <3> QED
      BY <3>2, <3>3 DEF Elems
  <2> QED
    BY <2>1, <2>2, <2>3
<1> QED
  BY <1>1, <1>2, <1>4, <1>5 DEF b, h

LEMMA EmptyElems == Elems(<<>>) = {} /\ Distinct(<<>>) /\ Len(<<>>) = 0
<1>1. Len(<<>>) = 0
  BY EmptySeq
<1> QED
  BY <1>1 DEF Elems, Distinct

----------------------------------------------------------------------------

LEMMA RpcInitInv == RpcInit => RpcInv
<1> SUFFICES ASSUME RpcInit PROVE RpcAll
  BY DEF RpcInv
<1>1. \A S : <<>> \in Seq(S)
  BY EmptySeq
<1>2. Len(<<>>) = 0
  BY EmptySeq
<1>3. RpcQueueCap \in Nat /\ NoConn \notin RpcClients
  BY RpcAssumption DEF NoConn
<1>4. RpcTypes
  BY <1>1, <1>3 DEF RpcInit, RpcTypes, RpcRun, RpcThread, RpcQueue, RpcClient
<1>5. RpcPlaces
  BY <1>3, EmptyElems DEF RpcInit, RpcPlaces, Queued
<1>6. RpcRunning
  BY DEF RpcInit, RpcRunning
<1>7. RpcTaking
  BY <1>2 DEF RpcInit, RpcTaking
<1>8. RpcHolding
  BY DEF RpcInit, RpcHolding, Serving
<1>9. RpcTalking
  BY <1>2 DEF RpcInit, RpcTalking, Talks
<1> QED
  BY <1>4, <1>5, <1>6, <1>7, <1>8, <1>9 DEF RpcAll

\* Parts of the state that stay keep their part of the invariant.
LEMMA PlacesStay ==
  ASSUME RpcPlaces, UNCHANGED <<rpc_dispatch, rpc_served, rpc_magic>>, rpc_run'.conn = rpc_run.conn,
         \A t \in RpcThreads : rpc_queue'[t].conns = rpc_queue[t].conns
  PROVE  RpcPlaces'
<1>1. \A t \in RpcThreads : Queued(t)' = Queued(t)
  BY DEF Queued
<1> QED
  BY <1>1 DEF RpcPlaces

LEMMA TakingStays ==
  ASSUME RpcTaking, UNCHANGED <<rpc_thread, rpc_queue, rpc_sem>>
  PROVE  RpcTaking'
BY DEF RpcTaking

LEMMA HoldingStays ==
  ASSUME RpcHolding, UNCHANGED <<rpc_thread, rpc_served>>,
         \A t \in RpcThreads : rpc_thread[t].pc = "send" => rpc_up'[rpc_thread[t].conn] # <<>>
  PROVE  RpcHolding'
BY DEF RpcHolding

LEMMA TalkingStays ==
  ASSUME RpcTalking, UNCHANGED <<rpc_client, rpc_up, rpc_down, rpc_handle>>,
         \A c \in RpcClients : rpc_magic'[c] = 0 => rpc_magic[c] = 0
  PROVE  RpcTalking'
BY DEF RpcTalking, Talks, Answer

----------------------------------------------------------------------------
(* The run thread.                                                         *)

LEMMA SetMsgHandleInv == ASSUME RpcAll, SetMsgHandle PROVE RpcAll'
<1>1. /\ rpc_run.pc = "init" /\ rpc_handle' = TRUE
      /\ UNCHANGED <<rpc_run, rpc_cnt, rpc_dispatch, rpc_magic, rpc_thread, rpc_queue, rpc_sem,
                     rpc_conn, rpc_client, rpc_up, rpc_down, rpc_served>>
  BY DEF SetMsgHandle, clientVars
<1>2. RpcTypes'
  BY <1>1 DEF RpcAll, RpcTypes
<1>3. RpcPlaces' /\ RpcTaking' /\ RpcHolding'
  BY <1>1, PlacesStay, TakingStays, HoldingStays DEF RpcAll, RpcHolding
<1>4. RpcRunning'
  BY <1>1 DEF RpcAll, RpcRunning
<1>5. \A c \in RpcClients : Len(rpc_client[c].got) = 0 /\ Len(rpc_down[c]) = 0
  BY <1>1 DEF RpcAll, RpcRunning, RpcTalking, Talks
<1>6. RpcTalking'
  <2> SUFFICES ASSUME NEW c \in RpcClients
               PROVE  Talks(rpc_client[c], rpc_up[c], rpc_down[c], rpc_magic[c])'
    BY DEF RpcTalking
  <2>0. rpc_client'[c] = rpc_client[c] /\ rpc_up'[c] = rpc_up[c] /\ rpc_down'[c] = rpc_down[c]
        /\ rpc_magic'[c] = rpc_magic[c]
    BY <1>1
  <2>1. Len(rpc_client[c].got) = 0 /\ Len(rpc_down[c]) = 0
    BY <1>5
  <2>2. \A i \in 1..Len(rpc_client[c].got) : FALSE
    BY <2>1
  <2>3. ~(Len(rpc_down[c]) = 1)
    BY <2>1
  <2> QED
    BY <2>0, <2>1, <2>2, <2>3 DEF RpcAll, RpcTalking, Talks
<1> QED
  BY <1>2, <1>3, <1>4, <1>6 DEF RpcAll

LEMMA RunPollInv == ASSUME RpcAll, RunPoll \/ RunWait PROVE RpcAll'
<1>1. /\ rpc_run.pc # "grow"
      /\ \E pc \in {"progress", "loop"} : rpc_run' = [rpc_run EXCEPT !.pc = pc]
      /\ UNCHANGED <<rpc_cnt, rpc_dispatch, rpc_magic, rpc_thread, rpc_queue, rpc_sem, rpc_handle,
                     rpc_conn, rpc_client, rpc_up, rpc_down, rpc_served>>
  BY DEF RunPoll, RunWait, clientVars
<1>2. /\ rpc_run' \in RpcRun /\ rpc_run'.conn = rpc_run.conn /\ rpc_run'.pc \in {"progress", "loop"}
  BY <1>1 DEF RpcAll, RpcTypes, RpcRun
<1>3. RpcTypes'
  BY <1>1, <1>2 DEF RpcAll, RpcTypes
<1>4. RpcPlaces' /\ RpcTaking' /\ RpcHolding' /\ RpcTalking'
  BY <1>1, <1>2, PlacesStay, TakingStays, HoldingStays, TalkingStays DEF RpcAll, RpcHolding
<1>5. RpcRunning'
  BY <1>1, <1>2 DEF RpcAll, RpcRunning
<1> QED
  BY <1>3, <1>4, <1>5 DEF RpcAll

LEMMA AcceptCbInv == ASSUME RpcAll, NEW c \in RpcClients, AcceptCb(c) PROVE RpcAll'
<1> DEFINE d == Append(rpc_dispatch, c)
<1>1. /\ rpc_run.pc = "progress" /\ rpc_magic[c] = 0 /\ rpc_cnt' = rpc_cnt + 1
      /\ rpc_magic' = [rpc_magic EXCEPT ![c] = rpc_cnt + 1] /\ rpc_dispatch' = d
      /\ UNCHANGED <<rpc_run, rpc_thread, rpc_queue, rpc_sem, rpc_handle,
                     rpc_conn, rpc_client, rpc_up, rpc_down, rpc_served>>
  BY DEF AcceptCb, Listening, clientVars
<1>2. rpc_dispatch \in Seq(RpcClients) /\ rpc_cnt \in Nat /\ rpc_magic \in [RpcClients -> Nat]
  BY DEF RpcAll, RpcTypes
<1>3. /\ c \notin Elems(rpc_dispatch) /\ c \notin Elems(rpc_served) /\ rpc_run.conn # c
      /\ \A t \in RpcThreads : c \notin Queued(t)
      /\ Distinct(rpc_dispatch)
  BY <1>1 DEF RpcAll, RpcPlaces
<1>4. d \in Seq(RpcClients) /\ Elems(d) = Elems(rpc_dispatch) \cup {c} /\ Distinct(d)
  BY <1>2, <1>3, AppendElems
<1> HIDE DEF d
<1>5. /\ \A e \in RpcClients : e # c => rpc_magic'[e] = rpc_magic[e]
      /\ rpc_magic'[c] # 0 /\ rpc_magic' \in [RpcClients -> Nat] /\ rpc_cnt' \in Nat
  BY <1>1, <1>2
<1>6. RpcTypes'
  BY <1>1, <1>4, <1>5 DEF RpcAll, RpcTypes
<1>7. RpcPlaces'
  <2>1. \A t \in RpcThreads : Queued(t)' = Queued(t)
    BY <1>1 DEF Queued
  <2>2. \A e \in RpcClients :
       rpc_magic'[e] # 0 <=> \/ e \in Elems(d) \/ e \in Elems(rpc_served) \/ rpc_run.conn = e
                            \/ \E t \in RpcThreads : e \in Queued(t)
    BY <1>3, <1>4, <1>5 DEF RpcAll, RpcPlaces
  <2> QED
    BY <1>1, <1>3, <1>4, <2>1, <2>2 DEF RpcAll, RpcPlaces
<1>8. RpcRunning' /\ RpcTaking' /\ RpcHolding'
  BY <1>1, TakingStays, HoldingStays DEF RpcAll, RpcHolding, RpcRunning
<1>9. RpcTalking'
  BY <1>1, <1>5, TalkingStays DEF RpcAll
<1> QED
  BY <1>6, <1>7, <1>8, <1>9 DEF RpcAll

\* A thread's queue grows by one connection, and its semaphore by one.
WithConns(q, s) == [q EXCEPT !.conns = s]

LEMMA ConnsField ==
  ASSUME NEW q \in RpcQueue, NEW s \in Seq(RpcClients)
  PROVE  /\ WithConns(q, s) \in RpcQueue /\ WithConns(q, s).conns = s
         /\ WithConns(q, s).gen = q.gen /\ WithConns(q, s).cap = q.cap
BY DEF WithConns, RpcQueue

\* A connection c that the run thread took is now in t's queue, which it may have grown.
LEMMA HandedOver ==
  ASSUME RpcAll, NEW t \in RpcThreads, NEW c \in RpcClients, NEW q \in RpcQueue,
         q.conns = Append(rpc_queue[t].conns, c), q.gen >= rpc_queue[t].gen,
         rpc_queue' = [rpc_queue EXCEPT ![t] = q],
         rpc_sem' = [rpc_sem EXCEPT ![t] = @ + 1],
         rpc_run' \in RpcRun, rpc_run'.pc = "loop", rpc_run'.conn = NoConn,
         rpc_cnt' \in Nat, rpc_dispatch' \in Seq(RpcClients), Distinct(rpc_dispatch'),
         \/ rpc_run.conn = c /\ rpc_dispatch' = rpc_dispatch
         \/ rpc_run.conn = NoConn /\ c \in Elems(rpc_dispatch) /\ Elems(rpc_dispatch') = Elems(rpc_dispatch) \ {c},
         UNCHANGED <<rpc_magic, rpc_thread, rpc_handle, rpc_conn, rpc_client, rpc_up, rpc_down,
                     rpc_served>>
  PROVE  RpcAll'
<1> DEFINE s == rpc_queue[t].conns
<1>1. /\ rpc_queue[t] \in RpcQueue /\ rpc_sem[t] \in Nat /\ rpc_thread[t] \in RpcThread
      /\ NoConn \notin RpcClients
  BY RpcAssumption DEF RpcAll, RpcTypes, NoConn
<1>2. s \in Seq(RpcClients) /\ rpc_queue[t].gen \in Nat /\ rpc_thread[t].gen \in Nat
  BY <1>1 DEF RpcQueue, RpcThread
<1>3. /\ c \notin Elems(rpc_served) /\ c \notin Elems(s) /\ Distinct(s)
      /\ \A u \in RpcThreads : c \notin Queued(u)
  BY DEF RpcAll, RpcPlaces, Queued
<1>4. /\ Len(q.conns) = Len(s) + 1 /\ q.conns # <<>> /\ Elems(q.conns) = Elems(s) \cup {c}
      /\ Distinct(q.conns) /\ (s # <<>> => Head(q.conns) = Head(s)) /\ Len(s) \in Nat
  <2>1. q.conns = Append(s, c)
    OBVIOUS
  <2> HIDE DEF s
  <2>2. /\ Len(Append(s, c)) = Len(s) + 1 /\ Append(s, c) # <<>>
        /\ Elems(Append(s, c)) = Elems(s) \cup {c}
        /\ Distinct(s) /\ c \notin Elems(s) => Distinct(Append(s, c))
        /\ s # <<>> => Head(Append(s, c)) = Head(s)
    BY <1>2, AppendElems
  <2>3. Len(s) \in Nat
    BY <1>2, LenProperties
  <2> QED
    BY <1>3, <2>1, <2>2, <2>3, Zenon
<1> HIDE DEF s
<1>5. /\ rpc_queue'[t] = q /\ \A u \in RpcThreads : u # t => rpc_queue'[u] = rpc_queue[u]
      /\ rpc_sem'[t] = rpc_sem[t] + 1 /\ \A u \in RpcThreads : u # t => rpc_sem'[u] = rpc_sem[u]
      /\ rpc_queue' \in [RpcThreads -> RpcQueue] /\ rpc_sem' \in [RpcThreads -> Nat]
  BY <1>1 DEF RpcAll, RpcTypes
<1>6. RpcTypes'
  BY <1>5 DEF RpcAll, RpcTypes
<1>7. /\ Queued(t)' = Queued(t) \cup {c}
      /\ \A u \in RpcThreads : u # t => Queued(u)' = Queued(u)
      /\ Distinct(rpc_queue'[t].conns)
      /\ \A u \in RpcThreads : u # t => Distinct(rpc_queue'[u].conns)
  BY <1>4, <1>5 DEF Queued, s, RpcAll, RpcPlaces
<1>8. /\ Elems(rpc_dispatch') = Elems(rpc_dispatch) \ {c}
      /\ NoConn \notin Elems(rpc_dispatch') /\ NoConn \notin Elems(rpc_served)
      /\ \A u \in RpcThreads : NoConn \notin Queued(u)'
  <2>1. Elems(rpc_dispatch') = Elems(rpc_dispatch) \ {c}
    BY DEF RpcAll, RpcPlaces
  <2>2. \A x \in Seq(RpcClients) : Elems(x) \subseteq RpcClients
    BY ElementOfSeq DEF Elems
  <2>3. rpc_served \in Seq(RpcClients) /\ \A u \in RpcThreads : rpc_queue'[u].conns \in Seq(RpcClients)
    BY <1>5 DEF RpcAll, RpcTypes, RpcQueue
  <2> QED
    BY <1>1, <2>1, <2>2, <2>3 DEF Queued
<1>9. RpcPlaces'
  <2>1. \A e \in RpcClients :
       rpc_magic[e] # 0 <=> \/ e \in Elems(rpc_dispatch') \/ e \in Elems(rpc_served) \/ NoConn = e
                            \/ \E u \in RpcThreads : e \in Queued(u)'
    <3> SUFFICES ASSUME NEW e \in RpcClients
                 PROVE  rpc_magic[e] # 0 <=> \/ e \in Elems(rpc_dispatch') \/ e \in Elems(rpc_served)
                                             \/ NoConn = e \/ \E u \in RpcThreads : e \in Queued(u)'
      OBVIOUS
    <3>1. rpc_magic[e] # 0 <=> \/ e \in Elems(rpc_dispatch) \/ e \in Elems(rpc_served)
                               \/ rpc_run.conn = e \/ \E u \in RpcThreads : e \in Queued(u)
      BY DEF RpcAll, RpcPlaces
    <3>2. NoConn # e
      BY <1>1
    <3>3. CASE e = c
      BY <1>7, <3>1, <3>3
    <3>4. CASE e # c
      BY <1>7, <1>8, <3>1, <3>2, <3>4
    <3> QED
      BY <3>3, <3>4
  <2>2. \A u \in RpcThreads : \A e \in Queued(u)' : e \notin Elems(rpc_dispatch') /\ e \notin Elems(rpc_served)
    BY <1>3, <1>7, <1>8 DEF RpcAll, RpcPlaces
  <2>3. \A u, v \in RpcThreads : \A e \in Queued(u)' : e \in Queued(v)' => u = v
    BY <1>3, <1>7 DEF RpcAll, RpcPlaces
  <2> QED
    BY <1>7, <1>8, <2>1, <2>2, <2>3 DEF RpcAll, RpcPlaces
<1>10. RpcRunning'
  BY DEF RpcAll, RpcRunning
<1>11. RpcTaking'
  <2> SUFFICES ASSUME NEW u \in RpcThreads
               PROVE  /\ rpc_thread[u].gen <= rpc_queue'[u].gen
                      /\ rpc_thread[u].pc = "advance" /\ rpc_thread[u].gen = rpc_queue'[u].gen =>
                           rpc_queue'[u].conns # <<>> /\ rpc_thread[u].conn = Head(rpc_queue'[u].conns)
                      /\ Len(rpc_queue'[u].conns)
                           = rpc_sem'[u] + (IF rpc_thread[u].pc \in {"take", "advance"} THEN 1 ELSE 0)
    BY DEF RpcTaking
  <2>1. /\ rpc_thread[u].gen <= rpc_queue[u].gen
        /\ rpc_thread[u].pc = "advance" /\ rpc_thread[u].gen = rpc_queue[u].gen =>
             rpc_queue[u].conns # <<>> /\ rpc_thread[u].conn = Head(rpc_queue[u].conns)
        /\ Len(rpc_queue[u].conns)
             = rpc_sem[u] + (IF rpc_thread[u].pc \in {"take", "advance"} THEN 1 ELSE 0)
    BY DEF RpcAll, RpcTaking
  <2>2. CASE u = t
    <3>1. q.gen \in Nat
      BY DEF RpcQueue
    <3>2. rpc_thread[t].gen <= q.gen
      BY <1>2, <2>1, <2>2, <3>1
    <3>3. ASSUME rpc_thread[t].pc = "advance", rpc_thread[t].gen = q.gen
          PROVE  rpc_thread[t].conn = Head(q.conns)
      <4>1. rpc_thread[t].gen = rpc_queue[t].gen
        BY <1>2, <2>1, <2>2, <3>1, <3>3
      <4> QED
        BY <1>4, <2>1, <2>2, <3>3, <4>1 DEF s
    <3>4. Len(q.conns) = rpc_sem'[t] + (IF rpc_thread[t].pc \in {"take", "advance"} THEN 1 ELSE 0)
      <4> DEFINE k == IF rpc_thread[t].pc \in {"take", "advance"} THEN 1 ELSE 0
      <4>1. Len(s) = rpc_sem[t] + k /\ k \in Nat
        BY <2>1, <2>2 DEF s
      <4> HIDE DEF k
      <4>2. Len(q.conns) = rpc_sem'[t] + k
        BY <1>1, <1>4, <1>5, <4>1
      <4> QED
        BY <4>2 DEF k
    <3> QED
      BY <1>4, <1>5, <2>2, <3>2, <3>3, <3>4
  <2>3. CASE u # t
    BY <1>5, <2>1, <2>3
  <2> QED
    BY <2>2, <2>3
<1>12. RpcHolding' /\ RpcTalking'
  BY HoldingStays, TalkingStays DEF RpcAll, RpcHolding
<1> QED
  BY <1>6, <1>9, <1>10, <1>11, <1>12 DEF RpcAll

LEMMA RunDispatchInv == ASSUME RpcAll, RunDispatch PROVE RpcAll'
<1> DEFINE t == DispatchTo
           c == Head(rpc_dispatch)
           d == Tail(rpc_dispatch)
<1>1. /\ rpc_run.pc = "loop" /\ rpc_dispatch # <<>> /\ rpc_dispatch' = d /\ rpc_cnt' = rpc_cnt + 1
      /\ UNCHANGED <<rpc_magic, rpc_thread, rpc_handle, rpc_conn, rpc_client, rpc_up, rpc_down,
                     rpc_served>>
  BY DEF RunDispatch, DispatchPop, clientVars
<1>2. /\ rpc_dispatch \in Seq(RpcClients) /\ rpc_cnt \in Nat /\ rpc_run \in RpcRun
      /\ Distinct(rpc_dispatch) /\ rpc_run.conn = NoConn /\ NoConn \notin RpcClients
  BY <1>1, RpcAssumption DEF RpcAll, RpcTypes, RpcPlaces, RpcRunning, NoConn
<1>3. t \in RpcThreads
  BY <1>2, RpcAssumption DEF DispatchTo, RpcThreads
<1>4. /\ c \in RpcClients /\ c \in Elems(rpc_dispatch) /\ d \in Seq(RpcClients) /\ Distinct(d)
      /\ Elems(d) = Elems(rpc_dispatch) \ {c}
  BY <1>1, <1>2, TailElems
<1>5. rpc_queue[t] \in RpcQueue /\ rpc_queue[t].conns \in Seq(RpcClients)
  BY <1>3 DEF RpcAll, RpcTypes, RpcQueue
<1>6. \/ /\ rpc_queue' = [rpc_queue EXCEPT ![t].conns = Append(@, c)]
         /\ rpc_sem' = [rpc_sem EXCEPT ![t] = @ + 1] /\ rpc_run' = rpc_run
      \/ /\ rpc_run' = [pc |-> "grow", conn |-> c, copy |-> rpc_queue[t].conns]
         /\ UNCHANGED <<rpc_queue, rpc_sem>>
  BY DEF RunDispatch, DispatchPop
<1> HIDE DEF c, d, t
<1>7. CASE /\ rpc_queue' = [rpc_queue EXCEPT ![t].conns = Append(@, c)]
           /\ rpc_sem' = [rpc_sem EXCEPT ![t] = @ + 1] /\ rpc_run' = rpc_run
  <2> DEFINE s == Append(rpc_queue[t].conns, c)
             q == WithConns(rpc_queue[t], s)
  <2>1. s \in Seq(RpcClients)
    BY <1>4, <1>5, AppendElems
  <2>2. rpc_queue' = [rpc_queue EXCEPT ![t] = q]
    BY <1>7 DEF WithConns
  <2> HIDE DEF s
  <2>3. q \in RpcQueue /\ q.conns = s /\ q.gen = rpc_queue[t].gen
    BY <1>5, <2>1, ConnsField
  <2> HIDE DEF q
  <2>4. rpc_queue[t].gen \in Nat
    BY <1>5 DEF RpcQueue
  <2>5. q.conns = Append(rpc_queue[t].conns, c) /\ q.gen >= rpc_queue[t].gen
    BY <2>3, <2>4 DEF s
  <2>6. rpc_run' \in RpcRun /\ rpc_run'.pc = "loop" /\ rpc_run'.conn = NoConn /\ rpc_cnt' \in Nat
    BY <1>1, <1>2, <1>7
  <2> QED
    BY <1>1, <1>2, <1>3, <1>4, <1>7, <2>2, <2>3, <2>5, <2>6, HandedOver
<1>8. CASE /\ rpc_run' = [pc |-> "grow", conn |-> c, copy |-> rpc_queue[t].conns]
           /\ UNCHANGED <<rpc_queue, rpc_sem>>
  <2>1. rpc_run' \in RpcRun /\ rpc_run'.conn = c /\ rpc_run'.pc = "grow"
    BY <1>4, <1>5, <1>8 DEF RpcRun
  <2>2. RpcTypes'
    BY <1>1, <1>2, <1>4, <1>8, <2>1 DEF RpcAll, RpcTypes
  <2>3. RpcPlaces'
    <3>1. \A u \in RpcThreads : Queued(u)' = Queued(u)
      BY <1>8 DEF Queued
    <3>2. /\ c \notin Elems(rpc_served) /\ c \notin Elems(d) /\ \A u \in RpcThreads : c \notin Queued(u)
      BY <1>4 DEF RpcAll, RpcPlaces
    <3>3. \A e \in RpcClients :
            rpc_magic[e] # 0 <=> \/ e \in Elems(d) \/ e \in Elems(rpc_served) \/ c = e
                                 \/ \E u \in RpcThreads : e \in Queued(u)
      BY <1>2, <1>4 DEF RpcAll, RpcPlaces
    <3>4. \A u \in RpcThreads : Distinct(rpc_queue'[u].conns)
      BY <1>8 DEF RpcAll, RpcPlaces
    <3> QED
      BY <1>1, <1>4, <2>1, <3>1, <3>2, <3>3, <3>4 DEF RpcAll, RpcPlaces
  <2>4. RpcRunning'
    BY <1>2, <1>4, <2>1 DEF RpcRunning
  <2>5. RpcTaking' /\ RpcHolding' /\ RpcTalking'
    BY <1>1, <1>8, TakingStays, HoldingStays, TalkingStays DEF RpcAll, RpcHolding
  <2> QED
    BY <2>2, <2>3, <2>4, <2>5 DEF RpcAll
<1> QED
  BY <1>6, <1>7, <1>8

LEMMA RunGrowInv == ASSUME RpcAll, RunGrow, rpc_raced' = {} PROVE RpcAll'
<1> DEFINE t == rpc_cnt % RpcThreadNum
           c == rpc_run.conn
           q == [conns |-> Append(rpc_run.copy, c), cap |-> rpc_queue[t].cap * 2,
                 gen |-> rpc_queue[t].gen + 1]
<1>1. /\ rpc_run.pc = "grow" /\ rpc_queue' = [rpc_queue EXCEPT ![t] = q]
      /\ rpc_sem' = [rpc_sem EXCEPT ![t] = @ + 1]
      /\ rpc_run' = [pc |-> "loop", conn |-> NoConn, copy |-> <<>>]
      /\ UNCHANGED <<rpc_cnt, rpc_dispatch, rpc_magic, rpc_thread, rpc_handle, rpc_conn, rpc_client,
                     rpc_up, rpc_down, rpc_served>>
  BY DEF RunGrow, clientVars
<1>2. rpc_queue[t].conns = rpc_run.copy
  BY DEF RunGrow
<1>3. /\ rpc_cnt \in Nat /\ rpc_run \in RpcRun /\ c # NoConn /\ rpc_dispatch \in Seq(RpcClients)
      /\ Distinct(rpc_dispatch)
  BY <1>1 DEF RpcAll, RpcTypes, RpcRunning, RpcPlaces
<1>4. t \in RpcThreads /\ c \in RpcClients
  BY <1>3, RpcAssumption DEF RpcThreads, RpcRun
<1>5. rpc_queue[t] \in RpcQueue
  BY <1>4 DEF RpcAll, RpcTypes
<1>6. rpc_queue[t].conns \in Seq(RpcClients) /\ rpc_queue[t].cap \in Nat /\ rpc_queue[t].gen \in Nat
  BY <1>5 DEF RpcQueue
<1> HIDE DEF t
<1>7. /\ q \in RpcQueue /\ q.conns = Append(rpc_queue[t].conns, c) /\ q.gen >= rpc_queue[t].gen
  <2>1. Append(rpc_run.copy, c) \in Seq(RpcClients)
    BY <1>2, <1>4, <1>6, AppendElems
  <2>2. rpc_queue[t].cap * 2 \in Nat /\ rpc_queue[t].gen + 1 \in Nat
    BY <1>6
  <2> QED
    BY <1>2, <1>6, <2>1, <2>2 DEF RpcQueue
<1> HIDE DEF q, c
<1>8. rpc_run' \in RpcRun /\ rpc_run'.pc = "loop" /\ rpc_run'.conn = NoConn
  <2>1. <<>> \in Seq(RpcClients)
    BY EmptySeq
  <2> QED
    BY <1>1, <2>1 DEF RpcRun
<1>9. rpc_run.conn = c /\ rpc_dispatch' = rpc_dispatch
  BY <1>1 DEF c
<1> QED
  BY <1>1, <1>3, <1>4, <1>7, <1>8, <1>9, HandedOver

----------------------------------------------------------------------------
(* A server thread.                                                        *)

\* A thread's step as the other threads see it.
LEMMA ThreadField ==
  ASSUME RpcAll, NEW t \in RpcThreads, NEW v \in RpcThread, rpc_thread' = [rpc_thread EXCEPT ![t] = v]
  PROVE  /\ rpc_thread' \in [RpcThreads -> RpcThread] /\ rpc_thread'[t] = v
         /\ \A u \in RpcThreads : u # t => rpc_thread'[u] = rpc_thread[u]
BY DEF RpcAll, RpcTypes

LEMMA ThreadNow ==
  ASSUME RpcAll, NEW t \in RpcThreads
  PROVE  /\ rpc_thread[t] \in RpcThread /\ rpc_thread[t].gen \in Nat
         /\ rpc_queue[t] \in RpcQueue /\ rpc_queue[t].conns \in Seq(RpcClients)
         /\ rpc_queue[t].gen \in Nat /\ Len(rpc_queue[t].conns) \in Nat /\ rpc_sem[t] \in Nat
<1>1. rpc_thread[t] \in RpcThread /\ rpc_queue[t] \in RpcQueue /\ rpc_sem[t] \in Nat
  BY DEF RpcAll, RpcTypes
<1>2. rpc_thread[t].gen \in Nat /\ rpc_queue[t].conns \in Seq(RpcClients) /\ rpc_queue[t].gen \in Nat
  BY <1>1 DEF RpcThread, RpcQueue
<1> QED
  BY <1>1, <1>2, LenProperties

LEMMA ThreadSemInv == ASSUME RpcAll, NEW t \in RpcThreads, ThreadSem(t) PROVE RpcAll'
<1> DEFINE v == [rpc_thread[t] EXCEPT !.pc = "take"]
<1>1. /\ rpc_thread[t].pc = "sem" /\ rpc_sem[t] > 0 /\ rpc_sem' = [rpc_sem EXCEPT ![t] = @ - 1]
      /\ rpc_thread' = [rpc_thread EXCEPT ![t] = v]
      /\ UNCHANGED <<rpc_run, rpc_cnt, rpc_dispatch, rpc_magic, rpc_queue, rpc_handle, rpc_conn,
                     rpc_client, rpc_up, rpc_down, rpc_served>>
  BY DEF ThreadSem, clientVars
<1>2. /\ v \in RpcThread /\ v.pc = "take" /\ v.conn = rpc_thread[t].conn /\ v.gen = rpc_thread[t].gen
  BY ThreadNow DEF RpcThread
<1> HIDE DEF v
<1>3. /\ rpc_thread' \in [RpcThreads -> RpcThread] /\ rpc_thread'[t] = v
      /\ \A u \in RpcThreads : u # t => rpc_thread'[u] = rpc_thread[u]
  BY <1>1, <1>2, ThreadField
<1>4. /\ rpc_sem' \in [RpcThreads -> Nat] /\ rpc_sem'[t] = rpc_sem[t] - 1
      /\ \A u \in RpcThreads : u # t => rpc_sem'[u] = rpc_sem[u]
  BY <1>1, ThreadNow DEF RpcAll, RpcTypes
<1>5. RpcTypes'
  BY <1>1, <1>3, <1>4 DEF RpcAll, RpcTypes
<1>6. RpcPlaces' /\ RpcRunning' /\ RpcTalking'
  BY <1>1, PlacesStay, TalkingStays DEF RpcAll, RpcRunning
<1>7. RpcTaking'
  <2> SUFFICES ASSUME NEW u \in RpcThreads
               PROVE  /\ rpc_thread'[u].gen <= rpc_queue[u].gen
                      /\ rpc_thread'[u].pc = "advance" /\ rpc_thread'[u].gen = rpc_queue[u].gen =>
                           rpc_queue[u].conns # <<>> /\ rpc_thread'[u].conn = Head(rpc_queue[u].conns)
                      /\ Len(rpc_queue[u].conns)
                           = rpc_sem'[u] + (IF rpc_thread'[u].pc \in {"take", "advance"} THEN 1 ELSE 0)
    BY <1>1 DEF RpcTaking
  <2>1. CASE u = t
    <3>1. /\ rpc_thread[t].gen <= rpc_queue[t].gen /\ Len(rpc_queue[t].conns) = rpc_sem[t] + 0
      BY <1>1 DEF RpcAll, RpcTaking
    <3>2. Len(rpc_queue[t].conns) = rpc_sem'[t] + 1
      BY <1>4, <3>1, ThreadNow
    <3> QED
      BY <1>2, <1>3, <2>1, <3>1, <3>2
  <2>2. CASE u # t
    BY <1>3, <1>4, <2>2 DEF RpcAll, RpcTaking
  <2> QED
    BY <2>1, <2>2
<1>8. RpcHolding'
  BY <1>1, <1>2, <1>3 DEF RpcAll, RpcHolding, Serving
<1> QED
  BY <1>5, <1>6, <1>7, <1>8 DEF RpcAll

LEMMA ThreadReadInv == ASSUME RpcAll, NEW t \in RpcThreads, ThreadRead(t) PROVE RpcAll'
<1> DEFINE v == [rpc_thread[t] EXCEPT !.pc = "advance", !.conn = Head(rpc_queue[t].conns),
                                      !.gen = rpc_queue[t].gen]
<1>1. /\ rpc_thread[t].pc = "take" /\ rpc_queue[t].conns # <<>>
      /\ rpc_thread' = [rpc_thread EXCEPT ![t] = v]
      /\ UNCHANGED <<rpc_run, rpc_cnt, rpc_dispatch, rpc_magic, rpc_queue, rpc_sem, rpc_handle,
                     rpc_conn, rpc_client, rpc_up, rpc_down, rpc_served>>
  BY DEF ThreadRead, clientVars
<1>2. Head(rpc_queue[t].conns) \in RpcClients
  BY <1>1, ThreadNow, TailElems
<1>3. /\ v \in RpcThread /\ v.pc = "advance" /\ v.conn = Head(rpc_queue[t].conns)
      /\ v.gen = rpc_queue[t].gen
  BY <1>2, ThreadNow DEF RpcThread
<1> HIDE DEF v
<1>4. /\ rpc_thread' \in [RpcThreads -> RpcThread] /\ rpc_thread'[t] = v
      /\ \A u \in RpcThreads : u # t => rpc_thread'[u] = rpc_thread[u]
  BY <1>1, <1>3, ThreadField
<1>5. RpcTypes'
  BY <1>1, <1>4 DEF RpcAll, RpcTypes
<1>6. RpcPlaces' /\ RpcRunning' /\ RpcTalking'
  BY <1>1, PlacesStay, TalkingStays DEF RpcAll, RpcRunning
<1>7. RpcTaking'
  <2> SUFFICES ASSUME NEW u \in RpcThreads
               PROVE  /\ rpc_thread'[u].gen <= rpc_queue[u].gen
                      /\ rpc_thread'[u].pc = "advance" /\ rpc_thread'[u].gen = rpc_queue[u].gen =>
                           rpc_queue[u].conns # <<>> /\ rpc_thread'[u].conn = Head(rpc_queue[u].conns)
                      /\ Len(rpc_queue[u].conns)
                           = rpc_sem[u] + (IF rpc_thread'[u].pc \in {"take", "advance"} THEN 1 ELSE 0)
    BY <1>1 DEF RpcTaking
  <2>1. CASE u = t
    <3>1. Len(rpc_queue[t].conns) = rpc_sem[t] + 1
      BY <1>1 DEF RpcAll, RpcTaking
    <3>2. rpc_queue[t].gen <= rpc_queue[t].gen
      BY ThreadNow
    <3> QED
      BY <1>1, <1>3, <1>4, <2>1, <3>1, <3>2
  <2>2. CASE u # t
    BY <1>4, <2>2 DEF RpcAll, RpcTaking
  <2> QED
    BY <2>1, <2>2
<1>8. RpcHolding'
  BY <1>1, <1>3, <1>4 DEF RpcAll, RpcHolding, Serving
<1> QED
  BY <1>5, <1>6, <1>7, <1>8 DEF RpcAll

\* The thread has taken its connection: that leaves the queue and is served.
LEMMA ThreadAdvanceInv ==
  ASSUME RpcAll, NEW t \in RpcThreads, ThreadAdvance(t), rpc_raced' = {}
  PROVE  RpcAll'
<1> DEFINE v == [rpc_thread[t] EXCEPT !.pc = "accept"]
           c == rpc_thread[t].conn
           s == rpc_queue[t].conns
           q == WithConns(rpc_queue[t], Tail(s))
<1>1. /\ rpc_thread[t].pc = "advance" /\ rpc_thread' = [rpc_thread EXCEPT ![t] = v]
      /\ rpc_served' = Append(rpc_served, c)
      /\ UNCHANGED <<rpc_run, rpc_cnt, rpc_dispatch, rpc_magic, rpc_sem, rpc_handle,
                     rpc_conn, rpc_client, rpc_up, rpc_down>>
  BY DEF ThreadAdvance, clientVars
<1>2. rpc_thread[t].gen = rpc_queue[t].gen /\ rpc_queue' = [rpc_queue EXCEPT ![t] = q]
  <2>1. rpc_thread[t].gen = rpc_queue[t].gen
    BY DEF ThreadAdvance
  <2> QED
    BY <2>1 DEF ThreadAdvance, WithConns
<1>3. /\ s # <<>> /\ c = Head(s) /\ s \in Seq(RpcClients) /\ Distinct(s) /\ Elems(s) = Queued(t)
      /\ rpc_queue[t] \in RpcQueue /\ rpc_queue[t].gen \in Nat /\ rpc_sem[t] \in Nat
  BY <1>1, <1>2, ThreadNow DEF RpcAll, RpcTaking, RpcPlaces, Queued
<1>4. v \in RpcThread /\ v.pc = "accept" /\ v.conn = c /\ v.gen = rpc_thread[t].gen
  BY ThreadNow DEF RpcThread
<1> HIDE DEF v, c, s
<1>5. /\ c \in RpcClients /\ c \in Elems(s) /\ Tail(s) \in Seq(RpcClients) /\ Len(Tail(s)) = Len(s) - 1
      /\ Len(s) \in Nat /\ Distinct(Tail(s)) /\ Elems(Tail(s)) = Elems(s) \ {c}
  BY <1>3, TailElems
<1>6. q \in RpcQueue /\ q.conns = Tail(s) /\ q.gen = rpc_queue[t].gen
  BY <1>3, <1>5, ConnsField
<1> HIDE DEF q
<1>7. /\ rpc_thread' \in [RpcThreads -> RpcThread] /\ rpc_thread'[t] = v
      /\ \A u \in RpcThreads : u # t => rpc_thread'[u] = rpc_thread[u]
  BY <1>1, <1>4, ThreadField
<1>8. /\ rpc_queue' \in [RpcThreads -> RpcQueue] /\ rpc_queue'[t] = q
      /\ \A u \in RpcThreads : u # t => rpc_queue'[u] = rpc_queue[u]
  BY <1>2, <1>6 DEF RpcAll, RpcTypes
<1>9. /\ c \notin Elems(rpc_served) /\ c \notin Elems(rpc_dispatch) /\ rpc_run.conn # c
      /\ \A u \in RpcThreads : u # t => c \notin Queued(u)
  BY <1>3, <1>5 DEF RpcAll, RpcPlaces
<1>10. /\ rpc_served' \in Seq(RpcClients) /\ Elems(rpc_served') = Elems(rpc_served) \cup {c}
       /\ Distinct(rpc_served')
  <2>1. rpc_served \in Seq(RpcClients) /\ Distinct(rpc_served)
    BY DEF RpcAll, RpcTypes, RpcPlaces
  <2> QED
    BY <1>1, <1>5, <1>9, <2>1, AppendElems
<1>11. RpcTypes'
  BY <1>1, <1>7, <1>8, <1>10 DEF RpcAll, RpcTypes
<1>12. RpcPlaces'
  <2>1. /\ Queued(t)' = Queued(t) \ {c} /\ Distinct(rpc_queue'[t].conns)
        /\ \A u \in RpcThreads : u # t => Queued(u)' = Queued(u) /\ Distinct(rpc_queue'[u].conns)
    BY <1>3, <1>5, <1>6, <1>8 DEF RpcAll, RpcPlaces, Queued
  <2>2. c \in Queued(t) /\ \A u \in RpcThreads : c \notin Queued(u)'
    BY <1>3, <1>5, <1>9, <2>1
  <2>3. \A e \in RpcClients :
          rpc_magic[e] # 0 <=> \/ e \in Elems(rpc_dispatch) \/ e \in Elems(rpc_served')
                               \/ rpc_run.conn = e \/ \E u \in RpcThreads : e \in Queued(u)'
    <3> SUFFICES ASSUME NEW e \in RpcClients
                 PROVE  rpc_magic[e] # 0 <=> \/ e \in Elems(rpc_dispatch) \/ e \in Elems(rpc_served')
                                             \/ rpc_run.conn = e \/ \E u \in RpcThreads : e \in Queued(u)'
      OBVIOUS
    <3>1. rpc_magic[e] # 0 <=> \/ e \in Elems(rpc_dispatch) \/ e \in Elems(rpc_served)
                               \/ rpc_run.conn = e \/ \E u \in RpcThreads : e \in Queued(u)
      BY DEF RpcAll, RpcPlaces
    <3>2. CASE e = c
      BY <1>10, <2>2, <3>1, <3>2
    <3>3. CASE e # c
      <4>1. \A u \in RpcThreads : e \in Queued(u)' <=> e \in Queued(u)
        BY <2>1, <3>3
      <4>2. e \in Elems(rpc_served') <=> e \in Elems(rpc_served)
        BY <1>10, <3>3
      <4> QED
        BY <3>1, <4>1, <4>2
    <3> QED
      BY <3>2, <3>3
  <2>4. \A u \in RpcThreads : Queued(u)' \subseteq Queued(u) /\ Distinct(rpc_queue'[u].conns)
    BY <2>1
  <2>5. /\ \A e \in Elems(rpc_dispatch) : e \notin Elems(rpc_served')
        /\ rpc_run.conn \notin Elems(rpc_served')
    BY <1>9, <1>10 DEF RpcAll, RpcPlaces
  <2>6. /\ \A u \in RpcThreads : \A e \in Queued(u)' : e \notin Elems(rpc_dispatch) /\ e \notin Elems(rpc_served')
        /\ \A u, w \in RpcThreads : \A e \in Queued(u)' : e \in Queued(w)' => u = w
        /\ \A u \in RpcThreads : rpc_run.conn \notin Queued(u)'
    BY <1>10, <2>2, <2>4 DEF RpcAll, RpcPlaces
  <2> QED
    BY <1>1, <1>10, <2>3, <2>4, <2>5, <2>6 DEF RpcAll, RpcPlaces
<1>13. RpcRunning' /\ RpcTalking'
  BY <1>1, TalkingStays DEF RpcAll, RpcRunning
<1>14. RpcTaking'
  <2> SUFFICES ASSUME NEW u \in RpcThreads
               PROVE  /\ rpc_thread'[u].gen <= rpc_queue'[u].gen
                      /\ rpc_thread'[u].pc = "advance" /\ rpc_thread'[u].gen = rpc_queue'[u].gen =>
                           rpc_queue'[u].conns # <<>> /\ rpc_thread'[u].conn = Head(rpc_queue'[u].conns)
                      /\ Len(rpc_queue'[u].conns)
                           = rpc_sem[u] + (IF rpc_thread'[u].pc \in {"take", "advance"} THEN 1 ELSE 0)
    BY <1>1 DEF RpcTaking
  <2>1. CASE u = t
    <3>1. Len(s) = rpc_sem[t] + 1
      BY <1>1 DEF RpcAll, RpcTaking, s
    <3>2. Len(Tail(s)) = rpc_sem[t] + 0
      BY <1>3, <1>5, <3>1
    <3>3. rpc_queue[t].gen <= rpc_queue[t].gen
      BY <1>3
    <3> QED
      BY <1>2, <1>4, <1>6, <1>7, <1>8, <2>1, <3>2, <3>3
  <2>2. CASE u # t
    BY <1>7, <1>8, <2>2 DEF RpcAll, RpcTaking
  <2> QED
    BY <2>1, <2>2
<1>15. RpcHolding'
  <2>2. \A u \in RpcThreads : rpc_thread'[u].pc \in Serving =>
          /\ rpc_thread'[u].conn \in Elems(rpc_served')
          /\ u # t => rpc_thread'[u].conn # c
    BY <1>4, <1>7, <1>9, <1>10 DEF RpcAll, RpcHolding
  <2>3. \A u, w \in RpcThreads :
          rpc_thread'[u].pc \in Serving /\ rpc_thread'[w].pc \in Serving
            /\ rpc_thread'[u].conn = rpc_thread'[w].conn => u = w
    <3> SUFFICES ASSUME NEW u \in RpcThreads, NEW w \in RpcThreads, rpc_thread'[u].pc \in Serving,
                        rpc_thread'[w].pc \in Serving, rpc_thread'[u].conn = rpc_thread'[w].conn
                 PROVE  u = w
      OBVIOUS
    <3>1. CASE u # t /\ w # t
      BY <1>7, <3>1 DEF RpcAll, RpcHolding
    <3>2. CASE u = t \/ w = t
      BY <1>4, <1>7, <2>2, <3>2
    <3> QED
      BY <3>1, <3>2
  <2>4. \A u \in RpcThreads : rpc_thread'[u].pc = "send" => rpc_up[rpc_thread'[u].conn] # <<>>
    BY <1>4, <1>7 DEF RpcAll, RpcHolding
  <2> QED
    BY <1>1, <2>2, <2>3, <2>4 DEF RpcHolding
<1> QED
  BY <1>11, <1>12, <1>13, <1>14, <1>15 DEF RpcAll

LEMMA ElemsIn == ASSUME NEW S, NEW s \in Seq(S), NEW x \in Elems(s) PROVE x \in S
BY ElementOfSeq DEF Elems

\* A thread that serves connection c goes on: only c's streams change.
LEMMA ServingMoves ==
  ASSUME RpcAll, NEW t \in RpcThreads, NEW v \in RpcThread, NEW c, c = rpc_thread[t].conn,
         rpc_thread[t].pc \in Serving, rpc_thread' = [rpc_thread EXCEPT ![t] = v],
         v.pc \in {"recv", "send", "sem"}, v.conn = c, v.gen = rpc_thread[t].gen,
         \A e \in RpcClients : e # c => rpc_up'[e] = rpc_up[e],
         v.pc = "send" => rpc_up'[c] # <<>>,
         rpc_up' \in [RpcClients -> Seq(Nat)], rpc_down' \in [RpcClients -> Seq(RpcAnswers)],
         UNCHANGED <<rpc_run, rpc_cnt, rpc_dispatch, rpc_magic, rpc_queue, rpc_sem, rpc_handle,
                     rpc_client, rpc_served>>
  PROVE  RpcTypes' /\ RpcPlaces' /\ RpcRunning' /\ RpcTaking' /\ RpcHolding'
<1>1. /\ rpc_thread' \in [RpcThreads -> RpcThread] /\ rpc_thread'[t] = v
      /\ \A u \in RpcThreads : u # t => rpc_thread'[u] = rpc_thread[u]
  BY ThreadField
<1>2. c \in Elems(rpc_served) /\ \A e \in Elems(rpc_served) : e \in RpcClients
  <2>1. rpc_served \in Seq(RpcClients)
    BY DEF RpcAll, RpcTypes
  <2>2. \A e \in Elems(rpc_served) : e \in RpcClients
    BY <2>1, ElemsIn
  <2>3. c \in Elems(rpc_served)
    BY DEF RpcAll, RpcHolding
  <2> QED
    BY <2>2, <2>3
<1>3. RpcTypes'
  BY <1>1 DEF RpcAll, RpcTypes
<1>4. RpcPlaces' /\ RpcRunning'
  BY PlacesStay DEF RpcAll, RpcRunning
<1>5. RpcTaking'
  BY <1>1 DEF RpcAll, RpcTaking, Serving
<1>6. RpcHolding'
  <2>1. \A u \in RpcThreads : u # t /\ rpc_thread[u].pc \in Serving =>
          rpc_thread[u].conn \in RpcClients /\ rpc_thread[u].conn # c
    BY <1>2 DEF RpcAll, RpcHolding
  <2>2. \A u \in RpcThreads : rpc_thread'[u].pc \in Serving =>
          rpc_thread'[u].conn \in Elems(rpc_served)
    <3> SUFFICES ASSUME NEW u \in RpcThreads, rpc_thread'[u].pc \in Serving
                 PROVE  rpc_thread'[u].conn \in Elems(rpc_served)
      OBVIOUS
    <3>1. CASE u = t
      BY <1>1, <1>2, <3>1
    <3>2. CASE u # t
      BY <1>1, <3>2 DEF RpcAll, RpcHolding
    <3> QED
      BY <3>1, <3>2
  <2>3. \A u, w \in RpcThreads :
          rpc_thread'[u].pc \in Serving /\ rpc_thread'[w].pc \in Serving
            /\ rpc_thread'[u].conn = rpc_thread'[w].conn => u = w
    <3> SUFFICES ASSUME NEW u \in RpcThreads, NEW w \in RpcThreads, rpc_thread'[u].pc \in Serving,
                        rpc_thread'[w].pc \in Serving, rpc_thread'[u].conn = rpc_thread'[w].conn
                 PROVE  u = w
      OBVIOUS
    <3>1. CASE u # t /\ w # t
      BY <1>1, <3>1 DEF RpcAll, RpcHolding
    <3>2. CASE u = t \/ w = t
      BY <1>1, <2>1, <3>2
    <3> QED
      BY <3>1, <3>2
  <2>4. \A u \in RpcThreads : rpc_thread'[u].pc = "send" => rpc_up'[rpc_thread'[u].conn] # <<>>
    <3> SUFFICES ASSUME NEW u \in RpcThreads, rpc_thread'[u].pc = "send"
                 PROVE  rpc_up'[rpc_thread'[u].conn] # <<>>
      OBVIOUS
    <3>1. CASE u = t
      BY <1>1, <3>1
    <3>2. CASE u # t
      BY <1>1, <2>1, <3>2 DEF RpcAll, RpcHolding, Serving
    <3> QED
      BY <3>1, <3>2
  <2> QED
    BY <2>2, <2>3, <2>4 DEF RpcHolding
<1> QED
  BY <1>3, <1>4, <1>5, <1>6

\* What is known of the connection a thread serves.
LEMMA ServedConn ==
  ASSUME RpcAll, NEW t \in RpcThreads, rpc_thread[t].pc \in Serving
  PROVE  /\ rpc_thread[t].conn \in RpcClients /\ rpc_magic[rpc_thread[t].conn] # 0
         /\ rpc_up \in [RpcClients -> Seq(Nat)] /\ rpc_down \in [RpcClients -> Seq(RpcAnswers)]
<1>1. rpc_served \in Seq(RpcClients) /\ rpc_up \in [RpcClients -> Seq(Nat)]
      /\ rpc_down \in [RpcClients -> Seq(RpcAnswers)]
  BY DEF RpcAll, RpcTypes
<1>2. rpc_thread[t].conn \in Elems(rpc_served)
  BY DEF RpcAll, RpcHolding
<1>3. rpc_thread[t].conn \in RpcClients
  BY <1>1, <1>2, ElementOfSeq DEF Elems
<1>4. rpc_magic[rpc_thread[t].conn] # 0
  BY <1>2, <1>3 DEF RpcAll, RpcPlaces
<1> QED
  BY <1>1, <1>2, <1>3, <1>4

LEMMA ThreadAcceptInv == ASSUME RpcAll, NEW t \in RpcThreads, ThreadAccept(t) PROVE RpcAll'
<1> DEFINE c == rpc_thread[t].conn
<1>1. /\ rpc_thread[t].pc = "accept"
      /\ UNCHANGED <<rpc_run, rpc_cnt, rpc_dispatch, rpc_magic, rpc_queue, rpc_sem, rpc_handle,
                     rpc_client, rpc_up, rpc_down, rpc_served>>
  BY DEF ThreadAccept, clientVars
<1>2. PICK pc \in ServerEndpoint : rpc_thread' = [rpc_thread EXCEPT ![t].pc = pc, ![t].served = 0]
  BY DEF ThreadAccept
<1> DEFINE v == [rpc_thread[t] EXCEPT !.pc = pc, !.served = 0]
<1>3. rpc_thread' = [rpc_thread EXCEPT ![t] = v]
  BY <1>2
<1>4. v \in RpcThread /\ v.pc \in {"recv", "sem"} /\ v.conn = c /\ v.gen = rpc_thread[t].gen
  BY ThreadNow DEF RpcThread, ServerEndpoint
<1>5. /\ c \in RpcClients
      /\ rpc_up \in [RpcClients -> Seq(Nat)] /\ rpc_down \in [RpcClients -> Seq(RpcAnswers)]
  BY <1>1, ServedConn DEF Serving
<1>6. c = rpc_thread[t].conn
  OBVIOUS
<1> HIDE DEF c, v
<1>8. RpcTypes' /\ RpcPlaces' /\ RpcRunning' /\ RpcTaking' /\ RpcHolding'
  BY <1>1, <1>3, <1>4, <1>5, <1>6, ServingMoves DEF Serving
<1>9. RpcTalking'
  BY <1>1, TalkingStays DEF RpcAll
<1> QED
  BY <1>8, <1>9 DEF RpcAll

LEMMA ThreadRecvInv == ASSUME RpcAll, NEW t \in RpcThreads, ThreadRecv(t) PROVE RpcAll'
<1> DEFINE c == rpc_thread[t].conn
           v == [rpc_thread[t] EXCEPT !.pc = "send"]
<1>1. /\ rpc_thread[t].pc = "recv" /\ rpc_up[c] # <<>>
      /\ rpc_thread' = [rpc_thread EXCEPT ![t] = v]
      /\ UNCHANGED <<rpc_run, rpc_cnt, rpc_dispatch, rpc_magic, rpc_queue, rpc_sem, rpc_handle,
                     rpc_client, rpc_up, rpc_down, rpc_served>>
  BY DEF ThreadRecv, clientVars
<1>4. v \in RpcThread /\ v.pc = "send" /\ v.conn = c /\ v.gen = rpc_thread[t].gen
  BY ThreadNow DEF RpcThread
<1>5. /\ c \in RpcClients
      /\ rpc_up \in [RpcClients -> Seq(Nat)] /\ rpc_down \in [RpcClients -> Seq(RpcAnswers)]
  BY <1>1, ServedConn DEF Serving
<1>6. c = rpc_thread[t].conn
  OBVIOUS
<1> HIDE DEF c, v
<1>8. RpcTypes' /\ RpcPlaces' /\ RpcRunning' /\ RpcTaking' /\ RpcHolding'
  BY <1>1, <1>4, <1>5, <1>6, ServingMoves DEF Serving
<1>9. RpcTalking'
  BY <1>1, TalkingStays DEF RpcAll
<1> QED
  BY <1>8, <1>9 DEF RpcAll

LEMMA ThreadRecvFailsInv == ASSUME RpcAll, NEW t \in RpcThreads, ThreadRecvFails(t) PROVE RpcAll'
<1> DEFINE c == rpc_thread[t].conn
           v == [rpc_thread[t] EXCEPT !.pc = "sem"]
<1>1. /\ rpc_thread[t].pc = "recv" /\ rpc_thread' = [rpc_thread EXCEPT ![t] = v]
      /\ UNCHANGED <<rpc_run, rpc_cnt, rpc_dispatch, rpc_magic, rpc_queue, rpc_sem, rpc_handle,
                     rpc_client, rpc_up, rpc_down, rpc_served>>
  BY DEF ThreadRecvFails, clientVars
<1>4. v \in RpcThread /\ v.pc = "sem" /\ v.conn = c /\ v.gen = rpc_thread[t].gen
  BY ThreadNow DEF RpcThread
<1>5. /\ c \in RpcClients
      /\ rpc_up \in [RpcClients -> Seq(Nat)] /\ rpc_down \in [RpcClients -> Seq(RpcAnswers)]
  BY <1>1, ServedConn DEF Serving
<1>6. c = rpc_thread[t].conn
  OBVIOUS
<1> HIDE DEF c, v
<1>8. RpcTypes' /\ RpcPlaces' /\ RpcRunning' /\ RpcTaking' /\ RpcHolding'
  BY <1>1, <1>4, <1>5, <1>6, ServingMoves DEF Serving
<1>9. RpcTalking'
  BY <1>1, TalkingStays DEF RpcAll
<1> QED
  BY <1>8, <1>9 DEF RpcAll

\* One client's talk moves on, the others' stay.
LEMMA OneTalks ==
  ASSUME RpcTalking, NEW c \in RpcClients, UNCHANGED <<rpc_handle, rpc_magic>>,
         \A e \in RpcClients : e # c => rpc_client'[e] = rpc_client[e] /\ rpc_up'[e] = rpc_up[e]
                                          /\ rpc_down'[e] = rpc_down[e],
         NEW r, NEW up, NEW down, rpc_client'[c] = r, rpc_up'[c] = up, rpc_down'[c] = down,
         Talks(r, up, down, rpc_magic[c])
  PROVE  RpcTalking'
<1> SUFFICES ASSUME NEW e \in RpcClients
             PROVE  Talks(rpc_client[e], rpc_up[e], rpc_down[e], rpc_magic[e])'
  BY DEF RpcTalking
<1>0. \A i : Answer(i)' = Answer(i)
  BY DEF Answer
<1>1. CASE e = c
  <2>1. /\ rpc_client'[e] = r /\ rpc_up'[e] = up /\ rpc_down'[e] = down
        /\ rpc_magic'[e] = rpc_magic[c] /\ rpc_handle' = rpc_handle
    BY <1>1
  <2>2. Talks(r, up, down, rpc_magic[c])
    OBVIOUS
  <2>3. Talks(rpc_client'[e], rpc_up'[e], rpc_down'[e], rpc_magic'[e])
    BY ONLY <2>1, <2>2
  <2> QED
    BY ONLY <1>0, <2>3 DEF Talks
<1>2. CASE e # c
  <2>1. Talks(rpc_client[e], rpc_up[e], rpc_down[e], rpc_magic[e])
    BY DEF RpcTalking
  <2>2. /\ rpc_client'[e] = rpc_client[e] /\ rpc_up'[e] = rpc_up[e] /\ rpc_down'[e] = rpc_down[e]
        /\ rpc_magic'[e] = rpc_magic[e] /\ rpc_handle' = rpc_handle
    BY <1>2
  <2>3. Talks(rpc_client'[e], rpc_up'[e], rpc_down'[e], rpc_magic'[e])
    BY ONLY <2>1, <2>2
  <2> QED
    BY ONLY <1>0, <2>3 DEF Talks
<1> QED
  BY <1>1, <1>2

\* What is known of a client.
LEMMA ClientNow ==
  ASSUME RpcAll, NEW c \in RpcClients
  PROVE  /\ rpc_client[c] \in RpcClient /\ rpc_client[c].got \in Seq(RpcAnswers)
         /\ rpc_client[c].sent \in Nat /\ rpc_up[c] \in Seq(Nat) /\ rpc_down[c] \in Seq(RpcAnswers)
         /\ Len(rpc_client[c].got) \in Nat /\ Len(rpc_up[c]) \in Nat /\ Len(rpc_down[c]) \in Nat
         /\ Talks(rpc_client[c], rpc_up[c], rpc_down[c], rpc_magic[c])
<1>1. /\ rpc_client[c] \in RpcClient /\ rpc_up[c] \in Seq(Nat) /\ rpc_down[c] \in Seq(RpcAnswers)
  BY DEF RpcAll, RpcTypes
<1>2. rpc_client[c].got \in Seq(RpcAnswers) /\ rpc_client[c].sent \in Nat
  BY <1>1 DEF RpcClient
<1>3. /\ Len(rpc_client[c].got) \in Nat /\ Len(rpc_up[c]) \in Nat /\ Len(rpc_down[c]) \in Nat
  BY <1>1, <1>2, LenProperties
<1>4. Talks(rpc_client[c], rpc_up[c], rpc_down[c], rpc_magic[c])
  BY DEF RpcAll, RpcTalking
<1> QED
  BY <1>1, <1>2, <1>3, <1>4

LEMMA AnswerType == ASSUME NEW m \in Nat PROVE Answer(m) \in RpcAnswers
BY DEF Answer, RpcAnswers

\* Where a thread is after a message: at the next one or at its semaphore.
LEMMA AfterThread ==
  ASSUME RpcAll, NEW t \in RpcThreads, AfterMessage(t)
  PROVE  \E v \in RpcThread :
           /\ rpc_thread' = [rpc_thread EXCEPT ![t] = v] /\ v.pc \in {"recv", "sem"}
           /\ v.conn = rpc_thread[t].conn /\ v.gen = rpc_thread[t].gen
<1> DEFINE w(p) == [rpc_thread[t] EXCEPT !.pc = p, !.served = @ + 1]
<1>0. rpc_thread[t] \in RpcThread /\ rpc_thread[t].served + 1 \in Nat
  <2>1. rpc_thread[t] \in RpcThread
    BY ThreadNow
  <2>2. rpc_thread[t].served \in Nat
    BY <2>1 DEF RpcThread
  <2> QED
    BY <2>1, <2>2
<1>1. /\ w("recv") \in RpcThread /\ w("recv").pc = "recv" /\ w("recv").conn = rpc_thread[t].conn
      /\ w("recv").gen = rpc_thread[t].gen
  BY <1>0 DEF RpcThread
<1>2. /\ w("sem") \in RpcThread /\ w("sem").pc = "sem" /\ w("sem").conn = rpc_thread[t].conn
      /\ w("sem").gen = rpc_thread[t].gen
  BY <1>0 DEF RpcThread
<1>3. \/ rpc_thread' = [rpc_thread EXCEPT ![t] = w("recv")]
      \/ rpc_thread' = [rpc_thread EXCEPT ![t] = w("sem")]
  BY DEF AfterMessage
<1> HIDE DEF w
<1> QED
  BY <1>1, <1>2, <1>3

\* The stream to the server after its message was answered or dropped.
LEMMA UpTail ==
  ASSUME RpcAll, NEW c \in RpcClients, rpc_up[c] # <<>>
  PROVE  /\ Tail(rpc_up[c]) \in Seq(Nat) /\ Len(Tail(rpc_up[c])) = 0 /\ Len(rpc_down[c]) = 0
         /\ Len(rpc_client[c].got) + 1 <= rpc_client[c].sent
         /\ Head(rpc_up[c]) = Len(rpc_client[c].got) + 1
<1>1. /\ Tail(rpc_up[c]) \in Seq(Nat) /\ Len(Tail(rpc_up[c])) = Len(rpc_up[c]) - 1
      /\ Len(rpc_up[c]) > 0 /\ Head(rpc_up[c]) = rpc_up[c][1]
  BY ClientNow, TailElems
<1> DEFINE a == Len(rpc_up[c])
           b == Len(rpc_down[c])
           n == Len(rpc_client[c].got)
<1>2. a + b <= 1 /\ n + a + b <= rpc_client[c].sent /\ (a = 1 => rpc_up[c][1] = n + 1)
  BY ClientNow DEF Talks
<1>3. a \in Nat /\ b \in Nat /\ n \in Nat /\ rpc_client[c].sent \in Nat /\ a > 0
  BY <1>1, ClientNow
<1> HIDE DEF a, b, n
<1>4. a = 1 /\ b = 0 /\ n + 1 <= rpc_client[c].sent
  BY <1>2, <1>3
<1> QED
  BY <1>1, <1>2, <1>4 DEF a, b, n

LEMMA ThreadSendInv == ASSUME RpcAll, NEW t \in RpcThreads, ThreadSend(t) PROVE RpcAll'
<1> DEFINE c == rpc_thread[t].conn
           up == Tail(rpc_up[c])
           m == Answer(Head(rpc_up[c]))
           down == Append(rpc_down[c], m)
<1>1. /\ rpc_thread[t].pc = "send" /\ rpc_up' = [rpc_up EXCEPT ![c] = up]
      /\ rpc_down' = [rpc_down EXCEPT ![c] = down] /\ AfterMessage(t)
      /\ UNCHANGED <<rpc_run, rpc_cnt, rpc_dispatch, rpc_magic, rpc_queue, rpc_sem, rpc_handle,
                     rpc_client, rpc_served>>
  BY DEF ThreadSend
<1>2. PICK v \in RpcThread :
        /\ rpc_thread' = [rpc_thread EXCEPT ![t] = v] /\ v.pc \in {"recv", "sem"}
        /\ v.conn = c /\ v.gen = rpc_thread[t].gen
  BY <1>1, AfterThread
<1>3. /\ c \in RpcClients /\ rpc_magic[c] # 0
      /\ rpc_up \in [RpcClients -> Seq(Nat)] /\ rpc_down \in [RpcClients -> Seq(RpcAnswers)]
  BY <1>1, ServedConn DEF Serving
<1>4. rpc_up[c] # <<>> /\ c = rpc_thread[t].conn
  BY <1>1 DEF RpcAll, RpcHolding
<1> DEFINE n == Len(rpc_client[c].got)
<1> HIDE DEF c
<1>5. /\ up \in Seq(Nat) /\ Len(up) = 0 /\ Len(rpc_down[c]) = 0 /\ n + 1 <= rpc_client[c].sent
      /\ Head(rpc_up[c]) = n + 1 /\ n \in Nat /\ rpc_client[c].sent \in Nat
  BY <1>3, <1>4, UpTail, ClientNow
<1>6. m = Answer(n + 1) /\ m \in RpcAnswers
  <2>1. n + 1 \in Nat
    BY <1>5
  <2> QED
    BY <1>5, <2>1, AnswerType
<1> HIDE DEF up, m
<1>7. down \in Seq(RpcAnswers) /\ Len(down) = 1 /\ down[1] = Answer(n + 1)
  <2>1. /\ down \in Seq(RpcAnswers) /\ Len(down) = Len(rpc_down[c]) + 1
        /\ down[Len(rpc_down[c]) + 1] = m
    <3>1. rpc_down[c] \in Seq(RpcAnswers)
      BY <1>3
    <3> QED
      BY ONLY <1>6, <3>1, AppendProperties
  <2>2. Len(rpc_down[c]) + 1 = 1
    BY ONLY <1>5
  <2> QED
    BY <1>6, <2>1, <2>2
<1> HIDE DEF down
<1>8. /\ rpc_up' \in [RpcClients -> Seq(Nat)] /\ rpc_down' \in [RpcClients -> Seq(RpcAnswers)]
      /\ rpc_up'[c] = up /\ rpc_down'[c] = down /\ rpc_client'[c] = rpc_client[c]
      /\ \A e \in RpcClients : e # c => rpc_up'[e] = rpc_up[e] /\ rpc_down'[e] = rpc_down[e]
                                          /\ rpc_client'[e] = rpc_client[e]
  BY <1>1, <1>3, <1>5, <1>7
<1>9. RpcTypes' /\ RpcPlaces' /\ RpcRunning' /\ RpcTaking' /\ RpcHolding'
  BY <1>1, <1>2, <1>3, <1>4, <1>8, ServingMoves DEF Serving
<1>10. Talks(rpc_client[c], up, down, rpc_magic[c])
  <2>1. Talks(rpc_client[c], rpc_up[c], rpc_down[c], rpc_magic[c])
    BY <1>3, ClientNow
  <2>2. /\ Len(up) + Len(down) <= 1 /\ n + Len(up) + Len(down) <= rpc_client[c].sent
        /\ ~(Len(up) = 1)
    BY <1>5, <1>7
  <2> QED
    BY <1>3, <1>7, <2>1, <2>2 DEF Talks, n
<1>11. RpcTalking'
  BY <1>1, <1>3, <1>8, <1>10, OneTalks DEF RpcAll
<1> QED
  BY <1>9, <1>11 DEF RpcAll

LEMMA ThreadSendFailsInv == ASSUME RpcAll, NEW t \in RpcThreads, ThreadSendFails(t) PROVE RpcAll'
<1> DEFINE c == rpc_thread[t].conn
           up == Tail(rpc_up[c])
<1>1. /\ rpc_thread[t].pc = "send" /\ rpc_up' = [rpc_up EXCEPT ![c] = up]
      /\ AfterMessage(t)
      /\ UNCHANGED <<rpc_run, rpc_cnt, rpc_dispatch, rpc_magic, rpc_queue, rpc_sem, rpc_handle,
                     rpc_client, rpc_down, rpc_served>>
  BY DEF ThreadSendFails
<1>2. PICK v \in RpcThread :
        /\ rpc_thread' = [rpc_thread EXCEPT ![t] = v] /\ v.pc \in {"recv", "sem"}
        /\ v.conn = c /\ v.gen = rpc_thread[t].gen
  BY <1>1, AfterThread
<1>3. /\ c \in RpcClients
      /\ rpc_up \in [RpcClients -> Seq(Nat)] /\ rpc_down \in [RpcClients -> Seq(RpcAnswers)]
  BY <1>1, ServedConn DEF Serving
<1>4. rpc_up[c] # <<>> /\ c = rpc_thread[t].conn
  BY <1>1 DEF RpcAll, RpcHolding
<1> DEFINE n == Len(rpc_client[c].got)
<1> HIDE DEF c
<1>5. /\ up \in Seq(Nat) /\ Len(up) = 0 /\ Len(rpc_down[c]) = 0 /\ n + 1 <= rpc_client[c].sent
      /\ n \in Nat /\ rpc_client[c].sent \in Nat
  BY <1>3, <1>4, UpTail, ClientNow
<1> HIDE DEF up
<1>6. /\ rpc_up' \in [RpcClients -> Seq(Nat)] /\ rpc_up'[c] = up /\ rpc_down'[c] = rpc_down[c]
      /\ rpc_client'[c] = rpc_client[c]
      /\ \A e \in RpcClients : e # c => rpc_up'[e] = rpc_up[e] /\ rpc_down'[e] = rpc_down[e]
                                          /\ rpc_client'[e] = rpc_client[e]
  BY <1>1, <1>3, <1>5
<1>7. RpcTypes' /\ RpcPlaces' /\ RpcRunning' /\ RpcTaking' /\ RpcHolding'
  BY <1>1, <1>2, <1>3, <1>4, <1>6, ServingMoves DEF Serving
<1>8. Talks(rpc_client[c], up, rpc_down[c], rpc_magic[c])
  <2>1. Talks(rpc_client[c], rpc_up[c], rpc_down[c], rpc_magic[c])
    BY <1>3, ClientNow
  <2>2. /\ Len(up) + Len(rpc_down[c]) <= 1 /\ n + Len(up) + Len(rpc_down[c]) <= rpc_client[c].sent
        /\ ~(Len(up) = 1)
    BY <1>5
  <2> QED
    BY <2>1, <2>2 DEF Talks, n
<1>9. RpcTalking'
  BY <1>1, <1>3, <1>6, <1>8, OneTalks DEF RpcAll
<1> QED
  BY <1>7, <1>9 DEF RpcAll

----------------------------------------------------------------------------
(* A client.                                                               *)

\* The server as a client's step leaves it.
LEMMA ServerStays ==
  ASSUME RpcAll, NEW c \in RpcClients, UNCHANGED serverVars, NEW r \in RpcClient,
         rpc_client' = [rpc_client EXCEPT ![c] = r],
         rpc_up' \in [RpcClients -> Seq(Nat)], rpc_down' \in [RpcClients -> Seq(RpcAnswers)],
         rpc_up[c] # <<>> => rpc_up'[c] # <<>>,
         \A e \in RpcClients : e # c => rpc_up'[e] = rpc_up[e] /\ rpc_down'[e] = rpc_down[e],
         Talks(r, rpc_up'[c], rpc_down'[c], rpc_magic[c])
  PROVE  RpcAll'
<1>1. UNCHANGED <<rpc_run, rpc_cnt, rpc_dispatch, rpc_magic, rpc_thread, rpc_queue, rpc_sem,
                  rpc_handle, rpc_conn, rpc_served>>
  BY DEF serverVars
<1>2. /\ rpc_client' \in [RpcClients -> RpcClient] /\ rpc_client'[c] = r
      /\ \A e \in RpcClients : e # c => rpc_client'[e] = rpc_client[e]
  BY DEF RpcAll, RpcTypes
<1>3. RpcTypes'
  BY <1>1, <1>2 DEF RpcAll, RpcTypes
<1>4. RpcPlaces' /\ RpcRunning' /\ RpcTaking'
  BY <1>1, PlacesStay, TakingStays DEF RpcAll, RpcRunning
<1>5. RpcHolding'
  <2>1. ASSUME NEW t \in RpcThreads, rpc_thread[t].pc = "send"
        PROVE  rpc_up'[rpc_thread[t].conn] # <<>>
    <3>1. rpc_thread[t].conn \in RpcClients
      BY <2>1, ServedConn DEF Serving
    <3>2. rpc_up[rpc_thread[t].conn] # <<>>
      BY <2>1 DEF RpcAll, RpcHolding
    <3>3. CASE rpc_thread[t].conn = c
      BY <3>2, <3>3
    <3>4. CASE rpc_thread[t].conn # c
      BY <3>1, <3>2, <3>4
    <3> QED
      BY <3>3, <3>4
  <2> QED
    BY <1>1, <2>1, HoldingStays DEF RpcAll
<1>6. RpcTalking'
  BY <1>1, <1>2, OneTalks DEF RpcAll
<1> QED
  BY <1>3, <1>4, <1>5, <1>6 DEF RpcAll

LEMMA ClientMovesInv ==
  ASSUME RpcAll, NEW c \in RpcClients, ClientInit(c) \/ ClientDeinit(c)
  PROVE  RpcAll'
<1>1. /\ \/ rpc_client[c].pc = "init"
            /\ \E pc \in {"send", "unconnected"} : rpc_client' = [rpc_client EXCEPT ![c].pc = pc]
         \/ rpc_client' = [rpc_client EXCEPT ![c].pc = "gone"]
      /\ UNCHANGED <<rpc_up, rpc_down>> /\ UNCHANGED serverVars
  BY DEF ClientInit, ClientDeinit, ClientEndpoint
<1>2. PICK pc \in {"send", "unconnected", "gone"} :
        /\ rpc_client' = [rpc_client EXCEPT ![c].pc = pc] 
        /\ pc # "gone" => rpc_client[c].pc = "init"
  BY <1>1
<1> DEFINE r == [rpc_client[c] EXCEPT !.pc = pc]
<1>3. rpc_client' = [rpc_client EXCEPT ![c] = r]
  BY <1>2
<1>4. /\ r \in RpcClient /\ r.pc = pc /\ r.got = rpc_client[c].got /\ r.sent = rpc_client[c].sent
  BY ClientNow DEF RpcClient
<1> HIDE DEF r
<1>5. /\ rpc_up' \in [RpcClients -> Seq(Nat)] /\ rpc_down' \in [RpcClients -> Seq(RpcAnswers)]
      /\ rpc_up' = rpc_up /\ rpc_down' = rpc_down
  BY <1>1 DEF RpcAll, RpcTypes
<1>6. Talks(r, rpc_up[c], rpc_down[c], rpc_magic[c])
  <2>1. Talks(rpc_client[c], rpc_up[c], rpc_down[c], rpc_magic[c])
    BY ClientNow
  <2> QED
    BY ONLY <1>2, <1>4, <2>1 DEF Talks
<1> QED
  BY <1>1, <1>3, <1>4, <1>5, <1>6, ServerStays

LEMMA ClientSendInv == ASSUME RpcAll, NEW c \in RpcClients, ClientSend(c) PROVE RpcAll'
<1> DEFINE n == Len(rpc_client[c].got)
           k == rpc_client[c].sent
           r == [rpc_client[c] EXCEPT !.pc = "recv", !.sent = k + 1]
           up == Append(rpc_up[c], k + 1)
<1>1. /\ rpc_client[c].pc = "send" /\ rpc_client' = [rpc_client EXCEPT ![c] = r]
      /\ rpc_up' = [rpc_up EXCEPT ![c] = up] /\ UNCHANGED rpc_down /\ UNCHANGED serverVars
  BY DEF ClientSend
<1>2. k \in Nat /\ k + 1 \in Nat /\ n \in Nat
  BY ClientNow
<1>3. r \in RpcClient /\ r.pc = "recv" /\ r.got = rpc_client[c].got /\ r.sent = k + 1
  BY <1>2, ClientNow DEF RpcClient
<1> HIDE DEF k, r
<1>4. Talks(rpc_client[c], rpc_up[c], rpc_down[c], rpc_magic[c])
  BY ClientNow
<1>5. n = k /\ Len(rpc_up[c]) = 0 /\ Len(rpc_down[c]) = 0
  <2>1. n = k /\ n + Len(rpc_up[c]) + Len(rpc_down[c]) <= k
    BY <1>1, <1>4 DEF Talks, k
  <2>2. Len(rpc_up[c]) \in Nat /\ Len(rpc_down[c]) \in Nat
    BY ClientNow
  <2> DEFINE x == Len(rpc_up[c])
             y == Len(rpc_down[c])
  <2>3. n \in Nat /\ x \in Nat /\ y \in Nat /\ n + x + y <= n
    BY <1>2, <2>1, <2>2
  <2> HIDE DEF n, x, y
  <2>4. x = 0 /\ y = 0
    BY ONLY <2>3
  <2> QED
    BY <2>1, <2>4 DEF x, y
<1>6. up \in Seq(Nat) /\ Len(up) = 1 /\ up[1] = k + 1 /\ up # <<>>
  <2>1. rpc_up[c] \in Seq(Nat)
    BY ClientNow
  <2>2. /\ up \in Seq(Nat) /\ Len(up) = Len(rpc_up[c]) + 1 /\ up[Len(rpc_up[c]) + 1] = k + 1
        /\ up # <<>>
    BY ONLY <1>2, <2>1, AppendProperties
  <2>3. Len(rpc_up[c]) + 1 = 1
    BY ONLY <1>5
  <2> QED
    BY ONLY <2>2, <2>3
<1> HIDE DEF up
<1>7. /\ rpc_up' \in [RpcClients -> Seq(Nat)] /\ rpc_down' \in [RpcClients -> Seq(RpcAnswers)]
      /\ rpc_up'[c] = up /\ rpc_down' = rpc_down /\ \A e \in RpcClients : e # c => rpc_up'[e] = rpc_up[e]
  BY <1>1, <1>6 DEF RpcAll, RpcTypes
<1>8. Talks(r, up, rpc_down[c], rpc_magic[c])
  <2>1. Len(r.got) = k
    BY <1>3, <1>5
  <2>2. Len(up) + Len(rpc_down[c]) <= 1 /\ k + Len(up) + Len(rpc_down[c]) <= k + 1
    BY ONLY <1>2, <1>5, <1>6
  <2>3. /\ \A i \in 1..k : r.got[i] = Answer(i)
        /\ rpc_magic[c] = 0 => k = 0 /\ Len(rpc_down[c]) = 0
    BY <1>3, <1>4, <1>5 DEF Talks
  <2>4. ~(Len(rpc_down[c]) = 1)
    BY ONLY <1>5
  <2> QED
    BY ONLY <1>3, <1>6, <2>1, <2>2, <2>3, <2>4 DEF Talks
<1> QED
  BY <1>1, <1>3, <1>6, <1>7, <1>8, ServerStays

LEMMA ClientRecvInv == ASSUME RpcAll, NEW c \in RpcClients, ClientRecv(c) PROVE RpcAll'
<1> DEFINE n == Len(rpc_client[c].got)
           k == rpc_client[c].sent
           a == Head(rpc_down[c])
           g == Append(rpc_client[c].got, a)
           r == [rpc_client[c] EXCEPT !.pc = "send", !.got = g]
           down == Tail(rpc_down[c])
<1>1. /\ rpc_client[c].pc = "recv" /\ rpc_down[c] # <<>> /\ rpc_client' = [rpc_client EXCEPT ![c] = r]
      /\ rpc_down' = [rpc_down EXCEPT ![c] = down] /\ UNCHANGED rpc_up /\ UNCHANGED serverVars
  BY DEF ClientRecv
<1>2. /\ k \in Nat /\ n \in Nat /\ Len(rpc_up[c]) \in Nat /\ Len(rpc_down[c]) \in Nat
      /\ Talks(rpc_client[c], rpc_up[c], rpc_down[c], rpc_magic[c])
  BY ClientNow
<1>3. /\ a \in RpcAnswers /\ down \in Seq(RpcAnswers) /\ Len(down) = Len(rpc_down[c]) - 1
      /\ Len(rpc_down[c]) > 0 /\ a = rpc_down[c][1]
  <2>1. rpc_down[c] \in Seq(RpcAnswers)
    BY ClientNow
  <2> QED
    BY <1>1, <2>1, TailElems
<1>4. /\ n + 1 = k /\ Len(rpc_up[c]) = 0 /\ Len(rpc_down[c]) = 1
  <2>1. n + 1 = k /\ Len(rpc_up[c]) + Len(rpc_down[c]) <= 1
    BY <1>1, <1>2 DEF Talks
  <2> DEFINE x == Len(rpc_up[c])
             y == Len(rpc_down[c])
  <2>2. x \in Nat /\ y \in Nat /\ y > 0 /\ x + y <= 1
    BY <1>2, <1>3, <2>1
  <2> HIDE DEF x, y
  <2>3. x = 0 /\ y = 1
    BY ONLY <2>2
  <2> QED
    BY <2>1, <2>3 DEF x, y
<1>5. a = Answer(n + 1) /\ Len(down) = 0
  <2>1. a = Answer(n + 1)
    BY <1>2, <1>3, <1>4 DEF Talks
  <2> QED
    BY <1>3, <1>4, <2>1
<1>6. /\ g \in Seq(RpcAnswers) /\ Len(g) = n + 1 /\ g[n + 1] = a
      /\ \A i \in 1..n : g[i] = rpc_client[c].got[i]
  <2>1. rpc_client[c].got \in Seq(RpcAnswers)
    BY ClientNow
  <2> QED
    BY ONLY <1>3, <2>1, AppendProperties
<1> HIDE DEF g, a, down
<1>7. r \in RpcClient /\ r.pc = "send" /\ r.got = g /\ r.sent = k
  BY <1>6, ClientNow DEF RpcClient
<1> HIDE DEF r
<1>8. /\ rpc_up' \in [RpcClients -> Seq(Nat)] /\ rpc_down' \in [RpcClients -> Seq(RpcAnswers)]
      /\ rpc_down'[c] = down /\ rpc_up' = rpc_up
      /\ \A e \in RpcClients : e # c => rpc_down'[e] = rpc_down[e]
  BY <1>1, <1>3 DEF RpcAll, RpcTypes
<1>9. Talks(r, rpc_up[c], down, rpc_magic[c])
  <2>1. Len(r.got) = n + 1
    BY <1>6, <1>7
  <2>2. Len(rpc_up[c]) + Len(down) <= 1 /\ n + 1 + Len(rpc_up[c]) + Len(down) <= k
    BY <1>2, <1>4, <1>5
  <2>3. \A i \in 1..(n + 1) : g[i] = Answer(i)
    <3>1. \A i \in 1..n : g[i] = Answer(i)
      BY <1>2, <1>6 DEF Talks
    <3>2. g[n + 1] = Answer(n + 1)
      BY <1>5, <1>6
    <3>3. \A i \in 1..(n + 1) : i \in 1..n \/ i = n + 1
      BY <1>2
    <3> QED
      BY <3>1, <3>2, <3>3
  <2>4. rpc_magic[c] # 0
    BY <1>2, <1>4 DEF Talks
  <2>5. ~(Len(rpc_up[c]) = 1) /\ ~(Len(down) = 1)
    BY <1>4, <1>5
  <2> HIDE DEF n, k
  <2> QED
    BY ONLY <1>4, <1>7, <2>1, <2>2, <2>3, <2>4, <2>5 DEF Talks
<1> QED
  BY <1>1, <1>7, <1>8, <1>9, ServerStays

----------------------------------------------------------------------------

LEMMA RpcStepInv == RpcInv /\ [RpcNext]_rpcVars => RpcInv'
<1> SUFFICES ASSUME RpcInv, [RpcNext]_rpcVars, rpc_raced' = {} PROVE RpcAll'
  BY DEF RpcInv
<1>1. CASE RpcNext
  <2>1. RpcAll
    BY <1>1 DEF RpcNext, RpcInv
  <2>2. CASE SetMsgHandle \/ RunPoll \/ RunWait \/ RunDispatch \/ RunGrow
    BY <2>1, <2>2, SetMsgHandleInv, RunPollInv, RunDispatchInv, RunGrowInv
  <2>3. ASSUME NEW c \in RpcClients,
               AcceptCb(c) \/ ClientInit(c) \/ ClientSend(c) \/ ClientRecv(c) \/ ClientDeinit(c)
        PROVE  RpcAll'
    BY <2>1, <2>3, AcceptCbInv, ClientMovesInv, ClientSendInv, ClientRecvInv
  <2>4. ASSUME NEW t \in RpcThreads,
               \/ ThreadSem(t) \/ ThreadRead(t) \/ ThreadAdvance(t) \/ ThreadAccept(t)
               \/ ThreadRecv(t) \/ ThreadSend(t) \/ ThreadRecvFails(t) \/ ThreadSendFails(t)
        PROVE  RpcAll'
    BY <2>1, <2>4, ThreadSemInv, ThreadReadInv, ThreadAdvanceInv, ThreadAcceptInv, ThreadRecvInv,
       ThreadSendInv, ThreadRecvFailsInv, ThreadSendFailsInv
  <2> QED
    BY <1>1, <2>2, <2>3, <2>4 DEF RpcNext
<1>2. CASE UNCHANGED rpcVars
  <2>1. UNCHANGED <<rpc_run, rpc_cnt, rpc_dispatch, rpc_magic, rpc_thread, rpc_queue, rpc_sem,
                    rpc_handle, rpc_conn, rpc_client, rpc_up, rpc_down, rpc_served, rpc_raced>>
    BY <1>2 DEF rpcVars
  <2>2. RpcAll
    BY <2>1 DEF RpcInv
  <2>3. RpcTypes' /\ RpcRunning'
    BY <2>1, <2>2 DEF RpcAll, RpcTypes, RpcRunning
  <2>4. RpcPlaces' /\ RpcTaking' /\ RpcHolding' /\ RpcTalking'
    BY <2>1, <2>2, PlacesStay, TakingStays, HoldingStays, TalkingStays DEF RpcAll, RpcHolding
  <2> QED
    BY <2>3, <2>4 DEF RpcAll
<1> QED
  BY <1>1, <1>2

\* Where a connection is in a sequence.
LEMMA InSeq ==
  ASSUME NEW s \in Seq(RpcClients), NEW c
  PROVE  /\ c \notin Elems(s) => In(s, c) = {}
         /\ c \in Elems(s) /\ Distinct(s) => \E i \in 1..Len(s) : In(s, c) = {i}
<1>1. DOMAIN s = 1..Len(s)
  BY LenProperties
<1>2. c \notin Elems(s) => In(s, c) = {}
  BY <1>1 DEF Elems, In
<1>3. ASSUME c \in Elems(s), Distinct(s) PROVE \E i \in 1..Len(s) : In(s, c) = {i}
  <2>1. PICK i \in 1..Len(s) : c = s[i]
    BY <1>3 DEF Elems
  <2>2. \A j \in 1..Len(s) : s[j] = c => j = i
    BY <1>3, <2>1 DEF Distinct
  <2>3. In(s, c) = {i}
    BY <1>1, <2>1, <2>2 DEF In
  <2> QED
    BY <2>3
<1> QED
  BY <1>2, <1>3

\* An accepted connection is in one place, one that was not is nowhere.
LEMMA OnePlace ==
  ASSUME RpcAll, NEW c \in RpcClients
  PROVE  Cardinality(Places(c)) = IF rpc_magic[c] = 0 THEN 0 ELSE 1
<1> DEFINE D == In(rpc_dispatch, c)
           S == In(rpc_served, c)
           Q(t) == In(rpc_queue[t].conns, c)
           H == In(<<rpc_run.conn>>, c)
<1>1. /\ rpc_dispatch \in Seq(RpcClients) /\ rpc_served \in Seq(RpcClients)
      /\ \A t \in RpcThreads : rpc_queue[t].conns \in Seq(RpcClients)
      /\ Distinct(rpc_dispatch) /\ Distinct(rpc_served)
      /\ \A t \in RpcThreads : Distinct(rpc_queue[t].conns)
  BY ThreadNow DEF RpcAll, RpcTypes, RpcPlaces
<1>2. /\ c \notin Elems(rpc_dispatch) => D = {}
      /\ c \in Elems(rpc_dispatch) => \E i : D = {i}
      /\ c \notin Elems(rpc_served) => S = {}
      /\ c \in Elems(rpc_served) => \E i : S = {i}
  BY <1>1, InSeq
<1>3. \A t \in RpcThreads : /\ c \notin Queued(t) => Q(t) = {}
                            /\ c \in Queued(t) => \E i : Q(t) = {i}
  BY <1>1, InSeq DEF Queued
<1>4. (rpc_run.conn = c => H = {1}) /\ (rpc_run.conn # c => H = {})
  BY DEF In
<1> HIDE DEF D, S, Q, H
<1>5. \A p : p \in Places(c) <=> \/ \E i \in D : p = <<"dispatch", 0, i>>
                                 \/ \E i \in S : p = <<"served", 0, i>>
                                 \/ \E t \in RpcThreads : \E i \in Q(t) : p = <<"queue", t, i>>
                                 \/ \E i \in H : p = <<"run", 0, i>>
  <2> SUFFICES ASSUME NEW p
               PROVE  p \in Places(c) <=> \/ \E i \in D : p = <<"dispatch", 0, i>>
                                          \/ \E i \in S : p = <<"served", 0, i>>
                                          \/ \E t \in RpcThreads : \E i \in Q(t) : p = <<"queue", t, i>>
                                          \/ \E i \in H : p = <<"run", 0, i>>
    OBVIOUS
  <2>1. p \in Places(c) <=> p \in InDispatch(c) \/ p \in InServed(c) \/ p \in InQueues(c) \/ p \in InHand(c)
    BY DEF Places
  <2>2. p \in InDispatch(c) <=> \E i \in D : p = <<"dispatch", 0, i>>
    BY DEF InDispatch, D
  <2>3. p \in InServed(c) <=> \E i \in S : p = <<"served", 0, i>>
    BY DEF InServed, S
  <2>4. p \in InQueues(c) <=> \E t \in RpcThreads : \E i \in Q(t) : p = <<"queue", t, i>>
    BY DEF InQueues, Q
  <2>5. p \in InHand(c) <=> \E i \in H : p = <<"run", 0, i>>
    BY DEF InHand, H
  <2> QED
    BY ONLY <2>1, <2>2, <2>3, <2>4, <2>5
<1>6. CASE rpc_magic[c] = 0
  <2>1. /\ c \notin Elems(rpc_dispatch) /\ c \notin Elems(rpc_served) /\ H = {}
        /\ \A t \in RpcThreads : c \notin Queued(t)
    BY <1>4, <1>6 DEF RpcAll, RpcPlaces
  <2>2. Places(c) = {}
    BY <1>2, <1>3, <1>5, <2>1
  <2> QED
    BY <1>6, <2>2, FS_EmptySet
<1>7. CASE rpc_magic[c] # 0
  <2>1. \/ c \in Elems(rpc_dispatch) \/ c \in Elems(rpc_served) \/ H # {}
        \/ \E t \in RpcThreads : c \in Queued(t)
    BY <1>4, <1>7 DEF RpcAll, RpcPlaces
  <2>2. ASSUME c \in Elems(rpc_dispatch) PROVE \E p : Places(c) = {p}
    <3>1. c \notin Elems(rpc_served) /\ H = {} /\ \A t \in RpcThreads : c \notin Queued(t)
      BY <1>4, <2>2 DEF RpcAll, RpcPlaces
    <3>2. PICK i : D = {i}
      BY <1>2, <2>2
    <3>3. Places(c) = {<<"dispatch", 0, i>>}
      BY <1>2, <1>3, <1>5, <3>1, <3>2
    <3> QED
      BY <3>3
  <2>3. ASSUME c \in Elems(rpc_served) PROVE \E p : Places(c) = {p}
    <3>1. c \notin Elems(rpc_dispatch) /\ H = {} /\ \A t \in RpcThreads : c \notin Queued(t)
      BY <1>4, <2>3 DEF RpcAll, RpcPlaces
    <3>2. PICK i : S = {i}
      BY <1>2, <2>3
    <3>3. Places(c) = {<<"served", 0, i>>}
      BY <1>2, <1>3, <1>5, <3>1, <3>2
    <3> QED
      BY <3>3
  <2>4. ASSUME H # {} PROVE \E p : Places(c) = {p}
    <3>1. /\ c \notin Elems(rpc_dispatch) /\ c \notin Elems(rpc_served)
          /\ \A t \in RpcThreads : c \notin Queued(t)
      BY <1>4, <2>4 DEF RpcAll, RpcPlaces
    <3>2. H = {1}
      BY <1>4, <2>4
    <3>3. Places(c) = {<<"run", 0, 1>>}
      BY <1>2, <1>3, <1>5, <3>1, <3>2
    <3> QED
      BY <3>3
  <2>5. ASSUME NEW t \in RpcThreads, c \in Queued(t) PROVE \E p : Places(c) = {p}
    <3>1. /\ c \notin Elems(rpc_dispatch) /\ c \notin Elems(rpc_served) /\ H = {}
          /\ \A u \in RpcThreads : u # t => c \notin Queued(u)
      BY <1>4, <2>5 DEF RpcAll, RpcPlaces
    <3>2. PICK i : Q(t) = {i}
      BY <1>3, <2>5
    <3>3. \A u \in RpcThreads : u # t => Q(u) = {}
      BY <1>3, <3>1
    <3>4. Places(c) = {<<"queue", t, i>>}
      BY <1>2, <1>5, <3>1, <3>2, <3>3
    <3> QED
      BY <3>4
  <2>6. PICK p : Places(c) = {p}
    BY <2>1, <2>2, <2>3, <2>4, <2>5
  <2> QED
    BY <1>7, <2>6, FS_Singleton
<1> QED
  BY <1>6, <1>7

\* The answers a client has and those on their way.
LEMMA AnswersSoFar ==
  ASSUME RpcAll, NEW c \in RpcClients
  PROVE  LET all == rpc_client[c].got \o rpc_down[c] IN
           /\ Len(all) <= rpc_client[c].sent
           /\ \A i \in DOMAIN all : all[i] = Answer(i)
<1> DEFINE g == rpc_client[c].got
           d == rpc_down[c]
           all == g \o d
           k == rpc_client[c].sent
<1>1. /\ g \in Seq(RpcAnswers) /\ d \in Seq(RpcAnswers) /\ k \in Nat /\ Len(g) \in Nat /\ Len(d) \in Nat
      /\ Len(rpc_up[c]) \in Nat
  BY ClientNow
<1>2. /\ Len(rpc_up[c]) + Len(d) <= 1 /\ Len(g) + Len(rpc_up[c]) + Len(d) <= k
      /\ Len(d) = 1 => d[1] = Answer(Len(g) + 1)
      /\ \A i \in 1..Len(g) : g[i] = Answer(i)
  <2>1. Talks(rpc_client[c], rpc_up[c], rpc_down[c], rpc_magic[c])
    BY ClientNow
  <2> QED
    BY <2>1 DEF Talks
<1> HIDE DEF g, d, k
<1>3. /\ all \in Seq(RpcAnswers) /\ Len(all) = Len(g) + Len(d)
      /\ \A i \in 1..Len(all) : all[i] = IF i <= Len(g) THEN g[i] ELSE d[i - Len(g)]
  BY <1>1, ConcatProperties
<1>4. DOMAIN all = 1..Len(all)
  BY <1>3, LenProperties
<1> HIDE DEF all
<1>5. Len(all) <= k
  BY <1>1, <1>2, <1>3
<1>6. ASSUME NEW i \in 1..Len(all) PROVE all[i] = Answer(i)
  <2>1. CASE i <= Len(g)
    <3>1. i \in 1..Len(g) /\ all[i] = g[i]
      BY <1>1, <1>3, <2>1
    <3> QED
      BY <1>2, <3>1
  <2>2. CASE ~(i <= Len(g))
    <3>1. Len(d) = 1 /\ i = Len(g) + 1 /\ i - Len(g) = 1
      <4> DEFINE x == Len(g)
                 y == Len(d)
                 z == Len(rpc_up[c])
      <4>1. /\ x \in Nat /\ y \in Nat /\ z \in Nat /\ z + y <= 1 /\ i \in 1..(x + y)
            /\ ~(i <= x)
        BY <1>1, <1>2, <1>3, <2>2
      <4> HIDE DEF x, y, z
      <4>2. y = 1 /\ i = x + 1 /\ i - x = 1
        BY ONLY <4>1
      <4> QED
        BY <4>2 DEF x, y
    <3>2. all[i] = d[i - Len(g)]
      BY <1>3, <2>2
    <3> QED
      BY <1>2, <3>1, <3>2
  <2> QED
    BY <2>1, <2>2
<1> QED
  BY <1>4, <1>5, <1>6 DEF all, g, d, k

LEMMA RpcInvServes == RpcInv => RpcServes
<1> SUFFICES ASSUME RpcInv PROVE RpcServes
  OBVIOUS
<1>1. DispatchedOnce
  <2> SUFFICES ASSUME RpcAll
               PROVE  /\ \A c \in RpcClients : Cardinality(Places(c)) = IF rpc_magic[c] = 0 THEN 0 ELSE 1
                      /\ \A t \in RpcThreads :
                           Len(rpc_queue[t].conns)
                             = rpc_sem[t] + (IF rpc_thread[t].pc \in {"take", "advance"} THEN 1 ELSE 0)
    BY DEF DispatchedOnce, RpcInv
  <2>1. \A c \in RpcClients : Cardinality(Places(c)) = IF rpc_magic[c] = 0 THEN 0 ELSE 1
    BY OnePlace
  <2> QED
    BY <2>1 DEF RpcAll, RpcTaking
<1>2. AnswersInOrder
  <2> SUFFICES ASSUME RpcAll
               PROVE  \A c \in RpcClients : LET all == rpc_client[c].got \o rpc_down[c] IN
                        /\ Len(all) <= rpc_client[c].sent
                        /\ \A i \in DOMAIN all : all[i] = Answer(i)
    BY DEF AnswersInOrder, RpcInv
  <2> QED
    BY AnswersSoFar
<1> QED
  BY <1>1, <1>2 DEF RpcServes

\* Whatever the number of clients, threads and messages and the capacity of the queues:
\* a connection that rpc_server_accept_cb accepted waits, is handed over or is served in one
\* place, once; every semaphore counts its queue; and a client's answers are those to its messages,
\* in their order, up to a thread's use of memory that the growth of its queue or the error
\* callback of its connection has freed.
THEOREM ConnectionsServedOnce == RpcSpec => []RpcServes
<1>1. RpcInit => RpcInv
  BY RpcInitInv
<1>2. RpcInv /\ [RpcNext]_rpcVars => RpcInv'
  BY RpcStepInv
<1>3. RpcInv => RpcServes
  BY RpcInvServes
<1> QED
  BY <1>1, <1>2, <1>3, PTL DEF RpcSpec
=============================================================================
