----------------------------- MODULE ThreadPool -----------------------------
(***************************************************************************)
(* The thread pool (util/thread_pool.c) that runs the background work of a *)
(* database.  A critical section of pool->mutex is one step; the two       *)
(* conditions are the sets of threads that wait on them.  On POSIX a       *)
(* waiter may wake without a signal.  On Windows pool->worker is what      *)
(* util/port_win_impl.h makes of two events and a count of waiters, step   *)
(* by step: two signals sent before a waiter runs are one, and a signal    *)
(* to a waiter that has already left stays for the next one.               *)
(*                                                                         *)
(* The clients schedule jobs and a job may schedule the next one, as       *)
(* ldb_background_call does.  One thread, the master, waits for the pool   *)
(* and destroys it.                                                        *)
(***************************************************************************)
EXTENDS Integers, Sequences, FiniteSets

CONSTANTS PoolWorkers,    \* the threads of the pool
          PoolMaxJobs     \* bound: jobs scheduled

ASSUME PoolAssumption == IsFiniteSet(PoolWorkers) /\ PoolWorkers # {} /\ PoolMaxJobs \in Nat

VARIABLES pool_port,      \* "posix" or "win"; "none" before the choice
          pool_signal,    \* Windows: the auto-reset event cond->signal of pool->worker
          pool_broadcast, \* Windows: the manual-reset event cond->broadcast
          pool_queue,     \* pool->queue, jobs numbered as they are scheduled
          pool_running,   \* pool->running
          pool_left,      \* pool->left
          pool_stop,      \* pool->stop
          pool_worker,    \* each worker: where it is, its job, and whether it ran one
          pool_master,    \* where the master is
          pool_jobs,      \* jobs scheduled so far
          pool_done       \* jobs executed, in the order they began

poolEvents == <<pool_signal, pool_broadcast>>
poolVars == <<pool_port, poolEvents, pool_queue, pool_running, pool_left, pool_stop, pool_worker,
              pool_master, pool_jobs, pool_done>>

\* ldb_pool_create: no thread runs yet.
PoolInit ==
  /\ pool_port = "none" /\ pool_signal = FALSE /\ pool_broadcast = FALSE
  /\ pool_queue = <<>>
  /\ pool_running = 0 /\ pool_left = 0 /\ pool_stop = FALSE
  /\ pool_worker = [w \in PoolWorkers |-> [pc |-> "none", job |-> 0, ran |-> FALSE]]
  /\ pool_master = "idle"
  /\ pool_jobs = 0
  /\ pool_done = <<>>

PoolChoose(port) ==
  /\ pool_port = "none" /\ pool_port' = port
  /\ UNCHANGED <<poolEvents, pool_queue, pool_running, pool_left, pool_stop, pool_worker,
                 pool_master, pool_jobs, pool_done>>

\* Workers that wait on pool->worker, in a map of the workers.
Sleeping(ws) == {w \in PoolWorkers : ws[w].pc = "wait"}

\* cond->waiters: those that wait, and those that have left and not said so yet.
WinWaiters(ws) == {w \in PoolWorkers : ws[w].pc \in {"wait", "signalled", "broadcasted"}}

\* ldb_cond_signal on pool->worker, in worker states.
SignalWorker(ws) ==
  \/ /\ pool_port = "posix"
     /\ IF Sleeping(ws) = {} THEN pool_worker' = ws
        ELSE \E w \in Sleeping(ws) : pool_worker' = [ws EXCEPT ![w].pc = "woken"]
     /\ UNCHANGED pool_signal
  \/ /\ pool_port = "win"
     /\ pool_signal' = (pool_signal \/ WinWaiters(ws) # {})
     /\ pool_worker' = ws

\* ldb_cond_broadcast on it.
BroadcastWorker(ws) ==
  \/ /\ pool_port = "posix"
     /\ pool_worker' = [w \in PoolWorkers |->
                          IF w \in Sleeping(ws) THEN [ws[w] EXCEPT !.pc = "woken"] ELSE ws[w]]
     /\ UNCHANGED pool_broadcast
  \/ /\ pool_port = "win"
     /\ pool_broadcast' = (pool_broadcast \/ WinWaiters(ws) # {})
     /\ pool_worker' = ws

\* ldb_cond_signal on pool->master.
SignalMaster(m) ==
  CASE m = "waiting"     -> "wait_woken"
    [] m = "destroying"  -> "destroy_woken"
    [] OTHER             -> m

\* ldb_pool_schedule: the first job starts the threads; ws are the worker states.
Schedule(ws) ==
  LET started == IF pool_running = 0
                 THEN [w \in PoolWorkers |-> [pc |-> "lock", job |-> 0, ran |-> FALSE]]
                 ELSE ws
  IN /\ pool_running' = IF pool_running = 0 THEN Cardinality(PoolWorkers) ELSE pool_running
     /\ pool_queue' = Append(pool_queue, pool_jobs + 1)
     /\ pool_jobs' = pool_jobs + 1
     /\ pool_left' = pool_left + 1
     /\ SignalWorker(started)

\* A client schedules a job; nobody does once the pool is being destroyed.
PoolSchedule ==
  /\ pool_port # "none" /\ pool_jobs < PoolMaxJobs
  /\ ~pool_stop /\ pool_master \in {"idle", "waiting", "wait_woken"}
  /\ Schedule(pool_worker)
  /\ UNCHANGED <<pool_port, pool_broadcast, pool_stop, pool_master, pool_done>>

----------------------------------------------------------------------------
(* worker_thread *)

\* The loop on the queue: wait, leave, or take the first job.  left and master are
\* what the section has made of them so far.
WorkerLoop(w, master) ==
  \/ /\ ~pool_stop /\ pool_queue = <<>>
     /\ pool_worker' = [pool_worker EXCEPT ![w].pc = "wait"]
     /\ pool_master' = master
     /\ UNCHANGED <<pool_queue, pool_running, pool_done>>
  \/ /\ pool_stop
     /\ pool_running' = pool_running - 1
     /\ pool_master' = IF pool_running = 1 THEN SignalMaster(master) ELSE master
     /\ pool_worker' = [pool_worker EXCEPT ![w].pc = "exited"]
     /\ UNCHANGED <<pool_queue, pool_done>>
  \/ /\ ~pool_stop /\ pool_queue # <<>>
     /\ pool_queue' = Tail(pool_queue)
     /\ pool_done' = Append(pool_done, Head(pool_queue))
     /\ pool_worker' = [pool_worker EXCEPT ![w] = [pc |-> "exec", job |-> Head(pool_queue),
                                                   ran |-> TRUE]]
     /\ pool_master' = master
     /\ UNCHANGED pool_running

\* The top of the loop: a finished job is counted, and the last one wakes the master.
WorkerLock(w) ==
  /\ pool_worker[w].pc = "lock"
  /\ pool_left' = IF pool_worker[w].ran THEN pool_left - 1 ELSE pool_left
  /\ WorkerLoop(w, IF pool_worker[w].ran /\ ~pool_stop /\ pool_left = 1
                   THEN SignalMaster(pool_master) ELSE pool_master)
  /\ UNCHANGED <<pool_port, poolEvents, pool_stop, pool_jobs>>

\* Back from ldb_cond_wait.
WorkerWoken(w) ==
  /\ pool_worker[w].pc = "woken"
  /\ WorkerLoop(w, pool_master)
  /\ UNCHANGED <<pool_port, poolEvents, pool_left, pool_stop, pool_jobs>>

\* ldb_work_execute, with the mutex free; the job may schedule another.
WorkExecute(w) ==
  /\ pool_worker[w].pc = "exec"
  /\ LET ws == [pool_worker EXCEPT ![w].pc = "lock", ![w].job = 0]
     IN \/ /\ pool_worker' = ws
           /\ UNCHANGED <<pool_signal, pool_queue, pool_running, pool_left, pool_jobs>>
        \/ pool_jobs < PoolMaxJobs /\ Schedule(ws)
  /\ UNCHANGED <<pool_port, pool_broadcast, pool_stop, pool_master, pool_done>>

\* A POSIX condition may return without a signal.
SpuriousWakeup(w) ==
  /\ pool_port = "posix" /\ pool_worker[w].pc = "wait"
  /\ pool_worker' = [pool_worker EXCEPT ![w].pc = "woken"]
  /\ UNCHANGED <<pool_port, poolEvents, pool_queue, pool_running, pool_left, pool_stop,
                 pool_master, pool_jobs, pool_done>>

\* ldb_cond_wait of Windows: WaitForMultipleObjects returns with the first event that
\* is set and takes the signal ...
WinWake(w) ==
  /\ pool_port = "win" /\ pool_worker[w].pc = "wait" /\ (pool_signal \/ pool_broadcast)
  /\ pool_signal' = FALSE
  /\ pool_worker' = [pool_worker EXCEPT ![w].pc = IF pool_signal THEN "signalled"
                                                                ELSE "broadcasted"]
  /\ UNCHANGED <<pool_port, pool_broadcast, pool_queue, pool_running, pool_left, pool_stop,
                 pool_master, pool_jobs, pool_done>>

\* ... the waiter counts itself out ...
WinLeave(w) ==
  /\ pool_worker[w].pc \in {"signalled", "broadcasted"}
  /\ LET last == pool_worker[w].pc = "broadcasted" /\ WinWaiters(pool_worker) = {w}
     IN pool_worker' = [pool_worker EXCEPT ![w].pc = IF last THEN "last" ELSE "woken"]
  /\ UNCHANGED <<pool_port, poolEvents, pool_queue, pool_running, pool_left, pool_stop,
                 pool_master, pool_jobs, pool_done>>

\* ... and the last one of a broadcast ends it, before it takes the mutex again.
WinReset(w) ==
  /\ pool_worker[w].pc = "last"
  /\ pool_broadcast' = FALSE
  /\ pool_worker' = [pool_worker EXCEPT ![w].pc = "woken"]
  /\ UNCHANGED <<pool_port, pool_signal, pool_queue, pool_running, pool_left, pool_stop,
                 pool_master, pool_jobs, pool_done>>

----------------------------------------------------------------------------
(* The master *)

\* ldb_pool_wait, entered or after a wakeup.
PoolWait ==
  /\ pool_master \in {"idle", "wait_woken"}
  /\ pool_master' = IF pool_left > 0 THEN "waiting" ELSE "idle"
  /\ UNCHANGED <<pool_port, poolEvents, pool_queue, pool_running, pool_left, pool_stop, pool_worker, pool_jobs,
                 pool_done>>

\* pool->master may return without a signal too, or with one meant for an earlier wait.
MasterSpurious ==
  /\ pool_master \in {"waiting", "destroying"}
  /\ pool_master' = SignalMaster(pool_master)
  /\ UNCHANGED <<pool_port, poolEvents, pool_queue, pool_running, pool_left, pool_stop,
                 pool_worker, pool_jobs, pool_done>>

\* Mutant: only one worker is woken.
PoolDestroyMutant ==
  /\ pool_port # "none" /\ pool_master = "idle"
  /\ pool_queue' = <<>>
  /\ pool_stop' = TRUE
  /\ SignalWorker(pool_worker)
  /\ pool_master' = "destroy_woken"
  /\ UNCHANGED <<pool_port, pool_broadcast, pool_running, pool_left, pool_jobs, pool_done>>

\* ldb_pool_destroy, first section: the jobs that wait are dropped.
PoolDestroy ==
  /\ pool_port # "none" /\ pool_master = "idle"
  /\ pool_queue' = <<>>
  /\ pool_stop' = TRUE
  /\ BroadcastWorker(pool_worker)
  /\ pool_master' = "destroy_woken"
  /\ UNCHANGED <<pool_port, pool_signal, pool_running, pool_left, pool_jobs, pool_done>>

\* Its second section, entered or after a wakeup: the pool is freed when no thread runs.
PoolDestroyed ==
  /\ pool_master = "destroy_woken"
  /\ pool_master' = IF pool_running > 0 THEN "destroying" ELSE "destroyed"
  /\ UNCHANGED <<pool_port, poolEvents, pool_queue, pool_running, pool_left, pool_stop, pool_worker, pool_jobs,
                 pool_done>>

PoolNext ==
  \/ \E port \in {"posix", "win"} : PoolChoose(port)
  \/ PoolSchedule
  \/ \E w \in PoolWorkers : WorkerLock(w) \/ WorkerWoken(w) \/ WorkExecute(w)
                            \/ SpuriousWakeup(w)
                            \/ WinWake(w) \/ WinLeave(w) \/ WinReset(w)
  \/ PoolWait
  \/ MasterSpurious
  \/ PoolDestroy
  \/ PoolDestroyed

PoolSpec == PoolInit /\ [][PoolNext]_poolVars

----------------------------------------------------------------------------
(* Properties *)

\* Every thread of the pool sleeps or is gone, and nobody is about to wake.
PoolQuiet ==
  /\ \A w \in PoolWorkers : pool_worker[w].pc \in {"none", "wait", "exited"}
  /\ \A w \in PoolWorkers : pool_worker[w].pc = "wait" => ~pool_signal /\ ~pool_broadcast
  /\ pool_master \in {"idle", "waiting", "destroying", "destroyed"}

\* No wakeup is lost: when every thread sleeps, no job waits (thread_pool.c:191,
\* 228), a master in ldb_pool_wait has been told that nothing is left
\* (thread_pool.c:206, 224), and ldb_pool_destroy has been told that the last thread
\* is gone (thread_pool.c:153, 242), whichever conditions the port
\* gives, and on Windows although it may merge signals (port_win_impl.h:101, 125).
\* The jobs begin in the order they were
\* scheduled, each once, and none begins after the pool is freed.
PoolWakeups ==
  /\ PoolQuiet => /\ pool_queue # <<>> => pool_stop
                  /\ pool_master \notin {"waiting", "destroying"}
  /\ \A i, j \in DOMAIN pool_done : i < j => pool_done[i] < pool_done[j]
  /\ pool_master = "destroyed" =>
       \A w \in PoolWorkers : pool_worker[w].pc \in {"none", "exited"}
=============================================================================
