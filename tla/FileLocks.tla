------------------------------ MODULE FileLocks ------------------------------
(***************************************************************************)
(* The LOCK file of a database: ldb_lock_file and ldb_unlock_file of       *)
(* util/env_unix_impl.h, util/env_win_impl.h and util/env_mem_impl.h.      *)
(*                                                                         *)
(* Every process has its own file_set, guarded by file_mutex.  The system's*)
(* record locks (fcntl with F_SETLK) belong to the process, not to the     *)
(* descriptor: closing any descriptor of a file drops the process's lock.  *)
(* That is the system's part, external to this code.  Windows locks the    *)
(* file for a handle, and the code keeps no set of its own.                *)
(***************************************************************************)
EXTENDS Naturals, FiniteSets

CONSTANTS LockProcesses,  \* processes that share the database directory
          LockThreads,    \* threads of each
          LockMaxTries    \* bound: calls of ldb_lock_file

VARIABLES lock_kind,      \* "unix", "win" or "mem"; "none" before the choice
          lock_set,       \* file_set of every process: does it hold the file?
          lock_os,        \* the processes whose record lock is in force
          lock_pc,        \* "idle", "mutex" (file_mutex held, LOCK opened), "held"
          lock_refused,   \* processes that were refused while a thread of theirs held it
          lock_tries

lockVars == <<lock_kind, lock_set, lock_os, lock_pc, lock_refused, lock_tries>>

LockCallers == LockProcesses \X LockThreads

LockInit ==
  /\ lock_kind = "none"
  /\ lock_set = [p \in LockProcesses |-> FALSE]
  /\ lock_os = {}
  /\ lock_pc = [c \in LockCallers |-> "idle"]
  /\ lock_refused = {}
  /\ lock_tries = 0

LockChoose(kind) ==
  /\ lock_kind = "none" /\ lock_kind' = kind
  /\ UNCHANGED <<lock_set, lock_os, lock_pc, lock_refused, lock_tries>>

\* file_mutex is free in process p.
MutexFree(p) == \A t \in LockThreads : lock_pc[<<p, t>>] # "mutex"

\* ldb_lock_file: file_mutex is taken and, on Unix, LOCK opened.
LockBegin(p, t) ==
  /\ lock_kind \in {"unix", "mem"} /\ lock_tries < LockMaxTries
  /\ lock_pc[<<p, t>>] = "idle" /\ MutexFree(p)
  /\ lock_pc' = [lock_pc EXCEPT ![<<p, t>>] = "mutex"]
  /\ lock_tries' = lock_tries + 1
  /\ UNCHANGED <<lock_kind, lock_set, lock_os, lock_refused>>

\* rb_set_has: the process holds the file already.  On Unix the descriptor that
\* was opened to look the file up is closed.
LockRefused(p, t) ==
  /\ lock_pc[<<p, t>>] = "mutex" /\ lock_set[p]
  /\ lock_os' = IF lock_kind = "unix" THEN lock_os \ {p} ELSE lock_os
  /\ lock_refused' = lock_refused \cup {p}
  /\ lock_pc' = [lock_pc EXCEPT ![<<p, t>>] = "idle"]
  /\ UNCHANGED <<lock_kind, lock_set, lock_tries>>

\* Mutant: file_set is not looked at.
LockTakenMutant(p, t) ==
  /\ lock_pc[<<p, t>>] = "mutex"
  /\ lock_kind = "unix" => lock_os \subseteq {p}
  /\ lock_set' = [lock_set EXCEPT ![p] = TRUE]
  /\ lock_os' = lock_os \cup {p}
  /\ lock_pc' = [lock_pc EXCEPT ![<<p, t>>] = "held"]
  /\ UNCHANGED <<lock_kind, lock_refused, lock_tries>>

\* ldb_flock succeeds: no other process has the record lock.
LockTaken(p, t) ==
  /\ lock_pc[<<p, t>>] = "mutex" /\ ~lock_set[p]
  /\ lock_kind = "unix" => lock_os \subseteq {p}
  /\ lock_set' = [lock_set EXCEPT ![p] = TRUE]
  /\ lock_os' = lock_os \cup {p}
  /\ lock_pc' = [lock_pc EXCEPT ![<<p, t>>] = "held"]
  /\ UNCHANGED <<lock_kind, lock_refused, lock_tries>>

\* ldb_flock fails: another process has it.
LockFails(p, t) ==
  /\ lock_kind = "unix" /\ lock_pc[<<p, t>>] = "mutex" /\ ~lock_set[p]
  /\ ~ (lock_os \subseteq {p})
  /\ lock_pc' = [lock_pc EXCEPT ![<<p, t>>] = "idle"]
  /\ UNCHANGED <<lock_kind, lock_set, lock_os, lock_refused, lock_tries>>

\* ldb_unlock_file, under file_mutex.
UnlockFile(p, t) ==
  /\ lock_kind # "win"
  /\ lock_pc[<<p, t>>] = "held" /\ MutexFree(p)
  /\ lock_set' = [lock_set EXCEPT ![p] = FALSE]
  /\ lock_os' = lock_os \ {p}
  /\ lock_refused' = lock_refused \ {p}
  /\ lock_pc' = [lock_pc EXCEPT ![<<p, t>>] = "idle"]
  /\ UNCHANGED <<lock_kind, lock_tries>>

\* ldb_lock_file of Windows: LockFile fails while any handle has the file, and closing
\* the handle that failed harms no other.
WinLock(p, t) ==
  /\ lock_kind = "win" /\ lock_tries < LockMaxTries
  /\ lock_pc[<<p, t>>] = "idle"
  /\ lock_tries' = lock_tries + 1
  /\ IF lock_os = {} THEN lock_os' = {p} /\ lock_pc' = [lock_pc EXCEPT ![<<p, t>>] = "held"]
                     ELSE UNCHANGED <<lock_os, lock_pc>>
  /\ UNCHANGED <<lock_kind, lock_set, lock_refused>>

WinUnlock(p, t) ==
  /\ lock_kind = "win" /\ lock_pc[<<p, t>>] = "held"
  /\ lock_os' = lock_os \ {p}
  /\ lock_pc' = [lock_pc EXCEPT ![<<p, t>>] = "idle"]
  /\ UNCHANGED <<lock_kind, lock_set, lock_refused, lock_tries>>

\* A process dies; the system drops its locks and its memory goes.
LockCrash(p) ==
  /\ \E t \in LockThreads : lock_pc[<<p, t>>] # "idle"
  /\ lock_set' = [lock_set EXCEPT ![p] = FALSE]
  /\ lock_os' = lock_os \ {p}
  /\ lock_refused' = lock_refused \ {p}
  /\ lock_pc' = [c \in LockCallers |-> IF c[1] = p THEN "idle" ELSE lock_pc[c]]
  /\ UNCHANGED <<lock_kind, lock_tries>>

LockNext ==
  \/ \E kind \in {"unix", "win", "mem"} : LockChoose(kind)
  \/ \E p \in LockProcesses, t \in LockThreads :
       LockBegin(p, t) \/ LockRefused(p, t) \/ LockTaken(p, t) \/ LockFails(p, t) \/ UnlockFile(p, t)
         \/ WinLock(p, t) \/ WinUnlock(p, t)
  \/ \E p \in LockProcesses : LockCrash(p)

LockSpec == LockInit /\ [][LockNext]_lockVars

----------------------------------------------------------------------------
(* Properties *)

HoldersIn(p) == {t \in LockThreads : lock_pc[<<p, t>>] = "held"}

\* The database is open once (env_unix_impl.h:879): two threads of a process never
\* hold its lock together, and two processes neither, in any order of calls, unlocks
\* and deaths, unless a thread of a holding process asked for the lock again and was
\* refused: the descriptor closed on that path takes the process's record lock with
\* it.  Windows knows no such exception (memory files are private to a process, so
\* only its threads compete).
LockExclusive ==
  /\ \A p \in LockProcesses : Cardinality(HoldersIn(p)) <= 1
  /\ lock_kind # "mem" =>
       \A p, q \in LockProcesses : p # q /\ HoldersIn(p) # {} /\ HoldersIn(q) # {} =>
         lock_refused \cap {p, q} # {}
=============================================================================
