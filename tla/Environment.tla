----------------------------- MODULE Environment -----------------------------
(***************************************************************************)
(* The files of an environment, in its three implementations:              *)
(* util/env_unix_impl.h, util/env_win_impl.h and util/env_mem_impl.h, and  *)
(* what util/env.c adds on top of them.                                    *)
(*                                                                         *)
(* One writer has a file open at a time, as in the engine; readers open,   *)
(* read and close in any order, and names are removed and renamed under    *)
(* them.  Every fetch_add and fetch_sub on a limiter is a step.            *)
(***************************************************************************)
EXTENDS Integers, Sequences, FiniteSets, FiniteSetsExt

CONSTANTS EnvNames,       \* file names
          EnvReaders,     \* threads that open files for reading
          EnvMaxFiles,    \* bound: files ever created
          EnvMaxBytes,    \* bound: bytes ever appended
          EnvMaxOps,      \* bound: files opened, names made, changed and removed
          EnvChunks,      \* sizes of one append
          EnvBuffer,      \* LDB_WRITE_BUFFER
          EnvMaxFds,      \* ldb_fd_limiter.max_acquires
          EnvMaxMaps      \* ldb_mmap_limiter.max_acquires

ASSUME EnvAssumption ==
  /\ IsFiniteSet(EnvNames) /\ IsFiniteSet(EnvReaders) /\ EnvChunks \subseteq Nat
  /\ EnvBuffer \in Nat \ {0} /\ EnvMaxFds \in Nat /\ EnvMaxMaps \in Nat

VARIABLES env_kind,       \* "unix", "win" (NT), "win9x" or "mem"; "none" before the choice
          env_names,      \* a name's file, 0 for none
          env_files,      \* the files: cells, how many are synced; refs of ldb_fstate_t
          env_w,          \* the ldb_wfile_t
          env_r,          \* every reader's ldb_rfile_t
          env_fds,        \* ldb_fd_limiter.acquires_allowed
          env_maps,       \* ldb_mmap_limiter.acquires_allowed
          env_bytes,      \* bytes appended so far: the next byte's identity
          env_ops         \* files opened and names changed so far

envVars == <<env_kind, env_names, env_files, env_w, env_r, env_fds, env_maps, env_bytes, env_ops>>

ClosedWriter == [open |-> FALSE, file |-> 0, buf |-> <<>>, err |-> FALSE, base |-> 0, sent |-> <<>>]
ClosedReader == [pc |-> "closed", file |-> 0, name |-> 0, lim |-> "none", length |-> 0, pos |-> 0]

EnvInit ==
  /\ env_kind = "none"
  /\ env_names = [n \in EnvNames |-> 0]
  /\ env_files = <<>>
  /\ env_w = ClosedWriter
  /\ env_r = [r \in EnvReaders |-> ClosedReader]
  /\ env_fds = EnvMaxFds /\ env_maps = EnvMaxMaps
  /\ env_bytes = 0 /\ env_ops = 0

EnvChoose(kind) ==
  /\ env_kind = "none" /\ env_kind' = kind
  /\ UNCHANGED <<env_names, env_files, env_w, env_r, env_fds, env_maps, env_bytes, env_ops>>

NewFile(cells, synced) == [cells |-> cells, synced |-> synced, refs |-> 1, freed |-> FALSE]

Count == env_ops < EnvMaxOps /\ env_ops' = env_ops + 1

Room == env_kind # "none" /\ Len(env_files) < EnvMaxFiles

Freed == [cells |-> <<>>, synced |-> 0, refs |-> 0, freed |-> TRUE]

\* ldb_fstate_ref and ldb_fstate_unref (env_mem_impl.h): the last reference frees.
Ref(files, f) == [files EXCEPT ![f].refs = @ + 1]
Unref(files, f) ==
  IF files[f].refs > 1 THEN [files EXCEPT ![f].refs = @ - 1]
  ELSE [files EXCEPT ![f] = Freed]

\* Handles on a file keep a name from being removed or replaced on Windows, where
\* files are opened without FILE_SHARE_DELETE.
Windows == {"win", "win9x"}
InUse(f) ==
  (env_w.open /\ env_w.file = f) \/ \E r \in EnvReaders : env_r[r].pc # "closed" /\ env_r[r].file = f
Removable(n) == env_kind \in Windows => ~InUse(env_names[n])

----------------------------------------------------------------------------
(* Writable files                                                          *)

\* ldb_write: all of it, or an error after some of it.
WriteOutcomes(cells, data) ==
  {[cells |-> cells \o data, ok |-> TRUE]}
    \cup {[cells |-> cells \o SubSeq(data, 1, n), ok |-> FALSE] : n \in 0..Len(data) - 1}

\* Mutant: what did not fit into the buffer is kept, the part that did is copied again.
AppendOutcomesMutant(cells, buf, data) ==
  LET copy == Min({Len(data), EnvBuffer - Len(buf)})
      full == buf \o SubSeq(data, 1, copy)
  IN IF copy = Len(data) THEN {[cells |-> cells, buf |-> full, ok |-> TRUE]}
     ELSE {[cells |-> o.cells, buf |-> IF o.ok THEN data ELSE <<>>, ok |-> o.ok]
             : o \in WriteOutcomes(cells, full)}

\* ldb_wfile_append0: fill the buffer, flush it when data is left over, keep the
\* rest if it is shorter than a buffer and write it through otherwise.
AppendOutcomes(cells, buf, data) ==
  LET copy == Min({Len(data), EnvBuffer - Len(buf)})
      full == buf \o SubSeq(data, 1, copy)
      rest == SubSeq(data, copy + 1, Len(data))
  IN IF rest = <<>> THEN {[cells |-> cells, buf |-> full, ok |-> TRUE]}
     ELSE UNION {IF ~o.ok THEN {[cells |-> o.cells, buf |-> <<>>, ok |-> FALSE]}
                 ELSE IF Len(rest) < EnvBuffer THEN {[cells |-> o.cells, buf |-> rest, ok |-> TRUE]}
                 ELSE {[cells |-> p.cells, buf |-> <<>>, ok |-> p.ok]
                         : p \in WriteOutcomes(o.cells, rest)}
                 : o \in WriteOutcomes(cells, full)}

\* The same in env_win_impl.h.
WinAppend(cells, buf, data) == AppendOutcomes(cells, buf, data)

\* O_TRUNC, CREATE_ALWAYS.
Emptied(files, f) == [files EXCEPT ![f].cells = <<>>, ![f].synced = 0]

\* ldb_truncfile_create0 and ldb_appendfile_create0.  An existing file is emptied in
\* place or written at its end, a missing one is made.
OpenWriter(n, trunc) ==
  /\ Count
  /\ env_kind # "none" /\ ~env_w.open
  /\ env_names[n] = 0 => Room
  /\ LET f      == IF env_names[n] = 0 THEN Len(env_files) + 1 ELSE env_names[n]
         before == IF env_names[n] = 0 THEN Append(env_files, NewFile(<<>>, 0)) ELSE env_files
         files  == IF trunc THEN Emptied(before, f) ELSE before
     IN /\ env_names' = [env_names EXCEPT ![n] = f]
        /\ env_files' = Ref(files, f)
        /\ env_w' = [ClosedWriter EXCEPT !.open = TRUE, !.file = f, !.base = Len(files[f].cells)]
  /\ UNCHANGED <<env_kind, env_r, env_fds, env_maps, env_bytes>>

\* ldb_appendfile_create0 of Windows: the file is made before SetFilePointer fails.
AppendOpenFails(n) ==
  /\ Count
  /\ env_kind \in Windows /\ ~env_w.open /\ env_names[n] = 0 /\ Room
  /\ env_files' = Append(env_files, NewFile(<<>>, 0))
  /\ env_names' = [env_names EXCEPT ![n] = Len(env_files) + 1]
  /\ UNCHANGED <<env_kind, env_w, env_r, env_fds, env_maps, env_bytes>>

\* A file is followed up to its first error: the writer of a table gives it up there, and
\* what a log that is written on holds then is the business of LogFormat and Recovery.
Usable == env_w.open /\ ~env_w.err

Cells == env_files[env_w.file].cells

\* ldb_fstate_append: the bytes go straight to the blocks and nothing fails.
MemAppend(cells, data) == {[cells |-> cells \o data, buf |-> <<>>, ok |-> TRUE]}

\* ldb_wfile_append.
WfileAppend(k) ==
  /\ Usable /\ env_bytes + k <= EnvMaxBytes
  /\ LET data == [i \in 1..k |-> env_bytes + i]
     IN \E o \in (CASE env_kind = "mem" -> MemAppend(Cells, data)
                    [] env_kind = "unix" -> AppendOutcomes(Cells, env_w.buf, data)
                    [] env_kind \in Windows -> WinAppend(Cells, env_w.buf, data)) :
          /\ env_files' = [env_files EXCEPT ![env_w.file].cells = o.cells]
          /\ env_w' = [env_w EXCEPT !.buf = o.buf, !.err = @ \/ ~o.ok,
                                    !.sent = IF o.ok THEN @ \o data ELSE @]
  /\ env_bytes' = env_bytes + k
  /\ UNCHANGED <<env_kind, env_names, env_r, env_fds, env_maps, env_ops>>

\* ldb_wfile_flush: the buffer is empty afterwards even when the write failed.
FlushOutcomes == WriteOutcomes(Cells, env_w.buf)

WfileFlush ==
  /\ Usable
  /\ \E o \in FlushOutcomes :
       /\ env_files' = [env_files EXCEPT ![env_w.file].cells = o.cells]
       /\ env_w' = [env_w EXCEPT !.buf = <<>>, !.err = @ \/ ~o.ok]
  /\ UNCHANGED <<env_kind, env_names, env_r, env_fds, env_maps, env_bytes, env_ops>>

\* ldb_fsync: everything written so far, or an error.
Fsync(file, ok) == IF ok THEN [file EXCEPT !.synced = Len(file.cells)] ELSE file

\* ldb_wfile_sync: flush, then fsync, which may fail too.
WfileSync(fsync) ==
  /\ Usable
  /\ env_kind = "mem" => fsync
  /\ \E o \in FlushOutcomes :
       /\ env_files' = [env_files EXCEPT ![env_w.file] =
                          Fsync([@ EXCEPT !.cells = o.cells], o.ok /\ fsync)]
       /\ env_w' = [env_w EXCEPT !.buf = <<>>, !.err = @ \/ ~o.ok \/ ~fsync]
  /\ UNCHANGED <<env_kind, env_names, env_r, env_fds, env_maps, env_bytes, env_ops>>

\* The errors env.c makes up for the tests: the call fails before it does anything.
SimulatedError ==
  /\ Usable
  /\ env_w' = [env_w EXCEPT !.err = TRUE]
  /\ UNCHANGED <<env_kind, env_names, env_files, env_r, env_fds, env_maps, env_bytes, env_ops>>

\* ldb_wfile_close flushes first; destroy alone drops the buffer.
CloseOutcomes(closed) == IF closed THEN FlushOutcomes ELSE {[cells |-> Cells, ok |-> TRUE]}

\* ldb_wfile_close and ldb_wfile_destroy.
WfileDestroy(closed) ==
  /\ env_w.open
  /\ \E o \in CloseOutcomes(closed) :
       env_files' = Unref([env_files EXCEPT ![env_w.file].cells = o.cells], env_w.file)
  /\ env_w' = ClosedWriter
  /\ UNCHANGED <<env_kind, env_names, env_r, env_fds, env_maps, env_bytes, env_ops>>

----------------------------------------------------------------------------
(* Names                                                                   *)

\* The entry of a name goes; in memory so does its reference.
DropName(files, names, n) == IF names[n] = 0 THEN files ELSE Unref(files, names[n])

RemoveFile(n) ==
  /\ Count
  /\ env_names[n] # 0 /\ Removable(n)
  /\ env_files' = DropName(env_files, env_names, n)
  /\ env_names' = [env_names EXCEPT ![n] = 0]
  /\ UNCHANGED <<env_kind, env_w, env_r, env_fds, env_maps, env_bytes>>

\* rename, MoveFileEx.
Moved(from, to) == [env_names EXCEPT ![to] = env_names[from], ![from] = 0]

\* Windows 9x: MoveFile does not replace, so the target is deleted and the move tried
\* again; when that fails the target is gone.
Win9xRename(from, to) ==
  {Moved(from, to)} \cup (IF env_names[to] = 0 THEN {} ELSE {[env_names EXCEPT ![to] = 0]})

RenameFile(from, to) ==
  /\ Count
  /\ env_names[from] # 0 /\ from # to /\ env_names[from] # env_names[to]
  /\ Removable(from) /\ Removable(to)
  /\ env_files' = DropName(env_files, env_names, to)
  /\ env_names' \in (IF env_kind = "win9x" THEN Win9xRename(from, to) ELSE {Moved(from, to)})
  /\ UNCHANGED <<env_kind, env_w, env_r, env_fds, env_maps, env_bytes>>

\* ldb_copy_file reads, writes and syncs (on an error it unlinks what it made);
\* CopyFile of Windows does not sync; ldb_fstate_clone copies the blocks.
UnixCopy(cells) == NewFile(cells, Len(cells))
WinCopy(cells) == NewFile(cells, 0)
MemClone(cells) == NewFile(cells, Len(cells))

CopyFile(from, to) ==
  /\ Count
  /\ env_names[from] # 0 /\ env_names[to] = 0 /\ Room
  /\ LET cells == env_files[env_names[from]].cells
     IN env_files' = Append(env_files, CASE env_kind = "unix" -> UnixCopy(cells)
                                         [] env_kind \in Windows -> WinCopy(cells)
                                         [] env_kind = "mem"  -> MemClone(cells))
  /\ env_names' = [env_names EXCEPT ![to] = Len(env_files) + 1]
  /\ UNCHANGED <<env_kind, env_w, env_r, env_fds, env_maps, env_bytes>>

\* Who has hard links.  Where the system has none (Windows 9x, memory, or an error
\* ldb_should_copy knows) ldb_link_file is ldb_copy_file.
HardLinks == {"unix", "win"}

\* ldb_link_file where links are supported.
LinkFile(from, to) ==
  /\ Count
  /\ env_kind \in HardLinks
  /\ env_names[from] # 0 /\ env_names[to] = 0
  /\ env_names' = [env_names EXCEPT ![to] = env_names[from]]
  /\ env_files' = Ref(env_files, env_names[from])
  /\ UNCHANGED <<env_kind, env_w, env_r, env_fds, env_maps, env_bytes>>

\* ldb_write_file (env.c): a new or emptied file with these bytes, synced if asked; on
\* an error the name is removed.
WriteFile(n, sync, fails) ==
  /\ Count
  /\ env_kind # "none" /\ ~env_w.open /\ env_bytes < EnvMaxBytes
  /\ env_names[n] = 0 /\ Room
  /\ env_kind = "mem" => ~fails
  /\ LET cells == <<env_bytes + 1>>
     IN env_files' = Append(env_files, IF fails THEN Freed
                                       ELSE NewFile(cells, IF sync THEN 1 ELSE 0))
  /\ env_names' = [env_names EXCEPT ![n] = IF fails THEN 0 ELSE Len(env_files) + 1]
  /\ env_bytes' = env_bytes + 1
  /\ UNCHANGED <<env_kind, env_w, env_r, env_fds, env_maps>>

----------------------------------------------------------------------------
(* Readable files                                                          *)

SetReader(r, v) == env_r' = [env_r EXCEPT ![r] = v]

\* ldb_randfile_create after the open: a map if one is asked for and allowed, then a
\* descriptor, which only Unix limits.
UnixOpens(mmap) == IF mmap THEN "acquire_map" ELSE "acquire_fd"
WinOpens(mmap) == IF mmap THEN "acquire_map" ELSE "open"

\* ldb_open: the file a name has at that time.
Opened(n) == env_names[n]

\* ldb_seqfile_create and the open of ldb_randfile_create.  In memory, and for a
\* sequential file, that is all.
OpenReader(r, n, random, mmap) ==
  /\ Count
  /\ env_r[r].pc = "closed" /\ Opened(n) # 0
  /\ mmap => random
  /\ LET next == IF ~random \/ env_kind = "mem" THEN "open"
                 ELSE IF env_kind = "unix" THEN UnixOpens(mmap) ELSE WinOpens(mmap)
     IN SetReader(r, [ClosedReader EXCEPT !.pc = next, !.file = Opened(n), !.name = n])
  /\ env_files' = Ref(env_files, Opened(n))
  /\ UNCHANGED <<env_kind, env_names, env_w, env_fds, env_maps, env_bytes>>

\* ldb_limiter_acquire on the mmap limiter: fetch_sub, and fetch_add when none was left.
AcquireMap(r) ==
  /\ env_r[r].pc = "acquire_map"
  /\ env_maps' = env_maps - 1
  /\ SetReader(r, [env_r[r] EXCEPT !.pc = IF env_maps > 0 THEN "map" ELSE "undo_map"])
  /\ UNCHANGED <<env_kind, env_names, env_files, env_w, env_fds, env_bytes, env_ops>>

UndoMap(r) ==
  /\ env_r[r].pc = "undo_map"
  /\ env_maps' = env_maps + 1
  /\ SetReader(r, [env_r[r] EXCEPT !.pc = IF env_kind = "unix" THEN "acquire_fd" ELSE "open"])
  /\ UNCHANGED <<env_kind, env_names, env_files, env_w, env_fds, env_bytes, env_ops>>

\* The file is mapped and its descriptor closed.
MapFile(r) ==
  /\ env_r[r].pc = "map" /\ env_files[env_r[r].file].cells # <<>>
  /\ SetReader(r, [env_r[r] EXCEPT !.pc = "open", !.lim = "map",
                                   !.length = Len(env_files[env_r[r].file].cells)])
  /\ UNCHANGED <<env_kind, env_names, env_files, env_w, env_fds, env_maps, env_bytes, env_ops>>

\* Mutant: the error path forgets the limiter.
MapFailsMutant(r) ==
  /\ env_r[r].pc = "map"
  /\ SetReader(r, ClosedReader)
  /\ env_files' = Unref(env_files, env_r[r].file)
  /\ UNCHANGED <<env_kind, env_names, env_w, env_fds, env_maps, env_bytes, env_ops>>

\* fstat or mmap failed (an empty file cannot be mapped): the limiter is released.
MapFails(r) ==
  /\ env_r[r].pc = "map"
  /\ env_maps' = env_maps + 1
  /\ SetReader(r, ClosedReader)
  /\ env_files' = Unref(env_files, env_r[r].file)
  /\ UNCHANGED <<env_kind, env_names, env_w, env_fds, env_bytes, env_ops>>

\* ldb_randfile_init: the descriptor is kept only when the limiter allows it.
AcquireFd(r) ==
  /\ env_r[r].pc = "acquire_fd"
  /\ env_fds' = env_fds - 1
  /\ SetReader(r, IF env_fds > 0 THEN [env_r[r] EXCEPT !.pc = "open", !.lim = "fd"]
                                 ELSE [env_r[r] EXCEPT !.pc = "undo_fd"])
  /\ UNCHANGED <<env_kind, env_names, env_files, env_w, env_maps, env_bytes, env_ops>>

\* ... otherwise it is closed and the file opened by name for every read.
UndoFd(r) ==
  /\ env_r[r].pc = "undo_fd"
  /\ env_fds' = env_fds + 1
  /\ SetReader(r, [env_r[r] EXCEPT !.pc = "by_name", !.file = 0])
  /\ env_files' = Unref(env_files, env_r[r].file)
  /\ UNCHANGED <<env_kind, env_names, env_w, env_maps, env_bytes, env_ops>>

\* ldb_rfile_pread: the bytes it returns, or an error, written <<0>>.
ReadAt(cells, count, offset) == SubSeq(cells, offset + 1, Min({offset + count, Len(cells)}))
MapPread(cells, length, count, offset) ==
  IF offset + count > length THEN <<0>> ELSE ReadAt(cells, count, offset)
MemPread(cells, count, offset) ==
  IF offset > Len(cells) THEN <<0>> ELSE ReadAt(cells, count, offset)
\* Windows: ERROR_HANDLE_EOF is the end of the file and no error.
WinReadAt(cells, count, offset) == ReadAt(cells, count, offset)
\* NT reads at the offset; 9x seeks and reads under the file's mutex, as one step.
WinPread(cells, mapped, length, count, offset) ==
  IF mapped THEN MapPread(cells, length, count, offset) ELSE WinReadAt(cells, count, offset)

Pread(r, count, offset) ==
  LET rd    == env_r[r]
      f     == IF rd.pc = "by_name" THEN Opened(rd.name) ELSE rd.file
      cells == env_files[f].cells
  IN IF f = 0 THEN <<0>>
     ELSE IF env_kind \in Windows THEN WinPread(cells, rd.lim = "map", rd.length, count, offset)
     ELSE IF rd.lim = "map" THEN MapPread(cells, rd.length, count, offset)
     ELSE IF env_kind = "mem" THEN MemPread(cells, count, offset)
     ELSE ReadAt(cells, count, offset)

\* ldb_rfile_read of a sequential file, whose position moves.
ReadFile(r, count) ==
  /\ env_r[r].pc = "open" /\ env_r[r].lim = "none" /\ Pread(r, count, env_r[r].pos) # <<0>>
  /\ SetReader(r, [env_r[r] EXCEPT !.pos = @ + Len(Pread(r, count, @))])
  /\ UNCHANGED <<env_kind, env_names, env_files, env_w, env_fds, env_maps, env_bytes, env_ops>>

\* ldb_rfile_skip: lseek and SetFilePointer may go past the end, memory stops there.
SeekSkip(pos, count) == pos + count
MemSkip(pos, count, size) == IF pos > size THEN pos ELSE Min({pos + count, size})

SkipFile(r, count) ==
  /\ env_r[r].pc = "open" /\ env_r[r].lim = "none" /\ env_r[r].pos + count <= EnvMaxBytes
  /\ LET size == Len(env_files[env_r[r].file].cells)
     IN SetReader(r, [env_r[r] EXCEPT !.pos = IF env_kind = "mem" THEN MemSkip(@, count, size)
                                                                ELSE SeekSkip(@, count)])
  /\ UNCHANGED <<env_kind, env_names, env_files, env_w, env_fds, env_maps, env_bytes, env_ops>>

\* ldb_rfile_close, ldb_rfile_destroy: the limiter it holds is released.
CloseReader(r) ==
  /\ env_r[r].pc \in {"open", "by_name"}
  /\ env_fds' = env_fds + (IF env_r[r].lim = "fd" THEN 1 ELSE 0)
  /\ env_maps' = env_maps + (IF env_r[r].lim = "map" THEN 1 ELSE 0)
  /\ env_files' = IF env_r[r].file = 0 THEN env_files ELSE Unref(env_files, env_r[r].file)
  /\ SetReader(r, ClosedReader)
  /\ UNCHANGED <<env_kind, env_names, env_w, env_bytes, env_ops>>

ReaderNext(r) ==
  \/ \E n \in EnvNames, random \in BOOLEAN, mmap \in BOOLEAN : OpenReader(r, n, random, mmap)
  \/ AcquireMap(r) \/ UndoMap(r) \/ MapFile(r) \/ MapFails(r)
  \/ AcquireFd(r) \/ UndoFd(r)
  \/ ReadFile(r, EnvBuffer) \/ SkipFile(r, EnvBuffer)
  \/ CloseReader(r)

EnvNext ==
  \/ \E kind \in {"unix", "win", "win9x", "mem"} : EnvChoose(kind)
  \/ \E n \in EnvNames, trunc \in BOOLEAN : OpenWriter(n, trunc)
  \/ \E n \in EnvNames : AppendOpenFails(n)
  \/ \E k \in EnvChunks : WfileAppend(k)
  \/ WfileFlush
  \/ SimulatedError
  \/ \E fsync \in BOOLEAN : WfileSync(fsync)
  \/ \E closed \in BOOLEAN : WfileDestroy(closed)
  \/ \E n \in EnvNames : RemoveFile(n)
  \/ \E n, m \in EnvNames : RenameFile(n, m)
  \/ \E n, m \in EnvNames : CopyFile(n, m)
  \/ \E n, m \in EnvNames : LinkFile(n, m)
  \/ \E n \in EnvNames, sync \in BOOLEAN, fails \in BOOLEAN : WriteFile(n, sync, fails)
  \/ \E r \in EnvReaders : ReaderNext(r)

EnvSpec == EnvInit /\ [][EnvNext]_envVars

----------------------------------------------------------------------------
(* Properties *)

\* The write buffer (ldb_wfile_append0, env_unix_impl.h:1313): as long as no call on a
\* file has failed, the file and the buffer together hold exactly the bytes that were
\* accepted, in order, whatever their sizes; a reader that knows more than the file
\* was told exists nowhere.
EnvWrites ==
  env_w.open /\ ~env_w.err =>
    /\ SubSeq(Cells, env_w.base + 1, Len(Cells)) \o env_w.buf = env_w.sent
    /\ Len(env_w.buf) <= EnvBuffer
    /\ env_files[env_w.file].synced <= Len(Cells)

\* The books of the environment (env_unix_impl.h:156, env_mem_impl.h:200): however
\* acquires, releases and failed opens interleave, a limiter is short by exactly what
\* is held or about to be put back, so that it neither leaks nor grants more than its
\* maximum; and a file lives exactly as long as a name or a handle refers to it.
EnvBooks ==
  /\ env_fds = EnvMaxFds - Cardinality({r \in EnvReaders : env_r[r].lim = "fd" \/ env_r[r].pc = "undo_fd"})
  /\ env_maps = EnvMaxMaps - Cardinality({r \in EnvReaders :
                               env_r[r].lim = "map" \/ env_r[r].pc \in {"map", "undo_map"}})
  /\ Cardinality({r \in EnvReaders : env_r[r].lim = "fd"}) <= EnvMaxFds
  /\ Cardinality({r \in EnvReaders : env_r[r].lim = "map" \/ env_r[r].pc = "map"}) <= EnvMaxMaps
  /\ \A f \in DOMAIN env_files :
       LET users == Cardinality({n \in EnvNames : env_names[n] = f})
                      + Cardinality({r \in EnvReaders : env_r[r].file = f})
                      + (IF env_w.file = f THEN 1 ELSE 0)
       IN env_files[f].refs = users /\ (env_files[f].freed <=> users = 0)
=============================================================================
