------------------------------ MODULE Memtable ------------------------------
(***************************************************************************)
(* The memtable (memtable.c) and the skiplist under it (skiplist.c): one   *)
(* writer links a new node level by level while a reader walks the levels  *)
(* without a lock.  A step is one atomic load or store of a next pointer.  *)
(*                                                                         *)
(* An entry is its internal key; its type and value are what is found with *)
(* it.  ldb_order_acquire and ldb_order_release make the interleaving of   *)
(* loads and stores the right model of next[]; max_height is read with     *)
(* relaxed order, so a reader may see an older height.                     *)
(***************************************************************************)
EXTENDS Integers, FiniteSets

CONSTANTS MemUsers,       \* user keys, integers
          MemMaxSeq,      \* bound: entries added
          MemMaxHeight,   \* LDB_MAX_HEIGHT
          MemMaxOps       \* bound: operations of the reader

ASSUME MemAssumption ==
  MemUsers \subseteq Nat /\ MemMaxSeq \in Nat /\ MemMaxHeight \in Nat \ {0}

VARIABLES mem_next,       \* node -> level -> node
          mem_height,     \* list->max_height
          mem_seq,        \* the last sequence readers may use (set when the write is done)
          mem_refs,       \* mt->refs; -1 once destroyed
          mem_writer,     \* the insertion in progress
          mem_reader      \* the reader: its snapshot, iterator and operation in progress

memVars == <<mem_next, mem_height, mem_seq, mem_refs, mem_writer, mem_reader>>

MemLevels == 0..MemMaxHeight - 1
MemEntries == [user : MemUsers, seq : 1..MemMaxSeq]
HeadNode == [user |-> -1, seq |-> 0]
NullNode == [user |-> -2, seq |-> 0]

\* ldb_skiplist_compare: the internal key order, user key up, sequence down.
KeyBefore(x, y) == x.user < y.user \/ (x.user = y.user /\ x.seq > y.seq)

\* ldb_skiplist_key_after_node: a null node is infinite.
KeyAfterNode(key, node) == node # NullNode /\ KeyBefore(node, key)

\* ldb_lkey: the key that seeks the newest entry of user no newer than seq.
LookupKey(user, seq) == [user |-> user, seq |-> seq]

----------------------------------------------------------------------------
(* The three searches.  A walk is where a search stands; WalkStep loads    *)
(* one next pointer and moves right or down, or ends with a result.        *)

NoWalk == [kind |-> "none", key |-> NullNode, level |-> 0, node |-> HeadNode, prev |-> <<>>,
           found |-> NullNode]

\* ldb_skiplist_maxheight: the top level a search starts from.
StartWalk(kind, key, height) ==
  [kind |-> kind, key |-> key, level |-> height - 1, node |-> HeadNode,
   prev |-> [l \in MemLevels |-> HeadNode], found |-> NullNode]

WalkEnded(w) == w.kind = "ended"

\* ldb_skiplist_find_ge: the first node at or after key; prev is filled on the way.
FindGe(w, next) ==
  IF KeyAfterNode(w.key, next) THEN [w EXCEPT !.node = next]
  ELSE LET v == [w EXCEPT !.prev[w.level] = w.node]
       IN IF w.level = 0 THEN [v EXCEPT !.kind = "ended", !.found = next]
                         ELSE [v EXCEPT !.level = @ - 1]

\* ldb_skiplist_find_lt: the last node before key, head if there is none.
FindLt(w, next) ==
  IF next = NullNode \/ ~KeyBefore(next, w.key)
  THEN IF w.level = 0 THEN [w EXCEPT !.kind = "ended", !.found = w.node]
                      ELSE [w EXCEPT !.level = @ - 1]
  ELSE [w EXCEPT !.node = next]

\* ldb_skiplist_find_last: the last node, head if the list is empty.
FindLast(w, next) ==
  IF next = NullNode
  THEN IF w.level = 0 THEN [w EXCEPT !.kind = "ended", !.found = w.node]
                      ELSE [w EXCEPT !.level = @ - 1]
  ELSE [w EXCEPT !.node = next]

WalkStep(w) ==
  LET next == mem_next[w.node][w.level]
  IN CASE w.kind = "ge"   -> FindGe(w, next)
       [] w.kind = "lt"   -> FindLt(w, next)
       [] w.kind = "last" -> FindLast(w, next)

----------------------------------------------------------------------------
(* The writer.  Writers are serialised by the write queue.                 *)

\* ldb_memtable_create, ldb_skiplist_init: one reference, held by the database.
MemInit ==
  /\ mem_next = [n \in MemEntries \cup {HeadNode} |-> [l \in MemLevels |-> NullNode]]
  /\ mem_height = 1
  /\ mem_seq = 0
  /\ mem_refs = 1
  /\ mem_writer = [pc |-> "idle", x |-> NullNode, height |-> 0, level |-> 0, walk |-> NoWalk]
  /\ mem_reader = [pc |-> "idle", snap |-> 0, node |-> NullNode, op |-> "none", walk |-> NoWalk,
                   base |-> {}, key |-> NullNode, ops |-> 0]

\* ldb_memtable_add: the entry is encoded and the search for its place begins.
MemAdd(user) ==
  /\ mem_writer.pc = "idle" /\ mem_seq < MemMaxSeq /\ mem_refs > 0
  /\ LET x == [user |-> user, seq |-> mem_seq + 1]
     IN mem_writer' = [mem_writer EXCEPT !.pc = "find", !.x = x,
                                         !.walk = StartWalk("ge", x, mem_height)]
  /\ UNCHANGED <<mem_next, mem_height, mem_seq, mem_refs, mem_reader>>

MemWriterWalk ==
  /\ mem_writer.pc = "find" /\ ~WalkEnded(mem_writer.walk)
  /\ mem_writer' = [mem_writer EXCEPT !.walk = WalkStep(@)]
  /\ UNCHANGED <<mem_next, mem_height, mem_seq, mem_refs, mem_reader>>

\* ldb_skiplist_randheight draws a height; above max_height the head comes before.
\* max_height is stored before the node is linked anywhere.
MemRaise(height) ==
  /\ mem_writer.pc = "find" /\ WalkEnded(mem_writer.walk)
  /\ mem_height' = IF height > mem_height THEN height ELSE mem_height
  /\ mem_writer' = [mem_writer EXCEPT !.pc = "point", !.height = height, !.level = 0,
       !.walk.prev = [l \in MemLevels |-> IF l < mem_height THEN @[l] ELSE HeadNode]]
  /\ UNCHANGED <<mem_next, mem_seq, mem_refs, mem_reader>>

\* Mutant: the node is published before its own link is set.
SetNodeMutant ==
  /\ mem_writer.pc = "point"
  /\ mem_next' = [mem_next EXCEPT
       ![mem_writer.walk.prev[mem_writer.level]][mem_writer.level] = mem_writer.x]
  /\ mem_writer' = [mem_writer EXCEPT !.pc = "publish"]
  /\ UNCHANGED <<mem_height, mem_seq, mem_refs, mem_reader>>

\* ldb_skipnode_set_nb(x, i, next_nb(prev[i], i)).
SetNode ==
  /\ mem_writer.pc = "point"
  /\ LET l == mem_writer.level
     IN mem_next' = [mem_next EXCEPT ![mem_writer.x][l] = mem_next[mem_writer.walk.prev[l]][l]]
  /\ mem_writer' = [mem_writer EXCEPT !.pc = "publish"]
  /\ UNCHANGED <<mem_height, mem_seq, mem_refs, mem_reader>>

\* ldb_skipnode_set(prev[i], i, x): the node becomes visible at level i.
PublishNode ==
  /\ mem_writer.pc = "publish"
  /\ LET l == mem_writer.level
     IN /\ mem_next' = [mem_next EXCEPT ![mem_writer.walk.prev[l]][l] = mem_writer.x]
        /\ mem_writer' = [mem_writer EXCEPT !.level = l + 1,
                            !.pc = IF l + 1 < mem_writer.height THEN "point" ELSE "inserted"]
  /\ UNCHANGED <<mem_height, mem_seq, mem_refs, mem_reader>>

\* ldb_write sets last_sequence behind the insertions, and readers may use it.
MemCommit ==
  /\ mem_writer.pc = "inserted"
  /\ mem_seq' = mem_writer.x.seq
  /\ mem_writer' = [mem_writer EXCEPT !.pc = "idle", !.x = NullNode, !.walk = NoWalk]
  /\ UNCHANGED <<mem_next, mem_height, mem_refs, mem_reader>>

\* ldb_memtable_unref: the last reference destroys the memtable with its arena.
MemUnref(refs) == IF refs = 1 THEN -1 ELSE refs - 1

\* The database drops its reference once the memtable is in a table.
MemFlushed ==
  /\ mem_writer.pc = "idle" /\ mem_seq = MemMaxSeq
  /\ mem_refs' = MemUnref(mem_refs)
  /\ mem_writer' = [mem_writer EXCEPT !.pc = "gone"]
  /\ UNCHANGED <<mem_next, mem_height, mem_seq, mem_reader>>

----------------------------------------------------------------------------
(* The reader: ldb_memtable_get, or the operations of a memtable iterator. *)

\* The entries some node's lowest link leads to; base is what an operation began with.
LinkedEntries == {e \in MemEntries : \E n \in MemEntries \cup {HeadNode} : mem_next[n][0] = e}

\* ldb_skipiter_valid.
SkipValid(node) == node # NullNode

\* ldb_get and ldb_iterator take the last sequence and a reference under the mutex.
MemOpen ==
  /\ mem_reader.pc = "idle" /\ mem_reader.ops = 0 /\ mem_refs > 0 /\ mem_writer.pc # "gone"
  /\ mem_refs' = mem_refs + 1
  /\ mem_reader' = [mem_reader EXCEPT !.pc = "ready", !.snap = mem_seq]
  /\ UNCHANGED <<mem_next, mem_height, mem_seq, mem_writer>>

BeginWalk(op, kind, key, height) ==
  mem_reader' = [mem_reader EXCEPT !.pc = "walk", !.op = op, !.key = key, !.ops = @ + 1,
                                   !.base = LinkedEntries, !.walk = StartWalk(kind, key, height)]

\* ldb_memtable_get, ldb_skipiter_seek, ldb_skiplist_contains: a find_ge from the top.
MemSeek(op, user, seq) ==
  /\ mem_reader.pc = "ready" /\ mem_reader.ops < MemMaxOps
  /\ op \in {"get", "seek"} /\ (op = "get" => seq = mem_reader.snap)
  /\ \E h \in 1..mem_height : BeginWalk(op, "ge", LookupKey(user, seq), h)
  /\ UNCHANGED <<mem_next, mem_height, mem_seq, mem_refs, mem_writer>>

\* ldb_skipiter_last.
MemLast ==
  /\ mem_reader.pc = "ready" /\ mem_reader.ops < MemMaxOps
  /\ \E h \in 1..mem_height : BeginWalk("last", "last", NullNode, h)
  /\ UNCHANGED <<mem_next, mem_height, mem_seq, mem_refs, mem_writer>>

\* ldb_skipiter_prev: no prev links, so a search for the last node before the key.
MemPrev ==
  /\ mem_reader.pc = "ready" /\ mem_reader.ops < MemMaxOps /\ SkipValid(mem_reader.node)
  /\ \E h \in 1..mem_height : BeginWalk("prev", "lt", mem_reader.node, h)
  /\ UNCHANGED <<mem_next, mem_height, mem_seq, mem_refs, mem_writer>>

MemReaderWalk ==
  /\ mem_reader.pc = "walk" /\ ~WalkEnded(mem_reader.walk)
  /\ mem_reader' = [mem_reader EXCEPT !.walk = WalkStep(@)]
  /\ UNCHANGED <<mem_next, mem_height, mem_seq, mem_refs, mem_writer>>

\* The search is over; prev and last turn the head into an invalid iterator.
MemFound ==
  /\ mem_reader.pc = "walk" /\ WalkEnded(mem_reader.walk)
  /\ mem_reader' = [mem_reader EXCEPT !.pc = "done", !.walk = NoWalk,
       !.node = IF mem_reader.walk.found = HeadNode THEN NullNode ELSE mem_reader.walk.found]
  /\ UNCHANGED <<mem_next, mem_height, mem_seq, mem_refs, mem_writer>>

\* ldb_skipiter_first and ldb_skipiter_next: one load.
MemStep(op) ==
  /\ mem_reader.pc = "ready" /\ mem_reader.ops < MemMaxOps
  /\ op \in {"first", "next"} /\ (op = "next" => SkipValid(mem_reader.node))
  /\ LET from == IF op = "first" THEN HeadNode ELSE mem_reader.node
     IN mem_reader' = [mem_reader EXCEPT !.pc = "done", !.op = op, !.ops = @ + 1, !.key = from,
                                         !.base = LinkedEntries, !.node = mem_next[from][0]]
  /\ UNCHANGED <<mem_next, mem_height, mem_seq, mem_refs, mem_writer>>

\* The result is used; a get is over with it, an iterator goes on.
MemUse ==
  /\ mem_reader.pc = "done"
  /\ mem_reader' = [mem_reader EXCEPT !.pc = IF mem_reader.op = "get" THEN "finish" ELSE "ready",
                                      !.base = {}, !.key = NullNode]
  /\ UNCHANGED <<mem_next, mem_height, mem_seq, mem_refs, mem_writer>>

\* The reader drops its reference.
MemClose ==
  /\ mem_reader.pc \in {"ready", "finish"} /\ mem_reader.ops > 0
  /\ mem_refs' = MemUnref(mem_refs)
  /\ mem_reader' = [mem_reader EXCEPT !.pc = "closed", !.node = NullNode]
  /\ UNCHANGED <<mem_next, mem_height, mem_seq, mem_writer>>

MemNext ==
  \/ \E u \in MemUsers : MemAdd(u)
  \/ MemWriterWalk
  \/ \E h \in 1..MemMaxHeight : MemRaise(h)
  \/ SetNode
  \/ PublishNode
  \/ MemCommit
  \/ MemFlushed
  \/ MemOpen
  \/ \E op \in {"get", "seek"}, u \in MemUsers, s \in 1..MemMaxSeq : MemSeek(op, u, s)
  \/ MemLast
  \/ MemPrev
  \/ MemReaderWalk
  \/ MemFound
  \/ \E op \in {"first", "next"} : MemStep(op)
  \/ MemUse
  \/ MemClose

MemSpec == MemInit /\ [][MemNext]_memVars

----------------------------------------------------------------------------
(* Properties *)

\* ldb_memtable_get's answer for user at seq, from what the writer has committed.
NewestEntry(user, seq) ==
  {e \in LinkedEntries : e.user = user /\ e.seq <= seq
                  /\ \A f \in LinkedEntries : f.user = user /\ f.seq <= seq => f.seq <= e.seq}

\* Is e strictly after a, and before b?  HeadNode and NullNode are the two ends.
NodeAfter(e, a) == a = HeadNode \/ KeyBefore(a, e)
NodeUpTo(e, b)  == b = NullNode \/ KeyBefore(e, b)

\* A reader that walks while the writer links a node misses no entry that was in the
\* list when its operation began (skiplist.c:233-304, 388-443): no such entry lies
\* between where it started and what it found.  A get finds the newest entry of its
\* snapshot and nothing newer, and nobody walks a memtable after its last reference
\* is gone (memtable.c:93).
MemReads ==
  /\ mem_reader.pc \in {"ready", "walk", "done", "finish"} => mem_refs > 0
  /\ mem_reader.pc = "done" =>
       LET n == mem_reader.node
           k == mem_reader.key
           b == mem_reader.base
       IN CASE mem_reader.op = "seek" ->
                 /\ n # NullNode => n \in LinkedEntries /\ ~KeyBefore(n, k)
                 /\ \A e \in b : ~KeyBefore(e, k) => ~NodeUpTo(e, n)
            [] mem_reader.op = "get" ->
                 {e \in {n} : e # NullNode /\ e.user = k.user} = NewestEntry(k.user, mem_reader.snap)
            [] mem_reader.op = "prev" ->
                 \A e \in b : NodeAfter(e, IF n = NullNode THEN HeadNode ELSE n) => ~KeyBefore(e, k)
            [] mem_reader.op = "last" ->
                 \A e \in b : n # NullNode /\ ~KeyBefore(n, e)
            [] mem_reader.op \in {"first", "next"} ->
                 \A e \in b : NodeAfter(e, k) => ~NodeUpTo(e, n)
=============================================================================
