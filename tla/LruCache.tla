------------------------------ MODULE LruCache ------------------------------
(***************************************************************************)
(* One shard of the LRU cache (util/cache.c) and the table cache over it   *)
(* (table_cache.c): readers look a table up, open it when it is not        *)
(* cached, insert it and release it; the removal of obsolete files evicts  *)
(* it.  A critical section of the shard's mutex is one step, so two        *)
(* readers may both miss and both insert.                                  *)
(*                                                                         *)
(* A handle is a number; what it caches is its key, charge, references,    *)
(* whether the cache refers to it, and how often its deleter was called.   *)
(***************************************************************************)
EXTENDS Integers, Sequences, FiniteSets, SequencesExt, FiniteSetsExt

CONSTANTS LruKeys,        \* file numbers, integers: their hash is the number itself
          LruReaders,     \* threads that read tables
          LruCapacities,  \* capacities of a shard
          LruMinLength,   \* the first length of the hash table (4 in the code)
          LruMaxInserts   \* bound: tables opened

ASSUME LruAssumption ==
  LruKeys \subseteq Nat /\ LruCapacities \subseteq Nat /\ LruMinLength \in Nat \ {0}

VARIABLES lru_capacity,   \* lru->capacity; -1 before the cache is created
          lru_usage,      \* lru->usage
          lru_handles,    \* every handle ever made; refs is 0 once it is freed
          lru_buckets,    \* table->list: bucket -> sequence of handles
          lru_list,       \* the LRU list, oldest first
          lru_in_use,     \* the in-use list
          lru_reader      \* each reader: where it is, the key it wants, its handle

lruVars == <<lru_capacity, lru_usage, lru_handles, lru_buckets, lru_list, lru_in_use,
             lru_reader>>

NoHandle == 0

\* The shard as one value, for the helpers that run inside one critical section.
Shard == [usage |-> lru_usage, h |-> lru_handles, buckets |-> lru_buckets,
          list |-> lru_list, in_use |-> lru_in_use]

SetShard(s) ==
  /\ lru_usage' = s.usage /\ lru_handles' = s.h /\ lru_buckets' = s.buckets
  /\ lru_list' = s.list /\ lru_in_use' = s.in_use

----------------------------------------------------------------------------
(* HandleTable *)

\* lru_handle_hash: the key stands for its hash.
Slot(key, length) == key % length

\* lru_table_find, lru_table_lookup: the handle of key in its bucket.
TableFind(s, key) ==
  LET chain == s.buckets[Slot(key, Len(s.buckets)) + 1]
      hits  == {i \in DOMAIN chain : s.h[chain[i]].key = key}
  IN IF hits = {} THEN NoHandle ELSE chain[Min(hits)]

\* lru_table_resize: the length doubles until it holds every element; a bucket is
\* filled from its head.
RECURSIVE TableLength(_, _)
TableLength(length, elems) ==
  IF length < elems THEN TableLength(2 * length, elems) ELSE length

TableElems(s) == FlattenSeq(s.buckets)

TableResize(s) ==
  LET all    == TableElems(s)
      length == TableLength(LruMinLength, Len(all))
  IN [s EXCEPT !.buckets = [b \in 1..length |->
        Reverse(SelectSeq(all, LAMBDA e : Slot(s.h[e].key, length) + 1 = b))]]

\* lru_table_insert: replaces the entry of the same key in place, or goes last.
TableInsert(s, e) ==
  LET b     == Slot(s.h[e].key, Len(s.buckets)) + 1
      old   == TableFind(s, s.h[e].key)
      added == [s EXCEPT !.buckets[b] = Append(@, e)]
  IN IF old # NoHandle
     THEN [s EXCEPT !.buckets[b] = [i \in DOMAIN @ |-> IF @[i] = old THEN e ELSE @[i]]]
     ELSE IF Len(TableElems(added)) > Len(s.buckets) THEN TableResize(added) ELSE added

\* lru_table_remove.
TableRemove(s, e) ==
  LET b == Slot(s.h[e].key, Len(s.buckets)) + 1
  IN [s EXCEPT !.buckets[b] = SelectSeq(@, LAMBDA x : x # e)]

----------------------------------------------------------------------------
(* LRU shard *)

Unlink(seq, e) == SelectSeq(seq, LAMBDA x : x # e)

\* lru_shard_ref.
ShardRef(s, e) ==
  LET moved == IF s.h[e].refs = 1 /\ s.h[e].cached
               THEN [s EXCEPT !.list = Unlink(@, e), !.in_use = Append(@, e)]
               ELSE s
  IN [moved EXCEPT !.h[e].refs = @ + 1]

\* Mutant: an entry nobody uses any more stays on the in-use list.
ShardUnrefMutant(s, e) ==
  LET t == [s EXCEPT !.h[e].refs = @ - 1]
  IN IF t.h[e].refs = 0 THEN [t EXCEPT !.h[e].closed = @ + 1] ELSE t

\* lru_shard_unref: the last reference frees the entry, the cache's own puts it on
\* the LRU list as the newest.
ShardUnref(s, e) ==
  LET t == [s EXCEPT !.h[e].refs = @ - 1]
  IN CASE t.h[e].refs = 0 -> [t EXCEPT !.h[e].closed = @ + 1]
       [] t.h[e].refs = 1 /\ t.h[e].cached ->
            [t EXCEPT !.in_use = Unlink(@, e), !.list = Append(@, e)]
       [] OTHER -> t

\* lru_shard_finish: e has left the hash table.
ShardFinish(s, e) ==
  IF e = NoHandle THEN s
  ELSE ShardUnref([s EXCEPT !.list = Unlink(@, e), !.in_use = Unlink(@, e),
                            !.h[e].cached = FALSE, !.usage = @ - s.h[e].charge], e)

\* The loops of lru_shard_insert and lru_shard_prune: the oldest unused entries go
\* until what is left fits.
RECURSIVE Evict(_, _)
Evict(s, capacity) ==
  IF s.usage > capacity /\ s.list # <<>>
  THEN Evict(ShardFinish(TableRemove(s, Head(s.list)), Head(s.list)), capacity)
  ELSE s

\* lru_shard_insert: returns the shard; the new handle is the next number.
ShardInsert(s, key, charge) ==
  LET e    == Len(s.h) + 1
      made == [s EXCEPT !.h = Append(@, [key |-> key, charge |-> charge, refs |-> 1,
                                         cached |-> FALSE, closed |-> 0])]
      kept == [made EXCEPT !.h[e].refs = 2, !.h[e].cached = TRUE,
                           !.in_use = Append(@, e), !.usage = @ + charge]
  IN Evict(IF lru_capacity > 0
           THEN ShardFinish(TableInsert(kept, e), TableFind(made, key))
           ELSE made, lru_capacity)

----------------------------------------------------------------------------
(* The table cache and its users *)

IdleReader == [pc |-> "idle", key |-> 0, handle |-> NoHandle]

LruInit ==
  /\ lru_capacity = -1
  /\ lru_usage = 0
  /\ lru_handles = <<>>
  /\ lru_buckets = [b \in 1..LruMinLength |-> <<>>]
  /\ lru_list = <<>> /\ lru_in_use = <<>>
  /\ lru_reader = [r \in LruReaders |-> IdleReader]

\* ldb_tables_create, ldb_lru_create: the entries are spread over the shards.
LruCreate(capacity) ==
  /\ lru_capacity = -1
  /\ lru_capacity' = capacity
  /\ UNCHANGED <<lru_usage, lru_handles, lru_buckets, lru_list, lru_in_use, lru_reader>>

LruOpen == lru_capacity >= 0

\* find_table: the lookup, and whether it hits.
LruLookup(r, key) ==
  /\ LruOpen /\ lru_reader[r].pc = "idle"
  /\ LET e == TableFind(Shard, key)
     IN IF e = NoHandle
        THEN /\ lru_reader' = [lru_reader EXCEPT ![r] =
                                 [pc |-> "open", key |-> key, handle |-> NoHandle]]
             /\ UNCHANGED <<lru_usage, lru_handles, lru_buckets, lru_list, lru_in_use>>
        ELSE /\ lru_reader' = [lru_reader EXCEPT ![r] =
                                 [pc |-> "use", key |-> key, handle |-> e]]
             /\ SetShard(ShardRef(Shard, e))
  /\ UNCHANGED lru_capacity

\* find_table: the file is opened outside the mutex, under either of its two names,
\* and inserted with a charge of one.
FindTable(r) ==
  /\ lru_reader[r].pc = "open" /\ Len(lru_handles) < LruMaxInserts
  /\ SetShard(ShardInsert(Shard, lru_reader[r].key, 1))
  /\ lru_reader' = [lru_reader EXCEPT ![r].pc = "use", ![r].handle = Len(lru_handles) + 1]
  /\ UNCHANGED lru_capacity

\* find_table: an error is returned and not cached.
FindTableFails(r) ==
  /\ lru_reader[r].pc = "open"
  /\ lru_reader' = [lru_reader EXCEPT ![r] = IdleReader]
  /\ UNCHANGED <<lru_capacity, lru_usage, lru_handles, lru_buckets, lru_list, lru_in_use>>

\* ldb_tables_get when the read is done, unref_entry when the iterator is destroyed.
LruRelease(r) ==
  /\ lru_reader[r].pc = "use"
  /\ SetShard(ShardUnref(Shard, lru_reader[r].handle))
  /\ lru_reader' = [lru_reader EXCEPT ![r] = IdleReader]
  /\ UNCHANGED lru_capacity

\* ldb_tables_evict, lru_shard_erase.
TablesEvict(key) ==
  /\ LruOpen
  /\ LET e == TableFind(Shard, key)
     IN e # NoHandle /\ SetShard(ShardFinish(TableRemove(Shard, e), e))
  /\ UNCHANGED <<lru_capacity, lru_reader>>

\* lru_shard_prune: every entry nobody uses is dropped.
LruPrune ==
  /\ LruOpen /\ lru_list # <<>>
  /\ SetShard(Evict(Shard, -1))
  /\ UNCHANGED <<lru_capacity, lru_reader>>

\* ldb_tables_destroy, lru_shard_clear: no handle may be in use.
LruClear ==
  /\ LruOpen /\ \A r \in LruReaders : lru_reader[r].pc = "idle"
  /\ SetShard([Evict(Shard, -1) EXCEPT !.buckets = <<>>])
  /\ lru_capacity' = -2
  /\ UNCHANGED lru_reader

LruNext ==
  \/ \E c \in LruCapacities : LruCreate(c)
  \/ \E r \in LruReaders, k \in LruKeys : LruLookup(r, k)
  \/ \E r \in LruReaders : FindTable(r) \/ FindTableFails(r) \/ LruRelease(r)
  \/ \E k \in LruKeys : TablesEvict(k)
  \/ LruPrune
  \/ LruClear

----------------------------------------------------------------------------
(* Properties *)

Cached == {e \in DOMAIN lru_handles : lru_handles[e].cached}
Holders(e) == {r \in LruReaders : lru_reader[r].handle = e}

\* The cache's books balance in every interleaving of readers that miss together,
\* evictions and releases (cache.c:270-455): a handle counts its readers and the
\* cache, the entries of the hash table are those of the two lists and one per key,
\* the LRU list has exactly the unused ones, usage is what they charge, and it stays
\* within the capacity or what the readers can pin (an entry that is released over the
\* capacity stays until the next insertion).  A table is closed exactly once, when
\* neither the cache nor a reader refers to it, and a reader's handle is an open table
\* of the file it asked for (table_cache.c:90-148).
LruBooks ==
  /\ \A e \in DOMAIN lru_handles :
       /\ lru_handles[e].refs = Cardinality(Holders(e)) + (IF e \in Cached THEN 1 ELSE 0)
       /\ lru_handles[e].closed = (IF lru_handles[e].refs = 0 THEN 1 ELSE 0)
  /\ \A r \in LruReaders : lru_reader[r].pc = "use" =>
       lru_handles[lru_reader[r].handle].key = lru_reader[r].key
  /\ LruOpen => /\ ToSet(FlattenSeq(lru_buckets)) = Cached
                /\ \A e \in Cached : TableFind(Shard, lru_handles[e].key) = e
                /\ ToSet(lru_list) = {e \in Cached : Holders(e) = {}}
                /\ ToSet(lru_in_use) = {e \in Cached : Holders(e) # {}}
                /\ lru_usage = MapThenSumSet(LAMBDA e : lru_handles[e].charge, Cached)
                /\ lru_usage <= Max({lru_capacity, Cardinality(LruReaders)})
  /\ lru_capacity = -2 => Cached = {}
=============================================================================
