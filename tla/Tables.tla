------------------------------- MODULE Tables -------------------------------
(***************************************************************************)
(* A table: its builder (table/table_builder.c, table/block_builder.c,     *)
(* table/filter_block.c, util/bloom.c) and its readers (table/table.c,     *)
(* table/block.c).                                                         *)
(*                                                                         *)
(* A key is a sequence of cells: the bytes of the user key and, last, the  *)
(* sequence number (the tag).  An offset inside a block counts entries, an *)
(* offset in the file counts cells.                                        *)
(***************************************************************************)
EXTENDS Integers, Sequences, FiniteSets, SequencesExt, FiniteSetsExt

CONSTANTS TabUsers,       \* user keys, sequences of cells
          TabMaxByte,     \* the largest byte (0xff)
          TabMaxSeq,      \* LDB_MAX_SEQUENCE; entries have smaller ones
          TabMaxEntries,  \* bound: entries of the table
          TabBlockSize,   \* options.block_size
          TabIntervals,   \* values of options.block_restart_interval
          TabFilterBase,  \* LDB_FILTER_BASE
          TabProbes       \* bloom->k

ASSUME TabAssumption ==
  /\ TabMaxByte \in Nat /\ TabMaxSeq \in Nat /\ TabFilterBase \in Nat \ {0}
  /\ TabIntervals \subseteq Nat \ {0}

VARIABLES tab_gen,        \* the ldb_tablegen_t
          tab_state,      \* "building", "failed", "done" or "opened"
          tab_interval,   \* block_restart_interval; 0 before it is chosen
          tab_filter,     \* the reader's filter: can it be read?
          tab_iter        \* a block iterator: its block and its state

tabVars == <<tab_gen, tab_state, tab_interval, tab_filter, tab_iter>>

UserOf(key) == SubSeq(key, 1, Len(key) - 1)
TagOf(key) == key[Len(key)]

\* slice_compare: bytes in order, a prefix first.
LexLess(x, y) ==
  \/ \E i \in 1..Min({Len(x), Len(y)}) : x[i] < y[i] /\ \A j \in 1..i - 1 : x[j] = y[j]
  \/ Len(x) < Len(y) /\ IsPrefix(x, y)

\* ldb_ikc_compare.
TabLess(x, y) ==
  \/ LexLess(UserOf(x), UserOf(y))
  \/ UserOf(x) = UserOf(y) /\ TagOf(x) > TagOf(y)

CommonPrefix(x, y) ==
  Max({n \in 0..Min({Len(x), Len(y)}) : \A i \in 1..n : x[i] = y[i]})

\* shortest_separator and short_successor of the bytewise comparator.
ShortestSeparator(x, y) ==
  LET n == CommonPrefix(x, y) + 1
  IN IF n <= Min({Len(x), Len(y)}) /\ x[n] < TabMaxByte /\ x[n] + 1 < y[n]
     THEN SubSeq(x, 1, n - 1) \o <<x[n] + 1>> ELSE x

ShortSuccessor(x) ==
  LET at == {i \in DOMAIN x : x[i] # TabMaxByte}
  IN IF at = {} THEN x ELSE SubSeq(x, 1, Min(at) - 1) \o <<x[Min(at)] + 1>>

\* ldb_ikc_shortest_separator and ldb_ikc_short_successor: the tag of the largest
\* sequence goes behind a user key that became shorter and larger.
Shorten(key, user) ==
  IF Len(user) < Len(UserOf(key)) /\ LexLess(UserOf(key), user)
  THEN Append(user, TabMaxSeq) ELSE key
Separator(x, y) == Shorten(x, ShortestSeparator(UserOf(x), UserOf(y)))
Successor(x) == Shorten(x, ShortSuccessor(UserOf(x)))

----------------------------------------------------------------------------
(* block_builder.c *)

\* ldb_blockgen_init, ldb_blockgen_reset: the first restart point is at 0.
EmptyBlock == [entries |-> <<>>, restarts |-> <<0>>, counter |-> 0, last |-> <<>>]

\* ldb_blockgen_add.
BlockAdd(bb, key, value, interval) ==
  LET full   == bb.counter >= interval
      shared == IF full THEN 0 ELSE CommonPrefix(bb.last, key)
  IN [entries  |-> Append(bb.entries, [shared |-> shared, value |-> value,
                                       delta |-> SubSeq(key, shared + 1, Len(key))]),
      restarts |-> IF full THEN Append(bb.restarts, Len(bb.entries)) ELSE bb.restarts,
      counter  |-> (IF full THEN 0 ELSE bb.counter) + 1,
      last     |-> key]

\* ldb_blockgen_size_estimate.
SizeEstimate(bb) ==
  FoldLeft(LAMBDA n, e : n + 1 + Len(e.delta), 0, bb.entries) + Len(bb.restarts)

----------------------------------------------------------------------------
(* filter_block.c and bloom.c.  A filter is the set of bits that are on.   *)

HashBits == 2^6

\* ldb_hash of the user key: ldb_ifp_build drops the tag.
BloomHash(user) == FoldLeft(LAMBDA h, b : (7 * h + b) % HashBits, 1, user)

Rotate(h) == (h % 8) * 8 + h \div 8

\* bloom_size, in bits.
BloomSize(n) == Max({8, 4 * n})

\* The bits that bloom_add sets and bloom_match probes: double hashing.
Probes(user, bits) ==
  {((BloomHash(user) + i * Rotate(BloomHash(user))) % HashBits) % bits : i \in 0..TabProbes - 1}

\* bloom_build.
BloomBuild(users) ==
  [bits |-> BloomSize(Cardinality(users)),
   on   |-> UNION {Probes(u, BloomSize(Cardinality(users))) : u \in users}]

\* bloom_match: an empty filter matches nothing.
BloomMatch(filter, user) == filter.bits > 0 /\ Probes(user, filter.bits) \subseteq filter.on

EmptyFilter == [bits |-> 0, on |-> {}]

\* ldb_filtergen_generate, ldb_filtergen_start_block, ldb_filtergen_finish.
Generate(fb) ==
  [filters |-> Append(fb.filters, IF fb.keys = {} THEN EmptyFilter ELSE BloomBuild(fb.keys)),
   keys    |-> {}]

\* Mutant: the filters of a block are looked up one range too early.
StartFilterMutant(fb, offset) ==
  FoldLeft(LAMBDA f, i : Generate(f), fb,
           [i \in 1..(offset \div TabFilterBase + 1 - Len(fb.filters)) |-> i])

StartFilter(fb, offset) ==
  FoldLeft(LAMBDA f, i : Generate(f), fb,
           [i \in 1..(offset \div TabFilterBase - Len(fb.filters)) |-> i])

\* The bytes of the filters, their offsets, the offset of those and the base.
FilterSize(fb) == FoldLeft(LAMBDA n, f : n + f.bits + 1, 2, fb.filters)

FinishFilter(fb) == IF fb.keys = {} THEN fb ELSE Generate(fb)

\* ldb_filter_matches.
FilterMatches(filters, offset, user) ==
  LET index == offset \div TabFilterBase
  IN index < Len(filters) => BloomMatch(filters[index + 1], user)

----------------------------------------------------------------------------
(* table_builder.c *)

NewTableGen ==
  [offset |-> 0, keys |-> <<>>, data |-> EmptyBlock, index |-> EmptyBlock, pending |-> 0,
   blocks |-> <<>>, fb |-> [filters |-> <<>>, keys |-> {}]]

\* ldb_tablegen_write_block: snappy is used only when it saves an eighth.
StoredSize(bb, compressed) == IF compressed THEN SizeEstimate(bb) \div 2 ELSE SizeEstimate(bb)

\* ldb_tablegen_flush of a block with entries; a trailer follows it.
Flush(g, compressed) ==
  IF g.data.entries = <<>> THEN g
  ELSE LET size == StoredSize(g.data, compressed)
           end  == g.offset + size + 1
       IN [g EXCEPT !.offset = end, !.data = EmptyBlock, !.pending = Len(g.blocks) + 1,
                    !.blocks = Append(@, [offset |-> g.offset, block |-> g.data]),
                    !.fb = StartFilter(@, end)]

\* The index entry of a finished block waits for the next key.
IndexEntry(g, key) ==
  IF g.pending = 0 THEN g
  ELSE [g EXCEPT !.pending = 0, !.index = BlockAdd(@, key, g.pending, 1)]

\* ldb_tablegen_add, up to the flush.
GenAdd(g, key) ==
  LET indexed == IF g.pending = 0 THEN g ELSE IndexEntry(g, Separator(Last(g.keys), key))
  IN [indexed EXCEPT !.fb.keys = @ \cup {UserOf(key)}, !.keys = Append(@, key),
                     !.data = BlockAdd(@, key, key, tab_interval)]

BlockIsFull(g) == SizeEstimate(g.data) >= TabBlockSize

TabInit ==
  /\ tab_gen = NewTableGen
  /\ tab_state = "building" /\ tab_interval = 0 /\ tab_filter = FALSE
  /\ tab_iter = [block |-> 0, current |-> 0, restart |-> 0, key |-> <<>>, end |-> 0]

TabCreate(interval) ==
  /\ tab_interval = 0 /\ tab_interval' = interval
  /\ UNCHANGED <<tab_gen, tab_state, tab_filter, tab_iter>>

TabAdd(key, compressed) ==
  /\ tab_state = "building" /\ tab_interval > 0
  /\ Len(tab_gen.keys) < TabMaxEntries
  /\ tab_gen.keys # <<>> => TabLess(Last(tab_gen.keys), key)
  /\ LET g == GenAdd(tab_gen, key)
     IN /\ tab_gen' = IF BlockIsFull(g) THEN Flush(g, compressed) ELSE g
        /\ compressed => BlockIsFull(g)
  /\ UNCHANGED <<tab_state, tab_interval, tab_filter, tab_iter>>

\* ldb_wfile_append fails: nothing is added any more and finish returns the error.
TabAppendFails ==
  /\ tab_state = "building" /\ tab_gen.keys # <<>>
  /\ tab_state' = "failed"
  /\ tab_gen' = NewTableGen
  /\ UNCHANGED <<tab_interval, tab_filter, tab_iter>>

\* ldb_tablegen_finish: the last block, the filter, the metaindex, the index, the footer.
\* The offset is left where the metaindex block begins.
TabFinish(compressed) ==
  /\ tab_state = "building" /\ tab_gen.keys # <<>>
  /\ LET g == Flush(tab_gen, compressed)
         fb == FinishFilter(g.fb)
     IN tab_gen' = [IndexEntry(g, Successor(Last(g.keys))) EXCEPT
                      !.fb = fb, !.offset = @ + FilterSize(fb) + 1]
  /\ tab_state' = "done"
  /\ UNCHANGED <<tab_interval, tab_filter, tab_iter>>

\* ldb_table_open: without its filter a table still serves.
TabOpen(readable) ==
  /\ tab_state = "done"
  /\ tab_state' = "opened" /\ tab_filter' = readable
  /\ UNCHANGED <<tab_gen, tab_interval, tab_iter>>

----------------------------------------------------------------------------
(* block.c: an iterator over a block bb.                                   *)

Limit(bb) == Len(bb.entries)
NumRestarts(bb) == Len(bb.restarts)
RestartPoint(bb, i) == bb.restarts[i + 1]
BlockValid(bb, bi) == bi.current < Limit(bb)

NewBlockIter(bb) ==
  [block |-> 0, current |-> Limit(bb), restart |-> NumRestarts(bb), key |-> <<>>, end |-> 0]

BlockEnd(bb, bi) == [bi EXCEPT !.current = Limit(bb), !.restart = NumRestarts(bb)]

\* seek_to_restart_point.
SeekToRestart(bb, bi, i) ==
  [bi EXCEPT !.key = <<>>, !.restart = i, !.end = RestartPoint(bb, i)]

\* parse_next_key: the key is the shared prefix of the last one and the delta.
ParseNextKey(bb, bi) ==
  IF bi.end >= Limit(bb) THEN BlockEnd(bb, bi)
  ELSE LET e == bb.entries[bi.end + 1]
       IN [bi EXCEPT !.current = bi.end, !.end = @ + 1,
                     !.key = SubSeq(@, 1, e.shared) \o e.delta,
                     !.restart = Max({@} \cup {r \in @ + 1..NumRestarts(bb) - 1 :
                                                 RestartPoint(bb, r) < bi.end})]

\* ldb_blockiter_prev and ldb_blockiter_last parse up to the entry before stop.
RECURSIVE ParseUpTo(_, _, _)
ParseUpTo(bb, bi, stop) ==
  LET n == ParseNextKey(bb, bi)
  IN IF BlockValid(bb, n) /\ n.end < stop THEN ParseUpTo(bb, n, stop) ELSE n

BlockFirst(bb, bi) == ParseNextKey(bb, SeekToRestart(bb, bi, 0))
BlockLast(bb, bi) == ParseUpTo(bb, SeekToRestart(bb, bi, NumRestarts(bb) - 1), Limit(bb))

BlockPrev(bb, bi) ==
  LET before == {r \in 0..bi.restart : RestartPoint(bb, r) < bi.current}
  IN IF before = {} THEN BlockEnd(bb, bi)
     ELSE ParseUpTo(bb, SeekToRestart(bb, bi, Max(before)), bi.current)

\* ldb_blockiter_seek: the binary search over the restart points.
RECURSIVE RestartBefore(_, _, _, _)
RestartBefore(bb, target, left, right) ==
  IF left >= right THEN left
  ELSE LET mid == (left + right + 1) \div 2
           key == bb.entries[RestartPoint(bb, mid) + 1].delta
       IN IF TabLess(key, target) THEN RestartBefore(bb, target, mid, right)
                                  ELSE RestartBefore(bb, target, left, mid - 1)

RECURSIVE ScanTo(_, _, _)
ScanTo(bb, bi, target) ==
  LET n == ParseNextKey(bb, bi)
  IN IF BlockValid(bb, n) /\ TabLess(n.key, target) THEN ScanTo(bb, n, target) ELSE n

\* Mutant: the search goes on from where it stands even when the target lies before.
BlockSeekMutant(bb, bi, target) ==
  LET valid == BlockValid(bb, bi)
      less  == valid /\ TabLess(bi.key, target)
      left  == RestartBefore(bb, target,
                             IF less THEN bi.restart ELSE 0,
                             IF valid /\ ~less THEN bi.restart ELSE NumRestarts(bb) - 1)
  IN IF valid /\ bi.key = target THEN bi
     ELSE ScanTo(bb, IF left = bi.restart THEN bi ELSE SeekToRestart(bb, bi, left), target)

BlockSeek(bb, bi, target) ==
  LET valid == BlockValid(bb, bi)
      less  == valid /\ TabLess(bi.key, target)
      left  == RestartBefore(bb, target,
                             IF less THEN bi.restart ELSE 0,
                             IF valid /\ ~less THEN bi.restart ELSE NumRestarts(bb) - 1)
      skip  == left = bi.restart /\ less
  IN IF valid /\ bi.key = target THEN bi
     ELSE ScanTo(bb, IF skip THEN bi ELSE SeekToRestart(bb, bi, left), target)

BlockOf(b) == tab_gen.blocks[b].block

\* A block iterator is made, and then moved at will.
TabIterate(b) ==
  /\ tab_state = "opened" /\ tab_iter.block = 0
  /\ tab_iter' = [NewBlockIter(BlockOf(b)) EXCEPT !.block = b]
  /\ UNCHANGED <<tab_gen, tab_state, tab_interval, tab_filter>>

MoveBlock(bi) ==
  /\ tab_iter.block > 0
  /\ tab_iter' = bi
  /\ UNCHANGED <<tab_gen, tab_state, tab_interval, tab_filter>>

TabValid == tab_iter.block > 0 /\ BlockValid(BlockOf(tab_iter.block), tab_iter)

TabMove(target) ==
  LET bb == BlockOf(tab_iter.block)
  IN \/ MoveBlock(BlockFirst(bb, tab_iter))
     \/ MoveBlock(BlockLast(bb, tab_iter))
     \/ MoveBlock(BlockSeek(bb, tab_iter, target))
     \/ TabValid /\ MoveBlock(ParseNextKey(bb, tab_iter))
     \/ TabValid /\ MoveBlock(BlockPrev(bb, tab_iter))

\* ldb_table_internal_get: the key it hands to its callback, <<>> for none.
TableGet(target) ==
  LET index == tab_gen.index
      at    == BlockSeek(index, NewBlockIter(index), target)
      b     == index.entries[at.current + 1].value
      found == BlockSeek(BlockOf(b), NewBlockIter(BlockOf(b)), target)
  IN IF ~BlockValid(index, at) THEN <<>>
     ELSE IF tab_filter /\ ~FilterMatches(tab_gen.fb.filters, tab_gen.blocks[b].offset,
                                          UserOf(target)) THEN <<>>
     ELSE IF BlockValid(BlockOf(b), found) THEN found.key ELSE <<>>

\* ldb_table_approximate_offset: the block that may hold the key, or the metaindex.
ApproximateOffset(target) ==
  LET index == tab_gen.index
      at    == BlockSeek(index, NewBlockIter(index), target)
  IN IF BlockValid(index, at) THEN tab_gen.blocks[index.entries[at.current + 1].value].offset
                              ELSE tab_gen.offset

TabKeys == {Append(u, s) : u \in TabUsers, s \in 1..TabMaxSeq - 1}

TabNext ==
  \/ \E n \in TabIntervals : TabCreate(n)
  \/ \E k \in TabKeys, c \in BOOLEAN : TabAdd(k, c)
  \/ TabAppendFails
  \/ \E c \in BOOLEAN : TabFinish(c)
  \/ \E r \in BOOLEAN : TabOpen(r)
  \/ \E b \in DOMAIN tab_gen.blocks : TabIterate(b)
  \/ tab_iter.block > 0 /\ \E k \in TabKeys : TabMove(k)

----------------------------------------------------------------------------
(* Properties *)

\* What is built is found (table_builder.c:216-365, table.c:314-399): whatever the
\* restart interval, the cuts into blocks, the shortened index keys, the compression
\* and the filter, a get of a key of the table hands over exactly that key, a get of
\* a user key at a snapshot its newest entry no newer, and the approximate offsets
\* grow with the keys, those past the last one of the table included.
TableFinds ==
  tab_state = "opened" /\ tab_iter.block = 0 =>
    /\ \A k \in TabKeys :
         LET newest == {e \in ToSet(tab_gen.keys) :
                          /\ UserOf(e) = UserOf(k) /\ TagOf(e) <= TagOf(k)
                          /\ \A f \in ToSet(tab_gen.keys) :
                               UserOf(f) = UserOf(k) /\ TagOf(f) <= TagOf(k) => TagOf(f) <= TagOf(e)}
         IN {e \in {TableGet(k)} : e # <<>> /\ UserOf(e) = UserOf(k)} = newest
    /\ \A k1, k2 \in TabKeys : TabLess(k1, k2) => ApproximateOffset(k1) <= ApproximateOffset(k2)
    /\ \A i \in DOMAIN tab_gen.keys : ApproximateOffset(tab_gen.keys[i]) < tab_gen.offset

\* However a block iterator has been moved (block.c:291-424), the key it assembled
\* from shared prefixes is the one stored at its position (an entry's value is its
\* key), a step back is one entry back, and a seek from where it stands ends on the
\* first key not less.
BlockIterAgrees ==
  TabValid =>
    LET bb == BlockOf(tab_iter.block)
        keys == [i \in DOMAIN bb.entries |-> bb.entries[i].value]
    IN /\ tab_iter.key = keys[tab_iter.current + 1]
       /\ BlockPrev(bb, tab_iter).current =
            IF tab_iter.current = 0 THEN Limit(bb) ELSE tab_iter.current - 1
       /\ \A k \in TabKeys :
            LET at == BlockSeek(bb, tab_iter, k)
            IN at.current = Cardinality({i \in DOMAIN keys : TabLess(keys[i], k)})
=============================================================================
