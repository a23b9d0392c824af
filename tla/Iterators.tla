------------------------------ MODULE Iterators ------------------------------
(***************************************************************************)
(* The iterator of a database (db_iter.c) over the merge (table/merger.c)  *)
(* of a memtable that still grows and a level read through a two-level     *)
(* iterator (table/two_level_iterator.c), with the seeks of the public     *)
(* interface (table/iterator.c).  The loops of db_iter.c advance one       *)
(* internal entry a step, so that a write may come between two entries.    *)
(*                                                                         *)
(* An internal entry is [u, s, t]: user key, sequence, type.  The value of *)
(* an entry is the entry.  A block may be unreadable, and the type "bad"   *)
(* is an internal key that cannot be parsed.                               *)
(***************************************************************************)
EXTENDS Integers, Sequences, FiniteSets, SequencesExt, FiniteSetsExt

CONSTANTS ItUsers,        \* user keys, positive integers
          ItSnapshot,     \* the sequence of the iterator, the last one when it is made
          ItMaxSeq,       \* bound: sequence numbers written
          ItBlockSize     \* entries in a block of the level

ASSUME ItAssumption ==
  ItUsers \subseteq Nat \ {0} /\ ItSnapshot \in Nat /\ ItMaxSeq \in Nat /\ ItBlockSize \in Nat \ {0}

VARIABLES it_mem,         \* the entries of the memtable
          it_blocks,      \* the level: a sequence of blocks, each a set of entries
          it_bad,         \* the blocks that cannot be read
          it_seq,         \* the last sequence written; -1 before the database has content
          it              \* the iterator

itVars == <<it_mem, it_blocks, it_bad, it_seq, it>>

NoEntry == [u |-> 0, s |-> 0, t |-> "none"]

\* ldb_ikc_compare: user key up, sequence down.
ItBefore(x, y) == x.u < y.u \/ (x.u = y.u /\ x.s > y.s)

Least(S) == IF S = {} THEN NoEntry ELSE CHOOSE e \in S : \A f \in S \ {e} : ItBefore(e, f)
Greatest(S) == IF S = {} THEN NoEntry ELSE CHOOSE e \in S : \A f \in S \ {e} : ItBefore(f, e)

\* An iterator over one sorted run: a memtable or a block.
SeekIn(S, k) == Least({e \in S : ~ItBefore(e, k)})
NextIn(S, e) == Least({f \in S : ItBefore(e, f)})
PrevIn(S, e) == Greatest({f \in S : ItBefore(f, e)})

----------------------------------------------------------------------------
(* two_level_iterator.c: idx is the position of the index iterator (0 is   *)
(* invalid), data the block of the data iterator (0 is NULL).              *)

Contents(b) == IF b = 0 \/ b \in it_bad THEN {} ELSE it_blocks[b]

TwoValid(t) == t.data # 0 /\ t.pos # NoEntry

\* ldb_twoiter_status, with the errors of data iterators that are gone.
TwoError(t) == t.err \/ t.data \in it_bad

\* ldb_twoiter_set_data_iter, ldb_twoiter_saverr.
SetDataIter(t, b) == [t EXCEPT !.err = TwoError(t), !.data = b, !.pos = NoEntry]

\* ldb_twoiter_init_data_block: a data iterator of the same block is kept.
InitDataBlock(t) == IF t.data = t.idx THEN t ELSE SetDataIter(t, t.idx)

\* ldb_twoiter_skip_forward and ldb_twoiter_skip_backward: past blocks with nothing left.
RECURSIVE SkipForward(_)
SkipForward(t) ==
  IF TwoValid(t) THEN t
  ELSE IF t.idx = 0 THEN SetDataIter(t, 0)
  ELSE LET n == InitDataBlock([t EXCEPT !.idx = IF @ = Len(it_blocks) THEN 0 ELSE @ + 1])
       IN SkipForward([n EXCEPT !.pos = Least(Contents(n.data))])

RECURSIVE SkipBackward(_)
SkipBackward(t) ==
  IF TwoValid(t) THEN t
  ELSE IF t.idx = 0 THEN SetDataIter(t, 0)
  ELSE LET n == InitDataBlock([t EXCEPT !.idx = @ - 1])
       IN SkipBackward([n EXCEPT !.pos = Greatest(Contents(n.data))])

\* The index entry of a block is its last key: the first block that may hold k.
TwoSeek(t, k) ==
  LET at == {b \in DOMAIN it_blocks : ~ItBefore(Greatest(it_blocks[b]), k)}
      n  == InitDataBlock([t EXCEPT !.idx = IF at = {} THEN 0 ELSE Min(at)])
  IN SkipForward([n EXCEPT !.pos = SeekIn(Contents(n.data), k)])

TwoFirst(t) ==
  LET n == InitDataBlock([t EXCEPT !.idx = IF it_blocks = <<>> THEN 0 ELSE 1])
  IN SkipForward([n EXCEPT !.pos = Least(Contents(n.data))])

TwoLast(t) ==
  LET n == InitDataBlock([t EXCEPT !.idx = Len(it_blocks)])
  IN SkipBackward([n EXCEPT !.pos = Greatest(Contents(n.data))])

TwoNext(t) == SkipForward([t EXCEPT !.pos = NextIn(Contents(t.data), @)])
TwoPrev(t) == SkipBackward([t EXCEPT !.pos = PrevIn(Contents(t.data), @)])

----------------------------------------------------------------------------
(* merger.c over two children: 1 is the memtable, 2 the level.  cur is the *)
(* current child, 0 for none.                                              *)

Children == {1, 2}
ChildKey(m, c) == IF c = 1 THEN m.mem ELSE m.two.pos
ChildValid(m, c) == IF c = 1 THEN m.mem # NoEntry ELSE TwoValid(m.two)

ChildFirst(m) == [m EXCEPT !.mem = Least(it_mem), !.two = TwoFirst(@)]
ChildLast(m, c) ==
  IF c = 1 THEN [m EXCEPT !.mem = Greatest(it_mem)] ELSE [m EXCEPT !.two = TwoLast(@)]
ChildSeek(m, c, k) ==
  IF c = 1 THEN [m EXCEPT !.mem = SeekIn(it_mem, k)] ELSE [m EXCEPT !.two = TwoSeek(@, k)]
ChildNext(m, c) ==
  IF c = 1 THEN [m EXCEPT !.mem = NextIn(it_mem, @)] ELSE [m EXCEPT !.two = TwoNext(@)]
ChildPrev(m, c) ==
  IF c = 1 THEN [m EXCEPT !.mem = PrevIn(it_mem, @)] ELSE [m EXCEPT !.two = TwoPrev(@)]

\* ldb_mergeiter_find_smallest, ldb_mergeiter_find_largest.
FindSmallest(m) ==
  LET valid == {c \in Children : ChildValid(m, c)}
  IN [m EXCEPT !.cur = IF valid = {} THEN 0 ELSE
        CHOOSE c \in valid : \A d \in valid \ {c} : ItBefore(ChildKey(m, c), ChildKey(m, d))]

FindLargest(m) ==
  LET valid == {c \in Children : ChildValid(m, c)}
  IN [m EXCEPT !.cur = IF valid = {} THEN 0 ELSE
        CHOOSE c \in valid : \A d \in valid \ {c} : ItBefore(ChildKey(m, d), ChildKey(m, c))]

MergeValid(m) == m.cur # 0
MergeKey(m) == ChildKey(m, m.cur)

MergeFirst(m) == [FindSmallest(ChildFirst(m)) EXCEPT !.dir = "forward"]
MergeLast(m) == [FindLargest(ChildLast(ChildLast(m, 1), 2)) EXCEPT !.dir = "reverse"]
MergeSeek(m, k) == [FindSmallest(ChildSeek(ChildSeek(m, 1, k), 2, k)) EXCEPT !.dir = "forward"]

\* ldb_mergeiter_next: after a reverse move the other child is put behind the key.
MergeNext(m) ==
  LET other  == 3 - m.cur
      sought == ChildSeek(m, other, MergeKey(m))
      past   == IF ChildValid(sought, other) /\ ChildKey(sought, other) = MergeKey(m)
                THEN ChildNext(sought, other) ELSE sought
      ready  == IF m.dir = "forward" THEN m ELSE [past EXCEPT !.dir = "forward"]
  IN FindSmallest(ChildNext(ready, m.cur))

\* Mutant: the other child is not moved when the direction changes.
MergePrevMutant(m) ==
  FindLargest(ChildPrev([m EXCEPT !.dir = "reverse"], m.cur))

\* ldb_mergeiter_prev: after a forward move the other child is put before the key.
MergePrev(m) ==
  LET other  == 3 - m.cur
      sought == ChildSeek(m, other, MergeKey(m))
      back   == IF ChildValid(sought, other) THEN ChildPrev(sought, other)
                                             ELSE ChildLast(sought, other)
      ready  == IF m.dir = "reverse" THEN m ELSE [back EXCEPT !.dir = "reverse"]
  IN FindLargest(ChildPrev(ready, m.cur))

----------------------------------------------------------------------------
(* db_iter.c *)

Visible(e) == e.s <= ItSnapshot

\* parse_key: a corrupted internal key is an error of the iterator.
ParseKey(e) == e.t # "bad"

DbError(i) == i.err \/ TwoError(i.m.two)
DbKey(i) == IF i.dir = "forward" THEN MergeKey(i.m).u ELSE i.skey
DbValue(i) == IF i.dir = "forward" THEN MergeKey(i.m) ELSE i.sval

NewIterator ==
  [pc |-> "idle", dir |-> "forward", valid |-> FALSE, skey |-> 0, sval |-> NoEntry,
   err |-> FALSE, skipping |-> FALSE, type |-> "deletion", post |-> "none", target |-> 0,
   want |-> 0,
   m |-> [cur |-> 0, dir |-> "forward", mem |-> NoEntry,
          two |-> [idx |-> 0, data |-> 0, pos |-> NoEntry, err |-> FALSE]]]

\* The end of an operation that found nothing.
Invalid(i, m) == [i EXCEPT !.m = m, !.pc = "idle", !.valid = FALSE, !.skey = 0, !.sval = NoEntry]

\* Into find_next_user_entry, or straight to the end.
FindNext(i, m, skipping, skip) ==
  IF MergeValid(m) THEN [i EXCEPT !.m = m, !.pc = "next", !.dir = "forward",
                                  !.skipping = skipping, !.skey = skip]
  ELSE Invalid([i EXCEPT !.dir = "forward"], m)

\* One turn of find_next_user_entry.
FindNextUserEntry(i) ==
  LET e     == MergeKey(i.m)
      read  == ParseKey(e) /\ Visible(e)
      seen  == [i EXCEPT !.err = @ \/ ~ParseKey(e)]
      moved == FindNext(seen, MergeNext(i.m),
                        i.skipping \/ (read /\ e.t = "deletion"),
                        IF read /\ e.t = "deletion" THEN e.u ELSE i.skey)
  IN IF read /\ e.t = "value" /\ ~(i.skipping /\ e.u <= i.skey)
     THEN [seen EXCEPT !.pc = "idle", !.valid = TRUE, !.skey = 0]
     ELSE moved

\* One turn of find_prev_user_entry, or its end.
FindPrevUserEntry(i) ==
  LET e    == MergeKey(i.m)
      read == ParseKey(e) /\ Visible(e)
      seen == [i EXCEPT !.err = @ \/ ~ParseKey(e), !.m = MergePrev(i.m)]
  IN CASE ~MergeValid(i.m) \/ (read /\ i.type # "deletion" /\ e.u < i.skey) ->
            IF i.type = "deletion" THEN Invalid([i EXCEPT !.dir = "forward"], i.m)
                                   ELSE [i EXCEPT !.pc = "idle", !.valid = TRUE]
       [] MergeValid(i.m) /\ ~read -> seen
       [] OTHER -> IF e.t = "deletion"
                   THEN [seen EXCEPT !.type = e.t, !.skey = 0, !.sval = NoEntry]
                   ELSE [seen EXCEPT !.type = e.t, !.skey = e.u, !.sval = e]

\* ldb_dbiter_prev: scan back until the user key changes.
TurnBack(i) ==
  LET m == MergePrev(i.m)
  IN IF ~MergeValid(m) THEN Invalid(i, m)
     ELSE IF MergeKey(m).u < i.skey
     THEN [i EXCEPT !.m = m, !.pc = "prev", !.dir = "reverse", !.type = "deletion"]
     ELSE [i EXCEPT !.m = m]

\* ldb_dbiter_seek, _first, _last, _next, _prev up to their loops.
DbSeek(i, k) ==
  FindNext([i EXCEPT !.sval = NoEntry], MergeSeek(i.m, [u |-> k, s |-> ItSnapshot]), FALSE, k)

DbFirst(i) == FindNext([i EXCEPT !.sval = NoEntry], MergeFirst(i.m), FALSE, i.skey)

DbLast(i) == [i EXCEPT !.m = MergeLast(@), !.pc = "prev", !.dir = "reverse",
                       !.type = "deletion", !.sval = NoEntry]

DbNext(i) ==
  IF i.dir = "reverse"
  THEN FindNext(i, IF MergeValid(i.m) THEN MergeNext(i.m) ELSE MergeFirst(i.m), TRUE, i.skey)
  ELSE FindNext(i, MergeNext(i.m), TRUE, MergeKey(i.m).u)

DbPrev(i) ==
  IF i.dir = "forward" THEN [i EXCEPT !.pc = "turn", !.skey = MergeKey(i.m).u]
                       ELSE [i EXCEPT !.pc = "prev", !.type = "deletion"]

----------------------------------------------------------------------------
(* What the iterator should show: the entries of its snapshot.             *)

Content == it_mem \cup UNION Range(it_blocks)

Current(u) ==
  Least({e \in Content : e.u = u /\ Visible(e) /\ ParseKey(e)})

LiveUsers == {u \in ItUsers : Current(u).t = "value"}

MinUser(S) == IF S = {} THEN 0 ELSE Min(S)
MaxUser(S) == IF S = {} THEN 0 ELSE Max(S)

----------------------------------------------------------------------------
(* Actions *)

ItInit ==
  /\ it_mem = {} /\ it_blocks = <<>> /\ it_bad = {} /\ it_seq = -1
  /\ it = NewIterator

\* The entries of the level are cut into blocks of ItBlockSize.
Blocks(S) ==
  LET run == SetToSortSeq(S, ItBefore)
  IN [b \in 1..(Len(run) + ItBlockSize - 1) \div ItBlockSize |->
        ToSet(SubSeq(run, (b - 1) * ItBlockSize + 1, Min({b * ItBlockSize, Len(run)})))]

\* The content when the iterator is made: the first `flushed` entries are in the
\* level.  At most one thing is wrong with it: a block or an internal key.
ItCreate(user, type, flushed) ==
  /\ it_seq = -1
  /\ LET e(n) == [u |-> user[n], s |-> n, t |-> type[n]]
         wrong == {n \in 1..ItSnapshot : type[n] = "bad"}
     IN /\ Cardinality(wrong) <= 1
        /\ it_mem' = {e(n) : n \in flushed + 1..ItSnapshot}
        /\ it_blocks' = Blocks({e(n) : n \in 1..flushed})
        /\ it_bad' \in {B \in SUBSET DOMAIN it_blocks' : Cardinality(B) + Cardinality(wrong) <= 1}
  /\ it_seq' = ItSnapshot
  /\ UNCHANGED it

\* A later write goes to the memtable, behind the iterator's snapshot.
ItWrite(user) ==
  /\ it_seq \in 0..ItMaxSeq - 1
  /\ it_seq' = it_seq + 1
  /\ it_mem' = it_mem \cup {[u |-> user, s |-> it_seq', t |-> "value"]}
  /\ UNCHANGED <<it_blocks, it_bad, it>>

Call(i, post, target, want) ==
  /\ it_seq >= 0 /\ it.pc = "idle" /\ it.post = "none"
  /\ it' = [i EXCEPT !.post = post, !.target = target, !.want = want]
  /\ UNCHANGED <<it_mem, it_blocks, it_bad, it_seq>>

\* ldb_iter_seek_ge, _gt, _le, _lt begin with a seek.
ItSeekGe(k) == Call(DbSeek(it, k), "none", 0, MinUser({u \in LiveUsers : u >= k}))
ItSeekGt(k) == Call(DbSeek(it, k), "gt", k, MinUser({u \in LiveUsers : u > k}))
ItSeekLe(k) == Call(DbSeek(it, k), "le", k, MaxUser({u \in LiveUsers : u <= k}))
ItSeekLt(k) == Call(DbSeek(it, k), "lt", k, MaxUser({u \in LiveUsers : u < k}))
ItFirst == Call(DbFirst(it), "none", 0, MinUser(LiveUsers))
ItLast == Call(DbLast(it), "none", 0, MaxUser(LiveUsers))

ItNext == it.valid /\ Call(DbNext(it), "none", 0, MinUser({u \in LiveUsers : u > DbKey(it)}))
ItPrev == it.valid /\ Call(DbPrev(it), "none", 0, MaxUser({u \in LiveUsers : u < DbKey(it)}))

\* What follows the seek in ldb_iter_seek_gt, _le and _lt.
ItAfterSeek ==
  /\ it.pc = "idle" /\ it.post # "none"
  /\ LET i == [it EXCEPT !.post = "none", !.target = 0]
     IN it' = CASE it.post = "gt" -> IF it.valid /\ DbKey(it) = it.target THEN DbNext(i) ELSE i
                [] it.post = "le" -> IF ~it.valid THEN DbLast(i)
                                     ELSE IF DbKey(it) > it.target THEN DbPrev(i) ELSE i
                [] it.post = "lt" -> IF it.valid THEN DbPrev(i) ELSE DbLast(i)
  /\ UNCHANGED <<it_mem, it_blocks, it_bad, it_seq>>

\* One internal entry further in the loop of the operation.
ItStep ==
  /\ it.pc # "idle"
  /\ it' = CASE it.pc = "next" -> FindNextUserEntry(it)
             [] it.pc = "prev" -> FindPrevUserEntry(it)
             [] it.pc = "turn" -> TurnBack(it)
  /\ UNCHANGED <<it_mem, it_blocks, it_bad, it_seq>>

IterNext ==
  \/ \E user \in [1..ItSnapshot -> ItUsers],
        type \in [1..ItSnapshot -> {"value", "deletion", "bad"}],
        flushed \in 0..ItSnapshot : ItCreate(user, type, flushed)
  \/ \E u \in ItUsers : ItWrite(u)
  \/ \E k \in ItUsers : ItSeekGe(k) \/ ItSeekGt(k) \/ ItSeekLe(k) \/ ItSeekLt(k)
  \/ ItFirst
  \/ ItLast
  \/ ItNext
  \/ ItPrev
  \/ ItAfterSeek
  \/ ItStep

----------------------------------------------------------------------------
(* Properties *)

\* An iterator is its snapshot, in both directions and across every change of
\* direction, while the memtable under it grows (db_iter.c:109-394, merger.c:190-261):
\* an operation ends on the user key, and the value, that the same operation finds in
\* the snapshot, unless the iterator reports an error.  An unreadable block or an
\* unparsable key may hide entries, and is never silent (two_level_iterator.c:59-78).
IteratorIsSnapshot ==
  it.pc = "idle" /\ it.post = "none" /\ ~DbError(it) =>
    IF it.valid THEN DbKey(it) = it.want /\ DbValue(it) = Current(it.want)
                ELSE it.want = 0
=============================================================================
