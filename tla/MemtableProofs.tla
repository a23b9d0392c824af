--------------------------- MODULE MemtableProofs ---------------------------
(***************************************************************************)
(* What is proved of the memtable's skiplist (Memtable), for any set of    *)
(* user keys, any number of entries, any maximal height and any number of  *)
(* operations of the reader: a walk without a lock misses no entry that    *)
(* was in the list when it began, while the writer links a node.           *)
(*                                                                         *)
(* The invariant is local: nothing of a level lies between a node of the   *)
(* level and the node it points to (SkipGaps), and a level is a part of    *)
(* the levels below it (SkipNested).  No induction along the list is       *)
(* needed, since a search only uses the link it has just loaded.           *)
(***************************************************************************)
EXTENDS Memtable, TLAPS

MemNodes == MemEntries \cup {HeadNode}
MemLinks == MemEntries \cup {NullNode}

MemWalks ==
  [kind : {"none", "ge", "lt", "last", "ended"}, key : MemLinks, level : MemLevels,
   node : MemNodes, prev : [MemLevels -> MemNodes] \cup {<<>>}, found : MemNodes \cup {NullNode}]

MemWriters ==
  [pc : {"idle", "find", "point", "publish", "inserted", "gone"}, x : MemLinks,
   height : 0..MemMaxHeight, level : 0..MemMaxHeight, walk : MemWalks]

MemReaders ==
  [pc : {"idle", "ready", "walk", "done", "finish", "closed"}, snap : 0..MemMaxSeq, node : MemLinks,
   op : {"none", "get", "seek", "last", "prev", "first", "next"}, walk : MemWalks,
   base : SUBSET MemEntries, key : MemNodes \cup {NullNode}, ops : Nat]

\* What the variables hold.
MemTypes ==
  /\ mem_next \in [MemNodes -> [MemLevels -> MemLinks]]
  /\ mem_height \in 1..MemMaxHeight
  /\ mem_seq \in 0..MemMaxSeq
  /\ mem_refs \in Int
  /\ mem_writer \in MemWriters
  /\ mem_reader \in MemReaders

\* The entries that a link of level l leads to, and where a search of l may stand.
OnLevel(next, l) == {e \in MemEntries : \E n \in MemNodes : next[n][l] = e}
Standing(next, l) == OnLevel(next, l) \cup {HeadNode}

\* A link leads forward and over no entry of its level.
SkipGaps ==
  \A l \in MemLevels : \A n \in Standing(mem_next, l) :
    /\ mem_next[n][l] # NullNode => KeyBefore(n, mem_next[n][l])
    /\ \A e \in OnLevel(mem_next, l) :
         KeyBefore(n, e) => mem_next[n][l] # NullNode /\ ~KeyBefore(e, mem_next[n][l])

\* A level is a part of the levels below it; above max_height there is nothing.
SkipNested ==
  \A l, k \in MemLevels :
    /\ k <= l => OnLevel(mem_next, l) \subseteq OnLevel(mem_next, k)
    /\ l >= mem_height => OnLevel(mem_next, l) = {}

\* Only the node about to be published has a link at a level it is not on.
SkipLoose ==
  \A l \in MemLevels : \A n \in MemEntries \ OnLevel(mem_next, l) :
    mem_next[n][l] # NullNode =>
      mem_writer.pc = "publish" /\ n = mem_writer.x /\ l = mem_writer.level

\* An entry of the list is visible to readers, or the one being inserted.
SkipSeqs ==
  \A e \in OnLevel(mem_next, 0) : e.seq <= mem_seq \/ (e = mem_writer.x /\ mem_writer.pc # "find")

SkipList == SkipGaps /\ SkipNested /\ SkipLoose /\ SkipSeqs

\* prev[l] is where x belongs at level l.
PlaceAt(prev, l) ==
  /\ prev[l] \in Standing(mem_next, l)
  /\ KeyBefore(prev[l], mem_writer.x)
  /\ mem_next[prev[l]][l] # NullNode => KeyBefore(mem_writer.x, mem_next[prev[l]][l])

\* The writer: its entry is new, its search stands before it and prev is filled from the
\* top; then prev stays right for every level that is still to be linked.
WriterHolds ==
  LET w == mem_writer.walk
      x == mem_writer.x
  IN /\ mem_writer.pc \in {"idle", "gone"} => x = NullNode
     /\ mem_writer.pc \in {"find", "point", "publish", "inserted"} =>
          x \in MemEntries /\ x.seq = mem_seq + 1
     /\ mem_writer.pc \in {"find", "point", "publish"} => w.prev \in [MemLevels -> MemNodes]
     /\ mem_writer.pc = "find" =>
          /\ x \notin OnLevel(mem_next, 0) /\ w.kind \in {"ge", "ended"} /\ w.key = x
          /\ w.kind = "ge" => /\ w.level < mem_height /\ w.node \in Standing(mem_next, w.level)
                              /\ KeyBefore(w.node, x)
          /\ \A l \in MemLevels : l < mem_height /\ (w.kind = "ended" \/ l > w.level) => PlaceAt(w.prev, l)
     /\ mem_writer.pc \in {"point", "publish"} =>
          /\ mem_writer.level < mem_writer.height /\ mem_writer.height <= mem_height
          /\ \A l \in MemLevels : IF l < mem_writer.level THEN x \in OnLevel(mem_next, l)
                                  ELSE x \notin OnLevel(mem_next, l) /\ PlaceAt(w.prev, l)
     /\ mem_writer.pc = "publish" =>
          mem_next[x][mem_writer.level] = mem_next[w.prev[mem_writer.level]][mem_writer.level]

\* What the reader's operation has found when its result is n.
ReaderFinds(n) ==
  LET k == mem_reader.key
      b == mem_reader.base
  IN /\ n \in OnLevel(mem_next, 0) \cup {NullNode}
     /\ mem_reader.op \in {"get", "seek"} =>
          /\ n # NullNode => ~KeyBefore(n, k)
          /\ \A e \in b : ~KeyBefore(e, k) => n # NullNode /\ ~KeyBefore(e, n)
     /\ mem_reader.op = "prev" => \A e \in b : (n = NullNode \/ KeyBefore(n, e)) => ~KeyBefore(e, k)
     /\ mem_reader.op = "last" => \A e \in b : n # NullNode /\ ~KeyBefore(n, e)
     /\ mem_reader.op \in {"first", "next"} =>
          \A e \in b : KeyBefore(k, e) => n # NullNode /\ ~KeyBefore(e, n)

\* The search each operation makes.
WalkOf(op) == CASE op \in {"get", "seek"} -> "ge" [] op = "prev" -> "lt" [] op = "last" -> "last"

\* The reader: it stands on nodes of the list, before its key, and the entries of its
\* snapshot were all there when the operation began.
ReaderHolds ==
  LET w == mem_reader.walk
      k == mem_reader.key
  IN /\ mem_reader.snap <= mem_seq
     /\ mem_reader.node \in OnLevel(mem_next, 0) \cup {NullNode}
     /\ mem_reader.base \subseteq OnLevel(mem_next, 0)
     /\ mem_reader.pc \in {"walk", "done"} =>
          /\ \A e \in OnLevel(mem_next, 0) : e.seq <= mem_reader.snap => e \in mem_reader.base
          /\ mem_reader.op # "none"
          /\ mem_reader.op \in {"get", "seek", "prev"} => k \in MemEntries
          /\ mem_reader.op = "get" => k.seq = mem_reader.snap
     /\ mem_reader.pc = "walk" =>
          /\ mem_reader.op \in {"get", "seek", "prev", "last"}
          /\ w.kind \in {WalkOf(mem_reader.op), "ended"} /\ w.prev \in [MemLevels -> MemNodes]
          /\ mem_reader.op \in {"get", "seek", "prev"} => w.key = k
          /\ w.kind # "ended" => w.node \in Standing(mem_next, w.level)
          /\ w.kind # "ended" /\ mem_reader.op \in {"get", "seek", "prev"} => KeyBefore(w.node, k)
          /\ w.kind = "ended" => ReaderFinds(IF w.found = HeadNode THEN NullNode ELSE w.found)
     /\ mem_reader.pc = "done" => ReaderFinds(mem_reader.node)

\* One reference for the database and one for the reader; none left is -1.
MemRefs ==
  LET db == IF mem_writer.pc = "gone" THEN 0 ELSE 1
      rd == IF mem_reader.pc \in {"ready", "walk", "done", "finish"} THEN 1 ELSE 0
  IN mem_refs = IF db + rd = 0 THEN -1 ELSE db + rd

MemInv == MemTypes /\ SkipList /\ WriterHolds /\ ReaderHolds /\ MemRefs

----------------------------------------------------------------------------
(* The order and the searches                                              *)

\* The ends of the list are no entries.
LEMMA EndsApart ==
  /\ HeadNode \notin MemEntries /\ NullNode \notin MemEntries /\ HeadNode # NullNode
  /\ 0 \in MemLevels /\ MemLevels \subseteq Int
BY MemAssumption DEF HeadNode, NullNode, MemEntries, MemLevels

\* ldb_skiplist_compare orders head and entries strictly and totally.
LEMMA KeyOrder ==
  /\ \A a \in MemNodes : ~KeyBefore(a, a)
  /\ \A a, b, c \in MemNodes : KeyBefore(a, b) /\ KeyBefore(b, c) => KeyBefore(a, c)
  /\ \A a, b \in MemNodes : a = b \/ KeyBefore(a, b) \/ KeyBefore(b, a)
  /\ \A a \in MemEntries : KeyBefore(HeadNode, a)
<1>0. HeadNode = [user |-> HeadNode.user, seq |-> HeadNode.seq] /\ HeadNode.user \in Int
      /\ HeadNode.user < 0 /\ HeadNode.seq \in Int
  <2>1. HeadNode = [user |-> HeadNode.user, seq |-> HeadNode.seq]
    BY DEF HeadNode
  <2>2. HeadNode.user = -1
    BY Zenon DEF HeadNode
  <2>3. HeadNode.seq = 0
    BY DEF HeadNode
  <2> QED
    BY <2>1, <2>2, <2>3
<1>a. \A a \in MemEntries : a = [user |-> a.user, seq |-> a.seq] /\ a.user \in Nat /\ a.seq \in Nat
  <2> TAKE a \in MemEntries
  <2>1. a.user \in MemUsers /\ a.seq \in 1..MemMaxSeq
    BY DEF MemEntries
  <2>2. a = [user |-> a.user, seq |-> a.seq]
    BY DEF MemEntries
  <2> QED
    BY <2>1, <2>2, MemAssumption
<1>1. \A a \in MemNodes : a = [user |-> a.user, seq |-> a.seq] /\ a.user \in Int /\ a.seq \in Int
  BY <1>0, <1>a DEF MemNodes
<1>2. \A a \in MemNodes : ~KeyBefore(a, a)
  BY <1>1 DEF KeyBefore
<1>3. \A a, b, c \in MemNodes : KeyBefore(a, b) /\ KeyBefore(b, c) => KeyBefore(a, c)
  BY <1>1 DEF KeyBefore
<1>4. \A a, b \in MemNodes : a = b \/ KeyBefore(a, b) \/ KeyBefore(b, a)
  <2> TAKE a, b \in MemNodes
  <2>1. CASE a.user = b.user /\ a.seq = b.seq
    BY <1>1, <2>1
  <2>2. CASE ~(a.user = b.user /\ a.seq = b.seq)
    BY <1>1, <2>2 DEF KeyBefore
  <2> QED
    BY <2>1, <2>2
<1>5. \A a \in MemEntries : KeyBefore(HeadNode, a)
  BY <1>0, <1>a DEF KeyBefore
<1> QED
  BY <1>2, <1>3, <1>4, <1>5

\* A step of a search keeps its record's type, its key and, unless it ends, its kind.
LEMMA WalkTypes ==
  ASSUME MemTypes, NEW w \in MemWalks, w.kind \in {"ge", "lt", "last"},
         w.prev \in [MemLevels -> MemNodes]
  PROVE  /\ WalkStep(w) \in MemWalks
         /\ WalkStep(w).prev \in [MemLevels -> MemNodes]
         /\ WalkStep(w).key = w.key
         /\ WalkStep(w).kind \in {w.kind, "ended"}
<1> DEFINE next == mem_next[w.node][w.level]
<1>1. next \in MemLinks /\ w.node \in MemNodes /\ w.level \in MemLevels
  BY DEF MemTypes, MemWalks
<1>2. next # NullNode => next \in MemNodes
  BY <1>1 DEF MemLinks, MemNodes
<1>3. w.level # 0 => w.level - 1 \in MemLevels
  BY <1>1, MemAssumption DEF MemLevels
<1>4. CASE w.kind = "ge"
  <2>1. WalkStep(w) = FindGe(w, next)
    BY <1>4 DEF WalkStep
  <2>2. next \in MemNodes \cup {NullNode}
    BY <1>1, <1>2
  <2> HIDE DEF next
  <2> DEFINE v == [w EXCEPT !.prev[w.level] = w.node]
  <2>3. v = [w EXCEPT !.prev = [w.prev EXCEPT ![w.level] = w.node]]
    BY <1>1 DEF MemWalks
  <2>4. v \in MemWalks /\ v.prev \in [MemLevels -> MemNodes] /\ v.key = w.key /\ v.kind = w.kind
        /\ v.level = w.level
    BY <1>1, <2>3 DEF MemWalks
  <2>5. FindGe(w, next) = IF KeyAfterNode(w.key, next) THEN [w EXCEPT !.node = next]
                          ELSE IF w.level = 0 THEN [v EXCEPT !.kind = "ended", !.found = next]
                          ELSE [v EXCEPT !.level = @ - 1]
    BY DEF FindGe
  <2> HIDE DEF v
  <2>6. CASE KeyAfterNode(w.key, next)
    BY <1>2, <2>1, <2>5, <2>6 DEF MemWalks, KeyAfterNode
  <2>7. CASE ~KeyAfterNode(w.key, next)
    <3>1. CASE w.level = 0
      <4> DEFINE u == [v EXCEPT !.kind = "ended", !.found = next]
      <4>1. u \in MemWalks
        BY <2>2, <2>4 DEF MemWalks
      <4>2. u.prev = v.prev /\ u.key = v.key /\ u.kind = "ended"
        BY <2>4 DEF MemWalks
      <4> QED
        BY <2>1, <2>4, <2>5, <2>7, <3>1, <4>1, <4>2
    <3>2. CASE w.level # 0
      <4>1. WalkStep(w) = [v EXCEPT !.level = v.level - 1] /\ v.level - 1 \in MemLevels
        BY <1>3, <2>1, <2>4, <2>5, <2>7, <3>2
      <4> QED
        <5> DEFINE u == [v EXCEPT !.level = v.level - 1]
        <5>1. u \in MemWalks
          BY <2>4, <4>1 DEF MemWalks
        <5>2. u.prev = v.prev /\ u.key = v.key /\ u.kind = v.kind
          BY <2>4 DEF MemWalks
        <5> QED
          BY <2>4, <4>1, <5>1, <5>2
    <3> QED
      BY <3>1, <3>2
  <2> QED
    BY <2>6, <2>7
<1>5. CASE w.kind = "lt"
  <2>1. WalkStep(w) = FindLt(w, next)
    BY <1>5 DEF WalkStep
  <2> HIDE DEF next
  <2> QED
    BY <1>1, <1>2, <1>3, <1>5, <2>1 DEF FindLt, MemWalks
<1>6. CASE w.kind = "last"
  <2>1. WalkStep(w) = FindLast(w, next)
    BY <1>6 DEF WalkStep
  <2> HIDE DEF next
  <2> QED
    BY <1>1, <1>2, <1>3, <1>6, <2>1 DEF FindLast, MemWalks
<1> QED
  BY <1>4, <1>5, <1>6

\* The links and the list are unchanged by a step that stores no link.
LEMMA LevelsSame ==
  ASSUME mem_next' = mem_next
  PROVE  \A l : OnLevel(mem_next', l) = OnLevel(mem_next, l) /\ Standing(mem_next', l) = Standing(mem_next, l)
BY DEF OnLevel, Standing

\* Nor is what it says of them, when the height and the writer's place are what they were.
LEMMA ListSame ==
  ASSUME SkipList, mem_next' = mem_next, mem_height' = mem_height, mem_seq' = mem_seq,
         mem_writer'.x = mem_writer.x,
         mem_writer.pc = "publish" => mem_writer' = mem_writer,
         mem_writer'.pc = "find" => mem_writer.pc = "find"
  PROVE  SkipList'
<1>1. \A l : OnLevel(mem_next', l) = OnLevel(mem_next, l) /\ Standing(mem_next', l) = Standing(mem_next, l)
  BY LevelsSame
<1>2. SkipGaps'
  BY <1>1 DEF SkipList, SkipGaps
<1>3. SkipNested'
  BY <1>1 DEF SkipList, SkipNested
<1>4. SkipLoose'
  BY <1>1 DEF SkipList, SkipLoose
<1>5. SkipSeqs'
  BY <1>1 DEF SkipList, SkipSeqs
<1> QED
  BY <1>2, <1>3, <1>4, <1>5 DEF SkipList

\* What a reader stands on and has found stays, as the list only grows.
LEMMA ReaderSame ==
  ASSUME ReaderHolds, mem_reader' = mem_reader, mem_seq <= mem_seq', mem_seq \in Int, mem_seq' \in Int,
         mem_reader.snap \in Int,
         \A l \in MemLevels : OnLevel(mem_next, l) \subseteq OnLevel(mem_next', l),
         mem_reader.walk.level \in MemLevels,
         \A e \in OnLevel(mem_next', 0) : e \in OnLevel(mem_next, 0) \/ ~(e.seq <= mem_reader.snap)
  PROVE  ReaderHolds'
<1>0. OnLevel(mem_next, 0) \subseteq OnLevel(mem_next', 0)
  BY EndsApart
<1>1. \A n : ReaderFinds(n) => ReaderFinds(n)'
  <2> SUFFICES ASSUME NEW CONSTANT n, ReaderFinds(n) PROVE ReaderFinds(n)'
    OBVIOUS
  <2> USE DEF ReaderFinds
  <2>1. (n \in OnLevel(mem_next, 0) \cup {NullNode})'
    BY <1>0
  <2>2. mem_reader'.key = mem_reader.key /\ mem_reader'.base = mem_reader.base
        /\ mem_reader'.op = mem_reader.op
    OBVIOUS
  <2> QED
    BY <2>1, <2>2
<1>2. mem_reader.walk.node \in Standing(mem_next, mem_reader.walk.level) =>
        mem_reader'.walk.node \in Standing(mem_next', mem_reader'.walk.level)
  BY DEF Standing
<1> QED
  BY <1>0, <1>1, <1>2 DEF ReaderHolds

----------------------------------------------------------------------------
(* The steps                                                               *)

\* A new memtable.
LEMMA MemInitInv == MemInit => MemInv
<1> SUFFICES ASSUME MemInit PROVE MemInv
  OBVIOUS
<1>1. NoWalk \in MemWalks
  BY EndsApart DEF NoWalk, MemWalks, MemLinks, MemNodes
<1>2. MemTypes
  BY <1>1, MemAssumption DEF MemInit, MemTypes, MemWriters, MemReaders, MemNodes, MemLinks
<1>3. \A l \in MemLevels : OnLevel(mem_next, l) = {} /\ Standing(mem_next, l) = {HeadNode}
  BY EndsApart DEF MemInit, OnLevel, Standing, MemNodes
<1>4. SkipList
  <2>1. \A l \in MemLevels, n \in MemNodes : mem_next[n][l] = NullNode
    BY DEF MemInit, MemNodes
  <2> QED
    BY <1>3, <2>1, EndsApart DEF SkipList, SkipGaps, SkipNested, SkipLoose, SkipSeqs, MemNodes
<1>5. WriterHolds
  BY DEF MemInit, WriterHolds
<1>6. ReaderHolds
  BY DEF MemInit, ReaderHolds
<1>7. MemRefs
  BY DEF MemInit, MemRefs
<1> QED
  BY <1>2, <1>4, <1>5, <1>6, <1>7 DEF MemInv

\* The reader is where it was when neither the list nor what readers may use has changed.
LEMMA ReaderQuiet ==
  ASSUME MemInv, mem_reader' = mem_reader, mem_next' = mem_next, mem_seq' = mem_seq
  PROVE  ReaderHolds'
<1>1. mem_seq \in Int /\ mem_reader.snap \in Int /\ mem_reader.walk.level \in MemLevels
  BY DEF MemInv, MemTypes, MemWriters, MemReaders, MemWalks
<1> QED
  BY <1>1, ReaderSame DEF MemInv

\* The writer too.
LEMMA WriterQuiet ==
  ASSUME MemInv, mem_writer' = mem_writer, mem_next' = mem_next, mem_seq' = mem_seq,
         mem_height' = mem_height
  PROVE  WriterHolds' /\ SkipList'
<1>1. SkipList'
  BY ListSame DEF MemInv
<1>2. WriterHolds'
  BY DEF MemInv, WriterHolds, PlaceAt
<1> QED
  BY <1>1, <1>2

\* A search as it starts.
LEMMA WalkStarts ==
  ASSUME NEW kind \in {"ge", "lt", "last"}, NEW key \in MemLinks, NEW h \in 1..MemMaxHeight
  PROVE  LET w == StartWalk(kind, key, h)
         IN /\ w \in MemWalks /\ w.kind = kind /\ w.key = key /\ w.level = h - 1
            /\ w.node = HeadNode /\ w.prev \in [MemLevels -> MemNodes]
<1>1. h - 1 \in MemLevels
  BY MemAssumption DEF MemLevels
<1>2. [l \in MemLevels |-> HeadNode] \in [MemLevels -> MemNodes]
  BY DEF MemNodes
<1>3. StartWalk(kind, key, h) =
        [kind |-> kind, key |-> key, level |-> h - 1, node |-> HeadNode,
         prev |-> [l \in MemLevels |-> HeadNode], found |-> NullNode]
  BY DEF StartWalk
<1> QED
  BY <1>1, <1>2, <1>3 DEF MemWalks, MemNodes

\* ldb_memtable_add.
LEMMA StepAdd ==
  ASSUME MemInv, NEW user \in MemUsers, MemAdd(user) PROVE MemInv'
<1> DEFINE x == [user |-> user, seq |-> mem_seq + 1]
           w == StartWalk("ge", x, mem_height)
<1>1. x \in MemEntries /\ x.seq = mem_seq + 1
  BY MemAssumption DEF MemInv, MemTypes, MemWriters, MemReaders, MemAdd, MemEntries
<1>2. w \in MemWalks /\ w.kind = "ge" /\ w.key = x /\ w.level = mem_height - 1
      /\ w.node = HeadNode /\ w.prev \in [MemLevels -> MemNodes]
  BY <1>1, WalkStarts DEF MemInv, MemTypes, MemWriters, MemReaders, MemLinks
<1>3. mem_writer' = [mem_writer EXCEPT !.pc = "find", !.x = x, !.walk = w]
      /\ mem_writer.pc = "idle" /\ UNCHANGED <<mem_next, mem_height, mem_seq, mem_refs, mem_reader>>
  BY DEF MemAdd
<1> HIDE DEF x, w
<1>4. MemTypes'
  BY <1>1, <1>2, <1>3 DEF MemInv, MemTypes, MemWriters, MemReaders, MemLinks
<1>5. mem_writer'.pc = "find" /\ mem_writer'.x = x /\ mem_writer'.walk = w /\ mem_writer.x = NullNode
  BY <1>3 DEF MemInv, MemTypes, MemWriters, MemReaders, WriterHolds
<1>6. \A e \in OnLevel(mem_next, 0) : e.seq <= mem_seq
  BY <1>3, <1>5, EndsApart DEF MemInv, SkipList, SkipSeqs, OnLevel
<1>7. SkipList'
  <2>1. \A l \in MemLevels : \A n \in MemEntries \ OnLevel(mem_next, l) : mem_next[n][l] = NullNode
    BY <1>3 DEF MemInv, SkipList, SkipLoose
  <2> QED
    BY <1>3, <1>6, <2>1 DEF MemInv, SkipList, SkipGaps, SkipNested, SkipLoose, SkipSeqs
<1>8. WriterHolds'
  <2>1. x \notin OnLevel(mem_next, 0)
    BY <1>1, <1>6 DEF MemInv, MemTypes, MemWriters, MemReaders
  <2>2. KeyBefore(HeadNode, x)
    BY <1>1, KeyOrder
  <2>3. mem_height \in Int /\ \A l \in MemLevels : ~(l < mem_height /\ l > mem_height - 1)
    BY EndsApart DEF MemInv, MemTypes, MemWriters, MemReaders
  <2>4. HeadNode \in Standing(mem_next, mem_height - 1) /\ mem_height - 1 < mem_height
    BY <2>3 DEF Standing
  <2>5. mem_next' = mem_next /\ mem_height' = mem_height /\ mem_seq' = mem_seq
    BY <1>3
  <2> QED
    BY <1>1, <1>2, <1>5, <2>1, <2>2, <2>3, <2>4, <2>5 DEF WriterHolds
<1>9. ReaderHolds'
  BY <1>3, ReaderQuiet
<1>10. MemRefs'
  BY <1>3, <1>5 DEF MemInv, MemRefs
<1> QED
  BY <1>4, <1>7, <1>8, <1>9, <1>10 DEF MemInv

\* A load of the writer's search.
LEMMA StepWriterWalk == ASSUME MemInv, MemWriterWalk PROVE MemInv'
<1> DEFINE w == mem_writer.walk
           x == mem_writer.x
           n == mem_next[w.node][w.level]
           v == WalkStep(w)
<1>1. mem_writer.pc = "find" /\ w.kind = "ge" /\ w.key = x /\ w \in MemWalks /\ x \in MemEntries
      /\ w.prev \in [MemLevels -> MemNodes] /\ w.level \in MemLevels
  BY DEF MemInv, MemTypes, MemWriters, MemReaders, MemWriterWalk, WalkEnded, WriterHolds, MemWalks
<1>2. w.node \in Standing(mem_next, w.level) /\ KeyBefore(w.node, x) /\ x \notin OnLevel(mem_next, 0)
      /\ w.level < mem_height
  BY <1>1 DEF MemInv, WriterHolds
<1>3. v \in MemWalks /\ v.prev \in [MemLevels -> MemNodes] /\ v.key = x /\ v.kind \in {"ge", "ended"}
  BY <1>1, WalkTypes DEF MemInv
<1>4. mem_writer' = [mem_writer EXCEPT !.walk = v]
      /\ UNCHANGED <<mem_next, mem_height, mem_seq, mem_refs, mem_reader>>
  BY DEF MemWriterWalk
<1>5. MemTypes'
  BY <1>3, <1>4 DEF MemInv, MemTypes, MemWriters, MemReaders
<1>6. mem_writer'.pc = "find" /\ mem_writer'.x = x /\ mem_writer'.walk = v
  BY <1>1, <1>4 DEF MemInv, MemTypes, MemWriters, MemReaders
<1>7. SkipList'
  BY <1>1, <1>4, <1>6, ListSame DEF MemInv
<1>8. n \in MemLinks /\ w.node \in MemNodes /\ (n # NullNode => n \in OnLevel(mem_next, w.level))
  BY <1>1, <1>2 DEF MemInv, MemTypes, MemWriters, MemReaders, MemWalks, OnLevel, MemLinks
<1>9. v = FindGe(w, n)
  BY <1>1 DEF WalkStep
<1>10. mem_height \in Int /\ MemLevels \subseteq Int
  BY EndsApart DEF MemInv, MemTypes, MemWriters, MemReaders
<1>11. \A l \in MemLevels : l < mem_height /\ l > w.level => PlaceAt(w.prev, l)
  BY <1>1 DEF MemInv, WriterHolds
<1>12. /\ v.kind = "ge" => /\ v.level < mem_height /\ v.node \in Standing(mem_next, v.level)
                           /\ KeyBefore(v.node, x)
       /\ \A l \in MemLevels : l < mem_height /\ (v.kind = "ended" \/ l > v.level) => PlaceAt(v.prev, l)
  <2>1. CASE KeyAfterNode(x, n)
    <3>1. v = [w EXCEPT !.node = n]
      BY <1>1, <1>9, <2>1 DEF FindGe
    <3>2. v.kind = "ge" /\ v.level = w.level /\ v.node = n /\ v.prev = w.prev
      BY <1>1, <3>1 DEF MemWalks
    <3>3. KeyBefore(n, x) /\ n \in Standing(mem_next, w.level)
      BY <1>8, <2>1 DEF KeyAfterNode, Standing
    <3> QED
      BY <1>2, <1>11, <3>2, <3>3
  <2>2. CASE ~KeyAfterNode(x, n)
    <3> DEFINE p == [w.prev EXCEPT ![w.level] = w.node]
    <3>1. v.prev = p
      BY <1>1, <1>9, <2>2 DEF FindGe, MemWalks
    <3>2. \A l \in MemLevels : l # w.level => p[l] = w.prev[l]
      BY <1>1
    <3>3. p[w.level] = w.node
      BY <1>1
    <3> HIDE DEF p
    <3>4. PlaceAt(p, w.level)
      <4>1. n # NullNode => n \in MemNodes /\ n # x /\ ~KeyBefore(n, x)
        <5>1. OnLevel(mem_next, w.level) \subseteq OnLevel(mem_next, 0)
          BY <1>1, <1>10, EndsApart DEF MemInv, SkipList, SkipNested, MemLevels
        <5> QED
          BY <1>2, <1>8, <2>2, <5>1 DEF KeyAfterNode, MemLinks, MemNodes
      <4>2. n # NullNode => KeyBefore(x, n)
        BY <1>1, <4>1, KeyOrder DEF MemNodes
      <4> QED
        BY <1>2, <3>3, <4>2 DEF PlaceAt
    <3>5. \A l \in MemLevels : l < mem_height /\ l > w.level => PlaceAt(p, l)
      BY <1>1, <1>10, <1>11, <3>2 DEF PlaceAt
    <3>6. CASE w.level = 0
      <4>1. v.kind = "ended"
        BY <1>1, <1>9, <2>2, <3>6 DEF FindGe, MemWalks
      <4>2. \A l \in MemLevels : l = w.level \/ l > w.level
        BY <3>6 DEF MemLevels
      <4> QED
        BY <3>1, <3>4, <3>5, <4>1, <4>2
    <3>7. CASE w.level # 0
      <4>1. v.kind = "ge" /\ v.level = w.level - 1 /\ v.node = w.node
        BY <1>1, <1>9, <2>2, <3>7 DEF FindGe, MemWalks
      <4>2. w.level - 1 \in MemLevels /\ w.level - 1 < mem_height
        BY <1>1, <1>2, <1>10, <3>7, MemAssumption DEF MemLevels
      <4>3. w.node \in Standing(mem_next, w.level - 1)
        <5>1. OnLevel(mem_next, w.level) \subseteq OnLevel(mem_next, w.level - 1)
          <6>1. w.level - 1 <= w.level
            BY <1>1, MemAssumption DEF MemLevels
          <6> QED
            BY <1>1, <4>2, <6>1 DEF MemInv, SkipList, SkipNested
        <5> QED
          BY <1>2, <5>1 DEF Standing
      <4>4. \A l \in MemLevels : l > w.level - 1 => l = w.level \/ l > w.level
        BY <1>1, MemAssumption DEF MemLevels
      <4> QED
        BY <1>2, <3>1, <3>4, <3>5, <4>1, <4>2, <4>3, <4>4
    <3> QED
      BY <3>6, <3>7
  <2> QED
    BY <2>1, <2>2
<1>13. WriterHolds'
  <2> HIDE DEF v, w, x
  <2>1. \A l \in MemLevels : PlaceAt(v.prev, l) => PlaceAt(mem_writer.walk.prev, l)'
    BY <1>4, <1>6 DEF PlaceAt, x
  <2>2. x.seq = mem_seq + 1
    BY <1>1 DEF MemInv, WriterHolds, x
  <2> QED
    BY <1>1, <1>2, <1>3, <1>4, <1>6, <1>12, <2>1, <2>2 DEF WriterHolds
<1>14. ReaderHolds'
  BY <1>4, ReaderQuiet
<1>15. MemRefs'
  BY <1>1, <1>4, <1>6 DEF MemInv, MemRefs
<1> QED
  BY <1>5, <1>7, <1>13, <1>14, <1>15 DEF MemInv

\* The height is drawn and max_height stored: prev is right on every level.
LEMMA StepRaise ==
  ASSUME MemInv, NEW height \in 1..MemMaxHeight, MemRaise(height) PROVE MemInv'
<1> DEFINE w == mem_writer.walk
           x == mem_writer.x
           p == [l \in MemLevels |-> IF l < mem_height THEN w.prev[l] ELSE HeadNode]
<1>1. mem_writer.pc = "find" /\ w.kind = "ended" /\ w \in MemWalks /\ x \in MemEntries
      /\ w.prev \in [MemLevels -> MemNodes] /\ x.seq = mem_seq + 1 /\ x \notin OnLevel(mem_next, 0)
  BY DEF MemInv, MemTypes, MemWriters, MemReaders, MemRaise, WalkEnded, WriterHolds
<1>2. p \in [MemLevels -> MemNodes]
  BY <1>1 DEF MemNodes
<1>3. /\ mem_writer' = [mem_writer EXCEPT !.pc = "point", !.height = height, !.level = 0,
                                          !.walk.prev = p]
      /\ mem_height' = IF height > mem_height THEN height ELSE mem_height
      /\ UNCHANGED <<mem_next, mem_seq, mem_refs, mem_reader>>
  BY DEF MemRaise
<1> HIDE DEF p
<1>4. mem_writer'.walk = [w EXCEPT !.prev = p]
  BY <1>3 DEF MemInv, MemTypes, MemWriters, MemReaders
<1>5. mem_writer'.walk \in MemWalks /\ mem_writer'.walk.prev = p
  BY <1>1, <1>2, <1>4 DEF MemWalks
<1>6. mem_writer'.pc = "point" /\ mem_writer'.x = x /\ mem_writer'.height = height /\ mem_writer'.level = 0
  BY <1>3 DEF MemInv, MemTypes, MemWriters, MemReaders
<1>7. mem_height' \in 1..MemMaxHeight /\ mem_height <= mem_height' /\ height <= mem_height'
      /\ mem_height \in Int
  BY <1>3 DEF MemInv, MemTypes, MemWriters, MemReaders
<1>8. MemTypes'
  <2>1. mem_writer' = [mem_writer EXCEPT !.pc = "point", !.height = height, !.level = 0,
                                          !.walk = [w EXCEPT !.prev = p]]
    BY <1>3 DEF MemInv, MemTypes, MemWriters, MemReaders
  <2>2. height \in 0..MemMaxHeight /\ 0 \in 0..MemMaxHeight
    BY MemAssumption
  <2>3. mem_writer' \in MemWriters
    BY <1>4, <1>5, <2>1, <2>2 DEF MemInv, MemTypes, MemWriters, MemReaders
  <2> QED
    BY <1>3, <1>7, <2>3 DEF MemInv, MemTypes, MemWriters, MemReaders
<1>9. SkipList'
  <2>1. SkipGaps'
    BY <1>3 DEF MemInv, SkipList, SkipGaps
  <2>2. SkipNested'
    BY <1>3, <1>7, EndsApart DEF MemInv, SkipList, SkipNested
  <2>3. SkipLoose'
    BY <1>1, <1>3 DEF MemInv, SkipList, SkipLoose
  <2>4. SkipSeqs'
    BY <1>1, <1>3 DEF MemInv, SkipList, SkipSeqs
  <2> QED
    BY <2>1, <2>2, <2>3, <2>4 DEF SkipList
<1>10. ASSUME NEW l \in MemLevels PROVE x \notin OnLevel(mem_next, l) /\ PlaceAt(p, l)
  <2>1. OnLevel(mem_next, l) \subseteq OnLevel(mem_next, 0)
    BY EndsApart DEF MemInv, SkipList, SkipNested, MemLevels
  <2>2. CASE l < mem_height
    <3>1. PlaceAt(w.prev, l)
      BY <1>1, <2>2 DEF MemInv, WriterHolds
    <3> QED
      BY <1>1, <2>1, <2>2, <3>1 DEF PlaceAt, p
  <2>3. CASE ~(l < mem_height)
    <3>1. OnLevel(mem_next, l) = {}
      BY <1>7, <2>3, EndsApart DEF MemInv, SkipList, SkipNested
    <3>2. mem_next[HeadNode][l] = NullNode
      BY <3>1, EndsApart DEF MemInv, MemTypes, MemWriters, MemReaders, OnLevel, MemNodes, MemLinks
    <3>3. p[l] = HeadNode
      BY <2>3 DEF p
    <3> QED
      BY <1>1, <2>1, <3>2, <3>3, KeyOrder DEF PlaceAt, Standing
  <2> QED
    BY <2>2, <2>3
<1>11. WriterHolds'
  <2>1. \A l \in MemLevels : PlaceAt(p, l) => PlaceAt(mem_writer.walk.prev, l)'
    BY <1>3, <1>5, <1>6 DEF PlaceAt
  <2>2. \A l \in MemLevels : ~(l < 0)
    BY DEF MemLevels
  <2>3. 0 < height
    OBVIOUS
  <2> QED
    BY <1>1, <1>2, <1>3, <1>5, <1>6, <1>7, <1>10, <2>1, <2>2, <2>3 DEF WriterHolds
<1>12. ReaderHolds'
  BY <1>3, ReaderQuiet
<1>13. MemRefs'
  BY <1>1, <1>3, <1>6 DEF MemInv, MemRefs
<1> QED
  BY <1>8, <1>9, <1>11, <1>12, <1>13 DEF MemInv

\* A level that is to be linked.
LEMMA LinkLevel ==
  ASSUME MemInv, mem_writer.pc \in {"point", "publish"}
  PROVE  LET l == mem_writer.level
             p == mem_writer.walk.prev[l]
             x == mem_writer.x
         IN /\ l \in MemLevels /\ x \in MemEntries /\ p \in MemNodes /\ p # x
            /\ p \in Standing(mem_next, l) /\ x \notin OnLevel(mem_next, l)
            /\ mem_writer.walk.prev \in [MemLevels -> MemNodes] /\ x.seq = mem_seq + 1
            /\ KeyBefore(p, x) /\ mem_next[p][l] \in MemLinks
            /\ mem_next[p][l] # NullNode => KeyBefore(x, mem_next[p][l])
<1> DEFINE l == mem_writer.level
           p == mem_writer.walk.prev[l]
           x == mem_writer.x
<1>1. l \in MemLevels /\ x \in MemEntries /\ mem_writer.walk.prev \in [MemLevels -> MemNodes]
      /\ x.seq = mem_seq + 1
  BY MemAssumption DEF MemInv, MemTypes, MemWriters, MemReaders, WriterHolds, MemLevels
<1>2. ~(l < l)
  BY <1>1, MemAssumption DEF MemLevels
<1>3. x \notin OnLevel(mem_next, l) /\ PlaceAt(mem_writer.walk.prev, l)
  BY <1>1, <1>2 DEF MemInv, WriterHolds
<1>4. p \in MemNodes /\ mem_next[p][l] \in MemLinks
  BY <1>1 DEF MemInv, MemTypes, MemWriters, MemReaders
<1>5. p # x
  BY <1>1, <1>3, EndsApart DEF PlaceAt, Standing
<1> QED
  BY <1>1, <1>3, <1>4, <1>5 DEF PlaceAt

\* The node's own link is set; nobody can see it yet.
LEMMA StepSetNode == ASSUME MemInv, SetNode PROVE MemInv'
<1> DEFINE l == mem_writer.level
           p == mem_writer.walk.prev[l]
           x == mem_writer.x
<1>0. mem_writer.pc = "point"
  BY DEF SetNode
<1>1. /\ l \in MemLevels /\ x \in MemEntries /\ p \in MemNodes /\ p # x
      /\ p \in Standing(mem_next, l) /\ x \notin OnLevel(mem_next, l)
      /\ mem_next[p][l] \in MemLinks /\ x \in MemNodes
  BY <1>0, LinkLevel DEF MemNodes
<1>2. /\ mem_next' = [mem_next EXCEPT ![x] = [mem_next[x] EXCEPT ![l] = mem_next[p][l]]]
      /\ mem_writer' = [mem_writer EXCEPT !.pc = "publish"]
      /\ UNCHANGED <<mem_height, mem_seq, mem_refs, mem_reader>>
  BY <1>1 DEF SetNode, MemInv, MemTypes
<1>3. mem_writer'.pc = "publish" /\ mem_writer'.x = x /\ mem_writer'.level = l
      /\ mem_writer'.walk = mem_writer.walk /\ mem_writer'.height = mem_writer.height
  BY <1>2 DEF MemInv, MemTypes, MemWriters, MemReaders
<1>4. MemTypes'
  BY <1>1, <1>2 DEF MemInv, MemTypes, MemWriters, MemReaders
<1>5. \A n \in MemNodes, k \in MemLevels :
        mem_next'[n][k] = IF n = x /\ k = l THEN mem_next[p][l] ELSE mem_next[n][k]
  BY <1>1, <1>2 DEF MemInv, MemTypes, MemWriters, MemReaders
<1>6. \A k \in MemLevels : OnLevel(mem_next', k) = OnLevel(mem_next, k)
  <2> TAKE k \in MemLevels
  <2>1. mem_next[x][l] = NullNode
    BY <1>0, <1>1 DEF MemInv, SkipList, SkipLoose
  <2> QED
    BY <1>1, <1>5, <2>1, EndsApart DEF OnLevel
<1>7. \A k \in MemLevels : Standing(mem_next', k) = Standing(mem_next, k)
  BY <1>6 DEF Standing
<1>8. \A k \in MemLevels, n \in MemNodes : n \in Standing(mem_next, k) => mem_next'[n][k] = mem_next[n][k]
  BY <1>1, <1>5, EndsApart DEF Standing
<1>9. \A k \in MemLevels : Standing(mem_next, k) \subseteq MemNodes
  BY DEF Standing, OnLevel, MemNodes
<1>10. SkipList'
  <2>1. SkipGaps'
    BY <1>6, <1>7, <1>8, <1>9 DEF MemInv, SkipList, SkipGaps
  <2>2. SkipNested'
    BY <1>2, <1>6 DEF MemInv, SkipList, SkipNested
  <2>3. SkipLoose'
    BY <1>0, <1>3, <1>5, <1>6 DEF MemInv, SkipList, SkipLoose, MemNodes
  <2>4. SkipSeqs'
    BY <1>0, <1>2, <1>3, <1>6, EndsApart DEF MemInv, SkipList, SkipSeqs
  <2> QED
    BY <2>1, <2>2, <2>3, <2>4 DEF SkipList
<1>11. WriterHolds'
  <2>1. \A k \in MemLevels : PlaceAt(mem_writer.walk.prev, k) => PlaceAt(mem_writer.walk.prev, k)'
    BY <1>3, <1>7, <1>8, <1>9 DEF PlaceAt
  <2>2. mem_next'[x][l] = mem_next'[p][l]
    BY <1>1, <1>5
  <2> QED
    BY <1>0, <1>1, <1>2, <1>3, <1>6, <2>1, <2>2 DEF MemInv, WriterHolds
<1>12. ReaderHolds'
  <2>1. mem_seq \in Int /\ mem_reader.snap \in Int /\ mem_reader.walk.level \in MemLevels
    BY DEF MemInv, MemTypes, MemWriters, MemReaders, MemWalks
  <2>2. mem_reader' = mem_reader /\ mem_seq <= mem_seq' /\ mem_seq' \in Int
    BY <1>2, <2>1
  <2>3. \A k \in MemLevels : OnLevel(mem_next, k) \subseteq OnLevel(mem_next', k)
    BY <1>6
  <2>4. OnLevel(mem_next', 0) = OnLevel(mem_next, 0)
    BY <1>6, EndsApart
  <2>5. ReaderHolds
    BY DEF MemInv
  <2> QED
    BY <2>1, <2>2, <2>3, <2>4, <2>5, ReaderSame
<1>13. MemRefs'
  BY <1>0, <1>2, <1>3 DEF MemInv, MemRefs
<1> QED
  BY <1>4, <1>10, <1>11, <1>12, <1>13 DEF MemInv

\* The node becomes visible at its level: it is between prev and what prev led to, and
\* every other link still skips nothing.
LEMMA StepPublish == ASSUME MemInv, PublishNode PROVE MemInv'
<1> DEFINE l == mem_writer.level
           p == mem_writer.walk.prev[l]
           x == mem_writer.x
           s == mem_next[p][l]
<1>0. mem_writer.pc = "publish"
  BY DEF PublishNode
<1>1. /\ l \in MemLevels /\ x \in MemEntries /\ p \in MemNodes /\ p # x
      /\ p \in Standing(mem_next, l) /\ x \notin OnLevel(mem_next, l)
      /\ s \in MemLinks /\ x \in MemNodes /\ x.seq = mem_seq + 1
      /\ KeyBefore(p, x) /\ (s # NullNode => KeyBefore(x, s))
  BY <1>0, LinkLevel DEF MemNodes
<1>2. /\ mem_next' = [mem_next EXCEPT ![p] = [mem_next[p] EXCEPT ![l] = x]]
      /\ mem_writer' = [mem_writer EXCEPT !.level = l + 1,
                          !.pc = IF l + 1 < mem_writer.height THEN "point" ELSE "inserted"]
      /\ UNCHANGED <<mem_height, mem_seq, mem_refs, mem_reader>>
  BY <1>1 DEF PublishNode, MemInv, MemTypes
<1>3. mem_writer'.pc = (IF l + 1 < mem_writer.height THEN "point" ELSE "inserted")
      /\ mem_writer'.x = x /\ mem_writer'.level = l + 1
      /\ mem_writer'.walk = mem_writer.walk /\ mem_writer'.height = mem_writer.height
  BY <1>2 DEF MemInv, MemTypes, MemWriters, MemReaders
<1>4. MemTypes'
  <2>1. l + 1 \in 0..MemMaxHeight
    BY <1>1, MemAssumption DEF MemLevels
  <2>2. x \in MemLinks
    BY <1>1 DEF MemLinks
  <2> QED
    BY <1>1, <1>2, <2>1, <2>2 DEF MemInv, MemTypes, MemWriters, MemReaders
<1>5. \A n \in MemNodes, k \in MemLevels :
        mem_next'[n][k] = IF n = p /\ k = l THEN x ELSE mem_next[n][k]
  BY <1>1, <1>2 DEF MemInv, MemTypes, MemWriters, MemReaders
<1>6. mem_next[x][l] = s /\ mem_next'[x][l] = s /\ mem_next'[p][l] = x
  <2>1. mem_next[x][l] = s
    BY <1>0 DEF MemInv, WriterHolds
  <2> QED
    BY <1>1, <1>5, <2>1
<1>7. \A k \in MemLevels : k # l => OnLevel(mem_next', k) = OnLevel(mem_next, k)
  BY <1>5 DEF OnLevel
<1>8. OnLevel(mem_next', l) = OnLevel(mem_next, l) \cup {x}
  <2>1. ASSUME NEW e \in OnLevel(mem_next, l) PROVE e \in OnLevel(mem_next', l)
    <3>1. PICK n \in MemNodes : mem_next[n][l] = e
      BY <2>1 DEF OnLevel
    <3>2. CASE n = p
      BY <1>1, <1>6, <3>1, <3>2, <2>1 DEF OnLevel
    <3>3. CASE n # p
      BY <1>1, <1>5, <3>1, <3>3, <2>1 DEF OnLevel
    <3> QED
      BY <3>2, <3>3
  <2>2. x \in OnLevel(mem_next', l)
    BY <1>1, <1>6 DEF OnLevel
  <2>3. ASSUME NEW e \in OnLevel(mem_next', l), e # x PROVE e \in OnLevel(mem_next, l)
    <3>1. PICK n \in MemNodes : mem_next'[n][l] = e
      BY <2>3 DEF OnLevel
    <3>2. mem_next[n][l] = e
      BY <1>1, <1>5, <2>3, <3>1
    <3> QED
      BY <2>3, <3>2 DEF OnLevel
  <2> QED
    BY <2>1, <2>2, <2>3
<1>9. \A k \in MemLevels : OnLevel(mem_next, k) \subseteq MemEntries /\ Standing(mem_next, k) \subseteq MemNodes
  BY DEF Standing, OnLevel, MemNodes
<1>10. SkipGaps'
  <2> SUFFICES ASSUME NEW k \in MemLevels, NEW n \in Standing(mem_next', k)
               PROVE  /\ mem_next'[n][k] # NullNode => KeyBefore(n, mem_next'[n][k])
                      /\ \A e \in OnLevel(mem_next', k) :
                           KeyBefore(n, e) => mem_next'[n][k] # NullNode /\ ~KeyBefore(e, mem_next'[n][k])
    BY DEF SkipGaps
  <2>1. ASSUME NEW i \in MemLevels, NEW m \in Standing(mem_next, i)
        PROVE  /\ mem_next[m][i] # NullNode => KeyBefore(m, mem_next[m][i])
               /\ \A e \in OnLevel(mem_next, i) :
                    KeyBefore(m, e) => mem_next[m][i] # NullNode /\ ~KeyBefore(e, mem_next[m][i])
    BY DEF MemInv, SkipList, SkipGaps
  <2>2. CASE k # l
    <3>1. n \in Standing(mem_next, k) /\ n \in MemNodes
      BY <1>7, <1>9, <2>2 DEF Standing
    <3>2. mem_next'[n][k] = mem_next[n][k]
      BY <1>5, <2>2, <3>1
    <3> QED
      BY <1>7, <2>1, <2>2, <3>1, <3>2
  <2>3. CASE k = l /\ n = p
    <3>1. mem_next'[n][k] = x
      BY <1>6, <2>3
    <3>2. ASSUME NEW e \in OnLevel(mem_next', l), KeyBefore(p, e) PROVE ~KeyBefore(e, x)
      <4>1. CASE e = x
        BY <1>1, <4>1, KeyOrder
      <4>2. CASE e \in OnLevel(mem_next, l)
        <5>1. s # NullNode /\ ~KeyBefore(e, s)
          BY <1>1, <2>1, <3>2, <4>2
        <5>2. s \in MemNodes /\ e \in MemNodes
          BY <1>1, <1>9, <4>2, <5>1 DEF MemLinks, MemNodes
        <5> QED
          BY <1>1, <5>1, <5>2, KeyOrder
      <4> QED
        BY <1>8, <4>1, <4>2
    <3> QED
      BY <1>1, <2>3, <3>1, <3>2, EndsApart
  <2>4. CASE k = l /\ n = x
    <3>1. mem_next'[n][k] = s
      BY <1>6, <2>4
    <3>2. ASSUME NEW e \in OnLevel(mem_next', l), KeyBefore(x, e) PROVE s # NullNode /\ ~KeyBefore(e, s)
      <4>1. e \in OnLevel(mem_next, l) /\ e \in MemNodes
        BY <1>1, <1>8, <1>9, <3>2, KeyOrder DEF MemNodes
      <4>2. KeyBefore(p, e)
        BY <1>1, <3>2, <4>1, KeyOrder
      <4> QED
        BY <1>1, <2>1, <4>1, <4>2
    <3> QED
      BY <1>1, <2>4, <3>1, <3>2
  <2>5. CASE k = l /\ n # p /\ n # x
    <3>1. n \in Standing(mem_next, l) /\ n \in MemNodes
      BY <1>1, <1>8, <1>9, <2>5 DEF Standing
    <3> DEFINE m == mem_next[n][l]
    <3>2. mem_next'[n][k] = m
      BY <1>1, <1>5, <2>5, <3>1
    <3>3. m \in MemLinks /\ (m # NullNode => m \in OnLevel(mem_next, l) /\ m \in MemNodes)
      BY <1>1, <3>1 DEF MemInv, MemTypes, MemWriters, MemReaders, OnLevel, MemLinks, MemNodes
    <3>4. m # NullNode => KeyBefore(n, m)
      BY <1>1, <2>1, <3>1
    <3>5. \A e \in OnLevel(mem_next, l) : KeyBefore(n, e) => m # NullNode /\ ~KeyBefore(e, m)
      BY <1>1, <2>1, <3>1
    <3>6. ASSUME KeyBefore(n, x) PROVE m # NullNode /\ ~KeyBefore(x, m)
      <4>1. KeyBefore(n, p)
        <5>1. CASE n = HeadNode
          <6>1. p \in MemEntries
            BY <1>1, <2>5, <5>1 DEF MemNodes
          <6> QED
            BY <5>1, <6>1, KeyOrder
        <5>2. CASE n \in OnLevel(mem_next, l)
          <6>1. ~KeyBefore(p, n)
            <7> SUFFICES ASSUME KeyBefore(p, n) PROVE FALSE
              OBVIOUS
            <7>1. s # NullNode /\ ~KeyBefore(n, s)
              BY <1>1, <2>1, <5>2
            <7>2. s \in MemNodes
              BY <1>1, <7>1 DEF MemLinks, MemNodes
            <7> QED
              BY <1>1, <3>1, <3>6, <7>1, <7>2, KeyOrder
          <6> QED
            BY <1>1, <2>5, <3>1, <6>1, KeyOrder
        <5> QED
          BY <3>1, <5>1, <5>2 DEF Standing
      <4>2. p \in OnLevel(mem_next, l)
        <5>1. p # HeadNode
          BY <3>1, <4>1, KeyOrder DEF MemNodes
        <5> QED
          BY <1>1, <5>1 DEF Standing
      <4>3. m # NullNode /\ ~KeyBefore(p, m)
        BY <3>5, <4>1, <4>2
      <4> QED
        BY <1>1, <3>3, <4>3, KeyOrder
    <3> QED
      BY <1>8, <2>5, <3>2, <3>4, <3>5, <3>6
  <2> QED
    BY <2>2, <2>3, <2>4, <2>5
<1>11. SkipNested'
  <2>1. \A i, k \in MemLevels : k <= i => OnLevel(mem_next, i) \subseteq OnLevel(mem_next, k)
    BY DEF MemInv, SkipList, SkipNested
  <2>2. \A k \in MemLevels : k < l => x \in OnLevel(mem_next, k)
    BY <1>0 DEF MemInv, WriterHolds
  <2>3. \A k \in MemLevels : k >= mem_height => k # l
    BY <1>0, <1>1, MemAssumption DEF MemInv, MemTypes, MemWriters, MemReaders, WriterHolds, MemLevels
  <2>4. ASSUME NEW i \in MemLevels, NEW k \in MemLevels, k <= i
        PROVE  OnLevel(mem_next', i) \subseteq OnLevel(mem_next', k)
    <3>1. CASE i = l
      <4>1. k = l \/ k < l
        BY <2>4, <3>1, MemAssumption DEF MemLevels
      <4> QED
        BY <1>7, <1>8, <2>1, <2>2, <2>4, <3>1, <4>1
    <3>2. CASE i # l
      BY <1>7, <1>8, <2>1, <2>4, <3>2
    <3> QED
      BY <3>1, <3>2
  <2>5. \A k \in MemLevels : k >= mem_height => OnLevel(mem_next', k) = {}
    BY <1>7, <2>3 DEF MemInv, SkipList, SkipNested
  <2> QED
    BY <1>2, <2>4, <2>5 DEF SkipNested
<1>12. SkipLoose'
  <2> SUFFICES ASSUME NEW k \in MemLevels, NEW n \in MemEntries \ OnLevel(mem_next', k)
               PROVE  mem_next'[n][k] = NullNode
    BY DEF SkipLoose
  <2>1. n \notin OnLevel(mem_next, k) /\ n \in MemNodes /\ ~(n = x /\ k = l)
    BY <1>7, <1>8 DEF MemNodes
  <2>2. mem_next[n][k] = NullNode
    BY <2>1 DEF MemInv, SkipList, SkipLoose
  <2>3. ~(n = p /\ k = l)
    BY <1>1, <2>1, EndsApart DEF Standing
  <2> QED
    BY <1>5, <2>1, <2>2, <2>3
<1>13. SkipSeqs'
  <2>1. OnLevel(mem_next', 0) \subseteq OnLevel(mem_next, 0) \cup {x}
    BY <1>7, <1>8, EndsApart
  <2>2. mem_writer'.pc # "find"
    BY <1>3
  <2> QED
    BY <1>0, <1>2, <1>3, <2>1, <2>2 DEF MemInv, SkipList, SkipSeqs
<1>14. WriterHolds'
  <2>1. ASSUME NEW k \in MemLevels, k > l
        PROVE  x \notin OnLevel(mem_next', k) /\ PlaceAt(mem_writer.walk.prev, k)'
    <3>1. k # l /\ ~(k < l)
      BY <1>1, <2>1, MemAssumption DEF MemLevels
    <3>2. x \notin OnLevel(mem_next, k) /\ PlaceAt(mem_writer.walk.prev, k)
      BY <1>0, <3>1 DEF MemInv, WriterHolds
    <3>3. \A n \in MemNodes : mem_next'[n][k] = mem_next[n][k]
      BY <1>5, <3>1
    <3>4. Standing(mem_next', k) = Standing(mem_next, k) /\ OnLevel(mem_next', k) = OnLevel(mem_next, k)
      BY <1>7, <3>1 DEF Standing
    <3>5. mem_writer.walk.prev[k] \in MemNodes
      BY <1>0 DEF MemInv, WriterHolds
    <3> QED
      BY <1>3, <3>2, <3>3, <3>4, <3>5 DEF PlaceAt
  <2>2. ASSUME NEW k \in MemLevels, k < l + 1 PROVE x \in OnLevel(mem_next', k)
    <3>1. k = l \/ k < l
      BY <1>1, <2>2, MemAssumption DEF MemLevels
    <3>2. CASE k < l
      BY <1>0, <1>7, <1>8, <3>2 DEF MemInv, WriterHolds
    <3> QED
      BY <1>8, <3>1, <3>2
  <2>3. \A k \in MemLevels : k < l + 1 \/ k > l
    BY <1>1, MemAssumption DEF MemLevels
  <2>4. mem_writer.walk.prev \in [MemLevels -> MemNodes] /\ mem_writer.height <= mem_height
    BY <1>0 DEF MemInv, WriterHolds
  <2>5. mem_writer'.walk.prev \in [MemLevels -> MemNodes] /\ mem_writer'.height <= mem_height'
        /\ mem_writer'.x \in MemEntries /\ mem_writer'.x.seq = mem_seq' + 1
    BY <1>1, <1>2, <1>3, <2>4
  <2>6. \A k \in MemLevels : IF k < mem_writer'.level THEN mem_writer'.x \in OnLevel(mem_next', k)
                             ELSE /\ mem_writer'.x \notin OnLevel(mem_next', k)
                                  /\ PlaceAt(mem_writer.walk.prev, k)'
    BY <1>3, <2>1, <2>2, <2>3
  <2>7. mem_writer'.pc \in {"point", "inserted"}
        /\ (mem_writer'.pc = "point" => mem_writer'.level < mem_writer'.height)
    BY <1>3
  <2> QED
    BY <2>5, <2>6, <2>7 DEF WriterHolds
<1>15. ReaderHolds'
  <2>1. mem_seq \in Int /\ mem_reader.snap \in Int /\ mem_reader.walk.level \in MemLevels
    BY DEF MemInv, MemTypes, MemWriters, MemReaders, MemWalks
  <2>2. mem_reader' = mem_reader /\ mem_seq <= mem_seq' /\ mem_seq' \in Int
    BY <1>2, <2>1
  <2>3. \A k \in MemLevels : OnLevel(mem_next, k) \subseteq OnLevel(mem_next', k)
    BY <1>7, <1>8
  <2>4. OnLevel(mem_next', 0) \subseteq OnLevel(mem_next, 0) \cup {x}
    BY <1>7, <1>8, EndsApart
  <2>5. ReaderHolds
    BY DEF MemInv
  <2>6. ~(x.seq <= mem_reader.snap)
    BY <1>1, <2>1, <2>5 DEF ReaderHolds
  <2> QED
    BY <2>1, <2>2, <2>3, <2>4, <2>5, <2>6, ReaderSame
<1>16. MemRefs'
  BY <1>0, <1>2, <1>3 DEF MemInv, MemRefs
<1> QED
  BY <1>4, <1>10, <1>11, <1>12, <1>13, <1>14, <1>15, <1>16 DEF MemInv, SkipList

\* ldb_write: the entry is there before readers may use its sequence.
LEMMA StepCommit == ASSUME MemInv, MemCommit PROVE MemInv'
<1>1. /\ mem_writer.pc = "inserted" /\ mem_seq' = mem_writer.x.seq
      /\ mem_writer' = [mem_writer EXCEPT !.pc = "idle", !.x = NullNode, !.walk = NoWalk]
      /\ UNCHANGED <<mem_next, mem_height, mem_refs, mem_reader>>
  BY DEF MemCommit
<1>2. mem_writer.x \in MemEntries /\ mem_writer.x.seq = mem_seq + 1
  BY <1>1 DEF MemInv, WriterHolds
<1>3. NoWalk \in MemWalks
  BY EndsApart DEF NoWalk, MemWalks, MemLinks, MemNodes
<1>4. mem_seq' \in 0..MemMaxSeq /\ mem_seq' = mem_seq + 1 /\ mem_seq \in Int
  BY <1>1, <1>2, MemAssumption DEF MemInv, MemTypes, MemWriters, MemReaders, MemEntries
<1> HIDE DEF NoWalk
<1>5. MemTypes'
  BY <1>1, <1>3, <1>4 DEF MemInv, MemTypes, MemWriters, MemReaders, MemLinks
<1>6. mem_writer'.pc = "idle" /\ mem_writer'.x = NullNode
  BY <1>1 DEF MemInv, MemTypes, MemWriters, MemReaders
<1>7. SkipList'
  <2>1. SkipGaps' /\ SkipNested'
    BY <1>1 DEF MemInv, SkipList, SkipGaps, SkipNested
  <2>2. SkipLoose'
    BY <1>1 DEF MemInv, SkipList, SkipLoose
  <2>3. SkipSeqs'
    <3>1. \A e \in OnLevel(mem_next, 0) : e.seq \in Int
      BY MemAssumption DEF OnLevel, MemEntries
    <3> QED
      BY <1>1, <1>2, <1>4, <3>1 DEF MemInv, SkipList, SkipSeqs
  <2> QED
    BY <2>1, <2>2, <2>3 DEF SkipList
<1>8. WriterHolds'
  BY <1>6 DEF WriterHolds
<1>9. ReaderHolds'
  <2>1. mem_reader.snap \in Int /\ mem_reader.walk.level \in MemLevels
    BY DEF MemInv, MemTypes, MemWriters, MemReaders, MemWalks
  <2>2. mem_reader' = mem_reader /\ mem_seq <= mem_seq' /\ mem_seq' \in Int /\ mem_next' = mem_next
    BY <1>1, <1>4
  <2>3. ReaderHolds
    BY DEF MemInv
  <2> QED
    BY <1>4, <2>1, <2>2, <2>3, ReaderSame
<1>10. MemRefs'
  BY <1>1, <1>6 DEF MemInv, MemRefs
<1> QED
  BY <1>5, <1>7, <1>8, <1>9, <1>10 DEF MemInv

\* The database's reference goes.
LEMMA StepFlushed == ASSUME MemInv, MemFlushed PROVE MemInv'
<1>1. /\ mem_writer.pc = "idle" /\ mem_refs' = MemUnref(mem_refs)
      /\ mem_writer' = [mem_writer EXCEPT !.pc = "gone"]
      /\ UNCHANGED <<mem_next, mem_height, mem_seq, mem_reader>>
  BY DEF MemFlushed
<1>2. MemTypes'
  BY <1>1 DEF MemInv, MemTypes, MemWriters, MemReaders, MemUnref
<1>3. mem_writer'.pc = "gone" /\ mem_writer'.x = mem_writer.x
  BY <1>1 DEF MemInv, MemTypes, MemWriters, MemReaders
<1>4. SkipList'
  BY <1>1, <1>3, ListSame DEF MemInv
<1>5. WriterHolds'
  BY <1>1, <1>3 DEF MemInv, WriterHolds
<1>6. ReaderHolds'
  BY <1>1, ReaderQuiet
<1>7. MemRefs'
  BY <1>1, <1>3 DEF MemInv, MemRefs, MemUnref
<1> QED
  BY <1>2, <1>4, <1>5, <1>6, <1>7 DEF MemInv

\* A reader takes its snapshot and its reference.
LEMMA StepOpen == ASSUME MemInv, MemOpen PROVE MemInv'
<1>1. /\ mem_reader.pc = "idle" /\ mem_refs' = mem_refs + 1 /\ mem_writer.pc # "gone"
      /\ mem_reader' = [mem_reader EXCEPT !.pc = "ready", !.snap = mem_seq]
      /\ UNCHANGED <<mem_next, mem_height, mem_seq, mem_writer>>
  BY DEF MemOpen
<1>2. MemTypes'
  <2>1. mem_reader \in MemReaders /\ mem_seq \in 0..MemMaxSeq
    BY DEF MemInv, MemTypes
  <2>2. mem_reader' \in MemReaders
    BY <1>1, <2>1 DEF MemReaders
  <2> QED
    BY <1>1, <2>2 DEF MemInv, MemTypes
<1>3. mem_reader'.pc = "ready" /\ mem_reader'.snap = mem_seq /\ mem_reader'.node = mem_reader.node
      /\ mem_reader'.base = mem_reader.base
  BY <1>1 DEF MemInv, MemTypes, MemWriters, MemReaders
<1>4. WriterHolds' /\ SkipList'
  BY <1>1, WriterQuiet
<1>5. ReaderHolds'
  BY <1>1, <1>3 DEF MemInv, MemTypes, MemWriters, MemReaders, ReaderHolds
<1>6. MemRefs'
  BY <1>1, <1>3 DEF MemInv, MemRefs
<1> QED
  BY <1>2, <1>4, <1>5, <1>6 DEF MemInv

\* An operation of the reader begins its search: at the head, with all that is linked as base.
LEMMA BeginHolds ==
  ASSUME MemInv, mem_reader.pc = "ready", NEW op \in {"get", "seek", "prev", "last"},
         NEW key \in MemLinks, op # "last" => key \in MemEntries,
         op = "get" => key.seq = mem_reader.snap,
         NEW h \in 1..mem_height, BeginWalk(op, WalkOf(op), key, h),
         UNCHANGED <<mem_next, mem_height, mem_seq, mem_refs, mem_writer>>
  PROVE  MemInv'
<1> DEFINE w == StartWalk(WalkOf(op), key, h)
<1>1. WalkOf(op) \in {"ge", "lt", "last"} /\ h \in 1..MemMaxHeight
  <2>1. WalkOf(op) \in {"ge", "lt", "last"}
    BY DEF WalkOf
  <2>2. h \in 1..MemMaxHeight
    BY MemAssumption DEF MemInv, MemTypes
  <2> QED
    BY <2>1, <2>2
<1>2. w \in MemWalks /\ w.kind = WalkOf(op) /\ w.key = key /\ w.node = HeadNode
      /\ w.prev \in [MemLevels -> MemNodes]
  BY <1>1, WalkStarts
<1>3. LinkedEntries = OnLevel(mem_next, 0)
  BY DEF LinkedEntries, OnLevel, MemNodes
<1>4. mem_reader' = [mem_reader EXCEPT !.pc = "walk", !.op = op, !.key = key, !.ops = @ + 1,
                                       !.base = LinkedEntries, !.walk = w]
  BY DEF BeginWalk
<1> HIDE DEF w
<1>5. mem_reader'.pc = "walk" /\ mem_reader'.op = op /\ mem_reader'.key = key /\ mem_reader'.walk = w
      /\ mem_reader'.base = OnLevel(mem_next, 0) /\ mem_reader'.snap = mem_reader.snap
      /\ mem_reader'.node = mem_reader.node
  BY <1>3, <1>4 DEF MemInv, MemTypes, MemWriters, MemReaders
<1>6. MemTypes'
  <2>1. OnLevel(mem_next, 0) \subseteq MemEntries /\ key \in MemNodes \cup {NullNode}
    BY DEF OnLevel, MemNodes, MemLinks
  <2>2. mem_reader \in MemReaders
    BY DEF MemInv, MemTypes
  <2>3. mem_reader' \in MemReaders
    <3>1. mem_reader.ops + 1 \in Nat
      BY <2>2 DEF MemReaders
    <3>2. op \in {"none", "get", "seek", "last", "prev", "first", "next"}
      OBVIOUS
    <3> QED
      BY <1>2, <1>3, <1>4, <2>1, <2>2, <3>1, <3>2 DEF MemReaders
  <2> QED
    BY <1>2, <1>3, <1>4, <2>1, <2>2, <2>3 DEF MemInv, MemTypes
<1>7. WriterHolds' /\ SkipList'
  BY WriterQuiet
<1>8. ReaderHolds'
  <2>1. op # "last" => KeyBefore(HeadNode, key)
    BY KeyOrder
  <2>2. HeadNode \in Standing(mem_next, w.level)
    BY DEF Standing
  <2>3. w.kind # "ended"
    BY <1>1, <1>2
  <2>4. mem_reader.snap <= mem_seq /\ mem_reader.node \in OnLevel(mem_next, 0) \cup {NullNode}
    BY DEF MemInv, ReaderHolds
  <2> QED
    BY <1>2, <1>5, <2>1, <2>2, <2>3, <2>4 DEF ReaderHolds
<1>9. MemRefs'
  BY <1>5 DEF MemInv, MemRefs
<1> QED
  BY <1>6, <1>7, <1>8, <1>9 DEF MemInv

\* ldb_memtable_get and ldb_skipiter_seek.
LEMMA StepSeek ==
  ASSUME MemInv, NEW op \in {"get", "seek"}, NEW user \in MemUsers, NEW seq \in 1..MemMaxSeq,
         MemSeek(op, user, seq)
  PROVE  MemInv'
<1>1. PICK h \in 1..mem_height : BeginWalk(op, "ge", LookupKey(user, seq), h)
  BY DEF MemSeek
<1>2. LookupKey(user, seq) \in MemEntries /\ LookupKey(user, seq).seq = seq
  BY DEF LookupKey, MemEntries
<1>3. mem_reader.pc = "ready" /\ (op = "get" => seq = mem_reader.snap)
      /\ UNCHANGED <<mem_next, mem_height, mem_seq, mem_refs, mem_writer>>
  BY DEF MemSeek
<1>4. WalkOf(op) = "ge"
  BY DEF WalkOf
<1> QED
  BY <1>1, <1>2, <1>3, <1>4, BeginHolds DEF MemLinks

\* ldb_skipiter_last and ldb_skipiter_prev.
LEMMA StepLast == ASSUME MemInv, MemLast PROVE MemInv'
<1>1. PICK h \in 1..mem_height : BeginWalk("last", "last", NullNode, h)
  BY DEF MemLast
<1>2. WalkOf("last") = "last" /\ NullNode \in MemLinks
  BY DEF WalkOf, MemLinks
<1> QED
  BY <1>1, <1>2, BeginHolds DEF MemLast

\* The key is the node the iterator stands on.
LEMMA StepPrev == ASSUME MemInv, MemPrev PROVE MemInv'
<1>1. PICK h \in 1..mem_height : BeginWalk("prev", "lt", mem_reader.node, h)
  BY DEF MemPrev
<1>2. WalkOf("prev") = "lt"
  BY DEF WalkOf
<1>3. mem_reader.node \in MemEntries /\ mem_reader.node \in MemLinks
  BY DEF MemPrev, SkipValid, MemInv, MemTypes, MemReaders, MemLinks
<1> QED
  BY <1>1, <1>2, <1>3, BeginHolds DEF MemPrev

\* A load of the reader's search: it stands on the list and before its key, and the link
\* that ends the search skips no entry of the base.
LEMMA StepReaderWalk == ASSUME MemInv, MemReaderWalk PROVE MemInv'
<1> DEFINE w == mem_reader.walk
           n == mem_next[w.node][w.level]
           v == WalkStep(w)
           k == mem_reader.key
           op == mem_reader.op
<1>1. mem_reader.pc = "walk" /\ w.kind # "ended"
      /\ mem_reader' = [mem_reader EXCEPT !.walk = v]
      /\ UNCHANGED <<mem_next, mem_height, mem_seq, mem_refs, mem_writer>>
  BY DEF MemReaderWalk, WalkEnded
<1>2. /\ op \in {"get", "seek", "prev", "last"} /\ w.kind = WalkOf(op)
      /\ w.prev \in [MemLevels -> MemNodes] /\ (op # "last" => w.key = k /\ k \in MemEntries)
      /\ w.node \in Standing(mem_next, w.level) /\ (op # "last" => KeyBefore(w.node, k))
  BY <1>1 DEF MemInv, ReaderHolds
<1>3. w \in MemWalks /\ w.level \in MemLevels /\ w.node \in MemNodes
  BY DEF MemInv, MemTypes, MemReaders, MemWalks
<1>4. w.kind \in {"ge", "lt", "last"}
  BY <1>2 DEF WalkOf
<1>5. v \in MemWalks /\ v.prev \in [MemLevels -> MemNodes] /\ v.key = w.key /\ v.kind \in {w.kind, "ended"}
  BY <1>2, <1>3, <1>4, WalkTypes DEF MemInv
<1>6. MemTypes'
  <2>1. mem_reader \in MemReaders
    BY DEF MemInv, MemTypes
  <2>2. mem_reader' \in MemReaders
    BY <1>1, <1>5, <2>1 DEF MemReaders
  <2> QED
    BY <1>1, <2>2 DEF MemInv, MemTypes
<1>7. mem_reader'.pc = "walk" /\ mem_reader'.op = op /\ mem_reader'.key = k /\ mem_reader'.walk = v
      /\ mem_reader'.base = mem_reader.base /\ mem_reader'.snap = mem_reader.snap
      /\ mem_reader'.node = mem_reader.node
  BY <1>1 DEF MemInv, MemTypes, MemReaders
<1>8. n \in MemLinks /\ (n # NullNode => n \in OnLevel(mem_next, w.level) /\ n \in MemNodes)
  BY <1>3 DEF MemInv, MemTypes, OnLevel, MemLinks, MemNodes
<1>9. ASSUME w.level # 0 PROVE w.node \in Standing(mem_next, w.level - 1)
  <2>1. w.level - 1 \in MemLevels /\ w.level - 1 <= w.level
    BY <1>3, <1>9, MemAssumption DEF MemLevels
  <2>2. OnLevel(mem_next, w.level) \subseteq OnLevel(mem_next, w.level - 1)
    BY <1>3, <2>1 DEF MemInv, SkipList, SkipNested
  <2> QED
    BY <1>2, <2>2 DEF Standing
<1>10. ASSUME w.level = 0
       PROVE  /\ \A e \in mem_reader.base :
                   KeyBefore(w.node, e) => n # NullNode /\ ~KeyBefore(e, n)
              /\ w.node \in OnLevel(mem_next, 0) \/ w.node = HeadNode
              /\ n \in OnLevel(mem_next, 0) \cup {NullNode}
  <2>1. w.node \in Standing(mem_next, 0) /\ mem_reader.base \subseteq OnLevel(mem_next, 0)
    BY <1>2, <1>10 DEF MemInv, ReaderHolds
  <2>2. \A e \in OnLevel(mem_next, 0) : KeyBefore(w.node, e) => n # NullNode /\ ~KeyBefore(e, n)
    BY <1>3, <1>10, <2>1 DEF MemInv, SkipList, SkipGaps
  <2> QED
    BY <1>8, <1>10, <2>1, <2>2 DEF Standing
<1>11. mem_reader.base \subseteq MemEntries /\ MemEntries \subseteq MemNodes
  BY DEF MemInv, MemTypes, MemReaders, MemNodes
<1> DEFINE found == IF v.found = HeadNode THEN NullNode ELSE v.found
<1>12. /\ v.kind # "ended" => v.node \in Standing(mem_next, v.level) /\ (op # "last" => KeyBefore(v.node, k))
       /\ v.kind = "ended" => ReaderFinds(found)
  <2>1. CASE op \in {"get", "seek"}
    <3>1. w.kind = "ge" /\ w.key = k /\ k \in MemEntries /\ KeyBefore(w.node, k)
      BY <1>2, <2>1 DEF WalkOf
    <3>2. v = FindGe(w, n)
      BY <3>1 DEF WalkStep
    <3>3. CASE KeyAfterNode(k, n)
      <4>1. v = [w EXCEPT !.node = n]
        BY <3>1, <3>2, <3>3 DEF FindGe
      <4>2. v.kind = "ge" /\ v.level = w.level /\ v.node = n
        BY <1>3, <3>1, <4>1 DEF MemWalks
      <4> QED
        BY <1>8, <3>3, <4>2 DEF KeyAfterNode, Standing
    <3>4. CASE ~KeyAfterNode(k, n) /\ w.level # 0
      <4>1. v.kind = "ge" /\ v.level = w.level - 1 /\ v.node = w.node
        BY <1>3, <3>1, <3>2, <3>4 DEF FindGe, MemWalks
      <4> QED
        BY <1>9, <3>1, <3>4, <4>1
    <3>5. CASE ~KeyAfterNode(k, n) /\ w.level = 0
      <4>1. v.kind = "ended" /\ v.found = n
        BY <1>3, <3>1, <3>2, <3>5 DEF FindGe, MemWalks
      <4>2. n # HeadNode
        BY <1>8, EndsApart DEF MemLinks
      <4>3. n # NullNode => ~KeyBefore(n, k)
        BY <3>5 DEF KeyAfterNode
      <4>4. ASSUME NEW e \in mem_reader.base, ~KeyBefore(e, k) PROVE KeyBefore(w.node, e)
        BY <1>3, <1>11, <3>1, <4>4, KeyOrder
      <4> QED
        BY <1>10, <2>1, <3>5, <4>1, <4>2, <4>3, <4>4 DEF ReaderFinds
    <3> QED
      BY <3>3, <3>4, <3>5
  <2>2. CASE op = "prev"
    <3>1. w.kind = "lt" /\ w.key = k /\ k \in MemEntries /\ KeyBefore(w.node, k)
      BY <1>2, <2>2 DEF WalkOf
    <3>2. v = FindLt(w, n)
      BY <3>1 DEF WalkStep
    <3>3. CASE n # NullNode /\ KeyBefore(n, k)
      <4>1. v = [w EXCEPT !.node = n]
        BY <3>1, <3>2, <3>3 DEF FindLt
      <4>2. v.kind = "lt" /\ v.level = w.level /\ v.node = n
        BY <1>3, <3>1, <4>1 DEF MemWalks
      <4> QED
        BY <1>8, <3>3, <4>2 DEF Standing
    <3>4. CASE ~(n # NullNode /\ KeyBefore(n, k)) /\ w.level # 0
      <4>1. v.kind = "lt" /\ v.level = w.level - 1 /\ v.node = w.node
        BY <1>3, <3>1, <3>2, <3>4 DEF FindLt, MemWalks
      <4> QED
        BY <1>9, <3>1, <3>4, <4>1
    <3>5. CASE ~(n # NullNode /\ KeyBefore(n, k)) /\ w.level = 0
      <4>1. v.kind = "ended" /\ v.found = w.node
        BY <1>3, <3>1, <3>2, <3>5 DEF FindLt, MemWalks
      <4>2. ASSUME NEW e \in mem_reader.base, found = NullNode \/ KeyBefore(found, e)
            PROVE  ~KeyBefore(e, k)
        <5>1. w.node # NullNode
          BY <1>3, EndsApart DEF MemNodes
        <5>2. KeyBefore(w.node, e)
          BY <1>11, <4>1, <4>2, <5>1, KeyOrder
        <5>3. n # NullNode /\ ~KeyBefore(e, n)
          BY <1>10, <3>5, <5>2
        <5> QED
          BY <1>8, <1>11, <3>1, <3>5, <5>3, KeyOrder
      <4>3. found \in OnLevel(mem_next, 0) \cup {NullNode}
        BY <1>10, <3>5, <4>1
      <4> QED
        BY <2>2, <4>1, <4>2, <4>3 DEF ReaderFinds
    <3> QED
      BY <3>3, <3>4, <3>5
  <2>3. CASE op = "last"
    <3>1. w.kind = "last"
      BY <1>2, <2>3 DEF WalkOf
    <3>2. v = FindLast(w, n)
      BY <3>1 DEF WalkStep
    <3>3. CASE n # NullNode
      <4>1. v = [w EXCEPT !.node = n]
        BY <3>1, <3>2, <3>3 DEF FindLast
      <4>2. v.kind = "last" /\ v.level = w.level /\ v.node = n
        BY <1>3, <3>1, <4>1 DEF MemWalks
      <4> QED
        BY <1>8, <2>3, <3>3, <4>2 DEF Standing
    <3>4. CASE n = NullNode /\ w.level # 0
      <4>1. v.kind = "last" /\ v.level = w.level - 1 /\ v.node = w.node
        BY <1>3, <3>1, <3>2, <3>4 DEF FindLast, MemWalks
      <4> QED
        BY <1>9, <2>3, <3>4, <4>1
    <3>5. CASE n = NullNode /\ w.level = 0
      <4>1. v.kind = "ended" /\ v.found = w.node
        BY <1>3, <3>1, <3>2, <3>5 DEF FindLast, MemWalks
      <4>2. ASSUME NEW e \in mem_reader.base PROVE found # NullNode /\ ~KeyBefore(found, e)
        <5>1. ~KeyBefore(w.node, e)
          BY <1>10, <3>5
        <5>2. w.node # HeadNode /\ w.node # NullNode
          BY <1>3, <1>11, <5>1, KeyOrder, EndsApart DEF MemNodes
        <5> QED
          BY <4>1, <5>1, <5>2
      <4>3. found \in OnLevel(mem_next, 0) \cup {NullNode}
        BY <1>10, <3>5, <4>1
      <4> QED
        BY <2>3, <4>1, <4>2, <4>3 DEF ReaderFinds
    <3> QED
      BY <3>3, <3>4, <3>5
  <2> QED
    BY <1>2, <2>1, <2>2, <2>3
<1>13. ReaderFinds(found) => ReaderFinds(IF mem_reader.walk.found = HeadNode THEN NullNode ELSE mem_reader.walk.found)'
  BY <1>1, <1>7 DEF ReaderFinds
<1>14. ReaderHolds'
  <2> HIDE DEF v, found
  <2>1. /\ mem_reader.snap <= mem_seq
        /\ mem_reader.node \in OnLevel(mem_next, 0) \cup {NullNode}
        /\ mem_reader.base \subseteq OnLevel(mem_next, 0)
        /\ \A e \in OnLevel(mem_next, 0) : e.seq <= mem_reader.snap => e \in mem_reader.base
        /\ op = "get" => k.seq = mem_reader.snap
    BY <1>1 DEF MemInv, ReaderHolds
  <2> QED
    BY <1>1, <1>2, <1>5, <1>7, <1>12, <1>13, <2>1 DEF ReaderHolds
<1>15. WriterHolds' /\ SkipList'
  BY <1>1, WriterQuiet
<1>16. MemRefs'
  BY <1>1, <1>7 DEF MemInv, MemRefs
<1> QED
  BY <1>6, <1>14, <1>15, <1>16 DEF MemInv

\* The search is over.
LEMMA StepFound == ASSUME MemInv, MemFound PROVE MemInv'
<1> DEFINE found == IF mem_reader.walk.found = HeadNode THEN NullNode ELSE mem_reader.walk.found
<1>1. mem_reader.pc = "walk" /\ mem_reader.walk.kind = "ended"
      /\ mem_reader' = [mem_reader EXCEPT !.pc = "done", !.walk = NoWalk, !.node = found]
      /\ UNCHANGED <<mem_next, mem_height, mem_seq, mem_refs, mem_writer>>
  BY DEF MemFound, WalkEnded
<1>2. ReaderFinds(found)
  BY <1>1 DEF MemInv, ReaderHolds
<1>3. found \in OnLevel(mem_next, 0) \cup {NullNode} /\ found \in MemLinks
  BY <1>2 DEF ReaderFinds, OnLevel, MemLinks
<1>4. NoWalk \in MemWalks
  BY EndsApart DEF NoWalk, MemWalks, MemLinks, MemNodes
<1> HIDE DEF NoWalk, found
<1>5. mem_reader'.pc = "done" /\ mem_reader'.op = mem_reader.op /\ mem_reader'.key = mem_reader.key
      /\ mem_reader'.base = mem_reader.base /\ mem_reader'.snap = mem_reader.snap
      /\ mem_reader'.node = found
  BY <1>1 DEF MemInv, MemTypes, MemReaders
<1>6. MemTypes'
  <2>1. mem_reader \in MemReaders
    BY DEF MemInv, MemTypes
  <2>2. mem_reader' \in MemReaders
    BY <1>1, <1>3, <1>4, <2>1 DEF MemReaders
  <2> QED
    BY <1>1, <2>2 DEF MemInv, MemTypes
<1>7. ReaderFinds(mem_reader.node)'
  BY <1>1, <1>2, <1>5 DEF ReaderFinds
<1>8. ReaderHolds'
  BY <1>1, <1>3, <1>5, <1>7 DEF MemInv, ReaderHolds
<1>9. WriterHolds' /\ SkipList'
  BY <1>1, WriterQuiet
<1>10. MemRefs'
  BY <1>1, <1>5 DEF MemInv, MemRefs
<1> QED
  BY <1>6, <1>8, <1>9, <1>10 DEF MemInv

\* ldb_skipiter_first and ldb_skipiter_next: the one link they load skips nothing.
LEMMA StepStep == ASSUME MemInv, NEW op \in {"first", "next"}, MemStep(op) PROVE MemInv'
<1> DEFINE from == IF op = "first" THEN HeadNode ELSE mem_reader.node
           n == mem_next[from][0]
<1>1. mem_reader.pc = "ready"
      /\ mem_reader' = [mem_reader EXCEPT !.pc = "done", !.op = op, !.ops = @ + 1, !.key = from,
                                          !.base = LinkedEntries, !.node = n]
      /\ UNCHANGED <<mem_next, mem_height, mem_seq, mem_refs, mem_writer>>
      /\ (op = "next" => mem_reader.node # NullNode)
  BY DEF MemStep, SkipValid
<1>2. LinkedEntries = OnLevel(mem_next, 0) /\ OnLevel(mem_next, 0) \subseteq MemEntries
  BY DEF LinkedEntries, OnLevel, MemNodes
<1>3. from \in Standing(mem_next, 0) /\ from \in MemNodes
  BY <1>1, <1>2 DEF MemInv, ReaderHolds, Standing, MemNodes
<1>4. n \in MemLinks /\ n \in OnLevel(mem_next, 0) \cup {NullNode}
  BY <1>3, EndsApart DEF MemInv, MemTypes, OnLevel, MemLinks
<1>5. \A e \in OnLevel(mem_next, 0) : KeyBefore(from, e) => n # NullNode /\ ~KeyBefore(e, n)
  BY <1>3, EndsApart DEF MemInv, SkipList, SkipGaps
<1> HIDE DEF from, n
<1>6. mem_reader'.pc = "done" /\ mem_reader'.op = op /\ mem_reader'.key = from
      /\ mem_reader'.base = OnLevel(mem_next, 0) /\ mem_reader'.snap = mem_reader.snap
      /\ mem_reader'.node = n
  BY <1>1, <1>2 DEF MemInv, MemTypes, MemReaders
<1>7. MemTypes'
  <2>1. mem_reader \in MemReaders
    BY DEF MemInv, MemTypes
  <2>2. mem_reader.ops + 1 \in Nat /\ from \in MemNodes \cup {NullNode}
    BY <1>3, <2>1 DEF MemReaders
  <2>3. mem_reader' \in MemReaders
    BY <1>1, <1>2, <1>4, <2>1, <2>2 DEF MemReaders
  <2> QED
    BY <1>1, <2>3 DEF MemInv, MemTypes
<1>8. ReaderFinds(mem_reader.node)'
  BY <1>1, <1>4, <1>5, <1>6 DEF ReaderFinds
<1>9. ReaderHolds'
  <2>1. mem_reader.snap <= mem_seq
    BY DEF MemInv, ReaderHolds
  <2> QED
    BY <1>1, <1>4, <1>6, <1>8, <2>1 DEF ReaderHolds
<1>10. WriterHolds' /\ SkipList'
  BY <1>1, WriterQuiet
<1>11. MemRefs'
  BY <1>1, <1>6 DEF MemInv, MemRefs
<1> QED
  BY <1>7, <1>9, <1>10, <1>11 DEF MemInv

\* The result is used.
LEMMA StepUse == ASSUME MemInv, MemUse PROVE MemInv'
<1>1. mem_reader.pc = "done" /\ UNCHANGED <<mem_next, mem_height, mem_seq, mem_refs, mem_writer>>
      /\ mem_reader' = [mem_reader EXCEPT !.pc = IF mem_reader.op = "get" THEN "finish" ELSE "ready",
                                          !.base = {}, !.key = NullNode]
  BY DEF MemUse
<1>2. mem_reader'.pc \in {"finish", "ready"} /\ mem_reader'.base = {}
      /\ mem_reader'.snap = mem_reader.snap /\ mem_reader'.node = mem_reader.node
  BY <1>1 DEF MemInv, MemTypes, MemReaders
<1>3. MemTypes'
  <2>1. mem_reader \in MemReaders
    BY DEF MemInv, MemTypes
  <2>2. mem_reader' \in MemReaders
    BY <1>1, <2>1 DEF MemReaders
  <2> QED
    BY <1>1, <2>2 DEF MemInv, MemTypes
<1>4. ReaderHolds'
  BY <1>1, <1>2 DEF MemInv, ReaderHolds
<1>5. WriterHolds' /\ SkipList'
  BY <1>1, WriterQuiet
<1>6. MemRefs'
  BY <1>1, <1>2 DEF MemInv, MemRefs
<1> QED
  BY <1>3, <1>4, <1>5, <1>6 DEF MemInv

\* The reader's reference goes.
LEMMA StepClose == ASSUME MemInv, MemClose PROVE MemInv'
<1>1. mem_reader.pc \in {"ready", "finish"} /\ UNCHANGED <<mem_next, mem_height, mem_seq, mem_writer>>
      /\ mem_reader' = [mem_reader EXCEPT !.pc = "closed", !.node = NullNode]
      /\ mem_refs' = MemUnref(mem_refs)
  BY DEF MemClose
<1>2. mem_reader'.pc = "closed" /\ mem_reader'.base = mem_reader.base
      /\ mem_reader'.snap = mem_reader.snap /\ mem_reader'.node = NullNode
  BY <1>1 DEF MemInv, MemTypes, MemReaders
<1>3. MemTypes'
  <2>1. mem_reader \in MemReaders /\ mem_refs \in Int
    BY DEF MemInv, MemTypes
  <2>2. mem_reader' \in MemReaders
    BY <1>1, <2>1 DEF MemReaders, MemLinks
  <2>3. mem_refs' \in Int
    BY <1>1, <2>1 DEF MemUnref
  <2> QED
    BY <1>1, <2>2, <2>3 DEF MemInv, MemTypes
<1>4. ReaderHolds'
  BY <1>1, <1>2 DEF MemInv, ReaderHolds
<1>5. WriterHolds' /\ SkipList'
  BY <1>1, WriterQuiet
<1>6. MemRefs'
  BY <1>1, <1>2 DEF MemInv, MemRefs, MemUnref
<1> QED
  BY <1>3, <1>4, <1>5, <1>6 DEF MemInv

\* Every step of writer and reader keeps the invariant.
LEMMA MemStepInv == MemInv /\ [MemNext]_memVars => MemInv'
<1> SUFFICES ASSUME MemInv, [MemNext]_memVars PROVE MemInv'
  OBVIOUS
<1>1. CASE UNCHANGED memVars
  <2>1. UNCHANGED <<mem_next, mem_height, mem_seq, mem_refs, mem_writer, mem_reader>>
    BY <1>1 DEF memVars
  <2>2. WriterHolds' /\ SkipList' /\ ReaderHolds'
    BY <2>1, WriterQuiet, ReaderQuiet
  <2>3. MemTypes' /\ MemRefs'
    BY <2>1 DEF MemInv, MemTypes, MemRefs
  <2> QED
    BY <2>2, <2>3 DEF MemInv
<1>2. CASE MemNext
  BY <1>2, StepAdd, StepWriterWalk, StepRaise, StepSetNode, StepPublish, StepCommit, StepFlushed,
     StepOpen, StepSeek, StepLast, StepPrev, StepReaderWalk, StepFound, StepStep, StepUse, StepClose
     DEF MemNext
<1> QED
  BY <1>1, <1>2

\* What the invariant says of a result: for a get, the newest entry of the snapshot, as
\* everything linked since is newer.
LEMMA MemInvReads == MemInv => MemReads
<1> SUFFICES ASSUME MemInv PROVE MemReads
  OBVIOUS
<1> DEFINE n == mem_reader.node
           k == mem_reader.key
           b == mem_reader.base
<1>0. LinkedEntries = OnLevel(mem_next, 0) /\ OnLevel(mem_next, 0) \subseteq MemEntries
      /\ MemEntries \subseteq MemNodes
  BY DEF LinkedEntries, OnLevel, MemNodes
<1>1. mem_reader.pc \in {"ready", "walk", "done", "finish"} => mem_refs > 0
  BY DEF MemInv, MemRefs
<1>2. ASSUME mem_reader.pc = "done"
      PROVE  /\ ReaderFinds(n) /\ mem_reader.op # "none" /\ b \subseteq LinkedEntries
             /\ \A e \in LinkedEntries : e.seq <= mem_reader.snap => e \in b
             /\ mem_reader.op \in {"get", "seek", "prev"} => k \in MemEntries
             /\ mem_reader.op = "get" => k.seq = mem_reader.snap
             /\ mem_reader.op \in {"get", "seek", "last", "prev", "first", "next"}
  BY <1>0, <1>2 DEF MemInv, MemTypes, MemReaders, ReaderHolds
<1>3. ASSUME mem_reader.pc = "done", mem_reader.op = "seek"
      PROVE  /\ n # NullNode => n \in LinkedEntries /\ ~KeyBefore(n, k)
             /\ \A e \in b : ~KeyBefore(e, k) => ~NodeUpTo(e, n)
  BY <1>0, <1>2, <1>3 DEF ReaderFinds, NodeUpTo
<1>4. ASSUME mem_reader.pc = "done", mem_reader.op = "get"
      PROVE  {e \in {n} : e # NullNode /\ e.user = k.user} = NewestEntry(k.user, mem_reader.snap)
  <2>1. \A e \in MemEntries : e = [user |-> e.user, seq |-> e.seq] /\ e.user \in Int /\ e.seq \in Int
    <3> TAKE e \in MemEntries
    <3>1. e.user \in MemUsers /\ e.seq \in 1..MemMaxSeq /\ e = [user |-> e.user, seq |-> e.seq]
      BY DEF MemEntries
    <3> QED
      BY <3>1, MemAssumption
  <2>2. /\ n \in LinkedEntries \cup {NullNode}
        /\ n # NullNode => ~KeyBefore(n, k)
        /\ \A e \in b : ~KeyBefore(e, k) => n # NullNode /\ ~KeyBefore(e, n)
    BY <1>0, <1>2, <1>4 DEF ReaderFinds
  <2>3. k \in MemEntries /\ k.seq = mem_reader.snap
    BY <1>2, <1>4
  <2>4. ASSUME NEW f \in LinkedEntries, f.user = k.user, f.seq <= mem_reader.snap
        PROVE  n # NullNode /\ ~KeyBefore(f, n)
    <3>1. f \in b /\ f \in MemEntries
      BY <1>0, <1>2, <1>4, <2>4
    <3>2. ~KeyBefore(f, k)
      BY <2>1, <2>3, <2>4, <3>1 DEF KeyBefore
    <3> QED
      BY <2>2, <3>1, <3>2
  <2>5. ASSUME n # NullNode, n.user = k.user PROVE n \in NewestEntry(k.user, mem_reader.snap)
    <3>1. n \in LinkedEntries /\ n \in MemEntries /\ ~KeyBefore(n, k)
      BY <1>0, <2>2, <2>5
    <3>2. n.seq <= mem_reader.snap
      BY <2>1, <2>3, <2>5, <3>1 DEF KeyBefore
    <3>3. ASSUME NEW f \in LinkedEntries, f.user = k.user, f.seq <= mem_reader.snap PROVE f.seq <= n.seq
      <4>1. ~KeyBefore(f, n) /\ f \in MemEntries
        BY <1>0, <2>4, <3>3
      <4> QED
        BY <2>1, <2>5, <3>1, <3>3, <4>1 DEF KeyBefore
    <3> QED
      BY <2>5, <3>1, <3>2, <3>3 DEF NewestEntry
  <2>6. ASSUME NEW e \in NewestEntry(k.user, mem_reader.snap)
        PROVE  n # NullNode /\ n.user = k.user /\ e = n
    <3>1. e \in LinkedEntries /\ e \in MemEntries /\ e.user = k.user /\ e.seq <= mem_reader.snap
      BY <1>0 DEF NewestEntry
    <3>2. n # NullNode /\ ~KeyBefore(e, n) /\ n \in MemEntries /\ n \in LinkedEntries /\ ~KeyBefore(n, k)
      BY <1>0, <2>2, <2>4, <3>1
    <3>3. n.user = k.user
      BY <2>1, <2>3, <3>1, <3>2 DEF KeyBefore
    <3>4. n.seq <= mem_reader.snap
      BY <2>1, <2>3, <3>2, <3>3 DEF KeyBefore
    <3>5. n.seq <= e.seq
      BY <3>2, <3>3, <3>4 DEF NewestEntry
    <3>6. e.seq <= n.seq
      BY <2>1, <3>1, <3>2, <3>3 DEF KeyBefore
    <3>7. e.seq = n.seq /\ e.user = n.user
      BY <2>1, <3>1, <3>2, <3>3, <3>5, <3>6
    <3> QED
      BY <2>1, <3>1, <3>2, <3>3, <3>7
  <2> QED
    BY <2>5, <2>6
<1>5. ASSUME mem_reader.pc = "done", mem_reader.op = "prev"
      PROVE  \A e \in b : NodeAfter(e, IF n = NullNode THEN HeadNode ELSE n) => ~KeyBefore(e, k)
  <2>1. n # HeadNode
    BY <1>0, <1>2, <1>5, EndsApart DEF ReaderFinds
  <2> QED
    BY <1>2, <1>5, <2>1 DEF ReaderFinds, NodeAfter
<1>6. ASSUME mem_reader.pc = "done", mem_reader.op = "last"
      PROVE  \A e \in b : n # NullNode /\ ~KeyBefore(n, e)
  BY <1>2, <1>6 DEF ReaderFinds
<1>7. ASSUME mem_reader.pc = "done", mem_reader.op \in {"first", "next"}
      PROVE  \A e \in b : NodeAfter(e, k) => ~NodeUpTo(e, n)
  <2>1. \A e \in b : NodeAfter(e, k) => KeyBefore(k, e)
    BY <1>0, <1>2, <1>7, KeyOrder DEF NodeAfter
  <2> QED
    BY <1>2, <1>7, <2>1 DEF ReaderFinds, NodeUpTo
<1> QED
  BY <1>1, <1>2, <1>3, <1>4, <1>5, <1>6, <1>7 DEF MemReads

\* For any set of keys, any number of entries and any heights: a reader that walks the
\* skiplist without a lock while the writer links a node (skiplist.c:233-304, 388-443)
\* misses no entry that was linked when its operation began, a get finds the newest entry
\* of its snapshot, and the memtable lives as long as somebody reads it (memtable.c:93).
THEOREM ReaderMissesNothing == MemSpec => []MemReads
<1>1. MemSpec => []MemInv
  BY MemInitInv, MemStepInv, PTL DEF MemSpec
<1> QED
  BY <1>1, MemInvReads, PTL

=============================================================================
