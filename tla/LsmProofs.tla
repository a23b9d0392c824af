------------------------------ MODULE LsmProofs ------------------------------
(***************************************************************************)
(* Proofs about the levels: with every table at most one entry of a level  *)
(* below 0 answers a lookup, the layers are ordered by age, and a read at  *)
(* a live sequence number finds what the history holds.  The theorems      *)
(* exclude a manual compaction next to memtables flushed below level 0,    *)
(* for which LsmManual.cfg shows a counterexample.                         *)
(***************************************************************************)
EXTENDS Lsm, FiniteSetTheorems, WellFoundedInduction, TLAPS

-----------------------------------------------------------------------------
(* The inductive invariant.                                                *)

Files == [num : Nat, ents : SUBSET Entries, smallest : Entries, largest : Entries]

(* A file of a version: its bounds are its first and its last entry.       *)
Tables ==
  {f \in Files : /\ f.smallest \in f.ents /\ f.largest \in f.ents
                 /\ \A e \in f.ents : AtOrBefore(f.smallest, e) /\ AtOrBefore(e, f.largest)}

Versions == {v \in [Levels -> SUBSET Tables] : \A l \in Levels : IsFiniteSet(v[l])}

Live == snapshots \cup {last_sequence}

LsmTypes ==
  /\ last_sequence \in 0..MaxSeq
  /\ history \subseteq Entries /\ mem \subseteq history /\ imm \subseteq history
  /\ files \in Versions
  /\ \A l \in Levels : \A f \in files[l] : f.ents \subseteq history
  /\ snapshots \subseteq 0..last_sequence
  /\ compact_pointer \in [Levels -> {Null} \cup Entries]
  /\ \A a, b \in history : a.seq = b.seq => a = b
  /\ \A a \in history : a.seq <= last_sequence
  /\ \A f, g \in files[0] : f.num = g.num => f = g

(* A file charged for its seeks is one of the current version.             *)
SeekInv ==
  \/ file_to_compact = Null
  \/ /\ file_to_compact.level \in 0..(NumLevels - 2)
     /\ file_to_compact.file \in files[file_to_compact.level]

(* z lies before all the files of R, or after them without sharing a key.  *)
Split(z, R) == \/ \A r \in R : Before(z.largest, r.smallest)
               \/ \A r \in R : r.largest.key < z.smallest.key

Covered(R, k) == \E f \in R : Overlaps(f, k, k)
Within(R, k) == \E f, g \in R : f.smallest.key <= k /\ k <= g.largest.key
Gapless(R) == \A k \in Keys : Within(R, k) => Covered(R, k)

(* Inputs a compaction may take: what stays behind in its level is newer,  *)
(* what stays in the next level lies beside them, and a flush finds no gap *)
(* between them.                                                           *)
Takes(v, level, in0, in1) ==
  /\ level \in 0..(NumLevels - 2)
  /\ in0 \subseteq v[level] /\ in1 \subseteq v[level + 1] /\ in0 # {}
  /\ \A x \in v[level] \ in0, y \in in0 : NewerThan(x.ents, y.ents)
  /\ \A z \in v[level + 1] \ in1 : Split(z, in0 \cup in1)
  /\ MaxMemLevel = 0 \/ Gapless(in0 \cup in1)

Running(c, v, live) ==
  /\ Takes(v, c.level, c.in0, c.in1)
  /\ c.version \in Versions
  /\ \A l \in (c.level + 2)..(NumLevels - 1) : \A f \in v[l] \ c.version[l] :
       \A y \in c.in0 \cup c.in1 : ~Overlaps(f, y.smallest.key, y.largest.key)
  /\ c.smallest_snapshot \in Nat
  /\ \A s \in live : c.smallest_snapshot <= s

CompactionInv == compaction = Null \/ Running(compaction, files, Live)

(* What is left of an update that no memtable and no file holds.           *)
Stored(v, m, i) == {e \in Entries : e \in m \/ e \in i \/ \E l \in Levels : \E f \in v[l] : e \in f.ents}
Superseded(h, live, e) == \E x \in h : x.key = e.key /\ e.seq < x.seq /\ \A s \in live : x.seq <= s
Erased(st, live, e) == /\ e.del /\ \A s \in live : e.seq <= s
                       /\ \A x \in st : x.key = e.key => e.seq < x.seq
Accounted(h, st, live) == \A e \in h \ st : Superseded(h, live, e) \/ Erased(st, live, e)
ReadInv == Accounted(history, Stored(files, mem, imm), Live)

LsmInv == LsmTypes /\ SeekInv /\ LevelsDisjoint /\ LayersOrdered /\ CompactionInv /\ ReadInv

-----------------------------------------------------------------------------
(* Numbers, the order of internal keys, and least and greatest elements.   *)

\* The constants of the model are numbers, and a memtable never reaches the last level.
LEMMA Constants ==
  /\ MaxKey \in Nat /\ MaxKey >= 1 /\ MaxSeq \in Nat /\ MaxSeq >= 1
  /\ L0Trigger \in Nat /\ L0Trigger >= 1 /\ LevelLimit \in Nat /\ LevelLimit >= 1
  /\ MaxMemLevel \in Nat /\ NumLevels \in Nat /\ MaxMemLevel + 1 < NumLevels
BY LsmAssumption

\* An entry's key and sequence number are numbers within the bounds.
LEMMA EntryNumbers ==
  ASSUME NEW e \in Entries
  PROVE  /\ e.key \in Int /\ 1 <= e.key /\ e.key <= MaxKey /\ e.key \in Keys
         /\ e.seq \in Int /\ 1 <= e.seq /\ e.seq <= MaxSeq
BY Constants DEF Entries, Keys

\* Internal keys are ordered: what is before what is before is before, in every mix of
\* the strict and the weak order (ldb_ikc_compare).
LEMMA OrderTransitive ==
  ASSUME NEW a \in Entries, NEW b \in Entries, NEW c \in Entries
  PROVE  /\ Before(a, b) /\ Before(b, c) => Before(a, c)
         /\ AtOrBefore(a, b) /\ Before(b, c) => Before(a, c)
         /\ Before(a, b) /\ AtOrBefore(b, c) => Before(a, c)
         /\ AtOrBefore(a, b) /\ AtOrBefore(b, c) => AtOrBefore(a, c)
         /\ Before(a, b) => AtOrBefore(a, b) /\ ~Before(b, a) /\ a.key <= b.key
         /\ AtOrBefore(a, b) => a.key <= b.key
         /\ a.key < b.key => Before(a, b)
         /\ AtOrBefore(a, a) /\ (Before(a, b) \/ AtOrBefore(b, a))
BY EntryNumbers DEF Before, AtOrBefore

\* A non-empty set of naturals has a least element.
LEMMA LeastNat ==
  ASSUME NEW S, S \subseteq Nat, S # {}
  PROVE  \E m \in S : \A x \in S : m <= x
<1>1. PICK m \in S : \A x \in S : ~(<<x, m>> \in OpToRel(<, Nat))
  BY NatLessThanWellFounded, WFMin
<1>2. \A x \in S : ~(x < m)
  BY <1>1 DEF OpToRel
<1> QED
  BY <1>2

\* A non-empty bounded set of naturals has a greatest element.
LEMMA GreatestNat ==
  ASSUME NEW B \in Nat, NEW S, S \subseteq 0..B, S # {}
  PROVE  \E m \in S : \A x \in S : x <= m
<1> DEFINE D == {d \in Nat : B - d \in S}
<1>1. D \subseteq Nat /\ D # {}
  <2>1. PICK x \in S : TRUE
    OBVIOUS
  <2>2. B - x \in Nat /\ B - (B - x) = x
    OBVIOUS
  <2> QED
    BY <2>1, <2>2
<1>2. PICK d \in D : \A x \in D : d <= x
  BY <1>1, LeastNat
<1>3. ASSUME NEW x \in S PROVE x <= B - d
  <2>1. B - x \in Nat /\ B - (B - x) = x
    OBVIOUS
  <2>2. B - x \in D
    BY <2>1
  <2>3. d \in Nat /\ x \in Nat
    OBVIOUS
  <2>4. d <= B - x
    <3> HIDE DEF D
    <3> QED
      BY <2>2, <1>2
  <2> QED
    BY <2>3, <2>4
<1> QED
  BY <1>3

\* A non-empty set of entries has a first one (FirstKey).
LEMMA FirstProps ==
  ASSUME NEW T, T \subseteq Entries, T # {}
  PROVE  FirstKey(T) \in T /\ \A x \in T : AtOrBefore(FirstKey(T), x)
<1> DEFINE K == {e.key : e \in T}
<1>1. PICK k \in K : \A x \in K : k <= x
  <2>1. K \subseteq Nat /\ K # {}
    BY EntryNumbers
  <2> QED
    BY <2>1, LeastNat
<1> DEFINE Q == {e.seq : e \in {x \in T : x.key = k}}
<1>2. PICK q \in Q : \A x \in Q : x <= q
  <2>1. Q \subseteq 0..MaxSeq /\ Q # {} /\ MaxSeq \in Nat
    BY EntryNumbers, Constants
  <2> QED
    BY <2>1, GreatestNat
<1>3. PICK e \in T : e.key = k /\ e.seq = q
  OBVIOUS
<1>4. ASSUME NEW x \in T PROVE AtOrBefore(e, x)
  <2>1. k <= x.key /\ (x.key = k => x.seq <= q)
    BY <1>1, <1>2
  <2> QED
    BY <2>1, <1>3, EntryNumbers DEF AtOrBefore, Before
<1> QED
  BY <1>4 DEF FirstKey

\* A non-empty set of entries has a last one (LastKey).
LEMMA LastProps ==
  ASSUME NEW T, T \subseteq Entries, T # {}
  PROVE  LastKey(T) \in T /\ \A x \in T : AtOrBefore(x, LastKey(T))
<1> DEFINE K == {e.key : e \in T}
<1>1. PICK k \in K : \A x \in K : x <= k
  <2>1. K \subseteq 0..MaxKey /\ K # {} /\ MaxKey \in Nat
    BY EntryNumbers, Constants
  <2> QED
    BY <2>1, GreatestNat
<1> DEFINE Q == {e.seq : e \in {x \in T : x.key = k}}
<1>2. PICK q \in Q : \A x \in Q : q <= x
  <2>1. Q \subseteq Nat /\ Q # {}
    BY EntryNumbers
  <2> QED
    BY <2>1, LeastNat
<1>3. PICK e \in T : e.key = k /\ e.seq = q
  OBVIOUS
<1>4. ASSUME NEW x \in T PROVE AtOrBefore(x, e)
  <2>1. x.key <= k /\ (x.key = k => q <= x.seq)
    BY <1>1, <1>2
  <2> QED
    BY <2>1, <1>3, EntryNumbers DEF AtOrBefore, Before
<1> QED
  BY <1>4 DEF LastKey

\* A finished table has its first and its last entry as bounds (NewFile).
LEMMA NewFileTable ==
  ASSUME NEW n \in Nat, NEW T, T \subseteq Entries, T # {}
  PROVE  NewFile(n, T) \in Tables /\ NewFile(n, T).num = n /\ NewFile(n, T).ents = T
<1>1. FirstKey(T) \in T /\ LastKey(T) \in T
      /\ \A x \in T : AtOrBefore(FirstKey(T), x) /\ AtOrBefore(x, LastKey(T))
  BY FirstProps, LastProps
<1>2. NewFile(n, T) \in Files
  BY <1>1 DEF NewFile, Files
<1> QED
  BY <1>1, <1>2 DEF NewFile, Tables

\* What a table's bounds say: they are entries of it, and its keys lie between them.
LEMMA TableProps ==
  ASSUME NEW f \in Tables
  PROVE  /\ f.num \in Nat /\ f.ents \subseteq Entries
         /\ f.smallest \in Entries /\ f.largest \in Entries
         /\ f.smallest \in f.ents /\ f.largest \in f.ents
         /\ AtOrBefore(f.smallest, f.largest) /\ f.smallest.key <= f.largest.key
         /\ \A e \in f.ents : /\ AtOrBefore(f.smallest, e) /\ AtOrBefore(e, f.largest)
                              /\ f.smallest.key <= e.key /\ e.key <= f.largest.key
<1>1. /\ f.num \in Nat /\ f.ents \subseteq Entries
      /\ f.smallest \in Entries /\ f.largest \in Entries
      /\ f.smallest \in f.ents /\ f.largest \in f.ents
      /\ \A e \in f.ents : AtOrBefore(f.smallest, e) /\ AtOrBefore(e, f.largest)
  BY DEF Tables, Files
<1> QED
  BY <1>1, OrderTransitive

\* Induction over a set of naturals.
LEMMA NatSetInduction ==
  ASSUME NEW P, 0 \in P, \A n \in Nat : n \in P => n + 1 \in P
  PROVE  Nat \subseteq P
<1> SUFFICES ASSUME Nat \ P # {} PROVE FALSE
  OBVIOUS
<1>1. PICK m \in Nat \ P : \A x \in Nat \ P : m <= x
  BY LeastNat
<1>2. m # 0 /\ m - 1 \in Nat
  OBVIOUS
<1>3. m - 1 \in P
  BY <1>1, <1>2
<1>4. (m - 1) + 1 \in P
  BY <1>2, <1>3
<1> QED
  BY <1>4

Steps(U) == [U -> U]
Iterates(U, F, a) == \E g \in [Nat -> U] : g[0] = a /\ \A n \in Nat : g[n + 1] = F[g[n]]

\* A step repeated from a start has a run of every length.
LEMMA Iteration ==
  ASSUME NEW U, NEW F \in Steps(U), NEW a \in U
  PROVE  Iterates(U, F, a)
<1> USE DEF Steps
<1> DEFINE Run(h, n) == h \in [0..n -> U] /\ h[0] = a /\ \A i \in 0..(n - 1) : h[i + 1] = F[h[i]]
           P == {n \in Nat : \E h \in [0..n -> U] : Run(h, n)}
<1>1. 0 \in P
  <2>1. Run([i \in 0..0 |-> a], 0)
    OBVIOUS
  <2> QED
    BY <2>1
<1>2. ASSUME NEW n \in Nat, n \in P PROVE n + 1 \in P
  <2>1. PICK h \in [0..n -> U] : Run(h, n)
    BY <1>2
  <2> DEFINE k == [i \in 0..(n + 1) |-> IF i <= n THEN h[i] ELSE F[h[n]]]
  <2>2. h[n] \in U /\ F[h[n]] \in U
    OBVIOUS
  <2>3. k \in [0..(n + 1) -> U] /\ k[0] = a /\ k[n + 1] = F[k[n]]
    BY <2>1, <2>2
  <2>4. ASSUME NEW i \in 0..(n + 1 - 1) PROVE k[i + 1] = F[k[i]]
    <3>1. CASE i = n
      BY <3>1, <2>3
    <3>2. CASE i # n
      <4>1. i \in 0..(n - 1) /\ i + 1 <= n /\ i <= n /\ i + 1 \in 0..(n + 1) /\ i \in 0..(n + 1)
        BY <3>2
      <4>2. k[i + 1] = h[i + 1] /\ k[i] = h[i]
        BY <4>1
      <4> QED
        BY <4>1, <4>2, <2>1
    <3> QED
      BY <3>1, <3>2
  <2>5. Run(k, n + 1)
    <3> HIDE DEF k
    <3> QED
      BY <2>3, <2>4
  <2> QED
    BY <2>5
<1>3. \A n \in Nat : \E h : Run(h, n)
  <2>1. Nat \subseteq P
    <3> HIDE DEF P
    <3> QED
      BY <1>1, <1>2, NatSetInduction
  <2> QED
    BY <2>1
<1> DEFINE H(n) == CHOOSE h : Run(h, n)
           g == [n \in Nat |-> H(n)[n]]
<1>4. \A n \in Nat : Run(H(n), n)
  BY <1>3
<1> HIDE DEF H
<1>5. g \in [Nat -> U]
  BY <1>4
<1>6. g[0] = a
  BY <1>4
<1>7. ASSUME NEW n \in Nat PROVE g[n + 1] = F[g[n]]
  <2>1. Run(H(n), n) /\ Run(H(n + 1), n + 1)
    BY <1>4
  <2> DEFINE Q == {i \in Nat : i <= n => H(n)[i] = H(n + 1)[i]}
  <2>2. 0 \in Q
    BY <2>1
  <2>3. ASSUME NEW i \in Nat, i \in Q PROVE i + 1 \in Q
    <3> SUFFICES ASSUME i + 1 <= n PROVE H(n)[i + 1] = H(n + 1)[i + 1]
      OBVIOUS
    <3>1. i \in 0..(n - 1) /\ i \in 0..(n + 1 - 1) /\ i <= n
      OBVIOUS
    <3> QED
      BY <3>1, <2>1, <2>3
  <2>4. Nat \subseteq Q
    <3> HIDE DEF Q
    <3> QED
      BY <2>2, <2>3, NatSetInduction
  <2>5. H(n)[n] = H(n + 1)[n]
    BY <2>4
  <2>6. H(n + 1)[n + 1] = F[H(n + 1)[n]]
    BY <2>1
  <2> QED
    BY <2>5, <2>6
<1> HIDE DEF g
<1> QED
  BY <1>5, <1>6, <1>7 DEF Iterates

\* The first and the last key of a set of files (ldb_versions_get_range).
LEMMA RangeProps ==
  ASSUME NEW S, S \subseteq Tables, S # {}
  PROVE  /\ RangeStart(S) \in Entries /\ RangeLimit(S) \in Entries
         /\ \E f \in S : f.smallest = RangeStart(S)
         /\ \E f \in S : f.largest = RangeLimit(S)
         /\ \A f \in S : AtOrBefore(RangeStart(S), f.smallest) /\ AtOrBefore(f.largest, RangeLimit(S))
<1>1. {f.smallest : f \in S} \subseteq Entries /\ {f.smallest : f \in S} # {}
  BY TableProps
<1>2. {f.largest : f \in S} \subseteq Entries /\ {f.largest : f \in S} # {}
  BY TableProps
<1>3. RangeStart(S) \in {f.smallest : f \in S} /\ \A x \in {f.smallest : f \in S} : AtOrBefore(RangeStart(S), x)
  BY <1>1, FirstProps DEF RangeStart
<1>4. RangeLimit(S) \in {f.largest : f \in S} /\ \A x \in {f.largest : f \in S} : AtOrBefore(x, RangeLimit(S))
  BY <1>2, LastProps DEF RangeLimit
<1> QED
  BY <1>1, <1>2, <1>3, <1>4

\* The keys of a set of files lie between the first and the last one's.
LEMMA RangeKeys ==
  ASSUME NEW S, S \subseteq Tables, S # {}
  PROVE  /\ RangeStart(S).key \in Keys /\ RangeLimit(S).key \in Keys
         /\ RangeStart(S).key <= RangeLimit(S).key
         /\ \A f \in S : RangeStart(S).key <= f.smallest.key /\ f.largest.key <= RangeLimit(S).key
         /\ \A k \in Int : (RangeStart(S).key <= k /\ k <= RangeLimit(S).key) <=> Within(S, k)
<1>1. /\ RangeStart(S) \in Entries /\ RangeLimit(S) \in Entries
      /\ \E f \in S : f.smallest = RangeStart(S)
      /\ \E f \in S : f.largest = RangeLimit(S)
      /\ \A f \in S : AtOrBefore(RangeStart(S), f.smallest) /\ AtOrBefore(f.largest, RangeLimit(S))
  BY RangeProps
<1>2. \A f \in S : RangeStart(S).key <= f.smallest.key /\ f.largest.key <= RangeLimit(S).key
                   /\ f.smallest.key <= f.largest.key
                   /\ f.smallest.key \in Int /\ f.largest.key \in Int
  BY <1>1, TableProps, OrderTransitive, EntryNumbers
<1>3. RangeStart(S).key \in Keys /\ RangeLimit(S).key \in Keys
      /\ RangeStart(S).key \in Int /\ RangeLimit(S).key \in Int
  BY <1>1, EntryNumbers
<1>4. RangeStart(S).key <= RangeLimit(S).key
  BY <1>2, <1>3
<1>5. ASSUME NEW k \in Int PROVE (RangeStart(S).key <= k /\ k <= RangeLimit(S).key) <=> Within(S, k)
  <2>1. ASSUME RangeStart(S).key <= k, k <= RangeLimit(S).key PROVE Within(S, k)
    BY <2>1, <1>1 DEF Within
  <2>2. ASSUME Within(S, k) PROVE RangeStart(S).key <= k /\ k <= RangeLimit(S).key
    BY <2>2, <1>2, <1>3 DEF Within
  <2> QED
    BY <2>1, <2>2
<1> QED
  BY <1>2, <1>3, <1>4, <1>5

-----------------------------------------------------------------------------
(* ldb_version_get_overlapping_inputs.                                     *)

\* The range of a level-0 search has a narrowest extension no file sticks out of.
LEMMA WidenedProps ==
  ASSUME NEW v, v[0] \subseteq Tables, NEW b \in Keys, NEW e \in Keys, b <= e
  PROVE  /\ Widened(v, b, e)[1] \in 1..b /\ Widened(v, b, e)[2] \in e..MaxKey
         /\ Closed(v, Widened(v, b, e)[1], Widened(v, b, e)[2])
         /\ \A x \in 1..b, y \in e..MaxKey :
              Closed(v, x, y) => x <= Widened(v, b, e)[1] /\ Widened(v, b, e)[2] <= y
<1>k. MaxKey \in Nat /\ b \in Nat /\ e \in Nat /\ 1 <= b /\ b <= MaxKey /\ 1 <= e /\ e <= MaxKey
  BY Constants DEF Keys
<1>n. \A f \in v[0] : /\ f.smallest.key \in Int /\ f.largest.key \in Int
                      /\ 1 <= f.smallest.key /\ f.largest.key <= MaxKey
  BY TableProps, EntryNumbers
<1> DEFINE X == {x \in 1..b : \E y \in e..MaxKey : Closed(v, x, y)}
           Y == {y \in e..MaxKey : \E x \in 1..b : Closed(v, x, y)}
<1>1. 1 \in 1..b /\ MaxKey \in e..MaxKey /\ Closed(v, 1, MaxKey)
  BY <1>k, <1>n DEF Closed
<1>2. PICK x \in X : \A z \in X : z <= x
  <2>1. X \subseteq 0..b /\ X # {}
    BY <1>1, <1>k
  <2> QED
    BY <2>1, <1>k, GreatestNat
<1>3. PICK y \in Y : \A z \in Y : y <= z
  <2>1. Y \subseteq Nat /\ Y # {}
    BY <1>1, <1>k
  <2> QED
    BY <2>1, LeastNat
<1>4. PICK y1 \in e..MaxKey : Closed(v, x, y1)
  OBVIOUS
<1>5. PICK x1 \in 1..b : Closed(v, x1, y)
  OBVIOUS
<1>6. x1 <= x /\ y <= y1 /\ x \in 1..b /\ y \in e..MaxKey
  BY <1>2, <1>3, <1>4, <1>5
<1>7. Closed(v, x, y)
  BY <1>4, <1>5, <1>6, <1>k, <1>n DEF Closed, Overlaps
<1>8. ASSUME NEW p \in 1..b, NEW q \in e..MaxKey, Closed(v, p, q) PROVE p <= x /\ y <= q
  BY <1>8, <1>2, <1>3
<1> DEFINE W(r) == /\ Closed(v, r[1], r[2])
                   /\ \A p \in 1..b, q \in e..MaxKey : Closed(v, p, q) => p <= r[1] /\ r[2] <= q
<1>9. \E r \in (1..b) \X (e..MaxKey) : W(r)
  <2> HIDE DEF X, Y
  <2>1. <<x, y>> \in (1..b) \X (e..MaxKey) /\ W(<<x, y>>)
    BY <1>6, <1>7, <1>8
  <2> QED
    BY <2>1
<1>10. Widened(v, b, e) \in (1..b) \X (e..MaxKey) /\ W(Widened(v, b, e))
  <2>1. Widened(v, b, e) = CHOOSE r \in (1..b) \X (e..MaxKey) : W(r)
    BY DEF Widened
  <2> HIDE DEF W, X, Y
  <2> QED
    BY <2>1, <1>9
<1> QED
  BY <1>10

\* The files found are files of the level, and include every file that meets the range.
LEMMA OverlapIncludes ==
  ASSUME NEW v, NEW level, v[level] \subseteq Tables, NEW b \in Keys, NEW e \in Keys, b <= e
  PROVE  /\ OverlappingInputs(v, level, b, e) \subseteq v[level]
         /\ \A f \in v[level] : Overlaps(f, b, e) => f \in OverlappingInputs(v, level, b, e)
<1>k. b \in Int /\ e \in Int
  BY DEF Keys
<1>n. \A f \in v[level] : f.smallest.key \in Int /\ f.largest.key \in Int
  BY TableProps, EntryNumbers
<1>1. CASE level = 0
  <2>1. Widened(v, b, e)[1] \in 1..b /\ Widened(v, b, e)[2] \in e..MaxKey
    BY <1>1, WidenedProps
  <2>2. MaxKey \in Int
    BY Constants
  <2> QED
    BY <1>1, <1>k, <1>n, <2>1, <2>2 DEF OverlappingInputs, Overlaps
<1>2. CASE level # 0
  BY <1>2 DEF OverlappingInputs
<1> QED
  BY <1>1, <1>2

\* In level 0 the files that are not found lie beside the found ones and share no key with them.
LEMMA OverlapSplitsZero ==
  ASSUME NEW v, v[0] \subseteq Tables, NEW b \in Keys, NEW e \in Keys, b <= e,
         NEW z \in v[0], z \notin OverlappingInputs(v, 0, b, e)
  PROVE  Split(z, OverlappingInputs(v, 0, b, e))
<1> DEFINE x == Widened(v, b, e)[1]
           y == Widened(v, b, e)[2]
           O == OverlappingInputs(v, 0, b, e)
<1>1. x \in Int /\ y \in Int /\ Closed(v, x, y)
  BY WidenedProps, Constants DEF Keys
<1>2. O = {f \in v[0] : Overlaps(f, x, y)}
  BY DEF OverlappingInputs
<1>n. \A f \in v[0] : f.smallest.key \in Int /\ f.largest.key \in Int
  BY TableProps, EntryNumbers
<1> HIDE DEF x, y, O
<1>3. \A r \in O : r \in v[0] /\ r.smallest.key >= x /\ r.largest.key <= y
  BY <1>1, <1>2 DEF Closed
<1>4. CASE z.largest.key < x
  <2>1. ASSUME NEW r \in O PROVE Before(z.largest, r.smallest)
    BY <1>4, <1>3, <1>n, <1>1 DEF Before
  <2> QED
    BY <2>1 DEF Split, O
<1>5. CASE z.smallest.key > y
  <2>1. ASSUME NEW r \in O PROVE r.largest.key < z.smallest.key
    BY <1>5, <1>3, <1>n, <1>1
  <2> QED
    BY <2>1 DEF Split, O
<1>6. z.largest.key < x \/ z.smallest.key > y
  BY <1>2, <1>n, <1>1 DEF Overlaps, O
<1> QED
  BY <1>4, <1>5, <1>6

\* A file that is not found in a deeper level lies on one side of the range, and every
\* file that is found meets the range.
LEMMA OverlapDeep ==
  ASSUME NEW v, NEW level, level # 0, v[level] \subseteq Tables, NEW b \in Keys, NEW e \in Keys
  PROVE  /\ \A z \in v[level] \ OverlappingInputs(v, level, b, e) : z.largest.key < b \/ z.smallest.key > e
         /\ \A z \in OverlappingInputs(v, level, b, e) : z.largest.key >= b /\ z.smallest.key <= e
<1>k. b \in Int /\ e \in Int
  BY DEF Keys
<1>n. \A f \in v[level] : f.smallest.key \in Int /\ f.largest.key \in Int
  BY TableProps, EntryNumbers
<1> QED
  BY <1>k, <1>n DEF OverlappingInputs, Overlaps

\* Between the files found there is no gap outside the range that was asked for.
LEMMA OverlapCovers ==
  ASSUME NEW v, NEW level, v[level] \subseteq Tables, NEW b \in Keys, NEW e \in Keys, b <= e,
         NEW k \in Keys, Within(OverlappingInputs(v, level, b, e), k), ~(b <= k /\ k <= e)
  PROVE  Covered(OverlappingInputs(v, level, b, e), k)
<1> DEFINE O == OverlappingInputs(v, level, b, e)
<1>k. /\ b \in Int /\ e \in Int /\ k \in Int /\ MaxKey \in Int /\ 1 <= k /\ k <= MaxKey
      /\ 1 <= b /\ b <= MaxKey /\ 1 <= e /\ e <= MaxKey
  BY Constants DEF Keys
<1>n. \A f \in v[level] : f.smallest.key \in Int /\ f.largest.key \in Int /\ f.smallest.key <= f.largest.key
  BY TableProps, EntryNumbers
<1>s. O \subseteq v[level]
  BY OverlapIncludes
<1>0. PICK f \in O, g \in O : f.smallest.key <= k /\ k <= g.largest.key
  BY DEF Within
<1>1. CASE level # 0
  <2>1. f.largest.key >= b /\ g.smallest.key <= e
    BY <1>1, OverlapDeep
  <2> HIDE DEF O
  <2>2. Overlaps(f, k, k) \/ Overlaps(g, k, k)
    BY <2>1, <1>0, <1>k, <1>n, <1>s DEF Overlaps
  <2> QED
    BY <2>2 DEF Covered, O
<1>2. CASE level = 0
  <2> DEFINE x == Widened(v, b, e)[1]
             y == Widened(v, b, e)[2]
  <2>1. /\ x \in 1..b /\ y \in e..MaxKey /\ Closed(v, x, y)
        /\ \A p \in 1..b, q \in e..MaxKey : Closed(v, p, q) => p <= x /\ y <= q
    BY <1>2, WidenedProps
  <2>2. O = {h \in v[0] : Overlaps(h, x, y)}
    BY <1>2 DEF OverlappingInputs
  <2> HIDE DEF x, y, O
  <2>3. x <= k /\ k <= y
    <3>1. f.smallest.key >= x /\ g.largest.key <= y
      BY <2>1, <2>2 DEF Closed
    <3> QED
      BY <3>1, <1>0, <1>k, <1>n, <1>s, <2>1
  <2> SUFFICES ASSUME \A h \in O : ~Overlaps(h, k, k) PROVE FALSE
    BY DEF Covered, O
  <2>4. \A h \in v[0] : Overlaps(h, x, y) => (h.largest.key < k \/ h.smallest.key > k)
    BY <1>2, <1>k, <1>n, <2>2 DEF Overlaps
  <2>5. CASE k < b
    <3>1. k + 1 \in 1..b
      BY <2>5, <1>k
    <3>2. Closed(v, k + 1, y)
      BY <2>1, <2>3, <2>4, <1>2, <1>n, <1>k DEF Closed, Overlaps
    <3>3. k + 1 <= x
      BY <3>1, <3>2, <2>1
    <3> QED
      BY <3>3, <2>3, <2>1, <1>k
  <2>6. CASE k > e
    <3>1. k - 1 \in e..MaxKey
      BY <2>6, <1>k
    <3>2. Closed(v, x, k - 1)
      BY <2>1, <2>3, <2>4, <1>2, <1>n, <1>k DEF Closed, Overlaps
    <3>3. y <= k - 1
      BY <3>1, <3>2, <2>1
    <3> QED
      BY <3>3, <2>3, <2>1, <1>k
  <2> QED
    BY <2>5, <2>6, <1>k
<1> QED
  BY <1>1, <1>2

-----------------------------------------------------------------------------
(* add_boundary_inputs.                                                    *)

AddBoundaryFile(S, T) == T \cup SmallestBoundaryFile(S, RangeLimit(T))

\* The loop of add_boundary_inputs runs from the inputs, a boundary file a turn.
LEMMA BoundaryRun ==
  ASSUME NEW S, IsFiniteSet(S), NEW P \in SUBSET S, P # {}
  PROVE  \E g \in [Nat -> SUBSET S] :
           /\ g[0] = P /\ \A n \in Nat : g[n + 1] = AddBoundaryFile(S, g[n])
           /\ AddBoundaryInputs(S, P) = g[Cardinality(S)]
<1> DEFINE N == Cardinality(S)
<1>1. N \in Nat
  BY FS_CardinalityType
<1> DEFINE F == [T \in SUBSET S |-> AddBoundaryFile(S, T)]
<1>2. F \in [SUBSET S -> SUBSET S]
  BY DEF AddBoundaryFile, SmallestBoundaryFile
<1>3. PICK g \in [Nat -> SUBSET S] : g[0] = P /\ \A n \in Nat : g[n + 1] = F[g[n]]
  <2> DEFINE U == SUBSET S
  <2>1. F \in Steps(U) /\ P \in U
    BY <1>2 DEF Steps
  <2> HIDE DEF F, U
  <2>2. Iterates(U, F, P)
    BY <2>1, Iteration
  <2> QED
    BY <2>2 DEF U, Iterates
<1>4. \A n \in Nat : g[n + 1] = AddBoundaryFile(S, g[n])
  BY <1>3
<1> DEFINE Loop(h) == h = [n \in 0..N |-> IF n = 0 THEN P
                             ELSE LET T == h[n - 1] IN T \cup SmallestBoundaryFile(S, RangeLimit(T))]
           grown == CHOOSE h : Loop(h)
<1> HIDE DEF N, F
<1>5. Loop([n \in 0..N |-> g[n]])
  <2>1. ASSUME NEW n \in 0..N, n # 0
        PROVE  g[n] = g[n - 1] \cup SmallestBoundaryFile(S, RangeLimit(g[n - 1]))
               /\ n - 1 \in 0..N
    <3>1. n - 1 \in Nat /\ (n - 1) + 1 = n /\ n - 1 \in 0..N
      BY <2>1, <1>1
    <3> QED
      BY <3>1, <1>4 DEF AddBoundaryFile
  <2> DEFINE h == [n \in 0..N |-> g[n]]
  <2>2. \A n \in 0..N : h[n] = IF n = 0 THEN P
                     ELSE LET T == h[n - 1] IN T \cup SmallestBoundaryFile(S, RangeLimit(T))
    BY <2>1, <1>3
  <2>3. h = [n \in 0..N |-> h[n]]
    OBVIOUS
  <2> HIDE DEF h
  <2>4. Loop(h)
    BY <2>2, <2>3
  <2> QED
    BY <2>4 DEF h
<1>6. Loop(grown)
  <2> HIDE DEF Loop
  <2> QED
    BY <1>5
<1>7. AddBoundaryInputs(S, P) = grown[N]
  BY DEF AddBoundaryInputs, N
<1> HIDE DEF grown
<1> DEFINE Q == {n \in Nat : n <= N => grown[n] = g[n]}
<1>8. 0 \in Q
  BY <1>1, <1>3, <1>6
<1>9. ASSUME NEW n \in Nat, n \in Q PROVE n + 1 \in Q
  <2> SUFFICES ASSUME n + 1 <= N PROVE grown[n + 1] = g[n + 1]
    OBVIOUS
  <2>1. n <= N /\ n + 1 \in 0..N /\ n + 1 # 0 /\ (n + 1) - 1 = n
    BY <1>1
  <2>2. grown[n + 1] = grown[n] \cup SmallestBoundaryFile(S, RangeLimit(grown[n]))
    BY <2>1, <1>6
  <2>3. grown[n] = g[n]
    BY <2>1, <1>9
  <2> QED
    BY <2>2, <2>3, <1>4 DEF AddBoundaryFile
<1>10. Nat \subseteq Q
  <2> HIDE DEF Q
  <2> QED
    BY <1>8, <1>9, NatSetInduction
<1>11. grown[N] = g[N]
  BY <1>1, <1>10
<1> QED
  BY <1>3, <1>4, <1>7, <1>11 DEF N

Disjoint(S) == \A f, g \in S : f # g => Before(f.largest, g.smallest) \/ Before(g.largest, f.smallest)

(* No file of the level lies between files of P.                           *)
Beside(z, P) == \/ \A p \in P : Before(z.largest, p.smallest)
                \/ \A p \in P : Before(p.largest, z.smallest)
Convex(S, P) == \A z \in S \ P : Beside(z, P)

(* Nor does one left behind share a key with a file of R before it.        *)
Separated(S, R) == \A z \in S \ R : Split(z, R)

\* When a boundary file exists, the loop finds the smallest one (find_smallest_boundary_file).
LEMMA BoundaryFound ==
  ASSUME NEW S, S \subseteq Tables, NEW e, NEW z \in S, Before(e, z.smallest), z.smallest.key = e.key
  PROVE  SmallestBoundaryFile(S, e) # {}
<1> DEFINE b == {f \in S : Before(e, f.smallest) /\ f.smallest.key = e.key}
<1>1. b \subseteq Tables /\ b # {}
  OBVIOUS
<1> HIDE DEF b
<1>2. PICK f \in b : f.smallest = RangeStart(b)
  BY <1>1, RangeProps
<1>3. \A g \in b : AtOrBefore(f.smallest, g.smallest)
  BY <1>1, <1>2, RangeProps
<1>4. f \in {h \in b : \A g \in b : AtOrBefore(h.smallest, g.smallest)}
  BY <1>3
<1> QED
  BY <1>4 DEF SmallestBoundaryFile, b

\* What a boundary file of T is: one that starts after T's last entry with that entry's key.
LEMMA BoundaryFileProps ==
  ASSUME NEW S, S \subseteq Tables, NEW T \in SUBSET S, T # {}, NEW c \in AddBoundaryFile(S, T), c \notin T
  PROVE  /\ c \in S /\ Before(RangeLimit(T), c.smallest) /\ c.smallest.key = RangeLimit(T).key
         /\ \A z \in S : Before(RangeLimit(T), z.smallest) /\ z.smallest.key = RangeLimit(T).key
                         => AtOrBefore(c.smallest, z.smallest)
BY DEF AddBoundaryFile, SmallestBoundaryFile

\* A boundary file leaves no file of the level between the inputs.
LEMMA BoundaryConvex ==
  ASSUME NEW S, S \subseteq Tables, Disjoint(S), NEW T \in SUBSET S, T # {}, Convex(S, T)
  PROVE  Convex(S, AddBoundaryFile(S, T))
<1> DEFINE U == AddBoundaryFile(S, T)
           L == RangeLimit(T)
<1>t. T \subseteq Tables
  OBVIOUS
<1>l. L \in Entries /\ (\A t \in T : AtOrBefore(t.largest, L)) /\ \E t \in T : t.largest = L
  BY <1>t, RangeProps
<1>c. \A c \in U \ T : /\ c \in S /\ Before(L, c.smallest) /\ c.smallest.key = L.key
                       /\ \A z \in S : Before(L, z.smallest) /\ z.smallest.key = L.key
                                       => AtOrBefore(c.smallest, z.smallest)
  BY BoundaryFileProps
<1>u. T \subseteq U
  BY DEF AddBoundaryFile
<1> SUFFICES ASSUME NEW z \in S, z \notin U PROVE Beside(z, U)
  BY DEF Convex
<1> HIDE DEF U, L
<1>z. z \in Tables /\ z.smallest \in Entries /\ z.largest \in Entries /\ AtOrBefore(z.smallest, z.largest)
  BY TableProps
<1>n. \A f \in S : f.smallest \in Entries /\ f.largest \in Entries /\ AtOrBefore(f.smallest, f.largest)
  BY TableProps
<1>1. CASE \A t \in T : Before(z.largest, t.smallest)
  <2>1. Before(z.largest, L)
    BY <1>1, <1>l, <1>z, <1>n, OrderTransitive
  <2>2. ASSUME NEW c \in U PROVE Before(z.largest, c.smallest)
    <3>1. CASE c \in T
      BY <3>1, <1>1
    <3>2. CASE c \notin T
      <4>1. Before(L, c.smallest) /\ c.smallest \in Entries
        BY <3>2, <1>c, <1>n
      <4> QED
        BY <4>1, <2>1, <1>z, <1>l, OrderTransitive
    <3> QED
      BY <3>1, <3>2
  <2> QED
    BY <2>2 DEF Beside
<1>2. CASE \A t \in T : Before(t.largest, z.smallest)
  <2>1. Before(L, z.smallest)
    BY <1>2, <1>l
  <2>2. ASSUME NEW c \in U, c \notin T PROVE Before(c.largest, z.smallest)
    <3>1. c \in S /\ Before(L, c.smallest) /\ c.smallest.key = L.key
      BY <2>2, <1>c
    <3>2. SUFFICES ASSUME Before(z.largest, c.smallest) PROVE FALSE
      BY <3>1 DEF Disjoint
    <3>3. Before(z.smallest, c.smallest) /\ c.smallest \in Entries
      BY <3>1, <3>2, <1>z, <1>n, OrderTransitive
    <3>4. z.smallest.key = L.key
      <4>1. z.smallest.key <= c.smallest.key /\ L.key <= z.smallest.key
        BY <3>3, <2>1, <1>z, <1>l, OrderTransitive
      <4> QED
        BY <4>1, <3>1, <1>z, <1>l, EntryNumbers
    <3>5. AtOrBefore(c.smallest, z.smallest)
      BY <2>2, <1>c, <2>1, <3>4
    <3> QED
      BY <3>3, <3>5 DEF AtOrBefore
  <2>3. \A c \in U : Before(c.largest, z.smallest)
    BY <2>2, <1>2
  <2> QED
    BY <2>3 DEF Beside
<1>3. Beside(z, T)
  BY <1>u DEF Convex
<1> QED
  BY <1>1, <1>2, <1>3 DEF Beside

\* A boundary file leaves no gap after the inputs.
LEMMA BoundaryCovers ==
  ASSUME NEW S, S \subseteq Tables, NEW T \in SUBSET S, T # {}, NEW k \in Keys,
         Within(AddBoundaryFile(S, T), k)
  PROVE  Within(T, k) \/ Covered(AddBoundaryFile(S, T), k)
<1> DEFINE U == AddBoundaryFile(S, T)
           L == RangeLimit(T)
<1>t. T \subseteq Tables
  OBVIOUS
<1>l. L \in Entries /\ (\A t \in T : t.largest.key <= L.key) /\ \E t \in T : t.largest = L
  BY <1>t, RangeProps, RangeKeys
<1>c. \A c \in U \ T : c \in S /\ c.smallest.key = L.key
  BY BoundaryFileProps
<1>u. U \subseteq S
  BY DEF AddBoundaryFile, SmallestBoundaryFile
<1>n. \A f \in S : f.smallest.key \in Int /\ f.largest.key \in Int /\ f.smallest.key <= f.largest.key
  BY TableProps, EntryNumbers
<1>k. k \in Int /\ L.key \in Int
  BY <1>l, EntryNumbers DEF Keys
<1> HIDE DEF U, L
<1>1. PICK f \in U, g \in U : f.smallest.key <= k /\ k <= g.largest.key
  BY DEF Within, U
<1>2. CASE f \in T /\ g \in T
  BY <1>1, <1>2 DEF Within
<1>3. CASE f \notin T /\ g \in T
  <2>1. f.smallest.key = L.key /\ g.largest.key <= L.key
    BY <1>3, <1>c, <1>l
  <2>2. Overlaps(f, k, k)
    BY <2>1, <1>1, <1>n, <1>k, <1>u DEF Overlaps
  <2> QED
    BY <2>2 DEF Covered, U
<1>4. CASE g \notin T
  <2>1. g.smallest.key = L.key
    BY <1>4, <1>c
  <2>2. CASE L.key <= k
    <3>1. Overlaps(g, k, k)
      BY <2>1, <2>2, <1>1, <1>n, <1>k, <1>u DEF Overlaps
    <3> QED
      BY <3>1 DEF Covered, U
  <2>3. CASE k < L.key
    <3>1. f \in T
      BY <2>3, <1>1, <1>c, <1>k
    <3>2. PICK t \in T : t.largest = L
      BY <1>l
    <3>3. k <= t.largest.key
      BY <3>2, <2>3, <1>k
    <3> QED
      BY <3>1, <3>3, <1>1 DEF Within
  <2> QED
    BY <2>2, <2>3, <1>k
<1> QED
  BY <1>2, <1>3, <1>4

\* Inputs that share no key with a file left behind have no boundary file.
LEMMA BoundaryNone ==
  ASSUME NEW S, S \subseteq Tables, IsFiniteSet(S), NEW P \in SUBSET S, P # {}, Separated(S, P)
  PROVE  AddBoundaryInputs(S, P) = P
<1> DEFINE L == RangeLimit(P)
<1>p. P \subseteq Tables
  OBVIOUS
<1>l. L \in Entries /\ (\A p \in P : AtOrBefore(p.largest, L)) /\ \E p \in P : p.largest = L
  BY <1>p, RangeProps
<1>1. ASSUME NEW c \in AddBoundaryFile(S, P), c \notin P PROVE FALSE
  <2>1. c \in S /\ Before(L, c.smallest) /\ c.smallest.key = L.key
    BY <1>1, BoundaryFileProps
  <2>2. Split(c, P)
    BY <2>1, <1>1 DEF Separated
  <2>3. PICK p \in P : p.largest = L
    BY <1>l
  <2> HIDE DEF L
  <2>4. /\ p.smallest \in Entries /\ AtOrBefore(p.smallest, p.largest) /\ L \in Entries /\ L.key \in Int
        /\ c.smallest \in Entries /\ c.largest \in Entries /\ AtOrBefore(c.smallest, c.largest)
    BY <1>l, <2>1, TableProps, EntryNumbers
  <2>5. ~Before(c.largest, p.smallest)
    BY <2>1, <2>3, <2>4, OrderTransitive DEF AtOrBefore
  <2>6. ~(p.largest.key < c.smallest.key)
    BY <2>1, <2>3, <2>4
  <2> QED
    BY <2>2, <2>5, <2>6 DEF Split
<1>2. AddBoundaryFile(S, P) = P
  BY <1>1 DEF AddBoundaryFile
<1>3. PICK g \in [Nat -> SUBSET S] :
           /\ g[0] = P /\ \A n \in Nat : g[n + 1] = AddBoundaryFile(S, g[n])
           /\ AddBoundaryInputs(S, P) = g[Cardinality(S)]
  BY BoundaryRun
<1> DEFINE Q == {n \in Nat : g[n] = P}
<1>4. 0 \in Q
  BY <1>3
<1>5. \A n \in Nat : n \in Q => n + 1 \in Q
  BY <1>2, <1>3
<1>6. Nat \subseteq Q
  <2> HIDE DEF Q
  <2> QED
    BY <1>4, <1>5, NatSetInduction
<1>7. Cardinality(S) \in Nat
  BY FS_CardinalityType
<1> QED
  BY <1>3, <1>6, <1>7

(* What each turn of the loop keeps, from the inputs P.                    *)
Grown(S, P, T) ==
  /\ P \subseteq T /\ Convex(S, T)
  /\ \A c \in T \ P : Before(RangeLimit(P), c.smallest)
  /\ \A k \in Keys : Within(T, k) => Within(P, k) \/ Covered(T, k)

\* One turn of the loop of add_boundary_inputs keeps it.
LEMMA GrownStep ==
  ASSUME NEW S, S \subseteq Tables, Disjoint(S), NEW P \in SUBSET S, P # {},
         NEW T \in SUBSET S, Grown(S, P, T)
  PROVE  Grown(S, P, AddBoundaryFile(S, T))
<1> DEFINE U == AddBoundaryFile(S, T)
<1>1. T # {} /\ P \subseteq T /\ T \subseteq Tables /\ P \subseteq Tables
  BY DEF Grown
<1>2. T \subseteq U
  BY DEF AddBoundaryFile
<1>3. Convex(S, U)
  BY <1>1, BoundaryConvex DEF Grown
<1>4. ASSUME NEW c \in U, c \notin P PROVE Before(RangeLimit(P), c.smallest)
  <2>1. CASE c \in T
    BY <1>4, <2>1 DEF Grown
  <2>2. CASE c \notin T
    <3>1. c \in S /\ Before(RangeLimit(T), c.smallest)
      BY <1>1, <2>2, BoundaryFileProps
    <3>2. PICK p \in P : p.largest = RangeLimit(P)
      BY <1>1, RangeProps
    <3>3. AtOrBefore(RangeLimit(P), RangeLimit(T)) /\ RangeLimit(P) \in Entries /\ RangeLimit(T) \in Entries
      BY <1>1, <3>2, RangeProps
    <3>4. c.smallest \in Entries
      BY <3>1, TableProps
    <3> QED
      BY <3>1, <3>3, <3>4, OrderTransitive
  <2> QED
    BY <2>1, <2>2
<1>5. ASSUME NEW k \in Keys, Within(U, k) PROVE Within(P, k) \/ Covered(U, k)
  <2>1. Within(T, k) \/ Covered(U, k)
    BY <1>1, <1>5, BoundaryCovers
  <2>2. Covered(T, k) => Covered(U, k)
    BY <1>2 DEF Covered
  <2> QED
    BY <2>1, <2>2 DEF Grown
<1> QED
  BY <1>1, <1>2, <1>3, <1>4, <1>5 DEF Grown

\* The loop ends when no boundary file is left: each turn but the last adds a file.
LEMMA BoundaryEnds ==
  ASSUME NEW S, S \subseteq Tables, IsFiniteSet(S), NEW P \in SUBSET S, P # {},
         NEW g \in [Nat -> SUBSET S],
         g[0] = P, \A n \in Nat : g[n + 1] = AddBoundaryFile(S, g[n])
  PROVE  SmallestBoundaryFile(S, RangeLimit(g[Cardinality(S)])) = {}
<1> DEFINE Last(T) == SmallestBoundaryFile(S, RangeLimit(T)) = {}
           Q == {n \in Nat : Last(g[n]) \/ (g[n] # {} /\ Cardinality(g[n]) >= n + 1)}
<1>f. \A T \in SUBSET S : IsFiniteSet(T) /\ Cardinality(T) \in Nat /\ Cardinality(T) <= Cardinality(S)
  BY FS_Subset, FS_CardinalityType
<1>1. 0 \in Q
  <2>1. Cardinality(P) # 0 /\ Cardinality(P) \in Nat
    BY <1>f, FS_EmptySet
  <2> QED
    BY <2>1
<1>2. ASSUME NEW n \in Nat, n \in Q PROVE n + 1 \in Q
  <2>0. g[n] \in SUBSET S /\ g[n + 1] \in SUBSET S /\ g[n + 1] = AddBoundaryFile(S, g[n])
    OBVIOUS
  <2>1. CASE Last(g[n])
    <3>1. g[n + 1] = g[n]
      BY <2>0, <2>1 DEF AddBoundaryFile
    <3> QED
      BY <3>1, <2>1
  <2>2. CASE ~Last(g[n])
    <3>1. g[n] # {} /\ Cardinality(g[n]) >= n + 1
      BY <1>2, <2>2
    <3>2. PICK c \in S : c \in SmallestBoundaryFile(S, RangeLimit(g[n]))
      BY <2>2 DEF SmallestBoundaryFile
    <3>3. c \in g[n + 1]
      BY <2>0, <3>2 DEF AddBoundaryFile
    <3>4. c \notin g[n]
      <4> SUFFICES ASSUME c \in g[n] PROVE FALSE
        OBVIOUS
      <4>1. Before(RangeLimit(g[n]), c.smallest)
        BY <3>2 DEF SmallestBoundaryFile
      <4>2. AtOrBefore(c.largest, RangeLimit(g[n])) /\ RangeLimit(g[n]) \in Entries
        <5>1. g[n] \subseteq Tables
          BY <2>0
        <5> QED
          BY <5>1, <3>1, RangeProps
      <4>3. c.smallest \in Entries /\ c.largest \in Entries /\ AtOrBefore(c.smallest, c.largest)
        BY TableProps
      <4> QED
        BY <4>1, <4>2, <4>3, OrderTransitive DEF AtOrBefore
    <3>5. g[n] \subseteq g[n + 1] /\ g[n] # g[n + 1]
      BY <2>0, <3>3, <3>4 DEF AddBoundaryFile
    <3>6. Cardinality(g[n]) < Cardinality(g[n + 1])
      BY <3>5, <2>0, <1>f, FS_Subset
    <3>7. Cardinality(g[n]) \in Nat /\ Cardinality(g[n + 1]) \in Nat
      BY <2>0, <1>f
    <3>8. Cardinality(g[n + 1]) >= (n + 1) + 1
      BY <3>1, <3>6, <3>7
    <3>9. g[n + 1] # {}
      BY <3>3
    <3> QED
      BY <3>8, <3>9
  <2> QED
    BY <2>1, <2>2
<1>3. Nat \subseteq Q
  <2> HIDE DEF Q
  <2> QED
    BY <1>1, <1>2, NatSetInduction
<1>4. Cardinality(S) \in Nat
  BY FS_CardinalityType
<1>5. Cardinality(g[Cardinality(S)]) \in Nat /\ Cardinality(g[Cardinality(S)]) <= Cardinality(S)
  BY <1>4, <1>f
<1>6. Cardinality(S) \in Q
  BY <1>3, <1>4
<1> QED
  BY <1>4, <1>5, <1>6

\* Inputs with their boundary files: nothing left behind in the level lies between them or
\* shares a key with one before it, they reach on from the inputs without a gap.
LEMMA BoundaryProps ==
  ASSUME NEW S, S \subseteq Tables, IsFiniteSet(S), Disjoint(S), NEW P \in SUBSET S, P # {}, Convex(S, P)
  PROVE  /\ AddBoundaryInputs(S, P) \in SUBSET S /\ P \subseteq AddBoundaryInputs(S, P)
         /\ Separated(S, AddBoundaryInputs(S, P))
         /\ \A c \in AddBoundaryInputs(S, P) \ P : Before(RangeLimit(P), c.smallest)
         /\ \A k \in Keys : Within(AddBoundaryInputs(S, P), k)
              => Within(P, k) \/ Covered(AddBoundaryInputs(S, P), k)
<1>1. PICK g \in [Nat -> SUBSET S] :
           /\ g[0] = P /\ \A n \in Nat : g[n + 1] = AddBoundaryFile(S, g[n])
           /\ AddBoundaryInputs(S, P) = g[Cardinality(S)]
  BY BoundaryRun
<1> DEFINE Q == {n \in Nat : Grown(S, P, g[n])}
           R == g[Cardinality(S)]
<1>2. 0 \in Q
  BY <1>1 DEF Grown
<1>3. ASSUME NEW n \in Nat, n \in Q PROVE n + 1 \in Q
  <2>1. g[n] \in SUBSET S /\ Grown(S, P, g[n])
    BY <1>3
  <2>2. Grown(S, P, AddBoundaryFile(S, g[n]))
    BY <2>1, GrownStep
  <2> QED
    BY <2>2, <1>1
<1>4. Nat \subseteq Q
  <2> HIDE DEF Q
  <2> QED
    BY <1>2, <1>3, NatSetInduction
<1>5. Cardinality(S) \in Nat
  BY FS_CardinalityType
<1>6. Grown(S, P, R) /\ R \in SUBSET S
  BY <1>4, <1>5
<1>7. SmallestBoundaryFile(S, RangeLimit(R)) = {}
  BY <1>1, BoundaryEnds
<1>8. AddBoundaryInputs(S, P) = R
  BY <1>1
<1> HIDE DEF R
<1>9. ASSUME NEW z \in S, z \notin R PROVE Split(z, R)
  <2>1. R \subseteq Tables /\ R # {}
    BY <1>6 DEF Grown
  <2>2. Beside(z, R)
    BY <1>6, <1>9 DEF Grown, Convex
  <2> SUFFICES ASSUME \A r \in R : Before(r.largest, z.smallest) PROVE Split(z, R)
    BY <2>2 DEF Beside, Split
  <2> DEFINE L == RangeLimit(R)
  <2>3. L \in Entries /\ Before(L, z.smallest) /\ \A r \in R : r.largest.key <= L.key
    BY <2>1, RangeProps, RangeKeys
  <2>4. z.smallest.key # L.key
    BY <2>3, <1>7, BoundaryFound
  <2>5. z.smallest \in Entries
    BY TableProps
  <2>6. \A r \in R : r.largest.key \in Int
    BY <2>1, TableProps, EntryNumbers
  <2>7. L.key < z.smallest.key
    BY <2>3, <2>4, <2>5, EntryNumbers, OrderTransitive
  <2> HIDE DEF L
  <2>8. \A r \in R : r.largest.key < z.smallest.key
    BY <2>3, <2>5, <2>6, <2>7, EntryNumbers
  <2> QED
    BY <2>8 DEF Split
<1> QED
  BY <1>6, <1>8, <1>9 DEF Grown, Separated

-----------------------------------------------------------------------------
(* ldb_versions_setup_other_inputs.                                        *)

Leveled(v) == v \in Versions /\ \A l \in 1..(NumLevels - 1) : Disjoint(v[l])

\* The levels of a version hold finitely many tables.
LEMMA VersionLevel ==
  ASSUME NEW v \in Versions, NEW l \in Levels
  PROVE  v[l] \subseteq Tables /\ IsFiniteSet(v[l])
BY DEF Versions

\* A level a compaction starts at has a next one.
LEMMA NextLevel ==
  ASSUME NEW level \in 0..(NumLevels - 2)
  PROVE  /\ level \in Int /\ level \in Levels /\ level + 1 \in Levels /\ level + 1 \in 1..(NumLevels - 1)
         /\ level + 1 # 0 /\ level + 1 # level /\ (level # 0 => level \in 1..(NumLevels - 1))
         /\ 0 \in Levels
BY Constants DEF Levels

\* In a level without overlaps the files that meet a range are neighbours.
LEMMA OverlapConvex ==
  ASSUME NEW v, NEW level, level # 0, v[level] \subseteq Tables, Disjoint(v[level]),
         NEW b \in Keys, NEW e \in Keys
  PROVE  Convex(v[level], OverlappingInputs(v, level, b, e))
<1> DEFINE O == OverlappingInputs(v, level, b, e)
<1>1. /\ \A z \in v[level] \ O : z.largest.key < b \/ z.smallest.key > e
      /\ \A z \in O : z.largest.key >= b /\ z.smallest.key <= e
  BY OverlapDeep
<1>2. O \subseteq v[level]
  BY DEF OverlappingInputs
<1>n. \A f \in v[level] : /\ f.smallest \in Entries /\ f.largest \in Entries
                          /\ f.smallest.key \in Int /\ f.largest.key \in Int
                          /\ f.smallest.key <= f.largest.key
  BY TableProps, EntryNumbers
<1>k. b \in Int /\ e \in Int
  BY DEF Keys
<1> HIDE DEF O
<1> SUFFICES ASSUME NEW z \in v[level], z \notin O PROVE Beside(z, O)
  BY DEF Convex, O
<1>3. \A r \in O : Before(z.largest, r.smallest) \/ Before(r.largest, z.smallest)
  BY <1>2 DEF Disjoint
<1>o. \A r \in O : /\ Before(z.largest, r.smallest) => z.largest.key <= r.smallest.key
                   /\ Before(r.largest, z.smallest) => r.largest.key <= z.smallest.key
  BY <1>2, <1>n, OrderTransitive
<1>4. CASE z.largest.key < b
  <2>1. ASSUME NEW r \in O PROVE ~Before(r.largest, z.smallest)
    BY <1>1, <1>2, <1>4, <1>k, <1>n, <1>o
  <2> QED
    BY <2>1, <1>3 DEF Beside
<1>5. CASE z.smallest.key > e
  <2>1. ASSUME NEW r \in O PROVE ~Before(z.largest, r.smallest)
    BY <1>1, <1>2, <1>5, <1>k, <1>n, <1>o
  <2> QED
    BY <2>1, <1>3 DEF Beside
<1> QED
  BY <1>1, <1>4, <1>5

\* The files of the next level that inputs meet, with their boundary files: what is left there
\* lies beside the inputs and them, and they leave no gap beyond the inputs.
LEMMA ParentsProps ==
  ASSUME NEW v, Leveled(v), NEW level \in 0..(NumLevels - 2), NEW I, I \subseteq Tables, I # {}
  PROVE  /\ Parents(v, level, I) \subseteq v[level + 1]
         /\ \A f \in v[level + 1] : Overlaps(f, RangeStart(I).key, RangeLimit(I).key) => f \in Parents(v, level, I)
         /\ \A z \in v[level + 1] \ Parents(v, level, I) : Split(z, I \cup Parents(v, level, I))
         /\ \A k \in Keys : Within(I \cup Parents(v, level, I), k)
              => Within(I, k) \/ Covered(Parents(v, level, I), k)
<1> DEFINE S == v[level + 1]
           lo == RangeStart(I).key
           hi == RangeLimit(I).key
           O == OverlappingInputs(v, level + 1, lo, hi)
           P == Parents(v, level, I)
<1>s. S \subseteq Tables /\ IsFiniteSet(S) /\ Disjoint(S) /\ level + 1 # 0
  BY NextLevel, VersionLevel DEF Leveled
<1>k. /\ lo \in Keys /\ hi \in Keys /\ lo <= hi
      /\ \A f \in I : lo <= f.smallest.key /\ f.largest.key <= hi
      /\ \A k \in Int : (lo <= k /\ k <= hi) <=> Within(I, k)
  BY RangeKeys
<1>i. lo \in Int /\ hi \in Int
  BY <1>k DEF Keys
<1>o. /\ O \subseteq S /\ \A f \in S : Overlaps(f, lo, hi) => f \in O
      /\ \A z \in S \ O : z.largest.key < lo \/ z.smallest.key > hi
      /\ \A z \in O : z.largest.key >= lo /\ z.smallest.key <= hi
  BY <1>s, <1>k, OverlapIncludes, OverlapDeep
<1>c. Convex(S, O)
  BY <1>s, <1>k, OverlapConvex
<1>p. P = AddBoundaryInputs(S, O)
  BY DEF Parents
<1> HIDE DEF S, lo, hi, O, P
<1>n. \A f \in Tables : /\ f.smallest \in Entries /\ f.largest \in Entries
                        /\ f.smallest.key \in Int /\ f.largest.key \in Int
                        /\ f.smallest.key <= f.largest.key
  BY TableProps, EntryNumbers
<1>1. /\ P \subseteq S /\ O \subseteq P /\ Separated(S, P) /\ (O = {} => P = {})
      /\ \A r \in P : r.largest.key >= lo
      /\ \A k \in Keys : Within(P, k) => Within(O, k) \/ Covered(P, k)
  <2>1. CASE O = {}
    <3>1. P = {}
      BY <2>1, <1>p DEF AddBoundaryInputs
    <3> QED
      BY <3>1, <2>1 DEF Separated, Split, Within
  <2>2. CASE O # {}
    <3>1. /\ P \subseteq S /\ O \subseteq P /\ Separated(S, P)
          /\ \A c \in P \ O : Before(RangeLimit(O), c.smallest)
          /\ \A k \in Keys : Within(P, k) => Within(O, k) \/ Covered(P, k)
      BY <2>2, <1>s, <1>o, <1>c, <1>p, BoundaryProps
    <3>2. ASSUME NEW r \in P PROVE r.largest.key >= lo
      <4>1. CASE r \in O
        BY <4>1, <1>o
      <4>2. CASE r \notin O
        <5>1. PICK y \in O : y.largest = RangeLimit(O)
          BY <2>2, <1>s, <1>o, RangeProps
        <5>2. Before(y.largest, r.smallest) /\ y \in Tables /\ r \in Tables
          BY <4>2, <5>1, <3>1, <1>o, <1>s
        <5>3. y.largest.key <= r.smallest.key
          BY <5>2, <1>n, OrderTransitive
        <5>4. y.largest.key >= lo
          BY <1>o
        <5> QED
          BY <5>2, <5>3, <5>4, <1>i, <1>n
      <4> QED
        BY <4>1, <4>2
    <3> QED
      BY <3>1, <3>2, <2>2
  <2> QED
    BY <2>1, <2>2
<1>2. ASSUME NEW z \in S, z \notin P PROVE Split(z, I \cup P)
  <2>z. z \in Tables /\ z \notin O
    BY <1>2, <1>1, <1>s
  <2>1. CASE z.largest.key < lo
    <3>1. ASSUME NEW r \in I PROVE Before(z.largest, r.smallest)
      <4>1. z.largest.key < r.smallest.key
        BY <2>1, <2>z, <1>k, <1>i, <1>n
      <4> QED
        BY <4>1 DEF Before
    <3>2. ASSUME NEW r \in P PROVE Before(z.largest, r.smallest)
      <4>1. r \in S /\ r # z /\ r \in Tables /\ r.largest.key >= lo
        BY <1>2, <1>1, <1>s
      <4>2. Before(z.largest, r.smallest) \/ Before(r.largest, z.smallest)
        BY <4>1, <1>s DEF Disjoint
      <4>3. Before(r.largest, z.smallest) => r.largest.key <= z.smallest.key
        BY <4>1, <2>z, <1>n, OrderTransitive
      <4> QED
        BY <4>1, <4>2, <4>3, <2>1, <2>z, <1>i, <1>n
    <3> QED
      BY <3>1, <3>2 DEF Split
  <2>2. CASE z.smallest.key > hi
    <3>1. \A r \in I : r.largest.key < z.smallest.key
      BY <2>2, <2>z, <1>k, <1>i, <1>n
    <3>2. \A r \in P : r.largest.key < z.smallest.key
      <4>1. CASE O = {}
        BY <4>1, <1>1
      <4>2. CASE O # {}
        <5>1. PICK y \in O : TRUE
          BY <4>2
        <5>2. y \in P /\ y \in Tables /\ y.smallest.key <= hi
          BY <1>1, <1>o, <1>s
        <5>3. ~Before(z.largest, y.smallest)
          <6>1. Before(z.largest, y.smallest) => z.largest.key <= y.smallest.key
            BY <5>2, <2>z, <1>n, OrderTransitive
          <6> QED
            BY <6>1, <5>2, <2>2, <2>z, <1>i, <1>n
        <5>4. Split(z, P)
          BY <1>2, <1>1 DEF Separated
        <5> QED
          BY <5>2, <5>3, <5>4 DEF Split
      <4> QED
        BY <4>1, <4>2
    <3> QED
      BY <3>1, <3>2 DEF Split
  <2> QED
    BY <2>1, <2>2, <2>z, <1>2, <1>o
<1>3. ASSUME NEW k \in Keys, Within(I \cup P, k), ~Within(I, k) PROVE Covered(P, k)
  <2>k. k \in Int
    BY DEF Keys
  <2>1. PICK f \in I \cup P, g \in I \cup P : f.smallest.key <= k /\ k <= g.largest.key
    BY <1>3 DEF Within
  <2>t. f \in Tables /\ g \in Tables
    BY <1>1, <1>s
  <2>2. k < lo \/ k > hi
    BY <2>k, <1>3, <1>k, <1>i
  <2>3. CASE k < lo
    <3>1. f \in P
      BY <2>1, <2>3, <2>k, <2>t, <1>k, <1>i, <1>n
    <3>2. Overlaps(f, k, k)
      BY <3>1, <2>1, <2>3, <2>k, <2>t, <1>1, <1>i, <1>n DEF Overlaps
    <3> QED
      BY <3>1, <3>2 DEF Covered
  <2>4. CASE k > hi
    <3>1. g \in P
      BY <2>1, <2>4, <2>k, <2>t, <1>k, <1>i, <1>n
    <3>2. PICK y \in O : TRUE
      BY <3>1, <1>1
    <3>3. y \in P /\ y \in Tables /\ y.smallest.key <= k
      BY <2>k, <2>4, <1>1, <1>o, <1>s, <1>i, <1>n
    <3>4. Within(P, k)
      BY <3>1, <3>3, <2>1 DEF Within
    <3> SUFFICES ASSUME Within(O, k) PROVE Covered(P, k)
      BY <3>4, <1>1
    <3>5. PICK h \in O : k <= h.largest.key
      BY DEF Within
    <3>6. h \in P /\ h \in Tables /\ h.smallest.key <= k
      BY <2>k, <2>4, <1>1, <1>o, <1>s, <1>i, <1>n
    <3>7. Overlaps(h, k, k)
      BY <3>5, <3>6, <2>k, <1>n DEF Overlaps
    <3> QED
      BY <3>6, <3>7 DEF Covered
  <2> QED
    BY <2>2, <2>3, <2>4
<1>4. \A f \in S : Overlaps(f, lo, hi) => f \in P
  BY <1>1, <1>o
<1> QED
  BY <1>1, <1>2, <1>3, <1>4 DEF S, P, lo, hi

(* Files a compaction of a level may start from.                           *)
Startable(v, level, P) ==
  /\ level \in 0..(NumLevels - 2)
  /\ P \subseteq v[level] /\ P # {}
  /\ IF level = 0 THEN Separated(v[0], P) ELSE Convex(v[level], P)

\* With their boundary files they are all of their level that the compaction needs.
LEMMA StartProps ==
  ASSUME NEW v, Leveled(v), NEW level, NEW P, Startable(v, level, P)
  PROVE  /\ AddBoundaryInputs(v[level], P) \subseteq v[level] /\ P \subseteq AddBoundaryInputs(v[level], P)
         /\ Separated(v[level], AddBoundaryInputs(v[level], P))
         /\ \A k \in Keys : Within(AddBoundaryInputs(v[level], P), k)
              => Within(P, k) \/ Covered(AddBoundaryInputs(v[level], P), k)
<1>1. level \in Levels /\ v[level] \subseteq Tables /\ IsFiniteSet(v[level])
  BY NextLevel, VersionLevel DEF Leveled, Startable
<1>2. CASE level = 0
  <2>1. AddBoundaryInputs(v[level], P) = P
    BY <1>1, <1>2, BoundaryNone DEF Startable
  <2> QED
    BY <1>2, <2>1 DEF Startable
<1>3. CASE level # 0
  <2>1. Disjoint(v[level]) /\ Convex(v[level], P) /\ P \in SUBSET v[level] /\ P # {}
    BY <1>3, NextLevel DEF Leveled, Startable
  <2> QED
    BY <1>1, <2>1, BoundaryProps
<1> QED
  BY <1>2, <1>3

\* Files left behind in the level are newer, where they share a key, than the inputs.
LEMMA SeparatedNewer ==
  ASSUME NEW S, S \subseteq Tables, NEW R, R \subseteq S, Separated(S, R), NEW x \in S \ R, NEW y \in R
  PROVE  NewerThan(x.ents, y.ents)
<1> SUFFICES ASSUME NEW a \in x.ents, NEW b \in y.ents, a.key = b.key PROVE a.seq > b.seq
  BY DEF NewerThan
<1>1. /\ AtOrBefore(a, x.largest) /\ AtOrBefore(y.smallest, b) /\ x.smallest.key <= a.key /\ b.key <= y.largest.key
      /\ a \in Entries /\ b \in Entries /\ x.largest \in Entries /\ y.smallest \in Entries
      /\ x.smallest \in Entries /\ y.largest \in Entries
  BY TableProps
<1>2. Split(x, R)
  BY DEF Separated
<1>3. ~(y.largest.key < x.smallest.key)
  BY <1>1, EntryNumbers
<1>4. Before(x.largest, y.smallest)
  BY <1>2, <1>3 DEF Split
<1>5. Before(a, b)
  BY <1>1, <1>4, OrderTransitive
<1> QED
  BY <1>1, <1>5, EntryNumbers DEF Before

\* Inputs of a level with the files they meet in the next are inputs a compaction may take.
LEMMA TakesParents ==
  ASSUME NEW v, Leveled(v), NEW level \in 0..(NumLevels - 2),
         NEW I, I \subseteq v[level], I # {}, Separated(v[level], I),
         MaxMemLevel = 0 \/ Gapless(I \cup Parents(v, level, I))
  PROVE  Takes(v, level, I, Parents(v, level, I))
<1>1. v[level] \subseteq Tables /\ I \subseteq Tables
  BY NextLevel, VersionLevel DEF Leveled
<1>2. /\ Parents(v, level, I) \subseteq v[level + 1]
      /\ \A z \in v[level + 1] \ Parents(v, level, I) : Split(z, I \cup Parents(v, level, I))
  BY <1>1, ParentsProps
<1>3. \A x \in v[level] \ I, y \in I : NewerThan(x.ents, y.ents)
  BY <1>1, SeparatedNewer
<1> QED
  BY <1>2, <1>3 DEF Takes

\* The files of the level that meet the whole range of the inputs are a start too, and
\* include the inputs (the expansion in ldb_versions_setup_other_inputs).
LEMMA ExpansionStartable ==
  ASSUME NEW v, Leveled(v), NEW level \in 0..(NumLevels - 2),
         NEW I, I \subseteq v[level], I # {}, NEW all, I \subseteq all, all \subseteq Tables
  PROVE  /\ Startable(v, level, OverlappingInputs(v, level, RangeStart(all).key, RangeLimit(all).key))
         /\ I \subseteq OverlappingInputs(v, level, RangeStart(all).key, RangeLimit(all).key)
<1> DEFINE b == RangeStart(all).key
           e == RangeLimit(all).key
           O == OverlappingInputs(v, level, b, e)
<1>1. v[level] \subseteq Tables /\ v[0] \subseteq Tables /\ (level # 0 => Disjoint(v[level]))
  BY NextLevel, VersionLevel DEF Leveled
<1>2. b \in Keys /\ e \in Keys /\ b <= e /\ \A f \in all : b <= f.smallest.key /\ f.largest.key <= e
  BY RangeKeys
<1>3. O \subseteq v[level] /\ \A f \in v[level] : Overlaps(f, b, e) => f \in O
  BY <1>1, <1>2, OverlapIncludes
<1>4. level # 0 => Convex(v[level], O)
  BY <1>1, <1>2, OverlapConvex
<1>5. level = 0 => Separated(v[0], O)
  BY <1>1, <1>2, OverlapSplitsZero DEF Separated
<1> HIDE DEF b, e, O
<1>6. ASSUME NEW f \in I PROVE f \in O
  <2>1. f \in Tables /\ f \in v[level] /\ b <= f.smallest.key /\ f.largest.key <= e
    BY <1>1, <1>2
  <2>2. f.smallest.key \in Int /\ f.largest.key \in Int /\ f.smallest.key <= f.largest.key /\ b \in Int /\ e \in Int
    BY <2>1, <1>2, TableProps, EntryNumbers DEF Keys
  <2>3. Overlaps(f, b, e)
    BY <2>1, <2>2 DEF Overlaps
  <2> QED
    BY <2>1, <2>3, <1>3
<1>7. Startable(v, level, O)
  BY <1>3, <1>4, <1>5, <1>6 DEF Startable
<1> QED
  BY <1>6, <1>7 DEF O, b, e

\* A compaction set up from files it may start from takes inputs it may take.
LEMMA SetupProps ==
  ASSUME NEW v, Leveled(v), NEW level, NEW P, Startable(v, level, P), MaxMemLevel = 0 \/ Gapless(P)
  PROVE  /\ SetupOtherInputs(v, level, P).level = level
         /\ Takes(v, level, SetupOtherInputs(v, level, P).in0, SetupOtherInputs(v, level, P).in1)
         /\ SetupOtherInputs(v, level, P).largest \in Entries
<1> DEFINE I == AddBoundaryInputs(v[level], P)
           J == Parents(v, level, I)
           all == I \cup J
           O == OverlappingInputs(v, level, RangeStart(all).key, RangeLimit(all).key)
           X == AddBoundaryInputs(v[level], O)
           Y == Parents(v, level, X)
           c == SetupOtherInputs(v, level, P)
<1>c. /\ c.level = level
      /\ \/ c.in0 = X /\ c.in1 = Y /\ c.largest = RangeLimit(X)
         \/ c.in0 = I /\ c.in1 = J /\ c.largest = RangeLimit(I)
  BY DEF SetupOtherInputs
<1>l. level \in 0..(NumLevels - 2) /\ v[level] \subseteq Tables /\ v[level + 1] \subseteq Tables
  BY NextLevel, VersionLevel DEF Leveled, Startable
<1>i. /\ I \subseteq v[level] /\ P \subseteq I /\ I # {} /\ I \subseteq Tables /\ Separated(v[level], I)
      /\ \A k \in Keys : Within(I, k) => Within(P, k) \/ Covered(I, k)
  BY <1>l, StartProps DEF Startable
<1> HIDE DEF I
<1>j. /\ J \subseteq v[level + 1]
      /\ \A k \in Keys : Within(I \cup J, k) => Within(I, k) \/ Covered(J, k)
  BY <1>i, <1>l, ParentsProps
<1> HIDE DEF J, c
<1>g. MaxMemLevel = 0 \/ Gapless(all)
  BY <1>i, <1>j DEF Gapless, Covered
<1>1. Takes(v, level, I, J)
  BY <1>g, <1>i, <1>l, TakesParents DEF J
<1>a. I \subseteq all /\ all \subseteq Tables /\ all # {}
  BY <1>i, <1>j, <1>l
<1>r. \A k \in Int : (RangeStart(all).key <= k /\ k <= RangeLimit(all).key) => Within(all, k)
  BY <1>a, RangeKeys
<1>b. RangeStart(all).key \in Keys /\ RangeLimit(all).key \in Keys /\ RangeStart(all).key <= RangeLimit(all).key
  BY <1>a, RangeKeys
<1> HIDE DEF all
<1>o. Startable(v, level, O) /\ I \subseteq O
  BY <1>a, <1>i, <1>l, ExpansionStartable
<1>q. \A k \in Keys : Within(O, k) => Covered(O, k) \/ (RangeStart(all).key <= k /\ k <= RangeLimit(all).key)
  BY <1>b, <1>l, OverlapCovers
<1> HIDE DEF O
<1>x. /\ X \subseteq v[level] /\ O \subseteq X /\ X # {} /\ X \subseteq Tables /\ Separated(v[level], X)
      /\ \A k \in Keys : Within(X, k) => Within(O, k) \/ Covered(X, k)
  BY <1>o, <1>l, StartProps DEF Startable
<1> HIDE DEF X
<1>y. /\ Y \subseteq v[level + 1]
      /\ \A f \in v[level + 1] : Overlaps(f, RangeStart(X).key, RangeLimit(X).key) => f \in Y
      /\ \A k \in Keys : Within(X \cup Y, k) => Within(X, k) \/ Covered(Y, k)
  BY <1>x, <1>l, ParentsProps
<1> HIDE DEF Y
<1>h. ASSUME Gapless(all), NEW k \in Keys, Within(X \cup Y, k) PROVE Covered(X \cup Y, k)
  <2>1. ASSUME Within(X, k), Within(O, k), ~Covered(O, k) PROVE Covered(X \cup Y, k)
    <3>k. k \in Int
      BY DEF Keys
    <3>1. RangeStart(all).key <= k /\ k <= RangeLimit(all).key
      BY <2>1, <1>q
    <3>2. PICK h \in all : Overlaps(h, k, k)
      BY <3>k, <3>1, <1>r, <1>h DEF Gapless, Covered
    <3>3. CASE h \in I
      BY <3>2, <3>3, <1>o, <1>x DEF Covered
    <3>4. CASE h \in J
      <4>1. RangeStart(X).key <= k /\ k <= RangeLimit(X).key
        BY <3>k, <2>1, <1>x, RangeKeys
      <4>2. RangeStart(X).key \in Int /\ RangeLimit(X).key \in Int
        BY <1>x, RangeKeys DEF Keys
      <4>3. h.smallest.key \in Int /\ h.largest.key \in Int /\ h \in v[level + 1]
        BY <3>4, <1>j, <1>l, TableProps, EntryNumbers
      <4>4. Overlaps(h, RangeStart(X).key, RangeLimit(X).key)
        BY <3>2, <3>k, <4>1, <4>2, <4>3 DEF Overlaps
      <4> QED
        BY <3>2, <4>3, <4>4, <1>y DEF Covered
    <3> QED
      BY <3>3, <3>4 DEF all
  <2>2. Covered(O, k) => Covered(X \cup Y, k)
    BY <1>x DEF Covered
  <2>3. Covered(X, k) \/ Covered(Y, k) => Covered(X \cup Y, k)
    BY DEF Covered
  <2> QED
    BY <2>1, <2>2, <2>3, <1>h, <1>x, <1>y
<1>2. Takes(v, level, X, Y)
  <2>1. MaxMemLevel = 0 \/ Gapless(X \cup Y)
    BY <1>g, <1>h DEF Gapless
  <2> QED
    BY <2>1, <1>x, <1>l, TakesParents DEF Y
<1>3. RangeLimit(I) \in Entries /\ RangeLimit(X) \in Entries
  BY <1>i, <1>x, RangeProps
<1> QED
  BY <1>c, <1>1, <1>2, <1>3 DEF c

-----------------------------------------------------------------------------
(* Sizes, scores and the files a compaction starts from.                   *)

\* There are finitely many entries.
LEMMA EntriesFinite ==
  ASSUME NEW T, T \subseteq Entries
  PROVE  IsFiniteSet(T) /\ Cardinality(T) \in Nat
<1> DEFINE N == (Keys \X (1..MaxSeq)) \X BOOLEAN
           f == [e \in Entries |-> <<<<e.key, e.seq>>, e.del>>]
<1>1. IsFiniteSet(Keys) /\ IsFiniteSet(1..MaxSeq)
  BY Constants, FS_Interval DEF Keys
<1>2. IsFiniteSet(BOOLEAN)
  <2>1. BOOLEAN = {TRUE} \cup {FALSE}
    OBVIOUS
  <2>2. IsFiniteSet({TRUE})
    BY FS_Singleton
  <2> QED
    BY <2>1, <2>2, FS_AddElement
<1>3. IsFiniteSet(N)
  BY <1>1, <1>2, FS_Product
<1>4. f \in Injection(Entries, N)
  <2>1. f \in [Entries -> N]
    BY DEF Entries
  <2>2. \A a, b \in Entries : f[a] = f[b] => a = b
    BY DEF Entries
  <2> QED
    BY <2>1, <2>2 DEF Injection, IsInjective
<1>5. IsFiniteSet(Entries)
  <2> HIDE DEF f, N
  <2> QED
    BY <1>3, <1>4, FS_Injection
<1> QED
  BY <1>5, FS_Subset, FS_CardinalityType

\* The size of a set of files is that of its entries, and grows with the set (total_file_size).
LEMMA SizeProps ==
  ASSUME NEW A, NEW B, A \subseteq B, B \subseteq Tables
  PROVE  /\ TotalSize(A) \in Nat /\ TotalSize(B) \in Nat /\ TotalSize(A) <= TotalSize(B)
         /\ TotalSize({}) = 0
<1>1. /\ UNION {f.ents : f \in A} \subseteq Entries /\ UNION {f.ents : f \in B} \subseteq Entries
      /\ UNION {f.ents : f \in A} \subseteq UNION {f.ents : f \in B}
  BY TableProps
<1>2. /\ Cardinality(UNION {f.ents : f \in A}) \in Nat /\ Cardinality(UNION {f.ents : f \in B}) \in Nat
      /\ IsFiniteSet(UNION {f.ents : f \in B})
  BY <1>1, EntriesFinite
<1>3. Cardinality(UNION {f.ents : f \in A}) <= Cardinality(UNION {f.ents : f \in B})
  BY <1>1, <1>2, FS_Subset
<1>4. TotalSize({}) = 0
  <2>1. UNION {f.ents : f \in {}} = {}
    OBVIOUS
  <2> QED
    BY <2>1, FS_EmptySet DEF TotalSize
<1> QED
  BY <1>2, <1>3, <1>4 DEF TotalSize

\* The byte limit of a level is positive (max_bytes_for_level).
LEMMA MaxBytesPositive ==
  ASSUME NEW l \in Levels
  PROVE  MaxBytes[l] \in Nat /\ MaxBytes[l] >= 1
<1> DEFINE F == [x \in Nat |-> 2 * x]
<1>1. PICK g \in [Nat -> Nat] : g[0] = LevelLimit /\ \A n \in Nat : g[n + 1] = F[g[n]]
  <2>1. F \in Steps(Nat) /\ LevelLimit \in Nat
    BY Constants DEF Steps
  <2> HIDE DEF F
  <2>2. Iterates(Nat, F, LevelLimit)
    BY <2>1, Iteration
  <2> QED
    BY <2>2 DEF Iterates
<1>2. \A n \in Nat : g[n + 1] = 2 * g[n]
  BY <1>1
<1> HIDE DEF F
<1> DEFINE Loop(h) == h = [i \in Levels |-> IF i <= 1 THEN LevelLimit ELSE 2 * h[i - 1]]
           h0 == [i \in Levels |-> IF i <= 1 THEN LevelLimit ELSE g[i - 1]]
<1>i. \A i \in Levels : i \in Int /\ i >= 0 /\ (i > 1 => i - 1 \in Levels /\ i - 1 \in Nat /\ i - 2 \in Nat)
  BY Constants DEF Levels
<1>3. Loop(h0)
  <2>1. ASSUME NEW i \in Levels, i > 1 PROVE g[i - 1] = 2 * h0[i - 1]
    <3>1. i - 1 \in Levels /\ i - 2 \in Nat /\ (i - 2) + 1 = i - 1
      BY <2>1, <1>i
    <3>2. g[i - 1] = 2 * g[i - 2]
      BY <3>1, <1>2
    <3>3. CASE i - 1 <= 1
      <4>1. i - 2 = 0
        BY <3>1, <3>3, <1>i
      <4> QED
        BY <4>1, <3>1, <3>2, <3>3, <1>1
    <3>4. CASE ~(i - 1 <= 1)
      <4>1. h0[i - 1] = g[(i - 1) - 1]
        BY <3>1, <3>4
      <4>2. (i - 1) - 1 = i - 2
        BY <1>i
      <4> QED
        BY <3>2, <4>1, <4>2
    <3> QED
      BY <3>3, <3>4
  <2>2. ASSUME NEW i \in Levels PROVE h0[i] = IF i <= 1 THEN LevelLimit ELSE 2 * h0[i - 1]
    <3>1. h0[i] = IF i <= 1 THEN LevelLimit ELSE g[i - 1]
      OBVIOUS
    <3>2. i \in Int
      BY <1>i
    <3>3. ~(i <= 1) => g[i - 1] = 2 * h0[i - 1]
      BY <2>1, <3>2
    <3> HIDE DEF h0
    <3> QED
      BY <3>1, <3>3
  <2>3. h0 = [i \in Levels |-> h0[i]]
    OBVIOUS
  <2> HIDE DEF h0
  <2> QED
    BY <2>2, <2>3
<1>4. Loop(MaxBytes)
  <2>1. MaxBytes = CHOOSE h : Loop(h)
    BY DEF MaxBytes
  <2> HIDE DEF Loop, h0
  <2> QED
    BY <1>3, <2>1
<1>5. \A i \in Levels : MaxBytes[i] = IF i <= 1 THEN LevelLimit ELSE 2 * MaxBytes[i - 1]
  BY <1>4
<1> DEFINE Q == {n \in Nat : n \in Levels => MaxBytes[n] \in Nat /\ MaxBytes[n] >= 1}
<1>6. 0 \in Q
  BY <1>5, Constants
<1>7. ASSUME NEW n \in Nat, n \in Q PROVE n + 1 \in Q
  <2> SUFFICES ASSUME n + 1 \in Levels PROVE MaxBytes[n + 1] \in Nat /\ MaxBytes[n + 1] >= 1
    OBVIOUS
  <2>1. CASE n = 0
    BY <2>1, <1>5, Constants
  <2>2. CASE n # 0
    <3>1. n \in Levels /\ ~(n + 1 <= 1) /\ (n + 1) - 1 = n
      BY <2>2, Constants DEF Levels
    <3>2. MaxBytes[n + 1] = 2 * MaxBytes[n]
      BY <3>1, <1>5
    <3> QED
      BY <3>1, <3>2, <1>7
  <2> QED
    BY <2>1, <2>2
<1>8. Nat \subseteq Q
  <2> HIDE DEF Q
  <2> QED
    BY <1>6, <1>7, NatSetInduction
<1> QED
  BY <1>8, <1>i

\* A level whose score asks for a compaction has a file (ldb_versions_finalize).
LEMMA BestLevelProps ==
  ASSUME NEW v, Leveled(v), SizeCompaction(v)
  PROVE  BestLevel(v) \in 0..(NumLevels - 2) /\ v[BestLevel(v)] # {}
<1> DEFINE l == BestLevel(v)
<1>1. l \in SizeLevels(v)
  BY DEF SizeCompaction, BestLevel
<1> HIDE DEF l
<1>2. l \in 0..(NumLevels - 2) /\ Load(v, l) >= Capacity(l)
  BY <1>1 DEF SizeLevels
<1>3. l \in Levels
  BY <1>2, NextLevel
<1>4. Capacity(l) \in Nat /\ Capacity(l) >= 1
  BY <1>3, MaxBytesPositive, Constants DEF Capacity
<1>5. ASSUME v[l] = {} PROVE Load(v, l) = 0
  <2>1. {} \subseteq {} /\ {} \subseteq Tables
    OBVIOUS
  <2>2. TotalSize({}) = 0
    BY <2>1, SizeProps
  <2>3. Cardinality({}) = 0
    BY FS_EmptySet
  <2> QED
    BY <1>5, <2>2, <2>3 DEF Load
<1>6. v[l] # {}
  BY <1>2, <1>4, <1>5
<1> QED
  BY <1>2, <1>6 DEF l

(* A version of the database: no entry of it shares a sequence number with *)
(* another, and level-0 files are told apart by their numbers.             *)
Proper(v, h) ==
  /\ Leveled(v)
  /\ \A l \in Levels : \A f \in v[l] : f.ents \subseteq h
  /\ \A a, b \in h : a.seq = b.seq => a = b
  /\ \A f, g \in v[0] : f.num = g.num => f = g

\* The files of a level have a first one (the order of a level's file vector).
LEMMA FirstFileProps ==
  ASSUME NEW v, NEW h, Proper(v, h), NEW l \in Levels, NEW S, S \subseteq v[l], S # {}
  PROVE  FirstFile(S) \in S /\ \A g \in S : FirstFile(S) = g \/ Precedes(FirstFile(S), g)
<1>1. S \subseteq Tables /\ v[l] \subseteq Tables
  BY VersionLevel DEF Proper, Leveled
<1> DEFINE m == RangeStart(S)
           B == {f \in S : f.smallest = m}
           N == {f.num : f \in B}
<1>2. m \in Entries /\ (\E f \in S : f.smallest = m) /\ \A f \in S : AtOrBefore(m, f.smallest)
  BY <1>1, RangeProps
<1> HIDE DEF m
<1>3. PICK n \in N : \A x \in N : n <= x
  <2>1. N \subseteq Nat /\ N # {}
    BY <1>1, <1>2, TableProps
  <2> QED
    BY <2>1, LeastNat
<1>4. PICK f \in S : f.smallest = m /\ f.num = n
  OBVIOUS
<1>5. ASSUME NEW g \in S PROVE f = g \/ Precedes(f, g)
  <2>1. f \in Tables /\ g \in Tables /\ f \in v[l] /\ g \in v[l]
    BY <1>1
  <2>2. /\ f.smallest \in h /\ g.smallest \in h /\ f.smallest \in Entries /\ g.smallest \in Entries
        /\ f.largest \in Entries /\ g.largest \in Entries
        /\ AtOrBefore(f.smallest, f.largest) /\ AtOrBefore(g.smallest, g.largest)
        /\ f.num \in Nat /\ g.num \in Nat
    BY <2>1, TableProps DEF Proper
  <2>3. Before(f.smallest, g.smallest) \/ f.smallest = g.smallest
    <3>1. AtOrBefore(f.smallest, g.smallest)
      BY <1>2, <1>4
    <3>2. Before(f.smallest, g.smallest) \/ f.smallest.seq = g.smallest.seq
      BY <3>1, <2>2, EntryNumbers DEF AtOrBefore, Before
    <3> QED
      BY <3>2, <2>2 DEF Proper
  <2>4. CASE f.smallest = g.smallest
    <3>1. f.num <= g.num
      BY <2>4, <1>3, <1>4
    <3>2. f.num = g.num => f = g
      <4>1. CASE l = 0
        BY <4>1, <2>1 DEF Proper
      <4>2. CASE l # 0
        <5>1. l \in 1..(NumLevels - 1)
          BY <4>2, Constants DEF Levels
        <5>2. f # g => Before(f.largest, g.smallest) \/ Before(g.largest, f.smallest)
          BY <5>1, <2>1 DEF Proper, Leveled, Disjoint
        <5> QED
          BY <5>2, <2>2, <2>4, OrderTransitive
      <4> QED
        BY <4>1, <4>2
    <3> QED
      BY <3>1, <3>2, <2>2, <2>4 DEF Precedes
  <2>5. CASE Before(f.smallest, g.smallest)
    BY <2>5 DEF Precedes
  <2> QED
    BY <2>3, <2>4, <2>5
<1> HIDE DEF B, N
<1> QED
  BY <1>5 DEF FirstFile

\* One file of a deeper level, or a level-0 file with all that overlap it, is a start without a gap.
LEMMA PickStartable ==
  ASSUME NEW v, Leveled(v), NEW level \in 0..(NumLevels - 2), NEW f \in v[level],
         NEW P, P = IF level = 0 THEN OverlappingInputs(v, 0, f.smallest.key, f.largest.key) ELSE {f}
  PROVE  Startable(v, level, P) /\ Gapless(P)
<1>1. v[level] \subseteq Tables /\ v[0] \subseteq Tables /\ (level # 0 => Disjoint(v[level]))
  BY NextLevel, VersionLevel DEF Leveled
<1>2. /\ f.smallest.key \in Keys /\ f.largest.key \in Keys /\ f.smallest.key \in Int /\ f.largest.key \in Int
      /\ f.smallest.key <= f.largest.key
  BY <1>1, TableProps, EntryNumbers
<1>3. CASE level = 0
  <2>1. P \subseteq v[0] /\ \A g \in v[0] : Overlaps(g, f.smallest.key, f.largest.key) => g \in P
    BY <1>1, <1>2, <1>3, OverlapIncludes
  <2>2. f \in P
    <3>1. Overlaps(f, f.smallest.key, f.largest.key)
      BY <1>2 DEF Overlaps
    <3> QED
      BY <1>3, <2>1, <3>1
  <2>3. Separated(v[0], P)
    BY <1>1, <1>2, <1>3, OverlapSplitsZero DEF Separated
  <2>4. ASSUME NEW k \in Keys, Within(P, k) PROVE Covered(P, k)
    <3>1. CASE f.smallest.key <= k /\ k <= f.largest.key
      <4>1. Overlaps(f, k, k)
        BY <3>1, <1>2 DEF Overlaps, Keys
      <4> QED
        BY <2>2, <4>1 DEF Covered
    <3>2. CASE ~(f.smallest.key <= k /\ k <= f.largest.key)
      BY <3>2, <2>4, <1>1, <1>2, <1>3, OverlapCovers
    <3> QED
      BY <3>1, <3>2
  <2> QED
    BY <1>3, <2>1, <2>2, <2>3, <2>4 DEF Startable, Gapless
<1>4. CASE level # 0
  <2>1. Convex(v[level], P)
    BY <1>1, <1>4 DEF Convex, Beside, Disjoint
  <2>2. \A k \in Keys : Within(P, k) => Covered(P, k)
    BY <1>2, <1>4 DEF Within, Covered, Overlaps, Keys
  <2> QED
    BY <1>4, <2>1, <2>2 DEF Startable, Gapless
<1> QED
  BY <1>3, <1>4

\* In a level without overlaps, of two files one precedes the other, with all of its entries.
LEMMA DisjointPrecedes ==
  ASSUME NEW S, S \subseteq Tables, Disjoint(S), NEW f \in S, NEW g \in S
  PROVE  /\ Precedes(f, g) <=> f # g /\ Before(f.largest, g.smallest)
         /\ f = g \/ Precedes(f, g) \/ Precedes(g, f)
<1>1. /\ f.smallest \in Entries /\ f.largest \in Entries /\ AtOrBefore(f.smallest, f.largest)
      /\ g.smallest \in Entries /\ g.largest \in Entries /\ AtOrBefore(g.smallest, g.largest)
      /\ f.num \in Nat /\ g.num \in Nat
  BY TableProps
<1>2. f # g => Before(f.largest, g.smallest) \/ Before(g.largest, f.smallest)
  BY DEF Disjoint
<1>3. Before(f.largest, g.smallest) => Before(f.smallest, g.smallest) /\ ~Before(g.smallest, f.smallest)
  BY <1>1, OrderTransitive
<1>4. Before(g.largest, f.smallest) => Before(g.smallest, f.smallest) /\ ~Before(f.smallest, g.smallest)
  BY <1>1, OrderTransitive
<1>5. f = g => ~Before(f.smallest, g.smallest)
  BY <1>1, OrderTransitive
<1>6. f.smallest = g.smallest => ~Before(f.smallest, g.smallest) /\ ~Before(g.smallest, f.smallest)
  BY <1>1, OrderTransitive
<1> QED
  BY <1>1, <1>2, <1>3, <1>4, <1>5, <1>6 DEF Precedes

\* The leading files of a range are a start (ldb_versions_compact_range).
LEMMA RangeStartable ==
  ASSUME NEW v, Leveled(v), NEW level \in 0..(NumLevels - 2), NEW b \in Keys, NEW e \in Keys, b <= e,
         OverlapInLevel(v, level, b, e),
         NEW I, I = OverlappingInputs(v, level, b, e),
         NEW P, P = IF level = 0 THEN I ELSE {f \in I : TotalSize({g \in I : Precedes(g, f)}) < FileLimit}
  PROVE  Startable(v, level, P)
<1>1. v[level] \subseteq Tables /\ v[0] \subseteq Tables /\ (level # 0 => Disjoint(v[level]))
  BY NextLevel, VersionLevel DEF Leveled
<1>2. I \subseteq v[level] /\ I # {}
  BY <1>1, OverlapIncludes DEF OverlapInLevel
<1>3. CASE level = 0
  <2>1. Separated(v[0], P)
    BY <1>1, <1>3, OverlapSplitsZero DEF Separated
  <2> QED
    BY <1>2, <1>3, <2>1 DEF Startable
<1>4. CASE level # 0
  <2>1. Convex(v[level], I)
    BY <1>1, <1>4, OverlapConvex
  <2>i. I \subseteq Tables /\ Disjoint(I)
    BY <1>1, <1>2, <1>4 DEF Disjoint
  <2> DEFINE before(f) == {g \in I : Precedes(g, f)}
  <2>p. P \subseteq I /\ \A f \in I : f \in P <=> TotalSize(before(f)) < FileLimit
    BY <1>4
  <2>2. P # {}
    <3>1. PICK f \in I : f.smallest = RangeStart(I)
      BY <1>2, <2>i, RangeProps
    <3>2. \A g \in I : AtOrBefore(f.smallest, g.smallest)
      BY <1>2, <2>i, <3>1, RangeProps
    <3>3. before(f) = {}
      <4> SUFFICES ASSUME NEW g \in I, Precedes(g, f) PROVE FALSE
        OBVIOUS
      <4>1. Before(g.largest, f.smallest)
        BY <2>i, DisjointPrecedes
      <4>2. g.smallest \in Entries /\ g.largest \in Entries /\ f.smallest \in Entries /\ AtOrBefore(g.smallest, g.largest)
        BY <2>i, TableProps
      <4> QED
        BY <3>2, <4>1, <4>2, OrderTransitive DEF AtOrBefore
    <3>4. TotalSize({}) = 0
      <4>1. {} \subseteq {} /\ {} \subseteq Tables
        OBVIOUS
      <4> QED
        BY <4>1, SizeProps
    <3>5. FileLimit \in Nat /\ FileLimit > 0
      BY LsmAssumption
    <3>6. TotalSize(before(f)) < FileLimit
      BY <3>3, <3>4, <3>5
    <3> QED
      BY <2>p, <3>6
  <2>3. ASSUME NEW z \in I, z \notin P, NEW p \in P PROVE Before(p.largest, z.smallest)
    <3>1. p \in I /\ p # z /\ TotalSize(before(p)) < FileLimit
      BY <2>3, <2>p
    <3>2. ~Precedes(z, p)
      <4> SUFFICES ASSUME Precedes(z, p) PROVE FALSE
        OBVIOUS
      <4>1. Before(z.largest, p.smallest)
        BY <2>i, <3>1, DisjointPrecedes
      <4>2. ASSUME NEW g \in I, Precedes(g, z) PROVE Precedes(g, p)
        <5>1. Before(g.largest, z.smallest)
          BY <4>2, <2>i, DisjointPrecedes
        <5>2. /\ g.smallest \in Entries /\ g.largest \in Entries /\ z.smallest \in Entries /\ z.largest \in Entries
              /\ AtOrBefore(g.smallest, g.largest) /\ AtOrBefore(z.smallest, z.largest)
              /\ p.smallest \in Entries
          BY <2>i, <3>1, TableProps
        <5>3. Before(g.smallest, p.smallest)
          BY <4>1, <5>1, <5>2, OrderTransitive
        <5> QED
          BY <5>3 DEF Precedes
      <4>3. before(z) \subseteq before(p) /\ before(p) \subseteq Tables
        BY <4>2, <2>i
      <4>4. TotalSize(before(z)) \in Nat /\ TotalSize(before(p)) \in Nat /\ TotalSize(before(z)) <= TotalSize(before(p))
        <5> HIDE DEF before
        <5> QED
          BY <4>3, SizeProps
      <4>5. FileLimit \in Nat
        BY LsmAssumption
      <4>6. TotalSize(before(z)) < FileLimit
        <5> HIDE DEF before
        <5> QED
          BY <3>1, <4>4, <4>5
      <4> QED
        BY <2>3, <2>p, <4>6
    <3> QED
      BY <2>i, <3>1, <3>2, DisjointPrecedes
  <2>4. Convex(v[level], P)
    <3> SUFFICES ASSUME NEW z \in v[level], z \notin P PROVE Beside(z, P)
      BY DEF Convex
    <3>1. CASE z \in I
      BY <3>1, <2>3 DEF Beside
    <3>2. CASE z \notin I
      BY <3>2, <2>1, <2>p DEF Convex, Beside
    <3> QED
      BY <3>1, <3>2
  <2> QED
    BY <1>2, <1>4, <2>2, <2>4, <2>p DEF Startable
<1> QED
  BY <1>3, <1>4

\* The current version of the invariant is a version of the database.
LEMMA InvProper ==
  ASSUME LsmTypes, LevelsDisjoint
  PROVE  Proper(files, history) /\ Leveled(files)
BY DEF LsmTypes, LevelsDisjoint, Proper, Leveled, Disjoint

\* The file after the compaction pointer is a file of the level.
LEMMA NextFileProps ==
  ASSUME NEW v, NEW h, Proper(v, h), NEW level \in Levels, v[level] # {}
  PROVE  NextFile(v, level) \in v[level]
<1> DEFINE after == {f \in v[level] : \/ compact_pointer[level] = Null
                                      \/ Before(compact_pointer[level], f.largest)}
           S == IF after = {} THEN v[level] ELSE after
<1>1. S \subseteq v[level] /\ S # {}
  OBVIOUS
<1>2. NextFile(v, level) = FirstFile(S)
  BY DEF NextFile
<1> HIDE DEF S, after
<1> QED
  BY <1>1, <1>2, FirstFileProps

\* An automatic compaction takes inputs it may take (ldb_versions_pick_compaction).
LEMMA PickCompactionProps ==
  ASSUME Proper(files, history), SeekInv, NeedsCompaction(files)
  PROVE  /\ Takes(files, PickCompaction(files).level, PickCompaction(files).in0, PickCompaction(files).in1)
         /\ PickCompaction(files).largest \in Entries
<1> DEFINE level == IF SizeCompaction(files) THEN BestLevel(files) ELSE file_to_compact.level
           f == IF SizeCompaction(files) THEN NextFile(files, level) ELSE file_to_compact.file
           P == IF level = 0 THEN OverlappingInputs(files, 0, f.smallest.key, f.largest.key) ELSE {f}
<1>0. Leveled(files)
  BY DEF Proper
<1>1. level \in 0..(NumLevels - 2) /\ f \in files[level]
  <2>1. CASE SizeCompaction(files)
    <3>1. BestLevel(files) \in 0..(NumLevels - 2) /\ files[BestLevel(files)] # {}
      BY <1>0, <2>1, BestLevelProps
    <3>2. BestLevel(files) \in Levels
      BY <3>1, NextLevel
    <3>3. NextFile(files, BestLevel(files)) \in files[BestLevel(files)]
      BY <3>1, <3>2, NextFileProps
    <3> QED
      BY <2>1, <3>1, <3>3
  <2>2. CASE ~SizeCompaction(files)
    BY <2>2 DEF NeedsCompaction, SeekInv
  <2> QED
    BY <2>1, <2>2
<1>2. PickCompaction(files) = SetupOtherInputs(files, level, P)
  BY DEF PickCompaction
<1>p. P = IF level = 0 THEN OverlappingInputs(files, 0, f.smallest.key, f.largest.key) ELSE {f}
  OBVIOUS
<1> HIDE DEF level, f, P
<1>3. Startable(files, level, P) /\ Gapless(P)
  BY <1>0, <1>1, <1>p, PickStartable
<1> QED
  BY <1>0, <1>2, <1>3, SetupProps

\* So does a manual one, when memtables are flushed to level 0 only.
LEMMA PickRangeProps ==
  ASSUME Leveled(files), MaxMemLevel = 0, NEW level \in 0..(NumLevels - 2), NEW b \in Keys, NEW e \in Keys,
         b <= e, OverlapInLevel(files, level, b, e)
  PROVE  /\ Takes(files, PickRange(files, level, b, e).level, PickRange(files, level, b, e).in0,
                  PickRange(files, level, b, e).in1)
         /\ PickRange(files, level, b, e).largest \in Entries
<1> DEFINE I == OverlappingInputs(files, level, b, e)
           P == IF level = 0 THEN I ELSE {f \in I : TotalSize({g \in I : Precedes(g, f)}) < FileLimit}
<1>1. PickRange(files, level, b, e) = SetupOtherInputs(files, level, P)
  BY DEF PickRange
<1>2. Startable(files, level, P)
  BY RangeStartable
<1> HIDE DEF P
<1> QED
  BY <1>1, <1>2, SetupProps

-----------------------------------------------------------------------------
(* Reading.                                                                *)

Hits(T, k, s) == {e \in T : e.key = k /\ e.seq <= s}

\* The newest entry of a key at a sequence number is found when there is one (save_value).
LEMMA NewestProps ==
  ASSUME NEW T, T \subseteq Entries, NEW k, NEW s
  PROVE  /\ Hits(T, k, s) = {} => NewestIn(T, k, s) = NoEntry
         /\ Hits(T, k, s) # {} =>
              /\ NewestIn(T, k, s) \in Hits(T, k, s) /\ NewestIn(T, k, s) # NoEntry
              /\ \A x \in Hits(T, k, s) : x.seq <= NewestIn(T, k, s).seq
<1>1. Hits(T, k, s) = {} => NewestIn(T, k, s) = NoEntry
  BY DEF NewestIn, Hits
<1>2. ASSUME Hits(T, k, s) # {}
      PROVE  /\ NewestIn(T, k, s) \in Hits(T, k, s) /\ NewestIn(T, k, s) # NoEntry
             /\ \A x \in Hits(T, k, s) : x.seq <= NewestIn(T, k, s).seq
  <2> DEFINE H == Hits(T, k, s)
             Q == {e.seq : e \in H}
  <2>0. H \subseteq Entries
    BY DEF Hits
  <2> HIDE DEF H
  <2>1. Q \subseteq 0..MaxSeq /\ Q # {} /\ MaxSeq \in Nat
    BY <1>2, <2>0, EntryNumbers, Constants DEF H
  <2>2. PICK q \in Q : \A x \in Q : x <= q
    BY <2>1, GreatestNat
  <2>3. PICK e \in H : e.seq = q
    OBVIOUS
  <2>4. e \in H /\ \A x \in H : x.seq <= e.seq
    BY <2>2, <2>3
  <2>5. NewestIn(T, k, s) = CHOOSE y \in H : \A x \in H : x.seq <= y.seq
    BY <1>2 DEF NewestIn, Hits, H
  <2>6. NewestIn(T, k, s) \in H /\ \A x \in H : x.seq <= NewestIn(T, k, s).seq
    BY <2>4, <2>5
  <2>7. NewestIn(T, k, s) # NoEntry
    <3>1. NewestIn(T, k, s).seq >= 1
      BY <2>0, <2>6, EntryNumbers
    <3> QED
      BY <3>1 DEF NoEntry
  <2> QED
    BY <2>6, <2>7 DEF H
<1> QED
  BY <1>1, <1>2

HasGreatest(T) == \E m \in T : \A x \in T : x <= m

\* A non-empty finite set of naturals has a greatest element.
LEMMA FiniteGreatest ==
  ASSUME NEW S, S \subseteq Nat, IsFiniteSet(S), S # {}
  PROVE  HasGreatest(S)
<1> DEFINE Q == {n \in Nat : \A T \in SUBSET S : Cardinality(T) = n /\ T # {} => HasGreatest(T)}
<1>f. \A T \in SUBSET S : IsFiniteSet(T) /\ Cardinality(T) \in Nat
  BY FS_Subset, FS_CardinalityType
<1>1. 0 \in Q
  BY <1>f, FS_EmptySet
<1>2. ASSUME NEW n \in Nat, n \in Q PROVE n + 1 \in Q
  <2> SUFFICES ASSUME NEW T \in SUBSET S, Cardinality(T) = n + 1, T # {} PROVE HasGreatest(T)
    OBVIOUS
  <2>1. PICK x \in T : TRUE
    OBVIOUS
  <2>2. T \ {x} \in SUBSET S /\ Cardinality(T \ {x}) = n
    <3>1. IsFiniteSet(T)
      BY <1>f
    <3>2. Cardinality(T \ {x}) = IF x \in T THEN Cardinality(T) - 1 ELSE Cardinality(T)
      BY <3>1, FS_RemoveElement
    <3> QED
      BY <2>1, <3>2
  <2>3. CASE T \ {x} = {}
    <3>1. T = {x} /\ x \in Nat
      BY <2>1, <2>3
    <3> QED
      BY <3>1 DEF HasGreatest
  <2>4. CASE T \ {x} # {}
    <3>1. HasGreatest(T \ {x})
      BY <1>2, <2>2, <2>4
    <3>2. PICK m \in T \ {x} : \A y \in T \ {x} : y <= m
      BY <3>1 DEF HasGreatest
    <3>3. x \in Nat /\ m \in Nat /\ T \subseteq Nat
      BY <2>1, <3>2
    <3>4. CASE x <= m
      BY <3>2, <3>4 DEF HasGreatest
    <3>5. CASE m <= x
      <4>1. \A y \in T : y <= x
        BY <3>2, <3>3, <3>5
      <4> QED
        BY <2>1, <4>1 DEF HasGreatest
    <3> QED
      BY <3>3, <3>4, <3>5
  <2> QED
    BY <2>3, <2>4
<1>3. Nat \subseteq Q
  <2> HIDE DEF Q
  <2> QED
    BY <1>1, <1>2, NatSetInduction
<1>4. Cardinality(S) \in Q
  BY <1>3, <1>f
<1> QED
  BY <1>4

\* The numbers of finitely many files are finitely many.
LEMMA NumbersFinite ==
  ASSUME NEW S, S \subseteq Tables, IsFiniteSet(S)
  PROVE  {f.num : f \in S} \subseteq Nat /\ IsFiniteSet({f.num : f \in S})
<1> DEFINE N == {f.num : f \in S}
           g == [f \in S |-> f.num]
<1>1. N \subseteq Nat
  BY TableProps
<1>2. g \in Surjection(S, N)
  BY DEF Surjection
<1>3. IsFiniteSet(N)
  <2> HIDE DEF g, N
  <2> QED
    BY <1>2, FS_Surjection
<1> QED
  BY <1>1, <1>3

\* A level below 0 has at most one file for a lookup, and it holds the newest entry the level
\* has for it (ldb_version_for_each_overlapping, find_file).
LEMMA CandidateProps ==
  ASSUME NEW v, NEW h, Proper(v, h), NEW l \in 1..(NumLevels - 1), NEW k \in Keys, NEW s \in Nat
  PROVE  /\ Candidate(v, l, k, s) \subseteq v[l]
         /\ \A f, g \in Candidate(v, l, k, s) : f = g
         /\ \A f \in v[l] : \A e \in Hits(f.ents, k, s) :
              \E g \in Candidate(v, l, k, s) : \E x \in Hits(g.ents, k, s) : e.seq <= x.seq
<1> DEFINE ahead == {f \in v[l] : AtOrBefore([key |-> k, seq |-> s], f.largest)}
           g == FirstFile(ahead)
<1>0. l \in Levels /\ v[l] \subseteq Tables /\ Disjoint(v[l])
  BY VersionLevel, Constants DEF Proper, Leveled, Levels
<1>k. k \in Int
  BY DEF Keys
<1>1. Candidate(v, l, k, s) = IF ahead = {} THEN {} ELSE IF g.smallest.key <= k THEN {g} ELSE {}
  BY DEF Candidate
<1>2. ahead # {} => g \in ahead /\ \A f \in ahead : g = f \/ Precedes(g, f)
  <2>1. ahead \subseteq v[l]
    OBVIOUS
  <2> HIDE DEF ahead
  <2> QED
    BY <1>0, <2>1, FirstFileProps
<1>a. \A f \in v[l] : f \in ahead <=> f.largest.key > k \/ (f.largest.key = k /\ f.largest.seq <= s)
  <2>1. \A f \in v[l] : f.largest \in Entries
    BY <1>0, TableProps
  <2> QED
    BY <1>k, <2>1, EntryNumbers DEF AtOrBefore, Before
<1>b. ahead \subseteq v[l]
  OBVIOUS
<1> HIDE DEF ahead, g
<1>3. ASSUME NEW f \in v[l], NEW e \in Hits(f.ents, k, s)
      PROVE  \E y \in Candidate(v, l, k, s) : \E x \in Hits(y.ents, k, s) : e.seq <= x.seq
  <2>1. e \in f.ents /\ e.key = k /\ e.seq <= s
    BY DEF Hits
  <2>2. /\ f \in Tables /\ e \in Entries /\ f.smallest \in Entries /\ f.largest \in Entries
        /\ AtOrBefore(f.smallest, e) /\ AtOrBefore(e, f.largest)
    BY <1>0, <2>1, TableProps
  <2>n. /\ e.key \in Int /\ e.seq \in Int /\ f.smallest.key \in Int /\ f.smallest.seq \in Int
        /\ f.largest.key \in Int /\ f.largest.seq \in Int
    BY <2>2, EntryNumbers
  <2>3. f \in ahead
    <3>1. f.largest.key > k \/ (f.largest.key = k /\ f.largest.seq <= e.seq)
      BY <2>1, <2>2, <2>n DEF AtOrBefore, Before
    <3> QED
      BY <3>1, <1>a, <2>1, <2>n
  <2>4. g \in ahead /\ (g = f \/ Precedes(g, f))
    BY <1>2, <2>3
  <2>5. CASE g = f
    <3>1. g.smallest.key <= k
      BY <2>5, <2>1, <2>2, <2>n DEF AtOrBefore, Before
    <3>2. Candidate(v, l, k, s) = {f}
      BY <1>1, <2>3, <2>5, <3>1
    <3>3. e.seq <= e.seq
      BY <2>n
    <3> QED
      BY <3>2, <3>3
  <2>6. CASE g # f
    <3>1. g \in v[l] /\ Before(g.largest, f.smallest)
      BY <1>0, <1>b, <2>4, <2>6, DisjointPrecedes
    <3>2. /\ g \in Tables /\ g.largest \in g.ents /\ g.largest \in Entries /\ g.smallest \in Entries
          /\ g.smallest.key <= g.largest.key
      BY <1>0, <3>1, TableProps
    <3>3. g.largest.key \in Int /\ g.largest.seq \in Int /\ g.smallest.key \in Int
      BY <3>2, EntryNumbers
    <3>4. Before(g.largest, e)
      BY <2>2, <3>1, <3>2, OrderTransitive
    <3>5. g.largest.key = k /\ g.largest.seq <= s /\ e.seq <= g.largest.seq
      <4>1. g.largest.key > k \/ (g.largest.key = k /\ g.largest.seq <= s)
        BY <1>a, <2>4, <3>1
      <4> QED
        BY <4>1, <3>4, <3>3, <2>1, <2>n, <1>k DEF Before
    <3>6. Candidate(v, l, k, s) = {g}
      BY <1>1, <1>k, <2>3, <3>2, <3>3, <3>5
    <3>7. g.largest \in Hits(g.ents, k, s)
      BY <3>2, <3>5 DEF Hits
    <3> QED
      BY <3>5, <3>6, <3>7
  <2> QED
    BY <2>5, <2>6
<1>4. Candidate(v, l, k, s) \subseteq v[l] /\ \A f, y \in Candidate(v, l, k, s) : f = y
  BY <1>1, <1>2, <1>b
<1> QED
  BY <1>3, <1>4

\* The files a lookup consults are files of the version, below level 0 one per level.
LEMMA ConsultedProps ==
  ASSUME NEW v, NEW h, Proper(v, h), NEW k \in Keys, NEW s \in Nat, NEW c \in Consulted(v, k, s)
  PROVE  /\ c.level \in Levels /\ c.level \in Nat /\ c.file \in v[c.level] /\ c.file \in Tables
         /\ c = [level |-> c.level, file |-> c.file]
         /\ \A d \in Consulted(v, k, s) : c.level = d.level /\ c.level # 0 => c = d
<1> DEFINE Rec(l) == {[level |-> l, file |-> f] : f \in Candidate(v, l, k, s)}
           A == {[level |-> 0, file |-> f] : f \in {g \in v[0] : Overlaps(g, k, k)}}
<1>1. Consulted(v, k, s) = A \cup UNION {Rec(l) : l \in 1..(NumLevels - 1)}
  BY DEF Consulted
<1>2. \A d \in Consulted(v, k, s) : d \in A \/ \E l \in 1..(NumLevels - 1) : d \in Rec(l)
  BY <1>1
<1>3. \A d \in A : d.level = 0 /\ d.file \in v[0] /\ d = [level |-> d.level, file |-> d.file]
  OBVIOUS
<1>4. \A l \in 1..(NumLevels - 1) : \A d \in Rec(l) :
        /\ d.level = l /\ d.file \in v[l] /\ d.file \in Candidate(v, l, k, s)
        /\ d = [level |-> d.level, file |-> d.file]
  BY CandidateProps
<1> HIDE DEF A, Rec
<1>5. \A l \in 1..(NumLevels - 1) : l \in Levels /\ l \in Nat /\ l # 0
  BY Constants DEF Levels
<1>6. 0 \in Levels
  BY Constants DEF Levels
<1>7. ASSUME NEW d \in Consulted(v, k, s)
      PROVE  /\ d.level \in Levels /\ d.level \in Nat /\ d.file \in v[d.level]
             /\ d = [level |-> d.level, file |-> d.file]
             /\ d.level # 0 => d.level \in 1..(NumLevels - 1) /\ d.file \in Candidate(v, d.level, k, s)
  BY <1>2, <1>3, <1>4, <1>5, <1>6
<1>8. c.file \in Tables
  BY <1>7, VersionLevel DEF Proper, Leveled
<1>9. ASSUME NEW d \in Consulted(v, k, s), c.level = d.level, c.level # 0 PROVE c = d
  <2>1. /\ c.level \in 1..(NumLevels - 1) /\ c.file \in Candidate(v, c.level, k, s)
        /\ d.file \in Candidate(v, c.level, k, s)
        /\ c = [level |-> c.level, file |-> c.file] /\ d = [level |-> d.level, file |-> d.file]
    BY <1>7, <1>9
  <2>2. c.file = d.file
    BY <2>1, CandidateProps
  <2> QED
    BY <1>9, <2>1, <2>2
<1> QED
  BY <1>7, <1>8, <1>9

\* Every file that holds an entry of the key at the sequence number is answered for: it is
\* consulted, or below level 0 the one file consulted of its level has an entry as new.
LEMMA ConsultedComplete ==
  ASSUME NEW v, NEW h, Proper(v, h), NEW k \in Keys, NEW s \in Nat,
         NEW l \in Levels, NEW f \in v[l], NEW e \in Hits(f.ents, k, s)
  PROVE  \E c \in Consulted(v, k, s) : c.level = l /\ \E x \in Hits(c.file.ents, k, s) : e.seq <= x.seq
<1>1. CASE l = 0
  <2>1. f \in v[0] /\ f \in Tables
    BY <1>1, VersionLevel DEF Proper, Leveled
  <2>2. e \in f.ents /\ e.key = k /\ e.seq \in Int
    BY <2>1, TableProps, EntryNumbers DEF Hits
  <2>3. Overlaps(f, k, k)
    BY <2>1, <2>2, TableProps DEF Overlaps
  <2> DEFINE c == [level |-> 0, file |-> f]
  <2>4. c \in Consulted(v, k, s) /\ c.level = l /\ c.file = f
    BY <1>1, <2>1, <2>3 DEF Consulted
  <2>5. e.seq <= e.seq
    BY <2>2
  <2> HIDE DEF c
  <2> QED
    BY <2>4, <2>5
<1>2. CASE l # 0
  <2>1. l \in 1..(NumLevels - 1)
    BY <1>2, Constants DEF Levels
  <2>2. PICK g \in Candidate(v, l, k, s) : \E x \in Hits(g.ents, k, s) : e.seq <= x.seq
    BY <2>1, CandidateProps
  <2> DEFINE c == [level |-> l, file |-> g]
  <2>3. c \in {[level |-> l, file |-> y] : y \in Candidate(v, l, k, s)}
    OBVIOUS
  <2>4. c \in Consulted(v, k, s) /\ c.level = l /\ c.file = g
    BY <2>1, <2>3 DEF Consulted
  <2> HIDE DEF c
  <2> QED
    BY <2>2, <2>4
<1> QED
  BY <1>1, <1>2

\* Of consulted files one is consulted first: the lookup's order is total on them.
LEMMA SoonestProps ==
  ASSUME NEW v, NEW h, Proper(v, h), NEW k \in Keys, NEW s \in Nat,
         NEW C, C \subseteq Consulted(v, k, s), C # {}
  PROVE  Soonest(C) \in C /\ \A b \in C : Soonest(C) = b \/ Sooner(Soonest(C), b)
<1> DEFINE M == {c.level : c \in C}
<1>0. \A c \in C : /\ c.level \in Nat /\ c.file \in v[c.level] /\ c.file \in Tables /\ c.file.num \in Nat
                   /\ c = [level |-> c.level, file |-> c.file]
                   /\ \A d \in C : c.level = d.level /\ c.level # 0 => c = d
  BY ConsultedProps, TableProps
<1>1. PICK m \in M : \A x \in M : m <= x
  <2>1. M \subseteq Nat /\ M # {}
    BY <1>0
  <2> QED
    BY <2>1, LeastNat
<1>2. \A c \in C : m <= c.level
  BY <1>1
<1>3. \E a \in C : a.level = m /\ \A b \in C : b.level = m => a = b \/ a.file.num > b.file.num
  <2>1. CASE m # 0
    BY <1>0, <2>1
  <2>2. CASE m = 0
    <3> DEFINE N == {c.file.num : c \in {d \in C : d.level = 0}}
    <3>1. N \subseteq {f.num : f \in v[0]} /\ N # {}
      BY <1>0, <2>2
    <3>2. {f.num : f \in v[0]} \subseteq Nat /\ IsFiniteSet({f.num : f \in v[0]})
      <4>1. 0 \in Levels
        BY Constants DEF Levels
      <4> QED
        BY <4>1, VersionLevel, NumbersFinite DEF Proper, Leveled
    <3>3. N \subseteq Nat /\ IsFiniteSet(N)
      <4> HIDE DEF N
      <4> QED
        BY <3>1, <3>2, FS_Subset
    <3>4. HasGreatest(N)
      <4> HIDE DEF N
      <4> QED
        BY <3>1, <3>3, FiniteGreatest
    <3>5. PICK n \in N : \A x \in N : x <= n
      BY <3>4 DEF HasGreatest
    <3>6. PICK a \in C : a.level = 0 /\ a.file.num = n
      OBVIOUS
    <3>7. ASSUME NEW b \in C, b.level = 0 PROVE a = b \/ a.file.num > b.file.num
      <4>1. b.file.num <= a.file.num
        BY <3>5, <3>6, <3>7
      <4>2. /\ a.file.num \in Nat /\ b.file.num \in Nat /\ a.file \in v[0] /\ b.file \in v[0]
            /\ a = [level |-> a.level, file |-> a.file] /\ b = [level |-> b.level, file |-> b.file]
        BY <1>0, <3>6, <3>7
      <4>3. a.file.num = b.file.num => a.file = b.file
        BY <4>2 DEF Proper
      <4> QED
        BY <3>6, <3>7, <4>1, <4>2, <4>3
    <3> QED
      BY <2>2, <3>6, <3>7
  <2> QED
    BY <2>1, <2>2
<1>4. PICK a \in C : a.level = m /\ \A b \in C : b.level = m => a = b \/ a.file.num > b.file.num
  BY <1>3
<1>5. ASSUME NEW b \in C PROVE a = b \/ Sooner(a, b)
  <2>1. a.level \in Nat /\ b.level \in Nat /\ a.level <= b.level
    BY <1>0, <1>2, <1>4
  <2> QED
    BY <1>4, <2>1 DEF Sooner
<1> HIDE DEF M
<1> QED
  BY <1>5 DEF Soonest

FileEnts(v) == {e \in Entries : \E l \in Levels : \E f \in v[l] : e \in f.ents}

Layered(v) ==
  /\ \A f, g \in v[0] : f.num > g.num => NewerThan(f.ents, g.ents)
  /\ \A l, m \in Levels : l < m => \A f \in v[l], g \in v[m] : NewerThan(f.ents, g.ents)

IsNewest(T, k, s, r) == \/ Hits(T, k, s) = {} /\ r = NoEntry
                        \/ /\ r \in Hits(T, k, s) /\ r # NoEntry
                           /\ \A x \in Hits(T, k, s) : x.seq <= r.seq

\* A lookup in a version finds the newest entry its files hold (ldb_version_get).
LEMMA VersionGetProps ==
  ASSUME NEW v, NEW h, Proper(v, h), Layered(v), NEW k \in Keys, NEW s \in Nat
  PROVE  IsNewest(FileEnts(v), k, s, VersionGet(v, k, s))
<1> DEFINE C == Consulted(v, k, s)
           H == {c \in C : NewestIn(c.file.ents, k, s) # NoEntry}
           r(c) == NewestIn(c.file.ents, k, s)
<1>c. \A c \in C : /\ c.level \in Levels /\ c.level \in Nat /\ c.file \in v[c.level] /\ c.file \in Tables
                   /\ c.file.ents \subseteq Entries
                   /\ \A d \in C : c.level = d.level /\ c.level # 0 => c = d
  BY ConsultedProps, TableProps
<1>n. \A c \in C : /\ Hits(c.file.ents, k, s) = {} => r(c) = NoEntry
                   /\ Hits(c.file.ents, k, s) # {} =>
                        /\ r(c) \in Hits(c.file.ents, k, s) /\ r(c) # NoEntry
                        /\ \A x \in Hits(c.file.ents, k, s) : x.seq <= r(c).seq
  BY <1>c, NewestProps
<1>g. VersionGet(v, k, s) = IF H = {} THEN NoEntry ELSE r(Soonest(H))
  BY DEF VersionGet
<1> HIDE DEF C, r
<1>h. H \subseteq C /\ \A c \in C : c \in H <=> r(c) # NoEntry
  BY DEF r
<1>f. \A c \in C : Hits(c.file.ents, k, s) \subseteq Hits(FileEnts(v), k, s)
  BY <1>c DEF Hits, FileEnts
<1>1. ASSUME NEW e \in Hits(FileEnts(v), k, s)
      PROVE  \E c \in H : e.seq <= r(c).seq
  <2>0. PICK l \in Levels : \E f \in v[l] : e \in Hits(f.ents, k, s)
    BY DEF Hits, FileEnts
  <2>1. PICK f \in v[l] : e \in Hits(f.ents, k, s)
    BY <2>0
  <2>2. PICK c \in C : \E x \in Hits(c.file.ents, k, s) : e.seq <= x.seq
    BY <2>1, ConsultedComplete DEF C
  <2>3. PICK x \in Hits(c.file.ents, k, s) : e.seq <= x.seq
    BY <2>2
  <2>4. x.seq <= r(c).seq /\ c \in H /\ r(c) \in Hits(c.file.ents, k, s)
    BY <2>3, <1>n, <1>h
  <2>5. x.seq \in Int /\ e.seq \in Int /\ r(c).seq \in Int
    BY <2>4, <1>c, EntryNumbers DEF Hits, FileEnts
  <2> QED
    BY <2>3, <2>4, <2>5
<1>2. CASE H = {}
  BY <1>1, <1>2, <1>g DEF IsNewest
<1>3. CASE H # {}
  <2> DEFINE S == Soonest(H)
  <2>1. S \in H /\ \A b \in H : S = b \/ Sooner(S, b)
    BY <1>3, <1>h, SoonestProps DEF C
  <2> HIDE DEF S, H
  <2>2. S \in C /\ r(S) \in Hits(S.file.ents, k, s) /\ r(S) # NoEntry
    BY <1>h, <1>n, <2>1
  <2>3. r(S) \in Hits(FileEnts(v), k, s)
    BY <1>f, <2>2
  <2>4. ASSUME NEW c \in H PROVE r(c).seq <= r(S).seq
    <3>1. c \in C /\ r(c) \in Hits(c.file.ents, k, s)
      BY <1>h, <1>n
    <3>2. r(c) \in c.file.ents /\ r(c).key = k /\ r(S) \in S.file.ents /\ r(S).key = k
      BY <3>1, <2>2 DEF Hits
    <3>3. r(c).seq \in Int /\ r(S).seq \in Int
      BY <3>1, <3>2, <2>2, <1>c, EntryNumbers
    <3>4. CASE S = c
      BY <3>3, <3>4
    <3>5. CASE S # c
      <4>1. Sooner(S, c)
        BY <2>1, <3>5
      <4>2. /\ S.level \in Levels /\ c.level \in Levels /\ S.file \in v[S.level] /\ c.file \in v[c.level]
            /\ (S.level = c.level => S.level = 0)
        BY <1>c, <2>2, <3>1, <3>5
      <4>3. NewerThan(S.file.ents, c.file.ents)
        BY <4>1, <4>2 DEF Sooner, Layered
      <4>4. r(S).seq > r(c).seq
        BY <4>3, <3>2 DEF NewerThan
      <4> QED
        BY <4>4, <3>3
    <3> QED
      BY <3>4, <3>5
  <2>5. ASSUME NEW e \in Hits(FileEnts(v), k, s) PROVE e.seq <= r(S).seq
    <3>1. PICK c \in H : e.seq <= r(c).seq
      BY <1>1
    <3>2. r(c).seq <= r(S).seq
      BY <2>4
    <3>3. e.seq \in Int /\ r(c).seq \in Int /\ r(S).seq \in Int
      <4>1. r(c) \in Hits(FileEnts(v), k, s)
        BY <1>h, <1>n, <1>f
      <4> QED
        BY <4>1, <2>3, EntryNumbers DEF Hits, FileEnts
    <3> QED
      BY <3>1, <3>2, <3>3
  <2>6. VersionGet(v, k, s) = r(S)
    BY <1>3, <1>g DEF S
  <2> QED
    BY <2>2, <2>3, <2>5, <2>6 DEF IsNewest
<1> QED
  BY <1>2, <1>3

\* The layers of the state, as the lookup uses them.
LEMMA InvLayered ==
  ASSUME LayersOrdered
  PROVE  /\ Layered(files)
         /\ \A a \in mem, b \in imm : a.key = b.key => a.seq > b.seq
         /\ \A a \in mem \cup imm : \A l \in Levels : \A f \in files[l] : \A b \in f.ents :
              a.key = b.key => a.seq > b.seq
<1>1. \A l, m \in Levels : l < m => \A f \in files[l], g \in files[m] : NewerThan(f.ents, g.ents)
  BY DEF LayersOrdered, NewerThan, Ents
<1>2. \A f, g \in files[0] : f.num > g.num => NewerThan(f.ents, g.ents)
  BY DEF LayersOrdered
<1>3. \A a \in mem, b \in imm : a.key = b.key => a.seq > b.seq
  BY DEF LayersOrdered, NewerThan
<1>4. \A a \in mem \cup imm : \A l \in Levels : \A f \in files[l] : \A b \in f.ents :
        a.key = b.key => a.seq > b.seq
  BY DEF LayersOrdered, NewerThan, Ents
<1> QED
  BY <1>1, <1>2, <1>3, <1>4 DEF Layered

\* ldb_get finds the newest entry that is stored anywhere.
LEMMA GetEntryProps ==
  ASSUME LsmTypes, LevelsDisjoint, LayersOrdered, NEW k \in Keys, NEW s \in Nat
  PROVE  IsNewest(Stored(files, mem, imm), k, s, GetEntry(files, k, s))
<1> DEFINE T == Stored(files, mem, imm)
           a == NewestIn(mem, k, s)
           b == NewestIn(imm, k, s)
           c == VersionGet(files, k, s)
<1>0. mem \subseteq Entries /\ imm \subseteq Entries
  BY DEF LsmTypes
<1>1. /\ Hits(mem, k, s) = {} => a = NoEntry
      /\ Hits(mem, k, s) # {} => a \in Hits(mem, k, s) /\ a # NoEntry /\ \A x \in Hits(mem, k, s) : x.seq <= a.seq
  BY <1>0, NewestProps
<1>2. /\ Hits(imm, k, s) = {} => b = NoEntry
      /\ Hits(imm, k, s) # {} => b \in Hits(imm, k, s) /\ b # NoEntry /\ \A x \in Hits(imm, k, s) : x.seq <= b.seq
  BY <1>0, NewestProps
<1>3. IsNewest(FileEnts(files), k, s, c)
  BY InvProper, InvLayered, VersionGetProps
<1>4. Hits(T, k, s) = Hits(mem, k, s) \cup Hits(imm, k, s) \cup Hits(FileEnts(files), k, s)
  BY <1>0 DEF Hits, Stored, FileEnts
<1>5. GetEntry(files, k, s) = IF a # NoEntry THEN a ELSE IF b # NoEntry THEN b ELSE c
  BY DEF GetEntry
<1>m. ASSUME NEW x \in Hits(mem, k, s), NEW y \in Hits(imm, k, s) \cup Hits(FileEnts(files), k, s)
      PROVE  y.seq <= x.seq
  <2>1. x \in mem /\ x.key = y.key /\ y \in Entries /\ x \in Entries
        /\ (y \in imm \/ \E l \in Levels : \E f \in files[l] : y \in f.ents)
    BY <1>0 DEF Hits, FileEnts
  <2>2. x.seq > y.seq
    BY <2>1, InvLayered
  <2> QED
    BY <2>1, <2>2, EntryNumbers
<1>i. ASSUME NEW x \in Hits(imm, k, s), NEW y \in Hits(FileEnts(files), k, s)
      PROVE  y.seq <= x.seq
  <2>1. x \in imm /\ x.key = y.key /\ y \in Entries /\ x \in Entries
        /\ \E l \in Levels : \E f \in files[l] : y \in f.ents
    BY <1>0 DEF Hits, FileEnts
  <2>2. x.seq > y.seq
    BY <2>1, InvLayered
  <2> QED
    BY <2>1, <2>2, EntryNumbers
<1> HIDE DEF T, a, b, c
<1>6. CASE Hits(mem, k, s) # {}
  BY <1>1, <1>4, <1>5, <1>6, <1>m DEF IsNewest, T
<1>7. CASE Hits(mem, k, s) = {} /\ Hits(imm, k, s) # {}
  BY <1>1, <1>2, <1>4, <1>5, <1>7, <1>i DEF IsNewest, T
<1>8. CASE Hits(mem, k, s) = {} /\ Hits(imm, k, s) = {}
  BY <1>1, <1>2, <1>3, <1>4, <1>5, <1>8 DEF IsNewest, T
<1> QED
  BY <1>6, <1>7, <1>8

\* The invariant implies that every live read agrees with the history.
LEMMA InvReads ==
  ASSUME LsmInv
  PROVE  ReadsAgree
<1> SUFFICES ASSUME NEW k \in Keys, NEW s \in Live
             PROVE  Answer(GetEntry(files, k, s)) = Answer(NewestIn(history, k, s))
  BY DEF ReadsAgree, Live
<1> DEFINE T == Stored(files, mem, imm)
           g == GetEntry(files, k, s)
           n == NewestIn(history, k, s)
<1>0. s \in Nat /\ history \subseteq Entries /\ T \subseteq history
  <2>1. /\ history \subseteq Entries /\ mem \subseteq history /\ imm \subseteq history
        /\ \A l \in Levels : \A f \in files[l] : f.ents \subseteq history
    BY DEF LsmInv, LsmTypes
  <2>2. T \subseteq history
    BY <2>1 DEF Stored
  <2>3. s \in Nat
    BY DEF LsmInv, LsmTypes, Live
  <2> QED
    BY <2>1, <2>2, <2>3
<1>1. IsNewest(T, k, s, g)
  BY <1>0, GetEntryProps DEF LsmInv
<1>2. /\ Hits(history, k, s) = {} => n = NoEntry
      /\ Hits(history, k, s) # {} => n \in Hits(history, k, s) /\ \A x \in Hits(history, k, s) : x.seq <= n.seq
  BY <1>0, NewestProps
<1>3. Accounted(history, T, Live) /\ \A a, b \in history : a.seq = b.seq => a = b
  BY DEF LsmInv, ReadInv, LsmTypes
<1> HIDE DEF T, g, n
<1>h. Hits(T, k, s) \subseteq Hits(history, k, s)
  BY <1>0 DEF Hits
<1>4. CASE Hits(history, k, s) = {}
  BY <1>1, <1>2, <1>4, <1>h DEF IsNewest, g, n
<1>5. CASE Hits(history, k, s) # {}
  <2>1. n \in history /\ n.key = k /\ n.seq <= s /\ n \in Entries
    BY <1>0, <1>2, <1>5 DEF Hits
  <2>2. CASE n \in T
    <3>1. n \in Hits(T, k, s)
      BY <2>1, <2>2 DEF Hits
    <3>2. g \in Hits(T, k, s) /\ n.seq <= g.seq
      BY <1>1, <3>1 DEF IsNewest
    <3>3. g \in history /\ g.seq <= n.seq
      BY <1>2, <1>5, <1>h, <3>2 DEF Hits
    <3>4. g.seq = n.seq
      BY <3>2, <3>3, <2>1, <1>0, EntryNumbers
    <3>5. g = n
      BY <3>4, <3>3, <2>1, <1>3
    <3> QED
      BY <3>5 DEF g, n
  <2>3. CASE n \notin T
    <3>1. ~Superseded(history, Live, n)
      <4> SUFFICES ASSUME NEW x \in history, x.key = n.key, n.seq < x.seq, \A t \in Live : x.seq <= t PROVE FALSE
        BY DEF Superseded
      <4>1. x \in Hits(history, k, s)
        BY <2>1 DEF Hits
      <4>2. x.seq <= n.seq /\ x \in Entries
        BY <4>1, <1>0, <1>2, <1>5
      <4> QED
        BY <4>2, <2>1, EntryNumbers
    <3>2. Erased(T, Live, n)
      BY <3>1, <2>1, <2>3, <1>3 DEF Accounted
    <3>3. ASSUME NEW x \in Hits(T, k, s) PROVE FALSE
      <4>1. x.key = n.key /\ x \in T /\ x \in history /\ x \in Entries
        BY <2>1, <1>0 DEF Hits
      <4>2. n.seq < x.seq
        BY <3>2, <4>1 DEF Erased
      <4>3. x.seq <= n.seq
        BY <1>2, <1>5, <1>h
      <4> QED
        BY <2>1, <4>1, <4>2, <4>3, EntryNumbers
    <3>4. g = NoEntry
      BY <1>1, <3>3 DEF IsNewest
    <3>5. n.del = TRUE
      BY <3>2, <2>1 DEF Erased, Entries
    <3> QED
      BY <3>4, <3>5 DEF Answer, NoEntry, g, n
  <2> QED
    BY <2>2, <2>3
<1> QED
  BY <1>4, <1>5

-----------------------------------------------------------------------------
(* The initial state, and the steps of clients.                            *)

Ordered(m, i, v) ==
  /\ NewerThan(m, i)
  /\ \A l \in Levels : \A f \in v[l] : NewerThan(m, f.ents) /\ NewerThan(i, f.ents)
  /\ Layered(v)

\* The order of the layers, file by file.
LEMMA LayersByFile ==
  /\ LayersOrdered <=> Ordered(mem, imm, files)
  /\ LayersOrdered' <=> Ordered(mem', imm', files')
<1>1. LayersOrdered => Ordered(mem, imm, files)
  BY DEF LayersOrdered, Ordered, Layered, NewerThan, Ents
<1>2. Ordered(mem, imm, files) => LayersOrdered
  BY DEF LayersOrdered, Ordered, Layered, NewerThan, Ents
<1>3. LayersOrdered' => Ordered(mem', imm', files')
  BY DEF LayersOrdered, Ordered, Layered, NewerThan, Ents
<1>4. Ordered(mem', imm', files') => LayersOrdered'
  BY DEF LayersOrdered, Ordered, Layered, NewerThan, Ents
<1> QED
  BY <1>1, <1>2, <1>3, <1>4

\* The initial state satisfies the invariant.
LEMMA InitInv ==
  ASSUME Init
  PROVE  LsmInv
<1> USE DEF Init
<1>1. LsmTypes
  <2>1. files \in Versions
    BY FS_EmptySet DEF Versions
  <2>2. compact_pointer \in [Levels -> {Null} \cup Entries]
    OBVIOUS
  <2>3. 0 \in Levels /\ last_sequence \in 0..MaxSeq
    BY Constants DEF Levels
  <2> QED
    BY <2>1, <2>2, <2>3 DEF LsmTypes
<1>2. SeekInv
  BY DEF SeekInv
<1>3. LevelsDisjoint
  BY Constants DEF LevelsDisjoint, Levels
<1>4. LayersOrdered
  <2>1. 0 \in Levels
    BY Constants DEF Levels
  <2>2. Ordered(mem, imm, files)
    BY <2>1 DEF Ordered, Layered, NewerThan
  <2> QED
    BY <2>2, LayersByFile
<1>5. CompactionInv
  BY DEF CompactionInv
<1>6. ReadInv
  BY DEF ReadInv, Accounted
<1> QED
  BY <1>1, <1>2, <1>3, <1>4, <1>5, <1>6 DEF LsmInv

MovesOn(h, st, live, h2, st2, live2) ==
  /\ h \subseteq h2 /\ h2 \subseteq Entries /\ st2 \subseteq Entries
  /\ \A e \in h2 \ st2 : e \in h \ st
  /\ \A x \in st2 \ st : \A e \in h : e.seq < x.seq
  /\ live \subseteq Nat /\ live2 \subseteq Nat
  /\ \A s \in live2 : \E t \in live : t <= s

\* What became of the dropped updates stays true when the history, the stored entries and
\* the live sequence numbers only move on.
LEMMA AccountedStep ==
  ASSUME NEW h, NEW st, NEW live, NEW h2, NEW st2, NEW live2,
         MovesOn(h, st, live, h2, st2, live2), Accounted(h, st, live)
  PROVE  Accounted(h2, st2, live2)
<1> USE DEF MovesOn
<1> SUFFICES ASSUME NEW e \in h2 \ st2
             PROVE  Superseded(h2, live2, e) \/ Erased(st2, live2, e)
  BY DEF Accounted
<1>1. e \in h \ st /\ e \in Entries /\ e.seq \in Int
  BY EntryNumbers
<1>2. Superseded(h, live, e) \/ Erased(st, live, e)
  BY <1>1 DEF Accounted
<1>3. ASSUME NEW n \in Int, \A t \in live : n <= t PROVE \A s \in live2 : n <= s
  <2> SUFFICES ASSUME NEW s \in live2 PROVE n <= s
    OBVIOUS
  <2>1. PICK t \in live : t <= s
    OBVIOUS
  <2>2. n <= t /\ t \in Int /\ s \in Int
    BY <1>3
  <2> QED
    BY <2>1, <2>2
<1>4. CASE Superseded(h, live, e)
  <2>1. PICK x \in h : x.key = e.key /\ e.seq < x.seq /\ \A s \in live : x.seq <= s
    BY <1>4 DEF Superseded
  <2>2. x \in h2 /\ x.seq \in Int
    BY EntryNumbers
  <2>3. \A s \in live2 : x.seq <= s
    BY <2>1, <2>2, <1>3
  <2> QED
    BY <2>1, <2>2, <2>3 DEF Superseded
<1>5. CASE Erased(st, live, e)
  <2>1. e.del /\ (\A s \in live : e.seq <= s) /\ \A x \in st : x.key = e.key => e.seq < x.seq
    BY <1>5 DEF Erased
  <2>2. \A s \in live2 : e.seq <= s
    BY <2>1, <1>1, <1>3
  <2>3. \A x \in st2 : x.key = e.key => e.seq < x.seq
    BY <2>1, <1>1
  <2> QED
    BY <2>1, <2>2, <2>3 DEF Erased
<1> QED
  BY <1>2, <1>4, <1>5

\* The live sequence numbers are numbers.
LEMMA LiveNumbers ==
  ASSUME LsmTypes
  PROVE  Live \subseteq Nat /\ Live # {} /\ \A s \in Live : s <= last_sequence
<1>1. last_sequence \in 0..MaxSeq /\ snapshots \subseteq 0..last_sequence
  BY DEF LsmTypes
<1> QED
  BY <1>1, Constants DEF Live

\* A running compaction is not disturbed by a step that leaves the files alone and only lets
\* the live sequence numbers grow.
LEMMA CompactionSame ==
  ASSUME CompactionInv, files' = files, compaction' = compaction,
         Live \subseteq Nat, Live' \subseteq Nat, \A s \in Live' : \E t \in Live : t <= s
  PROVE  CompactionInv'
<1>1. CASE compaction = Null
  BY <1>1 DEF CompactionInv
<1>2. CASE compaction # Null
  <2>1. Running(compaction, files, Live)
    BY <1>2 DEF CompactionInv
  <2> DEFINE n == compaction.smallest_snapshot
  <2>2. n \in Nat /\ \A s \in Live : n <= s
    BY <2>1 DEF Running
  <2>3. ASSUME NEW s \in Live' PROVE n <= s
    <3>1. PICK t \in Live : t <= s
      OBVIOUS
    <3>2. n <= t /\ t \in Nat /\ s \in Nat
      BY <2>2
    <3> QED
      BY <2>2, <3>1, <3>2
  <2>4. Running(compaction, files, Live')
    BY <2>1, <2>2, <2>3 DEF Running
  <2>5. Running(compaction', files', Live')
    BY <2>4
  <2> QED
    BY <2>5 DEF CompactionInv
<1> QED
  BY <1>1, <1>2

\* A write is newer than everything there is.
LEMMA WriteInv ==
  ASSUME LsmInv, NEW k \in Keys, NEW del \in Tags, Write(k, del)
  PROVE  LsmInv'
<1> DEFINE e == [key |-> k, seq |-> last_sequence + 1, del |-> del]
<1>u. /\ last_sequence < MaxSeq /\ mem' = mem \cup {e} /\ history' = history \cup {e}
      /\ last_sequence' = last_sequence + 1
      /\ imm' = imm /\ files' = files /\ snapshots' = snapshots /\ compact_pointer' = compact_pointer
      /\ file_to_compact' = file_to_compact /\ compaction' = compaction
  BY DEF Write
<1>t. /\ last_sequence \in 0..MaxSeq
      /\ history \subseteq Entries /\ mem \subseteq history /\ imm \subseteq history
      /\ files \in Versions
      /\ \A l \in Levels : \A f \in files[l] : f.ents \subseteq history
      /\ snapshots \subseteq 0..last_sequence
      /\ compact_pointer \in [Levels -> {Null} \cup Entries]
      /\ \A a, b \in history : a.seq = b.seq => a = b
      /\ \A a \in history : a.seq <= last_sequence
      /\ \A f, g \in files[0] : f.num = g.num => f = g
  BY DEF LsmInv, LsmTypes
<1>m. last_sequence \in Nat /\ MaxSeq \in Nat
  BY <1>t, Constants
<1>e. e \in Entries /\ e.seq = last_sequence + 1 /\ e.key = k
  BY <1>u, <1>m, LsmAssumption DEF Entries
<1> HIDE DEF e
<1>h. \A a \in history : a.seq \in Int /\ a.seq < e.seq
  BY <1>t, <1>m, <1>e, EntryNumbers
<1>1. LsmTypes'
  <2>1. history' \subseteq Entries /\ mem' \subseteq history' /\ imm' \subseteq history'
    BY <1>u, <1>t, <1>e
  <2>2. \A l \in Levels : \A f \in files'[l] : f.ents \subseteq history'
    BY <1>u, <1>t
  <2>3. last_sequence' \in 0..MaxSeq /\ snapshots' \subseteq 0..last_sequence'
    <3>1. 0..last_sequence \subseteq 0..(last_sequence + 1)
      BY <1>m
    <3> QED
      BY <1>u, <1>t, <1>m, <3>1
  <2>4. \A a, b \in history' : a.seq = b.seq => a = b
    BY <1>u, <1>t, <1>h, <1>e, <1>m
  <2>5. \A a \in history' : a.seq <= last_sequence'
    BY <1>u, <1>t, <1>h, <1>e, <1>m
  <2> QED
    BY <1>u, <1>t, <2>1, <2>2, <2>3, <2>4, <2>5 DEF LsmTypes
<1>l. Live \subseteq Nat /\ Live' \subseteq Nat /\ \A s \in Live' : \E t \in Live : t <= s
  <2>1. Live \subseteq Nat
    BY LiveNumbers DEF LsmInv
  <2>2. Live' = snapshots \cup {last_sequence + 1}
    BY <1>u DEF Live
  <2>3. last_sequence <= last_sequence + 1 /\ last_sequence \in Live /\ snapshots \subseteq Live
    BY <1>m DEF Live
  <2>4. \A s \in snapshots : s <= s
    BY <2>1, <2>3
  <2> QED
    BY <2>1, <2>2, <2>3, <2>4, <1>m
<1>2. SeekInv'
  BY <1>u DEF LsmInv, SeekInv
<1>3. LevelsDisjoint'
  BY <1>u DEF LsmInv, LevelsDisjoint
<1>4. LayersOrdered'
  <2>1. Ordered(mem, imm, files)
    BY LayersByFile DEF LsmInv
  <2>2. NewerThan(mem', imm)
    BY <1>u, <1>t, <1>h, <1>e, <1>m, <2>1 DEF Ordered, NewerThan
  <2>3. \A l \in Levels : \A f \in files[l] : NewerThan(mem', f.ents)
    BY <1>u, <1>t, <1>h, <1>e, <1>m, <2>1 DEF Ordered, NewerThan
  <2>4. Ordered(mem', imm', files')
    BY <1>u, <2>1, <2>2, <2>3 DEF Ordered
  <2> QED
    BY <2>4, LayersByFile
<1>5. CompactionInv'
  BY <1>u, <1>l, CompactionSame DEF LsmInv
<1>6. ReadInv'
  <2> DEFINE st == Stored(files, mem, imm)
             st2 == Stored(files', mem', imm')
  <2>1. st2 = st \cup {e} /\ st \subseteq Entries
    BY <1>u, <1>e DEF Stored
  <2>2. Accounted(history, st, Live)
    BY DEF LsmInv, ReadInv
  <2> HIDE DEF st, st2
  <2>3. st2 \subseteq Entries /\ \A x \in history' \ st2 : x \in history \ st
    BY <2>1, <1>u, <1>e
  <2>4. \A x \in st2 \ st : \A y \in history : y.seq < x.seq
    BY <2>1, <1>h
  <2>5. history \subseteq history' /\ history' \subseteq Entries
    BY <1>u, <1>t, <1>e
  <2>6. Accounted(history', st2, Live')
    <3>1. MovesOn(history, st, Live, history', st2, Live')
      BY <1>l, <2>3, <2>4, <2>5 DEF MovesOn
    <3> QED
      BY <3>1, <2>2, AccountedStep
  <2> QED
    BY <2>6 DEF ReadInv, st2
<1> QED
  BY <1>1, <1>2, <1>3, <1>4, <1>5, <1>6 DEF LsmInv

\* The switch of memtables moves entries from one to the other.
LEMMA SwitchInv ==
  ASSUME LsmInv, SwitchMemtable
  PROVE  LsmInv'
<1>u. /\ imm = {} /\ imm' = mem /\ mem' = {} /\ last_sequence' = last_sequence /\ history' = history
      /\ files' = files /\ snapshots' = snapshots /\ compact_pointer' = compact_pointer
      /\ file_to_compact' = file_to_compact /\ compaction' = compaction
  BY DEF SwitchMemtable
<1>1. LsmTypes'
  <2>1. LsmTypes /\ {} \subseteq history
    BY DEF LsmInv
  <2> QED
    BY <1>u, <2>1 DEF LsmTypes
<1>2. SeekInv'
  BY <1>u DEF LsmInv, SeekInv
<1>3. LevelsDisjoint'
  BY <1>u DEF LsmInv, LevelsDisjoint
<1>4. LayersOrdered'
  <2>1. Ordered(mem, imm, files)
    BY LayersByFile DEF LsmInv
  <2>2. Ordered(mem', imm', files')
    BY <1>u, <2>1 DEF Ordered, NewerThan
  <2> QED
    BY <2>2, LayersByFile
<1>l. Live' = Live
  BY <1>u DEF Live
<1>5. CompactionInv'
  BY <1>u, <1>l DEF LsmInv, CompactionInv
<1>6. ReadInv'
  <2>1. Stored(files', mem', imm') = Stored(files, mem, imm)
    BY <1>u DEF Stored
  <2> QED
    BY <1>u, <1>l, <2>1 DEF LsmInv, ReadInv
<1> QED
  BY <1>1, <1>2, <1>3, <1>4, <1>5, <1>6 DEF LsmInv

\* Snapshots come and go: a new one is the last sequence number, which is live anyway.
LEMMA SnapshotInv ==
  ASSUME LsmInv, TakeSnapshot \/ ReleaseSnapshot
  PROVE  LsmInv'
<1>u. /\ last_sequence' = last_sequence /\ history' = history /\ mem' = mem /\ imm' = imm
      /\ files' = files /\ compact_pointer' = compact_pointer
      /\ file_to_compact' = file_to_compact /\ compaction' = compaction
      /\ snapshots' \subseteq snapshots \cup {last_sequence}
  BY DEF TakeSnapshot, ReleaseSnapshot
<1>1. LsmTypes'
  <2>1. last_sequence \in 0..MaxSeq /\ snapshots \subseteq 0..last_sequence
    BY DEF LsmInv, LsmTypes
  <2>2. snapshots' \subseteq 0..last_sequence
    BY <1>u, <2>1, Constants
  <2> QED
    BY <1>u, <2>2 DEF LsmInv, LsmTypes
<1>2. SeekInv'
  BY <1>u DEF LsmInv, SeekInv
<1>3. LevelsDisjoint'
  BY <1>u DEF LsmInv, LevelsDisjoint
<1>4. LayersOrdered'
  <2>1. Ordered(mem', imm', files')
    BY <1>u, LayersByFile DEF LsmInv
  <2> QED
    BY <2>1, LayersByFile
<1>l. Live \subseteq Nat /\ Live' \subseteq Nat /\ \A s \in Live' : \E t \in Live : t <= s
  <2>1. Live \subseteq Nat
    BY LiveNumbers DEF LsmInv
  <2>2. Live' \subseteq Live
    BY <1>u DEF Live
  <2>3. \A s \in Live : s <= s
    BY <2>1
  <2> QED
    BY <2>1, <2>2, <2>3
<1>5. CompactionInv'
  BY <1>u, <1>l, CompactionSame DEF LsmInv
<1>6. ReadInv'
  <2> DEFINE st == Stored(files, mem, imm)
  <2>1. st \subseteq Entries /\ history \subseteq history /\ history \subseteq Entries
    BY DEF Stored, LsmInv, LsmTypes
  <2>2. Accounted(history, st, Live)
    BY DEF LsmInv, ReadInv
  <2> HIDE DEF st
  <2>3. (\A e \in history \ st : e \in history \ st) /\ \A x \in st \ st : \A e \in history : e.seq < x.seq
    OBVIOUS
  <2>4. Accounted(history, st, Live')
    <3>1. MovesOn(history, st, Live, history, st, Live')
      BY <1>l, <2>1, <2>3 DEF MovesOn
    <3> QED
      BY <3>1, <2>2, AccountedStep
  <2> QED
    BY <1>u, <2>4 DEF ReadInv, st
<1> QED
  BY <1>1, <1>2, <1>3, <1>4, <1>5, <1>6 DEF LsmInv

\* A file is charged with a seek only if a deeper one was read too, so it is never of the last level.
LEMMA ChargeInv ==
  ASSUME LsmInv, NEW k \in Keys, NEW s \in Nat, NEW R, R \subseteq Consulted(files, k, s),
         file_to_compact' \in Charged(R),
         UNCHANGED <<last_sequence, history, mem, imm, files, snapshots, compact_pointer, compaction>>
  PROVE  LsmInv'
<1>u. /\ last_sequence' = last_sequence /\ history' = history /\ mem' = mem /\ imm' = imm
      /\ files' = files /\ snapshots' = snapshots /\ compact_pointer' = compact_pointer
      /\ compaction' = compaction
  OBVIOUS
<1>1. LsmTypes'
  BY <1>u DEF LsmInv, LsmTypes
<1>2. SeekInv'
  <2> DEFINE C == Consulted(files, k, s)
             a == Soonest(R)
  <2>0. Proper(files, history) /\ s \in Nat
    BY InvProper DEF LsmInv
  <2>1. R \subseteq C /\ Cardinality(R) >= 2 /\ file_to_compact' = a
    BY DEF Charged
  <2>2. R # {}
    BY <2>1, FS_EmptySet
  <2>3. a \in R /\ \A b \in R : a = b \/ Sooner(a, b)
    BY <2>0, <2>1, <2>2, SoonestProps
  <2> HIDE DEF a, C
  <2>4. \A b \in R : /\ b.level \in Levels /\ b.level \in Nat /\ b.file \in files[b.level]
                     /\ \A d \in R : b.level = d.level /\ b.level # 0 => b = d
    BY <2>0, <2>1, ConsultedProps DEF C
  <2>5. a.level # NumLevels - 1
    <3> SUFFICES ASSUME a.level = NumLevels - 1 PROVE FALSE
      OBVIOUS
    <3>1. a.level # 0
      BY Constants
    <3>2. ASSUME NEW b \in R PROVE b = a
      <4>1. b.level <= a.level
        BY <2>4, Constants DEF Levels
      <4>2. ~(a.level < b.level)
        BY <4>1, <2>3, <2>4
      <4>3. a = b \/ a.level = b.level
        BY <4>2, <2>3 DEF Sooner
      <4> QED
        BY <4>3, <3>1, <2>3, <2>4
    <3>3. R = {a}
      BY <3>2, <2>3
    <3>4. Cardinality({a}) = 1
      BY FS_Singleton
    <3> QED
      BY <2>1, <3>3, <3>4
  <2>6. a.level \in 0..(NumLevels - 2) /\ a.file \in files[a.level]
    BY <2>3, <2>4, <2>5, Constants DEF Levels
  <2> QED
    BY <1>u, <2>1, <2>6 DEF SeekInv
<1>3. LevelsDisjoint'
  BY <1>u DEF LsmInv, LevelsDisjoint
<1>4. LayersOrdered'
  <2>1. Ordered(mem', imm', files')
    BY <1>u, LayersByFile DEF LsmInv
  <2> QED
    BY <2>1, LayersByFile
<1>l. Live' = Live
  BY <1>u DEF Live
<1>5. CompactionInv'
  BY <1>u, <1>l DEF LsmInv, CompactionInv
<1>6. ReadInv'
  BY <1>u, <1>l DEF LsmInv, ReadInv
<1> QED
  BY <1>1, <1>2, <1>3, <1>4, <1>5, <1>6 DEF LsmInv

\* Both sources of charges are of this kind.
LEMMA SeekChargeInv ==
  ASSUME LsmInv, NEW k \in Keys, ChargeSeek(k)
  PROVE  LsmInv'
<1>1. /\ file_to_compact' \in Charged(Reads(files, k, last_sequence))
      /\ UNCHANGED <<last_sequence, history, mem, imm, files, snapshots, compact_pointer, compaction>>
  BY DEF ChargeSeek
<1>2. last_sequence \in 0..MaxSeq
  BY DEF LsmInv, LsmTypes
<1>3. Reads(files, k, last_sequence) \subseteq Consulted(files, k, last_sequence)
  BY DEF Reads
<1> QED
  BY <1>1, <1>2, <1>3, ChargeInv

LEMMA SampleInv ==
  ASSUME LsmInv, NEW e \in history, RecordReadSample(e)
  PROVE  LsmInv'
<1>1. /\ file_to_compact' \in Charged(Consulted(files, e.key, e.seq))
      /\ UNCHANGED <<last_sequence, history, mem, imm, files, snapshots, compact_pointer, compaction>>
  BY DEF RecordReadSample
<1>2. e.key \in Keys /\ e.seq \in Nat
  <2>1. e \in Entries
    BY DEF LsmInv, LsmTypes
  <2> QED
    BY <2>1, Constants DEF Entries
<1> QED
  BY <1>1, <1>2, ChargeInv

-----------------------------------------------------------------------------
(* Flushing a memtable.                                                    *)

\* A new file's number is above those of all live files (ldb_versions_new_file_number).
LEMMA NextNumberProps ==
  ASSUME files \in Versions
  PROVE  NextNumber \in Nat /\ \A l \in Levels : \A f \in files[l] : f.num < NextNumber
<1> DEFINE V == {files[l] : l \in Levels}
           A == UNION V
           N == {f.num : f \in A}
           S == {0} \cup N
           g == [l \in Levels |-> files[l]]
<1>1. IsFiniteSet(Levels)
  BY Constants, FS_Interval DEF Levels
<1>2. IsFiniteSet(V)
  <2>1. g \in Surjection(Levels, V)
    BY DEF Surjection
  <2> HIDE DEF g, V
  <2> QED
    BY <1>1, <2>1, FS_Surjection
<1>3. \A T \in V : IsFiniteSet(T) /\ T \subseteq Tables
  BY VersionLevel
<1>4. IsFiniteSet(A) /\ A \subseteq Tables
  <2> HIDE DEF V
  <2> QED
    BY <1>2, <1>3, FS_UNION
<1>5. N \subseteq Nat /\ IsFiniteSet(N)
  <2> HIDE DEF A
  <2> QED
    BY <1>4, NumbersFinite
<1>6. S \subseteq Nat /\ IsFiniteSet(S) /\ S # {}
  <2> HIDE DEF N
  <2>1. IsFiniteSet(N \cup {0}) /\ S = N \cup {0}
    BY <1>5, FS_AddElement
  <2>2. S \subseteq Nat /\ S # {}
    BY <1>5
  <2> QED
    BY <2>1, <2>2
<1>n. NextNumber = 1 + Max(S)
  BY DEF NextNumber
<1>m. \A l \in Levels : \A f \in files[l] : f.num \in S
  OBVIOUS
<1> HIDE DEF S
<1>7. HasGreatest(S)
  BY <1>6, FiniteGreatest
<1>8. Max(S) \in S /\ \A x \in S : Max(S) >= x
  <2>1. PICK m \in S : \A x \in S : x <= m
    BY <1>7 DEF HasGreatest
  <2>2. \A x \in S : m >= x
    BY <1>6, <2>1
  <2> QED
    BY <2>2 DEF Max
<1>9. ASSUME NEW l \in Levels, NEW f \in files[l] PROVE f.num < NextNumber
  <2>1. f.num \in S /\ f.num \in Nat /\ Max(S) \in Nat /\ Max(S) >= f.num
    BY <1>m, <1>6, <1>8
  <2> QED
    BY <2>1, <1>n
<1>10. Max(S) \in Nat
  BY <1>6, <1>8
<1>11. NextNumber \in Nat
  BY <1>10, <1>n
<1> QED
  BY <1>9, <1>11

\* A memtable flushed below level 0 meets no file from level 0 down to its level
\* (ldb_version_pick_level_for_memtable_output).
LEMMA PickLevelProps ==
  ASSUME NEW v, NEW b, NEW e
  PROVE  /\ PickLevel(v, b, e) \in 0..MaxMemLevel /\ PickLevel(v, b, e) \in 0..(NumLevels - 2)
         /\ PickLevel(v, b, e) \in Levels
         /\ PickLevel(v, b, e) # 0 => \A l \in 0..PickLevel(v, b, e) : ~OverlapInLevel(v, l, b, e)
<1> DEFINE stop(l) == \/ OverlapInLevel(v, l + 1, b, e)
                      \/ /\ l + 2 < NumLevels
                         /\ TotalSize(OverlappingInputs(v, l + 2, b, e)) > GrandLimit
           S == {l \in 0..(MaxMemLevel - 1) : stop(l)} \cup {MaxMemLevel}
           L == PickLevel(v, b, e)
<1>1. L = IF OverlapInLevel(v, 0, b, e) THEN 0 ELSE Min(S)
  BY DEF PickLevel
<1>2. S \subseteq 0..MaxMemLevel /\ S # {} /\ S \subseteq Nat
  BY Constants
<1>s. \A l \in 0..(MaxMemLevel - 1) : l \notin S => ~OverlapInLevel(v, l + 1, b, e)
  OBVIOUS
<1> HIDE DEF S, L
<1>3. Min(S) \in S /\ \A x \in S : Min(S) <= x
  <2>1. PICK m \in S : \A x \in S : m <= x
    BY <1>2, LeastNat
  <2> QED
    BY <2>1 DEF Min
<1>4. L \in 0..MaxMemLevel /\ L \in 0..(NumLevels - 2) /\ L \in Levels
  BY <1>1, <1>2, <1>3, Constants DEF Levels
<1>5. ASSUME L # 0, NEW l \in 0..L PROVE ~OverlapInLevel(v, l, b, e)
  <2>1. L = Min(S) /\ ~OverlapInLevel(v, 0, b, e)
    BY <1>1, <1>5
  <2>2. CASE l = 0
    BY <2>1, <2>2
  <2>3. CASE l # 0
    <3>1. l - 1 \in 0..(MaxMemLevel - 1) /\ l - 1 < L /\ (l - 1) + 1 = l
      BY <2>3, <1>4, Constants
    <3>2. l - 1 \notin S
      BY <3>1, <2>1, <1>3, <1>4
    <3> QED
      BY <1>s, <3>1, <3>2
  <2> QED
    BY <2>2, <2>3
<1> QED
  BY <1>4, <1>5 DEF L

\* Two tables that do not overlap share no key, and one lies before the other.
LEMMA ApartTables ==
  ASSUME NEW f \in Tables, NEW g \in Tables, ~Overlaps(g, f.smallest.key, f.largest.key)
  PROVE  /\ g.largest.key < f.smallest.key \/ f.largest.key < g.smallest.key
         /\ Before(g.largest, f.smallest) \/ Before(f.largest, g.smallest)
         /\ NewerThan(f.ents, g.ents) /\ NewerThan(g.ents, f.ents)
         /\ ~Overlaps(f, g.smallest.key, g.largest.key)
<1>1. /\ f.smallest \in Entries /\ f.largest \in Entries /\ f.smallest.key <= f.largest.key
      /\ g.smallest \in Entries /\ g.largest \in Entries /\ g.smallest.key <= g.largest.key
      /\ f.ents \subseteq Entries /\ g.ents \subseteq Entries
      /\ \A a \in f.ents : f.smallest.key <= a.key /\ a.key <= f.largest.key
      /\ \A a \in g.ents : g.smallest.key <= a.key /\ a.key <= g.largest.key
  BY TableProps
<1>n. f.smallest.key \in Int /\ f.largest.key \in Int /\ g.smallest.key \in Int /\ g.largest.key \in Int
  BY <1>1, EntryNumbers
<1>2. g.largest.key < f.smallest.key \/ f.largest.key < g.smallest.key
  BY <1>n DEF Overlaps
<1>3. \A a \in f.ents, b \in g.ents : a.key # b.key
  <2> SUFFICES ASSUME NEW a \in f.ents, NEW b \in g.ents, a.key = b.key PROVE FALSE
    OBVIOUS
  <2>1. /\ f.smallest.key <= a.key /\ a.key <= f.largest.key /\ g.smallest.key <= b.key /\ b.key <= g.largest.key
        /\ a.key \in Int
    BY <1>1, EntryNumbers
  <2> QED
    BY <2>1, <1>2, <1>n
<1>4. NewerThan(f.ents, g.ents) /\ NewerThan(g.ents, f.ents)
  BY <1>3 DEF NewerThan
<1>5. Before(g.largest, f.smallest) \/ Before(f.largest, g.smallest)
  BY <1>1, <1>2, OrderTransitive
<1>6. ~Overlaps(f, g.smallest.key, g.largest.key)
  BY <1>2, <1>n, <1>1 DEF Overlaps
<1> QED
  BY <1>2, <1>4, <1>5, <1>6

\* A file flushed beside a running compaction leaves its inputs fit to be taken.
LEMMA FlushTakes ==
  ASSUME NEW v \in Versions, NEW level, NEW I, NEW J, Takes(v, level, I, J),
         NEW f \in Tables, NEW L \in Levels, NEW v2, v2 = [v EXCEPT ![L] = @ \cup {f}],
         L # 0 => MaxMemLevel # 0,
         L # 0 => \A l \in 0..L : ~OverlapInLevel(v, l, f.smallest.key, f.largest.key),
         \A l \in Levels : \A g \in v[l] : NewerThan(f.ents, g.ents)
  PROVE  Takes(v2, level, I, J)
<1>l. level \in 0..(NumLevels - 2) /\ level \in Levels /\ level + 1 \in Levels /\ level \in Int /\ level + 1 # 0
  BY NextLevel DEF Takes
<1>t. /\ I \subseteq v[level] /\ J \subseteq v[level + 1] /\ I # {}
      /\ \A x \in v[level] \ I, y \in I : NewerThan(x.ents, y.ents)
      /\ \A z \in v[level + 1] \ J : Split(z, I \cup J)
      /\ MaxMemLevel = 0 \/ Gapless(I \cup J)
  BY DEF Takes
<1>v. \A l \in Levels : v2[l] = IF l = L THEN v[l] \cup {f} ELSE v[l]
  BY DEF Versions
<1>1. I \subseteq v2[level] /\ J \subseteq v2[level + 1]
  BY <1>l, <1>t, <1>v
<1>2. \A x \in v2[level] \ I, y \in I : NewerThan(x.ents, y.ents)
  BY <1>l, <1>t, <1>v
<1>3. ASSUME NEW z \in v2[level + 1] \ J PROVE Split(z, I \cup J)
  <2>1. CASE z \in v[level + 1]
    BY <2>1, <1>3, <1>t
  <2>2. CASE z \notin v[level + 1]
    <3>1. z = f /\ L = level + 1 /\ L # 0
      BY <2>2, <1>3, <1>l, <1>v
    <3>2. Gapless(I \cup J)
      BY <3>1, <1>t
    <3>3. I \cup J \subseteq Tables
      BY <1>l, <1>t, VersionLevel
    <3>4. \A r \in I \cup J : ~Overlaps(r, f.smallest.key, f.largest.key)
      <4>1. level \in 0..L /\ level + 1 \in 0..L
        BY <3>1, <1>l
      <4>2. ~OverlapInLevel(v, level, f.smallest.key, f.largest.key)
            /\ ~OverlapInLevel(v, level + 1, f.smallest.key, f.largest.key)
        BY <3>1, <4>1
      <4> QED
        BY <4>2, <1>t DEF OverlapInLevel
    <3>5. \A r \in I \cup J : r.largest.key < f.smallest.key \/ f.largest.key < r.smallest.key
      BY <3>3, <3>4, ApartTables
    <3>n. /\ f.smallest \in Entries /\ f.largest \in Entries
          /\ f.smallest.key \in Int /\ f.largest.key \in Int /\ f.smallest.key <= f.largest.key
          /\ f.smallest.key \in Keys
          /\ \A r \in I \cup J : /\ r.smallest \in Entries /\ r.largest \in Entries
                                 /\ r.smallest.key \in Int /\ r.largest.key \in Int
                                 /\ r.smallest.key <= r.largest.key
      BY <3>3, TableProps, EntryNumbers
    <3>6. CASE \A r \in I \cup J : f.largest.key < r.smallest.key
      <4>1. \A r \in I \cup J : Before(f.largest, r.smallest)
        BY <3>6, <3>n, OrderTransitive
      <4> QED
        BY <3>1, <4>1 DEF Split
    <3>7. CASE \A r \in I \cup J : r.largest.key < f.smallest.key
      BY <3>1, <3>7 DEF Split
    <3>8. ASSUME NEW p \in I \cup J, NEW q \in I \cup J, p.largest.key < f.smallest.key, f.largest.key < q.smallest.key
          PROVE  FALSE
      <4>1. p.smallest.key <= f.smallest.key /\ f.smallest.key <= q.largest.key
        BY <3>8, <3>n
      <4>2. Within(I \cup J, f.smallest.key)
        BY <4>1 DEF Within
      <4>3. Covered(I \cup J, f.smallest.key)
        BY <4>2, <3>2, <3>n DEF Gapless
      <4>4. PICK r \in I \cup J : Overlaps(r, f.smallest.key, f.smallest.key)
        BY <4>3 DEF Covered
      <4>5. Overlaps(r, f.smallest.key, f.largest.key)
        BY <4>4, <3>n DEF Overlaps
      <4> QED
        BY <4>5, <3>4
    <3> QED
      BY <3>5, <3>6, <3>7, <3>8
  <2> QED
    BY <2>1, <2>2
<1> QED
  BY <1>l, <1>t, <1>1, <1>2, <1>3 DEF Takes

\* Flushing the immutable memtable keeps the invariant.
LEMMA FlushInv ==
  ASSUME LsmInv, CompactMemtable
  PROVE  LsmInv'
<1> DEFINE f == NewFile(NextNumber, imm)
           L == PickLevel(files, f.smallest.key, f.largest.key)
<1>u. /\ imm # {} /\ files' = [files EXCEPT ![L] = @ \cup {f}] /\ imm' = {} /\ file_to_compact' = Null
      /\ last_sequence' = last_sequence /\ history' = history /\ mem' = mem /\ snapshots' = snapshots
      /\ compact_pointer' = compact_pointer /\ compaction' = compaction
  BY DEF CompactMemtable
<1>t. /\ last_sequence \in 0..MaxSeq
      /\ history \subseteq Entries /\ mem \subseteq history /\ imm \subseteq history
      /\ files \in Versions
      /\ \A l \in Levels : \A g \in files[l] : g.ents \subseteq history
      /\ snapshots \subseteq 0..last_sequence
      /\ compact_pointer \in [Levels -> {Null} \cup Entries]
      /\ \A a, b \in history : a.seq = b.seq => a = b
      /\ \A a \in history : a.seq <= last_sequence
      /\ \A g, h \in files[0] : g.num = h.num => g = h
  BY DEF LsmInv, LsmTypes
<1>n. NextNumber \in Nat /\ \A l \in Levels : \A g \in files[l] : g.num < NextNumber
  BY <1>t, NextNumberProps
<1>i. imm \subseteq Entries
  BY <1>t
<1>f. f \in Tables /\ f.num = NextNumber /\ f.ents = imm
  BY <1>u, <1>i, <1>n, NewFileTable
<1> HIDE DEF f
<1>p. /\ L \in 0..MaxMemLevel /\ L \in 0..(NumLevels - 2) /\ L \in Levels
      /\ L # 0 => \A l \in 0..L : ~OverlapInLevel(files, l, f.smallest.key, f.largest.key)
  BY PickLevelProps
<1> HIDE DEF L
<1>v. \A l \in Levels : files'[l] = IF l = L THEN files[l] \cup {f} ELSE files[l]
  BY <1>u, <1>t DEF Versions
<1>w. \A l \in Levels : files[l] \subseteq Tables /\ IsFiniteSet(files[l])
  BY <1>t, VersionLevel
<1>z. 0 \in Levels
  BY Constants DEF Levels
<1>o. Ordered(mem, imm, files)
  BY LayersByFile DEF LsmInv
<1>a. ASSUME L # 0, NEW l \in Levels, l <= L, NEW g \in files[l]
      PROVE  ~Overlaps(g, f.smallest.key, f.largest.key)
  <2>1. l \in 0..L
    BY <1>a, <1>p DEF Levels
  <2> QED
    BY <1>a, <1>p, <2>1 DEF OverlapInLevel
<1>1. LsmTypes'
  <2>1. files' \in Versions
    <3>0. ASSUME NEW l \in Levels PROVE IsFiniteSet(files[l] \cup {f})
      BY <1>w, FS_AddElement
    <3>1. \A l \in Levels : files'[l] \subseteq Tables /\ IsFiniteSet(files'[l])
      BY <3>0, <1>v, <1>w, <1>f
    <3>2. files' \in [Levels -> SUBSET Tables]
      <4>1. files' = [l \in Levels |-> files'[l]]
        BY <1>u, <1>t DEF Versions
      <4> QED
        BY <3>1, <4>1
    <3> QED
      BY <3>1, <3>2 DEF Versions
  <2>2. \A l \in Levels : \A g \in files'[l] : g.ents \subseteq history'
    BY <1>u, <1>t, <1>v, <1>f
  <2>3. \A g, h \in files'[0] : g.num = h.num => g = h
    <3>1. files'[0] \subseteq files[0] \cup {f}
      BY <1>v, <1>z
    <3>2. \A x \in files[0] : x.num # f.num
      <4>1. \A x \in files[0] : x.num < f.num /\ x.num \in Nat /\ f.num \in Nat
        BY <1>n, <1>f, <1>w, <1>z, TableProps
      <4> QED
        BY <4>1
    <3>3. \A g, h \in files[0] : g.num = h.num => g = h
      BY <1>t
    <3> QED
      BY <3>1, <3>2, <3>3
  <2>4. {} \subseteq history
    OBVIOUS
  <2> QED
    BY <1>u, <1>t, <2>1, <2>2, <2>3, <2>4 DEF LsmTypes
<1>2. SeekInv'
  BY <1>u DEF SeekInv
<1>3. LevelsDisjoint'
  <2>l. \A l \in 1..(NumLevels - 1) : l \in Levels /\ l # 0
    BY Constants DEF Levels
  <2>1. ASSUME L # 0, NEW g \in files[L]
        PROVE  Before(g.largest, f.smallest) \/ Before(f.largest, g.smallest)
    <3>1. ~Overlaps(g, f.smallest.key, f.largest.key)
      <4>1. L <= L
        BY <1>p
      <4> QED
        BY <2>1, <4>1, <1>a, <1>p
    <3> QED
      BY <3>1, <1>f, <1>w, <1>p, ApartTables
  <2>2. \A l \in 1..(NumLevels - 1) : \A g, h \in files[l] :
          g # h => Before(g.largest, h.smallest) \/ Before(h.largest, g.smallest)
    BY DEF LsmInv, LevelsDisjoint
  <2>3. \A l \in 1..(NumLevels - 1) : \A g, h \in files'[l] :
          g # h => Before(g.largest, h.smallest) \/ Before(h.largest, g.smallest)
    BY <2>l, <2>1, <2>2, <1>v
  <2> QED
    BY <2>3 DEF LevelsDisjoint
<1>4. LayersOrdered'
  <2>1. \A l \in Levels : \A g \in files'[l] : NewerThan(mem', g.ents) /\ NewerThan(imm', g.ents)
    BY <1>u, <1>o, <1>v, <1>f DEF Ordered, NewerThan
  <2>2. NewerThan(mem', imm')
    BY <1>u DEF NewerThan
  <2>3. \A g, h \in files'[0] : g.num > h.num => NewerThan(g.ents, h.ents)
    <3> SUFFICES ASSUME NEW g \in files'[0], NEW h \in files'[0], g.num > h.num PROVE NewerThan(g.ents, h.ents)
      OBVIOUS
    <3>0. \A x \in files[0] : x.num < f.num /\ x.num \in Nat /\ f.num \in Nat
      BY <1>n, <1>f, <1>w, <1>z, TableProps
    <3>1. CASE g \in files[0] /\ h \in files[0]
      BY <3>1, <1>o DEF Ordered, Layered
    <3>2. CASE g = f /\ h \in files[0]
      BY <3>2, <1>f, <1>o, <1>z DEF Ordered
    <3>4. files'[0] \subseteq files[0] \cup {f}
      BY <1>v, <1>z
    <3>3. CASE h = f
      <4>1. g \in files[0] => g.num < f.num /\ g.num \in Nat
        BY <3>0
      <4>2. f.num \in Nat
        BY <1>f, TableProps
      <4> QED
        BY <4>1, <4>2, <3>3, <3>4
    <3> QED
      BY <3>1, <3>2, <3>3, <3>4
  <2>4. ASSUME NEW l \in Levels, NEW m \in Levels, l < m, NEW g \in files'[l], NEW h \in files'[m]
        PROVE  NewerThan(g.ents, h.ents)
    <3>1. CASE g \in files[l] /\ h \in files[m]
      BY <2>4, <3>1, <1>o DEF Ordered, Layered
    <3>2. CASE g = f /\ h \in files[m]
      BY <3>2, <1>f, <1>o DEF Ordered
    <3>3. CASE h \notin files[m]
      <4>1. h = f /\ m = L /\ L # 0 /\ l <= L /\ g \in files[l]
        <5>1. l \in Int /\ m \in Int /\ l >= 0
          BY Constants DEF Levels
        <5>2. h = f /\ m = L
          BY <3>3, <1>v
        <5>3. l # L /\ L # 0 /\ l <= L
          BY <2>4, <5>1, <5>2
        <5> QED
          BY <5>2, <5>3, <1>v
      <4>2. ~Overlaps(g, f.smallest.key, f.largest.key)
        BY <4>1, <1>a
      <4> QED
        BY <4>1, <4>2, <1>f, <1>w, ApartTables
    <3> QED
      BY <3>1, <3>2, <3>3, <1>v
  <2>5. Ordered(mem', imm', files')
    BY <2>1, <2>2, <2>3, <2>4 DEF Ordered, Layered
  <2> QED
    BY <2>5, LayersByFile
<1>l. Live' = Live
  BY <1>u DEF Live
<1>5. CompactionInv'
  <2>1. CASE compaction = Null
    BY <2>1, <1>u DEF CompactionInv
  <2>2. CASE compaction # Null
    <3> DEFINE c == compaction
    <3>1. Running(c, files, Live)
      BY <2>2 DEF LsmInv, CompactionInv
    <3> HIDE DEF c
    <3>2. Takes(files', c.level, c.in0, c.in1)
      <4>1. Takes(files, c.level, c.in0, c.in1)
        BY <3>1 DEF Running
      <4>2. L # 0 => MaxMemLevel # 0
        BY <1>p, Constants
      <4>3. \A l \in Levels : \A g \in files[l] : NewerThan(f.ents, g.ents)
        BY <1>f, <1>o DEF Ordered
      <4> QED
        BY <4>1, <4>2, <4>3, <1>f, <1>p, <1>t, <1>u, FlushTakes
    <3>3. ASSUME NEW l \in (c.level + 2)..(NumLevels - 1), NEW g \in files'[l] \ c.version[l],
                 NEW y \in c.in0 \cup c.in1
          PROVE  ~Overlaps(g, y.smallest.key, y.largest.key)
      <4>l. c.level \in 0..(NumLevels - 2) /\ c.in0 \subseteq files[c.level] /\ c.in1 \subseteq files[c.level + 1]
        BY <3>1 DEF Running, Takes
      <4>m. c.level \in Levels /\ c.level + 1 \in Levels /\ l \in Levels /\ c.level <= l /\ c.level + 1 <= l /\ l # 0
        BY <4>l, Constants DEF Levels
      <4>1. CASE g \in files[l]
        BY <4>1, <3>1, <3>3 DEF Running
      <4>2. CASE g \notin files[l]
        <5>1. g = f /\ l = L
          BY <4>2, <4>m, <1>v
        <5>2. ~Overlaps(y, f.smallest.key, f.largest.key)
          BY <5>1, <4>l, <4>m, <1>a
        <5>3. y \in Tables
          BY <4>l, <4>m, <1>w
        <5> QED
          BY <5>1, <5>2, <5>3, <1>f, ApartTables
      <4> QED
        BY <4>1, <4>2
    <3>4. Running(c, files', Live)
      BY <3>1, <3>2, <3>3 DEF Running
    <3>5. Running(compaction', files', Live')
      BY <3>4, <1>u, <1>l DEF c
    <3> QED
      BY <3>5 DEF CompactionInv
  <2> QED
    BY <2>1, <2>2
<1>6. ReadInv'
  <2>1. Stored(files', mem', imm') = Stored(files, mem, imm)
    <3>1. ASSUME NEW e \in Entries
          PROVE  (\E l \in Levels : \E g \in files'[l] : e \in g.ents)
                 <=> e \in imm \/ \E l \in Levels : \E g \in files[l] : e \in g.ents
      BY <1>v, <1>f, <1>p
    <3> QED
      BY <3>1, <1>u DEF Stored
  <2> QED
    BY <1>u, <1>l, <2>1 DEF LsmInv, ReadInv
<1> QED
  BY <1>1, <1>2, <1>3, <1>4, <1>5, <1>6 DEF LsmInv

-----------------------------------------------------------------------------
(* Compactions.                                                            *)

(* The version after a compaction: its inputs deleted, its outputs in the  *)
(* next level.                                                             *)
Replaces(v, level, I, J, O, v2) ==
  v2 = [l \in Levels |-> IF l = level THEN v[l] \ I
                         ELSE IF l = level + 1 THEN (v[l] \ J) \cup O ELSE v[l]]

(* Outputs hold entries of the inputs only and do not overlap.             *)
Derived(I, J, O) ==
  /\ O \subseteq Tables /\ IsFiniteSet(O) /\ Disjoint(O)
  /\ \A o \in O : \A e \in o.ents : \E r \in I \cup J : e \in r.ents

\* Outputs lie beside the files left behind in their level.
LEMMA ReplacedDisjoint ==
  ASSUME NEW v, Leveled(v), NEW level, NEW I, NEW J, Takes(v, level, I, J),
         NEW O, Derived(I, J, O), NEW v2, Replaces(v, level, I, J, O, v2)
  PROVE  Leveled(v2)
<1>l. level \in 0..(NumLevels - 2) /\ level \in Levels /\ level + 1 \in Levels /\ level \in Int /\ level + 1 # level
  BY NextLevel DEF Takes
<1>v. \A l \in Levels : v[l] \subseteq Tables /\ IsFiniteSet(v[l])
  BY VersionLevel DEF Leveled
<1>o. O \subseteq Tables /\ IsFiniteSet(O) /\ Disjoint(O)
  BY DEF Derived
<1>r. \A l \in Levels : v2[l] = IF l = level THEN v[l] \ I
                                ELSE IF l = level + 1 THEN (v[l] \ J) \cup O ELSE v[l]
  BY DEF Replaces
<1>1. v2 \in Versions
  <2>1. ASSUME NEW l \in Levels PROVE v2[l] \subseteq Tables /\ IsFiniteSet(v2[l])
    <3>1. IsFiniteSet(v[l] \ I) /\ IsFiniteSet(v[l] \ J)
      BY <1>v, FS_Subset
    <3>2. IsFiniteSet((v[l] \ J) \cup O)
      BY <3>1, <1>o, FS_Union
    <3> QED
      BY <3>1, <3>2, <1>v, <1>o, <1>r
  <2>2. v2 \in [Levels -> SUBSET Tables]
    <3>1. v2 = [l \in Levels |-> v2[l]]
      BY DEF Replaces
    <3> QED
      BY <2>1, <3>1
  <2> QED
    BY <2>1, <2>2 DEF Versions
<1>2. ASSUME NEW z \in v[level + 1] \ J, NEW x \in O
      PROVE  Before(z.largest, x.smallest) \/ Before(x.largest, z.smallest)
  <2>1. Split(z, I \cup J) /\ z \in Tables /\ x \in Tables
    BY <1>l, <1>v, <1>o DEF Takes
  <2>t. I \cup J \subseteq Tables
    BY <1>l, <1>v DEF Takes
  <2>2. x.smallest \in x.ents /\ x.largest \in x.ents /\ x.smallest \in Entries /\ x.largest \in Entries
        /\ z.largest \in Entries /\ z.smallest \in Entries
    BY <2>1, TableProps
  <2>3. PICK r \in I \cup J : x.smallest \in r.ents
    BY <2>2 DEF Derived
  <2>4. PICK q \in I \cup J : x.largest \in q.ents
    BY <2>2 DEF Derived
  <2>5. /\ AtOrBefore(r.smallest, x.smallest) /\ r.smallest \in Entries
        /\ x.largest.key <= q.largest.key /\ q.largest \in Entries
    BY <2>t, <2>3, <2>4, TableProps
  <2>6. CASE \A y \in I \cup J : Before(z.largest, y.smallest)
    BY <2>2, <2>3, <2>5, <2>6, OrderTransitive
  <2>7. CASE \A y \in I \cup J : y.largest.key < z.smallest.key
    <3>1. q.largest.key < z.smallest.key
      BY <2>7, <2>4
    <3>2. x.largest.key < z.smallest.key
      BY <3>1, <2>2, <2>5, EntryNumbers
    <3> QED
      BY <3>2, <2>2, OrderTransitive
  <2> QED
    BY <2>1, <2>6, <2>7 DEF Split
<1>3. ASSUME NEW l \in 1..(NumLevels - 1) PROVE Disjoint(v2[l])
  <2>1. l \in Levels /\ Disjoint(v[l])
    BY Constants DEF Levels, Leveled
  <2>2. CASE l = level + 1
    <3>1. v2[l] = (v[level + 1] \ J) \cup O
      BY <2>1, <2>2, <1>l, <1>r
    <3> QED
      BY <3>1, <2>1, <2>2, <1>2, <1>o DEF Disjoint
  <2>3. CASE l # level + 1
    <3>1. v2[l] \subseteq v[l]
      BY <2>1, <2>3, <1>r
    <3> QED
      BY <3>1, <2>1 DEF Disjoint
  <2> QED
    BY <2>2, <2>3
<1> QED
  BY <1>1, <1>3 DEF Leveled

\* Outputs are as old as the inputs: the layers stay ordered.
LEMMA ReplacedOrdered ==
  ASSUME NEW v, v \in Versions, NEW level, NEW I, NEW J, Takes(v, level, I, J),
         NEW O, Derived(I, J, O), NEW v2, Replaces(v, level, I, J, O, v2),
         NEW m, NEW i, Ordered(m, i, v)
  PROVE  Ordered(m, i, v2)
<1>l. level \in 0..(NumLevels - 2) /\ level \in Levels /\ level + 1 \in Levels /\ level \in Int /\ level + 1 # level
      /\ level + 1 # 0 /\ 0 \in Levels
  BY NextLevel DEF Takes
<1>r. \A l \in Levels : v2[l] = IF l = level THEN v[l] \ I
                                ELSE IF l = level + 1 THEN (v[l] \ J) \cup O ELSE v[l]
  BY DEF Replaces
<1>t. /\ I \subseteq v[level] /\ J \subseteq v[level + 1]
      /\ \A x \in v[level] \ I, y \in I : NewerThan(x.ents, y.ents)
  BY DEF Takes
<1>d. \A o \in O : \A e \in o.ents : \E r \in I \cup J : e \in r.ents
  BY DEF Derived
<1>o. /\ NewerThan(m, i)
      /\ \A l \in Levels : \A f \in v[l] : NewerThan(m, f.ents) /\ NewerThan(i, f.ents)
      /\ \A f, g \in v[0] : f.num > g.num => NewerThan(f.ents, g.ents)
      /\ \A l, k \in Levels : l < k => \A f \in v[l], g \in v[k] : NewerThan(f.ents, g.ents)
  BY DEF Ordered, Layered
<1>i. \A l \in Levels : l \in Int
  BY DEF Levels
<1>n. \A l \in Levels : \A f \in v2[l] : f \in v[l] \/ (l = level + 1 /\ f \in O)
  BY <1>r
<1>1. ASSUME NEW A, \A r \in I \cup J : NewerThan(A, r.ents), NEW o \in O PROVE NewerThan(A, o.ents)
  BY <1>1, <1>d DEF NewerThan
<1>2. ASSUME NEW A, \A r \in I \cup J : NewerThan(r.ents, A), NEW o \in O PROVE NewerThan(o.ents, A)
  BY <1>2, <1>d DEF NewerThan
<1>3. ASSUME NEW l \in Levels, NEW f \in v2[l] PROVE NewerThan(m, f.ents) /\ NewerThan(i, f.ents)
  <2>1. CASE f \in v[l]
    BY <2>1, <1>o
  <2>2. CASE f \in O
    <3>1. \A r \in I \cup J : NewerThan(m, r.ents) /\ NewerThan(i, r.ents)
      BY <1>l, <1>t, <1>o
    <3> QED
      BY <3>1, <2>2, <1>1
  <2> QED
    BY <2>1, <2>2, <1>n
<1>4. v2[0] \subseteq v[0]
  BY <1>l, <1>r
<1>5. ASSUME NEW l \in Levels, NEW k \in Levels, l < k, NEW f \in v2[l], NEW g \in v2[k]
      PROVE  NewerThan(f.ents, g.ents)
  <2>0. l \in Int /\ k \in Int
    BY <1>i
  <2>1. CASE f \in v[l] /\ g \in v[k]
    BY <2>1, <1>5, <1>o
  <2>2. CASE f \notin v[l]
    <3>1. l = level + 1 /\ f \in O /\ level < k /\ level + 1 < k /\ k # level + 1
      BY <2>0, <2>2, <1>5, <1>l, <1>n
    <3>2. g \in v[k]
      BY <3>1, <1>n
    <3>3. \A r \in I \cup J : NewerThan(r.ents, g.ents)
      BY <3>1, <3>2, <1>l, <1>t, <1>o
    <3> QED
      BY <3>1, <3>3, <1>2
  <2>3. CASE f \in v[l] /\ g \notin v[k]
    <3>1. k = level + 1 /\ g \in O /\ l <= level
      BY <2>0, <2>3, <1>5, <1>l, <1>n
    <3>2. \A r \in J : NewerThan(f.ents, r.ents)
      BY <3>1, <2>3, <1>5, <1>l, <1>t, <1>o
    <3>3. \A r \in I : NewerThan(f.ents, r.ents)
      <4>1. CASE l = level
        <5>1. f \in v[level] \ I
          BY <4>1, <1>l, <1>r
        <5> QED
          BY <5>1, <1>t
      <4>2. CASE l # level
        <5>1. l < level
          BY <4>2, <3>1, <2>0, <1>l
        <5> QED
          BY <5>1, <2>3, <1>l, <1>t, <1>o
      <4> QED
        BY <4>1, <4>2
    <3> QED
      BY <3>1, <3>2, <3>3, <1>1
  <2> QED
    BY <2>1, <2>2, <2>3
<1> QED
  BY <1>3, <1>4, <1>5, <1>o DEF Ordered, Layered

\* Installing a compaction's outputs keeps every part of the invariant but ReadInv.
LEMMA ReplacedInv ==
  ASSUME LsmInv, NEW level, NEW I, NEW J, Takes(files, level, I, J), NEW O, Derived(I, J, O),
         Replaces(files, level, I, J, O, files'),
         last_sequence' = last_sequence, history' = history, mem' = mem, imm' = imm, snapshots' = snapshots,
         compact_pointer' \in [Levels -> {Null} \cup Entries], file_to_compact' = Null, compaction' = Null
  PROVE  LsmTypes' /\ SeekInv' /\ LevelsDisjoint' /\ LayersOrdered' /\ CompactionInv'
<1>t. /\ last_sequence \in 0..MaxSeq
      /\ history \subseteq Entries /\ mem \subseteq history /\ imm \subseteq history
      /\ files \in Versions
      /\ \A l \in Levels : \A g \in files[l] : g.ents \subseteq history
      /\ snapshots \subseteq 0..last_sequence
      /\ \A a, b \in history : a.seq = b.seq => a = b
      /\ \A a \in history : a.seq <= last_sequence
      /\ \A g, h \in files[0] : g.num = h.num => g = h
  BY DEF LsmInv, LsmTypes
<1>l. level \in 0..(NumLevels - 2) /\ level \in Levels /\ level + 1 \in Levels /\ level \in Int /\ level + 1 # level
      /\ level + 1 # 0 /\ 0 \in Levels
  BY NextLevel DEF Takes
<1>r. \A l \in Levels : files'[l] = IF l = level THEN files[l] \ I
                                    ELSE IF l = level + 1 THEN (files[l] \ J) \cup O ELSE files[l]
  BY DEF Replaces
<1>v. Leveled(files) /\ Leveled(files')
  <2>1. Leveled(files)
    BY InvProper DEF LsmInv
  <2> QED
    BY <2>1, ReplacedDisjoint
<1>1. \A l \in Levels : \A g \in files'[l] : g.ents \subseteq history
  <2> SUFFICES ASSUME NEW l \in Levels, NEW g \in files'[l] PROVE g.ents \subseteq history
    OBVIOUS
  <2>1. CASE g \in files[l]
    BY <2>1, <1>t
  <2>2. CASE g \notin files[l]
    <3>1. g \in O
      BY <2>2, <1>r
    <3>2. \A e \in g.ents : \E r \in I \cup J : e \in r.ents
      BY <3>1 DEF Derived
    <3>3. \A r \in I \cup J : r.ents \subseteq history
      BY <1>t, <1>l DEF Takes
    <3> QED
      BY <3>2, <3>3
  <2> QED
    BY <2>1, <2>2
<1>2. \A g, h \in files'[0] : g.num = h.num => g = h
  <2>1. files'[0] \subseteq files[0]
    BY <1>r, <1>l
  <2> QED
    BY <2>1, <1>t
<1>3. LsmTypes'
  <2>1. files' \in Versions
    BY <1>v DEF Leveled
  <2> QED
    BY <2>1, <1>t, <1>1, <1>2 DEF LsmTypes
<1>4. LevelsDisjoint'
  BY <1>v DEF Leveled, LevelsDisjoint, Disjoint
<1>5. LayersOrdered'
  <2>1. Ordered(mem, imm, files)
    BY LayersByFile DEF LsmInv
  <2>2. Ordered(mem, imm, files')
    BY <2>1, <1>t, ReplacedOrdered
  <2> QED
    BY <2>2, LayersByFile
<1>6. SeekInv' /\ CompactionInv'
  BY DEF SeekInv, CompactionInv
<1> QED
  BY <1>3, <1>4, <1>5, <1>6

\* The oldest snapshot bounds every live sequence number from below.
LEMMA SmallestSnapshotProps ==
  ASSUME LsmTypes
  PROVE  SmallestSnapshot \in Nat /\ \A s \in Live : SmallestSnapshot <= s
<1>1. last_sequence \in 0..MaxSeq /\ snapshots \subseteq 0..last_sequence /\ MaxSeq \in Nat
  BY Constants DEF LsmTypes
<1>2. CASE snapshots = {}
  BY <1>1, <1>2 DEF SmallestSnapshot, Live
<1>3. CASE snapshots # {}
  <2>1. snapshots \subseteq Nat
    BY <1>1
  <2>2. PICK m \in snapshots : \A x \in snapshots : m <= x
    BY <1>3, <2>1, LeastNat
  <2>3. SmallestSnapshot \in snapshots /\ \A x \in snapshots : SmallestSnapshot <= x
    BY <1>3, <2>2 DEF SmallestSnapshot, Min
  <2>4. SmallestSnapshot <= last_sequence /\ SmallestSnapshot \in Nat
    BY <2>3, <1>1
  <2> QED
    BY <2>3, <2>4 DEF Live
<1> QED
  BY <1>2, <1>3

\* A compaction that begins has taken inputs it may take.
LEMMA BeginInv ==
  ASSUME LsmInv, NEW c, Takes(files, c.level, c.in0, c.in1), c.largest \in Entries, Begin(c),
         last_sequence' = last_sequence, history' = history, mem' = mem, imm' = imm, snapshots' = snapshots
  PROVE  LsmInv'
<1>u. /\ compaction' = [level |-> c.level, in0 |-> c.in0, in1 |-> c.in1,
                        version |-> files, smallest_snapshot |-> SmallestSnapshot]
      /\ compact_pointer' = [compact_pointer EXCEPT ![c.level] = c.largest]
      /\ files' = files /\ file_to_compact' = file_to_compact
  BY DEF Begin
<1>s. SmallestSnapshot \in Nat /\ \A s \in Live : SmallestSnapshot <= s
  BY SmallestSnapshotProps DEF LsmInv
<1>1. LsmTypes'
  <2>1. compact_pointer' \in [Levels -> {Null} \cup Entries]
    BY <1>u DEF LsmInv, LsmTypes
  <2> QED
    BY <2>1, <1>u DEF LsmInv, LsmTypes
<1>2. SeekInv'
  BY <1>u DEF LsmInv, SeekInv
<1>3. LevelsDisjoint'
  BY <1>u DEF LsmInv, LevelsDisjoint
<1>4. LayersOrdered'
  BY <1>u, LayersByFile DEF LsmInv
<1>l. Live' = Live
  BY DEF Live
<1>5. CompactionInv'
  <2> DEFINE d == [level |-> c.level, in0 |-> c.in0, in1 |-> c.in1,
                   version |-> files, smallest_snapshot |-> SmallestSnapshot]
  <2>1. /\ d.level = c.level /\ d.in0 = c.in0 /\ d.in1 = c.in1 /\ d.version = files
        /\ d.smallest_snapshot = SmallestSnapshot
    OBVIOUS
  <2> HIDE DEF d
  <2>2. files \in Versions
    BY DEF LsmInv, LsmTypes
  <2>3. Running(d, files, Live)
    BY <2>1, <2>2, <1>s DEF Running
  <2>4. Running(compaction', files', Live')
    BY <2>3, <1>u, <1>l DEF d
  <2> QED
    BY <2>4 DEF CompactionInv
<1>6. ReadInv'
  BY <1>u, <1>l DEF LsmInv, ReadInv
<1> QED
  BY <1>1, <1>2, <1>3, <1>4, <1>5, <1>6 DEF LsmInv

\* Only what is stored matters for the account of the dropped updates.
LEMMA SameStored ==
  ASSUME ReadInv, history' = history, Live' = Live, Stored(files', mem', imm') = Stored(files, mem, imm)
  PROVE  ReadInv'
BY DEF ReadInv

\* Files moved to the next level are stored there.
LEMMA MovedStored ==
  ASSUME NEW v, NEW level \in Levels, level \in Int, level + 1 \in Levels, NEW I, I \subseteq v[level],
         NEW v2, Replaces(v, level, I, {}, I, v2), NEW m, NEW i
  PROVE  Stored(v2, m, i) = Stored(v, m, i)
<1>1. \A l \in Levels : v2[l] = IF l = level THEN v[l] \ I
                                ELSE IF l = level + 1 THEN (v[l] \ {}) \cup I ELSE v[l]
  BY DEF Replaces
<1>2. ASSUME NEW l \in Levels, NEW g \in v2[l] PROVE \E k \in Levels : g \in v[k]
  BY <1>1
<1>3. ASSUME NEW l \in Levels, NEW g \in v[l] PROVE \E k \in Levels : g \in v2[k]
  <2>1. CASE g \in I
    <3>1. level + 1 # level
      OBVIOUS
    <3>2. v2[level + 1] = (v[level + 1] \ {}) \cup I
      BY <3>1, <1>1
    <3> QED
      BY <2>1, <3>2
  <2>2. CASE g \notin I
    BY <2>2, <1>1
  <2> QED
    BY <2>1, <2>2
<1> QED
  BY <1>2, <1>3 DEF Stored

\* Moving the only input to the next level keeps the invariant.
LEMMA MoveInv ==
  ASSUME LsmInv, NEW c, Takes(files, c.level, c.in0, c.in1), c.largest \in Entries, TrivialMove(c),
         files' = [files EXCEPT ![c.level] = @ \ c.in0, ![c.level + 1] = @ \cup c.in0],
         compact_pointer' = [compact_pointer EXCEPT ![c.level] = c.largest],
         file_to_compact' = Null, compaction' = Null,
         last_sequence' = last_sequence, history' = history, mem' = mem, imm' = imm, snapshots' = snapshots
  PROVE  LsmInv'
<1>l. /\ c.level \in 0..(NumLevels - 2) /\ c.level \in Levels /\ c.level + 1 \in Levels
      /\ c.level \in Int /\ c.level + 1 # c.level
  BY NextLevel DEF Takes
<1>v. files \in Versions /\ files \in [Levels -> SUBSET Tables]
  BY DEF LsmInv, LsmTypes, Versions
<1>w. \A l \in Levels : files[l] \subseteq Tables /\ IsFiniteSet(files[l])
  BY <1>v, VersionLevel
<1>i. c.in0 \subseteq files[c.level] /\ c.in0 \subseteq Tables /\ IsFiniteSet(c.in0) /\ c.in1 = {}
  <2>1. c.in0 \subseteq files[c.level] /\ c.in1 = {}
    BY DEF Takes, TrivialMove
  <2> QED
    BY <2>1, <1>l, <1>w, FS_Subset
<1>o. \A f, g \in c.in0 : f = g
  <2>1. Cardinality(c.in0) = 1
    BY DEF TrivialMove
  <2>2. PICK x : c.in0 = {x}
    BY <2>1, <1>i, FS_Singleton
  <2> QED
    BY <2>2
<1>d. Derived(c.in0, c.in1, c.in0)
  BY <1>i, <1>o DEF Derived, Disjoint
<1>p. compact_pointer' \in [Levels -> {Null} \cup Entries]
  BY DEF LsmInv, LsmTypes
<1>r. Replaces(files, c.level, c.in0, c.in1, c.in0, files')
  BY <1>v, <1>l, <1>i DEF Replaces
<1>1. LsmTypes' /\ SeekInv' /\ LevelsDisjoint' /\ LayersOrdered' /\ CompactionInv'
  BY <1>d, <1>p, <1>r, ReplacedInv
<1>2. Stored(files', mem', imm') = Stored(files, mem, imm)
  <2>1. Replaces(files, c.level, c.in0, {}, c.in0, files')
    BY <1>r, <1>i
  <2> QED
    BY <2>1, <1>l, <1>i, MovedStored
<1>3. ReadInv'
  <2>1. Live' = Live
    BY DEF Live
  <2> QED
    BY <2>1, <1>2, SameStored DEF LsmInv
<1> QED
  BY <1>1, <1>3 DEF LsmInv

(* An output, from its first entry to the next output's.                   *)
Piece(K, starts, i) == {e \in K : AtOrBefore(i, e) /\ \A t \in starts : Before(i, t) => Before(e, t)}

\* The pieces of what a compaction keeps are not empty, lie in their order and leave nothing
\* out (the output loop of ldb_do_compaction_work).
LEMMA PieceProps ==
  ASSUME NEW K, K \subseteq Entries, \A a, b \in K : a.seq = b.seq => a = b, NEW starts, starts \subseteq K,
         K # {} => FirstKey(K) \in starts
  PROVE  /\ \A i \in starts : i \in Piece(K, starts, i) /\ Piece(K, starts, i) \subseteq K
         /\ \A i, j \in starts : i # j => Before(i, j) \/ Before(j, i)
         /\ \A i, j \in starts : Before(i, j) =>
              \A x \in Piece(K, starts, i), y \in Piece(K, starts, j) : Before(x, y)
         /\ \A e \in K : \E i \in starts : e \in Piece(K, starts, i)
<1>1. ASSUME NEW i \in starts PROVE i \in Piece(K, starts, i) /\ Piece(K, starts, i) \subseteq K
  <2>1. i \in Entries /\ i \in K
    OBVIOUS
  <2>2. AtOrBefore(i, i)
    BY <2>1, OrderTransitive
  <2> QED
    BY <2>1, <2>2 DEF Piece
<1>2. ASSUME NEW i \in starts, NEW j \in starts, i # j PROVE Before(i, j) \/ Before(j, i)
  <2>1. i \in Entries /\ j \in Entries /\ i.seq # j.seq
    BY <1>2
  <2> QED
    BY <2>1, EntryNumbers DEF Before
<1>3. ASSUME NEW i \in starts, NEW j \in starts, Before(i, j),
             NEW x \in Piece(K, starts, i), NEW y \in Piece(K, starts, j)
      PROVE  Before(x, y)
  <2>1. Before(x, j) /\ AtOrBefore(j, y) /\ x \in Entries /\ j \in Entries /\ y \in Entries
    BY <1>3 DEF Piece
  <2> QED
    BY <2>1, OrderTransitive
<1>4. ASSUME NEW e \in K PROVE \E i \in starts : e \in Piece(K, starts, i)
  <2> DEFINE S == {t \in starts : AtOrBefore(t, e)}
             i == LastKey(S)
  <2>1. S \subseteq Entries /\ S # {}
    <3>1. AtOrBefore(FirstKey(K), e) /\ FirstKey(K) \in starts
      BY FirstProps
    <3> QED
      BY <3>1
  <2>2. i \in S /\ \A x \in S : AtOrBefore(x, i)
    <3> HIDE DEF S
    <3> QED
      BY <2>1, LastProps
  <2> HIDE DEF i
  <2>3. ASSUME NEW t \in starts, Before(i, t) PROVE Before(e, t)
    <3>1. ~AtOrBefore(t, i)
      BY <2>3 DEF AtOrBefore
    <3>2. t \notin S
      BY <3>1, <2>2
    <3> QED
      BY <3>2 DEF AtOrBefore
  <2>4. e \in Piece(K, starts, i) /\ i \in starts
    BY <2>2, <2>3 DEF Piece
  <2> QED
    BY <2>4
<1> QED
  BY <1>1, <1>2, <1>3, <1>4

\* The outputs of a compaction hold exactly what it keeps, in files that do not overlap.
LEMMA OutputsProps ==
  ASSUME files \in Versions, NEW c, NEW h, h \subseteq Entries, \A a, b \in h : a.seq = b.seq => a = b,
         \A r \in c.in0 \cup c.in1 : r.ents \subseteq h,
         NEW starts, starts \subseteq Kept(c), Kept(c) # {} => FirstKey(Kept(c)) \in starts
  PROVE  /\ Derived(c.in0, c.in1, Outputs(c, starts))
         /\ \A o \in Outputs(c, starts) : o.ents \subseteq Kept(c)
         /\ \A e \in Kept(c) : \E o \in Outputs(c, starts) : e \in o.ents
<1> DEFINE K == Kept(c)
           N(i) == NextNumber + Cardinality({t \in starts : Before(t, i)})
           F(i) == NewFile(N(i), Piece(K, starts, i))
           O == Outputs(c, starts)
<1>k. K \subseteq h /\ \A e \in K : \E r \in c.in0 \cup c.in1 : e \in r.ents
  <2>1. \A e \in K : \E r \in c.in0 \cup c.in1 : e \in r.ents
    BY DEF Kept, Inputs
  <2> QED
    BY <2>1
<1>o. O = {F(i) : i \in starts}
  BY DEF Outputs, Piece
<1>s. starts \subseteq K /\ K \subseteq Entries /\ (K # {} => FirstKey(K) \in starts)
      /\ \A a, b \in K : a.seq = b.seq => a = b
  BY <1>k
<1> HIDE DEF K, O
<1>p. /\ \A i \in starts : i \in Piece(K, starts, i) /\ Piece(K, starts, i) \subseteq K
      /\ \A i, j \in starts : i # j => Before(i, j) \/ Before(j, i)
      /\ \A i, j \in starts : Before(i, j) =>
           \A x \in Piece(K, starts, i), y \in Piece(K, starts, j) : Before(x, y)
      /\ \A e \in K : \E i \in starts : e \in Piece(K, starts, i)
  BY <1>s, PieceProps
<1>n. ASSUME NEW i \in starts PROVE N(i) \in Nat
  <2>1. {t \in starts : Before(t, i)} \subseteq Entries
    BY <1>s
  <2>2. Cardinality({t \in starts : Before(t, i)}) \in Nat
    BY <2>1, EntriesFinite
  <2> QED
    BY <2>2, NextNumberProps
<1>f. ASSUME NEW i \in starts PROVE F(i) \in Tables /\ F(i).ents = Piece(K, starts, i)
  <2>1. N(i) \in Nat
    BY <1>n
  <2>2. Piece(K, starts, i) \subseteq Entries /\ Piece(K, starts, i) # {}
    BY <1>p, <1>s
  <2> HIDE DEF N
  <2> QED
    BY <2>1, <2>2, NewFileTable
<1> HIDE DEF N, F
<1>1. IsFiniteSet(O)
  <2> DEFINE g == [i \in starts |-> F(i)]
  <2>1. g \in Surjection(starts, O)
    BY <1>o DEF Surjection
  <2>2. IsFiniteSet(starts)
    BY <1>s, EntriesFinite
  <2> HIDE DEF g
  <2> QED
    BY <2>1, <2>2, FS_Surjection
<1>2. O \subseteq Tables
  BY <1>o, <1>f
<1>3. Disjoint(O)
  <2>1. ASSUME NEW i \in starts, NEW j \in starts, Before(i, j)
        PROVE  Before(F(i).largest, F(j).smallest)
    <3>1. F(i).largest \in F(i).ents /\ F(j).smallest \in F(j).ents
      BY <1>f, TableProps
    <3> QED
      BY <3>1, <2>1, <1>f, <1>p
  <2>2. ASSUME NEW i \in starts, NEW j \in starts, F(i) # F(j)
        PROVE  Before(F(i).largest, F(j).smallest) \/ Before(F(j).largest, F(i).smallest)
    <3>1. Before(i, j) \/ Before(j, i)
      BY <2>2, <1>p
    <3> QED
      BY <3>1, <2>1
  <2> QED
    BY <2>2, <1>o DEF Disjoint
<1>4. \A o \in O : o.ents \subseteq K
  BY <1>o, <1>f, <1>p
<1>5. \A e \in K : \E o \in O : e \in o.ents
  BY <1>o, <1>f, <1>p
<1>6. Derived(c.in0, c.in1, O)
  BY <1>1, <1>2, <1>3, <1>4, <1>k DEF Derived
<1> QED
  BY <1>4, <1>5, <1>6 DEF K, O

\* A compaction drops an entry only when a newer one hides it from every live sequence number,
\* or when it is a deletion marker under which nothing older is stored (rule (A) and the rule
\* for obsolete deletion markers).
LEMMA DroppedAccounted ==
  ASSUME NEW v, v \in Versions, NEW h, h \subseteq Entries, \A a, b \in h : a.seq = b.seq => a = b,
         \A l \in Levels : \A f \in v[l] : f.ents \subseteq h,
         NEW m, NEW i, m \subseteq h, i \subseteq h, Ordered(m, i, v),
         NEW live, live \subseteq Nat, NEW c, Running(c, v, live),
         NEW O, \A o \in O : o.ents \subseteq Kept(c),
         NEW v2, Replaces(v, c.level, c.in0, c.in1, O, v2),
         NEW e \in Inputs(c), Dropped(c, e)
  PROVE  Superseded(h, live, e) \/ Erased(Stored(v2, m, i), live, e)
<1>c. /\ Takes(v, c.level, c.in0, c.in1) /\ c.version \in Versions
      /\ \A l \in (c.level + 2)..(NumLevels - 1) : \A f \in v[l] \ c.version[l] :
           \A y \in c.in0 \cup c.in1 : ~Overlaps(f, y.smallest.key, y.largest.key)
      /\ c.smallest_snapshot \in Nat /\ \A s \in live : c.smallest_snapshot <= s
  BY DEF Running
<1>l. /\ c.level \in 0..(NumLevels - 2) /\ c.level \in Levels /\ c.level + 1 \in Levels
      /\ c.level \in Int /\ c.level + 1 # c.level
  BY <1>c, NextLevel DEF Takes
<1>t. c.in0 \subseteq v[c.level] /\ c.in1 \subseteq v[c.level + 1]
  BY <1>c DEF Takes
<1>v. \A l \in Levels : v[l] \subseteq Tables /\ c.version[l] \subseteq Tables
  BY <1>c, VersionLevel
<1>i. Inputs(c) \subseteq h
  <2>1. \A r \in c.in0 \cup c.in1 : r.ents \subseteq h
    BY <1>t, <1>l
  <2> QED
    BY <2>1 DEF Inputs
<1>s. ASSUME NEW n \in Int, n <= c.smallest_snapshot PROVE \A s \in live : n <= s
  BY <1>s, <1>c
<1>1. CASE \E x \in Inputs(c) : x.key = e.key /\ x.seq > e.seq /\ x.seq <= c.smallest_snapshot
  <2>1. PICK x \in Inputs(c) : x.key = e.key /\ x.seq > e.seq /\ x.seq <= c.smallest_snapshot
    BY <1>1
  <2>2. x \in h /\ x.seq \in Int /\ e.seq \in Int
    BY <1>i, EntryNumbers
  <2>3. \A s \in live : x.seq <= s
    BY <2>1, <2>2, <1>s
  <2>4. e.seq < x.seq
    BY <2>1, <2>2
  <2> QED
    BY <2>1, <2>2, <2>3, <2>4 DEF Superseded
<1>2. CASE e.del /\ e.seq <= c.smallest_snapshot /\ IsBaseLevelForKey(c, e.key)
  <2>e. e \in h /\ e \in Entries /\ e.seq \in Int /\ e.key \in Int
    BY <1>i, EntryNumbers
  <2>r. PICK r \in c.in0 \cup c.in1 : e \in r.ents
    BY DEF Inputs
  <2>R. r \in Tables /\ r.smallest.key <= e.key /\ e.key <= r.largest.key
        /\ r.smallest \in Entries /\ r.largest \in Entries /\ AtOrBefore(r.smallest, e)
    <3>1. r \in Tables
      BY <1>t, <1>l, <1>v
    <3> QED
      BY <3>1, <2>r, TableProps
  <2>1. \A s \in live : e.seq <= s
    BY <1>2, <2>e, <1>s
  <2>2. ASSUME NEW x \in Stored(v2, m, i), x.key = e.key PROVE e.seq < x.seq
    <3>x. x \in Entries /\ x.seq \in Int /\ x.key \in Int
      BY EntryNumbers DEF Stored
    <3>1. CASE x \in m \/ x \in i
      <4>1. NewerThan(m, r.ents) /\ NewerThan(i, r.ents)
        BY <1>t, <1>l, <2>r DEF Ordered
      <4>2. x.seq > e.seq
        BY <3>1, <4>1, <2>r, <2>2 DEF NewerThan
      <4> QED
        BY <4>2, <3>x, <2>e
    <3>2. CASE \E l \in Levels : \E g \in v2[l] : x \in g.ents
      <4>1. PICK l \in Levels : \E g \in v2[l] : x \in g.ents
        BY <3>2
      <4>2. PICK g \in v2[l] : x \in g.ents
        BY <4>1
      <4>i. l \in Int /\ 0 <= l /\ l <= NumLevels - 1
        BY Constants DEF Levels
      <4>3. /\ g \in v[l] \/ (l = c.level + 1 /\ g \in O)
            /\ l = c.level => g \notin c.in0
            /\ l = c.level + 1 => g \notin c.in1 \/ g \in O
        <5>1. v2[l] = IF l = c.level THEN v[l] \ c.in0
                      ELSE IF l = c.level + 1 THEN (v[l] \ c.in1) \cup O ELSE v[l]
          BY DEF Replaces
        <5> QED
          BY <5>1, <1>l
      <4>n. ASSUME NewerThan(g.ents, r.ents) PROVE e.seq < x.seq
        <5>1. x.seq > e.seq
          BY <4>n, <4>2, <2>r, <2>2 DEF NewerThan
        <5> QED
          BY <5>1, <3>x, <2>e
      <4>y. \A a, b \in Levels : a < b => \A f \in v[a], k \in v[b] : NewerThan(f.ents, k.ents)
        BY DEF Ordered, Layered
      <4>4. CASE l = c.level + 1 /\ g \in O
        <5>1. x \in Kept(c)
          BY <4>4, <4>2
        <5>2. x \in Inputs(c) /\ ~Dropped(c, x)
          BY <5>1 DEF Kept
        <5>3. x # e
          BY <5>2
        <5>4. x.seq # e.seq
          BY <5>2, <5>3, <1>i
        <5>5. ~(e.seq > x.seq)
          BY <5>2, <1>2, <2>2 DEF Dropped
        <5> QED
          BY <5>4, <5>5, <3>x, <2>e
      <4>5. CASE l < c.level /\ g \in v[l]
        <5>1. NewerThan(g.ents, r.ents)
          <6>1. CASE r \in c.in0
            BY <6>1, <4>5, <4>y, <1>t, <1>l
          <6>2. CASE r \in c.in1
            <7>1. l < c.level + 1
              BY <4>5, <4>i, <1>l
            <7> QED
              BY <7>1, <6>2, <4>5, <4>y, <1>t, <1>l
          <6> QED
            BY <6>1, <6>2
        <5> QED
          BY <5>1, <4>n
      <4>6. CASE l = c.level /\ g \in v[l]
        <5>1. g \in v[c.level] \ c.in0
          BY <4>6, <4>3
        <5>2. NewerThan(g.ents, r.ents)
          <6>1. CASE r \in c.in0
            BY <6>1, <5>1, <1>c DEF Takes
          <6>2. CASE r \in c.in1
            <7>1. c.level < c.level + 1
              BY <1>l
            <7> QED
              BY <7>1, <6>2, <5>1, <4>y, <1>t, <1>l
          <6> QED
            BY <6>1, <6>2
        <5> QED
          BY <5>2, <4>n
      <4>7. CASE l = c.level + 1 /\ g \in v[l] /\ g \notin O
        <5>1. g \in v[c.level + 1] \ c.in1
          BY <4>7, <4>3
        <5>2. Split(g, c.in0 \cup c.in1)
          BY <5>1, <1>c DEF Takes
        <5>3. g \in Tables /\ g.smallest \in Entries /\ g.largest \in Entries
              /\ AtOrBefore(x, g.largest) /\ g.smallest.key <= x.key
          BY <5>1, <1>l, <1>v, <4>2, TableProps
        <5>4. CASE Before(g.largest, r.smallest)
          <6>1. Before(x, e)
            <7>1. Before(x, r.smallest)
              BY <5>3, <5>4, <3>x, <2>R, OrderTransitive
            <7> QED
              BY <7>1, <3>x, <2>R, <2>e, OrderTransitive
          <6> QED
            BY <6>1, <2>2, <3>x, <2>e DEF Before
        <5>5. CASE r.largest.key < g.smallest.key
          <6>1. r.largest.key \in Int /\ g.smallest.key \in Int
            BY <5>3, <2>R, EntryNumbers
          <6> QED
            BY <6>1, <5>3, <5>5, <2>R, <2>2, <3>x, <2>e
        <5> QED
          BY <5>2, <5>4, <5>5, <2>r DEF Split
      <4>8. CASE l > c.level + 1 /\ g \in v[l]
        <5>1. l \in (c.level + 2)..(NumLevels - 1)
          BY <4>8, <4>i, <1>l, Constants
        <5>2. g \in Tables /\ g.smallest \in Entries /\ g.largest \in Entries
              /\ g.smallest.key <= x.key /\ x.key <= g.largest.key
          BY <4>8, <1>v, <4>2, TableProps
        <5>n. g.smallest.key \in Int /\ g.largest.key \in Int /\ r.smallest.key \in Int /\ r.largest.key \in Int
          BY <5>2, <2>R, EntryNumbers
        <5>3. CASE g \in c.version[l]
          <6>1. ~Overlaps(g, e.key, e.key)
            BY <5>1, <5>3, <1>2 DEF IsBaseLevelForKey, OverlapInLevel
          <6> QED
            BY <6>1, <5>2, <5>n, <2>2, <2>e DEF Overlaps
        <5>4. CASE g \notin c.version[l]
          <6>1. ~Overlaps(g, r.smallest.key, r.largest.key)
            BY <5>1, <5>4, <4>8, <1>c, <2>r
          <6> QED
            BY <6>1, <5>2, <5>n, <2>R, <2>2, <2>e DEF Overlaps
        <5> QED
          BY <5>3, <5>4
      <4> QED
        BY <4>3, <4>4, <4>5, <4>6, <4>7, <4>8, <4>i, <1>l
    <3> QED
      BY <3>1, <3>2 DEF Stored
  <2> QED
    BY <1>2, <2>1, <2>2 DEF Erased
<1> QED
  BY <1>1, <1>2 DEF Dropped

\* An entry that was stored and is no longer has been dropped by the compaction.
LEMMA GoneDropped ==
  ASSUME NEW v, NEW c, Takes(v, c.level, c.in0, c.in1),
         NEW O, \A e \in Kept(c) : \E o \in O : e \in o.ents,
         NEW v2, Replaces(v, c.level, c.in0, c.in1, O, v2),
         NEW m, NEW i, NEW e \in Stored(v, m, i), e \notin Stored(v2, m, i)
  PROVE  e \in Inputs(c) /\ Dropped(c, e)
<1>l. /\ c.level \in Levels /\ c.level + 1 \in Levels /\ c.level \in Int /\ c.level + 1 # c.level
  BY NextLevel DEF Takes
<1>r. \A l \in Levels : v2[l] = IF l = c.level THEN v[l] \ c.in0
                                ELSE IF l = c.level + 1 THEN (v[l] \ c.in1) \cup O ELSE v[l]
  BY DEF Replaces
<1>1. e \in Entries /\ e \notin m /\ e \notin i /\ \A l \in Levels : \A g \in v2[l] : e \notin g.ents
  BY DEF Stored
<1>2. PICK l \in Levels : \E g \in v[l] : e \in g.ents
  BY <1>1 DEF Stored
<1>3. PICK g \in v[l] : e \in g.ents
  BY <1>2
<1>4. g \notin v2[l]
  BY <1>1, <1>3
<1>5. g \in c.in0 \cup c.in1
  <2>1. v2[l] = IF l = c.level THEN v[l] \ c.in0
                ELSE IF l = c.level + 1 THEN (v[l] \ c.in1) \cup O ELSE v[l]
    BY <1>r
  <2> QED
    BY <2>1, <1>4
<1>6. e \in Inputs(c)
  BY <1>3, <1>5 DEF Inputs
<1>7. O \subseteq v2[c.level + 1]
  BY <1>l, <1>r
<1>8. \A o \in O : e \notin o.ents
  BY <1>1, <1>7, <1>l
<1> QED
  BY <1>6, <1>8 DEF Kept

\* The outputs store nothing the inputs did not.
LEMMA ReplacedStored ==
  ASSUME NEW v, NEW level, NEW I, NEW J, Takes(v, level, I, J), NEW O, Derived(I, J, O),
         NEW v2, Replaces(v, level, I, J, O, v2), NEW m, NEW i
  PROVE  Stored(v2, m, i) \subseteq Stored(v, m, i)
<1>l. level \in Levels /\ level + 1 \in Levels
  BY NextLevel DEF Takes
<1>1. ASSUME NEW l \in Levels, NEW g \in v2[l], NEW e \in g.ents
      PROVE  \E k \in Levels : \E f \in v[k] : e \in f.ents
  <2>1. v2[l] = IF l = level THEN v[l] \ I
                ELSE IF l = level + 1 THEN (v[l] \ J) \cup O ELSE v[l]
    BY DEF Replaces
  <2>2. CASE g \in v[l]
    BY <2>2
  <2>3. CASE g \notin v[l]
    <3>1. g \in O
      BY <2>1, <2>3
    <3>2. PICK r \in I \cup J : e \in r.ents
      BY <3>1 DEF Derived
    <3>3. r \in v[level] \/ r \in v[level + 1]
      BY DEF Takes
    <3> QED
      BY <3>2, <3>3, <1>l
  <2> QED
    BY <2>2, <2>3
<1> QED
  BY <1>1 DEF Stored

\* Installing a compaction keeps the invariant.
LEMMA InstallInv ==
  ASSUME LsmInv, InstallCompaction
  PROVE  LsmInv'
<1> DEFINE c == compaction
<1>u. /\ compaction # Null /\ compaction' = Null /\ file_to_compact' = Null
      /\ last_sequence' = last_sequence /\ history' = history /\ mem' = mem /\ imm' = imm
      /\ snapshots' = snapshots /\ compact_pointer' = compact_pointer
  BY DEF InstallCompaction
<1>s. PICK starts \in SUBSET Kept(c) :
        /\ Kept(c) # {} => FirstKey(Kept(c)) \in starts
        /\ files' = [DeleteInputs(c) EXCEPT ![c.level + 1] = @ \cup Outputs(c, starts)]
  BY DEF InstallCompaction
<1>c. Running(c, files, Live)
  BY <1>u DEF LsmInv, CompactionInv
<1> HIDE DEF c
<1> DEFINE O == Outputs(c, starts)
<1>t. /\ history \subseteq Entries /\ mem \subseteq history /\ imm \subseteq history
      /\ files \in Versions
      /\ \A l \in Levels : \A g \in files[l] : g.ents \subseteq history
      /\ compact_pointer \in [Levels -> {Null} \cup Entries]
      /\ \A a, b \in history : a.seq = b.seq => a = b
  BY DEF LsmInv, LsmTypes
<1>k. Takes(files, c.level, c.in0, c.in1)
  BY <1>c DEF Running
<1>l. /\ c.level \in Levels /\ c.level + 1 \in Levels /\ c.level \in Int /\ c.level + 1 # c.level
  BY <1>k, NextLevel DEF Takes
<1>o. /\ Derived(c.in0, c.in1, O)
      /\ \A o \in O : o.ents \subseteq Kept(c)
      /\ \A e \in Kept(c) : \E o \in O : e \in o.ents
  <2>1. \A r \in c.in0 \cup c.in1 : r.ents \subseteq history
    BY <1>k, <1>l, <1>t DEF Takes
  <2>2. starts \subseteq Kept(c) /\ (Kept(c) # {} => FirstKey(Kept(c)) \in starts)
    BY <1>s
  <2> QED
    BY <2>1, <2>2, <1>t, OutputsProps
<1> HIDE DEF O
<1>r. Replaces(files, c.level, c.in0, c.in1, O, files')
  <2>1. files \in [Levels -> SUBSET Tables]
    BY <1>t DEF Versions
  <2>2. files' = [[files EXCEPT ![c.level] = @ \ c.in0, ![c.level + 1] = @ \ c.in1]
                    EXCEPT ![c.level + 1] = @ \cup O]
    BY <1>s DEF O, DeleteInputs
  <2> QED
    BY <2>1, <2>2, <1>l DEF Replaces
<1>1. LsmTypes' /\ SeekInv' /\ LevelsDisjoint' /\ LayersOrdered' /\ CompactionInv'
  BY <1>k, <1>o, <1>r, <1>u, <1>t, ReplacedInv
<1>2. ReadInv'
  <2> DEFINE st == Stored(files, mem, imm)
             st2 == Stored(files', mem, imm)
  <2>a. Accounted(history, st, Live)
    BY DEF LsmInv, ReadInv
  <2>b. st2 \subseteq st
    BY <1>k, <1>o, <1>r, ReplacedStored
  <2>n. Live \subseteq Nat
    BY LiveNumbers DEF LsmInv
  <2>y. Ordered(mem, imm, files)
    BY LayersByFile DEF LsmInv
  <2>1. ASSUME NEW e \in history \ st2
        PROVE  Superseded(history, Live, e) \/ Erased(st2, Live, e)
    <3>1. CASE e \notin st
      <4>1. Superseded(history, Live, e) \/ Erased(st, Live, e)
        BY <2>a, <3>1 DEF Accounted
      <4>2. Erased(st, Live, e) => Erased(st2, Live, e)
        <5> HIDE DEF st, st2
        <5> QED
          BY <2>b DEF Erased
      <4> QED
        BY <4>1, <4>2
    <3>2. CASE e \in st
      <4>1. e \in Inputs(c) /\ Dropped(c, e)
        BY <3>2, <2>1, <1>k, <1>o, <1>r, GoneDropped
      <4> QED
        BY <4>1, <1>t, <1>c, <1>o, <1>r, <2>n, <2>y, DroppedAccounted
    <3> QED
      BY <3>1, <3>2
  <2>2. Accounted(history, st2, Live)
    BY <2>1 DEF Accounted
  <2>3. Live' = Live
    BY <1>u DEF Live
  <2> QED
    BY <2>2, <2>3, <1>u DEF ReadInv
<1> QED
  BY <1>1, <1>2 DEF LsmInv

\* A compaction picked by size or by seeks keeps the invariant.
LEMMA AutoInv ==
  ASSUME LsmInv, AutoCompaction
  PROVE  LsmInv'
<1> DEFINE c == PickCompaction(files)
<1>u. /\ compaction = Null /\ NeedsCompaction(files)
      /\ last_sequence' = last_sequence /\ history' = history /\ mem' = mem /\ imm' = imm
      /\ snapshots' = snapshots
      /\ IF TrivialMove(c)
         THEN /\ files' = [files EXCEPT ![c.level] = @ \ c.in0, ![c.level + 1] = @ \cup c.in0]
              /\ compact_pointer' = [compact_pointer EXCEPT ![c.level] = c.largest]
              /\ file_to_compact' = Null
              /\ compaction' = compaction
         ELSE Begin(c)
  BY DEF AutoCompaction
<1>1. Takes(files, c.level, c.in0, c.in1) /\ c.largest \in Entries
  BY <1>u, InvProper, PickCompactionProps DEF LsmInv
<1> HIDE DEF c
<1>2. CASE TrivialMove(c)
  <2>1. compaction' = Null
    BY <1>2, <1>u
  <2> QED
    BY <2>1, <1>1, <1>2, <1>u, MoveInv
<1>3. CASE ~TrivialMove(c)
  BY <1>1, <1>3, <1>u, BeginInv
<1> QED
  BY <1>2, <1>3

\* A manual compaction keeps the invariant when memtables go to level 0 only.
LEMMA ManualInv ==
  ASSUME LsmInv, MaxMemLevel = 0, NEW level \in 0..(NumLevels - 2), NEW b \in Keys, NEW e \in Keys,
         ManualCompaction(level, b, e)
  PROVE  LsmInv'
<1> DEFINE c == PickRange(files, level, b, e)
<1>u. /\ b <= e /\ OverlapInLevel(files, level, b, e) /\ Begin(c)
      /\ last_sequence' = last_sequence /\ history' = history /\ mem' = mem /\ imm' = imm
      /\ snapshots' = snapshots
  BY DEF ManualCompaction
<1>1. Leveled(files)
  BY InvProper DEF LsmInv
<1>2. Takes(files, c.level, c.in0, c.in1) /\ c.largest \in Entries
  BY <1>1, <1>u, PickRangeProps
<1> HIDE DEF c
<1> QED
  BY <1>2, <1>u, BeginInv

-----------------------------------------------------------------------------
(* The theorems.  Without manual compactions they hold for every setting;  *)
(* with them, for memtables flushed to level 0 only.                       *)

\* A step that changes nothing keeps the invariant.
LEMMA StutterInv ==
  ASSUME LsmInv, UNCHANGED vars
  PROVE  LsmInv'
BY LayersByFile
   DEF vars, LsmInv, LsmTypes, SeekInv, LevelsDisjoint, CompactionInv, ReadInv, Live

\* Every step keeps the invariant.
LEMMA NextInv ==
  ASSUME ~Manual \/ MaxMemLevel = 0, LsmInv, [Next]_vars
  PROVE  LsmInv'
<1>1. CASE \E k \in Keys, del \in Tags : Write(k, del)
  BY <1>1, WriteInv
<1>2. CASE SwitchMemtable
  BY <1>2, SwitchInv
<1>3. CASE TakeSnapshot \/ ReleaseSnapshot
  BY <1>3, SnapshotInv
<1>4. CASE \E k \in Keys : ChargeSeek(k)
  BY <1>4, SeekChargeInv
<1>10. CASE \E e \in history : RecordReadSample(e)
  BY <1>10, SampleInv
<1>5. CASE CompactMemtable
  BY <1>5, FlushInv
<1>6. CASE AutoCompaction
  BY <1>6, AutoInv
<1>7. CASE \E level \in 0..(NumLevels - 2), b \in Keys, e \in Keys : ManualCompaction(level, b, e)
  <2>1. PICK level \in 0..(NumLevels - 2), b \in Keys, e \in Keys : ManualCompaction(level, b, e)
    BY <1>7
  <2>2. MaxMemLevel = 0
    BY <2>1 DEF ManualCompaction
  <2> QED
    BY <2>1, <2>2, ManualInv
<1>8. CASE InstallCompaction
  BY <1>8, InstallInv
<1>9. CASE UNCHANGED vars
  BY <1>9, StutterInv
<1> QED
  BY <1>1, <1>2, <1>3, <1>4, <1>5, <1>6, <1>7, <1>8, <1>9, <1>10 DEF Next

\* The invariant holds in every reachable state.
LEMMA InvHolds ==
  ASSUME ~Manual \/ MaxMemLevel = 0
  PROVE  Spec => []LsmInv
<1>1. Init => LsmInv
  BY InitInv
<1>2. LsmInv /\ [Next]_vars => LsmInv'
  BY NextInv
<1> QED
  BY <1>1, <1>2, PTL DEF Spec

\* The invariant types every variable.
LEMMA InvTypes ==
  ASSUME LsmInv
  PROVE  TypeOK
<1>t. /\ last_sequence \in 0..MaxSeq
      /\ history \subseteq Entries /\ mem \subseteq history /\ imm \subseteq history
      /\ files \in Versions
      /\ snapshots \subseteq 0..last_sequence
      /\ compact_pointer \in [Levels -> {Null} \cup Entries]
  BY DEF LsmInv, LsmTypes
<1>1. \A l \in Levels : \A f \in files[l] : f.num \in Nat /\ f.ents # {} /\ f.ents \subseteq Entries
  <2>1. \A l \in Levels : files[l] \subseteq Tables
    BY <1>t, VersionLevel
  <2> QED
    BY <2>1, TableProps
<1>2. snapshots \subseteq 0..MaxSeq
  BY <1>t, Constants
<1>3. \A l \in Levels : compact_pointer[l] = Null \/ compact_pointer[l] \in Entries
  BY <1>t
<1>4. file_to_compact = Null \/ file_to_compact.level \in 0..(NumLevels - 2)
  BY DEF LsmInv, SeekInv
<1>5. compaction = Null \/ compaction.level \in 0..(NumLevels - 2)
  BY DEF LsmInv, CompactionInv, Running, Takes
<1> QED
  BY <1>t, <1>1, <1>2, <1>3, <1>4, <1>5 DEF TypeOK

\* Every variable keeps its type, whatever is written, flushed and compacted.
THEOREM LsmTypeCorrect ==
  ASSUME ~Manual \/ MaxMemLevel = 0
  PROVE  Spec => []TypeOK
<1>1. LsmInv => TypeOK
  BY InvTypes
<1> QED
  BY <1>1, InvHolds, PTL

\* "Make sure there is no overlap in levels > 0": no flush, move or compaction puts two
\* overlapping files into a level that ldb_version_get searches by binary search.
THEOREM LevelsStayDisjoint ==
  ASSUME ~Manual \/ MaxMemLevel = 0
  PROVE  Spec => []LevelsDisjoint
<1>1. LsmInv => LevelsDisjoint
  BY DEF LsmInv
<1> QED
  BY <1>1, InvHolds, PTL

\* A lookup may stop at the first layer that has its key: memtables, level-0 files by number
\* and levels stay ordered by age through every flush, move and compaction.
THEOREM LayersStayOrdered ==
  ASSUME ~Manual \/ MaxMemLevel = 0
  PROVE  Spec => []LayersOrdered
<1>1. LsmInv => LayersOrdered
  BY DEF LsmInv
<1> QED
  BY <1>1, InvHolds, PTL

\* ldb_get at the last sequence number or at a live snapshot answers what the whole history
\* of writes answers, although compactions drop entries and deletion markers.
THEOREM ReadsSeeHistory ==
  ASSUME ~Manual \/ MaxMemLevel = 0
  PROVE  Spec => []ReadsAgree
<1>1. LsmInv => ReadsAgree
  BY InvReads
<1> QED
  BY <1>1, InvHolds, PTL
=============================================================================
