--------------------------- MODULE StlContainers ---------------------------
(***************************************************************************)
(* The containers of src/stl, each against the mathematical object it      *)
(* stands for: the queue, array, heap, list and ring buffer, and the       *)
(* dictionary, set, trie and Bloom filter.  One container is created and   *)
(* then used; allocations may fail where the code looks at their result.   *)
(***************************************************************************)
EXTENDS Integers, Sequences, FiniteSets, TLC

CONSTANTS StKeys,      \* keys of the dictionary and the trie: sequences of characters
          StValues,    \* elements of sets and lists, keys of heaps: positive integers
          StPrimes,    \* set_primes
          StBuckets,   \* max_count of a dictionary
          StBits,      \* table_size of a Bloom filter
          StRing,      \* size of a ring buffer, a power of two
          StMaxOps     \* bound: operations

VARIABLES st_kind,     \* which container
          st_obj,      \* the container
          st_ref,      \* ghost: what it stands for
          st_ops,      \* operations done
          st_void      \* ghost: a call after which the container promises nothing

stVars == <<st_kind, st_obj, st_ref, st_ops, st_void>>

Dropped(s, i) == SubSeq(s, 1, i - 1) \o SubSeq(s, i + 1, Len(s))

----------------------------------------------------------------------------
(* Queue: a ring whose capacity is a power of two and grows when it is     *)
(* full but one.  Cells are numbered from 0.                               *)

\* queue_alloc: the next power of two, at least four.
NextPower(n) == CHOOSE p \in {4, 8, 16, 32} : p >= n /\ (p = 4 \/ p \div 2 < n)

\* stl_queue_init; capacity 0 is the shared empty queue.
QueueInit(cap) ==
  LET p == IF cap = 0 THEN 1 ELSE NextPower(cap)
  IN [cap |-> p, first |-> 0, last |-> 0, elems |-> [i \in 0..p - 1 |-> 0], empty |-> cap = 0]

QueueFull(q) == (q.last + 1) % q.cap = q.first

\* stl_queue_expand: what wrapped round is moved behind what did not.
QueueExpand(q) ==
  IF ~QueueFull(q) THEN q
  ELSE IF q.empty THEN QueueInit(4)
  ELSE LET count == q.cap - q.first
       IN [cap |-> 2 * q.cap, first |-> 0, last |-> q.cap - 1, empty |-> FALSE,
           elems |-> [i \in 0..2 * q.cap - 1 |->
                        IF i < count THEN q.elems[q.first + i]
                        ELSE IF i < q.cap THEN q.elems[i - count]
                        ELSE IF i < q.cap + count THEN q.elems[i - q.cap + q.first] ELSE 0]]

\* stl_queue_add_last, stl_queue_inc_last
QueueAddLast(q, x) ==
  LET e == QueueExpand(q)
  IN [e EXCEPT !.elems[e.last] = x, !.last = (e.last + 1) % e.cap]

\* stl_queue_add_first, stl_queue_dec_first
QueueAddFirst(q, x) ==
  LET e == QueueExpand(q)
      f == (e.first - 1) % e.cap
  IN [e EXCEPT !.elems[f] = x, !.first = f]

\* stl_queue_del_first, stl_queue_inc_first
QueueDelFirst(q) == [q EXCEPT !.first = (@ + 1) % q.cap]

\* stl_queue_del_last, stl_queue_dec_last
QueueDelLast(q) == [q EXCEPT !.last = (@ - 1) % q.cap]

\* stl_queue_size, stl_queue_at
QueueContents(q) == [i \in 1..(q.last - q.first) % q.cap |-> q.elems[(q.first + i - 1) % q.cap]]

\* One call that adds and has its memory, or removes.
QueueChange(x) ==
  \/ st_obj' = QueueAddLast(st_obj, x) /\ st_ref' = Append(st_ref, x)
  \/ st_obj' = QueueAddFirst(st_obj, x) /\ st_ref' = <<x>> \o st_ref
  \/ st_ref # <<>> /\ st_obj' = QueueDelFirst(st_obj) /\ st_ref' = Tail(st_ref)
  \/ st_ref # <<>> /\ st_obj' = QueueDelLast(st_obj) /\ st_ref' = Dropped(st_ref, Len(st_ref))

\* A full queue that cannot grow stays as it was, unless it is the shared empty one:
\* its first growth is a stl_queue_init, which leaves the caller a NULL handle.
QueueGrowFailed ==
  /\ QueueFull(st_obj)
  /\ st_void' = st_obj.empty
  /\ UNCHANGED <<st_obj, st_ref>>

QueueCall(x) == (QueueChange(x) /\ UNCHANGED st_void) \/ QueueGrowFailed

----------------------------------------------------------------------------
(* Array.                                                                  *)

\* stl_array_init
ArrayInit(cap) == [size |-> 0, cap |-> cap, elems |-> <<>>]

\* stl_array_expand
ArrayExpand(a) ==
  IF a.size # a.cap THEN a ELSE [a EXCEPT !.cap = IF @ = 0 THEN 2 ELSE 2 * @]

\* stl_array_add: the cell behind the last one is written.
ArrayAdd(a, x) ==
  LET e == ArrayExpand(a)
  IN [e EXCEPT !.size = @ + 1, !.elems = SubSeq(@, 1, e.size) \o <<x>>]

\* stl_array_del, stl_array_del_unordered, stl_array_del_last
ArrayDel(a, i) == [a EXCEPT !.size = @ - 1, !.elems = Dropped(@, i)]
ArrayDelUnordered(a, i) == [a EXCEPT !.elems[i] = a.elems[a.size], !.size = @ - 1]
ArrayDelLast(a) == [a EXCEPT !.size = @ - 1]

ArrayCall(x) ==
  \/ st_obj' = ArrayAdd(st_obj, x) /\ st_ref' = Append(st_ref, x)
  \/ st_obj.size = st_obj.cap /\ UNCHANGED <<st_obj, st_ref>>
  \/ \E i \in 1..st_obj.size : st_obj' = ArrayDel(st_obj, i) /\ st_ref' = Dropped(st_ref, i)
  \/ \E i \in 1..st_obj.size :
       /\ st_obj' = ArrayDelUnordered(st_obj, i)
       /\ st_ref' = Dropped([st_ref EXCEPT ![i] = st_ref[Len(st_ref)]], Len(st_ref))
  \/ st_obj.size > 0 /\ st_obj' = ArrayDelLast(st_obj) /\ st_ref' = Dropped(st_ref, Len(st_ref))

----------------------------------------------------------------------------
(* Heap: the smallest key at index 1.                                      *)

\* stl_heap_init
HeapInit(cap) == [size |-> 0, cap |-> cap, elems |-> <<>>]

Stored(h, i, x) == [h EXCEPT !.elems = (i :> x) @@ @]

RECURSIVE SiftUp(_, _, _)
SiftUp(h, i, x) ==
  IF i # 1 /\ x[1] < h.elems[i \div 2][1]
  THEN SiftUp(Stored(h, i, h.elems[i \div 2]), i \div 2, x) ELSE Stored(h, i, x)

\* stl_heap_add: size grows before the allocation is tried.
HeapAdd(h, x) ==
  LET s == [h EXCEPT !.size = @ + 1]
      e == IF s.size >= s.cap THEN [s EXCEPT !.cap = IF @ # 0 THEN 2 * @ ELSE 4] ELSE s
  IN SiftUp(e, e.size, x)

HeapAddFailed(h) == [h EXCEPT !.size = @ + 1]

RECURSIVE SiftDown(_, _, _, _)
SiftDown(h, i, child, last) ==
  LET c == IF child < h.size /\ h.elems[child][1] > h.elems[child + 1][1]
           THEN child + 1 ELSE child
  IN IF child > h.size \/ last[1] <= h.elems[c][1] THEN Stored(h, i, last)
     ELSE SiftDown(Stored(h, i, h.elems[c]), c, 2 * c, last)

\* stl_heap_pop
HeapPop(h) == SiftDown([h EXCEPT !.size = @ - 1], 1, 2, h.elems[h.size])

\* A heap whose add failed counts an element that was never written.
HeapCall(x) ==
  \/ /\ st_obj' = HeapAdd(st_obj, <<x, st_ops>>) /\ st_ref' = st_ref \cup {<<x, st_ops>>}
     /\ UNCHANGED st_void
  \/ /\ st_obj.size + 1 >= st_obj.cap
     /\ st_obj' = HeapAddFailed(st_obj) /\ st_void' = TRUE /\ UNCHANGED st_ref
  \/ /\ st_obj.size > 0
     /\ st_obj' = HeapPop(st_obj) /\ st_ref' = st_ref \ {st_obj.elems[1]} /\ UNCHANGED st_void

----------------------------------------------------------------------------
(* List: circular and intrusive; 0 is the list's own node.                 *)

\* stl_list_init, for the list and each element
ListInit == [next |-> [n \in StValues \cup {0} |-> n], prev |-> [n \in StValues \cup {0} |-> n]]

\* stl_list_del
ListDel(l, e) ==
  LET m == [next |-> [l.next EXCEPT ![l.prev[e]] = l.next[e]],
            prev |-> [l.prev EXCEPT ![l.next[e]] = l.prev[e]]]
  IN [next |-> [m.next EXCEPT ![e] = e], prev |-> [m.prev EXCEPT ![e] = e]]

\* stl_list_add_after, stl_list_add_head: an element that is in the list is taken out first.
ListAddAfter(l, at, e) ==
  LET d == ListDel(l, e)
      n == d.next[at]
  IN [next |-> [d.next EXCEPT ![at] = e, ![e] = n], prev |-> [d.prev EXCEPT ![e] = at, ![n] = e]]

\* stl_list_add_before, stl_list_add_tail
ListAddBefore(l, at, e) ==
  LET d == ListDel(l, e)
      p == d.prev[at]
  IN [prev |-> [d.prev EXCEPT ![at] = e, ![e] = p], next |-> [d.next EXCEPT ![e] = at, ![p] = e]]

\* stl_list_pop_head, stl_list_pop_tail
ListPopHead(l) == IF l.next[0] = 0 THEN l ELSE ListDel(l, l.next[0])
ListPopTail(l) == IF l.next[0] = 0 THEN l ELSE ListDel(l, l.prev[0])

\* stl_list_clear
RECURSIVE ListClear(_)
ListClear(l) == IF l.next[0] = 0 THEN l ELSE ListClear(ListDel(l, l.next[0]))

\* stl_list_foreach
RECURSIVE ListFrom(_, _)
ListFrom(link, n) == IF n = 0 THEN <<>> ELSE <<n>> \o ListFrom(link, link[n])

Without(s, e) == SelectSeq(s, LAMBDA x : x # e)
IndexIn(s, e) == CHOOSE i \in 1..Len(s) : s[i] = e

ListCall(e) ==
  \/ st_obj' = ListAddBefore(st_obj, 0, e) /\ st_ref' = Append(Without(st_ref, e), e)
  \/ st_obj' = ListAddAfter(st_obj, 0, e) /\ st_ref' = <<e>> \o Without(st_ref, e)
  \/ \E at \in StValues \ {e}, after \in BOOLEAN :
       /\ at \in {st_ref[i] : i \in 1..Len(st_ref)}
       /\ st_obj' = IF after THEN ListAddAfter(st_obj, at, e) ELSE ListAddBefore(st_obj, at, e)
       /\ LET s == Without(st_ref, e)
              i == IndexIn(s, at) - (IF after THEN 0 ELSE 1)
          IN st_ref' = SubSeq(s, 1, i) \o <<e>> \o SubSeq(s, i + 1, Len(s))
  \/ st_obj' = ListDel(st_obj, e) /\ st_ref' = Without(st_ref, e)
  \/ st_obj' = ListPopHead(st_obj) /\ st_ref' = Dropped(st_ref, 1)
  \/ st_obj' = ListPopTail(st_obj) /\ st_ref' = Dropped(st_ref, Len(st_ref))
  \/ st_obj' = ListClear(st_obj) /\ st_ref' = <<>>

----------------------------------------------------------------------------
(* Ring buffer: the oldest byte makes room.                                *)

\* ring_buffer_init
RingInit == [tail |-> 0, head |-> 0, cells |-> [i \in 0..StRing - 1 |-> 0]]

\* ring_buffer_num_items, ring_buffer_is_full
RingItems(r) == (r.head - r.tail) % StRing

\* ring_buffer_queue, ring_buffer_queue_arr
RingQueue(r, x) ==
  [tail  |-> IF RingItems(r) = StRing - 1 THEN (r.tail + 1) % StRing ELSE r.tail,
   cells |-> [r.cells EXCEPT ![r.head] = x],
   head  |-> (r.head + 1) % StRing]

\* ring_buffer_dequeue, ring_buffer_dequeue_arr
RingDequeue(r) == IF r.head = r.tail THEN r ELSE [r EXCEPT !.tail = (@ + 1) % StRing]

\* ring_buffer_peek
RingPeek(r, i) == r.cells[(r.tail + i) % StRing]

RingCall(x) ==
  \/ /\ st_obj' = RingQueue(st_obj, x)
     /\ st_ref' = Append(IF Len(st_ref) = StRing - 1 THEN Tail(st_ref) ELSE st_ref, x)
  \/ st_obj' = RingDequeue(st_obj) /\ st_ref' = Dropped(st_ref, 1)

----------------------------------------------------------------------------
(* Dictionary: chains of entries; a search compares only as many           *)
(* characters as its own key has.                                          *)

\* The bucket of a key: hash_fn and stl_dict_jump_consistent.
DictIndex(k) == (IF k = <<>> THEN 0 ELSE k[1]) % StBuckets

\* The key of a call that takes a C string ends before its first NUL.
Text(k) == IF \E i \in 1..Len(k) : k[i] = 0
           THEN SubSeq(k, 1, (CHOOSE i \in 1..Len(k) : k[i] = 0 /\ \A j \in 1..i - 1 : k[j] # 0) - 1)
           ELSE k

\* stl_dict_init
DictInit == [i \in 0..StBuckets - 1 |-> <<>>]

\* strncmp(cur->key, key, strlen(key)) == 0
StartsWith(s, k) == Len(s) >= Len(k) /\ SubSeq(s, 1, Len(k)) = k

\* stl_dict_search: where in its chain the entry found stands, 0 for none.
DictSearch(d, k) ==
  LET chain == d[DictIndex(k)]
      found == {i \in 1..Len(chain) : StartsWith(chain[i].key, k)}
  IN IF found = {} THEN 0 ELSE CHOOSE i \in found : \A j \in found : i <= j

\* stl_dict_put: an entry at the head of its chain, unless the search finds one.
DictPut(d, k, v) ==
  IF DictSearch(d, k) # 0 THEN d
  ELSE [d EXCEPT ![DictIndex(k)] = <<[key |-> k, val |-> v]>> \o @]

\* stl_dict_get; 0 for NULL.
DictGet(d, k) == LET i == DictSearch(d, k) IN IF i = 0 THEN 0 ELSE d[DictIndex(k)][i].val

\* stl_dict_del
DictDel(d, k) ==
  LET i == DictSearch(d, k) IN IF i = 0 THEN d ELSE [d EXCEPT ![DictIndex(k)] = Dropped(@, i)]

\* stl_dict_traverse, stl_dict_deinit: every entry of every chain.
DictTraverse(d) == UNION {{d[i][j] : j \in 1..Len(d[i])} : i \in DOMAIN d}

\* The search may take an entry whose key goes on after k for the entry of k.
Confused(d, k) == LET i == DictSearch(d, k) IN i # 0 /\ d[DictIndex(k)][i].key # k

DictCall ==
  \E k \in {Text(s) : s \in StKeys} :
    /\ st_void' = (st_void \/ Confused(st_obj, k))
    /\ \/ /\ st_obj' = DictPut(st_obj, k, st_ops + 1)
          /\ st_ref' = IF k \in DOMAIN st_ref THEN st_ref ELSE st_ref @@ (k :> st_ops + 1)
       \/ /\ st_obj' = DictDel(st_obj, k)
          /\ st_ref' = [x \in DOMAIN st_ref \ {k} |-> st_ref[x]]

----------------------------------------------------------------------------
(* Set: chains in a table whose size is the next prime when it is a third  *)
(* full.                                                                   *)

\* stl_set_allocate_table, stl_set_new
SetTable(prime, entries) == IF prime <= Len(StPrimes) THEN StPrimes[prime] ELSE 10 * entries
SetNew == [prime |-> 1, entries |-> 0, table |-> [i \in 0..SetTable(1, 0) - 1 |-> <<>>]]

SetIndex(s, x) == x % Cardinality(DOMAIN s.table)

\* stl_set_to_array; stl_set_iterate and stl_set_iter_next to the end.
RECURSIVE ChainsFrom(_, _)
ChainsFrom(table, i) ==
  IF i \notin DOMAIN table THEN <<>> ELSE table[i] \o ChainsFrom(table, i + 1)
SetToArray(s) == ChainsFrom(s.table, 0)

\* Each entry of the old table, in order, is put at the head of its new chain.
RECURSIVE Rehash(_, _)
Rehash(s, entries) ==
  IF entries = <<>> THEN s
  ELSE Rehash([s EXCEPT !.table[SetIndex(s, Head(entries))] = <<Head(entries)>> \o @],
              Tail(entries))

\* The entries stay in the chains of the smaller table.
SetEnlargeMutant(s) ==
  LET n == SetTable(s.prime + 1, s.entries)
  IN [prime |-> s.prime + 1, entries |-> s.entries,
      table |-> [i \in 0..n - 1 |-> IF i \in DOMAIN s.table THEN s.table[i] ELSE <<>>]]

\* stl_set_enlarge
SetEnlarge(s) ==
  LET n == SetTable(s.prime + 1, s.entries)
  IN Rehash([prime |-> s.prime + 1, entries |-> s.entries, table |-> [i \in 0..n - 1 |-> <<>>]],
            SetToArray(s))

SetCrowded(s) == (3 * s.entries) \div Cardinality(DOMAIN s.table) > 0

\* stl_set_query
SetQuery(s, x) == \E i \in 1..Len(s.table[SetIndex(s, x)]) : s.table[SetIndex(s, x)][i] = x

\* stl_set_insert
SetInsert(s, x) ==
  LET e == IF SetCrowded(s) THEN SetEnlarge(s) ELSE s
  IN IF SetQuery(e, x) THEN e
     ELSE [e EXCEPT !.table[SetIndex(e, x)] = <<x>> \o @, !.entries = @ + 1]

\* stl_set_remove
SetRemove(s, x) ==
  IF ~SetQuery(s, x) THEN s
  ELSE [s EXCEPT !.table[SetIndex(s, x)] = Dropped(@, IndexIn(@, x)), !.entries = @ - 1]

RECURSIVE InsertAll(_, _)
InsertAll(s, xs) == IF xs = <<>> THEN s ELSE InsertAll(SetInsert(s, Head(xs)), Tail(xs))

\* stl_set_union: what is in the new set already is not inserted again.
SetUnion(s, t) ==
  LET u == InsertAll(SetNew, SetToArray(s))
  IN InsertAll(u, SelectSeq(SetToArray(t), LAMBDA x : ~SetQuery(u, x)))

\* stl_set_intersection
SetIntersection(s, t) ==
  InsertAll(SetNew, SelectSeq(SetToArray(s), LAMBDA x : SetQuery(t, x)))

\* An insertion whose allocation fails leaves the set as it was, enlarged or not.
SetCall(b) ==
  \E x \in StValues :
    \/ st_obj' = [st_obj EXCEPT ![b] = SetInsert(@, x)] /\ st_ref' = [st_ref EXCEPT ![b] = @ \cup {x}]
    \/ /\ SetCrowded(st_obj[b]) /\ ~SetQuery(st_obj[b], x)
       /\ st_obj' \in {st_obj, [st_obj EXCEPT ![b] = SetEnlarge(@)]}
       /\ UNCHANGED st_ref
    \/ st_obj' = [st_obj EXCEPT ![b] = SetRemove(@, x)] /\ st_ref' = [st_ref EXCEPT ![b] = @ \ {x}]

----------------------------------------------------------------------------
(* Trie: a node is known by its path; data 0 is stl_trie_NULL.             *)

\* stl_trie_find_end_binary, and stl_trie_find_end of the text; the root is the empty path.
FindEnd(t, k) == \A i \in 0..Len(k) : SubSeq(k, 1, i) \in DOMAIN t

\* stl_trie_lookup_binary takes a counted key, stl_trie_lookup a string.
TrieLookupBinary(t, k) == IF FindEnd(t, k) THEN t[k].data ELSE 0
TrieLookup(t, k) == TrieLookupBinary(t, Text(k))

\* Nodes from depth i on get one more user, or are created; at depth fail calloc fails.
RECURSIVE TrieDown(_, _, _, _)
TrieDown(t, k, i, fail) ==
  LET path == SubSeq(k, 1, i)
      node == IF path \in DOMAIN t THEN t[path] ELSE [use |-> 0, data |-> 0]
  IN IF i > Len(k) \/ (i = fail /\ path \notin DOMAIN t) THEN t
     ELSE TrieDown((path :> [node EXCEPT !.use = @ + 1]) @@ t, k, i + 1, fail)

\* Nodes along k lose one user, and are freed without any: the walk of
\* stl_trie_insert_rollback, which ends at the first node that is not there.
RECURSIVE TrieUp(_, _, _)
TrieUp(t, k, i) ==
  LET path == SubSeq(k, 1, i)
  IN IF i > Len(k) \/ path \notin DOMAIN t THEN t
     ELSE TrieUp(IF t[path].use = 1 THEN [p \in DOMAIN t \ {path} |-> t[p]]
                                    ELSE [t EXCEPT ![path].use = @ - 1], k, i + 1)

\* stl_trie_insert_binary; fail is the depth at which memory runs out, above every depth
\* if it does not.
TrieInsertBinary(t, k, v, fail) ==
  IF TrieLookupBinary(t, k) # 0 THEN [t EXCEPT ![k].data = v]
  ELSE LET d == TrieDown(t, k, 0, fail)
       IN IF \E i \in 0..Len(k) : i = fail /\ SubSeq(k, 1, i) \notin DOMAIN t
          THEN TrieUp(d, k, 0) ELSE [d EXCEPT ![k].data = v]

\* stl_trie_insert: the walk ends where the string does.
TrieInsert(t, k, v, fail) == TrieInsertBinary(t, Text(k), v, fail)

\* stl_trie_remove_binary, stl_trie_remove
TrieRemoveBinary(t, k) ==
  IF TrieLookupBinary(t, k) = 0 THEN t ELSE TrieUp([t EXCEPT ![k].data = 0], k, 0)
TrieRemove(t, k) == TrieRemoveBinary(t, Text(k))

\* stl_trie_free: every node reached from the root.
TrieFree(t) == [p \in {q \in DOMAIN t : ~FindEnd(t, q)} |-> t[p]]

\* stl_trie_num_entries
TrieNumEntries(t) == IF <<>> \in DOMAIN t THEN t[<<>>].use ELSE 0

\* A call that succeeds, with a counted key or a string.
TrieChange(k) ==
  \/ /\ st_obj' = TrieInsertBinary(st_obj, k, st_ops + 1, Len(k) + 1)
     /\ st_ref' = (k :> st_ops + 1) @@ st_ref
  \/ /\ st_obj' = TrieInsert(st_obj, k, st_ops + 1, Len(k) + 1)
     /\ st_ref' = (Text(k) :> st_ops + 1) @@ st_ref
  \/ /\ st_obj' = TrieRemoveBinary(st_obj, k)
     /\ st_ref' = [x \in DOMAIN st_ref \ {k} |-> st_ref[x]]
  \/ /\ st_obj' = TrieRemove(st_obj, k)
     /\ st_ref' = [x \in DOMAIN st_ref \ {Text(k)} |-> st_ref[x]]

\* An insertion that runs out of memory at some depth is taken back.
TrieInsertFails(k) ==
  /\ \/ \E fail \in 0..Len(k) :
          /\ ~FindEnd(st_obj, SubSeq(k, 1, fail))
          /\ st_obj' = TrieInsertBinary(st_obj, k, st_ops + 1, fail)
     \/ \E fail \in 0..Len(Text(k)) :
          /\ ~FindEnd(st_obj, SubSeq(k, 1, fail))
          /\ st_obj' = TrieInsert(st_obj, k, st_ops + 1, fail)
  /\ UNCHANGED st_ref

TrieCall ==
  \/ \E k \in StKeys : TrieChange(k) \/ TrieInsertFails(k)
  \/ st_obj' = TrieFree(st_obj) /\ st_ref' = <<>>

----------------------------------------------------------------------------
(* Bloom filter: a set of bits, two functions.                             *)

\* hash ^ salts[i], modulo the table's size.
BloomIndex(x, i) == (3 * x + 5 * i) % StBits

\* stl_bloom_filter_insert, stl_bloom_filter_query, stl_bloom_filter_intersection
BloomInsert(bits, x) == bits \cup {BloomIndex(x, i) : i \in 0..1}
BloomQuery(bits, x) == \A i \in 0..1 : BloomIndex(x, i) \in bits
BloomIntersection(b1, b2) == b1 \cap b2

BloomCall(b, x) ==
  /\ st_obj' = [st_obj EXCEPT ![b] = BloomInsert(@, x)]
  /\ st_ref' = [st_ref EXCEPT ![b] = @ \cup {x}]

----------------------------------------------------------------------------

StInit == st_kind = "none" /\ st_obj = 0 /\ st_ref = 0 /\ st_ops = 0 /\ st_void = FALSE

Created(kind, obj, ref) ==
  st_kind = "none" /\ st_kind' = kind /\ st_obj' = obj /\ st_ref' = ref

StCreate ==
  /\ \/ \E cap \in {0, 3} : Created("queue", QueueInit(cap), <<>>)
     \/ \E cap \in {0, 3} : Created("array", ArrayInit(cap), <<>>)
     \/ \E cap \in {0, 3} : Created("heap", HeapInit(cap), {})
     \/ Created("list", ListInit, <<>>)
     \/ Created("ring", RingInit, <<>>)
     \/ Created("dict", DictInit, <<>>)
     \/ Created("set", <<SetNew, SetNew>>, <<{}, {}>>)
     \/ Created("trie", <<>>, <<>>)
     \/ Created("bloom", <<{}, {}>>, <<{}, {}>>)
  /\ UNCHANGED <<st_ops, st_void>>

StUse ==
  /\ st_ops < StMaxOps /\ ~st_void /\ st_ops' = st_ops + 1
  /\ \/ st_kind = "queue" /\ QueueCall(st_ops + 1)
     \/ st_kind = "array" /\ ArrayCall(st_ops + 1) /\ UNCHANGED st_void
     \/ st_kind = "heap" /\ \E x \in StValues : HeapCall(x)
     \/ st_kind = "list" /\ (\E e \in StValues : ListCall(e)) /\ UNCHANGED st_void
     \/ st_kind = "ring" /\ RingCall(st_ops + 1) /\ UNCHANGED st_void
     \/ st_kind = "dict" /\ DictCall
     \/ st_kind = "set" /\ (\E b \in 1..2 : SetCall(b)) /\ UNCHANGED st_void
     \/ st_kind = "trie" /\ TrieCall /\ UNCHANGED st_void
     \/ st_kind = "bloom" /\ (\E b \in 1..2, x \in StValues : BloomCall(b, x)) /\ UNCHANGED st_void
  /\ UNCHANGED st_kind

StNext == StCreate \/ StUse

----------------------------------------------------------------------------

ElementsOf(s) == {s[i] : i \in 1..Len(s)}

\* Queue, array, list and ring buffer hold their elements in order, through
\* wrap-around and growth; a heap gives its smallest key and loses no element.
SequencesAgree ==
  /\ st_kind = "queue" => QueueContents(st_obj) = st_ref
  /\ st_kind = "array" =>
       /\ SubSeq(st_obj.elems, 1, st_obj.size) = st_ref
       /\ st_obj.size <= st_obj.cap
  /\ st_kind = "heap" =>
       /\ {st_obj.elems[i] : i \in 1..st_obj.size} = st_ref
       /\ st_obj.size = Cardinality(st_ref)
       /\ st_obj.size > 0 => \A x \in st_ref : st_obj.elems[1][1] <= x[1]
       /\ st_obj.size > 0 => st_obj.size < st_obj.cap
  /\ st_kind = "list" =>
       /\ ListFrom(st_obj.next, st_obj.next[0]) = st_ref
       /\ \A n \in StValues \cup {0} : st_obj.prev[st_obj.next[n]] = n
  /\ st_kind = "ring" =>
       /\ RingItems(st_obj) = Len(st_ref)
       /\ \A i \in 1..Len(st_ref) : RingPeek(st_obj, i - 1) = st_ref[i]

\* Dictionary, set and trie are the maps and sets they stand for, also after a failed
\* allocation; the trie counts its keys in every node and keeps no other node; union
\* and intersection are those of sets; a Bloom filter denies nothing it was given.
TablesAgree ==
  /\ st_kind = "dict" =>
       /\ DictTraverse(st_obj) = {[key |-> k, val |-> st_ref[k]] : k \in DOMAIN st_ref}
       /\ \A k \in DOMAIN st_ref : Confused(st_obj, k) \/ DictGet(st_obj, k) = st_ref[k]
  /\ st_kind = "set" =>
       /\ \A b \in 1..2 : /\ Len(SetToArray(st_obj[b])) = st_obj[b].entries
                          /\ ElementsOf(SetToArray(st_obj[b])) = st_ref[b]
                          /\ \A x \in StValues : SetQuery(st_obj[b], x) = (x \in st_ref[b])
       /\ \A x \in StValues :
            /\ SetQuery(SetUnion(st_obj[1], st_obj[2]), x) = (x \in st_ref[1] \cup st_ref[2])
            /\ SetQuery(SetIntersection(st_obj[1], st_obj[2]), x) = (x \in st_ref[1] \cap st_ref[2])
  /\ st_kind = "trie" =>
       /\ \A k \in StKeys :
            /\ TrieLookupBinary(st_obj, k) = (IF k \in DOMAIN st_ref THEN st_ref[k] ELSE 0)
            /\ TrieLookup(st_obj, k) =
                 (IF Text(k) \in DOMAIN st_ref THEN st_ref[Text(k)] ELSE 0)
       /\ \A p \in DOMAIN st_obj :
            st_obj[p].use = Cardinality({k \in DOMAIN st_ref : StartsWith(k, p)})
       /\ \A p \in DOMAIN st_obj : FindEnd(st_obj, p) /\ st_obj[p].use > 0
       /\ TrieNumEntries(st_obj) = Cardinality(DOMAIN st_ref)
  /\ st_kind = "bloom" =>
       /\ \A b \in 1..2 : \A x \in st_ref[b] : BloomQuery(st_obj[b], x)
       /\ \A x \in st_ref[1] \cap st_ref[2] :
            BloomQuery(BloomIntersection(st_obj[1], st_obj[2]), x)

\* Every container of src/stl is what it stands for, up to the three calls that void it:
\* an add to the empty queue or to a heap that runs out of memory, and a dictionary
\* call whose key begins another key of the same chain.
ContainersAgree == st_void \/ (SequencesAgree /\ TablesAgree)
=============================================================================
