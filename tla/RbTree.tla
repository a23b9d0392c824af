------------------------------- MODULE RbTree -------------------------------
(***************************************************************************)
(* The red-black tree of util/rbt.c, which keeps the pending outputs, the  *)
(* live files of a version set, the file locks and the tables of an edit.  *)
(* Every operation is translated pointer by pointer, with the one sentinel *)
(* all trees share: removal writes the sentinel's parent, and that value   *)
(* stays behind.  Mirror-image branches of the code are one branch here,   *)
(* over the side.                                                          *)
(***************************************************************************)
EXTENDS Integers, FiniteSets, Sequences, TLC

CONSTANTS RbKeys,   \* keys, positive integers
          RbVals    \* values of a map

VARIABLES rb_tree,  \* the tree
          rb_map    \* ghost: the map the tree stands for

rbVars == <<rb_tree, rb_map>>

\* sentinel: its address, and what it holds before anything is written to it.
NilNode == 0
Sentinel == [key |-> 0, val |-> 0, color |-> "black", parent |-> NilNode,
             left |-> NilNode, right |-> NilNode]

OtherSide(side) == IF side = "left" THEN "right" ELSE "left"

\* rb_tree_init
EmptyTree == [root |-> NilNode, size |-> 0, node |-> (NilNode :> Sentinel)]

SideOf(t, x) == IF x = t.node[t.node[x].parent].left THEN "left" ELSE "right"

\* rb_node_create
NewNode(key, val) == [Sentinel EXCEPT !.key = key, !.val = val, !.color = "red"]

\* y takes the place of x under x's parent, or as the root.
Replant(t, x, y) ==
  IF t.node[x].parent = NilNode THEN [t EXCEPT !.root = y]
  ELSE [t EXCEPT !.node[t.node[x].parent][SideOf(t, x)] = y]

\* rb_tree_rotl for side = "left", rb_tree_rotr for side = "right".
Rotated(t, x, side) ==
  LET y     == t.node[x][OtherSide(side)]
      inner == t.node[y][side]
      t1    == [t EXCEPT !.node[x][OtherSide(side)] = inner]
      t2    == IF inner # NilNode THEN [t1 EXCEPT !.node[inner].parent = x] ELSE t1
      t3    == Replant([t2 EXCEPT !.node[y].parent = t.node[x].parent], x, y)
  IN [t3 EXCEPT !.node[y][side] = x, !.node[x].parent = y]

\* rb_tree_rotr: the mirror image of rb_tree_rotl.
RotatedRight(t, x) == Rotated(t, x, "right")

\* rb_tree_insert_fixup, from the loop's head.
RECURSIVE InsertFixup(_, _)
InsertFixup(t, x) ==
  LET p == t.node[x].parent
      g == t.node[p].parent
  IN IF x = t.root \/ t.node[p].color # "red"
     THEN [t EXCEPT !.node[t.root].color = "black"]
     ELSE LET side == SideOf(t, p)
              y    == t.node[g][OtherSide(side)]
          IN IF y # NilNode /\ t.node[y].color = "red"
             THEN InsertFixup([t EXCEPT !.node[p].color = "black", !.node[y].color = "black",
                                        !.node[g].color = "red"], g)
             ELSE LET turn == x = t.node[p][OtherSide(side)]
                      u    == IF turn THEN Rotated(t, p, side) ELSE t
                      z    == IF turn THEN p ELSE x
                      top  == u.node[z].parent
                      v    == [u EXCEPT !.node[top].color = "black", !.node[g].color = "red"]
                  IN InsertFixup(Rotated(v, g, OtherSide(side)), z)

\* A red sibling is turned round but keeps its colour.
RedSiblingMutant(t, x, side) ==
  LET p == t.node[x].parent
      w == t.node[p][OtherSide(side)]
  IN IF t.node[w].color # "red" THEN t ELSE Rotated([t EXCEPT !.node[p].color = "red"], p, side)

\* The first step of a removal's repair: a red sibling is turned into a black one.
RedSibling(t, x, side) ==
  LET p == t.node[x].parent
      w == t.node[p][OtherSide(side)]
  IN IF t.node[w].color # "red" THEN t
     ELSE Rotated([t EXCEPT !.node[w].color = "black", !.node[p].color = "red"], p, side)

\* The inner nephew is red and the outer one black: the red one moves out.
RedInside(t, w, side) ==
  IF t.node[t.node[w][OtherSide(side)]].color # "black" THEN t
  ELSE Rotated([t EXCEPT !.node[t.node[w][side]].color = "black", !.node[w].color = "red"],
               w, OtherSide(side))

\* The last step: the sibling takes the parent's colour and its place.
SiblingUp(t, x, side) ==
  LET p == t.node[x].parent
      w == t.node[p][OtherSide(side)]
  IN Rotated([t EXCEPT !.node[w].color = t.node[p].color, !.node[p].color = "black",
                       !.node[t.node[w][OtherSide(side)]].color = "black"], p, side)

\* rb_tree_remove_fixup, from the loop's head.
RECURSIVE RemoveFixup(_, _)
RemoveFixup(t, x) ==
  IF x = t.root \/ t.node[x].color # "black"
  THEN [t EXCEPT !.node[x].color = "black"]
  ELSE LET side == SideOf(t, x)
           t1   == RedSibling(t, x, side)
           p    == t1.node[x].parent
           w    == t1.node[p][OtherSide(side)]
       IN IF t1.node[t1.node[w].left].color = "black" /\ t1.node[t1.node[w].right].color = "black"
          THEN RemoveFixup([t1 EXCEPT !.node[w].color = "red"], p)
          ELSE LET t2 == SiblingUp(RedInside(t1, w, side), x, side) IN RemoveFixup(t2, t2.root)

----------------------------------------------------------------------------
(* Searches and iteration.                                                 *)

\* rb_node_min for side = "left", rb_node_max for side = "right".
RECURSIVE Outermost(_, _, _)
Outermost(t, x, side) ==
  IF x = NilNode \/ t.node[x][side] = NilNode THEN x ELSE Outermost(t, t.node[x][side], side)

RECURSIVE Climb(_, _, _, _)
Climb(t, x, y, side) ==
  IF y # NilNode /\ x = t.node[y][side] THEN Climb(t, y, t.node[y].parent, side) ELSE y

\* rb_node_successor for side = "right", rb_node_predecessor for side = "left".
Neighbour(t, x, side) ==
  IF t.node[x][side] # NilNode THEN Outermost(t, t.node[x][side], OtherSide(side))
  ELSE Climb(t, x, t.node[x].parent, side)

\* rb_node_predecessor, rb_iter_prev
Predecessor(t, x) == Neighbour(t, x, "left")

\* The descent of rb_tree_get, rb_tree_put and rb_tree_del: where it ended, and from where.
RECURSIVE Descend(_, _, _, _)
Descend(t, key, x, parent) ==
  IF x = NilNode \/ t.node[x].key = key THEN [at |-> x, parent |-> parent]
  ELSE Descend(t, key, t.node[x][IF key < t.node[x].key THEN "left" ELSE "right"], x)

\* rb_tree_get; NilNode for NULL.
TreeGet(t, key) == Descend(t, key, t.root, NilNode).at

\* rb_iter_seek: the first node at or after key.
RECURSIVE IterSeek(_, _, _, _)
IterSeek(t, key, x, result) ==
  IF x = NilNode THEN result
  ELSE IF t.node[x].key = key THEN x
  ELSE IF key < t.node[x].key THEN IterSeek(t, key, t.node[x].left, x)
                              ELSE IterSeek(t, key, t.node[x].right, result)

\* rb_iter_start and rb_iter_next to the end, or rb_iter_last and rb_iter_prev.
RECURSIVE IterAll(_, _, _)
IterAll(t, x, side) ==
  IF x = NilNode THEN <<>> ELSE <<t.node[x].key>> \o IterAll(t, Neighbour(t, x, side), side)

----------------------------------------------------------------------------
(* The operations that change a tree.                                      *)

\* rb_tree_put; addr is what malloc returns.  An existing key keeps its node and value.
TreePut(t, key, val, addr) ==
  LET d == Descend(t, key, t.root, NilNode)
      n == [NewNode(key, val) EXCEPT !.parent = d.parent]
      u == [t EXCEPT !.node = @ @@ (addr :> n)]
      v == IF d.parent = NilNode THEN [u EXCEPT !.root = addr]
           ELSE [u EXCEPT !.node[d.parent][IF key < t.node[d.parent].key THEN "left" ELSE "right"]
                            = addr]
  IN IF d.at # NilNode THEN t ELSE [InsertFixup(v, addr) EXCEPT !.size = @ + 1]

\* rb_node_swap: z gets y's key and value, and y is what the caller frees.
SwapNode(t, z, y) ==
  [t EXCEPT !.node[z].key = t.node[y].key, !.node[z].val = t.node[y].val,
            !.node[y].key = t.node[z].key, !.node[y].val = t.node[z].val]

\* rb_tree_remove_node and rb_node_destroy of what it returns.
RemoveNode(t, z) ==
  LET y  == IF t.node[z].left # NilNode /\ t.node[z].right # NilNode
            THEN Neighbour(t, z, "right") ELSE z
      x  == IF t.node[y].left = NilNode THEN t.node[y].right ELSE t.node[y].left
      t1 == Replant([t EXCEPT !.node[x].parent = t.node[y].parent], y, x)
      t2 == SwapNode(t1, z, y)
      t3 == IF t.node[y].color = "black" THEN RemoveFixup(t2, x) ELSE t2
  IN [t3 EXCEPT !.size = @ - 1, !.node = [a \in DOMAIN t3.node \ {y} |-> t3.node[a]]]

\* rb_tree_del
TreeDel(t, key) == LET x == TreeGet(t, key) IN IF x = NilNode THEN t ELSE RemoveNode(t, x)

\* rb_node_snapshot, rb_node_clone: the nodes under x, copied, with their parents set anew.
RECURSIVE Snapshot(_, _, _)
Snapshot(t, parent, x) ==
  IF x = NilNode THEN NilNode :> t.node[NilNode]
  ELSE (x :> [t.node[x] EXCEPT !.parent = parent])
       @@ Snapshot(t, x, t.node[x].left) @@ Snapshot(t, x, t.node[x].right)

\* rb_tree_copy
TreeCopy(t) == [root |-> t.root, size |-> t.size, node |-> Snapshot(t, NilNode, t.root)]

\* rb_tree_clear, rb_node_clear: every node is freed; the sentinel stays as it is.
TreeClear(t) == [EmptyTree EXCEPT !.node[NilNode] = t.node[NilNode]]

\* Where malloc puts a node cannot be told: each node is known by its key again.
Readdressed(t) ==
  LET to(a) == IF a \in DOMAIN t.node THEN t.node[a].key ELSE NilNode
  IN [t EXCEPT !.root = to(t.root),
        !.node = [k \in {to(a) : a \in DOMAIN t.node} |->
                    LET a == CHOOSE b \in DOMAIN t.node : to(b) = k
                    IN [t.node[a] EXCEPT !.parent = to(@), !.left = to(@), !.right = to(@)]]]

----------------------------------------------------------------------------

RbInit == rb_tree = EmptyTree /\ rb_map = <<>>

\* rb_map_put, rb_set_put, rb_set64_put
RbPut(key, val) ==
  /\ rb_tree' = Readdressed(TreePut(rb_tree, key, val, key))
  /\ rb_map' = IF key \in DOMAIN rb_map THEN rb_map ELSE rb_map @@ (key :> val)

\* rb_map_del, rb_set_del, rb_set64_del
RbDel(key) ==
  /\ rb_tree' = Readdressed(TreeDel(rb_tree, key))
  /\ rb_map' = [k \in DOMAIN rb_map \ {key} |-> rb_map[k]]

\* A copy replaces the original, which is cleared.
RbCopy ==
  /\ rb_tree' = Readdressed(TreeCopy(rb_tree))
  /\ UNCHANGED rb_map

RbClear ==
  /\ rb_tree' = TreeClear(rb_tree)
  /\ rb_map' = <<>>

RbNext ==
  \/ \E key \in RbKeys, val \in RbVals : RbPut(key, val)
  \/ \E key \in RbKeys : RbDel(key)
  \/ RbCopy
  \/ RbClear

----------------------------------------------------------------------------

RECURSIVE BlackHeights(_, _)
BlackHeights(t, x) ==
  IF x = NilNode THEN {0}
  ELSE {h + (IF t.node[x].color = "black" THEN 1 ELSE 0) :
          h \in BlackHeights(t, t.node[x].left) \cup BlackHeights(t, t.node[x].right)}

IsSortedList(s) == \A i \in 1..Len(s) - 1 : s[i] < s[i + 1]

\* After any sequence of rb_map_put, rb_map_del, rb_tree_copy and rb_tree_clear
\* the tree is balanced (a black root, no red node under a red one, one black
\* height on every path), parents and children agree, its size and its
\* entries are those of the map it stands for, iteration forwards and
\* backwards meets every key once and in order, and rb_iter_seek finds the
\* least key that is not smaller.
RbSound ==
  LET t     == rb_tree
      nodes == DOMAIN t.node \ {NilNode}
      up    == IterAll(t, Outermost(t, t.root, "left"), "right")
      down  == IterAll(t, Outermost(t, t.root, "right"), "left")
  IN /\ t.node[t.root].color = "black" /\ Cardinality(BlackHeights(t, t.root)) = 1
     /\ \A x \in nodes : t.node[x].color = "red" => t.node[t.node[x].parent].color = "black"
     /\ \A x \in nodes, side \in {"left", "right"} :
          t.node[x][side] # NilNode => t.node[t.node[x][side]].parent = x
     /\ t.size = Cardinality(DOMAIN rb_map)
     /\ \A k \in RbKeys :
          LET x == TreeGet(t, k)
              y == IterSeek(t, k, t.root, NilNode)
              after == {m \in DOMAIN rb_map : m >= k}
          IN /\ (x # NilNode) = (k \in DOMAIN rb_map)
             /\ x # NilNode => t.node[x].val = rb_map[k]
             /\ IF after = {} THEN y = NilNode
                ELSE t.node[y].key \in after /\ \A m \in after : t.node[y].key <= m
     /\ IsSortedList(up) /\ Len(up) = t.size
     /\ \A i \in 1..Len(up) : up[i] \in DOMAIN rb_map
     /\ Len(down) = Len(up) /\ \A i \in 1..Len(up) : down[i] = up[Len(up) + 1 - i]
=============================================================================
