---------------------------- MODULE RedBlackTree ----------------------------
(***************************************************************************)
(* FixedRedBlackTree<K, V, MAXIMUM_SIZE, Compare, COMPACTNESS, Storage>:   *)
(* a red-black tree whose nodes refer to each other by their index in a    *)
(* pool or in a contiguous vector.  The model has the default compactness: *)
(* a node keeps its parent's index and its colour in one word.             *)
(*                                                                         *)
(* A node is split over two members of the model: its key is what the      *)
(* storage holds at its index, its value and its links are in node.  The   *)
(* operators take a tree and return the tree a member function leaves      *)
(* behind.  The code treats left and right by mirrored branches; here the  *)
(* side is a parameter.                                                    *)
(***************************************************************************)
EXTENDS IndexBasedStorage, Integers

CONSTANTS
  MASK,      (* the most significant bit of a word of std::size_t          *)
  Mapped,    (* the values of V                                            *)
  NoValue    (* in place of a value: EmptyValue, and destroyed nodes       *)

ASSUME MaskExceedsIndices == MASK \in Nat /\ MAXIMUM_SIZE < MASK - 1

(* The largest std::size_t. *)
NULL_INDEX == 2 * MASK - 1

COLOR_BLACK == FALSE
COLOR_RED == TRUE

-----------------------------------------------------------------------------
(* NodeIndexWithColorEmbeddedInTheMostSignificantBit. *)
LOCAL_NULL_INDEX == NULL_INDEX \div 2

get_index(word) ==
  LET ret == word % MASK IN
  IF ret = LOCAL_NULL_INDEX THEN NULL_INDEX ELSE ret

set_index(word, index) ==
  (word - (word % MASK)) + (IF index = NULL_INDEX THEN LOCAL_NULL_INDEX ELSE index)

get_color(word) == word >= MASK

set_color_of_word(word, color) == (word % MASK) + (IF color THEN MASK ELSE 0)

-----------------------------------------------------------------------------
(* The nodes. *)
NodeIndices == Slots \cup {NULL_INDEX}

Nodes == [value : Mapped \cup {NoValue}, parent_index_and_color : 0 .. NULL_INDEX,
          left_index : NodeIndices, right_index : NodeIndices]

NewNode(value) ==
  [value |-> value, left_index |-> NULL_INDEX, right_index |-> NULL_INDEX,
   parent_index_and_color |-> set_color_of_word(set_index(0, NULL_INDEX), COLOR_BLACK)]

Sides == {"left", "right"}
Opposite(side) == IF side = "left" THEN "right" ELSE "left"

key(t, i) == t.storage.array[i]
value(t, i) == t.node[i].value
parent_index(t, i) == get_index(t.node[i].parent_index_and_color)
color(t, i) == get_color(t.node[i].parent_index_and_color)
child_index(t, side, i) ==
  IF side = "left" THEN t.node[i].left_index ELSE t.node[i].right_index

set_value(t, i, v) == [t EXCEPT !.node[i].value = v]
set_parent_index(t, i, p) ==
  [t EXCEPT !.node[i].parent_index_and_color = set_index(@, p)]
set_child_index(t, side, i, c) ==
  IF side = "left" THEN [t EXCEPT !.node[i].left_index = c]
                   ELSE [t EXCEPT !.node[i].right_index = c]

(* The accessors that handle NULL_INDEX. *)
parent_index_of(t, i) == IF i = NULL_INDEX THEN NULL_INDEX ELSE parent_index(t, i)
child_index_of(t, side, i) ==
  IF i = NULL_INDEX THEN NULL_INDEX ELSE child_index(t, side, i)
color_of(t, i) == IF i = NULL_INDEX THEN COLOR_BLACK ELSE color(t, i)
set_color(t, i, c) ==
  IF i = NULL_INDEX THEN t
  ELSE [t EXCEPT !.node[i].parent_index_and_color = set_color_of_word(@, c)]

-----------------------------------------------------------------------------
TreeObjects == [contiguous : BOOLEAN, root_index : NodeIndices, size : Links,
                storage : Pools, node : [Slots -> Nodes]]

EmptyTree(contiguous) ==
  [contiguous |-> contiguous, root_index |-> NULL_INDEX, size |-> 0,
   storage |-> IF contiguous THEN EmptyContiguous ELSE EmptyPool,
   node |-> [i \in Slots |-> NewNode(NoValue)]]

tree_full(t) == t.size = MAXIMUM_SIZE
contains_at(i) == i # NULL_INDEX

compare(k1, k2) == IF k1 < k2 THEN -1 ELSE IF k2 < k1 THEN 1 ELSE 0

(* index_of_node_with_parent: the node with the key, or NULL_INDEX with    *)
(* the place where it would be.                                            *)
index_of_node_with_parent(t, k) ==
  LET down[n \in Nat] ==
        IF n = 0
        THEN [i |-> t.root_index, parent |-> NULL_INDEX, is_left_child |-> TRUE]
        ELSE LET at  == down[n - 1]
                 cmp == IF at.i = NULL_INDEX THEN 0 ELSE compare(k, key(t, at.i))
             IN  IF cmp = 0 THEN at
                 ELSE [i |-> child_index(t, IF cmp < 0 THEN "left" ELSE "right", at.i),
                       parent |-> at.i, is_left_child |-> cmp < 0]
  IN  down[t.size]

index_of_node_or_null(t, k) == index_of_node_with_parent(t, k).i

(* index_of_min_at (side "left") and index_of_max_at (side "right"). *)
index_of_extreme_at(t, side, i) ==
  LET down[n \in Nat] ==
        IF n = 0 THEN i
        ELSE LET at == down[n - 1] next == child_index_of(t, side, at)
             IN  IF next = NULL_INDEX THEN at ELSE next
  IN  down[t.size]
index_of_min_at(t) == index_of_extreme_at(t, "left", t.root_index)
index_of_max_at(t) == index_of_extreme_at(t, "right", t.root_index)

(* index_of_successor_at (side "right") and index_of_predecessor_at (side  *)
(* "left"): the extreme of the subtree on that side, or else the first     *)
(* ancestor reached from its other side.                                   *)
index_of_neighbour_at(t, side, i) ==
  LET up[n \in Nat] ==
        IF n = 0 THEN [at |-> parent_index_of(t, i), ch0 |-> i]
        ELSE LET s == up[n - 1]
             IN  IF s.at # NULL_INDEX /\ s.ch0 = child_index_of(t, side, s.at)
                 THEN [at |-> parent_index(t, s.at), ch0 |-> s.at] ELSE s
      below == child_index_of(t, side, i)
  IN  IF i = NULL_INDEX THEN NULL_INDEX
      ELSE IF below # NULL_INDEX THEN index_of_extreme_at(t, Opposite(side), below)
      ELSE up[t.size].at
index_of_successor_at(t, i) == index_of_neighbour_at(t, "right", i)
index_of_predecessor_at(t, i) == index_of_neighbour_at(t, "left", i)

(* Mutant: a key that would be a right child is taken to precede its       *)
(* parent.                                                                 *)
HigherIsParent(t, np) ==
  IF contains_at(np.i) THEN index_of_successor_at(t, np.i) ELSE np.parent

index_of_node_lower(t, np) ==
  IF contains_at(np.i) THEN index_of_predecessor_at(t, np.i)
  ELSE IF ~np.is_left_child THEN np.parent
  ELSE index_of_predecessor_at(t, np.parent)
index_of_node_higher(t, np) ==
  IF contains_at(np.i) THEN index_of_successor_at(t, np.i)
  ELSE IF np.is_left_child THEN np.parent
  ELSE index_of_successor_at(t, np.parent)
index_of_node_floor(t, np) ==
  IF contains_at(np.i) THEN np.i ELSE index_of_node_lower(t, np)
index_of_node_ceiling(t, np) ==
  IF contains_at(np.i) THEN np.i ELSE index_of_node_higher(t, np)

-----------------------------------------------------------------------------
(* Puts new where the parent of a node, or the root, refers to old. *)
replace_child(t, parent, old, new) ==
  IF parent = NULL_INDEX THEN [t EXCEPT !.root_index = new]
  ELSE set_child_index(t, IF child_index(t, "left", parent) = old THEN "left" ELSE "right",
                       parent, new)

(* The same, for what leaves the root alone. *)
redirect_parent(t, parent, old, new) ==
  IF parent = NULL_INDEX THEN t ELSE replace_child(t, parent, old, new)

redirect_child(t, child, new) ==
  IF child = NULL_INDEX THEN t ELSE set_parent_index(t, child, new)

(* rotate_left (side "left") and rotate_right (side "right"): the node     *)
(* goes down on that side, its other child `up' takes its place, and the   *)
(* inner child of that one goes over to the node.                          *)
RotateNodes(t, side, index, up, inner, p) ==
  LET t1 == set_child_index(t, Opposite(side), index, inner)
      t2 == redirect_child(t1, inner, index)
      t3 == set_parent_index(t2, up, p)
      t4 == replace_child(t3, p, index, up)
      t5 == set_child_index(t4, side, up, index)
  IN  set_parent_index(t5, index, up)
rotate(t, side, index) ==
  LET up == child_index(t, Opposite(side), index) IN
  IF index = NULL_INDEX THEN t
  ELSE RotateNodes(t, side, index, up, child_index(t, side, up), parent_index(t, index))

(* The end of an iteration of fix_after_insertion: the parent of idx takes *)
(* the place and the colour of its own parent.                             *)
RaiseParent(t, side, idx) ==
  LET p == parent_index_of(t, idx)
      g == parent_index_of(t, p)
  IN  rotate(set_color(set_color(t, p, COLOR_BLACK), g, COLOR_RED), Opposite(side), g)

(* One iteration of the loop of fix_after_insertion, at a red node idx     *)
(* with a red parent.                                                      *)
FixInsertionStep(t, idx) ==
  LET parent == parent_index_of(t, idx)
      grand  == parent_index_of(t, parent)
      side   == IF parent = child_index_of(t, "left", grand) THEN "left" ELSE "right"
      uncle  == child_index_of(t, Opposite(side), grand)
  IN  IF color_of(t, uncle) = COLOR_RED
      THEN [tree |-> set_color(set_color(set_color(t, parent, COLOR_BLACK),
                                         uncle, COLOR_BLACK), grand, COLOR_RED),
            idx  |-> grand]
      ELSE IF idx = child_index_of(t, Opposite(side), parent)
      THEN [tree |-> RaiseParent(rotate(t, side, parent), side, parent), idx |-> parent]
      ELSE [tree |-> RaiseParent(t, side, idx), idx |-> idx]

BlackenRoot(t) == set_color(t, t.root_index, COLOR_BLACK)

fix_after_insertion(t, added) ==
  LET fix[n \in Nat] ==
        IF n = 0 THEN [tree |-> set_color(t, added, COLOR_RED), idx |-> added]
        ELSE LET s == fix[n - 1]
             IN  IF /\ s.idx # NULL_INDEX /\ s.idx # s.tree.root_index
                    /\ color_of(s.tree, parent_index(s.tree, s.idx)) = COLOR_RED
                 THEN FixInsertionStep(s.tree, s.idx) ELSE s
  IN  BlackenRoot(fix[MAXIMUM_SIZE].tree)

(* The storage gives out the index that next_index names. *)
EmplaceNode(t, k, v) ==
  [t EXCEPT !.storage = IF t.contiguous THEN contiguous_emplace(@, k)
                                        ELSE emplace_and_return_index(@, k),
            !.node[t.storage.next_index] = NewNode(v),
            !.size = @ + 1]

(* insert_new_at, in a tree that is not full, at the place np that         *)
(* index_of_node_with_parent found for a key that is not present.          *)
insert_new_at(t, np, k, v) ==
  LET i  == t.storage.next_index
      t1 == set_parent_index(EmplaceNode(t, k, v), i, np.parent)
      at(t2) == IF np.parent = NULL_INDEX THEN [t2 EXCEPT !.root_index = i]
                ELSE set_child_index(t2, IF np.is_left_child THEN "left" ELSE "right",
                                     np.parent, i)
  IN  fix_after_insertion(at(t1), i)

insert_if_not_present(t, k, v) ==
  LET np == index_of_node_with_parent(t, k) IN
  IF contains_at(np.i) THEN t ELSE insert_new_at(t, np, k, v)

-----------------------------------------------------------------------------
fixup_neighbours_of_node_to_point_to_a_new_index(t, i, old, new) ==
  LET t1 == redirect_child(t, child_index(t, "left", i), new)
      t2 == redirect_child(t1, child_index(t, "right", i), new)
  IN  redirect_parent(t2, parent_index(t, i), old, new)

swap_child_index(t, side, i, j) ==
  set_child_index(set_child_index(t, side, i, child_index(t, side, j)),
                  side, j, child_index(t, side, i))
swap_parent_index(t, i, j) ==
  set_parent_index(set_parent_index(t, i, parent_index(t, j)), j, parent_index(t, i))
swap_color(t, i, j) == set_color(set_color(t, i, color(t, j)), j, color(t, i))

copy_child_index(t, side, from, to) == set_child_index(t, side, to, child_index(t, side, from))
copy_parent_index(t, from, to) == set_parent_index(t, to, parent_index(t, from))

(* The branches of swap_nodes_excluding_key_and_value_impl in which j is   *)
(* the parent of i, on the given side, and the one for other nodes.        *)
SwapWithParent(t, side, i, j) ==
  LET t1 == set_child_index(set_parent_index(t, i, NULL_INDEX), side, j, NULL_INDEX)
      t2 == fixup_neighbours_of_node_to_point_to_a_new_index(t1, i, i, j)
      t3 == fixup_neighbours_of_node_to_point_to_a_new_index(t2, j, j, i)
      t4 == swap_child_index(t3, Opposite(side), i, j)
      t5 == set_parent_index(copy_parent_index(t4, j, i), j, i)
  IN  set_child_index(copy_child_index(t5, side, i, j), side, i, j)
SwapStrangers(t, i, j) ==
  LET t1 == fixup_neighbours_of_node_to_point_to_a_new_index(t, i, i, j)
      t2 == fixup_neighbours_of_node_to_point_to_a_new_index(t1, j, j, i)
  IN  swap_child_index(swap_child_index(swap_parent_index(t2, i, j), "left", i, j),
                       "right", i, j)

swap_root_index(t, i, j) ==
  [t EXCEPT !.root_index = IF t.root_index = i THEN j
                           ELSE IF t.root_index = j THEN i ELSE t.root_index]

swap_nodes_excluding_key_and_value_impl(t, i, j) ==
  LET t1 == IF child_index(t, "left", j) = i THEN SwapWithParent(t, "left", i, j)
            ELSE IF child_index(t, "right", j) = i THEN SwapWithParent(t, "right", i, j)
            ELSE SwapStrangers(t, i, j)
  IN  swap_color(swap_root_index(t1, i, j), i, j)

(* Mutant: the keys are exchanged and the nodes are not. *)
SwapKeysInstead(t, i, j) ==
  [t EXCEPT !.storage.array[i] = key(t, j), !.storage.array[j] = key(t, i)]

swap_nodes_excluding_key_and_value(t, i, j) ==
  IF parent_index(t, j) = i THEN swap_nodes_excluding_key_and_value_impl(t, j, i)
                            ELSE swap_nodes_excluding_key_and_value_impl(t, i, j)

(* The cases of fix_after_deletion.  A red sibling: its parent takes its   *)
(* colour and goes down.                                                   *)
RotateRedSibling(t, side, p, sib) ==
  IF color_of(t, sib) # COLOR_RED THEN t
  ELSE rotate(set_color(set_color(t, sib, COLOR_BLACK), p, COLOR_RED), side, p)

(* A black far nephew: the near one, which is red, takes the place of the  *)
(* sibling.                                                                *)
RotateNearNephew(t, side, sib) ==
  IF color_of(t, child_index_of(t, Opposite(side), sib)) # COLOR_BLACK THEN t
  ELSE rotate(set_color(set_color(t, child_index_of(t, side, sib), COLOR_BLACK),
                        sib, COLOR_RED), Opposite(side), sib)

(* A red far nephew: the sibling takes the place of the parent, and that   *)
(* ends the loop.                                                          *)
RaiseSibling(t, side, p, sib) ==
  LET t1 == set_color(set_color(t, sib, color_of(t, p)), p, COLOR_BLACK)
  IN  rotate(set_color(t1, child_index_of(t, Opposite(side), sib), COLOR_BLACK), side, p)

SiblingOf(t, side, idx) == child_index_of(t, Opposite(side), parent_index_of(t, idx))
AtRoot(t) == [tree |-> t, idx |-> t.root_index]

FixBlackSibling(t, side, idx) ==
  LET sib == SiblingOf(t, side, idx)
      Raised(u) == RaiseSibling(u, side, parent_index_of(u, idx), SiblingOf(u, side, idx))
  IN  IF \A s \in Sides : color_of(t, child_index_of(t, s, sib)) = COLOR_BLACK
      THEN [tree |-> set_color(t, sib, COLOR_RED), idx |-> parent_index_of(t, idx)]
      ELSE AtRoot(Raised(RotateNearNephew(t, side, sib)))

(* One iteration of the loop of fix_after_deletion, at a node idx whose    *)
(* side of the tree lacks a black node.                                    *)
FixDeletionStep(t, idx) ==
  LET p    == parent_index_of(t, idx)
      side == IF idx = child_index_of(t, "left", p) THEN "left" ELSE "right"
  IN  FixBlackSibling(RotateRedSibling(t, side, p, SiblingOf(t, side, idx)), side, idx)

Blackened(s) == set_color(s.tree, s.idx, COLOR_BLACK)

(* Mutant: the black node that idx lacks is not looked for further up. *)
FixDeletionOnce(t, deleted) ==
  Blackened(IF deleted # t.root_index /\ color_of(t, deleted) = COLOR_BLACK
            THEN FixDeletionStep(t, deleted) ELSE [tree |-> t, idx |-> deleted])

fix_after_deletion(t, deleted) ==
  LET fix[n \in Nat] ==
        IF n = 0 THEN [tree |-> t, idx |-> deleted]
        ELSE LET s == fix[n - 1]
             IN  IF s.idx # s.tree.root_index /\ color_of(s.tree, s.idx) = COLOR_BLACK
                 THEN FixDeletionStep(s.tree, s.idx) ELSE s
  IN  Blackened(fix[MAXIMUM_SIZE])

(* The part of the deletion that takes node i, which has at most one       *)
(* child, out of the tree: the child takes its place and the tree is       *)
(* rebalanced, or it is rebalanced with the node in it, which is cut off   *)
(* then.                                                                   *)
UnlinkNode(t, i) ==
  LET l == child_index(t, "left", i)
      replacement == IF l # NULL_INDEX THEN l ELSE child_index(t, "right", i)
      p == parent_index(t, i)
      Rebalanced(u, at) == IF color(t, i) = COLOR_BLACK THEN fix_after_deletion(u, at) ELSE u
      CutOff(u) == redirect_parent(u, parent_index(u, i), i, NULL_INDEX)
  IN  IF replacement # NULL_INDEX
      THEN Rebalanced(replace_child(set_parent_index(t, replacement, p), p, i, replacement),
                      replacement)
      ELSE CutOff(Rebalanced(t, i))

decrement_size(t) == [t EXCEPT !.size = t.size - 1]

(* The storage destroys node i.  The contiguous one moves its last node    *)
(* there; the links that led to it are led to its new index.               *)
ReleaseNode(t, i) ==
  LET last == Repositioned(t.storage)
      gone == [t EXCEPT !.storage = delete_at_and_return_repositioned_index(@, i),
                        !.node[i] = NewNode(NoValue)]
      moved == [t EXCEPT !.storage = contiguous_delete(@, i),
                         !.node[i] = t.node[last], !.node[last] = NewNode(NoValue)]
      t1 == fixup_neighbours_of_node_to_point_to_a_new_index(moved, i, last, i)
  IN  IF ~t.contiguous THEN gone
      ELSE IF last = i THEN moved
      ELSE [t1 EXCEPT !.root_index = IF @ = last THEN i ELSE @]

(* Mutant: the successor keeps the index from which it was moved. *)
DeletionForgetsRepositioning(t, i) ==
  LET successor == index_of_successor_at(t, i)
      two  == \A side \in Sides : child_index(t, side, i) # NULL_INDEX
      t1   == IF two THEN swap_nodes_excluding_key_and_value(t, i, successor) ELSE t
  IN  IF t.size = 1
      THEN [tree |-> [ReleaseNode(t, i) EXCEPT !.root_index = NULL_INDEX, !.size = 0],
            successor |-> NULL_INDEX, repositioned |-> NULL_INDEX]
      ELSE [tree |-> ReleaseNode(UnlinkNode(decrement_size(t1), i), i),
            successor |-> successor, repositioned |-> i]

(* delete_at_and_return_successor_and_repositioned.  The successor is      *)
(* found first, and its index corrected if the storage has moved it.       *)
delete_at_and_return_successor_and_repositioned(t, i) ==
  LET successor == index_of_successor_at(t, i)
      last == IF t.contiguous THEN Repositioned(t.storage) ELSE i
      two  == \A side \in Sides : child_index(t, side, i) # NULL_INDEX
      t1   == IF two THEN swap_nodes_excluding_key_and_value(t, i, successor) ELSE t
  IN  IF t.size = 1
      THEN [tree |-> [ReleaseNode(t, i) EXCEPT !.root_index = NULL_INDEX, !.size = 0],
            successor |-> NULL_INDEX, repositioned |-> NULL_INDEX]
      ELSE [tree |-> ReleaseNode(UnlinkNode(decrement_size(t1), i), i),
            successor |-> IF successor = last THEN i ELSE successor,
            repositioned |-> last]

(* delete_range_and_return_successor, past its assertion that the ends are *)
(* in order.                                                               *)
delete_range_and_return_successor(t, from, to) ==
  LET After(s, d) ==
        IF d.tree.size = 0 THEN [s EXCEPT !.tree = d.tree]
        ELSE [tree |-> d.tree, index |-> d.successor,
              to   |-> IF s.to = d.repositioned THEN s.index ELSE s.to]
      loop[n \in Nat] ==
        IF n = 0 THEN [tree |-> t, index |-> from, to |-> to]
        ELSE LET s == loop[n - 1] IN
             IF s.index = s.to \/ s.tree.size = 0 THEN s
             ELSE After(s, delete_at_and_return_successor_and_repositioned(s.tree, s.index))
      Result(s) == [tree |-> s.tree, successor |-> s.to]
  IN  Result(loop[t.size])

tree_clear(t) ==
  delete_range_and_return_successor(t, index_of_min_at(t), NULL_INDEX).tree

-----------------------------------------------------------------------------
(* The nodes in key order, as the loops over index_of_successor_at meet    *)
(* them.                                                                   *)
InOrder(t) ==
  LET walk[n \in Nat] ==
        IF n <= 1 THEN index_of_min_at(t) ELSE index_of_successor_at(t, walk[n - 1])
  IN  [n \in 1 .. t.size |-> walk[n]]

(* The loop of the copying special members: the nodes of other are         *)
(* inserted into t in key order.                                           *)
InsertAllFrom(t, other) ==
  LET nodes == InOrder(other)
      fill[n \in Nat] ==
        IF n = 0 THEN t
        ELSE LET s == fill[n - 1]
             IN  insert_if_not_present(s, key(other, nodes[n]), value(other, nodes[n]))
  IN  fill[other.size]

(* What the moving loop leaves in the source: keys that were moved from. *)
MovedOutTree(t) ==
  [t EXCEPT !.storage.array =
     [i \in Slots |-> IF i \in Live(t.storage) THEN MovedFrom ELSE @[i]]]

-----------------------------------------------------------------------------
(* What makes t a red-black search tree of the nodes in its storage. *)
KeysOf(t) == {key(t, i) : i \in Live(t.storage)}

LinksAreMutual(t) ==
  \A i \in Live(t.storage) :
    /\ \A side \in Sides :
         LET c == child_index(t, side, i) IN
         c # NULL_INDEX => c \in Live(t.storage) /\ parent_index(t, c) = i
    /\ LET p == parent_index(t, i) IN
       IF p = NULL_INDEX THEN t.root_index = i
       ELSE p \in Live(t.storage) /\ \E side \in Sides : child_index(t, side, p) = i

NoRedRed(t) ==
  /\ color_of(t, t.root_index) = COLOR_BLACK
  /\ \A i \in Live(t.storage) :
       color(t, i) = COLOR_RED => color_of(t, parent_index(t, i)) = COLOR_BLACK

(* The black nodes on the way from i up to the root. *)
BlacksAbove(t, i) ==
  LET up[n \in Nat] == IF n = 0 THEN i ELSE parent_index_of(t, up[n - 1])
      path == {up[n] : n \in 0 .. t.size} \ {NULL_INDEX}
      blacks == {j \in path : color(t, j) = COLOR_BLACK}
      count[n \in Nat] ==
        IF n = 0 THEN 0 ELSE count[n - 1] + IF n - 1 \in blacks THEN 1 ELSE 0
  IN  count[MAXIMUM_SIZE]

EqualBlackHeights(t) ==
  \A i, j \in Live(t.storage) :
    (\E s, r \in Sides : child_index(t, s, i) = NULL_INDEX /\ child_index(t, r, j) = NULL_INDEX)
      => BlacksAbove(t, i) = BlacksAbove(t, j)

IsRedBlackTree(t) == LinksAreMutual(t) /\ NoRedRed(t) /\ EqualBlackHeights(t)
=============================================================================
