--------------------------- MODULE FixedMapAndSet ---------------------------
(***************************************************************************)
(* A container built on the red-black tree, a FixedMap or a FixedSet, with *)
(* pool or contiguous storage, and what must hold of it.                   *)
(***************************************************************************)
EXTENDS FixedMap, FixedSet

CONSTANTS End, Unspecified

Next ==
  /\ MapNext \/ SetNext \/ SpecialMembers
  /\ UNCHANGED inst

Spec == Init /\ [][Next]_vars

(* The freelist of a pool leads through the free cells to its end. *)
FreelistIsExact(p) ==
  LET walk[n \in Nat] == IF n = 0 THEN p.next_index ELSE p.array[walk[n - 1]]
      free == Slots \ Live(p)
  IN  /\ {walk[n] : n \in 0 .. Cardinality(free) - 1} = free
      /\ walk[Cardinality(free)] = MAXIMUM_SIZE

WellFormed(t) ==
  /\ t \in TreeObjects
  /\ IsRedBlackTree(t)
  /\ t.size = Cardinality(Live(t.storage))
  /\ IF t.contiguous THEN WellFormedContiguous(t.storage) ELSE FreelistIsExact(t.storage)

(* After every insertion, deletion and copy (fix_after_insertion,          *)
(* fix_after_deletion, swap_nodes_excluding_key_and_value, the             *)
(* repositioning of contiguous storage) the parent and child links agree,  *)
(* the root is black, no red node has a red parent, every path has the     *)
(* same number of black nodes, and exactly the nodes of the tree are alive *)
(* in the storage.                                                         *)
TreesWellFormed == WellFormed(tree) /\ (temp # NoTree => WellFormed(temp))

(* index_of_node_with_parent and the lookups built on it (find,            *)
(* lower_bound, upper_bound, equal_range, index_of_node_floor,             *)
(* index_of_node_lower) find exactly the keys that the order defines, for  *)
(* keys that are present and keys that are not.                            *)
LookupsAreExact ==
  LET nodes == Live(tree.storage)
      Least(S, none) ==
        IF S = {} THEN none ELSE CHOOSE i \in S : \A j \in S : key(tree, i) <= key(tree, j)
      Greatest(S, none) ==
        IF S = {} THEN none ELSE CHOOSE i \in S : \A j \in S : key(tree, i) >= key(tree, j)
  IN  \A k \in Keys :
        LET np    == index_of_node_with_parent(tree, k)
            lower == Least({i \in nodes : key(tree, i) >= k}, end)
            upper == Least({i \in nodes : key(tree, i) > k}, end)
        IN  /\ find(tree, k) = Least({i \in nodes : key(tree, i) = k}, end)
            /\ lower_bound(tree, k) = lower /\ upper_bound(tree, k) = upper
            /\ equal_range(tree, k) = <<lower, upper>>
            /\ index_of_node_lower(tree, np) = Greatest({i \in nodes : key(tree, i) < k}, NULL_INDEX)
            /\ index_of_node_floor(tree, np) = Greatest({i \in nodes : key(tree, i) <= k}, NULL_INDEX)

(* The iterators walk through the keys in order: ++ from begin() to end(), *)
(* -- back again, and the reverse iterators of FixedMap from rbegin() to   *)
(* rend(), with base() leading back to end() and begin() unless the        *)
(* container is empty.                                                     *)
IterationIsSorted ==
  LET n == tree.size
      Smaller(i) == Cardinality({k \in KeysOf(tree) : k < key(tree, i)})
      forward[j \in Nat] == IF j = 0 THEN begin(tree) ELSE advance(tree, forward[j - 1])
      backward[j \in Nat] == IF j = 0 THEN end ELSE recede(tree, backward[j - 1])
      reverse[j \in Nat] == IF j = 0 THEN rbegin(tree) ELSE recede(tree, reverse[j - 1])
  IN  /\ forward[n] = end /\ reverse[n] = rend(tree)
      /\ \A j \in 1 .. n :
           /\ Smaller(forward[j - 1]) = j - 1
           /\ Smaller(backward[j]) = n - j
           /\ reverse[j - 1] = backward[j]
      /\ n > 0 => base(tree, rbegin(tree)) = end /\ base(tree, rend(tree)) = begin(tree)

(* "C++ requires that iterators for sorted maps are not invalidated [...]  *)
(* Therefore, memory locations of entries cannot be moved"                 *)
(* (delete_at_and_return_successor_and_repositioned): with pool storage,   *)
(* an entry that an operation leaves in the container stays in its node.   *)
IteratorsStayValid ==
  [][(~tree.contiguous /\ temp = NoTree /\ temp' = NoTree) =>
       \A i \in Live(tree.storage) :
         key(tree, i) \in KeysOf(tree') => key(tree', i) = key(tree, i)]_vars

(* "use NULL_INDEX for rend()" (FixedSet): stepping from rbegin() once per *)
(* element reaches rend().                                                 *)
SetReverseIterationEnds ==
  LET reverse[j \in Nat] == IF j = 0 THEN set_crbegin(tree) ELSE recede(tree, reverse[j - 1])
  IN  inst.is_set /\ tree.size > 0 => set_crend(tree) = reverse[tree.size]

-----------------------------------------------------------------------------
DictOf(t) ==
  LET nodes == Live(t.storage) IN
  [k \in {key(t, i) : i \in nodes} |-> value(t, CHOOSE i \in nodes : key(t, i) = k)]

Abstract == INSTANCE SortedDictionary WITH
  Mapped <- Mapped \cup {NoValue},
  Universes <- {Keys},
  NoDict <- NoTree,
  dict <- DictOf(tree),
  copy <- IF temp = NoTree THEN NoTree
          ELSE IF MovedFrom \in KeysOf(temp) THEN Unspecified ELSE DictOf(temp),
  result <- [call |-> result.call,
             key |-> IF result.pos = end THEN End
                     ELSE IF result.pos \in Live(tree.storage) THEN key(tree, result.pos)
                     ELSE Unspecified,
             flag |-> result.flag]

(* A FixedMap or FixedSet behaves as a dictionary sorted by key; erase of  *)
(* a position, of a range or by a predicate returns or goes on from the    *)
(* entry that follows, also when the storage has moved that entry.         *)
RefinesSortedDictionary == Abstract!Spec
=============================================================================
