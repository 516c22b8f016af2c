--------------------------- MODULE TreeContainer ---------------------------
(***************************************************************************)
(* What FixedMap and FixedSet have in common: the one member, a            *)
(* FixedRedBlackTree, its iterators, and its special members.              *)
(*                                                                         *)
(* The client works on one container, `tree'.  It may have a second one,   *)
(* `temp', constructed from the first, which it then assigns back or       *)
(* destroys before it goes on.                                             *)
(*                                                                         *)
(* A failed check ends the process, so what a call did before it failed is *)
(* never seen again.                                                       *)
(***************************************************************************)
EXTENDS RedBlackTree, FiniteSets, Sequences

CONSTANTS
  NoTree,         (* in place of temp when it is not alive                 *)
  DefaultValue,   (* V{}                                                   *)
  Predicates,     (* the predicates given to erase_if, as sets of keys     *)
  Ranges,         (* the ranges of keys given to insert(first, last)       *)
  SingleKeys,     (* bound: the keys inserted one by one                   *)
  Instantiations  (* the template instantiations, with the bounds on them  *)

ASSUME KeysAreIntegers == Values \subseteq Int
ASSUME DefaultValueIsMapped == DefaultValue \in Mapped
ASSUME PredicatesAreSetsOfKeys == Predicates \subseteq SUBSET Values
ASSUME RangesAreOfKeys == Ranges \subseteq Seq(Values) /\ SingleKeys \subseteq Values
(* TriviallyCopyable: of K and V.  Bounds: the client makes a container    *)
(* grow past `grow' keys only by inserting a range into an empty one, and  *)
(* gives ranges of at most `bulk' keys.                                    *)
ASSUME InstantiationsAreRecords ==
  Instantiations \subseteq [is_set : BOOLEAN, contiguous : BOOLEAN,
                           TriviallyCopyable : BOOLEAN, grow : Nat, bulk : Nat]

Keys == Values

VARIABLES
  tree,      (* the client's container                                     *)
  temp,      (* the one constructed from it, or NoTree                     *)
  result,    (* the last call, with its keys and values, and its result    *)
  aborted,   (* a check failed                                             *)
  inst       (* the template instantiation; never changes                  *)

vars == <<tree, temp, result, aborted, inst>>

-----------------------------------------------------------------------------
(* PairProvider and ReferenceProvider: an iterator is a node index, with   *)
(* MAXIMUM_SIZE for end() and NULL_INDEX for rend().                       *)
replace_null_index_with_max_size_for_end_iterator(i) ==
  IF i = NULL_INDEX THEN MAXIMUM_SIZE ELSE i

(* Mutant: an iterator that runs off the end keeps the tree's NULL_INDEX. *)
AdvanceToNull(t, i) ==
  IF i = NULL_INDEX THEN index_of_min_at(t) ELSE index_of_successor_at(t, i)

advance(t, i) ==
  IF i = NULL_INDEX THEN index_of_min_at(t)
  ELSE replace_null_index_with_max_size_for_end_iterator(index_of_successor_at(t, i))

recede(t, i) ==
  IF i = MAXIMUM_SIZE THEN index_of_max_at(t) ELSE index_of_predecessor_at(t, i)

begin(t) == replace_null_index_with_max_size_for_end_iterator(index_of_min_at(t))
end == MAXIMUM_SIZE

(* BidirectionalIterator: the constructor of a reverse iterator steps once,*)
(* and base() steps back.                                                  *)
ReverseIterator(t, i) == recede(t, i)
base(t, i) == advance(t, i)

rbegin(t) == ReverseIterator(t, MAXIMUM_SIZE)
rend(t) == ReverseIterator(t, index_of_min_at(t))

(* get_node_index_from_iterator, with the end as NULL_INDEX. *)
NodeOf(pos) == IF pos = end THEN NULL_INDEX ELSE pos

Iterators(t) == Live(t.storage) \cup {end}

-----------------------------------------------------------------------------
(* What a call without a result is taken to return. *)
NoResult == [call |-> <<"special">>, pos |-> end, flag |-> FALSE]

Init ==
  /\ inst \in Instantiations
  /\ tree = EmptyTree(inst.contiguous)
  /\ temp = NoTree
  /\ result = NoResult
  /\ aborted = FALSE

Idle == ~aborted /\ temp = NoTree
(* Bound: while there is a second container, the client inserts only into  *)
(* an empty one.                                                           *)
MayInsert == ~aborted /\ (temp # NoTree => tree.size = 0)

(* Bounds on the keys, and on the values: at most one key has another      *)
(* value than DefaultValue.                                                *)
ClientInserts(k, v) ==
  /\ k \in SingleKeys
  /\ k \in KeysOf(tree) \/ tree_full(tree) \/ tree.size < inst.grow
  /\ v = DefaultValue \/ \A i \in Live(tree.storage) : value(tree, i) \in {DefaultValue, NoValue}
ClientInsertsRange(ks) ==
  Len(ks) <= inst.bulk /\ (tree.size = 0 \/ tree.size + Len(ks) <= inst.grow)

Returns(call, t, pos, flag) ==
  /\ tree' = t
  /\ result' = [call |-> call, pos |-> replace_null_index_with_max_size_for_end_iterator(pos),
                flag |-> flag]
  /\ UNCHANGED <<temp, aborted>>

Aborts == aborted' = TRUE /\ UNCHANGED <<tree, temp, result>>

Nothing(call, t) == Returns(call, t, end, FALSE)

(* The body that the inserting members share: nothing for a key that is    *)
(* there, length_error (check_not_full) for a new one in a full tree.      *)
InsertNew(call, k, v) ==
  LET np == index_of_node_with_parent(tree, k) IN
  \/ contains_at(np.i) /\ Returns(call, tree, np.i, FALSE)
  \/ ~contains_at(np.i) /\ tree_full(tree) /\ Aborts
  \/ /\ ~contains_at(np.i) /\ ~tree_full(tree)
     /\ Returns(call, insert_new_at(tree, np, k, v), tree.storage.next_index, TRUE)

(* insert(first, last): one insertion after the other. *)
InsertKeys(ks, v) ==
  LET fill[n \in Nat] ==
        IF n = 0 THEN tree ELSE insert_if_not_present(fill[n - 1], ks[n], v)
      new == {ks[n] : n \in DOMAIN ks} \ KeysOf(tree)
  IN  \/ tree.size + Cardinality(new) <= MAXIMUM_SIZE /\ Nothing(<<"insert_range", ks>>, fill[Len(ks)])
      \/ tree.size + Cardinality(new) > MAXIMUM_SIZE /\ Aborts

(* The assertion of delete_range_and_return_successor.  The client never   *)
(* gives a range that starts at end() and stops before it.                 *)
InOrderRange(t, from, to) ==
  (from # NULL_INDEX /\ to # NULL_INDEX) => compare(key(t, from), key(t, to)) <= 0

(* The tree and the iterator that a deletion d leaves. *)
ReturnsNext(call, d, flag) == Returns(call, d.tree, d.successor, flag)

EraseNode(pos) ==
  \/ pos = end /\ Aborts
  \/ /\ pos # end
     /\ ReturnsNext(<<"erase">>, delete_at_and_return_successor_and_repositioned(tree, pos), TRUE)

EraseNodes(first, last) ==
  /\ first = end => last = end
  /\ \/ ~InOrderRange(tree, NodeOf(first), NodeOf(last)) /\ Aborts
     \/ /\ InOrderRange(tree, NodeOf(first), NodeOf(last))
        /\ ReturnsNext(<<"erase_range">>,
                       delete_range_and_return_successor(tree, NodeOf(first), NodeOf(last)), FALSE)

(* delete_node *)
EraseKey(k) ==
  LET i == index_of_node_or_null(tree, k) IN
  \/ ~contains_at(i) /\ Nothing(<<"erase_key", k>>, tree)
  \/ /\ contains_at(i)
     /\ Returns(<<"erase_key", k>>,
                delete_at_and_return_successor_and_repositioned(tree, i).tree, end, TRUE)

(* erase_if_impl: the loop goes on from the iterator that erase returned.  *)
EraseWhere(pred) ==
  LET After(d) ==
        [tree |-> d.tree, it |-> replace_null_index_with_max_size_for_end_iterator(d.successor)]
      loop[n \in Nat] ==
        IF n = 0 THEN [tree |-> tree, it |-> begin(tree)]
        ELSE LET s == loop[n - 1] IN
             IF s.it = end THEN s
             ELSE IF key(s.tree, s.it) \in pred
             THEN After(delete_at_and_return_successor_and_repositioned(s.tree, s.it))
             ELSE [s EXCEPT !.it = advance(s.tree, s.it)]
  IN  Nothing(<<"erase_if", pred>>, loop[tree.size].tree)

-----------------------------------------------------------------------------
(* The copy constructor: a trivial copy, or the nodes of other inserted in *)
(* key order into an empty tree.                                           *)
CopyConstructed(other) ==
  IF inst.TriviallyCopyable THEN other
  ELSE InsertAllFrom(EmptyTree(other.contiguous), other)

(* Bound: only small containers are copied. *)
CopyConstruct ==
  /\ Idle /\ tree.size <= inst.grow
  /\ temp' = CopyConstructed(tree)
  /\ result' = NoResult /\ UNCHANGED <<tree, aborted>>

(* The move constructor clears the source, unless it is trivial. *)
MoveConstruct ==
  /\ Idle /\ tree.size <= inst.grow
  /\ temp' = CopyConstructed(tree)
  /\ tree' = IF inst.TriviallyCopyable THEN tree ELSE tree_clear(MovedOutTree(tree))
  /\ result' = NoResult /\ UNCHANGED aborted

(* operator=: clear(), then the insertions. *)
Assigned(t, other) ==
  IF inst.TriviallyCopyable THEN other ELSE InsertAllFrom(tree_clear(t), other)

CopyAssign ==
  /\ ~aborted /\ temp # NoTree /\ MovedFrom \notin KeysOf(temp)
  /\ tree' = Assigned(tree, temp)
  /\ result' = NoResult /\ UNCHANGED <<temp, aborted>>

(* Move assignment leaves the moved-from keys in the source. *)
MoveAssign ==
  /\ ~aborted /\ temp # NoTree /\ MovedFrom \notin KeysOf(temp)
  /\ tree' = Assigned(tree, temp)
  /\ temp' = IF inst.TriviallyCopyable THEN temp ELSE MovedOutTree(temp)
  /\ result' = NoResult /\ UNCHANGED aborted

(* clear() on a container that was moved from: it compares no keys. *)
ClearTemp ==
  /\ ~aborted /\ temp # NoTree
  /\ temp' = tree_clear(temp)
  /\ result' = NoResult /\ UNCHANGED <<tree, aborted>>

Destroy ==
  /\ ~aborted /\ temp # NoTree
  /\ temp' = NoTree
  /\ result' = NoResult /\ UNCHANGED <<tree, aborted>>

SpecialMembers ==
  CopyConstruct \/ MoveConstruct \/ CopyAssign \/ MoveAssign \/ ClearTemp \/ Destroy
=============================================================================
