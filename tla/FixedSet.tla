------------------------------ MODULE FixedSet ------------------------------
(***************************************************************************)
(* The members of FixedSet<K, MAXIMUM_SIZE, ...>, which holds the same     *)
(* tree with EmptyValue for V.                                             *)
(***************************************************************************)
EXTENDS TreeContainer

SetIdle == Idle /\ inst.is_set

(* insert, with or without a hint, and emplace. *)
set_insert(k) ==
  /\ MayInsert /\ inst.is_set /\ ClientInserts(k, DefaultValue)
  /\ InsertNew(<<"insert", k, NoValue>>, k, NoValue)

set_insert_range(ks) == SetIdle /\ ClientInsertsRange(ks) /\ InsertKeys(ks, NoValue)

set_erase(pos) == SetIdle /\ EraseNode(pos)

set_erase_range(first, last) == SetIdle /\ EraseNodes(first, last)

set_erase_key(k) == SetIdle /\ EraseKey(k)

set_clear == SetIdle /\ Nothing(<<"clear">>, tree_clear(tree))

set_erase_if(pred) == SetIdle /\ EraseWhere(pred)

SetNext ==
  \/ \E k \in Keys : set_insert(k) \/ set_erase_key(k)
  \/ \E pos \in Iterators(tree) :
       set_erase(pos) \/ \E last \in Iterators(tree) : set_erase_range(pos, last)
  \/ \E ks \in Ranges : set_insert_range(ks)
  \/ \E pred \in Predicates : set_erase_if(pred)
  \/ set_clear

-----------------------------------------------------------------------------
(* crbegin() and crend(): the latter starts from node 0. *)
set_crbegin(t) == ReverseIterator(t, MAXIMUM_SIZE)
set_crend(t) == ReverseIterator(t, 0)
=============================================================================
