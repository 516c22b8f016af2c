------------------------------ MODULE FixedMap ------------------------------
(***************************************************************************)
(* The members of FixedMap<K, V, MAXIMUM_SIZE, ...> that change the map,   *)
(* and the lookups that find a place in it.                                *)
(***************************************************************************)
EXTENDS TreeContainer

MapIdle == Idle /\ ~inst.is_set
MapMayInsert == MayInsert /\ ~inst.is_set

insert(k, v) == MapMayInsert /\ ClientInserts(k, v) /\ InsertNew(<<"insert", k, v>>, k, v)

try_emplace(k, v) == MapMayInsert /\ ClientInserts(k, v) /\ InsertNew(<<"insert", k, v>>, k, v)

(* operator[]: a new key gets a value-initialized V. *)
subscript(k) ==
  /\ MapMayInsert /\ ClientInserts(k, DefaultValue)
  /\ InsertNew(<<"insert", k, DefaultValue>>, k, DefaultValue)

insert_range(ks) == MapIdle /\ ClientInsertsRange(ks) /\ InsertKeys(ks, DefaultValue)

insert_or_assign(k, v) ==
  LET i == index_of_node_or_null(tree, k) IN
  /\ MapMayInsert /\ ClientInserts(k, v)
  /\ \/ contains_at(i) /\ Returns(<<"insert_or_assign", k, v>>, set_value(tree, i, v), i, FALSE)
     \/ ~contains_at(i) /\ InsertNew(<<"insert_or_assign", k, v>>, k, v)

(* at: out_of_range for a key that is not there. *)
at(k) ==
  LET i == index_of_node_or_null(tree, k) IN
  /\ MapIdle
  /\ \/ contains_at(i) /\ Returns(<<"at", k>>, tree, i, TRUE)
     \/ ~contains_at(i) /\ Aborts

erase(pos) == MapIdle /\ EraseNode(pos)

erase_range(first, last) == MapIdle /\ EraseNodes(first, last)

erase_key(k) == MapIdle /\ EraseKey(k)

clear == MapIdle /\ Nothing(<<"clear">>, tree_clear(tree))

erase_if(pred) == MapIdle /\ EraseWhere(pred)

MapNext ==
  \/ \E k \in Keys :
       \/ subscript(k) \/ at(k) \/ erase_key(k)
       \/ \E v \in Mapped : insert(k, v) \/ try_emplace(k, v) \/ insert_or_assign(k, v)
  \/ \E pos \in Iterators(tree) :
       erase(pos) \/ \E last \in Iterators(tree) : erase_range(pos, last)
  \/ \E ks \in Ranges : insert_range(ks)
  \/ \E pred \in Predicates : erase_if(pred)
  \/ clear

-----------------------------------------------------------------------------
(* The lookups, as iterators. *)
find(t, k) == replace_null_index_with_max_size_for_end_iterator(index_of_node_or_null(t, k))

lower_bound(t, k) ==
  replace_null_index_with_max_size_for_end_iterator(
    index_of_node_ceiling(t, index_of_node_with_parent(t, k)))

upper_bound(t, k) ==
  replace_null_index_with_max_size_for_end_iterator(
    index_of_node_higher(t, index_of_node_with_parent(t, k)))

(* equal_range_impl *)
equal_range(t, k) ==
  LET np == index_of_node_with_parent(t, k)
      l  == index_of_node_ceiling(t, np)
      r  == IF contains_at(np.i) THEN index_of_successor_at(t, l) ELSE l
  IN  <<replace_null_index_with_max_size_for_end_iterator(l),
        replace_null_index_with_max_size_for_end_iterator(r)>>
=============================================================================
