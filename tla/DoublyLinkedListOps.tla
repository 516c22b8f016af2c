------------------------ MODULE DoublyLinkedListOps ------------------------
(***************************************************************************)
(* FixedDoublyLinkedList<T, MAXIMUM_SIZE>: the values live in a pool, and  *)
(* a parallel array of next/prev indices chains the occupied cells in list *)
(* order.  Entry MAXIMUM_SIZE of the chain (NULL_INDEX) is the sentinel    *)
(* before the first and after the last element.  Entries of free cells     *)
(* keep whatever was last written to them.                                 *)
(*                                                                         *)
(* As in IndexBasedStorage, an operator takes a list and returns the list  *)
(* that the member function leaves behind.                                 *)
(***************************************************************************)
EXTENDS IndexBasedStorage

NULL_INDEX == MAXIMUM_SIZE

ListObjects == [storage : Pools, next : [Links -> Links],
                prev : [Links -> Links], size : Links]

(* The default constructor: a zeroed chain, the sentinel pointing to       *)
(* itself, a pool with nothing in it.                                      *)
EmptyList ==
  LET chain == [i \in Links |-> IF i = NULL_INDEX THEN NULL_INDEX ELSE 0]
  IN  [storage |-> EmptyPool, next |-> chain, prev |-> chain, size |-> 0]

front_index(l) == l.next[NULL_INDEX]
back_index(l)  == l.prev[NULL_INDEX]

-----------------------------------------------------------------------------
(* Mutant of delete_at. *)
DeleteForgetsForwardLink(l, idx) ==
  [storage |-> delete_at_and_return_repositioned_index(l.storage, idx),
   next    |-> l.next,
   prev    |-> [l.prev EXCEPT ![l.next[idx]] = l.prev[idx]],
   size    |-> l.size - 1]

(* emplace_after_index_and_return_index on a list that is not full.  The   *)
(* four link assignments run in the order of the code; the new index is    *)
(* the head of the freelist.                                               *)
emplace_after_index(l, idx, v) ==
  LET new   == l.storage.next_index
      next1 == [l.next EXCEPT ![new] = l.next[idx]]
      prev1 == [l.prev EXCEPT ![next1[new]] = new]
      prev2 == [prev1 EXCEPT ![new] = idx]
      next2 == [next1 EXCEPT ![idx] = new]
  IN  [storage |-> emplace_and_return_index(l.storage, v),
       next |-> next2, prev |-> prev2, size |-> l.size + 1]

(* delete_at_and_return_next_index; the index it returns is NextAfterDelete. *)
delete_at(l, idx) ==
  LET next1 == [l.next EXCEPT ![l.prev[idx]] = l.next[idx]]
      prev1 == [l.prev EXCEPT ![next1[idx]] = l.prev[idx]]
  IN  [storage |-> delete_at_and_return_repositioned_index(l.storage, idx),
       next |-> next1, prev |-> prev1, size |-> l.size - 1]

(* Mutants of the index that is returned. *)
PrevAfterDelete(l, idx) == l.prev[idx]
SentinelAfterDelete(l, idx) == NULL_INDEX

NextAfterDelete(l, idx) == delete_at(l, idx).next[idx]

-----------------------------------------------------------------------------
(* The indices that a walk along next meets when it starts at i, up to the *)
(* sentinel.                                                               *)
WalkFrom(l, i) ==
  LET step[k \in Nat] ==
        IF k = 0 THEN i
        ELSE IF step[k - 1] = NULL_INDEX THEN NULL_INDEX ELSE l.next[step[k - 1]]
  IN  {step[k] : k \in Links}

(* The cells that the loop from front_index() to NULL_INDEX visits. *)
Chained(l) == WalkFrom(l, front_index(l)) \ {NULL_INDEX}

(* nontrivial_copy_impl: the chain arrives as it is, the freelist by       *)
(* set_freelist_state_from_other, and then the loop along the chain of     *)
(* other constructs each value at the index it has there.                  *)
nontrivial_copy_impl(this, other, constant_evaluated) ==
  LET free == set_freelist_state_from_other(this.storage, other.storage, constant_evaluated)
  IN  [storage |-> [free EXCEPT !.array =
         [i \in Slots |-> IF i \in Chained(other) THEN other.storage.array[i] ELSE @[i]]],
       next |-> other.next, prev |-> other.prev, size |-> other.size]

(* The copy in a program that runs, and in one that the compiler evaluates. *)
Copies(this, other) == {nontrivial_copy_impl(this, other, ce) : ce \in BOOLEAN}

(* What nontrivial_move_impl leaves in the source. *)
MovedOut(other) ==
  [other EXCEPT !.storage.array =
     [i \in Slots |-> IF i \in Chained(other) THEN MovedFrom ELSE @[i]]]

(* The list after clear(): its elements, in list order, have been deleted  *)
(* one by one, so that each ends up in front of the freelist.              *)
ClearedList(l) ==
  LET left[k \in 0 .. l.size] ==
        IF k = 0 THEN l ELSE delete_at(left[k - 1], front_index(left[k - 1]))
  IN  left[l.size]

-----------------------------------------------------------------------------
(* w is the list order, the sentinel standing at both ends of it: next     *)
(* leads along it and prev leads back.                                     *)
IsListOrder(l, n, w) ==
  LET at(k) == IF k \in 1 .. n THEN w[k] ELSE NULL_INDEX IN
  /\ \A j, k \in 1 .. n : w[j] = w[k] => j = k
  /\ \A k \in 0 .. n : l.next[at(k)] = at(k + 1) /\ l.prev[at(k + 1)] = at(k)

(* The chain is one doubly linked cycle through the sentinel and exactly   *)
(* the cells that hold a value, and size counts them.                      *)
WellFormedChain(l) ==
  \E w \in [1 .. l.size -> Slots] :
    /\ IsListOrder(l, l.size, w)
    /\ \A i \in Slots : i \in Live(l.storage) <=> \E k \in 1 .. l.size : w[k] = i

(* The elements of l in list order, each with its index. *)
Items(l) ==
  LET walk[k \in 0 .. l.size] == IF k = 0 THEN NULL_INDEX ELSE l.next[walk[k - 1]]
  IN  [k \in 1 .. l.size |-> <<walk[k], l.storage.array[walk[k]]>>]
=============================================================================
