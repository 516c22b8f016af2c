------------------------- MODULE IndexBasedStorage -------------------------
(***************************************************************************)
(* FixedIndexBasedPoolStorage<T, MAXIMUM_SIZE>: a slab of MAXIMUM_SIZE     *)
(* cells, each a union of a value and the index of the next free cell      *)
(* (IndexOrValueStorage), and the head of that freelist.  A freelist that  *)
(* has run out points at MAXIMUM_SIZE.                                     *)
(*                                                                         *)
(* The operators take a pool and return the pool the member function       *)
(* leaves behind, so that the containers built on the pool can call them.  *)
(* A union cell is modelled by what was last written to it: an element of  *)
(* Links if that was the index member, any other element of Cells if it    *)
(* was the value member.                                                   *)
(***************************************************************************)
EXTENDS Naturals

CONSTANTS
  MAXIMUM_SIZE,  (* template parameter: the number of cells                *)
  Values,        (* the values of T that clients store                     *)
  MovedFrom      (* the state in which std::move leaves a T                *)

ASSUME MaximumSizeIsNat == MAXIMUM_SIZE \in Nat

Slots == 0 .. MAXIMUM_SIZE - 1
Links == 0 .. MAXIMUM_SIZE

(* What the value member of a cell may hold. *)
Contents == Values \cup {MovedFrom}

ASSUME ContentsAreNotLinks == Contents \cap Links = {}

Pools == [array : [Slots -> Links \cup Contents], next_index : Links]

(* The default constructor chains every cell to its right neighbour. *)
EmptyPool == [array |-> [i \in Slots |-> i + 1], next_index |-> 0]

full(p) == p.next_index = MAXIMUM_SIZE

(* Mutants: the bugs that the checked properties would reveal. *)
EmplaceSkipsFreelist(p, v) ==
  [p EXCEPT !.array[p.next_index] = v, !.next_index = @ + 1]
EmplaceForgetsFreelist(p, v) ==
  [array |-> [p.array EXCEPT ![p.next_index] = v], next_index |-> MAXIMUM_SIZE]
DeleteLosesFreelist(p, i) ==
  [array |-> [p.array EXCEPT ![i] = MAXIMUM_SIZE], next_index |-> i]
DeleteLinksOnePast(p, i) ==
  [array |-> [p.array EXCEPT ![i] = p.next_index + 1], next_index |-> i]

(* emplace_and_return_index, past its assert_or_abort(!full()): the result *)
(* is the index that next_index named before the call.                     *)
emplace_and_return_index(p, v) ==
  [array      |-> [p.array EXCEPT ![p.next_index] = v],
   next_index |-> p.array[p.next_index]]

delete_at_and_return_repositioned_index(p, i) ==
  [array |-> [p.array EXCEPT ![i] = p.next_index], next_index |-> i]

(* The cells whose value member is active. *)
Live(p) == {i \in Slots : p.array[i] \in Contents}

(* The cells that a walk along the freelist meets. *)
Freelisted(p) ==
  LET step[k \in Nat] ==
        IF k = 0 THEN p.next_index
        ELSE IF step[k - 1] \in Slots THEN p.array[step[k - 1]] ELSE step[k - 1]
  IN  {step[k] : k \in Links} \cap Slots

(* Mutant: the head of the freelist is not set. *)
FreelistWithoutHead(this, other, constant_evaluated) ==
  [this EXCEPT !.array = [i \in Slots |-> IF i \in Live(other) THEN @[i] ELSE other.array[i]]]

(* Where the program is evaluated by the compiler the links are copied one *)
(* by one along the freelist.  At run time memcpy takes the whole array;   *)
(* the bits it leaves in a cell whose value is alive in other are no value *)
(* and no link of a free cell ("makes _no guarantees_ about the contents   *)
(* of full slots"), so the model leaves such a cell as it was.             *)
set_freelist_state_from_other(this, other, constant_evaluated) ==
  LET links == IF constant_evaluated THEN Freelisted(other) ELSE Slots \ Live(other) IN
  [array |-> [i \in Slots |-> IF i \in links THEN other.array[i] ELSE this.array[i]],
   next_index |-> other.next_index]

-----------------------------------------------------------------------------

(* f lists the cells of the freelist of p from its head to its end. *)
IsFreelist(p, n, f) ==
  /\ \A j, k \in 1 .. n : f[j] = f[k] => j = k
  /\ p.next_index = IF n = 0 THEN MAXIMUM_SIZE ELSE f[1]
  /\ \A k \in 1 .. n :
       p.array[f[k]] = IF k = n THEN MAXIMUM_SIZE ELSE f[k + 1]

(* The freelist is a duplicate-free path from next_index to MAXIMUM_SIZE   *)
(* through exactly the cells that hold no value.                           *)
WellFormedPool(p) ==
  \E n \in 0 .. MAXIMUM_SIZE : \E f \in [1 .. n -> Slots] :
    /\ IsFreelist(p, n, f)
    /\ \A i \in Slots : i \notin Live(p) <=> \E k \in 1 .. n : f[k] = i

-----------------------------------------------------------------------------
(* FixedIndexBasedContiguousStorage<T, MAXIMUM_SIZE>: the values occupy    *)
(* the first cells of a FixedVector.  Deleting a value moves the last one  *)
(* into its place, so that the index of the last value changes.            *)
(*                                                                         *)
(* The record is that of the pool: array holds the cells, next_index is    *)
(* nodes().size(), and a cell past the end holds no value.                 *)
EmptyContiguous ==
  [array |-> [i \in Slots |-> MAXIMUM_SIZE], next_index |-> 0]

(* emplace_back, on a vector that is not full; the result is the index     *)
(* that next_index named before the call.                                  *)
contiguous_emplace(p, v) ==
  [array |-> [p.array EXCEPT ![p.next_index] = v], next_index |-> p.next_index + 1]

(* nodes().size() after the pop_back: the index the moved value had, which *)
(* is returned as the repositioned index.                                  *)
Repositioned(p) == p.next_index - 1

(* Cell i is destroyed and constructed again from back(), and back() is    *)
(* popped.  When i is the last cell, the value is constructed from the one *)
(* just destroyed, in the same cell, and popped at once.                   *)
contiguous_delete(p, i) ==
  LET last == Repositioned(p) IN
  [array |-> [p.array EXCEPT ![i] = p.array[last], ![last] = MAXIMUM_SIZE],
   next_index |-> last]

WellFormedContiguous(p) == Live(p) = 0 .. p.next_index - 1
=============================================================================
