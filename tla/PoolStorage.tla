---------------------------- MODULE PoolStorage ----------------------------
(***************************************************************************)
(* The state machine of one FixedIndexBasedPoolStorage object driven by a  *)
(* client that keeps the contract of the class: it deletes only indices    *)
(* that hold a value.  Emplacing into a full pool aborts the program.      *)
(***************************************************************************)
EXTENDS IndexBasedStorage

VARIABLES
  pool,          (* array_ and next_index_                                 *)
  pool_aborted   (* assert_or_abort has fired                              *)

pool_vars == <<pool, pool_aborted>>

PoolInit == pool = EmptyPool /\ pool_aborted = FALSE

Emplace(v) ==
  /\ ~pool_aborted /\ ~full(pool)
  /\ pool' = emplace_and_return_index(pool, v)
  /\ UNCHANGED pool_aborted

EmplaceIntoFull ==
  /\ ~pool_aborted /\ full(pool)
  /\ pool_aborted' = TRUE
  /\ UNCHANGED pool

Delete(i) ==
  /\ ~pool_aborted /\ i \in Live(pool)
  /\ pool' = delete_at_and_return_repositioned_index(pool, i)
  /\ UNCHANGED pool_aborted

PoolNext ==
  \/ \E v \in Values : Emplace(v)
  \/ EmplaceIntoFull
  \/ \E i \in Slots : Delete(i)

PoolSpec == PoolInit /\ [][PoolNext]_pool_vars

-----------------------------------------------------------------------------
(* array_ and next_index_ hold what their types and the freelist allow.    *)
PoolTypeOK == pool \in Pools /\ pool_aborted \in BOOLEAN

(* The freelist visits every free cell once and no occupied one, whatever  *)
(* order cells were deleted in: emplace can neither overwrite a stored     *)
(* value nor lose a cell for good (emplace_and_return_index,               *)
(* delete_at_and_return_repositioned_index).                               *)
FreelistCoversFreeCells == WellFormedPool(pool)

(* The assertion in emplace_and_return_index fires only when every cell    *)
(* really holds a value: no history of calls makes a pool look full early. *)
AbortsOnlyWhenAllLive == pool_aborted => Live(pool) = Slots

(* Handing out or taking back one index never disturbs another stored      *)
(* value: indices stay valid until they are deleted.                       *)
StoredValuesStay ==
  [][/\ \A i \in Live(pool) : i \in Live(pool)' => pool'.array[i] = pool.array[i]
     /\ \A i, j \in Live(pool) : i # j => i \in Live(pool)' \/ j \in Live(pool)']_pool_vars
=============================================================================
