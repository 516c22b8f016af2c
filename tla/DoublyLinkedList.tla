-------------------------- MODULE DoublyLinkedList --------------------------
(***************************************************************************)
(* FixedDoublyLinkedList objects and their lifetimes: construction, the    *)
(* emplace and delete operations, copying, moving, destruction.  The       *)
(* client passes indices of the object it calls, and ranges that lie in    *)
(* list order, as FixedList and the hashtable do.                          *)
(*                                                                         *)
(* delete_range_and_return_next_index (also clear(), the assignments and   *)
(* the destructor) is a loop that destroys one value per iteration, with   *)
(* the destructor of T run in the middle of each: every iteration is a     *)
(* step of its own, and `loop' holds what the call still has to do.        *)
(***************************************************************************)
EXTENDS DoublyLinkedListOps, FiniteSets

CONSTANTS
  Objects,             (* the list objects of the program                  *)
  NoObject,            (* in place of a list that is not alive             *)
  NoLoop               (* no delete_range loop is running                  *)

ASSUME NoObjectIsNoList == NoObject \notin ListObjects

(* Nor is it the sequence of a list's elements. *)
ASSUME NoObjectIsNoSequence == \A n \in Links : NoObject \notin [1 .. n -> Slots \X Contents]

VARIABLES
  lists,    (* the list objects                                            *)
  loop,     (* the delete_range loop in progress                           *)
  aborted,  (* assert_or_abort has fired                                   *)
  TriviallyCopyable   (* whether T selects the defaulted special members;  *)
                      (* never changes                                     *)

vars == <<lists, loop, aborted, TriviallyCopyable>>

(* What follows the loop: nothing (clear, delete_range, move construction),*)
(* the body of an assignment, the end of the object's life.                *)
Continuations == {"return", "copy", "move", "destroy"}

Loops == [list : Objects, idx : Links, to : Links,
          then : Continuations, other : Objects]

Init ==
  /\ lists = [o \in Objects |-> NoObject]
  /\ loop = NoLoop
  /\ aborted = FALSE
  /\ TriviallyCopyable \in BOOLEAN

Alive(o) == lists[o] # NoObject
Idle == ~aborted /\ loop = NoLoop

(* The positions of a list: its elements and the sentinel. *)
Positions(l) == Live(l.storage) \cup {NULL_INDEX}

-----------------------------------------------------------------------------
(* The effect of emplace_after_index_and_return_index(idx, v) on o: the    *)
(* assertion of the pool fires after increment_size.                       *)
EmplaceAfter(o, idx, v) ==
  /\ UNCHANGED loop
  /\ \/ /\ ~full(lists[o].storage)
        /\ lists' = [lists EXCEPT ![o] = emplace_after_index(@, idx, v)]
        /\ UNCHANGED aborted
     \/ /\ full(lists[o].storage)
        /\ aborted' = TRUE
        /\ UNCHANGED lists

Construct(o) ==
  /\ Idle /\ ~Alive(o)
  /\ lists' = [lists EXCEPT ![o] = EmptyList]
  /\ UNCHANGED <<loop, aborted>>

emplace_after_index_and_return_index(o, idx, v) ==
  /\ Idle /\ Alive(o) /\ idx \in Positions(lists[o])
  /\ EmplaceAfter(o, idx, v)

emplace_before_index_and_return_index(o, idx, v) ==
  /\ Idle /\ Alive(o) /\ idx \in Positions(lists[o])
  /\ EmplaceAfter(o, lists[o].prev[idx], v)

emplace_back_and_return_index(o, v) ==
  /\ Idle /\ Alive(o)
  /\ EmplaceAfter(o, back_index(lists[o]), v)

emplace_front_and_return_index(o, v) ==
  /\ Idle /\ Alive(o)
  /\ EmplaceAfter(o, lists[o].prev[front_index(lists[o])], v)

delete_at_and_return_next_index(o, idx) ==
  /\ Idle /\ Alive(o) /\ idx \in Live(lists[o].storage)
  /\ lists' = [lists EXCEPT ![o] = delete_at(@, idx)]
  /\ UNCHANGED <<loop, aborted>>

-----------------------------------------------------------------------------
StartLoop(o, from, to, then, other) ==
  loop' = [list |-> o, idx |-> from, to |-> to, then |-> then, other |-> other]

delete_range_and_return_next_index(o, from, to) ==
  /\ Idle /\ Alive(o)
  /\ from \in Positions(lists[o]) /\ to \in WalkFrom(lists[o], from)
  /\ StartLoop(o, from, to, "return", o)
  /\ UNCHANGED <<lists, aborted>>

clear(o) ==
  /\ Idle /\ Alive(o)
  /\ StartLoop(o, front_index(lists[o]), NULL_INDEX, "return", o)
  /\ UNCHANGED <<lists, aborted>>

(* One iteration: idx = delete_at_and_return_next_index(idx). *)
LoopBody ==
  /\ loop # NoLoop /\ loop.idx # loop.to
  /\ lists' = [lists EXCEPT ![loop.list] = delete_at(@, loop.idx)]
  /\ loop' = [loop EXCEPT !.idx = NextAfterDelete(lists[loop.list], loop.idx)]
  /\ UNCHANGED aborted

(* Mutant: the loop waits for the end of the list, not of the range. *)
LoopEndAtSentinel ==
  /\ loop # NoLoop /\ loop.idx = loop.to /\ loop.idx = NULL_INDEX
  /\ loop' = NoLoop
  /\ UNCHANGED <<lists, aborted>>

(* The loop condition has become false; the caller goes on. *)
LoopEnd ==
  /\ loop # NoLoop /\ loop.idx = loop.to
  /\ loop' = NoLoop
  /\ UNCHANGED aborted
  /\ \/ /\ loop.then = "return"
        /\ UNCHANGED lists
     \/ /\ loop.then = "copy"
        /\ \E copy \in Copies(lists[loop.list], lists[loop.other]) :
             lists' = [lists EXCEPT ![loop.list] = copy]
     \/ /\ loop.then = "move"
        /\ \E copy \in Copies(lists[loop.list], lists[loop.other]) :
             lists' = [lists EXCEPT ![loop.list] = copy, ![loop.other] = MovedOut(@)]
     \/ /\ loop.then = "destroy"
        /\ lists' = [lists EXCEPT ![loop.list] = NoObject]

-----------------------------------------------------------------------------
(* The defaulted constructors, when T is trivially copyable. *)
TrivialConstruct(o, other) ==
  /\ TriviallyCopyable
  /\ Idle /\ ~Alive(o) /\ Alive(other)
  /\ lists' = [lists EXCEPT ![o] = lists[other]]
  /\ UNCHANGED <<loop, aborted>>

(* FixedDoublyLinkedList(const FixedDoublyLinkedList& other) *)
CopyConstruct(o, other) ==
  /\ ~TriviallyCopyable
  /\ Idle /\ ~Alive(o) /\ Alive(other)
  /\ \E copy \in Copies(EmptyList, lists[other]) : lists' = [lists EXCEPT ![o] = copy]
  /\ UNCHANGED <<loop, aborted>>

(* FixedDoublyLinkedList(FixedDoublyLinkedList&& other) *)
MoveConstruct(o, other) ==
  /\ ~TriviallyCopyable
  /\ Idle /\ ~Alive(o) /\ Alive(other)
  /\ \E copy \in Copies(EmptyList, lists[other]) :
       lists' = [lists EXCEPT ![o] = copy, ![other] = MovedOut(@)]
  /\ StartLoop(other, front_index(lists[other]), NULL_INDEX, "return", other)
  /\ UNCHANGED aborted

(* Defaulted copy and move assignment. *)
TrivialAssign(o, other) ==
  /\ TriviallyCopyable
  /\ Idle /\ Alive(o) /\ Alive(other)
  /\ lists' = [lists EXCEPT ![o] = lists[other]]
  /\ UNCHANGED <<loop, aborted>>

(* operator=: nothing on self-assignment, else clear() and the copy. *)
CopyAssign(o, other) ==
  /\ ~TriviallyCopyable
  /\ Idle /\ Alive(o) /\ Alive(other) /\ o # other
  /\ StartLoop(o, front_index(lists[o]), NULL_INDEX, "copy", other)
  /\ UNCHANGED <<lists, aborted>>

MoveAssign(o, other) ==
  /\ ~TriviallyCopyable
  /\ Idle /\ Alive(o) /\ Alive(other) /\ o # other
  /\ StartLoop(o, front_index(lists[o]), NULL_INDEX, "move", other)
  /\ UNCHANGED <<lists, aborted>>

(* The destructor; a trivial one runs nothing. *)
TrivialDestroy(o) ==
  /\ TriviallyCopyable
  /\ Idle /\ Alive(o)
  /\ lists' = [lists EXCEPT ![o] = NoObject]
  /\ UNCHANGED <<loop, aborted>>

Destroy(o) ==
  /\ ~TriviallyCopyable
  /\ Idle /\ Alive(o)
  /\ StartLoop(o, front_index(lists[o]), NULL_INDEX, "destroy", o)
  /\ UNCHANGED <<lists, aborted>>

-----------------------------------------------------------------------------
Insertion(o) ==
  \E v \in Values :
    \/ \E idx \in Links : emplace_after_index_and_return_index(o, idx, v)
    \/ \E idx \in Links : emplace_before_index_and_return_index(o, idx, v)
    \/ emplace_back_and_return_index(o, v)
    \/ emplace_front_and_return_index(o, v)

Removal(o) ==
  \/ \E idx \in Slots : delete_at_and_return_next_index(o, idx)
  \/ \E from, to \in Links : delete_range_and_return_next_index(o, from, to)
  \/ clear(o)

Lifetime(o) ==
  \/ Construct(o)
  \/ TrivialDestroy(o)
  \/ Destroy(o)
  \/ \E other \in Objects :
       \/ TrivialConstruct(o, other)
       \/ CopyConstruct(o, other)
       \/ MoveConstruct(o, other)
       \/ TrivialAssign(o, other)
       \/ CopyAssign(o, other)
       \/ MoveAssign(o, other)

Loop == LoopBody \/ LoopEnd

Next ==
  /\ Loop \/ \E o \in Objects : Insertion(o) \/ Removal(o) \/ Lifetime(o)
  /\ UNCHANGED TriviallyCopyable

(* A member function that has been called runs on until it returns. *)
Spec == Init /\ [][Next]_vars /\ WF_vars(Loop /\ UNCHANGED TriviallyCopyable)

-----------------------------------------------------------------------------
TypeOK ==
  /\ lists \in [Objects -> ListObjects \cup {NoObject}]
  /\ loop \in Loops \cup {NoLoop}
  /\ aborted \in BOOLEAN

(* Every member is in its range and, between any two steps, also in the    *)
(* middle of a delete_range loop, the chain is one cycle through the       *)
(* sentinel that links exactly the cells whose value is alive, in both     *)
(* directions; size counts them; and the freelist holds the other cells    *)
(* (emplace_after_index_and_return_index, delete_at_and_return_next_index; *)
(* nontrivial_copy_impl, which takes chain, freelist and values one after  *)
(* the other).                                                             *)
ListsWellFormed ==
  TypeOK /\ \A o \in Objects : Alive(o) =>
    WellFormedPool(lists[o].storage) /\ WellFormedChain(lists[o])

(* The loop of delete_range_and_return_next_index still has its end ahead  *)
(* of it, and the object it copies from is another one that is alive.      *)
LoopStaysInItsList ==
  loop # NoLoop =>
    /\ Alive(loop.list) /\ loop.to \in WalkFrom(lists[loop.list], loop.idx)
    /\ loop.then \in {"copy", "move"} => Alive(loop.other) /\ loop.other # loop.list

(* "Warning: assumes the destination (`this`) is already clear of any      *)
(* values!" (nontrivial_copy_impl, nontrivial_move_impl): when an          *)
(* assignment or a destructor goes on after clear(), nothing is left that  *)
(* would leak or be constructed over.                                      *)
NothingLeaks ==
  (loop # NoLoop /\ loop.idx = loop.to /\ loop.then # "return") =>
    Live(lists[loop.list].storage) = {}

(* Every delete_range, clear, assignment and destructor comes to an end.   *)
LoopsEnd == loop # NoLoop ~> loop = NoLoop

-----------------------------------------------------------------------------
Abstract == INSTANCE IndexedSequences WITH
  Indices <- Slots,
  seqs <- [o \in Objects |-> IF lists[o] = NoObject THEN NoObject ELSE Items(lists[o])]

(* The linked list with its sentinel, recycled cells and stale links       *)
(* behaves as a sequence whose elements keep their indices, also through   *)
(* copies and moves (what FixedUnorderedMap relies on).                    *)
RefinesSequences == Abstract!Spec
=============================================================================
