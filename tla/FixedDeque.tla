----------------------------- MODULE FixedDeque -----------------------------
(***************************************************************************)
(* FixedDeque: an array of MAXIMUM_SIZE cells, the number of elements and  *)
(* start, an unbounded index that push_front lowers and pop_front raises.  *)
(* It begins at STARTING_OFFSET, half the range of std::size_t; an index   *)
(* minus the offset, wrapped around the array, is a cell.  Iterators hold  *)
(* such unwrapped indices.  FixedQueue is QueueAdapter over a FixedDeque.  *)
(*                                                                         *)
(* MaxDrift bounds how far start moves from the offset between two calls   *)
(* of clear; it stands for the 2^63 calls that would exhaust the index.    *)
(***************************************************************************)
EXTENDS Integers, Sequences

CONSTANTS
  MAXIMUM_SIZE, Values, MovedFrom, Raw,
  Objects, NoObject, Builds, MaxRange, EmptyRanges, AliasMovedElements,
  STARTING_OFFSET, MaxDrift

VARIABLES objects, call, undefined, aborted, build

ASSUME MaximumSizeIsPositive == MAXIMUM_SIZE \in Nat \ {0}
ASSUME MaxRangeIsNat == MaxRange \in Nat
ASSUME RawIsNoValue == Raw \notin Values \cup {MovedFrom}
ASSUME DriftStaysPositive ==
  STARTING_OFFSET \in Nat /\ MaxDrift \in Nat /\ MaxDrift < STARTING_OFFSET

-----------------------------------------------------------------------------
(* circular_indexing.hpp: moving an index within a range of consecutive    *)
(* numbers, wrapping around, in unsigned arithmetic that must not go below *)
(* zero.  A range is [start, distance]; the result counts the cycles made. *)
CyclesAndInteger(cycles, integer) == [cycles |-> cycles, integer |-> integer]

increment_index_with_wraparound(range, index, n) ==
  IF range.distance = 0 THEN CyclesAndInteger(0, 0)
  ELSE LET adjust_to_zero == (index + n) - range.start
           quotient  == adjust_to_zero \div range.distance
           remainder == adjust_to_zero - quotient * range.distance
       IN  CyclesAndInteger(quotient, remainder + range.start)

(* Mutant: a full cycle is not added before the subtraction. *)
decrement_without_a_cycle(range, index, n) ==
  IF range.distance = 0 THEN CyclesAndInteger(0, 0)
  ELSE LET positive_modulo == n - (n \div range.distance) * range.distance
       IN  increment_index_with_wraparound(range, index, positive_modulo)

decrement_index_with_wraparound(range, index, n) ==
  IF range.distance = 0 THEN CyclesAndInteger(0, 0)
  ELSE LET negative_cycles == (n \div range.distance) + 1
           positive_modulo == negative_cycles * range.distance - n
           out == increment_index_with_wraparound(range, index, positive_modulo)
       IN  [out EXCEPT !.cycles = @ - negative_cycles]

-----------------------------------------------------------------------------
FULL_RANGE == [start |-> 0, distance |-> MAXIMUM_SIZE]

increment(index, n) == increment_index_with_wraparound(FULL_RANGE, index, n).integer
decrement(index, n) == decrement_index_with_wraparound(FULL_RANGE, index, n).integer

front_index(c) == decrement(c.start, STARTING_OFFSET)
end_index(c)   == increment(front_index(c), c.size)
back_index(c)  == decrement(end_index(c), 1)

(* Mutant: the offset is forgotten. *)
IterateWithoutOffset(c, k) == increment(0, c.start + k)

(* ReferenceProvider::get of begin() + k.  It asserts that k is within the *)
(* deque; the actions dereference only such iterators, and where the code  *)
(* would get another one, in an insertion at begin() of a full circular    *)
(* deque, the action ends in the abort.                                    *)
IteratorGet(c, k) == decrement(c.start + k, STARTING_OFFSET)
AtAdjusted(c, k)  == increment(front_index(c), k)

reset_indices(c) == [c EXCEPT !.start = STARTING_OFFSET, !.size = 0]

EmptyDeque == [cells |-> [a \in 0 .. MAXIMUM_SIZE - 1 |-> Raw], ub |-> FALSE,
               size |-> 0, start |-> STARTING_OFFSET]

INSTANCE SequenceContainer
  WITH EmptyObject <- EmptyDeque, AtIterator <- IteratorGet, AtIndex <- AtAdjusted,
       FrontIndex <- front_index, EndIndex <- end_index, BackIndex <- back_index,
       Reset <- reset_indices

Drifts == (STARTING_OFFSET - MaxDrift) .. (STARTING_OFFSET + MaxDrift)

(* Mutant: the element is placed before the start moves. *)
place_before_start_moves(c, v) ==
  [construct_at(c, front_index(c), v) EXCEPT !.start = @ - 1, !.size = @ + 1]

(* push_front and pop_front, past their checks. *)
place_front(c, v) ==
  LET d == [c EXCEPT !.start = @ - 1]
  IN  [construct_at(d, front_index(d), v) EXCEPT !.size = @ + 1]

drop_front(c) ==
  [destroy_at(c, front_index(c)) EXCEPT !.start = @ + 1, !.size = @ - 1]

PushFront(o, v) ==
  /\ Usable(o) /\ objects[o].start - 1 \in Drifts
  /\ Checked(HasRoomFor(o, 1), CallWith("push_front", o, 0, <<v>>), 0,
             o, place_front(objects[o], v))

PopFront(o) ==
  /\ Usable(o) /\ objects[o].start + 1 \in Drifts
  /\ Checked(objects[o].size > 0, Call("pop_front", o), 0, o, drop_front(objects[o]))

(* QueueAdapter: in at the back, out at the front. *)
QueuePush(o, v) == PushBack(o, v)
QueuePop(o)     == PopFront(o)
QueueFront(o)   == Front(o)
QueueBack(o)    == Back(o)

QueueCall(o) == \/ QueuePop(o) \/ QueueFront(o) \/ QueueBack(o)
                \/ \E v \in Values : QueuePush(o, v)

Next == \/ \E o \in Objects :
             /\ \/ Construction(o) \/ Lifetime(o) \/ CommonCall(o) \/ GrowingCall(o)
                \/ PopFront(o) \/ QueueCall(o)
                \/ \E v \in Values : PushFront(o, v)
             /\ UNCHANGED build
        \/ Halted

Spec == Init /\ [][Next]_vars

Sequence == INSTANCE BoundedSequences WITH seqs <- Abstract, Circular <- FALSE

(* A FixedDeque is a bounded sequence wherever its start has drifted to:   *)
(* every call has the effect and the result that std::deque documents, and *)
(* aborts exactly when the deque must refuse it.                           *)
RefinesSequences == Sequence!Spec

(* at(k) and the iterator to position k, which reach the array by          *)
(* different computations, name the same cell, and the positions of a      *)
(* deque lie in different cells however the deque has wrapped around.      *)
IndexingAgrees ==
  \A o \in Objects : objects[o] # NoObject =>
    LET c == objects[o] IN
    /\ \A k \in 0 .. c.size - 1 : AtAdjusted(c, k) = IteratorGet(c, k)
    /\ \A k, m \in 0 .. c.size - 1 : IteratorGet(c, k) = IteratorGet(c, m) => k = m
    /\ c.size > 0 => back_index(c) = IteratorGet(c, c.size - 1)
    /\ c.size < MAXIMUM_SIZE => end_index(c) \notin ElementCells(c)
=============================================================================
