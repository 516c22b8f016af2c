----------------------------- MODULE FixedVector -----------------------------
(***************************************************************************)
(* FixedVector: an array of MAXIMUM_SIZE cells and a size; position k lies *)
(* in cell k.  FixedStack is StackAdapter over a FixedVector.              *)
(***************************************************************************)
EXTENDS Naturals, Sequences

CONSTANTS
  MAXIMUM_SIZE, Values, MovedFrom, Raw,
  Objects, NoObject, Builds, MaxRange, EmptyRanges, AliasMovedElements

VARIABLES objects, call, undefined, aborted, build

ASSUME MaximumSizeIsPositive == MAXIMUM_SIZE \in Nat \ {0}
ASSUME MaxRangeIsNat == MaxRange \in Nat
ASSUME RawIsNoValue == Raw \notin Values \cup {MovedFrom}

front_index(c) == 0
end_index(c)   == c.size
back_index(c)  == end_index(c) - 1
AtPosition(c, k) == front_index(c) + k
set_size_zero(c) == [c EXCEPT !.size = 0]

(* The default constructor leaves the array uninitialized. *)
EmptyVector == [cells |-> [a \in 0 .. MAXIMUM_SIZE - 1 |-> Raw], ub |-> FALSE, size |-> 0]

INSTANCE SequenceContainer
  WITH EmptyObject <- EmptyVector, AtIterator <- AtPosition, AtIndex <- AtPosition,
       FrontIndex <- front_index, EndIndex <- end_index, BackIndex <- back_index,
       Reset <- set_size_zero

(* StackAdapter: the top is the back. *)
StackPush(o, v) == PushBack(o, v)
StackPop(o)     == PopBack(o)
top(o)          == Back(o)

StackCall(o) == StackPop(o) \/ top(o) \/ \E v \in Values : StackPush(o, v)

Next == \/ \E o \in Objects :
             /\ Construction(o) \/ Lifetime(o) \/ CommonCall(o) \/ GrowingCall(o)
                  \/ StackCall(o)
             /\ UNCHANGED build
        \/ Halted

Spec == Init /\ [][Next]_vars

Sequence == INSTANCE BoundedSequences WITH seqs <- Abstract, Circular <- FALSE

(* A FixedVector is a bounded sequence: every call has the effect and the  *)
(* result that std::vector documents, and aborts exactly when the vector   *)
(* must refuse it (full, empty, index or range outside).                   *)
RefinesSequences == Sequence!Spec
=============================================================================
