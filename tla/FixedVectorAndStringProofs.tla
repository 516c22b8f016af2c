--------------------- MODULE FixedVectorAndStringProofs ---------------------
(***************************************************************************)
(* FixedVector uses no element outside its lifetime and leaks none, for    *)
(* every capacity, element type, number of objects and sequence of calls.  *)
(* The proof is SequenceContainerProofs' for the vector's indices.         *)
(*                                                                         *)
(* A FixedString, which holds its characters in a vector, is terminated    *)
(* after every call, for every capacity, every character set and every     *)
(* number of strings.  What the vector's algorithms leave alone is         *)
(* SequenceContainerProofs' again; the rest is where the string writes its *)
(* NULs.                                                                   *)
(***************************************************************************)
EXTENDS FixedString, SequenceTheorems, TLAPS

-----------------------------------------------------------------------------
(* The vector.  Nothing here uses what FixedString declares or assumes.    *)

Vectors == [cells : [0 .. MAXIMUM_SIZE - 1 -> Contents \cup {Raw}], ub : BOOLEAN,
            size : 0 .. MAXIMUM_SIZE]

Ops == INSTANCE SequenceContainerProofs
  WITH EmptyObject <- EmptyVector, AtIterator <- AtPosition, AtIndex <- AtPosition,
       FrontIndex <- front_index, EndIndex <- end_index, BackIndex <- back_index,
       Reset <- set_size_zero, Forms <- Vectors, Good <- Contents

(* The vector's fields and places are as the general proof needs them. *)
LEMMA VectorIsSound == Ops!Sound
<1>1. MAXIMUM_SIZE \in Nat
  BY MaximumSizeIsPositive
<1>2. Ops!FieldsAreSound
  BY <1>1 DEF Ops!FieldsAreSound, Ops!Memory, Ops!Cells, Ops!Contents, Contents, Vectors,
    Ops!WithCells, Ops!WithUb, Ops!WithSize, Ops!SamePlaces, AtPosition, front_index
<1>3. Ops!PlacesAreSound
  BY <1>1 DEF Ops!PlacesAreSound, Ops!Cells, AtPosition, front_index
<1>4. Ops!EndsAreSound
  BY <1>1 DEF Ops!EndsAreSound, Ops!Cells, Vectors, Contents, AtPosition, front_index,
    end_index, back_index, set_size_zero, EmptyVector
<1>5. Ops!ValuesAreSound
  BY RawIsNoValue DEF Ops!ValuesAreSound, Ops!Contents, Contents, Ops!MovedOut
<1> QED  BY <1>1, <1>2, <1>3, <1>4, <1>5 DEF Ops!Sound

(* The operators of the vector are those of the general proof. *)
LEMMA SameOperators ==
  /\ \A c, v : push_back_internal(c, v) = Ops!push_back_internal(c, v)
  /\ \A c : drop_back(c) = Ops!drop_back(c)
  /\ \A c : clear(c) = Ops!clear(c)
  /\ \A c : Elements(c) = Ops!Elements(c)
  /\ \A c, items : AppendAll(c, items) = Ops!AppendAll(c, items)
  /\ \A n, v : PlaceAll(n, v) = Ops!PlaceAll(n, v)
  /\ \A c, n, v : ResizeTo(c, n, v) = Ops!ResizeTo(c, n, v)
  /\ \A c, pos, v : InsertOne(c, pos, v) = Ops!InsertOne(c, pos, v)
  /\ \A c, pos, i : InsertAliased(c, pos, i) = Ops!InsertAliased(c, pos, i)
  /\ \A c, pos, items : InsertForward(c, pos, items) = Ops!InsertForward(c, pos, items)
  /\ \A c, pos, items : InsertInput(c, pos, items) = Ops!InsertInput(c, pos, items)
  /\ \A c, first, last : EraseRange(c, first, last) = Ops!EraseRange(c, first, last)
  /\ \A c, v : EraseValue(c, v) = Ops!EraseValue(c, v)
  /\ \A c : MovedOutElements(c) = Ops!MovedOutElements(c)
<1>1. \A m, i, v : construct_at(m, i, v) = Ops!construct_at(m, i, v)
  BY DEF construct_at, Ops!construct_at, TriviallyCopyable, Ops!TriviallyCopyable
<1>2. \A m, i : destroy_at(m, i) = Ops!destroy_at(m, i)
  BY DEF destroy_at, Ops!destroy_at, TriviallyCopyable, Ops!TriviallyCopyable
<1>3. \A v : MovedOut(v) = Ops!MovedOut(v)
  BY DEF MovedOut, Ops!MovedOut, TriviallyCopyable, Ops!TriviallyCopyable
<1>4. \A m, from, to : relocate(m, from, to) = Ops!relocate(m, from, to)
  BY <1>1, <1>2, <1>3 DEF relocate, Ops!relocate
<1>5. \A c, v : push_back_internal(c, v) = Ops!push_back_internal(c, v)
  BY <1>1 DEF push_back_internal, Ops!push_back_internal
<1>6. \A c : drop_back(c) = Ops!drop_back(c)
  BY <1>2 DEF drop_back, Ops!drop_back
<1>7. \A c, first, last : destroy_range(c, first, last) = Ops!destroy_range(c, first, last)
  BY DEF destroy_range, Ops!destroy_range, Iterate, Ops!Iterate, destroy_at,
    Ops!destroy_at, TriviallyCopyable, Ops!TriviallyCopyable
<1>8. \A c : clear(c) = Ops!clear(c)
  BY <1>7 DEF clear, Ops!clear
<1>9. \A c : Elements(c) = Ops!Elements(c)
  BY DEF Elements, Ops!Elements
<1>10. \A c, items : AppendAll(c, items) = Ops!AppendAll(c, items)
  BY DEF AppendAll, Ops!AppendAll, Iterate, Ops!Iterate, push_back_internal,
    Ops!push_back_internal, construct_at, Ops!construct_at, TriviallyCopyable,
    Ops!TriviallyCopyable
<1>11. \A n, v : PlaceAll(n, v) = Ops!PlaceAll(n, v)
  BY DEF PlaceAll, Ops!PlaceAll, Iterate, Ops!Iterate, construct_at,
    Ops!construct_at, TriviallyCopyable, Ops!TriviallyCopyable
<1>12. \A c, n, v : ResizeTo(c, n, v) = Ops!ResizeTo(c, n, v)
  BY DEF ResizeTo, Ops!ResizeTo, Iterate, Ops!Iterate, push_back_internal,
    Ops!push_back_internal, construct_at, Ops!construct_at, drop_back,
    Ops!drop_back, destroy_at, Ops!destroy_at, TriviallyCopyable,
    Ops!TriviallyCopyable
<1>13. \A c, pos, n :
        advance_all_after_iterator_by_n(c, pos, n)
          = Ops!advance_all_after_iterator_by_n(c, pos, n)
  BY DEF advance_all_after_iterator_by_n, Ops!advance_all_after_iterator_by_n,
    uninitialized_relocate_backward, Ops!uninitialized_relocate_backward, CellsFrom,
    Ops!CellsFrom, Iterate, Ops!Iterate, relocate, Ops!relocate, construct_at,
    Ops!construct_at, destroy_at, Ops!destroy_at, MovedOut, Ops!MovedOut,
    TriviallyCopyable, Ops!TriviallyCopyable
<1>14. \A c, pos, v : InsertOne(c, pos, v) = Ops!InsertOne(c, pos, v)
  BY <1>1, <1>13 DEF InsertOne, Ops!InsertOne
<1>15. \A c, pos, i : InsertAliased(c, pos, i) = Ops!InsertAliased(c, pos, i)
  BY <1>1, <1>13 DEF InsertAliased, Ops!InsertAliased
<1>16. \A c, pos, items : InsertForward(c, pos, items) = Ops!InsertForward(c, pos, items)
  BY DEF InsertForward, Ops!InsertForward, advance_all_after_iterator_by_n,
    Ops!advance_all_after_iterator_by_n, uninitialized_relocate_backward,
    Ops!uninitialized_relocate_backward, CellsFrom, Ops!CellsFrom, Iterate,
    Ops!Iterate, relocate, Ops!relocate, construct_at, Ops!construct_at, destroy_at,
    Ops!destroy_at, MovedOut, Ops!MovedOut, TriviallyCopyable, Ops!TriviallyCopyable
<1>17. \A c, first, middle : rotate(c, first, middle) = Ops!rotate(c, first, middle)
  BY DEF rotate, Ops!rotate, Rearranged, Ops!Rearranged
<1>18. \A c, pos, items : InsertInput(c, pos, items) = Ops!InsertInput(c, pos, items)
  BY <1>17, <1>10 DEF InsertInput, Ops!InsertInput
<1>19. \A c, first, last : EraseRange(c, first, last) = Ops!EraseRange(c, first, last)
  BY <1>7 DEF EraseRange, Ops!EraseRange, uninitialized_relocate,
    Ops!uninitialized_relocate, CellsFrom, Ops!CellsFrom, Iterate, Ops!Iterate,
    relocate, Ops!relocate, move_assign, Ops!move_assign, construct_at,
    Ops!construct_at, destroy_at, Ops!destroy_at, destroy_range, Ops!destroy_range,
    MovedOut, Ops!MovedOut, IsConstantEvaluated, Ops!IsConstantEvaluated,
    TriviallyCopyable, Ops!TriviallyCopyable
<1>20. \A c, v : EraseValue(c, v) = Ops!EraseValue(c, v)
  BY <1>19, ZenonT(60) DEF EraseValue, Ops!EraseValue, Without, Ops!Without, Elements,
    Ops!Elements, Rearranged, Ops!Rearranged, MovedOut, Ops!MovedOut,
    TriviallyCopyable, Ops!TriviallyCopyable
<1>21. \A c : MovedOutElements(c) = Ops!MovedOutElements(c)
  BY DEF MovedOutElements, Ops!MovedOutElements, Rearranged, Ops!Rearranged,
    MovedOut, Ops!MovedOut, TriviallyCopyable, Ops!TriviallyCopyable
<1> QED  BY <1>5, <1>6, <1>8, <1>9, <1>10, <1>11, <1>12, <1>14, <1>15, <1>16, <1>18, <1>19,
  <1>20, <1>21

(* And so are its calls. *)
LEMMA SameCalls ==
  ASSUME NEW o
  PROVE  /\ Construction(o) => Ops!Construction(o)
         /\ Lifetime(o) => Ops!Lifetime(o)
         /\ CommonCall(o) => Ops!CommonCall(o)
         /\ GrowingCall(o) => Ops!GrowingCall(o)
<1>1. /\ \A op, p : Call(op, p) = Ops!Call(op, p)
      /\ \A op, p, i, items : CallWith(op, p, i, items) = Ops!CallWith(op, p, i, items)
  BY DEF Call, Ops!Call, CallWith, Ops!CallWith
<1>2. \A c, ret, p, d : Returns(c, ret, p, d) <=> Ops!Returns(c, ret, p, d)
  BY DEF Returns, Ops!Returns
<1>3. \A c : Aborts(c) <=> Ops!Aborts(c)
  BY DEF Aborts, Ops!Aborts
<1>4. \A check, c, ret, p, d :
        Checked(check, c, ret, p, d) <=> Ops!Checked(check, c, ret, p, d)
  BY <1>2, <1>3 DEF Checked, Ops!Checked
<1>5. \A check, c, p, a : Reads(check, c, p, a) <=> Ops!Reads(check, c, p, a)
  BY <1>2, <1>3 DEF Reads, Ops!Reads
<1>6. \A p, n : HasRoomFor(p, n) <=> Ops!HasRoomFor(p, n)
  BY DEF HasRoomFor, Ops!HasRoomFor
<1>7. Construction(o) => Ops!Construction(o)
  BY <1>1, <1>2, <1>4, <1>5, <1>6, SameOperators DEF Construction, Ops!Construction,
    Construct, Ops!Construct, ConstructCount, Ops!ConstructCount, Fresh, Ops!Fresh,
    Ranges, Ops!Ranges, Counts, Ops!Counts
<1>8. Lifetime(o) => Ops!Lifetime(o)
  BY <1>1, <1>2, <1>4, <1>5, <1>6, SameOperators DEF Lifetime, Ops!Lifetime, Copy,
    Ops!Copy, Move, Ops!Move, MoveToItself, Ops!MoveToItself, Destroy, Ops!Destroy,
    Usable, Ops!Usable, TriviallyCopyable, Ops!TriviallyCopyable
<1>9. CommonCall(o) => Ops!CommonCall(o)
  BY <1>1, <1>2, <1>4, <1>5, <1>6, SameOperators DEF CommonCall, Ops!CommonCall,
    PopBack, Ops!PopBack, Front, Ops!Front, Back, Ops!Back, Clear, Ops!Clear, At,
    Ops!At, Erase, Ops!Erase, Resize, Ops!Resize, EraseAll, Ops!EraseAll, Usable,
    Ops!Usable, Positions, Ops!Positions, Counts, Ops!Counts, TriviallyCopyable,
    Ops!TriviallyCopyable
<1>10. GrowingCall(o) => Ops!GrowingCall(o)
  BY <1>1, <1>2, <1>4, <1>5, <1>6, SameOperators DEF GrowingCall, Ops!GrowingCall,
    PushBack, Ops!PushBack, PushBackElement, Ops!PushBackElement, Insert,
    Ops!Insert, InsertElement, Ops!InsertElement, InsertRange, Ops!InsertRange,
    InsertInputRange, Ops!InsertInputRange, AssignCount, Ops!AssignCount, Assign,
    Ops!Assign, Usable, Ops!Usable, Positions, Ops!Positions, Counts, Ops!Counts,
    Ranges, Ops!Ranges, PassableRange, Ops!PassableRange, TriviallyCopyable,
    Ops!TriviallyCopyable
<1> QED  BY <1>7, <1>8, <1>9, <1>10

(* The inductive invariant: between two calls each vector holds its        *)
(* elements and nothing else, and no call has used a cell amiss.           *)
VectorInv == Ops!AllIntact

LEMMA VectorInvHolds ==
  ASSUME ~EmptyRanges, ~AliasMovedElements
  PROVE  Spec => []VectorInv
<1>1. Ops!Sound /\ Ops!CarefulClients
  BY VectorIsSound, MaxRangeIsNat DEF Ops!CarefulClients
<1>2. Init => VectorInv
  <2>1. Init => Ops!Init
    BY DEF Init, Ops!Init, Call, Ops!Call
  <2> QED  BY <2>1, Ops!InitIntact DEF VectorInv
<1>3. VectorInv /\ [Next]_vars => VectorInv'
  <2> SUFFICES ASSUME Ops!AllIntact, [Next]_vars PROVE Ops!AllIntact'
    BY DEF VectorInv
  <2>1. ASSUME NEW o \in Objects, Construction(o), UNCHANGED build PROVE Ops!AllIntact'
    BY <1>1, <2>1, SameCalls, Ops!ConstructionIntact
  <2>2. ASSUME NEW o \in Objects, Lifetime(o), UNCHANGED build PROVE Ops!AllIntact'
    BY <1>1, <2>2, SameCalls, Ops!LifetimeIntact
  <2>3. ASSUME NEW o \in Objects, CommonCall(o), UNCHANGED build PROVE Ops!AllIntact'
    BY <1>1, <2>3, SameCalls, Ops!CommonCallIntact
  <2>4. ASSUME NEW o \in Objects, GrowingCall(o), UNCHANGED build PROVE Ops!AllIntact'
    BY <1>1, <2>4, SameCalls, Ops!GrowingCallIntact
  <2>5. ASSUME NEW o \in Objects, StackCall(o), UNCHANGED build PROVE Ops!AllIntact'
    <3>1. CommonCall(o) \/ GrowingCall(o)
      BY <2>5 DEF StackCall, StackPop, top, StackPush, CommonCall, GrowingCall
    <3> QED  BY <2>3, <2>4, <2>5, <3>1
  <2>6. ASSUME UNCHANGED vars PROVE Ops!AllIntact'
    BY <2>6, Ops!StutterIntact DEF vars, Ops!vars
  <2>7. ASSUME Halted PROVE Ops!AllIntact'
    BY <2>6, <2>7 DEF Halted
  <2> QED  BY <2>1, <2>2, <2>3, <2>4, <2>5, <2>6, <2>7 DEF Next
<1> QED  BY <1>2, <1>3, PTL DEF Spec

LEMMA VectorInvMeansLive ==
  VectorInv => LifetimesRespected /\ LiveCellsAreElements
BY VectorIsSound, Ops!IntactMeansLive
DEF VectorInv, LifetimesRespected, Ops!LifetimesRespected, LiveCellsAreElements,
  Ops!LiveCellsAreElements, ElementCells, Ops!ElementCells, Cells, Ops!Cells,
  TriviallyCopyable, Ops!TriviallyCopyable

(* No member of FixedVector constructs over a live element or destroys or  *)
(* reads a cell that holds none, for every capacity: not the relocations   *)
(* of insert and erase, not the appends and rotations, not the moves.  The *)
(* clients pass no empty range in front of elements that are not trivially *)
(* copyable (the run vector_empty_range shows why) and insert no reference *)
(* to an element that the insertion moves.                                 *)
THEOREM VectorLifetimes ==
  ASSUME ~EmptyRanges, ~AliasMovedElements
  PROVE  Spec => []LifetimesRespected
<1>1. Spec => []VectorInv
  BY VectorInvHolds
<1> QED  BY <1>1, VectorInvMeansLive, PTL

(* After every call the live elements of a FixedVector are those in        *)
(* begin() .. end(): erase, resize, clear and the moves leak none and      *)
(* leave no hole.                                                          *)
THEOREM VectorLiveCells ==
  ASSUME ~EmptyRanges, ~AliasMovedElements
  PROVE  Spec => []LiveCellsAreElements
<1>1. Spec => []VectorInv
  BY VectorInvHolds
<1> QED  BY <1>1, VectorInvMeansLive, PTL

-----------------------------------------------------------------------------
(* The string. *)

Strings == [cells : [0 .. MAXIMUM_SIZE - 1 -> Contents \cup {Raw}], ub : BOOLEAN,
            size : 0 .. MAXIMUM_SIZE]

Chars == INSTANCE SequenceContainerProofs
  WITH EmptyObject <- EmptyVector, AtIterator <- AtPosition, AtIndex <- AtPosition,
       FrontIndex <- front_index, EndIndex <- end_index, BackIndex <- back_index,
       Reset <- set_size_zero, Forms <- Strings, Good <- Values

LEMMA CharsAreSound ==
  ASSUME TriviallyCopyable
  PROVE  Chars!Sound /\ Chars!TriviallyCopyable
<1>1. MAXIMUM_SIZE \in Nat
  BY MaximumSizeIsPositive
<1>2. Chars!FieldsAreSound
  BY <1>1 DEF Chars!FieldsAreSound, Chars!Memory, Chars!Cells, Chars!Contents, Contents,
    Strings, Chars!WithCells, Chars!WithUb, Chars!WithSize, Chars!SamePlaces, AtPosition,
    front_index
<1>3. Chars!PlacesAreSound
  BY <1>1 DEF Chars!PlacesAreSound, Chars!Cells, AtPosition, front_index
<1>4. Chars!EndsAreSound
  BY <1>1 DEF Chars!EndsAreSound, Chars!Cells, Strings, Contents, AtPosition, front_index,
    end_index, back_index, set_size_zero, EmptyVector
<1>5. Chars!TriviallyCopyable
  BY DEF TriviallyCopyable, Chars!TriviallyCopyable
<1>6. Chars!ValuesAreSound
  BY <1>5, RawIsNoValue DEF Chars!ValuesAreSound, Chars!Contents, Chars!MovedOut
<1> QED  BY <1>1, <1>2, <1>3, <1>4, <1>5, <1>6 DEF Chars!Sound

(* The operators of the string are those of the general proof. *)
LEMMA SameCharOperators ==
  /\ \A c, pos, n : advance_all_after_iterator_by_n(c, pos, n)
                      = Chars!advance_all_after_iterator_by_n(c, pos, n)
  /\ \A c, v : push_back_internal(c, v) = Chars!push_back_internal(c, v)
  /\ \A c : drop_back(c) = Chars!drop_back(c)
  /\ \A c : clear(c) = Chars!clear(c)
  /\ \A n, v : PlaceAll(n, v) = Chars!PlaceAll(n, v)
  /\ \A c, n, v : ResizeTo(c, n, v) = Chars!ResizeTo(c, n, v)
  /\ \A c, pos, items : InsertForward(c, pos, items) = Chars!InsertForward(c, pos, items)
  /\ \A c, pos, items : InsertInput(c, pos, items) = Chars!InsertInput(c, pos, items)
  /\ \A c, first, last : EraseRange(c, first, last) = Chars!EraseRange(c, first, last)
<1>1. \A m, i, v : construct_at(m, i, v) = Chars!construct_at(m, i, v)
  BY DEF construct_at, Chars!construct_at, TriviallyCopyable, Chars!TriviallyCopyable
<1>2. \A m, i : destroy_at(m, i) = Chars!destroy_at(m, i)
  BY DEF destroy_at, Chars!destroy_at, TriviallyCopyable, Chars!TriviallyCopyable
<1>3. \A c, v : push_back_internal(c, v) = Chars!push_back_internal(c, v)
  BY <1>1 DEF push_back_internal, Chars!push_back_internal
<1>4. \A c : drop_back(c) = Chars!drop_back(c)
  BY <1>2 DEF drop_back, Chars!drop_back
<1>5. \A c, first, last : destroy_range(c, first, last) = Chars!destroy_range(c, first, last)
  BY DEF destroy_range, Chars!destroy_range, Iterate, Chars!Iterate, destroy_at,
    Chars!destroy_at, TriviallyCopyable, Chars!TriviallyCopyable
<1>6. \A c : clear(c) = Chars!clear(c)
  BY <1>5 DEF clear, Chars!clear
<1>7. \A n, v : PlaceAll(n, v) = Chars!PlaceAll(n, v)
  BY DEF PlaceAll, Chars!PlaceAll, Iterate, Chars!Iterate, construct_at,
    Chars!construct_at, TriviallyCopyable, Chars!TriviallyCopyable
<1>8. \A c, n, v : ResizeTo(c, n, v) = Chars!ResizeTo(c, n, v)
  BY DEF ResizeTo, Chars!ResizeTo, Iterate, Chars!Iterate, push_back_internal,
    Chars!push_back_internal, construct_at, Chars!construct_at, drop_back,
    Chars!drop_back, destroy_at, Chars!destroy_at, TriviallyCopyable,
    Chars!TriviallyCopyable
<1>9. \A c, pos, items : InsertForward(c, pos, items) = Chars!InsertForward(c, pos, items)
  BY DEF InsertForward, Chars!InsertForward, advance_all_after_iterator_by_n,
    Chars!advance_all_after_iterator_by_n, uninitialized_relocate_backward,
    Chars!uninitialized_relocate_backward, CellsFrom, Chars!CellsFrom, Iterate,
    Chars!Iterate, relocate, Chars!relocate, construct_at, Chars!construct_at, destroy_at,
    Chars!destroy_at, MovedOut, Chars!MovedOut, TriviallyCopyable, Chars!TriviallyCopyable
<1>10. \A c, items : AppendAll(c, items) = Chars!AppendAll(c, items)
  BY DEF AppendAll, Chars!AppendAll, Iterate, Chars!Iterate, push_back_internal,
    Chars!push_back_internal, construct_at, Chars!construct_at, TriviallyCopyable,
    Chars!TriviallyCopyable
<1>11. \A c, first, middle : rotate(c, first, middle) = Chars!rotate(c, first, middle)
  BY DEF rotate, Chars!rotate, Rearranged, Chars!Rearranged
<1>12. \A c, pos, items : InsertInput(c, pos, items) = Chars!InsertInput(c, pos, items)
  BY <1>11, <1>10 DEF InsertInput, Chars!InsertInput
<1>13. \A c, first, last : EraseRange(c, first, last) = Chars!EraseRange(c, first, last)
  BY <1>5 DEF EraseRange, Chars!EraseRange, uninitialized_relocate,
    Chars!uninitialized_relocate, CellsFrom, Chars!CellsFrom, Iterate, Chars!Iterate,
    relocate, Chars!relocate, move_assign, Chars!move_assign, construct_at,
    Chars!construct_at, destroy_at, Chars!destroy_at, destroy_range, Chars!destroy_range,
    MovedOut, Chars!MovedOut, IsConstantEvaluated, Chars!IsConstantEvaluated,
    TriviallyCopyable, Chars!TriviallyCopyable
<1>14. \A c, pos, n :
        advance_all_after_iterator_by_n(c, pos, n)
          = Chars!advance_all_after_iterator_by_n(c, pos, n)
  BY DEF advance_all_after_iterator_by_n, Chars!advance_all_after_iterator_by_n,
    uninitialized_relocate_backward, Chars!uninitialized_relocate_backward, CellsFrom,
    Chars!CellsFrom, Iterate, Chars!Iterate, relocate, Chars!relocate, construct_at,
    Chars!construct_at, destroy_at, Chars!destroy_at, MovedOut, Chars!MovedOut,
    TriviallyCopyable, Chars!TriviallyCopyable
<1> QED  BY <1>14, <1>3, <1>4, <1>6, <1>7, <1>8, <1>9, <1>12, <1>13

-----------------------------------------------------------------------------
(* A string between two calls. *)
Ready(c) ==
  /\ c \in Strings /\ c.ub = FALSE /\ c.size <= MAXIMUM_LENGTH
  /\ \A k \in 0 .. c.size - 1 : c.cells[k] \in Values
  /\ c.cells[c.size] = NUL /\ c.cells[MAXIMUM_LENGTH] = NUL

(* What a member of the vector leaves, before the string terminates it:    *)
(* the last cell of the array is still NUL unless a character went there.  *)
Padded(d) ==
  /\ d \in Strings /\ d.ub = FALSE
  /\ \A k \in 0 .. d.size - 1 : d.cells[k] \in Values
  /\ d.size <= MAXIMUM_LENGTH => d.cells[MAXIMUM_LENGTH] = NUL

LEMMA LengthIsInTheArray ==
  /\ MAXIMUM_SIZE \in Nat /\ MAXIMUM_LENGTH \in Nat /\ MAXIMUM_LENGTH < MAXIMUM_SIZE
  /\ MAXIMUM_LENGTH \in 0 .. MAXIMUM_SIZE - 1
  /\ \A n \in Int : n <= MAXIMUM_LENGTH <=> n < MAXIMUM_SIZE
BY MaximumSizeIsPositive DEF MAXIMUM_LENGTH

LEMMA StringFields ==
  ASSUME NEW c \in Strings
  PROVE  /\ c.cells \in [0 .. MAXIMUM_SIZE - 1 -> Contents \cup {Raw}]
         /\ c.size \in Nat /\ c.size \in Int /\ c.size <= MAXIMUM_SIZE /\ c.ub \in BOOLEAN
BY LengthIsInTheArray DEF Strings

LEMMA ReadyIsPadded ==
  ASSUME NEW c, Ready(c)
  PROVE  Padded(c) /\ c.size \in Nat /\ c.size <= MAXIMUM_LENGTH
BY StringFields DEF Ready, Padded

(* An intact object of the general proof, in the string's words. *)
LEMMA PaddedIsIntact ==
  ASSUME TriviallyCopyable, NEW c, Padded(c)
  PROVE  Chars!Intact(c)
<1>1. /\ c \in Strings /\ c.ub = FALSE /\ c.size \in Nat
      /\ \A k \in 0 .. c.size - 1 : c.cells[k] \in Values
  BY StringFields DEF Padded
<1>2. \A k \in 0 .. c.size - 1 : AtPosition(c, k) = k
  BY <1>1 DEF AtPosition, front_index
<1> QED  BY <1>1, <1>2, CharsAreSound DEF Chars!Intact, Chars!Holds, Chars!Upto

LEMMA IntactIsString ==
  ASSUME TriviallyCopyable, NEW c, Chars!Intact(c)
  PROVE  /\ c \in Strings /\ c.ub = FALSE /\ c.size \in Nat /\ c.size <= MAXIMUM_SIZE
         /\ \A k \in 0 .. c.size - 1 : c.cells[k] \in Values
<1>1. /\ c \in Strings /\ c.ub = FALSE
      /\ \A k \in 0 .. c.size - 1 : c.cells[AtPosition(c, k)] \in Values
  BY DEF Chars!Intact, Chars!Holds, Chars!Upto
<1>2. \A k \in 0 .. c.size - 1 : AtPosition(c, k) = k
  BY <1>1, StringFields DEF AtPosition, front_index
<1> QED  BY <1>1, <1>2, StringFields

(* A member that leaves the cells from L on alone, and whose result is     *)
(* only short if L is.                                                     *)
LEMMA BecomesPadded ==
  ASSUME TriviallyCopyable, NEW c, c \in Strings, c.cells[MAXIMUM_LENGTH] = NUL, NEW d,
         NEW n \in Nat, NEW L \in Nat, Chars!Becomes(c, d, n, Chars!Upto(n), L),
         n <= MAXIMUM_LENGTH => L <= MAXIMUM_LENGTH
  PROVE  Padded(d) /\ d.size = n
<1>1. Chars!Intact(d) /\ d.size = n
  BY Chars!BecomesIntact
<1>2. /\ d \in Strings /\ d.ub = FALSE /\ d.size \in Nat
      /\ \A k \in 0 .. d.size - 1 : d.cells[k] \in Values
  BY <1>1, IntactIsString
<1>3. /\ MAXIMUM_LENGTH \in Chars!Cells /\ AtPosition(c, MAXIMUM_LENGTH) = MAXIMUM_LENGTH
      /\ L <= MAXIMUM_LENGTH => MAXIMUM_LENGTH >= L
  BY LengthIsInTheArray DEF Chars!Cells, AtPosition, front_index
<1>4. L <= MAXIMUM_LENGTH => d.cells[MAXIMUM_LENGTH] = NUL
  BY <1>3 DEF Chars!Becomes
<1> QED  BY <1>1, <1>2, <1>4 DEF Padded

(* A NUL written anywhere in the array. *)
LEMMA WriteNul ==
  ASSUME NEW d \in Strings, d.ub = FALSE, \A k \in 0 .. d.size - 1 : d.cells[k] \in Values,
         NEW n \in 0 .. MAXIMUM_SIZE - 1
  PROVE  LET e == null_terminate_at(d, n) IN
         /\ e \in Strings /\ e.ub = FALSE /\ e.size = d.size
         /\ \A k \in 0 .. e.size - 1 : e.cells[k] \in Values
         /\ e.cells[n] = NUL
         /\ \A k \in 0 .. MAXIMUM_SIZE - 1 : k # n => e.cells[k] = d.cells[k]
<1> DEFINE e == null_terminate_at(d, n)
<1>1. NUL \in Contents
  BY NulIsACharacter DEF Contents
<1>2. /\ e \in Strings /\ e.ub = FALSE /\ e.size = d.size
      /\ e.cells = [d.cells EXCEPT ![n] = NUL]
  BY <1>1 DEF null_terminate_at, Strings
<1>3. \A k \in 0 .. d.size - 1 : k \in 0 .. MAXIMUM_SIZE - 1
  BY StringFields, LengthIsInTheArray
<1> HIDE DEF e
<1>4. /\ e.cells[n] = NUL
      /\ \A k \in 0 .. MAXIMUM_SIZE - 1 : k # n => e.cells[k] = d.cells[k]
  BY <1>2, StringFields
<1>5. \A k \in 0 .. e.size - 1 : e.cells[k] \in Values
  BY <1>2, <1>3, <1>4, NulIsACharacter
<1> QED  BY <1>2, <1>4, <1>5 DEF e

LEMMA TerminatedIsReady ==
  ASSUME NEW d, Padded(d), d.size <= MAXIMUM_LENGTH
  PROVE  Ready(null_terminate(d))
<1> DEFINE e == null_terminate_at(d, d.size)
<1>1. /\ d \in Strings /\ d.ub = FALSE /\ \A k \in 0 .. d.size - 1 : d.cells[k] \in Values
      /\ d.cells[MAXIMUM_LENGTH] = NUL
  BY DEF Padded
<1>2. d.size \in 0 .. MAXIMUM_SIZE - 1
  BY <1>1, StringFields, LengthIsInTheArray
<1>3. /\ e \in Strings /\ e.ub = FALSE /\ e.size = d.size
      /\ \A k \in 0 .. e.size - 1 : e.cells[k] \in Values
      /\ e.cells[d.size] = NUL
      /\ \A k \in 0 .. MAXIMUM_SIZE - 1 : k # d.size => e.cells[k] = d.cells[k]
  BY <1>1, <1>2, WriteNul
<1>4. null_terminate(d) = e
  BY DEF null_terminate
<1> HIDE DEF e
<1> QED  BY <1>1, <1>3, <1>4, LengthIsInTheArray DEF Ready

-----------------------------------------------------------------------------
(* What the members of the vector leave of a string. *)
LEMMA TextIsFunction ==
  ASSUME NEW items \in Seq(Values)
  PROVE  Len(items) \in Nat /\ items \in [1 .. Len(items) -> Values]
BY LenProperties

LEMMA InsertedIsPadded ==
  ASSUME TriviallyCopyable, NEW c, Padded(c), c.size <= MAXIMUM_LENGTH,
         NEW pos \in Nat, pos <= c.size, NEW items \in Seq(Values),
         c.size + Len(items) <= MAXIMUM_SIZE
  PROVE  Padded(InsertForward(c, pos, items)) /\ Padded(InsertInput(c, pos, items))
<1> DEFINE n == Len(items)
<1>1. n \in Nat /\ items \in [1 .. n -> Values]
  BY TextIsFunction
<1>2. /\ c \in Strings /\ c.cells[MAXIMUM_LENGTH] = NUL /\ c.size \in Nat
      /\ c.size + n \in Nat
  BY <1>1, StringFields DEF Padded
<1>3. Chars!Intact(c) /\ Chars!Sound /\ Chars!TriviallyCopyable
  BY PaddedIsIntact, CharsAreSound
<1> HIDE DEF n
<1>4. Chars!Becomes(c, Chars!InsertForward(c, pos, items), c.size + n,
                    Chars!Upto(c.size + n), c.size + n)
  BY <1>1, <1>3, Chars!InsertForwardKeepsIntact DEF n
<1>5. Chars!Becomes(c, Chars!InsertInput(c, pos, items), c.size + n,
                    Chars!Upto(c.size + n), c.size + n)
  BY <1>1, <1>3, Chars!InsertInputKeepsIntact DEF n
<1>6. Padded(Chars!InsertForward(c, pos, items))
  BY <1>2, <1>4, BecomesPadded
<1>7. Padded(Chars!InsertInput(c, pos, items))
  BY <1>2, <1>5, BecomesPadded
<1> QED  BY <1>6, <1>7, SameCharOperators

LEMMA ClearedIsPadded ==
  ASSUME TriviallyCopyable, NEW c, Padded(c), c.size <= MAXIMUM_LENGTH
  PROVE  /\ Padded(clear(c)) /\ clear(c).size = 0
         /\ clear(c) = set_size_zero(c)
<1>1. c \in Strings /\ c.ub = FALSE /\ c.cells[MAXIMUM_LENGTH] = NUL /\ c.size \in Nat
  BY StringFields DEF Padded
<1>2. clear(c) = set_size_zero(c)
  BY <1>1, CharsAreSound, SameCharOperators, Chars!TrivialClear
<1>3. /\ set_size_zero(c) \in Strings /\ set_size_zero(c).cells = c.cells
      /\ set_size_zero(c).ub = FALSE /\ set_size_zero(c).size = 0
  BY <1>1, LengthIsInTheArray DEF set_size_zero, Strings
<1> QED  BY <1>1, <1>2, <1>3 DEF Padded

LEMMA ResizedIsPadded ==
  ASSUME TriviallyCopyable, NEW c, Padded(c), c.size <= MAXIMUM_LENGTH,
         NEW n \in 0 .. MAXIMUM_SIZE, NEW v \in Values
  PROVE  Padded(ResizeTo(c, n, v))
<1> DEFINE L == IF n > c.size THEN n ELSE c.size
<1>1. /\ c \in Strings /\ c.cells[MAXIMUM_LENGTH] = NUL /\ c.size \in Nat /\ n \in Nat
  BY StringFields, LengthIsInTheArray DEF Padded
<1>2. L \in Nat /\ c.size <= L /\ n <= L /\ (n <= MAXIMUM_LENGTH => L <= MAXIMUM_LENGTH)
  BY <1>1
<1>3. Chars!Intact(c) /\ Chars!Sound
  BY PaddedIsIntact, CharsAreSound
<1> HIDE DEF L
<1>4. Chars!Becomes(c, Chars!ResizeTo(c, n, v), n, Chars!Upto(n), L)
  BY <1>2, <1>3, Chars!ResizeKeepsIntact
<1>5. Padded(Chars!ResizeTo(c, n, v))
  BY <1>1, <1>2, <1>4, BecomesPadded
<1> QED  BY <1>5, SameCharOperators

LEMMA ErasedIsPadded ==
  ASSUME TriviallyCopyable, NEW c, Padded(c), c.size <= MAXIMUM_LENGTH,
         NEW first \in Nat, NEW last \in Nat, first <= last, last <= c.size
  PROVE  Padded(EraseRange(c, first, last))
<1> DEFINE n == c.size - (last - first)
<1>1. c \in Strings /\ c.cells[MAXIMUM_LENGTH] = NUL /\ c.size \in Nat /\ n \in Nat
  BY StringFields DEF Padded
<1>2. Chars!Intact(c) /\ Chars!Sound /\ Chars!TriviallyCopyable
  BY PaddedIsIntact, CharsAreSound
<1>3. Chars!Becomes(c, Chars!EraseRange(c, first, last), n, Chars!Upto(n), c.size)
  BY <1>2, Chars!EraseKeepsIntact
<1> HIDE DEF n
<1>4. Padded(Chars!EraseRange(c, first, last))
  BY <1>1, <1>3, BecomesPadded
<1> QED  BY <1>4, SameCharOperators

LEMMA PushedIsPadded ==
  ASSUME TriviallyCopyable, NEW c, Padded(c), c.size <= MAXIMUM_LENGTH, NEW v \in Values
  PROVE  Padded(push_back_internal(c, v)) /\ push_back_internal(c, v).size = c.size + 1
<1>1. /\ c \in Strings /\ c.cells[MAXIMUM_LENGTH] = NUL /\ c.size \in Nat
      /\ c.size + 1 \in Nat /\ c.size < MAXIMUM_SIZE
  BY StringFields, LengthIsInTheArray DEF Padded
<1>2. Chars!Intact(c) /\ Chars!Sound
  BY PaddedIsIntact, CharsAreSound
<1>3. Chars!Becomes(c, Chars!push_back_internal(c, v), c.size + 1, Chars!Upto(c.size + 1),
                    c.size + 1)
  BY <1>1, <1>2, Chars!PushBackInternal
<1>4. /\ Padded(Chars!push_back_internal(c, v))
      /\ Chars!push_back_internal(c, v).size = c.size + 1
  BY <1>1, <1>3, BecomesPadded
<1> QED  BY <1>4, SameCharOperators

LEMMA PoppedIsPadded ==
  ASSUME TriviallyCopyable, NEW c, Padded(c), c.size <= MAXIMUM_LENGTH, c.size > 0
  PROVE  Padded(drop_back(c))
<1>1. c \in Strings /\ c.cells[MAXIMUM_LENGTH] = NUL /\ c.size \in Nat /\ c.size - 1 \in Nat
  BY StringFields DEF Padded
<1>2. Chars!Intact(c) /\ Chars!Sound
  BY PaddedIsIntact, CharsAreSound
<1>3. Chars!Becomes(c, Chars!drop_back(c), c.size - 1, Chars!Upto(c.size - 1), c.size)
  BY <1>2, Chars!DropBack
<1>4. Padded(Chars!drop_back(c))
  BY <1>1, <1>3, BecomesPadded
<1> QED  BY <1>4, SameCharOperators

(* The constructors write the NUL of the last cell themselves. *)
LEMMA ConstructedIsPadded ==
  ASSUME TriviallyCopyable, NEW d, Chars!Intact(d)
  PROVE  Padded(null_terminate_at_max_length(d))
<1>1. /\ d \in Strings /\ d.ub = FALSE
      /\ \A k \in 0 .. d.size - 1 : d.cells[k] \in Values
  BY IntactIsString
<1>2. LET e == null_terminate_at(d, MAXIMUM_LENGTH) IN
      /\ e \in Strings /\ e.ub = FALSE /\ e.size = d.size
      /\ \A k \in 0 .. e.size - 1 : e.cells[k] \in Values
      /\ e.cells[MAXIMUM_LENGTH] = NUL
  BY <1>1, WriteNul, LengthIsInTheArray
<1> QED  BY <1>2 DEF Padded, null_terminate_at_max_length

LEMMA RangeConstructed ==
  ASSUME TriviallyCopyable, NEW items \in Seq(Values), Len(items) <= MAXIMUM_SIZE
  PROVE  Padded(null_terminate_at_max_length(InsertForward(EmptyVector, 0, items)))
<1>1. Chars!Sound
  BY CharsAreSound
<1>2. Chars!Intact(EmptyVector) /\ EmptyVector.size = 0
  BY <1>1, Chars!EmptyIsIntact
<1>3. Chars!Intact(Chars!InsertForward(EmptyVector, 0, items))
  BY <1>1, <1>2, TextIsFunction, Chars!FillIsIntact
<1> QED  BY <1>3, ConstructedIsPadded, SameCharOperators

LEMMA CountConstructed ==
  ASSUME TriviallyCopyable, NEW n \in 0 .. MAXIMUM_SIZE, NEW v \in Values
  PROVE  Padded(null_terminate_at_max_length(PlaceAll(n, v)))
<1>1. Chars!Sound
  BY CharsAreSound
<1>2. Chars!Becomes(EmptyVector, Chars!PlaceAll(n, v), n, Chars!Upto(n), n)
  BY <1>1, Chars!PlaceAllCopies
<1>3. Chars!Intact(Chars!PlaceAll(n, v))
  BY <1>2, Chars!BecomesIntact
<1> QED  BY <1>3, ConstructedIsPadded, SameCharOperators

(* A view of the string itself: the copied characters lie among the first  *)
(* z, which all stay characters while the loop writes.                     *)
LEMMA OwnIsPadded ==
  ASSUME TriviallyCopyable, NEW c \in Strings, c.ub = FALSE, c.cells[MAXIMUM_LENGTH] = NUL,
         NEW z \in Nat, c.size <= z, z <= MAXIMUM_LENGTH,
         \A k \in 0 .. z - 1 : c.cells[k] \in Values,
         NEW from \in Nat, NEW n \in Nat, from + n <= z, c.size + n <= MAXIMUM_SIZE
  PROVE  Padded(InsertOwn(c, c.size, from, n))
<1> DEFINE b == Chars!WithSize(c, c.size + n)
           d == Chars!CopiedWithin(b, c.size, from, n)
           P == 0 .. z - 1
<1>1. c.size \in Nat /\ c.size + n \in 0 .. MAXIMUM_SIZE /\ c.size + n \in Nat
  BY StringFields, LengthIsInTheArray
<1>2. Chars!Sound /\ Chars!TriviallyCopyable
  BY CharsAreSound
<1>3. InsertOwn(c, c.size, from, n) = d
  <2>1. InsertOwn(c, c.size, from, n)
          = Chars!CopiedWithin(Chars!advance_all_after_iterator_by_n(c, c.size, n),
                               c.size, from, n)
    <3>1. advance_all_after_iterator_by_n(c, c.size, n)
            = Chars!advance_all_after_iterator_by_n(c, c.size, n)
      BY SameCharOperators
    <3> QED  BY <3>1 DEF InsertOwn, Chars!CopiedWithin, Iterate, Chars!Iterate, construct_at,
      Chars!construct_at, TriviallyCopyable, Chars!TriviallyCopyable
  <2>2. Chars!advance_all_after_iterator_by_n(c, c.size, n) = b
    BY <1>1, <1>2, Chars!OpenGapAtEnd
  <2> QED  BY <2>1, <2>2
<1>4. /\ b \in Strings /\ b.ub = FALSE /\ b.cells = c.cells /\ b.size = c.size + n
  BY <1>1 DEF Chars!WithSize, Strings
<1>5. P \in SUBSET Chars!Cells /\ \A k \in P : AtPosition(b, k) = k
  BY LengthIsInTheArray DEF Chars!Cells, AtPosition, front_index
<1> HIDE DEF b
<1>6. Chars!Holds(b, P)
  BY <1>2, <1>4, <1>5 DEF Chars!Holds
<1>7. from .. from + n - 1 \subseteq P
  BY <1>1
<1>8. PICK Q \in SUBSET Chars!Cells :
        /\ P \cup (c.size .. c.size + n - 1) \subseteq Q
        /\ Chars!Becomes(b, d, b.size, Q, c.size + n)
  <2> HIDE DEF P
  <2> QED  BY <1>1, <1>2, <1>4, <1>5, <1>6, <1>7, Chars!CopyWithin
<1>9. Chars!Upto(c.size + n) \subseteq Q
  <2>1. \A k \in 0 .. (c.size + n) - 1 : k \in P \/ k \in c.size .. c.size + n - 1
    BY <1>1
  <2> QED  BY <1>8, <2>1 DEF Chars!Upto
<1> HIDE DEF d, P
<1>10. Chars!Becomes(b, d, c.size + n, Chars!Upto(c.size + n), c.size + n)
  BY <1>2, <1>4, <1>8, <1>9 DEF Chars!Becomes, Chars!Holds
<1>11. b.cells[MAXIMUM_LENGTH] = NUL
  BY <1>4
<1>12. Padded(d)
  BY <1>1, <1>4, <1>10, <1>11, BecomesPadded
<1> QED  BY <1>3, <1>12

-----------------------------------------------------------------------------
(* The texts that clients and the members themselves pass on. *)
LEMMA RangesAreText ==
  ASSUME NEW items \in Ranges
  PROVE  items \in Seq(Values)
<1>1. PICK n \in 0 .. MaxRange : items \in [1 .. n -> Values]
  BY DEF Ranges
<1>2. n \in Nat
  BY MaxRangeIsNat
<1> QED  BY <1>1, <1>2, SeqDef

LEMMA LeastIsMin ==
  ASSUME NEW S, S \subseteq Nat, S # {}
  PROVE  Min(S) \in S
<1>1. \E x \in S : \A y \in S : x <= y
  BY Chars!LeastOfSet
<1> QED  BY <1>1 DEF Min

LEMMA PartOfText ==
  ASSUME NEW s \in Seq(Values), NEW m \in Nat, m >= 1, NEW n \in Int, n <= Len(s)
  PROVE  SubSeq(s, m, n) \in Seq(Values)
<1>1. Len(s) \in Nat /\ \A i \in m .. n : i \in 1 .. Len(s)
  BY LenProperties
<1>2. \A i \in m .. n : s[i] \in Values
  BY <1>1, ElementOfSeq
<1>3. m \in Int
  OBVIOUS
<1> QED  BY <1>2, <1>3, SubSeqProperties

LEMMA CharPtrIsText ==
  ASSUME NEW s \in Seq(Values)
  PROVE  CharPtrView(s) \in Seq(Values)
<1> DEFINE nuls == {k \in 1 .. Len(s) : s[k] = NUL}
<1>1. Len(s) \in Nat
  BY LenProperties
<1>2. nuls # {} => Min(nuls) \in nuls
  <2>1. nuls \subseteq Nat
    BY <1>1
  <2> HIDE DEF nuls
  <2> QED  BY <2>1, LeastIsMin
<1>3. nuls # {} => Min(nuls) - 1 \in Int /\ Min(nuls) - 1 <= Len(s)
  BY <1>1, <1>2
<1>4. nuls # {} => SubSeq(s, 1, Min(nuls) - 1) \in Seq(Values)
  <2> HIDE DEF nuls
  <2> QED  BY <1>3, PartOfText
<1>5. SubSeq(s, 1, Len(s)) \in Seq(Values)
  BY <1>1, PartOfText
<1> QED  BY <1>4, <1>5 DEF CharPtrView

LEMMA LiteralIsText ==
  ASSUME NEW items \in Seq(Values)
  PROVE  LET literal == StringLiteral(items) IN
         SubSeq(literal.cstr, 1, literal.size) \in Seq(Values)
<1>1. Append(items, NUL) \in Seq(Values) /\ Len(items) \in Nat
      /\ Len(Append(items, NUL)) = Len(items) + 1
  BY NulIsACharacter
<1>2. SubSeq(Append(items, NUL), 1, Len(items)) \in Seq(Values)
  BY <1>1, PartOfText
<1> QED  BY <1>2 DEF StringLiteral

LEMMA TextAfterSpaces ==
  ASSUME NEW in \in Seq(Values)
  PROVE  SkipSpaces(in) \in Seq(Values)
<1> DEFINE letters == {k \in 1 .. Len(in) : in[k] \notin Spaces}
<1>1. Len(in) \in Nat
  BY LenProperties
<1>2. letters # {} => Min(letters) \in letters
  <2>1. letters \subseteq Nat
    BY <1>1
  <2> HIDE DEF letters
  <2> QED  BY <2>1, LeastIsMin
<1>3. letters # {} => Min(letters) \in Nat /\ Min(letters) >= 1
  BY <1>1, <1>2
<1>4. letters # {} => SubSeq(in, Min(letters), Len(in)) \in Seq(Values)
  <2> HIDE DEF letters
  <2> QED  BY <1>1, <1>3, PartOfText
<1> QED  BY <1>4, EmptySeq DEF SkipSpaces

LEMMA TruncatedText ==
  ASSUME NEW items \in Seq(Values), NEW room \in Nat
  PROVE  LET safe_chars == Smaller(Len(items), room) IN
         /\ SubView(items, 0, safe_chars) \in Seq(Values)
         /\ Len(SubView(items, 0, safe_chars)) = safe_chars
         /\ safe_chars \in Nat
<1> DEFINE n == Smaller(Len(items), room)
<1>1. Len(items) \in Nat
  BY LenProperties
<1>2. n \in Nat /\ n <= Len(items)
  BY <1>1 DEF Smaller
<1>3. SubView(items, 0, n) = SubSeq(items, 1, n)
  BY <1>1, <1>2 DEF SubView, Smaller
<1> HIDE DEF n
<1>4. SubSeq(items, 1, n) \in Seq(Values)
  BY <1>1, <1>2, PartOfText
<1>5. Len(SubSeq(items, 1, n)) = n
  <2>1. \A i \in 1 .. n : items[i] \in Values
    BY <1>1, <1>2, ElementOfSeq
  <2>2. Len(SubSeq(items, 1, n)) = IF 1 <= n THEN n - 1 + 1 ELSE 0
    BY <1>2, <2>1, SubSeqProperties
  <2> QED  BY <1>2, <2>2
<1> QED  BY <1>2, <1>3, <1>4, <1>5 DEF n

-----------------------------------------------------------------------------
(* operator>>: the string that is read into is terminated after every      *)
(* character.                                                              *)
StreamStates == [str : {c \in Strings : Ready(c)}, rest : Seq(Values), char : Values,
                 eof : BOOLEAN, fail : BOOLEAN]

LEMMA GetKeepsState ==
  ASSUME NEW s \in StreamStates
  PROVE  get(s) \in StreamStates /\ get(s).str = s.str
<1>1. s.rest # << >> => Head(s.rest) \in Values /\ Tail(s.rest) \in Seq(Values)
  BY HeadTailProperties DEF StreamStates
<1> QED  BY <1>1 DEF get, StreamStates

(* One iteration of the loop. *)
WordStep(x) ==
  IF LoopContinues(x)
  THEN get([x EXCEPT !.str = null_terminate(push_back_internal(@, x.char))])
  ELSE x

LEMMA WordStepKeepsState ==
  ASSUME TriviallyCopyable, NEW x \in StreamStates
  PROVE  WordStep(x) \in StreamStates
<1>1. CASE LoopContinues(x)
  <2> DEFINE c == x.str
             d == push_back_internal(c, x.char)
  <2>1. Ready(c) /\ x.char \in Values
    BY DEF StreamStates
  <2>2. Padded(c) /\ c.size \in Nat /\ c.size <= MAXIMUM_LENGTH
    BY <2>1, ReadyIsPadded
  <2>3. c.size + 1 <= MAXIMUM_LENGTH
    BY <1>1, <2>2, LengthIsInTheArray DEF LoopContinues, is_full
  <2>4. Padded(d) /\ d.size = c.size + 1
    BY <2>1, <2>2, PushedIsPadded
  <2>5. Ready(null_terminate(d))
    <3> HIDE DEF d
    <3> QED  BY <2>3, <2>4, TerminatedIsReady
  <2>6. null_terminate(d) \in Strings
    BY <2>5 DEF Ready
  <2> HIDE DEF d
  <2>7. [x EXCEPT !.str = null_terminate(d)] \in StreamStates
    BY <2>5, <2>6 DEF StreamStates
  <2> QED  BY <1>1, <2>7, GetKeepsState DEF WordStep, d
<1>2. CASE ~LoopContinues(x)
  BY <1>2 DEF WordStep
<1> QED  BY <1>1, <1>2

LEMMA ReadWordKeepsState ==
  ASSUME TriviallyCopyable, NEW s \in StreamStates
  PROVE  ReadWord(s) \in StreamStates
<1> DEFINE N == Len(s.rest) + 1
           S(x, k) == WordStep(x)
           Body(f) == [k \in 0 .. N |-> IF k = 0 THEN s ELSE S(f[k - 1], k - 1)]
           loop == CHOOSE f : f = Body(f)
           X == [k \in 0 .. N |-> StreamStates]
           F == [k \in 1 .. N |-> [x \in X[k - 1] |-> S(x, k - 1)]]
<1>1. ReadWord(s) = loop[N]
  BY DEF ReadWord, Iterate, WordStep
<1>2. N \in Nat
  BY LenProperties DEF StreamStates
<1>3. s \in X[0]
  BY <1>2
<1>4. ASSUME NEW k \in 1 .. N, NEW x \in X[k - 1] PROVE S(x, k - 1) \in X[k]
  <2>1. k - 1 \in 0 .. N /\ k \in 0 .. N
    BY <1>2
  <2> QED  BY <2>1, WordStepKeepsState
<1>5. ASSUME NEW f, Chars!SolvesLoop(f, s, X, F, N) PROVE Chars!RunsLoop(loop, s, X, F, N)
  <2>1. \A k \in 1 .. N : \A x \in X[k - 1] : F[k][x] = S(x, k - 1)
    OBVIOUS
  <2>2. \A k \in 0 .. N : k # 0 <=> k \in 1 .. N
    BY <1>2
  <2>3. 0 \in 0 .. N /\ \A k \in 1 .. N : k \in 0 .. N /\ k - 1 \in 0 .. N
    BY <1>2
  <2> HIDE DEF X, F, S, N
  <2>4. f = Body(f)
    BY <1>5, <2>1, <2>2, <2>3 DEF Chars!SolvesLoop
  <2> HIDE DEF Body
  <2>5. loop = Body(loop)
    BY <2>4
  <2> HIDE DEF loop
  <2> USE DEF Body
  <2> QED  BY <2>1, <2>2, <2>3, <2>5 DEF Chars!RunsLoop
<1>6. loop[N] \in X[N] /\ N \in 0 .. N
  <2>1. \A k \in 1 .. N : \A x \in X[k - 1] : F[k][x] \in X[k]
    BY <1>4
  <2>2. N \in 0 .. N
    BY <1>2
  <2> HIDE DEF X, F, N, loop
  <2>3. loop[N] \in X[N]
    BY <1>2, <1>3, <1>5, <2>1, Chars!LoopEnds
  <2> QED  BY <2>2, <2>3
<1> HIDE DEF loop
<1> QED  BY <1>1, <1>6

-----------------------------------------------------------------------------
(* The inductive invariant. *)
StringInv ==
  /\ build \in Builds
  /\ DOMAIN objects = Objects
  /\ \A o \in Objects : objects[o] # NoObject => Ready(objects[o])

LEMMA ReturnsReady ==
  ASSUME StringInv, NEW c, NEW ret, NEW o \in Objects, NEW d, Ready(d), Returns(c, ret, o, d),
         UNCHANGED build
  PROVE  StringInv'
<1>1. Ready([d EXCEPT !.ub = FALSE])
  BY DEF Ready, Strings
<1>2. objects' = [objects EXCEPT ![o] = [d EXCEPT !.ub = FALSE]]
  BY DEF Returns
<1> QED  BY <1>1, <1>2 DEF StringInv

LEMMA AbortsReady ==
  ASSUME StringInv, NEW c, Aborts(c), UNCHANGED build
  PROVE  StringInv'
BY DEF StringInv, Aborts

LEMMA CheckedReady ==
  ASSUME StringInv, NEW check, NEW c, NEW ret, NEW o \in Objects, NEW d, check => Ready(d),
         Checked(check, c, ret, o, d), UNCHANGED build
  PROVE  StringInv'
BY ReturnsReady, AbortsReady DEF Checked

LEMMA TerminatedReady ==
  ASSUME StringInv, NEW check, NEW c, NEW ret, NEW o \in Objects, NEW d, check => Padded(d),
         Terminated(check, c, ret, o, d), UNCHANGED build
  PROVE  StringInv'
<1>1. check /\ d.size <= MAXIMUM_LENGTH => Ready(null_terminate(d))
  BY TerminatedIsReady
<1> QED  BY <1>1, CheckedReady DEF Terminated

LEMMA InvIsTrivial ==
  ASSUME StringInv
  PROVE  TriviallyCopyable
BY CharIsTriviallyCopyable DEF StringInv, TriviallyCopyable

LEMMA ConstructionReady ==
  ASSUME StringInv, NEW o \in Objects, StringConstruction(o), UNCHANGED build
  PROVE  StringInv'
<1>1. TriviallyCopyable
  BY InvIsTrivial
<1>2. ASSUME NEW items \in Seq(Values), StringConstruct(o, items) PROVE StringInv'
  BY <1>1, <1>2, RangeConstructed, TerminatedReady DEF StringConstruct
<1>3. ASSUME NEW items \in Ranges, ConstructCharPtr(o, Append(items, NUL)) PROVE StringInv'
  <2>1. Append(items, NUL) \in Seq(Values)
    BY RangesAreText, NulIsACharacter
  <2>2. CharPtrView(Append(items, NUL)) \in Seq(Values)
    BY <2>1, CharPtrIsText
  <2> QED  BY <1>2, <1>3, <2>2 DEF ConstructCharPtr
<1>4. ASSUME NEW items \in Ranges, make_fixed_string(o, StringLiteral(items)) PROVE StringInv'
  <2> DEFINE literal == StringLiteral(items)
  <2>1. SubSeq(literal.cstr, 1, literal.size) \in Seq(Values)
    BY RangesAreText, LiteralIsText
  <2>2. StringConstruct(o, SubSeq(literal.cstr, 1, literal.size))
    BY <1>4 DEF make_fixed_string
  <2> HIDE DEF literal
  <2> QED  BY <1>2, <2>1, <2>2
<1>5. ASSUME NEW n \in Counts, NEW char \in Values, StringConstructCount(o, n, char)
      PROVE  StringInv'
  <2>1. n <= MAXIMUM_SIZE => n \in 0 .. MAXIMUM_SIZE
    BY LengthIsInTheArray DEF Counts
  <2>2. n <= MAXIMUM_SIZE => Padded(null_terminate_at_max_length(PlaceAll(n, char)))
    BY <1>1, <2>1, CountConstructed
  <2> QED  BY <1>5, <2>2, TerminatedReady DEF StringConstructCount
<1> QED  BY <1>2, <1>3, <1>4, <1>5, RangesAreText DEF StringConstruction

LEMMA LifetimeReady ==
  ASSUME StringInv, NEW o \in Objects, Lifetime(o), UNCHANGED build
  PROVE  StringInv'
<1>1. TriviallyCopyable
  BY InvIsTrivial
<1>2. ASSUME NEW other \in Objects, Copy(o, other) PROVE StringInv'
  <2>1. Ready(objects[other])
    BY <1>2 DEF Copy, StringInv
  <2> QED  BY <1>1, <1>2, <2>1, ReturnsReady DEF Copy
<1>3. ASSUME NEW other \in Objects, Move(o, other) PROVE StringInv'
  <2> DEFINE d == [objects[other] EXCEPT !.ub = FALSE]
  <2>1. Ready(objects[other])
    BY <1>3 DEF Move, StringInv
  <2>2. Ready(d)
    BY <2>1 DEF Ready, Strings
  <2>3. objects' = [objects EXCEPT ![o] = d, ![other] = d]
    BY <1>1, <1>3 DEF Move
  <2> HIDE DEF d
  <2> QED  BY <2>2, <2>3 DEF StringInv
<1>4. ASSUME MoveToItself(o) PROVE StringInv'
  <2>1. Ready(objects[o])
    BY <1>4 DEF MoveToItself, Usable, StringInv
  <2> QED  BY <1>4, <2>1, ReturnsReady DEF MoveToItself
<1>5. ASSUME Destroy(o) PROVE StringInv'
  BY <1>5 DEF Destroy, StringInv
<1> QED  BY <1>2, <1>3, <1>4, <1>5 DEF Lifetime

LEMMA UsableIsPadded ==
  ASSUME StringInv, NEW o \in Objects, Usable(o)
  PROVE  /\ Ready(objects[o]) /\ Padded(objects[o])
         /\ objects[o].size \in Nat /\ objects[o].size <= MAXIMUM_LENGTH
<1>1. Ready(objects[o])
  BY DEF Usable, StringInv
<1> QED  BY <1>1, ReadyIsPadded

(* The members that change a string, one by one. *)
LEMMA ReplacingReady ==
  ASSUME StringInv, NEW o \in Objects, UNCHANGED build
  PROVE  /\ StringClear(o) => StringInv'
         /\ \A n \in Counts, char \in Values :
              StringAssignCount(o, n, char) \/ StringResize(o, n, char) => StringInv'
         /\ \A items \in Ranges : StringAssign(o, items) => StringInv'
         /\ \A i, n \in Positions : AssignOwn(o, i, n) \/ AppendOwn(o, i, n) => StringInv'
<1> DEFINE c == objects[o]
           e == clear(c)
<1>1. TriviallyCopyable
  BY InvIsTrivial
<1>2. ASSUME Usable(o)
      PROVE  /\ Padded(c) /\ c.size \in Nat /\ c.size <= MAXIMUM_LENGTH
             /\ Padded(e) /\ e.size = 0 /\ e = set_size_zero(c)
  BY <1>1, <1>2, UsableIsPadded, ClearedIsPadded
<1>3. StringClear(o) => StringInv'
  BY <1>2, TerminatedReady DEF StringClear
<1>4. ASSUME NEW n \in Counts, NEW char \in Values, StringAssignCount(o, n, char)
      PROVE  StringInv'
  <2>1. n <= MAXIMUM_SIZE => n \in 0 .. MAXIMUM_SIZE
    BY LengthIsInTheArray DEF Counts
  <2>2. Usable(o)
    BY <1>4 DEF StringAssignCount
  <2>3. Padded(e) /\ e.size <= MAXIMUM_LENGTH
    BY <1>2, <2>2, LengthIsInTheArray
  <2>4. n <= MAXIMUM_SIZE => Padded(ResizeTo(e, n, char))
    <3> HIDE DEF e
    <3> QED  BY <1>1, <2>1, <2>3, ResizedIsPadded
  <2> QED  BY <1>4, <2>4, TerminatedReady DEF StringAssignCount
<1>5. ASSUME NEW n \in Counts, NEW char \in Values, StringResize(o, n, char)
      PROVE  StringInv'
  <2>1. n <= MAXIMUM_SIZE => n \in 0 .. MAXIMUM_SIZE
    BY LengthIsInTheArray DEF Counts
  <2>2. Usable(o)
    BY <1>5 DEF StringResize
  <2>3. n <= MAXIMUM_SIZE => Padded(ResizeTo(c, n, char))
    BY <1>1, <1>2, <2>1, <2>2, ResizedIsPadded
  <2> QED  BY <1>5, <2>3, TerminatedReady DEF StringResize
<1>6. ASSUME NEW items \in Ranges, StringAssign(o, items) PROVE StringInv'
  <2>1. items \in Seq(Values) /\ Len(items) \in Nat
    BY RangesAreText, TextIsFunction
  <2>2. Usable(o)
    BY <1>6 DEF StringAssign
  <2>3. Padded(e) /\ e.size = 0
    BY <1>2, <2>2
  <2>4. Len(items) <= MAXIMUM_SIZE => Padded(InsertForward(e, 0, items))
    <3> HIDE DEF e
    <3> QED  BY <1>1, <2>1, <2>3, InsertedIsPadded, LengthIsInTheArray
  <2> QED  BY <1>6, <2>4, TerminatedReady DEF StringAssign
<1>7. ASSUME NEW i \in Positions, NEW n \in Positions, AssignOwn(o, i, n) PROVE StringInv'
  <2>1. Usable(o) /\ i + n <= c.size /\ i \in Nat /\ n \in Nat
    BY <1>7, LengthIsInTheArray DEF AssignOwn, Positions
  <2>2. /\ Padded(c) /\ c.size \in Nat /\ c.size <= MAXIMUM_LENGTH
        /\ e = set_size_zero(c) /\ e.size = 0 /\ c \in Strings /\ c.ub = FALSE
    BY <1>2, <2>1 DEF Padded
  <2>3. /\ e \in Strings /\ e.ub = FALSE /\ e.cells = c.cells
    <3> HIDE DEF e
    <3> QED  BY <2>2, LengthIsInTheArray DEF set_size_zero, Strings
  <2>4. /\ e.cells[MAXIMUM_LENGTH] = NUL /\ e.size <= c.size
        /\ \A k \in 0 .. c.size - 1 : e.cells[k] \in Values
        /\ e.size + n <= MAXIMUM_SIZE
    BY <2>1, <2>2, <2>3, LengthIsInTheArray DEF Padded
  <2>5. Padded(InsertOwn(e, e.size, i, n))
    <3> HIDE DEF e
    <3> QED  BY <1>1, <2>1, <2>2, <2>3, <2>4, OwnIsPadded
  <2>6. Padded(InsertOwn(e, 0, i, n))
    BY <2>2, <2>5
  <2> QED  BY <1>7, <2>6, TerminatedReady DEF AssignOwn
<1>8. ASSUME NEW i \in Positions, NEW n \in Positions, AppendOwn(o, i, n) PROVE StringInv'
  <2>1. Usable(o) /\ i + n <= c.size /\ i \in Nat /\ n \in Nat
    BY <1>8, LengthIsInTheArray DEF AppendOwn, Positions
  <2>2. /\ Padded(c) /\ c.size \in Nat /\ c.size <= MAXIMUM_LENGTH
    BY <1>2, <2>1
  <2>3. /\ c \in Strings /\ c.ub = FALSE /\ c.cells[MAXIMUM_LENGTH] = NUL /\ c.size <= c.size
        /\ \A k \in 0 .. c.size - 1 : c.cells[k] \in Values
    BY <2>2 DEF Padded
  <2>4. HasRoomFor(o, n) => Padded(InsertOwn(c, c.size, i, n))
    BY <1>1, <2>1, <2>2, <2>3, OwnIsPadded DEF HasRoomFor
  <2> QED  BY <1>8, <2>4, TerminatedReady DEF AppendOwn
<1> QED  BY <1>3, <1>4, <1>5, <1>6, <1>7, <1>8

LEMMA EditingReady ==
  ASSUME StringInv, NEW o \in Objects, UNCHANGED build
  PROVE  /\ StringPopBack(o) => StringInv'
         /\ \A char \in Values : StringPushBack(o, char) => StringInv'
         /\ \A items \in Ranges :
              /\ StringAppend(o, items) \/ append_truncating(o, items) => StringInv'
              /\ \A pos \in Positions :
                   StringInsert(o, pos, items) \/ StringInsertInput(o, pos, items) => StringInv'
         /\ \A first, last \in Counts : StringErase(o, first, last) => StringInv'
         /\ \A index \in Counts, count \in Lengths : EraseCount(o, index, count) => StringInv'
<1> DEFINE c == objects[o]
<1>1. TriviallyCopyable
  BY InvIsTrivial
<1>2. ASSUME Usable(o)
      PROVE  Padded(c) /\ c.size \in Nat /\ c.size <= MAXIMUM_LENGTH
  BY <1>2, UsableIsPadded
<1>3. StringPopBack(o) => StringInv'
  <2> SUFFICES ASSUME StringPopBack(o) PROVE StringInv'
    OBVIOUS
  <2>1. Usable(o)
    BY DEF StringPopBack
  <2>2. c.size > 0 => Padded(drop_back(c))
    BY <1>1, <1>2, <2>1, PoppedIsPadded
  <2> QED  BY <2>2, TerminatedReady DEF StringPopBack
<1>4. ASSUME NEW char \in Values, StringPushBack(o, char) PROVE StringInv'
  <2>1. Usable(o)
    BY <1>4 DEF StringPushBack
  <2>2. Padded(push_back_internal(c, char))
    BY <1>1, <1>2, <2>1, PushedIsPadded
  <2> QED  BY <1>4, <2>2, TerminatedReady DEF StringPushBack
<1>5. ASSUME Usable(o), NEW items \in Seq(Values), NEW pos \in Nat, pos <= c.size,
             c.size + Len(items) <= MAXIMUM_SIZE
      PROVE  Padded(InsertForward(c, pos, items)) /\ Padded(InsertInput(c, pos, items))
  BY <1>1, <1>2, <1>5, InsertedIsPadded
<1>6. ASSUME NEW items \in Ranges, StringAppend(o, items) PROVE StringInv'
  <2>1. items \in Seq(Values)
    BY RangesAreText
  <2>2. Usable(o)
    BY <1>6 DEF StringAppend
  <2>3. HasRoomFor(o, Len(items)) => Padded(Appended(c, items))
    BY <1>2, <1>5, <2>1, <2>2 DEF HasRoomFor, Appended
  <2> QED  BY <1>6, <2>3, TerminatedReady DEF StringAppend
<1>7. ASSUME NEW items \in Ranges, append_truncating(o, items) PROVE StringInv'
  <2> DEFINE room == MAXIMUM_LENGTH - c.size
             safe_chars == Smaller(Len(items), room)
             some == SubView(items, 0, safe_chars)
  <2>1. Usable(o)
    BY <1>7 DEF append_truncating
  <2>2. room \in Nat
    BY <1>2, <2>1, LengthIsInTheArray
  <2>3. some \in Seq(Values) /\ Len(some) = safe_chars
    <3> HIDE DEF room
    <3> QED  BY <2>2, RangesAreText, TruncatedText
  <2>4. HasRoomFor(o, safe_chars) => Padded(Appended(c, some))
    <3> HIDE DEF some, safe_chars
    <3> QED  BY <1>2, <1>5, <2>1, <2>3 DEF HasRoomFor, Appended
  <2> QED  BY <1>7, <2>4, TerminatedReady DEF append_truncating
<1>8. ASSUME NEW items \in Ranges, NEW pos \in Positions, StringInsert(o, pos, items)
      PROVE  StringInv'
  <2>1. items \in Seq(Values) /\ pos \in Nat
    BY RangesAreText, LengthIsInTheArray DEF Positions
  <2>2. Usable(o) /\ pos <= c.size
    BY <1>8 DEF StringInsert
  <2>3. HasRoomFor(o, Len(items)) => Padded(InsertForward(c, pos, items))
    BY <1>5, <2>1, <2>2 DEF HasRoomFor
  <2> QED  BY <1>8, <2>3, TerminatedReady DEF StringInsert
<1>9. ASSUME NEW items \in Ranges, NEW pos \in Positions, StringInsertInput(o, pos, items)
      PROVE  StringInv'
  <2>1. items \in Seq(Values) /\ pos \in Nat
    BY RangesAreText, LengthIsInTheArray DEF Positions
  <2>2. Usable(o) /\ pos <= c.size
    BY <1>9 DEF StringInsertInput
  <2>3. HasRoomFor(o, Len(items)) => Padded(InsertInput(c, pos, items))
    BY <1>5, <2>1, <2>2 DEF HasRoomFor
  <2> QED  BY <1>9, <2>3, TerminatedReady DEF StringInsertInput
<1>10. ASSUME NEW first \in Counts, NEW last \in Counts, StringErase(o, first, last)
       PROVE  StringInv'
  <2>1. Usable(o) /\ first \in Nat /\ last \in Nat
    BY <1>10, LengthIsInTheArray DEF StringErase, Counts
  <2>2. first <= last /\ last <= c.size => Padded(EraseRange(c, first, last))
    BY <1>1, <1>2, <2>1, ErasedIsPadded
  <2> QED  BY <1>10, <2>2, TerminatedReady DEF StringErase
<1>11. ASSUME NEW index \in Counts, NEW count \in Lengths, EraseCount(o, index, count)
       PROVE  StringInv'
  <2> DEFINE n == Smaller(count, c.size - index)
  <2>1. Usable(o) /\ index \in Nat /\ count \in Nat
    BY <1>11, LengthIsInTheArray, NposIsNat DEF EraseCount, Counts, Lengths
  <2>2. index <= c.size => n \in Nat /\ index + n <= c.size
    BY <1>2, <2>1 DEF Smaller
  <2> HIDE DEF n
  <2>3. index <= c.size => Padded(EraseRange(c, index, index + n))
    <3>1. ASSUME index <= c.size PROVE index + n \in Nat /\ index <= index + n /\ index + n <= c.size
      BY <2>1, <2>2, <3>1
    <3> QED  BY <1>1, <1>2, <2>1, <3>1, ErasedIsPadded
  <2> QED  BY <1>11, <2>3, TerminatedReady DEF EraseCount, n
<1> QED  BY <1>3, <1>4, <1>6, <1>7, <1>8, <1>9, <1>10, <1>11

LEMMA ExtractReady ==
  ASSUME StringInv, NEW o \in Objects, NEW in \in Streams, Extract(o, in), UNCHANGED build
  PROVE  StringInv'
<1> DEFINE c     == objects[o]
           start == [str |-> null_terminate(clear(c)), rest |-> SkipSpaces(in),
                     char |-> NUL, eof |-> FALSE, fail |-> FALSE]
           first == get(start)
           s     == IF first.fail THEN [first EXCEPT !.eof = FALSE] ELSE ReadWord(first)
<1>1. TriviallyCopyable
  BY InvIsTrivial
<1>2. Padded(c) /\ c.size <= MAXIMUM_LENGTH
  BY UsableIsPadded DEF Extract
<1>3. Padded(clear(c)) /\ clear(c).size = 0
  BY <1>1, <1>2, ClearedIsPadded
<1>4. Ready(null_terminate(clear(c)))
  BY <1>3, TerminatedIsReady, LengthIsInTheArray
<1>5. start \in StreamStates
  <2>1. SkipSpaces(in) \in Seq(Values)
    BY StreamsAreText, TextAfterSpaces
  <2>2. null_terminate(clear(c)) \in Strings
    BY <1>4 DEF Ready
  <2> QED  BY <1>4, <2>1, <2>2, NulIsACharacter DEF StreamStates
<1>6. first \in StreamStates
  <2> HIDE DEF start
  <2> QED  BY <1>5, GetKeepsState
<1>7. s \in StreamStates
  <2> HIDE DEF first
  <2>1. [first EXCEPT !.eof = FALSE] \in StreamStates
    BY <1>6 DEF StreamStates
  <2>2. ReadWord(first) \in StreamStates
    BY <1>1, <1>6, ReadWordKeepsState
  <2> QED  BY <2>1, <2>2
<1>8. Ready(s.str)
  <2> HIDE DEF s
  <2> QED  BY <1>7 DEF StreamStates
<1>9. PICK check, what, ret : Checked(check, what, ret, o, s.str)
  BY DEF Extract
<1> HIDE DEF s
<1> QED  BY <1>8, <1>9, CheckedReady

LEMMA ReadReady ==
  ASSUME StringInv, NEW o \in Objects, StringRead(o), UNCHANGED build
  PROVE  StringInv'
<1>1. ASSUME Usable(o), NEW check, NEW c, NEW ret, Checked(check, c, ret, o, objects[o])
      PROVE  StringInv'
  BY <1>1, UsableIsPadded, CheckedReady
<1>2. ASSUME Usable(o), NEW check, NEW c, NEW cell, Reads(check, c, o, cell) PROVE StringInv'
  BY <1>2, UsableIsPadded, ReturnsReady, AbortsReady DEF Reads
<1>3. ASSUME NEW c, NEW ret, Asks(o, c, ret) PROVE StringInv'
  BY <1>1, <1>3 DEF Asks
<1>4. ASSUME Front(o) PROVE StringInv'
  BY <1>2, <1>4 DEF Front
<1>5. ASSUME Back(o) PROVE StringInv'
  BY <1>2, <1>5 DEF Back
<1>6. ASSUME NEW i, At(o, i) PROVE StringInv'
  BY <1>2, <1>6 DEF At
<1>7. ASSUME NEW n, reserve(o, n) PROVE StringInv'
  BY <1>1, <1>7 DEF reserve
<1>8. ASSUME NEW pos, NEW len, substr(o, pos, len) PROVE StringInv'
  BY <1>1, <1>8 DEF substr
<1>9. ASSUME NEW items, compare(o, items) \/ starts_with(o, items) \/ ends_with(o, items)
      PROVE  StringInv'
  BY <1>3, <1>9 DEF compare, starts_with, ends_with
<1>10. ASSUME NEW op, NEW items, NEW pos, SearchFor(op, o, items, pos) PROVE StringInv'
  BY <1>3, <1>10 DEF SearchFor
<1>11. ASSUME NEW items, NEW pos,
              \/ find(o, items, pos) \/ find_first_of(o, items, pos)
              \/ find_first_not_of(o, items, pos) \/ rfind(o, items, pos)
              \/ find_last_of(o, items, pos) \/ find_last_not_of(o, items, pos)
       PROVE  StringInv'
  BY <1>10, <1>11 DEF find, find_first_of, find_first_not_of, rfind, find_last_of,
    find_last_not_of
<1> QED  BY <1>4, <1>5, <1>6, <1>7, <1>8, <1>9, <1>11 DEF StringRead

LEMMA StringInvHolds == StringSpec => []StringInv
<1>1. Init => StringInv
  BY DEF Init, StringInv
<1>2. StringInv /\ [StringNext]_vars => StringInv'
  <2> SUFFICES ASSUME StringInv, [StringNext]_vars PROVE StringInv'
    OBVIOUS
  <2>1. ASSUME NEW o \in Objects, StringConstruction(o), UNCHANGED build PROVE StringInv'
    BY <2>1, ConstructionReady
  <2>2. ASSUME NEW o \in Objects, Lifetime(o), UNCHANGED build PROVE StringInv'
    BY <2>2, LifetimeReady
  <2>3. ASSUME NEW o \in Objects, StringChange(o), UNCHANGED build PROVE StringInv'
    BY <2>3, ReplacingReady, EditingReady, ExtractReady DEF StringChange
  <2>4. ASSUME NEW o \in Objects, StringRead(o), UNCHANGED build PROVE StringInv'
    BY <2>4, ReadReady
  <2>5. ASSUME UNCHANGED vars PROVE StringInv'
    BY <2>5 DEF vars, StringInv
  <2> QED  BY <2>1, <2>2, <2>3, <2>4, <2>5 DEF StringNext, Halted
<1> QED  BY <1>1, <1>2, PTL DEF StringSpec

(* c_str() is terminated after every call, for every capacity: no member   *)
(* of FixedString, also none that reads the string's own characters while  *)
(* it writes, that reads a stream or that fills the string to its last     *)
(* character, leaves a string without a NUL behind its last character or   *)
(* overwrites the NUL in the last cell of the array.                       *)
THEOREM StringsStayTerminated == StringSpec => []StringsAreTerminated
<1>1. StringInv => StringsAreTerminated
  BY DEF StringInv, Ready, StringsAreTerminated
<1> QED  BY <1>1, StringInvHolds, PTL
=============================================================================
