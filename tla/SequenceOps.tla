---------------------------- MODULE SequenceOps ----------------------------
(***************************************************************************)
(* The algorithms that FixedVectorBase and FixedDequeBase share, line for  *)
(* line.  They differ in where a position lies in the array, which is a    *)
(* parameter: AtIterator is the cell that an iterator to position k refers *)
(* to, AtIndex the one that at(k) reads, FrontIndex, EndIndex and          *)
(* BackIndex are front_index(), end_index() and back_index(), Reset is     *)
(* what clear() does to the indices.                                       *)
(*                                                                         *)
(* An object has the fields cells, ub and size, and whatever else the      *)
(* container keeps.  A position is a number in 0 .. size.                  *)
(***************************************************************************)
EXTENDS ElementMemory, Sequences

CONSTANTS
  MAXIMUM_SIZE,
  EmptyObject,           (* what the default constructor leaves            *)
  AtIterator(_, _), AtIndex(_, _), FrontIndex(_), EndIndex(_), BackIndex(_), Reset(_)

(* The cells of n consecutive positions from pos on. *)
CellsFrom(c, pos, n) == [k \in 0 .. n - 1 |-> AtIterator(c, pos + k)]

(* The elements in order. *)
Elements(c) == [k \in 1 .. c.size |-> c.cells[AtIterator(c, k - 1)]]

push_back_internal(c, v) ==
  [construct_at(c, EndIndex(c), v) EXCEPT !.size = @ + 1]

drop_back(c) == [destroy_at(c, BackIndex(c)) EXCEPT !.size = @ - 1]

destroy_range(c, first, last) ==
  Iterate(last - first, c, LAMBDA x, k : destroy_at(x, AtIterator(x, first + k)))

clear(c) == Reset(destroy_range(c, 0, c.size))

(* push_back_internal in a loop over items. *)
AppendAll(c, items) ==
  Iterate(Len(items), c, LAMBDA x, k : push_back_internal(x, items[k + 1]))

(* The constructor of count copies sets the size first. *)
PlaceAll(count, v) ==
  Iterate(count, [EmptyObject EXCEPT !.size = count],
          LAMBDA x, k : construct_at(x, k, v))

(* The two loops of resize(count, value). *)
ResizeTo(c, count, v) ==
  IF c.size < count
  THEN Iterate(count - c.size, c, LAMBDA x, k : push_back_internal(x, v))
  ELSE Iterate(c.size - count, c, LAMBDA x, k : drop_back(x))

-----------------------------------------------------------------------------
(* Mutant: the gap is opened from the front. *)
AdvanceForward(c, pos, n) ==
  LET d == [c EXCEPT !.size = @ + n] IN
  uninitialized_relocate(d, c.size - pos,
    CellsFrom(d, pos, c.size - pos), CellsFrom(d, pos + n, c.size - pos))

(* Opens a gap of n Raw cells at pos. *)
advance_all_after_iterator_by_n(c, pos, n) ==
  LET d == [c EXCEPT !.size = @ + n] IN
  uninitialized_relocate_backward(d, c.size - pos,
    CellsFrom(d, pos, c.size - pos), CellsFrom(d, pos + n, c.size - pos))

(* insert(pos, value) and emplace, past check_not_full. *)
InsertOne(c, pos, v) ==
  LET d == advance_all_after_iterator_by_n(c, pos, 1)
  IN  construct_at(d, AtIterator(d, pos), v)

(* insert(pos, c[i]): value is a reference into the container, read after  *)
(* the elements from pos on have moved.                                    *)
InsertAliased(c, pos, i) ==
  LET d == advance_all_after_iterator_by_n(c, pos, 1)
  IN  construct_at(d, AtIterator(d, pos), d.cells[AtIterator(c, i)])

(* insert_internal for forward iterators, past check_target_size. *)
InsertForward(c, pos, items) ==
  LET d == advance_all_after_iterator_by_n(c, pos, Len(items)) IN
  Iterate(Len(items), d,
    LAMBDA x, k : construct_at(x, AtIterator(x, pos + k), items[k + 1]))

(* The cell at each position of c holds what New gives for the position. *)
Rearranged(c, New(_)) ==
  [c EXCEPT !.cells =
    [a \in DOMAIN c.cells |->
       LET at == {k \in 0 .. c.size - 1 : AtIterator(c, k) = a}
       IN  IF at = {} THEN c.cells[a] ELSE New(CHOOSE k \in at : TRUE)]]

(* std::rotate on positions first .. end, middle becoming the first. *)
rotate(c, first, middle) ==
  LET old(k) == c.cells[AtIterator(c, k)] IN
  Rearranged(c, LAMBDA k :
    IF k < first THEN old(k)
    ELSE IF k < first + (c.size - middle) THEN old(middle + (k - first))
    ELSE old(k - (c.size - middle)))

(* insert_internal for input iterators, within capacity: append, then      *)
(* rotate the new elements to pos.                                         *)
InsertInput(c, pos, items) == rotate(AppendAll(c, items), pos, c.size)

(* Mutants of the erasure below. *)
EraseWithoutDestroying(c, first, last) ==
  [uninitialized_relocate(c, c.size - last,
     CellsFrom(c, last, c.size - last), CellsFrom(c, first, c.size - last))
   EXCEPT !.size = @ - (last - first)]
EraseOneTooFew(c, first, last) ==
  LET n == c.size - last
      gone == destroy_range(c, first, last)
  IN  [uninitialized_relocate(gone, IF n = 0 THEN 0 ELSE n - 1,
         CellsFrom(c, last, n), CellsFrom(c, first, n))
       EXCEPT !.size = @ - (last - first)]

(* erase(first, last), past its two checks. *)
EraseRange(c, first, last) ==
  LET n     == c.size - last
      from  == CellsFrom(c, last, n)
      to    == CellsFrom(c, first, n)
      moved == IF ~IsConstantEvaluated
               THEN uninitialized_relocate(destroy_range(c, first, last), n, from, to)
               ELSE destroy_range(
                      Iterate(n, c, LAMBDA x, k : move_assign(x, from[k], to[k])),
                      first + n, c.size)
  IN  [moved EXCEPT !.size = @ - (last - first)]

(* What std::remove keeps: the elements of s other than v, in order. *)
Without(s, v) ==
  LET kept[n \in 0 .. Len(s)] == IF n = 0 THEN << >>
                                 ELSE IF s[n] = v THEN kept[n - 1]
                                 ELSE Append(kept[n - 1], s[n])
  IN  kept[Len(s)]

(* erase(container, value): std::remove, then erase to the end. *)
EraseValue(c, v) ==
  LET kept == Without(Elements(c), v) IN
  EraseRange(
    Rearranged(c, LAMBDA k : IF k < Len(kept) THEN kept[k + 1]
                             ELSE MovedOut(c.cells[AtIterator(c, k)])),
    Len(kept), c.size)

(* The sources of a move: each element moved out, none destroyed. *)
MovedOutElements(c) == Rearranged(c, LAMBDA k : MovedOut(c.cells[AtIterator(c, k)]))
=============================================================================
