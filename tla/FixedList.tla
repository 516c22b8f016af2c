----------------------------- MODULE FixedList -----------------------------
(***************************************************************************)
(* FixedList<T, MAXIMUM_SIZE>: std::list on a FixedDoublyLinkedList.  Its  *)
(* special members are those of the linked list; an iterator is an index   *)
(* of the list, end() the sentinel.                                        *)
(*                                                                         *)
(* The operators say what a member function leaves behind; the actions add *)
(* the checks.  A failed check ends the process, so what a call did before *)
(* it failed is never seen again.                                          *)
(***************************************************************************)
EXTENDS DoublyLinkedList, Sequences

CONSTANT MaxRange     (* the longest range that clients pass               *)

ASSUME MaxRangeIsNat == MaxRange \in Nat

Ranges == UNION {[1 .. n -> Values] : n \in 0 .. MaxRange}

-----------------------------------------------------------------------------
push_back(l, v)  == emplace_after_index(l, back_index(l), v)
push_front(l, v) == emplace_after_index(l, l.prev[front_index(l)], v)

(* Mutant: the elements of the range are inserted behind the position. *)
InsertsBehind(l, pos, items) ==
  LET fill[n \in Nat] ==
        IF n = 0 THEN l ELSE emplace_after_index(fill[n - 1], pos, items[n])
  IN  [list |-> fill[Len(items)],
       ret  |-> IF items = << >> THEN NULL_INDEX ELSE l.storage.next_index]

(* insert_internal, within capacity: every element goes in front of pos;   *)
(* the result is the index of the first one, or end() if there is none.    *)
insert_internal(l, pos, items) ==
  LET fill[n \in 0 .. Len(items)] ==
        IF n = 0 THEN l
        ELSE LET s == fill[n - 1] IN emplace_after_index(s, s.prev[pos], items[n])
  IN  [list |-> fill[Len(items)],
       ret  |-> IF items = << >> THEN NULL_INDEX ELSE l.storage.next_index]

(* The two loops of resize(count, value). *)
resize(l, count, v) ==
  LET grow[n \in 0 .. count - l.size] == IF n = 0 THEN l ELSE push_back(grow[n - 1], v)
      shrink[n \in 0 .. l.size - count] ==
        IF n = 0 THEN l
        ELSE LET s == shrink[n - 1] IN delete_at(s, back_index(s))
  IN  IF l.size < count THEN grow[count - l.size] ELSE shrink[l.size - count]

(* remove_if(predicate), and remove(value) with the predicate {value}. *)
remove_if(l, pred) ==
  LET pass[n \in 0 .. l.size] ==
        IF n = 0 THEN [list |-> l, i |-> front_index(l), removed |-> 0]
        ELSE LET s == pass[n - 1] IN
             IF s.i = NULL_INDEX THEN s
             ELSE IF s.list.storage.array[s.i] \in pred
             THEN [list |-> delete_at(s.list, s.i), i |-> NextAfterDelete(s.list, s.i),
                   removed |-> s.removed + 1]
             ELSE [s EXCEPT !.i = s.list.next[s.i]]
  IN  pass[l.size]

(* The loop of erase(first, last), which returns last.  destroy_range, of  *)
(* clear(), steps from an element that it has just deleted, along the link *)
(* that the free cell still holds: the same index.                         *)
erase(l, first, last) ==
  LET pass[n \in 0 .. l.size] ==
        IF n = 0 THEN [list |-> l, i |-> first]
        ELSE LET s == pass[n - 1] IN
             IF s.i = last THEN s
             ELSE LET d == delete_at(s.list, s.i) IN [list |-> d, i |-> d.next[s.i]]
  IN  pass[l.size].list

list_clear(l) == erase(l, front_index(l), NULL_INDEX)

assign_count(l, count, v) == resize(list_clear(l), count, v)
assign(l, items) == insert_internal(list_clear(l), NULL_INDEX, items).list

-----------------------------------------------------------------------------
(* A call with its check: the list it leaves, or the end of the process. *)
Checked(check, o, l) ==
  /\ Idle /\ UNCHANGED loop
  /\ \/ check /\ lists' = [lists EXCEPT ![o] = l] /\ UNCHANGED aborted
     \/ ~check /\ aborted' = TRUE /\ UNCHANGED lists

HasRoomFor(o, n) == lists[o].size + n <= MAXIMUM_SIZE
NotEmpty(o) == lists[o].size > 0

PushBack(o, v)  == Alive(o) /\ Checked(HasRoomFor(o, 1), o, push_back(lists[o], v))
PushFront(o, v) == Alive(o) /\ Checked(HasRoomFor(o, 1), o, push_front(lists[o], v))
PopBack(o)  == Alive(o) /\ Checked(NotEmpty(o), o, delete_at(lists[o], back_index(lists[o])))
PopFront(o) == Alive(o) /\ Checked(NotEmpty(o), o, delete_at(lists[o], front_index(lists[o])))

(* front() and back() *)
Peek(o) == Alive(o) /\ Checked(NotEmpty(o), o, lists[o])

(* insert and emplace of one value, and the range overloads. *)
Insert(o, pos, items) ==
  /\ Alive(o) /\ pos \in Positions(lists[o])
  /\ Checked(HasRoomFor(o, Len(items)), o, insert_internal(lists[o], pos, items).list)

Resize(o, count, v) ==
  Alive(o) /\ Checked(count <= MAXIMUM_SIZE, o, resize(lists[o], count, v))

AssignCount(o, count, v) ==
  Alive(o) /\ Checked(count <= MAXIMUM_SIZE, o, assign_count(lists[o], count, v))

(* The check comes after clear(). *)
Assign(o, items) ==
  Alive(o) /\ Checked(Len(items) <= MAXIMUM_SIZE, o, assign(lists[o], items))

(* The free functions erase and erase_if are remove_if as well. *)
RemoveIf(o, pred) ==
  /\ Alive(o) /\ \A i \in Live(lists[o].storage) : lists[o].storage.array[i] \in Values
  /\ Checked(TRUE, o, remove_if(lists[o], pred).list)

(* The client gives ranges of the list. *)
EraseRange(o, first, last) ==
  /\ Alive(o) /\ first \in Positions(lists[o]) /\ last \in WalkFrom(lists[o], first)
  /\ Checked(TRUE, o, erase(lists[o], first, last))

ErasePosition(o, pos) ==
  /\ Alive(o) /\ pos \in Positions(lists[o])
  /\ Checked(pos # NULL_INDEX, o, erase(lists[o], pos, lists[o].next[pos]))

ClearList(o) == Alive(o) /\ Checked(TRUE, o, list_clear(lists[o]))

ConstructCount(o, count, v) ==
  ~Alive(o) /\ Checked(count <= MAXIMUM_SIZE, o, resize(EmptyList, count, v))

ConstructRange(o, items) ==
  /\ ~Alive(o)
  /\ Checked(Len(items) <= MAXIMUM_SIZE, o, insert_internal(EmptyList, NULL_INDEX, items).list)

ListCall(o) ==
  \/ \E v \in Values :
       \/ PushBack(o, v) \/ PushFront(o, v) \/ RemoveIf(o, {v})
       \/ \E n \in 0 .. MAXIMUM_SIZE + 1 :
            Resize(o, n, v) \/ AssignCount(o, n, v) \/ ConstructCount(o, n, v)
  \/ \E items \in Ranges :
       Assign(o, items) \/ ConstructRange(o, items) \/ \E pos \in Links : Insert(o, pos, items)
  \/ \E first, last \in Links : EraseRange(o, first, last)
  \/ \E pos \in Links : ErasePosition(o, pos)
  \/ PopBack(o) \/ PopFront(o) \/ Peek(o) \/ ClearList(o)

ListNext ==
  \/ Next
  \/ UNCHANGED TriviallyCopyable /\ \E o \in Objects : ListCall(o)

ListSpec == Init /\ [][ListNext]_vars /\ WF_vars(Loop /\ UNCHANGED TriviallyCopyable)

-----------------------------------------------------------------------------
(* The values of l, from begin() to end(). *)
ValuesOf(l) == [k \in 1 .. l.size |-> Items(l)[k][2]]

(* The position of an index in list order, counted from 0. *)
Rank(l, pos) == Cardinality(Live(l.storage) \ WalkFrom(l, pos))

(* s without the elements that equal v, the others in their order. *)
Without(s, v) ==
  LET kept[n \in 0 .. Len(s)] ==
        IF n = 0 THEN << >>
        ELSE IF s[n] = v THEN kept[n - 1] ELSE Append(kept[n - 1], s[n])
  IN  kept[Len(s)]

(* On every list, whatever history of calls recycled its cells, the member *)
(* functions with a loop do to the sequence of values what std::list       *)
(* documents: insert, erase of a range, remove and resize.  insert returns *)
(* the first new element, remove_if the number of elements it removed.     *)
(* (That a push or a pop changes one end alone is in RefinesSequences;     *)
(* what insert returns for no elements is in InsertReturnsItsPlace.)  The  *)
(* check of size() in FixedList and the assertion of the pool agree.       *)
OperationsAreExact ==
  \A o \in Objects : Alive(o) /\ loop = NoLoop =>
    LET l == lists[o] s == ValuesOf(l)
        Before(k) == SubSeq(s, 1, k)
        Behind(k) == SubSeq(s, k + 1, Len(s))
    IN  /\ full(l.storage) <=> l.size = MAXIMUM_SIZE
        /\ \A pos \in Positions(l), items \in Ranges : HasRoomFor(o, Len(items)) =>
             LET k == Rank(l, pos) r == insert_internal(l, pos, items) IN
             /\ ValuesOf(r.list) = Before(k) \o items \o Behind(k)
             /\ items # << >> => Rank(r.list, r.ret) = k
        /\ \A first \in Positions(l) : \A last \in WalkFrom(l, first) :
             ValuesOf(erase(l, first, last)) = Before(Rank(l, first)) \o Behind(Rank(l, last))
        /\ \A v \in Values :
             LET r == remove_if(l, {v}) IN
             /\ ValuesOf(r.list) = Without(s, v)
             /\ r.removed = l.size - r.list.size
             /\ \A n \in 0 .. MAXIMUM_SIZE :
                  ValuesOf(resize(l, n, v)) =
                    [k \in 1 .. n |-> IF k <= Len(s) THEN s[k] ELSE v]

(* The iterator that insert returns is where the elements went: the first  *)
(* of them, or the position itself when there are none, as std::list has   *)
(* it (insert_internal, fixed_list.hpp:485-508).                           *)
InsertReturnsItsPlace ==
  \A o \in Objects : Alive(o) /\ loop = NoLoop =>
    \A pos \in Positions(lists[o]), items \in Ranges : HasRoomFor(o, Len(items)) =>
      LET r == insert_internal(lists[o], pos, items)
      IN  Rank(r.list, r.ret) = Rank(lists[o], pos)
=============================================================================
