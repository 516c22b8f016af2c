-------------------------- MODULE FixedCircularDeque --------------------------
(***************************************************************************)
(* FixedCircularDeque: a FixedDeque whose members that add elements first  *)
(* drop others when it is full.  The rest of its interface is FixedDeque's.*)
(* FixedCircularQueue is QueueAdapter over a FixedCircularDeque.           *)
(*                                                                         *)
(* A position that a client passes is an iterator, an unwrapped index: it  *)
(* stays where it is while elements are dropped from the front.            *)
(***************************************************************************)
EXTENDS FixedDeque

CONSTANTS
  InsertAtBeginWhenFull,  (* clients insert at begin() into a full deque   *)
  AliasDroppedElements    (* clients push_back a reference to the element  *)
                          (* that a full deque drops                       *)

is_full(c) == c.size >= MAXIMUM_SIZE

pop_front_if_full(c) == IF is_full(c) THEN drop_front(c) ELSE c

pop_back_if_full(c) == IF is_full(c) THEN drop_back(c) ELSE c

Within(d) == d.start \in Drifts

(* The positions at which clients insert. *)
Insertable(o, pos) ==
  /\ pos <= objects[o].size
  /\ pos = 0 /\ is_full(objects[o]) => InsertAtBeginWhenFull

CircularPushBack(o, v) ==
  /\ Usable(o)
  /\ LET d == push_back_internal(pop_front_if_full(objects[o]), v) IN
     Within(d) /\ Returns(CallWith("push_back", o, 0, <<v>>), 0, o, d)

(* push_back(c[i]): the reference is read after the pop. *)
CircularPushBackElement(o, i) ==
  /\ Usable(o) /\ i < objects[o].size
  /\ i = 0 /\ is_full(objects[o]) => AliasDroppedElements
  /\ LET cell == IteratorGet(objects[o], i)
         room == pop_front_if_full(objects[o])
         d    == push_back_internal(room, room.cells[cell])
     IN  /\ Within(d)
         /\ Returns(CallWith("push_back", o, 0, <<objects[o].cells[cell]>>), 0, o, d)

CircularPushFront(o, v) ==
  /\ Usable(o)
  /\ LET d == place_front(pop_back_if_full(objects[o]), v) IN
     Within(d) /\ Returns(CallWith("push_front", o, 0, <<v>>), 0, o, d)

(* insert of one value, and emplace.  An iterator to the element that was  *)
(* dropped lies outside the deque, where get() aborts.                     *)
CircularInsert(o, pos, v) ==
  /\ Usable(o) /\ Insertable(o, pos)
  /\ LET room == pop_front_if_full(objects[o])
         at   == (objects[o].start + pos) - room.start
         d    == InsertOne(room, at, v)
     IN  /\ Within(room)
         /\ Checked(at >= 0, CallWith("insert", o, pos, <<v>>), at, o, d)

(* What insert_internal for forward iterators does with excess elements:   *)
(* drop existing ones up to pos, then incoming ones.                       *)
Excess(c, items) ==
  IF c.size + Len(items) > MAXIMUM_SIZE THEN c.size + Len(items) - MAXIMUM_SIZE ELSE 0

(* Mutant: the barrier at pos is crossed. *)
DropAllExcess(c, pos, items) ==
  LET n == IF Excess(c, items) < c.size THEN Excess(c, items) ELSE c.size
  IN  [deque |-> Iterate(n, c, LAMBDA x, k : drop_front(x)),
       pos   |-> IF pos < n THEN 0 ELSE pos - n,
       items |-> SubSeq(items, 1 + Excess(c, items) - n, Len(items))]

DropExcess(c, pos, items) ==
  LET existing == IF Excess(c, items) < pos THEN Excess(c, items) ELSE pos
  IN  [deque |-> Iterate(existing, c, LAMBDA x, k : drop_front(x)),
       pos   |-> pos - existing,
       items |-> SubSeq(items, 1 + Excess(c, items) - existing, Len(items))]

InsertDropping(c, pos, items) ==
  LET r == DropExcess(c, pos, items) IN InsertForward(r.deque, r.pos, r.items)

CircularInsertRange(o, pos, items) ==
  /\ Usable(o) /\ Insertable(o, pos) /\ PassableRange(o, pos, items)
  /\ LET d == InsertDropping(objects[o], pos, items) IN
     /\ Within(d)
     /\ Returns(CallWith("insert", o, pos, items),
                DropExcess(objects[o], pos, items).pos, o, d)

-----------------------------------------------------------------------------
(* insert_internal for input iterators.  Its loop places one element at    *)
(* the end at a time; first and middle are the unwrapped indices first_it  *)
(* and middle_it.  At the barrier it stops.                                *)
PlaceNext(s, barrier, v) ==
  LET at_barrier == is_full(s.deque) /\ s.deque.start = barrier
      dropping   == is_full(s.deque) /\ s.deque.start = s.first
  IN  IF s.stopped \/ at_barrier THEN [s EXCEPT !.stopped = TRUE]
      ELSE [deque   |-> push_back_internal(pop_front_if_full(s.deque), v),
            first   |-> IF dropping THEN s.first + 1 ELSE s.first,
            middle  |-> IF dropping /\ s.first = s.middle THEN s.middle + 1 ELSE s.middle,
            placed  |-> s.placed + 1,
            stopped |-> FALSE]

PlaceAtEnd(c, pos, items) ==
  LET here    == c.start + pos
      barrier == IF pos = c.size THEN -1 ELSE here   (* none at cend()     *)
  IN  Iterate(Len(items),
        [deque |-> c, first |-> here, middle |-> c.start + c.size,
         placed |-> 0, stopped |-> FALSE],
        LAMBDA s, k : PlaceNext(s, barrier, items[k + 1]))

(* The elements left over overwrite, in a cycle, those just placed, which  *)
(* are then rotated into order.                                            *)
OverwritePlaced(s, rest) ==
  LET first == s.middle - s.deque.start
      width == s.deque.size - first
  IN  rotate(
        Iterate(Len(rest), s.deque,
          LAMBDA x, k : [x EXCEPT !.cells[IteratorGet(x, first + (k % width))] = rest[k + 1]]),
        first, first + (Len(rest) % width))

(* With nothing just placed, the assignment dereferences end() and aborts. *)
CircularInsertInputRange(o, pos, items) ==
  /\ Usable(o) /\ Insertable(o, pos)
  /\ LET s    == PlaceAtEnd(objects[o], pos, items)
         rest == SubSeq(items, s.placed + 1, Len(items))
         ordered == IF rest = << >> THEN s.deque ELSE OverwritePlaced(s, rest)
         d    == rotate(ordered, s.first - ordered.start, s.middle - ordered.start)
     IN  /\ Within(s.deque)
         /\ Checked(rest = << >> \/ s.placed > 0,
                    CallWith("insert_input", o, pos, items),
                    s.first - s.deque.start, o, d)

-----------------------------------------------------------------------------
AtMost(count) == IF count > MAXIMUM_SIZE THEN MAXIMUM_SIZE ELSE count

CircularAssignCount(o, count, v) ==
  /\ Usable(o)
  /\ Returns(CallWith("assign_count", o, count, <<v>>), 0,
             o, ResizeTo(clear(objects[o]), AtMost(count), v))

LastOf(items) == SubSeq(items, Len(items) - AtMost(Len(items)) + 1, Len(items))

CircularAssign(o, items) ==
  /\ Usable(o)
  /\ Returns(CallWith("assign", o, 0, items), 0,
             o, InsertForward(clear(objects[o]), 0, LastOf(items)))

(* From input iterators: push_back one by one. *)
CircularAssignInput(o, items) ==
  /\ Usable(o)
  /\ LET d == Iterate(Len(items), clear(objects[o]), LAMBDA x, k :
                push_back_internal(pop_front_if_full(x), items[k + 1]))
     IN  Within(d) /\ Returns(CallWith("assign", o, 0, items), 0, o, d)

CircularConstruct(o, items) ==
  /\ Fresh(o)
  /\ Returns(CallWith("construct", o, 0, items), 0, o, InsertDropping(EmptyDeque, 0, items))

CircularConstructCount(o, count, v) ==
  /\ Fresh(o)
  /\ Returns(CallWith("construct_count", o, count, <<v>>), 0, o, PlaceAll(AtMost(count), v))

CircularConstruction(o) ==
  \/ \E items \in Ranges : CircularConstruct(o, items)
  \/ \E n \in Counts, v \in Values : CircularConstructCount(o, n, v)

CircularGrowingCall(o) ==
  \/ \E v \in Values : CircularPushBack(o, v) \/ CircularPushFront(o, v)
  \/ \E i \in Positions : CircularPushBackElement(o, i)
  \/ \E pos \in Positions, v \in Values : CircularInsert(o, pos, v)
  \/ \E pos \in Positions, items \in Ranges :
       CircularInsertRange(o, pos, items) \/ CircularInsertInputRange(o, pos, items)
  \/ \E n \in Counts, v \in Values : CircularAssignCount(o, n, v)
  \/ \E items \in Ranges : CircularAssign(o, items) \/ CircularAssignInput(o, items)

(* QueueAdapter: a push into a full queue drops its front. *)
CircularQueuePush(o, v) == CircularPushBack(o, v)

CircularQueueCall(o) == \/ QueuePop(o) \/ QueueFront(o) \/ QueueBack(o)
                        \/ \E v \in Values : CircularQueuePush(o, v)

CircularNext ==
  \/ \E o \in Objects :
       /\ CircularConstruction(o) \/ Lifetime(o) \/ CommonCall(o) \/ PopFront(o)
            \/ CircularGrowingCall(o) \/ CircularQueueCall(o)
       /\ UNCHANGED build
  \/ Halted

CircularSpec == Init /\ [][CircularNext]_vars

CircularSequence == INSTANCE BoundedSequences WITH seqs <- Abstract, Circular <- TRUE

(* A FixedCircularDeque is a bounded sequence that makes room: a full one  *)
(* drops from the front to append or to insert, never an element at or     *)
(* behind the position of the insertion, and of a range too long for it    *)
(* keeps the last elements; forward and input iterators agree.             *)
RefinesCircularSequences == CircularSequence!Spec
=============================================================================
