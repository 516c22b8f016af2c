-------------------------- MODULE SequenceContainer --------------------------
(***************************************************************************)
(* The client's calls that FixedVectorBase and FixedDequeBase implement    *)
(* with the same code: each action is one call of a public member, its     *)
(* checks, what it does to the object and what it returns.                 *)
(*                                                                         *)
(* A failed check ends the process (SequenceContainerAbortChecking), so    *)
(* what a call did before it failed is never seen again.                   *)
(***************************************************************************)
EXTENDS SequenceOps

CONSTANTS
  Objects, NoObject,
  Builds,            (* the builds considered                              *)
  MaxRange,          (* the longest range that clients pass                *)
  EmptyRanges,       (* clients pass empty ranges in front of elements     *)
                     (* that are not trivially copyable                    *)
  AliasMovedElements (* clients insert a reference to an element that the  *)
                     (* insertion itself moves                             *)

VARIABLES
  objects,     (* each object, or NoObject                                 *)
  call,        (* the last call and its result                             *)
  undefined,   (* an element was used outside its lifetime                 *)
  aborted      (* a check failed                                           *)

vars == <<objects, call, undefined, aborted, build>>

Ranges == UNION {[1 .. n -> Values] : n \in 0 .. MaxRange}
Counts == 0 .. MAXIMUM_SIZE + 1
Positions == 0 .. MAXIMUM_SIZE

Call(op, o) == [op |-> op, obj |-> o, from |-> NoObject, i |-> 0, j |-> 0,
                items |-> << >>, ret |-> 0]
CallWith(op, o, i, items) == [Call(op, o) EXCEPT !.i = i, !.items = items]

Init == /\ objects = [o \in Objects |-> NoObject]
        /\ call = Call("none", NoObject)
        /\ undefined = FALSE
        /\ aborted = FALSE
        /\ build \in Builds

Usable(o) == ~aborted /\ objects[o] # NoObject

Returns(c, ret, o, d) ==
  /\ objects' = [objects EXCEPT ![o] = [d EXCEPT !.ub = FALSE]]
  /\ undefined' = (undefined \/ d.ub)
  /\ call' = [c EXCEPT !.ret = ret]
  /\ UNCHANGED aborted

Aborts(c) == aborted' = TRUE /\ call' = c /\ UNCHANGED <<objects, undefined>>

(* A call with a check. *)
Checked(check, c, ret, o, d) ==
  \/ check /\ Returns(c, ret, o, d)
  \/ ~check /\ Aborts(c)

(* A call that only reads. *)
Reads(check, c, o, cell) ==
  \/ check /\ Returns(c, objects[o].cells[cell], o, objects[o])
  \/ ~check /\ Aborts(c)

HasRoomFor(o, n) == objects[o].size + n <= MAXIMUM_SIZE

-----------------------------------------------------------------------------
PushBack(o, v) ==
  /\ Usable(o)
  /\ Checked(HasRoomFor(o, 1), CallWith("push_back", o, 0, <<v>>), 0,
             o, push_back_internal(objects[o], v))

(* push_back(c[i]) *)
PushBackElement(o, i) ==
  /\ Usable(o) /\ i < objects[o].size
  /\ LET v == objects[o].cells[AtIterator(objects[o], i)] IN
     Checked(HasRoomFor(o, 1), CallWith("push_back", o, 0, <<v>>), 0,
             o, push_back_internal(objects[o], v))

PopBack(o) ==
  /\ Usable(o)
  /\ Checked(objects[o].size > 0, Call("pop_back", o), 0, o, drop_back(objects[o]))

At(o, i) ==
  /\ Usable(o)
  /\ Reads(i < objects[o].size, CallWith("at", o, i, << >>), o, AtIndex(objects[o], i))

Front(o) ==
  /\ Usable(o)
  /\ Reads(objects[o].size > 0, Call("front", o), o, FrontIndex(objects[o]))

Back(o) ==
  /\ Usable(o)
  /\ Reads(objects[o].size > 0, Call("back", o), o, BackIndex(objects[o]))

(* insert of one value, and emplace. *)
Insert(o, pos, v) ==
  /\ Usable(o) /\ pos <= objects[o].size
  /\ Checked(HasRoomFor(o, 1), CallWith("insert", o, pos, <<v>>), pos,
             o, InsertOne(objects[o], pos, v))

(* insert(pos, c[i]) *)
InsertElement(o, pos, i) ==
  /\ Usable(o) /\ pos <= objects[o].size
  /\ i < objects[o].size /\ (i < pos \/ AliasMovedElements)
  /\ Checked(HasRoomFor(o, 1),
             CallWith("insert", o, pos, <<objects[o].cells[AtIterator(objects[o], i)]>>),
             pos, o, InsertAliased(objects[o], pos, i))

(* The range overloads, from forward and from input iterators. *)
PassableRange(o, pos, items) ==
  pos <= objects[o].size /\ (items # << >> \/ pos = objects[o].size \/ EmptyRanges
                                 \/ TriviallyCopyable)

InsertRange(o, pos, items) ==
  /\ Usable(o) /\ PassableRange(o, pos, items)
  /\ Checked(HasRoomFor(o, Len(items)), CallWith("insert", o, pos, items), pos,
             o, InsertForward(objects[o], pos, items))

InsertInputRange(o, pos, items) ==
  /\ Usable(o) /\ pos <= objects[o].size
  /\ Checked(HasRoomFor(o, Len(items)), CallWith("insert_input", o, pos, items), pos,
             o, InsertInput(objects[o], pos, items))

(* erase(first, last); erase(pos) is erase(pos, pos + 1), of end() too. *)
Erase(o, first, last) ==
  /\ Usable(o) /\ first <= objects[o].size /\ last <= objects[o].size + 1
  /\ first = last => (last = objects[o].size \/ EmptyRanges \/ TriviallyCopyable)
  /\ Checked(first <= last /\ last <= objects[o].size,
             [Call("erase", o) EXCEPT !.i = first, !.j = last], first,
             o, EraseRange(objects[o], first, last))

Resize(o, count, v) ==
  /\ Usable(o)
  /\ Checked(count <= MAXIMUM_SIZE, CallWith("resize", o, count, <<v>>), 0,
             o, ResizeTo(objects[o], count, v))

AssignCount(o, count, v) ==
  /\ Usable(o)
  /\ Checked(count <= MAXIMUM_SIZE, CallWith("assign_count", o, count, <<v>>), 0,
             o, ResizeTo(clear(objects[o]), count, v))

(* The copying overloads clear before they check. *)
Assign(o, items) ==
  /\ Usable(o)
  /\ Checked(Len(items) <= MAXIMUM_SIZE, CallWith("assign", o, 0, items), 0,
             o, InsertForward(clear(objects[o]), 0, items))

Clear(o) == Usable(o) /\ Returns(Call("clear", o), 0, o, clear(objects[o]))

(* The free function erase(container, value). *)
EraseAll(o, v) ==
  /\ Usable(o)
  /\ LET d == EraseValue(objects[o], v) IN
     Returns(CallWith("erase_value", o, 0, <<v>>), objects[o].size - d.size, o, d)

-----------------------------------------------------------------------------
(* Object lifetimes. *)
Fresh(o) == ~aborted /\ objects[o] = NoObject

(* The default constructor, and the constructors from a range. *)
Construct(o, items) ==
  /\ Fresh(o)
  /\ Checked(Len(items) <= MAXIMUM_SIZE, CallWith("construct", o, 0, items), 0,
             o, InsertForward(EmptyObject, 0, items))

ConstructCount(o, count, v) ==
  /\ Fresh(o)
  /\ Checked(count <= MAXIMUM_SIZE, CallWith("construct_count", o, count, <<v>>), 0,
             o, PlaceAll(count, v))

(* Copy construction of a fresh object, copy assignment of another. *)
Copy(o, other) ==
  /\ ~aborted /\ objects[other] # NoObject
  /\ Returns([Call("copy", o) EXCEPT !.from = other], 0, o,
       IF TriviallyCopyable \/ o = other THEN objects[other]
       ELSE InsertForward(IF objects[o] = NoObject THEN EmptyObject ELSE clear(objects[o]),
                          0, Elements(objects[other])))

(* A trivial move copies the bytes.  Otherwise the elements are moved over *)
(* one by one; the constructor then clears the source, the assignment      *)
(* leaves it with its moved-from elements.                                 *)
Move(o, other) ==
  LET left  == MovedOutElements(objects[other])
      taken == AppendAll(IF objects[o] = NoObject THEN EmptyObject ELSE clear(objects[o]),
                         Elements(objects[other]))
      source == IF TriviallyCopyable THEN objects[other]
                ELSE IF objects[o] = NoObject THEN clear(left) ELSE left
      target == IF TriviallyCopyable THEN objects[other] ELSE taken
  IN
  /\ ~aborted /\ objects[other] # NoObject /\ o # other
  /\ objects' = [objects EXCEPT ![o] = [target EXCEPT !.ub = FALSE],
                                ![other] = [source EXCEPT !.ub = FALSE]]
  /\ undefined' = (undefined \/ target.ub \/ source.ub)
  /\ call' = [Call("move", o) EXCEPT !.from = other]
  /\ UNCHANGED aborted

(* this == &other *)
MoveToItself(o) ==
  Usable(o) /\ Returns([Call("move", o) EXCEPT !.from = o], 0, o, objects[o])

Destroy(o) ==
  /\ Usable(o)
  /\ objects' = [objects EXCEPT ![o] = NoObject]
  /\ undefined' = (undefined \/ clear(objects[o]).ub)
  /\ call' = Call("destroy", o)
  /\ UNCHANGED aborted

Construction(o) ==
  \/ \E items \in Ranges : Construct(o, items)
  \/ \E n \in Counts, v \in Values : ConstructCount(o, n, v)

Lifetime(o) ==
  \/ \E other \in Objects : Copy(o, other) \/ Move(o, other)
  \/ MoveToItself(o)
  \/ Destroy(o)

(* The accessors and the members that both containers, and the circular    *)
(* deque through its FixedDeque, take from here.                           *)
CommonCall(o) ==
  \/ PopBack(o) \/ Front(o) \/ Back(o) \/ Clear(o)
  \/ \E i \in Positions : At(o, i)
  \/ \E first, last \in 0 .. MAXIMUM_SIZE + 1 : Erase(o, first, last)
  \/ \E n \in Counts, v \in Values : Resize(o, n, v)
  \/ \E v \in Values : EraseAll(o, v)

(* The members that a circular deque defines anew, as it does Construction.*)
GrowingCall(o) ==
  \/ \E v \in Values : PushBack(o, v)
  \/ \E i \in Positions : PushBackElement(o, i)
  \/ \E pos \in Positions, v \in Values : Insert(o, pos, v)
  \/ \E pos, i \in Positions : InsertElement(o, pos, i)
  \/ \E pos \in Positions, items \in Ranges :
       InsertRange(o, pos, items) \/ InsertInputRange(o, pos, items)
  \/ \E n \in Counts, v \in Values : AssignCount(o, n, v)
  \/ \E items \in Ranges : Assign(o, items)

(* Nothing happens after an abort. *)
Halted == aborted /\ UNCHANGED vars

-----------------------------------------------------------------------------
Cells == 0 .. MAXIMUM_SIZE - 1

(* The cells that hold the elements of c. *)
ElementCells(c) == {AtIterator(c, k) : k \in 0 .. c.size - 1}

(* No call constructs over a live element, destroys or reads a cell that   *)
(* holds none: the relocations of insert and erase, which construct and    *)
(* destroy element by element, respect every element's lifetime.           *)
LifetimesRespected == ~undefined

(* Between calls the live elements are exactly those in begin() .. end():  *)
(* erase, resize, clear and the moves leak no element and leave no hole.   *)
LiveCellsAreElements ==
  \A o \in Objects : objects[o] # NoObject =>
    /\ objects[o].size <= MAXIMUM_SIZE
    /\ \A a \in ElementCells(objects[o]) : objects[o].cells[a] # Raw
    /\ ~TriviallyCopyable =>
         \A a \in Cells \ ElementCells(objects[o]) : objects[o].cells[a] = Raw

(* The sequence that an object stands for. *)
Abstract == [o \in Objects |-> IF objects[o] = NoObject THEN NoObject
                               ELSE Elements(objects[o])]
=============================================================================
