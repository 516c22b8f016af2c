-------------------------- MODULE BoundedSequences --------------------------
(***************************************************************************)
(* What FixedVector, FixedDeque and FixedCircularDeque promise: the        *)
(* behaviour of the std containers on sequences of at most MAXIMUM_SIZE    *)
(* elements.  `call' is the call that the program made last: op, the       *)
(* object, the other object of a copy or a move, two numbers, the elements *)
(* passed and the result.  A call that the container must refuse aborts    *)
(* the program; every other call has the effect and the result defined     *)
(* here.  Positions count from 0.                                          *)
(***************************************************************************)
EXTENDS Naturals, Sequences

CONSTANTS
  Objects, NoObject, MAXIMUM_SIZE, Values, MovedFrom,
  Circular     (* a full container makes room by dropping elements         *)

VARIABLES
  seqs, call, aborted,
  build        (* its trivially_copyable: whether a move is a copy         *)

vars == <<seqs, call, aborted, build>>

NoCall == [op |-> "none", obj |-> NoObject, from |-> NoObject, i |-> 0, j |-> 0,
           items |-> << >>, ret |-> 0]

Init == /\ seqs = [o \in Objects |-> NoObject]
        /\ call = NoCall
        /\ aborted = FALSE

First(s, n) == SubSeq(s, 1, n)
Drop(s, n)  == SubSeq(s, n + 1, Len(s))
Excess(n)   == IF n > MAXIMUM_SIZE THEN n - MAXIMUM_SIZE ELSE 0
Copies(n, v) == [k \in 1 .. n |-> v]
Spliced(s, i, items) == First(s, i) \o items \o Drop(s, i)

(* The calls that the container accepts. *)
Accepts(c, s) ==
  CASE c.op \in {"push_back", "push_front"} -> Len(s) < MAXIMUM_SIZE \/ Circular
    [] c.op \in {"pop_back", "pop_front", "front", "back"} -> s # << >>
    [] c.op \in {"insert", "insert_input"} ->
         c.i <= Len(s) /\ (Len(s) + Len(c.items) <= MAXIMUM_SIZE \/ Circular)
    [] c.op = "erase" -> c.i <= c.j /\ c.j <= Len(s)
    [] c.op = "resize" -> c.i <= MAXIMUM_SIZE
    [] c.op = "assign_count" -> c.i <= MAXIMUM_SIZE \/ Circular
    [] c.op = "assign" -> Len(c.items) <= MAXIMUM_SIZE \/ Circular
    [] c.op = "at" -> c.i < Len(s)
    [] OTHER -> TRUE

(* What becomes of the sequence.  A circular container drops elements from *)
(* the front to insert, and from the back to push at the front; what is    *)
(* inserted itself goes through the front when there is no room left.      *)
Effect(c, s) ==
  CASE c.op = "push_back"  -> Drop(Append(s, c.items[1]), Excess(Len(s) + 1))
    [] c.op = "push_front" -> First(c.items \o s, Len(s) + 1 - Excess(Len(s) + 1))
    [] c.op = "pop_back"   -> First(s, Len(s) - 1)
    [] c.op = "pop_front"  -> Tail(s)
    [] c.op \in {"insert", "insert_input"} ->
         LET all == Spliced(s, c.i, c.items) IN Drop(all, Excess(Len(all)))
    [] c.op = "erase"  -> First(s, c.i) \o Drop(s, c.j)
    [] c.op = "resize" ->
         IF c.i <= Len(s) THEN First(s, c.i) ELSE s \o Copies(c.i - Len(s), c.items[1])
    [] c.op = "assign_count" -> Copies(c.i - Excess(c.i), c.items[1])
    [] c.op = "assign" -> Drop(c.items, Excess(Len(c.items)))
    [] c.op = "clear"  -> << >>
    [] c.op = "erase_value" -> SelectSeq(s, LAMBDA x : x # c.items[1])
    [] OTHER -> s

(* The result: a position, a count, an element, or 0 for none. *)
Result(c, s) ==
  CASE c.op \in {"insert", "insert_input"} ->
         LET dropped == Excess(Len(s) + Len(c.items))
         IN  IF dropped > c.i THEN 0 ELSE c.i - dropped
    [] c.op = "erase" -> c.i
    [] c.op = "erase_value" -> Len(s) - Len(Effect(c, s))
    [] c.op = "at" -> s[c.i + 1]
    [] c.op = "front" -> s[1]
    [] c.op = "back" -> s[Len(s)]
    [] OTHER -> 0

Operations == {"push_back", "push_front", "pop_back", "pop_front", "front", "back",
               "insert", "insert_input", "erase", "resize", "assign_count", "assign",
               "clear", "erase_value", "at"}

Refuse(c) == /\ aborted' = TRUE
             /\ call' = [c EXCEPT !.ret = 0]
             /\ UNCHANGED seqs

Make(c) ==
  LET s == seqs[c.obj] IN
  /\ c.op \in Operations /\ s # NoObject
  /\ \/ /\ Accepts(c, s)
        /\ seqs' = [seqs EXCEPT ![c.obj] = Effect(c, s)]
        /\ call' = [c EXCEPT !.ret = Result(c, s)]
        /\ UNCHANGED aborted
     \/ ~Accepts(c, s) /\ Refuse(c)

(* A constructor: the default one, of a range, or of i copies. *)
Construct(c) ==
  LET items == IF c.op = "construct" THEN c.items
               ELSE Copies(c.i, c.items[1])
  IN
  /\ c.op \in {"construct", "construct_count"} /\ seqs[c.obj] = NoObject
  /\ \/ /\ Len(items) <= MAXIMUM_SIZE \/ Circular
        /\ seqs' = [seqs EXCEPT ![c.obj] = Drop(items, Excess(Len(items)))]
        /\ call' = c
        /\ UNCHANGED aborted
     \/ Len(items) > MAXIMUM_SIZE /\ ~Circular /\ Refuse(c)

(* Copy construction and assignment. *)
Copy(c) ==
  /\ c.op = "copy" /\ seqs[c.from] # NoObject
  /\ seqs' = [seqs EXCEPT ![c.obj] = seqs[c.from]]
  /\ call' = c /\ UNCHANGED aborted

(* Move construction and assignment.  The source keeps its elements when a *)
(* move is a copy; otherwise it is empty or holds moved-from elements.     *)
Move(c) ==
  LET s == seqs[c.from] IN
  /\ c.op = "move" /\ s # NoObject
  /\ \E rest \in {<< >>, Copies(Len(s), MovedFrom)}
                  \cup (IF build.trivially_copyable \/ c.from = c.obj THEN {s} ELSE {}) :
       /\ c.from = c.obj => rest = s
       /\ seqs' = [seqs EXCEPT ![c.obj] = s, ![c.from] = rest]
  /\ call' = c /\ UNCHANGED aborted

Destroy(c) ==
  /\ c.op = "destroy" /\ seqs[c.obj] # NoObject
  /\ seqs' = [seqs EXCEPT ![c.obj] = NoObject]
  /\ call' = c /\ UNCHANGED aborted

(* The call is the one that the step records. *)
Next == LET c == [call' EXCEPT !.ret = 0] IN
        /\ ~aborted /\ UNCHANGED build
        /\ Make(c) \/ Construct(c) \/ Copy(c) \/ Move(c) \/ Destroy(c)

Spec == Init /\ [][Next]_vars
=============================================================================
