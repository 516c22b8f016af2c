-------------------------- MODULE IndexedSequences --------------------------
(***************************************************************************)
(* What FixedDoublyLinkedList promises its users: each object is a         *)
(* sequence of (index, value) pairs with distinct indices.  An element     *)
(* keeps its index for as long as it is in the list, a copy has the same   *)
(* elements at the same indices, and a value is never overwritten or       *)
(* dropped without being removed, unless T is trivially copyable.          *)
(***************************************************************************)
EXTENDS Naturals, Sequences

CONSTANTS Objects, NoObject, Indices, Values, MovedFrom

VARIABLES seqs, TriviallyCopyable

Init == TriviallyCopyable \in BOOLEAN /\ seqs = [o \in Objects |-> NoObject]

IndicesAreDistinct(s) == \A i, j \in 1 .. Len(s) : s[i][1] = s[j][1] => i = j

(* A new object may begin with elements. *)
CreateWith(o, new) ==
  /\ \A j \in 1 .. Len(new) : new[j][1] \in Indices /\ new[j][2] \in Values
  /\ IndicesAreDistinct(new)
  /\ seqs' = [seqs EXCEPT ![o] = new]

(* Ways to keep p of n elements in their order. *)
Choices(p, n) ==
  {f \in [1 .. p -> 1 .. n] : \A i, j \in 1 .. p : i < j => f[i] < f[j]}

(* The p elements that keep chooses stay, in their order; all others of    *)
(* the next state are new ones, together behind the first k of them.       *)
Splice(o, new, p, keep, k) ==
  LET n == Len(new) - p IN
  /\ \A j \in 1 .. p : new[IF j <= k THEN j ELSE j + n] = seqs[o][keep[j]]
  /\ \A j \in k + 1 .. k + n : new[j][1] \in Indices /\ new[j][2] \in Values
  /\ IndicesAreDistinct(new)
  /\ seqs' = [seqs EXCEPT ![o] = new]

HoldsNothing(o) == seqs[o] = NoObject \/ TriviallyCopyable \/ seqs[o] = << >>

Copy(o, other) ==
  /\ HoldsNothing(o) /\ seqs[other] # NoObject
  /\ seqs' = [seqs EXCEPT ![o] = seqs[other]]

Move(o, other) ==
  /\ HoldsNothing(o) /\ seqs[other] # NoObject /\ ~TriviallyCopyable
  /\ seqs' = [seqs EXCEPT ![o] = seqs[other],
       ![other] = [k \in 1 .. Len(@) |-> <<@[k][1], MovedFrom>>]]

End(o) ==
  /\ seqs[o] # NoObject /\ HoldsNothing(o)
  /\ seqs' = [seqs EXCEPT ![o] = NoObject]

Next ==
  /\ UNCHANGED TriviallyCopyable
  /\ \E o \in Objects :
       \/ End(o)
       \/ /\ seqs[o] # NoObject /\ seqs'[o] # NoObject
          /\ \E p \in 0 .. Len(seqs[o]), k \in 0 .. Len(seqs[o]) :
               /\ k <= p /\ p <= Len(seqs'[o])
               /\ \E keep \in Choices(p, Len(seqs[o])) : Splice(o, seqs'[o], p, keep, k)
       \/ /\ seqs[o] = NoObject /\ seqs'[o] # NoObject
          /\ CreateWith(o, seqs'[o])
       \/ \E other \in Objects : Copy(o, other) \/ Move(o, other)

Spec == Init /\ [][Next]_<<seqs, TriviallyCopyable>>
=============================================================================
