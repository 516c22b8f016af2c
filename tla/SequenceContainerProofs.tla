----------------------- MODULE SequenceContainerProofs -----------------------
(***************************************************************************)
(* What the algorithms of FixedVectorBase and FixedDequeBase do to the     *)
(* lifetimes of elements, for every capacity, every element type and every *)
(* way of placing positions in the array that meets PlacesAreSound.        *)
(* FixedVector and FixedDeque are instances.                               *)
(***************************************************************************)
EXTENDS SequenceContainer, InductionLemmas

CONSTANTS
  Forms,   (* the objects: their fields cells, ub, size, and others        *)
  Good     (* what a cell of an element may hold                           *)

Memory == [Cells -> Contents \cup {Raw}]

WithCells(c, m) == [c EXCEPT !.cells = m]
WithUb(c, u)    == [c EXCEPT !.ub = u]
WithSize(c, n)  == [c EXCEPT !.size = n]

(* Position k lies in the same cell in both. *)
SamePlaces(c, d) == \A k \in Cells : AtIterator(d, k) = AtIterator(c, k)

(* The fields change independently, and the places do not depend on them. *)
FieldsAreSound ==
  /\ \A c \in Forms : c.cells \in Memory /\ c.ub \in BOOLEAN /\ c.size \in 0 .. MAXIMUM_SIZE
  /\ \A c \in Forms, m \in Memory :
       /\ WithCells(c, m) \in Forms /\ SamePlaces(c, WithCells(c, m))
       /\ WithCells(c, m).cells = m /\ WithCells(c, m).ub = c.ub
       /\ WithCells(c, m).size = c.size
  /\ \A c \in Forms, u \in BOOLEAN :
       /\ WithUb(c, u) \in Forms /\ SamePlaces(c, WithUb(c, u))
       /\ WithUb(c, u).cells = c.cells /\ WithUb(c, u).ub = u
       /\ WithUb(c, u).size = c.size
  /\ \A c \in Forms, n \in 0 .. MAXIMUM_SIZE :
       /\ WithSize(c, n) \in Forms /\ SamePlaces(c, WithSize(c, n))
       /\ WithSize(c, n).cells = c.cells /\ WithSize(c, n).ub = c.ub
       /\ WithSize(c, n).size = n

(* Each position has a cell of its own, and every cell is the place of a   *)
(* position.                                                               *)
PlacesAreSound ==
  /\ \A c \in Forms : \A k \in Cells : AtIterator(c, k) \in Cells
  /\ \A c \in Forms : \A j, k \in Cells : AtIterator(c, j) = AtIterator(c, k) => j = k
  /\ \A c \in Forms : \A a \in Cells : \E k \in Cells : AtIterator(c, k) = a

(* front_index, end_index and back_index name the places they should; a    *)
(* new object and one that was reset are empty.                            *)
EndsAreSound ==
  /\ \A c \in Forms :
       /\ c.size < MAXIMUM_SIZE => EndIndex(c) = AtIterator(c, c.size)
       /\ c.size > 0 => BackIndex(c) = AtIterator(c, c.size - 1)
       /\ Reset(c) \in Forms /\ Reset(c).cells = c.cells /\ Reset(c).ub = c.ub
       /\ Reset(c).size = 0
  /\ EmptyObject \in Forms /\ EmptyObject.size = 0 /\ EmptyObject.ub = FALSE
  /\ \A k \in Cells : EmptyObject.cells[k] = Raw /\ AtIterator(EmptyObject, k) = k

ValuesAreSound ==
  /\ Values \subseteq Good /\ Good \subseteq Contents /\ Raw \notin Contents
  /\ \A v \in Good : MovedOut(v) \in Good

Sound ==
  /\ MAXIMUM_SIZE \in Nat
  /\ FieldsAreSound /\ PlacesAreSound /\ EndsAreSound /\ ValuesAreSound

-----------------------------------------------------------------------------
(* The elements of c that are alive are those at the positions P. *)
Holds(c, P) ==
  /\ c.ub = FALSE
  /\ \A p \in P : c.cells[AtIterator(c, p)] \in Good
  /\ ~TriviallyCopyable => \A p \in Cells \ P : c.cells[AtIterator(c, p)] = Raw

(* d is what an algorithm makes of c: it holds n elements, those at P are  *)
(* alive, and the cells of the positions from N on were left alone.        *)
Becomes(c, d, n, P, N) ==
  /\ d \in Forms /\ d.size = n /\ SamePlaces(c, d) /\ Holds(d, P)
  /\ \A k \in Cells : k >= N => d.cells[AtIterator(c, k)] = c.cells[AtIterator(c, k)]

(* The first n positions. *)
Upto(n) == 0 .. n - 1

(* An object between two calls. *)
Intact(c) == c \in Forms /\ Holds(c, Upto(c.size))

LEMMA BecomesItself ==
  ASSUME NEW c \in Forms, NEW P, Holds(c, P), NEW N
  PROVE  Becomes(c, c, c.size, P, N)
BY DEF Becomes, SamePlaces

LEMMA BecomesInTurn ==
  ASSUME NEW c, NEW d, NEW e, NEW m, NEW n, NEW P, NEW Q,
         NEW M \in Nat, NEW N \in Nat, NEW L \in Nat, M <= L, N <= L, MAXIMUM_SIZE \in Nat,
         Becomes(c, d, m, P, M), Becomes(d, e, n, Q, N)
  PROVE  Becomes(c, e, n, Q, L)
<1>1. \A k \in Cells : k \in Int
  BY DEF Cells
<1>2. \A k \in Cells : k >= L => k >= M /\ k >= N
  BY <1>1
<1> QED  BY <1>2 DEF Becomes, SamePlaces

(* A longer stretch of cells is left alone by what leaves a shorter alone. *)
LEMMA BecomesWithin ==
  ASSUME NEW c, NEW d, NEW n, NEW P, NEW M \in Nat, NEW N \in Nat, M <= N,
         MAXIMUM_SIZE \in Nat, Becomes(c, d, n, P, M)
  PROVE  Becomes(c, d, n, P, N)
<1>1. \A k \in Cells : k >= N => k >= M
  BY DEF Cells
<1> QED  BY <1>1 DEF Becomes

(* What an object is. *)
LEMMA ObjectFields ==
  ASSUME Sound, NEW c \in Forms
  PROVE  /\ c.cells \in Memory /\ c.ub \in BOOLEAN
         /\ c.size \in 0 .. MAXIMUM_SIZE /\ MAXIMUM_SIZE \in Nat
         /\ \A k \in Cells : AtIterator(c, k) \in Cells
         /\ \A j, k \in Cells : AtIterator(c, j) = AtIterator(c, k) => j = k
         /\ \A a \in Cells : \E k \in Cells : AtIterator(c, k) = a
<1>1. c.cells \in Memory /\ c.ub \in BOOLEAN /\ c.size \in 0 .. MAXIMUM_SIZE
  BY DEF Sound, FieldsAreSound
<1>2. /\ \A k \in Cells : AtIterator(c, k) \in Cells
      /\ \A j, k \in Cells : AtIterator(c, j) = AtIterator(c, k) => j = k
      /\ \A a \in Cells : \E k \in Cells : AtIterator(c, k) = a
  BY Zenon DEF Sound, PlacesAreSound
<1> QED  BY <1>1, <1>2 DEF Sound

(* Where it ends. *)
LEMMA ObjectEnds ==
  ASSUME Sound, NEW c \in Forms
  PROVE  /\ c.size < MAXIMUM_SIZE => EndIndex(c) = AtIterator(c, c.size)
         /\ c.size > 0 => BackIndex(c) = AtIterator(c, c.size - 1)
         /\ Reset(c) \in Forms /\ Reset(c).cells = c.cells /\ Reset(c).ub = c.ub
         /\ Reset(c).size = 0
BY Zenon DEF Sound, EndsAreSound

(* construct_at at a position that is free. *)
LEMMA ConstructAt ==
  ASSUME Sound, NEW c \in Forms, NEW P \in SUBSET Cells, Holds(c, P),
         NEW p \in Cells, p \notin P \/ TriviallyCopyable, NEW v \in Good,
         NEW N \in Nat, p < N
  PROVE  Becomes(c, construct_at(c, AtIterator(c, p), v), c.size, P \cup {p}, N)
<1> DEFINE i == AtIterator(c, p)
           m == [c.cells EXCEPT ![i] = v]
           u == c.ub \/ v = Raw \/ (~TriviallyCopyable /\ c.cells[i] # Raw)
           b == WithCells(c, m)
           d == WithUb(b, u)
<1>1. construct_at(c, i, v) = d
  BY DEF construct_at, WithCells, WithUb
<1>2. /\ c.cells \in Memory /\ i \in Cells /\ v # Raw /\ v \in Contents
      /\ \A q \in Cells : AtIterator(c, q) \in Cells /\ (AtIterator(c, q) = i => q = p)
  BY ObjectFields DEF Sound, ValuesAreSound
<1>3. m \in Memory /\ m[i] = v /\ \A a \in Cells : a # i => m[a] = c.cells[a]
  BY <1>2 DEF Memory
<1>4. u \in BOOLEAN /\ u = FALSE
  BY <1>2 DEF Holds
<1> HIDE DEF i, m, u
<1>5. b \in Forms /\ b.cells = m /\ b.size = c.size /\ SamePlaces(c, b)
  BY <1>3 DEF Sound, FieldsAreSound
<1> HIDE DEF b
<1>6. /\ d \in Forms /\ d.cells = m /\ d.ub = FALSE /\ d.size = c.size
      /\ SamePlaces(b, d)
  BY <1>4, <1>5 DEF Sound, FieldsAreSound
<1> HIDE DEF d
<1>7. SamePlaces(c, d)
  BY <1>5, <1>6 DEF SamePlaces
<1>8. AtIterator(d, p) = i /\ \A q \in Cells : AtIterator(d, q) = AtIterator(c, q)
  BY <1>7 DEF SamePlaces, i
<1>9. Holds(d, P \cup {p})
  BY <1>2, <1>3, <1>6, <1>8 DEF Holds
<1>10. \A k \in Cells : k >= N => k # p
  BY DEF Cells, Sound
<1>11. \A k \in Cells : k >= N => d.cells[AtIterator(c, k)] = c.cells[AtIterator(c, k)]
  BY <1>2, <1>3, <1>6, <1>10
<1>12. Becomes(c, d, c.size, P \cup {p}, N)
  BY <1>6, <1>7, <1>9, <1>11 DEF Becomes
<1> QED  BY <1>1, <1>12 DEF i

(* destroy_at of an element. *)
LEMMA DestroyAt ==
  ASSUME Sound, NEW c \in Forms, NEW P \in SUBSET Cells, Holds(c, P),
         NEW p \in P, NEW N \in Nat, p < N
  PROVE  Becomes(c, destroy_at(c, AtIterator(c, p)), c.size, P \ {p}, N)
<1>1. CASE TriviallyCopyable
  <2>1. destroy_at(c, AtIterator(c, p)) = c
    BY <1>1 DEF destroy_at
  <2>2. Holds(c, P \ {p})
    BY <1>1 DEF Holds
  <2> QED  BY <2>1, <2>2, BecomesItself
<1>2. CASE ~TriviallyCopyable
  <2> DEFINE i == AtIterator(c, p)
             m == [c.cells EXCEPT ![i] = Raw]
             u == c.ub \/ c.cells[i] = Raw
             b == WithCells(c, m)
             d == WithUb(b, u)
  <2>1. destroy_at(c, i) = d
    BY <1>2 DEF destroy_at, WithCells, WithUb
  <2>2. /\ c.cells \in Memory /\ i \in Cells /\ c.cells[i] # Raw
        /\ \A q \in Cells : AtIterator(c, q) \in Cells /\ (AtIterator(c, q) = i => q = p)
    BY ObjectFields DEF Sound, ValuesAreSound, Holds
  <2>3. m \in Memory /\ m[i] = Raw /\ \A a \in Cells : a # i => m[a] = c.cells[a]
    BY <2>2 DEF Memory
  <2>4. u \in BOOLEAN /\ u = FALSE
    BY <2>2 DEF Holds
  <2> HIDE DEF i, m, u
  <2>5. b \in Forms /\ b.cells = m /\ b.size = c.size /\ SamePlaces(c, b)
    BY <2>3 DEF Sound, FieldsAreSound
  <2> HIDE DEF b
  <2>6. /\ d \in Forms /\ d.cells = m /\ d.ub = FALSE /\ d.size = c.size
        /\ SamePlaces(b, d)
    BY <2>4, <2>5 DEF Sound, FieldsAreSound
  <2> HIDE DEF d
  <2>7. SamePlaces(c, d)
    BY <2>5, <2>6 DEF SamePlaces
  <2>8. AtIterator(d, p) = i /\ \A q \in Cells : AtIterator(d, q) = AtIterator(c, q)
    BY <2>7 DEF SamePlaces, i
  <2>9. Holds(d, P \ {p})
    BY <2>2, <2>3, <2>6, <2>8 DEF Holds
  <2>10. \A k \in Cells : k >= N => k # p
    BY DEF Cells, Sound
  <2>11. \A k \in Cells : k >= N => d.cells[AtIterator(c, k)] = c.cells[AtIterator(c, k)]
    BY <2>2, <2>3, <2>6, <2>10
  <2>12. Becomes(c, d, c.size, P \ {p}, N)
    BY <2>6, <2>7, <2>9, <2>11 DEF Becomes
  <2> QED  BY <2>1, <2>12 DEF i
<1> QED  BY <1>1, <1>2

(* An element is overwritten by another value. *)
LEMMA WriteElement ==
  ASSUME Sound, NEW c \in Forms, NEW P \in SUBSET Cells, Holds(c, P),
         NEW p \in P, NEW v \in Good, NEW N \in Nat, p < N
  PROVE  Becomes(c, WithCells(c, [c.cells EXCEPT ![AtIterator(c, p)] = v]), c.size, P, N)
<1> DEFINE i == AtIterator(c, p)
           m == [c.cells EXCEPT ![i] = v]
           d == WithCells(c, m)
<1>1. /\ c.cells \in Memory /\ i \in Cells /\ v \in Contents
      /\ \A q \in Cells : AtIterator(c, q) \in Cells /\ (AtIterator(c, q) = i => q = p)
  BY ObjectFields DEF Sound, ValuesAreSound
<1>2. m \in Memory /\ m[i] = v /\ \A a \in Cells : a # i => m[a] = c.cells[a]
  BY <1>1 DEF Memory
<1> HIDE DEF i, m
<1>3. d \in Forms /\ d.cells = m /\ d.ub = c.ub /\ d.size = c.size /\ SamePlaces(c, d)
  BY <1>2 DEF Sound, FieldsAreSound
<1> HIDE DEF d
<1>4. AtIterator(d, p) = i /\ \A q \in Cells : AtIterator(d, q) = AtIterator(c, q)
  BY <1>3 DEF SamePlaces, i
<1>5. Holds(d, P)
  BY <1>1, <1>2, <1>3, <1>4 DEF Holds
<1>6. \A k \in Cells : k >= N => k # p
  BY DEF Cells, Sound
<1>7. \A k \in Cells : k >= N => d.cells[AtIterator(c, k)] = c.cells[AtIterator(c, k)]
  BY <1>1, <1>2, <1>3, <1>6
<1>8. Becomes(c, d, c.size, P, N)
  BY <1>3, <1>5, <1>7 DEF Becomes
<1> QED  BY <1>8 DEF d, m, i

(* The flag ub is set to what it was, and the size to n. *)
LEMMA SetUb ==
  ASSUME Sound, NEW c \in Forms, NEW P \in SUBSET Cells, Holds(c, P), NEW N \in Nat
  PROVE  Becomes(c, WithUb(c, FALSE), c.size, P, N)
<1> DEFINE d == WithUb(c, FALSE)
<1>1. d \in Forms /\ d.cells = c.cells /\ d.ub = FALSE /\ d.size = c.size /\ SamePlaces(c, d)
  BY DEF Sound, FieldsAreSound
<1> HIDE DEF d
<1>2. Holds(d, P)
  BY <1>1 DEF Holds, SamePlaces
<1>3. Becomes(c, d, c.size, P, N)
  BY <1>1, <1>2 DEF Becomes
<1> QED  BY <1>3 DEF d

LEMMA SetSize ==
  ASSUME Sound, NEW c \in Forms, NEW P \in SUBSET Cells, Holds(c, P), NEW N \in Nat,
         NEW n \in 0 .. MAXIMUM_SIZE
  PROVE  Becomes(c, WithSize(c, n), n, P, N)
<1> DEFINE d == WithSize(c, n)
<1>1. d \in Forms /\ d.cells = c.cells /\ d.ub = c.ub /\ d.size = n /\ SamePlaces(c, d)
  <2>1. \A x \in Forms, k \in 0 .. MAXIMUM_SIZE :
          /\ WithSize(x, k) \in Forms /\ SamePlaces(x, WithSize(x, k))
          /\ WithSize(x, k).cells = x.cells /\ WithSize(x, k).ub = x.ub
          /\ WithSize(x, k).size = k
    BY Zenon DEF Sound, FieldsAreSound
  <2> QED  BY <2>1, Zenon
<1> HIDE DEF d
<1>2. Holds(d, P)
  BY <1>1 DEF Holds, SamePlaces
<1>3. Becomes(c, d, n, P, N)
  BY <1>1, <1>2 DEF Becomes
<1> QED  BY <1>3 DEF d

(* relocate from p to q, where q is free.  Bytes may be copied anywhere.   *)
LEMMA Relocate ==
  ASSUME Sound, NEW c \in Forms, NEW P \in SUBSET Cells, Holds(c, P),
         NEW p \in P, NEW q \in Cells, q \notin P \/ TriviallyCopyable,
         NEW N \in Nat, p < N, q < N
  PROVE  Becomes(c, relocate(c, AtIterator(c, p), AtIterator(c, q)), c.size,
                 (P \ {p}) \cup {q}, N)
<1> DEFINE i == AtIterator(c, p)
           j == AtIterator(c, q)
           v == c.cells[i]
           a == WithCells(c, [c.cells EXCEPT ![i] = MovedOut(v)])
           b == construct_at(a, j, v)
           d == destroy_at(b, i)
<1>1. relocate(c, i, j) = d
  BY DEF relocate, WithCells
<1>2. v \in Good /\ MovedOut(v) \in Good /\ MAXIMUM_SIZE \in Nat
  BY DEF Holds, Sound, ValuesAreSound
<1>3. Becomes(c, a, c.size, P, N)
  BY <1>2, WriteElement
<1> HIDE DEF v, a
<1>4. a \in Forms /\ a.size = c.size /\ Holds(a, P) /\ AtIterator(a, q) = j /\ AtIterator(a, p) = i
  BY <1>3 DEF Becomes, SamePlaces
<1>5. Becomes(a, b, a.size, P \cup {q}, N)
  <2>1. Becomes(a, construct_at(a, AtIterator(a, q), v), a.size, P \cup {q}, N)
    BY <1>2, <1>4, ConstructAt
  <2> QED  BY <1>4, <2>1
<1> HIDE DEF b
<1>6. /\ Becomes(c, b, c.size, P \cup {q}, N) /\ b \in Forms /\ b.size = c.size
      /\ Holds(b, P \cup {q}) /\ P \cup {q} \in SUBSET Cells
  <2>1. Becomes(c, b, c.size, P \cup {q}, N)
    BY <1>2, <1>3, <1>4, <1>5, BecomesInTurn
  <2> QED  BY <2>1 DEF Becomes
<1>7. AtIterator(b, p) = i
  BY <1>4, <1>5 DEF Becomes, SamePlaces
<1>8. CASE TriviallyCopyable
  <2>1. d = b
    BY <1>8 DEF destroy_at
  <2>2. Holds(b, (P \ {p}) \cup {q})
    BY <1>6, <1>8 DEF Holds
  <2> QED  BY <1>1, <1>6, <2>1, <2>2 DEF Becomes
<1>9. CASE ~TriviallyCopyable
  <2>1. (P \cup {q}) \ {p} = (P \ {p}) \cup {q} /\ p \in P \cup {q}
    BY <1>9
  <2>2. Becomes(b, destroy_at(b, AtIterator(b, p)), b.size, (P \cup {q}) \ {p}, N)
    BY <1>6, DestroyAt
  <2>3. Becomes(b, d, c.size, (P \ {p}) \cup {q}, N)
    BY <1>6, <1>7, <2>1, <2>2
  <2> QED  BY <1>1, <1>2, <1>6, <2>3, BecomesInTurn
<1> QED  BY <1>8, <1>9

(* move_assign between two elements. *)
LEMMA MoveAssign ==
  ASSUME Sound, NEW c \in Forms, NEW P \in SUBSET Cells, Holds(c, P),
         NEW p \in P, NEW q \in P, NEW N \in Nat, p < N, q < N
  PROVE  Becomes(c, move_assign(c, AtIterator(c, p), AtIterator(c, q)), c.size, P, N)
<1> DEFINE i == AtIterator(c, p)
           j == AtIterator(c, q)
           v == c.cells[i]
           a == WithCells(c, [c.cells EXCEPT ![j] = v])
           b == WithCells(a, [a.cells EXCEPT ![i] = MovedOut(v)])
           u == b.ub \/ v = Raw \/ c.cells[j] = Raw
           d == WithUb(b, u)
<1>1. move_assign(c, i, j) = d
  BY DEF move_assign, WithCells, WithUb
<1>2. /\ v \in Good /\ MovedOut(v) \in Good /\ MAXIMUM_SIZE \in Nat /\ v # Raw
      /\ c.cells[j] # Raw
  BY DEF Holds, Sound, ValuesAreSound
<1>3. Becomes(c, a, c.size, P, N)
  BY <1>2, WriteElement
<1> HIDE DEF v, a
<1>4. a \in Forms /\ a.size = c.size /\ Holds(a, P) /\ AtIterator(a, p) = i
  BY <1>3 DEF Becomes, SamePlaces
<1>5. Becomes(a, b, a.size, P, N)
  <2>1. Becomes(a, WithCells(a, [a.cells EXCEPT ![AtIterator(a, p)] = MovedOut(v)]), a.size, P, N)
    BY <1>2, <1>4, WriteElement
  <2> QED  BY <1>4, <2>1
<1> HIDE DEF b
<1>6. b \in Forms /\ b.size = c.size /\ Holds(b, P)
  BY <1>4, <1>5 DEF Becomes
<1>7. u = FALSE
  BY <1>2, <1>6 DEF Holds
<1> HIDE DEF u
<1>8. Becomes(b, d, b.size, P, N)
  BY <1>6, <1>7, SetUb
<1> HIDE DEF d
<1>9. Becomes(c, b, c.size, P, N)
  BY <1>2, <1>3, <1>4, <1>5, BecomesInTurn
<1> QED  BY <1>1, <1>2, <1>6, <1>8, <1>9, BecomesInTurn

-----------------------------------------------------------------------------
LEMMA PushBackInternal ==
  ASSUME Sound, NEW c, Intact(c), c.size < MAXIMUM_SIZE, NEW v \in Good
  PROVE  Becomes(c, push_back_internal(c, v), c.size + 1, Upto(c.size + 1), c.size + 1)
<1> DEFINE b == construct_at(c, EndIndex(c), v)
<1>1. /\ c \in Forms /\ Holds(c, Upto(c.size)) /\ c.size \in Nat /\ MAXIMUM_SIZE \in Nat
      /\ EndIndex(c) = AtIterator(c, c.size)
  BY ObjectFields, ObjectEnds DEF Intact
<1>2. /\ c.size \in Cells /\ c.size \notin Upto(c.size) /\ Upto(c.size) \in SUBSET Cells
      /\ Upto(c.size + 1) = Upto(c.size) \cup {c.size} /\ c.size + 1 \in Nat
      /\ c.size < c.size + 1 /\ c.size + 1 \in 0 .. MAXIMUM_SIZE
      /\ Upto(c.size + 1) \in SUBSET Cells
  BY <1>1 DEF Cells, Upto
<1>3. Becomes(c, b, c.size, Upto(c.size + 1), c.size + 1)
  BY <1>1, <1>2, ConstructAt
<1>4. push_back_internal(c, v) = WithSize(b, b.size + 1)
  BY DEF push_back_internal, WithSize
<1> HIDE DEF b
<1>5. b \in Forms /\ b.size = c.size /\ Holds(b, Upto(c.size + 1))
  BY <1>3 DEF Becomes
<1>6. Becomes(b, WithSize(b, c.size + 1), c.size + 1, Upto(c.size + 1), c.size + 1)
  BY <1>2, <1>5, SetSize
<1>7. Becomes(c, WithSize(b, c.size + 1), c.size + 1, Upto(c.size + 1), c.size + 1)
  BY <1>1, <1>2, <1>3, <1>6, BecomesInTurn
<1> QED  BY <1>4, <1>5, <1>7

LEMMA DropBack ==
  ASSUME Sound, NEW c, Intact(c), c.size > 0
  PROVE  Becomes(c, drop_back(c), c.size - 1, Upto(c.size - 1), c.size)
<1> DEFINE b == destroy_at(c, BackIndex(c))
<1>1. /\ c \in Forms /\ Holds(c, Upto(c.size)) /\ c.size \in 0 .. MAXIMUM_SIZE
      /\ c.size \in Nat /\ MAXIMUM_SIZE \in Nat
      /\ BackIndex(c) = AtIterator(c, c.size - 1)
  BY ObjectFields, ObjectEnds DEF Intact
<1>2. /\ c.size - 1 \in Upto(c.size) /\ Upto(c.size) \in SUBSET Cells
      /\ Upto(c.size - 1) = Upto(c.size) \ {c.size - 1} /\ Upto(c.size - 1) \in SUBSET Cells
      /\ c.size - 1 < c.size /\ c.size - 1 \in 0 .. MAXIMUM_SIZE /\ c.size - 1 \in Cells
  BY <1>1 DEF Cells, Upto
<1>3. Becomes(c, b, c.size, Upto(c.size - 1), c.size)
  BY <1>1, <1>2, DestroyAt
<1>4. drop_back(c) = WithSize(b, b.size - 1)
  BY DEF drop_back, WithSize
<1> HIDE DEF b
<1>5. b \in Forms /\ b.size = c.size /\ Holds(b, Upto(c.size - 1))
  BY <1>3 DEF Becomes
<1>6. Becomes(b, WithSize(b, c.size - 1), c.size - 1, Upto(c.size - 1), c.size)
  BY <1>1, <1>2, <1>5, SetSize
<1>7. Becomes(c, WithSize(b, c.size - 1), c.size - 1, Upto(c.size - 1), c.size)
  BY <1>1, <1>2, <1>3, <1>6, BecomesInTurn
<1> QED  BY <1>4, <1>5, <1>7

(* destroy_range of a stretch of elements. *)
LEMMA DestroyRange ==
  ASSUME Sound, NEW c \in Forms, NEW P \in SUBSET Cells, Holds(c, P),
         NEW first \in Nat, NEW last \in Nat, first <= last, first .. last - 1 \subseteq P,
         NEW L \in Nat, last <= L
  PROVE  Becomes(c, destroy_range(c, first, last), c.size, P \ (first .. last - 1), L)
<1> DEFINE N == last - first
           S(x, k) == destroy_at(x, AtIterator(x, first + k))
           Body(f) == [k \in 0 .. N |-> IF k = 0 THEN c ELSE S(f[k - 1], k - 1)]
           loop == CHOOSE f : f = Body(f)
           X == [k \in 0 .. N |-> {x \in Forms :
                   Becomes(c, x, c.size, P \ (first .. first + k - 1), L)}]
           F == [k \in 1 .. N |-> [x \in X[k - 1] |-> S(x, k - 1)]]
<1>1. destroy_range(c, first, last) = loop[N]
  BY DEF destroy_range, Iterate
<1>2. N \in Nat /\ MAXIMUM_SIZE \in Nat
  BY DEF Sound
<1>3. c \in X[0]
  <2>1. P \ (first .. first + 0 - 1) = P /\ 0 \in 0 .. N
    BY <1>2
  <2>2. Becomes(c, c, c.size, P, L)
    BY BecomesItself
  <2> QED  BY <2>1, <2>2
<1>4. ASSUME NEW k \in 1 .. N, NEW x \in X[k - 1] PROVE S(x, k - 1) \in X[k]
  <2> DEFINE p == first + (k - 1)
             Q == P \ (first .. first + (k - 1) - 1)
  <2>1. k - 1 \in 0 .. N /\ k \in 0 .. N
    BY <1>2
  <2>2. x \in Forms /\ Becomes(c, x, c.size, Q, L)
    BY <2>1
  <2>3. p \in Q /\ p < L /\ Q \in SUBSET Cells /\ P \ (first .. first + k - 1) = Q \ {p}
    <3>1. p \in first .. last - 1 /\ p < L
      BY <1>2
    <3>2. \A q \in Int : q \in first .. first + k - 1 <=> q \in first .. first + (k - 1) - 1 \/ q = p
      BY <1>2
    <3>3. \A q \in P : q \in Int
      BY DEF Cells
    <3> QED  BY <3>1, <3>2, <3>3
  <2> HIDE DEF p, Q
  <2>4. Holds(x, Q) /\ x.size = c.size
    BY <2>2 DEF Becomes
  <2>5. Becomes(x, destroy_at(x, AtIterator(x, p)), x.size, Q \ {p}, L)
    BY <2>2, <2>3, <2>4, DestroyAt
  <2>6. Becomes(c, destroy_at(x, AtIterator(x, p)), c.size, Q \ {p}, L)
    BY <1>2, <2>2, <2>4, <2>5, BecomesInTurn
  <2>7. destroy_at(x, AtIterator(x, p)) \in X[k]
    BY <2>1, <2>3, <2>6 DEF Becomes
  <2> QED  BY <2>7 DEF p
<1>5. ASSUME NEW f, SolvesLoop(f, c, X, F, N) PROVE RunsLoop(loop, c, X, F, N)
  <2>1. \A k \in 1 .. N : \A x \in X[k - 1] : F[k][x] = S(x, k - 1)
    OBVIOUS
  <2>2. \A k \in 0 .. N : k # 0 <=> k \in 1 .. N
    BY <1>2
  <2>3. 0 \in 0 .. N /\ \A k \in 1 .. N : k \in 0 .. N /\ k - 1 \in 0 .. N
    BY <1>2
  <2> HIDE DEF X, F, S, N
  <2>4. f = Body(f)
    BY <1>5, <2>1, <2>2, <2>3 DEF SolvesLoop
  <2> HIDE DEF Body
  <2>5. loop = Body(loop)
    BY <2>4
  <2> HIDE DEF loop
  <2> USE DEF Body
  <2> QED  BY <2>1, <2>2, <2>3, <2>5 DEF RunsLoop
<1>6. loop[N] \in X[N]
  <2>1. \A k \in 1 .. N : \A x \in X[k - 1] : F[k][x] \in X[k]
    BY <1>4
  <2> HIDE DEF X, F, N, loop
  <2> QED  BY <1>2, <1>3, <1>5, <2>1, LoopEnds
<1>7. first + N - 1 = last - 1 /\ N \in 0 .. N
  BY <1>2
<1> HIDE DEF loop
<1> QED  BY <1>1, <1>6, <1>7

(* clear: every element is destroyed, then the indices are reset. *)
LEMMA ClearLeavesNothing ==
  ASSUME Sound, NEW c, Intact(c)
  PROVE  /\ Intact(clear(c)) /\ clear(c).size = 0
         /\ \A k \in Cells : k >= c.size =>
              clear(c).cells[AtIterator(c, k)] = c.cells[AtIterator(c, k)]
<1> DEFINE d == destroy_range(c, 0, c.size)
<1>1. /\ c \in Forms /\ Holds(c, Upto(c.size)) /\ c.size \in 0 .. MAXIMUM_SIZE
      /\ c.size \in Nat /\ MAXIMUM_SIZE \in Nat
  BY ObjectFields DEF Intact
<1>2. /\ Upto(c.size) = 0 .. c.size - 1 /\ Upto(c.size) \in SUBSET Cells
      /\ Upto(c.size) \ (0 .. c.size - 1) = {} /\ 0 <= c.size /\ c.size <= c.size
  BY <1>1 DEF Cells, Upto
<1>3. Becomes(c, d, c.size, {}, c.size)
  <2>1. Becomes(c, d, c.size, Upto(c.size) \ (0 .. c.size - 1), c.size)
    BY <1>1, <1>2, DestroyRange
  <2> QED  BY <1>2, <2>1
<1>4. clear(c) = Reset(d)
  BY DEF clear
<1> HIDE DEF d
<1>5. d \in Forms /\ Holds(d, {})
  BY <1>3 DEF Becomes
<1>6. /\ Reset(d) \in Forms /\ Reset(d).cells = d.cells /\ Reset(d).ub = d.ub
      /\ Reset(d).size = 0
  BY <1>5, ObjectEnds
<1>7. ~TriviallyCopyable => \A a \in Cells : d.cells[a] = Raw
  BY <1>5, ObjectFields DEF Holds
<1>8. Holds(Reset(d), {})
  BY <1>5, <1>6, <1>7, ObjectFields, SMTT(60) DEF Holds
<1>9. Upto(0) = {}
  BY DEF Upto
<1>10. \A k \in Cells : k >= c.size => d.cells[AtIterator(c, k)] = c.cells[AtIterator(c, k)]
  BY <1>3 DEF Becomes
<1> QED  BY <1>4, <1>6, <1>8, <1>9, <1>10 DEF Intact

(* push_back_internal in a loop. *)
LEMMA AppendAllItems ==
  ASSUME Sound, NEW c, Intact(c), NEW n \in Nat, NEW items \in [1 .. n -> Good],
         c.size + n <= MAXIMUM_SIZE
  PROVE  Becomes(c, AppendAll(c, items), c.size + n, Upto(c.size + n), c.size + n)
<1> DEFINE N == n
           S(x, k) == push_back_internal(x, items[k + 1])
           Body(f) == [k \in 0 .. N |-> IF k = 0 THEN c ELSE S(f[k - 1], k - 1)]
           loop == CHOOSE f : f = Body(f)
           X == [k \in 0 .. N |-> {x \in Forms :
                   Becomes(c, x, c.size + k, Upto(c.size + k), c.size + n)}]
           F == [k \in 1 .. N |-> [x \in X[k - 1] |-> S(x, k - 1)]]
<1>1. AppendAll(c, items) = loop[N]
  <2>1. Len(items) = n
    OBVIOUS
  <2> QED  BY <2>1 DEF AppendAll, Iterate
<1>2. /\ N \in Nat /\ MAXIMUM_SIZE \in Nat /\ c.size \in Nat /\ c.size + n \in Nat
      /\ c \in Forms /\ Holds(c, Upto(c.size))
  BY ObjectFields DEF Intact
<1>3. c \in X[0]
  <2>1. c.size + 0 = c.size /\ 0 \in 0 .. N
    BY <1>2
  <2>2. Becomes(c, c, c.size, Upto(c.size), c.size + n)
    BY <1>2, BecomesItself
  <2> QED  BY <1>2, <2>1, <2>2
<1>4. ASSUME NEW k \in 1 .. N, NEW x \in X[k - 1] PROVE S(x, k - 1) \in X[k]
  <2>1. /\ k - 1 \in 0 .. N /\ k \in 0 .. N /\ (k - 1) + 1 = k
        /\ c.size + (k - 1) < MAXIMUM_SIZE /\ (c.size + (k - 1)) + 1 = c.size + k
        /\ c.size + k <= c.size + n /\ c.size + k \in Nat /\ items[k] \in Good
    BY <1>2
  <2>2. Becomes(c, x, c.size + (k - 1), Upto(c.size + (k - 1)), c.size + n)
    BY <2>1
  <2>3. Intact(x) /\ x.size = c.size + (k - 1)
    BY <2>2 DEF Becomes, Intact
  <2> DEFINE d == push_back_internal(x, items[k])
  <2>4. Becomes(x, d, x.size + 1, Upto(x.size + 1), x.size + 1)
    BY <2>1, <2>3, PushBackInternal
  <2> HIDE DEF d
  <2>5. Becomes(x, d, c.size + k, Upto(c.size + k), c.size + k)
    BY <2>1, <2>3, <2>4
  <2>6. Becomes(c, d, c.size + k, Upto(c.size + k), c.size + n)
    BY <1>2, <2>1, <2>2, <2>5, BecomesInTurn
  <2>7. d \in X[k]
    BY <2>1, <2>6 DEF Becomes
  <2> QED  BY <2>1, <2>7 DEF d
<1>5. ASSUME NEW f, SolvesLoop(f, c, X, F, N) PROVE RunsLoop(loop, c, X, F, N)
  <2>1. \A k \in 1 .. N : \A x \in X[k - 1] : F[k][x] = S(x, k - 1)
    OBVIOUS
  <2>2. \A k \in 0 .. N : k # 0 <=> k \in 1 .. N
    BY <1>2
  <2>3. 0 \in 0 .. N /\ \A k \in 1 .. N : k \in 0 .. N /\ k - 1 \in 0 .. N
    BY <1>2
  <2> HIDE DEF X, F, S, N
  <2>4. f = Body(f)
    BY <1>5, <2>1, <2>2, <2>3 DEF SolvesLoop
  <2> HIDE DEF Body
  <2>5. loop = Body(loop)
    BY <2>4
  <2> HIDE DEF loop
  <2> USE DEF Body
  <2> QED  BY <2>1, <2>2, <2>3, <2>5 DEF RunsLoop
<1>6. loop[N] \in X[N] /\ N \in 0 .. N
  <2>1. \A k \in 1 .. N : \A x \in X[k - 1] : F[k][x] \in X[k]
    BY <1>4
  <2>2. N \in 0 .. N
    BY <1>2
  <2> HIDE DEF X, F, N, loop
  <2>3. loop[N] \in X[N]
    BY <1>2, <1>3, <1>5, <2>1, LoopEnds
  <2> QED  BY <2>2, <2>3
<1> HIDE DEF loop
<1> QED  BY <1>1, <1>6

(* The constructor of count copies. *)
LEMMA PlaceAllCopies ==
  ASSUME Sound, NEW n \in 0 .. MAXIMUM_SIZE, NEW v \in Good
  PROVE  Becomes(EmptyObject, PlaceAll(n, v), n, Upto(n), n)
<1> DEFINE N == n
           S(x, k) == construct_at(x, k, v)
           Body(f) == [k \in 0 .. N |-> IF k = 0 THEN WithSize(EmptyObject, n) ELSE S(f[k - 1], k - 1)]
           loop == CHOOSE f : f = Body(f)
           X == [k \in 0 .. N |-> {x \in Forms : Becomes(EmptyObject, x, n, Upto(k), n)}]
           F == [k \in 1 .. N |-> [x \in X[k - 1] |-> S(x, k - 1)]]
<1>1. PlaceAll(n, v) = loop[N]
  BY DEF PlaceAll, Iterate, WithSize
<1>2. /\ N \in Nat /\ MAXIMUM_SIZE \in Nat /\ EmptyObject \in Forms
      /\ EmptyObject.ub = FALSE /\ \A k \in Cells :
           EmptyObject.cells[k] = Raw /\ AtIterator(EmptyObject, k) = k
  BY DEF Sound, EndsAreSound
<1>3. WithSize(EmptyObject, n) \in X[0]
  <2>1. Upto(0) = {} /\ {} \in SUBSET Cells /\ 0 \in 0 .. N
    BY <1>2 DEF Upto
  <2>2. Holds(EmptyObject, {})
    BY <1>2 DEF Holds
  <2>3. Becomes(EmptyObject, WithSize(EmptyObject, n), n, {}, n)
    BY <1>2, <2>1, <2>2, SetSize
  <2> QED  BY <2>1, <2>3 DEF Becomes
<1>4. ASSUME NEW k \in 1 .. N, NEW x \in X[k - 1] PROVE S(x, k - 1) \in X[k]
  <2>1. /\ k - 1 \in 0 .. N /\ k \in 0 .. N /\ k - 1 \in Cells /\ k - 1 < n
        /\ k - 1 \notin Upto(k - 1) /\ Upto(k) = Upto(k - 1) \cup {k - 1}
        /\ Upto(k - 1) \in SUBSET Cells
    BY <1>2 DEF Upto, Cells
  <2>2. Becomes(EmptyObject, x, n, Upto(k - 1), n)
    BY <2>1
  <2>3. x \in Forms /\ x.size = n /\ Holds(x, Upto(k - 1)) /\ AtIterator(x, k - 1) = k - 1
    BY <1>2, <2>1, <2>2 DEF Becomes, SamePlaces
  <2>4. Becomes(x, construct_at(x, k - 1, v), n, Upto(k), n)
    <3>1. Becomes(x, construct_at(x, AtIterator(x, k - 1), v), x.size,
                  Upto(k - 1) \cup {k - 1}, n)
      BY <1>2, <2>1, <2>3, ConstructAt
    <3> QED  BY <2>1, <2>3, <3>1
  <2>5. Becomes(EmptyObject, construct_at(x, k - 1, v), n, Upto(k), n)
    BY <1>2, <2>2, <2>4, BecomesInTurn
  <2> QED  BY <2>1, <2>5 DEF Becomes
<1>5. ASSUME NEW f, SolvesLoop(f, WithSize(EmptyObject, n), X, F, N) PROVE RunsLoop(loop, WithSize(EmptyObject, n), X, F, N)
  <2>1. \A k \in 1 .. N : \A x \in X[k - 1] : F[k][x] = S(x, k - 1)
    OBVIOUS
  <2>2. \A k \in 0 .. N : k # 0 <=> k \in 1 .. N
    BY <1>2
  <2>3. 0 \in 0 .. N /\ \A k \in 1 .. N : k \in 0 .. N /\ k - 1 \in 0 .. N
    BY <1>2
  <2> HIDE DEF X, F, S, N
  <2>4. f = Body(f)
    BY <1>5, <2>1, <2>2, <2>3 DEF SolvesLoop
  <2> HIDE DEF Body
  <2>5. loop = Body(loop)
    BY <2>4
  <2> HIDE DEF loop
  <2> USE DEF Body
  <2> QED  BY <2>1, <2>2, <2>3, <2>5 DEF RunsLoop
<1>6. loop[N] \in X[N] /\ N \in 0 .. N
  <2>1. \A k \in 1 .. N : \A x \in X[k - 1] : F[k][x] \in X[k]
    BY <1>4
  <2>2. N \in 0 .. N
    BY <1>2
  <2> HIDE DEF X, F, N, loop
  <2>3. loop[N] \in X[N]
    BY <1>2, <1>3, <1>5, <2>1, LoopEnds
  <2> QED  BY <2>2, <2>3
<1> HIDE DEF loop
<1> QED  BY <1>1, <1>6

(* The growing loop of resize. *)
LEMMA GrowTo ==
  ASSUME Sound, NEW c, Intact(c), NEW n \in Nat, NEW v \in Good,
         c.size + n <= MAXIMUM_SIZE
  PROVE  Becomes(c, Iterate(n, c, LAMBDA x, k : push_back_internal(x, v)),
                 c.size + n, Upto(c.size + n), c.size + n)
<1> DEFINE N == n
           S(x, k) == push_back_internal(x, v)
           Body(f) == [k \in 0 .. N |-> IF k = 0 THEN c ELSE S(f[k - 1], k - 1)]
           loop == CHOOSE f : f = Body(f)
           X == [k \in 0 .. N |-> {x \in Forms :
                   Becomes(c, x, c.size + k, Upto(c.size + k), c.size + n)}]
           F == [k \in 1 .. N |-> [x \in X[k - 1] |-> S(x, k - 1)]]
<1>1. Iterate(n, c, LAMBDA x, k : push_back_internal(x, v)) = loop[N]
  BY DEF Iterate
<1>2. /\ N \in Nat /\ MAXIMUM_SIZE \in Nat /\ c.size \in Nat /\ c.size + n \in Nat
      /\ c \in Forms /\ Holds(c, Upto(c.size))
  BY ObjectFields DEF Intact
<1>3. c \in X[0]
  <2>1. c.size + 0 = c.size /\ 0 \in 0 .. N
    BY <1>2
  <2>2. Becomes(c, c, c.size, Upto(c.size), c.size + n)
    BY <1>2, BecomesItself
  <2> QED  BY <1>2, <2>1, <2>2
<1>4. ASSUME NEW k \in 1 .. N, NEW x \in X[k - 1] PROVE S(x, k - 1) \in X[k]
  <2>1. /\ k - 1 \in 0 .. N /\ k \in 0 .. N
        /\ c.size + (k - 1) < MAXIMUM_SIZE /\ (c.size + (k - 1)) + 1 = c.size + k
        /\ c.size + k <= c.size + n /\ c.size + k \in Nat
    BY <1>2
  <2>2. Becomes(c, x, c.size + (k - 1), Upto(c.size + (k - 1)), c.size + n)
    BY <2>1
  <2>3. Intact(x) /\ x.size = c.size + (k - 1)
    BY <2>2 DEF Becomes, Intact
  <2> DEFINE d == push_back_internal(x, v)
  <2>4. Becomes(x, d, x.size + 1, Upto(x.size + 1), x.size + 1)
    BY <2>1, <2>3, PushBackInternal
  <2> HIDE DEF d
  <2>5. Becomes(x, d, c.size + k, Upto(c.size + k), c.size + k)
    BY <2>1, <2>3, <2>4
  <2>6. Becomes(c, d, c.size + k, Upto(c.size + k), c.size + n)
    BY <1>2, <2>1, <2>2, <2>5, BecomesInTurn
  <2>7. d \in X[k]
    BY <2>1, <2>6 DEF Becomes
  <2> QED  BY <2>7 DEF d
<1>5. ASSUME NEW f, SolvesLoop(f, c, X, F, N) PROVE RunsLoop(loop, c, X, F, N)
  <2>1. \A k \in 1 .. N : \A x \in X[k - 1] : F[k][x] = S(x, k - 1)
    OBVIOUS
  <2>2. \A k \in 0 .. N : k # 0 <=> k \in 1 .. N
    BY <1>2
  <2>3. 0 \in 0 .. N /\ \A k \in 1 .. N : k \in 0 .. N /\ k - 1 \in 0 .. N
    BY <1>2
  <2> HIDE DEF X, F, S, N
  <2>4. f = Body(f)
    BY <1>5, <2>1, <2>2, <2>3 DEF SolvesLoop
  <2> HIDE DEF Body
  <2>5. loop = Body(loop)
    BY <2>4
  <2> HIDE DEF loop
  <2> USE DEF Body
  <2> QED  BY <2>1, <2>2, <2>3, <2>5 DEF RunsLoop
<1>6. loop[N] \in X[N] /\ N \in 0 .. N
  <2>1. \A k \in 1 .. N : \A x \in X[k - 1] : F[k][x] \in X[k]
    BY <1>4
  <2>2. N \in 0 .. N
    BY <1>2
  <2> HIDE DEF X, F, N, loop
  <2>3. loop[N] \in X[N]
    BY <1>2, <1>3, <1>5, <2>1, LoopEnds
  <2> QED  BY <2>2, <2>3
<1> HIDE DEF loop
<1> QED  BY <1>1, <1>6

(* The shrinking loop of resize. *)
LEMMA ShrinkTo ==
  ASSUME Sound, NEW c, Intact(c), NEW n \in Nat, n <= c.size
  PROVE  Becomes(c, Iterate(n, c, LAMBDA x, k : drop_back(x)),
                 c.size - n, Upto(c.size - n), c.size)
<1> DEFINE N == n
           S(x, k) == drop_back(x)
           Body(f) == [k \in 0 .. N |-> IF k = 0 THEN c ELSE S(f[k - 1], k - 1)]
           loop == CHOOSE f : f = Body(f)
           X == [k \in 0 .. N |-> {x \in Forms :
                   Becomes(c, x, c.size - k, Upto(c.size - k), c.size)}]
           F == [k \in 1 .. N |-> [x \in X[k - 1] |-> S(x, k - 1)]]
<1>1. Iterate(n, c, LAMBDA x, k : drop_back(x)) = loop[N]
  BY DEF Iterate
<1>2. /\ N \in Nat /\ MAXIMUM_SIZE \in Nat /\ c.size \in Nat
      /\ c \in Forms /\ Holds(c, Upto(c.size))
  BY ObjectFields DEF Intact
<1>3. c \in X[0]
  <2>1. c.size - 0 = c.size /\ 0 \in 0 .. N
    BY <1>2
  <2>2. Becomes(c, c, c.size, Upto(c.size), c.size)
    BY <1>2, BecomesItself
  <2> QED  BY <1>2, <2>1, <2>2
<1>4. ASSUME NEW k \in 1 .. N, NEW x \in X[k - 1] PROVE S(x, k - 1) \in X[k]
  <2>1. /\ k - 1 \in 0 .. N /\ k \in 0 .. N
        /\ c.size - (k - 1) > 0 /\ (c.size - (k - 1)) - 1 = c.size - k
        /\ c.size - (k - 1) <= c.size /\ c.size - (k - 1) \in Nat /\ c.size <= c.size
    BY <1>2
  <2>2. Becomes(c, x, c.size - (k - 1), Upto(c.size - (k - 1)), c.size)
    BY <2>1
  <2>3. Intact(x) /\ x.size = c.size - (k - 1)
    BY <2>2 DEF Becomes, Intact
  <2> DEFINE d == drop_back(x)
  <2>4. Becomes(x, d, x.size - 1, Upto(x.size - 1), x.size)
    BY <2>1, <2>3, DropBack
  <2> HIDE DEF d
  <2>5. Becomes(x, d, c.size - k, Upto(c.size - k), c.size - (k - 1))
    BY <2>1, <2>3, <2>4
  <2>6. Becomes(c, d, c.size - k, Upto(c.size - k), c.size)
    BY <1>2, <2>1, <2>2, <2>5, BecomesInTurn
  <2>7. d \in X[k]
    BY <2>1, <2>6 DEF Becomes
  <2> QED  BY <2>7 DEF d
<1>5. ASSUME NEW f, SolvesLoop(f, c, X, F, N) PROVE RunsLoop(loop, c, X, F, N)
  <2>1. \A k \in 1 .. N : \A x \in X[k - 1] : F[k][x] = S(x, k - 1)
    OBVIOUS
  <2>2. \A k \in 0 .. N : k # 0 <=> k \in 1 .. N
    BY <1>2
  <2>3. 0 \in 0 .. N /\ \A k \in 1 .. N : k \in 0 .. N /\ k - 1 \in 0 .. N
    BY <1>2
  <2> HIDE DEF X, F, S, N
  <2>4. f = Body(f)
    BY <1>5, <2>1, <2>2, <2>3 DEF SolvesLoop
  <2> HIDE DEF Body
  <2>5. loop = Body(loop)
    BY <2>4
  <2> HIDE DEF loop
  <2> USE DEF Body
  <2> QED  BY <2>1, <2>2, <2>3, <2>5 DEF RunsLoop
<1>6. loop[N] \in X[N] /\ N \in 0 .. N
  <2>1. \A k \in 1 .. N : \A x \in X[k - 1] : F[k][x] \in X[k]
    BY <1>4
  <2>2. N \in 0 .. N
    BY <1>2
  <2> HIDE DEF X, F, N, loop
  <2>3. loop[N] \in X[N]
    BY <1>2, <1>3, <1>5, <2>1, LoopEnds
  <2> QED  BY <2>2, <2>3
<1> HIDE DEF loop
<1> QED  BY <1>1, <1>6

(* resize(count, v): no cell beyond the old and the new size is touched.   *)
LEMMA ResizeKeepsIntact ==
  ASSUME Sound, NEW c, Intact(c), NEW n \in 0 .. MAXIMUM_SIZE, NEW v \in Good,
         NEW L \in Nat, c.size <= L, n <= L
  PROVE  Becomes(c, ResizeTo(c, n, v), n, Upto(n), L)
<1>1. c.size \in Nat /\ MAXIMUM_SIZE \in Nat /\ n \in Nat
  BY ObjectFields DEF Intact
<1>2. CASE c.size < n
  <2>1. n - c.size \in Nat /\ c.size + (n - c.size) = n /\ n <= MAXIMUM_SIZE
    BY <1>1, <1>2
  <2> DEFINE d == Iterate(n - c.size, c, LAMBDA x, k : push_back_internal(x, v))
  <2>2. ResizeTo(c, n, v) = d
    BY <1>2 DEF ResizeTo
  <2>3. Becomes(c, d, c.size + (n - c.size), Upto(c.size + (n - c.size)), c.size + (n - c.size))
    BY <2>1, GrowTo
  <2> HIDE DEF d
  <2>4. Becomes(c, d, n, Upto(n), n)
    BY <2>1, <2>3
  <2> QED  BY <1>1, <2>2, <2>4, BecomesWithin
<1>3. CASE ~(c.size < n)
  <2>1. c.size - n \in Nat /\ c.size - (c.size - n) = n /\ c.size - n <= c.size
    BY <1>1, <1>3
  <2> DEFINE d == Iterate(c.size - n, c, LAMBDA x, k : drop_back(x))
  <2>2. ResizeTo(c, n, v) = d
    BY <1>3 DEF ResizeTo
  <2>3. Becomes(c, d, c.size - (c.size - n), Upto(c.size - (c.size - n)), c.size)
    BY <2>1, ShrinkTo
  <2> HIDE DEF d
  <2>4. Becomes(c, d, n, Upto(n), c.size)
    BY <2>1, <2>3
  <2> QED  BY <1>1, <2>2, <2>4, BecomesWithin
<1> QED  BY <1>2, <1>3

-----------------------------------------------------------------------------
(* The positions of c's elements after a gap of n was opened at pos. *)
Gapped(size, pos, n) == Upto(pos) \cup (pos + n .. size + n - 1)

(* Moving the element at p moves the front of the gap down to p. *)
GapStep(z, p, n) ==
  /\ p \in Gapped(z, p + 1, n) /\ (n > 0 => p + n \notin Gapped(z, p + 1, n))
  /\ Gapped(z, p, n) \subseteq (Gapped(z, p + 1, n) \ {p}) \cup {p + n}
  /\ n > 0 => (Gapped(z, p + 1, n) \ {p}) \cup {p + n} = Gapped(z, p, n)
  /\ Gapped(z, p + 1, n) \subseteq Upto(z + n)

LEMMA GapMoves ==
  ASSUME NEW z \in Nat, NEW n \in Nat, NEW p \in Nat, p < z
  PROVE  GapStep(z, p, n)
<1>1. ASSUME NEW r \in Int, NEW s \in Nat, s <= z
      PROVE  r \in Gapped(z, s, n) <=> 0 <= r /\ r < z + n /\ (r < s \/ r >= s + n)
  BY <1>1 DEF Gapped, Upto
<1>2. \A s : Gapped(z, s, n) \subseteq Int
  BY DEF Gapped, Upto
<1>3. p + 1 \in Nat /\ p + 1 <= z /\ p <= z
  OBVIOUS
<1>4. \A r \in Int : /\ r \in Gapped(z, p, n) <=> 0 <= r /\ r < z + n /\ (r < p \/ r >= p + n)
                     /\ r \in Gapped(z, p + 1, n) <=>
                          0 <= r /\ r < z + n /\ (r < p + 1 \/ r >= p + 1 + n)
                     /\ r \in Upto(z + n) <=> 0 <= r /\ r < z + n
  BY <1>1, <1>3 DEF Upto
<1> HIDE DEF Gapped, Upto
<1>5. p \in Gapped(z, p + 1, n) /\ (n > 0 => p + n \notin Gapped(z, p + 1, n))
  BY <1>4
<1>6. Gapped(z, p, n) \subseteq (Gapped(z, p + 1, n) \ {p}) \cup {p + n}
  BY <1>2, <1>4
<1>7. n > 0 => (Gapped(z, p + 1, n) \ {p}) \cup {p + n} \subseteq Gapped(z, p, n)
  BY <1>2, <1>4
<1>8. Gapped(z, p + 1, n) \subseteq Upto(z + n)
  BY <1>2, <1>4
<1> QED  BY <1>5, <1>6, <1>7, <1>8 DEF GapStep

(* The backward relocation opens the gap without touching a live element,  *)
(* unless the gap is empty and something lies behind it.                   *)
LEMMA OpenGap ==
  ASSUME Sound, NEW c, Intact(c), NEW pos \in Nat, pos <= c.size, NEW n \in Nat,
         c.size + n <= MAXIMUM_SIZE,
         n > 0 \/ pos = c.size \/ TriviallyCopyable
  PROVE  Becomes(c, advance_all_after_iterator_by_n(c, pos, n), c.size + n,
                 Gapped(c.size, pos, n), c.size + n)
<1> DEFINE b == WithSize(c, c.size + n)
           from == CellsFrom(b, pos, c.size - pos)
           to == CellsFrom(b, pos + n, c.size - pos)
           Left(k) == Gapped(c.size, c.size - k, n)
<1> DEFINE N == c.size - pos
           S(x, k) == relocate(x, from[N - 1 - k], to[N - 1 - k])
           Body(f) == [k \in 0 .. N |-> IF k = 0 THEN b ELSE S(f[k - 1], k - 1)]
           loop == CHOOSE f : f = Body(f)
           X == [k \in 0 .. N |-> {x \in Forms :
                   Becomes(b, x, c.size + n, Left(k), c.size + n)}]
           F == [k \in 1 .. N |-> [x \in X[k - 1] |-> S(x, k - 1)]]
<1>1. advance_all_after_iterator_by_n(c, pos, n) = loop[N]
  BY DEF advance_all_after_iterator_by_n, uninitialized_relocate_backward, Iterate, WithSize
<1>2. /\ N \in Nat /\ MAXIMUM_SIZE \in Nat /\ c.size \in Nat /\ c.size + n \in Nat
      /\ c \in Forms /\ Holds(c, Upto(c.size)) /\ c.size + n \in 0 .. MAXIMUM_SIZE
  BY ObjectFields DEF Intact
<1>3. /\ Upto(c.size) \in SUBSET Cells /\ Left(0) = Upto(c.size)
      /\ Left(N) = Gapped(c.size, pos, n)
  <2>1. c.size - 0 = c.size /\ c.size - N = pos
    BY <1>2
  <2>2. Upto(c.size) \in SUBSET Cells /\ Gapped(c.size, c.size, n) = Upto(c.size)
    BY <1>2, SMTT(60) DEF Upto, Cells, Gapped
  <2> QED  BY <2>1, <2>2
<1>4. Becomes(c, b, c.size + n, Upto(c.size), c.size + n)
  BY <1>2, <1>3, SetSize
<1>5. /\ from = [j \in 0 .. N - 1 |-> AtIterator(b, pos + j)]
      /\ to = [j \in 0 .. N - 1 |-> AtIterator(b, (pos + n) + j)]
  BY DEF CellsFrom
<1> HIDE DEF b, from, to
<1>6. b \in Forms /\ b.size = c.size + n /\ Holds(b, Upto(c.size))
  BY <1>4 DEF Becomes
<1>7. b \in X[0]
  <2>1. 0 \in 0 .. N
    BY <1>2
  <2>2. Becomes(b, b, c.size + n, Left(0), c.size + n)
    BY <1>3, <1>6, BecomesItself
  <2> HIDE DEF Left
  <2> QED  BY <1>6, <2>1, <2>2
<1>8. ASSUME NEW k \in 1 .. N, NEW x \in X[k - 1] PROVE S(x, k - 1) \in X[k]
  <2> DEFINE j == N - 1 - (k - 1)
             p == pos + j
             q == (pos + n) + j
  <2> HIDE DEF X, Left
  <2>1. k - 1 \in 0 .. N /\ k \in 0 .. N /\ j \in 0 .. N - 1 /\ p = c.size - k /\ q = c.size + n - k
    BY <1>2
  <2>2. /\ p \in Cells /\ q \in Cells /\ p < c.size + n /\ q < c.size + n
        /\ p \in Left(k - 1) /\ Left(k - 1) \in SUBSET Cells
        /\ (q \notin Left(k - 1) \/ TriviallyCopyable)
        /\ Left(k) \subseteq (Left(k - 1) \ {p}) \cup {q}
        /\ (n > 0 \/ N = 0 => (Left(k - 1) \ {p}) \cup {q} = Left(k))
    <3>1. /\ p \in Nat /\ p < c.size /\ p + 1 = c.size - (k - 1) /\ p = c.size - k
          /\ p + n = q /\ p < c.size + n /\ q < c.size + n /\ N # 0
          /\ (n > 0 \/ TriviallyCopyable) /\ p \in Cells /\ q \in Cells
      BY <1>2, <2>1 DEF Cells
    <3>2. Upto(c.size + n) \subseteq Cells
      BY <1>2, SMTT(60) DEF Upto, Cells
    <3>3. Left(k - 1) = Gapped(c.size, p + 1, n) /\ Left(k) = Gapped(c.size, p, n)
      BY <3>1 DEF Left
    <3> HIDE DEF p, q, j, N
    <3>4. /\ p \in Left(k - 1) /\ (n > 0 => q \notin Left(k - 1))
          /\ Left(k) \subseteq (Left(k - 1) \ {p}) \cup {q}
          /\ (n > 0 => (Left(k - 1) \ {p}) \cup {q} = Left(k))
          /\ Left(k - 1) \subseteq Upto(c.size + n)
      <4>1. c.size \in Nat
        BY <1>2
      <4>2. GapStep(c.size, p, n)
        BY <3>1, <4>1, GapMoves
      <4> QED  BY <3>1, <3>3, <4>2 DEF GapStep
    <3> QED  BY <3>1, <3>2, <3>4
  <2>6. Becomes(b, x, c.size + n, Left(k - 1), c.size + n) /\ x \in Forms
    BY <2>1 DEF X
  <2>7. from[j] = AtIterator(b, p) /\ to[j] = AtIterator(b, q)
    BY <1>5, <2>1
  <2> HIDE DEF p, q
  <2>8. /\ Holds(x, Left(k - 1)) /\ x.size = c.size + n
        /\ from[j] = AtIterator(x, p) /\ to[j] = AtIterator(x, q)
    BY <2>2, <2>6, <2>7 DEF Becomes, SamePlaces
  <2> DEFINE d == relocate(x, from[j], to[j])
  <2>9. Becomes(x, d, c.size + n, (Left(k - 1) \ {p}) \cup {q}, c.size + n)
    <3>1. Becomes(x, relocate(x, AtIterator(x, p), AtIterator(x, q)), x.size,
                  (Left(k - 1) \ {p}) \cup {q}, c.size + n)
      BY <1>2, <2>2, <2>6, <2>8, Relocate
    <3> QED  BY <2>8, <3>1
  <2> HIDE DEF d
  <2>10. Becomes(x, d, c.size + n, Left(k), c.size + n)
    <3>1. CASE n > 0 \/ N = 0
      BY <2>2, <2>9, <3>1
    <3>2. CASE ~(n > 0 \/ N = 0)
      <4>1. TriviallyCopyable
        BY <1>2, <3>2
      <4>2. Holds(d, Left(k))
        BY <2>2, <2>9, <4>1 DEF Becomes, Holds
      <4> QED  BY <2>9, <4>2 DEF Becomes
    <3> QED  BY <3>1, <3>2
  <2>11. Becomes(b, d, c.size + n, Left(k), c.size + n)
    BY <1>2, <2>6, <2>10, BecomesInTurn
  <2>12. d \in X[k]
    BY <2>1, <2>11 DEF Becomes, X
  <2> QED  BY <2>12 DEF d
<1> HIDE DEF Left
<1>9. ASSUME NEW f, SolvesLoop(f, b, X, F, N) PROVE RunsLoop(loop, b, X, F, N)
  <2>1. \A k \in 1 .. N : \A x \in X[k - 1] : F[k][x] = S(x, k - 1)
    OBVIOUS
  <2>2. \A k \in 0 .. N : k # 0 <=> k \in 1 .. N
    BY <1>2
  <2>3. 0 \in 0 .. N /\ \A k \in 1 .. N : k \in 0 .. N /\ k - 1 \in 0 .. N
    BY <1>2
  <2> HIDE DEF X, F, S, N
  <2>4. f = Body(f)
    BY <1>9, <2>1, <2>2, <2>3 DEF SolvesLoop
  <2> HIDE DEF Body
  <2>5. loop = Body(loop)
    BY <2>4
  <2> HIDE DEF loop
  <2> USE DEF Body
  <2> QED  BY <2>1, <2>2, <2>3, <2>5 DEF RunsLoop
<1>10. loop[N] \in X[N] /\ N \in 0 .. N
  <2>1. \A k \in 1 .. N : \A x \in X[k - 1] : F[k][x] \in X[k]
    BY <1>8
  <2>2. N \in 0 .. N
    BY <1>2
  <2> HIDE DEF X, F, N, loop
  <2>3. loop[N] \in X[N]
    BY <1>2, <1>7, <1>9, <2>1, LoopEnds
  <2> QED  BY <2>2, <2>3
<1>11. Becomes(b, loop[N], c.size + n, Gapped(c.size, pos, n), c.size + n)
  BY <1>3, <1>10
<1> HIDE DEF loop
<1> QED  BY <1>1, <1>2, <1>4, <1>11, BecomesInTurn

(* insert of one value. *)
LEMMA InsertOneKeepsIntact ==
  ASSUME Sound, NEW c, Intact(c), NEW pos \in Nat, pos <= c.size,
         c.size + 1 <= MAXIMUM_SIZE, NEW v \in Good
  PROVE  Becomes(c, InsertOne(c, pos, v), c.size + 1, Upto(c.size + 1), c.size + 1)
<1> DEFINE d == advance_all_after_iterator_by_n(c, pos, 1)
<1>1. c.size \in Nat /\ MAXIMUM_SIZE \in Nat /\ c.size + 1 \in Nat /\ 1 \in Nat /\ 1 > 0
  BY ObjectFields DEF Intact
<1>2. Becomes(c, d, c.size + 1, Gapped(c.size, pos, 1), c.size + 1)
  BY <1>1, OpenGap
<1>3. InsertOne(c, pos, v) = construct_at(d, AtIterator(d, pos), v)
  BY DEF InsertOne
<1> HIDE DEF d
<1>4. /\ Gapped(c.size, pos, 1) \in SUBSET Cells /\ pos \notin Gapped(c.size, pos, 1)
      /\ Gapped(c.size, pos, 1) \cup {pos} = Upto(c.size + 1)
      /\ pos \in Cells /\ pos < c.size + 1
  BY <1>1 DEF Gapped, Upto, Cells
<1>5. d \in Forms /\ d.size = c.size + 1 /\ Holds(d, Gapped(c.size, pos, 1))
  BY <1>2 DEF Becomes
<1>6. Becomes(d, construct_at(d, AtIterator(d, pos), v), d.size,
              Gapped(c.size, pos, 1) \cup {pos}, c.size + 1)
  BY <1>1, <1>4, <1>5, ConstructAt
<1>7. Becomes(d, construct_at(d, AtIterator(d, pos), v), c.size + 1,
              Upto(c.size + 1), c.size + 1)
  BY <1>4, <1>5, <1>6
<1> QED  BY <1>1, <1>2, <1>3, <1>7, BecomesInTurn

(* insert of a reference to an element in front of the position. *)
LEMMA InsertAliasedKeepsIntact ==
  ASSUME Sound, NEW c, Intact(c), NEW pos \in Nat, pos <= c.size,
         c.size + 1 <= MAXIMUM_SIZE, NEW i \in Nat, i < pos
  PROVE  Becomes(c, InsertAliased(c, pos, i), c.size + 1, Upto(c.size + 1), c.size + 1)
<1> DEFINE d == advance_all_after_iterator_by_n(c, pos, 1)
           v == d.cells[AtIterator(c, i)]
<1>1. c.size \in Nat /\ MAXIMUM_SIZE \in Nat /\ c.size + 1 \in Nat /\ 1 \in Nat /\ 1 > 0
  BY ObjectFields DEF Intact
<1>2. Becomes(c, d, c.size + 1, Gapped(c.size, pos, 1), c.size + 1)
  BY <1>1, OpenGap
<1>3. InsertAliased(c, pos, i) = construct_at(d, AtIterator(d, pos), v)
  BY DEF InsertAliased
<1> HIDE DEF d
<1>4. /\ Gapped(c.size, pos, 1) \in SUBSET Cells /\ pos \notin Gapped(c.size, pos, 1)
      /\ Gapped(c.size, pos, 1) \cup {pos} = Upto(c.size + 1)
      /\ pos \in Cells /\ pos < c.size + 1
      /\ i \in Gapped(c.size, pos, 1)
  BY <1>1 DEF Gapped, Upto, Cells
<1>5. d \in Forms /\ d.size = c.size + 1 /\ Holds(d, Gapped(c.size, pos, 1))
  BY <1>2 DEF Becomes
<1>6. v \in Good
  BY <1>2, <1>4 DEF Becomes, SamePlaces, Holds
<1> HIDE DEF v
<1>7. Becomes(d, construct_at(d, AtIterator(d, pos), v), d.size,
              Gapped(c.size, pos, 1) \cup {pos}, c.size + 1)
  BY <1>1, <1>4, <1>5, <1>6, ConstructAt
<1>8. Becomes(d, construct_at(d, AtIterator(d, pos), v), c.size + 1,
              Upto(c.size + 1), c.size + 1)
  BY <1>4, <1>5, <1>7
<1> QED  BY <1>1, <1>2, <1>3, <1>8, BecomesInTurn

(* insert_internal for forward iterators: the gap is filled in order. *)
LEMMA InsertForwardKeepsIntact ==
  ASSUME Sound, NEW c, Intact(c), NEW pos \in Nat, pos <= c.size,
         NEW n \in Nat, NEW items \in [1 .. n -> Good], c.size + n <= MAXIMUM_SIZE,
         n > 0 \/ pos = c.size \/ TriviallyCopyable
  PROVE  Becomes(c, InsertForward(c, pos, items), c.size + n, Upto(c.size + n), c.size + n)
<1> DEFINE b == advance_all_after_iterator_by_n(c, pos, n)
           Left(k) == Gapped(c.size + k, pos + k, n - k)
<1> DEFINE N == n
           S(x, k) == construct_at(x, AtIterator(x, pos + k), items[k + 1])
           Body(f) == [k \in 0 .. N |-> IF k = 0 THEN b ELSE S(f[k - 1], k - 1)]
           loop == CHOOSE f : f = Body(f)
           X == [k \in 0 .. N |-> {x \in Forms :
                   Becomes(c, x, c.size + n, Left(k), c.size + n)}]
           F == [k \in 1 .. N |-> [x \in X[k - 1] |-> S(x, k - 1)]]
<1>1. InsertForward(c, pos, items) = loop[N]
  <2>1. Len(items) = n
    OBVIOUS
  <2> QED  BY <2>1 DEF InsertForward, Iterate
<1>2. /\ N \in Nat /\ MAXIMUM_SIZE \in Nat /\ c.size \in Nat /\ c.size + n \in Nat
  BY ObjectFields DEF Intact
<1>3. Becomes(c, b, c.size + n, Gapped(c.size, pos, n), c.size + n)
  BY OpenGap
<1> HIDE DEF b
<1>4. b \in X[0]
  <2>1. c.size + 0 = c.size /\ pos + 0 = pos /\ n - 0 = n /\ 0 \in 0 .. N
    BY <1>2
  <2> QED  BY <1>3, <2>1 DEF Becomes
<1>5. ASSUME NEW k \in 1 .. N, NEW x \in X[k - 1] PROVE S(x, k - 1) \in X[k]
  <2> DEFINE p == pos + (k - 1)
  <2> HIDE DEF X, Left
  <2>1. k - 1 \in 0 .. N /\ k \in 0 .. N /\ (k - 1) + 1 = k /\ items[k] \in Good
    BY <1>2
  <2>2. /\ p \in Cells /\ p < c.size + n /\ p \notin Left(k - 1)
        /\ Left(k - 1) \cup {p} = Left(k) /\ Left(k - 1) \in SUBSET Cells
    <3> DEFINE z == c.size + (k - 1)
               m == n - k
    <3>0. k \in Nat /\ 1 <= k /\ k <= n /\ c.size \in Nat
      BY <1>2
    <3>1. /\ z \in Nat /\ p \in Nat /\ m \in Nat /\ p <= z /\ n - (k - 1) = m + 1
          /\ c.size + k = z + 1 /\ pos + k = p + 1 /\ c.size + n = z + (m + 1)
      BY <3>0, SMTT(60)
    <3>2. Left(k - 1) = Gapped(z, p, m + 1) /\ Left(k) = Gapped(z + 1, p + 1, m)
      BY <3>1 DEF Left
    <3>3. z + (m + 1) <= MAXIMUM_SIZE /\ MAXIMUM_SIZE \in Nat
      BY <1>2, <3>1
    <3> HIDE DEF z, p, m
    <3>4. /\ p \in Cells /\ p < z + (m + 1) /\ p \notin Gapped(z, p, m + 1)
          /\ Gapped(z, p, m + 1) \cup {p} = Gapped(z + 1, p + 1, m)
          /\ Gapped(z, p, m + 1) \in SUBSET Cells
      BY <3>1, <3>3 DEF Gapped, Upto, Cells
    <3> QED  BY <3>1, <3>2, <3>4
  <2>3. Becomes(c, x, c.size + n, Left(k - 1), c.size + n)
    BY <2>1 DEF X
  <2> HIDE DEF p
  <2>4. x \in Forms /\ x.size = c.size + n /\ Holds(x, Left(k - 1))
    BY <2>3 DEF Becomes
  <2> DEFINE d == construct_at(x, AtIterator(x, p), items[k])
  <2>5. Becomes(x, d, x.size, Left(k - 1) \cup {p}, c.size + n)
    BY <1>2, <2>1, <2>2, <2>4, ConstructAt
  <2> HIDE DEF d
  <2>6. Becomes(x, d, c.size + n, Left(k), c.size + n)
    BY <2>2, <2>4, <2>5
  <2>7. Becomes(c, d, c.size + n, Left(k), c.size + n)
    BY <1>2, <2>3, <2>6, BecomesInTurn
  <2>8. d \in X[k]
    BY <2>1, <2>7 DEF Becomes, X
  <2> QED  BY <2>1, <2>8 DEF d, p
<1>6. Left(N) = Upto(c.size + n)
  BY <1>2, SMTT(60) DEF Gapped, Upto
<1> HIDE DEF Left
<1>7. ASSUME NEW f, SolvesLoop(f, b, X, F, N) PROVE RunsLoop(loop, b, X, F, N)
  <2>1. \A k \in 1 .. N : \A x \in X[k - 1] : F[k][x] = S(x, k - 1)
    OBVIOUS
  <2>2. \A k \in 0 .. N : k # 0 <=> k \in 1 .. N
    BY <1>2
  <2>3. 0 \in 0 .. N /\ \A k \in 1 .. N : k \in 0 .. N /\ k - 1 \in 0 .. N
    BY <1>2
  <2> HIDE DEF X, F, S, N
  <2>4. f = Body(f)
    BY <1>7, <2>1, <2>2, <2>3 DEF SolvesLoop
  <2> HIDE DEF Body
  <2>5. loop = Body(loop)
    BY <2>4
  <2> HIDE DEF loop
  <2> USE DEF Body
  <2> QED  BY <2>1, <2>2, <2>3, <2>5 DEF RunsLoop
<1>8. loop[N] \in X[N] /\ N \in 0 .. N
  <2>1. \A k \in 1 .. N : \A x \in X[k - 1] : F[k][x] \in X[k]
    BY <1>5
  <2>2. N \in 0 .. N
    BY <1>2
  <2> HIDE DEF X, F, N, loop
  <2>3. loop[N] \in X[N]
    BY <1>2, <1>4, <1>7, <2>1, LoopEnds
  <2> QED  BY <2>2, <2>3
<1>9. Becomes(c, loop[N], c.size + n, Upto(c.size + n), c.size + n)
  BY <1>6, <1>8
<1> HIDE DEF loop
<1> QED  BY <1>1, <1>9

-----------------------------------------------------------------------------
(* The element at each position k of c replaced by w[k]. *)
PlacedBy(c, w) ==
  WithCells(c, [a \in DOMAIN c.cells |->
    LET at == {k \in 0 .. c.size - 1 : AtIterator(c, k) = a}
    IN  IF at = {} THEN c.cells[a] ELSE w[CHOOSE k \in at : TRUE]])

LEMMA PlacedByKeepsIntact ==
  ASSUME Sound, NEW c, Intact(c), NEW w \in [Upto(c.size) -> Good]
  PROVE  Becomes(c, PlacedBy(c, w), c.size, Upto(c.size), c.size)
<1> DEFINE InCell(a) == {k \in 0 .. c.size - 1 : AtIterator(c, k) = a}
           m == [a \in DOMAIN c.cells |->
                   IF InCell(a) = {} THEN c.cells[a] ELSE w[CHOOSE k \in InCell(a) : TRUE]]
           d == WithCells(c, m)
<1>1. PlacedBy(c, w) = d
  BY DEF PlacedBy
<1>2. /\ c \in Forms /\ Holds(c, Upto(c.size)) /\ c.cells \in Memory /\ DOMAIN c.cells = Cells
      /\ c.size \in Nat /\ c.size <= MAXIMUM_SIZE /\ MAXIMUM_SIZE \in Nat
  BY ObjectFields DEF Intact, Memory
<1>3. \A a \in Cells : InCell(a) \subseteq Upto(c.size)
  BY DEF Upto
<1>4. Upto(c.size) \subseteq Cells
  BY <1>2 DEF Upto, Cells
<1>5. ASSUME NEW k \in Upto(c.size) PROVE InCell(AtIterator(c, k)) = {k}
  <2>1. \A j \in Upto(c.size) : AtIterator(c, j) = AtIterator(c, k) => j = k
    BY <1>2, <1>4, ObjectFields
  <2> QED  BY <2>1 DEF Upto
<1>6. ASSUME NEW k \in Cells, k \notin Upto(c.size) PROVE InCell(AtIterator(c, k)) = {}
  <2>1. \A j \in Upto(c.size) : AtIterator(c, j) # AtIterator(c, k)
    BY <1>2, <1>4, <1>6, ObjectFields
  <2> QED  BY <2>1 DEF Upto
<1>7. \A k \in Cells : AtIterator(c, k) \in Cells
  BY <1>2, ObjectFields
<1>8. \A a \in Cells : InCell(a) # {} => (CHOOSE k \in InCell(a) : TRUE) \in InCell(a)
  OBVIOUS
<1>9. \A a \in Cells : m[a] = IF InCell(a) = {} THEN c.cells[a] ELSE w[CHOOSE k \in InCell(a) : TRUE]
  BY <1>2
<1> HIDE DEF InCell
<1>10. m \in Memory
  <2>1. \A a \in Cells : c.cells[a] \in Contents \cup {Raw}
    BY <1>2 DEF Memory
  <2>2. \A k \in Upto(c.size) : w[k] \in Contents \cup {Raw}
    BY DEF Sound, ValuesAreSound
  <2>3. \A a \in Cells : m[a] \in Contents \cup {Raw}
    BY <1>3, <1>8, <1>9, <2>1, <2>2
  <2> QED  BY <1>2, <2>3 DEF Memory
<1>11. \A k \in Upto(c.size) : m[AtIterator(c, k)] = w[k]
  <2> SUFFICES ASSUME NEW k \in Upto(c.size) PROVE m[AtIterator(c, k)] = w[k]
    OBVIOUS
  <2>1. InCell(AtIterator(c, k)) = {k} /\ AtIterator(c, k) \in Cells
    BY <1>4, <1>5, <1>7
  <2>2. (CHOOSE j \in InCell(AtIterator(c, k)) : TRUE) = k
    BY <1>8, <2>1
  <2>3. InCell(AtIterator(c, k)) # {}
    BY <2>1
  <2> HIDE DEF m
  <2> QED  BY <1>9, <2>1, <2>2, <2>3
<1>12. \A k \in Cells : k \notin Upto(c.size) => m[AtIterator(c, k)] = c.cells[AtIterator(c, k)]
  <2> HIDE DEF m
  <2> QED  BY <1>6, <1>7, <1>9
<1> HIDE DEF m
<1>13. d \in Forms /\ d.cells = m /\ d.ub = c.ub /\ d.size = c.size /\ SamePlaces(c, d)
  BY <1>2, <1>10 DEF Sound, FieldsAreSound
<1> HIDE DEF d
<1>14. Holds(d, Upto(c.size))
  <2>1. \A k \in Cells : AtIterator(d, k) = AtIterator(c, k)
    BY <1>13 DEF SamePlaces
  <2>2. \A k \in Upto(c.size) : d.cells[AtIterator(d, k)] \in Good
    BY <1>4, <1>11, <1>13, <2>1
  <2>3. ~TriviallyCopyable => \A k \in Cells \ Upto(c.size) : d.cells[AtIterator(d, k)] = Raw
    BY <1>2, <1>12, <1>13, <2>1 DEF Holds
  <2> QED  BY <1>2, <1>13, <2>2, <2>3 DEF Holds
<1>15. \A k \in Cells : k >= c.size => k \notin Upto(c.size)
  BY <1>2 DEF Cells, Upto
<1> QED  BY <1>1, <1>12, <1>13, <1>14, <1>15 DEF Becomes

(* std::rotate permutes the elements. *)
LEMMA RotateKeepsIntact ==
  ASSUME Sound, NEW c, Intact(c), NEW first \in Nat, NEW middle \in Nat,
         first <= middle, middle <= c.size
  PROVE  Becomes(c, rotate(c, first, middle), c.size, Upto(c.size), c.size)
<1> DEFINE old(k) == c.cells[AtIterator(c, k)]
           new(k) == IF k < first THEN old(k)
                     ELSE IF k < first + (c.size - middle) THEN old(middle + (k - first))
                     ELSE old(k - (c.size - middle))
           w == [k \in Upto(c.size) |-> new(k)]
<1>1. c.size \in Nat /\ c \in Forms /\ \A k \in Upto(c.size) : old(k) \in Good
  BY ObjectFields DEF Intact, Holds
<1>2. rotate(c, first, middle) = PlacedBy(c, w)
  <2> DEFINE P(a) == {k \in 0 .. c.size - 1 : AtIterator(c, k) = a}
  <2>1. \A a : P(a) # {} => (CHOOSE k \in P(a) : TRUE) \in Upto(c.size)
    BY DEF Upto
  <2>2. \A a : P(a) # {} => w[CHOOSE k \in P(a) : TRUE] = new(CHOOSE k \in P(a) : TRUE)
    <3> HIDE DEF P, new
    <3> QED  BY <2>1
  <2>3. [a \in DOMAIN c.cells |-> IF P(a) = {} THEN c.cells[a] ELSE new(CHOOSE k \in P(a) : TRUE)]
          = [a \in DOMAIN c.cells |-> IF P(a) = {} THEN c.cells[a] ELSE w[CHOOSE k \in P(a) : TRUE]]
    <3> HIDE DEF P, new, w
    <3> QED  BY <2>2
  <2>4. rotate(c, first, middle) = WithCells(c, [a \in DOMAIN c.cells |->
            IF P(a) = {} THEN c.cells[a] ELSE new(CHOOSE k \in P(a) : TRUE)])
    BY DEF rotate, Rearranged, WithCells
  <2>5. PlacedBy(c, w) = WithCells(c, [a \in DOMAIN c.cells |->
            IF P(a) = {} THEN c.cells[a] ELSE w[CHOOSE k \in P(a) : TRUE]])
    BY DEF PlacedBy
  <2> QED  BY <2>3, <2>4, <2>5
<1>3. \A k \in Upto(c.size) : new(k) \in Good
  <2> SUFFICES ASSUME NEW k \in Upto(c.size) PROVE new(k) \in Good
    OBVIOUS
  <2>1. k \in Nat /\ k < c.size
    BY <1>1 DEF Upto
  <2>2. CASE k < first
    BY <1>1, <2>2
  <2>3. CASE ~(k < first) /\ k < first + (c.size - middle)
    <3>1. middle + (k - first) \in Upto(c.size)
      BY <1>1, <2>1, <2>3 DEF Upto
    <3> QED  BY <1>1, <2>3, <3>1
  <2>4. CASE ~(k < first) /\ ~(k < first + (c.size - middle))
    <3>1. k - (c.size - middle) \in Upto(c.size)
      BY <1>1, <2>1, <2>4 DEF Upto
    <3> QED  BY <1>1, <2>4, <3>1
  <2> QED  BY <2>2, <2>3, <2>4
<1>4. w \in [Upto(c.size) -> Good]
  <2> HIDE DEF new
  <2> QED  BY <1>3
<1> HIDE DEF w
<1> QED  BY <1>2, <1>4, PlacedByKeepsIntact

(* insert_internal for input iterators. *)
LEMMA InsertInputKeepsIntact ==
  ASSUME Sound, NEW c, Intact(c), NEW pos \in Nat, pos <= c.size,
         NEW n \in Nat, NEW items \in [1 .. n -> Good], c.size + n <= MAXIMUM_SIZE
  PROVE  Becomes(c, InsertInput(c, pos, items), c.size + n, Upto(c.size + n), c.size + n)
<1> DEFINE d == AppendAll(c, items)
<1>1. c.size \in Nat /\ MAXIMUM_SIZE \in Nat /\ c.size + n \in Nat /\ c.size <= c.size + n
  BY ObjectFields DEF Intact
<1>2. Becomes(c, d, c.size + n, Upto(c.size + n), c.size + n)
  BY AppendAllItems
<1>3. InsertInput(c, pos, items) = rotate(d, pos, c.size)
  BY DEF InsertInput
<1> HIDE DEF d
<1>4. Intact(d) /\ d.size = c.size + n
  BY <1>2 DEF Becomes, Intact
<1>5. Becomes(d, rotate(d, pos, c.size), c.size + n, Upto(c.size + n), c.size + n)
  BY <1>1, <1>4, RotateKeepsIntact
<1> QED  BY <1>1, <1>2, <1>3, <1>5, BecomesInTurn

(* The source of a move keeps its elements, moved out. *)
LEMMA MovedOutKeepsIntact ==
  ASSUME Sound, NEW c, Intact(c)
  PROVE  Becomes(c, MovedOutElements(c), c.size, Upto(c.size), c.size)
<1> DEFINE new(k) == MovedOut(c.cells[AtIterator(c, k)])
           w == [k \in Upto(c.size) |-> new(k)]
<1>1. MovedOutElements(c) = PlacedBy(c, w)
  <2> DEFINE P(a) == {k \in 0 .. c.size - 1 : AtIterator(c, k) = a}
  <2>1. \A a : P(a) # {} => (CHOOSE k \in P(a) : TRUE) \in Upto(c.size)
    BY DEF Upto
  <2>2. \A a : P(a) # {} => w[CHOOSE k \in P(a) : TRUE] = new(CHOOSE k \in P(a) : TRUE)
    <3> HIDE DEF P, new
    <3> QED  BY <2>1
  <2>3. [a \in DOMAIN c.cells |-> IF P(a) = {} THEN c.cells[a] ELSE new(CHOOSE k \in P(a) : TRUE)]
          = [a \in DOMAIN c.cells |-> IF P(a) = {} THEN c.cells[a] ELSE w[CHOOSE k \in P(a) : TRUE]]
    <3> HIDE DEF P, new, w
    <3> QED  BY <2>2
  <2>4. MovedOutElements(c) = WithCells(c, [a \in DOMAIN c.cells |->
            IF P(a) = {} THEN c.cells[a] ELSE new(CHOOSE k \in P(a) : TRUE)])
    BY DEF MovedOutElements, Rearranged, WithCells
  <2>5. PlacedBy(c, w) = WithCells(c, [a \in DOMAIN c.cells |->
            IF P(a) = {} THEN c.cells[a] ELSE w[CHOOSE k \in P(a) : TRUE]])
    BY DEF PlacedBy
  <2> QED  BY <2>3, <2>4, <2>5
<1>2. w \in [Upto(c.size) -> Good]
  BY DEF Intact, Holds, Sound, ValuesAreSound
<1> HIDE DEF w
<1> QED  BY <1>1, <1>2, PlacedByKeepsIntact

-----------------------------------------------------------------------------
(* Moving the element behind the gap moves the gap up. *)
GapStepUp(z, p, n) ==
  /\ p + n \in Gapped(z, p, n) /\ (n > 0 => p \notin Gapped(z, p, n))
  /\ Gapped(z, p + 1, n) \subseteq (Gapped(z, p, n) \ {p + n}) \cup {p}
  /\ n > 0 => (Gapped(z, p, n) \ {p + n}) \cup {p} = Gapped(z, p + 1, n)
  /\ Gapped(z, p, n) \subseteq Upto(z + n)

LEMMA GapMovesUp ==
  ASSUME NEW z \in Nat, NEW n \in Nat, NEW p \in Nat, p < z
  PROVE  GapStepUp(z, p, n)
<1>1. ASSUME NEW r \in Int, NEW s \in Nat, s <= z
      PROVE  r \in Gapped(z, s, n) <=> 0 <= r /\ r < z + n /\ (r < s \/ r >= s + n)
  BY <1>1 DEF Gapped, Upto
<1>2. \A s : Gapped(z, s, n) \subseteq Int
  BY DEF Gapped, Upto
<1>3. p + 1 \in Nat /\ p + 1 <= z /\ p <= z
  OBVIOUS
<1>4. \A r \in Int : /\ r \in Gapped(z, p, n) <=> 0 <= r /\ r < z + n /\ (r < p \/ r >= p + n)
                     /\ r \in Gapped(z, p + 1, n) <=>
                          0 <= r /\ r < z + n /\ (r < p + 1 \/ r >= p + 1 + n)
                     /\ r \in Upto(z + n) <=> 0 <= r /\ r < z + n
  BY <1>1, <1>3 DEF Upto
<1> HIDE DEF Gapped, Upto
<1>5. p + n \in Gapped(z, p, n) /\ (n > 0 => p \notin Gapped(z, p, n))
  BY <1>4
<1>6. Gapped(z, p + 1, n) \subseteq (Gapped(z, p, n) \ {p + n}) \cup {p}
  BY <1>2, <1>4
<1>7. n > 0 => (Gapped(z, p, n) \ {p + n}) \cup {p} \subseteq Gapped(z, p + 1, n)
  BY <1>2, <1>4
<1>8. Gapped(z, p, n) \subseteq Upto(z + n)
  BY <1>2, <1>4
<1> QED  BY <1>5, <1>6, <1>7, <1>8 DEF GapStepUp

(* At run time erase destroys the elements of the range and relocates      *)
(* those behind it; z is the number of elements that stay.                 *)
LEMMA CloseGap ==
  ASSUME Sound, NEW c, Intact(c), NEW first \in Nat, NEW last \in Nat,
         first <= last, last <= c.size,
         first < last \/ last = c.size \/ TriviallyCopyable
  PROVE  Becomes(c, uninitialized_relocate(destroy_range(c, first, last), c.size - last,
                      CellsFrom(c, last, c.size - last), CellsFrom(c, first, c.size - last)),
                 c.size, Upto(c.size - (last - first)), c.size)
<1> DEFINE b == destroy_range(c, first, last)
           n == last - first
           z == c.size - n
           from == CellsFrom(c, last, c.size - last)
           to == CellsFrom(c, first, c.size - last)
           Left(k) == Gapped(z, first + k, n)
<1> DEFINE N == c.size - last
           S(x, k) == relocate(x, from[k], to[k])
           Body(f) == [k \in 0 .. N |-> IF k = 0 THEN b ELSE S(f[k - 1], k - 1)]
           loop == CHOOSE f : f = Body(f)
           X == [k \in 0 .. N |-> {x \in Forms : Becomes(c, x, c.size, Left(k), c.size)}]
           F == [k \in 1 .. N |-> [x \in X[k - 1] |-> S(x, k - 1)]]
<1>1. uninitialized_relocate(b, c.size - last, from, to) = loop[N]
  BY DEF uninitialized_relocate, Iterate
<1>2. /\ N \in Nat /\ MAXIMUM_SIZE \in Nat /\ c.size \in Nat /\ z \in Nat /\ n \in Nat
      /\ c.size <= MAXIMUM_SIZE /\ z + n = c.size /\ first + N = z /\ c.size <= c.size
      /\ first + n = last
  BY ObjectFields DEF Intact
<1>3. Becomes(c, b, c.size, Left(0), c.size)
  <2>1. c \in Forms /\ Holds(c, Upto(c.size))
    BY DEF Intact
  <2>2. Upto(c.size) \in SUBSET Cells /\ first .. last - 1 \subseteq Upto(c.size)
    BY <1>2 DEF Upto, Cells
  <2>3. Upto(c.size) \ (first .. last - 1) = Left(0)
    BY <1>2 DEF Upto, Gapped
  <2>4. Becomes(c, b, c.size, Upto(c.size) \ (first .. last - 1), c.size)
    BY <1>2, <2>1, <2>2, DestroyRange
  <2> QED  BY <2>3, <2>4
<1>4. /\ from = [j \in 0 .. N - 1 |-> AtIterator(c, last + j)]
      /\ to = [j \in 0 .. N - 1 |-> AtIterator(c, first + j)]
  BY DEF CellsFrom
<1>5. Left(N) = Upto(z)
  BY <1>2 DEF Gapped, Upto
<1> HIDE DEF b, from, to
<1>6. b \in X[0]
  <2>1. 0 \in 0 .. N
    BY <1>2
  <2> HIDE DEF Left
  <2> QED  BY <1>3, <2>1 DEF Becomes
<1>7. ASSUME NEW k \in 1 .. N, NEW x \in X[k - 1] PROVE S(x, k - 1) \in X[k]
  <2> DEFINE q == first + (k - 1)
             p == last + (k - 1)
  <2> HIDE DEF X, Left
  <2>1. k - 1 \in 0 .. N /\ k \in 0 .. N /\ k - 1 \in 0 .. N - 1
    BY <1>2
  <2>2. /\ p \in Cells /\ q \in Cells /\ p < c.size /\ q < c.size
        /\ p \in Left(k - 1) /\ Left(k - 1) \in SUBSET Cells
        /\ (q \notin Left(k - 1) \/ TriviallyCopyable)
        /\ Left(k) \subseteq (Left(k - 1) \ {p}) \cup {q}
        /\ (n > 0 => (Left(k - 1) \ {p}) \cup {q} = Left(k))
        /\ (n > 0 \/ TriviallyCopyable)
    <3>0. k \in Nat /\ 1 <= k /\ k <= c.size - last
      BY <1>2
    <3>1. /\ q \in Nat /\ q < z /\ q + 1 = first + k /\ q + n = p
          /\ p < c.size /\ q < c.size
          /\ (n > 0 \/ TriviallyCopyable) /\ p \in Cells /\ q \in Cells
      BY <1>2, <3>0 DEF Cells
    <3>2. Upto(z + n) \subseteq Cells
      BY <1>2 DEF Upto, Cells
    <3>3. Left(k - 1) = Gapped(z, q, n) /\ Left(k) = Gapped(z, q + 1, n)
      BY <3>1 DEF Left
    <3>4. z \in Nat /\ n \in Nat
      BY <1>2
    <3> HIDE DEF p, q, N, z, n
    <3>5. GapStepUp(z, q, n)
      BY <3>1, <3>4, GapMovesUp
    <3>6. /\ p \in Left(k - 1) /\ (n > 0 => q \notin Left(k - 1))
          /\ Left(k) \subseteq (Left(k - 1) \ {p}) \cup {q}
          /\ (n > 0 => (Left(k - 1) \ {p}) \cup {q} = Left(k))
          /\ Left(k - 1) \subseteq Upto(z + n)
      BY <3>1, <3>3, <3>5 DEF GapStepUp
    <3> QED  BY <3>1, <3>2, <3>6
  <2>3. Becomes(c, x, c.size, Left(k - 1), c.size) /\ x \in Forms
    BY <2>1 DEF X
  <2>4. from[k - 1] = AtIterator(c, p) /\ to[k - 1] = AtIterator(c, q)
    BY <1>4, <2>1
  <2> HIDE DEF p, q
  <2>5. /\ Holds(x, Left(k - 1)) /\ x.size = c.size
        /\ from[k - 1] = AtIterator(x, p) /\ to[k - 1] = AtIterator(x, q)
    BY <2>2, <2>3, <2>4 DEF Becomes, SamePlaces
  <2> DEFINE d == relocate(x, from[k - 1], to[k - 1])
  <2>6. Becomes(x, d, c.size, (Left(k - 1) \ {p}) \cup {q}, c.size)
    <3>1. Becomes(x, relocate(x, AtIterator(x, p), AtIterator(x, q)), x.size,
                  (Left(k - 1) \ {p}) \cup {q}, c.size)
      BY <1>2, <2>2, <2>3, <2>5, Relocate
    <3> QED  BY <2>5, <3>1
  <2> HIDE DEF d
  <2>7. Becomes(x, d, c.size, Left(k), c.size)
    <3>1. CASE n > 0
      BY <2>2, <2>6, <3>1
    <3>2. CASE ~(n > 0)
      <4>1. TriviallyCopyable
        BY <2>2, <3>2
      <4>2. Holds(d, Left(k))
        BY <2>2, <2>6, <4>1 DEF Becomes, Holds
      <4> QED  BY <2>6, <4>2 DEF Becomes
    <3> QED  BY <3>1, <3>2
  <2>8. Becomes(c, d, c.size, Left(k), c.size)
    BY <1>2, <2>3, <2>7, BecomesInTurn
  <2>9. d \in X[k]
    BY <2>1, <2>8 DEF Becomes, X
  <2> QED  BY <2>9 DEF d
<1> HIDE DEF Left
<1>8. ASSUME NEW f, SolvesLoop(f, b, X, F, N) PROVE RunsLoop(loop, b, X, F, N)
  <2>1. \A k \in 1 .. N : \A x \in X[k - 1] : F[k][x] = S(x, k - 1)
    OBVIOUS
  <2>2. \A k \in 0 .. N : k # 0 <=> k \in 1 .. N
    BY <1>2
  <2>3. 0 \in 0 .. N /\ \A k \in 1 .. N : k \in 0 .. N /\ k - 1 \in 0 .. N
    BY <1>2
  <2> HIDE DEF X, F, S, N
  <2>4. f = Body(f)
    BY <1>8, <2>1, <2>2, <2>3 DEF SolvesLoop
  <2> HIDE DEF Body
  <2>5. loop = Body(loop)
    BY <2>4
  <2> HIDE DEF loop
  <2> USE DEF Body
  <2> QED  BY <2>1, <2>2, <2>3, <2>5 DEF RunsLoop
<1>9. loop[N] \in X[N] /\ N \in 0 .. N
  <2>1. \A k \in 1 .. N : \A x \in X[k - 1] : F[k][x] \in X[k]
    BY <1>7
  <2>2. N \in 0 .. N
    BY <1>2
  <2> HIDE DEF X, F, N, loop
  <2>3. loop[N] \in X[N]
    BY <1>2, <1>6, <1>8, <2>1, LoopEnds
  <2> QED  BY <2>2, <2>3
<1>10. Becomes(c, loop[N], c.size, Upto(z), c.size)
  BY <1>5, <1>9
<1> HIDE DEF loop
<1> QED  BY <1>1, <1>10 DEF b, from, to

(* In a constant expression the elements behind the range are assigned     *)
(* over those of the range, and the last ones destroyed.                   *)
AssignedOver(c, n, from, to) ==
  Iterate(n, c, LAMBDA x, k : move_assign(x, from[k], to[k]))

LEMMA AssignDown ==
  ASSUME Sound, NEW c, Intact(c), NEW first \in Nat, NEW last \in Nat,
         first <= last, last <= c.size
  PROVE  Becomes(c, AssignedOver(c, c.size - last, CellsFrom(c, last, c.size - last),
                                 CellsFrom(c, first, c.size - last)),
                 c.size, Upto(c.size), c.size)
<1> DEFINE N == c.size - last
           from == CellsFrom(c, last, N)
           to == CellsFrom(c, first, N)
           S(x, k) == move_assign(x, from[k], to[k])
           Body(f) == [k \in 0 .. N |-> IF k = 0 THEN c ELSE S(f[k - 1], k - 1)]
           loop == CHOOSE f : f = Body(f)
           X == [k \in 0 .. N |-> {x \in Forms : Becomes(c, x, c.size, Upto(c.size), c.size)}]
           F == [k \in 1 .. N |-> [x \in X[k - 1] |-> S(x, k - 1)]]
<1>1. AssignedOver(c, N, from, to) = loop[N]
  BY DEF AssignedOver, Iterate
<1>2. /\ N \in Nat /\ MAXIMUM_SIZE \in Nat /\ c.size \in Nat /\ c.size <= MAXIMUM_SIZE
      /\ c \in Forms /\ Holds(c, Upto(c.size)) /\ c.size <= c.size
  BY ObjectFields DEF Intact
<1>3. c \in X[0]
  <2>1. 0 \in 0 .. N
    BY <1>2
  <2>2. Becomes(c, c, c.size, Upto(c.size), c.size)
    BY <1>2, BecomesItself
  <2> QED  BY <1>2, <2>1, <2>2
<1>4. Upto(c.size) \in SUBSET Cells
  BY <1>2 DEF Upto, Cells
<1>5. /\ from = [j \in 0 .. N - 1 |-> AtIterator(c, last + j)]
      /\ to = [j \in 0 .. N - 1 |-> AtIterator(c, first + j)]
  BY DEF CellsFrom
<1>6. ASSUME NEW k \in 1 .. N, NEW x \in X[k - 1] PROVE S(x, k - 1) \in X[k]
  <2> DEFINE q == first + (k - 1)
             p == last + (k - 1)
  <2> HIDE DEF X
  <2>1. k - 1 \in 0 .. N /\ k \in 0 .. N /\ k - 1 \in 0 .. N - 1
    BY <1>2
  <2>2. p \in Upto(c.size) /\ q \in Upto(c.size) /\ p < c.size /\ q < c.size
    <3>1. k \in Nat /\ 1 <= k /\ k <= c.size - last
      BY <1>2
    <3> QED  BY <1>2, <3>1 DEF Upto
  <2>3. Becomes(c, x, c.size, Upto(c.size), c.size) /\ x \in Forms
    BY <2>1 DEF X
  <2>4. from[k - 1] = AtIterator(c, p) /\ to[k - 1] = AtIterator(c, q)
    BY <1>5, <2>1
  <2> HIDE DEF p, q
  <2>5. /\ Holds(x, Upto(c.size)) /\ x.size = c.size
        /\ from[k - 1] = AtIterator(x, p) /\ to[k - 1] = AtIterator(x, q)
    BY <1>4, <2>2, <2>3, <2>4 DEF Becomes, SamePlaces
  <2> DEFINE d == move_assign(x, from[k - 1], to[k - 1])
  <2>6. Becomes(x, d, c.size, Upto(c.size), c.size)
    <3>1. Becomes(x, move_assign(x, AtIterator(x, p), AtIterator(x, q)), x.size,
                  Upto(c.size), c.size)
      BY <1>2, <1>4, <2>2, <2>3, <2>5, MoveAssign
    <3> QED  BY <2>5, <3>1
  <2> HIDE DEF d
  <2>7. Becomes(c, d, c.size, Upto(c.size), c.size)
    BY <1>2, <2>3, <2>6, BecomesInTurn
  <2>8. d \in X[k]
    BY <2>1, <2>7 DEF Becomes, X
  <2> QED  BY <2>8 DEF d
<1>7. ASSUME NEW f, SolvesLoop(f, c, X, F, N) PROVE RunsLoop(loop, c, X, F, N)
  <2>1. \A k \in 1 .. N : \A x \in X[k - 1] : F[k][x] = S(x, k - 1)
    OBVIOUS
  <2>2. \A k \in 0 .. N : k # 0 <=> k \in 1 .. N
    BY <1>2
  <2>3. 0 \in 0 .. N /\ \A k \in 1 .. N : k \in 0 .. N /\ k - 1 \in 0 .. N
    BY <1>2
  <2> HIDE DEF X, F, S, N
  <2>4. f = Body(f)
    BY <1>7, <2>1, <2>2, <2>3 DEF SolvesLoop
  <2> HIDE DEF Body
  <2>5. loop = Body(loop)
    BY <2>4
  <2> HIDE DEF loop
  <2> USE DEF Body
  <2> QED  BY <2>1, <2>2, <2>3, <2>5 DEF RunsLoop
<1>8. loop[N] \in X[N] /\ N \in 0 .. N
  <2>1. \A k \in 1 .. N : \A x \in X[k - 1] : F[k][x] \in X[k]
    BY <1>6
  <2>2. N \in 0 .. N
    BY <1>2
  <2> HIDE DEF X, F, N, loop
  <2>3. loop[N] \in X[N]
    BY <1>2, <1>3, <1>7, <2>1, LoopEnds
  <2> QED  BY <2>2, <2>3
<1> HIDE DEF loop
<1> QED  BY <1>1, <1>8

(* erase(first, last). *)
LEMMA EraseKeepsIntact ==
  ASSUME Sound, NEW c, Intact(c), NEW first \in Nat, NEW last \in Nat,
         first <= last, last <= c.size,
         first < last \/ last = c.size \/ TriviallyCopyable
  PROVE  Becomes(c, EraseRange(c, first, last), c.size - (last - first),
                 Upto(c.size - (last - first)), c.size)
<1> DEFINE n == c.size - last
           z == c.size - (last - first)
           from == CellsFrom(c, last, n)
           to == CellsFrom(c, first, n)
           closed == uninitialized_relocate(destroy_range(c, first, last), n, from, to)
           assigned == AssignedOver(c, n, from, to)
           moved == IF ~IsConstantEvaluated THEN closed
                    ELSE destroy_range(assigned, first + n, c.size)
<1>1. EraseRange(c, first, last) = WithSize(moved, moved.size - (last - first))
  BY DEF EraseRange, AssignedOver, WithSize
<1>2. /\ MAXIMUM_SIZE \in Nat /\ c.size \in Nat /\ c.size <= MAXIMUM_SIZE
      /\ first + n = z /\ z \in Nat /\ z <= c.size /\ c.size <= c.size
      /\ z \in 0 .. MAXIMUM_SIZE
  BY ObjectFields DEF Intact
<1>3. Upto(z) \in SUBSET Cells /\ Upto(c.size) \in SUBSET Cells
  BY <1>2 DEF Upto, Cells
<1>4. Becomes(c, closed, c.size, Upto(z), c.size)
  BY CloseGap
<1>5. Becomes(c, destroy_range(assigned, first + n, c.size), c.size, Upto(z), c.size)
  <2>1. Becomes(c, assigned, c.size, Upto(c.size), c.size)
    BY AssignDown
  <2> HIDE DEF assigned
  <2>2. assigned \in Forms /\ assigned.size = c.size /\ Holds(assigned, Upto(c.size))
    BY <2>1 DEF Becomes
  <2>3. z .. c.size - 1 \subseteq Upto(c.size) /\ Upto(c.size) \ (z .. c.size - 1) = Upto(z)
    BY <1>2 DEF Upto
  <2>4. Becomes(assigned, destroy_range(assigned, z, c.size), assigned.size,
                Upto(c.size) \ (z .. c.size - 1), c.size)
    BY <1>2, <1>3, <2>2, <2>3, DestroyRange
  <2>5. Becomes(assigned, destroy_range(assigned, z, c.size), c.size, Upto(z), c.size)
    BY <2>2, <2>3, <2>4
  <2>6. Becomes(c, destroy_range(assigned, z, c.size), c.size, Upto(z), c.size)
    BY <1>2, <2>1, <2>5, BecomesInTurn
  <2> QED  BY <1>2, <2>6
<1>6. Becomes(c, moved, c.size, Upto(z), c.size)
  <2> HIDE DEF closed, assigned
  <2> QED  BY <1>4, <1>5
<1> HIDE DEF moved
<1>7. moved \in Forms /\ moved.size = c.size /\ Holds(moved, Upto(z))
  BY <1>6 DEF Becomes
<1>8. Becomes(moved, WithSize(moved, z), z, Upto(z), c.size)
  BY <1>2, <1>3, <1>7, SetSize
<1>9. Becomes(c, WithSize(moved, z), z, Upto(z), c.size)
  BY <1>2, <1>6, <1>8, BecomesInTurn
<1> QED  BY <1>1, <1>7, <1>9

(* What std::remove keeps is a part of what there was. *)
LEMMA WithoutKeepsSome ==
  ASSUME NEW n \in Nat, NEW s \in Seq(Good), Len(s) = n, NEW v
  PROVE  Without(s, v) \in Seq(Good) /\ Len(Without(s, v)) <= n
<1> DEFINE N == n
           S(x, k) == IF s[k] = v THEN x ELSE Append(x, s[k])
           Body(f) == [k \in 0 .. N |-> IF k = 0 THEN << >> ELSE S(f[k - 1], k)]
           loop == CHOOSE f : f = Body(f)
           X == [k \in 0 .. N |-> {x \in Seq(Good) : Len(x) <= k}]
           F == [k \in 1 .. N |-> [x \in X[k - 1] |-> S(x, k)]]
<1>1. Without(s, v) = loop[N]
  <2>1. \A f : Body(f) = [k \in 0 .. Len(s) |-> IF k = 0 THEN << >>
                                 ELSE IF s[k] = v THEN f[k - 1]
                                 ELSE Append(f[k - 1], s[k])]
    OBVIOUS
  <2> QED  BY <2>1 DEF Without
<1>2. << >> \in X[0]
  OBVIOUS
<1>3. ASSUME NEW k \in 1 .. N, NEW x \in X[k - 1] PROVE S(x, k) \in X[k]
  <2>1. k - 1 \in 0 .. N /\ k \in 0 .. N /\ k \in 1 .. Len(s)
    OBVIOUS
  <2>2. x \in Seq(Good) /\ Len(x) <= k - 1 /\ s[k] \in Good
    BY <2>1
  <2>3. /\ Append(x, s[k]) \in Seq(Good) /\ Len(Append(x, s[k])) = Len(x) + 1
        /\ Len(x) \in Nat
    BY <2>2
  <2>4. S(x, k) \in Seq(Good) /\ Len(S(x, k)) <= k
    BY <2>1, <2>2, <2>3
  <2> QED  BY <2>1, <2>4
<1>4. ASSUME NEW f, SolvesLoop(f, << >>, X, F, N) PROVE RunsLoop(loop, << >>, X, F, N)
  <2>1. \A k \in 1 .. N : \A x \in X[k - 1] : F[k][x] = S(x, k)
    OBVIOUS
  <2>2. \A k \in 0 .. N : k # 0 <=> k \in 1 .. N
    OBVIOUS
  <2>3. 0 \in 0 .. N /\ \A k \in 1 .. N : k \in 0 .. N /\ k - 1 \in 0 .. N
    OBVIOUS
  <2> HIDE DEF X, F, S, N
  <2>4. f = Body(f)
    BY <1>4, <2>1, <2>2, <2>3 DEF SolvesLoop
  <2> HIDE DEF Body
  <2>5. loop = Body(loop)
    BY <2>4
  <2> HIDE DEF loop
  <2> USE DEF Body
  <2> QED  BY <2>1, <2>2, <2>3, <2>5 DEF RunsLoop
<1>5. loop[N] \in X[N]
  <2>1. \A k \in 1 .. N : \A x \in X[k - 1] : F[k][x] \in X[k]
    BY <1>3
  <2>2. N \in Nat
    OBVIOUS
  <2> HIDE DEF X, F, N, loop
  <2> QED  BY <1>2, <1>4, <2>1, <2>2, LoopEnds
<1>6. N \in 0 .. N
  OBVIOUS
<1> HIDE DEF loop
<1> QED  BY <1>1, <1>5, <1>6

(* erase(container, value). *)
LEMMA EraseValueKeepsIntact ==
  ASSUME Sound, NEW c, Intact(c), NEW v
  PROVE  \E z \in 0 .. c.size : Becomes(c, EraseValue(c, v), z, Upto(z), c.size)
<1> DEFINE kept == Without(Elements(c), v)
           old(k) == c.cells[AtIterator(c, k)]
           new(k) == IF k < Len(kept) THEN kept[k + 1] ELSE MovedOut(old(k))
           w == [k \in Upto(c.size) |-> new(k)]
           b == PlacedBy(c, w)
<1>1. /\ c \in Forms /\ Holds(c, Upto(c.size)) /\ c.size \in Nat
      /\ MAXIMUM_SIZE \in Nat /\ c.size <= MAXIMUM_SIZE /\ c.size <= c.size
  BY ObjectFields DEF Intact
<1>2. \A k \in Upto(c.size) : old(k) \in Good
  BY <1>1 DEF Holds
<1>3. Elements(c) \in Seq(Good) /\ Len(Elements(c)) = c.size
  <2>1. \A k \in 1 .. c.size : k - 1 \in Upto(c.size)
    BY <1>1 DEF Upto
  <2>2. Elements(c) \in [1 .. c.size -> Good]
    BY <1>2, <2>1 DEF Elements
  <2> QED  BY <1>1, <2>2
<1>4. kept \in Seq(Good) /\ Len(kept) <= c.size
  BY <1>1, <1>3, WithoutKeepsSome
<1> HIDE DEF kept
<1>5. Len(kept) \in Nat /\ \A k \in Upto(c.size) : k < Len(kept) => kept[k + 1] \in Good
  <2>1. Len(kept) \in Nat /\ \A j \in 1 .. Len(kept) : kept[j] \in Good
    BY <1>4
  <2>2. \A k \in Upto(c.size) : k < Len(kept) => k + 1 \in 1 .. Len(kept)
    BY <1>1, <2>1 DEF Upto
  <2> QED  BY <2>1, <2>2
<1>6. w \in [Upto(c.size) -> Good]
  <2>1. \A k \in Upto(c.size) : MovedOut(old(k)) \in Good
    BY <1>2 DEF Sound, ValuesAreSound
  <2> QED  BY <1>5, <2>1
<1>7. EraseValue(c, v) = EraseRange(b, Len(kept), c.size)
  <2> DEFINE P(a) == {k \in 0 .. c.size - 1 : AtIterator(c, k) = a}
             r == WithCells(c, [a \in DOMAIN c.cells |->
                    IF P(a) = {} THEN c.cells[a] ELSE new(CHOOSE k \in P(a) : TRUE)])
  <2>1. \A a : P(a) # {} => (CHOOSE k \in P(a) : TRUE) \in Upto(c.size)
    BY DEF Upto
  <2>2. \A a : P(a) # {} => w[CHOOSE k \in P(a) : TRUE] = new(CHOOSE k \in P(a) : TRUE)
    <3> HIDE DEF P, new
    <3> QED  BY <2>1
  <2>3. [a \in DOMAIN c.cells |-> IF P(a) = {} THEN c.cells[a] ELSE new(CHOOSE k \in P(a) : TRUE)]
          = [a \in DOMAIN c.cells |-> IF P(a) = {} THEN c.cells[a] ELSE w[CHOOSE k \in P(a) : TRUE]]
    <3> HIDE DEF P, new, w
    <3> QED  BY <2>2
  <2>4. EraseValue(c, v) = EraseRange(r, Len(kept), c.size)
    BY DEF EraseValue, Rearranged, WithCells, kept
  <2>5. b = WithCells(c, [a \in DOMAIN c.cells |->
            IF P(a) = {} THEN c.cells[a] ELSE w[CHOOSE k \in P(a) : TRUE]])
    BY DEF PlacedBy
  <2> QED  BY <2>3, <2>4, <2>5
<1> HIDE DEF w
<1>8. Becomes(c, b, c.size, Upto(c.size), c.size)
  BY <1>6, PlacedByKeepsIntact
<1> HIDE DEF b
<1>9. Intact(b) /\ b.size = c.size
  BY <1>8 DEF Becomes, Intact
<1> DEFINE z == Len(kept)
<1>10. /\ z \in 0 .. c.size /\ z \in Nat /\ z <= b.size
       /\ c.size - (c.size - z) = z /\ b.size <= b.size
  BY <1>1, <1>4, <1>5, <1>9
<1> HIDE DEF z
<1>11. Becomes(b, EraseRange(b, z, b.size), b.size - (b.size - z), Upto(b.size - (b.size - z)), b.size)
  BY <1>1, <1>9, <1>10, EraseKeepsIntact
<1>12. Becomes(b, EraseRange(b, z, c.size), z, Upto(z), c.size)
  BY <1>9, <1>10, <1>11
<1>13. Becomes(c, EraseRange(b, z, c.size), z, Upto(z), c.size)
  BY <1>1, <1>8, <1>12, BecomesInTurn
<1> QED  BY <1>7, <1>10, <1>13 DEF z

-----------------------------------------------------------------------------
(* For trivially copyable elements clear() runs no destructor: the cells   *)
(* keep their bytes.                                                       *)
LEMMA TrivialClear ==
  ASSUME TriviallyCopyable, NEW c, c.size \in Nat
  PROVE  clear(c) = Reset(c)
<1> DEFINE N == c.size - 0
           S(x, k) == destroy_at(x, AtIterator(x, 0 + k))
           Body(f) == [k \in 0 .. N |-> IF k = 0 THEN c ELSE S(f[k - 1], k - 1)]
           loop == CHOOSE f : f = Body(f)
           X == [k \in 0 .. N |-> {c}]
           F == [k \in 1 .. N |-> [x \in X[k - 1] |-> S(x, k - 1)]]
<1>1. clear(c) = Reset(loop[N])
  BY DEF clear, destroy_range, Iterate
<1>2. N \in Nat
  OBVIOUS
<1>3. c \in X[0]
  BY <1>2
<1>4. ASSUME NEW k \in 1 .. N, NEW x \in X[k - 1] PROVE S(x, k - 1) \in X[k]
  <2>1. k - 1 \in 0 .. N /\ k \in 0 .. N
    BY <1>2
  <2> QED  BY <2>1 DEF destroy_at
<1>5. ASSUME NEW f, SolvesLoop(f, c, X, F, N) PROVE RunsLoop(loop, c, X, F, N)
  <2>1. \A k \in 1 .. N : \A x \in X[k - 1] : F[k][x] = S(x, k - 1)
    OBVIOUS
  <2>2. \A k \in 0 .. N : k # 0 <=> k \in 1 .. N
    BY <1>2
  <2>3. 0 \in 0 .. N /\ \A k \in 1 .. N : k \in 0 .. N /\ k - 1 \in 0 .. N
    BY <1>2
  <2> HIDE DEF X, F, S, N
  <2>4. f = Body(f)
    BY <1>5, <2>1, <2>2, <2>3 DEF SolvesLoop
  <2> HIDE DEF Body
  <2>5. loop = Body(loop)
    BY <2>4
  <2> HIDE DEF loop
  <2> USE DEF Body
  <2> QED  BY <2>1, <2>2, <2>3, <2>5 DEF RunsLoop
<1>6. loop[N] \in X[N] /\ N \in 0 .. N
  <2>1. \A k \in 1 .. N : \A x \in X[k - 1] : F[k][x] \in X[k]
    BY <1>4
  <2>2. N \in 0 .. N
    BY <1>2
  <2> HIDE DEF X, F, N, loop
  <2>3. loop[N] \in X[N]
    BY <1>2, <1>3, <1>5, <2>1, LoopEnds
  <2> QED  BY <2>2, <2>3
<1>7. loop[N] = c
  <2> HIDE DEF loop, N
  <2> QED  BY <1>6
<1> HIDE DEF loop
<1> QED  BY <1>1, <1>7

(* Opening a gap behind the last element moves nothing. *)
LEMMA OpenGapAtEnd ==
  ASSUME Sound, NEW c \in Forms, NEW n \in Nat, c.size + n <= MAXIMUM_SIZE
  PROVE  advance_all_after_iterator_by_n(c, c.size, n) = WithSize(c, c.size + n)
<1> DEFINE b == WithSize(c, c.size + n)
           from == CellsFrom(b, c.size, c.size - c.size)
           to == CellsFrom(b, c.size + n, c.size - c.size)
           N == c.size - c.size
           S(x, k) == relocate(x, from[N - 1 - k], to[N - 1 - k])
           Body(f) == [k \in 0 .. N |-> IF k = 0 THEN b ELSE S(f[k - 1], k - 1)]
           loop == CHOOSE f : f = Body(f)
           X == [k \in 0 .. N |-> {b}]
           F == [k \in 1 .. N |-> [x \in X[k - 1] |-> S(x, k - 1)]]
<1>1. advance_all_after_iterator_by_n(c, c.size, n) = loop[N]
  BY DEF advance_all_after_iterator_by_n, uninitialized_relocate_backward, Iterate, WithSize
<1>2. N \in Nat /\ N = 0
  BY ObjectFields
<1>3. b \in X[0]
  BY <1>2
<1>4. ASSUME NEW k \in 1 .. N, NEW x \in X[k - 1] PROVE S(x, k - 1) \in X[k]
  <2> HIDE DEF X, S, N
  <2> QED  BY <1>2
<1>5. ASSUME NEW f, SolvesLoop(f, b, X, F, N) PROVE RunsLoop(loop, b, X, F, N)
  <2>1. \A k \in 1 .. N : \A x \in X[k - 1] : F[k][x] = S(x, k - 1)
    OBVIOUS
  <2>2. \A k \in 0 .. N : k # 0 <=> k \in 1 .. N
    BY <1>2
  <2>3. 0 \in 0 .. N /\ \A k \in 1 .. N : k \in 0 .. N /\ k - 1 \in 0 .. N
    BY <1>2
  <2> HIDE DEF X, F, S, N
  <2>4. f = Body(f)
    BY <1>5, <2>1, <2>2, <2>3 DEF SolvesLoop
  <2> HIDE DEF Body
  <2>5. loop = Body(loop)
    BY <2>4
  <2> HIDE DEF loop
  <2> USE DEF Body
  <2> QED  BY <2>1, <2>2, <2>3, <2>5 DEF RunsLoop
<1>6. loop[N] \in X[N] /\ N \in 0 .. N
  <2>1. \A k \in 1 .. N : \A x \in X[k - 1] : F[k][x] \in X[k]
    BY <1>4
  <2>2. N \in 0 .. N
    BY <1>2
  <2> HIDE DEF X, F, N, loop
  <2>3. loop[N] \in X[N]
    BY <1>2, <1>3, <1>5, <2>1, LoopEnds
  <2> QED  BY <2>2, <2>3
<1>7. loop[N] = b
  <2> HIDE DEF loop, N, b
  <2> QED  BY <1>6
<1> HIDE DEF loop
<1> QED  BY <1>1, <1>7

(* n characters copied one by one from position from on to position at on, *)
(* each read after the ones before it were written.                        *)
CopiedWithin(c, at, from, n) ==
  Iterate(n, c, LAMBDA x, k :
    construct_at(x, AtIterator(x, at + k), x.cells[AtIterator(x, from + k)]))

LEMMA CopyWithin ==
  ASSUME Sound, TriviallyCopyable, NEW c \in Forms, NEW P \in SUBSET Cells, Holds(c, P),
         NEW at \in Nat, NEW from \in Nat, NEW n \in Nat, at + n <= MAXIMUM_SIZE,
         from .. from + n - 1 \subseteq P
  PROVE  \E Q \in SUBSET Cells : /\ P \cup (at .. at + n - 1) \subseteq Q
                                /\ Becomes(c, CopiedWithin(c, at, from, n), c.size, Q, at + n)
<1> DEFINE N == n
           S(x, k) == construct_at(x, AtIterator(x, at + k), x.cells[AtIterator(x, from + k)])
           Body(f) == [k \in 0 .. N |-> IF k = 0 THEN c ELSE S(f[k - 1], k - 1)]
           loop == CHOOSE f : f = Body(f)
           Q(k) == P \cup (at .. at + k - 1)
           X == [k \in 0 .. N |-> {x \in Forms : Becomes(c, x, c.size, Q(k), at + n)}]
           F == [k \in 1 .. N |-> [x \in X[k - 1] |-> S(x, k - 1)]]
<1>1. CopiedWithin(c, at, from, n) = loop[N]
  BY DEF CopiedWithin, Iterate
<1>2. N \in Nat /\ MAXIMUM_SIZE \in Nat /\ at + n \in Nat
  BY DEF Sound
<1>3. c \in X[0]
  <2>1. Q(0) = P /\ 0 \in 0 .. N
    BY <1>2
  <2>2. Becomes(c, c, c.size, P, at + n)
    BY BecomesItself
  <2> QED  BY <2>1, <2>2
<1>4. ASSUME NEW k \in 1 .. N, NEW x \in X[k - 1] PROVE S(x, k - 1) \in X[k]
  <2> DEFINE p == at + (k - 1)
             q == from + (k - 1)
             R == Q(k - 1)
             v == x.cells[AtIterator(x, q)]
  <2>1. k - 1 \in 0 .. N /\ k \in 0 .. N
    BY <1>2
  <2>2. x \in Forms /\ Becomes(c, x, c.size, R, at + n)
    BY <2>1
  <2>3. p \in Cells /\ p < at + n /\ q \in P /\ R \in SUBSET Cells /\ Q(k) = R \cup {p}
    <3>1. p \in Cells /\ p < at + n /\ q \in from .. from + n - 1
      BY <1>2 DEF Cells
    <3>2. \A j \in Int : j \in at .. at + k - 1 <=> j \in at .. at + (k - 1) - 1 \/ j = p
      BY <1>2
    <3>3. at .. at + (k - 1) - 1 \subseteq Cells
      BY <1>2 DEF Cells
    <3> QED  BY <3>1, <3>2, <3>3
  <2>4. v \in Good
    BY <2>2, <2>3 DEF Becomes, Holds
  <2> HIDE DEF p, q, R, v
  <2>5. Holds(x, R) /\ x.size = c.size
    BY <2>2 DEF Becomes
  <2>6. Becomes(x, construct_at(x, AtIterator(x, p), v), x.size, R \cup {p}, at + n)
    BY <1>2, <2>2, <2>3, <2>4, <2>5, ConstructAt
  <2>7. Becomes(c, construct_at(x, AtIterator(x, p), v), c.size, R \cup {p}, at + n)
    BY <1>2, <2>2, <2>5, <2>6, BecomesInTurn
  <2>8. construct_at(x, AtIterator(x, p), v) \in X[k]
    BY <2>1, <2>3, <2>7 DEF Becomes
  <2> QED  BY <2>8 DEF p, q, v
<1>5. ASSUME NEW f, SolvesLoop(f, c, X, F, N) PROVE RunsLoop(loop, c, X, F, N)
  <2>1. \A k \in 1 .. N : \A x \in X[k - 1] : F[k][x] = S(x, k - 1)
    OBVIOUS
  <2>2. \A k \in 0 .. N : k # 0 <=> k \in 1 .. N
    BY <1>2
  <2>3. 0 \in 0 .. N /\ \A k \in 1 .. N : k \in 0 .. N /\ k - 1 \in 0 .. N
    BY <1>2
  <2> HIDE DEF X, F, S, N
  <2>4. f = Body(f)
    BY <1>5, <2>1, <2>2, <2>3 DEF SolvesLoop
  <2> HIDE DEF Body
  <2>5. loop = Body(loop)
    BY <2>4
  <2> HIDE DEF loop
  <2> USE DEF Body
  <2> QED  BY <2>1, <2>2, <2>3, <2>5 DEF RunsLoop
<1>6. loop[N] \in X[N] /\ N \in 0 .. N
  <2>1. \A k \in 1 .. N : \A x \in X[k - 1] : F[k][x] \in X[k]
    BY <1>4
  <2>2. N \in 0 .. N
    BY <1>2
  <2> HIDE DEF X, F, N, loop
  <2>3. loop[N] \in X[N]
    BY <1>2, <1>3, <1>5, <2>1, LoopEnds
  <2> QED  BY <2>2, <2>3
<1>7. Q(N) \in SUBSET Cells
  BY <1>2 DEF Cells
<1>8. Becomes(c, loop[N], c.size, Q(N), at + n)
  <2> HIDE DEF loop
  <2> QED  BY <1>6
<1> HIDE DEF loop
<1> QED  BY <1>1, <1>7, <1>8

-----------------------------------------------------------------------------
(* The inductive invariant of the containers: between two calls each       *)
(* object is intact, and no call has used an element outside its lifetime. *)
AllIntact ==
  /\ undefined = FALSE
  /\ objects \in [Objects -> Forms \cup {NoObject}]
  /\ \A o \in Objects : objects[o] # NoObject => Intact(objects[o])

LEMMA BecomesIntact ==
  ASSUME NEW c, NEW d, NEW n, NEW N, Becomes(c, d, n, Upto(n), N)
  PROVE  Intact(d) /\ d.size = n
BY DEF Becomes, Intact

LEMMA NoFlagIntact ==
  ASSUME Sound, NEW d, Intact(d)
  PROVE  Intact(WithUb(d, FALSE)) /\ d.ub = FALSE
<1>1. d \in Forms /\ Holds(d, Upto(d.size)) /\ d.size \in 0 .. MAXIMUM_SIZE /\ MAXIMUM_SIZE \in Nat
  BY ObjectFields DEF Intact
<1>2. Upto(d.size) \in SUBSET Cells /\ 0 \in Nat
  BY <1>1 DEF Upto, Cells
<1>3. Becomes(d, WithUb(d, FALSE), d.size, Upto(d.size), 0)
  BY <1>1, <1>2, SetUb
<1> QED  BY <1>1, <1>3, BecomesIntact DEF Holds

(* A call that leaves one object intact leaves all of them so. *)
LEMMA ReturnsIntact ==
  ASSUME Sound, AllIntact, NEW c, NEW ret, NEW o \in Objects, NEW d, Intact(d),
         Returns(c, ret, o, d), UNCHANGED build
  PROVE  AllIntact'
<1>1. Intact(WithUb(d, FALSE)) /\ d.ub = FALSE
  BY NoFlagIntact
<1>2. objects' = [objects EXCEPT ![o] = WithUb(d, FALSE)] /\ undefined' = FALSE
  BY <1>1 DEF Returns, WithUb, AllIntact
<1>3. objects' \in [Objects -> Forms \cup {NoObject}]
  BY <1>1, <1>2 DEF AllIntact, Intact
<1>4. \A p \in Objects : objects'[p] # NoObject => Intact(objects'[p])
  BY <1>1, <1>2 DEF AllIntact
<1> QED  BY <1>2, <1>3, <1>4 DEF AllIntact, Intact, Holds, TriviallyCopyable

LEMMA AbortsIntact ==
  ASSUME AllIntact, NEW c, Aborts(c), UNCHANGED build
  PROVE  AllIntact'
BY DEF AllIntact, Aborts, Intact, Holds, TriviallyCopyable

LEMMA CheckedIntact ==
  ASSUME Sound, AllIntact, NEW check, NEW c, NEW ret, NEW o \in Objects, NEW d,
         check => Intact(d), Checked(check, c, ret, o, d), UNCHANGED build
  PROVE  AllIntact'
BY ReturnsIntact, AbortsIntact DEF Checked

LEMMA ReadsIntact ==
  ASSUME Sound, AllIntact, NEW check, NEW c, NEW o \in Objects, NEW cell,
         Intact(objects[o]), Reads(check, c, o, cell), UNCHANGED build
  PROVE  AllIntact'
BY ReturnsIntact, AbortsIntact DEF Reads

(* The ranges that clients pass. *)
LEMMA RangesAreSequences ==
  ASSUME Sound, MaxRange \in Nat, NEW items \in Ranges
  PROVE  Len(items) \in Nat /\ items \in [1 .. Len(items) -> Good]
<1>1. PICK n \in 0 .. MaxRange : items \in [1 .. n -> Values]
  BY DEF Ranges
<1>2. Len(items) = n /\ n \in Nat
  BY <1>1
<1>3. Values \subseteq Good
  BY DEF Sound, ValuesAreSound
<1> QED  BY <1>1, <1>2, <1>3

LEMMA ElementsAreGood ==
  ASSUME Sound, NEW c, Intact(c)
  PROVE  /\ Elements(c) \in [1 .. c.size -> Good] /\ c.size \in Nat /\ c.size <= MAXIMUM_SIZE
         /\ \A k \in Nat : k < c.size => c.cells[AtIterator(c, k)] \in Good
<1>1. c.size \in Nat /\ c.size <= MAXIMUM_SIZE /\ \A k \in Upto(c.size) : c.cells[AtIterator(c, k)] \in Good
  BY ObjectFields DEF Intact, Holds
<1>2. \A k \in 1 .. c.size : k - 1 \in Upto(c.size)
  BY <1>1 DEF Upto
<1>3. \A k \in Nat : k < c.size => k \in Upto(c.size)
  BY <1>1 DEF Upto
<1> QED  BY <1>1, <1>2, <1>3 DEF Elements

(* A new object. *)
LEMMA EmptyIsIntact ==
  ASSUME Sound
  PROVE  Intact(EmptyObject) /\ EmptyObject.size = 0
<1>1. /\ EmptyObject \in Forms /\ EmptyObject.size = 0 /\ EmptyObject.ub = FALSE
      /\ \A k \in Cells : EmptyObject.cells[k] = Raw /\ AtIterator(EmptyObject, k) = k
  BY DEF Sound, EndsAreSound
<1>2. Upto(0) = {}
  BY DEF Upto
<1> QED  BY <1>1, <1>2 DEF Intact, Holds

(* clear and the elements of a range behind it, as assign and the copies   *)
(* have it.                                                                *)
LEMMA FillIsIntact ==
  ASSUME Sound, NEW c, Intact(c), c.size = 0, NEW n \in Nat, n <= MAXIMUM_SIZE,
         NEW items \in [1 .. n -> Good]
  PROVE  Intact(InsertForward(c, 0, items)) /\ Intact(AppendAll(c, items))
<1>1. c.size + n = n /\ 0 \in Nat /\ 0 <= c.size
  OBVIOUS
<1>2. Becomes(c, InsertForward(c, 0, items), c.size + n, Upto(c.size + n), c.size + n)
  BY <1>1, InsertForwardKeepsIntact
<1>3. Becomes(c, AppendAll(c, items), c.size + n, Upto(c.size + n), c.size + n)
  BY <1>1, AppendAllItems
<1> QED  BY <1>2, <1>3, BecomesIntact

-----------------------------------------------------------------------------
(* Every call keeps the invariant, of clients that neither pass an empty   *)
(* range in front of elements nor insert an element that they move.        *)
CarefulClients == ~EmptyRanges /\ ~AliasMovedElements /\ MaxRange \in Nat

LEMMA ConstructionIntact ==
  ASSUME Sound, CarefulClients, AllIntact, NEW o \in Objects, Construction(o), UNCHANGED build
  PROVE  AllIntact'
<1>1. MAXIMUM_SIZE \in Nat /\ Values \subseteq Good
  BY DEF Sound, ValuesAreSound
<1>2. ASSUME NEW items \in Ranges, Construct(o, items) PROVE AllIntact'
  <2>1. Len(items) \in Nat /\ items \in [1 .. Len(items) -> Good]
    BY RangesAreSequences DEF CarefulClients
  <2>2. Len(items) <= MAXIMUM_SIZE => Intact(InsertForward(EmptyObject, 0, items))
    BY <2>1, EmptyIsIntact, FillIsIntact
  <2> QED  BY <1>2, <2>2, CheckedIntact DEF Construct
<1>3. ASSUME NEW n \in Counts, NEW v \in Values, ConstructCount(o, n, v) PROVE AllIntact'
  <2>1. n <= MAXIMUM_SIZE => n \in 0 .. MAXIMUM_SIZE
    BY <1>1 DEF Counts
  <2>2. n <= MAXIMUM_SIZE => Becomes(EmptyObject, PlaceAll(n, v), n, Upto(n), n)
    BY <1>1, <2>1, PlaceAllCopies
  <2>3. n <= MAXIMUM_SIZE => Intact(PlaceAll(n, v))
    BY <2>2, BecomesIntact
  <2> QED  BY <1>3, <2>3, CheckedIntact DEF ConstructCount
<1> QED  BY <1>2, <1>3 DEF Construction

LEMMA LifetimeIntact ==
  ASSUME Sound, AllIntact, NEW o \in Objects, Lifetime(o), UNCHANGED build
  PROVE  AllIntact'
<1> DEFINE base == IF objects[o] = NoObject THEN EmptyObject ELSE clear(objects[o])
<1>1. Intact(base) /\ base.size = 0
  BY EmptyIsIntact, ClearLeavesNothing DEF AllIntact
<1>2. ASSUME NEW other \in Objects, objects[other] # NoObject
      PROVE  /\ Intact(objects[other])
             /\ Intact(InsertForward(base, 0, Elements(objects[other])))
             /\ Intact(AppendAll(base, Elements(objects[other])))
  <2> HIDE DEF base
  <2>1. Intact(objects[other])
    BY <1>2 DEF AllIntact
  <2>2. /\ Elements(objects[other]) \in [1 .. objects[other].size -> Good]
        /\ objects[other].size \in Nat /\ objects[other].size <= MAXIMUM_SIZE
    BY <2>1, ElementsAreGood
  <2> QED  BY <1>1, <2>1, <2>2, FillIsIntact
<1>3. ASSUME NEW other \in Objects, Copy(o, other) PROVE AllIntact'
  <2> DEFINE d == IF TriviallyCopyable \/ o = other THEN objects[other]
                  ELSE InsertForward(base, 0, Elements(objects[other]))
  <2>1. /\ objects[other] # NoObject
        /\ Returns([Call("copy", o) EXCEPT !.from = other], 0, o, d)
    BY <1>3 DEF Copy
  <2>2. Intact(d)
    BY <1>2, <2>1
  <2> HIDE DEF d
  <2> QED  BY <2>1, <2>2, ReturnsIntact
<1>4. ASSUME NEW other \in Objects, Move(o, other) PROVE AllIntact'
  <2> DEFINE left == MovedOutElements(objects[other])
             taken == AppendAll(base, Elements(objects[other]))
             source == IF TriviallyCopyable THEN objects[other]
                       ELSE IF objects[o] = NoObject THEN clear(left) ELSE left
             target == IF TriviallyCopyable THEN objects[other] ELSE taken
  <2>1. /\ objects[other] # NoObject
        /\ objects' = [objects EXCEPT ![o] = WithUb(target, FALSE),
                                      ![other] = WithUb(source, FALSE)]
        /\ undefined' = (undefined \/ target.ub \/ source.ub)
    BY <1>4 DEF Move, WithUb
  <2>2. Intact(left) /\ Intact(clear(left))
    <3>1. Becomes(objects[other], left, objects[other].size, Upto(objects[other].size),
                  objects[other].size)
      BY <1>2, <2>1, MovedOutKeepsIntact
    <3> HIDE DEF left
    <3>2. Intact(left)
      BY <3>1, BecomesIntact
    <3> QED  BY <3>2, ClearLeavesNothing
  <2>3. Intact(target) /\ Intact(source)
    <3> HIDE DEF left, base
    <3> QED  BY <1>2, <2>1, <2>2
  <2> HIDE DEF target, source
  <2>4. /\ Intact(WithUb(target, FALSE)) /\ target.ub = FALSE
        /\ Intact(WithUb(source, FALSE)) /\ source.ub = FALSE
    BY <2>3, NoFlagIntact
  <2>5. undefined' = FALSE
    BY <2>1, <2>4 DEF AllIntact
  <2>6. objects' \in [Objects -> Forms \cup {NoObject}]
    BY <2>1, <2>4 DEF AllIntact, Intact
  <2>7. \A p \in Objects : objects'[p] # NoObject => Intact(objects'[p])
    BY <2>1, <2>4 DEF AllIntact
  <2> QED  BY <2>5, <2>6, <2>7 DEF AllIntact, Intact, Holds, TriviallyCopyable
<1>5. ASSUME MoveToItself(o) PROVE AllIntact'
  <2>1. Intact(objects[o])
    BY <1>5 DEF MoveToItself, Usable, AllIntact
  <2> QED  BY <1>5, <2>1, ReturnsIntact DEF MoveToItself
<1>6. ASSUME Destroy(o) PROVE AllIntact'
  <2>1. Intact(clear(objects[o]))
    BY <1>6, ClearLeavesNothing DEF Destroy, Usable, AllIntact
  <2>2. objects' = [objects EXCEPT ![o] = NoObject] /\ undefined' = FALSE
    BY <1>6, <2>1, NoFlagIntact DEF Destroy, AllIntact
  <2> QED  BY <2>2 DEF AllIntact, Intact, Holds, TriviallyCopyable
<1> HIDE DEF base
<1> QED  BY <1>3, <1>4, <1>5, <1>6 DEF Lifetime

LEMMA CommonCallIntact ==
  ASSUME Sound, CarefulClients, AllIntact, NEW o \in Objects, CommonCall(o), UNCHANGED build
  PROVE  AllIntact'
<1> DEFINE c == objects[o]
<1>1. MAXIMUM_SIZE \in Nat /\ Values \subseteq Good
  BY DEF Sound, ValuesAreSound
<1>2. Usable(o) => Intact(c) /\ c.size \in Nat /\ c.size <= MAXIMUM_SIZE
  BY ObjectFields DEF Usable, AllIntact, Intact
<1>3. ASSUME PopBack(o) PROVE AllIntact'
  <2>1. c.size > 0 => Becomes(c, drop_back(c), c.size - 1, Upto(c.size - 1), c.size)
    BY <1>2, <1>3, DropBack DEF PopBack
  <2>2. c.size > 0 => Intact(drop_back(c))
    BY <2>1, BecomesIntact
  <2> QED  BY <1>3, <2>2, CheckedIntact DEF PopBack
<1>4. ASSUME Front(o) \/ Back(o) \/ \E i \in Positions : At(o, i) PROVE AllIntact'
  BY <1>2, <1>4, ReadsIntact DEF Front, Back, At
<1>5. ASSUME Clear(o) PROVE AllIntact'
  <2>1. Intact(clear(c))
    BY <1>2, <1>5, ClearLeavesNothing DEF Clear
  <2> QED  BY <1>5, <2>1, ReturnsIntact DEF Clear
<1>6. ASSUME NEW first \in 0 .. MAXIMUM_SIZE + 1, NEW last \in 0 .. MAXIMUM_SIZE + 1,
             Erase(o, first, last)
      PROVE  AllIntact'
  <2>1. first \in Nat /\ last \in Nat /\ Intact(c) /\ c.size \in Nat
    BY <1>1, <1>2, <1>6 DEF Erase
  <2>2. ASSUME first <= last, last <= c.size PROVE Intact(EraseRange(c, first, last))
    <3>1. first < last \/ last = c.size \/ TriviallyCopyable
      BY <1>6, <2>1, <2>2 DEF Erase, CarefulClients
    <3>2. Becomes(c, EraseRange(c, first, last), c.size - (last - first),
                  Upto(c.size - (last - first)), c.size)
      BY <2>1, <2>2, <3>1, EraseKeepsIntact
    <3> QED  BY <3>2, BecomesIntact
  <2> QED  BY <1>6, <2>2, CheckedIntact DEF Erase
<1>7. ASSUME NEW n \in Counts, NEW v \in Values, Resize(o, n, v) PROVE AllIntact'
  <2>1. ASSUME n <= MAXIMUM_SIZE PROVE Intact(ResizeTo(c, n, v))
    <3>1. Intact(c) /\ n \in 0 .. MAXIMUM_SIZE /\ c.size <= MAXIMUM_SIZE /\ v \in Good
      BY <1>1, <1>2, <1>7, <2>1 DEF Resize, Counts
    <3>2. Becomes(c, ResizeTo(c, n, v), n, Upto(n), MAXIMUM_SIZE)
      BY <1>1, <2>1, <3>1, ResizeKeepsIntact
    <3> QED  BY <3>2, BecomesIntact
  <2> QED  BY <1>7, <2>1, CheckedIntact DEF Resize
<1>8. ASSUME NEW v \in Values, EraseAll(o, v) PROVE AllIntact'
  <2>1. PICK z \in 0 .. c.size : Becomes(c, EraseValue(c, v), z, Upto(z), c.size)
    BY <1>2, <1>8, EraseValueKeepsIntact DEF EraseAll
  <2>2. Intact(EraseValue(c, v))
    BY <2>1, BecomesIntact
  <2> QED  BY <1>8, <2>2, ReturnsIntact DEF EraseAll
<1> HIDE DEF c
<1> QED  BY <1>3, <1>4, <1>5, <1>6, <1>7, <1>8 DEF CommonCall

LEMMA GrowingCallIntact ==
  ASSUME Sound, CarefulClients, AllIntact, NEW o \in Objects, GrowingCall(o), UNCHANGED build
  PROVE  AllIntact'
<1> DEFINE c == objects[o]
<1>1. MAXIMUM_SIZE \in Nat /\ Values \subseteq Good
  BY DEF Sound, ValuesAreSound
<1>2. Usable(o) => Intact(c) /\ c.size \in Nat /\ c.size <= MAXIMUM_SIZE
  BY ObjectFields DEF Usable, AllIntact, Intact
<1>3. ASSUME NEW v \in Good, Intact(c), HasRoomFor(o, 1) PROVE Intact(push_back_internal(c, v))
  <2>1. c.size < MAXIMUM_SIZE
    BY <1>1, <1>3, ObjectFields DEF HasRoomFor, Intact
  <2>2. Becomes(c, push_back_internal(c, v), c.size + 1, Upto(c.size + 1), c.size + 1)
    BY <1>3, <2>1, PushBackInternal
  <2> QED  BY <2>2, BecomesIntact
<1>4. ASSUME NEW v \in Values, PushBack(o, v) PROVE AllIntact'
  <2>1. HasRoomFor(o, 1) => Intact(push_back_internal(c, v))
    BY <1>1, <1>2, <1>3, <1>4 DEF PushBack
  <2> QED  BY <1>4, <2>1, CheckedIntact DEF PushBack
<1>5. ASSUME NEW i \in Positions, PushBackElement(o, i) PROVE AllIntact'
  <2> DEFINE v == c.cells[AtIterator(c, i)]
  <2>1. i \in Nat /\ i < c.size /\ Intact(c)
    BY <1>1, <1>2, <1>5 DEF PushBackElement, Positions
  <2>2. v \in Good
    BY <2>1, ElementsAreGood
  <2>3. Checked(HasRoomFor(o, 1), CallWith("push_back", o, 0, <<v>>), 0,
                o, push_back_internal(c, v))
    BY <1>5 DEF PushBackElement
  <2> HIDE DEF v
  <2>4. HasRoomFor(o, 1) => Intact(push_back_internal(c, v))
    BY <1>3, <2>1, <2>2
  <2> QED  BY <2>3, <2>4, CheckedIntact
<1>6. ASSUME NEW pos \in Positions, NEW v \in Values, Insert(o, pos, v) PROVE AllIntact'
  <2>1. pos \in Nat /\ pos <= c.size /\ Intact(c) /\ v \in Good
    BY <1>1, <1>2, <1>6 DEF Insert, Positions
  <2>2. ASSUME HasRoomFor(o, 1) PROVE Intact(InsertOne(c, pos, v))
    <3>1. c.size + 1 <= MAXIMUM_SIZE
      BY <2>2 DEF HasRoomFor
    <3>2. Becomes(c, InsertOne(c, pos, v), c.size + 1, Upto(c.size + 1), c.size + 1)
      BY <2>1, <3>1, InsertOneKeepsIntact
    <3> QED  BY <3>2, BecomesIntact
  <2> QED  BY <1>6, <2>2, CheckedIntact DEF Insert
<1>7. ASSUME NEW pos \in Positions, NEW i \in Positions, InsertElement(o, pos, i)
      PROVE  AllIntact'
  <2>1. pos \in Nat /\ pos <= c.size /\ Intact(c) /\ i \in Nat /\ i < pos
    BY <1>1, <1>2, <1>7 DEF InsertElement, Positions, CarefulClients
  <2>2. ASSUME HasRoomFor(o, 1) PROVE Intact(InsertAliased(c, pos, i))
    <3>1. c.size + 1 <= MAXIMUM_SIZE
      BY <2>2 DEF HasRoomFor
    <3>2. Becomes(c, InsertAliased(c, pos, i), c.size + 1, Upto(c.size + 1), c.size + 1)
      BY <2>1, <3>1, InsertAliasedKeepsIntact
    <3> QED  BY <3>2, BecomesIntact
  <2> QED  BY <1>7, <2>2, CheckedIntact DEF InsertElement
<1>8. ASSUME NEW pos \in Positions, NEW items \in Ranges, InsertRange(o, pos, items)
      PROVE  AllIntact'
  <2>1. /\ pos \in Nat /\ pos <= c.size /\ Intact(c)
        /\ Len(items) \in Nat /\ items \in [1 .. Len(items) -> Good]
    BY <1>1, <1>2, <1>8, RangesAreSequences
    DEF InsertRange, PassableRange, Positions, CarefulClients
  <2>2. Len(items) > 0 \/ pos = c.size \/ TriviallyCopyable
    <3>1. items # << >> => Len(items) > 0
      BY <2>1
    <3> QED  BY <1>8, <3>1 DEF InsertRange, PassableRange, CarefulClients
  <2>3. ASSUME HasRoomFor(o, Len(items)) PROVE Intact(InsertForward(c, pos, items))
    <3>1. c.size + Len(items) <= MAXIMUM_SIZE
      BY <2>3 DEF HasRoomFor
    <3>2. Becomes(c, InsertForward(c, pos, items), c.size + Len(items),
                  Upto(c.size + Len(items)), c.size + Len(items))
      BY <2>1, <2>2, <3>1, InsertForwardKeepsIntact
    <3> QED  BY <3>2, BecomesIntact
  <2> QED  BY <1>8, <2>3, CheckedIntact DEF InsertRange
<1>9. ASSUME NEW pos \in Positions, NEW items \in Ranges, InsertInputRange(o, pos, items)
      PROVE  AllIntact'
  <2>1. /\ pos \in Nat /\ pos <= c.size /\ Intact(c)
        /\ Len(items) \in Nat /\ items \in [1 .. Len(items) -> Good]
    BY <1>1, <1>2, <1>9, RangesAreSequences DEF InsertInputRange, Positions, CarefulClients
  <2>2. ASSUME HasRoomFor(o, Len(items)) PROVE Intact(InsertInput(c, pos, items))
    <3>1. c.size + Len(items) <= MAXIMUM_SIZE
      BY <2>2 DEF HasRoomFor
    <3>2. Becomes(c, InsertInput(c, pos, items), c.size + Len(items),
                  Upto(c.size + Len(items)), c.size + Len(items))
      BY <2>1, <3>1, InsertInputKeepsIntact
    <3> QED  BY <3>2, BecomesIntact
  <2> QED  BY <1>9, <2>2, CheckedIntact DEF InsertInputRange
<1>10. ASSUME NEW n \in Counts, NEW v \in Values, AssignCount(o, n, v) PROVE AllIntact'
  <2> DEFINE e == clear(c)
  <2>1. Intact(e) /\ e.size = 0
    BY <1>2, <1>10, ClearLeavesNothing DEF AssignCount
  <2>2. Checked(n <= MAXIMUM_SIZE, CallWith("assign_count", o, n, <<v>>), 0,
                o, ResizeTo(e, n, v))
    BY <1>10 DEF AssignCount
  <2> HIDE DEF e
  <2>3. ASSUME n <= MAXIMUM_SIZE PROVE Intact(ResizeTo(e, n, v))
    <3>1. n \in 0 .. MAXIMUM_SIZE /\ e.size <= MAXIMUM_SIZE /\ v \in Good
      BY <1>1, <2>1, <2>3 DEF Counts
    <3>2. Becomes(e, ResizeTo(e, n, v), n, Upto(n), MAXIMUM_SIZE)
      BY <1>1, <2>1, <2>3, <3>1, ResizeKeepsIntact
    <3> QED  BY <3>2, BecomesIntact
  <2> QED  BY <2>2, <2>3, CheckedIntact
<1>11. ASSUME NEW items \in Ranges, Assign(o, items) PROVE AllIntact'
  <2>1. Len(items) \in Nat /\ items \in [1 .. Len(items) -> Good]
    BY RangesAreSequences DEF CarefulClients
  <2>2. Intact(clear(c)) /\ clear(c).size = 0
    BY <1>2, <1>11, ClearLeavesNothing DEF Assign
  <2>3. Len(items) <= MAXIMUM_SIZE => Intact(InsertForward(clear(c), 0, items))
    BY <2>1, <2>2, FillIsIntact
  <2> QED  BY <1>11, <2>3, CheckedIntact DEF Assign
<1> HIDE DEF c
<1> QED  BY <1>4, <1>5, <1>6, <1>7, <1>8, <1>9, <1>10, <1>11 DEF GrowingCall

(* Nothing changes. *)
LEMMA StutterIntact ==
  ASSUME AllIntact, UNCHANGED vars
  PROVE  AllIntact'
BY DEF vars, AllIntact, Intact, Holds, TriviallyCopyable

LEMMA InitIntact ==
  ASSUME Init
  PROVE  AllIntact
BY DEF Init, AllIntact

(* What the invariant says of lifetimes and of cells. *)
LEMMA IntactMeansLive ==
  ASSUME Sound, AllIntact
  PROVE  LifetimesRespected /\ LiveCellsAreElements
<1>1. LifetimesRespected
  BY DEF AllIntact, LifetimesRespected
<1>2. ASSUME NEW o \in Objects, objects[o] # NoObject
      PROVE  LET c == objects[o] IN
             /\ c.size <= MAXIMUM_SIZE
             /\ \A a \in ElementCells(c) : c.cells[a] # Raw
             /\ ~TriviallyCopyable => \A a \in Cells \ ElementCells(c) : c.cells[a] = Raw
  <2> DEFINE c == objects[o]
  <2>1. c \in Forms /\ Holds(c, Upto(c.size))
    BY <1>2 DEF AllIntact, Intact
  <2>2. c.size <= MAXIMUM_SIZE
    BY <2>1, ObjectFields
  <2>3. \A p \in Upto(c.size) : c.cells[AtIterator(c, p)] # Raw
    BY <2>1 DEF Holds, Sound, ValuesAreSound
  <2>4. \A a \in Cells \ ElementCells(c) :
          \E k \in Cells \ Upto(c.size) : AtIterator(c, k) = a
    <3>1. \A a \in Cells : \E k \in Cells : AtIterator(c, k) = a
      BY <2>1, ObjectFields
    <3> QED  BY <3>1 DEF ElementCells, Upto
  <2>5. ~TriviallyCopyable => \A a \in Cells \ ElementCells(c) : c.cells[a] = Raw
    BY <2>1, <2>4 DEF Holds
  <2>6. \A a \in ElementCells(c) : c.cells[a] # Raw
    BY <2>3 DEF ElementCells, Upto
  <2> QED  BY <2>2, <2>5, <2>6
<1> QED  BY <1>1, <1>2 DEF LiveCellsAreElements
=============================================================================
