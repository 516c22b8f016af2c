-------------------------- MODULE FixedDequeProofs --------------------------
(***************************************************************************)
(* FixedDeque finds every position in one cell of its own however far its  *)
(* start has drifted, uses no element outside its lifetime and leaks none, *)
(* for every capacity, element type, number of objects and sequence of     *)
(* calls; and so does FixedCircularDeque, whatever it drops.  The calls    *)
(* shared with FixedVector are SequenceContainerProofs', for the deque's   *)
(* indices.                                                                *)
(***************************************************************************)
EXTENDS FixedCircularDeque, SequenceTheorems, TLAPS

(* What increment_index_with_wraparound computes of a number. *)
Wrapped(a) == a - (a \div MAXIMUM_SIZE) * MAXIMUM_SIZE

LEMMA QuotientIsUnique ==
  ASSUME NEW M \in Nat, M > 0, NEW q \in Int, NEW p \in Int, NEW r \in 0 .. M - 1,
         NEW s \in 0 .. M - 1, q * M + r = p * M + s
  PROVE  q = p /\ r = s
<1>1. CASE q > p
  <2>1. q - p - 1 \in Nat
    BY <1>1
  <2>2. (q - p - 1) * M \in Nat
    BY <2>1
  <2>3. (q - p - 1) * M = q * M - p * M - M
    OBVIOUS
  <2> QED  BY <2>2, <2>3
<1>2. CASE p > q
  <2>1. p - q - 1 \in Nat
    BY <1>2
  <2>2. (p - q - 1) * M \in Nat
    BY <2>1
  <2>3. (p - q - 1) * M = p * M - q * M - M
    OBVIOUS
  <2> QED  BY <2>2, <2>3
<1>3. CASE p = q
  BY <1>3
<1> QED  BY <1>1, <1>2, <1>3

LEMMA WrappedIsRemainder ==
  ASSUME NEW a \in Nat
  PROVE  /\ a \div MAXIMUM_SIZE \in Nat
         /\ Wrapped(a) \in 0 .. MAXIMUM_SIZE - 1
         /\ a = (a \div MAXIMUM_SIZE) * MAXIMUM_SIZE + Wrapped(a)
BY MaximumSizeIsPositive DEF Wrapped

(* The remainder is the only number below the capacity that differs from   *)
(* a by whole cycles.                                                      *)
LEMMA WrappedIsUnique ==
  ASSUME NEW a \in Nat, NEW q \in Int, NEW r \in 0 .. MAXIMUM_SIZE - 1, a = q * MAXIMUM_SIZE + r
  PROVE  Wrapped(a) = r
<1>1. MAXIMUM_SIZE \in Nat /\ MAXIMUM_SIZE > 0
  BY MaximumSizeIsPositive
<1> DEFINE p == a \div MAXIMUM_SIZE
           s == Wrapped(a)
<1>2. p \in Int /\ s \in 0 .. MAXIMUM_SIZE - 1 /\ a = p * MAXIMUM_SIZE + s
  BY WrappedIsRemainder
<1> HIDE DEF p, s
<1>3. q * MAXIMUM_SIZE + r = p * MAXIMUM_SIZE + s
  BY <1>2
<1>4. q = p /\ r = s
  <2> DEFINE M == MAXIMUM_SIZE
  <2>1. M \in Nat /\ M > 0 /\ p \in Int /\ s \in 0 .. M - 1 /\ q * M + r = p * M + s
    BY <1>1, <1>2, <1>3
  <2>2. r \in 0 .. M - 1
    OBVIOUS
  <2> HIDE DEF M
  <2> QED  BY <2>1, <2>2, QuotientIsUnique
<1> QED  BY <1>4 DEF s

(* Whole cycles do not matter. *)
LEMMA WrappedByCycles ==
  ASSUME NEW a \in Nat, NEW q \in Int, a + q * MAXIMUM_SIZE \in Nat
  PROVE  Wrapped(a + q * MAXIMUM_SIZE) = Wrapped(a)
<1> DEFINE p == a \div MAXIMUM_SIZE
           s == Wrapped(a)
           M == MAXIMUM_SIZE
<1>1. p \in Int /\ s \in 0 .. M - 1 /\ a = p * M + s /\ M \in Int
  BY WrappedIsRemainder, MaximumSizeIsPositive
<1> HIDE DEF p, s
<1>2. p + q \in Int /\ a + q * M = (p + q) * M + s
  <2>1. (p + q) * M = p * M + q * M
    BY <1>1
  <2> HIDE DEF M
  <2>2. p * M \in Int /\ q * M \in Int
    BY <1>1
  <2> QED  BY <1>1, <2>1, <2>2
<1>3. Wrapped(a + q * M) = s
  BY Zenon, <1>1, <1>2, WrappedIsUnique
<1> QED  BY <1>3 DEF s

(* Wrapping on the way changes nothing. *)
LEMMA WrappedTwice ==
  ASSUME NEW a \in Nat, NEW k \in Int, a + k \in Nat, Wrapped(a) + k \in Nat
  PROVE  Wrapped(Wrapped(a) + k) = Wrapped(a + k)
<1> DEFINE p == a \div MAXIMUM_SIZE
           s == Wrapped(a)
           M == MAXIMUM_SIZE
<1>1. p \in Int /\ s \in 0 .. M - 1 /\ a = p * M + s /\ M \in Nat
  <2>1. p \in Nat /\ s \in 0 .. M - 1 /\ a = p * M + s
    BY Zenon, WrappedIsRemainder
  <2> QED  BY <2>1, MaximumSizeIsPositive
<1> HIDE DEF p, s
<1>2. (s + k) + p * M = a + k
  <2>1. p * M \in Int
    BY <1>1
  <2> QED  BY <1>1, <2>1
<1>3. s + k \in Nat /\ (s + k) + p * M \in Nat
  BY <1>2 DEF s
<1>4. Wrapped((s + k) + p * M) = Wrapped(s + k)
  BY Zenon, <1>1, <1>3, WrappedByCycles
<1> QED  BY <1>2, <1>4 DEF s

(* Fewer than MAXIMUM_SIZE consecutive numbers wrap to different ones. *)
LEMMA WrappedIsInjective ==
  ASSUME NEW a \in Nat, NEW b \in Nat, a - b < MAXIMUM_SIZE, b - a < MAXIMUM_SIZE,
         Wrapped(a) = Wrapped(b)
  PROVE  a = b
<1> DEFINE p == a \div MAXIMUM_SIZE
           q == b \div MAXIMUM_SIZE
           s == Wrapped(a)
           M == MAXIMUM_SIZE
<1>1. p \in Int /\ q \in Int /\ M \in Nat /\ s \in Nat /\ a = p * M + s /\ b = q * M + s
  <2>1. p \in Nat /\ s \in 0 .. M - 1 /\ a = p * M + s
    BY Zenon, WrappedIsRemainder
  <2>2. q \in Nat /\ b = q * M + s
    BY Zenon, WrappedIsRemainder
  <2> QED  BY <2>1, <2>2, MaximumSizeIsPositive
<1> HIDE DEF p, q, s, M
<1>2. CASE p > q
  <2>1. p - q - 1 \in Nat
    BY <1>1, <1>2
  <2>2. (p - q - 1) * M \in Nat
    BY <1>1, <2>1
  <2>3. (p - q - 1) * M = p * M - q * M - M /\ p * M \in Int /\ q * M \in Int
    BY <1>1
  <2>4. a - b >= M
    BY <1>1, <2>2, <2>3
  <2> QED  BY <1>1, <2>4 DEF M
<1>3. CASE q > p
  <2>1. q - p - 1 \in Nat
    BY <1>1, <1>3
  <2>2. (q - p - 1) * M \in Nat
    BY <1>1, <2>1
  <2>3. (q - p - 1) * M = q * M - p * M - M /\ p * M \in Int /\ q * M \in Int
    BY <1>1
  <2>4. b - a >= M
    BY <1>1, <2>2, <2>3
  <2> QED  BY <1>1, <2>4 DEF M
<1> QED  BY <1>1, <1>2, <1>3

(* And all of MAXIMUM_SIZE consecutive ones reach every cell. *)
LEMMA WrappedIsSurjective ==
  ASSUME NEW a \in Nat, NEW x \in 0 .. MAXIMUM_SIZE - 1
  PROVE  \E k \in 0 .. MAXIMUM_SIZE - 1 : Wrapped(a + k) = x
<1> DEFINE s == Wrapped(a)
           k == IF x >= s THEN x - s ELSE (x - s) + MAXIMUM_SIZE
<1>1. s \in 0 .. MAXIMUM_SIZE - 1 /\ MAXIMUM_SIZE \in Nat
  BY WrappedIsRemainder, MaximumSizeIsPositive
<1> HIDE DEF s
<1>2. k \in 0 .. MAXIMUM_SIZE - 1 /\ (s + k = x \/ s + k = x + 1 * MAXIMUM_SIZE)
  BY <1>1
<1> HIDE DEF k
<1>3. Wrapped(x) = x
  <2>1. x \in Nat /\ 0 \in Int /\ x = 0 * MAXIMUM_SIZE + x
    BY <1>1
  <2> QED  BY <2>1, WrappedIsUnique
<1>4. Wrapped(x + 1 * MAXIMUM_SIZE) = Wrapped(x)
  <2>1. x \in Nat /\ 1 \in Int /\ x + 1 * MAXIMUM_SIZE \in Nat
    BY <1>1
  <2> QED  BY <2>1, WrappedByCycles
<1>5. Wrapped(s + k) = x
  BY <1>2, <1>3, <1>4
<1>6. Wrapped(a + k) = Wrapped(s + k)
  <2>1. k \in Int /\ a + k \in Nat /\ s + k \in Nat
    BY <1>1, <1>2
  <2> QED  BY <2>1, WrappedTwice DEF s
<1> QED  BY <1>2, <1>5, <1>6

-----------------------------------------------------------------------------
(* What decrement_index_with_wraparound adds to take n away. *)
Complement(n) == ((n \div MAXIMUM_SIZE) + 1) * MAXIMUM_SIZE - n

LEMMA Increments ==
  ASSUME NEW index, NEW n, index + n \in Nat
  PROVE  increment(index, n) = Wrapped(index + n)
<1> DEFINE a == index + n
<1>1. MAXIMUM_SIZE # 0 /\ a \in Nat
  BY MaximumSizeIsPositive
<1>2. increment(index, n) = (a - 0 - ((a - 0) \div MAXIMUM_SIZE) * MAXIMUM_SIZE) + 0
  BY <1>1 DEF increment, increment_index_with_wraparound, FULL_RANGE, CyclesAndInteger
<1>3. Wrapped(a) \in Nat /\ a - 0 = a
  BY <1>1, WrappedIsRemainder
<1>4. increment(index, n) = Wrapped(a) + 0
  BY <1>2, <1>3 DEF Wrapped
<1> HIDE DEF a
<1>5. increment(index, n) = Wrapped(a)
  BY <1>3, <1>4
<1> QED  BY <1>5 DEF a

LEMMA Complements ==
  ASSUME NEW n \in Nat
  PROVE  Complement(n) \in Nat /\ (n \div MAXIMUM_SIZE) + 1 \in Nat
<1> DEFINE q == n \div MAXIMUM_SIZE
           r == Wrapped(n)
           M == MAXIMUM_SIZE
<1>1. q \in Nat /\ r \in 0 .. M - 1 /\ n = q * M + r
  BY Zenon, WrappedIsRemainder
<1>2. M \in Nat /\ r \in Nat /\ r < M
  BY <1>1, MaximumSizeIsPositive
<1>3. Complement(n) = (q + 1) * M - n
  BY DEF Complement
<1> HIDE DEF q, r, M
<1>4. (q + 1) * M = q * M + M /\ q * M \in Nat
  BY <1>1, <1>2
<1>5. (q + 1) * M - n = M - r
  BY <1>1, <1>2, <1>4
<1>6. Complement(n) \in Nat /\ q + 1 \in Nat
  BY <1>1, <1>2, <1>3, <1>5
<1> QED  BY <1>6 DEF q

LEMMA Decrements ==
  ASSUME NEW index \in Nat, NEW n \in Nat
  PROVE  /\ decrement(index, n) = Wrapped(index + Complement(n))
         /\ index >= n => decrement(index, n) = Wrapped(index - n)
<1>1. Complement(n) \in Nat /\ index + Complement(n) \in Nat
  BY Complements
<1>2. decrement(index, n) = increment(index, Complement(n))
  BY MaximumSizeIsPositive
  DEF decrement, increment, decrement_index_with_wraparound,
    increment_index_with_wraparound, FULL_RANGE, CyclesAndInteger, Complement
<1>3. decrement(index, n) = Wrapped(index + Complement(n))
  BY <1>1, <1>2, Increments
<1>4. ASSUME index >= n PROVE Wrapped(index + Complement(n)) = Wrapped(index - n)
  <2> DEFINE t == (n \div MAXIMUM_SIZE) + 1
             M == MAXIMUM_SIZE
             a == index - n
  <2>1. t \in Int /\ M \in Nat /\ Complement(n) = t * M - n
    BY Complements, MaximumSizeIsPositive DEF Complement
  <2>2. a \in Nat
    BY <1>4
  <2> HIDE DEF t
  <2>3. index + Complement(n) = a + t * M
    <3>1. t * M \in Int
      BY <2>1
    <3> QED  BY <2>1, <3>1
  <2>4. a + t * M \in Nat
    BY <1>1, <2>3
  <2> HIDE DEF a
  <2>5. Wrapped(a + t * M) = Wrapped(a)
    BY Zenon, <2>1, <2>2, <2>4, WrappedByCycles
  <2> QED  BY <2>3, <2>5 DEF a
<1> QED  BY <1>3, <1>4

(* Where the positions of a deque lie: one behind the other from its front *)
(* on, by at() and by iterators alike.                                     *)
Origin(c) == c.start + Complement(STARTING_OFFSET)

LEMMA Places ==
  ASSUME NEW c, c.start \in Nat, NEW k \in Nat
  PROVE  /\ Origin(c) \in Nat
         /\ IteratorGet(c, k) = Wrapped(Origin(c) + k)
         /\ AtAdjusted(c, k) = Wrapped(Origin(c) + k)
<1> DEFINE x == Complement(STARTING_OFFSET)
<1>1. STARTING_OFFSET \in Nat /\ x \in Nat
  BY DriftStaysPositive, Complements
<1> HIDE DEF x
<1>2. Origin(c) \in Nat /\ Origin(c) = c.start + x /\ Origin(c) + k = (c.start + k) + x
  BY <1>1 DEF Origin, x
<1>3. IteratorGet(c, k) = Wrapped((c.start + k) + x)
  BY <1>1, Decrements DEF IteratorGet, x
<1>4. front_index(c) = Wrapped(Origin(c))
  BY <1>1, <1>2, Decrements DEF front_index, x
<1>5. AtAdjusted(c, k) = Wrapped(Wrapped(Origin(c)) + k)
  <2>1. Wrapped(Origin(c)) + k \in Nat
    BY <1>2, WrappedIsRemainder
  <2> QED  BY <1>4, <2>1, Increments DEF AtAdjusted
<1>6. Wrapped(Wrapped(Origin(c)) + k) = Wrapped(Origin(c) + k)
  <2>1. k \in Int /\ Origin(c) + k \in Nat /\ Wrapped(Origin(c)) + k \in Nat
    BY <1>2, WrappedIsRemainder
  <2> QED  BY <1>2, <2>1, WrappedTwice
<1> QED  BY <1>2, <1>3, <1>5, <1>6

LEMMA Ends ==
  ASSUME NEW c, c.start \in Nat, c.size \in Nat
  PROVE  /\ front_index(c) = IteratorGet(c, 0)
         /\ end_index(c) = IteratorGet(c, c.size)
         /\ c.size > 0 => back_index(c) = IteratorGet(c, c.size - 1)
<1>1. front_index(c) = IteratorGet(c, 0)
  BY DEF front_index, IteratorGet
<1>2. end_index(c) = AtAdjusted(c, c.size)
  BY DEF end_index, AtAdjusted
<1>3. end_index(c) = Wrapped(Origin(c) + c.size) /\ end_index(c) = IteratorGet(c, c.size)
  BY <1>2, Places
<1>4. ASSUME c.size > 0 PROVE back_index(c) = IteratorGet(c, c.size - 1)
  <2> DEFINE e == Origin(c) + c.size
             x == Complement(1)
  <2>1. Origin(c) \in Nat /\ e \in Nat /\ c.size - 1 \in Nat /\ e >= 1 /\ e - 1 \in Nat
        /\ e - 1 = Origin(c) + (c.size - 1)
    BY <1>4, Places
  <2>2. IteratorGet(c, c.size - 1) = Wrapped(e - 1)
    BY <2>1, Places
  <2> HIDE DEF e
  <2>3. Wrapped(e) \in Nat /\ x \in Nat /\ Wrapped(e) + x \in Nat /\ e + x \in Nat
    BY <2>1, WrappedIsRemainder, Complements
  <2>4. back_index(c) = Wrapped(Wrapped(e) + x)
    BY <1>3, <2>3, Decrements DEF back_index, e
  <2>5. Wrapped(Wrapped(e) + x) = Wrapped(e + x)
    BY <2>1, <2>3, WrappedTwice
  <2>6. Wrapped(e + x) = Wrapped(e - 1)
    BY <2>1, Decrements
  <2> QED  BY <2>2, <2>4, <2>5, <2>6
<1> QED  BY <1>1, <1>3, <1>4

-----------------------------------------------------------------------------
Deques == [cells : [0 .. MAXIMUM_SIZE - 1 -> Contents \cup {Raw}], ub : BOOLEAN,
           size : 0 .. MAXIMUM_SIZE, start : Nat]

Ops == INSTANCE SequenceContainerProofs
  WITH EmptyObject <- EmptyDeque, AtIterator <- IteratorGet, AtIndex <- AtAdjusted,
       FrontIndex <- front_index, EndIndex <- end_index, BackIndex <- back_index,
       Reset <- reset_indices, Forms <- Deques, Good <- Contents

(* Each position lies in a cell of its own. *)
LEMMA PlacesAreCells ==
  ASSUME NEW c, c.start \in Nat
  PROVE  /\ \A k \in Ops!Cells : IteratorGet(c, k) \in Ops!Cells
         /\ \A j, k \in Ops!Cells : IteratorGet(c, j) = IteratorGet(c, k) => j = k
         /\ \A a \in Ops!Cells : \E k \in Ops!Cells : IteratorGet(c, k) = a
<1>1. MAXIMUM_SIZE \in Nat /\ 0 \in Nat /\ Ops!Cells = 0 .. MAXIMUM_SIZE - 1
  BY MaximumSizeIsPositive DEF Ops!Cells
<1>2. Origin(c) \in Nat /\ \A k \in Ops!Cells : k \in Nat /\ Origin(c) + k \in Nat
  BY <1>1, Places
<1>3. \A k \in Ops!Cells : IteratorGet(c, k) = Wrapped(Origin(c) + k)
  BY <1>2, Places
<1>4. \A k \in Ops!Cells : IteratorGet(c, k) \in Ops!Cells
  BY <1>1, <1>2, <1>3, WrappedIsRemainder
<1>5. ASSUME NEW j \in Ops!Cells, NEW k \in Ops!Cells, IteratorGet(c, j) = IteratorGet(c, k)
      PROVE  j = k
  <2> DEFINE a == Origin(c) + j
             b == Origin(c) + k
  <2>1. a \in Nat /\ b \in Nat /\ a - b < MAXIMUM_SIZE /\ b - a < MAXIMUM_SIZE
    BY <1>1, <1>2
  <2>2. Wrapped(a) = Wrapped(b)
    BY <1>3, <1>5
  <2> HIDE DEF a, b
  <2>3. a = b
    BY <2>1, <2>2, WrappedIsInjective
  <2> QED  BY <1>2, <2>3 DEF a, b
<1>6. ASSUME NEW a \in Ops!Cells PROVE \E k \in Ops!Cells : IteratorGet(c, k) = a
  <2>1. \E k \in 0 .. MAXIMUM_SIZE - 1 : Wrapped(Origin(c) + k) = a
    BY <1>1, <1>2, WrappedIsSurjective
  <2> QED  BY <1>1, <1>3, <2>1
<1> QED  BY <1>4, <1>5, <1>6

(* The deque's fields and places are as the general proof needs them. *)
LEMMA DequeIsSound == Ops!Sound
<1>1. MAXIMUM_SIZE \in Nat /\ STARTING_OFFSET \in Nat
  BY MaximumSizeIsPositive, DriftStaysPositive
<1>2. Ops!FieldsAreSound
  <2>1. \A c \in Deques :
          /\ c.cells \in Ops!Memory /\ c.ub \in BOOLEAN /\ c.size \in 0 .. MAXIMUM_SIZE
          /\ c.start \in Nat
    BY <1>1 DEF Ops!Memory, Ops!Cells, Ops!Contents, Contents, Deques
  <2>2. \A c, d : c.start = d.start => Ops!SamePlaces(c, d)
    BY DEF Ops!SamePlaces, IteratorGet
  <2>3. \A c \in Deques, m \in Ops!Memory :
          /\ Ops!WithCells(c, m) \in Deques /\ Ops!WithCells(c, m).cells = m
          /\ Ops!WithCells(c, m).ub = c.ub /\ Ops!WithCells(c, m).size = c.size
          /\ c.start = Ops!WithCells(c, m).start
    BY DEF Ops!Memory, Ops!Cells, Ops!Contents, Contents, Deques, Ops!WithCells
  <2>4. \A c \in Deques, u \in BOOLEAN :
          /\ Ops!WithUb(c, u) \in Deques /\ Ops!WithUb(c, u).cells = c.cells
          /\ Ops!WithUb(c, u).ub = u /\ Ops!WithUb(c, u).size = c.size
          /\ c.start = Ops!WithUb(c, u).start
    BY DEF Deques, Ops!WithUb
  <2>5. \A c \in Deques, n \in 0 .. MAXIMUM_SIZE :
          /\ Ops!WithSize(c, n) \in Deques /\ Ops!WithSize(c, n).cells = c.cells
          /\ Ops!WithSize(c, n).ub = c.ub /\ Ops!WithSize(c, n).size = n
          /\ c.start = Ops!WithSize(c, n).start
    BY DEF Deques, Ops!WithSize
  <2> QED  BY <2>1, <2>2, <2>3, <2>4, <2>5 DEF Ops!FieldsAreSound
<1>3. Ops!PlacesAreSound
  <2>1. \A c \in Deques : c.start \in Nat
    BY DEF Deques
  <2> QED  BY <2>1, PlacesAreCells DEF Ops!PlacesAreSound
<1>4. Ops!EndsAreSound
  <2>1. ASSUME NEW c \in Deques
        PROVE  /\ c.size < MAXIMUM_SIZE => end_index(c) = IteratorGet(c, c.size)
               /\ c.size > 0 => back_index(c) = IteratorGet(c, c.size - 1)
    <3>1. c.start \in Nat /\ c.size \in Nat
      BY <1>1 DEF Deques
    <3> QED  BY <3>1, Ends
  <2>2. ASSUME NEW c \in Deques
        PROVE  /\ reset_indices(c) \in Deques /\ reset_indices(c).cells = c.cells
               /\ reset_indices(c).ub = c.ub /\ reset_indices(c).size = 0
    <3> DEFINE d == [c EXCEPT !.start = STARTING_OFFSET]
    <3>1. d \in Deques /\ d.cells = c.cells /\ d.ub = c.ub
      BY <1>1 DEF Deques
    <3>2. reset_indices(c) = [d EXCEPT !.size = 0]
      BY DEF reset_indices
    <3> HIDE DEF d
    <3> QED  BY <1>1, <3>1, <3>2 DEF Deques
  <2>3. /\ EmptyDeque \in Deques /\ EmptyDeque.size = 0 /\ EmptyDeque.ub = FALSE
        /\ \A k \in Ops!Cells : EmptyDeque.cells[k] = Raw
        /\ EmptyDeque.start = STARTING_OFFSET
    BY <1>1 DEF Deques, EmptyDeque, Ops!Cells
  <2>4. ASSUME NEW k \in Ops!Cells PROVE IteratorGet(EmptyDeque, k) = k
    <3>1. /\ k \in Nat /\ k \in 0 .. MAXIMUM_SIZE - 1 /\ STARTING_OFFSET + k \in Nat
          /\ STARTING_OFFSET + k >= STARTING_OFFSET /\ (STARTING_OFFSET + k) - STARTING_OFFSET = k
      BY <1>1 DEF Ops!Cells
    <3>2. decrement(STARTING_OFFSET + k, STARTING_OFFSET)
            = Wrapped((STARTING_OFFSET + k) - STARTING_OFFSET)
      BY <1>1, <3>1, Decrements
    <3>3. IteratorGet(EmptyDeque, k) = Wrapped(k)
      BY <2>3, <3>1, <3>2 DEF IteratorGet
    <3>4. 0 \in Int /\ k = 0 * MAXIMUM_SIZE + k
      BY <1>1, <3>1
    <3> QED  BY <3>1, <3>3, <3>4, WrappedIsUnique
  <2> QED  BY <2>1, <2>2, <2>3, <2>4 DEF Ops!EndsAreSound
<1>5. Ops!ValuesAreSound
  BY RawIsNoValue DEF Ops!ValuesAreSound, Ops!Contents, Contents, Ops!MovedOut
<1> QED  BY <1>1, <1>2, <1>3, <1>4, <1>5 DEF Ops!Sound

(* The operators of the deque are those of the general proof. *)
LEMMA SameOperators ==
  /\ \A m, i, v : construct_at(m, i, v) = Ops!construct_at(m, i, v)
  /\ \A m, i : destroy_at(m, i) = Ops!destroy_at(m, i)
  /\ \A c, v : push_back_internal(c, v) = Ops!push_back_internal(c, v)
  /\ \A c : drop_back(c) = Ops!drop_back(c)
  /\ \A c : clear(c) = Ops!clear(c)
  /\ \A c : Elements(c) = Ops!Elements(c)
  /\ \A c, items : AppendAll(c, items) = Ops!AppendAll(c, items)
  /\ \A n, v : PlaceAll(n, v) = Ops!PlaceAll(n, v)
  /\ \A c, n, v : ResizeTo(c, n, v) = Ops!ResizeTo(c, n, v)
  /\ \A c, pos, v : InsertOne(c, pos, v) = Ops!InsertOne(c, pos, v)
  /\ \A c, pos, i : InsertAliased(c, pos, i) = Ops!InsertAliased(c, pos, i)
  /\ \A c, pos, items : InsertForward(c, pos, items) = Ops!InsertForward(c, pos, items)
  /\ \A c, first, middle : rotate(c, first, middle) = Ops!rotate(c, first, middle)
  /\ \A c, pos, items : InsertInput(c, pos, items) = Ops!InsertInput(c, pos, items)
  /\ \A c, first, last : EraseRange(c, first, last) = Ops!EraseRange(c, first, last)
  /\ \A c, v : EraseValue(c, v) = Ops!EraseValue(c, v)
  /\ \A c : MovedOutElements(c) = Ops!MovedOutElements(c)
<1>1. \A m, i, v : construct_at(m, i, v) = Ops!construct_at(m, i, v)
  BY DEF construct_at, Ops!construct_at, TriviallyCopyable, Ops!TriviallyCopyable
<1>2. \A m, i : destroy_at(m, i) = Ops!destroy_at(m, i)
  BY DEF destroy_at, Ops!destroy_at, TriviallyCopyable, Ops!TriviallyCopyable
<1>3. \A v : MovedOut(v) = Ops!MovedOut(v)
  BY DEF MovedOut, Ops!MovedOut, TriviallyCopyable, Ops!TriviallyCopyable
<1>4. \A m, from, to : relocate(m, from, to) = Ops!relocate(m, from, to)
  BY <1>1, <1>2, <1>3 DEF relocate, Ops!relocate
<1>5. \A c, v : push_back_internal(c, v) = Ops!push_back_internal(c, v)
  BY <1>1 DEF push_back_internal, Ops!push_back_internal
<1>6. \A c : drop_back(c) = Ops!drop_back(c)
  BY <1>2 DEF drop_back, Ops!drop_back
<1>7. \A c, first, last : destroy_range(c, first, last) = Ops!destroy_range(c, first, last)
  BY DEF destroy_range, Ops!destroy_range, Iterate, Ops!Iterate, destroy_at,
    Ops!destroy_at, TriviallyCopyable, Ops!TriviallyCopyable
<1>8. \A c : clear(c) = Ops!clear(c)
  BY <1>7 DEF clear, Ops!clear
<1>9. \A c : Elements(c) = Ops!Elements(c)
  BY DEF Elements, Ops!Elements
<1>10. \A c, items : AppendAll(c, items) = Ops!AppendAll(c, items)
  BY DEF AppendAll, Ops!AppendAll, Iterate, Ops!Iterate, push_back_internal,
    Ops!push_back_internal, construct_at, Ops!construct_at, TriviallyCopyable,
    Ops!TriviallyCopyable
<1>11. \A n, v : PlaceAll(n, v) = Ops!PlaceAll(n, v)
  BY DEF PlaceAll, Ops!PlaceAll, Iterate, Ops!Iterate, construct_at,
    Ops!construct_at, TriviallyCopyable, Ops!TriviallyCopyable
<1>12. \A c, n, v : ResizeTo(c, n, v) = Ops!ResizeTo(c, n, v)
  BY DEF ResizeTo, Ops!ResizeTo, Iterate, Ops!Iterate, push_back_internal,
    Ops!push_back_internal, construct_at, Ops!construct_at, drop_back,
    Ops!drop_back, destroy_at, Ops!destroy_at, TriviallyCopyable,
    Ops!TriviallyCopyable
<1>13. \A c, pos, n :
        advance_all_after_iterator_by_n(c, pos, n)
          = Ops!advance_all_after_iterator_by_n(c, pos, n)
  BY DEF advance_all_after_iterator_by_n, Ops!advance_all_after_iterator_by_n,
    uninitialized_relocate_backward, Ops!uninitialized_relocate_backward, CellsFrom,
    Ops!CellsFrom, Iterate, Ops!Iterate, relocate, Ops!relocate, construct_at,
    Ops!construct_at, destroy_at, Ops!destroy_at, MovedOut, Ops!MovedOut,
    TriviallyCopyable, Ops!TriviallyCopyable
<1>14. \A c, pos, v : InsertOne(c, pos, v) = Ops!InsertOne(c, pos, v)
  BY <1>1, <1>13 DEF InsertOne, Ops!InsertOne
<1>15. \A c, pos, i : InsertAliased(c, pos, i) = Ops!InsertAliased(c, pos, i)
  BY <1>1, <1>13 DEF InsertAliased, Ops!InsertAliased
<1>16. \A c, pos, items : InsertForward(c, pos, items) = Ops!InsertForward(c, pos, items)
  BY DEF InsertForward, Ops!InsertForward, advance_all_after_iterator_by_n,
    Ops!advance_all_after_iterator_by_n, uninitialized_relocate_backward,
    Ops!uninitialized_relocate_backward, CellsFrom, Ops!CellsFrom, Iterate,
    Ops!Iterate, relocate, Ops!relocate, construct_at, Ops!construct_at, destroy_at,
    Ops!destroy_at, MovedOut, Ops!MovedOut, TriviallyCopyable, Ops!TriviallyCopyable
<1>17. \A c, first, middle : rotate(c, first, middle) = Ops!rotate(c, first, middle)
  BY DEF rotate, Ops!rotate, Rearranged, Ops!Rearranged
<1>18. \A c, pos, items : InsertInput(c, pos, items) = Ops!InsertInput(c, pos, items)
  BY <1>17, <1>10 DEF InsertInput, Ops!InsertInput
<1>19. \A c, first, last : EraseRange(c, first, last) = Ops!EraseRange(c, first, last)
  BY <1>7 DEF EraseRange, Ops!EraseRange, uninitialized_relocate,
    Ops!uninitialized_relocate, CellsFrom, Ops!CellsFrom, Iterate, Ops!Iterate,
    relocate, Ops!relocate, move_assign, Ops!move_assign, construct_at,
    Ops!construct_at, destroy_at, Ops!destroy_at, destroy_range, Ops!destroy_range,
    MovedOut, Ops!MovedOut, IsConstantEvaluated, Ops!IsConstantEvaluated,
    TriviallyCopyable, Ops!TriviallyCopyable
<1>20. \A c, v : EraseValue(c, v) = Ops!EraseValue(c, v)
  BY <1>19, ZenonT(60) DEF EraseValue, Ops!EraseValue, Without, Ops!Without, Elements,
    Ops!Elements, Rearranged, Ops!Rearranged, MovedOut, Ops!MovedOut,
    TriviallyCopyable, Ops!TriviallyCopyable
<1>21. \A c : MovedOutElements(c) = Ops!MovedOutElements(c)
  BY DEF MovedOutElements, Ops!MovedOutElements, Rearranged, Ops!Rearranged,
    MovedOut, Ops!MovedOut, TriviallyCopyable, Ops!TriviallyCopyable
<1> QED  BY <1>1, <1>2, <1>5, <1>6, <1>8, <1>9, <1>10, <1>11, <1>12, <1>14, <1>15, <1>16,
  <1>17, <1>18, <1>19, <1>20, <1>21

(* And so are its calls. *)
LEMMA SameCalls ==
  ASSUME NEW o
  PROVE  /\ Construction(o) => Ops!Construction(o)
         /\ Lifetime(o) => Ops!Lifetime(o)
         /\ CommonCall(o) => Ops!CommonCall(o)
         /\ GrowingCall(o) => Ops!GrowingCall(o)
<1>1. /\ \A op, p : Call(op, p) = Ops!Call(op, p)
      /\ \A op, p, i, items : CallWith(op, p, i, items) = Ops!CallWith(op, p, i, items)
  BY DEF Call, Ops!Call, CallWith, Ops!CallWith
<1>2. \A c, ret, p, d : Returns(c, ret, p, d) <=> Ops!Returns(c, ret, p, d)
  BY DEF Returns, Ops!Returns
<1>3. \A c : Aborts(c) <=> Ops!Aborts(c)
  BY DEF Aborts, Ops!Aborts
<1>4. \A check, c, ret, p, d :
        Checked(check, c, ret, p, d) <=> Ops!Checked(check, c, ret, p, d)
  BY <1>2, <1>3 DEF Checked, Ops!Checked
<1>5. \A check, c, p, a : Reads(check, c, p, a) <=> Ops!Reads(check, c, p, a)
  BY <1>2, <1>3 DEF Reads, Ops!Reads
<1>6. \A p, n : HasRoomFor(p, n) <=> Ops!HasRoomFor(p, n)
  BY DEF HasRoomFor, Ops!HasRoomFor
<1>7. Construction(o) => Ops!Construction(o)
  BY <1>1, <1>2, <1>4, <1>5, <1>6, SameOperators DEF Construction, Ops!Construction,
    Construct, Ops!Construct, ConstructCount, Ops!ConstructCount, Fresh, Ops!Fresh,
    Ranges, Ops!Ranges, Counts, Ops!Counts
<1>8. Lifetime(o) => Ops!Lifetime(o)
  BY <1>1, <1>2, <1>4, <1>5, <1>6, SameOperators DEF Lifetime, Ops!Lifetime, Copy,
    Ops!Copy, Move, Ops!Move, MoveToItself, Ops!MoveToItself, Destroy, Ops!Destroy,
    Usable, Ops!Usable, TriviallyCopyable, Ops!TriviallyCopyable
<1>9. CommonCall(o) => Ops!CommonCall(o)
  BY <1>1, <1>2, <1>4, <1>5, <1>6, SameOperators DEF CommonCall, Ops!CommonCall,
    PopBack, Ops!PopBack, Front, Ops!Front, Back, Ops!Back, Clear, Ops!Clear, At,
    Ops!At, Erase, Ops!Erase, Resize, Ops!Resize, EraseAll, Ops!EraseAll, Usable,
    Ops!Usable, Positions, Ops!Positions, Counts, Ops!Counts, TriviallyCopyable,
    Ops!TriviallyCopyable
<1>10. GrowingCall(o) => Ops!GrowingCall(o)
  BY <1>1, <1>2, <1>4, <1>5, <1>6, SameOperators DEF GrowingCall, Ops!GrowingCall,
    PushBack, Ops!PushBack, PushBackElement, Ops!PushBackElement, Insert,
    Ops!Insert, InsertElement, Ops!InsertElement, InsertRange, Ops!InsertRange,
    InsertInputRange, Ops!InsertInputRange, AssignCount, Ops!AssignCount, Assign,
    Ops!Assign, Usable, Ops!Usable, Positions, Ops!Positions, Counts, Ops!Counts,
    Ranges, Ops!Ranges, PassableRange, Ops!PassableRange, TriviallyCopyable,
    Ops!TriviallyCopyable
<1> QED  BY <1>7, <1>8, <1>9, <1>10

-----------------------------------------------------------------------------
(* Raising start by one makes position k + 1 position k, and the first the *)
(* last.                                                                   *)
LEMMA PlacesShift ==
  ASSUME NEW c, NEW d, c.start \in Nat, d.start = c.start + 1
  PROVE  /\ \A k \in Nat : IteratorGet(d, k) = IteratorGet(c, k + 1)
         /\ IteratorGet(d, MAXIMUM_SIZE - 1) = IteratorGet(c, 0)
<1>1. /\ MAXIMUM_SIZE \in Nat /\ MAXIMUM_SIZE - 1 \in Nat /\ 0 \in Nat
      /\ MAXIMUM_SIZE = 1 * MAXIMUM_SIZE
  BY MaximumSizeIsPositive
<1>2. Origin(c) \in Nat /\ d.start \in Nat
  BY <1>1, Places
<1>3. Origin(d) = Origin(c) + 1
  <2>1. Complement(STARTING_OFFSET) \in Nat
    BY DriftStaysPositive, Complements
  <2> QED  BY <2>1 DEF Origin
<1>4. ASSUME NEW k \in Nat PROVE IteratorGet(d, k) = IteratorGet(c, k + 1)
  <2>1. k + 1 \in Nat /\ Origin(d) + k = Origin(c) + (k + 1)
    BY <1>2, <1>3
  <2>2. IteratorGet(d, k) = Wrapped(Origin(d) + k)
    BY <1>2, Places
  <2>3. IteratorGet(c, k + 1) = Wrapped(Origin(c) + (k + 1))
    BY <2>1, Places
  <2> QED  BY <2>1, <2>2, <2>3
<1>5. IteratorGet(d, MAXIMUM_SIZE - 1) = IteratorGet(c, 0)
  <2>1. (MAXIMUM_SIZE - 1) + 1 = MAXIMUM_SIZE /\ Origin(c) + 0 = Origin(c)
    BY <1>1, <1>2
  <2>2. IteratorGet(d, MAXIMUM_SIZE - 1) = IteratorGet(c, MAXIMUM_SIZE)
    BY <1>1, <1>4, <2>1
  <2>3. IteratorGet(c, MAXIMUM_SIZE) = Wrapped(Origin(c) + MAXIMUM_SIZE)
    BY <1>1, Places
  <2>4. IteratorGet(c, 0) = Wrapped(Origin(c))
    BY <1>1, <2>1, Places
  <2>5. Wrapped(Origin(c) + MAXIMUM_SIZE) = Wrapped(Origin(c))
    <3>1. 1 \in Int /\ Origin(c) + 1 * MAXIMUM_SIZE \in Nat
      BY <1>1, <1>2
    <3>2. Wrapped(Origin(c) + 1 * MAXIMUM_SIZE) = Wrapped(Origin(c))
      BY <1>2, <3>1, WrappedByCycles
    <3> QED  BY <1>1, <3>2
  <2> QED  BY <2>2, <2>3, <2>4, <2>5
<1> QED  BY <1>4, <1>5

LEMMA HoldsShifted ==
  ASSUME NEW c \in Deques, NEW d \in Deques, d.start = c.start + 1, d.cells = c.cells,
         d.ub = c.ub, NEW n \in Nat, n < MAXIMUM_SIZE
  PROVE  Ops!Holds(c, 1 .. n) <=> Ops!Holds(d, Ops!Upto(n))
<1> DEFINE M == MAXIMUM_SIZE
           C(k) == c.cells[IteratorGet(c, k)]
           D(k) == d.cells[IteratorGet(d, k)]
<1>1. c.start \in Nat /\ M \in Nat /\ M > 0
  BY MaximumSizeIsPositive DEF Deques
<1>2. (\A k \in Nat : D(k) = C(k + 1)) /\ D(M - 1) = C(0)
  BY <1>1, PlacesShift
<1>3. Ops!Cells = 0 .. M - 1 /\ Ops!Upto(n) = 0 .. n - 1
  BY DEF Ops!Cells, Ops!Upto
<1>4. /\ Ops!Holds(c, 1 .. n) <=>
           /\ c.ub = FALSE /\ \A p \in 1 .. n : C(p) \in Contents
           /\ ~Ops!TriviallyCopyable => \A p \in (0 .. M - 1) \ (1 .. n) : C(p) = Raw
      /\ Ops!Holds(d, Ops!Upto(n)) <=>
           /\ d.ub = FALSE /\ \A p \in 0 .. n - 1 : D(p) \in Contents
           /\ ~Ops!TriviallyCopyable => \A p \in (0 .. M - 1) \ (0 .. n - 1) : D(p) = Raw
  BY <1>3 DEF Ops!Holds
<1> HIDE DEF C, D
<1>5. (\A p \in 1 .. n : C(p) \in Contents) <=> (\A p \in 0 .. n - 1 : D(p) \in Contents)
  <2>1. ASSUME \A p \in 1 .. n : C(p) \in Contents, NEW p \in 0 .. n - 1 PROVE D(p) \in Contents
    <3>1. p \in Nat /\ p + 1 \in 1 .. n
      OBVIOUS
    <3> QED  BY <1>2, <2>1, <3>1
  <2>2. ASSUME \A p \in 0 .. n - 1 : D(p) \in Contents, NEW p \in 1 .. n PROVE C(p) \in Contents
    <3>1. p - 1 \in Nat /\ p - 1 \in 0 .. n - 1 /\ (p - 1) + 1 = p
      OBVIOUS
    <3> QED  BY <1>2, <2>2, <3>1
  <2> QED  BY <2>1, <2>2
<1>6. (\A p \in (0 .. M - 1) \ (1 .. n) : C(p) = Raw)
        <=> (\A p \in (0 .. M - 1) \ (0 .. n - 1) : D(p) = Raw)
  <2>1. ASSUME \A p \in (0 .. M - 1) \ (1 .. n) : C(p) = Raw,
               NEW p \in (0 .. M - 1) \ (0 .. n - 1)
        PROVE  D(p) = Raw
    <3>1. CASE p = M - 1
      <4>1. 0 \in (0 .. M - 1) \ (1 .. n)
        BY <1>1
      <4> QED  BY <1>2, <2>1, <3>1, <4>1
    <3>2. CASE p # M - 1
      <4>1. p \in Nat /\ p + 1 \in (0 .. M - 1) \ (1 .. n)
        BY <1>1, <3>2
      <4> QED  BY <1>2, <2>1, <4>1
    <3> QED  BY <3>1, <3>2
  <2>2. ASSUME \A p \in (0 .. M - 1) \ (0 .. n - 1) : D(p) = Raw,
               NEW p \in (0 .. M - 1) \ (1 .. n)
        PROVE  C(p) = Raw
    <3>1. CASE p = 0
      <4>1. M - 1 \in (0 .. M - 1) \ (0 .. n - 1)
        BY <1>1
      <4> QED  BY <1>2, <2>2, <3>1, <4>1
    <3>2. CASE p # 0
      <4>1. p - 1 \in Nat /\ p - 1 \in (0 .. M - 1) \ (0 .. n - 1) /\ (p - 1) + 1 = p
        BY <1>1, <3>2
      <4> QED  BY <1>2, <2>2, <4>1
    <3> QED  BY <3>1, <3>2
  <2> QED  BY <2>1, <2>2
<1> QED  BY <1>4, <1>5, <1>6

(* push_front. *)
LEMMA PlaceFrontIntact ==
  ASSUME NEW c, Ops!Intact(c), c.size < MAXIMUM_SIZE, c.start - 1 \in Nat, NEW v \in Contents
  PROVE  Ops!Intact(place_front(c, v)) /\ place_front(c, v).size = c.size + 1
<1> DEFINE d == [c EXCEPT !.start = @ - 1]
           b == Ops!construct_at(d, IteratorGet(d, 0), v)
           n == c.size
<1>1. /\ c \in Deques /\ Ops!Holds(c, Ops!Upto(n)) /\ n \in Nat /\ MAXIMUM_SIZE \in Nat
      /\ c.start \in Nat
  BY MaximumSizeIsPositive DEF Ops!Intact, Deques
<1>2. /\ d \in Deques /\ c.start = d.start + 1 /\ c.cells = d.cells /\ c.ub = d.ub
      /\ d.size = n /\ d.start \in Nat
  BY <1>1 DEF Deques
<1> HIDE DEF d
<1>3. Ops!Holds(d, 1 .. n)
  BY <1>1, <1>2, HoldsShifted
<1>4. place_front(c, v) = Ops!WithSize(b, b.size + 1)
  <2>1. front_index(d) = IteratorGet(d, 0)
    BY <1>1, <1>2, Ends
  <2>2. place_front(c, v) = [construct_at(d, front_index(d), v) EXCEPT !.size = @ + 1]
    BY DEF place_front, d
  <2> QED  BY <2>1, <2>2, SameOperators DEF Ops!WithSize
<1>5. /\ 1 .. n \in SUBSET Ops!Cells /\ 0 \in Ops!Cells /\ 0 \notin 1 .. n
      /\ (1 .. n) \cup {0} = Ops!Upto(n + 1) /\ 0 < MAXIMUM_SIZE
      /\ n + 1 \in 0 .. MAXIMUM_SIZE /\ Ops!Upto(n + 1) \in SUBSET Ops!Cells
  BY <1>1 DEF Ops!Cells, Ops!Upto
<1>6. Ops!Becomes(d, b, d.size, (1 .. n) \cup {0}, MAXIMUM_SIZE)
  BY <1>1, <1>2, <1>3, <1>5, DequeIsSound, Ops!ConstructAt
<1> HIDE DEF b
<1>7. b \in Deques /\ b.size = n /\ Ops!Holds(b, Ops!Upto(n + 1))
  BY <1>2, <1>5, <1>6 DEF Ops!Becomes
<1>8. Ops!Becomes(b, Ops!WithSize(b, n + 1), n + 1, Ops!Upto(n + 1), MAXIMUM_SIZE)
  BY <1>1, <1>5, <1>7, DequeIsSound, Ops!SetSize
<1> QED  BY <1>4, <1>7, <1>8, Ops!BecomesIntact

(* pop_front. *)
LEMMA DropFrontIntact ==
  ASSUME NEW c, Ops!Intact(c), c.size > 0
  PROVE  /\ Ops!Intact(drop_front(c)) /\ drop_front(c).size = c.size - 1
         /\ drop_front(c).start = c.start + 1
<1> DEFINE b == Ops!destroy_at(c, IteratorGet(c, 0))
           n == c.size - 1
           d == [b EXCEPT !.start = @ + 1, !.size = @ - 1]
<1>1. /\ c \in Deques /\ Ops!Holds(c, Ops!Upto(c.size)) /\ c.size \in Nat
      /\ c.size <= MAXIMUM_SIZE /\ MAXIMUM_SIZE \in Nat /\ c.start \in Nat
  BY MaximumSizeIsPositive DEF Ops!Intact, Deques
<1>2. drop_front(c) = d
  <2>1. front_index(c) = IteratorGet(c, 0)
    BY <1>1, Ends
  <2> QED  BY <2>1, SameOperators DEF drop_front
<1>3. /\ Ops!Upto(c.size) \in SUBSET Ops!Cells /\ 0 \in Ops!Upto(c.size)
      /\ Ops!Upto(c.size) \ {0} = 1 .. n /\ 0 < MAXIMUM_SIZE
      /\ n \in Nat /\ n < MAXIMUM_SIZE /\ n \in 0 .. MAXIMUM_SIZE
  BY <1>1 DEF Ops!Cells, Ops!Upto
<1>4. Ops!Becomes(c, b, c.size, Ops!Upto(c.size) \ {0}, MAXIMUM_SIZE)
  BY <1>1, <1>3, DequeIsSound, Ops!DestroyAt
<1> HIDE DEF b
<1>5. b \in Deques /\ b.size = c.size /\ Ops!Holds(b, 1 .. n)
  BY <1>3, <1>4 DEF Ops!Becomes
<1>6. b.start = c.start
  BY <1>1 DEF b, Deques, Ops!destroy_at
<1>7. d \in Deques /\ d.start = b.start + 1 /\ d.cells = b.cells /\ d.ub = b.ub /\ d.size = n
  <2> DEFINE e == [b EXCEPT !.start = @ + 1]
  <2>1. /\ e \in Deques /\ e.start = b.start + 1 /\ e.cells = b.cells /\ e.ub = b.ub
        /\ e.size = c.size
    BY <1>5 DEF Deques
  <2>2. d = [e EXCEPT !.size = n]
    BY <1>5
  <2> HIDE DEF e, d, n
  <2> QED  BY <1>3, <2>1, <2>2 DEF Deques
<1> HIDE DEF d
<1>8. Ops!Holds(d, Ops!Upto(n))
  BY <1>3, <1>5, <1>7, HoldsShifted
<1> QED  BY <1>2, <1>6, <1>7, <1>8 DEF Ops!Intact

-----------------------------------------------------------------------------
(* The inductive invariant: between two calls each deque holds its         *)
(* elements and nothing else, its start is a natural number, and no call   *)
(* has used a cell amiss.                                                  *)
DequeInv == Ops!AllIntact

(* The calls at the front. *)
LEMMA FrontCallIntact ==
  ASSUME Ops!AllIntact, NEW o \in Objects, UNCHANGED build,
         PopFront(o) \/ \E v \in Values : PushFront(o, v)
  PROVE  Ops!AllIntact'
<1>1. Usable(o) => Ops!Intact(objects[o])
  BY DEF Usable, Ops!AllIntact
<1>2. \A check, c, ret, d : Checked(check, c, ret, o, d) => Ops!Checked(check, c, ret, o, d)
  BY DEF Checked, Ops!Checked, Returns, Ops!Returns, Aborts, Ops!Aborts
<1>3. ASSUME NEW v \in Values, PushFront(o, v) PROVE Ops!AllIntact'
  <2> DEFINE c == objects[o]
  <2>1. Ops!Intact(c) /\ c.start - 1 \in Nat
    <3>1. Ops!Intact(c) /\ c.start - 1 \in Drifts
      BY <1>1, <1>3 DEF PushFront
    <3> QED  BY <3>1, DriftStaysPositive DEF Drifts
  <2>2. HasRoomFor(o, 1) => Ops!Intact(place_front(c, v))
    <3>1. c.size \in Nat /\ MAXIMUM_SIZE \in Nat /\ v \in Contents
      BY <2>1, MaximumSizeIsPositive DEF Ops!Intact, Deques, Contents
    <3>2. HasRoomFor(o, 1) => c.size < MAXIMUM_SIZE
      BY <3>1 DEF HasRoomFor
    <3> QED  BY <2>1, <3>1, <3>2, PlaceFrontIntact
  <2> QED  BY <1>2, <1>3, <2>2, DequeIsSound, Ops!CheckedIntact DEF PushFront
<1>4. ASSUME PopFront(o) PROVE Ops!AllIntact'
  <2>1. objects[o].size > 0 => Ops!Intact(drop_front(objects[o]))
    BY <1>1, <1>4, DropFrontIntact DEF PopFront
  <2> QED  BY <1>2, <1>4, <2>1, DequeIsSound, Ops!CheckedIntact DEF PopFront
<1> QED  BY <1>3, <1>4

LEMMA DequeInvHolds ==
  ASSUME ~EmptyRanges, ~AliasMovedElements
  PROVE  Spec => []DequeInv
<1>1. Ops!Sound /\ Ops!CarefulClients
  BY DequeIsSound, MaxRangeIsNat DEF Ops!CarefulClients
<1>2. Init => DequeInv
  <2>1. Init => Ops!Init
    BY DEF Init, Ops!Init, Call, Ops!Call
  <2> QED  BY <2>1, Ops!InitIntact DEF DequeInv
<1>3. DequeInv /\ [Next]_vars => DequeInv'
  <2> SUFFICES ASSUME Ops!AllIntact, [Next]_vars PROVE Ops!AllIntact'
    BY DEF DequeInv
  <2>1. ASSUME NEW o \in Objects, Construction(o), UNCHANGED build PROVE Ops!AllIntact'
    BY <1>1, <2>1, SameCalls, Ops!ConstructionIntact
  <2>2. ASSUME NEW o \in Objects, Lifetime(o), UNCHANGED build PROVE Ops!AllIntact'
    BY <1>1, <2>2, SameCalls, Ops!LifetimeIntact
  <2>3. ASSUME NEW o \in Objects, CommonCall(o), UNCHANGED build PROVE Ops!AllIntact'
    BY <1>1, <2>3, SameCalls, Ops!CommonCallIntact
  <2>4. ASSUME NEW o \in Objects, GrowingCall(o), UNCHANGED build PROVE Ops!AllIntact'
    BY <1>1, <2>4, SameCalls, Ops!GrowingCallIntact
  <2>5. ASSUME NEW o \in Objects, PopFront(o) \/ \E v \in Values : PushFront(o, v), UNCHANGED build
        PROVE  Ops!AllIntact'
    BY <2>5, FrontCallIntact
  <2>6. ASSUME NEW o \in Objects, QueueCall(o), UNCHANGED build PROVE Ops!AllIntact'
    <3>1. PopFront(o) \/ CommonCall(o) \/ GrowingCall(o)
      BY <2>6 DEF QueueCall, QueuePop, QueueFront, QueueBack, QueuePush, CommonCall, GrowingCall
    <3> QED  BY <2>3, <2>4, <2>5, <2>6, <3>1
  <2>7. ASSUME UNCHANGED vars PROVE Ops!AllIntact'
    BY <2>7, Ops!StutterIntact DEF vars, Ops!vars
  <2>8. ASSUME Halted PROVE Ops!AllIntact'
    BY <2>7, <2>8 DEF Halted
  <2> QED  BY <2>1, <2>2, <2>3, <2>4, <2>5, <2>6, <2>7, <2>8 DEF Next
<1> QED  BY <1>2, <1>3, PTL DEF Spec

LEMMA DequeInvMeansLive ==
  DequeInv => LifetimesRespected /\ LiveCellsAreElements
BY DequeIsSound, Ops!IntactMeansLive
DEF DequeInv, LifetimesRespected, Ops!LifetimesRespected, LiveCellsAreElements,
  Ops!LiveCellsAreElements, ElementCells, Ops!ElementCells, Cells, Ops!Cells,
  TriviallyCopyable, Ops!TriviallyCopyable

LEMMA DequeInvMeansIndexing ==
  DequeInv => IndexingAgrees
<1> SUFFICES ASSUME DequeInv, NEW o \in Objects, objects[o] # NoObject
             PROVE  LET c == objects[o] IN
               /\ \A k \in 0 .. c.size - 1 : AtAdjusted(c, k) = IteratorGet(c, k)
               /\ \A k, m \in 0 .. c.size - 1 : IteratorGet(c, k) = IteratorGet(c, m) => k = m
               /\ c.size > 0 => back_index(c) = IteratorGet(c, c.size - 1)
               /\ c.size < MAXIMUM_SIZE => end_index(c) \notin ElementCells(c)
  BY DEF IndexingAgrees
<1> DEFINE c == objects[o]
<1>1. c \in Deques
  BY DEF DequeInv, Ops!AllIntact, Ops!Intact
<1>2. /\ c.start \in Nat /\ c.size \in Nat /\ c.size <= MAXIMUM_SIZE /\ MAXIMUM_SIZE \in Nat
  BY <1>1, MaximumSizeIsPositive DEF Deques
<1> HIDE DEF c
<1>3. /\ \A k \in 0 .. c.size - 1 : k \in Nat /\ k \in Ops!Cells /\ k # c.size
      /\ c.size < MAXIMUM_SIZE => c.size \in Ops!Cells
  BY <1>2 DEF Ops!Cells
<1>4. \A k \in 0 .. c.size - 1 : AtAdjusted(c, k) = IteratorGet(c, k)
  BY <1>2, <1>3, Places
<1>5. \A j, k \in Ops!Cells : IteratorGet(c, j) = IteratorGet(c, k) => j = k
  BY <1>2, PlacesAreCells
<1>6. end_index(c) = IteratorGet(c, c.size)
      /\ (c.size > 0 => back_index(c) = IteratorGet(c, c.size - 1))
  BY <1>2, Ends
<1>7. c.size < MAXIMUM_SIZE => end_index(c) \notin ElementCells(c)
  BY <1>3, <1>5, <1>6 DEF ElementCells
<1> QED  BY <1>3, <1>4, <1>5, <1>6, <1>7 DEF c

(* No member of FixedDeque constructs over a live element or destroys or   *)
(* reads a cell that holds none, for every capacity and wherever start has *)
(* drifted to.  The clients are those of FixedVector's theorem.            *)
THEOREM DequeLifetimes ==
  ASSUME ~EmptyRanges, ~AliasMovedElements
  PROVE  Spec => []LifetimesRespected
<1>1. Spec => []DequeInv
  BY DequeInvHolds
<1> QED  BY <1>1, DequeInvMeansLive, PTL

(* After every call the live elements of a FixedDeque are those in         *)
(* begin() .. end(), around the end of the array too.                      *)
THEOREM DequeLiveCells ==
  ASSUME ~EmptyRanges, ~AliasMovedElements
  PROVE  Spec => []LiveCellsAreElements
<1>1. Spec => []DequeInv
  BY DequeInvHolds
<1> QED  BY <1>1, DequeInvMeansLive, PTL

(* at(k), the iterator to position k, back_index and end_index, which wrap *)
(* in different ways, agree for every capacity and every drift of start,   *)
(* and no two positions share a cell.                                      *)
THEOREM DequeIndexing ==
  ASSUME ~EmptyRanges, ~AliasMovedElements
  PROVE  Spec => []IndexingAgrees
<1>1. Spec => []DequeInv
  BY DequeInvHolds
<1> QED  BY <1>1, DequeInvMeansIndexing, PTL

-----------------------------------------------------------------------------
(* The circular deque.  What its members make room with, and where start   *)
(* is afterwards.                                                          *)
LEMMA AppendedAtEnd ==
  ASSUME NEW c, Ops!Intact(c), c.size < MAXIMUM_SIZE, NEW v \in Contents
  PROVE  /\ Ops!Intact(push_back_internal(c, v))
         /\ push_back_internal(c, v).size = c.size + 1
         /\ push_back_internal(c, v).start = c.start
<1> DEFINE d == Ops!push_back_internal(c, v)
<1>1. Ops!Becomes(c, d, c.size + 1, Ops!Upto(c.size + 1), c.size + 1)
  BY DequeIsSound, Ops!PushBackInternal
<1>2. d.start = c.start
  BY DEF Ops!Intact, Deques, Ops!push_back_internal, Ops!construct_at
<1> HIDE DEF d
<1>3. Ops!Intact(d) /\ d.size = c.size + 1
  BY <1>1, Ops!BecomesIntact
<1> QED  BY <1>2, <1>3, SameOperators DEF d

LEMMA RoomInFront ==
  ASSUME NEW c, Ops!Intact(c)
  PROVE  /\ c.size \in Nat /\ c.start \in Nat /\ MAXIMUM_SIZE \in Nat /\ MAXIMUM_SIZE > 0
         /\ c.size <= MAXIMUM_SIZE /\ (is_full(c) <=> c.size = MAXIMUM_SIZE)
         /\ Ops!Intact(pop_front_if_full(c)) /\ pop_front_if_full(c).size < MAXIMUM_SIZE
         /\ is_full(c) => /\ pop_front_if_full(c).size = MAXIMUM_SIZE - 1
                          /\ pop_front_if_full(c).start = c.start + 1
         /\ ~is_full(c) => pop_front_if_full(c) = c
<1>1. /\ c.size \in Nat /\ c.start \in Nat /\ MAXIMUM_SIZE \in Nat /\ MAXIMUM_SIZE > 0
      /\ c.size <= MAXIMUM_SIZE
  BY MaximumSizeIsPositive DEF Ops!Intact, Deques
<1>2. is_full(c) <=> c.size = MAXIMUM_SIZE
  BY <1>1 DEF is_full
<1>3. CASE is_full(c)
  <2>1. pop_front_if_full(c) = drop_front(c) /\ c.size > 0
    BY <1>1, <1>2, <1>3 DEF pop_front_if_full
  <2>2. /\ Ops!Intact(drop_front(c)) /\ drop_front(c).size = c.size - 1
        /\ drop_front(c).start = c.start + 1
    BY <2>1, DropFrontIntact
  <2> QED  BY <1>1, <1>2, <1>3, <2>1, <2>2
<1>4. CASE ~is_full(c)
  BY <1>1, <1>2, <1>4 DEF pop_front_if_full
<1> QED  BY <1>1, <1>2, <1>3, <1>4

(* push_back: either start or the size grows by one. *)
LEMMA PushedWithRoom ==
  ASSUME NEW c, Ops!Intact(c), NEW v \in Contents
  PROVE  LET d == push_back_internal(pop_front_if_full(c), v) IN
         /\ Ops!Intact(d) /\ d.start \in Nat /\ d.size \in Nat /\ d.size > 0
         /\ d.start + d.size = (c.start + c.size) + 1
         /\ d.start = IF is_full(c) THEN c.start + 1 ELSE c.start
<1> DEFINE r == pop_front_if_full(c)
           d == push_back_internal(r, v)
<1>1. /\ c.size \in Nat /\ c.start \in Nat /\ MAXIMUM_SIZE \in Nat
      /\ is_full(c) <=> c.size = MAXIMUM_SIZE
      /\ Ops!Intact(r) /\ r.size < MAXIMUM_SIZE
      /\ is_full(c) => r.size = MAXIMUM_SIZE - 1 /\ r.start = c.start + 1
      /\ ~is_full(c) => r = c
  BY RoomInFront
<1> HIDE DEF r
<1>2. Ops!Intact(d) /\ d.size = r.size + 1 /\ d.start = r.start
  BY <1>1, AppendedAtEnd
<1> HIDE DEF d
<1>3. r.size \in Nat /\ r.start \in Nat
  BY <1>1, RoomInFront
<1> QED  BY <1>1, <1>2, <1>3 DEF d, r

(* push_front: only start - 1 has to be left. *)
LEMMA PushedInFront ==
  ASSUME NEW c, Ops!Intact(c), NEW v \in Contents, Within(place_front(pop_back_if_full(c), v))
  PROVE  Ops!Intact(place_front(pop_back_if_full(c), v))
<1> DEFINE r == pop_back_if_full(c)
<1>1. /\ c.size \in Nat /\ MAXIMUM_SIZE \in Nat /\ MAXIMUM_SIZE > 0 /\ c.size <= MAXIMUM_SIZE
      /\ is_full(c) <=> c.size = MAXIMUM_SIZE
  BY RoomInFront
<1>2. Ops!Intact(r) /\ r.size < MAXIMUM_SIZE
  <2>1. CASE is_full(c)
    <3>1. r = Ops!drop_back(c) /\ c.size > 0
      BY <1>1, <2>1, SameOperators DEF pop_back_if_full
    <3>2. Ops!Becomes(c, r, c.size - 1, Ops!Upto(c.size - 1), c.size)
      BY <3>1, DequeIsSound, Ops!DropBack
    <3>3. Ops!Intact(r) /\ r.size = c.size - 1
      BY <3>2, Ops!BecomesIntact
    <3> QED  BY <1>1, <3>3
  <2>2. CASE ~is_full(c)
    BY <1>1, <2>2 DEF pop_back_if_full
  <2> QED  BY <2>1, <2>2
<1> HIDE DEF r
<1>3. r.start \in Nat /\ place_front(r, v).start = r.start - 1
  BY <1>2 DEF place_front, construct_at, Ops!Intact, Deques
<1>4. r.start - 1 \in Nat
  BY <1>3, DriftStaysPositive DEF Within, Drifts, r
<1> QED  BY <1>2, <1>4, PlaceFrontIntact DEF r

(* insert_internal drops what is in excess one by one. *)
DroppedFront(c, n) == Iterate(n, c, LAMBDA x, k : drop_front(x))

LEMMA DroppedFrontIntact ==
  ASSUME NEW c, Ops!Intact(c), NEW n \in Nat, n <= c.size
  PROVE  Ops!Intact(DroppedFront(c, n)) /\ DroppedFront(c, n).size = c.size - n
<1> DEFINE N == n
           S(x, k) == drop_front(x)
           Body(f) == [k \in 0 .. N |-> IF k = 0 THEN c ELSE S(f[k - 1], k - 1)]
           loop == CHOOSE f : f = Body(f)
           X == [k \in 0 .. N |-> {x \in Deques : Ops!Intact(x) /\ x.size = c.size - k}]
           F == [k \in 1 .. N |-> [x \in X[k - 1] |-> S(x, k - 1)]]
<1>1. DroppedFront(c, n) = loop[N]
  BY DEF DroppedFront, Iterate
<1>2. N \in Nat /\ c.size \in Nat /\ c \in Deques
  BY RoomInFront DEF Ops!Intact
<1>3. c \in X[0]
  BY <1>2
<1>4. ASSUME NEW k \in 1 .. N, NEW x \in X[k - 1] PROVE S(x, k - 1) \in X[k]
  <2>1. k - 1 \in 0 .. N /\ k \in 0 .. N /\ c.size - (k - 1) > 0
        /\ (c.size - (k - 1)) - 1 = c.size - k
    BY <1>2
  <2>2. Ops!Intact(x) /\ x.size = c.size - (k - 1)
    BY <2>1
  <2> DEFINE d == drop_front(x)
  <2>3. Ops!Intact(d) /\ d.size = x.size - 1
    BY <2>1, <2>2, DropFrontIntact
  <2> HIDE DEF d
  <2>4. d \in X[k]
    BY <2>1, <2>2, <2>3 DEF Ops!Intact
  <2> QED  BY <2>4 DEF d
<1>5. ASSUME NEW f, Ops!SolvesLoop(f, c, X, F, N) PROVE Ops!RunsLoop(loop, c, X, F, N)
  <2>1. \A k \in 1 .. N : \A x \in X[k - 1] : F[k][x] = S(x, k - 1)
    OBVIOUS
  <2>2. \A k \in 0 .. N : k # 0 <=> k \in 1 .. N
    BY <1>2
  <2>3. 0 \in 0 .. N /\ \A k \in 1 .. N : k \in 0 .. N /\ k - 1 \in 0 .. N
    BY <1>2
  <2> HIDE DEF X, F, S, N
  <2>4. f = Body(f)
    BY <1>5, <2>1, <2>2, <2>3 DEF Ops!SolvesLoop
  <2> HIDE DEF Body
  <2>5. loop = Body(loop)
    BY <2>4
  <2> HIDE DEF loop
  <2> USE DEF Body
  <2> QED  BY <2>1, <2>2, <2>3, <2>5 DEF Ops!RunsLoop
<1>6. loop[N] \in X[N] /\ N \in 0 .. N
  <2>1. \A k \in 1 .. N : \A x \in X[k - 1] : F[k][x] \in X[k]
    BY <1>4
  <2>2. N \in 0 .. N
    BY <1>2
  <2> HIDE DEF X, F, N, loop
  <2>3. loop[N] \in X[N]
    BY <1>2, <1>3, <1>5, <2>1, Ops!LoopEnds
  <2> QED  BY <2>2, <2>3
<1> HIDE DEF loop
<1> QED  BY <1>1, <1>6

LEMMA PartOfRange ==
  ASSUME NEW n \in Nat, NEW s \in [1 .. n -> Contents], NEW m \in 1 .. n + 1
  PROVE  /\ Len(s) = n
         /\ SubSeq(s, m, n) \in [1 .. n - m + 1 -> Contents]
         /\ Len(SubSeq(s, m, n)) = n - m + 1
<1>1. \A i \in m .. n : s[i] \in Contents
  OBVIOUS
<1>2. m \in Int /\ n \in Int
  OBVIOUS
<1>3. /\ SubSeq(s, m, n) \in Seq(Contents)
      /\ Len(SubSeq(s, m, n)) = IF m <= n THEN n - m + 1 ELSE 0
  BY <1>1, <1>2, SubSeqProperties
<1>4. Len(SubSeq(s, m, n)) = n - m + 1
  BY <1>3
<1> HIDE DEF Contents
<1>5. SubSeq(s, m, n) \in [1 .. Len(SubSeq(s, m, n)) -> Contents]
  BY <1>3, LenProperties
<1> QED  BY <1>4, <1>5

(* Of n new elements and z old ones, e are in excess; insert_internal drops *)
(* old ones in front of pos and keeps m new ones.                          *)
Splits(z, pos, n, e, drop, m) ==
  /\ e = IF z + n > MAXIMUM_SIZE THEN z + n - MAXIMUM_SIZE ELSE 0
  /\ drop = IF e < pos THEN e ELSE pos
  /\ m = n - (e - drop)

LEMMA ExcessIsDropped ==
  ASSUME NEW z \in Nat, z <= MAXIMUM_SIZE, NEW pos \in Nat, pos <= z, NEW n \in Nat,
         NEW e, NEW drop, NEW m, Splits(z, pos, n, e, drop, m)
  PROVE  /\ drop \in Nat /\ drop <= z /\ pos - drop \in Nat /\ m \in Nat
         /\ 1 + e - drop \in 1 .. n + 1 /\ n - (1 + e - drop) + 1 = m
         /\ (z - drop) + m <= MAXIMUM_SIZE /\ pos - drop <= z - drop
         /\ n > 0 /\ (pos > 0 \/ z < MAXIMUM_SIZE) => m > 0
<1> DEFINE M == MAXIMUM_SIZE
<1>0. M \in Nat /\ e = (IF z + n > M THEN z + n - M ELSE 0)
      /\ drop = (IF e < pos THEN e ELSE pos) /\ m = n - (e - drop)
  BY MaximumSizeIsPositive DEF Splits
<1> HIDE DEF M
<1>1. e \in Nat /\ e <= n /\ (z + n) - e <= M /\ (e > 0 => (z + n) - e = M)
  <2>1. CASE z + n > M
    BY <1>0, <2>1 DEF M
  <2>2. CASE ~(z + n > M)
    BY <1>0, <2>2 DEF M
  <2> QED  BY <2>1, <2>2
<1>2. CASE e < pos
  <2>1. drop = e /\ m = n
    BY <1>0, <1>1, <1>2
  <2> QED  BY <1>0, <1>1, <1>2, <2>1 DEF M
<1>3. CASE ~(e < pos)
  <2>1. drop = pos
    BY <1>0, <1>3
  <2> QED  BY <1>0, <1>1, <1>3, <2>1 DEF M
<1> QED  BY <1>2, <1>3

(* insert of a forward range. *)
LEMMA InsertDroppingIntact ==
  ASSUME NEW c, Ops!Intact(c), NEW pos \in Nat, pos <= c.size,
         NEW n \in Nat, NEW items \in [1 .. n -> Contents],
         \/ n > 0 /\ (pos > 0 \/ ~is_full(c))
         \/ pos = c.size
         \/ Ops!TriviallyCopyable
  PROVE  Ops!Intact(InsertDropping(c, pos, items))
<1> DEFINE e == Excess(c, items)
           drop == IF e < pos THEN e ELSE pos
           d == DroppedFront(c, drop)
           rest == SubSeq(items, 1 + e - drop, Len(items))
           m == n - (e - drop)
<1>1. /\ c.size \in Nat /\ MAXIMUM_SIZE \in Nat /\ c.size <= MAXIMUM_SIZE
      /\ is_full(c) <=> c.size = MAXIMUM_SIZE
  BY RoomInFront
<1>2. Len(items) = n
  OBVIOUS
<1>3. e = IF c.size + n > MAXIMUM_SIZE THEN c.size + n - MAXIMUM_SIZE ELSE 0
  BY <1>2 DEF Excess
<1>4. InsertDropping(c, pos, items) = Ops!InsertForward(d, pos - drop, rest)
  BY SameOperators DEF InsertDropping, DropExcess, DroppedFront
<1>5. /\ drop \in Nat /\ drop <= c.size /\ pos - drop \in Nat /\ m \in Nat
      /\ 1 + e - drop \in 1 .. n + 1 /\ n - (1 + e - drop) + 1 = m
      /\ (c.size - drop) + m <= MAXIMUM_SIZE /\ pos - drop <= c.size - drop
      /\ n > 0 /\ (pos > 0 \/ c.size < MAXIMUM_SIZE) => m > 0
  <2>1. Splits(c.size, pos, n, e, drop, m)
    BY <1>3 DEF Splits
  <2> HIDE DEF e, drop, m
  <2> QED  BY <1>1, <2>1, ExcessIsDropped
<1>6. m > 0 \/ pos - drop = c.size - drop \/ Ops!TriviallyCopyable
  <2> HIDE DEF e, drop, m
  <2> QED  BY <1>1, <1>5
<1> HIDE DEF e, drop, m
<1>7. rest \in [1 .. m -> Contents]
  BY <1>2, <1>5, PartOfRange
<1>8. Ops!Intact(d) /\ d.size = c.size - drop
  BY <1>5, DroppedFrontIntact
<1> HIDE DEF d, rest
<1>9. Ops!Becomes(d, Ops!InsertForward(d, pos - drop, rest), d.size + m,
                  Ops!Upto(d.size + m), d.size + m)
  BY <1>5, <1>6, <1>7, <1>8, DequeIsSound, Ops!InsertForwardKeepsIntact
<1> QED  BY <1>4, <1>9, Ops!BecomesIntact

(* assign from input iterators. *)
PushedAll(c, items) ==
  Iterate(Len(items), c, LAMBDA x, k :
    push_back_internal(pop_front_if_full(x), items[k + 1]))

LEMMA PushedAllIntact ==
  ASSUME NEW c, Ops!Intact(c), NEW n \in Nat, NEW items \in [1 .. n -> Contents]
  PROVE  Ops!Intact(PushedAll(c, items))
<1> DEFINE N == n
           S(x, k) == push_back_internal(pop_front_if_full(x), items[k + 1])
           Body(f) == [k \in 0 .. N |-> IF k = 0 THEN c ELSE S(f[k - 1], k - 1)]
           loop == CHOOSE f : f = Body(f)
           X == [k \in 0 .. N |-> {x \in Deques : Ops!Intact(x)}]
           F == [k \in 1 .. N |-> [x \in X[k - 1] |-> S(x, k - 1)]]
<1>1. PushedAll(c, items) = loop[N]
  <2>1. Len(items) = n
    OBVIOUS
  <2> QED  BY <2>1 DEF PushedAll, Iterate
<1>2. N \in Nat
  OBVIOUS
<1>3. c \in X[0]
  BY <1>2 DEF Ops!Intact
<1>4. ASSUME NEW k \in 1 .. N, NEW x \in X[k - 1] PROVE S(x, k - 1) \in X[k]
  <2>1. k - 1 \in 0 .. N /\ k \in 0 .. N /\ (k - 1) + 1 = k /\ items[k] \in Contents
    BY <1>2
  <2> DEFINE d == push_back_internal(pop_front_if_full(x), items[k])
  <2>2. Ops!Intact(d)
    BY <2>1, PushedWithRoom
  <2> HIDE DEF d
  <2>3. d \in X[k]
    BY <2>1, <2>2 DEF Ops!Intact
  <2> QED  BY <2>1, <2>3 DEF d
<1>5. ASSUME NEW f, Ops!SolvesLoop(f, c, X, F, N) PROVE Ops!RunsLoop(loop, c, X, F, N)
  <2>1. \A k \in 1 .. N : \A x \in X[k - 1] : F[k][x] = S(x, k - 1)
    OBVIOUS
  <2>2. \A k \in 0 .. N : k # 0 <=> k \in 1 .. N
    BY <1>2
  <2>3. 0 \in 0 .. N /\ \A k \in 1 .. N : k \in 0 .. N /\ k - 1 \in 0 .. N
    BY <1>2
  <2> HIDE DEF X, F, S, N
  <2>4. f = Body(f)
    BY <1>5, <2>1, <2>2, <2>3 DEF Ops!SolvesLoop
  <2> HIDE DEF Body
  <2>5. loop = Body(loop)
    BY <2>4
  <2> HIDE DEF loop
  <2> USE DEF Body
  <2> QED  BY <2>1, <2>2, <2>3, <2>5 DEF Ops!RunsLoop
<1>6. loop[N] \in X[N] /\ N \in 0 .. N
  <2>1. \A k \in 1 .. N : \A x \in X[k - 1] : F[k][x] \in X[k]
    BY <1>4
  <2>2. N \in 0 .. N
    BY <1>2
  <2> HIDE DEF X, F, N, loop
  <2>3. loop[N] \in X[N]
    BY <1>2, <1>3, <1>5, <2>1, Ops!LoopEnds
  <2> QED  BY <2>2, <2>3
<1> HIDE DEF loop
<1> QED  BY <1>1, <1>6

(* The loop of insert_internal for input iterators: first_it and middle_it *)
(* stay between begin() and end(), and once an element was placed there is *)
(* one from middle_it on.                                                  *)
PlacingStates ==
  {s \in [deque : Deques, first : Nat, middle : Nat, placed : Nat, stopped : BOOLEAN] :
     /\ Ops!Intact(s.deque)
     /\ s.deque.start <= s.first /\ s.first <= s.middle
     /\ s.middle <= s.deque.start + s.deque.size
     /\ s.placed > 0 => s.middle < s.deque.start + s.deque.size}

LEMMA PlaceNextKeepsState ==
  ASSUME NEW s \in PlacingStates, NEW barrier, NEW v \in Contents
  PROVE  /\ PlaceNext(s, barrier, v) \in PlacingStates
         /\ PlaceNext(s, barrier, v).placed <= s.placed + 1
<1> DEFINE c == s.deque
           d == push_back_internal(pop_front_if_full(c), v)
           dropping == is_full(c) /\ c.start = s.first
           first == IF dropping THEN s.first + 1 ELSE s.first
           middle == IF dropping /\ s.first = s.middle THEN s.middle + 1 ELSE s.middle
           t == [deque |-> d, first |-> first, middle |-> middle,
                 placed |-> s.placed + 1, stopped |-> FALSE]
<1>1. /\ Ops!Intact(c) /\ s.first \in Nat /\ s.middle \in Nat /\ s.placed \in Nat
      /\ c.start <= s.first /\ s.first <= s.middle /\ s.middle <= c.start + c.size
      /\ c.start \in Nat /\ c.size \in Nat
  BY RoomInFront DEF PlacingStates
<1>2. /\ Ops!Intact(d) /\ d.start \in Nat /\ d.size \in Nat /\ d.size > 0
      /\ d.start + d.size = (c.start + c.size) + 1
      /\ d.start = IF is_full(c) THEN c.start + 1 ELSE c.start
  BY <1>1, PushedWithRoom
<1>3. PlaceNext(s, barrier, v) = t \/ PlaceNext(s, barrier, v) = [s EXCEPT !.stopped = TRUE]
  BY DEF PlaceNext
<1>4. [s EXCEPT !.stopped = TRUE] \in PlacingStates
  BY DEF PlacingStates
<1>5. [s EXCEPT !.stopped = TRUE].placed <= s.placed + 1
  BY <1>1 DEF PlacingStates
<1> HIDE DEF d
<1>6. /\ first \in Nat /\ middle \in Nat /\ d.start <= first /\ first <= middle
      /\ middle < d.start + d.size
  <2>1. CASE ~is_full(c)
    BY <1>1, <1>2, <2>1
  <2>2. CASE is_full(c) /\ c.start # s.first
    BY <1>1, <1>2, <2>2
  <2>3. CASE is_full(c) /\ c.start = s.first /\ s.first # s.middle
    BY <1>1, <1>2, <2>3
  <2>4. CASE is_full(c) /\ c.start = s.first /\ s.first = s.middle
    BY <1>1, <1>2, <2>4
  <2> QED  BY <2>1, <2>2, <2>3, <2>4
<1> HIDE DEF first, middle
<1>7. t \in PlacingStates /\ t.placed <= s.placed + 1
  <2>1. d \in Deques /\ s.placed + 1 \in Nat /\ middle <= d.start + d.size
    BY <1>1, <1>2, <1>6 DEF Ops!Intact
  <2> QED  BY <1>1, <1>2, <1>6, <2>1 DEF PlacingStates
<1> HIDE DEF t
<1> QED  BY <1>3, <1>4, <1>5, <1>7

LEMMA PlaceAtEndKeepsState ==
  ASSUME NEW c, Ops!Intact(c), NEW pos \in Nat, pos <= c.size,
         NEW n \in Nat, NEW items \in [1 .. n -> Contents]
  PROVE  PlaceAtEnd(c, pos, items) \in PlacingStates /\ PlaceAtEnd(c, pos, items).placed <= n
<1> DEFINE barrier == IF pos = c.size THEN -1 ELSE c.start + pos
           start == [deque |-> c, first |-> c.start + pos, middle |-> c.start + c.size,
                     placed |-> 0, stopped |-> FALSE]
<1> DEFINE N == n
           S(x, k) == PlaceNext(x, barrier, items[k + 1])
           Body(f) == [k \in 0 .. N |-> IF k = 0 THEN start ELSE S(f[k - 1], k - 1)]
           loop == CHOOSE f : f = Body(f)
           X == [k \in 0 .. N |-> {x \in PlacingStates : x.placed <= k}]
           F == [k \in 1 .. N |-> [x \in X[k - 1] |-> S(x, k - 1)]]
<1>1. PlaceAtEnd(c, pos, items) = loop[N]
  <2>1. Len(items) = n
    OBVIOUS
  <2> QED  BY <2>1 DEF PlaceAtEnd, Iterate
<1>2. N \in Nat
  OBVIOUS
<1>3. start \in X[0]
  <2>1. c.start \in Nat /\ c.size \in Nat /\ c \in Deques
    BY RoomInFront DEF Ops!Intact
  <2>2. start \in PlacingStates /\ start.placed = 0
    BY <2>1 DEF PlacingStates
  <2> HIDE DEF start
  <2> QED  BY <1>2, <2>2
<1> HIDE DEF barrier, start
<1>4. ASSUME NEW k \in 1 .. N, NEW x \in X[k - 1] PROVE S(x, k - 1) \in X[k]
  <2>1. k - 1 \in 0 .. N /\ k \in 0 .. N /\ (k - 1) + 1 = k /\ items[k] \in Contents
    BY <1>2
  <2>2. x \in PlacingStates /\ x.placed <= k - 1 /\ x.placed \in Nat
    BY <2>1 DEF PlacingStates
  <2> DEFINE t == PlaceNext(x, barrier, items[k])
  <2>3. t \in PlacingStates /\ t.placed <= x.placed + 1
    BY <2>1, <2>2, PlaceNextKeepsState
  <2> HIDE DEF t
  <2>4. t.placed <= k
    <3>1. t.placed \in Nat
      BY <2>3 DEF PlacingStates
    <3> QED  BY <2>1, <2>2, <2>3, <3>1
  <2>5. t \in X[k]
    BY <2>1, <2>3, <2>4
  <2> QED  BY <2>1, <2>5 DEF t
<1>5. ASSUME NEW f, Ops!SolvesLoop(f, start, X, F, N) PROVE Ops!RunsLoop(loop, start, X, F, N)
  <2>1. \A k \in 1 .. N : \A x \in X[k - 1] : F[k][x] = S(x, k - 1)
    OBVIOUS
  <2>2. \A k \in 0 .. N : k # 0 <=> k \in 1 .. N
    BY <1>2
  <2>3. 0 \in 0 .. N /\ \A k \in 1 .. N : k \in 0 .. N /\ k - 1 \in 0 .. N
    BY <1>2
  <2> HIDE DEF X, F, S, N
  <2>4. f = Body(f)
    BY <1>5, <2>1, <2>2, <2>3 DEF Ops!SolvesLoop
  <2> HIDE DEF Body
  <2>5. loop = Body(loop)
    BY <2>4
  <2> HIDE DEF loop
  <2> USE DEF Body
  <2> QED  BY <2>1, <2>2, <2>3, <2>5 DEF Ops!RunsLoop
<1>6. loop[N] \in X[N] /\ N \in 0 .. N
  <2>1. \A k \in 1 .. N : \A x \in X[k - 1] : F[k][x] \in X[k]
    BY <1>4
  <2>2. N \in 0 .. N
    BY <1>2
  <2> HIDE DEF X, F, N, loop
  <2>3. loop[N] \in X[N]
    BY <1>2, <1>3, <1>5, <2>1, Ops!LoopEnds
  <2> QED  BY <2>2, <2>3
<1> HIDE DEF loop
<1> QED  BY <1>1, <1>6

LEMMA RotatedIntact ==
  ASSUME NEW c, Ops!Intact(c), NEW first \in Nat, NEW middle \in Nat,
         first <= middle, middle <= c.size
  PROVE  /\ Ops!Intact(rotate(c, first, middle)) /\ rotate(c, first, middle).size = c.size
         /\ rotate(c, first, middle).start = c.start
<1> DEFINE d == Ops!rotate(c, first, middle)
<1>1. Ops!Becomes(c, d, c.size, Ops!Upto(c.size), c.size)
  BY DequeIsSound, Ops!RotateKeepsIntact
<1>2. d.start = c.start
  <2>1. \A m : [c EXCEPT !.cells = m].start = c.start
    BY DEF Ops!Intact, Deques
  <2> QED  BY <2>1 DEF Ops!rotate, Ops!Rearranged
<1> HIDE DEF d
<1>3. Ops!Intact(d) /\ d.size = c.size
  BY <1>1, Ops!BecomesIntact
<1> QED  BY <1>2, <1>3, SameOperators DEF d

(* The elements left over are assigned to positions first .. end, around   *)
(* and around.                                                             *)
Overwritten(c, first, width, rest) ==
  Iterate(Len(rest), c,
    LAMBDA x, k : [x EXCEPT !.cells[IteratorGet(x, first + (k % width))] = rest[k + 1]])

LEMMA OverwrittenIntact ==
  ASSUME NEW c, Ops!Intact(c), NEW first \in Nat, NEW width \in Nat, width > 0,
         first + width <= c.size, NEW n \in Nat, NEW rest \in [1 .. n -> Contents]
  PROVE  LET d == Overwritten(c, first, width, rest) IN
         Ops!Intact(d) /\ d.size = c.size /\ d.start = c.start
<1> DEFINE N == n
           S(x, k) == [x EXCEPT !.cells[IteratorGet(x, first + (k % width))] = rest[k + 1]]
           Body(f) == [k \in 0 .. N |-> IF k = 0 THEN c ELSE S(f[k - 1], k - 1)]
           loop == CHOOSE f : f = Body(f)
           X == [k \in 0 .. N |-> {x \in Deques : Ops!Intact(x) /\ x.size = c.size /\ x.start = c.start}]
           F == [k \in 1 .. N |-> [x \in X[k - 1] |-> S(x, k - 1)]]
<1>1. Overwritten(c, first, width, rest) = loop[N]
  <2>1. Len(rest) = n
    OBVIOUS
  <2> QED  BY <2>1 DEF Overwritten, Iterate
<1>2. N \in Nat
  OBVIOUS
<1>3. c \in X[0]
  BY <1>2 DEF Ops!Intact
<1>4. ASSUME NEW k \in 1 .. N, NEW x \in X[k - 1] PROVE S(x, k - 1) \in X[k]
  <2> DEFINE p == first + ((k - 1) % width)
             d == Ops!WithCells(x, [x.cells EXCEPT ![IteratorGet(x, p)] = rest[k]])
  <2>1. k - 1 \in 0 .. N /\ k \in 0 .. N /\ (k - 1) + 1 = k /\ rest[k] \in Contents
    BY <1>2
  <2>2. Ops!Intact(x) /\ x \in Deques /\ x.size = c.size /\ x.start = c.start
    BY <2>1
  <2>3. /\ x.size \in Nat /\ MAXIMUM_SIZE \in Nat /\ x.size <= MAXIMUM_SIZE
    BY <2>2, RoomInFront
  <2>4. p \in Ops!Upto(x.size) /\ p < x.size
    <3>1. k - 1 \in Nat /\ (k - 1) % width \in 0 .. width - 1
      BY <2>1
    <3> QED  BY <2>2, <2>3, <3>1 DEF Ops!Upto
  <2>5. Ops!Holds(x, Ops!Upto(x.size)) /\ Ops!Upto(x.size) \in SUBSET Ops!Cells
    BY <2>2, <2>3 DEF Ops!Intact, Ops!Upto, Ops!Cells
  <2>6. S(x, k - 1) = d
    BY <2>1 DEF Ops!WithCells
  <2>7. d.start = x.start
    BY <2>2 DEF Ops!WithCells, Deques
  <2> HIDE DEF p, S
  <2>8. Ops!Becomes(x, d, x.size, Ops!Upto(x.size), x.size)
    BY <2>1, <2>2, <2>3, <2>4, <2>5, DequeIsSound, Ops!WriteElement
  <2> HIDE DEF d
  <2>9. Ops!Intact(d) /\ d.size = x.size /\ d \in Deques
    BY <2>8, Ops!BecomesIntact DEF Ops!Intact
  <2>10. d \in X[k]
    BY <2>1, <2>2, <2>7, <2>9
  <2> QED  BY <2>6, <2>10
<1>5. ASSUME NEW f, Ops!SolvesLoop(f, c, X, F, N) PROVE Ops!RunsLoop(loop, c, X, F, N)
  <2>1. \A k \in 1 .. N : \A x \in X[k - 1] : F[k][x] = S(x, k - 1)
    OBVIOUS
  <2>2. \A k \in 0 .. N : k # 0 <=> k \in 1 .. N
    BY <1>2
  <2>3. 0 \in 0 .. N /\ \A k \in 1 .. N : k \in 0 .. N /\ k - 1 \in 0 .. N
    BY <1>2
  <2> HIDE DEF X, F, S, N
  <2>4. f = Body(f)
    BY <1>5, <2>1, <2>2, <2>3 DEF Ops!SolvesLoop
  <2> HIDE DEF Body
  <2>5. loop = Body(loop)
    BY <2>4
  <2> HIDE DEF loop
  <2> USE DEF Body
  <2> QED  BY <2>1, <2>2, <2>3, <2>5 DEF Ops!RunsLoop
<1>6. loop[N] \in X[N] /\ N \in 0 .. N
  <2>1. \A k \in 1 .. N : \A x \in X[k - 1] : F[k][x] \in X[k]
    BY <1>4
  <2>2. N \in 0 .. N
    BY <1>2
  <2> HIDE DEF X, F, N, loop
  <2>3. loop[N] \in X[N]
    BY <1>2, <1>3, <1>5, <2>1, Ops!LoopEnds
  <2> QED  BY <2>2, <2>3
<1> HIDE DEF loop
<1> QED  BY <1>1, <1>6

LEMMA InputRangeIntact ==
  ASSUME NEW s \in PlacingStates, NEW n \in Nat, NEW rest \in [1 .. n -> Contents],
         n = 0 \/ s.placed > 0
  PROVE  LET ordered == IF rest = << >> THEN s.deque ELSE OverwritePlaced(s, rest) IN
         Ops!Intact(rotate(ordered, s.first - ordered.start, s.middle - ordered.start))
<1> DEFINE c == s.deque
           first == s.middle - c.start
           width == c.size - first
           d == Overwritten(c, first, width, rest)
           ordered == IF rest = << >> THEN c ELSE OverwritePlaced(s, rest)
<1>1. /\ Ops!Intact(c) /\ s.first \in Nat /\ s.middle \in Nat /\ s.placed \in Nat
      /\ c.start <= s.first /\ s.first <= s.middle /\ s.middle <= c.start + c.size
      /\ s.placed > 0 => s.middle < c.start + c.size
      /\ c.start \in Nat /\ c.size \in Nat
  BY RoomInFront DEF PlacingStates
<1>2. Ops!Intact(ordered) /\ ordered.size = c.size /\ ordered.start = c.start
  <2>1. CASE rest = << >>
    BY <1>1, <2>1
  <2>2. CASE rest # << >>
    <3>1. Len(rest) = n /\ n > 0
      BY <2>2
    <3>2. /\ first \in Nat /\ width \in Nat /\ width > 0 /\ first + width <= c.size
          /\ first + width = c.size
      BY <1>1, <3>1, SMTT(60)
    <3>3. ordered = rotate(d, first, first + (Len(rest) % width))
      BY <2>2 DEF OverwritePlaced, Overwritten
    <3> HIDE DEF first, width, ordered
    <3>4. Ops!Intact(d) /\ d.size = c.size /\ d.start = c.start
      BY <1>1, <3>2, OverwrittenIntact
    <3> HIDE DEF d
    <3>5. /\ first + (Len(rest) % width) \in Nat /\ first <= first + (Len(rest) % width)
          /\ first + (Len(rest) % width) <= d.size
      <4>1. Len(rest) % width \in 0 .. width - 1
        BY <3>1, <3>2
      <4> HIDE DEF c
      <4> QED  BY <3>2, <3>4, <4>1
    <3> QED  BY <3>2, <3>3, <3>4, <3>5, RotatedIntact
  <2> QED  BY <2>1, <2>2
<1>3. /\ s.first - ordered.start \in Nat /\ s.middle - ordered.start \in Nat
      /\ s.first - ordered.start <= s.middle - ordered.start
      /\ s.middle - ordered.start <= ordered.size
  <2> HIDE DEF ordered
  <2> QED  BY <1>1, <1>2
<1> HIDE DEF ordered
<1>4. Ops!Intact(rotate(ordered, s.first - ordered.start, s.middle - ordered.start))
  BY <1>2, <1>3, RotatedIntact
<1> QED  BY <1>4 DEF ordered

-----------------------------------------------------------------------------
(* The calls.  Clients insert at begin() only while there is room, and     *)
(* push no reference to an element that is dropped.                        *)
LEMMA CircularGrowingIntact ==
  ASSUME ~EmptyRanges, ~InsertAtBeginWhenFull, ~AliasDroppedElements,
         Ops!AllIntact, NEW o \in Objects, CircularGrowingCall(o), UNCHANGED build
  PROVE  Ops!AllIntact'
<1> DEFINE c == objects[o]
<1>1. MAXIMUM_SIZE \in Nat /\ MAXIMUM_SIZE > 0 /\ Values \subseteq Contents
  BY MaximumSizeIsPositive DEF Contents
<1>2. Usable(o) => Ops!Intact(c) /\ c.size \in Nat /\ c.start \in Nat /\ c.size <= MAXIMUM_SIZE
  BY RoomInFront DEF Usable, Ops!AllIntact
<1>3. ASSUME NEW a, NEW ret, NEW d, Ops!Intact(d), Returns(a, ret, o, d) PROVE Ops!AllIntact'
  <2>1. Ops!Returns(a, ret, o, d)
    BY <1>3 DEF Returns, Ops!Returns
  <2> QED  BY <1>3, <2>1, DequeIsSound, Ops!ReturnsIntact
<1>4. ASSUME NEW check, NEW a, NEW ret, NEW d, check => Ops!Intact(d),
             Checked(check, a, ret, o, d)
      PROVE  Ops!AllIntact'
  <2>1. Ops!Checked(check, a, ret, o, d)
    BY <1>4 DEF Checked, Ops!Checked, Returns, Ops!Returns, Aborts, Ops!Aborts
  <2> QED  BY <1>4, <2>1, DequeIsSound, Ops!CheckedIntact
<1>5. ASSUME NEW items \in Ranges
      PROVE  Len(items) \in Nat /\ items \in [1 .. Len(items) -> Contents]
  BY DequeIsSound, MaxRangeIsNat, Ops!RangesAreSequences DEF Ranges, Ops!Ranges
<1>6. ASSUME NEW v \in Values, CircularPushBack(o, v) PROVE Ops!AllIntact'
  <2>1. Ops!Intact(push_back_internal(pop_front_if_full(c), v))
    BY <1>1, <1>2, <1>6, PushedWithRoom DEF CircularPushBack
  <2> QED  BY <1>3, <1>6, <2>1 DEF CircularPushBack
<1>7. ASSUME NEW v \in Values, CircularPushFront(o, v) PROVE Ops!AllIntact'
  <2>1. Ops!Intact(place_front(pop_back_if_full(c), v))
    BY <1>1, <1>2, <1>7, PushedInFront DEF CircularPushFront
  <2> QED  BY <1>3, <1>7, <2>1 DEF CircularPushFront
<1>8. ASSUME NEW i \in Positions, CircularPushBackElement(o, i) PROVE Ops!AllIntact'
  <2> DEFINE room == pop_front_if_full(c)
             v == room.cells[IteratorGet(c, i)]
  <2>1. Ops!Intact(c) /\ i \in Nat /\ i < c.size /\ ~(i = 0 /\ is_full(c))
    BY <1>1, <1>2, <1>8 DEF CircularPushBackElement, Positions
  <2>2. /\ Ops!Intact(room) /\ c.start \in Nat /\ c.size \in Nat
        /\ is_full(c) => room.size = c.size - 1 /\ room.start = c.start + 1
        /\ ~is_full(c) => room = c
    BY <2>1, RoomInFront
  <2>3. \A k \in Nat : k < room.size => room.cells[IteratorGet(room, k)] \in Contents
    BY <2>2, DequeIsSound, Ops!ElementsAreGood
  <2>4. Ops!Intact(push_back_internal(room, v))
    <3>1. v \in Contents
      <4> HIDE DEF room
      <4>1. CASE is_full(c)
        <5>1. i - 1 \in Nat /\ i - 1 < room.size /\ (i - 1) + 1 = i
          BY <2>1, <2>2, <4>1
        <5>2. IteratorGet(room, i - 1) = IteratorGet(c, i)
          BY <2>2, <4>1, <5>1, PlacesShift
        <5> QED  BY <2>3, <5>1, <5>2
      <4>2. CASE ~is_full(c)
        BY <2>1, <2>2, <2>3, <4>2
      <4> QED  BY <4>1, <4>2
    <3> HIDE DEF v
    <3> QED  BY <2>1, <3>1, PushedWithRoom
  <2> QED  BY <1>3, <1>8, <2>4 DEF CircularPushBackElement
<1>9. ASSUME NEW pos \in Positions, NEW v \in Values, CircularInsert(o, pos, v)
      PROVE  Ops!AllIntact'
  <2> DEFINE room == pop_front_if_full(c)
             at == (c.start + pos) - room.start
  <2>1. /\ Ops!Intact(c) /\ pos \in Nat /\ pos <= c.size /\ v \in Contents
        /\ c.start \in Nat /\ c.size \in Nat
    BY <1>1, <1>2, <1>9 DEF CircularInsert, Insertable, Positions
  <2>2. /\ Ops!Intact(room) /\ room.size < MAXIMUM_SIZE
        /\ is_full(c) => room.size = c.size - 1 /\ room.start = c.start + 1
        /\ ~is_full(c) => room = c
    BY <2>1, RoomInFront
  <2>3. at >= 0 => Ops!Intact(InsertOne(room, at, v))
    <3> HIDE DEF room
    <3>1. at >= 0 => at \in Nat /\ at <= room.size
      BY <2>1, <2>2
    <3>2. room.size + 1 <= MAXIMUM_SIZE
      BY <1>1, <2>2, RoomInFront
    <3> HIDE DEF at
    <3>3. at >= 0 => Ops!Becomes(room, Ops!InsertOne(room, at, v), room.size + 1,
                                 Ops!Upto(room.size + 1), room.size + 1)
      BY <2>1, <2>2, <3>1, <3>2, DequeIsSound, Ops!InsertOneKeepsIntact
    <3> QED  BY <3>3, SameOperators, Ops!BecomesIntact
  <2> QED  BY <1>4, <1>9, <2>3 DEF CircularInsert
<1>10. ASSUME NEW pos \in Positions, NEW items \in Ranges, CircularInsertRange(o, pos, items)
       PROVE  Ops!AllIntact'
  <2>1. /\ Ops!Intact(c) /\ pos \in Nat /\ pos <= c.size
        /\ Len(items) \in Nat /\ items \in [1 .. Len(items) -> Contents]
    BY <1>1, <1>2, <1>5, <1>10 DEF CircularInsertRange, Insertable, Positions
  <2>2. \/ Len(items) > 0 /\ (pos > 0 \/ ~is_full(c))
        \/ pos = c.size
        \/ Ops!TriviallyCopyable
    <3>1. items # << >> => Len(items) > 0
      BY <2>1
    <3>2. pos = 0 \/ pos > 0
      BY <2>1
    <3> QED  BY <1>10, <3>1, <3>2
             DEF CircularInsertRange, Insertable, PassableRange, TriviallyCopyable,
               Ops!TriviallyCopyable
  <2>3. Ops!Intact(InsertDropping(c, pos, items))
    BY <2>1, <2>2, InsertDroppingIntact
  <2> QED  BY <1>3, <1>10, <2>3 DEF CircularInsertRange
<1>11. ASSUME NEW pos \in Positions, NEW items \in Ranges,
              CircularInsertInputRange(o, pos, items)
       PROVE  Ops!AllIntact'
  <2> DEFINE s == PlaceAtEnd(c, pos, items)
             rest == SubSeq(items, s.placed + 1, Len(items))
             ordered == IF rest = << >> THEN s.deque ELSE OverwritePlaced(s, rest)
             d == rotate(ordered, s.first - ordered.start, s.middle - ordered.start)
  <2>1. /\ Ops!Intact(c) /\ pos \in Nat /\ pos <= c.size
        /\ Len(items) \in Nat /\ items \in [1 .. Len(items) -> Contents]
    BY <1>1, <1>2, <1>5, <1>11 DEF CircularInsertInputRange, Insertable, Positions
  <2>2. s \in PlacingStates /\ s.placed <= Len(items)
    BY <2>1, PlaceAtEndKeepsState
  <2>3. Checked(rest = << >> \/ s.placed > 0, CallWith("insert_input", o, pos, items),
                s.first - s.deque.start, o, d)
    BY <1>11 DEF CircularInsertInputRange
  <2> HIDE DEF s
  <2>4. /\ Len(items) - s.placed \in Nat /\ s.placed + 1 \in 1 .. Len(items) + 1
        /\ Len(items) - (s.placed + 1) + 1 = Len(items) - s.placed
    BY <2>1, <2>2 DEF PlacingStates
  <2>5. rest \in [1 .. Len(items) - s.placed -> Contents] /\ Len(rest) = Len(items) - s.placed
    BY <2>1, <2>4, PartOfRange
  <2>6. (rest = << >> \/ s.placed > 0) => Ops!Intact(d)
    <3>1. rest = << >> => Len(items) - s.placed = 0
      BY <2>5
    <3> HIDE DEF rest
    <3> QED  BY <2>2, <2>4, <2>5, <3>1, InputRangeIntact
  <2> HIDE DEF d, rest
  <2> QED  BY <1>4, <2>3, <2>6
<1>12. \A n \in Counts : AtMost(n) \in 0 .. MAXIMUM_SIZE
  BY <1>1 DEF Counts, AtMost
<1>13. ASSUME NEW n \in Counts, NEW v \in Values, CircularAssignCount(o, n, v)
       PROVE  Ops!AllIntact'
  <2> DEFINE e == Ops!clear(c)
  <2>1. Ops!Intact(e) /\ e.size = 0
    BY <1>2, <1>13, DequeIsSound, Ops!ClearLeavesNothing DEF CircularAssignCount
  <2>2. e = clear(c)
    BY SameOperators
  <2> HIDE DEF e
  <2>3. Ops!Intact(ResizeTo(e, AtMost(n), v))
    <3>1. /\ AtMost(n) \in 0 .. MAXIMUM_SIZE /\ AtMost(n) <= MAXIMUM_SIZE
          /\ e.size <= MAXIMUM_SIZE /\ v \in Contents
      BY <1>1, <1>12, <2>1
    <3>2. Ops!Becomes(e, Ops!ResizeTo(e, AtMost(n), v), AtMost(n), Ops!Upto(AtMost(n)),
                      MAXIMUM_SIZE)
      BY <1>1, <2>1, <3>1, DequeIsSound, Ops!ResizeKeepsIntact
    <3> QED  BY <3>2, SameOperators, Ops!BecomesIntact
  <2> QED  BY <1>3, <1>13, <2>2, <2>3 DEF CircularAssignCount
<1>14. ASSUME NEW items \in Ranges, CircularAssign(o, items) \/ CircularAssignInput(o, items)
       PROVE  Ops!AllIntact'
  <2> DEFINE e == Ops!clear(c)
             n == Len(items)
             m == AtMost(n)
  <2>1. Ops!Intact(e) /\ e.size = 0
    BY <1>2, <1>14, DequeIsSound, Ops!ClearLeavesNothing
    DEF CircularAssign, CircularAssignInput
  <2>2. e = clear(c)
    BY SameOperators
  <2> HIDE DEF e
  <2>3. n \in Nat /\ items \in [1 .. n -> Contents]
    BY <1>5
  <2>4. /\ m \in Nat /\ m <= MAXIMUM_SIZE /\ n - m + 1 \in 1 .. n + 1
        /\ n - (n - m + 1) + 1 = m
    <3>1. m \in Nat /\ m <= MAXIMUM_SIZE /\ m <= n
      BY <1>1, <2>3 DEF AtMost
    <3> HIDE DEF m, n
    <3> QED  BY <2>3, <3>1
  <2>5. LastOf(items) = SubSeq(items, n - m + 1, n)
    BY DEF LastOf
  <2> HIDE DEF n, m
  <2>6. LastOf(items) \in [1 .. m -> Contents]
    BY <2>3, <2>4, <2>5, PartOfRange
  <2>7. Ops!Intact(InsertForward(e, 0, LastOf(items)))
    BY <2>1, <2>4, <2>6, SameOperators, DequeIsSound, Ops!FillIsIntact
  <2>8. Ops!Intact(PushedAll(e, items))
    BY <2>1, <2>3, PushedAllIntact
  <2>9. ASSUME CircularAssign(o, items) PROVE Ops!AllIntact'
    BY <1>3, <2>2, <2>7, <2>9 DEF CircularAssign
  <2>10. ASSUME CircularAssignInput(o, items) PROVE Ops!AllIntact'
    <3>1. Returns(CallWith("assign", o, 0, items), 0, o, PushedAll(e, items))
      BY <2>2, <2>10 DEF CircularAssignInput, PushedAll
    <3> QED  BY <1>3, <2>8, <3>1
  <2> QED  BY <1>14, <2>9, <2>10
<1> HIDE DEF c
<1> QED  BY <1>6, <1>7, <1>8, <1>9, <1>10, <1>11, <1>13, <1>14 DEF CircularGrowingCall

LEMMA CircularConstructionIntact ==
  ASSUME Ops!AllIntact, NEW o \in Objects, CircularConstruction(o), UNCHANGED build
  PROVE  Ops!AllIntact'
<1>1. ASSUME NEW a, NEW ret, NEW d, Ops!Intact(d), Returns(a, ret, o, d) PROVE Ops!AllIntact'
  <2>1. Ops!Returns(a, ret, o, d)
    BY <1>1 DEF Returns, Ops!Returns
  <2> QED  BY <1>1, <2>1, DequeIsSound, Ops!ReturnsIntact
<1>2. MAXIMUM_SIZE \in Nat /\ Values \subseteq Contents
  BY MaximumSizeIsPositive DEF Contents
<1>3. ASSUME NEW items \in Ranges, CircularConstruct(o, items) PROVE Ops!AllIntact'
  <2>1. Len(items) \in Nat /\ items \in [1 .. Len(items) -> Contents]
    BY DequeIsSound, MaxRangeIsNat, Ops!RangesAreSequences DEF Ranges, Ops!Ranges
  <2>2. Ops!Intact(EmptyDeque) /\ EmptyDeque.size = 0
    BY DequeIsSound, Ops!EmptyIsIntact
  <2>3. Ops!Intact(InsertDropping(EmptyDeque, 0, items))
    BY <2>1, <2>2, InsertDroppingIntact
  <2> QED  BY <1>1, <1>3, <2>3 DEF CircularConstruct
<1>4. ASSUME NEW n \in Counts, NEW v \in Values, CircularConstructCount(o, n, v)
      PROVE  Ops!AllIntact'
  <2>1. AtMost(n) \in 0 .. MAXIMUM_SIZE
    BY <1>2 DEF Counts, AtMost
  <2>2. Ops!Becomes(EmptyDeque, Ops!PlaceAll(AtMost(n), v), AtMost(n),
                    Ops!Upto(AtMost(n)), AtMost(n))
    BY <1>2, <2>1, DequeIsSound, Ops!PlaceAllCopies
  <2>3. Ops!Intact(PlaceAll(AtMost(n), v))
    BY <2>2, SameOperators, Ops!BecomesIntact
  <2> QED  BY <1>1, <1>4, <2>3 DEF CircularConstructCount
<1> QED  BY <1>3, <1>4 DEF CircularConstruction

LEMMA CircularInvHolds ==
  ASSUME ~EmptyRanges, ~AliasMovedElements, ~InsertAtBeginWhenFull, ~AliasDroppedElements
  PROVE  CircularSpec => []DequeInv
<1>1. Ops!Sound /\ Ops!CarefulClients
  BY DequeIsSound, MaxRangeIsNat DEF Ops!CarefulClients
<1>2. Init => DequeInv
  <2>1. Init => Ops!Init
    BY DEF Init, Ops!Init, Call, Ops!Call
  <2> QED  BY <2>1, Ops!InitIntact DEF DequeInv
<1>3. DequeInv /\ [CircularNext]_vars => DequeInv'
  <2> SUFFICES ASSUME Ops!AllIntact, [CircularNext]_vars PROVE Ops!AllIntact'
    BY DEF DequeInv
  <2>1. ASSUME NEW o \in Objects, CircularConstruction(o), UNCHANGED build PROVE Ops!AllIntact'
    BY <2>1, CircularConstructionIntact
  <2>2. ASSUME NEW o \in Objects, Lifetime(o), UNCHANGED build PROVE Ops!AllIntact'
    BY <1>1, <2>2, SameCalls, Ops!LifetimeIntact
  <2>3. ASSUME NEW o \in Objects, CommonCall(o), UNCHANGED build PROVE Ops!AllIntact'
    BY <1>1, <2>3, SameCalls, Ops!CommonCallIntact
  <2>4. ASSUME NEW o \in Objects, PopFront(o), UNCHANGED build PROVE Ops!AllIntact'
    BY <2>4, FrontCallIntact
  <2>5. ASSUME NEW o \in Objects, CircularGrowingCall(o), UNCHANGED build PROVE Ops!AllIntact'
    BY <2>5, CircularGrowingIntact
  <2>6. ASSUME NEW o \in Objects, CircularQueueCall(o), UNCHANGED build PROVE Ops!AllIntact'
    <3>1. PopFront(o) \/ CommonCall(o) \/ CircularGrowingCall(o)
      BY <2>6 DEF CircularQueueCall, QueuePop, QueueFront, QueueBack, CircularQueuePush,
        CommonCall, CircularGrowingCall
    <3> QED  BY <2>3, <2>4, <2>5, <2>6, <3>1
  <2>7. ASSUME UNCHANGED vars PROVE Ops!AllIntact'
    BY <2>7, Ops!StutterIntact DEF vars, Ops!vars
  <2>8. ASSUME Halted PROVE Ops!AllIntact'
    BY <2>7, <2>8 DEF Halted
  <2> QED  BY <2>1, <2>2, <2>3, <2>4, <2>5, <2>6, <2>7, <2>8 DEF CircularNext
<1> QED  BY <1>2, <1>3, PTL DEF CircularSpec

(* No member of FixedCircularDeque uses an element outside its lifetime,   *)
(* however many elements a call drops to make room: not the insertion of a *)
(* range that drops old elements and then new ones, and not the input      *)
(* iterator overload with its three iterators.  Beyond FixedDeque's        *)
(* clients, these insert at begin() only while there is room, and push no  *)
(* reference to the element that is dropped for it.                        *)
THEOREM CircularDequeLifetimes ==
  ASSUME ~EmptyRanges, ~AliasMovedElements, ~InsertAtBeginWhenFull, ~AliasDroppedElements
  PROVE  CircularSpec => []LifetimesRespected
<1>1. CircularSpec => []DequeInv
  BY CircularInvHolds
<1> QED  BY <1>1, DequeInvMeansLive, PTL

(* What a full circular deque drops is destroyed, once, and what it keeps  *)
(* is alive: after every call the live cells are those of its elements.    *)
THEOREM CircularDequeLiveCells ==
  ASSUME ~EmptyRanges, ~AliasMovedElements, ~InsertAtBeginWhenFull, ~AliasDroppedElements
  PROVE  CircularSpec => []LiveCellsAreElements
<1>1. CircularSpec => []DequeInv
  BY CircularInvHolds
<1> QED  BY <1>1, DequeInvMeansLive, PTL
=============================================================================
