--------------------- MODULE DoublyLinkedListOpsProofs ---------------------
(***************************************************************************)
(* What the operations of FixedIndexBasedPoolStorage do to a sound pool    *)
(* and those of FixedDoublyLinkedList to a well-formed list, for every     *)
(* capacity and every value type.  The proofs about the pool, the lists    *)
(* and the hashtable cite these lemmas.                                    *)
(*                                                                         *)
(* The order of a list is a function on 0 .. size + 1 with the sentinel at *)
(* both ends: that turns the four cases of a link (first, last, only,      *)
(* inner element) into one.                                                *)
(***************************************************************************)
EXTENDS DoublyLinkedListOps, Sequences, FiniteSetTheorems, InductionLemmas

(* A freelist that misses a cell is shorter than the slab: the witness     *)
(* that delete_at_and_return_repositioned_index lengthens still fits.      *)
LEMMA FreelistHasRoom ==
  ASSUME NEW n \in Nat, NEW f \in [1 .. n -> Slots],
         \A j, k \in 1 .. n : f[j] = f[k] => j = k,
         NEW i \in Slots, \A k \in 1 .. n : f[k] # i
  PROVE  n + 1 <= MAXIMUM_SIZE
<1> DEFINE T == Slots \ {i}
<1>1. IsFiniteSet(Slots) /\ Cardinality(Slots) = MAXIMUM_SIZE
  BY FS_Interval, MaximumSizeIsNat DEF Slots
<1>2. IsFiniteSet(T) /\ Cardinality(T) = MAXIMUM_SIZE - 1
  BY <1>1, FS_RemoveElement
<1>3. IsFiniteSet(1 .. n) /\ Cardinality(1 .. n) = n
  BY FS_Interval
<1>4. f \in [1 .. n -> T]
  OBVIOUS
<1>5. SUFFICES ASSUME n > MAXIMUM_SIZE - 1 PROVE FALSE
  BY MaximumSizeIsNat
<1>6. \E x, y \in 1 .. n : x # y /\ f[x] = f[y]
  <2> HIDE DEF T
  <2>1. Cardinality(T) < Cardinality(1 .. n)
    BY <1>2, <1>3, <1>5
  <2> QED  BY <1>2, <1>3, <1>4, <2>1, FS_PigeonHole
<1> QED  BY <1>6

(* Emplacing into a pool that is not full takes a free cell and leaves     *)
(* every other cell as it was (emplace_and_return_index).                  *)
LEMMA EmplaceTakesAFreeCell ==
  ASSUME NEW p \in Pools, WellFormedPool(p), ~full(p), NEW v \in Contents
  PROVE  LET q == emplace_and_return_index(p, v) IN
         /\ q \in Pools
         /\ WellFormedPool(q)
         /\ p.next_index \in Slots
         /\ p.next_index \notin Live(p)
         /\ Live(q) = Live(p) \cup {p.next_index}
         /\ \A i \in Slots \ {p.next_index} : q.array[i] = p.array[i]
<1> DEFINE q == emplace_and_return_index(p, v)
<1>1. PICK n \in 0 .. MAXIMUM_SIZE : \E f \in [1 .. n -> Slots] :
        /\ IsFreelist(p, n, f)
        /\ \A i \in Slots : i \notin Live(p) <=> \E k \in 1 .. n : f[k] = i
  BY DEF WellFormedPool
<1>2. PICK f \in [1 .. n -> Slots] :
        /\ IsFreelist(p, n, f)
        /\ \A i \in Slots : i \notin Live(p) <=> \E k \in 1 .. n : f[k] = i
  BY <1>1
<1>3. n \in Nat /\ n # 0 /\ n <= MAXIMUM_SIZE /\ p.next_index = f[1]
  BY <1>2, MaximumSizeIsNat DEF IsFreelist, full
<1>4. p.next_index \in Slots /\ p.next_index \notin Live(p)
  BY <1>2, <1>3
<1>5. p.array \in [Slots -> Links \cup Contents] /\ p.array[p.next_index] \in Links
  BY <1>4 DEF Pools, Live
<1>6. q \in Pools
  BY <1>5 DEF Pools, emplace_and_return_index
<1>7. \A i \in Slots \ {p.next_index} : q.array[i] = p.array[i]
  BY <1>4, <1>5 DEF emplace_and_return_index
<1>8. q.array[p.next_index] = v
  BY <1>4, <1>5 DEF emplace_and_return_index
<1>9. Live(q) = Live(p) \cup {p.next_index}
  BY <1>4, <1>7, <1>8 DEF Live
<1>10. WellFormedPool(q)
  <2> DEFINE m == n - 1
             g == [k \in 1 .. m |-> f[k + 1]]
  <2>1. m \in 0 .. MAXIMUM_SIZE /\ g \in [1 .. m -> Slots]
    <3>1. m \in 0 .. MAXIMUM_SIZE /\ \A k \in 1 .. m : k + 1 \in 1 .. n
      BY <1>3, MaximumSizeIsNat
    <3> QED  BY <3>1
  <2>2. \A k \in 1 .. m : k + 1 \in 1 .. n /\ g[k] = f[k + 1] /\ g[k] # p.next_index
    BY <1>2, <1>3 DEF IsFreelist
  <2>3. \A j, k \in 1 .. m : g[j] = g[k] => j = k
    BY <1>2, <1>3, <2>2 DEF IsFreelist
  <2>4. q.next_index = IF m = 0 THEN MAXIMUM_SIZE ELSE g[1]
    <3>1. q.next_index = p.array[f[1]]
      BY <1>3 DEF emplace_and_return_index
    <3>2. p.array[f[1]] = IF 1 = n THEN MAXIMUM_SIZE ELSE f[1 + 1]
      BY <1>2, <1>3 DEF IsFreelist
    <3> QED  BY <3>1, <3>2, <1>3
  <2>5. \A k \in 1 .. m : q.array[g[k]] = IF k = m THEN MAXIMUM_SIZE ELSE g[k + 1]
    <3> SUFFICES ASSUME NEW k \in 1 .. m
                 PROVE  q.array[g[k]] = IF k = m THEN MAXIMUM_SIZE ELSE g[k + 1]
      OBVIOUS
    <3>1. q.array[g[k]] = p.array[f[k + 1]]
      BY <1>7, <2>1, <2>2
    <3>2. p.array[f[k + 1]] = IF k + 1 = n THEN MAXIMUM_SIZE ELSE f[k + 1 + 1]
      BY <1>2, <1>3, <2>2 DEF IsFreelist
    <3> QED  BY <3>1, <3>2, <1>3
  <2>6. \A i \in Slots : i \notin Live(q) <=> \E k \in 1 .. m : g[k] = i
    <3> SUFFICES ASSUME NEW i \in Slots
                 PROVE  i \notin Live(q) <=> \E k \in 1 .. m : g[k] = i
      OBVIOUS
    <3>1. ASSUME i \notin Live(q) PROVE \E k \in 1 .. m : g[k] = i
      <4>1. i \notin Live(p) /\ i # f[1]
        BY <3>1, <1>9, <1>3
      <4>2. PICK k \in 1 .. n : f[k] = i
        BY <4>1, <1>2
      <4>3. k - 1 \in 1 .. m
        BY <4>1, <4>2, <1>3
      <4>4. g[k - 1] = i
        BY <4>2, <4>3, <1>3
      <4> QED  BY <4>3, <4>4
    <3>2. ASSUME NEW k \in 1 .. m, g[k] = i PROVE i \notin Live(q)
      BY <3>2, <2>2, <1>2, <1>9
    <3> QED  BY <3>1, <3>2
  <2> HIDE DEF g, m, q
  <2>7. IsFreelist(q, m, g)
    BY <2>3, <2>4, <2>5 DEF IsFreelist
  <2> QED  BY <2>1, <2>6, <2>7 DEF WellFormedPool
<1> QED  BY <1>4, <1>6, <1>7, <1>9, <1>10

(* Deleting an occupied cell frees it and leaves every other cell as it    *)
(* was (delete_at_and_return_repositioned_index).                          *)
LEMMA DeleteFreesTheCell ==
  ASSUME NEW p \in Pools, WellFormedPool(p), NEW d \in Live(p)
  PROVE  LET q == delete_at_and_return_repositioned_index(p, d) IN
         /\ q \in Pools
         /\ WellFormedPool(q)
         /\ Live(q) = Live(p) \ {d}
         /\ \A i \in Slots \ {d} : q.array[i] = p.array[i]
<1> DEFINE q == delete_at_and_return_repositioned_index(p, d)
<1>1. PICK n \in 0 .. MAXIMUM_SIZE : \E f \in [1 .. n -> Slots] :
        /\ IsFreelist(p, n, f)
        /\ \A i \in Slots : i \notin Live(p) <=> \E k \in 1 .. n : f[k] = i
  BY DEF WellFormedPool
<1>2. PICK f \in [1 .. n -> Slots] :
        /\ IsFreelist(p, n, f)
        /\ \A i \in Slots : i \notin Live(p) <=> \E k \in 1 .. n : f[k] = i
  BY <1>1
<1>3. d \in Slots /\ n \in Nat
  BY MaximumSizeIsNat DEF Live
<1>4. p.array \in [Slots -> Links \cup Contents] /\ p.next_index \in Links /\ d \in Links
  BY <1>3, MaximumSizeIsNat DEF Pools, Slots, Links
<1>5. q \in Pools
  BY <1>3, <1>4 DEF Pools, delete_at_and_return_repositioned_index
<1>6. \A i \in Slots \ {d} : q.array[i] = p.array[i]
  BY <1>3, <1>4 DEF delete_at_and_return_repositioned_index
<1>7. q.array[d] = p.next_index /\ q.next_index = d
  BY <1>3, <1>4 DEF delete_at_and_return_repositioned_index
<1>8. Live(q) = Live(p) \ {d}
  BY <1>3, <1>4, <1>6, <1>7, ContentsAreNotLinks DEF Live
<1>9. WellFormedPool(q)
  <2> DEFINE m == n + 1
             g == [k \in 1 .. m |-> IF k = 1 THEN d ELSE f[k - 1]]
  <2>1. \A k \in 1 .. n : f[k] # d
    BY <1>2, <1>3
  <2>2. \A j, k \in 1 .. n : f[j] = f[k] => j = k
    BY <1>2 DEF IsFreelist
  <2>3. m \in 0 .. MAXIMUM_SIZE
    BY <2>1, <2>2, <1>3, FreelistHasRoom
  <2>4. g \in [1 .. m -> Slots]
    BY <1>3
  <2>5. g[1] = d /\ \A k \in 1 .. n : k + 1 \in 1 .. m /\ g[k + 1] = f[k]
    BY <1>3
  <2>6. \A k \in 2 .. m : k - 1 \in 1 .. n /\ g[k] = f[k - 1]
    BY <1>3
  <2>7. \A j, k \in 1 .. m : g[j] = g[k] => j = k
    <3> SUFFICES ASSUME NEW j \in 1 .. m, NEW k \in 1 .. m, g[j] = g[k]
                 PROVE  j = k
      OBVIOUS
    <3>1. CASE j = 1 \/ k = 1
      BY <3>1, <2>1, <2>5, <2>6, <1>3
    <3>2. CASE j # 1 /\ k # 1
      BY <3>2, <2>2, <2>6, <1>3
    <3> QED  BY <3>1, <3>2
  <2>8. q.next_index = IF m = 0 THEN MAXIMUM_SIZE ELSE g[1]
    BY <1>3, <1>7, <2>5
  <2>9. \A k \in 1 .. m : q.array[g[k]] = IF k = m THEN MAXIMUM_SIZE ELSE g[k + 1]
    <3> SUFFICES ASSUME NEW k \in 1 .. m
                 PROVE  q.array[g[k]] = IF k = m THEN MAXIMUM_SIZE ELSE g[k + 1]
      OBVIOUS
    <3>1. CASE k = 1
      <4>1. p.next_index = IF n = 0 THEN MAXIMUM_SIZE ELSE f[1]
        BY <1>2 DEF IsFreelist
      <4>2. n # 0 => g[1 + 1] = f[1]
        BY <2>5, <1>3
      <4> QED  BY <3>1, <4>1, <4>2, <1>3, <1>7, <2>5
    <3>2. CASE k # 1
      <4>1. k - 1 \in 1 .. n /\ g[k] = f[k - 1]
        BY <3>2, <2>6, <1>3
      <4>2. q.array[g[k]] = p.array[f[k - 1]]
        BY <4>1, <2>1, <1>6
      <4>3. p.array[f[k - 1]] = IF k - 1 = n THEN MAXIMUM_SIZE ELSE f[k - 1 + 1]
        BY <4>1, <1>2 DEF IsFreelist
      <4>4. k # m => g[k + 1] = f[k]
        BY <2>5, <1>3
      <4> QED  BY <4>2, <4>3, <4>4, <1>3
    <3> QED  BY <3>1, <3>2
  <2>10. \A i \in Slots : i \notin Live(q) <=> \E k \in 1 .. m : g[k] = i
    <3> SUFFICES ASSUME NEW i \in Slots
                 PROVE  i \notin Live(q) <=> \E k \in 1 .. m : g[k] = i
      OBVIOUS
    <3>1. ASSUME i \notin Live(q) PROVE \E k \in 1 .. m : g[k] = i
      <4>1. CASE i = d
        BY <4>1, <2>5, <1>3
      <4>2. CASE i # d
        <5>1. PICK k \in 1 .. n : f[k] = i
          BY <3>1, <4>2, <1>2, <1>8
        <5> QED  BY <5>1, <2>5
      <4> QED  BY <4>1, <4>2
    <3>2. ASSUME NEW k \in 1 .. m, g[k] = i PROVE i \notin Live(q)
      <4>1. CASE k = 1
        BY <3>2, <4>1, <2>5, <1>8
      <4>2. CASE k # 1
        <5>1. k - 1 \in 1 .. n /\ f[k - 1] = i
          BY <3>2, <4>2, <2>6, <1>3
        <5> QED  BY <5>1, <1>2, <1>8
      <4> QED  BY <4>1, <4>2
    <3> QED  BY <3>1, <3>2
  <2> HIDE DEF g, m, q
  <2>11. IsFreelist(q, m, g)
    BY <2>7, <2>8, <2>9 DEF IsFreelist
  <2> QED  BY <2>3, <2>4, <2>10, <2>11 DEF WellFormedPool
<1> QED  BY <1>5, <1>6, <1>8, <1>9

-----------------------------------------------------------------------------
(* The default constructor builds a sound freelist of every cell. *)
LEMMA EmptyPoolIsWellFormed ==
  /\ EmptyPool \in Pools
  /\ WellFormedPool(EmptyPool)
  /\ Live(EmptyPool) = {}
<1> DEFINE n == MAXIMUM_SIZE
           f == [k \in 1 .. n |-> k - 1]
<1>1. EmptyPool \in Pools
  BY MaximumSizeIsNat DEF EmptyPool, Pools, Slots, Links
<1>2. Live(EmptyPool) = {}
  <2>1. \A i \in Slots : EmptyPool.array[i] = i + 1 /\ i + 1 \in Links
    BY MaximumSizeIsNat DEF EmptyPool, Slots, Links
  <2> QED  BY <2>1, ContentsAreNotLinks DEF Live
<1>3. f \in [1 .. n -> Slots]
  BY MaximumSizeIsNat DEF Slots
<1>4. IsFreelist(EmptyPool, n, f)
  <2>1. \A j, k \in 1 .. n : f[j] = f[k] => j = k
    OBVIOUS
  <2>2. EmptyPool.next_index = IF n = 0 THEN MAXIMUM_SIZE ELSE f[1]
    BY MaximumSizeIsNat DEF EmptyPool
  <2>3. \A k \in 1 .. n :
          EmptyPool.array[f[k]] = IF k = n THEN MAXIMUM_SIZE ELSE f[k + 1]
    <3>1. \A k \in 1 .. n : f[k] \in Slots /\ EmptyPool.array[f[k]] = k
      BY MaximumSizeIsNat DEF EmptyPool, Slots
    <3>2. \A k \in 1 .. n : k # n => f[k + 1] = k
      BY MaximumSizeIsNat
    <3> QED  BY <3>1, <3>2
  <2> HIDE DEF n, f
  <2> QED  BY <2>1, <2>2, <2>3 DEF IsFreelist
<1>5. \A i \in Slots : i + 1 \in 1 .. n /\ f[i + 1] = i
  BY MaximumSizeIsNat DEF Slots
<1>6. \A i \in Slots : i \notin Live(EmptyPool) <=> \E k \in 1 .. n : f[k] = i
  BY <1>2, <1>5
<1>7. n \in 0 .. MAXIMUM_SIZE
  BY MaximumSizeIsNat
<1> HIDE DEF n, f
<1>8. WellFormedPool(EmptyPool)
  BY <1>3, <1>4, <1>6, <1>7 DEF WellFormedPool
<1> QED  BY <1>1, <1>2, <1>8

(* A pool whose freelist has run out has no free cell left (full). *)
LEMMA FullMeansAllLive ==
  ASSUME NEW p \in Pools, WellFormedPool(p), full(p)
  PROVE  Live(p) = Slots
<1>1. PICK n \in 0 .. MAXIMUM_SIZE : \E f \in [1 .. n -> Slots] :
        /\ IsFreelist(p, n, f)
        /\ \A i \in Slots : i \notin Live(p) <=> \E k \in 1 .. n : f[k] = i
  BY DEF WellFormedPool
<1>2. PICK f \in [1 .. n -> Slots] :
        /\ IsFreelist(p, n, f)
        /\ \A i \in Slots : i \notin Live(p) <=> \E k \in 1 .. n : f[k] = i
  BY <1>1
<1>3. n \in Nat /\ n <= MAXIMUM_SIZE /\ \A i \in Slots : i # MAXIMUM_SIZE
  BY MaximumSizeIsNat DEF Slots
<1>4. n # 0 => f[1] \in Slots
  BY <1>3
<1>5. n = 0
  BY <1>2, <1>3, <1>4 DEF IsFreelist, full
<1> QED  BY <1>2, <1>5 DEF Live

-----------------------------------------------------------------------------
(* e lists the positions of l from the sentinel to the sentinel. *)
Order(l, e) ==
  /\ e \in [0 .. l.size + 1 -> Links]
  /\ e[0] = NULL_INDEX /\ e[l.size + 1] = NULL_INDEX
  /\ \A k \in 1 .. l.size : e[k] \in Live(l.storage)
  /\ \A j, k \in 1 .. l.size : e[j] = e[k] => j = k
  /\ \A k \in 0 .. l.size : l.next[e[k]] = e[k + 1] /\ l.prev[e[k + 1]] = e[k]
  /\ \A i \in Live(l.storage) : \E k \in 1 .. l.size : e[k] = i

(* The lists that the operations keep. *)
GoodLists == {l \in ListObjects : WellFormedPool(l.storage) /\ WellFormedChain(l)}

(* The fields of a list have their types. *)
LEMMA ListFields ==
  ASSUME NEW l \in ListObjects
  PROVE  /\ l.storage \in Pools /\ l.next \in [Links -> Links]
         /\ l.prev \in [Links -> Links] /\ l.size \in Links
         /\ l.size \in Nat /\ l.size <= MAXIMUM_SIZE
         /\ NULL_INDEX \in Links /\ NULL_INDEX \notin Slots
         /\ Slots \subseteq Links /\ Live(l.storage) \subseteq Slots
<1>1. /\ l.storage \in Pools /\ l.next \in [Links -> Links]
      /\ l.prev \in [Links -> Links] /\ l.size \in Links
  BY DEF ListObjects
<1>2. l.size \in Nat /\ l.size <= MAXIMUM_SIZE
  BY <1>1, MaximumSizeIsNat DEF Links
<1>3. NULL_INDEX \in Links /\ NULL_INDEX \notin Slots /\ Slots \subseteq Links
  BY MaximumSizeIsNat DEF Links, Slots, NULL_INDEX
<1> QED  BY <1>1, <1>2, <1>3 DEF Live

(* The chain is well formed exactly if the list has an order. *)
LEMMA ChainHasOrder ==
  ASSUME NEW l \in ListObjects, WellFormedChain(l)
  PROVE  \E e : Order(l, e)
<1> DEFINE n == l.size
           at(w, k) == IF k \in 1 .. n THEN w[k] ELSE NULL_INDEX
<1>1. n \in Nat /\ n <= MAXIMUM_SIZE /\ NULL_INDEX \in Links /\ Slots \subseteq Links
  BY ListFields
<1>2. PICK w \in [1 .. n -> Slots] :
        /\ IsListOrder(l, n, w)
        /\ \A i \in Slots : i \in Live(l.storage) <=> \E k \in 1 .. n : w[k] = i
  BY DEF WellFormedChain
<1> DEFINE e == [k \in 0 .. n + 1 |-> at(w, k)]
<1>3. \A k \in 1 .. n : e[k] = w[k] /\ w[k] \in Slots
  BY <1>1
<1>4. e[0] = NULL_INDEX /\ e[n + 1] = NULL_INDEX
  BY <1>1
<1>5. e \in [0 .. n + 1 -> Links]
  BY <1>1
<1>6. \A j, k \in 1 .. n : w[j] = w[k] => j = k
  BY <1>2 DEF IsListOrder
<1>7. \A k \in 0 .. n : l.next[at(w, k)] = at(w, k + 1) /\ l.prev[at(w, k + 1)] = at(w, k)
  BY <1>2 DEF IsListOrder
<1>8. \A k \in 0 .. n : e[k] = at(w, k) /\ e[k + 1] = at(w, k + 1)
  BY <1>1
<1> HIDE DEF e, at, n
<1>9. \A k \in 0 .. n : l.next[e[k]] = e[k + 1] /\ l.prev[e[k + 1]] = e[k]
  BY <1>7, <1>8
<1>10. \A k \in 1 .. n : e[k] \in Live(l.storage)
  BY <1>2, <1>3
<1>11. \A i \in Live(l.storage) : \E k \in 1 .. n : e[k] = i
  BY <1>2, <1>3 DEF Live
<1>12. \A j, k \in 1 .. n : e[j] = e[k] => j = k
  BY <1>3, <1>6
<1> QED  BY <1>4, <1>5, <1>9, <1>10, <1>11, <1>12 DEF Order, n

(* The converse. *)
LEMMA OrderIsChain ==
  ASSUME NEW l \in ListObjects, NEW e, Order(l, e)
  PROVE  WellFormedChain(l)
<1> DEFINE n == l.size
           w == [k \in 1 .. n |-> e[k]]
           at(k) == IF k \in 1 .. n THEN w[k] ELSE NULL_INDEX
<1>1. n \in Nat
  BY ListFields
<1>2. w \in [1 .. n -> Slots] /\ \A k \in 1 .. n : w[k] = e[k]
  BY DEF Order, Live
<1>3. \A j, k \in 1 .. n : w[j] = w[k] => j = k
  BY <1>2 DEF Order
<1>4. \A k \in 0 .. n + 1 : at(k) = e[k]
  <2>1. \A k \in 0 .. n + 1 : k \in 1 .. n \/ k = 0 \/ k = n + 1
    BY <1>1
  <2>2. 0 \notin 1 .. n /\ n + 1 \notin 1 .. n
    BY <1>1
  <2> QED  BY <1>2, <2>1, <2>2 DEF Order
<1>5. \A k \in 0 .. n : l.next[at(k)] = at(k + 1) /\ l.prev[at(k + 1)] = at(k)
  <2>1. \A k \in 0 .. n : k \in 0 .. n + 1 /\ k + 1 \in 0 .. n + 1
    BY <1>1
  <2> HIDE DEF at, w
  <2> QED  BY <1>4, <2>1 DEF Order
<1>6. \A i \in Slots : i \in Live(l.storage) <=> \E k \in 1 .. n : w[k] = i
  BY <1>2, ZenonT(60) DEF Order
<1>7. IsListOrder(l, n, w)
  BY <1>3, <1>5 DEF IsListOrder
<1> HIDE DEF w
<1> QED  BY <1>2, <1>6, <1>7 DEF WellFormedChain

(* No two places of the order that have a next link, and no two that have  *)
(* a prev link, are the same.                                              *)
LEMMA OrderIsInjective ==
  ASSUME NEW l \in ListObjects, NEW e, Order(l, e)
  PROVE  /\ \A k \in 1 .. l.size : e[k] \in Slots /\ e[k] # NULL_INDEX
         /\ \A k \in 0 .. l.size + 1 : e[k] \in Links
         /\ \A j, k \in 0 .. l.size : e[j] = e[k] => j = k
         /\ \A j, k \in 1 .. l.size + 1 : e[j] = e[k] => j = k
<1> DEFINE n == l.size
<1>1. n \in Nat /\ NULL_INDEX \notin Slots
  BY ListFields
<1>2. \A k \in 1 .. n : e[k] \in Slots /\ e[k] # NULL_INDEX
  BY <1>1 DEF Order, Live
<1>3. \A k \in 0 .. n : k = 0 \/ k \in 1 .. n
  BY <1>1
<1>4. \A k \in 1 .. n + 1 : k = n + 1 \/ k \in 1 .. n
  BY <1>1
<1>5. \A k \in 0 .. l.size + 1 : e[k] \in Links
  BY DEF Order
<1>6. \A j, k \in 0 .. n : e[j] = e[k] => j = k
  BY <1>2, <1>3 DEF Order
<1>7. \A j, k \in 1 .. n + 1 : e[j] = e[k] => j = k
  BY <1>2, <1>4 DEF Order
<1> QED  BY <1>2, <1>5, <1>6, <1>7

-----------------------------------------------------------------------------
(* The order with the index new inserted behind place k. *)
InsertBehind(e, n, k, new) ==
  [j \in 0 .. n + 2 |-> IF j <= k THEN e[j] ELSE IF j = k + 1 THEN new ELSE e[j - 1]]

(* The order without place k. *)
RemovePlace(e, n, k) == [j \in 0 .. n |-> IF j < k THEN e[j] ELSE e[j + 1]]

(* emplace_after_index_and_return_index on a list that is not full inserts *)
(* the head of the freelist behind the given place and leaves the order of *)
(* the other elements, and their values, alone.                            *)
LEMMA EmplaceInOrder ==
  ASSUME NEW l \in ListObjects, WellFormedPool(l.storage), ~full(l.storage),
         NEW e, Order(l, e), NEW k \in 0 .. l.size, NEW v \in Contents
  PROVE  LET m == emplace_after_index(l, e[k], v) IN
         /\ m \in ListObjects
         /\ WellFormedPool(m.storage)
         /\ m.size = l.size + 1
         /\ Order(m, InsertBehind(e, l.size, k, l.storage.next_index))
<1> DEFINE n   == l.size
           new == l.storage.next_index
           c   == e[k]
           d   == e[k + 1]
           m   == emplace_after_index(l, c, v)
           h   == InsertBehind(e, n, k, new)
<1>1. /\ l.storage \in Pools /\ l.next \in [Links -> Links]
      /\ l.prev \in [Links -> Links] /\ n \in Nat /\ Slots \subseteq Links
      /\ NULL_INDEX \in Links /\ NULL_INDEX \notin Slots
  BY ListFields
<1>2. /\ new \in Slots /\ new \notin Live(l.storage)
      /\ emplace_and_return_index(l.storage, v) \in Pools
      /\ WellFormedPool(emplace_and_return_index(l.storage, v))
      /\ Live(emplace_and_return_index(l.storage, v)) = Live(l.storage) \cup {new}
  BY <1>1, EmplaceTakesAFreeCell
<1>3. k + 1 \in 1 .. n + 1 /\ k \in 0 .. n + 1 /\ k + 1 \in 0 .. n + 1
  BY <1>1
<1>4. c \in Links /\ d \in Links /\ l.next[c] = d
  BY <1>3 DEF Order
<1>5. \A j \in 0 .. n + 1 : e[j] \in Links /\ e[j] # new
  <2>1. \A j \in 0 .. n + 1 : j = 0 \/ j = n + 1 \/ j \in 1 .. n
    BY <1>1
  <2> QED  BY <1>1, <1>2, <2>1, SMTT(60) DEF Order
<1>6. c # new /\ d # new
  BY <1>3, <1>5
<1>7. /\ m.storage = emplace_and_return_index(l.storage, v)
      /\ m.size = n + 1
      /\ m.next = [[l.next EXCEPT ![new] = d] EXCEPT ![c] = new]
      /\ m.prev = [[l.prev EXCEPT ![d] = new] EXCEPT ![new] = c]
  <2>1. [l.next EXCEPT ![new] = l.next[c]][new] = d
    BY <1>1, <1>2, <1>4
  <2> QED  BY <1>4, <2>1 DEF emplace_after_index
<1>8. n + 1 <= MAXIMUM_SIZE
  <2> DEFINE w == [j \in 1 .. n |-> e[j]]
  <2>1. w \in [1 .. n -> Slots] /\ \A j \in 1 .. n : w[j] = e[j]
    BY OrderIsInjective
  <2>2. \A i, j \in 1 .. n : w[i] = w[j] => i = j
    BY <2>1 DEF Order
  <2>3. \A j \in 1 .. n : w[j] # new
    BY <2>1, <1>2 DEF Order
  <2> HIDE DEF w, n, new
  <2> QED  BY <1>1, <1>2, <2>1, <2>2, <2>3, FreelistHasRoom
<1>9. m \in ListObjects
  <2>1. m = [storage |-> m.storage, next |-> m.next, prev |-> m.prev, size |-> m.size]
    BY DEF emplace_after_index
  <2>2. m.next \in [Links -> Links] /\ m.prev \in [Links -> Links]
    BY <1>1, <1>2, <1>4, <1>7
  <2>3. m.size \in Links
    <3>1. m.size = n + 1 /\ n \in Nat
      BY <1>1, <1>7
    <3> HIDE DEF m, n
    <3> QED  BY <1>8, <3>1, MaximumSizeIsNat DEF Links
  <2> HIDE DEF m
  <2> QED  BY <1>2, <1>7, <2>1, <2>2, <2>3 DEF ListObjects
<1>10. /\ m.next[c] = new /\ m.next[new] = d
       /\ m.prev[d] = new /\ m.prev[new] = c
       /\ \A i \in Links \ {c, new} : m.next[i] = l.next[i]
       /\ \A i \in Links \ {d, new} : m.prev[i] = l.prev[i]
  <2> HIDE DEF c, d, m, new
  <2> QED  BY <1>1, <1>2, <1>4, <1>6, <1>7
<1>11. /\ \A j \in 0 .. k : h[j] = e[j]
       /\ h[k + 1] = new
       /\ \A j \in k + 2 .. n + 2 : h[j] = e[j - 1]
  BY <1>1 DEF InsertBehind
<1>12. \A j \in 0 .. n + 2 : j \in 0 .. k \/ j = k + 1 \/ j \in k + 2 .. n + 2
  BY <1>1
<1> HIDE DEF c, d, m, new, h
<1>13. h \in [0 .. n + 2 -> Links]
  <2>1. \A j \in 0 .. n + 2 : h[j] \in Links
    <3>1. \A j \in k + 2 .. n + 2 : j - 1 \in 0 .. n + 1
      BY <1>1
    <3>2. \A j \in 0 .. k : j \in 0 .. n + 1
      BY <1>1
    <3> QED  BY <1>1, <1>2, <1>5, <1>11, <1>12, <3>1, <3>2
  <2>2. h = [j \in 0 .. n + 2 |-> h[j]]
    BY DEF h, InsertBehind
  <2> QED  BY <2>1, <2>2
<1>14. h[0] = NULL_INDEX /\ h[n + 2] = NULL_INDEX
  <2>1. 0 \in 0 .. k /\ n + 2 \in k + 2 .. n + 2 /\ (n + 2) - 1 = n + 1
    BY <1>1
  <2> QED  BY <2>1, <1>11 DEF Order
<1>15. \A j \in 1 .. n + 1 :
         \/ j \in 1 .. k /\ j \in 1 .. n /\ h[j] = e[j]
         \/ j = k + 1 /\ h[j] = new
         \/ j \in k + 2 .. n + 1 /\ j - 1 \in 1 .. n /\ h[j] = e[j - 1]
  BY <1>1, <1>11, <1>12
<1>16. \A j \in 1 .. n + 1 : h[j] \in Live(m.storage)
  BY <1>2, <1>7, <1>15 DEF Order
<1>17. \A i, j \in 1 .. n + 1 : h[i] = h[j] => i = j
  <2> SUFFICES ASSUME NEW i \in 1 .. n + 1, NEW j \in 1 .. n + 1, h[i] = h[j]
               PROVE  i = j
    OBVIOUS
  <2>1. \A a, b \in 1 .. n : e[a] = e[b] => a = b
    BY DEF Order
  <2>2. \A a \in 1 .. n : e[a] # new
    BY <1>2 DEF Order
  <2> QED  BY <1>1, <1>15, <2>1, <2>2
<1>18. \A j \in 0 .. n + 1 : m.next[h[j]] = h[j + 1] /\ m.prev[h[j + 1]] = h[j]
  <2> SUFFICES ASSUME NEW j \in 0 .. n + 1
               PROVE  m.next[h[j]] = h[j + 1] /\ m.prev[h[j + 1]] = h[j]
    OBVIOUS
  <2>1. /\ \A a, b \in 0 .. n : e[a] = e[b] => a = b
        /\ \A a, b \in 1 .. n + 1 : e[a] = e[b] => a = b
    BY OrderIsInjective
  <2>2. CASE j < k
    <3>1. j \in 0 .. k /\ j + 1 \in 0 .. k /\ j \in 0 .. n /\ j + 1 \in 1 .. n + 1
      BY <2>2, <1>1
    <3>2. h[j] = e[j] /\ h[j + 1] = e[j + 1]
      BY <3>1, <1>11
    <3>3. e[j] # c /\ e[j + 1] # d
      BY <2>1, <2>2, <3>1, <1>3 DEF c, d
    <3>4. e[j] \in Links \ {c, new} /\ e[j + 1] \in Links \ {d, new}
      BY <3>1, <3>3, <1>1, <1>5
    <3> QED  BY <3>1, <3>2, <3>4, <1>10 DEF Order
  <2>3. CASE j = k
    <3>1. h[j] = c /\ h[j + 1] = new
      BY <2>3, <1>11 DEF c
    <3> QED  BY <3>1, <1>10
  <2>4. CASE j = k + 1
    <3>1. j + 1 \in k + 2 .. n + 2 /\ (j + 1) - 1 = k + 1
      BY <2>4, <1>1
    <3>2. h[j] = new /\ h[j + 1] = d
      BY <2>4, <3>1, <1>11 DEF d
    <3> QED  BY <3>2, <1>10
  <2>5. CASE j > k + 1
    <3>1. /\ j \in k + 2 .. n + 2 /\ j + 1 \in k + 2 .. n + 2 /\ (j + 1) - 1 = j
          /\ j - 1 \in 0 .. n /\ j \in 1 .. n + 1 /\ (j - 1) + 1 = j
          /\ j - 1 # k /\ j # k + 1
      BY <2>5, <1>1
    <3>2. h[j] = e[j - 1] /\ h[j + 1] = e[j]
      BY <3>1, <1>11
    <3>3. e[j - 1] # c /\ e[j] # d
      BY <2>1, <3>1, <1>3 DEF c, d
    <3>4. e[j - 1] \in Links \ {c, new} /\ e[j] \in Links \ {d, new}
      BY <3>1, <3>3, <1>1, <1>5
    <3>5. l.next[e[j - 1]] = e[j] /\ l.prev[e[j]] = e[j - 1]
      BY <3>1 DEF Order
    <3> QED  BY <3>2, <3>4, <3>5, <1>10
  <2> QED  BY <2>2, <2>3, <2>4, <2>5, <1>1
<1>19. \A i \in Live(m.storage) : \E j \in 1 .. n + 1 : h[j] = i
  <2> SUFFICES ASSUME NEW i \in Live(m.storage)
               PROVE  \E j \in 1 .. n + 1 : h[j] = i
    OBVIOUS
  <2>1. CASE i = new
    BY <2>1, <1>3, <1>11
  <2>2. CASE i # new
    <3>1. PICK a \in 1 .. n : e[a] = i
      BY <2>2, <1>2, <1>7 DEF Order
    <3>2. CASE a <= k
      <4>1. a \in 0 .. k /\ a \in 1 .. n + 1
        BY <3>2, <1>1
      <4> QED  BY <3>1, <4>1, <1>11
    <3>3. CASE a > k
      <4>1. a + 1 \in k + 2 .. n + 2 /\ a + 1 \in 1 .. n + 1 /\ (a + 1) - 1 = a
        BY <3>3, <1>1
      <4> QED  BY <3>1, <4>1, <1>11
    <3> QED  BY <3>2, <3>3, <1>1
  <2> QED  BY <2>1, <2>2
<1>20. Order(m, h)
  <2>1. m.size + 1 = n + 2
    BY <1>1, <1>7
  <2> QED  BY <2>1, <1>7, <1>13, <1>14, <1>16, <1>17, <1>18, <1>19 DEF Order
<1> QED  BY <1>2, <1>7, <1>9, <1>20 DEF m, c, h, new

(* delete_at_and_return_next_index takes one place out of the order,       *)
(* returns the next one and leaves the other elements alone.               *)
LEMMA DeleteInOrder ==
  ASSUME NEW l \in ListObjects, WellFormedPool(l.storage),
         NEW e, Order(l, e), NEW k \in 1 .. l.size
  PROVE  LET m == delete_at(l, e[k]) IN
         /\ m \in ListObjects
         /\ WellFormedPool(m.storage)
         /\ m.size = l.size - 1
         /\ Order(m, RemovePlace(e, l.size, k))
         /\ NextAfterDelete(l, e[k]) = e[k + 1]
<1> DEFINE n == l.size
           x == e[k]
           c == e[k - 1]
           d == e[k + 1]
           m == delete_at(l, x)
           h == RemovePlace(e, n, k)
<1>1. /\ l.storage \in Pools /\ l.next \in [Links -> Links]
      /\ l.prev \in [Links -> Links] /\ n \in Nat /\ n <= MAXIMUM_SIZE
  BY ListFields
<1>2. /\ delete_at_and_return_repositioned_index(l.storage, x) \in Pools
      /\ WellFormedPool(delete_at_and_return_repositioned_index(l.storage, x))
      /\ Live(delete_at_and_return_repositioned_index(l.storage, x)) = Live(l.storage) \ {x}
  <2>1. x \in Live(l.storage)
    BY DEF Order
  <2> QED  BY <1>1, <2>1, DeleteFreesTheCell
<1>3. /\ k - 1 \in 0 .. n /\ (k - 1) + 1 = k /\ k \in 0 .. n
      /\ k \in 1 .. n + 1 /\ k + 1 \in 1 .. n + 1 /\ k - 1 # k
  BY <1>1
<1>4. /\ \A a, b \in 0 .. n : e[a] = e[b] => a = b
      /\ \A a, b \in 1 .. n + 1 : e[a] = e[b] => a = b
      /\ \A a \in 0 .. n + 1 : e[a] \in Links
  BY OrderIsInjective
<1>5. l.next[x] = d /\ l.prev[x] = c
  BY <1>3 DEF Order
<1>6. c \in Links /\ d \in Links /\ x \in Links /\ c # x
  <2>1. k - 1 \in 0 .. n + 1 /\ k \in 0 .. n + 1 /\ k + 1 \in 0 .. n + 1
    BY <1>1
  <2> QED  BY <2>1, <1>3, <1>4
<1>7. /\ m.storage = delete_at_and_return_repositioned_index(l.storage, x)
      /\ m.size = n - 1
      /\ m.next = [l.next EXCEPT ![c] = d]
      /\ m.prev = [l.prev EXCEPT ![d] = c]
  <2>1. [l.next EXCEPT ![l.prev[x]] = l.next[x]][x] = d
    BY <1>1, <1>5, <1>6
  <2> QED  BY <1>5, <2>1 DEF delete_at
<1>8. m.next[x] = d
  BY <1>1, <1>5, <1>6, <1>7
<1>9. NextAfterDelete(l, x) = d
  BY <1>8 DEF NextAfterDelete
<1>10. m \in ListObjects
  <2>1. m = [storage |-> m.storage, next |-> m.next, prev |-> m.prev, size |-> m.size]
    BY DEF delete_at
  <2>2. m.next \in [Links -> Links] /\ m.prev \in [Links -> Links]
    BY <1>1, <1>6, <1>7
  <2>3. m.size \in Links
    BY <1>1, <1>7, MaximumSizeIsNat DEF Links
  <2> HIDE DEF m
  <2> QED  BY <1>2, <1>7, <2>1, <2>2, <2>3 DEF ListObjects
<1>11. /\ m.next[c] = d /\ m.prev[d] = c
       /\ \A i \in Links \ {c} : m.next[i] = l.next[i]
       /\ \A i \in Links \ {d} : m.prev[i] = l.prev[i]
  <2> HIDE DEF c, d, m
  <2> QED  BY <1>1, <1>6, <1>7
<1>12. /\ \A j \in 0 .. k - 1 : h[j] = e[j]
       /\ \A j \in k .. n : h[j] = e[j + 1]
  BY <1>1 DEF RemovePlace
<1>13. \A j \in 0 .. n : j \in 0 .. k - 1 \/ j \in k .. n
  BY <1>1
<1> HIDE DEF c, d, m, x, h
<1>14. h \in [0 .. n -> Links]
  <2>1. \A j \in 0 .. n : h[j] \in Links
    <3>1. \A j \in k .. n : j + 1 \in 0 .. n + 1
      BY <1>1
    <3>2. \A j \in 0 .. k - 1 : j \in 0 .. n + 1
      BY <1>1
    <3> QED  BY <1>4, <1>12, <1>13, <3>1, <3>2
  <2>2. h = [j \in 0 .. n |-> h[j]]
    BY DEF h, RemovePlace
  <2> QED  BY <2>1, <2>2
<1>15. h[0] = NULL_INDEX /\ h[n] = NULL_INDEX
  <2>1. 0 \in 0 .. k - 1 /\ n \in k .. n
    BY <1>1
  <2> QED  BY <2>1, <1>12 DEF Order
<1>16. \A j \in 1 .. n - 1 :
         \/ j \in 1 .. k - 1 /\ j \in 1 .. n /\ j # k /\ h[j] = e[j]
         \/ j \in k .. n - 1 /\ j + 1 \in 1 .. n /\ j + 1 # k /\ h[j] = e[j + 1]
  BY <1>1, <1>12, <1>13
<1>17. \A a, b \in 1 .. n : e[a] = e[b] => a = b
  BY DEF Order
<1>18. \A j \in 1 .. n - 1 : h[j] \in Live(m.storage)
  BY <1>2, <1>7, <1>16, <1>17 DEF Order, x
<1>19. \A i, j \in 1 .. n - 1 : h[i] = h[j] => i = j
  <2> SUFFICES ASSUME NEW i \in 1 .. n - 1, NEW j \in 1 .. n - 1, h[i] = h[j]
               PROVE  i = j
    OBVIOUS
  <2> QED  BY <1>1, <1>16, <1>17
<1>20. \A j \in 0 .. n - 1 : m.next[h[j]] = h[j + 1] /\ m.prev[h[j + 1]] = h[j]
  <2> SUFFICES ASSUME NEW j \in 0 .. n - 1
               PROVE  m.next[h[j]] = h[j + 1] /\ m.prev[h[j + 1]] = h[j]
    OBVIOUS
  <2>1. CASE j < k - 1
    <3>1. /\ j \in 0 .. k - 1 /\ j + 1 \in 0 .. k - 1 /\ j \in 0 .. n /\ j + 1 \in 1 .. n + 1
          /\ j # k - 1 /\ j + 1 # k + 1 /\ j \in 0 .. n + 1 /\ j + 1 \in 0 .. n + 1
      BY <2>1, <1>1
    <3>2. h[j] = e[j] /\ h[j + 1] = e[j + 1]
      BY <3>1, <1>12
    <3>3. e[j] \in Links \ {c} /\ e[j + 1] \in Links \ {d}
      BY <3>1, <1>3, <1>4 DEF c, d
    <3> QED  BY <3>1, <3>2, <3>3, <1>11 DEF Order
  <2>2. CASE j = k - 1
    <3>1. j \in 0 .. k - 1 /\ j + 1 \in k .. n /\ j + 1 = k
      BY <2>2, <1>1
    <3>2. h[j] = c /\ h[j + 1] = d
      BY <2>2, <3>1, <1>12 DEF c, d
    <3> QED  BY <3>2, <1>11
  <2>3. CASE j > k - 1
    <3>1. /\ j \in k .. n /\ j + 1 \in k .. n /\ j + 1 \in 0 .. n /\ (j + 1) + 1 \in 1 .. n + 1
          /\ j + 1 # k - 1 /\ (j + 1) + 1 # k + 1
          /\ j + 1 \in 0 .. n + 1 /\ (j + 1) + 1 \in 0 .. n + 1
      BY <2>3, <1>1
    <3>2. h[j] = e[j + 1] /\ h[j + 1] = e[(j + 1) + 1]
      BY <3>1, <1>12
    <3>3. e[j + 1] \in Links \ {c} /\ e[(j + 1) + 1] \in Links \ {d}
      BY <3>1, <1>3, <1>4 DEF c, d
    <3>4. l.next[e[j + 1]] = e[(j + 1) + 1] /\ l.prev[e[(j + 1) + 1]] = e[j + 1]
      BY <3>1 DEF Order
    <3> QED  BY <3>2, <3>3, <3>4, <1>11
  <2> QED  BY <2>1, <2>2, <2>3, <1>1
<1>21. \A i \in Live(m.storage) : \E j \in 1 .. n - 1 : h[j] = i
  <2> SUFFICES ASSUME NEW i \in Live(m.storage)
               PROVE  \E j \in 1 .. n - 1 : h[j] = i
    OBVIOUS
  <2>1. i # x /\ i \in Live(l.storage)
    BY <1>2, <1>7
  <2>2. PICK a \in 1 .. n : e[a] = i
    BY <2>1 DEF Order
  <2>3. a # k
    BY <2>1, <2>2 DEF x
  <2>4. CASE a < k
    <3>1. a \in 0 .. k - 1 /\ a \in 1 .. n - 1
      BY <2>4, <1>1
    <3> QED  BY <2>2, <3>1, <1>12
  <2>5. CASE a > k
    <3>1. a - 1 \in k .. n /\ a - 1 \in 1 .. n - 1 /\ (a - 1) + 1 = a
      BY <2>5, <1>1
    <3> QED  BY <2>2, <3>1, <1>12
  <2> QED  BY <2>3, <2>4, <2>5, <1>1
<1>22. Order(m, h)
  <2>1. m.size + 1 = n
    BY <1>1, <1>7
  <2> QED  BY <2>1, <1>7, <1>14, <1>15, <1>18, <1>19, <1>20, <1>21 DEF Order
<1> QED  BY <1>2, <1>7, <1>9, <1>10, <1>22 DEF m, x, d, h

-----------------------------------------------------------------------------
(* A walk along next from place k meets the places from k on. *)
LEMMA WalkIsSuffix ==
  ASSUME NEW l \in ListObjects, NEW e, Order(l, e), NEW k \in 1 .. l.size + 1
  PROVE  WalkFrom(l, e[k]) = {e[j] : j \in k .. l.size + 1}
<1> DEFINE n == l.size
           Body(f) == [j \in Nat |-> IF j = 0 THEN e[k]
                         ELSE IF f[j - 1] = NULL_INDEX THEN NULL_INDEX
                              ELSE l.next[f[j - 1]]]
           step == CHOOSE f : f = Body(f)
           g == [j \in Nat |-> IF k + j <= n + 1 THEN e[k + j] ELSE NULL_INDEX]
<1>1. n \in Nat /\ n <= MAXIMUM_SIZE /\ n \in Links
  BY ListFields
<1>2. \A j \in Nat : j > 0 =>
        g[j] = IF g[j - 1] = NULL_INDEX THEN NULL_INDEX ELSE l.next[g[j - 1]]
  <2> SUFFICES ASSUME NEW j \in Nat, j > 0
               PROVE  g[j] = IF g[j - 1] = NULL_INDEX THEN NULL_INDEX ELSE l.next[g[j - 1]]
    OBVIOUS
  <2>1. j - 1 \in Nat
    OBVIOUS
  <2>2. CASE k + j <= n + 1
    <3>1. k + (j - 1) \in 1 .. n /\ k + (j - 1) \in 0 .. n /\ (k + (j - 1)) + 1 = k + j
      BY <1>1, <2>2
    <3>2. g[j] = e[k + j] /\ g[j - 1] = e[k + (j - 1)]
      BY <1>1, <2>1, <2>2
    <3>3. e[k + (j - 1)] # NULL_INDEX
      BY <3>1, OrderIsInjective
    <3>4. l.next[e[k + (j - 1)]] = e[k + j]
      BY <3>1 DEF Order
    <3> QED  BY <3>2, <3>3, <3>4
  <2>3. CASE ~(k + j <= n + 1)
    <3>1. g[j] = NULL_INDEX
      BY <2>3
    <3>2. CASE k + (j - 1) <= n + 1
      <4>1. k + (j - 1) = n + 1
        BY <1>1, <2>3, <3>2
      <4>2. g[j - 1] = NULL_INDEX
        BY <2>1, <4>1 DEF Order
      <4> QED  BY <3>1, <4>2
    <3>3. CASE ~(k + (j - 1) <= n + 1)
      <4>1. g[j - 1] = NULL_INDEX
        BY <2>1, <3>3
      <4> QED  BY <3>1, <4>1
    <3> QED  BY <3>2, <3>3
  <2> QED  BY <2>2, <2>3
<1>3. g[0] = e[k]
  BY <1>1
<1>4. g = Body(g)
  <2>1. g = [j \in Nat |-> g[j]]
    OBVIOUS
  <2>2. \A j \in Nat : j = 0 \/ j > 0
    OBVIOUS
  <2> HIDE DEF g
  <2>3. \A j \in Nat : g[j] = Body(g)[j]
    BY <1>2, <1>3, <2>2
  <2>4. Body(g) = [j \in Nat |-> Body(g)[j]]
    OBVIOUS
  <2> HIDE DEF Body
  <2> QED  BY <2>1, <2>3, <2>4
<1>5. step = Body(step)
  <2> HIDE DEF g, Body
  <2> QED  BY <1>4
<1>6. \A j \in Nat : step[j] = g[j]
  <2> DEFINE S == {j \in Nat : step[j] = g[j]}
  <2> HIDE DEF g, step
  <2>1. 0 \in S
    BY <1>3, <1>5
  <2>2. ASSUME NEW j \in Nat, j \in S PROVE j + 1 \in S
    <3>1. j + 1 \in Nat /\ j + 1 > 0 /\ (j + 1) - 1 = j /\ j + 1 # 0
      OBVIOUS
    <3>2. step[j + 1] = IF step[j] = NULL_INDEX THEN NULL_INDEX ELSE l.next[step[j]]
      BY <1>5, <3>1
    <3>3. g[j + 1] = IF g[j] = NULL_INDEX THEN NULL_INDEX ELSE l.next[g[j]]
      BY <1>2, <3>1
    <3> QED  BY <2>2, <3>1, <3>2, <3>3
  <2>3. Nat \subseteq S
    <3> HIDE DEF S
    <3> QED  BY <2>1, <2>2, NatSetInduction
  <2> QED  BY <2>3
<1>7. WalkFrom(l, e[k]) = {step[j] : j \in Links}
  BY DEF WalkFrom
<1>8. ASSUME NEW j \in Links PROVE \E i \in k .. n + 1 : g[j] = e[i]
  <2>1. j \in Nat
    BY MaximumSizeIsNat DEF Links
  <2>2. CASE k + j <= n + 1
    <3>1. k + j \in k .. n + 1 /\ g[j] = e[k + j]
      BY <1>1, <2>1, <2>2
    <3> QED  BY <3>1
  <2>3. CASE ~(k + j <= n + 1)
    <3>1. n + 1 \in k .. n + 1 /\ g[j] = NULL_INDEX
      BY <1>1, <2>1, <2>3
    <3> QED  BY <3>1, ZenonT(60) DEF Order
  <2> QED  BY <2>2, <2>3
<1>9. ASSUME NEW i \in k .. n + 1 PROVE \E j \in Links : g[j] = e[i]
  <2>1. i - k \in Links /\ i - k \in Nat /\ k + (i - k) = i /\ i <= n + 1
    BY <1>1, MaximumSizeIsNat DEF Links
  <2>2. g[i - k] = e[i]
    BY <2>1
  <2> QED  BY <2>1, <2>2
<1>10. Links \subseteq Nat
  BY MaximumSizeIsNat DEF Links
<1> HIDE DEF g, step
<1> QED  BY <1>6, <1>7, <1>8, <1>9, <1>10

(* The loops from front_index() to NULL_INDEX visit exactly the cells that *)
(* hold a value.                                                           *)
LEMMA ChainedIsLive ==
  ASSUME NEW l \in ListObjects, WellFormedChain(l)
  PROVE  Chained(l) = Live(l.storage)
<1>1. PICK e : Order(l, e)
  BY ChainHasOrder
<1>2. l.size \in Nat
  BY ListFields
<1>3. 0 \in 0 .. l.size /\ 0 + 1 = 1 /\ 1 \in 1 .. l.size + 1
  BY <1>2
<1>4. front_index(l) = e[1]
  BY <1>1, <1>3 DEF Order, front_index
<1>5. Chained(l) = {e[j] : j \in 1 .. l.size + 1} \ {NULL_INDEX}
  BY <1>1, <1>3, <1>4, WalkIsSuffix DEF Chained
<1>6. \A j \in 1 .. l.size + 1 : j \in 1 .. l.size \/ j = l.size + 1
  BY <1>2
<1>7. \A j \in 1 .. l.size : j \in 1 .. l.size + 1 /\ e[j] # NULL_INDEX
  BY <1>1, <1>2, OrderIsInjective
<1>8. Chained(l) \subseteq Live(l.storage)
  BY <1>1, <1>5, <1>6 DEF Order
<1>9. Live(l.storage) \subseteq Chained(l)
  BY <1>1, <1>5, <1>7 DEF Order
<1> QED  BY <1>8, <1>9

(* The default constructor builds a well-formed list with no element. *)
LEMMA EmptyListIsGood ==
  EmptyList \in GoodLists /\ EmptyList.size = 0 /\ Live(EmptyList.storage) = {}
<1> DEFINE l == EmptyList
           e == [k \in 0 .. 1 |-> NULL_INDEX]
<1>1. /\ l.storage = EmptyPool /\ l.size = 0
      /\ l.next \in [Links -> Links] /\ l.prev \in [Links -> Links]
      /\ l.next[NULL_INDEX] = NULL_INDEX /\ l.prev[NULL_INDEX] = NULL_INDEX
      /\ NULL_INDEX \in Links /\ 0 \in Links
  BY MaximumSizeIsNat DEF EmptyList, Links, NULL_INDEX
<1>2. l = [storage |-> l.storage, next |-> l.next, prev |-> l.prev, size |-> l.size]
  BY DEF EmptyList
<1>3. l.storage \in Pools /\ WellFormedPool(l.storage) /\ Live(l.storage) = {}
  BY <1>1, EmptyPoolIsWellFormed
<1>4. l \in ListObjects
  <2> HIDE DEF l
  <2> QED  BY <1>1, <1>2, <1>3 DEF ListObjects
<1>5. Order(l, e)
  <2>1. e[0] = NULL_INDEX /\ e[1] = NULL_INDEX /\ e \in [0 .. 1 -> Links]
    BY <1>1
  <2>2. 1 .. l.size = {} /\ l.size + 1 = 1 /\ 0 .. l.size = {0}
    BY <1>1
  <2> HIDE DEF e, l
  <2> QED  BY <1>1, <1>3, <2>1, <2>2 DEF Order
<1> QED  BY <1>1, <1>3, <1>4, <1>5, OrderIsChain DEF GoodLists

(* A walk along the freelist meets exactly the cells that hold no value,   *)
(* so that both branches of set_freelist_state_from_other take the same    *)
(* links.                                                                  *)
LEMMA FreelistedIsFree ==
  ASSUME NEW p \in Pools, WellFormedPool(p)
  PROVE  Freelisted(p) = Slots \ Live(p)
<1>1. PICK n \in 0 .. MAXIMUM_SIZE : \E f \in [1 .. n -> Slots] :
        /\ IsFreelist(p, n, f)
        /\ \A i \in Slots : i \notin Live(p) <=> \E k \in 1 .. n : f[k] = i
  BY DEF WellFormedPool
<1>2. PICK f \in [1 .. n -> Slots] :
        /\ IsFreelist(p, n, f)
        /\ \A i \in Slots : i \notin Live(p) <=> \E k \in 1 .. n : f[k] = i
  BY <1>1
<1> DEFINE Body(s) == [j \in Nat |-> IF j = 0 THEN p.next_index
                         ELSE IF s[j - 1] \in Slots THEN p.array[s[j - 1]] ELSE s[j - 1]]
           step == CHOOSE s : s = Body(s)
           g == [j \in Nat |-> IF j + 1 <= n THEN f[j + 1] ELSE MAXIMUM_SIZE]
<1>3. n \in Nat /\ n <= MAXIMUM_SIZE /\ MAXIMUM_SIZE \in Nat /\ MAXIMUM_SIZE \notin Slots
  BY MaximumSizeIsNat DEF Slots
<1>4. /\ \A k \in 1 .. n : p.array[f[k]] = IF k = n THEN MAXIMUM_SIZE ELSE f[k + 1]
      /\ p.next_index = IF n = 0 THEN MAXIMUM_SIZE ELSE f[1]
  BY <1>2 DEF IsFreelist
<1>5. \A j \in Nat : j > 0 =>
        g[j] = IF g[j - 1] \in Slots THEN p.array[g[j - 1]] ELSE g[j - 1]
  <2> SUFFICES ASSUME NEW j \in Nat, j > 0
               PROVE  g[j] = IF g[j - 1] \in Slots THEN p.array[g[j - 1]] ELSE g[j - 1]
    OBVIOUS
  <2>1. j - 1 \in Nat /\ (j - 1) + 1 = j
    OBVIOUS
  <2>2. CASE j <= n
    <3>1. j \in 1 .. n /\ g[j - 1] = f[j] /\ f[j] \in Slots
      BY <1>3, <2>1, <2>2
    <3>2. g[j] = IF j = n THEN MAXIMUM_SIZE ELSE f[j + 1]
      BY <1>3, <2>2
    <3> QED  BY <1>4, <3>1, <3>2
  <2>3. CASE ~(j <= n)
    <3>1. g[j] = MAXIMUM_SIZE /\ g[j - 1] = MAXIMUM_SIZE
      BY <1>3, <2>1, <2>3
    <3> QED  BY <1>3, <3>1
  <2> QED  BY <2>2, <2>3
<1>6. g[0] = p.next_index
  BY <1>3, <1>4
<1>7. g = Body(g)
  <2>1. g = [j \in Nat |-> g[j]]
    OBVIOUS
  <2>2. \A j \in Nat : j = 0 \/ j > 0
    OBVIOUS
  <2> HIDE DEF g
  <2>3. \A j \in Nat : g[j] = Body(g)[j]
    BY <1>5, <1>6, <2>2
  <2>4. Body(g) = [j \in Nat |-> Body(g)[j]]
    OBVIOUS
  <2> HIDE DEF Body
  <2> QED  BY <2>1, <2>3, <2>4
<1>8. step = Body(step)
  <2> HIDE DEF g, Body
  <2> QED  BY <1>7
<1>9. \A j \in Nat : step[j] = g[j]
  <2> DEFINE S == {j \in Nat : step[j] = g[j]}
  <2> HIDE DEF g, step
  <2>1. 0 \in S
    BY <1>6, <1>8
  <2>2. ASSUME NEW j \in Nat, j \in S PROVE j + 1 \in S
    <3>1. j + 1 \in Nat /\ j + 1 > 0 /\ (j + 1) - 1 = j /\ j + 1 # 0
      OBVIOUS
    <3>2. step[j + 1] = IF step[j] \in Slots THEN p.array[step[j]] ELSE step[j]
      BY <1>8, <3>1
    <3>3. g[j + 1] = IF g[j] \in Slots THEN p.array[g[j]] ELSE g[j]
      BY <1>5, <3>1
    <3> QED  BY <2>2, <3>1, <3>2, <3>3
  <2>3. Nat \subseteq S
    <3> HIDE DEF S
    <3> QED  BY <2>1, <2>2, NatSetInduction
  <2> QED  BY <2>3
<1>10. Freelisted(p) = {step[j] : j \in Links} \cap Slots
  BY DEF Freelisted
<1>11. Links \subseteq Nat
  BY MaximumSizeIsNat DEF Links
<1>12. ASSUME NEW i \in Freelisted(p) PROVE i \in Slots /\ i \notin Live(p)
  <2>1. PICK j \in Links : i = step[j]
    BY <1>10
  <2>2. i = g[j] /\ i \in Slots /\ j \in Nat
    BY <1>9, <1>10, <1>11, <2>1
  <2>3. j + 1 \in 1 .. n /\ i = f[j + 1]
    BY <1>3, <2>2
  <2> QED  BY <1>2, <2>2, <2>3
<1>13. ASSUME NEW i \in Slots, i \notin Live(p) PROVE i \in Freelisted(p)
  <2>1. PICK k \in 1 .. n : f[k] = i
    BY <1>2, <1>13
  <2>2. k - 1 \in Links /\ k - 1 \in Nat /\ (k - 1) + 1 = k /\ k <= n
    BY <1>3 DEF Links
  <2>3. g[k - 1] = i
    BY <2>1, <2>2
  <2>4. step[k - 1] = i
    BY <1>9, <2>2, <2>3
  <2> HIDE DEF step
  <2> QED  BY <1>10, <2>2, <2>4
<1> QED  BY <1>12, <1>13

(* nontrivial_copy_impl: a copy has the links, the freelist and the values *)
(* of the original, whatever the destination held and on both branches of  *)
(* set_freelist_state_from_other, since the cells of the chain and those   *)
(* of the freelist make up the slab.                                       *)
LEMMA CopyIsTheSame ==
  ASSUME NEW l \in GoodLists, NEW this
  PROVE  Copies(this, l) = {l}
<1>1. l \in ListObjects /\ WellFormedPool(l.storage) /\ WellFormedChain(l)
  BY DEF GoodLists
<1>2. l.storage \in Pools
  BY <1>1, ListFields
<1>3. /\ l.storage = [array |-> l.storage.array, next_index |-> l.storage.next_index]
      /\ l.storage.array = [i \in Slots |-> l.storage.array[i]]
      /\ l = [storage |-> l.storage, next |-> l.next, prev |-> l.prev, size |-> l.size]
  BY <1>1, <1>2 DEF ListObjects, Pools
<1>4. Chained(l) = Live(l.storage)
  BY <1>1, ChainedIsLive
<1>5. ASSUME NEW ce \in BOOLEAN PROVE nontrivial_copy_impl(this, l, ce) = l
  <2> DEFINE free == set_freelist_state_from_other(this.storage, l.storage, ce)
             cells == [i \in Slots |-> IF i \in Chained(l) THEN l.storage.array[i]
                                       ELSE free.array[i]]
  <2>1. /\ free = [array |-> free.array, next_index |-> l.storage.next_index]
        /\ \A i \in Slots \ Live(l.storage) : free.array[i] = l.storage.array[i]
    BY <1>1, <1>2, FreelistedIsFree DEF set_freelist_state_from_other
  <2>2. \A i \in Slots : cells[i] = l.storage.array[i]
    <3> HIDE DEF free
    <3> QED  BY <1>4, <2>1
  <2>3. cells = l.storage.array
    <3>1. cells = [i \in Slots |-> cells[i]]
      OBVIOUS
    <3> HIDE DEF cells
    <3> QED  BY <1>3, <2>2, <3>1
  <2>4. [free EXCEPT !.array = cells] = l.storage
    <3> HIDE DEF free, cells
    <3> QED  BY <1>3, <2>1, <2>3
  <2> QED  BY <1>3, <2>4 DEF nontrivial_copy_impl
<1> QED  BY <1>5 DEF Copies

(* nontrivial_move_impl leaves a source with the same order whose every    *)
(* element has been moved from; its free cells are untouched.              *)
LEMMA MovedOutKeepsOrder ==
  ASSUME NEW l \in GoodLists
  PROVE  LET m == MovedOut(l) IN
         /\ m \in GoodLists
         /\ Live(m.storage) = Live(l.storage)
         /\ m.next = l.next /\ m.prev = l.prev /\ m.size = l.size
         /\ \A e : Order(l, e) => Order(m, e)
<1> DEFINE m == MovedOut(l)
           p == l.storage
           q == [array |-> [i \in Slots |-> IF i \in Live(p) THEN MovedFrom ELSE p.array[i]],
                 next_index |-> p.next_index]
<1>1. l \in ListObjects /\ WellFormedPool(p) /\ WellFormedChain(l)
  BY DEF GoodLists
<1>2. /\ p \in Pools /\ l.next \in [Links -> Links]
      /\ l.prev \in [Links -> Links] /\ l.size \in Links
  BY <1>1, ListFields
<1>3. Chained(l) = Live(p)
  BY <1>1, ChainedIsLive
<1>4. m.storage = q /\ m.next = l.next /\ m.prev = l.prev /\ m.size = l.size
  <2>1. p = [array |-> p.array, next_index |-> p.next_index]
    BY <1>2 DEF Pools
  <2>2. l = [storage |-> l.storage, next |-> l.next, prev |-> l.prev, size |-> l.size]
    BY <1>1 DEF ListObjects
  <2> QED  BY <1>3, <2>1, <2>2 DEF MovedOut
<1>5. q \in Pools
  BY <1>2 DEF Pools, Contents
<1>6. /\ q.next_index = p.next_index
      /\ \A i \in Slots \ Live(p) : q.array[i] = p.array[i]
      /\ \A i \in Live(p) : q.array[i] = MovedFrom
  BY DEF Live
<1> HIDE DEF q
<1>7. Live(q) = Live(p)
  BY <1>6 DEF Live, Contents
<1>8. WellFormedPool(q)
  <2>1. PICK n \in 0 .. MAXIMUM_SIZE : \E f \in [1 .. n -> Slots] :
          /\ IsFreelist(p, n, f)
          /\ \A i \in Slots : i \notin Live(p) <=> \E k \in 1 .. n : f[k] = i
    BY <1>1 DEF WellFormedPool
  <2>2. PICK f \in [1 .. n -> Slots] :
          /\ IsFreelist(p, n, f)
          /\ \A i \in Slots : i \notin Live(p) <=> \E k \in 1 .. n : f[k] = i
    BY <2>1
  <2>3. \A k \in 1 .. n : f[k] \in Slots \ Live(p) /\ q.array[f[k]] = p.array[f[k]]
    BY <2>2, <1>6
  <2>4. IsFreelist(q, n, f)
    BY <1>6, <2>2, <2>3 DEF IsFreelist
  <2> QED  BY <1>7, <2>2, <2>4 DEF WellFormedPool
<1>9. m \in ListObjects
  <2>1. m = [storage |-> m.storage, next |-> m.next, prev |-> m.prev, size |-> m.size]
    BY <1>1 DEF MovedOut, ListObjects
  <2> HIDE DEF m
  <2> QED  BY <1>2, <1>4, <1>5, <2>1 DEF ListObjects
<1> HIDE DEF m
<1>10. ASSUME NEW e, Order(l, e) PROVE Order(m, e)
  BY <1>4, <1>7, <1>10 DEF Order
<1>11. WellFormedChain(m)
  BY <1>1, <1>9, <1>10, ChainHasOrder, OrderIsChain
<1> QED  BY <1>4, <1>7, <1>8, <1>9, <1>10, <1>11 DEF GoodLists, m

-----------------------------------------------------------------------------
(* Every position, an element or the sentinel, is a place of the order     *)
(* with a next link and a place with a prev link.                          *)
LEMMA PositionHasPlace ==
  ASSUME NEW l \in ListObjects, NEW e, Order(l, e),
         NEW i \in Live(l.storage) \cup {NULL_INDEX}
  PROVE  (\E k \in 0 .. l.size : i = e[k]) /\ (\E k \in 1 .. l.size + 1 : i = e[k])
<1>1. l.size \in Nat
  BY ListFields
<1>2. 0 \in 0 .. l.size /\ l.size + 1 \in 1 .. l.size + 1
  BY <1>1
<1>3. \A k \in 1 .. l.size : k \in 0 .. l.size /\ k \in 1 .. l.size + 1
  BY <1>1
<1> QED  BY <1>2, <1>3 DEF Order

(* The converse: the places of the order are positions. *)
LEMMA PlaceIsPosition ==
  ASSUME NEW l \in ListObjects, NEW e, Order(l, e), NEW k \in 0 .. l.size + 1
  PROVE  e[k] \in Live(l.storage) \cup {NULL_INDEX}
<1>1. l.size \in Nat
  BY ListFields
<1>2. k = 0 \/ k = l.size + 1 \/ k \in 1 .. l.size
  BY <1>1
<1> QED  BY <1>2 DEF Order

(* Neither link of a position leaves the list. *)
LEMMA LinksStayInList ==
  ASSUME NEW l \in GoodLists, NEW i \in Live(l.storage) \cup {NULL_INDEX}
  PROVE  /\ l.prev[i] \in Live(l.storage) \cup {NULL_INDEX}
         /\ l.next[i] \in Live(l.storage) \cup {NULL_INDEX}
<1>1. PICK e : Order(l, e)
  BY ChainHasOrder DEF GoodLists
<1>2. l \in ListObjects /\ l.size \in Nat
  BY ListFields DEF GoodLists
<1>3. l.prev[i] \in Live(l.storage) \cup {NULL_INDEX}
  <2>1. PICK k \in 1 .. l.size + 1 : i = e[k]
    BY <1>1, <1>2, PositionHasPlace
  <2>2. k - 1 \in 0 .. l.size /\ k - 1 \in 0 .. l.size + 1 /\ (k - 1) + 1 = k
    BY <1>2
  <2>3. l.prev[i] = e[k - 1]
    BY <1>1, <2>1, <2>2 DEF Order
  <2> QED  BY <1>1, <1>2, <2>2, <2>3, PlaceIsPosition
<1>4. l.next[i] \in Live(l.storage) \cup {NULL_INDEX}
  <2>1. PICK k \in 0 .. l.size : i = e[k]
    BY <1>1, <1>2, PositionHasPlace
  <2>2. k + 1 \in 0 .. l.size + 1
    BY <1>2
  <2>3. l.next[i] = e[k + 1]
    BY <1>1, <2>1 DEF Order
  <2> QED  BY <1>1, <1>2, <2>2, <2>3, PlaceIsPosition
<1> QED  BY <1>3, <1>4

(* A call of emplace_after_index_and_return_index at any position of a     *)
(* list that is not full leaves a well-formed list, one longer.            *)
LEMMA EmplaceKeepsGood ==
  ASSUME NEW l \in GoodLists, ~full(l.storage), NEW v \in Contents,
         NEW i \in Live(l.storage) \cup {NULL_INDEX}
  PROVE  /\ emplace_after_index(l, i, v) \in GoodLists
         /\ emplace_after_index(l, i, v).size = l.size + 1
         /\ Live(emplace_after_index(l, i, v).storage) =
              Live(l.storage) \cup {l.storage.next_index}
<1>1. l \in ListObjects /\ WellFormedPool(l.storage)
  BY DEF GoodLists
<1>2. PICK e : Order(l, e)
  BY ChainHasOrder DEF GoodLists
<1>3. PICK k \in 0 .. l.size : i = e[k]
  BY <1>1, <1>2, PositionHasPlace
<1> DEFINE m == emplace_after_index(l, e[k], v)
<1>4. /\ m \in ListObjects /\ WellFormedPool(m.storage) /\ m.size = l.size + 1
      /\ Order(m, InsertBehind(e, l.size, k, l.storage.next_index))
  BY <1>1, <1>2, EmplaceInOrder
<1>5. m.storage = emplace_and_return_index(l.storage, v)
  BY DEF emplace_after_index
<1>6. Live(m.storage) = Live(l.storage) \cup {l.storage.next_index}
  BY <1>1, <1>5, EmplaceTakesAFreeCell, ListFields
<1> HIDE DEF m
<1>7. m \in GoodLists
  BY <1>4, OrderIsChain DEF GoodLists
<1> QED  BY <1>3, <1>4, <1>6, <1>7 DEF m

(* A call of delete_at_and_return_next_index on any element leaves a       *)
(* well-formed list, one shorter, and returns one of its positions.        *)
LEMMA DeleteKeepsGood ==
  ASSUME NEW l \in GoodLists, NEW i \in Live(l.storage)
  PROVE  /\ delete_at(l, i) \in GoodLists
         /\ delete_at(l, i).size = l.size - 1 /\ l.size > 0
         /\ Live(delete_at(l, i).storage) = Live(l.storage) \ {i}
<1>1. l \in ListObjects /\ WellFormedPool(l.storage) /\ l.size \in Nat
  BY ListFields DEF GoodLists
<1>2. PICK e : Order(l, e)
  BY ChainHasOrder DEF GoodLists
<1>3. PICK k \in 1 .. l.size : i = e[k]
  BY <1>2 DEF Order
<1>4. l.size > 0
  BY <1>1
<1> DEFINE m == delete_at(l, e[k])
<1>5. /\ m \in ListObjects /\ WellFormedPool(m.storage) /\ m.size = l.size - 1
      /\ Order(m, RemovePlace(e, l.size, k))
  BY <1>1, <1>2, DeleteInOrder
<1>6. m.storage = delete_at_and_return_repositioned_index(l.storage, i)
  BY <1>3 DEF delete_at
<1>7. Live(m.storage) = Live(l.storage) \ {i}
  BY <1>1, <1>6, DeleteFreesTheCell, ListFields
<1> HIDE DEF m
<1>8. m \in GoodLists
  BY <1>5, OrderIsChain DEF GoodLists
<1> QED  BY <1>3, <1>4, <1>5, <1>7, <1>8 DEF m

(* The pool is full exactly when the list holds MAXIMUM_SIZE elements: the *)
(* check of size() in FixedList and the assertion of the pool agree.       *)
LEMMA FullMeansMaximumSize ==
  ASSUME NEW l \in GoodLists
  PROVE  full(l.storage) <=> l.size = MAXIMUM_SIZE
<1>1. /\ l \in ListObjects /\ WellFormedPool(l.storage) /\ l.storage \in Pools
      /\ l.size \in Nat /\ l.size <= MAXIMUM_SIZE
  BY ListFields DEF GoodLists
<1>2. PICK e : Order(l, e)
  BY ChainHasOrder DEF GoodLists
<1> DEFINE n == l.size
           w == [j \in 1 .. n |-> e[j]]
<1>3. w \in [1 .. n -> Slots] /\ \A j \in 1 .. n : w[j] = e[j]
  BY <1>1, <1>2, OrderIsInjective
<1>4. \A i, j \in 1 .. n : w[i] = w[j] => i = j
  BY <1>2, <1>3 DEF Order
<1>5. ASSUME full(l.storage) PROVE n = MAXIMUM_SIZE
  <2>1. Live(l.storage) = Slots
    BY <1>1, <1>5, FullMeansAllLive
  <2>2. \A i \in Slots : \E j \in 1 .. n : w[j] = i
    BY <1>2, <1>3, <2>1 DEF Order
  <2>3. IsFiniteSet(1 .. n) /\ Cardinality(1 .. n) = n
    BY <1>1, FS_Interval, SMTT(60)
  <2>4. Cardinality(Slots) = MAXIMUM_SIZE
    BY FS_Interval, MaximumSizeIsNat DEF Slots
  <2> HIDE DEF w, n
  <2>5. w \in Surjection(1 .. n, Slots)
    BY <1>3, <2>2 DEF Surjection
  <2>6. Cardinality(Slots) <= Cardinality(1 .. n)
    BY <2>3, <2>5, FS_Surjection
  <2>7. MAXIMUM_SIZE <= n
    BY <2>3, <2>4, <2>6
  <2> QED  BY <1>1, <2>7, MaximumSizeIsNat DEF n
<1>6. ASSUME ~full(l.storage) PROVE n # MAXIMUM_SIZE
  <2>1. l.storage.next_index \in Slots /\ l.storage.next_index \notin Live(l.storage)
    <3>1. PICK v : v \in Contents
      BY DEF Contents
    <3> QED  BY <1>1, <1>6, <3>1, EmplaceTakesAFreeCell
  <2>2. \A j \in 1 .. n : w[j] # l.storage.next_index
    BY <1>2, <1>3, <2>1 DEF Order
  <2> HIDE DEF w
  <2>3. n + 1 <= MAXIMUM_SIZE
    BY <1>1, <1>3, <1>4, <2>1, <2>2, FreelistHasRoom
  <2> QED  BY <1>1, <2>3, MaximumSizeIsNat
<1> QED  BY <1>5, <1>6

(* The two ends of a list that is not empty are elements of it. *)
LEMMA EndsAreElements ==
  ASSUME NEW l \in GoodLists, l.size > 0
  PROVE  front_index(l) \in Live(l.storage) /\ back_index(l) \in Live(l.storage)
<1>1. PICK e : Order(l, e)
  BY ChainHasOrder DEF GoodLists
<1>2. l.size \in Nat
  BY ListFields DEF GoodLists
<1>3. 0 \in 0 .. l.size /\ 0 + 1 = 1 /\ 1 \in 1 .. l.size /\ l.size \in 0 .. l.size /\ l.size \in 1 .. l.size
  BY <1>2
<1>4. front_index(l) = e[1] /\ back_index(l) = e[l.size]
  BY <1>1, <1>3 DEF front_index, back_index, Order
<1> QED  BY <1>1, <1>3, <1>4 DEF Order

-----------------------------------------------------------------------------
(* Items follows next from the sentinel: it lists the elements in their    *)
(* order.                                                                  *)
LEMMA ItemsInOrder ==
  ASSUME NEW l \in ListObjects, NEW e, Order(l, e)
  PROVE  Items(l) = [k \in 1 .. l.size |-> <<e[k], l.storage.array[e[k]]>>]
<1> DEFINE n == l.size
           Body(f) == [k \in 0 .. n |-> IF k = 0 THEN NULL_INDEX ELSE l.next[f[k - 1]]]
           walk == CHOOSE f : f = Body(f)
           g == [k \in 0 .. n |-> e[k]]
<1>1. n \in Nat
  BY ListFields
<1>2. \A k \in 1 .. n : k # 0 /\ k - 1 \in 0 .. n /\ k \in 0 .. n /\ (k - 1) + 1 = k
  BY <1>1
<1>3. \A k \in 0 .. n : k = 0 \/ k \in 1 .. n
  BY <1>1
<1>4. g = Body(g)
  <2>1. \A k \in 0 .. n : g[k] = Body(g)[k]
    BY <1>2, <1>3 DEF Order
  <2> HIDE DEF n
  <2> QED  BY <2>1
<1>5. walk = Body(walk)
  BY <1>4
<1>6. \A k \in 0 .. n : walk[k] = e[k]
  <2> DEFINE S == {k \in 0 .. n : walk[k] = e[k]}
  <2> HIDE DEF walk
  <2>1. 0 \in S
    BY <1>1, <1>5 DEF Order
  <2>2. ASSUME NEW k \in 1 .. n, k - 1 \in S PROVE k \in S
    <3>1. walk[k] = l.next[walk[k - 1]]
      BY <1>2, <1>5
    <3>2. l.next[e[k - 1]] = e[k]
      BY <1>2 DEF Order
    <3> QED  BY <1>2, <2>2, <3>1, <3>2
  <2> HIDE DEF S
  <2>3. \A k \in 0 .. n : k \in S
    BY <1>1, <2>1, <2>2, LoopInduction
  <2> QED  BY <2>3 DEF S
<1>7. Items(l) = [k \in 1 .. n |-> <<walk[k], l.storage.array[walk[k]]>>]
  BY DEF Items
<1> HIDE DEF walk
<1> QED  BY <1>2, <1>6, <1>7

(* What stands at one place of a list. *)
LEMMA ItemAt ==
  ASSUME NEW l \in ListObjects, NEW e, Order(l, e), NEW k \in 1 .. l.size
  PROVE  Items(l)[k] = <<e[k], l.storage.array[e[k]]>> /\ e[k] \in Live(l.storage)
<1>1. Items(l) = [j \in 1 .. l.size |-> <<e[j], l.storage.array[e[j]]>>]
  BY ItemsInOrder
<1>2. e[k] \in Live(l.storage)
  BY DEF Order
<1> QED  BY <1>1, <1>2

(* The elements of a well-formed list, and that no index occurs twice. *)
LEMMA ItemsOfList ==
  ASSUME NEW l \in GoodLists
  PROVE  /\ Items(l) \in [1 .. l.size -> Slots \X Contents]
         /\ Len(Items(l)) = l.size /\ l.size \in Nat /\ l.size \in Links
         /\ \A i, j \in 1 .. l.size : Items(l)[i][1] = Items(l)[j][1] => i = j
<1>1. l \in ListObjects /\ l.size \in Nat /\ l.size \in Links
  BY ListFields DEF GoodLists
<1>2. PICK e : Order(l, e)
  BY ChainHasOrder DEF GoodLists
<1>3. Items(l) = [k \in 1 .. l.size |-> <<e[k], l.storage.array[e[k]]>>]
  BY <1>1, <1>2, ItemsInOrder
<1>4. \A k \in 1 .. l.size : e[k] \in Slots /\ l.storage.array[e[k]] \in Contents
  BY <1>2 DEF Order, Live
<1>5. Items(l) \in [1 .. l.size -> Slots \X Contents]
  BY <1>3, <1>4
<1>6. Len(Items(l)) = l.size
  BY <1>1, <1>5
<1>7. \A i, j \in 1 .. l.size : Items(l)[i][1] = Items(l)[j][1] => i = j
  BY <1>2, <1>3 DEF Order
<1> QED  BY <1>1, <1>5, <1>6, <1>7

(* What emplacing behind place k does to the elements. *)
LEMMA EmplaceItems ==
  ASSUME NEW l \in GoodLists, ~full(l.storage), NEW e, Order(l, e),
         NEW k \in 0 .. l.size, NEW v \in Contents
  PROVE  LET m == emplace_after_index(l, e[k], v) IN
         /\ \A j \in 1 .. k : Items(m)[j] = Items(l)[j]
         /\ Items(m)[k + 1][1] = l.storage.next_index /\ Items(m)[k + 1][2] = v
         /\ \A j \in k + 1 .. l.size : Items(m)[j + 1] = Items(l)[j]
<1> DEFINE n   == l.size
           new == l.storage.next_index
           m   == emplace_after_index(l, e[k], v)
           h   == InsertBehind(e, n, k, new)
<1>1. l \in ListObjects /\ WellFormedPool(l.storage) /\ n \in Nat /\ l.storage \in Pools
  BY ListFields DEF GoodLists
<1>2. m \in ListObjects /\ m.size = n + 1 /\ Order(m, h)
  BY <1>1, EmplaceInOrder
<1>3. m.storage = emplace_and_return_index(l.storage, v)
  BY DEF emplace_after_index
<1>4. /\ new \in Slots /\ new \notin Live(l.storage)
      /\ \A i \in Live(l.storage) : m.storage.array[i] = l.storage.array[i]
  BY <1>1, <1>3, EmplaceTakesAFreeCell DEF Live
<1>5. m.storage.array[new] = v
  BY <1>1, <1>3, <1>4 DEF emplace_and_return_index, Pools
<1>6. /\ \A j \in 1 .. n : Items(l)[j] = <<e[j], l.storage.array[e[j]]>>
      /\ \A j \in 1 .. n : e[j] \in Live(l.storage)
  BY <1>1, ItemAt
<1> HIDE DEF m
<1>7. \A j \in 1 .. n + 1 : Items(m)[j] = <<h[j], m.storage.array[h[j]]>>
  BY <1>2, ItemAt
<1>8. /\ \A j \in 1 .. k : j \in 1 .. n /\ j \in 1 .. n + 1 /\ h[j] = e[j]
      /\ k + 1 \in 1 .. n + 1 /\ h[k + 1] = new
      /\ \A j \in k + 1 .. n : j \in 1 .. n /\ j + 1 \in 1 .. n + 1 /\ h[j + 1] = e[j]
  BY <1>1 DEF InsertBehind
<1> HIDE DEF h, new
<1>9. Items(m)[k + 1][1] = new
  BY <1>7, <1>8
<1> QED  BY <1>4, <1>5, <1>6, <1>7, <1>8, <1>9 DEF m, new

(* What deleting the element at place k does to the others. *)
LEMMA DeleteItems ==
  ASSUME NEW l \in GoodLists, NEW e, Order(l, e), NEW k \in 1 .. l.size
  PROVE  LET m == delete_at(l, e[k]) IN
         \A j \in 1 .. l.size - 1 : Items(m)[j] = Items(l)[IF j < k THEN j ELSE j + 1]
<1> DEFINE n == l.size
           m == delete_at(l, e[k])
           h == RemovePlace(e, n, k)
<1>1. l \in ListObjects /\ WellFormedPool(l.storage) /\ n \in Nat /\ l.storage \in Pools
  BY ListFields DEF GoodLists
<1>2. m \in ListObjects /\ m.size = n - 1 /\ Order(m, h)
  BY <1>1, DeleteInOrder
<1>3. m.storage = delete_at_and_return_repositioned_index(l.storage, e[k])
  BY DEF delete_at
<1>4. /\ \A j \in 1 .. n : Items(l)[j] = <<e[j], l.storage.array[e[j]]>>
      /\ \A j \in 1 .. n : e[j] \in Live(l.storage)
      /\ \A i, j \in 1 .. n : e[i] = e[j] => i = j
  <2>1. \A i, j \in 1 .. n : e[i] = e[j] => i = j
    BY DEF Order
  <2> QED  BY <1>1, <2>1, ItemAt
<1>5. \A i \in Live(l.storage) \ {e[k]} : m.storage.array[i] = l.storage.array[i]
  <2>1. e[k] \in Live(l.storage)
    BY <1>4
  <2>2. \A i \in Slots \ {e[k]} : m.storage.array[i] = l.storage.array[i]
    BY <1>1, <1>3, <2>1, DeleteFreesTheCell
  <2> QED  BY <2>2 DEF Live
<1> HIDE DEF m
<1>6. \A j \in 1 .. n - 1 : Items(m)[j] = <<h[j], m.storage.array[h[j]]>>
  BY <1>2, ItemAt
<1>7. \A j \in 1 .. n - 1 : LET i == IF j < k THEN j ELSE j + 1 IN
        i \in 1 .. n /\ i # k /\ h[j] = e[i]
  BY <1>1 DEF RemovePlace
<1> HIDE DEF h
<1> QED  BY <1>4, <1>5, <1>6, <1>7 DEF m

-----------------------------------------------------------------------------
(* A delete_range loop has reached place i of its list and will stop at    *)
(* place j; one that clears the object began at the first element and      *)
(* stops at the sentinel.                                                  *)
LoopPlace(l, idx, to, clears) ==
  \E e : Order(l, e) /\ \E i, j \in 1 .. l.size + 1 :
    /\ i <= j /\ idx = e[i] /\ to = e[j]
    /\ clears => i = 1 /\ j = l.size + 1

(* The loop that clears a list starts at its first element. *)
LEMMA ClearingLoopPlace ==
  ASSUME NEW l \in GoodLists
  PROVE  LoopPlace(l, front_index(l), NULL_INDEX, TRUE) /\ front_index(l) \in Links
<1>1. PICK e : Order(l, e)
  BY ChainHasOrder DEF GoodLists
<1>2. l \in ListObjects /\ l.size \in Nat
  BY ListFields DEF GoodLists
<1>3. /\ 0 \in 0 .. l.size /\ 0 + 1 = 1 /\ 1 \in 1 .. l.size + 1
      /\ l.size + 1 \in 1 .. l.size + 1 /\ 1 <= l.size + 1 /\ 1 \in 0 .. l.size + 1
  BY <1>2
<1>4. front_index(l) = e[1] /\ NULL_INDEX = e[l.size + 1] /\ e[1] \in Links
  BY <1>1, <1>3 DEF front_index, Order
<1> QED  BY <1>1, <1>3, <1>4 DEF LoopPlace

(* A range that a client gives in list order is a loop of deletions. *)
LEMMA RangeHasLoopPlace ==
  ASSUME NEW l \in GoodLists, NEW first \in Live(l.storage) \cup {NULL_INDEX}, NEW last \in WalkFrom(l, first)
  PROVE  LoopPlace(l, first, last, FALSE)
<1>1. l \in ListObjects /\ l.size \in Nat
  BY ListFields DEF GoodLists
<1>2. PICK e : Order(l, e)
  BY <1>1, ChainHasOrder DEF GoodLists
<1>3. PICK i \in 1 .. l.size + 1 : first = e[i]
  BY <1>1, <1>2, PositionHasPlace
<1>4. WalkFrom(l, e[i]) = {e[j] : j \in i .. l.size + 1}
  BY <1>1, <1>2, WalkIsSuffix
<1>5. PICK j \in i .. l.size + 1 : last = e[j]
  BY <1>3, <1>4
<1>6. j \in 1 .. l.size + 1 /\ i <= j
  BY <1>1
<1> QED  BY <1>2, <1>3, <1>5, <1>6 DEF LoopPlace

(* One iteration of a loop of deletions: the places behind the deleted     *)
(* element move up by one.                                                 *)
LEMMA DeleteKeepsLoopPlace ==
  ASSUME NEW l \in GoodLists, NEW idx, NEW to, NEW clears \in BOOLEAN,
         LoopPlace(l, idx, to, clears), idx # to
  PROVE  LET m == delete_at(l, idx) IN
         /\ m \in GoodLists /\ m.size = l.size - 1 /\ idx \in Live(l.storage)
         /\ NextAfterDelete(l, idx) \in Links
         /\ LoopPlace(m, NextAfterDelete(l, idx), to, clears)
<1> DEFINE n == l.size
           m == delete_at(l, idx)
<1>1. l \in ListObjects /\ n \in Nat /\ WellFormedPool(l.storage)
  BY ListFields DEF GoodLists
<1>2. PICK e : Order(l, e) /\ \E i, j \in 1 .. n + 1 :
        i <= j /\ idx = e[i] /\ to = e[j] /\ (clears => i = 1 /\ j = n + 1)
  BY DEF LoopPlace
<1>3. PICK i \in 1 .. n + 1, j \in 1 .. n + 1 :
        i <= j /\ idx = e[i] /\ to = e[j] /\ (clears => i = 1 /\ j = n + 1)
  BY <1>2
<1>4. i # j /\ i \in 1 .. n /\ i + 1 \in 0 .. n + 1
  BY <1>1, <1>3
<1> DEFINE h == RemovePlace(e, n, i)
<1>5. /\ m \in ListObjects /\ WellFormedPool(m.storage) /\ m.size = n - 1
      /\ Order(m, h) /\ NextAfterDelete(l, idx) = e[i + 1]
  BY <1>1, <1>2, <1>3, <1>4, DeleteInOrder
<1>6. m \in GoodLists
  BY <1>5, OrderIsChain DEF GoodLists
<1>7. e[i + 1] \in Links /\ idx \in Live(l.storage)
  BY <1>2, <1>3, <1>4 DEF Order
<1>8. i \in 0 .. n /\ j - 1 \in 0 .. n /\ ~(i < i) /\ ~(j - 1 < i) /\ (j - 1) + 1 = j
  BY <1>1, <1>3, <1>4
<1>9. h[i] = e[i + 1] /\ h[j - 1] = e[j]
  BY <1>8 DEF RemovePlace
<1>10. /\ m.size + 1 = n /\ i \in 1 .. n /\ j - 1 \in 1 .. n /\ i <= j - 1
       /\ clears => i = 1 /\ j - 1 = n
  BY <1>1, <1>3, <1>4, <1>5
<1> HIDE DEF h, m, n
<1>11. LoopPlace(m, e[i + 1], to, clears)
  BY <1>3, <1>5, <1>9, <1>10 DEF LoopPlace
<1> QED  BY <1>5, <1>6, <1>7, <1>11 DEF m, n

(* Stepping over an element leads to the next place. *)
LEMMA NextKeepsLoopPlace ==
  ASSUME NEW l \in GoodLists, NEW idx, NEW to, LoopPlace(l, idx, to, FALSE), idx # to
  PROVE  LoopPlace(l, l.next[idx], to, FALSE) /\ l.next[idx] \in Links
<1>1. l \in ListObjects /\ l.size \in Nat
  BY ListFields DEF GoodLists
<1>2. PICK e : Order(l, e) /\ \E i, j \in 1 .. l.size + 1 :
        i <= j /\ idx = e[i] /\ to = e[j]
  BY DEF LoopPlace
<1>3. PICK i \in 1 .. l.size + 1, j \in 1 .. l.size + 1 : i <= j /\ idx = e[i] /\ to = e[j]
  BY <1>2
<1>4. i # j
  BY <1>3
<1>5. /\ i \in 0 .. l.size /\ i + 1 \in 1 .. l.size + 1 /\ i + 1 \in 0 .. l.size + 1
      /\ i + 1 <= j
  BY <1>1, <1>3, <1>4
<1>6. l.next[idx] = e[i + 1] /\ e[i + 1] \in Links
  BY <1>2, <1>3, <1>5 DEF Order
<1> QED  BY <1>2, <1>3, <1>5, <1>6 DEF LoopPlace

(* A clearing loop has not reached its end while an element is left. *)
LEMMA ClearingLoopGoesOn ==
  ASSUME NEW l \in GoodLists, NEW idx, NEW to, LoopPlace(l, idx, to, TRUE)
  PROVE  (idx = to <=> l.size = 0) /\ (l.size = 0 <=> Live(l.storage) = {})
<1>1. l \in ListObjects /\ l.size \in Nat
  BY ListFields DEF GoodLists
<1>2. PICK e : Order(l, e) /\ idx = e[1] /\ to = e[l.size + 1]
  BY DEF LoopPlace
<1>3. 1 \in 1 .. l.size + 1 /\ l.size + 1 \in 1 .. l.size + 1 /\ (1 = l.size + 1 <=> l.size = 0)
  BY <1>1
<1>4. \A j, k \in 1 .. l.size + 1 : e[j] = e[k] => j = k
  BY <1>1, <1>2, OrderIsInjective
<1>5. l.size = 0 <=> 1 .. l.size = {}
  BY <1>1
<1>6. l.size = 0 <=> Live(l.storage) = {}
  BY <1>2, <1>5 DEF Order
<1> QED  BY <1>2, <1>3, <1>4, <1>6

-----------------------------------------------------------------------------
(* An assignment to an element leaves the structure as it is. *)
Assigned(l, d, v) == [l EXCEPT !.storage.array[d] = v]

LEMMA AssignKeepsOrder ==
  ASSUME NEW l \in GoodLists, NEW d \in Live(l.storage), NEW v \in Contents
  PROVE  LET m == Assigned(l, d, v) IN
         /\ m \in GoodLists
         /\ Live(m.storage) = Live(l.storage)
         /\ m.next = l.next /\ m.prev = l.prev /\ m.size = l.size
         /\ m.storage.array[d] = v
         /\ \A i \in Slots \ {d} : m.storage.array[i] = l.storage.array[i]
         /\ \A e : Order(l, e) => Order(m, e)
<1> DEFINE m == Assigned(l, d, v)
<1> DEFINE p == l.storage
           q == [p EXCEPT !.array[d] = v]
<1>1. l \in ListObjects /\ WellFormedPool(p) /\ WellFormedChain(l) /\ d \in Slots
  BY DEF GoodLists, Live
<1>2. /\ p \in Pools /\ l.next \in [Links -> Links]
      /\ l.prev \in [Links -> Links] /\ l.size \in Links
  BY <1>1, ListFields
<1>3. l = [storage |-> l.storage, next |-> l.next, prev |-> l.prev, size |-> l.size]
  BY <1>1 DEF ListObjects
<1>4. m = [l EXCEPT !.storage = q]
  BY DEF Assigned
<1> HIDE DEF q
<1> HIDE DEF m
<1>5. m.storage = q /\ m.next = l.next /\ m.prev = l.prev /\ m.size = l.size
  BY <1>3, <1>4
<1>6. p = [array |-> p.array, next_index |-> p.next_index] /\ p.array \in [Slots -> Links \cup Contents]
      /\ p.next_index \in Links
  BY <1>2 DEF Pools
<1>7. q = [array |-> [p.array EXCEPT ![d] = v], next_index |-> p.next_index]
  BY <1>6 DEF q
<1>8. /\ q \in Pools /\ q.next_index = p.next_index /\ q.array[d] = v
      /\ \A i \in Slots \ {d} : q.array[i] = p.array[i]
  BY <1>1, <1>6, <1>7 DEF Pools
<1>9. Live(q) = Live(p)
  BY <1>8 DEF Live
<1>10. WellFormedPool(q)
  <2>1. PICK n \in 0 .. MAXIMUM_SIZE : \E f \in [1 .. n -> Slots] :
          /\ IsFreelist(p, n, f)
          /\ \A i \in Slots : i \notin Live(p) <=> \E k \in 1 .. n : f[k] = i
    BY <1>1 DEF WellFormedPool
  <2>2. PICK f \in [1 .. n -> Slots] :
          /\ IsFreelist(p, n, f)
          /\ \A i \in Slots : i \notin Live(p) <=> \E k \in 1 .. n : f[k] = i
    BY <2>1
  <2>3. \A k \in 1 .. n : f[k] \in Slots \ Live(p) /\ q.array[f[k]] = p.array[f[k]]
    BY <2>2, <1>8
  <2>4. IsFreelist(q, n, f)
    BY <1>8, <2>2, <2>3 DEF IsFreelist
  <2> QED  BY <1>9, <2>2, <2>4 DEF WellFormedPool
<1>11. m \in ListObjects
  BY <1>2, <1>3, <1>4, <1>8 DEF ListObjects
<1>12. ASSUME NEW e, Order(l, e) PROVE Order(m, e)
  BY <1>5, <1>9, <1>12 DEF Order
<1>13. WellFormedChain(m)
  BY <1>1, <1>11, <1>12, ChainHasOrder, OrderIsChain
<1> QED  BY <1>5, <1>8, <1>9, <1>10, <1>11, <1>12, <1>13 DEF GoodLists, m

(* clear() deletes as many elements as the list has. *)
LEMMA ClearedIsEmpty ==
  ASSUME NEW l \in GoodLists
  PROVE  ClearedList(l) \in GoodLists /\ ClearedList(l).size = 0
<1> DEFINE N == l.size
           Body(f) == [k \in 0 .. N |->
                         IF k = 0 THEN l ELSE delete_at(f[k - 1], front_index(f[k - 1]))]
           loop == CHOOSE f : f = Body(f)
           X == [k \in 0 .. N |-> {m \in GoodLists : m.size = N - k}]
           F == [k \in 1 .. N |-> [m \in X[k - 1] |-> delete_at(m, front_index(m))]]
<1>1. ClearedList(l) = loop[N]
  BY DEF ClearedList
<1>2. N \in Nat
  BY ListFields DEF GoodLists
<1>3. l \in X[0]
  BY <1>2
<1>4. ASSUME NEW k \in 1 .. N, NEW m \in X[k - 1] PROVE F[k][m] \in X[k]
  <2>1. m \in GoodLists /\ m.size = N - (k - 1) /\ k \in 0 .. N /\ k - 1 \in 0 .. N
    BY <1>2
  <2>2. m.size > 0
    BY <1>2, <2>1
  <2>3. delete_at(m, front_index(m)) \in GoodLists /\ delete_at(m, front_index(m)).size = m.size - 1
    BY <2>1, <2>2, EndsAreElements, DeleteKeepsGood
  <2>4. m.size - 1 = N - k
    BY <1>2, <2>1
  <2> QED  BY <2>1, <2>3, <2>4
<1>5. ASSUME NEW f, SolvesLoop(f, l, X, F, N) PROVE RunsLoop(loop, l, X, F, N)
  <2>1. \A k \in 1 .. N : \A m \in X[k - 1] : F[k][m] = delete_at(m, front_index(m))
    OBVIOUS
  <2>2. \A k \in 0 .. N : k # 0 <=> k \in 1 .. N
    BY <1>2
  <2>3. 0 \in 0 .. N /\ \A k \in 1 .. N : k \in 0 .. N /\ k - 1 \in 0 .. N
    BY <1>2
  <2> HIDE DEF X, F, N
  <2>4. f = Body(f)
    BY <1>5, <2>1, <2>2, <2>3 DEF SolvesLoop
  <2> HIDE DEF Body
  <2>5. loop = Body(loop)
    BY <2>4
  <2> HIDE DEF loop
  <2> USE DEF Body
  <2> QED  BY <2>1, <2>2, <2>3, <2>5 DEF RunsLoop
<1>6. loop[N] \in X[N]
  <2>1. \A k \in 1 .. N : \A m \in X[k - 1] : F[k][m] \in X[k]
    BY <1>4
  <2> HIDE DEF X, F, N, loop
  <2> QED  BY <1>2, <1>3, <1>5, <2>1, LoopEnds
<1>7. N - N = 0 /\ N \in 0 .. N
  BY <1>2
<1> HIDE DEF loop
<1> QED  BY <1>1, <1>6, <1>7
=============================================================================
