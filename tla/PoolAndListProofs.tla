------------------------- MODULE PoolAndListProofs -------------------------
(***************************************************************************)
(* The freelist of FixedIndexBasedPoolStorage stays sound, and             *)
(* FixedDoublyLinkedList and FixedList keep their lists well formed, for   *)
(* every capacity, every value type and every number of objects: between   *)
(* any two steps, also in the middle of a delete_range loop.  And what the *)
(* calls do to a list is what IndexedSequences says a call may do to a     *)
(* sequence whose elements keep their indices.                             *)
(***************************************************************************)
EXTENDS FixedList, PoolStorage, DoublyLinkedListOpsProofs, SequenceTheorems

-----------------------------------------------------------------------------
(* The inductive invariant: an abort leaves the pool full. *)
PoolInv == PoolTypeOK /\ FreelistCoversFreeCells /\ (pool_aborted => full(pool))

(* Every call of emplace_and_return_index and of                          *)
(* delete_at_and_return_repositioned_index preserves it.                   *)
LEMMA PoolInvInductive == PoolInv /\ [PoolNext]_pool_vars => PoolInv'
<1> SUFFICES ASSUME PoolInv, [PoolNext]_pool_vars PROVE PoolInv'
  OBVIOUS
<1> USE DEF PoolInv, PoolTypeOK, FreelistCoversFreeCells
<1>1. ASSUME NEW v \in Values, Emplace(v) PROVE PoolInv'
  <2>1. v \in Contents
    BY DEF Contents
  <2> QED  BY <1>1, <2>1, EmplaceTakesAFreeCell DEF Emplace
<1>2. CASE EmplaceIntoFull
  BY <1>2 DEF EmplaceIntoFull
<1>3. ASSUME NEW i \in Slots, Delete(i) PROVE PoolInv'
  BY <1>3, DeleteFreesTheCell DEF Delete
<1>4. CASE UNCHANGED pool_vars
  BY <1>4 DEF pool_vars
<1> QED  BY <1>1, <1>2, <1>3, <1>4 DEF PoolNext

(* The inductive invariant holds in every reachable state. *)
LEMMA PoolInvHolds == PoolSpec => []PoolInv
<1>1. PoolInit => PoolInv
  BY EmptyPoolIsWellFormed DEF PoolInit, PoolInv, PoolTypeOK, FreelistCoversFreeCells
<1> QED  BY <1>1, PoolInvInductive, PTL DEF PoolSpec

(* The union cells and next_index_ keep their types under every history of *)
(* emplace_and_return_index and delete_at_and_return_repositioned_index.   *)
THEOREM PoolTypeCorrect == PoolSpec => []PoolTypeOK
<1>1. PoolInv => PoolTypeOK
  BY DEF PoolInv
<1> QED  BY <1>1, PoolInvHolds, PTL

(* Whatever the capacity and the order of calls, the freelist threaded     *)
(* through the cells visits every free cell once and no occupied one.      *)
THEOREM FreelistSound == PoolSpec => []FreelistCoversFreeCells
<1>1. PoolInv => FreelistCoversFreeCells
  BY DEF PoolInv
<1> QED  BY <1>1, PoolInvHolds, PTL

(* assert_or_abort(!full()) in emplace_and_return_index fires only when    *)
(* MAXIMUM_SIZE values are stored.                                         *)
THEOREM AbortMeansNoCellIsFree == PoolSpec => []AbortsOnlyWhenAllLive
<1>1. PoolInv => AbortsOnlyWhenAllLive
  BY FullMeansAllLive
     DEF PoolInv, PoolTypeOK, FreelistCoversFreeCells, AbortsOnlyWhenAllLive
<1> QED  BY <1>1, PoolInvHolds, PTL

(* No emplace and no delete disturbs a value stored at another index.      *)
THEOREM IndicesStayValid == PoolSpec => StoredValuesStay
<1> DEFINE A ==
      /\ \A i \in Live(pool) : i \in Live(pool)' => pool'.array[i] = pool.array[i]
      /\ \A i, j \in Live(pool) : i # j => i \in Live(pool)' \/ j \in Live(pool)'
<1>1. PoolInv /\ [PoolNext]_pool_vars => [A]_pool_vars
  <2> SUFFICES ASSUME PoolInv, PoolNext PROVE A
    OBVIOUS
  <2> USE DEF PoolInv, PoolTypeOK, FreelistCoversFreeCells
  <2>1. ASSUME NEW v \in Values, Emplace(v) PROVE A
    <3>1. v \in Contents
      BY DEF Contents
    <3>2. Live(pool)' = Live(pool) \cup {pool.next_index}
      BY <2>1, <3>1, EmplaceTakesAFreeCell DEF Emplace
    <3>3. \A i \in Slots \ {pool.next_index} : pool'.array[i] = pool.array[i]
      BY <2>1, <3>1, EmplaceTakesAFreeCell DEF Emplace
    <3>4. pool.next_index \notin Live(pool)
      BY <2>1, <3>1, EmplaceTakesAFreeCell DEF Emplace
    <3> QED  BY <3>2, <3>3, <3>4 DEF Live
  <2>2. CASE EmplaceIntoFull
    BY <2>2 DEF EmplaceIntoFull, Live
  <2>3. ASSUME NEW d \in Slots, Delete(d) PROVE A
    <3>1. Live(pool)' = Live(pool) \ {d}
      BY <2>3, DeleteFreesTheCell DEF Delete
    <3>2. \A i \in Slots \ {d} : pool'.array[i] = pool.array[i]
      BY <2>3, DeleteFreesTheCell DEF Delete
    <3>3. Live(pool) \subseteq Slots
      BY DEF Live
    <3> QED  BY <3>1, <3>2, <3>3
  <2> QED  BY <2>1, <2>2, <2>3 DEF PoolNext
<1> QED  BY <1>1, PoolInvHolds, PTL DEF PoolSpec, StoredValuesStay

-----------------------------------------------------------------------------
(* What the members do to the elements.  m has some of those of l, in      *)
(* their order.                                                            *)
Kept(l, m) ==
  \E f \in [1 .. m.size -> 1 .. l.size] :
    /\ \A i, j \in 1 .. m.size : i < j => f[i] < f[j]
    /\ \A j \in 1 .. m.size : Items(m)[j] = Items(l)[f[j]]

(* m has the elements of l, and new ones behind the first k of them. *)
Filled(l, k, m) ==
  /\ k \in 0 .. l.size /\ l.size <= m.size
  /\ \A j \in 1 .. k : Items(m)[j] = Items(l)[j]
  /\ \A j \in k + 1 .. l.size : Items(m)[j + (m.size - l.size)] = Items(l)[j]
  /\ \A j \in k + 1 .. k + (m.size - l.size) : Items(m)[j][2] \in Values

(* m has p of the elements of l, and new ones behind the first k of them. *)
EditedBy(l, m, p, f, k) ==
  /\ p <= m.size /\ k <= p /\ f \in [1 .. p -> 1 .. l.size]
  /\ \A i, j \in 1 .. p : i < j => f[i] < f[j]
  /\ \A j \in 1 .. p : Items(m)[IF j <= k THEN j ELSE j + (m.size - p)] = Items(l)[f[j]]
  /\ \A j \in k + 1 .. k + (m.size - p) : Items(m)[j][2] \in Values

Edited(l, m) == \E p, k \in Nat : \E f : EditedBy(l, m, p, f, k)

(* A call that only removes elements is an edit. *)
LEMMA KeptIsEdited ==
  ASSUME NEW l \in GoodLists, NEW m \in GoodLists, Kept(l, m)
  PROVE  Edited(l, m)
<1>1. m.size \in Nat
  BY ItemsOfList
<1>2. PICK f \in [1 .. m.size -> 1 .. l.size] :
        /\ \A i, j \in 1 .. m.size : i < j => f[i] < f[j]
        /\ \A j \in 1 .. m.size : Items(m)[j] = Items(l)[f[j]]
  BY DEF Kept
<1>3. EditedBy(l, m, m.size, f, m.size)
  <2>1. \A j \in 1 .. m.size : j <= m.size
    BY <1>1
  <2>2. m.size + 1 .. m.size + (m.size - m.size) = {}
    BY <1>1
  <2> QED  BY <1>1, <1>2, <2>1, <2>2 DEF EditedBy
<1> QED  BY <1>1, <1>3 DEF Edited

(* A call that only adds elements, all in one place, is an edit. *)
LEMMA FilledIsEdited ==
  ASSUME NEW l \in GoodLists, NEW m \in GoodLists, NEW k, Filled(l, k, m)
  PROVE  Edited(l, m)
<1> DEFINE f == [j \in 1 .. l.size |-> j]
<1>1. m.size \in Nat /\ l.size \in Nat
  BY ItemsOfList
<1>2. k \in Nat /\ k <= l.size /\ l.size <= m.size
  BY <1>1 DEF Filled
<1>3. \A j \in 1 .. l.size : Items(m)[IF j <= k THEN j ELSE j + (m.size - l.size)] = Items(l)[f[j]]
  <2> SUFFICES ASSUME NEW j \in 1 .. l.size
               PROVE  Items(m)[IF j <= k THEN j ELSE j + (m.size - l.size)] = Items(l)[j]
    OBVIOUS
  <2>1. (j <= k /\ j \in 1 .. k) \/ (~(j <= k) /\ j \in k + 1 .. l.size)
    BY <1>1, <1>2
  <2> QED  BY <2>1 DEF Filled
<1>4. EditedBy(l, m, l.size, f, k)
  BY <1>1, <1>2, <1>3 DEF EditedBy, Filled
<1> HIDE DEF f
<1> QED  BY <1>1, <1>2, <1>4 DEF Edited

(* What is built on a list with no element is all new. *)
LEMMA BuiltOnEmpty ==
  ASSUME NEW c \in GoodLists, c.size = 0, NEW m \in GoodLists, Edited(c, m),
         NEW l \in GoodLists
  PROVE  Edited(l, m) /\ \A j \in 1 .. m.size : Items(m)[j][2] \in Values
<1>1. m.size \in Nat
  BY ItemsOfList
<1>2. PICK p \in Nat, k \in Nat : \E f : EditedBy(c, m, p, f, k)
  BY DEF Edited
<1>3. p = 0 /\ k = 0
  <2>1. \E f : \A j \in 1 .. p : f[j] \in 1 .. 0
    BY <1>2 DEF EditedBy
  <2>2. p # 0 => 1 \in 1 .. p
    OBVIOUS
  <2>3. p = 0
    BY <2>1, <2>2
  <2> QED  BY <1>2, <2>3 DEF EditedBy
<1>4. \A j \in 1 .. m.size : Items(m)[j][2] \in Values
  <2>1. k + 1 .. k + (m.size - p) = 1 .. m.size
    BY <1>1, <1>3
  <2> QED  BY <1>2, <2>1 DEF EditedBy
<1> DEFINE g == [j \in 1 .. 0 |-> j]
<1>5. g \in [1 .. 0 -> 1 .. l.size] /\ 1 .. 0 = {} /\ 0 + 1 .. 0 + (m.size - 0) = 1 .. m.size
  BY <1>1
<1> HIDE DEF g
<1>6. EditedBy(l, m, 0, g, 0)
  BY <1>1, <1>4, <1>5 DEF EditedBy
<1> QED  BY <1>4, <1>6 DEF Edited

(* A list keeps its elements while nothing is done to it. *)
LEMMA KeptItself ==
  ASSUME NEW l \in GoodLists
  PROVE  Kept(l, l)
<1> DEFINE f == [j \in 1 .. l.size |-> j]
<1>1. /\ f \in [1 .. l.size -> 1 .. l.size]
      /\ \A i, j \in 1 .. l.size : i < j => f[i] < f[j]
      /\ \A j \in 1 .. l.size : Items(l)[j] = Items(l)[f[j]]
  OBVIOUS
<1> HIDE DEF f
<1> QED  BY <1>1 DEF Kept

(* delete_at_and_return_next_index keeps the other elements. *)
LEMMA DeleteKeeps ==
  ASSUME NEW l \in GoodLists, NEW s \in GoodLists, Kept(l, s), NEW i \in Live(s.storage)
  PROVE  Kept(l, delete_at(s, i))
<1> DEFINE m == delete_at(s, i)
           Old(x, j) == IF j < x THEN j ELSE j + 1
<1>1. s \in ListObjects /\ s.size \in Nat
  BY ListFields DEF GoodLists
<1>2. PICK e : Order(s, e)
  BY ChainHasOrder DEF GoodLists
<1>3. PICK x \in 1 .. s.size : e[x] = i
  BY <1>2 DEF Order
<1>4. m.size = s.size - 1
  BY DeleteKeepsGood
<1>5. \A j \in 1 .. s.size - 1 : Items(m)[j] = Items(s)[Old(x, j)]
  BY <1>2, <1>3, DeleteItems
<1>6. PICK f \in [1 .. s.size -> 1 .. l.size] :
        /\ \A a, b \in 1 .. s.size : a < b => f[a] < f[b]
        /\ \A j \in 1 .. s.size : Items(s)[j] = Items(l)[f[j]]
  BY DEF Kept
<1>7. /\ \A j \in 1 .. s.size - 1 : Old(x, j) \in 1 .. s.size
      /\ \A a, b \in 1 .. s.size - 1 : a < b => Old(x, a) < Old(x, b)
  BY <1>1
<1> DEFINE g == [j \in 1 .. s.size - 1 |-> f[Old(x, j)]]
<1> HIDE DEF Old, m
<1>8. g \in [1 .. s.size - 1 -> 1 .. l.size]
  BY <1>6, <1>7
<1>9. \A a, b \in 1 .. s.size - 1 : a < b => g[a] < g[b]
  BY <1>6, <1>7
<1>10. \A j \in 1 .. s.size - 1 : Items(m)[j] = Items(l)[g[j]]
  BY <1>5, <1>6, <1>7
<1> HIDE DEF g
<1>11. Kept(l, m)
  BY <1>4, <1>8, <1>9, <1>10 DEF Kept
<1> QED  BY <1>11 DEF m

(* A loop has put new elements in front of pos, which stood behind the     *)
(* first k elements of l.                                                  *)
Filling(l, k, pos, s) ==
  /\ Filled(l, k, s)
  /\ \E e : Order(s, e) /\ e[k + (s.size - l.size) + 1] = pos

(* An insertion loop begins with nothing added. *)
LEMMA FillingStarts ==
  ASSUME NEW l \in GoodLists, NEW e, Order(l, e), NEW k \in 0 .. l.size
  PROVE  Filling(l, k, e[k + 1], l)
<1>1. l.size \in Nat
  BY ItemsOfList
<1>2. l.size - l.size = 0 /\ k + 0 + 1 = k + 1 /\ k + 1 .. k + 0 = {}
      /\ \A j \in k + 1 .. l.size : j + 0 = j
  BY <1>1
<1>3. Filled(l, k, l)
  BY <1>1, <1>2 DEF Filled
<1> QED  BY <1>2, <1>3 DEF Filling

(* emplace_before_index_and_return_index adds one behind the new elements, *)
(* at the head of the freelist.                                            *)
LEMMA EmplaceFills ==
  ASSUME NEW l \in GoodLists, NEW s \in GoodLists, NEW k, NEW pos, Filling(l, k, pos, s),
         ~full(s.storage), NEW v \in Values
  PROVE  LET m == emplace_after_index(s, s.prev[pos], v) IN
         /\ m \in GoodLists /\ m.size = s.size + 1 /\ Filling(l, k, pos, m)
         /\ \A j \in 1 .. k + (s.size - l.size) : Items(m)[j] = Items(s)[j]
         /\ Items(m)[k + (s.size - l.size) + 1][1] = s.storage.next_index
         /\ Items(m)[k + (s.size - l.size) + 1][2] = v
<1> DEFINE n == s.size - l.size
           q == k + n
           m == emplace_after_index(s, s.prev[pos], v)
<1>1. s \in ListObjects /\ WellFormedPool(s.storage) /\ s.size \in Nat /\ l.size \in Nat
  BY ListFields DEF GoodLists
<1>2. k \in 0 .. l.size /\ l.size <= s.size
  BY DEF Filling, Filled
<1>3. n \in Nat /\ q \in 0 .. s.size /\ k \in Nat /\ q \in Nat /\ l.size + n = s.size
  BY <1>1, <1>2
<1>4. PICK e : Order(s, e) /\ e[q + 1] = pos
  BY DEF Filling
<1>5. v \in Contents
  BY DEF Contents
<1>6. m = emplace_after_index(s, e[q], v)
  BY <1>3, <1>4 DEF Order
<1> DEFINE h == InsertBehind(e, s.size, q, s.storage.next_index)
<1>7. m \in ListObjects /\ WellFormedPool(m.storage) /\ m.size = s.size + 1 /\ Order(m, h)
  BY <1>1, <1>3, <1>4, <1>5, <1>6, EmplaceInOrder
<1>8. /\ \A j \in 1 .. q : Items(m)[j] = Items(s)[j]
      /\ Items(m)[q + 1][2] = v /\ Items(m)[q + 1][1] = s.storage.next_index
      /\ \A j \in q + 1 .. s.size : Items(m)[j + 1] = Items(s)[j]
  BY <1>3, <1>4, <1>5, <1>6, EmplaceItems
<1> HIDE DEF m
<1>9. m \in GoodLists
  BY <1>7, OrderIsChain DEF GoodLists
<1>10. m.size - l.size = n + 1 /\ k + (n + 1) = q + 1
  BY <1>1, <1>3, <1>7
<1>11. h[q + 1 + 1] = pos
  <2>1. q + 1 + 1 \in 0 .. s.size + 2 /\ ~(q + 1 + 1 <= q) /\ q + 1 + 1 # q + 1 /\ (q + 1 + 1) - 1 = q + 1
    BY <1>1, <1>3
  <2> QED  BY <1>4, <2>1 DEF InsertBehind
<1> HIDE DEF h
<1>12. Filled(l, k, m)
  <2>1. /\ \A j \in 1 .. k : j \in 1 .. q
        /\ \A j \in k + 1 .. l.size : j + n \in q + 1 .. s.size /\ j + (n + 1) = (j + n) + 1
        /\ \A j \in k + 1 .. k + (n + 1) : j = q + 1 \/ (j \in k + 1 .. k + n /\ j \in 1 .. q)
    BY <1>1, <1>2, <1>3
  <2>2. /\ \A j \in 1 .. k : Items(s)[j] = Items(l)[j]
        /\ \A j \in k + 1 .. l.size : Items(s)[j + n] = Items(l)[j]
        /\ \A j \in k + 1 .. k + n : Items(s)[j][2] \in Values
    BY DEF Filling, Filled
  <2>3. l.size <= m.size
    BY <1>1, <1>2, <1>7
  <2> HIDE DEF n, q
  <2>4. \A j \in 1 .. k : Items(m)[j] = Items(l)[j]
    BY <1>8, <2>1, <2>2
  <2>5. \A j \in k + 1 .. l.size : Items(m)[j + (n + 1)] = Items(l)[j]
    BY <1>8, <2>1, <2>2
  <2>6. \A j \in k + 1 .. k + (n + 1) : Items(m)[j][2] \in Values
    BY <1>8, <2>1, <2>2
  <2> QED  BY <1>2, <1>10, <2>3, <2>4, <2>5, <2>6 DEF Filled
<1>13. Filling(l, k, pos, m)
  BY <1>7, <1>10, <1>11, <1>12 DEF Filling
<1> QED  BY <1>7, <1>8, <1>9, <1>13 DEF m

(* One element more behind any position, and one less. *)
LEMMA EmplaceEdits ==
  ASSUME NEW l \in GoodLists, ~full(l.storage), NEW v \in Values,
         NEW i \in Live(l.storage) \cup {NULL_INDEX}
  PROVE  LET m == emplace_after_index(l, i, v) IN m \in GoodLists /\ Edited(l, m)
<1>1. l \in ListObjects /\ l.size \in Nat
  BY ListFields DEF GoodLists
<1>2. PICK e : Order(l, e)
  BY ChainHasOrder DEF GoodLists
<1>3. PICK k \in 0 .. l.size : i = e[k]
  BY <1>1, <1>2, PositionHasPlace
<1>4. l.prev[e[k + 1]] = i
  BY <1>2, <1>3 DEF Order
<1>5. Filling(l, k, e[k + 1], l)
  BY <1>2, FillingStarts
<1> DEFINE m == emplace_after_index(l, i, v)
<1>6. m \in GoodLists /\ Filling(l, k, e[k + 1], m)
  BY <1>4, <1>5, EmplaceFills
<1> HIDE DEF m
<1>7. Edited(l, m)
  BY <1>6, FilledIsEdited DEF Filling
<1> QED  BY <1>6, <1>7 DEF m

(* delete_at is an edit. *)
LEMMA DeleteEdits ==
  ASSUME NEW l \in GoodLists, NEW i \in Live(l.storage)
  PROVE  delete_at(l, i) \in GoodLists /\ Edited(l, delete_at(l, i))
BY DeleteKeepsGood, DeleteKeeps, KeptItself, KeptIsEdited

-----------------------------------------------------------------------------
(* The inductive invariant of the list objects. *)
ListInv ==
  /\ TypeOK
  /\ \A o \in Objects : Alive(o) => lists[o] \in GoodLists
  /\ loop # NoLoop =>
       /\ Alive(loop.list)
       /\ loop.then \in {"copy", "move"} => Alive(loop.other) /\ loop.other # loop.list
       /\ LoopPlace(lists[loop.list], loop.idx, loop.to, loop.then # "return")

-----------------------------------------------------------------------------
(* A well-formed list is an object. *)
LEMMA GoodListsAreObjects ==
  GoodLists \subseteq ListObjects /\ NoObject \notin GoodLists
BY NoObjectIsNoList DEF GoodLists

(* A call that returns at once and replaces one list by a well-formed one  *)
(* keeps the invariant.                                                    *)
LEMMA ReplaceKeepsInv ==
  ASSUME ListInv, loop' = NoLoop, NEW o \in Objects, NEW m \in GoodLists,
         lists' = [lists EXCEPT ![o] = m], aborted' \in BOOLEAN
  PROVE  ListInv'
<1>1. lists' \in [Objects -> ListObjects \cup {NoObject}]
  BY GoodListsAreObjects DEF ListInv, TypeOK
<1>2. \A p \in Objects : lists'[p] # NoObject => lists'[p] \in GoodLists
  BY DEF ListInv, TypeOK, Alive
<1>3. TypeOK'
  BY <1>1 DEF TypeOK
<1> QED  BY <1>2, <1>3 DEF ListInv, Alive

(* Every call that only starts a clearing loop keeps the invariant. *)
LEMMA StartClearKeepsInv ==
  ASSUME ListInv, NEW o \in Objects, Alive(o), NEW then \in Continuations,
         NEW other \in Objects,
         then \in {"copy", "move"} => Alive(other) /\ other # o,
         StartLoop(o, front_index(lists[o]), NULL_INDEX, then, other),
         UNCHANGED <<lists, aborted>>
  PROVE  ListInv'
<1>1. lists[o] \in GoodLists /\ lists' = lists /\ aborted' = aborted
  BY DEF ListInv
<1>2. NULL_INDEX \in Links
  BY MaximumSizeIsNat DEF Links, NULL_INDEX
<1>3. LoopPlace(lists[o], front_index(lists[o]), NULL_INDEX, TRUE)
      /\ front_index(lists[o]) \in Links
  BY <1>1, ClearingLoopPlace
<1>4. loop' = [list |-> o, idx |-> front_index(lists[o]), to |-> NULL_INDEX,
               then |-> then, other |-> other]
  BY DEF StartLoop
<1>5. loop' \in Loops
  BY <1>2, <1>3, <1>4 DEF Loops
<1>6. TypeOK'
  BY <1>1, <1>5 DEF ListInv, TypeOK
<1>7. LoopPlace(lists[o], front_index(lists[o]), NULL_INDEX, then # "return")
  BY <1>3 DEF LoopPlace
<1>8. LoopPlace(lists'[loop'.list], loop'.idx, loop'.to, loop'.then # "return")
  BY <1>1, <1>4, <1>7
<1>9. /\ lists'[loop'.list] # NoObject
      /\ loop'.then \in {"copy", "move"} => lists'[loop'.other] # NoObject /\ loop'.other # loop'.list
  BY <1>1, <1>4 DEF Alive
<1> QED  BY <1>1, <1>6, <1>8, <1>9 DEF ListInv, Alive

(* The four emplace functions. *)
LEMMA EmplaceAfterKeepsInv ==
  ASSUME ListInv, Idle, NEW o \in Objects, Alive(o), NEW v \in Values,
         NEW idx \in Positions(lists[o]), EmplaceAfter(o, idx, v)
  PROVE  ListInv'
<1>1. lists[o] \in GoodLists /\ loop' = NoLoop
  BY DEF ListInv, Idle, EmplaceAfter
<1>2. CASE ~full(lists[o].storage)
  <2>1. v \in Contents /\ idx \in Live(lists[o].storage) \cup {NULL_INDEX}
    BY DEF Contents, Positions
  <2>2. emplace_after_index(lists[o], idx, v) \in GoodLists
    BY <1>1, <1>2, <2>1, EmplaceKeepsGood
  <2>3. lists' = [lists EXCEPT ![o] = emplace_after_index(lists[o], idx, v)]
        /\ aborted' = aborted
    BY <1>2 DEF EmplaceAfter
  <2> QED  BY <1>1, <2>2, <2>3, ReplaceKeepsInv DEF ListInv, TypeOK
<1>3. CASE full(lists[o].storage)
  <2>1. lists' = lists /\ aborted' = TRUE
    BY <1>3 DEF EmplaceAfter
  <2> QED  BY <1>1, <2>1 DEF ListInv, TypeOK, Alive
<1> QED  BY <1>2, <1>3

(* emplace_before_index and the two ends pass a link of the list on. *)
LEMMA InsertionKeepsInv ==
  ASSUME ListInv, NEW o \in Objects, Insertion(o)
  PROVE  ListInv'
<1>1. PICK v \in Values :
        \/ \E idx \in Links : emplace_after_index_and_return_index(o, idx, v)
        \/ \E idx \in Links : emplace_before_index_and_return_index(o, idx, v)
        \/ emplace_back_and_return_index(o, v)
        \/ emplace_front_and_return_index(o, v)
  BY DEF Insertion
<1>2. Idle /\ Alive(o) /\ lists[o] \in GoodLists
  BY <1>1 DEF ListInv, emplace_after_index_and_return_index,
       emplace_before_index_and_return_index, emplace_back_and_return_index,
       emplace_front_and_return_index
<1>3. /\ NULL_INDEX \in Positions(lists[o])
      /\ \A i \in Positions(lists[o]) :
           lists[o].prev[i] \in Positions(lists[o]) /\ lists[o].next[i] \in Positions(lists[o])
  BY <1>2, LinksStayInList DEF Positions
<1>4. PICK idx \in Positions(lists[o]) : EmplaceAfter(o, idx, v)
  BY <1>1, <1>3 DEF emplace_after_index_and_return_index,
       emplace_before_index_and_return_index, emplace_back_and_return_index,
       emplace_front_and_return_index, back_index, front_index
<1> QED  BY <1>2, <1>4, EmplaceAfterKeepsInv

(* delete_at, and the calls that start a loop of deletions. *)
LEMMA RemovalKeepsInv ==
  ASSUME ListInv, NEW o \in Objects, Removal(o)
  PROVE  ListInv'
<1>1. ASSUME NEW idx \in Slots, delete_at_and_return_next_index(o, idx) PROVE ListInv'
  <2>1. /\ lists[o] \in GoodLists /\ idx \in Live(lists[o].storage) /\ loop' = NoLoop
        /\ lists' = [lists EXCEPT ![o] = delete_at(lists[o], idx)] /\ aborted' = aborted
    BY <1>1 DEF ListInv, delete_at_and_return_next_index, Idle
  <2>2. delete_at(lists[o], idx) \in GoodLists
    BY <2>1, DeleteKeepsGood
  <2> QED  BY <2>1, <2>2, ReplaceKeepsInv DEF ListInv, TypeOK
<1>2. ASSUME NEW from \in Links, NEW to \in Links,
             delete_range_and_return_next_index(o, from, to)
      PROVE  ListInv'
  <2> DEFINE l == lists[o]
  <2>1. /\ l \in GoodLists /\ from \in Live(l.storage) \cup {NULL_INDEX}
        /\ to \in WalkFrom(l, from) /\ lists' = lists /\ aborted' = aborted /\ Alive(o)
        /\ loop' = [list |-> o, idx |-> from, to |-> to, then |-> "return", other |-> o]
    BY <1>2 DEF ListInv, delete_range_and_return_next_index, Positions, StartLoop
  <2>2. LoopPlace(l, from, to, FALSE)
    BY <2>1, RangeHasLoopPlace DEF Positions
  <2>3. loop' \in Loops
    BY <2>1 DEF Loops, Continuations
  <2>4. TypeOK'
    BY <2>1, <2>3 DEF ListInv, TypeOK
  <2>5. /\ LoopPlace(lists'[loop'.list], loop'.idx, loop'.to, loop'.then # "return")
        /\ lists'[loop'.list] # NoObject /\ loop'.then = "return"
    BY <2>1, <2>2 DEF Alive
  <2> QED  BY <2>1, <2>4, <2>5 DEF ListInv, Alive
<1>3. CASE clear(o)
  <2>1. "return" \in Continuations /\ "return" \notin {"copy", "move"}
    BY DEF Continuations
  <2> QED  BY <1>3, <2>1, StartClearKeepsInv DEF clear
<1> QED  BY <1>1, <1>2, <1>3 DEF Removal

(* One iteration of the loop. *)
LEMMA LoopBodyKeepsInv ==
  ASSUME ListInv, LoopBody
  PROVE  ListInv'
<1> DEFINE o == loop.list
           l == lists[loop.list]
           m == delete_at(l, loop.idx)
           next == NextAfterDelete(l, loop.idx)
           clears == loop.then # "return"
<1>1. /\ loop # NoLoop /\ loop.idx # loop.to /\ aborted' = aborted
      /\ lists' = [lists EXCEPT ![o] = m]
      /\ loop' = [loop EXCEPT !.idx = next]
  BY DEF LoopBody
<1>2. loop \in Loops /\ o \in Objects
  BY <1>1 DEF ListInv, TypeOK, Loops
<1>3. /\ l \in GoodLists /\ LoopPlace(l, loop.idx, loop.to, clears)
      /\ loop.then \in {"copy", "move"} => Alive(loop.other) /\ loop.other # o
  BY <1>1, <1>2 DEF ListInv
<1>4. m \in GoodLists /\ next \in Links /\ LoopPlace(m, next, loop.to, clears)
  BY <1>1, <1>3, DeleteKeepsLoopPlace
<1> HIDE DEF m, l, next, clears
<1>5. /\ loop' = [list |-> o, idx |-> next, to |-> loop.to,
                  then |-> loop.then, other |-> loop.other]
      /\ loop.to \in Links /\ loop.then \in Continuations /\ loop.other \in Objects
  BY <1>1, <1>2 DEF Loops
<1>6. loop' \in Loops
  BY <1>2, <1>4, <1>5 DEF Loops
<1>7. lists \in [Objects -> ListObjects \cup {NoObject}]
  BY DEF ListInv, TypeOK
<1>8. lists' \in [Objects -> ListObjects \cup {NoObject}]
  BY <1>1, <1>2, <1>4, <1>7, GoodListsAreObjects
<1>9. TypeOK'
  BY <1>1, <1>6, <1>8 DEF ListInv, TypeOK
<1>10. \A p \in Objects : lists'[p] # NoObject => lists'[p] \in GoodLists
  BY <1>1, <1>2, <1>4, <1>7 DEF ListInv, Alive
<1>11. /\ lists'[o] = m /\ m # NoObject
       /\ \A p \in Objects : p # o => lists'[p] = lists[p]
  BY <1>1, <1>2, <1>4, <1>7, GoodListsAreObjects
<1>12. /\ loop'.list = o /\ loop'.idx = next /\ loop'.to = loop.to
       /\ loop'.then = loop.then /\ loop'.other = loop.other
  BY <1>5
<1>13. /\ lists'[loop'.list] # NoObject
       /\ loop'.then \in {"copy", "move"} =>
            lists'[loop'.other] # NoObject /\ loop'.other # loop'.list
       /\ LoopPlace(lists'[loop'.list], loop'.idx, loop'.to, loop'.then # "return")
  BY <1>3, <1>4, <1>5, <1>11, <1>12 DEF Alive, clears
<1> QED  BY <1>9, <1>10, <1>13 DEF ListInv, Alive

(* A move replaces the destination by a copy and leaves the source moved   *)
(* from.                                                                   *)
LEMMA MoveKeepsGood ==
  ASSUME ListInv, NEW o \in Objects, NEW other \in Objects, o # other, Alive(other),
         lists' = [lists EXCEPT ![o] = lists[other],
                                ![other] = MovedOut(@)]
  PROVE  /\ lists' \in [Objects -> ListObjects \cup {NoObject}]
         /\ \A p \in Objects : lists'[p] # NoObject => lists'[p] \in GoodLists
         /\ lists'[other] = MovedOut(lists[other]) /\ lists'[other] # NoObject
<1>1. lists[other] \in GoodLists /\ lists[other] \in ListObjects
  BY GoodListsAreObjects DEF ListInv
<1>3. MovedOut(lists[other]) \in GoodLists
  BY <1>1, MovedOutKeepsOrder
<1>4. lists \in [Objects -> ListObjects \cup {NoObject}]
  BY DEF ListInv, TypeOK
<1>5. /\ \A p \in Objects \ {o, other} : lists'[p] = lists[p]
      /\ lists'[o] = lists[other] /\ lists'[other] = MovedOut(lists[other])
      /\ lists' = [p \in Objects |-> lists'[p]]
  BY <1>4
<1>6. \A p \in Objects : lists'[p] \in GoodLists \/ lists'[p] = NoObject
  BY <1>1, <1>3, <1>4, <1>5 DEF ListInv, Alive
<1>7. \A p \in Objects : lists'[p] \in ListObjects \cup {NoObject}
  BY <1>6, GoodListsAreObjects
<1>8. lists' \in [Objects -> ListObjects \cup {NoObject}]
  BY <1>5, <1>7
<1> QED  BY <1>3, <1>5, <1>6, <1>8, GoodListsAreObjects

(* What follows the loop: nothing, the body of an assignment, the end of   *)
(* the object.                                                             *)
LEMMA LoopEndKeepsInv ==
  ASSUME ListInv, LoopEnd
  PROVE  ListInv'
<1>1. loop # NoLoop /\ loop' = NoLoop /\ aborted' = aborted
  BY DEF LoopEnd
<1>2. loop \in Loops /\ loop.list \in Objects /\ loop.other \in Objects
  BY <1>1 DEF ListInv, TypeOK, Loops
<1>3. lists \in [Objects -> ListObjects \cup {NoObject}] /\ aborted' \in BOOLEAN
  BY <1>1 DEF ListInv, TypeOK
<1>4. loop.then \in {"copy", "move"} => Alive(loop.other) /\ loop.other # loop.list
  BY <1>1 DEF ListInv
<1>5. CASE lists' = lists
  BY <1>1, <1>3, <1>5 DEF ListInv, TypeOK, Alive
<1>6. CASE loop.then = "copy" /\ lists' = [lists EXCEPT
             ![loop.list] = lists[loop.other]]
  <2>1. lists[loop.other] \in GoodLists
    BY <1>2, <1>4, <1>6 DEF ListInv
  <2> QED  BY <1>1, <1>2, <1>3, <1>6, <2>1, ReplaceKeepsInv
<1>7. CASE loop.then = "move" /\ lists' = [lists EXCEPT
             ![loop.list] = lists[loop.other],
             ![loop.other] = MovedOut(@)]
  <2>1. /\ lists' \in [Objects -> ListObjects \cup {NoObject}]
        /\ \A p \in Objects : lists'[p] # NoObject => lists'[p] \in GoodLists
    BY <1>2, <1>4, <1>7, MoveKeepsGood
  <2> QED  BY <1>1, <1>3, <2>1 DEF ListInv, TypeOK, Alive
<1>8. CASE lists' = [lists EXCEPT ![loop.list] = NoObject]
  <2>1. /\ lists' \in [Objects -> ListObjects \cup {NoObject}]
        /\ \A p \in Objects : lists'[p] # NoObject => lists'[p] \in GoodLists
    BY <1>3, <1>8 DEF ListInv, Alive
  <2> QED  BY <1>1, <1>3, <2>1 DEF ListInv, TypeOK, Alive
<1>9. loop.then \in {"copy", "move"} => Copies(lists[loop.list], lists[loop.other]) = {lists[loop.other]}
  BY <1>2, <1>4, CopyIsTheSame DEF ListInv
<1> QED  BY <1>5, <1>6, <1>7, <1>8, <1>9 DEF LoopEnd

(* Move construction copies, then clears the source, whose order the copy  *)
(* has left as it was.                                                     *)
LEMMA MoveConstructKeepsInv ==
  ASSUME ListInv, NEW o \in Objects, NEW other \in Objects, MoveConstruct(o, other)
  PROVE  ListInv'
<1> DEFINE l == lists[other]
           m == MovedOut(l)
<1>1. /\ Alive(other) /\ o # other /\ aborted' = aborted
      /\ lists' = [lists EXCEPT ![o] = lists[other],
                                ![other] = MovedOut(@)]
      /\ loop' = [list |-> other, idx |-> front_index(l), to |-> NULL_INDEX,
                  then |-> "return", other |-> other]
  <2>1. Alive(other) /\ l \in GoodLists
    BY DEF MoveConstruct, ListInv
  <2>2. Copies(EmptyList, lists[other]) = {lists[other]}
    BY <2>1, CopyIsTheSame
  <2> QED  BY <2>1, <2>2 DEF MoveConstruct, StartLoop, Alive
<1>2. /\ lists' \in [Objects -> ListObjects \cup {NoObject}]
      /\ \A p \in Objects : lists'[p] # NoObject => lists'[p] \in GoodLists
      /\ lists'[other] = m /\ lists'[other] # NoObject
  BY <1>1, MoveKeepsGood
<1>3. l \in GoodLists
  BY <1>1 DEF ListInv
<1>4. m \in GoodLists /\ m.next = l.next
  BY <1>3, MovedOutKeepsOrder
<1>5. LoopPlace(m, front_index(m), NULL_INDEX, TRUE) /\ front_index(m) \in Links
  BY <1>4, ClearingLoopPlace
<1>6. front_index(m) = front_index(l)
  BY <1>4 DEF front_index
<1>7. LoopPlace(m, front_index(l), NULL_INDEX, FALSE)
  BY <1>5, <1>6 DEF LoopPlace
<1>8. loop' \in Loops
  BY <1>1, <1>5, <1>6, MaximumSizeIsNat DEF Loops, Continuations, Links, NULL_INDEX
<1>9. TypeOK'
  BY <1>1, <1>2, <1>8 DEF ListInv, TypeOK
<1>10. /\ LoopPlace(lists'[loop'.list], loop'.idx, loop'.to, loop'.then # "return")
       /\ lists'[loop'.list] # NoObject /\ loop'.then = "return"
  BY <1>1, <1>2, <1>7
<1> QED  BY <1>2, <1>9, <1>10 DEF ListInv, Alive

(* Construction, destruction, copies, moves and assignments. *)
LEMMA LifetimeKeepsInv ==
  ASSUME ListInv, NEW o \in Objects, Lifetime(o)
  PROVE  ListInv'
<1>1. lists \in [Objects -> ListObjects \cup {NoObject}] /\ aborted \in BOOLEAN
  BY DEF ListInv, TypeOK
<1>2. CASE Construct(o)
  BY <1>1, <1>2, EmptyListIsGood, ReplaceKeepsInv DEF Construct, Idle
<1>3. CASE TrivialDestroy(o)
  <2>1. loop' = NoLoop /\ aborted' = aborted /\ lists' = [lists EXCEPT ![o] = NoObject]
    BY <1>3 DEF TrivialDestroy, Idle
  <2>2. /\ lists' \in [Objects -> ListObjects \cup {NoObject}]
        /\ \A p \in Objects : lists'[p] # NoObject => lists'[p] \in GoodLists
    BY <1>1, <2>1 DEF ListInv, Alive
  <2> QED  BY <1>1, <2>1, <2>2 DEF ListInv, TypeOK, Alive
<1>4. CASE Destroy(o)
  <2>1. "destroy" \in Continuations /\ "destroy" \notin {"copy", "move"}
    BY DEF Continuations
  <2> QED  BY <1>4, <2>1, StartClearKeepsInv DEF Destroy
<1>5. ASSUME NEW other \in Objects, CopyConstruct(o, other) PROVE ListInv'
  <2>1. lists[other] \in GoodLists
    BY <1>5 DEF ListInv, CopyConstruct
  <2>2. Copies(EmptyList, lists[other]) = {lists[other]}
    BY <2>1, CopyIsTheSame
  <2> QED  BY <1>1, <1>5, <2>1, <2>2, ReplaceKeepsInv DEF CopyConstruct, Idle
<1>6. ASSUME NEW other \in Objects, TrivialConstruct(o, other) \/ TrivialAssign(o, other)
      PROVE  ListInv'
  <2>1. lists[other] \in GoodLists
    BY <1>6 DEF ListInv, TrivialConstruct, TrivialAssign
  <2> QED  BY <1>1, <1>6, <2>1, ReplaceKeepsInv DEF TrivialConstruct, TrivialAssign, Idle
<1>7. ASSUME NEW other \in Objects, MoveConstruct(o, other) PROVE ListInv'
  BY <1>7, MoveConstructKeepsInv
<1>8. ASSUME NEW other \in Objects, CopyAssign(o, other) PROVE ListInv'
  <2>1. "copy" \in Continuations
    BY DEF Continuations
  <2> QED  BY <1>8, <2>1, StartClearKeepsInv DEF CopyAssign
<1>9. ASSUME NEW other \in Objects, MoveAssign(o, other) PROVE ListInv'
  <2>1. "move" \in Continuations
    BY DEF Continuations
  <2> QED  BY <1>9, <2>1, StartClearKeepsInv DEF MoveAssign
<1> QED  BY <1>2, <1>3, <1>4, <1>5, <1>6, <1>7, <1>8, <1>9 DEF Lifetime

(* Every step of the linked list keeps the invariant. *)
LEMMA ListInvInductive == ListInv /\ [Next]_vars => ListInv'
<1> SUFFICES ASSUME ListInv, [Next]_vars PROVE ListInv'
  OBVIOUS
<1>1. CASE UNCHANGED vars
  BY <1>1 DEF vars, ListInv, TypeOK, Alive
<1>2. CASE Loop
  BY <1>2, LoopBodyKeepsInv, LoopEndKeepsInv DEF Loop
<1>3. ASSUME NEW o \in Objects, Insertion(o) \/ Removal(o) \/ Lifetime(o) PROVE ListInv'
  BY <1>3, InsertionKeepsInv, RemovalKeepsInv, LifetimeKeepsInv
<1> QED  BY <1>1, <1>2, <1>3 DEF Next

-----------------------------------------------------------------------------
(* insert_internal within capacity puts the elements of the range behind   *)
(* the first k of the list, in their order, and returns the index of the   *)
(* first one.                                                              *)
LEMMA InsertIsExact ==
  ASSUME NEW l \in GoodLists, NEW N \in Nat, NEW items \in [1 .. N -> Values],
         NEW k \in 0 .. l.size, NEW pos, Filling(l, k, pos, l), l.size + N <= MAXIMUM_SIZE
  PROVE  LET r == insert_internal(l, pos, items) IN
         /\ r.list \in GoodLists /\ r.list.size = l.size + N /\ Filled(l, k, r.list)
         /\ \A j \in 1 .. N : Items(r.list)[k + j][2] = items[j]
         /\ N > 0 => Items(r.list)[k + 1][1] = r.ret
<1> DEFINE Body(f) ==
             [n \in 0 .. N |-> IF n = 0 THEN l
                ELSE emplace_after_index(f[n - 1], f[n - 1].prev[pos], items[n])]
           fill == CHOOSE f : f = Body(f)
           Inserted(n, s) ==
             /\ s.size = l.size + n /\ Filling(l, k, pos, s)
             /\ \A j \in 1 .. n : Items(s)[k + j][2] = items[j]
             /\ IF n = 0 THEN s = l ELSE Items(s)[k + 1][1] = l.storage.next_index
           X == [n \in 0 .. N |-> {s \in GoodLists : Inserted(n, s)}]
           F == [n \in 1 .. N |-> [s \in X[n - 1] |->
                   emplace_after_index(s, s.prev[pos], items[n])]]
<1>1. Len(items) = N
  OBVIOUS
<1>2. l.size \in Nat
  BY ListFields DEF GoodLists
<1>3. ASSUME NEW n \in 1 .. N, NEW s \in X[n - 1]
      PROVE  emplace_after_index(s, s.prev[pos], items[n]) \in X[n]
  <2>1. n - 1 \in 0 .. N /\ n \in 0 .. N /\ (l.size + (n - 1)) + 1 = l.size + n
    BY <1>2
  <2>2. s \in GoodLists /\ Inserted(n - 1, s)
    BY <1>3, <2>1
  <2>3. ~full(s.storage)
    <3>1. s.size # MAXIMUM_SIZE
      BY <1>2, <2>2, MaximumSizeIsNat
    <3> QED  BY <2>2, <3>1, FullMeansMaximumSize
  <2> DEFINE m == emplace_after_index(s, s.prev[pos], items[n])
             q == k + (s.size - l.size)
  <2>4. /\ m \in GoodLists /\ m.size = s.size + 1 /\ Filling(l, k, pos, m)
        /\ \A j \in 1 .. q : Items(m)[j] = Items(s)[j]
        /\ Items(m)[q + 1][1] = s.storage.next_index /\ Items(m)[q + 1][2] = items[n]
    BY <2>2, <2>3, EmplaceFills
  <2>5. s.size = l.size + (n - 1) /\ m.size = s.size + 1 /\ k \in Nat /\ n \in Nat /\ n >= 1
    BY <1>2, <2>2, <2>4
  <2> HIDE DEF m
  <2>6. /\ m.size = l.size + n /\ q + 1 = k + n
        /\ \A j \in 1 .. n : j = n \/ (j \in 1 .. n - 1 /\ k + j \in 1 .. q)
        /\ IF n = 1 THEN q + 1 = k + 1 ELSE k + 1 \in 1 .. q
        /\ n - 1 = 0 <=> n = 1
    BY <1>2, <2>5
  <2> HIDE DEF q
  <2>7. \A j \in 1 .. n : Items(m)[k + j][2] = items[j]
    BY <2>2, <2>4, <2>6
  <2>8. Items(m)[k + 1][1] = l.storage.next_index
    <3>1. CASE n = 1
      BY <2>2, <2>4, <2>6, <3>1
    <3>2. CASE n # 1
      BY <2>2, <2>4, <2>6, <3>2
    <3> QED  BY <3>1, <3>2
  <2>9. Inserted(n, m) /\ m \in GoodLists
    BY <2>4, <2>6, <2>7, <2>8
  <2> HIDE DEF Inserted
  <2>10. m \in X[n]
    BY <2>1, <2>9
  <2> QED  BY <2>10 DEF m
<1>4. l \in X[0]
  BY <1>2
<1> HIDE DEF Inserted
<1>5. fill = Body(fill)
  <2>1. \A n \in 1 .. N : \A s \in X[n - 1] :
          F[n][s] = emplace_after_index(s, s.prev[pos], items[n]) /\ F[n][s] \in X[n]
    BY <1>3
  <2> HIDE DEF X, F
  <2>2. PICK f : LoopStates(f, l, X, F, N)
    BY <1>4, <2>1, RecursionExists
  <2>3. \A n \in 1 .. N : n # 0 /\ n - 1 \in 0 .. N
    OBVIOUS
  <2>4. f = [n \in 0 .. N |-> f[n]]
    BY <2>2 DEF LoopStates
  <2>5. \A n \in 0 .. N : n = 0 \/ n \in 1 .. N
    OBVIOUS
  <2>6. f[0] = l /\ \A n \in 1 .. N : f[n - 1] \in X[n - 1] /\ f[n] = F[n][f[n - 1]]
    BY <2>2, <2>3 DEF LoopStates
  <2>7. \A n \in 0 .. N : f[n] = Body(f)[n]
    BY <2>1, <2>3, <2>5, <2>6
  <2>8. Body(f) = [n \in 0 .. N |-> Body(f)[n]]
    OBVIOUS
  <2> HIDE DEF Body
  <2>9. f = Body(f)
    BY <2>4, <2>7, <2>8
  <2> QED  BY <2>9
<1>6. \A n \in 0 .. N : fill[n] \in X[n]
  <2> DEFINE S == {n \in 0 .. N : fill[n] \in X[n]}
  <2> HIDE DEF fill, X
  <2>1. 0 \in S
    BY <1>4, <1>5
  <2>2. ASSUME NEW n \in 1 .. N, n - 1 \in S PROVE n \in S
    <3>1. n \in 0 .. N /\ n # 0
      OBVIOUS
    <3>2. fill[n] = emplace_after_index(fill[n - 1], fill[n - 1].prev[pos], items[n])
      BY <1>5, <3>1
    <3> QED  BY <1>3, <2>2, <3>1, <3>2
  <2> HIDE DEF S
  <2>3. \A n \in 0 .. N : n \in S
    BY <2>1, <2>2, LoopInduction
  <2> QED  BY <2>3 DEF S
<1>7. /\ insert_internal(l, pos, items).list = fill[N]
      /\ insert_internal(l, pos, items).ret = IF items = << >> THEN NULL_INDEX
                                              ELSE l.storage.next_index
  BY <1>1 DEF insert_internal
<1>8. N \in 0 .. N /\ (N > 0 => N # 0 /\ items # << >>)
  BY <1>1
<1> HIDE DEF fill
<1>9. fill[N] \in GoodLists /\ Inserted(N, fill[N])
  BY <1>6, <1>8
<1> QED  BY <1>7, <1>8, <1>9 DEF Inserted, Filling

(* In front of which place a position stands. *)
LEMMA PositionFilling ==
  ASSUME NEW l \in GoodLists, NEW pos \in Positions(l)
  PROVE  \E k \in 0 .. l.size : Filling(l, k, pos, l)
<1>1. l \in ListObjects /\ l.size \in Nat
  BY ListFields DEF GoodLists
<1>2. PICK e : Order(l, e)
  BY ChainHasOrder DEF GoodLists
<1>3. PICK j \in 1 .. l.size + 1 : pos = e[j]
  BY <1>1, <1>2, PositionHasPlace DEF Positions
<1>4. j - 1 \in 0 .. l.size /\ (j - 1) + 1 = j
  BY <1>1
<1> QED  BY <1>2, <1>3, <1>4, FillingStarts

(* So the list stays well formed, grows by the length of the range and     *)
(* keeps its elements.                                                     *)
LEMMA InsertKeepsGood ==
  ASSUME NEW l \in GoodLists, NEW N \in Nat, NEW items \in [1 .. N -> Values],
         NEW pos \in Positions(l), l.size + N <= MAXIMUM_SIZE
  PROVE  LET m == insert_internal(l, pos, items).list IN
         m \in GoodLists /\ m.size = l.size + N /\ Edited(l, m)
<1> DEFINE m == insert_internal(l, pos, items).list
<1>1. PICK k \in 0 .. l.size : Filling(l, k, pos, l)
  BY PositionFilling
<1>2. m \in GoodLists /\ m.size = l.size + N /\ Filled(l, k, m)
  BY <1>1, InsertIsExact
<1> HIDE DEF m
<1>3. Edited(l, m)
  BY <1>2, FilledIsEdited
<1> QED  BY <1>2, <1>3 DEF m

(* m has count elements: those of l as far as they go, then v. *)
Resized(l, count, v, m) ==
  /\ m.size = count /\ \A j \in 1 .. count : j <= l.size => Items(m)[j] = Items(l)[j]
  /\ \A j \in 1 .. count : ~(j <= l.size) => Items(m)[j][2] = v

(* The growing loop of resize: push_back until the size is reached. *)
LEMMA GrowKeepsGood ==
  ASSUME NEW l \in GoodLists, NEW count \in Nat, count <= MAXIMUM_SIZE,
         l.size < count, NEW v \in Values
  PROVE  LET m == resize(l, count, v) IN
         m \in GoodLists /\ Resized(l, count, v, m) /\ Edited(l, m)
<1> DEFINE N == count - l.size
           Body(f) == [n \in 0 .. N |-> IF n = 0 THEN l ELSE push_back(f[n - 1], v)]
           grow == CHOOSE f : f = Body(f)
           X == [n \in 0 .. N |-> {s \in GoodLists : Resized(l, l.size + n, v, s)
                                       /\ Filling(l, l.size, NULL_INDEX, s)}]
           F == [n \in 1 .. N |-> [s \in X[n - 1] |-> push_back(s, v)]]
<1>1. resize(l, count, v) = grow[N]
  BY DEF resize
<1>2. l.size \in Nat
  BY ListFields DEF GoodLists
<1>3. N \in Nat /\ l.size + N = count
  BY <1>2
<1> HIDE DEF N
<1>4. ASSUME NEW n \in 1 .. N, NEW s \in X[n - 1]
      PROVE  push_back(s, v) \in X[n]
  <2>1. n - 1 \in 0 .. N /\ n \in 0 .. N /\ (l.size + (n - 1)) + 1 = l.size + n
    BY <1>2, <1>3
  <2>2. /\ s \in GoodLists /\ s.size = l.size + (n - 1) /\ Filling(l, l.size, NULL_INDEX, s)
        /\ Resized(l, l.size + (n - 1), v, s)
    BY <1>4, <2>1 DEF Resized
  <2>3. ~full(s.storage)
    <3>1. s.size # MAXIMUM_SIZE
      BY <1>2, <1>3, <2>2, MaximumSizeIsNat
    <3> QED  BY <2>2, <3>1, FullMeansMaximumSize
  <2> DEFINE m == push_back(s, v)
  <2>4. /\ m \in GoodLists /\ m.size = s.size + 1 /\ Filling(l, l.size, NULL_INDEX, m)
        /\ \A j \in 1 .. l.size + (s.size - l.size) : Items(m)[j] = Items(s)[j]
        /\ Items(m)[l.size + (s.size - l.size) + 1][2] = v
    BY <2>2, <2>3, EmplaceFills DEF push_back, back_index
  <2> HIDE DEF m
  <2>5. m.size = l.size + n /\ n \in Nat /\ n >= 1
    BY <1>3, <2>1, <2>2, <2>4
  <2>6. Resized(l, l.size + n, v, m)
    <3>1. /\ l.size + (s.size - l.size) = l.size + (n - 1)
          /\ l.size + (s.size - l.size) + 1 = l.size + n
          /\ \A j \in 1 .. l.size + n : j = l.size + n \/ j \in 1 .. l.size + (n - 1)
          /\ ~(l.size + n <= l.size)
      BY <1>2, <2>2, <2>5
    <3>2. /\ \A j \in 1 .. l.size + (n - 1) : Items(m)[j] = Items(s)[j]
          /\ Items(m)[l.size + n][2] = v
      BY <2>4, <3>1
    <3> QED  BY <2>2, <2>5, <3>1, <3>2 DEF Resized
  <2>7. m \in X[n]
    BY <2>1, <2>4, <2>6
  <2> QED  BY <2>7 DEF m
<1>5. l \in X[0]
  <2>1. PICK e : Order(l, e)
    BY ChainHasOrder DEF GoodLists
  <2>2. e[l.size + 1] = NULL_INDEX /\ l.size \in 0 .. l.size
    BY <1>2, <2>1 DEF Order
  <2>3. Filling(l, l.size, NULL_INDEX, l)
    BY <2>1, <2>2, FillingStarts
  <2>4. Resized(l, l.size + 0, v, l)
    BY <1>2 DEF Resized
  <2> QED  BY <1>2, <1>3, <2>3, <2>4
<1>6. grow = Body(grow)
  <2>1. \A n \in 1 .. N : \A s \in X[n - 1] : F[n][s] = push_back(s, v) /\ F[n][s] \in X[n]
    BY <1>4
  <2> HIDE DEF X, F
  <2>2. PICK f : LoopStates(f, l, X, F, N)
    BY <1>3, <1>5, <2>1, RecursionExists
  <2>3. \A n \in 1 .. N : n # 0 /\ n - 1 \in 0 .. N
    BY <1>3
  <2>4. f = [n \in 0 .. N |-> f[n]]
    BY <2>2 DEF LoopStates
  <2>5. \A n \in 0 .. N : n = 0 \/ n \in 1 .. N
    BY <1>3
  <2>6. f[0] = l /\ \A n \in 1 .. N : f[n - 1] \in X[n - 1] /\ f[n] = F[n][f[n - 1]]
    BY <2>2, <2>3 DEF LoopStates
  <2>7. \A n \in 0 .. N : f[n] = Body(f)[n]
    BY <2>1, <2>3, <2>5, <2>6
  <2>8. Body(f) = [n \in 0 .. N |-> Body(f)[n]]
    OBVIOUS
  <2> HIDE DEF Body
  <2>9. f = Body(f)
    BY <2>4, <2>7, <2>8
  <2> QED  BY <2>9
<1>7. \A n \in 0 .. N : grow[n] \in X[n]
  <2> DEFINE S == {n \in 0 .. N : grow[n] \in X[n]}
  <2> HIDE DEF grow, X
  <2>1. 0 \in S
    BY <1>3, <1>5, <1>6
  <2>2. ASSUME NEW n \in 1 .. N, n - 1 \in S PROVE n \in S
    <3>1. n \in 0 .. N /\ n # 0
      BY <1>3
    <3>2. grow[n] = push_back(grow[n - 1], v)
      BY <1>6, <3>1
    <3> QED  BY <1>4, <2>2, <3>1, <3>2
  <2> HIDE DEF S
  <2>3. \A n \in 0 .. N : n \in S
    BY <1>3, <2>1, <2>2, LoopInduction
  <2> QED  BY <2>3 DEF S
<1>8. N \in 0 .. N
  BY <1>3
<1> HIDE DEF grow
<1>9. /\ grow[N] \in GoodLists /\ Resized(l, count, v, grow[N])
      /\ Filling(l, l.size, NULL_INDEX, grow[N])
  BY <1>3, <1>7, <1>8
<1>10. Edited(l, grow[N])
  BY <1>9, FilledIsEdited DEF Filling
<1> QED  BY <1>1, <1>9, <1>10

(* pop_back() leaves the elements in front of the last. *)
LEMMA PopBackItems ==
  ASSUME NEW l \in GoodLists, l.size > 0
  PROVE  LET m == delete_at(l, back_index(l)) IN
         \A j \in 1 .. l.size - 1 : Items(m)[j] = Items(l)[j]
<1>1. PICK e : Order(l, e)
  BY ChainHasOrder DEF GoodLists
<1>2. l.size \in Nat
  BY ListFields DEF GoodLists
<1>3. l.size \in 0 .. l.size /\ l.size \in 1 .. l.size /\ \A j \in 1 .. l.size - 1 : j < l.size
  BY <1>2
<1>4. back_index(l) = e[l.size]
  BY <1>1, <1>3 DEF back_index, Order
<1>5. \A j \in 1 .. l.size - 1 :
        Items(delete_at(l, e[l.size]))[j] = Items(l)[IF j < l.size THEN j ELSE j + 1]
  BY <1>1, <1>3, DeleteItems
<1> QED  BY <1>3, <1>4, <1>5

(* The shrinking loop of resize: pop_back until the size is reached. *)
LEMMA ShrinkKeepsGood ==
  ASSUME NEW l \in GoodLists, NEW count \in Nat, ~(l.size < count), NEW v \in Values
  PROVE  LET m == resize(l, count, v) IN
         m \in GoodLists /\ Resized(l, count, v, m) /\ Edited(l, m)
<1> DEFINE N == l.size - count
           Body(f) == [n \in 0 .. N |-> IF n = 0 THEN l
                         ELSE delete_at(f[n - 1], back_index(f[n - 1]))]
           shrink == CHOOSE f : f = Body(f)
           X == [n \in 0 .. N |-> {s \in GoodLists : Resized(l, l.size - n, v, s)
                                                     /\ Kept(l, s)}]
           F == [n \in 1 .. N |-> [s \in X[n - 1] |-> delete_at(s, back_index(s))]]
<1>1. resize(l, count, v) = shrink[N]
  BY DEF resize
<1>2. l.size \in Nat
  BY ListFields DEF GoodLists
<1>3. N \in Nat /\ l.size - N = count
  BY <1>2
<1> HIDE DEF N
<1>4. ASSUME NEW n \in 1 .. N, NEW s \in X[n - 1]
      PROVE  delete_at(s, back_index(s)) \in X[n]
  <2>1. /\ n - 1 \in 0 .. N /\ n \in 0 .. N
        /\ (l.size - (n - 1)) - 1 = l.size - n /\ l.size - (n - 1) > 0
    BY <1>2, <1>3
  <2>2. /\ s \in GoodLists /\ s.size = l.size - (n - 1) /\ Kept(l, s)
        /\ Resized(l, l.size - (n - 1), v, s)
    BY <1>4, <2>1 DEF Resized
  <2>3. back_index(s) \in Live(s.storage)
    BY <2>1, <2>2, EndsAreElements
  <2> DEFINE m == delete_at(s, back_index(s))
  <2>4. m \in GoodLists /\ m.size = s.size - 1 /\ Kept(l, m)
    BY <2>2, <2>3, DeleteKeepsGood, DeleteKeeps
  <2>5. \A j \in 1 .. s.size - 1 : Items(m)[j] = Items(s)[j]
    BY <2>1, <2>2, PopBackItems
  <2> HIDE DEF m
  <2>6. m.size = l.size - n
    BY <2>1, <2>2, <2>4
  <2>7. Resized(l, l.size - n, v, m)
    <3>1. /\ s.size - 1 = l.size - n
          /\ \A j \in 1 .. l.size - n : j \in 1 .. l.size - (n - 1) /\ j <= l.size
      BY <1>2, <1>3, <2>1, <2>2
    <3> QED  BY <2>2, <2>5, <2>6, <3>1 DEF Resized
  <2>8. m \in X[n]
    BY <2>1, <2>4, <2>7
  <2> QED  BY <2>8 DEF m
<1>5. l \in X[0]
  <2>1. Resized(l, l.size - 0, v, l)
    BY <1>2 DEF Resized
  <2> QED  BY <1>2, <1>3, <2>1, KeptItself
<1>6. shrink = Body(shrink)
  <2>1. \A n \in 1 .. N : \A s \in X[n - 1] :
          F[n][s] = delete_at(s, back_index(s)) /\ F[n][s] \in X[n]
    BY <1>4
  <2> HIDE DEF X, F
  <2>2. PICK f : LoopStates(f, l, X, F, N)
    BY <1>3, <1>5, <2>1, RecursionExists
  <2>3. \A n \in 1 .. N : n # 0 /\ n - 1 \in 0 .. N
    BY <1>3
  <2>4. f = [n \in 0 .. N |-> f[n]]
    BY <2>2 DEF LoopStates
  <2>5. \A n \in 0 .. N : n = 0 \/ n \in 1 .. N
    BY <1>3
  <2>6. f[0] = l /\ \A n \in 1 .. N : f[n - 1] \in X[n - 1] /\ f[n] = F[n][f[n - 1]]
    BY <2>2, <2>3 DEF LoopStates
  <2>7. \A n \in 0 .. N : f[n] = Body(f)[n]
    BY <2>1, <2>3, <2>5, <2>6
  <2>8. Body(f) = [n \in 0 .. N |-> Body(f)[n]]
    OBVIOUS
  <2> HIDE DEF Body
  <2>9. f = Body(f)
    BY <2>4, <2>7, <2>8
  <2> QED  BY <2>9
<1>7. \A n \in 0 .. N : shrink[n] \in X[n]
  <2> DEFINE S == {n \in 0 .. N : shrink[n] \in X[n]}
  <2> HIDE DEF shrink, X
  <2>1. 0 \in S
    BY <1>3, <1>5, <1>6
  <2>2. ASSUME NEW n \in 1 .. N, n - 1 \in S PROVE n \in S
    <3>1. n \in 0 .. N /\ n # 0
      BY <1>3
    <3>2. shrink[n] = delete_at(shrink[n - 1], back_index(shrink[n - 1]))
      BY <1>6, <3>1
    <3> QED  BY <1>4, <2>2, <3>1, <3>2
  <2> HIDE DEF S
  <2>3. \A n \in 0 .. N : n \in S
    BY <1>3, <2>1, <2>2, LoopInduction
  <2> QED  BY <2>3 DEF S
<1>8. N \in 0 .. N
  BY <1>3
<1> HIDE DEF shrink
<1>9. shrink[N] \in GoodLists /\ Resized(l, count, v, shrink[N]) /\ Kept(l, shrink[N])
  BY <1>3, <1>7, <1>8
<1>10. Edited(l, shrink[N])
  BY <1>9, KeptIsEdited
<1> QED  BY <1>1, <1>9, <1>10

(* resize(count, value) leaves a well-formed list of count elements. *)
LEMMA ResizeKeepsGood ==
  ASSUME NEW l \in GoodLists, NEW count \in Nat, count <= MAXIMUM_SIZE, NEW v \in Values
  PROVE  LET m == resize(l, count, v) IN
         m \in GoodLists /\ m.size = count /\ Resized(l, count, v, m) /\ Edited(l, m)
<1>1. CASE l.size < count
  BY <1>1, GrowKeepsGood DEF Resized
<1>2. CASE ~(l.size < count)
  BY <1>2, ShrinkKeepsGood DEF Resized
<1> QED  BY <1>1, <1>2

(* The loop of erase(first, last) keeps the list well formed and the       *)
(* elements that it does not delete; one that clears the list deletes all. *)
LEMMA EraseKeepsGood ==
  ASSUME NEW l \in GoodLists, NEW first \in Links, NEW last \in Links,
         NEW clears \in BOOLEAN, LoopPlace(l, first, last, clears)
  PROVE  /\ erase(l, first, last) \in GoodLists /\ Edited(l, erase(l, first, last))
         /\ clears => erase(l, first, last).size = 0
<1> DEFINE N == l.size
           Step(s) == IF s.i = last THEN s
                      ELSE [list |-> delete_at(s.list, s.i),
                            i |-> delete_at(s.list, s.i).next[s.i]]
           Start == [list |-> l, i |-> first]
           Body(f) == [n \in 0 .. N |-> IF n = 0 THEN Start ELSE Step(f[n - 1])]
           pass == CHOOSE f : f = Body(f)
           X == [n \in 0 .. N |->
                   {s \in [list : GoodLists, i : Links] :
                      LoopPlace(s.list, s.i, last, clears) /\ Kept(l, s.list)
                      /\ (clears => s.list.size = l.size - n)}]
           F == [n \in 1 .. N |-> [s \in X[n - 1] |-> Step(s)]]
<1>1. erase(l, first, last) = pass[N].list
  BY DEF erase
<1>2. N \in Nat
  BY ListFields DEF GoodLists
<1>3. ASSUME NEW n \in 1 .. N, NEW s \in X[n - 1]
      PROVE  Step(s) \in X[n]
  <2>1. /\ n - 1 \in 0 .. N /\ n \in 0 .. N
        /\ (l.size - (n - 1)) - 1 = l.size - n /\ l.size - (n - 1) # 0
    BY <1>2
  <2>2. /\ s \in [list : GoodLists, i : Links] /\ LoopPlace(s.list, s.i, last, clears)
        /\ Kept(l, s.list)
        /\ clears => s.list.size = l.size - (n - 1)
    BY <1>3, <2>1
  <2>3. clears => s.i # last
    <3>1. ASSUME clears = TRUE PROVE s.i # last
      BY <2>1, <2>2, <3>1, ClearingLoopGoesOn
    <3> QED  BY <3>1
  <2>4. CASE s.i = last
    BY <2>1, <2>2, <2>3, <2>4
  <2>5. CASE s.i # last
    <3> DEFINE d == delete_at(s.list, s.i)
    <3>1. /\ d \in GoodLists /\ d.size = s.list.size - 1
          /\ NextAfterDelete(s.list, s.i) \in Links
          /\ LoopPlace(d, NextAfterDelete(s.list, s.i), last, clears)
          /\ Kept(l, d)
      BY <2>2, <2>5, DeleteKeepsLoopPlace, DeleteKeeps
    <3>2. d.next[s.i] = NextAfterDelete(s.list, s.i)
      BY DEF NextAfterDelete
    <3>3. Step(s) = [list |-> d, i |-> d.next[s.i]]
      BY <2>5
    <3> HIDE DEF d, Step
    <3>4. Step(s) \in [list : GoodLists, i : Links] /\ Step(s).list = d /\ Step(s).i = d.next[s.i]
      BY <3>1, <3>2, <3>3
    <3>5. clears => d.size = l.size - n
      BY <2>1, <2>2, <3>1
    <3> QED  BY <2>1, <3>1, <3>2, <3>4, <3>5
  <2> QED  BY <2>4, <2>5
<1>4. Start \in X[0]
  BY <1>2, KeptItself
<1> HIDE DEF Step, Start
<1>5. pass = Body(pass)
  <2>1. \A n \in 1 .. N : \A s \in X[n - 1] : F[n][s] = Step(s) /\ F[n][s] \in X[n]
    BY <1>3
  <2> HIDE DEF X, F
  <2>2. PICK f : LoopStates(f, Start, X, F, N)
    BY <1>2, <1>4, <2>1, RecursionExists
  <2>3. \A n \in 1 .. N : n # 0 /\ n - 1 \in 0 .. N
    BY <1>2
  <2>4. f = [n \in 0 .. N |-> f[n]]
    BY <2>2 DEF LoopStates
  <2>5. \A n \in 0 .. N : n = 0 \/ n \in 1 .. N
    BY <1>2
  <2>6. f[0] = Start /\ \A n \in 1 .. N : f[n - 1] \in X[n - 1] /\ f[n] = F[n][f[n - 1]]
    BY <2>2, <2>3 DEF LoopStates
  <2>7. \A n \in 0 .. N : f[n] = Body(f)[n]
    BY <2>1, <2>3, <2>5, <2>6
  <2>8. Body(f) = [n \in 0 .. N |-> Body(f)[n]]
    OBVIOUS
  <2> HIDE DEF Body
  <2>9. f = Body(f)
    BY <2>4, <2>7, <2>8
  <2> QED  BY <2>9
<1>6. \A n \in 0 .. N : pass[n] \in X[n]
  <2> DEFINE S == {n \in 0 .. N : pass[n] \in X[n]}
  <2> HIDE DEF pass, X
  <2>1. 0 \in S
    BY <1>2, <1>4, <1>5
  <2>2. ASSUME NEW n \in 1 .. N, n - 1 \in S PROVE n \in S
    <3>1. n \in 0 .. N /\ n # 0
      BY <1>2
    <3>2. pass[n] = Step(pass[n - 1])
      BY <1>5, <3>1
    <3> QED  BY <1>3, <2>2, <3>1, <3>2
  <2> HIDE DEF S
  <2>3. \A n \in 0 .. N : n \in S
    BY <1>2, <2>1, <2>2, LoopInduction
  <2> QED  BY <2>3 DEF S
<1>7. N \in 0 .. N /\ l.size - N = 0
  BY <1>2
<1> HIDE DEF pass
<1>8. /\ pass[N].list \in GoodLists /\ Kept(l, pass[N].list)
      /\ clears => pass[N].list.size = 0
  BY <1>6, <1>7
<1> QED  BY <1>1, <1>8, KeptIsEdited

(* clear() leaves a well-formed list with no element. *)
LEMMA ListClearIsEmpty ==
  ASSUME NEW l \in GoodLists
  PROVE  list_clear(l) \in GoodLists /\ list_clear(l).size = 0 /\ Edited(l, list_clear(l))
<1>1. LoopPlace(l, front_index(l), NULL_INDEX, TRUE) /\ front_index(l) \in Links
  BY ClearingLoopPlace
<1>2. NULL_INDEX \in Links
  BY MaximumSizeIsNat DEF Links, NULL_INDEX
<1> QED  BY <1>1, <1>2, EraseKeepsGood DEF list_clear

(* The range from an element to the next position is one as well. *)
LEMMA ElementHasLoopPlace ==
  ASSUME NEW l \in GoodLists, NEW pos \in Positions(l), pos # NULL_INDEX
  PROVE  LoopPlace(l, pos, l.next[pos], FALSE)
<1>1. l \in ListObjects /\ l.size \in Nat
  BY ListFields DEF GoodLists
<1>2. PICK e : Order(l, e)
  BY <1>1, ChainHasOrder DEF GoodLists
<1>3. PICK i \in 1 .. l.size : e[i] = pos
  BY <1>2 DEF Positions, Order
<1>4. i \in 0 .. l.size /\ i \in 1 .. l.size + 1 /\ i + 1 \in 1 .. l.size + 1 /\ i <= i + 1
  BY <1>1
<1>5. l.next[pos] = e[i + 1]
  BY <1>2, <1>3, <1>4 DEF Order
<1> QED  BY <1>2, <1>3, <1>4, <1>5 DEF LoopPlace

(* remove_if keeps the list well formed and the elements that it does not  *)
(* delete, and returns the number of those that it removed.                *)
LEMMA RemoveIfKeepsGood ==
  ASSUME NEW l \in GoodLists, NEW pred
  PROVE  /\ remove_if(l, pred).list \in GoodLists /\ Edited(l, remove_if(l, pred).list)
         /\ remove_if(l, pred).removed = l.size - remove_if(l, pred).list.size
<1> DEFINE N == l.size
           Step(s) == IF s.i = NULL_INDEX THEN s
                      ELSE IF s.list.storage.array[s.i] \in pred
                      THEN [list |-> delete_at(s.list, s.i),
                            i |-> NextAfterDelete(s.list, s.i), removed |-> s.removed + 1]
                      ELSE [s EXCEPT !.i = s.list.next[s.i]]
           Start == [list |-> l, i |-> front_index(l), removed |-> 0]
           Body(f) == [n \in 0 .. N |-> IF n = 0 THEN Start ELSE Step(f[n - 1])]
           pass == CHOOSE f : f = Body(f)
           States == {s \in [list : GoodLists, i : Links, removed : Nat] :
                        /\ LoopPlace(s.list, s.i, NULL_INDEX, FALSE) /\ Kept(l, s.list)
                        /\ s.removed = l.size - s.list.size}
           X == [n \in 0 .. N |-> States]
           F == [n \in 1 .. N |-> [s \in States |-> Step(s)]]
<1>1. remove_if(l, pred) = pass[N]
  BY DEF remove_if
<1>2. N \in Nat
  BY ListFields DEF GoodLists
<1>3. ASSUME NEW m \in GoodLists, NEW j \in Links, NEW r \in Nat,
             LoopPlace(m, j, NULL_INDEX, FALSE), r = l.size - m.size, Kept(l, m)
      PROVE  [list |-> m, i |-> j, removed |-> r] \in States
  <2> DEFINE s == [list |-> m, i |-> j, removed |-> r]
  <2>1. s.list = m /\ s.i = j /\ s.removed = r
    OBVIOUS
  <2>2. s \in [list : GoodLists, i : Links, removed : Nat]
    OBVIOUS
  <2> HIDE DEF s
  <2>3. s \in States
    BY <1>3, <2>1, <2>2
  <2> QED  BY <2>3 DEF s
<1>4. ASSUME NEW s \in States
      PROVE  Step(s) \in States
  <2>1. CASE s.i = NULL_INDEX
    BY <2>1
  <2>2. CASE s.i # NULL_INDEX /\ s.list.storage.array[s.i] \in pred
    <3> DEFINE d == delete_at(s.list, s.i)
               i == NextAfterDelete(s.list, s.i)
    <3>1. /\ s.list \in GoodLists /\ s.removed \in Nat /\ s.removed = l.size - s.list.size
          /\ Kept(l, s.list)
      OBVIOUS
    <3>2. d \in GoodLists /\ d.size = s.list.size - 1 /\ i \in Links
          /\ LoopPlace(d, i, NULL_INDEX, FALSE) /\ s.i \in Live(s.list.storage)
      BY <2>2, <3>1, DeleteKeepsLoopPlace
    <3>3. s.list.size \in Nat /\ Kept(l, d)
      BY <3>1, <3>2, ListFields, DeleteKeeps DEF GoodLists
    <3>4. Step(s) = [list |-> d, i |-> i, removed |-> s.removed + 1]
      BY <2>2
    <3> HIDE DEF d, i, Step, States
    <3>5. s.removed + 1 = l.size - d.size /\ s.removed + 1 \in Nat
      BY <1>2, <3>1, <3>2, <3>3
    <3> QED  BY <1>3, <3>2, <3>3, <3>4, <3>5
  <2>3. CASE s.i # NULL_INDEX /\ ~(s.list.storage.array[s.i] \in pred)
    <3> DEFINE i == s.list.next[s.i]
    <3>1. LoopPlace(s.list, i, NULL_INDEX, FALSE) /\ i \in Links
      BY <2>3, NextKeepsLoopPlace
    <3>2. Step(s) = [list |-> s.list, i |-> i, removed |-> s.removed]
      BY <2>3
    <3>3. /\ s.list \in GoodLists /\ s.removed \in Nat /\ s.removed = l.size - s.list.size
          /\ Kept(l, s.list)
      OBVIOUS
    <3> HIDE DEF i, Step, States
    <3> QED  BY <1>3, <3>1, <3>2, <3>3
  <2> QED  BY <2>1, <2>2, <2>3
<1>5. Start \in States
  <2>1. LoopPlace(l, front_index(l), NULL_INDEX, TRUE) /\ front_index(l) \in Links
    BY ClearingLoopPlace
  <2>2. LoopPlace(l, front_index(l), NULL_INDEX, FALSE)
    BY <2>1 DEF LoopPlace
  <2>3. 0 = l.size - l.size /\ 0 \in Nat
    BY <1>2
  <2> HIDE DEF States
  <2> QED  BY <1>3, <2>1, <2>2, <2>3, KeptItself
<1> HIDE DEF Step, Start, States
<1>6. pass = Body(pass)
  <2>1. \A n \in 1 .. N : n # 0 /\ n - 1 \in 0 .. N /\ n \in 0 .. N
    BY <1>2
  <2>2. \A n \in 1 .. N : \A s \in X[n - 1] : F[n][s] = Step(s) /\ F[n][s] \in X[n]
    BY <1>4, <2>1
  <2>3. Start \in X[0]
    BY <1>2, <1>5
  <2> HIDE DEF X, F
  <2>4. PICK f : LoopStates(f, Start, X, F, N)
    BY <1>2, <2>2, <2>3, RecursionExists
  <2>5. f = [n \in 0 .. N |-> f[n]]
    BY <2>4 DEF LoopStates
  <2>6. \A n \in 0 .. N : n = 0 \/ n \in 1 .. N
    BY <1>2
  <2>7. f[0] = Start /\ \A n \in 1 .. N : f[n - 1] \in X[n - 1] /\ f[n] = F[n][f[n - 1]]
    BY <2>1, <2>4 DEF LoopStates
  <2>8. \A n \in 0 .. N : f[n] = Body(f)[n]
    BY <2>1, <2>2, <2>6, <2>7
  <2>9. Body(f) = [n \in 0 .. N |-> Body(f)[n]]
    OBVIOUS
  <2> HIDE DEF Body
  <2>10. f = Body(f)
    BY <2>5, <2>8, <2>9
  <2> QED  BY <2>10
<1>7. \A n \in 0 .. N : pass[n] \in States
  <2> DEFINE S == {n \in 0 .. N : pass[n] \in States}
  <2> HIDE DEF pass
  <2>1. 0 \in S
    BY <1>2, <1>5, <1>6
  <2>2. ASSUME NEW n \in 1 .. N, n - 1 \in S PROVE n \in S
    <3>1. n \in 0 .. N /\ n # 0
      BY <1>2
    <3>2. pass[n] = Step(pass[n - 1])
      BY <1>6, <3>1
    <3> QED  BY <1>4, <2>2, <3>1, <3>2
  <2> HIDE DEF S
  <2>3. \A n \in 0 .. N : n \in S
    BY <1>2, <2>1, <2>2, LoopInduction
  <2> QED  BY <2>3 DEF S
<1>8. N \in 0 .. N
  BY <1>2
<1> HIDE DEF pass
<1>9. pass[N] \in States
  BY <1>7, <1>8
<1> QED  BY <1>1, <1>9, KeptIsEdited DEF States

-----------------------------------------------------------------------------
(* A call of FixedList leaves a well-formed list in place of the one it    *)
(* found, or of none, or ends the process.                                 *)
Before(o) == IF lists[o] # NoObject THEN lists[o] ELSE EmptyList

Replaces(o, m) ==
  /\ m \in GoodLists /\ Edited(Before(o), m)
  /\ lists' = [lists EXCEPT ![o] = m] /\ loop' = NoLoop /\ aborted' = aborted

Stops == lists' = lists /\ loop' = NoLoop /\ aborted' = TRUE

(* A checked call of FixedList stops at its check or replaces one list. *)
LEMMA CheckedEnds ==
  ASSUME NEW o \in Objects, NEW check \in BOOLEAN, NEW m,
         check => m \in GoodLists /\ Edited(Before(o), m), Checked(check, o, m)
  PROVE  Stops \/ \E x : Replaces(o, x)
BY DEF Checked, Idle, Stops, Replaces

(* Either way the lists stay well formed. *)
LEMMA StopsOrReplacesKeepsInv ==
  ASSUME ListInv, NEW o \in Objects, Stops \/ \E x : Replaces(o, x)
  PROVE  ListInv'
<1>1. CASE Stops
  BY <1>1 DEF Stops, ListInv, TypeOK, Alive
<1>2. ASSUME NEW m, Replaces(o, m) PROVE ListInv'
  BY <1>2, ReplaceKeepsInv DEF Replaces, ListInv, TypeOK
<1> QED  BY <1>1, <1>2

(* A range that clients pass has a length. *)
LEMMA RangesHaveLength ==
  ASSUME NEW items \in Ranges
  PROVE  Len(items) \in Nat /\ items \in [1 .. Len(items) -> Values]
<1>1. PICK n \in 0 .. MaxRange : items \in [1 .. n -> Values]
  BY DEF Ranges
<1>2. n \in Nat
  BY MaxRangeIsNat
<1>3. Len(items) = n
  BY <1>1, <1>2
<1> QED  BY <1>1, <1>2, <1>3

(* The calls of FixedList: each leaves a well-formed list with the         *)
(* elements that it kept and new ones, or ends the process at its check.   *)
LEMMA ListCallEdits ==
  ASSUME ListInv, NEW o \in Objects, ListCall(o)
  PROVE  Stops \/ \E x : Replaces(o, x)
<1> DEFINE l == lists[o]
           Goal == Stops \/ \E x : Replaces(o, x)
           Good(m) == m \in GoodLists /\ Edited(Before(o), m)
<1>1. Alive(o) => l \in GoodLists /\ l.size \in Nat /\ Before(o) = l
  BY ListFields DEF ListInv, GoodLists, Alive, Before
<1>2. EmptyList \in GoodLists /\ EmptyList.size = 0 /\ NULL_INDEX \in Positions(EmptyList)
      /\ (~Alive(o) => Before(o) = EmptyList)
  BY EmptyListIsGood DEF Positions, Alive, Before
<1>3. MAXIMUM_SIZE \in Nat
  BY MaximumSizeIsNat
<1>4. ASSUME NEW v \in Values, PushBack(o, v) PROVE Goal
  <2>1. Alive(o) /\ Checked(HasRoomFor(o, 1), o, push_back(l, v))
    BY <1>4 DEF PushBack
  <2>2. ASSUME HasRoomFor(o, 1) PROVE Good(push_back(l, v))
    <3>1. ~full(l.storage)
      BY <1>1, <1>3, <2>1, <2>2, FullMeansMaximumSize DEF HasRoomFor
    <3>2. back_index(l) \in Live(l.storage) \cup {NULL_INDEX}
      BY <1>1, <2>1, LinksStayInList DEF back_index
    <3> QED  BY <1>1, <2>1, <3>1, <3>2, EmplaceEdits DEF push_back
  <2>3. HasRoomFor(o, 1) \in BOOLEAN
    BY DEF HasRoomFor
  <2> QED  BY <2>1, <2>2, <2>3, CheckedEnds
<1>5. ASSUME NEW v \in Values, PushFront(o, v) PROVE Goal
  <2>1. Alive(o) /\ Checked(HasRoomFor(o, 1), o, push_front(l, v))
    BY <1>5 DEF PushFront
  <2>2. ASSUME HasRoomFor(o, 1) PROVE Good(push_front(l, v))
    <3>1. ~full(l.storage)
      BY <1>1, <1>3, <2>1, <2>2, FullMeansMaximumSize DEF HasRoomFor
    <3>2. front_index(l) \in Live(l.storage) \cup {NULL_INDEX}
      BY <1>1, <2>1, LinksStayInList DEF front_index
    <3>3. l.prev[front_index(l)] \in Live(l.storage) \cup {NULL_INDEX}
      BY <1>1, <2>1, <3>2, LinksStayInList
    <3> QED  BY <1>1, <2>1, <3>1, <3>3, EmplaceEdits DEF push_front
  <2>3. HasRoomFor(o, 1) \in BOOLEAN
    BY DEF HasRoomFor
  <2> QED  BY <2>1, <2>2, <2>3, CheckedEnds
<1>6. ASSUME NEW v \in Values, RemoveIf(o, {v}) PROVE Goal
  <2>1. Alive(o) /\ Checked(TRUE, o, remove_if(l, {v}).list)
    BY <1>6 DEF RemoveIf
  <2>2. Good(remove_if(l, {v}).list)
    BY <1>1, <2>1, RemoveIfKeepsGood
  <2> QED  BY <2>1, <2>2, CheckedEnds
<1>7. ASSUME NEW v \in Values, NEW n \in 0 .. MAXIMUM_SIZE + 1, Resize(o, n, v)
      PROVE  Goal
  <2>1. Alive(o) /\ Checked(n <= MAXIMUM_SIZE, o, resize(l, n, v))
    BY <1>7 DEF Resize
  <2>2. n \in Nat /\ (n <= MAXIMUM_SIZE) \in BOOLEAN
    BY <1>3
  <2>3. n <= MAXIMUM_SIZE => Good(resize(l, n, v))
    BY <1>1, <2>1, <2>2, ResizeKeepsGood
  <2> QED  BY <2>1, <2>2, <2>3, CheckedEnds
<1>8. ASSUME NEW v \in Values, NEW n \in 0 .. MAXIMUM_SIZE + 1, AssignCount(o, n, v)
      PROVE  Goal
  <2>1. Alive(o) /\ Checked(n <= MAXIMUM_SIZE, o, assign_count(l, n, v))
    BY <1>8 DEF AssignCount
  <2>2. n \in Nat /\ (n <= MAXIMUM_SIZE) \in BOOLEAN
    BY <1>3
  <2>3. list_clear(l) \in GoodLists /\ list_clear(l).size = 0
    BY <1>1, <2>1, ListClearIsEmpty
  <2>4. ASSUME n <= MAXIMUM_SIZE PROVE Good(assign_count(l, n, v))
    <3>1. assign_count(l, n, v) \in GoodLists /\ Edited(list_clear(l), assign_count(l, n, v))
      BY <2>2, <2>3, <2>4, ResizeKeepsGood DEF assign_count
    <3> QED  BY <1>1, <2>1, <2>3, <3>1, BuiltOnEmpty
  <2> QED  BY <2>1, <2>2, <2>4, CheckedEnds
<1>9. ASSUME NEW v \in Values, NEW n \in 0 .. MAXIMUM_SIZE + 1, ConstructCount(o, n, v)
      PROVE  Goal
  <2>1. ~Alive(o) /\ Checked(n <= MAXIMUM_SIZE, o, resize(EmptyList, n, v))
    BY <1>9 DEF ConstructCount
  <2>2. n \in Nat /\ (n <= MAXIMUM_SIZE) \in BOOLEAN
    BY <1>3
  <2>3. n <= MAXIMUM_SIZE => Good(resize(EmptyList, n, v))
    BY <1>2, <2>1, <2>2, ResizeKeepsGood
  <2> QED  BY <2>1, <2>2, <2>3, CheckedEnds
<1>10. ASSUME NEW items \in Ranges, Assign(o, items) PROVE Goal
  <2>1. Alive(o) /\ Checked(Len(items) <= MAXIMUM_SIZE, o, assign(l, items))
    BY <1>10 DEF Assign
  <2>2. Len(items) \in Nat /\ items \in [1 .. Len(items) -> Values]
    BY RangesHaveLength
  <2>3. list_clear(l) \in GoodLists /\ list_clear(l).size = 0
    BY <1>1, <2>1, ListClearIsEmpty
  <2>4. ASSUME Len(items) <= MAXIMUM_SIZE PROVE Good(assign(l, items))
    <3>1. list_clear(l).size + Len(items) <= MAXIMUM_SIZE
      BY <2>2, <2>3, <2>4
    <3>2. NULL_INDEX \in Positions(list_clear(l))
      BY DEF Positions
    <3>3. assign(l, items) \in GoodLists /\ Edited(list_clear(l), assign(l, items))
      BY <2>2, <2>3, <3>1, <3>2, InsertKeepsGood DEF assign
    <3> QED  BY <1>1, <2>1, <2>3, <3>3, BuiltOnEmpty
  <2>5. (Len(items) <= MAXIMUM_SIZE) \in BOOLEAN
    BY <1>3, <2>2
  <2> QED  BY <2>1, <2>4, <2>5, CheckedEnds
<1>11. ASSUME NEW items \in Ranges, ConstructRange(o, items) PROVE Goal
  <2>1. /\ ~Alive(o)
        /\ Checked(Len(items) <= MAXIMUM_SIZE, o, insert_internal(EmptyList, NULL_INDEX, items).list)
    BY <1>11 DEF ConstructRange
  <2>2. Len(items) \in Nat /\ items \in [1 .. Len(items) -> Values]
    BY RangesHaveLength
  <2>3. ASSUME Len(items) <= MAXIMUM_SIZE
        PROVE  Good(insert_internal(EmptyList, NULL_INDEX, items).list)
    <3>1. EmptyList.size + Len(items) <= MAXIMUM_SIZE
      BY <1>2, <2>2, <2>3
    <3> QED  BY <1>2, <2>1, <2>2, <3>1, InsertKeepsGood
  <2>4. (Len(items) <= MAXIMUM_SIZE) \in BOOLEAN
    BY <1>3, <2>2
  <2> QED  BY <2>1, <2>3, <2>4, CheckedEnds
<1>12. ASSUME NEW items \in Ranges, NEW pos \in Links, Insert(o, pos, items) PROVE Goal
  <2>1. /\ Alive(o) /\ pos \in Positions(l)
        /\ Checked(HasRoomFor(o, Len(items)), o, insert_internal(l, pos, items).list)
    BY <1>12 DEF Insert
  <2>2. Len(items) \in Nat /\ items \in [1 .. Len(items) -> Values]
    BY RangesHaveLength
  <2>3. HasRoomFor(o, Len(items)) => Good(insert_internal(l, pos, items).list)
    BY <1>1, <2>1, <2>2, InsertKeepsGood DEF HasRoomFor
  <2>4. HasRoomFor(o, Len(items)) \in BOOLEAN
    BY DEF HasRoomFor
  <2> QED  BY <2>1, <2>3, <2>4, CheckedEnds
<1>13. ASSUME NEW first \in Links, NEW last \in Links, EraseRange(o, first, last)
       PROVE  Goal
  <2>1. /\ Alive(o) /\ first \in Positions(l) /\ last \in WalkFrom(l, first)
        /\ Checked(TRUE, o, erase(l, first, last))
    BY <1>13 DEF EraseRange
  <2>2. LoopPlace(l, first, last, FALSE)
    BY <1>1, <2>1, RangeHasLoopPlace DEF Positions
  <2>3. Good(erase(l, first, last))
    BY <1>1, <2>1, <2>2, EraseKeepsGood
  <2> QED  BY <2>1, <2>3, CheckedEnds
<1>14. ASSUME NEW pos \in Links, ErasePosition(o, pos) PROVE Goal
  <2>1. /\ Alive(o) /\ pos \in Positions(l)
        /\ Checked(pos # NULL_INDEX, o, erase(l, pos, l.next[pos]))
    BY <1>14 DEF ErasePosition
  <2>2. ASSUME pos # NULL_INDEX PROVE Good(erase(l, pos, l.next[pos]))
    <3>1. LoopPlace(l, pos, l.next[pos], FALSE)
      BY <1>1, <2>1, <2>2, ElementHasLoopPlace
    <3>2. l.next[pos] \in Links
      BY <1>1, <2>1, ListFields DEF GoodLists
    <3> QED  BY <1>1, <2>1, <3>1, <3>2, EraseKeepsGood
  <2> QED  BY <2>1, <2>2, CheckedEnds
<1>15. CASE PopBack(o) \/ PopFront(o)
  <2>1. PICK i \in {front_index(l), back_index(l)} :
          Alive(o) /\ Checked(NotEmpty(o), o, delete_at(l, i))
    BY <1>15 DEF PopBack, PopFront
  <2>2. NotEmpty(o) => Good(delete_at(l, i))
    BY <1>1, <2>1, EndsAreElements, DeleteEdits DEF NotEmpty
  <2>3. NotEmpty(o) \in BOOLEAN
    BY DEF NotEmpty
  <2> QED  BY <2>1, <2>2, <2>3, CheckedEnds
<1>16. CASE Peek(o)
  <2>1. Alive(o) /\ Checked(NotEmpty(o), o, l)
    BY <1>16 DEF Peek
  <2>2. NotEmpty(o) \in BOOLEAN
    BY DEF NotEmpty
  <2>3. Good(l)
    BY <1>1, <2>1, KeptItself, KeptIsEdited
  <2> QED  BY <2>1, <2>2, <2>3, CheckedEnds
<1>17. CASE ClearList(o)
  <2>1. Alive(o) /\ Checked(TRUE, o, list_clear(l))
    BY <1>17 DEF ClearList
  <2>2. Good(list_clear(l))
    BY <1>1, <2>1, ListClearIsEmpty
  <2> QED  BY <2>1, <2>2, CheckedEnds
<1> QED  BY <1>4, <1>5, <1>6, <1>7, <1>8, <1>9, <1>10, <1>11, <1>12, <1>13,
            <1>14, <1>15, <1>16, <1>17 DEF ListCall

(* The inductive invariant holds in every reachable state of FixedList. *)
LEMMA ListInvHolds == ListSpec => []ListInv
<1>1. Init => ListInv
  BY DEF Init, ListInv, TypeOK, Alive
<1>2. ListInv /\ [ListNext]_vars => ListInv'
  BY ListInvInductive, ListCallEdits, StopsOrReplacesKeepsInv DEF ListNext
<1> QED  BY <1>1, <1>2, PTL DEF ListSpec

-----------------------------------------------------------------------------
(* Whatever the capacity, the value type and the history of calls, every   *)
(* chain links exactly the cells that hold a value, in both directions,    *)
(* size counts them, and the freelist holds the other cells: of the calls  *)
(* of FixedDoublyLinkedList and of FixedList.                              *)
THEOREM ListsStayWellFormed == ListSpec => []ListsWellFormed
<1>1. ListInv => ListsWellFormed
  BY DEF ListInv, ListsWellFormed, GoodLists
<1> QED  BY <1>1, ListInvHolds, PTL

(* The loop of delete_range_and_return_next_index never runs past its end  *)
(* and never loses the object that it copies from.                         *)
THEOREM LoopsStayInTheirLists == ListSpec => []LoopStaysInItsList
<1>1. ListInv => LoopStaysInItsList
  <2> SUFFICES ASSUME ListInv, loop # NoLoop
               PROVE  loop.to \in WalkFrom(lists[loop.list], loop.idx)
    BY DEF ListInv, LoopStaysInItsList
  <2> DEFINE l == lists[loop.list]
  <2>1. l \in GoodLists
    BY DEF ListInv, TypeOK, Loops
  <2>2. l \in ListObjects /\ l.size \in Nat
    BY <2>1, ListFields DEF GoodLists
  <2>3. PICK e : Order(l, e) /\ \E i, j \in 1 .. l.size + 1 :
          i <= j /\ loop.idx = e[i] /\ loop.to = e[j]
    BY DEF ListInv, LoopPlace
  <2>4. PICK i \in 1 .. l.size + 1, j \in 1 .. l.size + 1 :
          i <= j /\ loop.idx = e[i] /\ loop.to = e[j]
    BY <2>3
  <2> HIDE DEF l
  <2>5. WalkFrom(l, e[i]) = {e[k] : k \in i .. l.size + 1}
    BY <2>2, <2>3, WalkIsSuffix
  <2>6. j \in i .. l.size + 1
    BY <2>2, <2>4
  <2> QED  BY <2>4, <2>5, <2>6 DEF l
<1> QED  BY <1>1, ListInvHolds, PTL

(* "Warning: assumes the destination (`this`) is already clear of any      *)
(* values!": it always is, when the copy or the move of an assignment      *)
(* begins and when a destructor ends.                                      *)
THEOREM AssignmentsFindNothingToLeak == ListSpec => []NothingLeaks
<1>1. ListInv => NothingLeaks
  <2> SUFFICES ASSUME ListInv, loop # NoLoop, loop.idx = loop.to, loop.then # "return"
               PROVE  Live(lists[loop.list].storage) = {}
    BY DEF NothingLeaks
  <2>1. lists[loop.list] \in GoodLists
    BY DEF ListInv, TypeOK, Loops
  <2>2. LoopPlace(lists[loop.list], loop.idx, loop.to, TRUE)
    BY DEF ListInv, LoopPlace
  <2> QED  BY <2>1, <2>2, ClearingLoopGoesOn
<1> QED  BY <1>1, ListInvHolds, PTL

-----------------------------------------------------------------------------
(* What IndexedSequences sees of the lists. *)
Seqs == [o \in Objects |-> IF lists[o] = NoObject THEN NoObject ELSE Items(lists[o])]

(* The sequence of a list is not NoObject. *)
LEMMA ItemsAreSomething ==
  ASSUME NEW l \in GoodLists
  PROVE  Items(l) # NoObject
BY ItemsOfList, NoObjectIsNoSequence

(* An edited list is a spliced sequence. *)
LEMMA EditRefines ==
  ASSUME ListInv, NEW o \in Objects, lists[o] # NoObject, NEW m, m \in GoodLists,
         Edited(lists[o], m), lists' = [lists EXCEPT ![o] = m],
         TriviallyCopyable' = TriviallyCopyable
  PROVE  Abstract!Next
<1> DEFINE l == lists[o]
           new == Items(m)
<1>1. l \in GoodLists /\ lists \in [Objects -> ListObjects \cup {NoObject}]
  BY DEF ListInv, TypeOK, Alive
<1>2. /\ new \in [1 .. m.size -> Slots \X Contents] /\ Len(new) = m.size /\ m.size \in Nat
      /\ \A i, j \in 1 .. m.size : new[i][1] = new[j][1] => i = j
      /\ new # NoObject
  BY ItemsOfList, ItemsAreSomething
<1>3. Len(Items(l)) = l.size /\ l.size \in Nat /\ Items(l) # NoObject
  BY <1>1, ItemsOfList, ItemsAreSomething
<1>4. PICK p \in Nat, k \in Nat : \E f : EditedBy(l, m, p, f, k)
  BY DEF Edited
<1>5. PICK f : EditedBy(l, m, p, f, k)
  BY <1>4
<1>6. m # NoObject
  BY GoodListsAreObjects
<1>7. /\ Seqs[o] = Items(l) /\ Seqs'[o] = new /\ Seqs' = [Seqs EXCEPT ![o] = new]
  <2>1. lists'[o] = m /\ \A q \in Objects \ {o} : lists'[q] = lists[q]
    BY <1>1
  <2>2. \A q \in Objects : Seqs'[q] = IF q = o THEN new ELSE Seqs[q]
    BY <1>6, <2>1 DEF Seqs
  <2>3. Seqs = [q \in Objects |-> Seqs[q]] /\ Seqs' = [q \in Objects |-> Seqs'[q]]
    BY DEF Seqs
  <2>4. Seqs[o] = Items(l)
    BY DEF Seqs
  <2> HIDE DEF Seqs, new, l
  <2> QED  BY <2>2, <2>3, <2>4
<1>8. p \in 0 .. l.size /\ k \in 0 .. l.size /\ k <= p /\ p <= m.size
  <2>1. p <= l.size
    <3>1. /\ f \in [1 .. p -> 1 .. l.size]
          /\ \A i, j \in 1 .. p : i < j => f[i] < f[j]
      BY <1>5 DEF EditedBy
    <3> DEFINE S == {j \in 0 .. p : j # 0 => j <= f[j]}
    <3>2. 0 \in S
      OBVIOUS
    <3>3. ASSUME NEW j \in 1 .. p, j - 1 \in S PROVE j \in S
      <4>1. CASE j = 1
        BY <3>1, <4>1
      <4>2. CASE j # 1
        <5>1. j - 1 \in 1 .. p /\ j - 1 # 0 /\ j - 1 < j
          BY <4>2
        <5>2. j - 1 <= f[j - 1] /\ f[j - 1] < f[j] /\ f[j - 1] \in Nat /\ f[j] \in Nat
          BY <1>3, <3>1, <3>3, <5>1
        <5> QED  BY <5>2
      <4> QED  BY <4>1, <4>2
    <3> HIDE DEF S
    <3>4. \A j \in 0 .. p : j \in S
      BY <3>2, <3>3, LoopInduction
    <3>5. p # 0 => p <= f[p] /\ f[p] \in 1 .. l.size
      BY <3>1, <3>4 DEF S
    <3> QED  BY <1>3, <3>5
  <2> QED  BY <1>3, <1>5, <2>1 DEF EditedBy
<1>9. f \in Abstract!Choices(p, l.size)
  BY <1>5 DEF EditedBy, Abstract!Choices
<1>10. \A j \in k + 1 .. k + (m.size - p) : new[j][1] \in Slots /\ new[j][2] \in Values
  <2>1. \A j \in k + 1 .. k + (m.size - p) : j \in 1 .. m.size
    BY <1>2, <1>8
  <2> QED  BY <1>2, <1>5, <2>1 DEF EditedBy
<1>11. Abstract!IndicesAreDistinct(new)
  BY <1>2 DEF Abstract!IndicesAreDistinct
<1>12. \A j \in 1 .. p : new[IF j <= k THEN j ELSE j + (m.size - p)] = Items(l)[f[j]]
  BY <1>5 DEF EditedBy
<1> HIDE DEF new, l
<1>13. Abstract!Splice(o, new, p, f, k)
  BY <1>2, <1>7, <1>10, <1>11, <1>12 DEF Abstract!Splice, Seqs
<1> QED  BY <1>2, <1>3, <1>7, <1>8, <1>9, <1>13 DEF Abstract!Next, Seqs

(* The sequences after one list has been replaced. *)
LEMMA SeqsReplaced ==
  ASSUME NEW o \in Objects, NEW m, lists \in [Objects -> ListObjects \cup {NoObject}],
         lists' = [lists EXCEPT ![o] = m]
  PROVE  Seqs' = [Seqs EXCEPT ![o] = IF m = NoObject THEN NoObject ELSE Items(m)]
<1>1. lists'[o] = m /\ \A q \in Objects \ {o} : lists'[q] = lists[q]
  OBVIOUS
<1> DEFINE new == IF m = NoObject THEN NoObject ELSE Items(m)
<1>2. \A q \in Objects : Seqs'[q] = IF q = o THEN new ELSE Seqs[q]
  BY <1>1 DEF Seqs
<1>3. Seqs = [q \in Objects |-> Seqs[q]] /\ Seqs' = [q \in Objects |-> Seqs'[q]]
  BY DEF Seqs
<1> HIDE DEF Seqs, new
<1>4. Seqs' = [Seqs EXCEPT ![o] = new]
  BY <1>2, <1>3
<1> QED  BY <1>4 DEF new

(* A new object is a new sequence. *)
LEMMA CreateRefines ==
  ASSUME ListInv, NEW o \in Objects, lists[o] = NoObject, NEW m, m \in GoodLists,
         \A j \in 1 .. m.size : Items(m)[j][2] \in Values,
         lists' = [lists EXCEPT ![o] = m], TriviallyCopyable' = TriviallyCopyable
  PROVE  Abstract!Next
<1> DEFINE new == Items(m)
<1>1. lists \in [Objects -> ListObjects \cup {NoObject}] /\ m # NoObject
  BY GoodListsAreObjects DEF ListInv, TypeOK
<1>2. /\ new \in [1 .. m.size -> Slots \X Contents] /\ Len(new) = m.size
      /\ \A i, j \in 1 .. m.size : new[i][1] = new[j][1] => i = j
      /\ new # NoObject
  BY ItemsOfList, ItemsAreSomething
<1>3. Seqs' = [Seqs EXCEPT ![o] = new]
  BY <1>1, SeqsReplaced
<1>4. Seqs[o] = NoObject /\ Seqs'[o] = new
  BY <1>1, <1>3 DEF Seqs
<1>5. \A j \in 1 .. m.size : new[j][1] \in Slots
  BY <1>2
<1> HIDE DEF new
<1>6. /\ \A j \in 1 .. Len(new) : new[j][1] \in Slots /\ new[j][2] \in Values
      /\ Abstract!IndicesAreDistinct(new)
  BY <1>2, <1>5 DEF Abstract!IndicesAreDistinct, new
<1> QED  BY <1>2, <1>3, <1>4, <1>6 DEF Abstract!Next, Abstract!CreateWith, Seqs

(* The object has nothing that a copy would overwrite or an end would      *)
(* lose.                                                                   *)
LosesNothing(o) == lists[o] = NoObject \/ TriviallyCopyable \/ lists[o].size = 0

(* An object that may be overwritten is one that holds nothing. *)
LEMMA NothingIsLost ==
  ASSUME ListInv, NEW o \in Objects, LosesNothing(o)
  PROVE  Abstract!HoldsNothing(o)
<1>1. CASE lists[o] = NoObject
  BY <1>1 DEF Abstract!HoldsNothing
<1>2. CASE TriviallyCopyable
  BY <1>2 DEF Abstract!HoldsNothing
<1>3. CASE lists[o] # NoObject /\ lists[o].size = 0
  <2>1. lists[o] \in GoodLists
    BY <1>3 DEF ListInv, Alive
  <2>2. Items(lists[o]) \in [1 .. 0 -> Slots \X Contents]
    BY <1>3, <2>1, ItemsOfList
  <2>3. Items(lists[o]) = << >>
    BY <2>2
  <2> QED  BY <1>3, <2>3 DEF Abstract!HoldsNothing
<1> QED  BY <1>1, <1>2, <1>3 DEF LosesNothing

(* Copying a list copies its sequence. *)
LEMMA CopyRefines ==
  ASSUME ListInv, NEW o \in Objects, NEW other \in Objects, LosesNothing(o),
         lists[other] # NoObject, lists' = [lists EXCEPT ![o] = lists[other]],
         TriviallyCopyable' = TriviallyCopyable
  PROVE  Abstract!Next
<1>1. lists \in [Objects -> ListObjects \cup {NoObject}] /\ lists[other] \in GoodLists
  BY DEF ListInv, TypeOK, Alive
<1>2. Seqs' = [Seqs EXCEPT ![o] = Items(lists[other])]
  BY <1>1, SeqsReplaced
<1>3. Seqs[other] = Items(lists[other]) /\ Seqs[other] # NoObject
  BY <1>1, ItemsAreSomething DEF Seqs
<1>4. Abstract!Copy(o, other)
  BY <1>2, <1>3, NothingIsLost DEF Abstract!Copy, Seqs
<1> QED  BY <1>4 DEF Abstract!Next

(* The end of a list is the end of its sequence. *)
LEMMA EndRefines ==
  ASSUME ListInv, NEW o \in Objects, LosesNothing(o), lists[o] # NoObject,
         lists' = [lists EXCEPT ![o] = NoObject], TriviallyCopyable' = TriviallyCopyable
  PROVE  Abstract!Next
<1>1. lists \in [Objects -> ListObjects \cup {NoObject}] /\ lists[o] \in GoodLists
  BY DEF ListInv, TypeOK, Alive
<1>2. Seqs' = [Seqs EXCEPT ![o] = NoObject]
  BY <1>1, SeqsReplaced
<1>3. Seqs[o] # NoObject
  BY <1>1, ItemsAreSomething DEF Seqs
<1>4. Abstract!End(o)
  BY <1>2, <1>3, NothingIsLost DEF Abstract!End, Seqs
<1> QED  BY <1>4 DEF Abstract!Next

(* The elements of a list after its values have been moved away. *)
LEMMA ItemsMovedOut ==
  ASSUME NEW l \in GoodLists
  PROVE  /\ MovedOut(l) \in GoodLists
         /\ Items(MovedOut(l)) = [k \in 1 .. Len(Items(l)) |-> <<Items(l)[k][1], MovedFrom>>]
<1> DEFINE m == MovedOut(l)
<1>1. PICK e : Order(l, e)
  BY ChainHasOrder DEF GoodLists
<1>2. m \in GoodLists /\ m.size = l.size /\ Order(m, e)
  BY <1>1, MovedOutKeepsOrder
<1>3. l \in ListObjects /\ l.storage \in Pools /\ WellFormedChain(l)
  BY ListFields DEF GoodLists
<1>4. \A i \in Live(l.storage) : m.storage.array[i] = MovedFrom
  BY <1>3, ChainedIsLive DEF MovedOut, Live, ListObjects, Pools
<1>5. m \in ListObjects
  BY <1>2 DEF GoodLists
<1> HIDE DEF m
<1>6. Items(m) = [k \in 1 .. l.size |-> <<e[k], m.storage.array[e[k]]>>]
  BY <1>2, <1>5, ItemsInOrder
<1>7. \A k \in 1 .. l.size : Items(l)[k] = <<e[k], l.storage.array[e[k]]>> /\ e[k] \in Live(l.storage)
  BY <1>1, <1>3, ItemAt
<1>8. Len(Items(l)) = l.size
  BY ItemsOfList
<1>9. \A k \in 1 .. l.size : <<e[k], m.storage.array[e[k]]>> = <<Items(l)[k][1], MovedFrom>>
  BY <1>4, <1>7
<1> QED  BY <1>2, <1>6, <1>8, <1>9 DEF m

(* Moving a list moves its sequence and leaves moved-from values behind. *)
LEMMA MoveRefines ==
  ASSUME ListInv, NEW o \in Objects, NEW other \in Objects, o # other, LosesNothing(o),
         lists[other] # NoObject, ~TriviallyCopyable,
         lists' = [lists EXCEPT ![o] = lists[other],
                                ![other] = MovedOut(@)],
         TriviallyCopyable' = TriviallyCopyable
  PROVE  Abstract!Next
<1> DEFINE l == lists[other]
           gone == [k \in 1 .. Len(Seqs[other]) |-> <<Seqs[other][k][1], MovedFrom>>]
<1>1. lists \in [Objects -> ListObjects \cup {NoObject}] /\ l \in GoodLists
  BY DEF ListInv, TypeOK, Alive
<1>3. lists'[o] = l /\ lists'[other] = MovedOut(l)
      /\ \A q \in Objects \ {o, other} : lists'[q] = lists[q]
  <2>1. lists' = [[lists EXCEPT ![o] = l] EXCEPT ![other] = MovedOut(l)]
    BY <1>1
  <2> QED  BY <1>1, <2>1
<1>4. MovedOut(l) # NoObject /\ l # NoObject /\ Items(l) # NoObject
  BY <1>1, ItemsMovedOut, GoodListsAreObjects, ItemsAreSomething
<1>5. Seqs[other] = Items(l)
  BY DEF Seqs
<1>6. gone = Items(MovedOut(l))
  BY <1>1, <1>5, ItemsMovedOut
<1> HIDE DEF gone, l
<1>7. \A q \in Objects : Seqs'[q] = IF q = other THEN gone ELSE IF q = o THEN Seqs[other] ELSE Seqs[q]
  <2>1. Seqs'[other] = gone
    BY <1>3, <1>4, <1>6 DEF Seqs
  <2>2. Seqs'[o] = Seqs[other]
    BY <1>3, <1>4, <1>5 DEF Seqs
  <2>3. ASSUME NEW q \in Objects, q \notin {o, other} PROVE Seqs'[q] = Seqs[q]
    <3>1. lists'[q] = lists[q]
      BY <1>3, <2>3
    <3> QED  BY <3>1 DEF Seqs
  <2> QED  BY <2>1, <2>2, <2>3
<1>8. Seqs = [q \in Objects |-> Seqs[q]] /\ Seqs' = [q \in Objects |-> Seqs'[q]]
  BY DEF Seqs
<1>9. Seqs' = [Seqs EXCEPT ![o] = Seqs[other], ![other] = gone]
  <2> HIDE DEF Seqs
  <2> QED  BY <1>7, <1>8
<1>10. Abstract!Move(o, other)
  <2>1. [Seqs EXCEPT ![o] = Seqs[other]][other] = Seqs[other]
    BY <1>8
  <2>2. Seqs' = [Seqs EXCEPT ![o] = Seqs[other],
                   ![other] = [k \in 1 .. Len(@) |-> <<@[k][1], MovedFrom>>]]
    <3> HIDE DEF Seqs
    <3> QED  BY <1>8, <1>9, <2>1 DEF gone
  <2> QED  BY <1>4, <1>5, <2>2, NothingIsLost DEF Abstract!Move, Seqs
<1> QED  BY <1>10 DEF Abstract!Next

(* Every step that leaves the lists alone leaves the sequences alone. *)
LEMMA StutterRefines ==
  ASSUME lists' = lists, TriviallyCopyable' = TriviallyCopyable
  PROVE  [Abstract!Next]_<<Seqs, TriviallyCopyable>>
BY DEF Seqs

Refines == [Abstract!Next]_<<Seqs, TriviallyCopyable>>

(* The emplace calls of FixedDoublyLinkedList: each adds one element. *)
LEMMA InsertionRefines ==
  ASSUME ListInv, NEW o \in Objects, Insertion(o), TriviallyCopyable' = TriviallyCopyable
  PROVE  Refines
<1>1. PICK v \in Values :
        \/ \E idx \in Links : emplace_after_index_and_return_index(o, idx, v)
        \/ \E idx \in Links : emplace_before_index_and_return_index(o, idx, v)
        \/ emplace_back_and_return_index(o, v)
        \/ emplace_front_and_return_index(o, v)
  BY DEF Insertion
<1>2. lists[o] # NoObject /\ lists[o] \in GoodLists
  BY <1>1 DEF ListInv, Alive, emplace_after_index_and_return_index,
       emplace_before_index_and_return_index, emplace_back_and_return_index,
       emplace_front_and_return_index
<1>3. /\ NULL_INDEX \in Positions(lists[o])
      /\ \A i \in Positions(lists[o]) :
           lists[o].prev[i] \in Positions(lists[o]) /\ lists[o].next[i] \in Positions(lists[o])
  BY <1>2, LinksStayInList DEF Positions
<1>4. PICK idx \in Positions(lists[o]) : EmplaceAfter(o, idx, v)
  BY <1>1, <1>3 DEF emplace_after_index_and_return_index,
       emplace_before_index_and_return_index, emplace_back_and_return_index,
       emplace_front_and_return_index, back_index, front_index
<1>5. CASE ~full(lists[o].storage)
  <2> DEFINE m == emplace_after_index(lists[o], idx, v)
  <2>1. m \in GoodLists /\ Edited(lists[o], m)
    BY <1>2, <1>5, EmplaceEdits DEF Positions
  <2>2. lists' = [lists EXCEPT ![o] = m]
    BY <1>4, <1>5 DEF EmplaceAfter
  <2> HIDE DEF m
  <2> QED  BY <1>2, <2>1, <2>2, EditRefines DEF Refines
<1>6. CASE full(lists[o].storage)
  <2>1. lists' = lists
    BY <1>4, <1>6 DEF EmplaceAfter
  <2> QED  BY <2>1, StutterRefines DEF Refines
<1> QED  BY <1>5, <1>6

(* The deleting calls: one deletion, or the start of a loop of them. *)
LEMMA RemovalRefines ==
  ASSUME ListInv, NEW o \in Objects, Removal(o), TriviallyCopyable' = TriviallyCopyable
  PROVE  Refines
<1>1. ASSUME NEW idx \in Slots, delete_at_and_return_next_index(o, idx) PROVE Refines
  <2>1. /\ lists[o] # NoObject /\ lists[o] \in GoodLists /\ idx \in Live(lists[o].storage)
        /\ lists' = [lists EXCEPT ![o] = delete_at(lists[o], idx)]
    BY <1>1 DEF ListInv, Alive, delete_at_and_return_next_index
  <2>2. delete_at(lists[o], idx) \in GoodLists /\ Edited(lists[o], delete_at(lists[o], idx))
    BY <2>1, DeleteEdits
  <2> QED  BY <2>1, <2>2, EditRefines DEF Refines
<1>2. ASSUME NEW from \in Links, NEW to \in Links, delete_range_and_return_next_index(o, from, to)
      PROVE  Refines
  <2>1. lists' = lists
    BY <1>2 DEF delete_range_and_return_next_index
  <2> QED  BY <2>1, StutterRefines DEF Refines
<1>3. CASE clear(o)
  <2>1. lists' = lists
    BY <1>3 DEF clear
  <2> QED  BY <2>1, StutterRefines DEF Refines
<1> QED  BY <1>1, <1>2, <1>3 DEF Removal

(* Only the move assignment that is not trivial moves after a loop. *)
MovesOneByOne == loop # NoLoop /\ loop.then = "move" => ~TriviallyCopyable

(* The steps of the loops: each deletion is one of the abstract sequence,  *)
(* and what follows the last one finds it empty.                           *)
LEMMA LoopRefines ==
  ASSUME ListInv, MovesOneByOne, Loop, TriviallyCopyable' = TriviallyCopyable
  PROVE  Refines
<1> DEFINE o == loop.list
           l == lists[loop.list]
<1>1. /\ loop # NoLoop /\ o \in Objects /\ l # NoObject /\ l \in GoodLists
      /\ loop.other \in Objects
      /\ LoopPlace(l, loop.idx, loop.to, loop.then # "return")
  BY DEF Loop, LoopBody, LoopEnd, ListInv, TypeOK, Loops, Alive
<1>2. CASE LoopBody
  <2>1. lists' = [lists EXCEPT ![o] = delete_at(l, loop.idx)] /\ loop.idx # loop.to
    BY <1>2 DEF LoopBody
  <2>2. loop.idx \in Live(l.storage)
    BY <1>1, <2>1, DeleteKeepsLoopPlace
  <2>3. delete_at(l, loop.idx) \in GoodLists /\ Edited(l, delete_at(l, loop.idx))
    BY <1>1, <2>2, DeleteEdits
  <2> QED  BY <1>1, <2>1, <2>3, EditRefines DEF Refines
<1>3. CASE LoopEnd
  <2>1. loop.idx = loop.to
    BY <1>3 DEF LoopEnd
  <2>2. loop.then # "return" => LosesNothing(o)
    <3>1. ASSUME loop.then # "return" PROVE l.size = 0
      <4>1. LoopPlace(l, loop.idx, loop.to, TRUE)
        BY <1>1, <3>1 DEF LoopPlace
      <4> QED  BY <1>1, <2>1, <4>1, ClearingLoopGoesOn
    <3> QED  BY <3>1 DEF LosesNothing
  <2>3. loop.then \in {"copy", "move"} => lists[loop.other] # NoObject /\ loop.other # o
    BY <1>1 DEF ListInv, Alive
  <2>4. CASE loop.then = "return" /\ lists' = lists
    BY <2>4, StutterRefines DEF Refines
  <2>5. CASE /\ loop.then = "copy"
             /\ lists' = [lists EXCEPT ![o] = lists[loop.other]]
    BY <1>1, <2>2, <2>3, <2>5, CopyRefines DEF Refines
  <2>6. CASE /\ loop.then = "move"
             /\ lists' = [lists EXCEPT ![o] = lists[loop.other],
                                       ![loop.other] = MovedOut(@)]
    BY <1>1, <2>2, <2>3, <2>6, MoveRefines DEF Refines, MovesOneByOne
  <2>7. CASE loop.then = "destroy" /\ lists' = [lists EXCEPT ![o] = NoObject]
    BY <1>1, <2>2, <2>7, EndRefines DEF Refines
  <2>8. loop.then \in {"copy", "move"} => Copies(l, lists[loop.other]) = {lists[loop.other]}
    BY <1>1, <2>3, CopyIsTheSame DEF ListInv, Alive
  <2> QED  BY <1>3, <2>4, <2>5, <2>6, <2>7, <2>8 DEF LoopEnd
<1> QED  BY <1>2, <1>3 DEF Loop

(* Constructors, destructors and assignments. *)
LEMMA LifetimeRefines ==
  ASSUME ListInv, NEW o \in Objects, Lifetime(o), TriviallyCopyable' = TriviallyCopyable
  PROVE  Refines
<1>1. CASE Construct(o)
  <2>1. lists[o] = NoObject /\ lists' = [lists EXCEPT ![o] = EmptyList]
    BY <1>1 DEF Construct, Alive
  <2>2. EmptyList \in GoodLists /\ \A j \in 1 .. EmptyList.size : Items(EmptyList)[j][2] \in Values
    BY EmptyListIsGood
  <2> QED  BY <2>1, <2>2, CreateRefines DEF Refines
<1>2. CASE TrivialDestroy(o)
  <2>1. LosesNothing(o) /\ lists[o] # NoObject /\ lists' = [lists EXCEPT ![o] = NoObject]
    BY <1>2 DEF TrivialDestroy, Alive, LosesNothing
  <2> QED  BY <2>1, EndRefines DEF Refines
<1>3. CASE Destroy(o)
  <2>1. lists' = lists
    BY <1>3 DEF Destroy
  <2> QED  BY <2>1, StutterRefines DEF Refines
<1>4. ASSUME NEW other \in Objects, CopyConstruct(o, other) PROVE Refines
  <2>1. lists[other] \in GoodLists
    BY <1>4 DEF CopyConstruct, ListInv
  <2>2. Copies(EmptyList, lists[other]) = {lists[other]}
    BY <2>1, CopyIsTheSame
  <2>3. /\ LosesNothing(o) /\ lists[other] # NoObject
        /\ lists' = [lists EXCEPT ![o] = lists[other]]
    BY <1>4, <2>2 DEF CopyConstruct, Alive, LosesNothing
  <2> QED  BY <2>3, CopyRefines DEF Refines
<1>5. ASSUME NEW other \in Objects, TrivialConstruct(o, other) \/ TrivialAssign(o, other)
      PROVE  Refines
  <2>1. /\ LosesNothing(o) /\ lists[other] # NoObject
        /\ lists' = [lists EXCEPT ![o] = lists[other]]
    BY <1>5 DEF TrivialConstruct, TrivialAssign, Alive, LosesNothing
  <2> QED  BY <2>1, CopyRefines DEF Refines
<1>6. ASSUME NEW other \in Objects, MoveConstruct(o, other) PROVE Refines
  <2>1. lists[other] \in GoodLists
    BY <1>6 DEF MoveConstruct, ListInv
  <2>2. Copies(EmptyList, lists[other]) = {lists[other]}
    BY <2>1, CopyIsTheSame
  <2>3. /\ LosesNothing(o) /\ lists[other] # NoObject /\ o # other /\ ~TriviallyCopyable
        /\ lists' = [lists EXCEPT ![o] = lists[other],
                                  ![other] = MovedOut(@)]
    BY <1>6, <2>2 DEF MoveConstruct, Alive, LosesNothing
  <2> QED  BY <2>3, MoveRefines DEF Refines
<1>7. ASSUME NEW other \in Objects, CopyAssign(o, other) \/ MoveAssign(o, other) PROVE Refines
  <2>1. lists' = lists
    BY <1>7 DEF CopyAssign, MoveAssign
  <2> QED  BY <2>1, StutterRefines DEF Refines
<1> QED  BY <1>1, <1>2, <1>3, <1>4, <1>5, <1>6, <1>7 DEF Lifetime

(* A call of FixedList is one splice of the abstract sequence. *)
LEMMA ListCallRefines ==
  ASSUME ListInv, NEW o \in Objects, ListCall(o), TriviallyCopyable' = TriviallyCopyable
  PROVE  Refines
<1>1. CASE Stops
  BY <1>1, StutterRefines DEF Refines, Stops
<1>2. ASSUME NEW m, Replaces(o, m) PROVE Refines
  <2>1. /\ m \in GoodLists /\ Edited(Before(o), m) /\ lists' = [lists EXCEPT ![o] = m]
    BY <1>2 DEF Replaces
  <2>2. CASE lists[o] # NoObject
    BY <2>1, <2>2, EditRefines DEF Refines, Before
  <2>3. CASE lists[o] = NoObject
    <3>1. Edited(EmptyList, m)
      BY <2>1, <2>3 DEF Before
    <3>2. \A j \in 1 .. m.size : Items(m)[j][2] \in Values
      BY <2>1, <3>1, EmptyListIsGood, BuiltOnEmpty
    <3> QED  BY <2>1, <2>3, <3>2, CreateRefines DEF Refines
  <2> QED  BY <2>2, <2>3
<1> QED  BY <1>1, <1>2, ListCallEdits

(* A loop that ends in a move was started by a move of a type that has one. *)
LEMMA MovesStayOneByOne ==
  ASSUME ListInv, MovesOneByOne, [ListNext]_vars
  PROVE  MovesOneByOne'
<1>1. CASE UNCHANGED vars
  BY <1>1 DEF vars, MovesOneByOne
<1>2. TriviallyCopyable' = TriviallyCopyable \/ UNCHANGED vars
  BY DEF ListNext, Next
<1>3. ASSUME loop' = loop \/ loop' = NoLoop, TriviallyCopyable' = TriviallyCopyable PROVE MovesOneByOne'
  BY <1>3 DEF MovesOneByOne
<1>4. CASE Loop
  <2>1. loop # NoLoop /\ loop \in Loops
    BY <1>4 DEF Loop, LoopBody, LoopEnd, ListInv, TypeOK
  <2>2. CASE LoopBody
    <3>1. loop'.then = loop.then
      BY <2>1, <2>2 DEF LoopBody, Loops
    <3> QED  BY <1>1, <1>2, <2>1, <3>1 DEF MovesOneByOne
  <2>3. CASE LoopEnd
    BY <1>1, <1>2, <1>3, <2>3 DEF LoopEnd
  <2> QED  BY <1>4, <2>2, <2>3 DEF Loop
<1>5. ASSUME NEW o \in Objects, Insertion(o) PROVE loop' = loop
  BY <1>5 DEF Insertion, EmplaceAfter, emplace_after_index_and_return_index,
       emplace_before_index_and_return_index, emplace_back_and_return_index,
       emplace_front_and_return_index
<1>6. ASSUME NEW o \in Objects, Removal(o) PROVE loop' = loop \/ loop'.then # "move"
  BY <1>6 DEF Removal, delete_at_and_return_next_index, delete_range_and_return_next_index,
       clear, StartLoop
<1>7. ASSUME NEW o \in Objects, Lifetime(o)
      PROVE  loop' = loop \/ loop'.then # "move" \/ ~TriviallyCopyable
  BY <1>7 DEF Lifetime, Construct, TrivialDestroy, Destroy, CopyConstruct,
       TrivialConstruct, MoveConstruct, TrivialAssign, CopyAssign, MoveAssign, StartLoop
<1>8. ASSUME NEW o \in Objects, ListCall(o) PROVE loop' = NoLoop
  BY <1>8, ListCallEdits DEF Stops, Replaces
<1> QED  BY <1>1, <1>2, <1>3, <1>4, <1>5, <1>6, <1>7, <1>8 DEF ListNext, Next, MovesOneByOne

(* FixedDoublyLinkedList and FixedList, for every capacity, value type and *)
(* number of objects, do to their elements what IndexedSequences allows:   *)
(* an element keeps its index and its value until it is removed, new ones  *)
(* go together to one place, a copy has the same indices, and nothing is   *)
(* overwritten or dropped.                                                 *)
THEOREM ListsAreSequences == ListSpec => RefinesSequences
<1>1. Init => Abstract!Init
  BY DEF Init, Abstract!Init
<1>2. Init => MovesOneByOne
  BY DEF Init, MovesOneByOne
<1>3. ListInv /\ MovesOneByOne /\ [ListNext]_vars => MovesOneByOne'
  BY MovesStayOneByOne
<1>4. ListInv /\ MovesOneByOne /\ [ListNext]_vars
        => [Abstract!Next]_<<Seqs, TriviallyCopyable>>
  <2> SUFFICES ASSUME ListInv, MovesOneByOne, [ListNext]_vars PROVE Refines
    BY DEF Refines
  <2>1. CASE UNCHANGED vars
    BY <2>1, StutterRefines DEF vars, Refines
  <2>2. CASE Next
    BY <2>2, InsertionRefines, RemovalRefines, LifetimeRefines, LoopRefines DEF Next
  <2>3. ASSUME TriviallyCopyable' = TriviallyCopyable, NEW o \in Objects, ListCall(o)
        PROVE  Refines
    BY <2>3, ListCallRefines
  <2> QED  BY <2>1, <2>2, <2>3 DEF ListNext
<1>5. [Abstract!Next]_<<Seqs, TriviallyCopyable>>
        => [Abstract!Next]_<<[o \in Objects |-> IF lists[o] = NoObject THEN NoObject
                                ELSE Items(lists[o])], TriviallyCopyable>>
  BY DEF Seqs
<1> QED  BY <1>1, <1>2, <1>3, <1>4, <1>5, ListInvHolds, PTL
           DEF ListSpec, RefinesSequences, Abstract!Spec

-----------------------------------------------------------------------------
(* The members of FixedList do what std::list's do.  A position is in      *)
(* front of as many elements as its place says.                            *)
LEMMA RankOfPlace ==
  ASSUME NEW l \in GoodLists, NEW e, Order(l, e), NEW k \in 1 .. l.size + 1
  PROVE  Rank(l, e[k]) = k - 1
<1> DEFINE S == Live(l.storage) \ WalkFrom(l, e[k])
           f == [j \in 1 .. k - 1 |-> e[j]]
<1>1. l \in ListObjects /\ l.size \in Nat
  BY ListFields DEF GoodLists
<1>2. WalkFrom(l, e[k]) = {e[j] : j \in k .. l.size + 1}
  BY <1>1, WalkIsSuffix
<1>3. \A i, j \in 1 .. l.size + 1 : e[i] = e[j] => i = j
  BY <1>1, OrderIsInjective
<1>4. \A j \in 1 .. k - 1 : /\ j \in 1 .. l.size /\ j \in 1 .. l.size + 1
                            /\ \A i \in k .. l.size + 1 : i \in 1 .. l.size + 1 /\ i # j
  BY <1>1
<1>5. \A j \in 1 .. l.size : j \in 1 .. k - 1 \/ j \in k .. l.size + 1
  BY <1>1
<1>6. \A j \in 1 .. k - 1 : e[j] \in S
  BY <1>2, <1>3, <1>4 DEF Order
<1>7. \A x \in S : \E j \in 1 .. k - 1 : e[j] = x
  BY <1>2, <1>5 DEF Order
<1>8. \A i, j \in 1 .. k - 1 : e[i] = e[j] => i = j
  BY <1>3, <1>4
<1> HIDE DEF S
<1>9. f \in [1 .. k - 1 -> S]
  BY <1>6
<1>10. (\A i, j \in 1 .. k - 1 : f[i] = f[j] => i = j) /\ \A x \in S : \E j \in 1 .. k - 1 : f[j] = x
  BY <1>7, <1>8
<1> HIDE DEF f
<1>11. f \in Bijection(1 .. k - 1, S)
  BY <1>9, <1>10 DEF Bijection, Injection, Surjection, IsInjective
<1>12. k - 1 \in Nat /\ 1 \in Int /\ k - 1 \in Int
  BY <1>1
<1>13. IsFiniteSet(1 .. k - 1) /\ Cardinality(1 .. k - 1) = k - 1
  BY <1>12, FS_Interval
<1>14. Cardinality(S) = Cardinality(1 .. k - 1)
  BY <1>11, <1>13, FS_Bijection DEF ExistsBijection
<1> QED  BY <1>13, <1>14 DEF Rank, S

(* m has the elements of l without d of them, from place i on. *)
Erased(l, i, d, m) ==
  /\ m.size = l.size - d
  /\ \A x \in 1 .. i - 1 : Items(m)[x] = Items(l)[x]
  /\ \A x \in i .. m.size : Items(m)[x] = Items(l)[x + d]

(* A loop of erase that began at place i has deleted d elements, and will  *)
(* stop at the position that had place j.                                  *)
Erasing(l, i, j, d, last, m, idx) ==
  /\ Erased(l, i, d, m)
  /\ \E e : Order(m, e) /\ idx = e[i] /\ last = e[j - d]

(* One iteration deletes one more. *)
LEMMA ErasingGoesOn ==
  ASSUME NEW l \in GoodLists, NEW i \in 1 .. l.size + 1, NEW j \in i .. l.size + 1,
         NEW d \in Nat, d < j - i, NEW last, NEW m \in GoodLists, NEW idx \in Links,
         Erasing(l, i, j, d, last, m, idx)
  PROVE  LET c == delete_at(m, idx) IN
         /\ idx # last /\ c \in GoodLists /\ c.next[idx] \in Links
         /\ Erasing(l, i, j, d + 1, last, c, c.next[idx])
<1> DEFINE c == delete_at(m, idx)
<1>1. /\ m \in ListObjects /\ WellFormedPool(m.storage) /\ m.size \in Nat /\ l.size \in Nat
      /\ m.size = l.size - d
  BY ListFields DEF GoodLists, Erasing, Erased
<1>2. PICK e : Order(m, e) /\ idx = e[i] /\ last = e[j - d]
  BY DEF Erasing
<1>3. /\ i \in 1 .. m.size /\ i \in 1 .. m.size + 1 /\ j - d \in 1 .. m.size + 1 /\ i # j - d
      /\ i + 1 \in 0 .. m.size + 1
  BY <1>1
<1>4. idx # last
  BY <1>1, <1>2, <1>3, OrderIsInjective
<1> DEFINE h == RemovePlace(e, m.size, i)
<1>5. /\ c \in ListObjects /\ WellFormedPool(c.storage) /\ c.size = m.size - 1
      /\ Order(c, h) /\ NextAfterDelete(m, idx) = e[i + 1]
  BY <1>1, <1>2, <1>3, DeleteInOrder
<1>6. \A x \in 1 .. m.size - 1 : Items(c)[x] = Items(m)[IF x < i THEN x ELSE x + 1]
  BY <1>2, <1>3, DeleteItems
<1>7. c.next[idx] = e[i + 1] /\ e[i + 1] \in Links
  BY <1>2, <1>3, <1>5 DEF NextAfterDelete, Order
<1> HIDE DEF c
<1>8. c \in GoodLists
  BY <1>5, OrderIsChain DEF GoodLists
<1>9. h[i] = e[i + 1] /\ h[j - (d + 1)] = e[j - d]
  <2>1. /\ i \in 0 .. m.size /\ ~(i < i) /\ j - (d + 1) \in 0 .. m.size /\ ~(j - (d + 1) < i)
        /\ j - (d + 1) + 1 = j - d
    BY <1>1, <1>3
  <2> QED  BY <2>1 DEF RemovePlace
<1>10. Erased(l, i, d + 1, c)
  <2>1. /\ c.size = l.size - (d + 1)
        /\ \A x \in 1 .. i - 1 : x \in 1 .. m.size - 1 /\ x < i
        /\ \A x \in i .. c.size : /\ x \in 1 .. m.size - 1 /\ ~(x < i) /\ x + 1 \in i .. m.size
                                  /\ (x + 1) + d = x + (d + 1)
    BY <1>1, <1>3, <1>5
  <2>2. /\ \A x \in 1 .. i - 1 : Items(m)[x] = Items(l)[x]
        /\ \A x \in i .. m.size : Items(m)[x] = Items(l)[x + d]
    BY DEF Erasing, Erased
  <2>3. \A x \in 1 .. i - 1 : Items(c)[x] = Items(l)[x]
    BY <1>6, <2>1, <2>2
  <2>4. \A x \in i .. c.size : Items(c)[x] = Items(l)[x + (d + 1)]
    BY <1>6, <2>1, <2>2
  <2> QED  BY <2>1, <2>3, <2>4 DEF Erased
<1> HIDE DEF h
<1>11. Erasing(l, i, j, d + 1, last, c, c.next[idx])
  BY <1>2, <1>5, <1>7, <1>9, <1>10 DEF Erasing
<1> QED  BY <1>4, <1>7, <1>8, <1>11 DEF c

(* erase(first, last) removes the elements from first on that are in front *)
(* of last, and no other.                                                  *)
LEMMA EraseIsExact ==
  ASSUME NEW l \in GoodLists, NEW e, Order(l, e),
         NEW i \in 1 .. l.size + 1, NEW j \in i .. l.size + 1
  PROVE  LET m == erase(l, e[i], e[j]) IN m \in GoodLists /\ Erased(l, i, j - i, m)
<1> DEFINE N == l.size
           last == e[j]
           Step(s) == IF s.i = last THEN s
                      ELSE [list |-> delete_at(s.list, s.i),
                            i |-> delete_at(s.list, s.i).next[s.i]]
           Start == [list |-> l, i |-> e[i]]
           Body(f) == [n \in 0 .. N |-> IF n = 0 THEN Start ELSE Step(f[n - 1])]
           pass == CHOOSE f : f = Body(f)
           States(d) == {s \in [list : GoodLists, i : Links] :
                           Erasing(l, i, j, d, last, s.list, s.i)}
           X == [n \in 0 .. N |-> IF n <= j - i THEN States(n) ELSE States(j - i)]
           F == [n \in 1 .. N |-> [s \in X[n - 1] |-> Step(s)]]
<1>1. erase(l, e[i], last) = pass[N].list
  BY DEF erase
<1>2. N \in Nat /\ i \in Nat /\ j \in Nat /\ j - i \in 0 .. N /\ l \in ListObjects
  BY ListFields DEF GoodLists
<1>3. Start \in X[0]
  <2>1. 0 <= j - i /\ 0 \in 0 .. N /\ j - 0 = j /\ l.size - 0 = l.size /\ \A x \in i .. l.size : x + 0 = x
    BY <1>2
  <2>2. Erased(l, i, 0, l)
    BY <2>1 DEF Erased
  <2>3. e[i] \in Links
    BY <1>2, OrderIsInjective
  <2>4. Erasing(l, i, j, 0, last, l, e[i])
    BY <2>1, <2>2 DEF Erasing
  <2>5. Start \in States(0)
    BY <2>3, <2>4
  <2> HIDE DEF States, Start
  <2> QED  BY <2>1, <2>5
<1>4. ASSUME NEW n \in 1 .. N, NEW s \in X[n - 1] PROVE Step(s) \in X[n]
  <2>1. n \in 0 .. N /\ n - 1 \in 0 .. N /\ n \in Nat /\ n - 1 \in Nat /\ (n - 1) + 1 = n
    BY <1>2
  <2>2. CASE n <= j - i
    <3>1. n - 1 <= j - i /\ n - 1 < j - i
      BY <1>2, <2>1, <2>2
    <3>2. s \in States(n - 1)
      BY <2>1, <3>1
    <3>3. s.list \in GoodLists /\ s.i \in Links /\ Erasing(l, i, j, n - 1, last, s.list, s.i)
      BY <3>2
    <3> DEFINE c == delete_at(s.list, s.i)
    <3>4. /\ s.i # last /\ c \in GoodLists /\ c.next[s.i] \in Links
          /\ Erasing(l, i, j, n, last, c, c.next[s.i])
      <4> HIDE DEF last
      <4> QED  BY <2>1, <3>1, <3>3, ErasingGoesOn
    <3>5. Step(s) = [list |-> c, i |-> c.next[s.i]]
      BY <3>4
    <3> HIDE DEF c, Step
    <3>6. Step(s) \in States(n)
      BY <3>4, <3>5
    <3> HIDE DEF States
    <3> QED  BY <2>1, <2>2, <3>6
  <2>3. CASE ~(n <= j - i)
    <3>1. X[n - 1] = States(j - i)
      <4>1. n - 1 <= j - i => n - 1 = j - i
        BY <1>2, <2>1, <2>3
      <4> HIDE DEF States
      <4> QED  BY <2>1, <4>1
    <3>2. Erasing(l, i, j, j - i, last, s.list, s.i)
      BY <3>1
    <3>3. j - (j - i) = i
      BY <1>2
    <3>4. s.i = last
      BY <3>2, <3>3 DEF Erasing
    <3>5. Step(s) \in States(j - i)
      BY <3>1, <3>4
    <3> HIDE DEF States, Step
    <3> QED  BY <2>1, <2>3, <3>5
  <2> QED  BY <2>2, <2>3
<1> HIDE DEF Step, Start, States
<1>5. ASSUME NEW f, SolvesLoop(f, Start, X, F, N) PROVE RunsLoop(pass, Start, X, F, N)
  <2>1. \A k \in 1 .. N : \A s \in X[k - 1] : F[k][s] = Step(s)
    OBVIOUS
  <2>2. \A k \in 0 .. N : k # 0 <=> k \in 1 .. N
    BY <1>2
  <2>3. 0 \in 0 .. N /\ \A k \in 1 .. N : k \in 0 .. N /\ k - 1 \in 0 .. N
    BY <1>2
  <2> HIDE DEF X, F, N
  <2>4. f = Body(f)
    BY <1>5, <2>1, <2>2, <2>3 DEF SolvesLoop
  <2> HIDE DEF Body
  <2>5. pass = Body(pass)
    BY <2>4
  <2> HIDE DEF pass
  <2> USE DEF Body
  <2> QED  BY <2>1, <2>2, <2>3, <2>5 DEF RunsLoop
<1>6. pass[N] \in X[N]
  <2>1. \A k \in 1 .. N : \A s \in X[k - 1] : F[k][s] \in X[k]
    BY <1>4
  <2> HIDE DEF X, F, N, pass
  <2> QED  BY <1>2, <1>3, <1>5, <2>1, LoopEnds
<1> HIDE DEF pass
<1>7. pass[N] \in States(j - i)
  <2>1. N \in 0 .. N /\ (N <= j - i => N = j - i)
    BY <1>2
  <2> QED  BY <1>6, <2>1
<1> QED  BY <1>1, <1>7 DEF States, Erasing

-----------------------------------------------------------------------------
(* kept[n] is what is left of the first n elements of s without those that *)
(* equal v.                                                                *)
Sifts(s, N, v, T, kept) ==
  /\ kept[0] = << >> /\ \A n \in 0 .. N : kept[n] \in Seq(T)
  /\ \A n \in 1 .. N :
       kept[n] = IF s[n] = v THEN kept[n - 1] ELSE Append(kept[n - 1], s[n])

(* The recursion of Without runs through the sequence. *)
LEMMA WithoutSifts ==
  ASSUME NEW T, NEW N \in Nat, NEW s \in [1 .. N -> T], NEW v
  PROVE  \E kept : Sifts(s, N, v, T, kept) /\ Without(s, v) = kept[N]
<1> DEFINE Step(n, x) == IF s[n] = v THEN x ELSE Append(x, s[n])
           Body(f) == [n \in 0 .. N |-> IF n = 0 THEN << >> ELSE Step(n, f[n - 1])]
           kept == CHOOSE f : f = Body(f)
           X == [n \in 0 .. N |-> Seq(T)]
           F == [n \in 1 .. N |-> [x \in Seq(T) |-> Step(n, x)]]
<1>1. Len(s) = N
  OBVIOUS
<1>2. Without(s, v) = kept[N]
  BY <1>1 DEF Without
<1>3. \A n \in 1 .. N : n # 0 /\ n - 1 \in 0 .. N /\ n \in 0 .. N
  OBVIOUS
<1>4. \A n \in 1 .. N : \A x \in Seq(T) : Step(n, x) \in Seq(T)
  <2> SUFFICES ASSUME NEW n \in 1 .. N, NEW x \in Seq(T) PROVE Step(n, x) \in Seq(T)
    OBVIOUS
  <2>1. s[n] \in T
    OBVIOUS
  <2>2. Append(x, s[n]) \in Seq(T)
    BY <2>1, AppendProperties
  <2> QED  BY <2>2
<1>5. << >> \in X[0]
  OBVIOUS
<1> HIDE DEF Step
<1>6. \A n \in 1 .. N : \A x \in X[n - 1] : F[n][x] = Step(n, x) /\ F[n][x] \in X[n]
  BY <1>3, <1>4
<1>7. \A n \in 0 .. N : X[n] = Seq(T)
  OBVIOUS
<1>8. PICK g : SolvesLoop(g, << >>, X, F, N)
  <2> HIDE DEF X, F
  <2> QED  BY <1>5, <1>6, LoopSolution
<1>9. g = Body(g)
  <2>1. \A n \in 1 .. N : g[n - 1] \in X[n - 1]
    BY <1>3, <1>8 DEF SolvesLoop
  <2>2. \A n \in 0 .. N : n # 0 <=> n \in 1 .. N
    OBVIOUS
  <2> HIDE DEF X, F
  <2> QED  BY <1>6, <1>8, <2>1, <2>2 DEF SolvesLoop
<1>10. kept = Body(kept)
  <2> HIDE DEF Body
  <2> QED  BY <1>9
<1> HIDE DEF kept, X, F
<1>11. kept[0] = << >> /\ \A n \in 1 .. N : kept[n] = Step(n, kept[n - 1])
  BY <1>3, <1>10
<1>12. \A n \in 0 .. N : kept[n] \in Seq(T)
  <2> DEFINE S == {n \in 0 .. N : kept[n] \in Seq(T)}
  <2>1. 0 \in S
    <3>1. 0 \in 0 .. N /\ << >> \in Seq(T)
      OBVIOUS
    <3> QED  BY <1>11, <3>1
  <2>2. ASSUME NEW n \in 1 .. N, n - 1 \in S PROVE n \in S
    <3>1. kept[n - 1] \in Seq(T)
      BY <2>2
    <3>2. kept[n] \in Seq(T)
      BY <1>4, <1>11, <3>1
    <3> QED  BY <1>3, <3>2
  <2> HIDE DEF S
  <2>3. \A n \in 0 .. N : n \in S
    BY <2>1, <2>2, LoopInduction
  <2> QED  BY <2>3 DEF S
<1>13. Sifts(s, N, v, T, kept)
  BY <1>11, <1>12 DEF Sifts, Step
<1> QED  BY <1>2, <1>13

(* remove_if has seen n elements of l, kept w of them, and stands in front *)
(* of the others.                                                          *)
Sifting(l, n, w, m, idx) ==
  /\ m.size = l.size - n + Len(w) /\ Len(w) <= n
  /\ \A x \in 1 .. Len(w) : Items(m)[x][2] = w[x]
  /\ \A x \in 1 .. l.size - n : Items(m)[Len(w) + x] = Items(l)[n + x]
  /\ \E e : Order(m, e) /\ idx = e[Len(w) + 1]

(* While an element is left, the loop has not reached the sentinel, and    *)
(* looks at that element.                                                  *)
LEMMA SiftingSees ==
  ASSUME NEW l \in GoodLists, NEW n \in 1 .. l.size, NEW w \in Seq(Contents),
         NEW m \in GoodLists, NEW idx, Sifting(l, n - 1, w, m, idx), NEW e,
         Order(m, e), idx = e[Len(w) + 1]
  PROVE  /\ Len(w) + 1 \in 1 .. m.size /\ idx # NULL_INDEX
         /\ m.storage.array[idx] = Items(l)[n][2]
<1>1. m \in ListObjects /\ m.size \in Nat /\ l.size \in Nat /\ Len(w) \in Nat
  BY ListFields, LenProperties DEF GoodLists
<1>2. m.size = l.size - (n - 1) + Len(w) /\ Len(w) <= n - 1
  BY DEF Sifting
<1>3. Len(w) + 1 \in 1 .. m.size /\ 1 \in 1 .. l.size - (n - 1) /\ (n - 1) + 1 = n
  BY <1>1, <1>2
<1>4. Items(m)[Len(w) + 1] = Items(l)[n]
  BY <1>3 DEF Sifting
<1>5. Items(m)[Len(w) + 1] = <<idx, m.storage.array[idx]>>
  BY <1>1, <1>3, ItemAt
<1>6. idx # NULL_INDEX
  BY <1>1, <1>3, OrderIsInjective
<1> QED  BY <1>3, <1>4, <1>5, <1>6

(* An element that is kept. *)
LEMMA SiftingKeeps ==
  ASSUME NEW l \in GoodLists, NEW n \in 1 .. l.size, NEW w \in Seq(Contents),
         NEW m \in GoodLists, NEW idx, Sifting(l, n - 1, w, m, idx)
  PROVE  /\ Sifting(l, n, Append(w, Items(l)[n][2]), m, m.next[idx])
         /\ m.next[idx] \in Links
<1> DEFINE u == Append(w, Items(l)[n][2])
<1>1. m \in ListObjects /\ m.size \in Nat /\ l.size \in Nat /\ Len(w) \in Nat
  BY ListFields, LenProperties DEF GoodLists
<1>2. PICK e : Order(m, e) /\ idx = e[Len(w) + 1]
  BY DEF Sifting
<1>3. /\ Len(w) + 1 \in 1 .. m.size /\ m.storage.array[idx] = Items(l)[n][2]
  BY <1>2, SiftingSees
<1>4. Items(l)[n][2] \in Contents
  BY ItemsOfList
<1>5. /\ Len(u) = Len(w) + 1 /\ u[Len(w) + 1] = Items(l)[n][2]
      /\ \A x \in 1 .. Len(w) : u[x] = w[x]
  BY <1>4, AppendProperties
<1> HIDE DEF u
<1>6. /\ m.size = l.size - (n - 1) + Len(w) /\ Len(w) <= n - 1
      /\ \A x \in 1 .. Len(w) : Items(m)[x][2] = w[x]
      /\ \A x \in 1 .. l.size - (n - 1) : Items(m)[Len(w) + x] = Items(l)[(n - 1) + x]
  BY DEF Sifting
<1>7. /\ m.size = l.size - n + (Len(w) + 1) /\ Len(w) + 1 <= n
      /\ \A x \in 1 .. Len(w) + 1 : x = Len(w) + 1 \/ x \in 1 .. Len(w)
      /\ \A x \in 1 .. l.size - n : /\ x + 1 \in 1 .. l.size - (n - 1)
                                    /\ Len(w) + (x + 1) = (Len(w) + 1) + x
                                    /\ (n - 1) + (x + 1) = n + x
      /\ Len(w) + 1 \in 0 .. m.size
  <2> DEFINE p == Len(w)
             L == l.size
  <2>1. p \in Nat /\ L \in Nat /\ m.size = L - (n - 1) + p /\ p <= n - 1 /\ n \in 1 .. L
    BY <1>1, <1>6
  <2> HIDE DEF p, L
  <2>2. /\ m.size = L - n + (p + 1) /\ p + 1 <= n
        /\ \A x \in 1 .. p + 1 : x = p + 1 \/ x \in 1 .. p
        /\ \A x \in 1 .. L - n : x + 1 \in 1 .. L - (n - 1) /\ p + (x + 1) = (p + 1) + x
                                  /\ (n - 1) + (x + 1) = n + x
        /\ p + 1 \in 0 .. m.size
    BY <2>1
  <2> QED  BY <2>2 DEF p, L
<1>8. Items(m)[Len(w) + 1][2] = Items(l)[n][2]
  <2>1. Items(m)[Len(w) + 1] = <<idx, m.storage.array[idx]>>
    BY <1>1, <1>2, <1>3, ItemAt
  <2> QED  BY <1>3, <2>1
<1>9. \A x \in 1 .. Len(u) : Items(m)[x][2] = u[x]
  BY <1>5, <1>6, <1>7, <1>8
<1>10. \A x \in 1 .. l.size - n : Items(m)[Len(u) + x] = Items(l)[n + x]
  BY <1>5, <1>6, <1>7
<1>11. m.next[idx] = e[Len(u) + 1] /\ e[Len(w) + 2] \in Links /\ Len(u) + 1 = Len(w) + 2
  <2>1. Len(w) + 2 \in 0 .. m.size + 1 /\ (Len(w) + 1) + 1 = Len(w) + 2
    BY <1>1, <1>7
  <2> QED  BY <1>2, <1>5, <1>7, <2>1 DEF Order
<1>12. Sifting(l, n, u, m, m.next[idx])
  BY <1>2, <1>5, <1>7, <1>9, <1>10, <1>11 DEF Sifting
<1> QED  BY <1>11, <1>12 DEF u

(* An element that is removed. *)
LEMMA SiftingRemoves ==
  ASSUME NEW l \in GoodLists, NEW n \in 1 .. l.size, NEW w \in Seq(Contents),
         NEW m \in GoodLists, NEW idx, Sifting(l, n - 1, w, m, idx)
  PROVE  LET d == delete_at(m, idx) IN
         /\ d \in GoodLists /\ NextAfterDelete(m, idx) \in Links
         /\ Sifting(l, n, w, d, NextAfterDelete(m, idx))
<1> DEFINE d == delete_at(m, idx)
           k == Len(w) + 1
<1>1. /\ m \in ListObjects /\ WellFormedPool(m.storage) /\ m.size \in Nat
      /\ l.size \in Nat /\ Len(w) \in Nat
  BY ListFields, LenProperties DEF GoodLists
<1>2. PICK e : Order(m, e) /\ idx = e[k]
  BY DEF Sifting
<1>3. k \in 1 .. m.size
  BY <1>2, SiftingSees
<1> DEFINE h == RemovePlace(e, m.size, k)
<1>4. /\ d \in ListObjects /\ WellFormedPool(d.storage) /\ d.size = m.size - 1
      /\ Order(d, h) /\ NextAfterDelete(m, idx) = e[k + 1]
  BY <1>1, <1>2, <1>3, DeleteInOrder
<1>5. \A x \in 1 .. m.size - 1 : Items(d)[x] = Items(m)[IF x < k THEN x ELSE x + 1]
  BY <1>2, <1>3, DeleteItems
<1> HIDE DEF d
<1>6. d \in GoodLists
  BY <1>4, OrderIsChain DEF GoodLists
<1>7. /\ m.size = l.size - (n - 1) + Len(w) /\ Len(w) <= n - 1
      /\ \A x \in 1 .. Len(w) : Items(m)[x][2] = w[x]
      /\ \A x \in 1 .. l.size - (n - 1) : Items(m)[Len(w) + x] = Items(l)[(n - 1) + x]
  BY DEF Sifting
<1>8. /\ d.size = l.size - n + Len(w) /\ Len(w) <= n
      /\ \A x \in 1 .. Len(w) : x \in 1 .. m.size - 1 /\ x < k
      /\ \A x \in 1 .. l.size - n :
           /\ Len(w) + x \in 1 .. m.size - 1 /\ ~(Len(w) + x < k)
           /\ x + 1 \in 1 .. l.size - (n - 1) /\ (Len(w) + x) + 1 = Len(w) + (x + 1)
           /\ (n - 1) + (x + 1) = n + x
      /\ k \in 0 .. m.size /\ ~(k < k) /\ k + 1 \in 0 .. m.size + 1
  <2> DEFINE p == Len(w)
             L == l.size
             M == m.size
  <2>1. /\ p \in Nat /\ L \in Nat /\ M \in Nat /\ M = L - (n - 1) + p /\ p <= n - 1
        /\ n \in 1 .. L /\ d.size = M - 1
    BY <1>1, <1>4, <1>7
  <2> HIDE DEF p, L, M
  <2>2. /\ d.size = L - n + p /\ p <= n
        /\ \A x \in 1 .. p : x \in 1 .. M - 1 /\ x < p + 1
        /\ \A x \in 1 .. L - n :
             /\ p + x \in 1 .. M - 1 /\ ~(p + x < p + 1)
             /\ x + 1 \in 1 .. L - (n - 1) /\ (p + x) + 1 = p + (x + 1)
             /\ (n - 1) + (x + 1) = n + x
        /\ p + 1 \in 0 .. M /\ ~(p + 1 < p + 1) /\ p + 1 + 1 \in 0 .. M + 1
    BY <2>1
  <2> QED  BY <2>2 DEF p, L, M
<1>9. h[k] = e[k + 1] /\ e[k + 1] \in Links
  BY <1>2, <1>8 DEF RemovePlace, Order
<1>10. \A x \in 1 .. Len(w) : Items(d)[x][2] = w[x]
  BY <1>5, <1>7, <1>8
<1>11. \A x \in 1 .. l.size - n : Items(d)[Len(w) + x] = Items(l)[n + x]
  <2> HIDE DEF k
  <2> QED  BY <1>5, <1>7, <1>8
<1> HIDE DEF h
<1>12. Sifting(l, n, w, d, e[k + 1])
  BY <1>4, <1>8, <1>9, <1>10, <1>11 DEF Sifting
<1> QED  BY <1>4, <1>6, <1>9, <1>12 DEF d

(* remove(v) leaves the elements that do not equal v, in their order. *)
LEMMA RemoveIsExact ==
  ASSUME NEW l \in GoodLists, NEW v
  PROVE  ValuesOf(remove_if(l, {v}).list) = Without(ValuesOf(l), v)
<1> DEFINE N == l.size
           vals == ValuesOf(l)
           Step(s) == IF s.i = NULL_INDEX THEN s
                      ELSE IF s.list.storage.array[s.i] \in {v}
                      THEN [list |-> delete_at(s.list, s.i),
                            i |-> NextAfterDelete(s.list, s.i), removed |-> s.removed + 1]
                      ELSE [s EXCEPT !.i = s.list.next[s.i]]
           Start == [list |-> l, i |-> front_index(l), removed |-> 0]
           Body(f) == [n \in 0 .. N |-> IF n = 0 THEN Start ELSE Step(f[n - 1])]
           pass == CHOOSE f : f = Body(f)
<1>1. remove_if(l, {v}) = pass[N]
  BY DEF remove_if
<1>2. N \in Nat /\ l \in ListObjects
  BY ListFields DEF GoodLists
<1>3. vals \in [1 .. N -> Contents] /\ \A n \in 1 .. N : vals[n] = Items(l)[n][2]
  BY ItemsOfList DEF ValuesOf
<1> HIDE DEF vals
<1>4. PICK kept : Sifts(vals, N, v, Contents, kept) /\ Without(vals, v) = kept[N]
  <2>1. N \in Nat /\ vals \in [1 .. N -> Contents]
    BY <1>2, <1>3
  <2> HIDE DEF N, Step, Start, Body, pass
  <2> QED  BY <2>1, WithoutSifts
<1> DEFINE States(n) == {s \in [list : GoodLists, i : Links, removed : Nat] :
                           Sifting(l, n, kept[n], s.list, s.i)}
           X == [n \in 0 .. N |-> States(n)]
           F == [n \in 1 .. N |-> [s \in X[n - 1] |-> Step(s)]]
<1>5. Start \in X[0]
  <2>1. PICK e : Order(l, e)
    BY ChainHasOrder DEF GoodLists
  <2>2. 0 \in 0 .. N /\ 0 + 1 = 1 /\ 1 \in 0 .. N + 1 /\ N - 0 + 0 = N /\ 0 <= 0 /\ 1 .. 0 = {}
        /\ \A x \in 1 .. N - 0 : 0 + x = x
    BY <1>2
  <2>3. front_index(l) = e[1] /\ e[1] \in Links
    BY <2>1, <2>2 DEF front_index, Order
  <2>4. kept[0] = << >> /\ Len(<< >>) = 0
    BY <1>4 DEF Sifts
  <2>5. Sifting(l, 0, kept[0], l, front_index(l))
    BY <2>1, <2>2, <2>3, <2>4 DEF Sifting
  <2>6. Start \in States(0)
    BY <2>3, <2>5
  <2> HIDE DEF States, Start
  <2> QED  BY <2>2, <2>6
<1>6. ASSUME NEW n \in 1 .. N, NEW s \in X[n - 1] PROVE Step(s) \in X[n]
  <2>1. n \in 0 .. N /\ n - 1 \in 0 .. N
    BY <1>2
  <2>2. /\ s \in [list : GoodLists, i : Links, removed : Nat]
        /\ Sifting(l, n - 1, kept[n - 1], s.list, s.i)
    BY <2>1
  <2> DEFINE w == kept[n - 1]
             m == s.list
             idx == s.i
  <2>3. w \in Seq(Contents) /\ m \in GoodLists /\ idx \in Links /\ s.removed \in Nat
        /\ s = [list |-> m, i |-> idx, removed |-> s.removed]
    BY <1>4, <2>1, <2>2 DEF Sifts
  <2>4. kept[n] = IF vals[n] = v THEN w ELSE Append(w, vals[n])
    BY <1>4 DEF Sifts
  <2>5. Sifting(l, n - 1, w, m, idx) /\ vals[n] = Items(l)[n][2] /\ n \in 1 .. l.size
    BY <1>3, <2>2
  <2> HIDE DEF w, m, idx
  <2>6. idx # NULL_INDEX /\ m.storage.array[idx] = vals[n]
    <3>1. PICK e : Order(m, e) /\ idx = e[Len(w) + 1]
      BY <2>5 DEF Sifting
    <3> HIDE DEF N, X, F, States, Step, Start, Body, pass
    <3>2. idx # NULL_INDEX /\ m.storage.array[idx] = Items(l)[n][2]
      BY <2>3, <2>5, <3>1, SiftingSees
    <3> QED  BY <2>5, <3>2
  <2>7. CASE vals[n] = v
    <3>1. /\ delete_at(m, idx) \in GoodLists /\ NextAfterDelete(m, idx) \in Links
          /\ Sifting(l, n, w, delete_at(m, idx), NextAfterDelete(m, idx))
      BY <2>3, <2>5, SiftingRemoves
    <3>2. Step(s) = [list |-> delete_at(m, idx), i |-> NextAfterDelete(m, idx),
                     removed |-> s.removed + 1]
      BY <2>6, <2>7 DEF m, idx
    <3>3. s.removed + 1 \in Nat /\ kept[n] = w
      BY <2>3, <2>4, <2>7
    <3> DEFINE d == delete_at(m, idx)
               j == NextAfterDelete(m, idx)
    <3> HIDE DEF d, j, Step
    <3>4. d \in GoodLists /\ j \in Links /\ Sifting(l, n, kept[n], d, j)
      BY <3>1, <3>3 DEF d, j
    <3>5. Step(s) = [list |-> d, i |-> j, removed |-> s.removed + 1]
      BY <3>2 DEF d, j
    <3>6. Step(s) \in States(n)
      BY <3>3, <3>4, <3>5
    <3> HIDE DEF States
    <3> QED  BY <2>1, <3>6
  <2>8. CASE vals[n] # v
    <3> DEFINE j == m.next[idx]
    <3>1. Sifting(l, n, Append(w, vals[n]), m, j) /\ j \in Links
      BY <2>3, <2>5, SiftingKeeps
    <3>2. Step(s) = [s EXCEPT !.i = j]
      BY <2>6, <2>8 DEF m, idx
    <3> HIDE DEF Step, j
    <3>3. Step(s) = [list |-> m, i |-> j, removed |-> s.removed]
      BY <2>3, <3>2
    <3>4. kept[n] = Append(w, vals[n])
      BY <2>4, <2>8
    <3>5. Step(s) \in States(n)
      BY <2>3, <3>1, <3>3, <3>4
    <3> HIDE DEF States
    <3> QED  BY <2>1, <3>5
  <2> QED  BY <2>7, <2>8
<1> HIDE DEF Step, Start, States
<1>7. ASSUME NEW f, SolvesLoop(f, Start, X, F, N) PROVE RunsLoop(pass, Start, X, F, N)
  <2>1. \A k \in 1 .. N : \A s \in X[k - 1] : F[k][s] = Step(s)
    OBVIOUS
  <2>2. \A k \in 0 .. N : k # 0 <=> k \in 1 .. N
    BY <1>2
  <2>3. 0 \in 0 .. N /\ \A k \in 1 .. N : k \in 0 .. N /\ k - 1 \in 0 .. N
    BY <1>2
  <2> HIDE DEF X, F, N
  <2>4. f = Body(f)
    BY <1>7, <2>1, <2>2, <2>3 DEF SolvesLoop
  <2> HIDE DEF Body
  <2>5. pass = Body(pass)
    BY <2>4
  <2> HIDE DEF pass
  <2> USE DEF Body
  <2> QED  BY <2>1, <2>2, <2>3, <2>5 DEF RunsLoop
<1>8. pass[N] \in X[N]
  <2>1. \A k \in 1 .. N : \A s \in X[k - 1] : F[k][s] \in X[k]
    BY <1>6
  <2> HIDE DEF X, F, N, pass
  <2> QED  BY <1>2, <1>5, <1>7, <2>1, LoopEnds
<1> HIDE DEF pass
<1> DEFINE m == pass[N].list
           w == kept[N]
<1>9. N \in 0 .. N /\ m \in GoodLists /\ Sifting(l, N, w, m, pass[N].i)
  BY <1>2, <1>8 DEF States
<1>10. w \in Seq(Contents)
  BY <1>4, <1>9 DEF Sifts
<1> HIDE DEF m, w
<1>11. m.size = Len(w) /\ \A x \in 1 .. Len(w) : Items(m)[x][2] = w[x]
  <2>1. Len(w) \in Nat
    BY <1>10, LenProperties
  <2> QED  BY <1>2, <1>9, <2>1 DEF Sifting
<1>12. w = [x \in 1 .. Len(w) |-> w[x]]
  BY <1>10, LenProperties
<1>13. ValuesOf(m) = w
  BY <1>11, <1>12 DEF ValuesOf
<1> QED  BY <1>1, <1>4, <1>13 DEF m, w, vals

-----------------------------------------------------------------------------
(* The two parts of a sequence. *)
LEMMA PartsOfSequence ==
  ASSUME NEW T, NEW N \in Nat, NEW s \in [1 .. N -> T], NEW k \in 0 .. N
  PROVE  /\ SubSeq(s, 1, k) \in Seq(T) /\ Len(SubSeq(s, 1, k)) = k
         /\ \A j \in 1 .. k : SubSeq(s, 1, k)[j] = s[j]
         /\ SubSeq(s, k + 1, N) \in Seq(T) /\ Len(SubSeq(s, k + 1, N)) = N - k
         /\ \A j \in 1 .. N - k : SubSeq(s, k + 1, N)[j] = s[k + j]
<1>1. k \in Int /\ N \in Int /\ 1 \in Int /\ k + 1 \in Int /\ k \in Nat
  OBVIOUS
<1>2. (\A i \in 1 .. k : s[i] \in T) /\ \A i \in k + 1 .. N : s[i] \in T
  BY <1>1
<1>3. /\ SubSeq(s, 1, k) \in Seq(T) /\ Len(SubSeq(s, 1, k)) = IF 1 <= k THEN k - 1 + 1 ELSE 0
      /\ \A i \in 1 .. k - 1 + 1 : SubSeq(s, 1, k)[i] = s[1 + i - 1]
  BY <1>1, <1>2, SubSeqProperties
<1>4. /\ SubSeq(s, k + 1, N) \in Seq(T)
      /\ Len(SubSeq(s, k + 1, N)) = IF k + 1 <= N THEN N - (k + 1) + 1 ELSE 0
      /\ \A i \in 1 .. N - (k + 1) + 1 : SubSeq(s, k + 1, N)[i] = s[k + 1 + i - 1]
  BY <1>1, <1>2, SubSeqProperties
<1>5. /\ (IF 1 <= k THEN k - 1 + 1 ELSE 0) = k /\ k - 1 + 1 = k
      /\ \A j \in 1 .. k : 1 + j - 1 = j
      /\ (IF k + 1 <= N THEN N - (k + 1) + 1 ELSE 0) = N - k /\ N - (k + 1) + 1 = N - k
      /\ \A j \in 1 .. N - k : k + 1 + j - 1 = k + j
  BY <1>1
<1> QED  BY <1>3, <1>4, <1>5

(* Two sequences of known lengths, one behind the other. *)
LEMMA Joined ==
  ASSUME NEW T, NEW s \in Seq(T), NEW t \in Seq(T), NEW p, NEW q, Len(s) = p, Len(t) = q
  PROVE  /\ s \o t \in Seq(T) /\ Len(s \o t) = p + q
         /\ \A j \in 1 .. p + q : (s \o t)[j] = IF j <= p THEN s[j] ELSE t[j - p]
BY ConcatProperties

(* A sequence is determined by its length and its elements. *)
LEMMA SameSequence ==
  ASSUME NEW T, NEW s \in Seq(T), NEW N \in Nat, NEW t, Len(s) = N,
         t = [j \in 1 .. N |-> t[j]], \A j \in 1 .. N : t[j] = s[j]
  PROVE  t = s
<1>1. s = [j \in 1 .. N |-> s[j]]
  BY LenProperties
<1> QED  BY <1>1

(* The values of a list are a sequence. *)
LEMMA ValuesOfList ==
  ASSUME NEW l \in GoodLists
  PROVE  /\ ValuesOf(l) \in [1 .. l.size -> Contents] /\ Len(ValuesOf(l)) = l.size
         /\ l.size \in Nat /\ ValuesOf(l) = [j \in 1 .. l.size |-> ValuesOf(l)[j]]
         /\ \A j \in 1 .. l.size : ValuesOf(l)[j] = Items(l)[j][2]
<1>1. l.size \in Nat /\ Items(l) \in [1 .. l.size -> Slots \X Contents]
  BY ItemsOfList
<1>2. \A j \in 1 .. l.size : Items(l)[j][2] \in Contents
  BY <1>1
<1>3. /\ ValuesOf(l) \in [1 .. l.size -> Contents]
      /\ ValuesOf(l) = [j \in 1 .. l.size |-> ValuesOf(l)[j]]
      /\ \A j \in 1 .. l.size : ValuesOf(l)[j] = Items(l)[j][2]
  BY <1>2 DEF ValuesOf
<1>4. Len(ValuesOf(l)) = l.size
  BY <1>1, <1>3
<1> QED  BY <1>1, <1>3, <1>4

(* insert, on the values. *)
LEMMA InsertedValues ==
  ASSUME NEW l \in GoodLists, NEW N \in Nat, NEW items \in [1 .. N -> Values],
         NEW pos \in Positions(l), l.size + N <= MAXIMUM_SIZE
  PROVE  LET k == Rank(l, pos) r == insert_internal(l, pos, items) s == ValuesOf(l) IN
         /\ ValuesOf(r.list) = SubSeq(s, 1, k) \o items \o SubSeq(s, k + 1, Len(s))
         /\ items # << >> => Rank(r.list, r.ret) = k
<1> DEFINE s == ValuesOf(l)
           r == insert_internal(l, pos, items)
<1>1. l \in ListObjects /\ l.size \in Nat
  BY ListFields DEF GoodLists
<1>2. PICK e : Order(l, e)
  BY ChainHasOrder DEF GoodLists
<1>3. PICK i \in 1 .. l.size + 1 : pos = e[i]
  BY <1>1, <1>2, PositionHasPlace DEF Positions
<1> DEFINE k == i - 1
<1>4. k \in 0 .. l.size /\ k + 1 = i /\ k \in Nat
  BY <1>1
<1>5. Rank(l, pos) = k
  BY <1>2, <1>3, RankOfPlace
<1> HIDE DEF k
<1>6. Filling(l, k, pos, l)
  BY <1>2, <1>3, <1>4, FillingStarts
<1> DEFINE m == r.list
<1>7. /\ m \in GoodLists /\ m.size = l.size + N /\ Filled(l, k, m)
      /\ \A j \in 1 .. N : Items(m)[k + j][2] = items[j]
      /\ N > 0 => Items(m)[k + 1][1] = r.ret
  BY <1>4, <1>6, InsertIsExact
<1> HIDE DEF r, m
<1>8. /\ s \in [1 .. l.size -> Contents] /\ Len(s) = l.size
      /\ \A j \in 1 .. l.size : s[j] = Items(l)[j][2]
      /\ ValuesOf(m) = [j \in 1 .. l.size + N |-> ValuesOf(m)[j]]
      /\ \A j \in 1 .. l.size + N : ValuesOf(m)[j] = Items(m)[j][2]
  BY <1>7, ValuesOfList
<1> HIDE DEF s
<1> DEFINE L == l.size
           a == SubSeq(s, 1, k)
           b == SubSeq(s, k + 1, L)
<1>9. /\ a \in Seq(Contents) /\ Len(a) = k /\ (\A j \in 1 .. k : a[j] = s[j])
      /\ b \in Seq(Contents) /\ Len(b) = L - k
      /\ \A j \in 1 .. L - k : b[j] = s[k + j]
  <2>1. L \in Nat /\ s \in [1 .. L -> Contents] /\ k \in 0 .. L
    BY <1>1, <1>4, <1>8
  <2> HIDE DEF L
  <2> QED  BY <2>1, PartsOfSequence
<1> HIDE DEF a, b
<1>10. items \in Seq(Contents) /\ Len(items) = N
  <2>1. items \in Seq(Values) /\ Len(items) = N
    OBVIOUS
  <2>2. items \in [1 .. N -> Contents]
    BY DEF Contents
  <2> QED  BY <2>1, <2>2
<1>11. /\ a \o items \in Seq(Contents) /\ Len(a \o items) = k + N
       /\ \A j \in 1 .. k + N : (a \o items)[j] = IF j <= k THEN a[j] ELSE items[j - k]
  BY <1>9, <1>10, ConcatProperties
<1> DEFINE c == a \o items
<1>12. /\ c \o b \in Seq(Contents) /\ Len(c \o b) = k + N + (l.size - k)
       /\ \A j \in 1 .. k + N + (l.size - k) :
            (c \o b)[j] = IF j <= k + N THEN c[j] ELSE b[j - (k + N)]
  <2>1. c \in Seq(Contents) /\ Len(c) = k + N
    BY <1>11
  <2> HIDE DEF c, L
  <2>2. /\ c \o b \in Seq(Contents) /\ Len(c \o b) = k + N + (L - k)
        /\ \A j \in 1 .. k + N + (L - k) :
             (c \o b)[j] = IF j <= k + N THEN c[j] ELSE b[j - (k + N)]
    BY <1>9, <2>1, Joined
  <2> QED  BY <2>2 DEF L
<1> HIDE DEF c
<1>13. \A j \in 1 .. l.size + N : (c \o b)[j] = Items(m)[j][2]
  <2> SUFFICES ASSUME NEW j \in 1 .. l.size + N PROVE (c \o b)[j] = Items(m)[j][2]
    OBVIOUS
  <2>1. j \in 1 .. k + N + (l.size - k)
    BY <1>1, <1>4
  <2>2. CASE j <= k
    <3>1. j <= k + N /\ j \in 1 .. k + N /\ j \in 1 .. k /\ j \in 1 .. l.size
      BY <1>1, <1>4, <2>2
    <3>2. (c \o b)[j] = s[j]
      BY <1>9, <1>11, <1>12, <2>1, <2>2, <3>1 DEF c
    <3> QED  BY <1>7, <1>8, <3>1, <3>2 DEF Filled
  <2>3. CASE ~(j <= k) /\ j <= k + N
    <3>1. j \in 1 .. k + N /\ j - k \in 1 .. N /\ k + (j - k) = j
      BY <1>1, <1>4, <2>3
    <3>2. (c \o b)[j] = items[j - k]
      BY <1>11, <1>12, <2>1, <2>3, <3>1 DEF c
    <3> QED  BY <1>7, <3>1, <3>2
  <2>4. CASE ~(j <= k + N)
    <3>1. /\ j - (k + N) \in 1 .. l.size - k /\ k + (j - (k + N)) = j - N
          /\ j - N \in k + 1 .. l.size /\ j - N \in 1 .. l.size
          /\ m.size - l.size = N /\ (j - N) + N = j
      <4>1. m.size - l.size = N
        BY <1>1, <1>7
      <4>2. L \in Nat /\ k \in 0 .. L /\ j \in 1 .. L + N
        BY <1>1, <1>4
      <4> HIDE DEF L
      <4>3. /\ j - (k + N) \in 1 .. L - k /\ k + (j - (k + N)) = j - N
            /\ j - N \in k + 1 .. L /\ j - N \in 1 .. L /\ (j - N) + N = j
        BY <2>4, <4>2
      <4> QED  BY <4>1, <4>3 DEF L
    <3>2. (c \o b)[j] = s[j - N]
      BY <1>9, <1>12, <2>1, <2>4, <3>1
    <3>3. Items(m)[(j - N) + (m.size - l.size)] = Items(l)[j - N]
      BY <1>7, <3>1 DEF Filled
    <3> QED  BY <1>8, <3>1, <3>2, <3>3
  <2> QED  BY <2>2, <2>3, <2>4
<1>14. k + N + (l.size - k) = l.size + N /\ l.size + N \in Nat
  BY <1>1, <1>4
<1>15. ValuesOf(m) = c \o b
  <2> DEFINE P == l.size + N
             q == c \o b
             t == ValuesOf(m)
  <2>1. /\ P \in Nat /\ q \in Seq(Contents) /\ Len(q) = P /\ t = [j \in 1 .. P |-> t[j]]
        /\ \A j \in 1 .. P : t[j] = q[j]
    BY <1>8, <1>12, <1>13, <1>14
  <2> HIDE DEF P, q, t
  <2>2. t = q
    BY <2>1, SameSequence
  <2> QED  BY <2>2 DEF q, t
<1>16. ASSUME items # << >> PROVE Rank(m, r.ret) = k
  <2>1. N > 0
    BY <1>16
  <2>2. PICK h : Order(m, h)
    BY <1>7, ChainHasOrder DEF GoodLists
  <2>3. m \in ListObjects /\ k + 1 \in 1 .. m.size /\ k + 1 \in 1 .. m.size + 1 /\ (k + 1) - 1 = k
    BY <1>1, <1>4, <1>7, <2>1 DEF GoodLists
  <2>4. Items(m)[k + 1] = <<h[k + 1], m.storage.array[h[k + 1]]>>
    BY <2>2, <2>3, ItemAt
  <2>5. r.ret = h[k + 1]
    BY <1>7, <2>1, <2>4
  <2> QED  BY <1>7, <2>2, <2>3, <2>5, RankOfPlace
<1> QED  BY <1>5, <1>8, <1>15, <1>16 DEF a, b, c, m, r, s

(* erase(first, last), on the values. *)
LEMMA ErasedValues ==
  ASSUME NEW l \in GoodLists, NEW first \in Positions(l), NEW last \in WalkFrom(l, first)
  PROVE  LET s == ValuesOf(l) IN
         ValuesOf(erase(l, first, last)) =
           SubSeq(s, 1, Rank(l, first)) \o SubSeq(s, Rank(l, last) + 1, Len(s))
<1> DEFINE s == ValuesOf(l)
           L == l.size
           m == erase(l, first, last)
<1>1. l \in ListObjects /\ L \in Nat
  BY ListFields DEF GoodLists
<1>2. PICK e : Order(l, e)
  BY ChainHasOrder DEF GoodLists
<1>3. PICK i \in 1 .. L + 1 : first = e[i]
  BY <1>1, <1>2, PositionHasPlace DEF Positions
<1>4. PICK j \in i .. L + 1 : last = e[j]
  <2>1. WalkFrom(l, e[i]) = {e[j] : j \in i .. L + 1}
    BY <1>1, <1>2, WalkIsSuffix
  <2> QED  BY <1>3, <2>1
<1> DEFINE k == i - 1
           n == j - 1
<1>5. Rank(l, first) = k /\ Rank(l, last) = n
  <2>1. j \in 1 .. L + 1
    BY <1>1
  <2>2. Rank(l, e[i]) = i - 1 /\ Rank(l, e[j]) = j - 1
    BY <1>2, <2>1, RankOfPlace
  <2> QED  BY <1>3, <1>4, <2>2
<1>6. m \in GoodLists /\ Erased(l, i, j - i, m)
  BY <1>2, <1>3, <1>4, EraseIsExact
<1> HIDE DEF m
<1>7. /\ s \in [1 .. L -> Contents] /\ Len(s) = L
      /\ \A x \in 1 .. L : s[x] = Items(l)[x][2]
      /\ ValuesOf(m) = [x \in 1 .. m.size |-> ValuesOf(m)[x]] /\ m.size \in Nat
      /\ \A x \in 1 .. m.size : ValuesOf(m)[x] = Items(m)[x][2]
  BY <1>6, ValuesOfList
<1>8. /\ m.size = L - (j - i) /\ (\A x \in 1 .. i - 1 : Items(m)[x] = Items(l)[x])
      /\ \A x \in i .. m.size : Items(m)[x] = Items(l)[x + (j - i)]
  BY <1>6 DEF Erased
<1> DEFINE a == SubSeq(s, 1, k)
           b == SubSeq(s, n + 1, L)
           t == ValuesOf(m)
           N == m.size
<1> HIDE DEF s, L, t, N
<1>9. k \in 0 .. L /\ n \in 0 .. L /\ N = k + (L - n) /\ N \in Nat /\ k \in Nat
  BY <1>1, <1>7, <1>8 DEF N
<1> HIDE DEF a, b
<1>10. /\ a \in Seq(Contents) /\ Len(a) = k /\ (\A x \in 1 .. k : a[x] = s[x])
       /\ b \in Seq(Contents) /\ Len(b) = L - n /\ \A x \in 1 .. L - n : b[x] = s[n + x]
  <2> HIDE DEF k, n
  <2>1. L \in Nat /\ s \in [1 .. L -> Contents]
    BY <1>1, <1>7
  <2>2. a \in Seq(Contents) /\ Len(a) = k /\ \A x \in 1 .. k : a[x] = s[x]
    BY <1>9, <2>1, PartsOfSequence DEF a
  <2>3. b \in Seq(Contents) /\ Len(b) = L - n /\ \A x \in 1 .. L - n : b[x] = s[n + x]
    BY <1>9, <2>1, PartsOfSequence DEF b
  <2> QED  BY <2>2, <2>3
<1> DEFINE c == a \o b
<1>11. /\ c \in Seq(Contents) /\ Len(c) = N
       /\ \A x \in 1 .. N : c[x] = IF x <= k THEN a[x] ELSE b[x - k]
  <2> HIDE DEF k, n
  <2>1. /\ a \o b \in Seq(Contents) /\ Len(a \o b) = k + (L - n)
        /\ \A x \in 1 .. k + (L - n) : (a \o b)[x] = IF x <= k THEN a[x] ELSE b[x - k]
    BY <1>10, Joined
  <2> QED  BY <1>9, <2>1
<1> HIDE DEF c
<1>12. \A x \in 1 .. N : t[x] = c[x]
  <2> SUFFICES ASSUME NEW x \in 1 .. N PROVE t[x] = c[x]
    OBVIOUS
  <2>1. t[x] = Items(m)[x][2]
    BY <1>7 DEF t, N
  <2>2. CASE x <= k
    <3>1. x \in 1 .. k /\ x \in 1 .. i - 1 /\ x \in 1 .. L
      BY <1>1, <1>9, <2>2
    <3>2. c[x] = s[x]
      BY <1>10, <1>11, <2>2, <3>1
    <3> QED  BY <1>7, <1>8, <2>1, <3>1, <3>2
  <2>3. CASE ~(x <= k)
    <3>1. /\ x - k \in 1 .. L - n /\ n + (x - k) = x + (j - i) /\ x + (j - i) \in 1 .. L
          /\ x \in i .. N
      BY <1>1, <1>9, <2>3
    <3>2. c[x] = s[x + (j - i)]
      BY <1>10, <1>11, <2>3, <3>1
    <3>3. Items(m)[x] = Items(l)[x + (j - i)]
      BY <1>8, <3>1 DEF N
    <3> QED  BY <1>7, <2>1, <3>1, <3>2, <3>3
  <2> QED  BY <2>2, <2>3
<1>13. t = [x \in 1 .. N |-> t[x]]
  BY <1>7 DEF t, N
<1>14. t = c
  BY <1>9, <1>11, <1>12, <1>13, SameSequence
<1>15. Len(s) = L
  BY <1>7
<1> HIDE DEF k, n
<1> QED  BY <1>5, <1>14, <1>15 DEF a, b, c, t, m, s

(* resize(count, v), on the values. *)
LEMMA ResizedValues ==
  ASSUME NEW l \in GoodLists, NEW count \in Nat, count <= MAXIMUM_SIZE, NEW v \in Values
  PROVE  LET s == ValuesOf(l) IN
         ValuesOf(resize(l, count, v)) =
           [k \in 1 .. count |-> IF k <= Len(s) THEN s[k] ELSE v]
<1> DEFINE m == resize(l, count, v)
<1>1. m \in GoodLists /\ m.size = count /\ Resized(l, count, v, m)
  BY ResizeKeepsGood
<1> HIDE DEF m
<1>2. /\ Len(ValuesOf(l)) = l.size /\ l.size \in Nat
      /\ \A k \in 1 .. l.size : ValuesOf(l)[k] = Items(l)[k][2]
  BY ValuesOfList
<1>3. \A k \in 1 .. count : k <= l.size => k \in 1 .. l.size
  BY <1>2
<1>4. \A k \in 1 .. count :
        Items(m)[k][2] = IF k <= l.size THEN ValuesOf(l)[k] ELSE v
  BY <1>1, <1>2, <1>3 DEF Resized
<1>5. ValuesOf(m) = [k \in 1 .. count |-> Items(m)[k][2]]
  BY <1>1 DEF ValuesOf
<1> QED  BY <1>2, <1>4, <1>5 DEF m

(* The parts of OperationsAreExact, for one list. *)
LEMMA InsertOfRange ==
  ASSUME NEW l \in GoodLists, NEW items \in Ranges, NEW pos \in Positions(l),
         l.size + Len(items) <= MAXIMUM_SIZE
  PROVE  LET k == Rank(l, pos) r == insert_internal(l, pos, items) s == ValuesOf(l) IN
         /\ ValuesOf(r.list) = SubSeq(s, 1, k) \o items \o SubSeq(s, k + 1, Len(s))
         /\ items # << >> => Rank(r.list, r.ret) = k
<1>1. Len(items) \in Nat /\ items \in [1 .. Len(items) -> Values]
  BY RangesHaveLength
<1> QED  BY <1>1, InsertedValues

LEMMA RemovedAndResized ==
  ASSUME NEW l \in GoodLists, NEW v \in Values
  PROVE  LET r == remove_if(l, {v}) s == ValuesOf(l) IN
         /\ ValuesOf(r.list) = Without(s, v)
         /\ r.removed = l.size - r.list.size
         /\ \A n \in 0 .. MAXIMUM_SIZE :
              ValuesOf(resize(l, n, v)) = [k \in 1 .. n |-> IF k <= Len(s) THEN s[k] ELSE v]
<1>1. \A n \in 0 .. MAXIMUM_SIZE : n \in Nat /\ n <= MAXIMUM_SIZE
  BY MaximumSizeIsNat
<1>2. \A n \in 0 .. MAXIMUM_SIZE :
        ValuesOf(resize(l, n, v)) =
          [k \in 1 .. n |-> IF k <= Len(ValuesOf(l)) THEN ValuesOf(l)[k] ELSE v]
  BY <1>1, ResizedValues
<1>3. remove_if(l, {v}).removed = l.size - remove_if(l, {v}).list.size
  BY RemoveIfKeepsGood
<1>4. ValuesOf(remove_if(l, {v}).list) = Without(ValuesOf(l), v)
  BY RemoveIsExact
<1> QED  BY <1>2, <1>3, <1>4

(* Whatever the capacity, the value type and the history of calls that     *)
(* recycled the cells: insert puts its range in front of the position and  *)
(* returns the first new element, erase takes out exactly the range it is  *)
(* given, remove exactly the elements that equal the value, whose number   *)
(* it returns, resize keeps a prefix and appends copies of the value; and  *)
(* the pool is full exactly when size() is the capacity.                   *)
THEOREM ListOperationsAreExact == ListSpec => []OperationsAreExact
<1>1. ListInv => OperationsAreExact
  <2> SUFFICES ASSUME ListInv, NEW o \in Objects, Alive(o)
               PROVE  LET l == lists[o] s == ValuesOf(l)
                          Front(k) == SubSeq(s, 1, k)
                          Rest(k) == SubSeq(s, k + 1, Len(s))
                      IN
        /\ full(l.storage) <=> l.size = MAXIMUM_SIZE
        /\ \A pos \in Positions(l), items \in Ranges : l.size + Len(items) <= MAXIMUM_SIZE =>
             LET k == Rank(l, pos) r == insert_internal(l, pos, items) IN
             /\ ValuesOf(r.list) = Front(k) \o items \o Rest(k)
             /\ items # << >> => Rank(r.list, r.ret) = k
        /\ \A first \in Positions(l) : \A last \in WalkFrom(l, first) :
             ValuesOf(erase(l, first, last)) = Front(Rank(l, first)) \o Rest(Rank(l, last))
        /\ \A v \in Values :
             LET r == remove_if(l, {v}) IN
             /\ ValuesOf(r.list) = Without(s, v)
             /\ r.removed = l.size - r.list.size
             /\ \A n \in 0 .. MAXIMUM_SIZE :
                  ValuesOf(resize(l, n, v)) =
                    [k \in 1 .. n |-> IF k <= Len(s) THEN s[k] ELSE v]
    BY DEF OperationsAreExact, HasRoomFor
  <2> DEFINE l == lists[o]
  <2>1. l \in GoodLists
    BY DEF ListInv
  <2> HIDE DEF l
  <2>2. full(l.storage) <=> l.size = MAXIMUM_SIZE
    BY <2>1, FullMeansMaximumSize
  <2>3. \A pos \in Positions(l), items \in Ranges : l.size + Len(items) <= MAXIMUM_SIZE =>
          LET k == Rank(l, pos) r == insert_internal(l, pos, items) s == ValuesOf(l) IN
          /\ ValuesOf(r.list) = SubSeq(s, 1, k) \o items \o SubSeq(s, k + 1, Len(s))
          /\ items # << >> => Rank(r.list, r.ret) = k
    BY <2>1, InsertOfRange
  <2>4. \A first \in Positions(l) : \A last \in WalkFrom(l, first) :
          LET s == ValuesOf(l) IN
          ValuesOf(erase(l, first, last)) =
            SubSeq(s, 1, Rank(l, first)) \o SubSeq(s, Rank(l, last) + 1, Len(s))
    BY <2>1, ErasedValues
  <2>5. \A v \in Values :
          LET r == remove_if(l, {v}) s == ValuesOf(l) IN
          /\ ValuesOf(r.list) = Without(s, v)
          /\ r.removed = l.size - r.list.size
          /\ \A n \in 0 .. MAXIMUM_SIZE :
               ValuesOf(resize(l, n, v)) = [k \in 1 .. n |-> IF k <= Len(s) THEN s[k] ELSE v]
    BY <2>1, RemovedAndResized
  <2> QED  BY <2>2, <2>3, <2>4, <2>5, Zenon DEF l
<1> QED  BY <1>1, ListInvHolds, PTL
=============================================================================
