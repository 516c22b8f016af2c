---------------------- MODULE FixedUnorderedMapProofs ----------------------
(***************************************************************************)
(* Proofs about FixedUnorderedMap for every capacity, bucket count, hash   *)
(* function, and set of keys and of maps: the buckets match the entries,   *)
(* lookups are exact, the probing loops end, the loops of erase_range and  *)
(* erase_if erase what exists, operator== compares entries, and a map is   *)
(* an insertion-ordered dictionary.                                        *)
(*                                                                         *)
(* The argument goes from the inside out: words and the circle of buckets; *)
(* what place_and_shift_up and erase_bucket do to it; what a lookup finds  *)
(* in it; tables; maps and the loops that erase from them.                 *)
(*                                                                         *)
(* The theorems are about clients that do not clear() a map they moved     *)
(* from (~ClearMovedFrom).                                                 *)
(***************************************************************************)
EXTENDS FixedUnorderedMap, DoublyLinkedListOpsProofs

-----------------------------------------------------------------------------
(* The remainder of a number that is less than three cycles. *)
LEMMA RemainderOfCycles ==
  ASSUME NEW n \in Nat, n > 0, NEW r \in 0 .. n - 1
  PROVE  r % n = r /\ (r + n) % n = r /\ (r + 2 * n) % n = r
<1>1. r % n = r
  OBVIOUS
<1>2. (r + n) % n = r
  OBVIOUS
<1>3. (r + 2 * n) % n = r
  OBVIOUS
<1> QED  BY <1>1, <1>2, <1>3

(* A remainder is less than its divisor. *)
LEMMA RemainderInRange ==
  ASSUME NEW n \in Nat, n > 0, NEW a \in Nat
  PROVE  a % n \in 0 .. n - 1
OBVIOUS

(* The sizes of the table and of the words. *)
LEMMA TableSizes ==
  /\ INTERNAL_TABLE_SIZE \in Nat /\ INTERNAL_TABLE_SIZE > 0
  /\ INTERNAL_TABLE_SIZE <= MAX_NUM_BUCKETS /\ MAX_NUM_BUCKETS > 1
  /\ MAX_NUM_BUCKETS \in Nat /\ DIST_INC \in Nat /\ DIST_INC > 0
  /\ MAXIMUM_SIZE \in Nat /\ MAXIMUM_SIZE <= INTERNAL_TABLE_SIZE
BY BucketCountFits DEF INTERNAL_TABLE_SIZE

(* Buckets are numbered in a circle: counted from any one of them, each    *)
(* bucket has one place in 0 .. INTERNAL_TABLE_SIZE - 1.                   *)
LEMMA Circle ==
  ASSUME NEW loc \in BucketIndices
  PROVE  /\ Ahead(loc, 0) = loc /\ Ahead(loc, INTERNAL_TABLE_SIZE) = loc
         /\ Ahead(loc, 2 * INTERNAL_TABLE_SIZE) = loc
         /\ \A i \in 0 .. INTERNAL_TABLE_SIZE : Ahead(loc, i) \in BucketIndices
         /\ \A i, j \in BucketIndices : Ahead(loc, i) = Ahead(loc, j) => i = j
         /\ \A b \in BucketIndices : \E i \in BucketIndices : b = Ahead(loc, i)
<1> DEFINE N == INTERNAL_TABLE_SIZE
<1>1. N \in Nat /\ N > 0 /\ loc \in 0 .. N - 1
  BY TableSizes DEF BucketIndices
<1>2. ASSUME NEW i \in 0 .. N
      PROVE  Ahead(loc, i) = IF loc + i < N THEN loc + i ELSE loc + i - N
  <2>1. CASE loc + i < N
    <3>1. loc + i \in 0 .. N - 1
      BY <1>1, <2>1
    <3> QED  BY <1>1, <2>1, <3>1, RemainderOfCycles DEF Ahead
  <2>2. CASE ~(loc + i < N)
    <3>1. loc + i - N \in 0 .. N - 1 /\ (loc + i - N) + N = loc + i
      BY <1>1, <2>2
    <3>2. ((loc + i - N) + N) % N = loc + i - N
      BY <1>1, <3>1, RemainderOfCycles
    <3> QED  BY <1>1, <2>2, <3>1, <3>2 DEF Ahead
  <2> QED  BY <2>1, <2>2
<1>3. Ahead(loc, 2 * N) = loc
  BY <1>1, RemainderOfCycles DEF Ahead
<1> HIDE DEF N
<1>4. /\ Ahead(loc, 0) = loc /\ Ahead(loc, N) = loc
      /\ \A i \in 0 .. N : Ahead(loc, i) \in 0 .. N - 1
      /\ \A i, j \in 0 .. N - 1 : Ahead(loc, i) = Ahead(loc, j) => i = j
  BY <1>1, <1>2
<1>5. ASSUME NEW b \in 0 .. N - 1 PROVE \E i \in 0 .. N - 1 : b = Ahead(loc, i)
  <2> DEFINE i == IF loc <= b THEN b - loc ELSE b - loc + N
  <2>1. i \in 0 .. N - 1 /\ b = Ahead(loc, i)
    BY <1>1, <1>2
  <2> QED  BY <2>1
<1> QED  BY <1>3, <1>4, <1>5 DEF N, BucketIndices

(* The neighbours in front of and behind the i-th bucket. *)
LEMMA Neighbours ==
  ASSUME NEW loc \in BucketIndices
  PROVE  /\ \A i \in 0 .. INTERNAL_TABLE_SIZE - 1 : Ahead(Ahead(loc, i), 1) = Ahead(loc, i + 1)
         /\ \A i \in 1 .. INTERNAL_TABLE_SIZE :
              Ahead(Ahead(loc, i), INTERNAL_TABLE_SIZE - 1) = Ahead(loc, i - 1)
         /\ \A k \in 0 .. INTERNAL_TABLE_SIZE :
              Ahead(loc, k + INTERNAL_TABLE_SIZE) = Ahead(loc, k)
<1> DEFINE N == INTERNAL_TABLE_SIZE
<1>1. N \in Nat /\ N > 0 /\ loc \in 0 .. N - 1
  BY TableSizes DEF BucketIndices
<1>2. ASSUME NEW x \in 0 .. N - 1, NEW i \in 0 .. N
      PROVE  Ahead(x, i) = IF x + i < N THEN x + i ELSE x + i - N
  <2>1. CASE x + i < N
    <3>1. x + i \in 0 .. N - 1
      BY <1>1, <2>1
    <3> QED  BY <1>1, <2>1, <3>1, RemainderOfCycles DEF Ahead
  <2>2. CASE ~(x + i < N)
    <3>1. x + i - N \in 0 .. N - 1 /\ (x + i - N) + N = x + i
      BY <1>1, <2>2
    <3>2. ((x + i - N) + N) % N = x + i - N
      BY <1>1, <3>1, RemainderOfCycles
    <3> QED  BY <1>1, <2>2, <3>1, <3>2 DEF Ahead
  <2> QED  BY <2>1, <2>2
<1>3. ASSUME NEW k \in 0 .. N PROVE Ahead(loc, k + N) = Ahead(loc, k)
  <2>1. CASE loc + k < N
    <3>1. loc + k \in 0 .. N - 1 /\ loc + (k + N) = (loc + k) + N
      BY <1>1, <2>1
    <3>2. ((loc + k) + N) % N = loc + k /\ (loc + k) % N = loc + k
      BY <1>1, <3>1, RemainderOfCycles
    <3> QED  BY <3>1, <3>2 DEF Ahead
  <2>2. CASE ~(loc + k < N)
    <3>1. /\ loc + k - N \in 0 .. N - 1 /\ loc + (k + N) = (loc + k - N) + 2 * N
          /\ loc + k = (loc + k - N) + N
      BY <1>1, <2>2
    <3> DEFINE r == loc + k - N
    <3>2. (r + N) % N = r /\ (r + 2 * N) % N = r
      BY <1>1, <3>1, RemainderOfCycles
    <3> QED  BY <3>1, <3>2 DEF Ahead
  <2> QED  BY <2>1, <2>2
<1>4. Ahead(loc, 0) = loc
  BY <1>1, <1>2
<1> HIDE DEF N
<1>5. ASSUME NEW i \in 0 .. N - 1 PROVE Ahead(Ahead(loc, i), 1) = Ahead(loc, i + 1)
  <2>1. Ahead(loc, i) = IF loc + i < N THEN loc + i ELSE loc + i - N
    BY <1>1, <1>2
  <2>2. Ahead(loc, i + 1) = IF loc + i + 1 < N THEN loc + i + 1 ELSE loc + i + 1 - N
    BY <1>1, <1>2
  <2>3. Ahead(loc, i) \in 0 .. N - 1
    BY <1>1, <2>1
  <2>4. Ahead(Ahead(loc, i), 1) = IF Ahead(loc, i) + 1 < N THEN Ahead(loc, i) + 1
                                  ELSE Ahead(loc, i) + 1 - N
    BY <1>1, <1>2, <2>3
  <2> QED  BY <1>1, <2>1, <2>2, <2>4
<1>6. ASSUME NEW i \in 1 .. N PROVE Ahead(Ahead(loc, i), N - 1) = Ahead(loc, i - 1)
  <2>1. Ahead(loc, i) = IF loc + i < N THEN loc + i ELSE loc + i - N
    BY <1>1, <1>2
  <2>2. Ahead(loc, i - 1) = IF loc + i - 1 < N THEN loc + i - 1 ELSE loc + i - 1 - N
    BY <1>1, <1>2
  <2>3. Ahead(loc, i) \in 0 .. N - 1
    BY <1>1, <2>1
  <2>4. Ahead(Ahead(loc, i), N - 1) = IF Ahead(loc, i) + (N - 1) < N THEN Ahead(loc, i) + (N - 1)
                                  ELSE Ahead(loc, i) + (N - 1) - N
    BY <1>1, <1>2, <2>3
  <2> QED  BY <1>1, <2>1, <2>2, <2>4
<1> QED  BY <1>3, <1>5, <1>6 DEF N

-----------------------------------------------------------------------------
(* The word of the k-th probe before it wraps around. *)
Word(h, k) == DIST_INC + (h % DIST_INC) + k * DIST_INC

(* The words of the probes of a hash rise by one distance per probe. *)
LEMMA WordFacts ==
  ASSUME NEW h \in Nat
  PROVE  /\ \A k \in Nat : Word(h, k) \in Nat /\ Word(h, k) >= DIST_INC
         /\ \A k \in Nat : Word(h, k + 1) = Word(h, k) + DIST_INC
         /\ Word(h, 0) < 2 * DIST_INC
         /\ \A k \in Nat : k >= 1 => Word(h, k) >= 2 * DIST_INC
         /\ \A j, k \in Nat : j <= k => Word(h, j) <= Word(h, k)
         /\ \A j, k \in Nat : Word(h, j) = Word(h, k) => j = k
<1> DEFINE D == DIST_INC
           f == h % DIST_INC
<1>1. D \in Nat /\ D > 0 /\ f \in 0 .. D - 1
  BY TableSizes, RemainderInRange
<1>2. \A k \in Nat : k * D \in Nat /\ (k + 1) * D = k * D + D
  BY <1>1
<1>3. \A j, k \in Nat : j <= k => j * D <= k * D
  <2> SUFFICES ASSUME NEW j \in Nat, NEW k \in Nat, j <= k PROVE j * D <= k * D
    OBVIOUS
  <2> HIDE DEF D
  <2>1. k - j \in Nat /\ (k - j) * D \in Nat
    BY <1>1
  <2>2. (k - j) * D = k * D - j * D
    BY <1>1
  <2> QED  BY <1>1, <1>2, <2>1, <2>2
<1>4. \A j, k \in Nat : j < k => j * D + D <= k * D
  <2> SUFFICES ASSUME NEW j \in Nat, NEW k \in Nat, j < k PROVE (j + 1) * D <= k * D
    BY <1>2
  <2> QED  BY <1>3
<1>5. 0 * D = 0 /\ \A k \in Nat : k >= 1 => k * D >= D
  BY <1>1
<1> HIDE DEF D, f
<1>6. \A k \in Nat : Word(h, k) = D + f + k * D
  BY DEF Word, D, f
<1>7. \A k \in Nat : Word(h, k) \in Nat /\ Word(h, k) >= D
  BY <1>1, <1>2, <1>6
<1>8. \A k \in Nat : Word(h, k + 1) = Word(h, k) + D
  BY <1>1, <1>2, <1>6
<1>9. Word(h, 0) < 2 * D
  BY <1>1, <1>5, <1>6
<1>10. \A k \in Nat : k >= 1 => Word(h, k) >= 2 * D
  BY <1>1, <1>2, <1>5, <1>6
<1>11. \A j, k \in Nat : j <= k => Word(h, j) <= Word(h, k)
  BY <1>1, <1>2, <1>3, <1>6
<1>12. \A j, k \in Nat : Word(h, j) = Word(h, k) => j = k
  <2> SUFFICES ASSUME NEW j \in Nat, NEW k \in Nat, j < k PROVE Word(h, j) # Word(h, k)
    OBVIOUS
  <2> DEFINE x == j * D
             y == k * D
  <2>1. x \in Nat /\ y \in Nat /\ x + D <= y
    BY <1>2, <1>4
  <2>2. Word(h, j) = D + f + x /\ Word(h, k) = D + f + y
    BY <1>6
  <2> HIDE DEF x, y
  <2> QED  BY <1>1, <2>1, <2>2
<1> QED  BY <1>7, <1>8, <1>9, <1>10, <1>11, <1>12 DEF D

(* Up to MAX_NUM_BUCKETS no word wraps around.  One further the word is at *)
(* least as large as any that a table of fewer buckets holds, and it wraps *)
(* to the fingerprint alone in one with as many.                           *)
LEMMA ProbeWords ==
  ASSUME NEW h \in Nat
  PROVE  /\ \A k \in 0 .. MAX_NUM_BUCKETS - 1 :
              ProbeWord(h, k) = Word(h, k) /\ Word(h, k) < Words
         /\ \A k \in Nat : ProbeWord(h, k) \in 0 .. Words - 1
         /\ \A k \in 0 .. MAX_NUM_BUCKETS - 1 :
              ProbeWord(h, MAX_NUM_BUCKETS + 1 + k) = Word(h, k)
         /\ ProbeWord(h, MAX_NUM_BUCKETS) < DIST_INC
         /\ Words \in Nat /\ Words > 2 * DIST_INC
<1> DEFINE D == DIST_INC
           M == MAX_NUM_BUCKETS
           f == h % DIST_INC
<1>1. D \in Nat /\ D > 0 /\ f \in 0 .. D - 1 /\ M \in Nat /\ M > 1
  BY TableSizes, RemainderInRange
<1>2. Words = D * M + D /\ D * M \in Nat /\ D * M >= 2 * D
  BY <1>1 DEF Words
<1>3. \A k \in Nat : k * D \in Nat /\ (M + 1 + k) * D = (D * M + D) + k * D
  BY <1>1
<1>4. \A k \in 0 .. M - 1 : k * D + D <= D * M
  <2> SUFFICES ASSUME NEW k \in 0 .. M - 1 PROVE (k + 1) * D <= M * D
    BY <1>1
  <2>1. M - (k + 1) \in Nat /\ (M - (k + 1)) * D \in Nat
    BY <1>1
  <2>2. (M - (k + 1)) * D = M * D - (k + 1) * D
    BY <1>1
  <2> HIDE DEF M, D
  <2>3. M * D \in Int /\ (k + 1) * D \in Int
    BY <1>1
  <2> QED  BY <2>1, <2>2, <2>3
<1>5. M * D = D * M
  BY <1>1
<1> HIDE DEF D, f, M
<1>6. \A k \in Nat : Word(h, k) = D + f + k * D /\ ProbeWord(h, k) = Word(h, k) % Words
  BY DEF Word, ProbeWord, dist_and_fingerprint_from_hash, D, f
<1>7. Words \in Nat /\ Words > 2 * D
  BY <1>1, <1>2
<1>8. \A k \in Nat : Word(h, k) \in Nat
  BY <1>1, <1>3, <1>6
<1>9. \A k \in Nat : ProbeWord(h, k) \in 0 .. Words - 1
  BY <1>1, <1>6, <1>7, <1>8, RemainderInRange
<1>10. \A k \in 0 .. M - 1 : Word(h, k) \in 0 .. Words - 1
  <2> SUFFICES ASSUME NEW k \in 0 .. M - 1 PROVE Word(h, k) \in 0 .. Words - 1
    OBVIOUS
  <2> DEFINE x == k * D
             y == D * M
  <2>1. k \in Nat
    BY <1>1
  <2>2. x \in Nat /\ y \in Nat /\ x + D <= y /\ Words = y + D /\ Word(h, k) = D + f + x
    BY <1>2, <1>3, <1>4, <1>6, <2>1
  <2> HIDE DEF x, y
  <2> QED  BY <1>1, <2>2
<1>11. \A k \in 0 .. M - 1 : ProbeWord(h, k) = Word(h, k)
  <2> SUFFICES ASSUME NEW k \in 0 .. M - 1 PROVE ProbeWord(h, k) = Word(h, k)
    OBVIOUS
  <2>1. k \in Nat /\ Words > 0
    BY <1>1, <1>7
  <2> QED  BY <1>6, <1>7, <1>10, <2>1, RemainderOfCycles
<1>12. \A k \in 0 .. M - 1 : ProbeWord(h, M + 1 + k) = Word(h, k)
  <2> SUFFICES ASSUME NEW k \in 0 .. M - 1 PROVE ProbeWord(h, M + 1 + k) = Word(h, k)
    OBVIOUS
  <2>1. k \in Nat /\ Words > 0 /\ M + 1 + k \in Nat
    BY <1>1, <1>7
  <2>2. Word(h, M + 1 + k) = Word(h, k) + Words
    BY <1>1, <1>2, <1>3, <1>6, <2>1
  <2>3. (Word(h, k) + Words) % Words = Word(h, k)
    BY <1>7, <1>10, <2>1, RemainderOfCycles
  <2> QED  BY <1>6, <2>1, <2>2, <2>3
<1>13. ProbeWord(h, M) < D
  <2>1. Word(h, M) = f + Words /\ M \in Nat /\ Words > 0
    BY <1>1, <1>2, <1>5, <1>6, <1>7
  <2>2. f \in 0 .. Words - 1
    BY <1>1, <1>2
  <2>3. (f + Words) % Words = f
    BY <1>7, <2>1, <2>2, RemainderOfCycles
  <2> QED  BY <1>1, <1>6, <2>1, <2>3
<1> QED  BY <1>7, <1>9, <1>10, <1>11, <1>12, <1>13 DEF D, M

(* dist() tells whether a bucket is away from the home of its key. *)
LEMMA DistFacts ==
  ASSUME NEW b \in Buckets
  PROVE  dist(b) > 1 <=> b.dist_and_fingerprint >= 2 * DIST_INC
<1>1. DIST_INC \in Nat /\ DIST_INC > 0 /\ b.dist_and_fingerprint \in Nat
  BY TableSizes DEF Buckets
<1> QED  BY <1>1 DEF dist

-----------------------------------------------------------------------------
(* The word of a bucket, and the buckets that are occupied. *)
WordAt(bs, b) == bs[b].dist_and_fingerprint
Occupied(bs) == {b \in BucketIndices : WordAt(bs, b) # 0}

(* Every bucket is where the hash of its entry, hv, and its distance say.  *)
Placed(bs, hv) ==
  \A b \in Occupied(bs) : \E k \in BucketIndices :
    /\ b = ProbeLoc(hv[bs[b].value_index], k)
    /\ WordAt(bs, b) = Word(hv[bs[b].value_index], k)

(* No two buckets have one entry. *)
Distinct(bs) ==
  \A b, c \in Occupied(bs) : bs[b].value_index = bs[c].value_index => b = c

(* The words rise by at most one distance from a bucket to the next. *)
Ordered(bs) ==
  \A b \in BucketIndices : WordAt(bs, b) >= 2 * DIST_INC =>
    WordAt(bs, b) <= WordAt(bs, Ahead(b, INTERNAL_TABLE_SIZE - 1)) + DIST_INC

(* Not every bucket is away from its home.  The three conditions above     *)
(* also hold of a full circle of buckets that are all too far by one, in   *)
(* which a lookup would not end.                                           *)
SomeAtHome(bs) == \E b \in BucketIndices : WordAt(bs, b) < 2 * DIST_INC

(* What emplace and erase_bucket keep of the array of buckets. *)
GoodBuckets(bs, hv) ==
  /\ bs \in [BucketIndices -> Buckets] /\ hv \in [Links -> Nat]
  /\ Placed(bs, hv) /\ Distinct(bs) /\ Ordered(bs) /\ SomeAtHome(bs)

(* The probes of a hash begin at a bucket and go around. *)
LEMMA ProbeLocs ==
  ASSUME NEW h \in Nat
  PROVE  /\ bucket_index_from_hash(h) \in BucketIndices
         /\ \A k \in BucketIndices : ProbeLoc(h, k) \in BucketIndices
         /\ \A j, k \in BucketIndices : ProbeLoc(h, j) = ProbeLoc(h, k) => j = k
         /\ \A b \in BucketIndices : \E k \in BucketIndices : b = ProbeLoc(h, k)
         /\ \A k \in 1 .. INTERNAL_TABLE_SIZE :
              Ahead(ProbeLoc(h, k), INTERNAL_TABLE_SIZE - 1) = ProbeLoc(h, k - 1)
         /\ ProbeLoc(h, INTERNAL_TABLE_SIZE) = ProbeLoc(h, 0)
         /\ ProbeLoc(h, 2 * INTERNAL_TABLE_SIZE) = ProbeLoc(h, 0)
<1>1. h \div DIST_INC \in Nat
  BY TableSizes
<1>2. bucket_index_from_hash(h) \in BucketIndices
  BY <1>1, TableSizes, RemainderInRange DEF bucket_index_from_hash, BucketIndices
<1>3. \A k \in BucketIndices : k \in 0 .. INTERNAL_TABLE_SIZE
  BY TableSizes DEF BucketIndices
<1> QED  BY <1>2, <1>3, Circle, Neighbours DEF ProbeLoc

(* The words of an array are numbers. *)
LEMMA WordsAreNumbers ==
  ASSUME NEW bs \in [BucketIndices -> Buckets], NEW b \in BucketIndices
  PROVE  WordAt(bs, b) \in Nat /\ WordAt(bs, b) < Words /\ bs[b].value_index \in Links
         /\ bs[b] \in Buckets
<1>1. bs[b] \in Buckets
  OBVIOUS
<1>2. Words \in Nat
  BY TableSizes DEF Words
<1> QED  BY <1>1, <1>2 DEF WordAt, Buckets

(* A bucket that is at least as far as a probe hides no shorter one: going *)
(* back to the home of the probe, every bucket is at least as far as the   *)
(* probe was.                                                              *)
LEMMA RunsReachHome ==
  ASSUME NEW bs \in [BucketIndices -> Buckets], Ordered(bs), NEW h \in Nat,
         NEW k \in BucketIndices, WordAt(bs, ProbeLoc(h, k)) >= Word(h, k)
  PROVE  \A j \in 0 .. k : WordAt(bs, ProbeLoc(h, j)) >= Word(h, j)
<1> DEFINE N == INTERNAL_TABLE_SIZE
           S == {m \in 0 .. k : WordAt(bs, ProbeLoc(h, k - m)) >= Word(h, k - m)}
<1>1. N \in Nat /\ N > 0 /\ k \in 0 .. N - 1 /\ DIST_INC \in Nat
  BY TableSizes DEF BucketIndices
<1>2. 0 \in S
  BY <1>1
<1>3. ASSUME NEW m \in 1 .. k, m - 1 \in S PROVE m \in S
  <2> DEFINE j == k - m
  <2>1. /\ k - (m - 1) = j + 1 /\ j \in BucketIndices /\ j + 1 \in BucketIndices
        /\ j + 1 \in 1 .. N /\ (j + 1) - 1 = j /\ j \in Nat /\ j + 1 >= 1 /\ j + 1 \in Nat
    BY <1>1 DEF BucketIndices
  <2>2. WordAt(bs, ProbeLoc(h, j + 1)) >= Word(h, j + 1)
    BY <1>3, <2>1
  <2> HIDE DEF j
  <2>3. ProbeLoc(h, j) \in BucketIndices /\ ProbeLoc(h, j + 1) \in BucketIndices
    BY <2>1, ProbeLocs
  <2>4. WordAt(bs, ProbeLoc(h, j)) \in Nat /\ WordAt(bs, ProbeLoc(h, j + 1)) \in Nat
    BY <2>3, WordsAreNumbers
  <2>5. /\ Word(h, j + 1) = Word(h, j) + DIST_INC /\ Word(h, j) \in Nat
        /\ Word(h, j + 1) >= 2 * DIST_INC
    BY <2>1, WordFacts
  <2>6. Ahead(ProbeLoc(h, j + 1), N - 1) = ProbeLoc(h, j)
    BY <2>1, ProbeLocs
  <2>7. WordAt(bs, ProbeLoc(h, j + 1)) >= 2 * DIST_INC
    BY <1>1, <2>2, <2>4, <2>5
  <2>8. WordAt(bs, ProbeLoc(h, j + 1)) <= WordAt(bs, ProbeLoc(h, j)) + DIST_INC
    BY <2>3, <2>6, <2>7 DEF Ordered
  <2>9. WordAt(bs, ProbeLoc(h, j)) >= Word(h, j)
    BY <1>1, <2>2, <2>4, <2>5, <2>8
  <2>10. m \in 0 .. k
    BY <1>1
  <2> QED  BY <2>9, <2>10 DEF j
<1>4. k \in Nat
  BY <1>1
<1> HIDE DEF S
<1>5. \A m \in 0 .. k : m \in S
  BY <1>2, <1>3, <1>4, LoopInduction
<1>6. \A j \in 0 .. k : k - j \in 0 .. k /\ k - (k - j) = j
  BY <1>4
<1> QED  BY <1>5, <1>6 DEF S

(* An entry that is further from home than all buckets allow would fill    *)
(* the table.                                                              *)
LEMMA RoomToMove ==
  ASSUME NEW bs, NEW hv, GoodBuckets(bs, hv), NEW b \in Occupied(bs),
         \E c \in BucketIndices : WordAt(bs, c) = 0
  PROVE  LET h == hv[bs[b].value_index] IN
         \E k \in BucketIndices :
           /\ k + 1 \in BucketIndices /\ b = ProbeLoc(h, k) /\ WordAt(bs, b) = Word(h, k)
<1> DEFINE h == hv[bs[b].value_index]
           N == INTERNAL_TABLE_SIZE
<1>1. bs \in [BucketIndices -> Buckets] /\ hv \in [Links -> Nat] /\ Ordered(bs)
  BY DEF GoodBuckets
<1>2. b \in BucketIndices /\ h \in Nat
  BY <1>1, WordsAreNumbers DEF Occupied
<1>3. PICK k \in BucketIndices : b = ProbeLoc(h, k) /\ WordAt(bs, b) = Word(h, k)
  BY DEF GoodBuckets, Placed
<1>4. PICK c \in BucketIndices : WordAt(bs, c) = 0
  OBVIOUS
<1>5. PICK j \in BucketIndices : c = ProbeLoc(h, j)
  BY <1>2, ProbeLocs
<1> HIDE DEF h
<1>6. WordAt(bs, ProbeLoc(h, k)) >= Word(h, k)
  <2>1. k \in Nat
    BY TableSizes DEF BucketIndices
  <2>2. Word(h, k) \in Nat
    BY <1>2, <2>1, WordFacts
  <2>3. WordAt(bs, ProbeLoc(h, k)) = Word(h, k)
    BY <1>3
  <2> QED  BY <2>2, <2>3
<1>7. \A i \in 0 .. k : WordAt(bs, ProbeLoc(h, i)) >= Word(h, i)
  BY <1>1, <1>2, <1>6, RunsReachHome
<1>8. Word(h, j) >= DIST_INC /\ Word(h, j) \in Nat /\ DIST_INC \in Nat /\ DIST_INC > 0
  <2>1. j \in Nat
    BY TableSizes DEF BucketIndices
  <2> QED  BY <1>2, <2>1, TableSizes, WordFacts
<1>9. ~(j \in 0 .. k)
  BY <1>4, <1>5, <1>7, <1>8
<1>10. k + 1 \in BucketIndices
  BY <1>9, TableSizes DEF BucketIndices
<1> QED  BY <1>3, <1>10 DEF h

(* The loop of opaque_index_of ends: within one round, or, if the table is *)
(* full of buckets at least as far as the probe, when it comes past its    *)
(* home again, at the latest in the second round, after its word has       *)
(* wrapped around.                                                         *)
LEMMA ProbesEnd ==
  ASSUME NEW bs, NEW hv, GoodBuckets(bs, hv), NEW h \in Nat
  PROVE  /\ \E k \in Iterations : ProbeWord(h, k) > WordAt(bs, ProbeLoc(h, k))
         /\ (\E b \in BucketIndices : WordAt(bs, b) = 0) =>
              \E k \in BucketIndices : ProbeWord(h, k) > WordAt(bs, ProbeLoc(h, k))
<1> DEFINE N == INTERNAL_TABLE_SIZE
           M == MAX_NUM_BUCKETS
           D == DIST_INC
<1>1. /\ N \in Nat /\ N > 0 /\ N <= M /\ M \in Nat /\ M > 1 /\ D \in Nat /\ D > 0
      /\ BucketIndices = 0 .. N - 1 /\ Iterations = 0 .. 2 * N
  BY TableSizes DEF BucketIndices, Iterations
<1>2. bs \in [BucketIndices -> Buckets]
  BY DEF GoodBuckets
<1>3. \A k \in BucketIndices : /\ ProbeWord(h, k) = Word(h, k) /\ ProbeLoc(h, k) \in BucketIndices
                               /\ Word(h, k) \in Nat /\ Word(h, k) >= D
                               /\ WordAt(bs, ProbeLoc(h, k)) \in Nat
                               /\ k \in Iterations
  <2> SUFFICES ASSUME NEW k \in BucketIndices
               PROVE  /\ ProbeWord(h, k) = Word(h, k) /\ ProbeLoc(h, k) \in BucketIndices
                      /\ Word(h, k) \in Nat /\ Word(h, k) >= D
                      /\ WordAt(bs, ProbeLoc(h, k)) \in Nat
                      /\ k \in Iterations
    OBVIOUS
  <2>1. k \in 0 .. M - 1 /\ k \in Nat /\ k \in Iterations
    BY <1>1
  <2>2. ProbeLoc(h, k) \in BucketIndices
    BY ProbeLocs
  <2> QED  BY <1>2, <2>1, <2>2, ProbeWords, WordFacts, WordsAreNumbers
<1>4. CASE \E k \in BucketIndices : ProbeWord(h, k) > WordAt(bs, ProbeLoc(h, k))
  BY <1>3, <1>4
<1>5. CASE \A k \in BucketIndices : WordAt(bs, ProbeLoc(h, k)) >= Word(h, k)
  <2>1. \A b \in BucketIndices : WordAt(bs, b) # 0
    <3> SUFFICES ASSUME NEW b \in BucketIndices PROVE WordAt(bs, b) # 0
      OBVIOUS
    <3>1. PICK k \in BucketIndices : b = ProbeLoc(h, k)
      BY ProbeLocs
    <3> QED  BY <1>1, <1>3, <1>5, <3>1
  <2>2. PICK b \in BucketIndices : WordAt(bs, b) < 2 * D
    BY DEF GoodBuckets, SomeAtHome
  <2>3. PICK i \in BucketIndices : b = ProbeLoc(h, i)
    BY ProbeLocs
  <2>4. i = 0
    <3>1. i \in Nat /\ (i >= 1 => Word(h, i) >= 2 * D)
      BY <1>1, WordFacts
    <3>2. Word(h, i) < 2 * D
      BY <1>1, <1>3, <1>5, <2>2, <2>3
    <3> QED  BY <1>1, <1>3, <3>1, <3>2
  <2>5. WordAt(bs, ProbeLoc(h, 0)) < 2 * D /\ WordAt(bs, ProbeLoc(h, 0)) \in Nat
    BY <1>3, <2>2, <2>3, <2>4
  <2>6. \A k \in Nat : k >= 1 => Word(h, k) >= 2 * D /\ Word(h, k) \in Nat
    BY WordFacts
  <2>7. CASE N < M
    <3>1. N \in 0 .. M - 1 /\ N >= 1 /\ N \in Nat /\ N \in Iterations
      BY <1>1, <2>7
    <3>2. ProbeWord(h, N) = Word(h, N)
      BY <3>1, ProbeWords
    <3>3. ProbeLoc(h, N) = ProbeLoc(h, 0)
      BY ProbeLocs
    <3>4. Word(h, N) >= 2 * D /\ Word(h, N) \in Nat
      BY <2>6, <3>1
    <3> HIDE DEF N
    <3>5. ProbeWord(h, N) > WordAt(bs, ProbeLoc(h, N))
      BY <1>1, <2>5, <3>2, <3>3, <3>4
    <3> QED  BY <2>1, <3>1, <3>5
  <2>8. CASE N = M
    <3>1. N - 1 \in 0 .. M - 1 /\ N - 1 >= 1 /\ N - 1 \in Nat /\ M + 1 + (N - 1) = 2 * N
      BY <1>1, <2>8
    <3>2. ProbeWord(h, M + 1 + (N - 1)) = Word(h, N - 1)
      BY <3>1, ProbeWords
    <3>3. ProbeWord(h, 2 * N) = Word(h, N - 1)
      BY <3>1, <3>2
    <3>4. ProbeLoc(h, 2 * N) = ProbeLoc(h, 0)
      BY ProbeLocs
    <3>5. ProbeWord(h, 2 * N) > WordAt(bs, ProbeLoc(h, 2 * N)) /\ 2 * N \in Iterations
      BY <1>1, <2>5, <2>6, <3>1, <3>3, <3>4
    <3> QED  BY <2>1, <3>5
  <2> QED  BY <1>1, <2>7, <2>8
<1>6. \A k \in BucketIndices : ProbeWord(h, k) > WordAt(bs, ProbeLoc(h, k))
                               \/ WordAt(bs, ProbeLoc(h, k)) >= Word(h, k)
  BY <1>3
<1> QED  BY <1>4, <1>5, <1>6

-----------------------------------------------------------------------------
(* The numbers of buckets are distances that a word can hold. *)
LEMMA BucketNumbers ==
  ASSUME NEW k \in BucketIndices
  PROVE  /\ k \in Nat /\ k \in Iterations /\ k \in 0 .. MAX_NUM_BUCKETS - 1
         /\ k >= 0 /\ k < INTERNAL_TABLE_SIZE
         /\ \A j \in 0 .. k : j \in BucketIndices
BY TableSizes DEF BucketIndices, Iterations

(* The words of the buckets in use. *)
LEMMA OccupiedWords ==
  ASSUME NEW bs, NEW hv, GoodBuckets(bs, hv), NEW b \in Occupied(bs)
  PROVE  /\ b \in BucketIndices /\ bs[b].value_index \in Links
         /\ hv[bs[b].value_index] \in Nat
         /\ WordAt(bs, b) \in Nat /\ WordAt(bs, b) >= DIST_INC
<1>1. bs \in [BucketIndices -> Buckets] /\ hv \in [Links -> Nat] /\ b \in BucketIndices
  BY DEF GoodBuckets, Occupied
<1>2. bs[b].value_index \in Links
  BY <1>1, WordsAreNumbers
<1>3. hv[bs[b].value_index] \in Nat
  BY <1>1, <1>2
<1>4. PICK k \in BucketIndices : WordAt(bs, b) = Word(hv[bs[b].value_index], k)
  BY DEF GoodBuckets, Placed
<1>5. k \in Nat
  BY BucketNumbers
<1> QED  BY <1>1, <1>2, <1>3, <1>4, <1>5, WordFacts

(* The number of buckets that place_and_shift_up moves. *)
ShiftsUp(bs, loc) == FirstExit(LAMBDA k : IsEmptyAfter(bs, loc, k))

(* The loop of place_and_shift_up ends at the first empty bucket. *)
LEMMA FirstEmpty ==
  ASSUME NEW bs \in [BucketIndices -> Buckets], NEW loc \in BucketIndices,
         \E c \in BucketIndices : WordAt(bs, c) = 0,
         NEW e, e = ShiftsUp(bs, loc)
  PROVE  /\ e \in BucketIndices /\ WordAt(bs, Ahead(loc, e)) = 0
         /\ \A j \in 0 .. e - 1 : WordAt(bs, Ahead(loc, j)) # 0
         /\ \E k \in BucketIndices : IsEmptyAfter(bs, loc, k)
<1>1. PICK c \in BucketIndices : WordAt(bs, c) = 0
  OBVIOUS
<1>2. PICK i \in BucketIndices : c = Ahead(loc, i)
  BY Circle
<1> DEFINE S == {k \in BucketIndices : IsEmptyAfter(bs, loc, k)}
<1>3. i \in S /\ S \subseteq Nat
  BY <1>1, <1>2, BucketNumbers DEF IsEmptyAfter, WordAt
<1>4. PICK k \in S : \A y \in S : k <= y
  BY <1>3, LeastOfSet
<1>5. /\ k \in BucketIndices /\ k \in Iterations /\ IsEmptyAfter(bs, loc, k)
  BY <1>4, BucketNumbers
<1>6. \A j \in 0 .. k - 1 : ~IsEmptyAfter(bs, loc, j)
  <2> SUFFICES ASSUME NEW j \in 0 .. k - 1 PROVE j \notin S /\ j \in BucketIndices
    OBVIOUS
  <2>1. k \in Nat
    BY <1>3
  <2>2. j \in BucketIndices
    BY <1>5, <2>1, BucketNumbers
  <2> QED  BY <1>4, <2>1, <2>2
<1>7. e \in Iterations /\ IsEmptyAfter(bs, loc, e) /\ \A j \in 0 .. e - 1 : ~IsEmptyAfter(bs, loc, j)
  BY <1>5, <1>6 DEF ShiftsUp, FirstExit
<1>8. e <= k
  <2>1. ~(k \in 0 .. e - 1)
    BY <1>5, <1>7
  <2>2. e \in Int /\ k \in Nat
    BY <1>5, <1>7, TableSizes, BucketNumbers DEF Iterations
  <2> QED  BY <2>1, <2>2
<1>9. e \in BucketIndices
  BY <1>5, <1>7, <1>8, BucketNumbers DEF Iterations
<1> QED  BY <1>5, <1>7, <1>9 DEF IsEmptyAfter, WordAt

(* What place_and_shift_up writes, counted from the place of the bucket. *)
LEMMA ShiftUpShape ==
  ASSUME NEW bs \in [BucketIndices -> Buckets], NEW loc \in BucketIndices,
         \E c \in BucketIndices : WordAt(bs, c) = 0, NEW bucket
  PROVE  LET e   == ShiftsUp(bs, loc)
             bs2 == place_and_shift_up(bs, bucket, loc)
         IN  /\ DOMAIN bs2 = BucketIndices /\ bs2 = [b \in BucketIndices |-> bs2[b]]
             /\ bs2[Ahead(loc, 0)] = bucket
             /\ \A i \in 1 .. e : bs2[Ahead(loc, i)] = plus_dist(bs[Ahead(loc, i - 1)])
             /\ \A i \in e + 1 .. INTERNAL_TABLE_SIZE - 1 : bs2[Ahead(loc, i)] = bs[Ahead(loc, i)]
<1> DEFINE e   == ShiftsUp(bs, loc)
           bs2 == place_and_shift_up(bs, bucket, loc)
           N == INTERNAL_TABLE_SIZE
<1>1. e \in BucketIndices
  BY FirstEmpty
<1>2. bs2 = [b \in BucketIndices |->
         IF b = loc THEN bucket
         ELSE IF \E k \in 1 .. e : b = Ahead(loc, k)
              THEN plus_dist(bs[Ahead(b, N - 1)])
              ELSE bs[b]]
  BY DEF place_and_shift_up, ShiftsUp
<1> HIDE DEF e, bs2
<1>3. e \in 0 .. N - 1 /\ N \in Nat /\ N > 0 /\ 0 \in BucketIndices /\ BucketIndices = 0 .. N - 1
  BY <1>1, TableSizes DEF BucketIndices
<1>4. bs2[Ahead(loc, 0)] = bucket
  BY <1>2, Circle
<1>5. ASSUME NEW i \in 1 .. e PROVE bs2[Ahead(loc, i)] = plus_dist(bs[Ahead(loc, i - 1)])
  <2>1. i \in BucketIndices /\ i # 0 /\ i \in 1 .. N /\ i \in 0 .. N
    BY <1>3
  <2>2. Ahead(loc, i) \in BucketIndices /\ Ahead(loc, i) # loc
    <3>1. Ahead(loc, 0) = loc /\ \A x, y \in BucketIndices : Ahead(loc, x) = Ahead(loc, y) => x = y
      BY Circle
    <3>2. Ahead(loc, i) # Ahead(loc, 0)
      BY <1>3, <2>1, <3>1
    <3> QED  BY <2>1, <3>1, <3>2, Circle
  <2>3. Ahead(Ahead(loc, i), N - 1) = Ahead(loc, i - 1)
    BY <2>1, Neighbours
  <2> QED  BY <1>2, <2>2, <2>3
<1>6. ASSUME NEW i \in e + 1 .. N - 1 PROVE bs2[Ahead(loc, i)] = bs[Ahead(loc, i)]
  <2>1. i \in BucketIndices /\ i # 0 /\ i \in 1 .. N /\ i \in 0 .. N
    BY <1>3
  <2>2. Ahead(loc, i) \in BucketIndices /\ Ahead(loc, i) # loc
    <3>1. Ahead(loc, 0) = loc /\ \A x, y \in BucketIndices : Ahead(loc, x) = Ahead(loc, y) => x = y
      BY Circle
    <3>2. Ahead(loc, i) # Ahead(loc, 0)
      BY <1>3, <2>1, <3>1
    <3> QED  BY <2>1, <3>1, <3>2, Circle
  <2>3. \A k \in 1 .. e : k \in BucketIndices /\ k # i
    BY <1>3
  <2>4. ~ \E k \in 1 .. e : Ahead(loc, i) = Ahead(loc, k)
    BY <2>1, <2>3, Circle
  <2> QED  BY <1>2, <2>2, <2>4
<1> QED  BY <1>2, <1>4, <1>5, <1>6 DEF e, bs2

-----------------------------------------------------------------------------
(* The order of the words, counted from any bucket. *)
LEMMA OrderedFrom ==
  ASSUME NEW bs, NEW loc \in BucketIndices
  PROVE  Ordered(bs) <=>
           \A i \in 1 .. INTERNAL_TABLE_SIZE :
             WordAt(bs, Ahead(loc, i)) >= 2 * DIST_INC =>
               WordAt(bs, Ahead(loc, i)) <= WordAt(bs, Ahead(loc, i - 1)) + DIST_INC
<1> DEFINE N == INTERNAL_TABLE_SIZE
<1>1. N \in Nat /\ N > 0 /\ BucketIndices = 0 .. N - 1
  BY TableSizes DEF BucketIndices
<1>2. \A i \in 1 .. N : i \in 0 .. N
  BY <1>1
<1>3. \A i \in 1 .. N : /\ Ahead(loc, i) \in BucketIndices
                        /\ Ahead(Ahead(loc, i), N - 1) = Ahead(loc, i - 1)
  BY <1>2, Circle, Neighbours
<1>4. ASSUME NEW b \in BucketIndices PROVE \E i \in 1 .. N : b = Ahead(loc, i)
  <2>1. PICK i \in BucketIndices : b = Ahead(loc, i)
    BY Circle
  <2>2. CASE i = 0
    <3>1. b = Ahead(loc, N) /\ N \in 1 .. N
      BY <1>1, <2>1, <2>2, Circle
    <3> QED  BY <3>1
  <2>3. CASE i # 0
    <3>1. i \in 1 .. N
      BY <1>1, <2>3
    <3> QED  BY <2>1, <3>1
  <2> QED  BY <2>2, <2>3
<1> HIDE DEF N
<1>5. Ordered(bs) => \A i \in 1 .. N : WordAt(bs, Ahead(loc, i)) >= 2 * DIST_INC =>
         WordAt(bs, Ahead(loc, i)) <= WordAt(bs, Ahead(loc, i - 1)) + DIST_INC
  BY <1>3 DEF Ordered, N
<1>6. ASSUME \A i \in 1 .. N : WordAt(bs, Ahead(loc, i)) >= 2 * DIST_INC =>
               WordAt(bs, Ahead(loc, i)) <= WordAt(bs, Ahead(loc, i - 1)) + DIST_INC
      PROVE  Ordered(bs)
  <2> SUFFICES ASSUME NEW b \in BucketIndices, WordAt(bs, b) >= 2 * DIST_INC
               PROVE  WordAt(bs, b) <= WordAt(bs, Ahead(b, N - 1)) + DIST_INC
    BY DEF Ordered, N
  <2>1. PICK i \in 1 .. N : b = Ahead(loc, i)
    BY <1>4
  <2> QED  BY <1>3, <1>6, <2>1
<1> QED  BY <1>5, <1>6 DEF N

(* What an insertion asks of the place that it was given: all the buckets  *)
(* before it are at least as far as the probe and the one there is not.    *)
GoodPlace(bs, h, k) ==
  /\ k \in BucketIndices
  /\ Word(h, k) > WordAt(bs, ProbeLoc(h, k))
  /\ \A j \in 0 .. k - 1 : WordAt(bs, ProbeLoc(h, j)) >= Word(h, j)
  /\ \E c \in BucketIndices : WordAt(bs, c) = 0

(* The entries that the buckets point to. *)
Indexed(bs) == {bs[b].value_index : b \in Occupied(bs)}

(* place_and_shift_up keeps the buckets in order and adds one entry.       *)
LEMMA PlacingKeepsBuckets ==
  ASSUME NEW bs, NEW hv, GoodBuckets(bs, hv), NEW h \in Nat, NEW k, GoodPlace(bs, h, k),
         NEW v \in Links, v \notin Indexed(bs),
         NEW hv2 \in [Links -> Nat], hv2[v] = h, \A i \in Indexed(bs) : hv2[i] = hv[i],
         NEW bs2, bs2 = place_and_shift_up(bs,
                    [dist_and_fingerprint |-> Word(h, k), value_index |-> v], ProbeLoc(h, k))
  PROVE  GoodBuckets(bs2, hv2) /\ Indexed(bs2) = Indexed(bs) \cup {v}
<1> DEFINE N == INTERNAL_TABLE_SIZE
           D == DIST_INC
           loc == ProbeLoc(h, k)
           bucket == [dist_and_fingerprint |-> Word(h, k), value_index |-> v]
           e == ShiftsUp(bs, loc)
           A(i) == Ahead(loc, i)
           W(i) == WordAt(bs, A(i))
           W2(i) == WordAt(bs2, A(i))
           V(i) == bs[A(i)].value_index
           V2(i) == bs2[A(i)].value_index
<1>1. N \in Nat /\ N > 0 /\ BucketIndices = 0 .. N - 1 /\ D \in Nat /\ D > 0
  BY TableSizes DEF BucketIndices
<1>2. /\ bs \in [BucketIndices -> Buckets] /\ hv \in [Links -> Nat] /\ k \in BucketIndices
      /\ \E c \in BucketIndices : WordAt(bs, c) = 0
      /\ Ordered(bs) /\ Distinct(bs) /\ Placed(bs, hv)
  BY DEF GoodBuckets, GoodPlace
<1>3. loc \in BucketIndices
  BY <1>2, ProbeLocs
<1>4. /\ e \in BucketIndices /\ W(e) = 0 /\ \A j \in 0 .. e - 1 : W(j) # 0
  BY <1>2, <1>3, FirstEmpty
<1>5. /\ bs2 = [b \in BucketIndices |-> bs2[b]] /\ bs2[A(0)] = bucket
      /\ \A i \in 1 .. e : bs2[A(i)] = plus_dist(bs[A(i - 1)])
      /\ \A i \in e + 1 .. N - 1 : bs2[A(i)] = bs[A(i)]
  BY <1>2, <1>3, ShiftUpShape
<1> HIDE DEF e
<1>6. e \in 0 .. N - 1 /\ e \in Nat
  BY <1>1, <1>4
<1>7. \A i \in 0 .. N : A(i) \in BucketIndices
  BY <1>3, Circle
<1>8. \A b \in BucketIndices : \E i \in BucketIndices : b = A(i)
  BY <1>3, Circle
<1>9. \A i, j \in BucketIndices : A(i) = A(j) => i = j
  BY <1>3, Circle
<1>10. A(0) = loc /\ A(N) = loc
  BY <1>3, Circle
<1>11. \A i \in 0 .. N - 1 : Ahead(A(i), 1) = A(i + 1)
  BY <1>3, Neighbours
<1>12. \A i \in 0 .. N : W(i) \in Nat
  BY <1>2, <1>7, WordsAreNumbers
<1>13. \A i \in 1 .. N : W(i) >= 2 * D => W(i) <= W(i - 1) + D
  BY <1>2, <1>3, OrderedFrom
<1>14. k \in Nat /\ Word(h, k) \in Nat /\ Word(h, k) >= D /\ Word(h, k) < Words
  BY <1>2, BucketNumbers, WordFacts, ProbeWords
<1>15. W(0) < Word(h, k)
  BY <1>10, <1>12, <1>14, <1>1 DEF GoodPlace
<1>16. k >= 1 => W(N - 1) >= D /\ W(N - 1) + D >= Word(h, k)
  <2> SUFFICES ASSUME k >= 1 PROVE W(N - 1) >= D /\ W(N - 1) + D >= Word(h, k)
    OBVIOUS
  <2>1. k - 1 \in 0 .. k - 1 /\ k - 1 \in Nat /\ (k - 1) + 1 = k /\ k \in 1 .. N
    BY <1>1, <1>2, <1>14
  <2>2. WordAt(bs, ProbeLoc(h, k - 1)) >= Word(h, k - 1)
    BY <2>1 DEF GoodPlace
  <2>3. A(N - 1) = ProbeLoc(h, k - 1)
    BY <2>1, ProbeLocs
  <2>4. Word(h, (k - 1) + 1) = Word(h, k - 1) + D /\ Word(h, k - 1) \in Nat /\ Word(h, k - 1) >= D
    BY <2>1, WordFacts
  <2>5. Word(h, k) = Word(h, k - 1) + D
    BY <2>1, <2>4
  <2>6. W(N - 1) \in Nat /\ W(N - 1) >= Word(h, k - 1)
    BY <1>1, <1>12, <2>2, <2>3
  <2> HIDE DEF W, D
  <2> QED  BY <1>1, <2>4, <2>5, <2>6
<1>17. \A i \in BucketIndices : /\ A(i) \in BucketIndices /\ i \in 0 .. N - 1 /\ i \in Nat
                               /\ (A(i) \in Occupied(bs) <=> W(i) # 0)
                               /\ (A(i) \in Occupied(bs2) <=> W2(i) # 0)
  BY <1>1, <1>7 DEF Occupied
<1>18. ASSUME NEW i \in 1 .. e
       PROVE  /\ A(i - 1) \in Occupied(bs) /\ W(i - 1) >= D /\ W(i - 1) \in Nat
              /\ W2(i) = W(i - 1) + D /\ V2(i) = V(i - 1) /\ bs2[A(i)] \in Buckets
              /\ \E m \in BucketIndices :
                   A(i) = ProbeLoc(hv[V(i - 1)], m) /\ W2(i) = Word(hv[V(i - 1)], m)
  <2>1. i - 1 \in BucketIndices /\ i - 1 \in 0 .. e - 1 /\ i - 1 \in 0 .. N - 1 /\ (i - 1) + 1 = i
    BY <1>1, <1>6
  <2>2. A(i - 1) \in Occupied(bs)
    BY <1>4, <1>17, <2>1
  <2> DEFINE b == A(i - 1)
             g == hv[bs[b].value_index]
  <2>3. g \in Nat /\ WordAt(bs, b) \in Nat /\ WordAt(bs, b) >= D /\ b \in BucketIndices
    BY <2>2, OccupiedWords
  <2>4. PICK m \in BucketIndices :
          m + 1 \in BucketIndices /\ b = ProbeLoc(g, m) /\ WordAt(bs, b) = Word(g, m)
    BY <1>2, <2>2, RoomToMove
  <2>5. bs2[A(i)] = plus_dist(bs[b]) /\ bs[b] \in Buckets
    BY <1>2, <1>5, <2>3
  <2>6. Ahead(b, 1) = A(i)
    BY <1>11, <2>1
  <2> HIDE DEF b, g
  <2>7. m \in Nat /\ m \in 0 .. N - 1 /\ m + 1 \in 0 .. MAX_NUM_BUCKETS - 1
    BY <1>1, <2>4, BucketNumbers
  <2>8. Word(g, m + 1) = WordAt(bs, b) + D /\ Word(g, m + 1) < Words /\ Words \in Nat
    BY <2>3, <2>4, <2>7, WordFacts, ProbeWords
  <2>9. (WordAt(bs, b) + D) % Words = WordAt(bs, b) + D
    <3>1. WordAt(bs, b) + D \in 0 .. Words - 1 /\ Words > 0
      BY <1>1, <2>3, <2>8
    <3> QED  BY <2>8, <3>1, RemainderOfCycles
  <2>10. bs2[A(i)] = [bs[b] EXCEPT !.dist_and_fingerprint = WordAt(bs, b) + D]
    BY <2>5, <2>9 DEF plus_dist, increment_dist, WordAt
  <2>11. WordAt(bs, b) + D \in 0 .. Words - 1
    BY <1>1, <2>3, <2>8
  <2>12. /\ bs2[A(i)] \in Buckets /\ bs2[A(i)].dist_and_fingerprint = WordAt(bs, b) + D
         /\ bs2[A(i)].value_index = bs[b].value_index
    BY <2>5, <2>10, <2>11 DEF Buckets
  <2>13. A(i) = ProbeLoc(g, m + 1)
    <3>1. bucket_index_from_hash(g) \in BucketIndices
      BY <2>3, ProbeLocs
    <3>2. Ahead(Ahead(bucket_index_from_hash(g), m), 1) = Ahead(bucket_index_from_hash(g), m + 1)
      BY <2>7, <3>1, Neighbours
    <3> QED  BY <2>4, <2>6, <3>2 DEF ProbeLoc
  <2>14. W2(i) = WordAt(bs, b) + D
    BY <2>12 DEF WordAt
  <2> QED  BY <2>2, <2>3, <2>4, <2>8, <2>12, <2>13, <2>14 DEF b, g
<1>19. /\ W2(0) = Word(h, k) /\ V2(0) = v /\ bs2[A(0)] \in Buckets /\ W2(N) = W2(0)
       /\ A(0) = ProbeLoc(h, k)
  <2>1. Word(h, k) \in 0 .. Words - 1
    BY <1>14, ProbeWords
  <2> QED  BY <1>5, <1>10, <2>1 DEF WordAt, Buckets
<1>20. ASSUME NEW i \in e + 1 .. N - 1
       PROVE  W2(i) = W(i) /\ V2(i) = V(i) /\ bs2[A(i)] \in Buckets
  <2>1. i \in 0 .. N
    BY <1>6, <1>1
  <2> QED  BY <1>2, <1>5, <1>7, <2>1 DEF WordAt
<1>21. \A i \in BucketIndices : i = 0 \/ i \in 1 .. e \/ i \in e + 1 .. N - 1
  BY <1>1, <1>6
<1>22. bs2 \in [BucketIndices -> Buckets]
  <2>1. \A i \in BucketIndices : bs2[A(i)] \in Buckets
    BY <1>18, <1>19, <1>20, <1>21
  <2>2. \A b \in BucketIndices : bs2[b] \in Buckets
    BY <1>8, <2>1
  <2> QED  BY <1>5, <2>2
<1>23. Placed(bs2, hv2)
  <2> SUFFICES ASSUME NEW i \in BucketIndices, A(i) \in Occupied(bs2)
               PROVE  \E m \in BucketIndices : A(i) = ProbeLoc(hv2[V2(i)], m)
                                               /\ W2(i) = Word(hv2[V2(i)], m)
    <3>1. \A b \in Occupied(bs2) : b \in BucketIndices
      BY DEF Occupied
    <3> QED  BY <1>8, <3>1 DEF Placed
  <2>1. CASE i = 0
    BY <1>2, <1>19, <2>1
  <2>2. CASE i \in 1 .. e
    <3>1. V(i - 1) \in Indexed(bs)
      BY <1>18, <2>2 DEF Indexed
    <3> QED  BY <1>18, <2>2, <3>1
  <2>3. CASE i \in e + 1 .. N - 1
    <3>1. A(i) \in Occupied(bs)
      BY <1>17, <1>20, <2>3
    <3>2. V(i) \in Indexed(bs)
      BY <3>1 DEF Indexed
    <3> QED  BY <1>2, <1>20, <2>3, <3>1, <3>2 DEF Placed
  <2> QED  BY <1>21, <2>1, <2>2, <2>3
<1> DEFINE From(i) == IF i <= e THEN i - 1 ELSE i
<1>24. ASSUME NEW i \in BucketIndices, i # 0, A(i) \in Occupied(bs2)
       PROVE  From(i) \in BucketIndices /\ A(From(i)) \in Occupied(bs) /\ V2(i) = V(From(i))
  <2>1. CASE i \in 1 .. e
    <3>1. From(i) = i - 1 /\ i - 1 \in BucketIndices
      BY <1>1, <1>6, <2>1
    <3> QED  BY <1>18, <2>1, <3>1
  <2>2. CASE i \in e + 1 .. N - 1
    <3>1. From(i) = i
      BY <1>6, <2>2
    <3> QED  BY <1>17, <1>20, <1>24, <2>2, <3>1
  <2> QED  BY <1>21, <1>24, <2>1, <2>2
<1>26. \A i, j \in BucketIndices : i # 0 /\ j # 0 /\ From(i) = From(j) => i = j
  BY <1>1, <1>6
<1>27. \A i \in BucketIndices : i # 0 /\ A(i) \in Occupied(bs2) => V2(i) \in Indexed(bs)
  BY <1>24 DEF Indexed
<1>28. Distinct(bs2)
  <2> SUFFICES ASSUME NEW i \in BucketIndices, A(i) \in Occupied(bs2),
                      NEW j \in BucketIndices, A(j) \in Occupied(bs2), V2(i) = V2(j)
               PROVE  A(i) = A(j)
    <3>1. \A b \in Occupied(bs2) : b \in BucketIndices
      BY DEF Occupied
    <3> QED  BY <1>8, <3>1 DEF Distinct
  <2>1. CASE i # 0 /\ j # 0
    <3>1. /\ From(i) \in BucketIndices /\ A(From(i)) \in Occupied(bs) /\ V2(i) = V(From(i))
          /\ From(j) \in BucketIndices /\ A(From(j)) \in Occupied(bs) /\ V2(j) = V(From(j))
      BY <1>24, <2>1
    <3> HIDE DEF From, A
    <3>2. A(From(i)) = A(From(j))
      BY <1>2, <3>1 DEF Distinct
    <3>3. From(i) = From(j)
      BY <1>9, <3>1, <3>2
    <3> QED  BY <1>26, <2>1, <3>3
  <2>2. CASE i = 0 \/ j = 0
    <3> HIDE DEF From, A
    <3> QED  BY <1>19, <1>27, <2>2
  <2> QED  BY <2>1, <2>2
<1>29. Indexed(bs2) = Indexed(bs) \cup {v}
  <2>1. ASSUME NEW b \in Occupied(bs2) PROVE bs2[b].value_index \in Indexed(bs) \cup {v}
    <3>1. PICK i \in BucketIndices : b = A(i)
      BY <1>8 DEF Occupied
    <3> QED  BY <1>19, <1>27, <2>1, <3>1
  <2>2. v \in Indexed(bs2)
    <3>1. W2(0) # 0 /\ 0 \in BucketIndices
      BY <1>1, <1>14, <1>19
    <3>2. A(0) \in Occupied(bs2)
      BY <1>17, <3>1
    <3> QED  BY <1>19, <3>2 DEF Indexed
  <2>3. ASSUME NEW b \in Occupied(bs) PROVE bs[b].value_index \in Indexed(bs2)
    <3>1. PICK i \in BucketIndices : b = A(i)
      BY <1>8 DEF Occupied
    <3>2. W(i) # 0
      BY <1>17, <2>3, <3>1
    <3>3. i # e
      BY <1>4, <3>2
    <3>4. CASE i < e
      <4>1. i + 1 \in 1 .. e /\ (i + 1) - 1 = i /\ i + 1 \in BucketIndices
        BY <1>1, <1>6, <3>4
      <4>2. W2(i + 1) = W(i) + D /\ V2(i + 1) = V(i) /\ W(i) \in Nat
        BY <1>18, <4>1
      <4>3. W2(i + 1) # 0
        <5> HIDE DEF W, W2, D
        <5> QED  BY <1>1, <4>2
      <4> QED  BY <1>17, <3>1, <4>1, <4>2, <4>3 DEF Indexed
    <3>5. CASE i > e
      <4>1. i \in e + 1 .. N - 1
        BY <1>1, <1>6, <3>5
      <4> QED  BY <1>17, <1>20, <3>1, <3>2, <4>1 DEF Indexed
    <3> QED  BY <1>6, <1>17, <3>3, <3>4, <3>5
  <2> QED  BY <2>1, <2>2, <2>3 DEF Indexed
<1> HIDE DEF W, W2, D, A, From, V, V2
<1>30. ASSUME e + 1 <= N - 1 PROVE W(e + 1) < 2 * D
  <2>1. e + 1 \in 1 .. N /\ (e + 1) - 1 = e /\ e + 1 \in 0 .. N
    BY <1>1, <1>6, <1>30
  <2>2. W(e + 1) >= 2 * D => W(e + 1) <= W(e) + D
    BY <1>13, <2>1
  <2> QED  BY <1>1, <1>4, <1>12, <2>1, <2>2
<1>31. k >= 1 => e + 1 <= N - 1
  BY <1>1, <1>4, <1>6, <1>16
<1>32. \A i \in 1 .. N : W2(i) >= 2 * D => W2(i) <= W2(i - 1) + D
  <2> SUFFICES ASSUME NEW i \in 1 .. N, W2(i) >= 2 * D PROVE W2(i) <= W2(i - 1) + D
    OBVIOUS
  <2>1. CASE i = N
    <3>1. W2(N) = Word(h, k) /\ i - 1 = N - 1
      BY <1>19, <2>1
    <3>2. k >= 1
      <4>1. k = 0 => Word(h, k) < 2 * D
        BY WordFacts DEF D
      <4> QED  BY <1>1, <1>14, <2>1, <3>1, <4>1
    <3>3. N - 1 \in e + 1 .. N - 1
      BY <1>1, <1>6, <1>31, <3>2
    <3>4. W2(N - 1) = W(N - 1)
      BY <1>20, <3>3
    <3> QED  BY <1>1, <1>14, <1>16, <2>1, <3>1, <3>2, <3>4
  <2>2. CASE i # N /\ i = 1 /\ i <= e
    <3>1. 1 \in 1 .. e /\ 1 - 1 = 0
      BY <1>6, <2>2
    <3>2. W2(1) = W(0) + D /\ W(0) \in Nat
      BY <1>18, <3>1
    <3> QED  BY <1>1, <1>14, <1>15, <1>19, <2>2, <3>1, <3>2
  <2>3. CASE i # N /\ i # 1 /\ i <= e
    <3>1. i \in 1 .. e /\ i - 1 \in 1 .. e /\ i - 1 \in 1 .. N
      BY <1>1, <1>6, <2>3
    <3>2. W2(i) = W(i - 1) + D /\ W(i - 1) \in Nat
      BY <1>18, <3>1
    <3>3. W2(i - 1) = W((i - 1) - 1) + D /\ W((i - 1) - 1) \in Nat /\ W((i - 1) - 1) >= D
      BY <1>18, <3>1
    <3>4. W(i - 1) >= 2 * D => W(i - 1) <= W((i - 1) - 1) + D
      BY <1>13, <3>1
    <3> QED  BY <1>1, <3>2, <3>3, <3>4
  <2>4. CASE i # N /\ i = e + 1
    <3>1. e + 1 <= N - 1 /\ i \in e + 1 .. N - 1 /\ i \in 0 .. N
      BY <1>1, <1>6, <2>4
    <3>2. W2(i) = W(i) /\ W(e + 1) < 2 * D /\ W(i) \in Nat
      BY <1>12, <1>20, <1>30, <3>1
    <3> QED  BY <1>1, <2>4, <3>2
  <2>5. CASE i # N /\ i > e + 1
    <3>1. i \in e + 1 .. N - 1 /\ i - 1 \in e + 1 .. N - 1
      BY <1>1, <1>6, <2>5
    <3>2. W2(i) = W(i) /\ W2(i - 1) = W(i - 1)
      BY <1>20, <3>1
    <3> QED  BY <1>13, <3>2
  <2>6. i = N \/ (i # N /\ ((i = 1 /\ i <= e) \/ (i # 1 /\ i <= e) \/ i = e + 1 \/ i > e + 1))
    BY <1>1, <1>6
  <2> QED  BY <2>1, <2>2, <2>3, <2>4, <2>5, <2>6
<1>33. Ordered(bs2)
  BY <1>3, <1>32, OrderedFrom DEF W2, D, A
<1>34. SomeAtHome(bs2)
  <2>1. CASE e + 1 <= N - 1
    <3>1. e + 1 \in e + 1 .. N - 1 /\ e + 1 \in BucketIndices
      BY <1>1, <1>6, <2>1
    <3>2. W2(e + 1) = W(e + 1) /\ W(e + 1) < 2 * D
      BY <1>20, <1>30, <2>1, <3>1
    <3> QED  BY <1>17, <3>1, <3>2 DEF SomeAtHome, W2, D
  <2>2. CASE ~(e + 1 <= N - 1)
    <3>1. k = 0
      BY <1>14, <1>31, <2>2
    <3>2. W2(0) < 2 * D /\ 0 \in BucketIndices
      BY <1>1, <1>19, <3>1, WordFacts DEF D
    <3> QED  BY <1>17, <3>2 DEF SomeAtHome, W2, D
  <2> QED  BY <2>1, <2>2
<1> QED  BY <1>22, <1>23, <1>28, <1>29, <1>33, <1>34 DEF GoodBuckets

-----------------------------------------------------------------------------
(* The number of iterations of erase_bucket. *)
ShiftsDown(bs, loc) == FirstExit(LAMBDA k : StaysAfter(bs, loc, k))

(* What the loop of erase_bucket reads: the words behind loc and, once     *)
(* around, the one it has moved there.                                     *)
LEMMA StaysAfterMeans ==
  ASSUME NEW bs, NEW hv, GoodBuckets(bs, hv), NEW loc \in BucketIndices
  PROVE  /\ ~StaysAfter(bs, loc, 0)
         /\ \A k \in 1 .. INTERNAL_TABLE_SIZE - 1 :
              StaysAfter(bs, loc, k) <=> WordAt(bs, Ahead(loc, k)) < 2 * DIST_INC
         /\ (\A k \in 1 .. INTERNAL_TABLE_SIZE - 1 : ~StaysAfter(bs, loc, k)) =>
              /\ WordAt(bs, loc) < 2 * DIST_INC
              /\ StaysAfter(bs, loc, INTERNAL_TABLE_SIZE)
<1> DEFINE N == INTERNAL_TABLE_SIZE
           D == DIST_INC
<1>1. N \in Nat /\ N > 0 /\ BucketIndices = 0 .. N - 1 /\ D \in Nat /\ D > 0
  BY TableSizes DEF BucketIndices
<1>2. bs \in [BucketIndices -> Buckets] /\ Ordered(bs) /\ SomeAtHome(bs)
  BY DEF GoodBuckets
<1>3. ~StaysAfter(bs, loc, 0)
  BY DEF StaysAfter
<1>4. \A k \in 1 .. N - 1 : StaysAfter(bs, loc, k) <=> WordAt(bs, Ahead(loc, k)) < 2 * D
  BY <1>1 DEF StaysAfter, WordAt
<1>5. ASSUME \A k \in 1 .. N - 1 : ~StaysAfter(bs, loc, k)
      PROVE  WordAt(bs, loc) < 2 * D /\ StaysAfter(bs, loc, N)
  <2>1. PICK b \in BucketIndices : WordAt(bs, b) < 2 * D
    BY <1>2 DEF SomeAtHome
  <2>2. PICK i \in BucketIndices : b = Ahead(loc, i)
    BY Circle
  <2>3. i = 0
    <3>1. ~(i \in 1 .. N - 1)
      BY <1>4, <1>5, <2>1, <2>2
    <3> QED  BY <1>1, <3>1
  <2>4. Ahead(loc, 0) = loc /\ Ahead(loc, N) = loc
    BY Circle
  <2>5. WordAt(bs, loc) < 2 * D /\ WordAt(bs, loc) \in Nat
    BY <1>2, <2>1, <2>2, <2>3, <2>4, WordsAreNumbers
  <2>6. CASE N = 1
    BY <1>1, <2>4, <2>5, <2>6 DEF StaysAfter, WordAt
  <2>7. CASE N # 1
    <3>1. 1 \in 1 .. N - 1 /\ 1 \in 0 .. N - 1 /\ 1 \in 1 .. N /\ 1 \in 0 .. N /\ ~(N < N) /\ 1 + N = N + 1
      BY <1>1, <2>7
    <3>2. Ahead(loc, 1) \in BucketIndices
      BY <3>1, Circle
    <3>3. WordAt(bs, Ahead(loc, 1)) \in Nat /\ bs[Ahead(loc, 1)] \in Buckets
      BY <1>2, <3>2, WordsAreNumbers
    <3>4. ~(WordAt(bs, Ahead(loc, 1)) < 2 * D)
      BY <1>4, <1>5, <3>1
    <3>5. Ahead(loc, N + 1) = Ahead(loc, 1)
      <4>1. Ahead(loc, 1 + N) = Ahead(loc, 1)
        BY <3>1, Neighbours
      <4> QED  BY <3>1, <4>1
    <3>6. WordAt(bs, Ahead(loc, 1)) >= 2 * D =>
            WordAt(bs, Ahead(loc, 1)) <= WordAt(bs, Ahead(loc, 1 - 1)) + D
      BY <1>2, <3>1, OrderedFrom
    <3>7. 1 - 1 = 0
      OBVIOUS
    <3> DEFINE w == WordAt(bs, Ahead(loc, 1))
               u == WordAt(bs, loc)
    <3>8. w \in Nat /\ u \in Nat /\ w >= 2 * D /\ w <= u + D /\ u < 2 * D
      <4> HIDE DEF D
      <4> QED  BY <1>1, <2>4, <2>5, <3>3, <3>4, <3>6, <3>7
    <3> HIDE DEF w, u, D
    <3>9. w - D \in 0 .. Words - 1 /\ w - D < 2 * D /\ Words > 0 /\ Words \in Nat
      <4>1. Words \in Nat /\ w < Words
        <5>1. Words \in Nat
          BY TableSizes DEF Words
        <5> QED  BY <1>2, <3>2, <5>1, WordsAreNumbers DEF w
      <4> QED  BY <1>1, <3>8, <4>1
    <3>10. (w - D) % Words = w - D
      BY <3>9, RemainderOfCycles
    <3>11. minus_dist(bs[Ahead(loc, N + 1)]).dist_and_fingerprint = w - D
      BY <3>3, <3>5, <3>10 DEF minus_dist, WordAt, w, D, Buckets
    <3> QED  BY <1>1, <2>5, <2>7, <3>9, <3>11 DEF StaysAfter, D, u
  <2> QED  BY <2>5, <2>6, <2>7
<1> QED  BY <1>3, <1>4, <1>5

(* The loop of erase_bucket ends within one round.  If it takes all of it, *)
(* the bucket at loc was at home.                                          *)
LEMMA FirstThatStays ==
  ASSUME NEW bs, NEW hv, GoodBuckets(bs, hv), NEW loc \in BucketIndices,
         NEW e, e = ShiftsDown(bs, loc)
  PROVE  /\ e \in 1 .. INTERNAL_TABLE_SIZE /\ StaysAfter(bs, loc, e)
         /\ \A j \in 1 .. e - 1 : WordAt(bs, Ahead(loc, j)) >= 2 * DIST_INC
         /\ e < INTERNAL_TABLE_SIZE => WordAt(bs, Ahead(loc, e)) < 2 * DIST_INC
         /\ e = INTERNAL_TABLE_SIZE => WordAt(bs, loc) < 2 * DIST_INC
<1> DEFINE N == INTERNAL_TABLE_SIZE
           D == DIST_INC
<1>1. N \in Nat /\ N > 0 /\ BucketIndices = 0 .. N - 1 /\ D \in Nat /\ D > 0
  BY TableSizes DEF BucketIndices
<1>2. bs \in [BucketIndices -> Buckets]
  BY DEF GoodBuckets
<1> DEFINE S == {k \in 1 .. N : StaysAfter(bs, loc, k)}
<1>3. S # {}
  <2>1. CASE \A k \in 1 .. N - 1 : ~StaysAfter(bs, loc, k)
    BY <1>1, <2>1, StaysAfterMeans
  <2>2. CASE ~ \A k \in 1 .. N - 1 : ~StaysAfter(bs, loc, k)
    BY <1>1, <2>2
  <2> QED  BY <2>1, <2>2
<1>4. S \subseteq Nat
  BY <1>1
<1>5. PICK k \in S : \A y \in S : k <= y
  BY <1>3, <1>4, LeastOfSet
<1>6. k \in 1 .. N /\ StaysAfter(bs, loc, k) /\ k \in Nat /\ k \in Iterations
  BY <1>1, <1>5 DEF Iterations
<1>7. ~StaysAfter(bs, loc, 0)
  BY StaysAfterMeans
<1>8. \A j \in 0 .. k - 1 : ~StaysAfter(bs, loc, j)
  <2> SUFFICES ASSUME NEW j \in 0 .. k - 1, j # 0 PROVE j \in 1 .. N /\ j \notin S
    BY <1>7
  <2>1. j \in 1 .. N /\ ~(k <= j)
    BY <1>1, <1>6
  <2> QED  BY <1>5, <2>1
<1>9. e \in Iterations /\ StaysAfter(bs, loc, e) /\ \A j \in 0 .. e - 1 : ~StaysAfter(bs, loc, j)
  BY <1>6, <1>8 DEF ShiftsDown, FirstExit
<1>10. e \in Nat /\ e # 0
  BY <1>1, <1>7, <1>9 DEF Iterations
<1>11. e <= k
  <2>1. ~(k \in 0 .. e - 1)
    BY <1>6, <1>9
  <2> QED  BY <1>6, <1>10, <2>1
<1>12. e \in 1 .. N /\ \A j \in 1 .. e - 1 : j \in 0 .. e - 1 /\ j \in 1 .. N - 1 /\ j \in 0 .. N
  BY <1>1, <1>6, <1>10, <1>11
<1>13. \A j \in 1 .. e - 1 : WordAt(bs, Ahead(loc, j)) >= 2 * D
  <2> SUFFICES ASSUME NEW j \in 1 .. e - 1 PROVE WordAt(bs, Ahead(loc, j)) >= 2 * D
    OBVIOUS
  <2>1. ~(WordAt(bs, Ahead(loc, j)) < 2 * D)
    BY <1>9, <1>12, StaysAfterMeans
  <2>2. Ahead(loc, j) \in BucketIndices
    BY <1>12, Circle
  <2>3. WordAt(bs, Ahead(loc, j)) \in Nat
    BY <1>2, <2>2, WordsAreNumbers
  <2> QED  BY <1>1, <2>1, <2>3
<1>14. e < N => WordAt(bs, Ahead(loc, e)) < 2 * D
  <2> SUFFICES ASSUME e < N PROVE WordAt(bs, Ahead(loc, e)) < 2 * D
    OBVIOUS
  <2>1. e \in 1 .. N - 1
    BY <1>1, <1>12
  <2> QED  BY <1>9, <2>1, StaysAfterMeans
<1>15. e = N => WordAt(bs, loc) < 2 * D
  <2> SUFFICES ASSUME e = N PROVE WordAt(bs, loc) < 2 * D
    OBVIOUS
  <2>1. \A j \in 1 .. N - 1 : j \in 0 .. e - 1
    BY <1>1
  <2> QED  BY <1>9, <2>1, StaysAfterMeans
<1> QED  BY <1>9, <1>12, <1>13, <1>14, <1>15

(* What erase_bucket writes, counted from the bucket it erases. *)
LEMMA ShiftDownShape ==
  ASSUME NEW bs, NEW hv, GoodBuckets(bs, hv), NEW loc \in BucketIndices
  PROVE  LET e   == ShiftsDown(bs, loc)
             bs2 == erase_bucket(bs, loc)
         IN  /\ bs2 = [b \in BucketIndices |-> bs2[b]]
             /\ bs2[Ahead(loc, e - 1)] = EmptyBucket
             /\ \A i \in 0 .. e - 2 : bs2[Ahead(loc, i)] = minus_dist(bs[Ahead(loc, i + 1)])
             /\ \A i \in e .. INTERNAL_TABLE_SIZE - 1 : bs2[Ahead(loc, i)] = bs[Ahead(loc, i)]
<1> DEFINE e   == ShiftsDown(bs, loc)
           bs2 == erase_bucket(bs, loc)
           N == INTERNAL_TABLE_SIZE
<1>1. e \in 1 .. N
  BY FirstThatStays
<1>2. bs2 = [b \in BucketIndices |->
         IF b = Ahead(loc, e - 1) THEN EmptyBucket
         ELSE IF \E k \in 0 .. e - 2 : b = Ahead(loc, k)
              THEN minus_dist(bs[Ahead(b, 1)])
              ELSE bs[b]]
  BY DEF erase_bucket, ShiftsDown
<1> HIDE DEF e, bs2
<1>3. N \in Nat /\ N > 0 /\ BucketIndices = 0 .. N - 1
  BY TableSizes DEF BucketIndices
<1>4. \A i, j \in BucketIndices : Ahead(loc, i) = Ahead(loc, j) => i = j
  BY Circle
<1>5. \A i \in BucketIndices : Ahead(loc, i) \in BucketIndices
  <2>1. \A i \in BucketIndices : i \in 0 .. N
    BY <1>3
  <2> QED  BY <2>1, Circle
<1>6. e - 1 \in BucketIndices
  BY <1>1, <1>3
<1>7. bs2[Ahead(loc, e - 1)] = EmptyBucket
  BY <1>2, <1>5, <1>6
<1>8. ASSUME NEW i \in 0 .. e - 2 PROVE bs2[Ahead(loc, i)] = minus_dist(bs[Ahead(loc, i + 1)])
  <2>1. i \in BucketIndices /\ i # e - 1 /\ i \in 0 .. N - 1
    BY <1>1, <1>3
  <2>2. Ahead(Ahead(loc, i), 1) = Ahead(loc, i + 1)
    BY <2>1, Neighbours
  <2>3. Ahead(loc, i) # Ahead(loc, e - 1) /\ Ahead(loc, i) \in BucketIndices
    BY <1>4, <1>5, <1>6, <2>1
  <2> QED  BY <1>2, <2>2, <2>3
<1>9. ASSUME NEW i \in e .. N - 1 PROVE bs2[Ahead(loc, i)] = bs[Ahead(loc, i)]
  <2>1. i \in BucketIndices /\ i # e - 1
    BY <1>1, <1>3
  <2>2. Ahead(loc, i) # Ahead(loc, e - 1) /\ Ahead(loc, i) \in BucketIndices
    BY <1>4, <1>5, <1>6, <2>1
  <2>3. \A k \in 0 .. e - 2 : k \in BucketIndices /\ k # i
    BY <1>1, <1>3
  <2>4. ~ \E k \in 0 .. e - 2 : Ahead(loc, i) = Ahead(loc, k)
    BY <1>4, <2>1, <2>3
  <2> QED  BY <1>2, <2>2, <2>4
<1> QED  BY <1>2, <1>7, <1>8, <1>9 DEF e, bs2

(* erase_bucket keeps the buckets in order and drops one entry. *)
LEMMA ErasingKeepsBuckets ==
  ASSUME NEW bs, NEW hv, GoodBuckets(bs, hv), NEW loc \in Occupied(bs),
         NEW hv2 \in [Links -> Nat],
         \A i \in Indexed(bs) \ {bs[loc].value_index} : hv2[i] = hv[i],
         NEW bs2, bs2 = erase_bucket(bs, loc)
  PROVE  GoodBuckets(bs2, hv2) /\ Indexed(bs2) = Indexed(bs) \ {bs[loc].value_index}
<1> DEFINE N == INTERNAL_TABLE_SIZE
           D == DIST_INC
           e == ShiftsDown(bs, loc)
           A(i) == Ahead(loc, i)
           W(i) == WordAt(bs, A(i))
           W2(i) == WordAt(bs2, A(i))
           V(i) == bs[A(i)].value_index
           V2(i) == bs2[A(i)].value_index
<1>1. N \in Nat /\ N > 0 /\ BucketIndices = 0 .. N - 1 /\ D \in Nat /\ D > 0
  BY TableSizes DEF BucketIndices
<1>2. /\ bs \in [BucketIndices -> Buckets] /\ hv \in [Links -> Nat]
      /\ Ordered(bs) /\ Distinct(bs) /\ Placed(bs, hv)
  BY DEF GoodBuckets
<1>3. loc \in BucketIndices
  BY DEF Occupied
<1>4. /\ e \in 1 .. N /\ \A j \in 1 .. e - 1 : W(j) >= 2 * D
      /\ e < N => W(e) < 2 * D
      /\ e = N => WordAt(bs, loc) < 2 * D
  BY <1>3, FirstThatStays
<1>5. /\ bs2 = [b \in BucketIndices |-> bs2[b]] /\ bs2[A(e - 1)] = EmptyBucket
      /\ \A i \in 0 .. e - 2 : bs2[A(i)] = minus_dist(bs[A(i + 1)])
      /\ \A i \in e .. N - 1 : bs2[A(i)] = bs[A(i)]
  BY <1>3, ShiftDownShape
<1> HIDE DEF e
<1>6. e \in Nat /\ e >= 1 /\ e <= N
  BY <1>1, <1>4
<1>7. \A i \in 0 .. N : A(i) \in BucketIndices
  BY <1>3, Circle
<1>8. \A b \in BucketIndices : \E i \in BucketIndices : b = A(i)
  BY <1>3, Circle
<1>9. \A i, j \in BucketIndices : A(i) = A(j) => i = j
  BY <1>3, Circle
<1>10. A(0) = loc /\ A(N) = loc
  BY <1>3, Circle
<1>11. \A i \in 1 .. N : Ahead(A(i), N - 1) = A(i - 1)
  BY <1>3, Neighbours
<1>12. \A i \in 0 .. N : W(i) \in Nat /\ W(i) < Words
  BY <1>2, <1>7, WordsAreNumbers
<1>13. \A i \in 1 .. N : W(i) >= 2 * D => W(i) <= W(i - 1) + D
  BY <1>2, <1>3, OrderedFrom
<1>17. \A i \in BucketIndices : /\ A(i) \in BucketIndices /\ i \in 0 .. N - 1 /\ i \in Nat
                               /\ (A(i) \in Occupied(bs) <=> W(i) # 0)
                               /\ (A(i) \in Occupied(bs2) <=> W2(i) # 0)
  BY <1>1, <1>7 DEF Occupied
<1>18. ASSUME NEW i \in 0 .. e - 2
       PROVE  /\ A(i + 1) \in Occupied(bs) /\ W(i + 1) >= 2 * D /\ W(i + 1) \in Nat
              /\ W2(i) = W(i + 1) - D /\ V2(i) = V(i + 1) /\ bs2[A(i)] \in Buckets
              /\ \E m \in BucketIndices :
                   A(i) = ProbeLoc(hv[V(i + 1)], m) /\ W2(i) = Word(hv[V(i + 1)], m)
  <2>1. /\ i + 1 \in BucketIndices /\ i + 1 \in 1 .. e - 1 /\ i + 1 \in 1 .. N /\ (i + 1) - 1 = i
        /\ i + 1 \in 0 .. N
    BY <1>1, <1>6
  <2>2. W(i + 1) >= 2 * D /\ W(i + 1) \in Nat /\ W(i + 1) < Words
    BY <1>4, <1>12, <2>1
  <2> DEFINE b == A(i + 1)
             g == hv[bs[b].value_index]
             w == WordAt(bs, b)
  <2>3. A(i + 1) \in Occupied(bs)
    <3> HIDE DEF W, D, A
    <3>1. W(i + 1) # 0
      BY <1>1, <2>2
    <3> QED  BY <1>17, <2>1, <3>1
  <2>4. g \in Nat /\ b \in BucketIndices
    BY <2>3, OccupiedWords
  <2>5. PICK m \in BucketIndices : b = ProbeLoc(g, m) /\ WordAt(bs, b) = Word(g, m)
    BY <1>2, <2>3 DEF Placed
  <2>6. bs2[A(i)] = minus_dist(bs[b]) /\ bs[b] \in Buckets
    BY <1>2, <1>5, <2>4
  <2>7. Ahead(b, N - 1) = A(i)
    BY <1>11, <2>1
  <2>8. w >= 2 * D /\ w \in Nat /\ w < Words
    BY <2>2
  <2> HIDE DEF b, g, w
  <2>9. m \in Nat /\ m # 0
    <3>1. Word(g, 0) < 2 * D /\ Word(g, 0) \in Nat
      BY <2>4, WordFacts
    <3>2. m # 0
      <4> HIDE DEF D
      <4> QED  BY <1>1, <2>5, <2>8, <3>1 DEF w
    <3> QED  BY <3>2, BucketNumbers
  <2>10. m - 1 \in Nat /\ (m - 1) + 1 = m /\ m \in 1 .. N /\ m - 1 \in BucketIndices
    BY <1>1, <2>9
  <2>11. Word(g, m - 1) = w - D
    <3>1. Word(g, (m - 1) + 1) = Word(g, m - 1) + D /\ Word(g, m - 1) \in Nat
      BY <2>4, <2>10, WordFacts
    <3>2. w = Word(g, m - 1) + D
      BY <2>5, <2>10, <3>1 DEF w
    <3> QED  BY <1>1, <2>8, <3>1, <3>2
  <2>12. w - D \in 0 .. Words - 1 /\ Words \in Nat /\ Words > 0
    <3>1. Words \in Nat
      BY TableSizes DEF Words
    <3> HIDE DEF D
    <3> QED  BY <1>1, <2>8, <3>1
  <2>13. (w - D) % Words = w - D
    BY <2>12, RemainderOfCycles
  <2>14. bs2[A(i)] = [bs[b] EXCEPT !.dist_and_fingerprint = w - D]
    BY <2>6, <2>13 DEF minus_dist, WordAt, w
  <2>15. /\ bs2[A(i)] \in Buckets /\ bs2[A(i)].dist_and_fingerprint = w - D
         /\ bs2[A(i)].value_index = bs[b].value_index
    BY <2>6, <2>12, <2>14 DEF Buckets
  <2>16. A(i) = ProbeLoc(g, m - 1)
    <3>1. Ahead(ProbeLoc(g, m), N - 1) = ProbeLoc(g, m - 1)
      BY <2>4, <2>10, ProbeLocs
    <3> QED  BY <2>5, <2>7, <3>1
  <2>17. W2(i) = w - D
    BY <2>15 DEF WordAt
  <2> QED  BY <2>2, <2>3, <2>10, <2>11, <2>15, <2>16, <2>17 DEF b, g, w
<1>19. W2(e - 1) = 0 /\ bs2[A(e - 1)] \in Buckets
  <2>1. 0 \in 0 .. Words - 1 /\ 0 \in Links
    <3>1. Words \in Nat /\ Words > 0
      BY TableSizes DEF Words
    <3> QED  BY <3>1, MaximumSizeIsNat DEF Links, Slots
  <2> QED  BY <1>5, <2>1 DEF WordAt, Buckets, EmptyBucket
<1>20. ASSUME NEW i \in e .. N - 1
       PROVE  W2(i) = W(i) /\ V2(i) = V(i) /\ bs2[A(i)] \in Buckets
  <2>1. i \in 0 .. N
    BY <1>6, <1>1
  <2> QED  BY <1>2, <1>5, <1>7, <2>1 DEF WordAt
<1>21. \A i \in BucketIndices : i \in 0 .. e - 2 \/ i = e - 1 \/ i \in e .. N - 1
  BY <1>1, <1>6
<1>22. bs2 \in [BucketIndices -> Buckets]
  <2>1. \A i \in BucketIndices : bs2[A(i)] \in Buckets
    BY <1>18, <1>19, <1>20, <1>21
  <2>2. \A b \in BucketIndices : bs2[b] \in Buckets
    BY <1>8, <2>1
  <2> QED  BY <1>5, <2>2
<1> DEFINE From(i) == IF i < e THEN i + 1 ELSE i
<1>24. ASSUME NEW i \in BucketIndices, A(i) \in Occupied(bs2)
       PROVE  /\ From(i) \in BucketIndices /\ A(From(i)) \in Occupied(bs) /\ V2(i) = V(From(i))
              /\ From(i) # 0
              /\ \E m \in BucketIndices :
                   A(i) = ProbeLoc(hv[V2(i)], m) /\ W2(i) = Word(hv[V2(i)], m)
  <2>1. CASE i \in 0 .. e - 2
    <3>1. From(i) = i + 1 /\ i + 1 \in BucketIndices /\ i + 1 # 0
      BY <1>1, <1>6, <2>1
    <3> QED  BY <1>18, <2>1, <3>1
  <2>2. CASE i \in e .. N - 1
    <3>1. From(i) = i /\ i # 0
      BY <1>6, <2>2
    <3>2. W2(i) = W(i) /\ V2(i) = V(i)
      BY <1>20, <2>2
    <3>3. A(i) \in Occupied(bs)
      BY <1>17, <1>24, <3>2
    <3> QED  BY <1>2, <3>1, <3>2, <3>3 DEF Placed
  <2> QED  BY <1>17, <1>19, <1>21, <1>24, <2>1, <2>2
<1>25. \A i, j \in BucketIndices : i # e - 1 /\ j # e - 1 /\ From(i) = From(j) => i = j
  BY <1>1, <1>6
<1>26. \A i \in BucketIndices : A(i) \in Occupied(bs2) => i # e - 1
  BY <1>17, <1>19
<1>27. ASSUME NEW i \in BucketIndices, A(i) \in Occupied(bs2)
       PROVE  V2(i) \in Indexed(bs) \ {bs[loc].value_index}
  <2>1. /\ From(i) \in BucketIndices /\ A(From(i)) \in Occupied(bs) /\ V2(i) = V(From(i))
        /\ From(i) # 0
    BY <1>24, <1>27
  <2> HIDE DEF From, A
  <2>2. A(From(i)) # A(0) /\ 0 \in BucketIndices
    BY <1>1, <1>9, <2>1
  <2>3. bs[A(From(i))].value_index # bs[loc].value_index
    BY <1>2, <1>10, <2>1, <2>2 DEF Distinct
  <2> QED  BY <2>1, <2>3 DEF Indexed
<1>28. Placed(bs2, hv2)
  <2> SUFFICES ASSUME NEW i \in BucketIndices, A(i) \in Occupied(bs2)
               PROVE  \E m \in BucketIndices : A(i) = ProbeLoc(hv2[V2(i)], m)
                                               /\ W2(i) = Word(hv2[V2(i)], m)
    <3>1. \A b \in Occupied(bs2) : b \in BucketIndices
      BY DEF Occupied
    <3> QED  BY <1>8, <3>1 DEF Placed
  <2>1. hv2[V2(i)] = hv[V2(i)]
    BY <1>27
  <2> QED  BY <1>24, <2>1
<1>29. Distinct(bs2)
  <2> SUFFICES ASSUME NEW i \in BucketIndices, A(i) \in Occupied(bs2),
                      NEW j \in BucketIndices, A(j) \in Occupied(bs2), V2(i) = V2(j)
               PROVE  A(i) = A(j)
    <3>1. \A b \in Occupied(bs2) : b \in BucketIndices
      BY DEF Occupied
    <3> QED  BY <1>8, <3>1 DEF Distinct
  <2>1. /\ From(i) \in BucketIndices /\ A(From(i)) \in Occupied(bs) /\ V2(i) = V(From(i))
        /\ From(j) \in BucketIndices /\ A(From(j)) \in Occupied(bs) /\ V2(j) = V(From(j))
    BY <1>24
  <2> HIDE DEF From, A
  <2>2. A(From(i)) = A(From(j))
    BY <1>2, <2>1 DEF Distinct
  <2>3. From(i) = From(j)
    BY <1>9, <2>1, <2>2
  <2> QED  BY <1>25, <1>26, <2>3
<1>30. Indexed(bs2) = Indexed(bs) \ {bs[loc].value_index}
  <2>1. ASSUME NEW b \in Occupied(bs2)
        PROVE  bs2[b].value_index \in Indexed(bs) \ {bs[loc].value_index}
    <3>1. PICK i \in BucketIndices : b = A(i)
      BY <1>8 DEF Occupied
    <3> QED  BY <1>27, <2>1, <3>1
  <2>2. ASSUME NEW b \in Occupied(bs), bs[b].value_index # bs[loc].value_index
        PROVE  bs[b].value_index \in Indexed(bs2)
    <3>1. PICK i \in BucketIndices : b = A(i)
      BY <1>8 DEF Occupied
    <3>2. W(i) # 0
      BY <1>17, <2>2, <3>1
    <3>3. i # 0
      BY <1>10, <2>2, <3>1
    <3>4. CASE i < e
      <4>1. i - 1 \in 0 .. e - 2 /\ (i - 1) + 1 = i /\ i - 1 \in BucketIndices
        BY <1>1, <1>6, <3>3, <3>4
      <4>2. W2(i - 1) = W(i) - D /\ V2(i - 1) = V(i) /\ W(i) \in Nat /\ W(i) >= 2 * D
        BY <1>18, <4>1
      <4>3. W2(i - 1) # 0
        <5> HIDE DEF W, W2, D
        <5> QED  BY <1>1, <4>2
      <4> QED  BY <1>17, <3>1, <4>1, <4>2, <4>3 DEF Indexed
    <3>5. CASE i >= e
      <4>1. i \in e .. N - 1
        BY <1>1, <1>6, <3>5
      <4> QED  BY <1>17, <1>20, <3>1, <3>2, <4>1 DEF Indexed
    <3> QED  BY <1>6, <1>17, <3>4, <3>5
  <2> QED  BY <2>1, <2>2 DEF Indexed
<1> HIDE DEF W, W2, D, A, From, V, V2
<1>31. W2(N) = W2(0)
  BY <1>10 DEF W2
<1>32. \A i \in 1 .. N : W2(i) >= 2 * D => W2(i) <= W2(i - 1) + D
  <2> SUFFICES ASSUME NEW i \in 1 .. N, W2(i) >= 2 * D PROVE W2(i) <= W2(i - 1) + D
    OBVIOUS
  <2>0. W(0) = WordAt(bs, loc) /\ W(N) = W(0)
    BY <1>10 DEF W
  <2>1. CASE i = N
    <3>1. e # 1
      BY <1>1, <1>19, <1>31, <2>1
    <3>2. 0 \in 0 .. e - 2 /\ 0 + 1 = 1 /\ 1 \in 1 .. N /\ 1 - 1 = 0 /\ N \in 1 .. N /\ 0 \in 0 .. N
      BY <1>1, <1>6, <3>1
    <3>3. W2(0) = W(1) - D /\ W(1) >= 2 * D /\ W(1) \in Nat
      BY <1>18, <3>2
    <3>4. W(1) <= W(0) + D /\ W(0) \in Nat
      BY <1>12, <1>13, <3>2, <3>3
    <3>5. W(0) >= 2 * D
      BY <1>1, <1>31, <2>1, <3>3, <3>4
    <3>6. W(N) <= W(N - 1) + D
      BY <1>13, <2>0, <3>2, <3>5
    <3>7. e # N
      BY <1>1, <1>4, <2>0, <3>4, <3>5
    <3>8. N - 1 \in e .. N - 1 /\ N - 1 \in 0 .. N
      BY <1>1, <1>6, <3>7
    <3>9. W2(N - 1) = W(N - 1) /\ W(N - 1) \in Nat
      BY <1>12, <1>20, <3>8
    <3> QED  BY <1>1, <1>31, <2>0, <2>1, <3>3, <3>4, <3>6, <3>9
  <2>2. CASE i # N /\ i <= e - 2
    <3>1. i \in 0 .. e - 2 /\ i - 1 \in 0 .. e - 2 /\ (i - 1) + 1 = i /\ i + 1 \in 1 .. N /\ (i + 1) - 1 = i
      BY <1>1, <1>6, <2>2
    <3>2. W2(i) = W(i + 1) - D /\ W(i + 1) \in Nat /\ W(i + 1) >= 2 * D
      BY <1>18, <3>1
    <3>3. W2(i - 1) = W(i) - D /\ W(i) \in Nat
      BY <1>18, <3>1
    <3>4. W(i + 1) <= W(i) + D
      BY <1>13, <3>1, <3>2
    <3> QED  BY <1>1, <3>2, <3>3, <3>4
  <2>3. CASE i # N /\ i = e - 1
    BY <1>1, <1>19, <2>3
  <2>4. CASE i # N /\ i = e
    <3>1. i \in e .. N - 1 /\ e < N /\ i \in 0 .. N
      BY <1>1, <1>6, <2>4
    <3>2. W2(i) = W(i) /\ W(e) < 2 * D /\ W(i) \in Nat
      BY <1>4, <1>12, <1>20, <3>1
    <3> QED  BY <1>1, <2>4, <3>2
  <2>5. CASE i # N /\ i > e
    <3>1. i \in e .. N - 1 /\ i - 1 \in e .. N - 1
      BY <1>1, <1>6, <2>5
    <3>2. W2(i) = W(i) /\ W2(i - 1) = W(i - 1)
      BY <1>20, <3>1
    <3> QED  BY <1>13, <3>2
  <2>6. i = N \/ (i # N /\ (i <= e - 2 \/ i = e - 1 \/ i = e \/ i > e))
    BY <1>1, <1>6
  <2> QED  BY <2>1, <2>2, <2>3, <2>4, <2>5, <2>6
<1>33. Ordered(bs2)
  BY <1>3, <1>32, OrderedFrom DEF W2, D, A
<1>34. SomeAtHome(bs2)
  <2>1. e - 1 \in BucketIndices /\ W2(e - 1) < 2 * D
    BY <1>1, <1>6, <1>19
  <2> QED  BY <1>17, <2>1 DEF SomeAtHome, W2, D
<1> QED  BY <1>22, <1>28, <1>29, <1>30, <1>33, <1>34 DEF GoodBuckets

-----------------------------------------------------------------------------
(* The key in a cell, and the hash of the key in each of them. *)
KeyAt(t, i) == KeyOf[t.values.storage.array[i]]

HashAt(t, hf) ==
  [i \in Links |-> IF i \in Live(t.values.storage) THEN hf[KeyAt(t, i)] ELSE 0]

(* A table that the functions of the class keep: a list of entries with    *)
(* different keys, and one bucket for each of them.                        *)
GoodTable(t, hf) ==
  /\ t \in Tables /\ t.values \in GoodLists
  /\ \A i \in Live(t.values.storage) : t.values.storage.array[i] \in Entries
  /\ \A i, j \in Live(t.values.storage) : KeyAt(t, i) = KeyAt(t, j) => i = j
  /\ GoodBuckets(t.buckets, HashAt(t, hf))
  /\ Indexed(t.buckets) = Live(t.values.storage)

(* The number of iterations of opaque_index_of. *)
Probes(t, h, key) == FirstExit(LAMBDA j : ProbeExits(t, h, key, j))

(* The members of a table that the functions of the class keep. *)
LEMMA TableFacts ==
  ASSUME NEW hf \in [Keys -> Nat], NEW t, GoodTable(t, hf)
  PROVE  /\ t.buckets \in [BucketIndices -> Buckets] /\ GoodBuckets(t.buckets, HashAt(t, hf))
         /\ t.values \in ListObjects /\ Live(t.values.storage) \subseteq Slots
         /\ \A i \in Live(t.values.storage) : i \in Links /\ KeyAt(t, i) \in Keys
                                              /\ HashAt(t, hf)[i] = hf[KeyAt(t, i)]
<1>1. t.buckets \in [BucketIndices -> Buckets] /\ t.values \in ListObjects
  BY DEF GoodTable, Tables
<1>2. Live(t.values.storage) \subseteq Slots /\ Slots \subseteq Links
  BY <1>1, ListFields
<1>3. \A i \in Live(t.values.storage) : KeyAt(t, i) \in Keys
  BY EntriesArePairs DEF GoodTable, KeyAt
<1> QED  BY <1>1, <1>2, <1>3 DEF HashAt, KeyAt, GoodTable

(* The loop of opaque_index_of ends, at the first iteration that exits. *)
LEMMA LookupEnds ==
  ASSUME NEW hf \in [Keys -> Nat], NEW t, GoodTable(t, hf), NEW key \in Keys, NEW h, h = hf[key],
         NEW k, k = Probes(t, h, key)
  PROVE  /\ k \in Iterations /\ ProbeExits(t, h, key, k)
         /\ \A j \in 0 .. k - 1 : ~ProbeExits(t, h, key, j)
         /\ (\E b \in BucketIndices : WordAt(t.buckets, b) = 0) => k \in BucketIndices
<1> DEFINE S == {j \in Iterations : ProbeExits(t, h, key, j)}
<1>1. h \in Nat
  OBVIOUS
<1>2. \A j : ProbeWord(h, j) > WordAt(t.buckets, ProbeLoc(h, j)) => ProbeExits(t, h, key, j)
  BY DEF ProbeExits, WordAt
<1>3. \E j \in Iterations : ProbeWord(h, j) > WordAt(t.buckets, ProbeLoc(h, j))
  BY <1>1, TableFacts, ProbesEnd
<1>4. S # {} /\ S \subseteq Nat
  BY <1>2, <1>3, TableSizes DEF Iterations
<1>5. PICK m \in S : \A y \in S : m <= y
  BY <1>4, LeastOfSet
<1>6. m \in Iterations /\ ProbeExits(t, h, key, m) /\ m \in Nat
  BY <1>4, <1>5
<1>7. \A j \in 0 .. m - 1 : ~ProbeExits(t, h, key, j)
  <2> SUFFICES ASSUME NEW j \in 0 .. m - 1 PROVE j \in Iterations /\ j \notin S
    OBVIOUS
  <2>1. j \in Iterations /\ ~(m <= j)
    BY <1>6, TableSizes DEF Iterations
  <2> QED  BY <1>5, <2>1
<1>8. /\ k \in Iterations /\ ProbeExits(t, h, key, k)
      /\ \A j \in 0 .. k - 1 : ~ProbeExits(t, h, key, j)
  BY <1>6, <1>7 DEF Probes, FirstExit
<1>9. ASSUME \E b \in BucketIndices : WordAt(t.buckets, b) = 0 PROVE k \in BucketIndices
  <2>1. PICK j \in BucketIndices : ProbeWord(h, j) > WordAt(t.buckets, ProbeLoc(h, j))
    BY <1>1, <1>9, TableFacts, ProbesEnd
  <2>2. ~(j \in 0 .. k - 1)
    BY <1>2, <1>8, <2>1
  <2>3. k \in Nat /\ j \in Nat /\ \A x \in 0 .. j : x \in BucketIndices
    BY <1>8, TableSizes, BucketNumbers DEF Iterations
  <2>4. k \in 0 .. j
    BY <2>2, <2>3
  <2> QED  BY <2>3, <2>4
<1> QED  BY <1>8, <1>9

(* A key that is stored is found, at its bucket. *)
LEMMA StoredKeysAreFound ==
  ASSUME NEW hf \in [Keys -> Nat], NEW t, GoodTable(t, hf), NEW key \in Keys, NEW h, h = hf[key],
         NEW i \in Live(t.values.storage), KeyAt(t, i) = key
  PROVE  LET index == opaque_index_of(t, h, key) IN
         /\ exists(index) /\ iterated_index_from(t, index) = i
         /\ index.bucket_index \in Occupied(t.buckets)
<1> DEFINE bs == t.buckets
           hv == HashAt(t, hf)
           k == Probes(t, h, key)
<1>1. /\ h \in Nat /\ bs \in [BucketIndices -> Buckets] /\ GoodBuckets(bs, hv)
      /\ hv[i] = h /\ i \in Slots
  BY TableFacts
<1>2. PICK b \in Occupied(bs) : bs[b].value_index = i
  BY DEF GoodTable, Indexed
<1>3. PICK m \in BucketIndices : b = ProbeLoc(h, m) /\ WordAt(bs, b) = Word(h, m)
  BY <1>1, <1>2 DEF GoodBuckets, Placed
<1>4. /\ k \in Iterations /\ ProbeExits(t, h, key, k)
      /\ \A j \in 0 .. k - 1 : ~ProbeExits(t, h, key, j)
  BY LookupEnds
<1> HIDE DEF k
<1>5. m \in Nat /\ k \in Nat
  BY <1>3, <1>4, TableSizes, BucketNumbers DEF Iterations
<1>6. \A j \in 0 .. m : j \in BucketIndices /\ ProbeWord(h, j) = Word(h, j) /\ Word(h, j) \in Nat
                        /\ Word(h, j) >= DIST_INC
                        /\ ProbeLoc(h, j) \in BucketIndices /\ WordAt(bs, ProbeLoc(h, j)) \in Nat
  <2> SUFFICES ASSUME NEW j \in 0 .. m
               PROVE  j \in BucketIndices /\ ProbeWord(h, j) = Word(h, j) /\ Word(h, j) \in Nat
                        /\ Word(h, j) >= DIST_INC
                        /\ ProbeLoc(h, j) \in BucketIndices /\ WordAt(bs, ProbeLoc(h, j)) \in Nat
    OBVIOUS
  <2>1. j \in BucketIndices
    BY BucketNumbers
  <2>2. j \in Nat /\ j \in 0 .. MAX_NUM_BUCKETS - 1
    BY <2>1, BucketNumbers
  <2>3. ProbeLoc(h, j) \in BucketIndices
    BY <1>1, <2>1, ProbeLocs
  <2>4. WordAt(bs, ProbeLoc(h, j)) \in Nat
    BY <1>1, <2>3, WordsAreNumbers
  <2> QED  BY <1>1, <2>1, <2>2, <2>3, <2>4, ProbeWords, WordFacts
<1>7. ProbeMatches(t, h, key, m)
  <2>1. KeyIsAt(t, i, key)
    BY <1>1 DEF KeyIsAt, GoodTable, KeyAt
  <2>2. m \in 0 .. m
    BY <1>5
  <2> QED  BY <1>2, <1>3, <1>6, <2>1, <2>2 DEF ProbeMatches, WordAt
<1>8. \A j \in 0 .. m : WordAt(bs, ProbeLoc(h, j)) >= Word(h, j)
  <2>1. WordAt(bs, ProbeLoc(h, m)) >= Word(h, m)
    <3>1. m \in 0 .. m
      BY <1>5
    <3>2. WordAt(bs, ProbeLoc(h, m)) = Word(h, m) /\ Word(h, m) \in Nat
      BY <1>3, <1>6, <3>1
    <3> QED  BY <3>2
  <2> QED  BY <1>1, <2>1, RunsReachHome DEF GoodBuckets
<1>9. ASSUME NEW j \in 0 .. m, ProbeMatches(t, h, key, j) PROVE j = m
  <2> DEFINE c == ProbeLoc(h, j)
             x == bs[c].value_index
  <2>1. WordAt(bs, c) = Word(h, j) /\ KeyIsAt(t, x, key)
    BY <1>6, <1>9 DEF ProbeMatches, WordAt
  <2>2. x \in Live(t.values.storage) /\ KeyAt(t, x) = key
    BY <2>1 DEF KeyIsAt, Live, KeyAt, Contents, Entries
  <2>3. x = i
    BY <2>2 DEF GoodTable
  <2>4. c \in Occupied(bs)
    <3>1. Word(h, j) # 0
      BY <1>6, TableSizes
    <3> QED  BY <1>6, <2>1, <3>1 DEF Occupied
  <2>5. c = b
    BY <1>1, <1>2, <2>3, <2>4 DEF GoodBuckets, Distinct
  <2>6. j \in BucketIndices /\ ProbeLoc(h, j) = ProbeLoc(h, m)
    BY <1>3, <1>6, <2>5
  <2>7. \A x1, x2 \in BucketIndices : ProbeLoc(h, x1) = ProbeLoc(h, x2) => x1 = x2
    BY <1>1, ProbeLocs
  <2> QED  BY <2>6, <2>7
<1>10. k = m
  <2>1. ProbeExits(t, h, key, m)
    BY <1>7 DEF ProbeExits
  <2>2. k <= m
    BY <1>4, <1>5, <2>1
  <2>3. k \in 0 .. m
    BY <1>5, <2>2
  <2>4. ~(ProbeWord(h, k) > WordAt(bs, ProbeLoc(h, k)))
    BY <1>6, <1>8, <2>3
  <2>5. ProbeMatches(t, h, key, k)
    BY <1>4, <2>4 DEF ProbeExits, WordAt
  <2> QED  BY <1>9, <2>3, <2>5
<1>11. opaque_index_of(t, h, key) =
         [bucket_index |-> ProbeLoc(h, m), dist_and_fingerprint |-> 0]
  BY <1>7, <1>10 DEF opaque_index_of, k, Probes
<1> QED  BY <1>2, <1>3, <1>11 DEF exists, iterated_index_from

(* The cells of the entries with a key. *)
EntriesWith(t, key) == {i \in Live(t.values.storage) : KeyAt(t, i) = key}

(* A key that is found is stored. *)
LEMMA FoundKeysAreStored ==
  ASSUME NEW hf \in [Keys -> Nat], NEW t, GoodTable(t, hf), NEW key \in Keys, NEW h, h = hf[key],
         exists(opaque_index_of(t, h, key))
  PROVE  LET index == opaque_index_of(t, h, key) IN
         /\ iterated_index_from(t, index) \in Live(t.values.storage)
         /\ iterated_index_from(t, index) \in EntriesWith(t, key)
         /\ index.bucket_index \in Occupied(t.buckets)
<1> DEFINE index == opaque_index_of(t, h, key)
           k == Probes(t, h, key)
           b == ProbeLoc(h, k)
           i == t.buckets[b].value_index
<1>1. k \in Iterations /\ ProbeExits(t, h, key, k)
  BY LookupEnds
<1>2. index = [bucket_index |-> b, dist_and_fingerprint |->
                 IF ProbeMatches(t, h, key, k) THEN 0 ELSE ProbeWord(h, k)]
  BY DEF opaque_index_of, Probes
<1>3. ProbeMatches(t, h, key, k)
  <2> SUFFICES ASSUME ~ProbeMatches(t, h, key, k) PROVE FALSE
    OBVIOUS
  <2>1. ProbeWord(h, k) = 0 /\ ProbeWord(h, k) > WordAt(t.buckets, b)
    BY <1>1, <1>2 DEF exists, ProbeExits, WordAt
  <2>2. b \in BucketIndices
    <3>1. bucket_index_from_hash(h) \in BucketIndices
      BY ProbeLocs
    <3>2. bucket_index_from_hash(h) + k \in Nat
      BY <1>1, <3>1, TableSizes, BucketNumbers DEF Iterations
    <3> QED  BY <3>2, TableSizes, RemainderInRange DEF ProbeLoc, Ahead, BucketIndices
  <2>3. WordAt(t.buckets, b) \in Nat
    BY <2>2, TableFacts, WordsAreNumbers
  <2> QED  BY <2>1, <2>3
<1>4. i \in Live(t.values.storage) /\ KeyAt(t, i) = key
  BY <1>3 DEF ProbeMatches, KeyIsAt, Live, KeyAt, Contents, Entries
<1>5. iterated_index_from(t, index) = i
  BY <1>2 DEF iterated_index_from
<1> QED  BY <1>4, <1>5, StoredKeysAreFound DEF EntriesWith

(* The index says where a key with this hash may go, and with which word. *)
IsPlaceFor(bs, h, index) ==
  \E k : GoodPlace(bs, h, k) /\ index =
    [bucket_index |-> ProbeLoc(h, k), dist_and_fingerprint |-> Word(h, k)]

(* The place of a key that is not found is a good one for it. *)
LEMMA AbsentKeysHavePlaces ==
  ASSUME NEW hf \in [Keys -> Nat], NEW t, GoodTable(t, hf), NEW key \in Keys, NEW h, h = hf[key],
         NEW index, index = opaque_index_of(t, h, key), ~exists(index),
         \E b \in BucketIndices : WordAt(t.buckets, b) = 0
  PROVE  IsPlaceFor(t.buckets, h, index)
<1> DEFINE k == Probes(t, h, key)
           bs == t.buckets
<1>1. /\ k \in BucketIndices /\ ProbeExits(t, h, key, k)
      /\ \A j \in 0 .. k - 1 : ~ProbeExits(t, h, key, j)
  BY LookupEnds
<1>2. index = [bucket_index |-> ProbeLoc(h, k), dist_and_fingerprint |->
                 IF ProbeMatches(t, h, key, k) THEN 0 ELSE ProbeWord(h, k)]
  BY DEF opaque_index_of, Probes
<1>3. ~ProbeMatches(t, h, key, k) /\ ProbeWord(h, k) > WordAt(bs, ProbeLoc(h, k))
  BY <1>1, <1>2 DEF exists, ProbeExits, WordAt
<1> HIDE DEF k
<1>4. \A j \in 0 .. k : /\ ProbeWord(h, j) = Word(h, j) /\ Word(h, j) \in Nat
                        /\ WordAt(bs, ProbeLoc(h, j)) \in Nat
  <2> SUFFICES ASSUME NEW j \in 0 .. k
               PROVE  /\ ProbeWord(h, j) = Word(h, j) /\ Word(h, j) \in Nat
                      /\ WordAt(bs, ProbeLoc(h, j)) \in Nat
    OBVIOUS
  <2>1. j \in BucketIndices
    BY <1>1, BucketNumbers
  <2>2. j \in Nat /\ j \in 0 .. MAX_NUM_BUCKETS - 1
    BY <2>1, BucketNumbers
  <2>3. ProbeLoc(h, j) \in BucketIndices
    BY <2>1, ProbeLocs
  <2>4. WordAt(bs, ProbeLoc(h, j)) \in Nat
    BY <2>3, TableFacts, WordsAreNumbers
  <2> QED  BY <2>1, <2>2, <2>3, <2>4, ProbeWords, WordFacts
<1>5. k \in Nat /\ k \in 0 .. k
  BY <1>1, BucketNumbers
<1>6. \A j \in 0 .. k - 1 : WordAt(bs, ProbeLoc(h, j)) >= Word(h, j)
  <2> SUFFICES ASSUME NEW j \in 0 .. k - 1 PROVE WordAt(bs, ProbeLoc(h, j)) >= Word(h, j)
    OBVIOUS
  <2>1. ~(ProbeWord(h, j) > WordAt(bs, ProbeLoc(h, j))) /\ j \in 0 .. k
    BY <1>1, <1>5 DEF ProbeExits, WordAt
  <2> QED  BY <1>4, <2>1
<1>7. ProbeWord(h, k) = Word(h, k)
  BY <1>4, <1>5
<1> QED  BY <1>1, <1>2, <1>3, <1>6, <1>7 DEF GoodPlace, IsPlaceFor

-----------------------------------------------------------------------------
(* A table with room for an entry has an empty bucket. *)
LEMMA RoomMeansEmptyBucket ==
  ASSUME NEW hf \in [Keys -> Nat], NEW t, GoodTable(t, hf), t.values.size < MAXIMUM_SIZE
  PROVE  \E b \in BucketIndices : WordAt(t.buckets, b) = 0
<1> SUFFICES ASSUME \A b \in BucketIndices : b \in Occupied(t.buckets) PROVE FALSE
  BY DEF Occupied
<1> DEFINE n == t.values.size
           f(e) == [b \in BucketIndices |->
                      CHOOSE k \in 1 .. n : e[k] = t.buckets[b].value_index]
<1>1. t.values \in ListObjects /\ WellFormedChain(t.values)
  BY DEF GoodTable, GoodLists
<1>2. n \in Nat /\ n < MAXIMUM_SIZE
  BY <1>1, ListFields
<1>3. PICK e : Order(t.values, e)
  BY <1>1, ChainHasOrder
<1>4. \A b \in BucketIndices : t.buckets[b].value_index \in Live(t.values.storage)
  BY DEF GoodTable, Indexed
<1>5. \A b \in BucketIndices : f(e)[b] \in 1 .. n /\ e[f(e)[b]] = t.buckets[b].value_index
  BY <1>3, <1>4 DEF Order
<1>6. f(e) \in [BucketIndices -> 1 .. n]
  BY <1>5
<1>7. \A b, c \in BucketIndices : f(e)[b] = f(e)[c] => b = c
  <2> HIDE DEF f
  <2> SUFFICES ASSUME NEW b \in BucketIndices, NEW c \in BucketIndices, f(e)[b] = f(e)[c]
               PROVE  b = c
    OBVIOUS
  <2>1. t.buckets[b].value_index = t.buckets[c].value_index
    BY <1>5
  <2> QED  BY <2>1 DEF GoodTable, GoodBuckets, Distinct
<1>8. IsFiniteSet(1 .. n) /\ Cardinality(1 .. n) = n
  <2> HIDE DEF n
  <2> QED  BY <1>2, FS_Interval
<1>9. IsFiniteSet(BucketIndices) /\ Cardinality(BucketIndices) = INTERNAL_TABLE_SIZE
  BY TableSizes, FS_Interval DEF BucketIndices
<1>10. Cardinality(1 .. n) < Cardinality(BucketIndices)
  BY <1>2, <1>8, <1>9, TableSizes
<1> DEFINE g == f(e)
<1>11. g \in [BucketIndices -> 1 .. n] /\ \A b, c \in BucketIndices : g[b] = g[c] => b = c
  BY <1>6, <1>7
<1> HIDE DEF g, f, n
<1>12. \E b, c \in BucketIndices : b # c /\ g[b] = g[c]
  BY <1>8, <1>9, <1>10, <1>11, FS_PigeonHole
<1> QED  BY <1>11, <1>12

(* An entry has the members that it was made from. *)
LEMMA EntryMembers ==
  ASSUME NEW key \in Keys, NEW x \in Mapped
  PROVE  /\ Entry(key, x) \in Entries /\ Entry(key, x) \in Contents
         /\ KeyOf[Entry(key, x)] = key /\ MappedOf[Entry(key, x)] = x
         /\ \A f \in Entries : KeyOf[f] = key /\ MappedOf[f] = x => f = Entry(key, x)
<1>1. PICK e \in Entries : \A f \in Entries : f = e <=> KeyOf[f] = key /\ MappedOf[f] = x
  BY EntriesArePairs
<1>2. KeyOf[e] = key /\ MappedOf[e] = x
  BY <1>1
<1>3. Entry(key, x) \in Entries /\ KeyOf[Entry(key, x)] = key /\ MappedOf[Entry(key, x)] = x
  BY <1>1, <1>2 DEF Entry
<1> QED  BY <1>1, <1>3 DEF Entries, Contents

(* emplace keeps a table good and adds the entry. *)
LEMMA EmplaceKeepsTable ==
  ASSUME NEW hf \in [Keys -> Nat], NEW t, GoodTable(t, hf), NEW key \in Keys, NEW x \in Mapped,
         NEW index, index = opaque_index_of(t, hf[key], key), ~exists(index),
         t.values.size < MAXIMUM_SIZE
  PROVE  GoodTable(emplace(t, index, Entry(key, x)), hf)
<1> DEFINE h == hf[key]
           e == Entry(key, x)
           l == t.values
           v == l.storage.next_index
           m == emplace_after_index(l, back_index(l), e)
           bs2 == emplace(t, index, e).buckets
           t2 == emplace(t, index, e)
<1>1. h \in Nat /\ e \in Entries /\ e \in Contents /\ KeyOf[e] = key
  BY EntryMembers
<1>2. \E b \in BucketIndices : WordAt(t.buckets, b) = 0
  BY RoomMeansEmptyBucket
<1>3. PICK k : GoodPlace(t.buckets, h, k) /\ index =
           [bucket_index |-> ProbeLoc(h, k), dist_and_fingerprint |-> Word(h, k)]
  <2>1. h = hf[key] /\ index = opaque_index_of(t, h, key)
    OBVIOUS
  <2> HIDE DEF h
  <2>2. IsPlaceFor(t.buckets, h, index)
    BY <1>2, <2>1, AbsentKeysHavePlaces
  <2> QED  BY <2>2 DEF IsPlaceFor
<1>4. l \in GoodLists /\ l \in ListObjects /\ WellFormedPool(l.storage) /\ l.storage \in Pools
  BY ListFields DEF GoodTable, GoodLists
<1>5. ~full(l.storage)
  BY <1>4, FullMeansMaximumSize, MaximumSizeIsNat, ListFields
<1>6. /\ v \in Slots /\ v \notin Live(l.storage)
      /\ Live(emplace_and_return_index(l.storage, e)) = Live(l.storage) \cup {v}
      /\ \A i \in Slots \ {v} : emplace_and_return_index(l.storage, e).array[i] = l.storage.array[i]
  BY <1>1, <1>4, <1>5, EmplaceTakesAFreeCell
<1>7. emplace_and_return_index(l.storage, e).array[v] = e
  BY <1>4, <1>6 DEF emplace_and_return_index, Pools
<1>8. m.storage = emplace_and_return_index(l.storage, e)
  BY DEF emplace_after_index
<1>9. back_index(l) \in Live(l.storage) \cup {NULL_INDEX}
  <2>1. NULL_INDEX \in Live(l.storage) \cup {NULL_INDEX}
    OBVIOUS
  <2> QED  BY <1>4, <2>1, LinksStayInList DEF back_index
<1>10. m \in GoodLists
  BY <1>1, <1>4, <1>5, <1>9, EmplaceKeepsGood
<1>11. t2.values = m /\ t2 = [values |-> m, buckets |-> bs2]
       /\ bs2 = place_and_shift_up(t.buckets,
                    [dist_and_fingerprint |-> Word(h, k), value_index |-> v], ProbeLoc(h, k))
  BY <1>3 DEF emplace
<1> HIDE DEF e, m, h, bs2, t2
<1>12. \A i \in Live(l.storage) : i \in Slots \ {v} /\ m.storage.array[i] = l.storage.array[i]
  BY <1>6, <1>8 DEF Live
<1>13. Live(t2.values.storage) = Live(l.storage) \cup {v} /\ t2.values.storage.array[v] = e
       /\ \A i \in Live(l.storage) : t2.values.storage.array[i] = l.storage.array[i]
  BY <1>6, <1>7, <1>8, <1>11, <1>12
<1>14. \A i \in Live(t2.values.storage) : t2.values.storage.array[i] \in Entries
  BY <1>1, <1>13 DEF GoodTable
<1>15. \A i \in Live(l.storage) : KeyAt(t2, i) = KeyAt(t, i) /\ KeyAt(t, i) # key
  <2> SUFFICES ASSUME NEW i \in Live(l.storage) PROVE KeyAt(t2, i) = KeyAt(t, i) /\ KeyAt(t, i) # key
    OBVIOUS
  <2>1. KeyAt(t2, i) = KeyAt(t, i)
    BY <1>13 DEF KeyAt
  <2>2. KeyAt(t, i) # key
    BY StoredKeysAreFound DEF h
  <2> QED  BY <2>1, <2>2
<1>16. KeyAt(t2, v) = key
  BY <1>1, <1>13 DEF KeyAt
<1>17. \A i, j \in Live(t2.values.storage) : KeyAt(t2, i) = KeyAt(t2, j) => i = j
  BY <1>13, <1>15, <1>16 DEF GoodTable
<1>18. Live(t2.values.storage) \subseteq Links /\ v \in Links
  BY <1>4, <1>6, <1>13, ListFields
<1>19. /\ HashAt(t2, hf) \in [Links -> Nat] /\ HashAt(t2, hf)[v] = h
       /\ \A i \in Live(l.storage) : HashAt(t2, hf)[i] = HashAt(t, hf)[i]
  <2>1. \A i \in Live(t2.values.storage) : KeyAt(t2, i) \in Keys
    BY <1>13, <1>15, <1>16, TableFacts
  <2>2. \A i \in Live(t2.values.storage) : hf[KeyAt(t2, i)] \in Nat
    BY <2>1
  <2>3. HashAt(t2, hf) \in [Links -> Nat]
    BY <2>2 DEF HashAt
  <2>4. \A i \in Live(t2.values.storage) : HashAt(t2, hf)[i] = hf[KeyAt(t2, i)]
    BY <1>18 DEF HashAt
  <2> QED  BY <1>13, <1>15, <1>16, <2>3, <2>4, TableFacts DEF h
<1>20. Indexed(t.buckets) = Live(l.storage) /\ GoodBuckets(t.buckets, HashAt(t, hf))
  BY DEF GoodTable
<1>21. GoodBuckets(bs2, HashAt(t2, hf)) /\ Indexed(bs2) = Indexed(t.buckets) \cup {v}
  BY <1>1, <1>3, <1>6, <1>11, <1>18, <1>19, <1>20, PlacingKeepsBuckets
<1>22. t2 \in Tables
  BY <1>10, <1>11, <1>21 DEF Tables, GoodBuckets, GoodLists
<1>23. t2.buckets = bs2
  BY <1>11
<1>24. GoodTable(t2, hf)
  BY <1>10, <1>11, <1>13, <1>14, <1>17, <1>20, <1>21, <1>22, <1>23 DEF GoodTable
<1> QED  BY <1>24 DEF t2, e

(* erase keeps a table good. *)
LEMMA EraseKeepsTable ==
  ASSUME NEW hf \in [Keys -> Nat], NEW t, GoodTable(t, hf),
         NEW index, index.bucket_index \in Occupied(t.buckets)
  PROVE  /\ GoodTable(erase(t, index), hf)
         /\ iterated_index_from(t, index) \in Live(t.values.storage)
         /\ erase(t, index).values = delete_at(t.values, iterated_index_from(t, index))
<1> DEFINE l == t.values
           v == iterated_index_from(t, index)
           m == delete_at(l, v)
           bs2 == erase_bucket(t.buckets, index.bucket_index)
           t2 == erase(t, index)
<1>1. Indexed(t.buckets) = Live(l.storage) /\ GoodBuckets(t.buckets, HashAt(t, hf))
  BY DEF GoodTable
<1>2. v = t.buckets[index.bucket_index].value_index /\ v \in Live(l.storage)
  BY <1>1 DEF iterated_index_from, Indexed
<1>3. t2 = [values |-> m, buckets |-> bs2]
  BY DEF erase
<1>4. l \in GoodLists /\ l \in ListObjects /\ WellFormedPool(l.storage) /\ l.storage \in Pools
  BY ListFields DEF GoodTable, GoodLists
<1>5. m \in GoodLists /\ Live(m.storage) = Live(l.storage) \ {v}
  BY <1>2, <1>4, DeleteKeepsGood
<1>6. \A i \in Slots \ {v} : m.storage.array[i] = l.storage.array[i]
  <2>1. m.storage = delete_at_and_return_repositioned_index(l.storage, v)
    BY DEF delete_at
  <2> QED  BY <1>2, <1>4, <2>1, DeleteFreesTheCell
<1> HIDE DEF v, m, bs2, t2
<1>7. /\ Live(t2.values.storage) = Live(l.storage) \ {v}
      /\ \A i \in Live(t2.values.storage) : t2.values.storage.array[i] = l.storage.array[i]
  BY <1>3, <1>5, <1>6 DEF Live
<1>8. \A i \in Live(t2.values.storage) : KeyAt(t2, i) = KeyAt(t, i)
  BY <1>7 DEF KeyAt
<1>9. HashAt(t2, hf) \in [Links -> Nat]
      /\ \A i \in Live(t2.values.storage) : HashAt(t2, hf)[i] = HashAt(t, hf)[i]
  <2>1. \A i \in Live(t2.values.storage) : i \in Links /\ KeyAt(t2, i) \in Keys
    BY <1>7, <1>8, TableFacts
  <2>2. \A i \in Live(t2.values.storage) : hf[KeyAt(t2, i)] \in Nat
    BY <2>1
  <2>3. HashAt(t2, hf) \in [Links -> Nat]
    BY <2>2 DEF HashAt
  <2>4. \A i \in Live(t2.values.storage) : HashAt(t2, hf)[i] = hf[KeyAt(t2, i)]
    BY <2>1 DEF HashAt
  <2> QED  BY <1>7, <1>8, <2>3, <2>4, TableFacts
<1>10. GoodBuckets(bs2, HashAt(t2, hf)) /\ Indexed(bs2) = Indexed(t.buckets) \ {v}
  BY <1>1, <1>2, <1>7, <1>9, ErasingKeepsBuckets DEF bs2
<1>11. t2.values = m /\ t2.buckets = bs2
  BY <1>3
<1>12. t2 \in Tables
  BY <1>3, <1>5, <1>10 DEF Tables, GoodBuckets, GoodLists
<1>13. \A i \in Live(t2.values.storage) : t2.values.storage.array[i] \in Entries
  BY <1>7 DEF GoodTable
<1>14. \A i, j \in Live(t2.values.storage) : KeyAt(t2, i) = KeyAt(t2, j) => i = j
  BY <1>7, <1>8 DEF GoodTable
<1>15. GoodTable(t2, hf)
  BY <1>1, <1>5, <1>7, <1>10, <1>11, <1>12, <1>13, <1>14 DEF GoodTable
<1> QED  BY <1>2, <1>11, <1>15 DEF t2, v, m

(* insert_or_assign on a key that is present replaces its mapped value. *)
AssignedTable(t, i, x) == [t EXCEPT !.values.storage.array[i] = Entry(KeyOf[@], x)]

(* insert_or_assign on a key that is present changes no key: every bucket  *)
(* stays good.                                                             *)
LEMMA AssignKeepsTable ==
  ASSUME NEW hf \in [Keys -> Nat], NEW t, GoodTable(t, hf), NEW i \in Live(t.values.storage),
         NEW x \in Mapped,
         NEW t2, t2 = AssignedTable(t, i, x)
  PROVE  GoodTable(t2, hf)
<1> DEFINE l == t.values
           e == Entry(KeyAt(t, i), x)
           m == Assigned(l, i, e)
<1>1. KeyAt(t, i) \in Keys
  BY TableFacts
<1>2. e \in Entries /\ e \in Contents /\ KeyOf[e] = KeyAt(t, i)
  BY <1>1, EntryMembers
<1>3. l \in GoodLists
  BY DEF GoodTable
<1>4. t = [values |-> t.values, buckets |-> t.buckets]
  BY DEF GoodTable, Tables
<1>5. t2.values = m /\ t2.buckets = t.buckets /\ t2 = [values |-> m, buckets |-> t.buckets]
  BY <1>4 DEF KeyAt, Assigned, AssignedTable
<1> HIDE DEF m, e
<1>6. /\ m \in GoodLists /\ Live(m.storage) = Live(l.storage) /\ m.storage.array[i] = e
      /\ \A j \in Slots \ {i} : m.storage.array[j] = l.storage.array[j]
  <2>1. m = Assigned(l, i, e)
    BY DEF m
  <2>2. i \in Live(l.storage) /\ e \in Contents /\ l \in GoodLists
    BY <1>2, <1>3
  <2> HIDE DEF l
  <2> QED  BY <2>1, <2>2, AssignKeepsOrder
<1>7. \A j \in Live(t2.values.storage) : t2.values.storage.array[j] \in Entries
  BY <1>2, <1>5, <1>6 DEF GoodTable, Live
<1>8. \A j \in Live(l.storage) : KeyAt(t2, j) = KeyAt(t, j)
  BY <1>2, <1>5, <1>6 DEF KeyAt, Live
<1>9. HashAt(t2, hf) = HashAt(t, hf)
  <2>1. Live(t2.values.storage) = Live(l.storage)
    BY <1>5, <1>6
  <2>2. \A j \in Links :
          (IF j \in Live(t2.values.storage) THEN hf[KeyAt(t2, j)] ELSE 0)
            = IF j \in Live(t.values.storage) THEN hf[KeyAt(t, j)] ELSE 0
    BY <1>8, <2>1
  <2> QED  BY <2>2 DEF HashAt
<1>10. \A j, k \in Live(t2.values.storage) : KeyAt(t2, j) = KeyAt(t2, k) => j = k
  BY <1>5, <1>6, <1>8 DEF GoodTable
<1>11. t2 \in Tables
  BY <1>5, <1>6 DEF GoodTable, Tables, GoodLists
<1> QED  BY <1>5, <1>6, <1>7, <1>9, <1>10, <1>11 DEF GoodTable

(* A new table. *)
LEMMA EmptyTableIsGood ==
  ASSUME NEW hf \in [Keys -> Nat]
  PROVE  GoodTable(EmptyTable, hf)
<1> DEFINE bs == [b \in BucketIndices |-> EmptyBucket]
<1>1. EmptyList \in GoodLists /\ Live(EmptyList.storage) = {}
  BY EmptyListIsGood
<1>2. EmptyTable.values = EmptyList /\ EmptyTable.buckets = bs
  BY DEF EmptyTable
<1>3. Words \in Nat /\ Words > 0 /\ 0 \in Links
  BY TableSizes, MaximumSizeIsNat DEF Words, Links
<1>4. EmptyBucket \in Buckets /\ EmptyBucket.dist_and_fingerprint = 0
  BY <1>3 DEF EmptyBucket, Buckets
<1>5. bs \in [BucketIndices -> Buckets]
  BY <1>4
<1>6. \A b \in BucketIndices : WordAt(bs, b) = 0
  BY <1>4 DEF WordAt
<1> HIDE DEF bs
<1>7. Occupied(bs) = {}
  BY <1>6 DEF Occupied
<1>8. HashAt(EmptyTable, hf) \in [Links -> Nat]
  BY <1>1, <1>2 DEF HashAt
<1>9. Ordered(bs) /\ SomeAtHome(bs)
  <2>1. DIST_INC \in Nat /\ DIST_INC > 0 /\ 0 \in BucketIndices
    BY TableSizes DEF BucketIndices
  <2> QED  BY <1>6, <2>1 DEF Ordered, SomeAtHome
<1>10. GoodBuckets(bs, HashAt(EmptyTable, hf)) /\ Indexed(bs) = {}
  BY <1>5, <1>7, <1>8, <1>9 DEF GoodBuckets, Placed, Distinct, Indexed
<1>11. EmptyTable \in Tables
  BY <1>1, <1>5 DEF EmptyTable, Tables, GoodLists, bs
<1> QED  BY <1>1, <1>2, <1>10, <1>11 DEF GoodTable

-----------------------------------------------------------------------------
(* The inductive invariant: every map that was not moved from is good, and *)
(* a loop stands between two places of the list of such a map.             *)
HashtableInv ==
  /\ TypeOK /\ hash \in HashFunctions
  /\ \A o \in Objects : Usable(o) => GoodTable(tables[o], hash)
  /\ loop # NoLoop =>
       /\ loop \in Loops /\ Usable(loop.map)
       /\ LoopPlace(tables[loop.map].values, loop.cur_index, loop.end, FALSE)

(* Every hash function maps keys to numbers. *)
LEMMA HashIsAFunction ==
  ASSUME hash \in HashFunctions
  PROVE  hash \in [Keys -> Nat]
BY HashesAreNumbers

(* The copy of a table is the table, whatever list it is copied to. *)
LEMMA TableCopyIsTheSame ==
  ASSUME NEW t \in Tables, t.values \in GoodLists, NEW this
  PROVE  TableCopies(this, t) = {t}
<1>1. t = [values |-> t.values, buckets |-> t.buckets]
  BY DEF Tables
<1>2. Copies(this, t.values) = {t.values}
  BY CopyIsTheSame
<1> QED  BY <1>1, <1>2 DEF TableCopies

(* Between two calls a map may be replaced by any good one. *)
LEMMA ReplacingKeepsInv ==
  ASSUME HashtableInv, loop = NoLoop, NEW o \in Objects, NEW t, GoodTable(t, hash),
         tables' = [tables EXCEPT ![o] = t], moved' = moved \/ moved' = moved \ {o},
         hash' = hash, loop' = loop, aborted' = aborted
  PROVE  HashtableInv'
<1>1. t \in Tables
  BY DEF GoodTable
<1>2. tables \in [Objects -> Tables \cup {NoObject}]
  BY DEF HashtableInv, TypeOK
<1>3. tables' \in [Objects -> Tables \cup {NoObject}] /\ tables'[o] = t
      /\ \A p \in Objects \ {o} : tables'[p] = tables[p]
  BY <1>1, <1>2
<1>4. TypeOK'
  BY <1>3 DEF HashtableInv, TypeOK
<1>5. \A p \in Objects : Usable(p)' => GoodTable(tables'[p], hash')
  <2> SUFFICES ASSUME NEW p \in Objects, Usable(p)' PROVE GoodTable(tables'[p], hash)
    OBVIOUS
  <2>1. CASE p = o
    BY <1>3, <2>1
  <2>2. CASE p # o
    <3>1. Usable(p)
      BY <1>3, <2>2 DEF Usable, Alive
    <3> QED  BY <1>3, <2>2, <3>1 DEF HashtableInv
  <2> QED  BY <2>1, <2>2
<1> QED  BY <1>4, <1>5 DEF HashtableInv

(* What every call on a map may use. *)
LEMMA CallableMaps ==
  ASSUME HashtableInv, NEW o \in Objects, Callable(o)
  PROVE  /\ loop = NoLoop /\ Usable(o) /\ GoodTable(tables[o], hash) /\ tables[o] \in Tables
         /\ hash \in [Keys -> Nat] /\ tables[o].values \in GoodLists
<1>1. loop = NoLoop /\ Usable(o)
  BY DEF Callable, Idle, Usable
<1> QED  BY <1>1, HashIsAFunction DEF HashtableInv, GoodTable

(* The insertions. *)
LEMMA InsertingKeepsInv ==
  ASSUME HashtableInv, NEW o \in Objects, Callable(o), NEW key \in Keys, NEW x \in Mapped,
         EmplaceAbsent(o, key, x)
  PROVE  HashtableInv'
<1>1. /\ loop = NoLoop /\ GoodTable(tables[o], hash) /\ hash \in [Keys -> Nat]
      /\ tables \in [Objects -> Tables \cup {NoObject}]
  BY CallableMaps DEF HashtableInv, TypeOK
<1>2. CASE /\ size(o) < MAXIMUM_SIZE
           /\ tables' = [tables EXCEPT ![o] = emplace(@, index_of(o, key), Entry(key, x))]
           /\ UNCHANGED <<hash, moved, loop, aborted>>
  <2> DEFINE t == emplace(tables[o], index_of(o, key), Entry(key, x))
  <2>1. GoodTable(t, hash)
    BY <1>1, <1>2, EmplaceKeepsTable DEF EmplaceAbsent, index_of, size
  <2>2. tables' = [tables EXCEPT ![o] = t]
    BY <1>1, <1>2
  <2> HIDE DEF t
  <2> QED  BY <1>1, <1>2, <2>1, <2>2, ReplacingKeepsInv
<1>3. CASE aborted' = TRUE /\ UNCHANGED <<tables, hash, moved, loop>>
  BY <1>3 DEF HashtableInv, TypeOK, Usable, Alive, Loops
<1> QED  BY <1>2, <1>3 DEF EmplaceAbsent

(* insert_or_assign on a key that is present. *)
LEMMA AssigningKeepsInv ==
  ASSUME HashtableInv, NEW o \in Objects, Callable(o), NEW key \in Keys, NEW x \in Mapped,
         exists(index_of(o, key)),
         LET i == iterated_index_from(tables[o], index_of(o, key)) IN
           tables' = [tables EXCEPT ![o].values.storage.array[i] = Entry(KeyOf[@], x)],
         UNCHANGED <<hash, moved, loop, aborted>>
  PROVE  HashtableInv'
<1> DEFINE i == iterated_index_from(tables[o], index_of(o, key))
           t == AssignedTable(tables[o], i, x)
<1>1. /\ loop = NoLoop /\ GoodTable(tables[o], hash) /\ hash \in [Keys -> Nat]
      /\ tables \in [Objects -> Tables \cup {NoObject}]
  BY CallableMaps DEF HashtableInv, TypeOK
<1>2. i \in Live(tables[o].values.storage)
  BY <1>1, FoundKeysAreStored DEF index_of
<1>3. tables' = [tables EXCEPT ![o] = t]
  BY <1>1 DEF AssignedTable
<1> HIDE DEF i
<1>4. GoodTable(t, hash)
  BY <1>1, <1>2, AssignKeepsTable
<1> HIDE DEF t
<1> QED  BY <1>1, <1>3, <1>4, ReplacingKeepsInv

(* operator[], insert, try_emplace and insert_or_assign keep the           *)
(* invariant.                                                              *)
LEMMA InsertionKeepsInv ==
  ASSUME HashtableInv, NEW o \in Objects, Insertion(o)
  PROVE  HashtableInv'
<1>1. PICK key \in Keys :
        \/ subscript(o, key) \/ SetInsert(o, key) \/ SetTryEmplace(o, key)
        \/ \E x \in Mapped : insert(o, key, x) \/ try_emplace(o, key, x)
                             \/ insert_or_assign(o, key, x)
  BY DEF Insertion
<1>2. CASE subscript(o, key) \/ SetInsert(o, key) \/ SetTryEmplace(o, key)
  BY <1>2, DefaultIsMapped, InsertingKeepsInv DEF subscript, SetInsert, SetTryEmplace
<1>3. ASSUME NEW x \in Mapped, insert(o, key, x) \/ try_emplace(o, key, x)
      PROVE  HashtableInv'
  BY <1>3, InsertingKeepsInv DEF insert, try_emplace
<1>4. ASSUME NEW x \in Mapped, insert_or_assign(o, key, x)
      PROVE  HashtableInv'
  BY <1>4, InsertingKeepsInv, AssigningKeepsInv DEF insert_or_assign
<1> QED  BY <1>1, <1>2, <1>3, <1>4

(* erase(key), and erase(pos). *)
LEMMA ErasingKeepsInv ==
  ASSUME HashtableInv, NEW o \in Objects, NEW key \in Keys, erase_key(o, key)
  PROVE  HashtableInv'
<1> DEFINE t == erase(tables[o], index_of(o, key))
<1>1. Callable(o) /\ exists(index_of(o, key))
  BY DEF erase_key
<1>2. /\ loop = NoLoop /\ GoodTable(tables[o], hash) /\ hash \in [Keys -> Nat]
      /\ tables \in [Objects -> Tables \cup {NoObject}]
  BY <1>1, CallableMaps DEF HashtableInv, TypeOK
<1>3. index_of(o, key).bucket_index \in Occupied(tables[o].buckets)
  BY <1>1, <1>2, FoundKeysAreStored DEF index_of
<1>4. GoodTable(t, hash)
  BY <1>2, <1>3, EraseKeepsTable
<1>5. tables' = [tables EXCEPT ![o] = t] /\ UNCHANGED <<hash, moved, loop, aborted>>
  BY <1>2 DEF erase_key
<1> HIDE DEF t
<1> QED  BY <1>2, <1>4, <1>5, ReplacingKeepsInv

(* The beginning of a loop. *)
LEMMA StartingKeepsInv ==
  ASSUME HashtableInv, NEW o \in Objects, Usable(o), NEW first \in Links, NEW last \in Links,
         LoopPlace(tables[o].values, first, last, FALSE), NEW doomed \in SUBSET Keys,
         loop' = [map |-> o, cur_index |-> first, end |-> last, doomed |-> doomed],
         UNCHANGED <<tables, hash, moved, aborted>>
  PROVE  HashtableInv'
<1>1. /\ loop' \in Loops /\ loop'.map = o /\ loop'.cur_index = first /\ loop'.end = last
  BY DEF Loops
<1>2. TypeOK'
  BY <1>1 DEF HashtableInv, TypeOK, Loops
<1>3. \A p \in Objects : Usable(p)' <=> Usable(p)
  BY DEF Usable, Alive
<1> QED  BY <1>1, <1>2, <1>3 DEF HashtableInv

(* erase, erase_if, clear and at keep the invariant; the loops only start. *)
LEMMA RemovalKeepsInv ==
  ASSUME HashtableInv, ~ClearMovedFrom, NEW o \in Objects, Removal(o)
  PROVE  HashtableInv'
<1>1. ASSUME NEW key \in Keys, erase_key(o, key) \/ SetErase(o, key) PROVE HashtableInv'
  BY <1>1, ErasingKeepsInv DEF SetErase
<1>2. ASSUME NEW key \in Keys, at_absent(o, key) PROVE HashtableInv'
  BY <1>2 DEF at_absent, HashtableInv, TypeOK, Usable, Alive, Loops
<1>3. ASSUME NEW doomed \in Predicates, erase_if(o, doomed) PROVE HashtableInv'
  <2>1. Usable(o) /\ tables[o].values \in GoodLists /\ NULL_INDEX \in Links
    BY <1>3, CallableMaps, ListFields DEF erase_if, GoodLists
  <2>2. LoopPlace(tables[o].values, front_index(tables[o].values), NULL_INDEX, FALSE)
        /\ front_index(tables[o].values) \in Links
    BY <2>1, ClearingLoopPlace DEF LoopPlace
  <2> QED  BY <1>3, <2>1, <2>2, StartingKeepsInv, PredicatesAreSetsOfKeys DEF erase_if
<1>4. ASSUME NEW first \in Links, NEW last \in Links, erase_range(o, first, last)
      PROVE  HashtableInv'
  <2>1. Usable(o) /\ tables[o].values \in GoodLists
    BY <1>4, CallableMaps DEF erase_range
  <2>2. LoopPlace(tables[o].values, first, last, FALSE)
    BY <1>4, <2>1, RangeHasLoopPlace DEF erase_range
  <2> QED  BY <1>4, <2>1, <2>2, StartingKeepsInv DEF erase_range
<1>5. ASSUME clear(o) PROVE HashtableInv'
  <2>0. Callable(o)
    BY <1>5 DEF clear, Callable
  <2>1. Usable(o) /\ tables[o].values \in GoodLists /\ NULL_INDEX \in Links
    BY <2>0, CallableMaps, ListFields DEF GoodLists
  <2>2. LoopPlace(tables[o].values, front_index(tables[o].values), NULL_INDEX, FALSE)
        /\ front_index(tables[o].values) \in Links
    BY <2>1, ClearingLoopPlace DEF LoopPlace
  <2> QED  BY <1>5, <2>1, <2>2, StartingKeepsInv DEF clear
<1> QED  BY <1>1, <1>2, <1>3, <1>4, <1>5 DEF Removal

(* The steps of a loop. *)
LEMMA LoopKeepsInv ==
  ASSUME HashtableInv, Loop
  PROVE  HashtableInv'
<1> DEFINE o == loop.map
           i == loop.cur_index
           to == loop.end
           t == tables[o]
<1>1. /\ loop # NoLoop /\ loop \in Loops /\ Usable(o) /\ LoopPlace(t.values, i, to, FALSE)
      /\ tables \in [Objects -> Tables \cup {NoObject}] /\ TypeOK
  BY DEF Loop, LoopBody, LoopKeeps, LoopEnd, HashtableInv, TypeOK
<1>2. o \in Objects /\ i \in Links /\ to \in Links /\ loop.doomed \in SUBSET Keys
      /\ loop = [map |-> o, cur_index |-> i, end |-> to, doomed |-> loop.doomed]
  BY <1>1 DEF Loops
<1>3. GoodTable(t, hash) /\ hash \in [Keys -> Nat] /\ t.values \in GoodLists
  BY <1>1, <1>2, HashIsAFunction DEF HashtableInv, GoodTable
<1>4. ASSUME LoopBody PROVE HashtableInv'
  <2>1. i # to
    BY <1>4 DEF LoopBody
  <2>2. i \in Live(t.values.storage)
    BY <1>1, <1>3, <2>1, DeleteKeepsLoopPlace
  <2>3. KeysAt(t, i) = {KeyAt(t, i)} /\ KeyAt(t, i) \in Keys
    BY <1>3, <2>2, TableFacts DEF GoodTable, KeysAt, KeyAt
  <2> DEFINE key == KeyAt(t, i)
             index == index_of(o, key)
             t2 == erase(t, index)
  <2>4. /\ tables' = [tables EXCEPT ![o] = t2]
        /\ loop' = [loop EXCEPT !.cur_index = IndexAfterErase(t, index)]
        /\ UNCHANGED <<hash, moved, aborted>>
    BY <1>4, <2>3 DEF LoopBody
  <2>5. index = opaque_index_of(t, hash[key], key)
    BY DEF index_of
  <2>6. iterated_index_from(t, index) = i /\ index.bucket_index \in Occupied(t.buckets)
    BY <1>3, <2>2, <2>3, <2>5, StoredKeysAreFound
  <2>7. GoodTable(t2, hash) /\ t2.values = delete_at(t.values, i)
    BY <1>3, <2>6, EraseKeepsTable
  <2>8. IndexAfterErase(t, index) = NextAfterDelete(t.values, i)
    BY <2>6 DEF IndexAfterErase
  <2>9. /\ NextAfterDelete(t.values, i) \in Links
        /\ LoopPlace(t2.values, NextAfterDelete(t.values, i), to, FALSE)
    BY <1>1, <1>3, <2>1, <2>7, DeleteKeepsLoopPlace
  <2> DEFINE n == NextAfterDelete(t.values, i)
  <2>10. loop' = [map |-> o, cur_index |-> n, end |-> to, doomed |-> loop.doomed]
    BY <1>2, <2>4, <2>8
  <2> HIDE DEF t2, n, index
  <2>11. /\ tables' \in [Objects -> Tables \cup {NoObject}] /\ tables'[o] = t2
         /\ \A p \in Objects \ {o} : tables'[p] = tables[p]
    BY <1>1, <1>2, <2>4, <2>7 DEF GoodTable
  <2>12. loop' \in Loops /\ loop'.map = o /\ loop'.cur_index = n /\ loop'.end = to
    BY <1>2, <2>9, <2>10 DEF Loops, n
  <2>13. TypeOK'
    BY <1>1, <2>4, <2>11, <2>12 DEF TypeOK, Loops
  <2>14. Usable(o)'
    <3>1. t2 # NoObject
      BY <2>7, NoObjectIsNoTable DEF GoodTable
    <3> QED  BY <1>1, <1>2, <2>4, <2>11, <3>1 DEF Usable, Alive
  <2>15. \A p \in Objects : Usable(p)' => GoodTable(tables'[p], hash')
    <3> SUFFICES ASSUME NEW p \in Objects, Usable(p)' PROVE GoodTable(tables'[p], hash)
      BY <2>4
    <3>1. CASE p = o
      BY <2>7, <2>11, <3>1
    <3>2. CASE p # o
      <4>1. Usable(p) /\ tables'[p] = tables[p]
        BY <2>4, <2>11, <3>2 DEF Usable, Alive
      <4> QED  BY <4>1 DEF HashtableInv
    <3> QED  BY <3>1, <3>2
  <2>16. LoopPlace(tables'[loop'.map].values, loop'.cur_index, loop'.end, FALSE)
    BY <2>9, <2>11, <2>12 DEF n
  <2>17. hash' \in HashFunctions
    BY <2>4 DEF HashtableInv
  <2> QED  BY <2>12, <2>13, <2>14, <2>15, <2>16, <2>17 DEF HashtableInv
<1>5. ASSUME LoopKeeps PROVE HashtableInv'
  <2>1. /\ i # to /\ UNCHANGED <<tables, hash, moved, aborted>>
        /\ loop' = [loop EXCEPT !.cur_index = t.values.next[i]]
    BY <1>5 DEF LoopKeeps, next_of
  <2>2. LoopPlace(t.values, t.values.next[i], to, FALSE) /\ t.values.next[i] \in Links
    BY <1>1, <1>3, <2>1, NextKeepsLoopPlace
  <2>3. loop' = [map |-> o, cur_index |-> t.values.next[i], end |-> to, doomed |-> loop.doomed]
    BY <1>2, <2>1
  <2> QED  BY <1>1, <1>2, <2>1, <2>2, <2>3, StartingKeepsInv
<1>6. ASSUME LoopEnd PROVE HashtableInv'
  <2>1. /\ loop' = NoLoop /\ moved' = moved \ {o} /\ UNCHANGED <<tables, hash, aborted>>
    BY <1>6 DEF LoopEnd
  <2>2. moved' = moved
    BY <1>1, <2>1 DEF Usable
  <2> QED  BY <1>1, <2>1, <2>2 DEF HashtableInv, TypeOK, Usable, Alive, Loops
<1> QED  BY <1>4, <1>5, <1>6 DEF Loop

-----------------------------------------------------------------------------
(* A move leaves a source that is a table still, in which nothing is       *)
(* promised about the buckets.                                             *)
LEMMA MovingKeepsInv ==
  ASSUME HashtableInv, loop = NoLoop, NEW o \in Objects, NEW other \in Objects, o # other,
         Usable(other), NEW l \in GoodLists,
         tables' = [tables EXCEPT ![o] = tables[other], ![other].values = l],
         moved' = (moved \ {o}) \cup {other}, UNCHANGED <<hash, loop, aborted>>
  PROVE  HashtableInv'
<1> DEFINE t == tables[other]
           t2 == [t EXCEPT !.values = l]
<1>1. tables \in [Objects -> Tables \cup {NoObject}] /\ GoodTable(t, hash) /\ t \in Tables
  BY DEF HashtableInv, TypeOK, GoodTable
<1>3. t2 \in Tables
  BY <1>1 DEF Tables, GoodLists
<1>4. tables' = [tables EXCEPT ![o] = t, ![other] = t2]
  BY <1>1
<1> HIDE DEF t, t2
<1>5. /\ tables' \in [Objects -> Tables \cup {NoObject}] /\ tables'[o] = t
      /\ \A p \in Objects \ {o, other} : tables'[p] = tables[p]
  BY <1>1, <1>3, <1>4
<1>6. TypeOK'
  BY <1>5 DEF HashtableInv, TypeOK, Loops
<1>7. \A p \in Objects : Usable(p)' => GoodTable(tables'[p], hash')
  <2> SUFFICES ASSUME NEW p \in Objects, Usable(p)' PROVE GoodTable(tables'[p], hash)
    OBVIOUS
  <2>1. p # other
    BY DEF Usable
  <2>2. CASE p = o
    BY <1>1, <1>5, <2>2
  <2>3. CASE p # o
    <3>1. Usable(p) /\ tables'[p] = tables[p]
      BY <1>5, <2>1, <2>3 DEF Usable, Alive
    <3> QED  BY <3>1 DEF HashtableInv
  <2> QED  BY <2>2, <2>3
<1> QED  BY <1>6, <1>7 DEF HashtableInv

(* What the copies and the moves assign. *)
LEMMA CopiesAreExact ==
  ASSUME HashtableInv, NEW o \in Objects, NEW other \in Objects, Callable(other)
  PROVE  /\ CopyFrom(o, other) => tables' = [tables EXCEPT ![o] = tables[other]]
         /\ MoveConstruct(o, other) =>
              tables' = [tables EXCEPT ![o] = tables[other],
                                       ![other].values = ClearedList(tables[other].values)]
         /\ MoveAssign(o, other) =>
              tables' = [tables EXCEPT ![o] = tables[other],
                                       ![other].values = MovedOut(tables[other].values)]
<1>1. tables[other] \in Tables /\ tables[other].values \in GoodLists
  BY CallableMaps
<1>2. TableCopies(Target(o), tables[other]) = {tables[other]}
  BY <1>1, TableCopyIsTheSame
<1>3. tables \in [Objects -> Tables \cup {NoObject}]
  BY DEF HashtableInv, TypeOK
<1>4. CopyFrom(o, other) => tables' = [tables EXCEPT ![o] = tables[other]]
  BY <1>2 DEF CopyFrom
<1>5. ASSUME MoveConstruct(o, other)
      PROVE  tables' = [tables EXCEPT ![o] = tables[other],
                                      ![other].values = ClearedList(tables[other].values)]
  <2>1. o # other
    BY <1>5 DEF MoveConstruct, Callable
  <2>2. tables' = [tables EXCEPT ![o] = tables[other], ![other].values = ClearedList(@)]
    BY <1>2, <1>5 DEF MoveConstruct
  <2> QED  BY <1>3, <2>1, <2>2
<1>6. ASSUME MoveAssign(o, other)
      PROVE  tables' = [tables EXCEPT ![o] = tables[other],
                                      ![other].values = MovedOut(tables[other].values)]
  <2>1. o # other
    BY <1>6 DEF MoveAssign
  <2>2. tables' = [tables EXCEPT ![o] = tables[other], ![other].values = MovedOut(@)]
    BY <1>2, <1>6 DEF MoveAssign
  <2> QED  BY <1>3, <2>1, <2>2
<1> QED  BY <1>4, <1>5, <1>6

(* Construction, destruction, copies and moves keep the invariant. *)
LEMMA LifetimeKeepsInv ==
  ASSUME HashtableInv, NEW o \in Objects, Lifetime(o)
  PROVE  HashtableInv'
<1>1. hash \in [Keys -> Nat]
  BY HashIsAFunction DEF HashtableInv
<1>2. ASSUME Construct(o) PROVE HashtableInv'
  <2>1. GoodTable(EmptyTable, hash)
    BY <1>1, EmptyTableIsGood
  <2> QED  BY <1>2, <2>1, ReplacingKeepsInv DEF Construct, Idle
<1>3. ASSUME Destroy(o) PROVE HashtableInv'
  <2>1. /\ loop = NoLoop /\ tables' = [tables EXCEPT ![o] = NoObject] /\ moved' = moved \ {o}
        /\ UNCHANGED <<hash, loop, aborted>>
    BY <1>3 DEF Destroy, Idle
  <2>2. /\ tables' \in [Objects -> Tables \cup {NoObject}] /\ tables'[o] = NoObject
        /\ \A p \in Objects \ {o} : tables'[p] = tables[p]
    BY <2>1 DEF HashtableInv, TypeOK
  <2>3. \A p \in Objects : Usable(p)' => p # o /\ Usable(p) /\ tables'[p] = tables[p]
    BY <2>1, <2>2 DEF Usable, Alive
  <2>4. TypeOK'
    BY <2>1, <2>2 DEF HashtableInv, TypeOK, Loops
  <2> QED  BY <2>1, <2>3, <2>4 DEF HashtableInv
<1>4. ASSUME NEW other \in Objects, CopyFrom(o, other) PROVE HashtableInv'
  <2>1. loop = NoLoop /\ GoodTable(tables[other], hash) /\ tables[other] \in Tables
    BY <1>4, CallableMaps DEF CopyFrom
  <2>2. tables' = [tables EXCEPT ![o] = tables[other]]
    BY <1>4, CopiesAreExact DEF CopyFrom
  <2> QED  BY <1>4, <2>1, <2>2, ReplacingKeepsInv DEF CopyFrom
<1>5. ASSUME NEW other \in Objects, MoveConstruct(o, other) PROVE HashtableInv'
  <2>1. /\ loop = NoLoop /\ Usable(other) /\ tables[other].values \in GoodLists
        /\ o # other
    BY <1>5, CallableMaps DEF MoveConstruct, Usable
  <2>2. ClearedList(tables[other].values) \in GoodLists
    BY <2>1, ClearedIsEmpty
  <2>3. tables' = [tables EXCEPT ![o] = tables[other],
                                 ![other].values = ClearedList(tables[other].values)]
    BY <1>5, CopiesAreExact DEF MoveConstruct
  <2> QED  BY <1>5, <2>1, <2>2, <2>3, MovingKeepsInv DEF MoveConstruct
<1>6. ASSUME NEW other \in Objects, MoveAssign(o, other) PROVE HashtableInv'
  <2>1. /\ loop = NoLoop /\ Usable(other) /\ tables[other].values \in GoodLists
        /\ o # other
    BY <1>6, CallableMaps DEF MoveAssign
  <2>2. MovedOut(tables[other].values) \in GoodLists
    BY <2>1, MovedOutKeepsOrder
  <2>3. tables' = [tables EXCEPT ![o] = tables[other],
                                 ![other].values = MovedOut(tables[other].values)]
    BY <1>6, CopiesAreExact DEF MoveAssign
  <2> QED  BY <1>6, <2>1, <2>2, <2>3, MovingKeepsInv DEF MoveAssign
<1> QED  BY <1>2, <1>3, <1>4, <1>5, <1>6 DEF Lifetime

(* The invariant holds in every state of a program whose clients do not    *)
(* clear() a map that they moved from.                                     *)
THEOREM HashtableInvHolds ==
  ASSUME ~ClearMovedFrom
  PROVE  Spec => []HashtableInv
<1>1. Init => HashtableInv
  BY DEF Init, HashtableInv, TypeOK, Usable, Alive
<1>2. HashtableInv /\ [Next]_vars => HashtableInv'
  <2> SUFFICES ASSUME HashtableInv, [Next]_vars PROVE HashtableInv'
    OBVIOUS
  <2>1. CASE Loop
    BY <2>1, LoopKeepsInv
  <2>2. ASSUME NEW o \in Objects, Insertion(o) PROVE HashtableInv'
    BY <2>2, InsertionKeepsInv
  <2>3. ASSUME NEW o \in Objects, Removal(o) PROVE HashtableInv'
    BY <2>3, RemovalKeepsInv
  <2>4. ASSUME NEW o \in Objects, Lifetime(o) PROVE HashtableInv'
    BY <2>4, LifetimeKeepsInv
  <2>5. CASE UNCHANGED vars
    BY <2>5 DEF vars, HashtableInv, TypeOK, Usable, Alive, Loops
  <2> QED  BY <2>1, <2>2, <2>3, <2>4, <2>5 DEF Next
<1> QED  BY <1>1, <1>2, PTL DEF Spec

-----------------------------------------------------------------------------
(* A map that was not moved from is a good table. *)
LEMMA UsableMaps ==
  ASSUME HashtableInv, NEW o \in Objects, Usable(o)
  PROVE  GoodTable(tables[o], hash) /\ hash \in [Keys -> Nat]
BY HashIsAFunction DEF HashtableInv

(* Good tables have one bucket per entry, at the distance its word says. *)
LEMMA InvMeansBuckets ==
  ASSUME HashtableInv
  PROVE  BucketsMatchEntries
<1> SUFFICES ASSUME NEW o \in Objects, Usable(o)
             PROVE  LET t == tables[o]
                        occupied == {b \in BucketIndices : t.buckets[b].dist_and_fingerprint # 0}
                    IN  /\ \A i \in Live(t.values.storage) :
                             \E b \in occupied : t.buckets[b].value_index = i
                        /\ \A b, c \in occupied :
                             t.buckets[b].value_index = t.buckets[c].value_index => b = c
                        /\ \A b \in occupied :
                             /\ t.buckets[b].value_index \in Live(t.values.storage)
                             /\ LET h == hash[KeyOf[t.values.storage.array[t.buckets[b].value_index]]]
                                IN  \E k \in BucketIndices :
                                      /\ b = ProbeLoc(h, k)
                                      /\ t.buckets[b].dist_and_fingerprint = ProbeWord(h, k)
                        /\ \A b \in occupied :
                             dist(t.buckets[b]) > 1 =>
                               t.buckets[b].dist_and_fingerprint
                                 <= t.buckets[Ahead(b, INTERNAL_TABLE_SIZE - 1)].dist_and_fingerprint
                                      + DIST_INC
  BY DEF BucketsMatchEntries
<1> DEFINE t == tables[o]
           occupied == {b \in BucketIndices : t.buckets[b].dist_and_fingerprint # 0}
<1>1. GoodTable(t, hash) /\ hash \in [Keys -> Nat]
  BY UsableMaps
<1>2. occupied = Occupied(t.buckets)
  BY DEF Occupied, WordAt
<1>3. /\ t.buckets \in [BucketIndices -> Buckets] /\ GoodBuckets(t.buckets, HashAt(t, hash))
      /\ Indexed(t.buckets) = Live(t.values.storage)
  BY <1>1 DEF GoodTable, GoodBuckets
<1> HIDE DEF t, occupied
<1>4. \A i \in Live(t.values.storage) : \E b \in occupied : t.buckets[b].value_index = i
  BY <1>2, <1>3 DEF Indexed
<1>5. \A b, c \in occupied : t.buckets[b].value_index = t.buckets[c].value_index => b = c
  BY <1>2, <1>3 DEF GoodBuckets, Distinct
<1>6. ASSUME NEW b \in occupied
      PROVE  /\ t.buckets[b].value_index \in Live(t.values.storage)
             /\ \E k \in BucketIndices :
                  /\ b = ProbeLoc(hash[KeyAt(t, t.buckets[b].value_index)], k)
                  /\ t.buckets[b].dist_and_fingerprint
                       = ProbeWord(hash[KeyAt(t, t.buckets[b].value_index)], k)
  <2> DEFINE i == t.buckets[b].value_index
             h == hash[KeyAt(t, i)]
  <2>1. i \in Live(t.values.storage)
    BY <1>2, <1>3 DEF Indexed
  <2>2. HashAt(t, hash)[i] = h /\ h \in Nat
    BY <1>1, <2>1, TableFacts
  <2>3. PICK k \in BucketIndices : b = ProbeLoc(h, k) /\ WordAt(t.buckets, b) = Word(h, k)
    BY <1>2, <1>3, <2>2 DEF GoodBuckets, Placed
  <2>4. ProbeWord(h, k) = Word(h, k)
    BY <2>2, BucketNumbers, ProbeWords
  <2> QED  BY <2>1, <2>3, <2>4 DEF WordAt
<1>7. ASSUME NEW b \in occupied, dist(t.buckets[b]) > 1
      PROVE  t.buckets[b].dist_and_fingerprint
               <= t.buckets[Ahead(b, INTERNAL_TABLE_SIZE - 1)].dist_and_fingerprint + DIST_INC
  <2>1. b \in BucketIndices /\ t.buckets[b] \in Buckets
    BY <1>2, <1>3 DEF Occupied
  <2>2. WordAt(t.buckets, b) >= 2 * DIST_INC
    BY <1>7, <2>1, DistFacts DEF WordAt
  <2> QED  BY <1>3, <2>1, <2>2 DEF GoodBuckets, Ordered, WordAt
<1> QED  BY <1>4, <1>5, <1>6, <1>7 DEF t, occupied, KeyAt

(* In good tables opaque_index_of finds the entry of a key, or none if     *)
(* there is none.                                                          *)
LEMMA InvMeansLookups ==
  ASSUME HashtableInv
  PROVE  LookupsAreExact
<1> SUFFICES ASSUME NEW o \in Objects, Usable(o), NEW key \in Keys
             PROVE  LET index == index_of(o, key)
                    IN  IF exists(index)
                        THEN EntriesWith(tables[o], key) = {iterated_index_from(tables[o], index)}
                        ELSE EntriesWith(tables[o], key) = {}
  BY DEF LookupsAreExact, KeyAt, EntriesWith
<1> DEFINE t == tables[o]
           index == index_of(o, key)
<1>1. GoodTable(t, hash) /\ hash \in [Keys -> Nat] /\ index = opaque_index_of(t, hash[key], key)
  BY UsableMaps DEF index_of
<1>2. ASSUME NEW i \in EntriesWith(t, key)
      PROVE  exists(index) /\ iterated_index_from(t, index) = i
  <2>1. i \in Live(t.values.storage) /\ KeyAt(t, i) = key
    BY DEF EntriesWith
  <2> QED  BY <1>1, <2>1, StoredKeysAreFound
<1>3. ASSUME exists(index)
      PROVE  iterated_index_from(t, index) \in EntriesWith(t, key)
  BY <1>1, <1>3, FoundKeysAreStored DEF index_of
<1> HIDE DEF index, t
<1> QED  BY <1>2, <1>3 DEF index, t

(* In good tables the three probing loops end. *)
LEMMA InvMeansProbing ==
  ASSUME HashtableInv
  PROVE  ProbingEnds
<1> SUFFICES ASSUME NEW o \in Objects, Usable(o)
             PROVE  LET t == tables[o] IN
                    /\ \A key \in Keys : \E k \in Iterations : ProbeExits(t, hash[key], key, k)
                    /\ \A b \in BucketIndices :
                         /\ t.buckets[b] # EmptyBucket =>
                              \E k \in 1 .. INTERNAL_TABLE_SIZE : StaysAfter(t.buckets, b, k)
                         /\ t.values.size < MAXIMUM_SIZE =>
                              \E k \in BucketIndices : IsEmptyAfter(t.buckets, b, k)
  BY DEF ProbingEnds, Stops
<1> DEFINE t == tables[o]
<1>1. GoodTable(t, hash) /\ hash \in [Keys -> Nat]
  BY UsableMaps
<1>2. GoodBuckets(t.buckets, HashAt(t, hash)) /\ t.buckets \in [BucketIndices -> Buckets]
  BY <1>1, TableFacts
<1> HIDE DEF t
<1>3. \A key \in Keys : \E k \in Iterations : ProbeExits(t, hash[key], key, k)
  BY <1>1, LookupEnds
<1>4. \A b \in BucketIndices : \E k \in 1 .. INTERNAL_TABLE_SIZE : StaysAfter(t.buckets, b, k)
  BY <1>2, FirstThatStays
<1>5. ASSUME NEW b \in BucketIndices, t.values.size < MAXIMUM_SIZE
      PROVE  \E k \in BucketIndices : IsEmptyAfter(t.buckets, b, k)
  BY <1>1, <1>2, <1>5, RoomMeansEmptyBucket, FirstEmpty
<1> QED  BY <1>3, <1>4, <1>5 DEF t

(* The key that the loop of erase_range looks up has an entry. *)
LEMMA InvMeansRanges ==
  ASSUME HashtableInv
  PROVE  RangeErasesExistingKeys
<1> SUFFICES ASSUME loop # NoLoop, loop.map \notin moved, loop.cur_index # loop.end
             PROVE  LET t == tables[loop.map] IN
                    /\ loop.cur_index \in Live(t.values.storage)
                    /\ loop.end \in WalkFrom(t.values, loop.cur_index)
                    /\ exists(index_of(loop.map, KeyAt(t, loop.cur_index)))
  BY DEF RangeErasesExistingKeys, KeyAt
<1> DEFINE t == tables[loop.map]
           i == loop.cur_index
<1>1. loop \in Loops /\ Usable(loop.map) /\ LoopPlace(t.values, i, loop.end, FALSE)
  BY DEF HashtableInv
<1>2. loop.map \in Objects
  BY <1>1 DEF Loops
<1>3. GoodTable(t, hash) /\ hash \in [Keys -> Nat] /\ t.values \in GoodLists
  BY <1>1, <1>2, UsableMaps DEF GoodTable
<1>4. i \in Live(t.values.storage)
  BY <1>1, <1>3, DeleteKeepsLoopPlace
<1>5. PICK e : Order(t.values, e) /\ \E x, y \in 1 .. t.values.size + 1 :
                 x <= y /\ i = e[x] /\ loop.end = e[y]
  BY <1>1 DEF LoopPlace
<1>6. PICK x \in 1 .. t.values.size + 1, y \in 1 .. t.values.size + 1 :
        x <= y /\ i = e[x] /\ loop.end = e[y]
  BY <1>5
<1>7. t.values \in ListObjects /\ t.values.size \in Nat
  BY <1>3, ListFields DEF GoodLists
<1>8. WalkFrom(t.values, e[x]) = {e[j] : j \in x .. t.values.size + 1}
  <2> DEFINE l == t.values
  <2>1. l \in ListObjects /\ Order(l, e) /\ x \in 1 .. l.size + 1
    BY <1>5, <1>7
  <2> HIDE DEF l
  <2>2. WalkFrom(l, e[x]) = {e[j] : j \in x .. l.size + 1}
    BY <2>1, WalkIsSuffix
  <2> QED  BY <2>2 DEF l
<1>9. y \in x .. t.values.size + 1
  BY <1>6, <1>7
<1>10. loop.end \in WalkFrom(t.values, i)
  BY <1>6, <1>8, <1>9
<1>11. KeyAt(t, i) \in Keys
  BY <1>3, <1>4, TableFacts
<1>12. exists(index_of(loop.map, KeyAt(t, i)))
  BY <1>3, <1>4, <1>11, StoredKeysAreFound DEF index_of
<1> QED  BY <1>4, <1>10, <1>12

-----------------------------------------------------------------------------
(* The entries that a table holds. *)
Stored(t) == {t.values.storage.array[i] : i \in Live(t.values.storage)}

(* Iteration visits the stored entries, and size() counts them. *)
LEMMA IterationVisitsStored ==
  ASSUME NEW hf \in [Keys -> Nat], NEW o \in Objects, GoodTable(tables[o], hf)
  PROVE  /\ {EntriesOf(o)[k] : k \in DOMAIN EntriesOf(o)} = Stored(tables[o])
         /\ IsFiniteSet(Stored(tables[o])) /\ Cardinality(Stored(tables[o])) = size(o)
         /\ size(o) \in Nat
<1> DEFINE t == tables[o]
           l == t.values
           n == l.size
           S == Stored(t)
<1>1. l \in GoodLists /\ l \in ListObjects /\ WellFormedChain(l) /\ n \in Nat
  BY ListFields DEF GoodTable, GoodLists
<1>2. PICK e : Order(l, e)
  BY <1>1, ChainHasOrder
<1> DEFINE f == [k \in 1 .. n |-> l.storage.array[e[k]]]
<1>3. Items(l) = [k \in 1 .. n |-> <<e[k], l.storage.array[e[k]]>>]
  BY <1>1, <1>2, ItemsInOrder
<1>4. EntriesOf(o) = f
  BY <1>3 DEF EntriesOf
<1>5. /\ \A k \in 1 .. n : e[k] \in Live(l.storage)
      /\ \A i \in Live(l.storage) : \E k \in 1 .. n : e[k] = i
      /\ \A j, k \in 1 .. n : e[j] = e[k] => j = k
  BY <1>2 DEF Order
<1>6. {f[k] : k \in DOMAIN f} = S
  <2>1. DOMAIN f = 1 .. n /\ \A k \in 1 .. n : f[k] = l.storage.array[e[k]]
    OBVIOUS
  <2>2. \A k \in 1 .. n : f[k] \in S
    BY <1>5, <2>1 DEF Stored
  <2>3. \A s \in S : \E k \in 1 .. n : f[k] = s
    BY <1>5, <2>1 DEF Stored
  <2> HIDE DEF f, S
  <2> QED  BY <2>1, <2>2, <2>3
<1>7. \A j, k \in 1 .. n : f[j] = f[k] => j = k
  <2> SUFFICES ASSUME NEW j \in 1 .. n, NEW k \in 1 .. n, f[j] = f[k] PROVE j = k
    OBVIOUS
  <2>1. KeyAt(t, e[j]) = KeyAt(t, e[k])
    BY DEF KeyAt
  <2> QED  BY <1>5, <2>1 DEF GoodTable
<1>8. f \in [1 .. n -> S]
  BY <1>5 DEF Stored
<1>9. \A s \in S : \E k \in 1 .. n : f[k] = s
  BY <1>5 DEF Stored
<1>10. size(o) = n
  BY DEF size
<1> HIDE DEF f, S, n
<1>11. ExistsBijection(1 .. n, S)
  <2>1. f \in Bijection(1 .. n, S)
    BY <1>7, <1>8, <1>9 DEF Bijection, Injection, Surjection, IsInjective
  <2> QED  BY <2>1 DEF ExistsBijection
<1>12. IsFiniteSet(1 .. n) /\ Cardinality(1 .. n) = n
  BY <1>1, FS_Interval
<1>13. IsFiniteSet(S) /\ Cardinality(S) = n
  BY <1>11, <1>12, FS_Bijection
<1> QED  BY <1>1, <1>4, <1>6, <1>10, <1>13 DEF S

(* What operator== finds out about one entry. *)
LEMMA FindComparesEntries ==
  ASSUME HashtableInv, NEW o \in Objects, Usable(o), NEW e \in Entries
  PROVE  (/\ find(o, KeyOf[e]) # NULL_INDEX
          /\ MappedOf[tables[o].values.storage.array[find(o, KeyOf[e])]] = MappedOf[e])
           <=> e \in Stored(tables[o])
<1> DEFINE t == tables[o]
           key == KeyOf[e]
           index == index_of(o, key)
<1>1. /\ GoodTable(t, hash) /\ hash \in [Keys -> Nat] /\ index = opaque_index_of(t, hash[key], key)
      /\ key \in Keys /\ MappedOf[e] \in Mapped
  BY UsableMaps, EntriesArePairs DEF index_of
<1>2. NULL_INDEX \notin Live(t.values.storage)
  BY <1>1, ListFields DEF GoodTable, GoodLists
<1>3. ASSUME e \in Stored(t) PROVE find(o, key) # NULL_INDEX
                                   /\ t.values.storage.array[find(o, key)] = e
  <2>1. PICK i \in Live(t.values.storage) : t.values.storage.array[i] = e
    BY <1>3 DEF Stored
  <2>2. KeyAt(t, i) = key
    BY <2>1 DEF KeyAt
  <2>3. exists(index) /\ iterated_index_from(t, index) = i
    BY <1>1, <2>2, StoredKeysAreFound
  <2>4. find(o, key) = i
    BY <2>3 DEF find
  <2> QED  BY <1>2, <2>1, <2>4
<1>4. ASSUME find(o, key) # NULL_INDEX,
             MappedOf[t.values.storage.array[find(o, key)]] = MappedOf[e]
      PROVE  e \in Stored(t)
  <2>1. exists(index) /\ find(o, key) = iterated_index_from(t, index)
    BY <1>4 DEF find
  <2>2. find(o, key) \in EntriesWith(t, key)
    BY <1>1, <2>1, FoundKeysAreStored
  <2> DEFINE f == t.values.storage.array[find(o, key)]
  <2>3. find(o, key) \in Live(t.values.storage) /\ KeyOf[f] = key
    BY <2>2 DEF EntriesWith, KeyAt
  <2>4. f \in Entries /\ MappedOf[f] = MappedOf[e]
    BY <1>1, <1>4, <2>3 DEF GoodTable
  <2>5. f \in Stored(t)
    BY <2>3 DEF Stored
  <2> HIDE DEF f
  <2>6. f = e
    BY <1>1, <2>3, <2>4, EntryMembers
  <2> QED  BY <2>5, <2>6
<1> QED  BY <1>3, <1>4

(* In good tables operator== compares the sets of entries. *)
LEMMA InvMeansEquality ==
  ASSUME HashtableInv
  PROVE  EqualityIsExact
<1> SUFFICES ASSUME NEW o \in Objects, NEW other \in Objects, Usable(o), Usable(other)
             PROVE  Equal(o, other) <=>
                      {EntriesOf(o)[k] : k \in DOMAIN EntriesOf(o)}
                        = {EntriesOf(other)[k] : k \in DOMAIN EntriesOf(other)}
  BY DEF EqualityIsExact
<1> DEFINE S == Stored(tables[o])
           T == Stored(tables[other])
<1>1. /\ GoodTable(tables[o], hash) /\ GoodTable(tables[other], hash) /\ hash \in [Keys -> Nat]
  BY UsableMaps
<1>2. /\ {EntriesOf(o)[k] : k \in DOMAIN EntriesOf(o)} = S
      /\ IsFiniteSet(S) /\ Cardinality(S) = size(o)
  BY <1>1, IterationVisitsStored
<1>3. /\ {EntriesOf(other)[k] : k \in DOMAIN EntriesOf(other)} = T
      /\ IsFiniteSet(T) /\ Cardinality(T) = size(other)
  BY <1>1, IterationVisitsStored
<1>4. \A e \in S : e \in Entries
  BY <1>1 DEF GoodTable, Stored
<1> HIDE DEF S, T
<1>5. \A e \in S : (/\ find(other, KeyOf[e]) # NULL_INDEX
                    /\ MappedOf[tables[other].values.storage.array[find(other, KeyOf[e])]]
                         = MappedOf[e])  <=>  e \in T
  BY <1>4, FindComparesEntries DEF T
<1>6. (\A k \in DOMAIN EntriesOf(o) :
         /\ find(other, KeyOf[EntriesOf(o)[k]]) # NULL_INDEX
         /\ MappedOf[tables[other].values.storage.array[find(other, KeyOf[EntriesOf(o)[k]])]]
              = MappedOf[EntriesOf(o)[k]])
        <=> \A e \in S : e \in T
  BY <1>2, <1>5
<1>7. Equal(o, other) <=> size(o) = size(other) /\ S \subseteq T
  BY <1>6 DEF Equal
<1>8. S \subseteq T /\ Cardinality(S) = Cardinality(T) => S = T
  BY <1>3, FS_Subset
<1> QED  BY <1>2, <1>3, <1>7, <1>8

-----------------------------------------------------------------------------
(* The members of every map stay in range. *)
THEOREM HashtableTypes ==
  ASSUME ~ClearMovedFrom
  PROVE  Spec => []TypeOK
<1>1. HashtableInv => TypeOK
  BY DEF HashtableInv
<1> QED  BY <1>1, HashtableInvHolds, PTL

(* emplace and erase_bucket keep one bucket per entry, where its word      *)
(* says, for every hash function and every bucket count.                   *)
THEOREM HashtableBuckets ==
  ASSUME ~ClearMovedFrom
  PROVE  Spec => []BucketsMatchEntries
<1>1. HashtableInv => BucketsMatchEntries
  BY InvMeansBuckets
<1> QED  BY <1>1, HashtableInvHolds, PTL

(* opaque_index_of finds exactly the stored keys, although it gives up at  *)
(* the first bucket that is closer to its home.                            *)
THEOREM HashtableLookups ==
  ASSUME ~ClearMovedFrom
  PROVE  Spec => []LookupsAreExact
<1>1. HashtableInv => LookupsAreExact
  BY InvMeansLookups
<1> QED  BY <1>1, HashtableInvHolds, PTL

(* The loops of opaque_index_of, place_and_shift_up and erase_bucket end   *)
(* in every table that a client can build, full ones included.             *)
THEOREM HashtableProbing ==
  ASSUME ~ClearMovedFrom
  PROVE  Spec => []ProbingEnds
<1>1. HashtableInv => ProbingEnds
  BY InvMeansProbing
<1> QED  BY <1>1, HashtableInvHolds, PTL

(* erase_range, clear and erase_if erase entries that exist, although each *)
(* iteration changes the list they walk.                                   *)
THEOREM HashtableRanges ==
  ASSUME ~ClearMovedFrom
  PROVE  Spec => []RangeErasesExistingKeys
<1>1. HashtableInv => RangeErasesExistingKeys
  BY InvMeansRanges
<1> QED  BY <1>1, HashtableInvHolds, PTL

(* operator== holds of two maps exactly when they have the same entries. *)
THEOREM HashtableEquality ==
  ASSUME ~ClearMovedFrom
  PROVE  Spec => []EqualityIsExact
<1>1. HashtableInv => EqualityIsExact
  BY InvMeansEquality
<1> QED  BY <1>1, HashtableInvHolds, PTL

-----------------------------------------------------------------------------
(* What OrderedDictionaries sees of a table and of the maps. *)
Dict(t) == LET items == Items(t.values)
           IN  [k \in DOMAIN items |-> <<items[k][1], KeyOf[items[k][2]], MappedOf[items[k][2]]>>]

Maps == [o \in Objects |-> IF ~Alive(o) THEN NoObject
                           ELSE IF o \in moved THEN MovedFrom ELSE Dict(tables[o])]

(* The dictionary of a good table, in the order of its list. *)
LEMMA DictInOrder ==
  ASSUME NEW hf \in [Keys -> Nat], NEW t, GoodTable(t, hf), NEW e, Order(t.values, e)
  PROVE  /\ Dict(t) = [k \in 1 .. t.values.size |->
                        <<e[k], KeyAt(t, e[k]), MappedOf[t.values.storage.array[e[k]]]>>]
         /\ \A k \in 1 .. t.values.size : e[k] \in Live(t.values.storage)
<1>1. t.values \in ListObjects
  BY DEF GoodTable, GoodLists
<1>2. Items(t.values) = [k \in 1 .. t.values.size |-> <<e[k], t.values.storage.array[e[k]]>>]
  BY <1>1, ItemsInOrder
<1>3. \A k \in 1 .. t.values.size : e[k] \in Live(t.values.storage)
  BY DEF Order
<1> QED  BY <1>2, <1>3 DEF Dict, KeyAt

(* The dictionary of a good table is a sequence, with an entry for every   *)
(* key, and it is no marker of a dead or a moved-from map.                 *)
LEMMA DictOfTable ==
  ASSUME NEW hf \in [Keys -> Nat], NEW t, GoodTable(t, hf)
  PROVE  /\ Dict(t) \in [1 .. t.values.size -> Slots \X Keys \X Mapped]
         /\ Len(Dict(t)) = t.values.size /\ t.values.size \in Nat
         /\ Dict(t) # NoObject /\ Dict(t) # MovedFrom
         /\ \A i, j \in 1 .. t.values.size : Dict(t)[i][1] = Dict(t)[j][1] => i = j
         /\ \A i, j \in 1 .. t.values.size : Dict(t)[i][2] = Dict(t)[j][2] => i = j
<1> DEFINE n == t.values.size
<1>1. t.values \in GoodLists /\ t.values \in ListObjects /\ n \in Nat /\ n \in Links
  BY ListFields DEF GoodTable, GoodLists
<1>2. PICK e : Order(t.values, e)
  BY <1>1, ChainHasOrder DEF GoodLists
<1>3. /\ Dict(t) = [k \in 1 .. n |-> <<e[k], KeyAt(t, e[k]), MappedOf[t.values.storage.array[e[k]]]>>]
      /\ \A k \in 1 .. n : e[k] \in Live(t.values.storage)
  BY <1>2, DictInOrder
<1>4. \A i \in Live(t.values.storage) :
        i \in Slots /\ KeyAt(t, i) \in Keys /\ MappedOf[t.values.storage.array[i]] \in Mapped
  BY EntriesArePairs DEF GoodTable, KeyAt, Live
<1>5. \A i, j \in 1 .. n : e[i] = e[j] => i = j
  BY <1>2 DEF Order
<1>6. \A i, j \in Live(t.values.storage) : KeyAt(t, i) = KeyAt(t, j) => i = j
  BY DEF GoodTable
<1> HIDE DEF n
<1>7. Dict(t) \in [1 .. n -> Slots \X Keys \X Mapped]
  BY <1>3, <1>4
<1>8. Len(Dict(t)) = n
  BY <1>1, <1>7
<1>9. Dict(t) # NoObject /\ Dict(t) # MovedFrom
  BY <1>1, <1>7, NoObjectIsNoDictionary
<1>10. \A i, j \in 1 .. n : Dict(t)[i][1] = Dict(t)[j][1] => i = j
  BY <1>3, <1>5
<1>11. \A i, j \in 1 .. n : Dict(t)[i][2] = Dict(t)[j][2] => i = j
  BY <1>3, <1>5, <1>6
<1> QED  BY <1>1, <1>7, <1>8, <1>9, <1>10, <1>11 DEF n

(* The maps after one of them has been replaced. *)
LEMMA MapsReplaced ==
  ASSUME HashtableInv, NEW o \in Objects, NEW t, GoodTable(t, hash),
         tables' = [tables EXCEPT ![o] = t],
         (moved' = moved /\ o \notin moved) \/ moved' = moved \ {o}
  PROVE  Maps' = [Maps EXCEPT ![o] = Dict(t)]
<1>1. tables \in [Objects -> Tables \cup {NoObject}] /\ t # NoObject
  BY NoObjectIsNoTable DEF HashtableInv, TypeOK, GoodTable
<1>2. tables'[o] = t /\ \A q \in Objects \ {o} : tables'[q] = tables[q]
  BY <1>1
<1>3. Maps'[o] = Dict(t)
  BY <1>1, <1>2 DEF Maps, Alive
<1>4. \A q \in Objects \ {o} : Maps'[q] = Maps[q]
  <2> SUFFICES ASSUME NEW q \in Objects, q # o PROVE Maps'[q] = Maps[q]
    OBVIOUS
  <2>1. tables'[q] = tables[q] /\ (q \in moved' <=> q \in moved)
    BY <1>2
  <2> QED  BY <2>1 DEF Maps, Alive
<1>5. Maps = [q \in Objects |-> Maps[q]] /\ Maps' = [q \in Objects |-> Maps'[q]]
  BY DEF Maps
<1> HIDE DEF Maps
<1> QED  BY <1>3, <1>4, <1>5

(* A map that was not moved from is its dictionary. *)
LEMMA UsableMapsAreDicts ==
  ASSUME HashtableInv, NEW o \in Objects, Usable(o)
  PROVE  /\ GoodTable(tables[o], hash) /\ hash \in [Keys -> Nat]
         /\ Maps[o] = Dict(tables[o]) /\ Abstract!Usable(o)
<1>1. GoodTable(tables[o], hash) /\ hash \in [Keys -> Nat]
  BY UsableMaps
<1>2. Maps[o] = Dict(tables[o])
  BY DEF Maps, Usable
<1>3. Maps[o] # NoObject /\ Maps[o] # MovedFrom
  BY <1>1, <1>2, DictOfTable
<1> QED  BY <1>1, <1>2, <1>3 DEF Abstract!Usable, Maps, Dict

(* The dictionary d with a new entry at its end is du. *)
IsAppended(d, du, key, x) ==
  \E i \in Slots : /\ \A k \in 1 .. Len(d) : d[k][1] # i /\ d[k][2] # key
                  /\ du = Append(d, <<i, key, x>>)

(* Emplacing appends to the dictionary. *)
LEMMA EmplaceAppends ==
  ASSUME NEW hf \in [Keys -> Nat], NEW t, GoodTable(t, hf), NEW key \in Keys, NEW x \in Mapped,
         NEW index, index = opaque_index_of(t, hf[key], key), ~exists(index),
         t.values.size < MAXIMUM_SIZE
  PROVE  IsAppended(Dict(t), Dict(emplace(t, index, Entry(key, x))), key, x)
<1> DEFINE l == t.values
           n == l.size
           c == Entry(key, x)
           u == emplace(t, index, c)
           m == emplace_after_index(l, back_index(l), c)
<1>1. /\ GoodTable(u, hf) /\ u.values = m /\ c \in Contents /\ c \in Entries
      /\ KeyOf[c] = key /\ MappedOf[c] = x
  BY EmplaceKeepsTable, EntryMembers DEF emplace
<1>2. l \in GoodLists /\ l \in ListObjects /\ n \in Nat /\ n \in 0 .. n
  BY ListFields DEF GoodTable, GoodLists
<1>3. PICK e : Order(l, e)
  BY <1>2, ChainHasOrder DEF GoodLists
<1>4. back_index(l) = e[n] /\ ~full(l.storage)
  BY <1>2, <1>3, FullMeansMaximumSize DEF back_index, Order
<1> DEFINE new == Items(m)[n + 1][1]
<1> HIDE DEF c
<1>5. /\ \A j \in 1 .. n : Items(m)[j] = Items(l)[j]
      /\ Items(m)[n + 1][2] = c
  BY <1>1, <1>2, <1>3, <1>4, EmplaceItems
<1>6. m \in GoodLists /\ m.size = n + 1
  BY <1>1, <1>2, <1>3, <1>4, EmplaceInOrder DEF GoodTable, GoodLists
<1>7. /\ Items(m) \in [1 .. n + 1 -> Slots \X Contents]
      /\ \A i, j \in 1 .. n + 1 : Items(m)[i][1] = Items(m)[j][1] => i = j
  BY <1>6, ItemsOfList
<1>8. Items(l) \in [1 .. n -> Slots \X Contents]
  BY <1>2, ItemsOfList
<1>9. new \in Slots /\ n + 1 \in 1 .. n + 1 /\ \A k \in 1 .. n : k \in 1 .. n + 1 /\ k # n + 1
  BY <1>2, <1>7
<1>10. /\ Dict(t) \in [1 .. n -> Slots \X Keys \X Mapped] /\ Len(Dict(t)) = n
       /\ Dict(t) \in Seq(Slots \X Keys \X Mapped)
  BY <1>2, DictOfTable
<1>11. \A k \in 1 .. n : e[k] \in Live(l.storage) /\ Dict(t)[k][2] = KeyAt(t, e[k])
  <2>1. Dict(t) = [k \in 1 .. n |-> <<e[k], KeyAt(t, e[k]), MappedOf[l.storage.array[e[k]]]>>]
        /\ \A k \in 1 .. n : e[k] \in Live(l.storage)
    BY <1>3, DictInOrder
  <2> QED  BY <2>1
<1> HIDE DEF m, l, n
<1>12. /\ DOMAIN Items(m) = 1 .. n + 1 /\ DOMAIN Items(l) = 1 .. n
  BY <1>7, <1>8
<1>13. \A k \in 1 .. n : Dict(t)[k][1] = Items(l)[k][1]
  BY <1>12 DEF Dict, l
<1>14. \A k \in 1 .. n : Dict(t)[k][1] # new
  BY <1>5, <1>7, <1>9, <1>13
<1>15. \A k \in 1 .. n : Dict(t)[k][2] # key
  <2> SUFFICES ASSUME NEW k \in 1 .. n, Dict(t)[k][2] = key PROVE FALSE
    OBVIOUS
  <2>1. e[k] \in Live(t.values.storage) /\ KeyAt(t, e[k]) = key
    BY <1>11 DEF l
  <2>2. exists(opaque_index_of(t, hf[key], key))
    BY <2>1, StoredKeysAreFound
  <2> QED  BY <2>2
<1>16. Dict(u) = [k \in 1 .. n + 1 |-> IF k = n + 1 THEN <<new, key, x>> ELSE Dict(t)[k]]
  <2>1. DOMAIN Dict(u) = 1 .. n + 1 /\ Dict(u) = [k \in DOMAIN Items(m) |->
          <<Items(m)[k][1], KeyOf[Items(m)[k][2]], MappedOf[Items(m)[k][2]]>>]
    BY <1>1, <1>12 DEF Dict
  <2>2. \A k \in 1 .. n : Dict(t)[k] = <<Items(l)[k][1], KeyOf[Items(l)[k][2]], MappedOf[Items(l)[k][2]]>>
    BY <1>12 DEF Dict, l
  <2>3. \A k \in 1 .. n + 1 : k = n + 1 \/ k \in 1 .. n
    BY <1>2
  <2>4. \A k \in 1 .. n + 1 : <<Items(m)[k][1], KeyOf[Items(m)[k][2]], MappedOf[Items(m)[k][2]]>>
          = IF k = n + 1 THEN <<new, key, x>> ELSE Dict(t)[k]
    BY <1>1, <1>5, <1>9, <2>2, <2>3
  <2> QED  BY <1>12, <2>1, <2>4
<1>17. Dict(u) = Append(Dict(t), <<new, key, x>>)
  <2> HIDE DEF u, new
  <2>1. <<new, key, x>> \in Slots \X Keys \X Mapped
    BY <1>9 DEF new
  <2> QED  BY <1>2, <1>16, <1>10, <2>1
<1>18. new \in Slots /\ \A k \in 1 .. n : Dict(t)[k][1] # new /\ Dict(t)[k][2] # key
  BY <1>9, <1>14, <1>15
<1> HIDE DEF new, u
<1>19. \E i \in Slots : /\ \A k \in 1 .. n : Dict(t)[k][1] # i /\ Dict(t)[k][2] # key
                       /\ Dict(u) = Append(Dict(t), <<i, key, x>>)
  BY <1>17, <1>18
<1> QED  BY <1>10, <1>19 DEF u, c, IsAppended

-----------------------------------------------------------------------------
(* The dictionary d with another mapped value for a key. *)
WithMapped(d, key, x) ==
  [k \in 1 .. Len(d) |-> IF d[k][2] = key THEN <<d[k][1], key, x>> ELSE d[k]]

(* An assignment changes the mapped value of one key. *)
LEMMA AssignDict ==
  ASSUME NEW hf \in [Keys -> Nat], NEW t, GoodTable(t, hf), NEW i \in Live(t.values.storage),
         NEW x \in Mapped
  PROVE  Dict(AssignedTable(t, i, x)) = WithMapped(Dict(t), KeyAt(t, i), x)
<1> DEFINE l == t.values
           n == l.size
           c == Entry(KeyAt(t, i), x)
           u == AssignedTable(t, i, x)
           m == Assigned(l, i, c)
<1>1. KeyAt(t, i) \in Keys
  BY TableFacts
<1>2. c \in Entries /\ c \in Contents /\ KeyOf[c] = KeyAt(t, i) /\ MappedOf[c] = x
  BY <1>1, EntryMembers
<1>3. t \in Tables /\ l \in GoodLists /\ t = [values |-> t.values, buckets |-> t.buckets]
  BY DEF GoodTable, Tables
<1>4. u.values = m
  BY <1>3 DEF AssignedTable, Assigned, KeyAt
<1>5. GoodTable(u, hf)
  BY AssignKeepsTable
<1>6. PICK e : Order(l, e)
  BY <1>3, ChainHasOrder DEF GoodLists
<1> HIDE DEF c
<1>7. /\ m.size = n /\ m.storage.array[i] = c /\ Order(m, e)
      /\ \A j \in Slots \ {i} : m.storage.array[j] = l.storage.array[j]
  BY <1>2, <1>3, <1>6, AssignKeepsOrder
<1> HIDE DEF m
<1> HIDE DEF u
<1>8. /\ Dict(u) = [k \in 1 .. n |-> <<e[k], KeyAt(u, e[k]), MappedOf[m.storage.array[e[k]]]>>]
  BY <1>4, <1>5, <1>7, DictInOrder
<1>9. /\ Dict(t) = [k \in 1 .. n |-> <<e[k], KeyAt(t, e[k]), MappedOf[l.storage.array[e[k]]]>>]
      /\ \A k \in 1 .. n : e[k] \in Live(l.storage) /\ e[k] \in Slots
  BY <1>6, DictInOrder DEF Live
<1>10. \A j \in Live(l.storage) : KeyAt(t, j) = KeyAt(t, i) => j = i
  BY DEF GoodTable
<1>11. Len(Dict(t)) = n
  BY DictOfTable
<1>12. KeyAt(u, i) = KeyAt(t, i) /\ \A j \in Slots \ {i} : KeyAt(u, j) = KeyAt(t, j)
  BY <1>2, <1>4, <1>7 DEF KeyAt
<1> HIDE DEF l, n
<1>13. \A k \in 1 .. n : <<e[k], KeyAt(u, e[k]), MappedOf[m.storage.array[e[k]]]>>
         = IF Dict(t)[k][2] = KeyAt(t, i) THEN <<Dict(t)[k][1], KeyAt(t, i), x>> ELSE Dict(t)[k]
  <2> SUFFICES ASSUME NEW k \in 1 .. n
               PROVE  <<e[k], KeyAt(u, e[k]), MappedOf[m.storage.array[e[k]]]>>
                        = IF Dict(t)[k][2] = KeyAt(t, i) THEN <<Dict(t)[k][1], KeyAt(t, i), x>>
                          ELSE Dict(t)[k]
    OBVIOUS
  <2>1. Dict(t)[k] = <<e[k], KeyAt(t, e[k]), MappedOf[l.storage.array[e[k]]]>>
    BY <1>9
  <2>2. CASE e[k] = i
    BY <1>2, <1>7, <1>12, <2>1, <2>2
  <2>3. CASE e[k] # i
    <3>1. KeyAt(t, e[k]) # KeyAt(t, i) /\ KeyAt(u, e[k]) = KeyAt(t, e[k])
          /\ m.storage.array[e[k]] = l.storage.array[e[k]]
      BY <1>7, <1>9, <1>10, <1>12, <2>3
    <3> QED  BY <2>1, <3>1
  <2> QED  BY <2>2, <2>3
<1> QED  BY <1>8, <1>11, <1>13 DEF u, WithMapped

(* The dictionary d without its entry for a key is du. *)
IsErased(d, du, key) ==
  \E p \in 1 .. Len(d) : /\ d[p][2] = key
                         /\ du = [k \in 1 .. Len(d) - 1 |-> d[IF k < p THEN k ELSE k + 1]]

(* The key of an entry is in the dictionary. *)
LEMMA DictHasKeys ==
  ASSUME NEW hf \in [Keys -> Nat], NEW t, GoodTable(t, hf), NEW i \in Live(t.values.storage)
  PROVE  KeyAt(t, i) \in Abstract!KeysOf(Dict(t))
<1>1. t.values \in ListObjects /\ WellFormedChain(t.values)
  BY DEF GoodTable, GoodLists
<1>2. PICK e : Order(t.values, e)
  BY <1>1, ChainHasOrder
<1>3. PICK k \in 1 .. t.values.size : i = e[k]
  BY <1>2 DEF Order
<1>4. Dict(t) = [j \in 1 .. t.values.size |->
                  <<e[j], KeyAt(t, e[j]), MappedOf[t.values.storage.array[e[j]]]>>]
  BY <1>2, DictInOrder
<1>5. Dict(t)[k][2] = KeyAt(t, i)
  BY <1>3, <1>4
<1>6. Len(Dict(t)) = t.values.size
  BY DictOfTable
<1> QED  BY <1>5, <1>6 DEF Abstract!KeysOf

(* An erasure removes the entry of one key from the dictionary. *)
LEMMA EraseDict ==
  ASSUME NEW hf \in [Keys -> Nat], NEW t, GoodTable(t, hf),
         NEW index, index.bucket_index \in Occupied(t.buckets),
         NEW i, i = iterated_index_from(t, index)
  PROVE  IsErased(Dict(t), Dict(erase(t, index)), KeyAt(t, i))
<1> DEFINE l == t.values
           n == l.size
           u == erase(t, index)
           m == delete_at(l, i)
<1>1. GoodTable(u, hf) /\ i \in Live(l.storage) /\ u.values = m
  BY EraseKeepsTable
<1>2. l \in GoodLists /\ n \in Nat
  BY ListFields DEF GoodTable, GoodLists
<1>3. PICK e : Order(l, e)
  BY <1>2, ChainHasOrder DEF GoodLists
<1>4. PICK p \in 1 .. n : i = e[p]
  BY <1>1, <1>3 DEF Order
<1>5. \A j \in 1 .. n - 1 : Items(m)[j] = Items(l)[IF j < p THEN j ELSE j + 1]
  BY <1>2, <1>3, <1>4, DeleteItems
<1>6. m \in GoodLists /\ m.size = n - 1 /\ n - 1 \in Nat
  BY <1>1, <1>2, DeleteKeepsGood
<1>7. DOMAIN Items(m) = 1 .. n - 1 /\ DOMAIN Items(l) = 1 .. n
  BY <1>2, <1>6, ItemsOfList
<1>8. Len(Dict(t)) = n
  BY DictOfTable
<1>9. Dict(t)[p][2] = KeyAt(t, i)
  <2>1. Dict(t) = [k \in 1 .. n |-> <<e[k], KeyAt(t, e[k]), MappedOf[l.storage.array[e[k]]]>>]
    BY <1>3, DictInOrder
  <2> QED  BY <1>4, <2>1
<1> HIDE DEF m, u, l, n
<1>10. Dict(u) = [k \in DOMAIN Items(m) |->
                    <<Items(m)[k][1], KeyOf[Items(m)[k][2]], MappedOf[Items(m)[k][2]]>>]
  BY <1>1 DEF Dict
<1>11. \A k \in 1 .. n : Dict(t)[k] =
         <<Items(l)[k][1], KeyOf[Items(l)[k][2]], MappedOf[Items(l)[k][2]]>>
  BY <1>7 DEF Dict, l
<1>12. \A k \in 1 .. n - 1 : (IF k < p THEN k ELSE k + 1) \in 1 .. n
  BY <1>2
<1>13. \A k \in 1 .. n - 1 : <<Items(m)[k][1], KeyOf[Items(m)[k][2]], MappedOf[Items(m)[k][2]]>>
         = Dict(t)[IF k < p THEN k ELSE k + 1]
  BY <1>5, <1>11, <1>12
<1>14. Dict(u) = [k \in 1 .. n - 1 |-> Dict(t)[IF k < p THEN k ELSE k + 1]]
  BY <1>7, <1>10, <1>13
<1> QED  BY <1>8, <1>9, <1>14 DEF u, IsErased

-----------------------------------------------------------------------------
(* A step of the maps is a step of the dictionaries or leaves them alone.  *)
DictStep == [Abstract!Next]_Maps

(* A step that leaves the tables alone leaves the dictionaries alone. *)
LEMMA SameMaps ==
  ASSUME tables' = tables, moved' = moved
  PROVE  DictStep
BY DEF DictStep, Maps, Alive, Dict

(* The insertion of an absent key appends an entry. *)
LEMMA EmplaceRefines ==
  ASSUME HashtableInv, NEW o \in Objects, Callable(o), NEW key \in Keys, NEW x \in Mapped,
         EmplaceAbsent(o, key, x)
  PROVE  DictStep
<1> DEFINE t == tables[o]
           index == index_of(o, key)
           u == emplace(t, index, Entry(key, x))
<1>1. Usable(o) /\ tables \in [Objects -> Tables \cup {NoObject}]
  BY CallableMaps DEF HashtableInv, TypeOK
<1>2. /\ GoodTable(t, hash) /\ hash \in [Keys -> Nat]
      /\ Maps[o] = Dict(t) /\ Abstract!Usable(o)
  BY <1>1, UsableMapsAreDicts
<1>3. CASE size(o) < MAXIMUM_SIZE /\ tables' = [tables EXCEPT ![o] = emplace(@, index, Entry(key, x))]
           /\ UNCHANGED <<hash, moved, loop, aborted>>
  <2>1. tables' = [tables EXCEPT ![o] = u]
    BY <1>1, <1>3
  <2>2. index = opaque_index_of(t, hash[key], key) /\ ~exists(index) /\ t.values.size < MAXIMUM_SIZE
    BY <1>3 DEF EmplaceAbsent, index_of, size
  <2> HIDE DEF index
  <2>3. GoodTable(u, hash)
    BY <1>2, <2>2, EmplaceKeepsTable
  <2>4. IsAppended(Dict(t), Dict(u), key, x)
    BY <1>2, <2>2, EmplaceAppends
  <2> HIDE DEF u
  <2>5. PICK i \in Slots :
          /\ \A k \in 1 .. Len(Dict(t)) : Dict(t)[k][1] # i /\ Dict(t)[k][2] # key
          /\ Dict(u) = Append(Dict(t), <<i, key, x>>)
    BY <2>4 DEF IsAppended
  <2>6. Maps' = [Maps EXCEPT ![o] = Append(Maps[o], <<i, key, x>>)]
    BY <1>1, <1>2, <1>3, <2>1, <2>3, <2>5, MapsReplaced DEF Usable
  <2>7. key \notin Abstract!KeysOf(Dict(t)) /\ i \notin Abstract!IndicesOf(Dict(t))
    BY <2>5 DEF Abstract!KeysOf, Abstract!IndicesOf
  <2>8. key \notin Abstract!KeysOf(Maps[o]) /\ i \notin Abstract!IndicesOf(Maps[o])
    BY <1>2, <2>7
  <2>9. Abstract!Insert(o, i, key, x)
    BY <1>2, <2>6, <2>8 DEF Abstract!Insert, Maps, Dict
  <2> QED  BY <2>9 DEF DictStep, Abstract!Next
<1>4. CASE UNCHANGED <<tables, hash, moved, loop>>
  BY <1>4, SameMaps
<1> QED  BY <1>3, <1>4 DEF EmplaceAbsent

(* insert_or_assign on a key that is present assigns. *)
LEMMA AssignRefines ==
  ASSUME HashtableInv, NEW o \in Objects, Callable(o), NEW key \in Keys, NEW x \in Mapped,
         exists(index_of(o, key)),
         LET i == iterated_index_from(tables[o], index_of(o, key)) IN
           tables' = [tables EXCEPT ![o].values.storage.array[i] = Entry(KeyOf[@], x)],
         UNCHANGED <<hash, moved, loop, aborted>>
  PROVE  DictStep
<1> DEFINE t == tables[o]
           i == iterated_index_from(t, index_of(o, key))
           u == AssignedTable(t, i, x)
<1>1. Usable(o) /\ tables \in [Objects -> Tables \cup {NoObject}]
  BY CallableMaps DEF HashtableInv, TypeOK
<1>2. /\ GoodTable(t, hash) /\ hash \in [Keys -> Nat]
      /\ Maps[o] = Dict(t) /\ Abstract!Usable(o)
  BY <1>1, UsableMapsAreDicts
<1>3. i \in Live(t.values.storage) /\ i \in EntriesWith(t, key)
  BY <1>2, FoundKeysAreStored DEF index_of
<1>4. KeyAt(t, i) = key
  BY <1>3 DEF EntriesWith
<1>5. tables' = [tables EXCEPT ![o] = u]
  BY <1>1 DEF AssignedTable
<1> HIDE DEF i
<1>6. GoodTable(u, hash)
  BY <1>2, <1>3, AssignKeepsTable
<1>7. Dict(u) = WithMapped(Dict(t), key, x) /\ key \in Abstract!KeysOf(Dict(t))
  BY <1>2, <1>3, <1>4, AssignDict, DictHasKeys
<1> HIDE DEF u
<1>8. Maps' = [Maps EXCEPT ![o] = Dict(u)]
  BY <1>1, <1>5, <1>6, MapsReplaced DEF Usable
<1>9. Maps' = [Maps EXCEPT ![o] = [k \in 1 .. Len(@) |-> IF @[k][2] = key
                                      THEN <<@[k][1], key, x>> ELSE @[k]]]
  <2>1. Maps = [q \in Objects |-> Maps[q]]
    BY DEF Maps
  <2> HIDE DEF Maps
  <2> QED  BY <1>2, <1>7, <1>8, <2>1 DEF WithMapped
<1>10. key \in Abstract!KeysOf(Maps[o])
  BY <1>2, <1>7
<1>11. Abstract!Assign(o, key, x)
  BY <1>2, <1>9, <1>10 DEF Abstract!Assign, Maps, Dict
<1> QED  BY <1>11 DEF DictStep, Abstract!Next

(* The erasure of a key removes its entry. *)
LEMMA EraseRefines ==
  ASSUME HashtableInv, NEW o \in Objects, Usable(o), NEW key \in Keys, exists(index_of(o, key)),
         tables' = [tables EXCEPT ![o] = erase(tables[o], index_of(o, key))], moved' = moved
  PROVE  DictStep
<1> DEFINE t == tables[o]
           index == index_of(o, key)
           u == erase(t, index)
<1>1. tables \in [Objects -> Tables \cup {NoObject}]
  BY DEF HashtableInv, TypeOK
<1>2. /\ GoodTable(t, hash) /\ hash \in [Keys -> Nat]
      /\ Maps[o] = Dict(t) /\ Abstract!Usable(o)
  BY UsableMapsAreDicts
<1>3. /\ index.bucket_index \in Occupied(t.buckets)
      /\ iterated_index_from(t, index) \in EntriesWith(t, key)
  BY <1>2, FoundKeysAreStored DEF index_of
<1>4. KeyAt(t, iterated_index_from(t, index)) = key
  BY <1>3 DEF EntriesWith
<1> HIDE DEF index
<1>5. GoodTable(u, hash)
  BY <1>2, <1>3, EraseKeepsTable
<1>6. IsErased(Dict(t), Dict(u), key)
  BY <1>2, <1>3, <1>4, EraseDict
<1>7. tables' = [tables EXCEPT ![o] = u]
  BY DEF index
<1> HIDE DEF u
<1>8. PICK p \in 1 .. Len(Dict(t)) :
        /\ Dict(t)[p][2] = key
        /\ Dict(u) = [k \in 1 .. Len(Dict(t)) - 1 |-> Dict(t)[IF k < p THEN k ELSE k + 1]]
  BY <1>6 DEF IsErased
<1>9. Maps' = [Maps EXCEPT ![o] = Dict(u)]
  BY <1>5, <1>7, MapsReplaced DEF Usable
<1>10. Maps' = [Maps EXCEPT ![o] = [k \in 1 .. Len(@) - 1 |-> @[IF k < p THEN k ELSE k + 1]]]
  <2>1. Maps = [q \in Objects |-> Maps[q]]
    BY DEF Maps
  <2> HIDE DEF Maps
  <2> QED  BY <1>2, <1>8, <1>9, <2>1
<1>11. p \in 1 .. Len(Maps[o]) /\ Maps[o][p][2] = key
  BY <1>2, <1>8
<1>12. Abstract!Erase(o, key)
  BY <1>2, <1>10, <1>11 DEF Abstract!Erase, Maps, Dict
<1> QED  BY <1>12 DEF DictStep, Abstract!Next

-----------------------------------------------------------------------------
(* The insertions. *)
LEMMA InsertionRefines ==
  ASSUME HashtableInv, NEW o \in Objects, Insertion(o)
  PROVE  DictStep
<1>1. PICK key \in Keys :
        \/ subscript(o, key) \/ SetInsert(o, key) \/ SetTryEmplace(o, key)
        \/ \E x \in Mapped : insert(o, key, x) \/ try_emplace(o, key, x)
                             \/ insert_or_assign(o, key, x)
  BY DEF Insertion
<1>2. CASE subscript(o, key) \/ SetInsert(o, key) \/ SetTryEmplace(o, key)
  BY <1>2, DefaultIsMapped, EmplaceRefines DEF subscript, SetInsert, SetTryEmplace
<1>3. ASSUME NEW x \in Mapped, insert(o, key, x) \/ try_emplace(o, key, x)
      PROVE  DictStep
  BY <1>3, EmplaceRefines DEF insert, try_emplace
<1>4. ASSUME NEW x \in Mapped, insert_or_assign(o, key, x)
      PROVE  DictStep
  BY <1>4, EmplaceRefines, AssignRefines DEF insert_or_assign
<1> QED  BY <1>1, <1>2, <1>3, <1>4

(* erase removes an entry; erase_if, erase_range and clear only start      *)
(* their loop, and at changes nothing.                                     *)
LEMMA RemovalRefines ==
  ASSUME HashtableInv, NEW o \in Objects, Removal(o)
  PROVE  DictStep
<1>1. ASSUME NEW key \in Keys, erase_key(o, key) \/ SetErase(o, key) PROVE DictStep
  <2>1. /\ Callable(o) /\ exists(index_of(o, key)) /\ moved' = moved
        /\ tables' = [tables EXCEPT ![o] = erase(@, index_of(o, key))]
    BY <1>1 DEF SetErase, erase_key
  <2>2. Usable(o) /\ tables \in [Objects -> Tables \cup {NoObject}]
    BY <2>1, CallableMaps DEF HashtableInv, TypeOK
  <2>3. tables' = [tables EXCEPT ![o] = erase(tables[o], index_of(o, key))]
    BY <2>1, <2>2
  <2> QED  BY <2>1, <2>2, <2>3, EraseRefines
<1>2. ASSUME NEW key \in Keys, at_absent(o, key) PROVE DictStep
  BY <1>2, SameMaps DEF at_absent
<1>3. ASSUME NEW doomed \in Predicates, erase_if(o, doomed) PROVE DictStep
  BY <1>3, SameMaps DEF erase_if
<1>4. ASSUME NEW first \in Links, NEW last \in Links, erase_range(o, first, last) PROVE DictStep
  BY <1>4, SameMaps DEF erase_range
<1>5. ASSUME clear(o) PROVE DictStep
  BY <1>5, SameMaps DEF clear
<1> QED  BY <1>1, <1>2, <1>3, <1>4, <1>5 DEF Removal

(* Every iteration of a loop removes one entry or none. *)
LEMMA LoopRefines ==
  ASSUME HashtableInv, Loop
  PROVE  DictStep
<1> DEFINE o == loop.map
           i == loop.cur_index
           t == tables[o]
<1>1. /\ loop # NoLoop /\ loop \in Loops /\ Usable(o) /\ LoopPlace(t.values, i, loop.end, FALSE)
      /\ o \in Objects
  BY DEF Loop, LoopBody, LoopKeeps, LoopEnd, HashtableInv, Loops
<1>2. GoodTable(t, hash) /\ hash \in [Keys -> Nat] /\ t.values \in GoodLists
  BY <1>1, UsableMaps DEF GoodTable
<1>3. ASSUME LoopBody PROVE DictStep
  <2>1. i # loop.end
    BY <1>3 DEF LoopBody
  <2>2. i \in Live(t.values.storage)
    BY <1>1, <1>2, <2>1, DeleteKeepsLoopPlace
  <2>3. KeysAt(t, i) = {KeyAt(t, i)} /\ KeyAt(t, i) \in Keys
    BY <1>2, <2>2, TableFacts DEF GoodTable, KeysAt, KeyAt
  <2> DEFINE key == KeyAt(t, i)
  <2>4. tables' = [tables EXCEPT ![o] = erase(t, index_of(o, key))] /\ moved' = moved
    BY <1>3, <2>3 DEF LoopBody
  <2>5. exists(index_of(o, key))
    BY <1>2, <2>2, <2>3, StoredKeysAreFound DEF index_of
  <2> HIDE DEF key
  <2>6. key \in Keys
    BY <2>3 DEF key
  <2> QED  BY <1>1, <2>4, <2>5, <2>6, EraseRefines
<1>4. ASSUME LoopKeeps PROVE DictStep
  BY <1>4, SameMaps DEF LoopKeeps
<1>5. ASSUME LoopEnd PROVE DictStep
  BY <1>1, <1>5, SameMaps DEF LoopEnd, Usable
<1> QED  BY <1>3, <1>4, <1>5 DEF Loop

-----------------------------------------------------------------------------
(* A move hands the dictionary over and leaves an unspecified one. *)
LEMMA MoveRefines ==
  ASSUME HashtableInv, NEW o \in Objects, NEW other \in Objects, o # other,
         Usable(other), NEW l \in GoodLists,
         tables' = [tables EXCEPT ![o] = tables[other], ![other].values = l],
         moved' = (moved \ {o}) \cup {other}
  PROVE  DictStep
<1> DEFINE t == tables[other]
           t2 == [t EXCEPT !.values = l]
<1>1. /\ tables \in [Objects -> Tables \cup {NoObject}]
      /\ GoodTable(t, hash) /\ Maps[other] = Dict(t) /\ Abstract!Usable(other)
  BY UsableMapsAreDicts DEF HashtableInv, TypeOK
<1>2. t \in Tables
  BY <1>1 DEF GoodTable
<1>3. t2 \in Tables
  BY <1>2 DEF Tables, GoodLists
<1>4. t # NoObject /\ t2 # NoObject
  BY <1>2, <1>3, NoObjectIsNoTable
<1>5. tables' = [tables EXCEPT ![o] = t, ![other] = t2]
  BY <1>1, <1>2
<1> HIDE DEF t2, t
<1>6. tables'[o] = t /\ tables'[other] = t2 /\ \A p \in Objects \ {o, other} : tables'[p] = tables[p]
  BY <1>1, <1>5
<1>7. Maps'[o] = Maps[other] /\ Maps'[other] = MovedFrom
  BY <1>1, <1>4, <1>6 DEF Maps, Alive
<1>8. \A p \in Objects \ {o, other} : Maps'[p] = Maps[p]
  <2> SUFFICES ASSUME NEW p \in Objects \ {o, other} PROVE Maps'[p] = Maps[p]
    OBVIOUS
  <2>1. tables'[p] = tables[p] /\ (p \in moved' <=> p \in moved)
    BY <1>6
  <2> QED  BY <2>1 DEF Maps, Alive
<1>9. Maps = [p \in Objects |-> Maps[p]] /\ Maps' = [p \in Objects |-> Maps'[p]]
  BY DEF Maps
<1>10. Maps' = [Maps EXCEPT ![o] = Maps[other], ![other] = MovedFrom]
  <2> HIDE DEF Maps
  <2> QED  BY <1>7, <1>8, <1>9
<1>11. Abstract!Move(o, other)
  BY <1>1, <1>10 DEF Abstract!Move, Maps, Dict
<1> QED  BY <1>11 DEF DictStep, Abstract!Next

(* Only objects that are alive have been moved from. *)
MovedAreAlive == \A o \in moved : Alive(o)

(* A call on a map that was not moved from leaves those that were. *)
LEMMA OthersStayAlive ==
  ASSUME HashtableInv, MovedAreAlive, NEW o, o \notin moved', moved' \subseteq moved,
         \A p \in Objects \ {o} : tables'[p] = tables[p]
  PROVE  MovedAreAlive'
BY DEF HashtableInv, TypeOK, MovedAreAlive, Alive

(* Destruction forgets that an object was moved from. *)
LEMMA MovedStayAlive ==
  ASSUME HashtableInv, MovedAreAlive, ~ClearMovedFrom, [Next]_vars
  PROVE  MovedAreAlive'
<1>1. tables \in [Objects -> Tables \cup {NoObject}]
  BY DEF HashtableInv, TypeOK
<1>2. ASSUME tables' = tables, moved' \subseteq moved PROVE MovedAreAlive'
  BY <1>2 DEF MovedAreAlive, Alive
<1>3. CASE UNCHANGED vars
  BY <1>2, <1>3 DEF vars
<1>4. CASE Loop
  <2>1. loop # NoLoop /\ Usable(loop.map)
    BY <1>4 DEF Loop, LoopBody, LoopKeeps, LoopEnd, HashtableInv
  <2>2. CASE LoopBody
    <3>1. moved' = moved /\ \A p \in Objects \ {loop.map} : tables'[p] = tables[p]
      BY <1>1, <2>2 DEF LoopBody
    <3> QED  BY <2>1, <3>1, OthersStayAlive DEF Usable
  <2>3. CASE LoopKeeps \/ LoopEnd
    BY <1>2, <2>3 DEF LoopKeeps, LoopEnd
  <2> QED  BY <1>4, <2>2, <2>3 DEF Loop
<1>5. ASSUME NEW o \in Objects, Insertion(o) PROVE MovedAreAlive'
  <2>1. o \notin moved /\ moved' = moved /\ \A p \in Objects \ {o} : tables'[p] = tables[p]
    BY <1>1, <1>5 DEF Insertion, subscript, SetInsert, SetTryEmplace, insert, try_emplace,
      insert_or_assign, EmplaceAbsent, Callable
  <2> QED  BY <2>1, OthersStayAlive
<1>6. ASSUME NEW o \in Objects, Removal(o) PROVE MovedAreAlive'
  <2>1. o \notin moved /\ moved' = moved /\ \A p \in Objects \ {o} : tables'[p] = tables[p]
    BY <1>1, <1>6 DEF Removal, erase_key, SetErase, at_absent, erase_if, erase_range, clear, Callable
  <2> QED  BY <2>1, OthersStayAlive
<1>7. ASSUME NEW o \in Objects, Lifetime(o) PROVE MovedAreAlive'
  <2>1. CASE Construct(o)
    <3>1. o \notin moved /\ moved' = moved /\ \A p \in Objects \ {o} : tables'[p] = tables[p]
      BY <1>1, <2>1 DEF Construct, MovedAreAlive
    <3> QED  BY <3>1, OthersStayAlive
  <2>2. ASSUME NEW other \in Objects, Destroy(o) \/ CopyFrom(o, other) PROVE MovedAreAlive'
    <3>1. moved' = moved \ {o} /\ \A p \in Objects \ {o} : tables'[p] = tables[p]
      BY <1>1, <2>2, CopiesAreExact DEF Destroy, CopyFrom
    <3> QED  BY <3>1, OthersStayAlive
  <2>3. ASSUME NEW other \in Objects, MoveConstruct(o, other) \/ MoveAssign(o, other)
        PROVE  MovedAreAlive'
    <3>1. Callable(other) /\ o # other /\ moved' = (moved \ {o}) \cup {other}
      BY <2>3 DEF MoveConstruct, MoveAssign, Callable
    <3>2. tables[other] \in Tables /\ tables[other].values \in GoodLists
      BY <3>1, CallableMaps
    <3>3. /\ ClearedList(tables[other].values) \in GoodLists
          /\ MovedOut(tables[other].values) \in GoodLists
      <4>1. PICK e : Order(tables[other].values, e)
        BY <3>2, ChainHasOrder DEF GoodLists
      <4> QED  BY <3>2, <4>1, ClearedIsEmpty, MovedOutKeepsOrder
    <3>4. \A l \in GoodLists : [tables[other] EXCEPT !.values = l] # NoObject
      BY <3>2, NoObjectIsNoTable DEF Tables, GoodLists
    <3>5. \/ tables'[other] = [tables[other] EXCEPT !.values = ClearedList(tables[other].values)]
          \/ tables'[other] = [tables[other] EXCEPT !.values = MovedOut(tables[other].values)]
      BY <1>1, <2>3, <3>1, CopiesAreExact
    <3>6. \A p \in Objects \ {o, other} : tables'[p] = tables[p]
      BY <1>1, <2>3, <3>1, CopiesAreExact
    <3>7. tables'[other] # NoObject
      BY <3>3, <3>4, <3>5
    <3> QED  BY <3>1, <3>6, <3>7 DEF HashtableInv, TypeOK, MovedAreAlive, Alive
  <2> QED  BY <1>7, <2>1, <2>2, <2>3 DEF Lifetime
<1> QED  BY <1>3, <1>4, <1>5, <1>6, <1>7 DEF Next

(* Construction, destruction, copies and moves. *)
LEMMA LifetimeRefines ==
  ASSUME HashtableInv, MovedAreAlive, NEW o \in Objects, Lifetime(o)
  PROVE  DictStep
<1>1. hash \in [Keys -> Nat] /\ tables \in [Objects -> Tables \cup {NoObject}]
  BY HashIsAFunction DEF HashtableInv, TypeOK
<1>2. ASSUME Construct(o) PROVE DictStep
  <2>1. /\ ~Alive(o) /\ tables' = [tables EXCEPT ![o] = EmptyTable] /\ moved' = moved
        /\ o \notin moved
    BY <1>2 DEF Construct, MovedAreAlive
  <2>2. GoodTable(EmptyTable, hash)
    BY <1>1, EmptyTableIsGood
  <2>3. Dict(EmptyTable) = << >>
    <3>1. EmptyTable.values.size = 0
      BY DEF EmptyTable, EmptyList
    <3>2. Dict(EmptyTable) \in [1 .. 0 -> Slots \X Keys \X Mapped]
      BY <1>1, <2>2, <3>1, DictOfTable
    <3> QED  BY <3>2
  <2>4. Maps[o] = NoObject
    BY <2>1 DEF Maps
  <2>5. Maps' = [Maps EXCEPT ![o] = << >>]
    BY <1>2, <2>1, <2>2, <2>3, MapsReplaced
  <2>6. Abstract!Create(o)
    BY <2>4, <2>5 DEF Abstract!Create, Maps, Dict
  <2> QED  BY <2>6 DEF DictStep, Abstract!Next
<1>3. ASSUME Destroy(o) PROVE DictStep
  <2>1. Alive(o) /\ tables' = [tables EXCEPT ![o] = NoObject] /\ moved' = moved \ {o}
    BY <1>3 DEF Destroy
  <2>2. tables'[o] = NoObject /\ \A p \in Objects \ {o} : tables'[p] = tables[p]
    BY <1>1, <2>1
  <2>3. Maps'[o] = NoObject
    BY <2>2 DEF Maps, Alive
  <2>4. \A p \in Objects \ {o} : Maps'[p] = Maps[p]
    <3> SUFFICES ASSUME NEW p \in Objects \ {o} PROVE Maps'[p] = Maps[p]
      OBVIOUS
    <3>1. tables'[p] = tables[p] /\ (p \in moved' <=> p \in moved)
      BY <2>1, <2>2
    <3> QED  BY <3>1 DEF Maps, Alive
  <2>5. Maps = [p \in Objects |-> Maps[p]] /\ Maps' = [p \in Objects |-> Maps'[p]]
    BY DEF Maps
  <2>6. Maps' = [Maps EXCEPT ![o] = NoObject]
    <3> HIDE DEF Maps
    <3> QED  BY <2>3, <2>4, <2>5
  <2>7. Maps[o] # NoObject
    <3>1. CASE o \in moved
      BY <2>1, <3>1, NoObjectIsNoDictionary DEF Maps
    <3>2. CASE o \notin moved
      BY <2>1, <3>2, UsableMapsAreDicts, DictOfTable DEF Usable
    <3> QED  BY <3>1, <3>2
  <2>8. Abstract!Destroy(o)
    BY <2>6, <2>7 DEF Abstract!Destroy, Maps, Dict
  <2> QED  BY <2>8 DEF DictStep, Abstract!Next
<1>4. ASSUME NEW other \in Objects, CopyFrom(o, other) PROVE DictStep
  <2>1. /\ Callable(other) /\ moved' = moved \ {o}
        /\ tables' = [tables EXCEPT ![o] = tables[other]]
    BY <1>4, CopiesAreExact DEF CopyFrom
  <2>2. Usable(other) /\ GoodTable(tables[other], hash) /\ tables[other] \in Tables
    BY <2>1, CallableMaps
  <2>4. Maps[other] = Dict(tables[other]) /\ Abstract!Usable(other)
    BY <2>2, UsableMapsAreDicts
  <2>5. Maps' = [Maps EXCEPT ![o] = Maps[other]]
    BY <2>1, <2>2, <2>4, MapsReplaced
  <2>6. Abstract!Copy(o, other)
    BY <2>4, <2>5 DEF Abstract!Copy, Maps, Dict
  <2> QED  BY <2>6 DEF DictStep, Abstract!Next
<1>5. ASSUME NEW other \in Objects, MoveConstruct(o, other) \/ MoveAssign(o, other) PROVE DictStep
  <2>1. Callable(other) /\ o # other /\ moved' = (moved \ {o}) \cup {other}
    BY <1>5 DEF MoveConstruct, MoveAssign, Callable
  <2>2. Usable(other) /\ tables[other].values \in GoodLists
    BY <2>1, CallableMaps
  <2>3. ClearedList(tables[other].values) \in GoodLists /\ MovedOut(tables[other].values) \in GoodLists
    <3>1. PICK e : Order(tables[other].values, e)
      BY <2>2, ChainHasOrder DEF GoodLists
    <3> QED  BY <2>2, <3>1, ClearedIsEmpty, MovedOutKeepsOrder
  <2>4. \/ tables' = [tables EXCEPT ![o] = tables[other],
                                    ![other].values = ClearedList(tables[other].values)]
        \/ tables' = [tables EXCEPT ![o] = tables[other],
                                    ![other].values = MovedOut(tables[other].values)]
    BY <1>5, <2>1, CopiesAreExact
  <2> QED  BY <2>1, <2>2, <2>3, <2>4, MoveRefines
<1> QED  BY <1>2, <1>3, <1>4, <1>5 DEF Lifetime

(* The hashtable is an insertion-ordered dictionary, for every capacity,   *)
(* hash function and number of maps: an entry keeps its index and its      *)
(* place while others come and go, a lookup decides between inserting and  *)
(* assigning as the keys demand, and the loops of erase_range and erase_if *)
(* remove one entry at a time.                                             *)
THEOREM HashtablesAreDictionaries ==
  ASSUME ~ClearMovedFrom
  PROVE  Spec => RefinesDictionaries
<1>1. Init => Abstract!Init
  BY DEF Init, Abstract!Init, Alive
<1>2. Init => MovedAreAlive
  BY DEF Init, MovedAreAlive
<1>3. HashtableInv /\ MovedAreAlive /\ [Next]_vars => MovedAreAlive'
  BY MovedStayAlive
<1>4. HashtableInv /\ MovedAreAlive /\ [Next]_vars => [Abstract!Next]_Maps
  <2> SUFFICES ASSUME HashtableInv, MovedAreAlive, [Next]_vars PROVE DictStep
    BY DEF DictStep
  <2>1. CASE UNCHANGED vars
    BY <2>1, SameMaps DEF vars
  <2>2. CASE Next
    BY <2>2, InsertionRefines, RemovalRefines, LifetimeRefines, LoopRefines DEF Next
  <2> QED  BY <2>1, <2>2
<1>5. [Abstract!Next]_Maps
        => [Abstract!Next]_([o \in Objects |->
             IF ~Alive(o) THEN NoObject
             ELSE IF o \in moved THEN MovedFrom
             ELSE LET items == Items(tables[o].values)
                  IN  [k \in DOMAIN items |->
                         <<items[k][1], KeyOf[items[k][2]], MappedOf[items[k][2]]>>]])
  BY DEF Maps, Dict
<1> QED  BY <1>1, <1>4, <1>5, <1>2, <1>3, HashtableInvHolds, PTL
           DEF Spec, RefinesDictionaries, Abstract!Spec
=============================================================================
