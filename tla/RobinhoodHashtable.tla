------------------------- MODULE RobinhoodHashtable -------------------------
(***************************************************************************)
(* FixedRobinhoodHashtable: the entries sit in a FixedDoublyLinkedList in  *)
(* insertion order; an open-addressing array of buckets points into it.    *)
(* A bucket packs its distance from the home of its key (1 at home) and    *)
(* the low bits of the hash into one word, dist_and_fingerprint, and a     *)
(* word of 0 marks an empty bucket.                                        *)
(*                                                                         *)
(* The three probing loops (lookup, shift up, shift down) are written as   *)
(* the number of iterations they run, the least one at which the exit      *)
(* condition of the code holds.                                            *)
(***************************************************************************)
EXTENDS Integers, DoublyLinkedListOps

CONSTANTS            (* MAXIMUM_SIZE is MAXIMUM_VALUE_COUNT                *)
  BUCKET_COUNT,
  DIST_INC,          (* 1 << FINGERPRINT_BITS                              *)
  MAX_NUM_BUCKETS,   (* the largest distance that a bucket can hold        *)
  Keys, Mapped,
  KeyOf, MappedOf    (* the members of an entry                            *)

(* PairType: the values of the list. *)
Entries == Values

(* The static_asserts of the class; 2^24 - 1 distances fit into a word.    *)
ASSUME BucketCountFits ==
  /\ {MAXIMUM_SIZE, BUCKET_COUNT, MAX_NUM_BUCKETS, DIST_INC} \subseteq Nat
  /\ MAXIMUM_SIZE <= BUCKET_COUNT
  /\ BUCKET_COUNT <= MAX_NUM_BUCKETS
  /\ DIST_INC > 0 /\ MAX_NUM_BUCKETS > 1

(* An entry is determined by its members. *)
ASSUME EntriesArePairs ==
  /\ KeyOf \in [Entries -> Keys] /\ MappedOf \in [Entries -> Mapped]
  /\ \A key \in Keys, x \in Mapped : \E e \in Entries :
       \A f \in Entries : f = e <=> KeyOf[f] = key /\ MappedOf[f] = x

Entry(key, x) == CHOOSE e \in Entries : KeyOf[e] = key /\ MappedOf[e] = x

INTERNAL_TABLE_SIZE == IF BUCKET_COUNT < 1 THEN 1 ELSE BUCKET_COUNT
BucketIndices == 0 .. INTERNAL_TABLE_SIZE - 1

(* DistAndFingerprintType is unsigned and wraps around. *)
Words == DIST_INC * (MAX_NUM_BUCKETS + 1)

Buckets == [dist_and_fingerprint : 0 .. Words - 1, value_index : Links]
Tables == [values : ListObjects, buckets : [BucketIndices -> Buckets]]

EmptyBucket == [dist_and_fingerprint |-> 0, value_index |-> 0]
EmptyTable ==
  [values |-> EmptyList, buckets |-> [b \in BucketIndices |-> EmptyBucket]]

-----------------------------------------------------------------------------
dist(b) == b.dist_and_fingerprint \div DIST_INC

dist_and_fingerprint_from_hash(hash) == DIST_INC + (hash % DIST_INC)

increment_dist(word) == (word + DIST_INC) % Words
plus_dist(b)  == [b EXCEPT !.dist_and_fingerprint = increment_dist(@)]
minus_dist(b) == [b EXCEPT !.dist_and_fingerprint = (@ - DIST_INC) % Words]

bucket_index_from_hash(hash) == (hash \div DIST_INC) % INTERNAL_TABLE_SIZE

(* next_bucket_index applied k times. *)
Ahead(loc, k) == (loc + k) % INTERNAL_TABLE_SIZE

(* The number of iterations of a loop that exits at the first k with       *)
(* Exit(k).  Two rounds of the table are enough for any of them.           *)
Iterations == 0 .. 2 * INTERNAL_TABLE_SIZE
Stops(Exit(_)) == \E k \in Iterations : Exit(k)
FirstExit(Exit(_)) ==
  CHOOSE k \in Iterations : Exit(k) /\ \A j \in 0 .. k - 1 : ~Exit(j)

-----------------------------------------------------------------------------
(* key_equal(key, key_at(i)): a cell without an entry equals no key.       *)
KeyIsAt(t, i, key) ==
  /\ i \in Slots
  /\ t.values.storage.array[i] \in Entries
  /\ KeyOf[t.values.storage.array[i]] = key

(* The k-th probe of opaque_index_of for a key with this hash. *)
ProbeLoc(hash, k)  == Ahead(bucket_index_from_hash(hash), k)
ProbeWord(hash, k) == (dist_and_fingerprint_from_hash(hash) + k * DIST_INC) % Words

ProbeMatches(t, hash, key, k) ==
  LET bucket == t.buckets[ProbeLoc(hash, k)] IN
  /\ bucket.dist_and_fingerprint = ProbeWord(hash, k)
  /\ KeyIsAt(t, bucket.value_index, key)

(* Mutant: the early exit leaves out the fingerprint bits of one side. *)
ProbeExitsOnEqualDist(t, hash, key, k) ==
  \/ ProbeMatches(t, hash, key, k)
  \/ ProbeWord(hash, k) \div DIST_INC >= dist(t.buckets[ProbeLoc(hash, k)])
(* Mutant: the lookup stops at an empty bucket only. *)
ProbeExitsWhenEmpty(t, hash, key, k) ==
  \/ ProbeMatches(t, hash, key, k)
  \/ t.buckets[ProbeLoc(hash, k)] = EmptyBucket

ProbeExits(t, hash, key, k) ==
  \/ ProbeMatches(t, hash, key, k)
  \/ ProbeWord(hash, k) > t.buckets[ProbeLoc(hash, k)].dist_and_fingerprint

(* The index of a key that is present has a dist_and_fingerprint of 0; the *)
(* index of one that is absent says where and with which word it goes in.  *)
opaque_index_of(t, hash, key) ==
  LET k == FirstExit(LAMBDA j : ProbeExits(t, hash, key, j)) IN
  [bucket_index |-> ProbeLoc(hash, k),
   dist_and_fingerprint |->
     IF ProbeMatches(t, hash, key, k) THEN 0 ELSE ProbeWord(hash, k)]

exists(index) == index.dist_and_fingerprint = 0

iterated_index_from(t, index) == t.buckets[index.bucket_index].value_index

-----------------------------------------------------------------------------
(* place_and_shift_up: the run of occupied buckets from loc moves up by    *)
(* one into the first empty bucket, each one step further from home.       *)
IsEmptyAfter(buckets, loc, k) ==
  buckets[Ahead(loc, k)].dist_and_fingerprint = 0

place_and_shift_up_keeping_dist(buckets, bucket, loc) ==
  LET e == FirstExit(LAMBDA k : IsEmptyAfter(buckets, loc, k)) IN
  [b \in BucketIndices |->
     IF b = loc THEN bucket
     ELSE IF \E k \in 1 .. e : b = Ahead(loc, k)
          THEN buckets[Ahead(b, INTERNAL_TABLE_SIZE - 1)]
          ELSE buckets[b]]

place_and_shift_up(buckets, bucket, loc) ==
  LET e == FirstExit(LAMBDA k : IsEmptyAfter(buckets, loc, k)) IN
  [b \in BucketIndices |->
     IF b = loc THEN bucket
     ELSE IF \E k \in 1 .. e : b = Ahead(loc, k)
          THEN plus_dist(buckets[Ahead(b, INTERNAL_TABLE_SIZE - 1)])
          ELSE buckets[b]]

(* erase_bucket: the buckets behind loc move down by one until one that is *)
(* empty or at home.  Once around, the loop reads the bucket at loc again, *)
(* which its first iteration has overwritten.                              *)
StaysAfter(buckets, loc, k) ==
  LET b == IF k < INTERNAL_TABLE_SIZE \/ INTERNAL_TABLE_SIZE = 1
           THEN buckets[Ahead(loc, k)] ELSE minus_dist(buckets[Ahead(loc, k + 1)])
  IN  k >= 1 /\ b.dist_and_fingerprint < 2 * DIST_INC

erase_bucket_without_shift(buckets, loc) == [buckets EXCEPT ![loc] = EmptyBucket]

erase_bucket(buckets, loc) ==
  LET e == FirstExit(LAMBDA k : StaysAfter(buckets, loc, k)) IN
  [b \in BucketIndices |->
     IF b = Ahead(loc, e - 1) THEN EmptyBucket
     ELSE IF \E k \in 0 .. e - 2 : b = Ahead(loc, k)
          THEN minus_dist(buckets[Ahead(b, 1)])
          ELSE buckets[b]]

-----------------------------------------------------------------------------
emplace(t, index, entry) ==
  [values  |-> emplace_after_index(t.values, back_index(t.values), entry),
   buckets |-> place_and_shift_up(t.buckets,
                 [dist_and_fingerprint |-> index.dist_and_fingerprint,
                  value_index |-> t.values.storage.next_index],
                 index.bucket_index)]

(* erase; the index it returns is the list's successor of the entry. *)
erase(t, index) ==
  LET i == iterated_index_from(t, index) IN
  [values |-> delete_at(t.values, i), buckets |-> erase_bucket(t.buckets, index.bucket_index)]

IndexAfterErase(t, index) == NextAfterDelete(t.values, iterated_index_from(t, index))

(* The defaulted special members copy both members: the list its values to *)
(* a list that holds none, the array its buckets.                          *)
TableCopies(this, other) ==
  {[values |-> l, buckets |-> other.buckets] : l \in Copies(this, other.values)}
=============================================================================
