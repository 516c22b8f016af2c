------------------------- MODULE FixedUnorderedMap -------------------------
(***************************************************************************)
(* FixedUnorderedMap: FixedMapAdapter over FixedRobinhoodHashtable.  The   *)
(* hash function is any function from Keys to Hashes, chosen when the      *)
(* program starts.  FixedUnorderedSet is FixedSetAdapter over the same     *)
(* table with the mapped value EmptyValue, here Default; its calls are the *)
(* actions whose names begin with Set.                                     *)
(*                                                                         *)
(* erase(first, last) and clear() are the loop of erase_range, one lookup  *)
(* and one erasure per iteration, and erase_if is a loop of its own; every *)
(* iteration is a step.  insert(first, last) is a loop of insert.          *)
(***************************************************************************)
EXTENDS RobinhoodHashtable

CONSTANTS
  HashFunctions,    (* the hash functions considered                       *)
  Default,          (* the value-initialised mapped value                  *)
  Objects, NoObject, NoLoop,
  Predicates,       (* what erase_if is called with: the keys to erase     *)
  ClearMovedFrom    (* whether clients clear() maps they moved from, to    *)
                    (* use them again                                      *)

ASSUME DefaultIsMapped == Default \in Mapped
ASSUME HashesAreNumbers == HashFunctions \subseteq [Keys -> Nat]
ASSUME NoObjectIsNoTable == NoObject \notin Tables
ASSUME NoObjectIsNoDictionary ==
  /\ NoObject # MovedFrom
  /\ \A n \in Links : \A x \in {NoObject, MovedFrom} : x \notin [1 .. n -> Slots \X Keys \X Mapped]
ASSUME PredicatesAreSetsOfKeys == Predicates \subseteq SUBSET Keys

VARIABLES
  tables,   (* the map objects                                             *)
  hash,     (* the hash function                                           *)
  moved,    (* the objects whose value was moved out                       *)
  loop,     (* the erase_range or erase_if in progress: map, cur_index,    *)
            (* end and the keys to erase                                   *)
  aborted   (* CheckingType::length_error or out_of_range has been called  *)

vars == <<tables, hash, moved, loop, aborted>>

Init ==
  /\ tables = [o \in Objects |-> NoObject]
  /\ hash \in HashFunctions
  /\ moved = {}
  /\ loop = NoLoop
  /\ aborted = FALSE

Alive(o) == tables[o] # NoObject
Idle == ~aborted /\ loop = NoLoop
Callable(o) == Idle /\ Alive(o) /\ o \notin moved

index_of(o, key) == opaque_index_of(tables[o], hash[key], key)
size(o) == tables[o].values.size

(* PairProvider::advance and ReferenceProvider::advance. *)
next_of(t, i) == t.values.next[i]

(* find: the index of the entry, the sentinel for end(). *)
find(o, key) ==
  LET index == index_of(o, key)
  IN  IF exists(index) THEN iterated_index_from(tables[o], index) ELSE NULL_INDEX

(* The entries from begin() to end(). *)
EntriesOf(o) == LET items == Items(tables[o].values)
                IN  [k \in DOMAIN items |-> items[k][2]]

(* Mutant: the sizes are not compared. *)
EqualIgnoresSize(o, other) ==
  \A k \in DOMAIN EntriesOf(o) :
    LET e  == EntriesOf(o)[k]
        it == find(other, KeyOf[e])
    IN  /\ it # NULL_INDEX
        /\ MappedOf[tables[other].values.storage.array[it]] = MappedOf[e]

(* operator== of FixedMapAdapter, and of FixedSetAdapter where every       *)
(* mapped value is Default.                                                *)
Equal(o, other) ==
  /\ size(o) = size(other)
  /\ \A k \in DOMAIN EntriesOf(o) :
       LET e  == EntriesOf(o)[k]
           it == find(other, KeyOf[e])
       IN  /\ it # NULL_INDEX
           /\ MappedOf[tables[other].values.storage.array[it]] = MappedOf[e]

-----------------------------------------------------------------------------
(* Every insertion looks the key up, returns on a key that is present,     *)
(* checks the capacity and emplaces at the index found.                    *)
EmplaceAbsent(o, key, x) ==
  /\ ~exists(index_of(o, key))
  /\ \/ /\ size(o) < MAXIMUM_SIZE
        /\ tables' = [tables EXCEPT ![o] = emplace(@, index_of(o, key), Entry(key, x))]
        /\ UNCHANGED <<hash, moved, loop, aborted>>
     \/ /\ size(o) >= MAXIMUM_SIZE
        /\ aborted' = TRUE
        /\ UNCHANGED <<tables, hash, moved, loop>>

(* operator[] on an absent key. *)
subscript(o, key) == Callable(o) /\ EmplaceAbsent(o, key, Default)

insert(o, key, x) == Callable(o) /\ EmplaceAbsent(o, key, x)

try_emplace(o, key, x) == Callable(o) /\ EmplaceAbsent(o, key, x)

insert_or_assign(o, key, x) ==
  /\ Callable(o)
  /\ \/ EmplaceAbsent(o, key, x)
     \/ /\ exists(index_of(o, key))
        /\ LET i == iterated_index_from(tables[o], index_of(o, key)) IN
           tables' = [tables EXCEPT ![o].values.storage.array[i] = Entry(KeyOf[@], x)]
        /\ UNCHANGED <<hash, moved, loop, aborted>>

(* at(key) on an absent key. *)
at_absent(o, key) ==
  /\ Callable(o) /\ ~exists(index_of(o, key))
  /\ aborted' = TRUE
  /\ UNCHANGED <<tables, hash, moved, loop>>

(* FixedSetAdapter: insert and emplace, try_emplace. *)
SetInsert(o, key) == Callable(o) /\ EmplaceAbsent(o, key, Default)

SetTryEmplace(o, key) == Callable(o) /\ EmplaceAbsent(o, key, Default)

(* erase(key) and erase(pos). *)
erase_key(o, key) ==
  /\ Callable(o) /\ exists(index_of(o, key))
  /\ tables' = [tables EXCEPT ![o] = erase(@, index_of(o, key))]
  /\ UNCHANGED <<hash, moved, loop, aborted>>

SetErase(o, key) == erase_key(o, key)

erase_range(o, first, last) ==
  /\ Callable(o)
  /\ first \in Live(tables[o].values.storage) \cup {NULL_INDEX}
  /\ last \in WalkFrom(tables[o].values, first)
  /\ loop' = [map |-> o, cur_index |-> first, end |-> last, doomed |-> Keys]
  /\ UNCHANGED <<tables, hash, moved, aborted>>

clear(o) ==
  /\ Idle /\ Alive(o) /\ (o \notin moved \/ ClearMovedFrom)
  /\ loop' = [map |-> o, cur_index |-> front_index(tables[o].values), end |-> NULL_INDEX,
              doomed |-> Keys]
  /\ UNCHANGED <<tables, hash, moved, aborted>>

(* The free function erase_if, from begin() to end(). *)
erase_if(o, doomed) ==
  /\ Callable(o)
  /\ loop' = [map |-> o, cur_index |-> front_index(tables[o].values), end |-> NULL_INDEX,
              doomed |-> doomed]
  /\ UNCHANGED <<tables, hash, moved, aborted>>

(* key_at: a moved-from entry has some key. *)
KeysAt(t, i) ==
  IF t.values.storage.array[i] \in Entries THEN {KeyOf[t.values.storage.array[i]]} ELSE Keys

(* cur_index = erase(opaque_index_of(key_at(cur_index))), without a test   *)
(* that the index exists.                                                  *)
LoopBody ==
  /\ loop # NoLoop /\ loop.cur_index # loop.end
  /\ \E key \in KeysAt(tables[loop.map], loop.cur_index) :
       LET t     == tables[loop.map]
           index == index_of(loop.map, key)
       IN  /\ key \in loop.doomed
           /\ tables' = [tables EXCEPT ![loop.map] = erase(t, index)]
           /\ loop' = [loop EXCEPT !.cur_index = IndexAfterErase(t, index)]
  /\ UNCHANGED <<hash, moved, aborted>>

(* erase_if keeps this entry and advances its iterator. *)
LoopKeeps ==
  /\ loop # NoLoop /\ loop.cur_index # loop.end
  /\ KeysAt(tables[loop.map], loop.cur_index) \cap loop.doomed = {}
  /\ loop' = [loop EXCEPT !.cur_index = next_of(tables[loop.map], @)]
  /\ UNCHANGED <<tables, hash, moved, aborted>>

(* Mutant: the range ends at the end of the map only. *)
LoopEndAtSentinel ==
  /\ loop # NoLoop /\ loop.cur_index = loop.end /\ loop.end = NULL_INDEX
  /\ loop' = NoLoop
  /\ moved' = moved \ {loop.map}
  /\ UNCHANGED <<tables, hash, aborted>>

(* A map that was moved from and cleared is an ordinary map again. *)
LoopEnd ==
  /\ loop # NoLoop /\ loop.cur_index = loop.end
  /\ loop' = NoLoop
  /\ moved' = moved \ {loop.map}
  /\ UNCHANGED <<tables, hash, aborted>>

-----------------------------------------------------------------------------
Construct(o) ==
  /\ Idle /\ ~Alive(o)
  /\ tables' = [tables EXCEPT ![o] = EmptyTable]
  /\ UNCHANGED <<hash, moved, loop, aborted>>

(* The list that a copy or a move goes to: new, or cleared before. *)
Target(o) == IF Alive(o) THEN ClearedList(tables[o].values) ELSE EmptyList

(* Copy construction and copy assignment. *)
CopyFrom(o, other) ==
  /\ Callable(other) /\ o # other
  /\ \E copy \in TableCopies(Target(o), tables[other]) :
       tables' = [tables EXCEPT ![o] = copy]
  /\ moved' = moved \ {o}
  /\ UNCHANGED <<hash, loop, aborted>>

(* The defaulted move constructor: the list member clears its source, the  *)
(* bucket array stays as it is.                                            *)
MoveConstruct(o, other) ==
  /\ Callable(other) /\ ~Alive(o)
  /\ \E copy \in TableCopies(Target(o), tables[other]) :
       tables' = [tables EXCEPT ![o] = copy, ![other].values = ClearedList(@)]
  /\ moved' = (moved \ {o}) \cup {other}
  /\ UNCHANGED <<hash, loop, aborted>>

(* The defaulted move assignment: the list member leaves the moved-out     *)
(* entries in its source.                                                  *)
MoveAssign(o, other) ==
  /\ Callable(other) /\ Alive(o) /\ o # other
  /\ \E copy \in TableCopies(Target(o), tables[other]) :
       tables' = [tables EXCEPT ![o] = copy, ![other].values = MovedOut(@)]
  /\ moved' = (moved \ {o}) \cup {other}
  /\ UNCHANGED <<hash, loop, aborted>>

Destroy(o) ==
  /\ Idle /\ Alive(o)
  /\ tables' = [tables EXCEPT ![o] = NoObject]
  /\ moved' = moved \ {o}
  /\ UNCHANGED <<hash, loop, aborted>>

-----------------------------------------------------------------------------
Insertion(o) ==
  \E key \in Keys :
    \/ subscript(o, key) \/ SetInsert(o, key) \/ SetTryEmplace(o, key)
    \/ \E x \in Mapped : insert(o, key, x) \/ try_emplace(o, key, x)
                         \/ insert_or_assign(o, key, x)

Removal(o) ==
  \/ \E key \in Keys : erase_key(o, key) \/ SetErase(o, key) \/ at_absent(o, key)
  \/ \E doomed \in Predicates : erase_if(o, doomed)
  \/ \E first, last \in Links : erase_range(o, first, last)
  \/ clear(o)

Lifetime(o) ==
  \/ Construct(o) \/ Destroy(o)
  \/ \E other \in Objects :
       CopyFrom(o, other) \/ MoveConstruct(o, other) \/ MoveAssign(o, other)

Loop == LoopBody \/ LoopKeeps \/ LoopEnd

Next == Loop \/ \E o \in Objects : Insertion(o) \/ Removal(o) \/ Lifetime(o)

(* A call that has begun runs on until it returns. *)
Spec == Init /\ [][Next]_vars /\ WF_vars(Loop)

-----------------------------------------------------------------------------
Loops == [map : Objects, cur_index : Links, end : Links, doomed : SUBSET Keys]

(* The members of FixedRobinhoodHashtable hold indices and words in range. *)
TypeOK ==
  /\ tables \in [Objects -> Tables \cup {NoObject}]
  /\ moved \subseteq Objects
  /\ loop \in Loops \cup {NoLoop}
  /\ aborted \in BOOLEAN

Usable(o) == Alive(o) /\ o \notin moved

(* Every entry has exactly one bucket, as far from the home of its key as  *)
(* its distance says and with its fingerprint; every other bucket is       *)
(* empty; and the words never rise by more than one distance from a bucket *)
(* to the next (what emplace, erase_bucket and the wrap-around of both     *)
(* must keep).                                                             *)
BucketsMatchEntries ==
  \A o \in Objects : Usable(o) =>
    LET t == tables[o]
        occupied == {b \in BucketIndices : t.buckets[b].dist_and_fingerprint # 0}
    IN  /\ \A i \in Live(t.values.storage) :
             \E b \in occupied : t.buckets[b].value_index = i
        /\ \A b, c \in occupied :
             t.buckets[b].value_index = t.buckets[c].value_index => b = c
        /\ \A b \in occupied :
             /\ t.buckets[b].value_index \in Live(t.values.storage)
             /\ LET h == hash[KeyOf[t.values.storage.array[t.buckets[b].value_index]]]
                IN  \E k \in BucketIndices :
                      /\ b = ProbeLoc(h, k)
                      /\ t.buckets[b].dist_and_fingerprint = ProbeWord(h, k)
        /\ \A b \in occupied :
             dist(t.buckets[b]) > 1 =>
               t.buckets[b].dist_and_fingerprint
                 <= t.buckets[Ahead(b, INTERNAL_TABLE_SIZE - 1)].dist_and_fingerprint + DIST_INC

(* A lookup finds exactly the keys that are stored, and the entry of the   *)
(* key it was given, although it gives up at the first bucket that is      *)
(* closer to its home (opaque_index_of).                                   *)
LookupsAreExact ==
  \A o \in Objects : Usable(o) => \A key \in Keys :
    LET entries == {i \in Live(tables[o].values.storage) :
                      KeyOf[tables[o].values.storage.array[i]] = key}
        index == index_of(o, key)
    IN  IF exists(index) THEN entries = {iterated_index_from(tables[o], index)}
                         ELSE entries = {}

(* operator== compares sizes and looks every entry of one map up in the    *)
(* other: it says whether the two hold the same entries, whatever order    *)
(* they were inserted in and wherever their buckets lie.                   *)
EqualityIsExact ==
  \A o, other \in Objects : Usable(o) /\ Usable(other) =>
    (Equal(o, other) <=>
       {EntriesOf(o)[k] : k \in DOMAIN EntriesOf(o)}
         = {EntriesOf(other)[k] : k \in DOMAIN EntriesOf(other)})

(* The `while (true)' of opaque_index_of, the loop of erase_bucket and the *)
(* loop of place_and_shift_up come to an end in every table, also in one   *)
(* without an empty bucket and with the distance word at its limit.        *)
ProbingEnds ==
  \A o \in Objects : Usable(o) =>
    LET t == tables[o] IN
    /\ \A key \in Keys : Stops(LAMBDA k : ProbeExits(t, hash[key], key, k))
    /\ \A b \in BucketIndices :
         /\ t.buckets[b] # EmptyBucket =>
              \E k \in 1 .. INTERNAL_TABLE_SIZE : StaysAfter(t.buckets, b, k)
         /\ t.values.size < MAXIMUM_SIZE =>
              \E k \in BucketIndices : IsEmptyAfter(t.buckets, b, k)

(* erase_range erases opaque_index_of(key_at(cur_index)) without asking    *)
(* whether that index exists: it always does, and the assertion of         *)
(* erase(pos), which erase_if calls, never fails.                          *)
RangeErasesExistingKeys ==
  (loop # NoLoop /\ loop.map \notin moved /\ loop.cur_index # loop.end) =>
    /\ loop.cur_index \in Live(tables[loop.map].values.storage)
    /\ loop.end \in WalkFrom(tables[loop.map].values, loop.cur_index)
    /\ exists(index_of(loop.map, KeyOf[tables[loop.map].values.storage.array[loop.cur_index]]))

(* erase_range, clear and erase_if come to an end, although they erase     *)
(* from the list that they walk.                                           *)
LoopsEnd == loop # NoLoop ~> loop = NoLoop

Abstract == INSTANCE OrderedDictionaries WITH
  Indices <- Slots, Unspecified <- MovedFrom,
  maps <- [o \in Objects |->
    IF ~Alive(o) THEN NoObject
    ELSE IF o \in moved THEN MovedFrom
    ELSE LET items == Items(tables[o].values)
         IN  [k \in DOMAIN items |-> <<items[k][1], KeyOf[items[k][2]], MappedOf[items[k][2]]>>]]

(* The hashtable behaves as an insertion-ordered dictionary in which an    *)
(* entry keeps its index, so that iterators survive the insertion and the  *)
(* erasure of other entries, and a copy is equal to its original.          *)
RefinesDictionaries == Abstract!Spec
=============================================================================
