# Formal models of fixed-containers

TLA+ models of the containers in `src/include/fixed_containers`: header-only C++
containers of a capacity fixed at compile time, with the interfaces of their `std`
equivalents and no dynamic allocation. The library is sequential: an object is never
shared between threads. What is hard about it is *state*: hand-made freelists and links
of indices, a bucket array that shadows a list, wrap-around index arithmetic, element
lifetimes managed by hand (`construct_at` / `destroy_at` on raw cells), and calls whose
order nobody wrote a test for. The models explore every order of calls on small
capacities; TLAPS proves the central safety properties of the pool, the lists, the
hashtable, the vector, both deques and the string for every capacity, those of the bitset
and the enum containers for every bit count and enumeration, and that the lists,
the hashtable and the enum containers implement their abstract specifications.

## 1. Inventory

| Component | State it keeps | Operations | Built on |
|---|---|---|---|
| Index based storage (`fixed_index_based_storage.hpp`, `index_or_value_storage.hpp`) | an array of cells, each a value or the index of the next free cell; the head of the freelist | emplace, delete, copy of the freelist | `memory.hpp` |
| `FixedDoublyLinkedList` | a pool of values, a parallel array of next/prev indices with a sentinel, a size | emplace before/after/front/back, delete one or a range, clear, copy, move | the pool |
| `FixedRobinhoodHashtable` | a list of entries in insertion order; an array of buckets (distance + fingerprint, index of the entry) | lookup, emplace, erase, erase_range, clear, copy, move | the list |
| `FixedUnorderedMap`, `FixedUnorderedSet` (`fixed_map_adapter.hpp`) | a hashtable | `std::unordered_map`'s | the hashtable |
| `FixedVector` | an array of raw cells, a size | `std::vector`'s | `memory.hpp`, `algorithm.hpp`, `optional_storage.hpp` |
| `FixedDeque` | an array of raw cells, a size, a start index that drifts | `std::deque`'s | the same, `circular_indexing.hpp` |
| `FixedCircularDeque` | a `FixedDeque` | `std::deque`'s, dropping elements when full | `FixedDeque` |
| `FixedQueue`, `FixedStack`, `FixedCircularQueue` | a deque or a vector | forwarding adapters | the above |
| `FixedList` | a `FixedDoublyLinkedList` | `std::list`'s | the list |
| `FixedRedBlackTree`, `FixedMap`, `FixedSet` | nodes with parent, child and colour packed into indices; a root; pool or contiguous storage | insertion, deletion, rebalancing, lookup | index based storage |
| `FixedBitset` | an array of words | `std::bitset`'s | |
| `EnumMap`, `EnumSet`, `EnumArray` | raw cells and a bit per enumerator; an array | `std::map`'s, `std::set`'s, `std::array`'s | `FixedBitset`, `enum_utils.hpp`, filtered ranges |
| `FixedString` | a vector of characters with a terminator behind the last one | `std::string`'s | `FixedVector` |
| Iterators (`bidirectional_iterator.hpp`, `random_access_iterator.hpp`, range iterators) | a position | advance, recede, reverse and base | the containers |
| Checking policies (`sequence_container_checking.hpp`, `assert_or_abort.hpp`) | none | a failed check ends the process | |

Interaction is by calls only; the one form of concurrency is that a destructor or a
constructor of `T` runs in the middle of a loop over the container. The hazards are in
`PROJECT.json`, each at its line. The properties that make a component correct:

* storage: the freelist names each free cell once; an index stays valid until deleted;
  "full" means that every cell is occupied;
* list: the chain and the freelist split the cells between them in every state, also half
  way through a range deletion; a copy keeps indices; nothing leaks;
* hashtable: the buckets mirror the list; a lookup is exact although it gives up early;
  the unbounded probing loops end;
* sequences: every call has the effect, the result and the abort of the bounded `std`
  container; no element is used outside its lifetime; none leaks;
* trees: order, colours, black heights, parent links and storage agree after every call;
  lookups and iteration are exact; an iterator to an element survives calls that do not
  remove it;
* enum containers: the bit of a key and the lifetime of its cell agree; stale cells are
  never compared; the bits behind `BIT_COUNT` stay zero;
* strings: `c_str()` is terminated after every call, also of a full string.

## 2. Modules

Operators that return the object a member function leaves behind are kept apart from the
state machines that call them, so that components compose as in the code: the list calls
the pool's operators, the hashtable the list's.

| Module | Models |
|---|---|
| `IndexBasedStorage` | the pool's member functions as operators on a pool `[array, next_index]`. A union cell is what was last written to it: a link (a number) or a value (a model value). Also the contiguous storage, which keeps its values in a prefix of the array and fills the hole of a deletion with the last value |
| `PoolStorage` | a pool and a client that deletes only occupied cells |
| `DoublyLinkedListOps` | the list's member functions as operators on `[storage, next, prev, size]`; entries of free cells keep stale links. A copy is made as the code makes it: the freelist by either branch of `set_freelist_state_from_other`, then a value for each cell that the walk along the source's chain meets |
| `DoublyLinkedListOpsProofs` | what the pool's and the list's operators do to freelist, chain and elements; lemmas for the pool, the lists and the hashtable |
| `DoublyLinkedList` | list objects and their lifetimes. Every iteration of `delete_range_and_return_next_index` is a step; `loop` holds what the call still has to do, and what follows it (return, the body of an assignment, the end of the object) |
| `IndexedSequences` | abstract: sequences of (index, value). A call keeps some elements in their order and puts new ones together in one place |
| `RobinhoodHashtable` | lookup, shift up, shift down and their exits, with words that wrap around at `Words` |
| `FixedUnorderedMap` | the map adapter over the table; the loop of `erase_range` step by step; the hash function is chosen at the start |
| `OrderedDictionaries` | abstract: insertion-ordered dictionaries whose entries keep their index |
| `FixedUnorderedMapProofs` | theorems about the hashtable and the map |
| `ElementMemory` | raw cells, construction, destruction, relocation; misuse sets a flag |
| `SequenceOps` | the algorithms that `FixedVectorBase` and `FixedDequeBase` share line for line, parameterised by where a position lies |
| `SequenceContainer` | the calls both containers share: checks, effect, result. `call` records the last call and its result |
| `FixedVector`, `FixedDeque`, `FixedCircularDeque` | the three containers; `FixedDeque` has `circular_indexing.hpp`. The queue and stack adapters forward to members these modules have |
| `BoundedSequences` | abstract: `std` sequences of bounded length, with or without dropping |
| `FixedList` | `std::list`'s members on the linked list; extends `DoublyLinkedList`, whose special members are its own |
| `PoolAndListProofs` | theorems about the pool and about both lists |
| `InductionLemmas` | induction and recursion over the natural numbers, for proofs about loops |
| `SequenceContainerProofs` | what the shared algorithms and calls do to the cells of a container, wherever a position lies |
| `FixedVectorAndStringProofs`, `FixedDequeProofs` | its instances, and the theorems about each container |
| `RedBlackTree` | the tree on either storage, with nodes as in the compact layout (the colour is the top bit of the parent index): lookup, rotations, the two rebalancing loops, the swap of a node with its successor, repositioning. Mirror images are one operator with a side |
| `TreeContainer` | what `FixedMap` and `FixedSet` share: iterators, checks, copies, moves, range erasure |
| `FixedMap`, `FixedSet`, `FixedMapAndSet` | the members of each, and a program that uses one of them |
| `SortedDictionary` | abstract: a function from the present keys to values, the call's result, and a second object for copies |
| `FixedBitset` | words as sets of bit positions; shifts by words and then by bits, `trim` |
| `EnumAdapter`, `EnumMap`, `EnumContainers` | ordinals of enumerators; the map with a bit and a raw cell per ordinal; a program that uses a map, a set, a bitset or two arrays |
| `EnumContainersProofs` | theorems about the bitset, the enum map, set and array |
| `StringViews`, `FixedString` | `std::string_view`'s searches and the state bits of a stream (external); the string on the vector's algorithms |
| `BoundedStrings` | abstract: `std::string` of bounded length, an extension of `BoundedSequences`. Its `extract` is the standard's `operator>>` |
| `MC*` | instances for TLC; runs `pool` and `list` need none and check `PoolStorage` and `FixedList` themselves |

`SequenceOps` and `SequenceContainer` stand for code that is in both headers. The map of
`PROJECT.json` names `fixed_vector.hpp` for the former and `fixed_deque.hpp` for the
latter; the other header has the same lines.

How state corresponds to code:

* memory that nothing reads is not told apart. The `memcpy` of a pool leaves in a cell whose
  value is alive in the source bits that are neither a value nor a link; the model leaves
  such a cell as it was, until the chain's loop constructs the value;
* `ReferenceProvider::get` of the deque's iterators asserts that its position is below the
  size. Only positions below the size are read in the models, so the assertion is stated at
  `IteratorGet` and never fires;
* a failed check ends the process (`aborted`): what the call did before is never seen
  again, so an aborting step leaves the object as it was;
* `objects[o] = NoObject` (`lists`, `tables`) stands for an object that is not alive;
  constructors, copies, moves and destructors are actions;
* `MovedFrom` is the value that `std::move` leaves; `Raw` a cell without an element;
* `build` (in the list: `TriviallyCopyable`) is which template instantiation and which
  branch of `std::is_constant_evaluated()` the program is; it is chosen in `Init` and
  never changes;
* `inst` (trees) and `build` (sequences, enum containers) say which template
  instantiation the program is: map or set, pool or contiguous storage, trivially
  copyable or not;
* what clients may do is part of the model. Five constants widen it to calls that the
  code does not survive; the passing runs keep them `FALSE`:
  `EmptyRanges` (empty ranges in front of elements that are not trivially copyable; for
  characters they are harmless and `string` has them), `AliasMovedElements` and
  `AliasDroppedElements` (arguments that refer to an element which the call itself moves
  or drops), `InsertAtBeginWhenFull`, `ClearMovedFrom` (use of a map after it was moved
  from). `IntegersFit` narrows it: a bitset wider than the narrow word is made only of
  integers that have no bit behind `BIT_COUNT`.

## 3. Runs

| Run | Question and answer |
|---|---|
| `pool` | four cells, two values: the freelist is sound under every order of calls; no early "full"; stored values stay |
| `list` | two `FixedList`s of capacity two, trivially copyable or not, ranges of up to three elements: chain and freelist stay sound half way through a destruction loop too, nothing leaks (copies included), `insert`, `erase`, `remove_if` and `resize` have `std::list`'s effect and, for ranges that are not empty, its result, loops end, an element keeps its index |
| `map_full` | three buckets for three entries and four keys, the smallest word that the `static_assert`s allow, hash functions with one home, differing fingerprints and wrapping runs |
| `map_two` | two maps, two mapped values, copies, moves and comparison |
| `vector` | two vectors of capacity three, ranges of up to four elements, three builds |
| `deque` | two deques of capacity three, start drifting three places in both directions |
| `circular_deque` | one circular deque of capacity three, ranges of up to four elements, drift four |
| `tree` | map and set, pool and contiguous storage, up to ten nodes: well-formed trees, exact lookups, sorted iteration in both directions, stable iterators, refinement of `SortedDictionary` |
| `enum` | bitsets of 0 to 9 bits, maps and sets of enumerations with and without gaps, arrays: bits and cells agree, the bitset's members compute sets, `to_ullong` and `to_ulong` abort exactly when a one lies behind the type they check, equality ignores stale cells, refinement of `SortedDictionary` |
| `string` | one string of capacity three (four cells): terminated after every call, refinement of `BoundedStrings`. From `operator>>` it asks less than `BoundedStrings` says (`ReadsTheWord`): the string is the word that the stream holds, and the call aborts only for a word that has at least `MAXIMUM_LENGTH` characters; how far a `std::string` differs there is `ExtractionIsThatOfStrings` (section 6) |
| `set_rend`, `vector_empty_range` | counterexamples, see section 6 |

Bounds and why they are enough:

* `MAXIMUM_SIZE` 2 to 4: three elements are the fewest with a first, a middle and a last
  one; a relocation overlaps itself from two on; a full table without an empty bucket
  exists at every size.
* `MaxRange` is the longest range passed; 4 exceeds the capacity.
* `MaxDrift` bounds how far a deque's start moves from its offset. A drift of the
  capacity is once around the array; indices only matter modulo the capacity. In the code
  the bound is 2^63 calls. `STARTING_OFFSET` is 7 instead of 2^63 - 1; the two agree
  modulo 2 and modulo 3.
* `Values`: two distinguish order. In `deque` there is one, beside `MovedFrom`, to afford
  a second object; order with two values is covered by `vector` and `circular_deque`.
* `DIST_INC` 2 (one bit of fingerprint) and `MAX_NUM_BUCKETS` equal to `BUCKET_COUNT`
  reach the top of the distance word.
* Trees: the rebalancing loops climb more than one level only in trees of black height
  three, which ten nodes have; trees of every shape would be too many. The client inserts
  single keys from `SingleKeys` while the tree has fewer than `grow` nodes and otherwise fills it with
  a range of `Ranges` (ascending, descending, one more than fits) of at most `bulk` keys;
  it deletes anything at any time, and `Predicates` are the sets `erase_if` removes. At
  most one key has another value than the default, and while a second tree exists the
  first is only refilled when empty. `MASK` 128 makes a node index a byte. Where a pool's
  nodes lie makes no difference to any operation, so `View` identifies trees that differ
  only in that; contiguous trees are told apart in full.
* Enum containers: `NARROW` 2 stands for the 32 bit word and 4 for the 64 bit word;
  0 to 9 bits give one narrow word with and without padding, one wide word, two and
  three words. `ULONG_BITS` is the width of `unsigned long`: 4, as on the platforms where
  `long` has 64 bits. `KeyRanges` and `Strings` are what range members and string constructors
  are given; `Strings` has characters that are neither zero nor one.
  The constructor's count goes up to one more than the string has characters, which stands
  for `npos` and everything between.
* String: characters are NUL, a space and a letter. `MaxRange` 4 exceeds the length,
  `MaxStream` 5 leaves room for leading spaces, a full token and what follows, `npos` is
  beyond every position. There is one object: the copies and moves of a string are those
  of its vector, which run `vector` has for trivially copyable elements.
* List: capacity two and two objects, with ranges of three that do not fit. With
  predicates of every subset of values, `remove_if` meets first, last, all and none.
* `WithoutCall` leaves the record of the last call out of the states TLC tells apart. No
  action reads it; TLC checks the refinement on every step, also on one that leads to a
  state it has seen.

Deadlock is checked for the sequences and the string, whose `Halted` step stands for the
ended program. The others may stop after an abort, so there it is not.

Fairness is assumed in one place: a member function that has been called runs until it
returns (`WF` of the loop's steps). The code is sequential and its loops have no
condition to wait for. Clients need not call anything.

## 4. Proofs

Twenty-eight theorems, each for every value of the constants that the named assumptions admit.

| Theorem | Property of a run | Module |
|---|---|---|
| `PoolTypeCorrect`, `FreelistSound`, `AbortMeansNoCellIsFree` | `PoolTypeOK`, `FreelistCoversFreeCells`, `AbortsOnlyWhenAllLive` | `PoolAndListProofs` |
| `IndicesStayValid` | `StoredValuesStay` (an action property) | `PoolAndListProofs` |
| `ListsStayWellFormed`, `LoopsStayInTheirLists`, `AssignmentsFindNothingToLeak` | `ListsWellFormed`, `LoopStaysInItsList`, `NothingLeaks` | `PoolAndListProofs` |
| `ListOperationsAreExact` | `OperationsAreExact` | `PoolAndListProofs` |
| `ListsAreSequences` | `RefinesSequences` (a refinement) | `PoolAndListProofs` |
| `HashtableTypes`, `HashtableBuckets`, `HashtableLookups`, `HashtableProbing`, `HashtableRanges`, `HashtableEquality` | `TypeOK`, `BucketsMatchEntries`, `LookupsAreExact`, `ProbingEnds`, `RangeErasesExistingKeys`, `EqualityIsExact` of the map | `FixedUnorderedMapProofs` |
| `HashtablesAreDictionaries` | `RefinesDictionaries` (a refinement) | `FixedUnorderedMapProofs` |
| `VectorLifetimes`, `VectorLiveCells` | `LifetimesRespected`, `LiveCellsAreElements` | `FixedVectorAndStringProofs` |
| `DequeLifetimes`, `DequeLiveCells`, `DequeIndexing` | `LifetimesRespected`, `LiveCellsAreElements`, `IndexingAgrees` | `FixedDequeProofs` |
| `CircularDequeLifetimes`, `CircularDequeLiveCells` | `LifetimesRespected`, `LiveCellsAreElements` | `FixedDequeProofs` |
| `StringsStayTerminated` | `StringsAreTerminated` | `FixedVectorAndStringProofs` |
| `BitsetsStayExact` | `BitsetsAreExact` | `EnumContainersProofs` |
| `EnumMapsStayWellFormed`, `EnumEqualityIsExact` | `EnumMapsWellFormed`, `EqualityIsExact` of the enum containers | `EnumContainersProofs` |
| `EnumMapsAreDictionaries` | `RefinesSortedDictionary` of the enum containers (a refinement) | `EnumContainersProofs` |

Assumptions:

* capacities are natural numbers (`MaximumSizeIsNat`), positive for the arrays of the
  sequences and the string (`MaximumSizeIsPositive`; the string's array has one cell more
  than its length); `MaxRange` and `npos` are natural numbers; a link is never a value
  (`ContentsAreNotLinks`), a raw cell never an element (`RawIsNoValue`), `NoObject` never a
  list nor its sequence (`NoObjectIsNoSequence`): these only tell apart what has another type in the code;
* hashtable: the `static_assert`s of the class and that a word holds more than one distance
  (`BucketCountFits`; the code's word holds 2^24 - 1), an entry is determined by its key and
  its value (`EntriesArePairs`), hashes are natural numbers (`HashesAreNumbers`), predicates
  are sets of keys, and `NoObject` is no table and no dictionary. Nothing is assumed of what
  a hash function computes. `~ClearMovedFrom`, as in the runs: no map is used after it was
  moved from. Without it `ProbingEnds` is false (section 6);
* deque: `DriftStaysPositive`, the start index does not reach zero. In the code the
  starting offset is 2^63 - 1, so that it would take 2^63 more `push_front` than
  `pop_front`;
* string: `NUL` is a character, streams are made of characters, and `char` is trivially
  copyable;
* vector and deques: `~EmptyRanges` and `~AliasMovedElements`, as in the runs. Without the
  first the theorem is false (run `vector_empty_range`), without the second too (section
  6). The string needs neither;
* circular deque: also `~InsertAtBeginWhenFull` and `~AliasDroppedElements`, as in its run.
  Without either the theorems are false (section 6);
* bitset: the narrow word has a bit and the wide one twice as many, `unsigned long` is one of
  the two (`NarrowWords`), and `IntegersFit`, as in the run. Without it the theorem is false (section 6);
* enum containers: an enumeration lists no enumerator twice, and the bitset of a map or
  set has a bit for each (`InstantiationsAreTypes`); ordinals count from zero
  (`OrdinalsAreNumbered`); clients pass sequences (`RangesAreSequences`); `Raw` and
  `MovedFrom` are no values, `NoMap` is no object, and neither it nor `Unspecified` is a
  dictionary (`RawIsNoValue`, `MarkersDiffer`, `NoMapIsNoObject`): again these only tell
  apart what has another type in the code; there are two values (`SomeValuesDiffer`): with
  one, every list of labels makes the same array.

### Induction

The loops of the code are recursive functions here: bounded in `FixedList`, and
`Iterate` of `ElementMemory` for the sequences. The library's induction theorems take an operator
as a parameter, which the provers cannot instantiate. `InductionLemmas` states induction
for a *set* of numbers and derives it from the well-foundedness of `<` on `Nat`, then that a
recursive function over `0 .. n` exists, and the loop rule used everywhere
(`LoopInduction`, `LoopEnds`): a set of states that holds the first one and is closed under
the body holds the last one.

### Pool

"The freelist covers the free cells" is stated by a witness, an injective enumeration `f`
of the free cells that follows the links. It is nearly inductive. The inductive invariant
`PoolInv` adds the types and that an abort leaves the pool full. Emplacing drops the
first element of the witness, deleting puts the index in front of it
(`EmplaceTakesAFreeCell`, `DeleteFreesTheCell`); that the longer witness still fits into
`MAXIMUM_SIZE` is a counting argument (`FreelistHasRoom`). That a full pool has no free
cell (`FullMeansAllLive`) follows because the witness must be empty. These lemmas are
about the operators, so the list uses them too.

### Lists

The witness of a chain is its order, a function on `0 .. size + 1` that has the sentinel at
both ends, the live cells in between, each once, and follows `next` forwards and `prev`
backwards. Emplacing puts a place into the order, deleting takes one out
(`EmplaceInOrder`, `DeleteInOrder`, by shifting the places behind it). `ListInv` adds to
well-formed lists where a running range deletion is: its next and its last position have
places in the order of a live list, the former not behind the latter, and a loop that
clears the list before something else ends at the sentinel. Without the places the body of the loop
could not be shown to delete an element, and without the last part an assignment could
not be shown to find an empty list. Members of `FixedList` that loop inside one step
(insertion of ranges, resize, erase, `remove_if`) go by `LoopEnds`.

That the lists implement `IndexedSequences` needs the elements themselves. The refinement
mapping `Items` walks along `next` from the sentinel; by the recursion lemma the walk is
the order (`ItemsInOrder`). `Kept` says that one list has some elements of another in
their order, at their indices; `Filled` that it has all of them and new ones behind the
first `k`; `Edited` is both at once and what one abstract step allows. A deletion is
`Kept`, which composes, so a loop of deletions is; an insertion loop is `Filling`, which also says where the next
element goes. `ListCallEdits` combines them for the members of `FixedList`.
A copy, a move or an end of an object is an abstract step only if the target
holds nothing, which is what `ListInv` says of a clearing loop that has ended.
A copy reads two walks of its source, along the freelist and along the chain. `FreelistedIsFree`
and the order of the chain say that they meet the free and the live cells, all of them, so
that both branches of the copy leave the same list as the source (`CopyIsTheSame`); the
hashtable cites it for its entries (`TableCopyIsTheSame`).
`MovesOneByOne` is an auxiliary invariant: a clearing loop of a move assignment runs only
for types that are not trivially copyable.

The refinement leaves to a call which elements it removes and where it puts which new ones;
`ListOperationsAreExact` says that too. A position is in front of as many elements as its
place says (`RankOfPlace`: the elements that a walk from there does not meet are those at
the places before it). The loops of `insert`, `erase`, `remove` and `resize` each have an
invariant that relates the list so far to the one the loop began with: `Filling`;
`Erasing`, in which the end of the range comes one place closer with each deletion;
`Sifting`, in which the list begins with what the reference `Without` has kept of the
elements seen so far and goes on with the others; `Resized`. What they say of places, the
last lemmas (`InsertedValues`, `ErasedValues`, ...) turn into equations of sequences.
`ListInv` is all that is needed of the state: no history of calls plays a part.

### Hashtable

The list of entries is a list as above, so its half of a table (`GoodTable`) comes from the lemmas about
the list's operators. The half that is new is the array of buckets. `GoodBuckets` says that
every occupied bucket lies where its word says (`Placed`), that no two point to the same
entry (`Distinct`), that words never rise by more than one distance from a bucket to the
next (`Ordered`), and that some bucket is empty or at its home (`SomeAtHome`). The first
three and the counting of entries are `BucketsMatchEntries`, which is not inductive without the fourth: a
full circle of buckets that are all too far by one satisfies it, and there a lookup would
not end. With it, going backwards from an occupied bucket one meets its home before an
empty bucket or a smaller word (`RunsReachHome`), so a lookup that gives up has missed
nothing, and a probe ends before it has gone around once more than its words allow. When
`BUCKET_COUNT` equals `MAX_NUM_BUCKETS` that word wraps around to zero; the proof shows
that a lookup stops at the latest there. The words that are stored never wrap: a shift up
starts only while a bucket is empty, and ends there (`RoomToMove`).

An insertion puts the new bucket where the lookup stopped and moves what follows up to the
first empty bucket; an erasure moves the followers down until one is empty or at home.
Both are stated for the whole array at once (what bucket `b` holds afterwards, by its
distance from the place), and each conjunct of `GoodBuckets` is shown of that. That a table
with room for an entry has an empty bucket is the pigeonhole principle
(`RoomMeansEmptyBucket`).

`HashtableInv` adds that keys are unique and where a running `erase_range` is, as for the
lists. For the refinement `Maps` reads a table as its entries in list order; an insertion
appends, an erasure takes out one place, an assignment replaces one entry. A comparison
looks up each entry of one map in the other; that equal sizes and inclusion make the sets
equal is by the cardinality theorems. `MovedAreAlive` is an auxiliary invariant: only maps
that are alive have been moved from.

### Sequences

`SequenceContainerProofs` follows the algorithms once, for any container whose positions
are injective cells (`Sound`). `Intact` says that the container has its type, raised no
flag, and holds an element in the cells of its positions and nothing elsewhere.
Half way through a call that is not so: `Holds(c, P)` says which positions hold elements,
and `Becomes` how a piece of an algorithm changes that and which cells it leaves alone.
`OpenGap` and `CloseGap`, the relocation loops of insertion and erasure, are proved by
what they have moved after `n` iterations, `RotateKeepsIntact` for the rotation behind the
insertion of an input range, `EraseValueKeepsIntact` for `std::remove` and the erasure of
what is left.

The vector's position is its cell. The deque's is the sum of start and position modulo the
capacity; `FixedDequeProofs` proves the arithmetic of `circular_indexing.hpp` from the uniqueness of the
remainder (`WrappedIsInjective`, `Increments`, `Decrements`), and that a push or pop at
the front shifts all positions by one (`HoldsShifted`). `IndexingAgrees` is a consequence
of the same lemmas. `SameOperators` and `SameCalls` connect a container's own operators to
those of the instance.

The circular deque drops elements between the shared algorithms. Its pushes move either the
start or the end by one, and the room they make is one position (`RoomInFront`). The insertion of
a forward range drops from the front and from the range so that what is left fits
(`ExcessIsDropped`), after which it is the deque's. The insertion of an input range places
elements at the end one by one while dropping from the front, then overwrites the placed
ones in a cycle and rotates twice. `PlacingStates` is the invariant of that loop:
`begin()`, the iterators `first_it` and `middle_it` and `end()` stay in this order, and
`middle_it` is before `end()` once an element was placed, so that the cycle has a width.

### Strings

`StringInv` is the property and the type. A call on the vector underneath leaves a string
`Padded`: not terminated, but with the `NUL` in the last cell of the array unless a
character went there. That `NUL` survives because each algorithm leaves the cells outside
its frame alone, which is why `Becomes` has a frame. The write of the terminator makes a
padded string of at most `MAXIMUM_LENGTH` characters `Ready` again. For `operator>>` the
loop's invariant is over pairs of a string and what is left of the stream.

### Bitsets

A bitset is an array of words, each a set of bit positions; `Bits` reads it as the set of
its ones. `GoodBits` (words of the right width, nothing behind `BIT_COUNT`) is inductive,
and its second half is what every reader needs: with it two bitsets with the same ones
have the same words (`BitsAreWords`), and `count`, `all` and `to_ullong`, which look at
whole words, say what they should. `to_ulong` has a second check, of the first word against
`ULONG_MAX`; together the two accept exactly the bitsets with no one behind `unsigned long`
(`UlongChecksAreExact`). What is returned then is another matter (section 6). A position is
one bit of one word (`DivMod`, `BitOfPosition`). A shift first moves whole words, then bits across
neighbouring words, each in a loop over the array that it overwrites; the loop invariants
say which words hold their new value already. That both are one shift of positions is the
uniqueness of quotient and remainder.

### Enum containers

`GoodMap` says of an object that it has raised no flag, that its bitset is good, that
`size` counts its ones, and in which cells a value is alive; for a set, that no cell was
ever written. Each member is shown to keep that, together with which keys and values it
leaves (`TouchIsGood`, `ResetIsGood`, and `LoopEnds` for ranges, `clear`, `complement_of` and
`erase_if`). Copying the bits first and the values one by one makes an equal object
(`CopyIsExact`), since a cleared target has no cell that is alive. The invariant of
`erase_if` says that its iterator is present or `end()`, moves on in every iteration, and
has left nothing behind that the predicate holds for.

An iterator stands at the key of some rank among the present ones; `advance` raises the
rank by one and `recede` lowers it (`RankOfNext`), so the walks meet every key once, in order,
and end at `end()` and at the wrapped `rend()` (`ForwardWalk`, `ReverseWalk`). For
`EnumArray` the loop of the range constructor keeps, for each label, its last entry
(`EntryStays`); a list of labels that is not sorted is told apart by an array with one value
that differs from the default.

The refinement maps a container to the function from its present ordinals to their values
(`DictOf`). `GoodMap` alone is too weak for it, since a moved-from value is alive and yet
nothing that the abstract specification stores; the invariant adds that the client's
container is never left in that state (`Clean`). Each operation then has a lemma that says what it
does to the function (`InsertedDict`, `RestrictedDict`, ...) and one that names the
abstract step (`InsertRefines`, ..., `DropRefines`). `erase` returns the iterator that the
constructor moves on from the ordinal it just made absent: `FollowingKey` shows that this
is the next key that is left. A move is a step of the abstract move when values are
emptied by it, and of the copy for a set and for trivially copyable values, whose source
keeps what it had.

### Only model-checked

* Liveness: `LoopsEnd` of the list and of the map.
* The refinements of the other containers: `RefinesSequences` of vector and deque,
  `RefinesCircularSequences`, `RefinesSortedDictionary` of the trees, `RefinesStrings`. The
  proofs about vector, deques and string say where elements are, not which.
  `ReadsTheWord` is part of the last one.
* The trees (`TreesWellFormed`, `LookupsAreExact`, `IterationIsSorted`,
  `IteratorsStayValid`, and the refinement): that two rebalancing loops keep the
  colours and black heights of every tree is a development of its own.

## 5. Not modelled

* Exceptions: constructors of `T` that throw. The containers give no guarantee then.
* Element types that are trivial in some special members and not in others; elements
  whose moved-from state equals a value.
* Tree nodes in the layout that keeps indices and colour in separate members: the same
  members by other names.
* Hashtables whose `BUCKET_COUNT` needs more than one distance word; hash, equality and
  comparison functions that change over time; heterogeneous lookup, which runs the same
  code with another key type.
* Self-assignment, which every assignment returns from at once; `swap`, which is three
  moves.
* Reflection and struct decomposition: compile-time metaprogramming and generated
  tables, the largest part of the headers by lines, without state. `struct_view.hpp`,
  `type_name.hpp` and the concepts likewise. The raw views give debuggers read access to
  bytes. `OptionalReference` is a pointer.
* wyhash, a third-party function; the hashtable is checked for hash functions that
  collide and wrap around.

## 6. Disagreements with the documentation

Shown by runs that end in a counterexample (`findings` in `PROJECT.json` has the quotes):

* `set_rend`: `FixedSet::crend()` is the reverse iterator of cell 0. It is the end of the
  reverse iteration only while the node in cell 0 is the smallest, that is unless the
  set was filled in another order or shrank.
* `vector_empty_range`: `erase(it, it)` and the insertion of an empty range in front of
  elements relocate each element onto itself: constructed over, then destroyed. The deque
  shares the code.

The same models reproduce these without a run of their own. Each constant is one of the
passing run's cfg, and each property is defined beside the others of its module:

* `map_two` with `ClearMovedFrom = TRUE` and the invariant `ProbingEnds` of `map_full`
  violates that invariant: the defaulted move constructor of the hashtable empties the list
  of its source and leaves the source's buckets as they were. After `clear()` a map that was
  full has no entry and no empty bucket, and the loop of the next insertion never ends.
* `circular_deque` with `InsertAtBeginWhenFull = TRUE` violates
  `RefinesCircularSequences`: `insert(begin(), v)` into a full circular deque pops the
  element under the iterator and then aborts; the comments promise that incoming elements
  are dropped at the barrier (`fixed_circular_deque.hpp:369`, `378`). With a range instead of `v`
  nothing of the range is left and `LifetimesRespected` fails, as for an empty range.
* `vector` with `AliasMovedElements = TRUE`: `insert(pos, v[i])` with `i >= pos` reads the
  element after it was relocated; so does `FixedString::insert` with a view of itself.
  `circular_deque` with `AliasDroppedElements = TRUE`: `push_back(d.front())` on a full
  circular deque reads an element after it was destroyed.
* `enum` with `IntegersFit = FALSE` violates `BitsetsAreExact`: a bitset of 33 to 63 bits
  made of an integer keeps the integer's bits behind `BIT_COUNT`.
* `string` with the property `ExtractionIsThatOfStrings` violates it: a word ended by the end
  of the stream leaves the stream failed, where a `std::string` leaves it only at its end;
  the delimiter is consumed; a word of exactly `MAXIMUM_LENGTH` characters with a space
  behind it aborts; a blank stream clears the string. The repository's README promises
  "identical APIs to their std:: equivalents" (`README.md:21`); the function follows them in
  skipping leading spaces (`fixed_string.hpp:692`).
* `list` with the invariant `InsertReturnsItsPlace` violates it: the insertion of an empty
  range into a `FixedList` returns `end()` instead of the position
  (`fixed_list.hpp:496`).
* `enum` with the invariant `UlongHasAllBits` violates it: `to_ulong` checks for
  `unsigned long` and returns 32 bits (`fixed_bitset.hpp:587`, `592`), so where `long` has 64
  bits ones behind bit 31 get lost without the overflow error.

Seen while modelling, and modelled as the code has it:

* The comments on move constructors and move assignments (`fixed_doubly_linked_list.hpp:240`
  and their like in the tree and `EnumMap`) call the cleared source "consistent with [...]
  the trivial move constructor of this class", which leaves its source full.
* `operator+=(char)` of `FixedString` (`fixed_string.hpp:371`) calls an overload of `append`
  that does not exist.
* `FixedList::remove(value)` with a reference to an element reads it after its deletion.
* The conversion of a reverse iterator to its constant counterpart
  (`bidirectional_iterator.hpp:88`) recedes a second time; `rbegin().base()` of an empty
  tree is not `end()`.
* Deleting the last node of a contiguous tree moves from the node just destroyed.
* `FixedBitset`'s string constructor compares its position with the size of the bitset
  and not of the string.

## 7. Plan

What the code has that a model can say is modelled; what is left is proofs, in this order:

1. Vector and deque implement `BoundedSequences`: `Becomes` with the elements as well as
   the cells.
2. The trees: first that a rotation keeps the order of the keys and the links mutual, then
   the colours and black heights through the two rebalancing loops, then `SortedDictionary`.
