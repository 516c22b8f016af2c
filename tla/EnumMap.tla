------------------------------ MODULE EnumMap ------------------------------
(***************************************************************************)
(* EnumMap<K, V> and EnumSet<K>: a FixedBitset says which enumerators are  *)
(* present, size counts them, and a map keeps the value of the enumerator  *)
(* with ordinal i in cell i.  The twin functions of the set differ only in *)
(* that they construct and destroy no value.  EnumArray<L, T> is the array *)
(* of values alone.                                                        *)
(*                                                                         *)
(* An operator takes an object and returns the object left behind; keys    *)
(* and iterators are ordinals, ENUM_COUNT is end(), and -1 stands for the  *)
(* wrapped index of an iterator that receded past the first enumerator.    *)
(***************************************************************************)
EXTENDS FixedBitset, EnumAdapter

IsSet == build.kind = "set"

EmptyMap ==
  [cells |-> [i \in Ordinals |-> Raw], array_set |-> NoBits, size |-> 0, ub |-> FALSE]

contains_at(m, i) == subscript_unchecked(m.array_set, i)

(* What insert, try_emplace and touch_if_not_present do for an absent key. *)
Touch(m, i, v) ==
  LET c == IF IsSet THEN m ELSE construct_at(m, i, v)
  IN  [c EXCEPT !.size = @ + 1, !.array_set = set_unchecked(@, i, TRUE)]

insert(m, i, v) == IF contains_at(m, i) THEN m ELSE Touch(m, i, v)

insert_range(m, pairs) ==
  Iterate(Len(pairs), m, LAMBDA x, k : insert(x, pairs[k + 1][1], pairs[k + 1][2]))

(* insert_or_assign assigns the storage, which only a trivially assignable *)
(* V allows.                                                               *)
insert_or_assign(m, i, v) ==
  LET t == IF contains_at(m, i) THEN m
           ELSE [m EXCEPT !.size = @ + 1, !.array_set = set_unchecked(@, i, TRUE)]
  IN  [t EXCEPT !.cells[i] = v]

(* Mutant: the value stays alive. *)
ResetWithoutDestroying(m, i) ==
  [m EXCEPT !.size = @ - 1, !.array_set = set_unchecked(@, i, FALSE)]

reset_at(m, i) ==
  LET d == IF IsSet THEN m ELSE destroy_at(m, i)
  IN  [d EXCEPT !.size = @ - 1, !.array_set = set_unchecked(@, i, FALSE)]

(* The loop of clear() and of erase(first, last). *)
reset_range(m, from, to) ==
  Iterate(to - from, m, LAMBDA x, k :
    IF contains_at(x, from + k) THEN reset_at(x, from + k) ELSE x)

clear(m) == reset_range(m, 0, ENUM_COUNT)

-----------------------------------------------------------------------------
(* FilteredIntegerRangeEntryProvider over the present ordinals. *)

advance(m, i) ==
  IF \E j \in i + 1 .. ENUM_COUNT - 1 : contains_at(m, j)
  THEN CHOOSE j \in i + 1 .. ENUM_COUNT - 1 :
         contains_at(m, j) /\ \A k \in i + 1 .. j - 1 : ~contains_at(m, k)
  ELSE ENUM_COUNT

recede(m, i) ==
  IF \E j \in 0 .. i - 1 : contains_at(m, j)
  THEN CHOOSE j \in 0 .. i - 1 :
         contains_at(m, j) /\ \A k \in j + 1 .. i - 1 : ~contains_at(m, k)
  ELSE -1

(* The constructor, which moves on from an absent ordinal. *)
create_iterator(m, i) ==
  IF i # ENUM_COUNT /\ ~contains_at(m, i) THEN advance(m, i) ELSE i

(* A reverse iterator is constructed one step in front of its provider. *)
create_reverse_iterator(m, i) == recede(m, create_iterator(m, i))

begin(m)  == create_iterator(m, 0)
end(m)    == create_iterator(m, ENUM_COUNT)
rbegin(m) == create_reverse_iterator(m, ENUM_COUNT)
rend(m)   == create_reverse_iterator(m, 0)

find(m, i) == IF contains_at(m, i) THEN create_iterator(m, i) ELSE end(m)

(* erase_if_impl: end() is taken before the loop. *)
erase_if(m, pred) ==
  LET pass == Iterate(ENUM_COUNT, [m |-> m, it |-> begin(m)], LAMBDA s, k :
        IF s.it = end(m) THEN s
        ELSE IF s.it \in pred
        THEN LET e == reset_at(s.m, s.it) IN [m |-> e, it |-> create_iterator(e, s.it)]
        ELSE [s EXCEPT !.it = advance(s.m, s.it)])
  IN  pass.m

-----------------------------------------------------------------------------
create_with_keys(keys, v) == insert_range(EmptyMap, [k \in 1 .. Len(keys) |-> <<keys[k], v>>])

(* create_with_all_entries wants each enumerator once. *)
HasDuplicates(pairs) == \E j, k \in 1 .. Len(pairs) : j < k /\ pairs[j][1] = pairs[k][1]
CoversAll(pairs) == insert_range(EmptyMap, pairs).size = ENUM_COUNT

(* EnumSet::all and complement_of *)
all_keys(v) == create_with_keys([k \in 1 .. ENUM_COUNT |-> k - 1], v)

complement_of(keys, v) ==
  Iterate(Len(keys), all_keys(v), LAMBDA x, k :
    IF contains_at(x, keys[k + 1]) THEN reset_at(x, keys[k + 1]) ELSE x)

(* Mutant: the values are compared whether the key is present or not. *)
EqualComparesAllCells(m, other) == m.array_set = other.array_set /\ m.cells = other.cells

(* operator==: cells of absent keys do not count. *)
Equal(m, other) ==
  IF IsSet THEN m.array_set = other.array_set
  ELSE \A i \in Ordinals :
         /\ contains_at(m, i) = contains_at(other, i)
         /\ contains_at(m, i) => m.cells[i] = other.cells[i]

-----------------------------------------------------------------------------
(* Mutant: the bits of the source are not copied. *)
CopyForgetsBits(this, other) ==
  LET a == [clear(this) EXCEPT !.size = other.size] IN
  Iterate(ENUM_COUNT, a, LAMBDA x, i :
    IF contains_at(x, i) THEN construct_at(x, i, other.cells[i]) ELSE x)

(* The copy operations: bits, size, then the values.  A set and a map of   *)
(* trivially copyable values are copied as they are.                       *)
CopiedFrom(this, other) ==
  IF IsSet \/ TriviallyCopyable THEN other
  ELSE LET a == [clear(this) EXCEPT !.array_set = other.array_set, !.size = other.size] IN
       Iterate(ENUM_COUNT, a, LAMBDA x, i :
         IF contains_at(x, i) THEN construct_at(x, i, other.cells[i]) ELSE x)

(* What a move takes the values out of. *)
MovedFromMap(other) ==
  [other EXCEPT !.cells =
     [i \in Ordinals |-> IF IsSet \/ ~contains_at(other, i) THEN @[i] ELSE MovedOut(@[i])]]

(* The move constructor clears its source, move assignment does not. *)
ClearedAfterMove(other) ==
  IF IsSet \/ TriviallyCopyable THEN other ELSE clear(MovedFromMap(other))

-----------------------------------------------------------------------------
(* EnumArray(from_range, pairs): the last of several entries stays. *)
from_range(pairs, default) ==
  Iterate(Len(pairs), [i \in Ordinals |-> default], LAMBDA x, k :
    [x EXCEPT ![pairs[k + 1][1]] = pairs[k + 1][2]])
=============================================================================
