--------------------------- MODULE EnumContainers ---------------------------
(***************************************************************************)
(* The containers whose size is fixed by their type: an EnumMap or an      *)
(* EnumSet and a second one to copy and move it to, a FixedBitset, or two  *)
(* EnumArrays, whichever build.kind says.                                  *)
(***************************************************************************)
EXTENDS EnumMap

CONSTANTS
  Instantiations,   (* what the program instantiates, see build            *)
  AllOrdinals,      (* the ordinals of the largest enumeration             *)
  KeyRanges,        (* the ranges of keys that clients pass                *)
  Strings,          (* the strings that bitsets are made from              *)
  NoMap, End, Unspecified,
  IntegersFit       (* clients make wide bitsets only of integers that fit *)

(* An enumeration lists no enumerator twice; a bitset has a bit for each,  *)
(* and that of a map or a set has no other.                                *)
ASSUME InstantiationsAreTypes ==
  \A b \in Instantiations :
    /\ b.count \in Nat /\ b.enumerators \in Seq(Int) /\ b.trivially_copyable \in BOOLEAN
    /\ \A j, k \in 1 .. Len(b.enumerators) :
         b.enumerators[j] = b.enumerators[k] => j = k
    /\ Len(b.enumerators) <= b.count
    /\ b.kind \in {"map", "set"} => b.count = Len(b.enumerators)

ASSUME RangesAreSequences ==
  KeyRanges \subseteq Seq(AllOrdinals) /\ Strings \subseteq Seq(STRING)

(* The ordinals of an enumeration count from 0. *)
ASSUME OrdinalsAreNumbered ==
  /\ IsFiniteSet(AllOrdinals) /\ AllOrdinals = 0 .. Cardinality(AllOrdinals) - 1
  /\ \A b \in Instantiations : Len(b.enumerators) <= Cardinality(AllOrdinals)

(* What marks an absence is nothing that could be present. *)
ASSUME RawIsNoValue == Raw \notin Contents
ASSUME SomeValuesDiffer == \E v, w \in Values : v # w
ASSUME MarkersDiffer ==
  /\ MovedFrom \notin Values /\ End \notin AllOrdinals /\ NoMap # Unspecified
  /\ \A S \in SUBSET AllOrdinals, x \in {NoMap, Unspecified} :
       x \notin [S -> Values \cup {Unspecified}]
ASSUME NoMapIsNoObject ==
  \A b \in Instantiations : \A w \in 0 .. b.count :
    NoMap \notin [cells : [0 .. Len(b.enumerators) - 1 -> Contents \cup {Raw}],
                  array_set : [0 .. w -> SUBSET Nat], size : Nat, ub : BOOLEAN]

VARIABLES
  map, temp,        (* the container and the second one, or NoMap          *)
  bits,             (* a FixedBitset                                       *)
  arrays,           (* two EnumArrays                                      *)
  result,           (* the last call on map, what it returned              *)
  aborted

vars == <<map, temp, bits, arrays, result, aborted, build>>

Kind(k) == build.kind = k
IsContainer == Kind("map") \/ Kind("set")

(* T() *)
Default == CHOOSE v \in Values : TRUE

Init ==
  /\ build \in Instantiations
  /\ map = EmptyMap /\ temp = NoMap
  /\ bits = NoBits
  /\ arrays = [a |-> [i \in Ordinals |-> Default], b |-> [i \in Ordinals |-> Default]]
  /\ result = [call |-> <<"special">>, pos |-> ENUM_COUNT, flag |-> FALSE]
  /\ aborted = FALSE

Keys == Ordinals
Iterators == 0 .. ENUM_COUNT
Pairs(ks, v) == [k \in 1 .. Len(ks) |-> <<ks[k], v>>]
Stored(v) == IF Kind("set") THEN Unspecified ELSE v
RangesHere == {ks \in KeyRanges : \A k \in 1 .. Len(ks) : ks[k] \in Keys}

-----------------------------------------------------------------------------
(* A call that leaves m in the container and returns pos and flag, or that *)
(* fails one of its checks.                                                *)
Call(check, m, call, pos, flag) ==
  /\ \/ /\ check /\ map' = m
        /\ result' = [call |-> call, pos |-> pos, flag |-> flag]
        /\ UNCHANGED aborted
     \/ ~check /\ aborted' = TRUE /\ UNCHANGED <<map, result>>
  /\ UNCHANGED <<temp, bits, arrays>>

(* insert, try_emplace, emplace; operator[] with the default value. *)
Insert(i, v) ==
  LET m == insert(map, i, v) IN
  Call(TRUE, m, <<"insert", i, Stored(v)>>, create_iterator(m, i), ~contains_at(map, i))

InsertOrAssign(i, v) ==
  LET m == insert_or_assign(map, i, v) IN
  /\ Kind("map") /\ TriviallyCopyable
  /\ Call(TRUE, m, <<"insert_or_assign", i, v>>, create_iterator(m, i), ~contains_at(map, i))

At(i) == Kind("map") /\ Call(contains_at(map, i), map, <<"at", i>>, create_iterator(map, i), TRUE)

InsertRange(ks, v) ==
  Call(TRUE, insert_range(map, Pairs(ks, v)), <<"insert_range", ks>>, ENUM_COUNT, FALSE)

(* The iterator may be end(), or that of an element erased since. *)
Erase(pos) ==
  LET present == pos # ENUM_COUNT /\ contains_at(map, pos)
      m == IF present THEN reset_at(map, pos) ELSE map
  IN  Call(present, m, <<"erase">>, create_iterator(m, pos), TRUE)

EraseRange(first, last) ==
  LET m == IF first <= last THEN reset_range(map, first, last) ELSE map IN
  /\ {first, last} \subseteq {i \in Keys : contains_at(map, i)} \cup {ENUM_COUNT}
  /\ Call(first <= last, m, <<"erase_range">>, create_iterator(m, last), FALSE)

EraseKey(i) ==
  Call(TRUE, IF contains_at(map, i) THEN reset_at(map, i) ELSE map,
       <<"erase_key", i>>, ENUM_COUNT, contains_at(map, i))

EraseIf(pred) == Call(TRUE, erase_if(map, pred), <<"erase_if", pred>>, ENUM_COUNT, FALSE)

Clear == Call(TRUE, clear(map), <<"clear">>, ENUM_COUNT, FALSE)

-----------------------------------------------------------------------------
(* Constructors, assignments and destructors: the containers they leave.   *)
(* "use-after-move is undefined behavior": a container that was moved from *)
(* is only cleared or destroyed.                                           *)
PresentIn(m) == {i \in Keys : contains_at(m, i)}
IsMovedFrom(m) == Kind("map") /\ \E i \in PresentIn(m) : m.cells[i] = MovedFrom
Usable == temp # NoMap /\ ~IsMovedFrom(temp)

Special(m, t, call) ==
  /\ map' = m /\ temp' = t
  /\ result' = [call |-> call, pos |-> ENUM_COUNT, flag |-> FALSE]
  /\ UNCHANGED <<bits, arrays, aborted>>

Copy == temp = NoMap /\ Special(map, CopiedFrom(EmptyMap, map), <<"special">>)
Move == temp = NoMap /\ Special(ClearedAfterMove(map), CopiedFrom(EmptyMap, map), <<"special">>)
CopyBack == Usable /\ Special(CopiedFrom(map, temp), temp, <<"special">>)
MoveBack ==
  Usable /\ Special(CopiedFrom(map, temp), MovedFromMap(temp), <<"special">>)
ClearTemp == temp # NoMap /\ Special(map, clear(temp), <<"special">>)
Drop == temp # NoMap /\ Special(map, NoMap, <<"special">>)

(* create_with_keys, copy_of *)
CreateWithKeys(ks, v) ==
  temp = NoMap /\ Special(map, create_with_keys(ks, v), <<"create", ks, Stored(v)>>)

(* EnumSet::all, none and complement_of *)
ComplementOf(ks, v) ==
  temp = NoMap /\ Kind("set") /\ Special(map, complement_of(ks, v), <<"complement", Keys, ks>>)

CreateWithAllEntries(ks, v) ==
  /\ temp = NoMap /\ Kind("map")
  /\ \/ /\ ~HasDuplicates(Pairs(ks, v)) /\ CoversAll(Pairs(ks, v))
        /\ Special(map, create_with_keys(ks, v), <<"create", ks, Stored(v)>>)
     \/ /\ HasDuplicates(Pairs(ks, v)) \/ ~CoversAll(Pairs(ks, v))
        /\ aborted' = TRUE /\ UNCHANGED <<map, temp, bits, arrays, result>>

ContainerNext ==
  \/ \E v \in Values :
       \/ \E i \in Keys : Insert(i, v) \/ InsertOrAssign(i, v)
       \/ \E ks \in RangesHere :
            \/ InsertRange(ks, v) \/ CreateWithKeys(ks, v)
            \/ ComplementOf(ks, v) \/ CreateWithAllEntries(ks, v)
  \/ \E i \in Keys : At(i) \/ EraseKey(i)
  \/ \E pos \in Iterators : Erase(pos)
  \/ \E first, last \in Iterators : EraseRange(first, last)
  \/ \E pred \in SUBSET Keys : EraseIf(pred)
  \/ Clear \/ Copy \/ Move \/ CopyBack \/ MoveBack \/ ClearTemp \/ Drop

-----------------------------------------------------------------------------
BitsCall(check, d) ==
  /\ \/ check /\ bits' = d /\ UNCHANGED aborted
     \/ ~check /\ aborted' = TRUE /\ UNCHANGED bits
  /\ UNCHANGED <<map, temp, arrays, result>>

(* set, reset, flip and the references of operator[], with their check. *)
ChangeBit(pos, val) ==
  BitsCall(pos < BIT_COUNT, IF pos < BIT_COUNT THEN set_unchecked(bits, pos, val) ELSE bits)
FlipBit(pos) ==
  BitsCall(pos < BIT_COUNT, IF pos < BIT_COUNT THEN flip_unchecked(bits, pos) ELSE bits)

ChangeAll == \E d \in {set_all(bits), reset_all(bits), flip_all(bits)} : BitsCall(TRUE, d)

Shift(n) == \E d \in {shift_left(bits, n), shift_right(bits, n)} : BitsCall(TRUE, d)

(* &=, |= and ^= with a bitset whose ones are the positions S. *)
Combine(S) ==
  LET right == trim([w \in 0 .. WORD_COUNT |->
                       {b \in MaxWord : w * BITS_PER_WORD + b \in S}])
  IN  \E d \in {and_assign(bits, right), or_assign(bits, right), xor_assign(bits, right)} :
        BitsCall(TRUE, d)

FromInteger(val) ==
  /\ IntegersFit => val \subseteq Ones(BIT_COUNT) \/ BIT_COUNT <= NARROW
  /\ BitsCall(TRUE, from_integer(val))

(* FixedBitset(str, pos, count): the position is compared with the size of *)
(* the bitset, and count, here c, is trimmed to what str has behind it; a  *)
(* c above Len(str) stands for every larger one, npos included.            *)
(* FixedBitset(ntcts, count) is the same with pos = 0.                     *)
FromString(str, pos, c) ==
  LET n == IF Len(str) - pos < c THEN Len(str) - pos ELSE c
      chars == SubSeq(str, pos + 1, pos + n)
  IN
  /\ pos <= Len(str)
  /\ BitsCall(pos <= BIT_COUNT /\ ValidChars(chars), construct(chars))

BitsetNext ==
  \/ \E pos \in 0 .. BIT_COUNT : FlipBit(pos) \/ \E val \in BOOLEAN : ChangeBit(pos, val)
  \/ ChangeAll
  \/ \E n \in 0 .. BIT_COUNT + 1 : Shift(n)
  \/ \E from, to \in 0 .. BIT_COUNT - 1 : Combine(from .. to)
  \/ \E val \in SUBSET Ones(2 * NARROW) : FromInteger(val)
  \/ \E str \in Strings, pos \in 0 .. BIT_COUNT + 1 :
       \E c \in 0 .. Len(str) + 1 : FromString(str, pos, c)

-----------------------------------------------------------------------------
ArraysCall(check, as) ==
  /\ \/ check /\ arrays' = as /\ UNCHANGED aborted
     \/ ~check /\ aborted' = TRUE /\ UNCHANGED arrays
  /\ UNCHANGED <<map, temp, bits, result>>

(* A write through at() or operator[]. *)
AssignLabel(label, v) == ArraysCall(TRUE, [arrays EXCEPT !.a[ordinal(label)] = v])
Fill(v) == ArraysCall(TRUE, [arrays EXCEPT !.a = [i \in Ordinals |-> v]])
Swap == ArraysCall(TRUE, [a |-> arrays.b, b |-> arrays.a])

(* EnumArray(from_range, R) and the strict constructor. *)
FromRange(pairs) == ArraysCall(TRUE, [arrays EXCEPT !.a = from_range(pairs, Default)])
FromCompleteList(labels, vs) ==
  ArraysCall(is_zero_based_contiguous_and_sorted(labels),
             [arrays EXCEPT !.a = [i \in Ordinals |-> vs[i + 1]]])

ArrayNext ==
  \/ Swap
  \/ \E v \in Values :
       \/ Fill(v)
       \/ \E label \in Enumerators : AssignLabel(label, v)
       \/ \E i, j \in Ordinals, w \in Values : FromRange(<<<<i, v>>, <<j, w>>>>)
  \/ \E labels \in [1 .. ENUM_COUNT -> Enumerators], vs \in [1 .. ENUM_COUNT -> Values] :
       FromCompleteList(labels, vs)

Next ==
  /\ ~aborted /\ UNCHANGED build
  /\ \/ IsContainer /\ ContainerNext
     \/ Kind("bitset") /\ BitsetNext
     \/ Kind("array") /\ ArrayNext

Spec == Init /\ [][Next]_vars

-----------------------------------------------------------------------------
(* The bits behind BIT_COUNT are zero after every operation, which is what *)
(* count(), all(), to_ullong(), operator== and the next shift rely on, and *)
(* each of them agrees with the set of positions that are one: with one    *)
(* word or several, with and without padding (trim, operator<<=,           *)
(* operator>>=, construct).  to_ullong() and to_ulong() fail when the      *)
(* number is too large, to_ulong() for an unsigned long, and only then.    *)
BitsetsAreExact ==
  Kind("bitset") =>
    LET S == Bits(bits) IN
    /\ bits \in Bitsets /\ Trimmed(bits)
    /\ count(bits) = Cardinality(S)
    /\ any(bits) <=> S # {}
    /\ all(bits) <=> S = 0 .. BIT_COUNT - 1
    /\ Representable(bits) <=> to_ullong(bits) = S
    /\ FitsUlong(bits) <=> S \subseteq Ones(ULONG_BITS)
    /\ \A n \in 0 .. BIT_COUNT + 1 :
         /\ Bits(shift_left(bits, n)) = {p + n : p \in S} \cap (0 .. BIT_COUNT - 1)
         /\ Bits(shift_right(bits, n)) = {p - n : p \in S} \cap (0 .. BIT_COUNT - 1)
    /\ construct([k \in 1 .. BIT_COUNT |->
                    IF to_string(bits)[k] THEN "elem1" ELSE "elem0"]) = bits

(* to_ulong() returns the number that the bits are, as std::bitset does,   *)
(* or fails: "overflow error (2)" (fixed_bitset.hpp:587-592).              *)
UlongHasAllBits == Kind("bitset") /\ FitsUlong(bits) => to_ulong(bits) = Bits(bits)

MapWellFormed(m) ==
  LET present == PresentIn(m)
      n == Cardinality(present)
      forward[j \in 0 .. n] == IF j = 0 THEN begin(m) ELSE advance(m, forward[j - 1])
      reverse[j \in 0 .. n] == IF j = 0 THEN rbegin(m) ELSE recede(m, reverse[j - 1])
      Rank(i) == Cardinality({k \in present : k < i})
  IN  /\ ~m.ub /\ Trimmed(m.array_set) /\ m.size = n
      /\ \A i \in Keys :
           /\ Kind("map") /\ i \in present => m.cells[i] # Raw
           /\ ~TriviallyCopyable /\ i \notin present => m.cells[i] = Raw
           /\ find(m, i) = IF i \in present THEN i ELSE end(m)
      /\ forward[n] = end(m) /\ reverse[n] = rend(m)
      /\ \A j \in 0 .. n - 1 :
           /\ forward[j] \in present /\ Rank(forward[j]) = j
           /\ reverse[j] \in present /\ Rank(reverse[j]) = n - 1 - j

(* size() counts the bits of array_set; exactly the present keys have a    *)
(* value that is alive, constructed once and destroyed once (insert,       *)
(* reset_at, the special members); and the iterators, which skip absent    *)
(* ordinals, visit the present ones in order from begin() to end() and     *)
(* backwards from rbegin() to rend(), also when rend() has wrapped below   *)
(* zero.                                                                   *)
EnumMapsWellFormed ==
  /\ IsContainer => MapWellFormed(map) /\ (temp # NoMap => MapWellFormed(temp))
  /\ EnumeratorsAreExact(build.max)
  /\ Kind("array") => \A labels \in [1 .. ENUM_COUNT -> Enumerators] :
       is_zero_based_contiguous_and_sorted(labels) <=>
         \A vs \in [1 .. ENUM_COUNT -> Values] :
           from_range([k \in 1 .. ENUM_COUNT |-> <<ordinal(labels[k]), vs[k]>>], Default)
             = [i \in Ordinals |-> vs[i + 1]]

DictOf(m) == [i \in PresentIn(m) |-> IF Kind("set") THEN Unspecified ELSE m.cells[i]]

(* operator== compares what the maps hold, never the remains of an erased  *)
(* value.                                                                  *)
EqualityIsExact ==
  IsContainer /\ temp # NoMap => (Equal(map, temp) <=> DictOf(map) = DictOf(temp))

-----------------------------------------------------------------------------
Abstract == INSTANCE SortedDictionary WITH
  Keys <- AllOrdinals,
  Mapped <- Values \cup {Unspecified},
  Ranges <- KeyRanges,
  Predicates <- SUBSET AllOrdinals,
  Universes <- {{k \in AllOrdinals : k < n} : n \in AllOrdinals \cup {Cardinality(AllOrdinals)}},
  NoDict <- NoMap,
  dict <- DictOf(map),
  copy <- IF temp = NoMap THEN NoMap
          ELSE IF IsMovedFrom(temp) THEN Unspecified
          ELSE DictOf(temp),
  result <- [call |-> result.call,
             key |-> IF result.pos = ENUM_COUNT THEN End ELSE result.pos,
             flag |-> result.flag]

(* An EnumMap or EnumSet is a dictionary sorted by ordinal, like FixedMap  *)
(* and FixedSet: what is present, its value, the iterator and the flag     *)
(* that a call returns, what copies and moves leave behind.                *)
RefinesSortedDictionary == Abstract!Spec
=============================================================================
