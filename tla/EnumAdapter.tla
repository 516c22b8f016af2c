---------------------------- MODULE EnumAdapter ----------------------------
(***************************************************************************)
(* enum_utils.hpp: enumerations, rich enums and their ordinals.  An        *)
(* enumerator is its underlying integer; values() lists the enumerators in *)
(* increasing order, as magic_enum does, and the ordinal of an enumerator  *)
(* is its place in the list, counted from 0.                               *)
(***************************************************************************)
EXTENDS ElementMemory, Integers, Sequences

CONSTANT Nothing          (* std::nullopt, and a rich enum without a value *)

(* EnumAdapter<K>::values() *)
ENUM_VALUES == build.enumerators

ENUM_COUNT == Len(ENUM_VALUES)
Ordinals == 0 .. ENUM_COUNT - 1
Enumerators == {ENUM_VALUES[i + 1] : i \in Ordinals}

(* magic_enum::enum_index *)
ordinal(key) == CHOOSE i \in Ordinals : ENUM_VALUES[i + 1] = key

is_zero_based_contiguous_and_sorted(labels) ==
  \A i \in Ordinals : ordinal(labels[i + 1]) = i

(* value_of(backing_enum): "Optimistically try the index", then search.    *)
(* A negative enumerator converts to an index beyond the array.            *)
value_of(backing_enum) ==
  IF backing_enum \in Ordinals /\ ENUM_VALUES[backing_enum + 1] = backing_enum
  THEN ENUM_VALUES[backing_enum + 1]
  ELSE IF \E i \in Ordinals : ENUM_VALUES[i + 1] = backing_enum
  THEN ENUM_VALUES[(CHOOSE i \in Ordinals : ENUM_VALUES[i + 1] = backing_enum) + 1]
  ELSE Nothing

-----------------------------------------------------------------------------
(* RichEnumStorage of an underlying type with the greatest value max: a    *)
(* flag beside the enumerator when there are only two values, otherwise    *)
(* max stands for "no value" and may not be stored.                        *)
IsBool(max) == max = 1

StorageAborts(max, n) == ~IsBool(max) /\ n = max

RichEnumStorage(max, n) ==
  IF IsBool(max) THEN [val |-> n, has_val |-> TRUE] ELSE [val |-> n]

EmptyRichEnumStorage(max) ==
  IF IsBool(max) THEN [val |-> 0, has_val |-> FALSE] ELSE [val |-> max]

has_value(max, s) == IF IsBool(max) THEN s.has_val ELSE s.val # max

SameStorage(max, s, t) ==
  IF ~IsBool(max) THEN s.val = t.val
  ELSE (~s.has_val /\ ~t.has_val) \/ (s.has_val /\ t.has_val /\ s.val = t.val)

(* operator! of a rich enum whose underlying type is bool. *)
Negation(n) == IF n = ENUM_VALUES[1] THEN ENUM_VALUES[2] ELSE ENUM_VALUES[1]

-----------------------------------------------------------------------------
(* value_of finds every enumerator by its integer, wherever it stands, and *)
(* nothing else; the ordinals number values(), as the containers require   *)
(* of an adapter; and a storage tells apart "no value" and every           *)
(* enumerator that it accepts.                                             *)
EnumeratorsAreExact(max) ==
  /\ \A n \in -2 .. max : value_of(n) = IF n \in Enumerators THEN n ELSE Nothing
  /\ is_zero_based_contiguous_and_sorted(ENUM_VALUES)
  /\ \A n \in Enumerators : n \in 0 .. max /\ ~StorageAborts(max, n) =>
       LET s == RichEnumStorage(max, n) IN
       /\ has_value(max, s) /\ ~SameStorage(max, s, EmptyRichEnumStorage(max))
       /\ \A k \in Enumerators \ {n} : k \in 0 .. max /\ ~StorageAborts(max, k) =>
            ~SameStorage(max, s, RichEnumStorage(max, k))
  /\ ~has_value(max, EmptyRichEnumStorage(max))
  /\ IsBool(max) /\ ENUM_VALUES = <<0, 1>> =>
       \A n \in Enumerators : Negation(n) # n /\ Negation(Negation(n)) = n
=============================================================================
