-------------------------- MODULE MCEnumContainers --------------------------
EXTENDS EnumContainers

Instance(kind, enumerators, n, max, trivial) ==
  [kind |-> kind, enumerators |-> enumerators, count |-> n, max |-> max,
   trivially_copyable |-> trivial, constant_evaluated |-> FALSE]
Of(kind, enumerators, max, trivial) ==
  Instance(kind, enumerators, Len(enumerators), max, trivial)

(* Words of two and four bits: bitsets of one narrow word, with and        *)
(* without padding, of one wide word and of two; enumerations with and     *)
(* without gaps, also one on bool.                                         *)
InstantiationsOfMC ==
  {Instance("bitset", << >>, n, 3, TRUE) : n \in {0, 1, 2, 3, 4, 6, 8, 9}}
  \cup {Of("map", <<0, 1, 3>>, 3, FALSE), Of("map", <<-1, 1>>, 3, TRUE),
        Of("set", <<0, 1, 2, 4, 5>>, 7, TRUE)}
  \cup {Of("array", e, 3, TRUE) : e \in {<<0, 2>>, <<-2, 0, 1>>, <<1, 3>>}}
  \cup {Of("array", <<0, 1>>, 1, TRUE)}

KeyRangesOfMC == {<< >>, <<1, 0>>, <<0, 0>>, <<1, 2, 0>>, <<0, 1, 3, 4>>}
StringsOfMC ==
  {<<"elem1">>, <<"elem1", "elem0", "elem0">>, <<"elem0", "other">>,
   <<"elem1", "elem0", "elem1", "elem1", "elem0", "elem1">>,
   <<"elem1", "elem0", "elem1", "elem1", "elem0", "other">>}

(* The second value of a set's operations is never stored. *)
View == <<map, temp, bits, arrays, aborted, build>>
=============================================================================
