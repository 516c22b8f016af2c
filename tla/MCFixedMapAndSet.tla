-------------------------- MODULE MCFixedMapAndSet --------------------------
EXTENDS FixedMapAndSet

KeysOfMC == {10 * n : n \in 2 .. 12}
SingleKeysOfMC == {20, 50, 90, 120}
PredicatesOfMC == {{20, 60, 120}, {30, 50, 70, 90, 110}, {20, 30, 50, 90, 100, 120}}
Ascending(n) == [i \in 1 .. n |-> 10 * (i + 1)]
RangesOfMC == {Ascending(11), Ascending(10), <<110, 100, 90, 80, 70, 60, 50, 40, 30, 20>>, <<50, 120>>}

Instance(is_set, contiguous, trivial, grow, bulk) ==
  [is_set |-> is_set, contiguous |-> contiguous, TriviallyCopyable |-> trivial,
   grow |-> grow, bulk |-> bulk]
InstantiationsOfMC == {
  Instance(TRUE, FALSE, TRUE, 4, 11), Instance(FALSE, FALSE, FALSE, 4, 2),
  Instance(FALSE, TRUE, TRUE, 3, 2), Instance(TRUE, TRUE, FALSE, 4, 2)}

(* The nodes of a pool by their keys.  Which cells they occupy makes no    *)
(* difference to any operation; with contiguous storage it does.           *)
ByKeys(t) ==
  LET name(i) == IF i = NULL_INDEX THEN i ELSE key(t, i) IN
  {<<key(t, i), value(t, i), color(t, i), name(parent_index(t, i)),
     name(child_index(t, "left", i)), name(child_index(t, "right", i))>> :
     i \in Live(t.storage)}
View ==
  LET v(t) == IF t = NoTree \/ inst.contiguous \/ MovedFrom \in KeysOf(t) THEN t ELSE ByKeys(t) IN
  <<v(tree), v(temp), aborted, inst>>
=============================================================================
