------------------------- MODULE OrderedDictionaries -------------------------
(***************************************************************************)
(* What FixedUnorderedMap promises: each map is a sequence of entries      *)
(* (index, key, mapped value) in insertion order, with distinct keys and   *)
(* distinct indices.  An iterator is an index: an entry keeps its index    *)
(* and its place while other entries come and go.  A map that was moved    *)
(* from is Unspecified until it is assigned to or destroyed.               *)
(***************************************************************************)
EXTENDS Naturals, Sequences

CONSTANTS Objects, NoObject, Unspecified, Indices, Keys, Mapped

VARIABLE maps

Init == maps = [o \in Objects |-> NoObject]

Usable(o) == maps[o] \notin {NoObject, Unspecified}

IndicesOf(m) == {m[k][1] : k \in 1 .. Len(m)}
KeysOf(m)    == {m[k][2] : k \in 1 .. Len(m)}

Create(o) == maps[o] = NoObject /\ maps' = [maps EXCEPT ![o] = << >>]

Destroy(o) == maps[o] # NoObject /\ maps' = [maps EXCEPT ![o] = NoObject]

Insert(o, i, key, x) ==
  /\ Usable(o)
  /\ key \notin KeysOf(maps[o]) /\ i \notin IndicesOf(maps[o])
  /\ maps' = [maps EXCEPT ![o] = Append(@, <<i, key, x>>)]

Assign(o, key, x) ==
  /\ Usable(o) /\ key \in KeysOf(maps[o])
  /\ maps' = [maps EXCEPT ![o] =
       [k \in 1 .. Len(@) |-> IF @[k][2] = key THEN <<@[k][1], key, x>> ELSE @[k]]]

Erase(o, key) ==
  /\ Usable(o)
  /\ \E n \in 1 .. Len(maps[o]) :
       /\ maps[o][n][2] = key
       /\ maps' = [maps EXCEPT ![o] =
            [k \in 1 .. Len(@) - 1 |-> @[IF k < n THEN k ELSE k + 1]]]

Copy(o, other) ==
  /\ Usable(other)
  /\ maps' = [maps EXCEPT ![o] = maps[other]]

Move(o, other) ==
  /\ Usable(other) /\ o # other
  /\ maps' = [maps EXCEPT ![o] = maps[other], ![other] = Unspecified]

Next ==
  \E o \in Objects :
    \/ Create(o) \/ Destroy(o)
    \/ \E key \in Keys :
         \/ Erase(o, key)
         \/ \E x \in Mapped : Assign(o, key, x) \/ \E i \in Indices : Insert(o, i, key, x)
    \/ \E other \in Objects : Copy(o, other) \/ Move(o, other)

Spec == Init /\ [][Next]_maps
=============================================================================
