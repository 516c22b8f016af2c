-------------------------- MODULE SortedDictionary --------------------------
(***************************************************************************)
(* What FixedMap, FixedSet, EnumMap and EnumSet promise: a function from   *)
(* the keys that are present to their values.  An iterator is the key it   *)
(* stands at, or End; a call that removes something returns the iterator   *)
(* to the next key that is left.                                           *)
(***************************************************************************)
EXTENDS Integers, Sequences

CONSTANTS
  Keys, Mapped, Ranges, Predicates,
  Universes,           (* the sets that a complement may be taken in       *)
  End, NoDict, Unspecified

VARIABLES
  dict,     (* the client's container                                      *)
  copy,     (* the second one, NoDict, or Unspecified after it was moved   *)
  result    (* the last call, the iterator and the flag that it returned   *)

vars == <<dict, copy, result>>

Restricted(d, S) == [k \in S |-> d[k]]
With(d, k, v) == [x \in DOMAIN d \cup {k} |-> IF x = k THEN v ELSE d[x]]

(* The first of the keys S that is greater than k. *)
Following(S, k) ==
  IF \A x \in S : x <= k THEN End
  ELSE CHOOSE x \in S : x > k /\ \A y \in S : y > k => x <= y

NoResult == [call |-> <<"special">>, key |-> End, flag |-> FALSE]

Init ==
  /\ dict = [k \in {} |-> End] /\ copy = NoDict
  /\ result = NoResult

Return(call, key, flag) ==
  result' = [call |-> call, key |-> key, flag |-> flag] /\ UNCHANGED copy

Insert(k, v) ==
  /\ Return(<<"insert", k, v>>, k, k \notin DOMAIN dict)
  /\ dict' = IF k \in DOMAIN dict THEN dict ELSE With(dict, k, v)

Assign(k, v) ==
  /\ Return(<<"insert_or_assign", k, v>>, k, k \notin DOMAIN dict)
  /\ dict' = With(dict, k, v)

Read(k) == Return(<<"at", k>>, k, TRUE) /\ k \in DOMAIN dict /\ UNCHANGED dict

(* The value of a key that is there stays. *)
InsertRange(ks, v) ==
  /\ Return(<<"insert_range", ks>>, End, FALSE)
  /\ dict' = [x \in DOMAIN dict \cup {ks[n] : n \in DOMAIN ks} |->
                IF x \in DOMAIN dict THEN dict[x] ELSE v]

Erase(k) ==
  /\ k \in DOMAIN dict
  /\ Return(<<"erase">>, Following(DOMAIN dict, k), TRUE)
  /\ dict' = Restricted(dict, DOMAIN dict \ {k})

EraseKey(k) ==
  /\ Return(<<"erase_key", k>>, End, k \in DOMAIN dict)
  /\ dict' = Restricted(dict, DOMAIN dict \ {k})

(* The keys from lo on, and before hi. *)
EraseRange(lo, hi) ==
  /\ Return(<<"erase_range">>, hi, FALSE)
  /\ lo \in DOMAIN dict \cup {End} /\ hi \in DOMAIN dict \cup {End}
  /\ dict' = Restricted(dict,
       {k \in DOMAIN dict : lo = End \/ k < lo \/ (hi # End /\ k >= hi)})

Clear == Return(<<"clear">>, End, FALSE) /\ dict' = Restricted(dict, {})

EraseIf(pred) == Return(<<"erase_if", pred>>, End, FALSE) /\ dict' = Restricted(dict, DOMAIN dict \ pred)

Copy == copy' = dict /\ result' = NoResult /\ UNCHANGED dict
Move == copy' = dict /\ dict' = [k \in {} |-> End] /\ result' = NoResult
CopyBack == copy \notin {NoDict, Unspecified} /\ dict' = copy /\ result' = NoResult /\ UNCHANGED copy
MoveBack == copy \notin {NoDict, Unspecified} /\ dict' = copy /\ copy' = Unspecified /\ result' = NoResult
ClearCopy == copy # NoDict /\ copy' = [k \in {} |-> End] /\ result' = NoResult /\ UNCHANGED dict

(* A second container made of a range of keys, or of the others of all. *)
CopyOf(S, v, call) ==
  /\ result' = [call |-> call, key |-> End, flag |-> FALSE]
  /\ copy' = [k \in S |-> v] /\ UNCHANGED dict
Create(ks, v) == CopyOf({ks[n] : n \in DOMAIN ks}, v, <<"create", ks, v>>)
Complement(all, ks, v) ==
  CopyOf(all \ {ks[n] : n \in DOMAIN ks}, v, <<"complement", all, ks>>)

Drop == copy' = NoDict /\ result' = NoResult /\ UNCHANGED dict

Next ==
  \/ \E k \in Keys :
       \/ Read(k) \/ Erase(k) \/ EraseKey(k)
       \/ \E v \in Mapped : Insert(k, v) \/ Assign(k, v)
  \/ \E hi, lo \in Keys \cup {End} : EraseRange(lo, hi)
  \/ \E ks \in Ranges, v \in Mapped :
       \/ InsertRange(ks, v) \/ Create(ks, v)
       \/ \E all \in Universes : Complement(all, ks, v)
  \/ \E pred \in Predicates : EraseIf(pred)
  \/ Clear
  \/ Copy \/ Move \/ CopyBack \/ MoveBack \/ ClearCopy \/ Drop

Spec == Init /\ [][Next]_vars
=============================================================================
