------------------------ MODULE MCFixedUnorderedMap ------------------------
(***************************************************************************)
(* Model-checking instances of FixedUnorderedMap.  Hashes are numbers; the *)
(* low part (modulo DIST_INC) is the fingerprint and the rest selects the  *)
(* home bucket, so 0 .. DIST_INC * BUCKET_COUNT - 1 has every combination. *)
(***************************************************************************)
EXTENDS FixedUnorderedMap, TLC

CONSTANTS k1, k2, k3, k4, x0, x1, e10, e11, e20, e21, e30, e31, e40

(* The entries, named after their key and their mapped value. *)
EntryMembers ==
  (e10 :> <<k1, x0>>) @@ (e11 :> <<k1, x1>>) @@ (e20 :> <<k2, x0>>)
    @@ (e21 :> <<k2, x1>>) @@ (e30 :> <<k3, x0>>) @@ (e31 :> <<k3, x1>>)
    @@ (e40 :> <<k4, x0>>)

MCEntries ==
  {e \in DOMAIN EntryMembers : EntryMembers[e][1] \in Keys /\ EntryMembers[e][2] \in Mapped}
MCKeyOf    == [e \in MCEntries |-> EntryMembers[e][1]]
MCMappedOf == [e \in MCEntries |-> EntryMembers[e][2]]

(* Four keys on a full table of three buckets: every key at one home with  *)
(* equal and with differing fingerprints, homes at the last bucket so that *)
(* runs wrap around, and two homes whose runs collide.                     *)
CollidingHashFunctions ==
  {(k1 :> 0) @@ (k2 :> 0) @@ (k3 :> 0) @@ (k4 :> 0),
   (k1 :> 1) @@ (k2 :> 0) @@ (k3 :> 1) @@ (k4 :> 0),
   (k1 :> 4) @@ (k2 :> 5) @@ (k3 :> 0) @@ (k4 :> 2)}

(* erase_if of every other key, and of none. *)
SomePredicates == {{k1, k3}, {}}
NoPredicates == {}

(* Two keys with one home. *)
OneHomeHashFunction == {(k1 :> 1) @@ (k2 :> 0)}
=============================================================================
