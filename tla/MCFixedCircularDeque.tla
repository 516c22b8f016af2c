---- MODULE MCFixedCircularDeque ----
(* Instances of FixedDeque and FixedCircularDeque for TLC. *)
EXTENDS FixedCircularDeque

RunTimeBuild == {[trivially_copyable |-> FALSE, constant_evaluated |-> FALSE]}

(* No call depends on the record of the last one: states that differ only  *)
(* in it are explored once.  The refinement is still checked on each call. *)
WithoutCall == <<objects, undefined, aborted, build>>
====
