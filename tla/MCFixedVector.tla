--------------------------- MODULE MCFixedVector ---------------------------
(* Instances of FixedVector for TLC. *)
EXTENDS FixedVector

Build(trivial, constant) ==
  [trivially_copyable |-> trivial, constant_evaluated |-> constant]

(* Elements with and without trivial copies, and the branch of erase for   *)
(* constant evaluation.                                                    *)
AllBuilds == {Build(FALSE, FALSE), Build(FALSE, TRUE), Build(TRUE, FALSE)}
RunTimeBuild == {Build(FALSE, FALSE)}

(* No call depends on the record of the last one: states that differ only  *)
(* in it are explored once.  The refinement is still checked on each call. *)
WithoutCall == <<objects, undefined, aborted, build>>
=============================================================================
