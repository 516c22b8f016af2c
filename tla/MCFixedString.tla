--------------------------- MODULE MCFixedString ---------------------------
(* An instance of FixedString for TLC: the characters are 0 (NUL), 1 (a    *)
(* space) and 2 (a letter); char is trivially copyable.                    *)
EXTENDS FixedString

CONSTANT MaxStream   (* the longest stream *)

CharBuild == {[trivially_copyable |-> TRUE, constant_evaluated |-> FALSE]}

(* A stream holds text: spaces and letters. *)
ShortStreams == UNION {[1 .. n -> Values \ {NUL}] : n \in 0 .. MaxStream}

WithoutCall == <<objects, undefined, aborted, build>>
=============================================================================
