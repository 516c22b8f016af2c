--------------------------- MODULE ElementMemory ---------------------------
(***************************************************************************)
(* The storage of elements: memory.hpp, algorithm.hpp and the cells of     *)
(* OptionalStorage.  A cell is Raw or holds an element, whose value may    *)
(* have been moved out.  What the language calls undefined, to construct   *)
(* over an element, to destroy or to read a Raw cell, sets the flag ub.    *)
(*                                                                         *)
(* An operator takes an object with the fields cells and ub and returns    *)
(* the object it leaves behind.  For a trivially copyable T destruction    *)
(* is no operation and a move is a copy.  Which T the container is         *)
(* instantiated with, and whether the program runs or is evaluated by the  *)
(* compiler, is the variable build, which never changes.                   *)
(***************************************************************************)
EXTENDS Naturals

CONSTANTS Values, MovedFrom, Raw

VARIABLE build

TriviallyCopyable   == build.trivially_copyable
IsConstantEvaluated == build.constant_evaluated

Contents == Values \cup {MovedFrom}

(* n iterations of a loop: Step(x, k) is what iteration k makes of x. *)
Iterate(n, m, Step(_, _)) ==
  LET after[k \in 0 .. n] == IF k = 0 THEN m ELSE Step(after[k - 1], k - 1)
  IN  after[n]

(* construct_at_address_of; an argument that refers to a Raw cell is read. *)
construct_at(m, i, v) ==
  [m EXCEPT !.cells[i] = v,
            !.ub = @ \/ v = Raw \/ (~TriviallyCopyable /\ m.cells[i] # Raw)]

destroy_at(m, i) ==
  IF TriviallyCopyable THEN m
  ELSE [m EXCEPT !.cells[i] = Raw, !.ub = @ \/ m.cells[i] = Raw]

MovedOut(v) == IF TriviallyCopyable \/ v = Raw THEN v ELSE MovedFrom

(* One relocation: construct the target from std::move of the source, then *)
(* destroy the source.                                                     *)
relocate(m, from, to) ==
  LET v == m.cells[from] IN
  destroy_at(construct_at([m EXCEPT !.cells[from] = MovedOut(v)], to, v), from)

(* One step of std::move(first, last, d_first); onto itself it leaves the  *)
(* element moved from.                                                     *)
move_assign(m, from, to) ==
  LET v == m.cells[from] IN
  [m EXCEPT !.cells[to] = v, !.cells[from] = MovedOut(v),
            !.ub = @ \/ v = Raw \/ m.cells[to] = Raw]

(* The n elements in the cells from[0], from[1]... go to to[0], to[1]...,  *)
(* in this order or, backward, in the opposite one.                        *)
uninitialized_relocate(m, n, from, to) ==
  Iterate(n, m, LAMBDA x, k : relocate(x, from[k], to[k]))

uninitialized_relocate_backward(m, n, from, to) ==
  Iterate(n, m, LAMBDA x, k : relocate(x, from[n - 1 - k], to[n - 1 - k]))
=============================================================================
