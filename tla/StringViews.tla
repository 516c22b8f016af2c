---------------------------- MODULE StringViews ----------------------------
(***************************************************************************)
(* std::string_view, as far as FixedString calls it: the searches and the  *)
(* comparison of a sequence of characters.  Positions count from 0.  A     *)
(* character is a number; NUL ends a C string, Spaces are what             *)
(* std::isspace accepts.                                                   *)
(***************************************************************************)
EXTENDS Naturals, Sequences, FiniteSetsExt

CONSTANTS
  NUL, Spaces,
  npos         (* the largest std::size_t                                  *)

ASSUME NposIsNat == npos \in Nat

Smaller(m, n) == IF m < n THEN m ELSE n

(* substr(pos, count), for pos within the view. *)
SubView(s, pos, count) == SubSeq(s, pos + 1, pos + Smaller(count, Len(s) - pos))

(* The view of a const char*: up to its first NUL. *)
CharPtrView(s) ==
  LET nuls == {k \in 1 .. Len(s) : s[k] = NUL}
  IN  SubSeq(s, 1, IF nuls = {} THEN Len(s) ELSE Min(nuls) - 1)

Lowest(found)  == IF found = {} THEN npos ELSE Min(found)
Highest(found) == IF found = {} THEN npos ELSE Max(found)

Occurrences(s, needle) ==
  {k \in 0 .. Len(s) : k + Len(needle) <= Len(s) /\ SubView(s, k, Len(needle)) = needle}
Among(s, chars)    == {k \in 0 .. Len(s) - 1 : \E j \in 1 .. Len(chars) : s[k + 1] = chars[j]}
NotAmong(s, chars) == (0 .. Len(s) - 1) \ Among(s, chars)

(* What each of the six searches considers a hit, and from which side. *)
Search(op, s, needle, pos) ==
  LET hits == CASE op \in {"find", "rfind"} -> Occurrences(s, needle)
                [] op \in {"find_first_of", "find_last_of"} -> Among(s, needle)
                [] op \in {"find_first_not_of", "find_last_not_of"} -> NotAmong(s, needle)
  IN  IF op \in {"find", "find_first_of", "find_first_not_of"}
      THEN Lowest({k \in hits : k >= pos}) ELSE Highest({k \in hits : k <= pos})

Searches == {"find", "rfind", "find_first_of", "find_last_of",
             "find_first_not_of", "find_last_not_of"}

(* compare: 0 for less, 1 for equal, 2 for greater. *)
Compare(s, t) ==
  LET differ == {k \in 1 .. Smaller(Len(s), Len(t)) : s[k] # t[k]} IN
  CASE s = t -> 1
    [] s # t /\ differ = {} -> IF Len(s) < Len(t) THEN 0 ELSE 2
    [] OTHER -> IF s[Min(differ)] < t[Min(differ)] THEN 0 ELSE 2

StartsWith(s, t) == Len(t) <= Len(s) /\ SubView(s, 0, Len(t)) = t
EndsWith(s, t)   == Len(t) <= Len(s) /\ SubView(s, Len(s) - Len(t), Len(t)) = t

(* The bits of an input stream. *)
eofbit  == 1
failbit == 2
rdstate(eof, fail) == (IF eof THEN eofbit ELSE 0) + (IF fail THEN failbit ELSE 0)
=============================================================================
