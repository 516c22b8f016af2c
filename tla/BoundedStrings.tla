--------------------------- MODULE BoundedStrings ---------------------------
(***************************************************************************)
(* What FixedString promises: std::string on at most MAXIMUM_SIZE          *)
(* characters.  To the calls of a bounded sequence it adds those of a      *)
(* string; `call' records them in the same way.                            *)
(***************************************************************************)
EXTENDS BoundedSequences, StringViews

(* The first word of a stream: the characters after the leading spaces up  *)
(* to the next space or the end.                                           *)
Begin(in) == CHOOSE k \in 0 .. Len(in) :
               /\ \A j \in 1 .. k : in[j] \in Spaces
               /\ k = Len(in) \/ in[k + 1] \notin Spaces
Word(in)  == LET rest == Drop(in, Begin(in))
                 gaps == {k \in 1 .. Len(rest) : rest[k] \in Spaces}
             IN  First(rest, IF gaps = {} THEN Len(rest) ELSE Min(gaps) - 1)
EndsTheStream(in) == Begin(in) + Len(Word(in)) = Len(in)

(* The stream that operator>> leaves: its bits, and the characters that    *)
(* are left, the first of them the space that ended the word.              *)
StreamState(in) == rdstate(EndsTheStream(in), Word(in) = << >>)
CharactersLeft(in) == Len(in) - Begin(in) - Len(Word(in))

StringAccepts(c, s) ==
  CASE c.op = "append" -> Len(s) + Len(c.items) <= MAXIMUM_SIZE
    [] c.op = "append_own" -> Len(s) + c.j <= MAXIMUM_SIZE
    [] c.op \in {"erase_count", "substr"} -> c.i <= Len(s)
    [] c.op = "reserve" -> c.i <= MAXIMUM_SIZE
    [] c.op = "extract" -> Len(Word(c.items)) <= MAXIMUM_SIZE
    [] OTHER -> TRUE

StringEffect(c, s) ==
  CASE c.op = "append" -> s \o c.items
    [] c.op = "append_own" -> s \o SubView(s, c.i, c.j)
    [] c.op = "assign_own" -> SubView(s, c.i, c.j)
    [] c.op = "append_truncating" ->
         First(s \o c.items, Smaller(Len(s) + Len(c.items), MAXIMUM_SIZE))
    [] c.op = "erase_count" -> First(s, c.i) \o Drop(s, c.i + Smaller(c.j, Len(s) - c.i))
    [] c.op = "extract" -> IF Word(c.items) = << >> THEN s ELSE Word(c.items)
    [] OTHER -> s

StringResult(c, s) ==
  CASE c.op = "erase_count" -> c.i
    [] c.op = "substr" -> Smaller(c.j, Len(s) - c.i)
    [] c.op \in Searches -> Search(c.op, s, c.items, c.i)
    [] c.op = "compare" -> Compare(s, c.items)
    [] c.op = "starts_with" -> IF StartsWith(s, c.items) THEN 1 ELSE 0
    [] c.op = "ends_with" -> IF EndsWith(s, c.items) THEN 1 ELSE 0
    [] c.op = "extract" -> CharactersLeft(c.items)
    [] OTHER -> 0

StringOperations ==
  {"append", "append_own", "assign_own", "append_truncating", "erase_count", "substr",
   "reserve", "compare", "starts_with", "ends_with", "extract"} \cup Searches

StringMake(c) ==
  LET s == seqs[c.obj] IN
  /\ c.op \in StringOperations /\ s # NoObject
  /\ \/ /\ StringAccepts(c, s)
        /\ call' = [c EXCEPT !.ret = StringResult(c, s)]
        /\ c.op = "extract" => c.j = StreamState(c.items)
        /\ seqs' = [seqs EXCEPT ![c.obj] = StringEffect(c, s)]
        /\ UNCHANGED aborted
     \/ ~StringAccepts(c, s) /\ Refuse(c)

StringNext == \/ Next
              \/ /\ ~aborted /\ UNCHANGED build
                 /\ StringMake([call' EXCEPT !.ret = 0])

StringSpec == Init /\ [][StringNext]_vars
=============================================================================
