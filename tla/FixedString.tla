---------------------------- MODULE FixedString ----------------------------
(***************************************************************************)
(* FixedString: a FixedVector<char, MAXIMUM_LENGTH + 1> whose size is the  *)
(* length.  Every member that changes it calls the vector's member and     *)
(* then writes a NUL behind the last character, past the vector's bounds   *)
(* check; what is longer than MAXIMUM_LENGTH aborts there.                 *)
(***************************************************************************)
EXTENDS FixedVector, StringViews

CONSTANT Streams   (* what the input streams of operator>> hold            *)

ASSUME NulIsACharacter == NUL \in Values
ASSUME StreamsAreText == Streams \subseteq Seq(Values)
ASSUME CharIsTriviallyCopyable == \A b \in Builds : b.trivially_copyable

MAXIMUM_LENGTH == MAXIMUM_SIZE - 1

as_view(c) == Elements(c)

null_terminate_at(c, n) == [c EXCEPT !.cells[n] = NUL]

null_terminate(c) == null_terminate_at(c, c.size)

(* Mutant of the following. *)
NoTerminatorAtMaxLength(c) == c

null_terminate_at_max_length(c) == null_terminate_at(c, MAXIMUM_LENGTH)

(* A member of the vector that leaves d when its check holds, and then     *)
(* null_terminate(loc); ScopedNullTermination does the same on return.     *)
Terminated(check, c, ret, o, d) ==
  Checked(check /\ d.size <= MAXIMUM_LENGTH, c, ret, o, null_terminate(d))

-----------------------------------------------------------------------------
(* The constructors: default, of a view or a list, of count characters, of *)
(* a const char* (also append, insert and assign take views of these).     *)
StringConstruct(o, items) ==
  /\ Fresh(o)
  /\ Terminated(Len(items) <= MAXIMUM_SIZE, CallWith("construct", o, 0, items), 0, o,
       null_terminate_at_max_length(InsertForward(EmptyVector, 0, items)))

StringConstructCount(o, count, char) ==
  /\ Fresh(o)
  /\ Terminated(count <= MAXIMUM_SIZE, CallWith("construct_count", o, count, <<char>>), 0, o,
       null_terminate_at_max_length(PlaceAll(count, char)))

ConstructCharPtr(o, chars) == StringConstruct(o, CharPtrView(chars))

(* StringLiteral, make_fixed_string: the characters of a literal "..." are *)
(* followed by a NUL that does not count.                                  *)
StringLiteral(chars) == [size |-> Len(chars), cstr |-> Append(chars, NUL)]
make_fixed_string(o, literal) ==
  /\ literal.cstr[literal.size + 1] = NUL
  /\ StringConstruct(o, SubSeq(literal.cstr, 1, literal.size))

StringAssignCount(o, count, char) ==
  /\ Usable(o)
  /\ Terminated(count <= MAXIMUM_SIZE, CallWith("assign_count", o, count, <<char>>), 0,
                o, ResizeTo(clear(objects[o]), count, char))

StringAssign(o, items) ==
  /\ Usable(o)
  /\ Terminated(Len(items) <= MAXIMUM_SIZE, CallWith("assign", o, 0, items), 0,
                o, InsertForward(clear(objects[o]), 0, items))

(* The vector's insertion of n of the string's own characters, read while  *)
(* the loop writes.                                                        *)
InsertOwn(c, at, from, n) ==
  Iterate(n, advance_all_after_iterator_by_n(c, at, n),
          LAMBDA x, k : construct_at(x, AtPosition(x, at + k), x.cells[AtPosition(x, from + k)]))

(* Mutant: the characters are copied from the back. *)
AssignOwnBackward(o, i, n) ==
  /\ Usable(o) /\ i + n <= objects[o].size
  /\ Terminated(TRUE, [Call("assign_own", o) EXCEPT !.i = i, !.j = n], 0, o,
       Iterate(n, [clear(objects[o]) EXCEPT !.size = n], LAMBDA x, k :
         construct_at(x, n - 1 - k, x.cells[i + n - 1 - k])))

(* assign(view) and append(view) of a view of the string itself. *)
AssignOwn(o, i, n) ==
  /\ Usable(o) /\ i + n <= objects[o].size
  /\ Terminated(TRUE, [Call("assign_own", o) EXCEPT !.i = i, !.j = n], 0,
                o, InsertOwn(clear(objects[o]), 0, i, n))

AppendOwn(o, i, n) ==
  /\ Usable(o) /\ i + n <= objects[o].size
  /\ Terminated(HasRoomFor(o, n), [Call("append_own", o) EXCEPT !.i = i, !.j = n], 0,
                o, InsertOwn(objects[o], objects[o].size, i, n))

StringClear(o) == Usable(o) /\ Terminated(TRUE, Call("clear", o), 0, o, clear(objects[o]))

StringInsert(o, pos, items) ==
  /\ Usable(o) /\ pos <= objects[o].size
  /\ Terminated(HasRoomFor(o, Len(items)), CallWith("insert", o, pos, items), pos,
                o, InsertForward(objects[o], pos, items))

StringInsertInput(o, pos, items) ==
  /\ Usable(o) /\ pos <= objects[o].size
  /\ Terminated(HasRoomFor(o, Len(items)), CallWith("insert_input", o, pos, items), pos,
                o, InsertInput(objects[o], pos, items))

(* erase(first, last) and erase(position). *)
StringErase(o, first, last) ==
  /\ Usable(o) /\ first <= objects[o].size /\ last <= objects[o].size + 1
  /\ Terminated(first <= last /\ last <= objects[o].size,
                [Call("erase", o) EXCEPT !.i = first, !.j = last], first,
                o, EraseRange(objects[o], first, last))

(* erase(index, count) *)
EraseCount(o, index, count) ==
  /\ Usable(o)
  /\ LET actual_count == Smaller(count, objects[o].size - index) IN
     Terminated(index <= objects[o].size,
                [Call("erase_count", o) EXCEPT !.i = index, !.j = count], index,
                o, EraseRange(objects[o], index, index + actual_count))

StringPushBack(o, char) ==
  /\ Usable(o)
  /\ Terminated(HasRoomFor(o, 1), CallWith("push_back", o, 0, <<char>>), 0,
                o, push_back_internal(objects[o], char))

StringPopBack(o) ==
  /\ Usable(o)
  /\ Terminated(objects[o].size > 0, Call("pop_back", o), 0, o, drop_back(objects[o]))

(* append and operator+= *)
Appended(c, items) == InsertForward(c, c.size, items)

StringAppend(o, items) ==
  /\ Usable(o)
  /\ Terminated(HasRoomFor(o, Len(items)), CallWith("append", o, 0, items), 0,
                o, Appended(objects[o], items))

append_truncating(o, items) ==
  /\ Usable(o)
  /\ LET safe_chars == Smaller(Len(items), MAXIMUM_LENGTH - objects[o].size) IN
     Terminated(HasRoomFor(o, safe_chars), CallWith("append_truncating", o, 0, items), 0,
                o, Appended(objects[o], SubView(items, 0, safe_chars)))

StringResize(o, count, char) ==
  /\ Usable(o)
  /\ Terminated(count <= MAXIMUM_SIZE, CallWith("resize", o, count, <<char>>), 0,
                o, ResizeTo(objects[o], count, char))

reserve(o, new_capacity) ==
  /\ Usable(o)
  /\ Checked(new_capacity <= MAXIMUM_LENGTH, CallWith("reserve", o, new_capacity, << >>), 0,
             o, objects[o])

-----------------------------------------------------------------------------
(* operator>>.  A stream is the characters not yet read and its two bits;  *)
(* get() at the end sets both and leaves the character as it was.          *)
is_full(c) == c.size >= MAXIMUM_LENGTH

get(s) == IF s.rest = << >> THEN [s EXCEPT !.eof = TRUE, !.fail = TRUE]
          ELSE [s EXCEPT !.char = Head(s.rest), !.rest = Tail(@)]

SkipSpaces(in) ==
  LET letters == {k \in 1 .. Len(in) : in[k] \notin Spaces}
  IN  IF letters = {} THEN << >> ELSE SubSeq(in, Min(letters), Len(in))

(* The condition of the loop. *)
LoopContinues(s) == s.char \notin Spaces /\ ~is_full(s.str) /\ ~s.eof /\ ~s.fail

ReadWord(s) ==
  Iterate(Len(s.rest) + 1, s, LAMBDA x, k :
    IF LoopContinues(x)
    THEN get([x EXCEPT !.str = null_terminate(push_back_internal(@, x.char))])
    ELSE x)

(* Where nothing but spaces is left, putback() clears the end-of-file bit  *)
(* and the failure stays.                                                  *)
Extract(o, in) ==
  LET first == get([str |-> null_terminate(clear(objects[o])), rest |-> SkipSpaces(in),
                    char |-> NUL, eof |-> FALSE, fail |-> FALSE])
      s     == IF first.fail THEN [first EXCEPT !.eof = FALSE] ELSE ReadWord(first)
      has_exceeded_capacity == is_full(s.str) /\ ~s.eof
  IN
  /\ Usable(o)
  /\ Checked(s.fail \/ ~has_exceeded_capacity,
             [CallWith("extract", o, 0, in) EXCEPT !.j = rdstate(s.eof, s.fail)],
             Len(s.rest), o, s.str)

-----------------------------------------------------------------------------
(* The members that only read ask a view of the characters. *)
Asks(o, c, ret) == Usable(o) /\ Checked(TRUE, c, ret, o, objects[o])

SearchFor(op, o, needle, pos) ==
  Asks(o, CallWith(op, o, pos, needle), Search(op, as_view(objects[o]), needle, pos))

find(o, needle, pos)              == SearchFor("find", o, needle, pos)
rfind(o, needle, pos)             == SearchFor("rfind", o, needle, pos)
find_first_of(o, needle, pos)     == SearchFor("find_first_of", o, needle, pos)
find_last_of(o, needle, pos)      == SearchFor("find_last_of", o, needle, pos)
find_first_not_of(o, needle, pos) == SearchFor("find_first_not_of", o, needle, pos)
find_last_not_of(o, needle, pos)  == SearchFor("find_last_not_of", o, needle, pos)

(* compare, operator== and operator<=> *)
compare(o, other) ==
  Asks(o, CallWith("compare", o, 0, other), Compare(as_view(objects[o]), other))

starts_with(o, prefix) ==
  Asks(o, CallWith("starts_with", o, 0, prefix),
       IF StartsWith(as_view(objects[o]), prefix) THEN 1 ELSE 0)

ends_with(o, suffix) ==
  Asks(o, CallWith("ends_with", o, 0, suffix),
       IF EndsWith(as_view(objects[o]), suffix) THEN 1 ELSE 0)

(* substr returns a view: where it begins is pos, the result its length. *)
substr(o, pos, len) ==
  /\ Usable(o)
  /\ Checked(pos <= objects[o].size, [Call("substr", o) EXCEPT !.i = pos, !.j = len],
             Smaller(len, objects[o].size - pos), o, objects[o])

-----------------------------------------------------------------------------
Lengths == Counts \cup {npos}

StringConstruction(o) ==
  \/ \E items \in Ranges :
       StringConstruct(o, items) \/ ConstructCharPtr(o, Append(items, NUL))
         \/ make_fixed_string(o, StringLiteral(items))
  \/ \E n \in Counts, char \in Values : StringConstructCount(o, n, char)

StringChange(o) ==
  \/ StringClear(o) \/ StringPopBack(o)
  \/ \E n \in Counts, char \in Values : StringAssignCount(o, n, char) \/ StringResize(o, n, char)
  \/ \E items \in Ranges :
       \/ StringAssign(o, items) \/ StringAppend(o, items) \/ append_truncating(o, items)
       \/ \E pos \in Positions : StringInsert(o, pos, items) \/ StringInsertInput(o, pos, items)
  \/ \E i, n \in Positions : AssignOwn(o, i, n) \/ AppendOwn(o, i, n)
  \/ \E first, last \in Counts : StringErase(o, first, last)
  \/ \E index \in Counts, count \in Lengths : EraseCount(o, index, count)
  \/ \E char \in Values : StringPushBack(o, char)
  \/ \E in \in Streams : Extract(o, in)

StringRead(o) ==
  \/ Front(o) \/ Back(o)
  \/ \E i \in Positions : At(o, i)
  \/ \E n \in Counts : reserve(o, n)
  \/ \E pos \in Counts, len \in Lengths : substr(o, pos, len)
  \/ \E items \in Ranges :
       \/ compare(o, items) \/ starts_with(o, items) \/ ends_with(o, items)
       \/ \E pos \in Lengths :
            \/ find(o, items, pos) \/ find_first_of(o, items, pos)
            \/ find_first_not_of(o, items, pos) \/ rfind(o, items, pos)
            \/ find_last_of(o, items, pos) \/ find_last_not_of(o, items, pos)

StringNext ==
  \/ \E o \in Objects :
       /\ StringConstruction(o) \/ Lifetime(o) \/ StringChange(o) \/ StringRead(o)
       /\ UNCHANGED build
  \/ Halted

StringSpec == Init /\ [][StringNext]_vars

-----------------------------------------------------------------------------
(* c_str() is a C string after every call: behind the last character lies  *)
(* a NUL, every cell up to it was written, and the last cell of the array  *)
(* never holds anything but a NUL, so that a reader who trusts no length   *)
(* stops inside the array.                                                 *)
StringsAreTerminated ==
  \A o \in Objects : objects[o] # NoObject =>
    /\ objects[o].size <= MAXIMUM_LENGTH
    /\ \A k \in 0 .. objects[o].size - 1 : objects[o].cells[k] \in Values
    /\ objects[o].cells[objects[o].size] = NUL
    /\ objects[o].cells[MAXIMUM_LENGTH] = NUL

String == INSTANCE BoundedStrings
  WITH seqs <- Abstract, Circular <- FALSE, MAXIMUM_SIZE <- MAXIMUM_LENGTH

(* What extraction does to the string alone: the next word, which is empty *)
(* when there is none, becomes the string, or the call aborts.             *)
ReadsTheWord ==
  LET word == String!Word(call'.items) IN
  /\ call'.op = "extract"
  /\ \/ ~aborted' /\ Abstract' = [Abstract EXCEPT ![call'.obj] = word]
     \/ aborted' /\ Len(word) >= MAXIMUM_LENGTH /\ UNCHANGED Abstract

(* A FixedString is a std::string of at most MAXIMUM_LENGTH characters:    *)
(* each call has its effect and its result and aborts exactly when the     *)
(* length would be exceeded or a position lies outside; assign and append  *)
(* work for views of the string itself.  Of operator>> it says only that   *)
(* the string becomes the next word of the stream and that no word shorter *)
(* than MAXIMUM_LENGTH is refused; the rest of what std::string promises   *)
(* there is ExtractionIsThatOfStrings.                                     *)
RefinesStrings ==
  String!Init /\ [][String!StringNext \/ ReadsTheWord]_(String!vars)

(* operator>> does to a FixedString and to the stream what it does to a    *)
(* std::string: the word is read when it has at most MAXIMUM_LENGTH        *)
(* characters, whatever follows; the space behind it stays in the stream;  *)
(* eofbit is set at the end of the stream, failbit only where there is no  *)
(* word, and then the string keeps its characters.                         *)
ExtractionIsThatOfStrings ==
  [][call'.op = "extract" => String!StringNext]_(String!vars)
=============================================================================
