---------------------------- MODULE FixedBitset ----------------------------
(***************************************************************************)
(* FixedBitset<BIT_COUNT>: an array of unsigned words.  A word is the set  *)
(* of the positions of its one bits, so that |, & and ^ are \cup, \cap and *)
(* the symmetric difference, and a shift drops what leaves the word.       *)
(* A bitset of up to NARROW bits uses the narrow word, any other the wide  *)
(* one, of twice the width (32 and 64 bits in the code).                   *)
(*                                                                         *)
(* An operator takes the word array and returns the one that the member    *)
(* function leaves behind; loops over words run in the order of the code.  *)
(***************************************************************************)
EXTENDS ElementMemory, Integers, FiniteSets, Sequences

CONSTANTS
  NARROW,      (* the width of std::uint32_t, half that of std::uint64_t   *)
  ULONG_BITS   (* the width of unsigned long, either of the two            *)

ASSUME NarrowWords == NARROW \in Nat \ {0} /\ ULONG_BITS \in {NARROW, 2 * NARROW}

(* The template parameter. *)
BIT_COUNT == build.count

BITS_PER_WORD == IF BIT_COUNT <= NARROW THEN NARROW ELSE 2 * NARROW

(* "NB: number of words - 1" *)
WORD_COUNT == IF BIT_COUNT = 0 THEN 0 ELSE (BIT_COUNT - 1) \div BITS_PER_WORD

Ones(n)  == 0 .. n - 1
MaxWord  == Ones(BITS_PER_WORD)
Bitsets  == [0 .. WORD_COUNT -> SUBSET MaxWord]
NoBits   == [w \in 0 .. WORD_COUNT |-> {}]

shl(word, n) == {b + n : b \in word} \cap MaxWord
shr(word, n) == {b - n : b \in word} \cap MaxWord

-----------------------------------------------------------------------------
(* Mutant: the bits behind BIT_COUNT survive. *)
trim_nothing(d) == d

trim(d) ==
  IF BIT_COUNT = 0 \/ BIT_COUNT % BITS_PER_WORD # 0
  THEN [d EXCEPT ![WORD_COUNT] = @ \cap Ones(BIT_COUNT % BITS_PER_WORD)]
  ELSE d

subscript_unchecked(d, pos) == pos % BITS_PER_WORD \in d[pos \div BITS_PER_WORD]

set_unchecked(d, pos, val) ==
  LET bit == {pos % BITS_PER_WORD} IN
  [d EXCEPT ![pos \div BITS_PER_WORD] = IF val THEN @ \cup bit ELSE @ \ bit]

flip_unchecked(d, pos) == set_unchecked(d, pos, ~subscript_unchecked(d, pos))

and_assign(d, right) == [w \in DOMAIN d |-> d[w] \cap right[w]]
or_assign(d, right)  == [w \in DOMAIN d |-> d[w] \cup right[w]]
xor_assign(d, right) == [w \in DOMAIN d |-> (d[w] \cup right[w]) \ (d[w] \cap right[w])]

set_all(d)   == trim([w \in DOMAIN d |-> MaxWord])
reset_all(d) == NoBits
flip_all(d)  == trim([w \in DOMAIN d |-> MaxWord \ d[w]])

(* operator<<=: whole words from the last one down, then bits. *)
shift_left(d, pos) ==
  LET wordshift == pos \div BITS_PER_WORD
      n == pos % BITS_PER_WORD
      words == Iterate(WORD_COUNT + 1, d, LAMBDA x, k :
        LET w == WORD_COUNT - k IN
        [x EXCEPT ![w] = IF wordshift <= w THEN x[w - wordshift] ELSE {}])
      moved == Iterate(WORD_COUNT, words, LAMBDA x, k :
        LET w == WORD_COUNT - k IN
        [x EXCEPT ![w] = shl(x[w], n) \cup shr(x[w - 1], BITS_PER_WORD - n)])
  IN  trim(IF n = 0 THEN words ELSE [moved EXCEPT ![0] = shl(@, n)])

(* operator>>=: whole words from the first one up, then bits. *)
shift_right(d, pos) ==
  LET wordshift == pos \div BITS_PER_WORD
      n == pos % BITS_PER_WORD
      words == Iterate(WORD_COUNT + 1, d, LAMBDA x, w :
        [x EXCEPT ![w] = IF wordshift <= WORD_COUNT - w THEN x[w + wordshift] ELSE {}])
      moved == Iterate(WORD_COUNT, words, LAMBDA x, w :
        [x EXCEPT ![w] = shr(x[w], n) \cup shl(x[w + 1], BITS_PER_WORD - n)])
  IN  IF n = 0 THEN words ELSE [moved EXCEPT ![WORD_COUNT] = shr(@, n)]

-----------------------------------------------------------------------------
any(d) == \E w \in DOMAIN d : d[w] # {}

all(d) ==
  LET NoPadding == BIT_COUNT % BITS_PER_WORD = 0
      last == IF NoPadding THEN WORD_COUNT ELSE WORD_COUNT - 1
  IN  \/ BIT_COUNT = 0
      \/ /\ \A w \in 0 .. last : d[w] = MaxWord
         /\ NoPadding \/ d[WORD_COUNT] = Ones(BIT_COUNT % BITS_PER_WORD)

count(d) == Cardinality({p \in (DOMAIN d) \X MaxWord : p[2] \in d[p[1]]})

(* to_ullong fails when a word behind the first is not zero; its result is *)
(* the first word.                                                         *)
Representable(d) == \A w \in 1 .. WORD_COUNT : d[w] = {}
to_ullong(d) == d[0]

(* to_ulong checks that and, in a bitset of more than NARROW bits, also    *)
(* that the first word is at most ULONG_MAX; its result is a               *)
(* std::uint32_t.                                                          *)
FitsUlong(d) ==
  \/ BIT_COUNT <= NARROW
  \/ (\A w \in 1 .. WORD_COUNT : d[w] = {}) /\ d[0] \subseteq Ones(ULONG_BITS)
to_ulong(d) == d[0] \cap Ones(NARROW)

(* to_string: the last bit comes first. *)
to_string(d) == [k \in 1 .. BIT_COUNT |-> subscript_unchecked(d, BIT_COUNT - k)]

-----------------------------------------------------------------------------
(* FixedBitset(std::uint64_t val): masked only when the word is narrower   *)
(* than val.                                                               *)
from_integer(val) ==
  [NoBits EXCEPT ![0] = IF BIT_COUNT <= NARROW THEN val \cap Ones(BIT_COUNT) ELSE val]

(* construct: the first BIT_COUNT of the characters; the last of these is  *)
(* bit 0.  Every other character must be elem0 or elem1 as well.           *)
construct(chars) ==
  LET used == IF Len(chars) > BIT_COUNT THEN BIT_COUNT ELSE Len(chars)
  IN  [w \in 0 .. WORD_COUNT |->
         {b \in MaxWord : LET k == w * BITS_PER_WORD + b IN
                            k < used /\ chars[used - k] = "elem1"}]

ValidChars(chars) == \A k \in 1 .. Len(chars) : chars[k] \in {"elem0", "elem1"}

-----------------------------------------------------------------------------
(* The positions of the one bits. *)
Bits(d) == {p \in 0 .. BIT_COUNT - 1 : subscript_unchecked(d, p)}

(* No bit of the last word lies behind BIT_COUNT: what count(), all(),     *)
(* operator== and to_ullong() take for granted.                            *)
Trimmed(d) == \A w \in DOMAIN d : \A b \in d[w] : w * BITS_PER_WORD + b < BIT_COUNT
=============================================================================
