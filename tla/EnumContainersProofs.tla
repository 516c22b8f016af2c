------------------------ MODULE EnumContainersProofs ------------------------
(***************************************************************************)
(* Proofs about the containers whose size is fixed by their type, for      *)
(* every enumeration, every bit count and every width of a word: the words *)
(* of a FixedBitset agree with the set of its ones, an EnumMap or EnumSet  *)
(* keeps exactly the present values alive and is a sorted dictionary, and  *)
(* EnumArray's constructors put every value at its ordinal.                *)
(***************************************************************************)
EXTENDS EnumContainers, InductionLemmas, FiniteSetTheorems, SequenceTheorems

-----------------------------------------------------------------------------
(* Positions and words.  A position has one word and one bit in it. *)
LEMMA DivMod ==
  ASSUME NEW n \in Nat \ {0}, NEW p \in Nat
  PROVE  /\ p \div n \in Nat /\ p % n \in 0 .. n - 1
         /\ (p \div n) * n + (p % n) = p
OBVIOUS

LEMMA DivModIsUnique ==
  ASSUME NEW n \in Nat \ {0}, NEW w \in Nat, NEW b \in 0 .. n - 1
  PROVE  (w * n + b) \div n = w /\ (w * n + b) % n = b
<1> DEFINE p == w * n + b
           q == p \div n
           r == p % n
<1>1. w * n \in Nat
  OBVIOUS
<1>2. p \in Nat
  BY <1>1
<1>3. q \in Nat /\ r \in 0 .. n - 1 /\ q * n + r = p
  BY <1>2, DivMod
<1> HIDE DEF q, r
<1>4. CASE q = w
  BY <1>3, <1>4 DEF q, r
<1>5. CASE q > w
  <2> DEFINE d == q - w - 1
  <2>1. d \in Nat /\ q = w + 1 + d
    BY <1>3, <1>5
  <2> HIDE DEF d
  <2>2. q * n = w * n + n + d * n /\ d * n \in Nat
    BY <2>1
  <2> QED  BY <1>1, <1>3, <2>2
<1>6. CASE q < w
  <2> DEFINE d == w - q - 1
  <2>1. d \in Nat /\ w = q + 1 + d
    BY <1>3, <1>6
  <2> HIDE DEF d
  <2>2. w * n = q * n + n + d * n /\ d * n \in Nat /\ q * n \in Nat
    BY <1>3, <2>1
  <2> QED  BY <1>3, <2>2
<1> QED  BY <1>3, <1>4, <1>5, <1>6

(* The words are enough for BIT_COUNT bits, and none is superfluous. *)
LEMMA WordSizes ==
  ASSUME build \in Instantiations
  PROVE  /\ BITS_PER_WORD \in Nat \ {0} /\ WORD_COUNT \in Nat /\ BIT_COUNT \in Nat
         /\ MaxWord = 0 .. BITS_PER_WORD - 1
         /\ BIT_COUNT = 0 => WORD_COUNT = 0
         /\ BIT_COUNT > 0 => WORD_COUNT * BITS_PER_WORD < BIT_COUNT
         /\ BIT_COUNT <= WORD_COUNT * BITS_PER_WORD + BITS_PER_WORD
<1>1. BIT_COUNT \in Nat
  BY InstantiationsAreTypes DEF BIT_COUNT
<1>2. BITS_PER_WORD \in Nat \ {0}
  BY NarrowWords DEF BITS_PER_WORD
<1>3. MaxWord = 0 .. BITS_PER_WORD - 1
  BY DEF MaxWord, Ones
<1>4. CASE BIT_COUNT = 0
  <2>1. WORD_COUNT = 0
    BY <1>4 DEF WORD_COUNT
  <2> QED  BY <1>1, <1>2, <1>3, <1>4, <2>1
<1>5. CASE BIT_COUNT # 0
  <2> DEFINE p == BIT_COUNT - 1
  <2>1. p \in Nat /\ WORD_COUNT = p \div BITS_PER_WORD /\ BIT_COUNT = p + 1
    BY <1>1, <1>5 DEF WORD_COUNT
  <2> HIDE DEF p
  <2>2. /\ WORD_COUNT \in Nat /\ p % BITS_PER_WORD \in 0 .. BITS_PER_WORD - 1
        /\ WORD_COUNT * BITS_PER_WORD + (p % BITS_PER_WORD) = p
    BY <1>2, <2>1, DivMod
  <2>3. WORD_COUNT * BITS_PER_WORD \in Nat
    BY <1>2, <2>2
  <2> QED  BY <1>1, <1>2, <1>3, <1>5, <2>1, <2>2, <2>3
<1> QED  BY <1>4, <1>5

(* A bit of a word is one position, and every position is one. *)
LEMMA PositionOfBit ==
  ASSUME build \in Instantiations, NEW w \in Nat, NEW b \in MaxWord
  PROVE  LET p == w * BITS_PER_WORD + b IN
         p \in Nat /\ p \div BITS_PER_WORD = w /\ p % BITS_PER_WORD = b
<1>1. BITS_PER_WORD \in Nat \ {0} /\ b \in 0 .. BITS_PER_WORD - 1
  BY WordSizes
<1>2. w * BITS_PER_WORD \in Nat
  BY <1>1
<1> QED  BY <1>1, <1>2, DivModIsUnique

LEMMA BitOfPosition ==
  ASSUME build \in Instantiations, NEW p \in Nat
  PROVE  LET w == p \div BITS_PER_WORD b == p % BITS_PER_WORD IN
         /\ w \in Nat /\ b \in MaxWord /\ w * BITS_PER_WORD + b = p
         /\ p < BIT_COUNT => w \in 0 .. WORD_COUNT
<1> DEFINE w == p \div BITS_PER_WORD
           b == p % BITS_PER_WORD
<1>1. /\ BITS_PER_WORD \in Nat \ {0} /\ WORD_COUNT \in Nat /\ BIT_COUNT \in Nat
      /\ MaxWord = 0 .. BITS_PER_WORD - 1
      /\ BIT_COUNT <= WORD_COUNT * BITS_PER_WORD + BITS_PER_WORD
  BY WordSizes
<1>2. w \in Nat /\ b \in 0 .. BITS_PER_WORD - 1 /\ w * BITS_PER_WORD + b = p
  BY <1>1, DivMod
<1> HIDE DEF w, b
<1>3. ASSUME p < BIT_COUNT PROVE w <= WORD_COUNT
  <2> SUFFICES ASSUME w > WORD_COUNT PROVE FALSE
    BY <1>1, <1>2
  <2> DEFINE d == w - WORD_COUNT - 1
  <2>1. d \in Nat /\ w = WORD_COUNT + 1 + d
    BY <1>1, <1>2
  <2> HIDE DEF d
  <2>2. /\ w * BITS_PER_WORD = WORD_COUNT * BITS_PER_WORD + BITS_PER_WORD + d * BITS_PER_WORD
        /\ d * BITS_PER_WORD \in Nat /\ WORD_COUNT * BITS_PER_WORD \in Nat
    BY <1>1, <2>1
  <2> QED  BY <1>1, <1>2, <1>3, <2>2
<1> QED  BY <1>1, <1>2, <1>3 DEF w, b

-----------------------------------------------------------------------------
(* A bitset without bits behind BIT_COUNT. *)
GoodBits(d) == d \in Bitsets /\ Trimmed(d)

(* Its ones are the positions of its bits. *)
LEMMA BitsOfWords ==
  ASSUME build \in Instantiations, NEW d, GoodBits(d)
  PROVE  /\ \A w \in 0 .. WORD_COUNT, b \in MaxWord :
              b \in d[w] <=> w * BITS_PER_WORD + b \in Bits(d)
         /\ \A w \in 0 .. WORD_COUNT : d[w] \subseteq MaxWord
         /\ DOMAIN d = 0 .. WORD_COUNT
         /\ \A p \in Bits(d) : p \in Nat /\ p < BIT_COUNT
<1>1. d \in [0 .. WORD_COUNT -> SUBSET MaxWord] /\ BIT_COUNT \in Nat /\ WORD_COUNT \in Nat
  BY WordSizes DEF GoodBits, Bitsets
<1>2. ASSUME NEW w \in 0 .. WORD_COUNT, NEW b \in MaxWord
      PROVE  b \in d[w] <=> w * BITS_PER_WORD + b \in Bits(d)
  <2> DEFINE p == w * BITS_PER_WORD + b
  <2>1. p \in Nat /\ p \div BITS_PER_WORD = w /\ p % BITS_PER_WORD = b
    BY <1>1, PositionOfBit
  <2>2. b \in d[w] => p < BIT_COUNT
    BY <1>1 DEF GoodBits, Trimmed
  <2> HIDE DEF p
  <2>3. p \in Bits(d) <=> p < BIT_COUNT /\ b \in d[w]
    BY <1>1, <2>1 DEF Bits, subscript_unchecked
  <2> QED  BY <2>2, <2>3 DEF p
<1>3. \A p \in Bits(d) : p \in Nat /\ p < BIT_COUNT
  BY <1>1 DEF Bits
<1> QED  BY <1>1, <1>2, <1>3

(* Equal words and equal ones are the same. *)
LEMMA BitsAreWords ==
  ASSUME build \in Instantiations, NEW d, GoodBits(d), NEW e, GoodBits(e), Bits(d) = Bits(e)
  PROVE  d = e
<1>1. d \in [0 .. WORD_COUNT -> SUBSET MaxWord] /\ e \in [0 .. WORD_COUNT -> SUBSET MaxWord]
  BY DEF GoodBits, Bitsets
<1>2. \A w \in 0 .. WORD_COUNT, b \in MaxWord : b \in d[w] <=> b \in e[w]
  BY BitsOfWords
<1>3. \A w \in 0 .. WORD_COUNT : d[w] = e[w]
  BY <1>1, <1>2
<1>4. d = [w \in 0 .. WORD_COUNT |-> d[w]] /\ e = [w \in 0 .. WORD_COUNT |-> e[w]]
  BY <1>1
<1>5. [w \in 0 .. WORD_COUNT |-> d[w]] = [w \in 0 .. WORD_COUNT |-> e[w]]
  BY <1>3
<1> QED  BY <1>4, <1>5

-----------------------------------------------------------------------------
(* What the queries say of the ones.  count() counts pairs of a word and a *)
(* bit.                                                                    *)
LEMMA CountIsExact ==
  ASSUME build \in Instantiations, NEW d, GoodBits(d)
  PROVE  count(d) = Cardinality(Bits(d))
<1> DEFINE S == Bits(d)
           P == {p \in (DOMAIN d) \X MaxWord : p[2] \in d[p[1]]}
           f == [p \in S |-> <<p \div BITS_PER_WORD, p % BITS_PER_WORD>>]
<1>1. BIT_COUNT \in Nat /\ DOMAIN d = 0 .. WORD_COUNT /\ WORD_COUNT \in Nat
  BY WordSizes, BitsOfWords
<1>2. \A p \in S : /\ p \in Nat /\ p \div BITS_PER_WORD \in 0 .. WORD_COUNT
                   /\ p % BITS_PER_WORD \in MaxWord
                   /\ (p \div BITS_PER_WORD) * BITS_PER_WORD + (p % BITS_PER_WORD) = p
  BY BitOfPosition, BitsOfWords
<1>3. \A p \in S : p % BITS_PER_WORD \in d[p \div BITS_PER_WORD]
  BY DEF Bits, subscript_unchecked
<1>4. f \in [S -> P]
  BY <1>1, <1>2, <1>3
<1>5. \A p, q \in S : f[p] = f[q] => p = q
  BY <1>2
<1>6. \A x \in P : \E p \in S : f[p] = x
  <2> SUFFICES ASSUME NEW x \in P PROVE \E p \in S : f[p] = x
    OBVIOUS
  <2> DEFINE w == x[1]
             b == x[2]
             p == w * BITS_PER_WORD + b
  <2>1. w \in 0 .. WORD_COUNT /\ w \in Nat /\ b \in MaxWord /\ b \in d[w] /\ x = <<w, b>>
    BY <1>1
  <2> HIDE DEF w, b
  <2>2. p \div BITS_PER_WORD = w /\ p % BITS_PER_WORD = b
    BY <2>1, PositionOfBit
  <2>3. p \in S
    BY <2>1, BitsOfWords
  <2> HIDE DEF p, S
  <2>4. f[p] = <<w, b>>
    BY <2>2, <2>3
  <2> QED  BY <2>1, <2>3, <2>4
<1> HIDE DEF f, P
<1>7. f \in Bijection(S, P)
  BY <1>4, <1>5, <1>6 DEF Bijection, Injection, Surjection, IsInjective
<1>8. IsFiniteSet(S)
  <2>1. IsFiniteSet(0 .. BIT_COUNT - 1)
    BY <1>1, FS_Interval
  <2>2. S \subseteq 0 .. BIT_COUNT - 1
    BY DEF Bits
  <2> QED  BY <2>1, <2>2, FS_Subset
<1>9. Cardinality(P) = Cardinality(S)
  BY <1>7, <1>8, FS_Bijection DEF ExistsBijection
<1> QED  BY <1>9 DEF count, P

LEMMA AnyIsExact ==
  ASSUME build \in Instantiations, NEW d, GoodBits(d)
  PROVE  any(d) <=> Bits(d) # {}
<1>1. /\ DOMAIN d = 0 .. WORD_COUNT /\ \A w \in 0 .. WORD_COUNT : d[w] \subseteq MaxWord
      /\ \A w \in 0 .. WORD_COUNT, b \in MaxWord :
           b \in d[w] <=> w * BITS_PER_WORD + b \in Bits(d)
  BY BitsOfWords
<1>2. ASSUME any(d) PROVE Bits(d) # {}
  <2>1. PICK w \in 0 .. WORD_COUNT : d[w] # {}
    BY <1>1, <1>2 DEF any
  <2>2. PICK b \in MaxWord : b \in d[w]
    BY <1>1, <2>1
  <2> QED  BY <1>1, <2>2
<1>3. ASSUME Bits(d) # {} PROVE any(d)
  <2>1. PICK p \in Bits(d) : TRUE
    BY <1>3
  <2>2. p \in Nat /\ p \div BITS_PER_WORD \in 0 .. WORD_COUNT
    BY BitOfPosition, BitsOfWords
  <2>3. p % BITS_PER_WORD \in d[p \div BITS_PER_WORD]
    BY DEF Bits, subscript_unchecked
  <2> QED  BY <1>1, <2>2, <2>3 DEF any
<1> QED  BY <1>2, <1>3

(* How many bits of the last word are in use. *)
LEMMA LastWord ==
  ASSUME build \in Instantiations, BIT_COUNT > 0
  PROVE  LET r == BIT_COUNT % BITS_PER_WORD IN
         /\ r = 0 => BIT_COUNT = WORD_COUNT * BITS_PER_WORD + BITS_PER_WORD
         /\ r # 0 => r \in MaxWord /\ BIT_COUNT = WORD_COUNT * BITS_PER_WORD + r
<1>1. /\ BITS_PER_WORD \in Nat \ {0} /\ WORD_COUNT \in Nat /\ BIT_COUNT \in Nat
      /\ MaxWord = 0 .. BITS_PER_WORD - 1
      /\ WORD_COUNT * BITS_PER_WORD < BIT_COUNT
      /\ BIT_COUNT <= WORD_COUNT * BITS_PER_WORD + BITS_PER_WORD
  BY WordSizes
<1>2. CASE BIT_COUNT = WORD_COUNT * BITS_PER_WORD + BITS_PER_WORD
  <2>1. WORD_COUNT + 1 \in Nat /\ 0 \in MaxWord
        /\ (WORD_COUNT + 1) * BITS_PER_WORD + 0 = BIT_COUNT
    BY <1>1, <1>2
  <2>2. BIT_COUNT % BITS_PER_WORD = 0
    BY <2>1, PositionOfBit
  <2> QED  BY <1>2, <2>2
<1>3. CASE BIT_COUNT # WORD_COUNT * BITS_PER_WORD + BITS_PER_WORD
  <2> DEFINE b == BIT_COUNT - WORD_COUNT * BITS_PER_WORD
  <2>1. b \in MaxWord /\ b # 0 /\ WORD_COUNT * BITS_PER_WORD + b = BIT_COUNT
    <3>1. WORD_COUNT * BITS_PER_WORD \in Nat
      BY <1>1
    <3> QED  BY <1>1, <1>3, <3>1
  <2> HIDE DEF b
  <2>2. BIT_COUNT % BITS_PER_WORD = b
    BY <1>1, <2>1, PositionOfBit
  <2> QED  BY <2>1, <2>2
<1> QED  BY <1>2, <1>3

(* Which bits are positions of the bitset. *)
LEMMA UsedBits ==
  ASSUME build \in Instantiations, BIT_COUNT > 0, NEW w \in 0 .. WORD_COUNT, NEW b \in MaxWord
  PROVE  LET r == BIT_COUNT % BITS_PER_WORD IN
         w * BITS_PER_WORD + b < BIT_COUNT <=> w # WORD_COUNT \/ r = 0 \/ b \in Ones(r)
<1> DEFINE r == BIT_COUNT % BITS_PER_WORD
           n == BITS_PER_WORD
<1>1. /\ n \in Nat \ {0} /\ WORD_COUNT \in Nat /\ BIT_COUNT \in Nat /\ b \in 0 .. n - 1
      /\ WORD_COUNT * n < BIT_COUNT
      /\ MaxWord = 0 .. n - 1
  BY WordSizes
<1>2. /\ r = 0 => BIT_COUNT = WORD_COUNT * n + n
      /\ r # 0 => r \in 0 .. n - 1 /\ BIT_COUNT = WORD_COUNT * n + r
  BY <1>1, LastWord
<1>3. b \in Ones(r) <=> b < r
  BY <1>1, <1>2 DEF Ones
<1> HIDE DEF n, r
<1>4. CASE w = WORD_COUNT
  <2>1. WORD_COUNT * n \in Nat
    BY <1>1
  <2>2. r = 0 \/ r # 0
    OBVIOUS
  <2>3. CASE r = 0
    BY <1>1, <1>2, <1>4, <2>1, <2>3 DEF n, r
  <2>4. CASE r # 0
    <3>1. WORD_COUNT * n + b < BIT_COUNT <=> b < r
      BY <1>1, <1>2, <2>1, <2>4
    <3> QED  BY <1>3, <1>4, <2>4, <3>1 DEF n, r
  <2> QED  BY <2>3, <2>4
<1>5. CASE w # WORD_COUNT
  <2> DEFINE d == WORD_COUNT - w - 1
  <2>1. d \in Nat /\ WORD_COUNT = w + 1 + d /\ w \in Nat
    BY <1>1, <1>5
  <2> HIDE DEF d
  <2>2. WORD_COUNT * n = w * n + n + d * n /\ d * n \in Nat /\ w * n \in Nat
    BY <1>1, <2>1
  <2>3. w * n + b < BIT_COUNT
    BY <1>1, <2>2
  <2> QED  BY <1>5, <2>3 DEF n
<1> QED  BY <1>4, <1>5

LEMMA AllIsExact ==
  ASSUME build \in Instantiations, NEW d, GoodBits(d)
  PROVE  all(d) <=> Bits(d) = 0 .. BIT_COUNT - 1
<1> DEFINE r == BIT_COUNT % BITS_PER_WORD
<1>1. /\ DOMAIN d = 0 .. WORD_COUNT /\ (\A w \in 0 .. WORD_COUNT : d[w] \subseteq MaxWord)
      /\ \A w \in 0 .. WORD_COUNT, b \in MaxWord :
           b \in d[w] <=> w * BITS_PER_WORD + b \in Bits(d)
      /\ \A p \in Bits(d) : p \in Nat /\ p < BIT_COUNT
  BY BitsOfWords
<1>2. BIT_COUNT \in Nat /\ WORD_COUNT \in Nat
  BY WordSizes
<1>3. CASE BIT_COUNT = 0
  <2>1. Bits(d) = 0 .. BIT_COUNT - 1
    BY <1>1, <1>2, <1>3
  <2> QED  BY <1>3, <2>1 DEF all
<1>4. CASE BIT_COUNT > 0
  <2>1. \A w \in 0 .. WORD_COUNT, b \in MaxWord :
          w * BITS_PER_WORD + b < BIT_COUNT <=> w # WORD_COUNT \/ r = 0 \/ b \in Ones(r)
    BY <1>4, UsedBits
  <2>2. r # 0 => r \in MaxWord
    BY <1>4, LastWord
  <2>3. r # 0 => Ones(r) \subseteq MaxWord
    <3>1. MaxWord = 0 .. BITS_PER_WORD - 1 /\ BITS_PER_WORD \in Nat
      BY WordSizes
    <3> QED  BY <2>2, <3>1 DEF Ones
  <2> HIDE DEF r
  <2>4. all(d) <=> \A w \in 0 .. WORD_COUNT :
                     d[w] = IF w # WORD_COUNT \/ r = 0 THEN MaxWord ELSE Ones(r)
    <3>1. \A w \in 0 .. WORD_COUNT : w # WORD_COUNT <=> w \in 0 .. WORD_COUNT - 1
      BY <1>2
    <3>2. WORD_COUNT \in 0 .. WORD_COUNT /\ 0 .. WORD_COUNT - 1 \subseteq 0 .. WORD_COUNT
      BY <1>2
    <3>3. all(d) <=> /\ \A w \in 0 .. (IF r = 0 THEN WORD_COUNT ELSE WORD_COUNT - 1) :
                          d[w] = MaxWord
                     /\ r = 0 \/ d[WORD_COUNT] = Ones(r)
      BY <1>2, <1>4 DEF all, r
    <3>4. CASE r = 0
      BY <3>3, <3>4
    <3>5. CASE r # 0
      <4>1. all(d) <=> (\A w \in 0 .. WORD_COUNT - 1 : d[w] = MaxWord) /\ d[WORD_COUNT] = Ones(r)
        BY <3>3, <3>5
      <4> QED  BY <3>1, <3>2, <3>5, <4>1
    <3> QED  BY <3>4, <3>5
  <2>5. ASSUME all(d) PROVE Bits(d) = 0 .. BIT_COUNT - 1
    <3>1. ASSUME NEW p \in 0 .. BIT_COUNT - 1 PROVE p \in Bits(d)
      <4> DEFINE w == p \div BITS_PER_WORD
                 b == p % BITS_PER_WORD
      <4>1. p \in Nat /\ p < BIT_COUNT
        BY <1>2
      <4>2. w \in 0 .. WORD_COUNT /\ b \in MaxWord /\ w * BITS_PER_WORD + b = p
        BY <4>1, BitOfPosition
      <4> HIDE DEF w, b
      <4>3. b \in d[w]
        BY <2>1, <2>4, <2>5, <4>1, <4>2
      <4> QED  BY <1>1, <4>2, <4>3
    <3>2. Bits(d) \subseteq 0 .. BIT_COUNT - 1
      BY DEF Bits
    <3> QED  BY <3>1, <3>2
  <2>6. ASSUME Bits(d) = 0 .. BIT_COUNT - 1 PROVE all(d)
    <3>1. ASSUME NEW w \in 0 .. WORD_COUNT
          PROVE  d[w] = IF w # WORD_COUNT \/ r = 0 THEN MaxWord ELSE Ones(r)
      <4>1. \A b \in MaxWord : w * BITS_PER_WORD + b \in Nat
        BY PositionOfBit
      <4>2. \A b \in MaxWord : b \in d[w] <=> w * BITS_PER_WORD + b < BIT_COUNT
        BY <1>1, <1>2, <2>6, <4>1
      <4>3. \A b \in MaxWord : b \in d[w] <=> w # WORD_COUNT \/ r = 0 \/ b \in Ones(r)
        BY <2>1, <4>2
      <4> QED  BY <1>1, <2>3, <4>3
    <3> QED  BY <2>4, <3>1
  <2> QED  BY <2>5, <2>6
<1> QED  BY <1>2, <1>3, <1>4

LEMMA ToUllongIsExact ==
  ASSUME build \in Instantiations, NEW d, GoodBits(d)
  PROVE  Representable(d) <=> to_ullong(d) = Bits(d)
<1>1. /\ (\A w \in 0 .. WORD_COUNT : d[w] \subseteq MaxWord)
      /\ \A w \in 0 .. WORD_COUNT, b \in MaxWord :
           b \in d[w] <=> w * BITS_PER_WORD + b \in Bits(d)
      /\ \A p \in Bits(d) : p \in Nat /\ p < BIT_COUNT
  BY BitsOfWords
<1>2. WORD_COUNT \in Nat /\ BITS_PER_WORD \in Nat \ {0} /\ MaxWord = 0 .. BITS_PER_WORD - 1
  BY WordSizes
<1>3. /\ 0 \in 0 .. WORD_COUNT
      /\ \A w \in 0 .. WORD_COUNT : w = 0 \/ (w # 0 /\ w \in 1 .. WORD_COUNT)
      /\ \A b \in MaxWord : 0 * BITS_PER_WORD + b = b
  BY <1>2
<1>4. \A w \in 1 .. WORD_COUNT, b \in MaxWord :
        w \in 0 .. WORD_COUNT /\ w * BITS_PER_WORD + b \notin MaxWord
  <2> SUFFICES ASSUME NEW w \in 1 .. WORD_COUNT, NEW b \in MaxWord
               PROVE  w \in 0 .. WORD_COUNT /\ w * BITS_PER_WORD + b \notin MaxWord
    OBVIOUS
  <2> DEFINE k == w - 1
  <2>1. k \in Nat /\ w = 1 + k
    BY <1>2
  <2> HIDE DEF k
  <2>2. w * BITS_PER_WORD = BITS_PER_WORD + k * BITS_PER_WORD /\ k * BITS_PER_WORD \in Nat
    BY <1>2, <2>1
  <2>3. w * BITS_PER_WORD + b \notin 0 .. BITS_PER_WORD - 1
    BY <1>2, <2>2
  <2> QED  BY <1>2, <2>3
<1>5. \A b \in MaxWord : b \in d[0] <=> b \in Bits(d)
  BY <1>1, <1>3
<1>6. ASSUME Representable(d) PROVE to_ullong(d) = Bits(d)
  <2>1. ASSUME NEW p \in Bits(d) PROVE p \in d[0]
    <3> DEFINE w == p \div BITS_PER_WORD
               b == p % BITS_PER_WORD
    <3>1. w \in 0 .. WORD_COUNT /\ b \in MaxWord /\ w * BITS_PER_WORD + b = p
      BY <1>1, BitOfPosition
    <3> HIDE DEF w, b
    <3>2. b \in d[w]
      BY <1>1, <3>1
    <3>3. w = 0
      BY <1>3, <1>6, <3>1, <3>2 DEF Representable
    <3> QED  BY <1>3, <3>1, <3>2, <3>3
  <2>2. d[0] \subseteq MaxWord
    BY <1>1, <1>3
  <2> QED  BY <1>5, <2>1, <2>2 DEF to_ullong
<1>7. ASSUME to_ullong(d) = Bits(d) PROVE Representable(d)
  <2>1. Bits(d) \subseteq MaxWord
    BY <1>1, <1>3, <1>7 DEF to_ullong
  <2>2. \A w \in 1 .. WORD_COUNT, b \in MaxWord : b \notin d[w]
    BY <1>1, <1>4, <2>1
  <2> QED  BY <1>1, <1>4, <2>2 DEF Representable
<1> QED  BY <1>6, <1>7

(* to_ulong fails exactly when the number exceeds ULONG_MAX. *)
LEMMA UlongChecksAreExact ==
  ASSUME build \in Instantiations, NEW d, GoodBits(d)
  PROVE  FitsUlong(d) <=> Bits(d) \subseteq Ones(ULONG_BITS)
<1>1. /\ \A w \in 0 .. WORD_COUNT, b \in MaxWord :
           b \in d[w] <=> w * BITS_PER_WORD + b \in Bits(d)
      /\ \A w \in 0 .. WORD_COUNT : d[w] \subseteq MaxWord
      /\ \A p \in Bits(d) : p \in Nat /\ p < BIT_COUNT
  BY BitsOfWords
<1>2. /\ WORD_COUNT \in Nat /\ BITS_PER_WORD \in Nat \ {0}
      /\ MaxWord = 0 .. BITS_PER_WORD - 1 /\ BIT_COUNT \in Nat
  BY WordSizes
<1>3. NARROW \in Nat /\ ULONG_BITS \in Nat /\ NARROW <= ULONG_BITS /\ ULONG_BITS <= 2 * NARROW
  BY NarrowWords
<1>4. CASE BIT_COUNT <= NARROW
  BY <1>1, <1>2, <1>3, <1>4 DEF FitsUlong, Ones
<1>5. CASE ~(BIT_COUNT <= NARROW)
  <2>1. BITS_PER_WORD = 2 * NARROW
    BY <1>5 DEF BITS_PER_WORD
  <2>2. FitsUlong(d) <=> Representable(d) /\ d[0] \subseteq Ones(ULONG_BITS)
    BY <1>5 DEF FitsUlong, Representable
  <2>3. CASE Representable(d)
    <3>1. Bits(d) = d[0]
      BY <2>3, ToUllongIsExact DEF to_ullong
    <3> QED  BY <2>2, <2>3, <3>1
  <2>4. CASE ~Representable(d)
    <3>1. PICK w \in 1 .. WORD_COUNT : d[w] # {}
      BY <2>4 DEF Representable
    <3>2. PICK b \in MaxWord : b \in d[w]
      BY <1>1, <1>2, <3>1
    <3> DEFINE k == w - 1
    <3>3. k \in Nat /\ w = 1 + k /\ w \in 0 .. WORD_COUNT
      BY <1>2
    <3> HIDE DEF k
    <3>4. w * BITS_PER_WORD = BITS_PER_WORD + k * BITS_PER_WORD /\ k * BITS_PER_WORD \in Nat
      BY <1>2, <3>3
    <3>5. w * BITS_PER_WORD + b \in Bits(d)
      BY <1>1, <3>2, <3>3
    <3>6. w * BITS_PER_WORD + b \notin Ones(ULONG_BITS)
      <4>1. w * BITS_PER_WORD + b >= ULONG_BITS
        BY <1>2, <1>3, <2>1, <3>4
      <4> QED  BY <1>3, <4>1 DEF Ones
    <3> QED  BY <2>2, <2>4, <3>5, <3>6
  <2> QED  BY <2>3, <2>4
<1> QED  BY <1>4, <1>5

(* The constructor from a string undoes to_string. *)
LEMMA StringsAreExact ==
  ASSUME build \in Instantiations, NEW d, GoodBits(d)
  PROVE  construct([k \in 1 .. BIT_COUNT |->
                      IF to_string(d)[k] THEN "elem1" ELSE "elem0"]) = d
<1> DEFINE chars == [k \in 1 .. BIT_COUNT |-> IF to_string(d)[k] THEN "elem1" ELSE "elem0"]
<1>1. BIT_COUNT \in Nat /\ d \in [0 .. WORD_COUNT -> SUBSET MaxWord]
  BY WordSizes DEF GoodBits, Bitsets
<1>2. Len(chars) = BIT_COUNT
  BY <1>1
<1>3. \A k \in 0 .. BIT_COUNT - 1 : BIT_COUNT - k \in 1 .. BIT_COUNT /\ BIT_COUNT - (BIT_COUNT - k) = k
  BY <1>1
<1>4. \A k \in 0 .. BIT_COUNT - 1 : chars[BIT_COUNT - k] = "elem1" <=> subscript_unchecked(d, k)
  <2> SUFFICES ASSUME NEW k \in 0 .. BIT_COUNT - 1
               PROVE  chars[BIT_COUNT - k] = "elem1" <=> subscript_unchecked(d, k)
    OBVIOUS
  <2>1. to_string(d)[BIT_COUNT - k] = subscript_unchecked(d, k)
    BY <1>3 DEF to_string
  <2>2. chars[BIT_COUNT - k] = IF to_string(d)[BIT_COUNT - k] THEN "elem1" ELSE "elem0"
    BY <1>3
  <2> QED  BY <2>1, <2>2
<1> HIDE DEF chars
<1>5. construct(chars) = [w \in 0 .. WORD_COUNT |->
        {b \in MaxWord : LET k == w * BITS_PER_WORD + b IN
                           k < BIT_COUNT /\ chars[BIT_COUNT - k] = "elem1"}]
  BY <1>1, <1>2 DEF construct
<1>6. ASSUME NEW w \in 0 .. WORD_COUNT
      PROVE  {b \in MaxWord : LET k == w * BITS_PER_WORD + b IN
                                k < BIT_COUNT /\ chars[BIT_COUNT - k] = "elem1"} = d[w]
  <2>1. \A b \in MaxWord : w * BITS_PER_WORD + b \in Nat
    BY PositionOfBit
  <2>2. \A b \in MaxWord : w * BITS_PER_WORD + b < BIT_COUNT =>
          w * BITS_PER_WORD + b \in 0 .. BIT_COUNT - 1
    BY <1>1, <2>1
  <2>3. \A b \in MaxWord : b \in d[w] <=> w * BITS_PER_WORD + b \in Bits(d)
    BY BitsOfWords
  <2>4. \A p \in Bits(d) : p < BIT_COUNT
    BY BitsOfWords
  <2>5. \A k \in 0 .. BIT_COUNT - 1 : k \in Bits(d) <=> subscript_unchecked(d, k)
    BY DEF Bits
  <2>6. \A b \in MaxWord : b \in d[w] <=>
          LET k == w * BITS_PER_WORD + b IN k < BIT_COUNT /\ chars[BIT_COUNT - k] = "elem1"
    BY <1>4, <2>2, <2>3, <2>4, <2>5
  <2> QED  BY <1>1, <2>6
<1>7. d = [w \in 0 .. WORD_COUNT |-> d[w]]
  BY <1>1
<1>8. construct(chars) = d
  BY <1>5, <1>6, <1>7
<1> QED  BY <1>8 DEF chars

-----------------------------------------------------------------------------
(* What the operations do to the ones.  trim() clears what lies behind     *)
(* BIT_COUNT and nothing else.                                             *)
LEMMA TrimIsGood ==
  ASSUME build \in Instantiations, NEW d \in Bitsets
  PROVE  GoodBits(trim(d)) /\ Bits(trim(d)) = Bits(d)
<1> DEFINE r == BIT_COUNT % BITS_PER_WORD
           t == trim(d)
<1>1. /\ WORD_COUNT \in Nat /\ BIT_COUNT \in Nat /\ BITS_PER_WORD \in Nat \ {0}
      /\ d \in [0 .. WORD_COUNT -> SUBSET MaxWord] /\ WORD_COUNT \in 0 .. WORD_COUNT
      /\ MaxWord = 0 .. BITS_PER_WORD - 1 /\ (BIT_COUNT = 0 => WORD_COUNT = 0)
  BY WordSizes DEF Bitsets
<1>2. /\ t \in [0 .. WORD_COUNT -> SUBSET MaxWord]
      /\ \A w \in 0 .. WORD_COUNT :
           t[w] = IF w = WORD_COUNT /\ (BIT_COUNT = 0 \/ r # 0) THEN d[w] \cap Ones(r) ELSE d[w]
  BY <1>1 DEF trim
<1> HIDE DEF t
<1>3. CASE BIT_COUNT = 0
  <2>1. r = 0
    BY <1>1, <1>3
  <2>2. Ones(r) = {} /\ 0 .. WORD_COUNT = {WORD_COUNT}
    BY <1>1, <1>3, <2>1 DEF Ones
  <2> HIDE DEF r
  <2>3. \A w \in DOMAIN t : t[w] = {}
    BY <1>2, <1>3, <2>2
  <2>4. Trimmed(t)
    BY <2>3 DEF Trimmed
  <2>5. Bits(t) = {} /\ Bits(d) = {}
    BY <1>3 DEF Bits
  <2> QED  BY <1>2, <2>4, <2>5 DEF t, GoodBits, Bitsets
<1>4. CASE BIT_COUNT > 0
  <2>1. \A w \in 0 .. WORD_COUNT, b \in MaxWord :
          w * BITS_PER_WORD + b < BIT_COUNT <=> w # WORD_COUNT \/ r = 0 \/ b \in Ones(r)
    BY <1>4, UsedBits
  <2> HIDE DEF r
  <2>2. \A w \in 0 .. WORD_COUNT, b \in MaxWord :
          b \in t[w] <=> b \in d[w] /\ w * BITS_PER_WORD + b < BIT_COUNT
    <3>1. BIT_COUNT # 0
      BY <1>1, <1>4
    <3> QED  BY <1>2, <2>1, <3>1
  <2>3. Trimmed(t)
    BY <1>2, <2>2 DEF Trimmed
  <2>4. ASSUME NEW p \in 0 .. BIT_COUNT - 1
        PROVE  subscript_unchecked(t, p) <=> subscript_unchecked(d, p)
    <3> DEFINE w == p \div BITS_PER_WORD
               b == p % BITS_PER_WORD
    <3>1. w \in 0 .. WORD_COUNT /\ b \in MaxWord /\ w * BITS_PER_WORD + b = p /\ p < BIT_COUNT
      <4>1. p \in Nat /\ p < BIT_COUNT
        BY <1>1
      <4> QED  BY <4>1, BitOfPosition
    <3>2. b \in t[w] <=> b \in d[w]
      <4> HIDE DEF w, b
      <4> QED  BY <2>2, <3>1
    <3> QED  BY <3>2 DEF subscript_unchecked
  <2>5. Bits(t) = Bits(d)
    BY <2>4 DEF Bits
  <2> QED  BY <1>2, <2>3, <2>5 DEF t, GoodBits, Bitsets
<1> QED  BY <1>1, <1>3, <1>4

(* set_unchecked changes the one bit. *)
LEMMA SetBit ==
  ASSUME build \in Instantiations, NEW d, GoodBits(d), NEW pos \in 0 .. BIT_COUNT - 1,
         NEW val \in BOOLEAN
  PROVE  /\ GoodBits(set_unchecked(d, pos, val))
         /\ Bits(set_unchecked(d, pos, val)) =
              IF val THEN Bits(d) \cup {pos} ELSE Bits(d) \ {pos}
<1> DEFINE u == pos \div BITS_PER_WORD
           c == pos % BITS_PER_WORD
           t == set_unchecked(d, pos, val)
<1>1. /\ d \in [0 .. WORD_COUNT -> SUBSET MaxWord] /\ BIT_COUNT \in Nat
      /\ pos \in Nat /\ pos < BIT_COUNT /\ WORD_COUNT \in Nat
  BY WordSizes DEF GoodBits, Bitsets
<1>2. u \in 0 .. WORD_COUNT /\ c \in MaxWord /\ u * BITS_PER_WORD + c = pos /\ u \in Nat
  BY <1>1, BitOfPosition
<1>3. t = [d EXCEPT ![u] = IF val THEN @ \cup {c} ELSE @ \ {c}]
  BY DEF set_unchecked
<1> HIDE DEF u, c, t
<1>4. /\ t \in [0 .. WORD_COUNT -> SUBSET MaxWord]
      /\ \A w \in 0 .. WORD_COUNT, b \in MaxWord :
           b \in t[w] <=> IF w = u /\ b = c THEN val ELSE b \in d[w]
  BY <1>1, <1>2, <1>3
<1>5. \A w \in 0 .. WORD_COUNT, b \in MaxWord :
        w * BITS_PER_WORD + b = pos => w = u /\ b = c
  <2> SUFFICES ASSUME NEW w \in 0 .. WORD_COUNT, NEW b \in MaxWord,
                      w * BITS_PER_WORD + b = pos
               PROVE  w = u /\ b = c
    OBVIOUS
  <2>1. pos \div BITS_PER_WORD = w /\ pos % BITS_PER_WORD = b
    BY PositionOfBit
  <2> QED  BY <2>1 DEF u, c
<1>6. Trimmed(t)
  BY <1>1, <1>2, <1>4 DEF GoodBits, Trimmed
<1>7. GoodBits(t)
  BY <1>4, <1>6 DEF GoodBits, Bitsets
<1>8. Bits(t) = IF val THEN Bits(d) \cup {pos} ELSE Bits(d) \ {pos}
  <2>1. ASSUME NEW p \in 0 .. BIT_COUNT - 1
        PROVE  p \in Bits(t) <=> IF p = pos THEN val ELSE p \in Bits(d)
    <3> DEFINE w == p \div BITS_PER_WORD
               b == p % BITS_PER_WORD
    <3>1. w \in 0 .. WORD_COUNT /\ b \in MaxWord /\ w * BITS_PER_WORD + b = p
      <4>1. p \in Nat /\ p < BIT_COUNT
        BY <1>1
      <4> QED  BY <4>1, BitOfPosition
    <3> HIDE DEF w, b
    <3>2. p \in Bits(t) <=> b \in t[w]
      BY <1>7, <3>1, BitsOfWords
    <3>3. p \in Bits(d) <=> b \in d[w]
      BY <3>1, BitsOfWords
    <3>4. p = pos <=> w = u /\ b = c
      BY <1>2, <1>5, <3>1
    <3> QED  BY <1>4, <3>1, <3>2, <3>3, <3>4
  <2>2. Bits(t) \subseteq 0 .. BIT_COUNT - 1 /\ Bits(d) \subseteq 0 .. BIT_COUNT - 1
    BY DEF Bits
  <2> HIDE DEF t
  <2>3. CASE val
    BY <2>1, <2>2, <2>3
  <2>4. CASE ~val
    BY <2>1, <2>2, <2>4
  <2> QED  BY <2>3, <2>4
<1> QED  BY <1>7, <1>8 DEF t

(* The operations on whole bitsets leave nothing behind BIT_COUNT. *)
LEMMA WholeBitsets ==
  ASSUME build \in Instantiations, NEW d, GoodBits(d)
  PROVE  GoodBits(set_all(d)) /\ GoodBits(reset_all(d)) /\ GoodBits(flip_all(d))
<1>1. d \in [0 .. WORD_COUNT -> SUBSET MaxWord] /\ DOMAIN d = 0 .. WORD_COUNT
  BY DEF GoodBits, Bitsets
<1>2. /\ [w \in DOMAIN d |-> MaxWord] \in Bitsets
      /\ [w \in DOMAIN d |-> MaxWord \ d[w]] \in Bitsets
  BY <1>1 DEF Bitsets
<1>3. GoodBits(NoBits)
  BY DEF GoodBits, Bitsets, NoBits, Trimmed
<1> QED  BY <1>2, <1>3, TrimIsGood DEF set_all, flip_all, reset_all

LEMMA CombinedBitsets ==
  ASSUME build \in Instantiations, NEW d, GoodBits(d), NEW e, GoodBits(e)
  PROVE  GoodBits(and_assign(d, e)) /\ GoodBits(or_assign(d, e)) /\ GoodBits(xor_assign(d, e))
<1>1. /\ d \in [0 .. WORD_COUNT -> SUBSET MaxWord] /\ e \in [0 .. WORD_COUNT -> SUBSET MaxWord]
      /\ \A w \in 0 .. WORD_COUNT : \A b \in d[w] \cup e[w] : w * BITS_PER_WORD + b < BIT_COUNT
  BY DEF GoodBits, Bitsets, Trimmed
<1>2. GoodBits(and_assign(d, e))
  BY <1>1 DEF and_assign, GoodBits, Bitsets, Trimmed
<1>3. GoodBits(or_assign(d, e))
  BY <1>1 DEF or_assign, GoodBits, Bitsets, Trimmed
<1>4. GoodBits(xor_assign(d, e))
  BY <1>1 DEF xor_assign, GoodBits, Bitsets, Trimmed
<1> QED  BY <1>2, <1>3, <1>4

(* The constructors. *)
LEMMA IntegerFits ==
  ASSUME build \in Instantiations, NEW val \in SUBSET Ones(2 * NARROW),
         val \subseteq Ones(BIT_COUNT) \/ BIT_COUNT <= NARROW
  PROVE  GoodBits(from_integer(val))
<1> DEFINE v == IF BIT_COUNT <= NARROW THEN val \cap Ones(BIT_COUNT) ELSE val
           t == from_integer(val)
<1>1. WORD_COUNT \in Nat /\ BIT_COUNT \in Nat /\ NARROW \in Nat \ {0} /\ 0 \in 0 .. WORD_COUNT
  BY WordSizes, NarrowWords
<1>2. v \subseteq MaxWord /\ v \subseteq Ones(BIT_COUNT)
  BY <1>1 DEF MaxWord, Ones, BITS_PER_WORD
<1> HIDE DEF v
<1>3. t = [NoBits EXCEPT ![0] = v]
  BY DEF from_integer, v
<1> HIDE DEF t
<1>4. /\ t \in [0 .. WORD_COUNT -> SUBSET MaxWord]
      /\ \A w \in 0 .. WORD_COUNT : t[w] = IF w = 0 THEN v ELSE {}
  BY <1>1, <1>2, <1>3 DEF NoBits
<1>5. \A b \in v : b \in 0 .. BIT_COUNT - 1
  BY <1>2 DEF Ones
<1>6. \A b \in v : 0 * BITS_PER_WORD + b < BIT_COUNT
  <2>1. BITS_PER_WORD \in Nat
    BY WordSizes
  <2> QED  BY <1>1, <1>5, <2>1
<1>7. Trimmed(t)
  BY <1>4, <1>6 DEF Trimmed
<1> QED  BY <1>4, <1>7 DEF GoodBits, Bitsets, t

LEMMA StringFits ==
  ASSUME build \in Instantiations, NEW chars, Len(chars) \in Nat
  PROVE  GoodBits(construct(chars))
<1> DEFINE used == IF Len(chars) > BIT_COUNT THEN BIT_COUNT ELSE Len(chars)
<1>1. BIT_COUNT \in Nat
  BY WordSizes
<1>2. used \in Nat /\ used <= BIT_COUNT
  BY <1>1
<1>3. construct(chars) = [w \in 0 .. WORD_COUNT |->
         {b \in MaxWord : LET k == w * BITS_PER_WORD + b IN
                            k < used /\ chars[used - k] = "elem1"}]
  BY DEF construct
<1> HIDE DEF used
<1>4. \A w \in 0 .. WORD_COUNT, b \in MaxWord : w * BITS_PER_WORD + b \in Nat
  BY PositionOfBit, WordSizes
<1>5. \A w \in 0 .. WORD_COUNT, b \in MaxWord :
        w * BITS_PER_WORD + b < used => w * BITS_PER_WORD + b < BIT_COUNT
  BY <1>1, <1>2, <1>4
<1> QED  BY <1>3, <1>5 DEF GoodBits, Bitsets, Trimmed

-----------------------------------------------------------------------------
(* Shifts.  Which bit of which word, if any, a position is. *)
LEMMA BitAt ==
  ASSUME build \in Instantiations, NEW d, GoodBits(d), NEW u \in Int, NEW c \in MaxWord
  PROVE  u * BITS_PER_WORD + c \in Bits(d) <=> u \in 0 .. WORD_COUNT /\ c \in d[u]
<1> DEFINE p == u * BITS_PER_WORD + c
<1>1. /\ BITS_PER_WORD \in Nat \ {0} /\ c \in 0 .. BITS_PER_WORD - 1
  BY WordSizes
<1>2. ASSUME p \in Bits(d) PROVE u \in 0 .. WORD_COUNT
  <2>1. p \in Nat /\ p < BIT_COUNT
    BY <1>2, BitsOfWords
  <2>2. u \in Nat
    <3> SUFFICES ASSUME u < 0 PROVE FALSE
      OBVIOUS
    <3> DEFINE k == 0 - u - 1
    <3>1. k \in Nat /\ u = 0 - 1 - k
      OBVIOUS
    <3> HIDE DEF k
    <3>2. u * BITS_PER_WORD = 0 - BITS_PER_WORD - k * BITS_PER_WORD /\ k * BITS_PER_WORD \in Nat
      BY <1>1, <3>1
    <3> QED  BY <1>1, <2>1, <3>2
  <2>3. p \div BITS_PER_WORD = u
    BY <2>2, PositionOfBit
  <2> HIDE DEF p
  <2>4. p \div BITS_PER_WORD \in 0 .. WORD_COUNT
    BY <2>1, BitOfPosition
  <2> QED  BY <2>3, <2>4
<1>3. ASSUME u \in 0 .. WORD_COUNT PROVE p \in Bits(d) <=> c \in d[u]
  BY <1>3, BitsOfWords
<1> QED  BY <1>2, <1>3

(* The loop over whole words of operator<<= runs downwards, so that it     *)
(* reads words that it has not yet written.                                *)
LEMMA LeftWords ==
  ASSUME build \in Instantiations, NEW d \in Bitsets, NEW wordshift \in Nat
  PROVE  Iterate(WORD_COUNT + 1, d, LAMBDA x, k :
           LET w == WORD_COUNT - k IN
           [x EXCEPT ![w] = IF wordshift <= w THEN x[w - wordshift] ELSE {}])
         = [w \in 0 .. WORD_COUNT |-> IF wordshift <= w THEN d[w - wordshift] ELSE {}]
<1> DEFINE W == WORD_COUNT
           N == W + 1
           New(w) == IF wordshift <= w THEN d[w - wordshift] ELSE {}
           S(x, k) == LET w == W - k IN
                      [x EXCEPT ![w] = IF wordshift <= w THEN x[w - wordshift] ELSE {}]
           Body(f) == [k \in 0 .. N |-> IF k = 0 THEN d ELSE S(f[k - 1], k - 1)]
           loop == CHOOSE f : f = Body(f)
           X == [k \in 0 .. N |-> {x \in Bitsets :
                   \A w \in 0 .. W : x[w] = IF w > W - k THEN New(w) ELSE d[w]}]
           F == [k \in 1 .. N |-> [x \in X[k - 1] |-> S(x, k - 1)]]
<1>1. Iterate(WORD_COUNT + 1, d, LAMBDA x, k :
        LET w == WORD_COUNT - k IN
        [x EXCEPT ![w] = IF wordshift <= w THEN x[w - wordshift] ELSE {}]) = loop[N]
  BY DEF Iterate
<1>2. W \in Nat /\ N \in Nat
  <2>1. W \in Nat
    BY WordSizes
  <2> QED  BY <2>1
<1>3. d \in X[0]
  <2>1. 0 \in 0 .. N /\ \A w \in 0 .. W : ~(w > W - 0)
    BY <1>2
  <2> QED  BY <2>1
<1>4. ASSUME NEW k \in 1 .. N, NEW x \in X[k - 1] PROVE S(x, k - 1) \in X[k]
  <2> DEFINE v == W - (k - 1)
             y == S(x, k - 1)
             val == IF wordshift <= v THEN x[v - wordshift] ELSE {}
  <2>1. /\ k - 1 \in 0 .. N /\ k \in 0 .. N /\ v \in 0 .. W
        /\ (wordshift <= v => v - wordshift \in 0 .. W /\ ~(v - wordshift > W - (k - 1)))
        /\ \A w \in 0 .. W : w > W - k <=> w = v \/ w > W - (k - 1)
    BY <1>2
  <2>2. x \in [0 .. W -> SUBSET MaxWord]
        /\ \A w \in 0 .. W : x[w] = IF w > W - (k - 1) THEN New(w) ELSE d[w]
    BY <2>1 DEF Bitsets
  <2>3. val = New(v) /\ val \in SUBSET MaxWord
    BY <1>2, <2>1, <2>2
  <2>4. y = [x EXCEPT ![v] = val]
    OBVIOUS
  <2> HIDE DEF v, y, val, New
  <2>5. y \in [0 .. W -> SUBSET MaxWord] /\ \A w \in 0 .. W : y[w] = IF w = v THEN val ELSE x[w]
    BY <2>1, <2>2, <2>3, <2>4
  <2>6. \A w \in 0 .. W : y[w] = IF w > W - k THEN New(w) ELSE d[w]
    BY <2>1, <2>2, <2>3, <2>5
  <2> QED  BY <2>1, <2>5, <2>6 DEF y, Bitsets
<1> HIDE DEF S
<1>5. ASSUME NEW f, SolvesLoop(f, d, X, F, N) PROVE RunsLoop(loop, d, X, F, N)
  <2>1. \A k \in 1 .. N : \A x \in X[k - 1] : F[k][x] = S(x, k - 1)
    OBVIOUS
  <2>2. \A k \in 0 .. N : k # 0 <=> k \in 1 .. N
    BY <1>2
  <2>3. 0 \in 0 .. N /\ \A k \in 1 .. N : k \in 0 .. N /\ k - 1 \in 0 .. N
    BY <1>2
  <2> HIDE DEF X, F, N
  <2>4. f = Body(f)
    BY <1>5, <2>1, <2>2, <2>3 DEF SolvesLoop
  <2> HIDE DEF Body
  <2>5. loop = Body(loop)
    BY <2>4
  <2> HIDE DEF loop
  <2> USE DEF Body
  <2> QED  BY <2>1, <2>2, <2>3, <2>5 DEF RunsLoop
<1>6. loop[N] \in X[N]
  <2>1. \A k \in 1 .. N : \A x \in X[k - 1] : F[k][x] \in X[k]
    BY <1>4
  <2> HIDE DEF X, F, N, loop
  <2> QED  BY <1>2, <1>3, <1>5, <2>1, LoopEnds
<1> HIDE DEF loop
<1>7. /\ loop[N] \in [0 .. W -> SUBSET MaxWord]
      /\ \A w \in 0 .. W : loop[N][w] = New(w)
  <2>1. N \in 0 .. N /\ \A w \in 0 .. W : w > W - N
    BY <1>2
  <2> QED  BY <1>6, <2>1 DEF Bitsets
<1>8. loop[N] = [w \in 0 .. W |-> New(w)]
  BY <1>7
<1> QED  BY <1>1, <1>8

(* Its loop over bits brings in what the word below shifts out.            *)
LEMMA LeftBits ==
  ASSUME build \in Instantiations, NEW d \in Bitsets, NEW n \in Nat
  PROVE  Iterate(WORD_COUNT, d, LAMBDA x, k :
           LET w == WORD_COUNT - k IN
           [x EXCEPT ![w] = shl(x[w], n) \cup shr(x[w - 1], BITS_PER_WORD - n)])
         = [w \in 0 .. WORD_COUNT |-> IF w = 0 THEN d[0] ELSE
              shl(d[w], n) \cup shr(d[w - 1], BITS_PER_WORD - n)]
<1> DEFINE W == WORD_COUNT
           N == W
           New(w) == shl(d[w], n) \cup shr(d[w - 1], BITS_PER_WORD - n)
           S(x, k) == LET w == W - k IN
                      [x EXCEPT ![w] = shl(x[w], n) \cup shr(x[w - 1], BITS_PER_WORD - n)]
           Body(f) == [k \in 0 .. N |-> IF k = 0 THEN d ELSE S(f[k - 1], k - 1)]
           loop == CHOOSE f : f = Body(f)
           X == [k \in 0 .. N |-> {x \in Bitsets :
                   \A w \in 0 .. W : x[w] = IF w > W - k THEN New(w) ELSE d[w]}]
           F == [k \in 1 .. N |-> [x \in X[k - 1] |-> S(x, k - 1)]]
<1>1. Iterate(WORD_COUNT, d, LAMBDA x, k :
        LET w == WORD_COUNT - k IN
        [x EXCEPT ![w] = shl(x[w], n) \cup shr(x[w - 1], BITS_PER_WORD - n)]) = loop[N]
  BY DEF Iterate
<1>2. W \in Nat /\ N \in Nat
  <2>1. W \in Nat
    BY WordSizes
  <2> QED  BY <2>1
<1>3. d \in X[0]
  <2>1. 0 \in 0 .. N /\ \A w \in 0 .. W : ~(w > W - 0)
    BY <1>2
  <2> QED  BY <2>1
<1>4. ASSUME NEW k \in 1 .. N, NEW x \in X[k - 1] PROVE S(x, k - 1) \in X[k]
  <2> DEFINE v == W - (k - 1)
             y == S(x, k - 1)
             val == shl(x[v], n) \cup shr(x[v - 1], BITS_PER_WORD - n)
  <2>1. /\ k - 1 \in 0 .. N /\ k \in 0 .. N /\ v \in 0 .. W
        /\ ~(v > W - (k - 1)) /\ v - 1 \in 0 .. W /\ ~(v - 1 > W - (k - 1))
        /\ \A w \in 0 .. W : w > W - k <=> w = v \/ w > W - (k - 1)
    BY <1>2
  <2>2. x \in [0 .. W -> SUBSET MaxWord]
        /\ \A w \in 0 .. W : x[w] = IF w > W - (k - 1) THEN New(w) ELSE d[w]
    BY <2>1 DEF Bitsets
  <2>3. val = New(v) /\ val \in SUBSET MaxWord
    BY <1>2, <2>1, <2>2 DEF shl, shr
  <2>4. y = [x EXCEPT ![v] = val]
    OBVIOUS
  <2> HIDE DEF v, y, val, New
  <2>5. y \in [0 .. W -> SUBSET MaxWord] /\ \A w \in 0 .. W : y[w] = IF w = v THEN val ELSE x[w]
    BY <2>1, <2>2, <2>3, <2>4
  <2>6. \A w \in 0 .. W : y[w] = IF w > W - k THEN New(w) ELSE d[w]
    BY <2>1, <2>2, <2>3, <2>5
  <2> QED  BY <2>1, <2>5, <2>6 DEF y, Bitsets
<1> HIDE DEF S
<1>5. ASSUME NEW f, SolvesLoop(f, d, X, F, N) PROVE RunsLoop(loop, d, X, F, N)
  <2>1. \A k \in 1 .. N : \A x \in X[k - 1] : F[k][x] = S(x, k - 1)
    OBVIOUS
  <2>2. \A k \in 0 .. N : k # 0 <=> k \in 1 .. N
    BY <1>2
  <2>3. 0 \in 0 .. N /\ \A k \in 1 .. N : k \in 0 .. N /\ k - 1 \in 0 .. N
    BY <1>2
  <2> HIDE DEF X, F, N
  <2>4. f = Body(f)
    BY <1>5, <2>1, <2>2, <2>3 DEF SolvesLoop
  <2> HIDE DEF Body
  <2>5. loop = Body(loop)
    BY <2>4
  <2> HIDE DEF loop
  <2> USE DEF Body
  <2> QED  BY <2>1, <2>2, <2>3, <2>5 DEF RunsLoop
<1>6. loop[N] \in X[N]
  <2>1. \A k \in 1 .. N : \A x \in X[k - 1] : F[k][x] \in X[k]
    BY <1>4
  <2> HIDE DEF X, F, N, loop
  <2> QED  BY <1>2, <1>3, <1>5, <2>1, LoopEnds
<1> HIDE DEF loop
<1>7. /\ loop[N] \in [0 .. W -> SUBSET MaxWord]
      /\ \A w \in 0 .. W : loop[N][w] = IF w = 0 THEN d[0] ELSE New(w)
  <2>1. N \in 0 .. N /\ \A w \in 0 .. W : w > W - N <=> w # 0
    BY <1>2
  <2> QED  BY <1>6, <2>1 DEF Bitsets
<1>8. loop[N] = [w \in 0 .. W |-> IF w = 0 THEN d[0] ELSE New(w)]
  BY <1>7
<1> QED  BY <1>1, <1>8

(* operator>>= runs upwards, for the same reason.                          *)
LEMMA RightWords ==
  ASSUME build \in Instantiations, NEW d \in Bitsets, NEW wordshift \in Nat
  PROVE  Iterate(WORD_COUNT + 1, d, LAMBDA x, w :
           [x EXCEPT ![w] = IF wordshift <= WORD_COUNT - w THEN x[w + wordshift] ELSE {}])
         = [w \in 0 .. WORD_COUNT |-> IF wordshift <= WORD_COUNT - w THEN d[w + wordshift] ELSE {}]
<1> DEFINE W == WORD_COUNT
           N == W + 1
           New(w) == IF wordshift <= W - w THEN d[w + wordshift] ELSE {}
           S(x, w) == [x EXCEPT ![w] = IF wordshift <= W - w THEN x[w + wordshift] ELSE {}]
           Body(f) == [k \in 0 .. N |-> IF k = 0 THEN d ELSE S(f[k - 1], k - 1)]
           loop == CHOOSE f : f = Body(f)
           X == [k \in 0 .. N |-> {x \in Bitsets :
                   \A w \in 0 .. W : x[w] = IF w < k THEN New(w) ELSE d[w]}]
           F == [k \in 1 .. N |-> [x \in X[k - 1] |-> S(x, k - 1)]]
<1>1. Iterate(WORD_COUNT + 1, d, LAMBDA x, w :
        [x EXCEPT ![w] = IF wordshift <= WORD_COUNT - w THEN x[w + wordshift] ELSE {}]) = loop[N]
  BY DEF Iterate
<1>2. W \in Nat /\ N \in Nat
  <2>1. W \in Nat
    BY WordSizes
  <2> QED  BY <2>1
<1>3. d \in X[0]
  <2>1. 0 \in 0 .. N /\ \A w \in 0 .. W : ~(w < 0)
    BY <1>2
  <2> QED  BY <2>1
<1>4. ASSUME NEW k \in 1 .. N, NEW x \in X[k - 1] PROVE S(x, k - 1) \in X[k]
  <2> DEFINE v == k - 1
             y == S(x, k - 1)
             val == IF wordshift <= W - v THEN x[v + wordshift] ELSE {}
  <2>1. /\ k - 1 \in 0 .. N /\ k \in 0 .. N /\ v \in 0 .. W
        /\ (wordshift <= W - v => v + wordshift \in 0 .. W /\ ~(v + wordshift < k - 1))
        /\ \A w \in 0 .. W : w < k <=> w = v \/ w < k - 1
    BY <1>2
  <2>2. x \in [0 .. W -> SUBSET MaxWord]
        /\ \A w \in 0 .. W : x[w] = IF w < k - 1 THEN New(w) ELSE d[w]
    BY <2>1 DEF Bitsets
  <2>3. val = New(v) /\ val \in SUBSET MaxWord
    BY <1>2, <2>1, <2>2
  <2>4. y = [x EXCEPT ![v] = val]
    OBVIOUS
  <2> HIDE DEF v, y, val, New
  <2>5. y \in [0 .. W -> SUBSET MaxWord] /\ \A w \in 0 .. W : y[w] = IF w = v THEN val ELSE x[w]
    BY <2>1, <2>2, <2>3, <2>4
  <2>6. \A w \in 0 .. W : y[w] = IF w < k THEN New(w) ELSE d[w]
    BY <2>1, <2>2, <2>3, <2>5
  <2> QED  BY <2>1, <2>5, <2>6 DEF y, Bitsets
<1> HIDE DEF S
<1>5. ASSUME NEW f, SolvesLoop(f, d, X, F, N) PROVE RunsLoop(loop, d, X, F, N)
  <2>1. \A k \in 1 .. N : \A x \in X[k - 1] : F[k][x] = S(x, k - 1)
    OBVIOUS
  <2>2. \A k \in 0 .. N : k # 0 <=> k \in 1 .. N
    BY <1>2
  <2>3. 0 \in 0 .. N /\ \A k \in 1 .. N : k \in 0 .. N /\ k - 1 \in 0 .. N
    BY <1>2
  <2> HIDE DEF X, F, N
  <2>4. f = Body(f)
    BY <1>5, <2>1, <2>2, <2>3 DEF SolvesLoop
  <2> HIDE DEF Body
  <2>5. loop = Body(loop)
    BY <2>4
  <2> HIDE DEF loop
  <2> USE DEF Body
  <2> QED  BY <2>1, <2>2, <2>3, <2>5 DEF RunsLoop
<1>6. loop[N] \in X[N]
  <2>1. \A k \in 1 .. N : \A x \in X[k - 1] : F[k][x] \in X[k]
    BY <1>4
  <2> HIDE DEF X, F, N, loop
  <2> QED  BY <1>2, <1>3, <1>5, <2>1, LoopEnds
<1> HIDE DEF loop
<1>7. /\ loop[N] \in [0 .. W -> SUBSET MaxWord]
      /\ \A w \in 0 .. W : loop[N][w] = New(w)
  <2>1. N \in 0 .. N /\ \A w \in 0 .. W : w < N
    BY <1>2
  <2> QED  BY <1>6, <2>1 DEF Bitsets
<1>8. loop[N] = [w \in 0 .. W |-> New(w)]
  BY <1>7
<1> QED  BY <1>1, <1>8

(* Its loop over bits brings in what the word above shifts out.            *)
LEMMA RightBits ==
  ASSUME build \in Instantiations, NEW d \in Bitsets, NEW n \in Nat
  PROVE  Iterate(WORD_COUNT, d, LAMBDA x, w :
           [x EXCEPT ![w] = shr(x[w], n) \cup shl(x[w + 1], BITS_PER_WORD - n)])
         = [w \in 0 .. WORD_COUNT |-> IF w = WORD_COUNT THEN d[w] ELSE
              shr(d[w], n) \cup shl(d[w + 1], BITS_PER_WORD - n)]
<1> DEFINE W == WORD_COUNT
           N == W
           New(w) == shr(d[w], n) \cup shl(d[w + 1], BITS_PER_WORD - n)
           S(x, w) == [x EXCEPT ![w] = shr(x[w], n) \cup shl(x[w + 1], BITS_PER_WORD - n)]
           Body(f) == [k \in 0 .. N |-> IF k = 0 THEN d ELSE S(f[k - 1], k - 1)]
           loop == CHOOSE f : f = Body(f)
           X == [k \in 0 .. N |-> {x \in Bitsets :
                   \A w \in 0 .. W : x[w] = IF w < k THEN New(w) ELSE d[w]}]
           F == [k \in 1 .. N |-> [x \in X[k - 1] |-> S(x, k - 1)]]
<1>1. Iterate(WORD_COUNT, d, LAMBDA x, w :
        [x EXCEPT ![w] = shr(x[w], n) \cup shl(x[w + 1], BITS_PER_WORD - n)]) = loop[N]
  BY DEF Iterate
<1>2. W \in Nat /\ N \in Nat
  <2>1. W \in Nat
    BY WordSizes
  <2> QED  BY <2>1
<1>3. d \in X[0]
  <2>1. 0 \in 0 .. N /\ \A w \in 0 .. W : ~(w < 0)
    BY <1>2
  <2> QED  BY <2>1
<1>4. ASSUME NEW k \in 1 .. N, NEW x \in X[k - 1] PROVE S(x, k - 1) \in X[k]
  <2> DEFINE v == k - 1
             y == S(x, k - 1)
             val == shr(x[v], n) \cup shl(x[v + 1], BITS_PER_WORD - n)
  <2>1. /\ k - 1 \in 0 .. N /\ k \in 0 .. N /\ v \in 0 .. W
        /\ ~(v < k - 1) /\ v + 1 \in 0 .. W /\ ~(v + 1 < k - 1)
        /\ \A w \in 0 .. W : w < k <=> w = v \/ w < k - 1
    BY <1>2
  <2>2. x \in [0 .. W -> SUBSET MaxWord]
        /\ \A w \in 0 .. W : x[w] = IF w < k - 1 THEN New(w) ELSE d[w]
    BY <2>1 DEF Bitsets
  <2>3. val = New(v) /\ val \in SUBSET MaxWord
    BY <1>2, <2>1, <2>2 DEF shl, shr
  <2>4. y = [x EXCEPT ![v] = val]
    OBVIOUS
  <2> HIDE DEF v, y, val, New
  <2>5. y \in [0 .. W -> SUBSET MaxWord] /\ \A w \in 0 .. W : y[w] = IF w = v THEN val ELSE x[w]
    BY <2>1, <2>2, <2>3, <2>4
  <2>6. \A w \in 0 .. W : y[w] = IF w < k THEN New(w) ELSE d[w]
    BY <2>1, <2>2, <2>3, <2>5
  <2> QED  BY <2>1, <2>5, <2>6 DEF y, Bitsets
<1> HIDE DEF S
<1>5. ASSUME NEW f, SolvesLoop(f, d, X, F, N) PROVE RunsLoop(loop, d, X, F, N)
  <2>1. \A k \in 1 .. N : \A x \in X[k - 1] : F[k][x] = S(x, k - 1)
    OBVIOUS
  <2>2. \A k \in 0 .. N : k # 0 <=> k \in 1 .. N
    BY <1>2
  <2>3. 0 \in 0 .. N /\ \A k \in 1 .. N : k \in 0 .. N /\ k - 1 \in 0 .. N
    BY <1>2
  <2> HIDE DEF X, F, N
  <2>4. f = Body(f)
    BY <1>5, <2>1, <2>2, <2>3 DEF SolvesLoop
  <2> HIDE DEF Body
  <2>5. loop = Body(loop)
    BY <2>4
  <2> HIDE DEF loop
  <2> USE DEF Body
  <2> QED  BY <2>1, <2>2, <2>3, <2>5 DEF RunsLoop
<1>6. loop[N] \in X[N]
  <2>1. \A k \in 1 .. N : \A x \in X[k - 1] : F[k][x] \in X[k]
    BY <1>4
  <2> HIDE DEF X, F, N, loop
  <2> QED  BY <1>2, <1>3, <1>5, <2>1, LoopEnds
<1> HIDE DEF loop
<1>7. /\ loop[N] \in [0 .. W -> SUBSET MaxWord]
      /\ \A w \in 0 .. W : loop[N][w] = IF w = W THEN d[w] ELSE New(w)
  <2>1. N \in 0 .. N /\ \A w \in 0 .. W : w < N <=> w # W
    BY <1>2
  <2> QED  BY <1>6, <2>1 DEF Bitsets
<1>8. loop[N] = [w \in 0 .. W |-> IF w = W THEN d[w] ELSE New(w)]
  BY <1>7
<1> QED  BY <1>1, <1>8

(* operator<<= moves every one up by pos, and drops those that leave. *)
LEMMA ShiftLeftIsExact ==
  ASSUME build \in Instantiations, NEW d, GoodBits(d), NEW pos \in Nat
  PROVE  /\ GoodBits(shift_left(d, pos))
         /\ Bits(shift_left(d, pos)) = {p + pos : p \in Bits(d)} \cap (0 .. BIT_COUNT - 1)
<1> DEFINE W == WORD_COUNT
           B == BITS_PER_WORD
           wordshift == pos \div B
           n == pos % B
           words == Iterate(WORD_COUNT + 1, d, LAMBDA x, k :
             LET w == WORD_COUNT - k IN
             [x EXCEPT ![w] = IF wordshift <= w THEN x[w - wordshift] ELSE {}])
           moved == Iterate(WORD_COUNT, words, LAMBDA x, k :
             LET w == WORD_COUNT - k IN
             [x EXCEPT ![w] = shl(x[w], n) \cup shr(x[w - 1], BITS_PER_WORD - n)])
           y == IF n = 0 THEN words ELSE [moved EXCEPT ![0] = shl(@, n)]
<1>1. shift_left(d, pos) = trim(y)
  BY DEF shift_left
<1>2. /\ W \in Nat /\ B \in Nat \ {0} /\ BIT_COUNT \in Nat /\ MaxWord = 0 .. B - 1
      /\ 0 \in 0 .. W
  BY WordSizes
<1>3. wordshift \in Nat /\ n \in MaxWord /\ wordshift * B + n = pos
  BY BitOfPosition
<1>4. d \in Bitsets /\ d \in [0 .. W -> SUBSET MaxWord]
  BY DEF GoodBits, Bitsets
<1>5. words = [w \in 0 .. W |-> IF wordshift <= w THEN d[w - wordshift] ELSE {}]
  <2> HIDE DEF wordshift
  <2> QED  BY <1>3, <1>4, LeftWords
<1> HIDE DEF words
<1>6. words \in Bitsets
  <2> HIDE DEF wordshift
  <2>1. \A w \in 0 .. W : wordshift <= w => w - wordshift \in 0 .. W
    BY <1>2, <1>3
  <2> QED  BY <1>4, <1>5, <2>1 DEF Bitsets
<1>7. moved = [w \in 0 .. W |-> IF w = 0 THEN words[0] ELSE
                 shl(words[w], n) \cup shr(words[w - 1], B - n)]
  <2>1. n \in Nat
    BY <1>2, <1>3
  <2> HIDE DEF n
  <2> QED  BY <1>6, <2>1, LeftBits
<1> HIDE DEF moved, wordshift, n
<1>8. y \in Bitsets
  <2>1. words \in [0 .. W -> SUBSET MaxWord]
    BY <1>6 DEF Bitsets
  <2>2. moved \in [0 .. W -> SUBSET MaxWord]
    BY <1>2, <1>7, <2>1 DEF shl, shr
  <2> QED  BY <1>2, <2>1, <2>2 DEF Bitsets, shl
<1>9. ASSUME NEW w \in 0 .. W, NEW b \in MaxWord
      PROVE  b \in y[w] <=> w * B + b - pos \in Bits(d)
  <2>1. words \in [0 .. W -> SUBSET MaxWord]
    BY <1>6 DEF Bitsets
  <2>2. b \in y[w] <=> \/ b >= n /\ b - n \in words[w]
                       \/ b < n /\ w # 0 /\ b - n + B \in words[w - 1]
    <3>1. w # 0 => w - 1 \in 0 .. W
      BY <1>2
    <3>2. words[w] \subseteq MaxWord /\ (w # 0 => words[w - 1] \subseteq MaxWord)
      BY <2>1, <3>1
    <3>3. b \in shl(words[w], n) <=> b >= n /\ b - n \in words[w]
      BY <1>2, <1>3, <3>2 DEF shl
    <3>4. w # 0 => (b \in shr(words[w - 1], B - n) <=> b - n + B \in words[w - 1])
      BY <1>2, <1>3, <3>2 DEF shr
    <3>5. w # 0 /\ b - n + B \in words[w - 1] => b < n
      BY <1>2, <1>3, <3>2
    <3>6. CASE n = 0
      <4>1. b >= n /\ b - n = b /\ ~(b < n)
        BY <1>2, <3>6
      <4> QED  BY <3>6, <4>1
    <3>7. CASE n # 0 /\ w = 0
      <4>1. moved[0] = words[0]
        BY <1>2, <1>7
      <4>2. y[0] = shl(words[0], n)
        BY <1>2, <1>7, <3>7, <4>1
      <4> QED  BY <3>3, <3>7, <4>2
    <3>8. CASE n # 0 /\ w # 0
      <4>1. y[w] = shl(words[w], n) \cup shr(words[w - 1], B - n)
        BY <1>2, <1>7, <3>8
      <4> QED  BY <3>3, <3>4, <3>5, <3>8, <4>1
    <3> QED  BY <3>6, <3>7, <3>8
  <2> HIDE DEF y
  <2>3. CASE b >= n
    <3> DEFINE u == w - wordshift
               c == b - n
    <3>1. /\ u \in Int /\ c \in MaxWord /\ (u \in 0 .. W <=> wordshift <= w)
          /\ ~(b < n)
      BY <1>2, <1>3, <2>3
    <3>2. c \in words[w] <=> u \in 0 .. W /\ c \in d[u]
      BY <1>5, <3>1
    <3>3. u * B + c \in Bits(d) <=> u \in 0 .. W /\ c \in d[u]
      <4> HIDE DEF u, c
      <4> QED  BY <3>1, BitAt
    <3>4. u * B + c = w * B + b - pos
      BY <1>2, <1>3
    <3> QED  BY <2>2, <2>3, <3>1, <3>2, <3>3, <3>4
  <2>4. CASE b < n
    <3> DEFINE u == w - 1 - wordshift
               c == b - n + B
    <3>1. /\ u \in Int /\ c \in MaxWord /\ (u \in 0 .. W <=> w # 0 /\ wordshift <= w - 1)
          /\ ~(b >= n) /\ (w # 0 => w - 1 \in 0 .. W)
      BY <1>2, <1>3, <2>4
    <3>2. w # 0 => (c \in words[w - 1] <=> u \in 0 .. W /\ c \in d[u])
      BY <1>5, <3>1
    <3>3. u * B + c \in Bits(d) <=> u \in 0 .. W /\ c \in d[u]
      <4> HIDE DEF u, c
      <4> QED  BY <3>1, BitAt
    <3>4. u * B + c = w * B + b - pos
      BY <1>2, <1>3
    <3>5. b \in y[w] <=> w # 0 /\ c \in words[w - 1]
      BY <2>2, <2>4, <3>1
    <3> HIDE DEF u, c
    <3> QED  BY <3>1, <3>2, <3>3, <3>4, <3>5
  <2>5. b >= n \/ b < n
    BY <1>2, <1>3
  <2> QED  BY <2>3, <2>4, <2>5
<1> HIDE DEF y
<1>10. GoodBits(trim(y)) /\ Bits(trim(y)) = Bits(y)
  BY <1>8, TrimIsGood
<1>11. ASSUME NEW p \in 0 .. BIT_COUNT - 1 PROVE p \in Bits(y) <=> p - pos \in Bits(d)
  <2> DEFINE w == p \div B
             b == p % B
  <2>1. w \in 0 .. W /\ b \in MaxWord /\ w * B + b = p
    <3>1. p \in Nat /\ p < BIT_COUNT
      BY <1>2
    <3> QED  BY <3>1, BitOfPosition
  <2>2. p \in Bits(y) <=> b \in y[w]
    BY DEF Bits, subscript_unchecked
  <2> HIDE DEF w, b
  <2>3. b \in y[w] <=> w * B + b - pos \in Bits(d)
    BY <1>9, <2>1
  <2>4. w * B + b - pos = p - pos
    <3>1. w * B \in Int /\ b \in Int
      BY <1>2, <2>1
    <3> QED  BY <2>1, <3>1
  <2> QED  BY <2>2, <2>3, <2>4
<1>12. Bits(y) = {p + pos : p \in Bits(d)} \cap (0 .. BIT_COUNT - 1)
  <2>1. Bits(y) \subseteq 0 .. BIT_COUNT - 1
    BY DEF Bits
  <2>2. \A p \in Bits(d) : p \in Nat
    BY BitsOfWords
  <2>3. \A q \in 0 .. BIT_COUNT - 1 : q - pos \in Bits(d) <=> \E p \in Bits(d) : q = p + pos
    <3>1. \A q \in 0 .. BIT_COUNT - 1 : (q - pos) + pos = q
      BY <1>2
    <3>2. \A p \in Bits(d) : (p + pos) - pos = p
      BY <2>2
    <3> QED  BY <3>1, <3>2
  <2> QED  BY <1>11, <2>1, <2>3
<1> QED  BY <1>1, <1>10, <1>12

(* operator>>= moves every one down by pos, and drops those that leave. *)
LEMMA ShiftRightIsExact ==
  ASSUME build \in Instantiations, NEW d, GoodBits(d), NEW pos \in Nat
  PROVE  /\ GoodBits(shift_right(d, pos))
         /\ Bits(shift_right(d, pos)) = {p - pos : p \in Bits(d)} \cap (0 .. BIT_COUNT - 1)
<1> DEFINE W == WORD_COUNT
           B == BITS_PER_WORD
           wordshift == pos \div B
           n == pos % B
           words == Iterate(WORD_COUNT + 1, d, LAMBDA x, w :
             [x EXCEPT ![w] = IF wordshift <= WORD_COUNT - w THEN x[w + wordshift] ELSE {}])
           moved == Iterate(WORD_COUNT, words, LAMBDA x, w :
             [x EXCEPT ![w] = shr(x[w], n) \cup shl(x[w + 1], BITS_PER_WORD - n)])
           y == IF n = 0 THEN words ELSE [moved EXCEPT ![W] = shr(@, n)]
<1>1. shift_right(d, pos) = y
  BY DEF shift_right
<1>2. /\ W \in Nat /\ B \in Nat \ {0} /\ BIT_COUNT \in Nat /\ MaxWord = 0 .. B - 1
      /\ 0 \in 0 .. W
  BY WordSizes
<1>3. wordshift \in Nat /\ n \in MaxWord /\ wordshift * B + n = pos
  BY BitOfPosition
<1>4. d \in Bitsets /\ d \in [0 .. W -> SUBSET MaxWord]
  BY DEF GoodBits, Bitsets
<1>5. words = [w \in 0 .. W |-> IF wordshift <= W - w THEN d[w + wordshift] ELSE {}]
  <2> HIDE DEF wordshift
  <2> QED  BY <1>3, <1>4, RightWords
<1> HIDE DEF words
<1>6. words \in Bitsets
  <2> HIDE DEF wordshift
  <2>1. \A w \in 0 .. W : wordshift <= W - w => w + wordshift \in 0 .. W
    BY <1>2, <1>3
  <2> QED  BY <1>4, <1>5, <2>1 DEF Bitsets
<1>7. moved = [w \in 0 .. W |-> IF w = W THEN words[w] ELSE
                 shr(words[w], n) \cup shl(words[w + 1], B - n)]
  <2>1. n \in Nat
    BY <1>2, <1>3
  <2> HIDE DEF n
  <2> QED  BY <1>6, <2>1, RightBits
<1> HIDE DEF moved, wordshift, n
<1>8. y \in Bitsets
  <2>1. words \in [0 .. W -> SUBSET MaxWord]
    BY <1>6 DEF Bitsets
  <2>2. moved \in [0 .. W -> SUBSET MaxWord]
    BY <1>2, <1>7, <2>1 DEF shl, shr
  <2> QED  BY <1>2, <2>1, <2>2 DEF Bitsets, shr
<1>9. ASSUME NEW w \in 0 .. W, NEW b \in MaxWord
      PROVE  b \in y[w] <=> (w * B + b) + pos \in Bits(d)
  <2>1. words \in [0 .. W -> SUBSET MaxWord]
    BY <1>6 DEF Bitsets
  <2>2. b \in y[w] <=> \/ b + n < B /\ b + n \in words[w]
                       \/ b + n >= B /\ w # W /\ (b + n) - B \in words[w + 1]
    <3>1. w # W => w + 1 \in 0 .. W
      BY <1>2
    <3>2. words[w] \subseteq MaxWord /\ (w # W => words[w + 1] \subseteq MaxWord)
      BY <2>1, <3>1
    <3>3. b \in shr(words[w], n) <=> b + n < B /\ b + n \in words[w]
      BY <1>2, <1>3, <3>2 DEF shr
    <3>4. w # W => (b \in shl(words[w + 1], B - n) <=> (b + n) - B \in words[w + 1])
      BY <1>2, <1>3, <3>2 DEF shl
    <3>5. w # W /\ (b + n) - B \in words[w + 1] => b + n >= B
      BY <1>2, <1>3, <3>2
    <3>6. CASE n = 0
      <4>1. b + n < B /\ b + n = b /\ ~(b + n >= B)
        BY <1>2, <3>6
      <4> QED  BY <3>6, <4>1
    <3>7. CASE n # 0 /\ w = W
      <4>1. moved[W] = words[W]
        BY <1>2, <1>7
      <4>2. y[W] = shr(words[W], n)
        BY <1>2, <1>7, <3>7, <4>1
      <4> QED  BY <3>3, <3>7, <4>2
    <3>8. CASE n # 0 /\ w # W
      <4>1. y[w] = shr(words[w], n) \cup shl(words[w + 1], B - n)
        BY <1>2, <1>7, <3>8
      <4> QED  BY <3>3, <3>4, <3>5, <3>8, <4>1
    <3> QED  BY <3>6, <3>7, <3>8
  <2> HIDE DEF y
  <2>3. CASE b + n < B
    <3> DEFINE u == w + wordshift
               c == b + n
    <3>1. /\ u \in Int /\ c \in MaxWord /\ (u \in 0 .. W <=> wordshift <= W - w)
          /\ ~(b + n >= B)
      BY <1>2, <1>3, <2>3
    <3>2. c \in words[w] <=> u \in 0 .. W /\ c \in d[u]
      BY <1>5, <3>1
    <3>3. u * B + c \in Bits(d) <=> u \in 0 .. W /\ c \in d[u]
      <4> HIDE DEF u, c
      <4> QED  BY <3>1, BitAt
    <3>4. u * B + c = (w * B + b) + pos
      BY <1>2, <1>3
    <3> QED  BY <2>2, <2>3, <3>1, <3>2, <3>3, <3>4
  <2>4. CASE b + n >= B
    <3> DEFINE u == w + 1 + wordshift
               c == (b + n) - B
    <3>1. /\ u \in Int /\ c \in MaxWord /\ (u \in 0 .. W <=> w # W /\ wordshift <= W - (w + 1))
          /\ ~(b + n < B) /\ (w # W => w + 1 \in 0 .. W)
      BY <1>2, <1>3, <2>4
    <3>2. w # W => (c \in words[w + 1] <=> u \in 0 .. W /\ c \in d[u])
      BY <1>5, <3>1
    <3>3. u * B + c \in Bits(d) <=> u \in 0 .. W /\ c \in d[u]
      <4> HIDE DEF u, c
      <4> QED  BY <3>1, BitAt
    <3>4. u * B + c = (w * B + b) + pos
      BY <1>2, <1>3
    <3>5. b \in y[w] <=> w # W /\ c \in words[w + 1]
      BY <2>2, <2>4, <3>1
    <3> HIDE DEF u, c
    <3> QED  BY <3>1, <3>2, <3>3, <3>4, <3>5
  <2>5. b + n < B \/ b + n >= B
    BY <1>2, <1>3
  <2> QED  BY <2>3, <2>4, <2>5
<1> HIDE DEF y
<1>10. GoodBits(y)
  <2>1. \A p \in Bits(d) : p \in Nat /\ p < BIT_COUNT
    BY BitsOfWords
  <2>2. y \in [0 .. W -> SUBSET MaxWord]
    BY <1>8 DEF Bitsets
  <2>3. ASSUME NEW w \in 0 .. W, NEW b \in y[w] PROVE w * B + b < BIT_COUNT
    <3>1. b \in MaxWord
      BY <2>2
    <3>2. (w * B + b) + pos \in Bits(d) /\ w * B + b \in Int
      BY <1>2, <1>9, <3>1
    <3> QED  BY <1>2, <2>1, <3>2
  <2>4. DOMAIN y = 0 .. W
    BY <2>2
  <2> QED  BY <1>8, <2>3, <2>4 DEF GoodBits, Trimmed
<1>11. ASSUME NEW p \in 0 .. BIT_COUNT - 1 PROVE p \in Bits(y) <=> p + pos \in Bits(d)
  <2> DEFINE w == p \div B
             b == p % B
  <2>1. w \in 0 .. W /\ b \in MaxWord /\ w * B + b = p
    <3>1. p \in Nat /\ p < BIT_COUNT
      BY <1>2
    <3> QED  BY <3>1, BitOfPosition
  <2>2. p \in Bits(y) <=> b \in y[w]
    BY DEF Bits, subscript_unchecked
  <2> HIDE DEF w, b
  <2>3. b \in y[w] <=> (w * B + b) + pos \in Bits(d)
    BY <1>9, <2>1
  <2> QED  BY <2>1, <2>2, <2>3
<1>12. Bits(y) = {p - pos : p \in Bits(d)} \cap (0 .. BIT_COUNT - 1)
  <2>1. Bits(y) \subseteq 0 .. BIT_COUNT - 1
    BY DEF Bits
  <2>2. \A p \in Bits(d) : p \in Nat
    BY BitsOfWords
  <2>3. \A q \in 0 .. BIT_COUNT - 1 : q + pos \in Bits(d) <=> \E p \in Bits(d) : q = p - pos
    <3>1. \A q \in 0 .. BIT_COUNT - 1 : (q + pos) - pos = q
      BY <1>2
    <3>2. \A p \in Bits(d) : (p - pos) + pos = p
      BY <2>2
    <3> QED  BY <3>1, <3>2
  <2> QED  BY <1>11, <2>1, <2>3
<1> QED  BY <1>1, <1>10, <1>12

-----------------------------------------------------------------------------
(* Every operation on a bitset leaves its padding zero. *)
LEMMA BitsetSteps ==
  ASSUME build \in Instantiations, IntegersFit, GoodBits(bits), BitsetNext
  PROVE  GoodBits(bits')
<1>1. BIT_COUNT \in Nat /\ WORD_COUNT \in Nat
  BY WordSizes
<1>2. ASSUME NEW check, NEW d, GoodBits(d), BitsCall(check, d) PROVE GoodBits(bits')
  BY <1>2 DEF BitsCall
<1>3. ASSUME NEW pos \in 0 .. BIT_COUNT, NEW val \in BOOLEAN, ChangeBit(pos, val)
      PROVE  GoodBits(bits')
  <2> DEFINE d == IF pos < BIT_COUNT THEN set_unchecked(bits, pos, val) ELSE bits
  <2>1. GoodBits(d)
    <3>1. CASE pos < BIT_COUNT
      <4>1. pos \in 0 .. BIT_COUNT - 1
        BY <1>1, <3>1
      <4>2. GoodBits(set_unchecked(bits, pos, val))
        BY <4>1, SetBit
      <4> QED  BY <3>1, <4>2
    <3>2. CASE ~(pos < BIT_COUNT)
      BY <3>2
    <3> QED  BY <3>1, <3>2
  <2>2. BitsCall(pos < BIT_COUNT, d)
    BY <1>3 DEF ChangeBit
  <2> HIDE DEF d
  <2> QED  BY <1>2, <2>1, <2>2
<1>4. ASSUME NEW pos \in 0 .. BIT_COUNT, FlipBit(pos) PROVE GoodBits(bits')
  <2> DEFINE d == IF pos < BIT_COUNT THEN flip_unchecked(bits, pos) ELSE bits
  <2>1. GoodBits(d)
    <3>1. CASE pos < BIT_COUNT
      <4>1. pos \in 0 .. BIT_COUNT - 1
        BY <1>1, <3>1
      <4>2. (~subscript_unchecked(bits, pos)) \in BOOLEAN
        BY DEF subscript_unchecked
      <4>3. GoodBits(flip_unchecked(bits, pos))
        BY <4>1, <4>2, SetBit DEF flip_unchecked
      <4> QED  BY <3>1, <4>3
    <3>2. CASE ~(pos < BIT_COUNT)
      BY <3>2
    <3> QED  BY <3>1, <3>2
  <2>2. BitsCall(pos < BIT_COUNT, d)
    BY <1>4 DEF FlipBit
  <2> HIDE DEF d
  <2> QED  BY <1>2, <2>1, <2>2
<1>5. ASSUME ChangeAll PROVE GoodBits(bits')
  <2>1. GoodBits(set_all(bits)) /\ GoodBits(reset_all(bits)) /\ GoodBits(flip_all(bits))
    BY WholeBitsets
  <2>2. PICK d \in {set_all(bits), reset_all(bits), flip_all(bits)} : BitsCall(TRUE, d)
    BY <1>5 DEF ChangeAll
  <2>3. GoodBits(d)
    BY <2>1, <2>2
  <2> QED  BY <1>2, <2>2, <2>3
<1>6. ASSUME NEW n \in 0 .. BIT_COUNT + 1, Shift(n) PROVE GoodBits(bits')
  <2>1. n \in Nat
    BY <1>1
  <2>2. GoodBits(shift_left(bits, n)) /\ GoodBits(shift_right(bits, n))
    BY <2>1, ShiftLeftIsExact, ShiftRightIsExact
  <2>3. PICK d \in {shift_left(bits, n), shift_right(bits, n)} : BitsCall(TRUE, d)
    BY <1>6 DEF Shift
  <2>4. GoodBits(d)
    BY <2>2, <2>3
  <2> QED  BY <1>2, <2>3, <2>4
<1>7. ASSUME NEW S, Combine(S) PROVE GoodBits(bits')
  <2> DEFINE words == [w \in 0 .. WORD_COUNT |-> {b \in MaxWord : w * BITS_PER_WORD + b \in S}]
             right == trim(words)
  <2>1. words \in Bitsets
    BY DEF Bitsets
  <2> HIDE DEF words
  <2>2. GoodBits(right)
    BY <2>1, TrimIsGood
  <2>3. PICK d \in {and_assign(bits, right), or_assign(bits, right), xor_assign(bits, right)} :
          BitsCall(TRUE, d)
    BY <1>7 DEF Combine, words
  <2> HIDE DEF right
  <2>4. GoodBits(d)
    BY <2>2, <2>3, CombinedBitsets
  <2> QED  BY <1>2, <2>3, <2>4
<1>8. ASSUME NEW val \in SUBSET Ones(2 * NARROW), FromInteger(val) PROVE GoodBits(bits')
  <2>1. GoodBits(from_integer(val))
    BY <1>8, IntegerFits DEF FromInteger
  <2> QED  BY <1>2, <1>8, <2>1 DEF FromInteger
<1>9. ASSUME NEW str \in Strings, NEW pos \in 0 .. BIT_COUNT + 1, NEW c \in 0 .. Len(str) + 1,
             FromString(str, pos, c)
      PROVE  GoodBits(bits')
  <2> DEFINE n == IF Len(str) - pos < c THEN Len(str) - pos ELSE c
             chars == SubSeq(str, pos + 1, pos + n)
  <2>1. str \in Seq(STRING) /\ pos \in Nat
    BY <1>1, RangesAreSequences
  <2>2. Len(str) \in Nat /\ pos <= Len(str)
    BY <1>9, <2>1 DEF FromString
  <2>3. Len(chars) \in Nat
    <3>1. n \in Nat /\ pos + n <= Len(str)
      BY <2>1, <2>2
    <3>2. chars \in Seq(STRING)
      <4> HIDE DEF n
      <4> QED  BY <2>1, <2>2, <3>1
    <3> QED  BY <3>2, LenProperties
  <2>4. BitsCall(pos <= BIT_COUNT /\ ValidChars(chars), construct(chars))
    BY <1>9 DEF FromString
  <2> HIDE DEF chars
  <2>5. GoodBits(construct(chars))
    BY <2>3, StringFits
  <2> QED  BY <1>2, <2>4, <2>5
<1> QED  BY <1>3, <1>4, <1>5, <1>6, <1>7, <1>8, <1>9 DEF BitsetNext

(* The inductive invariant. *)
BitsetInvariant == build \in Instantiations /\ (Kind("bitset") => GoodBits(bits))

(* It says all that BitsetsAreExact states: each operation that reads the  *)
(* words computes what it promises of the ones.                            *)
LEMMA GoodBitsAreExact ==
  ASSUME BitsetInvariant PROVE BitsetsAreExact
<1> SUFFICES ASSUME Kind("bitset") PROVE BitsetsAreExact
  BY DEF BitsetsAreExact
<1> DEFINE S == Bits(bits)
<1>1. build \in Instantiations /\ GoodBits(bits)
  BY DEF BitsetInvariant
<1>2. bits \in Bitsets /\ Trimmed(bits)
  BY <1>1 DEF GoodBits
<1>3. count(bits) = Cardinality(S)
  BY <1>1, CountIsExact
<1>4. any(bits) <=> S # {}
  BY <1>1, AnyIsExact
<1>5. all(bits) <=> S = 0 .. BIT_COUNT - 1
  BY <1>1, AllIsExact
<1>6. Representable(bits) <=> to_ullong(bits) = S
  BY <1>1, ToUllongIsExact
<1>9. FitsUlong(bits) <=> S \subseteq Ones(ULONG_BITS)
  BY <1>1, UlongChecksAreExact
<1>7. ASSUME NEW n \in 0 .. BIT_COUNT + 1
      PROVE  /\ Bits(shift_left(bits, n)) = {p + n : p \in S} \cap (0 .. BIT_COUNT - 1)
             /\ Bits(shift_right(bits, n)) = {p - n : p \in S} \cap (0 .. BIT_COUNT - 1)
  <2>1. BIT_COUNT \in Nat
    BY <1>1, WordSizes
  <2>2. n \in Nat
    BY <2>1
  <2> QED  BY <1>1, <2>2, ShiftLeftIsExact, ShiftRightIsExact
<1>8. construct([k \in 1 .. BIT_COUNT |->
                    IF to_string(bits)[k] THEN "elem1" ELSE "elem0"]) = bits
  BY <1>1, StringsAreExact
<1> QED  BY <1>2, <1>3, <1>4, <1>5, <1>6, <1>7, <1>8, <1>9 DEF BitsetsAreExact

(* Whatever the client does to a FixedBitset of any width, with words of   *)
(* any width, the bits behind BIT_COUNT are zero, and count, any, all,     *)
(* to_ullong, to_string, the string constructor and both shifts agree with *)
(* the set of positions that are one.  The hypothesis is the one that the  *)
(* constructor from an integer needs: it does not mask a wide word.        *)
THEOREM BitsetsStayExact ==
  ASSUME IntegersFit PROVE Spec => []BitsetsAreExact
<1>1. Init => BitsetInvariant
  <2> SUFFICES ASSUME Init PROVE BitsetInvariant
    OBVIOUS
  <2>1. build \in Instantiations /\ bits = NoBits
    BY DEF Init
  <2>2. GoodBits(NoBits)
    BY DEF GoodBits, NoBits, Bitsets, Trimmed
  <2> QED  BY <2>1, <2>2 DEF BitsetInvariant
<1>2. BitsetInvariant /\ [Next]_vars => BitsetInvariant'
  <2> SUFFICES ASSUME BitsetInvariant, [Next]_vars PROVE BitsetInvariant'
    OBVIOUS
  <2>1. build' = build
    BY DEF Next, vars
  <2>2. Kind("bitset") => GoodBits(bits')
    <3> SUFFICES ASSUME Kind("bitset") PROVE GoodBits(bits')
      OBVIOUS
    <3>1. build \in Instantiations /\ GoodBits(bits)
      BY DEF BitsetInvariant
    <3>2. CASE UNCHANGED vars
      BY <3>1, <3>2 DEF vars
    <3>3. CASE Next
      <4>1. BitsetNext
        BY <3>3 DEF Next, Kind, IsContainer
      <4> QED  BY <3>1, <4>1, BitsetSteps
    <3> QED  BY <3>2, <3>3
  <2>3. build \in Instantiations
    BY DEF BitsetInvariant
  <2> QED  BY <2>1, <2>2, <2>3
           DEF BitsetInvariant, Kind, GoodBits, Bitsets, Trimmed, MaxWord, Ones,
               WORD_COUNT, BITS_PER_WORD, BIT_COUNT
<1> QED  BY <1>1, <1>2, GoodBitsAreExact, PTL DEF Spec

-----------------------------------------------------------------------------
(* EnumMap and EnumSet.  The objects that their operations leave behind:   *)
(* exactly the present keys have a value that is alive, and size counts    *)
(* them.                                                                   *)
Maps == [cells : [Ordinals -> Contents \cup {Raw}], array_set : Bitsets, size : Nat, ub : BOOLEAN]

GoodMap(m) ==
  /\ m \in Maps /\ ~m.ub /\ Trimmed(m.array_set)
  /\ m.size = Cardinality(PresentIn(m))
  /\ \A i \in Ordinals :
       /\ Kind("map") /\ i \in PresentIn(m) => m.cells[i] # Raw
       /\ ~TriviallyCopyable /\ i \notin PresentIn(m) => m.cells[i] = Raw
       /\ IsSet => m.cells[i] = Raw

(* An object with these fields and without undefined behaviour, and what   *)
(* an assignment to a field makes of it.                                   *)
NoUb == FALSE
Object(c, b, n) == [cells |-> c, array_set |-> b, size |-> n, ub |-> NoUb]

WithCell(m, i, x)       == [m EXCEPT !.cells[i] = x]
WithCellAndUb(m, i, x, y) == [m EXCEPT !.cells[i] = x, !.ub = y]
WithSizeAndBits(m, x, y) == [m EXCEPT !.size = x, !.array_set = y]
WithBitsAndSize(m, y, x) == [m EXCEPT !.array_set = y, !.size = x]

LEMMA ObjectFields ==
  ASSUME NEW c, NEW b, NEW n
  PROVE  LET m == Object(c, b, n) IN
         m.cells = c /\ m.array_set = b /\ m.size = n /\ m.ub = NoUb
BY DEF Object

LEMMA AssignedCell ==
  ASSUME NEW c, NEW b, NEW n, NEW i, NEW x
  PROVE  LET m == Object(c, b, n)
             d == Object([c EXCEPT ![i] = x], b, n)
         IN  WithCell(m, i, x) = d /\ WithCellAndUb(m, i, x, NoUb) = d
<1> DEFINE m == Object(c, b, n)
           e == [c EXCEPT ![i] = x]
           d == Object(e, b, n)
<1>1. WithCellAndUb(m, i, x, NoUb) = [WithCell(m, i, x) EXCEPT !.ub = NoUb]
  <2> HIDE DEF m
  <2> QED  BY DEF WithCell, WithCellAndUb
<1>2. WithCell(m, i, x) = d
  BY DEF Object, WithCell
<1>3. [d EXCEPT !.ub = NoUb] = d
  <2> HIDE DEF e
  <2> QED  BY DEF Object
<1> HIDE DEF m, d
<1>4. WithCellAndUb(m, i, x, NoUb) = d
  BY <1>1, <1>2, <1>3
<1> QED  BY <1>2, <1>4 DEF m, d

LEMMA AssignedBits ==
  ASSUME NEW c, NEW b, NEW n, NEW x, NEW y
  PROVE  LET m == Object(c, b, n) IN
         /\ WithSizeAndBits(m, x, y) = Object(c, y, x)
         /\ WithBitsAndSize(m, y, x) = Object(c, y, x)
<1> DEFINE m == Object(c, b, n)
<1>1. /\ WithSizeAndBits(m, x, y) = [[m EXCEPT !.size = x] EXCEPT !.array_set = y]
      /\ WithBitsAndSize(m, y, x) = [[m EXCEPT !.array_set = y] EXCEPT !.size = x]
  <2> HIDE DEF m
  <2> QED  BY DEF WithSizeAndBits, WithBitsAndSize
<1>2. [m EXCEPT !.size = x] = Object(c, b, x) /\ [m EXCEPT !.array_set = y] = Object(c, y, n)
  BY DEF Object
<1>3. /\ [Object(c, b, x) EXCEPT !.array_set = y] = Object(c, y, x)
      /\ [Object(c, y, n) EXCEPT !.size = x] = Object(c, y, x)
  BY DEF Object
<1> QED  BY <1>1, <1>2, <1>3

(* Counting one element more or less. *)
LEMMA OneMoreOrLess ==
  ASSUME NEW S, NEW x, IsFiniteSet(S)
  PROVE  /\ Cardinality(S) \in Nat
         /\ x \notin S => Cardinality(S \cup {x}) = Cardinality(S) + 1
         /\ x \in S => Cardinality(S \ {x}) = Cardinality(S) - 1 /\ Cardinality(S) > 0
<1>1. Cardinality(S) \in Nat
  BY FS_CardinalityType
<1>2. x \notin S => Cardinality(S \cup {x}) = Cardinality(S) + 1
  BY FS_AddElement
<1>3. x \in S => Cardinality(S \ {x}) = Cardinality(S) - 1
  BY FS_RemoveElement
<1>4. x \in S => Cardinality(S) # 0
  BY FS_EmptySet
<1> QED  BY <1>1, <1>2, <1>3, <1>4

(* The bitset of a container has one bit for each ordinal. *)
LEMMA ContainerBits ==
  ASSUME build \in Instantiations, IsContainer
  PROVE  /\ ENUM_COUNT \in Nat /\ Ordinals = 0 .. ENUM_COUNT - 1 /\ BIT_COUNT = ENUM_COUNT
         /\ Keys = Ordinals /\ TriviallyCopyable \in BOOLEAN
         /\ (IsSet <=> ~Kind("map"))
         /\ \A m : PresentIn(m) = Bits(m.array_set)
<1>1. ENUM_COUNT \in Nat
  BY InstantiationsAreTypes, LenProperties DEF ENUM_COUNT, ENUM_VALUES
<1>2. BIT_COUNT = ENUM_COUNT
  BY InstantiationsAreTypes DEF IsContainer, Kind, BIT_COUNT, ENUM_COUNT, ENUM_VALUES
<1>3. IsSet <=> ~Kind("map")
  BY DEF IsSet, Kind, IsContainer
<1>4. \A m : PresentIn(m) = Bits(m.array_set)
  BY <1>2 DEF PresentIn, Keys, Ordinals, contains_at, Bits
<1> QED  BY <1>1, <1>2, <1>3, <1>4, InstantiationsAreTypes DEF Ordinals, Keys, TriviallyCopyable

(* What the conjuncts of GoodMap mean for the fields. *)
LEMMA GoodMapFields ==
  ASSUME build \in Instantiations, IsContainer, NEW m, GoodMap(m)
  PROVE  /\ m = Object(m.cells, m.array_set, m.size)
         /\ m.cells \in [Ordinals -> Contents \cup {Raw}] /\ GoodBits(m.array_set)
         /\ m.size \in Nat
         /\ PresentIn(m) = Bits(m.array_set) /\ PresentIn(m) \subseteq Ordinals
         /\ IsFiniteSet(PresentIn(m)) /\ m.size = Cardinality(PresentIn(m))
         /\ \A i \in Ordinals : contains_at(m, i) <=> i \in PresentIn(m)
<1>1. /\ m \in Maps /\ ~m.ub /\ m.size = Cardinality(PresentIn(m)) /\ GoodBits(m.array_set)
  BY DEF GoodMap, GoodBits, Maps
<1>2. m.cells \in [Ordinals -> Contents \cup {Raw}] /\ m.size \in Nat
  BY <1>1 DEF Maps
<1>3. m = Object(m.cells, m.array_set, m.size)
  BY <1>1, <1>2 DEF Maps, Object, NoUb
<1>4. PresentIn(m) = Bits(m.array_set) /\ Keys = Ordinals
  BY ContainerBits
<1>5. PresentIn(m) \subseteq Ordinals /\ \A i \in Ordinals : contains_at(m, i) <=> i \in PresentIn(m)
  BY <1>4 DEF PresentIn
<1>6. IsFiniteSet(PresentIn(m))
  <2>1. IsFiniteSet(Ordinals)
    BY ContainerBits, FS_Interval
  <2> QED  BY <1>5, <2>1, FS_Subset
<1> QED  BY <1>1, <1>2, <1>3, <1>4, <1>5, <1>6

(* An object with these fields is good if its present keys are S. *)
LEMMA MakesGoodMap ==
  ASSUME build \in Instantiations, IsContainer,
         NEW c \in [Ordinals -> Contents \cup {Raw}], NEW b, GoodBits(b),
         NEW n \in Nat, n = Cardinality(Bits(b)),
         \A i \in Ordinals : /\ Kind("map") /\ i \in Bits(b) => c[i] # Raw
                             /\ ~TriviallyCopyable /\ i \notin Bits(b) => c[i] = Raw
                             /\ IsSet => c[i] = Raw
  PROVE  LET m == Object(c, b, n) IN
         GoodMap(m) /\ PresentIn(m) = Bits(b)
<1> DEFINE m == Object(c, b, n)
<1>1. PresentIn(m) = Bits(b)
  BY ContainerBits, ObjectFields
<1>2. m \in Maps /\ ~m.ub /\ Trimmed(m.array_set)
  BY DEF Maps, GoodBits, Object, NoUb
<1>3. m.size = Cardinality(PresentIn(m))
  BY <1>1 DEF Object
<1>4. \A i \in Ordinals :
       /\ Kind("map") /\ i \in PresentIn(m) => m.cells[i] # Raw
       /\ ~TriviallyCopyable /\ i \notin PresentIn(m) => m.cells[i] = Raw
       /\ IsSet => m.cells[i] = Raw
  BY <1>1 DEF Object
<1> HIDE DEF m
<1>5. GoodMap(m)
  BY <1>2, <1>3, <1>4 DEF GoodMap
<1> QED  BY <1>1, <1>5 DEF m

LEMMA EmptyMapIsGood ==
  ASSUME build \in Instantiations, IsContainer
  PROVE  GoodMap(EmptyMap) /\ PresentIn(EmptyMap) = {}
<1>1. GoodBits(NoBits)
  BY DEF GoodBits, NoBits, Bitsets, Trimmed
<1>2. Bits(NoBits) = {}
  <2> SUFFICES ASSUME NEW p \in Bits(NoBits) PROVE FALSE
    OBVIOUS
  <2>1. p \in Nat /\ p < BIT_COUNT
    BY <1>1, BitsOfWords
  <2>2. p \div BITS_PER_WORD \in 0 .. WORD_COUNT
    BY <2>1, BitOfPosition
  <2> QED  BY <2>2 DEF Bits, NoBits, subscript_unchecked
<1>3. 0 = Cardinality(Bits(NoBits))
  BY <1>2, FS_EmptySet
<1> DEFINE c == [i \in Ordinals |-> Raw]
<1>4. /\ c \in [Ordinals -> Contents \cup {Raw}] /\ 0 \in Nat
      /\ \A i \in Ordinals : c[i] = Raw /\ i \notin Bits(NoBits)
  BY <1>2
<1>5. EmptyMap = Object(c, NoBits, 0)
  BY DEF EmptyMap, Object, NoUb
<1> HIDE DEF c
<1> QED  BY <1>1, <1>2, <1>3, <1>4, <1>5, MakesGoodMap

(* Constructing and destroying one value. *)
LEMMA ConstructedCell ==
  ASSUME NEW c, NEW b, NEW n, NEW i, NEW v, v # Raw, ~TriviallyCopyable => c[i] = Raw
  PROVE  construct_at(Object(c, b, n), i, v) = Object([c EXCEPT ![i] = v], b, n)
<1> DEFINE r == Object(c, b, n)
           u == r.ub \/ v = Raw \/ (~TriviallyCopyable /\ r.cells[i] # Raw)
<1>1. r.ub = NoUb /\ r.cells = c
  BY DEF Object
<1>2. u = NoUb
  BY <1>1 DEF NoUb
<1>3. construct_at(r, i, v) = WithCellAndUb(r, i, v, u)
  BY DEF construct_at, WithCellAndUb
<1> HIDE DEF u
<1> QED  BY <1>2, <1>3, AssignedCell

LEMMA DestroyedCell ==
  ASSUME NEW c, NEW b, NEW n, NEW i, c[i] # Raw
  PROVE  destroy_at(Object(c, b, n), i) =
           Object(IF TriviallyCopyable THEN c ELSE [c EXCEPT ![i] = Raw], b, n)
<1> DEFINE r == Object(c, b, n)
           u == r.ub \/ r.cells[i] = Raw
<1>1. r.ub = NoUb /\ r.cells = c
  BY DEF Object
<1>2. u = NoUb
  BY <1>1 DEF NoUb
<1>3. destroy_at(r, i) = IF TriviallyCopyable THEN r ELSE WithCellAndUb(r, i, Raw, u)
  BY DEF destroy_at, WithCellAndUb
<1> HIDE DEF u
<1> QED  BY <1>2, <1>3, AssignedCell

(* What set and reset do to the bits of a container. *)
LEMMA SetOrdinal ==
  ASSUME build \in Instantiations, IsContainer, NEW d, GoodBits(d), NEW i \in Ordinals
  PROVE  /\ GoodBits(set_unchecked(d, i, TRUE)) /\ GoodBits(set_unchecked(d, i, FALSE))
         /\ Bits(set_unchecked(d, i, TRUE)) = Bits(d) \cup {i}
         /\ Bits(set_unchecked(d, i, FALSE)) = Bits(d) \ {i}
<1>1. i \in 0 .. BIT_COUNT - 1
  BY ContainerBits
<1>2. \A val \in BOOLEAN :
        /\ GoodBits(set_unchecked(d, i, val))
        /\ Bits(set_unchecked(d, i, val)) = IF val THEN Bits(d) \cup {i} ELSE Bits(d) \ {i}
  BY <1>1, SetBit
<1> QED  BY <1>2, Zenon

(* Adding an absent key constructs its value. *)
LEMMA TouchIsGood ==
  ASSUME build \in Instantiations, IsContainer, NEW m, GoodMap(m),
         NEW i \in Ordinals, i \notin PresentIn(m), NEW v \in Contents
  PROVE  /\ GoodMap(Touch(m, i, v)) /\ PresentIn(Touch(m, i, v)) = PresentIn(m) \cup {i}
         /\ ~IsSet => \A k \in Ordinals :
              Touch(m, i, v).cells[k] = IF k = i THEN v ELSE m.cells[k]
<1> DEFINE b == set_unchecked(m.array_set, i, TRUE)
           c == IF IsSet THEN m.cells ELSE [m.cells EXCEPT ![i] = v]
           P == PresentIn(m)
<1>0. m = Object(m.cells, m.array_set, m.size)
  BY GoodMapFields
<1>1. /\ m.cells \in [Ordinals -> Contents \cup {Raw}] /\ GoodBits(m.array_set)
      /\ m.size \in Nat /\ P = Bits(m.array_set)
      /\ IsFiniteSet(P) /\ m.size = Cardinality(P)
  BY GoodMapFields
<1>2. v # Raw /\ (~TriviallyCopyable => m.cells[i] = Raw)
  BY RawIsNoValue DEF GoodMap
<1>3. Touch(m, i, v) = Object(c, b, m.size + 1)
  <2>1. (IF IsSet THEN m ELSE construct_at(m, i, v)) = Object(c, m.array_set, m.size)
    BY <1>0, <1>2, ConstructedCell
  <2> HIDE DEF c
  <2> DEFINE x == Object(c, m.array_set, m.size)
  <2>2. Touch(m, i, v) = WithSizeAndBits(x, x.size + 1, set_unchecked(x.array_set, i, TRUE))
    BY <2>1 DEF Touch, WithSizeAndBits
  <2>3. x.size = m.size /\ x.array_set = m.array_set
    BY ObjectFields
  <2>4. Touch(m, i, v) = WithSizeAndBits(x, m.size + 1, b)
    BY <2>2, <2>3
  <2> HIDE DEF b
  <2> QED  BY <2>4, AssignedBits
<1>4. GoodBits(b) /\ Bits(b) = P \cup {i}
  BY <1>1, SetOrdinal
<1>5. m.size + 1 = Cardinality(P \cup {i}) /\ m.size + 1 \in Nat
  BY <1>1, OneMoreOrLess
<1>6. c \in [Ordinals -> Contents \cup {Raw}]
  BY <1>1
<1>7. \A k \in Ordinals : /\ Kind("map") /\ k \in P \cup {i} => c[k] # Raw
                          /\ ~TriviallyCopyable /\ k \notin P \cup {i} => c[k] = Raw
                          /\ IsSet => c[k] = Raw
  BY <1>1, <1>2, ContainerBits DEF GoodMap
<1>8. ~IsSet => \A k \in Ordinals : c[k] = IF k = i THEN v ELSE m.cells[k]
  BY <1>1
<1> HIDE DEF b, c, P
<1>9. LET t == Object(c, b, m.size + 1) IN GoodMap(t) /\ PresentIn(t) = Bits(b)
  BY <1>4, <1>5, <1>6, <1>7, MakesGoodMap
<1>10. Object(c, b, m.size + 1).cells = c
  BY ObjectFields
<1> QED  BY <1>3, <1>4, <1>8, <1>9, <1>10 DEF P

LEMMA InsertIsGood ==
  ASSUME build \in Instantiations, IsContainer, NEW m, GoodMap(m),
         NEW i \in Ordinals, NEW v \in Contents
  PROVE  /\ GoodMap(insert(m, i, v)) /\ PresentIn(insert(m, i, v)) = PresentIn(m) \cup {i}
         /\ ~IsSet => \A k \in Ordinals :
              insert(m, i, v).cells[k] = IF k = i /\ i \notin PresentIn(m) THEN v ELSE m.cells[k]
<1>1. contains_at(m, i) <=> i \in PresentIn(m)
  BY GoodMapFields
<1>2. CASE i \in PresentIn(m)
  BY <1>1, <1>2 DEF insert
<1>3. CASE i \notin PresentIn(m)
  <2>1. insert(m, i, v) = Touch(m, i, v)
    BY <1>1, <1>3 DEF insert
  <2>2. m.cells \in [Ordinals -> Contents \cup {Raw}]
    BY GoodMapFields
  <2> QED  BY <1>3, <2>1, <2>2, TouchIsGood
<1> QED  BY <1>2, <1>3

LEMMA InsertOrAssignIsGood ==
  ASSUME build \in Instantiations, IsContainer, NEW m, GoodMap(m),
         NEW i \in Ordinals, NEW v \in Contents, TriviallyCopyable, Kind("map")
  PROVE  /\ GoodMap(insert_or_assign(m, i, v))
         /\ PresentIn(insert_or_assign(m, i, v)) = PresentIn(m) \cup {i}
         /\ \A k \in Ordinals :
              insert_or_assign(m, i, v).cells[k] = IF k = i THEN v ELSE m.cells[k]
<1> DEFINE P == PresentIn(m)
           b == IF i \in P THEN m.array_set ELSE set_unchecked(m.array_set, i, TRUE)
           n == IF i \in P THEN m.size ELSE m.size + 1
           c == [m.cells EXCEPT ![i] = v]
<1>0. m = Object(m.cells, m.array_set, m.size)
  BY GoodMapFields
<1>1. /\ m.cells \in [Ordinals -> Contents \cup {Raw}] /\ GoodBits(m.array_set)
      /\ m.size \in Nat /\ P = Bits(m.array_set)
      /\ IsFiniteSet(P) /\ m.size = Cardinality(P) /\ (contains_at(m, i) <=> i \in P)
  BY GoodMapFields
<1>2. insert_or_assign(m, i, v) = Object(c, b, n)
  <2> DEFINE x == IF contains_at(m, i) THEN m
                  ELSE WithSizeAndBits(m, m.size + 1, set_unchecked(m.array_set, i, TRUE))
  <2>1. insert_or_assign(m, i, v) = WithCell(x, i, v)
    BY DEF insert_or_assign, WithCell, WithSizeAndBits
  <2>2. x = Object(m.cells, b, n)
    <3>1. CASE i \in P
      BY <1>0, <1>1, <3>1
    <3>2. CASE i \notin P
      <4> DEFINE s == set_unchecked(m.array_set, i, TRUE)
                 k == m.size + 1
      <4>1. x = WithSizeAndBits(m, k, s) /\ b = s /\ n = k
        BY <1>1, <3>2
      <4> HIDE DEF s, k, x, b, n
      <4> QED  BY <1>0, <4>1, AssignedBits
    <3> QED  BY <3>1, <3>2
  <2> HIDE DEF b, n, x
  <2> QED  BY <2>1, <2>2, AssignedCell
<1>3. GoodBits(b) /\ Bits(b) = P \cup {i}
  BY <1>1, SetOrdinal
<1>4. n = Cardinality(P \cup {i}) /\ n \in Nat
  <2>1. CASE i \in P
    <3>1. P \cup {i} = P
      BY <2>1
    <3> QED  BY <1>1, <2>1, <3>1
  <2>2. CASE i \notin P
    <3> HIDE DEF P
    <3> QED  BY <1>1, <2>2, OneMoreOrLess
  <2> QED  BY <2>1, <2>2
<1>5. /\ c \in [Ordinals -> Contents \cup {Raw}]
      /\ \A k \in Ordinals : Kind("map") /\ k \in P \cup {i} => c[k] # Raw
      /\ ~IsSet
  BY <1>1, RawIsNoValue, ContainerBits DEF GoodMap
<1> HIDE DEF b, n, P, c
<1>6. LET t == Object(c, b, n) IN GoodMap(t) /\ PresentIn(t) = Bits(b)
  BY <1>3, <1>4, <1>5, MakesGoodMap
<1>7. Object(c, b, n).cells = c
  BY ObjectFields
<1>8. \A k \in Ordinals : c[k] = IF k = i THEN v ELSE m.cells[k]
  BY <1>1 DEF c
<1> QED  BY <1>2, <1>3, <1>6, <1>7, <1>8 DEF P

(* Removing a present key destroys its value. *)
LEMMA ResetIsGood ==
  ASSUME build \in Instantiations, IsContainer, NEW m, GoodMap(m), NEW i \in PresentIn(m)
  PROVE  /\ GoodMap(reset_at(m, i)) /\ PresentIn(reset_at(m, i)) = PresentIn(m) \ {i}
         /\ \A k \in Ordinals \ {i} : reset_at(m, i).cells[k] = m.cells[k]
<1> DEFINE b == set_unchecked(m.array_set, i, FALSE)
           c == IF IsSet \/ TriviallyCopyable THEN m.cells ELSE [m.cells EXCEPT ![i] = Raw]
           P == PresentIn(m)
<1>0. m = Object(m.cells, m.array_set, m.size)
  BY GoodMapFields
<1>1. /\ m.cells \in [Ordinals -> Contents \cup {Raw}] /\ GoodBits(m.array_set)
      /\ m.size \in Nat /\ P = Bits(m.array_set)
      /\ IsFiniteSet(P) /\ m.size = Cardinality(P) /\ i \in Ordinals
  BY GoodMapFields
<1>2. ~IsSet => m.cells[i] # Raw
  BY <1>1, ContainerBits DEF GoodMap
<1>3. reset_at(m, i) = Object(c, b, m.size - 1)
  <2>1. (IF IsSet THEN m ELSE destroy_at(m, i)) = Object(c, m.array_set, m.size)
    BY <1>0, <1>2, DestroyedCell
  <2> HIDE DEF c
  <2> DEFINE x == Object(c, m.array_set, m.size)
  <2>2. reset_at(m, i) = WithSizeAndBits(x, x.size - 1, set_unchecked(x.array_set, i, FALSE))
    BY <2>1 DEF reset_at, WithSizeAndBits
  <2>3. x.size = m.size /\ x.array_set = m.array_set
    BY ObjectFields
  <2>4. reset_at(m, i) = WithSizeAndBits(x, m.size - 1, b)
    BY <2>2, <2>3
  <2> HIDE DEF b
  <2> QED  BY <2>4, AssignedBits
<1>4. GoodBits(b) /\ Bits(b) = P \ {i}
  <2>1. GoodBits(b) /\ Bits(b) = Bits(m.array_set) \ {i}
    BY <1>1, SetOrdinal
  <2> QED  BY <1>1, <2>1
<1>5. m.size - 1 = Cardinality(P \ {i}) /\ m.size - 1 \in Nat
  BY <1>1, OneMoreOrLess
<1>6. c \in [Ordinals -> Contents \cup {Raw}]
  BY <1>1
<1>7. \A k \in Ordinals : /\ Kind("map") /\ k \in P \ {i} => c[k] # Raw
                          /\ ~TriviallyCopyable /\ k \notin P \ {i} => c[k] = Raw
                          /\ IsSet => c[k] = Raw
  BY <1>1, ContainerBits DEF GoodMap
<1>8. \A k \in Ordinals \ {i} : c[k] = m.cells[k]
  BY <1>1
<1> HIDE DEF b, c, P
<1>9. LET t == Object(c, b, m.size - 1) IN GoodMap(t) /\ PresentIn(t) = Bits(b)
  BY <1>4, <1>5, <1>6, <1>7, MakesGoodMap
<1>10. Object(c, b, m.size - 1).cells = c
  BY ObjectFields
<1> QED  BY <1>3, <1>4, <1>8, <1>9, <1>10 DEF P

(* insert(first, last): what was there stays, the new keys get their value. *)
LEMMA InsertRangeIsGood ==
  ASSUME build \in Instantiations, IsContainer, NEW m, GoodMap(m), NEW v \in Contents,
         NEW pairs, Len(pairs) \in Nat,
         \A k \in 1 .. Len(pairs) : pairs[k][1] \in Ordinals /\ pairs[k][2] = v
  PROVE  LET x == insert_range(m, pairs) IN
         /\ GoodMap(x) /\ PresentIn(x) = PresentIn(m) \cup {pairs[k][1] : k \in 1 .. Len(pairs)}
         /\ ~IsSet => \A i \in PresentIn(x) :
              x.cells[i] = IF i \in PresentIn(m) THEN m.cells[i] ELSE v
<1> DEFINE N == Len(pairs)
           S(x, k) == insert(x, pairs[k + 1][1], pairs[k + 1][2])
           Body(f) == [k \in 0 .. N |-> IF k = 0 THEN m ELSE S(f[k - 1], k - 1)]
           loop == CHOOSE f : f = Body(f)
           X == [k \in 0 .. N |-> {x \in Maps :
                   /\ GoodMap(x) /\ PresentIn(x) = PresentIn(m) \cup {pairs[j][1] : j \in 1 .. k}
                   /\ ~IsSet => \A i \in PresentIn(x) :
                        x.cells[i] = IF i \in PresentIn(m) THEN m.cells[i] ELSE v}]
           F == [k \in 1 .. N |-> [x \in X[k - 1] |-> S(x, k - 1)]]
<1>1. insert_range(m, pairs) = loop[N]
  BY DEF insert_range, Iterate
<1>2. N \in Nat
  OBVIOUS
<1>3. m \in X[0]
  <2>1. 0 \in 0 .. N /\ 1 .. 0 = {}
    BY <1>2
  <2> QED  BY <2>1 DEF GoodMap
<1>4. ASSUME NEW k \in 1 .. N, NEW x \in X[k - 1] PROVE S(x, k - 1) \in X[k]
  <2> DEFINE i == pairs[k][1]
             y == insert(x, i, v)
             P == PresentIn(m)
             Q == PresentIn(x)
  <2>1. /\ k - 1 \in 0 .. N /\ k \in 0 .. N /\ (k - 1) + 1 = k
        /\ \A j \in 1 .. k : j = k \/ j \in 1 .. k - 1
        /\ \A j \in 1 .. k - 1 : j \in 1 .. k /\ k \in 1 .. k
    BY <1>2
  <2>2. S(x, k - 1) = y /\ i \in Ordinals
    BY <2>1
  <2>3. /\ GoodMap(x) /\ Q = P \cup {pairs[j][1] : j \in 1 .. k - 1}
        /\ ~IsSet => \A a \in Q : x.cells[a] = IF a \in P THEN m.cells[a] ELSE v
    BY <2>1
  <2> HIDE DEF i, X, P, Q
  <2>4. /\ GoodMap(y) /\ PresentIn(y) = Q \cup {i}
        /\ ~IsSet => \A a \in Ordinals :
             y.cells[a] = IF a = i /\ i \notin Q THEN v ELSE x.cells[a]
    BY <2>2, <2>3, InsertIsGood DEF Q
  <2>5. y \in Maps /\ PresentIn(y) \subseteq Ordinals
    BY <2>4, GoodMapFields DEF GoodMap
  <2>6. Q \cup {i} = P \cup {pairs[j][1] : j \in 1 .. k}
    <3>1. {pairs[j][1] : j \in 1 .. k} = {pairs[j][1] : j \in 1 .. k - 1} \cup {i}
      BY <2>1 DEF i
    <3> QED  BY <2>3, <3>1
  <2>7. ASSUME ~IsSet, NEW a \in PresentIn(y)
        PROVE  y.cells[a] = IF a \in P THEN m.cells[a] ELSE v
    <3>1. a \in Ordinals /\ a \in Q \cup {i} /\ P \subseteq Q
      BY <2>3, <2>4, <2>5
    <3>2. y.cells[a] = IF a = i /\ i \notin Q THEN v ELSE x.cells[a]
      BY <2>4, <2>7, <3>1
    <3>3. CASE a \in Q
      BY <2>3, <2>7, <3>2, <3>3
    <3>4. CASE a \notin Q
      BY <3>1, <3>2, <3>4
    <3> QED  BY <3>3, <3>4
  <2> HIDE DEF y
  <2> QED  BY <2>1, <2>2, <2>4, <2>5, <2>6, <2>7 DEF X, P
<1> HIDE DEF S
<1>5. ASSUME NEW f, SolvesLoop(f, m, X, F, N) PROVE RunsLoop(loop, m, X, F, N)
  <2>1. \A k \in 1 .. N : \A x \in X[k - 1] : F[k][x] = S(x, k - 1)
    OBVIOUS
  <2>2. \A k \in 0 .. N : k # 0 <=> k \in 1 .. N
    BY <1>2
  <2>3. 0 \in 0 .. N /\ \A k \in 1 .. N : k \in 0 .. N /\ k - 1 \in 0 .. N
    BY <1>2
  <2> HIDE DEF X, F, N
  <2>4. f = Body(f)
    BY <1>5, <2>1, <2>2, <2>3 DEF SolvesLoop
  <2> HIDE DEF Body
  <2>5. loop = Body(loop)
    BY <2>4
  <2> HIDE DEF loop
  <2> USE DEF Body
  <2> QED  BY <2>1, <2>2, <2>3, <2>5 DEF RunsLoop
<1>6. loop[N] \in X[N]
  <2>1. \A k \in 1 .. N : \A x \in X[k - 1] : F[k][x] \in X[k]
    BY <1>4
  <2> HIDE DEF X, F, N, loop
  <2> QED  BY <1>2, <1>3, <1>5, <2>1, LoopEnds
<1> HIDE DEF loop
<1>7. N \in 0 .. N
  BY <1>2
<1> QED  BY <1>1, <1>6, <1>7

(* The loop of clear() and of erase(first, last) destroys what it erases.  *)
LEMMA ResetRangeIsGood ==
  ASSUME build \in Instantiations, IsContainer, NEW m, GoodMap(m),
         NEW from \in 0 .. ENUM_COUNT, NEW to \in 0 .. ENUM_COUNT, from <= to
  PROVE  LET x == reset_range(m, from, to) IN
         /\ GoodMap(x) /\ PresentIn(x) = {i \in PresentIn(m) : i < from \/ i >= to}
         /\ \A i \in PresentIn(x) : x.cells[i] = m.cells[i]
<1> DEFINE N == to - from
           S(x, k) == IF contains_at(x, from + k) THEN reset_at(x, from + k) ELSE x
           Body(f) == [k \in 0 .. N |-> IF k = 0 THEN m ELSE S(f[k - 1], k - 1)]
           loop == CHOOSE f : f = Body(f)
           X == [k \in 0 .. N |-> {x \in Maps :
                   /\ GoodMap(x) /\ PresentIn(x) = {i \in PresentIn(m) : i < from \/ i >= from + k}
                   /\ \A i \in PresentIn(x) : x.cells[i] = m.cells[i]}]
           F == [k \in 1 .. N |-> [x \in X[k - 1] |-> S(x, k - 1)]]
<1>1. reset_range(m, from, to) = loop[N]
  BY DEF reset_range, Iterate
<1>2. /\ N \in Nat /\ ENUM_COUNT \in Nat /\ Ordinals = 0 .. ENUM_COUNT - 1 /\ from + N = to
      /\ from \in Nat
  BY ContainerBits
<1>3. m \in X[0]
  <2>1. 0 \in 0 .. N /\ \A i \in Ordinals : i < from \/ i >= from + 0
    BY <1>2
  <2>2. PresentIn(m) \subseteq Ordinals
    BY GoodMapFields
  <2>3. PresentIn(m) = {i \in PresentIn(m) : i < from \/ i >= from + 0}
    BY <2>1, <2>2
  <2> QED  BY <2>1, <2>3 DEF GoodMap
<1>4. ASSUME NEW k \in 1 .. N, NEW x \in X[k - 1] PROVE S(x, k - 1) \in X[k]
  <2> DEFINE i == from + (k - 1)
             y == IF contains_at(x, i) THEN reset_at(x, i) ELSE x
             P == PresentIn(m)
             Q == PresentIn(x)
             R(j) == {a \in P : a < from \/ a >= from + j}
  <2>1. /\ k - 1 \in 0 .. N /\ k \in 0 .. N /\ i \in Ordinals
        /\ \A a \in Ordinals : a < from \/ a >= from + k <=> a # i /\ (a < from \/ a >= from + (k - 1))
    BY <1>2
  <2>2. S(x, k - 1) = y
    OBVIOUS
  <2>3. GoodMap(x) /\ Q = R(k - 1) /\ \A a \in Q : x.cells[a] = m.cells[a]
    BY <2>1
  <2>4. P \subseteq Ordinals /\ Q \subseteq Ordinals /\ (contains_at(x, i) <=> i \in Q)
    BY <2>1, <2>3, GoodMapFields
  <2>5. Q \ {i} = R(k)
    BY <2>1, <2>3, <2>4
  <2> HIDE DEF i, X, P, R
  <2>6. GoodMap(y) /\ PresentIn(y) = Q \ {i} /\ \A a \in Q \ {i} : y.cells[a] = x.cells[a]
    <3>1. CASE i \in Q
      <4>1. y = reset_at(x, i)
        BY <2>4, <3>1
      <4> HIDE DEF y
      <4> QED  BY <2>3, <2>4, <3>1, <4>1, ResetIsGood
    <3>2. CASE i \notin Q
      <4>1. y = x /\ Q \ {i} = Q
        BY <2>4, <3>2
      <4> QED  BY <2>3, <4>1
    <3> QED  BY <3>1, <3>2
  <2> HIDE DEF y, Q
  <2>7. y \in Maps
    BY <2>6 DEF GoodMap
  <2>8. \A a \in PresentIn(y) : y.cells[a] = m.cells[a]
    BY <2>3, <2>6
  <2> QED  BY <2>1, <2>2, <2>5, <2>6, <2>7, <2>8 DEF X, P, R
<1> HIDE DEF S
<1>5. ASSUME NEW f, SolvesLoop(f, m, X, F, N) PROVE RunsLoop(loop, m, X, F, N)
  <2>1. \A k \in 1 .. N : \A x \in X[k - 1] : F[k][x] = S(x, k - 1)
    OBVIOUS
  <2>2. \A k \in 0 .. N : k # 0 <=> k \in 1 .. N
    BY <1>2
  <2>3. 0 \in 0 .. N /\ \A k \in 1 .. N : k \in 0 .. N /\ k - 1 \in 0 .. N
    BY <1>2
  <2> HIDE DEF X, F, N
  <2>4. f = Body(f)
    BY <1>5, <2>1, <2>2, <2>3 DEF SolvesLoop
  <2> HIDE DEF Body
  <2>5. loop = Body(loop)
    BY <2>4
  <2> HIDE DEF loop
  <2> USE DEF Body
  <2> QED  BY <2>1, <2>2, <2>3, <2>5 DEF RunsLoop
<1>6. loop[N] \in X[N]
  <2>1. \A k \in 1 .. N : \A x \in X[k - 1] : F[k][x] \in X[k]
    BY <1>4
  <2> HIDE DEF X, F, N, loop
  <2> QED  BY <1>2, <1>3, <1>5, <2>1, LoopEnds
<1> HIDE DEF loop
<1>7. N \in 0 .. N
  BY <1>2
<1> QED  BY <1>1, <1>2, <1>6, <1>7

LEMMA ClearIsGood ==
  ASSUME build \in Instantiations, IsContainer, NEW m, GoodMap(m)
  PROVE  GoodMap(clear(m)) /\ PresentIn(clear(m)) = {}
<1>1. ENUM_COUNT \in Nat /\ Ordinals = 0 .. ENUM_COUNT - 1 /\ PresentIn(m) \subseteq Ordinals
  BY ContainerBits, GoodMapFields
<1>2. 0 \in 0 .. ENUM_COUNT /\ ENUM_COUNT \in 0 .. ENUM_COUNT /\ 0 <= ENUM_COUNT
  BY <1>1
<1>3. {i \in PresentIn(m) : i < 0 \/ i >= ENUM_COUNT} = {}
  BY <1>1
<1> QED  BY <1>2, <1>3, ResetRangeIsGood DEF clear

LEMMA CreateIsGood ==
  ASSUME build \in Instantiations, IsContainer, NEW keys, Len(keys) \in Nat, NEW v \in Contents,
         \A k \in 1 .. Len(keys) : keys[k] \in Ordinals
  PROVE  LET x == create_with_keys(keys, v) IN
         /\ GoodMap(x) /\ PresentIn(x) = {keys[k] : k \in 1 .. Len(keys)}
         /\ ~IsSet => \A i \in PresentIn(x) : x.cells[i] = v
<1> DEFINE pairs == [k \in 1 .. Len(keys) |-> <<keys[k], v>>]
<1>1. Len(pairs) = Len(keys)
  OBVIOUS
<1>2. \A k \in 1 .. Len(keys) : pairs[k][1] = keys[k] /\ pairs[k][2] = v
  OBVIOUS
<1>3. create_with_keys(keys, v) = insert_range(EmptyMap, pairs)
  BY DEF create_with_keys
<1>4. {pairs[k][1] : k \in 1 .. Len(pairs)} = {keys[k] : k \in 1 .. Len(keys)}
  BY <1>1, <1>2
<1>5. GoodMap(EmptyMap) /\ PresentIn(EmptyMap) = {}
  BY EmptyMapIsGood
<1> HIDE DEF pairs
<1> QED  BY <1>1, <1>2, <1>3, <1>4, <1>5, InsertRangeIsGood

(* EnumSet::complement_of takes the keys out of a full set. *)
LEMMA ComplementIsGood ==
  ASSUME build \in Instantiations, IsContainer, NEW keys, Len(keys) \in Nat, NEW v \in Contents,
         \A k \in 1 .. Len(keys) : keys[k] \in Ordinals
  PROVE  LET x == complement_of(keys, v) IN
         GoodMap(x) /\ PresentIn(x) = Ordinals \ {keys[k] : k \in 1 .. Len(keys)}
<1> DEFINE N == Len(keys)
           m == all_keys(v)
           S(x, k) == IF contains_at(x, keys[k + 1]) THEN reset_at(x, keys[k + 1]) ELSE x
           Body(f) == [k \in 0 .. N |-> IF k = 0 THEN m ELSE S(f[k - 1], k - 1)]
           loop == CHOOSE f : f = Body(f)
           X == [k \in 0 .. N |-> {x \in Maps :
                   GoodMap(x) /\ PresentIn(x) = Ordinals \ {keys[j] : j \in 1 .. k}}]
           F == [k \in 1 .. N |-> [x \in X[k - 1] |-> S(x, k - 1)]]
<1>1. complement_of(keys, v) = loop[N]
  BY DEF complement_of, Iterate
<1>2. N \in Nat
  OBVIOUS
<1>3. m \in X[0]
  <2> DEFINE each == [k \in 1 .. ENUM_COUNT |-> k - 1]
  <2>1. ENUM_COUNT \in Nat /\ Ordinals = 0 .. ENUM_COUNT - 1
    BY ContainerBits
  <2>2. Len(each) = ENUM_COUNT
    BY <2>1
  <2>3. \A k \in 1 .. ENUM_COUNT : each[k] \in Ordinals
    BY <2>1
  <2>4. {each[k] : k \in 1 .. ENUM_COUNT} = Ordinals
    <3>1. \A i \in Ordinals : i + 1 \in 1 .. ENUM_COUNT /\ each[i + 1] = i
      BY <2>1
    <3> QED  BY <2>3, <3>1
  <2>5. m = create_with_keys(each, v)
    BY DEF all_keys
  <2> HIDE DEF each, m
  <2>6. GoodMap(m) /\ PresentIn(m) = Ordinals
    BY <2>1, <2>2, <2>3, <2>4, <2>5, CreateIsGood
  <2>7. 0 \in 0 .. N /\ 1 .. 0 = {}
    BY <1>2
  <2> QED  BY <2>6, <2>7 DEF GoodMap
<1> HIDE DEF m
<1>4. ASSUME NEW k \in 1 .. N, NEW x \in X[k - 1] PROVE S(x, k - 1) \in X[k]
  <2> DEFINE i == keys[k]
             y == IF contains_at(x, i) THEN reset_at(x, i) ELSE x
             Q == PresentIn(x)
  <2>1. /\ k - 1 \in 0 .. N /\ k \in 0 .. N /\ (k - 1) + 1 = k
        /\ \A j \in 1 .. k : j = k \/ j \in 1 .. k - 1
        /\ \A j \in 1 .. k - 1 : j \in 1 .. k /\ k \in 1 .. k
    BY <1>2
  <2>2. S(x, k - 1) = y /\ i \in Ordinals
    BY <2>1
  <2>3. GoodMap(x) /\ Q = Ordinals \ {keys[j] : j \in 1 .. k - 1}
    BY <2>1
  <2>4. contains_at(x, i) <=> i \in Q
    BY <2>2, <2>3, GoodMapFields
  <2>5. Q \ {i} = Ordinals \ {keys[j] : j \in 1 .. k}
    <3>1. {keys[j] : j \in 1 .. k} = {keys[j] : j \in 1 .. k - 1} \cup {i}
      BY <2>1
    <3> QED  BY <2>3, <3>1
  <2> HIDE DEF i, X
  <2>6. GoodMap(y) /\ PresentIn(y) = Q \ {i}
    <3>1. CASE i \in Q
      <4>1. y = reset_at(x, i)
        BY <2>4, <3>1
      <4> HIDE DEF y
      <4> QED  BY <2>3, <3>1, <4>1, ResetIsGood
    <3>2. CASE i \notin Q
      <4>1. y = x /\ Q \ {i} = Q
        BY <2>4, <3>2
      <4> QED  BY <2>3, <4>1
    <3> QED  BY <3>1, <3>2
  <2> HIDE DEF y, Q
  <2>7. y \in Maps
    BY <2>6 DEF GoodMap
  <2> QED  BY <2>1, <2>2, <2>5, <2>6, <2>7 DEF X
<1> HIDE DEF S
<1>5. ASSUME NEW f, SolvesLoop(f, m, X, F, N) PROVE RunsLoop(loop, m, X, F, N)
  <2>1. \A k \in 1 .. N : \A x \in X[k - 1] : F[k][x] = S(x, k - 1)
    OBVIOUS
  <2>2. \A k \in 0 .. N : k # 0 <=> k \in 1 .. N
    BY <1>2
  <2>3. 0 \in 0 .. N /\ \A k \in 1 .. N : k \in 0 .. N /\ k - 1 \in 0 .. N
    BY <1>2
  <2> HIDE DEF X, F, N
  <2>4. f = Body(f)
    BY <1>5, <2>1, <2>2, <2>3 DEF SolvesLoop
  <2> HIDE DEF Body
  <2>5. loop = Body(loop)
    BY <2>4
  <2> HIDE DEF loop
  <2> USE DEF Body
  <2> QED  BY <2>1, <2>2, <2>3, <2>5 DEF RunsLoop
<1>6. loop[N] \in X[N]
  <2>1. \A k \in 1 .. N : \A x \in X[k - 1] : F[k][x] \in X[k]
    BY <1>4
  <2> HIDE DEF X, F, N, loop
  <2> QED  BY <1>2, <1>3, <1>5, <2>1, LoopEnds
<1> HIDE DEF loop
<1>7. N \in 0 .. N
  BY <1>2
<1> QED  BY <1>1, <1>6, <1>7

(* A copy is equal to its source: every present value is constructed once, *)
(* over storage without a value.                                           *)
LEMMA CopyIsExact ==
  ASSUME build \in Instantiations, IsContainer, NEW this, GoodMap(this), NEW other, GoodMap(other)
  PROVE  CopiedFrom(this, other) = other
<1> SUFFICES ASSUME ~IsSet, ~TriviallyCopyable PROVE CopiedFrom(this, other) = other
  BY DEF CopiedFrom
<1> DEFINE N == ENUM_COUNT
           P == PresentIn(other)
           Copied(k) == [i \in Ordinals |-> IF i < k /\ i \in P THEN other.cells[i] ELSE Raw]
           a == WithBitsAndSize(clear(this), other.array_set, other.size)
           S(x, i) == IF contains_at(x, i) THEN construct_at(x, i, other.cells[i]) ELSE x
           Body(f) == [k \in 0 .. N |-> IF k = 0 THEN a ELSE S(f[k - 1], k - 1)]
           loop == CHOOSE f : f = Body(f)
           X == [k \in 0 .. N |-> {Object(Copied(k), other.array_set, other.size)}]
           F == [k \in 1 .. N |-> [x \in X[k - 1] |-> S(x, k - 1)]]
<1>1. CopiedFrom(this, other) = loop[N]
  BY DEF CopiedFrom, Iterate, WithBitsAndSize
<1>2. N \in Nat /\ Ordinals = 0 .. N - 1 /\ Kind("map")
  BY ContainerBits
<1>3. a \in X[0]
  <2> DEFINE c == clear(this)
  <2>1. GoodMap(c) /\ PresentIn(c) = {}
    BY ClearIsGood
  <2> HIDE DEF c
  <2>2. c = Object(c.cells, c.array_set, c.size) /\ c.cells \in [Ordinals -> Contents \cup {Raw}]
    BY <2>1, GoodMapFields
  <2>3. \A i \in Ordinals : c.cells[i] = Raw
    BY <2>1 DEF GoodMap
  <2>4. 0 \in 0 .. N /\ \A i \in Ordinals : ~(i < 0)
    BY <1>2
  <2>5. c.cells = Copied(0)
    BY <2>2, <2>3, <2>4
  <2> HIDE DEF Copied
  <2>6. WithBitsAndSize(c, other.array_set, other.size) = Object(c.cells, other.array_set, other.size)
    BY <2>2, AssignedBits
  <2> QED  BY <2>4, <2>5, <2>6 DEF c
<1> HIDE DEF a
<1>4. ASSUME NEW k \in 1 .. N, NEW x \in X[k - 1] PROVE S(x, k - 1) \in X[k]
  <2> DEFINE i == k - 1
             c == Copied(i)
  <2>1. /\ i \in 0 .. N /\ k \in 0 .. N /\ i \in Ordinals
        /\ \A j \in Ordinals : j < k <=> j < i \/ j = i
        /\ ~(i < i)
    BY <1>2
  <2>2. x = Object(c, other.array_set, other.size)
    BY <2>1
  <2>3. contains_at(x, i) <=> i \in P
    <3>1. x.array_set = other.array_set
      BY <2>2, ObjectFields
    <3>2. contains_at(other, i) <=> i \in P
      BY <2>1, GoodMapFields
    <3> QED  BY <3>1, <3>2 DEF contains_at
  <2>4. c[i] = Raw
    BY <2>1
  <2>5. CASE i \in P
    <3>1. other.cells[i] # Raw
      BY <1>2, <2>1, <2>5 DEF GoodMap
    <3>2. [c EXCEPT ![i] = other.cells[i]] = Copied(k)
      BY <2>1, <2>5
    <3> HIDE DEF c, Copied, i
    <3>3. construct_at(x, i, other.cells[i]) = Object(Copied(k), other.array_set, other.size)
      BY <2>2, <2>4, <3>1, <3>2, ConstructedCell
    <3>4. S(x, i) = construct_at(x, i, other.cells[i])
      BY <2>3, <2>5
    <3> QED  BY <2>1, <3>3, <3>4 DEF i
  <2>6. CASE i \notin P
    <3>1. c = Copied(k)
      BY <2>1, <2>6
    <3>2. S(x, i) = x
      BY <2>3, <2>6
    <3> HIDE DEF c, Copied
    <3> QED  BY <2>1, <2>2, <3>1, <3>2
  <2> QED  BY <2>5, <2>6
<1> HIDE DEF S
<1>5. ASSUME NEW f, SolvesLoop(f, a, X, F, N) PROVE RunsLoop(loop, a, X, F, N)
  <2>1. \A k \in 1 .. N : \A x \in X[k - 1] : F[k][x] = S(x, k - 1)
    OBVIOUS
  <2>2. \A k \in 0 .. N : k # 0 <=> k \in 1 .. N
    BY <1>2
  <2>3. 0 \in 0 .. N /\ \A k \in 1 .. N : k \in 0 .. N /\ k - 1 \in 0 .. N
    BY <1>2
  <2> HIDE DEF X, F, N
  <2>4. f = Body(f)
    BY <1>5, <2>1, <2>2, <2>3 DEF SolvesLoop
  <2> HIDE DEF Body
  <2>5. loop = Body(loop)
    BY <2>4
  <2> HIDE DEF loop
  <2> USE DEF Body
  <2> QED  BY <2>1, <2>2, <2>3, <2>5 DEF RunsLoop
<1>6. loop[N] \in X[N]
  <2>1. \A k \in 1 .. N : \A x \in X[k - 1] : F[k][x] \in X[k]
    BY <1>4
  <2> HIDE DEF X, F, N, loop
  <2> QED  BY <1>2, <1>3, <1>5, <2>1, LoopEnds
<1> HIDE DEF loop
<1>7. Copied(N) = other.cells
  <2>1. other.cells \in [Ordinals -> Contents \cup {Raw}]
    BY GoodMapFields
  <2>2. \A i \in Ordinals : i < N /\ (i \notin P => other.cells[i] = Raw)
    BY <1>2 DEF GoodMap
  <2>3. \A i \in Ordinals : Copied(N)[i] = other.cells[i]
    BY <2>2
  <2>4. other.cells = [i \in Ordinals |-> other.cells[i]]
    BY <2>1
  <2> QED  BY <2>3, <2>4
<1>8. N \in 0 .. N
  BY <1>2
<1>9. other = Object(other.cells, other.array_set, other.size)
  BY GoodMapFields
<1> HIDE DEF Copied
<1>10. loop[N] = Object(Copied(N), other.array_set, other.size)
  BY <1>6, <1>8
<1> QED  BY <1>1, <1>7, <1>9, <1>10

(* A container that was moved from holds elements without a value. *)
LEMMA MovedFromIsGood ==
  ASSUME build \in Instantiations, IsContainer, NEW m, GoodMap(m)
  PROVE  /\ GoodMap(MovedFromMap(m)) /\ PresentIn(MovedFromMap(m)) = PresentIn(m)
         /\ GoodMap(ClearedAfterMove(m))
<1> DEFINE c == [i \in Ordinals |->
                   IF IsSet \/ ~contains_at(m, i) THEN m.cells[i] ELSE MovedOut(m.cells[i])]
           P == PresentIn(m)
<1>0. m = Object(m.cells, m.array_set, m.size)
  BY GoodMapFields
<1>1. /\ m.cells \in [Ordinals -> Contents \cup {Raw}] /\ GoodBits(m.array_set)
      /\ m.size \in Nat /\ P = Bits(m.array_set) /\ m.size = Cardinality(P)
      /\ \A i \in Ordinals : contains_at(m, i) <=> i \in P
  BY GoodMapFields
<1>2. MovedFromMap(m) = Object(c, m.array_set, m.size)
  <2>1. MovedFromMap(m) = [m EXCEPT !.cells = c]
    BY DEF MovedFromMap
  <2>2. \A x : [Object(m.cells, m.array_set, m.size) EXCEPT !.cells = x] = Object(x, m.array_set, m.size)
    BY DEF Object
  <2> HIDE DEF c
  <2> QED  BY <1>0, <2>1, <2>2
<1>3. MovedFrom \in Contents /\ MovedFrom # Raw
  BY RawIsNoValue DEF Contents
<1>4. c \in [Ordinals -> Contents \cup {Raw}]
  BY <1>1, <1>3 DEF MovedOut
<1>5. \A i \in Ordinals : /\ Kind("map") /\ i \in P => c[i] # Raw
                          /\ ~TriviallyCopyable /\ i \notin P => c[i] = Raw
                          /\ IsSet => c[i] = Raw
  BY <1>1, <1>3 DEF MovedOut, GoodMap
<1> HIDE DEF c
<1>6. GoodMap(MovedFromMap(m)) /\ PresentIn(MovedFromMap(m)) = P
  BY <1>1, <1>2, <1>4, <1>5, MakesGoodMap
<1>7. GoodMap(ClearedAfterMove(m))
  BY <1>6, ClearIsGood DEF ClearedAfterMove
<1> QED  BY <1>6, <1>7

(* The iterators: advance finds the next present ordinal, recede the one   *)
(* before.                                                                 *)
LEMMA AdvanceFindsNext ==
  ASSUME build \in Instantiations, IsContainer, NEW m, GoodMap(m), NEW i \in 0 .. ENUM_COUNT
  PROVE  LET j == advance(m, i) IN
         /\ j \in PresentIn(m) \cup {ENUM_COUNT}
         /\ i < ENUM_COUNT => i < j
         /\ \A k \in PresentIn(m) : k > i => k >= j
<1> DEFINE P == PresentIn(m)
           S == {j \in i + 1 .. ENUM_COUNT - 1 : contains_at(m, j)}
           IsNext(j) == contains_at(m, j) /\ \A k \in i + 1 .. j - 1 : ~contains_at(m, k)
<1>1. /\ ENUM_COUNT \in Nat /\ i \in Nat /\ Ordinals = 0 .. ENUM_COUNT - 1 /\ P \subseteq Ordinals
      /\ \A k \in Ordinals : contains_at(m, k) <=> k \in P
  BY ContainerBits, GoodMapFields
<1>2. S = {j \in P : j > i}
  BY <1>1
<1>3. CASE S = {}
  <2>1. advance(m, i) = ENUM_COUNT
    BY <1>3 DEF advance
  <2>2. \A k \in P : ~(k > i)
    BY <1>2, <1>3
  <2> QED  BY <2>1, <2>2
<1>4. CASE S # {}
  <2> DEFINE j == advance(m, i)
  <2>1. PICK q \in S : \A y \in S : q <= y
    <3>1. S \subseteq Nat
      BY <1>1
    <3> QED  BY <1>4, <3>1, LeastOfSet
  <2>2. q \in i + 1 .. ENUM_COUNT - 1 /\ IsNext(q)
    <3>1. \A k \in i + 1 .. q - 1 : k \in i + 1 .. ENUM_COUNT - 1 /\ ~(q <= k)
      BY <1>1
    <3> QED  BY <2>1, <3>1
  <2>3. j = CHOOSE k \in i + 1 .. ENUM_COUNT - 1 : IsNext(k)
    BY <1>4 DEF advance
  <2> HIDE DEF j
  <2>4. j \in i + 1 .. ENUM_COUNT - 1 /\ IsNext(j)
    BY <2>2, <2>3
  <2>5. j \in P /\ i < j
    BY <1>1, <2>4
  <2>6. ASSUME NEW k \in P, k > i PROVE k >= j
    <3>1. k \in Nat /\ j \in Nat /\ contains_at(m, k)
      BY <1>1, <2>4
    <3>2. ~(k \in i + 1 .. j - 1)
      BY <2>4, <3>1
    <3> QED  BY <1>1, <2>6, <3>1, <3>2
  <2> QED  BY <2>5, <2>6 DEF j
<1> QED  BY <1>3, <1>4

LEMMA RecedeFindsPrevious ==
  ASSUME build \in Instantiations, IsContainer, NEW m, GoodMap(m), NEW i \in 0 .. ENUM_COUNT
  PROVE  LET j == recede(m, i) IN
         /\ j \in PresentIn(m) \cup {-1}
         /\ j < i
         /\ \A k \in PresentIn(m) : k < i => k <= j
<1> DEFINE P == PresentIn(m)
           S == {j \in 0 .. i - 1 : contains_at(m, j)}
           IsPrevious(j) == contains_at(m, j) /\ \A k \in j + 1 .. i - 1 : ~contains_at(m, k)
<1>1. /\ ENUM_COUNT \in Nat /\ i \in Nat /\ Ordinals = 0 .. ENUM_COUNT - 1 /\ P \subseteq Ordinals
      /\ \A k \in Ordinals : contains_at(m, k) <=> k \in P
  BY ContainerBits, GoodMapFields
<1>2. S = {j \in P : j < i}
  BY <1>1
<1>3. CASE S = {}
  <2>1. recede(m, i) = -1
    BY <1>3 DEF recede
  <2>2. \A k \in P : ~(k < i)
    BY <1>2, <1>3
  <2> QED  BY <1>1, <2>1, <2>2
<1>4. CASE S # {}
  <2> DEFINE j == recede(m, i)
             D == {i - s : s \in S}
  <2>1. \A s \in S : s \in Nat /\ s < i /\ i - s \in D /\ i - s \in Nat
    BY <1>1
  <2>2. PICK d \in D : \A y \in D : d <= y
    <3>1. D \subseteq Nat /\ D # {}
      BY <1>4, <2>1
    <3> HIDE DEF D
    <3> QED  BY <3>1, LeastOfSet
  <2>3. PICK q \in S : d = i - q
    BY <2>2
  <2>4. \A s \in S : s <= q
    <3> SUFFICES ASSUME NEW s \in S PROVE s <= q
      OBVIOUS
    <3>1. i - q <= i - s
      BY <2>1, <2>2, <2>3
    <3>2. s \in Nat /\ q \in Nat
      BY <2>1
    <3> QED  BY <1>1, <3>1, <3>2
  <2>5. q \in 0 .. i - 1 /\ IsPrevious(q)
    <3>1. \A k \in q + 1 .. i - 1 : k \in 0 .. i - 1 /\ ~(k <= q)
      BY <1>1, <2>1
    <3> QED  BY <2>4, <3>1
  <2>6. j = CHOOSE k \in 0 .. i - 1 : IsPrevious(k)
    BY <1>4 DEF recede
  <2> HIDE DEF j
  <2>7. j \in 0 .. i - 1 /\ IsPrevious(j)
    BY <2>5, <2>6
  <2>8. j \in P /\ j < i
    BY <1>1, <2>7
  <2>9. ASSUME NEW k \in P, k < i PROVE k <= j
    <3>1. k \in Nat /\ j \in Nat /\ contains_at(m, k)
      BY <1>1, <2>7
    <3>2. ~(k \in j + 1 .. i - 1)
      BY <2>7, <3>1
    <3> QED  BY <1>1, <2>9, <3>1, <3>2
  <2> QED  BY <2>8, <2>9 DEF j
<1> QED  BY <1>3, <1>4

(* The constructor of an iterator moves on to the next present ordinal. *)
LEMMA IteratorsArePresent ==
  ASSUME build \in Instantiations, IsContainer, NEW m, GoodMap(m), NEW i \in 0 .. ENUM_COUNT
  PROVE  LET j == create_iterator(m, i) IN
         /\ j \in PresentIn(m) \cup {ENUM_COUNT} /\ i <= j
         /\ \A k \in PresentIn(m) : k >= i => k >= j
         /\ i \in PresentIn(m) \cup {ENUM_COUNT} => j = i
<1> DEFINE P == PresentIn(m)
           j == create_iterator(m, i)
<1>1. /\ ENUM_COUNT \in Nat /\ i \in Nat /\ Ordinals = 0 .. ENUM_COUNT - 1 /\ P \subseteq Ordinals
      /\ \A k \in Ordinals : contains_at(m, k) <=> k \in P
      /\ i # ENUM_COUNT => i \in Ordinals /\ i < ENUM_COUNT
  BY ContainerBits, GoodMapFields
<1>2. CASE i \in P \cup {ENUM_COUNT}
  <2>1. j = i
    BY <1>1, <1>2 DEF create_iterator
  <2> QED  BY <1>1, <1>2, <2>1
<1>3. CASE i \notin P \cup {ENUM_COUNT}
  <2>1. j = advance(m, i)
    BY <1>1, <1>3 DEF create_iterator
  <2>2. j \in P \cup {ENUM_COUNT} /\ i < j /\ \A k \in P : k > i => k >= j
    BY <1>1, <1>3, <2>1, AdvanceFindsNext
  <2> HIDE DEF j
  <2>3. j \in Nat /\ \A k \in P : k >= i => k > i
    BY <1>1, <1>3, <2>2
  <2>4. /\ j \in P \cup {ENUM_COUNT} /\ i <= j
        /\ \A k \in P : k >= i => k >= j
    BY <1>1, <2>2, <2>3
  <2> QED  BY <1>3, <2>4 DEF j
<1> QED  BY <1>2, <1>3

-----------------------------------------------------------------------------
(* The order of the walks.  The rank of a key among the present ones.      *)
RankIn(P, i) == Cardinality({k \in P : k < i})

(* The next key has the next rank. *)
LEMMA RankOfNext ==
  ASSUME NEW P, P \subseteq Nat, IsFiniteSet(P), NEW p \in P, NEW q \in Nat,
         p < q, \A k \in P : k > p => k >= q
  PROVE  RankIn(P, q) = RankIn(P, p) + 1 /\ RankIn(P, p) \in Nat
<1> DEFINE B(i) == {k \in P : k < i}
<1>1. B(q) = B(p) \cup {p} /\ p \notin B(p)
  <2>1. \A k \in P : k \in Nat
    OBVIOUS
  <2>2. \A k \in P : (k < q) <=> (k < p \/ k = p)
    BY <2>1
  <2>3. ~(p < p)
    BY <2>1
  <2> QED  BY <2>2, <2>3
<1>2. IsFiniteSet(B(p))
  BY FS_Subset
<1> HIDE DEF B
<1>3. Cardinality(B(q)) = Cardinality(B(p)) + 1 /\ Cardinality(B(p)) \in Nat
  BY <1>1, <1>2, OneMoreOrLess
<1> QED  BY <1>3 DEF RankIn, B

(* Ranks count from 0, and are smaller than the number of keys. *)
LEMMA RankIsBounded ==
  ASSUME NEW P, P \subseteq Nat, IsFiniteSet(P)
  PROVE  /\ \A p \in P : RankIn(P, p) \in Nat /\ RankIn(P, p) < Cardinality(P)
         /\ \A i \in Nat : (\A k \in P : k >= i) => RankIn(P, i) = 0
         /\ \A i \in Nat : (\A k \in P : k < i) => RankIn(P, i) = Cardinality(P)
<1> DEFINE B(i) == {k \in P : k < i}
<1>1. Cardinality(P) \in Nat
  BY FS_CardinalityType
<1>2. ASSUME NEW p \in P PROVE RankIn(P, p) \in Nat /\ RankIn(P, p) < Cardinality(P)
  <2>1. B(p) \in SUBSET P /\ p \notin B(p) /\ B(p) # P
    <3>1. p \in Nat /\ ~(p < p)
      OBVIOUS
    <3> QED  BY <3>1
  <2> HIDE DEF B
  <2>2. IsFiniteSet(B(p)) /\ Cardinality(B(p)) <= Cardinality(P) /\ Cardinality(B(p)) # Cardinality(P)
    BY <2>1, FS_Subset
  <2>3. Cardinality(B(p)) \in Nat
    BY <2>2, FS_CardinalityType
  <2> QED  BY <1>1, <2>2, <2>3 DEF RankIn, B
<1>3. ASSUME NEW i \in Nat, \A k \in P : k >= i PROVE RankIn(P, i) = 0
  <2>1. \A k \in P : k \in Nat /\ ~(k < i)
    BY <1>3
  <2>2. B(i) = {}
    BY <2>1
  <2> QED  BY <2>2, FS_EmptySet DEF RankIn
<1>4. ASSUME NEW i \in Nat, \A k \in P : k < i PROVE RankIn(P, i) = Cardinality(P)
  <2>1. B(i) = P
    BY <1>4
  <2> QED  BY <2>1 DEF RankIn
<1> QED  BY <1>2, <1>3, <1>4

(* From begin() on, step j stands at the key of rank j, the last at end(). *)
LEMMA ForwardWalk ==
  ASSUME build \in Instantiations, IsContainer, NEW m, GoodMap(m)
  PROVE  LET n == Cardinality(PresentIn(m))
             forward[j \in 0 .. n] == IF j = 0 THEN begin(m) ELSE advance(m, forward[j - 1])
         IN  /\ forward[n] = ENUM_COUNT
             /\ \A j \in 0 .. n - 1 :
                  forward[j] \in PresentIn(m) /\ RankIn(PresentIn(m), forward[j]) = j
<1> DEFINE P == PresentIn(m)
           N == Cardinality(P)
           z == begin(m)
           S(x, k) == advance(m, x)
           Body(f) == [k \in 0 .. N |-> IF k = 0 THEN z ELSE S(f[k - 1], k - 1)]
           loop == CHOOSE f : f = Body(f)
           X == [k \in 0 .. N |-> IF k < N THEN {p \in P : RankIn(P, p) = k} ELSE {ENUM_COUNT}]
           F == [k \in 1 .. N |-> [x \in X[k - 1] |-> S(x, k - 1)]]
<1>1. /\ ENUM_COUNT \in Nat /\ Ordinals = 0 .. ENUM_COUNT - 1 /\ P \subseteq Ordinals
      /\ IsFiniteSet(P) /\ P \subseteq Nat /\ \A k \in P : k < ENUM_COUNT
  BY ContainerBits, GoodMapFields
<1>2. N \in Nat
  BY <1>1, FS_CardinalityType
<1>3. z \in X[0]
  <2>1. 0 \in 0 .. ENUM_COUNT /\ \A k \in P : k >= 0
    BY <1>1
  <2>2. z \in P \cup {ENUM_COUNT} /\ \A k \in P : k >= z
    BY <2>1, IteratorsArePresent DEF begin
  <2> HIDE DEF z, P
  <2>3. z \in Nat /\ 0 \in 0 .. N
    BY <1>1, <1>2, <2>2
  <2>4. RankIn(P, z) = 0
    BY <1>1, <2>2, <2>3, RankIsBounded
  <2>5. CASE z \in P
    <3>1. 0 < N
      BY <1>1, <2>4, <2>5, RankIsBounded
    <3> QED  BY <2>3, <2>4, <2>5, <3>1
  <2>6. CASE z = ENUM_COUNT
    <3>1. N = 0
      BY <1>1, <2>4, <2>6, RankIsBounded
    <3> QED  BY <2>3, <2>6, <3>1
  <2> QED  BY <2>2, <2>5, <2>6
<1> HIDE DEF z
<1>4. ASSUME NEW k \in 1 .. N, NEW x \in X[k - 1] PROVE S(x, k - 1) \in X[k]
  <2> DEFINE q == advance(m, x)
  <2>1. k - 1 \in 0 .. N /\ k - 1 < N /\ k \in 0 .. N /\ (k - 1) + 1 = k
    BY <1>2
  <2>2. x \in P /\ RankIn(P, x) = k - 1
    BY <2>1
  <2>3. q \in P \cup {ENUM_COUNT} /\ x < q /\ \A a \in P : a > x => a >= q
    <3>1. x \in 0 .. ENUM_COUNT /\ x < ENUM_COUNT
      BY <1>1, <2>2
    <3> QED  BY <3>1, AdvanceFindsNext
  <2> HIDE DEF q, P
  <2>4. q \in Nat
    BY <1>1, <2>3
  <2>5. RankIn(P, q) = k
    BY <1>1, <2>1, <2>2, <2>3, <2>4, RankOfNext
  <2>6. CASE q \in P
    <3>1. k < N
      BY <1>1, <2>5, <2>6, RankIsBounded
    <3> QED  BY <2>1, <2>5, <2>6, <3>1 DEF q
  <2>7. CASE q = ENUM_COUNT
    <3>1. k = N
      BY <1>1, <2>5, <2>7, RankIsBounded
    <3>2. ~(N < N)
      BY <1>2
    <3> QED  BY <2>1, <2>7, <3>1, <3>2 DEF q
  <2> QED  BY <2>3, <2>6, <2>7
<1> HIDE DEF S
<1>5. ASSUME NEW f, SolvesLoop(f, z, X, F, N) PROVE RunsLoop(loop, z, X, F, N)
  <2>1. \A k \in 1 .. N : \A x \in X[k - 1] : F[k][x] = S(x, k - 1)
    OBVIOUS
  <2>2. \A k \in 0 .. N : k # 0 <=> k \in 1 .. N
    BY <1>2
  <2>3. 0 \in 0 .. N /\ \A k \in 1 .. N : k \in 0 .. N /\ k - 1 \in 0 .. N
    BY <1>2
  <2> HIDE DEF X, F, N
  <2>4. f = Body(f)
    BY <1>5, <2>1, <2>2, <2>3 DEF SolvesLoop
  <2> HIDE DEF Body
  <2>5. loop = Body(loop)
    BY <2>4
  <2> HIDE DEF loop
  <2> USE DEF Body
  <2> QED  BY <2>1, <2>2, <2>3, <2>5 DEF RunsLoop
<1>6. \A k \in 0 .. N : loop[k] \in X[k]
  <2>1. \A k \in 1 .. N : \A x \in X[k - 1] : F[k][x] \in X[k]
    BY <1>4
  <2> HIDE DEF X, F, N, loop
  <2> QED  BY <1>2, <1>3, <1>5, <2>1, LoopStays
<1>7. /\ loop[N] = ENUM_COUNT
      /\ \A j \in 0 .. N - 1 : loop[j] \in P /\ RankIn(P, loop[j]) = j
  <2>1. N \in 0 .. N /\ ~(N < N) /\ \A j \in 0 .. N - 1 : j \in 0 .. N /\ j < N
    BY <1>2
  <2> HIDE DEF loop, P, N
  <2> QED  BY <1>6, <2>1 DEF X
<1> USE DEF S
<1> QED  BY <1>7 DEF z

(* From rbegin() on, step j stands at the key of rank n - 1 - j, the last  *)
(* at rend().                                                              *)
LEMMA ReverseWalk ==
  ASSUME build \in Instantiations, IsContainer, NEW m, GoodMap(m)
  PROVE  LET n == Cardinality(PresentIn(m))
             reverse[j \in 0 .. n] == IF j = 0 THEN rbegin(m) ELSE recede(m, reverse[j - 1])
         IN  /\ reverse[n] = -1
             /\ \A j \in 0 .. n - 1 :
                  reverse[j] \in PresentIn(m) /\ RankIn(PresentIn(m), reverse[j]) = n - 1 - j
<1> DEFINE P == PresentIn(m)
           N == Cardinality(P)
           z == rbegin(m)
           S(x, k) == recede(m, x)
           Body(f) == [k \in 0 .. N |-> IF k = 0 THEN z ELSE S(f[k - 1], k - 1)]
           loop == CHOOSE f : f = Body(f)
           X == [k \in 0 .. N |-> IF k < N THEN {p \in P : RankIn(P, p) = N - 1 - k} ELSE {-1}]
           F == [k \in 1 .. N |-> [x \in X[k - 1] |-> S(x, k - 1)]]
<1>1. /\ ENUM_COUNT \in Nat /\ Ordinals = 0 .. ENUM_COUNT - 1 /\ P \subseteq Ordinals
      /\ IsFiniteSet(P) /\ P \subseteq Nat /\ \A k \in P : k < ENUM_COUNT
  BY ContainerBits, GoodMapFields
<1>2. N \in Nat
  BY <1>1, FS_CardinalityType
<1>3. z \in X[0]
  <2>1. ENUM_COUNT \in 0 .. ENUM_COUNT /\ ENUM_COUNT \in PresentIn(m) \cup {ENUM_COUNT}
    BY <1>1
  <2>2. create_iterator(m, ENUM_COUNT) = ENUM_COUNT
    BY <2>1, IteratorsArePresent
  <2>3. z = recede(m, ENUM_COUNT)
    BY <2>2 DEF rbegin, create_reverse_iterator
  <2>4. z \in P \cup {-1} /\ z < ENUM_COUNT /\ \A k \in P : k < ENUM_COUNT => k <= z
    BY <2>1, <2>3, RecedeFindsPrevious
  <2> HIDE DEF z, P
  <2>5. RankIn(P, ENUM_COUNT) = N
    BY <1>1, RankIsBounded
  <2> HIDE DEF N
  <2>8. 0 \in 0 .. N
    BY <1>2
  <2>6. CASE z \in P
    <3>1. \A k \in P : k > z => k >= ENUM_COUNT
      BY <1>1, <2>4, <2>6
    <3>2. N = RankIn(P, z) + 1 /\ RankIn(P, z) \in Nat
      BY <1>1, <2>4, <2>5, <2>6, <3>1, RankOfNext
    <3>3. 0 < N /\ RankIn(P, z) = N - 1 - 0
      BY <1>2, <3>2
    <3> QED  BY <2>6, <2>8, <3>3
  <2>7. CASE z = -1
    <3>1. P = {}
      BY <1>1, <2>4, <2>7
    <3>2. N = 0
      BY <3>1, FS_EmptySet DEF N
    <3> QED  BY <2>7, <2>8, <3>2
  <2> QED  BY <2>4, <2>6, <2>7
<1> HIDE DEF z
<1>4. ASSUME NEW k \in 1 .. N, NEW x \in X[k - 1] PROVE S(x, k - 1) \in X[k]
  <2> DEFINE q == recede(m, x)
  <2>1. k - 1 \in 0 .. N /\ k - 1 < N /\ k \in 0 .. N /\ k \in Nat /\ N - 1 - (k - 1) = N - k
    BY <1>2
  <2>2. x \in P /\ RankIn(P, x) = N - k
    BY <2>1
  <2>3. q \in P \cup {-1} /\ q < x /\ \A a \in P : a < x => a <= q
    <3>1. x \in 0 .. ENUM_COUNT
      BY <1>1, <2>2
    <3> QED  BY <3>1, RecedeFindsPrevious
  <2> HIDE DEF q, P
  <2>4. x \in Nat
    BY <1>1, <2>2
  <2>5. CASE q \in P
    <3>1. \A a \in P : a > q => a >= x
      BY <1>1, <2>3, <2>4, <2>5
    <3>2. N - k = RankIn(P, q) + 1 /\ RankIn(P, q) \in Nat
      BY <1>1, <2>2, <2>3, <2>4, <2>5, <3>1, RankOfNext
    <3>3. k < N /\ RankIn(P, q) = N - 1 - k
      BY <1>2, <2>1, <3>2
    <3> QED  BY <2>1, <2>5, <3>3 DEF q
  <2>6. CASE q = -1
    <3>1. \A a \in P : a >= x
      BY <1>1, <2>3, <2>4, <2>6
    <3>2. N - k = 0
      BY <1>1, <2>2, <2>4, <3>1, RankIsBounded
    <3>3. k = N /\ ~(N < N)
      BY <1>2, <2>1, <3>2
    <3> QED  BY <2>1, <2>6, <3>3 DEF q
  <2> QED  BY <2>3, <2>5, <2>6
<1> HIDE DEF S
<1>5. ASSUME NEW f, SolvesLoop(f, z, X, F, N) PROVE RunsLoop(loop, z, X, F, N)
  <2>1. \A k \in 1 .. N : \A x \in X[k - 1] : F[k][x] = S(x, k - 1)
    OBVIOUS
  <2>2. \A k \in 0 .. N : k # 0 <=> k \in 1 .. N
    BY <1>2
  <2>3. 0 \in 0 .. N /\ \A k \in 1 .. N : k \in 0 .. N /\ k - 1 \in 0 .. N
    BY <1>2
  <2> HIDE DEF X, F, N
  <2>4. f = Body(f)
    BY <1>5, <2>1, <2>2, <2>3 DEF SolvesLoop
  <2> HIDE DEF Body
  <2>5. loop = Body(loop)
    BY <2>4
  <2> HIDE DEF loop
  <2> USE DEF Body
  <2> QED  BY <2>1, <2>2, <2>3, <2>5 DEF RunsLoop
<1>6. \A k \in 0 .. N : loop[k] \in X[k]
  <2>1. \A k \in 1 .. N : \A x \in X[k - 1] : F[k][x] \in X[k]
    BY <1>4
  <2> HIDE DEF X, F, N, loop
  <2> QED  BY <1>2, <1>3, <1>5, <2>1, LoopStays
<1>7. /\ loop[N] = -1
      /\ \A j \in 0 .. N - 1 : loop[j] \in P /\ RankIn(P, loop[j]) = N - 1 - j
  <2>1. N \in 0 .. N /\ ~(N < N) /\ \A j \in 0 .. N - 1 : j \in 0 .. N /\ j < N
    BY <1>2
  <2> HIDE DEF loop, P, N
  <2> QED  BY <1>6, <2>1 DEF X
<1> USE DEF S
<1> QED  BY <1>7 DEF z

(* A good object is well formed. *)
LEMMA GoodMapIsWellFormed ==
  ASSUME build \in Instantiations, IsContainer, NEW m, GoodMap(m)
  PROVE  MapWellFormed(m)
<1> DEFINE present == PresentIn(m)
           n == Cardinality(present)
           forward == CHOOSE f : f = [j \in 0 .. n |->
                        IF j = 0 THEN begin(m) ELSE advance(m, f[j - 1])]
           reverse == CHOOSE f : f = [j \in 0 .. n |->
                        IF j = 0 THEN rbegin(m) ELSE recede(m, f[j - 1])]
<1>1. /\ ENUM_COUNT \in Nat /\ Ordinals = 0 .. ENUM_COUNT - 1 /\ present \subseteq Ordinals
      /\ Keys = Ordinals /\ (\A i \in Ordinals : contains_at(m, i) <=> i \in present)
      /\ ENUM_COUNT \in 0 .. ENUM_COUNT /\ 0 \in 0 .. ENUM_COUNT
  BY ContainerBits, GoodMapFields
<1>2. end(m) = ENUM_COUNT
  BY <1>1, IteratorsArePresent DEF end
<1>3. rend(m) = -1
  <2> DEFINE b == create_iterator(m, 0)
  <2>1. b \in present \cup {ENUM_COUNT} /\ \A k \in present : k >= 0 => k >= b
    BY <1>1, IteratorsArePresent
  <2> HIDE DEF b
  <2>2. b \in 0 .. ENUM_COUNT /\ \A k \in present : k \in Nat /\ ~(k < b)
    BY <1>1, <2>1
  <2>3. recede(m, b) \in present \cup {-1} /\ recede(m, b) < b
    BY <2>2, RecedeFindsPrevious
  <2>4. recede(m, b) = -1
    BY <2>2, <2>3
  <2> QED  BY <2>4 DEF rend, create_reverse_iterator, b
<1>4. ~m.ub /\ Trimmed(m.array_set) /\ m.size = n
  BY DEF GoodMap
<1>5. ASSUME NEW i \in Keys
      PROVE  /\ Kind("map") /\ i \in present => m.cells[i] # Raw
             /\ ~TriviallyCopyable /\ i \notin present => m.cells[i] = Raw
             /\ find(m, i) = IF i \in present THEN i ELSE end(m)
  <2>1. i \in 0 .. ENUM_COUNT
    BY <1>1
  <2>2. i \in present => create_iterator(m, i) = i
    BY <2>1, IteratorsArePresent
  <2> QED  BY <1>1, <2>2 DEF GoodMap, find
<1>6. /\ forward[n] = end(m)
      /\ \A j \in 0 .. n - 1 :
           forward[j] \in present /\ Cardinality({k \in present : k < forward[j]}) = j
  BY <1>2, ForwardWalk DEF RankIn
<1>7. /\ reverse[n] = rend(m)
      /\ \A j \in 0 .. n - 1 :
           reverse[j] \in present /\ Cardinality({k \in present : k < reverse[j]}) = n - 1 - j
  BY <1>3, ReverseWalk DEF RankIn
<1> QED  BY <1>4, <1>5, <1>6, <1>7 DEF MapWellFormed

(* erase_if_impl: its iterator is present or end(), everything behind it   *)
(* that the predicate holds for is gone, and every step moves it forward.  *)
LEMMA EraseIfIsGood ==
  ASSUME build \in Instantiations, IsContainer, NEW m, GoodMap(m), NEW pred
  PROVE  LET x == erase_if(m, pred) IN
         /\ GoodMap(x) /\ PresentIn(x) = PresentIn(m) \ pred
         /\ \A i \in PresentIn(x) : x.cells[i] = m.cells[i]
<1> DEFINE N == ENUM_COUNT
           P == PresentIn(m)
           z == [m |-> m, it |-> begin(m)]
           S(s, k) == IF s.it = end(m) THEN s
                      ELSE IF s.it \in pred
                      THEN LET e == reset_at(s.m, s.it) IN [m |-> e, it |-> create_iterator(e, s.it)]
                      ELSE [s EXCEPT !.it = advance(s.m, s.it)]
           Body(f) == [k \in 0 .. N |-> IF k = 0 THEN z ELSE S(f[k - 1], k - 1)]
           loop == CHOOSE f : f = Body(f)
           X == [k \in 0 .. N |-> {s \in [m : Maps, it : Int] :
                   /\ GoodMap(s.m) /\ s.it \in PresentIn(s.m) \cup {N} /\ s.it >= k
                   /\ PresentIn(s.m) = {p \in P : p \in pred => p >= s.it}
                   /\ \A i \in PresentIn(s.m) : s.m.cells[i] = m.cells[i]}]
           F == [k \in 1 .. N |-> [x \in X[k - 1] |-> S(x, k - 1)]]
<1>1. erase_if(m, pred) = loop[N].m
  BY DEF erase_if, Iterate
<1>2. /\ N \in Nat /\ Ordinals = 0 .. N - 1 /\ P \subseteq Ordinals /\ end(m) = N
      /\ P \subseteq Nat /\ 0 \in 0 .. N /\ N \in 0 .. N
  <2>1. N \in Nat /\ Ordinals = 0 .. N - 1 /\ P \subseteq Ordinals
    BY ContainerBits, GoodMapFields
  <2>2. 0 \in 0 .. N /\ N \in 0 .. N /\ P \subseteq Nat
    BY <2>1
  <2> QED  BY <2>1, <2>2, IteratorsArePresent DEF end
<1>3. z \in X[0]
  <2> DEFINE b == begin(m)
  <2>1. b \in P \cup {N} /\ \A k \in P : k >= 0 => k >= b
    BY <1>2, IteratorsArePresent DEF begin
  <2> HIDE DEF b, P
  <2>2. b \in Int /\ b >= 0
    BY <1>2, <2>1
  <2>3. P = {p \in P : p \in pred => p >= b}
    <3>1. \A p \in P : p >= b
      BY <1>2, <2>1
    <3> QED  BY <3>1
  <2>4. m \in Maps
    BY DEF GoodMap
  <2> QED  BY <1>2, <2>1, <2>2, <2>3, <2>4 DEF b, P
<1> HIDE DEF z
<1>4. ASSUME NEW k \in 1 .. N, NEW x \in X[k - 1] PROVE S(x, k - 1) \in X[k]
  <2> DEFINE i == x.it
             y == x.m
             Q == PresentIn(y)
             R(a) == {p \in P : p \in pred => p >= a}
  <2>1. k - 1 \in 0 .. N /\ k \in 0 .. N /\ k <= N /\ k \in Int
    BY <1>2
  <2>2. /\ GoodMap(y) /\ i \in Q \cup {N} /\ i >= k - 1 /\ Q = R(i)
        /\ (\A a \in Q : y.cells[a] = m.cells[a]) /\ x \in [m : Maps, it : Int]
    BY <2>1
  <2>3. ASSUME NEW w, NEW j, GoodMap(w), j \in PresentIn(w) \cup {N}, j \in Int, j >= k,
               PresentIn(w) = R(j), \A a \in PresentIn(w) : w.cells[a] = m.cells[a],
               S(x, k - 1) = [m |-> w, it |-> j]
        PROVE  S(x, k - 1) \in X[k]
    <3>1. w \in Maps
      BY <2>3 DEF GoodMap
    <3> HIDE DEF S
    <3> QED  BY <2>1, <2>3, <3>1
  <2>4. x = [m |-> y, it |-> i] /\ i \in Int /\ y \in Maps
    BY <2>2
  <2>5. i \in 0 .. N
    BY <1>2, <2>2
  <2>6. CASE i = N
    <3>1. S(x, k - 1) = [m |-> y, it |-> i] /\ i >= k
      BY <1>2, <2>1, <2>4, <2>6
    <3> QED  BY <2>2, <2>3, <2>4, <3>1
  <2>7. CASE i # N /\ i \in pred
    <3> DEFINE e == reset_at(y, i)
               j == create_iterator(e, i)
    <3>1. S(x, k - 1) = [m |-> e, it |-> j]
      BY <1>2, <2>7
    <3>2. GoodMap(e) /\ PresentIn(e) = Q \ {i} /\ \A a \in Ordinals \ {i} : e.cells[a] = y.cells[a]
      BY <2>2, <2>7, ResetIsGood
    <3> HIDE DEF e
    <3>3. /\ j \in PresentIn(e) \cup {N} /\ i <= j
          /\ \A a \in PresentIn(e) : a >= i => a >= j
      BY <2>5, <3>2, IteratorsArePresent
    <3> HIDE DEF i, y, Q, j, P, X, S
    <3>4. j \in Int /\ j >= k
      <4>0. Q \subseteq Nat
        BY <1>2, <2>2
      <4>1. j \in Int /\ j # i
        <5>1. j \in (Q \ {i}) \cup {N}
          BY <3>2, <3>3
        <5> HIDE DEF N
        <5> QED  BY <1>2, <2>7, <4>0, <5>1
      <4> QED  BY <2>1, <2>2, <2>4, <3>3, <4>1
    <3>5. PresentIn(e) = R(j)
      <4>1. \A a \in P : a \in R(i) /\ a # i => (a >= i => a >= j)
        BY <2>2, <3>2, <3>3
      <4>2. \A a \in P : a \in Nat /\ (a >= i \/ a < i) /\ (a >= j => a >= i)
        BY <1>2, <2>4, <3>3, <3>4
      <4>3. ~(i >= j)
        BY <1>2, <2>4, <2>5, <2>7, <3>2, <3>3, <3>4
      <4>4. ASSUME NEW a \in P PROVE a \in R(i) /\ a # i <=> a \in R(j)
        BY <2>7, <4>1, <4>2, <4>3
      <4>5. R(i) \subseteq P /\ R(j) \subseteq P
        OBVIOUS
      <4> HIDE DEF R
      <4> QED  BY <2>2, <3>2, <4>4, <4>5
    <3>6. \A a \in PresentIn(e) : e.cells[a] = m.cells[a]
      <4>1. Q \subseteq Ordinals
        BY <1>2, <2>2
      <4> QED  BY <2>2, <3>2, <4>1
    <3> QED  BY <2>3, <3>1, <3>2, <3>3, <3>4, <3>5, <3>6
  <2>8. CASE i # N /\ i \notin pred
    <3> DEFINE j == advance(y, i)
    <3>1. S(x, k - 1) = [m |-> y, it |-> j]
      <4>1. S(x, k - 1) = [x EXCEPT !.it = j]
        BY <1>2, <2>8
      <4>2. \A a : [[m |-> y, it |-> i] EXCEPT !.it = a] = [m |-> y, it |-> a]
        <5> HIDE DEF y, i
        <5> QED  OBVIOUS
      <4> HIDE DEF j, S, y, i
      <4> QED  BY <2>4, <4>1, <4>2
    <3>2. /\ j \in Q \cup {N} /\ i < j
          /\ \A a \in Q : a > i => a >= j
      <4>1. i < N
        BY <1>2, <2>5, <2>8
      <4> QED  BY <2>2, <2>5, <4>1, AdvanceFindsNext
    <3> HIDE DEF i, y, Q, j, P, X, S
    <3>3. j \in Int /\ j >= k
      BY <1>2, <2>1, <2>2, <2>4, <2>5, <2>8, <3>2
    <3>4. Q = R(j)
      <4>1. \A a \in P : a \in R(i) => (a > i => a >= j)
        BY <2>2, <3>2
      <4>2. \A a \in P : a \in Nat /\ (a >= i => a > i \/ a = i) /\ (a >= j => a >= i)
        <5>1. i \in Int /\ j \in Int /\ i < j /\ \A a \in P : a \in Nat
          BY <1>2, <2>4, <3>2, <3>3
        <5> QED  BY <5>1
      <4>3. ASSUME NEW a \in P PROVE a \in R(i) <=> a \in R(j)
        BY <2>8, <4>1, <4>2
      <4>4. R(i) \subseteq P /\ R(j) \subseteq P
        OBVIOUS
      <4> HIDE DEF R
      <4> QED  BY <2>2, <4>3, <4>4
    <3> QED  BY <2>2, <2>3, <3>1, <3>2, <3>3, <3>4 DEF Q
  <2> QED  BY <2>6, <2>7, <2>8
<1> HIDE DEF S
<1>5. ASSUME NEW f, SolvesLoop(f, z, X, F, N) PROVE RunsLoop(loop, z, X, F, N)
  <2>1. \A k \in 1 .. N : \A x \in X[k - 1] : F[k][x] = S(x, k - 1)
    OBVIOUS
  <2>2. \A k \in 0 .. N : k # 0 <=> k \in 1 .. N
    BY <1>2
  <2>3. 0 \in 0 .. N /\ \A k \in 1 .. N : k \in 0 .. N /\ k - 1 \in 0 .. N
    BY <1>2
  <2> HIDE DEF X, F, N
  <2>4. f = Body(f)
    BY <1>5, <2>1, <2>2, <2>3 DEF SolvesLoop
  <2> HIDE DEF Body
  <2>5. loop = Body(loop)
    BY <2>4
  <2> HIDE DEF loop
  <2> USE DEF Body
  <2> QED  BY <2>1, <2>2, <2>3, <2>5 DEF RunsLoop
<1>6. loop[N] \in X[N]
  <2>1. \A k \in 1 .. N : \A x \in X[k - 1] : F[k][x] \in X[k]
    BY <1>4
  <2> HIDE DEF X, F, N, loop
  <2> QED  BY <1>2, <1>3, <1>5, <2>1, LoopEnds
<1> HIDE DEF loop
<1>7. /\ GoodMap(loop[N].m) /\ \A i \in PresentIn(loop[N].m) : loop[N].m.cells[i] = m.cells[i]
      /\ PresentIn(loop[N].m) = {p \in P : p \in pred => p >= loop[N].it}
      /\ loop[N].it >= N /\ loop[N].it \in Int
  BY <1>2, <1>6
<1>8. {p \in P : p \in pred => p >= loop[N].it} = P \ pred
  <2>1. \A p \in P : ~(p >= loop[N].it)
    BY <1>2, <1>7
  <2> QED  BY <2>1
<1> QED  BY <1>1, <1>7, <1>8

-----------------------------------------------------------------------------
(* The two containers. *)
GoodContainers == GoodMap(map) /\ (temp # NoMap => GoodMap(temp))

(* A call changes map alone, or nothing when it fails. *)
LEMMA CallKeepsContainers ==
  ASSUME GoodContainers, NEW check, NEW m, NEW call, NEW pos, NEW flag,
         check => GoodMap(m), Call(check, m, call, pos, flag)
  PROVE  GoodMap(map') /\ (temp' # NoMap => GoodMap(temp'))
<1>1. temp' = temp /\ (map' = map \/ (check /\ map' = m))
  BY DEF Call
<1> QED  BY <1>1 DEF GoodContainers

LEMMA SpecialKeepsContainers ==
  ASSUME NEW m, NEW t, NEW call, GoodMap(m), t # NoMap => GoodMap(t), Special(m, t, call)
  PROVE  GoodMap(map') /\ (temp' # NoMap => GoodMap(temp'))
BY DEF Special

(* The ranges that clients pass hold keys of the enumeration. *)
LEMMA RangesAreKeys ==
  ASSUME build \in Instantiations, IsContainer, NEW ks \in RangesHere
  PROVE  /\ Len(ks) \in Nat /\ DOMAIN ks = 1 .. Len(ks) /\ ks \in KeyRanges
         /\ \A k \in 1 .. Len(ks) : ks[k] \in Ordinals
<1>1. ks \in Seq(AllOrdinals) /\ ks \in KeyRanges
  BY RangesAreSequences DEF RangesHere
<1> QED  BY <1>1, LenProperties DEF RangesHere, Keys

LEMMA PairsOfRange ==
  ASSUME build \in Instantiations, IsContainer, NEW ks \in RangesHere, NEW v
  PROVE  /\ Len(Pairs(ks, v)) = Len(ks)
         /\ \A k \in 1 .. Len(ks) : Pairs(ks, v)[k][1] = ks[k] /\ Pairs(ks, v)[k][2] = v
<1>1. Len(ks) \in Nat
  BY RangesAreKeys
<1> QED  BY <1>1 DEF Pairs

LEMMA ContainerSteps ==
  ASSUME build \in Instantiations, IsContainer, GoodContainers, ContainerNext
  PROVE  GoodMap(map') /\ (temp' # NoMap => GoodMap(temp'))
<1>1. /\ GoodMap(map) /\ Keys = Ordinals /\ ENUM_COUNT \in Nat /\ Ordinals = 0 .. ENUM_COUNT - 1
      /\ \A i \in Ordinals : contains_at(map, i) <=> i \in PresentIn(map)
      /\ \A v \in Values : v \in Contents
  BY ContainerBits, GoodMapFields DEF GoodContainers, Contents
<1>2. ASSUME NEW i \in Keys, NEW v \in Values, Insert(i, v)
      PROVE  GoodMap(map') /\ (temp' # NoMap => GoodMap(temp'))
  <2>1. GoodMap(insert(map, i, v))
    BY <1>1, InsertIsGood
  <2> QED  BY <1>2, <2>1, CallKeepsContainers DEF Insert
<1>3. ASSUME NEW i \in Keys, NEW v \in Values, InsertOrAssign(i, v)
      PROVE  GoodMap(map') /\ (temp' # NoMap => GoodMap(temp'))
  <2>1. GoodMap(insert_or_assign(map, i, v))
    BY <1>1, <1>3, InsertOrAssignIsGood DEF InsertOrAssign
  <2> QED  BY <1>3, <2>1, CallKeepsContainers DEF InsertOrAssign
<1>4. ASSUME NEW ks \in RangesHere, NEW v \in Values, InsertRange(ks, v)
      PROVE  GoodMap(map') /\ (temp' # NoMap => GoodMap(temp'))
  <2> DEFINE pairs == Pairs(ks, v)
  <2>1. /\ Len(pairs) \in Nat
        /\ \A k \in 1 .. Len(pairs) : pairs[k][1] \in Ordinals /\ pairs[k][2] = v
    BY RangesAreKeys, PairsOfRange
  <2> HIDE DEF pairs
  <2>2. GoodMap(insert_range(map, pairs))
    BY <1>1, <2>1, InsertRangeIsGood
  <2>3. Call(TRUE, insert_range(map, pairs), <<"insert_range", ks>>, ENUM_COUNT, FALSE)
    BY <1>4 DEF InsertRange, pairs
  <2> QED  BY <2>2, <2>3, CallKeepsContainers
<1>5. ASSUME NEW ks \in RangesHere, NEW v \in Values
      PROVE  GoodMap(create_with_keys(ks, v)) /\ GoodMap(complement_of(ks, v))
  BY <1>1, RangesAreKeys, CreateIsGood, ComplementIsGood
<1>6. ASSUME NEW ks \in RangesHere, NEW v \in Values,
             CreateWithKeys(ks, v) \/ ComplementOf(ks, v) \/ CreateWithAllEntries(ks, v)
      PROVE  GoodMap(map') /\ (temp' # NoMap => GoodMap(temp'))
  <2>1. CASE CreateWithKeys(ks, v)
    BY <1>1, <1>5, <2>1, SpecialKeepsContainers DEF CreateWithKeys
  <2>2. CASE ComplementOf(ks, v)
    BY <1>1, <1>5, <2>2, SpecialKeepsContainers DEF ComplementOf
  <2>3. CASE CreateWithAllEntries(ks, v)
    <3>1. \/ Special(map, create_with_keys(ks, v), <<"create", ks, Stored(v)>>)
          \/ UNCHANGED <<map, temp>>
      BY <2>3 DEF CreateWithAllEntries
    <3> QED  BY <1>1, <1>5, <3>1, SpecialKeepsContainers DEF GoodContainers
  <2> QED  BY <1>6, <2>1, <2>2, <2>3
<1>7. ASSUME NEW i \in Keys, At(i) \/ EraseKey(i)
      PROVE  GoodMap(map') /\ (temp' # NoMap => GoodMap(temp'))
  <2>1. CASE At(i)
    BY <1>1, <2>1, CallKeepsContainers DEF At
  <2>2. CASE EraseKey(i)
    <3> DEFINE m == IF contains_at(map, i) THEN reset_at(map, i) ELSE map
    <3>1. GoodMap(m)
      BY <1>1, ResetIsGood
    <3> HIDE DEF m
    <3>2. Call(TRUE, m, <<"erase_key", i>>, ENUM_COUNT, contains_at(map, i))
      BY <2>2 DEF EraseKey, m
    <3> QED  BY <3>1, <3>2, CallKeepsContainers
  <2> QED  BY <1>7, <2>1, <2>2
<1>8. ASSUME NEW pos \in Iterators, Erase(pos)
      PROVE  GoodMap(map') /\ (temp' # NoMap => GoodMap(temp'))
  <2> DEFINE here == pos # ENUM_COUNT /\ contains_at(map, pos)
             m == IF here THEN reset_at(map, pos) ELSE map
  <2>1. here => pos \in PresentIn(map)
    BY <1>1 DEF Iterators
  <2>2. GoodMap(m)
    BY <1>1, <2>1, ResetIsGood
  <2>3. Call(here, m, <<"erase">>, create_iterator(m, pos), TRUE)
    BY <1>8 DEF Erase
  <2> HIDE DEF here, m
  <2> QED  BY <2>2, <2>3, CallKeepsContainers
<1>9. ASSUME NEW first \in Iterators, NEW last \in Iterators, EraseRange(first, last)
      PROVE  GoodMap(map') /\ (temp' # NoMap => GoodMap(temp'))
  <2> DEFINE m == IF first <= last THEN reset_range(map, first, last) ELSE map
  <2>1. GoodMap(m)
    BY <1>1, ResetRangeIsGood DEF Iterators
  <2>2. Call(first <= last, m, <<"erase_range">>, create_iterator(m, last), FALSE)
    BY <1>9 DEF EraseRange
  <2> HIDE DEF m
  <2> QED  BY <2>1, <2>2, CallKeepsContainers
<1>10. ASSUME NEW pred, EraseIf(pred) PROVE GoodMap(map') /\ (temp' # NoMap => GoodMap(temp'))
  <2>1. GoodMap(erase_if(map, pred))
    BY <1>1, EraseIfIsGood
  <2> QED  BY <1>10, <2>1, CallKeepsContainers DEF EraseIf
<1>11. ASSUME Clear PROVE GoodMap(map') /\ (temp' # NoMap => GoodMap(temp'))
  <2>1. GoodMap(clear(map))
    BY <1>1, ClearIsGood
  <2> QED  BY <1>11, <2>1, CallKeepsContainers DEF Clear
<1>12. ASSUME Copy \/ Move PROVE GoodMap(map') /\ (temp' # NoMap => GoodMap(temp'))
  <2>1. CopiedFrom(EmptyMap, map) = map
    BY <1>1, EmptyMapIsGood, CopyIsExact
  <2>2. GoodMap(ClearedAfterMove(map))
    BY <1>1, MovedFromIsGood
  <2> QED  BY <1>1, <1>12, <2>1, <2>2, SpecialKeepsContainers DEF Copy, Move
<1>13. ASSUME CopyBack \/ MoveBack PROVE GoodMap(map') /\ (temp' # NoMap => GoodMap(temp'))
  <2>1. GoodMap(temp)
    BY <1>13 DEF CopyBack, MoveBack, Usable, GoodContainers
  <2>2. CopiedFrom(map, temp) = temp
    BY <1>1, <2>1, CopyIsExact
  <2>3. GoodMap(MovedFromMap(temp))
    BY <2>1, MovedFromIsGood
  <2> QED  BY <1>13, <2>1, <2>2, <2>3, SpecialKeepsContainers DEF CopyBack, MoveBack
<1>14. ASSUME ClearTemp \/ Drop PROVE GoodMap(map') /\ (temp' # NoMap => GoodMap(temp'))
  <2>1. GoodMap(temp) /\ GoodMap(clear(temp))
    BY <1>14, ClearIsGood DEF ClearTemp, Drop, GoodContainers
  <2> QED  BY <1>1, <1>14, <2>1, SpecialKeepsContainers DEF ClearTemp, Drop
<1> QED  BY <1>2, <1>3, <1>4, <1>6, <1>7, <1>8, <1>9, <1>10, <1>11, <1>12, <1>13, <1>14
         DEF ContainerNext

-----------------------------------------------------------------------------
(* Enumerations: the ordinal of an enumerator is its place in values().    *)
LEMMA OrdinalsArePlaces ==
  ASSUME build \in Instantiations
  PROVE  /\ ENUM_COUNT \in Nat /\ Ordinals = 0 .. ENUM_COUNT - 1
         /\ \A i \in Ordinals : ordinal(ENUM_VALUES[i + 1]) = i
         /\ \A key \in Enumerators :
              ordinal(key) \in Ordinals /\ ENUM_VALUES[ordinal(key) + 1] = key
<1>1. ENUM_COUNT \in Nat /\ Ordinals = 0 .. ENUM_COUNT - 1
  BY InstantiationsAreTypes, LenProperties DEF ENUM_COUNT, ENUM_VALUES, Ordinals
<1>2. \A i, j \in Ordinals : ENUM_VALUES[i + 1] = ENUM_VALUES[j + 1] => i = j
  <2>1. \A j, k \in 1 .. ENUM_COUNT : ENUM_VALUES[j] = ENUM_VALUES[k] => j = k
    BY InstantiationsAreTypes DEF ENUM_COUNT, ENUM_VALUES
  <2>2. \A i \in Ordinals : i + 1 \in 1 .. ENUM_COUNT /\ (i + 1) - 1 = i
    BY <1>1
  <2> QED  BY <2>1, <2>2
<1>3. ASSUME NEW key \in Enumerators
      PROVE  ordinal(key) \in Ordinals /\ ENUM_VALUES[ordinal(key) + 1] = key
  <2>1. \E i \in Ordinals : ENUM_VALUES[i + 1] = key
    BY DEF Enumerators
  <2> QED  BY <2>1 DEF ordinal
<1>4. ASSUME NEW i \in Ordinals PROVE ordinal(ENUM_VALUES[i + 1]) = i
  <2>1. ENUM_VALUES[i + 1] \in Enumerators
    BY DEF Enumerators
  <2> QED  BY <1>2, <1>3, <2>1
<1> QED  BY <1>1, <1>3, <1>4

(* value_of and the storage of rich enums are exact for every enumeration  *)
(* and every underlying type.                                              *)
LEMMA EnumeratorsStayExact ==
  ASSUME build \in Instantiations, NEW max PROVE EnumeratorsAreExact(max)
<1>1. \A n : value_of(n) = IF n \in Enumerators THEN n ELSE Nothing
  <2> SUFFICES ASSUME NEW n PROVE value_of(n) = IF n \in Enumerators THEN n ELSE Nothing
    OBVIOUS
  <2>1. n \in Enumerators <=> \E i \in Ordinals : ENUM_VALUES[i + 1] = n
    BY DEF Enumerators
  <2>2. CASE n \in Enumerators
    <3> DEFINE c == CHOOSE i \in Ordinals : ENUM_VALUES[i + 1] = n
    <3>1. ENUM_VALUES[c + 1] = n
      BY <2>1, <2>2
    <3>2. value_of(n) = IF n \in Ordinals /\ ENUM_VALUES[n + 1] = n
                        THEN ENUM_VALUES[n + 1] ELSE ENUM_VALUES[c + 1]
      BY <2>1, <2>2 DEF value_of
    <3> HIDE DEF c
    <3> QED  BY <2>2, <3>1, <3>2
  <2>3. CASE n \notin Enumerators
    BY <2>1, <2>3 DEF value_of
  <2> QED  BY <2>2, <2>3
<1>2. is_zero_based_contiguous_and_sorted(ENUM_VALUES)
  BY OrdinalsArePlaces DEF is_zero_based_contiguous_and_sorted
<1>3. ASSUME NEW n \in Enumerators, ~StorageAborts(max, n)
      PROVE  LET s == RichEnumStorage(max, n) IN
             /\ has_value(max, s) /\ ~SameStorage(max, s, EmptyRichEnumStorage(max))
             /\ \A k \in Enumerators \ {n} :
                  ~StorageAborts(max, k) => ~SameStorage(max, s, RichEnumStorage(max, k))
  <2>1. CASE IsBool(max)
    BY <2>1 DEF RichEnumStorage, EmptyRichEnumStorage, has_value, SameStorage
  <2>2. CASE ~IsBool(max)
    BY <1>3, <2>2 DEF RichEnumStorage, EmptyRichEnumStorage, has_value, SameStorage, StorageAborts
  <2> QED  BY <2>1, <2>2
<1>4. ~has_value(max, EmptyRichEnumStorage(max))
  BY DEF has_value, EmptyRichEnumStorage
<1>5. ASSUME ENUM_VALUES = <<0, 1>>, NEW n \in Enumerators
      PROVE  Negation(n) # n /\ Negation(Negation(n)) = n
  <2>1. ENUM_VALUES[1] = 0 /\ ENUM_VALUES[2] = 1 /\ ENUM_COUNT = 2
    BY <1>5 DEF ENUM_COUNT
  <2>2. Ordinals = 0 .. 1
    BY <2>1 DEF Ordinals
  <2>3. n = 0 \/ n = 1
    <3>1. PICK i \in Ordinals : n = ENUM_VALUES[i + 1]
      BY DEF Enumerators
    <3>2. i = 0 \/ i = 1
      BY <2>2
    <3> QED  BY <2>1, <3>1, <3>2
  <2> QED  BY <2>1, <2>3 DEF Negation
<1> QED  BY <1>1, <1>2, <1>3, <1>4, <1>5 DEF EnumeratorsAreExact

(* EnumArray(from_range, pairs): the last entry of a label stays, and a    *)
(* label without one keeps the default.                                    *)
EntryStays(x, i, pairs, n, default) ==
  \/ x[i] = default /\ \A k \in 1 .. n : pairs[k][1] # i
  \/ \E k \in 1 .. n : /\ pairs[k][1] = i /\ x[i] = pairs[k][2]
                       /\ \A l \in k + 1 .. n : pairs[l][1] # i

LEMMA FromRangeIsExact ==
  ASSUME NEW pairs, Len(pairs) \in Nat, NEW default \in Values,
         \A k \in 1 .. Len(pairs) : pairs[k][1] \in Ordinals /\ pairs[k][2] \in Values
  PROVE  LET x == from_range(pairs, default) IN
         /\ x \in [Ordinals -> Values]
         /\ \A i \in Ordinals : EntryStays(x, i, pairs, Len(pairs), default)
<1> DEFINE N == Len(pairs)
           z == [i \in Ordinals |-> default]
           S(x, k) == [x EXCEPT ![pairs[k + 1][1]] = pairs[k + 1][2]]
           Body(f) == [k \in 0 .. N |-> IF k = 0 THEN z ELSE S(f[k - 1], k - 1)]
           loop == CHOOSE f : f = Body(f)
           X == [k \in 0 .. N |-> {x \in [Ordinals -> Values] :
                   \A i \in Ordinals : EntryStays(x, i, pairs, k, default)}]
           F == [k \in 1 .. N |-> [x \in X[k - 1] |-> S(x, k - 1)]]
<1>1. from_range(pairs, default) = loop[N]
  BY DEF from_range, Iterate
<1>2. N \in Nat
  OBVIOUS
<1>3. z \in X[0]
  <2>1. 0 \in 0 .. N /\ 1 .. 0 = {}
    BY <1>2
  <2>2. \A i \in Ordinals : EntryStays(z, i, pairs, 0, default)
    BY <2>1 DEF EntryStays
  <2> QED  BY <2>1, <2>2
<1> HIDE DEF z
<1>4. ASSUME NEW k \in 1 .. N, NEW x \in X[k - 1] PROVE S(x, k - 1) \in X[k]
  <2> DEFINE y == [x EXCEPT ![pairs[k][1]] = pairs[k][2]]
  <2>1. /\ k - 1 \in 0 .. N /\ k \in 0 .. N /\ (k - 1) + 1 = k /\ k \in 1 .. k /\ k \in Nat
        /\ \A j \in 1 .. k : j = k \/ j \in 1 .. k - 1
        /\ \A j \in 1 .. k - 1 : j \in 1 .. k
        /\ k + 1 .. k = {}
        /\ \A j \in 1 .. k - 1 : \A l \in j + 1 .. k : l = k \/ l \in j + 1 .. k - 1
    BY <1>2
  <2>2. S(x, k - 1) = y /\ pairs[k][1] \in Ordinals /\ pairs[k][2] \in Values
    BY <2>1
  <2>3. x \in [Ordinals -> Values] /\ \A i \in Ordinals : EntryStays(x, i, pairs, k - 1, default)
    BY <2>1
  <2>4. y \in [Ordinals -> Values] /\ y[pairs[k][1]] = pairs[k][2]
        /\ \A i \in Ordinals : i # pairs[k][1] => y[i] = x[i]
    BY <2>2, <2>3
  <2> HIDE DEF y, X, S
  <2>5. ASSUME NEW i \in Ordinals PROVE EntryStays(y, i, pairs, k, default)
    <3>1. CASE i = pairs[k][1]
      BY <2>1, <2>4, <3>1 DEF EntryStays
    <3>2. CASE i # pairs[k][1]
      <4>1. y[i] = x[i] /\ EntryStays(x, i, pairs, k - 1, default)
        BY <2>3, <2>4, <3>2
      <4>2. CASE x[i] = default /\ \A j \in 1 .. k - 1 : pairs[j][1] # i
        BY <2>1, <3>2, <4>1, <4>2 DEF EntryStays
      <4>3. ASSUME NEW j \in 1 .. k - 1, pairs[j][1] = i, x[i] = pairs[j][2],
                   \A l \in j + 1 .. k - 1 : pairs[l][1] # i
            PROVE  EntryStays(y, i, pairs, k, default)
        <5>1. \A l \in j + 1 .. k : pairs[l][1] # i
          BY <2>1, <3>2, <4>3
        <5> QED  BY <2>1, <4>1, <4>3, <5>1 DEF EntryStays
      <4> QED  BY <4>1, <4>2, <4>3 DEF EntryStays
    <3> QED  BY <3>1, <3>2
  <2> QED  BY <2>1, <2>2, <2>4, <2>5 DEF X
<1> HIDE DEF S
<1>5. ASSUME NEW f, SolvesLoop(f, z, X, F, N) PROVE RunsLoop(loop, z, X, F, N)
  <2>1. \A k \in 1 .. N : \A x \in X[k - 1] : F[k][x] = S(x, k - 1)
    OBVIOUS
  <2>2. \A k \in 0 .. N : k # 0 <=> k \in 1 .. N
    BY <1>2
  <2>3. 0 \in 0 .. N /\ \A k \in 1 .. N : k \in 0 .. N /\ k - 1 \in 0 .. N
    BY <1>2
  <2> HIDE DEF X, F, N
  <2>4. f = Body(f)
    BY <1>5, <2>1, <2>2, <2>3 DEF SolvesLoop
  <2> HIDE DEF Body
  <2>5. loop = Body(loop)
    BY <2>4
  <2> HIDE DEF loop
  <2> USE DEF Body
  <2> QED  BY <2>1, <2>2, <2>3, <2>5 DEF RunsLoop
<1>6. loop[N] \in X[N]
  <2>1. \A k \in 1 .. N : \A x \in X[k - 1] : F[k][x] \in X[k]
    BY <1>4
  <2> HIDE DEF X, F, N, loop
  <2> QED  BY <1>2, <1>3, <1>5, <2>1, LoopEnds
<1> HIDE DEF loop
<1>7. N \in 0 .. N
  BY <1>2
<1> QED  BY <1>1, <1>6, <1>7

(* The strict constructor of EnumArray accepts exactly the lists that      *)
(* assign the entry k to ordinal k - 1.                                    *)
LEMMA StrictListsAreExact ==
  ASSUME build \in Instantiations, NEW labels \in [1 .. ENUM_COUNT -> Enumerators]
  PROVE  is_zero_based_contiguous_and_sorted(labels) <=>
           \A vs \in [1 .. ENUM_COUNT -> Values] :
             from_range([k \in 1 .. ENUM_COUNT |-> <<ordinal(labels[k]), vs[k]>>], Default)
               = [i \in Ordinals |-> vs[i + 1]]
<1> DEFINE N == ENUM_COUNT
           pairs(vs) == [k \in 1 .. N |-> <<ordinal(labels[k]), vs[k]>>]
           x(vs) == from_range(pairs(vs), Default)
<1>1. /\ N \in Nat /\ Ordinals = 0 .. N - 1
      /\ \A k \in 1 .. N : ordinal(labels[k]) \in Ordinals /\ k - 1 \in Ordinals /\ (k - 1) + 1 = k
      /\ \A i \in Ordinals : i + 1 \in 1 .. N /\ (i + 1) - 1 = i
  BY OrdinalsArePlaces
<1>2. Default \in Values
  BY SomeValuesDiffer DEF Default
<1>3. ASSUME NEW vs \in [1 .. N -> Values]
      PROVE  /\ x(vs) \in [Ordinals -> Values]
             /\ \A i \in Ordinals :
                  \/ x(vs)[i] = Default /\ \A k \in 1 .. N : ordinal(labels[k]) # i
                  \/ \E k \in 1 .. N : ordinal(labels[k]) = i /\ x(vs)[i] = vs[k]
  <2> DEFINE p == pairs(vs)
  <2>1. Len(p) = N
    BY <1>1
  <2>2. \A k \in 1 .. N : p[k][1] = ordinal(labels[k]) /\ p[k][2] = vs[k]
    OBVIOUS
  <2> HIDE DEF p
  <2>3. \A k \in 1 .. Len(p) : p[k][1] \in Ordinals /\ p[k][2] \in Values
    BY <1>1, <2>1, <2>2
  <2>4. /\ from_range(p, Default) \in [Ordinals -> Values]
        /\ \A i \in Ordinals : EntryStays(from_range(p, Default), i, p, N, Default)
    BY <1>1, <1>2, <2>1, <2>3, FromRangeIsExact
  <2> QED  BY <2>2, <2>4 DEF EntryStays, p
<1> HIDE DEF pairs, x
<1>4. ASSUME is_zero_based_contiguous_and_sorted(labels), NEW vs \in [1 .. N -> Values]
      PROVE  x(vs) = [i \in Ordinals |-> vs[i + 1]]
  <2>1. \A i \in Ordinals : ordinal(labels[i + 1]) = i
    BY <1>4 DEF is_zero_based_contiguous_and_sorted
  <2>2. ASSUME NEW i \in Ordinals PROVE x(vs)[i] = vs[i + 1]
    <3>1. i + 1 \in 1 .. N
      BY <1>1
    <3>2. PICK k \in 1 .. N : ordinal(labels[k]) = i /\ x(vs)[i] = vs[k]
      BY <1>3, <2>1, <3>1
    <3>3. ordinal(labels[(k - 1) + 1]) = k - 1
      BY <1>1, <2>1
    <3>4. k - 1 = i
      BY <1>1, <3>2, <3>3
    <3> QED  BY <1>1, <3>2, <3>4
  <2>3. x(vs) = [i \in Ordinals |-> x(vs)[i]]
    BY <1>3
  <2> QED  BY <2>2, <2>3
<1>5. ASSUME \A vs \in [1 .. N -> Values] : x(vs) = [i \in Ordinals |-> vs[i + 1]],
             NEW j \in Ordinals
      PROVE  ordinal(labels[j + 1]) = j
  <2>1. PICK a \in Values : a # Default
    BY SomeValuesDiffer
  <2> DEFINE vs == [k \in 1 .. N |-> IF k = j + 1 THEN a ELSE Default]
  <2>2. vs \in [1 .. N -> Values] /\ vs[j + 1] = a /\ \A k \in 1 .. N : k # j + 1 => vs[k] = Default
    BY <1>1, <1>2
  <2> HIDE DEF vs
  <2>3. x(vs)[j] = a
    BY <1>5, <2>2
  <2>4. PICK k \in 1 .. N : ordinal(labels[k]) = j /\ x(vs)[j] = vs[k]
    BY <1>3, <2>1, <2>2, <2>3
  <2>5. k = j + 1
    BY <2>1, <2>2, <2>3, <2>4
  <2> QED  BY <2>4, <2>5
<1>6. is_zero_based_contiguous_and_sorted(labels) <=>
        \A vs \in [1 .. N -> Values] : x(vs) = [i \in Ordinals |-> vs[i + 1]]
  BY <1>4, <1>5 DEF is_zero_based_contiguous_and_sorted
<1> QED  BY <1>6 DEF pairs, x

(* operator== compares what two good objects hold. *)
LEMMA EqualIsExact ==
  ASSUME build \in Instantiations, IsContainer, NEW m, GoodMap(m), NEW other, GoodMap(other)
  PROVE  Equal(m, other) <=> DictOf(m) = DictOf(other)
<1> DEFINE P == PresentIn(m)
           Q == PresentIn(other)
           V(o, i) == IF Kind("set") THEN Unspecified ELSE o.cells[i]
<1>1. /\ P = Bits(m.array_set) /\ Q = Bits(other.array_set)
      /\ GoodBits(m.array_set) /\ GoodBits(other.array_set)
      /\ P \subseteq Ordinals /\ Q \subseteq Ordinals
      /\ \A i \in Ordinals : contains_at(m, i) <=> i \in P
      /\ \A i \in Ordinals : contains_at(other, i) <=> i \in Q
  BY GoodMapFields
<1>2. IsSet <=> Kind("set")
  BY DEF IsSet, Kind
<1>3. (m.array_set = other.array_set) <=> P = Q
  BY <1>1, BitsAreWords
<1>4. DictOf(m) = [i \in P |-> V(m, i)] /\ DictOf(other) = [i \in Q |-> V(other, i)]
  BY DEF DictOf
<1>5. (DictOf(m) = DictOf(other)) <=> (P = Q /\ \A i \in P : V(m, i) = V(other, i))
  <2> HIDE DEF P, Q, V
  <2>1. DOMAIN DictOf(m) = P /\ DOMAIN DictOf(other) = Q
    BY <1>4
  <2>2. (\A i \in P : DictOf(m)[i] = V(m, i)) /\ (\A i \in Q : DictOf(other)[i] = V(other, i))
    BY <1>4
  <2> QED  BY <1>4, <2>1, <2>2
<1>6. CASE IsSet
  <2>1. Equal(m, other) <=> m.array_set = other.array_set
    BY <1>6 DEF Equal
  <2> QED  BY <1>2, <1>3, <1>5, <1>6, <2>1
<1>7. CASE ~IsSet
  <2>1. Equal(m, other) <=>
          \A i \in Ordinals : /\ contains_at(m, i) = contains_at(other, i)
                              /\ contains_at(m, i) => m.cells[i] = other.cells[i]
    BY <1>7 DEF Equal
  <2>2. \A i \in Ordinals : contains_at(m, i) \in BOOLEAN /\ contains_at(other, i) \in BOOLEAN
    BY DEF contains_at, subscript_unchecked
  <2>3. Equal(m, other) <=>
          \A i \in Ordinals : (i \in P <=> i \in Q) /\ (i \in P => m.cells[i] = other.cells[i])
    <3> HIDE DEF P, Q
    <3> QED  BY <1>1, <2>1, <2>2
  <2>4. \A i : V(m, i) = m.cells[i] /\ V(other, i) = other.cells[i]
    BY <1>2, <1>7
  <2> HIDE DEF P, Q, V
  <2> QED  BY <1>1, <1>5, <2>3, <2>4
<1> QED  BY <1>6, <1>7

(* The inductive invariant of the containers. *)
EnumInvariant == build \in Instantiations /\ (IsContainer => GoodContainers)

LEMMA InvariantIsWellFormed ==
  ASSUME EnumInvariant PROVE EnumMapsWellFormed /\ EqualityIsExact
<1>1. build \in Instantiations
  BY DEF EnumInvariant
<1>2. IsContainer => MapWellFormed(map) /\ (temp # NoMap => MapWellFormed(temp))
  BY <1>1, GoodMapIsWellFormed DEF EnumInvariant, GoodContainers
<1>3. EnumMapsWellFormed
  BY <1>1, <1>2, EnumeratorsStayExact, StrictListsAreExact DEF EnumMapsWellFormed
<1>4. EqualityIsExact
  BY <1>1, EqualIsExact DEF EnumInvariant, GoodContainers, EqualityIsExact
<1> QED  BY <1>3, <1>4

LEMMA EnumInvariantHolds == Spec => []EnumInvariant
<1>1. Init => EnumInvariant
  <2> SUFFICES ASSUME Init PROVE EnumInvariant
    OBVIOUS
  <2>1. build \in Instantiations /\ map = EmptyMap /\ temp = NoMap
    BY DEF Init
  <2> QED  BY <2>1, EmptyMapIsGood DEF EnumInvariant, GoodContainers
<1>2. EnumInvariant /\ [Next]_vars => EnumInvariant'
  <2> SUFFICES ASSUME EnumInvariant, [Next]_vars PROVE EnumInvariant'
    OBVIOUS
  <2>1. build' = build /\ build \in Instantiations
    BY DEF Next, vars, EnumInvariant
  <2>2. IsContainer => GoodMap(map') /\ (temp' # NoMap => GoodMap(temp'))
    <3> SUFFICES ASSUME IsContainer PROVE GoodMap(map') /\ (temp' # NoMap => GoodMap(temp'))
      OBVIOUS
    <3>1. GoodContainers
      BY DEF EnumInvariant
    <3>2. CASE UNCHANGED vars
      BY <3>1, <3>2 DEF vars, GoodContainers
    <3>3. CASE Next
      <4>1. ContainerNext
        BY <3>3 DEF Next, Kind, IsContainer
      <4> QED  BY <2>1, <3>1, <4>1, ContainerSteps
    <3> QED  BY <3>2, <3>3
  <2> QED  BY <2>1, <2>2
           DEF EnumInvariant, GoodContainers, IsContainer, Kind, GoodMap, Maps, PresentIn, Keys,
               Ordinals, ENUM_COUNT, ENUM_VALUES, contains_at, subscript_unchecked, IsSet,
               TriviallyCopyable, Bitsets, Trimmed, MaxWord, Ones, WORD_COUNT, BITS_PER_WORD, BIT_COUNT
<1> QED  BY <1>1, <1>2, PTL DEF Spec

(* EnumMap, EnumSet and EnumArray of every enumeration, with every width   *)
(* of the words: after every call, copy, move and construction size counts *)
(* the present keys, exactly their values are alive, nothing undefined has *)
(* happened, the iterators visit them in order, in both directions, and    *)
(* the constructor of EnumArray accepts exactly the complete sorted lists. *)
THEOREM EnumMapsStayWellFormed == Spec => []EnumMapsWellFormed
BY EnumInvariantHolds, InvariantIsWellFormed, PTL

(* operator== of two such containers is equality of what they hold.        *)
THEOREM EnumEqualityIsExact == Spec => []EqualityIsExact
BY EnumInvariantHolds, InvariantIsWellFormed, PTL

-----------------------------------------------------------------------------
(* EnumMap and EnumSet are sorted dictionaries.  What the refinement       *)
(* mapping reads in the second container and in the result.                *)
CopyIn(t) == IF t = NoMap THEN NoMap ELSE IF IsMovedFrom(t) THEN Unspecified ELSE DictOf(t)
KeyOf(pos) == IF pos = ENUM_COUNT THEN End ELSE pos
ResultIn(r) == [call |-> r.call, key |-> KeyOf(r.pos), flag |-> r.flag]
Held(m, i) == IF Kind("set") THEN Unspecified ELSE m.cells[i]

(* The container has not been moved from. *)
Clean(m) == Kind("map") => \A i \in PresentIn(m) : m.cells[i] \in Values

LEMMA GoodMapIsAMap ==
  ASSUME build \in Instantiations, IsContainer, NEW m, GoodMap(m) PROVE m # NoMap
<1>1. WORD_COUNT \in 0 .. BIT_COUNT /\ MaxWord \subseteq Nat
  <2>1. /\ BITS_PER_WORD \in Nat \ {0} /\ WORD_COUNT \in Nat /\ BIT_COUNT \in Nat
        /\ MaxWord = 0 .. BITS_PER_WORD - 1
        /\ BIT_COUNT = 0 => WORD_COUNT = 0
        /\ BIT_COUNT > 0 => WORD_COUNT * BITS_PER_WORD < BIT_COUNT
    BY WordSizes
  <2>2. WORD_COUNT <= WORD_COUNT * BITS_PER_WORD
    <3>1. PICK n \in Nat : BITS_PER_WORD = n + 1
      <4>1. BITS_PER_WORD - 1 \in Nat /\ BITS_PER_WORD = (BITS_PER_WORD - 1) + 1
        BY <2>1
      <4> QED  BY <4>1
    <3>2. WORD_COUNT * (n + 1) = WORD_COUNT * n + WORD_COUNT /\ WORD_COUNT * n \in Nat
      BY <2>1
    <3> QED  BY <2>1, <3>1, <3>2
  <2>3. WORD_COUNT * BITS_PER_WORD \in Nat
    BY <2>1
  <2> QED  BY <2>1, <2>2, <2>3
<1> DEFINE Records == [cells : [0 .. Len(build.enumerators) - 1 -> Contents \cup {Raw}],
                       array_set : [0 .. WORD_COUNT -> SUBSET Nat], size : Nat, ub : BOOLEAN]
<1>2. NoMap \notin Records
  BY <1>1, NoMapIsNoObject DEF BIT_COUNT
<1>3. m \in Maps
  BY DEF GoodMap
<1>4. m.array_set \in [0 .. WORD_COUNT -> SUBSET Nat]
  BY <1>1, <1>3 DEF Maps, Bitsets
<1>5. Maps \subseteq [cells : [0 .. Len(build.enumerators) - 1 -> Contents \cup {Raw}],
                      array_set : Bitsets, size : Nat, ub : BOOLEAN]
  BY DEF Maps, Ordinals, ENUM_COUNT, ENUM_VALUES
<1>6. m \in Records
  BY <1>3, <1>4, <1>5
<1> QED  BY <1>2, <1>6

LEMMA CleanIsNotMoved ==
  ASSUME build \in Instantiations, IsContainer, NEW m, GoodMap(m) PROVE Clean(m) <=> ~IsMovedFrom(m)
<1>1. PresentIn(m) \subseteq Ordinals /\ m.cells \in [Ordinals -> Contents \cup {Raw}]
  BY GoodMapFields
<1>2. Kind("map") => \A i \in PresentIn(m) : m.cells[i] \in Contents
  BY <1>1 DEF GoodMap
<1> QED  BY <1>2, MarkersDiffer DEF Clean, IsMovedFrom, Contents

(* The dictionary of an object. *)
LEMMA DictIsFunction ==
  ASSUME NEW m
  PROVE  /\ DOMAIN DictOf(m) = PresentIn(m) /\ \A i \in PresentIn(m) : DictOf(m)[i] = Held(m, i)
         /\ \A f : /\ DOMAIN f = PresentIn(m) /\ f = [i \in DOMAIN f |-> f[i]]
                   /\ \A i \in PresentIn(m) : f[i] = Held(m, i)
                   => DictOf(m) = f
<1>1. DictOf(m) = [i \in PresentIn(m) |-> Held(m, i)]
  BY DEF DictOf, Held
<1> QED  BY <1>1

LEMMA DictsAreNoMarkers ==
  ASSUME build \in Instantiations, IsContainer, NEW m, GoodMap(m), Clean(m)
  PROVE  DictOf(m) \notin {NoMap, Unspecified}
<1>1. Ordinals \subseteq AllOrdinals
  <2>1. ENUM_COUNT \in Nat /\ Ordinals = 0 .. ENUM_COUNT - 1
    BY ContainerBits
  <2>2. ENUM_COUNT <= Cardinality(AllOrdinals) /\ Cardinality(AllOrdinals) \in Nat
    BY OrdinalsAreNumbered, FS_CardinalityType DEF ENUM_COUNT, ENUM_VALUES
  <2>3. AllOrdinals = 0 .. Cardinality(AllOrdinals) - 1
    BY OrdinalsAreNumbered
  <2> QED  BY <2>1, <2>2, <2>3
<1>2. PresentIn(m) \in SUBSET AllOrdinals
  BY <1>1, GoodMapFields
<1>3. \A i \in PresentIn(m) : Held(m, i) \in Values \cup {Unspecified}
  BY DEF Held, Clean, Kind, IsContainer
<1>4. DictOf(m) = [i \in PresentIn(m) |-> Held(m, i)]
  BY DEF DictOf, Held
<1>5. DictOf(m) \in [PresentIn(m) -> Values \cup {Unspecified}]
  BY <1>3, <1>4
<1> QED  BY <1>2, <1>5, MarkersDiffer

(* build never changes, so the mapping may be taken before or after.       *)
LEMMA MappingOfNextState ==
  ASSUME build' = build
  PROVE  /\ DictOf(map)' = DictOf(map') /\ CopyIn(temp)' = CopyIn(temp')
         /\ ResultIn(result)' = ResultIn(result')
<1>1. /\ Kind("set")' = Kind("set") /\ Kind("map")' = Kind("map") /\ ENUM_COUNT' = ENUM_COUNT
      /\ PresentIn(map)' = PresentIn(map') /\ PresentIn(temp)' = PresentIn(temp')
  BY DEF PresentIn, Keys, Ordinals, ENUM_COUNT, ENUM_VALUES, contains_at, subscript_unchecked,
         BITS_PER_WORD, BIT_COUNT, Kind
<1>2. DictOf(map)' = DictOf(map') /\ DictOf(temp)' = DictOf(temp')
  BY <1>1 DEF DictOf
<1>3. IsMovedFrom(temp)' = IsMovedFrom(temp')
  BY <1>1 DEF IsMovedFrom
<1>4. CopyIn(temp)' = CopyIn(temp')
  BY <1>2, <1>3 DEF CopyIn
<1>5. ResultIn(result)' = ResultIn(result')
  BY <1>1 DEF ResultIn, KeyOf
<1> QED  BY <1>2, <1>4, <1>5

(* What the members make of the dictionary. *)
LEMMA InsertedDict ==
  ASSUME build \in Instantiations, IsContainer, NEW m, GoodMap(m), Clean(m),
         NEW i \in Ordinals, NEW v \in Values
  PROVE  /\ Clean(insert(m, i, v))
         /\ DictOf(insert(m, i, v)) =
              IF i \in PresentIn(m) THEN DictOf(m) ELSE Abstract!With(DictOf(m), i, Stored(v))
<1> DEFINE x == insert(m, i, v)
           P == PresentIn(m)
<1>1. /\ PresentIn(x) = P \cup {i}
      /\ ~IsSet => \A k \in Ordinals : x.cells[k] = IF k = i /\ i \notin P THEN v ELSE m.cells[k]
  BY InsertIsGood DEF Contents
<1>2. P \subseteq Ordinals /\ (IsSet <=> Kind("set")) /\ (Kind("map") => ~IsSet)
      /\ (contains_at(m, i) <=> i \in P)
  BY GoodMapFields DEF IsSet, Kind
<1>3. CASE i \in P
  <2>1. x = m
    BY <1>2, <1>3 DEF insert
  <2> QED  BY <1>3, <2>1
<1>4. CASE i \notin P
  <2> HIDE DEF x, P
  <2>1. \A k \in PresentIn(x) : k \in Ordinals /\ (~IsSet => x.cells[k] = IF k = i THEN v ELSE m.cells[k])
    BY <1>1, <1>2, <1>4
  <2>2. Clean(x)
    BY <1>1, <1>2, <2>1 DEF Clean, P
  <2> DEFINE f == Abstract!With(DictOf(m), i, Stored(v))
  <2>3. f = [k \in P \cup {i} |-> IF k = i THEN Stored(v) ELSE DictOf(m)[k]]
    BY DictIsFunction DEF Abstract!With, P
  <2>4. \A k \in P : DictOf(m)[k] = Held(m, k)
    BY DictIsFunction DEF P
  <2> HIDE DEF f
  <2>5. \A k \in PresentIn(x) : f[k] = Held(x, k)
    BY <1>1, <1>2, <2>1, <2>3, <2>4 DEF Held, Stored
  <2>6. DOMAIN f = PresentIn(x) /\ f = [k \in DOMAIN f |-> f[k]]
    BY <1>1, <2>3
  <2>7. DictOf(x) = f
    BY <2>5, <2>6, DictIsFunction
  <2> QED  BY <1>4, <2>2, <2>7 DEF f, x, P
<1> QED  BY <1>3, <1>4

LEMMA AssignedDict ==
  ASSUME build \in Instantiations, IsContainer, NEW m, GoodMap(m), Clean(m),
         NEW i \in Ordinals, NEW v \in Values, TriviallyCopyable, Kind("map")
  PROVE  /\ Clean(insert_or_assign(m, i, v))
         /\ DictOf(insert_or_assign(m, i, v)) = Abstract!With(DictOf(m), i, v)
<1> DEFINE x == insert_or_assign(m, i, v)
           P == PresentIn(m)
<1>1. PresentIn(x) = P \cup {i} /\ \A k \in Ordinals : x.cells[k] = IF k = i THEN v ELSE m.cells[k]
  BY InsertOrAssignIsGood DEF Contents
<1>2. P \subseteq Ordinals /\ ~Kind("set")
  BY GoodMapFields DEF Kind
<1> HIDE DEF x, P
<1>3. Clean(x)
  BY <1>1, <1>2 DEF Clean, P
<1> DEFINE f == Abstract!With(DictOf(m), i, v)
<1>4. f = [k \in P \cup {i} |-> IF k = i THEN v ELSE DictOf(m)[k]]
  BY DictIsFunction DEF Abstract!With, P
<1>5. \A k \in P : DictOf(m)[k] = Held(m, k)
  BY DictIsFunction DEF P
<1> HIDE DEF f
<1>6. \A k \in PresentIn(x) : f[k] = Held(x, k)
  BY <1>1, <1>2, <1>4, <1>5 DEF Held
<1>7. DOMAIN f = PresentIn(x) /\ f = [k \in DOMAIN f |-> f[k]]
  BY <1>1, <1>4
<1>8. DictOf(x) = f
  BY <1>6, <1>7, DictIsFunction
<1> QED  BY <1>3, <1>8 DEF f, x

LEMMA RangeInsertedDict ==
  ASSUME build \in Instantiations, IsContainer, NEW m, GoodMap(m), Clean(m),
         NEW ks \in RangesHere, NEW v \in Values,
         NEW x, x = insert_range(m, Pairs(ks, v))
  PROVE  /\ Clean(x)
         /\ DictOf(x) = [k \in DOMAIN DictOf(m) \cup {ks[n] : n \in DOMAIN ks} |->
                           IF k \in DOMAIN DictOf(m) THEN DictOf(m)[k] ELSE Stored(v)]
<1> DEFINE pairs == Pairs(ks, v)
           P == PresentIn(m)
           K == {ks[n] : n \in DOMAIN ks}
<1>1. /\ Len(pairs) = Len(ks) /\ Len(ks) \in Nat /\ DOMAIN ks = 1 .. Len(ks)
      /\ \A k \in 1 .. Len(ks) : pairs[k][1] = ks[k] /\ pairs[k][2] = v /\ ks[k] \in Ordinals
  BY RangesAreKeys, PairsOfRange
<1>2. (IsSet <=> Kind("set")) /\ (Kind("map") => ~IsSet)
  BY DEF IsSet, Kind
<1>0. x = insert_range(m, pairs)
  OBVIOUS
<1> HIDE DEF pairs
<1>3. /\ PresentIn(x) = P \cup {pairs[k][1] : k \in 1 .. Len(pairs)}
      /\ ~IsSet => \A i \in PresentIn(x) : x.cells[i] = IF i \in P THEN m.cells[i] ELSE v
  BY <1>0, <1>1, InsertRangeIsGood DEF Contents
<1>4. {pairs[k][1] : k \in 1 .. Len(pairs)} = K
  BY <1>1
<1> DEFINE f == [k \in DOMAIN DictOf(m) \cup K |->
                   IF k \in DOMAIN DictOf(m) THEN DictOf(m)[k] ELSE Stored(v)]
<1> HIDE DEF P, K
<1>5. Clean(x)
  BY <1>2, <1>3 DEF Clean, P
<1>6. f = [k \in P \cup K |-> IF k \in P THEN DictOf(m)[k] ELSE Stored(v)]
  BY DictIsFunction DEF P
<1>7. \A k \in P : DictOf(m)[k] = Held(m, k)
  BY DictIsFunction DEF P
<1> HIDE DEF f
<1>8. \A k \in PresentIn(x) : f[k] = Held(x, k)
  BY <1>2, <1>3, <1>4, <1>6, <1>7 DEF Held, Stored
<1>9. DOMAIN f = PresentIn(x) /\ f = [k \in DOMAIN f |-> f[k]]
  BY <1>3, <1>4, <1>6
<1>10. DictOf(x) = f
  BY <1>8, <1>9, DictIsFunction
<1> QED  BY <1>5, <1>10 DEF f, K

(* Members that remove leave the values of the others. *)
LEMMA RestrictedDict ==
  ASSUME NEW m, Clean(m), NEW x, PresentIn(x) \subseteq PresentIn(m),
         \A i \in PresentIn(x) : x.cells[i] = m.cells[i]
  PROVE  Clean(x) /\ DictOf(x) = Abstract!Restricted(DictOf(m), PresentIn(x))
<1> DEFINE f == Abstract!Restricted(DictOf(m), PresentIn(x))
<1>1. Clean(x)
  BY DEF Clean
<1>2. f = [k \in PresentIn(x) |-> DictOf(m)[k]]
  BY DEF Abstract!Restricted
<1>3. \A k \in PresentIn(x) : f[k] = Held(x, k)
  BY <1>2, DictIsFunction DEF Held
<1> HIDE DEF f
<1>4. DictOf(x) = f
  BY <1>2, <1>3, DictIsFunction
<1> QED  BY <1>1, <1>4 DEF f

LEMMA ConstantDict ==
  ASSUME build \in Instantiations, IsContainer, NEW x, GoodMap(x), NEW v \in Values,
         ~IsSet => \A i \in PresentIn(x) : x.cells[i] = v
  PROVE  Clean(x) /\ DictOf(x) = [k \in PresentIn(x) |-> Stored(v)]
<1>1. (IsSet <=> Kind("set")) /\ (Kind("map") => ~IsSet)
  BY DEF IsSet, Kind
<1>2. Clean(x)
  BY <1>1 DEF Clean
<1>3. DictOf(x) = [i \in PresentIn(x) |-> Held(x, i)]
  BY DEF DictOf, Held
<1>4. \A i \in PresentIn(x) : Held(x, i) = Stored(v)
  BY <1>1 DEF Held, Stored
<1> QED  BY <1>2, <1>3, <1>4

LEMMA EmptyDict ==
  ASSUME NEW x, PresentIn(x) = {} PROVE Clean(x) /\ DictOf(x) = [k \in {} |-> End]
BY DEF Clean, DictOf

(* The element behind an erased one. *)
LEMMA FollowingKey ==
  ASSUME build \in Instantiations, IsContainer, NEW m, GoodMap(m), NEW i \in PresentIn(m),
         NEW x, GoodMap(x), PresentIn(x) = PresentIn(m) \ {i}
  PROVE  KeyOf(create_iterator(x, i)) = Abstract!Following(PresentIn(m), i)
<1> DEFINE P == PresentIn(m)
           j == create_iterator(x, i)
<1>1. /\ ENUM_COUNT \in Nat /\ P \subseteq Nat /\ i \in 0 .. ENUM_COUNT
      /\ \A k \in P : k \in Nat /\ k # ENUM_COUNT /\ k < ENUM_COUNT
  <2>1. ENUM_COUNT \in Nat /\ Ordinals = 0 .. ENUM_COUNT - 1 /\ P \subseteq Ordinals
    BY ContainerBits, GoodMapFields
  <2> QED  BY <2>1
<1>2. j \in (P \ {i}) \cup {ENUM_COUNT} /\ i <= j /\ \A k \in P \ {i} : k >= i => k >= j
  BY <1>1, IteratorsArePresent
<1> HIDE DEF j, P
<1>3. CASE j = ENUM_COUNT
  <2>1. \A k \in P : k <= i
    BY <1>1, <1>2, <1>3
  <2> QED  BY <1>3, <2>1 DEF KeyOf, Abstract!Following, j, P
<1>4. CASE j \in P \ {i}
  <2>1. j \in P /\ j > i /\ \A y \in P : y > i => j <= y
    BY <1>1, <1>2, <1>4 DEF P
  <2>2. ~(\A k \in P : k <= i)
    BY <1>1, <2>1 DEF P
  <2>3. \A k \in P : (k > i /\ \A y \in P : y > i => k <= y) => k = j
    BY <1>1, <2>1
  <2>4. Abstract!Following(P, i) = CHOOSE k \in P : k > i /\ \A y \in P : y > i => k <= y
    BY <2>2 DEF Abstract!Following
  <2>5. Abstract!Following(P, i) = j
    BY <2>1, <2>3, <2>4
  <2>6. KeyOf(j) = j
    BY <1>1, <1>4 DEF KeyOf
  <2> QED  BY <2>5, <2>6 DEF j, P
<1> QED  BY <1>2, <1>3, <1>4

(* A step of the abstract specification. *)
DictionaryStep == [Abstract!Next]_<<DictOf(map), CopyIn(temp), ResultIn(result)>>

(* The mapped variables stay. *)
SameDictionaries ==
  /\ DictOf(map)' = DictOf(map) /\ CopyIn(temp)' = CopyIn(temp) /\ ResultIn(result)' = ResultIn(result)

LEMMA StutterRefines ==
  ASSUME SameDictionaries PROVE DictionaryStep
BY DEF SameDictionaries, DictionaryStep

(* A call on the container, or its failure, as the mapping reads it.       *)
LEMMA CallMaps ==
  ASSUME build' = build, Clean(map), NEW check, NEW m, NEW call, NEW pos, NEW flag,
         Call(check, m, call, pos, flag)
  PROVE  \/ SameDictionaries /\ Clean(map')
         \/ /\ check /\ map' = m
            /\ DictOf(map)' = DictOf(m) /\ CopyIn(temp)' = CopyIn(temp)
            /\ ResultIn(result)' = [call |-> call, key |-> KeyOf(pos), flag |-> flag]
<1>1. temp' = temp
  BY DEF Call
<1>2. CASE UNCHANGED <<map, result>>
  BY <1>1, <1>2, MappingOfNextState DEF SameDictionaries
<1>3. CASE check /\ map' = m /\ result' = [call |-> call, pos |-> pos, flag |-> flag]
  <2>1. ResultIn(result') = [call |-> call, key |-> KeyOf(pos), flag |-> flag]
    BY <1>3 DEF ResultIn
  <2> QED  BY <1>1, <1>3, <2>1, MappingOfNextState
<1> QED  BY <1>2, <1>3 DEF Call

LEMMA UnchangedRefines ==
  ASSUME build' = build, Clean(map), UNCHANGED <<map, temp, result>>
  PROVE  DictionaryStep /\ Clean(map')
<1>1. SameDictionaries
  BY MappingOfNextState DEF SameDictionaries
<1> QED  BY <1>1, StutterRefines

LEMMA EffectMaps ==
  ASSUME build' = build, NEW m, NEW call, NEW pos, NEW flag, temp' = temp,
         map' = m, result' = [call |-> call, pos |-> pos, flag |-> flag]
  PROVE  /\ map' = m /\ DictOf(map)' = DictOf(m) /\ CopyIn(temp)' = CopyIn(temp)
         /\ ResultIn(result)' = [call |-> call, key |-> KeyOf(pos), flag |-> flag]
<1>1. ResultIn(result') = [call |-> call, key |-> KeyOf(pos), flag |-> flag]
  BY DEF ResultIn
<1> QED  BY <1>1, MappingOfNextState

LEMMA OrdinalsAreKnown ==
  ASSUME build \in Instantiations
  PROVE  /\ ENUM_COUNT \in Nat /\ Ordinals = 0 .. ENUM_COUNT - 1 /\ Ordinals \subseteq AllOrdinals
         /\ \A i \in Ordinals : KeyOf(i) = i /\ i # ENUM_COUNT
         /\ KeyOf(ENUM_COUNT) = End
<1>1. ENUM_COUNT \in Nat /\ Ordinals = 0 .. ENUM_COUNT - 1
  BY OrdinalsArePlaces
<1>2. ENUM_COUNT <= Cardinality(AllOrdinals) /\ Cardinality(AllOrdinals) \in Nat
  BY OrdinalsAreNumbered, FS_CardinalityType DEF ENUM_COUNT, ENUM_VALUES
<1>3. AllOrdinals = 0 .. Cardinality(AllOrdinals) - 1
  BY OrdinalsAreNumbered
<1>4. \A i \in Ordinals : i # ENUM_COUNT
  BY <1>1
<1>5. (\A i \in Ordinals : KeyOf(i) = i) /\ KeyOf(ENUM_COUNT) = End
  BY <1>4 DEF KeyOf
<1> QED  BY <1>1, <1>2, <1>3, <1>4, <1>5

LEMMA InsertRefines ==
  ASSUME build \in Instantiations, IsContainer, GoodContainers, Clean(map), build' = build,
         NEW i \in Keys, NEW v \in Values, Insert(i, v)
  PROVE  DictionaryStep /\ Clean(map')
<1> DEFINE m == insert(map, i, v)
<1>1. i \in Ordinals /\ i \in AllOrdinals /\ KeyOf(i) = i /\ GoodMap(map) /\ i \in 0 .. ENUM_COUNT
  BY OrdinalsAreKnown DEF Keys, GoodContainers
<1>2. GoodMap(m) /\ PresentIn(m) = PresentIn(map) \cup {i}
  BY <1>1, InsertIsGood DEF Contents
<1>3. create_iterator(m, i) = i
  BY <1>1, <1>2, IteratorsArePresent
<1>4. /\ Clean(m)
      /\ DictOf(m) = IF i \in PresentIn(map) THEN DictOf(map) ELSE Abstract!With(DictOf(map), i, Stored(v))
  BY <1>1, InsertedDict
<1>5. (~contains_at(map, i)) = (i \notin DOMAIN DictOf(map)) /\ DOMAIN DictOf(map) = PresentIn(map)
  BY <1>1, GoodMapFields, DictIsFunction
<1>6. Call(TRUE, m, <<"insert", i, Stored(v)>>, create_iterator(m, i), ~contains_at(map, i))
  BY DEF Insert
<1>7. Stored(v) \in Values \cup {Unspecified}
  BY DEF Stored
<1> HIDE DEF m
<1>8. CASE SameDictionaries /\ Clean(map')
  BY <1>8, StutterRefines
<1>9. CASE /\ map' = m /\ DictOf(map)' = DictOf(m) /\ CopyIn(temp)' = CopyIn(temp)
           /\ ResultIn(result)' = [call |-> <<"insert", i, Stored(v)>>,
                key |-> KeyOf(create_iterator(m, i)), flag |-> ~contains_at(map, i)]
  <2>1. ResultIn(result)' =
          [call |-> <<"insert", i, Stored(v)>>, key |-> i, flag |-> i \notin DOMAIN DictOf(map)]
    BY <1>1, <1>3, <1>5, <1>9
  <2>2. Abstract!Insert(i, Stored(v))
    BY <1>4, <1>5, <1>9, <2>1 DEF Abstract!Insert, Abstract!Return, CopyIn, ResultIn, KeyOf
  <2>3. Abstract!Next
    BY <1>1, <1>7, <2>2 DEF Abstract!Next
  <2> QED  BY <1>4, <1>9, <2>3 DEF DictionaryStep
<1> QED  BY <1>6, <1>8, <1>9, CallMaps

LEMMA InsertOrAssignRefines ==
  ASSUME build \in Instantiations, IsContainer, GoodContainers, Clean(map), build' = build,
         NEW i \in Keys, NEW v \in Values, InsertOrAssign(i, v)
  PROVE  DictionaryStep /\ Clean(map')
<1> DEFINE m == insert_or_assign(map, i, v)
<1>1. i \in Ordinals /\ i \in AllOrdinals /\ KeyOf(i) = i /\ GoodMap(map) /\ i \in 0 .. ENUM_COUNT
  BY OrdinalsAreKnown DEF Keys, GoodContainers
<1>2. GoodMap(m) /\ PresentIn(m) = PresentIn(map) \cup {i}
  BY <1>1, InsertOrAssignIsGood DEF Contents, InsertOrAssign
<1>3. create_iterator(m, i) = i
  BY <1>1, <1>2, IteratorsArePresent
<1>4. Clean(m) /\ DictOf(m) = Abstract!With(DictOf(map), i, v)
  BY <1>1, AssignedDict DEF InsertOrAssign
<1>5. (~contains_at(map, i)) = (i \notin DOMAIN DictOf(map)) /\ DOMAIN DictOf(map) = PresentIn(map)
  BY <1>1, GoodMapFields, DictIsFunction
<1>6. Call(TRUE, m, <<"insert_or_assign", i, v>>, create_iterator(m, i), ~contains_at(map, i))
  BY DEF InsertOrAssign
<1> HIDE DEF m
<1>7. CASE SameDictionaries /\ Clean(map')
  BY <1>7, StutterRefines
<1>8. CASE /\ map' = m /\ DictOf(map)' = DictOf(m) /\ CopyIn(temp)' = CopyIn(temp)
           /\ ResultIn(result)' = [call |-> <<"insert_or_assign", i, v>>,
                                   key |-> KeyOf(create_iterator(m, i)), flag |-> ~contains_at(map, i)]
  <2>1. ResultIn(result)' = [call |-> <<"insert_or_assign", i, v>>,
                             key |-> i, flag |-> i \notin DOMAIN DictOf(map)]
    BY <1>1, <1>3, <1>5, <1>8
  <2>2. Abstract!Assign(i, v)
    BY <1>4, <1>5, <1>8, <2>1 DEF Abstract!Assign, Abstract!Return, CopyIn, ResultIn, KeyOf
  <2>3. Abstract!Next
    BY <1>1, <2>2 DEF Abstract!Next
  <2> QED  BY <1>4, <1>8, <2>3 DEF DictionaryStep
<1> QED  BY <1>6, <1>7, <1>8, CallMaps

LEMMA AtRefines ==
  ASSUME build \in Instantiations, IsContainer, GoodContainers, Clean(map), build' = build,
         NEW i \in Keys, At(i)
  PROVE  DictionaryStep /\ Clean(map')
<1> DEFINE m == map
           here == contains_at(map, i)
<1>1. i \in Ordinals /\ i \in AllOrdinals /\ KeyOf(i) = i /\ GoodMap(map) /\ i \in 0 .. ENUM_COUNT
  BY OrdinalsAreKnown DEF Keys, GoodContainers
<1>2. here => i \in PresentIn(map)
  BY <1>1, GoodMapFields
<1>3. here => create_iterator(m, i) = i /\ i \in DOMAIN DictOf(map)
  BY <1>1, <1>2, IteratorsArePresent, DictIsFunction
<1>4. \/ UNCHANGED <<map, temp, result>>
      \/ /\ here /\ map' = m /\ temp' = temp
         /\ result' = [call |-> <<"at", i>>, pos |-> create_iterator(m, i), flag |-> TRUE]
  BY DEF At, Call
<1>5. m = map
  OBVIOUS
<1> HIDE DEF m, here
<1>6. CASE UNCHANGED <<map, temp, result>>
  BY <1>6, UnchangedRefines
<1>7. CASE /\ map' = m /\ DictOf(map)' = DictOf(m) /\ CopyIn(temp)' = CopyIn(temp)
           /\ ResultIn(result)' = [call |-> <<"at", i>>,
                                   key |-> KeyOf(create_iterator(m, i)), flag |-> TRUE]
           /\ here
  <2>1. ResultIn(result)' = [call |-> <<"at", i>>, key |-> i, flag |-> TRUE]
    BY <1>1, <1>3, <1>7
  <2>2. Abstract!Read(i)
    BY <1>3, <1>5, <1>7, <2>1 DEF Abstract!Read, Abstract!Return, CopyIn, ResultIn, KeyOf
  <2>3. Abstract!Next
    BY <1>1, <2>2 DEF Abstract!Next
  <2> QED  BY <1>5, <1>7, <2>3 DEF DictionaryStep
<1> QED  BY <1>4, <1>6, <1>7, EffectMaps

LEMMA InsertRangeRefines ==
  ASSUME build \in Instantiations, IsContainer, GoodContainers, Clean(map), build' = build,
         NEW ks \in RangesHere, NEW v \in Values, InsertRange(ks, v)
  PROVE  DictionaryStep /\ Clean(map')
<1> DEFINE m == insert_range(map, Pairs(ks, v))
<1>0. m = insert_range(map, Pairs(ks, v))
  OBVIOUS
<1>1. ks \in KeyRanges /\ GoodMap(map) /\ KeyOf(ENUM_COUNT) = End
  BY RangesAreKeys, OrdinalsAreKnown DEF GoodContainers
<1>2. /\ Clean(m)
      /\ DictOf(m) = [x \in DOMAIN DictOf(map) \cup {ks[n] : n \in DOMAIN ks} |->
                        IF x \in DOMAIN DictOf(map) THEN DictOf(map)[x] ELSE Stored(v)]
  <2> HIDE DEF m
  <2> QED  BY <1>0, <1>1, RangeInsertedDict
<1>3. Call(TRUE, m, <<"insert_range", ks>>, ENUM_COUNT, FALSE)
  BY DEF InsertRange
<1>4. Stored(v) \in Values \cup {Unspecified}
  BY DEF Stored
<1> HIDE DEF m
<1>5. CASE SameDictionaries /\ Clean(map')
  BY <1>5, StutterRefines
<1>6. CASE /\ map' = m /\ DictOf(map)' = DictOf(m) /\ CopyIn(temp)' = CopyIn(temp)
           /\ ResultIn(result)' = [call |-> <<"insert_range", ks>>,
                                   key |-> KeyOf(ENUM_COUNT), flag |-> FALSE]
  <2>1. ResultIn(result)' = [call |-> <<"insert_range", ks>>, key |-> End, flag |-> FALSE]
    BY <1>1, <1>6
  <2>2. Abstract!InsertRange(ks, Stored(v))
    BY <1>2, <1>6, <2>1 DEF Abstract!InsertRange, Abstract!Return, CopyIn, ResultIn, KeyOf
  <2>3. Abstract!Next
    BY <1>1, <1>4, <2>2 DEF Abstract!Next
  <2> QED  BY <1>2, <1>6, <2>3 DEF DictionaryStep
<1> QED  BY <1>3, <1>5, <1>6, CallMaps

LEMMA EraseRefines ==
  ASSUME build \in Instantiations, IsContainer, GoodContainers, Clean(map), build' = build,
         NEW pos \in Iterators, Erase(pos)
  PROVE  DictionaryStep /\ Clean(map')
<1> DEFINE here == pos # ENUM_COUNT /\ contains_at(map, pos)
           m == IF here THEN reset_at(map, pos) ELSE map
<1>1. \/ UNCHANGED <<map, temp, result>>
      \/ /\ here /\ map' = m /\ temp' = temp
         /\ result' = [call |-> <<"erase">>, pos |-> create_iterator(m, pos), flag |-> TRUE]
  BY DEF Erase, Call
<1>2. SUFFICES ASSUME here PROVE DictionaryStep /\ Clean(map')
  <2> HIDE DEF here, m
  <2>1. CASE ~here
    BY <1>1, <2>1, UnchangedRefines
  <2> QED  BY <2>1
<1>3. pos \in Ordinals /\ pos \in AllOrdinals /\ GoodMap(map)
  BY <1>2, OrdinalsAreKnown DEF Iterators, GoodContainers
<1>4. pos \in PresentIn(map) /\ PresentIn(map) \subseteq Ordinals
  BY <1>2, <1>3, GoodMapFields
<1>5. m = reset_at(map, pos)
  BY <1>2
<1> HIDE DEF m, here
<1>6. /\ GoodMap(m) /\ PresentIn(m) = PresentIn(map) \ {pos}
      /\ \A k \in Ordinals \ {pos} : m.cells[k] = map.cells[k]
  BY <1>3, <1>4, <1>5, ResetIsGood
<1>7. Clean(m) /\ DictOf(m) = Abstract!Restricted(DictOf(map), PresentIn(map) \ {pos})
  BY <1>4, <1>6, RestrictedDict
<1>8. KeyOf(create_iterator(m, pos)) = Abstract!Following(PresentIn(map), pos)
  BY <1>3, <1>4, <1>6, FollowingKey
<1>9. DOMAIN DictOf(map) = PresentIn(map)
  BY DictIsFunction
<1>10. CASE UNCHANGED <<map, temp, result>>
  BY <1>10, UnchangedRefines
<1>11. CASE /\ map' = m /\ DictOf(map)' = DictOf(m) /\ CopyIn(temp)' = CopyIn(temp)
           /\ ResultIn(result)' = [call |-> <<"erase">>,
                                   key |-> KeyOf(create_iterator(m, pos)), flag |-> TRUE]
  <2>1. ResultIn(result)' = [call |-> <<"erase">>,
                             key |-> Abstract!Following(DOMAIN DictOf(map), pos), flag |-> TRUE]
    BY <1>8, <1>9, <1>11
  <2>2. Abstract!Erase(pos)
    BY <1>4, <1>7, <1>9, <1>11, <2>1 DEF Abstract!Erase, Abstract!Return, CopyIn, ResultIn, KeyOf
  <2>3. Abstract!Next
    BY <1>3, <2>2 DEF Abstract!Next
  <2> QED  BY <1>7, <1>11, <2>3 DEF DictionaryStep
<1> QED  BY <1>1, <1>10, <1>11, EffectMaps

LEMMA EraseKeyRefines ==
  ASSUME build \in Instantiations, IsContainer, GoodContainers, Clean(map), build' = build,
         NEW i \in Keys, EraseKey(i)
  PROVE  DictionaryStep /\ Clean(map')
<1> DEFINE m == IF contains_at(map, i) THEN reset_at(map, i) ELSE map
<1>1. i \in Ordinals /\ i \in AllOrdinals /\ KeyOf(ENUM_COUNT) = End /\ GoodMap(map)
  BY OrdinalsAreKnown DEF Keys, GoodContainers
<1>2. (contains_at(map, i) <=> i \in PresentIn(map)) /\ PresentIn(map) \subseteq Ordinals
  BY <1>1, GoodMapFields
<1>3. PresentIn(m) = PresentIn(map) \ {i} /\ \A k \in PresentIn(m) : m.cells[k] = map.cells[k]
  <2>1. CASE i \in PresentIn(map)
    <3>1. m = reset_at(map, i)
      BY <1>2, <2>1
    <3> HIDE DEF m
    <3>2. PresentIn(m) = PresentIn(map) \ {i} /\ \A k \in Ordinals \ {i} : m.cells[k] = map.cells[k]
      BY <1>1, <2>1, <3>1, ResetIsGood
    <3> QED  BY <1>2, <3>2
  <2>2. CASE i \notin PresentIn(map)
    <3>1. m = map
      BY <1>2, <2>2
    <3> QED  BY <2>2, <3>1
  <2> QED  BY <2>1, <2>2
<1>4. Call(TRUE, m, <<"erase_key", i>>, ENUM_COUNT, contains_at(map, i))
  BY DEF EraseKey
<1> HIDE DEF m
<1>5. Clean(m) /\ DictOf(m) = Abstract!Restricted(DictOf(map), PresentIn(map) \ {i})
  BY <1>3, RestrictedDict
<1>6. contains_at(map, i) = (i \in DOMAIN DictOf(map)) /\ DOMAIN DictOf(map) = PresentIn(map)
  <2>1. contains_at(map, i) \in BOOLEAN
    BY DEF contains_at, subscript_unchecked
  <2> QED  BY <1>2, <2>1, DictIsFunction
<1>7. CASE SameDictionaries /\ Clean(map')
  BY <1>7, StutterRefines
<1>8. CASE /\ map' = m /\ DictOf(map)' = DictOf(m) /\ CopyIn(temp)' = CopyIn(temp)
           /\ ResultIn(result)' = [call |-> <<"erase_key", i>>,
                                   key |-> KeyOf(ENUM_COUNT), flag |-> contains_at(map, i)]
  <2>1. ResultIn(result)' = [call |-> <<"erase_key", i>>, key |-> End, flag |-> i \in DOMAIN DictOf(map)]
    BY <1>1, <1>6, <1>8
  <2>2. Abstract!EraseKey(i)
    BY <1>5, <1>6, <1>8, <2>1 DEF Abstract!EraseKey, Abstract!Return, CopyIn, ResultIn, KeyOf
  <2>3. Abstract!Next
    BY <1>1, <2>2 DEF Abstract!Next
  <2> QED  BY <1>5, <1>8, <2>3 DEF DictionaryStep
<1> QED  BY <1>4, <1>7, <1>8, CallMaps

LEMMA EraseRangeRefines ==
  ASSUME build \in Instantiations, IsContainer, GoodContainers, Clean(map), build' = build,
         NEW first \in Iterators, NEW last \in Iterators, EraseRange(first, last)
  PROVE  DictionaryStep /\ Clean(map')
<1> DEFINE m == IF first <= last THEN reset_range(map, first, last) ELSE map
           P == PresentIn(map)
           lo == KeyOf(first)
           hi == KeyOf(last)
           Left == {k \in P : lo = End \/ k < lo \/ (hi # End /\ k >= hi)}
<1>1. \/ UNCHANGED <<map, temp, result>>
      \/ /\ first <= last /\ map' = m /\ temp' = temp
         /\ result' = [call |-> <<"erase_range">>, pos |-> create_iterator(m, last), flag |-> FALSE]
  BY DEF EraseRange, Call
<1>2. SUFFICES ASSUME first <= last PROVE DictionaryStep /\ Clean(map')
  <2> HIDE DEF m
  <2>1. CASE ~(first <= last)
    BY <1>1, <2>1, UnchangedRefines
  <2> QED  BY <2>1
<1>3. /\ GoodMap(map) /\ P \subseteq Ordinals /\ Keys = Ordinals /\ ENUM_COUNT \in Nat
      /\ first \in 0 .. ENUM_COUNT /\ last \in 0 .. ENUM_COUNT /\ Ordinals = 0 .. ENUM_COUNT - 1
  BY ContainerBits, GoodMapFields DEF GoodContainers, Iterators
<1>4. first \in P \cup {ENUM_COUNT} /\ last \in P \cup {ENUM_COUNT}
  BY DEF EraseRange, PresentIn
<1>5. m = reset_range(map, first, last)
  BY <1>2
<1> HIDE DEF m
<1>6. /\ GoodMap(m) /\ PresentIn(m) = {i \in P : i < first \/ i >= last}
      /\ \A i \in PresentIn(m) : m.cells[i] = map.cells[i]
  BY <1>2, <1>3, <1>5, ResetRangeIsGood
<1>7. /\ \A i \in P : KeyOf(i) = i /\ i # End /\ i # ENUM_COUNT /\ i \in AllOrdinals
      /\ KeyOf(ENUM_COUNT) = End
  BY <1>3, OrdinalsAreKnown, MarkersDiffer
<1>8. /\ lo \in P \cup {End} /\ hi \in P \cup {End}
      /\ lo \in AllOrdinals \cup {End} /\ hi \in AllOrdinals \cup {End}
  BY <1>4, <1>7
<1> HIDE DEF P
<1>9. PresentIn(m) = Left
  <2>1. ASSUME NEW k \in P
        PROVE  (k < first \/ k >= last) <=> (lo = End \/ k < lo \/ (hi # End /\ k >= hi))
    <3>0. k \in Nat /\ k < ENUM_COUNT /\ first \in Nat /\ last \in Nat
      BY <1>3
    <3>1. CASE first = ENUM_COUNT
      BY <1>7, <3>0, <3>1
    <3>2. CASE first # ENUM_COUNT /\ last = ENUM_COUNT
      <4>1. lo = first /\ lo # End /\ hi = End
        BY <1>4, <1>7, <3>2
      <4> HIDE DEF lo, hi
      <4> QED  BY <1>3, <3>0, <3>2, <4>1
    <3>3. CASE first # ENUM_COUNT /\ last # ENUM_COUNT
      <4>1. lo = first /\ lo # End /\ hi = last /\ hi # End
        BY <1>4, <1>7, <3>3
      <4> HIDE DEF lo, hi
      <4> QED  BY <4>1
    <3> QED  BY <3>1, <3>2, <3>3
  <2> QED  BY <1>6, <2>1
<1>10. Clean(m) /\ DictOf(m) = Abstract!Restricted(DictOf(map), Left)
  <2>1. PresentIn(m) \subseteq P
    BY <1>6
  <2> HIDE DEF Left
  <2> QED  BY <1>6, <1>9, <2>1, RestrictedDict DEF P
<1>11. KeyOf(create_iterator(m, last)) = hi
  <2>1. last \in PresentIn(m) \cup {ENUM_COUNT}
    BY <1>3, <1>4, <1>6
  <2>2. create_iterator(m, last) = last
    BY <1>3, <1>6, <2>1, IteratorsArePresent
  <2> QED  BY <2>2
<1>12. DOMAIN DictOf(map) = P
  BY DictIsFunction DEF P
<1> HIDE DEF lo, hi
<1>13. CASE UNCHANGED <<map, temp, result>>
  BY <1>13, UnchangedRefines
<1>14. CASE /\ map' = m /\ DictOf(map)' = DictOf(m) /\ CopyIn(temp)' = CopyIn(temp)
           /\ ResultIn(result)' = [call |-> <<"erase_range">>,
                                   key |-> KeyOf(create_iterator(m, last)), flag |-> FALSE]
  <2>1. ResultIn(result)' = [call |-> <<"erase_range">>, key |-> hi, flag |-> FALSE]
    BY <1>11, <1>14
  <2>2. Abstract!EraseRange(lo, hi)
    BY <1>8, <1>10, <1>12, <1>14, <2>1 DEF Abstract!EraseRange, Abstract!Return, CopyIn, ResultIn, KeyOf
  <2>3. Abstract!Next
    BY <1>8, <2>2 DEF Abstract!Next
  <2> QED  BY <1>10, <1>14, <2>3 DEF DictionaryStep
<1> QED  BY <1>1, <1>13, <1>14, EffectMaps

LEMMA EraseIfRefines ==
  ASSUME build \in Instantiations, IsContainer, GoodContainers, Clean(map), build' = build,
         NEW pred \in SUBSET Keys, EraseIf(pred)
  PROVE  DictionaryStep /\ Clean(map')
<1> DEFINE m == erase_if(map, pred)
<1>1. pred \in SUBSET AllOrdinals /\ KeyOf(ENUM_COUNT) = End /\ GoodMap(map)
  BY OrdinalsAreKnown DEF Keys, GoodContainers
<1>2. PresentIn(m) = PresentIn(map) \ pred /\ \A k \in PresentIn(m) : m.cells[k] = map.cells[k]
  BY <1>1, EraseIfIsGood
<1>3. Call(TRUE, m, <<"erase_if", pred>>, ENUM_COUNT, FALSE)
  BY DEF EraseIf
<1> HIDE DEF m
<1>4. Clean(m) /\ DictOf(m) = Abstract!Restricted(DictOf(map), PresentIn(map) \ pred)
  BY <1>2, RestrictedDict
<1>5. DOMAIN DictOf(map) = PresentIn(map)
  BY DictIsFunction
<1>6. CASE SameDictionaries /\ Clean(map')
  BY <1>6, StutterRefines
<1>7. CASE /\ map' = m /\ DictOf(map)' = DictOf(m) /\ CopyIn(temp)' = CopyIn(temp)
           /\ ResultIn(result)' = [call |-> <<"erase_if", pred>>,
                                   key |-> KeyOf(ENUM_COUNT), flag |-> FALSE]
  <2>1. ResultIn(result)' = [call |-> <<"erase_if", pred>>, key |-> End, flag |-> FALSE]
    BY <1>1, <1>7
  <2>2. Abstract!EraseIf(pred)
    BY <1>4, <1>5, <1>7, <2>1 DEF Abstract!EraseIf, Abstract!Return, CopyIn, ResultIn, KeyOf
  <2>3. Abstract!Next
    BY <1>1, <2>2 DEF Abstract!Next
  <2> QED  BY <1>4, <1>7, <2>3 DEF DictionaryStep
<1> QED  BY <1>3, <1>6, <1>7, CallMaps

LEMMA ClearRefines ==
  ASSUME build \in Instantiations, IsContainer, GoodContainers, Clean(map), build' = build, Clear
  PROVE  DictionaryStep /\ Clean(map')
<1> DEFINE m == clear(map)
<1>1. KeyOf(ENUM_COUNT) = End /\ GoodMap(map)
  BY OrdinalsAreKnown DEF GoodContainers
<1>2. PresentIn(m) = {}
  BY <1>1, ClearIsGood
<1>3. Call(TRUE, m, <<"clear">>, ENUM_COUNT, FALSE)
  BY DEF Clear
<1> HIDE DEF m
<1>4. Clean(m) /\ DictOf(m) = Abstract!Restricted(DictOf(map), {})
  BY <1>2, RestrictedDict
<1>5. CASE SameDictionaries /\ Clean(map')
  BY <1>5, StutterRefines
<1>6. CASE /\ map' = m /\ DictOf(map)' = DictOf(m) /\ CopyIn(temp)' = CopyIn(temp)
           /\ ResultIn(result)' = [call |-> <<"clear">>, key |-> KeyOf(ENUM_COUNT), flag |-> FALSE]
  <2>1. ResultIn(result)' = [call |-> <<"clear">>, key |-> End, flag |-> FALSE]
    BY <1>1, <1>6
  <2>2. Abstract!Clear
    BY <1>4, <1>6, <2>1 DEF Abstract!Clear, Abstract!Return, CopyIn, ResultIn, KeyOf
  <2>3. Abstract!Next
    BY <2>2 DEF Abstract!Next
  <2> QED  BY <1>4, <1>6, <2>3 DEF DictionaryStep
<1> QED  BY <1>3, <1>5, <1>6, CallMaps

(* The copy of an object that has not been moved from is its dictionary.   *)
LEMMA CopyIsDict ==
  ASSUME build \in Instantiations, IsContainer, NEW m, GoodMap(m), Clean(m)
  PROVE  CopyIn(m) = DictOf(m) /\ CopyIn(m) \notin {NoMap, Unspecified}
BY GoodMapIsAMap, CleanIsNotMoved, DictsAreNoMarkers DEF CopyIn

LEMMA UsableIsClean ==
  ASSUME build \in Instantiations, IsContainer, GoodContainers, Usable
  PROVE  GoodMap(temp) /\ Clean(temp)
<1>1. GoodMap(temp)
  BY DEF Usable, GoodContainers
<1> QED  BY <1>1, CleanIsNotMoved DEF Usable

(* Constructors, assignments and destructors as the mapping reads them.    *)
LEMMA SpecialMaps ==
  ASSUME build' = build, NEW m, NEW t, NEW call, Special(m, t, call)
  PROVE  /\ map' = m /\ DictOf(map)' = DictOf(m) /\ CopyIn(temp)' = CopyIn(t)
         /\ ResultIn(result)' = [call |-> call, key |-> End, flag |-> FALSE]
<1>1. map' = m /\ temp' = t /\ result' = [call |-> call, pos |-> ENUM_COUNT, flag |-> FALSE]
  BY DEF Special
<1>2. ResultIn(result') = [call |-> call, key |-> End, flag |-> FALSE]
  BY <1>1 DEF ResultIn, KeyOf
<1> QED  BY <1>1, <1>2, MappingOfNextState

(* A container that move assignment read has lost its values, unless they  *)
(* are copied or there were none.                                          *)
LEMMA MovedDict ==
  ASSUME build \in Instantiations, IsContainer, NEW m, GoodMap(m), Clean(m)
  PROVE  CopyIn(MovedFromMap(m)) \in {Unspecified, DictOf(m)}
<1> DEFINE x == MovedFromMap(m)
           c == [i \in Ordinals |->
                   IF IsSet \/ ~contains_at(m, i) THEN m.cells[i] ELSE MovedOut(m.cells[i])]
<1>1. GoodMap(x) /\ PresentIn(x) = PresentIn(m)
  BY MovedFromIsGood
<1>2. /\ m = Object(m.cells, m.array_set, m.size) /\ PresentIn(m) \subseteq Ordinals
      /\ \A i \in Ordinals : contains_at(m, i) <=> i \in PresentIn(m)
  BY GoodMapFields
<1>3. x.cells = c
  <2>1. x = [m EXCEPT !.cells = c]
    BY DEF MovedFromMap
  <2>2. \A y : [Object(m.cells, m.array_set, m.size) EXCEPT !.cells = y].cells = y
    BY DEF Object
  <2> HIDE DEF c, x
  <2> QED  BY <1>2, <2>1, <2>2
<1>4. x # NoMap
  BY <1>1, GoodMapIsAMap
<1>5. \A i \in PresentIn(m) : ~IsSet => x.cells[i] = MovedOut(m.cells[i])
  BY <1>2, <1>3
<1> HIDE DEF x, c
<1>6. CASE IsMovedFrom(x)
  BY <1>4, <1>6 DEF CopyIn, x
<1>7. CASE ~IsMovedFrom(x)
  <2>1. ASSUME NEW i \in PresentIn(m) PROVE Held(x, i) = Held(m, i)
    <3>1. CASE Kind("set")
      BY <3>1 DEF Held
    <3>2. CASE ~Kind("set")
      <4>1. Kind("map") /\ ~IsSet
        BY <3>2 DEF Kind, IsContainer, IsSet
      <4>2. x.cells[i] # MovedFrom
        BY <1>1, <1>7, <4>1 DEF IsMovedFrom
      <4>3. x.cells[i] = m.cells[i]
        BY <1>5, <4>1, <4>2 DEF MovedOut
      <4> QED  BY <3>2, <4>3 DEF Held
    <3> QED  BY <3>1, <3>2
  <2>2. DictOf(x) = [i \in PresentIn(m) |-> Held(x, i)] /\ DictOf(m) = [i \in PresentIn(m) |-> Held(m, i)]
    BY <1>1 DEF DictOf, Held
  <2>3. DictOf(x) = DictOf(m)
    BY <2>1, <2>2
  <2> QED  BY <1>4, <1>7, <2>3 DEF CopyIn, x
<1> QED  BY <1>6, <1>7

LEMMA CopyRefines ==
  ASSUME build \in Instantiations, IsContainer, GoodContainers, Clean(map), build' = build, Copy
  PROVE  DictionaryStep /\ Clean(map')
<1>1. GoodMap(map) /\ CopiedFrom(EmptyMap, map) = map
  BY EmptyMapIsGood, CopyIsExact DEF GoodContainers
<1>2. Special(map, map, <<"special">>)
  BY <1>1 DEF Copy
<1>3. CopyIn(map) = DictOf(map)
  BY <1>1, CopyIsDict
<1>4. Abstract!Copy
  BY <1>2, <1>3, SpecialMaps DEF Abstract!Copy, Abstract!NoResult, CopyIn, ResultIn, KeyOf
<1>5. Abstract!Next
  BY <1>4 DEF Abstract!Next
<1> QED  BY <1>2, <1>5, SpecialMaps DEF DictionaryStep

LEMMA MoveRefines ==
  ASSUME build \in Instantiations, IsContainer, GoodContainers, Clean(map), build' = build, Move
  PROVE  DictionaryStep /\ Clean(map')
<1> DEFINE m == ClearedAfterMove(map)
<1>1. GoodMap(map) /\ CopiedFrom(EmptyMap, map) = map
  BY EmptyMapIsGood, CopyIsExact DEF GoodContainers
<1>2. Special(m, map, <<"special">>)
  BY <1>1 DEF Move
<1>3. CopyIn(map) = DictOf(map)
  BY <1>1, CopyIsDict
<1>4. m = map \/ PresentIn(m) = {}
  BY <1>1, MovedFromIsGood, ClearIsGood DEF ClearedAfterMove
<1> HIDE DEF m
<1>5. CASE m = map
  <2>1. Abstract!Copy
    BY <1>2, <1>3, <1>5, SpecialMaps DEF Abstract!Copy, Abstract!NoResult, CopyIn, ResultIn, KeyOf
  <2>2. Abstract!Next
    BY <2>1 DEF Abstract!Next
  <2> QED  BY <1>2, <1>5, <2>2, SpecialMaps DEF DictionaryStep
<1>6. CASE PresentIn(m) = {}
  <2>1. Clean(m) /\ DictOf(m) = [k \in {} |-> End]
    BY <1>6, EmptyDict
  <2>2. Abstract!Move
    BY <1>2, <1>3, <2>1, SpecialMaps DEF Abstract!Move, Abstract!NoResult, CopyIn, ResultIn, KeyOf
  <2>3. Abstract!Next
    BY <2>2 DEF Abstract!Next
  <2> QED  BY <1>2, <2>1, <2>3, SpecialMaps DEF DictionaryStep
<1> QED  BY <1>4, <1>5, <1>6

LEMMA CopyBackRefines ==
  ASSUME build \in Instantiations, IsContainer, GoodContainers, Clean(map), build' = build, CopyBack
  PROVE  DictionaryStep /\ Clean(map')
<1>1. Usable
  BY DEF CopyBack
<1>2. GoodMap(map) /\ GoodMap(temp) /\ Clean(temp)
  BY <1>1, UsableIsClean DEF GoodContainers
<1>3. Special(temp, temp, <<"special">>)
  BY <1>2, CopyIsExact DEF CopyBack
<1>4. CopyIn(temp) = DictOf(temp) /\ CopyIn(temp) \notin {NoMap, Unspecified}
  BY <1>2, CopyIsDict
<1>5. Abstract!CopyBack
  BY <1>3, <1>4, SpecialMaps DEF Abstract!CopyBack, Abstract!NoResult, CopyIn, ResultIn, KeyOf
<1>6. Abstract!Next
  BY <1>5 DEF Abstract!Next
<1> QED  BY <1>2, <1>3, <1>6, SpecialMaps DEF DictionaryStep

LEMMA MoveBackRefines ==
  ASSUME build \in Instantiations, IsContainer, GoodContainers, Clean(map), build' = build, MoveBack
  PROVE  DictionaryStep /\ Clean(map')
<1> DEFINE t == MovedFromMap(temp)
<1>1. Usable
  BY DEF MoveBack
<1>2. GoodMap(map) /\ GoodMap(temp) /\ Clean(temp)
  BY <1>1, UsableIsClean DEF GoodContainers
<1>3. Special(temp, t, <<"special">>)
  BY <1>2, CopyIsExact DEF MoveBack
<1>4. CopyIn(temp) = DictOf(temp) /\ CopyIn(temp) \notin {NoMap, Unspecified}
  BY <1>2, CopyIsDict
<1>5. CopyIn(t) \in {Unspecified, DictOf(temp)}
  BY <1>2, MovedDict
<1> HIDE DEF t
<1>6. Abstract!CopyBack \/ Abstract!MoveBack
  BY <1>3, <1>4, <1>5, SpecialMaps
     DEF Abstract!CopyBack, Abstract!MoveBack, Abstract!NoResult, CopyIn, ResultIn, KeyOf
<1>7. Abstract!Next
  BY <1>6 DEF Abstract!Next
<1> QED  BY <1>2, <1>3, <1>7, SpecialMaps DEF DictionaryStep

LEMMA ClearTempRefines ==
  ASSUME build \in Instantiations, IsContainer, GoodContainers, Clean(map), build' = build, ClearTemp
  PROVE  DictionaryStep /\ Clean(map')
<1> DEFINE t == clear(temp)
<1>1. GoodMap(temp) /\ temp # NoMap /\ Special(map, t, <<"special">>)
  BY DEF ClearTemp, GoodContainers
<1>2. GoodMap(t) /\ PresentIn(t) = {}
  BY <1>1, ClearIsGood
<1> HIDE DEF t
<1>3. Clean(t) /\ DictOf(t) = [k \in {} |-> End]
  BY <1>2, EmptyDict
<1>4. CopyIn(t) = [k \in {} |-> End]
  BY <1>2, <1>3, CopyIsDict
<1>5. CopyIn(temp) # NoMap
  <2>1. CASE IsMovedFrom(temp)
    BY <1>1, <2>1, MarkersDiffer DEF CopyIn
  <2>2. CASE ~IsMovedFrom(temp)
    BY <1>1, <2>2, CleanIsNotMoved, CopyIsDict
  <2> QED  BY <2>1, <2>2
<1>6. Abstract!ClearCopy
  BY <1>1, <1>4, <1>5, SpecialMaps DEF Abstract!ClearCopy, Abstract!NoResult, CopyIn, ResultIn, KeyOf
<1>7. Abstract!Next
  BY <1>6 DEF Abstract!Next
<1> QED  BY <1>1, <1>7, SpecialMaps DEF DictionaryStep

LEMMA DropRefines ==
  ASSUME build \in Instantiations, IsContainer, GoodContainers, Clean(map), build' = build, Drop
  PROVE  DictionaryStep /\ Clean(map')
<1>1. Special(map, NoMap, <<"special">>) /\ CopyIn(NoMap) = NoMap
  BY DEF Drop, CopyIn
<1>2. Abstract!Drop
  BY <1>1, SpecialMaps DEF Abstract!Drop, Abstract!NoResult, CopyIn, ResultIn, KeyOf
<1>3. Abstract!Next
  BY <1>2 DEF Abstract!Next
<1> QED  BY <1>1, <1>3, SpecialMaps DEF DictionaryStep

(* A second container made of keys. *)
LEMMA CreateRefines ==
  ASSUME build \in Instantiations, IsContainer, GoodContainers, Clean(map), build' = build,
         NEW ks \in RangesHere, NEW v \in Values,
         Special(map, create_with_keys(ks, v), <<"create", ks, Stored(v)>>)
  PROVE  DictionaryStep /\ Clean(map')
<1> DEFINE t == create_with_keys(ks, v)
<1>1. /\ Len(ks) \in Nat /\ DOMAIN ks = 1 .. Len(ks) /\ ks \in KeyRanges /\ v \in Contents
      /\ \A k \in 1 .. Len(ks) : ks[k] \in Ordinals
  BY RangesAreKeys DEF Contents
<1>2. /\ GoodMap(t) /\ PresentIn(t) = {ks[n] : n \in DOMAIN ks}
      /\ ~IsSet => \A i \in PresentIn(t) : t.cells[i] = v
  BY <1>1, CreateIsGood
<1> HIDE DEF t
<1>3. Clean(t) /\ DictOf(t) = [k \in PresentIn(t) |-> Stored(v)]
  BY <1>2, ConstantDict
<1>4. CopyIn(t) = [k \in {ks[n] : n \in DOMAIN ks} |-> Stored(v)]
  BY <1>2, <1>3, CopyIsDict
<1>5. Special(map, t, <<"create", ks, Stored(v)>>)
  BY DEF t
<1>6. Abstract!Create(ks, Stored(v))
  BY <1>4, <1>5, SpecialMaps DEF Abstract!Create, Abstract!CopyOf, CopyIn, ResultIn, KeyOf
<1>7. Stored(v) \in Values \cup {Unspecified}
  BY DEF Stored
<1>8. Abstract!Next
  BY <1>1, <1>6, <1>7 DEF Abstract!Next
<1> QED  BY <1>5, <1>8, SpecialMaps DEF DictionaryStep

LEMMA ComplementRefines ==
  ASSUME build \in Instantiations, IsContainer, GoodContainers, Clean(map), build' = build,
         NEW ks \in RangesHere, NEW v \in Values, ComplementOf(ks, v)
  PROVE  DictionaryStep /\ Clean(map')
<1> DEFINE t == complement_of(ks, v)
           U == {{k \in AllOrdinals : k < n} : n \in AllOrdinals \cup {Cardinality(AllOrdinals)}}
<1>1. /\ Len(ks) \in Nat /\ DOMAIN ks = 1 .. Len(ks) /\ ks \in KeyRanges /\ v \in Contents
      /\ \A k \in 1 .. Len(ks) : ks[k] \in Ordinals
  BY RangesAreKeys DEF Contents
<1>2. GoodMap(t) /\ PresentIn(t) = Keys \ {ks[n] : n \in DOMAIN ks}
  BY <1>1, ComplementIsGood DEF Keys
<1>3. Special(map, t, <<"complement", Keys, ks>>) /\ IsSet
  BY DEF ComplementOf, Kind, IsSet
<1>4. Keys \in U
  <2>1. ENUM_COUNT \in Nat /\ Keys = 0 .. ENUM_COUNT - 1
    BY OrdinalsAreKnown DEF Keys
  <2>2. ENUM_COUNT <= Cardinality(AllOrdinals) /\ Cardinality(AllOrdinals) \in Nat
    BY OrdinalsAreNumbered, FS_CardinalityType DEF ENUM_COUNT, ENUM_VALUES
  <2>3. AllOrdinals = 0 .. Cardinality(AllOrdinals) - 1
    BY OrdinalsAreNumbered
  <2>4. ENUM_COUNT \in AllOrdinals \cup {Cardinality(AllOrdinals)}
    BY <2>1, <2>2, <2>3
  <2>5. Keys = {k \in AllOrdinals : k < ENUM_COUNT}
    BY <2>1, <2>2, <2>3
  <2> QED  BY <2>4, <2>5
<1> HIDE DEF t
<1>5. Clean(t) /\ DictOf(t) = [k \in PresentIn(t) |-> Stored(v)]
  BY <1>2, <1>3, ConstantDict
<1>6. CopyIn(t) = [k \in Keys \ {ks[n] : n \in DOMAIN ks} |-> Stored(v)]
  BY <1>2, <1>5, CopyIsDict
<1>7. Abstract!Complement(Keys, ks, Stored(v))
  BY <1>3, <1>6, SpecialMaps DEF Abstract!Complement, Abstract!CopyOf, CopyIn, ResultIn, KeyOf
<1>8. Stored(v) \in Values \cup {Unspecified}
  BY DEF Stored
<1>9. Abstract!Next
  BY <1>1, <1>4, <1>7, <1>8 DEF Abstract!Next
<1> QED  BY <1>3, <1>9, SpecialMaps DEF DictionaryStep

LEMMA CreationRefines ==
  ASSUME build \in Instantiations, IsContainer, GoodContainers, Clean(map), build' = build,
         NEW ks \in RangesHere, NEW v \in Values, CreateWithKeys(ks, v) \/ CreateWithAllEntries(ks, v)
  PROVE  DictionaryStep /\ Clean(map')
<1>1. \/ Special(map, create_with_keys(ks, v), <<"create", ks, Stored(v)>>)
      \/ UNCHANGED <<map, temp, result>>
  BY DEF CreateWithKeys, CreateWithAllEntries
<1> QED  BY <1>1, CreateRefines, UnchangedRefines

LEMMA NothingIsPresent ==
  ASSUME build \in Instantiations PROVE PresentIn(EmptyMap) = {}
<1> SUFFICES ASSUME NEW i \in PresentIn(EmptyMap) PROVE FALSE
  OBVIOUS
<1>1. i \in Ordinals /\ contains_at(EmptyMap, i)
  BY DEF PresentIn, Keys
<1>2. ENUM_COUNT \in Nat /\ Ordinals = 0 .. ENUM_COUNT - 1
  BY OrdinalsAreKnown
<1>3. ENUM_COUNT <= BIT_COUNT /\ BIT_COUNT \in Nat
  BY InstantiationsAreTypes DEF ENUM_COUNT, ENUM_VALUES, BIT_COUNT
<1>4. i \in Nat /\ i < BIT_COUNT
  BY <1>1, <1>2, <1>3
<1>5. i \div BITS_PER_WORD \in 0 .. WORD_COUNT
  BY <1>4, BitOfPosition
<1>6. EmptyMap.array_set = NoBits
  BY DEF EmptyMap
<1> QED  BY <1>1, <1>5, <1>6 DEF contains_at, NoBits, subscript_unchecked

LEMMA InitIsEmpty ==
  ASSUME Init PROVE Abstract!Init /\ Clean(map)
<1>1. /\ build \in Instantiations /\ map = EmptyMap /\ temp = NoMap
      /\ result = [call |-> <<"special">>, pos |-> ENUM_COUNT, flag |-> FALSE]
  BY DEF Init
<1>2. PresentIn(map) = {}
  BY <1>1, NothingIsPresent
<1>3. Clean(map) /\ DictOf(map) = [k \in {} |-> End]
  BY <1>2, EmptyDict
<1> QED  BY <1>1, <1>3 DEF Abstract!Init, Abstract!NoResult

LEMMA ContainerStepsRefine ==
  ASSUME build \in Instantiations, IsContainer, GoodContainers, Clean(map), build' = build,
         ContainerNext
  PROVE  DictionaryStep /\ Clean(map')
<1>1. ASSUME NEW v \in Values, NEW i \in Keys, Insert(i, v) \/ InsertOrAssign(i, v)
      PROVE  DictionaryStep /\ Clean(map')
  BY <1>1, InsertRefines, InsertOrAssignRefines
<1>2. ASSUME NEW v \in Values, NEW ks \in RangesHere,
             \/ InsertRange(ks, v) \/ CreateWithKeys(ks, v)
             \/ ComplementOf(ks, v) \/ CreateWithAllEntries(ks, v)
      PROVE  DictionaryStep /\ Clean(map')
  BY <1>2, InsertRangeRefines, ComplementRefines, CreationRefines
<1>3. ASSUME NEW i \in Keys, At(i) \/ EraseKey(i) PROVE DictionaryStep /\ Clean(map')
  BY <1>3, AtRefines, EraseKeyRefines
<1>4. ASSUME NEW pos \in Iterators, Erase(pos) PROVE DictionaryStep /\ Clean(map')
  BY <1>4, EraseRefines
<1>5. ASSUME NEW first \in Iterators, NEW last \in Iterators, EraseRange(first, last)
      PROVE  DictionaryStep /\ Clean(map')
  BY <1>5, EraseRangeRefines
<1>6. ASSUME NEW pred \in SUBSET Keys, EraseIf(pred) PROVE DictionaryStep /\ Clean(map')
  BY <1>6, EraseIfRefines
<1>7. ASSUME Clear \/ Copy \/ Move \/ CopyBack \/ MoveBack \/ ClearTemp \/ Drop
      PROVE  DictionaryStep /\ Clean(map')
  BY <1>7, ClearRefines, CopyRefines, MoveRefines, CopyBackRefines, MoveBackRefines,
     ClearTempRefines, DropRefines
<1> QED  BY <1>1, <1>2, <1>3, <1>4, <1>5, <1>6, <1>7 DEF ContainerNext

LEMMA StepsRefine ==
  ASSUME EnumInvariant, Clean(map), [Next]_vars
  PROVE  DictionaryStep /\ Clean(map)'
<1>1. build' = build /\ build \in Instantiations
  BY DEF Next, vars, EnumInvariant
<1>2. Clean(map') => Clean(map)'
  BY <1>1 DEF Clean, PresentIn, Keys, Ordinals, ENUM_COUNT, ENUM_VALUES, contains_at,
              subscript_unchecked, BITS_PER_WORD, BIT_COUNT, Kind
<1>3. CASE UNCHANGED vars
  BY <1>1, <1>2, <1>3, UnchangedRefines DEF vars
<1>4. CASE Next /\ IsContainer
  <2>1. ContainerNext
    BY <1>4 DEF Next, Kind, IsContainer
  <2>2. GoodContainers
    BY <1>4 DEF EnumInvariant
  <2> QED  BY <1>1, <1>2, <1>4, <2>1, <2>2, ContainerStepsRefine
<1>5. CASE Next /\ ~IsContainer
  <2>1. BitsetNext \/ ArrayNext
    BY <1>5 DEF Next
  <2>2. BitsetNext => UNCHANGED <<map, temp, result>>
    BY DEF BitsetNext, BitsCall, FlipBit, ChangeBit, ChangeAll, Shift, Combine, FromInteger, FromString
  <2>3. ArrayNext => UNCHANGED <<map, temp, result>>
    BY DEF ArrayNext, ArraysCall, Swap, Fill, AssignLabel, FromRange, FromCompleteList
  <2> QED  BY <1>1, <1>2, <2>1, <2>2, <2>3, UnchangedRefines
<1> QED  BY <1>3, <1>4, <1>5

(* EnumMap and EnumSet of every enumeration and every width of the words   *)
(* are dictionaries sorted by ordinal: a call inserts, assigns and removes *)
(* what its caller said and nothing else, the iterator that erase returns  *)
(* stands at the next key that is left, a copy holds the same, and of what *)
(* was moved nothing is promised.                                          *)
THEOREM EnumMapsAreDictionaries == Spec => RefinesSortedDictionary
<1>1. Init => Abstract!Init
  BY InitIsEmpty
<1>2. Init => Clean(map)
  BY InitIsEmpty
<1>3. EnumInvariant /\ Clean(map) /\ [Next]_vars => Clean(map)'
  BY StepsRefine
<1>4. EnumInvariant /\ Clean(map) /\ [Next]_vars
        => [Abstract!Next]_<<DictOf(map), CopyIn(temp), ResultIn(result)>>
  BY StepsRefine DEF DictionaryStep
<1>5. [Abstract!Next]_<<DictOf(map), CopyIn(temp), ResultIn(result)>>
        => [Abstract!Next]_<<DictOf(map),
             IF temp = NoMap THEN NoMap ELSE IF IsMovedFrom(temp) THEN Unspecified ELSE DictOf(temp),
             [call |-> result.call,
              key |-> IF result.pos = ENUM_COUNT THEN End ELSE result.pos,
              flag |-> result.flag]>>
  BY DEF CopyIn, ResultIn, KeyOf
<1> QED  BY <1>1, <1>2, <1>3, <1>4, <1>5, EnumInvariantHolds, PTL
           DEF Spec, RefinesSortedDictionary, Abstract!Spec, Abstract!vars
=============================================================================
