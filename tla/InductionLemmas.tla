-------------------------- MODULE InductionLemmas --------------------------
(***************************************************************************)
(* Induction and recursion over an interval of the naturals, stated with   *)
(* sets and functions instead of operators, so that the provers can        *)
(* instantiate them.  The loops of the containers are recursive functions  *)
(* on 0 .. N; the proofs about them cite these lemmas.                     *)
(***************************************************************************)
EXTENDS Integers, WellFoundedInduction, TLAPS

(* A set that holds 0 and is closed under successor holds every natural.   *)
LEMMA NatSetInduction ==
  ASSUME NEW S, 0 \in S, \A n \in Nat : n \in S => n + 1 \in S
  PROVE  Nat \subseteq S
<1> DEFINE R == OpToRel(<, Nat)
           T == Nat \ S
<1>1. \A x, y \in Nat : y < x => <<y, x>> \in R
  BY DEF OpToRel
<1>2. IsWellFoundedOn(R, Nat)
  BY NatLessThanWellFounded, Zenon
<1> SUFFICES ASSUME T # {} PROVE FALSE
  OBVIOUS
<1> HIDE DEF R
<1>3. PICK x \in T : \A y \in T : ~ (<<y, x>> \in R)
  BY <1>2, WFMin
<1>4. x \in Nat /\ x - 1 \in Nat /\ x - 1 < x /\ x = (x - 1) + 1
  OBVIOUS
<1>5. <<x - 1, x>> \in R
  BY <1>1, <1>4
<1>6. x - 1 \notin T
  BY <1>3, <1>5
<1> QED  BY <1>4, <1>6

(* A set of naturals has a least element. *)
LEMMA LeastOfSet ==
  ASSUME NEW S, S \subseteq Nat, S # {}
  PROVE  \E x \in S : \A y \in S : x <= y
<1> DEFINE R == OpToRel(<, Nat)
<1>1. \A x, y \in Nat : y < x => <<y, x>> \in R
  BY DEF OpToRel
<1>2. IsWellFoundedOn(R, Nat)
  BY NatLessThanWellFounded, Zenon
<1> HIDE DEF R
<1>3. PICK x \in S : \A y \in S : ~ (<<y, x>> \in R)
  BY <1>2, WFMin
<1>4. ASSUME NEW y \in S PROVE x <= y
  <2>1. x \in Nat /\ y \in Nat
    OBVIOUS
  <2>2. ~(y < x)
    BY <1>1, <1>3, <2>1
  <2> QED  BY <2>1, <2>2
<1> QED  BY <1>4

(* The same for the steps 0 .. N of a loop. *)
LEMMA LoopInduction ==
  ASSUME NEW N \in Nat, NEW S, 0 \in S,
         \A n \in 1 .. N : n - 1 \in S => n \in S
  PROVE  \A n \in 0 .. N : n \in S
<1> DEFINE T == {n \in Nat : n <= N => n \in S}
<1>1. 0 \in T
  OBVIOUS
<1>2. ASSUME NEW n \in Nat, n \in T PROVE n + 1 \in T
  <2>1. CASE n + 1 <= N
    <3>1. n + 1 \in 1 .. N /\ (n + 1) - 1 = n /\ n <= N
      BY <2>1
    <3> QED  BY <1>2, <3>1
  <2>2. CASE ~(n + 1 <= N)
    BY <2>2
  <2> QED  BY <2>1, <2>2
<1>3. Nat \subseteq T
  <2> HIDE DEF T
  <2> QED  BY <1>1, <1>2, NatSetInduction
<1> QED  BY <1>3

(* What a recursive definition of N steps computes: X[n] is the set of the *)
(* states that the n-th step may leave, F[n] the n-th step.                *)
LoopStates(f, x, X, F, N) ==
  /\ f = [n \in 0 .. N |-> f[n]]
  /\ f[0] = x
  /\ \A n \in 0 .. N : f[n] \in X[n]
  /\ \A n \in 1 .. N : f[n] = F[n][f[n - 1]]

(* Such a recursion has a solution. *)
LEMMA RecursionExists ==
  ASSUME NEW N \in Nat, NEW X, NEW x \in X[0], NEW F,
         \A n \in 1 .. N : \A s \in X[n - 1] : F[n][s] \in X[n]
  PROVE  \E f : LoopStates(f, x, X, F, N)
<1> DEFINE S == {n \in Nat : \E f : LoopStates(f, x, X, F, n)}
<1>1. 0 \in S
  <2> DEFINE f == [n \in 0 .. 0 |-> x]
  <2>1. LoopStates(f, x, X, F, 0)
    BY DEF LoopStates
  <2> QED  BY <2>1
<1>2. ASSUME NEW n \in 1 .. N, n - 1 \in S PROVE n \in S
  <2>1. PICK f : LoopStates(f, x, X, F, n - 1)
    BY <1>2
  <2> DEFINE g == [k \in 0 .. n |-> IF k = n THEN F[n][f[n - 1]] ELSE f[k]]
  <2>2. \A k \in 0 .. n - 1 : k \in 0 .. n /\ g[k] = f[k] /\ f[k] \in X[k]
    BY <2>1 DEF LoopStates
  <2>3. g[n] = F[n][f[n - 1]] /\ n - 1 \in 0 .. n - 1
    OBVIOUS
  <2>4. g[n] \in X[n]
    BY <2>2, <2>3
  <2>5. g[0] = x
    BY <2>1, <2>2, <2>3 DEF LoopStates
  <2>6. \A k \in 0 .. n : g[k] \in X[k]
    <3>1. \A k \in 0 .. n : k = n \/ k \in 0 .. n - 1
      OBVIOUS
    <3> HIDE DEF g
    <3> QED  BY <2>2, <2>4, <3>1
  <2>7. \A k \in 1 .. n : g[k] = F[k][g[k - 1]]
    <3> SUFFICES ASSUME NEW k \in 1 .. n PROVE g[k] = F[k][g[k - 1]]
      OBVIOUS
    <3>1. CASE k = n
      BY <3>1, <2>2, <2>3
    <3>2. CASE k # n
      <4>1. k \in 1 .. n - 1 /\ k \in 0 .. n - 1 /\ k - 1 \in 0 .. n - 1
        BY <3>2
      <4>2. f[k] = F[k][f[k - 1]]
        BY <2>1, <4>1 DEF LoopStates
      <4> QED  BY <2>2, <4>1, <4>2
    <3> QED  BY <3>1, <3>2
  <2>8. g = [k \in 0 .. n |-> g[k]]
    OBVIOUS
  <2> HIDE DEF g
  <2>9. LoopStates(g, x, X, F, n)
    BY <2>5, <2>6, <2>7, <2>8 DEF LoopStates
  <2> QED  BY <2>9
<1>3. N \in S
  <2> HIDE DEF S
  <2> QED  BY <1>1, <1>2, LoopInduction
<1> QED  BY <1>3

(* The solution, as a loop is written. *)
SolvesLoop(f, x, X, F, N) ==
  /\ f = [n \in 0 .. N |-> IF n = 0 THEN x ELSE F[n][f[n - 1]]]
  /\ \A n \in 0 .. N : f[n] \in X[n]

LEMMA LoopSolution ==
  ASSUME NEW N \in Nat, NEW X, NEW x \in X[0], NEW F,
         \A n \in 1 .. N : \A s \in X[n - 1] : F[n][s] \in X[n]
  PROVE  \E f : SolvesLoop(f, x, X, F, N)
<1>1. PICK f : LoopStates(f, x, X, F, N)
  BY RecursionExists
<1>2. \A n \in 0 .. N : f[n] = IF n = 0 THEN x ELSE F[n][f[n - 1]]
  <2>1. \A n \in 0 .. N : n = 0 \/ (n # 0 /\ n \in 1 .. N)
    OBVIOUS
  <2> QED  BY <1>1, <2>1 DEF LoopStates
<1>3. f = [n \in 0 .. N |-> IF n = 0 THEN x ELSE F[n][f[n - 1]]]
  BY <1>1, <1>2 DEF LoopStates
<1>4. SolvesLoop(f, x, X, F, N)
  BY <1>1, <1>3 DEF LoopStates, SolvesLoop
<1> QED  BY <1>4

(* A function that runs the loop as long as it stays among the allowed     *)
(* states.                                                                 *)
RunsLoop(g, x, X, F, N) ==
  g[0] = x /\ \A n \in 1 .. N : g[n - 1] \in X[n - 1] => g[n] = F[n][g[n - 1]]

(* A loop stays among the allowed states if a step from an allowed state   *)
(* leads to one; g is what CHOOSE makes of the loop's definition, and runs *)
(* it if the definition has a solution at all.                             *)
LEMMA LoopStays ==
  ASSUME NEW N \in Nat, NEW X, NEW x \in X[0], NEW F, NEW g,
         \A n \in 1 .. N : \A s \in X[n - 1] : F[n][s] \in X[n],
         \A f : SolvesLoop(f, x, X, F, N) => RunsLoop(g, x, X, F, N)
  PROVE  \A n \in 0 .. N : g[n] \in X[n]
<1>1. PICK f : SolvesLoop(f, x, X, F, N)
  BY LoopSolution
<1>2. RunsLoop(g, x, X, F, N)
  BY <1>1
<1> DEFINE T == {n \in 0 .. N : g[n] \in X[n]}
<1>3. 0 \in T
  BY <1>2 DEF RunsLoop
<1>4. \A n \in 1 .. N : n - 1 \in T => n \in T
  BY <1>2 DEF RunsLoop
<1> HIDE DEF T
<1>5. \A n \in 0 .. N : n \in T
  BY <1>3, <1>4, LoopInduction
<1> QED  BY <1>5 DEF T

(* And ends in one. *)
LEMMA LoopEnds ==
  ASSUME NEW N \in Nat, NEW X, NEW x \in X[0], NEW F, NEW g,
         \A n \in 1 .. N : \A s \in X[n - 1] : F[n][s] \in X[n],
         \A f : SolvesLoop(f, x, X, F, N) => RunsLoop(g, x, X, F, N)
  PROVE  g[N] \in X[N]
<1>1. \A n \in 0 .. N : g[n] \in X[n]
  BY LoopStays
<1> QED  BY <1>1
=============================================================================
