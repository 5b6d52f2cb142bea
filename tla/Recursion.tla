------------------------------ MODULE Recursion ------------------------------
(***************************************************************************)
(* Induction over the naturals, and what recursive functions need of it:   *)
(* that a function with the recursive definition exists.                   *)
(***************************************************************************)
EXTENDS Integers, WellFoundedInduction, NaturalsInduction, TLAPS

(***************************************************************************)
(* A nonempty set of naturals has a smallest element.                      *)
(***************************************************************************)
LEMMA SmallestExists ==
  ASSUME NEW S \in SUBSET Nat, S # {}
  PROVE  \E x \in S : \A y \in S : x <= y
<1>1. \E x \in S : \A y \in S : ~ (<< y, x >> \in OpToRel(<, Nat))
  BY NatLessThanWellFounded, WFMin
<1>2. PICK x \in S : \A y \in S : ~ (<< y, x >> \in OpToRel(<, Nat))
  BY <1>1
<1>3. \A y \in S : ~ (y < x)
  <2> TAKE y \in S
  <2>1. << y, x >> \in Nat \X Nat /\ << y, x >>[1] = y /\ << y, x >>[2] = x
    OBVIOUS
  <2>2. y < x => << y, x >> \in OpToRel(<, Nat)
    BY <2>1 DEF OpToRel
  <2> QED BY <1>2, <2>2
<1>4. \A y \in S : x <= y
  BY <1>3
<1> QED BY <1>4

(***************************************************************************)
(* A nonempty set of naturals below a bound has a largest element.         *)
(***************************************************************************)
LEMMA LargestExists ==
  ASSUME NEW n \in Nat, NEW S \in SUBSET (0 .. n), S # {}
  PROVE  \E x \in S : \A y \in S : y <= x
<1> DEFINE T == {x \in 0 .. n : n - x \in S}
<1>1. T \in SUBSET Nat /\ T # {}
  <2>1. PICK y \in S : TRUE OBVIOUS
  <2>2. n - y \in 0 .. n /\ n - (n - y) = y BY <2>1
  <2>3. n - y \in T BY <2>1, <2>2
  <2>4. \A x \in T : x \in Nat OBVIOUS
  <2> HIDE DEF T
  <2> QED BY <2>3, <2>4
<1> HIDE DEF T
<1>2. PICK x \in T : \A y \in T : x <= y
  BY <1>1, SmallestExists
<1>3. n - x \in S /\ \A y \in S : y <= n - x
  <2>1. \A y \in S : n - y \in T
    BY DEF T
  <2> QED BY <1>2, <2>1 DEF T
<1> QED BY <1>3

(***************************************************************************)
(* Induction over the naturals, for a set of them.                         *)
(***************************************************************************)
LEMMA NaturalInduction ==
  ASSUME NEW T \in SUBSET Nat, 0 \in T, \A n \in T : n + 1 \in T
  PROVE  T = Nat
<1> SUFFICES ASSUME T # Nat PROVE FALSE
  OBVIOUS
<1> DEFINE S == Nat \ T
<1>1. S \in SUBSET Nat /\ S # {}
  OBVIOUS
<1> HIDE DEF S
<1>2. PICK x \in S : \A y \in S : x <= y
  BY <1>1, SmallestExists
<1>3. x # 0 /\ x \in Nat
  BY <1>2 DEF S
<1>4. x - 1 \in Nat /\ x - 1 \notin S
  BY <1>2, <1>3
<1>5. x - 1 \in T
  BY <1>4 DEF S
<1>6. x - 1 + 1 \in T
  BY <1>5
<1>7. x \in T
  BY <1>3, <1>6
<1> QED BY <1>2, <1>7 DEF S

(***************************************************************************)
(* A loop of N turns from a, each a step of F in the set D: the values it  *)
(* goes through form a function g of the number of turns.  The recursive   *)
(* functions of the modules, such as those of Chain and tick, are loops.   *)
(***************************************************************************)
IsStep(F, D) == F \in [Nat \X D -> D]

IsLoop(g, N, D, a, F) ==
  /\ g \in [0 .. N -> D]
  /\ \A n \in 0 .. N : g[n] = IF n = 0 THEN a ELSE F[<< n, g[n - 1] >>]

\* Every loop that starts and stays in a set has such a function.
LEMMA LoopExists ==
  ASSUME NEW N \in Nat, NEW D, NEW a \in D, NEW F, IsStep(F, D)
  PROVE  \E g : IsLoop(g, N, D, a, F)
<1> DEFINE Loop(j, g) ==
             \A n \in 0 .. j : g[n] = IF n = 0 THEN a ELSE F[<< n, g[n - 1] >>]
           T == {j \in Nat : \E g \in [0 .. j -> D] : Loop(j, g)}
<1>1. 0 \in T
  <2> DEFINE g == [n \in 0 .. 0 |-> a]
  <2>1. g \in [0 .. 0 -> D] /\ Loop(0, g)
    OBVIOUS
  <2> QED BY <2>1
<1>2. ASSUME NEW j \in T PROVE j + 1 \in T
  <2>1. PICK g \in [0 .. j -> D] : Loop(j, g)
    OBVIOUS
  <2> DEFINE h == [n \in 0 .. j + 1 |-> IF n = j + 1 THEN F[<< j + 1, g[j] >>] ELSE g[n]]
  <2>2. h \in [0 .. j + 1 -> D]
    BY DEF IsStep
  <2>3. ASSUME NEW n \in 0 .. j + 1
        PROVE  h[n] = IF n = 0 THEN a ELSE F[<< n, h[n - 1] >>]
    <3>1. CASE n = j + 1
      <4>1. n - 1 \in 0 .. j + 1 /\ n - 1 # j + 1 /\ n - 1 = j
        BY <3>1
      <4> QED BY <3>1, <4>1
    <3>2. CASE n # j + 1
      <4>1. n \in 0 .. j /\ h[n] = g[n]
        BY <3>2
      <4>2. n # 0 => n - 1 \in 0 .. j + 1 /\ n - 1 # j + 1
        BY <4>1
      <4> QED BY <2>1, <4>1, <4>2
    <3> QED BY <3>1, <3>2
  <2>4. j + 1 \in Nat
    OBVIOUS
  <2> HIDE DEF h
  <2> QED BY <2>2, <2>3, <2>4
<1>3. T = Nat
  <2>1. T \in SUBSET Nat
    OBVIOUS
  <2> HIDE DEF T
  <2> QED BY <1>1, <1>2, <2>1, NaturalInduction
<1> QED BY <1>3 DEF IsLoop
-----------------------------------------------------------------------------
(***************************************************************************)
(* F, from functions on E to functions on E, gives at a what it does by    *)
(* looking only at arguments of a smaller measure mu: F is the body of a   *)
(* recursive function on E that goes down the measure.                     *)
(***************************************************************************)
GoesDown(F, E, V, mu) ==
  /\ F \in [[E -> V] -> [E -> V]]
  /\ \A g, h \in [E -> V], a \in E :
       (\A b \in E : mu[b] < mu[a] => g[b] = h[b]) => F[g][a] = F[h][a]

Agree(g, h, E, mu, n) == \A a \in E : mu[a] < n => g[a] = h[a]

\* The recursive function with that body exists.
LEMMA RecursionExists ==
  ASSUME NEW N \in Nat, NEW E, NEW V, V # {}, NEW mu \in [E -> 0 .. N], NEW F,
         GoesDown(F, E, V, mu)
  PROVE  \E f \in [E -> V] : F[f] = f
<1> DEFINE D == [E -> V]
           S == [nd \in Nat \X D |-> F[nd[2]]]
<1>1. PICK v \in V : TRUE
  OBVIOUS
<1> DEFINE a0 == [a \in E |-> v]
<1>2. a0 \in D /\ N + 2 \in Nat
  BY <1>1
<1>3. IsStep(S, D)
  BY DEF IsStep, GoesDown
<1>4. \A n \in Nat, h \in D : S[<< n, h >>] = F[h]
  OBVIOUS
<1>5. F \in [D -> D]
  BY DEF GoesDown
<1>6. \A g, h \in D, a \in E :
        (\A b \in E : mu[b] < mu[a] => g[b] = h[b]) => F[g][a] = F[h][a]
  BY DEF GoesDown
<1> HIDE DEF S, a0
<1>7. PICK g : IsLoop(g, N + 2, D, a0, S)
  BY <1>2, <1>3, LoopExists
<1>8. /\ \A n \in 0 .. N + 2 : g[n] \in D
      /\ \A n \in 0 .. N + 1 : g[n + 1] = F[g[n]]
  <2>1. \A n \in 0 .. N + 2 : g[n] \in D
    BY <1>7 DEF IsLoop
  <2>2. ASSUME NEW n \in 0 .. N + 1 PROVE g[n + 1] = F[g[n]]
    <3>1. n + 1 \in 0 .. N + 2 /\ n + 1 # 0 /\ n + 1 - 1 = n /\ n \in 0 .. N + 2
      OBVIOUS
    <3>2. g[n + 1] = S[<< n + 1, g[n] >>]
      BY <1>7, <3>1 DEF IsLoop
    <3> QED BY <1>4, <2>1, <3>1, <3>2
  <2> QED BY <2>1, <2>2
<1> DEFINE T == {n \in Nat : n <= N + 1 => Agree(g[n], g[n + 1], E, mu, n)}
<1>9. 0 \in T
  BY DEF Agree
<1>10. ASSUME NEW n \in T PROVE n + 1 \in T
  <2> SUFFICES ASSUME n + 1 <= N + 1
               PROVE  Agree(g[n + 1], g[n + 1 + 1], E, mu, n + 1)
    OBVIOUS
  <2>1. n \in 0 .. N + 1 /\ n + 1 \in 0 .. N + 1 /\ n + 1 \in 0 .. N + 2
    OBVIOUS
  <2>2. /\ g[n] \in D /\ g[n + 1] \in D
        /\ g[n + 1] = F[g[n]] /\ g[n + 1 + 1] = F[g[n + 1]]
    <3>1. n \in 0 .. N + 2
      BY <2>1
    <3> HIDE DEF D
    <3> QED BY <1>8, <2>1, <3>1
  <2>3. Agree(g[n], g[n + 1], E, mu, n)
    BY <2>1
  <2> SUFFICES ASSUME NEW a \in E, mu[a] < n + 1
               PROVE  g[n + 1][a] = g[n + 1 + 1][a]
    BY DEF Agree
  <2>4. \A b \in E : mu[b] < mu[a] => g[n][b] = g[n + 1][b]
    BY <2>1, <2>3 DEF Agree
  <2>5. F[g[n]][a] = F[g[n + 1]][a]
    <3> HIDE DEF D
    <3> QED BY <1>6, <2>2, <2>4
  <2> QED BY <2>2, <2>5
<1>11. T = Nat
  <2>1. T \in SUBSET Nat
    OBVIOUS
  <2> HIDE DEF T
  <2> QED BY <1>9, <1>10, <2>1, NaturalInduction
<1>12. Agree(g[N + 1], g[N + 1 + 1], E, mu, N + 1)
  <2>1. N + 1 \in T
    BY <1>11
  <2> QED BY <2>1
<1>13. N + 1 \in 0 .. N + 1 /\ N + 1 \in 0 .. N + 2 /\ N + 1 + 1 \in 0 .. N + 2
  OBVIOUS
<1>14. g[N + 1] \in D /\ g[N + 1 + 1] \in D /\ g[N + 1 + 1] = F[g[N + 1]]
  <2> HIDE DEF D
  <2> QED BY <1>8, <1>13
<1>15. \A a \in E : g[N + 1][a] = g[N + 1 + 1][a]
  BY <1>12 DEF Agree
<1>16. g[N + 1] = g[N + 1 + 1]
  BY <1>14, <1>15
<1> QED BY <1>14, <1>16
=============================================================================
