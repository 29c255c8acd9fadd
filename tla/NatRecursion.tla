---------------------------- MODULE NatRecursion ----------------------------
(***************************************************************************)
(* Induction and recursion over the natural numbers in a form the provers   *)
(* can apply: on a set of numbers in place of a predicate, from the fact    *)
(* that a set of numbers has a least one.                                   *)
(***************************************************************************)
EXTENDS Integers, NaturalsInduction, WellFoundedInduction, TLAPS

\* A set of natural numbers that is not empty has a least element: the one
\* induction over data that the proofs below rest on.
LEMMA LeastNat ==
  ASSUME NEW T, T \subseteq Nat, T # {}
  PROVE  \E n \in T : \A m \in T : n <= m
  <1> DEFINE R == OpToRel(<, Nat)
  <1>1. IsWellFoundedOn(R, Nat)
    BY NatLessThanWellFounded, Zenon
  <1>3. \A m, k \in Nat : m < k => <<m, k>> \in R
    BY DEF OpToRel
  <1> HIDE DEF R
  <1>2. PICK n \in T : \A m \in T : ~(<<m, n>> \in R)
    BY <1>1, WFMin, Zenon
  <1>4. \A m \in T : ~(m < n)
    BY <1>2, <1>3, Zenon
  <1> QED BY <1>4

\* What holds of 0, and of n + 1 where it holds of n, holds of every number.
LEMMA Induction ==
  ASSUME NEW T, 0 \in T, \A n \in Nat : n \in T => n + 1 \in T
  PROVE  \A n \in Nat : n \in T
  <1> SUFFICES ASSUME Nat \ T # {} PROVE FALSE
    OBVIOUS
  <1>1. PICK n \in Nat \ T : \A m \in Nat \ T : n <= m
    BY LeastNat
  <1>2. n # 0 /\ n - 1 \in Nat /\ n - 1 \in T
    BY <1>1
  <1>3. n - 1 + 1 = n
    BY <1>1
  <1> QED BY <1>1, <1>2, <1>3

\* A function defined by recursion exists, up to N and on all numbers.
Runs(g, S, a, step, m) ==
  /\ g \in [0 .. m -> S] /\ g[0] = a
  /\ \A k \in 0 .. m - 1 : g[k + 1] = step[k][g[k]]
LEMMA Iteration ==
  ASSUME NEW S, NEW a \in S, NEW step \in [Nat -> [S -> S]], NEW N \in Nat
  PROVE  \E g : Runs(g, S, a, step, N)
  <1> DEFINE P(m) == \E g : Runs(g, S, a, step, m)
             T == {m \in Nat : P(m)}
  <1>1. 0 \in T
    <2>1. Runs([i \in 0 .. 0 |-> a], S, a, step, 0)
      BY DEF Runs
    <2>2. P(0)
      BY <2>1
    <2> HIDE DEF P
    <2> QED BY <2>2
  <1>2. ASSUME NEW m \in Nat, m \in T PROVE m + 1 \in T
    <2>1. P(m)
      <3> HIDE DEF P
      <3> QED BY <1>2
    <2>2. PICK g : Runs(g, S, a, step, m)
      BY <2>1
    <2>3. g[m] \in S /\ step[m] \in [S -> S]
      BY <2>2 DEF Runs
    <2> DEFINE h == [i \in 0 .. m + 1 |-> IF i = m + 1 THEN step[m][g[m]] ELSE g[i]]
    <2>4. h \in [0 .. m + 1 -> S] /\ h[0] = a
      BY <2>2, <2>3 DEF Runs
    <2>5. ASSUME NEW k \in 0 .. m + 1 - 1 PROVE h[k + 1] = step[k][h[k]]
      BY <2>2 DEF Runs
    <2>6. Runs(h, S, a, step, m + 1)
      <3> HIDE DEF h
      <3> QED BY <2>4, <2>5 DEF Runs
    <2>7. P(m + 1)
      BY <2>6
    <2> HIDE DEF P
    <2> QED BY <2>7
  <1>3. N \in T
    <2> HIDE DEF T
    <2> QED BY <1>1, <1>2, Induction
  <1> HIDE DEF P
  <1>4. P(N)
    BY <1>3
  <1> QED BY <1>4 DEF P

\* Two runs of the same recursion agree as far as both go.
LEMMA RunsAgree ==
  ASSUME NEW S, NEW a, NEW step, NEW g, NEW h, NEW m \in Nat, NEW n \in Nat, m <= n,
         Runs(g, S, a, step, m), Runs(h, S, a, step, n)
  PROVE  \A k \in 0 .. m : g[k] = h[k]
  <1> DEFINE T == {k \in Nat : k <= m => g[k] = h[k]}
  <1>1. 0 \in T
    BY DEF Runs
  <1>2. ASSUME NEW k \in Nat, k \in T PROVE k + 1 \in T
    <2> SUFFICES ASSUME k + 1 <= m PROVE g[k + 1] = h[k + 1]
      OBVIOUS
    <2>1. k \in 0 .. m - 1 /\ k \in 0 .. n - 1 /\ g[k] = h[k]
      BY <1>2
    <2> QED BY <2>1 DEF Runs
  <1>3. \A k \in Nat : k \in T
    <2> HIDE DEF T
    <2> QED BY <1>1, <1>2, Induction
  <1> QED BY <1>3

Recurs(g, S, a, step) ==
  g \in [Nat -> S] /\ g[0] = a /\ \A k \in Nat : g[k + 1] = step[k][g[k]]

\* A recursion over the naturals has a function that satisfies it.
LEMMA Recursion ==
  ASSUME NEW S, NEW a \in S, NEW step \in [Nat -> [S -> S]]
  PROVE  \E g : Recurs(g, S, a, step)
  <1> DEFINE c(n) == CHOOSE g : Runs(g, S, a, step, n)
             G == [n \in Nat |-> c(n)[n]]
  <1>1. ASSUME NEW n \in Nat PROVE Runs(c(n), S, a, step, n)
    <2>1. \E g : Runs(g, S, a, step, n)
      BY Iteration
    <2> QED BY <2>1
  <1> HIDE DEF c
  <1>2. G \in [Nat -> S]
    <2> SUFFICES ASSUME NEW n \in Nat PROVE c(n)[n] \in S
      OBVIOUS
    <2>1. c(n) \in [0 .. n -> S] /\ n \in 0 .. n
      BY <1>1 DEF Runs
    <2> QED BY <2>1
  <1>3. G[0] = a
    <2>1. c(0)[0] = a
      BY <1>1 DEF Runs
    <2> QED BY <2>1
  <1>4. ASSUME NEW k \in Nat PROVE G[k + 1] = step[k][G[k]]
    <2>1. G[k + 1] = c(k + 1)[k + 1] /\ G[k] = c(k)[k]
      OBVIOUS
    <2>2. k \in 0 .. (k + 1) - 1 /\ k + 1 \in Nat /\ k <= k + 1 /\ k \in 0 .. k
      OBVIOUS
    <2>3. Runs(c(k), S, a, step, k) /\ Runs(c(k + 1), S, a, step, k + 1)
      BY <1>1, <2>2
    <2>4. c(k)[k] = c(k + 1)[k]
      BY <2>2, <2>3, RunsAgree
    <2>5. c(k + 1)[k + 1] = step[k][c(k + 1)[k]]
      BY <2>2, <2>3 DEF Runs
    <2> QED BY <2>1, <2>4, <2>5
  <1> HIDE DEF G
  <1>5. Recurs(G, S, a, step)
    BY <1>2, <1>3, <1>4 DEF Recurs
  <1> QED BY <1>5
=============================================================================
