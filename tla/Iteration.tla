----------------------------- MODULE Iteration -----------------------------
(***************************************************************************)
(* That the functions by which the modules iterate over a sequence exist:  *)
(* for any first value and any step there is a function over the numbers   *)
(* that has them.  A user substitutes the operators of its own function    *)
(* and gives that function's parameters as one value.                      *)
(***************************************************************************)
EXTENDS Naturals, WellFoundedInduction, TLAPS

CONSTANTS First(_), Step(_, _, _)

Iterates(f, q, S) ==
  f = [n \in S |-> IF n = 0 THEN First(q) ELSE Step(q, n, f[n - 1])]

\* A set of numbers that is not empty has a least one.
LEMMA LeastNatural ==
  ASSUME NEW T \in SUBSET Nat, T # {}
  PROVE  \E x \in T : \A y \in T : x <= y
  <1> DEFINE R == OpToRel(<, Nat)
  <1>1. IsWellFoundedOn(R, Nat)
    BY NatLessThanWellFounded
  <1>2. \A x \in Nat, y \in Nat : x < y => <<x, y>> \in R
    BY DEF OpToRel
  <1> HIDE DEF R
  <1>3. PICK x \in T : \A y \in T : ~ (<<y, x>> \in R)
    BY <1>1, WFMin, Zenon
  <1>4. ASSUME NEW y \in T PROVE x <= y
    <2>1. x \in Nat /\ y \in Nat
      OBVIOUS
    <2>2. ~(y < x)
      BY <1>2, <1>3, <2>1, Zenon
    <2> QED BY <2>1, <2>2
  <1> QED BY <1>4

\* Two functions that iterate up to m agree: at the least number at which they
\* did not, the steps before it would be the same.
LEMMA IteratesOnce ==
  ASSUME NEW q, NEW m \in Nat, NEW f, NEW g, Iterates(f, q, 0..m), Iterates(g, q, 0..m)
  PROVE  f = g
  <1>1. /\ DOMAIN f = 0..m /\ DOMAIN g = 0..m
        /\ f = [n \in 0..m |-> f[n]] /\ g = [n \in 0..m |-> g[n]]
        /\ \A n \in 0..m : f[n] = IF n = 0 THEN First(q) ELSE Step(q, n, f[n - 1])
        /\ \A n \in 0..m : g[n] = IF n = 0 THEN First(q) ELSE Step(q, n, g[n - 1])
    BY DEF Iterates
  <1> DEFINE T == {n \in 0..m : f[n] # g[n]}
  <1>2. ASSUME T # {} PROVE FALSE
    <2>a. T \in SUBSET Nat
      OBVIOUS
    <2>1. PICK x \in T : \A y \in T : x <= y
      <3> HIDE DEF T
      <3> QED BY <1>2, <2>a, LeastNatural
    <2>2. x = 0 \/ (x - 1 \in 0..m /\ x - 1 \notin T)
      BY <2>1
    <2> QED BY <1>1, <2>2
  <1>3. \A n \in 0..m : f[n] = g[n]
    BY <1>2
  <1> QED BY <1>1, <1>3

LEMMA IteratesUpto ==
  ASSUME NEW q, NEW m \in Nat
  PROVE  \E f : Iterates(f, q, 0..m)
  <1> DEFINE T == {n \in Nat : ~ \E f : Iterates(f, q, 0..n)}
  <1>1. ASSUME T # {} PROVE FALSE
    <2>1. PICK x \in T : \A y \in T : x <= y
      BY <1>1, LeastNatural
    <2>2. CASE x = 0
      <3> DEFINE f == [n \in 0..0 |-> First(q)]
      <3>1. Iterates(f, q, 0..0)
        BY DEF Iterates
      <3> QED BY <2>1, <2>2, <3>1
    <2>3. CASE x # 0
      <3>1. x - 1 \in Nat /\ x - 1 \notin T
        BY <2>1, <2>3
      <3>2. PICK g : Iterates(g, q, 0..(x - 1))
        BY <3>1
      <3> DEFINE f == [n \in 0..x |-> IF n = x THEN Step(q, x, g[x - 1]) ELSE g[n]]
      <3>3. \A n \in 0..(x - 1) : g[n] = IF n = 0 THEN First(q) ELSE Step(q, n, g[n - 1])
        BY <3>2 DEF Iterates
      <3>4. ASSUME NEW n \in 0..x
            PROVE  f[n] = IF n = 0 THEN First(q) ELSE Step(q, n, f[n - 1])
        <4>1. CASE n = x
          BY <2>3, <4>1
        <4>2. CASE n # x
          <5>1. n \in 0..(x - 1) /\ f[n] = g[n]
            BY <4>2
          <5>2. n # 0 => f[n - 1] = g[n - 1]
            BY <5>1
          <5> QED BY <3>3, <5>1, <5>2
        <4> QED BY <4>1, <4>2
      <3>5. f = [n \in 0..x |-> f[n]]
        OBVIOUS
      <3> HIDE DEF f
      <3>6. Iterates(f, q, 0..x)
        BY <3>4, <3>5 DEF Iterates
      <3> QED BY <2>1, <3>6
    <2> QED BY <2>2, <2>3
  <1> QED BY <1>1

\* The function exists: its value at n is that of the one up to n.
LEMMA IterationExists == \A q : \E f : Iterates(f, q, Nat)
  <1> TAKE q
  <1> DEFINE upto(m) == CHOOSE f : Iterates(f, q, 0..m)
             f == [n \in Nat |-> upto(n)[n]]
  <1>1. \A m \in Nat : Iterates(upto(m), q, 0..m)
    BY IteratesUpto
  <1> HIDE DEF upto
  <1>2. ASSUME NEW n \in Nat
        PROVE  f[n] = IF n = 0 THEN First(q) ELSE Step(q, n, f[n - 1])
    <2>1. upto(n)[n] = IF n = 0 THEN First(q) ELSE Step(q, n, upto(n)[n - 1])
      BY <1>1 DEF Iterates
    <2>2. ASSUME n # 0 PROVE upto(n)[n - 1] = upto(n - 1)[n - 1]
      <3> DEFINE g == [i \in 0..(n - 1) |-> upto(n)[i]]
      <3>1. \A i \in 0..n : upto(n)[i] = IF i = 0 THEN First(q) ELSE Step(q, i, upto(n)[i - 1])
        BY <1>1 DEF Iterates
      <3>2. \A i \in 0..(n - 1) : g[i] = IF i = 0 THEN First(q) ELSE Step(q, i, g[i - 1])
        BY <2>2, <3>1
      <3>3. g = [i \in 0..(n - 1) |-> g[i]] /\ g[n - 1] = upto(n)[n - 1]
        BY <2>2
      <3> HIDE DEF g
      <3>4. Iterates(g, q, 0..(n - 1))
        BY <3>2, <3>3 DEF Iterates
      <3>5. n - 1 \in Nat
        BY <2>2
      <3>6. g = upto(n - 1)
        BY <1>1, <3>4, <3>5, IteratesOnce
      <3> QED BY <3>3, <3>6
    <2> QED BY <2>1, <2>2
  <1>3. f = [n \in Nat |-> f[n]]
    OBVIOUS
  <1> HIDE DEF f
  <1>4. Iterates(f, q, Nat)
    BY <1>2, <1>3 DEF Iterates
  <1> QED BY <1>4
=============================================================================
