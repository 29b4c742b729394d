----------------------------- MODULE Induction ------------------------------
(***************************************************************************)
(* Induction over the naturals and definition by recursion, for the proofs *)
(* about what a recursive function computes, and the quotients by powers   *)
(* of two that halving computes.  Sets and functions are the parameters    *)
(* here, so that the lemmas can be cited where the library's theorems,     *)
(* which take operators, cannot.                                           *)
(***************************************************************************)
EXTENDS Integers, FiniteSetTheorems, TLAPS

\* A set of naturals that is not empty has a least element.
LEMMA Least ==
  ASSUME NEW S \in SUBSET Nat, S # {}
  PROVE  \E n \in S : \A m \in S : n <= m
<1> DEFINE T == { 1 .. n : n \in S }
<1>1. IsWellFoundedOn(StrictSubsetOrdering(Nat), FiniteSubsetsOf(Nat))
  BY FS_StrictSubsetOrderingWellFounded
<1>2. T \subseteq FiniteSubsetsOf(Nat)
  BY FS_Interval DEF FiniteSubsetsOf
<1>3. T # {}
  OBVIOUS
<1> HIDE DEF T
<1>4. PICK x \in T : \A y \in T : ~ (<<y, x>> \in StrictSubsetOrdering(Nat))
  BY <1>1, <1>2, <1>3, WFMin
<1> USE DEF T
<1>5. PICK n \in S : x = 1 .. n
  BY <1>4
<1>6. ASSUME NEW m \in S, m < n
      PROVE  FALSE
  <2>1. 1 .. m \in T /\ 1 .. m \subseteq 1 .. n /\ n \in (1 .. n) \ (1 .. m)
    BY <1>6
  <2>2. <<1 .. m, 1 .. n>> \in StrictSubsetOrdering(Nat)
    BY <2>1 DEF StrictSubsetOrdering
  <2> QED
    BY <2>1, <2>2, <1>4, <1>5
<1> QED
  BY <1>5, <1>6

\* What holds of a natural when it holds of all smaller ones, holds of all.
LEMMA StrongInduction ==
  ASSUME NEW S, \A n \in Nat : (\A m \in 0 .. n - 1 : m \in S) => n \in S
  PROVE  \A n \in Nat : n \in S
<1> SUFFICES ASSUME NEW n \in Nat, n \notin S PROVE FALSE
  OBVIOUS
<1> DEFINE T == { k \in Nat : k \notin S }
<1>1. PICK k \in T : \A m \in T : k <= m
  BY Least
<1>2. ASSUME NEW m \in 0 .. k - 1 PROVE m \in S
  BY <1>1
<1> QED
  BY <1>1, <1>2

\* What holds of 0, and of the successor of whatever it holds of, holds of all.
LEMMA SetInduction ==
  ASSUME NEW S, 0 \in S, \A n \in Nat : n \in S => n + 1 \in S
  PROVE  \A n \in Nat : n \in S
<1>1. ASSUME NEW n \in Nat, \A m \in 0 .. n - 1 : m \in S PROVE n \in S
  <2>1. CASE n = 0
    BY <2>1
  <2>2. CASE n # 0
    <3>1. n - 1 \in Nat /\ n - 1 \in 0 .. n - 1 /\ (n - 1) + 1 = n
      BY <2>2
    <3>2. n - 1 \in S
      BY <1>1, <3>1
    <3> QED
      BY <3>1, <3>2
  <2> QED
    BY <2>1, <2>2
<1> QED
  BY <1>1, StrongInduction

-----------------------------------------------------------------------------
\* The function h names an earlier argument for every one but 0, and g says how
\* the value at an argument comes from the one at that earlier argument.
Rules(V, g, h) == /\ g \in [(Nat \ {0}) \X V -> V]
                  /\ \A m \in Nat \ {0} : h[m] \in 0 .. m - 1

\* The functions that start with c and go on by g and h; the same up to n.
Recursive(V, c, g, h) ==
  { f \in [Nat -> V] : f[0] = c /\ \A m \in Nat \ {0} : f[m] = g[<<m, f[h[m]]>>] }

Upto(n, V, c, g, h) ==
  { f \in [0 .. n -> V] : \A m \in 0 .. n : f[m] = IF m = 0 THEN c ELSE g[<<m, f[h[m]]>>] }

LEMMA UptoUnique ==
  ASSUME NEW V, NEW c, NEW g, NEW h, Rules(V, g, h),
         NEW n \in Nat, NEW k \in Nat, n <= k,
         NEW e \in Upto(n, V, c, g, h), NEW f \in Upto(k, V, c, g, h)
  PROVE  \A m \in 0 .. n : e[m] = f[m]
<1> USE DEF Rules
<1> DEFINE D == { m \in 0 .. n : e[m] # f[m] }
<1>1. SUFFICES ASSUME D # {} PROVE FALSE
  OBVIOUS
<1>2. PICK m \in D : \A i \in D : m <= i
  <2>1. D \in SUBSET Nat
    OBVIOUS
  <2> HIDE DEF D
  <2> QED
    BY <1>1, <2>1, Least
<1>3. m \in 0 .. n /\ m \in 0 .. k /\ e[m] # f[m]
  BY <1>2
<1>4. m # 0
  BY <1>3 DEF Upto
<1>5. h[m] \in 0 .. m - 1 /\ h[m] \in 0 .. n /\ h[m] \notin D
  BY <1>2, <1>3, <1>4
<1>6. e[h[m]] = f[h[m]]
  BY <1>5
<1> QED
  BY <1>3, <1>4, <1>6 DEF Upto

LEMMA UptoExists ==
  ASSUME NEW V, NEW c \in V, NEW g, NEW h, Rules(V, g, h)
  PROVE  \A n \in Nat : Upto(n, V, c, g, h) # {}
<1> USE DEF Rules
<1> DEFINE S == { n \in Nat : Upto(n, V, c, g, h) # {} }
<1>1. 0 \in S
  <2> DEFINE f == [m \in 0 .. 0 |-> c]
  <2>1. f \in Upto(0, V, c, g, h)
    BY DEF Upto
  <2> QED
    BY <2>1
<1>2. ASSUME NEW n \in Nat, n \in S PROVE n + 1 \in S
  <2>1. PICK f : f \in Upto(n, V, c, g, h)
    BY <1>2
  <2>2. f \in [0 .. n -> V] /\ \A m \in 0 .. n : f[m] = IF m = 0 THEN c ELSE g[<<m, f[h[m]]>>]
    BY <2>1 DEF Upto
  <2> DEFINE v == g[<<n + 1, f[h[n + 1]]>>]
             e == [m \in 0 .. n + 1 |-> IF m <= n THEN f[m] ELSE v]
  <2>3. n + 1 \in Nat \ {0} /\ h[n + 1] \in 0 .. n
    OBVIOUS
  <2>4. v \in V
    BY <2>2, <2>3
  <2>5. e \in [0 .. n + 1 -> V]
    BY <2>2, <2>4
  <2>6. ASSUME NEW m \in 0 .. n + 1
        PROVE  e[m] = IF m = 0 THEN c ELSE g[<<m, e[h[m]]>>]
    <3>1. CASE m \in 0 .. n
      <4>1. m # 0 => h[m] \in 0 .. n
        BY <3>1
      <4>2. e[m] = f[m] /\ (m # 0 => e[h[m]] = f[h[m]])
        BY <3>1, <4>1
      <4> HIDE DEF e
      <4> QED
        BY <2>2, <3>1, <4>2
    <3>2. CASE m = n + 1
      <4>1. e[m] = v /\ e[h[m]] = f[h[m]] /\ m # 0
        BY <2>3, <3>2
      <4> HIDE DEF e
      <4> QED
        BY <3>2, <4>1
    <3> QED
      BY <3>1, <3>2
  <2>7. e \in Upto(n + 1, V, c, g, h)
    BY <2>5, <2>6 DEF Upto
  <2> QED
    BY <2>7
<1> HIDE DEF S
<1>3. \A n \in Nat : n \in S
  BY <1>1, <1>2, SetInduction
<1> QED
  BY <1>3 DEF S

\* There is a function that a recursion to an earlier argument defines.
LEMMA Recursion ==
  ASSUME NEW V, NEW c \in V, NEW g, NEW h, Rules(V, g, h)
  PROVE  Recursive(V, c, g, h) # {}
<1> USE DEF Rules
<1> DEFINE U(n) == CHOOSE f : f \in Upto(n, V, c, g, h)
           F == [m \in Nat |-> U(m)[m]]
<1>1. \A n \in Nat : U(n) \in Upto(n, V, c, g, h)
  <2> SUFFICES ASSUME NEW n \in Nat PROVE U(n) \in Upto(n, V, c, g, h)
    OBVIOUS
  <2> HIDE DEF Rules
  <2>1. Upto(n, V, c, g, h) # {}
    BY UptoExists
  <2> QED
    BY <2>1
<1> HIDE DEF U
<1>2. F \in [Nat -> V]
  BY <1>1 DEF Upto
<1>3. ASSUME NEW m \in Nat \ {0} PROVE F[m] = g[<<m, F[h[m]]>>]
  <2>1. h[m] \in Nat /\ h[m] <= m /\ h[m] \in 0 .. h[m]
    OBVIOUS
  <2>2. U(h[m])[h[m]] = U(m)[h[m]]
    <3>1. U(h[m]) \in Upto(h[m], V, c, g, h) /\ U(m) \in Upto(m, V, c, g, h)
      BY <1>1, <2>1
    <3>2. \A i \in 0 .. h[m] : U(h[m])[i] = U(m)[i]
      <4> HIDE DEF Rules
      <4> QED
        BY <2>1, <3>1, UptoUnique
    <3> QED
      BY <2>1, <3>2
  <2>3. F[m] = U(m)[m] /\ F[h[m]] = U(h[m])[h[m]]
    BY <2>1
  <2>4. U(m)[m] = g[<<m, U(m)[h[m]]>>]
    BY <1>1 DEF Upto
  <2> QED
    BY <2>2, <2>3, <2>4
<1>4. F[0] = c
  <2>1. U(0) \in Upto(0, V, c, g, h) /\ 0 \in 0 .. 0
    BY <1>1
  <2>2. U(0)[0] = c
    BY <2>1 DEF Upto
  <2> QED
    BY <2>2
<1> QED
  BY <1>2, <1>3, <1>4 DEF Recursive

-----------------------------------------------------------------------------
(* What the proofs about halving and division need.                         *)

\* The half of a number whose divisors are 1 or even is such a number.
LEMMA HalfOfPower ==
  ASSUME NEW n \in Nat \ {0}, n # 1,
         \A d, q \in 1 .. n : d * q = n => d = 1 \/ d % 2 = 0
  PROVE  /\ n % 2 = 0 /\ n = 2 * (n \div 2) /\ n \div 2 \in Nat \ {0}
         /\ \A d, q \in 1 .. n \div 2 : d * q = n \div 2 => d = 1 \/ d % 2 = 0
<1>1. n % 2 = 0
  <2>1. n \in 1 .. n /\ 1 \in 1 .. n /\ n * 1 = n
    OBVIOUS
  <2> QED
    BY <2>1
<1> DEFINE m == n \div 2
<1>2. m \in Nat /\ n = 2 * m /\ m > 0
  BY <1>1
<1> HIDE DEF m
<1>3. ASSUME NEW d \in 1 .. m, NEW q \in 1 .. m, d * q = m
      PROVE  d = 1 \/ d % 2 = 0
  <2>1. 2 * q \in 1 .. n /\ d \in 1 .. n
    BY <1>2
  <2>2. d * (2 * q) = 2 * (d * q)
    OBVIOUS
  <2> QED
    BY <1>2, <1>3, <2>1, <2>2
<1> QED
  BY <1>1, <1>2, <1>3 DEF m

\* A quotient and a remainder below the divisor are the quotient and remainder.
LEMMA Quotient ==
  ASSUME NEW x \in Nat, NEW y \in Nat \ {0}, NEW q \in Nat, NEW s \in Nat,
         q * y + s = x, s < y
  PROVE  x \div y = q /\ x % y = s
<1> DEFINE k == x \div y
           u == x % y
<1>1. k \in Nat /\ u \in Nat /\ u < y /\ x = y * k + u
  OBVIOUS
<1> HIDE DEF k, u
<1>2. y * k = k * y
  BY <1>1
<1>3. ~(k < q)
  <2> SUFFICES ASSUME k + 1 <= q PROVE FALSE
    BY <1>1
  <2>1. (k + 1) * y <= q * y
    BY <1>1
  <2>2. (k + 1) * y = k * y + y
    BY <1>1
  <2>3. k * y \in Nat /\ q * y \in Nat
    BY <1>1
  <2> QED
    BY <1>1, <1>2, <2>1, <2>2, <2>3
<1>4. ~(q < k)
  <2> SUFFICES ASSUME q + 1 <= k PROVE FALSE
    BY <1>1
  <2>1. (q + 1) * y <= k * y
    BY <1>1
  <2>2. (q + 1) * y = q * y + y
    OBVIOUS
  <2>3. k * y \in Nat /\ q * y \in Nat
    BY <1>1
  <2> QED
    BY <1>1, <1>2, <2>1, <2>2, <2>3
<1>5. k = q
  BY <1>1, <1>3, <1>4
<1>6. k * y \in Nat
  BY <1>1
<1> QED
  BY <1>1, <1>2, <1>5, <1>6 DEF k, u
=============================================================================
