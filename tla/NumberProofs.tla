---------------------------- MODULE NumberProofs ----------------------------
(***************************************************************************)
(* What the other proofs need of numbers, sums and division.               *)
(***************************************************************************)
EXTENDS Totals, WellFoundedInduction, TLAPS

-----------------------------------------------------------------------------
(***************************************************************************)
(* A set of naturals has a least member, so a set that holds 0 and with    *)
(* every number the next one holds them all: induction is had for one set  *)
(* at a time, and the proofs that need it (sums, positions of a list, the  *)
(* first of some requests) name the set.                                   *)
(***************************************************************************)

\* A set of naturals has a least member.
LEMMA Least ==
  ASSUME NEW T, T \subseteq Nat, T # {}
  PROVE \E x \in T : \A y \in T : x <= y
<1> DEFINE R == OpToRel(<, Nat)
<1>1. \A i, j \in Nat : i < j => <<i, j>> \in R
  BY Zenon DEF OpToRel
<1>2. IsWellFoundedOn(R, Nat)
  BY NatLessThanWellFounded, Zenon
<1> HIDE DEF R
<1>3. PICK x \in T : \A y \in T : ~ (<<y, x>> \in R)
  BY <1>2, WFMin, Zenon
<1>4. x \in Nat
  BY <1>3, Zenon
<1>5. ASSUME NEW y \in T PROVE x <= y
  <2>1. y \in Nat /\ ~ (y < x)
    BY <1>1, <1>3, <1>4, Zenon
  <2> QED
    BY <1>4, <2>1
<1> QED
  BY <1>3, <1>5, Zenon

\* Induction on a set of naturals.
LEMMA Induct ==
  ASSUME NEW T, 0 \in T, \A n \in Nat : n \in T => n + 1 \in T
  PROVE Nat \subseteq T
<1> SUFFICES ASSUME Nat \ T # {} PROVE FALSE
  BY Zenon
<1>1. PICK x \in Nat \ T : \A y \in Nat \ T : x <= y
  BY Least, Zenon
<1>2. x # 0 /\ x - 1 \in Nat
  BY <1>1
<1>3. x - 1 \in T
  BY <1>1, <1>2
<1> QED
  BY <1>1, <1>2, <1>3

-----------------------------------------------------------------------------
(* The sum of numbers. *)

\* f is the function of the partial sums of v up to n.
Runs(f, v, n) == f = [k \in 0 .. n |-> IF k = 0 THEN 0 ELSE f[k - 1] + v[k]]

\* The function of the partial sums exists.
LEMMA RunsExists ==
  ASSUME NEW v, NEW n \in Nat
  PROVE \E f : Runs(f, v, n)
<1> DEFINE T == {m \in Nat : \E f : Runs(f, v, m)}
<1>1. 0 \in T
  <2>1. Runs([k \in 0 .. 0 |-> 0], v, 0)
    BY DEF Runs
  <2> QED
    BY <2>1, Zenon
<1>2. ASSUME NEW m \in Nat, m \in T PROVE m + 1 \in T
  <2>1. PICK f : Runs(f, v, m)
    BY <1>2, Zenon
  <2> DEFINE g == [k \in 0 .. m + 1 |-> IF k = m + 1 THEN f[m] + v[m + 1] ELSE f[k]]
  <2>2. \A k \in 0 .. m : f[k] = IF k = 0 THEN 0 ELSE f[k - 1] + v[k]
    BY <2>1, Zenon DEF Runs
  <2>3. \A k \in 0 .. m + 1 : g[k] = IF k = 0 THEN 0 ELSE g[k - 1] + v[k]
    <3> TAKE k \in 0 .. m + 1
    <3>1. CASE k = m + 1
      BY <3>1
    <3>2. CASE k # m + 1 /\ k # 0
      <4>1. k \in 0 .. m /\ k - 1 \in 0 .. m /\ k - 1 # m + 1
        BY <3>2
      <4>2. g[k] = f[k] /\ g[k - 1] = f[k - 1]
        BY <3>2, <4>1
      <4> HIDE DEF g
      <4> QED
        BY <2>2, <3>2, <4>1, <4>2, Zenon
    <3>3. CASE k = 0
      BY <2>2, <3>3
    <3> QED
      BY <3>1, <3>2, <3>3, Zenon
  <2>4. g = [k \in 0 .. m + 1 |-> g[k]]
    BY Zenon
  <2> HIDE DEF g
  <2>5. Runs(g, v, m + 1)
    BY <2>3, <2>4, Zenon DEF Runs
  <2> QED
    BY <2>5
<1>3. Nat \subseteq T
  <2> HIDE DEF T
  <2> QED
    BY <1>1, <1>2, Induct, Zenon
<1> QED
  BY <1>3, Zenon

\* There is one such function, and a longer one goes on from a shorter one.
LEMMA RunsAgree ==
  ASSUME NEW v, NEW m \in Nat, NEW n \in Nat, m <= n, NEW f, Runs(f, v, m), NEW g, Runs(g, v, n)
  PROVE \A k \in 0 .. m : f[k] = g[k]
<1> DEFINE T == {k \in Nat : k <= m => f[k] = g[k]}
<1>1. \A k \in 0 .. m : f[k] = IF k = 0 THEN 0 ELSE f[k - 1] + v[k]
  BY Zenon DEF Runs
<1>2. \A k \in 0 .. n : g[k] = IF k = 0 THEN 0 ELSE g[k - 1] + v[k]
  BY Zenon DEF Runs
<1>3. 0 \in T
  BY <1>1, <1>2
<1>4. ASSUME NEW k \in Nat, k \in T PROVE k + 1 \in T
  <2>1. CASE k + 1 <= m
    <3>1. f[k] = g[k] /\ k + 1 \in 0 .. m /\ k + 1 \in 0 .. n /\ k + 1 # 0 /\ (k + 1) - 1 = k
      BY <1>4, <2>1
    <3>2. f[k + 1] = f[k] + v[k + 1] /\ g[k + 1] = g[k] + v[k + 1]
      BY <1>1, <1>2, <3>1, Zenon
    <3> QED
      BY <3>1, <3>2
  <2>2. CASE ~ (k + 1 <= m)
    BY <2>2
  <2> QED
    BY <2>1, <2>2, Zenon
<1>5. Nat \subseteq T
  <2> HIDE DEF T
  <2> QED
    BY <1>3, <1>4, Induct, Zenon
<1> QED
  BY <1>5

\* Total is the last of the partial sums.
LEMMA TotalIs ==
  ASSUME NEW v, NEW n \in Nat
  PROVE \E f : Runs(f, v, n) /\ Total(v, n) = f[n]
<1> DEFINE f == CHOOSE f : Runs(f, v, n)
<1>1. Runs(f, v, n)
  BY RunsExists, Zenon
<1>2. Total(v, n) = f[n]
  BY Zenon DEF Total, Runs
<1> QED
  BY <1>1, <1>2, Zenon

\* Adding the numbers one by one.
LEMMA TotalSteps ==
  ASSUME NEW v
  PROVE Total(v, 0) = 0 /\ \A n \in Nat : Total(v, n + 1) = Total(v, n) + v[n + 1]
<1>1. Total(v, 0) = 0
  <2>1. PICK f : Runs(f, v, 0) /\ Total(v, 0) = f[0]
    BY TotalIs, Zenon
  <2> QED
    BY <2>1 DEF Runs
<1>2. ASSUME NEW n \in Nat PROVE Total(v, n + 1) = Total(v, n) + v[n + 1]
  <2>1. PICK f : Runs(f, v, n) /\ Total(v, n) = f[n]
    BY TotalIs, Zenon
  <2>2. PICK g : Runs(g, v, n + 1) /\ Total(v, n + 1) = g[n + 1]
    BY TotalIs
  <2>3. f[n] = g[n]
    <3>1. \A k \in 0 .. n : f[k] = g[k]
      BY <2>1, <2>2, RunsAgree
    <3> QED
      BY <3>1
  <2>4. g[n + 1] = g[n] + v[n + 1]
    <3>1. n + 1 \in 0 .. n + 1 /\ n + 1 # 0 /\ (n + 1) - 1 = n
      OBVIOUS
    <3>2. \A k \in 0 .. n + 1 : g[k] = IF k = 0 THEN 0 ELSE g[k - 1] + v[k]
      BY <2>2, Zenon DEF Runs
    <3> QED
      BY <3>1, <3>2, Zenon
  <2> QED
    BY <2>1, <2>2, <2>3, <2>4, Zenon
<1> QED
  BY <1>1, <1>2, Zenon

\* The sum of naturals is one.
LEMMA TotalNat ==
  ASSUME NEW v, NEW n \in Nat, \A i \in 1 .. n : v[i] \in Nat
  PROVE Total(v, n) \in Nat
<1> DEFINE T == {m \in Nat : m <= n => Total(v, m) \in Nat}
<1>1. 0 \in T
  BY TotalSteps
<1>2. ASSUME NEW m \in Nat, m \in T PROVE m + 1 \in T
  <2>1. Total(v, m + 1) = Total(v, m) + v[m + 1]
    BY TotalSteps, Zenon
  <2> QED
    BY <1>2, <2>1
<1>3. Nat \subseteq T
  <2> HIDE DEF T
  <2> QED
    BY <1>1, <1>2, Induct, Zenon
<1> QED
  BY <1>3

\* The sum of the same numbers is the same.
LEMMA TotalSame ==
  ASSUME NEW v, NEW u, NEW n \in Nat, \A i \in 1 .. n : v[i] = u[i]
  PROVE Total(v, n) = Total(u, n)
<1> DEFINE T == {m \in Nat : m <= n => Total(v, m) = Total(u, m)}
<1>1. 0 \in T
  BY TotalSteps, Zenon
<1>2. ASSUME NEW m \in Nat, m \in T PROVE m + 1 \in T
  <2>1. Total(v, m + 1) = Total(v, m) + v[m + 1] /\ Total(u, m + 1) = Total(u, m) + u[m + 1]
    BY TotalSteps, Zenon
  <2> QED
    BY <1>2, <2>1
<1>3. Nat \subseteq T
  <2> HIDE DEF T
  <2> QED
    BY <1>1, <1>2, Induct, Zenon
<1> QED
  BY <1>3

\* The first n of u are the numbers of v after the first k.
Follows(u, v, k, n) == (\A i \in 1 .. k + n : v[i] \in Nat) /\ \A i \in 1 .. n : u[i] = v[k + i]

\* What is taken from the front is deducted.
LEMMA TotalSplit ==
  ASSUME NEW v, NEW u, NEW k \in Nat, NEW n \in Nat, Follows(u, v, k, n)
  PROVE Total(v, k + n) = Total(v, k) + Total(u, n)
<1> USE DEF Follows
<1> DEFINE T == {m \in Nat : m <= n => Total(v, k + m) = Total(v, k) + Total(u, m)}
<1>1. 0 \in T
  <2>1. Total(v, k) \in Nat
    BY TotalNat
  <2> QED
    BY <2>1, TotalSteps
<1>2. ASSUME NEW m \in Nat, m \in T PROVE m + 1 \in T
  <2> SUFFICES ASSUME m + 1 <= n PROVE Total(v, k + (m + 1)) = Total(v, k) + Total(u, m + 1)
    OBVIOUS
  <2>1. Total(v, (k + m) + 1) = Total(v, k + m) + v[(k + m) + 1]
    BY TotalSteps
  <2>2. Total(u, m + 1) = Total(u, m) + u[m + 1]
    BY TotalSteps, Zenon
  <2>3. u[m + 1] = v[(k + m) + 1] /\ v[(k + m) + 1] \in Nat
    <3>1. m + 1 \in 1 .. n /\ (k + m) + 1 \in 1 .. k + n /\ k + (m + 1) = (k + m) + 1
      OBVIOUS
    <3> QED
      BY <3>1
  <2>4. Total(v, k) \in Nat
    BY TotalNat
  <2>5. Total(u, m) \in Nat
    <3>1. \A i \in 1 .. m : u[i] \in Nat
      <4> TAKE i \in 1 .. m
      <4>1. i \in 1 .. n /\ k + i \in 1 .. k + n
        OBVIOUS
      <4> QED
        BY <4>1, Zenon
    <3> QED
      BY <3>1, TotalNat, Zenon
  <2>6. Total(v, k + m) = Total(v, k) + Total(u, m)
    BY <1>2
  <2>7. k + (m + 1) = (k + m) + 1
    OBVIOUS
  <2> QED
    BY <2>1, <2>2, <2>3, <2>4, <2>5, <2>6, <2>7
<1>3. Nat \subseteq T
  <2> HIDE DEF T
  <2> QED
    BY <1>1, <1>2, Induct, Zenon
<1> QED
  BY <1>3

\* The numbers u are those of v, but for x added to one.
Raised(u, v, n, i, x) ==
  (\A j \in 1 .. n : v[j] \in Nat) /\ \A j \in 1 .. n : IF j = i THEN u[j] = v[j] + x ELSE u[j] = v[j]

\* What is added to one of the numbers is added to the sum.
LEMMA TotalRaised ==
  ASSUME NEW v, NEW u, NEW n \in Nat, NEW i \in 1 .. n, NEW x \in Nat, Raised(u, v, n, i, x)
  PROVE Total(u, n) = Total(v, n) + x
<1> USE DEF Raised
<1> DEFINE T == {m \in Nat : m <= n => IF m < i THEN Total(u, m) = Total(v, m) ELSE Total(u, m) = Total(v, m) + x}
<1>1. 0 \in T
  BY TotalSteps
<1>2. ASSUME NEW m \in Nat, m \in T PROVE m + 1 \in T
  <2> SUFFICES ASSUME m + 1 <= n
               PROVE IF m + 1 < i THEN Total(u, m + 1) = Total(v, m + 1) ELSE Total(u, m + 1) = Total(v, m + 1) + x
    OBVIOUS
  <2>1. Total(v, m + 1) = Total(v, m) + v[m + 1] /\ Total(u, m + 1) = Total(u, m) + u[m + 1]
    BY TotalSteps, Zenon
  <2>2. Total(v, m) \in Nat /\ v[m + 1] \in Nat
    BY TotalNat
  <2>3. IF m < i THEN Total(u, m) = Total(v, m) ELSE Total(u, m) = Total(v, m) + x
    BY <1>2
  <2>4. IF m + 1 = i THEN u[m + 1] = v[m + 1] + x ELSE u[m + 1] = v[m + 1]
    OBVIOUS
  <2> QED
    BY <2>1, <2>2, <2>3, <2>4
<1>3. Nat \subseteq T
  <2> HIDE DEF T
  <2> QED
    BY <1>1, <1>2, Induct, Zenon
<1> QED
  BY <1>3

\* Sums keep the order.
LEMMA TotalLess ==
  ASSUME NEW v, NEW u, NEW n \in Nat, \A i \in 1 .. n : v[i] \in Nat /\ u[i] \in Nat /\ v[i] <= u[i]
  PROVE Total(v, n) <= Total(u, n)
<1> DEFINE T == {m \in Nat : m <= n => Total(v, m) <= Total(u, m)}
<1>1. 0 \in T
  BY TotalSteps
<1>2. ASSUME NEW m \in Nat, m \in T PROVE m + 1 \in T
  <2> SUFFICES ASSUME m + 1 <= n PROVE Total(v, m + 1) <= Total(u, m + 1)
    OBVIOUS
  <2>1. Total(v, m + 1) = Total(v, m) + v[m + 1] /\ Total(u, m + 1) = Total(u, m) + u[m + 1]
    BY TotalSteps, Zenon
  <2>2. Total(v, m) \in Nat /\ Total(u, m) \in Nat
    BY TotalNat
  <2>3. v[m + 1] \in Nat /\ u[m + 1] \in Nat /\ v[m + 1] <= u[m + 1]
    OBVIOUS
  <2>4. Total(v, m) <= Total(u, m)
    BY <1>2
  <2> QED
    BY <2>1, <2>2, <2>3, <2>4
<1>3. Nat \subseteq T
  <2> HIDE DEF T
  <2> QED
    BY <1>1, <1>2, Induct, Zenon
<1> QED
  BY <1>3

\* The sum of nothing.
LEMMA TotalZero ==
  ASSUME NEW n \in Nat
  PROVE Total([i \in 1 .. n |-> 0], n) = 0
<1> DEFINE v == [i \in 1 .. n |-> 0]
           T == {m \in Nat : m <= n => Total(v, m) = 0}
<1>1. 0 \in T
  BY TotalSteps, Zenon
<1>2. ASSUME NEW m \in Nat, m \in T PROVE m + 1 \in T
  <2>1. Total(v, m + 1) = Total(v, m) + v[m + 1]
    BY TotalSteps, Zenon
  <2> QED
    BY <1>2, <2>1
<1>3. Nat \subseteq T
  <2> HIDE DEF T
  <2> QED
    BY <1>1, <1>2, Induct, Zenon
<1> QED
  BY <1>3

-----------------------------------------------------------------------------
(* Division. *)

\* What is left of a division is less than the divisor.
LEMMA DivBounds ==
  ASSUME NEW n \in Nat, NEW d \in Nat \ {0}
  PROVE n \div d \in Nat /\ d * (n \div d) <= n /\ n < d * (n \div d) + d
<1>1. n \div d \in Int
  OBVIOUS
<1>2. n \div d >= 0
  OBVIOUS
<1>3. d * (n \div d) <= n
  OBVIOUS
<1>4. n < d * (n \div d) + d
  OBVIOUS
<1> QED
  BY <1>1, <1>2, <1>3, <1>4

\* Multiplication by a natural number keeps the order.
LEMMA TimesMonotone ==
  ASSUME NEW a \in Int, NEW b \in Int, NEW d \in Nat, a <= b
  PROVE d * a <= d * b
OBVIOUS

\* Division keeps the order.
LEMMA DivMonotone ==
  ASSUME NEW n \in Nat, NEW m \in Nat, NEW d \in Nat \ {0}, n <= m
  PROVE n \div d <= m \div d
<1> DEFINE p == n \div d
           q == m \div d
<1>1. p \in Nat /\ q \in Nat /\ d * p <= n /\ m < d * q + d
  BY DivBounds, Zenon
<1> HIDE DEF p, q
<1>2. ASSUME q < p PROVE FALSE
  <2>1. d * (q + 1) <= d * p
    BY <1>1, <1>2, TimesMonotone
  <2>2. d * (q + 1) = d * q + d
    BY <1>1
  <2> QED
    BY <1>1, <2>1, <2>2
<1> QED
  BY <1>1, <1>2 DEF p, q
=============================================================================
