-------------------------- MODULE BoundedInduction --------------------------
(***************************************************************************)
(* What stands in for induction: a nonempty set of natural numbers has a   *)
(* least element, and a greatest one if it is bounded, so that a claim     *)
(* that fails for a number fails for a first one; and a function defined   *)
(* by recursion over 0..n exists.                                          *)
(***************************************************************************)
EXTENDS Integers, WellFoundedInduction, TLAPS

LEMMA Least ==
  ASSUME NEW T, T \subseteq Nat, T # {}
  PROVE  \E x \in T : \A y \in T : x <= y
  <1> DEFINE R == OpToRel(<, Nat)
  <1>1. IsWellFoundedOn(R, Nat)
    BY NatLessThanWellFounded
  <1>2. \A y, x \in Nat : y < x => <<y, x>> \in R
    BY DEF OpToRel
  <1> HIDE DEF R
  <1>3. PICK x \in T : \A y \in T : ~(<<y, x>> \in R)
    BY <1>1, WFMin
  <1>4. \A y \in T : ~(y < x) /\ x \in Nat /\ y \in Nat
    BY <1>2, <1>3
  <1>5. \A y \in T : x <= y
    BY <1>4
  <1> QED
    BY <1>5

LEMMA Greatest ==
  ASSUME NEW n \in Nat, NEW T, T \subseteq 0..n, T # {}
  PROVE  \E x \in T : \A y \in T : x >= y
  <1> DEFINE U == {n - x : x \in T}
  <1>1. \A x \in T : n - x \in Nat
    OBVIOUS
  <1>2. U \subseteq Nat /\ U # {}
    BY <1>1
  <1> HIDE DEF U
  <1>3. PICK u \in U : \A v \in U : u <= v
    BY <1>2, Least
  <1>4. PICK x \in T : u = n - x
    BY <1>3 DEF U
  <1>5. \A y \in T : n - x <= n - y
    BY <1>3, <1>4 DEF U
  <1> QED
    BY <1>5

\* A recursion over 0..n with values in S, its steps being the functions F.
LEMMA Recursion ==
  ASSUME NEW S, NEW b \in S, NEW n \in Nat, NEW F \in [1..n -> [S -> S]]
  PROVE  \E f \in [0..n -> S] : f[0] = b /\ \A k \in 1..n : f[k] = F[k][f[k-1]]
  <1> DEFINE Defined(m) ==
               \E f \in [0..m -> S] : f[0] = b /\ \A k \in 1..m : f[k] = F[k][f[k-1]]
             Bad == {m \in 0..n : ~Defined(m)}
  <1>0. n \in 0..n /\ Bad \subseteq Nat
    OBVIOUS
  <1> HIDE DEF Defined
  <1>1. SUFFICES ASSUME Bad # {}
                 PROVE  FALSE
    BY <1>0 DEF Defined
  <1> HIDE DEF Bad
  <1>2. PICK m \in Bad : \A y \in Bad : m <= y
    BY <1>0, <1>1, Least
  <1>3. m \in 0..n /\ ~Defined(m)
    BY <1>2 DEF Bad
  <1>4. CASE m = 0
    <2> DEFINE z == [k \in 0..0 |-> b]
    <2>1. z \in [0..0 -> S] /\ z[0] = b /\ \A k \in 1..0 : z[k] = F[k][z[k-1]]
      OBVIOUS
    <2> HIDE DEF z
    <2>2. Defined(0)
      BY <2>1 DEF Defined
    <2> QED
      BY <1>3, <1>4, <2>2
  <1>5. CASE m > 0
    <2>1. m - 1 \in 0..n /\ m \in 1..n /\ ~(m <= m - 1) /\ m - 1 \in 0..m-1
      BY <1>3, <1>5
    <2>2. Defined(m - 1)
      BY <1>2, <2>1 DEF Bad
    <2>3. PICK f \in [0..m-1 -> S] : f[0] = b /\ \A k \in 1..m-1 : f[k] = F[k][f[k-1]]
      BY <2>2 DEF Defined
    <2> DEFINE last == F[m][f[m-1]]
               g == [k \in 0..m |-> IF k = m THEN last ELSE f[k]]
    <2>4. last \in S
      BY <2>1
    <2> HIDE DEF last
    <2>5. g \in [0..m -> S] /\ g[0] = b /\ g[m] = last /\ \A k \in 0..m-1 : g[k] = f[k]
      BY <1>3, <1>5, <2>3, <2>4
    <2> HIDE DEF g
    <2>6. ASSUME NEW k \in 1..m
          PROVE  g[k] = F[k][g[k-1]]
      <3>1. k - 1 \in 0..m-1 /\ g[k-1] = f[k-1]
        BY <1>3, <2>5
      <3>2. CASE k = m
        BY <2>5, <3>1, <3>2 DEF last
      <3>3. CASE k # m
        <4>1. k \in 1..m-1 /\ g[k] = f[k]
          BY <1>3, <2>5, <3>3
        <4> QED
          BY <2>3, <3>1, <4>1
      <3> QED
        BY <3>2, <3>3
    <2>7. Defined(m)
      BY <2>5, <2>6 DEF Defined
    <2> QED
      BY <1>3, <2>7
  <1> QED
    BY <1>3, <1>4, <1>5

\* The same with a name for what it says, so that a proof that cites it does
\* not go on to the values of the function it found.
Iterates(S, n, F, b) ==
  \E f \in [0..n -> S] : f[0] = b /\ \A k \in 1..n : f[k] = F[k][f[k - 1]]

LEMMA Iteration ==
  ASSUME NEW S, NEW b \in S, NEW n \in Nat, NEW F \in [1..n -> [S -> S]]
  PROVE  Iterates(S, n, F, b)
<1>1. \E f \in [0..n -> S] : f[0] = b /\ \A k \in 1..n : f[k] = F[k][f[k - 1]]
  BY Recursion
<1> QED
  BY <1>1 DEF Iterates
=============================================================================
