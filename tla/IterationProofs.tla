--------------------------- MODULE IterationProofs ---------------------------
(***************************************************************************)
(* Facts about numbers and about doing something n times, on which the       *)
(* proofs about order sets and lobbies rest. The code's loops are recursive  *)
(* functions here; the library's induction on sets and well-founded          *)
(* relations is what they are reasoned about with.                            *)
(***************************************************************************)
EXTENDS Integers, FiniteSets, FiniteSetsExt, WellFoundedInduction, FiniteSetTheorems, TLAPS

-----------------------------------------------------------------------------
(* Induction over an interval, for sets of numbers.                          *)

LEMMA LeastNat ==
    ASSUME NEW T \in SUBSET Nat, T # {}
    PROVE  \E m \in T : \A k \in T : m <= k
<1>. DEFINE less == {ss \in Nat \X Nat : ss[1] < ss[2]}
<1>1. IsWellFoundedOn(less, Nat)
  BY NatLessThanWellFounded DEF OpToRel
<1>2. \A k, m \in Nat : <<k, m>> \in less <=> k < m
  OBVIOUS
<1>. HIDE DEF less
<1>3. PICK m \in T : \A k \in T : ~ (<<k, m>> \in less)
  BY <1>1, WFMin
<1>4. ASSUME NEW k \in T PROVE m <= k
  <2>1. k \in Nat /\ m \in Nat /\ ~ (k < m)
    BY <1>2, <1>3
  <2>. QED BY <2>1
<1>. QED BY <1>4

LEMMA NatSetInduction ==
    ASSUME NEW n \in Nat, NEW T, 0 \in T, \A i \in 0..n - 1 : i \in T => i + 1 \in T
    PROVE  0..n \subseteq T
<1>. SUFFICES ASSUME NEW k \in 0..n, k \notin T PROVE FALSE
  OBVIOUS
<1>. DEFINE U == {i \in 0..n : i \notin T}
<1>1. U \in SUBSET Nat /\ U # {}
  OBVIOUS
<1>. HIDE DEF U
<1>2. PICK m \in U : \A i \in U : m <= i
  BY <1>1, LeastNat
<1>3. m # 0 /\ m - 1 \in 0..n - 1 /\ m - 1 \notin U
  BY <1>2 DEF U
<1>. QED BY <1>2, <1>3 DEF U

(* A set of numbers up to n has a largest.                                    *)
LEMMA GreatestNat ==
    ASSUME NEW n \in Nat, NEW T \in SUBSET (0..n), T # {}
    PROVE  Max(T) \in T /\ \A k \in T : k <= Max(T)
<1>. DEFINE U == {n - k : k \in T}
<1>0. \A k \in T : k \in Nat /\ k <= n /\ n - k \in Nat
  OBVIOUS
<1>1. U \in SUBSET Nat /\ U # {}
  <2>1. \A m \in U : m \in Nat
    BY <1>0
  <2>2. PICK k \in T : TRUE
    OBVIOUS
  <2>3. n - k \in U
    BY <2>2
  <2>. QED BY <2>1, <2>3
<1>2. \A k \in T : n - k \in U
  OBVIOUS
<1>3. \A m \in U : \E k \in T : m = n - k
  OBVIOUS
<1>. HIDE DEF U
<1>4. PICK m \in U : \A k \in U : m <= k
  BY <1>1, LeastNat
<1>5. PICK t \in T : m = n - t
  BY <1>3
<1>6. \A k \in T : t >= k
  BY <1>0, <1>2, <1>4, <1>5
<1>7. Max(T) \in T /\ \A k \in T : Max(T) >= k
  BY <1>6 DEF Max
<1>. QED BY <1>0, <1>7

LEMMA SmallestOf ==
    ASSUME NEW S \in SUBSET Nat, S # {}
    PROVE  Min(S) \in S /\ \A k \in S : Min(S) <= k
<1>1. \E m \in S : \A k \in S : m <= k
  BY LeastNat
<1>. QED BY <1>1 DEF Min

(* So has any finite set of integers.                                          *)
LEMMA FiniteGreatest ==
    ASSUME NEW S \in SUBSET Int, IsFiniteSet(S), S # {}
    PROVE  Max(S) \in S /\ \A k \in S : k <= Max(S)
<1>1. PICK n \in Nat : ExistsBijection(1..n, S)
  BY FS_NatBijection
<1>2. PICK f \in [1..n -> S] : \A x \in S : \E i \in 1..n : f[i] = x
  <2>1. PICK f \in Surjection(1..n, S) : TRUE
    BY <1>1 DEF ExistsBijection, Bijection
  <2>2. f \in [1..n -> S] /\ \A x \in S : \E i \in 1..n : f[i] = x
    BY <2>1 DEF Surjection
  <2>. QED BY <2>2
<1>3. n >= 1
  <2>1. PICK x \in S : TRUE
    OBVIOUS
  <2>2. PICK i \in 1..n : f[i] = x
    BY <1>2, <2>1
  <2>. QED BY <2>2
<1>4. \A i \in 1..n : f[i] \in Int
  OBVIOUS
<1>. DEFINE T == {k \in 0..n - 1 : \E m \in 1..k + 1 : \A i \in 1..k + 1 : f[i] <= f[m]}
<1>5. 0 \in T
  <2>1. \A i \in 1..0 + 1 : i = 1
    OBVIOUS
  <2>2. 1 \in 1..0 + 1 /\ \A i \in 1..0 + 1 : f[i] <= f[1]
    BY <1>3, <1>4, <2>1
  <2>. QED BY <1>3, <2>2
<1>6. ASSUME NEW k \in 0..(n - 1) - 1, k \in T PROVE k + 1 \in T
  <2>0. k + 1 \in 0..n - 1 /\ (k + 1) + 1 \in 1..n /\ k + 1 \in 1..n
    BY <1>3
  <2>1. PICK m \in 1..k + 1 : \A i \in 1..k + 1 : f[i] <= f[m]
    BY <1>6
  <2>2. \A i \in 1..(k + 1) + 1 : i \in 1..k + 1 \/ i = (k + 1) + 1
    OBVIOUS
  <2>3. \A i \in 1..(k + 1) + 1 : f[i] \in Int
    BY <1>4, <2>0
  <2>4. CASE f[(k + 1) + 1] <= f[m]
    <3>1. m \in 1..(k + 1) + 1 /\ \A i \in 1..(k + 1) + 1 : f[i] <= f[m]
      BY <2>1, <2>2, <2>4
    <3>. QED BY <2>0, <3>1
  <2>5. CASE ~ (f[(k + 1) + 1] <= f[m])
    <3>0. f[m] < f[(k + 1) + 1]
      BY <2>3, <2>5, <2>1
    <3>1. \A i \in 1..(k + 1) + 1 : f[i] <= f[(k + 1) + 1]
      BY <2>1, <2>2, <2>3, <3>0
    <3>. QED BY <2>0, <3>1
  <2>. QED BY <2>4, <2>5
<1>7. 0..n - 1 \subseteq T
  <2>. HIDE DEF T
  <2>1. n - 1 \in Nat
    BY <1>3
  <2>. QED BY <1>5, <1>6, <2>1, NatSetInduction
<1>8. n - 1 \in T /\ (n - 1) + 1 = n
  <2>. HIDE DEF T
  <2>. QED BY <1>3, <1>7
<1>9. \E m \in 1..n : \A i \in 1..n : f[i] <= f[m]
  BY <1>8
<1>10. \E x \in S : \A k \in S : x >= k
  BY <1>2, <1>4, <1>9
<1>11. Max(S) \in S /\ \A k \in S : Max(S) >= k
  BY <1>10 DEF Max
<1>. QED BY <1>11

-----------------------------------------------------------------------------
(* A value that is n times changed by a step.                                 *)

Iterates(g, k, S, b, step) ==
    /\ g \in [0..k -> S]
    /\ g[0] = b
    /\ \A i \in 1..k : g[i] = step[<<i, g[i - 1]>>]

LEMMA IterationExists ==
    ASSUME NEW n \in Nat, NEW S, NEW b \in S, NEW step \in [(1..n) \X S -> S]
    PROVE  \E g : Iterates(g, n, S, b, step)
<1>. DEFINE T == {k \in 0..n : \E g : Iterates(g, k, S, b, step)}
<1>1. 0 \in T
  <2>1. Iterates([i \in 0..0 |-> b], 0, S, b, step)
    BY DEF Iterates
  <2>. QED BY <2>1
<1>2. ASSUME NEW k \in 0..n - 1, k \in T PROVE k + 1 \in T
  <2>1. PICK g : Iterates(g, k, S, b, step)
    BY <1>2
  <2>2. g[k] \in S
    BY <2>1 DEF Iterates
  <2>3. <<k + 1, g[k]>> \in (1..n) \X S
    BY <2>2
  <2>. DEFINE next == step[<<k + 1, g[k]>>]
              h == [i \in 0..k + 1 |-> IF i <= k THEN g[i] ELSE next]
  <2>4. next \in S
    BY <2>3
  <2>. HIDE DEF next
  <2>5. h \in [0..k + 1 -> S] /\ h[0] = b
    BY <2>1, <2>4 DEF Iterates
  <2>6. \A i \in 1..k : h[i] = g[i] /\ h[i - 1] = g[i - 1]
    BY <2>1
  <2>7. h[k + 1] = next /\ h[k] = g[k]
    OBVIOUS
  <2>8. ASSUME NEW i \in 1..k + 1 PROVE h[i] = step[<<i, h[i - 1]>>]
    <3>. HIDE DEF h
    <3>1. CASE i = k + 1
      <4>1. i - 1 = k
        BY <3>1
      <4>. QED BY <3>1, <4>1, <2>7 DEF next
    <3>2. CASE i # k + 1
      <4>1. i \in 1..k
        BY <3>2
      <4>2. g[i] = step[<<i, g[i - 1]>>]
        BY <4>1, <2>1 DEF Iterates
      <4>. QED BY <4>1, <4>2, <2>6
    <3>. QED BY <3>1, <3>2
  <2>9. Iterates(h, k + 1, S, b, step)
    BY <2>5, <2>8 DEF Iterates
  <2>. HIDE DEF h
  <2>. QED BY <2>9
<1>3. 0..n \subseteq T
  <2>. HIDE DEF T
  <2>. QED BY <1>1, <1>2, NatSetInduction
<1>4. n \in T
  BY <1>3
<1>. QED BY <1>4

(* Values stay in a set that steps do not leave.                                 *)
LEMMA IterationTyped ==
    ASSUME NEW n \in Nat, NEW S, NEW h, h = [i \in 0..n |-> h[i]], h[0] \in S,
           \A i \in 1..n : h[i - 1] \in S => h[i] \in S
    PROVE  h \in [0..n -> S]
<1>. DEFINE T == {i \in 0..n : h[i] \in S}
<1>1. 0 \in T
  OBVIOUS
<1>2. ASSUME NEW i \in 0..n - 1, i \in T PROVE i + 1 \in T
  <2>1. i + 1 \in 1..n /\ (i + 1) - 1 = i /\ h[i] \in S
    BY <1>2
  <2>2. h[i + 1] \in S
    BY <2>1
  <2>. QED BY <2>1, <2>2
<1>3. 0..n \subseteq T
  <2>. HIDE DEF T
  <2>. QED BY <1>1, <1>2, NatSetInduction
<1>. QED BY <1>3

-----------------------------------------------------------------------------
(* Of sides numbered from -1 the strongest, and of the strongest the one of the        *)
(* largest number.                                                                     *)
Strongest(e, S, h) == \A f \in S \ {e} : h[e] > h[f] \/ (h[e] = h[f] /\ e > f)

LEMMA StrongestExists ==
    ASSUME NEW n \in Nat, NEW S \in SUBSET ((1..n) \cup {-1}), S # {},
           NEW h, \A e \in S : h[e] \in Int
    PROVE  \E e \in S : Strongest(e, S, h)
<1>. DEFINE Upto(k) == {e \in S : e <= k}
            T == {k \in 0..n : Upto(k) # {} => \E e \in Upto(k) : Strongest(e, Upto(k), h)}
<1>0. \A e \in S : e \in Int /\ (e = -1 \/ e \in 1..n)
  OBVIOUS
<1>1. 0 \in T
  <2>1. \A e \in Upto(0) : e = -1
    BY <1>0
  <2>2. \A e \in Upto(0) : Strongest(e, Upto(0), h)
    BY <2>1 DEF Strongest
  <2>. HIDE DEF Upto
  <2>3. Upto(0) # {} => \E e \in Upto(0) : Strongest(e, Upto(0), h)
    BY <2>2
  <2>. QED BY <2>3
<1>2. ASSUME NEW k \in 0..n - 1, k \in T PROVE k + 1 \in T
  <2>0. k + 1 \in 0..n
    OBVIOUS
  <2>1. CASE k + 1 \notin S
    <3>0. \A e \in S : e <= k + 1 <=> e <= k
      BY <1>0, <2>1
    <3>1. Upto(k + 1) = Upto(k)
      BY <3>0
    <3>. HIDE DEF Upto
    <3>. QED BY <1>2, <2>0, <3>1
  <2>2. CASE k + 1 \in S
    <3>0. \A e \in S : e <= k + 1 <=> e <= k \/ e = k + 1
      BY <1>0, <2>2
    <3>1. Upto(k + 1) = Upto(k) \cup {k + 1}
      BY <2>2, <3>0
    <3>2. \A e \in Upto(k) : e \in S /\ e < k + 1 /\ h[e] \in Int /\ e \in Int
      BY <1>0
    <3>3. h[k + 1] \in Int
      BY <2>2
    <3>. SUFFICES \E e \in Upto(k + 1) : Strongest(e, Upto(k + 1), h)
      BY <2>0
    <3>4. CASE Upto(k) = {}
      <4>. HIDE DEF Upto
      <4>1. k + 1 \in Upto(k + 1) /\ Strongest(k + 1, Upto(k + 1), h)
        BY <3>1, <3>4 DEF Strongest
      <4>. QED BY <4>1
    <3>5. CASE Upto(k) # {}
      <4>1. PICK e \in Upto(k) : Strongest(e, Upto(k), h)
        BY <1>2, <3>5
      <4>. HIDE DEF Upto
      <4>2. CASE h[e] > h[k + 1]
        <5>1. Strongest(e, Upto(k + 1), h)
          BY <3>1, <4>1, <4>2 DEF Strongest
        <5>. QED BY <3>1, <5>1
      <4>3. CASE h[e] <= h[k + 1]
        <5>1. \A f \in Upto(k) : h[f] <= h[e]
          BY <3>2, <4>1 DEF Strongest
        <5>2. \A f \in Upto(k) : h[k + 1] > h[f] \/ (h[k + 1] = h[f] /\ k + 1 > f)
          BY <3>2, <3>3, <4>3, <5>1
        <5>3. Strongest(k + 1, Upto(k + 1), h)
          BY <3>1, <5>2 DEF Strongest
        <5>. QED BY <3>1, <5>3
      <4>. QED BY <3>2, <3>3, <4>2, <4>3
    <3>. QED BY <3>4, <3>5
  <2>. QED BY <2>1, <2>2
<1>3. n \in T
  <2>. HIDE DEF T
  <2>1. 0..n \subseteq T
    BY <1>1, <1>2, NatSetInduction
  <2>. QED BY <2>1
<1>4. Upto(n) = S
  <2>1. \A e \in S : e <= n
    BY <1>0
  <2>. QED BY <2>1
<1>. HIDE DEF Upto
<1>. QED BY <1>3, <1>4
=============================================================================
