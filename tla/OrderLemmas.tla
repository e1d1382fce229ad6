----------------------------- MODULE OrderLemmas -----------------------------
(* Least and largest elements, which the models pick with CHOOSE, and         *)
(* induction up to a number.                                                 *)
EXTENDS Naturals, WellFoundedInduction, TLAPS

LEMMA LeastExists ==
    ASSUME NEW S \in SUBSET Nat, S # {}
    PROVE  \E m \in S : \A i \in S : m <= i
  <1> DEFINE R == {ss \in Nat \X Nat : ss[1] < ss[2]}
  <1>1. IsWellFoundedOn(R, Nat)
    BY NatLessThanWellFounded DEF OpToRel
  <1>2. \A x, y \in Nat : y < x => <<y, x>> \in R
    OBVIOUS
  <1> HIDE DEF R
  <1>3. PICK m \in S : \A i \in S : ~ (<<i, m>> \in R)
    BY <1>1, WFMin
  <1>4. \A i \in S : ~ (i < m)
    BY <1>2, <1>3
  <1>5. QED
    BY <1>4

LEMMA LargestExists ==
    ASSUME NEW N \in Nat, NEW S \in SUBSET (0..N), S # {}
    PROVE  \E m \in S : \A i \in S : i <= m
  <1> DEFINE T == {N - i : i \in S}
  <1>1. \A i \in S : i \in Nat /\ i <= N /\ N - i \in Nat
    OBVIOUS
  <1>2. T \subseteq Nat /\ T # {}
    BY <1>1
  <1>3. \A i \in S : N - i \in T
    OBVIOUS
  <1> HIDE DEF T
  <1>4. PICK x \in T : \A y \in T : x <= y
    BY <1>2, LeastExists
  <1>5. PICK m \in S : x = N - m
    BY DEF T
  <1>6. \A i \in S : i <= m
    BY <1>1, <1>3, <1>4, <1>5
  <1>7. QED
    BY <1>6

\* Induction up to N, over the set of the numbers of which the claim holds.
LEMMA Climb ==
    ASSUME NEW N \in Nat, NEW K \in SUBSET (0..N), 0 \in K,
           \A k \in K : k < N => k + 1 \in K
    PROVE  \A k \in 0..N : k \in K
  <1> DEFINE Rest == (0..N) \ K
  <1>1. SUFFICES ASSUME Rest # {} PROVE FALSE
    OBVIOUS
  <1>2. Rest \in SUBSET Nat
    OBVIOUS
  <1>3. PICK n \in Rest : \A i \in Rest : n <= i
    BY <1>1, <1>2, LeastExists
  <1>4. n \in 1..N /\ n - 1 \in 0..N /\ ~(n <= n - 1) /\ (n - 1) + 1 = n /\ n - 1 < N
    BY <1>3
  <1>5. n - 1 \in K
    BY <1>3, <1>4
  <1>6. QED
    BY <1>3, <1>4, <1>5

=============================================================================
