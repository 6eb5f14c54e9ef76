-------------------------- MODULE EnumerationProofs --------------------------
(***************************************************************************)
(* Enumerate lists a finite set in order, each element once.  An element   *)
(* has as many elements before it as its place says: ranks are all         *)
(* different, and there are as many places as elements.                    *)
(***************************************************************************)
EXTENDS Enumeration, Sequences, FiniteSetTheorems, WellFoundedInduction, TLAPS

StrictTotalOrder(R, S) ==
  /\ \A i \in S : <<i, i>> \notin R
  /\ \A i, j, k \in S : <<i, j>> \in R /\ <<j, k>> \in R => <<i, k>> \in R
  /\ \A i, j \in S : i = j \/ <<i, j>> \in R \/ <<j, i>> \in R

\* What Enumerate promises: a sequence of all elements and no other, in order.
Lists(s, S, R) ==
  /\ s \in Seq(S)
  /\ Len(s) = Cardinality(S)
  /\ \A i \in S : \E k \in 1..Len(s) : s[k] = i
  /\ \A k, l \in 1..Len(s) : k < l => <<s[k], s[l]>> \in R

\* The sequences that the path observers take their candidates and targets from
\* hold each selected element exactly once, the first in order first.
THEOREM EnumerateLists ==
  ASSUME NEW S, IsFiniteSet(S), NEW R, StrictTotalOrder(R, S)
  PROVE  Lists(Enumerate(S, R), S, R)
<1> DEFINE n == Cardinality(S)
           Before(i) == {j \in S : <<j, i>> \in R}
           rank == [i \in S |-> Cardinality(Before(i))]
           s == Enumerate(S, R)
<1>1. n \in Nat
  BY FS_CardinalityType
<1>2. ASSUME NEW i \in S
      PROVE  IsFiniteSet(Before(i)) /\ rank[i] \in 0..(n - 1)
  <2>1. Before(i) \subseteq S /\ Before(i) # S
    BY <1>2 DEF StrictTotalOrder
  <2>2. /\ IsFiniteSet(Before(i))
        /\ Cardinality(Before(i)) <= n /\ Cardinality(Before(i)) # n
    BY <2>1, FS_Subset
  <2>3. Cardinality(Before(i)) \in Nat
    BY <2>2, FS_CardinalityType
  <2>4. rank[i] = Cardinality(Before(i))
    OBVIOUS
  <2> HIDE DEF rank, Before
  <2> QED
    BY <1>1, <2>2, <2>3, <2>4
<1>3. ASSUME NEW i \in S, NEW j \in S, <<i, j>> \in R
      PROVE  rank[i] < rank[j]
  <2>1. Before(i) \subseteq Before(j) /\ Before(i) # Before(j)
    BY <1>3 DEF StrictTotalOrder
  <2>2. /\ Cardinality(Before(i)) <= Cardinality(Before(j))
        /\ Cardinality(Before(i)) # Cardinality(Before(j))
    BY <1>2, <2>1, FS_Subset
  <2>3. rank[i] = Cardinality(Before(i)) /\ rank[j] = Cardinality(Before(j))
    OBVIOUS
  <2>4. rank[i] \in 0..(n - 1) /\ rank[j] \in 0..(n - 1)
    BY <1>2
  <2> HIDE DEF rank, Before
  <2> QED
    BY <1>1, <2>2, <2>3, <2>4
<1>4. \A i, j \in S : rank[i] = rank[j] => i = j
  <2> SUFFICES ASSUME NEW i \in S, NEW j \in S, rank[i] = rank[j], i # j PROVE FALSE
    BY Zenon
  <2>1. rank[i] < rank[j] \/ rank[j] < rank[i]
    BY <1>3 DEF StrictTotalOrder
  <2>2. rank[i] \in 0..(n - 1) /\ rank[j] \in 0..(n - 1)
    BY <1>2
  <2> HIDE DEF rank
  <2> QED
    BY <1>1, <2>1, <2>2
<1>5. \A place \in 0..(n - 1) : \E i \in S : rank[i] = place
  <2>1. rank \in Injection(S, 0..(n - 1))
    <3>1. rank \in [S -> 0..(n - 1)]
      BY <1>2
    <3> HIDE DEF rank
    <3> QED
      BY <1>4, <3>1 DEF Injection, IsInjective
  <2>2. IsFiniteSet(0..(n - 1)) /\ Cardinality(0..(n - 1)) = n
    <3>1. n - 1 \in Int /\ 0 \in Int
      BY <1>1
    <3>2. /\ IsFiniteSet(0..(n - 1))
          /\ Cardinality(0..(n - 1)) = IF 0 > n - 1 THEN 0 ELSE (n - 1) - 0 + 1
      BY <3>1, FS_Interval
    <3> QED
      BY <1>1, <3>2
  <2>3. rank \in Surjection(S, 0..(n - 1))
    <3> HIDE DEF rank
    <3> QED
      BY <2>1, <2>2, FS_Injection
  <2> HIDE DEF rank
  <2> QED
    BY <2>3 DEF Surjection
<1>6. s \in [1..n -> S] /\ \A k \in 1..n : rank[s[k]] = k - 1
  <2>1. s = [k \in 1..n |-> CHOOSE i \in S : Cardinality(Before(i)) = k - 1]
    BY DEF Enumerate
  <2>2. \A i \in S : rank[i] = Cardinality(Before(i))
    OBVIOUS
  <2> HIDE DEF rank, Before, s
  <2>3. ASSUME NEW k \in 1..n
        PROVE  s[k] \in S /\ rank[s[k]] = k - 1
    <3>1. k - 1 \in 0..(n - 1)
      BY <1>1
    <3>2. \E i \in S : Cardinality(Before(i)) = k - 1
      BY <1>5, <2>2, <3>1
    <3>3. s[k] = CHOOSE i \in S : Cardinality(Before(i)) = k - 1
      BY <2>1
    <3> QED
      BY <2>2, <3>2, <3>3
  <2> QED
    BY <2>1, <2>3
<1>7. rank \in [S -> 0..(n - 1)]
  BY <1>2
<1> HIDE DEF rank, s
<1>8. s \in Seq(S) /\ Len(s) = n
  BY <1>1, <1>6
<1>9. \A i \in S : \E k \in 1..n : s[k] = i
  <2> SUFFICES ASSUME NEW i \in S PROVE \E k \in 1..n : s[k] = i
    OBVIOUS
  <2>1. rank[i] + 1 \in 1..n /\ (rank[i] + 1) - 1 = rank[i]
    BY <1>1, <1>7
  <2> QED
    BY <1>4, <1>6, <2>1
<1>10. \A k, l \in 1..n : k < l => <<s[k], s[l]>> \in R
  <2> SUFFICES ASSUME NEW k \in 1..n, NEW l \in 1..n, k < l PROVE <<s[k], s[l]>> \in R
    OBVIOUS
  <2>1. s[k] \in S /\ s[l] \in S /\ rank[s[k]] = k - 1 /\ rank[s[l]] = l - 1
    BY <1>6
  <2>2. s[k] # s[l]
    BY <1>1, <2>1
  <2>3. ~(rank[s[l]] < rank[s[k]])
    BY <1>1, <2>1
  <2> QED
    BY <1>3, <2>1, <2>2, <2>3 DEF StrictTotalOrder
<1> QED
  BY <1>8, <1>9, <1>10 DEF Lists, s

-----------------------------------------------------------------------------
\* A set of numbers has a least one; an induction over a number is the search for the
\* least one that fails.
LEMMA Least ==
  ASSUME NEW S, S \subseteq Nat, S # {}
  PROVE  \E k \in S : \A j \in S : k <= j
<1> DEFINE R == {p \in Nat \X Nat : p[1] < p[2]}
<1>1. IsWellFoundedOn(R, Nat)
  BY NatLessThanWellFounded DEF OpToRel
<1>2. \A j, k \in Nat : j < k => <<j, k>> \in R
  OBVIOUS
<1> HIDE DEF R
<1>3. PICK k \in S : \A j \in S : <<j, k>> \notin R
  BY <1>1, WFMin
<1>4. \A j \in S : ~(j < k)
  BY <1>2, <1>3
<1> QED
  BY <1>4
==============================================================================
