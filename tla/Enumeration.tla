----------------------------- MODULE Enumeration -----------------------------
(***************************************************************************)
(* The elements of a finite set from the first to the last.  It is what    *)
(* SetToSortSeq of SequencesExt computes; but that is defined by a sort    *)
(* only TLC knows, and EnumerationProofs needs a definition to reason from.*)
(***************************************************************************)
EXTENDS Naturals, FiniteSets

\* R is a set of pairs that orders S strictly: in the sequence, the k-th element
\* has k - 1 elements of S before it.
Enumerate(S, R) ==
  LET Rank(i) == Cardinality({j \in S : <<j, i>> \in R})
  IN  [k \in 1..Cardinality(S) |-> CHOOSE i \in S : Rank(i) = k - 1]
==============================================================================
