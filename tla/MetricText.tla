------------------------------ MODULE MetricText ------------------------------
(***************************************************************************)
(* What the two texts of a registry have in common, the page for           *)
(* Prometheus and the file of the snapshot: the types of metrics, how a    *)
(* number is written, and the order of a map.                              *)
(***************************************************************************)
EXTENDS Integers, SequencesExt

CONSTANTS
  Exact,   \* numbers below are written exactly ...
  Unit     \* ... others are rounded to a multiple of Unit

ASSUME TextAssumption ==
  /\ Exact \in Nat
  /\ Unit \in Nat \ {0}
  /\ Exact % Unit = 0

Types == {"counter", "gauge", "histogram"}

\* operator<< of a double writes six significant digits.
Written(v) == IF v < Exact THEN v ELSE ((v + Unit \div 2) \div Unit) * Unit

\* The numbers of a finite set in their order: SetToSortSeq, without the module
\* TLC, of which the proofs know nothing.
InOrder(S) ==
  CHOOSE s \in [1..Cardinality(S) -> S] : \A i, j \in 1..Cardinality(S) : i < j => s[i] < s[j]
=============================================================================
