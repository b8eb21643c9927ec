------------------------------ MODULE Histogram ------------------------------
(***************************************************************************)
(* One histogram of the registry: a bucket for each distinct bound it was  *)
(* made with, the sum and the number of what it has observed.  A sample is *)
(* an integer, or NotFinite for an infinity or NaN, which observe() and    *)
(* setValue() refuse.                                                      *)
(***************************************************************************)
EXTENDS MetricText

CONSTANTS
  GivenBounds,   \* the bounds as configured: any order, with repetitions
  Samples,       \* the finite samples that occur
  NotFinite

ASSUME HistogramAssumption ==
  /\ GivenBounds \in Seq(Int)
  /\ Samples \subseteq Int
  /\ NotFinite \notin Int

VARIABLES
  counts,     \* counts_: per bound the samples that are not above it
  sum, count, \* sum_ and count_
  observed    \* history: the finite samples, in their order

histogramVars == <<counts, sum, count, observed>>

\* The constructor sorts the bounds and drops repetitions.
Bounds == InOrder(ToSet(GivenBounds))

HistogramInit ==
  /\ counts = [i \in DOMAIN Bounds |-> 0]
  /\ sum = 0
  /\ count = 0
  /\ observed = <<>>

\* Mutant: a sample is counted in its own bucket only.
CountedInOneBucket(x) ==
  [i \in DOMAIN Bounds |->
     IF x <= Bounds[i] /\ \A j \in 1..(i - 1) : x > Bounds[j]
     THEN counts[i] + 1 ELSE counts[i]]

Counted(x) ==
  [i \in DOMAIN Bounds |-> IF x <= Bounds[i] THEN counts[i] + 1 ELSE counts[i]]

Observe(x) ==
  /\ x # NotFinite
  /\ counts' = Counted(x)
  /\ sum' = sum + x
  /\ count' = count + 1
  /\ observed' = Append(observed, x)

\* observe() or setValue() of an infinity or NaN.
ObserveNotFinite == UNCHANGED histogramVars

HistogramNext == \E x \in Samples : Observe(x)

HistogramSpec == HistogramInit /\ [][HistogramNext]_histogramVars

-----------------------------------------------------------------------------
NotAbove(b) == {k \in DOMAIN observed : observed[k] <= b}

\* Every bucket counts the observations that are not above its bound, whatever
\* order the bounds were given in ("counts_[i] is cumulative: number of
\* observations <= bounds_[i]", metric.cpp:168).
BucketsCumulative ==
  \A i \in DOMAIN Bounds : counts[i] = Cardinality(NotAbove(Bounds[i]))
=============================================================================
