-------------------------- MODULE MetricText_proofs --------------------------
(***************************************************************************)
(* Proofs about the texts of metrics and what is in them: the buckets of a *)
(* histogram, the line of a snapshot that is written and read again        *)
(* (SnapshotLine), and the page that a scrape reads (ScrapeFetch).         *)
(***************************************************************************)
EXTENDS ScrapeFetch, SnapshotLine, FiniteSetTheorems, SequenceTheorems, TLAPS

Fields == INSTANCE FoldFacts WITH Op <- Field

-----------------------------------------------------------------------------
(* The order of the bounds, and of the names on a page. *)

\* A finite set of numbers has a largest.
LEMMA Largest ==
  ASSUME NEW S \in SUBSET Int, IsFiniteSet(S), S # {}
  PROVE  \E m \in S : \A x \in S : x <= m
<1> DEFINE Has(Q) == \E m \in Q : \A x \in Q : x <= m
           T == {n \in Nat : \A Q \in SUBSET Int :
                               IsFiniteSet(Q) /\ Cardinality(Q) = n + 1 => Has(Q)}
<1>1. 0 \in T
  <2> SUFFICES ASSUME NEW Q \in SUBSET Int, IsFiniteSet(Q), Cardinality(Q) = 0 + 1
               PROVE  Has(Q)
    OBVIOUS
  <2>1. \E x : Q = {x}
    BY FS_Singleton
  <2> QED
    BY <2>1
<1>2. ASSUME NEW n \in Nat, n \in T PROVE n + 1 \in T
  <2> SUFFICES ASSUME NEW Q \in SUBSET Int, IsFiniteSet(Q), Cardinality(Q) = (n + 1) + 1
               PROVE  Has(Q)
    OBVIOUS
  <2>1. Q # {}
    BY FS_EmptySet
  <2>2. PICK x \in Q : TRUE
    BY <2>1
  <2> DEFINE R == Q \ {x}
  <2>3. IsFiniteSet(R) /\ Cardinality(R) = n + 1 /\ R \in SUBSET Int
    BY <2>2, FS_RemoveElement
  <2>4. PICK m \in R : \A y \in R : y <= m
    BY <1>2, <2>3
  <2>5. CASE x <= m
    BY <2>4, <2>5
  <2>6. CASE m <= x
    <3>1. \A y \in Q : y <= x
      BY <2>2, <2>4, <2>6
    <3> QED
      BY <2>2, <3>1
  <2> QED
    BY <2>2, <2>4, <2>5, <2>6
<1>3. \A n \in Nat : n \in T
  <2> SUFFICES ASSUME NEW n \in Nat PROVE n \in T
    OBVIOUS
  <2>1. \A k \in 0..(n - 1) : k \in T => k + 1 \in T
    BY <1>2
  <2>2. n \in 0..n
    OBVIOUS
  <2> HIDE DEF T
  <2> QED
    BY <1>1, <2>1, <2>2, Fields!Steps
<1>4. Cardinality(S) \in Nat \ {0}
  BY FS_CardinalityType, FS_EmptySet
<1> QED
  BY <1>3, <1>4

Increasing(s, S) ==
  /\ s \in [1..Cardinality(S) -> S]
  /\ \A i, j \in 1..Cardinality(S) : i < j => s[i] < s[j]

LEMMA Enumerated ==
  ASSUME NEW S \in SUBSET Int, IsFiniteSet(S)
  PROVE  \E s : Increasing(s, S)
<1> DEFINE T == {n \in Nat : \A Q \in SUBSET Int :
                   IsFiniteSet(Q) /\ Cardinality(Q) = n => \E s : Increasing(s, Q)}
<1>1. 0 \in T
  <2> SUFFICES ASSUME NEW Q \in SUBSET Int, IsFiniteSet(Q), Cardinality(Q) = 0
               PROVE  \E s : Increasing(s, Q)
    OBVIOUS
  <2> DEFINE s == [i \in 1..0 |-> 0]
  <2>1. s \in [1..0 -> Q] /\ \A i, j \in 1..0 : i < j => s[i] < s[j]
    OBVIOUS
  <2> HIDE DEF s
  <2> QED
    BY <2>1 DEF Increasing
<1>2. ASSUME NEW n \in Nat, n \in T PROVE n + 1 \in T
  <2> SUFFICES ASSUME NEW Q \in SUBSET Int, IsFiniteSet(Q), Cardinality(Q) = n + 1
               PROVE  \E s : Increasing(s, Q)
    OBVIOUS
  <2>1. Q # {}
    BY FS_EmptySet
  <2>2. PICK m \in Q : \A x \in Q : x <= m
    BY <2>1, Largest
  <2> DEFINE R == Q \ {m}
  <2>3. IsFiniteSet(R) /\ Cardinality(R) = n /\ R \in SUBSET Int
    <3>1. IsFiniteSet(R) /\ Cardinality(R) = Cardinality(Q) - 1
      BY <2>2, FS_RemoveElement
    <3> QED
      BY <3>1
  <2>4. PICK r : Increasing(r, R)
    BY <1>2, <2>3
  <2>5. /\ r \in [1..n -> R] /\ \A x \in R : x < m
        /\ \A i, j \in 1..n : i < j => r[i] < r[j]
    <3>1. \A x \in R : x < m
      BY <2>2
    <3> HIDE DEF R
    <3> QED
      BY <2>3, <2>4, <3>1 DEF Increasing
  <2> DEFINE s == [i \in 1..(n + 1) |-> IF i = n + 1 THEN m ELSE r[i]]
  <2>6. \A i \in 1..(n + 1) : i = n + 1 \/ i \in 1..n
    OBVIOUS
  <2>7. s \in [1..(n + 1) -> Q]
    BY <2>2, <2>5, <2>6
  <2>8. ASSUME NEW i \in 1..(n + 1), NEW j \in 1..(n + 1), i < j PROVE s[i] < s[j]
    <3>1. i \in 1..n /\ s[i] = r[i] /\ r[i] \in R
      BY <2>5, <2>8
    <3>2. CASE j = n + 1
      <4>1. s[j] = m
        BY <3>2
      <4> QED
        BY <2>5, <3>1, <4>1
    <3>3. CASE j # n + 1
      <4>1. j \in 1..n /\ s[j] = r[j]
        BY <3>3
      <4> QED
        BY <2>5, <2>8, <3>1, <4>1
    <3> QED
      BY <3>2, <3>3
  <2> HIDE DEF s
  <2> QED
    BY <2>7, <2>8 DEF Increasing
<1>3. Cardinality(S) \in T
  <2>0. Cardinality(S) \in Nat
    BY FS_CardinalityType
  <2>1. \A k \in 0..(Cardinality(S) - 1) : k \in T => k + 1 \in T
    BY <1>2, <2>0
  <2>2. Cardinality(S) \in 0..Cardinality(S)
    BY <2>0
  <2> HIDE DEF T
  <2> QED
    BY <1>1, <2>0, <2>1, <2>2, Fields!Steps
<1> QED
  BY <1>3

LEMMA InOrderIs ==
  ASSUME NEW S \in SUBSET Int, IsFiniteSet(S)
  PROVE  Increasing(InOrder(S), S)
BY Enumerated DEF InOrder, Increasing

-----------------------------------------------------------------------------
(* A histogram. *)

\* The bounds are in their order, each once.
LEMMA BoundsInOrder ==
  /\ Len(Bounds) \in Nat /\ Bounds \in Seq(Int)
  /\ \A i, j \in DOMAIN Bounds : i < j => Bounds[i] < Bounds[j]
<1> DEFINE S == ToSet(GivenBounds)
<1>1. S \in SUBSET Int
  BY HistogramAssumption DEF ToSet
<1>2. IsFiniteSet(S)
  <2>1. IsFiniteSet(1..Len(GivenBounds))
    BY HistogramAssumption, FS_Interval
  <2>2. S = {GivenBounds[i] : i \in 1..Len(GivenBounds)}
    BY HistogramAssumption DEF ToSet
  <2> DEFINE f == [i \in 1..Len(GivenBounds) |-> GivenBounds[i]]
  <2>3. f \in Surjection(1..Len(GivenBounds), S)
    BY <2>2 DEF Surjection
  <2> QED
    BY <2>1, <2>3, FS_Surjection
<1>3. Increasing(Bounds, S) /\ Cardinality(S) \in Nat
  BY <1>1, <1>2, InOrderIs, FS_CardinalityType DEF Bounds
<1> QED
  BY <1>1, <1>3 DEF Increasing

\* What the buckets and the totals are, as functions of what was observed.
HistogramInv ==
  /\ observed \in Seq(Samples)
  /\ sum \in Int
  /\ count = Len(observed)
  /\ counts \in [DOMAIN Bounds -> Nat]
  /\ BucketsCumulative

\* The observations not above a bound are finitely many.
LEMMA NotAboveFinite ==
  ASSUME NEW b, observed \in Seq(Samples)
  PROVE  /\ IsFiniteSet(NotAbove(b))
         /\ Cardinality(NotAbove(b)) \in Nat
         /\ Cardinality(NotAbove(b)) <= Len(observed)
<1>1. Len(observed) \in Nat /\ DOMAIN observed = 1..Len(observed)
  OBVIOUS
<1>2. IsFiniteSet(1..Len(observed)) /\ Cardinality(1..Len(observed)) = Len(observed)
  BY <1>1, FS_Interval
<1>3. NotAbove(b) \subseteq 1..Len(observed)
  BY <1>1 DEF NotAbove
<1> QED
  BY <1>2, <1>3, FS_Subset, FS_CardinalityType

\* One more observation is one more of those not above a bound, or none.
LEMMA NotAboveGrows ==
  ASSUME NEW b, NEW x \in Samples, observed \in Seq(Samples),
         observed' = Append(observed, x)
  PROVE  Cardinality(NotAbove(b)') =
           Cardinality(NotAbove(b)) + (IF x <= b THEN 1 ELSE 0)
<1> DEFINE next == Len(observed) + 1
<1>1. /\ Len(observed) \in Nat /\ DOMAIN observed = 1..Len(observed)
      /\ DOMAIN observed' = 1..next /\ observed'[next] = x
      /\ \A k \in 1..Len(observed) : observed'[k] = observed[k]
  OBVIOUS
<1>2. next \notin NotAbove(b)
  BY <1>1 DEF NotAbove
<1>3. CASE x <= b
  <2>1. NotAbove(b)' = NotAbove(b) \cup {next}
    BY <1>1, <1>3 DEF NotAbove
  <2> QED
    BY <1>2, <1>3, <2>1, NotAboveFinite, FS_AddElement
<1>4. CASE ~(x <= b)
  <2>1. NotAbove(b)' = NotAbove(b)
    BY <1>1, <1>4 DEF NotAbove
  <2> QED
    BY <1>4, <2>1, NotAboveFinite
<1> QED
  BY <1>3, <1>4

\* An empty histogram satisfies the invariant.
LEMMA HistogramInitHolds == HistogramInit => HistogramInv
<1> SUFFICES ASSUME HistogramInit PROVE HistogramInv
  OBVIOUS
<1>1. \A b : NotAbove(b) = {}
  BY DEF HistogramInit, NotAbove
<1> QED
  BY <1>1, FS_EmptySet DEF HistogramInit, HistogramInv, BucketsCumulative

\* Every observation keeps it.
LEMMA HistogramStep == HistogramInv /\ [HistogramNext]_histogramVars => HistogramInv'
<1> SUFFICES ASSUME HistogramInv, [HistogramNext]_histogramVars PROVE HistogramInv'
  OBVIOUS
<1> USE DEF HistogramInv
<1>1. ASSUME NEW x \in Samples, Observe(x) PROVE HistogramInv'
  <2>1. observed' = Append(observed, x) /\ count' = count + 1 /\ counts' = Counted(x)
    BY <1>1 DEF Observe
  <2>2. observed' \in Seq(Samples) /\ count' = Len(observed') /\ sum' \in Int
    BY <1>1, <2>1, HistogramAssumption DEF Observe
  <2>3. \A i \in DOMAIN Bounds : counts'[i] = counts[i] + (IF x <= Bounds[i] THEN 1 ELSE 0)
    BY <2>1 DEF Counted
  <2>4. counts' \in [DOMAIN Bounds -> Nat]
    BY <2>1 DEF Counted
  <2>5. ASSUME NEW i \in DOMAIN Bounds
        PROVE  counts'[i] = Cardinality(NotAbove(Bounds[i])')
    <3>1. counts[i] = Cardinality(NotAbove(Bounds[i]))
      BY DEF BucketsCumulative
    <3> QED
      BY <2>1, <2>3, <3>1, NotAboveGrows
  <2> QED
    BY <2>2, <2>4, <2>5 DEF BucketsCumulative
<1>2. CASE UNCHANGED histogramVars
  BY <1>2 DEF histogramVars, BucketsCumulative, NotAbove
<1> QED
  BY <1>1, <1>2 DEF HistogramNext

\* The inductive invariant holds for any bounds and any samples (metric.cpp).
THEOREM HistogramInvariance == HistogramSpec => []HistogramInv
BY HistogramInitHolds, HistogramStep, PTL DEF HistogramSpec

\* Every bucket counts the observations that are not above its bound
\* (metric.cpp:104-110, 131-143).
THEOREM Cumulative == HistogramSpec => []BucketsCumulative
BY HistogramInvariance, PTL DEF HistogramInv

\* No bucket is ahead of the count, which the page shows as the last bucket
\* (metric.cpp:160-187).
WithinCount == \A i \in DOMAIN Bounds : counts[i] <= count

\* The page of a histogram never contradicts itself: its last bucket is not
\* smaller than the others (metric.cpp:160-187).
THEOREM BucketsWithinCount == HistogramSpec => []WithinCount
<1>1. HistogramInv => WithinCount
  BY NotAboveFinite DEF HistogramInv, BucketsCumulative, WithinCount
<1> QED
  BY <1>1, HistogramInvariance, PTL

\* A bucket counts no more than the next.
BucketsRise == \A i, j \in DOMAIN Bounds : i < j => counts[i] <= counts[j]

\* The buckets of a page rise with their bounds, whatever order they were
\* configured in (metric.cpp:104-110, 131-143).
THEOREM Rising == HistogramSpec => []BucketsRise
<1>1. HistogramInv => BucketsRise
  <2> SUFFICES ASSUME HistogramInv, NEW i \in DOMAIN Bounds, NEW j \in DOMAIN Bounds, i < j
               PROVE  counts[i] <= counts[j]
    BY DEF BucketsRise
  <2>1. observed \in Seq(Samples) /\ BucketsCumulative
    BY DEF HistogramInv
  <2>2. Bounds[i] \in Int /\ Bounds[j] \in Int /\ Bounds[i] < Bounds[j]
    BY BoundsInOrder
  <2>3. \A k \in DOMAIN observed : observed[k] \in Int
    <3>1. \A k \in DOMAIN observed : observed[k] \in Samples
      BY <2>1
    <3> QED
      BY <3>1, HistogramAssumption
  <2>4. NotAbove(Bounds[i]) \subseteq NotAbove(Bounds[j])
    BY <2>2, <2>3 DEF NotAbove
  <2>5. IsFiniteSet(NotAbove(Bounds[j]))
    BY <2>1, NotAboveFinite
  <2>6. Cardinality(NotAbove(Bounds[i])) <= Cardinality(NotAbove(Bounds[j]))
    BY <2>4, <2>5, FS_Subset
  <2> QED
    BY <2>1, <2>6 DEF BucketsCumulative
<1> QED
  BY <1>1, HistogramInvariance, PTL

-----------------------------------------------------------------------------
(* The line of a snapshot, and what is read from it. *)

\* A number that has been written and read once is written exactly.
LEMMA WrittenSettles ==
  ASSUME NEW v \in Nat
  PROVE  Written(v) \in Nat /\ Written(Written(v)) = Written(v)
<1> DEFINE q == (v + Unit \div 2) \div Unit
<1>1. Unit \div 2 \in Nat /\ Unit \div 2 < Unit
  BY TextAssumption
<1>2. q \in Nat
  <2>1. \A a \in Nat, b \in Nat \ {0} : a \div b \in Nat
    OBVIOUS
  <2> QED
    BY <1>1, <2>1, TextAssumption
<1>3. q * Unit \in Nat
  BY <1>2, TextAssumption
<1>4. (q * Unit + Unit \div 2) \div Unit = q
  <2>1. \A a, d \in Nat, b \in Nat \ {0} : d < b => (a * b + d) \div b = a
    OBVIOUS
  <2> HIDE DEF q
  <2> QED
    BY <1>1, <1>2, <2>1, TextAssumption
<1>5. Written(v) \in Nat
  BY <1>3 DEF Written
<1>6. CASE v < Exact
  BY <1>6 DEF Written
<1>7. CASE ~(v < Exact)
  <2>1. Written(v) = q * Unit
    BY <1>7 DEF Written
  <2>2. Written(q * Unit) = q * Unit
    <3> HIDE DEF q
    <3> QED
      BY <1>4 DEF Written
  <2> HIDE DEF q
  <2> QED
    BY <1>5, <2>1, <2>2
<1> QED
  BY <1>5, <1>6, <1>7

LEMMA WrittenZero == Written(0) = 0
<1>1. Unit \div 2 \in Nat /\ Unit \div 2 < Unit
  BY TextAssumption
<1>2. \A d \in Nat, b \in Nat \ {0} : d < b => d \div b = 0
  OBVIOUS
<1>3. (0 + Unit \div 2) \div Unit = 0
  BY <1>1, <1>2, TextAssumption
<1>4. 0 * Unit = 0
  BY TextAssumption
<1> QED
  BY <1>3, <1>4 DEF Written

\* parseSnapshotLine() takes the words in their order.
LEMMA FieldsInTurn ==
  ASSUME NEW line \in Seq(AnyWord)
  PROVE  \E st : /\ st[0] = NothingYet
                 /\ \A k \in 1..Len(line) : st[k] = Field(st[k - 1], line[k])
                 /\ st[Len(line)] = ParseSnapshotLine(line)
<1>1. Fields!Folded(NothingYet, line) = ParseSnapshotLine(line)
  BY DEF Fields!Folded, Fields!FoldLeft, Fields!MapThenFoldSet, Fields!Max,
         ParseSnapshotLine, FoldLeft, MapThenFoldSet, Max
<1>2. DOMAIN line = 1..Len(line) /\ Len(line) \in Nat
  OBVIOUS
<1>3. \E st : /\ DOMAIN st = 0..Len(line)
              /\ st[0] = NothingYet
              /\ \A k \in 1..Len(line) : st[k] = Field(st[k - 1], line[k])
              /\ st[Len(line)] = Fields!Folded(NothingYet, line)
  BY <1>2, Fields!InTurn, Zenon
<1> QED
  BY <1>1, <1>3

Unhashed(words) == \A i \in 1..Len(words) : ~words[i].hash

\* A help text that no word of it ends.
Unbroken(help) == \A i \in 2..Len(help) : KeyOf(help[i]) \notin {"labels", "value"}

\* What parseSnapshotLine() has made of some words.
LineState == [ok : BOOLEAN, inHelp : BOOLEAN, value : Nat \cup {NoNumber},
              labels : Seq(AnyWord), help : Seq(AnyWord)]

Tidy(st) ==
  /\ st \in LineState
  /\ Len(st.labels) <= 1
  /\ Unhashed(st.labels) /\ Unhashed(st.help)
  /\ Unbroken(st.help)

\* A word behind a key.
LEMMA RestIsWord ==
  ASSUME NEW w \in AnyWord, KeyOf(w) # "none"
  PROVE  Rest(w) \in AnyWord /\ Rest(w).hash = w.hash
<1>1. /\ w.keys \in Seq({"labels", "help", "value"}) /\ w.keys # <<>>
      /\ w.number \in Nat \cup {NoNumber} /\ w.hash \in BOOLEAN
  BY DEF AnyWord, KeyOf
<1>2. Tail(w.keys) \in Seq({"labels", "help", "value"})
  BY <1>1
<1> DEFINE r == [w EXCEPT !.keys = Tail(w.keys)]
<1>3. r \in AnyWord /\ r.hash = w.hash
  BY <1>1, <1>2 DEF AnyWord
<1>4. Rest(w) = r
  BY DEF Rest
<1> QED
  BY <1>3, <1>4

\* The key of a word.
LEMMA Keys ==
  ASSUME NEW w \in AnyWord
  PROVE  KeyOf(w) \in {"none", "labels", "help", "value"}
<1>1. w.keys \in Seq({"labels", "help", "value"})
  BY DEF AnyWord
<1>2. CASE w.keys = <<>>
  BY <1>2 DEF KeyOf
<1>3. CASE w.keys # <<>>
  <2>1. Head(w.keys) \in {"labels", "help", "value"}
    BY <1>1, <1>3
  <2> QED
    BY <1>3, <2>1 DEF KeyOf
<1> QED
  BY <1>2, <1>3

LEMMA ValuedTidy ==
  ASSUME NEW st, Tidy(st), NEW w \in AnyWord
  PROVE  Tidy(Valued(st, w))
<1>1. w.number \in Nat \cup {NoNumber}
  BY DEF AnyWord
<1>2. st \in LineState
  BY DEF Tidy
<1>3. /\ Valued(st, w) \in LineState
      /\ Valued(st, w).labels = st.labels /\ Valued(st, w).help = st.help
  BY <1>1, <1>2 DEF Valued, LineState
<1> QED
  BY <1>3 DEF Tidy

\* One word more.
LEMMA FieldTidy ==
  ASSUME NEW st, Tidy(st), NEW w \in AnyWord, ~w.hash
  PROVE  Tidy(Field(st, w))
<1> DEFINE f == Field(st, w)
<1>0. st \in LineState /\ st.labels \in Seq(AnyWord) /\ st.help \in Seq(AnyWord)
  BY DEF Tidy, LineState
<1>1. CASE ~st.ok
  <2>1. f = st
    BY <1>1 DEF Field
  <2> QED
    BY <2>1
<1>2. CASE st.ok /\ GoesOn(st, w)
  <2>1. KeyOf(w) \notin {"labels", "value"}
    BY <1>2 DEF GoesOn
  <2>2. /\ f \in LineState /\ f.labels = st.labels /\ f.help = Append(st.help, w)
    <3>1. f = [st EXCEPT !.help = Append(st.help, w)]
      BY <1>2, <2>1 DEF Field
    <3>2. Append(st.help, w) \in Seq(AnyWord)
      BY <1>0
    <3> HIDE DEF f
    <3> QED
      BY <1>0, <3>1, <3>2 DEF LineState
  <2> HIDE DEF f
  <2>3. \A i \in 1..Len(f.help) : f.help[i] = w \/ (i \in 1..Len(st.help) /\ f.help[i] = st.help[i])
    BY <1>0, <2>2, AppendProperties
  <2>4. Unhashed(f.help)
    BY <2>3 DEF Tidy, Unhashed
  <2>5. Unbroken(f.help)
    BY <1>0, <2>1, <2>2, <2>3 DEF Tidy, Unbroken
  <2>6. Tidy(f)
    BY <2>2, <2>4, <2>5 DEF Tidy
  <2> QED
    BY <2>6 DEF f
<1>3. CASE st.ok /\ ~GoesOn(st, w) /\ KeyOf(w) = "help"
  <2>1. f = [st EXCEPT !.inHelp = TRUE, !.help = <<Rest(w)>>]
    BY <1>3 DEF Field
  <2>2. f \in LineState /\ f.labels = st.labels /\ f.help = <<Rest(w)>>
    <3>1. <<Rest(w)>> \in Seq(AnyWord)
      BY <1>3, RestIsWord
    <3> HIDE DEF f
    <3> QED
      BY <1>0, <2>1, <3>1 DEF LineState
  <2> HIDE DEF f
  <2>3. Unhashed(f.help) /\ Unbroken(f.help)
    BY <1>3, <2>2, RestIsWord DEF Unhashed, Unbroken
  <2>4. Tidy(f)
    BY <2>2, <2>3 DEF Tidy
  <2> QED
    BY <2>4 DEF f
<1>4. CASE st.ok /\ KeyOf(w) = "labels"
  <2>1. f = [st EXCEPT !.inHelp = FALSE, !.labels = <<Rest(w)>>]
    BY <1>4 DEF Field, GoesOn
  <2>2. f \in LineState /\ f.labels = <<Rest(w)>> /\ f.help = st.help
    <3>1. <<Rest(w)>> \in Seq(AnyWord)
      BY <1>4, RestIsWord
    <3> HIDE DEF f
    <3> QED
      BY <1>0, <2>1, <3>1 DEF LineState
  <2> HIDE DEF f
  <2>3. Unhashed(f.labels) /\ Len(f.labels) = 1
    BY <1>4, <2>2, RestIsWord DEF Unhashed
  <2>4. Tidy(f)
    BY <2>2, <2>3 DEF Tidy
  <2> QED
    BY <2>4 DEF f
<1>5. CASE st.ok /\ KeyOf(w) = "value"
  <2>1. f = Valued(st, Rest(w))
    BY <1>5 DEF Field, GoesOn
  <2> QED
    BY <1>5, <2>1, RestIsWord, ValuedTidy
<1>6. CASE st.ok /\ ~GoesOn(st, w) /\ KeyOf(w) = "none"
  <2>1. f = Valued(st, w)
    BY <1>6 DEF Field
  <2> QED
    BY <2>1, ValuedTidy
<1>7. st.ok => GoesOn(st, w) \/ KeyOf(w) \in {"none", "labels", "help", "value"}
  BY Keys
<1> QED
  BY <1>1, <1>2, <1>3, <1>4, <1>5, <1>6, <1>7

\* Whatever is read from a line that has no comment is tidy.
LEMMA ReadTidy ==
  ASSUME NEW line \in Seq(AnyWord), Unhashed(line)
  PROVE  Tidy(ParseSnapshotLine(line))
<1>1. PICK st : /\ st[0] = NothingYet
                /\ \A k \in 1..Len(line) : st[k] = Field(st[k - 1], line[k])
                /\ st[Len(line)] = ParseSnapshotLine(line)
  BY FieldsInTurn
<1> DEFINE n == Len(line)
           T == {k \in 0..n : Tidy(st[k])}
<1>2. n \in Nat /\ \A k \in 1..n : line[k] \in AnyWord /\ ~line[k].hash
  BY DEF Unhashed
<1>3. 0 \in T
  <2>1. Tidy(NothingYet)
    BY DEF Tidy, NothingYet, LineState, Unhashed, Unbroken
  <2> QED
    BY <1>1, <1>2, <2>1
<1>4. \A k \in 0..(n - 1) : k \in T => k + 1 \in T
  <2> SUFFICES ASSUME NEW k \in 0..(n - 1), Tidy(st[k])
               PROVE  Tidy(st[k + 1])
    BY <1>2
  <2>1. k + 1 \in 1..n /\ (k + 1) - 1 = k
    BY <1>2
  <2> HIDE DEF n
  <2>2. st[k + 1] = Field(st[k], line[k + 1])
    BY <1>1, <2>1 DEF n
  <2> QED
    BY <1>2, <2>1, <2>2, FieldTidy
<1>5. n \in T
  <2>1. n \in 0..n
    BY <1>2
  <2> HIDE DEF T, n
  <2> QED
    BY <1>2, <1>3, <1>4, <2>1, Fields!Steps
<1> QED
  BY <1>1, <1>5

\* load() cuts a comment off, and nothing if there is none.
LEMMA CutUnhashed ==
  ASSUME NEW line \in Seq(AnyWord)
  PROVE  /\ CutComment(line) \in Seq(AnyWord) /\ Unhashed(CutComment(line))
         /\ Unhashed(line) => CutComment(line) = line
<1> DEFINE I == {i \in 1..Len(line) : line[i].hash}
           first == IF I # {} THEN Min(I) ELSE 0
<1>1. CutComment(line) =
        IF first = 0 THEN line
        ELSE Append(SubSeq(line, 1, first - 1), [line[first] EXCEPT !.hash = FALSE])
  BY DEF CutComment, SelectInSeq
<1>2. Len(line) \in Nat /\ \A i \in 1..Len(line) : line[i] \in AnyWord
  OBVIOUS
<1>3. CASE I = {}
  BY <1>1, <1>3 DEF Unhashed
<1>4. CASE I # {}
  <2>1. first \in I /\ \A i \in I : first <= i
    <3>1. I \subseteq Nat
      BY <1>2
    <3>2. \E m \in I : \A i \in I : m <= i
      <4> HIDE DEF I
      <4> QED
        BY <1>4, <3>1, Fields!LeastElement
    <3> HIDE DEF I
    <3> QED
      BY <1>4, <3>2 DEF Min
  <2>2. PICK m \in 1..Len(line) : m = first
    BY <2>1
  <2> HIDE DEF first
  <2>3. line[m].hash /\ \A i \in 1..(m - 1) : ~line[i].hash
    <3>1. m \in I
      BY <2>1, <2>2
    <3>2. \A i \in 1..(m - 1) : i \in 1..Len(line) /\ ~(m <= i)
      BY <1>2
    <3> QED
      BY <2>1, <2>2, <3>1, <3>2
  <2> DEFINE w == [line[m] EXCEPT !.hash = FALSE]
             s == SubSeq(line, 1, m - 1)
  <2>4. w \in AnyWord /\ ~w.hash
    <3>1. line[m] \in AnyWord
      BY <1>2
    <3> QED
      BY <3>1 DEF AnyWord
  <2>5. s \in Seq(AnyWord) /\ Len(s) = m - 1 /\ \A i \in 1..(m - 1) : s[i] = line[i]
    BY <1>2
  <2>6. CutComment(line) = Append(s, w)
    <3>1. first # 0
      BY <1>2, <2>2
    <3> QED
      BY <1>1, <2>2, <3>1
  <2> HIDE DEF w, s
  <2>7. Append(s, w) \in Seq(AnyWord) /\ Unhashed(Append(s, w))
    BY <2>3, <2>4, <2>5, AppendProperties DEF Unhashed
  <2>8. ~Unhashed(line)
    BY <2>3 DEF Unhashed
  <2> QED
    BY <2>6, <2>7, <2>8
<1> QED
  BY <1>3, <1>4

\* The words that save() writes for a text.
LEMMA PrefixedIs ==
  ASSUME NEW words \in Seq(AnyWord), NEW key \in {"labels", "help"}
  PROVE  /\ Prefixed(key, words) \in Seq(AnyWord)
         /\ Len(Prefixed(key, words)) = Len(words)
         /\ Unhashed(words) => Unhashed(Prefixed(key, words))
         /\ words # <<>> => /\ KeyOf(Prefixed(key, words)[1]) = key
                            /\ Rest(Prefixed(key, words)[1]) = words[1]
         /\ \A i \in 2..Len(words) : Prefixed(key, words)[i] = words[i]
<1>1. CASE words = <<>>
  BY <1>1 DEF Prefixed, Unhashed
<1>2. CASE words # <<>>
  <2> DEFINE h == Head(words)
             keys == <<key>> \o h.keys
             w == [h EXCEPT !.keys = keys]
             t == Tail(words)
  <2>1. /\ Len(words) \in Nat \ {0} /\ h = words[1] /\ h \in AnyWord
        /\ t \in Seq(AnyWord) /\ Len(t) = Len(words) - 1
        /\ \A i \in 1..Len(t) : t[i] = words[i + 1]
    BY <1>2
  <2>2. h.keys \in Seq({"labels", "help", "value"})
    BY <2>1 DEF AnyWord
  <2>3. /\ keys \in Seq({"labels", "help", "value"}) /\ keys # <<>>
        /\ Head(keys) = key /\ Tail(keys) = h.keys
    <3>1. <<key>> \in Seq({"labels", "help", "value"})
      OBVIOUS
    <3> HIDE DEF h
    <3> QED
      BY <2>2, <3>1, ConcatProperties
  <2> HIDE DEF keys
  <2>4. w \in AnyWord /\ w.keys = keys /\ w.hash = h.hash
    <3> HIDE DEF h
    <3> QED
      BY <2>1, <2>3 DEF AnyWord
  <2>5. KeyOf(w) = key
    <3> HIDE DEF w
    <3> QED
      BY <2>3, <2>4 DEF KeyOf
  <2>6. Rest(w) = h
    <3>1. Rest(w) = [w EXCEPT !.keys = h.keys]
      BY <2>3, <2>4 DEF Rest
    <3> HIDE DEF h
    <3> QED
      BY <2>1, <3>1 DEF AnyWord
  <2>7. Prefixed(key, words) = <<w>> \o t
    BY <1>2 DEF Prefixed, keys
  <2>8. <<w>> \in Seq(AnyWord) /\ Len(<<w>>) = 1 /\ <<w>>[1] = w
    <3> HIDE DEF w
    <3> QED
      BY <2>4
  <2> HIDE DEF h, w, t
  <2> DEFINE p == <<w>> \o t
  <2>9. /\ p \in Seq(AnyWord) /\ Len(p) = Len(words) /\ p[1] = w
        /\ \A i \in 2..Len(words) : p[i] = words[i]
    <3>1. /\ p \in Seq(AnyWord) /\ Len(p) = Len(words) /\ p[1] = w
          /\ \A i \in 2..Len(words) : p[i] = t[i - 1]
      BY <2>1, <2>8, ConcatProperties
    <3>2. \A i \in 2..Len(words) : i - 1 \in 1..Len(t) /\ t[i - 1] = words[(i - 1) + 1] /\ (i - 1) + 1 = i
      BY <2>1
    <3> QED
      BY <3>1, <3>2
  <2> HIDE DEF p
  <2>10. Unhashed(words) => Unhashed(p)
    <3> SUFFICES ASSUME Unhashed(words), NEW i \in 1..Len(p) PROVE ~p[i].hash
      BY DEF Unhashed
    <3>1. i = 1 \/ i \in 2..Len(words)
      BY <2>9
    <3> QED
      BY <2>1, <2>4, <2>9, <3>1 DEF Unhashed
  <2>11. Prefixed(key, words) = p
    BY <2>7 DEF p
  <2> QED
    BY <2>1, <2>5, <2>6, <2>9, <2>10, <2>11
<1> QED
  BY <1>1, <1>2

\* The line of a metric: its value, its labels and its help text.
LEMMA LineIs ==
  ASSUME NEW m \in AnyMetric
  PROVE  /\ Line(m) \in Seq(AnyWord)
         /\ Len(Line(m)) = 1 + Len(m.labels) + Len(m.help)
         /\ Line(m)[1] = Number(Written(m.value))
         /\ \A i \in 1..Len(m.labels) : Line(m)[1 + i] = Prefixed("labels", m.labels)[i]
         /\ \A i \in 1..Len(m.help) :
              Line(m)[1 + Len(m.labels) + i] = Prefixed("help", m.help)[i]
         /\ Unhashed(m.labels) /\ Unhashed(m.help) => Unhashed(Line(m))
<1> DEFINE n == Number(Written(m.value))
           l == Prefixed("labels", m.labels)
           h == Prefixed("help", m.help)
           a == Len(m.labels)
           b == Len(m.help)
           start == <<n>> \o l
           line == start \o h
<1>1. m.labels \in Seq(AnyWord) /\ m.help \in Seq(AnyWord) /\ m.value \in Nat
  BY DEF AnyMetric
<1>2. n \in AnyWord /\ ~n.hash
  BY <1>1, WrittenSettles DEF AnyWord, Number
<1>3. /\ l \in Seq(AnyWord) /\ Len(l) = a
      /\ h \in Seq(AnyWord) /\ Len(h) = b
      /\ Unhashed(m.labels) => Unhashed(l)
      /\ Unhashed(m.help) => Unhashed(h)
  BY <1>1, PrefixedIs
<1>4. a \in Nat /\ b \in Nat
  BY <1>1
<1>5. Line(m) = line
  BY DEF Line
<1> HIDE DEF n, l, h, a, b
<1>6. <<n>> \in Seq(AnyWord) /\ Len(<<n>>) = 1 /\ <<n>>[1] = n
  BY <1>2
<1>7. /\ start \in Seq(AnyWord) /\ Len(start) = 1 + a /\ start[1] = n
      /\ \A i \in 1..a : start[1 + i] = l[i]
  <2>1. /\ start \in Seq(AnyWord) /\ Len(start) = 1 + a /\ start[1] = n
        /\ \A j \in 2..(1 + a) : start[j] = l[j - 1]
    BY <1>3, <1>4, <1>6, ConcatProperties
  <2>2. \A i \in 1..a : 1 + i \in 2..(1 + a) /\ (1 + i) - 1 = i
    BY <1>4
  <2> QED
    BY <2>1, <2>2
<1> HIDE DEF start
<1>8. /\ line \in Seq(AnyWord) /\ Len(line) = 1 + a + b
      /\ \A j \in 1..(1 + a) : line[j] = start[j]
      /\ \A i \in 1..b : line[1 + a + i] = h[i]
  <2>1. /\ line \in Seq(AnyWord) /\ Len(line) = 1 + a + b
        /\ \A j \in 1..(1 + a) : line[j] = start[j]
        /\ \A j \in (1 + a + 1)..(1 + a + b) : line[j] = h[j - (1 + a)]
    <3>1. /\ line \in Seq(AnyWord) /\ Len(line) = Len(start) + Len(h)
          /\ \A j \in 1..(Len(start) + Len(h)) :
               line[j] = IF j <= Len(start) THEN start[j] ELSE h[j - Len(start)]
      BY <1>3, <1>7, ConcatProperties, Zenon
    <3> HIDE DEF line
    <3> QED
      BY <1>3, <1>4, <1>7, <3>1
  <2>2. \A i \in 1..b : 1 + a + i \in (1 + a + 1)..(1 + a + b) /\ (1 + a + i) - (1 + a) = i
    BY <1>4
  <2> QED
    BY <2>1, <2>2
<1> HIDE DEF line
<1>9. line[1] = n /\ \A i \in 1..a : line[1 + i] = l[i]
  <2>1. 1 \in 1..(1 + a) /\ \A i \in 1..a : 1 + i \in 1..(1 + a)
    BY <1>4
  <2> QED
    BY <1>7, <1>8, <2>1
<1>10. Unhashed(l) /\ Unhashed(h) => Unhashed(line)
  <2> SUFFICES ASSUME Unhashed(l), Unhashed(h), NEW j \in 1..(1 + a + b)
               PROVE  ~line[j].hash
    BY <1>8 DEF Unhashed
  <2>1. CASE j = 1
    BY <1>2, <1>9, <2>1
  <2>2. CASE j \in 2..(1 + a)
    <3>1. j - 1 \in 1..a /\ 1 + (j - 1) = j
      BY <1>4, <2>2
    <3>2. line[j] = l[j - 1]
      BY <1>9, <3>1
    <3> QED
      BY <1>3, <3>1, <3>2 DEF Unhashed
  <2>3. CASE j \in (2 + a)..(1 + a + b)
    <3>1. j - 1 - a \in 1..b /\ 1 + a + (j - 1 - a) = j
      BY <1>4, <2>3
    <3>2. line[j] = h[j - 1 - a]
      BY <1>8, <3>1
    <3> QED
      BY <1>3, <3>1, <3>2 DEF Unhashed
  <2> QED
    BY <1>4, <2>1, <2>2, <2>3
<1> QED
  BY <1>3, <1>5, <1>8, <1>9, <1>10 DEF n, l, h, a, b

\* What a restart makes of a metric keeps all but its value from then on.
Kept(m) ==
  /\ ~m.nameHash /\ ~m.ownBuckets
  /\ m.type = "histogram" => m.value = 0
  /\ Len(m.labels) <= 1
  /\ Unhashed(m.labels) /\ Unhashed(m.help)
  /\ Unbroken(m.help)

LEMMA CleanIsKept ==
  ASSUME NEW m \in AnyMetric, m.ownBuckets => m.type = "histogram"
  PROVE  Clean(m) <=> Kept(m) /\ Written(m.value) = m.value
<1>1. m.labels \in Seq(AnyWord) /\ m.help \in Seq(AnyWord)
  BY DEF AnyMetric
<1>2. HasHash(m.labels) <=> ~Unhashed(m.labels)
  BY <1>1 DEF HasHash, Unhashed
<1>3. HasHash(m.help) <=> ~Unhashed(m.help)
  BY <1>1 DEF HasHash, Unhashed
<1> QED
  BY <1>2, <1>3 DEF Clean, Kept, Unbroken

\* What comes back from a restart is tidy.
LEMMA RestoredIsKept ==
  ASSUME NEW m \in AnyMetric, Restored(m) # Lost
  PROVE  Restored(m) \in AnyMetric /\ Kept(Restored(m))
<1> DEFINE p == ParseSnapshotLine(CutComment(Line(m)))
<1>1. Restored(m) = Made(m.type, p) /\ p.value # NoNumber
  BY DEF Restored
<1>2. Tidy(p)
  BY LineIs, CutUnhashed, ReadTidy
<1> HIDE DEF p
<1>3. /\ p.value \in Nat /\ p.labels \in Seq(AnyWord) /\ p.help \in Seq(AnyWord)
      /\ m.type \in Types
  BY <1>1, <1>2 DEF Tidy, LineState, AnyMetric
<1>4. Made(m.type, p) \in AnyMetric
  BY <1>3 DEF Made, AnyMetric
<1>5. Kept(Made(m.type, p))
  BY <1>2 DEF Made, Kept, Tidy
<1> QED
  BY <1>1, <1>4, <1>5

\* What has been read of the line of m behind its labels and j words of its help.
ReadTo(st, m, labels, j) ==
  /\ st \in LineState /\ st.ok
  /\ st.inHelp <=> j > 0
  /\ st.value = Written(m.value)
  /\ st.labels = labels
  /\ st.help = SubSeq(m.help, 1, j)

LEMMA ValueIsRead ==
  ASSUME NEW m \in AnyMetric
  PROVE  ReadTo(Field(NothingYet, Number(Written(m.value))), m, <<>>, 0)
<1> DEFINE v == Written(m.value)
           f == [NothingYet EXCEPT !.value = v, !.inHelp = FALSE]
<1>1. v \in Nat /\ SubSeq(m.help, 1, 0) = <<>>
  BY WrittenSettles DEF AnyMetric
<1> HIDE DEF v
<1>2. KeyOf(Number(v)) = "none" /\ IsNumber(Number(v)) /\ Number(v).number = v
  BY <1>1, LineAssumption DEF KeyOf, Number, IsNumber
<1>3. Field(NothingYet, Number(v)) = Valued(NothingYet, Number(v))
  BY <1>2 DEF Field, NothingYet, GoesOn
<1>4. Valued(NothingYet, Number(v)) = f
  BY <1>2 DEF Valued
<1>5. /\ f \in LineState /\ f.ok /\ ~f.inHelp
      /\ f.value = v /\ f.labels = <<>> /\ f.help = <<>>
  <2>1. /\ NothingYet \in LineState /\ NothingYet.ok
        /\ NothingYet.labels = <<>> /\ NothingYet.help = <<>>
    BY DEF NothingYet, LineState
  <2> QED
    BY <1>1, <2>1 DEF LineState
<1> HIDE DEF f
<1>6. ReadTo(f, m, <<>>, 0)
  BY <1>1, <1>5 DEF ReadTo, v
<1> QED
  BY <1>3, <1>4, <1>6 DEF v

LEMMA LabelsAreRead ==
  ASSUME NEW m \in AnyMetric, NEW st, ReadTo(st, m, <<>>, 0), NEW w \in AnyWord,
         KeyOf(w) = "labels"
  PROVE  ReadTo(Field(st, w), m, <<Rest(w)>>, 0)
<1> DEFINE f == [st EXCEPT !.inHelp = FALSE, !.labels = <<Rest(w)>>]
<1>1. Field(st, w) = f
  BY DEF Field, GoesOn, ReadTo
<1>2. <<Rest(w)>> \in Seq(AnyWord)
  BY RestIsWord
<1>3. st \in LineState
  BY DEF ReadTo
<1>4. /\ f \in LineState /\ f.ok = st.ok /\ ~f.inHelp
      /\ f.value = st.value /\ f.labels = <<Rest(w)>> /\ f.help = st.help
  BY <1>2, <1>3 DEF LineState
<1> HIDE DEF f
<1>5. ReadTo(f, m, <<Rest(w)>>, 0)
  BY <1>4 DEF ReadTo
<1> QED
  BY <1>1, <1>5

LEMMA HelpIsRead ==
  ASSUME NEW m \in AnyMetric, Unbroken(m.help), NEW j \in 0..(Len(m.help) - 1),
         NEW st, ReadTo(st, m, m.labels, j)
  PROVE  ReadTo(Field(st, Prefixed("help", m.help)[j + 1]), m, m.labels, j + 1)
<1> DEFINE w == Prefixed("help", m.help)[j + 1]
           h == m.help
<1>1. h \in Seq(AnyWord) /\ Len(h) \in Nat
  BY DEF AnyMetric
<1>2. st \in LineState /\ st.ok /\ st.help = SubSeq(h, 1, j)
  BY DEF ReadTo
<1>3. SubSeq(h, 1, j + 1) = Append(SubSeq(h, 1, j), h[j + 1]) /\ SubSeq(h, 1, j + 1) \in Seq(AnyWord)
  BY <1>1
<1>4. CASE j = 0
  <2> DEFINE f == [st EXCEPT !.inHelp = TRUE, !.help = <<Rest(w)>>]
  <2>1. h # <<>>
    BY <1>1, <1>4
  <2>2. KeyOf(w) = "help" /\ Rest(w) = h[1]
    BY <1>1, <1>4, <2>1, PrefixedIs
  <2>3. ~st.inHelp
    BY <1>4 DEF ReadTo
  <2>4. SubSeq(h, 1, 0) = <<>> /\ Append(<<>>, h[1]) = <<h[1]>>
    BY <1>1
  <2>5. SubSeq(h, 1, j + 1) = <<Rest(w)>>
    <3>1. SubSeq(h, 1, j) = <<>> /\ h[j + 1] = h[1]
      BY <1>4, <2>4
    <3> HIDE DEF h, w
    <3> QED
      BY <1>3, <2>2, <2>4, <3>1
  <2> HIDE DEF w, h
  <2>6. Field(st, w) = f
    BY <1>2, <2>2, <2>3 DEF Field, GoesOn
  <2>7. /\ f \in LineState /\ f.ok /\ f.inHelp
        /\ f.value = st.value /\ f.labels = st.labels /\ f.help = SubSeq(h, 1, j + 1)
    BY <1>2, <1>3, <2>5 DEF LineState
  <2> HIDE DEF f
  <2>8. ReadTo(f, m, m.labels, j + 1)
    BY <2>7 DEF ReadTo, h
  <2> QED
    BY <2>6, <2>8 DEF w
<1>5. CASE j > 0
  <2> DEFINE f == [st EXCEPT !.help = Append(st.help, w)]
  <2>1. w = h[j + 1] /\ KeyOf(h[j + 1]) \notin {"labels", "value"}
    BY <1>1, <1>5, PrefixedIs DEF Unbroken
  <2>2. Append(st.help, w) = SubSeq(h, 1, j + 1)
    BY <1>2, <1>3, <2>1
  <2> HIDE DEF w, h
  <2>3. st.inHelp
    BY <1>5 DEF ReadTo
  <2>4. Field(st, w) = f
    BY <1>2, <2>1, <2>3 DEF Field, GoesOn
  <2>5. /\ f \in LineState /\ f.ok /\ f.inHelp
        /\ f.value = st.value /\ f.labels = st.labels /\ f.help = SubSeq(h, 1, j + 1)
    BY <1>2, <1>3, <2>2, <2>3 DEF LineState
  <2> HIDE DEF f
  <2>6. ReadTo(f, m, m.labels, j + 1)
    BY <2>5 DEF ReadTo, h
  <2> QED
    BY <2>4, <2>6 DEF w
<1> QED
  BY <1>4, <1>5

\* The line of such a metric is read as it was written.
LEMMA KeptIsRead ==
  ASSUME NEW m \in AnyMetric, Kept(m)
  PROVE  ReadTo(ParseSnapshotLine(Line(m)), m, m.labels, Len(m.help))
<1> DEFINE line == Line(m)
           a == Len(m.labels)
           b == Len(m.help)
<1>1. line \in Seq(AnyWord)
  BY LineIs
<1>2. PICK st : /\ st[0] = NothingYet
                /\ \A k \in 1..Len(line) : st[k] = Field(st[k - 1], line[k])
                /\ st[Len(line)] = ParseSnapshotLine(line)
  BY <1>1, FieldsInTurn
<1>3. /\ Len(line) = 1 + a + b
      /\ line[1] = Number(Written(m.value))
      /\ \A i \in 1..a : line[1 + i] = Prefixed("labels", m.labels)[i]
      /\ \A i \in 1..b : line[1 + a + i] = Prefixed("help", m.help)[i]
  BY LineIs
<1>4. m.labels \in Seq(AnyWord) /\ m.help \in Seq(AnyWord) /\ a <= 1
  BY DEF AnyMetric, Kept
<1>5. a \in Nat /\ b \in Nat
  BY <1>4
<1> HIDE DEF line, a, b
<1>6. ReadTo(st[1], m, <<>>, 0)
  <2>1. 1 \in 1..Len(line) /\ 1 - 1 = 0
    BY <1>3, <1>5
  <2>2. st[1] = Field(NothingYet, Number(Written(m.value)))
    BY <1>2, <1>3, <2>1
  <2> QED
    BY <2>2, ValueIsRead
<1>7. ReadTo(st[1 + a + 0], m, m.labels, 0)
  <2>1. CASE a = 0
    <3>1. m.labels = <<>>
      BY <1>4, <2>1 DEF a
    <3> QED
      BY <1>6, <2>1, <3>1
  <2>2. CASE a = 1
    <3> DEFINE w == Prefixed("labels", m.labels)[1]
    <3>1. m.labels # <<>> /\ m.labels = <<m.labels[1]>> /\ Len(m.labels) = 1
      <4>1. \A s \in Seq(AnyWord) : Len(s) = 1 => s # <<>> /\ s = <<s[1]>>
        OBVIOUS
      <4> QED
        BY <1>4, <2>2, <4>1 DEF a
    <3>2. KeyOf(w) = "labels" /\ Rest(w) = m.labels[1]
      BY <1>4, <3>1, PrefixedIs
    <3>3. w \in AnyWord
      <4>1. /\ Prefixed("labels", m.labels) \in Seq(AnyWord)
            /\ Len(Prefixed("labels", m.labels)) = 1
        BY <1>4, <3>1, PrefixedIs
      <4> QED
        BY <4>1
    <3>4. 2 \in 1..Len(line) /\ 2 - 1 = 1 /\ 1 \in 1..a /\ 1 + 1 = 2 /\ 1 + a + 0 = 2
      BY <1>3, <1>5, <2>2
    <3>5. st[2] = Field(st[1], w)
      BY <1>2, <1>3, <3>4
    <3> HIDE DEF w
    <3>6. ReadTo(st[2], m, <<Rest(w)>>, 0)
      BY <1>6, <3>2, <3>3, <3>5, LabelsAreRead
    <3>7. <<Rest(w)>> = m.labels
      BY <3>1, <3>2
    <3> QED
      BY <3>4, <3>6, <3>7
  <2> QED
    BY <1>4, <1>5, <2>1, <2>2
<1> DEFINE T == {j \in 0..b : ReadTo(st[1 + a + j], m, m.labels, j)}
<1>8. ASSUME NEW j \in 0..(b - 1), ReadTo(st[1 + a + j], m, m.labels, j)
      PROVE  ReadTo(st[1 + a + (j + 1)], m, m.labels, j + 1)
  <2>1. /\ 1 + a + (j + 1) \in 1..Len(line) /\ (1 + a + (j + 1)) - 1 = 1 + a + j
        /\ j + 1 \in 1..b
    <3>1. Len(line) = 1 + a + b /\ a \in Nat /\ b \in Nat
      BY <1>3, <1>5
    <3> QED
      BY <3>1
  <2>2. st[1 + a + (j + 1)] = Field(st[1 + a + j], Prefixed("help", m.help)[j + 1])
    BY <1>2, <1>3, <2>1
  <2>3. Unbroken(m.help) /\ j \in 0..(Len(m.help) - 1)
    BY DEF Kept, b
  <2> QED
    BY <1>8, <2>2, <2>3, HelpIsRead
<1>9. b \in T
  <2>1. 0 \in T /\ b \in 0..b /\ \A j \in 0..(b - 1) : j \in T => j + 1 \in T
    <3>1. 0 \in 0..b /\ b \in 0..b /\ \A j \in 0..(b - 1) : j + 1 \in 0..b
      BY <1>5
    <3> QED
      BY <1>7, <1>8, <3>1
  <2> HIDE DEF T
  <2> QED
    BY <1>5, <2>1, Fields!Steps
<1> QED
  BY <1>2, <1>3, <1>9 DEF line, b

\* It comes back with its value written.
LEMMA KeptComesBack ==
  ASSUME NEW m \in AnyMetric, Kept(m)
  PROVE  Restored(m) = [m EXCEPT !.value = Written(m.value)]
<1> DEFINE p == ParseSnapshotLine(CutComment(Line(m)))
<1>1. CutComment(Line(m)) = Line(m)
  BY LineIs, CutUnhashed DEF Kept
<1>2. ReadTo(p, m, m.labels, Len(m.help))
  BY <1>1, KeptIsRead
<1>3. m.help \in Seq(AnyWord) /\ m.value \in Nat
  BY DEF AnyMetric
<1>4. SubSeq(m.help, 1, Len(m.help)) = m.help
  BY <1>3
<1> HIDE DEF p
<1>5. /\ p.ok /\ p.value = Written(m.value) /\ p.value # NoNumber
      /\ p.labels = m.labels /\ p.help = m.help
  BY <1>2, <1>3, <1>4, WrittenSettles, LineAssumption DEF ReadTo
<1>6. Restored(m) = Made(m.type, p)
  BY <1>5 DEF Restored, Kept, p
<1>7. (IF m.type = "histogram" THEN 0 ELSE p.value) = Written(m.value)
  BY <1>5, WrittenZero DEF Kept
<1>8. m.nameHash = FALSE /\ m.ownBuckets = FALSE
  BY DEF Kept, AnyMetric
<1>9. Made(m.type, p) = [type |-> m.type, value |-> Written(m.value), nameHash |-> m.nameHash,
                         labels |-> m.labels, help |-> m.help, ownBuckets |-> m.ownBuckets]
  BY <1>5, <1>7, <1>8, Zenon DEF Made
<1>10. [m EXCEPT !.value = Written(m.value)] =
         [type |-> m.type, value |-> Written(m.value), nameHash |-> m.nameHash,
          labels |-> m.labels, help |-> m.help, ownBuckets |-> m.ownBuckets]
  BY DEF AnyMetric
<1> QED
  BY <1>6, <1>9, <1>10

\* What the metric is at each launch: all but its value settles with the first
\* restart, and its value with the second.
LineInv ==
  /\ launches \in Nat \ {0}
  /\ launches = 1 => before = Lost
  /\ metric # Lost => metric \in AnyMetric /\ (metric.ownBuckets => metric.type = "histogram")
  /\ before # Lost => /\ before \in AnyMetric /\ (before.ownBuckets => before.type = "histogram")
                      /\ metric = Restored(before)
  /\ launches >= 2 /\ metric # Lost => Kept(metric)
  /\ launches >= 3 /\ metric # Lost => Clean(metric)
  /\ launches >= 4 /\ metric # Lost => metric = before

LEMMA LineInitHolds == LineInit => LineInv
<1> SUFFICES ASSUME LineInit PROVE LineInv
  OBVIOUS
<1>1. \A n \in Nat : BoundedSeq(Words, n) \subseteq Seq(AnyWord)
  BY LineAssumption DEF BoundedSeq, SeqOf
<1>2. metric \in AnyMetric /\ (metric.ownBuckets => metric.type = "histogram")
  BY <1>1, LineAssumption DEF LineInit, Metrics, AnyMetric
<1> QED
  BY <1>2 DEF LineInit, LineInv

LEMMA LineStep == LineInv /\ [LineNext]_lineVars => LineInv'
<1> SUFFICES ASSUME LineInv, [LineNext]_lineVars PROVE LineInv'
  OBVIOUS
<1>1. CASE Restart
  <2> DEFINE next == Restored(metric)
  <2>1. /\ launches \in Nat \ {0} /\ launches' = launches + 1
        /\ metric # Lost /\ metric \in AnyMetric /\ (metric.ownBuckets => metric.type = "histogram")
        /\ metric' = next /\ before' = metric
    BY <1>1 DEF LineInv, Restart
  <2>2. next # Lost => next \in AnyMetric /\ Kept(next)
    BY <2>1, RestoredIsKept
  <2>3. ASSUME Kept(metric), next # Lost PROVE Written(next.value) = next.value
    <3>1. next = [metric EXCEPT !.value = Written(metric.value)]
      BY <2>1, <2>3, KeptComesBack
    <3>2. next.value = Written(metric.value) /\ metric.value \in Nat
      BY <2>1, <3>1 DEF AnyMetric
    <3> QED
      BY <3>2, WrittenSettles
  <2>4. next # Lost => ~next.ownBuckets
    BY <2>2 DEF Kept
  <2>5. launches >= 2 /\ next # Lost => Clean(next)
    BY <2>1, <2>2, <2>3, <2>4, CleanIsKept DEF LineInv
  <2>6. launches >= 3 => next = metric
    <3> SUFFICES ASSUME launches >= 3 PROVE next = metric
      OBVIOUS
    <3>1. Kept(metric) /\ Written(metric.value) = metric.value
      BY <2>1, CleanIsKept DEF LineInv
    <3>2. next = [metric EXCEPT !.value = metric.value]
      BY <2>1, <3>1, KeptComesBack
    <3>3. [metric EXCEPT !.value = metric.value] = metric
      BY <2>1 DEF AnyMetric
    <3> QED
      BY <3>2, <3>3
  <2> HIDE DEF next
  <2> QED
    BY <2>1, <2>2, <2>4, <2>5, <2>6 DEF LineInv, next
<1>2. CASE UNCHANGED lineVars
  BY <1>2 DEF LineInv, lineVars
<1> QED
  BY <1>1, <1>2 DEF LineNext

\* The inductive invariant holds for any words, values and precision of numbers
\* (snapshot.cpp).
THEOREM LineInvariance == LineSpec => []LineInv
BY LineInitHolds, LineStep, PTL DEF LineSpec

\* A metric comes back from a restart as it was exactly if it is Clean: what the
\* line of the snapshot cannot hold is all that is lost (snapshot.cpp:25-112,
\* 133-152, 166-182).
THEOREM CleanSurvive == LineSpec => []ExactlyTheCleanSurvive
<1>1. LineInv => ExactlyTheCleanSurvive
  <2> SUFFICES ASSUME LineInv, before # Lost
               PROVE  metric = before <=> Clean(before)
    BY DEF ExactlyTheCleanSurvive
  <2>1. /\ before \in AnyMetric /\ (before.ownBuckets => before.type = "histogram")
        /\ metric = Restored(before)
    BY DEF LineInv
  <2>2. ASSUME metric = before PROVE Clean(before)
    <3>1. Kept(before)
      BY <2>1, <2>2, RestoredIsKept
    <3>2. before = [before EXCEPT !.value = Written(before.value)]
      BY <2>1, <2>2, <3>1, KeptComesBack
    <3>3. before.value = Written(before.value)
      BY <2>1, <3>2 DEF AnyMetric
    <3> QED
      BY <2>1, <3>1, <3>3, CleanIsKept
  <2>3. ASSUME Clean(before) PROVE metric = before
    <3>1. Kept(before) /\ Written(before.value) = before.value
      BY <2>1, <2>3, CleanIsKept
    <3>2. metric = [before EXCEPT !.value = before.value]
      BY <2>1, <3>1, KeptComesBack
    <3> QED
      BY <2>1, <3>2 DEF AnyMetric
  <2> QED
    BY <2>2, <2>3
<1> QED
  BY <1>1, LineInvariance, PTL

\* From the third restart on a metric comes back as it was: the damage that the
\* text does ends (snapshot.cpp:25-112, 133-152, 166-182).
THEOREM DamageEnds == LineSpec => []SettlesAfterTwo
<1>1. LineInv => SettlesAfterTwo
  BY DEF LineInv, SettlesAfterTwo
<1> QED
  BY <1>1, LineInvariance, PTL

-----------------------------------------------------------------------------
(* The page, and what is read from it. *)

\* A larger number is not written smaller.
LEMMA WrittenRises ==
  ASSUME NEW v \in Nat, NEW w \in Nat, v <= w
  PROVE  Written(v) <= Written(w)
<1> DEFINE h == Unit \div 2
           Rounded(x) == ((x + h) \div Unit) * Unit
<1>1. Unit \in Nat \ {0} /\ Exact \in Nat /\ h \in Nat
  BY TextAssumption
<1>2. CASE w < Exact
  <2>1. Written(v) = v /\ Written(w) = w
    BY <1>1, <1>2 DEF Written
  <2> QED
    BY <2>1
<1>3. CASE v >= Exact
  <2>1. \A x, y \in Nat, u \in Nat \ {0} : x <= y => x \div u <= y \div u
    OBVIOUS
  <2>2. \A x \in Nat, u \in Nat \ {0} : x \div u \in Nat
    OBVIOUS
  <2>3. \A x, y \in Nat, u \in Nat \ {0} : x <= y => x * u <= y * u
    OBVIOUS
  <2> HIDE DEF h
  <2>4. (v + h) \div Unit <= (w + h) \div Unit
    BY <1>1, <2>1
  <2>5. (v + h) \div Unit \in Nat /\ (w + h) \div Unit \in Nat
    BY <1>1, <2>2
  <2>6. Rounded(v) <= Rounded(w)
    BY <1>1, <2>3, <2>4, <2>5
  <2> QED
    BY <1>1, <1>3, <2>6 DEF Written, h
<1>4. CASE v < Exact /\ w >= Exact
  <2>1. PICK k \in Nat : Exact = k * Unit
    <3>1. \A e \in Nat, u \in Nat \ {0} : e % u = 0 => e = (e \div u) * u /\ e \div u \in Nat
      OBVIOUS
    <3> QED
      BY <1>1, <3>1, TextAssumption
  <2>2. \A x, a \in Nat, u \in Nat \ {0} : x >= a * u => x \div u >= a
    OBVIOUS
  <2>3. \A x \in Nat, u \in Nat \ {0} : x \div u \in Nat
    OBVIOUS
  <2>4. \A x, y \in Nat, u \in Nat \ {0} : x <= y => x * u <= y * u
    OBVIOUS
  <2> HIDE DEF h
  <2>5. w + h \in Nat /\ w + h >= k * Unit
    BY <1>1, <1>4, <2>1
  <2>6. (w + h) \div Unit >= k /\ (w + h) \div Unit \in Nat
    BY <1>1, <2>2, <2>3, <2>5
  <2>7. Rounded(w) >= k * Unit
    BY <1>1, <2>4, <2>6
  <2>8. Written(v) = v /\ Written(w) = Rounded(w)
    BY <1>1, <1>4 DEF Written, h
  <2>9. Rounded(w) \in Int /\ k * Unit \in Int
    BY <1>1, <2>6
  <2> HIDE DEF Rounded
  <2> QED
    BY <1>4, <2>1, <2>7, <2>8, <2>9
<1> QED
  BY <1>1, <1>2, <1>3, <1>4

LEMMA WrittenIsInt ==
  ASSUME NEW v \in Int
  PROVE  Written(v) \in Int
<1>1. CASE v < Exact
  BY <1>1 DEF Written
<1>2. CASE ~(v < Exact)
  <2>1. v \in Nat
    BY <1>2, TextAssumption
  <2> QED
    BY <2>1, WrittenSettles
<1> QED
  BY <1>1, <1>2

\* Sequences of whatever.
IsSeq(s) == s \in Seq(Range(s))

LEMMA SeqIs ==
  ASSUME NEW s, IsSeq(s)
  PROVE  Len(s) \in Nat /\ DOMAIN s = 1..Len(s)
BY DEF IsSeq

LEMMA FunctionIsSeq ==
  ASSUME NEW s, NEW n \in Nat, NEW S, s \in [1..n -> S]
  PROVE  IsSeq(s) /\ Len(s) = n
<1>1. s \in [1..n -> Range(s)]
  BY DEF Range
<1>2. s \in Seq(Range(s)) /\ Len(s) = n
  BY <1>1
<1> QED
  BY <1>2 DEF IsSeq

LEMMA SeqOfIsSeq ==
  ASSUME NEW S, NEW s \in Seq(S)
  PROVE  IsSeq(s)
<1>1. s \in [1..Len(s) -> S] /\ Len(s) \in Nat
  OBVIOUS
<1> QED
  BY <1>1, FunctionIsSeq

LEMMA Joined ==
  ASSUME NEW s, NEW t, IsSeq(s), IsSeq(t)
  PROVE  /\ IsSeq(s \o t)
         /\ Len(s \o t) = Len(s) + Len(t)
         /\ \A i \in 1..Len(s) : (s \o t)[i] = s[i]
         /\ \A i \in 1..Len(t) : (s \o t)[Len(s) + i] = t[i]
<1> DEFINE S == Range(s) \cup Range(t)
<1>1. s \in Seq(S) /\ t \in Seq(S) /\ Len(s) \in Nat /\ Len(t) \in Nat
  <2>1. s \in Seq(Range(s)) /\ t \in Seq(Range(t))
    BY DEF IsSeq
  <2> QED
    BY <2>1
<1> HIDE DEF S
<1>2. /\ s \o t \in Seq(S)
      /\ Len(s \o t) = Len(s) + Len(t)
      /\ \A i \in 1..(Len(s) + Len(t)) :
           (s \o t)[i] = IF i <= Len(s) THEN s[i] ELSE t[i - Len(s)]
  BY <1>1, ConcatProperties
<1>3. \A i \in 1..Len(t) : /\ Len(s) + i \in 1..(Len(s) + Len(t)) /\ ~(Len(s) + i <= Len(s))
                            /\ (Len(s) + i) - Len(s) = i
  BY <1>1
<1>4. \A i \in 1..Len(s) : i \in 1..(Len(s) + Len(t)) /\ i <= Len(s)
  BY <1>1
<1> QED
  BY <1>2, <1>3, <1>4, SeqOfIsSeq

LEMMA Single ==
  ASSUME NEW x
  PROVE  IsSeq(<<x>>) /\ Len(<<x>>) = 1 /\ <<x>>[1] = x
<1>1. <<x>> \in Seq({x})
  OBVIOUS
<1> QED
  BY <1>1, SeqOfIsSeq

LEMMA Appended ==
  ASSUME NEW s, IsSeq(s), NEW x
  PROVE  /\ IsSeq(Append(s, x))
         /\ Len(Append(s, x)) = Len(s) + 1
         /\ \A i \in 1..Len(s) : Append(s, x)[i] = s[i]
         /\ Append(s, x)[Len(s) + 1] = x
<1> DEFINE S == Range(s) \cup {x}
<1>1. s \in Seq(S)
  <2>1. s \in Seq(Range(s))
    BY DEF IsSeq
  <2> QED
    BY <2>1
<1>2. x \in S
  OBVIOUS
<1> HIDE DEF S
<1>3. Append(s, x) \in Seq(S) /\ Len(Append(s, x)) = Len(s) + 1
  BY <1>1, <1>2, AppendProperties
<1>4. \A i \in 1..Len(s) : Append(s, x)[i] = s[i]
  BY <1>1, <1>2, AppendProperties
<1>5. Append(s, x)[Len(s) + 1] = x
  BY <1>1, <1>2, AppendProperties, Zenon
<1>6. IsSeq(Append(s, x))
  BY <1>3, SeqOfIsSeq, Zenon
<1> QED
  BY <1>3, <1>4, <1>5, <1>6, Zenon

\* Every element of a sequence of whatever has something that the elements of
\* its parts have.
LEMMA JoinedAll ==
  ASSUME NEW s, NEW t, IsSeq(s), IsSeq(t), NEW S,
         \A i \in 1..Len(s) : s[i] \in S, \A i \in 1..Len(t) : t[i] \in S
  PROVE  IsSeq(s \o t) /\ \A i \in 1..Len(s \o t) : (s \o t)[i] \in S
<1>1. Len(s) \in Nat /\ Len(t) \in Nat
  BY SeqIs
<1> SUFFICES ASSUME NEW i \in 1..(Len(s) + Len(t)) PROVE (s \o t)[i] \in S
  BY Joined
<1>2. CASE i <= Len(s)
  <2>1. i \in 1..Len(s)
    BY <1>1, <1>2
  <2> QED
    BY <2>1, Joined
<1>3. CASE i > Len(s)
  <2>1. i - Len(s) \in 1..Len(t) /\ Len(s) + (i - Len(s)) = i
    BY <1>1, <1>3
  <2>2. (s \o t)[Len(s) + (i - Len(s))] = t[i - Len(s)]
    BY <2>1, Joined
  <2> QED
    BY <2>1, <2>2
<1> QED
  BY <1>1, <1>2, <1>3

-----------------------------------------------------------------------------
(* What a page is to the registry that it is merged into: for each name the  *)
(* last sample of it.                                                        *)

SampleNames ==
  {Plain(Counter), Plain(Gauge), Bucket, SumOf, NumOf, <<Gauge, "cut">>, <<0, "header">>}

\* What the page of registry W says of a name.
TypeOf(x) == IF x = Plain(Counter) THEN "counter" ELSE "gauge"
HelpOf(x, W) ==
  IF x = Plain(Counter) THEN W[Counter].help
  ELSE IF x = Plain(Gauge) THEN W[Gauge].help
  ELSE ""

OfPage(line, W) ==
  /\ line.kind \in {"type", "help", "sample", "junk", "comment"}
  /\ line.kind = "type" /\ line.name \in SampleNames => line.type = TypeOf(line.name)
  /\ line.kind = "help" /\ line.name \in SampleNames => line.help = HelpOf(line.name, W)
  /\ line.kind = "sample" => /\ DOMAIN line = {"kind", "name", "labels", "value"}
                             /\ line.name \in SampleNames /\ line.value \in Int
                             /\ line.name = Plain(Counter) => line.value >= 0

\* The lines before line i have the type of x, and its help text if it has one.
Told(lines, i, x, W) ==
  /\ x = Plain(Counter) => \E j \in 1..(i - 1) : lines[j].kind = "type" /\ lines[j].name = x
  /\ HelpOf(x, W) # "" => \E j \in 1..(i - 1) : lines[j].kind = "help" /\ lines[j].name = x

IsSample(line, x) == line.kind = "sample" /\ line.name = x

GoodPage(lines, W) ==
  /\ IsSeq(lines)
  /\ \A i \in 1..Len(lines) : /\ OfPage(lines[i], W)
                              /\ lines[i].kind = "sample" => Told(lines, i, lines[i].name, W)

Arriving(line, W) ==
  [type |-> TypeOf(line.name), help |-> HelpOf(line.name, W), labels |-> line.labels,
   value |-> line.value]

NoJunk(lines, k) == \A j \in 1..k : lines[j].kind # "junk"

\* What the lines of a kind name has been kept.
Keeps(f, lines, k, kind) ==
  \A j \in 1..k : lines[j].kind = kind => lines[j].name \in DOMAIN f

\* The parser has read k lines.
ParsedUpTo(st, lines, k, W) ==
  /\ DOMAIN st = {"ok", "types", "helps", "specs"} /\ IsSeq(st.specs)
  /\ st.ok <=> NoJunk(lines, k)
  /\ st.ok => /\ Keeps(st.types, lines, k, "type") /\ Keeps(st.helps, lines, k, "help")
              /\ \A x \in DOMAIN st.types \cap SampleNames : st.types[x] = TypeOf(x)
              /\ \A x \in DOMAIN st.helps \cap SampleNames : st.helps[x] = HelpOf(x, W)

\* Registry r is what k lines make of r0.
MergedUpTo(r, r0, lines, k, W) ==
  /\ r = [x \in DOMAIN r |-> r[x]]
  /\ \A x : x \in DOMAIN r <=> x \in DOMAIN r0 \/ \E j \in 1..k : IsSample(lines[j], x)
  /\ \A x \in DOMAIN r :
       \/ /\ x \in DOMAIN r0 /\ r[x] = r0[x]
          /\ \A j \in 1..k : ~IsSample(lines[j], x)
       \/ \E j \in 1..k : /\ IsSample(lines[j], x) /\ r[x] = Arriving(lines[j], W)
                          /\ \A i \in (j + 1)..k : ~IsSample(lines[i], x)

\* The next line, if it is not a sample.
LEMMA NoSampleMerges ==
  ASSUME NEW r, NEW r0, NEW lines, NEW k \in Nat, NEW W, MergedUpTo(r, r0, lines, k, W),
         lines[k + 1].kind # "sample"
  PROVE  MergedUpTo(r, r0, lines, k + 1, W)
<1>1. \A x : ~IsSample(lines[k + 1], x)
  BY DEF IsSample
<1>2. \A x : \A j \in 1..(k + 1) : IsSample(lines[j], x) => j \in 1..k
  BY <1>1
<1>3. \A j \in 1..k : j \in 1..(k + 1)
  OBVIOUS
<1>4. ASSUME NEW j \in 1..k, NEW x, \A i \in (j + 1)..k : ~IsSample(lines[i], x),
             NEW i \in (j + 1)..(k + 1)
      PROVE  ~IsSample(lines[i], x)
  BY <1>1, <1>4
<1>5. ASSUME NEW x \in DOMAIN r
      PROVE  \/ /\ x \in DOMAIN r0 /\ r[x] = r0[x]
                /\ \A j \in 1..(k + 1) : ~IsSample(lines[j], x)
             \/ \E j \in 1..(k + 1) : /\ IsSample(lines[j], x) /\ r[x] = Arriving(lines[j], W)
                                      /\ \A i \in (j + 1)..(k + 1) : ~IsSample(lines[i], x)
  <2>1. \/ /\ x \in DOMAIN r0 /\ r[x] = r0[x]
           /\ \A j \in 1..k : ~IsSample(lines[j], x)
        \/ \E j \in 1..k : /\ IsSample(lines[j], x) /\ r[x] = Arriving(lines[j], W)
                           /\ \A i \in (j + 1)..k : ~IsSample(lines[i], x)
    BY <1>5 DEF MergedUpTo
  <2>2. CASE /\ x \in DOMAIN r0 /\ r[x] = r0[x]
             /\ \A j \in 1..k : ~IsSample(lines[j], x)
    BY <1>2, <2>2
  <2>3. CASE \E j \in 1..k : /\ IsSample(lines[j], x) /\ r[x] = Arriving(lines[j], W)
                             /\ \A i \in (j + 1)..k : ~IsSample(lines[i], x)
    <3>1. PICK j \in 1..k : /\ IsSample(lines[j], x) /\ r[x] = Arriving(lines[j], W)
                            /\ \A i \in (j + 1)..k : ~IsSample(lines[i], x)
      BY <2>3
    <3>2. \A i \in (j + 1)..(k + 1) : ~IsSample(lines[i], x)
      BY <1>4, <3>1
    <3>3. j \in 1..(k + 1)
      OBVIOUS
    <3> QED
      BY <3>1, <3>2, <3>3
  <2> QED
    BY <2>1, <2>2, <2>3
<1>6. \A x : x \in DOMAIN r <=> x \in DOMAIN r0 \/ \E j \in 1..(k + 1) : IsSample(lines[j], x)
  BY <1>2, <1>3 DEF MergedUpTo
<1> QED
  BY <1>5, <1>6 DEF MergedUpTo

\* The next line, if it is one.
LEMMA SampleMerges ==
  ASSUME NEW r, NEW r0, NEW lines, NEW k \in Nat, NEW W, MergedUpTo(r, r0, lines, k, W),
         NEW y, IsSample(lines[k + 1], y), NEW u,
         u = [x \in DOMAIN u |-> u[x]], DOMAIN u = DOMAIN r \cup {y},
         \A x \in DOMAIN r : x # y => u[x] = r[x], u[y] = Arriving(lines[k + 1], W)
  PROVE  MergedUpTo(u, r0, lines, k + 1, W)
<1>1. \A x : x # y => ~IsSample(lines[k + 1], x)
  BY DEF IsSample
<1>2. k + 1 \in 1..(k + 1) /\ \A j \in 1..k : j \in 1..(k + 1)
  OBVIOUS
<1>3. \A x : x # y => \A j \in 1..(k + 1) : IsSample(lines[j], x) => j \in 1..k
  BY <1>1
<1>4. \A x : x \in DOMAIN u <=> x \in DOMAIN r0 \/ \E j \in 1..(k + 1) : IsSample(lines[j], x)
  BY <1>2, <1>3 DEF MergedUpTo
<1>5. ASSUME NEW x \in DOMAIN u
      PROVE  \/ /\ x \in DOMAIN r0 /\ u[x] = r0[x]
                /\ \A j \in 1..(k + 1) : ~IsSample(lines[j], x)
             \/ \E j \in 1..(k + 1) : /\ IsSample(lines[j], x) /\ u[x] = Arriving(lines[j], W)
                                      /\ \A i \in (j + 1)..(k + 1) : ~IsSample(lines[i], x)
  <2>1. CASE x = y
    <3>1. \A i \in ((k + 1) + 1)..(k + 1) : ~IsSample(lines[i], x)
      OBVIOUS
    <3> QED
      BY <1>2, <2>1, <3>1
  <2>2. CASE x # y
    <3>1. \/ /\ x \in DOMAIN r0 /\ r[x] = r0[x]
             /\ \A j \in 1..k : ~IsSample(lines[j], x)
          \/ \E j \in 1..k : /\ IsSample(lines[j], x) /\ r[x] = Arriving(lines[j], W)
                             /\ \A i \in (j + 1)..k : ~IsSample(lines[i], x)
      BY <2>2 DEF MergedUpTo
    <3>2. u[x] = r[x]
      BY <2>2
    <3>3. CASE /\ x \in DOMAIN r0 /\ r[x] = r0[x]
               /\ \A j \in 1..k : ~IsSample(lines[j], x)
      BY <1>3, <2>2, <3>2, <3>3
    <3>4. CASE \E j \in 1..k : /\ IsSample(lines[j], x) /\ r[x] = Arriving(lines[j], W)
                               /\ \A i \in (j + 1)..k : ~IsSample(lines[i], x)
      <4>1. PICK j \in 1..k : /\ IsSample(lines[j], x) /\ r[x] = Arriving(lines[j], W)
                              /\ \A i \in (j + 1)..k : ~IsSample(lines[i], x)
        BY <3>4
      <4>2. \A i \in (j + 1)..(k + 1) : ~IsSample(lines[i], x)
        BY <1>1, <2>2, <4>1
      <4> QED
        BY <1>2, <3>2, <4>1, <4>2
    <3> QED
      BY <3>1, <3>3, <3>4
  <2> QED
    BY <2>1, <2>2
<1> QED
  BY <1>4, <1>5 DEF MergedUpTo

\* The names of a page are not read as others.
LEMMA NamesApart ==
  /\ Plain(Counter) # Plain(Gauge) /\ Plain(Counter) # Plain(Latency)
  /\ \A x \in {Bucket, SumOf, NumOf, <<Gauge, "cut">>, <<0, "header">>} :
       x # Plain(Counter) /\ x # Plain(Gauge) /\ x # Plain(Latency)
  /\ Plain(Latency) \notin SampleNames
BY DEF Plain, Counter, Latency, Gauge, Bucket, SumOf, NumOf, SampleNames

Lines == INSTANCE FoldFacts WITH Op <- ParseLine

Upserts == INSTANCE FoldFacts WITH Op <- Upserted

LEMMA SpecAsTold ==
  ASSUME NEW W, NEW lines, NEW k \in Nat, NEW st, ParsedUpTo(st, lines, k, W), st.ok,
         NEW line, line = lines[k + 1], line.kind = "sample", OfPage(line, W),
         Told(lines, k + 1, line.name, W)
  PROVE  LET spec == SpecOf(st, line)
         IN  /\ spec.name = line.name /\ spec.labels = line.labels /\ spec.value = line.value
             /\ spec.type = TypeOf(line.name) /\ spec.help = HelpOf(line.name, W)
<1> DEFINE spec == SpecOf(st, line)
           x == line.name
           type == At(st.types, x, "gauge")
           help == At(st.helps, x, "")
<1>1. /\ spec.name = x /\ spec.labels = line.labels /\ spec.value = line.value
      /\ spec.type = (IF type \in Types THEN type ELSE "gauge") /\ spec.help = help
  BY DEF SpecOf
<1>2. x \in SampleNames /\ (k + 1) - 1 = k
  BY DEF OfPage
<1> HIDE DEF x
<1>3. type = TypeOf(x)
  <2>1. CASE x \in DOMAIN st.types
    BY <1>2, <2>1 DEF ParsedUpTo, At
  <2>2. CASE x \notin DOMAIN st.types
    <3>1. x # Plain(Counter)
      BY <1>2, <2>2 DEF Told, ParsedUpTo, Keeps, x
    <3> QED
      BY <2>2, <3>1 DEF TypeOf, At
  <2> QED
    BY <2>1, <2>2
<1>4. help = HelpOf(x, W)
  <2>1. CASE x \in DOMAIN st.helps
    BY <1>2, <2>1 DEF ParsedUpTo, At
  <2>2. CASE x \notin DOMAIN st.helps
    <3>1. HelpOf(x, W) = ""
      BY <1>2, <2>2 DEF Told, ParsedUpTo, Keeps, x
    <3> QED
      BY <2>2, <3>1 DEF At
  <2> QED
    BY <2>1, <2>2
<1>5. TypeOf(x) \in Types
  BY DEF TypeOf, Types
<1> HIDE DEF spec, type, help
<1>6. spec.type = TypeOf(x)
  BY <1>1, <1>3, <1>5
<1> QED
  BY <1>1, <1>4, <1>6 DEF spec, x

\* One line more, parsed and merged.
LEMMA OneLineMerges ==
  ASSUME NEW W, NEW lines, NEW k \in Nat, k + 1 \in 1..Len(lines), GoodPage(lines, W), NEW r0,
         NEW st, ParsedUpTo(st, lines, k, W),
         st.ok => MergedUpTo(Upserts!Folded(r0, st.specs), r0, lines, k, W)
  PROVE  LET next == ParseLine(st, lines[k + 1])
         IN  /\ ParsedUpTo(next, lines, k + 1, W)
             /\ next.ok => MergedUpTo(Upserts!Folded(r0, next.specs), r0, lines, k + 1, W)
<1> DEFINE line == lines[k + 1]
           next == ParseLine(st, line)
           Done == /\ ParsedUpTo(next, lines, k + 1, W)
                   /\ next.ok => MergedUpTo(Upserts!Folded(r0, next.specs), r0, lines, k + 1, W)
<1>1. OfPage(line, W) /\ (line.kind = "sample" => Told(lines, k + 1, line.name, W))
  BY DEF GoodPage
<1>2. (1..(k + 1)) = (1..k) \cup {k + 1} /\ k + 1 \in 1..(k + 1)
  OBVIOUS
<1>3. NoJunk(lines, k + 1) <=> NoJunk(lines, k) /\ line.kind # "junk"
  BY <1>2 DEF NoJunk
<1>4. ASSUME NEW f, NEW kind, Keeps(f, lines, k, kind), line.kind # kind
      PROVE  Keeps(f, lines, k + 1, kind)
  BY <1>2, <1>4 DEF Keeps
<1>5. ASSUME NEW f, NEW kind, NEW v, Keeps(f, lines, k, kind)
      PROVE  Keeps(Put(f, line.name, v), lines, k + 1, kind)
  <2>1. DOMAIN Put(f, line.name, v) = DOMAIN f \cup {line.name}
    BY DEF Put
  <2> QED
    BY <1>2, <1>5, <2>1 DEF Keeps
<1>6. line.kind # "sample" /\ st.ok =>
        MergedUpTo(Upserts!Folded(r0, st.specs), r0, lines, k + 1, W)
  BY NoSampleMerges
<1> HIDE DEF line
<1>7. CASE ~st.ok
  <2>1. next = st
    BY <1>7 DEF ParseLine
  <2> HIDE DEF next
  <2>2. ParsedUpTo(st, lines, k + 1, W)
    BY <1>3, <1>7 DEF ParsedUpTo
  <2>3. Done
    BY <1>7, <2>1, <2>2
  <2> QED
    BY <2>3 DEF next, line
<1>8. CASE st.ok /\ line.kind = "comment"
  <2>1. next = st
    BY <1>8 DEF ParseLine
  <2> HIDE DEF next
  <2>2. ParsedUpTo(st, lines, k + 1, W)
    BY <1>3, <1>4, <1>8 DEF ParsedUpTo
  <2>3. Done
    BY <1>6, <1>8, <2>1, <2>2
  <2> QED
    BY <2>3 DEF next, line
<1>9. CASE st.ok /\ line.kind = "junk"
  <2>1. next = [st EXCEPT !.ok = FALSE]
    BY <1>9 DEF ParseLine
  <2> HIDE DEF next
  <2>2. DOMAIN next = DOMAIN st /\ ~next.ok /\ next.specs = st.specs
    BY <2>1 DEF ParsedUpTo
  <2>3. Done
    BY <1>3, <1>9, <2>2 DEF ParsedUpTo
  <2> QED
    BY <2>3 DEF next, line
<1>10. CASE st.ok /\ line.kind = "type"
  <2> DEFINE types == Put(st.types, line.name, line.type)
  <2>1. next = [st EXCEPT !.types = types]
    BY <1>10 DEF ParseLine
  <2>2. Keeps(types, lines, k + 1, "type")
    BY <1>5, <1>10 DEF ParsedUpTo
  <2>3. \A x \in DOMAIN types \cap SampleNames : types[x] = TypeOf(x)
    BY <1>1, <1>10 DEF Put, ParsedUpTo, OfPage
  <2> HIDE DEF next, types
  <2>4. /\ DOMAIN next = DOMAIN st /\ next.ok = st.ok /\ next.specs = st.specs
        /\ next.types = types /\ next.helps = st.helps
    BY <2>1 DEF ParsedUpTo
  <2>5. ParsedUpTo(next, lines, k + 1, W)
    BY <1>3, <1>4, <1>10, <2>2, <2>3, <2>4 DEF ParsedUpTo
  <2>6. Done
    BY <1>6, <1>10, <2>4, <2>5
  <2> QED
    BY <2>6 DEF next, line
<1>11. CASE st.ok /\ line.kind = "help"
  <2> DEFINE helps == Put(st.helps, line.name, line.help)
  <2>1. next = [st EXCEPT !.helps = helps]
    BY <1>11 DEF ParseLine
  <2>2. Keeps(helps, lines, k + 1, "help")
    BY <1>5, <1>11 DEF ParsedUpTo
  <2>3. \A x \in DOMAIN helps \cap SampleNames : helps[x] = HelpOf(x, W)
    BY <1>1, <1>11 DEF Put, ParsedUpTo, OfPage
  <2> HIDE DEF next, helps
  <2>4. /\ DOMAIN next = DOMAIN st /\ next.ok = st.ok /\ next.specs = st.specs
        /\ next.types = st.types /\ next.helps = helps
    BY <2>1 DEF ParsedUpTo
  <2>5. ParsedUpTo(next, lines, k + 1, W)
    BY <1>3, <1>4, <1>11, <2>2, <2>3, <2>4 DEF ParsedUpTo
  <2>6. Done
    BY <1>6, <1>11, <2>4, <2>5
  <2> QED
    BY <2>6 DEF next, line
<1>12. CASE st.ok /\ line.kind = "sample"
  <2> DEFINE spec == SpecOf(st, line)
             specs == Append(st.specs, spec)
             r == Upserts!Folded(r0, st.specs)
             u == Upserted(r, spec)
  <2>1. next = [st EXCEPT !.specs = specs]
    BY <1>12 DEF ParseLine
  <2>2. /\ spec.name = line.name /\ spec.labels = line.labels /\ spec.value = line.value
        /\ spec.type = TypeOf(line.name) /\ spec.help = HelpOf(line.name, W)
    BY <1>1, <1>12, SpecAsTold DEF line
  <2> HIDE DEF spec
  <2>3. /\ IsSeq(specs) /\ Len(specs) = Len(st.specs) + 1 /\ Len(st.specs) \in Nat
        /\ \A i \in 1..Len(st.specs) : specs[i] = st.specs[i]
        /\ specs[Len(st.specs) + 1] = spec
    BY Appended, SeqIs DEF ParsedUpTo
  <2>4. Upserts!Folded(r0, specs) = u
    <3>1. DOMAIN st.specs = 1..Len(st.specs) /\ DOMAIN specs = 1..(Len(st.specs) + 1)
      BY <2>3, SeqIs DEF ParsedUpTo
    <3> HIDE DEF specs
    <3> QED
      BY <2>3, <3>1, Upserts!OneMore
  <2> HIDE DEF specs
  <2>5. /\ u = [x \in DOMAIN u |-> u[x]] /\ DOMAIN u = DOMAIN r \cup {line.name}
        /\ \A x \in DOMAIN r : x # line.name => u[x] = r[x]
        /\ u[line.name] = Arriving(line, W)
    <3> DEFINE value == IF spec.type = "histogram" \/ (spec.type = "counter" /\ spec.value < 0)
                        THEN 0 ELSE spec.value
               m == [type |-> spec.type, help |-> spec.help, labels |-> spec.labels, value |-> value]
    <3>1. u = Put(r, spec.name, m)
      BY DEF Upserted
    <3>2. value = line.value
      BY <1>1, <1>12, <2>2 DEF TypeOf, OfPage
    <3> HIDE DEF value
    <3>3. m = Arriving(line, W)
      BY <2>2, <3>2 DEF Arriving
    <3> HIDE DEF m, r, u
    <3> QED
      BY <2>2, <3>1, <3>3 DEF Put
  <2>6. IsSample(line, line.name)
    BY <1>12 DEF IsSample
  <2>7. MergedUpTo(r, r0, lines, k, W)
    BY <1>12
  <2> HIDE DEF r, u
  <2>8. MergedUpTo(u, r0, lines, k + 1, W)
    BY <2>5, <2>6, <2>7, SampleMerges DEF line
  <2> HIDE DEF next
  <2>9. /\ DOMAIN next = DOMAIN st /\ next.ok = st.ok /\ next.specs = specs
        /\ next.types = st.types /\ next.helps = st.helps
    BY <2>1 DEF ParsedUpTo
  <2>10. ParsedUpTo(next, lines, k + 1, W)
    BY <1>3, <1>4, <1>12, <2>3, <2>9 DEF ParsedUpTo
  <2>11. Done
    BY <2>4, <2>8, <2>9, <2>10
  <2> QED
    BY <2>11 DEF next, line
<1> QED
  BY <1>1, <1>7, <1>8, <1>9, <1>10, <1>11, <1>12 DEF OfPage

\* The page is merged unless a line of it spoils it, and each name gets what the
\* last sample of it says.
LEMMA MergedExactly ==
  ASSUME NEW W, NEW lines, GoodPage(lines, W), NEW r0, r0 = [x \in DOMAIN r0 |-> r0[x]]
  PROVE  /\ Parse(lines).ok <=> NoJunk(lines, Len(lines))
         /\ Parse(lines).ok => MergedUpTo(Merged(r0, lines), r0, lines, Len(lines), W)
<1>1. Lines!Folded(NothingParsed, lines) = Parse(lines)
  BY DEF Lines!Folded, Lines!FoldLeft, Lines!MapThenFoldSet, Lines!Max,
         Parse, FoldLeft, MapThenFoldSet, Max
<1> DEFINE n == Len(lines)
           Holding(k, st) == /\ ParsedUpTo(st, lines, k, W)
                             /\ st.ok => MergedUpTo(Upserts!Folded(r0, st.specs), r0, lines, k, W)
<1>2. n \in Nat /\ DOMAIN lines = 1..n
  BY SeqIs DEF GoodPage
<1> HIDE DEF n
<1>3. PICK st : /\ DOMAIN st = 0..n
                /\ st[0] = NothingParsed
                /\ \A k \in 1..n : st[k] = ParseLine(st[k - 1], lines[k])
                /\ st[n] = Lines!Folded(NothingParsed, lines)
  BY <1>2, Lines!InTurn, Zenon
<1> DEFINE T == {k \in 0..n : Holding(k, st[k])}
<1>4. Holding(0, NothingParsed)
  <2>1. <<>> \in Seq({}) /\ Len(<<>>) = 0 /\ 1..0 = {} /\ DOMAIN <<>> = 1..0
    OBVIOUS
  <2>2. IsSeq(<<>>)
    BY <2>1, SeqOfIsSeq
  <2>3. /\ NothingParsed.ok /\ NothingParsed.types = <<>> /\ NothingParsed.helps = <<>>
        /\ NothingParsed.specs = <<>> /\ DOMAIN NothingParsed = {"ok", "types", "helps", "specs"}
    BY DEF NothingParsed
  <2>4. Upserts!Folded(r0, <<>>) = r0
    BY <2>1, Upserts!OfNothing
  <2>5. MergedUpTo(r0, r0, lines, 0, W)
    BY <2>1 DEF MergedUpTo
  <2>6. ParsedUpTo(NothingParsed, lines, 0, W)
    BY <2>1, <2>2, <2>3 DEF ParsedUpTo, NoJunk, Keeps
  <2> QED
    BY <2>3, <2>4, <2>5, <2>6
<1> HIDE DEF Holding
<1>5. 0 \in T
  BY <1>2, <1>3, <1>4
<1>6. \A k \in 0..(n - 1) : k \in T => k + 1 \in T
  <2> SUFFICES ASSUME NEW k \in 0..(n - 1), Holding(k, st[k])
               PROVE  k + 1 \in 0..n /\ Holding(k + 1, st[k + 1])
    OBVIOUS
  <2>1. k + 1 \in 1..n /\ k + 1 \in 0..n /\ (k + 1) - 1 = k /\ k \in Nat
    BY <1>2
  <2>2. st[k + 1] = ParseLine(st[k], lines[k + 1])
    BY <1>3, <2>1
  <2>3. k + 1 \in 1..Len(lines)
    BY <2>1 DEF n
  <2>4. Holding(k + 1, ParseLine(st[k], lines[k + 1]))
    BY <2>1, <2>3, OneLineMerges DEF Holding
  <2> QED
    BY <2>1, <2>2, <2>4
<1>7. Holding(n, Parse(lines))
  <2>1. n \in 0..n
    BY <1>2
  <2>2. n \in T
    <3> HIDE DEF T
    <3> QED
      BY <1>2, <1>5, <1>6, <2>1, Lines!Steps
  <2> QED
    BY <1>1, <1>3, <2>2
<1>8. Parse(lines).ok => Upserts!Folded(r0, Parse(lines).specs) = Merged(r0, lines)
  BY DEF Upserts!Folded, Upserts!FoldLeft, Upserts!MapThenFoldSet, Upserts!Max,
         Merged, FoldLeft, MapThenFoldSet, Max
<1> QED
  BY <1>7, <1>8 DEF Holding, ParsedUpTo, n

\* The registry of the worker.
IsRegistry(registry) ==
  /\ registry = [x \in DOMAIN registry |-> registry[x]]
  /\ \A x \in DOMAIN registry : registry[x].type \in Types /\ registry[x].value \in Int

\* A page makes a registry of a registry, and drops no name of it.
LEMMA MergedIs ==
  ASSUME NEW W, NEW lines, GoodPage(lines, W), NEW r0, IsRegistry(r0)
  PROVE  IsRegistry(Merged(r0, lines)) /\ DOMAIN r0 \subseteq DOMAIN Merged(r0, lines)
<1> DEFINE r == Merged(r0, lines)
<1>1. CASE ~Parse(lines).ok
  BY <1>1 DEF Merged
<1>2. CASE Parse(lines).ok
  <2>1. MergedUpTo(r, r0, lines, Len(lines), W)
    BY <1>2, MergedExactly DEF IsRegistry
  <2> HIDE DEF r
  <2>2. ASSUME NEW x \in DOMAIN r PROVE r[x].type \in Types /\ r[x].value \in Int
    <3>1. CASE x \in DOMAIN r0 /\ r[x] = r0[x]
      BY <3>1 DEF IsRegistry
    <3>2. CASE \E j \in 1..Len(lines) : IsSample(lines[j], x) /\ r[x] = Arriving(lines[j], W)
      <4>1. PICK j \in 1..Len(lines) : IsSample(lines[j], x) /\ r[x] = Arriving(lines[j], W)
        BY <3>2
      <4>2. r[x].type = TypeOf(lines[j].name) /\ r[x].value = lines[j].value
        BY <4>1 DEF Arriving
      <4>3. lines[j].value \in Int
        BY <4>1 DEF GoodPage, OfPage, IsSample
      <4> QED
        BY <4>2, <4>3 DEF TypeOf, Types
    <3> QED
      BY <2>1, <3>1, <3>2 DEF MergedUpTo
  <2>3. DOMAIN r0 \subseteq DOMAIN r /\ r = [x \in DOMAIN r |-> r[x]]
    BY <2>1 DEF MergedUpTo
  <2> QED
    BY <2>2, <2>3 DEF IsRegistry, r
<1> QED
  BY <1>1, <1>2

-----------------------------------------------------------------------------
(* The page of a target shows each of its metrics. *)

LEMMA ImageIs ==
  ASSUME NEW W
  PROVE  /\ DOMAIN Image(W) = {Plain(Counter), Plain(Gauge), Bucket, SumOf, NumOf}
         /\ \A n \in {Counter, Gauge} :
              Image(W)[Plain(n)] = [type |-> W[n].type, help |-> W[n].help,
                                    labels |-> W[n].labels, value |-> Written(W[n].value)]
         /\ Image(W)[Bucket] = [type |-> "gauge", help |-> "", labels |-> <<"+Inf">>,
                                value |-> W[Latency].count]
         /\ Image(W)[SumOf] = [type |-> "gauge", help |-> "", labels |-> <<>>,
                               value |-> Written(W[Latency].sum)]
         /\ Image(W)[NumOf] = [type |-> "gauge", help |-> "", labels |-> <<>>,
                               value |-> W[Latency].count]
<1>1. /\ Bucket \notin {Plain(Counter), Plain(Gauge)} /\ SumOf \notin {Plain(Counter), Plain(Gauge)}
      /\ NumOf \notin {Plain(Counter), Plain(Gauge)}
      /\ Bucket # SumOf /\ Bucket # NumOf /\ SumOf # NumOf
  BY DEF Plain, Bucket, SumOf, NumOf
<1>2. \A n : Plain(n)[1] = n
  BY DEF Plain
<1>3. DOMAIN Image(W) = {Plain(Counter), Plain(Gauge), Bucket, SumOf, NumOf}
  BY DEF Image
<1>4. ASSUME NEW n \in {Counter, Gauge}
      PROVE  Image(W)[Plain(n)] = [type |-> W[n].type, help |-> W[n].help,
                                   labels |-> W[n].labels, value |-> Written(W[n].value)]
  BY <1>1, <1>2 DEF Image
<1>5. Image(W)[Bucket] = [type |-> "gauge", help |-> "", labels |-> <<"+Inf">>,
                          value |-> W[Latency].count]
  BY <1>1 DEF Image
<1>6. Image(W)[SumOf] = [type |-> "gauge", help |-> "", labels |-> <<>>,
                         value |-> Written(W[Latency].sum)]
  BY <1>1 DEF Image
<1>7. Image(W)[NumOf] = [type |-> "gauge", help |-> "", labels |-> <<>>,
                         value |-> W[Latency].count]
  BY <1>1 DEF Image
<1> QED
  BY <1>3, <1>4, <1>5, <1>6, <1>7

\* What the registry of the target holds.
LEMMA RegistryIs ==
  /\ Registry[Counter].type = "counter" /\ Registry[Counter].value = total
  /\ Registry[Counter].help = "" /\ Registry[Counter].labels = <<>>
  /\ Registry[Counter].text = "plain"
  /\ Registry[Gauge].type = "gauge" /\ Registry[Gauge].value = 7
  /\ Registry[Gauge].help = "of the day" /\ Registry[Gauge].labels = <<>>
  /\ Registry[Gauge].text = text
  /\ Registry[Latency].type = "histogram" /\ Registry[Latency].help = ""
  /\ Registry[Latency].labels = <<>> /\ Registry[Latency].bounds = Bounds
  /\ Registry[Latency].counts = counts /\ Registry[Latency].sum = sum
  /\ Registry[Latency].count = count
<1> DEFINE c == Registry[Counter]
           g == Registry[Gauge]
           h == Registry[Latency]
<1>1. c = Scalar("counter", total, "", "plain") /\ g = Scalar("gauge", 7, "of the day", text)
  BY DEF Registry, Counter, Latency, Gauge
<1>2. h = [type |-> "histogram", help |-> "", labels |-> <<>>,
           bounds |-> Bounds, counts |-> counts, sum |-> sum, count |-> count]
  BY DEF Registry, Counter, Latency, Gauge
<1> HIDE DEF c, g, h
<1>3. /\ c.type = "counter" /\ c.value = total /\ c.help = "" /\ c.labels = <<>> /\ c.text = "plain"
      /\ g.type = "gauge" /\ g.value = 7 /\ g.help = "of the day" /\ g.labels = <<>> /\ g.text = text
  BY <1>1 DEF Scalar
<1>4. /\ h.type = "histogram" /\ h.help = "" /\ h.labels = <<>> /\ h.bounds = Bounds
      /\ h.counts = counts /\ h.sum = sum /\ h.count = count
  BY <1>2
<1> QED
  BY <1>3, <1>4 DEF c, g, h

\* A sample shows a metric, or is one of those that arrive as something else.
ShownAs(line, W) ==
  /\ line.kind = "junk" => W[Gauge].text = "unreadable"
  /\ line.kind = "sample" =>
       \/ /\ line.name \in DOMAIN Image(W)
          /\ line.labels = Image(W)[line.name].labels /\ line.value = Image(W)[line.name].value
       \/ line.name = Bucket /\ line.value \in Range(W[Latency].counts)
       \/ line.name = <<Gauge, "cut">> /\ W[Gauge].text = "misread"

Showing(page, W) == GoodPage(page, W) /\ \A i \in 1..Len(page) : ShownAs(page[i], W)

LEMMA Untold ==
  ASSUME NEW lines, NEW i, NEW W, NEW x, x # Plain(Counter), x # Plain(Gauge)
  PROVE  Told(lines, i, x, W)
BY DEF Told, HelpOf

LEMMA ShownJoined ==
  ASSUME NEW W, NEW s, NEW t, Showing(s, W), Showing(t, W)
  PROVE  Showing(s \o t, W)
<1> DEFINE r == s \o t
<1>1. Len(s) \in Nat /\ Len(t) \in Nat
  BY SeqIs DEF Showing, GoodPage
<1>2. /\ IsSeq(r) /\ Len(r) = Len(s) + Len(t)
      /\ \A i \in 1..Len(s) : r[i] = s[i]
      /\ \A i \in 1..Len(t) : r[Len(s) + i] = t[i]
  BY Joined DEF Showing, GoodPage
<1> HIDE DEF r
<1>3. ASSUME NEW i \in 1..(Len(s) + Len(t))
      PROVE  /\ OfPage(r[i], W) /\ ShownAs(r[i], W)
             /\ r[i].kind = "sample" => Told(r, i, r[i].name, W)
  <2>1. CASE i <= Len(s)
    <3>1. i \in 1..Len(s) /\ \A j \in 1..(i - 1) : j \in 1..Len(s)
      BY <1>1, <2>1
    <3>2. r[i] = s[i] /\ \A j \in 1..(i - 1) : r[j] = s[j]
      BY <1>2, <3>1
    <3>3. OfPage(s[i], W) /\ ShownAs(s[i], W) /\ (s[i].kind = "sample" => Told(s, i, s[i].name, W))
      BY <3>1 DEF Showing, GoodPage
    <3>4. \A x : Told(s, i, x, W) => Told(r, i, x, W)
      BY <3>2 DEF Told
    <3> QED
      BY <3>2, <3>3, <3>4
  <2>2. CASE i > Len(s)
    <3> DEFINE k == i - Len(s)
    <3>1. k \in 1..Len(t) /\ Len(s) + k = i
      BY <1>1, <2>2
    <3> HIDE DEF k
    <3>2. r[i] = t[k]
      BY <1>2, <3>1
    <3>3. OfPage(t[k], W) /\ ShownAs(t[k], W) /\ (t[k].kind = "sample" => Told(t, k, t[k].name, W))
      BY <3>1 DEF Showing, GoodPage
    <3>4. \A j \in 1..(k - 1) : Len(s) + j \in 1..(i - 1) /\ r[Len(s) + j] = t[j]
      <4>1. \A j \in 1..(k - 1) : j \in 1..Len(t) /\ Len(s) + j \in 1..(i - 1)
        BY <1>1, <3>1
      <4> QED
        BY <1>2, <4>1
    <3>5. \A x : Told(t, k, x, W) => Told(r, i, x, W)
      BY <3>4 DEF Told
    <3> QED
      BY <3>2, <3>3, <3>5
  <2> QED
    BY <1>1, <2>1, <2>2
<1>4. Showing(r, W)
  BY <1>2, <1>3 DEF Showing, GoodPage
<1> QED
  BY <1>4 DEF r

\* What the registry holds.
Holds ==
  /\ HistogramInv
  /\ total \in Nat
  /\ text \in Texts

\* A sequence of a few lines.
LEMMA ShownInFull ==
  ASSUME NEW W, NEW s, IsSeq(s),
         \A i \in 1..Len(s) : /\ OfPage(s[i], W) /\ ShownAs(s[i], W)
                              /\ s[i].kind = "sample" => Told(s, i, s[i].name, W)
  PROVE  Showing(s, W)
BY DEF Showing, GoodPage

LEMMA NothingBefore ==
  ASSUME NEW s, IsSeq(s)
  PROVE  <<>> \o s = s
BY ConcatEmptySeq DEF IsSeq

\* A sample of the histogram that shows what it will arrive as.
LEMMA SampleShows ==
  ASSUME NEW W, NEW x \in {Bucket, SumOf, NumOf}, NEW labels, NEW value \in Int,
         \/ labels = Image(W)[x].labels /\ value = Image(W)[x].value
         \/ x = Bucket /\ value \in Range(W[Latency].counts)
  PROVE  /\ OfPage(Sample(x, labels, value), W) /\ ShownAs(Sample(x, labels, value), W)
         /\ IsSample(Sample(x, labels, value), x)
         /\ Sample(x, labels, value).labels = labels /\ Sample(x, labels, value).value = value
<1> DEFINE s == Sample(x, labels, value)
<1>1. /\ s.kind = "sample" /\ s.name = x /\ s.labels = labels /\ s.value = value
      /\ DOMAIN s = {"kind", "name", "labels", "value"}
  BY DEF Sample
<1>2. x \in SampleNames /\ x # Plain(Counter)
  BY NamesApart DEF SampleNames
<1>3. x \in DOMAIN Image(W)
  BY ImageIs
<1> HIDE DEF s
<1>4. OfPage(s, W) /\ IsSample(s, x)
  BY <1>1, <1>2 DEF OfPage, IsSample
<1>5. ShownAs(s, W)
  BY <1>1, <1>3 DEF ShownAs
<1> QED
  BY <1>1, <1>4, <1>5 DEF s

\* Three sequences, one after the other.
LEMMA FlattenedThree ==
  ASSUME NEW seqs, DOMAIN seqs = 1..3, Len(seqs) = 3
  PROVE  FlattenSeq(seqs) = (seqs[1] \o seqs[2]) \o seqs[3]
<1> DEFINE Is(f) == f = [i \in 1..Len(seqs) |-> IF i = 1 THEN seqs[i] ELSE f[i - 1] \o seqs[i]]
           g == [i \in 1..3 |-> IF i = 1 THEN seqs[1]
                                ELSE IF i = 2 THEN seqs[1] \o seqs[2]
                                ELSE (seqs[1] \o seqs[2]) \o seqs[3]]
           flatten == CHOOSE f : Is(f)
<1>1. Is(g)
  <2>1. \A i \in 1..3 : i = 1 \/ i = 2 \/ i = 3
    OBVIOUS
  <2>2. g[1] = seqs[1] /\ g[2] = seqs[1] \o seqs[2] /\ g[3] = (seqs[1] \o seqs[2]) \o seqs[3]
    OBVIOUS
  <2>3. \A i \in 1..3 : g[i] = IF i = 1 THEN seqs[i] ELSE g[i - 1] \o seqs[i]
    BY <2>1, <2>2
  <2>4. g = [i \in 1..3 |-> g[i]]
    OBVIOUS
  <2> HIDE DEF g
  <2> QED
    BY <2>3, <2>4
<1>2. Is(flatten)
  BY <1>1
<1>3. FlattenSeq(seqs) = flatten[3]
  BY DEF FlattenSeq
<1> HIDE DEF flatten
<1>4. \A i \in 1..3 : flatten[i] = IF i = 1 THEN seqs[i] ELSE flatten[i - 1] \o seqs[i]
  BY <1>2
<1>5. flatten[1] = seqs[1] /\ flatten[2] = flatten[1] \o seqs[2] /\ flatten[3] = flatten[2] \o seqs[3]
  <2>1. 1 \in 1..3 /\ 2 \in 1..3 /\ 3 \in 1..3 /\ 2 - 1 = 1 /\ 3 - 1 = 2
    OBVIOUS
  <2> QED
    BY <1>4, <2>1
<1> QED
  BY <1>3, <1>5

\* Which metrics a page has samples of.
Has(s, x) == \E i \in 1..Len(s) : IsSample(s[i], x)

\* The last bucket of a page is the one that counts everything.
IsLastBucket(line, W) ==
  IsSample(line, Bucket) /\ line.labels = Image(W)[Bucket].labels /\ line.value = W[Latency].count

Settled(s, W) ==
  \A i \in 1..Len(s) : IsSample(s[i], Bucket) => \E j \in i..Len(s) : IsLastBucket(s[j], W)

LEMMA PartsJoined ==
  ASSUME NEW W, NEW s, NEW t, IsSeq(s), IsSeq(t), Settled(s, W), Settled(t, W)
  PROVE  /\ Settled(s \o t, W)
         /\ \A x : Has(s, x) \/ Has(t, x) => Has(s \o t, x)
<1> DEFINE r == s \o t
<1>1. Len(s) \in Nat /\ Len(t) \in Nat
  BY SeqIs
<1>2. /\ Len(r) = Len(s) + Len(t)
      /\ \A i \in 1..Len(s) : r[i] = s[i]
      /\ \A i \in 1..Len(t) : r[Len(s) + i] = t[i]
  BY Joined
<1> HIDE DEF r
<1>3. /\ \A i \in 1..Len(s) : i \in 1..Len(r)
      /\ \A i \in 1..Len(t) : Len(s) + i \in 1..Len(r)
  BY <1>1, <1>2
<1>4. \A x : Has(s, x) \/ Has(t, x) => Has(r, x)
  BY <1>2, <1>3 DEF Has
<1>5. ASSUME NEW i \in 1..Len(r), IsSample(r[i], Bucket)
      PROVE  \E j \in i..Len(r) : IsLastBucket(r[j], W)
  <2>1. CASE i <= Len(s)
    <3>1. i \in 1..Len(s)
      BY <1>1, <2>1
    <3>2. PICK j \in i..Len(s) : IsLastBucket(s[j], W)
      BY <1>2, <1>5, <3>1 DEF Settled
    <3>3. j \in 1..Len(s) /\ j \in i..Len(r)
      BY <1>1, <1>2, <3>1
    <3> QED
      BY <1>2, <3>2, <3>3
  <2>2. CASE i > Len(s)
    <3> DEFINE k == i - Len(s)
    <3>1. k \in 1..Len(t) /\ Len(s) + k = i
      BY <1>1, <1>2, <2>2
    <3> HIDE DEF k
    <3>2. IsSample(t[k], Bucket)
      BY <1>2, <1>5, <3>1
    <3>3. PICK j \in k..Len(t) : IsLastBucket(t[j], W)
      BY <3>1, <3>2 DEF Settled
    <3>4. j \in 1..Len(t) /\ Len(s) + j \in i..Len(r)
      BY <1>1, <1>2, <3>1
    <3> QED
      BY <1>2, <3>3, <3>4
  <2> QED
    BY <1>1, <2>1, <2>2
<1>6. Settled(r, W)
  BY <1>5 DEF Settled
<1> QED
  BY <1>4, <1>6 DEF r

LEMMA Unsettled ==
  ASSUME NEW W, NEW s, \A i \in 1..Len(s) : ~IsSample(s[i], Bucket)
  PROVE  Settled(s, W)
BY DEF Settled

\* What the page says of its counter.
LEMMA CounterShows ==
  ASSUME Holds
  PROVE  LET lines == MetricLines(Counter, Registry[Counter])
         IN  /\ Showing(lines, Registry) /\ Settled(lines, Registry)
             /\ Has(lines, Plain(Counter))
<1> DEFINE W == Registry
           m == W[Counter]
           a == TypeLine(Counter, m.type)
           b == SampleLine(Counter, m)
           s == <<a>> \o <<b>>
<1>1. /\ m.type = "counter" /\ m.value = total /\ m.help = "" /\ m.labels = <<>> /\ m.text = "plain"
  BY RegistryIs
<1>2. /\ Image(W)[Plain(Counter)].labels = m.labels /\ Image(W)[Plain(Counter)].value = Written(m.value)
      /\ Plain(Counter) \in DOMAIN Image(W)
  <2> HIDE DEF W
  <2>1. Counter \in {Counter, Gauge}
    OBVIOUS
  <2>2. /\ DOMAIN Image(W) = {Plain(Counter), Plain(Gauge), Bucket, SumOf, NumOf}
        /\ Image(W)[Plain(Counter)] = [type |-> m.type, help |-> m.help, labels |-> m.labels,
                                       value |-> Written(m.value)]
    BY <2>1, ImageIs
  <2> DEFINE image == Image(W)[Plain(Counter)]
  <2>3. image.labels = m.labels /\ image.value = Written(m.value)
    <3> HIDE DEF m
    <3>1. image = [type |-> m.type, help |-> m.help, labels |-> m.labels, value |-> Written(m.value)]
      BY <2>2
    <3> HIDE DEF image
    <3> QED
      BY <3>1
  <2> QED
    BY <2>2, <2>3
<1>3. HelpOf(Plain(Counter), W) = ""
  BY <1>1 DEF HelpOf
<1> HIDE DEF W, m
<1>4. MetricLines(Counter, m) = s
  <2>1. Metadata(Counter, m) = <<>> \o <<a>>
    BY <1>1 DEF Metadata
  <2>2. <<>> \o <<a>> = <<a>>
    <3> HIDE DEF a
    <3> QED
      BY Single, NothingBefore
  <2> QED
    BY <1>1, <2>1, <2>2 DEF MetricLines
<1>5. a.kind = "type" /\ a.name = Plain(Counter) /\ a.type = "counter"
  BY <1>1 DEF TypeLine
<1>6. /\ b.kind = "sample" /\ b.name = Plain(Counter) /\ b.labels = m.labels
      /\ b.value = Written(total) /\ DOMAIN b = {"kind", "name", "labels", "value"}
  BY <1>1 DEF SampleLine, Sample
<1> HIDE DEF a, b
<1>7. /\ IsSeq(s) /\ Len(s) = 2 /\ s[1] = a /\ s[2] = b
  <2>1. /\ IsSeq(<<a>>) /\ Len(<<a>>) = 1 /\ <<a>>[1] = a
        /\ IsSeq(<<b>>) /\ Len(<<b>>) = 1 /\ <<b>>[1] = b
    BY Single
  <2>2. /\ IsSeq(s) /\ Len(s) = 1 + 1
        /\ \A i \in 1..1 : s[i] = <<a>>[i]
        /\ \A i \in 1..1 : s[1 + i] = <<b>>[i]
    BY <2>1, Joined
  <2>3. 1 \in 1..1 /\ 1 + 1 = 2
    OBVIOUS
  <2> HIDE DEF s
  <2> QED
    BY <2>1, <2>2, <2>3
<1> HIDE DEF s
<1>8. Written(total) \in Nat
  BY WrittenSettles DEF Holds
<1>9. TypeOf(Plain(Counter)) = "counter" /\ Plain(Counter) \in SampleNames /\ Plain(Counter) # Bucket
  BY NamesApart DEF TypeOf, SampleNames
<1>10. OfPage(a, W) /\ ShownAs(a, W) /\ ~IsSample(a, Bucket)
  BY <1>5, <1>9 DEF OfPage, ShownAs, IsSample
<1>11. OfPage(b, W) /\ ShownAs(b, W) /\ ~IsSample(b, Bucket)
  <2>1. OfPage(b, W)
    BY <1>6, <1>8, <1>9 DEF OfPage
  <2>2. b.labels = Image(W)[b.name].labels /\ b.value = Image(W)[b.name].value
    BY <1>1, <1>2, <1>6
  <2>3. ShownAs(b, W)
    BY <1>2, <1>6, <2>2 DEF ShownAs
  <2> QED
    BY <1>6, <1>9, <2>1, <2>3 DEF IsSample
<1>12. \A i \in 1..2 : i = 1 \/ i = 2
  OBVIOUS
<1>13. Told(s, 2, Plain(Counter), W)
  <2>1. 1 \in 1..(2 - 1)
    OBVIOUS
  <2> QED
    BY <1>3, <1>5, <1>7, <2>1 DEF Told
<1>14. ASSUME NEW i \in 1..2
       PROVE  /\ OfPage(s[i], W) /\ ShownAs(s[i], W) /\ ~IsSample(s[i], Bucket)
              /\ s[i].kind = "sample" => Told(s, i, s[i].name, W)
  <2>1. CASE i = 1
    BY <1>5, <1>7, <1>10, <2>1
  <2>2. CASE i = 2
    BY <1>6, <1>7, <1>11, <1>13, <2>2
  <2> QED
    BY <1>12, <2>1, <2>2
<1>15. Showing(s, W) /\ Settled(s, W)
  BY <1>7, <1>14, ShownInFull, Unsettled
<1>16. Has(s, Plain(Counter))
  <2>1. 2 \in 1..2
    OBVIOUS
  <2> QED
    BY <1>6, <1>7, <2>1 DEF Has, IsSample
<1> QED
  BY <1>4, <1>15, <1>16 DEF m, W

\* What it says of its gauge, as far as the gauge's name can be read.
LEMMA GaugeShows ==
  ASSUME Holds
  PROVE  LET lines == MetricLines(Gauge, Registry[Gauge])
         IN  /\ Showing(lines, Registry) /\ Settled(lines, Registry)
             /\ text = "plain" => Has(lines, Plain(Gauge))
<1> DEFINE W == Registry
           m == W[Gauge]
           a == HelpLine(Gauge, m.help)
           b == TypeLine(Gauge, m.type)
           c == SampleLine(Gauge, m)
           s2 == <<a>> \o <<b>>
           s == s2 \o <<c>>
<1>1. /\ m.type = "gauge" /\ m.value = 7 /\ m.help = "of the day" /\ m.labels = <<>> /\ m.text = text
  BY RegistryIs
<1>2. /\ Image(W)[Plain(Gauge)].labels = m.labels /\ Image(W)[Plain(Gauge)].value = Written(m.value)
      /\ Plain(Gauge) \in DOMAIN Image(W)
  <2> HIDE DEF W
  <2>1. Gauge \in {Counter, Gauge}
    OBVIOUS
  <2>2. /\ DOMAIN Image(W) = {Plain(Counter), Plain(Gauge), Bucket, SumOf, NumOf}
        /\ Image(W)[Plain(Gauge)] = [type |-> m.type, help |-> m.help, labels |-> m.labels,
                                     value |-> Written(m.value)]
    BY <2>1, ImageIs
  <2> DEFINE image == Image(W)[Plain(Gauge)]
  <2>3. image.labels = m.labels /\ image.value = Written(m.value)
    <3> HIDE DEF m
    <3>1. image = [type |-> m.type, help |-> m.help, labels |-> m.labels, value |-> Written(m.value)]
      BY <2>2
    <3> HIDE DEF image
    <3> QED
      BY <3>1
  <2> QED
    BY <2>2, <2>3
<1>3. HelpOf(Plain(Gauge), W) = m.help
  BY NamesApart DEF HelpOf
<1>4. W[Gauge] = m
  OBVIOUS
<1> HIDE DEF W, m
<1>5. MetricLines(Gauge, m) = s
  BY <1>1 DEF MetricLines, Metadata
<1>6. a.kind = "help" /\ a.name = Plain(Gauge) /\ a.help = m.help
  BY DEF HelpLine
<1>7. b.kind = "type" /\ b.name = Plain(Gauge) /\ b.type = "gauge"
  BY <1>1 DEF TypeLine
<1>8. text \in {"plain", "unreadable", "misread"}
  BY FetchAssumption DEF Holds
<1>9. TypeOf(Plain(Gauge)) = "gauge"
  BY NamesApart DEF TypeOf
<1>10. OfPage(a, W) /\ ShownAs(a, W) /\ ~IsSample(a, Bucket)
  BY <1>3, <1>6 DEF OfPage, ShownAs, IsSample
<1>11. OfPage(b, W) /\ ShownAs(b, W) /\ ~IsSample(b, Bucket)
  BY <1>7, <1>9 DEF OfPage, ShownAs, IsSample
<1>12. /\ OfPage(c, W) /\ ShownAs(c, W) /\ ~IsSample(c, Bucket)
       /\ c.kind = "sample" => c.name \in {Plain(Gauge), <<Gauge, "cut">>}
       /\ text = "plain" => IsSample(c, Plain(Gauge))
  <2>1. CASE text = "plain"
    <3>1. /\ c.kind = "sample" /\ c.name = Plain(Gauge) /\ c.labels = m.labels
          /\ c.value = Written(m.value) /\ DOMAIN c = {"kind", "name", "labels", "value"}
      BY <1>1, <2>1 DEF SampleLine, Sample
    <3>2. Written(m.value) \in Int
      <4>1. m.value = 7
        BY <1>1
      <4>2. m.value \in Int
        BY <4>1
      <4> QED
        BY <4>2, WrittenIsInt
    <3> HIDE DEF c
    <3>3. Plain(Gauge) \in SampleNames /\ Plain(Gauge) # Plain(Counter) /\ Plain(Gauge) # Bucket
      BY NamesApart DEF SampleNames
    <3>4. OfPage(c, W)
      BY <3>1, <3>2, <3>3 DEF OfPage
    <3>5. c.labels = Image(W)[c.name].labels /\ c.value = Image(W)[c.name].value
      BY <1>2, <3>1
    <3>6. ShownAs(c, W)
      BY <1>2, <3>1, <3>5 DEF ShownAs
    <3> QED
      BY <3>1, <3>3, <3>4, <3>6 DEF IsSample
  <2>2. CASE text = "unreadable"
    <3>1. c.kind = "junk"
      BY <1>1, <2>2 DEF SampleLine, Junk
    <3> HIDE DEF c
    <3> QED
      BY <1>1, <1>4, <2>2, <3>1 DEF OfPage, ShownAs, IsSample
  <2>3. CASE text = "misread"
    <3>1. /\ c.kind = "sample" /\ c.name = <<Gauge, "cut">> /\ c.value = -5
          /\ DOMAIN c = {"kind", "name", "labels", "value"}
      BY <1>1, <2>3 DEF SampleLine, Sample
    <3> HIDE DEF c
    <3>2. <<Gauge, "cut">> \in SampleNames /\ <<Gauge, "cut">> # Plain(Counter)
      BY NamesApart DEF SampleNames
    <3>3. <<Gauge, "cut">> # Bucket
      BY DEF Bucket, Gauge, Latency
    <3>4. OfPage(c, W)
      BY <3>1, <3>2 DEF OfPage
    <3>5. ShownAs(c, W)
      BY <1>1, <1>4, <2>3, <3>1 DEF ShownAs
    <3> QED
      BY <2>3, <3>1, <3>3, <3>4, <3>5 DEF IsSample
  <2> QED
    BY <1>8, <2>1, <2>2, <2>3
<1> HIDE DEF a, b, c
<1>13. /\ IsSeq(s) /\ Len(s) = 3 /\ s[1] = a /\ s[2] = b /\ s[3] = c
  <2>1. /\ IsSeq(<<a>>) /\ Len(<<a>>) = 1 /\ <<a>>[1] = a
        /\ IsSeq(<<b>>) /\ Len(<<b>>) = 1 /\ <<b>>[1] = b
        /\ IsSeq(<<c>>) /\ Len(<<c>>) = 1 /\ <<c>>[1] = c
    BY Single
  <2>2. /\ IsSeq(s2) /\ Len(s2) = 1 + 1
        /\ \A i \in 1..1 : s2[i] = <<a>>[i]
        /\ \A i \in 1..1 : s2[1 + i] = <<b>>[i]
    BY <2>1, Joined
  <2>3. 1 \in 1..1 /\ 1 + 1 = 2 /\ 2 + 1 = 3 /\ 1 \in 1..2 /\ 2 \in 1..2
    OBVIOUS
  <2> HIDE DEF s2
  <2>4. Len(s2) = 2 /\ s2[1] = a /\ s2[2] = b
    BY <2>1, <2>2, <2>3
  <2>5. /\ IsSeq(s) /\ Len(s) = Len(s2) + Len(<<c>>)
        /\ \A i \in 1..Len(s2) : s[i] = s2[i]
        /\ \A i \in 1..Len(<<c>>) : s[Len(s2) + i] = <<c>>[i]
    <3> DEFINE t == <<c>>
    <3>1. IsSeq(s2) /\ IsSeq(t) /\ Len(s2) \in Nat /\ Len(t) \in Nat
      BY <2>1, <2>2, SeqIs
    <3> HIDE DEF t
    <3>2. /\ IsSeq(s2 \o t) /\ Len(s2 \o t) = Len(s2) + Len(t)
          /\ \A i \in 1..Len(s2) : (s2 \o t)[i] = s2[i]
          /\ \A i \in 1..Len(t) : (s2 \o t)[Len(s2) + i] = t[i]
      BY <3>1, Joined
    <3> QED
      BY <3>2 DEF t
  <2> HIDE DEF s
  <2> QED
    BY <2>1, <2>3, <2>4, <2>5
<1> HIDE DEF s
<1>14. \A x \in {Plain(Gauge), <<Gauge, "cut">>} : Told(s, 3, x, W)
  <2>1. 1 \in 1..(3 - 1)
    OBVIOUS
  <2>2. Plain(Gauge) # Plain(Counter)
    BY NamesApart
  <2>3. Told(s, 3, Plain(Gauge), W)
    BY <1>6, <1>13, <2>1, <2>2 DEF Told
  <2>4. Told(s, 3, <<Gauge, "cut">>, W)
    BY NamesApart, Untold
  <2> QED
    BY <2>3, <2>4
<1>15. \A i \in 1..3 : i = 1 \/ i = 2 \/ i = 3
  OBVIOUS
<1>16. ASSUME NEW i \in 1..3
       PROVE  /\ OfPage(s[i], W) /\ ShownAs(s[i], W) /\ ~IsSample(s[i], Bucket)
              /\ s[i].kind = "sample" => Told(s, i, s[i].name, W)
  <2>1. CASE i = 1
    BY <1>6, <1>10, <1>13, <2>1
  <2>2. CASE i = 2
    BY <1>7, <1>11, <1>13, <2>2
  <2>3. CASE i = 3
    BY <1>12, <1>13, <1>14, <2>3
  <2> QED
    BY <1>15, <2>1, <2>2, <2>3
<1>17. Showing(s, W) /\ Settled(s, W)
  BY <1>13, <1>16, ShownInFull, Unsettled
<1>18. text = "plain" => Has(s, Plain(Gauge))
  <2>1. 3 \in 1..3
    OBVIOUS
  <2> QED
    BY <1>12, <1>13, <2>1 DEF Has
<1> QED
  BY <1>5, <1>17, <1>18 DEF m, W

\* What it says of its histogram.
LEMMA LatencyShows ==
  ASSUME Holds
  PROVE  LET lines == MetricLines(Latency, Registry[Latency])
         IN  /\ Showing(lines, Registry) /\ Settled(lines, Registry)
             /\ \A x \in {Bucket, SumOf, NumOf} : Has(lines, x)
<1> DEFINE W == Registry
           m == W[Latency]
           type == TypeLine(Latency, m.type)
           label(i) == m.labels \o <<ToString(Written(m.bounds[i]))>>
           bucket(i) == Sample(<<Latency, "_bucket">>, label(i), m.counts[i])
           buckets == [i \in DOMAIN m.bounds |-> bucket(i)]
           inf == m.labels \o <<"+Inf">>
           last == Sample(<<Latency, "_bucket">>, inf, m.count)
           sums == Sample(<<Latency, "_sum">>, m.labels, Written(m.sum))
           number == Sample(<<Latency, "_count">>, m.labels, m.count)
           three == <<last, sums, number>>
           rows == buckets \o three
           s == <<type>> \o rows
<1>1. /\ m.bounds = Bounds /\ m.counts = counts /\ m.sum = sum /\ m.count = count
      /\ m.type = "histogram" /\ m.help = "" /\ m.labels = <<>>
  BY RegistryIs
<1>2. W[Latency] = m
  OBVIOUS
<1> HIDE DEF W, m
<1>3. inf = <<"+Inf">>
  <2>1. IsSeq(<<"+Inf">>)
    BY Single
  <2> QED
    BY <1>1, <2>1, NothingBefore
<1>4. /\ Image(W)[Bucket].labels = inf /\ Image(W)[Bucket].value = m.count
      /\ Image(W)[SumOf].labels = m.labels /\ Image(W)[SumOf].value = Written(m.sum)
      /\ Image(W)[NumOf].labels = m.labels /\ Image(W)[NumOf].value = m.count
  <2> DEFINE image == Image(W)
             i1 == image[Bucket]
             i2 == image[SumOf]
             i3 == image[NumOf]
  <2>1. /\ i1 = [type |-> "gauge", help |-> "", labels |-> <<"+Inf">>, value |-> m.count]
        /\ i2 = [type |-> "gauge", help |-> "", labels |-> <<>>, value |-> Written(m.sum)]
        /\ i3 = [type |-> "gauge", help |-> "", labels |-> <<>>, value |-> m.count]
    BY <1>2, ImageIs
  <2> HIDE DEF i1, i2, i3
  <2>2. /\ i1.labels = <<"+Inf">> /\ i1.value = m.count
        /\ i2.labels = <<>> /\ i2.value = Written(m.sum)
        /\ i3.labels = <<>> /\ i3.value = m.count
    BY <2>1
  <2> HIDE DEF inf
  <2> QED
    BY <1>1, <1>3, <2>2 DEF i1, i2, i3
<1>5. MetricLines(Latency, m) = s
  <2>1. Metadata(Latency, m) = <<>> \o <<type>>
    BY <1>1 DEF Metadata
  <2>2. <<>> \o <<type>> = <<type>>
    <3> HIDE DEF type
    <3> QED
      BY Single, NothingBefore
  <2>3. HistogramLines(Latency, m) = rows
    BY DEF HistogramLines
  <2> HIDE DEF rows, type
  <2> QED
    BY <1>1, <2>1, <2>2, <2>3 DEF MetricLines
<1>6. count \in Int /\ Written(sum) \in Int /\ \A i \in DOMAIN Bounds : counts[i] \in Int
  BY WrittenIsInt DEF Holds, HistogramInv
<1>7. Showing(<<type>>, W) /\ Settled(<<type>>, W) /\ IsSeq(<<type>>)
  <2>1. type.kind = "type" /\ type.name = Plain(Latency)
    BY DEF TypeLine
  <2> HIDE DEF type
  <2>2. OfPage(type, W) /\ ShownAs(type, W) /\ ~IsSample(type, Bucket)
    BY <2>1, NamesApart DEF OfPage, ShownAs, IsSample
  <2>3. IsSeq(<<type>>) /\ Len(<<type>>) = 1 /\ <<type>>[1] = type
    BY Single
  <2> QED
    BY <2>1, <2>2, <2>3, ShownInFull, Unsettled
<1> HIDE DEF label, inf
<1>8. \A i \in DOMAIN Bounds : OfPage(bucket(i), W) /\ ShownAs(bucket(i), W) /\ IsSample(bucket(i), Bucket)
  <2> SUFFICES ASSUME NEW i \in DOMAIN Bounds
               PROVE  OfPage(bucket(i), W) /\ ShownAs(bucket(i), W) /\ IsSample(bucket(i), Bucket)
    OBVIOUS
  <2>1. m.counts[i] \in Range(W[Latency].counts) /\ m.counts[i] \in Int
    <3>1. counts[i] \in Range(counts)
      BY DEF Range, Holds, HistogramInv
    <3> QED
      BY <1>1, <1>2, <1>6, <3>1
  <2>2. Bucket \in {Bucket, SumOf, NumOf} /\ <<Latency, "_bucket">> = Bucket
    BY DEF Bucket
  <2> QED
    BY <2>1, <2>2, SampleShows
<1>9. /\ OfPage(last, W) /\ ShownAs(last, W) /\ IsSample(last, Bucket)
      /\ last.labels = inf /\ last.value = m.count
  <2>1. Bucket \in {Bucket, SumOf, NumOf} /\ last = Sample(Bucket, inf, m.count)
    BY DEF Bucket
  <2>2. m.count \in Int /\ inf = Image(W)[Bucket].labels /\ m.count = Image(W)[Bucket].value
    BY <1>1, <1>4, <1>6
  <2> HIDE DEF last
  <2>3. /\ OfPage(Sample(Bucket, inf, m.count), W) /\ ShownAs(Sample(Bucket, inf, m.count), W)
        /\ IsSample(Sample(Bucket, inf, m.count), Bucket)
        /\ Sample(Bucket, inf, m.count).labels = inf /\ Sample(Bucket, inf, m.count).value = m.count
    BY <2>1, <2>2, SampleShows
  <2> QED
    BY <2>1, <2>3
<1>10. OfPage(sums, W) /\ ShownAs(sums, W) /\ IsSample(sums, SumOf)
  <2>1. SumOf \in {Bucket, SumOf, NumOf} /\ <<Latency, "_sum">> = SumOf
    BY DEF SumOf
  <2> QED
    BY <1>1, <1>4, <1>6, <2>1, SampleShows
<1>11. OfPage(number, W) /\ ShownAs(number, W) /\ IsSample(number, NumOf)
  <2>1. NumOf \in {Bucket, SumOf, NumOf} /\ <<Latency, "_count">> = NumOf
    BY DEF NumOf
  <2> QED
    BY <1>1, <1>4, <1>6, <2>1, SampleShows
<1> HIDE DEF bucket, last, sums, number, type
<1>12. Bucket # SumOf /\ Bucket # NumOf
  BY DEF Bucket, SumOf, NumOf
<1>13. \A x \in {Bucket, SumOf, NumOf} : \A lines, i : Told(lines, i, x, W)
  BY NamesApart, Untold
<1>14. IsLastBucket(last, W)
  BY <1>2, <1>4, <1>9 DEF IsLastBucket
<1>15. /\ IsSeq(buckets) /\ Len(buckets) = Len(Bounds)
       /\ \A i \in 1..Len(Bounds) : buckets[i] = bucket(i) /\ i \in DOMAIN Bounds
  <2>1. Len(Bounds) \in Nat /\ DOMAIN Bounds = 1..Len(Bounds)
    BY BoundsInOrder
  <2>2. buckets \in [1..Len(Bounds) -> {bucket(i) : i \in 1..Len(Bounds)}]
    BY <1>1, <2>1
  <2>3. \A i \in 1..Len(Bounds) : buckets[i] = bucket(i) /\ i \in DOMAIN Bounds
    BY <1>1, <2>1
  <2> HIDE DEF buckets
  <2> QED
    BY <2>1, <2>2, <2>3, FunctionIsSeq
<1> HIDE DEF buckets
<1>16. Showing(buckets, W)
  <2>1. \A i \in 1..Len(buckets) :
          /\ OfPage(buckets[i], W) /\ ShownAs(buckets[i], W)
          /\ buckets[i].kind = "sample" => Told(buckets, i, buckets[i].name, W)
    BY <1>8, <1>13, <1>15 DEF IsSample
  <2> QED
    BY <1>15, <2>1, ShownInFull
<1>17. IsSeq(three) /\ Len(three) = 3 /\ three[1] = last /\ three[2] = sums /\ three[3] = number
  <2>1. three \in Seq({last, sums, number}) /\ Len(three) = 3
    OBVIOUS
  <2> QED
    BY <2>1, SeqOfIsSeq
<1> HIDE DEF three
<1>18. \A i \in 1..3 : i = 1 \/ i = 2 \/ i = 3
  OBVIOUS
<1>19. Showing(three, W)
  <2>1. \A i \in 1..3 : /\ OfPage(three[i], W) /\ ShownAs(three[i], W)
                         /\ three[i].name \in {Bucket, SumOf, NumOf}
    BY <1>9, <1>10, <1>11, <1>17, <1>18 DEF IsSample
  <2> QED
    BY <1>13, <1>17, <2>1, ShownInFull
<1>20. /\ IsSeq(rows) /\ Len(rows) = Len(Bounds) + 3
       /\ \A i \in 1..3 : rows[Len(Bounds) + i] = three[i]
  <2>1. /\ IsSeq(rows) /\ Len(rows) = Len(buckets) + Len(three)
        /\ \A i \in 1..Len(three) : rows[Len(buckets) + i] = three[i]
    <3>1. IsSeq(buckets) /\ IsSeq(three) /\ Len(buckets) \in Nat /\ Len(three) \in Nat
      BY <1>15, <1>17, SeqIs
    <3> QED
      BY <3>1, Joined
  <2> HIDE DEF rows
  <2> QED
    BY <1>15, <1>17, <2>1
<1>21. Showing(rows, W)
  BY <1>16, <1>19, ShownJoined
<1> HIDE DEF rows
<1>22. Len(Bounds) \in Nat
  BY BoundsInOrder
<1>23. /\ Len(Bounds) + 1 \in 1..Len(rows) /\ rows[Len(Bounds) + 1] = last
       /\ Len(Bounds) + 2 \in 1..Len(rows) /\ rows[Len(Bounds) + 2] = sums
       /\ Len(Bounds) + 3 \in 1..Len(rows) /\ rows[Len(Bounds) + 3] = number
  <2>1. 1 \in 1..3 /\ 2 \in 1..3 /\ 3 \in 1..3
    OBVIOUS
  <2> QED
    BY <1>17, <1>20, <1>22, <2>1
<1>24. Settled(rows, W)
  <2> SUFFICES ASSUME NEW i \in 1..Len(rows), IsSample(rows[i], Bucket)
               PROVE  \E j \in i..Len(rows) : IsLastBucket(rows[j], W)
    BY DEF Settled
  <2>1. i # Len(Bounds) + 2 /\ i # Len(Bounds) + 3
    BY <1>10, <1>11, <1>12, <1>23 DEF IsSample
  <2>2. Len(Bounds) + 1 \in i..Len(rows)
    BY <1>20, <1>22, <2>1
  <2> QED
    BY <1>14, <1>23, <2>2
<1>25. \A x \in {Bucket, SumOf, NumOf} : Has(rows, x)
  BY <1>9, <1>10, <1>11, <1>23 DEF Has
<1>26. Showing(s, W) /\ Settled(s, W) /\ \A x \in {Bucket, SumOf, NumOf} : Has(s, x)
  BY <1>7, <1>20, <1>21, <1>24, <1>25, ShownJoined, PartsJoined
<1> HIDE DEF s
<1> QED
  BY <1>5, <1>26 DEF m, W

\* The whole page of a registry, which says everything of it that can be read.
PageIs(page, W) ==
  /\ Showing(page, W) /\ Settled(page, W)
  /\ W[Gauge].text = "plain" => \A x \in DOMAIN Image(W) : Has(page, x)

LEMMA RenderShows ==
  ASSUME Holds
  PROVE  PageIs(Render(Registry), Registry)
<1> DEFINE W == Registry
           Names == {Counter, Latency, Gauge}
           names == InOrder(DOMAIN W)
           seqs == [i \in DOMAIN names |-> MetricLines(names[i], W[names[i]])]
           c == MetricLines(Counter, W[Counter])
           h == MetricLines(Latency, W[Latency])
           g == MetricLines(Gauge, W[Gauge])
<1>1. DOMAIN W = Names
  BY DEF Registry
<1>2. Names \in SUBSET Int /\ IsFiniteSet(Names) /\ Cardinality(Names) = 3
  <2>1. Names = 1..3 /\ 3 \in Nat
    BY DEF Counter, Latency, Gauge
  <2>2. \A n \in Nat : IsFiniteSet(1..n) /\ Cardinality(1..n) = n
    BY FS_Interval
  <2>3. IsFiniteSet(1..3) /\ Cardinality(1..3) = 3
    BY <2>2
  <2> QED
    BY <2>1, <2>3
<1>3. Increasing(names, Names)
  BY <1>1, <1>2, InOrderIs
<1>4. Render(W) = FlattenSeq(seqs)
  BY DEF Render
<1>5. W[Gauge].text = text
  BY RegistryIs
<1>6. /\ Showing(c, W) /\ Settled(c, W) /\ Has(c, Plain(Counter))
      /\ Showing(h, W) /\ Settled(h, W) /\ \A x \in {Bucket, SumOf, NumOf} : Has(h, x)
      /\ Showing(g, W) /\ Settled(g, W) /\ (text = "plain" => Has(g, Plain(Gauge)))
  BY CounterShows, LatencyShows, GaugeShows
<1> HIDE DEF names, W
<1>7. names \in [1..3 -> Names] /\ \A i, j \in 1..3 : i < j => names[i] < names[j]
  BY <1>2, <1>3 DEF Increasing
<1>8. DOMAIN names = 1..3 /\ names[1] = Counter /\ names[2] = Latency /\ names[3] = Gauge
  <2>1. 1 \in 1..3 /\ 2 \in 1..3 /\ 3 \in 1..3
    OBVIOUS
  <2>2. names[1] < names[2] /\ names[2] < names[3]
    BY <1>7, <2>1
  <2>3. names[1] \in {1, 2, 3} /\ names[2] \in {1, 2, 3} /\ names[3] \in {1, 2, 3}
    BY <1>7, <2>1 DEF Counter, Latency, Gauge
  <2> QED
    BY <1>7, <2>2, <2>3 DEF Counter, Latency, Gauge
<1>9. DOMAIN seqs = 1..3 /\ Len(seqs) = 3 /\ seqs[1] = c /\ seqs[2] = h /\ seqs[3] = g
  <2>1. 1 \in 1..3 /\ 2 \in 1..3 /\ 3 \in 1..3
    OBVIOUS
  <2> HIDE DEF Names
  <2>2. DOMAIN seqs = 1..3 /\ Len(seqs) = 3
    BY <1>8
  <2> QED
    BY <1>8, <2>1, <2>2
<1> HIDE DEF seqs, c, h, g
<1>10. FlattenSeq(seqs) = (c \o h) \o g
  BY <1>9, FlattenedThree
<1> DEFINE ch == c \o h
           page == ch \o g
<1>11. IsSeq(c) /\ IsSeq(h) /\ IsSeq(g)
  BY <1>6 DEF Showing, GoodPage
<1>12. IsSeq(ch) /\ Showing(ch, W)
  BY <1>6, <1>11, ShownJoined, Joined
<1>13. Settled(ch, W) /\ \A x : Has(c, x) \/ Has(h, x) => Has(ch, x)
  BY <1>6, <1>11, PartsJoined
<1> HIDE DEF ch
<1>14. Showing(page, W)
  BY <1>6, <1>12, ShownJoined
<1>15. Settled(page, W) /\ \A x : Has(ch, x) \/ Has(g, x) => Has(page, x)
  BY <1>6, <1>11, <1>12, <1>13, PartsJoined
<1> HIDE DEF page
<1>16. DOMAIN Image(W) = {Plain(Counter), Plain(Gauge), Bucket, SumOf, NumOf}
  BY ImageIs
<1>17. W[Gauge].text = "plain" => \A x \in DOMAIN Image(W) : Has(page, x)
  BY <1>5, <1>6, <1>13, <1>15, <1>16
<1>18. Render(W) = page
  BY <1>4, <1>10 DEF page, ch
<1> QED
  BY <1>14, <1>15, <1>17, <1>18 DEF PageIs, W

-----------------------------------------------------------------------------
(* The response, and what has been read of it. *)

\* The headers end with line b, and the page follows.
Carries(r, b, page) ==
  /\ IsSeq(r) /\ IsSeq(page) /\ b \in Nat /\ 2 <= b /\ Len(r) = b + Len(page)
  /\ r[1].kind = "status"
  /\ \A i \in 2..(b - 1) : r[i].kind = "header"
  /\ r[b] = Comment
  /\ \A i \in 1..Len(page) : r[b + i] = page[i]

LEMMA ResponseCarries ==
  ASSUME NEW status, status.kind = "status", NEW headers, IsSeq(headers),
         \A i \in 1..Len(headers) : headers[i].kind = "header",
         NEW page, IsSeq(page)
  PROVE  LET r == <<status>> \o headers \o <<Comment>> \o page
         IN  Carries(r, Len(headers) + 2, page) /\ r[1] = status
<1> DEFINE h == Len(headers)
           r1 == <<status>> \o headers
           r2 == r1 \o <<Comment>>
           r == r2 \o page
<1>1. h \in Nat /\ Len(page) \in Nat
  BY SeqIs
<1>2. /\ IsSeq(<<status>>) /\ Len(<<status>>) = 1 /\ <<status>>[1] = status
      /\ IsSeq(<<Comment>>) /\ Len(<<Comment>>) = 1 /\ <<Comment>>[1] = Comment
  BY Single
<1> HIDE DEF h
<1>3. /\ IsSeq(r1) /\ Len(r1) = 1 + h /\ \A i \in 1..h : r1[1 + i] = headers[i]
      /\ r1[1] = status
  <2>1. /\ IsSeq(r1) /\ Len(r1) = 1 + h /\ \A i \in 1..h : r1[1 + i] = headers[i]
        /\ \A i \in 1..1 : r1[i] = <<status>>[i]
    BY <1>2, Joined DEF h
  <2>2. 1 \in 1..1
    OBVIOUS
  <2> HIDE DEF r1
  <2> QED
    BY <1>2, <2>1, <2>2
<1> HIDE DEF r1
<1>4. /\ IsSeq(r2) /\ Len(r2) = 1 + h + 1 /\ r2[1 + h + 1] = Comment
      /\ \A i \in 1..(1 + h) : r2[i] = r1[i]
  <2>1. /\ IsSeq(r2) /\ Len(r2) = Len(r1) + 1
        /\ \A i \in 1..Len(r1) : r2[i] = r1[i]
        /\ \A i \in 1..1 : r2[Len(r1) + i] = <<Comment>>[i]
    BY <1>2, <1>3, Joined
  <2>2. 1 \in 1..1
    OBVIOUS
  <2> HIDE DEF r2
  <2> QED
    BY <1>2, <1>3, <2>1, <2>2
<1> HIDE DEF r2
<1>5. /\ IsSeq(r) /\ Len(r) = (h + 2) + Len(page)
      /\ \A i \in 1..(h + 2) : r[i] = r2[i]
      /\ \A i \in 1..Len(page) : r[(h + 2) + i] = page[i]
  <2>1. Len(r2) = h + 2
    BY <1>1, <1>4
  <2> QED
    BY <1>1, <1>4, <2>1, Joined
<1> HIDE DEF r
<1>6. h + 2 \in Nat /\ 2 <= h + 2 /\ r[h + 2] = Comment /\ r[1] = status
  <2>1. h + 2 \in 1..(h + 2) /\ h + 2 = 1 + h + 1 /\ 1 \in 1..(h + 2) /\ 1 \in 1..(1 + h)
    BY <1>1
  <2>2. h + 2 \in Nat /\ 2 <= h + 2
    BY <1>1
  <2> QED
    BY <1>3, <1>4, <1>5, <2>1, <2>2
<1>7. ASSUME NEW i \in 2..((h + 2) - 1) PROVE r[i].kind = "header"
  <2>1. i - 1 \in 1..h /\ 1 + (i - 1) = i /\ i \in 1..(1 + h) /\ i \in 1..(h + 2)
    BY <1>1
  <2>2. r1[1 + (i - 1)] = headers[i - 1]
    BY <1>3, <2>1
  <2>3. r[i] = headers[i - 1]
    BY <1>4, <1>5, <2>1, <2>2
  <2> QED
    BY <2>1, <2>3 DEF h
<1>8. Carries(r, h + 2, page)
  BY <1>5, <1>6, <1>7 DEF Carries
<1> QED
  BY <1>6, <1>8 DEF h, r, r2, r1

\* What a header line that comes late is to the parser.
OfHeader(line) == line.kind \in {"junk", "comment"} \/ line = Sample(<<0, "header">>, <<>>, 5)

LEMMA ReadingsAre ==
  ASSUME NEW line, NEW r \in Readings(line)
  PROVE  /\ line.kind # "header" => r = line
         /\ line.kind = "header" => OfHeader(r)
<1> DEFINE s == Sample(<<0, "header">>, <<>>, 5)
<1>1. CASE line.kind # "header"
  <2>1. Readings(line) = {line}
    BY <1>1 DEF Readings
  <2> QED
    BY <1>1, <2>1
<1>2. CASE line.kind = "header"
  <2>1. Readings(line) \subseteq {Junk, Comment, s}
    BY <1>2 DEF Readings
  <2>2. Junk.kind = "junk" /\ Comment.kind = "comment"
    BY DEF Junk, Comment
  <2> HIDE DEF s
  <2>3. r = s \/ r.kind \in {"junk", "comment"}
    BY <2>1, <2>2
  <2> QED
    BY <1>2, <2>3 DEF OfHeader, s
<1> QED
  BY <1>1, <1>2

\* The sample s shows what line shows, or less of its number.
CutOf(s, line) ==
  /\ s.kind = "sample" /\ s.name = line.name /\ s.labels = line.labels
  /\ DOMAIN s = {"kind", "name", "labels", "value"}
  /\ s.value \in {line.value, line.value \div 10}

\* What the first half of a line is to the parser.
LEMMA TornReadingsAre ==
  ASSUME NEW line, NEW r \in TornReadings(line),
         line.kind = "sample" => DOMAIN line = {"kind", "name", "labels", "value"}
  PROVE  /\ line.kind = "header" => OfHeader(r)
         /\ line.kind = "sample" => r.kind = "junk" \/ CutOf(r, line)
         /\ line.kind \notin {"header", "sample"} => r.kind \in {"junk", "comment"}
<1>1. Junk.kind = "junk" /\ Comment.kind = "comment"
  BY DEF Junk, Comment
<1>2. CASE line.kind = "sample"
  <2> DEFINE cut == [line EXCEPT !.value = line.value \div 10]
  <2>1. TornReadings(line) \subseteq {Junk, line, cut}
    BY <1>2 DEF TornReadings
  <2>2. CutOf(cut, line)
    <3>1. /\ cut.kind = "sample" /\ cut.name = line.name /\ cut.value = line.value \div 10
          /\ cut.labels = line.labels /\ DOMAIN cut = {"kind", "name", "labels", "value"}
      BY <1>2
    <3> HIDE DEF cut
    <3> QED
      BY <3>1 DEF CutOf
  <2>3. CutOf(line, line)
    BY <1>2 DEF CutOf
  <2> HIDE DEF cut
  <2> QED
    BY <1>1, <1>2, <2>1, <2>2, <2>3
<1>3. CASE line.kind = "header"
  <2>1. TornReadings(line) = Readings(line)
    BY <1>3 DEF TornReadings
  <2> QED
    BY <1>3, <2>1, ReadingsAre
<1>4. CASE line.kind \notin {"sample", "header"}
  <2>1. TornReadings(line) \subseteq {Junk, Comment}
    BY <1>4 DEF TornReadings
  <2> QED
    BY <1>1, <1>4, <2>1
<1> QED
  BY <1>2, <1>3, <1>4

LEMMA ExtendedIs ==
  ASSUME NEW bodies, NEW readings, NEW y \in Extended(bodies, readings)
  PROVE  \E x \in bodies, r \in readings : y = Append(x, r)
BY DEF Extended

Bodied == INSTANCE FoldFacts WITH Op <- Extended

\* One reading of each of k lines.
ReadingEach(body, rs, k) ==
  IsSeq(body) /\ Len(body) = k /\ \A i \in 1..k : body[i] \in rs[i]

LEMMA BodiesReadEach ==
  ASSUME NEW rs, IsSeq(rs), NEW body \in FoldLeft(Extended, {<<>>}, rs)
  PROVE  ReadingEach(body, rs, Len(rs))
<1> DEFINE base == {<<>>}
           n == Len(rs)
<1>1. Bodied!Folded(base, rs) = FoldLeft(Extended, base, rs)
  BY DEF Bodied!Folded, Bodied!FoldLeft, Bodied!MapThenFoldSet, Bodied!Max,
         FoldLeft, MapThenFoldSet, Max
<1>2. n \in Nat /\ DOMAIN rs = 1..n
  BY SeqIs
<1> HIDE DEF base, n
<1>3. PICK st : /\ DOMAIN st = 0..n
                /\ st[0] = base
                /\ \A k \in 1..n : st[k] = Extended(st[k - 1], rs[k])
                /\ st[n] = Bodied!Folded(base, rs)
  BY <1>2, Bodied!InTurn, Zenon
<1> DEFINE T == {k \in 0..n : \A x \in st[k] : ReadingEach(x, rs, k)}
<1>4. 0 \in T
  <2>1. <<>> \in Seq({}) /\ Len(<<>>) = 0 /\ 1..0 = {}
    OBVIOUS
  <2>2. ReadingEach(<<>>, rs, 0)
    BY <2>1, SeqOfIsSeq DEF ReadingEach
  <2>3. \A x \in base : ReadingEach(x, rs, 0)
    BY <2>2 DEF base
  <2> QED
    BY <1>2, <1>3, <2>3
<1>5. \A k \in 0..(n - 1) : k \in T => k + 1 \in T
  <2> SUFFICES ASSUME NEW k \in 0..(n - 1), \A x \in st[k] : ReadingEach(x, rs, k)
               PROVE  k + 1 \in 0..n /\ \A x \in st[k + 1] : ReadingEach(x, rs, k + 1)
    OBVIOUS
  <2>1. k + 1 \in 1..n /\ k + 1 \in 0..n /\ (k + 1) - 1 = k
    BY <1>2
  <2>2. st[k + 1] = Extended(st[k], rs[k + 1])
    BY <1>3, <2>1
  <2>3. ASSUME NEW x \in st[k], NEW r \in rs[k + 1] PROVE ReadingEach(Append(x, r), rs, k + 1)
    <3>1. ReadingEach(x, rs, k)
      OBVIOUS
    <3>2. /\ IsSeq(Append(x, r)) /\ Len(Append(x, r)) = k + 1
          /\ \A i \in 1..k : Append(x, r)[i] = x[i]
          /\ Append(x, r)[k + 1] = r
      BY <3>1, Appended DEF ReadingEach
    <3>3. \A i \in 1..(k + 1) : i \in 1..k \/ i = k + 1
      OBVIOUS
    <3> QED
      BY <3>1, <3>2, <3>3 DEF ReadingEach
  <2>4. ASSUME NEW y \in st[k + 1] PROVE ReadingEach(y, rs, k + 1)
    <3>1. y \in Extended(st[k], rs[k + 1])
      BY <2>2
    <3>2. PICK x \in st[k], r \in rs[k + 1] : y = Append(x, r)
      BY <3>1, ExtendedIs
    <3>3. ReadingEach(Append(x, r), rs, k + 1)
      BY <2>3
    <3> QED
      BY <3>2, <3>3
  <2> QED
    BY <2>1, <2>4
<1>6. n \in T
  <2>1. n \in 0..n
    BY <1>2
  <2> HIDE DEF T
  <2> QED
    BY <1>2, <1>4, <1>5, <2>1, Bodied!Steps
<1> QED
  BY <1>1, <1>3, <1>6 DEF base, n

\* A body has the lines that have been read behind position from, and perhaps
\* the first half of one more.
LEMMA BodyReads ==
  ASSUME NEW f \in Nat, NEW p \in Nat, f = from \div 2, p = position \div 2, f <= p,
         NEW body \in Bodies
  PROVE  /\ IsSeq(body)
         /\ Len(body) = IF InALine THEN (p - f) + 1 ELSE p - f
         /\ \A i \in 1..(p - f) : body[i] \in Readings(resp[f + i])
         /\ InALine => body[(p - f) + 1] \in TornReadings(resp[p + 1])
<1> DEFINE d == p - f
           whole == [i \in 1..d |-> Readings(resp[f + i])]
           torn == IF InALine THEN <<TornReadings(TornLine)>> ELSE <<>>
           rs == whole \o torn
<1>1. BodyReadings = rs /\ TornLine = resp[p + 1]
  BY DEF BodyReadings, TornLine
<1>2. d \in Nat
  OBVIOUS
<1>3. d = p - f
  OBVIOUS
<1> HIDE DEF d
<1>4. /\ IsSeq(whole) /\ Len(whole) = d
      /\ \A i \in 1..d : whole[i] = Readings(resp[f + i])
  <2>1. whole \in [1..d -> {Readings(resp[f + i]) : i \in 1..d}]
    OBVIOUS
  <2> QED
    BY <1>2, <2>1, FunctionIsSeq
<1> HIDE DEF whole
<1>5. body \in FoldLeft(Extended, {<<>>}, rs)
  BY <1>1 DEF Bodies
<1>6. CASE InALine
  <2> DEFINE one == TornReadings(TornLine)
  <2>1. torn = <<one>>
    BY <1>6
  <2> HIDE DEF torn, one
  <2>2. IsSeq(torn) /\ Len(torn) = 1 /\ torn[1] = one
    BY <2>1, Single
  <2>3. /\ IsSeq(rs) /\ Len(rs) = d + 1
        /\ \A i \in 1..d : rs[i] = whole[i]
        /\ \A i \in 1..1 : rs[d + i] = torn[i]
    <3>1. /\ IsSeq(rs) /\ Len(rs) = Len(whole) + Len(torn)
          /\ \A i \in 1..Len(whole) : rs[i] = whole[i]
          /\ \A i \in 1..Len(torn) : rs[Len(whole) + i] = torn[i]
      <4>1. IsSeq(whole) /\ IsSeq(torn)
        BY <1>4, <2>2
      <4> QED
        BY <4>1, Joined
    <3> HIDE DEF rs
    <3> QED
      BY <1>2, <1>4, <2>2, <3>1
  <2> HIDE DEF rs
  <2>4. ReadingEach(body, rs, d + 1)
    BY <1>5, <2>3, BodiesReadEach
  <2>5. 1 \in 1..1 /\ d + 1 \in 1..(d + 1) /\ \A i \in 1..d : i \in 1..(d + 1)
    BY <1>2
  <2>6. rs[d + 1] = one
    BY <2>2, <2>3, <2>5
  <2>7. /\ IsSeq(body) /\ Len(body) = d + 1 /\ body[d + 1] \in one
        /\ \A i \in 1..d : body[i] \in Readings(resp[f + i])
    BY <1>4, <2>3, <2>4, <2>5, <2>6 DEF ReadingEach
  <2> QED
    BY <1>1, <1>3, <1>6, <2>7 DEF one
<1>7. CASE ~InALine
  <2>1. <<>> \in Seq({}) /\ Len(<<>>) = 0 /\ torn = <<>>
    BY <1>7
  <2> HIDE DEF torn
  <2>2. IsSeq(torn) /\ Len(torn) = 0
    BY <2>1, SeqOfIsSeq
  <2>3. /\ IsSeq(rs) /\ Len(rs) = d
        /\ \A i \in 1..d : rs[i] = whole[i]
    <3>1. /\ IsSeq(rs) /\ Len(rs) = Len(whole) + Len(torn)
          /\ \A i \in 1..Len(whole) : rs[i] = whole[i]
      <4>1. IsSeq(whole) /\ IsSeq(torn)
        BY <1>4, <2>2
      <4> QED
        BY <4>1, Joined
    <3> HIDE DEF rs
    <3> QED
      BY <1>2, <1>4, <2>2, <3>1
  <2> HIDE DEF rs
  <2>4. ReadingEach(body, rs, d)
    BY <1>5, <2>3, BodiesReadEach
  <2>5. /\ IsSeq(body) /\ Len(body) = d
        /\ \A i \in 1..d : body[i] \in Readings(resp[f + i])
    BY <1>4, <2>3, <2>4 DEF ReadingEach
  <2> QED
    BY <1>3, <1>7, <2>5
<1> QED
  BY <1>6, <1>7

\* Where a sample of a body comes from.
Comes(line, W, late) ==
  \/ line.name = <<0, "header">> /\ late
  \/ CutIn(line.name) /\ (line.name = Scraped => line.value <= Image(W)[Scraped].value)
  \/ ShownAs(line, W)

\* The line that is read as sample x is a header line, or a sample x of the page.
From(b, page, k, x) ==
  \/ k < b /\ x = <<0, "header">>
  \/ k > b /\ IsSample(page[k - b], x)

LEMMA HeaderReads ==
  ASSUME NEW W, NEW r, OfHeader(r), NEW b \in Nat, NEW k \in Nat, k < b, NEW page
  PROVE  /\ OfPage(r, W)
         /\ r.kind = "sample" => Comes(r, W, k < b) /\ From(b, page, k, r.name)
<1>1. CASE r.kind \in {"junk", "comment"}
  BY <1>1 DEF OfPage
<1>2. CASE r = Sample(<<0, "header">>, <<>>, 5)
  <2>1. /\ r.kind = "sample" /\ r.name = <<0, "header">> /\ r.value = 5
        /\ DOMAIN r = {"kind", "name", "labels", "value"}
    BY <1>2 DEF Sample
  <2>2. <<0, "header">> \in SampleNames /\ <<0, "header">> # Plain(Counter)
    BY NamesApart DEF SampleNames
  <2>3. OfPage(r, W)
    BY <2>1, <2>2 DEF OfPage
  <2> QED
    BY <2>1, <2>3 DEF Comes, From
<1> QED
  BY <1>1, <1>2 DEF OfHeader

\* A line of a response, read as a whole.
LEMMA WholeLine ==
  ASSUME NEW W, NEW b, NEW page, Carries(resp, b, page), PageIs(page, W),
         NEW k \in 2..Len(resp), NEW r \in Readings(resp[k])
  PROVE  /\ OfPage(r, W)
         /\ r.kind = "sample" => Comes(r, W, k < b) /\ From(b, page, k, r.name)
         /\ k > b => r = page[k - b]
<1>1. b \in Nat /\ Len(page) \in Nat /\ Len(resp) = b + Len(page)
  BY SeqIs DEF Carries
<1>2. CASE k < b
  <2>1. k \in 2..(b - 1) /\ k \in Nat
    BY <1>1, <1>2
  <2>2. resp[k].kind = "header"
    BY <2>1 DEF Carries
  <2>3. OfHeader(r)
    BY <2>2, ReadingsAre
  <2>4. ~(k > b)
    BY <1>1, <2>1
  <2>5. OfPage(r, W) /\ (r.kind = "sample" => Comes(r, W, k < b) /\ From(b, page, k, r.name))
    BY <1>1, <1>2, <2>1, <2>3, HeaderReads
  <2> QED
    BY <2>4, <2>5
<1>3. CASE k = b
  <2>1. resp[k].kind = "comment"
    BY <1>3 DEF Carries, Comment
  <2>2. r.kind = "comment"
    BY <2>1, ReadingsAre
  <2> QED
    BY <1>1, <1>3, <2>2 DEF OfPage
<1>4. CASE k > b
  <2>1. k - b \in 1..Len(page) /\ b + (k - b) = k
    BY <1>1, <1>4
  <2>2. resp[k] = page[k - b]
    BY <2>1 DEF Carries
  <2>3. OfPage(page[k - b], W) /\ ShownAs(page[k - b], W)
    BY <2>1 DEF PageIs, Showing, GoodPage
  <2>4. page[k - b].kind # "header"
    BY <2>3 DEF OfPage
  <2>5. r = page[k - b]
    BY <2>2, <2>4, ReadingsAre
  <2> QED
    BY <1>4, <2>3, <2>5 DEF Comes, From, IsSample
<1> QED
  BY <1>1, <1>2, <1>3, <1>4

\* The line that the body breaks off in.
LEMMA TornLineReads ==
  ASSUME NEW W, NEW b, NEW page, Carries(resp, b, page), PageIs(page, W),
         InALine,
         NEW k \in 2..Len(resp), TornLine = resp[k], NEW r \in TornReadings(resp[k])
  PROVE  /\ OfPage(r, W)
         /\ r.kind = "sample" => Comes(r, W, k < b) /\ From(b, page, k, r.name)
<1>1. b \in Nat /\ Len(page) \in Nat /\ Len(resp) = b + Len(page)
  BY SeqIs DEF Carries
<1>2. CASE k < b
  <2>1. k \in 2..(b - 1) /\ k \in Nat
    BY <1>1, <1>2
  <2>2. resp[k].kind = "header"
    BY <2>1 DEF Carries
  <2>3. OfHeader(r)
    BY <2>2, TornReadingsAre
  <2> QED
    BY <1>1, <1>2, <2>1, <2>3, HeaderReads
<1>3. CASE k = b
  <2>1. resp[k].kind = "comment"
    BY <1>3 DEF Carries, Comment
  <2>2. r.kind \in {"junk", "comment"}
    BY <2>1, TornReadingsAre
  <2> QED
    BY <2>2 DEF OfPage
<1>4. CASE k > b
  <2> DEFINE line == page[k - b]
  <2>1. k - b \in 1..Len(page) /\ b + (k - b) = k
    BY <1>1, <1>4
  <2>2. resp[k] = line
    BY <2>1 DEF Carries
  <2>3. OfPage(line, W) /\ ShownAs(line, W)
    BY <2>1 DEF PageIs, Showing, GoodPage
  <2> HIDE DEF line
  <2>4. CASE line.kind # "sample"
    <3>1. line.kind # "header"
      BY <2>3 DEF OfPage
    <3>2. r.kind \in {"junk", "comment"}
      BY <2>2, <2>4, <3>1, TornReadingsAre
    <3> QED
      BY <3>2 DEF OfPage
  <2>5. CASE line.kind = "sample"
    <3>1. /\ DOMAIN line = {"kind", "name", "labels", "value"} /\ line.name \in SampleNames
          /\ line.value \in Int /\ (line.name = Plain(Counter) => line.value >= 0)
      BY <2>3, <2>5 DEF OfPage
    <3>2. r.kind = "junk" \/ CutOf(r, line)
      BY <2>2, <2>5, <3>1, TornReadingsAre
    <3>3. CASE r.kind = "junk"
      BY <3>3 DEF OfPage
    <3>4. CASE CutOf(r, line)
      <4>1. /\ r.kind = "sample" /\ r.name = line.name
            /\ DOMAIN r = {"kind", "name", "labels", "value"}
            /\ r.value \in {line.value, line.value \div 10}
        BY <3>4 DEF CutOf
      <4>2. \A v \in Int : v \div 10 \in Int /\ (v >= 0 => v \div 10 >= 0 /\ v \div 10 <= v)
        OBVIOUS
      <4>3. /\ r.value \in Int
            /\ r.name = Plain(Counter) => r.value >= 0 /\ r.value <= line.value
        BY <3>1, <4>1, <4>2
      <4>4. OfPage(r, W)
        BY <3>1, <4>1, <4>3 DEF OfPage
      <4>5. CutIn(r.name)
        BY <2>2, <2>5, <4>1 DEF CutIn
      <4>6. r.name = Scraped => r.value <= Image(W)[Scraped].value
        <5> SUFFICES ASSUME r.name = Scraped PROVE r.value <= Image(W)[Scraped].value
          OBVIOUS
        <5>1. line.name = Plain(Counter)
          BY <4>1 DEF Scraped
        <5>2. line.value = Image(W)[Plain(Counter)].value
          BY <2>3, <2>5, <5>1, NamesApart DEF ShownAs
        <5> QED
          BY <4>1, <4>3, <5>1, <5>2 DEF Scraped
      <4>7. Comes(r, W, k < b)
        BY <4>5, <4>6 DEF Comes
      <4>8. From(b, page, k, r.name)
        BY <1>4, <2>5, <4>1 DEF From, IsSample, line
      <4> QED
        BY <4>4, <4>7, <4>8
    <3> QED
      BY <3>2, <3>3, <3>4
  <2> QED
    BY <2>4, <2>5
<1> QED
  BY <1>1, <1>2, <1>3, <1>4

\* What has been read of a response that shows registry W.
LEMMA BodyShows ==
  ASSUME NEW W, NEW b, NEW page, Carries(resp, b, page), PageIs(page, W),
         from \in Nat, position \in Nat, 2 <= from, from <= position, position <= Total,
         from <= 2 * b, NEW body \in Bodies
  PROVE  /\ GoodPage(body, W)
         /\ \A i \in 1..Len(body) :
              body[i].kind = "sample" => Comes(body[i], W, from # 2 * b)
         /\ position = Total => Settled(body, W)
         /\ position = Total /\ from = 2 * b =>
              Len(body) = Len(page) /\ \A i \in 1..Len(page) : body[i] = page[i]
<1>1. /\ b \in Nat /\ Len(page) \in Nat /\ Len(resp) \in Nat /\ Len(resp) = b + Len(page)
      /\ Total = 2 * Len(resp) /\ 2 <= b
  BY SeqIs DEF Carries, Total
<1> DEFINE f == from \div 2
           p == position \div 2
<1>2. /\ f \in Nat /\ p \in Nat /\ 1 <= f /\ f <= p /\ p <= Len(resp) /\ f <= b
      /\ InALine => p + 1 <= Len(resp)
      /\ from = 2 * b => f = b
      /\ position = Total => p = Len(resp) /\ ~InALine
  BY <1>1 DEF InALine
<1>3. TornLine = resp[p + 1]
  BY DEF TornLine
<1>4. /\ IsSeq(body)
      /\ Len(body) = IF InALine THEN (p - f) + 1 ELSE p - f
      /\ \A i \in 1..(p - f) : body[i] \in Readings(resp[f + i])
      /\ InALine => body[(p - f) + 1] \in TornReadings(resp[p + 1])
  <2>1. f = from \div 2 /\ p = position \div 2
    OBVIOUS
  <2> HIDE DEF f, p
  <2> QED
    BY <1>2, <2>1, BodyReads
<1> HIDE DEF f, p
<1>5. \A i \in 1..(p - f) : f + i \in 2..Len(resp)
  BY <1>1, <1>2
<1>6. ASSUME NEW i \in 1..Len(body)
      PROVE  /\ f + i \in 2..Len(resp) /\ i - 1 <= p - f
             /\ OfPage(body[i], W)
             /\ body[i].kind = "sample" => /\ Comes(body[i], W, f + i < b)
                                           /\ From(b, page, f + i, body[i].name)
  <2>1. CASE i \in 1..(p - f)
    <3>1. f + i \in 2..Len(resp) /\ body[i] \in Readings(resp[f + i]) /\ i - 1 <= p - f
      BY <1>2, <1>4, <1>5, <2>1
    <3> QED
      BY <3>1, WholeLine
  <2>2. CASE i \notin 1..(p - f)
    <3>1. InALine /\ i = (p - f) + 1
      BY <1>2, <1>4, <2>2
    <3>2. f + i = p + 1 /\ f + i \in 2..Len(resp) /\ i - 1 <= p - f
      BY <1>1, <1>2, <3>1
    <3>3. body[i] \in TornReadings(resp[f + i]) /\ TornLine = resp[f + i]
      BY <1>3, <1>4, <3>1, <3>2
    <3> QED
      BY <3>1, <3>2, <3>3, TornLineReads
  <2> QED
    BY <2>1, <2>2
<1>7. ASSUME NEW j \in 1..Len(page), (b + j) - f \in 1..(p - f)
      PROVE  body[(b + j) - f] = page[j]
  <2> DEFINE i == (b + j) - f
  <2>1. f + i = b + j /\ b + j > b /\ (b + j) - b = j /\ i \in 1..(p - f)
    BY <1>1, <1>2, <1>7
  <2> HIDE DEF i
  <2>2. f + i \in 2..Len(resp) /\ body[i] \in Readings(resp[f + i])
    BY <1>4, <1>5, <2>1
  <2>3. body[i] = page[(f + i) - b]
    BY <2>1, <2>2, WholeLine
  <2> QED
    BY <2>1, <2>3 DEF i
<1>8. ASSUME NEW i \in 1..Len(body), body[i].kind = "sample"
      PROVE  Told(body, i, body[i].name, W)
  <2> DEFINE x == body[i].name
             q == (f + i) - b
  <2>1. From(b, page, f + i, x) /\ f + i \in 2..Len(resp) /\ i - 1 <= p - f
    BY <1>6, <1>8
  <2> HIDE DEF x
  <2>2. CASE x = <<0, "header">>
    BY <2>2, NamesApart, Untold DEF x
  <2>3. CASE f + i > b /\ IsSample(page[q], x)
    <3>1. q \in 1..Len(page)
      BY <1>1, <1>2, <2>1, <2>3
    <3>2. Told(page, q, x, W)
      BY <2>3, <3>1 DEF PageIs, Showing, GoodPage, IsSample
    <3>3. ASSUME NEW j \in 1..(q - 1)
          PROVE  (b + j) - f \in 1..(i - 1) /\ body[(b + j) - f] = page[j]
      <4>1. /\ j \in 1..Len(page) /\ (b + j) - f \in 1..(i - 1)
            /\ (b + j) - f \in 1..(p - f)
        BY <1>1, <1>2, <2>1, <3>1
      <4> QED
        BY <1>7, <4>1
    <3> HIDE DEF q
    <3>4. Told(body, i, x, W)
      BY <3>2, <3>3 DEF Told
    <3> QED
      BY <3>4 DEF x
  <2> QED
    BY <2>1, <2>2, <2>3 DEF From
<1>9. GoodPage(body, W)
  BY <1>4, <1>6, <1>8 DEF GoodPage
<1>10. ASSUME NEW i \in 1..Len(body), body[i].kind = "sample"
       PROVE  Comes(body[i], W, from # 2 * b)
  <2>1. f + i < b => from # 2 * b
    BY <1>1, <1>2
  <2>2. Comes(body[i], W, f + i < b)
    BY <1>6, <1>10
  <2> QED
    BY <2>1, <2>2 DEF Comes
<1>11. ASSUME position = Total PROVE Settled(body, W)
  <2>1. p = Len(resp) /\ Len(body) = p - f
    BY <1>2, <1>4, <1>11
  <2> SUFFICES ASSUME NEW i \in 1..Len(body), IsSample(body[i], Bucket)
               PROVE  \E j \in i..Len(body) : IsLastBucket(body[j], W)
    BY DEF Settled
  <2> DEFINE q == (f + i) - b
  <2>2. From(b, page, f + i, Bucket) /\ f + i \in 2..Len(resp)
    BY <1>6 DEF IsSample
  <2>3. Bucket # <<0, "header">>
    BY DEF Bucket, Latency
  <2>4. f + i > b /\ IsSample(page[q], Bucket)
    BY <2>2, <2>3 DEF From
  <2>5. q \in 1..Len(page)
    <3>1. f \in Nat /\ f + i \in 2..(b + Len(page)) /\ f + i > b
      BY <1>1, <1>2, <2>2, <2>4
    <3> HIDE DEF f
    <3> QED
      BY <1>1, <3>1
  <2>6. PICK j \in q..Len(page) : IsLastBucket(page[j], W)
    BY <2>4, <2>5 DEF PageIs, Settled
  <2>7. j \in 1..Len(page) /\ (b + j) - f \in i..Len(body) /\ (b + j) - f \in 1..(p - f)
    BY <1>1, <1>2, <2>1, <2>4, <2>5
  <2>8. body[(b + j) - f] = page[j]
    BY <1>7, <2>7
  <2> QED
    BY <2>6, <2>7, <2>8
<1>12. ASSUME position = Total, from = 2 * b
       PROVE  Len(body) = Len(page) /\ \A i \in 1..Len(page) : body[i] = page[i]
  <2>1. f = b /\ Len(body) = p - f /\ p = Len(resp) /\ p - f = Len(page)
    BY <1>1, <1>2, <1>4, <1>12
  <2>2. \A i \in 1..Len(page) : (b + i) - f = i /\ i \in 1..(p - f)
    BY <1>1, <2>1
  <2> QED
    BY <1>7, <2>1, <2>2
<1> QED
  BY <1>9, <1>10, <1>11, <1>12

\* The headers end where they seem to.
LEMMA HeadersEndAt ==
  ASSUME NEW b, NEW page, Carries(resp, b, page)
  PROVE  HeaderUnits = 2 * b
<1> DEFINE I == {i \in 1..Len(resp) : resp[i] = Comment}
<1>1. b \in Nat /\ Len(page) \in Nat /\ Len(resp) = b + Len(page) /\ 2 <= b /\ resp[b] = Comment
  BY SeqIs DEF Carries
<1>2. b \in I
  BY <1>1
<1>3. ASSUME NEW i \in I PROVE b <= i
  <2>1. CASE i = 1
    BY <2>1 DEF Carries, Comment
  <2>2. CASE i \in 2..(b - 1)
    BY <2>2 DEF Carries, Comment
  <2> QED
    BY <1>1, <2>1, <2>2
<1>4. I \subseteq Int
  OBVIOUS
<1>5. HeaderUnits = 2 * (IF I # {} THEN Min(I) ELSE 0)
  BY DEF HeaderUnits, SelectInSeq
<1> HIDE DEF I
<1>6. \A m \in I : (\A i \in I : m <= i) => m = b
  BY <1>1, <1>2, <1>3, <1>4
<1>7. Min(I) = b
  BY <1>2, <1>3, <1>6 DEF Min
<1> QED
  BY <1>2, <1>5, <1>7

\* What arrives of the last sample of a name.
LEMMA LastArrives ==
  ASSUME NEW W, W[Counter].type = "counter", W[Gauge].type = "gauge",
         NEW body, NEW j \in 1..Len(body), Len(body) \in Nat, NEW x,
         IsSample(body[j], x), \A i \in (j + 1)..Len(body) : ~IsSample(body[i], x),
         \/ /\ x \in DOMAIN Image(W)
            /\ body[j].labels = Image(W)[x].labels /\ body[j].value = Image(W)[x].value
         \/ x = Bucket /\ Settled(body, W)
  PROVE  x \in DOMAIN Image(W) /\ Arriving(body[j], W) = Image(W)[x]
<1> DEFINE line == body[j]
           image == Image(W)
           m == image[x]
<1>1. line.name = x
  BY DEF IsSample
<1>2. /\ DOMAIN image = {Plain(Counter), Plain(Gauge), Bucket, SumOf, NumOf}
      /\ image[Plain(Counter)] = [type |-> W[Counter].type, help |-> W[Counter].help,
                                  labels |-> W[Counter].labels, value |-> Written(W[Counter].value)]
      /\ image[Plain(Gauge)] = [type |-> W[Gauge].type, help |-> W[Gauge].help,
                                labels |-> W[Gauge].labels, value |-> Written(W[Gauge].value)]
      /\ image[Bucket] = [type |-> "gauge", help |-> "", labels |-> <<"+Inf">>,
                          value |-> W[Latency].count]
      /\ image[SumOf] = [type |-> "gauge", help |-> "", labels |-> <<>>,
                         value |-> Written(W[Latency].sum)]
      /\ image[NumOf] = [type |-> "gauge", help |-> "", labels |-> <<>>,
                         value |-> W[Latency].count]
  <2>1. Counter \in {Counter, Gauge} /\ Gauge \in {Counter, Gauge}
    OBVIOUS
  <2> QED
    BY <2>1, ImageIs
<1>3. x \in DOMAIN image
  BY <1>2
<1>4. line.labels = m.labels /\ line.value = m.value
  <2>1. CASE x = Bucket /\ Settled(body, W)
    <3>1. PICK k \in j..Len(body) : IsLastBucket(body[k], W)
      BY <2>1 DEF Settled
    <3>2. k = j \/ k \in (j + 1)..Len(body)
      OBVIOUS
    <3>3. IsSample(body[k], x)
      BY <2>1, <3>1 DEF IsLastBucket
    <3>4. k = j
      BY <3>2, <3>3
    <3>5. line.labels = image[Bucket].labels /\ line.value = W[Latency].count
      BY <3>1, <3>4 DEF IsLastBucket
    <3>6. image[Bucket].value = W[Latency].count
      <4> DEFINE e == image[Bucket]
      <4>1. e = [type |-> "gauge", help |-> "", labels |-> <<"+Inf">>, value |-> W[Latency].count]
        BY <1>2
      <4> HIDE DEF e
      <4>2. e.value = W[Latency].count
        BY <4>1
      <4> QED
        BY <4>2 DEF e
    <3> QED
      BY <2>1, <3>5, <3>6
  <2>2. CASE line.labels = m.labels /\ line.value = m.value
    BY <2>2
  <2> QED
    BY <2>1, <2>2
<1>5. /\ Bucket # Plain(Counter) /\ SumOf # Plain(Counter) /\ NumOf # Plain(Counter)
      /\ Bucket # Plain(Gauge) /\ SumOf # Plain(Gauge) /\ NumOf # Plain(Gauge)
      /\ Plain(Counter) # Plain(Gauge)
  BY NamesApart
<1>6. m = [type |-> TypeOf(x), help |-> HelpOf(x, W), labels |-> m.labels, value |-> m.value]
  <2> DEFINE type == TypeOf(x)
             help == HelpOf(x, W)
  <2>1. CASE x = Plain(Counter)
    <3>1. type = W[Counter].type /\ help = W[Counter].help
      BY <2>1 DEF TypeOf, HelpOf
    <3>2. m = [type |-> type, help |-> help, labels |-> W[Counter].labels,
               value |-> Written(W[Counter].value)]
      BY <1>2, <2>1, <3>1
    <3> HIDE DEF m, type, help
    <3>3. m = [type |-> type, help |-> help, labels |-> m.labels, value |-> m.value]
      BY <3>2
    <3> QED
      BY <3>3 DEF type, help
  <2>2. CASE x = Plain(Gauge)
    <3>1. type = W[Gauge].type /\ help = W[Gauge].help
      BY <1>5, <2>2 DEF TypeOf, HelpOf
    <3>2. m = [type |-> type, help |-> help, labels |-> W[Gauge].labels,
               value |-> Written(W[Gauge].value)]
      BY <1>2, <2>2, <3>1
    <3> HIDE DEF m, type, help
    <3>3. m = [type |-> type, help |-> help, labels |-> m.labels, value |-> m.value]
      BY <3>2
    <3> QED
      BY <3>3 DEF type, help
  <2>3. CASE x \in {Bucket, SumOf, NumOf}
    <3>1. type = "gauge" /\ help = ""
      BY <1>5, <2>3 DEF TypeOf, HelpOf
    <3>2. \E labels, value : m = [type |-> "gauge", help |-> "", labels |-> labels, value |-> value]
      <4>1. CASE x = Bucket
        BY <1>2, <4>1
      <4>2. CASE x = SumOf
        BY <1>2, <4>2
      <4>3. CASE x = NumOf
        BY <1>2, <4>3
      <4> QED
        BY <2>3, <4>1, <4>2, <4>3
    <3>3. PICK labels, value :
            m = [type |-> "gauge", help |-> "", labels |-> labels, value |-> value]
      BY <3>2
    <3> HIDE DEF m, type, help
    <3>4. m.labels = labels /\ m.value = value
      BY <3>3
    <3>5. m = [type |-> type, help |-> help, labels |-> m.labels, value |-> m.value]
      BY <3>1, <3>3, <3>4
    <3> QED
      BY <3>5 DEF type, help
  <2> HIDE DEF m
  <2> QED
    BY <1>2, <1>3, <2>1, <2>2, <2>3
<1> HIDE DEF m, line
<1>7. Arriving(line, W) = m
  BY <1>1, <1>4, <1>6 DEF Arriving
<1> QED
  BY <1>3, <1>7 DEF m, line

-----------------------------------------------------------------------------
(* The scrapes of one target. *)

InFlight == pc \in {"status", "headers", "body", "decide"}

\* The worker's reads: the body begins behind the status line, and is not read
\* beyond the limit and one buffer.
ReadsInOrder ==
  /\ IsSeq(resp)
  /\ from \in Nat /\ position \in Nat
  /\ from <= position /\ position <= Total
  /\ pc = "status" => position = 0
  /\ pc = "body" => position - from <= BodyLimit
  /\ pc = "decide" => position - from <= BodyLimit + Chunk
  /\ pc \in {"body", "decide"} => 2 <= from

\* A response that shows registry W, its headers ending with line b.
ShownBy(r, W, b, page) ==
  Carries(r, b, page) /\ (r[1].code = "200" => PageIs(page, W))

\* The response shows the registry of the target, whose counter is now no
\* smaller; the worker is between two lines until its headers are over.
Shows ==
  InFlight =>
    /\ shown[Counter].value \in Nat /\ shown[Counter].value <= total
    /\ shown[Counter].type = "counter" /\ shown[Gauge].type = "gauge"
    /\ shown[Gauge].text = text
    /\ \E b, page : /\ ShownBy(resp, shown, b, page)
                    /\ pc = "headers" => \E k \in 1..(b - 1) : position = 2 * k
                    /\ pc \in {"body", "decide"} => from <= 2 * b

\* The worker's copy of the counter is no larger than what the target has, and
\* than what it is about to read.
CopyBehind ==
  /\ IsRegistry(sink)
  /\ Scraped \in DOMAIN sink =>
       /\ sink[Scraped].value <= Written(total)
       /\ InFlight => sink[Scraped].value <= Written(shown[Counter].value)

Counts ==
  /\ pc \in {"idle", "connect", "status", "headers", "body", "decide"}
  /\ successes \in Nat /\ failures \in Nat
  /\ successes + failures <= MaxFetches
  /\ pc # "idle" => successes + failures < MaxFetches

TargetInv ==
  /\ Holds
  /\ total \in FirstTotal..(FirstTotal + MaxEvents)
  /\ Events <= MaxEvents

FetchInv == TargetInv /\ ReadsInOrder /\ Shows /\ CopyBehind /\ Counts

\* The target goes on whatever the worker does, and its counter never falls.
LEMMA TargetStep ==
  ASSUME TargetInv, [Next]_vars
  PROVE  TargetInv' /\ total' >= total /\ text' = text
<1>1. /\ count \in Nat /\ FirstTotal \in Nat /\ MaxEvents \in Nat /\ total \in Nat /\ FirstTotal <= total
  BY FetchAssumption DEF TargetInv, Holds, HistogramInv
<1>2. CASE Increment
  <2>1. HistogramInv'
    BY <1>2, HistogramStep DEF TargetInv, Holds, Increment
  <2> QED
    BY <1>1, <1>2, <2>1 DEF TargetInv, Holds, Increment, Events, histogramVars
<1>3. CASE ObserveSample
  <2>1. HistogramInv'
    BY <1>3, HistogramStep DEF TargetInv, Holds, ObserveSample
  <2>2. count' = count + 1
    BY <1>3 DEF ObserveSample, HistogramNext, Observe
  <2> QED
    BY <1>1, <1>3, <2>1, <2>2 DEF TargetInv, Holds, ObserveSample, Events
<1>4. CASE UNCHANGED targetVars
  <2>1. HistogramInv'
    BY <1>4, HistogramStep DEF TargetInv, Holds, targetVars
  <2> QED
    BY <1>1, <1>4, <2>1 DEF TargetInv, Holds, targetVars, Events, histogramVars
<1>5. Worker => UNCHANGED targetVars
  BY DEF Worker, Begin, CannotConnect, Connects, StatusLine, NoStatusLine, HeaderLine,
         HeadersEnd, ReadsBody, BodyEnds, Decide
<1>6. UNCHANGED vars => UNCHANGED targetVars
  BY DEF vars
<1> QED
  BY <1>2, <1>3, <1>4, <1>5, <1>6 DEF Next, Target

\* A worker that waits for nothing of a response, or for more of it.
LEMMA SameReads ==
  ASSUME ReadsInOrder, UNCHANGED <<respVars, readVars>>,
         pc' = pc \/ pc' \in {"idle", "connect"} \/ (pc = "body" /\ pc' = "decide")
  PROVE  ReadsInOrder'
<1>1. resp' = resp /\ from' = from /\ position' = position
  BY DEF respVars, readVars
<1>2. BodyLimit \in Nat /\ Chunk \in Nat
  BY FetchAssumption
<1>3. IsSeq(resp)' /\ Total' = Total
  BY <1>1 DEF ReadsInOrder, IsSeq, Range, Total
<1> QED
  BY <1>1, <1>2, <1>3 DEF ReadsInOrder

\* The response of a target.
LEMMA ConnectsGives ==
  ASSUME TargetInv, Connects
  PROVE  /\ IsSeq(resp)'
         /\ \E b, page : ShownBy(resp', Registry, b, page)
<1>1. PICK code \in Codes, headers \in Headers :
        resp' = <<[kind |-> "status", code |-> code]>> \o headers \o <<Comment>>
                  \o (IF code = "200" THEN Render(Registry) ELSE <<Junk>>)
  BY DEF Connects
<1> DEFINE status == [kind |-> "status", code |-> code]
           page == IF code = "200" THEN Render(Registry) ELSE <<Junk>>
<1>2. code = "200" => PageIs(page, Registry)
  BY RenderShows DEF TargetInv
<1>3. IsSeq(page)
  <2>1. CASE code = "200"
    BY <1>2, <2>1 DEF PageIs, Showing, GoodPage
  <2>2. CASE code # "200"
    BY <2>2, Single
  <2> QED
    BY <2>1, <2>2
<1>4. /\ IsSeq(headers)
      /\ \A i \in 1..Len(headers) : headers[i].kind = "header"
  <2>1. headers \in Seq([kind : {"header"}, as : {"text", "numeric", "long"}])
    BY FetchAssumption
  <2> DEFINE H == [kind : {"header"}, as : {"text", "numeric", "long"}]
  <2>2. \A header \in H : header.kind = "header"
    OBVIOUS
  <2>3. headers \in Seq(H)
    BY <2>1
  <2> HIDE DEF H
  <2>4. \A i \in 1..Len(headers) : headers[i] \in H
    BY <2>3
  <2> QED
    BY <2>2, <2>3, <2>4, SeqOfIsSeq
<1>5. resp' = <<status>> \o headers \o <<Comment>> \o page
  BY <1>1
<1>6. status.kind = "status" /\ status.code = code
  OBVIOUS
<1> HIDE DEF status, page
<1>7. Carries(resp', Len(headers) + 2, page) /\ resp'[1] = status
  <2> DEFINE r == <<status>> \o headers \o <<Comment>> \o page
  <2>1. Carries(r, Len(headers) + 2, page) /\ r[1] = status
    BY <1>3, <1>4, <1>6, ResponseCarries
  <2> QED
    BY <1>5, <2>1
<1>8. ShownBy(resp', Registry, Len(headers) + 2, page)
  BY <1>2, <1>6, <1>7 DEF ShownBy
<1>9. IsSeq(resp')
  BY <1>7 DEF Carries
<1>10. IsSeq(resp)'
  BY <1>9 DEF IsSeq, Range
<1> QED
  BY <1>8, <1>10

LEMMA LeastOfTwo ==
  ASSUME NEW a \in Int, NEW b \in Int
  PROVE  Min({a, b}) \in Int /\ Min({a, b}) <= a /\ Min({a, b}) <= b
<1> DEFINE P(x) == \A y \in {a, b} : x <= y
<1>1. \E x \in {a, b} : P(x)
  OBVIOUS
<1>2. Min({a, b}) \in {a, b} /\ P(Min({a, b}))
  BY <1>1 DEF Min
<1> QED
  BY <1>2

\* Where a line of the headers ends, or all of them.
LEMMA HeadersStep ==
  ASSUME ReadsInOrder, Shows, pc = "headers"
  PROVE  \E b, page :
           /\ ShownBy(resp, shown, b, page) /\ b \in Nat
           /\ \E k \in 1..(b - 1) :
                /\ position = 2 * k /\ Current = resp[k + 1]
                /\ 2 * (k + 1) <= Total
                /\ Current.kind = "header" => k + 1 \in 1..(b - 1)
<1>1. PICK b, page : /\ ShownBy(resp, shown, b, page)
                     /\ \E k \in 1..(b - 1) : position = 2 * k
  BY DEF Shows, InFlight
<1>2. PICK k \in 1..(b - 1) : position = 2 * k
  BY <1>1
<1>3. Len(resp) \in Nat /\ b \in Nat /\ 2 <= b /\ b <= Len(resp)
  BY <1>1, SeqIs DEF ShownBy, Carries
<1>4. position \div 2 + 1 = k + 1
  BY <1>2, <1>3
<1>5. Current = resp[k + 1]
  BY <1>4 DEF Current
<1>6. 2 * (k + 1) <= Total
  BY <1>3 DEF Total
<1>7. resp[b].kind = "comment"
  BY <1>1 DEF ShownBy, Carries, Comment
<1>8. Current.kind = "header" => k + 1 \in 1..(b - 1)
  BY <1>3, <1>5, <1>7
<1> QED
  BY <1>1, <1>2, <1>3, <1>5, <1>6, <1>8

LEMMA ReadsStep ==
  ASSUME TargetInv, ReadsInOrder, Shows, [Next]_vars
  PROVE  ReadsInOrder'
<1>1. BodyLimit \in Nat /\ Chunk \in Nat \ {0}
  BY FetchAssumption
<1>2. Len(resp) \in Nat /\ Total \in Nat
  BY SeqIs DEF ReadsInOrder, Total
<1>3. CASE Target \/ UNCHANGED vars
  <2>1. pc' = pc /\ UNCHANGED <<respVars, readVars>>
    BY <1>3 DEF Target, Increment, ObserveSample, vars
  <2> QED
    BY <2>1, SameReads
<1>4. CASE Begin \/ CannotConnect \/ NoStatusLine \/ BodyEnds \/ Decide
  <2>1. /\ UNCHANGED <<respVars, readVars>>
        /\ pc' \in {"idle", "connect"} \/ (pc = "body" /\ pc' = "decide")
    BY <1>4 DEF Begin, CannotConnect, NoStatusLine, BodyEnds, Decide, Failed
  <2> QED
    BY <2>1, SameReads
<1>5. CASE Connects
  <2>1. position' = 0 /\ from' = 0 /\ pc' = "status"
    BY <1>5 DEF Connects
  <2>2. IsSeq(resp)'
    BY <1>5, ConnectsGives
  <2>3. Len(resp') \in Nat
    BY <2>2 DEF IsSeq, Range
  <2> QED
    BY <1>1, <2>1, <2>2, <2>3 DEF ReadsInOrder, Total
<1>6. CASE StatusLine
  <2>1. /\ UNCHANGED <<resp, from>> /\ position = 0 /\ position' = 2
        /\ pc' \in {"idle", "headers"} /\ from \in Nat /\ from <= position
    BY <1>6 DEF StatusLine, Failed, respVars, ReadsInOrder
  <2>2. PICK b, page : ShownBy(resp, shown, b, page)
    BY <1>6 DEF StatusLine, Shows, InFlight
  <2>3. 2 <= Total
    BY <1>2, <2>2, SeqIs DEF ShownBy, Carries, Total
  <2>4. IsSeq(resp)' /\ Total' = Total
    BY <2>1 DEF ReadsInOrder, IsSeq, Range, Total
  <2> QED
    BY <1>1, <2>1, <2>3, <2>4 DEF ReadsInOrder
<1>7. CASE HeaderLine
  <2>1. /\ UNCHANGED <<resp, from>> /\ position' = position + 2 /\ pc = "headers" /\ pc' = "headers"
    BY <1>7 DEF HeaderLine, respVars
  <2>2. position + 2 <= Total
    <3>1. PICK b, page : /\ ShownBy(resp, shown, b, page) /\ b \in Nat
                         /\ \E k \in 1..(b - 1) :
                              /\ position = 2 * k /\ Current = resp[k + 1]
                              /\ 2 * (k + 1) <= Total
                              /\ Current.kind = "header" => k + 1 \in 1..(b - 1)
      BY <2>1, HeadersStep
    <3> QED
      BY <3>1
  <2>3. IsSeq(resp)' /\ Total' = Total
    BY <2>1 DEF ReadsInOrder, IsSeq, Range, Total
  <2> QED
    BY <2>1, <2>2, <2>3 DEF ReadsInOrder
<1>8. CASE HeadersEnd
  <2>1. /\ resp' = resp /\ pc = "headers" /\ pc' = "body" /\ from' = position'
        /\ position' \in {position, position + 1, position + 2}
    BY <1>8 DEF HeadersEnd, respVars
  <2>2. position + 2 <= Total /\ 2 <= position
    <3>1. PICK b, page : /\ ShownBy(resp, shown, b, page) /\ b \in Nat
                         /\ \E k \in 1..(b - 1) :
                              /\ position = 2 * k /\ Current = resp[k + 1]
                              /\ 2 * (k + 1) <= Total
                              /\ Current.kind = "header" => k + 1 \in 1..(b - 1)
      BY <2>1, HeadersStep
    <3> QED
      BY <3>1
  <2>3. IsSeq(resp)' /\ Total' = Total
    BY <2>1 DEF ReadsInOrder, IsSeq, Range, Total
  <2>4. position \in Nat
    BY DEF ReadsInOrder
  <2>5. position' \in Nat /\ position' <= Total /\ 2 <= position'
    BY <1>2, <2>1, <2>2, <2>4
  <2>6. position' - from' = 0 /\ from' <= position' /\ from' \in Nat /\ 2 <= from'
    <3>1. \A p, f \in Nat : f = p => p - f = 0 /\ f <= p
      OBVIOUS
    <3>2. from' = position'
      BY <2>1
    <3>3. from' \in Nat /\ 2 <= from'
      BY <2>5, <3>2
    <3> QED
      BY <2>5, <3>1, <3>2, <3>3
  <2>7. 0 <= BodyLimit
    BY <1>1
  <2> QED
    BY <2>1, <2>3, <2>5, <2>6, <2>7 DEF ReadsInOrder
<1>9. CASE ReadsBody
  <2>1. /\ resp' = resp /\ from' = from /\ pc = "body"
        /\ pc' = IF position' - from > BodyLimit THEN "decide" ELSE "body"
    BY <1>9 DEF ReadsBody, respVars
  <2>2. PICK n \in 1..Min({Chunk, Total - position}) : position' = position + n
    BY <1>9 DEF ReadsBody
  <2>3. Total - position \in Int /\ position \in Nat
    BY <1>2 DEF ReadsInOrder
  <2>4. /\ Min({Chunk, Total - position}) \in Int
        /\ Min({Chunk, Total - position}) <= Chunk
        /\ Min({Chunk, Total - position}) <= Total - position
    BY <1>1, <2>3, LeastOfTwo
  <2>5. n \in Nat /\ n <= Chunk /\ n <= Total - position
    BY <1>1, <2>3, <2>4
  <2>6. IsSeq(resp)' /\ Total' = Total
    BY <2>1 DEF ReadsInOrder, IsSeq, Range, Total
  <2> QED
    BY <1>1, <1>2, <2>1, <2>2, <2>5, <2>6 DEF ReadsInOrder
<1> QED
  BY <1>3, <1>4, <1>5, <1>6, <1>7, <1>8, <1>9 DEF Next, Worker

LEMMA SameShows ==
  ASSUME TargetInv, Shows, UNCHANGED respVars, total' \in Nat, total' >= total, text' = text,
         InFlight' => InFlight,
         pc' = "headers" => pc = "headers" /\ position' = position,
         pc' \in {"body", "decide"} => pc \in {"body", "decide"} /\ from' = from
  PROVE  Shows'
<1> SUFFICES ASSUME InFlight' PROVE Shows'
  BY DEF Shows
<1>1. resp' = resp /\ shown' = shown
  BY DEF respVars
<1>2. /\ shown[Counter].value \in Nat /\ shown[Counter].value <= total
      /\ shown[Counter].type = "counter" /\ shown[Gauge].type = "gauge"
      /\ shown[Gauge].text = text
      /\ total \in Nat
  BY DEF Shows, TargetInv, Holds
<1>3. PICK b, page : /\ ShownBy(resp, shown, b, page)
                     /\ pc = "headers" => \E k \in 1..(b - 1) : position = 2 * k
                     /\ pc \in {"body", "decide"} => from <= 2 * b
  BY DEF Shows
<1>4. /\ ShownBy(resp', shown', b, page)
      /\ pc' = "headers" => \E k \in 1..(b - 1) : position' = 2 * k
      /\ pc' \in {"body", "decide"} => from' <= 2 * b
  BY <1>1, <1>3
<1>5. /\ shown'[Counter].value \in Nat /\ shown'[Counter].value <= total'
      /\ shown'[Counter].type = "counter" /\ shown'[Gauge].type = "gauge"
      /\ shown'[Gauge].text = text'
  BY <1>1, <1>2
<1> QED
  BY <1>4, <1>5 DEF Shows

LEMMA ShowsStep ==
  ASSUME TargetInv, ReadsInOrder, Shows, [Next]_vars
  PROVE  Shows'
<1>1. total' \in Nat /\ total' >= total /\ text' = text
  BY TargetStep DEF TargetInv, Holds
<1>2. CASE Target \/ UNCHANGED vars
  <2>1. pc' = pc /\ UNCHANGED <<respVars, readVars>>
    BY <1>2 DEF Target, Increment, ObserveSample, vars
  <2> QED
    BY <1>1, <2>1, SameShows DEF InFlight, readVars
<1>3. CASE Begin \/ CannotConnect \/ NoStatusLine \/ BodyEnds \/ Decide \/ ReadsBody
  <2>1. /\ UNCHANGED respVars /\ pc' # "headers" /\ (InFlight' => InFlight)
        /\ pc' \in {"body", "decide"} => pc \in {"body", "decide"} /\ from' = from
    BY <1>3 DEF Begin, CannotConnect, NoStatusLine, BodyEnds, Decide, ReadsBody, Failed, InFlight,
                readVars
  <2> QED
    BY <1>1, <2>1, SameShows
<1>4. CASE Connects
  <2>1. shown' = Registry /\ pc' = "status"
    BY <1>4 DEF Connects
  <2>2. /\ shown'[Counter].value = total /\ shown'[Counter].type = "counter"
        /\ shown'[Gauge].type = "gauge" /\ shown'[Gauge].text = text
    BY <2>1, RegistryIs
  <2>3. PICK b, page : ShownBy(resp', Registry, b, page)
    BY <1>4, ConnectsGives
  <2>4. total \in Nat
    BY DEF TargetInv, Holds
  <2> QED
    BY <1>1, <2>1, <2>2, <2>3, <2>4 DEF Shows
<1>5. CASE StatusLine
  <2>1. /\ pc = "status" /\ UNCHANGED <<respVars, targetVars>> /\ position' = 2
        /\ pc' \in {"idle", "headers"}
    BY <1>5 DEF StatusLine, Failed, ReadsInOrder
  <2>2. PICK b, page : ShownBy(resp, shown, b, page)
    BY <2>1 DEF Shows, InFlight
  <2>3. 1 \in 1..(b - 1) /\ position' = 2 * 1
    <3>1. b \in Nat /\ 2 <= b
      BY <2>2 DEF ShownBy, Carries
    <3> QED
      BY <2>1, <3>1
  <2>4. /\ shown'[Counter].value \in Nat /\ shown'[Counter].value <= total'
        /\ shown'[Counter].type = "counter" /\ shown'[Gauge].type = "gauge"
        /\ shown'[Gauge].text = text'
        /\ ShownBy(resp', shown', b, page)
    BY <1>1, <2>1, <2>2 DEF Shows, InFlight, respVars, targetVars
  <2> QED
    BY <2>1, <2>3, <2>4 DEF Shows
<1>6. CASE HeaderLine \/ HeadersEnd
  <2>1. /\ pc = "headers" /\ UNCHANGED <<respVars, targetVars>>
        /\ \/ HeaderLine /\ pc' = "headers" /\ position' = position + 2 /\ Current.kind = "header"
           \/ /\ pc' = "body" /\ from' = position'
              /\ position' \in {position, position + 1, position + 2}
    BY <1>6 DEF HeaderLine, HeadersEnd
  <2>2. PICK b, page : /\ ShownBy(resp, shown, b, page) /\ b \in Nat
                       /\ \E k \in 1..(b - 1) :
                            /\ position = 2 * k /\ Current = resp[k + 1]
                            /\ 2 * (k + 1) <= Total
                            /\ Current.kind = "header" => k + 1 \in 1..(b - 1)
    BY <2>1, HeadersStep
  <2>3. PICK k \in 1..(b - 1) : /\ position = 2 * k
                                /\ Current.kind = "header" => k + 1 \in 1..(b - 1)
    BY <2>2
  <2>4. /\ pc' = "headers" => position' = 2 * (k + 1) /\ k + 1 \in 1..(b - 1)
        /\ pc' \in {"body", "decide"} => from' <= 2 * b
    <3>1. b \in Nat /\ k \in Nat /\ k <= b - 1
      BY <2>2
    <3>2. CASE pc' = "headers"
      BY <2>1, <2>3, <3>1, <3>2
    <3>3. CASE pc' # "headers"
      <4>1. from' \in {position, position + 1, position + 2}
        BY <2>1, <3>3
      <4>2. from' <= 2 * b
        BY <2>3, <3>1, <4>1
      <4> QED
        BY <3>3, <4>2
    <3> QED
      BY <3>2, <3>3
  <2>5. /\ shown'[Counter].value \in Nat /\ shown'[Counter].value <= total'
        /\ shown'[Counter].type = "counter" /\ shown'[Gauge].type = "gauge"
        /\ shown'[Gauge].text = text'
        /\ ShownBy(resp', shown', b, page)
    BY <1>1, <2>1, <2>2 DEF Shows, InFlight, respVars, targetVars
  <2> QED
    BY <2>4, <2>5 DEF Shows
<1> QED
  BY <1>2, <1>3, <1>4, <1>5, <1>6 DEF Next, Worker

\* What has been read when a worker decides about a page.
LEMMA DecideReads ==
  ASSUME ReadsInOrder, Shows, Decide, Code = "200"
  PROVE  \E body :
           /\ sink' = Merged(sink, body)
           /\ successes' = IF Parse(body).ok THEN successes + 1 ELSE successes
           /\ GoodPage(body, shown)
           /\ \A i \in 1..Len(body) : body[i].kind = "sample" => Comes(body[i], shown, Late)
           /\ position = Total => Settled(body, shown)
           /\ position = Total /\ ~Late => PageIs(body, shown)
<1>1. PICK body \in Bodies : /\ sink' = Merged(sink, body)
                             /\ successes' = IF Parse(body).ok THEN successes + 1 ELSE successes
  BY DEF Decide
<1>2. PICK b, page : ShownBy(resp, shown, b, page) /\ from <= 2 * b
  BY DEF Decide, Shows, InFlight
<1>3. Carries(resp, b, page) /\ PageIs(page, shown)
  BY <1>2 DEF ShownBy, Code
<1>4. from \in Nat /\ position \in Nat /\ 2 <= from /\ from <= position /\ position <= Total
  BY DEF Decide, ReadsInOrder
<1>5. HeaderUnits = 2 * b
  BY <1>3, HeadersEndAt
<1>6. Late <=> from # 2 * b
  BY <1>5 DEF Late
<1>7. /\ GoodPage(body, shown)
      /\ \A i \in 1..Len(body) : body[i].kind = "sample" => Comes(body[i], shown, from # 2 * b)
      /\ position = Total => Settled(body, shown)
      /\ position = Total /\ from = 2 * b =>
           Len(body) = Len(page) /\ \A i \in 1..Len(page) : body[i] = page[i]
  BY <1>2, <1>3, <1>4, BodyShows
<1>8. \A i \in 1..Len(body) : body[i].kind = "sample" => Comes(body[i], shown, Late)
  BY <1>6, <1>7 DEF Comes
<1>9. ASSUME position = Total, ~Late PROVE PageIs(body, shown)
  <2>1. Len(body) = Len(page) /\ \A i \in 1..Len(page) : body[i] = page[i]
    BY <1>6, <1>7, <1>9
  <2>2. Showing(body, shown)
    BY <1>3, <1>7, <2>1 DEF PageIs, Showing
  <2>3. \A x : Has(page, x) => Has(body, x)
    BY <2>1 DEF Has
  <2> QED
    BY <1>3, <1>7, <1>9, <2>2, <2>3 DEF PageIs
<1> QED
  BY <1>1, <1>7, <1>8, <1>9

\* What arrives of it: of each name the last sample, or nothing.
LEMMA DecideGives ==
  ASSUME ReadsInOrder, Shows, IsRegistry(sink), Decide
  PROVE  /\ IsRegistry(sink') /\ DOMAIN sink \subseteq DOMAIN sink'
         /\ \A x \in DOMAIN sink' :
              \/ x \in DOMAIN sink /\ sink'[x] = sink[x]
              \/ \E line : /\ IsSample(line, x) /\ sink'[x] = Arriving(line, shown)
                           /\ line.value \in Int /\ Comes(line, shown, Late)
<1>1. CASE Code # "200"
  <2>1. sink' = sink
    BY <1>1 DEF Decide
  <2> QED
    BY <2>1
<1>2. CASE Code = "200"
  <2>1. PICK body :
          /\ sink' = Merged(sink, body)
          /\ successes' = IF Parse(body).ok THEN successes + 1 ELSE successes
          /\ GoodPage(body, shown)
          /\ \A i \in 1..Len(body) : body[i].kind = "sample" => Comes(body[i], shown, Late)
          /\ position = Total => Settled(body, shown)
          /\ position = Total /\ ~Late => PageIs(body, shown)
    BY <1>2, DecideReads, Zenon
  <2>2. IsRegistry(sink') /\ DOMAIN sink \subseteq DOMAIN sink'
    BY <2>1, MergedIs
  <2>3. CASE ~Parse(body).ok
    <3>1. sink' = sink
      BY <2>1, <2>3 DEF Merged
    <3> QED
      BY <2>2, <3>1
  <2>4. CASE Parse(body).ok
    <3>1. MergedUpTo(sink', sink, body, Len(body), shown)
      BY <2>1, <2>4, MergedExactly DEF IsRegistry
    <3>2. ASSUME NEW x \in DOMAIN sink', ~(x \in DOMAIN sink /\ sink'[x] = sink[x])
          PROVE  \E line : /\ IsSample(line, x) /\ sink'[x] = Arriving(line, shown)
                           /\ line.value \in Int /\ Comes(line, shown, Late)
      <4>1. PICK j \in 1..Len(body) : IsSample(body[j], x) /\ sink'[x] = Arriving(body[j], shown)
        BY <3>1, <3>2 DEF MergedUpTo
      <4>2. body[j].kind = "sample"
        BY <4>1 DEF IsSample
      <4>3. body[j].value \in Int /\ Comes(body[j], shown, Late)
        BY <2>1, <4>2 DEF GoodPage, OfPage
      <4> QED
        BY <4>1, <4>3
    <3> QED
      BY <2>2, <3>2
  <2> QED
    BY <2>3, <2>4
<1> QED
  BY <1>1, <1>2

\* What it says of the counter.
LEMMA CounterArrives ==
  ASSUME NEW line, IsSample(line, Scraped), line.value \in Int, NEW W,
         Comes(line, W, Late), W[Counter].value \in Nat
  PROVE  /\ Arriving(line, W).value <= Written(W[Counter].value)
         /\ ~CutIn(Scraped) => Arriving(line, W).value = Written(W[Counter].value)
<1> DEFINE image == Image(W)[Scraped]
<1>1. image.value = Written(W[Counter].value) /\ Written(W[Counter].value) \in Nat
  <2>1. Counter \in {Counter, Gauge}
    OBVIOUS
  <2>2. image = [type |-> W[Counter].type, help |-> W[Counter].help,
                 labels |-> W[Counter].labels, value |-> Written(W[Counter].value)]
    BY <2>1, ImageIs DEF Scraped
  <2> HIDE DEF image
  <2>3. image.value = Written(W[Counter].value)
    BY <2>2
  <2> QED
    BY <2>3, WrittenSettles
<1>2. line.name = Scraped /\ line.kind = "sample"
  BY DEF IsSample
<1>3. Scraped # <<0, "header">> /\ Scraped # Bucket /\ Scraped # <<Gauge, "cut">>
  BY NamesApart DEF Scraped
<1>4. Arriving(line, W).value = line.value
  BY DEF Arriving
<1>5. \/ CutIn(Scraped) /\ line.value <= image.value
      \/ line.value = image.value
  BY <1>2, <1>3 DEF Comes, ShownAs
<1> HIDE DEF image
<1> QED
  BY <1>1, <1>4, <1>5

LEMMA CopyStep ==
  ASSUME TargetInv, ReadsInOrder, Shows, CopyBehind, [Next]_vars
  PROVE  CopyBehind'
<1>1. total \in Nat /\ total' \in Nat /\ total' >= total
  BY TargetStep DEF TargetInv, Holds
<1>2. Written(total) \in Nat /\ Written(total') \in Nat /\ Written(total) <= Written(total')
  BY <1>1, WrittenSettles, WrittenRises
<1>3. CASE ~Decide
  <2>1. sink' = sink
    BY <1>3 DEF Next, Target, Worker, Increment, ObserveSample, Begin, CannotConnect, Connects,
                StatusLine, NoStatusLine, HeaderLine, HeadersEnd, ReadsBody, BodyEnds,
                Failed, doneVars, vars
  <2>2. \/ InFlight' => InFlight /\ shown' = shown
        \/ shown' = Registry
    BY <1>3 DEF Next, Target, Worker, Increment, ObserveSample, Begin, CannotConnect, Connects,
                StatusLine, NoStatusLine, HeaderLine, HeadersEnd, ReadsBody, BodyEnds,
                Failed, respVars, vars, InFlight
  <2>3. Registry[Counter].value = total
    BY RegistryIs
  <2>4. IsRegistry(sink)'
    BY <2>1 DEF CopyBehind, IsRegistry
  <2> SUFFICES ASSUME Scraped \in DOMAIN sink
               PROVE  /\ sink[Scraped].value <= Written(total')
                      /\ InFlight' => sink[Scraped].value <= Written(shown'[Counter].value)
    BY <2>1, <2>4 DEF CopyBehind
  <2>5. sink[Scraped].value \in Int /\ sink[Scraped].value <= Written(total)
    BY DEF CopyBehind, IsRegistry
  <2>6. sink[Scraped].value <= Written(total')
    BY <1>2, <2>5
  <2> QED
    BY <2>2, <2>3, <2>5, <2>6 DEF CopyBehind
<1>4. CASE Decide
  <2> DEFINE n == shown[Counter].value
  <2>1. IsRegistry(sink) /\ n \in Nat /\ n <= total /\ ~InFlight'
    BY <1>4 DEF CopyBehind, Shows, Decide, InFlight
  <2>2. /\ IsRegistry(sink')
        /\ Scraped \in DOMAIN sink' =>
             \/ Scraped \in DOMAIN sink /\ sink'[Scraped] = sink[Scraped]
             \/ \E line : /\ IsSample(line, Scraped) /\ sink'[Scraped] = Arriving(line, shown)
                          /\ line.value \in Int /\ Comes(line, shown, Late)
    BY <1>4, <2>1, DecideGives
  <2>3. Written(n) \in Nat /\ Written(n) <= Written(total)
    BY <1>1, <2>1, WrittenSettles, WrittenRises
  <2>4. total' = total
    BY <1>4 DEF Decide, targetVars
  <2>5. IsRegistry(sink')
    BY <2>2
  <2>6. Scraped \in DOMAIN sink' => sink'[Scraped].value <= Written(total)
    <3> SUFFICES ASSUME Scraped \in DOMAIN sink' PROVE sink'[Scraped].value <= Written(total)
      OBVIOUS
    <3>1. Scraped \in DOMAIN sink => sink[Scraped].value <= Written(total)
      BY DEF CopyBehind
    <3>2. CASE Scraped \in DOMAIN sink /\ sink'[Scraped] = sink[Scraped]
      BY <3>1, <3>2
    <3>3. CASE \E line : /\ IsSample(line, Scraped) /\ sink'[Scraped] = Arriving(line, shown)
                         /\ line.value \in Int /\ Comes(line, shown, Late)
      <4>1. PICK line : /\ IsSample(line, Scraped) /\ sink'[Scraped] = Arriving(line, shown)
                        /\ line.value \in Int /\ Comes(line, shown, Late)
        BY <3>3
      <4>2. Arriving(line, shown).value <= Written(n)
        BY <2>1, <4>1, CounterArrives
      <4>3. Arriving(line, shown).value \in Int
        BY <4>1 DEF Arriving
      <4> QED
        BY <1>2, <2>3, <4>1, <4>2, <4>3
    <3> QED
      BY <2>2, <3>2, <3>3
  <2> QED
    BY <2>1, <2>4, <2>5, <2>6 DEF CopyBehind, IsRegistry
<1> QED
  BY <1>3, <1>4

LEMMA CountsStep ==
  ASSUME Counts, [Next]_vars
  PROVE  Counts'
<1>1. MaxFetches \in Nat
  BY FetchAssumption
<1>2. CASE Target \/ UNCHANGED vars
  <2>1. pc' = pc /\ successes' = successes /\ failures' = failures
    BY <1>2 DEF Target, Increment, ObserveSample, doneVars, vars
  <2> QED
    BY <2>1 DEF Counts
<1>3. CASE Begin
  BY <1>3 DEF Begin, Counts, doneVars
<1>4. CASE \/ CannotConnect \/ NoStatusLine \/ Connects \/ StatusLine \/ HeaderLine
           \/ HeadersEnd \/ ReadsBody \/ BodyEnds \/ Decide
  <2>1. /\ pc \in {"connect", "status", "headers", "body", "decide"}
        /\ \/ /\ successes' = successes /\ failures' = failures
              /\ pc' \in {"status", "headers", "body", "decide"}
           \/ /\ pc' = "idle" /\ successes' = successes + 1 /\ failures' = failures
           \/ /\ pc' = "idle" /\ successes' = successes /\ failures' = failures + 1
    BY <1>4 DEF CannotConnect, NoStatusLine, Connects, StatusLine, HeaderLine, HeadersEnd,
                ReadsBody, BodyEnds, Decide, Failed, doneVars
  <2>2. successes \in Nat /\ failures \in Nat /\ successes + failures < MaxFetches
    BY <2>1 DEF Counts
  <2> QED
    BY <1>1, <2>1, <2>2 DEF Counts
<1> QED
  BY <1>2, <1>3, <1>4 DEF Next, Worker

LEMMA FetchInitHolds == Init => FetchInv
<1> SUFFICES ASSUME Init PROVE FetchInv
  OBVIOUS
<1>1. HistogramInv /\ count = 0
  BY HistogramInitHolds DEF Init, HistogramInit
<1>2. FirstTotal \in Nat /\ MaxEvents \in Nat /\ MaxFetches \in Nat /\ BodyLimit \in Nat
  BY FetchAssumption
<1>3. TargetInv
  BY <1>1, <1>2 DEF Init, TargetInv, Holds, Events
<1>4. ReadsInOrder
  <2>1. <<>> \in Seq({}) /\ Len(<<>>) = 0
    OBVIOUS
  <2>2. IsSeq(<<>>)
    BY <2>1, SeqOfIsSeq
  <2>3. IsSeq(resp) /\ Total = 0
    BY <2>1, <2>2 DEF Init, Total
  <2> QED
    BY <1>2, <2>3 DEF Init, ReadsInOrder
<1>5. Shows
  BY DEF Init, Shows, InFlight
<1>6. CopyBehind
  <2>1. DOMAIN sink = {}
    BY DEF Init
  <2> QED
    BY <2>1 DEF CopyBehind, IsRegistry
<1>7. Counts
  BY <1>2 DEF Init, Counts
<1> QED
  BY <1>3, <1>4, <1>5, <1>6, <1>7 DEF FetchInv

LEMMA FetchStep == FetchInv /\ [Next]_vars => FetchInv'
BY TargetStep, ReadsStep, ShowsStep, CopyStep, CountsStep DEF FetchInv

\* A target and the worker that scrapes it, from the first connection on: what
\* is read is a page of the target, and the copy is never ahead of it
\* (scheduler.cpp:89-119, net.cpp:319-371).
THEOREM FetchInvariance == Spec => []FetchInv
BY FetchInitHolds, FetchStep, PTL DEF Spec

\* The variables keep their types, and no body takes more memory than the limit
\* and one buffer, whatever a server sends (net.cpp:206-222).
THEOREM FetchTyped == Spec => []TypeOK
<1>1. FetchInv => TypeOK
  <2> SUFFICES ASSUME FetchInv PROVE TypeOK
    OBVIOUS
  <2>1. pc \in {"body", "decide"} => position - from <= BodyLimit + Chunk
    BY FetchAssumption DEF FetchInv, ReadsInOrder
  <2>2. successes + failures \in 0..MaxFetches
    BY FetchAssumption DEF FetchInv, Counts
  <2>3. 0 <= from /\ from <= position /\ position <= Total
    BY DEF FetchInv, ReadsInOrder
  <2> QED
    BY <2>1, <2>2, <2>3 DEF FetchInv, TypeOK, TargetInv, Holds, Counts, CopyBehind, IsRegistry
<1> QED
  BY <1>1, FetchInvariance, PTL

\* The buckets that a target shows while it is scraped count what they say
\* (metric.cpp:131-143).
THEOREM FetchBuckets == Spec => []BucketsCumulative
<1>1. FetchInv => BucketsCumulative
  BY DEF FetchInv, TargetInv, Holds, HistogramInv
<1> QED
  BY <1>1, FetchInvariance, PTL

\* A scrape that failed has changed nothing: a page is merged as a whole or not
\* at all, and only a page that was merged counts as a success
\* (prometheus_text.cpp:135-148, scheduler.cpp:97-119).
THEOREM FailureIsClean == Spec => FailureMergesNothing
<1>1. ASSUME [Next]_vars, failures' # failures PROVE sink' = sink
  <2>1. CASE Decide
    <3>1. PICK body \in Bodies :
            /\ sink' = (IF Code = "200" THEN Merged(sink, body) ELSE sink)
            /\ IF Code = "200" /\ Parse(body).ok
               THEN failures' = failures ELSE failures' = failures + 1
      BY <2>1 DEF Decide
    <3>2. ~(Code = "200" /\ Parse(body).ok)
      BY <1>1, <3>1
    <3>3. CASE Code = "200"
      BY <3>1, <3>2, <3>3 DEF Merged
    <3>4. CASE Code # "200"
      BY <3>1, <3>4
    <3> QED
      BY <3>3, <3>4
  <2>2. CASE ~Decide
    BY <1>1, <2>2 DEF Next, Target, Worker, Increment, ObserveSample, Begin, CannotConnect,
                      Connects, StatusLine, NoStatusLine, HeaderLine, HeadersEnd, ReadsBody,
                      BodyEnds, Failed, doneVars, vars
  <2> QED
    BY <2>1, <2>2
<1>2. [Next]_vars => [failures' # failures => sink' = sink]_vars
  BY <1>1
<1> QED
  BY <1>2, PTL DEF Spec, FailureMergesNothing

\* The copy of a counter does not fall, although each scrape replaces it by a
\* new object that was read some time ago, unless its number has been cut off:
\* scrapes of one target follow one another, the target's counter does not fall,
\* and a larger number is not written smaller (prometheus_text.cpp:141-146,
\* scheduler.cpp:105-112).
THEOREM CopyRises == Spec => CopyNeverBack
<1>1. ASSUME FetchInv, [Next]_vars, ~CutIn(Scraped), Scraped \in DOMAIN sink
      PROVE  Scraped \in DOMAIN sink' /\ sink'[Scraped].value >= sink[Scraped].value
  <2>1. sink[Scraped].value \in Int
    BY <1>1 DEF FetchInv, CopyBehind, IsRegistry
  <2>2. CASE Decide
    <3> DEFINE n == shown[Counter].value
    <3>1. /\ TargetInv /\ ReadsInOrder /\ Shows /\ IsRegistry(sink)
          /\ sink[Scraped].value <= Written(n)
      BY <1>1, <2>2 DEF FetchInv, CopyBehind, Decide, InFlight
    <3>2. /\ DOMAIN sink \subseteq DOMAIN sink'
          /\ Scraped \in DOMAIN sink' =>
               \/ Scraped \in DOMAIN sink /\ sink'[Scraped] = sink[Scraped]
               \/ \E line : /\ IsSample(line, Scraped) /\ sink'[Scraped] = Arriving(line, shown)
                            /\ line.value \in Int /\ Comes(line, shown, Late)
      BY <2>2, <3>1, DecideGives
    <3>3. n \in Nat /\ Written(n) \in Nat
      BY <2>2, <3>1, WrittenSettles DEF Shows, Decide, InFlight
    <3>4. Scraped \in DOMAIN sink'
      BY <1>1, <3>2
    <3>5. sink'[Scraped].value = sink[Scraped].value \/ sink'[Scraped].value = Written(n)
      BY <1>1, <3>2, <3>3, <3>4, CounterArrives
    <3> QED
      BY <2>1, <3>1, <3>3, <3>4, <3>5
  <2>3. CASE ~Decide
    <3>1. sink' = sink
      BY <1>1, <2>3 DEF Next, Target, Worker, Increment, ObserveSample, Begin, CannotConnect,
                        Connects, StatusLine, NoStatusLine, HeaderLine, HeadersEnd, ReadsBody,
                        BodyEnds, Failed, doneVars, vars
    <3> QED
      BY <1>1, <2>1, <3>1
  <2> QED
    BY <2>2, <2>3
<1>2. FetchInv /\ [Next]_vars =>
        [~CutIn(Scraped) /\ Scraped \in DOMAIN sink =>
           Scraped \in DOMAIN sink' /\ sink'[Scraped].value >= sink[Scraped].value]_vars
  BY <1>1
<1> QED
  BY <1>2, FetchInvariance, PTL DEF Spec, CopyNeverBack

\* Nothing arrives that the target has not shown, but what is let through with
\* open eyes: a number or a bucket of a body that breaks off, a header line that
\* came late, a name that is read as another (net.cpp:319-371,
\* prometheus_text.cpp:49-129).
THEOREM ShownArrives == Spec => OnlyTheShownArrives
<1> DEFINE Allowed(x) ==
             \/ x \in DOMAIN Image(shown) /\ sink'[x] = Image(shown)[x]
             \/ CutIn(x)
             \/ x = Bucket /\ position < Total
                  /\ sink'[x].value \in Range(shown[Latency].counts)
             \/ x = <<0, "header">> /\ Late
             \/ x = <<Gauge, "cut">> /\ text = "misread"
<1>1. ASSUME FetchInv, [Next]_vars, NEW x \in DOMAIN sink', Arrived(x)
      PROVE  Allowed(x)
  <2>1. CASE Decide
    <3>1. /\ ReadsInOrder /\ Shows /\ IsRegistry(sink)
          /\ shown[Counter].type = "counter" /\ shown[Gauge].type = "gauge"
          /\ shown[Gauge].text = text
      BY <1>1, <2>1 DEF FetchInv, CopyBehind, Shows, Decide, InFlight
    <3>2. Code = "200"
      BY <1>1, <2>1 DEF Decide, Arrived
    <3>3. PICK body :
            /\ sink' = Merged(sink, body)
            /\ successes' = IF Parse(body).ok THEN successes + 1 ELSE successes
            /\ GoodPage(body, shown)
            /\ \A i \in 1..Len(body) : body[i].kind = "sample" => Comes(body[i], shown, Late)
            /\ position = Total => Settled(body, shown)
            /\ position = Total /\ ~Late => PageIs(body, shown)
      BY <2>1, <3>1, <3>2, DecideReads, Zenon
    <3>4. Parse(body).ok
      BY <1>1, <3>3 DEF Merged, Arrived
    <3>5. MergedUpTo(sink', sink, body, Len(body), shown)
      BY <3>1, <3>3, <3>4, MergedExactly DEF IsRegistry
    <3>6. PICK j \in 1..Len(body) :
            /\ IsSample(body[j], x) /\ sink'[x] = Arriving(body[j], shown)
            /\ \A i \in (j + 1)..Len(body) : ~IsSample(body[i], x)
      BY <1>1, <3>5 DEF MergedUpTo, Arrived
    <3>7. body[j].kind = "sample" /\ body[j].name = x /\ Len(body) \in Nat
      BY <3>3, <3>6, SeqIs DEF IsSample, GoodPage
    <3>8. Comes(body[j], shown, Late)
      BY <3>3, <3>7
    <3>9. CASE ShownAs(body[j], shown)
      <4>1. CASE x = <<Gauge, "cut">> /\ shown[Gauge].text = "misread"
        BY <3>1, <4>1
      <4>2. CASE x = Bucket /\ position # Total
        <5>1. position < Total
          <6>1. position \in Nat /\ Total \in Nat /\ position <= Total
            BY <3>1, SeqIs DEF ReadsInOrder, Total
          <6> QED
            BY <4>2, <6>1
        <5>2. \/ x \in DOMAIN Image(shown) /\ body[j].labels = Image(shown)[x].labels
                   /\ body[j].value = Image(shown)[x].value
              \/ body[j].value \in Range(shown[Latency].counts)
          <6>1. x # <<Gauge, "cut">>
            BY <4>2 DEF Bucket, Latency, Gauge
          <6> QED
            BY <3>7, <3>9, <6>1 DEF ShownAs
        <5>3. CASE body[j].value \in Range(shown[Latency].counts)
          <6>1. sink'[x].value = body[j].value
            BY <3>6 DEF Arriving
          <6> QED
            BY <4>2, <5>1, <5>3, <6>1
        <5>4. CASE x \in DOMAIN Image(shown) /\ body[j].labels = Image(shown)[x].labels
                     /\ body[j].value = Image(shown)[x].value
          <6>1. Arriving(body[j], shown) = Image(shown)[x]
            BY <3>1, <3>6, <3>7, <5>4, LastArrives
          <6> QED
            BY <3>6, <5>4, <6>1
        <5> QED
          BY <5>2, <5>3, <5>4
      <4>3. CASE x = Bucket /\ position = Total
        <5>1. x \in DOMAIN Image(shown) /\ Arriving(body[j], shown) = Image(shown)[x]
          BY <3>1, <3>3, <3>6, <3>7, <4>3, LastArrives
        <5> QED
          BY <3>6, <5>1
      <4>4. CASE x # Bucket /\ ~(x = <<Gauge, "cut">> /\ shown[Gauge].text = "misread")
        <5>1. /\ x \in DOMAIN Image(shown) /\ body[j].labels = Image(shown)[x].labels
              /\ body[j].value = Image(shown)[x].value
          BY <3>7, <3>9, <4>4 DEF ShownAs
        <5>2. Arriving(body[j], shown) = Image(shown)[x]
          BY <3>1, <3>6, <3>7, <5>1, LastArrives
        <5> QED
          BY <3>6, <5>1, <5>2
      <4> QED
        BY <4>1, <4>2, <4>3, <4>4
    <3> QED
      BY <3>7, <3>8, <3>9 DEF Comes
  <2>2. CASE ~Decide
    <3>1. sink' = sink
      BY <1>1, <2>2 DEF Next, Target, Worker, Increment, ObserveSample, Begin, CannotConnect,
                        Connects, StatusLine, NoStatusLine, HeaderLine, HeadersEnd, ReadsBody,
                        BodyEnds, Failed, doneVars, vars
    <3> QED
      BY <1>1, <3>1 DEF Arrived
  <2> QED
    BY <2>1, <2>2
<1>2. FetchInv /\ [Next]_vars => [\A x \in DOMAIN sink' : Arrived(x) => Allowed(x)]_vars
  BY <1>1
<1> QED
  BY <1>2, FetchInvariance, PTL DEF Spec, OnlyTheShownArrives

\* A page that is read to its end makes of the worker's registry just what it
\* shows.
LEMMA WholePageMerges ==
  ASSUME ReadsInOrder, Shows, IsRegistry(sink), Decide, Code = "200", ~Late, position = Total,
         text = "plain"
  PROVE  sink' = With(sink, Image(shown)) /\ successes' = successes + 1
<1> DEFINE image == Image(shown)
<1>1. /\ shown[Counter].type = "counter" /\ shown[Gauge].type = "gauge"
      /\ shown[Gauge].text = "plain"
  BY DEF Shows, Decide, InFlight
<1>2. PICK body :
        /\ sink' = Merged(sink, body)
        /\ successes' = IF Parse(body).ok THEN successes + 1 ELSE successes
        /\ GoodPage(body, shown)
        /\ \A i \in 1..Len(body) : body[i].kind = "sample" => Comes(body[i], shown, Late)
        /\ position = Total => Settled(body, shown)
        /\ position = Total /\ ~Late => PageIs(body, shown)
  BY DecideReads, Zenon
<1>3. PageIs(body, shown)
  BY <1>2
<1>4. /\ Settled(body, shown) /\ \A x \in DOMAIN image : Has(body, x)
      /\ \A i \in 1..Len(body) : ShownAs(body[i], shown)
      /\ Len(body) \in Nat
  BY <1>1, <1>3, SeqIs DEF PageIs, Showing, GoodPage
<1>5. NoJunk(body, Len(body))
  BY <1>1, <1>4 DEF NoJunk, ShownAs
<1>6. Parse(body).ok
  BY <1>2, <1>5, MergedExactly DEF IsRegistry
<1>7. MergedUpTo(sink', sink, body, Len(body), shown)
  BY <1>2, <1>6, MergedExactly DEF IsRegistry
<1>8. Bucket \in DOMAIN image
  BY ImageIs
<1>9. \A x : (\E i \in 1..Len(body) : IsSample(body[i], x)) => x \in DOMAIN image
  BY <1>1, <1>4, <1>8 DEF ShownAs, IsSample
<1>10. DOMAIN sink' = DOMAIN sink \cup DOMAIN image
  BY <1>4, <1>7, <1>9 DEF MergedUpTo, Has
<1>11. ASSUME NEW x \in DOMAIN image PROVE sink'[x] = image[x]
  <2>1. \E i \in 1..Len(body) : IsSample(body[i], x)
    BY <1>4 DEF Has
  <2>2. x \in DOMAIN sink'
    BY <1>10
  <2>3. PICK j \in 1..Len(body) :
          /\ IsSample(body[j], x) /\ sink'[x] = Arriving(body[j], shown)
          /\ \A i \in (j + 1)..Len(body) : ~IsSample(body[i], x)
    BY <1>7, <2>1, <2>2 DEF MergedUpTo
  <2>4. x # <<Gauge, "cut">>
    <3>1. DOMAIN image = {Plain(Counter), Plain(Gauge), Bucket, SumOf, NumOf}
      BY ImageIs
    <3>2. <<Gauge, "cut">> # SumOf /\ <<Gauge, "cut">> # NumOf /\ <<Gauge, "cut">> # Bucket
      BY DEF SumOf, NumOf, Bucket, Gauge, Latency
    <3> QED
      BY <3>1, <3>2, NamesApart
  <2>5. \/ /\ x \in DOMAIN image
           /\ body[j].labels = image[x].labels /\ body[j].value = image[x].value
        \/ x = Bucket /\ Settled(body, shown)
    BY <1>4, <2>3, <2>4 DEF ShownAs, IsSample
  <2>6. Arriving(body[j], shown) = image[x]
    BY <1>1, <1>4, <2>3, <2>5, LastArrives
  <2> QED
    BY <2>3, <2>6
<1>12. ASSUME NEW x \in DOMAIN sink', x \notin DOMAIN image PROVE sink'[x] = sink[x]
  BY <1>7, <1>9, <1>12 DEF MergedUpTo
<1>13. sink' = [x \in DOMAIN sink' |-> sink'[x]]
  BY <1>7 DEF MergedUpTo
<1> HIDE DEF image
<1>14. sink' = With(sink, image)
  BY <1>10, <1>11, <1>12, <1>13 DEF With
<1>15. successes' = successes + 1
  BY <1>2, <1>6
<1> QED
  BY <1>14, <1>15 DEF image

\* A page that is read to its end arrives as it was, and counts as a success:
\* what render and parse do to its metrics is what Image says, and nothing else
\* of the worker's registry changes (metric.cpp:160-203,
\* prometheus_text.cpp:49-148).
THEOREM WholeArrives == Spec => WholePageArrives
<1> DEFINE Whole == /\ pc = "decide" /\ pc' = "idle" /\ Code = "200" /\ ~Late
                    /\ position = Total /\ text = "plain"
<1>1. ASSUME FetchInv, Next, Whole
      PROVE  sink' = With(sink, Image(shown)) /\ successes' = successes + 1
  <2>1. Decide
    BY <1>1 DEF Next, Target, Worker, Increment, ObserveSample, Begin, CannotConnect, Connects,
                StatusLine, NoStatusLine, HeaderLine, HeadersEnd, ReadsBody, BodyEnds
  <2>2. ReadsInOrder /\ Shows /\ IsRegistry(sink)
    BY <1>1 DEF FetchInv, CopyBehind
  <2> QED
    BY <1>1, <2>1, <2>2, WholePageMerges
<1>2. FetchInv /\ [Next]_vars =>
        [Whole => sink' = With(sink, Image(shown)) /\ successes' = successes + 1]_vars
  BY <1>1
<1> QED
  BY <1>2, FetchInvariance, PTL DEF Spec, WholePageArrives
=============================================================================
