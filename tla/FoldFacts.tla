------------------------------ MODULE FoldFacts ------------------------------
(***************************************************************************)
(* Induction over the elements of a sequence, for proofs about what the    *)
(* code computes in a loop: a fold is what its operator makes of one       *)
(* element after the other.  A module takes these facts for an operator of *)
(* its own with INSTANCE, since no lemma with an operator as a parameter   *)
(* can be used.                                                            *)
(***************************************************************************)
EXTENDS Integers, SequencesExt, WellFoundedInduction, TLAPS

CONSTANT Op(_, _)

\* A set of numbers has a least one.
LEMMA LeastElement ==
  ASSUME NEW T, T \subseteq Nat, T # {}
  PROVE  \E m \in T : \A n \in T : m <= n
<1>1. \E m \in T : \A n \in T : ~(<<n, m>> \in OpToRel(<, Nat))
  BY NatLessThanWellFounded, WFMin
<1>2. \A n, m \in Nat : n < m => <<n, m>> \in OpToRel(<, Nat)
  BY DEF OpToRel
<1>3. \A n, m \in T : ~(n < m) => m <= n
  OBVIOUS
<1> QED
  BY <1>1, <1>2, <1>3

\* Induction up to a number.
LEMMA Steps ==
  ASSUME NEW n \in Nat, NEW T, 0 \in T, \A k \in 0..(n - 1) : k \in T => k + 1 \in T
  PROVE  0..n \subseteq T
<1> DEFINE U == (0..n) \ T
<1> SUFFICES ASSUME U # {} PROVE FALSE
  OBVIOUS
<1>1. U \subseteq Nat
  OBVIOUS
<1>2. PICK m \in U : \A k \in U : m <= k
  BY <1>1, LeastElement
<1>3. m # 0 /\ m - 1 \in 0..(n - 1) /\ m - 1 \notin U
  BY <1>2
<1>4. m - 1 \in T
  BY <1>3
<1> QED
  BY <1>3, <1>4

\* The largest of some numbers up to m + 1, which is among them.
LEMMA MaxOfInterval ==
  ASSUME NEW m \in Nat, NEW s \in SUBSET (1..(m + 1)), m + 1 \in s
  PROVE  Max(s) = m + 1
<1>1. \A x \in s : (\A y \in s : x >= y) => x = m + 1
  OBVIOUS
<1>2. m + 1 \in s /\ \A y \in s : m + 1 >= y
  OBVIOUS
<1> QED
  BY <1>1, <1>2 DEF Max

\* f is the function that FoldLeft computes for the subsets of 1..m.
Iterates(f, m, base, seq) ==
  f = [s \in SUBSET (1..m) |->
        IF s = {} THEN base ELSE Op(f[s \ {Max(s)}], seq[Max(s)])]

LEMMA IterationExists ==
  ASSUME NEW base, NEW seq, NEW n \in Nat
  PROVE  \E f : Iterates(f, n, base, seq)
<1> DEFINE T == {m \in Nat : \E f : Iterates(f, m, base, seq)}
<1>1. 0 \in T
  <2> DEFINE f == [s \in SUBSET (1..0) |-> base]
  <2>1. \A s \in SUBSET (1..0) : s = {}
    OBVIOUS
  <2>2. f = [s \in SUBSET (1..0) |->
             IF s = {} THEN base ELSE Op(f[s \ {Max(s)}], seq[Max(s)])]
    BY <2>1
  <2> QED
    BY <2>2 DEF Iterates
<1>2. ASSUME NEW m \in Nat, NEW f, Iterates(f, m, base, seq)
      PROVE  \E g : Iterates(g, m + 1, base, seq)
  <2> DEFINE g == [s \in SUBSET (1..(m + 1)) |->
                     IF m + 1 \in s THEN Op(f[s \ {m + 1}], seq[m + 1]) ELSE f[s]]
             G(s) == IF s = {} THEN base ELSE Op(g[s \ {Max(s)}], seq[Max(s)])
  <2>1. \A s \in SUBSET (1..m) : /\ s \in SUBSET (1..(m + 1)) /\ m + 1 \notin s
                                 /\ g[s] = f[s]
    OBVIOUS
  <2>2. ASSUME NEW s \in SUBSET (1..(m + 1)) PROVE g[s] = G(s)
    <3>1. CASE m + 1 \in s
      <4>1. s \ {m + 1} \in SUBSET (1..m) /\ Max(s) = m + 1 /\ s # {}
        BY <3>1, MaxOfInterval
      <4>2. g[s] = Op(f[s \ {m + 1}], seq[m + 1])
        BY <3>1
      <4>3. g[s \ {m + 1}] = f[s \ {m + 1}]
        BY <2>1, <4>1
      <4> HIDE DEF g
      <4> QED
        BY <4>1, <4>2, <4>3
    <3>2. CASE m + 1 \notin s
      <4>1. s \in SUBSET (1..m) /\ s \ {Max(s)} \in SUBSET (1..m)
        <5>1. s \in SUBSET (1..m)
          BY <3>2
        <5> QED
          BY <5>1, Zenon
      <4>2. f[s] = IF s = {} THEN base ELSE Op(f[s \ {Max(s)}], seq[Max(s)])
        BY <1>2, <4>1 DEF Iterates
      <4> HIDE DEF g
      <4>3. g[s] = f[s] /\ g[s \ {Max(s)}] = f[s \ {Max(s)}]
        BY <2>1, <4>1
      <4> QED
        BY <4>2, <4>3
    <3> QED
      BY <3>1, <3>2
  <2>3. g = [s \in SUBSET (1..(m + 1)) |-> G(s)]
    <3>1. g = [s \in SUBSET (1..(m + 1)) |-> g[s]]
      OBVIOUS
    <3> HIDE DEF g, G
    <3> QED
      BY <2>2, <3>1
  <2> HIDE DEF g
  <2> QED
    BY <2>3 DEF Iterates
<1>3. \A k \in 0..(n - 1) : k \in T => k + 1 \in T
  BY <1>2
<1>4. 0..n \subseteq T
  <2> HIDE DEF T
  <2> QED
    BY <1>1, <1>3, Steps
<1> QED
  BY <1>4

Folded(base, seq) == FoldLeft(Op, base, seq)

\* A fold takes one element after the other.
LEMMA InTurn ==
  ASSUME NEW base, NEW seq, NEW n \in Nat, DOMAIN seq = 1..n
  PROVE  \E st : /\ DOMAIN st = 0..n
                 /\ st[0] = base
                 /\ \A k \in 1..n : st[k] = Op(st[k - 1], seq[k])
                 /\ st[n] = Folded(base, seq)
<1> DEFINE f == CHOOSE f : Iterates(f, n, base, seq)
<1>1. Folded(base, seq) = f[1..n]
  BY DEF Folded, FoldLeft, MapThenFoldSet, Iterates
<1>2. Iterates(f, n, base, seq)
  BY IterationExists
<1> HIDE DEF f
<1>3. \A s \in SUBSET (1..n) : f[s] = IF s = {} THEN base ELSE Op(f[s \ {Max(s)}], seq[Max(s)])
  BY <1>2 DEF Iterates
<1> DEFINE st == [k \in 0..n |-> f[1..k]]
<1>4. st[0] = base
  <2>1. 1..0 = {} /\ 1..0 \in SUBSET (1..n) /\ 0 \in 0..n
    OBVIOUS
  <2>2. f[1..0] = base
    BY <1>3, <2>1
  <2> QED
    BY <2>1, <2>2
<1>5. ASSUME NEW k \in 1..n PROVE st[k] = Op(st[k - 1], seq[k])
  <2>1. 1..k \in SUBSET (1..n) /\ 1..k # {} /\ (1..k) \ {k} = 1..(k - 1)
    OBVIOUS
  <2>2. Max(1..k) = k
    <3> DEFINE m == k - 1
    <3>1. m \in Nat /\ m + 1 = k /\ 1..k \in SUBSET (1..(m + 1)) /\ m + 1 \in 1..k
      OBVIOUS
    <3> HIDE DEF m
    <3> QED
      BY <3>1, MaxOfInterval
  <2>3. k - 1 \in 0..n /\ k \in 0..n
    OBVIOUS
  <2>4. f[1..k] = Op(f[1..(k - 1)], seq[k])
    BY <1>3, <2>1, <2>2
  <2> QED
    BY <2>3, <2>4
<1>6. st[n] = f[1..n] /\ DOMAIN st = 0..n
  OBVIOUS
<1> HIDE DEF st
<1> QED
  BY <1>1, <1>4, <1>5, <1>6

\* The fold of nothing.
LEMMA OfNothing ==
  ASSUME NEW base, NEW seq, DOMAIN seq = 1..0
  PROVE  Folded(base, seq) = base
<1>1. 0 \in Nat
  OBVIOUS
<1> QED
  BY <1>1, InTurn, Zenon

\* The fold of one element more.
LEMMA OneMore ==
  ASSUME NEW base, NEW s, NEW t, NEW n \in Nat, DOMAIN s = 1..n, DOMAIN t = 1..(n + 1),
         \A i \in 1..n : t[i] = s[i]
  PROVE  Folded(base, t) = Op(Folded(base, s), t[n + 1])
<1>1. PICK a : /\ DOMAIN a = 0..n
               /\ a[0] = base
               /\ \A k \in 1..n : a[k] = Op(a[k - 1], s[k])
               /\ a[n] = Folded(base, s)
  BY InTurn, Zenon
<1>2. n + 1 \in Nat
  OBVIOUS
<1>3. PICK b : /\ DOMAIN b = 0..(n + 1)
               /\ b[0] = base
               /\ \A k \in 1..(n + 1) : b[k] = Op(b[k - 1], t[k])
               /\ b[n + 1] = Folded(base, t)
  BY <1>2, InTurn, Zenon
<1> DEFINE T == {k \in 0..n : a[k] = b[k]}
<1>4. 0 \in T
  BY <1>1, <1>3
<1>5. \A k \in 0..(n - 1) : k \in T => k + 1 \in T
  <2> SUFFICES ASSUME NEW k \in 0..(n - 1), a[k] = b[k] PROVE k + 1 \in 0..n /\ a[k + 1] = b[k + 1]
    OBVIOUS
  <2>1. k + 1 \in 1..n /\ k + 1 \in 0..n /\ k + 1 \in 1..(n + 1) /\ (k + 1) - 1 = k
    OBVIOUS
  <2> QED
    BY <1>1, <1>3, <2>1
<1>6. n \in T
  <2>1. n \in 0..n
    OBVIOUS
  <2> HIDE DEF T
  <2> QED
    BY <1>4, <1>5, <2>1, Steps
<1>7. n + 1 \in 1..(n + 1) /\ (n + 1) - 1 = n
  OBVIOUS
<1> QED
  BY <1>1, <1>3, <1>6, <1>7
=============================================================================
