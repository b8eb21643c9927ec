---- MODULE RateLimiter ----
(***************************************************************************)
(* security/rate_limiter.cpp: a limit of admissions per minute for every   *)
(* client key, counted in windows that a client's own first admission      *)
(* opens.  The key is a string the caller chooses (MetricsServer takes     *)
(* the peer's "host:port").                                                *)
(***************************************************************************)
EXTENDS Integers, Sequences, FiniteSets

CONSTANTS Keys,     \* the client ids
          Limits,   \* the values of rate_limit_per_minute a configuration may give
          Window,   \* kWindow, in ticks of the model's clock
          MaxTime   \* bound: the clock stops there

ASSUME LimiterAssumption == /\ Limits \subseteq Nat
                            /\ Window \in Nat \ {0}
                            /\ MaxTime \in Nat \ {0}

VARIABLES maxPerMinute,  \* max_per_minute_, 0 for no limit
          buckets,       \* buckets_; a key without entry has the bucket that operator[] makes
          now,           \* steady_clock::now(), never 0
          admitted       \* history: the times at which each key's admissions were counted

limiterVars == <<maxPerMinute, buckets, now, admitted>>

\* A default-constructed Bucket: its window_start counts as "never opened".
NoBucket == [start |-> 0, count |-> 0]

LimiterInit ==
    /\ maxPerMinute = 0
    /\ buckets = [k \in Keys |-> NoBucket]
    /\ now = 1
    /\ admitted = [k \in Keys |-> <<>>]

SetMaxPerMinute(m) ==
    /\ maxPerMinute' = m
    /\ buckets' = [k \in Keys |-> NoBucket]
    /\ admitted' = [k \in Keys |-> <<>>]
    /\ UNCHANGED now

\* The window of key k that a call at this moment counts in.
Current(k) ==
    IF buckets[k].start = 0 \/ now - buckets[k].start >= Window
    THEN [start |-> now, count |-> 0]
    ELSE buckets[k]

Record(k) == admitted' = [admitted EXCEPT ![k] = Append(@, now)]

\* allow() returns at once when there is no limit.
AllowUnlimited(k) ==
    /\ maxPerMinute = 0
    /\ UNCHANGED limiterVars

\* Mutant: the window admits one too many.
AllowCountedOneMore(k) ==
    /\ maxPerMinute > 0
    /\ Current(k).count <= maxPerMinute
    /\ buckets' = [buckets EXCEPT ![k] = [Current(k) EXCEPT !.count = @ + 1]]
    /\ Record(k)
    /\ UNCHANGED <<maxPerMinute, now>>

AllowCounted(k) ==
    /\ maxPerMinute > 0
    /\ Current(k).count < maxPerMinute
    /\ buckets' = [buckets EXCEPT ![k] = [Current(k) EXCEPT !.count = @ + 1]]
    /\ Record(k)
    /\ UNCHANGED <<maxPerMinute, now>>

Allow(k) == AllowUnlimited(k) \/ AllowCounted(k)

Refuse(k) ==
    /\ maxPerMinute > 0
    /\ Current(k).count >= maxPerMinute
    /\ buckets' = [buckets EXCEPT ![k] = Current(k)]
    /\ UNCHANGED <<maxPerMinute, now, admitted>>

Tick ==
    /\ now < MaxTime
    /\ now' = now + 1
    /\ UNCHANGED <<maxPerMinute, buckets, admitted>>

LimiterNext ==
    \/ \E m \in Limits : SetMaxPerMinute(m)
    \/ \E k \in Keys : Allow(k) \/ Refuse(k)
    \/ Tick

LimiterSpec == LimiterInit /\ [][LimiterNext]_limiterVars

(***************************************************************************)
(* What the limiter promises.                                              *)
(***************************************************************************)

\* Fixed windows let a client through at twice the rate around the end of a
\* window, and no faster: of any 2 * max admissions of one key in a row the
\* first and the last are a whole window apart.  (rate_limiter.cpp:26-37; the
\* windows restart at an admission and not at multiples of a minute, which is
\* what makes the bound 2 * max - 1 in less than a minute and not 2 * max.)
WindowBound ==
    maxPerMinute > 0 =>
        \A k \in Keys : \A i, j \in 1..Len(admitted[k]) :
            j - i >= 2 * maxPerMinute - 1 => admitted[k][j] - admitted[k][i] >= Window
====
