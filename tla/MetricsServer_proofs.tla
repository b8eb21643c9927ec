---- MODULE MetricsServer_proofs ----
(***************************************************************************)
(* Proofs about MetricsServer, for any clients, offers, rules and limits.  *)
(* The server admits as RateLimiter does, so that WindowBound carries      *)
(* over; the safety properties follow from ServerInv, which says how the   *)
(* thread, the connection it serves and the backlog go together.           *)
(***************************************************************************)
EXTENDS MetricsServer, SequenceTheorems, TLAPS

-----------------------------------------------------------------------------
(***************************************************************************)
(* The rate limiter by itself: WindowBound for every limit, every length   *)
(* of the window and any number of keys.  WindowBound looks at the history *)
(* alone; what makes it inductive is how the history of a key lies against *)
(* its bucket: the last "count" admissions belong to the open window, the  *)
(* first of them opened it, and what is a full window's worth of           *)
(* admissions older lies a window before its start.                        *)
(***************************************************************************)

Times == Nat \ {0}

LimiterTypeOK ==
    /\ maxPerMinute \in Nat
    /\ buckets \in [Keys -> [start : Nat, count : Nat]]
    /\ now \in Times
    /\ admitted \in [Keys -> Seq(Times)]

\* The history h of a key and its bucket b, at time t under limit m > 0.
Fits(h, b, t, m) ==
    /\ b.start <= t
    /\ Len(h) > 0 => b.start > 0 /\ b.count \in 1..m /\ b.count <= Len(h)
    /\ Len(h) = 0 => b.start = 0
    /\ \A i \in 1..Len(h) : h[i] <= t
    /\ \A i \in 1..Len(h) : i <= Len(h) - b.count + 1 => h[i] <= b.start
    /\ \A i \in 1..Len(h) : i <= Len(h) - b.count - m + 1 => h[i] + Window <= b.start

Spread(h, m) ==
    \A i, j \in 1..Len(h) : j - i >= 2 * m - 1 => h[j] - h[i] >= Window

LimiterInv ==
    /\ LimiterTypeOK
    /\ maxPerMinute > 0 =>
         \A k \in Keys : /\ Fits(admitted[k], buckets[k], now, maxPerMinute)
                         /\ Spread(admitted[k], maxPerMinute)

\* What appending a time to a history gives.
LEMMA Appended ==
    ASSUME NEW h \in Seq(Times), NEW t \in Times
    PROVE  /\ Append(h, t) \in Seq(Times)
           /\ Len(Append(h, t)) = Len(h) + 1
           /\ Len(h) \in Nat
           /\ \A i \in 1..Len(h) : Append(h, t)[i] = h[i] /\ h[i] \in Nat
           /\ Append(h, t)[Len(h) + 1] = t
           /\ t \in Nat
<1>1. t \in Nat /\ Times \subseteq Nat
  BY DEF Times
<1>2. \A i \in 1..Len(h) : h[i] \in Times
  OBVIOUS
<1>3. \A i \in 1..Len(h) : Append(h, t)[i] = h[i]
  OBVIOUS
<1>4. /\ Append(h, t) \in Seq(Times)
      /\ Len(Append(h, t)) = Len(h) + 1
      /\ Len(h) \in Nat
      /\ Append(h, t)[Len(h) + 1] = t
  OBVIOUS
<1> QED
  BY <1>1, <1>2, <1>3, <1>4

\* An admission in the window that is open.
LEMMA SameWindow ==
    ASSUME NEW h \in Seq(Times), NEW b \in [start : Nat, count : Nat],
           NEW t \in Times, NEW m \in Nat \ {0},
           Fits(h, b, t, m), Spread(h, m),
           b.start # 0, b.count < m, b.count > 0,
           NEW c \in [start : Nat, count : Nat],
           c.start = b.start, c.count = b.count + 1
    PROVE  /\ Fits(Append(h, t), c, t, m)
           /\ Spread(Append(h, t), m)
<1> DEFINE g == Append(h, t)
<1>1. /\ g \in Seq(Times)
      /\ Len(g) = Len(h) + 1
      /\ Len(h) \in Nat
      /\ \A i \in 1..Len(h) : g[i] = h[i] /\ h[i] \in Nat
      /\ g[Len(h) + 1] = t
      /\ t \in Nat
  BY Appended
<1>2. Window \in Nat \ {0}
  BY LimiterAssumption
<1> HIDE DEF g
<1>3. Len(h) > 0
  BY DEF Fits
<1>4. \A i \in 1..Len(g) : i <= Len(g) - c.count - m + 1 => g[i] + Window <= c.start
  <2> TAKE i \in 1..Len(g)
  <2> HAVE i <= Len(g) - c.count - m + 1
  <2>1. i \in 1..Len(h) /\ i <= Len(h) - b.count - m + 1
    BY <1>1
  <2> QED
    BY <2>1, <1>1 DEF Fits
<1>5. \A i \in 1..Len(g) : i <= Len(g) - c.count + 1 => g[i] <= c.start
  <2> TAKE i \in 1..Len(g)
  <2> HAVE i <= Len(g) - c.count + 1
  <2>1. i \in 1..Len(h) /\ i <= Len(h) - b.count + 1
    BY <1>1
  <2> QED
    BY <2>1, <1>1 DEF Fits
<1>6. Fits(g, c, t, m)
  <2>1. \A i \in 1..Len(g) : g[i] <= t
    <3> TAKE i \in 1..Len(g)
    <3>1. CASE i \in 1..Len(h)
      BY <3>1, <1>1 DEF Fits
    <3>2. CASE i = Len(h) + 1
      BY <3>2, <1>1
    <3> QED
      BY <3>1, <3>2, <1>1
  <2>2. c.start <= t /\ c.start > 0
    BY DEF Fits
  <2>3. c.count \in 1..m /\ c.count <= Len(g) /\ Len(g) > 0
    BY <1>1, <1>3 DEF Fits
  <2> QED
    BY <2>1, <2>2, <2>3, <1>4, <1>5 DEF Fits
<1>7. Spread(g, m)
  <2> SUFFICES ASSUME NEW i \in 1..Len(g), NEW j \in 1..Len(g), j - i >= 2 * m - 1
               PROVE  g[j] - g[i] >= Window
    BY DEF Spread
  <2>1. CASE j <= Len(h)
    <3>1. i \in 1..Len(h) /\ j \in 1..Len(h)
      BY <2>1, <1>1
    <3> QED
      BY <3>1, <1>1 DEF Spread
  <2>2. CASE j = Len(h) + 1
    <3>1. i \in 1..Len(h) /\ i <= Len(h) - b.count - m + 1
      BY <2>2, <1>1
    <3>2. h[i] + Window <= b.start /\ b.start <= t
      BY <3>1 DEF Fits
    <3> QED
      BY <3>1, <3>2, <2>2, <1>1, <1>2
  <2>3. Len(g) = Len(h) + 1 /\ Len(h) \in Nat
    BY <1>1
  <2>4. j <= Len(h) \/ j = Len(h) + 1
    BY <2>3
  <2> QED
    BY <2>1, <2>2, <2>4
<1> QED
  BY <1>6, <1>7 DEF g

\* An admission that opens a window.
LEMMA NewWindow ==
    ASSUME NEW h \in Seq(Times), NEW b \in [start : Nat, count : Nat],
           NEW t \in Times, NEW m \in Nat \ {0},
           Fits(h, b, t, m), Spread(h, m),
           b.start = 0 \/ t - b.start >= Window,
           NEW c \in [start : Nat, count : Nat],
           c.start = t, c.count = 1
    PROVE  /\ Fits(Append(h, t), c, t, m)
           /\ Spread(Append(h, t), m)
<1> DEFINE g == Append(h, t)
<1>1. /\ g \in Seq(Times)
      /\ Len(g) = Len(h) + 1
      /\ Len(h) \in Nat
      /\ \A i \in 1..Len(h) : g[i] = h[i] /\ h[i] \in Nat
      /\ g[Len(h) + 1] = t
      /\ t \in Nat
  BY Appended
<1>2. Window \in Nat \ {0}
  BY LimiterAssumption
<1> HIDE DEF g
\* Older than the last m - 1 admissions: in a window that ended before.
<1>3. \A i \in 1..Len(h) : i <= Len(h) - m + 1 => h[i] + Window <= t
  <2> TAKE i \in 1..Len(h)
  <2> HAVE i <= Len(h) - m + 1
  <2>1. b.start > 0 /\ b.count \in 1..m /\ t - b.start >= Window
    BY <1>1 DEF Fits
  <2>2. h[i] <= b.start
    BY <2>1, <1>1 DEF Fits
  <2> QED
    BY <2>1, <2>2, <1>1, <1>2
<1>4. \A i \in 1..Len(g) : i <= Len(g) - c.count - m + 1 => g[i] + Window <= c.start
  <2> TAKE i \in 1..Len(g)
  <2> HAVE i <= Len(g) - c.count - m + 1
  <2>1. i \in 1..Len(h) /\ i <= Len(h) - m + 1
    BY <1>1
  <2> QED
    BY <2>1, <1>1, <1>3
<1>5. \A i \in 1..Len(g) : g[i] <= t
  <2> TAKE i \in 1..Len(g)
  <2>1. CASE i \in 1..Len(h)
    BY <2>1, <1>1 DEF Fits
  <2>2. CASE i = Len(h) + 1
    BY <2>2, <1>1
  <2> QED
    BY <2>1, <2>2, <1>1
<1>6. Fits(g, c, t, m)
  <2>1. c.start <= t /\ c.start > 0
    BY DEF Times
  <2>2. c.count \in 1..m /\ c.count <= Len(g) /\ Len(g) > 0
    BY <1>1
  <2> QED
    BY <2>1, <2>2, <1>4, <1>5 DEF Fits
<1>7. Spread(g, m)
  <2> SUFFICES ASSUME NEW i \in 1..Len(g), NEW j \in 1..Len(g), j - i >= 2 * m - 1
               PROVE  g[j] - g[i] >= Window
    BY DEF Spread
  <2>1. CASE j <= Len(h)
    <3>1. i \in 1..Len(h) /\ j \in 1..Len(h)
      BY <2>1, <1>1
    <3> QED
      BY <3>1, <1>1 DEF Spread
  <2>2. CASE j = Len(h) + 1
    <3>1. i \in 1..Len(h) /\ i <= Len(h) - m + 1
      BY <2>2, <1>1
    <3>2. h[i] + Window <= t
      BY <3>1, <1>3
    <3> QED
      BY <3>1, <3>2, <2>2, <1>1, <1>2
  <2>3. Len(g) = Len(h) + 1 /\ Len(h) \in Nat
    BY <1>1
  <2>4. j <= Len(h) \/ j = Len(h) + 1
    BY <2>3
  <2> QED
    BY <2>1, <2>2, <2>4
<1> QED
  BY <1>6, <1>7 DEF g

\* A history that is empty fits the bucket that operator[] makes.
LEMMA EmptyFits ==
    ASSUME NEW t \in Times, NEW m \in Nat
    PROVE  /\ Fits(<<>>, NoBucket, t, m)
           /\ Spread(<<>>, m)
<1>1. Len(<<>>) = 0 /\ 1..Len(<<>>) = {}
  OBVIOUS
<1>2. NoBucket.start = 0
  BY DEF NoBucket
<1>3. NoBucket.start <= t
  BY <1>2 DEF Times
<1>4. Fits(<<>>, NoBucket, t, m)
  <2>1. ~(Len(<<>>) > 0)
    BY <1>1
  <2> QED
    BY <2>1, <1>1, <1>2, <1>3 DEF Fits
<1>5. Spread(<<>>, m)
  BY <1>1 DEF Spread
<1> QED
  BY <1>4, <1>5

\* A limiter that is constructed satisfies the invariant.
LEMMA InitLimiterInv == LimiterInit => LimiterInv
  BY DEF LimiterInit, LimiterInv, LimiterTypeOK, NoBucket, Times

\* setMaxPerMinute() keeps it: it clears the buckets.
LEMMA SetKeepsLimiterInv ==
    ASSUME LimiterInv, NEW m \in Limits, SetMaxPerMinute(m)
    PROVE  LimiterInv'
<1>1. m \in Nat
  BY LimiterAssumption
<1>2. LimiterTypeOK'
  BY <1>1 DEF LimiterInv, LimiterTypeOK, SetMaxPerMinute, NoBucket
<1>3. \A k \in Keys : /\ Fits(<<>>, NoBucket, now, m)
                      /\ Spread(<<>>, m)
  BY <1>1, EmptyFits DEF LimiterInv, LimiterTypeOK
<1>4. \A k \in Keys : admitted'[k] = <<>> /\ buckets'[k] = NoBucket
  BY DEF SetMaxPerMinute
<1>5. now' = now /\ maxPerMinute' = m
  BY DEF SetMaxPerMinute
<1> QED
  BY <1>2, <1>3, <1>4, <1>5 DEF LimiterInv

\* An admission keeps it.
LEMMA AllowKeepsLimiterInv ==
    ASSUME LimiterInv, NEW k \in Keys, AllowCounted(k)
    PROVE  LimiterInv'
<1> DEFINE b == buckets[k]
           h == admitted[k]
           c == [Current(k) EXCEPT !.count = @ + 1]
<1>1. /\ b \in [start : Nat, count : Nat]
      /\ h \in Seq(Times)
      /\ now \in Times
      /\ maxPerMinute \in Nat \ {0}
      /\ Fits(h, b, now, maxPerMinute)
      /\ Spread(h, maxPerMinute)
  BY DEF LimiterInv, LimiterTypeOK, AllowCounted
<1>2. /\ Current(k) \in [start : Nat, count : Nat]
      /\ c \in [start : Nat, count : Nat]
      /\ c.start = Current(k).start
      /\ c.count = Current(k).count + 1
  BY <1>1 DEF Current, Times
<1>3. /\ now' = now
      /\ maxPerMinute' = maxPerMinute
      /\ buckets' = [buckets EXCEPT ![k] = c]
      /\ admitted' = [admitted EXCEPT ![k] = Append(h, now)]
      /\ Current(k).count < maxPerMinute
  BY DEF AllowCounted, Record
<1>4. /\ Fits(Append(h, now), c, now, maxPerMinute)
      /\ Spread(Append(h, now), maxPerMinute)
  <2>1. CASE b.start = 0 \/ now - b.start >= Window
    <3>1. c.start = now /\ c.count = 1
      BY <2>1, <1>2 DEF Current
    <3> HIDE DEF b, h, c
    <3> QED
      BY <3>1, <2>1, <1>1, <1>2, NewWindow
  <2>2. CASE ~(b.start = 0 \/ now - b.start >= Window)
    <3>1. Current(k) = b
      BY <2>2 DEF Current
    <3>2. b.start # 0 /\ b.count < maxPerMinute /\ c.start = b.start /\ c.count = b.count + 1
      BY <3>1, <2>2, <1>2, <1>3
    <3>3. Len(h) > 0 /\ b.count > 0
      BY <3>2, <1>1 DEF Fits
    <3> HIDE DEF b, h, c
    <3> QED
      BY <3>2, <3>3, <1>1, <1>2, SameWindow
  <2> QED
    BY <2>1, <2>2
<1> HIDE DEF b, h, c
<1>5. LimiterTypeOK'
  <2>1. Append(h, now) \in Seq(Times)
    BY <1>1
  <2> QED
    BY <2>1, <1>2, <1>3 DEF LimiterInv, LimiterTypeOK
<1>6. \A q \in Keys : /\ Fits(admitted'[q], buckets'[q], now, maxPerMinute)
                      /\ Spread(admitted'[q], maxPerMinute)
  BY <1>1, <1>3, <1>4 DEF LimiterInv, LimiterTypeOK
<1> QED
  BY <1>3, <1>5, <1>6 DEF LimiterInv

\* With a limit above 0 a fresh window refuses nobody, so that a refusal
\* leaves the bucket as it is.
LEMMA RefuseKeepsLimiterInv ==
    ASSUME LimiterInv, NEW k \in Keys, Refuse(k)
    PROVE  LimiterInv'
<1>1. Current(k) = buckets[k]
  BY DEF Refuse, Current, LimiterInv, LimiterTypeOK
<1>2. buckets' = buckets
  BY <1>1 DEF Refuse, LimiterInv, LimiterTypeOK
<1>3. UNCHANGED limiterVars
  BY <1>2 DEF Refuse, limiterVars
<1> QED
  BY <1>3 DEF LimiterInv, LimiterTypeOK, limiterVars

\* The passing of time keeps it: a window that closes stays where it is.
LEMMA TickKeepsLimiterInv ==
    ASSUME LimiterInv, Tick
    PROVE  LimiterInv'
<1>1. /\ now' = now + 1
      /\ now \in Times
      /\ now' \in Times
      /\ UNCHANGED <<maxPerMinute, buckets, admitted>>
  BY DEF Tick, LimiterInv, LimiterTypeOK, Times
<1>2. LimiterTypeOK'
  BY <1>1 DEF LimiterInv, LimiterTypeOK
<1>3. ASSUME NEW k \in Keys, maxPerMinute > 0
      PROVE  Fits(admitted[k], buckets[k], now', maxPerMinute)
  <2> DEFINE h == admitted[k]
             b == buckets[k]
             m == maxPerMinute
             t == now
  <2>1. Fits(h, b, t, m) /\ h \in Seq(Times) /\ b \in [start : Nat, count : Nat]
    BY <1>3 DEF LimiterInv, LimiterTypeOK
  <2>2. \A i \in 1..Len(h) : h[i] \in Nat /\ h[i] <= t
    BY <2>1 DEF Fits, Times
  <2>3. t \in Nat /\ b.start \in Nat /\ b.start <= t
    BY <2>1, <1>1 DEF Fits, Times
  <2> HIDE DEF h, b, m, t
  <2>4. b.start <= t + 1 /\ \A i \in 1..Len(h) : h[i] <= t + 1
    BY <2>2, <2>3
  <2>5. Fits(h, b, t + 1, m)
    BY <2>1, <2>4 DEF Fits
  <2> QED
    BY <2>5, <1>1 DEF h, b, m, t
<1> QED
  BY <1>1, <1>2, <1>3 DEF LimiterInv

\* Every step keeps the invariant.
LEMMA LimiterStep == LimiterInv /\ [LimiterNext]_limiterVars => LimiterInv'
<1> SUFFICES ASSUME LimiterInv, [LimiterNext]_limiterVars
             PROVE  LimiterInv'
  OBVIOUS
<1>1. CASE \E m \in Limits : SetMaxPerMinute(m)
  BY <1>1, SetKeepsLimiterInv
<1>2. ASSUME NEW k \in Keys, Allow(k)
      PROVE  LimiterInv'
  <2>1. CASE AllowUnlimited(k)
    BY <2>1 DEF AllowUnlimited, limiterVars, LimiterInv, LimiterTypeOK
  <2>2. CASE AllowCounted(k)
    BY <2>2, AllowKeepsLimiterInv
  <2> QED
    BY <1>2, <2>1, <2>2 DEF Allow
<1>3. ASSUME NEW k \in Keys, Refuse(k)
      PROVE  LimiterInv'
  BY <1>3, RefuseKeepsLimiterInv
<1>4. CASE Tick
  BY <1>4, TickKeepsLimiterInv
<1>5. CASE UNCHANGED limiterVars
  BY <1>5 DEF limiterVars, LimiterInv, LimiterTypeOK
<1> QED
  BY <1>1, <1>2, <1>3, <1>4, <1>5 DEF LimiterNext

\* The invariant implies the bound: it is Spread.
LEMMA LimiterInvBounds == LimiterInv => WindowBound
  BY DEF LimiterInv, Spread, WindowBound

\* Of any 2 * max admissions of a key in a row the last comes a whole window
\* after the first: for every limit, length of the window and number of keys
\* (rate_limiter.cpp:21-38).
THEOREM LimiterIsBounded == LimiterSpec => []WindowBound
<1>1. LimiterSpec => []LimiterInv
  BY InitLimiterInv, LimiterStep, PTL DEF LimiterSpec
<1> QED
  BY <1>1, LimiterInvBounds, PTL

-----------------------------------------------------------------------------
(* The server. *)

USE ServerAssumption

Serving == {"line", "headers", "length", "body", "decide", "send"}

\* The thread has a connection exactly while it is in handleClient(), and that
\* connection is the only one that is open.
OneOpen ==
    /\ thread \in Serving <=> current # None
    /\ \A c \in Clients : conn[c].stage = "open" <=> current = c

\* What the owner has done determines whether there is a listener and a thread.
OwnerMatches ==
    /\ listening <=> owner \in {"started", "closing"}
    /\ owner \in {"constructed", "configured"} => thread = "none"
    /\ owner = "stopped" => thread \in {"none", "ended"}

\* The backlog lists connections that wait, each once, and there is none
\* without a listener.
BacklogWaits ==
    /\ \A i \in 1..Len(backlog) : conn[backlog[i]].stage = "queued"
    /\ \A i, j \in 1..Len(backlog) : backlog[i] = backlog[j] => i = j
    /\ \A c \in Clients : conn[c].stage = "queued" => listening

\* The variables of handleClient() are its connection's own.
OwnHeaders ==
    /\ current = None => got = NoHeaders
    /\ current # None => got.auth \in {"none", Request(current).auth}
    /\ reply # 0 => thread = "send"

\* Who has written something is being served, or has been.
WritersServed ==
    \A c \in Clients : Wrote(c) => current = c \/ conn[c].stage = "ended"

\* An answer is the last thing a connection gets.
AnsweredLast ==
    \A c \in Clients : conn[c].stage # "ended" => conn[c].answer = 0

ServerInv == /\ TypeOK
             /\ OneOpen
             /\ AnsweredLast
             /\ OwnerMatches
             /\ BacklogWaits
             /\ OwnHeaders
             /\ WritersServed
             /\ RefusalHasNoEffect
             /\ OnlyPermittedWrite

----
\* The connection that ends keeps its offer, and whether its client is gone.
LEMMA OverType ==
    ASSUME TypeOK, NEW c \in Clients, NEW a \in Statuses
    PROVE  /\ Over(c, a) \in Connections
           /\ Over(c, a).offer = conn[c].offer
           /\ Over(c, a).gone = conn[c].gone
           /\ Over(c, a).stage = "ended"
           /\ Over(c, a).answer = a
           /\ Over(c, a).sent = 0
           /\ Over(c, a).read = 0
<1>1. conn[c] \in Connections
  BY DEF TypeOK
<1> QED
  BY <1>1 DEF Over, Connections, Stages

\* The initial state satisfies the invariant.
LEMMA InitServer == Init => ServerInv
<1> SUFFICES ASSUME Init PROVE ServerInv
  OBVIOUS
<1>1. PICK o \in [Clients -> UNION {Offers[c] : c \in Clients}] :
        /\ \A c \in Clients : o[c] \in Offers[c]
        /\ conn = [c \in Clients |->
                     [offer |-> o[c], stage |-> "idle", sent |-> 0, read |-> 0,
                      filler |-> FALSE, gone |-> FALSE, prompt |-> TRUE, answer |-> 0]]
  BY DEF Init
<1>2. \A c \in Clients : o[c] \in [request : Requests, peer : Keys]
  BY <1>1
<1>3. \A c \in Clients :
        /\ conn[c] \in Connections
        /\ conn[c].stage = "idle" /\ conn[c].sent = 0 /\ conn[c].read = 0
  BY <1>1, <1>2 DEF Connections, Stages, Statuses
<1>4. conn \in [Clients -> Connections]
  BY <1>1, <1>3
<1>5. /\ got \in [length : Lengths, auth : Auths]
      /\ body \in [format : Formats, lines : Seq(Lines)]
      /\ backlog \in Seq(Clients)
  BY EmptySeq DEF Init, NoHeaders, NoBody, Lengths, Auths, Formats
<1>6. TypeOK
  <2>1. \A c \in Clients : conn[c].read <= conn[c].sent
    BY <1>3
  <2> QED
    BY <1>4, <1>5, <2>1 DEF Init, LimiterInit, TypeOK, Statuses, Places
<1>7. backlog = <<>> /\ written = {} /\ current = None /\ reply = 0 /\ thread = "none"
      /\ got = NoHeaders /\ owner = "constructed" /\ listening = FALSE
  BY DEF Init
<1>8. OneOpen
  BY <1>3, <1>7 DEF OneOpen, Serving
<1>9. BacklogWaits
  BY <1>3, <1>7 DEF BacklogWaits
<1>9a. AnsweredLast
  BY <1>1 DEF AnsweredLast
<1>10. OwnerMatches /\ OwnHeaders
  BY <1>7 DEF OwnerMatches, OwnHeaders
<1>11. WritersServed /\ RefusalHasNoEffect /\ OnlyPermittedWrite
  BY <1>7 DEF WritersServed, RefusalHasNoEffect, OnlyPermittedWrite, Wrote
<1> QED
  BY <1>6, <1>8, <1>9, <1>9a, <1>10, <1>11 DEF ServerInv

----
(***************************************************************************)
(* What the steps do to the connections                                    *)
(***************************************************************************)

\* A step that opens and ends no connection.
Quiet ==
    \A d \in Clients : /\ conn'[d].offer = conn[d].offer
                       /\ conn'[d].stage = conn[d].stage
                       /\ conn'[d].answer = conn[d].answer
                       /\ conn[d].gone => conn'[d].gone

ConnTypes == /\ conn' \in [Clients -> Connections]
             /\ \A d \in Clients : conn'[d].read <= conn'[d].sent

\* What an update of one field leaves of a connection.
Like(y, x) == /\ y \in Connections
              /\ y.offer = x.offer /\ y.stage = x.stage /\ y.answer = x.answer

\* The counts of a connection are updated apart from the rest of it.
LEMMA UpdatedCount ==
    ASSUME NEW x \in Connections, NEW n \in Nat
    PROVE  /\ LET y == [x EXCEPT !.sent = n] IN
              Like(y, x) /\ y.sent = n /\ y.read = x.read /\ y.gone = x.gone
           /\ LET y == [x EXCEPT !.read = n] IN
              Like(y, x) /\ y.read = n /\ y.sent = x.sent /\ y.gone = x.gone
  BY DEF Connections, Like

\* So are its flags.
LEMMA UpdatedFlag ==
    ASSUME NEW x \in Connections, NEW b \in BOOLEAN
    PROVE  /\ LET y == [x EXCEPT !.filler = b] IN
              Like(y, x) /\ y.sent = x.sent /\ y.read = x.read /\ y.gone = x.gone
           /\ LET y == [x EXCEPT !.prompt = b] IN
              Like(y, x) /\ y.sent = x.sent /\ y.read = x.read /\ y.gone = x.gone
           /\ LET y == [x EXCEPT !.gone = b] IN
              Like(y, x) /\ y.sent = x.sent /\ y.read = x.read /\ y.gone = b
  BY DEF Connections, Like

\* A step that changes what one client has sent, or the server has read of it.
LEMMA QuietUpdate ==
    ASSUME TypeOK, NEW c \in Clients, NEW y, Like(y, conn[c]),
           y.read <= y.sent, conn[c].gone => y.gone,
           conn' = [conn EXCEPT ![c] = y]
    PROVE  Quiet /\ ConnTypes
<1>1. /\ conn \in [Clients -> Connections]
      /\ \A d \in Clients : conn[d].read <= conn[d].sent
  BY DEF TypeOK
<1>2. \A d \in Clients : conn'[d] = IF d = c THEN y ELSE conn[d]
  BY <1>1
<1>3. conn' \in [Clients -> Connections]
  BY <1>1 DEF Like
<1> QED
  BY <1>1, <1>2, <1>3 DEF Quiet, ConnTypes, Like

\* A step that leaves the connections alone.
LEMMA QuietStutter == TypeOK /\ UNCHANGED conn => Quiet /\ ConnTypes
  BY DEF TypeOK, Quiet, ConnTypes

\* The type of a connection's end.
LEMMA ConnType ==
    ASSUME TypeOK, NEW c \in Clients
    PROVE  /\ conn[c] \in Connections
           /\ conn[c].sent \in Nat /\ conn[c].read \in Nat
           /\ conn[c].read <= conn[c].sent
           /\ conn \in [Clients -> Connections]
<1>1. conn[c] \in Connections /\ conn[c].read <= conn[c].sent
  BY DEF TypeOK
<1> QED
  BY <1>1 DEF Connections, TypeOK

\* The steps of a client that is connected.
LEMMA ClientQuiet ==
    ASSUME TypeOK, NEW c \in Clients, WritePart(c) \/ WriteFiller(c) \/ HangUp(c)
    PROVE  Quiet /\ ConnTypes
<1>0. /\ conn[c] \in Connections
      /\ conn[c].sent \in Nat /\ conn[c].read \in Nat
      /\ conn[c].read <= conn[c].sent
      /\ conn \in [Clients -> Connections]
  BY ConnType
<1>1. CASE WritePart(c)
  <2> DEFINE y == [conn[c] EXCEPT !.sent = conn[c].sent + 1]
  <2>1. conn' = [conn EXCEPT ![c] = y]
    BY <1>0, <1>1 DEF WritePart
  <2>2. conn[c].sent + 1 \in Nat /\ conn[c].read <= conn[c].sent + 1
    BY <1>0
  <2>3. Like(y, conn[c]) /\ y.read <= y.sent /\ y.gone = conn[c].gone
    BY <1>0, <2>2, UpdatedCount
  <2> HIDE DEF y
  <2> QED
    BY <1>0, <2>1, <2>3, QuietUpdate
<1>2. CASE WriteFiller(c)
  <2> DEFINE y == [conn[c] EXCEPT !.filler = TRUE]
  <2>1. conn' = [conn EXCEPT ![c] = y]
    BY <1>0, <1>2 DEF WriteFiller
  <2>2. Like(y, conn[c]) /\ y.read <= y.sent /\ y.gone = conn[c].gone
    BY <1>0, UpdatedFlag
  <2> HIDE DEF y
  <2> QED
    BY <1>0, <2>1, <2>2, QuietUpdate
<1>3. CASE HangUp(c)
  <2> DEFINE y == [conn[c] EXCEPT !.gone = TRUE]
  <2>1. conn' = [conn EXCEPT ![c] = y]
    BY <1>0, <1>3 DEF HangUp
  <2>2. Like(y, conn[c]) /\ y.read <= y.sent /\ y.gone = TRUE
    BY <1>0, UpdatedFlag
  <2> HIDE DEF y
  <2> QED
    BY <1>0, <2>1, <2>2, QuietUpdate
<1> QED
  BY <1>1, <1>2, <1>3

\* The thread has read a part, or found that it does not come.
LEMMA ReadQuiet ==
    ASSUME TypeOK, NEW c \in Clients, NEW n \in Nat, n <= conn[c].sent,
           \/ conn' = [conn EXCEPT ![c].read = n]
           \/ conn' = [conn EXCEPT ![c].filler = FALSE]
           \/ conn' = [conn EXCEPT ![c].prompt = FALSE]
    PROVE  Quiet /\ ConnTypes
<1>0. /\ conn[c] \in Connections
      /\ conn[c].sent \in Nat /\ conn[c].read \in Nat
      /\ conn[c].read <= conn[c].sent
      /\ conn \in [Clients -> Connections]
  BY ConnType
<1>1. CASE conn' = [conn EXCEPT ![c].read = n]
  <2> DEFINE y == [conn[c] EXCEPT !.read = n]
  <2>1. conn' = [conn EXCEPT ![c] = y]
    BY <1>0, <1>1
  <2>2. Like(y, conn[c]) /\ y.read <= y.sent /\ y.gone = conn[c].gone
    BY <1>0, UpdatedCount
  <2> HIDE DEF y
  <2> QED
    BY <1>0, <2>1, <2>2, QuietUpdate
<1>2. CASE conn' = [conn EXCEPT ![c].filler = FALSE]
  <2> DEFINE y == [conn[c] EXCEPT !.filler = FALSE]
  <2>1. conn' = [conn EXCEPT ![c] = y]
    BY <1>0, <1>2
  <2>2. Like(y, conn[c]) /\ y.sent = conn[c].sent /\ y.read = conn[c].read
        /\ y.gone = conn[c].gone
    BY <1>0, UpdatedFlag
  <2> HIDE DEF y
  <2> QED
    BY <1>0, <2>1, <2>2, QuietUpdate
<1>3. CASE conn' = [conn EXCEPT ![c].prompt = FALSE]
  <2> DEFINE y == [conn[c] EXCEPT !.prompt = FALSE]
  <2>1. conn' = [conn EXCEPT ![c] = y]
    BY <1>0, <1>3
  <2>2. Like(y, conn[c]) /\ y.sent = conn[c].sent /\ y.read = conn[c].read
        /\ y.gone = conn[c].gone
    BY <1>0, UpdatedFlag
  <2> HIDE DEF y
  <2> QED
    BY <1>0, <2>1, <2>2, QuietUpdate
<1> QED
  BY <1>1, <1>2, <1>3

----
(***************************************************************************)
(* What keeps the parts of the invariant                                   *)
(***************************************************************************)

\* A step that opens and ends no connection keeps what ties them to the thread.
LEMMA QuietKeeps ==
    ASSUME ServerInv, Quiet, UNCHANGED <<current, backlog>>,
           thread' \in Serving <=> thread \in Serving,
           listening => listening'
    PROVE  OneOpen' /\ AnsweredLast' /\ BacklogWaits'
<1>1. \A i \in 1..Len(backlog) : backlog[i] \in Clients
  BY DEF ServerInv, TypeOK
<1>2. OneOpen' /\ AnsweredLast'
  BY DEF ServerInv, OneOpen, AnsweredLast, Quiet
<1>3. BacklogWaits'
  BY <1>1 DEF ServerInv, BacklogWaits, Quiet
<1> QED
  BY <1>2, <1>3

\* A step without a new writer keeps that the writers are permitted.
LEMMA PermittedStays ==
    ASSUME ServerInv,
           \A c \in Clients : /\ Request(c)' = Request(c) /\ Peer(c)' = Peer(c)
                              /\ Wrote(c)' => Wrote(c)
    PROVE  OnlyPermittedWrite'
<1> SUFFICES ASSUME NEW c \in Clients, Wrote(c)'
             PROVE  (/\ Ingests(Request(c))
                     /\ \/ Entitled(Peer(c), "ingest", Request(c).auth)
                        \/ NamesUser(Peer(c), Request(c).auth))'
  BY DEF OnlyPermittedWrite
<1>1. /\ Ingests(Request(c))
      /\ \/ Entitled(Peer(c), "ingest", Request(c).auth)
         \/ NamesUser(Peer(c), Request(c).auth)
  BY DEF ServerInv, OnlyPermittedWrite
<1> QED
  BY <1>1 DEF Ingests, Entitled, NamesUser, IpAllowed

\* A step that writes nothing, too, keeps what is known of the writers.
LEMMA SilentKeeps ==
    ASSUME ServerInv, Quiet, UNCHANGED <<current, written>>,
           reply = 200 => reply' = 200
    PROVE  WritersServed' /\ RefusalHasNoEffect' /\ OnlyPermittedWrite'
<1>1. \A c \in Clients : Wrote(c)' <=> Wrote(c)
  BY DEF Wrote
<1>2. \A c \in Clients : Request(c)' = Request(c) /\ Peer(c)' = Peer(c)
  BY DEF Quiet, Request, Peer
<1>3. WritersServed' /\ RefusalHasNoEffect'
  BY <1>1 DEF ServerInv, WritersServed, RefusalHasNoEffect, Quiet
<1>4. OnlyPermittedWrite'
  BY <1>1, <1>2, PermittedStays
<1> QED
  BY <1>3, <1>4

\* The client that is served.
LEMMA Served ==
    ASSUME ServerInv, thread \in Serving
    PROVE  /\ current \in Clients
           /\ conn[current].stage = "open"
           /\ conn[current].answer = 0
           /\ conn[current] \in Connections
           /\ conn[current].offer \in [request : Requests, peer : Keys]
           /\ Request(current) \in Requests /\ Peer(current) \in Keys
           /\ conn[current].sent \in Nat /\ conn[current].read \in Nat
           /\ conn[current].read <= conn[current].sent
           /\ thread # "send" => reply = 0
           /\ got.auth \in {"none", Request(current).auth}
<1>1. current # None
  BY DEF ServerInv, OneOpen
<1>2. current \in Clients
  BY <1>1 DEF ServerInv, TypeOK
<1>3. conn[current].stage = "open" /\ conn[current].answer = 0
  BY <1>2 DEF ServerInv, OneOpen, AnsweredLast
<1>4. /\ conn[current] \in Connections
      /\ conn[current].sent \in Nat /\ conn[current].read \in Nat
      /\ conn[current].read <= conn[current].sent
  BY <1>2, ConnType DEF ServerInv
<1>5. conn[current].offer \in [request : Requests, peer : Keys]
  BY <1>4 DEF Connections
<1>6. Request(current) \in Requests /\ Peer(current) \in Keys
  BY <1>5 DEF Request, Peer
<1>7. (thread # "send" => reply = 0) /\ got.auth \in {"none", Request(current).auth}
  BY <1>1 DEF ServerInv, OwnHeaders
<1> QED
  BY <1>2, <1>3, <1>4, <1>5, <1>6, <1>7

\* A step of the reading keeps the invariant.
LEMMA ReadingKeeps ==
    ASSUME ServerInv, Quiet, ConnTypes,
           thread \in Serving \ {"send"}, thread' \in Serving \ {"send"},
           ReadStep, UNCHANGED <<current, reply>>,
           got' \in [length : Lengths, auth : Auths],
           got'.auth \in {"none", Request(current).auth},
           body' \in [format : Formats, lines : Seq(Lines)]
    PROVE  ServerInv'
<1>1. /\ UNCHANGED <<maxPerMinute, owner, running, listening, backlog, written>>
      /\ current \in Clients /\ reply = 0 /\ thread # "none"
  BY Served DEF ReadStep, limiterVars, Serving
<1>2. TypeOK'
  BY <1>1 DEF ServerInv, TypeOK, ConnTypes, Places, Serving
<1>3. OneOpen' /\ AnsweredLast' /\ BacklogWaits'
  BY <1>1, QuietKeeps
<1>4. OwnerMatches'
  BY <1>1 DEF ServerInv, OwnerMatches, Serving
<1>5. Request(current)' = Request(current)
  BY <1>1 DEF Quiet, Request
<1>6. current # None
  BY <1>1
<1>7. OwnHeaders'
  BY <1>1, <1>5, <1>6 DEF OwnHeaders
<1>8. WritersServed' /\ RefusalHasNoEffect' /\ OnlyPermittedWrite'
  BY <1>1, SilentKeeps
<1> QED
  BY <1>2, <1>3, <1>4, <1>7, <1>8 DEF ServerInv

----
(***************************************************************************)
(* handleClient()                                                          *)
(***************************************************************************)

\* What a read from the wrong place gives is a body again.
LEMMA AstrayBody ==
    ASSUME NEW l \in Seq(Lines)
    PROVE  Astray(l) \subseteq [format : Formats, lines : Seq(Lines)]
<1>1. \A n \in 0..Len(l) : SubSeq(l, 1, n) \in Seq(Lines)
  <2> SUFFICES ASSUME NEW n \in 0..Len(l) PROVE SubSeq(l, 1, n) \in Seq(Lines)
    OBVIOUS
  <2>1. \A i \in 1..n : l[i] \in Lines
    BY ElementOfSeq, LenProperties
  <2> QED
    BY <2>1, SubSeqProperties, LenProperties
<1>2. Torn \in Lines
  OBVIOUS
<1>3. \A n \in 0..(Len(l) - 1) : Append(SubSeq(l, 1, n), Torn) \in Seq(Lines)
  <2>1. \A n \in 0..(Len(l) - 1) : n \in 0..Len(l)
    BY LenProperties
  <2> QED
    BY <1>1, <1>2, <2>1, AppendProperties
<1>4. Cuts(l) \subseteq Seq(Lines)
  BY <1>1, <1>3 DEF Cuts
<1>5. Late \subseteq Seq(Lines)
  BY SeqDef DEF Late
<1>6. \A late \in Late, cut \in Cuts(l) : late \o cut \in Seq(Lines)
  BY <1>4, <1>5, ConcatProperties
<1> DEFINE left == {late \o cut : late \in Late, cut \in Cuts(l)}
<1>7. ASSUME NEW x \in left PROVE x \in Seq(Lines)
  <2>1. PICK late \in Late, cut \in Cuts(l) : x = late \o cut
    OBVIOUS
  <2> QED
    BY <1>6, <2>1
<1>8. Astray(l) = [format : Formats, lines : left]
  BY DEF Astray
<1> HIDE DEF left
<1> QED
  BY <1>7, <1>8

\* The steps that read a request and go on.
Reading == \/ ReadLine \/ ReadHeader \/ ReadFiller \/ ReadBlank \/ HeadersFail
           \/ HeaderTooLong \/ LengthFits \/ ReadBody \/ ReadAstray

\* A request that is read keeps the invariant.
LEMMA ReadingInv == ServerInv /\ Reading => ServerInv'
<1> SUFFICES ASSUME ServerInv, Reading PROVE ServerInv'
  OBVIOUS
<1>1. thread \in Serving \ {"send"}
  BY DEF Reading, Serving, ReadLine, ReadHeader, ReadFiller, ReadBlank, HeadersFail,
         HeaderTooLong, LengthFits, ReadBody, ReadAstray
<1>2. /\ current \in Clients /\ reply = 0
      /\ conn[current].sent \in Nat /\ conn[current].read \in Nat
      /\ conn[current].read <= conn[current].sent
      /\ Request(current) \in Requests
      /\ got.auth \in {"none", Request(current).auth}
  BY <1>1, Served
<1>3. /\ TypeOK
      /\ got \in [length : Lengths, auth : Auths]
      /\ body \in [format : Formats, lines : Seq(Lines)]
  BY DEF ServerInv, TypeOK
<1>4. ASSUME Arrived, conn' = Consume PROVE Quiet /\ ConnTypes
  <2>1. /\ conn[current].read + 1 \in Nat
        /\ conn[current].read + 1 <= conn[current].sent
    BY <1>2, <1>4 DEF Arrived
  <2>2. conn' = [conn EXCEPT ![current].read = conn[current].read + 1]
    BY <1>2, <1>3, <1>4 DEF Consume, TypeOK
  <2> QED
    BY <1>2, <1>3, <2>1, <2>2, ReadQuiet
<1>5. CASE ReadLine
  BY <1>1, <1>2, <1>3, <1>4, <1>5, ReadingKeeps DEF ReadLine, Serving
<1>6. CASE ReadHeader
  <2>1. Quiet /\ ConnTypes /\ ReadStep /\ UNCHANGED <<thread, current, body, reply>>
    BY <1>4, <1>6 DEF ReadHeader
  <2>2. Request(current).length \in Lengths /\ Request(current).auth \in Auths
    BY <1>2 DEF Requests
  <2>3. \/ got' = [got EXCEPT !.length = Request(current).length]
        \/ got' = [got EXCEPT !.auth = Request(current).auth]
    BY <1>6 DEF ReadHeader
  <2>4. /\ got' \in [length : Lengths, auth : Auths]
        /\ got'.auth \in {"none", Request(current).auth}
    BY <1>2, <1>3, <2>2, <2>3
  <2> QED
    BY <1>1, <1>3, <2>1, <2>4, ReadingKeeps
<1>7. CASE ReadFiller
  <2>1. Quiet /\ ConnTypes
    BY <1>2, <1>3, <1>7, ReadQuiet DEF ReadFiller
  <2> QED
    BY <1>1, <1>2, <1>3, <1>7, <2>1, ReadingKeeps DEF ReadFiller, threadVars
<1>8. CASE ReadBlank
  BY <1>1, <1>2, <1>3, <1>4, <1>8, ReadingKeeps DEF ReadBlank, Serving
<1>9. CASE HeadersFail
  <2>1. Quiet /\ ConnTypes
    BY <1>2, <1>3, <1>9, ReadQuiet DEF HeadersFail
  <2> QED
    BY <1>1, <1>2, <1>3, <1>9, <2>1, ReadingKeeps DEF HeadersFail, Serving
<1>10. CASE HeaderTooLong \/ LengthFits
  BY <1>1, <1>2, <1>3, <1>10, QuietStutter, ReadingKeeps DEF HeaderTooLong, LengthFits, Serving
<1>11. CASE ReadBody
  <2>1. body' \in [format : Formats, lines : Seq(Lines)]
    BY <1>2, <1>11 DEF ReadBody, Requests
  <2>2. Quiet /\ ConnTypes
    BY <1>4, <1>11 DEF ReadBody
  <2> QED
    BY <1>1, <1>2, <1>3, <1>11, <2>1, <2>2, ReadingKeeps DEF ReadBody, Serving
<1>12. CASE ReadAstray
  <2>1. Request(current).lines \in Seq(Lines)
    BY <1>2 DEF Requests
  <2>2. body' \in [format : Formats, lines : Seq(Lines)]
    BY <1>12, <2>1, AstrayBody DEF ReadAstray
  <2>3. Quiet /\ ConnTypes
    <3>1. /\ conn' = [conn EXCEPT ![current].read = conn[current].sent]
          /\ conn[current].sent <= conn[current].sent
      BY <1>2, <1>12 DEF ReadAstray
    <3> QED
      BY <1>2, <1>3, <3>1, ReadQuiet
  <2> QED
    BY <1>1, <1>2, <1>3, <1>12, <2>2, <2>3, ReadingKeeps DEF ReadAstray, Serving
<1> QED
  BY <1>5, <1>6, <1>7, <1>8, <1>9, <1>10, <1>11, <1>12 DEF Reading

\* The end of a connection keeps the invariant, if a writer that is still there
\* is told of its success.
LEMMA CloseKeeps ==
    ASSUME ServerInv, thread \in Serving, NEW a \in Statuses, CloseWith(a), ReadStep,
           Wrote(current) => a = 200 \/ conn[current].gone
    PROVE  ServerInv'
<1>1. /\ UNCHANGED <<maxPerMinute, owner, running, listening, backlog, written>>
      /\ current \in Clients /\ conn[current].stage = "open"
  BY Served DEF ReadStep, limiterVars
<1>2. /\ TypeOK /\ conn \in [Clients -> Connections]
      /\ \A d \in Clients : conn[d].read <= conn[d].sent
      /\ \A i \in 1..Len(backlog) : backlog[i] \in Clients
  BY DEF ServerInv, TypeOK
<1> DEFINE y == Over(current, a)
<1>3. /\ y \in Connections /\ y.offer = conn[current].offer /\ y.gone = conn[current].gone
      /\ y.stage = "ended" /\ y.answer = a /\ y.sent = 0 /\ y.read = 0
  BY <1>1, <1>2, OverType
<1>4. /\ conn' = [conn EXCEPT ![current] = y]
      /\ current' = None /\ got' = NoHeaders /\ body' = NoBody /\ reply' = 0
      /\ thread' = "loop"
  BY DEF CloseWith
<1> HIDE DEF y
<1>5. \A d \in Clients : conn'[d] = IF d = current THEN y ELSE conn[d]
  BY <1>2, <1>4
<1>6. TypeOK'
  <2>1. conn' \in [Clients -> Connections]
    BY <1>2, <1>3, <1>4
  <2>2. \A d \in Clients : conn'[d].read <= conn'[d].sent
    BY <1>2, <1>3, <1>5
  <2>3. got' \in [length : Lengths, auth : Auths]
    BY <1>4 DEF NoHeaders, Lengths, Auths
  <2>4. body' \in [format : Formats, lines : Seq(Lines)]
    BY <1>4, EmptySeq DEF NoBody, Formats
  <2> QED
    BY <1>1, <1>4, <2>1, <2>2, <2>3, <2>4 DEF ServerInv, TypeOK, Statuses, Places
<1>7. OneOpen'
  BY <1>1, <1>3, <1>4, <1>5 DEF ServerInv, OneOpen, Serving
<1>8. AnsweredLast'
  BY <1>3, <1>5 DEF ServerInv, AnsweredLast
<1>9. OwnerMatches'
  BY <1>1, <1>4 DEF ServerInv, OwnerMatches, Serving
<1>10. BacklogWaits'
  BY <1>1, <1>2, <1>3, <1>5 DEF ServerInv, BacklogWaits
<1>11. OwnHeaders'
  BY <1>4 DEF OwnHeaders
<1>12. \A c \in Clients : (Wrote(c)' <=> Wrote(c)) /\ Request(c)' = Request(c)
                         /\ Peer(c)' = Peer(c)
  BY <1>1, <1>3, <1>5 DEF Wrote, Request, Peer
<1>13. WritersServed'
  BY <1>3, <1>5, <1>12 DEF ServerInv, WritersServed
<1>14. RefusalHasNoEffect'
  BY <1>3, <1>5, <1>12 DEF ServerInv, RefusalHasNoEffect
<1>15. OnlyPermittedWrite'
  BY <1>12, PermittedStays
<1> QED
  BY <1>6, <1>7, <1>8, <1>9, <1>10, <1>11, <1>13, <1>14, <1>15 DEF ServerInv

\* The steps that end a connection keep the invariant.
LEMMA ClosingInv ==
    ServerInv /\ (LineFails \/ LengthTooLarge \/ BodyFails \/ Send \/ PageTaken) => ServerInv'
<1> SUFFICES ASSUME ServerInv, LineFails \/ LengthTooLarge \/ BodyFails \/ Send \/ PageTaken
             PROVE  ServerInv'
  OBVIOUS
<1>1. thread \in Serving
  BY DEF Serving, LineFails, LengthTooLarge, BodyFails, Send, PageTaken, SendStep
<1>2. /\ current \in Clients /\ conn[current].answer = 0
      /\ thread # "send" => reply = 0
      /\ 0 \in Statuses /\ reply \in Statuses
      /\ Wrote(current) => conn[current].gone \/ reply = 200
  BY <1>1, Served DEF ServerInv, TypeOK, Statuses, RefusalHasNoEffect
<1>3. CASE LineFails \/ LengthTooLarge \/ BodyFails
  <2>1. CloseWith(0) /\ ReadStep /\ reply = 0
    BY <1>2, <1>3 DEF LineFails, LengthTooLarge, BodyFails
  <2> QED
    BY <1>1, <1>2, <2>1, CloseKeeps
<1>4. CASE Send \/ PageTaken
  <2>1. ReadStep
    BY <1>4 DEF Send, PageTaken, SendStep, ReadStep
  <2>2. CASE conn[current].gone
    <3>1. CloseWith(0)
      BY <1>4, <2>2 DEF Send, PageTaken
    <3> QED
      BY <1>1, <1>2, <2>1, <2>2, <3>1, CloseKeeps
  <2>3. CASE ~conn[current].gone
    <3>1. CloseWith(reply)
      BY <1>4, <2>3 DEF Send, PageTaken
    <3> QED
      BY <1>1, <1>2, <2>1, <2>3, <3>1, CloseKeeps
  <2> QED
    BY <2>2, <2>3
<1> QED
  BY <1>3, <1>4

\* What the decision leaves alone and what it sets.
LEMMA DecidedKeeps ==
    ASSUME ServerInv, thread = "decide", NEW a \in Statuses, Decided(a),
           UNCHANGED maxPerMinute, written' \subseteq Clients \X Good
    PROVE  /\ TypeOK' /\ OneOpen' /\ AnsweredLast' /\ OwnerMatches' /\ BacklogWaits'
           /\ OwnHeaders'
           /\ \A c \in Clients : Request(c)' = Request(c) /\ Peer(c)' = Peer(c)
           /\ Quiet
<1>1. /\ thread' = "send" /\ reply' = a
      /\ UNCHANGED <<owner, running, listening, current, got, body, backlog, conn>>
      /\ thread \in Serving /\ thread' \in Serving
  BY DEF Decided, Serving
<1>2. Quiet /\ ConnTypes
  BY <1>1, QuietStutter DEF ServerInv
<1>3. TypeOK'
  BY <1>1 DEF ServerInv, TypeOK, Places
<1>4. OneOpen' /\ AnsweredLast' /\ BacklogWaits'
  BY <1>1, <1>2, QuietKeeps
<1>5. OwnerMatches'
  BY <1>1 DEF ServerInv, OwnerMatches
<1>6. OwnHeaders'
  BY <1>1 DEF ServerInv, OwnHeaders, Request
<1>7. \A c \in Clients : Request(c)' = Request(c) /\ Peer(c)' = Peer(c)
  BY <1>1 DEF Request, Peer
<1> QED
  BY <1>2, <1>3, <1>4, <1>5, <1>6, <1>7

\* A refusal keeps the invariant: it writes nothing.
LEMMA RefusingInv == ServerInv /\ (Forbid \/ Throttle) => ServerInv'
<1> SUFFICES ASSUME ServerInv, NEW a \in Statuses, thread = "decide", Decided(a),
                    UNCHANGED <<maxPerMinute, written>>
             PROVE  ServerInv'
  BY DEF Forbid, Throttle, Refuse, limiterVars, Statuses
<1>1. reply = 0 /\ written' \subseteq Clients \X Good /\ UNCHANGED current
  BY DEF ServerInv, OwnHeaders, TypeOK, Decided
<1>2. /\ TypeOK' /\ OneOpen' /\ AnsweredLast' /\ OwnerMatches' /\ BacklogWaits'
      /\ OwnHeaders' /\ Quiet
  BY <1>1, DecidedKeeps
<1>3. WritersServed' /\ RefusalHasNoEffect' /\ OnlyPermittedWrite'
  BY <1>1, <1>2, SilentKeeps
<1> QED
  BY <1>2, <1>3 DEF ServerInv

\* Every status is one of those of the dispatch.
LEMMA StatusType == ASSUME NEW r, NEW b PROVE Status(r, b) \in Statuses
  BY DEF Status, Statuses

\* An ingest of which something gets in is answered with 200.
LEMMA AcceptedIsOk ==
    ASSUME NEW r, NEW b, Ingests(r), AcceptedLines(b) # {}
    PROVE  Status(r, b) = 200
  BY DEF Status

\* The rules let in who is entitled, and who names the user.
LEMMA PermittedMeans ==
    ASSUME NEW peer, NEW target, NEW auth
    PROVE  Permitted(peer, target, auth) <=> Entitled(peer, target, auth) \/ NamesUser(peer, auth)
  BY DEF Permitted, AuthOk, Entitled, NamesUser

\* Credentials that a connection has not sent do not help it.
LEMMA AuthIsOwn ==
    ASSUME NEW peer, NEW target, NEW auth, NEW own, auth \in {"none", own},
           target = "ingest", Permitted(peer, target, auth)
    PROVE  Entitled(peer, "ingest", own) \/ NamesUser(peer, own)
  BY DEF Permitted, AuthOk, Entitled, NamesUser

\* The dispatch keeps the invariant: who writes is permitted to and told so.
LEMMA DispatchInv == ServerInv /\ Dispatch => ServerInv'
<1> SUFFICES ASSUME ServerInv, Dispatch PROVE ServerInv'
  OBVIOUS
<1> DEFINE r == Request(current)
           new == IF Ingests(r) THEN {<<current, l>> : l \in AcceptedLines(body)} ELSE {}
<1>1. /\ thread = "decide" /\ thread \in Serving
      /\ Permitted(Peer(current), r.target, got.auth)
      /\ Decided(Status(r, body))
      /\ written' = written \cup new
      /\ UNCHANGED maxPerMinute
  BY DEF Dispatch, MayPass, Allow, AllowUnlimited, AllowCounted, limiterVars, Serving
<1>2. /\ current \in Clients /\ reply = 0
      /\ got.auth \in {"none", r.auth}
  BY <1>1, Served
<1>3. written' \subseteq Clients \X Good
  <2>1. AcceptedLines(body) \subseteq Good
    BY DEF AcceptedLines, GoodLines
  <2> QED
    BY <1>1, <1>2, <2>1 DEF ServerInv, TypeOK
<1>4. /\ TypeOK' /\ OneOpen' /\ AnsweredLast' /\ OwnerMatches' /\ BacklogWaits'
      /\ OwnHeaders' /\ Quiet
      /\ \A c \in Clients : Request(c)' = Request(c) /\ Peer(c)' = Peer(c)
  BY <1>1, <1>3, StatusType, DecidedKeeps
<1>5. /\ current' = current
      /\ reply' = Status(r, body)
      /\ UNCHANGED conn
  BY <1>1 DEF Decided
<1>6. \A c \in Clients :
        Wrote(c)' => Wrote(c) \/ (c = current /\ Ingests(r) /\ AcceptedLines(body) # {})
  <2> SUFFICES ASSUME NEW c \in Clients, Wrote(c)', ~Wrote(c)
               PROVE  c = current /\ Ingests(r) /\ AcceptedLines(body) # {}
    OBVIOUS
  <2>0. PICK l \in Good : <<c, l>> \in written' /\ <<c, l>> \notin written
    BY DEF Wrote
  <2>1. <<c, l>> \in new
    <3> HIDE DEF new
    <3> QED
      BY <1>1, <2>0
  <2>2. CASE Ingests(r)
    <3>1. PICK k \in AcceptedLines(body) : <<c, l>> = <<current, k>>
      BY <2>1, <2>2
    <3> QED
      BY <2>2, <3>1
  <2>3. CASE ~Ingests(r)
    BY <2>1, <2>3
  <2> QED
    BY <2>2, <2>3
<1>7. WritersServed'
  BY <1>5, <1>6 DEF ServerInv, WritersServed
<1>8. RefusalHasNoEffect'
  BY <1>2, <1>5, <1>6, AcceptedIsOk DEF ServerInv, RefusalHasNoEffect
<1>9. OnlyPermittedWrite'
  <2> SUFFICES ASSUME NEW c \in Clients, Wrote(c)'
               PROVE  (/\ Ingests(Request(c))
                       /\ \/ Entitled(Peer(c), "ingest", Request(c).auth)
                          \/ NamesUser(Peer(c), Request(c).auth))'
    BY DEF OnlyPermittedWrite
  <2>1. CASE Wrote(c)
    <3>1. /\ Ingests(Request(c))
          /\ \/ Entitled(Peer(c), "ingest", Request(c).auth)
             \/ NamesUser(Peer(c), Request(c).auth)
      BY <2>1 DEF ServerInv, OnlyPermittedWrite
    <3> QED
      BY <3>1, <1>4 DEF Ingests, Entitled, NamesUser, IpAllowed
  <2>2. CASE c = current /\ Ingests(r)
    <3>1. \/ Entitled(Peer(c), "ingest", Request(c).auth)
          \/ NamesUser(Peer(c), Request(c).auth)
      BY <1>1, <1>2, <2>2, AuthIsOwn DEF Ingests
    <3> QED
      BY <3>1, <2>2, <1>4 DEF Ingests, Entitled, NamesUser, IpAllowed
  <2> QED
    BY <1>6, <2>1, <2>2
<1> QED
  BY <1>4, <1>7, <1>8, <1>9 DEF ServerInv

----
(***************************************************************************)
(* acceptLoop(), the owner, the clients                                    *)
(***************************************************************************)

\* A step of the owner or the loop that leaves the connections alone and keeps
\* their matters as they are.
LEMMA IdleKeeps ==
    ASSUME ServerInv, UNCHANGED <<conn, backlog, current, got, body, reply, written>>,
           thread \notin Serving, thread' \in Places \ Serving, listening => listening',
           running' \in BOOLEAN, maxPerMinute' \in Limits \cup {0},
           owner' \in {"constructed", "configured", "started", "closing", "joining",
                       "stopped", "killed"},
           listening' \in BOOLEAN,
           OwnerMatches'
    PROVE  ServerInv'
<1>1. Quiet /\ ConnTypes
  BY QuietStutter DEF ServerInv
<1>2. TypeOK'
  BY DEF ServerInv, TypeOK
<1>3. OneOpen' /\ AnsweredLast' /\ BacklogWaits'
  BY <1>1, QuietKeeps
<1>4. OwnHeaders'
  <2>1. reply = 0 /\ current = None
    BY DEF ServerInv, OneOpen, OwnHeaders, Serving
  <2> QED
    BY <2>1 DEF ServerInv, OwnHeaders
<1>5. WritersServed' /\ RefusalHasNoEffect' /\ OnlyPermittedWrite'
  BY <1>1, SilentKeeps
<1> QED
  BY <1>2, <1>3, <1>4, <1>5 DEF ServerInv

\* The steps around the connections keep the invariant.
LEMMA IdlingInv ==
    ServerInv /\ (LoopTop \/ AcceptNothing \/ Start \/ StartFails
                   \/ \E m \in Limits : Configure(m)) => ServerInv'
<1> SUFFICES ASSUME ServerInv,
                    LoopTop \/ AcceptNothing \/ Start \/ StartFails
                      \/ \E m \in Limits : Configure(m)
             PROVE  ServerInv'
  OBVIOUS
<1>1. /\ maxPerMinute \in Limits \cup {0} /\ running \in BOOLEAN /\ listening \in BOOLEAN
      /\ owner \in {"constructed", "configured", "started", "closing", "joining",
                    "stopped", "killed"}
      /\ thread \in Places
      /\ listening <=> owner \in {"started", "closing"}
      /\ owner \in {"constructed", "configured"} => thread = "none"
      /\ owner = "stopped" => thread \in {"none", "ended"}
  BY DEF ServerInv, TypeOK, OwnerMatches
<1>2. CASE LoopTop \/ AcceptNothing
  <2>1. /\ thread \in {"loop", "accept"} /\ thread' \in {"loop", "accept", "ended"}
        /\ UNCHANGED <<conn, backlog, current, got, body, reply, written, owner, running,
                       listening, maxPerMinute>>
    BY <1>2 DEF LoopTop, AcceptNothing, limiterVars
  <2> QED
    BY <1>1, <2>1, IdleKeeps DEF OwnerMatches, Serving, Places
<1>3. CASE Start
  <2>1. /\ thread = "none" /\ thread' = "loop" /\ owner' = "started" /\ listening' = TRUE
        /\ UNCHANGED <<conn, backlog, current, got, body, reply, written, maxPerMinute>>
        /\ running' = TRUE
    BY <1>1, <1>3 DEF Start, limiterVars
  <2> QED
    BY <1>1, <2>1, IdleKeeps DEF OwnerMatches, Serving, Places
<1>4. CASE StartFails
  <2>1. /\ thread = "none" /\ owner = "configured" /\ owner' = "stopped"
        /\ UNCHANGED <<conn, backlog, current, got, body, reply, written, maxPerMinute,
                       thread, listening, running>>
    BY <1>1, <1>4 DEF StartFails, limiterVars, threadVars
  <2> QED
    BY <1>1, <2>1, IdleKeeps DEF OwnerMatches, Serving, Places
<1>5. ASSUME NEW m \in Limits, Configure(m) PROVE ServerInv'
  <2>1. /\ thread = "none" /\ owner = "constructed" /\ owner' = "configured"
        /\ UNCHANGED <<conn, backlog, current, got, body, reply, written, thread,
                       listening, running>>
        /\ maxPerMinute' = m
    BY <1>1, <1>5 DEF Configure, SetMaxPerMinute, threadVars
  <2> QED
    BY <1>1, <2>1, IdleKeeps DEF OwnerMatches, Serving, Places
<1> QED
  BY <1>2, <1>3, <1>4, <1>5

\* stop() begins, or time passes, while the thread is anywhere.
LEMMA AnytimeInv == ServerInv /\ (StopClearsRunning \/ StopJoins \/ TimePasses) => ServerInv'
<1> SUFFICES ASSUME ServerInv, StopClearsRunning \/ StopJoins \/ TimePasses
             PROVE  ServerInv'
  OBVIOUS
<1>1. /\ UNCHANGED <<conn, backlog, current, got, body, reply, written, thread, listening,
                     maxPerMinute>>
      /\ running' \in BOOLEAN
      /\ \/ UNCHANGED owner
         \/ owner = "started" /\ owner' = "closing"
         \/ owner = "joining" /\ owner' = "stopped" /\ thread = "ended"
  BY DEF StopClearsRunning, StopJoins, TimePasses, Tick, serverVars, limiterVars, threadVars,
         ServerInv, TypeOK
<1>2. Quiet /\ ConnTypes
  BY <1>1, QuietStutter DEF ServerInv
<1>3. TypeOK'
  BY <1>1 DEF ServerInv, TypeOK
<1>4. OneOpen' /\ AnsweredLast' /\ BacklogWaits'
  BY <1>1, <1>2, QuietKeeps
<1>5. OwnerMatches'
  BY <1>1 DEF ServerInv, OwnerMatches
<1>6. OwnHeaders'
  BY <1>1 DEF ServerInv, OwnHeaders, Request
<1>7. WritersServed' /\ RefusalHasNoEffect' /\ OnlyPermittedWrite'
  BY <1>1, <1>2, SilentKeeps
<1> QED
  BY <1>3, <1>4, <1>5, <1>6, <1>7 DEF ServerInv

\* The steps of a client that is connected keep the invariant.
LEMMA ClientInv ==
    ASSUME ServerInv, NEW c \in Clients, WritePart(c) \/ WriteFiller(c) \/ HangUp(c)
    PROVE  ServerInv'
<1>1. UNCHANGED <<backlog, current, got, body, reply, written, thread, listening,
                  maxPerMinute, running, owner>>
  BY DEF WritePart, WriteFiller, HangUp, ClientStep, limiterVars, threadVars
<1>2. Quiet /\ ConnTypes
  BY ClientQuiet DEF ServerInv
<1>3. TypeOK'
  BY <1>1, <1>2 DEF ServerInv, TypeOK, ConnTypes
<1>4. OneOpen' /\ AnsweredLast' /\ BacklogWaits'
  BY <1>1, <1>2, QuietKeeps
<1>5. OwnerMatches'
  BY <1>1 DEF ServerInv, OwnerMatches
<1>6. OwnHeaders'
  <2>1. current # None => current \in Clients
    BY DEF ServerInv, TypeOK
  <2>2. current # None => Request(current)' = Request(current)
    BY <1>1, <1>2, <2>1 DEF Quiet, Request
  <2> QED
    BY <1>1, <2>2 DEF ServerInv, OwnHeaders
<1>7. WritersServed' /\ RefusalHasNoEffect' /\ OnlyPermittedWrite'
  BY <1>1, <1>2, SilentKeeps
<1> QED
  BY <1>3, <1>4, <1>5, <1>6, <1>7 DEF ServerInv

\* What an update of the stage leaves of a connection.
LEMMA UpdatedStage ==
    ASSUME NEW x \in Connections, NEW n \in Stages
    PROVE  LET y == [x EXCEPT !.stage = n] IN
           /\ y \in Connections /\ y.stage = n /\ y.offer = x.offer /\ y.answer = x.answer
           /\ y.sent = x.sent /\ y.read = x.read /\ y.gone = x.gone
  BY DEF Connections

\* A new connection keeps the invariant: it waits.
LEMMA ConnectInv == ASSUME ServerInv, NEW c \in Clients, Connect(c) PROVE ServerInv'
<1> DEFINE y == [conn[c] EXCEPT !.stage = "queued"]
<1>1. /\ TypeOK /\ listening /\ conn[c].stage = "idle"
      /\ conn \in [Clients -> Connections] /\ backlog \in Seq(Clients)
      /\ \A d \in Clients : conn[d].read <= conn[d].sent
      /\ UNCHANGED <<limiterVars, owner, running, listening, threadVars, written>>
  BY DEF Connect, ServerInv, TypeOK
<1>2. conn' = [conn EXCEPT ![c] = y] /\ backlog' = Append(backlog, c)
  BY <1>1 DEF Connect
<1>3. /\ y \in Connections /\ y.stage = "queued" /\ y.offer = conn[c].offer
      /\ y.answer = conn[c].answer /\ y.sent = conn[c].sent /\ y.read = conn[c].read
      /\ y.gone = conn[c].gone
  BY <1>1, UpdatedStage DEF Stages
<1> HIDE DEF y
<1>4. \A d \in Clients : conn'[d] = IF d = c THEN y ELSE conn[d]
  BY <1>1, <1>2
<1>5. UNCHANGED <<maxPerMinute, current, got, body, reply, thread>>
  BY <1>1 DEF limiterVars, threadVars
<1>6. /\ backlog' \in Seq(Clients) /\ Len(backlog') = Len(backlog) + 1
      /\ \A i \in 1..Len(backlog) : backlog'[i] = backlog[i] /\ backlog[i] \in Clients
      /\ backlog'[Len(backlog) + 1] = c
      /\ Len(backlog) \in Nat
  BY <1>1, <1>2, AppendProperties, LenProperties, ElementOfSeq
<1>7. TypeOK'
  <2>1. conn' \in [Clients -> Connections]
    BY <1>1, <1>2, <1>3
  <2>2. \A d \in Clients : conn'[d].read <= conn'[d].sent
    BY <1>1, <1>3, <1>4
  <2> QED
    BY <1>1, <1>5, <1>6, <2>1, <2>2 DEF TypeOK
<1>8. OneOpen' /\ AnsweredLast'
  BY <1>1, <1>3, <1>4, <1>5 DEF ServerInv, OneOpen, AnsweredLast
<1>9. OwnerMatches'
  BY <1>1, <1>5 DEF ServerInv, OwnerMatches
<1>10. BacklogWaits'
  <2>1. \A i \in 1..Len(backlog) : backlog[i] # c /\ conn'[backlog[i]].stage = "queued"
    BY <1>1, <1>4, <1>6 DEF ServerInv, BacklogWaits
  <2>2. \A i \in 1..Len(backlog') : i \in 1..Len(backlog) \/ i = Len(backlog) + 1
    BY <1>6
  <2>3. \A i \in 1..Len(backlog') : conn'[backlog'[i]].stage = "queued"
    BY <1>3, <1>4, <1>6, <2>1, <2>2
  <2>4. \A i, j \in 1..Len(backlog') : backlog'[i] = backlog'[j] => i = j
    BY <1>6, <2>1, <2>2 DEF ServerInv, BacklogWaits
  <2>5. \A d \in Clients : conn'[d].stage = "queued" => listening'
    BY <1>1
  <2> QED
    BY <2>3, <2>4, <2>5 DEF BacklogWaits
<1>11. \A d \in Clients : /\ Request(d)' = Request(d) /\ Peer(d)' = Peer(d)
                          /\ Wrote(d)' <=> Wrote(d)
  BY <1>1, <1>3, <1>4 DEF Request, Peer, Wrote
<1>12. OwnHeaders'
  <2>1. current # None => current \in Clients
    BY <1>1 DEF TypeOK
  <2> QED
    BY <1>5, <1>11, <2>1 DEF ServerInv, OwnHeaders
<1>13. ~Wrote(c)
  <2>1. current # c
    BY <1>1 DEF ServerInv, OneOpen
  <2> QED
    BY <1>1, <2>1 DEF ServerInv, WritersServed
<1>14. WritersServed' /\ RefusalHasNoEffect'
  BY <1>4, <1>5, <1>11, <1>13 DEF ServerInv, WritersServed, RefusalHasNoEffect
<1>15. OnlyPermittedWrite'
  BY <1>11, PermittedStays
<1> QED
  BY <1>7, <1>8, <1>9, <1>10, <1>12, <1>14, <1>15 DEF ServerInv

\* The accepted connection keeps the invariant: nobody else is served.
LEMMA AcceptInv == ServerInv /\ Accept => ServerInv'
<1> SUFFICES ASSUME ServerInv, Accept PROVE ServerInv'
  OBVIOUS
<1> DEFINE c == Head(backlog)
           y == [conn[c] EXCEPT !.stage = "open"]
<1>1. /\ TypeOK /\ listening /\ thread = "accept" /\ backlog # <<>>
      /\ conn \in [Clients -> Connections] /\ backlog \in Seq(Clients)
      /\ \A d \in Clients : conn[d].read <= conn[d].sent
      /\ current' = c /\ backlog' = Tail(backlog) /\ thread' = "line"
      /\ UNCHANGED <<maxPerMinute, owner, running, listening, got, body, reply, written>>
  BY DEF Accept, ServerInv, TypeOK, limiterVars
<1>2. /\ c \in Clients /\ c = backlog[1] /\ Len(backlog) \in Nat /\ Len(backlog) >= 1
      /\ Tail(backlog) \in Seq(Clients) /\ Len(Tail(backlog)) = Len(backlog) - 1
      /\ \A i \in 1..Len(Tail(backlog)) : Tail(backlog)[i] = backlog[i + 1]
  BY <1>1, HeadTailProperties, LenProperties
<1>3. conn[c].stage = "queued" /\ conn[c] \in Connections
  BY <1>1, <1>2 DEF ServerInv, BacklogWaits
<1>4. conn' = [conn EXCEPT ![c] = y]
  BY <1>1, <1>2 DEF Accept
<1>5. /\ y \in Connections /\ y.stage = "open" /\ y.offer = conn[c].offer
      /\ y.answer = conn[c].answer /\ y.sent = conn[c].sent /\ y.read = conn[c].read
      /\ y.gone = conn[c].gone
  BY <1>3, UpdatedStage DEF Stages
<1> HIDE DEF y, c
<1>6. \A d \in Clients : conn'[d] = IF d = c THEN y ELSE conn[d]
  BY <1>1, <1>2, <1>4
<1>7. TypeOK'
  <2>1. conn' \in [Clients -> Connections]
    BY <1>1, <1>4, <1>5
  <2>2. \A d \in Clients : conn'[d].read <= conn'[d].sent
    BY <1>1, <1>5, <1>6
  <2> QED
    BY <1>1, <1>2, <2>1, <2>2 DEF TypeOK, Places
<1>8. current = None /\ \A d \in Clients : conn[d].stage # "open"
  BY <1>1 DEF ServerInv, OneOpen, Serving
<1>9. OneOpen' /\ AnsweredLast'
  <2>1. \A d \in Clients : conn'[d].stage = "open" <=> d = c
    BY <1>5, <1>6, <1>8
  <2>2. c # None
    BY <1>2
  <2>3. AnsweredLast'
    BY <1>3, <1>5, <1>6 DEF ServerInv, AnsweredLast
  <2> QED
    BY <1>1, <2>1, <2>2, <2>3 DEF OneOpen, Serving
<1>10. OwnerMatches'
  BY <1>1 DEF ServerInv, OwnerMatches
<1>11. BacklogWaits'
  <2> DEFINE t == Tail(backlog)
  <2>1. \A i \in 1..Len(t) : i + 1 \in 1..Len(backlog) /\ i + 1 # 1 /\ t[i] = backlog[i + 1]
    BY <1>2
  <2>2. \A i, j \in 1..Len(backlog) : backlog[i] = backlog[j] => i = j
    BY DEF ServerInv, BacklogWaits
  <2>3. \A i \in 1..Len(t) : t[i] # c /\ t[i] \in Clients /\ conn[t[i]].stage = "queued"
    <3>1. 1 \in 1..Len(backlog)
      BY <1>2
    <3>2. \A i \in 1..Len(backlog) : backlog[i] \in Clients /\ conn[backlog[i]].stage = "queued"
      BY <1>1, ElementOfSeq DEF ServerInv, BacklogWaits
    <3> HIDE DEF t
    <3> QED
      BY <1>2, <2>1, <2>2, <3>1, <3>2
  <2>4. \A i, j \in 1..Len(t) : t[i] = t[j] => i = j
    <3> HIDE DEF t
    <3> QED
      BY <2>1, <2>2
  <2>5. \A d \in Clients : conn'[d].stage = "queued" => listening'
    BY <1>1
  <2>6. \A i \in 1..Len(t) : conn'[t[i]].stage = "queued"
    BY <1>6, <2>3
  <2>7. backlog' = t
    BY <1>1
  <2> HIDE DEF t
  <2> QED
    BY <2>4, <2>5, <2>6, <2>7 DEF BacklogWaits
<1>12. OwnHeaders'
  <2>1. got.auth = "none" /\ reply = 0
    BY <1>1, <1>8 DEF ServerInv, OwnHeaders, NoHeaders
  <2>2. current' # None
    BY <1>1, <1>2
  <2> QED
    BY <1>1, <2>1, <2>2 DEF OwnHeaders
<1>13. \A d \in Clients : /\ Request(d)' = Request(d) /\ Peer(d)' = Peer(d)
                          /\ Wrote(d)' <=> Wrote(d)
  BY <1>1, <1>5, <1>6 DEF Request, Peer, Wrote
<1>14. ~Wrote(c)
  BY <1>2, <1>3, <1>8 DEF ServerInv, WritersServed
<1>15. WritersServed'
  BY <1>6, <1>8, <1>13, <1>14 DEF ServerInv, WritersServed
<1>16. RefusalHasNoEffect'
  BY <1>6, <1>8, <1>13, <1>14 DEF ServerInv, RefusalHasNoEffect
<1>17. OnlyPermittedWrite'
  BY <1>13, PermittedStays
<1> QED
  BY <1>7, <1>9, <1>10, <1>11, <1>12, <1>15, <1>16, <1>17 DEF ServerInv

\* The end of several connections at once, without an answer and without their
\* clients' having written anything, unless they are gone.
LEMMA ResetKeeps ==
    ASSUME ServerInv, NEW S \in SUBSET Clients,
           \A d \in S : Wrote(d) => conn[d].gone,
           conn' = [d \in Clients |-> IF d \in S THEN Over(d, 0) ELSE conn[d]],
           UNCHANGED written,
           \A d \in Clients \ S : (current = d /\ reply = 200) => (current' = d /\ reply' = 200),
           \A d \in Clients \ S : current = d => current' = d
    PROVE  /\ ConnTypes /\ AnsweredLast' /\ WritersServed' /\ RefusalHasNoEffect'
           /\ OnlyPermittedWrite'
           /\ \A d \in Clients : Request(d)' = Request(d)
           /\ \A d \in S : conn'[d].stage = "ended"
           /\ \A d \in Clients \ S : conn'[d] = conn[d]
<1>1. /\ TypeOK /\ conn \in [Clients -> Connections] /\ 0 \in Statuses
      /\ \A d \in Clients : conn[d].read <= conn[d].sent
  BY DEF ServerInv, TypeOK, Statuses
<1>2. \A d \in S : /\ Over(d, 0) \in Connections /\ conn'[d] = Over(d, 0)
                   /\ conn'[d].offer = conn[d].offer /\ conn'[d].gone = conn[d].gone
                   /\ conn'[d].stage = "ended" /\ conn'[d].sent = 0 /\ conn'[d].read = 0
  BY <1>1, OverType
<1>3. \A d \in Clients \ S : conn'[d] = conn[d]
  OBVIOUS
<1>4. ConnTypes
  <2>1. \A d \in Clients : (IF d \in S THEN Over(d, 0) ELSE conn[d]) \in Connections
    BY <1>1, <1>2
  <2>2. conn' \in [Clients -> Connections]
    BY <2>1
  <2>3. ASSUME NEW d \in Clients PROVE conn'[d].read <= conn'[d].sent
    <3>1. CASE d \in S
      <4>1. conn'[d].sent = 0 /\ conn'[d].read = 0
        BY <1>2, <3>1
      <4> QED
        BY <4>1
    <3>2. CASE d \notin S
      <4>1. conn'[d] = conn[d]
        BY <1>3, <3>2
      <4> QED
        BY <1>1, <4>1
    <3> QED
      BY <3>1, <3>2
  <2> QED
    BY <2>2, <2>3 DEF ConnTypes
<1>5. AnsweredLast'
  BY <1>2, <1>3 DEF ServerInv, AnsweredLast
<1>6. \A d \in Clients : /\ conn'[d].offer = conn[d].offer /\ conn'[d].gone = conn[d].gone
  BY <1>2, <1>3
<1>7. \A d \in Clients : /\ Request(d)' = Request(d) /\ Peer(d)' = Peer(d)
                         /\ Wrote(d)' <=> Wrote(d)
  BY <1>6 DEF Request, Peer, Wrote
<1>8. WritersServed'
  BY <1>2, <1>3, <1>7 DEF ServerInv, WritersServed
<1>9. RefusalHasNoEffect'
  <2> SUFFICES ASSUME NEW d \in Clients, Wrote(d)
               PROVE  conn'[d].answer = 200 \/ conn'[d].gone \/ (current' = d /\ reply' = 200)
    BY <1>7 DEF RefusalHasNoEffect
  <2>1. CASE d \in S
    <3>1. conn[d].gone
      BY <2>1
    <3> QED
      BY <1>6, <3>1
  <2>2. CASE d \notin S
    <3>1. conn[d].answer = 200 \/ conn[d].gone \/ (current = d /\ reply = 200)
      BY DEF ServerInv, RefusalHasNoEffect
    <3>2. conn'[d] = conn[d]
      BY <1>3, <2>2
    <3>3. current = d /\ reply = 200 => current' = d /\ reply' = 200
      BY <2>2
    <3> QED
      BY <3>1, <3>2, <3>3
  <2> QED
    BY <2>1, <2>2
<1>10. OnlyPermittedWrite'
  BY <1>7, PermittedStays
<1> QED
  BY <1>2, <1>3, <1>4, <1>5, <1>7, <1>8, <1>9, <1>10

\* The close of the listener keeps the invariant: it resets those who wait.
LEMMA ClosesListenerInv == ServerInv /\ StopClosesListener => ServerInv'
<1> SUFFICES ASSUME ServerInv, StopClosesListener PROVE ServerInv'
  OBVIOUS
<1> DEFINE S == {d \in Clients : conn[d].stage = "queued"}
<1>1. /\ owner = "closing" /\ owner' = "joining" /\ listening' = FALSE /\ backlog' = <<>>
      /\ conn' = [d \in Clients |-> IF d \in S THEN Over(d, 0) ELSE conn[d]]
      /\ UNCHANGED <<maxPerMinute, running, thread, current, got, body, reply, written>>
  <2>1. \A d \in Clients : d \in S <=> conn[d].stage = "queued"
    OBVIOUS
  <2> HIDE DEF S
  <2> QED
    BY <2>1 DEF StopClosesListener, limiterVars, threadVars
<1>2. \A d \in S : conn[d].stage = "queued" /\ current # d /\ ~Wrote(d)
  BY DEF ServerInv, OneOpen, WritersServed
<1>3. \A d \in Clients \ S : conn[d].stage # "queued"
  OBVIOUS
<1>4. S \in SUBSET Clients
  OBVIOUS
<1> HIDE DEF S
<1>5. /\ ConnTypes /\ AnsweredLast' /\ WritersServed' /\ RefusalHasNoEffect'
      /\ OnlyPermittedWrite'
      /\ \A d \in Clients : Request(d)' = Request(d)
      /\ \A d \in S : conn'[d].stage = "ended"
      /\ \A d \in Clients \ S : conn'[d] = conn[d]
  BY <1>1, <1>2, <1>4, ResetKeeps
<1>6. TypeOK'
  BY <1>1, <1>5, EmptySeq DEF ServerInv, TypeOK, ConnTypes
<1>7. OneOpen'
  BY <1>1, <1>2, <1>5 DEF ServerInv, OneOpen
<1>8. OwnerMatches'
  BY <1>1 DEF ServerInv, OwnerMatches
<1>9. BacklogWaits'
  BY <1>1, <1>3, <1>5 DEF BacklogWaits
<1>10. OwnHeaders'
  <2>1. current # None => current \in Clients
    BY DEF ServerInv, TypeOK
  <2> QED
    BY <1>1, <1>5, <2>1 DEF ServerInv, OwnHeaders
<1> QED
  BY <1>5, <1>6, <1>7, <1>8, <1>9, <1>10 DEF ServerInv

\* The end of the process by SIGPIPE keeps the invariant: the client that is
\* served is gone, and those who wait have written nothing.
LEMMA BrokenPipeInv == ServerInv /\ BrokenPipe => ServerInv'
<1> SUFFICES ASSUME ServerInv, BrokenPipe PROVE ServerInv'
  OBVIOUS
<1> DEFINE S == {d \in Clients : conn[d].stage \in {"queued", "open"}}
<1>1. /\ conn[current].gone /\ thread = "send"
      /\ owner' = "killed" /\ listening' = FALSE /\ thread' = "ended" /\ current' = None
      /\ backlog' = <<>> /\ got' = NoHeaders /\ body' = NoBody /\ reply' = 0
      /\ conn' = [d \in Clients |-> IF d \in S THEN Over(d, 0) ELSE conn[d]]
      /\ UNCHANGED <<maxPerMinute, running, written>>
  <2>1. \A d \in Clients : d \in S <=> conn[d].stage \in {"queued", "open"}
    OBVIOUS
  <2> HIDE DEF S
  <2> QED
    BY <2>1 DEF BrokenPipe, limiterVars
<1>2. current \in Clients /\ current \in S
  BY <1>1, Served DEF Serving
<1>3. \A d \in S : d = current \/ ~Wrote(d)
  BY DEF ServerInv, WritersServed
<1>4. \A d \in Clients \ S : conn[d].stage \notin {"queued", "open"}
  OBVIOUS
<1>5. S \in SUBSET Clients
  OBVIOUS
<1> HIDE DEF S
<1>6. /\ ConnTypes /\ AnsweredLast' /\ WritersServed' /\ RefusalHasNoEffect'
      /\ OnlyPermittedWrite'
      /\ \A d \in S : conn'[d].stage = "ended"
      /\ \A d \in Clients \ S : conn'[d] = conn[d]
  BY <1>1, <1>2, <1>3, <1>5, ResetKeeps
<1>7. \A d \in Clients : conn'[d].stage \notin {"queued", "open"}
  BY <1>4, <1>6
<1>8. TypeOK'
  <2>1. got' \in [length : Lengths, auth : Auths]
    BY <1>1 DEF NoHeaders, Lengths, Auths
  <2>2. body' \in [format : Formats, lines : Seq(Lines)]
    BY <1>1, EmptySeq DEF NoBody, Formats
  <2> QED
    BY <1>1, <1>6, <2>1, <2>2, EmptySeq DEF ServerInv, TypeOK, ConnTypes, Statuses, Places
<1>9. OneOpen' /\ OwnerMatches' /\ BacklogWaits' /\ OwnHeaders'
  BY <1>1, <1>7 DEF OneOpen, OwnerMatches, BacklogWaits, OwnHeaders, Serving
<1> QED
  BY <1>6, <1>8, <1>9 DEF ServerInv

----
\* Every step keeps the invariant.
LEMMA ServerStep == ServerInv /\ [Next]_vars => ServerInv'
<1> SUFFICES ASSUME ServerInv, [Next]_vars PROVE ServerInv'
  OBVIOUS
<1>1. CASE OwnerStep
  BY <1>1, IdlingInv, AnytimeInv, ClosesListenerInv DEF OwnerStep
<1>2. CASE ThreadStep \/ PageTaken
  BY <1>2, IdlingInv, AcceptInv, ReadingInv, ClosingInv, RefusingInv, DispatchInv,
     BrokenPipeInv DEF ThreadStep, Reading
<1>3. CASE ClientSteps
  BY <1>3, ConnectInv, ClientInv DEF ClientSteps
<1>4. CASE TimePasses
  BY <1>4, AnytimeInv
<1>5. CASE UNCHANGED vars
  <2>1. UNCHANGED <<maxPerMinute, owner, running, listening, thread, current, got, body,
                    reply, backlog, conn, written>>
    BY <1>5 DEF vars, limiterVars, serverVars
  <2>2. TypeOK' /\ OneOpen' /\ AnsweredLast' /\ OwnerMatches' /\ BacklogWaits'
    BY <2>1 DEF ServerInv, TypeOK, OneOpen, AnsweredLast, OwnerMatches, BacklogWaits
  <2>3. OwnHeaders'
    BY <2>1 DEF ServerInv, OwnHeaders, Request
  <2>4. WritersServed' /\ RefusalHasNoEffect' /\ OnlyPermittedWrite'
    BY <2>1, QuietStutter, SilentKeeps DEF ServerInv
  <2> QED
    BY <2>2, <2>3, <2>4 DEF ServerInv
<1> QED
  BY <1>1, <1>2, <1>3, <1>4, <1>5 DEF Next

\* The invariant holds in every state of the server (metrics_server.cpp).
THEOREM Invariance == Spec => []ServerInv
  BY InitServer, ServerStep, PTL DEF Spec

\* The types of the server's variables.
THEOREM TypeCorrect == Spec => []TypeOK
  BY Invariance, PTL DEF ServerInv

\* An ingest that is refused has no effect (metrics_server.cpp:137-142,
\* ingest.cpp:73-133), for any clients, bodies and rules.
THEOREM NoEffect == Spec => []RefusalHasNoEffect
  BY Invariance, PTL DEF ServerInv

\* Only a client with an allowed address that has sent "Basic user:pass", or at
\* least the user's name, changes a metric (metrics_server.cpp:114-135,
\* acl.cpp:60-71), in whatever parts its request comes.
THEOREM WritersPermitted == Spec => []OnlyPermittedWrite
  BY Invariance, PTL DEF ServerInv

\* When stop() has returned nobody is served and nobody waits
\* (metrics_server.cpp:49-55).
THEOREM NothingLeft == Spec => []StopLeavesNothing
<1>1. ServerInv => StopLeavesNothing
  <2> SUFFICES ASSUME ServerInv, owner = "stopped"
               PROVE  /\ thread \in {"none", "ended"}
                      /\ \A c \in Clients : conn[c].stage \in {"idle", "ended"}
    BY DEF StopLeavesNothing
  <2>1. thread \in {"none", "ended"} /\ ~listening
    BY DEF ServerInv, OwnerMatches
  <2>2. current = None
    BY <2>1 DEF ServerInv, OneOpen, Serving
  <2>3. \A c \in Clients : conn[c].stage \notin {"queued", "open"}
    BY <2>1, <2>2 DEF ServerInv, OneOpen, BacklogWaits
  <2>4. \A c \in Clients : conn[c].stage \in Stages
    BY DEF ServerInv, TypeOK, Connections
  <2> QED
    BY <2>1, <2>3, <2>4 DEF Stages
<1> QED
  BY <1>1, Invariance, PTL

----
\* What the server does to its limiter is what a limiter may do.
LEMMA AdmitsAsLimiter == ServerInv /\ [Next]_vars => [LimiterNext]_limiterVars
<1> SUFFICES ASSUME ServerInv, [Next]_vars PROVE [LimiterNext]_limiterVars
  OBVIOUS
<1>1. thread = "decide" => Peer(current) \in Keys
  BY Served DEF Serving
<1>2. CASE OwnerStep
  BY <1>2 DEF OwnerStep, Configure, Start, StartFails, StopClearsRunning,
              StopClosesListener, StopJoins, LimiterNext
<1>3. CASE ThreadStep \/ PageTaken
  <2>1. CASE Throttle \/ Dispatch
    BY <1>1, <2>1 DEF Throttle, Dispatch, LimiterNext
  <2>2. CASE ~(Throttle \/ Dispatch)
    <3>1. UNCHANGED limiterVars
      BY <1>3, <2>2 DEF ThreadStep, LoopTop, AcceptNothing, Accept, ReadLine, LineFails,
             ReadHeader, ReadFiller, ReadBlank, HeadersFail, HeaderTooLong, LengthFits,
             LengthTooLarge, ReadBody, ReadAstray, BodyFails, Forbid, SendStep, Send,
             PageTaken, BrokenPipe, ReadStep
    <3> QED
      BY <3>1
  <2> QED
    BY <2>1, <2>2
<1>4. CASE ClientSteps
  BY <1>4 DEF ClientSteps, Connect, WritePart, WriteFiller, HangUp, ClientStep
<1>5. CASE TimePasses
  BY <1>5 DEF TimePasses, LimiterNext
<1>6. CASE UNCHANGED vars
  BY <1>6 DEF vars
<1> QED
  BY <1>2, <1>3, <1>4, <1>5, <1>6 DEF Next

\* The server implements the limiter: each of its steps sets it up, asks it,
\* lets time pass or leaves it alone (metrics_server.cpp:124-130).
THEOREM ImplementsLimiter == Spec => LimiterSpec
<1>1. Init => LimiterInit
  BY DEF Init
<1> QED
  BY <1>1, Invariance, AdmitsAsLimiter, PTL DEF Spec, LimiterSpec

\* The bound on the admissions of a key holds for the server.
THEOREM AdmissionsBounded == Spec => []WindowBound
  BY ImplementsLimiter, LimiterIsBounded, PTL

----
(***************************************************************************)
(* The answer of a client that does not pause.                             *)
(***************************************************************************)

\* A connection that has not been accepted has nothing read of it.
NothingReadYet ==
    \A c \in Clients : conn[c].stage \in {"idle", "queued"} => conn[c].read = 0

\* Nothing is written for a connection before its request is decided.
NotYetWritten == current # None /\ thread # "send" => ~Wrote(current)

\* What a header line has left in a variable of handleClient().
Found(part, value) ==
    IF \E i \in 1..conn[current].read : Parts(Request(current))[i] = part
    THEN value ELSE "none"

\* As long as no header has been waited for in vain, what has been read
\* determines the variables of handleClient(), and then the answer.  The header
\* loop has ended at the blank line, or at a line that is too long.
ReadInOrder ==
    /\ current = None => body = NoBody
    /\ (current # None /\ conn[current].prompt) =>
         /\ thread = "line" => conn[current].read = 0 /\ got = NoHeaders
         /\ thread = "headers" =>
              /\ \A i \in 1..conn[current].read :
                    Parts(Request(current))[i] \notin {"blank", Request(current).long}
              /\ got.length = Found("length", Request(current).length)
              /\ got.auth = Found("auth", Request(current).auth)
         /\ thread \in {"length", "body"} =>
              /\ LengthHeard(Request(current)) # "none"
              /\ \/ /\ Hears(Request(current), "blank")
                    /\ conn[current].read > 0
                    /\ Parts(Request(current))[conn[current].read] = "blank"
                 \/ /\ ~Hears(Request(current), "blank")
                    /\ Parts(Request(current))[conn[current].read + 1] = Request(current).long
         /\ thread \in {"length", "body", "decide"} => got.auth = AuthHeard(Request(current))
         /\ thread \in {"line", "headers", "length", "body"} => body = NoBody
         /\ thread = "decide" => body \in BodiesHeard(Request(current))
         /\ thread = "send" => Deserves(current, reply)

\* No client has sent more parts than its request has.
PartsExist == \A c \in Clients : conn[c].sent <= Len(Parts(Request(c)))

PromptInv == /\ NothingReadYet
             /\ NotYetWritten
             /\ ReadInOrder
             /\ PromptAnswerIsRight

PartNames == {"line", "length", "auth", "blank", "body"}

\* One more part, or none.
LEMMA OnePartMore ==
    ASSUME NEW s \in Seq(PartNames), NEW x \in PartNames
    PROVE  /\ s \o <<>> = s
           /\ s \o <<x>> \in Seq(PartNames)
           /\ Len(s) \in Nat /\ Len(s \o <<x>>) = Len(s) + 1
           /\ \A i \in 1..Len(s) : (s \o <<x>>)[i] = s[i]
           /\ (s \o <<x>>)[Len(s) + 1] = x
<1>1. <<x>> \in Seq(PartNames) /\ Len(<<x>>) = 1 /\ <<x>>[1] = x
  OBVIOUS
<1> QED
  BY <1>1, ConcatProperties, ConcatEmptySeq, LenProperties

\* A blank line stands behind the headers that a request has, and nothing but a
\* body behind it.
LEMMA PartsOrder ==
    ASSUME NEW r \in Requests
    PROVE  /\ Len(Parts(r)) \in Nat /\ DOMAIN Parts(r) = 1..Len(Parts(r))
           /\ \A i \in 1..Len(Parts(r)) : Parts(r)[i] = "blank" =>
                /\ r.length # "none" => \E j \in 1..(i - 1) : Parts(r)[j] = "length"
                /\ r.auth # "none" => \E j \in 1..(i - 1) : Parts(r)[j] = "auth"
                /\ i + 1 \in 1..Len(Parts(r)) => Parts(r)[i + 1] = "body"
           /\ Len(Parts(r)) >= 1 /\ Parts(r)[1] = "line"
<1> DEFINE p1 == <<"line">>
           p2 == p1 \o (IF r.length = "none" THEN <<>> ELSE <<"length">>)
           p3 == p2 \o (IF r.auth = "none" THEN <<>> ELSE <<"auth">>)
           p4 == p3 \o <<"blank">>
           p5 == p4 \o (IF r.length = "none" THEN <<>> ELSE <<"body">>)
<1>1. p1 \in Seq(PartNames) /\ Len(p1) = 1 /\ p1[1] = "line"
  BY DEF PartNames
<1>2. Parts(r) = p5
  BY DEF Parts
<1> HIDE DEF p1
<1>3. /\ p2 \in Seq(PartNames) /\ p2[1] = "line"
      /\ Len(p2) = IF r.length = "none" THEN 1 ELSE 2
      /\ r.length # "none" => p2[2] = "length"
  <2>1. CASE r.length = "none"
    <3>1. p2 = p1
      BY <1>1, <2>1, OnePartMore DEF PartNames
    <3> QED
      BY <1>1, <2>1, <3>1
  <2>2. CASE r.length # "none"
    <3>1. /\ p2 \in Seq(PartNames) /\ Len(p2) = Len(p1) + 1 /\ p2[Len(p1) + 1] = "length"
          /\ \A i \in 1..Len(p1) : p2[i] = p1[i]
      BY <1>1, <2>2, OnePartMore DEF PartNames
    <3> QED
      BY <1>1, <2>2, <3>1
  <2> QED
    BY <2>1, <2>2
<1> HIDE DEF p2
<1>4. /\ p3 \in Seq(PartNames) /\ p3[1] = "line"
      /\ Len(p3) = Len(p2) + (IF r.auth = "none" THEN 0 ELSE 1)
      /\ r.length # "none" => p3[2] = "length"
      /\ r.auth # "none" => p3[Len(p3)] = "auth"
      /\ \A i \in 1..Len(p3) : p3[i] # "blank"
  <2>1. \A i \in 1..Len(p2) : p2[i] # "blank"
    BY <1>3
  <2>2. CASE r.auth = "none"
    <3>1. p3 = p2
      BY <1>3, <2>2, OnePartMore DEF PartNames
    <3> QED
      BY <1>3, <2>1, <2>2, <3>1
  <2>3. CASE r.auth # "none"
    <3>1. /\ p3 \in Seq(PartNames) /\ Len(p3) = Len(p2) + 1 /\ p3[Len(p2) + 1] = "auth"
          /\ \A i \in 1..Len(p2) : p3[i] = p2[i]
      BY <1>3, <2>3, OnePartMore DEF PartNames
    <3> QED
      BY <1>3, <2>1, <2>3, <3>1
  <2> QED
    BY <2>2, <2>3
<1> HIDE DEF p3
<1>5. /\ p4 \in Seq(PartNames) /\ Len(p4) = Len(p3) + 1 /\ Len(p3) \in Nat \ {0}
      /\ \A i \in 1..Len(p3) : p4[i] = p3[i]
      /\ p4[Len(p3) + 1] = "blank"
  BY <1>3, <1>4, OnePartMore DEF PartNames
<1> HIDE DEF p4
<1>12. p5 \in Seq(PartNames)
  <2>1. CASE r.length = "none"
    BY <1>5, <2>1, OnePartMore DEF PartNames
  <2>2. CASE r.length # "none"
    BY <1>5, <2>2, OnePartMore DEF PartNames
  <2> QED
    BY <2>1, <2>2
<1>6. /\ Len(p5) = Len(p4) + (IF r.length = "none" THEN 0 ELSE 1)
      /\ \A i \in 1..Len(p4) : p5[i] = p4[i]
      /\ r.length # "none" => p5[Len(p4) + 1] = "body"
  BY <1>5, OnePartMore DEF PartNames
<1> HIDE DEF p5
<1>7. /\ Len(p5) \in {Len(p3) + 1, Len(p3) + 2}
      /\ \A i \in 1..Len(p3) : p5[i] = p3[i]
      /\ p5[Len(p3) + 2] = "blank" => Len(p5) = Len(p3) + 1
  BY <1>5, <1>6
<1>8. \A i \in 1..Len(p5) : p5[i] = "blank" => i = Len(p3) + 1
  <2> SUFFICES ASSUME NEW i \in 1..Len(p5), p5[i] = "blank" PROVE i = Len(p3) + 1
    OBVIOUS
  <2>1. i \in 1..Len(p3) \/ i = Len(p3) + 1 \/ (i = Len(p3) + 2 /\ Len(p5) = Len(p3) + 2)
    BY <1>5, <1>7
  <2> QED
    BY <1>4, <1>5, <1>7, <2>1
<1>9. Len(p5) \in Nat /\ Len(p5) >= 1 /\ p5[1] = "line"
  <2>1. 1 \in 1..Len(p3)
    BY <1>5
  <2> QED
    BY <1>4, <1>5, <1>7, <2>1
<1>10. ASSUME NEW i \in 1..Len(p5), p5[i] = "blank"
       PROVE  /\ r.length # "none" => \E j \in 1..(i - 1) : p5[j] = "length"
              /\ r.auth # "none" => \E j \in 1..(i - 1) : p5[j] = "auth"
              /\ i + 1 \in 1..Len(p5) => p5[i + 1] = "body"
  <2>1. i = Len(p3) + 1 /\ 1..(i - 1) = 1..Len(p3)
    BY <1>5, <1>8, <1>10
  <2>2. ASSUME r.length # "none" PROVE 2 \in 1..Len(p3) /\ p5[2] = "length"
    BY <1>3, <1>4, <1>5, <1>7, <2>2
  <2>3. ASSUME r.auth # "none" PROVE Len(p3) \in 1..Len(p3) /\ p5[Len(p3)] = "auth"
    BY <1>3, <1>4, <1>5, <1>7, <2>3
  <2>4. i + 1 \in 1..Len(p5) => p5[i + 1] = "body"
    BY <1>5, <1>6, <2>1
  <2> QED
    BY <2>1, <2>2, <2>3, <2>4
<1>11. DOMAIN p5 = 1..Len(p5)
  BY <1>12, LenProperties
<1> QED
  BY <1>2, <1>9, <1>10, <1>11

\* Where a line is too long, what is heard is what stands before it.
LEMMA HeardBefore ==
    ASSUME NEW r \in Requests, NEW n \in Nat, n + 1 \in 1..Len(Parts(r)),
           \A i \in 1..n : Parts(r)[i] # r.long, Parts(r)[n + 1] = r.long,
           NEW part
    PROVE  Hears(r, part) <=> \E i \in 1..n : Parts(r)[i] = part
<1>1. Len(Parts(r)) \in Nat /\ DOMAIN Parts(r) = 1..Len(Parts(r))
  BY PartsOrder
<1>2. ASSUME NEW i \in 1..n, Parts(r)[i] = part PROVE Hears(r, part)
  <2>1. i \in DOMAIN Parts(r) /\ \A j \in 1..i : j \in 1..n
    BY <1>1
  <2> QED
    BY <1>2, <2>1 DEF Hears
<1>3. ASSUME Hears(r, part) PROVE \E i \in 1..n : Parts(r)[i] = part
  <2>1. PICK i \in 1..Len(Parts(r)) :
            Parts(r)[i] = part /\ \A j \in 1..i : Parts(r)[j] # r.long
    BY <1>1, <1>3 DEF Hears
  <2>2. n + 1 \notin 1..i
    BY <2>1
  <2>3. i \in 1..n
    BY <1>1, <2>2
  <2> QED
    BY <2>1, <2>3
<1> QED
  BY <1>2, <1>3

\* At a blank line that is heard all the headers have been.
LEMMA HeardAtBlank ==
    ASSUME NEW r \in Requests, NEW n \in Nat, n + 1 \in 1..Len(Parts(r)),
           \A i \in 1..(n + 1) : Parts(r)[i] # r.long, Parts(r)[n + 1] = "blank"
    PROVE  /\ Hears(r, "blank")
           /\ LengthHeard(r) = IF \E i \in 1..n : Parts(r)[i] = "length" THEN r.length ELSE "none"
           /\ AuthHeard(r) = IF \E i \in 1..n : Parts(r)[i] = "auth" THEN r.auth ELSE "none"
<1>1. Len(Parts(r)) \in Nat /\ DOMAIN Parts(r) = 1..Len(Parts(r))
  BY PartsOrder
<1>2. ASSUME NEW i \in 1..(n + 1) PROVE Hears(r, Parts(r)[i])
  <2>1. i \in DOMAIN Parts(r) /\ \A j \in 1..i : j \in 1..(n + 1)
    BY <1>1
  <2> QED
    BY <2>1 DEF Hears
<1>3. Hears(r, "blank")
  <2>1. n + 1 \in 1..(n + 1)
    OBVIOUS
  <2> QED
    BY <1>2, <2>1
<1>4. \A i \in 1..n : Hears(r, Parts(r)[i])
  BY <1>2
<1>5. /\ r.length # "none" => \E j \in 1..n : Parts(r)[j] = "length"
      /\ r.auth # "none" => \E j \in 1..n : Parts(r)[j] = "auth"
  <2>1. n + 1 - 1 = n
    OBVIOUS
  <2> QED
    BY <2>1, PartsOrder
<1> QED
  BY <1>3, <1>4, <1>5 DEF LengthHeard, AuthHeard

\* What a request deserves does not depend on the state of others.
LEMMA DeservesStays ==
    ASSUME NEW c \in Clients, NEW a, conn'[c].offer = conn[c].offer,
           \A l \in Good : <<c, l>> \in written' <=> <<c, l>> \in written
    PROVE  Deserves(c, a)' <=> Deserves(c, a)
<1>1. Request(c)' = Request(c) /\ Peer(c)' = Peer(c)
  BY DEF Request, Peer
<1>2. {l \in Good : <<c, l>> \in written'} = {l \in Good : <<c, l>> \in written}
  OBVIOUS
<1> QED
  BY <1>1, <1>2 DEF Deserves

\* A step of anyone but the reading thread: who is served, if anyone still is,
\* has been read as far as before, and a new answer is deserved.
LEMMA ApartKeeps ==
    ASSUME ServerInv, PromptInv, UNCHANGED written,
           \A c \in Clients : conn'[c].offer = conn[c].offer,
           \A c \in Clients : conn'[c].stage \in {"idle", "queued"} =>
               conn[c].stage \in {"idle", "queued"} /\ conn'[c].read = conn[c].read,
           \A c \in Clients :
               (conn'[c].stage = "ended" /\ conn'[c].prompt /\ conn'[c].answer # 0) =>
                   \/ /\ conn[c].stage = "ended" /\ conn[c].prompt
                      /\ conn[c].answer = conn'[c].answer
                   \/ Deserves(c, conn'[c].answer),
           \/ current' = None /\ body' = NoBody
           \/ /\ UNCHANGED <<current, thread, got, body, reply>>
              /\ current # None => /\ conn'[current].read = conn[current].read
                                   /\ conn'[current].prompt = conn[current].prompt
    PROVE  PromptInv'
<1>1. NothingReadYet'
  BY DEF PromptInv, NothingReadYet
<1>2. NotYetWritten'
  BY DEF PromptInv, NotYetWritten, Wrote
<1>3. ReadInOrder'
  <2>1. CASE current' = None /\ body' = NoBody
    BY <2>1 DEF ReadInOrder
  <2>2. CASE /\ UNCHANGED <<current, thread, got, body, reply>>
             /\ current # None => /\ conn'[current].read = conn[current].read
                                  /\ conn'[current].prompt = conn[current].prompt
    <3>1. CASE current = None
      BY <2>2, <3>1 DEF PromptInv, ReadInOrder
    <3>2. CASE current # None
      <4>1. current \in Clients
        BY <3>2 DEF ServerInv, TypeOK
      <4>2. Request(current)' = Request(current)
        BY <2>2, <4>1 DEF Request
      <4>3. Deserves(current, reply)' <=> Deserves(current, reply)
        <5>1. \A a : Deserves(current, a)' <=> Deserves(current, a)
          BY <2>2, <4>1, DeservesStays
        <5> QED
          BY <2>2, <5>1
      <4> QED
        BY <2>2, <3>2, <4>2, <4>3 DEF PromptInv, ReadInOrder, Found
    <3> QED
      BY <3>1, <3>2
  <2> QED
    BY <2>1, <2>2
<1>4. PromptAnswerIsRight'
  <2> SUFFICES ASSUME NEW c \in Clients, conn'[c].stage = "ended", conn'[c].prompt,
                      conn'[c].answer # 0
               PROVE  Deserves(c, conn[c].answer)'
    BY DEF PromptAnswerIsRight
  <2>1. Deserves(c, conn'[c].answer)
    BY DEF PromptInv, PromptAnswerIsRight
  <2>2. \A a : Deserves(c, a)' <=> Deserves(c, a)
    BY DeservesStays
  <2> QED
    BY <2>1, <2>2
<1> QED
  BY <1>1, <1>2, <1>3, <1>4 DEF PromptInv

\* A client writes the parts of its request and no more.
LEMMA PartsExistStep == ServerInv /\ PartsExist /\ [Next]_vars => PartsExist'
<1> SUFFICES ASSUME ServerInv, PartsExist, [Next]_vars PROVE PartsExist'
  OBVIOUS
<1>1. /\ conn \in [Clients -> Connections]
      /\ \A c \in Clients : conn[c].sent \in Nat /\ Request(c) \in Requests
      /\ \A c \in Clients : Len(Parts(Request(c))) \in Nat
      /\ thread \in Serving => current \in Clients
  BY PartsOrder, Served DEF ServerInv, TypeOK, Connections, Request
<1>2. ASSUME NEW c \in Clients,
             conn'[c] \in {conn[c], Over(c, 0), Over(c, reply)}
                \/ (conn'[c].sent = conn[c].sent /\ conn'[c].offer = conn[c].offer)
      PROVE  conn'[c].sent <= Len(Parts(Request(c)'))
  BY <1>1, <1>2 DEF PartsExist, Over, Request
<1>3. ASSUME NEW c \in Clients, WritePart(c) PROVE PartsExist'
  <2>1. \A d \in Clients \ {c} : conn'[d] = conn[d]
    BY <1>1, <1>3 DEF WritePart
  <2>2. /\ conn'[c].sent = conn[c].sent + 1 /\ conn'[c].offer = conn[c].offer
        /\ conn[c].sent < Len(Parts(Request(c)))
    BY <1>1, <1>3 DEF WritePart, Connections
  <2>3. conn'[c].sent <= Len(Parts(Request(c)'))
    BY <1>1, <2>2 DEF Request
  <2> QED
    BY <1>2, <2>1, <2>3 DEF PartsExist, Request
<1>4. ASSUME \A c \in Clients :
               \/ conn'[c] \in {conn[c], Over(c, 0), Over(c, reply)}
               \/ (conn'[c].sent = conn[c].sent /\ conn'[c].offer = conn[c].offer)
      PROVE  PartsExist'
  BY <1>2, <1>4 DEF PartsExist, Request
<1>9. ASSUME NEW c \in Clients, NEW v,
             \/ conn'[c] = conn[c]
             \/ conn'[c] = [conn[c] EXCEPT !.stage = v]
             \/ conn'[c] = [conn[c] EXCEPT !.read = v]
             \/ conn'[c] = [conn[c] EXCEPT !.filler = v]
             \/ conn'[c] = [conn[c] EXCEPT !.prompt = v]
             \/ conn'[c] = [conn[c] EXCEPT !.gone = v]
      PROVE  conn'[c].sent = conn[c].sent /\ conn'[c].offer = conn[c].offer
  <2>1. conn[c] \in [offer : [request : Requests, peer : Keys], stage : Stages,
                     sent : Nat, read : Nat, filler : BOOLEAN, gone : BOOLEAN,
                     prompt : BOOLEAN, answer : Statuses]
    BY <1>1 DEF Connections
  <2> QED
    BY <1>9, <2>1
<1>5. CASE OwnerStep
  BY <1>4, <1>5 DEF OwnerStep, Configure, Start, StartFails, StopClearsRunning,
                    StopClosesListener, StopJoins
<1>6. CASE ThreadStep \/ PageTaken
  <2>1. CASE LineFails \/ LengthTooLarge \/ BodyFails \/ Send \/ PageTaken \/ BrokenPipe
    BY <1>1, <1>4, <2>1 DEF LineFails, LengthTooLarge, BodyFails, Send, PageTaken, SendStep,
                            BrokenPipe, CloseWith
  <2>2. CASE \/ LoopTop \/ AcceptNothing \/ HeaderTooLong \/ LengthFits
             \/ Forbid \/ Throttle \/ Dispatch
    BY <1>4, <2>2 DEF LoopTop, AcceptNothing, HeaderTooLong, LengthFits, Forbid, Throttle,
                      Dispatch, Decided
  <2>3. CASE Accept
    <3>1. \A c \in Clients :
            conn'[c] = conn[c] \/ conn'[c] = [conn[c] EXCEPT !.stage = "open"]
      BY <1>1, <2>3 DEF Accept
    <3> QED
      BY <1>4, <1>9, <3>1
  <2>4. CASE ReadLine \/ ReadHeader \/ ReadFiller \/ ReadBlank \/ HeadersFail \/ ReadBody
               \/ ReadAstray
    <3>1. \A c \in Clients : \E v :
            \/ conn'[c] = conn[c]
            \/ conn'[c] = [conn[c] EXCEPT !.read = v]
            \/ conn'[c] = [conn[c] EXCEPT !.filler = v]
            \/ conn'[c] = [conn[c] EXCEPT !.prompt = v]
      <4>1. current \in Clients
        BY <1>1, <2>4 DEF Serving, ReadLine, ReadHeader, ReadFiller, ReadBlank, HeadersFail,
                          ReadBody, ReadAstray
      <4>2. \/ conn' = [conn EXCEPT ![current].read = conn[current].read + 1]
            \/ conn' = [conn EXCEPT ![current].read = conn[current].sent]
            \/ conn' = [conn EXCEPT ![current].filler = FALSE]
            \/ conn' = [conn EXCEPT ![current].prompt = FALSE]
        BY <2>4 DEF ReadLine, ReadHeader, ReadFiller, ReadBlank, HeadersFail, ReadBody,
                    ReadAstray, Consume
      <4> QED
        BY <1>1, <4>1, <4>2
    <3> QED
      BY <1>4, <1>9, <3>1
  <2> QED
    BY <1>6, <2>1, <2>2, <2>3, <2>4 DEF ThreadStep
<1>7. ASSUME NEW c \in Clients, Connect(c) \/ WriteFiller(c) \/ HangUp(c) PROVE PartsExist'
  <2>1. \A d \in Clients :
          \/ conn'[d] = conn[d]
          \/ conn'[d] = [conn[d] EXCEPT !.stage = "queued"]
          \/ conn'[d] = [conn[d] EXCEPT !.filler = TRUE]
          \/ conn'[d] = [conn[d] EXCEPT !.gone = TRUE]
    BY <1>1, <1>7 DEF Connect, WriteFiller, HangUp
  <2>2. ASSUME NEW d \in Clients
        PROVE  conn'[d].sent = conn[d].sent /\ conn'[d].offer = conn[d].offer
    BY <1>9, <2>1
  <2> QED
    BY <1>4, <2>2
<1>8. CASE TimePasses \/ UNCHANGED vars
  BY <1>4, <1>8 DEF TimePasses, vars, serverVars
<1> QED
  BY <1>3, <1>5, <1>6, <1>7, <1>8 DEF Next, ClientSteps

\* The steps of the owner and of the clients.
LEMMA OthersKeepPrompt ==
    ServerInv /\ PromptInv
      /\ (OwnerStep \/ LoopTop \/ AcceptNothing \/ ClientSteps \/ TimePasses)
      => PromptInv'
<1> SUFFICES ASSUME ServerInv, PromptInv,
                    OwnerStep \/ LoopTop \/ AcceptNothing \/ ClientSteps \/ TimePasses
             PROVE  PromptInv'
  OBVIOUS
<1>1. /\ conn \in [Clients -> Connections]
      /\ current \in Clients \cup {None}
      /\ thread \notin Serving => current = None
      /\ current = None => body = NoBody
      /\ \A c \in Clients : conn[c].stage = "open" <=> current = c
  BY DEF ServerInv, TypeOK, OneOpen, PromptInv, ReadInOrder
<1>2. CASE OwnerStep /\ ~StopClosesListener
  <2>1. UNCHANGED <<conn, written, current, body, got, reply>>
    BY <1>2 DEF OwnerStep, Configure, Start, StartFails, StopClearsRunning, StopJoins, threadVars
  <2>2. UNCHANGED thread \/ current = None
    BY <1>1, <1>2 DEF OwnerStep, Configure, Start, StartFails, StopClearsRunning, StopJoins,
                      threadVars, ServerInv, OwnerMatches, Serving
  <2> QED
    BY <1>1, <2>1, <2>2, ApartKeeps
<1>3. CASE LoopTop \/ AcceptNothing
  <2>1. UNCHANGED <<conn, written, current, body, got, reply>> /\ current = None
    BY <1>1, <1>3 DEF LoopTop, AcceptNothing, Serving
  <2> QED
    BY <1>1, <2>1, ApartKeeps
<1>4. CASE TimePasses
  BY <1>4, ApartKeeps DEF TimePasses, serverVars
<1>5. CASE StopClosesListener
  <2>1. /\ UNCHANGED <<written, current, body, got, reply, thread>>
        /\ \A c \in Clients :
              conn'[c] = IF conn[c].stage = "queued" THEN Over(c, 0) ELSE conn[c]
    BY <1>5 DEF StopClosesListener, threadVars
  <2>2. \A c \in Clients : /\ Over(c, 0).offer = conn[c].offer /\ Over(c, 0).stage = "ended"
                           /\ Over(c, 0).answer = 0
    BY DEF Over
  <2> QED
    BY <1>1, <2>1, <2>2, ApartKeeps
<1>6. ASSUME NEW c \in Clients, Connect(c) \/ WritePart(c) \/ WriteFiller(c) \/ HangUp(c)
      PROVE  PromptInv'
  <2>1. /\ UNCHANGED <<written, current, body, got, reply, thread>>
        /\ \A d \in Clients \ {c} : conn'[d] = conn[d]
        /\ conn'[c].offer = conn[c].offer /\ conn'[c].read = conn[c].read
        /\ conn'[c].prompt = conn[c].prompt /\ conn'[c].answer = conn[c].answer
        /\ \/ conn'[c].stage = conn[c].stage
           \/ conn[c].stage = "idle" /\ conn'[c].stage = "queued"
    <3>1. /\ conn[c] \in [offer : [request : Requests, peer : Keys], stage : Stages,
                          sent : Nat, read : Nat, filler : BOOLEAN, gone : BOOLEAN,
                          prompt : BOOLEAN, answer : Statuses]
      BY <1>1 DEF Connections
    <3> QED
      BY <1>1, <1>6, <3>1
         DEF Connect, WritePart, WriteFiller, HangUp, ClientStep, threadVars
  <2>2. current # None => /\ conn'[current].read = conn[current].read
                          /\ conn'[current].prompt = conn[current].prompt
    BY <1>1, <2>1
  <2> QED
    BY <2>1, <2>2, ApartKeeps
<1> QED
  BY <1>2, <1>3, <1>4, <1>5, <1>6 DEF ClientSteps

\* The ends of a connection: the answer that is sent is deserved.
LEMMA EndsKeepPrompt ==
    ServerInv /\ PromptInv
      /\ (LineFails \/ LengthTooLarge \/ BodyFails \/ Send \/ PageTaken \/ BrokenPipe)
      => PromptInv'
<1> SUFFICES ASSUME ServerInv, PromptInv,
                    LineFails \/ LengthTooLarge \/ BodyFails \/ Send \/ PageTaken \/ BrokenPipe
             PROVE  PromptInv'
  OBVIOUS
<1>1. conn \in [Clients -> Connections] /\ thread \in Serving
  BY DEF ServerInv, TypeOK, LineFails, LengthTooLarge, BodyFails, Send, PageTaken, SendStep,
         BrokenPipe, Serving
<1>2. current \in Clients /\ current # None
  BY <1>1, Served
<1>3. \A c \in Clients : \A a :
        /\ Over(c, a).offer = conn[c].offer /\ Over(c, a).stage = "ended"
        /\ Over(c, a).answer = a /\ Over(c, a).prompt = conn[c].prompt
  BY DEF Over
<1>4. CASE BrokenPipe
  <2>1. /\ UNCHANGED written /\ current' = None /\ body' = NoBody
        /\ \A c \in Clients :
              conn'[c] = IF conn[c].stage \in {"queued", "open"} THEN Over(c, 0) ELSE conn[c]
    BY <1>4 DEF BrokenPipe
  <2> QED
    BY <1>3, <2>1, ApartKeeps
<1>5. ASSUME NEW a, CloseWith(a), UNCHANGED written,
             a # 0 /\ conn[current].prompt => Deserves(current, a)
      PROVE  PromptInv'
  <2>1. /\ current' = None /\ body' = NoBody
        /\ \A c \in Clients : conn'[c] = IF c = current THEN Over(c, a) ELSE conn[c]
    BY <1>1, <1>5 DEF CloseWith
  <2> QED
    BY <1>3, <1>5, <2>1, ApartKeeps
<1>6. CASE LineFails \/ LengthTooLarge \/ BodyFails
  BY <1>5, <1>6 DEF LineFails, LengthTooLarge, BodyFails, ReadStep
<1>7. CASE Send \/ PageTaken
  <2>1. conn[current].prompt => Deserves(current, reply)
    BY <1>2, <1>7 DEF Send, PageTaken, SendStep, PromptInv, ReadInOrder
  <2> QED
    BY <1>5, <1>7, <2>1 DEF Send, PageTaken, SendStep
<1> QED
  BY <1>4, <1>6, <1>7

\* A step of the reading has to keep its order only.
LEMMA ReadingApart ==
    ASSUME ServerInv, PromptInv, thread \in Serving \ {"send"},
           UNCHANGED <<current, written>>,
           \A c \in Clients \ {current} : conn'[c] = conn[c],
           conn'[current].offer = conn[current].offer,
           conn'[current].stage = conn[current].stage,
           ReadInOrder'
    PROVE  PromptInv'
<1>1. /\ current \in Clients /\ conn[current].stage = "open" /\ current # None
  BY Served DEF ServerInv, OneOpen
<1>2. NothingReadYet'
  BY <1>1 DEF PromptInv, NothingReadYet
<1>3. NotYetWritten'
  BY <1>1 DEF PromptInv, NotYetWritten, Wrote
<1>4. PromptAnswerIsRight'
  <2> SUFFICES ASSUME NEW c \in Clients, conn'[c].stage = "ended", conn'[c].prompt,
                      conn'[c].answer # 0
               PROVE  Deserves(c, conn[c].answer)'
    BY DEF PromptAnswerIsRight
  <2>1. conn'[c] = conn[c]
    BY <1>1
  <2>2. Deserves(c, conn'[c].answer)
    BY <2>1 DEF PromptInv, PromptAnswerIsRight
  <2>3. \A a : Deserves(c, a)' <=> Deserves(c, a)
    BY <2>1, DeservesStays
  <2> QED
    BY <2>2, <2>3
<1> QED
  BY <1>2, <1>3, <1>4 DEF PromptInv

\* The next part has been read.
LEMMA Consumed ==
    ASSUME ServerInv, thread \in Serving, Arrived, conn' = Consume, current' = current
    PROVE  /\ \A c \in Clients \ {current} : conn'[c] = conn[c]
           /\ conn'[current].offer = conn[current].offer
           /\ conn'[current].stage = conn[current].stage
           /\ conn'[current].prompt = conn[current].prompt
           /\ conn'[current].read = conn[current].read + 1
           /\ Request(current)' = Request(current)
<1>1. current \in Clients /\ conn \in [Clients -> Connections]
  BY Served DEF ServerInv, TypeOK
<1>2. conn[current] \in [offer : [request : Requests, peer : Keys], stage : Stages,
                         sent : Nat, read : Nat, filler : BOOLEAN, gone : BOOLEAN,
                         prompt : BOOLEAN, answer : Statuses]
  BY <1>1 DEF Connections
<1>3. conn'[current] = [conn[current] EXCEPT !.read = conn[current].read + 1]
  BY <1>1 DEF Consume
<1>4. conn'[current].offer = conn[current].offer
  BY <1>2, <1>3
<1> QED
  BY <1>1, <1>2, <1>3, <1>4 DEF Consume, Request

\* What has arrived is a part of the request.
LEMMA NextExists ==
    ASSUME ServerInv, PartsExist, thread \in Serving, Arrived
    PROVE  conn[current].read + 1 \in 1..Len(Parts(Request(current)))
<1>1. /\ current \in Clients /\ Request(current) \in Requests
      /\ conn[current].sent \in Nat /\ conn[current].read \in Nat
      /\ conn[current].read < conn[current].sent
  BY Served DEF Arrived
<1>2. /\ conn[current].sent <= Len(Parts(Request(current)))
      /\ Len(Parts(Request(current))) \in Nat
  BY <1>1, PartsOrder DEF PartsExist
<1> QED
  BY <1>1, <1>2

\* The header loop reads the parts of a request up to the blank line.
LEMMA HeadersInOrder ==
    ASSUME ServerInv, PromptInv, PartsExist, ReadLine \/ ReadHeader \/ ReadBlank
    PROVE  PromptInv'
<1> DEFINE r == Request(current)
           n == conn[current].read
<1>1. /\ thread \in {"line", "headers"} /\ thread \in Serving \ {"send"}
      /\ Arrived /\ conn' = Consume /\ UNCHANGED <<current, written, body>>
      /\ Parts(r)[n + 1] # r.long
  BY DEF ReadLine, ReadHeader, ReadBlank, ReadStep, Serving, TooLong, NextPart
<1>2. /\ current \in Clients /\ current # None
      /\ r \in Requests /\ n \in Nat
      /\ got \in [length : Lengths, auth : Auths]
  BY <1>1, Served DEF ServerInv, TypeOK
<1>3. /\ \A c \in Clients \ {current} : conn'[c] = conn[c]
      /\ conn'[current].offer = conn[current].offer
      /\ conn'[current].stage = conn[current].stage
      /\ conn'[current].prompt = conn[current].prompt
      /\ conn'[current].read = n + 1
      /\ Request(current)' = r
  BY <1>1, Consumed
<1>4. \A i \in 1..(n + 1) : i \in 1..n \/ i = n + 1
  BY <1>2
<1>5. \A part, value : Found(part, value)' = IF Parts(r)[n + 1] = part THEN value
                                            ELSE Found(part, value)
  <2> SUFFICES ASSUME NEW part, NEW value
               PROVE  Found(part, value)' = IF Parts(r)[n + 1] = part THEN value
                                            ELSE Found(part, value)
    OBVIOUS
  <2>1. (\E i \in 1..(n + 1) : Parts(r)[i] = part)
          <=> Parts(r)[n + 1] = part \/ \E i \in 1..n : Parts(r)[i] = part
    BY <1>2, <1>4
  <2>2. Found(part, value)' = IF \E i \in 1..(n + 1) : Parts(r)[i] = part THEN value ELSE "none"
    BY <1>1, <1>3 DEF Found
  <2> QED
    BY <2>1, <2>2 DEF Found
<1>6. CASE ~conn[current].prompt
  BY <1>1, <1>2, <1>3, <1>6, ReadingApart DEF ReadInOrder
<1>7. CASE conn[current].prompt /\ ReadLine
  <2>1. thread' = "headers" /\ got' = got /\ thread = "line"
    BY <1>7 DEF ReadLine
  <2>2. n = 0 /\ got = NoHeaders /\ body = NoBody
    BY <1>2, <1>7, <2>1 DEF PromptInv, ReadInOrder
  <2>3. Parts(r)[1] = "line"
    BY <1>2, PartsOrder
  <2>4. \A i \in 1..(n + 1) : Parts(r)[i] \notin {"blank", r.long}
    BY <1>1, <2>2, <2>3
  <2>5. \A part, value : part # "line" => Found(part, value)' = "none"
    BY <1>5, <2>2, <2>3 DEF Found
  <2>6. ReadInOrder'
    BY <1>1, <1>2, <1>3, <2>1, <2>2, <2>4, <2>5 DEF ReadInOrder, NoHeaders
  <2> QED
    BY <1>1, <1>3, <2>6, ReadingApart
<1>8. CASE conn[current].prompt /\ ReadHeader
  <2>1. /\ thread' = "headers" /\ thread = "headers"
        /\ Parts(r)[n + 1] \in {"length", "auth"}
        /\ got' = IF Parts(r)[n + 1] = "length" THEN [got EXCEPT !.length = r.length]
                  ELSE [got EXCEPT !.auth = r.auth]
    BY <1>8 DEF ReadHeader, NextPart
  <2>2. /\ body = NoBody
        /\ \A i \in 1..n : Parts(r)[i] \notin {"blank", r.long}
        /\ got.length = Found("length", r.length) /\ got.auth = Found("auth", r.auth)
    BY <1>2, <1>8, <2>1 DEF PromptInv, ReadInOrder
  <2>3. \A i \in 1..(n + 1) : Parts(r)[i] \notin {"blank", r.long}
    BY <1>1, <1>4, <2>1, <2>2
  <2>4. got'.length = Found("length", r.length)' /\ got'.auth = Found("auth", r.auth)'
    <3>1. CASE Parts(r)[n + 1] = "length"
      <4>1. got'.length = r.length /\ got'.auth = got.auth
        BY <1>2, <2>1, <3>1
      <4> QED
        BY <1>3, <1>5, <2>2, <3>1, <4>1
    <3>2. CASE Parts(r)[n + 1] = "auth"
      <4>1. got'.auth = r.auth /\ got'.length = got.length
        BY <1>2, <2>1, <3>2
      <4> QED
        BY <1>3, <1>5, <2>2, <3>2, <4>1
    <3> QED
      BY <2>1, <3>1, <3>2
  <2>5. ReadInOrder'
    BY <1>1, <1>2, <1>3, <2>1, <2>2, <2>3, <2>4 DEF ReadInOrder
  <2> QED
    BY <1>1, <1>3, <2>5, ReadingApart
<1>9. CASE conn[current].prompt /\ ReadBlank
  <2>1. /\ thread = "headers" /\ got' = got
        /\ Parts(r)[n + 1] = "blank"
        /\ thread' = IF got.length = "none" THEN "decide" ELSE "length"
    BY <1>9 DEF ReadBlank, NextPart
  <2>2. /\ body = NoBody
        /\ \A i \in 1..n : Parts(r)[i] \notin {"blank", r.long}
        /\ got.length = Found("length", r.length) /\ got.auth = Found("auth", r.auth)
    BY <1>2, <1>9, <2>1 DEF PromptInv, ReadInOrder
  <2>3. n + 1 \in 1..Len(Parts(r))
    BY <1>1, NextExists
  <2>4. \A i \in 1..(n + 1) : Parts(r)[i] # r.long
    BY <1>1, <1>4, <2>2
  <2>5. /\ Hears(r, "blank")
        /\ got.length = LengthHeard(r) /\ got.auth = AuthHeard(r)
    BY <1>2, <2>1, <2>2, <2>3, <2>4, HeardAtBlank DEF Found
  <2>6. ReadInOrder'
    <3>1. CASE thread' = "decide"
      BY <1>1, <1>2, <1>3, <2>1, <2>2, <2>5, <3>1 DEF ReadInOrder, BodiesHeard
    <3>2. CASE thread' = "length"
      <4>1. n + 1 > 0
        BY <1>2
      <4> QED
        BY <1>1, <1>2, <1>3, <2>1, <2>2, <2>5, <3>2, <4>1 DEF ReadInOrder
    <3> QED
      BY <2>1, <3>1, <3>2
  <2> QED
    BY <1>1, <1>3, <2>6, ReadingApart
<1> QED
  BY <1>3, <1>6, <1>7, <1>8, <1>9 DEF ServerInv, TypeOK, Connections

\* The other steps of the reading: a header that is waited for in vain ends the
\* promptness, a line that is too long ends the headers, and then comes the body
\* or what stands in its place.
LEMMA BodyInOrder ==
    ASSUME ServerInv, PromptInv, PartsExist,
           \/ ReadFiller \/ HeadersFail \/ HeaderTooLong
           \/ LengthFits \/ ReadBody \/ ReadAstray
    PROVE  PromptInv'
<1> DEFINE r == Request(current)
           n == conn[current].read
<1>1. /\ thread \in {"headers", "length", "body"} /\ thread \in Serving \ {"send"}
      /\ UNCHANGED <<current, written, got, reply>>
  BY DEF ReadFiller, HeadersFail, HeaderTooLong, LengthFits, ReadBody, ReadAstray, ReadStep,
         Serving, threadVars
<1>2. /\ current \in Clients /\ current # None
      /\ r \in Requests /\ n \in Nat /\ conn[current].sent \in Nat
      /\ conn \in [Clients -> Connections]
  BY <1>1, Served DEF ServerInv, TypeOK
<1>3. conn[current] \in [offer : [request : Requests, peer : Keys], stage : Stages,
                         sent : Nat, read : Nat, filler : BOOLEAN, gone : BOOLEAN,
                         prompt : BOOLEAN, answer : Statuses]
  BY <1>2 DEF Connections
<1>4. CASE HeadersFail
  <2>1. /\ \A c \in Clients \ {current} : conn'[c] = conn[c]
        /\ conn'[current].offer = conn[current].offer
        /\ conn'[current].stage = conn[current].stage
        /\ conn'[current].prompt = FALSE
    BY <1>2, <1>3, <1>4 DEF HeadersFail
  <2> QED
    BY <1>1, <1>2, <2>1, ReadingApart DEF ReadInOrder
<1>5. CASE ReadFiller \/ LengthFits
  <2>1. /\ \A c \in Clients \ {current} : conn'[c] = conn[c]
        /\ conn'[current].offer = conn[current].offer
        /\ conn'[current].stage = conn[current].stage
        /\ conn'[current].prompt = conn[current].prompt
        /\ conn'[current].read = n
        /\ UNCHANGED body
    BY <1>2, <1>3, <1>5 DEF ReadFiller, LengthFits, threadVars
  <2>2. \/ thread = "headers" /\ thread' = "headers"
        \/ thread = "length" /\ thread' = "body"
    BY <1>5 DEF ReadFiller, LengthFits, threadVars
  <2>3. /\ Request(current)' = r
        /\ \A part, value : Found(part, value)' = Found(part, value)
    BY <1>1, <2>1 DEF Request, Found
  <2>4. ReadInOrder'
    BY <1>1, <1>2, <2>1, <2>2, <2>3 DEF PromptInv, ReadInOrder
  <2> QED
    BY <1>1, <2>1, <2>4, ReadingApart
<1>6. CASE ReadBody \/ ReadAstray
  <2>1. /\ \A c \in Clients \ {current} : conn'[c] = conn[c]
        /\ conn'[current].offer = conn[current].offer
        /\ conn'[current].stage = conn[current].stage
        /\ conn'[current].prompt = conn[current].prompt
        /\ thread = "body" /\ thread' = "decide" /\ Arrived
    BY <1>2, <1>3, <1>6 DEF ReadBody, ReadAstray, Consume
  <2>2. Request(current)' = r
    BY <1>1, <2>1 DEF Request
  <2>3. ASSUME conn[current].prompt PROVE body' \in BodiesHeard(r) /\ got.auth = AuthHeard(r)
    <3>1. /\ LengthHeard(r) # "none" /\ got.auth = AuthHeard(r)
          /\ \/ Hears(r, "blank") /\ n > 0 /\ Parts(r)[n] = "blank"
             \/ ~Hears(r, "blank") /\ Parts(r)[n + 1] = r.long
      BY <1>2, <2>1, <2>3 DEF PromptInv, ReadInOrder
    <3>2. n + 1 \in 1..Len(Parts(r)) /\ Len(Parts(r)) \in Nat
      BY <1>1, <1>2, <2>1, NextExists, PartsOrder
    <3>3. CASE Hears(r, "blank")
      <4>1. n \in 1..Len(Parts(r)) /\ Parts(r)[n] = "blank"
        BY <1>2, <3>1, <3>2, <3>3
      <4>2. NextPart = "body"
        BY <1>2, <3>2, <4>1, PartsOrder DEF NextPart
      <4> QED
        BY <1>6, <3>1, <3>3, <4>2 DEF ReadBody, ReadAstray, BodiesHeard
    <3>4. CASE ~Hears(r, "blank")
      <4>1. NextPart # "body"
        BY <1>2, <3>1, <3>4 DEF NextPart, Requests, Longs
      <4> QED
        BY <1>6, <3>1, <3>4, <4>1 DEF ReadBody, ReadAstray, BodiesHeard
    <3> QED
      BY <3>3, <3>4
  <2>4. ReadInOrder'
    BY <1>1, <1>2, <2>1, <2>2, <2>3 DEF ReadInOrder
  <2> QED
    BY <1>1, <2>1, <2>4, ReadingApart
<1>7. CASE HeaderTooLong
  <2>1. /\ thread = "headers" /\ Arrived /\ Parts(r)[n + 1] = r.long
        /\ UNCHANGED <<conn, body>>
        /\ thread' = IF got.length = "none" THEN "decide" ELSE "length"
    BY <1>7 DEF HeaderTooLong, TooLong, NextPart
  <2>2. Request(current)' = r
    BY <1>1, <2>1 DEF Request
  <2>3. ASSUME conn[current].prompt
        PROVE  /\ body = NoBody /\ ~Hears(r, "blank")
               /\ got.length = LengthHeard(r) /\ got.auth = AuthHeard(r)
    <3>1. /\ body = NoBody
          /\ \A i \in 1..n : Parts(r)[i] \notin {"blank", r.long}
          /\ got.length = Found("length", r.length) /\ got.auth = Found("auth", r.auth)
      BY <1>2, <2>1, <2>3 DEF PromptInv, ReadInOrder
    <3>2. ASSUME NEW part PROVE Hears(r, part) <=> \E i \in 1..n : Parts(r)[i] = part
      <4>1. n + 1 \in 1..Len(Parts(r)) /\ \A i \in 1..n : Parts(r)[i] # r.long
        BY <1>1, <2>1, <3>1, NextExists
      <4> QED
        BY <1>2, <2>1, <4>1, HeardBefore
    <3> QED
      BY <3>1, <3>2 DEF Found, LengthHeard, AuthHeard
  <2>4. ReadInOrder'
    BY <1>1, <1>2, <2>1, <2>2, <2>3 DEF ReadInOrder, BodiesHeard
  <2> QED
    BY <1>1, <2>1, <2>4, ReadingApart
<1> QED
  BY <1>4, <1>5, <1>6, <1>7

\* A connection that is accepted has had nothing read of it, and has nothing
\* written.
LEMMA AcceptKeepsPrompt == ServerInv /\ PromptInv /\ Accept => PromptInv'
<1> SUFFICES ASSUME ServerInv, PromptInv, Accept PROVE PromptInv'
  OBVIOUS
<1> DEFINE c == Head(backlog)
<1>1. /\ thread = "accept" /\ thread' = "line" /\ current' = c /\ backlog # <<>>
      /\ UNCHANGED <<got, body, reply, written>>
      /\ conn' = [conn EXCEPT ![c].stage = "open"]
      /\ conn \in [Clients -> Connections] /\ backlog \in Seq(Clients)
  BY DEF Accept, ServerInv, TypeOK
<1>2. c \in Clients /\ conn[c].stage = "queued"
  BY <1>1, HeadTailProperties, LenProperties DEF ServerInv, BacklogWaits
<1>3. current = None /\ got = NoHeaders /\ body = NoBody /\ c # None
  BY <1>1, <1>2 DEF ServerInv, OneOpen, OwnHeaders, Serving, PromptInv, ReadInOrder
<1> HIDE DEF c
<1>4. /\ \A d \in Clients \ {c} : conn'[d] = conn[d]
      /\ conn'[c].offer = conn[c].offer /\ conn'[c].stage = "open"
      /\ conn'[c].read = 0
  BY <1>1, <1>2 DEF PromptInv, NothingReadYet, Connections
<1>5. NothingReadYet'
  BY <1>4 DEF PromptInv, NothingReadYet
<1>6. ~Wrote(c)
  BY <1>2, <1>3 DEF ServerInv, WritersServed
<1>7. NotYetWritten'
  BY <1>1, <1>6 DEF NotYetWritten, Wrote
<1>8. ReadInOrder'
  BY <1>1, <1>3, <1>4 DEF ReadInOrder
<1>9. PromptAnswerIsRight'
  <2> SUFFICES ASSUME NEW d \in Clients, conn'[d].stage = "ended", conn'[d].prompt,
                      conn'[d].answer # 0
               PROVE  Deserves(d, conn[d].answer)'
    BY DEF PromptAnswerIsRight
  <2>1. conn'[d] = conn[d]
    BY <1>4
  <2>2. Deserves(d, conn'[d].answer)
    BY <2>1 DEF PromptInv, PromptAnswerIsRight
  <2>3. \A a : Deserves(d, a)' <=> Deserves(d, a)
    BY <1>1, <2>1, DeservesStays
  <2> QED
    BY <2>2, <2>3
<1> QED
  BY <1>5, <1>7, <1>8, <1>9 DEF PromptInv

\* The decision is about what has been heard of the client.
LEMMA DecisionKeepsPrompt ==
    ASSUME ServerInv, PromptInv, Forbid \/ Throttle \/ Dispatch
    PROVE  PromptInv'
<1> DEFINE r == Request(current)
<1>1. /\ thread = "decide" /\ thread \in Serving /\ thread' = "send"
      /\ UNCHANGED <<current, got, body, conn>>
  BY DEF Forbid, Throttle, Dispatch, Decided, Serving
<1>2. current \in Clients /\ current # None /\ conn[current].stage = "open"
  BY <1>1, Served
<1>3. \A c \in Clients \ {current} : \A l \in Good : <<c, l>> \in written' <=> <<c, l>> \in written
  <2> SUFFICES ASSUME NEW c \in Clients \ {current}, NEW l \in Good
               PROVE  <<c, l>> \in written' <=> <<c, l>> \in written
    OBVIOUS
  <2>1. \A k : <<current, k>> # <<c, l>>
    OBVIOUS
  <2>2. \/ written' = written
        \/ written' = written \cup {<<current, k>> : k \in AcceptedLines(body)}
    BY DEF Forbid, Throttle, Dispatch
  <2> QED
    BY <2>1, <2>2
<1>4. NothingReadYet'
  BY <1>1 DEF PromptInv, NothingReadYet
<1>5. NotYetWritten'
  BY <1>1 DEF NotYetWritten
<1>6. PromptAnswerIsRight'
  <2> SUFFICES ASSUME NEW d \in Clients, conn'[d].stage = "ended", conn'[d].prompt,
                      conn'[d].answer # 0
               PROVE  Deserves(d, conn[d].answer)'
    BY DEF PromptAnswerIsRight
  <2>1. conn'[d] = conn[d] /\ d # current
    BY <1>1, <1>2
  <2>2. Deserves(d, conn'[d].answer)
    BY <2>1 DEF PromptInv, PromptAnswerIsRight
  <2>3. \A a : Deserves(d, a)' <=> Deserves(d, a)
    BY <1>3, <2>1, DeservesStays
  <2> QED
    BY <2>2, <2>3
<1>7. ASSUME conn[current].prompt PROVE Deserves(current, reply)'
  <2>1. got.auth = AuthHeard(r) /\ body \in BodiesHeard(r)
    BY <1>1, <1>2, <1>7 DEF PromptInv, ReadInOrder
  <2>2. Request(current)' = r /\ Peer(current)' = Peer(current)
    BY <1>1 DEF Request, Peer
  <2>3. MayPass <=> \/ Entitled(Peer(current), r.target, AuthHeard(r))
                    \/ NamesUser(Peer(current), AuthHeard(r))
    BY <2>1, PermittedMeans DEF MayPass
  <2>4. CASE Forbid
    <3>1. ~MayPass /\ reply' = 403
      BY <2>4 DEF Forbid, Decided
    <3> QED
      BY <1>1, <2>2, <2>3, <3>1 DEF Deserves
  <2>5. CASE Throttle
    <3>1. MayPass /\ reply' = 429
      BY <2>5 DEF Throttle, Decided
    <3> QED
      BY <1>1, <2>1, <2>2, <2>3, <3>1 DEF Deserves
  <2>6. CASE Dispatch
    <3>1. /\ MayPass /\ reply' = Status(r, body)
          /\ Ingests(r) => written' = written \cup {<<current, l>> : l \in AcceptedLines(body)}
      BY <2>6 DEF Dispatch, Decided
    <3>2. ASSUME Ingests(r)
          PROVE  {l \in Good : <<current, l>> \in written'} = AcceptedLines(body)
      <4>1. \A l \in Good : <<current, l>> \notin written
        BY <1>1, <1>2 DEF PromptInv, NotYetWritten, Wrote
      <4>2. AcceptedLines(body) \subseteq Good
        BY DEF AcceptedLines, GoodLines
      <4>3. \A l \in Good : <<current, l>> \in written' <=> l \in AcceptedLines(body)
        BY <3>1, <3>2, <4>1
      <4> QED
        BY <4>2, <4>3
    <3> QED
      BY <1>1, <2>1, <2>2, <2>3, <3>1, <3>2 DEF Deserves
  <2> QED
    BY <2>4, <2>5, <2>6
<1>8. ReadInOrder'
  BY <1>1, <1>2, <1>7 DEF ReadInOrder
<1> QED
  BY <1>4, <1>5, <1>6, <1>8 DEF PromptInv

\* The initial state: nothing has been read, written or answered.
LEMMA InitPrompt == Init => PromptInv /\ PartsExist
<1> SUFFICES ASSUME Init PROVE PromptInv /\ PartsExist
  OBVIOUS
<1>1. /\ \A c \in Clients : /\ conn[c].stage = "idle" /\ conn[c].read = 0
                            /\ conn[c].sent = 0
      /\ current = None /\ body = NoBody
  BY DEF Init
<1>2. \A c \in Clients : Len(Parts(Request(c))) \in Nat
  BY InitServer, PartsOrder DEF ServerInv, TypeOK, Connections, Request
<1> QED
  BY <1>1, <1>2 DEF PromptInv, NothingReadYet, NotYetWritten, ReadInOrder, PromptAnswerIsRight,
                    PartsExist

\* Every step keeps it.
LEMMA PromptStep == ServerInv /\ PartsExist /\ PromptInv /\ [Next]_vars => PromptInv'
<1> SUFFICES ASSUME ServerInv, PartsExist, PromptInv, [Next]_vars PROVE PromptInv'
  OBVIOUS
<1>1. CASE OwnerStep \/ ClientSteps \/ TimePasses
  BY <1>1, OthersKeepPrompt
<1>2. CASE ThreadStep \/ PageTaken
  BY <1>2, OthersKeepPrompt, AcceptKeepsPrompt, HeadersInOrder, BodyInOrder, EndsKeepPrompt,
     DecisionKeepsPrompt DEF ThreadStep
<1>3. CASE UNCHANGED vars
  BY <1>3, ApartKeeps DEF vars, serverVars
<1> QED
  BY <1>1, <1>2, <1>3 DEF Next

\* A client that writes its request without a pause gets the answer that its
\* own request deserves, and a 200 for an ingest means that exactly the good
\* lines of its body are in (metrics_server.cpp:72-183), whatever connections
\* came before.  Of a request with a line that is too long this is said of what
\* stands before that line, and of what is read in the body's place.
THEOREM AnswersAreRight == Spec => []PromptAnswerIsRight
<1>1. ServerInv /\ PartsExist /\ PromptInv /\ ServerInv' /\ [Next]_vars
        => PartsExist' /\ PromptInv'
  BY PartsExistStep, PromptStep
<1>2. Spec => [](PartsExist /\ PromptInv)
  BY <1>1, InitPrompt, Invariance, PTL DEF Spec
<1> QED
  BY <1>2, PTL DEF PromptInv
====
