----------------------------- MODULE ScrapeFetch -----------------------------
(***************************************************************************)
(* A worker scrapes one target again and again: httpGet(), where each read *)
(* gives what has come by then, in the middle of a line or not, or times   *)
(* out, or finds the connection closed; then the decision of scrapeOne()   *)
(* and the merge.  The target is a simple-metricd with a counter, a        *)
(* histogram and a gauge that does not change; other servers differ in     *)
(* their header lines.                                                     *)
(*                                                                         *)
(* A response is a sequence of lines: a status line, header lines, a blank *)
(* line and the page.  Every line is two units long, so that unit 2 * i    *)
(* ends line i and an odd number of units ends inside a line.              *)
(***************************************************************************)
EXTENDS PrometheusText, Histogram

CONSTANTS
  Headers,      \* the lists of header lines that occur
  Codes,        \* what the status line may say: "200", "500" or "garbage"
  Texts,        \* how the gauge's name is read back (see SampleLine)
  FirstTotal,   \* the counter's value to begin with
  MaxEvents,    \* bound: updates of the counter and the histogram
  MaxFetches,   \* bound: scrapes
  Chunk,        \* units that one recv() gives (4096 bytes)
  BodyLimit     \* units of a body before httpGet() stops reading (1 MiB)

ASSUME FetchAssumption ==
  /\ \A headers \in Headers :
       headers \in Seq([kind : {"header"}, as : {"text", "numeric", "long"}])
  /\ Codes \subseteq {"200", "500", "garbage"}
  /\ Texts \subseteq {"plain", "unreadable", "misread"}
  /\ FirstTotal \in Nat /\ MaxEvents \in Nat /\ MaxFetches \in Nat
  /\ Chunk \in Nat \ {0} /\ BodyLimit \in Nat

VARIABLES
  total, text,     \* the counter of the target, and the gauge's Texts
  pc,              \* where the worker is
  resp,            \* the response
  position, from,  \* the units read, and those read before the body
  shown,           \* history: the registry that resp shows
  sink,            \* the worker's registry
  successes, failures

targetVars == <<total, text, histogramVars>>
respVars   == <<resp, shown>>
readVars   == <<position, from>>
doneVars   == <<sink, successes, failures>>
vars       == <<targetVars, pc, respVars, readVars, doneVars>>

Counter == 1
Latency == 2
Gauge   == 3

Scalar(type, value, help, as) ==
  [type |-> type, value |-> value, help |-> help, labels |-> <<>>, text |-> as]

Registry ==
  [n \in {Counter, Latency, Gauge} |->
     CASE n = Counter -> Scalar("counter", total, "", "plain")
       [] n = Latency -> [type |-> "histogram", help |-> "", labels |-> <<>>,
                          bounds |-> Bounds, counts |-> counts, sum |-> sum, count |-> count]
       [] n = Gauge -> Scalar("gauge", 7, "of the day", text)]

Header(as) == [kind |-> "header", as |-> as]

Init ==
  /\ HistogramInit
  /\ total = FirstTotal
  /\ text \in Texts
  /\ pc = "idle"
  /\ resp = <<>>
  /\ position = 0 /\ from = 0
  /\ shown = <<>>
  /\ sink = <<>>
  /\ successes = 0 /\ failures = 0

-----------------------------------------------------------------------------
(* The target. *)

Events == (total - FirstTotal) + count

Increment ==
  /\ Events < MaxEvents
  /\ total' = total + 1
  /\ UNCHANGED <<text, histogramVars, pc, respVars, readVars, doneVars>>

ObserveSample ==
  /\ Events < MaxEvents
  /\ HistogramNext
  /\ UNCHANGED <<total, text, pc, respVars, readVars, doneVars>>

Target == Increment \/ ObserveSample

-----------------------------------------------------------------------------
(* httpGet(). *)

\* scrapeOne() begins; the name is resolved.
Begin ==
  /\ pc = "idle"
  /\ successes + failures < MaxFetches
  /\ pc' = "connect"
  /\ UNCHANGED <<targetVars, respVars, readVars, doneVars>>

Failed == failures' = failures + 1 /\ pc' = "idle" /\ UNCHANGED <<sink, successes>>

\* No address, no connection, or the request could not be sent.
CannotConnect ==
  /\ pc = "connect"
  /\ Failed
  /\ UNCHANGED <<targetVars, respVars, readVars>>

\* The request is sent, and answered with the page of the moment.
Connects ==
  /\ pc = "connect"
  /\ \E code \in Codes, headers \in Headers :
        resp' = <<[kind |-> "status", code |-> code]>> \o headers \o <<Comment>>
                  \o (IF code = "200" THEN Render(Registry) ELSE <<Junk>>)
  /\ shown' = Registry
  /\ position' = 0 /\ from' = 0
  /\ pc' = "status"
  /\ UNCHANGED <<targetVars, doneVars>>

Total   == 2 * Len(resp)
Current == resp[position \div 2 + 1]

StatusLine ==
  /\ pc = "status"
  /\ position' = position + 2
  /\ IF Current.code = "garbage" THEN Failed
     ELSE pc' = "headers" /\ UNCHANGED doneVars
  /\ UNCHANGED <<targetVars, respVars, from>>

\* The line did not come in time, or not at all.
NoStatusLine ==
  /\ pc = "status"
  /\ Failed
  /\ UNCHANGED <<targetVars, respVars, readVars>>

HeaderLine ==
  /\ pc = "headers"
  /\ Current.kind = "header" /\ Current.as # "long"
  /\ position' = position + 2
  /\ UNCHANGED <<targetVars, pc, respVars, from, doneVars>>

\* The headers are over at the blank line, or with a line that recvLine() gives
\* up: in its middle when it has 8192 bytes, and wherever it has got to when the
\* rest does not come in time.  What comes later is read as the body.
HeadersEnd ==
  /\ pc = "headers"
  /\ \/ Current.kind = "comment" /\ position' = position + 2
     \/ position' \in {position, position + 1}
  /\ from' = position'
  /\ pc' = "body"
  /\ UNCHANGED <<targetVars, respVars, doneVars>>

\* Mutant: the limit is not checked.
ReadsWithoutLimit ==
  /\ pc = "body"
  /\ position < Total
  /\ \E n \in 1..Min({Chunk, Total - position}) : position' = position + n
  /\ UNCHANGED <<targetVars, pc, respVars, from, doneVars>>

\* recvAvailable(): what has come, and no more after that when it is too much.
ReadsBody ==
  /\ pc = "body"
  /\ position < Total
  /\ \E n \in 1..Min({Chunk, Total - position}) : position' = position + n
  /\ pc' = IF position' - from > BodyLimit THEN "decide" ELSE "body"
  /\ UNCHANGED <<targetVars, respVars, from, doneVars>>

\* Nothing comes in time, or the connection is closed.
BodyEnds ==
  /\ pc = "body"
  /\ pc' = "decide"
  /\ UNCHANGED <<targetVars, respVars, readVars, doneVars>>

-----------------------------------------------------------------------------
(* scrapeOne(). *)

\* What a line of the response is to the parser.  A header line is a sample if
\* it is an "Age: 5", or the end of a "Content-Length: 5"; and nothing may be
\* left of it but the end of the line.
Readings(line) ==
  CASE line.kind # "header" -> {line}
    [] line.kind = "header" /\ line.as = "numeric" ->
         {Junk, Comment, Sample(<<0, "header">>, <<>>, 5)}
    [] line.kind = "header" /\ line.as # "numeric" -> {Junk, Comment}

\* What the first half of a line may be: a number may have lost its last digits.
TornReadings(line) ==
  CASE line.kind = "sample" -> {Junk, line, [line EXCEPT !.value = @ \div 10]} \ {[line EXCEPT !.value = 0]}
    [] line.kind = "header" -> Readings(line)
    [] line.kind = "junk"   -> {Junk}
    [] OTHER -> {Comment}

InALine  == position % 2 = 1
TornLine == resp[position \div 2 + 1]

\* What each line can be that has been read behind position from: the first may
\* lack its beginning and one more its end.
BodyReadings ==
  [i \in 1..(position \div 2 - from \div 2) |-> Readings(resp[from \div 2 + i])]
    \o (IF InALine THEN <<TornReadings(TornLine)>> ELSE <<>>)

Extended(bodies, readings) == {Append(body, r) : body \in bodies, r \in readings}

\* The bodies that what has been read can be.
Bodies == FoldLeft(Extended, {<<>>}, BodyReadings)

Code == resp[1].code

\* A page is merged, and has been scraped if all of it could be read.
Decide ==
  /\ pc = "decide"
  /\ \E body \in Bodies :
        /\ IF Code = "200" THEN sink' = Merged(sink, body) ELSE UNCHANGED sink
        /\ IF Code = "200" /\ Parse(body).ok
           THEN successes' = successes + 1 /\ UNCHANGED failures
           ELSE failures' = failures + 1 /\ UNCHANGED successes
  /\ pc' = "idle"
  /\ UNCHANGED <<targetVars, respVars, readVars>>

Worker == \/ Begin \/ CannotConnect \/ Connects \/ StatusLine \/ NoStatusLine
          \/ HeaderLine \/ HeadersEnd \/ ReadsBody \/ BodyEnds \/ Decide

Next == Target \/ Worker

Spec == Init /\ [][Next]_vars
-----------------------------------------------------------------------------
(* Properties. *)

\* The type invariant; a body takes no more memory than the limit and one buffer,
\* however long the headers were (net.cpp:206-222).
TypeOK ==
  /\ total \in FirstTotal..(FirstTotal + MaxEvents) /\ text \in Texts
  /\ pc \in {"idle", "connect", "status", "headers", "body", "decide"}
  /\ 0 <= from /\ from <= position /\ position <= Total
  /\ pc \in {"body", "decide"} => position - from <= BodyLimit + Chunk
  /\ \A x \in DOMAIN sink : sink[x].type \in Types /\ sink[x].value \in Int
  /\ successes + failures \in 0..MaxFetches

\* The headers were over before their blank line had come.
HeaderUnits == 2 * SelectInSeq(resp, LAMBDA line : line = Comment)
Late == from # HeaderUnits

Bucket == <<Latency, "_bucket">>
SumOf  == <<Latency, "_sum">>
NumOf  == <<Latency, "_count">>

\* What a page makes of a registry: a histogram becomes three gauges.
Image(registry) ==
  LET gauge(value, labels) ==
        [type |-> "gauge", help |-> "", labels |-> labels, value |-> value]
      scalar(m) == [type |-> m.type, help |-> m.help, labels |-> m.labels,
                    value |-> Written(m.value)]
      h == registry[Latency]
  IN  [x \in {Plain(Counter), Plain(Gauge), Bucket, SumOf, NumOf} |->
         CASE x \in {Plain(Counter), Plain(Gauge)} -> scalar(registry[x[1]])
           [] x = Bucket -> gauge(h.count, <<"+Inf">>)
           [] x = SumOf -> gauge(Written(h.sum), <<>>)
           [] x = NumOf -> gauge(h.count, <<>>)]

\* A registry into which the metrics of an image have been put.
With(registry, image) ==
  [x \in DOMAIN registry \cup DOMAIN image |->
     IF x \in DOMAIN image THEN image[x] ELSE registry[x]]

\* A scrape that is counted as failed has changed nothing, although the line
\* that spoils it may be the last one of a page (prometheus_text.cpp:135-140,
\* scheduler.cpp:97-112).
FailureMergesNothing == [][failures' # failures => sink' = sink]_vars

\* A page that is read to its end arrives as it was: every counter and gauge
\* with its type, help and value, every histogram as its count, sum and last
\* bucket.
WholePageArrives ==
  [][pc = "decide" /\ pc' = "idle" /\ Code = "200" /\ ~Late /\ position = Total /\ text = "plain"
       => sink' = With(sink, Image(shown)) /\ successes' = successes + 1]_vars

Arrived(x) == x \in DOMAIN sink' /\ (x \in DOMAIN sink => sink'[x] # sink[x])

CutIn(x) == InALine /\ TornLine.kind = "sample" /\ TornLine.name = x

\* Nothing arrives that the target has not shown, but for four things that
\* httpGet() and the parser let through: a number cut off by a body that breaks
\* off, a bucket that is not the last for the same reason, a header line that
\* came late, and a name that is read as another.
OnlyTheShownArrives ==
  [][\A x \in DOMAIN sink' : Arrived(x) =>
       \/ x \in DOMAIN Image(shown) /\ sink'[x] = Image(shown)[x]
       \/ CutIn(x)
       \/ x = Bucket /\ position < Total
            /\ sink'[x].value \in Range(shown[Latency].counts)
       \/ x = <<0, "header">> /\ Late
       \/ x = <<Gauge, "cut">> /\ text = "misread"]_vars

Scraped == Plain(Counter)

\* The worker's copy of a counter falls back only when its number has been cut
\* off, although it is a new object each time, which nothing keeps from falling:
\* that the scrapes of one target follow one another (SingleFlight) does it.  The
\* counter of the target only rises here: a target that restarts, or is sent a
\* lower number (registry.cpp:37), makes the copy fall as it should.
CopyNeverBack ==
  [][~CutIn(Scraped) /\ Scraped \in DOMAIN sink =>
       Scraped \in DOMAIN sink' /\ sink'[Scraped].value >= sink[Scraped].value]_vars
=============================================================================
