---- MODULE SnapshotLine ----
(***************************************************************************)
(* What a metric is after the daemon has been stopped and launched again:  *)
(* the line that SnapshotStore::save() writes for it, and what             *)
(* parseSnapshotLine() and upsert() make of that line.  A line is a        *)
(* sequence of words, separated by white space.  A word is its prefixes    *)
(* "labels=", "help=" and "value=", the number that the rest of it reads   *)
(* as, if any, and whether it has a "#" (in its rest, behind its first     *)
(* character).                                                             *)
(***************************************************************************)
EXTENDS MetricText

CONSTANTS Words,      \* the words of labels and help texts
          MaxLabels,  \* bound: words in the labels of a metric
          MaxHelp,    \* bound: words in its help text
          Values,     \* its values (a histogram's is its count)
          NoNumber,   \* the number of a word that is not one
          Lost,       \* no metric
          MaxLaunches \* bound

VARIABLES metric,   \* the metric in the registry, or Lost
          before,   \* history: the metric when the process was stopped last
          launches

lineVars == <<metric, before, launches>>

AnyWord == [keys : Seq({"labels", "help", "value"}), number : Nat \cup {NoNumber},
            hash : BOOLEAN]

AnyMetric == [type : Types, value : Nat, nameHash : BOOLEAN, labels : Seq(AnyWord),
              help : Seq(AnyWord), ownBuckets : BOOLEAN]

ASSUME LineAssumption ==
    /\ Words \subseteq AnyWord
    /\ MaxLabels \in Nat /\ MaxHelp \in Nat
    /\ Values \subseteq Nat
    /\ NoNumber \notin Nat
    /\ Lost \notin AnyMetric

\* A "#" may be in a name too; "simple" ingest takes it.  A histogram has the
\* bucket bounds of its configuration, or the default ones.
Metrics == {m \in [type : Types, value : Values, nameHash : BOOLEAN,
                   labels : BoundedSeq(Words, MaxLabels), help : BoundedSeq(Words, MaxHelp),
                   ownBuckets : BOOLEAN] : m.ownBuckets => m.type = "histogram"}

----
(***************************************************************************)
(* save()                                                                  *)
(***************************************************************************)

Number(v) == [keys |-> <<>>, number |-> v, hash |-> FALSE]

\* "labels=" or "help=", put before a text that is not empty.
Prefixed(key, text) ==
    IF text = <<>> THEN <<>>
    ELSE <<[Head(text) EXCEPT !.keys = <<key>> \o @]>> \o Tail(text)

\* What is behind the name and the type.
Line(m) ==
    <<Number(Written(m.value))>> \o Prefixed("labels", m.labels) \o Prefixed("help", m.help)

----
(***************************************************************************)
(* load(): the comment is cut off, then parseSnapshotLine()                *)
(***************************************************************************)

\* Mutant: a "#" begins a comment only at the start of a line.
KeepComment(line) == line

CutComment(line) ==
    LET first == SelectInSeq(line, LAMBDA w : w.hash) IN
    IF first = 0 THEN line
    ELSE Append(SubSeq(line, 1, first - 1), [line[first] EXCEPT !.hash = FALSE])

KeyOf(w) == IF w.keys = <<>> THEN "none" ELSE Head(w.keys)
Rest(w) == [w EXCEPT !.keys = Tail(@)]
IsNumber(w) == w.keys = <<>> /\ w.number # NoNumber

NothingYet == [ok |-> TRUE, inHelp |-> FALSE, value |-> NoNumber, labels |-> <<>>,
               help |-> <<>>]

Valued(st, w) ==
    IF IsNumber(w) THEN [st EXCEPT !.value = w.number, !.inHelp = FALSE]
    ELSE [st EXCEPT !.ok = FALSE]

\* A help text goes on until "labels=" or "value=".
GoesOn(st, w) == st.inHelp /\ KeyOf(w) \notin {"labels", "value"}

\* Mutant: "labels=" is not skipped.
FieldKeepsKey(st, w) ==
    IF ~st.ok THEN st ELSE
    CASE GoesOn(st, w) -> [st EXCEPT !.help = Append(@, w)]
      [] ~GoesOn(st, w) /\ KeyOf(w) = "help" -> [st EXCEPT !.inHelp = TRUE, !.help = <<Rest(w)>>]
      [] KeyOf(w) = "labels" -> [st EXCEPT !.inHelp = FALSE, !.labels = <<w>>]
      [] KeyOf(w) = "value" -> Valued(st, Rest(w))
      [] ~GoesOn(st, w) /\ KeyOf(w) = "none" -> Valued(st, w)

\* One round of the loop; a label ends with its word.
Field(st, w) ==
    IF ~st.ok THEN st ELSE
    CASE GoesOn(st, w) -> [st EXCEPT !.help = Append(@, w)]
      [] ~GoesOn(st, w) /\ KeyOf(w) = "help" -> [st EXCEPT !.inHelp = TRUE, !.help = <<Rest(w)>>]
      [] KeyOf(w) = "labels" -> [st EXCEPT !.inHelp = FALSE, !.labels = <<Rest(w)>>]
      [] KeyOf(w) = "value" -> Valued(st, Rest(w))
      [] ~GoesOn(st, w) /\ KeyOf(w) = "none" -> Valued(st, w)

ParseSnapshotLine(line) == FoldLeft(Field, NothingYet, line)

\* A new object of the type: a histogram begins empty, with the default bounds.
Made(type, p) ==
    [type |-> type, value |-> IF type = "histogram" THEN 0 ELSE p.value, nameHash |-> FALSE,
     labels |-> p.labels, help |-> p.help, ownBuckets |-> FALSE]

\* A line that does not parse is skipped.
Restored(m) ==
    IF m.nameHash THEN Lost
    ELSE LET p == ParseSnapshotLine(CutComment(Line(m))) IN
         IF p.ok /\ p.value # NoNumber THEN Made(m.type, p) ELSE Lost

----
LineInit ==
    /\ metric \in Metrics
    /\ before = Lost
    /\ launches = 1

\* The daemon is stopped, with a save, and launched again.  The configuration
\* does not name the metric: it came by ingest or from a scrape.
Restart ==
    /\ launches < MaxLaunches
    /\ metric # Lost
    /\ metric' = Restored(metric)
    /\ before' = metric
    /\ launches' = launches + 1

LineNext == Restart

LineSpec == LineInit /\ [][LineNext]_lineVars

----
(***************************************************************************)
(* Properties                                                              *)
(***************************************************************************)

HasHash(text) == \E i \in DOMAIN text : text[i].hash

\* The metrics a snapshot can hold.
Clean(m) ==
    /\ ~m.nameHash
    /\ m.type = "histogram" => m.value = 0 /\ ~m.ownBuckets
    /\ Written(m.value) = m.value
    /\ Len(m.labels) <= 1
    /\ ~HasHash(m.labels) /\ ~HasHash(m.help)
    /\ \A i \in 2..Len(m.help) : KeyOf(m.help[i]) \notin {"labels", "value"}

\* A metric comes back as it was exactly if it is Clean: no histogram that has
\* been observed, no number of more than six digits, no white space in the
\* labels, no "#" anywhere, no "labels=" or "value=" at the start of a later word
\* of the help text (snapshot.cpp:25-112, 133-152 and 166-182).
ExactlyTheCleanSurvive ==
    before # Lost => (metric = before <=> Clean(before))

\* Damage does not go on: what comes back from the second restart comes back the
\* same from the third (a number in the labels that the first has taken for the
\* value is rounded by the second).
SettlesAfterTwo ==
    launches >= 4 /\ metric # Lost => metric = before
====
