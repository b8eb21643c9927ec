---------------------------- MODULE PrometheusText ----------------------------
(***************************************************************************)
(* The Prometheus text of a registry, as a page and as what is made of it  *)
(* again: renderPrometheusText() writes it, parsePrometheusText() and      *)
(* mergePrometheusText() read it into another registry.                    *)
(*                                                                         *)
(* A page is a sequence of lines.  A line is a record with its kind and    *)
(* what the parser takes from it; a line that is no sample, but is read as *)
(* one, is "junk" and spoils the page.  A registry is a function from the  *)
(* names in it to metrics.                                                 *)
(***************************************************************************)
EXTENDS MetricText

\* The name of a sample is a metric's name with one of the suffixes that a
\* histogram puts behind its own.
Plain(n) == <<n, "">>

TypeLine(n, type)   == [kind |-> "type", name |-> Plain(n), type |-> type]
HelpLine(n, help)   == [kind |-> "help", name |-> Plain(n), help |-> help]
Sample(name, labels, value) ==
  [kind |-> "sample", name |-> name, labels |-> labels, value |-> value]
Comment == [kind |-> "comment"]   \* an empty line or one with a "#"
Junk    == [kind |-> "junk"]

-----------------------------------------------------------------------------
(* The page. *)

\* Mutant: the help text is left out.
TypeOnly(n, m) == <<TypeLine(n, m.type)>>

\* "# HELP" is left out if there is no help text.
Metadata(n, m) ==
  (IF m.help = "" THEN <<>> ELSE <<HelpLine(n, m.help)>>)
    \o <<TypeLine(n, m.type)>>

\* writeExposition(): a line per bound, then infinity, sum and count.
HistogramLines(n, m) ==
  LET bucket(i) == Sample(<<n, "_bucket">>, m.labels \o <<ToString(Written(m.bounds[i]))>>, m.counts[i])
  IN  [i \in DOMAIN m.bounds |-> bucket(i)]
        \o <<Sample(<<n, "_bucket">>, m.labels \o <<"+Inf">>, m.count),
             Sample(<<n, "_sum">>, m.labels, Written(m.sum)),
             Sample(<<n, "_count">>, m.labels, m.count)>>

\* The parser ends a name where a character is none of a name, and labels at
\* the first "}".  What is behind is read as the value: most often it is no
\* number ("unreadable"), but the "-5" of a metric named "x-5" is ("misread").
SampleLine(n, m) ==
  CASE m.text = "plain"      -> Sample(Plain(n), m.labels, Written(m.value))
    [] m.text = "unreadable" -> Junk
    [] m.text = "misread"    -> Sample(<<n, "cut">>, <<>>, -5)

MetricLines(n, m) ==
  Metadata(n, m)
    \o (IF m.type = "histogram" THEN HistogramLines(n, m) ELSE <<SampleLine(n, m)>>)

\* renderPrometheusText(): the metrics in the order of their names.
Render(registry) ==
  LET names == InOrder(DOMAIN registry)
  IN  FlattenSeq([i \in DOMAIN names |-> MetricLines(names[i], registry[names[i]])])

-----------------------------------------------------------------------------
(* The parser. *)

At(f, x, otherwise) == IF x \in DOMAIN f THEN f[x] ELSE otherwise
Put(f, x, v)        == [y \in DOMAIN f \cup {x} |-> IF y = x THEN v ELSE f[y]]

NothingParsed == [ok |-> TRUE, types |-> <<>>, helps |-> <<>>, specs |-> <<>>]

\* Mutant: the samples of a histogram have the type of the histogram.
SpecOfFamily(st, line) ==
  [name |-> line.name, type |-> At(st.types, Plain(line.name[1]), "gauge"),
   help |-> At(st.helps, line.name, ""), labels |-> line.labels, value |-> line.value]

\* A sample has the type and the help text that lines before it gave to its
\* very name, otherwise it is a gauge.
SpecOf(st, line) ==
  LET type == At(st.types, line.name, "gauge")
  IN  [name |-> line.name, type |-> IF type \in Types THEN type ELSE "gauge",
       help |-> At(st.helps, line.name, ""),
       labels |-> line.labels, value |-> line.value]

ParseLine(st, line) ==
  CASE ~st.ok \/ line.kind = "comment" -> st
    [] st.ok /\ line.kind = "type" -> [st EXCEPT !.types = Put(@, line.name, line.type)]
    [] st.ok /\ line.kind = "help" -> [st EXCEPT !.helps = Put(@, line.name, line.help)]
    [] st.ok /\ line.kind = "sample" -> [st EXCEPT !.specs = Append(@, SpecOf(st, line))]
    [] st.ok /\ line.kind = "junk" -> [st EXCEPT !.ok = FALSE]

Parse(lines) == FoldLeft(ParseLine, NothingParsed, lines)

\* upsert(): the metric of that name is replaced by a new object.
Upserted(registry, spec) ==
  Put(registry, spec.name,
      [type |-> spec.type, help |-> spec.help, labels |-> spec.labels,
       value |-> IF spec.type = "histogram" \/ (spec.type = "counter" /\ spec.value < 0)
                 THEN 0 ELSE spec.value])

\* Mutant: the lines before the one with the error are merged.
MergedUpToError(registry, lines) == FoldLeft(Upserted, registry, Parse(lines).specs)

\* Mutant: what is not on the page is dropped.
MergedAfresh(registry, lines) ==
  IF Parse(lines).ok THEN FoldLeft(Upserted, <<>>, Parse(lines).specs)
  ELSE registry

\* mergePrometheusText(): nothing at all of a text with an error in it.
Merged(registry, lines) ==
  IF Parse(lines).ok THEN FoldLeft(Upserted, registry, Parse(lines).specs)
  ELSE registry
=============================================================================
