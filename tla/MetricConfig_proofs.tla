------------------------- MODULE MetricConfig_proofs -------------------------
(***************************************************************************)
(* Proofs about MetricConfig, for any lines and any number of them: what   *)
(* the configuration holds is what the lines read say, and a line that     *)
(* could not be read is never forgotten.                                   *)
(***************************************************************************)
EXTENDS MetricConfig, FiniteSetTheorems, TLAPS

\* What the lines read can be, besides those of the files.
Flags == {[key |-> "foreground", text |-> value, kept |-> value] : value \in {"yes", "no"}}

\* A line that is counted as an error: a metric, a target or an interval that
\* the parser gives up.
RefusedMetric(line) == line.key = "metric" /\ ~ParseMetric(line).ok
RefusedOther(line) ==
  \/ line.key = "scrape_target" /\ ~TargetIsGood(line)
  \/ line.key = "snapshot_interval" /\ line.number = NotANumber

\* The latest of a set of positions.
IsLatest(m, S) == m \in S /\ \A k \in S : k <= m

GoodIntervals == {i \in Given("snapshot_interval") : read[i].number # NotANumber}

FieldsFollow ==
  \A field \in SetFields :
    \/ Given(field) = {} /\ config[field] = Default[field]
    \/ \E m \in Given(field) :
          IsLatest(m, Given(field)) /\ config[field] = Converted(field, read[m])

IntervalFollows ==
  \/ GoodIntervals = {} /\ config.snapshot_interval = 60
  \/ \E m \in GoodIntervals :
        IsLatest(m, GoodIntervals) /\ config.snapshot_interval = read[m].number

ErrorsCounted ==
  /\ config.metric_errors \in Nat /\ config.scrape_errors \in Nat
  /\ \A i \in DOMAIN read :
        ~Throws(read[i]) =>
          /\ RefusedMetric(read[i]) => config.metric_errors > 0
          /\ RefusedOther(read[i]) => config.scrape_errors > 0

ThrownEnds == phase = "aborted" <=> \E i \in DOMAIN read : Throws(read[i])

ConfigInv ==
  /\ read \in Seq(Lines \cup Flags)
  /\ DOMAIN config = DOMAIN Default
  /\ FieldsFollow /\ IntervalFollows /\ ErrorsCounted /\ ThrownEnds
  /\ phase \in {"tested", "initialized"} => Valid(config)

-----------------------------------------------------------------------------
(* Keys. *)

\* The keys that stand for the fields with a number that is not caught, and
\* those that stand for no field but themselves.
LEMMA KeysOfFields ==
  ASSUME NEW key
  PROVE  /\ FieldOf(key) \in {"listen_port", "rate_limit_per_minute"}
              <=> key \in {"listen_port", "rate_limit_per_minute", "api_rate_limit"}
         /\ FieldOf(key) = "snapshot_interval" <=> key = "snapshot_interval"
         /\ key \in {"metric", "scrape_target", "snapshot_interval"} => FieldOf(key) = key
BY DEF FieldOf, Aliases

\* The fields that one line sets are none of those that lines are added to.
LEMMA FieldsApart ==
  /\ {"metrics", "metric_errors", "scrape_targets", "scrape_errors",
      "snapshot_interval"} \subseteq DOMAIN Default
  /\ SetFields \subseteq DOMAIN Default
  /\ SetFields \cap {"metrics", "metric_errors", "scrape_targets", "scrape_errors",
                     "snapshot_interval", "metric", "scrape_target"} = {}
BY DEF Default, SetFields, TextFields, BoolFields, ListFields

\* What one line does to each part of the configuration.
LEMMA ApplyPart ==
  ASSUME NEW c, DOMAIN c = DOMAIN Default, NEW line,
         c.metric_errors \in Nat, c.scrape_errors \in Nat
  PROVE  /\ DOMAIN Apply(c, line) = DOMAIN Default
         /\ \A field \in SetFields :
               Apply(c, line)[field] = IF FieldOf(line.key) = field THEN Converted(field, line)
                                       ELSE c[field]
         /\ Apply(c, line).snapshot_interval =
               IF line.key = "snapshot_interval" /\ line.number # NotANumber THEN line.number
               ELSE c.snapshot_interval
         /\ Apply(c, line).metric_errors =
               c.metric_errors + (IF RefusedMetric(line) THEN 1 ELSE 0)
         /\ Apply(c, line).scrape_errors =
               c.scrape_errors + (IF RefusedOther(line) THEN 1 ELSE 0)
<1>1. CASE line.key = "metric"
  <2>1. Apply(c, line) = AddMetric(c, line) /\ FieldOf(line.key) \notin SetFields
    BY <1>1, FieldsApart, KeysOfFields DEF Apply
  <2> QED
    BY <1>1, <2>1, FieldsApart DEF AddMetric, RefusedMetric, RefusedOther
<1>2. CASE line.key = "scrape_target"
  <2>1. Apply(c, line) = AddTarget(c, line) /\ FieldOf(line.key) \notin SetFields
    BY <1>2, FieldsApart, KeysOfFields DEF Apply
  <2> QED
    BY <1>2, <2>1, FieldsApart DEF AddTarget, RefusedMetric, RefusedOther
<1>3. CASE line.key = "snapshot_interval"
  <2>1. Apply(c, line) = SetInterval(c, line) /\ FieldOf(line.key) \notin SetFields
    BY <1>3, FieldsApart, KeysOfFields DEF Apply
  <2> QED
    BY <1>3, <2>1, FieldsApart DEF SetInterval, RefusedMetric, RefusedOther
<1>4. CASE line.key \notin {"metric", "scrape_target", "snapshot_interval"}
  <2>1. CASE FieldOf(line.key) \in SetFields
    <3>1. Apply(c, line) = [c EXCEPT ![FieldOf(line.key)] = Converted(FieldOf(line.key), line)]
      BY <1>4, <2>1 DEF Apply, SetField
    <3> QED
      BY <1>4, <2>1, <3>1, FieldsApart DEF RefusedMetric, RefusedOther
  <2>2. CASE FieldOf(line.key) \notin SetFields
    <3>1. Apply(c, line) = c
      BY <1>4, <2>2 DEF Apply
    <3> QED
      BY <1>4, <2>2, <3>1 DEF RefusedMetric, RefusedOther
  <2> QED
    BY <2>1, <2>2
<1> QED
  BY <1>1, <1>2, <1>3, <1>4

\* The maximum of a set of numbers that has a latest.
LEMMA LatestIsMax ==
  ASSUME NEW S, S \subseteq Nat, NEW m, IsLatest(m, S)
  PROVE  Max(S) = m
<1>1. \A x \in S : (\A y \in S : x >= y) => x = m
  BY DEF IsLatest
<1>2. m \in S /\ \A y \in S : m >= y
  BY DEF IsLatest
<1> QED
  BY <1>1, <1>2 DEF Max

-----------------------------------------------------------------------------
(* A metric line, field by field. *)

Fields == INSTANCE FoldFacts WITH Op <- TakeField

\* parseMetricLine() takes the fields in their order.
LEMMA FieldsInTurn ==
  ASSUME NEW line, NEW n \in Nat, DOMAIN line.fields = 1..n
  PROVE  \E st : /\ st[0] = NothingYet(line)
                 /\ \A k \in 1..n : st[k] = TakeField(st[k - 1], line.fields[k])
                 /\ st[n] = FoldLeft(TakeField, NothingYet(line), line.fields)
<1> DEFINE base == NothingYet(line)
           seq == line.fields
<1>1. Fields!Folded(base, seq) = FoldLeft(TakeField, NothingYet(line), line.fields)
  BY DEF Fields!Folded, Fields!FoldLeft, Fields!MapThenFoldSet, Fields!Max,
         FoldLeft, MapThenFoldSet, Max
<1>2. DOMAIN seq = 1..n
  OBVIOUS
<1> HIDE DEF base, seq
<1>3. \E st : /\ DOMAIN st = 0..n
              /\ st[0] = base
              /\ \A k \in 1..n : st[k] = TakeField(st[k - 1], seq[k])
              /\ st[n] = Fields!Folded(base, seq)
  BY <1>2, Fields!InTurn, Zenon
<1> QED
  BY <1>1, <1>3 DEF base, seq

\* The fields that the parser makes of a metric line: see LinesAssumption.
FieldsOf(line) ==
  /\ line.fields \in Seq(Range(line.fields))
  /\ \A f \in Range(line.fields) :
       /\ f.key \in {"labels", "value", "buckets", "help", "bare"}
       /\ f.key \in {"value", "bare"} => f.number \in Numbers
       /\ f.key = "buckets" => f.bounds \in Seq(Numbers)

LEMMA FieldsAre ==
  ASSUME NEW line, FieldsOf(line)
  PROVE  /\ Len(line.fields) \in Nat /\ DOMAIN line.fields = 1..Len(line.fields)
         /\ \A k \in 1..Len(line.fields) : line.fields[k] \in Range(line.fields)
BY DEF FieldsOf, Range

\* A help text that goes on behind field k.
InHelp(fields, k) ==
  \E i \in 1..k : fields[i].key = "help" /\ \A j \in i..k : fields[j].key \in {"help", "bare"}

\* What a metric line says that has no field for it.
Unset(attribute) == [text |-> "", number |-> 0, bounds |-> <<>>][attribute]

\* val is what the last field up to k says that has one of the keys.
LastGives(fields, keys, attribute, k, val) ==
  \/ val = Unset(attribute) /\ \A j \in 1..k : fields[j].key \notin keys
  \/ \E m \in 1..k : /\ fields[m].key \in keys
                     /\ \A j \in (m + 1)..k : fields[j].key \notin keys
                     /\ val = fields[m][attribute]

\* What the fields up to k say, if none is swallowed by a help text.
Says(st, fields, k) ==
  /\ st.help = IF \E j \in 1..k : fields[j].key = "help" THEN <<"text">> ELSE <<>>
  /\ LastGives(fields, {"labels"}, "text", k, st.labels)
  /\ LastGives(fields, {"value", "bare"}, "number", k, st.value)
  /\ LastGives(fields, {"buckets"}, "bounds", k, st.buckets)

\* The state of the parser behind field k.
ParsedTo(st, line, k) ==
  /\ DOMAIN st = {"ok", "inHelp", "name", "type", "help", "labels", "value", "buckets"}
  /\ st.ok \in BOOLEAN /\ st.inHelp \in BOOLEAN
  /\ st.name = line.name /\ st.type = line.type
  /\ st.ok <=> \A j \in 1..k : ~BadField(line.fields, j)
  /\ st.ok => (st.inHelp <=> InHelp(line.fields, k))
  /\ st.ok /\ (\A j \in 1..k : ~BehindHelp(line.fields, j)) => Says(st, line.fields, k)

LEMMA LastStep ==
  ASSUME NEW fields, NEW keys, NEW attribute, NEW k \in Nat \ {0}, NEW val,
         LastGives(fields, keys, attribute, k - 1, val)
  PROVE  /\ fields[k].key \in keys =>
              LastGives(fields, keys, attribute, k, fields[k][attribute])
         /\ fields[k].key \notin keys => LastGives(fields, keys, attribute, k, val)
<1>1. ASSUME fields[k].key \in keys
      PROVE  LastGives(fields, keys, attribute, k, fields[k][attribute])
  <2>1. k \in 1..k /\ \A j \in (k + 1)..k : fields[j].key \notin keys
    OBVIOUS
  <2> QED
    BY <1>1, <2>1 DEF LastGives
<1>2. ASSUME fields[k].key \notin keys
      PROVE  LastGives(fields, keys, attribute, k, val)
  <2>1. \A j \in 1..k : j = k \/ j \in 1..(k - 1)
    OBVIOUS
  <2>2. \A m \in 1..(k - 1) : m \in 1..k /\ \A j \in (m + 1)..k : j = k \/ j \in (m + 1)..(k - 1)
    OBVIOUS
  <2> QED
    BY <1>2, <2>1, <2>2 DEF LastGives
<1> QED
  BY <1>1, <1>2

\* What one field more means for a help text.
LEMMA HelpStep ==
  ASSUME NEW fields, NEW k \in Nat \ {0}
  PROVE  /\ InHelp(fields, k) <=>
              fields[k].key \in {"help", "bare"} /\ (fields[k].key = "help" \/ InHelp(fields, k - 1))
         /\ BehindHelp(fields, k) <=> fields[k].key \in {"help", "bare"} /\ InHelp(fields, k - 1)
<1>1. \A j \in 1..k : j = k \/ j \in 1..(k - 1)
  OBVIOUS
<1>2. \A i \in 1..(k - 1) : i \in 1..k /\ k \in i..k /\ \A j \in i..k : j = k \/ j \in i..(k - 1)
  OBVIOUS
<1>3. \A i \in 1..(k - 1) : i..(k - 1) \subseteq i..k
  OBVIOUS
<1>4. \A j \in k..k : j = k
  OBVIOUS
<1>5. k \in 1..k /\ k \in k..k
  OBVIOUS
<1>6. InHelp(fields, k) => fields[k].key \in {"help", "bare"} /\ (fields[k].key = "help" \/ InHelp(fields, k - 1))
  BY <1>1, <1>2, <1>3, <1>5 DEF InHelp
<1>7. fields[k].key = "help" => InHelp(fields, k)
  BY <1>4, <1>5 DEF InHelp
<1>8. fields[k].key \in {"help", "bare"} /\ InHelp(fields, k - 1) => InHelp(fields, k)
  BY <1>2 DEF InHelp
<1> QED
  BY <1>6, <1>7, <1>8 DEF BehindHelp, InHelp

\* A list of bounds that gives none.
LEMMA NoBounds ==
  ASSUME NEW bounds \in Seq(Numbers)
  PROVE  bounds = <<>> <=> Range(bounds) = {}
<1>1. CASE bounds = <<>>
  BY <1>1 DEF Range
<1>2. CASE bounds # <<>>
  <2>1. 1 \in DOMAIN bounds
    BY <1>2
  <2> QED
    BY <1>2, <2>1 DEF Range
<1> QED
  BY <1>1, <1>2

\* One round of parseMetricLine()'s loop.
LEMMA FieldStep ==
  ASSUME NEW line, FieldsOf(line), NEW k \in 1..Len(line.fields),
         NEW st, ParsedTo(st, line, k - 1)
  PROVE  ParsedTo(TakeField(st, line.fields[k]), line, k)
<1> DEFINE fields == line.fields
           f == fields[k]
           new == TakeField(st, f)
<1>1. /\ f \in Range(fields) /\ k \in Nat \ {0}
      /\ f.key \in {"labels", "value", "buckets", "help", "bare"}
      /\ f.key \in {"value", "bare"} => f.number \in Numbers
      /\ f.key = "buckets" => f.bounds \in Seq(Numbers)
  BY FieldsAre DEF FieldsOf
<1>2. \A j : j \in 1..k <=> j = k \/ j \in 1..(k - 1)
  OBVIOUS
<1>3. /\ InHelp(fields, k) <=>
           f.key \in {"help", "bare"} /\ (f.key = "help" \/ InHelp(fields, k - 1))
      /\ BehindHelp(fields, k) <=> f.key \in {"help", "bare"} /\ InHelp(fields, k - 1)
  BY <1>1, HelpStep
<1> HIDE DEF f, fields
<1>4. BadField(fields, k) <=>
         \/ f.key = "value" /\ f.number = NotANumber
         \/ f.key = "bare" /\ f.number = NotANumber /\ ~InHelp(fields, k - 1)
         \/ f.key = "buckets" /\ (f.bounds = <<>> \/ NotANumber \in Range(f.bounds))
  <2>1. f.key = "buckets" => (f.bounds = <<>> <=> Range(f.bounds) = {})
    BY <1>1, NoBounds
  <2>2. (~\E b \in Range(f.bounds) : b # NotANumber) \/ NotANumber \in Range(f.bounds)
          <=> Range(f.bounds) = {} \/ NotANumber \in Range(f.bounds)
    OBVIOUS
  <2>3. f = fields[k]
    BY DEF f
  <2> QED
    BY <1>3, <2>1, <2>2, <2>3 DEF BadField
<1>5. /\ DOMAIN st = {"ok", "inHelp", "name", "type", "help", "labels", "value", "buckets"}
      /\ st.ok \in BOOLEAN /\ st.inHelp \in BOOLEAN
      /\ st.name = line.name /\ st.type = line.type
      /\ st.ok <=> \A j \in 1..(k - 1) : ~BadField(fields, j)
      /\ st.ok => (st.inHelp <=> InHelp(fields, k - 1))
      /\ st.ok /\ (\A j \in 1..(k - 1) : ~BehindHelp(fields, j)) => Says(st, fields, k - 1)
  BY DEF ParsedTo, fields
<1>6. (\A j \in 1..k : ~BadField(fields, j)) <=> st.ok /\ ~BadField(fields, k)
  BY <1>2, <1>5
<1>7. CASE ~st.ok
  <2>1. new = st
    BY <1>7 DEF TakeField
  <2> QED
    BY <1>5, <1>6, <1>7, <2>1 DEF ParsedTo, f, fields
<1>8. CASE st.ok
  <2> DEFINE quiet == \A j \in 1..k : ~BehindHelp(fields, j)
             val(keys, attribute, x) == LastGives(fields, keys, attribute, k, x)
  <2>1. ASSUME quiet
        PROVE  /\ st.help = IF \E j \in 1..(k - 1) : fields[j].key = "help" THEN <<"text">> ELSE <<>>
               /\ f.key = "labels" => val({"labels"}, "text", f.text)
               /\ f.key # "labels" => val({"labels"}, "text", st.labels)
               /\ f.key \in {"value", "bare"} => val({"value", "bare"}, "number", f.number)
               /\ f.key \notin {"value", "bare"} => val({"value", "bare"}, "number", st.value)
               /\ f.key = "buckets" => val({"buckets"}, "bounds", f.bounds)
               /\ f.key # "buckets" => val({"buckets"}, "bounds", st.buckets)
    <3>1. Says(st, fields, k - 1)
      BY <1>2, <1>5, <1>8, <2>1
    <3>2. /\ LastGives(fields, {"labels"}, "text", k - 1, st.labels)
          /\ LastGives(fields, {"value", "bare"}, "number", k - 1, st.value)
          /\ LastGives(fields, {"buckets"}, "bounds", k - 1, st.buckets)
      BY <3>1 DEF Says
    <3>3. /\ f.key = "labels" => val({"labels"}, "text", f.text)
          /\ f.key # "labels" => val({"labels"}, "text", st.labels)
      BY <1>1, <3>2, LastStep DEF f
    <3>4. /\ f.key \in {"value", "bare"} => val({"value", "bare"}, "number", f.number)
          /\ f.key \notin {"value", "bare"} => val({"value", "bare"}, "number", st.value)
      BY <1>1, <3>2, LastStep DEF f
    <3>5. /\ f.key = "buckets" => val({"buckets"}, "bounds", f.bounds)
          /\ f.key # "buckets" => val({"buckets"}, "bounds", st.buckets)
      BY <1>1, <3>2, LastStep DEF f
    <3> QED
      BY <3>1, <3>3, <3>4, <3>5 DEF Says
  <2>2. (\E j \in 1..k : fields[j].key = "help") <=>
           f.key = "help" \/ \E j \in 1..(k - 1) : fields[j].key = "help"
    BY <1>2 DEF f
  <2> HIDE DEF val, quiet, new
  <2>3. quiet => ~(f.key \in {"help", "bare"} /\ InHelp(fields, k - 1))
    BY <1>1, <1>2, <1>3 DEF quiet
  <2>4. /\ DOMAIN new = {"ok", "inHelp", "name", "type", "help", "labels", "value", "buckets"}
        /\ new.ok \in BOOLEAN /\ new.inHelp \in BOOLEAN
        /\ new.name = line.name /\ new.type = line.type
        /\ new.ok <=> ~BadField(fields, k)
        /\ new.ok => (new.inHelp <=> InHelp(fields, k))
    BY <1>1, <1>3, <1>4, <1>5, <1>8 DEF new, TakeField, Valued
  <2>5. ASSUME new.ok, quiet
        PROVE  /\ new.help = IF \E j \in 1..k : fields[j].key = "help" THEN <<"text">> ELSE <<>>
               /\ val({"labels"}, "text", new.labels)
               /\ val({"value", "bare"}, "number", new.value)
               /\ val({"buckets"}, "bounds", new.buckets)
    <3>1. CASE f.key = "labels"
      <4>1. new = [st EXCEPT !.labels = f.text, !.inHelp = FALSE]
        BY <1>8, <3>1 DEF new, TakeField
      <4> QED
        BY <1>5, <2>1, <2>2, <2>5, <3>1, <4>1
    <3>2. CASE f.key \in {"value", "bare"}
      <4>1. new = Valued(st, f.number)
        BY <1>5, <1>8, <2>3, <2>5, <3>2 DEF new, TakeField
      <4>2. new = [st EXCEPT !.value = f.number, !.inHelp = FALSE]
        BY <1>5, <2>5, <4>1 DEF Valued
      <4> QED
        BY <1>5, <2>1, <2>2, <2>5, <3>2, <4>2
    <3>3. CASE f.key = "buckets"
      <4>1. new = [st EXCEPT !.buckets = f.bounds, !.inHelp = FALSE]
        BY <1>5, <1>8, <2>5, <3>3 DEF new, TakeField
      <4> QED
        BY <1>5, <2>1, <2>2, <2>5, <3>3, <4>1
    <3>4. CASE f.key = "help"
      <4>1. new = [st EXCEPT !.help = <<"text">>, !.inHelp = TRUE]
        BY <1>5, <1>8, <2>3, <2>5, <3>4 DEF new, TakeField
      <4> QED
        BY <1>5, <2>1, <2>2, <2>5, <3>4, <4>1
    <3> QED
      BY <1>1, <3>1, <3>2, <3>3, <3>4
  <2>6. new.ok /\ quiet => Says(new, fields, k)
    BY <2>5 DEF Says, val
  <2> QED
    BY <1>6, <1>8, <2>4, <2>6 DEF ParsedTo, quiet, new, f, fields
<1> QED
  BY <1>5, <1>7, <1>8

\* What parseMetricLine() makes of a line.
LEMMA MetricIsParsed ==
  ASSUME NEW line, FieldsOf(line)
  PROVE  \E st : /\ ParsedTo(st, line, Len(line.fields))
                 /\ ParseMetric(line) = [st EXCEPT !.ok = st.ok /\ line.name # "" /\ line.type \in Types]
<1> DEFINE n == Len(line.fields)
<1>1. n \in Nat /\ DOMAIN line.fields = 1..n
  BY FieldsAre
<1>2. PICK st : /\ st[0] = NothingYet(line)
                /\ \A k \in 1..n : st[k] = TakeField(st[k - 1], line.fields[k])
                /\ st[n] = FoldLeft(TakeField, NothingYet(line), line.fields)
  BY <1>1, FieldsInTurn
<1> DEFINE T == {k \in 0..n : ParsedTo(st[k], line, k)}
<1>3. 0 \in T
  <2>1. 1..0 = {}
    OBVIOUS
  <2>2. Says(NothingYet(line), line.fields, 0)
    BY <2>1 DEF Says, LastGives, NothingYet, Unset
  <2>3. ParsedTo(NothingYet(line), line, 0)
    BY <2>1, <2>2 DEF ParsedTo, NothingYet, InHelp
  <2> QED
    BY <1>1, <1>2, <2>3
<1>4. ASSUME NEW k \in 0..(n - 1), k \in T PROVE k + 1 \in T
  <2>1. k + 1 \in 1..n /\ k + 1 \in 0..n /\ (k + 1) - 1 = k
    BY <1>1
  <2>2. ParsedTo(st[k], line, k)
    BY <1>4
  <2>3. ParsedTo(TakeField(st[k], line.fields[k + 1]), line, k + 1)
    <3> DEFINE m == k + 1
    <3>1. m \in 1..Len(line.fields) /\ ParsedTo(st[k], line, m - 1)
      BY <2>1, <2>2
    <3> HIDE DEF m
    <3>2. ParsedTo(TakeField(st[k], line.fields[m]), line, m)
      BY <3>1, FieldStep
    <3> QED
      BY <3>2 DEF m
  <2> QED
    BY <1>2, <2>1, <2>3
<1>5. n \in T
  <2> HIDE DEF T, n
  <2>1. 0..n \subseteq T
    BY <1>1, <1>3, <1>4, Fields!Steps
  <2> QED
    BY <1>1, <2>1
<1>6. ParseMetric(line) = [st[n] EXCEPT !.ok = st[n].ok /\ line.name # "" /\ line.type \in Types]
  BY <1>2 DEF ParseMetric
<1> QED
  BY <1>5, <1>6

\* The parser refuses exactly the metric lines with something bad in them.
LEMMA BadMetrics ==
  ASSUME NEW line, FieldsOf(line)
  PROVE  /\ ParseMetric(line).ok <=>
              /\ line.name # "" /\ line.type \in Types
              /\ \A j \in DOMAIN line.fields : ~BadField(line.fields, j)
         /\ ParseMetric(line).name = line.name /\ ParseMetric(line).type = line.type
<1>1. PICK st : /\ ParsedTo(st, line, Len(line.fields))
                /\ ParseMetric(line) = [st EXCEPT !.ok = st.ok /\ line.name # "" /\ line.type \in Types]
  BY MetricIsParsed
<1>2. DOMAIN line.fields = 1..Len(line.fields)
  BY FieldsAre
<1>3. /\ DOMAIN st = {"ok", "inHelp", "name", "type", "help", "labels", "value", "buckets"}
      /\ st.name = line.name /\ st.type = line.type /\ st.ok \in BOOLEAN
      /\ st.ok <=> \A j \in DOMAIN line.fields : ~BadField(line.fields, j)
  BY <1>1, <1>2 DEF ParsedTo
<1>4. /\ ParseMetric(line).ok = (st.ok /\ line.name # "" /\ line.type \in Types)
      /\ ParseMetric(line).name = st.name /\ ParseMetric(line).type = st.type
  BY <1>1, <1>3
<1> QED
  BY <1>3, <1>4

\* The last field that has one of the keys, or 0.
LastOf(fields, keys) ==
  LET I == {i \in 1..Len(fields) : fields[i].key \in keys} IN IF I # {} THEN Max(I) ELSE 0

LEMMA GivenByTheLast ==
  ASSUME NEW line, FieldsOf(line), NEW keys, NEW attribute, NEW val,
         LastGives(line.fields, keys, attribute, Len(line.fields), val)
  PROVE  /\ LastOf(line.fields, keys) = 0 => val = Unset(attribute)
         /\ LastOf(line.fields, keys) # 0 =>
              /\ val = line.fields[LastOf(line.fields, keys)][attribute]
              /\ LastOf(line.fields, keys) \in DOMAIN line.fields
              /\ line.fields[LastOf(line.fields, keys)].key \in keys
         /\ (LastOf(line.fields, keys) # 0) <=> \E j \in DOMAIN line.fields : line.fields[j].key \in keys
<1> DEFINE n == Len(line.fields)
           I == {i \in 1..n : line.fields[i].key \in keys}
<1>1. n \in Nat /\ DOMAIN line.fields = 1..n
  BY FieldsAre
<1>2. LastOf(line.fields, keys) = IF I # {} THEN Max(I) ELSE 0
  BY DEF LastOf
<1>3. CASE \A j \in 1..n : line.fields[j].key \notin keys
  <2>1. I = {}
    BY <1>3
  <2>2. val = Unset(attribute)
    BY <1>3 DEF LastGives
  <2> QED
    BY <1>1, <1>2, <1>3, <2>1, <2>2
<1>4. CASE \E j \in 1..n : line.fields[j].key \in keys
  <2>1. PICK m \in 1..n : /\ line.fields[m].key \in keys
                          /\ \A j \in (m + 1)..n : line.fields[j].key \notin keys
                          /\ val = line.fields[m][attribute]
    BY <1>4 DEF LastGives
  <2>2. I \subseteq Nat /\ m \in I /\ \A k \in I : k <= m
    BY <1>1, <2>1
  <2>3. Max(I) = m
    BY <2>2, LatestIsMax DEF IsLatest
  <2>4. LastOf(line.fields, keys) = m /\ m # 0 /\ m \in 1..n
    BY <1>1, <1>2, <2>2, <2>3
  <2> HIDE DEF n, I
  <2> QED
    BY <1>1, <1>4, <2>1, <2>4
<1> QED
  BY <1>3, <1>4

\* Of the fields with one of some keys there is a last.
LEMMA LastExists ==
  ASSUME NEW line, FieldsOf(line), NEW keys, NEW attribute
  PROVE  \E x : LastGives(line.fields, keys, attribute, Len(line.fields), x)
<1> DEFINE n == Len(line.fields)
           T == {k \in 0..n : \E x : LastGives(line.fields, keys, attribute, k, x)}
<1>1. n \in Nat
  BY FieldsAre
<1>2. 0 \in T
  <2>1. LastGives(line.fields, keys, attribute, 0, Unset(attribute))
    BY DEF LastGives
  <2> QED
    BY <1>1, <2>1
<1>3. ASSUME NEW k \in 0..(n - 1), k \in T PROVE k + 1 \in T
  <2>1. PICK x : LastGives(line.fields, keys, attribute, k, x)
    BY <1>3
  <2> DEFINE m == k + 1
  <2>2. m \in Nat \ {0} /\ m \in 0..n /\ LastGives(line.fields, keys, attribute, m - 1, x)
    BY <1>1, <2>1
  <2> HIDE DEF m
  <2>3. \E y : LastGives(line.fields, keys, attribute, m, y)
    BY <2>2, LastStep
  <2>4. m \in T
    BY <2>2, <2>3
  <2> QED
    BY <2>4 DEF m
<1> HIDE DEF T, n
<1>4. 0..n \subseteq T
  BY <1>1, <1>2, <1>3, Fields!Steps
<1> QED
  BY <1>1, <1>4 DEF T, n

\* What the parser makes of a line of which no help text swallows a number is
\* what is meant.
LEMMA ParsedAsMeant ==
  ASSUME NEW line, FieldsOf(line), ParseMetric(line).ok,
         \A j \in DOMAIN line.fields : ~BehindHelp(line.fields, j)
  PROVE  Made(ParseMetric(line)) = Meant(line)
<1> DEFINE fields == line.fields
           n == Len(line.fields)
           m == ParseMetric(line)
           last(keys) == LastOf(fields, keys)
<1>1. PICK st : /\ ParsedTo(st, line, n)
                /\ m = [st EXCEPT !.ok = st.ok /\ line.name # "" /\ line.type \in Types]
  BY MetricIsParsed
<1>2. n \in Nat /\ DOMAIN fields = 1..n
  BY FieldsAre
<1>3. /\ line.type \in Types
      /\ \A j \in 1..n : ~BadField(fields, j)
      /\ m.type = line.type
  BY <1>2, BadMetrics
<1>4. st.ok /\ Says(st, fields, n)
  BY <1>1, <1>2, <1>3 DEF ParsedTo
<1>5. /\ m.help = st.help /\ m.labels = st.labels
      /\ m.value = st.value /\ m.buckets = st.buckets
  <2>1. DOMAIN st = {"ok", "inHelp", "name", "type", "help", "labels", "value", "buckets"}
    BY <1>1 DEF ParsedTo
  <2> QED
    BY <1>1, <2>1
<1>a. ASSUME NEW keys, NEW attribute, NEW val, LastGives(fields, keys, attribute, n, val)
      PROVE  /\ last(keys) = 0 => val = Unset(attribute)
             /\ last(keys) # 0 =>
                  /\ val = fields[last(keys)][attribute]
                  /\ last(keys) \in DOMAIN fields
                  /\ fields[last(keys)].key \in keys
             /\ (last(keys) # 0) <=> \E j \in DOMAIN fields : fields[j].key \in keys
  BY <1>a, GivenByTheLast
<1> HIDE DEF m, n
<1>6. /\ LastGives(fields, {"labels"}, "text", n, m.labels)
      /\ LastGives(fields, {"value", "bare"}, "number", n, m.value)
      /\ LastGives(fields, {"buckets"}, "bounds", n, m.buckets)
      /\ m.help = IF \E j \in 1..n : fields[j].key = "help" THEN <<"text">> ELSE <<>>
  BY <1>4, <1>5 DEF Says
<1> HIDE DEF fields, last
<1>7. m.labels = IF last({"labels"}) = 0 THEN "" ELSE fields[last({"labels"})].text
  <2>1. /\ last({"labels"}) = 0 => m.labels = Unset("text")
        /\ last({"labels"}) # 0 => m.labels = fields[last({"labels"})]["text"]
    BY <1>6, <1>a
  <2> QED
    BY <2>1 DEF Unset
<1>8. m.buckets = IF last({"buckets"}) = 0 THEN <<>> ELSE fields[last({"buckets"})].bounds
  <2>1. /\ last({"buckets"}) = 0 => m.buckets = Unset("bounds")
        /\ last({"buckets"}) # 0 => m.buckets = fields[last({"buckets"})]["bounds"]
    BY <1>6, <1>a
  <2> QED
    BY <2>1 DEF Unset
<1>9. m.help = IF last({"help"}) = 0 THEN <<>> ELSE <<"text">>
  <2>1. last({"help"}) # 0 <=> \E j \in 1..n : fields[j].key = "help"
    <3>1. \E x : LastGives(fields, {"help"}, "text", n, x)
      BY <1>2, LastExists DEF n, fields
    <3>2. (last({"help"}) # 0) <=> \E j \in DOMAIN fields : fields[j].key \in {"help"}
      BY <3>1, <1>a
    <3> QED
      BY <1>2, <3>2
  <2> QED
    BY <1>6, <2>1
<1> DEFINE value == IF last({"value", "bare"}) = 0 THEN 0
                    ELSE fields[last({"value", "bare"})].number
<1>10. m.value = value /\ value \in Int
  <2>1. m.value = value
    <3>1. /\ last({"value", "bare"}) = 0 => m.value = Unset("number")
          /\ last({"value", "bare"}) # 0 => m.value = fields[last({"value", "bare"})]["number"]
      BY <1>6, <1>a
    <3> QED
      BY <3>1 DEF Unset
  <2>2. ASSUME last({"value", "bare"}) # 0 PROVE fields[last({"value", "bare"})].number \in Int
    <3> DEFINE k == last({"value", "bare"})
    <3>1. k \in 1..n /\ fields[k].key \in {"value", "bare"}
      BY <1>2, <1>6, <1>a, <2>2
    <3>2. fields[k].number \in Numbers
      BY <1>2, <3>1, FieldsAre DEF FieldsOf, n, fields
    <3>3. ~BadField(fields, k) /\ ~BehindHelp(fields, k)
      BY <1>2, <1>3, <3>1 DEF fields
    <3> HIDE DEF k
    <3>4. fields[k].number # NotANumber
      BY <3>1, <3>3 DEF BadField
    <3> QED
      BY <3>2, <3>4 DEF Numbers, k
  <2> QED
    BY <2>1, <2>2
<1>11. Meant(line) =
         [type |-> line.type,
          help |-> IF last({"help"}) = 0 THEN <<>> ELSE <<"text">>,
          labels |-> IF last({"labels"}) = 0 THEN "" ELSE fields[last({"labels"})].text,
          value |-> CASE line.type = "counter" -> Max({0, value})
                      [] line.type = "gauge" -> value
                      [] line.type = "histogram" -> 0,
          buckets |-> IF last({"buckets"}) = 0 \/ line.type # "histogram" THEN <<>>
                      ELSE fields[last({"buckets"})].bounds]
  BY DEF Meant, SelectLastInSeq, LastOf, last, fields
<1> HIDE DEF value
<1>12. Max({0, value}) = IF value < 0 THEN 0 ELSE value
  <2>1. \A x \in {0, value} : (\A y \in {0, value} : x >= y) => x = IF value < 0 THEN 0 ELSE value
    BY <1>10
  <2>2. \E x \in {0, value} : \A y \in {0, value} : x >= y
    BY <1>10
  <2> QED
    BY <2>1, <2>2 DEF Max
<1> QED
  BY <1>3, <1>7, <1>8, <1>9, <1>10, <1>11, <1>12 DEF Made, Types, m

-----------------------------------------------------------------------------
(* The history grows by a line. *)

LEMMA ReadGrows ==
  ASSUME read \in Seq(Lines \cup Flags), NEW line \in Lines \cup Flags,
         read' = Append(read, line)
  PROVE  /\ read' \in Seq(Lines \cup Flags)
         /\ Len(read) \in Nat
         /\ DOMAIN read = 1..Len(read) /\ DOMAIN read' = 1..(Len(read) + 1)
         /\ read'[Len(read) + 1] = line
         /\ \A i \in 1..Len(read) : read'[i] = read[i]
OBVIOUS

\* What a line adds to the lines that name a field.
LEMMA GivenGrows ==
  ASSUME read \in Seq(Lines \cup Flags), NEW line \in Lines \cup Flags,
         read' = Append(read, line), NEW field
  PROVE  /\ Given(field) \subseteq 1..Len(read)
         /\ Given(field)' = Given(field) \cup
              (IF FieldOf(line.key) = field /\ ~Throws(line) THEN {Len(read) + 1} ELSE {})
<1> USE ReadGrows
<1>1. \A i : i \in Given(field)' <=>
              i \in 1..(Len(read) + 1) /\ FieldOf(read'[i].key) = field /\ ~Throws(read'[i])
  BY DEF Given
<1>2. \A i : i \in Given(field) <=>
              i \in 1..Len(read) /\ FieldOf(read[i].key) = field /\ ~Throws(read[i])
  BY DEF Given
<1>3. \A i : i \in 1..(Len(read) + 1) <=> i \in 1..Len(read) \/ i = Len(read) + 1
  OBVIOUS
<1>4. \A i \in 1..Len(read) : i # Len(read) + 1
  OBVIOUS
<1>5. \A i : i \in Given(field)' <=>
              i \in Given(field) \/ (i = Len(read) + 1 /\ FieldOf(line.key) = field /\ ~Throws(line))
  BY <1>1, <1>2, <1>3, <1>4
<1> QED
  BY <1>2, <1>5

\* A line that does not throw becomes the last that counts for its field.
LEMMA ApplyFollows ==
  ASSUME ConfigInv, NEW line \in Lines \cup Flags, ~Throws(line),
         read' = Append(read, line), config' = Apply(config, line)
  PROVE  DOMAIN config' = DOMAIN Default /\ FieldsFollow' /\ IntervalFollows' /\ ErrorsCounted'
<1>1. /\ read \in Seq(Lines \cup Flags) /\ DOMAIN config = DOMAIN Default
      /\ config.metric_errors \in Nat /\ config.scrape_errors \in Nat
      /\ FieldsFollow /\ IntervalFollows /\ ErrorsCounted
  BY DEF ConfigInv, ErrorsCounted
<1>2. /\ DOMAIN config' = DOMAIN Default
      /\ \A field \in SetFields :
            config'[field] = IF FieldOf(line.key) = field THEN Converted(field, line)
                             ELSE config[field]
      /\ config'.snapshot_interval =
            IF line.key = "snapshot_interval" /\ line.number # NotANumber THEN line.number
            ELSE config.snapshot_interval
      /\ config'.metric_errors = config.metric_errors + (IF RefusedMetric(line) THEN 1 ELSE 0)
      /\ config'.scrape_errors = config.scrape_errors + (IF RefusedOther(line) THEN 1 ELSE 0)
  BY <1>1, ApplyPart
<1>3. /\ Len(read) \in Nat
      /\ DOMAIN read = 1..Len(read) /\ DOMAIN read' = 1..(Len(read) + 1)
      /\ read'[Len(read) + 1] = line
      /\ \A i \in 1..Len(read) : read'[i] = read[i]
  BY <1>1, ReadGrows
<1>4. FieldsFollow'
  <2> SUFFICES ASSUME NEW field \in SetFields
               PROVE  \/ Given(field)' = {} /\ config'[field] = Default[field]
                      \/ \E m \in Given(field)' :
                            /\ IsLatest(m, Given(field)')
                            /\ config'[field] = Converted(field, read'[m])
    BY DEF FieldsFollow, IsLatest
  <2>1. /\ Given(field) \subseteq 1..Len(read)
        /\ Given(field)' = Given(field) \cup
              (IF FieldOf(line.key) = field THEN {Len(read) + 1} ELSE {})
    BY <1>1, GivenGrows
  <2>2. CASE FieldOf(line.key) = field
    <3>1. Len(read) + 1 \in Given(field)' /\ IsLatest(Len(read) + 1, Given(field)')
      BY <1>3, <2>1, <2>2 DEF IsLatest
    <3>2. config'[field] = Converted(field, read'[Len(read) + 1])
      BY <1>2, <1>3, <2>2
    <3> QED
      BY <3>1, <3>2
  <2>3. CASE FieldOf(line.key) # field
    <3>1. Given(field)' = Given(field) /\ config'[field] = config[field]
      BY <1>2, <2>1, <2>3
    <3>2. \A m \in Given(field) : read'[m] = read[m]
      BY <1>3, <2>1
    <3> QED
      BY <1>1, <3>1, <3>2 DEF FieldsFollow
  <2> QED
    BY <2>2, <2>3
<1>5. IntervalFollows'
  <2> DEFINE good == line.key = "snapshot_interval" /\ line.number # NotANumber
  <2>1. /\ Given("snapshot_interval") \subseteq 1..Len(read)
        /\ Given("snapshot_interval")' = Given("snapshot_interval") \cup
              (IF line.key = "snapshot_interval" THEN {Len(read) + 1} ELSE {})
    BY <1>1, GivenGrows, KeysOfFields
  <2>2. /\ GoodIntervals \subseteq 1..Len(read)
        /\ GoodIntervals' = GoodIntervals \cup (IF good THEN {Len(read) + 1} ELSE {})
    <3>1. \A i : i \in GoodIntervals' <=>
                   i \in Given("snapshot_interval")' /\ read'[i].number # NotANumber
      BY DEF GoodIntervals
    <3>2. \A i : i \in GoodIntervals <=>
                   i \in Given("snapshot_interval") /\ read[i].number # NotANumber
      BY DEF GoodIntervals
    <3> QED
      BY <1>3, <2>1, <3>1, <3>2
  <2>3. CASE good
    <3>1. Len(read) + 1 \in GoodIntervals' /\ IsLatest(Len(read) + 1, GoodIntervals')
      BY <1>3, <2>2, <2>3 DEF IsLatest
    <3>2. config'.snapshot_interval = read'[Len(read) + 1].number
      BY <1>2, <1>3, <2>3
    <3> QED
      BY <3>1, <3>2 DEF IntervalFollows, IsLatest
  <2>4. CASE ~good
    <3>1. GoodIntervals' = GoodIntervals /\ config'.snapshot_interval = config.snapshot_interval
      BY <1>2, <2>2, <2>4
    <3>2. \A m \in GoodIntervals : read'[m] = read[m]
      BY <1>3, <2>2
    <3> QED
      BY <1>1, <3>1, <3>2 DEF IntervalFollows, IsLatest
  <2> QED
    BY <2>3, <2>4
<1>6. ErrorsCounted'
  <2>1. config'.metric_errors \in Nat /\ config'.scrape_errors \in Nat
    BY <1>1, <1>2
  <2>2. ASSUME NEW i \in DOMAIN read', ~Throws(read'[i])
        PROVE  /\ RefusedMetric(read'[i]) => config'.metric_errors > 0
               /\ RefusedOther(read'[i]) => config'.scrape_errors > 0
    <3>1. CASE i \in 1..Len(read)
      BY <1>1, <1>2, <1>3, <2>2, <3>1 DEF ErrorsCounted
    <3>2. CASE i = Len(read) + 1
      BY <1>1, <1>2, <1>3, <3>2
    <3> QED
      BY <1>3, <2>2, <3>1, <3>2
  <2> QED
    BY <2>1, <2>2 DEF ErrorsCounted
<1> QED
  BY <1>2, <1>4, <1>5, <1>6

-----------------------------------------------------------------------------
(* The invariant. *)

LEMMA InitConfig == Init => ConfigInv
<1> SUFFICES ASSUME Init PROVE ConfigInv
  OBVIOUS
<1>1. read = <<>> /\ config = Default /\ phase = "arguments" /\ DOMAIN read = {}
  BY DEF Init
<1>2. FieldsFollow /\ IntervalFollows /\ ErrorsCounted
  <2>1. (\A field : Given(field) = {}) /\ GoodIntervals = {}
    BY <1>1 DEF GoodIntervals, Given
  <2>2. /\ Default.snapshot_interval = 60
        /\ Default.metric_errors = 0 /\ Default.scrape_errors = 0
    BY DEF Default
  <2> QED
    BY <1>1, <2>1, <2>2 DEF FieldsFollow, IntervalFollows, ErrorsCounted
<1>3. ThrownEnds
  BY <1>1 DEF ThrownEnds
<1> QED
  BY <1>1, <1>2, <1>3 DEF ConfigInv

\* A flag is read like a line.
LEMMA FlagApplies ==
  ASSUME NEW value \in {"yes", "no"}, ForegroundFlag(value)
  PROVE  LET line == [key |-> "foreground", text |-> value, kept |-> value]
         IN  /\ line \in Flags /\ ~Throws(line)
             /\ read' = Append(read, line) /\ config' = Apply(config, line)
<1> DEFINE line == [key |-> "foreground", text |-> value, kept |-> value]
<1>1. line \in Flags /\ read' = Append(read, line)
  BY DEF ForegroundFlag, Flags
<1>2. FieldOf("foreground") = "foreground" /\ "foreground" \in SetFields
  BY DEF FieldOf, Aliases, SetFields, BoolFields
<1>3. ~Throws(line)
  BY <1>2 DEF Throws
<1>4. Converted("foreground", line) = (value = "yes")
  <2>1. "foreground" \notin TextFields /\ "foreground" \notin ListFields
        /\ "foreground" \in BoolFields
    BY DEF TextFields, BoolFields, ListFields
  <2>2. Converted("foreground", line) = (line.kept \in {"1", "true", "yes", "on"})
    BY <2>1 DEF Converted
  <2>3. (line.kept \in {"1", "true", "yes", "on"}) = (value = "yes")
    OBVIOUS
  <2> QED
    BY <2>2, <2>3
<1>5. config' = Apply(config, line)
  BY <1>2, <1>4 DEF ForegroundFlag, Apply, SetField
<1> QED
  BY <1>1, <1>3, <1>5

LEMMA FlagIsALine ==
  ASSUME ConfigInv, NEW value \in {"yes", "no"}, ForegroundFlag(value)
  PROVE  ConfigInv'
<1> DEFINE line == [key |-> "foreground", text |-> value, kept |-> value]
<1>1. /\ line \in Flags /\ ~Throws(line)
      /\ read' = Append(read, line) /\ config' = Apply(config, line)
  BY FlagApplies
<1>2. phase = "arguments" /\ phase' = phase
  BY DEF ForegroundFlag
<1> HIDE DEF line
<1>3. DOMAIN config' = DOMAIN Default /\ FieldsFollow' /\ IntervalFollows' /\ ErrorsCounted'
  BY <1>1, ApplyFollows
<1>4. /\ read' \in Seq(Lines \cup Flags)
      /\ Len(read) \in Nat
      /\ DOMAIN read = 1..Len(read) /\ DOMAIN read' = 1..(Len(read) + 1)
      /\ read'[Len(read) + 1] = line
      /\ \A i \in 1..Len(read) : read'[i] = read[i]
  BY <1>1, ReadGrows DEF ConfigInv
<1>5. \A i \in DOMAIN read' : ~Throws(read'[i])
  BY <1>1, <1>2, <1>4 DEF ConfigInv, ThrownEnds
<1> QED
  BY <1>2, <1>3, <1>4, <1>5 DEF ConfigInv, ThrownEnds

\* A line of a file, whether it throws or not.
LEMMA LineIsRead ==
  ASSUME ConfigInv, NEW line \in Lines, ReadLine(line)
  PROVE  ConfigInv'
<1>1. read' = Append(read, line) /\ phase = "file"
  BY DEF ReadLine
<1>2. /\ read' \in Seq(Lines \cup Flags)
      /\ Len(read) \in Nat
      /\ DOMAIN read = 1..Len(read) /\ DOMAIN read' = 1..(Len(read) + 1)
      /\ read'[Len(read) + 1] = line
      /\ \A i \in 1..Len(read) : read'[i] = read[i]
  BY <1>1, ReadGrows DEF ConfigInv
<1>3. \A i \in 1..Len(read) : ~Throws(read'[i])
  BY <1>1, <1>2 DEF ConfigInv, ThrownEnds
<1>4. CASE Throws(line)
  <2>1. phase' = "aborted" /\ config' = config
    BY <1>4 DEF ReadLine
  <2>2. ThrownEnds'
    BY <1>2, <1>4, <2>1 DEF ThrownEnds
  <2>3. \A field : Given(field)' = Given(field) /\ Given(field) \subseteq 1..Len(read)
    BY <1>1, <1>4, GivenGrows DEF ConfigInv
  <2>4. FieldsFollow'
    <3> SUFFICES ASSUME NEW field \in SetFields
                 PROVE  \/ Given(field)' = {} /\ config'[field] = Default[field]
                        \/ \E m \in Given(field)' :
                              /\ IsLatest(m, Given(field)')
                              /\ config'[field] = Converted(field, read'[m])
      BY DEF FieldsFollow, IsLatest
    <3> QED
      BY <1>2, <2>1, <2>3 DEF ConfigInv, FieldsFollow
  <2>5. GoodIntervals' = GoodIntervals /\ GoodIntervals \subseteq 1..Len(read)
    <3>1. \A i : i \in GoodIntervals' <=>
                   i \in Given("snapshot_interval")' /\ read'[i].number # NotANumber
      BY DEF GoodIntervals
    <3>2. \A i : i \in GoodIntervals <=>
                   i \in Given("snapshot_interval") /\ read[i].number # NotANumber
      BY DEF GoodIntervals
    <3> QED
      BY <1>2, <2>3, <3>1, <3>2
  <2>6. IntervalFollows'
    BY <1>2, <2>1, <2>5 DEF ConfigInv, IntervalFollows, IsLatest
  <2>7. ErrorsCounted'
    BY <1>2, <1>4, <2>1 DEF ConfigInv, ErrorsCounted
  <2> QED
    BY <1>2, <2>1, <2>2, <2>4, <2>6, <2>7 DEF ConfigInv
<1>5. CASE ~Throws(line)
  <2>1. phase' = "file" /\ config' = Apply(config, line)
    BY <1>1, <1>5 DEF ReadLine
  <2>2. DOMAIN config' = DOMAIN Default /\ FieldsFollow' /\ IntervalFollows' /\ ErrorsCounted'
    BY <1>1, <1>5, <2>1, ApplyFollows
  <2>3. ThrownEnds'
    BY <1>2, <1>3, <1>5, <2>1 DEF ThrownEnds
  <2> QED
    BY <1>2, <2>1, <2>2, <2>3 DEF ConfigInv
<1> QED
  BY <1>4, <1>5

\* Steps that read nothing.
LEMMA NothingRead ==
  ASSUME ConfigInv, UNCHANGED <<config, read>>,
         phase' = "aborted" <=> phase = "aborted",
         phase' \in {"tested", "initialized"} => Valid(config)
  PROVE  ConfigInv'
<1>1. \A field : Given(field)' = Given(field)
  BY DEF Given
<1>2. GoodIntervals' = GoodIntervals
  BY <1>1 DEF GoodIntervals
<1>3. FieldsFollow'
  BY <1>1 DEF ConfigInv, FieldsFollow, IsLatest
<1>4. IntervalFollows'
  BY <1>2 DEF ConfigInv, IntervalFollows, IsLatest
<1>5. ErrorsCounted' /\ ThrownEnds'
  BY DEF ConfigInv, ErrorsCounted, ThrownEnds
<1>6. Valid(config') = Valid(config)
  OBVIOUS
<1> QED
  BY <1>3, <1>4, <1>5, <1>6 DEF ConfigInv

LEMMA StepConfig == ConfigInv /\ [Next]_vars => ConfigInv'
<1> SUFFICES ASSUME ConfigInv, [Next]_vars PROVE ConfigInv'
  OBVIOUS
<1>1. CASE \E value \in {"yes", "no"} : ForegroundFlag(value)
  BY <1>1, FlagIsALine
<1>2. CASE \E line \in Lines : ReadLine(line)
  BY <1>2, LineIsRead
<1>3. CASE OpenFile \/ GivesUp \/ EndFile
  BY <1>3, NothingRead DEF OpenFile, GivesUp, EndFile
<1>4. CASE TestConfig
  BY <1>4, NothingRead DEF TestConfig
<1>5. CASE Initialize
  <2>1. /\ phase = "arguments" /\ UNCHANGED <<config, read>>
        /\ phase' # "aborted"
        /\ phase' = "initialized" => Valid(config)
        /\ phase' # "tested"
    BY <1>5 DEF Initialize
  <2> QED
    BY <2>1, NothingRead
<1>6. CASE UNCHANGED vars
  BY <1>6, NothingRead DEF vars, ConfigInv
<1> QED
  BY <1>1, <1>2, <1>3, <1>4, <1>5, <1>6 DEF Next

\* Whatever lines the files hold, and in whatever order flags and files come,
\* the configuration is what the lines read say.
THEOREM ConfigInvariance == Spec => []ConfigInv
BY InitConfig, StepConfig, PTL DEF Spec

\* The process ends with an exception exactly at the number of a port or of a
\* limit that cannot be read.
THEOREM AbortsAtNumbers == Spec => []AbortsExactly
<1>1. ConfigInv => AbortsExactly
  BY KeysOfFields DEF ConfigInv, ThrownEnds, AbortsExactly, Throws
<1> QED
  BY <1>1, ConfigInvariance, PTL

\* Every field is what the last line that names it says.
THEOREM LastLineCounts == Spec => []TheLastLineCounts
<1>1. ASSUME ConfigInv PROVE TheLastLineCounts
  <2>1. DOMAIN read \subseteq Nat
    BY <1>1 DEF ConfigInv
  <2>2. ASSUME NEW field \in SetFields
        PROVE  config[field] = IF Given(field) = {} THEN Default[field]
                               ELSE Converted(field, read[Max(Given(field))])
    <3>1. Given(field) \subseteq Nat
      BY <2>1 DEF Given
    <3>2. \A m \in Given(field) : IsLatest(m, Given(field)) => Max(Given(field)) = m
      BY <3>1, LatestIsMax
    <3> QED
      BY <1>1, <3>2 DEF ConfigInv, FieldsFollow
  <2>3. GoodIntervals \subseteq Nat
    BY <2>1 DEF GoodIntervals, Given
  <2>4. \A m \in GoodIntervals : IsLatest(m, GoodIntervals) => Max(GoodIntervals) = m
    BY <2>3, LatestIsMax
  <2>5. config.snapshot_interval = IF GoodIntervals = {} THEN 60
                                   ELSE read[Max(GoodIntervals)].number
    BY <1>1, <2>4 DEF ConfigInv, IntervalFollows
  <2> QED
    BY <2>2, <2>5 DEF TheLastLineCounts, GoodIntervals
<1> QED
  BY <1>1, ConfigInvariance, PTL

\* No daemon starts and no test succeeds when a line was refused, nor when one
\* threw: neither a later line nor another file makes up for it.
NoRefusedLine ==
  phase \in {"tested", "initialized"} =>
    \A i \in DOMAIN read :
      ~Throws(read[i]) /\ ~RefusedMetric(read[i]) /\ ~RefusedOther(read[i])

\* What the parser refuses is never made up for.
THEOREM RefusedLinesStopAll == Spec => []NoRefusedLine
<1>1. ConfigInv => NoRefusedLine
  <2> SUFFICES ASSUME ConfigInv, phase \in {"tested", "initialized"}, NEW i \in DOMAIN read
               PROVE  ~Throws(read[i]) /\ ~RefusedMetric(read[i]) /\ ~RefusedOther(read[i])
    BY DEF NoRefusedLine
  <2>1. config.metric_errors = 0 /\ config.scrape_errors = 0
    BY DEF ConfigInv, Valid
  <2>2. ~Throws(read[i])
    BY DEF ConfigInv, ThrownEnds
  <2> QED
    BY <2>1, <2>2 DEF ConfigInv, ErrorsCounted
<1> QED
  BY <1>1, ConfigInvariance, PTL

-----------------------------------------------------------------------------
(* What the lines add to: metrics, targets, and the registry made of them. *)

Parsed == {ParseMetric(line) : line \in {l \in Lines : l.key = "metric" /\ ParseMetric(l).ok}}

\* The metric lines that are not refused, one metric each.
MetricsFollow ==
  /\ config.metrics \in Seq(Parsed)
  /\ \A i \in DOMAIN read :
        read[i].key = "metric" /\ ParseMetric(read[i]).ok =>
          \E j \in DOMAIN config.metrics : config.metrics[j] = ParseMetric(read[i])
  /\ config.metric_errors \in Nat
  /\ config.metric_errors + Len(config.metrics) <= Len(read)

\* The lines up to the i-th that have added a target.
GoodTargets(i) ==
  {j \in 1..i : read[j].key = "scrape_target" /\ ~Throws(read[j]) /\ TargetIsGood(read[j])}

TargetsFollow ==
  /\ config.scrape_targets \in Seq(Range(config.scrape_targets))
  /\ Len(config.scrape_targets) = Cardinality(GoodTargets(Len(read)))
  /\ \A i \in GoodTargets(Len(read)) :
        config.scrape_targets[Cardinality(GoodTargets(i))] = ParseTarget(read[i])

RegistryFollows ==
  /\ phase \in Phases
  /\ \A name \in DOMAIN registry : registry[name].type \in Types
  /\ phase = "initialized" => registry = Registration.metrics /\ Registration.ok

AddedInv == MetricsFollow /\ TargetsFollow /\ RegistryFollows

Registering == INSTANCE FoldFacts WITH Op <- Register

\* The state of the registration behind metric k.
RegisteredTo(st, metrics, k) ==
  /\ DOMAIN st = {"ok", "metrics"} /\ st.ok \in BOOLEAN
  /\ \A name \in DOMAIN st.metrics : st.metrics[name].type \in Types
  /\ st.ok => \A j \in 1..k : /\ metrics[j].name \in DOMAIN st.metrics
                              /\ st.metrics[metrics[j].name] = Made(metrics[j])

LEMMA RegisterStep ==
  ASSUME NEW metrics, NEW k \in Nat \ {0}, metrics[k].type \in Types,
         NEW st, RegisteredTo(st, metrics, k - 1)
  PROVE  RegisteredTo(Register(st, metrics[k]), metrics, k)
<1> DEFINE m == metrics[k]
           new == Register(st, m)
<1>1. /\ DOMAIN st = {"ok", "metrics"} /\ st.ok \in BOOLEAN
      /\ \A name \in DOMAIN st.metrics : st.metrics[name].type \in Types
      /\ st.ok => \A j \in 1..(k - 1) : /\ metrics[j].name \in DOMAIN st.metrics
                                        /\ st.metrics[metrics[j].name] = Made(metrics[j])
  BY DEF RegisteredTo
<1>2. Made(m).type \in Types
  BY DEF Made
<1> HIDE DEF m
<1>3. CASE ~st.ok \/ m.name \in DOMAIN st.metrics
  <2>1. new = [st EXCEPT !.ok = FALSE]
    BY <1>3 DEF Register
  <2> QED
    BY <1>1, <2>1 DEF RegisteredTo, m
<1>4. CASE st.ok /\ m.name \notin DOMAIN st.metrics
  <2> DEFINE table == [name \in DOMAIN st.metrics \cup {m.name} |->
                         IF name = m.name THEN Made(m) ELSE st.metrics[name]]
  <2>2. new = [st EXCEPT !.metrics = table]
    BY <1>4 DEF Register
  <2>3. new.metrics = table /\ new.ok /\ DOMAIN new = {"ok", "metrics"} /\ new.ok \in BOOLEAN
    BY <1>1, <1>4, <2>2
  <2>4. \A name \in DOMAIN table : table[name].type \in Types
    BY <1>1, <1>2
  <2>5. ASSUME NEW j \in 1..k
        PROVE  metrics[j].name \in DOMAIN table /\ table[metrics[j].name] = Made(metrics[j])
    <3>1. CASE j = k
      BY <3>1 DEF m
    <3>2. CASE j # k
      <4>1. j \in 1..(k - 1)
        BY <3>2
      <4> QED
        BY <1>1, <1>4, <4>1
    <3> QED
      BY <3>1, <3>2
  <2> HIDE DEF table, new
  <2> QED
    BY <2>3, <2>4, <2>5 DEF RegisteredTo, new, m
<1> QED
  BY <1>3, <1>4

\* Every metric that is registered is in the registry as it was made, if none
\* of them failed.
LEMMA AllRegistered ==
  ASSUME config.metrics \in Seq(Parsed)
  PROVE  RegisteredTo(Registration, config.metrics, Len(config.metrics))
<1> DEFINE base == [ok |-> TRUE, metrics |-> <<>>]
           seq == config.metrics
           n == Len(seq)
<1>1. n \in Nat /\ DOMAIN seq = 1..n
  OBVIOUS
<1>2. \A k \in 1..n : seq[k].type \in Types
  <2>1. \A m \in Parsed : m.type \in Types
    <3> SUFFICES ASSUME NEW line \in Lines, line.key = "metric", ParseMetric(line).ok
                 PROVE  ParseMetric(line).type \in Types
      BY DEF Parsed
    <3> QED
      BY BadMetrics, LinesAssumption DEF FieldsOf
  <2> QED
    BY <2>1
<1>3. Registering!Folded(base, seq) = Registration
  BY DEF Registering!Folded, Registering!FoldLeft, Registering!MapThenFoldSet, Registering!Max,
         FoldLeft, MapThenFoldSet, Max, Registration
<1>4. RegisteredTo(base, seq, 0)
  BY DEF RegisteredTo
<1> HIDE DEF base, seq, n
<1>5. PICK st : /\ st[0] = base
                /\ \A k \in 1..n : st[k] = Register(st[k - 1], seq[k])
                /\ st[n] = Registering!Folded(base, seq)
  <2>1. \E st : /\ DOMAIN st = 0..n
                /\ st[0] = base
                /\ \A k \in 1..n : st[k] = Register(st[k - 1], seq[k])
                /\ st[n] = Registering!Folded(base, seq)
    BY <1>1, Registering!InTurn, Zenon
  <2> QED
    BY <2>1
<1> DEFINE T == {k \in 0..n : RegisteredTo(st[k], seq, k)}
<1>6. 0 \in T
  BY <1>1, <1>4, <1>5
<1>7. ASSUME NEW k \in 0..(n - 1), k \in T PROVE k + 1 \in T
  <2> DEFINE m == k + 1
  <2>1. m \in Nat \ {0} /\ m \in 1..n /\ m - 1 = k /\ m \in 0..n
    BY <1>1
  <2>2. RegisteredTo(st[m - 1], seq, m - 1) /\ st[m] = Register(st[m - 1], seq[m]) /\ seq[m].type \in Types
    BY <1>2, <1>5, <1>7, <2>1
  <2> HIDE DEF m
  <2>3. RegisteredTo(st[m], seq, m)
    BY <2>1, <2>2, RegisterStep
  <2>4. m \in T
    BY <2>1, <2>3
  <2> QED
    BY <2>4 DEF m
<1> HIDE DEF T
<1>8. 0..n \subseteq T
  BY <1>1, <1>6, <1>7, Fields!Steps
<1>9. RegisteredTo(st[n], seq, n)
  BY <1>1, <1>8 DEF T
<1> QED
  BY <1>3, <1>5, <1>9 DEF seq, n

\* What one line adds.
LEMMA ApplyAdds ==
  ASSUME NEW c, DOMAIN c = DOMAIN Default, NEW line
  PROVE  /\ Apply(c, line).metrics =
               IF line.key = "metric" /\ ParseMetric(line).ok
               THEN Append(c.metrics, ParseMetric(line)) ELSE c.metrics
         /\ Apply(c, line).scrape_targets =
               IF line.key = "scrape_target" /\ TargetIsGood(line)
               THEN Append(c.scrape_targets, ParseTarget(line)) ELSE c.scrape_targets
<1>1. CASE line.key = "metric"
  <2>1. Apply(c, line) = AddMetric(c, line)
    BY <1>1, FieldsApart, KeysOfFields DEF Apply
  <2> QED
    BY <1>1, <2>1, FieldsApart DEF AddMetric
<1>2. CASE line.key = "scrape_target"
  <2>1. Apply(c, line) = AddTarget(c, line)
    BY <1>2, FieldsApart, KeysOfFields DEF Apply
  <2> QED
    BY <1>2, <2>1, FieldsApart DEF AddTarget
<1>3. CASE line.key = "snapshot_interval"
  <2>1. Apply(c, line) = SetInterval(c, line)
    BY <1>3, FieldsApart, KeysOfFields DEF Apply
  <2> QED
    BY <1>3, <2>1, FieldsApart DEF SetInterval
<1>4. CASE line.key \notin {"metric", "scrape_target", "snapshot_interval"}
  <2>1. CASE FieldOf(line.key) \in SetFields
    <3>1. Apply(c, line) = [c EXCEPT ![FieldOf(line.key)] = Converted(FieldOf(line.key), line)]
      BY <1>4, <2>1 DEF Apply, SetField
    <3> QED
      BY <1>4, <2>1, <3>1, FieldsApart
  <2>2. CASE FieldOf(line.key) \notin SetFields
    BY <1>4, <2>2 DEF Apply
  <2> QED
    BY <2>1, <2>2
<1> QED
  BY <1>1, <1>2, <1>3, <1>4

\* The lines that have added a target, and how many there are.
LEMMA TargetsCounted ==
  ASSUME NEW i \in Nat
  PROVE  /\ GoodTargets(i) \subseteq 1..i
         /\ IsFiniteSet(GoodTargets(i)) /\ Cardinality(GoodTargets(i)) \in Nat
         /\ \A j \in GoodTargets(i) :
               /\ GoodTargets(j) \subseteq GoodTargets(i)
               /\ Cardinality(GoodTargets(j)) \in 1..Cardinality(GoodTargets(i))
<1>1. ASSUME NEW k \in Nat
      PROVE  IsFiniteSet(GoodTargets(k)) /\ Cardinality(GoodTargets(k)) \in Nat
  <2>1. IsFiniteSet(1..k) /\ GoodTargets(k) \in SUBSET (1..k)
    BY FS_Interval DEF GoodTargets
  <2> QED
    BY <2>1, FS_Subset, FS_CardinalityType
<1>2. ASSUME NEW j \in GoodTargets(i)
      PROVE  /\ GoodTargets(j) \subseteq GoodTargets(i)
             /\ Cardinality(GoodTargets(j)) \in 1..Cardinality(GoodTargets(i))
  <2>1. j \in 1..i /\ j \in GoodTargets(j) /\ GoodTargets(j) \subseteq GoodTargets(i)
    BY DEF GoodTargets
  <2>2. Cardinality(GoodTargets(j)) # 0
    BY <1>1, <2>1, FS_EmptySet
  <2>3. Cardinality(GoodTargets(j)) <= Cardinality(GoodTargets(i))
    BY <1>1, <2>1, FS_Subset
  <2> QED
    BY <1>1, <2>1, <2>2, <2>3
<1> QED
  BY <1>1, <1>2 DEF GoodTargets

\* A line more.
LEMMA TargetsGrow ==
  ASSUME ConfigInv, NEW line \in Lines \cup Flags, read' = Append(read, line),
         NEW n, n = Len(read)
  PROVE  /\ Len(read') = n + 1 /\ n \in Nat
         /\ \A i \in 1..n : GoodTargets(i)' = GoodTargets(i)
         /\ GoodTargets(n + 1)' = GoodTargets(n) \cup
              (IF line.key = "scrape_target" /\ ~Throws(line) /\ TargetIsGood(line)
               THEN {n + 1} ELSE {})
<1>1. /\ n \in Nat /\ Len(read') = n + 1
      /\ read'[n + 1] = line
      /\ \A i \in 1..n : read'[i] = read[i]
  <2>1. read \in Seq(Lines \cup Flags)
    BY DEF ConfigInv
  <2> QED
    BY <2>1
<1>2. \A i \in 0..n : 1..i \subseteq 1..n
  BY <1>1
<1>3. \A i \in 0..n : GoodTargets(i)' = GoodTargets(i)
  BY <1>1, <1>2 DEF GoodTargets
<1>4. \A j : j \in 1..(n + 1) <=> j \in 1..n \/ j = n + 1
  BY <1>1
<1>5. GoodTargets(n + 1)' = GoodTargets(n) \cup
        (IF line.key = "scrape_target" /\ ~Throws(line) /\ TargetIsGood(line)
         THEN {n + 1} ELSE {})
  <2>1. \A j : j \in GoodTargets(n + 1)' <=>
                 /\ j \in 1..(n + 1)
                 /\ read'[j].key = "scrape_target" /\ ~Throws(read'[j]) /\ TargetIsGood(read'[j])
    BY <1>1 DEF GoodTargets
  <2>2. \A j : j \in GoodTargets(n) <=>
                 /\ j \in 1..n
                 /\ read[j].key = "scrape_target" /\ ~Throws(read[j]) /\ TargetIsGood(read[j])
    BY DEF GoodTargets
  <2> QED
    BY <1>1, <1>4, <2>1, <2>2
<1> QED
  BY <1>1, <1>3, <1>5

\* A line that does not throw.
LEMMA LineAdds ==
  ASSUME ConfigInv, AddedInv, NEW line \in Lines \cup Flags, ~Throws(line),
         read' = Append(read, line), config' = Apply(config, line)
  PROVE  MetricsFollow' /\ TargetsFollow'
<1>1. /\ read \in Seq(Lines \cup Flags) /\ DOMAIN config = DOMAIN Default
      /\ config.metric_errors \in Nat /\ config.scrape_errors \in Nat
  BY DEF ConfigInv, ErrorsCounted
<1>2. /\ config'.metrics = IF line.key = "metric" /\ ParseMetric(line).ok
                           THEN Append(config.metrics, ParseMetric(line)) ELSE config.metrics
      /\ config'.scrape_targets =
            IF line.key = "scrape_target" /\ TargetIsGood(line)
            THEN Append(config.scrape_targets, ParseTarget(line)) ELSE config.scrape_targets
      /\ config'.metric_errors = config.metric_errors + (IF RefusedMetric(line) THEN 1 ELSE 0)
  BY <1>1, ApplyAdds, ApplyPart
<1>3. /\ Len(read) \in Nat /\ Len(read') = Len(read) + 1
      /\ DOMAIN read = 1..Len(read) /\ DOMAIN read' = 1..(Len(read) + 1)
      /\ read'[Len(read) + 1] = line
      /\ \A i \in 1..Len(read) : read'[i] = read[i]
  BY <1>1
<1>4. MetricsFollow'
  <2>1. /\ config.metrics \in Seq(Parsed)
        /\ config.metric_errors + Len(config.metrics) <= Len(read)
        /\ \A i \in 1..Len(read) : read[i].key = "metric" /\ ParseMetric(read[i]).ok =>
              \E j \in DOMAIN config.metrics : config.metrics[j] = ParseMetric(read[i])
    BY <1>3 DEF AddedInv, MetricsFollow
  <2>2. \A i \in DOMAIN read' : i = Len(read) + 1 \/ i \in 1..Len(read)
    BY <1>3
  <2>3. CASE line.key = "metric" /\ ParseMetric(line).ok
    <3>1. line \in Lines
      BY <2>3 DEF Flags
    <3>2. ParseMetric(line) \in Parsed
      BY <2>3, <3>1 DEF Parsed
    <3> DEFINE new == ParseMetric(line)
    <3>3. /\ config'.metrics = Append(config.metrics, new) /\ new \in Parsed
          /\ config'.metric_errors = config.metric_errors
      BY <1>2, <2>3, <3>2, <1>1 DEF RefusedMetric
    <3> HIDE DEF new
    <3>4. /\ config'.metrics \in Seq(Parsed) /\ Len(config'.metrics) = Len(config.metrics) + 1
          /\ Len(config.metrics) \in Nat
          /\ DOMAIN config.metrics = 1..Len(config.metrics)
          /\ DOMAIN config'.metrics = 1..(Len(config.metrics) + 1)
          /\ \A j \in DOMAIN config.metrics : config'.metrics[j] = config.metrics[j]
          /\ config'.metrics[Len(config.metrics) + 1] = new
      BY <2>1, <3>3
    <3>5. ASSUME NEW i \in DOMAIN read', read'[i].key = "metric", ParseMetric(read'[i]).ok
          PROVE  \E j \in DOMAIN config'.metrics : config'.metrics[j] = ParseMetric(read'[i])
      <4>1. CASE i = Len(read) + 1
        BY <1>3, <3>4, <4>1 DEF new
      <4>2. CASE i \in 1..Len(read)
        <5>1. PICK j \in DOMAIN config.metrics : config.metrics[j] = ParseMetric(read[i])
          BY <1>3, <2>1, <3>5, <4>2
        <5> QED
          BY <1>3, <3>4, <4>2, <5>1
      <4> QED
        BY <2>2, <4>1, <4>2
    <3>6. config'.metric_errors + Len(config'.metrics) <= Len(read')
      BY <1>1, <1>3, <2>1, <3>3, <3>4
    <3> QED
      BY <1>1, <3>3, <3>4, <3>5, <3>6 DEF MetricsFollow
  <2>4. CASE ~(line.key = "metric" /\ ParseMetric(line).ok)
    <3>1. config'.metrics = config.metrics /\ Len(config.metrics) \in Nat
      BY <1>2, <2>1, <2>4
    <3>2. ASSUME NEW i \in DOMAIN read', read'[i].key = "metric", ParseMetric(read'[i]).ok
          PROVE  \E j \in DOMAIN config'.metrics : config'.metrics[j] = ParseMetric(read'[i])
      BY <1>3, <2>1, <2>2, <2>4, <3>1, <3>2
    <3>3. /\ config'.metric_errors \in Nat
          /\ config'.metric_errors + Len(config'.metrics) <= Len(read')
      <4>1. config'.metric_errors \in {config.metric_errors, config.metric_errors + 1}
        BY <1>1, <1>2
      <4> QED
        BY <1>1, <1>3, <2>1, <3>1, <4>1
    <3> QED
      BY <2>1, <3>1, <3>2, <3>3 DEF MetricsFollow
  <2> QED
    BY <2>3, <2>4
<1>5. TargetsFollow'
  <2>0. PICK n \in Nat : n = Len(read)
    BY <1>3
  <2> DEFINE targets == config.scrape_targets
  <2>1. /\ targets \in Seq(Range(targets)) /\ Len(targets) = Cardinality(GoodTargets(n))
        /\ \A i \in GoodTargets(n) : targets[Cardinality(GoodTargets(i))] = ParseTarget(read[i])
    BY <2>0 DEF AddedInv, TargetsFollow
  <2>2. /\ Len(read') = n + 1 /\ n \in Nat
        /\ \A i \in 1..n : GoodTargets(i)' = GoodTargets(i)
        /\ GoodTargets(n + 1)' = GoodTargets(n) \cup
              (IF line.key = "scrape_target" /\ TargetIsGood(line) THEN {n + 1} ELSE {})
    BY <2>0, TargetsGrow
  <2>3. /\ GoodTargets(n) \subseteq 1..n
        /\ IsFiniteSet(GoodTargets(n)) /\ Cardinality(GoodTargets(n)) \in Nat
        /\ \A j \in GoodTargets(n) : Cardinality(GoodTargets(j)) \in 1..Len(targets)
    BY <2>1, <2>2, TargetsCounted
  <2>4. CASE line.key = "scrape_target" /\ TargetIsGood(line)
    <3> DEFINE new == ParseTarget(line)
               after == config'.scrape_targets
    <3>1. after = Append(targets, new)
      BY <1>2, <2>4
    <3>2. GoodTargets(n + 1)' = GoodTargets(n) \cup {n + 1} /\ n + 1 \notin GoodTargets(n)
      BY <2>2, <2>3, <2>4
    <3>3. Cardinality(GoodTargets(n + 1)') = Cardinality(GoodTargets(n)) + 1
      BY <2>3, <3>2, FS_AddElement
    <3> HIDE DEF new, targets, after
    <3>4. /\ after \in Seq(Range(targets) \cup {new}) /\ Len(after) = Len(targets) + 1
          /\ \A j \in 1..Len(targets) : after[j] = targets[j]
          /\ after[Len(targets) + 1] = new
          /\ Len(targets) \in Nat
      <4>1. targets \in Seq(Range(targets) \cup {new}) /\ Len(targets) \in Nat
        BY <2>1
      <4> QED
        BY <3>1, <4>1
    <3>5. after \in Seq(Range(after))
      BY <3>4 DEF Range
    <3>6. \A i \in GoodTargets(n) :
            /\ after[Cardinality(GoodTargets(i)')] = ParseTarget(read'[i])
      BY <1>3, <2>0, <2>1, <2>2, <2>3, <3>4
    <3>7. after[Cardinality(GoodTargets(n + 1)')] = ParseTarget(read'[n + 1])
      BY <1>3, <2>0, <2>1, <3>3, <3>4 DEF new
    <3> QED
      BY <2>1, <2>2, <3>2, <3>3, <3>4, <3>5, <3>6, <3>7 DEF TargetsFollow, after
  <2>5. CASE ~(line.key = "scrape_target" /\ TargetIsGood(line))
    <3>1. config'.scrape_targets = targets
      BY <1>2, <2>5
    <3>2. GoodTargets(n + 1)' = GoodTargets(n)
      BY <2>2, <2>5
    <3> HIDE DEF targets
    <3>3. \A i \in GoodTargets(n) : targets[Cardinality(GoodTargets(i)')] = ParseTarget(read'[i])
      BY <1>3, <2>0, <2>1, <2>2, <2>3
    <3> QED
      BY <2>1, <2>2, <3>1, <3>2, <3>3 DEF TargetsFollow
  <2> QED
    BY <2>4, <2>5
<1> QED
  BY <1>4, <1>5

\* A line that throws adds nothing.
LEMMA ThrownAddsNothing ==
  ASSUME ConfigInv, AddedInv, NEW line \in Lines, Throws(line),
         read' = Append(read, line), config' = config
  PROVE  MetricsFollow' /\ TargetsFollow'
<1>1. /\ Len(read) \in Nat /\ Len(read') = Len(read) + 1
      /\ DOMAIN read = 1..Len(read) /\ DOMAIN read' = 1..(Len(read) + 1)
      /\ read'[Len(read) + 1] = line
      /\ \A i \in 1..Len(read) : read'[i] = read[i]
  <2>1. read \in Seq(Lines \cup Flags)
    BY DEF ConfigInv
  <2> QED
    BY <2>1
<1>2. line.key # "metric"
  BY KeysOfFields DEF Throws
<1>3. MetricsFollow'
  <2>1. /\ config.metrics \in Seq(Parsed) /\ config.metric_errors \in Nat
        /\ config.metric_errors + Len(config.metrics) <= Len(read)
        /\ \A i \in 1..Len(read) : read[i].key = "metric" /\ ParseMetric(read[i]).ok =>
              \E j \in DOMAIN config.metrics : config.metrics[j] = ParseMetric(read[i])
    BY <1>1 DEF AddedInv, MetricsFollow
  <2>2. \A i \in DOMAIN read' : read'[i].key = "metric" /\ ParseMetric(read'[i]).ok =>
           \E j \in DOMAIN config.metrics : config.metrics[j] = ParseMetric(read'[i])
    BY <1>1, <1>2, <2>1
  <2>3. config.metric_errors + Len(config.metrics) <= Len(read')
    BY <1>1, <2>1
  <2> QED
    BY <2>1, <2>2, <2>3 DEF MetricsFollow
<1>4. TargetsFollow'
  <2>1. PICK n \in Nat : n = Len(read)
    BY <1>1
  <2>2. /\ Len(read') = n + 1
        /\ \A i \in 1..n : GoodTargets(i)' = GoodTargets(i)
        /\ GoodTargets(n + 1)' = GoodTargets(n)
    BY <2>1, TargetsGrow
  <2>3. GoodTargets(n) \subseteq 1..n
    BY TargetsCounted
  <2>4. \A i \in GoodTargets(n) :
           config.scrape_targets[Cardinality(GoodTargets(i)')] = ParseTarget(read'[i])
    BY <1>1, <2>1, <2>2, <2>3 DEF AddedInv, TargetsFollow
  <2> QED
    BY <2>1, <2>2, <2>4 DEF AddedInv, TargetsFollow
<1> QED
  BY <1>3, <1>4

LEMMA InitAdded == Init => AddedInv
<1> SUFFICES ASSUME Init PROVE AddedInv
  OBVIOUS
<1>1. read = <<>> /\ config = Default /\ phase = "arguments" /\ registry = <<>>
  BY DEF Init
<1>2. /\ config.metrics = <<>> /\ config.scrape_targets = <<>> /\ config.metric_errors = 0
  <2>1. /\ Default.metrics = <<>> /\ Default.scrape_targets = <<>>
        /\ Default.metric_errors = 0
    BY DEF Default
  <2> QED
    BY <1>1, <2>1
<1>3. MetricsFollow
  BY <1>1, <1>2 DEF MetricsFollow
<1>4. TargetsFollow
  <2>1. Len(read) = 0 /\ GoodTargets(0) = {}
    BY <1>1 DEF GoodTargets
  <2> QED
    <3>1. \A i \in GoodTargets(Len(read)) : FALSE
      BY <2>1
    <3>2. Len(config.scrape_targets) = Cardinality(GoodTargets(Len(read)))
      BY <1>2, <2>1, FS_EmptySet
    <3>3. config.scrape_targets \in Seq(Range(config.scrape_targets))
      BY <1>2
    <3> QED
      BY <3>1, <3>2, <3>3 DEF TargetsFollow
<1>5. RegistryFollows
  BY <1>1 DEF RegistryFollows, Phases
<1> QED
  BY <1>3, <1>4, <1>5 DEF AddedInv

LEMMA StepAdded == AddedInv /\ ConfigInv /\ [Next]_vars => AddedInv'
<1> SUFFICES ASSUME AddedInv, ConfigInv, [Next]_vars PROVE AddedInv'
  OBVIOUS
<1>1. MetricsFollow' /\ TargetsFollow'
  <2>1. ASSUME NEW value \in {"yes", "no"}, ForegroundFlag(value)
        PROVE  MetricsFollow' /\ TargetsFollow'
    <3> DEFINE line == [key |-> "foreground", text |-> value, kept |-> value]
    <3>1. line \in Flags /\ read' = Append(read, line) /\ ~Throws(line)
          /\ config' = Apply(config, line)
      BY <2>1, FlagApplies
    <3> QED
      BY <3>1, LineAdds
  <2>2. ASSUME NEW line \in Lines, ReadLine(line)
        PROVE  MetricsFollow' /\ TargetsFollow'
    <3>1. CASE Throws(line)
      BY <2>2, <3>1, ThrownAddsNothing DEF ReadLine
    <3>2. CASE ~Throws(line)
      BY <2>2, <3>2, LineAdds DEF ReadLine
    <3> QED
      BY <3>1, <3>2
  <2>3. ASSUME UNCHANGED <<config, read>> PROVE MetricsFollow' /\ TargetsFollow'
    <3>1. \A i : GoodTargets(i)' = GoodTargets(i)
      BY <2>3 DEF GoodTargets
    <3>2. MetricsFollow'
      BY <2>3 DEF AddedInv, MetricsFollow
    <3>3. PICK n : n = Len(read) /\ n = Len(read')
      BY <2>3
    <3>4. TargetsFollow'
      BY <2>3, <3>1, <3>3 DEF AddedInv, TargetsFollow
    <3> QED
      BY <3>2, <3>4
  <2> QED
    BY <2>1, <2>2, <2>3
       DEF Next, OpenFile, GivesUp, EndFile, TestConfig, Initialize, vars
<1>2. RegistryFollows'
  <2>1. ASSUME UNCHANGED registry, phase' \in Phases, phase' # "initialized"
        PROVE  RegistryFollows'
    BY <2>1 DEF AddedInv, RegistryFollows
  <2>2. CASE Initialize
    <3>1. CASE Valid(config)
      <4>1. config.metrics \in Seq(Parsed)
        BY DEF AddedInv, MetricsFollow
      <4>2. RegisteredTo(Registration, config.metrics, Len(config.metrics))
        BY <4>1, AllRegistered
      <4>3. /\ registry' = Registration.metrics
            /\ config' = config
            /\ (phase' = "initialized" /\ Registration.ok) \/ phase' = "failed"
        BY <2>2, <3>1 DEF Initialize
      <4>4. Registration' = Registration
        BY <4>3 DEF Registration
      <4> QED
        BY <4>2, <4>3, <4>4 DEF RegistryFollows, RegisteredTo, Phases
    <3>2. CASE ~Valid(config)
      BY <2>1, <2>2, <3>2 DEF Initialize, Phases
    <3> QED
      BY <3>1, <3>2
  <2>3. CASE UNCHANGED vars
    <3>1. Registration' = Registration
      BY <2>3 DEF vars, Registration
    <3> QED
      BY <2>3, <3>1 DEF vars, AddedInv, RegistryFollows
  <2>4. CASE \E value \in {"yes", "no"} : ForegroundFlag(value)
    BY <2>1, <2>4 DEF ForegroundFlag, Phases
  <2>5. CASE \E line \in Lines : ReadLine(line)
    BY <2>1, <2>5 DEF ReadLine, Phases
  <2>6. CASE OpenFile \/ GivesUp \/ EndFile \/ TestConfig
    BY <2>1, <2>6 DEF OpenFile, GivesUp, EndFile, TestConfig, Phases
  <2> QED
    BY <2>2, <2>3, <2>4, <2>5, <2>6 DEF Next
<1> QED
  BY <1>1, <1>2 DEF AddedInv

\* Metrics, targets and the registry are what the lines have added.
THEOREM AddedInvariance == Spec => [](ConfigInv /\ AddedInv)
BY ConfigInvariance, InitAdded, StepAdded, PTL DEF Spec

\* A port is cut to 16 bits.
LEMMA CutToPort ==
  \A x \in Int : x % PortSpan \in 0..(PortSpan - 1) /\ (x \in 0..(PortSpan - 1) => x % PortSpan = x)
<1>1. \A n \in Nat \ {0}, x \in Int : x % n \in 0..(n - 1)
  OBVIOUS
<1>2. \A n \in Nat \ {0} : \A x \in 0..(n - 1) : x % n = x
  OBVIOUS
<1>3. PortSpan \in Nat \ {0}
  BY DEF PortSpan
<1> QED
  BY <1>1, <1>2, <1>3

\* The configuration holds numbers of the width its fields have, and a metric or
\* an error for at most every line.
THEOREM ConfigTyped == Spec => []TypeOK
<1>1. ASSUME ConfigInv, AddedInv PROVE TypeOK
  <2>1. \A i \in DOMAIN read : read[i] \in Lines \cup Flags
    BY <1>1 DEF ConfigInv
  <2>2. ASSUME NEW field \in {"listen_port", "rate_limit_per_minute"}, NEW m \in Given(field)
        PROVE  read[m].number \in Int
    <3>1. m \in DOMAIN read /\ FieldOf(read[m].key) = field /\ ~Throws(read[m])
      BY DEF Given
    <3>2. read[m].number # NotANumber
      BY <3>1 DEF Throws
    <3>3. read[m] \notin Flags
      <4>1. FieldOf("foreground") = "foreground"
        BY DEF FieldOf, Aliases
      <4> QED
        BY <3>1, <4>1 DEF Flags
    <3> QED
      BY <2>1, <3>1, <3>2, <3>3, LinesAssumption DEF Numbers
  <2>3. config.listen_port \in 0..(PortSpan - 1)
    <3>1. "listen_port" \in SetFields
          /\ \A line : Converted("listen_port", line) = line.number % PortSpan
      BY DEF SetFields, Converted, TextFields, BoolFields, ListFields
    <3>2. \/ config.listen_port = Default.listen_port
          \/ \E m \in Given("listen_port") : config.listen_port = read[m].number % PortSpan
      BY <1>1, <3>1 DEF ConfigInv, FieldsFollow
    <3> QED
      <4>1. Default.listen_port \in 0..(PortSpan - 1)
        BY DEF Default, PortSpan
      <4> QED
        BY <2>2, <3>2, <4>1, CutToPort
  <2>4. config.rate_limit_per_minute \in 0..(LimitSpan - 1)
    <3>1. "rate_limit_per_minute" \in SetFields
          /\ \A line : Converted("rate_limit_per_minute", line) = line.number % LimitSpan
      BY DEF SetFields, Converted, TextFields, BoolFields, ListFields
    <3>2. \/ config.rate_limit_per_minute = Default.rate_limit_per_minute
          \/ \E m \in Given("rate_limit_per_minute") :
                config.rate_limit_per_minute = read[m].number % LimitSpan
      BY <1>1, <3>1 DEF ConfigInv, FieldsFollow
    <3>3. \A x \in Int : x % LimitSpan \in 0..(LimitSpan - 1)
      BY ConfigAssumption
    <3> QED
      BY <2>2, <3>2, <3>3, ConfigAssumption DEF Default
  <2> QED
    <3>1. config.metric_errors + Len(config.metrics) <= Len(read)
      BY <1>1 DEF AddedInv, MetricsFollow
    <3>2. phase \in Phases /\ \A name \in DOMAIN registry : registry[name].type \in Types
      BY <1>1 DEF AddedInv, RegistryFollows
    <3> QED
      BY <2>3, <2>4, <3>1, <3>2 DEF TypeOK
<1> QED
  BY <1>1, AddedInvariance, PTL

\* A metric line that is read has the fields its reading needs.
LEMMA MetricLinesAre ==
  ASSUME ConfigInv, NEW i \in DOMAIN read, read[i].key = "metric"
  PROVE  read[i] \in Lines /\ FieldsOf(read[i])
<1>1. read[i] \in Lines \cup Flags
  BY DEF ConfigInv
<1>2. read[i] \in Lines
  BY <1>1 DEF Flags
<1> QED
  BY <1>2, LinesAssumption DEF FieldsOf

\* No daemon starts, and no test succeeds, on a metric, a target or an interval
\* that is bad: whatever the order of the fields that make it so.
THEOREM BadLinesStopAll == Spec => []OneBadLineStopsAll
<1>1. ASSUME ConfigInv, NoRefusedLine PROVE OneBadLineStopsAll
  <2> SUFFICES ASSUME phase \in {"tested", "initialized"}, NEW i \in DOMAIN read PROVE ~Bad(read[i])
    BY DEF OneBadLineStopsAll
  <2>1. ~RefusedMetric(read[i]) /\ ~RefusedOther(read[i])
    BY <1>1 DEF NoRefusedLine
  <2>2. CASE read[i].key = "metric"
    <3>1. FieldsOf(read[i]) /\ ParseMetric(read[i]).ok
      BY <1>1, <2>1, <2>2, MetricLinesAre DEF RefusedMetric
    <3>2. /\ read[i].name # "" /\ read[i].type \in Types
          /\ \A j \in DOMAIN read[i].fields : ~BadField(read[i].fields, j)
      BY <3>1, BadMetrics
    <3> QED
      BY <2>2, <3>2 DEF Bad
  <2>3. CASE read[i].key # "metric"
    BY <2>1, <2>3 DEF Bad, RefusedOther
  <2> QED
    BY <2>2, <2>3
<1> QED
  BY <1>1, ConfigInvariance, RefusedLinesStopAll, PTL

\* The daemon begins with the metrics that the lines mean, however many lines
\* and fields there are, but for a number that a help text swallows.
THEOREM MetricsFollowLines == Spec => []MetricsAsWritten
<1>1. ASSUME ConfigInv, AddedInv, NoRefusedLine PROVE MetricsAsWritten
  <2> SUFFICES ASSUME phase = "initialized", NEW i \in DOMAIN read, read[i].key = "metric"
               PROVE  /\ read[i].name \in DOMAIN registry
                      /\ \/ \E j \in DOMAIN read[i].fields : BehindHelp(read[i].fields, j)
                         \/ registry[read[i].name] = Meant(read[i])
    BY DEF MetricsAsWritten
  <2>1. FieldsOf(read[i]) /\ ParseMetric(read[i]).ok
    BY <1>1, MetricLinesAre DEF NoRefusedLine, RefusedMetric
  <2>2. PICK j \in DOMAIN config.metrics : config.metrics[j] = ParseMetric(read[i])
    BY <1>1, <2>1 DEF AddedInv, MetricsFollow
  <2>3. config.metrics \in Seq(Parsed) /\ j \in 1..Len(config.metrics)
    BY <1>1, <2>2 DEF AddedInv, MetricsFollow
  <2>4. RegisteredTo(Registration, config.metrics, Len(config.metrics))
    BY <2>3, AllRegistered
  <2>5. registry = Registration.metrics /\ Registration.ok
    BY <1>1 DEF AddedInv, RegistryFollows
  <2>6. /\ config.metrics[j].name \in DOMAIN registry
        /\ registry[config.metrics[j].name] = Made(config.metrics[j])
    BY <2>3, <2>4, <2>5 DEF RegisteredTo
  <2>7. ParseMetric(read[i]).name = read[i].name
    BY <2>1, BadMetrics
  <2>8. (\A k \in DOMAIN read[i].fields : ~BehindHelp(read[i].fields, k))
           => Made(ParseMetric(read[i])) = Meant(read[i])
    BY <2>1, ParsedAsMeant
  <2> QED
    BY <2>2, <2>6, <2>7, <2>8
<1> QED
  BY <1>1, AddedInvariance, RefusedLinesStopAll, PTL

\* Every line with a target has added one, at the place of the line among those
\* with a target, with what the line says.
THEOREM TargetsFollowLines == Spec => []EveryTargetIsScraped
<1>1. ASSUME ConfigInv, AddedInv, NoRefusedLine, phase \in {"tested", "initialized"}
      PROVE  /\ Len(config.scrape_targets) = Cardinality(TargetsUpTo(Len(read)))
             /\ \A i \in TargetsUpTo(Len(read)) :
                   TargetAsWritten(config.scrape_targets[Cardinality(TargetsUpTo(i))], read[i])
  <2>1. Len(read) \in Nat /\ DOMAIN read = 1..Len(read)
    <3>1. read \in Seq(Lines \cup Flags)
      BY <1>1 DEF ConfigInv
    <3> QED
      BY <3>1
  <2>2. ASSUME NEW i \in DOMAIN read, read[i].key = "scrape_target"
        PROVE  TargetIsGood(read[i]) /\ ~Throws(read[i])
    BY <1>1, <2>2 DEF NoRefusedLine, RefusedOther
  <2>3. \A i \in 0..Len(read) : GoodTargets(i) = TargetsUpTo(i)
    BY <2>1, <2>2 DEF GoodTargets, TargetsUpTo
  <2>4. Len(config.scrape_targets) = Cardinality(TargetsUpTo(Len(read)))
    BY <1>1, <2>1, <2>3 DEF AddedInv, TargetsFollow
  <2>5. ASSUME NEW i \in TargetsUpTo(Len(read))
        PROVE  TargetAsWritten(config.scrape_targets[Cardinality(TargetsUpTo(i))], read[i])
    <3> DEFINE line == read[i]
               target == config.scrape_targets[Cardinality(TargetsUpTo(i))]
    <3>1. i \in DOMAIN read /\ line.key = "scrape_target" /\ i \in 0..Len(read)
      BY <2>1 DEF TargetsUpTo
    <3>2. TargetIsGood(line) /\ ~Throws(line)
      BY <2>2, <3>1
    <3>3. target = ParseTarget(line)
      <4>1. i \in GoodTargets(Len(read)) /\ GoodTargets(i) = TargetsUpTo(i)
        BY <2>1, <2>3, <3>1
      <4> QED
        BY <1>1, <4>1 DEF AddedInv, TargetsFollow
    <3>4. line.port \in Int \cup {NoPort}
      <4>1. line \in Lines
        <5>1. line \in Lines \cup Flags
          BY <1>1, <3>1 DEF ConfigInv
        <5> QED
          BY <3>1, <5>1 DEF Flags
      <4> QED
        BY <3>1, <3>2, <4>1, LinesAssumption DEF Throws, Numbers
    <3> HIDE DEF line, target
    <3>5. target.host # "" /\ target.host = line.host /\ target.interval > 0 /\ target.timeout > 0
      BY <3>2, <3>3 DEF TargetIsGood, ParseTarget
    <3>6. target.port = IF line.port = NoPort THEN 80 ELSE line.port % PortSpan
      BY <3>3 DEF ParseTarget
    <3>7. /\ target.port \in 0..(PortSpan - 1)
          /\ IF line.port = NoPort THEN target.port = 80
             ELSE line.port \in 0..(PortSpan - 1) => target.port = line.port
      <4>1. CASE line.port = NoPort
        BY <3>6, <4>1, 80 \in 0..(PortSpan - 1) DEF PortSpan
      <4>2. CASE line.port # NoPort
        BY <3>4, <3>6, <4>2, CutToPort
      <4> QED
        BY <4>1, <4>2
    <3>8. TargetAsWritten(target, line)
      BY <3>5, <3>7 DEF TargetAsWritten
    <3> QED
      BY <3>8 DEF line, target
  <2> QED
    BY <2>4, <2>5
<1>2. ConfigInv /\ AddedInv /\ NoRefusedLine => EveryTargetIsScraped
  BY <1>1 DEF EveryTargetIsScraped
<1> QED
  BY <1>2, AddedInvariance, RefusedLinesStopAll, PTL
=============================================================================
