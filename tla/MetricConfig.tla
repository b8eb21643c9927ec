----------------------------- MODULE MetricConfig -----------------------------
(***************************************************************************)
(* From the arguments of the process to a daemon that is ready to bind:    *)
(* main()'s loop, loadFromFile(), validateDetailed(), testConfig() and the *)
(* registration in initialize().                                           *)
(*                                                                         *)
(* A line of a configuration file is a record with its key and what the    *)
(* parser tells apart of its value: a text, and what is kept of it before  *)
(* a "#"; the items of a list; a number, which is an integer, or           *)
(* NotANumber for what std::stoi() and its like throw at; or the parts of  *)
(* a metric or a scrape target.  Empty lines, comments and lines without   *)
(* "=" are left out, since they do nothing.                                *)
(***************************************************************************)
EXTENDS Integers, SequencesExt

CONSTANTS
  Lines,      \* the lines that occur
  NotANumber,
  NoPort,     \* an address without a port, or with more than one ":"
  LimitSpan,  \* 2^32: a rate limit is cut to 32 bits
  MaxLines,   \* bound: lines and flags that are read
  MaxFields,  \* bound: fields of a metric line
  MaxSize     \* bound: lines and flags, and the fields of the metric lines among them

ASSUME ConfigAssumption ==
  /\ LimitSpan \in Nat \ {0}
  /\ NotANumber \notin Int /\ NoPort \notin Int /\ NotANumber # NoPort

VARIABLES
  phase,     \* where the process is: see Phases
  config,    \* the MetricConfig object
  registry,  \* the registered metrics, by name
  read       \* history: the lines read, and the flags as lines

vars == <<phase, config, registry, read>>

Phases == {"arguments", "file", "aborted", "failed", "tested", "initialized"}

-----------------------------------------------------------------------------
(* Keys and values. *)

PortSpan == 65536   \* port_t has 16 bits

Numbers == Int \cup {NotANumber}

Aliases == [tls_cert |-> "tls_cert_file", tls_key |-> "tls_key_file",
            tls_ca |-> "tls_ca_file", allow_ip |-> "allow_ips", deny_ip |-> "deny_ips",
            api_rate_limit |-> "rate_limit_per_minute", user |-> "run_as_user"]

FieldOf(key) == IF key \in DOMAIN Aliases THEN Aliases[key] ELSE key

TextFields == {"listen_address", "log_file", "log_level", "tls_cert_file", "tls_key_file",
               "tls_ca_file", "auth_user", "auth_password", "run_as_user", "snapshot_file"}
BoolFields == {"foreground", "public_healthz"}
ListFields == {"allow_ips", "deny_ips"}
SetFields  == TextFields \cup BoolFields \cup ListFields
                \cup {"listen_port", "rate_limit_per_minute"}

\* What the parser keeps of a value of each kind: a number of digits, whichever
\* std::stoi() and its like take, or the fields of a metric, by their keys.
ASSUME LinesAssumption ==
  \A line \in Lines :
    /\ FieldOf(line.key) \in {"listen_port", "rate_limit_per_minute", "snapshot_interval"}
         => line.number \in Numbers
    /\ line.key = "scrape_target" => line.port \in Numbers \cup {NoPort}
    /\ line.key = "metric" =>
         /\ line.fields \in Seq(Range(line.fields))
         /\ \A f \in Range(line.fields) :
              /\ f.key \in {"labels", "value", "buckets", "help", "bare"}
              /\ f.key \in {"value", "bare"} => f.number \in Numbers
              /\ f.key = "buckets" => f.bounds \in Seq(Numbers)

Default ==
  [listen_address |-> "0.0.0.0", listen_port |-> 19100, log_file |-> "", log_level |-> "info",
   foreground |-> TRUE, tls_cert_file |-> "", tls_key_file |-> "", tls_ca_file |-> "",
   allow_ips |-> <<>>, deny_ips |-> <<>>, auth_user |-> "", auth_password |-> "",
   public_healthz |-> TRUE, rate_limit_per_minute |-> 0, run_as_user |-> "",
   metrics |-> <<>>, metric_errors |-> 0, scrape_targets |-> <<>>, scrape_errors |-> 0,
   snapshot_file |-> "", snapshot_interval |-> 60]

\* Mutant: numbers are not cut to their width.
ConvertedUncut(field, line) ==
  CASE field \in TextFields -> line.kept
    [] field \in BoolFields -> line.kept \in {"1", "true", "yes", "on"}
    [] field \in ListFields -> SelectSeq(line.items, LAMBDA item : item # "")
    [] field \in {"listen_port", "rate_limit_per_minute"} -> line.number

\* What the value of a line is to its field.
Converted(field, line) ==
  CASE field \in TextFields -> line.kept
    [] field \in BoolFields -> line.kept \in {"1", "true", "yes", "on"}
    [] field \in ListFields -> SelectSeq(line.items, LAMBDA item : item # "")
    [] field = "listen_port" -> line.number % PortSpan
    [] field = "rate_limit_per_minute" -> line.number % LimitSpan

-----------------------------------------------------------------------------
(* A metric: its name, its type and fields; a field is a number or a word of *)
(* its own ("bare"), or has one of four keys.  Numbers are all a help text   *)
(* is told apart by: a word of it is "text" or "bare".                       *)

Types == {"counter", "gauge", "histogram"}

NothingYet(line) ==
  [ok |-> TRUE, inHelp |-> FALSE, name |-> line.name, type |-> line.type,
   help |-> <<>>, labels |-> "", value |-> 0, buckets |-> <<>>]

Valued(st, number) ==
  IF number = NotANumber THEN [st EXCEPT !.ok = FALSE]
  ELSE [st EXCEPT !.value = number, !.inHelp = FALSE]

\* Mutant: "labels=" and "buckets=" do not end a help text.
TakeFieldInHelp(st, f) ==
  CASE ~st.ok -> st
    [] st.ok /\ f.key = "labels" -> [st EXCEPT !.labels = f.text]
    [] st.ok /\ f.key = "value" -> Valued(st, f.number)
    [] st.ok /\ f.key = "buckets" ->
         IF f.bounds = <<>> \/ NotANumber \in Range(f.bounds) THEN [st EXCEPT !.ok = FALSE]
         ELSE [st EXCEPT !.buckets = f.bounds]
    [] st.ok /\ f.key \in {"help", "bare"} /\ st.inHelp -> [st EXCEPT !.help = Append(@, f.key)]
    [] st.ok /\ f.key = "help" /\ ~st.inHelp -> [st EXCEPT !.help = <<"text">>, !.inHelp = TRUE]
    [] st.ok /\ f.key = "bare" /\ ~st.inHelp -> Valued(st, f.number)

\* One round of the loop.  A help text goes on until "labels=", "value=" or
\* "buckets=": a number behind it is a part of it.
TakeField(st, f) ==
  CASE ~st.ok -> st
    [] st.ok /\ f.key = "labels" -> [st EXCEPT !.labels = f.text, !.inHelp = FALSE]
    [] st.ok /\ f.key = "value" -> Valued(st, f.number)
    [] st.ok /\ f.key = "buckets" ->
         IF f.bounds = <<>> \/ NotANumber \in Range(f.bounds) THEN [st EXCEPT !.ok = FALSE]
         ELSE [st EXCEPT !.buckets = f.bounds, !.inHelp = FALSE]
    [] st.ok /\ f.key \in {"help", "bare"} /\ st.inHelp -> [st EXCEPT !.help = Append(@, f.key)]
    [] st.ok /\ f.key = "help" /\ ~st.inHelp -> [st EXCEPT !.help = <<"text">>, !.inHelp = TRUE]
    [] st.ok /\ f.key = "bare" /\ ~st.inHelp -> Valued(st, f.number)

\* parseMetricLine()
ParseMetric(line) ==
  LET st == FoldLeft(TakeField, NothingYet(line), line.fields)
  IN  [st EXCEPT !.ok = st.ok /\ line.name # "" /\ line.type \in Types]

-----------------------------------------------------------------------------
(* A scrape target: host and port of its address, and options. *)

LastOption(line, name, otherwise) ==
  LET given == SelectSeq(line.options, LAMBDA o : o.name = name)
  IN  IF given = <<>> THEN otherwise ELSE Last(given).number

\* parseScrapeTargetLine()
ParseTarget(line) ==
  [host |-> line.host,
   port |-> IF line.port = NoPort THEN 80 ELSE line.port % PortSpan,
   interval |-> LastOption(line, "interval", 15),
   timeout |-> LastOption(line, "timeout", 5)]

TargetIsGood(line) ==
  /\ line.host # ""
  /\ \A i \in DOMAIN line.options :
        line.options[i].name \in {"interval", "timeout"} /\ line.options[i].number # NotANumber
  /\ ParseTarget(line).interval > 0 /\ ParseTarget(line).timeout > 0

-----------------------------------------------------------------------------
(* loadFromFile() *)

\* Mutant: the interval of the snapshots is not caught either.
ThrowsAtIntervals(line) ==
  \/ FieldOf(line.key) \in {"listen_port", "rate_limit_per_minute", "snapshot_interval"}
       /\ line.number = NotANumber
  \/ line.key = "scrape_target" /\ line.port = NotANumber

\* std::stoi() or std::stoul() throws, and nothing catches that up to main().
Throws(line) ==
  \/ FieldOf(line.key) \in {"listen_port", "rate_limit_per_minute"} /\ line.number = NotANumber
  \/ line.key = "scrape_target" /\ line.port = NotANumber

AddMetric(c, line) ==
  IF ParseMetric(line).ok THEN [c EXCEPT !.metrics = Append(@, ParseMetric(line))]
  ELSE [c EXCEPT !.metric_errors = @ + 1]

\* Mutant: a target takes the place of the one before.
ReplaceTarget(c, line) ==
  IF TargetIsGood(line) THEN [c EXCEPT !.scrape_targets = <<ParseTarget(line)>>]
  ELSE [c EXCEPT !.scrape_errors = @ + 1]

AddTarget(c, line) ==
  IF TargetIsGood(line) THEN [c EXCEPT !.scrape_targets = Append(@, ParseTarget(line))]
  ELSE [c EXCEPT !.scrape_errors = @ + 1]

\* Mutant: a good interval makes up for a bad one before.
SetIntervalForgiving(c, line) ==
  IF line.number = NotANumber THEN [c EXCEPT !.scrape_errors = @ + 1]
  ELSE [c EXCEPT !.snapshot_interval = line.number, !.scrape_errors = 0]

SetInterval(c, line) ==
  IF line.number = NotANumber THEN [c EXCEPT !.scrape_errors = @ + 1]
  ELSE [c EXCEPT !.snapshot_interval = line.number]

\* Mutant: a field is set once.
SetFieldOnce(c, line) ==
  LET field == FieldOf(line.key)
  IN  IF c[field] # Default[field] THEN c ELSE [c EXCEPT ![field] = Converted(field, line)]

SetField(c, line) ==
  LET field == FieldOf(line.key) IN [c EXCEPT ![field] = Converted(field, line)]

\* The configuration after a line that does not throw; a key that is not known
\* does nothing.
Apply(c, line) ==
  CASE line.key = "metric" -> AddMetric(c, line)
    [] line.key = "scrape_target" -> AddTarget(c, line)
    [] line.key = "snapshot_interval" -> SetInterval(c, line)
    [] FieldOf(line.key) \in SetFields -> SetField(c, line)
    [] OTHER -> c

-----------------------------------------------------------------------------
Init ==
  /\ phase = "arguments"
  /\ config = Default
  /\ registry = <<>>
  /\ read = <<>>

\* A flag, which is read like the line "foreground = ...".
ForegroundFlag(value) ==
  /\ phase = "arguments"
  /\ Len(read) < MaxLines
  /\ config' = [config EXCEPT !.foreground = (value = "yes")]
  /\ read' = Append(read, [key |-> "foreground", text |-> value, kept |-> value])
  /\ UNCHANGED <<phase, registry>>

\* --config, which may be given again.
OpenFile ==
  /\ phase = "arguments"
  /\ phase' = "file"
  /\ UNCHANGED <<config, registry, read>>

\* --config without a file or with one that cannot be opened, --help, or a
\* command that is not implemented: the process ends.
GivesUp ==
  /\ phase = "arguments"
  /\ phase' = "failed"
  /\ UNCHANGED <<config, registry, read>>

MetricFields(lines) ==
  FoldLeft(LAMBDA n, line : IF line.key = "metric" THEN n + Len(line.fields) ELSE n, 0, lines)

ReadLine(line) ==
  /\ phase = "file"
  /\ Len(read) < MaxLines
  /\ read' = Append(read, line)
  /\ Len(read') + MetricFields(read') <= MaxSize
  /\ IF Throws(line) THEN phase' = "aborted" /\ UNCHANGED config
     ELSE config' = Apply(config, line) /\ UNCHANGED phase
  /\ UNCHANGED <<registry>>

EndFile ==
  /\ phase = "file"
  /\ phase' = "arguments"
  /\ UNCHANGED <<config, registry, read>>

-----------------------------------------------------------------------------
(* testConfig() and initialize() *)

LogLevels == {"debug", "info", "warning", "warn", "error", "fatal"}

TlsEnabled(c) == c.tls_cert_file # "" /\ c.tls_key_file # ""

\* validateDetailed()
Valid(c) ==
  /\ c.listen_address # ""
  /\ c.log_level \in LogLevels
  /\ c.metric_errors = 0
  /\ c.scrape_errors = 0
  /\ c.snapshot_file # "" => c.snapshot_interval > 0
  /\ (c.tls_cert_file = "") = (c.tls_key_file = "")
  /\ c.auth_user # "" => c.auth_password # ""

\* With --test-config, or the command "test", among the arguments.
TestConfig ==
  /\ phase = "arguments"
  /\ phase' = IF Valid(config) THEN "tested" ELSE "failed"
  /\ UNCHANGED <<config, registry, read>>

\* makeMetric(): a histogram is empty, whatever value it is given.
Made(m) ==
  [type |-> m.type, help |-> m.help, labels |-> m.labels,
   value |-> IF m.type = "histogram" \/ (m.type = "counter" /\ m.value < 0) THEN 0
             ELSE m.value,
   buckets |-> IF m.type = "histogram" THEN m.buckets ELSE <<>>]

\* registerMetric() in a row, up to the first that fails: a name is taken once.
Register(st, m) ==
  IF ~st.ok \/ m.name \in DOMAIN st.metrics THEN [st EXCEPT !.ok = FALSE]
  ELSE [st EXCEPT !.metrics = [name \in DOMAIN @ \cup {m.name} |->
                                 IF name = m.name THEN Made(m) ELSE @[name]]]

Registration == FoldLeft(Register, [ok |-> TRUE, metrics |-> <<>>], config.metrics)

\* Without them.  The certificate, the key or the CA file may not load.
Initialize ==
  /\ phase = "arguments"
  /\ IF Valid(config)
     THEN /\ registry' = Registration.metrics
          /\ \/ Registration.ok /\ phase' = "initialized"
             \/ (~Registration.ok \/ TlsEnabled(config)) /\ phase' = "failed"
     ELSE phase' = "failed" /\ UNCHANGED registry
  /\ UNCHANGED <<config, read>>

Next ==
  \/ \E value \in {"yes", "no"} : ForegroundFlag(value)
  \/ OpenFile \/ GivesUp \/ EndFile
  \/ \E line \in Lines : ReadLine(line)
  \/ TestConfig \/ Initialize

Spec == Init /\ [][Next]_vars

-----------------------------------------------------------------------------
(* Properties. *)

\* The type invariant.
TypeOK ==
  /\ phase \in Phases
  /\ config.listen_port \in 0..(PortSpan - 1)
  /\ config.rate_limit_per_minute \in 0..(LimitSpan - 1)
  /\ config.metric_errors + Len(config.metrics) <= Len(read)
  /\ \A name \in DOMAIN registry : registry[name].type \in Types

\* A number or a "help=" that stands behind a help text is a part of it.
BehindHelp(fields, j) ==
  /\ fields[j].key \in {"help", "bare"}
  /\ \E i \in 1..(j - 1) :
        fields[i].key = "help" /\ \A k \in i..(j - 1) : fields[k].key \in {"help", "bare"}

BadField(fields, j) ==
  \/ fields[j].key = "value" /\ fields[j].number = NotANumber
  \/ fields[j].key = "bare" /\ fields[j].number = NotANumber /\ ~BehindHelp(fields, j)
  \/ fields[j].key = "buckets" /\ ~\E b \in Range(fields[j].bounds) : b # NotANumber
  \/ fields[j].key = "buckets" /\ NotANumber \in Range(fields[j].bounds)

Bad(line) ==
  \/ line.key = "metric"
       /\ (line.name = "" \/ line.type \notin Types \/ \E j \in DOMAIN line.fields : BadField(line.fields, j))
  \/ line.key = "scrape_target" /\ ~TargetIsGood(line)
  \/ line.key = "snapshot_interval" /\ line.number = NotANumber

\* No daemon starts, and no test succeeds, on a metric, a scrape target or an
\* interval that could not be read: no later line and no other file makes up
\* for it (config.cpp:276-299, 318-323).
OneBadLineStopsAll ==
  phase \in {"tested", "initialized"} => \A i \in DOMAIN read : ~Bad(read[i])

\* The process ends with an exception, instead of the "failed to load
\* configuration" of main(), exactly at the number of a port or a limit; every
\* other bad line lets the rest of the file be read (config.cpp:248, 272,
\* net.cpp:88).
AbortsExactly ==
  phase = "aborted" <=>
    \E i \in DOMAIN read :
       \/ read[i].key \in {"listen_port", "rate_limit_per_minute", "api_rate_limit"}
            /\ read[i].number = NotANumber
       \/ read[i].key = "scrape_target" /\ read[i].port = NotANumber

Given(field) == {i \in DOMAIN read : FieldOf(read[i].key) = field /\ ~Throws(read[i])}

\* A field is what the last line says that names it, by either of its names and
\* in whichever file, or the last flag; a list is not added to.  A port is
\* taken modulo 2^16 and a limit modulo 2^32, where 0 switches the limit off.
TheLastLineCounts ==
  /\ \A field \in SetFields :
        config[field] = IF Given(field) = {} THEN Default[field]
                        ELSE Converted(field, read[Max(Given(field))])
  /\ LET good == {i \in Given("snapshot_interval") : read[i].number # NotANumber}
     IN  config.snapshot_interval = IF good = {} THEN 60 ELSE read[Max(good)].number

\* What the fields of a metric line say in whatever order, if no number stands
\* behind a help text.
Meant(line) ==
  LET last(keys) == SelectLastInSeq(line.fields, LAMBDA f : f.key \in keys)
      value == IF last({"value", "bare"}) = 0 THEN 0 ELSE line.fields[last({"value", "bare"})].number
  IN  [type |-> line.type,
       help |-> IF last({"help"}) = 0 THEN <<>> ELSE <<"text">>,
       labels |-> IF last({"labels"}) = 0 THEN "" ELSE line.fields[last({"labels"})].text,
       value |-> CASE line.type = "counter" -> Max({0, value})
                   [] line.type = "gauge" -> value
                   [] line.type = "histogram" -> 0,
       buckets |-> IF last({"buckets"}) = 0 \/ line.type # "histogram" THEN <<>>
                   ELSE line.fields[last({"buckets"})].bounds]

\* The daemon begins with a metric for every metric line, no two of one name,
\* each as its fields say in whatever order they stand; but a number behind a
\* help text is lost to it, and the metric begins with another value
\* (config.cpp:69-82, daemon.cpp:34-40).
MetricsAsWritten ==
  phase = "initialized" =>
    \A i \in DOMAIN read : read[i].key = "metric" =>
       /\ read[i].name \in DOMAIN registry
       /\ \/ \E j \in DOMAIN read[i].fields : BehindHelp(read[i].fields, j)
          \/ registry[read[i].name] = Meant(read[i])

\* The lines with a target among the first i.
TargetsUpTo(i) == {j \in 1..i : read[j].key = "scrape_target"}

TargetAsWritten(target, line) ==
  /\ target.host = line.host /\ target.host # ""
  /\ target.interval > 0 /\ target.timeout > 0
  /\ target.port \in 0..(PortSpan - 1)
  /\ IF line.port = NoPort THEN target.port = 80
     ELSE line.port \in 0..(PortSpan - 1) => target.port = line.port

\* Every line with a target adds one behind those of the lines before, at
\* intervals that are not zero, and with the port that is written, or 80 where
\* none can be made out.
EveryTargetIsScraped ==
  phase \in {"tested", "initialized"} =>
    /\ Len(config.scrape_targets) = Cardinality(TargetsUpTo(Len(read)))
    /\ \A i \in TargetsUpTo(Len(read)) :
          TargetAsWritten(config.scrape_targets[Cardinality(TargetsUpTo(i))], read[i])
=============================================================================
