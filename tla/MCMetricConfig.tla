--------------------------- MODULE MCMetricConfig ---------------------------
(***************************************************************************)
(* Lines with both names of a field, numbers at and past their limits, and *)
(* metrics and targets that are good and bad in each way.                  *)
(***************************************************************************)
EXTENDS MetricConfig

Text(key, text)     == [key |-> key, text |-> text, kept |-> text]
Number(key, number) == [key |-> key, number |-> number]
List(key, items)    == [key |-> key, items |-> items]
Metric(name, type, fields) ==
  [key |-> "metric", name |-> name, type |-> type, fields |-> fields]
Target(host, port, options) ==
  [key |-> "scrape_target", host |-> host, port |-> port, options |-> options]
Option(name, number) == [name |-> name, number |-> number]

Fields == {Number("bare", 4), Number("bare", NotANumber), Number("value", -5), [key |-> "help"],
           [key |-> "labels", text |-> "l"],
           [key |-> "buckets", bounds |-> <<2, 1>>], [key |-> "buckets", bounds |-> <<>>]}

SettingLines ==
  {Text("log_level", "debug"), Text("log_level", "verbose"), Text("foreground", "on"),
   Text("tls_cert", "c"), Text("tls_key_file", "k"), Text("auth_user", "u"),
   [key |-> "auth_password", text |-> "p#q", kept |-> "p"],
   [key |-> "auth_password", text |-> "#q", kept |-> ""],
   List("deny_ip", <<"a", "", "b">>), List("deny_ips", <<"c">>),
   Number("listen_port", 70000), Number("listen_port", NotANumber),
   Number("rate_limit_per_minute", 8), Number("api_rate_limit", -1),
   Text("snapshot_file", "s"), Number("snapshot_interval", 0),
   Number("snapshot_interval", NotANumber), Text("unknown", "x")}

TargetLines ==
  {Target("h", NoPort, <<>>), Target("h", 70000, <<Option("timeout", 1), Option("timeout", 2)>>),
   Target("", NotANumber, <<>>), Target("h", 9100, <<Option("interval", NotANumber)>>),
   Target("h", 9100, <<Option("interval", 0)>>), Target("", 1, <<>>)}

MetricLines ==
  {Metric("m", "gauge", fields) : fields \in BoundedSeq(Fields, MaxFields)}
    \cup {Metric("m", type, fields) : type \in Types, fields \in BoundedSeq(Fields, 1)}
    \cup {Metric("n", "gauge", <<>>), Metric("n", "flux", <<>>), Metric("", "gauge", <<>>)}

MCLines == SettingLines \cup TargetLines \cup MetricLines
=============================================================================
