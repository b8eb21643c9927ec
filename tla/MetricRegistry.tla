---------------------------- MODULE MetricRegistry ----------------------------
(***************************************************************************)
(* The metric registry: a map from names to heap-allocated metric objects, *)
(* shared by the threads of the daemon.                                    *)
(*                                                                         *)
(* list() hands out raw pointers, and its callers (the /metrics page and   *)
(* the snapshot writer) dereference them one by one after the registry's   *)
(* mutex has been released, while upsert() replaces objects and destroys   *)
(* the old ones.  Objects therefore have an identity: the object of a name *)
(* is the generation of that name, and a pointer is dangling when its name *)
(* has moved on to another generation.                                     *)
(*                                                                         *)
(* A double is one of the integers MinFinite..MaxFinite, or PosInf, or     *)
(* NaN, which compares with nothing.                                       *)
(***************************************************************************)
EXTENDS Integers, FiniteSets

CONSTANTS
  Names,         \* the metric names that occur (the sort order is that of <)
  MaxFinite,     \* bound: largest finite value and count, -MaxFinite smallest
  MaxGeneration, \* bound: objects a name may have, one after the other
  Readers,       \* threads that list and dereference (page, snapshot)
  Writers        \* threads that upsert (ingest, scrape workers)

ASSUME RegistryAssumption ==
  /\ Names \subseteq Nat
  /\ MaxFinite \in Nat
  /\ MaxGeneration \in Nat

Finite  == (-MaxFinite)..MaxFinite
PosInf  == MaxFinite + 1
NaN     == MaxFinite + 2
Doubles == Finite \cup {PosInf, NaN}

\* The comparison and the sum of doubles.  A sum beyond MaxFinite is infinite.
Less(a, b) == a # NaN /\ b # NaN /\ a < b
Plus(a, b) == IF a = NaN \/ b = NaN THEN NaN
              ELSE IF a + b > MaxFinite THEN PosInf ELSE a + b

Types   == {"counter", "gauge", "histogram"}
Unknown == "unknown"   \* what parseMetricType makes of any other word
NoName  == -1          \* the empty string

Specs == [name : Names \cup {NoName}, type : Types \cup {Unknown},
          value : Doubles]

VARIABLES
  metrics,   \* metrics_: the object of each registered name
  stage,     \* the daemon initializes the registry before it starts threads
  todo,      \* per reader: the pointers it has listed and not yet read
  page       \* per reader: what it has read since it listed

vars == <<metrics, stage, todo, page>>

Absent == [type |-> "none", value |-> 0, gen |-> 0]
Objects == [type : Types, value : Doubles, gen : 1..MaxGeneration]
Pointers == [name : Names, gen : 1..MaxGeneration]

Gone(n) == [Absent EXCEPT !.gen = metrics[n].gen]
Registered(n) == metrics[n].type # "none"

\* Mutant: the counter takes a negative initial value.
MakeUnclamped(spec) ==
  [type  |-> spec.type,
   value |-> IF spec.type = "histogram" THEN 0 ELSE spec.value,
   gen   |-> metrics[spec.name].gen + 1]

\* makeMetric: counters are clamped at zero, a histogram starts without
\* observations, and a gauge takes the value as it is.
Make(spec) ==
  [type  |-> spec.type,
   value |-> IF spec.type = "histogram" THEN 0
             ELSE IF spec.type = "counter" /\ Less(spec.value, 0) THEN 0
             ELSE spec.value,
   gen   |-> metrics[spec.name].gen + 1]

Constructible(spec) ==
  /\ spec.name # NoName
  /\ spec.type # Unknown

\* Mutant: a counter may be set back.
AcceptsLess(object, v) ==
  /\ v \in Finite
  /\ object.type = "counter" => ~Less(v, 0)
  /\ object.type = "histogram" => object.value < MaxFinite

\* Metric::setValue, whose value() is the count for a histogram.
Accepts(object, v) ==
  /\ v \in Finite
  /\ object.type = "counter" => ~Less(v, 0) /\ ~Less(v, object.value)
  /\ object.type = "histogram" => object.value < MaxFinite   \* bound

Assigned(object, v) ==
  [object EXCEPT !.value = IF object.type = "histogram"
                           THEN object.value + 1 ELSE v]

Init ==
  /\ metrics = [n \in Names |-> Absent]
  /\ stage = "initializing"
  /\ todo = [r \in Readers |-> {}]
  /\ page = [r \in Readers |-> {}]

-----------------------------------------------------------------------------
(* Operations.  One that fails returns false and changes nothing. *)

Emplace(spec) ==
  /\ metrics[spec.name].gen < MaxGeneration
  /\ metrics' = [metrics EXCEPT ![spec.name] = Make(spec)]

\* registerMetric, called for the metrics of the configuration.
RegisterMetric(spec) ==
  /\ stage = "initializing"
  /\ Constructible(spec)
  /\ ~Registered(spec.name)
  /\ Emplace(spec)
  /\ UNCHANGED <<stage, todo, page>>

\* clear, the first step of MetricDaemon::initialize.
Clear ==
  /\ stage = "initializing"
  /\ metrics' = [n \in Names |-> Gone(n)]
  /\ UNCHANGED <<stage, todo, page>>

\* upsert, by the snapshot's load before the threads run.
Load(spec) ==
  /\ stage = "initializing"
  /\ Constructible(spec)
  /\ Emplace(spec)
  /\ UNCHANGED <<stage, todo, page>>

Serve ==
  /\ stage = "initializing"
  /\ stage' = "serving"
  /\ UNCHANGED <<metrics, todo, page>>

\* upsert, by a thread w that is not itself walking over a list.
Upsert(w, spec) ==
  /\ stage = "serving"
  /\ w \in Readers => todo[w] = {}
  /\ Constructible(spec)
  /\ Emplace(spec)
  /\ UNCHANGED <<stage, todo, page>>

\* setValue and increment, by any thread that uses the library.
SetValue(n, v) ==
  /\ stage = "serving"
  /\ Registered(n)
  /\ Accepts(metrics[n], v)
  /\ metrics' = [metrics EXCEPT ![n] = Assigned(@, v)]
  /\ UNCHANGED <<stage, todo, page>>

Increment(n, delta) ==
  /\ stage = "serving"
  /\ ~Less(delta, 0)
  /\ metrics[n].type = "counter"
  /\ Accepts(metrics[n], Plus(metrics[n].value, delta))
  /\ metrics' = [metrics EXCEPT
                   ![n] = Assigned(@, Plus(metrics[n].value, delta))]
  /\ UNCHANGED <<stage, todo, page>>

-----------------------------------------------------------------------------
(* Readers. *)

PointersNow == {[name |-> n, gen |-> metrics[n].gen] :
                  n \in {m \in Names : Registered(m)}}

\* list(), in one critical section.
List(r) ==
  /\ stage = "serving"
  /\ todo[r] = {}
  /\ todo' = [todo EXCEPT ![r] = PointersNow]
  /\ page' = [page EXCEPT ![r] = {}]
  /\ UNCHANGED <<metrics, stage>>

IsNext(r, p) == p \in todo[r] /\ \A q \in todo[r] : p.name <= q.name

Valid(p) == Registered(p.name) /\ metrics[p.name].gen = p.gen

\* The loop of renderPrometheusText, or of save, dereferences the next
\* pointer.  A destroyed object reads as anything.
Read(r) ==
  \E p \in todo[r], type \in Types, value \in Doubles :
    /\ IsNext(r, p)
    /\ Valid(p) => /\ type = metrics[p.name].type
                   /\ value = metrics[p.name].value
    /\ todo' = [todo EXCEPT ![r] = @ \ {p}]
    /\ page' = [page EXCEPT ![r] = @ \cup
                  {[name |-> p.name, gen |-> p.gen, type |-> type,
                    value |-> value]}]
    /\ UNCHANGED <<metrics, stage>>

-----------------------------------------------------------------------------
Next ==
  \/ Clear \/ Serve
  \/ \E spec \in Specs :
       \/ RegisterMetric(spec) \/ Load(spec)
       \/ \E w \in Writers : Upsert(w, spec)
  \/ \E n \in Names, v \in Doubles : SetValue(n, v) \/ Increment(n, v)
  \/ \E r \in Readers : List(r) \/ Read(r)

Spec == Init /\ [][Next]_vars

-----------------------------------------------------------------------------
(* Properties. *)

Lines == [name : Names, gen : 1..MaxGeneration, type : Types, value : Doubles]

\* The type invariant.
TypeOK ==
  /\ metrics \in [Names -> Objects \cup
                    [type : {"none"}, value : {0}, gen : 0..MaxGeneration]]
  /\ stage \in {"initializing", "serving"}
  /\ todo \in [Readers -> SUBSET Pointers]
  /\ page \in [Readers -> SUBSET Lines]

\* A counter is never negative, whichever of the constructor, setValue and
\* increment set it last.
CounterNotNegative ==
  \A n \in Names :
    metrics[n].type = "counter" => ~Less(metrics[n].value, 0)

\* No pointer a reader is still going to dereference is dangling.
NoUseAfterFree ==
  \A r \in Readers : \A p \in todo[r] : Valid(p)

\* A thread that both reads and writes cannot destroy what it is reading; so
\* when it is the only one (no snapshot and no scrape target is configured),
\* no reader ever uses a destroyed object.
AloneNoUseAfterFree ==
  (\A r \in Readers, w \in Writers : r = w) => NoUseAfterFree

\* What a reader has seen of a counter, or of the count of a histogram, is
\* never ahead of it as long as it has not been replaced: an observer sees
\* one fall only when another object has taken its name.
SeenNeverAhead ==
  \A r \in Readers : \A line \in page[r] :
    LET object == metrics[line.name] IN
    object.gen = line.gen /\ object.type \in {"counter", "histogram"}
      => ~Less(object.value, line.value)

\* A page is complete: while it serves, every registered name keeps being
\* registered, so each name of a list can be read under that name.
NamesNeverVanish ==
  [][stage = "serving" => \A n \in Names : Registered(n) => Registered(n)']_vars
=============================================================================
