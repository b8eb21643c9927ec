------------------------ MODULE MetricRegistry_proofs ------------------------
(***************************************************************************)
(* Proofs about MetricRegistry, for every set of names and threads.        *)
(***************************************************************************)
EXTENDS MetricRegistry, TLAPS

-----------------------------------------------------------------------------
(* The inductive invariant. *)

\* While the registry is initialized nobody reads it.
NobodyReadsEarly ==
  stage = "initializing" => \A r \in Readers : todo[r] = {} /\ page[r] = {}

\* Pointers and lines are of the present or of a past generation, and one of
\* the present generation has its object.
NotOfTheFuture ==
  \A r \in Readers :
    /\ \A p \in todo[r] : /\ p.gen <= metrics[p.name].gen
                          /\ p.gen = metrics[p.name].gen => Registered(p.name)
    /\ \A line \in page[r] : line.gen <= metrics[line.name].gen

\* A line is not ahead of its counter in the order in which NaN is first: a
\* counter that was constructed as NaN may be assigned any value, but none
\* becomes NaN later.
SeenBelow ==
  \A r \in Readers : \A line \in page[r] :
    LET object == metrics[line.name] IN
    object.gen = line.gen /\ object.type \in {"counter", "histogram"}
      => line.value = NaN \/ (object.value # NaN /\ line.value <= object.value)

IInv ==
  /\ TypeOK
  /\ CounterNotNegative
  /\ NobodyReadsEarly
  /\ NotOfTheFuture
  /\ SeenBelow
  /\ AloneNoUseAfterFree

-----------------------------------------------------------------------------
(* The operations on objects. *)

\* The generation of a name is within its bound, registered or not.
LEMMA Generation ==
  ASSUME TypeOK, NEW n \in Names PROVE metrics[n].gen \in 0..MaxGeneration
<1>1. CASE metrics[n] \in Objects
  BY <1>1, RegistryAssumption DEF Objects
<1>2. CASE metrics[n] \in [type : {"none"}, value : {0}, gen : 0..MaxGeneration]
  BY <1>2
<1> QED BY <1>1, <1>2 DEF TypeOK

\* A new object is typed, of the next generation, and not a negative counter.
LEMMA MakeObject ==
  ASSUME TypeOK, NEW spec \in Specs, Constructible(spec),
         metrics[spec.name].gen < MaxGeneration
  PROVE  /\ spec.name \in Names
         /\ Make(spec) \in Objects
         /\ Make(spec).gen = metrics[spec.name].gen + 1
         /\ Make(spec).type = "counter" => ~Less(Make(spec).value, 0)
<1>1. spec.name \in Names /\ spec.type \in Types /\ spec.value \in Doubles
  BY DEF Specs, Constructible
<1>2. 0 \in Doubles /\ 0 # NaN
  BY RegistryAssumption DEF Doubles, Finite, NaN
<1>3. metrics[spec.name].gen + 1 \in 1..MaxGeneration
  <2>1. metrics[spec.name].gen \in 0..MaxGeneration
    BY <1>1, Generation, Zenon
  <2> QED BY <2>1, RegistryAssumption
<1> QED
  BY <1>1, <1>2, <1>3 DEF Make, Objects, Less

\* An accepted assignment keeps the object's identity and type, and never
\* lowers a counter or the count of a histogram, nor makes it NaN.
LEMMA AssignedObject ==
  ASSUME TypeOK, CounterNotNegative, NEW n \in Names, NEW v,
         Registered(n), Accepts(metrics[n], v)
  PROVE  LET o == Assigned(metrics[n], v) IN
         /\ o \in Objects
         /\ o.gen = metrics[n].gen
         /\ o.type = metrics[n].type
         /\ o.type = "counter" => ~Less(o.value, 0)
         /\ o.type \in {"counter", "histogram"} /\ metrics[n].value # NaN
              => o.value # NaN /\ metrics[n].value <= o.value
<1>1. metrics[n] \in Objects
  BY DEF TypeOK, Registered
<1>2. /\ metrics[n].value \in Doubles /\ v \in Finite /\ Finite \subseteq Doubles
      /\ Doubles \subseteq Int /\ NaN \notin Finite
  BY <1>1, RegistryAssumption DEF Objects, Accepts, Doubles, Finite, PosInf, NaN
<1>3. CASE metrics[n].type = "histogram"
  <2>1. Assigned(metrics[n], v) = [metrics[n] EXCEPT !.value = @ + 1]
    BY <1>3 DEF Assigned
  <2>2. metrics[n].value < MaxFinite
    BY <1>3 DEF Accepts
  <2>3. metrics[n].value + 1 \in Finite
    BY <1>2, <2>2, RegistryAssumption DEF Doubles, Finite, PosInf, NaN
  <2> QED
    BY <1>1, <1>2, <1>3, <2>1, <2>3 DEF Objects
<1>4. CASE metrics[n].type # "histogram"
  <2>1. Assigned(metrics[n], v) = [metrics[n] EXCEPT !.value = v]
    BY <1>4 DEF Assigned
  <2>2. metrics[n].type = "counter" => ~Less(v, 0) /\ ~Less(v, metrics[n].value)
    BY DEF Accepts
  <2>3. metrics[n].type = "counter" /\ metrics[n].value # NaN
          => metrics[n].value <= v
    <3>1. v \in Int /\ metrics[n].value \in Int /\ v # NaN
      BY <1>2
    <3> QED BY <2>2, <3>1 DEF Less
  <2>4. /\ Assigned(metrics[n], v) \in Objects
        /\ Assigned(metrics[n], v).gen = metrics[n].gen
        /\ Assigned(metrics[n], v).type = metrics[n].type
        /\ Assigned(metrics[n], v).value = v
    BY <1>1, <1>2, <2>1 DEF Objects
  <2> QED
    BY <1>2, <1>4, <2>2, <2>3, <2>4
<1> QED
  BY <1>3, <1>4

-----------------------------------------------------------------------------
(* The invariant is inductive. *)

\* The empty registry, that nobody reads yet, satisfies the invariant.
LEMMA InitInv == Init => IInv
<1> SUFFICES ASSUME Init PROVE IInv
  OBVIOUS
<1>1. Absent \in [type : {"none"}, value : {0}, gen : 0..MaxGeneration]
  BY RegistryAssumption DEF Absent
<1>2. TypeOK
  BY <1>1 DEF Init, TypeOK
<1>3. CounterNotNegative
  BY DEF Init, Absent, CounterNotNegative
<1> QED
  BY <1>2, <1>3 DEF Init, IInv, NobodyReadsEarly, NotOfTheFuture, SeenBelow,
                    AloneNoUseAfterFree, NoUseAfterFree

\* Replacing the object of one name by one of the next generation.
LEMMA EmplaceInv ==
  ASSUME IInv, NEW spec \in Specs, Constructible(spec), Emplace(spec),
         UNCHANGED <<stage, todo, page>>,
         \/ stage = "initializing"
         \/ \E w \in Writers : w \in Readers => todo[w] = {}
  PROVE  IInv'
<1> USE DEF IInv
<1>1. /\ spec.name \in Names
      /\ Make(spec) \in Objects
      /\ Make(spec).gen = metrics[spec.name].gen + 1
      /\ Make(spec).type = "counter" => ~Less(Make(spec).value, 0)
      /\ metrics' = [metrics EXCEPT ![spec.name] = Make(spec)]
  BY MakeObject DEF Emplace
<1>2. metrics[spec.name].gen \in Nat
  <2>1. metrics[spec.name].gen \in 0..MaxGeneration
    BY <1>1, Generation, Zenon
  <2> QED BY <2>1
<1>3. TypeOK' /\ CounterNotNegative'
  BY <1>1 DEF TypeOK, CounterNotNegative
<1>4. NobodyReadsEarly'
  BY DEF NobodyReadsEarly
<1>5. NotOfTheFuture'
  BY <1>1, <1>2 DEF NotOfTheFuture, TypeOK, Pointers, Lines, Registered, Objects, Types
<1>6. SeenBelow'
  <2> SUFFICES ASSUME NEW r \in Readers, NEW line \in page[r],
                      metrics'[line.name].gen = line.gen
               PROVE  line.name # spec.name
    BY <1>1 DEF SeenBelow, TypeOK, Lines
  <2>1. line.gen \in Nat /\ line.gen <= metrics[line.name].gen /\ line.name \in Names
    BY DEF NotOfTheFuture, TypeOK, Lines
  <2> QED BY <1>1, <1>2, <2>1 DEF TypeOK
<1>7. AloneNoUseAfterFree'
  BY DEF AloneNoUseAfterFree, NoUseAfterFree, NobodyReadsEarly
<1> QED
  BY <1>3, <1>4, <1>5, <1>6, <1>7

\* Assigning to the object of one name in place.
LEMMA AssignInv ==
  ASSUME IInv, NEW n \in Names, NEW v, Registered(n), Accepts(metrics[n], v),
         metrics' = [metrics EXCEPT ![n] = Assigned(@, v)],
         UNCHANGED <<stage, todo, page>>
  PROVE  IInv'
<1> USE DEF IInv
<1> DEFINE o == Assigned(metrics[n], v)
<1>1. /\ o \in Objects /\ o.gen = metrics[n].gen /\ o.type = metrics[n].type
      /\ o.type = "counter" => ~Less(o.value, 0)
      /\ o.type \in {"counter", "histogram"} /\ metrics[n].value # NaN
           => o.value # NaN /\ metrics[n].value <= o.value
      /\ o.value \in Int /\ metrics[n].value \in Int
  <2>1. metrics[n] \in Objects /\ Doubles \subseteq Int
    BY RegistryAssumption
       DEF TypeOK, Registered, Doubles, Finite, PosInf, NaN
  <2> QED BY <2>1, AssignedObject DEF Objects
<1>2. metrics' = [metrics EXCEPT ![n] = o]
  OBVIOUS
<1> HIDE DEF o
<1>3. TypeOK' /\ CounterNotNegative'
  BY <1>1, <1>2 DEF TypeOK, CounterNotNegative
<1>4. NobodyReadsEarly' /\ AloneNoUseAfterFree'
  BY <1>1, <1>2 DEF NobodyReadsEarly, AloneNoUseAfterFree, NoUseAfterFree,
                    Valid, Registered, TypeOK, Pointers
<1>5. NotOfTheFuture'
  BY <1>1, <1>2 DEF NotOfTheFuture, TypeOK, Pointers, Lines, Registered
<1>6. SeenBelow'
  <2> SUFFICES ASSUME NEW r \in Readers, NEW line \in page[r],
                      line.name = n, o.gen = line.gen,
                      o.type \in {"counter", "histogram"}, line.value # NaN
               PROVE  o.value # NaN /\ line.value <= o.value
    BY <1>1, <1>2 DEF SeenBelow, TypeOK, Lines
  <2>1. metrics[n].value # NaN /\ line.value <= metrics[n].value
    BY <1>1 DEF SeenBelow
  <2>2. line.value \in Int
    BY RegistryAssumption DEF TypeOK, Lines, Doubles, Finite, PosInf, NaN
  <2> QED BY <1>1, <2>1, <2>2
<1> QED
  BY <1>3, <1>4, <1>5, <1>6

\* clear() keeps it: it runs before anybody has listed a pointer.
LEMMA ClearInv == IInv /\ Clear => IInv'
<1> SUFFICES ASSUME IInv, Clear PROVE IInv'
  OBVIOUS
<1> USE DEF IInv
<1>1. \A n \in Names :
        Gone(n) \in [type : {"none"}, value : {0}, gen : 0..MaxGeneration]
  <2> SUFFICES ASSUME NEW n \in Names
               PROVE  Gone(n) \in [type : {"none"}, value : {0},
                                   gen : 0..MaxGeneration]
    OBVIOUS
  <2>1. metrics[n].gen \in 0..MaxGeneration
    BY Generation, Zenon
  <2> QED BY <2>1 DEF Gone, Absent
<1>2. TypeOK'
  BY <1>1 DEF TypeOK, Clear
<1>3. CounterNotNegative'
  BY DEF CounterNotNegative, Clear, Gone, Absent
<1>4. \A r \in Readers : todo'[r] = {} /\ page'[r] = {}
  BY DEF NobodyReadsEarly, Clear
<1> QED
  BY <1>2, <1>3, <1>4
     DEF Clear, NobodyReadsEarly, NotOfTheFuture, SeenBelow,
         AloneNoUseAfterFree, NoUseAfterFree

\* So does the start of the threads.
LEMMA ServeInv == IInv /\ Serve => IInv'
  BY DEF Serve, IInv, TypeOK, CounterNotNegative, NobodyReadsEarly,
         NotOfTheFuture, SeenBelow, AloneNoUseAfterFree, NoUseAfterFree,
         Registered, Valid

\* list() keeps it: the pointers it gives out are those of the registry.
LEMMA ListInv == ASSUME IInv, NEW r \in Readers, List(r) PROVE IInv'
<1> USE DEF IInv
<1>1. \A p \in PointersNow : /\ p \in Pointers
                             /\ p.gen = metrics[p.name].gen
                             /\ Registered(p.name)
  <2> SUFFICES ASSUME NEW n \in Names, Registered(n)
               PROVE  metrics[n].gen \in 1..MaxGeneration
    BY DEF PointersNow, Pointers
  <2>1. metrics[n] \in Objects
    BY DEF TypeOK, Registered
  <2> QED BY <2>1 DEF Objects
<1>2. /\ UNCHANGED <<metrics, stage>> /\ stage = "serving"
      /\ todo' = [todo EXCEPT ![r] = PointersNow]
      /\ page' = [page EXCEPT ![r] = {}]
  BY DEF List
<1>3. TypeOK'
  BY <1>1, <1>2 DEF TypeOK
<1>4. CounterNotNegative' /\ NobodyReadsEarly'
  BY <1>2 DEF CounterNotNegative, NobodyReadsEarly
<1>5. NotOfTheFuture'
  <2>1. \A p \in PointersNow : p.gen <= metrics[p.name].gen
    BY <1>1 DEF Pointers
  <2> QED BY <1>1, <1>2, <2>1 DEF NotOfTheFuture, TypeOK, Registered
<1>6. SeenBelow'
  BY <1>2 DEF SeenBelow, TypeOK
<1>7. AloneNoUseAfterFree'
  BY <1>1, <1>2 DEF AloneNoUseAfterFree, NoUseAfterFree, TypeOK, Valid, Registered
<1> QED
  BY <1>3, <1>4, <1>5, <1>6, <1>7

\* Dereferencing a pointer keeps it: what is read of a valid object is what
\* is in it.
LEMMA ReadInv == ASSUME IInv, NEW r \in Readers, Read(r) PROVE IInv'
<1> USE DEF IInv
<1>1. PICK p \in todo[r], type \in Types, value \in Doubles :
        LET line == [name |-> p.name, gen |-> p.gen, type |-> type,
                     value |-> value] IN
        /\ Valid(p) => value = metrics[p.name].value
        /\ todo' = [todo EXCEPT ![r] = @ \ {p}]
        /\ page' = [page EXCEPT ![r] = @ \cup {line}]
        /\ UNCHANGED <<metrics, stage>>
  BY DEF Read
<1> DEFINE line == [name |-> p.name, gen |-> p.gen, type |-> type,
                    value |-> value]
<1>2. /\ p \in Pointers /\ line \in Lines
      /\ p.gen <= metrics[p.name].gen
      /\ p.gen = metrics[p.name].gen => value = metrics[p.name].value
      /\ stage # "initializing"
  BY <1>1 DEF TypeOK, Pointers, Lines, NotOfTheFuture, NobodyReadsEarly, Valid
<1>3. TypeOK'
  BY <1>1, <1>2 DEF TypeOK
<1>4. CounterNotNegative' /\ NobodyReadsEarly'
  BY <1>1, <1>2 DEF CounterNotNegative, NobodyReadsEarly
<1>5. NotOfTheFuture'
  BY <1>1, <1>2 DEF NotOfTheFuture, TypeOK, Registered
<1>6. SeenBelow'
  <2> SUFFICES ASSUME NEW q \in Readers, NEW l \in page'[q],
                      metrics[l.name].gen = l.gen,
                      metrics[l.name].type \in {"counter", "histogram"},
                      l.value # NaN
               PROVE  /\ metrics[l.name].value # NaN
                      /\ l.value <= metrics[l.name].value
    BY <1>1 DEF SeenBelow
  <2>1. CASE l \in page[q]
    BY <2>1 DEF SeenBelow
  <2>2. CASE l \notin page[q]
    <3>1. l = line
      BY <1>1, <2>2 DEF TypeOK
    <3>2. l.value = metrics[l.name].value /\ l.value \in Int
      BY <1>2, <3>1, RegistryAssumption DEF Doubles, Finite, PosInf, NaN
    <3> QED BY <3>2
  <2> QED BY <2>1, <2>2
<1>7. AloneNoUseAfterFree'
  BY <1>1 DEF AloneNoUseAfterFree, NoUseAfterFree, TypeOK, Valid, Registered
<1> QED
  BY <1>3, <1>4, <1>5, <1>6, <1>7

\* Every step keeps the invariant.
LEMMA NextInv == IInv /\ [Next]_vars => IInv'
<1> SUFFICES ASSUME IInv, [Next]_vars PROVE IInv'
  OBVIOUS
<1>1. CASE Clear \/ Serve
  BY <1>1, ClearInv, ServeInv
<1>2. ASSUME NEW spec \in Specs, RegisterMetric(spec) \/ Load(spec) PROVE IInv'
  BY <1>2, EmplaceInv DEF RegisterMetric, Load
<1>3. ASSUME NEW spec \in Specs, NEW w \in Writers, Upsert(w, spec) PROVE IInv'
  BY <1>3, EmplaceInv DEF Upsert
<1>4. ASSUME NEW n \in Names, NEW v \in Doubles, SetValue(n, v) PROVE IInv'
  BY <1>4, AssignInv DEF SetValue
<1>5. ASSUME NEW n \in Names, NEW v \in Doubles, Increment(n, v) PROVE IInv'
  BY <1>5, AssignInv DEF Increment, Registered
<1>6. ASSUME NEW r \in Readers, List(r) \/ Read(r) PROVE IInv'
  BY <1>6, ListInv, ReadInv
<1>7. CASE UNCHANGED vars
  BY <1>7 DEF vars, IInv, TypeOK, CounterNotNegative, NobodyReadsEarly,
              NotOfTheFuture, SeenBelow, AloneNoUseAfterFree, NoUseAfterFree,
              Valid, Registered
<1> QED
  BY <1>1, <1>2, <1>3, <1>4, <1>5, <1>6, <1>7 DEF Next

-----------------------------------------------------------------------------
(* The theorems. *)

\* Every reachable state satisfies the inductive invariant.
THEOREM Invariance == Spec => []IInv
<1> QED
  BY InitInv, NextInv, PTL DEF Spec

\* The registry and its readers keep their types (registry.hpp).
THEOREM TypeCorrect == Spec => []TypeOK
<1>1. IInv => TypeOK
  BY DEF IInv
<1> QED
  BY <1>1, Invariance, PTL

\* No counter is ever negative, whatever is registered, ingested, scraped,
\* assigned or added.
THEOREM NeverNegative == Spec => []CounterNotNegative
<1>1. IInv => CounterNotNegative
  BY DEF IInv
<1> QED
  BY <1>1, Invariance, PTL

\* With one thread that reads and writes there is no use after free.
THEOREM SafeAlone == Spec => []AloneNoUseAfterFree
<1>1. IInv => AloneNoUseAfterFree
  BY DEF IInv
<1> QED
  BY <1>1, Invariance, PTL

\* An observed counter falls only when it has been replaced.
THEOREM ObservationsStand == Spec => []SeenNeverAhead
<1>1. IInv => SeenNeverAhead
  <2> SUFFICES ASSUME IInv, NEW r \in Readers, NEW line \in page[r],
                      metrics[line.name].gen = line.gen,
                      metrics[line.name].type \in {"counter", "histogram"},
                      line.value # NaN
               PROVE  ~(metrics[line.name].value < line.value)
    BY DEF SeenNeverAhead, Less
  <2>1. line.value <= metrics[line.name].value
    BY DEF IInv, SeenBelow
  <2>2. line.name \in Names /\ line.value \in Int
    BY RegistryAssumption DEF IInv, TypeOK, Lines, Doubles, Finite, PosInf, NaN
  <2>3. metrics[line.name].value \in Int
    <3>1. metrics[line.name] \in Objects
      BY <2>2 DEF IInv, TypeOK
    <3> QED BY <3>1, RegistryAssumption DEF Objects, Doubles, Finite, PosInf, NaN
  <2> QED BY <2>1, <2>2, <2>3
<1> QED
  BY <1>1, Invariance, PTL

\* While the daemon serves, no name is ever unregistered: whatever a client has
\* once found under a name, there is a metric under that name still.
THEOREM NamesStay == Spec => NamesNeverVanish
<1>1. IInv /\ [Next]_vars
        => [stage = "serving"
              => \A n \in Names : Registered(n) => Registered(n)']_vars
  <2> SUFFICES ASSUME IInv, [Next]_vars, stage = "serving", NEW n \in Names,
                      Registered(n)
               PROVE  Registered(n)'
    OBVIOUS
  <2> USE DEF IInv
  <2>1. ASSUME NEW w \in Writers, NEW spec \in Specs, Upsert(w, spec)
        PROVE  Registered(n)'
    <3>1. Make(spec) \in Objects /\ metrics' = [metrics EXCEPT ![spec.name] = Make(spec)]
      BY <2>1, MakeObject DEF Upsert, Emplace
    <3>2. Make(spec).type # "none"
      BY <3>1 DEF Objects, Types
    <3> QED
      BY <3>1, <3>2 DEF Registered, TypeOK
  <2>2. ASSUME NEW m \in Names, NEW v \in Doubles, SetValue(m, v) \/ Increment(m, v)
        PROVE  Registered(n)'
    <3>1. PICK u : metrics' = [metrics EXCEPT ![m] = Assigned(metrics[m], u)]
      BY <2>2 DEF SetValue, Increment
    <3>2. Assigned(metrics[m], u).type = metrics[m].type
      BY DEF Assigned, TypeOK, Objects
    <3> QED
      BY <3>1, <3>2 DEF Registered, TypeOK
  <2>3. CASE \E r \in Readers : List(r) \/ Read(r)
    BY <2>3 DEF List, Read, Registered
  <2>4. CASE UNCHANGED vars
    BY <2>4 DEF vars, Registered
  <2> QED
    BY <2>1, <2>2, <2>3, <2>4 DEF Next, Clear, Serve, RegisterMetric, Load
<1> QED
  BY <1>1, Invariance, PTL DEF Spec, NamesNeverVanish
=============================================================================
