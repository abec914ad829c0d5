-------------------------- MODULE MonitorLoopProofs --------------------------
(***************************************************************************)
(* Proofs about MonitorLoop, for any sets of configs and ScaledObjects,    *)
(* any finite set of deployments, any specs and readings, and any number   *)
(* of edits and faults.                                                    *)
(*                                                                         *)
(* TypeOK is not inductive: what a handler reads through its copy of the   *)
(* spec only makes sense while it runs.  HandlerOK says what the local     *)
(* variables of a handler hold at each point; LoopInv is inductive.        *)
(***************************************************************************)
EXTENDS MonitorLoop, FiniteSetTheorems, WellFoundedInduction, TLAPS

Points == {"idle", "sample", "compute", "get", "patch",
           "report", "forecast", "status", "returned"}

\* The bounds that one pass computes, from its own readings and limit.
CapsOf(l) == /\ SomePower(l.power) => ~StrategyRaises(l.power, l.spec.limit)
             /\ l.caps = IF SomePower(l.power)
                         THEN StrategyCaps(l.power, l.spec.limit)
                         ELSE NoReading

HandlerOK(p, at, l) ==
    /\ l \in Locals
    /\ at \in Points
    /\ at # "idle" => l.spec \in Specs
    /\ at \in {"sample", "get", "patch"} => l.ref \in DOMAIN l.spec.refs
    /\ at = "compute" => l.ref = 1
    /\ at = "patch" => l.snap \in ScaledObject
    /\ p[2] = "create" => /\ at \in {"idle", "get", "patch", "returned"}
                          /\ at # "idle" => ValidSpec(l.spec)
    /\ p[2] = "timer" => /\ at # "returned"
                         /\ at \notin {"idle", "sample", "compute"} => CapsOf(l)

HandlersOK ==
    /\ pc \in [Handlers -> Points]
    /\ local \in [Handlers -> Locals]
    /\ \A p \in Handlers : HandlerOK(p, pc[p], local[p])

ConfigsOK ==
    /\ TypeOK
    /\ \A c \in Configs : life[c] # "absent" => spec[c] \in Specs

LoopInv == ConfigsOK /\ HandlersOK

(***************************************************************************)
(* Arithmetic of the bounds.                                               *)
(***************************************************************************)
\* Python's int(a / b) is an integer, and for a limit it is the largest
\* number of times that b fits into it.
LEMMA TruncateInt ==
    ASSUME NEW a \in Int, NEW b \in Nat \ {0}
    PROVE  Truncate(a, b) \in Int
BY DEF Truncate

LEMMA TruncateLargest ==
    ASSUME NEW a \in Nat, NEW b \in Nat \ {0}
    PROVE  /\ b * Truncate(a, b) <= a
           /\ a < b * (Truncate(a, b) + 1)
<1>1. b * (a \div b) <= a
  OBVIOUS
<1>2. a < b * ((a \div b) + 1)
  OBVIOUS
<1>. QED BY <1>1, <1>2 DEF Truncate

\* The strategy's map is a map of bounds: it has every deployment's entry an
\* integer or missing, when the strategy does not raise.
LEMMA StrategyCapsType ==
    ASSUME NEW power \in [Deployments -> Nat \cup {None}],
           NEW limit \in Int \cup {None},
           ~StrategyRaises(power, limit)
    PROVE  StrategyCaps(power, limit) \in [Deployments -> Int \cup {None}]
<1>1. ASSUME NEW d \in Deployments, power[d] # None
      PROVE  Truncate(limit, power[d]) \in Int
  BY <1>1, TruncateInt, NoneAssumption DEF StrategyRaises, Sampled
<1>. QED BY <1>1 DEF StrategyCaps

LEMMA NoReadingType ==
    /\ NoReading \in [Deployments -> Nat \cup {None}]
    /\ NoReading \in [Deployments -> Int \cup {None}]
BY DEF NoReading

LEMMA CapForType ==
    ASSUME NEW caps \in [Deployments -> Int \cup {None}], NEW d \in Deployments
    PROVE  CapFor(caps, d) \in Int
BY DEF CapFor

LEMMA NoLocalsType == NoLocals \in Locals
BY NoReadingType DEF NoLocals, Locals

\* The forecast of a pass is an integer for every sampled deployment.
LEMMA ForecastType ==
    ASSUME NEW power \in [Deployments -> Nat \cup {None}],
           NEW caps \in [Deployments -> Int \cup {None}]
    PROVE  Forecast(power, caps) \in [Deployments -> Int \cup {None}]
<1>1. ASSUME NEW d \in Deployments, power[d] # None
      PROVE  power[d] * CapFor(caps, d) \in Int
  BY <1>1, CapForType
<1>. QED BY <1>1 DEF Forecast

LEMMA SpecsType ==
    ASSUME NEW s \in Specs
    PROVE  /\ s.limit \in Int \cup {None}
           /\ s.refs \in Seq(Objects)
BY LoopAssumption DEF SpecType

LEMMA HandlerNames ==
    ASSUME NEW c \in Configs
    PROVE  /\ Creator(c) \in Handlers /\ Creator(c)[2] = "create"
           /\ Timer(c) \in Handlers /\ Timer(c)[2] = "timer"
BY DEF Creator, Timer, Handlers

(***************************************************************************)
(* How a handler's step shows in pc and local.                             *)
(***************************************************************************)
\* A step that moves handler p only keeps the other handlers as they are.
LEMMA OneHandler ==
    ASSUME HandlersOK, NEW p \in Handlers, NEW at, NEW l,
           HandlerOK(p, at, l),
           pc' = [pc EXCEPT ![p] = at],
           local' = [local EXCEPT ![p] = l]
    PROVE  HandlersOK'
<1>1. l \in Locals /\ at \in Points
  BY DEF HandlerOK
<1>2. \A q \in Handlers : HandlerOK(q, pc'[q], local'[q])
  BY DEF HandlersOK
<1>. QED BY <1>1, <1>2 DEF HandlersOK

\* A handler without local variables is idle and in order.
LEMMA IdleOK ==
    ASSUME NEW p \in Handlers
    PROVE  HandlerOK(p, "idle", NoLocals)
BY NoLocalsType DEF HandlerOK, Points

LEMMA LeaveOK ==
    ASSUME HandlersOK, NEW p \in Handlers,
           pc' = [pc EXCEPT ![p] = "idle"],
           local' = [local EXCEPT ![p] = NoLocals]
    PROVE  HandlersOK'
BY OneHandler, IdleOK

\* The end of a loop's body goes on with a reference that is there, or leaves
\* the loop; nothing else of the local variables changes.
LEMMA IterateShape ==
    ASSUME NEW p \in Handlers, NEW l \in Locals, NEW again, NEW after,
           l.spec \in Specs, l.ref \in DOMAIN l.spec.refs,
           Iterate(p, l, again, after)
    PROVE  \E at \in {again, after}, r \in Nat \ {0} :
              /\ pc' = [pc EXCEPT ![p] = at]
              /\ local' = [local EXCEPT ![p] = [l EXCEPT !.ref = r]]
              /\ \/ at = again /\ r \in DOMAIN l.spec.refs
                 \/ at = after /\ r = 1
<1>1. l.spec.refs \in Seq(Objects) /\ l.ref \in 1..Len(l.spec.refs)
  BY SpecsType
<1>2. CASE l.ref < Len(l.spec.refs)
  <2>1. l.ref + 1 \in Nat \ {0} /\ l.ref + 1 \in DOMAIN l.spec.refs
    BY <1>1, <1>2
  <2>. QED BY <1>2, <2>1 DEF Iterate
<1>3. CASE ~(l.ref < Len(l.spec.refs))
  <2>1. /\ pc' = [pc EXCEPT ![p] = after]
        /\ local' = [local EXCEPT ![p] = [l EXCEPT !.ref = 1]]
    BY <1>3 DEF Iterate
  <2>. WITNESS after \in {again, after}, 1 \in Nat \ {0}
  <2>. QED BY <2>1
<1>. QED BY <1>2, <1>3

\* A loop is entered at its first reference, when there is one.
LEMMA FirstReference ==
    ASSUME NEW s \in Specs, NEW loop, NEW after, loop # after,
           LoopOr(s, loop, after) = loop
    PROVE  1 \in DOMAIN s.refs
<1>1. s.refs \in Seq(Objects) /\ s.refs # <<>>
  BY SpecsType DEF LoopOr
<1>. QED BY <1>1

\* What the steps of the handlers leave alone.
LEMMA HandlersFrame ==
    ASSUME LoopInv, HandlersOK', fresh' \subseteq Handlers,
           UNCHANGED <<config, so, gauge, bounds>>
    PROVE  LoopInv'
BY DEF LoopInv, ConfigsOK, TypeOK, HandlersOK, Points, config, bounds

\* What the steps that touch no config leave to be shown.
LEMMA ObjectsFrame ==
    ASSUME LoopInv, HandlersOK', fresh' \subseteq Handlers,
           so' \in [Objects -> ScaledObject \cup {None}],
           gauge' \in [Deployments -> [power : Nat \cup {None},
                                       forecast : Int \cup {None}]],
           edits' \in 0..MaxEdits, faults' \in 0..MaxFaults,
           UNCHANGED config
    PROVE  LoopInv'
BY DEF LoopInv, ConfigsOK, TypeOK, HandlersOK, Points, config

\* A handler about to patch has a copy of an object, and puts an integer in it.
LEMMA PatchedType ==
    ASSUME LoopInv, NEW p \in Handlers, pc[p] = "patch"
    PROVE  /\ Object(p) \in Objects
           /\ NewMax(p) \in Int
           /\ Patched(p) \in ScaledObject
<1>1. /\ local[p] \in Locals /\ local[p].spec \in Specs
      /\ local[p].ref \in DOMAIN local[p].spec.refs
      /\ local[p].snap \in ScaledObject
  BY DEF LoopInv, HandlersOK, HandlerOK
<1>2. Object(p) \in Objects
  BY <1>1, SpecsType DEF Object, Refs
<1>3. NewMax(p) \in Int
  <2>1. CASE p[2] = "create"
    <3>1. local[p].spec.limit \in Nat
      BY <2>1 DEF LoopInv, HandlersOK, HandlerOK, ValidSpec
    <3>. QED BY <2>1, <3>1, TruncateInt DEF NewMax, PlaceholderCap
  <2>2. CASE p[2] # "create"
    <3>1. local[p].caps \in [Deployments -> Int \cup {None}]
      BY <1>1 DEF Locals
    <3>2. local[p].snap.target \in Deployments
      BY <1>1 DEF ScaledObject
    <3>. QED BY <2>2, <3>1, <3>2, CapForType DEF NewMax
  <2>. QED BY <2>1, <2>2
<1>4. Patched(p) \in ScaledObject
  BY <1>1, <1>3 DEF Patched, ScaledObject
<1>. QED BY <1>2, <1>3, <1>4

LEMMA StoreType ==
    ASSUME LoopInv, NEW p \in Handlers, pc[p] = "patch", Store(p)
    PROVE  /\ so' \in [Objects -> ScaledObject \cup {None}]
           /\ fresh' \subseteq Handlers
BY PatchedType DEF Store, LoopInv, ConfigsOK, TypeOK

(***************************************************************************)
(* LoopInv is inductive: one lemma per action.                             *)
(***************************************************************************)
LEMMA InitInv == Init => LoopInv
<1>. SUFFICES ASSUME Init PROVE LoopInv
  OBVIOUS
<1>1. ConfigsOK
  BY LoopAssumption, NoLocalsType DEF Init, ConfigsOK, TypeOK, ScaledObject, NoGauge
<1>2. HandlersOK
  BY NoLocalsType, IdleOK DEF Init, HandlersOK, Points
<1>. QED BY <1>1, <1>2 DEF LoopInv

LEMMA StartCreateInv ==
    ASSUME LoopInv, NEW c \in Configs, StartCreate(c)
    PROVE  LoopInv'
<1>. DEFINE p == Creator(c)
<1>1. p \in Handlers /\ p[2] = "create"
  BY HandlerNames
<1>2. spec[c] \in Specs
  BY DEF StartCreate, LoopInv, ConfigsOK
<1>3. HandlersOK'
  <2>1. CASE ValidSpec(spec[c])
    <3>. DEFINE at == LoopOr(spec[c], "get", "returned")
                l  == [NoLocals EXCEPT !.spec = spec[c]]
    <3>1. at \in {"get", "returned"}
      BY DEF LoopOr
    <3>2. l \in Locals /\ l.spec = spec[c] /\ l.ref = 1
      BY <1>2, NoLocalsType DEF Locals, NoLocals
    <3>3. at = "get" => l.ref \in DOMAIN l.spec.refs
      BY <1>2, <3>2, FirstReference
    <3>4. HandlerOK(p, at, l)
      BY <1>1, <1>2, <2>1, <3>1, <3>2, <3>3 DEF HandlerOK, Points
    <3>5. pc' = [pc EXCEPT ![p] = at] /\ local' = [local EXCEPT ![p] = l]
      BY <2>1 DEF StartCreate
    <3>. QED BY <1>1, <3>4, <3>5, OneHandler DEF LoopInv
  <2>2. CASE ~ValidSpec(spec[c])
    BY <2>2 DEF StartCreate, LoopInv, HandlersOK
  <2>. QED BY <2>1, <2>2
<1>4. ConfigsOK'
  <2>1. created' \in [Configs -> {"pending", "done", "rejected"}]
    BY DEF StartCreate, LoopInv, ConfigsOK, TypeOK
  <2>. QED BY <1>3, <2>1 DEF StartCreate, LoopInv, ConfigsOK, TypeOK, HandlersOK, Points, bounds
<1>. QED BY <1>3, <1>4 DEF LoopInv

LEMMA FinishCreateInv ==
    ASSUME LoopInv, NEW c \in Configs, FinishCreate(c)
    PROVE  LoopInv'
<1>1. HandlersOK'
  BY HandlerNames, LeaveOK DEF FinishCreate, Leave, LoopInv
<1>2. created' \in [Configs -> {"pending", "done", "rejected"}]
  BY DEF FinishCreate, LoopInv, ConfigsOK, TypeOK
<1>3. ConfigsOK'
  BY <1>1, <1>2
  DEF FinishCreate, Leave, LoopInv, ConfigsOK, TypeOK, HandlersOK, Points, bounds
<1>. QED BY <1>1, <1>3 DEF LoopInv

LEMMA StartTimerInv ==
    ASSUME LoopInv, NEW c \in Configs, StartTimer(c)
    PROVE  LoopInv'
<1>. DEFINE p  == Timer(c)
            at == LoopOr(spec[c], "sample", "compute")
            l  == [NoLocals EXCEPT !.spec = spec[c]]
<1>1. p \in Handlers /\ p[2] = "timer"
  BY HandlerNames
<1>2. spec[c] \in Specs
  BY DEF StartTimer, LoopInv, ConfigsOK
<1>3. at \in {"sample", "compute"}
  BY DEF LoopOr
<1>4. l \in Locals /\ l.spec = spec[c] /\ l.ref = 1
  BY <1>2, NoLocalsType DEF Locals, NoLocals
<1>5. at = "sample" => l.ref \in DOMAIN l.spec.refs
  BY <1>2, <1>4, FirstReference
<1>6. HandlerOK(p, at, l)
  BY <1>1, <1>2, <1>3, <1>4, <1>5 DEF HandlerOK, Points
<1>7. pc' = [pc EXCEPT ![p] = at] /\ local' = [local EXCEPT ![p] = l]
  BY DEF StartTimer
<1>8. HandlersOK'
  BY <1>1, <1>6, <1>7, OneHandler DEF LoopInv
<1>. QED BY <1>8, HandlersFrame DEF StartTimer, LoopInv, ConfigsOK, TypeOK

LEMMA SampleInv ==
    ASSUME LoopInv, NEW p \in Handlers, p[2] = "timer", Sample(p)
    PROVE  LoopInv'
<1>. DEFINE o == Object(p)
            target == so[o].target
<1>1. /\ pc[p] = "sample" /\ local[p] \in Locals /\ local[p].spec \in Specs
      /\ local[p].ref \in DOMAIN local[p].spec.refs
  BY DEF Sample, LoopInv, HandlersOK, HandlerOK
<1>2. o \in Objects
  BY <1>1, SpecsType DEF Object, Refs
<1>3. CASE ~Found(o)
  <2>1. HandlersOK' /\ fresh' \subseteq Handlers
    BY <1>3, LeaveOK DEF Sample, Leave, LoopInv, ConfigsOK, TypeOK
  <2>. QED BY <2>1, HandlersFrame DEF Sample
<1>4. CASE Found(o)
  <2>1. target \in Deployments
    BY <1>2, <1>4 DEF Found, LoopInv, ConfigsOK, TypeOK, ScaledObject
  <2>2. PICK w \in PowerConsumption(target) :
          Iterate(p, [local[p] EXCEPT !.power[target] = w], "sample", "compute")
    BY <1>4 DEF Sample
  <2>. DEFINE m == [local[p] EXCEPT !.power[target] = w]
  <2>3. w \in Nat
    BY <2>1, LoopAssumption DEF PowerConsumption
  <2>4. /\ m \in Locals /\ m.spec = local[p].spec /\ m.ref = local[p].ref
    BY <1>1, <2>1, <2>3 DEF Locals
  <2>5. Iterate(p, m, "sample", "compute")
    BY <2>2
  <2>. HIDE DEF m
  <2>6. PICK at \in {"sample", "compute"}, r \in Nat \ {0} :
            /\ pc' = [pc EXCEPT ![p] = at]
            /\ local' = [local EXCEPT ![p] = [m EXCEPT !.ref = r]]
            /\ \/ at = "sample" /\ r \in DOMAIN m.spec.refs
               \/ at = "compute" /\ r = 1
    BY <1>1, <2>4, <2>5, IterateShape
  <2>. DEFINE l == [m EXCEPT !.ref = r]
  <2>7. l \in Locals /\ l.spec = local[p].spec /\ l.ref = r
    BY <2>4 DEF Locals
  <2>8. HandlerOK(p, at, l)
    <3>. HIDE DEF l
    <3>. QED BY <1>1, <2>4, <2>6, <2>7 DEF HandlerOK, Points
  <2>9. HandlersOK'
    BY <2>6, <2>8, OneHandler DEF LoopInv
  <2>. QED BY <1>4, <2>9, HandlersFrame DEF Sample, LoopInv, ConfigsOK, TypeOK
<1>. QED BY <1>3, <1>4

LEMMA ComputeInv ==
    ASSUME LoopInv, NEW p \in Handlers, p[2] = "timer", Compute(p)
    PROVE  LoopInv'
<1>. DEFINE power == local[p].power
            limit == local[p].spec.limit
<1>1. /\ pc[p] = "compute" /\ local[p] \in Locals /\ local[p].spec \in Specs
      /\ local[p].ref = 1
  BY DEF Compute, LoopInv, HandlersOK, HandlerOK
<1>2. CASE SomePower(power) /\ StrategyRaises(power, limit)
  <2>1. HandlersOK' /\ fresh' \subseteq Handlers
    BY <1>2, LeaveOK DEF Compute, Leave, LoopInv, ConfigsOK, TypeOK
  <2>. QED BY <2>1, HandlersFrame DEF Compute
<1>3. CASE ~(SomePower(power) /\ StrategyRaises(power, limit))
  <2>. DEFINE at   == LoopOr(local[p].spec, "get", "report")
              caps == IF SomePower(power) THEN StrategyCaps(power, limit)
                                          ELSE NoReading
              l    == [local[p] EXCEPT !.caps = caps]
  <2>1. pc' = [pc EXCEPT ![p] = at] /\ local' = [local EXCEPT ![p] = l]
    BY <1>3 DEF Compute
  <2>2. at \in {"get", "report"}
    BY DEF LoopOr
  <2>3. power \in [Deployments -> Nat \cup {None}] /\ limit \in Int \cup {None}
    BY <1>1, SpecsType DEF Locals
  <2>4. caps \in [Deployments -> Int \cup {None}]
    BY <1>3, <2>3, StrategyCapsType, NoReadingType
  <2>5. /\ l \in Locals /\ l.spec = local[p].spec /\ l.ref = local[p].ref
        /\ l.power = power /\ l.caps = caps
    <3>. HIDE DEF caps
    <3>. QED BY <1>1, <2>4 DEF Locals
  <2>6. CapsOf(l)
    BY <1>3, <2>5 DEF CapsOf
  <2>7. at = "get" => l.ref \in DOMAIN l.spec.refs
    BY <1>1, <2>5, FirstReference
  <2>8. HandlerOK(p, at, l)
    <3>. HIDE DEF l, at
    <3>. QED BY <1>1, <2>2, <2>5, <2>6, <2>7 DEF HandlerOK, Points
  <2>9. HandlersOK'
    BY <2>1, <2>8, OneHandler DEF LoopInv
  <2>. QED BY <1>3, <2>9, HandlersFrame DEF Compute, LoopInv, ConfigsOK, TypeOK
<1>. QED BY <1>2, <1>3

LEMMA GetInv ==
    ASSUME LoopInv, NEW p \in Handlers, Get(p)
    PROVE  LoopInv'
<1>1. /\ pc[p] = "get" /\ local[p] \in Locals /\ local[p].spec \in Specs
      /\ local[p].ref \in DOMAIN local[p].spec.refs
      /\ HandlerOK(p, pc[p], local[p])
  BY DEF Get, LoopInv, HandlersOK, HandlerOK
<1>2. Object(p) \in Objects
  BY <1>1, SpecsType DEF Object, Refs
<1>3. CASE so[Object(p)] = None
  <2>1. HandlersOK' /\ fresh' \subseteq Handlers
    BY <1>3, LeaveOK DEF Get, Leave, LoopInv, ConfigsOK, TypeOK
  <2>. QED BY <2>1, HandlersFrame DEF Get
<1>4. CASE so[Object(p)] # None
  <2>. DEFINE l == [local[p] EXCEPT !.snap = so[Object(p)]]
  <2>1. so[Object(p)] \in ScaledObject
    BY <1>2, <1>4 DEF LoopInv, ConfigsOK, TypeOK
  <2>2. /\ l \in Locals /\ l.spec = local[p].spec /\ l.ref = local[p].ref
        /\ l.power = local[p].power /\ l.caps = local[p].caps
        /\ l.snap = so[Object(p)]
    BY <1>1, <2>1 DEF Locals
  <2>3. HandlerOK(p, "patch", l)
    <3>. HIDE DEF l
    <3>. QED BY <1>1, <2>1, <2>2 DEF HandlerOK, Points, CapsOf
  <2>4. HandlersOK' /\ fresh' \subseteq Handlers
    BY <1>4, <2>3, OneHandler DEF Get, LoopInv, ConfigsOK, TypeOK
  <2>. QED BY <2>4, HandlersFrame DEF Get
<1>. QED BY <1>3, <1>4

LEMMA PatchInv ==
    ASSUME LoopInv, NEW p \in Handlers, Patch(p)
    PROVE  LoopInv'
<1>. DEFINE after == IF p[2] = "create" THEN "returned" ELSE "report"
            m == [local[p] EXCEPT !.snap = None]
<1>1. /\ pc[p] = "patch" /\ local[p] \in Locals /\ local[p].spec \in Specs
      /\ local[p].ref \in DOMAIN local[p].spec.refs
      /\ HandlerOK(p, pc[p], local[p])
  BY DEF Patch, LoopInv, HandlersOK, HandlerOK
<1>2. CASE ~Accepted(p)
  <2>1. HandlersOK' /\ fresh' \subseteq Handlers
    BY <1>2, LeaveOK DEF Patch, Leave, LoopInv, ConfigsOK, TypeOK
  <2>. QED BY <1>2, <2>1, HandlersFrame DEF Patch
<1>3. CASE Accepted(p)
  <2>1. Store(p) /\ Iterate(p, m, "get", after)
    BY <1>3 DEF Patch
  <2>2. /\ m \in Locals /\ m.spec = local[p].spec /\ m.ref = local[p].ref
        /\ m.power = local[p].power /\ m.caps = local[p].caps
    BY <1>1 DEF Locals
  <2>. HIDE DEF m, after
  <2>3. PICK at \in {"get", after}, r \in Nat \ {0} :
            /\ pc' = [pc EXCEPT ![p] = at]
            /\ local' = [local EXCEPT ![p] = [m EXCEPT !.ref = r]]
            /\ \/ at = "get" /\ r \in DOMAIN m.spec.refs
               \/ at = after /\ r = 1
    BY <1>1, <2>1, <2>2, IterateShape
  <2>. DEFINE l == [m EXCEPT !.ref = r]
  <2>4. /\ l \in Locals /\ l.spec = local[p].spec /\ l.ref = r
        /\ l.power = local[p].power /\ l.caps = local[p].caps
    BY <2>2 DEF Locals
  <2>5. HandlerOK(p, at, l)
    <3>. HIDE DEF l
    <3>. QED BY <1>1, <2>2, <2>3, <2>4 DEF HandlerOK, Points, CapsOf, after
  <2>6. HandlersOK'
    BY <2>3, <2>5, OneHandler DEF LoopInv
  <2>7. /\ so' \in [Objects -> ScaledObject \cup {None}]
        /\ fresh' \subseteq Handlers
    BY <1>1, <2>1, StoreType
  <2>. QED BY <2>6, <2>7, ObjectsFrame
           DEF Patch, LoopInv, ConfigsOK, TypeOK, config, bounds
<1>. QED BY <1>2, <1>3

\* The steps after the second loop keep the local variables.
LEMMA MoveOK ==
    ASSUME LoopInv, NEW p \in Handlers, p[2] = "timer", CapsOf(local[p]),
           local[p].spec \in Specs, NEW at \in {"forecast", "status"},
           pc' = [pc EXCEPT ![p] = at], local' = local
    PROVE  HandlersOK'
<1>1. HandlerOK(p, at, local[p])
  BY DEF LoopInv, HandlersOK, HandlerOK, Points
<1>2. local' = [local EXCEPT ![p] = local[p]]
  BY DEF LoopInv, HandlersOK
<1>. QED BY <1>1, <1>2, OneHandler DEF LoopInv

LEMMA ReportInv ==
    ASSUME LoopInv, NEW p \in Handlers, p[2] = "timer", Report(p)
    PROVE  LoopInv'
<1>1. /\ pc[p] = "report" /\ CapsOf(local[p]) /\ local[p] \in Locals
      /\ local[p].spec \in Specs
  BY DEF Report, LoopInv, HandlersOK, HandlerOK
<1>2. HandlersOK'
  BY <1>1, MoveOK DEF Report
<1>3. gauge' \in [Deployments -> [power : Nat \cup {None},
                                  forecast : Int \cup {None}]]
  BY <1>1 DEF Report, Locals, LoopInv, ConfigsOK, TypeOK
<1>. QED BY <1>2, <1>3, ObjectsFrame
         DEF Report, LoopInv, ConfigsOK, TypeOK, bounds

LEMMA ReportForecastInv ==
    ASSUME LoopInv, NEW p \in Handlers, p[2] = "timer", ReportForecast(p)
    PROVE  LoopInv'
<1>. DEFINE forecast == Forecast(local[p].power, local[p].caps)
<1>1. /\ pc[p] = "forecast" /\ CapsOf(local[p]) /\ local[p] \in Locals
      /\ local[p].spec \in Specs
  BY DEF ReportForecast, LoopInv, HandlersOK, HandlerOK
<1>2. HandlersOK'
  BY <1>1, MoveOK DEF ReportForecast
<1>3. forecast \in [Deployments -> Int \cup {None}]
  BY <1>1, ForecastType DEF Locals
<1>4. gauge' = [d \in Deployments |->
                   IF forecast[d] # None
                   THEN [gauge[d] EXCEPT !.forecast = forecast[d]]
                   ELSE gauge[d]]
  BY DEF ReportForecast
<1>5. gauge' \in [Deployments -> [power : Nat \cup {None},
                                  forecast : Int \cup {None}]]
  <2>. HIDE DEF forecast
  <2>. QED BY <1>3, <1>4 DEF LoopInv, ConfigsOK, TypeOK
<1>. QED BY <1>2, <1>5, ObjectsFrame
         DEF ReportForecast, LoopInv, ConfigsOK, TypeOK, bounds

LEMMA WriteStatusInv ==
    ASSUME LoopInv, NEW c \in Configs, WriteStatus(c)
    PROVE  LoopInv'
<1>. DEFINE l == local[Timer(c)]
<1>1. l \in Locals
  BY HandlerNames DEF LoopInv, HandlersOK
<1>2. [current |-> l.power, forecast |-> Forecast(l.power, l.caps)] \in Status
  BY <1>1, ForecastType DEF Locals, Status
<1>3. status' \in [Configs -> Status \cup {None}]
  BY <1>2 DEF WriteStatus, LoopInv, ConfigsOK, TypeOK
<1>4. HandlersOK'
  BY HandlerNames, LeaveOK DEF WriteStatus, Leave, LoopInv
<1>. QED BY <1>3, <1>4
  DEF WriteStatus, Leave, LoopInv, ConfigsOK, TypeOK, HandlersOK, Points, bounds

LEMMA RemoveConfigInv ==
    ASSUME LoopInv, NEW c \in Configs, RemoveConfig(c)
    PROVE  LoopInv'
<1>1. HandlersOK'
  BY DEF RemoveConfig, LoopInv, HandlersOK
<1>2. /\ life' \in [Configs -> {"absent", "live", "deleting"}]
      /\ spec' \in [Configs -> Specs \cup {None}]
      /\ created' \in [Configs -> {"pending", "done", "rejected"}]
      /\ status' \in [Configs -> Status \cup {None}]
      /\ \A k \in Configs : life'[k] # "absent" => spec'[k] \in Specs
  BY DEF RemoveConfig, LoopInv, ConfigsOK, TypeOK
<1>. QED BY <1>1, <1>2
         DEF RemoveConfig, LoopInv, ConfigsOK, TypeOK, bounds

LEMMA CallFailsInv ==
    ASSUME LoopInv, NEW p \in Handlers, CallFails(p)
    PROVE  LoopInv'
<1>1. HandlersOK' /\ fresh' \subseteq Handlers
  BY LeaveOK DEF CallFails, Leave, LoopInv, ConfigsOK, TypeOK
<1>2. faults' \in 0..MaxFaults
  BY LoopAssumption DEF CallFails, Fault, LoopInv, ConfigsOK, TypeOK
<1>. QED BY <1>1, <1>2, ObjectsFrame
         DEF CallFails, LoopInv, ConfigsOK, TypeOK

LEMMA AnswerLostInv ==
    ASSUME LoopInv, NEW p \in Handlers, AnswerLost(p)
    PROVE  LoopInv'
<1>1. HandlersOK'
  BY LeaveOK DEF AnswerLost, LoopInv
<1>2. /\ so' \in [Objects -> ScaledObject \cup {None}]
      /\ fresh' \subseteq Handlers
  BY StoreType DEF AnswerLost
<1>3. faults' \in 0..MaxFaults
  BY LoopAssumption DEF AnswerLost, Fault, LoopInv, ConfigsOK, TypeOK
<1>. QED BY <1>1, <1>2, <1>3, ObjectsFrame
         DEF AnswerLost, LoopInv, ConfigsOK, TypeOK

LEMMA CrashInv ==
    ASSUME LoopInv, Crash
    PROVE  LoopInv'
<1>1. HandlersOK'
  BY IdleOK, NoLocalsType DEF Crash, HandlersOK, Points
<1>2. faults' \in 0..MaxFaults
  BY LoopAssumption DEF Crash, Fault, LoopInv, ConfigsOK, TypeOK
<1>3. gauge' \in [Deployments -> [power : Nat \cup {None},
                                  forecast : Int \cup {None}]]
  BY DEF Crash, NoGauge
<1>. QED BY <1>1, <1>2, <1>3, ObjectsFrame
         DEF Crash, LoopInv, ConfigsOK, TypeOK

LEMMA EditInv ==
    ASSUME LoopInv, Edit
    PROVE  edits' \in 0..MaxEdits
BY LoopAssumption DEF Edit, LoopInv, ConfigsOK, TypeOK

LEMMA ConfigEditsInv ==
    ASSUME LoopInv, NEW c \in Configs,
           CreateConfig(c) \/ EditConfig(c) \/ DeleteConfig(c)
    PROVE  LoopInv'
<1>1. HandlersOK'
  BY DEF CreateConfig, EditConfig, DeleteConfig, LoopInv, HandlersOK
<1>2. edits' \in 0..MaxEdits
  BY EditInv DEF CreateConfig, EditConfig, DeleteConfig
<1>3. /\ life' \in [Configs -> {"absent", "live", "deleting"}]
      /\ spec' \in [Configs -> Specs \cup {None}]
      /\ \A k \in Configs : life'[k] # "absent" => spec'[k] \in Specs
  BY DEF CreateConfig, EditConfig, DeleteConfig, LoopInv, ConfigsOK, TypeOK
<1>. QED BY <1>1, <1>2, <1>3
  DEF CreateConfig, EditConfig, DeleteConfig, LoopInv, ConfigsOK, TypeOK

LEMMA WriteObjectInv ==
    ASSUME LoopInv, NEW o \in Objects, NEW new \in ScaledObject \cup {None},
           WriteObject(o, new)
    PROVE  LoopInv'
<1>1. HandlersOK'
  BY DEF WriteObject, LoopInv, HandlersOK
<1>2. edits' \in 0..MaxEdits
  BY EditInv DEF WriteObject
<1>. QED BY <1>1, <1>2, ObjectsFrame
         DEF WriteObject, LoopInv, ConfigsOK, TypeOK

LEMMA ObjectEdits ==
    ASSUME LoopInv, NEW o \in Objects,
           EditObject(o) \/ DeleteObject(o) \/ CreateObject(o)
    PROVE  \E new \in ScaledObject \cup {None} : WriteObject(o, new)
<1>1. CASE EditObject(o)
  <2>1. so[o] \in ScaledObject
    BY <1>1 DEF EditObject, LoopInv, ConfigsOK, TypeOK
  <2>. QED BY <1>1, <2>1, LoopAssumption DEF EditObject, ScaledObject
<1>2. CASE DeleteObject(o)
  BY <1>2 DEF DeleteObject
<1>3. CASE CreateObject(o)
  BY <1>3, LoopAssumption DEF CreateObject, ScaledObject
<1>. QED BY <1>1, <1>2, <1>3

LEMMA NextInv == LoopInv /\ [Next]_vars => LoopInv'
<1>. SUFFICES ASSUME LoopInv, [Next]_vars PROVE LoopInv'
  OBVIOUS
<1>1. ASSUME NEW c \in Configs, CreateStep(c) PROVE LoopInv'
  BY <1>1, HandlerNames, StartCreateInv, GetInv, PatchInv, FinishCreateInv
  DEF CreateStep
<1>2. ASSUME NEW c \in Configs, TimerStep(c) PROVE LoopInv'
  BY <1>2, HandlerNames, StartTimerInv, SampleInv, ComputeInv, GetInv, PatchInv,
     ReportInv, ReportForecastInv, WriteStatusInv
  DEF TimerStep
<1>3. ASSUME NEW c \in Configs, RemoveConfig(c) PROVE LoopInv'
  BY <1>3, RemoveConfigInv
<1>4. ASSUME Environment PROVE LoopInv'
  BY <1>4, CrashInv, CallFailsInv, AnswerLostInv, ConfigEditsInv,
     ObjectEdits, WriteObjectInv
  DEF Environment
<1>5. CASE UNCHANGED vars
  BY <1>5 DEF vars, LoopInv, ConfigsOK, TypeOK, HandlersOK
<1>. QED BY <1>1, <1>2, <1>3, <1>4, <1>5 DEF Next

\* In every behaviour of the loop, each handler's variables are what its
\* point in the code promises; in particular the bounds a timer is about to
\* write are those of the readings and the limit of its own pass.
THEOREM LoopInvariant == Spec => []LoopInv
<1>. QED BY InitInv, NextInv, PTL DEF Spec

\* Type correctness of the loop.
THEOREM TypeCorrect == Spec => []TypeOK
<1>1. LoopInv => TypeOK
  BY DEF LoopInv, ConfigsOK
<1>. QED BY <1>1, LoopInvariant, PTL

(***************************************************************************)
(* A copy that is fresh is the object as it is: the optimistic lock holds. *)
(***************************************************************************)
\* The other handlers stay where they are.
OthersKept(p) == \A q \in Handlers \ {p} : /\ pc'[q] = pc[q]
                                           /\ local'[q] = local[q]

LEMMA MovesOthersKept ==
    ASSUME LoopInv, NEW p \in Handlers,
           \/ \E at, l : /\ pc' = [pc EXCEPT ![p] = at]
                         /\ local' = [local EXCEPT ![p] = l]
           \/ \E at : pc' = [pc EXCEPT ![p] = at] /\ local' = local
           \/ UNCHANGED <<pc, local>>
    PROVE  OthersKept(p)
BY DEF OthersKept, LoopInv, HandlersOK

LEMMA IterateOthersKept ==
    ASSUME LoopInv, NEW p \in Handlers, NEW l, NEW again, NEW after,
           Iterate(p, l, again, after)
    PROVE  OthersKept(p)
BY DEF Iterate, OthersKept, LoopInv, HandlersOK

\* Handler p gives its copy up, if it has one, and the objects that the
\* others have fresh copies of stay as they are.
LEMMA FreshKept ==
    ASSUME LoopInv, SnapshotFresh, NEW p \in Handlers, OthersKept(p),
           fresh' \subseteq fresh \ {p},
           \A q \in fresh' : so'[Object(q)] = so[Object(q)]
    PROVE  SnapshotFresh'
<1>. SUFFICES ASSUME NEW q \in fresh'
              PROVE  pc'[q] = "patch" /\ local'[q].snap = so'[Object(q)']
  BY DEF SnapshotFresh
<1>1. q \in fresh /\ q \in Handlers \ {p}
  BY DEF LoopInv, ConfigsOK, TypeOK
<1>2. pc'[q] = pc[q] /\ local'[q] = local[q]
  BY <1>1 DEF OthersKept
<1>3. Object(q)' = Object(q)
  BY <1>2 DEF Object, Refs
<1>. QED BY <1>1, <1>2, <1>3 DEF SnapshotFresh

\* A handler that is not about to patch has no fresh copy.
LEMMA NotFresh ==
    ASSUME SnapshotFresh, NEW p, pc[p] # "patch"
    PROVE  fresh = fresh \ {p}
BY DEF SnapshotFresh

LEMMA StoreFresh ==
    ASSUME LoopInv, SnapshotFresh, NEW p \in Handlers, pc[p] = "patch",
           Store(p), OthersKept(p)
    PROVE  SnapshotFresh'
<1>1. Object(p) \in Objects
  BY PatchedType
<1>2. ASSUME NEW q \in fresh' PROVE so'[Object(q)] = so[Object(q)]
  <2>1. q \in fresh /\ q \in Handlers
    BY <1>2 DEF Store, LoopInv, ConfigsOK, TypeOK
  <2>2. CASE Patched(p) = so[Object(p)]
    BY <1>1, <2>2 DEF Store, LoopInv, ConfigsOK, TypeOK
  <2>3. CASE Patched(p) # so[Object(p)]
    BY <1>1, <1>2, <2>1, <2>3
    DEF Store, Outdated, LoopInv, ConfigsOK, TypeOK
  <2>. QED BY <2>2, <2>3
<1>3. fresh' \subseteq fresh \ {p}
  BY DEF Store
<1>. QED BY <1>2, <1>3, FreshKept

LEMMA GetFresh ==
    ASSUME LoopInv, SnapshotFresh, NEW p \in Handlers, Get(p)
    PROVE  SnapshotFresh'
<1>1. CASE so[Object(p)] = None
  <2>1. OthersKept(p) /\ fresh' \subseteq fresh \ {p} /\ so' = so
    BY <1>1, MovesOthersKept DEF Get, Leave
  <2>. QED BY <2>1, FreshKept
<1>2. CASE so[Object(p)] # None
  <2>1. /\ pc' = [pc EXCEPT ![p] = "patch"]
        /\ local' = [local EXCEPT ![p].snap = so[Object(p)]]
        /\ fresh' = fresh \cup {p} /\ so' = so
    BY <1>2 DEF Get
  <2>2. /\ pc'[p] = "patch" /\ local'[p].snap = so[Object(p)]
        /\ local'[p].ref = local[p].ref /\ local'[p].spec = local[p].spec
    BY <2>1 DEF LoopInv, HandlersOK, Locals
  <2>3. Object(p)' = Object(p)
    BY <2>2 DEF Object, Refs
  <2>4. ASSUME NEW q \in fresh, q # p
        PROVE  pc'[q] = "patch" /\ local'[q].snap = so'[Object(q)']
    <3>1. q \in Handlers
      BY DEF LoopInv, ConfigsOK, TypeOK
    <3>2. pc'[q] = pc[q] /\ local'[q] = local[q]
      BY <2>1, <2>4, <3>1 DEF LoopInv, HandlersOK
    <3>3. Object(q)' = Object(q)
      BY <3>2 DEF Object, Refs
    <3>. QED BY <2>1, <3>2, <3>3 DEF SnapshotFresh
  <2>. QED BY <2>1, <2>2, <2>3, <2>4 DEF SnapshotFresh
<1>. QED BY <1>1, <1>2

LEMMA PatchFresh ==
    ASSUME LoopInv, SnapshotFresh, NEW p \in Handlers, Patch(p)
    PROVE  SnapshotFresh'
<1>1. CASE Accepted(p)
  <2>1. pc[p] = "patch" /\ Store(p) /\ OthersKept(p)
    BY <1>1, IterateOthersKept DEF Patch
  <2>. QED BY <2>1, StoreFresh
<1>2. CASE ~Accepted(p)
  <2>1. OthersKept(p) /\ fresh' \subseteq fresh \ {p} /\ so' = so
    BY <1>2, MovesOthersKept DEF Patch, Leave
  <2>. QED BY <2>1, FreshKept
<1>. QED BY <1>1, <1>2

\* The steps that read nothing back from the API server, or only a sample.
LEMMA LocalStepFresh ==
    ASSUME LoopInv, SnapshotFresh, NEW c \in Configs,
           \/ StartCreate(c) \/ FinishCreate(c) \/ StartTimer(c)
           \/ Sample(Timer(c)) \/ Compute(Timer(c))
           \/ Report(Timer(c)) \/ ReportForecast(Timer(c)) \/ WriteStatus(c)
    PROVE  SnapshotFresh'
<1>1. Creator(c) \in Handlers /\ Timer(c) \in Handlers
  BY HandlerNames
<1>2. CASE StartCreate(c)
  <2>1. fresh' \subseteq fresh \ {Creator(c)} /\ so' = so
    BY <1>2, NotFresh DEF StartCreate
  <2>2. OthersKept(Creator(c))
    BY <1>1, <1>2, MovesOthersKept DEF StartCreate
  <2>. QED BY <1>1, <2>1, <2>2, FreshKept
<1>3. CASE FinishCreate(c)
  <2>1. OthersKept(Creator(c)) /\ fresh' \subseteq fresh \ {Creator(c)} /\ so' = so
    BY <1>1, <1>3, MovesOthersKept DEF FinishCreate, Leave
  <2>. QED BY <1>1, <2>1, FreshKept
<1>4. CASE StartTimer(c)
  <2>1. OthersKept(Timer(c)) /\ fresh' \subseteq fresh \ {Timer(c)} /\ so' = so
    BY <1>1, <1>4, MovesOthersKept, NotFresh DEF StartTimer
  <2>. QED BY <1>1, <2>1, FreshKept
<1>5. CASE Sample(Timer(c))
  <2>1. fresh' \subseteq fresh \ {Timer(c)} /\ so' = so
    BY <1>5, NotFresh DEF Sample, Leave
  <2>2. OthersKept(Timer(c))
    BY <1>1, <1>5, MovesOthersKept, IterateOthersKept DEF Sample, Leave
  <2>. QED BY <1>1, <2>1, <2>2, FreshKept
<1>6. CASE Compute(Timer(c))
  <2>1. fresh' \subseteq fresh \ {Timer(c)} /\ so' = so
    BY <1>6, NotFresh DEF Compute, Leave
  <2>2. OthersKept(Timer(c))
    BY <1>1, <1>6, MovesOthersKept DEF Compute, Leave
  <2>. QED BY <1>1, <2>1, <2>2, FreshKept
<1>7. CASE Report(Timer(c)) \/ ReportForecast(Timer(c))
  <2>1. fresh' \subseteq fresh \ {Timer(c)} /\ so' = so
    BY <1>7, NotFresh DEF Report, ReportForecast
  <2>2. OthersKept(Timer(c))
    BY <1>1, <1>7, MovesOthersKept DEF Report, ReportForecast
  <2>. QED BY <1>1, <2>1, <2>2, FreshKept
<1>8. CASE WriteStatus(c)
  <2>1. OthersKept(Timer(c)) /\ fresh' \subseteq fresh \ {Timer(c)} /\ so' = so
    BY <1>1, <1>8, MovesOthersKept DEF WriteStatus, Leave
  <2>. QED BY <1>1, <2>1, FreshKept
<1>. QED BY <1>2, <1>3, <1>4, <1>5, <1>6, <1>7, <1>8

LEMMA EnvironmentFresh ==
    ASSUME LoopInv, SnapshotFresh, Environment
    PROVE  SnapshotFresh'
<1>1. CASE Crash
  BY <1>1 DEF Crash, SnapshotFresh
<1>2. ASSUME NEW p \in Handlers, CallFails(p) PROVE SnapshotFresh'
  <2>1. OthersKept(p) /\ fresh' \subseteq fresh \ {p} /\ so' = so
    BY <1>2, MovesOthersKept DEF CallFails, Leave
  <2>. QED BY <2>1, FreshKept
<1>3. ASSUME NEW p \in Handlers, AnswerLost(p) PROVE SnapshotFresh'
  <2>1. pc[p] = "patch" /\ Store(p) /\ OthersKept(p)
    BY <1>3, MovesOthersKept DEF AnswerLost
  <2>. QED BY <2>1, StoreFresh
<1>4. ASSUME NEW c \in Configs,
             CreateConfig(c) \/ EditConfig(c) \/ DeleteConfig(c)
      PROVE  SnapshotFresh'
  BY <1>4 DEF CreateConfig, EditConfig, DeleteConfig, SnapshotFresh, Object, Refs
<1>5. ASSUME NEW o \in Objects, NEW new, WriteObject(o, new)
      PROVE  SnapshotFresh'
  <2>1. ASSUME NEW q \in fresh' PROVE so'[Object(q)] = so[Object(q)]
    BY <1>5 DEF WriteObject, LoopInv, ConfigsOK, TypeOK
  <2>2. /\ fresh' \subseteq fresh /\ UNCHANGED <<pc, local>>
    BY <1>5 DEF WriteObject
  <2>. QED BY <2>1, <2>2 DEF SnapshotFresh, Object, Refs
<1>. QED BY <1>1, <1>2, <1>3, <1>4, <1>5, ObjectEdits DEF Environment

LEMMA NextFresh == LoopInv /\ SnapshotFresh /\ [Next]_vars => SnapshotFresh'
<1>. SUFFICES ASSUME LoopInv, SnapshotFresh, [Next]_vars PROVE SnapshotFresh'
  OBVIOUS
<1>1. ASSUME NEW c \in Configs, CreateStep(c) PROVE SnapshotFresh'
  BY <1>1, HandlerNames, LocalStepFresh, GetFresh, PatchFresh DEF CreateStep
<1>2. ASSUME NEW c \in Configs, TimerStep(c) PROVE SnapshotFresh'
  BY <1>2, HandlerNames, LocalStepFresh, GetFresh, PatchFresh DEF TimerStep
<1>3. ASSUME NEW c \in Configs, RemoveConfig(c) PROVE SnapshotFresh'
  BY <1>3 DEF RemoveConfig, SnapshotFresh, Object, Refs
<1>4. ASSUME Environment PROVE SnapshotFresh'
  BY <1>4, EnvironmentFresh
<1>5. CASE UNCHANGED vars
  BY <1>5 DEF vars, SnapshotFresh, Object, Refs
<1>. QED BY <1>1, <1>2, <1>3, <1>4, <1>5 DEF Next

\* A copy that the API server would accept is the object as it is now, for
\* every number of handlers, users and faults.
THEOREM FreshCopies == Spec => []SnapshotFresh
<1>1. Init => SnapshotFresh
  BY DEF Init, SnapshotFresh
<1>. QED BY <1>1, NextFresh, LoopInvariant, PTL DEF Spec

(***************************************************************************)
(* What a handler writes.                                                  *)
(***************************************************************************)
LEMMA StepOthersKept ==
    ASSUME LoopInv, NEW c \in Configs
    PROVE  /\ CreateStep(c) => OthersKept(Creator(c))
           /\ TimerStep(c) => OthersKept(Timer(c))
<1>. Creator(c) \in Handlers /\ Timer(c) \in Handlers
  BY HandlerNames
<1>1. ASSUME NEW p \in Handlers, Get(p) \/ Patch(p) PROVE OthersKept(p)
  BY <1>1, MovesOthersKept, IterateOthersKept DEF Get, Patch, Leave
<1>2. ASSUME NEW p \in Handlers, Sample(p) \/ Compute(p) PROVE OthersKept(p)
  BY <1>2, MovesOthersKept, IterateOthersKept DEF Sample, Compute, Leave
<1>3. ASSUME NEW p \in Handlers, Report(p) \/ ReportForecast(p)
      PROVE  OthersKept(p)
  BY <1>3, MovesOthersKept DEF Report, ReportForecast
<1>4. StartCreate(c) \/ FinishCreate(c) => OthersKept(Creator(c))
  BY MovesOthersKept DEF StartCreate, FinishCreate, Leave
<1>5. StartTimer(c) \/ WriteStatus(c) => OthersKept(Timer(c))
  BY MovesOthersKept DEF StartTimer, WriteStatus, Leave
<1>. QED BY <1>1, <1>2, <1>3, <1>4, <1>5 DEF CreateStep, TimerStep

\* A ScaledObject that handler p changes was read by p as it is.
LEMMA WroteStores ==
    ASSUME LoopInv, [Next]_vars, NEW p \in Handlers, NEW o \in Objects,
           Wrote(p, o)
    PROVE  p \in fresh /\ Store(p)
<1>1. ASSUME NEW c \in Configs, CreateStep(c) PROVE p \in fresh /\ Store(p)
  <2>1. p = Creator(c)
    BY <1>1, StepOthersKept DEF OthersKept, Wrote
  <2>2. Patch(p)
    BY <1>1, <2>1 DEF CreateStep, Wrote, StartCreate, Get, FinishCreate
  <2>. QED BY <2>2 DEF Patch, Accepted, Wrote
<1>2. ASSUME NEW c \in Configs, TimerStep(c) PROVE p \in fresh /\ Store(p)
  <2>1. p = Timer(c)
    BY <1>2, StepOthersKept DEF OthersKept, Wrote
  <2>2. Patch(p)
    BY <1>2, <2>1
    DEF TimerStep, Wrote, StartTimer, Sample, Compute, Get, Report,
        ReportForecast, WriteStatus
  <2>. QED BY <2>2 DEF Patch, Accepted, Wrote
<1>3. ASSUME NEW q \in Handlers, AnswerLost(q) PROVE p \in fresh /\ Store(p)
  <2>1. p = q
    BY <1>3, MovesOthersKept DEF AnswerLost, OthersKept, Wrote
  <2>. QED BY <1>3, <2>1 DEF AnswerLost, Accepted
<1>4. so' = so \/ pc' = pc => FALSE
  BY DEF Wrote
<1>. QED BY <1>1, <1>2, <1>3, <1>4
  DEF Next, Environment, RemoveConfig, Crash, CallFails, CreateConfig, EditConfig,
      DeleteConfig, EditObject, DeleteObject, CreateObject, WriteObject, vars

LEMMA WroteOverCurrent ==
    ASSUME LoopInv, SnapshotFresh, [Next]_vars,
           NEW p \in Handlers, NEW o \in Objects, Wrote(p, o)
    PROVE  /\ so[o] \in ScaledObject /\ so[o] # None
           /\ so'[o] = [so[o] EXCEPT !.max = NewMax(p)]
           /\ local[p].snap = so[o]
<1>1. p \in fresh /\ Store(p) /\ Object(p) = o /\ pc[p] = "patch"
  BY WroteStores DEF Wrote
<1>2. local[p].snap = so[o] /\ local[p].snap \in ScaledObject
  BY <1>1 DEF SnapshotFresh, LoopInv, HandlersOK, HandlerOK
<1>3. so'[o] = Patched(p)
  BY <1>1 DEF Store, LoopInv, ConfigsOK, TypeOK
<1>. QED BY <1>2, <1>3, LoopAssumption DEF Patched

\* No handler undoes a concurrent change of a ScaledObject, whatever the
\* configs, objects and users do between its read and its patch.
THEOREM NoUpdateLost == Spec => NoLostUpdate
<1>1. LoopInv /\ SnapshotFresh /\ [Next]_vars =>
        [\A p \in Handlers, o \in Objects :
            Wrote(p, o) => /\ so[o] # None
                           /\ so'[o].target = so[o].target]_vars
  <2>1. ASSUME LoopInv, SnapshotFresh, [Next]_vars,
               NEW p \in Handlers, NEW o \in Objects, Wrote(p, o)
        PROVE  so[o] # None /\ so'[o].target = so[o].target
    <3>1. /\ so[o] \in ScaledObject /\ so[o] # None
          /\ so'[o] = [so[o] EXCEPT !.max = NewMax(p)]
      BY <2>1, WroteOverCurrent
    <3>. QED BY <3>1 DEF ScaledObject
  <2>. QED BY <2>1
<1>. QED BY <1>1, LoopInvariant, FreshCopies, PTL DEF Spec, NoLostUpdate

\* The bound that a pass computed is the largest multiple of the reading within
\* its limit, or one.
LEMMA CapsBounded ==
    ASSUME NEW l \in Locals, CapsOf(l), l.spec.limit \in Nat,
           NEW d \in Deployments
    PROVE  Bounded(CapFor(l.caps, d), l.power[d], l.spec.limit)
<1>. DEFINE w == l.power[d]
<1>1. w \in Nat \cup {None}
  BY DEF Locals
<1>2. CASE w # None /\ SomePower(l.power)
  <2>1. w \in Nat \ {0}
    BY <1>1, <1>2 DEF CapsOf, StrategyRaises, Sampled
  <2>2. l.caps[d] = Truncate(l.spec.limit, w)
    BY <1>2 DEF CapsOf, StrategyCaps
  <2>3. CapFor(l.caps, d) = Truncate(l.spec.limit, w)
    BY <2>1, <2>2, TruncateInt, NoneAssumption DEF CapFor
  <2>4. w # 0 /\ w # None
    BY <2>1, <1>2
  <2>5. /\ w * Truncate(l.spec.limit, w) <= l.spec.limit
        /\ l.spec.limit < w * (Truncate(l.spec.limit, w) + 1)
    BY <2>1, TruncateLargest
  <2>. QED BY <2>3, <2>4, <2>5 DEF Bounded
<1>3. CASE w = None \/ ~SomePower(l.power)
  <2>1. l.caps[d] = None
    BY <1>3 DEF CapsOf, StrategyCaps, NoReading
  <2>2. w = None \/ w = 0
    BY <1>1, <1>3 DEF SomePower, Sampled
  <2>. QED BY <2>1, <2>2 DEF CapFor, Bounded
<1>. QED BY <1>2, <1>3

\* For every limit and every reading, each bound the timer writes is the pass's
\* limit divided by its reading of the deployment that the object scales.
THEOREM PatchesWithinCap == Spec => PatchWithinCap
<1>1. LoopInv /\ SnapshotFresh /\ [Next]_vars =>
        [\A c \in Configs, o \in Objects :
            LET l == local[Timer(c)] IN
            Wrote(Timer(c), o) /\ l.spec.limit \in Nat
               => Bounded(so'[o].max, l.power[so'[o].target], l.spec.limit)]_vars
  <2>1. ASSUME LoopInv, SnapshotFresh, [Next]_vars,
               NEW c \in Configs, NEW o \in Objects,
               Wrote(Timer(c), o), local[Timer(c)].spec.limit \in Nat
        PROVE  Bounded(so'[o].max, local[Timer(c)].power[so'[o].target],
                       local[Timer(c)].spec.limit)
    <3>. DEFINE p == Timer(c)
    <3>1. p \in Handlers /\ p[2] = "timer"
      BY HandlerNames
    <3>2. local[p] \in Locals /\ CapsOf(local[p])
      BY <2>1, <3>1 DEF Wrote, LoopInv, HandlersOK, HandlerOK
    <3>3. /\ so[o] \in ScaledObject /\ local[p].snap = so[o]
          /\ so'[o] = [so[o] EXCEPT !.max = NewMax(p)]
      BY <2>1, <3>1, WroteOverCurrent
    <3>4. /\ so'[o].target = so[o].target /\ so[o].target \in Deployments
          /\ so'[o].max = CapFor(local[p].caps, so[o].target)
      BY <3>1, <3>3 DEF NewMax, ScaledObject
    <3>. QED BY <2>1, <3>2, <3>4, CapsBounded
  <2>. QED BY <2>1
<1>. QED BY <1>1, LoopInvariant, FreshCopies, PTL DEF Spec, PatchWithinCap

(***************************************************************************)
(* The gauges, for one config: two timers may mix their passes.            *)
(***************************************************************************)
OneConfig == \A c, e \in Configs : c = e

\* The two gauges of a deployment are of one pass.
WholePair(g) ==
    /\ g.power = None <=> g.forecast = None
    /\ g.power = 0 => g.forecast = 0
    /\ g.power \in Nat \ {0} => g.forecast % g.power = 0

Forecasting(c) == pc[Timer(c)] = "forecast"

\* Between its two loops a timer has set the power gauge of the deployments it
\* has sampled, and left those of the others whole.
GaugeInv ==
    /\ (\A c \in Configs : ~Forecasting(c)) =>
          \A d \in Deployments : WholePair(gauge[d])
    /\ \A c \in Configs : Forecasting(c) =>
          \A d \in Deployments :
             IF local[Timer(c)].power[d] = None
             THEN WholePair(gauge[d])
             ELSE gauge[d].power = local[Timer(c)].power[d]

LEMMA WholeMultiple ==
    ASSUME NEW w \in Nat \ {0}, NEW m \in Int
    PROVE  (w * m) % w = 0
OBVIOUS

\* What a timer sets in its second loop goes with what it set in its first.
LEMMA ForecastWhole ==
    ASSUME NEW l \in Locals, NEW d \in Deployments, l.power[d] # None
    PROVE  /\ Forecast(l.power, l.caps)[d] \in Int
           /\ WholePair([power |-> l.power[d],
                         forecast |-> Forecast(l.power, l.caps)[d]])
<1>. DEFINE w == l.power[d]
            m == CapFor(l.caps, d)
<1>1. w \in Nat
  BY DEF Locals
<1>2. m \in Int
  BY CapForType DEF Locals
<1>3. Forecast(l.power, l.caps)[d] = w * m
  BY DEF Forecast
<1>4. w * m \in Int /\ (w = 0 => w * m = 0)
  BY <1>1, <1>2
<1>5. w # 0 => (w * m) % w = 0
  BY <1>1, <1>2, WholeMultiple
<1>. QED BY <1>1, <1>3, <1>4, <1>5, NoneAssumption DEF WholePair

\* A step that leaves the gauges alone, and every timer that stands between
\* its two loops.
LEMMA GaugeKept ==
    ASSUME GaugeInv, gauge' = gauge,
           \A c \in Configs : /\ Forecasting(c)' <=> Forecasting(c)
                              /\ Forecasting(c) => local'[Timer(c)] = local[Timer(c)]
    PROVE  GaugeInv'
BY DEF GaugeInv

\* A step of a handler that is not between the two loops, before or after.
LEMMA HandlerGaugeKept ==
    ASSUME GaugeInv, gauge' = gauge, NEW p \in Handlers, OthersKept(p),
           pc[p] # "forecast", pc'[p] # "forecast"
    PROVE  GaugeInv'
BY HandlerNames, GaugeKept DEF OthersKept, Forecasting

LEMMA ReportGauges ==
    ASSUME LoopInv, OneConfig, GaugeInv, NEW c \in Configs, Report(Timer(c))
    PROVE  GaugeInv'
<1>. DEFINE l == local[Timer(c)]
<1>1. Timer(c) \in Handlers /\ \A e \in Configs : e = c
  BY HandlerNames DEF OneConfig
<1>2. Forecasting(c)' /\ local' = local /\ ~Forecasting(c)
  BY <1>1 DEF Report, Forecasting, LoopInv, HandlersOK
<1>3. \A d \in Deployments : WholePair(gauge[d])
  BY <1>1, <1>2 DEF GaugeInv
<1>4. ASSUME NEW d \in Deployments
      PROVE  IF l.power[d] = None THEN WholePair(gauge'[d])
                                  ELSE gauge'[d].power = l.power[d]
  <2>1. gauge[d] \in [power : Nat \cup {None}, forecast : Int \cup {None}]
    BY DEF LoopInv, ConfigsOK, TypeOK
  <2>. QED BY <1>3, <2>1 DEF Report, Sampled
<1>. QED BY <1>1, <1>2, <1>4 DEF GaugeInv

LEMMA ForecastGauges ==
    ASSUME LoopInv, OneConfig, GaugeInv, NEW c \in Configs, ReportForecast(Timer(c))
    PROVE  GaugeInv'
<1>. DEFINE l == local[Timer(c)]
            forecast == Forecast(l.power, l.caps)
<1>1. Timer(c) \in Handlers /\ \A e \in Configs : e = c
  BY HandlerNames DEF OneConfig
<1>2. ~Forecasting(c)' /\ Forecasting(c) /\ l \in Locals
  BY <1>1 DEF ReportForecast, Forecasting, LoopInv, HandlersOK
<1>3. ASSUME NEW d \in Deployments PROVE WholePair(gauge'[d])
  <2>1. gauge[d] \in [power : Nat \cup {None}, forecast : Int \cup {None}]
    BY DEF LoopInv, ConfigsOK, TypeOK
  <2>2. gauge'[d] = IF forecast[d] # None
                    THEN [gauge[d] EXCEPT !.forecast = forecast[d]] ELSE gauge[d]
    BY DEF ReportForecast
  <2>3. CASE l.power[d] = None
    <3>1. forecast[d] = None
      BY <2>3 DEF Forecast
    <3>. QED BY <1>2, <2>2, <2>3, <3>1 DEF GaugeInv
  <2>4. CASE l.power[d] # None
    <3>1. /\ forecast[d] \in Int
          /\ WholePair([power |-> l.power[d], forecast |-> forecast[d]])
      BY <1>2, <2>4, ForecastWhole
    <3>2. gauge[d].power = l.power[d]
      BY <1>2, <2>4 DEF GaugeInv
    <3>3. gauge'[d] = [power |-> l.power[d], forecast |-> forecast[d]]
      BY <2>1, <2>2, <3>1, <3>2, NoneAssumption
    <3>. QED BY <3>1, <3>3
  <2>. QED BY <2>3, <2>4
<1>. QED BY <1>1, <1>2, <1>3 DEF GaugeInv

LEMMA CallsGauges ==
    ASSUME LoopInv, GaugeInv, NEW p \in Handlers, Get(p) \/ Patch(p)
    PROVE  GaugeInv'
<1>1. OthersKept(p)
  BY MovesOthersKept, IterateOthersKept DEF Get, Patch, Leave
<1>2. pc \in [Handlers -> Points]
  BY DEF LoopInv, HandlersOK
<1>3. pc[p] # "forecast" /\ pc'[p] # "forecast" /\ gauge' = gauge
  BY <1>2 DEF Get, Patch, Leave, Iterate
<1>. QED BY <1>1, <1>3, HandlerGaugeKept

LEMMA StepGauges ==
    ASSUME LoopInv, OneConfig, GaugeInv, NEW c \in Configs,
           CreateStep(c) \/ TimerStep(c)
    PROVE  GaugeInv'
<1>. DEFINE p == Timer(c)
            q == Creator(c)
<1>1. p \in Handlers /\ q \in Handlers /\ pc \in [Handlers -> Points]
  BY HandlerNames DEF LoopInv, HandlersOK
<1>2. CASE StartCreate(c) \/ FinishCreate(c)
  <2>1. OthersKept(q)
    BY <1>2, StepOthersKept DEF CreateStep
  <2>2. pc[q] # "forecast" /\ pc'[q] # "forecast" /\ gauge' = gauge
    BY <1>1, <1>2 DEF StartCreate, FinishCreate, Leave, LoopOr
  <2>. QED BY <1>1, <2>1, <2>2, HandlerGaugeKept
<1>3. CASE StartTimer(c) \/ Sample(p) \/ Compute(p) \/ WriteStatus(c)
  <2>1. OthersKept(p)
    BY <1>3, StepOthersKept DEF TimerStep
  <2>2. pc[p] # "forecast" /\ pc'[p] # "forecast" /\ gauge' = gauge
    BY <1>1, <1>3
    DEF StartTimer, Sample, Compute, WriteStatus, Leave, Iterate, LoopOr
  <2>. QED BY <1>1, <2>1, <2>2, HandlerGaugeKept
<1>. QED BY <1>1, <1>2, <1>3, CallsGauges, ReportGauges, ForecastGauges
         DEF CreateStep, TimerStep

LEMMA RemoveGauges ==
    ASSUME LoopInv, GaugeInv, NEW c \in Configs, RemoveConfig(c)
    PROVE  GaugeInv'
BY GaugeKept DEF RemoveConfig, Forecasting

LEMMA EnvironmentGauges ==
    ASSUME LoopInv, GaugeInv, Environment
    PROVE  GaugeInv'
<1>1. CASE Crash
  <2>1. \A d \in Deployments : WholePair(gauge'[d])
    BY <1>1 DEF Crash, NoGauge, WholePair
  <2>2. \A c \in Configs : ~Forecasting(c)'
    BY <1>1, HandlerNames DEF Crash, Forecasting
  <2>. QED BY <2>1, <2>2 DEF GaugeInv
<1>2. ASSUME NEW p \in Handlers, CallFails(p) \/ AnswerLost(p) PROVE GaugeInv'
  <2>1. OthersKept(p)
    BY <1>2, MovesOthersKept DEF CallFails, AnswerLost, Leave
  <2>2. pc[p] # "forecast" /\ pc'[p] # "forecast" /\ gauge' = gauge
    BY <1>2 DEF CallFails, AnswerLost, Leave, LoopInv, HandlersOK
  <2>. QED BY <2>1, <2>2, HandlerGaugeKept
<1>3. UNCHANGED <<pc, local, gauge>> => GaugeInv'
  BY GaugeKept DEF Forecasting
<1>. QED BY <1>1, <1>2, <1>3
         DEF Environment, CreateConfig, EditConfig, DeleteConfig, EditObject,
             DeleteObject, CreateObject, WriteObject

\* With one config, the power and the forecast gauge of a deployment are of one
\* pass whenever no timer stands between the loops that set them.
THEOREM GaugesTogether == Spec /\ OneConfig => []GaugesOfOnePass
<1>1. Init => GaugeInv
  <2>. SUFFICES ASSUME Init PROVE GaugeInv
    OBVIOUS
  <2>1. \A d \in Deployments : WholePair(gauge[d])
    <3>1. \A d \in Deployments : gauge[d] = NoGauge
      BY DEF Init
    <3>2. WholePair(NoGauge)
      BY NoneAssumption DEF NoGauge, WholePair
    <3>. QED BY <3>1, <3>2
  <2>2. \A c \in Configs : ~Forecasting(c)
    BY HandlerNames DEF Init, Forecasting
  <2>. QED BY <2>1, <2>2 DEF GaugeInv
<1>2. LoopInv /\ OneConfig /\ GaugeInv /\ [Next]_vars => GaugeInv'
  <2>. SUFFICES ASSUME LoopInv, OneConfig, GaugeInv, [Next]_vars PROVE GaugeInv'
    OBVIOUS
  <2>1. UNCHANGED vars => GaugeInv'
    BY GaugeKept DEF vars, Forecasting
  <2>. QED BY <2>1, StepGauges, RemoveGauges, EnvironmentGauges DEF Next
<1>3. OneConfig => OneConfig'
  BY DEF OneConfig
<1>4. GaugeInv => GaugesOfOnePass
  BY DEF GaugeInv, GaugesOfOnePass, WholePair, Forecasting
<1>. QED BY <1>1, <1>2, <1>3, <1>4, LoopInvariant, PTL DEF Spec

(***************************************************************************)
(* Sums.  Total folds a function over a set; its recursion is a choice of  *)
(* a function on all subsets, so it has to be shown that there is one.     *)
(* Both inductions are on the number of elements, by a least exception.    *)
(***************************************************************************)
\* A set of naturals has a least element: how the two inductions below are done.
LEMMA NatMin ==
    ASSUME NEW B, B \subseteq Nat, B # {}
    PROVE  \E n \in B : \A m \in B : ~(m < n)
<1>1. \E n \in B : \A m \in B : ~(<<m, n>> \in OpToRel(<, Nat))
  BY WFMin, NatLessThanWellFounded, Zenon
<1>. QED BY <1>1, Zenon DEF OpToRel

\* One unfolding of the sum, over what is summed up already.
Unfolded(f, h, s) == IF s = {} THEN 0
                     ELSE LET x == CHOOSE x \in s : TRUE IN f[x] + h[s \ {x}]

LEMMA SumIs ==
    ASSUME NEW f, NEW S
    PROVE  SumFunctionOnSet(f, S)
             = (CHOOSE h : h = [s \in SUBSET S |-> Unfolded(f, h, s)])[S]
BY Zenon DEF SumFunctionOnSet, FoldFunctionOnSet, MapThenFoldSet, Unfolded

\* h is the recursion's function as far as the sets of at most n elements.
UnfoldsUpTo(f, S, h, n) ==
    /\ h = [s \in SUBSET S |-> h[s]]
    /\ \A s \in SUBSET S : Cardinality(s) <= n => h[s] = Unfolded(f, h, s)

\* What is left of a set without the element that is taken first.
LEMMA Rest ==
    ASSUME NEW S, IsFiniteSet(S), NEW s \in SUBSET S, s # {}
    PROVE  LET x == CHOOSE x \in s : TRUE IN
           /\ x \in s /\ s \ {x} \in SUBSET S
           /\ Cardinality(s) \in Nat /\ Cardinality(s \ {x}) \in Nat
           /\ Cardinality(s) = Cardinality(s \ {x}) + 1
<1>. DEFINE x == CHOOSE x \in s : TRUE
<1>1. x \in s
  OBVIOUS
<1>. HIDE DEF x
<1>2. IsFiniteSet(s) /\ IsFiniteSet(s \ {x})
  BY FS_Subset
<1>3. Cardinality(s) \in Nat /\ Cardinality(s \ {x}) \in Nat
  BY <1>2, FS_CardinalityType
<1>4. Cardinality(s \ {x}) = Cardinality(s) - 1
  BY <1>1, <1>2, FS_RemoveElement
<1>5. Cardinality(s) = Cardinality(s \ {x}) + 1
  BY <1>3, <1>4
<1>. QED BY <1>1, <1>3, <1>5 DEF x

LEMMA UnfoldsZero ==
    ASSUME NEW f, NEW S, IsFiniteSet(S)
    PROVE  \E h : UnfoldsUpTo(f, S, h, 0)
<1>. DEFINE h == [s \in SUBSET S |-> 0]
<1>1. ASSUME NEW s \in SUBSET S, Cardinality(s) <= 0 PROVE h[s] = Unfolded(f, h, s)
  <2>1. s = {}
    <3>1. IsFiniteSet(s)
      BY FS_Subset
    <3>2. Cardinality(s) = 0
      BY <1>1, <3>1, FS_CardinalityType
    <3>. QED BY <3>1, <3>2, FS_EmptySet
  <2>. QED BY <2>1 DEF Unfolded
<1>. QED BY <1>1 DEF UnfoldsUpTo

LEMMA UnfoldsNext ==
    ASSUME NEW f, NEW S, IsFiniteSet(S), NEW n \in Nat, NEW h, UnfoldsUpTo(f, S, h, n)
    PROVE  \E g : UnfoldsUpTo(f, S, g, n + 1)
<1>. DEFINE g == [s \in SUBSET S |-> IF Cardinality(s) = n + 1 THEN Unfolded(f, h, s)
                                                              ELSE h[s]]
<1>1. ASSUME NEW s \in SUBSET S, Cardinality(s) <= n + 1 PROVE g[s] = Unfolded(f, g, s)
  <2>1. CASE s = {}
    <3>1. Cardinality(s) = 0
      BY <2>1, FS_EmptySet
    <3>2. Cardinality(s) # n + 1 /\ Cardinality(s) <= n
      BY <3>1
    <3>3. g[s] = h[s] /\ h[s] = Unfolded(f, h, s)
      BY <3>2 DEF UnfoldsUpTo
    <3>. QED BY <2>1, <3>3 DEF Unfolded
  <2>2. CASE s # {}
    <3>. DEFINE x == CHOOSE x \in s : TRUE
    <3>1. /\ x \in s /\ s \ {x} \in SUBSET S
          /\ Cardinality(s) \in Nat /\ Cardinality(s \ {x}) \in Nat
          /\ Cardinality(s) = Cardinality(s \ {x}) + 1
      BY <2>2, Rest
    <3>. HIDE DEF x
    <3>2. Cardinality(s \ {x}) # n + 1
      BY <1>1, <3>1
    <3>3. g[s \ {x}] = h[s \ {x}]
      BY <3>1, <3>2
    <3>4. g[s] = Unfolded(f, h, s)
      <4>1. Cardinality(s) = n + 1 \/ Cardinality(s) <= n
        BY <1>1, <3>1
      <4>. QED BY <4>1 DEF UnfoldsUpTo
    <3>. QED BY <2>2, <3>3, <3>4 DEF Unfolded, x
  <2>. QED BY <2>1, <2>2
<1>2. g = [s \in SUBSET S |-> g[s]]
  OBVIOUS
<1>. QED BY <1>1, <1>2 DEF UnfoldsUpTo

\* The recursion has a function, and the sum is that function's value.
LEMMA SumUnfolds ==
    ASSUME NEW f, NEW S, IsFiniteSet(S)
    PROVE  \E h : /\ h = [s \in SUBSET S |-> Unfolded(f, h, s)]
                  /\ SumFunctionOnSet(f, S) = h[S]
<1>. DEFINE B == {n \in Nat : ~\E h : UnfoldsUpTo(f, S, h, n)}
<1>1. B = {}
  <2>. SUFFICES ASSUME B # {} PROVE FALSE
    OBVIOUS
  <2>1. PICK n \in B : \A m \in B : ~(m < n)
    <3>. HIDE DEF B
    <3>1. B \subseteq Nat
      BY DEF B
    <3>. QED BY <3>1, NatMin
  <2>2. n # 0
    BY UnfoldsZero
  <2>3. n - 1 \in Nat /\ n - 1 < n /\ (n - 1) + 1 = n
    BY <2>2
  <2>4. n - 1 \notin B
    BY <2>1, <2>3
  <2>5. PICK h : UnfoldsUpTo(f, S, h, n - 1)
    BY <2>3, <2>4
  <2>6. \E g : UnfoldsUpTo(f, S, g, (n - 1) + 1)
    BY <2>3, <2>5, UnfoldsNext
  <2>. QED BY <2>3, <2>6
<1>2. Cardinality(S) \in Nat
  BY FS_CardinalityType
<1>3. PICK h : UnfoldsUpTo(f, S, h, Cardinality(S))
  BY <1>1, <1>2
<1>4. \A s \in SUBSET S : Cardinality(s) <= Cardinality(S)
  BY FS_Subset
<1>5. h = [s \in SUBSET S |-> Unfolded(f, h, s)]
  BY <1>3, <1>4 DEF UnfoldsUpTo
<1>. DEFINE sum == CHOOSE h2 : h2 = [s \in SUBSET S |-> Unfolded(f, h2, s)]
<1>6. sum = [s \in SUBSET S |-> Unfolded(f, sum, s)]
  BY <1>5
<1>7. SumFunctionOnSet(f, S) = sum[S]
  BY SumIs
<1>. QED BY <1>6, <1>7

\* A sum of integers is at most the largest one, once for each.
LEMMA SumBound ==
    ASSUME NEW S, IsFiniteSet(S), NEW f, NEW limit \in Int,
           \A d \in S : f[d] \in Int /\ f[d] <= limit
    PROVE  SumFunctionOnSet(f, S) <= limit * Cardinality(S)
<1>1. PICK h : /\ h = [s \in SUBSET S |-> Unfolded(f, h, s)]
               /\ SumFunctionOnSet(f, S) = h[S]
  BY SumUnfolds
<1>. DEFINE Within(s) == h[s] \in Int /\ h[s] <= limit * Cardinality(s)
            B == {n \in Nat : \E s \in SUBSET S : Cardinality(s) = n /\ ~Within(s)}
<1>2. B = {}
  <2>. SUFFICES ASSUME B # {} PROVE FALSE
    OBVIOUS
  <2>1. PICK n \in B : \A m \in B : ~(m < n)
    <3>. HIDE DEF B
    <3>1. B \subseteq Nat
      BY DEF B
    <3>. QED BY <3>1, NatMin
  <2>2. PICK s \in SUBSET S : Cardinality(s) = n /\ ~Within(s)
    OBVIOUS
  <2>3. h[s] = Unfolded(f, h, s)
    BY <1>1
  <2>4. s # {}
    <3>. SUFFICES ASSUME s = {} PROVE FALSE
      OBVIOUS
    <3>1. h[s] = 0 /\ Cardinality(s) = 0
      BY <2>3, FS_EmptySet DEF Unfolded
    <3>. QED BY <2>2, <3>1
  <2>. DEFINE x == CHOOSE x \in s : TRUE
              r == s \ {x}
  <2>5. /\ x \in s /\ r \in SUBSET S
        /\ Cardinality(s) \in Nat /\ Cardinality(r) \in Nat
        /\ Cardinality(s) = Cardinality(r) + 1
    BY <2>4, Rest
  <2>6. h[s] = f[x] + h[r]
    BY <2>3, <2>4 DEF Unfolded
  <2>. HIDE DEF x, r
  <2>7. Within(r)
    <3>1. Cardinality(r) < n
      BY <2>2, <2>5
    <3>2. Cardinality(r) \notin B
      BY <2>1, <3>1
    <3>. QED BY <2>5, <3>2
  <2>8. f[x] \in Int /\ f[x] <= limit
    BY <2>5
  <2>9. limit * Cardinality(s) = limit * Cardinality(r) + limit
    BY <2>5
  <2>10. Within(s)
    BY <2>5, <2>6, <2>7, <2>8, <2>9
  <2>. QED BY <2>2, <2>10
<1>3. Cardinality(S) \in Nat
  BY FS_CardinalityType
<1>. QED BY <1>1, <1>2, <1>3

(***************************************************************************)
(* The status.                                                             *)
(***************************************************************************)
\* Only the timer of a config writes its status, and RemoveConfig clears it,
\* which waits for the timer to be idle.
LEMMA StatusWritten ==
    ASSUME LoopInv, [Next]_vars, NEW c \in Configs,
           pc[Timer(c)] = "status", status'[c] # status[c]
    PROVE  WriteStatus(c)
<1>1. status \in [Configs -> Status \cup {None}]
  BY DEF LoopInv, ConfigsOK, TypeOK
<1>2. ASSUME NEW e \in Configs, CreateStep(e) \/ TimerStep(e) \/ RemoveConfig(e)
      PROVE  WriteStatus(c)
  <2>1. CASE RemoveConfig(e)
    BY <1>1, <2>1 DEF RemoveConfig, Quiet
  <2>2. CASE WriteStatus(e)
    BY <1>1, <2>2 DEF WriteStatus
  <2>3. CASE CreateStep(e) \/ (TimerStep(e) /\ ~WriteStatus(e))
    BY <2>3 DEF CreateStep, TimerStep, StartCreate, Get, Patch, FinishCreate, StartTimer,
       Sample, Compute, Report, ReportForecast, config
  <2>. QED BY <1>2, <2>1, <2>2, <2>3
<1>3. CASE Environment
  BY <1>3 DEF Environment, Crash, CallFails, AnswerLost, CreateConfig, EditConfig,
     DeleteConfig, EditObject, DeleteObject, CreateObject, WriteObject, config
<1>4. CASE UNCHANGED vars
  BY <1>4 DEF vars
<1>. QED BY <1>2, <1>3, <1>4 DEF Next

\* Each deployment's share of the forecast is within the limit.
LEMMA ShareWithin ==
    ASSUME NEW l \in Locals, CapsOf(l), l.spec.limit \in Nat,
           NEW d \in Deployments, l.power[d] # None
    PROVE  /\ Forecast(l.power, l.caps)[d] \in Int
           /\ Forecast(l.power, l.caps)[d] <= l.spec.limit
<1>. DEFINE w == l.power[d]
            m == CapFor(l.caps, d)
<1>1. Forecast(l.power, l.caps)[d] \in Int
  BY ForecastWhole
<1>2. Forecast(l.power, l.caps)[d] = w * m
  BY DEF Forecast
<1>3. w \in Nat /\ m \in Int
  BY CapForType DEF Locals
<1>4. Bounded(m, w, l.spec.limit)
  BY CapsBounded
<1>5. w * m <= l.spec.limit
  <2>1. CASE w = 0
    BY <1>3, <2>1
  <2>2. CASE w # 0
    BY <1>3, <1>4, <2>2 DEF Bounded
  <2>. QED BY <2>1, <2>2
<1>. QED BY <1>1, <1>2, <1>5

\* The total of a pass's forecast: one limit for each sampled deployment.
LEMMA TotalWithin ==
    ASSUME NEW l \in Locals, CapsOf(l), l.spec.limit \in Nat
    PROVE  Total(Forecast(l.power, l.caps)) <= l.spec.limit * Cardinality(Sampled(l.power))
<1>. DEFINE f == Forecast(l.power, l.caps)
<1>1. Sampled(f) = Sampled(l.power)
  <2>1. ASSUME NEW d \in Deployments PROVE f[d] = None <=> l.power[d] = None
    <3>1. CASE l.power[d] = None
      BY <3>1 DEF Forecast
    <3>2. CASE l.power[d] # None
      BY <3>2, ShareWithin, NoneAssumption
    <3>. QED BY <3>1, <3>2
  <2>. HIDE DEF f
  <2>. QED BY <2>1 DEF Sampled
<1>2. IsFiniteSet(Sampled(l.power))
  BY DeploymentsAssumption, FS_Subset DEF Sampled
<1>3. \A d \in Sampled(l.power) : f[d] \in Int /\ f[d] <= l.spec.limit
  BY ShareWithin DEF Sampled
<1>. HIDE DEF f
<1>4. SumFunctionOnSet(f, Sampled(l.power)) <= l.spec.limit * Cardinality(Sampled(l.power))
  BY <1>2, <1>3, SumBound
<1>. QED BY <1>1, <1>4 DEF Total, f

\* No status that the timer writes forecasts more power than the limit once for
\* every deployment it sampled, for any number of deployments, readings and
\* limits.
THEOREM SharesKept == Spec => StatusWithinShares
<1>1. ASSUME LoopInv, [Next]_vars, NEW c \in Configs,
             pc[Timer(c)] = "status", status'[c] # status[c],
             local[Timer(c)].spec.limit \in Nat
      PROVE  Total(status'[c].forecast)
                <= local[Timer(c)].spec.limit * Cardinality(Sampled(status'[c].current))
  <2>. DEFINE l == local[Timer(c)]
  <2>1. l \in Locals /\ CapsOf(l)
    BY <1>1, HandlerNames DEF LoopInv, HandlersOK, HandlerOK
  <2>2. status'[c] = [current |-> l.power, forecast |-> Forecast(l.power, l.caps)]
    BY <1>1, StatusWritten DEF WriteStatus, LoopInv, ConfigsOK, TypeOK
  <2>3. Total(Forecast(l.power, l.caps)) <= l.spec.limit * Cardinality(Sampled(l.power))
    BY <1>1, <2>1, TotalWithin
  <2>. QED BY <2>2, <2>3
<1>2. LoopInv /\ [Next]_vars =>
        [\A c \in Configs :
            LET l == local[Timer(c)] IN
            pc[Timer(c)] = "status" /\ status'[c] # status[c] /\ l.spec.limit \in Nat
               => Total(status'[c].forecast)
                     <= l.spec.limit * Cardinality(Sampled(status'[c].current))]_vars
  BY <1>1
<1>. QED BY <1>2, LoopInvariant, PTL DEF Spec, StatusWithinShares
=============================================================================
