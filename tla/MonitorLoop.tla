----------------------------- MODULE MonitorLoop -----------------------------
(***************************************************************************)
(* The capping loop of the Python operator (operator.py).                  *)
(*                                                                         *)
(* kopf runs two handlers for every PowerCappingConfig, in a thread pool:  *)
(* a create handler, until it succeeds or is refused for good, and a timer *)
(* that samples the power of the referenced deployments and rewrites the   *)
(* maxReplicaCount of the referenced KEDA ScaledObjects.  The handlers of  *)
(* one config run beside each other and beside those of the other configs, *)
(* and every call they make to the API server or to Prometheus lets the    *)
(* others (and users) act in between.                                      *)
(*                                                                         *)
(* A handler is a process whose program counter stops before each call.    *)
(* The object it patches is the whole object it read before, with its      *)
(* resourceVersion: the API server refuses the patch when the object has   *)
(* changed since.  `fresh' is the set of handlers whose copy is current.   *)
(*                                                                         *)
(* An operator named Op_Variant is Op with a plausible bug; no definition  *)
(* uses it, it only shows that a property can fail (see README.md).        *)
(***************************************************************************)
EXTENDS CappingStrategy, Sequences

CONSTANTS
    Configs,        \* PowerCappingConfigs
    Objects,        \* KEDA ScaledObjects
    Present,        \* the deployments that exist; ScaledObjects may name others
    Specs,          \* the specs users write into a config
    Readings,       \* what Prometheus may answer for each deployment
    InitialMax,     \* the maxReplicaCount a user gives a ScaledObject
    InitialTarget,  \* the deployment each ScaledObject first scales
    MaxEdits,       \* bound: changes users and other controllers make
    MaxFaults       \* bound: failed calls and operator crashes

ScaledObject == [target : Deployments, max : Int]
SpecType == [limit : Int \cup {None}, refs : Seq(Objects)]

ASSUME LoopAssumption ==
    /\ Present \subseteq Deployments
    /\ Specs \subseteq SpecType
    /\ None \notin ScaledObject
    /\ Readings \in [Deployments -> SUBSET Nat]
    /\ InitialMax \in Int
    /\ InitialTarget \in [Objects -> Deployments]
    /\ MaxEdits \in Nat
    /\ MaxFaults \in Nat

VARIABLES
    life,       \* of each config: absent, live, or deleting (finalizer held)
    spec,       \* its spec
    created,    \* its creation in kopf's eyes: pending, done or rejected
    status,     \* its status, written by the timer
    so,         \* the ScaledObjects, None when deleted
    pc,         \* where each handler is
    local,      \* the local variables of each handler
    fresh,      \* the handlers about to patch whose copy is current
    gauge,      \* the operator's own Prometheus gauges, per deployment
    edits, faults

config == <<life, spec, created, status>>
bounds == <<edits, faults>>
vars == <<life, spec, created, status, so, pc, local, fresh, gauge,
          edits, faults>>

Creator(c) == <<c, "create">>
Timer(c)   == <<c, "timer">>
Handlers   == Configs \X {"create", "timer"}

Locals == [spec : Specs \cup {None}, ref : Nat \ {0},
           power : [Deployments -> Nat \cup {None}],
           caps : [Deployments -> Int \cup {None}],
           snap : ScaledObject \cup {None}]
Status == [current : [Deployments -> Nat \cup {None}],
           forecast : [Deployments -> Int \cup {None}]]
NoLocals == [spec |-> None, ref |-> 1, power |-> NoReading,
             caps |-> NoReading, snap |-> None]
NoGauge == [power |-> None, forecast |-> None]

\* POWER_CAPPING_CONFIG_SCHEMA: the limit is there and not negative
ValidSpec(s) == s.limit \in Nat

TypeOK ==
    /\ life \in [Configs -> {"absent", "live", "deleting"}]
    /\ spec \in [Configs -> Specs \cup {None}]
    /\ created \in [Configs -> {"pending", "done", "rejected"}]
    /\ status \in [Configs -> Status \cup {None}]
    /\ so \in [Objects -> ScaledObject \cup {None}]
    /\ pc \in [Handlers -> {"idle", "sample", "compute", "get", "patch",
                            "report", "forecast", "status", "returned"}]
    /\ local \in [Handlers -> Locals]
    /\ fresh \subseteq Handlers
    /\ gauge \in [Deployments -> [power : Nat \cup {None},
                                  forecast : Int \cup {None}]]
    /\ edits \in 0..MaxEdits
    /\ faults \in 0..MaxFaults

Init ==
    /\ life = [c \in Configs |-> "absent"]
    /\ spec = [c \in Configs |-> None]
    /\ created = [c \in Configs |-> "pending"]
    /\ status = [c \in Configs |-> None]
    /\ so = [o \in Objects |-> [target |-> InitialTarget[o], max |-> InitialMax]]
    /\ pc = [p \in Handlers |-> "idle"]
    /\ local = [p \in Handlers |-> NoLocals]
    /\ fresh = {}
    /\ gauge = [d \in Deployments |-> NoGauge]
    /\ edits = 0
    /\ faults = 0

(***************************************************************************)
(* The handlers.                                                           *)
(***************************************************************************)
Refs(p)   == local[p].spec.refs
Object(p) == Refs(p)[local[p].ref]

\* The handler returns, or raises: its local variables are gone.
Leave(p) ==
    /\ pc' = [pc EXCEPT ![p] = "idle"]
    /\ local' = [local EXCEPT ![p] = NoLocals]
    /\ fresh' = fresh \ {p}

Iterate_ButLast(p, l, again, after) ==
    IF l.ref + 1 < Len(l.spec.refs)
    THEN /\ pc' = [pc EXCEPT ![p] = again]
         /\ local' = [local EXCEPT ![p] = [l EXCEPT !.ref = @ + 1]]
    ELSE /\ pc' = [pc EXCEPT ![p] = after]
         /\ local' = [local EXCEPT ![p] = [l EXCEPT !.ref = 1]]

\* The end of a loop's body: the next reference, or what follows the loop.
Iterate(p, l, again, after) ==
    IF l.ref < Len(l.spec.refs)
    THEN /\ pc' = [pc EXCEPT ![p] = again]
         /\ local' = [local EXCEPT ![p] = [l EXCEPT !.ref = @ + 1]]
    ELSE /\ pc' = [pc EXCEPT ![p] = after]
         /\ local' = [local EXCEPT ![p] = [l EXCEPT !.ref = 1]]

\* Entering a loop over the references.
LoopOr(s, loop, after) == IF s.refs = <<>> THEN after ELSE loop

StartCreate(c) ==
    LET p == Creator(c) IN
    /\ life[c] = "live" /\ created[c] = "pending" /\ pc[p] = "idle"
    /\ IF ValidSpec(spec[c])
       THEN /\ pc' = [pc EXCEPT ![p] = LoopOr(spec[c], "get", "returned")]
            /\ local' = [local EXCEPT ![p] = [NoLocals EXCEPT !.spec = spec[c]]]
            /\ UNCHANGED created
       ELSE /\ created' = [created EXCEPT ![c] = "rejected"]
            /\ UNCHANGED <<pc, local>>
    /\ UNCHANGED <<life, spec, status, so, fresh, gauge, bounds>>

FinishCreate_Forgotten(c) ==
    /\ pc[Creator(c)] = "returned"
    /\ Leave(Creator(c))
    /\ UNCHANGED <<config, so, gauge, bounds>>

\* kopf records that the creation is handled, once the handler has returned.
FinishCreate(c) ==
    /\ pc[Creator(c)] = "returned"
    /\ Leave(Creator(c))
    /\ created' = [created EXCEPT ![c] = "done"]
    /\ UNCHANGED <<life, spec, status, so, gauge, bounds>>

StartTimer(c) ==
    LET p == Timer(c) IN
    /\ life[c] = "live" /\ pc[p] = "idle"
    /\ pc' = [pc EXCEPT ![p] = LoopOr(spec[c], "sample", "compute")]
    /\ local' = [local EXCEPT ![p] = [NoLocals EXCEPT !.spec = spec[c]]]
    /\ UNCHANGED <<config, so, fresh, gauge, bounds>>

\* get_power_consumption: any answer of Prometheus; none at all counts as 0.
PowerConsumption(d) == Readings[d]

\* The object is there, and the deployment that it names.
Found(o) == so[o] # None /\ so[o].target \in Present

\* First loop: the ScaledObject names the deployment whose power is asked.  A
\* 404 of the one or of the other raises.
Sample(p) ==
    /\ pc[p] = "sample"
    /\ IF Found(Object(p))
       THEN LET target == so[Object(p)].target IN
            /\ \E w \in PowerConsumption(target) :
                 Iterate(p, [local[p] EXCEPT !.power[target] = w],
                         "sample", "compute")
            /\ UNCHANGED fresh
       ELSE Leave(p)
    /\ UNCHANGED <<config, so, gauge, bounds>>

Compute(p) ==
    LET power == local[p].power
        limit == local[p].spec.limit
    IN
    /\ pc[p] = "compute"
    /\ IF SomePower(power) /\ StrategyRaises(power, limit)
       THEN Leave(p)
       ELSE /\ pc' = [pc EXCEPT ![p] = LoopOr(local[p].spec, "get", "report")]
            /\ local' = [local EXCEPT ![p].caps =
                            IF SomePower(power) THEN StrategyCaps(power, limit)
                                                ELSE NoReading]
            /\ UNCHANGED fresh
    /\ UNCHANGED <<config, so, gauge, bounds>>

\* Second loop, and the create handler's only one: read the object, ...
Get(p) ==
    /\ pc[p] = "get"
    /\ IF so[Object(p)] = None
       THEN Leave(p)
       ELSE /\ pc' = [pc EXCEPT ![p] = "patch"]
            /\ local' = [local EXCEPT ![p].snap = so[Object(p)]]
            /\ fresh' = fresh \cup {p}
    /\ UNCHANGED <<config, so, gauge, bounds>>

NewMax(p) == IF p[2] = "create"
             THEN PlaceholderCap(local[p].spec.limit)
             ELSE CapFor(local[p].caps, local[p].snap.target)

Patched_Rebuilt(p) == [target |-> InitialTarget[Object(p)], max |-> NewMax(p)]

Patched(p) == [local[p].snap EXCEPT !.max = NewMax(p)]

Outdated_None(o, new) == {}

\* The copies that go stale when object o becomes new.
Outdated(o, new) == IF new = so[o] THEN {} ELSE {q \in fresh : Object(q) = o}

\* The API server's side of a patch that it accepts.
Store(p) ==
    /\ so' = [so EXCEPT ![Object(p)] = Patched(p)]
    /\ fresh' = fresh \ ({p} \cup Outdated(Object(p), Patched(p)))

\* resourceVersion: the object is there and is the one that was read.
Accepted(p) == p \in fresh

\* ... and write the copy back; a conflict (or a deleted object) raises.
Patch(p) ==
    /\ pc[p] = "patch"
    /\ IF Accepted(p)
       THEN /\ Store(p)
            /\ Iterate(p, [local[p] EXCEPT !.snap = None], "get",
                       IF p[2] = "create" THEN "returned" ELSE "report")
       ELSE Leave(p) /\ UNCHANGED so
    /\ UNCHANGED <<config, gauge, bounds>>

\* The gauges of this pass's deployments: first the readings, ...
Report(p) ==
    /\ pc[p] = "report"
    /\ gauge' = [d \in Deployments |->
                    IF d \in Sampled(local[p].power)
                    THEN [gauge[d] EXCEPT !.power = local[p].power[d]]
                    ELSE gauge[d]]
    /\ pc' = [pc EXCEPT ![p] = "forecast"]
    /\ UNCHANGED <<config, so, local, fresh, bounds>>

\* ... then, in a loop of its own, what they would draw at the new bound.
ReportForecast(p) ==
    LET forecast == Forecast(local[p].power, local[p].caps) IN
    /\ pc[p] = "forecast"
    /\ gauge' = [d \in Deployments |->
                    IF forecast[d] # None
                    THEN [gauge[d] EXCEPT !.forecast = forecast[d]]
                    ELSE gauge[d]]
    /\ pc' = [pc EXCEPT ![p] = "status"]
    /\ UNCHANGED <<config, so, local, fresh, bounds>>

\* kopf patches the config's status when the timer's handler has returned.
\* The status shows the Total of each of these two maps.
WriteStatus(c) ==
    LET l == local[Timer(c)] IN
    /\ pc[Timer(c)] = "status"
    /\ status' = [status EXCEPT ![c] =
                    [current  |-> l.power,
                     forecast |-> Forecast(l.power, l.caps)]]
    /\ Leave(Timer(c))
    /\ UNCHANGED <<life, spec, created, so, gauge, bounds>>

CreateStep(c) ==
    \/ StartCreate(c)
    \/ Get(Creator(c))
    \/ Patch(Creator(c))
    \/ FinishCreate(c)

TimerStep(c) ==
    \/ StartTimer(c)
    \/ Sample(Timer(c))
    \/ Compute(Timer(c))
    \/ Get(Timer(c))
    \/ Patch(Timer(c))
    \/ Report(Timer(c))
    \/ ReportForecast(Timer(c))
    \/ WriteStatus(c)

Quiet_Created(c) == /\ pc[Creator(c)] = "idle" /\ pc[Timer(c)] = "idle"
                    /\ created[c] = "done"

Quiet(c) == pc[Creator(c)] = "idle" /\ pc[Timer(c)] = "idle"

\* kopf lets a deleted config go once none of its handlers runs.
RemoveConfig(c) ==
    /\ life[c] = "deleting"
    /\ Quiet(c)
    /\ life' = [life EXCEPT ![c] = "absent"]
    /\ spec' = [spec EXCEPT ![c] = None]
    /\ created' = [created EXCEPT ![c] = "pending"]
    /\ status' = [status EXCEPT ![c] = None]
    /\ UNCHANGED <<so, pc, local, fresh, gauge, bounds>>

(***************************************************************************)
(* Failures: a call that raises before or after it took effect, and the    *)
(* operator's process dying and coming back.                               *)
(***************************************************************************)
Fault == faults < MaxFaults /\ faults' = faults + 1

CallFails(p) ==
    /\ Fault
    /\ pc[p] \in {"sample", "get", "patch", "status"}
    /\ Leave(p)
    /\ UNCHANGED <<config, so, gauge, edits>>

AnswerLost(p) ==
    /\ Fault
    /\ pc[p] = "patch" /\ Accepted(p)
    /\ Store(p)
    /\ pc' = [pc EXCEPT ![p] = "idle"]
    /\ local' = [local EXCEPT ![p] = NoLocals]
    /\ UNCHANGED <<config, gauge, edits>>

Crash ==
    /\ Fault
    /\ pc' = [p \in Handlers |-> "idle"]
    /\ local' = [p \in Handlers |-> NoLocals]
    /\ fresh' = {}
    /\ gauge' = [d \in Deployments |-> NoGauge]
    /\ UNCHANGED <<config, so, edits>>

(***************************************************************************)
(* Users, and the controllers that share the ScaledObjects.                *)
(***************************************************************************)
Edit == edits < MaxEdits /\ edits' = edits + 1

CreateConfig(c) ==
    /\ Edit
    /\ life[c] = "absent"
    /\ life' = [life EXCEPT ![c] = "live"]
    /\ \E s \in Specs : spec' = [spec EXCEPT ![c] = s]
    /\ UNCHANGED <<created, status, so, pc, local, fresh, gauge, faults>>

EditConfig(c) ==
    /\ Edit
    /\ life[c] = "live"
    /\ \E s \in Specs \ {spec[c]} : spec' = [spec EXCEPT ![c] = s]
    /\ UNCHANGED <<life, created, status, so, pc, local, fresh, gauge, faults>>

DeleteConfig(c) ==
    /\ Edit
    /\ life[c] = "live"
    /\ life' = [life EXCEPT ![c] = "deleting"]
    /\ UNCHANGED <<spec, created, status, so, pc, local, fresh, gauge, faults>>

\* Any write to o, one that changes nothing a handler reads included.
WriteObject(o, new) ==
    /\ Edit
    /\ so' = [so EXCEPT ![o] = new]
    /\ fresh' = {q \in fresh : Object(q) # o}
    /\ UNCHANGED <<config, pc, local, gauge, faults>>

EditObject(o) ==
    /\ so[o] # None
    /\ \E t \in Deployments, m \in {so[o].max, InitialMax} :
          WriteObject(o, [target |-> t, max |-> m])

DeleteObject(o) == so[o] # None /\ WriteObject(o, None)

CreateObject(o) ==
    /\ so[o] = None
    /\ WriteObject(o, [target |-> InitialTarget[o], max |-> InitialMax])

Environment ==
    \/ Crash
    \/ \E p \in Handlers : CallFails(p) \/ AnswerLost(p)
    \/ \E c \in Configs : CreateConfig(c) \/ EditConfig(c) \/ DeleteConfig(c)
    \/ \E o \in Objects : EditObject(o) \/ DeleteObject(o) \/ CreateObject(o)

Next ==
    \/ \E c \in Configs : CreateStep(c) \/ TimerStep(c) \/ RemoveConfig(c)
    \/ Environment

Spec == Init /\ [][Next]_vars

\* kopf keeps calling a handler that raised, the timer every interval, and
\* a thread that runs is scheduled.  Nothing is assumed of the environment.
Fairness == \A c \in Configs : /\ WF_vars(CreateStep(c))
                               /\ WF_vars(TimerStep(c))
                               /\ WF_vars(RemoveConfig(c))

FairSpec == Spec /\ Fairness

(***************************************************************************)
(* Safety.                                                                 *)
(***************************************************************************)
\* Handler p changed ScaledObject o in this step.
Wrote(p, o) == /\ pc[p] = "patch" /\ pc'[p] # "patch"
               /\ Object(p) = o /\ so'[o] # so[o]

\* A copy that the API server would accept is the object as it is now,
\* whoever wrote to the object since it was read (operator.py:161-184).
SnapshotFresh ==
    \A p \in fresh : pc[p] = "patch" /\ local[p].snap = so[Object(p)]

\* A handler writes the whole object back, yet never undoes what a user did
\* to it in the meantime: the scale target stays the current one, and a
\* deleted object is not brought back (operator.py:90-99, 175-184).
NoLostUpdate ==
    [][\A p \in Handlers, o \in Objects :
          Wrote(p, o) => /\ so[o] # None
                         /\ so'[o].target = so[o].target]_vars

\* m is the largest number by which w may be multiplied within limit; 1 where w
\* is unknown or nothing.  w is the power of a whole deployment with the replicas
\* that it has, summed over their containers (operator.py:228), and the code
\* takes it for that of one replica: m replicas need not draw w * m.
Bounded(m, w, limit) ==
    IF w = None \/ w = 0 THEN m = 1
                         ELSE w * m <= limit /\ limit < w * (m + 1)

\* Every bound the timer writes is the limit the pass started with, divided by
\* the power the pass sampled for the deployment that the object scales at the
\* moment of the write: never the bound of another deployment, of another pass,
\* or of another limit (operator.py:147-184, strategies).
PatchWithinCap ==
    [][\A c \in Configs, o \in Objects :
          LET l == local[Timer(c)] IN
          Wrote(Timer(c), o) /\ l.spec.limit \in Nat
             => Bounded(so'[o].max, l.power[so'[o].target], l.spec.limit)]_vars

\* Outside the two loops that write them (operator.py:191-201), the power and
\* the forecast gauges of a deployment come from one pass: the forecast is a
\* whole multiple of that power.  One config per deployment.
GaugesOfOnePass ==
    (\A c \in Configs : pc[Timer(c)] # "forecast") =>
        \A d \in Deployments :
            /\ gauge[d].power = None <=> gauge[d].forecast = None
            /\ gauge[d].power = 0 => gauge[d].forecast = 0
            /\ gauge[d].power \in Nat \ {0}
                  => gauge[d].forecast % gauge[d].power = 0

\* No step writes a status whose forecast exceeds the limit once for every
\* deployment that was sampled (operator.py:189-207).
StatusWithinShares ==
    [][\A c \in Configs :
          LET l == local[Timer(c)] IN
          pc[Timer(c)] = "status" /\ status'[c] # status[c] /\ l.spec.limit \in Nat
             => Total(status'[c].forecast)
                   <= l.spec.limit * Cardinality(Sampled(status'[c].current))]_vars

Promised == INSTANCE CapStore

\* To the owners of the ScaledObjects the loop is a store that sets a bound in
\* one step: it reads, computes and writes at different times, runs beside
\* itself, fails and crashes, yet no step changes more than the bound, with a
\* value that is explained for the object as it is then, for a config that is
\* still there (operator.py:54-207).
ImplementsCapStore == Promised!Spec

(***************************************************************************)
(* Liveness.                                                               *)
(***************************************************************************)
ObjectsThere(c) == \A i \in DOMAIN spec[c].refs : so[spec[c].refs[i]] # None
Reachable(c) == \A i \in DOMAIN spec[c].refs : Found(spec[c].refs[i])

\* Some reading the timer may have seen explains the object's bound.
InForce(o, limit) ==
    \E w \in Readings[so[o].target] : Bounded(so[o].max, w, limit)

\* A limit, and every change of it, is in force in the end on every object
\* the config names, whatever bound the create handler, a user or the previous
\* limit left there (there is no update handler: only the timer does this).
CapEventuallyInForce ==
    <>[](\A c \in Configs :
            life[c] = "live" /\ ValidSpec(spec[c]) /\ Reachable(c) =>
                \A i \in DOMAIN spec[c].refs :
                    InForce(spec[c].refs[i], spec[c].limit))

\* The create handler and the timer patch the same objects and make each
\* other's patches conflict, but not for ever: the creation gets settled, also
\* while the timer raises in every pass, at a deployment that is not there.
CreationSettles ==
    <>[](\A c \in Configs :
            life[c] = "live" /\ ObjectsThere(c) => created[c] # "pending")

\* No pass holds the finalizer of a deleted config for ever.
DeletionCompletes ==
    \A c \in Configs : life[c] = "deleting" ~> life[c] # "deleting"
=============================================================================
