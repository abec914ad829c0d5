---------------------------- MODULE CapStoreProofs ----------------------------
(***************************************************************************)
(* MonitorLoop implements CapStore, for any configs, objects, specs and    *)
(* readings and any number of edits and faults.                            *)
(*                                                                         *)
(* Every accepted patch, and every patch whose answer is lost, is a        *)
(* SetBound: the copy is current (SnapshotFresh), its config is there      *)
(* (BusyInv), and the bound comes from a reading (ReadInv).                *)
(***************************************************************************)
EXTENDS MonitorLoopProofs

\* A handler only runs for a config that is there, the create handler for one
\* whose creation is pending.
BusyInv ==
    \A c \in Configs :
        /\ pc[Creator(c)] # "idle" => life[c] # "absent" /\ created[c] = "pending"
        /\ pc[Timer(c)] # "idle" => life[c] # "absent"

\* What a handler has sampled is what Prometheus answered.
ReadInv ==
    \A p \in Handlers, d \in Deployments :
        local[p].power[d] \in Readings[d] \cup {None}

StoreInv == LoopInv /\ SnapshotFresh /\ BusyInv /\ ReadInv

LEMMA InitPromised == Init => Promised!Init /\ BusyInv /\ ReadInv
<1>. SUFFICES ASSUME Init PROVE Promised!Init /\ BusyInv /\ ReadInv
  OBVIOUS
<1>1. Promised!Init
  BY LoopAssumption DEF Init, Promised!Init
<1>2. BusyInv
  BY HandlerNames DEF Init, BusyInv
<1>3. ReadInv
  BY DEF Init, ReadInv, NoLocals, NoReading
<1>. QED BY <1>1, <1>2, <1>3

(***************************************************************************)
(* What the steps keep.                                                    *)
(***************************************************************************)
LEMMA BusyKept ==
    ASSUME BusyInv, UNCHANGED <<life, created>>,
           \A p \in Handlers : pc'[p] # "idle" => pc[p] # "idle"
    PROVE  BusyInv'
BY HandlerNames DEF BusyInv

LEMMA ReadKept ==
    ASSUME ReadInv, NEW p \in Handlers, OthersKept(p),
           local'[p].power \in {local[p].power, NoReading}
    PROVE  ReadInv'
<1>. SUFFICES ASSUME NEW q \in Handlers, NEW d \in Deployments
              PROVE  local'[q].power[d] \in Readings[d] \cup {None}
  BY DEF ReadInv
<1>1. CASE q = p
  BY <1>1 DEF ReadInv, NoReading
<1>2. CASE q # p
  BY <1>2 DEF ReadInv, OthersKept
<1>. QED BY <1>1, <1>2

LEMMA LeaveKept ==
    ASSUME StoreInv, NEW p \in Handlers, Leave(p)
    PROVE  /\ ReadInv'
           /\ \A q \in Handlers : pc'[q] # "idle" => pc[q] # "idle"
<1>1. local'[p].power = NoReading
  BY DEF Leave, StoreInv, LoopInv, HandlersOK, NoLocals
<1>2. OthersKept(p)
  BY MovesOthersKept DEF Leave, StoreInv
<1>. QED BY <1>1, <1>2, ReadKept DEF Leave, StoreInv, LoopInv, HandlersOK

LEMMA IterateKept ==
    ASSUME StoreInv, NEW p \in Handlers, pc[p] # "idle",
           NEW l \in Locals, NEW again, NEW after, Iterate(p, l, again, after)
    PROVE  /\ local'[p].power = l.power
           /\ OthersKept(p)
           /\ \A q \in Handlers : pc'[q] # "idle" => pc[q] # "idle"
<1>1. OthersKept(p)
  BY IterateOthersKept DEF StoreInv
<1>2. local'[p].power = l.power
  BY DEF Iterate, StoreInv, LoopInv, HandlersOK, Locals
<1>. QED BY <1>1, <1>2 DEF OthersKept

(***************************************************************************)
(* A patch sets a bound.                                                   *)
(***************************************************************************)
LEMMA PromisedArithmetic ==
    /\ \A a, b : Promised!Truncate(a, b) = Truncate(a, b)
    /\ \A a : Promised!PlaceholderCap(a) = PlaceholderCap(a)
BY DEF Promised!Truncate, Truncate, Promised!PlaceholderCap, PlaceholderCap

LEMMA BoundExplained ==
    ASSUME StoreInv, NEW p \in Handlers, pc[p] = "patch"
    PROVE  NewMax(p) \in Promised!Bounds(local[p].spec, local[p].snap.target)
<1>. DEFINE l == local[p]
            t == l.snap.target
<1>1. l \in Locals /\ l.spec \in Specs /\ l.snap \in ScaledObject
  BY DEF StoreInv, LoopInv, HandlersOK, HandlerOK
<1>2. t \in Deployments /\ l.spec.limit \in Int \cup {None}
  BY <1>1, SpecsType DEF ScaledObject
<1>3. CASE p[2] = "create"
  <2>1. l.spec.limit \in Nat
    BY <1>3 DEF StoreInv, LoopInv, HandlersOK, HandlerOK, ValidSpec
  <2>. QED BY <1>3, <2>1, PromisedArithmetic DEF NewMax, Promised!Bounds
<1>4. CASE p[2] # "create"
  <2>1. p[2] = "timer"
    BY <1>4 DEF Handlers
  <2>2. CapsOf(l) /\ NewMax(p) = CapFor(l.caps, t)
    BY <1>4, <2>1 DEF StoreInv, LoopInv, HandlersOK, HandlerOK, NewMax
  <2>3. CASE l.caps[t] = None
    BY <2>2, <2>3 DEF CapFor, Promised!Bounds
  <2>4. CASE l.caps[t] # None
    <3>1. SomePower(l.power) /\ l.power[t] # None
      BY <1>2, <2>2, <2>4 DEF CapsOf, StrategyCaps, NoReading
    <3>2. l.spec.limit # None /\ l.power[t] # 0
      BY <1>2, <2>2, <3>1 DEF CapsOf, StrategyRaises, Sampled
    <3>3. l.power[t] \in Readings[t] \ {0}
      BY <1>2, <3>1, <3>2 DEF StoreInv, ReadInv
    <3>4. NewMax(p) = Truncate(l.spec.limit, l.power[t])
      BY <1>2, <2>2, <2>4, <3>1 DEF CapsOf, StrategyCaps, CapFor
    <3>. QED BY <3>2, <3>3, <3>4, PromisedArithmetic DEF Promised!Bounds
  <2>. QED BY <2>3, <2>4
<1>. QED BY <1>3, <1>4

LEMMA StoreSetsBound ==
    ASSUME StoreInv, NEW p \in Handlers, pc[p] = "patch", p \in fresh, Store(p),
           UNCHANGED <<life, spec, created, edits>>
    PROVE  \E c \in Configs, o \in Objects : Promised!SetBound(c, o)
<1>. DEFINE c == p[1]
            o == Object(p)
            s == local[p].spec
            m == NewMax(p)
<1>1. c \in Configs /\ (p = Creator(c) \/ p = Timer(c))
  BY DEF Handlers, Creator, Timer
<1>2. life[c] # "absent"
  BY <1>1 DEF StoreInv, BusyInv
<1>3. /\ o \in Objects /\ s \in Specs
      /\ local[p].ref \in DOMAIN s.refs /\ s.refs[local[p].ref] = o
  BY PatchedType DEF StoreInv, LoopInv, HandlersOK, HandlerOK, Object, Refs
<1>4. local[p].snap = so[o] /\ so[o] \in ScaledObject /\ so[o] # None
  BY LoopAssumption DEF StoreInv, SnapshotFresh, LoopInv, HandlersOK, HandlerOK
<1>5. m \in Promised!Bounds(s, so[o].target)
  BY <1>4, BoundExplained
<1>6. so' = [so EXCEPT ![o].max = m]
  BY <1>3, <1>4 DEF Store, Patched
<1>7. Promised!SetBound(c, o)
  BY <1>2, <1>3, <1>4, <1>5, <1>6 DEF Promised!SetBound
<1>. QED BY <1>1, <1>3, <1>7

(***************************************************************************)
(* Each step of the loop is a step of the store, or changes nothing there. *)
(***************************************************************************)
Promise == BusyInv' /\ ReadInv' /\ [Promised!Next]_(Promised!storeVars)

\* A step that neither the store nor BusyInv can see.
LEMMA Unseen ==
    ASSUME StoreInv, UNCHANGED <<life, spec, created, so, edits>>, ReadInv',
           \A p \in Handlers : pc'[p] # "idle" => pc[p] # "idle"
    PROVE  Promise
BY BusyKept DEF StoreInv, Promise, Promised!storeVars

LEMMA CallsPromise ==
    ASSUME StoreInv, NEW p \in Handlers, Get(p) \/ Patch(p)
    PROVE  Promise
<1>1. local[p] \in Locals /\ local'[p].power \in {local[p].power, NoReading} => ReadInv'
  <2>1. OthersKept(p)
    BY MovesOthersKept, IterateOthersKept DEF Get, Patch, Leave, StoreInv
  <2>. QED BY <2>1, ReadKept DEF StoreInv
<1>2. CASE Leave(p) /\ UNCHANGED <<config, so, gauge, bounds>>
  BY <1>2, LeaveKept, Unseen DEF config, bounds
<1>3. CASE Get(p) /\ so[Object(p)] # None
  <2>1. local'[p].power = local[p].power /\ local[p] \in Locals
    BY <1>3 DEF Get, StoreInv, LoopInv, HandlersOK, Locals
  <2>2. \A q \in Handlers : pc'[q] # "idle" => pc[q] # "idle"
    BY <1>3 DEF Get, StoreInv, LoopInv, HandlersOK
  <2>. QED BY <1>1, <1>3, <2>1, <2>2, Unseen DEF Get, config, bounds
<1>4. CASE Patch(p) /\ Accepted(p)
  <2>. DEFINE l == [local[p] EXCEPT !.snap = None]
  <2>1. pc[p] = "patch" /\ p \in fresh /\ Store(p)
    BY <1>4 DEF Patch, Accepted
  <2>2. PICK again, after : Iterate(p, l, again, after)
    BY <1>4 DEF Patch
  <2>3. l \in Locals /\ l.power = local[p].power
    BY DEF StoreInv, LoopInv, HandlersOK, Locals
  <2>4. /\ local'[p].power = local[p].power /\ OthersKept(p)
        /\ \A q \in Handlers : pc'[q] # "idle" => pc[q] # "idle"
    BY <2>1, <2>2, <2>3, IterateKept
  <2>5. ReadInv' /\ BusyInv'
    BY <1>4, <2>4, ReadKept, BusyKept DEF StoreInv, Patch, config
  <2>6. \E c \in Configs, o \in Objects : Promised!SetBound(c, o)
    BY <1>4, <2>1, StoreSetsBound DEF Patch, config, bounds
  <2>. QED BY <2>5, <2>6 DEF Promise, Promised!Next
<1>5. CASE Patch(p) /\ ~Accepted(p)
  BY <1>2, <1>5 DEF Patch
<1>6. CASE Get(p) /\ so[Object(p)] = None
  BY <1>2, <1>6 DEF Get
<1>. QED BY <1>3, <1>4, <1>5, <1>6

LEMMA CreatePromise ==
    ASSUME StoreInv, NEW c \in Configs, StartCreate(c) \/ FinishCreate(c)
    PROVE  Promise
<1>. DEFINE p == Creator(c)
<1>1. p \in Handlers /\ OthersKept(p)
  BY HandlerNames, MovesOthersKept DEF StartCreate, FinishCreate, Leave, StoreInv
<1>2. CASE StartCreate(c) /\ ValidSpec(spec[c])
  <2>1. local'[p].power = NoReading
    BY <1>1, <1>2 DEF StartCreate, StoreInv, LoopInv, HandlersOK, NoLocals
  <2>2. ReadInv'
    BY <1>1, <2>1, ReadKept DEF StoreInv
  <2>3. BusyInv'
    BY <1>1, <1>2, HandlerNames DEF StartCreate, OthersKept, StoreInv, BusyInv, Creator, Timer
  <2>. QED BY <1>2, <2>2, <2>3 DEF StartCreate, Promise, Promised!storeVars, bounds
<1>3. CASE StartCreate(c) /\ ~ValidSpec(spec[c])
  <2>1. ReadInv' /\ BusyInv'
    BY <1>3, HandlerNames DEF StartCreate, StoreInv, BusyInv, ReadInv, LoopInv, ConfigsOK, TypeOK
  <2>2. Promised!Settle(c)
    BY <1>3 DEF StartCreate, ValidSpec, Promised!Settle, bounds
  <2>. QED BY <2>1, <2>2 DEF Promise, Promised!Next
<1>4. CASE FinishCreate(c)
  <2>1. life[c] # "absent" /\ created[c] = "pending"
    BY <1>4 DEF FinishCreate, StoreInv, BusyInv
  <2>2. ReadInv'
    BY <1>1, <1>4, LeaveKept DEF FinishCreate
  <2>3. BusyInv'
    BY <1>1, <1>4, HandlerNames
    DEF FinishCreate, Leave, OthersKept, StoreInv, BusyInv, LoopInv, ConfigsOK, TypeOK,
        HandlersOK, Creator, Timer
  <2>4. Promised!Settle(c)
    BY <1>4, <2>1 DEF FinishCreate, Promised!Settle, bounds
  <2>. QED BY <2>2, <2>3, <2>4 DEF Promise, Promised!Next
<1>. QED BY <1>2, <1>3, <1>4

LEMMA TimerPromise ==
    ASSUME StoreInv, NEW c \in Configs,
           \/ StartTimer(c) \/ Sample(Timer(c)) \/ Compute(Timer(c))
           \/ Report(Timer(c)) \/ ReportForecast(Timer(c)) \/ WriteStatus(c)
    PROVE  Promise
<1>. DEFINE p == Timer(c)
<1>1. p \in Handlers /\ OthersKept(p)
  <2>1. TimerStep(c)
    BY DEF TimerStep
  <2>. QED BY <2>1, HandlerNames, StepOthersKept DEF StoreInv
<1>2. CASE Leave(p) /\ UNCHANGED <<life, spec, created, so, edits>>
  BY <1>1, <1>2, LeaveKept, Unseen
<1>3. CASE StartTimer(c)
  <2>1. local'[p].power = NoReading
    BY <1>1, <1>3 DEF StartTimer, StoreInv, LoopInv, HandlersOK, NoLocals
  <2>2. ReadInv'
    BY <1>1, <2>1, ReadKept DEF StoreInv
  <2>3. BusyInv'
    BY <1>1, <1>3, HandlerNames
    DEF StartTimer, config, OthersKept, StoreInv, BusyInv, Creator, Timer
  <2>. QED BY <1>3, <2>2, <2>3 DEF StartTimer, Promise, Promised!storeVars, config, bounds
<1>4. CASE Sample(p) /\ Found(Object(p))
  <2>. DEFINE t == so[Object(p)].target
  <2>1. PICK w \in Readings[t] :
          Iterate(p, [local[p] EXCEPT !.power[t] = w], "sample", "compute")
    BY <1>4 DEF Sample, PowerConsumption
  <2>. DEFINE l == [local[p] EXCEPT !.power[t] = w]
  <2>2. /\ pc[p] = "sample" /\ local[p] \in Locals /\ local[p].spec \in Specs
        /\ local[p].ref \in DOMAIN local[p].spec.refs
    BY <1>1, <1>4 DEF Sample, StoreInv, LoopInv, HandlersOK, HandlerOK
  <2>3. Object(p) \in Objects
    BY <2>2, SpecsType DEF Object, Refs
  <2>4. t \in Deployments
    BY <1>4, <2>3 DEF Found, StoreInv, LoopInv, ConfigsOK, TypeOK, ScaledObject
  <2>5. l \in Locals /\ l.power = [local[p].power EXCEPT ![t] = w]
    BY <2>2, <2>4, LoopAssumption DEF Locals
  <2>6. /\ local'[p].power = l.power
        /\ \A q \in Handlers : pc'[q] # "idle" => pc[q] # "idle"
    BY <1>1, <2>1, <2>2, <2>5, IterateKept
  <2>7. ReadInv'
    <3>. SUFFICES ASSUME NEW q \in Handlers, NEW d \in Deployments
                  PROVE  local'[q].power[d] \in Readings[d] \cup {None}
      BY DEF ReadInv
    <3>1. CASE q = p
      BY <2>1, <2>2, <2>4, <2>5, <2>6, <3>1 DEF StoreInv, ReadInv, Locals
    <3>2. CASE q # p
      BY <1>1, <3>2 DEF StoreInv, ReadInv, OthersKept
    <3>. QED BY <3>1, <3>2
  <2>. QED BY <1>4, <2>6, <2>7, Unseen DEF Sample, config, bounds
<1>5. ASSUME pc[p] # "idle", local'[p].power = local[p].power,
             UNCHANGED <<life, spec, created, so, edits>>
      PROVE  Promise
  <2>1. ReadInv'
    BY <1>1, <1>5, ReadKept DEF StoreInv
  <2>2. \A q \in Handlers : pc'[q] # "idle" => pc[q] # "idle"
    BY <1>1, <1>5 DEF OthersKept
  <2>. QED BY <1>5, <2>1, <2>2, Unseen
<1>6. CASE Compute(p) /\ ~Leave(p)
  <2>1. local'[p].power = local[p].power
    BY <1>1, <1>6 DEF Compute, StoreInv, LoopInv, HandlersOK, Locals
  <2>. QED BY <1>5, <1>6, <2>1 DEF Compute, config, bounds
<1>7. CASE Report(p) \/ ReportForecast(p)
  BY <1>5, <1>7 DEF Report, ReportForecast, config, bounds
<1>8. CASE WriteStatus(c)
  BY <1>2, <1>8 DEF WriteStatus, bounds
<1>9. CASE (Sample(p) /\ ~Found(Object(p))) \/ (Compute(p) /\ Leave(p))
  BY <1>2, <1>9 DEF Sample, Compute, config, bounds
<1>. QED BY <1>3, <1>4, <1>6, <1>7, <1>8, <1>9

LEMMA ConfigsPromise ==
    ASSUME StoreInv, NEW c \in Configs,
           \/ RemoveConfig(c) \/ CreateConfig(c) \/ EditConfig(c) \/ DeleteConfig(c)
    PROVE  Promise
<1>1. ReadInv'
  BY DEF RemoveConfig, CreateConfig, EditConfig, DeleteConfig, StoreInv, ReadInv
<1>2. BusyInv'
  <2>1. pc' = pc
    BY DEF RemoveConfig, CreateConfig, EditConfig, DeleteConfig
  <2>2. Quiet(c) \/ (life'[c] # "absent" /\ created' = created)
    <3>1. life \in [Configs -> {"absent", "live", "deleting"}]
      BY DEF StoreInv, LoopInv, ConfigsOK, TypeOK
    <3>2. CASE RemoveConfig(c)
      BY <3>2 DEF RemoveConfig
    <3>3. CASE CreateConfig(c) \/ EditConfig(c) \/ DeleteConfig(c)
      BY <3>1, <3>3 DEF CreateConfig, EditConfig, DeleteConfig
    <3>. QED BY <3>2, <3>3
  <2>3. \A e \in Configs \ {c} : life'[e] = life[e] /\ created'[e] = created[e]
    BY DEF RemoveConfig, CreateConfig, EditConfig, DeleteConfig, StoreInv, LoopInv,
           ConfigsOK, TypeOK
  <2>. QED BY <2>1, <2>2, <2>3 DEF StoreInv, BusyInv, Quiet
<1>3. CASE RemoveConfig(c)
  <2>1. Promised!Remove(c)
    BY <1>3 DEF RemoveConfig, Promised!Remove, bounds
  <2>. QED BY <1>1, <1>2, <2>1 DEF Promise, Promised!Next
<1>4. CASE CreateConfig(c) \/ EditConfig(c) \/ DeleteConfig(c)
  <2>1. Promised!UserStep
    BY <1>4 DEF CreateConfig, EditConfig, DeleteConfig, Edit, Promised!UserStep
  <2>. QED BY <1>1, <1>2, <2>1 DEF Promise, Promised!Next
<1>. QED BY <1>3, <1>4

LEMMA EnvironmentPromise ==
    ASSUME StoreInv, Environment
    PROVE  Promise
<1>1. CASE Crash
  <2>1. ReadInv' /\ \A p \in Handlers : pc'[p] = "idle"
    BY <1>1 DEF Crash, ReadInv, NoLocals, NoReading
  <2>. QED BY <1>1, <2>1, Unseen DEF Crash, config
<1>2. ASSUME NEW p \in Handlers, CallFails(p) PROVE Promise
  BY <1>2, LeaveKept, Unseen DEF CallFails, config
<1>3. ASSUME NEW p \in Handlers, AnswerLost(p) PROVE Promise
  <2>1. pc[p] = "patch" /\ p \in fresh /\ Store(p) /\ OthersKept(p)
    BY <1>3, MovesOthersKept DEF AnswerLost, Accepted, StoreInv
  <2>2. local'[p].power = NoReading
    BY <1>3 DEF AnswerLost, StoreInv, LoopInv, HandlersOK, NoLocals
  <2>3. \A q \in Handlers : pc'[q] # "idle" => pc[q] # "idle"
    BY <1>3 DEF AnswerLost, StoreInv, LoopInv, HandlersOK
  <2>4. ReadInv' /\ BusyInv'
    BY <1>3, <2>1, <2>2, <2>3, ReadKept, BusyKept DEF AnswerLost, StoreInv, config
  <2>5. \E c \in Configs, o \in Objects : Promised!SetBound(c, o)
    BY <1>3, <2>1, StoreSetsBound DEF AnswerLost, config
  <2>. QED BY <2>4, <2>5 DEF Promise, Promised!Next
<1>4. ASSUME NEW c \in Configs, CreateConfig(c) \/ EditConfig(c) \/ DeleteConfig(c)
      PROVE  Promise
  BY <1>4, ConfigsPromise
<1>5. ASSUME NEW o \in Objects, NEW new, WriteObject(o, new) PROVE Promise
  <2>1. ReadInv' /\ BusyInv'
    BY <1>5, BusyKept DEF WriteObject, StoreInv, ReadInv, config
  <2>2. Promised!UserStep
    <3>1. \A q \in Objects \ {o} : so'[q] = so[q]
      BY <1>5 DEF WriteObject, StoreInv, LoopInv, ConfigsOK, TypeOK
    <3>. QED BY <1>5, <3>1 DEF WriteObject, Edit, Promised!UserStep, config
  <2>. QED BY <2>1, <2>2 DEF Promise, Promised!Next
<1>6. ASSUME NEW o \in Objects, EditObject(o) \/ DeleteObject(o) \/ CreateObject(o)
      PROVE  Promise
  <2>1. PICK new \in ScaledObject \cup {None} : WriteObject(o, new)
    BY <1>6, ObjectEdits DEF StoreInv
  <2>. QED BY <1>5, <2>1
<1>. QED BY <1>1, <1>2, <1>3, <1>4, <1>6 DEF Environment

LEMMA NextPromise ==
    StoreInv /\ [Next]_vars => Promise
<1>. SUFFICES ASSUME StoreInv, [Next]_vars PROVE Promise
  OBVIOUS
<1>1. ASSUME NEW c \in Configs, CreateStep(c) PROVE Promise
  BY <1>1, HandlerNames, CreatePromise, CallsPromise DEF CreateStep
<1>2. ASSUME NEW c \in Configs, TimerStep(c) PROVE Promise
  BY <1>2, HandlerNames, TimerPromise, CallsPromise DEF TimerStep
<1>3. CASE UNCHANGED vars
  <2>1. ReadInv'
    BY <1>3 DEF vars, StoreInv, ReadInv
  <2>. QED BY <1>3, <2>1, Unseen DEF vars
<1>. QED BY <1>1, <1>2, <1>3, ConfigsPromise, EnvironmentPromise DEF Next

\* In every behaviour a handler that runs has its config, and what it has
\* sampled are answers of Prometheus.
THEOREM StoreInvariant == Spec => [](BusyInv /\ ReadInv)
<1>1. LoopInv /\ SnapshotFresh /\ BusyInv /\ ReadInv /\ [Next]_vars
        => (BusyInv /\ ReadInv)'
  BY NextPromise DEF StoreInv, Promise
<1>. QED BY <1>1, InitPromised, LoopInvariant, FreshCopies, PTL DEF Spec

\* The capping loop implements the store that CapStore describes, for every
\* number of handlers, objects, users and faults: as far as the owners of the
\* ScaledObjects can tell, a bound is computed and set in one step.
THEOREM LoopImplementsStore == Spec => ImplementsCapStore
<1>1. LoopInv /\ SnapshotFresh /\ BusyInv /\ ReadInv /\ [Next]_vars
        => [Promised!Next]_(Promised!storeVars)
  BY NextPromise DEF StoreInv, Promise
<1>. QED
  BY <1>1, InitPromised, StoreInvariant, LoopInvariant, FreshCopies, PTL
     DEF Spec, ImplementsCapStore, Promised!Spec
===============================================================================
