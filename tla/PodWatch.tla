------------------------------- MODULE PodWatch -------------------------------
(***************************************************************************)
(* The pod watch of the Go controller                                      *)
(* (internal/controller/powercappingconfig_controller.go).                 *)
(*                                                                         *)
(* Every replica of the controller manager runs an informer on pods.  The  *)
(* informer starts inside SetupWithManager, before the replica has its     *)
(* Prometheus client and before the manager's cache, which the handlers    *)
(* read, is started: events that are handled too early are dropped.  An    *)
(* add or update of a pod whose label names a relative PowerCappingConfig  *)
(* starts a goroutine, the watch.  It waits for the sample window, asks    *)
(* Prometheus for the peak power, and sends an alert with the power cap.   *)
(* A window that is not positive makes the goroutine panic, which ends the *)
(* whole process.                                                          *)
(*                                                                         *)
(* An operator named Op_Variant is Op with a plausible bug; no definition  *)
(* uses it, it only shows that a property can fail (see README.md).        *)
(***************************************************************************)
EXTENDS Integers, Sequences, SequencesExt, FiniteSets

CONSTANTS
    Managers,       \* replicas of the controller manager
    Pods,
    Labels,         \* values of the label climatik-project.io, config names
    Configs,        \* what users write into a PowerCappingConfig
    Peaks,          \* what Prometheus may answer, None for no data
    Slots,          \* bound: watches that one replica runs at a time
    None,           \* no label, no object, no leader, no answer
    MaxEdits,       \* bound: changes of pods and configs
    MaxFaults       \* bound: failed queries and killed replicas

ConfigType == [kind : {"relative", "other"}, window : Int]

ASSUME WatchAssumption ==
    /\ IsFiniteSet(Pods)
    /\ Configs \subseteq ConfigType
    /\ Peaks \subseteq Nat \cup {None}
    /\ None \notin Nat \cup Labels \cup Managers \cup ConfigType
    /\ MaxEdits \in Nat /\ MaxFaults \in Nat

VARIABLES
    pods,       \* the label of each pod in the cluster, "absent" without one
    configs,    \* the PowerCappingConfig of each name, or None
    phase,      \* how far each replica has come
    prom,       \* the replicas that have set PrometheusClient
    leader,     \* the replica that holds the lease, or None
    queue,      \* of each replica: pod events its handler has not seen
    watch,      \* of each replica: its watch goroutines
    alerts,     \* the alerts sent so far
    edits, faults

cluster == <<pods, configs>>
vars == <<pods, configs, phase, prom, leader, queue, watch, alerts, edits, faults>>

PodLabel == Labels \cup {None}
Event == [pod : Pods, label : PodLabel]
\* The variables of a watch: its pod, label and window, then the peak.
Watch == [pod : Pods, label : Labels, window : Int,
          at : {"start", "query", "devices"}, peak : Nat]
Alert == [pod : Pods, label : Labels, peak : Nat, cap : Nat, devices : BOOLEAN]

TypeOK ==
    /\ pods \in [Pods -> PodLabel \cup {"absent"}]
    /\ configs \in [Labels -> Configs \cup {None}]
    /\ phase \in [Managers -> {"down", "listing", "synced", "connected", "running"}]
    /\ prom \subseteq Managers
    /\ leader \in Managers \cup {None}
    /\ queue \in [Managers -> Seq(Event)]
    /\ watch \in [Managers -> [Slots -> Watch \cup {None}]]
    /\ alerts \subseteq Alert
    /\ edits \in 0..MaxEdits
    /\ faults \in 0..MaxFaults

NoWatches == [s \in Slots |-> None]

Init ==
    /\ pods = [p \in Pods |-> "absent"]
    /\ configs = [n \in Labels |-> None]
    /\ phase = [m \in Managers |-> "down"]
    /\ prom = {}
    /\ leader = None
    /\ queue = [m \in Managers |-> <<>>]
    /\ watch = [m \in Managers |-> NoWatches]
    /\ alerts = {}
    /\ edits = 0
    /\ faults = 0

(***************************************************************************)
(* The life of a replica: main and SetupWithManager.                       *)
(***************************************************************************)
\* The informer is started, and SetupWithManager waits for it to sync.
Boot(m) ==
    /\ phase[m] = "down"
    /\ phase' = [phase EXCEPT ![m] = "listing"]
    /\ UNCHANGED <<cluster, prom, leader, queue, watch, alerts, edits, faults>>

\* The informer has listed the pods: an add event for each, in any order.
Sync(m) ==
    /\ phase[m] = "listing"
    /\ phase' = [phase EXCEPT ![m] = "synced"]
    /\ LET present == {p \in Pods : pods[p] # "absent"} IN
       \E order \in SetToSeqs(present) :
          queue' = [queue EXCEPT ![m] =
                      [i \in DOMAIN order |-> [pod |-> order[i],
                                               label |-> pods[order[i]]]]]
    /\ UNCHANGED <<cluster, prom, leader, watch, alerts, edits, faults>>

Connect(m) ==
    /\ phase[m] = "synced"
    /\ phase' = [phase EXCEPT ![m] = "connected"]
    /\ prom' = prom \cup {m}
    /\ UNCHANGED <<cluster, leader, queue, watch, alerts, edits, faults>>

\* mgr.Start starts the cache of the client the handlers use, and only then
\* stands for election.
StartManager(m) ==
    /\ phase[m] = "connected"
    /\ phase' = [phase EXCEPT ![m] = "running"]
    /\ UNCHANGED <<cluster, prom, leader, queue, watch, alerts, edits, faults>>

Elect(m) ==
    /\ phase[m] = "running" /\ leader = None
    /\ leader' = m
    /\ UNCHANGED <<cluster, phase, prom, queue, watch, alerts, edits, faults>>

\* The process ends, with its goroutines; its lease expires.
Exit(m) ==
    /\ phase' = [phase EXCEPT ![m] = "down"]
    /\ prom' = prom \ {m}
    /\ leader' = IF leader = m THEN None ELSE leader
    /\ queue' = [queue EXCEPT ![m] = <<>>]
    /\ watch' = [watch EXCEPT ![m] = NoWatches]
    /\ UNCHANGED <<cluster, alerts>>

(***************************************************************************)
(* handlePodAdd, for an add or an update.                                  *)
(***************************************************************************)
CacheStarted_Connected(m) == phase[m] # "down"

\* r.Get on a cache that mgr.Start has not started yet returns an error.
CacheStarted(m) == phase[m] = "running"

Watches_AnyKind(m, e) ==
    e.label # None /\ CacheStarted(m) /\ configs[e.label] # None

\* The event is about a pod with a label that names a relative config.
Watches(m, e) ==
    /\ e.label # None
    /\ CacheStarted(m)
    /\ configs[e.label] # None
    /\ configs[e.label].kind = "relative"

HandlePodAdd(m) ==
    /\ phase[m] # "down" /\ queue[m] # <<>>
    /\ LET e == Head(queue[m]) IN
       IF Watches(m, e)
       THEN \E s \in Slots :
              /\ watch[m][s] = None
              /\ watch' = [watch EXCEPT ![m][s] =
                    [pod |-> e.pod, label |-> e.label, at |-> "start", peak |-> 0,
                     window |-> configs[e.label].window]]
       ELSE UNCHANGED watch
    /\ queue' = [queue EXCEPT ![m] = Tail(@)]
    /\ UNCHANGED <<cluster, phase, prom, leader, alerts, edits, faults>>

(***************************************************************************)
(* The watch goroutine: watchPodPowerUsage, then createAlert.              *)
(***************************************************************************)
ValidWindow_Minutes(window) == window >= 60

\* time.NewTicker panics when the window is not positive.
ValidWindow(window) == window > 0

StartTicker(m, s) ==
    /\ watch[m][s] # None /\ watch[m][s].at = "start"
    /\ IF ValidWindow(watch[m][s].window)
       THEN /\ watch' = [watch EXCEPT ![m][s].at = "query"]
            /\ UNCHANGED <<cluster, phase, prom, leader, queue, alerts>>
       ELSE Exit(m)
    /\ UNCHANGED <<edits, faults>>

\* The first tick: one query, and its answer is the peak.  Without an answer
\* the goroutine ends, and nobody watches the pod until its next update.
QueryPeak(m, s) ==
    /\ watch[m][s] # None /\ watch[m][s].at = "query"
    /\ \E peak \in Peaks :
          watch' = [watch EXCEPT ![m][s] =
                      IF peak = None THEN None
                      ELSE [@ EXCEPT !.at = "devices", !.peak = peak]]
    /\ UNCHANGED <<cluster, phase, prom, leader, queue, alerts, edits, faults>>

Percentage_Unknown(label) == CASE label = "high"   -> 90
                               [] label = "medium" -> 80
                               [] label = "low"    -> 50
                               [] OTHER            -> -1

\* getPowerCapPercentage: what is capped follows the label's three classes.
Percentage(label) == CASE label = "high"   -> 90
                       [] label = "medium" -> 80
                       [] label = "low"    -> 50
                       [] OTHER            -> 0

PowerCap(peak, label) == (peak * Percentage(label)) \div 100

Notify_Kept(m, s) ==
    /\ watch[m][s] # None /\ watch[m][s].at = "devices"
    /\ alerts' = alerts
    /\ watch' = [watch EXCEPT ![m][s] = None]
    /\ UNCHANGED <<cluster, phase, prom, leader, queue, edits, faults>>

\* The alert carries the devices only when both queries for them succeed.
Notify(m, s) ==
    /\ watch[m][s] # None /\ watch[m][s].at = "devices"
    /\ LET w == watch[m][s] IN
       \E devices \in BOOLEAN :
          alerts' = alerts \cup
             {[pod |-> w.pod, label |-> w.label, peak |-> w.peak,
               cap |-> PowerCap(w.peak, w.label), devices |-> devices]}
    /\ watch' = [watch EXCEPT ![m][s] = None]
    /\ UNCHANGED <<cluster, phase, prom, leader, queue, edits, faults>>

(***************************************************************************)
(* Failures.                                                               *)
(***************************************************************************)
Fault == faults < MaxFaults /\ faults' = faults + 1

QueryFails(m, s) ==
    /\ Fault
    /\ watch[m][s] # None /\ watch[m][s].at = "query"
    /\ watch' = [watch EXCEPT ![m][s] = None]
    /\ UNCHANGED <<cluster, phase, prom, leader, queue, alerts, edits>>

Kill(m) == Fault /\ phase[m] # "down" /\ Exit(m) /\ UNCHANGED edits

(***************************************************************************)
(* Pods and configs come, change and go.                                   *)
(***************************************************************************)
Edit == edits < MaxEdits /\ edits' = edits + 1

\* An informer that has listed the pods sees every later change.  Deletions
\* have a handler that does nothing, so no event is kept for them.
SetPod(p, label) ==
    /\ Edit
    /\ pods' = [pods EXCEPT ![p] = label]
    /\ queue' = [m \in Managers |->
                   IF phase[m] \in {"synced", "connected", "running"}
                   THEN Append(queue[m], [pod |-> p, label |-> label])
                   ELSE queue[m]]
    /\ UNCHANGED <<configs, phase, prom, leader, watch, alerts, faults>>

DeletePod(p) ==
    /\ Edit
    /\ pods[p] # "absent"
    /\ pods' = [pods EXCEPT ![p] = "absent"]
    /\ UNCHANGED <<configs, phase, prom, leader, queue, watch, alerts, faults>>

SetConfig(n) ==
    /\ Edit
    /\ \E c \in (Configs \cup {None}) \ {configs[n]} :
          configs' = [configs EXCEPT ![n] = c]
    /\ UNCHANGED <<pods, phase, prom, leader, queue, watch, alerts, faults>>

ManagerStep(m) ==
    \/ Boot(m) \/ Sync(m) \/ Connect(m) \/ StartManager(m)

WatchStep(m, s) == StartTicker(m, s) \/ QueryPeak(m, s) \/ Notify(m, s)

Environment ==
    \/ \E m \in Managers : Kill(m) \/ \E s \in Slots : QueryFails(m, s)
    \/ \E p \in Pods : DeletePod(p) \/ \E label \in PodLabel : SetPod(p, label)
    \/ \E n \in Labels : SetConfig(n)

Next ==
    \/ \E m \in Managers : \/ ManagerStep(m) \/ Elect(m) \/ HandlePodAdd(m)
                           \/ \E s \in Slots : WatchStep(m, s)
    \/ Environment

Spec == Init /\ [][Next]_vars

\* A replica that is down is restarted, its start-up and its informer go on,
\* and goroutines are scheduled: the ticker fires, a query returns.
Fairness == \A m \in Managers :
    /\ WF_vars(ManagerStep(m))
    /\ WF_vars(HandlePodAdd(m))
    /\ \A s \in Slots : WF_vars(WatchStep(m, s))

FairSpec == Spec /\ Fairness

(***************************************************************************)
(* Safety.                                                                 *)
(***************************************************************************)
\* A watch is only started once its replica has a Prometheus client: although
\* pod events are handled from line 126 on and the client is set at line 139,
\* no goroutine dereferences a nil client.
ClientBeforeQuery ==
    \A m \in Managers : (\E s \in Slots : watch[m][s] # None) => m \in prom

(***************************************************************************)
(* Liveness.                                                               *)
(***************************************************************************)
\* A sample window that is not positive brings a replica down, and down again
\* while a listed pod names its config; but only for as long as such a config
\* is there.  Nothing else a pod, a config or a lost answer does keeps a replica
\* from getting up and staying up (powercappingconfig_controller.go:92-144, 251).
StaysUp ==
    <>[](\A n \in Labels : configs[n] # None =>
            configs[n].kind = "other" \/ configs[n].window > 0)
        => <>[](\A m \in Managers : phase[m] = "running")

(***************************************************************************)
(* What the repository says of the pod watch.                              *)
(***************************************************************************)
\* cmd/controller/main.go:64-65: leader election ensures there is only one
\* active controller manager; so while there is a leader, only it sends alerts.
OnlyLeaderAlerts ==
    [][alerts' # alerts /\ leader # None => watch'[leader] # watch[leader]]_vars
===============================================================================
