----------------------------- MODULE AlertPipeline -----------------------------
(***************************************************************************)
(* One replica of the Go controller, from a change of a pod to what the    *)
(* alert channels show: PodWatch and AlertFanout in one process.           *)
(*                                                                         *)
(* main subscribes the channels before it sets up the pod watch, a watch   *)
(* that has found its peak calls SendAlert, and the two parts live and die *)
(* together: a panic in a watch, or the race in the GitOps channel, takes  *)
(* the watches, the queued events and the alerts under way with it, all    *)
(* but the requests that have left.                                        *)
(*                                                                         *)
(* AlertFanout is extended, so Spec, Next and so on are its own; PodWatch  *)
(* is the instance W, for one replica.  Faults are counted together.       *)
(*                                                                         *)
(* An operator named Op_Variant is Op with a plausible bug; no definition  *)
(* uses it, it only shows that a property can fail (see README.md).        *)
(***************************************************************************)
EXTENDS AlertFanout, FiniteSets

CONSTANTS
    Replica,        \* the replica
    Labels, Configs, Peaks, Slots, MaxEdits     \* as in PodWatch

VARIABLES pods, configs, phase, prom, leader, queue, watch, alerts, edits

W == INSTANCE PodWatch WITH Managers <- {Replica}

\* What PodWatch assumes, of a single replica.
ASSUME PipelineAssumption ==
    /\ IsFiniteSet(Pods)
    /\ Configs \subseteq W!ConfigType
    /\ Peaks \subseteq Nat \cup {None}
    /\ None \notin Nat \cup Labels \cup {Replica} \cup W!ConfigType
    /\ MaxEdits \in Nat

fanoutVars == <<up, sent, call, wire, shows>>
watchVars == <<pods, configs, phase, prom, leader, queue, watch, alerts, edits>>
pipelineVars == <<fanoutVars, watchVars, faults>>

PipelineTypeOK == TypeOK /\ W!TypeOK

PipelineInit == Init /\ W!Init

\* The process of the watches ends: so do its alerts, and the other way round.
WatchEnds  == phase'[Replica] = "down"
FanoutEnds == ~up'

\* main: the alert service first, then the reconciler's informer.
Start == Subscribe /\ W!Boot(Replica)

Manage ==
    /\ \/ W!Sync(Replica) \/ W!Connect(Replica) \/ W!StartManager(Replica)
       \/ W!Elect(Replica) \/ W!HandlePodAdd(Replica)
    /\ UNCHANGED fanoutVars

Tick(s) ==
    /\ W!StartTicker(Replica, s)
    /\ IF WatchEnds THEN Exit ELSE UNCHANGED fanoutVars

Query(s) ==
    /\ W!QueryPeak(Replica, s) \/ W!QueryFails(Replica, s)
    /\ UNCHANGED fanoutVars

Unsent(p) == {a \in Alerts \ sent : PodOf[a] = p}

Publish_WhenIdle(p) ==
    IF Unsent(p) # {} /\ \A a \in sent, ch \in Channels : call[a][ch] # "started"
    THEN \E a \in Unsent(p) : SendAlert(a)
    ELSE UNCHANGED <<fanoutVars, faults>>

\* SendAlert for the watch's pod.  Bound: once all of the pod's calls in
\* Alerts are used, its further ones are not followed.
Publish(p) == IF Unsent(p) # {}
              THEN \E a \in Unsent(p) : SendAlert(a)
              ELSE UNCHANGED <<fanoutVars, faults>>

\* createAlert: the watch is over when SendAlert has returned, which is before
\* any channel has the alert.
Notify(s) == W!Notify(Replica, s) /\ Publish(watch[Replica][s].pod)

\* A goroutine of a channel goes on, or the channel's endpoint does.
Deliver(a, ch) ==
    /\ CreateAlert(a, ch) \/ Take(a, ch)
    /\ IF FanoutEnds /\ up THEN W!Exit(Replica) /\ UNCHANGED edits
                           ELSE UNCHANGED watchVars

DeliveryFails(a, ch) == PostFails(a, ch) /\ UNCHANGED watchVars

Killed == Kill /\ W!Exit(Replica) /\ UNCHANGED edits

Cluster ==
    /\ \/ \E p \in Pods : W!DeletePod(p) \/ \E n \in W!PodLabel : W!SetPod(p, n)
       \/ \E n \in Labels : W!SetConfig(n)
    /\ UNCHANGED fanoutVars

PipelineNext ==
    \/ Start \/ Manage \/ Killed \/ Cluster
    \/ \E s \in Slots : Tick(s) \/ Query(s) \/ Notify(s)
    \/ \E a \in Alerts, ch \in Channels : Deliver(a, ch) \/ DeliveryFails(a, ch)

PipelineSpec == PipelineInit /\ [][PipelineNext]_pipelineVars

\* As in the two parts.  A query that fails is an answer, too.
PipelineFairness ==
    /\ WF_pipelineVars(Start \/ Manage)
    /\ \A s \in Slots : WF_pipelineVars(Tick(s) \/ Query(s) \/ Notify(s))
    /\ \A a \in Alerts : \A ch \in Answering[a] : WF_pipelineVars(UnderWay(a, ch) /\ Deliver(a, ch))

FairPipeline == PipelineSpec /\ PipelineFairness

(***************************************************************************)
(* Properties.                                                             *)
(***************************************************************************)
Queued == {queue[Replica][i] : i \in DOMAIN queue[Replica]}

Watched == {[pod |-> watch[Replica][s].pod, label |-> watch[Replica][s].label] :
               s \in {s \in Slots : watch[Replica][s] # None}}

Open == {c \in Alerts \X Channels : call[c[1]][c[2]] \in {"started", "writing"}}

Board == INSTANCE AlertBoard WITH noticed <- Queued, watched <- Watched, open <- Open

\* To those who read the channels a replica is a board on which each alert
\* appears at most once per channel, under its own pod, and only after a watch
\* of that pod, for a config that asked for it when the pod's change was
\* handled.  Whichever goroutine ends the process, of all that was pending only
\* the requests that had left may appear afterwards: no event, watch or
\* goroutine survives (powercappingconfig_controller.go:170-240,
\* pubsub.go:23-34, prom_alert.go:82, slack.go:100).
ImplementsAlertBoard == Board!Spec

Pending(p, n) == [pod |-> p, label |-> n] \in Queued \cup Watched

Relative(n) == configs[n] # None /\ configs[n].kind = "relative"

\* End to end: every add or update of a labelled pod that a running replica has
\* not handled yet leads to a further alert about that pod, and on to every
\* channel that answers it, whatever the other calls do; unless the label's
\* config goes away, the process ends or a call fails in the meantime, a query
\* without data included (powercappingconfig_controller.go:170-240, 295,
\* alert/service.go, pubsub.go).
EventReachesChannels ==
    \A k \in 0..MaxFaults, p \in Pods, n \in Labels :
        \A S \in SUBSET {a \in Alerts : PodOf[a] = p} \ {{}} :
            /\ phase[Replica] = "running" /\ Relative(n) /\ Pending(p, n)
            /\ Unsent(p) = S /\ faults = k
            ~> \/ \E a \in S : \A ch \in Answering[a] : call[a][ch] = "returned"
               \/ ~Relative(n)
               \/ phase[Replica] = "down"
               \/ faults # k
================================================================================
