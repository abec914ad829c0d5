-------------------------- MODULE AlertPipelineProofs --------------------------
(***************************************************************************)
(* Proofs about AlertPipeline, for any channels, alerts, pods, configs,    *)
(* watches, edits and faults.                                              *)
(*                                                                         *)
(* The lemmas of the two parts are used as they are: those of AlertFanout  *)
(* by extension, those of PodWatch through the instance WP, for the one    *)
(* replica.  What is new is that the parts share a process.                *)
(***************************************************************************)
EXTENDS AlertPipeline, Sequences, AlertFanoutProofs

WP == INSTANCE PodWatchProofs WITH Managers <- {Replica}

\* The watches and the fan-out live and die together.
OneProcess == up <=> phase[Replica] # "down"

PipelineInv == FanoutInv /\ WP!WatchInv /\ OneProcess

(***************************************************************************)
(* The assumption and the definitions of the instance.                     *)
(***************************************************************************)
LEMMA WatchAssumed == WP!WatchAssumption
<1>1. WP!IsFiniteSet(Pods)
  BY PipelineAssumption DEF IsFiniteSet, WP!IsFiniteSet
<1>. QED BY <1>1, PipelineAssumption, FanoutAssumption
         DEF WP!WatchAssumption, WP!ConfigType, W!ConfigType

LEMMA SameType == W!TypeOK <=> WP!TypeOK
BY DEF W!TypeOK, WP!TypeOK, W!PodLabel, WP!PodLabel, W!Event, WP!Event,
       W!Watch, WP!Watch, W!Alert, WP!Alert

\* PodWatch's actions are the same in both of its instances.
LEMMA SameManage ==
    /\ W!Boot(Replica) => WP!Boot(Replica)
    /\ W!Sync(Replica) => WP!Sync(Replica)
    /\ W!Connect(Replica) => WP!Connect(Replica)
    /\ W!StartManager(Replica) => WP!StartManager(Replica)
    /\ W!Elect(Replica) => WP!Elect(Replica)
    /\ W!HandlePodAdd(Replica) => WP!HandlePodAdd(Replica)
    /\ W!Exit(Replica) => WP!Exit(Replica)
<1>. USE DEF W!cluster, WP!cluster
<1>1. W!Boot(Replica) => WP!Boot(Replica)
  BY DEF W!Boot, WP!Boot
<1>2. W!Sync(Replica) => WP!Sync(Replica)
  BY DEF W!Sync, WP!Sync, W!SetToSeqs, WP!SetToSeqs, W!Cardinality, WP!Cardinality
<1>3. W!Connect(Replica) => WP!Connect(Replica)
  BY DEF W!Connect, WP!Connect
<1>4. W!StartManager(Replica) => WP!StartManager(Replica)
  BY DEF W!StartManager, WP!StartManager
<1>5. W!Elect(Replica) => WP!Elect(Replica)
  BY DEF W!Elect, WP!Elect
<1>6. W!HandlePodAdd(Replica) => WP!HandlePodAdd(Replica)
  BY DEF W!HandlePodAdd, WP!HandlePodAdd, W!Watches, WP!Watches,
         W!CacheStarted, WP!CacheStarted
<1>7. W!Exit(Replica) => WP!Exit(Replica)
  BY DEF W!Exit, WP!Exit, W!NoWatches, WP!NoWatches
<1>. QED BY <1>1, <1>2, <1>3, <1>4, <1>5, <1>6, <1>7

LEMMA SameWatch ==
    ASSUME NEW s \in Slots
    PROVE  /\ W!StartTicker(Replica, s) => WP!StartTicker(Replica, s)
           /\ W!QueryPeak(Replica, s) => WP!QueryPeak(Replica, s)
           /\ W!QueryFails(Replica, s) => WP!QueryFails(Replica, s)
           /\ W!Notify(Replica, s) => WP!Notify(Replica, s)
<1>. USE DEF W!cluster, WP!cluster
<1>1. W!StartTicker(Replica, s) => WP!StartTicker(Replica, s)
  BY SameManage DEF W!StartTicker, WP!StartTicker, W!ValidWindow, WP!ValidWindow
<1>2. W!QueryPeak(Replica, s) => WP!QueryPeak(Replica, s)
  BY DEF W!QueryPeak, WP!QueryPeak
<1>3. W!QueryFails(Replica, s) => WP!QueryFails(Replica, s)
  BY DEF W!QueryFails, WP!QueryFails, W!Fault, WP!Fault
<1>4. W!Notify(Replica, s) => WP!Notify(Replica, s)
  BY DEF W!Notify, WP!Notify, W!PowerCap, WP!PowerCap, W!Percentage, WP!Percentage
<1>. QED BY <1>1, <1>2, <1>3, <1>4

LEMMA SameCluster ==
    /\ \A p \in Pods : W!DeletePod(p) => WP!DeletePod(p)
    /\ \A p \in Pods, n \in W!PodLabel :
          n \in WP!PodLabel /\ (W!SetPod(p, n) => WP!SetPod(p, n))
    /\ \A n \in Labels : W!SetConfig(n) => WP!SetConfig(n)
BY DEF W!DeletePod, WP!DeletePod, W!SetPod, WP!SetPod, W!SetConfig, WP!SetConfig,
       W!Edit, WP!Edit, W!PodLabel, WP!PodLabel

(***************************************************************************)
(* Each action keeps PipelineInv.                                          *)
(***************************************************************************)
\* A step of one part leaves the invariant of the other alone.
LEMMA FanoutIdle ==
    ASSUME FanoutInv, UNCHANGED fanoutVars, faults' \in 0..MaxFaults
    PROVE  FanoutInv'
BY DEF fanoutVars, FanoutInv, TypeOK, CallsSent, WirePosted, ShownSpent, Spent, UnderWay

LEMMA WatchIdle ==
    ASSUME WP!WatchInv, UNCHANGED watchVars, faults' \in 0..MaxFaults
    PROVE  WP!WatchInv'
BY DEF watchVars, WP!WatchInv, WP!TypeOK, WP!StartupOrder

LEMMA PhaseType ==
    ASSUME WP!WatchInv
    PROVE  /\ phase \in [{Replica} -> {"down", "listing", "synced", "connected", "running"}]
           /\ faults \in 0..MaxFaults /\ edits \in 0..MaxEdits
BY DEF WP!WatchInv, WP!TypeOK

LEMMA PipelineInitInv == PipelineInit => PipelineInv
<1>. SUFFICES ASSUME PipelineInit PROVE PipelineInv
  OBVIOUS
<1>1. FanoutInv
  BY InitInv DEF PipelineInit
<1>2. WP!Init
  BY DEF PipelineInit, W!Init, WP!Init, W!NoWatches, WP!NoWatches
<1>3. WP!WatchInv
  BY <1>2, WatchAssumed, WP!InitInv DEF WP!WatchAssumption
<1>4. OneProcess
  BY <1>2 DEF PipelineInit, Init, WP!Init, OneProcess
<1>. QED BY <1>1, <1>3, <1>4 DEF PipelineInv

LEMMA StartInv ==
    ASSUME PipelineInv, Start
    PROVE  PipelineInv'
<1>1. WP!Boot(Replica) /\ Subscribe
  BY SameManage DEF Start
<1>2. WP!WatchInv'
  BY <1>1, WatchAssumed, WP!BootInv DEF WP!WatchAssumption, PipelineInv
<1>3. FanoutInv'
  BY <1>1, NextInv DEF Next, PipelineInv
<1>4. OneProcess'
  BY <1>1, PhaseType DEF Subscribe, WP!Boot, PipelineInv, OneProcess
<1>. QED BY <1>2, <1>3, <1>4 DEF PipelineInv

LEMMA ManageInv ==
    ASSUME PipelineInv, Manage
    PROVE  PipelineInv'
<1>1. \/ WP!Sync(Replica) \/ WP!Connect(Replica) \/ WP!StartManager(Replica)
      \/ WP!Elect(Replica) \/ WP!HandlePodAdd(Replica)
  BY SameManage DEF Manage
<1>2. WP!WatchInv'
  BY <1>1, WatchAssumed, WP!SyncInv, WP!ConnectInv, WP!StartManagerInv, WP!ElectInv,
     WP!HandlePodAddInv DEF WP!WatchAssumption, PipelineInv
<1>3. FanoutInv'
  BY <1>2, PhaseType, FanoutIdle DEF Manage, PipelineInv, WP!WatchInv, WP!TypeOK
<1>4. phase'[Replica] # "down" /\ phase[Replica] # "down"
  BY <1>1, PhaseType DEF PipelineInv, WP!Sync, WP!Connect, WP!StartManager, WP!Elect,
     WP!HandlePodAdd
<1>5. OneProcess'
  BY <1>4 DEF Manage, PipelineInv, OneProcess, fanoutVars
<1>. QED BY <1>2, <1>3, <1>5 DEF PipelineInv

LEMMA TickInv ==
    ASSUME PipelineInv, NEW s \in Slots, Tick(s)
    PROVE  PipelineInv'
<1>1. WP!StartTicker(Replica, s)
  BY SameWatch DEF Tick
<1>2. WP!WatchInv'
  BY <1>1, WatchAssumed, WP!StartTickerInv DEF WP!WatchAssumption, PipelineInv
<1>3. faults' \in 0..MaxFaults
  BY <1>2 DEF WP!WatchInv, WP!TypeOK
<1>4. FanoutInv'
  BY <1>3, FanoutIdle, ExitInv DEF Tick, PipelineInv
<1>5. OneProcess'
  <2>1. CASE WatchEnds
    BY <2>1 DEF Tick, Exit, WatchEnds, OneProcess
  <2>2. CASE ~WatchEnds
    <3>1. phase' = phase
      BY <1>1, <2>2, PhaseType DEF WP!StartTicker, WP!Exit, WatchEnds, PipelineInv
    <3>. QED BY <2>2, <3>1 DEF Tick, PipelineInv, OneProcess, fanoutVars
  <2>. QED BY <2>1, <2>2
<1>. QED BY <1>2, <1>4, <1>5 DEF PipelineInv

LEMMA QueryInv ==
    ASSUME PipelineInv, NEW s \in Slots, Query(s)
    PROVE  PipelineInv'
<1>1. WP!QueryPeak(Replica, s) \/ WP!QueryFails(Replica, s)
  BY SameWatch DEF Query
<1>2. WP!WatchInv'
  BY <1>1, WatchAssumed, WP!QueryPeakInv, WP!FaultsInv DEF WP!WatchAssumption, PipelineInv
<1>3. FanoutInv'
  BY <1>2, FanoutIdle DEF Query, PipelineInv, WP!WatchInv, WP!TypeOK
<1>4. OneProcess'
  BY <1>1 DEF Query, PipelineInv, OneProcess, fanoutVars, WP!QueryPeak, WP!QueryFails
<1>. QED BY <1>2, <1>3, <1>4 DEF PipelineInv

LEMMA PublishInv ==
    ASSUME PipelineInv, NEW s \in Slots, Notify(s)
    PROVE  PipelineInv'
<1>1. WP!Notify(Replica, s)
  BY SameWatch DEF Notify
<1>2. WP!WatchInv'
  BY <1>1, WatchAssumed, WP!NotifyInv DEF WP!WatchAssumption, PipelineInv
<1>3. faults' \in 0..MaxFaults
  BY <1>2 DEF WP!WatchInv, WP!TypeOK
<1>4. UNCHANGED phase
  BY <1>1 DEF WP!Notify
<1>5. CASE UNCHANGED fanoutVars
  BY <1>2, <1>3, <1>4, <1>5, FanoutIdle DEF PipelineInv, OneProcess, fanoutVars
<1>6. ASSUME NEW a \in Alerts, SendAlert(a) PROVE PipelineInv'
  <2>1. FanoutInv'
    BY <1>6, SendAlertInv DEF PipelineInv
  <2>2. OneProcess'
    BY <1>4, <1>6 DEF SendAlert, PipelineInv, OneProcess
  <2>. QED BY <1>2, <2>1, <2>2 DEF PipelineInv
<1>. QED BY <1>5, <1>6 DEF Notify, Publish, Unsent

LEMMA DeliverInv ==
    ASSUME PipelineInv, NEW a \in Alerts, NEW ch \in Channels,
           Deliver(a, ch) \/ DeliveryFails(a, ch)
    PROVE  PipelineInv'
<1>1. CreateAlert(a, ch) \/ Take(a, ch) \/ PostFails(a, ch)
  BY DEF Deliver, DeliveryFails
<1>2. FanoutInv'
  BY <1>1, CreateAlertInv, TakeInv, PostFailsInv DEF PipelineInv
<1>3. faults' \in 0..MaxFaults
  BY <1>2 DEF FanoutInv, TypeOK
<1>4. CASE FanoutEnds /\ up
  <2>1. WP!Exit(Replica) /\ UNCHANGED edits
    BY <1>4, SameManage DEF Deliver, DeliveryFails, PostFails, FanoutEnds
  <2>2. WP!WatchInv'
    BY <1>3, <2>1, PhaseType, WatchAssumed, WP!ExitInv DEF WP!WatchAssumption, PipelineInv
  <2>3. OneProcess'
    BY <1>4, <2>1, PhaseType DEF FanoutEnds, WP!Exit, PipelineInv, OneProcess
  <2>. QED BY <1>2, <2>2, <2>3 DEF PipelineInv
<1>5. CASE ~(FanoutEnds /\ up)
  <2>1. UNCHANGED watchVars
    BY <1>5 DEF Deliver, DeliveryFails
  <2>2. up' = up
    BY <1>1, <1>5 DEF FanoutEnds, CreateAlert, Post, Answered, BeginWrite, EndWrite, Exit, Take,
       PostFails, PipelineInv, FanoutInv, TypeOK
  <2>3. OneProcess'
    BY <2>1, <2>2 DEF watchVars, PipelineInv, OneProcess
  <2>. QED BY <1>2, <1>3, <2>1, <2>3, WatchIdle DEF PipelineInv
<1>. QED BY <1>4, <1>5

LEMMA KilledInv ==
    ASSUME PipelineInv, Killed
    PROVE  PipelineInv'
<1>1. Kill /\ Exit /\ WP!Exit(Replica) /\ UNCHANGED edits
  BY SameManage DEF Killed, Kill
<1>2. faults' \in 0..MaxFaults
  BY <1>1, KillFaults DEF PipelineInv
<1>3. FanoutInv'
  BY <1>1, <1>2, ExitInv DEF PipelineInv
<1>4. WP!WatchInv'
  BY <1>1, <1>2, PhaseType, WatchAssumed, WP!ExitInv DEF WP!WatchAssumption, PipelineInv
<1>5. OneProcess'
  BY <1>1, PhaseType DEF Exit, WP!Exit, PipelineInv, OneProcess
<1>. QED BY <1>3, <1>4, <1>5 DEF PipelineInv

LEMMA ClusterStepInv ==
    ASSUME PipelineInv, Cluster
    PROVE  PipelineInv'
<1>1. \/ \E p \in Pods : WP!DeletePod(p) \/ \E n \in WP!PodLabel : WP!SetPod(p, n)
      \/ \E n \in Labels : WP!SetConfig(n)
  BY SameCluster DEF Cluster
<1>2. WP!WatchInv'
  BY <1>1, WatchAssumed, WP!ClusterInv DEF WP!WatchAssumption, PipelineInv
<1>3. FanoutInv'
  BY <1>2, FanoutIdle DEF Cluster, PipelineInv, WP!WatchInv, WP!TypeOK
<1>4. OneProcess'
  BY <1>1 DEF Cluster, PipelineInv, OneProcess, fanoutVars, WP!DeletePod, WP!SetPod,
     WP!SetConfig
<1>. QED BY <1>2, <1>3, <1>4 DEF PipelineInv

LEMMA PipelineNextInv == PipelineInv /\ [PipelineNext]_pipelineVars => PipelineInv'
<1>. SUFFICES ASSUME PipelineInv, [PipelineNext]_pipelineVars PROVE PipelineInv'
  OBVIOUS
<1>1. CASE Start \/ Manage \/ Killed \/ Cluster
  BY <1>1, StartInv, ManageInv, KilledInv, ClusterStepInv
<1>2. ASSUME NEW s \in Slots, Tick(s) \/ Query(s) \/ Notify(s) PROVE PipelineInv'
  BY <1>2, TickInv, QueryInv, PublishInv
<1>3. ASSUME NEW a \in Alerts, NEW ch \in Channels,
             Deliver(a, ch) \/ DeliveryFails(a, ch)
      PROVE  PipelineInv'
  BY <1>3, DeliverInv
<1>4. CASE UNCHANGED pipelineVars
  <2>1. UNCHANGED fanoutVars /\ UNCHANGED watchVars /\ faults' \in 0..MaxFaults
    BY <1>4, PhaseType DEF pipelineVars, PipelineInv
  <2>. QED BY <2>1, FanoutIdle, WatchIdle
           DEF PipelineInv, OneProcess, fanoutVars, watchVars
<1>. QED BY <1>1, <1>2, <1>3, <1>4 DEF PipelineNext

\* In every behaviour of a replica its two parts keep their invariants although
\* either can end the other, and they live and die together.
THEOREM PipelineInvariant == PipelineSpec => []PipelineInv
BY PipelineInitInv, PipelineNextInv, PTL DEF PipelineSpec

\* Type correctness of the replica.
THEOREM PipelineTypeCorrect == PipelineSpec => []PipelineTypeOK
<1>1. PipelineInv => PipelineTypeOK
  BY SameType DEF PipelineInv, FanoutInv, WP!WatchInv, PipelineTypeOK
<1>. QED BY <1>1, PipelineInvariant, PTL

\* What the watches do to the fan-out is to end it or to send an alert.
LEMMA PipelineStaysSpent ==
    ASSUME NEW a \in Alerts, NEW ch \in Channels
    PROVE  PipelineInv /\ Spent(a, ch) /\ [PipelineNext]_pipelineVars
              => Spent(a, ch)' /\ (Showing(a, ch)' => Showing(a, ch))
<1>. DEFINE Kept == Spent(a, ch)' /\ (Showing(a, ch)' => Showing(a, ch))
<1>. SUFFICES ASSUME PipelineInv, Spent(a, ch), [PipelineNext]_pipelineVars PROVE Kept
  OBVIOUS
<1>1. CASE UNCHANGED fanoutVars
  BY <1>1 DEF fanoutVars, Spent, Showing
<1>2. CASE Exit
  BY <1>2, ExitStaysSpent
<1>3. CASE Subscribe
  BY <1>3 DEF Subscribe, Spent, Showing
<1>4. ASSUME NEW b \in Alerts, SendAlert(b) PROVE Kept
  BY <1>4, SendStaysSpent DEF PipelineInv, Showing
<1>5. ASSUME NEW b \in Alerts, NEW c \in Channels, Deliver(b, c) \/ DeliveryFails(b, c)
      PROVE  Kept
  BY <1>5, CallStaysSpent DEF Deliver, DeliveryFails, PipelineInv
<1>6. ASSUME NEW s \in Slots, Tick(s) \/ Query(s) \/ Notify(s)
      PROVE  \/ UNCHANGED fanoutVars \/ Exit
             \/ \E b \in Alerts : SendAlert(b)
  BY <1>6 DEF Tick, Query, Notify, Publish, Unsent
<1>7. CASE Start \/ Manage \/ Killed \/ Cluster \/ UNCHANGED pipelineVars
  BY <1>1, <1>2, <1>3, <1>7 DEF Start, Manage, Killed, Kill, Cluster, pipelineVars
<1>. QED BY <1>1, <1>2, <1>4, <1>5, <1>6, <1>7 DEF PipelineNext

\* Also in one process with the watches, whose panics end it at any moment, no
\* channel goes back to an alert that was replaced there.
THEOREM PipelineNeverShownAgain == PipelineSpec => ShownOnce
<1>. SUFFICES ASSUME NEW a \in Alerts, NEW ch \in Channels
              PROVE  PipelineSpec =>
                        [](Showing(a, ch) => [](~Showing(a, ch) => []~Showing(a, ch)))
  BY DEF ShownOnce
<1>1. PipelineInv => (Showing(a, ch) => Spent(a, ch))
  BY ShowingSpent DEF PipelineInv
<1>2. PipelineInv /\ Spent(a, ch) /\ [PipelineNext]_pipelineVars
         => Spent(a, ch)' /\ (Showing(a, ch)' => Showing(a, ch))
  BY PipelineStaysSpent
<1>. QED BY <1>1, <1>2, PipelineInvariant, PTL DEF PipelineSpec

(***************************************************************************)
(* AlertPipeline implements AlertBoard: what the steps do to the queued    *)
(* events, the watches and the calls under way.                            *)
(***************************************************************************)
LEMMA QueuedHead ==
    ASSUME PipelineInv, queue[Replica] # <<>>,
           queue' = [queue EXCEPT ![Replica] = Tail(@)]
    PROVE  /\ Head(queue[Replica]) \in WP!Event \cap Queued
           /\ Queued' \subseteq Queued
<1>. DEFINE q == queue[Replica]
<1>1. q \in Seq(WP!Event) /\ q # <<>> /\ queue'[Replica] = Tail(q)
  BY DEF PipelineInv, WP!WatchInv, WP!TypeOK
<1>. HIDE DEF q
<1>2. Head(q) \in WP!Event /\ Head(q) = q[1] /\ 1 \in DOMAIN q
  BY <1>1
<1>3. /\ DOMAIN q = 1..Len(q) /\ Len(q) \in Nat
      /\ DOMAIN Tail(q) = 1..(Len(q) - 1)
      /\ \A i \in 1..(Len(q) - 1) : Tail(q)[i] = q[i + 1]
  BY <1>1
<1>4. \A i \in DOMAIN Tail(q) : i + 1 \in DOMAIN q /\ Tail(q)[i] = q[i + 1]
  BY <1>3
<1>. QED BY <1>1, <1>2, <1>4 DEF q, Queued

LEMMA QueuedAppend ==
    ASSUME PipelineInv, NEW e \in WP!Event,
           queue' = [m \in {Replica} |-> Append(queue[m], e)]
    PROVE  Queued' = Queued \cup {e}
<1>. DEFINE q == queue[Replica]
<1>1. q \in Seq(WP!Event) /\ queue'[Replica] = Append(q, e)
  BY DEF PipelineInv, WP!WatchInv, WP!TypeOK
<1>2. /\ DOMAIN q = 1..Len(q) /\ Len(q) \in Nat
      /\ DOMAIN Append(q, e) = 1..(Len(q) + 1)
      /\ \A i \in 1..Len(q) : Append(q, e)[i] = q[i]
      /\ Append(q, e)[Len(q) + 1] = e
  BY <1>1
<1>3. Queued' = {Append(q, e)[i] : i \in 1..(Len(q) + 1)}
  BY <1>1, <1>2 DEF Queued
<1>4. Queued = {q[i] : i \in 1..Len(q)}
  BY <1>2 DEF Queued
<1>5. 1..(Len(q) + 1) = 1..Len(q) \cup {Len(q) + 1}
  BY <1>2
<1>. HIDE DEF q
<1>. QED BY <1>2, <1>3, <1>4, <1>5

\* A watch is replaced: the board sees its pod and label, and those alone.
LEMMA WatchedReplaced ==
    ASSUME PipelineInv, NEW s \in Slots, NEW w,
           watch' = [watch EXCEPT ![Replica][s] = w]
    PROVE  /\ w = None => Watched' \subseteq Watched
           /\ Watched' \subseteq Watched \cup {[pod |-> w.pod, label |-> w.label]}
           /\ watch[Replica][s] = None /\ w # None =>
                 Watched' = Watched \cup {[pod |-> w.pod, label |-> w.label]}
<1>1. /\ watch'[Replica][s] = w
      /\ \A t \in Slots \ {s} : watch'[Replica][t] = watch[Replica][t]
  BY DEF PipelineInv, WP!WatchInv, WP!TypeOK
<1>. QED BY <1>1 DEF Watched

LEMMA WatchedIn ==
    ASSUME NEW s \in Slots, watch[Replica][s] # None
    PROVE  [pod |-> watch[Replica][s].pod, label |-> watch[Replica][s].label] \in Watched
BY DEF Watched

LEMMA OpenSent ==
    ASSUME FanoutInv, NEW a \in Alerts, SendAlert(a)
    PROVE  Open' = Open \cup ({a} \X Channels)
<1>1. \A b \in Alerts, ch \in Channels :
         call'[b][ch] = IF b = a THEN "started" ELSE call[b][ch]
  BY DEF SendAlert, FanoutInv, TypeOK
<1>. QED BY <1>1 DEF Open

LEMMA OpenLeft ==
    ASSUME FanoutInv, NEW a \in Alerts, NEW ch \in Channels,
           Moves(a, ch, "waiting") \/ Moves(a, ch, "returned")
    PROVE  Open' = Open \ {<<a, ch>>}
<1>1. PICK at \in {"waiting", "returned"} : Moves(a, ch, at)
  OBVIOUS
<1>2. \A b \in Alerts, c \in Channels :
         call'[b][c] = IF <<b, c>> = <<a, ch>> THEN at ELSE call[b][c]
  BY <1>1 DEF Moves, FanoutInv, TypeOK
<1>. QED BY <1>2 DEF Open

LEMMA OpenWriting ==
    ASSUME FanoutInv, NEW a \in Alerts, "gitops" \in Channels,
           call[a]["gitops"] = "started",
           call' = [call EXCEPT ![a]["gitops"] = "writing"]
    PROVE  Open' = Open
<1>1. \A b \in Alerts, c \in Channels :
         call'[b][c] = IF <<b, c>> = <<a, "gitops">> THEN "writing" ELSE call[b][c]
  BY DEF FanoutInv, TypeOK
<1>. QED BY <1>1 DEF Open

\* Whoever ends the process, nothing stays pending but the requests that left.
LEMMA BothEnd ==
    ASSUME PipelineInv, Exit, WP!Exit(Replica)
    PROVE  Board!End
<1>1. Open' = {}
  BY DEF Exit, Open, UnderWay
<1>2. Queued' = {} /\ Watched' = {}
  BY DEF WP!Exit, WP!NoWatches, Queued, Watched, PipelineInv, WP!WatchInv, WP!TypeOK
<1>3. shows' = [ch \in Channels |->
                   IF ch = "gitops" THEN [p \in Pods |-> None] ELSE shows[ch]]
  BY DEF Exit, HTTP
<1>. QED BY <1>1, <1>2, <1>3 DEF Board!End, Exit, WP!Exit, WP!cluster

(***************************************************************************)
(* Every step is a step of the board, or none.                             *)
(***************************************************************************)
BoardStep == [Board!Next]_(Board!boardVars)

LEMMA NoStep ==
    ASSUME UNCHANGED <<pods, configs, Queued, Watched, sent, Open, wire, shows>>
    PROVE  BoardStep
BY DEF BoardStep, Board!boardVars

LEMMA ForgetStep ==
    ASSUME Queued' \subseteq Queued, Watched' \subseteq Watched,
           UNCHANGED <<pods, configs, sent, Open, wire, shows>>
    PROVE  BoardStep
BY DEF BoardStep, Board!Next, Board!Forget

LEMMA FanoutStill ==
    ASSUME UNCHANGED fanoutVars
    PROVE  UNCHANGED <<sent, Open, wire, shows>>
BY DEF fanoutVars, Open

LEMMA StartStep ==
    ASSUME PipelineInv, Start
    PROVE  BoardStep
<1>1. WP!Boot(Replica) /\ Subscribe
  BY SameManage DEF Start
<1>. QED BY <1>1, NoStep DEF WP!Boot, WP!cluster, Subscribe, Queued, Watched, Open

LEMMA ListStep ==
    ASSUME PipelineInv, WP!Sync(Replica), UNCHANGED fanoutVars
    PROVE  BoardStep
<1>1. Queued' = {[pod |-> p, label |-> pods[p]] : p \in {q \in Pods : pods[q] # "absent"}}
  BY WatchAssumed, WP!ListingIsAll DEF WP!WatchAssumption, PipelineInv, Queued
<1>2. UNCHANGED <<pods, configs, Watched>>
  BY DEF WP!Sync, WP!cluster, Watched
<1>. QED BY <1>1, <1>2, FanoutStill DEF BoardStep, Board!Next, Board!List

LEMMA HandleStep ==
    ASSUME PipelineInv, WP!HandlePodAdd(Replica), UNCHANGED fanoutVars
    PROVE  BoardStep
<1>. DEFINE e == Head(queue[Replica])
            w == [pod |-> e.pod, label |-> e.label, at |-> "start", peak |-> 0,
                  window |-> configs[e.label].window]
<1>1. /\ e \in WP!Event /\ e \in Queued
      /\ Queued' \subseteq Queued
  BY QueuedHead DEF WP!HandlePodAdd
<1>2. UNCHANGED <<pods, configs, sent, Open, wire, shows>>
  BY FanoutStill DEF WP!HandlePodAdd, WP!cluster
<1>3. CASE WP!Watches(Replica, e)
  <2>1. PICK s \in Slots :
           watch[Replica][s] = None /\ watch' = [watch EXCEPT ![Replica][s] = w]
    BY <1>3 DEF WP!HandlePodAdd
  <2>2. /\ e.label \in Labels
        /\ configs[e.label] # None /\ configs[e.label].kind = "relative"
    BY <1>1, <1>3 DEF WP!Watches, WP!Event, WP!PodLabel
  <2>3. [pod |-> w.pod, label |-> w.label] = e
    BY <1>1 DEF WP!Event
  <2>. HIDE DEF e, w
  <2>4. CASE w = None
    BY <1>1, <1>2, <2>1, <2>4, WatchedReplaced, ForgetStep
  <2>5. CASE w # None
    <3>1. Watched' = Watched \cup {e}
      BY <2>1, <2>3, <2>5, WatchedReplaced
    <3>. QED BY <1>1, <1>2, <2>2, <3>1 DEF BoardStep, Board!Next, Board!Watch
  <2>. QED BY <2>4, <2>5
<1>4. CASE ~WP!Watches(Replica, e)
  <2>1. UNCHANGED Watched
    BY <1>4 DEF WP!HandlePodAdd, Watched
  <2>. QED BY <1>1, <1>2, <2>1, ForgetStep
<1>. QED BY <1>3, <1>4

LEMMA ManageStep ==
    ASSUME PipelineInv, Manage
    PROVE  BoardStep
<1>1. \/ WP!Sync(Replica) \/ WP!Connect(Replica) \/ WP!StartManager(Replica)
      \/ WP!Elect(Replica) \/ WP!HandlePodAdd(Replica)
  BY SameManage DEF Manage
<1>2. UNCHANGED fanoutVars
  BY DEF Manage
<1>3. CASE WP!Connect(Replica) \/ WP!StartManager(Replica) \/ WP!Elect(Replica)
  <2>1. UNCHANGED <<pods, configs, Queued, Watched>>
    BY <1>3 DEF WP!Connect, WP!StartManager, WP!Elect, WP!cluster, Queued, Watched
  <2>. QED BY <1>2, <2>1, FanoutStill, NoStep
<1>. QED BY <1>1, <1>2, <1>3, ListStep, HandleStep

LEMMA TickStep ==
    ASSUME PipelineInv, NEW s \in Slots, Tick(s)
    PROVE  BoardStep
<1>1. WP!StartTicker(Replica, s)
  BY SameWatch DEF Tick
<1>2. CASE WatchEnds
  <2>1. phase[Replica] = "running"
    BY <1>1 DEF WP!StartTicker, PipelineInv, WP!WatchInv, WP!StartupOrder
  <2>2. WP!Exit(Replica) /\ Exit
    BY <1>1, <1>2, <2>1 DEF WP!StartTicker, WatchEnds, Tick
  <2>. QED BY <2>2, BothEnd DEF BoardStep, Board!Next
<1>3. CASE ~WatchEnds
  <2>. DEFINE w == [watch[Replica][s] EXCEPT !.at = "query"]
  <2>1. watch' = [watch EXCEPT ![Replica][s] = w] /\ UNCHANGED <<pods, configs, queue>>
    BY <1>1, <1>3, PhaseType DEF WP!StartTicker, WP!Exit, WatchEnds, WP!cluster,
       PipelineInv, WP!WatchInv, WP!TypeOK
  <2>2. /\ [pod |-> w.pod, label |-> w.label] \in Watched
        /\ UNCHANGED Queued
    BY <1>1, <2>1, WatchedIn DEF WP!StartTicker, WP!Watch, Queued,
       PipelineInv, WP!WatchInv, WP!TypeOK
  <2>. HIDE DEF w
  <2>3. Watched' \subseteq Watched
    BY <2>1, <2>2, WatchedReplaced
  <2>. QED BY <1>3, <2>1, <2>2, <2>3, FanoutStill, ForgetStep DEF Tick
<1>. QED BY <1>2, <1>3

LEMMA QueryStep ==
    ASSUME PipelineInv, NEW s \in Slots, Query(s)
    PROVE  BoardStep
<1>1. WP!QueryPeak(Replica, s) \/ WP!QueryFails(Replica, s)
  BY SameWatch DEF Query
<1>2. UNCHANGED <<pods, configs, Queued, sent, Open, wire, shows>>
  BY <1>1, FanoutStill DEF Query, WP!QueryPeak, WP!QueryFails, WP!cluster, Queued
<1>3. watch[Replica][s] \in WP!Watch /\ watch[Replica][s] # None
  BY <1>1 DEF WP!QueryPeak, WP!QueryFails, PipelineInv, WP!WatchInv, WP!TypeOK
<1>4. PICK w : /\ watch' = [watch EXCEPT ![Replica][s] = w]
               /\ \/ w = None
                  \/ w.pod = watch[Replica][s].pod /\ w.label = watch[Replica][s].label
  <2>1. CASE WP!QueryFails(Replica, s)
    BY <2>1 DEF WP!QueryFails
  <2>2. CASE WP!QueryPeak(Replica, s)
    <3>1. PICK peak \in Peaks :
             watch' = [watch EXCEPT ![Replica][s] =
                         IF peak = None THEN None
                         ELSE [watch[Replica][s] EXCEPT !.at = "devices", !.peak = peak]]
      BY <2>2 DEF WP!QueryPeak, PipelineInv, WP!WatchInv, WP!TypeOK
    <3>. DEFINE w == IF peak = None THEN None
                     ELSE [watch[Replica][s] EXCEPT !.at = "devices", !.peak = peak]
    <3>2. \/ w = None
          \/ w.pod = watch[Replica][s].pod /\ w.label = watch[Replica][s].label
      BY <1>3 DEF WP!Watch
    <3>. QED BY <3>1, <3>2
  <2>. QED BY <1>1, <2>1, <2>2
<1>5. Watched' \subseteq Watched
  BY <1>3, <1>4, WatchedIn, WatchedReplaced
<1>. QED BY <1>2, <1>5, ForgetStep

LEMMA NotifyStep ==
    ASSUME PipelineInv, NEW s \in Slots, Notify(s)
    PROVE  BoardStep
<1>1. WP!Notify(Replica, s)
  BY SameWatch DEF Notify
<1>2. Watched' \subseteq Watched
  BY <1>1, WatchedReplaced DEF WP!Notify
<1>3. UNCHANGED <<pods, configs, Queued>>
  BY <1>1 DEF WP!Notify, WP!cluster, Queued
<1>4. CASE UNCHANGED fanoutVars
  BY <1>2, <1>3, <1>4, FanoutStill, ForgetStep
<1>5. ASSUME NEW a \in Alerts, PodOf[a] = watch[Replica][s].pod, SendAlert(a)
      PROVE  BoardStep
  <2>1. \E e \in Watched : e.pod = PodOf[a]
    BY <1>1, <1>5, WatchedIn DEF WP!Notify
  <2>2. Open' = Open \cup ({a} \X Channels)
    BY <1>5, OpenSent DEF PipelineInv
  <2>3. Board!Send(a)
    BY <1>2, <1>3, <1>5, <2>1, <2>2 DEF Board!Send, SendAlert
  <2>. QED BY <2>3 DEF BoardStep, Board!Next
<1>. QED BY <1>4, <1>5 DEF Notify, Publish, Unsent

LEMMA DeliverStep ==
    ASSUME PipelineInv, NEW a \in Alerts, NEW ch \in Channels,
           Deliver(a, ch) \/ DeliveryFails(a, ch)
    PROVE  BoardStep
<1>1. CASE FanoutEnds /\ up
  <2>1. Exit /\ WP!Exit(Replica)
    BY <1>1, SameManage DEF Deliver, DeliveryFails, PostFails, FanoutEnds, CreateAlert,
       Post, Answered, BeginWrite, EndWrite, Take
  <2>. QED BY <2>1, BothEnd DEF BoardStep, Board!Next
<1>2. CASE ~(FanoutEnds /\ up)
  <2>1. CreateAlert(a, ch) \/ Take(a, ch) \/ PostFails(a, ch)
    BY DEF Deliver, DeliveryFails
  <2>2. UNCHANGED <<pods, configs, Queued, Watched>>
    BY <1>2 DEF Deliver, DeliveryFails, watchVars, Queued, Watched
  <2>3. UnderWay(a, ch) => up
    BY DEF PipelineInv, FanoutInv, CallsSent
  <2>4. FanoutInv /\ (<<a, ch>> \in wire => <<a, ch>> \notin Open /\ ch # "gitops")
    BY DEF PipelineInv, FanoutInv, TypeOK, WirePosted, Open, HTTP
  <2>5. CASE Post(a, ch)
    <3>1. Open' = Open \ {<<a, ch>>} /\ <<a, ch>> \in Open /\ ch # "gitops"
      BY <2>4, <2>5, OpenLeft DEF Post, Moves, Open, HTTP
    <3>2. Board!Post(a, ch)
      BY <2>2, <2>5, <3>1 DEF Board!Post, Post
    <3>. QED BY <3>2 DEF BoardStep, Board!Next
  <2>6. CASE Take(a, ch)
    <3>1. Open' = Open \ {<<a, ch>>}
      BY <2>4, <2>6 DEF Take, Open
    <3>2. Board!Show(a, ch)
      BY <2>2, <2>4, <2>6, <3>1 DEF Board!Show, Take, Shown
    <3>. QED BY <3>2 DEF BoardStep, Board!Next
  <2>7. CASE Answered(a, ch)
    <3>1. Open' = Open
      BY <2>4, <2>7, OpenLeft DEF Answered, Returned, Moves, Open
    <3>. QED BY <2>2, <2>7, <3>1, NoStep DEF Answered
  <2>8. CASE PostFails(a, ch)
    <3>1. Open' = Open \ {<<a, ch>>}
      BY <2>4, <2>8, OpenLeft DEF PostFails, Returned, Moves
    <3>2. Board!Lose(a, ch)
      BY <2>2, <2>8, <3>1 DEF Board!Lose, PostFails
    <3>. QED BY <3>2 DEF BoardStep, Board!Next
  <2>9. CASE ch = "gitops" /\ EndWrite(a)
    <3>1. Open' = Open \ {<<a, ch>>} /\ <<a, ch>> \in Open
      BY <2>4, <2>9, OpenLeft DEF EndWrite, Returned, Moves, Open
    <3>2. <<a, ch>> \notin wire /\ UNCHANGED <<wire, sent>>
      BY <2>4, <2>9 DEF EndWrite
    <3>3. CASE Shown(a, ch)
      <4>1. Board!Show(a, ch)
        BY <2>2, <2>9, <3>1, <3>2, <3>3 DEF Board!Show, Shown
      <4>. QED BY <4>1 DEF BoardStep, Board!Next
    <3>4. CASE UNCHANGED shows
      <4>1. Board!Lose(a, ch)
        BY <2>2, <3>1, <3>2, <3>4 DEF Board!Lose
      <4>. QED BY <4>1 DEF BoardStep, Board!Next
    <3>. QED BY <2>9, <3>3, <3>4 DEF EndWrite
  <2>10. CASE ch = "gitops" /\ BeginWrite(a)
    <3>1. /\ call[a]["gitops"] = "started" /\ "gitops" \in Channels
          /\ call' = [call EXCEPT ![a]["gitops"] = "writing"]
          /\ UNCHANGED <<sent, wire, shows>>
      BY <1>2, <2>3, <2>10 DEF BeginWrite, Exit, FanoutEnds, UnderWay
    <3>2. Open' = Open
      BY <2>4, <3>1, OpenWriting
    <3>. QED BY <2>2, <3>1, <3>2, NoStep
  <2>. QED BY <2>1, <2>5, <2>6, <2>7, <2>8, <2>9, <2>10 DEF CreateAlert
<1>. QED BY <1>1, <1>2

LEMMA KilledStep ==
    ASSUME PipelineInv, Killed
    PROVE  BoardStep
<1>1. Exit /\ WP!Exit(Replica)
  BY SameManage DEF Killed, Kill
<1>. QED BY <1>1, BothEnd DEF BoardStep, Board!Next

\* A change is noticed when the informer has listed the pods, and missed before.
LEMMA SetPodStep ==
    ASSUME PipelineInv, NEW p \in Pods, NEW n \in WP!PodLabel, WP!SetPod(p, n),
           UNCHANGED fanoutVars
    PROVE  BoardStep
<1>. DEFINE e == [pod |-> p, label |-> n]
<1>1. e \in WP!Event
  BY DEF WP!Event
<1>2. Queued' = Queued \/ Queued' = Queued \cup {e}
  <2>1. CASE phase[Replica] \in {"synced", "connected", "running"}
    <3>1. queue' = [m \in {Replica} |-> Append(queue[m], e)]
      BY <2>1 DEF WP!SetPod
    <3>. HIDE DEF e
    <3>. QED BY <1>1, <3>1, QueuedAppend
  <2>2. CASE phase[Replica] \notin {"synced", "connected", "running"}
    BY <2>2 DEF WP!SetPod, Queued
  <2>. QED BY <2>1, <2>2
<1>3. /\ pods' = [pods EXCEPT ![p] = n]
      /\ UNCHANGED <<configs, Watched>>
  BY DEF WP!SetPod, Watched
<1>4. Board!ChangePod(p)
  BY <1>2, <1>3, FanoutStill DEF Board!ChangePod, WP!PodLabel
<1>. QED BY <1>4 DEF BoardStep, Board!Next

LEMMA ClusterBoardStep ==
    ASSUME PipelineInv, Cluster
    PROVE  BoardStep
<1>1. UNCHANGED fanoutVars
  BY DEF Cluster
<1>2. ASSUME NEW p \in Pods, W!DeletePod(p) PROVE BoardStep
  <2>1. pods' = [pods EXCEPT ![p] = "absent"] /\ UNCHANGED <<configs, Queued, Watched>>
    BY <1>2 DEF W!DeletePod, Queued, Watched
  <2>2. Board!ChangePod(p)
    BY <1>1, <2>1, FanoutStill DEF Board!ChangePod
  <2>. QED BY <2>2 DEF BoardStep, Board!Next
<1>3. ASSUME NEW p \in Pods, NEW n \in W!PodLabel, W!SetPod(p, n) PROVE BoardStep
  BY <1>1, <1>3, SameCluster, SetPodStep
<1>4. ASSUME NEW n \in Labels, W!SetConfig(n) PROVE BoardStep
  <2>1. UNCHANGED <<pods, Queued, Watched>>
    BY <1>4 DEF W!SetConfig, Queued, Watched
  <2>2. Board!ChangeConfig(n)
    BY <1>1, <1>4, <2>1, FanoutStill DEF Board!ChangeConfig, W!SetConfig
  <2>. QED BY <2>2 DEF BoardStep, Board!Next
<1>. QED BY <1>2, <1>3, <1>4 DEF Cluster

LEMMA PipelineBoardStep == PipelineInv /\ [PipelineNext]_pipelineVars => BoardStep
<1>. SUFFICES ASSUME PipelineInv, [PipelineNext]_pipelineVars PROVE BoardStep
  OBVIOUS
<1>1. CASE Start \/ Manage \/ Killed \/ Cluster
  BY <1>1, StartStep, ManageStep, KilledStep, ClusterBoardStep
<1>2. ASSUME NEW s \in Slots, Tick(s) \/ Query(s) \/ Notify(s) PROVE BoardStep
  BY <1>2, TickStep, QueryStep, NotifyStep
<1>3. ASSUME NEW a \in Alerts, NEW ch \in Channels,
             Deliver(a, ch) \/ DeliveryFails(a, ch)
      PROVE  BoardStep
  BY <1>3, DeliverStep
<1>4. CASE UNCHANGED pipelineVars
  BY <1>4, NoStep DEF pipelineVars, fanoutVars, watchVars, Queued, Watched, Open
<1>. QED BY <1>1, <1>2, <1>3, <1>4 DEF PipelineNext

LEMMA PipelineBoardInit == PipelineInit => Board!Init
<1>. SUFFICES ASSUME PipelineInit PROVE Board!Init
  OBVIOUS
<1>1. Open = {}
  BY DEF PipelineInit, Init, Open
<1>2. Queued = {} /\ Watched = {}
  BY DEF PipelineInit, W!Init, W!NoWatches, Queued, Watched
<1>. QED BY <1>1, <1>2 DEF PipelineInit, Init, W!Init, Board!Init

\* To those who read the channels a replica, with its informer, its goroutines,
\* its races and its ends, is the board of AlertBoard.
THEOREM PipelineIsBoard == PipelineSpec => ImplementsAlertBoard
BY PipelineBoardInit, PipelineInvariant, PipelineBoardStep, PTL
   DEF BoardStep, PipelineSpec, ImplementsAlertBoard, Board!Spec
================================================================================
