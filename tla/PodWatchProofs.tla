---------------------------- MODULE PodWatchProofs ----------------------------
(***************************************************************************)
(* Proofs about PodWatch, for any numbers of replicas, pods, configs,      *)
(* watches, edits and faults.                                              *)
(***************************************************************************)
EXTENDS PodWatch, FiniteSetTheorems, TLAPS

\* ClientBeforeQuery is not inductive: that a replica has a client when a
\* watch starts comes from the order of its start-up and from the cache.
StartupOrder ==
    \A m \in Managers :
        /\ phase[m] \in {"connected", "running"} => m \in prom
        /\ (\E s \in Slots : watch[m][s] # None) => phase[m] = "running"

WatchInv == TypeOK /\ StartupOrder

LEMMA InitInv == Init => WatchInv
<1>. SUFFICES ASSUME Init PROVE WatchInv
  OBVIOUS
<1>1. TypeOK
  BY WatchAssumption DEF Init, TypeOK, NoWatches
<1>2. StartupOrder
  BY DEF Init, StartupOrder, NoWatches
<1>. QED BY <1>1, <1>2 DEF WatchInv

(***************************************************************************)
(* The life of a replica.                                                  *)
(***************************************************************************)
LEMMA BootInv ==
    ASSUME WatchInv, NEW m \in Managers, Boot(m)
    PROVE  WatchInv'
BY DEF Boot, WatchInv, TypeOK, StartupOrder, cluster

\* The events of the first listing are a sequence of events.
LEMMA ListingType ==
    ASSUME TypeOK,
           NEW order \in SetToSeqs({p \in Pods : pods[p] # "absent"})
    PROVE  [i \in DOMAIN order |-> [pod |-> order[i], label |-> pods[order[i]]]]
              \in Seq(Event)
<1>. DEFINE present == {p \in Pods : pods[p] # "absent"}
            n == Cardinality(present)
<1>1. n \in Nat
  <2>1. IsFiniteSet(present)
    BY WatchAssumption, FS_Subset
  <2>. QED BY <2>1, FS_CardinalityType
<1>2. order \in [1..n -> present]
  BY DEF SetToSeqs
<1>3. \A i \in 1..n : [pod |-> order[i], label |-> pods[order[i]]] \in Event
  BY <1>2 DEF TypeOK, Event
<1>. HIDE DEF n, present
<1>. QED BY <1>1, <1>2, <1>3

\* The first listing has an event for every pod that is there, and no other.
LEMMA ListingIsAll ==
    ASSUME WatchInv, NEW m \in Managers, Sync(m)
    PROVE  {queue'[m][i] : i \in DOMAIN queue'[m]}
             = {[pod |-> p, label |-> pods[p]] : p \in {q \in Pods : pods[q] # "absent"}}
<1>. DEFINE present == {p \in Pods : pods[p] # "absent"}
            n == Cardinality(present)
<1>1. PICK order \in SetToSeqs(present) :
          queue' = [queue EXCEPT ![m] =
                      [i \in DOMAIN order |-> [pod |-> order[i], label |-> pods[order[i]]]]]
  BY DEF Sync
<1>2. IsFiniteSet(present)
  BY WatchAssumption, FS_Subset
<1>3. n \in Nat /\ Cardinality(1..n) = n
  BY <1>2, FS_CardinalityType, FS_Interval
<1>4. order \in Injection(1..n, present)
  BY <1>1 DEF SetToSeqs, Injection, IsInjective
<1>. HIDE DEF n, present
<1>5. order \in Surjection(1..n, present)
  BY <1>2, <1>3, <1>4, FS_Injection DEF n
<1>6. DOMAIN order = 1..n /\ {order[i] : i \in 1..n} = present
  BY <1>5 DEF Surjection
<1>7. queue'[m] = [i \in 1..n |-> [pod |-> order[i], label |-> pods[order[i]]]]
  BY <1>1, <1>6 DEF WatchInv, TypeOK
<1>8. {queue'[m][i] : i \in DOMAIN queue'[m]}
        = {[pod |-> order[i], label |-> pods[order[i]]] : i \in 1..n}
  BY <1>7
<1>9. @ = {[pod |-> p, label |-> pods[p]] : p \in present}
  BY <1>6
<1>. QED BY <1>8, <1>9 DEF present

LEMMA SyncInv ==
    ASSUME WatchInv, NEW m \in Managers, Sync(m)
    PROVE  WatchInv'
<1>1. queue' \in [Managers -> Seq(Event)]
  BY ListingType DEF Sync, WatchInv, TypeOK
<1>. QED BY <1>1 DEF Sync, WatchInv, TypeOK, StartupOrder, cluster

LEMMA ConnectInv ==
    ASSUME WatchInv, NEW m \in Managers, Connect(m)
    PROVE  WatchInv'
BY DEF Connect, WatchInv, TypeOK, StartupOrder, cluster

LEMMA StartManagerInv ==
    ASSUME WatchInv, NEW m \in Managers, StartManager(m)
    PROVE  WatchInv'
BY DEF StartManager, WatchInv, TypeOK, StartupOrder, cluster

LEMMA ElectInv ==
    ASSUME WatchInv, NEW m \in Managers, Elect(m)
    PROVE  WatchInv'
BY DEF Elect, WatchInv, TypeOK, StartupOrder, cluster

LEMMA ExitInv ==
    ASSUME WatchInv, NEW m \in Managers, Exit(m),
           edits' \in 0..MaxEdits, faults' \in 0..MaxFaults
    PROVE  WatchInv'
<1>1. TypeOK'
  BY DEF Exit, WatchInv, TypeOK, NoWatches, cluster
<1>2. StartupOrder'
  BY DEF Exit, WatchInv, TypeOK, StartupOrder, NoWatches
<1>. QED BY <1>1, <1>2 DEF WatchInv

(***************************************************************************)
(* The event handler and the watches.                                      *)
(***************************************************************************)
\* What a step that changes the watches of a running replica has to show.
LEMMA WatchesFrame ==
    ASSUME WatchInv, NEW m \in Managers, phase[m] = "running",
           NEW s \in Slots, NEW w \in Watch \cup {None},
           watch' = [watch EXCEPT ![m][s] = w],
           queue' \in [Managers -> Seq(Event)], alerts' \subseteq Alert,
           edits' \in 0..MaxEdits, faults' \in 0..MaxFaults,
           UNCHANGED <<cluster, phase, prom, leader>>
    PROVE  WatchInv'
<1>1. TypeOK'
  BY DEF WatchInv, TypeOK, cluster
<1>2. StartupOrder'
  BY DEF WatchInv, TypeOK, StartupOrder
<1>. QED BY <1>1, <1>2 DEF WatchInv

LEMMA HandlePodAddInv ==
    ASSUME WatchInv, NEW m \in Managers, HandlePodAdd(m)
    PROVE  WatchInv'
<1>. DEFINE e == Head(queue[m])
<1>1. queue[m] \in Seq(Event) /\ queue[m] # <<>>
  BY DEF HandlePodAdd, WatchInv, TypeOK
<1>2. e \in Event /\ Tail(queue[m]) \in Seq(Event)
  BY <1>1
<1>3. queue' \in [Managers -> Seq(Event)]
  BY <1>2 DEF HandlePodAdd, WatchInv, TypeOK
<1>4. CASE Watches(m, e)
  <2>1. e.label \in Labels /\ configs[e.label] \in Configs
    BY <1>2, <1>4 DEF Watches, Event, PodLabel, WatchInv, TypeOK
  <2>2. configs[e.label].window \in Int
    BY <2>1, WatchAssumption DEF ConfigType
  <2>. DEFINE w == [pod |-> e.pod, label |-> e.label, at |-> "start", peak |-> 0,
                    window |-> configs[e.label].window]
  <2>3. w \in Watch
    BY <1>2, <2>1, <2>2 DEF Watch, Event
  <2>4. PICK s \in Slots : watch' = [watch EXCEPT ![m][s] = w]
    BY <1>4 DEF HandlePodAdd
  <2>5. phase[m] = "running"
    BY <1>4 DEF Watches, CacheStarted
  <2>. HIDE DEF w
  <2>. QED BY <1>3, <2>3, <2>4, <2>5, WatchesFrame
           DEF HandlePodAdd, WatchInv, TypeOK
<1>5. CASE ~Watches(m, e)
  BY <1>3, <1>5 DEF HandlePodAdd, WatchInv, TypeOK, StartupOrder, cluster
<1>. QED BY <1>4, <1>5

LEMMA StartTickerInv ==
    ASSUME WatchInv, NEW m \in Managers, NEW s \in Slots, StartTicker(m, s)
    PROVE  WatchInv'
<1>1. watch[m][s] \in Watch /\ phase[m] = "running"
  BY DEF StartTicker, WatchInv, TypeOK, StartupOrder
<1>2. CASE ValidWindow(watch[m][s].window)
  <2>. DEFINE w == [watch[m][s] EXCEPT !.at = "query"]
  <2>1. w \in Watch /\ watch' = [watch EXCEPT ![m][s] = w]
    BY <1>1, <1>2 DEF StartTicker, Watch
  <2>. HIDE DEF w
  <2>. QED BY <1>1, <1>2, <2>1, WatchesFrame DEF StartTicker, WatchInv, TypeOK
<1>3. CASE ~ValidWindow(watch[m][s].window)
  BY <1>3, ExitInv DEF StartTicker, WatchInv, TypeOK
<1>. QED BY <1>2, <1>3

LEMMA QueryPeakInv ==
    ASSUME WatchInv, NEW m \in Managers, NEW s \in Slots, QueryPeak(m, s)
    PROVE  WatchInv'
<1>1. watch[m][s] \in Watch /\ phase[m] = "running"
  BY DEF QueryPeak, WatchInv, TypeOK, StartupOrder
<1>2. PICK peak \in Peaks :
          watch' = [watch EXCEPT ![m][s] =
                      IF peak = None THEN None
                      ELSE [watch[m][s] EXCEPT !.at = "devices", !.peak = peak]]
  BY DEF QueryPeak, WatchInv, TypeOK
<1>. DEFINE w == IF peak = None THEN None
                 ELSE [watch[m][s] EXCEPT !.at = "devices", !.peak = peak]
<1>3. w \in Watch \cup {None}
  BY <1>1, WatchAssumption DEF Watch
<1>. HIDE DEF w
<1>. QED BY <1>1, <1>2, <1>3, WatchesFrame DEF w, QueryPeak, WatchInv, TypeOK

LEMMA PowerCapType ==
    ASSUME NEW peak \in Nat, NEW n
    PROVE  PowerCap(peak, n) \in Nat
<1>1. Percentage(n) \in Nat
  BY DEF Percentage
<1>2. peak * Percentage(n) \in Nat
  BY <1>1
<1>. QED BY <1>2 DEF PowerCap

LEMMA NotifyInv ==
    ASSUME WatchInv, NEW m \in Managers, NEW s \in Slots, Notify(m, s)
    PROVE  WatchInv'
<1>1. watch[m][s] \in Watch /\ phase[m] = "running"
  BY DEF Notify, WatchInv, TypeOK, StartupOrder
<1>2. alerts' \subseteq Alert
  BY <1>1, PowerCapType DEF Notify, Watch, Alert, WatchInv, TypeOK
<1>. QED BY <1>1, <1>2, WatchesFrame DEF Notify, WatchInv, TypeOK

(***************************************************************************)
(* Failures and edits.                                                     *)
(***************************************************************************)
LEMMA FaultsInv ==
    ASSUME WatchInv, NEW m \in Managers,
           Kill(m) \/ \E s \in Slots : QueryFails(m, s)
    PROVE  WatchInv'
<1>1. faults' \in 0..MaxFaults
  BY WatchAssumption DEF Kill, QueryFails, Fault, WatchInv, TypeOK
<1>2. CASE Kill(m)
  BY <1>1, <1>2, ExitInv DEF Kill, WatchInv, TypeOK
<1>3. ASSUME NEW s \in Slots, QueryFails(m, s) PROVE WatchInv'
  BY <1>1, <1>3, WatchesFrame DEF QueryFails, WatchInv, TypeOK, StartupOrder
<1>. QED BY <1>2, <1>3

LEMMA EditsInv ==
    ASSUME WatchInv, Edit
    PROVE  edits' \in 0..MaxEdits
BY WatchAssumption DEF Edit, WatchInv, TypeOK

LEMMA ClusterInv ==
    ASSUME WatchInv,
           \/ \E p \in Pods : DeletePod(p) \/ \E n \in PodLabel : SetPod(p, n)
           \/ \E n \in Labels : SetConfig(n)
    PROVE  WatchInv'
<1>1. ASSUME NEW p \in Pods, DeletePod(p) PROVE WatchInv'
  BY <1>1, EditsInv DEF DeletePod, WatchInv, TypeOK, StartupOrder
<1>2. ASSUME NEW p \in Pods, NEW n \in PodLabel, SetPod(p, n) PROVE WatchInv'
  <2>1. [pod |-> p, label |-> n] \in Event
    BY DEF Event
  <2>2. queue' \in [Managers -> Seq(Event)]
    BY <1>2, <2>1 DEF SetPod, WatchInv, TypeOK
  <2>3. pods' \in [Pods -> PodLabel \cup {"absent"}]
    BY <1>2 DEF SetPod, WatchInv, TypeOK
  <2>. QED BY <1>2, <2>2, <2>3, EditsInv
           DEF SetPod, WatchInv, TypeOK, StartupOrder
<1>3. ASSUME NEW n \in Labels, SetConfig(n) PROVE WatchInv'
  BY <1>3, EditsInv DEF SetConfig, WatchInv, TypeOK, StartupOrder
<1>. QED BY <1>1, <1>2, <1>3

LEMMA NextInv == WatchInv /\ [Next]_vars => WatchInv'
<1>. SUFFICES ASSUME WatchInv, [Next]_vars PROVE WatchInv'
  OBVIOUS
<1>1. ASSUME NEW m \in Managers, ManagerStep(m) PROVE WatchInv'
  BY <1>1, BootInv, SyncInv, ConnectInv, StartManagerInv DEF ManagerStep
<1>2. ASSUME NEW m \in Managers, Elect(m) PROVE WatchInv'
  BY <1>2, ElectInv
<1>3. ASSUME NEW m \in Managers, HandlePodAdd(m) PROVE WatchInv'
  BY <1>3, HandlePodAddInv
<1>4. ASSUME NEW m \in Managers, NEW s \in Slots, WatchStep(m, s) PROVE WatchInv'
  BY <1>4, StartTickerInv, QueryPeakInv, NotifyInv DEF WatchStep
<1>5. ASSUME Environment PROVE WatchInv'
  BY <1>5, FaultsInv, ClusterInv DEF Environment
<1>6. CASE UNCHANGED vars
  BY <1>6 DEF vars, cluster, WatchInv, TypeOK, StartupOrder
<1>. QED BY <1>1, <1>2, <1>3, <1>4, <1>5, <1>6 DEF Next

\* In every behaviour the variables have their types, and a replica only runs
\* watches after its manager has started, with its client set.
THEOREM WatchInvariant == Spec => []WatchInv
BY InitInv, NextInv, PTL DEF Spec

\* Type correctness of the pod watch.
THEOREM TypeCorrect == Spec => []TypeOK
<1>1. WatchInv => TypeOK
  BY DEF WatchInv
<1>. QED BY <1>1, WatchInvariant, PTL

\* No watch ever runs in a replica without a Prometheus client, although pod
\* events arrive long before the client is there.
THEOREM NoQueryWithoutClient == Spec => []ClientBeforeQuery
<1>1. WatchInv => ClientBeforeQuery
  BY DEF WatchInv, StartupOrder, ClientBeforeQuery
<1>. QED BY <1>1, WatchInvariant, PTL
===============================================================================
