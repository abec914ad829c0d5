------------------------- MODULE OperatorStartupProofs -------------------------
(***************************************************************************)
(* Proofs about OperatorStartup, for any pods and any number of kills.     *)
(***************************************************************************)
EXTENDS OperatorStartup, TLAPS

\* Neither property is inductive: both rest on when the port is open.  It opens
\* in the first call of the handler and only closes with the process, and no
\* series is copied before.
PortInv ==
    /\ ~port => next = 0 /\ ~raised /\ copied = {} /\ phase # "serving"
    /\ raised => next = 0
    /\ next > 0 => phase = "startup"

StartupInv == TypeOK /\ PortInv /\ RaisedNeverServes /\ CopiedInOnePass

LEMMA MetricsSeq == Len(Metrics) = 14 /\ DOMAIN Metrics = 1..14
BY DEF Metrics

LEMMA InitInv == Init => StartupInv
<1>. SUFFICES ASSUME Init PROVE StartupInv
  OBVIOUS
<1>1. TypeOK
  <2>1. next \in 0..Len(Metrics) + 1 /\ kills \in 0..MaxKills
    BY StartupAssumption, MetricsSeq DEF Init
  <2>. QED BY <2>1 DEF Init, TypeOK
<1>2. PortInv /\ RaisedNeverServes /\ CopiedInOnePass
  BY DEF Init, PortInv, RaisedNeverServes, CopiedInOnePass
<1>. QED BY <1>1, <1>2 DEF StartupInv

LEMMA UpdateMetricInv ==
    ASSUME StartupInv, UpdateMetric
    PROVE  StartupInv'
<1>1. PICK pods \in SUBSET Pods :
        copied' = copied \cup Series(Metrics[next], pods)
  BY DEF UpdateMetric
<1>2. next \in 1..14 /\ next' = next + 1
  BY MetricsSeq DEF UpdateMetric, Asking
<1>3. \A s \in copied' : s \in copied \/ s[1] = Metrics[next]
  BY <1>1 DEF Series
<1>4. CopiedInOnePass'
  <2>. SUFFICES ASSUME NEW s \in copied'
                PROVE  \E i \in 1..next' - 1 : Metrics[i] = s[1]
    BY DEF CopiedInOnePass
  <2>1. CASE s \in copied
    <3>1. PICK i \in 1..next - 1 : Metrics[i] = s[1]
      BY <1>2, <2>1 DEF StartupInv, CopiedInOnePass
    <3>. QED BY <1>2, <3>1
  <2>2. CASE s[1] = Metrics[next]
    BY <1>2, <2>2
  <2>. QED BY <1>3, <2>1, <2>2
<1>5. copied' \subseteq Gauges \X Pods
  BY <1>1 DEF Series, StartupInv, TypeOK
<1>. QED
  BY <1>2, <1>4, <1>5, MetricsSeq
     DEF UpdateMetric, StartupInv, TypeOK, PortInv, RaisedNeverServes

LEMMA RequestFailsInv ==
    ASSUME StartupInv, RequestFails
    PROVE  StartupInv'
<1>1. next \in 1..14 /\ next' = next + 1
  BY MetricsSeq DEF RequestFails, Asking, AfterFailure
<1>2. CopiedInOnePass'
  <2>. SUFFICES ASSUME NEW s \in copied
                PROVE  \E i \in 1..next' - 1 : Metrics[i] = s[1]
    BY DEF RequestFails, CopiedInOnePass
  <2>1. PICK i \in 1..next - 1 : Metrics[i] = s[1]
    BY <1>1 DEF StartupInv, CopiedInOnePass
  <2>. QED BY <1>1, <2>1
<1>. QED
  BY <1>1, <1>2, MetricsSeq
     DEF RequestFails, StartupInv, TypeOK, PortInv, RaisedNeverServes

LEMMA StepInv ==
    ASSUME StartupInv, [Next]_vars
    PROVE  StartupInv'
<1>1. CASE Boot
  BY <1>1 DEF Boot, StartupInv, TypeOK, PortInv, RaisedNeverServes, CopiedInOnePass
<1>2. CASE StartServer
  <2>1. TypeOK'
    <3>1. next' \in 0..Len(Metrics) + 1
      BY <1>2, MetricsSeq DEF StartServer, StartupInv, TypeOK
    <3>. QED BY <1>2, <3>1 DEF StartServer, StartupInv, TypeOK
  <2>2. PortInv' /\ RaisedNeverServes'
    BY <1>2 DEF StartServer, Bindable, StartupInv, PortInv, RaisedNeverServes
  <2>3. CopiedInOnePass'
    BY <1>2 DEF StartServer, Bindable, StartupInv, PortInv, CopiedInOnePass
  <2>. QED BY <2>1, <2>2, <2>3 DEF StartupInv
<1>3. CASE Refused
  BY <1>3, MetricsSeq
     DEF Refused, Asking, StartupInv, TypeOK, PortInv, RaisedNeverServes, CopiedInOnePass
<1>4. CASE Serve
  BY <1>4, MetricsSeq
     DEF Serve, StartupInv, TypeOK, PortInv, RaisedNeverServes, CopiedInOnePass
<1>5. CASE Kill
  <2>1. TypeOK'
    <3>1. next' \in 0..Len(Metrics) + 1 /\ kills' \in 0..MaxKills
      BY <1>5, MetricsSeq, StartupAssumption DEF Kill, StartupInv, TypeOK
    <3>. QED BY <1>5, <3>1 DEF Kill, TypeOK
  <2>2. PortInv' /\ RaisedNeverServes' /\ CopiedInOnePass'
    BY <1>5 DEF Kill, PortInv, RaisedNeverServes, CopiedInOnePass
  <2>. QED BY <2>1, <2>2 DEF StartupInv
<1>6. CASE UNCHANGED vars
  BY <1>6 DEF vars, StartupInv, TypeOK, PortInv, RaisedNeverServes, CopiedInOnePass
<1>. QED
  BY <1>1, <1>2, <1>3, <1>4, <1>5, <1>6, UpdateMetricInv, RequestFailsInv DEF Next, Step

\* In every behaviour the variables have their types, and the port is open from
\* the first call of the handler to the end of the process.
THEOREM StartupInvariant == Spec => []StartupInv
BY InitInv, StepInv, PTL DEF Spec

\* Type correctness of the operator's start-up and of its metrics endpoint.
THEOREM TypeCorrect == Spec => []TypeOK
<1>1. StartupInv => TypeOK
  BY DEF StartupInv
<1>. QED BY <1>1, StartupInvariant, PTL

\* Retrying the start-up handler never helps: a process in which it has raised
\* does not get to handle resources.
THEOREM RetryNeverHelps == Spec => []RaisedNeverServes
<1>1. StartupInv => RaisedNeverServes
  BY DEF StartupInv
<1>. QED BY <1>1, StartupInvariant, PTL

\* The endpoint shows the series of one pass only, whatever fails.
THEOREM OnePassCopied == Spec => []CopiedInOnePass
<1>1. StartupInv => CopiedInOnePass
  BY DEF StartupInv
<1>. QED BY <1>1, StartupInvariant, PTL
================================================================================
