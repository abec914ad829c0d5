---------------------------- MODULE OperatorStartup ----------------------------
(***************************************************************************)
(* How a process of the Python operator starts (operator.py:48-51,         *)
(* prom_metrics.py).                                                       *)
(*                                                                         *)
(* kopf calls the start-up handler before it handles any resource, and     *)
(* calls it again, after a pause, when it raises.  The handler opens the   *)
(* metrics port and then asks Prometheus for one metric after the other,   *)
(* copying what comes back into the operator's gauges.  A request that     *)
(* cannot be made or an answer that cannot be read is caught, and the next *)
(* metric is asked for; an answer with another status is an exception that *)
(* nothing catches.  The port stays open for as long as the process lives. *)
(*                                                                         *)
(* An operator named Op_Variant is Op with a plausible bug; no definition  *)
(* uses it, it only shows that a property can fail (see README.md).        *)
(***************************************************************************)
EXTENDS Naturals, Sequences

CONSTANTS
    Pods,           \* the pods that Kepler may have a sample of
    MaxKills        \* bound: processes that are killed

ASSUME StartupAssumption == MaxKills \in Nat

VARIABLES
    phase,      \* of the process: down, startup or serving
    port,       \* it listens on the metrics port
    next,       \* the metric to ask for next, 0 outside of the handler
    raised,     \* the handler has raised in this process
    copied,     \* the series of the operator's gauges copied from Kepler
    kills

vars == <<phase, port, next, raised, copied, kills>>

\* The metrics in the order they are asked for.
Metrics == <<"gpu_joules", "dram_joules", "other_joules", "package_joules",
             "platform_joules", "uncore_joules", "node_core_joules",
             "node_other_joules", "bpf_block_irq", "bpf_cpu_time_ms",
             "bpf_net_rx_irq", "bpf_net_tx_irq", "bpf_page_cache_hit", "joules">>

\* The gauges a metric is copied into; core_joules and cpu_time stay empty,
\* as no metric of that name is ever asked for.
Gauges == {"core_joules", "dram_joules", "gpu_joules", "bpf_block_irq",
           "bpf_cpu_time_ms", "bpf_net_rx_irq", "bpf_net_tx_irq",
           "bpf_page_cache_hit", "joules"}

TypeOK ==
    /\ phase \in {"down", "startup", "serving"}
    /\ port \in BOOLEAN
    /\ next \in 0..Len(Metrics) + 1
    /\ raised \in BOOLEAN
    /\ copied \subseteq Gauges \X Pods
    /\ kills \in 0..MaxKills

Init ==
    /\ phase = "down"
    /\ port = FALSE
    /\ next = 0
    /\ raised = FALSE
    /\ copied = {}
    /\ kills = 0

\* The module is loaded: clients and gauges are made, nothing is asked yet.
Boot ==
    /\ phase = "down"
    /\ phase' = "startup"
    /\ UNCHANGED <<port, next, raised, copied, kills>>

\* A port that is listened on cannot be opened again.
Bindable == ~port

StartServer_Once ==
    /\ phase = "startup" /\ next = 0
    /\ port' = TRUE /\ next' = 1
    /\ UNCHANGED <<phase, raised, copied, kills>>

\* start_server, each time kopf calls the handler.
StartServer ==
    /\ phase = "startup" /\ next = 0
    /\ IF Bindable
       THEN port' = TRUE /\ next' = 1 /\ UNCHANGED raised
       ELSE raised' = TRUE /\ UNCHANGED <<port, next>>
    /\ UNCHANGED <<phase, copied, kills>>

Asking == next \in 1..Len(Metrics)

Series_Ungauged(metric, pods) == {metric} \X pods

\* The update_... functions: a series for each pod of the answer.
Series(metric, pods) == ({metric} \cap Gauges) \X pods

\* The answer names some pods, or none; what is left of it after a value that
\* is no number is skipped.
UpdateMetric ==
    /\ Asking
    /\ \E pods \in SUBSET Pods : copied' = copied \cup Series(Metrics[next], pods)
    /\ next' = next + 1
    /\ UNCHANGED <<phase, port, raised, kills>>

AfterFailure_Restart(i) == 1

\* The metric is given up and the loop goes on.
AfterFailure(i) == i + 1

RequestFails ==
    /\ Asking
    /\ next' = AfterFailure(next)
    /\ UNCHANGED <<phase, port, raised, copied, kills>>

\* A status that is neither 200 nor one that is tried again: the exception of
\* the client library leaves update_metrics and the handler.
Refused ==
    /\ Asking
    /\ next' = 0
    /\ raised' = TRUE
    /\ UNCHANGED <<phase, port, copied, kills>>

\* The handler has returned: kopf starts to handle resources.
Serve ==
    /\ phase = "startup" /\ next = Len(Metrics) + 1
    /\ phase' = "serving"
    /\ next' = 0
    /\ UNCHANGED <<port, raised, copied, kills>>

Kill ==
    /\ phase # "down" /\ kills < MaxKills
    /\ kills' = kills + 1
    /\ phase' = "down"
    /\ port' = FALSE
    /\ next' = 0
    /\ raised' = FALSE
    /\ copied' = {}

Step == Boot \/ StartServer \/ UpdateMetric \/ RequestFails \/ Refused \/ Serve

Next == Step \/ Kill

Spec == Init /\ [][Next]_vars

\* The process is started again when it is down, kopf calls the handler again,
\* and a request is answered or fails (the client gives up after its retries).
FairSpec == Spec /\ WF_vars(Step)

(***************************************************************************)
(* Properties.                                                             *)
(***************************************************************************)
\* A process whose start-up handler has raised once never handles a resource,
\* however often kopf calls the handler again: the port the failed call left
\* open makes every later one raise (prom_metrics.py:91, operator.py:48-51).
RaisedNeverServes == raised => phase # "serving"

\* What the endpoint shows comes from one pass over the metrics: while the
\* handler runs only metrics that it has already asked for have a series, so
\* nothing was copied before the port was open or by an earlier call that
\* raised (prom_metrics.py:89-92, 170-206).
CopiedInOnePass ==
    next > 0 => \A s \in copied : \E i \in 1..next - 1 : Metrics[i] = s[1]

\* Whatever requests fail, whatever Prometheus has no data for and whenever the
\* process is killed, in the end the operator serves, unless its start-up
\* handler has raised (prom_metrics.py:172-206).
ServesUnlessRaised == <>[](phase = "serving" \/ raised)

(***************************************************************************)
(* What the repository says of the start.                                  *)
(***************************************************************************)
\* prom_metrics.py:204: a failed request is logged and the loop goes on; and
\* doc/crd.md:128: the operator detects created and updated configs.
OperatorServes == <>[](phase = "serving")
================================================================================
