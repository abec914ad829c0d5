------------------------------ MODULE AlertBoard ------------------------------
(***************************************************************************)
(* What a replica of the Go controller promises to those who read the      *)
(* alert channels, without start-up, clients, goroutines or races.         *)
(*                                                                         *)
(* Changes of pods are noticed or missed.  A pod that was noticed under a  *)
(* label may be watched if the label's config then asks for it, a watched  *)
(* pod may be alerted about, and an alert may appear on each channel,      *)
(* once, under its pod.  On its way to any channel but GitOps it is a      *)
(* request that outlives the process.  All else that is pending is         *)
(* forgotten when the process ends; of what was shown only the GitOps      *)
(* channel's part is lost.                                                 *)
(* AlertPipeline implements this.                                          *)
(***************************************************************************)
CONSTANTS Channels, Alerts, Pods, PodOf, Labels, Configs, None  \* as in AlertPipeline

VARIABLES
    pods, configs,  \* the cluster
    noticed,        \* the changes that are to be handled
    watched,        \* the pods that are watched, with their labels
    sent,           \* the alerts that were sent
    open,           \* those that the process has yet to bring to a channel
    wire,           \* the requests to show one
    shows           \* what each channel shows for each pod

boardVars == <<pods, configs, noticed, watched, sent, open, wire, shows>>

Init ==
    /\ pods = [p \in Pods |-> "absent"]
    /\ configs = [n \in Labels |-> None]
    /\ noticed = {} /\ watched = {}
    /\ sent = {} /\ open = {} /\ wire = {}
    /\ shows = [ch \in Channels |-> [p \in Pods |-> None]]

\* A change of a pod, and the process may notice it.
ChangePod(p) ==
    /\ \E n \in Labels \cup {None, "absent"} :
          /\ pods' = [pods EXCEPT ![p] = n]
          /\ noticed' \in {noticed, noticed \cup {[pod |-> p, label |-> n]}}
    /\ UNCHANGED <<configs, watched, sent, open, wire, shows>>

ChangeConfig(n) ==
    /\ \E c \in Configs \cup {None} : configs' = [configs EXCEPT ![n] = c]
    /\ UNCHANGED <<pods, noticed, watched, sent, open, wire, shows>>

\* The pods that are there are noticed as they are.
List ==
    /\ noticed' = {[pod |-> p, label |-> pods[p]] : p \in {q \in Pods : pods[q] # "absent"}}
    /\ UNCHANGED <<pods, configs, watched, sent, open, wire, shows>>

Watch(e) ==
    /\ e \in noticed /\ e.label \in Labels
    /\ configs[e.label] # None /\ configs[e.label].kind = "relative"
    /\ watched' = watched \cup {e}
    /\ noticed' \subseteq noticed
    /\ UNCHANGED <<pods, configs, sent, open, wire, shows>>

\* A change is handled without a watch, or a watch ends without an alert.
Forget ==
    /\ noticed' \subseteq noticed /\ watched' \subseteq watched
    /\ UNCHANGED <<pods, configs, sent, open, wire, shows>>

Send(a) ==
    /\ a \notin sent /\ \E e \in watched : e.pod = PodOf[a]
    /\ sent' = sent \cup {a}
    /\ open' = open \cup ({a} \X Channels)
    /\ watched' \subseteq watched
    /\ UNCHANGED <<pods, configs, noticed, wire, shows>>

Post(a, ch) ==
    /\ ch # "gitops" /\ <<a, ch>> \in open
    /\ open' = open \ {<<a, ch>>}
    /\ wire' = wire \cup {<<a, ch>>}
    /\ UNCHANGED <<pods, configs, noticed, watched, sent, shows>>

\* A channel shows an alert, ...
Show(a, ch) ==
    /\ <<a, ch>> \in (IF ch = "gitops" THEN open ELSE wire)
    /\ shows' = [shows EXCEPT ![ch][PodOf[a]] = a]
    /\ open' = open \ {<<a, ch>>} /\ wire' = wire \ {<<a, ch>>}
    /\ UNCHANGED <<pods, configs, noticed, watched, sent>>

\* ... or never will.
Lose(a, ch) ==
    /\ open' = open \ {<<a, ch>>}
    /\ wire' \in {wire, wire \ {<<a, ch>>}}
    /\ UNCHANGED <<pods, configs, noticed, watched, sent, shows>>

End ==
    /\ noticed' = {} /\ watched' = {} /\ open' = {}
    /\ shows' = [ch \in Channels |->
                    IF ch = "gitops" THEN [p \in Pods |-> None] ELSE shows[ch]]
    /\ UNCHANGED <<pods, configs, sent, wire>>

Next ==
    \/ \E p \in Pods : ChangePod(p)
    \/ \E n \in Labels : ChangeConfig(n)
    \/ List \/ Forget \/ End
    \/ \E e \in noticed : Watch(e)
    \/ \E a \in Alerts : Send(a) \/ \E ch \in Channels : Post(a, ch) \/ Show(a, ch) \/ Lose(a, ch)

Spec == Init /\ [][Next]_boardVars
===============================================================================
