------------------------------ MODULE AlertFanout ------------------------------
(***************************************************************************)
(* The alert fan-out of the Go controller (internal/alert).                *)
(*                                                                         *)
(* SendAlert starts one goroutine for every subscribed channel and returns *)
(* at once.  The Prometheus and Slack channels post to an HTTP endpoint,   *)
(* with a client that has no timeout: the endpoint may show the alert      *)
(* while the caller waits, hangs, has given up with an error or is dead.   *)
(* An error is dropped and nothing is sent again.  The GitOps channel      *)
(* stores the alert under its pod's name in a map that no lock protects:   *)
(* when two goroutines write it at once the Go runtime may end the         *)
(* process, or a write may be lost.                                        *)
(*                                                                         *)
(* An operator named Op_Variant is Op with a plausible bug; no definition  *)
(* uses it, it only shows that a property can fail (see README.md).        *)
(***************************************************************************)
EXTENDS Naturals

CONSTANTS
    Channels,       \* the configured channels
    Alerts,         \* the calls of SendAlert
    Answering,      \* the channels that answer each of the alerts
    Pods,
    PodOf,          \* the pod of each alert
    None,           \* no alert
    MaxFaults       \* bound: requests that fail and killed processes

ASSUME FanoutAssumption ==
    /\ Channels \subseteq {"prometheus", "gitops", "slack"}
    /\ Answering \in [Alerts -> SUBSET Channels]
    /\ PodOf \in [Alerts -> Pods]
    /\ None \notin Alerts
    /\ MaxFaults \in Nat

VARIABLES
    up,         \* the process runs and its channels are subscribed
    sent,       \* the alerts SendAlert was called with
    call,       \* of each alert and channel: where CreateAlert is
    wire,       \* the requests that their endpoint has not looked at
    shows,      \* what each channel shows for each pod
    faults

vars == <<up, sent, call, wire, shows, faults>>

HTTP == Channels \ {"gitops"}

TypeOK ==
    /\ up \in BOOLEAN
    /\ sent \subseteq Alerts
    /\ call \in [Alerts -> [Channels -> {"none", "started", "waiting", "writing",
                                        "returned", "killed"}]]
    /\ wire \subseteq Alerts \X HTTP
    /\ shows \in [Channels -> [Pods -> Alerts \cup {None}]]
    /\ faults \in 0..MaxFaults

Init ==
    /\ up = FALSE
    /\ sent = {}
    /\ call = [a \in Alerts |-> [ch \in Channels |-> "none"]]
    /\ wire = {}
    /\ shows = [ch \in Channels |-> [p \in Pods |-> None]]
    /\ faults = 0

\* CreateAlertService: every configured channel is made and subscribed, before
\* anybody can send an alert.
Subscribe ==
    /\ ~up
    /\ up' = TRUE
    /\ UNCHANGED <<sent, call, wire, shows, faults>>

\* Publish: a goroutine for each subscriber.
SendAlert(a) ==
    /\ up /\ a \notin sent
    /\ sent' = sent \cup {a}
    /\ call' = [call EXCEPT ![a] = [ch \in Channels |-> "started"]]
    /\ UNCHANGED <<up, wire, shows, faults>>

Returned(a, ch) == call' = [call EXCEPT ![a][ch] = "returned"]

\* What is shown is filed under the pod's name, by every channel.
Shown(a, ch) == shows' = [shows EXCEPT ![ch][PodOf[a]] = a]

MayRun_InTurn(a, ch) ==
    \A other \in Channels \ {ch} :
        ch = "gitops" => call[a][other] = "returned"

\* The goroutines of an alert do not wait for each other.
MayRun(a, ch) == TRUE

\* client.Do and http.Post: the request leaves, and the goroutine waits.
Post(a, ch) ==
    /\ ch \in HTTP /\ call[a][ch] = "started" /\ MayRun(a, ch)
    /\ call' = [call EXCEPT ![a][ch] = "waiting"]
    /\ wire' = wire \cup {<<a, ch>>}
    /\ UNCHANGED <<up, sent, shows, faults>>

\* The endpoint takes a request and shows its alert, whatever has become of the
\* goroutine in the meantime.
Take(a, ch) ==
    /\ <<a, ch>> \in wire
    /\ wire' = wire \ {<<a, ch>>}
    /\ Shown(a, ch)
    /\ UNCHANGED <<up, sent, call, faults>>

\* The answer.  What it says does not matter: nobody looks at what CreateAlert
\* returns.
Answered(a, ch) ==
    /\ ch \in HTTP /\ call[a][ch] = "waiting" /\ <<a, ch>> \notin wire
    /\ Returned(a, ch)
    /\ UNCHANGED <<up, sent, wire, shows, faults>>

UnderWay(a, ch) == call[a][ch] \in {"started", "waiting", "writing"}

\* The process ends: its goroutines and the GitOps map are gone, the requests
\* that have left are not.
Exit ==
    /\ up' = FALSE
    /\ call' = [a \in Alerts |-> [ch \in Channels |->
                  IF UnderWay(a, ch) THEN "killed" ELSE call[a][ch]]]
    /\ shows' = [ch \in Channels |->
                  IF ch \in HTTP THEN shows[ch] ELSE [p \in Pods |-> None]]
    /\ UNCHANGED <<sent, wire>>

\* Another goroutine is inside its write to the map.
Race(a) == \E b \in Alerts \ {a} : call[b]["gitops"] = "writing"

\* g.alerts[alertFile] = alertMessage, not atomic: the runtime notices some
\* of the writes that begin during another one and ends the process.
BeginWrite(a) ==
    /\ "gitops" \in Channels
    /\ call[a]["gitops"] = "started" /\ MayRun(a, "gitops")
    /\ \/ /\ call' = [call EXCEPT ![a]["gitops"] = "writing"]
          /\ UNCHANGED <<up, sent, wire, shows>>
       \/ Race(a) /\ Exit
    /\ UNCHANGED faults

EndWrite(a) ==
    /\ "gitops" \in Channels
    /\ call[a]["gitops"] = "writing"
    /\ Shown(a, "gitops") \/ (Race(a) /\ UNCHANGED shows)
    /\ Returned(a, "gitops")
    /\ UNCHANGED <<up, sent, wire, faults>>

CreateAlert(a, ch) ==
    \/ Post(a, ch) \/ Answered(a, ch)
    \/ ch = "gitops" /\ (BeginWrite(a) \/ EndWrite(a))

Fault == faults < MaxFaults /\ faults' = faults + 1

PostFails_Retried(a, ch) ==
    /\ Fault
    /\ call[a][ch] = "waiting" /\ wire' \in {wire, wire \ {<<a, ch>>}}
    /\ call' = [call EXCEPT ![a][ch] = "started"]
    /\ UNCHANGED <<up, sent, shows>>

\* No connection; or a lost or refused request, or a lost answer to one that
\* was taken or will be.  The error is dropped.
PostFails(a, ch) ==
    /\ Fault
    /\ \/ ch \in HTTP /\ call[a][ch] = "started" /\ MayRun(a, ch) /\ UNCHANGED wire
       \/ call[a][ch] = "waiting" /\ wire' \in {wire, wire \ {<<a, ch>>}}
    /\ Returned(a, ch)
    /\ UNCHANGED <<up, sent, shows>>

Kill == Fault /\ up /\ Exit

Next ==
    \/ Subscribe
    \/ \E a \in Alerts : SendAlert(a)
    \/ \E a \in Alerts, ch \in Channels :
          CreateAlert(a, ch) \/ Take(a, ch) \/ PostFails(a, ch)
    \/ Kill

Spec == Init /\ [][Next]_vars

\* A process that ended is restarted, and goroutines are scheduled.  An endpoint
\* takes and answers the requests of Answering while somebody waits for them;
\* the others may hang, and nothing is assumed of the requests of the dead.
Fairness ==
    /\ WF_vars(Subscribe)
    /\ \A a \in Alerts : \A ch \in Answering[a] :
          WF_vars(UnderWay(a, ch) /\ (CreateAlert(a, ch) \/ Take(a, ch)))

FairSpec == Spec /\ Fairness

(***************************************************************************)
(* Properties.                                                             *)
(***************************************************************************)
\* A call that hangs or fails takes nothing from the others, of its alert or of
\* its channel: each one that is answered returns, unless the process ends
\* (pubsub.go:30-32: one goroutine for each subscriber).
ChannelsIndependent ==
    \A a \in Alerts : \A ch \in Answering[a] :
        call[a][ch] = "started" ~> call[a][ch] \in {"returned", "killed"}

Showing(a, ch) == shows[ch][PodOf[a]] = a

\* No channel goes back to an alert: once another alert about the pod has
\* replaced it there it does not reappear, although answers get lost, requests
\* overtake each other and outlive their process (prom_alert.go:81-92,
\* slack.go:100-108: an error is returned and dropped, and never posted again).
ShownOnce ==
    \A a \in Alerts, ch \in Channels :
        [](Showing(a, ch) => [](~Showing(a, ch) => []~Showing(a, ch)))

\* alert_test.go:227-232: after SendAlert and a while, every subscriber has
\* been given the alert.
EverySubscriberGetsIt ==
    \A a \in Alerts : \A ch \in Answering[a] :
        a \in sent ~> call[a][ch] = "returned"
===============================================================================
