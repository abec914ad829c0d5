----------------------------- MODULE SlackCommands -----------------------------
(***************************************************************************)
(* The Slack dialog that edits a PowerCappingConfig                        *)
(* (internal/webhook/slack_webhook.go, handlers/slack_handler.go).         *)
(*                                                                         *)
(* A slash command shows the two parameters, choosing one opens a modal,   *)
(* and submitting the modal reads a fixed config, changes the copy and     *)
(* writes it back.  Every HTTP request is served by a goroutine of its     *)
(* own.  Slack waits three seconds for an answer; after that the user may  *)
(* submit again, while the first request goes on.  A request that panics   *)
(* loses its connection, and nothing else.                                 *)
(*                                                                         *)
(* Requests whose signature, type or form the handlers reject change       *)
(* nothing and are left out.                                               *)
(*                                                                         *)
(* An operator named Op_Variant is Op with a plausible bug; no definition  *)
(* uses it, it only shows that a property can fail (see README.md).        *)
(***************************************************************************)
EXTENDS Naturals

CONSTANTS
    Users,          \* of the Slack workspace
    Requests,       \* bound: submissions that are served at a time
    Levels,         \* efficiency levels, what users type in included
    MaxEdits,       \* bound: changes of the config by others
    MaxFaults,      \* bound: failed calls and killed servers
    None            \* no request

Params == {"efficiency_level", "power_cap_percentage"}
Outcomes == {"nothing", "failed", "updated"}
Dialogs == {"none", "options"} \cup Params

ASSUME SlackAssumption ==
    /\ None \notin [user : Users, param : Params, value : Levels, at : {"get", "update"}]
    /\ Levels \cap {"absent", "bare"} = {}
    /\ Requests \cap Outcomes = {}
    /\ MaxEdits \in Nat /\ MaxFaults \in Nat

VARIABLES
    config,     \* the config's efficiency level; bare without a spec, or absent
    dialog,     \* what each user has in front of them
    told,       \* the answer to each user, or the request that they wait for
    req,        \* the submissions that are served
    edits, faults

vars == <<config, dialog, told, req, edits, faults>>

ConfigValue == Levels \cup {"absent", "bare"}
Request == [user : Users, param : Params, value : Levels, at : {"get", "update"}]

TypeOK ==
    /\ config \in ConfigValue
    /\ dialog \in [Users -> Dialogs]
    /\ told \in [Users -> Requests \cup Outcomes]
    /\ req \in [Requests -> Request \cup {None}]
    /\ edits \in 0..MaxEdits
    /\ faults \in 0..MaxFaults

Init ==
    /\ config = "absent"
    /\ dialog = [u \in Users |-> "none"]
    /\ told = [u \in Users |-> "nothing"]
    /\ req = [r \in Requests |-> None]
    /\ edits = 0
    /\ faults = 0

(***************************************************************************)
(* The dialog: CommandHandler and InteractionHandler.                      *)
(***************************************************************************)
\* /modify-power-config is answered with a message that offers the parameters.
Command(u) ==
    /\ dialog[u] = "none"
    /\ dialog' = [dialog EXCEPT ![u] = "options"]
    /\ UNCHANGED <<config, told, req, edits, faults>>

\* OpenView: the modal's callback id names the parameter.
ChooseParameter(u, param) ==
    /\ dialog[u] = "options"
    /\ dialog' = [dialog EXCEPT ![u] = param]
    /\ UNCHANGED <<config, told, req, edits, faults>>

CloseModal(u) ==
    /\ dialog[u] \in Params
    /\ told[u] \notin Requests
    /\ dialog' = [dialog EXCEPT ![u] = "options"]
    /\ told' = [told EXCEPT ![u] = "nothing"]
    /\ UNCHANGED <<config, req, edits, faults>>

KnownView_Any(u) == dialog[u] # "none"

\* handleViewSubmission takes the callback ids of the two modals only.
KnownView(u) == dialog[u] \in Params

Submit(u, r) ==
    /\ KnownView(u)
    /\ told[u] \notin Requests
    /\ req[r] = None /\ \A w \in Users : told[w] # r
    /\ \E value \in Levels :
          req' = [req EXCEPT ![r] = [user |-> u, param |-> dialog[u],
                                     value |-> value, at |-> "get"]]
    /\ told' = [told EXCEPT ![u] = r]
    /\ UNCHANGED <<config, dialog, edits, faults>>

\* Slack gives up waiting; the request goes on.
TimeOut(u) ==
    /\ told[u] \in Requests
    /\ told' = [told EXCEPT ![u] = "failed"]
    /\ UNCHANGED <<config, dialog, req, edits, faults>>

(***************************************************************************)
(* handleParameterUpdate and UpdatePowerCappingConfig.                     *)
(***************************************************************************)
\* The request is over; its user is told, if Slack still waits.  A success
\* closes the modal.
Answer(r, outcome) ==
    LET u == req[r].user IN
    /\ req' = [req EXCEPT ![r] = None]
    /\ told' = IF told[u] = r THEN [told EXCEPT ![u] = outcome] ELSE told
    /\ dialog' = IF told[u] = r /\ outcome = "updated"
                 THEN [dialog EXCEPT ![u] = "none"] ELSE dialog

\* A type assertion on a key that is not there: a config without a spec, or
\* the key relativePowerCapInPercentageSpec, which no config has (the API
\* calls it relativePowerCapInPercentage).
Panics(param) == config = "bare" \/ param = "power_cap_percentage"

\* The namespace read from is operator-powercapping-system.
Get(r) ==
    /\ req[r] # None /\ req[r].at = "get"
    /\ IF config = "absent" \/ Panics(req[r].param)
       THEN Answer(r, "failed")
       ELSE /\ req' = [req EXCEPT ![r].at = "update"]
            /\ UNCHANGED <<told, dialog>>
    /\ UNCHANGED <<config, edits, faults>>

\* The copy is sent to the namespace default; the API server refuses an
\* object of another namespace, before it looks at its resourceVersion.  So no
\* request is ever told "updated", whatever else it meets.
SameNamespace == "default" = "operator-powercapping-system"

Update_Retried(r) ==
    /\ req[r] # None /\ req[r].at = "update"
    /\ SameNamespace /\ config # "absent"
    /\ config' = req[r].value
    /\ Answer(r, "updated")
    /\ UNCHANGED <<edits, faults>>

\* An update that is stored is reported in a message, which may fail, and
\* closes the modal.
Update(r) ==
    /\ req[r] # None /\ req[r].at = "update"
    /\ IF SameNamespace /\ config # "absent"
       THEN /\ config' = req[r].value
            /\ \E outcome \in {"updated", "failed"} : Answer(r, outcome)
       ELSE Answer(r, "failed") /\ UNCHANGED config
    /\ UNCHANGED <<edits, faults>>

ServeRequest(r) == Get(r) \/ Update(r)

(***************************************************************************)
(* Failures, and the config's own users.                                   *)
(***************************************************************************)
Fault == faults < MaxFaults /\ faults' = faults + 1

\* The API server cannot be reached.
CallFails(r) ==
    /\ Fault
    /\ req[r] # None
    /\ Answer(r, "failed")
    /\ UNCHANGED <<config, edits>>

\* The server dies with its connections, and comes back without any state.
Kill ==
    /\ Fault
    /\ req' = [r \in Requests |-> None]
    /\ told' = [u \in Users |-> IF told[u] \in Requests THEN "failed" ELSE told[u]]
    /\ UNCHANGED <<config, dialog, edits>>

SetConfig ==
    /\ edits < MaxEdits
    /\ edits' = edits + 1
    /\ config' \in ConfigValue \ {config}
    /\ UNCHANGED <<dialog, told, req, faults>>

Next ==
    \/ \E u \in Users : \/ Command(u) \/ CloseModal(u) \/ TimeOut(u)
                        \/ \E param \in Params : ChooseParameter(u, param)
                        \/ \E r \in Requests : Submit(u, r)
    \/ \E r \in Requests : ServeRequest(r) \/ CallFails(r)
    \/ Kill \/ SetConfig

Spec == Init /\ [][Next]_vars

\* A goroutine that serves a request is scheduled, and the API server answers
\* or fails.  Nothing is assumed of Slack or of its users.
FairSpec == Spec /\ \A r \in Requests : WF_vars(ServeRequest(r))

(***************************************************************************)
(* Properties.                                                             *)
(***************************************************************************)
\* Whatever is missing from the config, fails, panics or dies, a user who has
\* submitted a value is not left waiting, also when it is a resubmission beside
\* a request that was given up (slack_handler.go:171-197, 234-268).  What the
\* user is told is not part of it.
SubmissionsAnswered == \A u \in Users : told[u] \in Requests ~> told[u] \notin Requests
================================================================================
