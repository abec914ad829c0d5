-------------------------- MODULE SlackCommandsProofs --------------------------
(***************************************************************************)
(* Proofs about SlackCommands, for any users, requests, levels, changes of *)
(* the config and faults.                                                  *)
(***************************************************************************)
EXTENDS SlackCommands, TLAPS

LEMMA InitType == Init => TypeOK
<1>. SUFFICES ASSUME Init PROVE TypeOK
  OBVIOUS
<1>1. edits \in 0..MaxEdits /\ faults \in 0..MaxFaults
  BY SlackAssumption DEF Init
<1>. QED BY <1>1 DEF Init, TypeOK, ConfigValue, Dialogs, Outcomes

\* A request that ends leaves the user with one of the three outcomes.
LEMMA AnswerType ==
    ASSUME TypeOK, NEW r \in Requests, req[r] # None, NEW outcome \in Outcomes,
           Answer(r, outcome)
    PROVE  /\ dialog' \in [Users -> Dialogs]
           /\ told' \in [Users -> Requests \cup Outcomes]
           /\ req' \in [Requests -> Request \cup {None}]
BY DEF Answer, TypeOK, Dialogs

\* The two calls of a request.
LEMMA ServeRequestType ==
    ASSUME TypeOK, NEW r \in Requests, ServeRequest(r)
    PROVE  TypeOK'
<1>1. {"nothing", "failed", "updated"} = Outcomes
  BY DEF Outcomes
<1>2. CASE Get(r)
  <2>1. CASE Answer(r, "failed") /\ UNCHANGED <<config, edits, faults>>
    BY <1>1, <1>2, <2>1, AnswerType DEF Get, TypeOK
  <2>2. CASE /\ req' = [req EXCEPT ![r].at = "update"]
             /\ UNCHANGED <<told, dialog, config, edits, faults>>
    BY <1>2, <2>2 DEF Get, TypeOK, Request
  <2>. QED BY <1>2, <2>1, <2>2 DEF Get
<1>3. CASE Update(r)
  <2>1. PICK outcome \in Outcomes : Answer(r, outcome)
    BY <1>1, <1>3 DEF Update
  <2>2. config' \in ConfigValue
    BY <1>3 DEF Update, TypeOK, Request, ConfigValue
  <2>. QED BY <1>3, <2>1, <2>2, AnswerType DEF Update, TypeOK
<1>. QED BY <1>2, <1>3 DEF ServeRequest

LEMMA SubmitType ==
    ASSUME TypeOK, NEW u \in Users, NEW r \in Requests, Submit(u, r)
    PROVE  TypeOK'
<1>1. PICK value \in Levels :
        req' = [req EXCEPT ![r] = [user |-> u, param |-> dialog[u],
                                   value |-> value, at |-> "get"]]
  BY DEF Submit
<1>2. [user |-> u, param |-> dialog[u], value |-> value, at |-> "get"] \in Request
  BY DEF Submit, KnownView, Request
<1>. QED BY <1>1, <1>2 DEF Submit, TypeOK

\* What a user does apart from submitting.
LEMMA DialogType ==
    ASSUME TypeOK, NEW u \in Users,
           \/ Command(u) \/ CloseModal(u) \/ TimeOut(u)
           \/ \E param \in Params : ChooseParameter(u, param)
    PROVE  TypeOK'
<1>1. CASE Command(u)
  BY <1>1 DEF Command, TypeOK, Dialogs
<1>2. CASE CloseModal(u)
  BY <1>2 DEF CloseModal, TypeOK, Dialogs, Outcomes
<1>3. CASE TimeOut(u)
  BY <1>3 DEF TimeOut, TypeOK, Outcomes
<1>4. ASSUME NEW param \in Params, ChooseParameter(u, param) PROVE TypeOK'
  BY <1>4 DEF ChooseParameter, TypeOK, Dialogs
<1>. QED BY <1>1, <1>2, <1>3, <1>4

LEMMA FaultCount ==
    ASSUME TypeOK, Fault
    PROVE  faults' \in 0..MaxFaults
BY SlackAssumption DEF TypeOK, Fault

LEMMA NextType == TypeOK /\ [Next]_vars => TypeOK'
<1>. SUFFICES ASSUME TypeOK, [Next]_vars PROVE TypeOK'
  OBVIOUS
<1>1. ASSUME NEW r \in Requests, CallFails(r) PROVE TypeOK'
  <2>1. "failed" \in Outcomes
    BY DEF Outcomes
  <2>. QED BY <1>1, <2>1, AnswerType, FaultCount DEF CallFails, TypeOK
<1>2. CASE Kill
  <2>1. told' \in [Users -> Requests \cup Outcomes]
    BY <1>2 DEF Kill, TypeOK, Outcomes
  <2>2. req' \in [Requests -> Request \cup {None}]
    BY <1>2 DEF Kill
  <2>. QED BY <1>2, <2>1, <2>2, FaultCount DEF Kill, TypeOK
<1>3. CASE SetConfig
  <2>1. edits' \in 0..MaxEdits
    BY <1>3, SlackAssumption DEF SetConfig, TypeOK
  <2>. QED BY <1>3, <2>1 DEF SetConfig, TypeOK
<1>4. CASE UNCHANGED vars
  BY <1>4 DEF vars, TypeOK
<1>. QED BY <1>1, <1>2, <1>3, <1>4, DialogType, SubmitType, ServeRequestType DEF Next

\* In every behaviour the variables have their types: above all a request is
\* for one of the two parameters, and each user has an answer or waits for one.
THEOREM TypeCorrect == Spec => []TypeOK
BY InitType, NextType, PTL DEF Spec
================================================================================
