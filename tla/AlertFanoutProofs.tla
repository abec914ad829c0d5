--------------------------- MODULE AlertFanoutProofs ---------------------------
(***************************************************************************)
(* Proofs about AlertFanout, for any channels, alerts, pods, answers and   *)
(* faults.                                                                 *)
(***************************************************************************)
EXTENDS AlertFanout, TLAPS

\* A channel can show alert a no more: the call has left its process, and its
\* request, if it made one, has been taken or lost.
Spent(a, ch) ==
    /\ call[a][ch] \in {"waiting", "returned", "killed"}
    /\ <<a, ch>> \notin wire

\* A call that is under way has a process, and every call was asked for.
CallsSent ==
    \A a \in Alerts, ch \in Channels :
        /\ UnderWay(a, ch) => up
        /\ call[a][ch] # "none" => a \in sent

\* A request has left its goroutine.
WirePosted ==
    \A a \in Alerts, ch \in Channels :
        <<a, ch>> \in wire => call[a][ch] \in {"waiting", "returned", "killed"}

\* An endpoint holds one alert per pod, of that pod.
ShownSpent ==
    \A ch \in Channels, p \in Pods, a \in Alerts :
        shows[ch][p] = a => PodOf[a] = p /\ Spent(a, ch)

FanoutInv == TypeOK /\ CallsSent /\ WirePosted /\ ShownSpent

(***************************************************************************)
(* The ways the calls, the wire and what is shown change.                  *)
(***************************************************************************)
\* The call of a and ch is at `at' afterwards, the others are where they were.
Moves(a, ch, at) == call' = [call EXCEPT ![a][ch] = at]

LEMMA MovedCall ==
    ASSUME TypeOK, NEW a \in Alerts, NEW ch \in Channels, NEW at,
           at \in {"waiting", "writing", "returned"}, Moves(a, ch, at)
    PROVE  /\ call' \in [Alerts -> [Channels -> {"none", "started", "waiting", "writing",
                                                 "returned", "killed"}]]
           /\ call'[a][ch] = at
           /\ \A b \in Alerts, c \in Channels :
                 <<b, c>> # <<a, ch>> => call'[b][c] = call[b][c]
BY DEF TypeOK, Moves

LEMMA ShownPod ==
    ASSUME TypeOK, NEW a \in Alerts, NEW ch \in Channels, Shown(a, ch)
    PROVE  /\ shows' \in [Channels -> [Pods -> Alerts \cup {None}]]
           /\ shows'[ch][PodOf[a]] = a
           /\ \A c \in Channels, p \in Pods :
                 <<c, p>> # <<ch, PodOf[a]>> => shows'[c][p] = shows[c][p]
BY FanoutAssumption DEF TypeOK, Shown

LEMMA InitInv == Init => FanoutInv
<1>. SUFFICES ASSUME Init PROVE FanoutInv
  OBVIOUS
<1>1. /\ call \in [Alerts -> [Channels -> {"none", "started", "waiting", "writing",
                                          "returned", "killed"}]]
      /\ shows \in [Channels -> [Pods -> Alerts \cup {None}]]
      /\ wire \subseteq Alerts \X HTTP
  BY DEF Init
<1>2. up \in BOOLEAN /\ sent \subseteq Alerts
  BY Zenon DEF Init
<1>3. faults \in 0..MaxFaults
  BY FanoutAssumption DEF Init
<1>4. CallsSent /\ WirePosted
  BY DEF Init, CallsSent, WirePosted, UnderWay
<1>5. ShownSpent
  BY FanoutAssumption DEF Init, ShownSpent
<1>. QED BY <1>1, <1>2, <1>3, <1>4, <1>5 DEF FanoutInv, TypeOK

LEMMA SendAlertInv ==
    ASSUME FanoutInv, NEW a \in Alerts, SendAlert(a)
    PROVE  FanoutInv'
<1>1. /\ \A c \in Channels : call[a][c] = "none" /\ call'[a][c] = "started"
      /\ \A b \in Alerts \ {a} : call'[b] = call[b]
  BY DEF FanoutInv, CallsSent, TypeOK, SendAlert
<1>2. TypeOK'
  BY DEF FanoutInv, TypeOK, SendAlert
<1>3. CallsSent'
  BY <1>1 DEF FanoutInv, CallsSent, SendAlert, UnderWay
<1>4. WirePosted'
  BY <1>1 DEF FanoutInv, WirePosted, SendAlert
<1>5. ShownSpent'
  BY <1>1 DEF FanoutInv, ShownSpent, Spent, SendAlert
<1>. QED BY <1>2, <1>3, <1>4, <1>5 DEF FanoutInv

LEMMA PostInv ==
    ASSUME FanoutInv, NEW a \in Alerts, NEW ch \in Channels, Post(a, ch)
    PROVE  FanoutInv'
<1>1. Moves(a, ch, "waiting") /\ TypeOK /\ call[a][ch] = "started"
  BY DEF Post, Moves, FanoutInv
<1>2. TypeOK'
  BY <1>1, MovedCall DEF Post, TypeOK
<1>3. CallsSent'
  BY <1>1, MovedCall DEF FanoutInv, CallsSent, UnderWay, Post
<1>4. WirePosted'
  BY <1>1, MovedCall DEF FanoutInv, WirePosted, Post
<1>5. ShownSpent'
  BY <1>1, MovedCall DEF FanoutInv, ShownSpent, Spent, Post
<1>. QED BY <1>2, <1>3, <1>4, <1>5 DEF FanoutInv

LEMMA TakeInv ==
    ASSUME FanoutInv, NEW a \in Alerts, NEW ch \in Channels, Take(a, ch)
    PROVE  FanoutInv'
<1>1. Shown(a, ch) /\ TypeOK
  BY DEF Take, FanoutInv
<1>2. TypeOK'
  BY <1>1, ShownPod DEF Take, TypeOK
<1>3. CallsSent' /\ WirePosted'
  BY DEF Take, FanoutInv, CallsSent, WirePosted, UnderWay
<1>4. Spent(a, ch)' /\ \A b \in Alerts, c \in Channels : Spent(b, c) => Spent(b, c)'
  BY DEF Take, FanoutInv, WirePosted, Spent
<1>5. ShownSpent'
  BY <1>1, <1>4, ShownPod DEF FanoutInv, ShownSpent
<1>. QED BY <1>2, <1>3, <1>5 DEF FanoutInv

\* A call that returns: an HTTP call with its request gone from the wire or
\* left there, or a GitOps call, which has shown its alert or lost it.
LEMMA ReturnInv ==
    ASSUME FanoutInv, NEW a \in Alerts, NEW ch \in Channels,
           UnderWay(a, ch), Returned(a, ch),
           wire' \in {wire, wire \ {<<a, ch>>}},
           \/ UNCHANGED shows
           \/ Shown(a, ch) /\ <<a, ch>> \notin wire,
           UNCHANGED <<up, sent>>, faults' \in 0..MaxFaults
    PROVE  FanoutInv'
<1>1. Moves(a, ch, "returned") /\ TypeOK
  BY DEF Returned, Moves, FanoutInv
<1>2. TypeOK'
  <2>1. shows' \in [Channels -> [Pods -> Alerts \cup {None}]]
    BY <1>1, ShownPod DEF TypeOK
  <2>. QED BY <1>1, <2>1, MovedCall DEF TypeOK
<1>3. CallsSent'
  BY <1>1, MovedCall DEF FanoutInv, CallsSent, UnderWay
<1>4. WirePosted'
  BY <1>1, MovedCall DEF FanoutInv, WirePosted
<1>5. \A b \in Alerts, c \in Channels : Spent(b, c) => Spent(b, c)'
  BY <1>1, MovedCall DEF Spent
<1>6. ShownSpent'
  <2>1. CASE UNCHANGED shows
    BY <1>5, <2>1 DEF FanoutInv, ShownSpent
  <2>2. CASE Shown(a, ch) /\ <<a, ch>> \notin wire
    <3>1. Spent(a, ch)'
      BY <1>1, <2>2, MovedCall DEF Spent
    <3>. QED BY <1>1, <1>5, <2>2, <3>1, ShownPod DEF FanoutInv, ShownSpent
  <2>. QED BY <2>1, <2>2
<1>. QED BY <1>2, <1>3, <1>4, <1>6 DEF FanoutInv

LEMMA ExitInv ==
    ASSUME FanoutInv, Exit, faults' \in 0..MaxFaults
    PROVE  FanoutInv'
<1>1. \A a \in Alerts, ch \in Channels :
         call'[a][ch] = IF UnderWay(a, ch) THEN "killed" ELSE call[a][ch]
  BY DEF Exit
<1>2. TypeOK'
  BY DEF FanoutInv, TypeOK, Exit, HTTP
<1>3. CallsSent'
  BY <1>1 DEF FanoutInv, CallsSent, UnderWay, Exit
<1>4. WirePosted'
  BY <1>1 DEF FanoutInv, WirePosted, Exit
<1>5. ShownSpent'
  <2>1. ASSUME NEW ch \in Channels, NEW p \in Pods, NEW a \in Alerts, shows'[ch][p] = a
        PROVE  shows[ch][p] = a
    BY <2>1, FanoutAssumption DEF Exit
  <2>2. \A b \in Alerts, c \in Channels : Spent(b, c) => Spent(b, c)'
    BY <1>1 DEF Spent, Exit
  <2>. QED BY <2>1, <2>2 DEF FanoutInv, ShownSpent
<1>. QED BY <1>2, <1>3, <1>4, <1>5 DEF FanoutInv

LEMMA BeginWriteInv ==
    ASSUME FanoutInv, NEW a \in Alerts, BeginWrite(a)
    PROVE  FanoutInv'
<1>1. CASE Exit
  BY <1>1, ExitInv DEF BeginWrite, FanoutInv, TypeOK
<1>2. CASE Moves(a, "gitops", "writing") /\ UNCHANGED <<up, sent, wire, shows>>
  <2>1. TypeOK /\ "gitops" \in Channels /\ call[a]["gitops"] = "started"
    BY DEF BeginWrite, FanoutInv
  <2>2. TypeOK'
    BY <1>2, <2>1, MovedCall DEF BeginWrite, TypeOK
  <2>3. CallsSent'
    BY <1>2, <2>1, MovedCall DEF FanoutInv, CallsSent, UnderWay
  <2>4. WirePosted'
    BY <1>2, <2>1, MovedCall DEF FanoutInv, WirePosted
  <2>5. ShownSpent'
    BY <1>2, <2>1, MovedCall DEF FanoutInv, ShownSpent, Spent
  <2>. QED BY <2>2, <2>3, <2>4, <2>5 DEF FanoutInv
<1>. QED BY <1>1, <1>2 DEF BeginWrite, Moves

LEMMA CreateAlertInv ==
    ASSUME FanoutInv, NEW a \in Alerts, NEW ch \in Channels, CreateAlert(a, ch)
    PROVE  FanoutInv'
<1>1. CASE Answered(a, ch)
  BY <1>1, ReturnInv DEF Answered, UnderWay, FanoutInv, TypeOK
<1>2. CASE EndWrite(a) /\ ch = "gitops"
  <2>1. <<a, ch>> \notin wire
    BY <1>2 DEF FanoutInv, TypeOK, HTTP
  <2>. QED BY <1>2, <2>1, ReturnInv DEF EndWrite, UnderWay, FanoutInv, TypeOK
<1>. QED BY <1>1, <1>2, PostInv, BeginWriteInv DEF CreateAlert

LEMMA PostFailsInv ==
    ASSUME FanoutInv, NEW a \in Alerts, NEW ch \in Channels, PostFails(a, ch)
    PROVE  FanoutInv'
<1>1. faults' \in 0..MaxFaults
  BY FanoutAssumption DEF PostFails, Fault, FanoutInv, TypeOK
<1>. QED BY <1>1, ReturnInv DEF PostFails, UnderWay

LEMMA KillFaults ==
    ASSUME FanoutInv, Kill
    PROVE  faults' \in 0..MaxFaults
BY FanoutAssumption DEF Kill, Fault, FanoutInv, TypeOK

LEMMA NextInv == FanoutInv /\ [Next]_vars => FanoutInv'
<1>. SUFFICES ASSUME FanoutInv, [Next]_vars PROVE FanoutInv'
  OBVIOUS
<1>1. CASE Subscribe
  BY <1>1 DEF Subscribe, FanoutInv, TypeOK, CallsSent, WirePosted, ShownSpent, Spent, UnderWay
<1>2. CASE Kill
  BY <1>2, KillFaults, ExitInv DEF Kill
<1>3. CASE UNCHANGED vars
  BY <1>3 DEF vars, FanoutInv, TypeOK, CallsSent, WirePosted, ShownSpent, Spent, UnderWay
<1>. QED BY <1>1, <1>2, <1>3, SendAlertInv, CreateAlertInv, TakeInv, PostFailsInv DEF Next

\* In every behaviour the variables have their types, calls and requests have
\* their origins, and what a channel shows is a spent alert of the pod.
THEOREM FanoutInvariant == Spec => []FanoutInv
BY InitInv, NextInv, PTL DEF Spec

(***************************************************************************)
(* A spent call stays spent, and shows nothing that is not there already.  *)
(***************************************************************************)
LEMMA ShowingSpent ==
    ASSUME FanoutInv, NEW a \in Alerts, NEW ch \in Channels, Showing(a, ch)
    PROVE  Spent(a, ch)
BY FanoutAssumption DEF FanoutInv, ShownSpent, Showing

\* The step of one call, of any alert and channel.
LEMMA CallStaysSpent ==
    ASSUME FanoutInv, NEW a \in Alerts, NEW ch \in Channels, Spent(a, ch),
           NEW b \in Alerts, NEW c \in Channels,
           CreateAlert(b, c) \/ Take(b, c) \/ PostFails(b, c)
    PROVE  Spent(a, ch)' /\ (Showing(a, ch)' => Showing(a, ch))
<1>1. TypeOK /\ PodOf[a] \in Pods /\ PodOf[b] \in Pods
  BY FanoutAssumption DEF FanoutInv
<1>2. CASE Post(b, c)
  <2>1. Moves(b, c, "waiting") /\ <<a, ch>> # <<b, c>>
    BY <1>2 DEF Post, Moves, Spent
  <2>. QED BY <1>1, <1>2, <2>1, MovedCall DEF Post, Spent, Showing
<1>3. CASE Take(b, c)
  <2>1. Shown(b, c) /\ <<a, ch>> # <<b, c>>
    BY <1>3 DEF Take, Spent
  <2>2. Showing(a, ch)' => Showing(a, ch)
    BY <1>1, <2>1, ShownPod DEF Showing
  <2>. QED BY <1>3, <2>2 DEF Take, Spent
<1>4. CASE Answered(b, c) \/ PostFails(b, c)
  <2>1. /\ Moves(b, c, "returned") /\ UNCHANGED shows
        /\ wire' \in {wire, wire \ {<<b, c>>}}
    BY <1>4 DEF Answered, PostFails, Returned, Moves
  <2>. QED BY <1>1, <2>1, MovedCall DEF Spent, Showing
<1>5. CASE c = "gitops" /\ BeginWrite(b)
  <2>1. CASE Exit
    BY <1>1, <2>1, FanoutAssumption DEF Exit, Spent, Showing, UnderWay
  <2>2. CASE Moves(b, c, "writing") /\ UNCHANGED <<wire, shows>>
    <3>1. <<a, ch>> # <<b, c>>
      BY <1>5 DEF BeginWrite, Spent
    <3>. QED BY <1>1, <2>2, <3>1, MovedCall DEF Spent, Showing
  <2>. QED BY <1>5, <2>1, <2>2 DEF BeginWrite, Moves
<1>6. CASE c = "gitops" /\ EndWrite(b)
  <2>1. /\ Moves(b, c, "returned") /\ UNCHANGED wire
        /\ <<a, ch>> # <<b, c>>
        /\ Shown(b, c) \/ UNCHANGED shows
    BY <1>6 DEF EndWrite, Returned, Moves, Spent
  <2>2. Spent(a, ch)'
    BY <1>1, <2>1, MovedCall DEF Spent
  <2>3. Showing(a, ch)' => Showing(a, ch)
    BY <1>1, <2>1, ShownPod DEF Showing
  <2>. QED BY <2>2, <2>3
<1>. QED BY <1>2, <1>3, <1>4, <1>5, <1>6 DEF CreateAlert

LEMMA ExitStaysSpent ==
    ASSUME Exit, NEW a \in Alerts, NEW ch \in Channels, Spent(a, ch)
    PROVE  Spent(a, ch)' /\ (Showing(a, ch)' => Showing(a, ch))
BY FanoutAssumption DEF Exit, Spent, Showing, UnderWay

LEMMA SendStaysSpent ==
    ASSUME FanoutInv, NEW b \in Alerts, SendAlert(b),
           NEW a \in Alerts, NEW ch \in Channels, Spent(a, ch)
    PROVE  Spent(a, ch)' /\ UNCHANGED shows
<1>1. a # b
  BY DEF SendAlert, Spent, FanoutInv, CallsSent
<1>. QED BY <1>1 DEF SendAlert, Spent, FanoutInv, TypeOK

LEMMA StaysSpent ==
    ASSUME NEW a \in Alerts, NEW ch \in Channels
    PROVE  FanoutInv /\ Spent(a, ch) /\ [Next]_vars
              => Spent(a, ch)' /\ (Showing(a, ch)' => Showing(a, ch))
<1>. SUFFICES ASSUME FanoutInv, Spent(a, ch), [Next]_vars
              PROVE  Spent(a, ch)' /\ (Showing(a, ch)' => Showing(a, ch))
  OBVIOUS
<1>1. CASE Subscribe \/ UNCHANGED vars
  BY <1>1 DEF Subscribe, vars, Spent, Showing
<1>2. CASE Kill
  BY <1>2, ExitStaysSpent DEF Kill
<1>3. ASSUME NEW b \in Alerts, SendAlert(b)
      PROVE  Spent(a, ch)' /\ (Showing(a, ch)' => Showing(a, ch))
  BY <1>3, SendStaysSpent DEF Showing
<1>. QED BY <1>1, <1>2, <1>3, CallStaysSpent DEF Next

\* Whatever is posted, lost, answered late or killed, no channel goes back to an
\* alert that it has shown and that was replaced there: an alert that is shown
\* is spent, and a spent one can only be taken away.
THEOREM NeverShownAgain == Spec => ShownOnce
<1>. SUFFICES ASSUME NEW a \in Alerts, NEW ch \in Channels
              PROVE  Spec => [](Showing(a, ch) => [](~Showing(a, ch) => []~Showing(a, ch)))
  BY DEF ShownOnce
<1>1. FanoutInv => (Showing(a, ch) => Spent(a, ch))
  BY ShowingSpent
<1>2. FanoutInv /\ Spent(a, ch) /\ [Next]_vars
         => Spent(a, ch)' /\ (Showing(a, ch)' => Showing(a, ch))
  BY StaysSpent
<1>. QED BY <1>1, <1>2, FanoutInvariant, PTL DEF Spec
===============================================================================
