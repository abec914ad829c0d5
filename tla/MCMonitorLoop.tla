---------------------------- MODULE MCMonitorLoop ----------------------------
(***************************************************************************)
(* Small instances of MonitorLoop.  Limits, readings and the initial bound *)
(* are chosen so that limit \div 100, limit \div reading, the default of 1 *)
(* and the initial bound differ.                                           *)
(***************************************************************************)
EXTENDS MonitorLoop

CONSTANTS c1, o1, o2, d1, d2, d3

Limit(n, refs) == [limit |-> n, refs |-> refs]

TwoTargets == [o \in Objects |-> IF o = o1 THEN d1 ELSE d2]

\* One config over both objects, or with another limit over one of them.
PairSpecs == {Limit(240, <<o1, o2>>), Limit(400, <<o2>>)}
\* Other references or none, no limit, a negative limit.
MixedSpecs == {Limit(240, <<o1, o2>>), Limit(400, <<o2>>),
               Limit(None, <<o2, o1>>), Limit(-240, <<o2>>), Limit(240, <<>>)}
OneLimit == {Limit(240, <<o1, o2>>)}

\* What Prometheus answers: the same for ever, changing, or zero at times.
Steady == [d \in Deployments |-> IF d = d1 THEN {80} ELSE {35}]
MixedReadings == [d \in Deployments |-> IF d = d1 THEN {80} ELSE {0, 35}]
IdleOrBusy == [d \in Deployments |-> IF d = d1 THEN {0, 150} ELSE {0, 80}]
=============================================================================
