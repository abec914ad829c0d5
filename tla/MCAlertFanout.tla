----------------------------- MODULE MCAlertFanout -----------------------------
(***************************************************************************)
(* A small instance of AlertFanout: two alerts about two pods.             *)
(***************************************************************************)
EXTENDS AlertFanout

CONSTANTS a1, a2, p1, p2

Pod == [a \in Alerts |-> IF a = a1 THEN p1 ELSE p2]
NoneHangs == [a \in Alerts |-> Channels]
===============================================================================
