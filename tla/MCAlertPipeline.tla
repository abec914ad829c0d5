---------------------------- MODULE MCAlertPipeline ----------------------------
(***************************************************************************)
(* A small instance of AlertPipeline: two alerts about the same one of two *)
(* pods are followed to the channels.                                      *)
(***************************************************************************)
EXTENDS AlertPipeline

CONSTANTS a1, a2, p1, p2

Pod == [a \in Alerts |-> p1]

\* Every request is answered but one, which may hang.
OneHangs == [a \in Alerts |-> IF a = a1 THEN Channels \ {"prometheus"} ELSE Channels]

Relative30 == [kind |-> "relative", window |-> 30]
Relative0 == [kind |-> "relative", window |-> 0]

Other == [kind |-> "other", window |-> 30]
Windows == {Relative30, Relative0, Other}
Peak == {100}
================================================================================
