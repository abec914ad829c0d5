------------------------------ MODULE MCPodWatch ------------------------------
(***************************************************************************)
(* Small instances of PodWatch.                                            *)
(***************************************************************************)
EXTENDS PodWatch

RelativeConfig(window) == [kind |-> "relative", window |-> window]
Absolute == [kind |-> "other", window |-> 0]

GoodConfigs == {RelativeConfig(30), Absolute}
\* A window left out of the config is 0.
AnyWindow == GoodConfigs \cup {RelativeConfig(0)}

Peak == {100}
PeakOrNone == {100, None}
===============================================================================
