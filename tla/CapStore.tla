------------------------------- MODULE CapStore -------------------------------
(***************************************************************************)
(* What the capping loop promises to those who own the ScaledObjects,      *)
(* without handlers, copies, conflicts or crashes.                         *)
(*                                                                         *)
(* Configs and objects change when their users change them.  Apart from    *)
(* that a config that exists is settled once, and may set the bound of an  *)
(* object: in one step, nothing but the bound, and only to a value that a  *)
(* spec with this object and a reading of the deployment it scales at that *)
(* moment explain.  MonitorLoop implements this with reads and writes that *)
(* lie apart.                                                              *)
(***************************************************************************)
EXTENDS CappingStrategy, Sequences

CONSTANTS Configs, Objects, Specs, Readings     \* as in MonitorLoop

VARIABLES
    life, spec, created,    \* of each config
    so,                     \* the ScaledObjects
    edits                   \* the changes that users have made

storeVars == <<life, spec, created, so, edits>>

Init ==
    /\ life = [c \in Configs |-> "absent"]
    /\ spec = [c \in Configs |-> None]
    /\ created = [c \in Configs |-> "pending"]
    /\ so \in [Objects -> [target : Deployments, max : Int]]
    /\ edits = 0

\* The bounds a spec explains for an object that scales deployment t: the
\* default, the placeholder of a valid spec, or the limit over a reading.
Bounds(s, t) ==
    {1} \cup {PlaceholderCap(l) : l \in {s.limit} \cap Nat}
        \cup {Truncate(l, w) : l \in {s.limit} \ {None}, w \in Readings[t] \ {0}}

SetBound(c, o) ==
    /\ life[c] # "absent" /\ so[o] # None
    /\ \E s \in Specs :
          /\ \E i \in DOMAIN s.refs : s.refs[i] = o
          /\ \E m \in Bounds(s, so[o].target) : so' = [so EXCEPT ![o].max = m]
    /\ UNCHANGED <<life, spec, created, edits>>

\* The creation of a config is done, or refused while its spec is not valid.
Settle(c) ==
    /\ life[c] # "absent" /\ created[c] = "pending"
    /\ \/ created' = [created EXCEPT ![c] = "done"]
       \/ spec[c].limit \notin Nat /\ created' = [created EXCEPT ![c] = "rejected"]
    /\ UNCHANGED <<life, spec, so, edits>>

Remove(c) ==
    /\ life[c] = "deleting"
    /\ life' = [life EXCEPT ![c] = "absent"]
    /\ spec' = [spec EXCEPT ![c] = None]
    /\ created' = [created EXCEPT ![c] = "pending"]
    /\ UNCHANGED <<so, edits>>

\* A user creates, changes or deletes a config, or writes an object.
UserStep ==
    /\ edits' = edits + 1
    /\ \/ \E c \in Configs :
             /\ \/ life[c] = "absent" /\ life' = [life EXCEPT ![c] = "live"]
                \/ life[c] = "live" /\ UNCHANGED life
             /\ \E s \in Specs : spec' = [spec EXCEPT ![c] = s]
             /\ UNCHANGED <<created, so>>
       \/ \E c \in Configs :
             /\ life[c] = "live" /\ life' = [life EXCEPT ![c] = "deleting"]
             /\ UNCHANGED <<spec, created, so>>
       \/ \E o \in Objects :
             /\ \A q \in Objects \ {o} : so'[q] = so[q]
             /\ UNCHANGED <<life, spec, created>>

Next ==
    \/ \E c \in Configs : Settle(c) \/ Remove(c) \/ \E o \in Objects : SetBound(c, o)
    \/ UserStep

Spec == Init /\ [][Next]_storeVars
===============================================================================
