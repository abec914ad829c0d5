--------------------------- MODULE CappingStrategy ---------------------------
(***************************************************************************)
(* The arithmetic of power capping, as pure operators.                     *)
(*                                                                         *)
(* The Python operator bounds the replicas of a deployment by dividing a   *)
(* power limit by a power reading (strategies/), or by the fixed number    *)
(* 100 in its create handler.  Python's int(a / b) drops the fraction, so  *)
(* it rounds towards zero for either sign of a.  Limits and readings are   *)
(* integers of one (small) unit here; a reading is never negative.         *)
(*                                                                         *)
(* A per-deployment map of the program is a function on all deployments,   *)
(* with None at the keys the program's dictionary does not have.           *)
(*                                                                         *)
(* An operator named Op_Variant is Op with a plausible bug; no definition  *)
(* uses it, it only shows that a property can fail (see README.md).        *)
(***************************************************************************)
EXTENDS Integers, FiniteSets, Functions

CONSTANTS
    Deployments,    \* the workloads whose power is measured
    None            \* absent: a missing dictionary key or spec field

ASSUME NoneAssumption == None \notin Int

ASSUME DeploymentsAssumption == IsFiniteSet(Deployments)

Truncate_Rounded(a, b) == (a + b \div 2) \div b

Truncate(a, b) == IF a >= 0 THEN a \div b ELSE -((-a) \div b)

(***************************************************************************)
(* power: Deployments -> Nat or None.                                      *)
(***************************************************************************)
\* The keys of the dictionary.
Sampled(power) == {d \in Deployments : power[d] # None}

\* total_power_consumption > 0: readings are not negative, so some is positive
SomePower(power) == \E d \in Sampled(power) : power[d] > 0

\* What makes the strategy raise: a division by a reading of zero, or a
\* limit that the spec does not have.
StrategyRaises(power, limit) ==
    \/ limit = None
    \/ \E d \in Sampled(power) : power[d] = 0

\* Both strategies compute the same bound, each deployment on its own.
StrategyCaps(power, limit) ==
    [d \in Deployments |-> IF power[d] = None THEN None
                                              ELSE Truncate(limit, power[d])]

CapFor_NoDefault(caps, d) == caps[d]
CapFor_Zero(caps, d) == IF caps[d] = None THEN 0 ELSE caps[d]

\* updated_max_replicas.get(deployment_name, 1)
CapFor(caps, d) == IF caps[d] = None THEN 1 ELSE caps[d]

\* The create handler's placeholder, which looks at no reading.
PlaceholderCap(limit) == Truncate(limit, 100)

NoReading == [d \in Deployments |-> None]

Forecast_Added(power, caps) ==
    [d \in Deployments |-> IF power[d] = None THEN None
                                              ELSE power[d] + CapFor(caps, d)]

Forecast(power, caps) ==
    [d \in Deployments |-> IF power[d] = None THEN None
                                              ELSE power[d] * CapFor(caps, d)]

\* sum(f.values())
Total(f) == SumFunctionOnSet(f, Sampled(f))
=============================================================================
