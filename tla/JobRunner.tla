------------------------------- MODULE JobRunner -------------------------------
(***************************************************************************)
(* The Kubernetes job runner (internal/webhook/runners).                   *)
(*                                                                         *)
(* A run replaces the one job that its manifest names: it asks for the     *)
(* job's foreground deletion, which is over long after the call returns,   *)
(* and creates the job anew at once.  The name is taken until then, and a  *)
(* refused creation panics.  Several runs may be under way, one for each   *)
(* alert.  The job's pod sets the CPU frequency of a node.                 *)
(*                                                                         *)
(* An operator named Op_Variant is Op with a plausible bug; no definition  *)
(* uses it, it only shows that a property can fail (see README.md).        *)
(***************************************************************************)
EXTENDS Naturals

CONSTANTS
    Runs,           \* the calls of Run
    Namespaced,     \* those whose manifest names a namespace
    Retrying,       \* those whose caller calls again after a panic or an error
    None,           \* no job
    MaxFaults       \* bound: calls of the API server that fail

Job == [run : Runs, deleting : BOOLEAN, finished : BOOLEAN]

ASSUME RunnerAssumption ==
    /\ Namespaced \subseteq Runs /\ Retrying \subseteq Runs
    /\ None \notin Job
    /\ MaxFaults \in Nat

VARIABLES
    job,        \* the job in the cluster
    tuning,     \* the runs whose job has a pod at work
    pc,         \* of each run: what it is about to do
    faults

vars == <<job, tuning, pc, faults>>

TypeOK ==
    /\ job \in Job \cup {None}
    /\ tuning \subseteq Runs
    /\ pc \in [Runs -> {"idle", "delete", "create", "done", "failed"}]
    /\ faults \in 0..MaxFaults

Init ==
    /\ job = None
    /\ tuning = {}
    /\ pc = [r \in Runs |-> "idle"]
    /\ faults = 0

(***************************************************************************)
(* Run.                                                                    *)
(***************************************************************************)
\* The client is made, the manifest read, filled in and decoded.
Load(r) ==
    /\ pc[r] = "idle"
    /\ pc' = [pc EXCEPT ![r] = "delete"]
    /\ UNCHANGED <<job, tuning, faults>>

AfterDelete_Found(r) == IF job # None THEN "create" ELSE "failed"

\* An error of the deletion, a missing job above all, is printed only.
AfterDelete(r) == "create"

\* Jobs("") refuses every call that names a job.
DeleteJob(r) ==
    /\ pc[r] = "delete"
    /\ job' = IF job # None /\ r \in Namespaced
              THEN [job EXCEPT !.deleting = TRUE]
              ELSE job
    /\ pc' = [pc EXCEPT ![r] = AfterDelete(r)]
    /\ UNCHANGED <<tuning, faults>>

NewJob(r) == [run |-> r, deleting |-> FALSE, finished |-> FALSE]

\* The name may still be taken, by a job that is being deleted or by another
\* run's; a refused creation panics.
CreateJob(r) ==
    /\ pc[r] = "create"
    /\ IF job = None /\ r \in Namespaced
       THEN /\ job' = NewJob(r)
            /\ pc' = [pc EXCEPT ![r] = "done"]
       ELSE /\ pc' = [pc EXCEPT ![r] = "failed"]
            /\ UNCHANGED job
    /\ UNCHANGED <<tuning, faults>>

RunStep(r) == Load(r) \/ DeleteJob(r) \/ CreateJob(r)

(***************************************************************************)
(* Failures of single calls.                                               *)
(***************************************************************************)
Fault == faults < MaxFaults /\ faults' = faults + 1

LoadFails(r) ==
    /\ Fault
    /\ pc[r] = "idle"
    /\ pc' = [pc EXCEPT ![r] = "failed"]
    /\ UNCHANGED <<job, tuning>>

DeleteFails(r) ==
    /\ Fault
    /\ pc[r] = "delete"
    /\ pc' = [pc EXCEPT ![r] = "create"]
    /\ UNCHANGED <<job, tuning>>

\* The call raises, before or after it took effect.
CreateFails(r) ==
    /\ Fault
    /\ pc[r] = "create"
    /\ pc' = [pc EXCEPT ![r] = "failed"]
    /\ job' \in {job} \cup {j \in {NewJob(r)} : job = None /\ r \in Namespaced}
    /\ UNCHANGED tuning

(***************************************************************************)
(* Kubernetes, and the caller.                                             *)
(***************************************************************************)
\* The job controller starts the job's pod, and another one when it failed.
StartPod ==
    /\ job # None /\ ~job.deleting /\ ~job.finished
    /\ job.run \notin tuning
    /\ tuning' = tuning \cup {job.run}
    /\ UNCHANGED <<job, pc, faults>>

\* A pod ends: done, failed, or stopped because its job is being deleted.
EndPod(r) ==
    /\ r \in tuning
    /\ tuning' = tuning \ {r}
    /\ \E finished \in BOOLEAN :
          job' = IF job # None /\ job.run = r
                 THEN [job EXCEPT !.finished = finished]
                 ELSE job
    /\ UNCHANGED <<pc, faults>>

Removable_Background(j) == TRUE

\* Foreground propagation: the job goes after its pods.
Removable(j) == j.run \notin tuning

RemoveJob ==
    /\ job # None /\ job.deleting
    /\ Removable(job)
    /\ job' = None
    /\ UNCHANGED <<tuning, pc, faults>>

Retry(r) ==
    /\ r \in Retrying
    /\ pc[r] = "failed"
    /\ pc' = [pc EXCEPT ![r] = "idle"]
    /\ UNCHANGED <<job, tuning, faults>>

Next ==
    \/ \E r \in Runs : \/ RunStep(r) \/ Retry(r) \/ EndPod(r)
                       \/ LoadFails(r) \/ DeleteFails(r) \/ CreateFails(r)
    \/ StartPod
    \/ RemoveJob

Spec == Init /\ [][Next]_vars

\* Calls return, pods end and Kubernetes removes what it was asked to.
Fairness ==
    /\ \A r \in Runs : WF_vars(RunStep(r)) /\ WF_vars(Retry(r)) /\ WF_vars(EndPod(r))
    /\ WF_vars(RemoveJob)

FairSpec == Spec /\ Fairness

(***************************************************************************)
(* Properties.                                                             *)
(***************************************************************************)
\* However the runs interleave, two jobs never tune the node at the same time:
\* a job is only created when the pods of the one before are gone, because of
\* the foreground deletion (kubernetes_runner.go:75-80).
OneTuner == \A q, r \in tuning : q = r

\* When the callers of failed runs call again, there is a job in the end that
\* nobody deletes any more, although each run takes the others' jobs away.
JobInTheEnd == <>[](job # None /\ ~job.deleting)

\* kubernetes_runner.go:71 and 86: the existing job is deleted and the job is
\* created; so once all runs are over there is a job, unless a call failed.
JobAfterRuns ==
    (\A r \in Runs : pc[r] \in {"done", "failed"}) /\ faults = 0 =>
        job # None /\ ~job.deleting
===============================================================================
