---------------------------- MODULE JobRunnerProofs ----------------------------
(***************************************************************************)
(* Proofs about JobRunner, for any number of runs and faults.              *)
(***************************************************************************)
EXTENDS JobRunner, TLAPS

\* OneTuner is not inductive: a second pod could start beside one whose job is
\* gone.  The pods at work are always those of the job that is there.
PodsHaveJob == \A r \in tuning : job # None /\ job.run = r

RunnerInv == TypeOK /\ PodsHaveJob

LEMMA InitInv == Init => RunnerInv
BY RunnerAssumption DEF Init, RunnerInv, TypeOK, PodsHaveJob

LEMMA RunStepInv ==
    ASSUME RunnerInv, NEW r \in Runs, RunStep(r)
    PROVE  RunnerInv'
<1>1. CASE Load(r)
  BY <1>1 DEF Load, RunnerInv, TypeOK, PodsHaveJob
<1>2. CASE DeleteJob(r)
  BY <1>2, RunnerAssumption DEF DeleteJob, AfterDelete, RunnerInv, TypeOK, PodsHaveJob, Job
<1>3. CASE CreateJob(r)
  <2>1. NewJob(r) \in Job
    BY DEF NewJob, Job
  <2>. QED BY <1>3, <2>1 DEF CreateJob, RunnerInv, TypeOK, PodsHaveJob
<1>. QED BY <1>1, <1>2, <1>3 DEF RunStep

LEMMA FaultInv ==
    ASSUME RunnerInv, NEW r \in Runs,
           LoadFails(r) \/ DeleteFails(r) \/ CreateFails(r)
    PROVE  RunnerInv'
<1>1. faults' \in 0..MaxFaults
  BY RunnerAssumption DEF LoadFails, DeleteFails, CreateFails, Fault, RunnerInv, TypeOK
<1>2. CASE LoadFails(r) \/ DeleteFails(r)
  BY <1>1, <1>2 DEF LoadFails, DeleteFails, RunnerInv, TypeOK, PodsHaveJob
<1>3. CASE CreateFails(r)
  <2>1. NewJob(r) \in Job
    BY DEF NewJob, Job
  <2>2. job' = job \/ (job' = NewJob(r) /\ job = None)
    BY <1>3 DEF CreateFails
  <2>. QED BY <1>1, <1>3, <2>1, <2>2 DEF CreateFails, RunnerInv, TypeOK, PodsHaveJob
<1>. QED BY <1>2, <1>3

LEMMA PodInv ==
    ASSUME RunnerInv, StartPod \/ \E r \in Runs : EndPod(r)
    PROVE  RunnerInv'
<1>1. CASE StartPod
  BY <1>1 DEF StartPod, RunnerInv, TypeOK, PodsHaveJob, Job
<1>2. ASSUME NEW r \in Runs, EndPod(r) PROVE RunnerInv'
  <2>1. PICK finished \in BOOLEAN :
          job' = IF job # None /\ job.run = r
                 THEN [job EXCEPT !.finished = finished]
                 ELSE job
    BY <1>2 DEF EndPod
  <2>2. TypeOK'
    BY <1>2, <2>1 DEF EndPod, RunnerInv, TypeOK, Job
  <2>3. tuning' = {}
    BY <1>2 DEF EndPod, RunnerInv, PodsHaveJob
  <2>. QED BY <2>2, <2>3 DEF RunnerInv, PodsHaveJob
<1>. QED BY <1>1, <1>2

LEMMA RemoveJobInv ==
    ASSUME RunnerInv, RemoveJob
    PROVE  RunnerInv'
BY DEF RemoveJob, Removable, RunnerInv, TypeOK, PodsHaveJob

LEMMA RetryInv ==
    ASSUME RunnerInv, NEW r \in Runs, Retry(r)
    PROVE  RunnerInv'
BY DEF Retry, RunnerInv, TypeOK, PodsHaveJob

\* In every behaviour the variables have their types, and only the job that is
\* in the cluster has pods at work.
THEOREM RunnerInvariant == Spec => []RunnerInv
<1>1. RunnerInv /\ UNCHANGED vars => RunnerInv'
  BY DEF vars, RunnerInv, TypeOK, PodsHaveJob
<1>2. RunnerInv /\ [Next]_vars => RunnerInv'
  BY <1>1, RunStepInv, FaultInv, PodInv, RemoveJobInv, RetryInv DEF Next
<1>. QED BY <1>2, InitInv, PTL DEF Spec

\* Two jobs never tune the node at the same time, for any number of runs,
\* retries and failed calls.
THEOREM OneJobTunes == Spec => []OneTuner
<1>1. RunnerInv => OneTuner
  BY DEF RunnerInv, PodsHaveJob, OneTuner
<1>. QED BY <1>1, RunnerInvariant, PTL
===============================================================================
