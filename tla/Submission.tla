----------------------------- MODULE Submission ------------------------------
(***************************************************************************)
(* From a plan to running tasks: planners create a job directory           *)
(* (JobStore.create), a scheduler adapter starts the planned tasks in a    *)
(* local pool or as an array of a cluster.  A task is one call of          *)
(* run_distributed_task; what it does is module DistJob.                   *)
(***************************************************************************)
EXTENDS Integers, FiniteSets

CONSTANTS
  Planner,       \* processes of `letools dist plan` for one job directory
  Nobody,
  Tasks,         \* number of planned tasks
  RequiredCpus,  \* plan.worker.required_cpus
  Submissions,   \* calls: [scheduler, parallel, cpus, send]
  Backoff,       \* backoffLimitPerIndex of a Kubernetes job
  MaxCrashes     \* bound on killed planners and submitters

ASSUME SubmissionAssumption ==
  /\ Nobody \notin Planner
  /\ {Tasks, RequiredCpus} \subseteq Nat \ {0} /\ {Backoff, MaxCrashes} \subseteq Nat
  /\ \A s \in Submissions :
       s.scheduler \in {"local", "slurm", "kubernetes"} /\ s.parallel \in Int

VARIABLES
  creating,    \* step of each planner
  partsMade,   \* staging/parts exists
  planOf,      \* whose plan is plan.json
  call,        \* the submission under way, or the last one
  submission,  \* "none", "pool", "stopping", "finalizing", "returned", "raised"
  future,      \* of each task of this pool or array
  awaited,     \* the result the pool's caller waits for
  attempts,    \* started by the cluster
  committed,   \* tasks with a result record
  delivered,   \* the destination is published
  crashes

poolVars == <<call, submission, future, awaited, attempts>>
jobVars == <<creating, partsMade, planOf, committed, delivered, crashes>>
submissionVars == <<poolVars, jobVars>>

TaskIds == 0 .. Tasks - 1
Fresh == [t \in TaskIds |-> "waiting"]
Running == {t \in TaskIds : future[t] = "running"}
Waiting == {t \in TaskIds : future[t] = "waiting"}

SubmissionInit ==
  /\ creating = [p \in Planner |-> "scanned"]
  /\ partsMade = FALSE /\ planOf = Nobody
  /\ call \in Submissions /\ submission = "none"
  /\ future = Fresh /\ awaited = 0 /\ attempts = [t \in TaskIds |-> 0]
  /\ committed = {} /\ delivered = FALSE /\ crashes = 0
-----------------------------------------------------------------------------
(* JobStore.create *)

CreateCheck(p) ==
  /\ creating[p] = "scanned"
  /\ creating' = [creating EXCEPT ![p] = IF planOf = Nobody THEN "checked" ELSE "refused"]
  /\ UNCHANGED <<poolVars, partsMade, planOf, committed, delivered, crashes>>

(* Mutant: the directory may exist.                                        *)
MakePartsExistOk(p) ==
  /\ creating[p] = "checked"
  /\ creating' = [creating EXCEPT ![p] = "made"]
  /\ partsMade' = TRUE
  /\ UNCHANGED <<poolVars, planOf, committed, delivered, crashes>>

MakeParts(p) ==
  /\ creating[p] = "checked"
  /\ creating' = [creating EXCEPT ![p] = IF partsMade THEN "refused" ELSE "made"]
  /\ partsMade' = TRUE
  /\ UNCHANGED <<poolVars, planOf, committed, delivered, crashes>>

WritePlan(p) ==
  /\ creating[p] = "made"
  /\ \/ planOf' = p /\ creating' = [creating EXCEPT ![p] = "written"]
     \/ crashes < MaxCrashes /\ UNCHANGED planOf
        /\ creating' = [creating EXCEPT ![p] = "crashed"]
  /\ crashes' = IF planOf' = p THEN crashes ELSE crashes + 1
  /\ UNCHANGED <<poolVars, partsMade, committed, delivered>>
-----------------------------------------------------------------------------
(* SchedulerAdapter.submit *)

(* Slurm compares the processors it is given with those the plan needs; so *)
(* does Kubernetes, and both ask for as many as needed if none are given.  *)
Rejected(s) == \/ s.parallel <= 0
               \/ s.scheduler # "local" /\ s.cpus # 0 /\ s.cpus < RequiredCpus

Submit(s) ==
  /\ submission \in {"none", "returned", "raised"} /\ planOf # Nobody
  /\ Running = {}
  /\ call' = s
  /\ submission' = IF Rejected(s) THEN "raised"
                   ELSE IF s.scheduler = "local" THEN "pool"
                   ELSE "returned"
  /\ future' = IF Rejected(s) \/ (s.scheduler # "local" /\ ~s.send)
               THEN [t \in TaskIds |-> "cancelled"] ELSE Fresh
  /\ awaited' = 0 /\ attempts' = [t \in TaskIds |-> 0]
  /\ UNCHANGED jobVars

Parallel == IF call.parallel < Tasks THEN call.parallel ELSE Tasks

(* A pool takes tasks in their order, an array in any.                     *)
StartTask(t) ==
  /\ \/ submission \in {"pool", "stopping"} /\ \A u \in Waiting : t <= u
     \/ submission = "returned" /\ call.scheduler # "local"
  /\ future[t] = "waiting" /\ Cardinality(Running) < Parallel
  /\ future' = [future EXCEPT ![t] = "running"]
  /\ attempts' = [attempts EXCEPT ![t] = @ + 1]
  /\ UNCHANGED <<call, submission, awaited, jobVars>>

(* The record is written, then the job is published if this was the last.  *)
EndTask(t) ==
  /\ future[t] = "running"
  /\ committed' = committed \cup {t}
  /\ \/ /\ future' = [future EXCEPT ![t] = "good"]
        /\ delivered' = (delivered \/ committed' = TaskIds)
     \/ /\ committed' = TaskIds
        /\ future' = [future EXCEPT ![t] = "failed"]
        /\ UNCHANGED delivered
  /\ UNCHANGED <<call, submission, awaited, attempts, creating, partsMade, planOf,
                 crashes>>

(* The cluster starts a failed index again, a pool does not.               *)
FailTask(t) ==
  /\ future[t] = "running"
  /\ future' = [future EXCEPT ![t] =
                 IF call.scheduler = "kubernetes" /\ attempts[t] <= Backoff
                 THEN "waiting" ELSE "failed"]
  /\ UNCHANGED <<call, submission, awaited, attempts, jobVars>>

(* Mutant: nobody looks at what the tasks returned.                        *)
AwaitAny ==
  /\ submission = "pool" /\ awaited < Tasks
  /\ future[awaited] \in {"good", "failed"}
  /\ awaited' = awaited + 1
  /\ UNCHANGED <<call, submission, future, attempts, jobVars>>

(* pool.map: results in the order of the tasks; the first failure cancels  *)
(* what has not begun.                                                     *)
Await ==
  /\ submission = "pool" /\ awaited < Tasks
  /\ \/ /\ future[awaited] = "good"
        /\ awaited' = awaited + 1 /\ UNCHANGED <<submission, future>>
     \/ /\ future[awaited] = "failed"
        /\ submission' = "stopping"
        /\ future' = [t \in TaskIds |-> IF future[t] = "waiting" THEN "cancelled"
                                        ELSE future[t]]
        /\ UNCHANGED awaited
  /\ UNCHANGED <<call, attempts, jobVars>>

(* The pool is left only when its running tasks have ended.                *)
LeavePool ==
  /\ Running = {}
  /\ \/ submission = "stopping" /\ submission' = "raised"
     \/ submission = "pool" /\ awaited = Tasks /\ submission' = "finalizing"
  /\ UNCHANGED <<call, future, awaited, attempts, jobVars>>

FinalizeLocal ==
  /\ submission = "finalizing"
  /\ \/ submission' = "returned" /\ delivered' = (delivered \/ committed = TaskIds)
     \/ submission' = "raised" /\ UNCHANGED delivered
  /\ UNCHANGED <<call, future, awaited, attempts, creating, partsMade, planOf,
                 committed, crashes>>

(* A local submitter takes its threads with it.                            *)
KillSubmitter ==
  /\ submission \in {"pool", "stopping", "finalizing"} /\ crashes < MaxCrashes
  /\ submission' = "none" /\ crashes' = crashes + 1
  /\ future' = [t \in TaskIds |-> "cancelled"]
  /\ UNCHANGED <<call, awaited, attempts, creating, partsMade, planOf, committed,
                 delivered>>

SubmissionNext ==
  \/ \E p \in Planner : CreateCheck(p) \/ MakeParts(p) \/ WritePlan(p)
  \/ \E s \in Submissions : Submit(s)
  \/ \E t \in TaskIds : StartTask(t) \/ EndTask(t) \/ FailTask(t)
  \/ Await \/ LeavePool \/ FinalizeLocal \/ KillSubmitter

SubmissionSpec == SubmissionInit /\ [][SubmissionNext]_submissionVars
-----------------------------------------------------------------------------
(* Of several planners at most one writes plan.json, and only once; where  *)
(* there is a directory without one, its planner is at work or has died.   *)
OnePlannerWins ==
  LET makers == {p \in Planner : creating[p] \in {"made", "written", "crashed"}}
  IN  /\ \A p, q \in makers : p = q
      /\ partsMade <=> makers # {}
      /\ \A p \in makers : planOf = p <=> creating[p] = "written"

(* A local submission that returns has published the job, whichever tasks  *)
(* were done before and in whatever order they ended; none of its tasks    *)
(* works on after it has returned or raised.                               *)
SubmissionDelivers ==
  call.scheduler = "local" =>
    /\ submission = "returned" => delivered
    /\ submission \in {"returned", "raised"} => Running = {}
=============================================================================
