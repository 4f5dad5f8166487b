------------------------------- MODULE DistJob -------------------------------
(***************************************************************************)
(* Workers of one planned job (letools.distributed.executor over           *)
(* letools.distributed.state).  All coordination goes through files on a   *)
(* shared file system: one part directory, result record and error record  *)
(* per task, the hidden sibling "final" of the destination, the            *)
(* destination, published.json, and an advisory lock that dies with its    *)
(* holder.  An attempt is one process running `letools dist worker` or     *)
(* `letools dist finalize`; any attempt may be killed between two file     *)
(* operations, and a scheduler may run several attempts of one task.       *)
(***************************************************************************)
EXTENDS Naturals, FiniteSets

CONSTANTS
  Task,        \* the tasks of the immutable plan
  Attempt,     \* process slots; a slot is reused after its process ended
  NoTask,      \* "task" of an idle slot and of `letools dist finalize`
  NoOne,       \* the finalize lock is free
  Overwrite,   \* plan.overwrite
  Validate,    \* plan.validate
  Target,      \* plan.target_version
  Leftover,    \* may results/ hold records of an earlier job?
  Duplicates,  \* may a task have two live attempts (requeue, partition)?
  Outsider,    \* may another program create the destination?
  MaxKills,    \* bound on processes killed
  MaxFaults    \* bound on exceptions raised by I/O or by the source

ASSUME JobAssumption ==
  /\ Task # {} /\ IsFiniteSet(Task) /\ NoTask \notin Task
  /\ NoOne \notin Attempt
  /\ {Overwrite, Validate, Leftover, Duplicates, Outsider} \subseteq BOOLEAN
  /\ Target \in {"v2.1", "v3.0"}
  /\ MaxKills \in Nat /\ MaxFaults \in Nat

VARIABLES
  part,       \* staging/parts/task-N: absent, torn (files missing but
              \* meta/info.json present), bare (info.json gone too), good
  result,     \* results/task-N.json: absent, stale (another job's), good
  errors,     \* tasks with errors/task-N.json
  final,      \* the hidden sibling the finalizer builds
  dest,       \* the destination
  published,  \* does published.json exist?
  lock,       \* holder of .finalize.lock
  pc,         \* next file operation of each attempt
  task,       \* the task of each attempt
  guarded,    \* attempts inside run_distributed_task's try block
  merged,     \* parts the lock holder has copied into final
  done,       \* tasks with an attempt that returned without an exception
  kills, faults

vars == <<part, result, errors, final, dest, published, lock, pc, task,
          guarded, merged, done, kills, faults>>
-----------------------------------------------------------------------------
(* A dataset tree.  data "partial": an unfinished copy; "holed": a         *)
(* finished copy of a torn part; "full": every planned episode.  prov: it  *)
(* carries .letools-distributed.json of this job.  stats: "merged" by the  *)
(* merge engine, "torn" while being rewritten in place, "source" after.    *)
Tree == [data: {"none", "foreign", "partial", "holed", "full"},
         prov: BOOLEAN, stats: {"merged", "torn", "source"}]

Fresh(data) == [data |-> data, prov |-> FALSE, stats |-> "merged"]
Absent == Fresh("none")
Foreign == Fresh("foreign")
Exists(tree) == tree.data # "none"

Steps == {"convert", "clear", "clearing", "swap", "commit", "tidy", "lock",
          "inspect", "build", "stamp", "restore", "restoring", "publish",
          "replace", "rename", "mark", "leave", "record"}

TypeOK ==
  /\ part \in [Task -> {"none", "torn", "bare", "good"}]
  /\ result \in [Task -> {"none", "stale", "good"}]
  /\ errors \subseteq Task
  /\ final \in Tree /\ dest \in Tree
  /\ published \in BOOLEAN
  /\ lock \in Attempt \cup {NoOne}
  /\ pc \in [Attempt -> Steps \cup {"idle"}]
  /\ task \in [Attempt -> Task \cup {NoTask}]
  /\ \A a \in Attempt : pc[a] = "record" => task[a] # NoTask
  /\ guarded \subseteq {a \in Attempt : task[a] # NoTask}
  /\ merged \subseteq Task
  /\ done \subseteq Task
  /\ kills \in 0..MaxKills /\ faults \in 0..MaxFaults

(* JobStore.create has written plan.json over an existing results          *)
(* directory; the destination may hold an older tree.                      *)
Init ==
  /\ part = [t \in Task |-> "none"]
  /\ result \in [Task -> IF Leftover THEN {"none", "stale"} ELSE {"none"}]
  /\ errors = {} /\ guarded = {} /\ merged = {} /\ done = {}
  /\ final = Absent
  /\ dest \in IF Overwrite THEN {Absent, Foreign} ELSE {Absent}
  /\ published = FALSE /\ lock = NoOne
  /\ pc = [a \in Attempt |-> "idle"]
  /\ task = [a \in Attempt |-> NoTask]
  /\ kills = 0 /\ faults = 0
-----------------------------------------------------------------------------
(* Reading shared state *)

(* Mutant: a finalizer that does not recognise its own earlier work.       *)
HasNoProvenance(tree) == FALSE

HasProvenance(tree) == tree.prov

(* _part_is_valid: without validation only meta/info.json is looked at.    *)
PartIsValid(t) == part[t] = "good" \/ (part[t] = "torn" /\ ~Validate)

(* _validate_final_output: deep validation opens the dataset, so missing   *)
(* files and torn statistics fail it; the totals alone do not.             *)
FinalIsValid(tree) ==
  \/ ~Validate
  \/ tree.data = "full" /\ tree.stats # "torn"

(* Mutant: an off-by-one in the count of completed tasks.                  *)
MoreThanAllCommitted ==
  Cardinality({t \in Task : result[t] # "none"}) > Cardinality(Task)

AllCommitted == \A t \in Task : result[t] # "none"
(* Mutant: records are counted, not compared with the plan.                *)
ResultsPresent == \A t \in Task : result[t] # "none"

ResultsMatch == \A t \in Task : result[t] = "good"

Live(t) == {a \in Attempt : pc[a] # "idle" /\ task[a] = t}

Go(a, from, to) == pc[a] = from /\ pc' = [pc EXCEPT ![a] = to]

(* An exception leaves the process: the lock is released by its context    *)
(* manager, and the except clause of run_distributed_task, when entered,   *)
(* goes on to write an error record.  (Mutant: every process writes one.)  *)
AlwaysRecords(a) == "record"

AfterRaise(a) == IF a \in guarded THEN "record" ELSE "idle"

Raise(a) ==
  /\ pc' = [pc EXCEPT ![a] = AfterRaise(a)]
  /\ task' = [task EXCEPT ![a] = IF a \in guarded THEN @ ELSE NoTask]
  /\ lock' = IF lock = a THEN NoOne ELSE lock

parts == <<part, result, errors>>
trees == <<final, dest, published>>
files == <<parts, trees>>
proc == <<lock, task, guarded>>
bounds == <<kills, faults>>
counts == <<merged, done, bounds>>
-----------------------------------------------------------------------------
(* run_distributed_task *)

(* A valid committed task is resumed outside the try block and only        *)
(* finalizes; anything else is converted anew.                             *)
Start(a, t) ==
  /\ pc[a] = "idle"
  /\ Duplicates \/ (Live(t) = {} /\ t \notin done)
  /\ task' = [task EXCEPT ![a] = t]
  /\ IF result[t] = "good" /\ PartIsValid(t)
     THEN pc' = [pc EXCEPT ![a] = "lock"] /\ UNCHANGED guarded
     ELSE pc' = [pc EXCEPT ![a] = "convert"] /\ guarded' = guarded \cup {a}
  /\ UNCHANGED <<files, lock, counts>>

(* `letools dist finalize`: one such process at a time is enough.          *)
StartFinalize(a) ==
  /\ Live(NoTask) = {}
  /\ Go(a, "idle", "lock")
  /\ UNCHANGED <<files, proc, counts>>

(* convert writes and validates a staging directory of its own.            *)
Convert(a) ==
  /\ Go(a, "convert", "clear")
  /\ UNCHANGED <<files, proc, counts>>

(* rmtree of an existing part unlinks files in no particular order ...     *)
ClearPart(a) ==
  /\ pc[a] = "clear"
  /\ IF part[task[a]] = "none"
     THEN pc' = [pc EXCEPT ![a] = "swap"] /\ UNCHANGED part
     ELSE /\ pc' = [pc EXCEPT ![a] = "clearing"]
          /\ \E left \in IF part[task[a]] = "good" THEN {"torn", "bare"}
                                                   ELSE {part[task[a]], "bare"} :
               part' = [part EXCEPT ![task[a]] = left]
  /\ UNCHANGED <<result, errors, trees, proc, counts>>

(* ... and fails when another process removes the same files faster.       *)
ClearedPart(a) ==
  /\ pc[a] = "clearing"
  /\ \/ /\ part[task[a]] \in {"torn", "bare"}
        /\ part' = [part EXCEPT ![task[a]] = "none"]
        /\ pc' = [pc EXCEPT ![a] = "swap"]
        /\ UNCHANGED <<lock, task>>
     \/ /\ \/ part[task[a]] \notin {"torn", "bare"}
           \/ \E b \in Live(task[a]) \ {a} : pc[b] = "clearing"
        /\ Raise(a) /\ UNCHANGED part
  /\ UNCHANGED <<result, errors, trees, guarded, counts>>

(* Mutant: a failed swap cleans up the part instead of the staging tree.   *)
SwapPartRemoving(a) ==
  /\ pc[a] = "swap"
  /\ IF part[task[a]] = "none"
     THEN /\ part' = [part EXCEPT ![task[a]] = "good"]
          /\ pc' = [pc EXCEPT ![a] = "commit"]
          /\ UNCHANGED <<lock, task>>
     ELSE Raise(a) /\ part' = [part EXCEPT ![task[a]] = "none"]
  /\ UNCHANGED <<result, errors, trees, guarded, counts>>

(* staging.replace(part): rename refuses a directory that is not empty.    *)
SwapPart(a) ==
  /\ pc[a] = "swap"
  /\ IF part[task[a]] = "none"
     THEN /\ part' = [part EXCEPT ![task[a]] = "good"]
          /\ pc' = [pc EXCEPT ![a] = "commit"]
          /\ UNCHANGED <<lock, task>>
     ELSE Raise(a) /\ UNCHANGED part
  /\ UNCHANGED <<result, errors, trees, guarded, counts>>

Commit(a) ==
  /\ Go(a, "commit", "tidy")
  /\ result' = [result EXCEPT ![task[a]] = "good"]
  /\ UNCHANGED <<part, errors, trees, proc, counts>>

RemoveError(a) ==
  /\ Go(a, "tidy", "lock")
  /\ errors' = errors \ {task[a]}
  /\ UNCHANGED <<part, result, trees, proc, counts>>

WriteError(a) ==
  /\ Go(a, "record", "idle")
  /\ errors' = errors \cup {task[a]}
  /\ task' = [task EXCEPT ![a] = NoTask]
  /\ guarded' = guarded \ {a}
  /\ UNCHANGED <<part, result, trees, lock, counts>>
-----------------------------------------------------------------------------
(* try_finalize_distributed_job *)

Acquire(a) ==
  /\ lock = NoOne
  /\ Go(a, "lock", "inspect")
  /\ lock' = a
  /\ UNCHANGED <<files, task, guarded, counts>>

(* Everything the holder reads before it builds.  Each branch is one way   *)
(* out of lines 257-279 of the executor, in their order; the last two are  *)
(* the two ways through _build_final_output.                               *)
Pending == published \/ ~AllCommitted
Recovered == ~Pending /\ Exists(dest) /\ HasProvenance(dest)
Acceptable == ResultsMatch /\ \A t \in Task : PartIsValid(t)
Resumable == Exists(final) /\ HasProvenance(final)

InspectReturn(a) ==
  /\ Pending
  /\ Go(a, "inspect", "leave")
  /\ UNCHANGED <<files, proc, counts>>

InspectRecover(a) ==
  /\ Recovered /\ FinalIsValid(dest)
  /\ Go(a, "inspect", "mark")
  /\ UNCHANGED <<files, proc, counts>>

InspectReject(a) ==
  /\ ~Pending
  /\ IF Recovered THEN ~FinalIsValid(dest)
     ELSE ~Acceptable \/ (Resumable /\ ~FinalIsValid(final))
  /\ pc[a] = "inspect"
  /\ Raise(a)
  /\ UNCHANGED <<files, guarded, counts>>

(* Mutant: a stamped final is taken for one whose statistics are restored. *)
InspectResumeUnrestored(a) ==
  /\ ~Pending /\ ~Recovered /\ Acceptable
  /\ Resumable /\ FinalIsValid(final)
  /\ Go(a, "inspect", "publish")
  /\ UNCHANGED <<files, proc, counts>>

InspectResume(a) ==
  /\ ~Pending /\ ~Recovered /\ Acceptable
  /\ Resumable /\ FinalIsValid(final)
  /\ Go(a, "inspect", "restore")
  /\ UNCHANGED <<files, proc, counts>>

(* One part is copied straight into final; several go through              *)
(* merge_datasets, which replaces final only when it has finished.         *)
SinglePart == Cardinality(Task) = 1

InspectBuild(a) ==
  /\ ~Pending /\ ~Recovered /\ Acceptable /\ ~Resumable
  /\ Go(a, "inspect", "build")
  /\ merged' = {}
  /\ final' = IF SinglePart THEN Fresh("partial") ELSE final
  /\ UNCHANGED <<parts, dest, published, proc, done, bounds>>

(* copytree takes whatever files a torn part has left; the merge engine    *)
(* opens every file the part's metadata names.                             *)
ReadPart(a, t) ==
  /\ pc[a] = "build" /\ t \notin merged
  /\ \/ /\ part[t] = "good"
        /\ merged' = merged \cup {t}
        /\ UNCHANGED <<final, lock, pc, task>>
     \/ /\ part[t] = "torn" /\ SinglePart
        /\ merged' = merged \cup {t}
        /\ final' = [final EXCEPT !.data = "holed"]
        /\ UNCHANGED <<lock, pc, task>>
     \/ /\ part[t] # "good" /\ Raise(a) /\ UNCHANGED <<final, merged>>
  /\ UNCHANGED <<parts, dest, published, guarded, done, bounds>>

BuildDone(a) ==
  /\ pc[a] = "build" /\ merged = Task
  /\ final' = Fresh(IF final.data = "holed" /\ SinglePart THEN "holed"
                                                           ELSE "full")
  /\ IF FinalIsValid(final')
     THEN pc' = [pc EXCEPT ![a] = "stamp"] /\ UNCHANGED <<lock, task>>
     ELSE Raise(a)
  /\ UNCHANGED <<parts, dest, published, guarded, counts>>

StampProvenance(a) ==
  /\ Go(a, "stamp", "restore")
  /\ final' = [final EXCEPT !.prov = TRUE]
  /\ UNCHANGED <<parts, dest, published, proc, counts>>

(* The statistics are rewritten in place.  For v3.0 the episode table is   *)
(* read first, and a torn one cannot be read; for v2.1 the old file is     *)
(* simply truncated.                                                       *)
StatsReadFirst == final.stats # "torn"  \* mutant: for both targets

StatsReadable == Target = "v3.0" => final.stats # "torn"

RestoreStart(a) ==
  /\ pc[a] = "restore"
  /\ IF ~StatsReadable
     THEN Raise(a) /\ UNCHANGED final
     ELSE /\ final' = [final EXCEPT !.stats = "torn"]
          /\ pc' = [pc EXCEPT ![a] = "restoring"]
          /\ UNCHANGED <<lock, task>>
  /\ UNCHANGED <<parts, dest, published, guarded, counts>>

RestoreDone(a) ==
  /\ Go(a, "restoring", "publish")
  /\ final' = [final EXCEPT !.stats = "source"]
  /\ UNCHANGED <<parts, dest, published, proc, counts>>

(* The overwrite check of the destination, ...                             *)
MayReplaceAlways == TRUE  \* mutant: no overwrite check

MayReplace == Overwrite \/ ~Exists(dest)

CheckDestination(a) ==
  /\ pc[a] = "publish"
  /\ IF MayReplace
     THEN pc' = [pc EXCEPT ![a] = "replace"] /\ UNCHANGED <<lock, task>>
     ELSE Raise(a)
  /\ UNCHANGED <<files, guarded, counts>>

(* ... the removal, which asks anew whether there is one but no longer     *)
(* whether it may go (rmtree broken off leaves the rest of a tree of       *)
(* somebody else, which the next attempt finds) ...                        *)
ReplaceDestination(a) ==
  /\ Go(a, "replace", "rename")
  /\ dest' = Absent
  /\ UNCHANGED <<parts, final, published, proc, counts>>

(* ... and the rename, which refuses a destination that came back.         *)
RenameFinal(a) ==
  /\ pc[a] = "rename"
  /\ IF Exists(dest)
     THEN Raise(a) /\ UNCHANGED <<final, dest>>
     ELSE /\ dest' = final /\ final' = Absent
          /\ pc' = [pc EXCEPT ![a] = "mark"]
          /\ UNCHANGED <<lock, task>>
  /\ UNCHANGED <<parts, published, guarded, counts>>

MarkPublished(a) ==
  /\ Go(a, "mark", "leave")
  /\ published' = TRUE
  /\ UNCHANGED <<parts, final, dest, proc, counts>>

(* The lock is released and the process exits with status 0.               *)
Leave(a) ==
  /\ Go(a, "leave", "idle")
  /\ lock' = NoOne
  /\ done' = done \cup ({task[a]} \ {NoTask})
  /\ task' = [task EXCEPT ![a] = NoTask]
  /\ guarded' = guarded \ {a}
  /\ UNCHANGED <<files, merged, bounds>>
-----------------------------------------------------------------------------
(* The environment *)

Fault(a) ==
  /\ pc[a] \notin {"idle", "lock", "record", "leave"}
  /\ faults < MaxFaults
  /\ faults' = faults + 1
  /\ Raise(a)
  /\ UNCHANGED <<files, guarded, merged, done, kills>>

Kill(a) ==
  /\ pc[a] # "idle"
  /\ kills < MaxKills
  /\ kills' = kills + 1
  /\ pc' = [pc EXCEPT ![a] = "idle"]
  /\ task' = [task EXCEPT ![a] = NoTask]
  /\ guarded' = guarded \ {a}
  /\ lock' = IF lock = a THEN NoOne ELSE lock
  /\ UNCHANGED <<files, merged, done, faults>>

OutsiderCreates ==
  /\ Outsider /\ ~Exists(dest)
  /\ dest' = Foreign
  /\ UNCHANGED <<parts, final, published, proc, pc, counts>>

Work(a) ==
  \/ Convert(a) \/ ClearPart(a) \/ ClearedPart(a) \/ SwapPart(a)
  \/ Commit(a) \/ RemoveError(a) \/ WriteError(a)
  \/ Acquire(a) \/ InspectReturn(a) \/ InspectRecover(a) \/ InspectReject(a)
  \/ InspectResume(a) \/ InspectBuild(a)
  \/ \E t \in Task : ReadPart(a, t)
  \/ BuildDone(a) \/ StampProvenance(a)
  \/ RestoreStart(a) \/ RestoreDone(a)
  \/ CheckDestination(a) \/ ReplaceDestination(a) \/ RenameFinal(a)
  \/ MarkPublished(a) \/ Leave(a)

Next ==
  \/ \E a \in Attempt, t \in Task : Start(a, t)
  \/ \E a \in Attempt : StartFinalize(a) \/ Work(a) \/ Fault(a) \/ Kill(a)
  \/ OutsiderCreates

(* A live process keeps running, and the scheduler starts every task that  *)
(* has not succeeded, again after each failure: the retry policies of      *)
(* Slurm requeues and Kubernetes Indexed Jobs, within the fault bounds.    *)
Retry(t) == t \notin done /\ \E a \in Attempt : Start(a, t)

Spec == Init /\ [][Next]_vars
FairSpec == /\ Spec
            /\ \A a \in Attempt : WF_vars(Work(a))
            /\ \A t \in Task : SF_vars(Retry(t))
-----------------------------------------------------------------------------
(* Properties *)

JobOutput(tree) == tree = [data |-> "full", prov |-> TRUE, stats |-> "source"]

(* published.json is believed by every later worker and by `dist status`:  *)
(* it must not exist before the destination holds all parts with the       *)
(* source statistics, whatever attempts, kills and retries led there.      *)
PublishedIsComplete == published => JobOutput(dest)

(* There is no coordinator process: the job is published by whichever      *)
(* worker commits last.  Once every task has had a successful attempt, no  *)
(* scheduler will run another one, so the job must be published by then.   *)
LastWorkerPublishes == done = Task => published

(* Finished tasks survive: without kills and faults, once no attempt of a  *)
(* committed task is running its part is whole, although duplicate         *)
(* attempts remove and replace it under each other.                        *)
QuietPartsAreWhole ==
  \A t \in Task :
    kills = 0 /\ faults = 0 /\ Live(t) = {} /\ result[t] = "good"
      => part[t] = "good"

(* A finalizer that has found no destination, or may overwrite one, and is *)
(* about to remove what is there.                                          *)
Unguarded == \E a \in Attempt : pc[a] = "replace"

(* Without overwrite a destination this job did not create is safe once it *)
(* is there and no finalizer stands between its check and its removal      *)
(* (executor.py:284 and 287): no attempt touches it or passes the check,   *)
(* whatever is killed, retried or finalized afterwards.  One that appears  *)
(* within that gap is lost, although DISTRIBUTED.md says that existing     *)
(* destinations are rejected.                                              *)
ForeignOutputIsSafe ==
  [][~Overwrite /\ dest = Foreign /\ ~Unguarded
       => dest' = dest /\ ~Unguarded']_vars

(* Once the finished dataset is at the destination no recovering or        *)
(* duplicate finalizer removes or rebuilds it.                             *)
OutputIsNeverWithdrawn == [][JobOutput(dest) => dest' = dest]_vars

(* The job as its submitter sees it. *)
Abs == INSTANCE DistJobAbs WITH
         committed <- {t \in Task : result[t] = "good"},
         output <- IF JobOutput(dest) THEN "job"
                   ELSE IF dest = Absent THEN "none"
                   ELSE IF dest = Foreign THEN "foreign" ELSE "unfinished",
         looked <- Unguarded,
         acknowledged <- published

(* Every behaviour of the workers is a behaviour of the abstract job.      *)
ImplementsJob == Abs!Spec

(* executor.py:1 and DISTRIBUTED.md promise a publication that recovers    *)
(* from crashes: with retries the job is eventually published.             *)
EventuallyPublished == <>published

(* What does hold: the only way to get stuck is a final tree stamped with  *)
(* provenance whose statistics a dead finalizer left torn for good.        *)
StuckOnlyByTornStatistics ==
  <>published \/ <>[](final.prov /\ final.stats = "torn")

(* DISTRIBUTED.md: "A successful retry removes that task's old error       *)
(* record."                                                                *)
SuccessClearsError == [][\A t \in done' \ done : t \notin errors']_vars
=============================================================================
