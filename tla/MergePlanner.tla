---------------------------- MODULE MergePlanner ----------------------------
(***************************************************************************)
(* The planner of a merge (merge.py): counts bounded by processors and by  *)
(* half of the memory, samples of real rewrites and copies, and a cache of *)
(* plans that has no expiry.  Sizes are MiB, rows are bytes.               *)
(***************************************************************************)
EXTENDS Optional, Collections, SequencesExt

CONSTANTS
  Merges,          \* what may be asked, on which machine: see MergeType
  MergeRates, MergeDurations, MergeSeconds, MergeBytes,
  MaxMerges        \* bound of the model: merges in a row

MergeType ==
  [call: {"plan", "merge"}, cpus: Nat \ {0}, memory: Nat, network: BOOLEAN,
   logical: Seq(Nat), physical: Seq(Nat), media: Seq(Nat), rowBytes: Nat \ {0},
   dataWorkers: Options \ {0}, fileWorkers: Options \ {0},
   auto: BOOLEAN, useCache: BOOLEAN]

ASSUME MergePlannerAssumption ==
  /\ Merges \subseteq MergeType
  /\ MergeRates \subseteq Nat \ {0} /\ MergeDurations \subseteq Nat \ {0}
  /\ {MergeSeconds, MergeBytes} \subseteq Nat \ {0} /\ MaxMerges \in Nat

VARIABLES
  merge,        \* the request
  merging,      \* step of its planning
  mergePlan,
  candidates,   \* counts still to be sampled
  rates,        \* samples of this stage
  sampledBytes, sampledSeconds,
  mergePlans,   \* ~/.cache/letools/merge-plans
  merges        \* merges begun

samplingVars == <<candidates, rates, sampledBytes, sampledSeconds>>
mergePlannerVars == <<merge, merging, mergePlan, samplingVars, mergePlans, merges>>

MiB == 1048576
Bytes(mib) == mib * MiB
Sum(sizes) == SumFunction(sizes)
Largest(sizes) == IF sizes = <<>> THEN 1 ELSE Max(Range(sizes))
-----------------------------------------------------------------------------
(* _heuristic_plan *)

Budget(m) == Max({256, m.memory \div 2})
DataCap(m) == Max({1, Budget(m) \div Max({2 * Largest(m.logical), 64})})
Default(m, S) == Max({1, Min(S \cup {IF m.network THEN 8 ELSE 16})})

(* Rows that a worker may decode at once: three copies in its share.       *)
BatchRows(m, workers, ceiling) ==
  Max({1024, Min({ceiling, Bytes(Max({16, Budget(m) \div workers}))
                             \div (3 * m.rowBytes)})})

MergeData(m) == Chosen(m.dataWorkers,
  Default(m, {m.cpus, Max({1, Len(m.logical)}), DataCap(m)}))
MergeFiles(m) == Chosen(m.fileWorkers,
  Default(m, {Max({1, m.cpus - MergeData(m)}), Max({1, Len(m.media)})}))

MergeInfeasible(m) == \/ MergeData(m) > Min({m.cpus, DataCap(m)})
                      \/ MergeFiles(m) > m.cpus

MergeHeuristic(m) ==
  [data |-> MergeData(m), files |-> MergeFiles(m),
   rows |-> BatchRows(m, MergeData(m), 131072)]

Automatic(m) == m.dataWorkers = NotGiven /\ m.fileWorkers = NotGiven

(* Logical sizes are not part of it, and memory counts in whole GiB.       *)
MergeFingerprint(m) ==
  [cpus |-> m.cpus, memory |-> m.memory \div 1024, network |-> m.network,
   data |-> Sorted(m.physical), media |-> Sorted(m.media)]
-----------------------------------------------------------------------------
(* _calibrate_plan *)

(* Limits are at most 16.                                                  *)
PowersUpTo(limit) == {n \in {1, 2, 4, 8, 16} : n < limit} \cup {limit}
CandidateCounts(limit) == Ascending(PowersUpTo(limit))

DataCandidates(m) == CandidateCounts(
  Min({m.cpus, Max({1, Len(m.physical)}), DataCap(m), 16}))
FileCandidates(m) == CandidateCounts(Min({m.cpus, Max({1, Len(m.media)}), 16}))

(* Mutant: the bytes of one stage are divided among its own samples only.  *)
ShareOfStage(m) == Max({1, MergeBytes \div Len(DataCandidates(m))})

SharePerSample(m) ==
  Max({1, MergeBytes \div (Len(DataCandidates(m))
            + IF m.media = <<>> THEN 0 ELSE Len(FileCandidates(m)))})

(* The smallest resources that fit into one share, at most one per worker. *)
SampleBytes(m, sizes, limit) ==
  LET Smallest(n) == Sum(SubSeq(Sorted(sizes), 1, n))
  IN  Smallest(Max({n \in 0 .. Min({Len(sizes), limit}) :
                      Smallest(n) <= SharePerSample(m)}))

DataSample(m) == SampleBytes(m, m.physical, Last(DataCandidates(m)))
FileSample(m) == SampleBytes(m, m.media, Last(FileCandidates(m)))

NearPeak(taken, otherwise) ==
  IF taken = <<>> THEN otherwise
  ELSE LET peak == Max({s.rate : s \in Range(taken)})
       IN  Min({s.workers : s \in {r \in Range(taken) : 100 * r.rate >= 97 * peak}})
-----------------------------------------------------------------------------
MergePlannerInit ==
  /\ merge \in Merges /\ merging = "request" /\ mergePlan = NotGiven
  /\ candidates = <<>> /\ rates = <<>> /\ sampledBytes = 0 /\ sampledSeconds = 0
  /\ mergePlans = <<>> /\ merges = 1

MergeRefuse ==
  /\ merging = "request" /\ MergeInfeasible(merge)
  /\ merging' = "refused"
  /\ UNCHANGED <<merge, mergePlan, samplingVars, mergePlans, merges>>

MergeChoose ==
  /\ merging = "request" /\ ~MergeInfeasible(merge)
  /\ mergePlan' = MergeHeuristic(merge)
  /\ merging' = "lookup"
  /\ UNCHANGED <<merge, samplingVars, mergePlans, merges>>

(* merge_datasets looks only if it may calibrate, plan_merge always.       *)
Cached == /\ merge.useCache /\ (merge.call = "plan" \/ merge.auto)
          /\ Automatic(merge) /\ MergeFingerprint(merge) \in DOMAIN mergePlans

MergeCacheHit ==
  /\ merging = "lookup" /\ Cached
  /\ mergePlan' = mergePlans[MergeFingerprint(merge)]
  /\ merging' = "cached"
  /\ UNCHANGED <<merge, samplingVars, mergePlans, merges>>

MergeKeep ==
  /\ merging = "lookup" /\ ~Cached /\ ~(merge.auto /\ Automatic(merge))
  /\ merging' = "planned"
  /\ UNCHANGED <<merge, mergePlan, samplingVars, mergePlans, merges>>

MergeBeginSampling ==
  /\ merging = "lookup" /\ ~Cached /\ merge.auto /\ Automatic(merge)
  /\ candidates' = IF DataSample(merge) = 0 THEN <<>> ELSE DataCandidates(merge)
  /\ merging' = "data"
  /\ UNCHANGED <<merge, mergePlan, rates, sampledBytes, sampledSeconds,
                 mergePlans, merges>>

MergeMeasure(rate, seconds) ==
  /\ merging \in {"data", "files"} /\ candidates # <<>>
  /\ sampledSeconds < MergeSeconds
  /\ rates' = Append(rates, [workers |-> Head(candidates), rate |-> rate])
  /\ candidates' = Tail(candidates)
  /\ sampledSeconds' = sampledSeconds + seconds
  /\ sampledBytes' = sampledBytes + IF merging = "data" THEN DataSample(merge)
                                    ELSE FileSample(merge)
  /\ UNCHANGED <<merge, merging, mergePlan, mergePlans, merges>>

SamplesTaken == candidates = <<>> \/ sampledSeconds >= MergeSeconds

MergeDataOver ==
  /\ merging = "data" /\ SamplesTaken
  /\ mergePlan' = [mergePlan EXCEPT !.data = NearPeak(rates, @)]
  /\ rates' = <<>>
  /\ candidates' = IF merge.media = <<>> \/ FileSample(merge) = 0 THEN <<>>
                   ELSE FileCandidates(merge)
  /\ merging' = "files"
  /\ UNCHANGED <<merge, sampledBytes, sampledSeconds, mergePlans, merges>>

(* Mutant: batches keep the size chosen for the heuristic's count.         *)
MergeFilesOverUntightened ==
  /\ merging = "files" /\ SamplesTaken
  /\ mergePlan' = [mergePlan EXCEPT !.files = NearPeak(rates, @)]
  /\ merging' = "calibrated"
  /\ UNCHANGED <<merge, samplingVars, mergePlans, merges>>

MergeFilesOver ==
  /\ merging = "files" /\ SamplesTaken
  /\ mergePlan' = [mergePlan EXCEPT
                     !.files = NearPeak(rates, @),
                     !.rows = BatchRows(merge, mergePlan.data, @)]
  /\ merging' = "calibrated"
  /\ UNCHANGED <<merge, samplingVars, mergePlans, merges>>

(* A plan that cannot be written is not kept; only plan_merge asks whether *)
(* it may be.                                                              *)
MergeSave ==
  /\ merging = "calibrated"
  /\ \/ /\ merge.call = "plan" => merge.useCache
        /\ mergePlans' = Assign(mergePlans, MergeFingerprint(merge), mergePlan)
     \/ UNCHANGED mergePlans
  /\ merging' = "planned"
  /\ UNCHANGED <<merge, mergePlan, samplingVars, merges>>

MergeNextRun ==
  /\ merging \in {"planned", "cached", "refused"} /\ merges < MaxMerges
  /\ merge' \in Merges /\ merging' = "request" /\ merges' = merges + 1
  /\ mergePlan' = NotGiven
  /\ candidates' = <<>> /\ rates' = <<>> /\ sampledBytes' = 0 /\ sampledSeconds' = 0
  /\ UNCHANGED mergePlans

MergePlannerNext ==
  \/ MergeRefuse \/ MergeChoose \/ MergeCacheHit \/ MergeKeep \/ MergeBeginSampling
  \/ \E rate \in MergeRates, seconds \in MergeDurations : MergeMeasure(rate, seconds)
  \/ MergeDataOver \/ MergeFilesOver \/ MergeSave \/ MergeNextRun

MergePlannerSpec == MergePlannerInit /\ [][MergePlannerNext]_mergePlannerVars
-----------------------------------------------------------------------------
(* All samples of both stages together stay within the byte budget.        *)
MergeSamplingIsBounded == sampledBytes <= MergeBytes

(* A plan made for this machine, not found in the cache, decodes no more   *)
(* rows at once than half of its memory holds, whatever count the samples  *)
(* have favoured; batches of the least size are exempt.                    *)
MadePlanFitsMemory ==
  merging = "planned" /\ mergePlan.rows > 1024 =>
    mergePlan.data * mergePlan.rows * 3 <= Bytes(Budget(merge)) \div merge.rowBytes
=============================================================================
