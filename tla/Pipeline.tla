------------------------------ MODULE Pipeline -------------------------------
(***************************************************************************)
(* What a distributed conversion computes: the planner's intervals, the    *)
(* standalone part each worker writes from its interval of the source, and *)
(* the same-version merge of the parts, down to files, offsets and index   *)
(* columns.  Failing planners and workers, crashes and races between the   *)
(* processes are left to DistJob.  The same merge is also run on its own,  *)
(* over datasets of different origin; it may be refused, and may fail.     *)
(***************************************************************************)
EXTENDS Partition, Dataset

CONSTANTS
  Lengths,      \* frame counts an episode may have
  TaskTables,   \* task tables a source may have: index -> text
  Splits,       \* the named splits of a source
  Targets,      \* versions to convert to
  Merges        \* inputs of a merge: sequences of [version, lens, table, splits]

Train == "train"   \* the one split of a part
Names == {Train, "test"}   \* one split over all episodes; others are several

ASSUME PipelineAssumption ==
  /\ Lengths \subseteq Nat \ {0} /\ Train \in Splits
  /\ Targets \subseteq {"v2.1", "v3.0"}
  /\ \A table \in TaskTables : IsTable(table)
  /\ \A inputs \in Merges :   \* the command takes one dataset or more
       /\ inputs # <<>> /\ inputs \in Seq(Range(inputs))
       /\ \A p \in DOMAIN inputs : /\ inputs[p].lens \in Seq(Lengths)
                                 /\ inputs[p].version \in {"v2.1", "v3.0"}
                                 /\ IsTable(inputs[p].table)

VARIABLES
  source,   \* the source as its reader presents it
  target,   \* the version to convert to
  parts,    \* task -> the part its worker has written; inputs of a merge
  manifest, \* what the merge has found in the parts, and its remapping
  data,     \* Parquet files the merge has written
  video,    \* video files the merge has copied
  written,  \* resources of the merge that are done
  final     \* the finished dataset

mergeVars == <<manifest, data, video, written>>
pipeVars == <<source, target, parts, mergeVars, final>>
pipelineVars == <<planVars, pipeVars>>

Nothing == <<>>
-----------------------------------------------------------------------------
(* EpisodeSubsetSource: local episode and row indices, everything else as  *)
(* in the source; the splits are replaced by one that covers the part.     *)
SubsetEpisode(episode, lens, k) ==
  [episode EXCEPT !.rows =
    [f \in DOMAIN @ |-> [@[f] EXCEPT !.episode = k - 1,
                                     !.index = Offset(lens, k) + f - 1]]]

Subset(view, i) ==
  LET chosen == SubSeq(view.episodes, i.start + 1, i.stop)
      lens == [k \in DOMAIN chosen |-> Len(chosen[k].rows)]
  IN  [tasks |-> view.tasks, splits |-> Train,
       episodes |-> [k \in DOMAIN chosen |-> SubsetEpisode(chosen[k], lens, k)]]

PartsDone == DOMAIN parts = DOMAIN intervals

ConvertPart(k) ==
  /\ stage = "planned" /\ k \in DOMAIN intervals \ DOMAIN parts
  /\ parts' = Assign(parts, k, Write(target, Subset(source, intervals[k])))
  /\ UNCHANGED <<planVars, source, target, mergeVars, final>>

(* A single part is copied as it is.                                       *)
CopyPart ==
  /\ stage = "planned" /\ PartsDone /\ Len(intervals) = 1
  /\ final' = parts[1]
  /\ stage' = "built"
  /\ UNCHANGED <<options, intervals, start, source, target, parts, mergeVars>>
-----------------------------------------------------------------------------
(* merge_datasets over the parts in task order *)

(* The episodes of all parts as <<part, episode of the part>>.             *)
MappedEpisodes == FlattenSeq([p \in DOMAIN parts |->
                               [i \in DOMAIN parts[p].meta |-> <<p, i>>]])

(* Equal texts become one task, numbered in order of first appearance.     *)
Texts == Deduplicated(FlattenSeq(
  [p \in DOMAIN parts |->
    [k \in DOMAIN Labels(parts[p].tasks) |->
      parts[p].tasks[Labels(parts[p].tasks)[k]]]]))

(* Every file is rewritten or copied once, wherever several episodes share *)
(* it, in the order in which the episodes first use it.                    *)
Resources(mapped, files) ==
  Deduplicated([m \in DOMAIN mapped |-> <<mapped[m][1], files[m]>>])

BuildManifest ==
  LET mapped == MappedEpisodes
      Part(m) == parts[mapped[m][1]]
      Data == [m \in DOMAIN mapped |-> DataFile(Part(m), mapped[m][2])]
      Video == [m \in DOMAIN mapped |-> VideoFile(Part(m), mapped[m][2])]
  IN  [episodes |-> mapped,
       lens |-> [m \in DOMAIN mapped |-> Part(m).meta[mapped[m][2]].length],
       texts |-> Texts,
       data |-> Resources(mapped, Data),
       video |-> Resources(mapped, Video)]

MergedTasks == [n \in 0 .. Len(manifest.texts) - 1 |-> manifest.texts[n + 1]]
OutputOf(p, i) == CHOOSE m \in DOMAIN manifest.episodes :
                    manifest.episodes[m] = <<p, i>>

(* Mutant: it is enough that task indices begin at zero.                   *)
ContiguousAtFirst(p) == 0 \in DOMAIN parts[p].tasks

ContiguousTasks(p) ==
  DOMAIN parts[p].tasks = 0 .. Cardinality(DOMAIN parts[p].tasks) - 1

(* v2.1 files follow their episode's number, v3.0 files are numbered.      *)
MergedFile(r) == IF target = "v2.1" THEN EpisodeFile(r - 1) ELSE Place(r - 1)

(* Mutant: labels are taken for those of the output.                       *)
TaskMapKept(p, label) == label

TaskMap(p, label) ==
  CHOOSE n \in DOMAIN MergedTasks : MergedTasks[n] = parts[p].tasks[label]

(* Mutant: rows are numbered from the start of their part.                 *)
RewriteLocally(p, row) ==
  [row EXCEPT !.episode = OutputOf(p, row.episode + 1) - 1,
              !.task = TaskMap(p, row.task)]

RewriteRow(p, row) ==
  LET output == OutputOf(p, row.episode + 1)
  IN  [row EXCEPT !.episode = output - 1,
                  !.index = Offset(manifest.lens, output) + row.frame,
                  !.task = TaskMap(p, row.task)]

(* Inputs are compared with the first one.                                 *)
Mergeable ==
  /\ Len(parts) >= 2 /\ parts[1].splits \in Names
  /\ \A p \in DOMAIN parts : /\ parts[p].version = parts[1].version
                            /\ parts[p].splits = parts[1].splits

MergeRefused ==
  /\ stage = "inputs" /\ ~Mergeable
  /\ stage' = "rejected"
  /\ UNCHANGED <<options, intervals, start, pipeVars>>

AllConverted == stage = "planned" /\ PartsDone /\ Len(intervals) > 1

(* The machine does not do: workers have been requested that exceed its    *)
(* processors or memory, or there is no room for the files.                *)
MachineRefuses ==
  /\ AllConverted \/ (stage = "inputs" /\ Mergeable)
  /\ stage' = "rejected"
  /\ UNCHANGED <<options, intervals, start, pipeVars>>

MergeDatasets ==
  /\ stage = "inputs" /\ Mergeable
  /\ stage' = "merging"
  /\ manifest' = BuildManifest
  /\ UNCHANGED <<options, intervals, start, source, target, parts, data, video,
                 written, final>>

MergeOpen ==
  /\ AllConverted
  /\ stage' = "merging"
  /\ manifest' = BuildManifest
  /\ UNCHANGED <<options, intervals, start, source, target, parts, data, video,
                 written, final>>

(* The files are rewritten by a thread pool, in any order.                 *)
RewriteData(r) ==
  /\ stage = "merging" /\ r \in DOMAIN manifest.data
  /\ <<"data", r>> \notin written
  /\ LET p == manifest.data[r][1]
         rows == parts[p].data[manifest.data[r][2]]
     IN  /\ ContiguousTasks(p)
         /\ data' = Assign(data, MergedFile(r),
                           [f \in DOMAIN rows |-> RewriteRow(p, rows[f])])
  /\ written' = written \cup {<<"data", r>>}
  /\ UNCHANGED <<planVars, source, target, parts, manifest, video, final>>

(* A file cannot be read or written, or the table of tasks has gaps, which *)
(* only the rewriting of a file finds out.                                 *)
MergeFails ==
  /\ stage = "merging"
  /\ stage' = "failed"
  /\ UNCHANGED <<options, intervals, start, pipeVars>>

DataDone == \A r \in DOMAIN manifest.data : <<"data", r>> \in written
VideoDone == \A r \in DOMAIN manifest.video : <<"video", r>> \in written

CopyMedia(r) ==
  /\ stage = "merging" /\ DataDone /\ r \in DOMAIN manifest.video
  /\ <<"video", r>> \notin written
  /\ video' = Assign(video, MergedFile(r),
       parts[manifest.video[r][1]].video[manifest.video[r][2]])
  /\ written' = written \cup {<<"video", r>>}
  /\ UNCHANGED <<planVars, source, target, parts, manifest, data, final>>

(* Statistics of the index columns are computed anew.                      *)
Recomputed == 0
MergedRow(m) ==
  LET p == manifest.episodes[m][1]
      i == manifest.episodes[m][2]
      row == parts[p].meta[i]
      Number(resources, file) ==
        (CHOOSE r \in DOMAIN resources : resources[r] = <<p, file>>) - 1
  IN  IF target = "v2.1" THEN [row EXCEPT !.stats = Recomputed]
      ELSE [row EXCEPT !.stats = Recomputed,
                       !.from = Offset(manifest.lens, m),
                       !.data = Place(Number(manifest.data, row.data)),
                       !.video = Place(Number(manifest.video, row.video))]

WriteMetadata ==
  /\ stage = "merging" /\ DataDone /\ VideoDone
  /\ final' = [version |-> target, tasks |-> MergedTasks, splits |-> parts[1].splits,
               meta |-> [m \in DOMAIN manifest.episodes |-> MergedRow(m)],
               data |-> data, video |-> video]
  /\ stage' = IF intervals = <<>> THEN "merged" ELSE "built"
  /\ UNCHANGED <<options, intervals, start, source, target, parts, mergeVars>>

(* _restore_source_episode_stats, by output episode index.                 *)
RestoreStats ==
  /\ stage = "built"
  /\ final' = [final EXCEPT !.meta = [m \in DOMAIN @ |->
       [@[m] EXCEPT !.stats = source.episodes[m].stats]]]
  /\ stage' = "restored"
  /\ UNCHANGED <<options, intervals, start, source, target, parts, mergeVars>>
-----------------------------------------------------------------------------
ConvertInit ==
  /\ PlanInit
  /\ \E lens \in [1 .. total -> Lengths], table \in TaskTables,
        splits \in Splits :
       source = Recorded(lens, table, splits)
  /\ target \in Targets
  /\ parts = Nothing

(* Frames of different inputs are told apart.                              *)
Input(p, i) ==
  LET view == Recorded(i.lens, i.table, i.splits)
      Frame(row) == [row EXCEPT !.payload = <<p, @>>]
      Episode(e) == [e EXCEPT !.rows = [f \in DOMAIN @ |-> Frame(@[f])],
                              !.packets = [f \in DOMAIN @ |-> <<p, @[f]>>]]
  IN  Write(i.version, [view EXCEPT !.episodes =
                          [k \in DOMAIN @ |-> Episode(@[k])]])

MergeInit ==
  /\ \E inputs \in Merges :
       /\ parts = [p \in DOMAIN inputs |-> Input(p, inputs[p])]
       /\ target = inputs[1].version
       /\ total = SumFunction([p \in DOMAIN inputs |-> Len(inputs[p].lens)])
  /\ stage = "inputs" /\ intervals = <<>> /\ start = 0
  /\ taskCount = NotGiven /\ perTask = NotGiven /\ source = Nothing

Init ==
  /\ ConvertInit \/ MergeInit
  /\ manifest = Nothing /\ final = Nothing
  /\ data = Nothing /\ video = Nothing /\ written = {}

Plan == PlanNext /\ UNCHANGED pipeVars

(* The command has returned: the one place where a job may rest.           *)
Ended ==
  /\ stage \in {"rejected", "failed", "restored", "merged"}
  /\ UNCHANGED pipelineVars

Next ==
  \/ Plan
  \/ \E k \in DOMAIN intervals : ConvertPart(k)
  \/ CopyPart \/ MergeOpen \/ MergeRefused \/ MachineRefuses \/ MergeDatasets
  \/ \E r \in 1 .. total : RewriteData(r) \/ CopyMedia(r)
  \/ MergeFails \/ WriteMetadata \/ RestoreStats
  \/ Ended

Spec == Init /\ [][Next]_pipelineVars
-----------------------------------------------------------------------------
(* Properties *)

(* Reading back what a backend wrote from the source gives the source:     *)
(* local conversion neither loses, moves nor renumbers anything, whatever  *)
(* the grouping into shards.                                               *)
ConversionIsFaithful ==
  stage = "request" => Read(Write(target, source)) = source

(* executor.py: "A distributed conversion ... must match the ordinary      *)
(* converter".  Splits apart, the finished job reads exactly like the      *)
(* source, hence like its local conversion: every row, index, task,        *)
(* packet and statistic, however the episodes were cut into tasks.         *)
DistributedMatchesLocal ==
  stage = "restored" => Read(final) = [source EXCEPT !.splits = Train]

(* A merge yields the episodes of its inputs one after another, with every *)
(* row, task text and packet, numbered anew, however the inputs number the *)
(* same texts; texts are listed once.                                      *)
MergeConcatenates ==
  stage = "merged" =>
    LET whole == Read(final)
        inputs == FlattenSeq([p \in DOMAIN parts |->
          [i \in DOMAIN parts[p].meta |->
            [episode |-> Read(parts[p]).episodes[i], tasks |-> parts[p].tasks]]])
        lens == [m \in DOMAIN inputs |-> Len(inputs[m].episode.rows)]
        Wanted(m) == [f \in 1 .. lens[m] |->
          LET row == inputs[m].episode.rows[f]
          IN  [row EXCEPT !.episode = m - 1, !.index = Offset(lens, m) + f - 1,
                          !.task = inputs[m].tasks[@]]]
    IN  /\ Len(whole.episodes) = Len(inputs) /\ whole.splits = parts[1].splits
        /\ IsInjective(whole.tasks)
        /\ \A m \in DOMAIN inputs :
             LET rows == whole.episodes[m].rows
             IN  /\ [f \in DOMAIN rows |->
                      [rows[f] EXCEPT !.task = whole.tasks[@]]] = Wanted(m)
                 /\ whole.episodes[m].packets = inputs[m].episode.packets

(* Nothing comes of a source with gaps in its task indices once it is cut  *)
(* into several tasks, nor of a merge with such an input: the planner and  *)
(* all workers let it pass, and the same source in one task converts, but  *)
(* no order of the threads gets its rows past the rewriting.  An input     *)
(* without episodes is not looked at.                                      *)
Sparse(table) == DOMAIN table # 0 .. Cardinality(DOMAIN table) - 1
GapsNeverMerge ==
  stage \in {"merged", "built", "restored"} /\ Len(parts) > 1 =>
    \A p \in DOMAIN parts : Len(parts[p].meta) > 0 => ~Sparse(parts[p].tasks)

(* The pool writes every file once: no two resources share an output.      *)
NoFileIsOverwritten ==
  [][/\ \A file \in DOMAIN data : data'[file] = data[file]
     /\ \A file \in DOMAIN video : video'[file] = video[file]]_pipelineVars

(* A shard of several episodes stays below the configured file size.       *)
ShardsStayBelowLimit ==
  \A k \in DOMAIN parts : parts[k].version = "v3.0" =>
    \A file \in DOMAIN parts[k].data :
      LET rows == parts[k].data[file]
      IN  Len(rows) < DataLimit \/ \A f \in DOMAIN rows :
                                     rows[f].episode = rows[1].episode

(* ARCHITECTURE.md: "This means distributed execution cannot silently      *)
(* diverge from local backend semantics."                                  *)
NeverDivergesSilently ==
  stage = "restored" => Read(final) = Read(Write(target, source))
=============================================================================
