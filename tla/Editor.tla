------------------------------- MODULE Editor --------------------------------
(***************************************************************************)
(* edit_dataset of the editor: episodes deleted, tasks replaced, features  *)
(* removed and videos transformed in one pass over the files of a dataset. *)
(* A manifest is planned from metadata, unchanged files are copied, the    *)
(* others rewritten by a pool of workers, the metadata rebuilt.  What      *)
(* happens at the destination is module Publication.                       *)
(***************************************************************************)
EXTENDS Dataset, Optional

CONSTANTS
  Recordings,    \* sources: see RecordingType
  Edits,         \* EditConfig values
  Machines       \* what inspect_resources finds: [cpus, memory]

(* What a retained, inter-frame coded file is encoded with if it is cut.   *)
Fallback == [codec |-> "libx264", scale |-> 1]

(* An episode has a frame, a split is an interval of episodes: a source of *)
(* which this is not so is refused.                                        *)
ASSUME EditorAssumption ==
  /\ \A r \in Recordings :
       /\ r.lens \in Seq(Nat \ {0}) \ {<<>>} /\ r.version \in {"v2.1", "v3.0"}
       /\ r.pixels \in Nat \ {0} /\ IsTable(r.tasks)
       /\ \A name \in DOMAIN r.splits : /\ r.splits[name] \in Nat \X Nat
                                       /\ r.splits[name][1] <= r.splits[name][2]
  /\ \A e \in Edits :
       /\ e.batch \in Nat \ {0}
       /\ {e.workers, e.codecThreads} \subseteq Options \ {0}
       /\ e.video # NotGiven => e.video.scale \in Nat \ {0}
  /\ \A m \in Machines : {m.cpus, m.memory} \subseteq Nat \ {0}
  /\ Fallback # NotGiven

VARIABLES
  recording,  \* facts the headers of the source tell
  dataset,    \* the source
  edit,       \* the EditConfig
  machine,
  editing,    \* "request", "reuse", "data", "media", "metadata", "done",
              \* "refused" or "failed"
  work,       \* the manifest
  staged,     \* files in the staging directory: [data, video]
  running,    \* media jobs in the hands of a worker
  finished,   \* jobs done in this phase
  faulted,    \* a job of this phase has raised
  edited      \* the dataset that is published

editorVars == <<recording, dataset, edit, machine, editing, work, staged, running,
                finished, faulted, edited>>
-----------------------------------------------------------------------------
(* A recorded episode, with keyframes and statistics.  A packet refers to  *)
(* the frame it is predicted from, or to none.                             *)
Key == <<>>

Predecessor(r, i, f) ==
  LET groups == Groups(r.lens, VideoLimit)
      opens == \/ r.version = "v2.1" \/ r.aligned
               \/ groups[GroupOf(groups, i)][1] = i
  IN  IF r.codec = "mjpeg" \/ (f = 1 /\ opens) THEN Key
      ELSE IF f = 1 THEN <<i - 1, r.lens[i - 1]>> ELSE <<i, f - 1>>

RecordedView(r) ==
  LET view == Recorded(r.lens, r.tasks, r.splits)
      Episode(i) ==
        LET e == view.episodes[i]
        IN  [rows |-> e.rows,
             packets |-> [f \in DOMAIN e.packets |->
               [frame |-> <<i, f>>, after |-> Predecessor(r, i, f),
                coded |-> "source"]],
             stats |-> [index |-> e.rows[1].index, episode |-> i - 1,
                        task |-> e.rows[1].task, video |-> "source"]]
  IN  [view EXCEPT !.episodes = [i \in DOMAIN view.episodes |-> Episode(i)]]

(* A source may hold rows under another episode's number.                  *)
Source(r) ==
  LET files == Write(r.version, RecordedView(r))
      Mislabelled(rows) == [f \in DOMAIN rows |-> [rows[f] EXCEPT !.episode = @ + 1]]
  IN  IF r.labelled THEN files
      ELSE [files EXCEPT !.data = [p \in DOMAIN @ |-> Mislabelled(@[p])]]

Count == Len(dataset.meta)
LengthOf(i) == dataset.meta[i].length
-----------------------------------------------------------------------------
(* _manifest: which edits are accepted *)

SparseLabels == DOMAIN dataset.tasks # 0 .. Cardinality(DOMAIN dataset.tasks) - 1

Refused ==
  \/ edit.delete \cap DOMAIN edit.retask # {}
  \/ ~(edit.delete \cup DOMAIN edit.retask \subseteq 0 .. Count - 1)
  \/ Cardinality(edit.delete) = Count
  \/ edit.video # NotGiven /\ "camera" \in edit.remove
  \/ SparseLabels

(* Retained episodes, as positions in the source.                          *)
Kept == Ascending({i \in 1 .. Count : i - 1 \notin edit.delete})

NewLens == [k \in DOMAIN Kept |-> LengthOf(Kept[k])]
NewStart(k) == Offset(NewLens, k)

(* A task text that is known keeps its number; a new one is appended.      *)
AddTask(table, text) ==
  IF text \in Range(table) THEN table
  ELSE Assign(table, Cardinality(DOMAIN table), text)

AddTasks(table, texts) == FoldLeft(AddTask, table, texts)

Retasked == Ascending({i \in 1 .. Count : /\ i - 1 \notin edit.delete
                                         /\ i - 1 \in DOMAIN edit.retask})

NewTasks ==
  AddTasks(dataset.tasks, [n \in DOMAIN Retasked |-> edit.retask[Retasked[n] - 1]])

Override(k) ==
  IF Kept[k] - 1 \in DOMAIN edit.retask
  THEN Min({n \in DOMAIN NewTasks : NewTasks[n] = edit.retask[Kept[k] - 1]})
  ELSE NotGiven

(* Mutant: the statistics of the index column keep their place.            *)
ShiftedStatsUnmoved(k) ==
  LET old == dataset.meta[Kept[k]].stats
  IN  [old EXCEPT !.episode = k - 1,
                  !.task = IF Override(k) = NotGiven THEN @ ELSE Override(k)]

ShiftedStats(k) ==
  LET old == dataset.meta[Kept[k]].stats
      from == SumFunction([i \in 1 .. Kept[k] - 1 |-> LengthOf(i)])
  IN  [old EXCEPT !.index = (@ + NewStart(k)) - from,
                  !.episode = k - 1,
                  !.task = IF Override(k) = NotGiven THEN @ ELSE Override(k)]

(* Splits are named half-open intervals of episodes: searchsorted.         *)
NewSplits ==
  LET Position(n) == Cardinality({k \in DOMAIN Kept : Kept[k] - 1 < n})
  IN  [name \in DOMAIN dataset.splits |->
        <<Position(dataset.splits[name][1]), Position(dataset.splits[name][2])>>]
-----------------------------------------------------------------------------
(* Files: groups of retained episodes, in the order of their first use.    *)

DataPaths == [i \in 1 .. Count |-> DataFile(dataset, i)]
VideoPaths == [i \in 1 .. Count |-> VideoFile(dataset, i)]

FilesOf(paths) == Deduplicated([k \in DOMAIN Kept |-> paths[Kept[k]]])

GroupIn(paths, path) == Ascending({k \in DOMAIN Kept : paths[Kept[k]] = path})

NewPlace(group, number) ==
  IF dataset.version = "v2.1" THEN EpisodeFile(Head(group) - 1)
  ELSE Place(number - 1)

(* Mutant: a file is kept as long as nothing of it was deleted.            *)
ChangesWithoutRenumbering(path, group) ==
  \/ Len(group) # Cardinality({i \in 1 .. Count : DataPaths[i] = path})
  \/ "state" \in edit.remove
  \/ \E n \in DOMAIN group : Override(group[n]) # NotGiven

Changes(path, group) ==
  \/ Len(group) # Cardinality({i \in 1 .. Count : DataPaths[i] = path})
  \/ "state" \in edit.remove
  \/ \E n \in DOMAIN group : \/ Override(group[n]) # NotGiven
                             \/ group[n] # Kept[group[n]]

DataJobs ==
  LET paths == FilesOf(DataPaths)
  IN  [n \in DOMAIN paths |->
        LET group == GroupIn(DataPaths, paths[n])
        IN  [source |-> paths[n], output |-> NewPlace(group, n),
             episodes |-> group, rewrite |-> Changes(paths[n], group)]]

(* Frames of an episode within its video file.                             *)
VideoStart(i) == IF dataset.version = "v2.1" THEN 0 ELSE dataset.meta[i].start

VideoRange(k) ==
  <<VideoStart(Kept[k]), VideoStart(Kept[k]) + NewLens[k]>>

(* Mutant: a start that is an I frame of some kind is taken for enough.    *)
RemuxSafeAnywhere(file, ranges) ==
  \A n \in DOMAIN ranges : ranges[n][2] <= Len(file)

(* packet_remux_safe: every retained range begins with an IDR frame.       *)
RemuxSafe(file, ranges) ==
  /\ \A n \in DOMAIN ranges : ranges[n][2] <= Len(file)
  /\ \A n \in DOMAIN ranges : file[ranges[n][1] + 1].after = Key

Transform(file, ranges, partial) ==
  IF edit.video # NotGiven THEN edit.video
  ELSE IF /\ partial /\ recording.codec # "mjpeg"
          /\ ~(recording.codec = "h264" /\ RemuxSafe(file, ranges))
       THEN Fallback ELSE NotGiven

MediaJobs ==
  LET paths == FilesOf(VideoPaths)
  IN  IF "camera" \in edit.remove THEN <<>>
      ELSE [n \in DOMAIN paths |->
        LET file == dataset.video[paths[n]]
            used == GroupIn(VideoPaths, paths[n])
            group == SortedBy(used, [m \in DOMAIN used |-> VideoStart(Kept[used[m]])])
            ranges == [m \in DOMAIN group |-> VideoRange(group[m])]
            frames == SumFunction([m \in DOMAIN group |-> NewLens[group[m]]])
            partial == frames # Len(file)
            transform == Transform(file, ranges, partial)
        IN  [source |-> paths[n], output |-> NewPlace(group, n),
             episodes |-> group, ranges |-> ranges, transform |-> transform,
             mode |-> IF transform # NotGiven THEN "transcode"
                      ELSE IF partial THEN "remux" ELSE "reuse"]]

(* Sound would be lost by encoding, and by compacting.                     *)
LosesAudio(jobs) ==
  recording.audio /\ \E n \in DOMAIN jobs : jobs[n].mode # "reuse"

(* Mutant: only the pixels that are read are counted.                      *)
PixelsRead(job) == recording.pixels

Pixels(job) == recording.pixels * Max({1, job.transform.scale})
-----------------------------------------------------------------------------
(* Workers *)

Transcodes(jobs) == {n \in DOMAIN jobs : jobs[n].mode = "transcode"}
BaseMemory == 128
JobMemory(jobs) ==
  Max({BaseMemory} \cup {Pixels(jobs[n]) * 128 : n \in Transcodes(jobs)})
EditBudget == Max({1, machine.memory \div 2})

AutomaticWorkers(jobs) ==
  Transcodes(jobs) # {} /\ edit.workers = NotGiven /\ edit.codecThreads = NotGiven

WorkerCount(data, media) ==
  LET threads == IF edit.codecThreads = NotGiven THEN 1 ELSE edit.codecThreads
      perJob == IF Transcodes(media) = {} THEN 1 ELSE Max({2, threads + 1})
      cpuCap == IF AutomaticWorkers(media) THEN Max({1, (machine.cpus * 3) \div 4})
                ELSE Max({1, machine.cpus \div perJob})
      memoryCap == Max({1, EditBudget \div JobMemory(media)})
  IN  Min({IF edit.workers = NotGiven THEN 8 ELSE edit.workers, cpuCap, memoryCap,
           Max({1, Len(data), Len(media)})})

EditManifest ==
  [data |-> DataJobs, media |-> MediaJobs,
   workers |-> WorkerCount(DataJobs, MediaJobs),
   stats |-> [k \in DOMAIN Kept |-> ShiftedStats(k)]]
-----------------------------------------------------------------------------
(* Rewriting *)

(* One batch of a shared file: the episodes from the current one on whose  *)
(* rows it reaches; the pointer stays on an episode that goes on.          *)
StreamBatch(job, rows, state, first) ==
  LET last == Min({first + edit.batch, Len(rows)})
      From(n) == DataStart(dataset, Kept[job.episodes[n]])
      To(n) == From(n) + NewLens[job.episodes[n]]
      Reached(n) == /\ From(n) < last
                    /\ \A m \in state.number .. n - 1 : To(m) <= last
      reached == {n \in state.number .. Len(job.episodes) : Reached(n)}
      Part(n) == SubSeq(rows, Max({From(n), first}) + 1, Min({To(n), last}))
  IN  [number |-> state.number + Cardinality({n \in reached : To(n) <= last}),
       rows |-> state.rows \o FlattenSeq(
         [m \in 1 .. Cardinality(reached) |->
           [f \in DOMAIN Part(state.number + m - 1) |->
             [of |-> job.episodes[state.number + m - 1],
              row |-> Part(state.number + m - 1)[f]]]])]

Streamed(job) ==
  LET rows == dataset.data[job.source]
      batches == (Len(rows) + edit.batch - 1) \div edit.batch
  IN  FoldLeft(LAMBDA state, b : StreamBatch(job, rows, state, (b - 1) * edit.batch),
               [number |-> 1, rows |-> <<>>], [b \in 1 .. batches |-> b]).rows

Removed == "removed"
EditRow(k, row) ==
  [row EXCEPT !.episode = k - 1,
              !.index = NewStart(k) + row.frame,
              !.task = IF Override(k) = NotGiven THEN @ ELSE Override(k),
              !.payload = IF "state" \in edit.remove THEN Removed ELSE @]

(* Rows must carry the episode and frame numbers the metadata says.        *)
Agrees(job, out) ==
  /\ \A q \in DOMAIN out : out[q].row.episode = Kept[out[q].of] - 1
  /\ Len(out) = SumFunction([n \in DOMAIN job.episodes |-> NewLens[job.episodes[n]]])

(* Ranges that touch are read in one piece.                                *)
Coalesced(ranges) ==
  FoldLeft(LAMBDA seen, r :
             IF seen # <<>> /\ Last(seen)[2] = r[1]
             THEN Append(Front(seen), <<Last(seen)[1], r[2]>>)
             ELSE Append(seen, r), <<>>, ranges)

Selected(job) ==
  FlattenSeq([n \in DOMAIN Coalesced(job.ranges) |->
    SubSeq(dataset.video[job.source], Coalesced(job.ranges)[n][1] + 1,
           Coalesced(job.ranges)[n][2])])

(* Frames of the output at which the encoder is told to begin anew.        *)
Forced(job) ==
  LET lens == [n \in DOMAIN job.episodes |-> NewLens[job.episodes[n]]]
  IN  {Offset(lens, n) + 1 : n \in DOMAIN lens}

Encoded(job) ==
  LET frames == Selected(job)
  IN  [q \in DOMAIN frames |->
        [frame |-> frames[q].frame, coded |-> "output",
         after |-> IF q = 1 \/ q \in Forced(job) \/ job.transform.codec = "mjpeg"
                   THEN Key ELSE frames[q - 1].frame]]
-----------------------------------------------------------------------------
EditorInit ==
  /\ recording \in Recordings /\ dataset = Source(recording)
  /\ edit \in Edits /\ machine \in Machines
  /\ editing = "request" /\ work = <<>> /\ edited = <<>>
  /\ staged = [data |-> <<>>, video |-> <<>>]
  /\ running = {} /\ finished = {} /\ faulted = FALSE

EditRefuse ==
  /\ editing = "request"
  /\ Refused \/ LosesAudio(MediaJobs)
  /\ editing' = "refused"
  /\ UNCHANGED <<recording, dataset, edit, machine, work, staged, running, finished,
                 faulted, edited>>

EditPlan ==
  /\ editing = "request" /\ ~Refused /\ ~LosesAudio(MediaJobs)
  /\ work' = EditManifest
  /\ editing' = "reuse"
  /\ UNCHANGED <<recording, dataset, edit, machine, staged, running, finished, faulted, edited>>

Cloned(jobs, chosen, files) ==
  [p \in {jobs[n].output : n \in chosen} |->
    files[jobs[CHOOSE n \in chosen : jobs[n].output = p].source]]

(* Files that stay as they are are cloned, never linked.                   *)
CloneFiles ==
  /\ editing = "reuse"
  /\ LET keptData == {n \in DOMAIN work.data : ~work.data[n].rewrite}
         keptMedia == {n \in DOMAIN work.media : work.media[n].mode = "reuse"}
     IN  staged' = [data |-> Cloned(work.data, keptData, dataset.data),
                    video |-> Cloned(work.media, keptMedia, dataset.video)]
  /\ editing' = "data"
  /\ UNCHANGED <<recording, dataset, edit, machine, work, running, finished, faulted, edited>>

RewriteShard(n) ==
  /\ editing = "data" /\ n \in DOMAIN work.data \ finished
  /\ work.data[n].rewrite
  /\ LET out == Streamed(work.data[n])
     IN  IF Agrees(work.data[n], out)
         THEN /\ staged' = [staged EXCEPT !.data = Assign(@, work.data[n].output,
                   [q \in DOMAIN out |-> EditRow(out[q].of, out[q].row)])]
              /\ UNCHANGED faulted
         ELSE faulted' = TRUE /\ UNCHANGED staged
  /\ finished' = finished \cup {n}
  /\ UNCHANGED <<recording, dataset, edit, machine, editing, work, running, edited>>

DataDone == \A n \in DOMAIN work.data : work.data[n].rewrite => n \in finished

EndData ==
  /\ editing = "data" /\ DataDone /\ ~faulted
  /\ editing' = "media" /\ finished' = {}
  /\ UNCHANGED <<recording, dataset, edit, machine, work, staged, running, faulted, edited>>

(* The longest encodings are submitted first; remuxing keeps its order.    *)
Effort(n) ==
  IF work.media[n].mode = "transcode"
  THEN SumFunction([m \in DOMAIN work.media[n].episodes |->
                     NewLens[work.media[n].episodes[m]]]) ELSE 0

Changed == {n \in DOMAIN work.media : work.media[n].mode # "reuse"}
Foremost(waiting) ==
  {n \in waiting : \A m \in waiting :
     Effort(n) > Effort(m) \/ (Effort(n) = Effort(m) /\ n <= m)}

StartMedia ==
  /\ editing = "media"
  /\ Cardinality(running) < work.workers
  /\ \E n \in Foremost(Changed \ (running \cup finished)) :
       running' = running \cup {n}
  /\ UNCHANGED <<recording, dataset, edit, machine, editing, work, staged, finished,
                 faulted, edited>>

FinishMedia(n) ==
  /\ editing = "media" /\ n \in running
  /\ LET job == work.media[n]
         packets == IF job.mode = "remux" THEN Selected(job) ELSE Encoded(job)
     IN  staged' = [staged EXCEPT !.video = Assign(@, job.output, packets)]
  /\ running' = running \ {n} /\ finished' = finished \cup {n}
  /\ UNCHANGED <<recording, dataset, edit, machine, editing, work, faulted, edited>>

(* An encoder that fails does not stop the others.                         *)
MediaFails(n) ==
  /\ editing = "media" /\ n \in running
  /\ faulted' = TRUE
  /\ running' = running \ {n} /\ finished' = finished \cup {n}
  /\ UNCHANGED <<recording, dataset, edit, machine, editing, work, staged, edited>>

(* The pool of data drops what has not begun, that of media goes through   *)
(* all of its jobs; then staging is removed.                               *)
EditFails ==
  /\ faulted
  /\ \/ editing = "data"
     \/ editing = "media" /\ Changed \subseteq finished
  /\ editing' = "failed"
  /\ staged' = [data |-> <<>>, video |-> <<>>]
  /\ UNCHANGED <<recording, dataset, edit, machine, work, running, finished, faulted, edited>>

(* Pixel statistics come from the encoded output.                          *)
EditedStats(k) ==
  IF "camera" \in edit.remove THEN [work.stats[k] EXCEPT !.video = Removed]
  ELSE IF \E n \in Transcodes(work.media) : Contains(work.media[n].episodes, k)
  THEN [work.stats[k] EXCEPT !.video = "output"] ELSE work.stats[k]

(* A file that is kept whole keeps its times; the others are compacted.     *)
Location(job, m) ==
  IF job.mode = "reuse" THEN job.ranges[m][1]
  ELSE Offset([n \in DOMAIN job.ranges |-> job.ranges[n][2] - job.ranges[n][1]], m)

EditedRow(k) ==
  LET Number(jobs) == CHOOSE n \in DOMAIN jobs : Contains(jobs[n].episodes, k)
      m == Number(work.media)
      job == work.media[m]
      start == Location(job, CHOOSE n \in DOMAIN job.episodes : job.episodes[n] = k)
      data == work.data[Number(work.data)].output
  IN  IF work.media = <<>>
      THEN [length |-> NewLens[k], stats |-> EditedStats(k), from |-> NewStart(k),
            data |-> data]
      ELSE [length |-> NewLens[k], stats |-> EditedStats(k), from |-> NewStart(k),
            data |-> data, video |-> job.output, start |-> start,
            end |-> start + NewLens[k]]

EditMetadata ==
  /\ editing = "media" /\ Changed \subseteq finished /\ ~faulted
  /\ edited' = [version |-> dataset.version, tasks |-> NewTasks,
                splits |-> NewSplits,
                meta |-> [k \in DOMAIN Kept |-> EditedRow(k)],
                data |-> staged.data, video |-> staged.video]
  /\ editing' = "done"
  /\ UNCHANGED <<recording, dataset, edit, machine, work, staged, running, finished, faulted>>

EditorNext ==
  \/ EditRefuse \/ EditPlan \/ CloneFiles \/ EndData \/ StartMedia
  \/ \E n \in 1 .. Count : RewriteShard(n) \/ FinishMedia(n) \/ MediaFails(n)
  \/ EditFails \/ EditMetadata

EditorSpec == EditorInit /\ [][EditorNext]_editorVars
-----------------------------------------------------------------------------
(* Properties *)

(* What an edit means, episode by episode, without files: the retained     *)
(* episodes in their order, numbered anew, the replaced tasks everywhere   *)
(* in their episodes, and each split the retained part of what it was.     *)
WantedRows(k) ==
  LET rows == Read(dataset).episodes[Kept[k]].rows
      Text(row) == IF Kept[k] - 1 \in DOMAIN edit.retask
                   THEN edit.retask[Kept[k] - 1] ELSE dataset.tasks[row.task]
  IN  [f \in DOMAIN rows |->
        [episode |-> k - 1, index |-> Offset(NewLens, k) + f - 1, frame |-> f - 1,
         task |-> Text(rows[f]),
         payload |-> IF "state" \in edit.remove THEN Removed ELSE rows[f].payload]]

Retained(interval) ==
  {k \in DOMAIN Kept : interval[1] <= Kept[k] - 1 /\ Kept[k] - 1 < interval[2]}

(* A finished edit of a sound source reads exactly as the request says,    *)
(* however the episodes share files, and whichever files were copied,      *)
(* streamed, cut or encoded.                                               *)
EditIsExact ==
  editing = "done" /\ recording.labelled =>
    LET rows == [k \in DOMAIN Kept |-> RowsOf(edited, k)]
    IN  /\ \A k \in DOMAIN Kept :
             [f \in DOMAIN rows[k] |->
               [rows[k][f] EXCEPT !.task = edited.tasks[@]]] = WantedRows(k)
        /\ \A name \in DOMAIN edited.splits :
             Retained(dataset.splits[name]) =
               edited.splits[name][1] + 1 .. edited.splits[name][2]

(* Every episode finds its own frames in the video, each of them can be    *)
(* decoded, and an episode of an encoded file begins with a keyframe, so   *)
(* that it can be cut out again without decoding.                          *)
Decodes(packets) ==
  \A q \in DOMAIN packets :
    packets[q].after = Key \/ (q > 1 /\ packets[q - 1].frame = packets[q].after)

EditedVideoPlays ==
  editing = "done" /\ "camera" \notin edit.remove =>
    /\ \A file \in DOMAIN edited.video : Decodes(edited.video[file])
    /\ \A k \in DOMAIN Kept :
         LET mine == PacketsOf(edited, k)
         IN  /\ [f \in DOMAIN mine |-> mine[f].frame] =
                  [f \in 1 .. NewLens[k] |-> <<Kept[k], f>>]
             /\ mine[1].coded = "output" => mine[1].after = Key

(* The statistics of an episode describe what its files now hold.          *)
EditedStatsMatch ==
  editing = "done" /\ recording.labelled =>
    \A k \in DOMAIN Kept :
      LET rows == RowsOf(edited, k)
          stats == edited.meta[k].stats
      IN  /\ stats.index = rows[1].index
          /\ stats.episode = rows[1].episode
          /\ stats.task = rows[1].task
          /\ "camera" \notin edit.remove => stats.video = PacketsOf(edited, k)[1].coded

(* Encoders at work together stay within half of the memory, unless one    *)
(* alone exceeds it.                                                       *)
EncodersFitMemory ==
  LET encoders == {n \in running : work.media[n].mode = "transcode"}
      needs == [n \in encoders |->
                 recording.pixels * Max({1, work.media[n].transform.scale}) * 128]
  IN  \/ Cardinality(running) <= 1
      \/ SumFunctionOnSet(needs, encoders) <= EditBudget
=============================================================================
