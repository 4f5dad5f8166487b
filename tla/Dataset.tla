------------------------------- MODULE Dataset -------------------------------
(***************************************************************************)
(* Datasets: what a reader presents, and how the two layouts lay it out in *)
(* files, offsets and index columns (the backends and the readers).        *)
(* Payloads name what was recorded; sizes of files are counted in frames.  *)
(***************************************************************************)
EXTENDS Naturals, Collections, SequencesExt

CONSTANTS
  ChunksSize,   \* files per directory of the output (1000)
  DataLimit,    \* data_file_size_mb, in frames
  VideoLimit    \* video_file_size_mb, in frames

ASSUME DatasetAssumption == {ChunksSize, DataLimit, VideoLimit} \subseteq Nat \ {0}
-----------------------------------------------------------------------------
(* A source is a sequence of episodes: rows of a table, encoded packets    *)
(* and statistics.  A payload names the recorded frame it came from.       *)
Lens(view) == [i \in DOMAIN view.episodes |-> Len(view.episodes[i].rows)]
Offset(lens, i) == SumFunctionOnSet(lens, 1 .. i - 1)

(* A table of tasks numbers one text or more: every row names one.         *)
IsTable(table) ==
  /\ table = [label \in DOMAIN table |-> table[label]]
  /\ DOMAIN table \subseteq Nat /\ DOMAIN table # {} /\ IsFiniteSet(DOMAIN table)

Labels(table) == Ascending(DOMAIN table)

RecordedEpisode(i, lens, label) ==
  [rows |-> [f \in 1 .. lens[i] |->
               [episode |-> i - 1, index |-> Offset(lens, i) + f - 1,
                frame |-> f - 1, task |-> label, payload |-> <<i, f>>]],
   packets |-> [f \in 1 .. lens[i] |-> <<i, f>>],
   stats |-> i]

(* Episodes take the tasks of the table in turn.                           *)
Recorded(lens, table, splits) ==
  [tasks |-> table, splits |-> splits,
   episodes |-> [i \in DOMAIN lens |->
     RecordedEpisode(i, lens,
                     Labels(table)[1 + (i % Cardinality(DOMAIN table))])]]
-----------------------------------------------------------------------------
(* The backends.  Files are named by directory and number.                 *)

(* Mutants of the shard naming and of the grouping.                        *)
PlaceInDirectory(number) == <<0, number % ChunksSize>>

Place(number) == <<number \div ChunksSize, number % ChunksSize>>
EpisodeFile(number) == <<number \div ChunksSize, number>>

GroupsOverfull(sizes, limit) ==
  FoldLeft(LAMBDA groups, i :
             IF groups = <<>>
                  \/ SumFunctionOnSet(sizes, ToSet(Last(groups))) > limit
             THEN Append(groups, <<i>>)
             ELSE Append(Front(groups), Append(Last(groups), i)),
           <<>>, [i \in DOMAIN sizes |-> i])

(* _groups_by_size: a shard is closed before the episode that would fill   *)
(* it to the limit, so a larger one stays alone.                           *)
Groups(sizes, limit) ==
  FoldLeft(LAMBDA groups, i :
             IF groups = <<>>
                  \/ SumFunctionOnSet(sizes, ToSet(Last(groups))) + sizes[i]
                       >= limit
             THEN Append(groups, <<i>>)
             ELSE Append(Front(groups), Append(Last(groups), i)),
           <<>>, [i \in DOMAIN sizes |-> i])

GroupOf(groups, i) == CHOOSE g \in DOMAIN groups : Contains(groups[g], i)

Shards(groups, contents) ==
  [p \in {Place(g - 1) : g \in DOMAIN groups} |->
    LET g == CHOOSE h \in DOMAIN groups : Place(h - 1) = p
    IN  FlattenSeq([k \in DOMAIN groups[g] |-> contents[groups[g][k]]])]

(* Data and video are grouped separately; a data range counts rows of the  *)
(* whole dataset, a video range counts time from the start of its file.    *)
WriteV30(view) ==
  LET lens == Lens(view)
      dataGroups == Groups(lens, DataLimit)
      videoGroups == Groups(lens, VideoLimit)
      Elapsed(i) == SumFunctionOnSet(lens,
        {j \in ToSet(videoGroups[GroupOf(videoGroups, i)]) : j < i})
  IN  [version |-> "v3.0", tasks |-> view.tasks, splits |-> view.splits,
       meta |-> [i \in DOMAIN lens |->
         [data |-> Place(GroupOf(dataGroups, i) - 1),
          from |-> Offset(lens, i), length |-> lens[i],
          video |-> Place(GroupOf(videoGroups, i) - 1),
          start |-> Elapsed(i), end |-> Elapsed(i) + lens[i],
          stats |-> view.episodes[i].stats]],
       data |-> Shards(dataGroups, [i \in DOMAIN lens |-> view.episodes[i].rows]),
       video |-> Shards(videoGroups,
                        [i \in DOMAIN lens |-> view.episodes[i].packets])]

(* One Parquet and one video file per episode, named by its index.         *)
WriteV21(view) ==
  LET lens == Lens(view)
      files == {EpisodeFile(i - 1) : i \in DOMAIN lens}
      Episode(file) == view.episodes[file[2] + 1]
  IN  [version |-> "v2.1", tasks |-> view.tasks, splits |-> view.splits,
       meta |-> [i \in DOMAIN lens |-> [length |-> lens[i],
                                        stats |-> view.episodes[i].stats]],
       data |-> [file \in files |-> Episode(file).rows],
       video |-> [file \in files |-> Episode(file).packets]]

Write(version, view) ==
  IF version = "v2.1" THEN WriteV21(view) ELSE WriteV30(view)
-----------------------------------------------------------------------------
(* The readers. *)

DataFile(dataset, i) ==
  IF dataset.version = "v2.1" THEN EpisodeFile(i - 1) ELSE dataset.meta[i].data
VideoFile(dataset, i) ==
  IF dataset.version = "v2.1" THEN EpisodeFile(i - 1) ELSE dataset.meta[i].video

(* Mutant: a range is taken as if every file began at row 0 of the data.   *)
BaseZero(meta, i) == 0

(* The first row of the whole dataset that an episode's file holds.        *)
Base(meta, i) ==
  meta[CHOOSE j \in DOMAIN meta :
         /\ meta[j].data = meta[i].data
         /\ \A k \in 1 .. j - 1 : meta[k].data # meta[i].data].from

(* Table.slice stops at the end of the table.                              *)
Slice(file, first, length) ==
  SubSeq(file, first + 1, Min({first + length, Len(file)}))

(* Where the rows of an episode begin in its file.                         *)
DataStart(dataset, i) ==
  IF dataset.version = "v2.1" THEN 0
  ELSE dataset.meta[i].from - Base(dataset.meta, i)

RowsOf(dataset, i) ==
  LET file == dataset.data[DataFile(dataset, i)]
  IN  IF dataset.version = "v2.1" THEN file
      ELSE Slice(file, DataStart(dataset, i), dataset.meta[i].length)

PacketsOf(dataset, i) ==
  LET file == dataset.video[VideoFile(dataset, i)]
      m == dataset.meta[i]
  IN  IF dataset.version = "v2.1" THEN file ELSE Slice(file, m.start, m.end - m.start)

Read(dataset) ==
  [tasks |-> dataset.tasks, splits |-> dataset.splits,
   episodes |-> [i \in DOMAIN dataset.meta |->
     [rows |-> RowsOf(dataset, i), packets |-> PacketsOf(dataset, i),
      stats |-> dataset.meta[i].stats]]]
=============================================================================
