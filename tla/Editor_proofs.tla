----------------------------- MODULE Editor_proofs -----------------------------
(***************************************************************************)
(* What holds of every edit, for all sources, edits and machines.          *)
(***************************************************************************)
EXTENDS Editor, Dataset_proofs

(* What the editor is given: recordings of some length, worker counts and  *)
(* machines that exist.                                                    *)
LEMMA EditTypes ==
  /\ \A r \in Recordings : /\ r.lens \in Seq(Nat \ {0}) /\ Len(r.lens) \in Nat \ {0}
                           /\ r.pixels \in Nat \ {0}
  /\ \A e \in Edits : /\ {e.workers, e.codecThreads} \subseteq Options \ {0}
                      /\ e.video # NotGiven => e.video.scale \in Nat \ {0}
  /\ \A m \in Machines : m.cpus \in Nat \ {0} /\ m.memory \in Nat \ {0}
<1>1. \A r \in Recordings : r.lens \in Seq(Nat \ {0}) /\ r.lens # <<>>
  BY EditorAssumption DEF EditorAssumption
<1>2. \A r \in Recordings : Len(r.lens) \in Nat \ {0}
  BY <1>1, LenProperties, EmptySeq
<1> QED
  BY <1>1, <1>2, EditorAssumption DEF EditorAssumption

-----------------------------------------------------------------------------
(* The source is as long as what was recorded.                             *)
LEMMA SourceLength ==
  ASSUME NEW r \in Recordings
  PROVE  Len(Source(r).meta) = Len(r.lens)
<1> DEFINE n == Len(r.lens)
           view == Recorded(r.lens, r.tasks, r.splits)
           shown == RecordedView(r)
<1>1. n \in Nat /\ DOMAIN r.lens = 1 .. n
  BY EditTypes, LenProperties
<1>2. DOMAIN view.episodes = 1 .. n
  BY <1>1 DEF Recorded
<1>3. DOMAIN shown.episodes = 1 .. n
  <2>1. DOMAIN shown.episodes = DOMAIN view.episodes
    BY DEF RecordedView, Recorded
  <2> QED BY <1>2, <2>1
<1> HIDE DEF shown, n
<1>4. DOMAIN Lens(shown) = 1 .. n
  BY <1>3 DEF Lens
<1> DEFINE files == Write(r.version, shown)
<1>5. DOMAIN files.meta = 1 .. n /\ files.meta = [i \in 1 .. n |-> files.meta[i]]
  <2>1. CASE r.version = "v2.1"
    BY <1>4, <2>1 DEF Write, WriteV21
  <2>2. CASE r.version # "v2.1"
    BY <1>4, <2>2 DEF Write, WriteV30
  <2> QED BY <2>1, <2>2
<1>6. Source(r).meta = files.meta
  <2>1. CASE r.labelled
    BY <2>1 DEF Source, shown
  <2>2. CASE ~r.labelled
    <3>1. "meta" \in DOMAIN files
      BY DEF Write, WriteV21, WriteV30
    <3> HIDE DEF files
    <3>2. \A x : [files EXCEPT !.data = x].meta = files.meta
      BY <3>1
    <3> QED BY <2>2, <3>2, Zenon DEF Source, shown, files
  <2> QED BY <2>1, <2>2
<1> HIDE DEF files
<1>7. Len(files.meta) = n
  <2>1. n \in Nat
    BY <1>1
  <2> DEFINE m == files.meta
  <2>2. m = [i \in 1 .. n |-> m[i]]
    BY <1>5
  <2> HIDE DEF m
  <2>3. Len(m) = n
    BY <2>1, <2>2, LenOfFunction
  <2> QED BY <2>3 DEF m
<1> QED
  BY <1>6, <1>7 DEF n

(* The positions of the retained episodes, and the files that hold them.   *)
LEMMA KeptType ==
  ASSUME Count \in Nat
  PROVE  /\ Len(Kept) \in Nat /\ DOMAIN Kept = 1 .. Len(Kept)
         /\ Kept \in [1 .. Len(Kept) -> 1 .. Count]
<1> DEFINE S == {i \in 1 .. Count : i - 1 \notin edit.delete}
           n == Cardinality(S)
           asc == Ascending(S)
<1>1. S \in SUBSET Nat /\ IsFiniteSet(S) /\ S \subseteq 1 .. Count
  <2>1. 1 \in Int /\ Count \in Int
    OBVIOUS
  <2>2. IsFiniteSet(1 .. Count)
    BY <2>1, FS_Interval
  <2>3. S \in SUBSET (1 .. Count) /\ S \in SUBSET Nat
    OBVIOUS
  <2> HIDE DEF S
  <2>4. IsFiniteSet(S)
    BY <2>2, <2>3, FS_Subset
  <2> QED BY <2>3, <2>4
<1> HIDE DEF S
<1>2. n \in Nat /\ asc \in [1 .. n -> S]
  BY <1>1, AscendingType
<1> HIDE DEF n, asc
<1>3. Len(asc) = n
  BY <1>2, SeqOfFunction
<1>4. Kept = asc
  BY DEF Kept, asc, S
<1> QED
  BY <1>1, <1>2, <1>3, <1>4

(* Both kinds of jobs are numbered from one.                               *)
LEMMA JobsType ==
  ASSUME Count \in Nat
  PROVE  /\ \E m \in Nat : DOMAIN DataJobs = 1 .. m /\ Len(DataJobs) = m
         /\ \E m \in Nat : DOMAIN MediaJobs = 1 .. m /\ Len(MediaJobs) = m
         /\ \A n \in DOMAIN MediaJobs :
              MediaJobs[n].mode = "transcode" =>
                \/ edit.video # NotGiven /\ MediaJobs[n].transform = edit.video
                \/ MediaJobs[n].transform = Fallback
<1>1. ASSUME NEW paths PROVE \E m \in Nat : DOMAIN FilesOf(paths) = 1 .. m
  <2> DEFINE used == [k \in DOMAIN Kept |-> paths[Kept[k]]]
  <2>1. DOMAIN used = 1 .. Len(Kept) /\ Len(Kept) \in Nat
    BY KeptType
  <2> HIDE DEF used
  <2>2. \E m \in Nat : Deduplicated(used) = [k \in 1 .. m |-> Deduplicated(used)[k]]
    BY <2>1, DeduplicatedLists
  <2>3. FilesOf(paths) = Deduplicated(used)
    BY DEF FilesOf, used
  <2> QED BY <2>2, <2>3
<1>2. \E m \in Nat : DOMAIN DataJobs = 1 .. m /\ Len(DataJobs) = m
  <2> DEFINE jobs == DataJobs
  <2>1. PICK m \in Nat : DOMAIN FilesOf(DataPaths) = 1 .. m
    BY <1>1
  <2>2. DOMAIN jobs = 1 .. m /\ jobs = [n \in DOMAIN jobs |-> jobs[n]]
    BY <2>1 DEF DataJobs
  <2> HIDE DEF jobs
  <2>3. Len(jobs) = m
    BY <2>2, LenOfFunction
  <2> QED BY <2>2, <2>3 DEF jobs
<1>3. CASE "camera" \in edit.remove
  <2>1. MediaJobs = <<>>
    BY <1>3 DEF MediaJobs
  <2>2. DOMAIN MediaJobs = 1 .. 0 /\ Len(MediaJobs) = 0
    BY <2>1, EmptySeq
  <2> QED BY <1>2, <2>2
<1>4. CASE "camera" \notin edit.remove
  <2> DEFINE jobs == MediaJobs
  <2>1. PICK m \in Nat : DOMAIN FilesOf(VideoPaths) = 1 .. m
    BY <1>1
  <2>2. DOMAIN jobs = 1 .. m /\ jobs = [n \in DOMAIN jobs |-> jobs[n]]
    BY <1>4, <2>1 DEF MediaJobs
  <2>3. ASSUME NEW n \in 1 .. m, jobs[n].mode = "transcode"
        PROVE  \/ edit.video # NotGiven /\ jobs[n].transform = edit.video
               \/ jobs[n].transform = Fallback
    <3>1. \E file, ranges, partial :
            /\ jobs[n].transform = Transform(file, ranges, partial)
            /\ jobs[n].mode = IF jobs[n].transform # NotGiven THEN "transcode"
                              ELSE IF partial THEN "remux" ELSE "reuse"
      BY <1>4, <2>1 DEF MediaJobs
    <3>2. jobs[n].transform # NotGiven
      BY <2>3, <3>1
    <3> HIDE DEF jobs
    <3> QED BY <3>1, <3>2 DEF Transform
  <2> HIDE DEF jobs
  <2>4. Len(jobs) = m
    BY <2>2, LenOfFunction
  <2> QED BY <1>2, <2>2, <2>3, <2>4 DEF jobs
<1> QED
  BY <1>3, <1>4

-----------------------------------------------------------------------------
(* Memory.  A manifest allows no more workers than can each have what its  *)
(* largest transcoding job needs, or one.                                  *)
Need(jobs, n) == recording.pixels * Max({1, jobs[n].transform.scale}) * 128

Affordable(manifest) ==
  \E most \in Nat \ {0} :
    /\ \A n \in DOMAIN manifest.media : manifest.media[n].mode = "transcode" =>
         Need(manifest.media, n) \in Nat /\ Need(manifest.media, n) <= most
    /\ manifest.workers \in Int
    /\ manifest.workers <= Max({1, EditBudget \div most})

MemoryInv ==
  /\ recording \in Recordings /\ edit \in Edits /\ machine \in Machines
  /\ Count \in Nat
  /\ editing \notin {"request", "refused"} => Affordable(work)
  /\ editing \in {"request", "refused"} => running = {}
  /\ IsFiniteSet(running)
  /\ running # {} => running \subseteq DOMAIN work.media
  /\ running # {} => Cardinality(running) <= work.workers

LEMMA NeedType ==
  ASSUME MemoryInv, NEW n \in Transcodes(MediaJobs)
  PROVE  Need(MediaJobs, n) \in Nat /\ Need(MediaJobs, n) = Pixels(MediaJobs[n]) * 128
<1> DEFINE scale == MediaJobs[n].transform.scale
           most == Max({1, scale})
<1>1. MediaJobs[n].mode = "transcode" /\ n \in DOMAIN MediaJobs
  BY DEF Transcodes
<1>2. scale \in Nat
  <2>1. CASE edit.video # NotGiven /\ MediaJobs[n].transform = edit.video
    BY <2>1, EditTypes DEF MemoryInv
  <2>2. CASE MediaJobs[n].transform = Fallback
    BY <2>2 DEF Fallback
  <2> QED BY <1>1, <2>1, <2>2, JobsType DEF MemoryInv
<1> HIDE DEF scale
<1>3. most \in Nat
  BY <1>2, MaxOfTwo
<1>4. recording.pixels \in Nat
  BY EditTypes DEF MemoryInv
<1> HIDE DEF most
<1>5. recording.pixels * most * 128 \in Nat
  BY <1>3, <1>4
<1> QED
  BY <1>5 DEF Need, Pixels, most, scale

LEMMA JobMemoryCovers ==
  ASSUME MemoryInv
  PROVE  /\ JobMemory(MediaJobs) \in Nat \ {0}
         /\ \A n \in Transcodes(MediaJobs) : Need(MediaJobs, n) <= JobMemory(MediaJobs)
<1> DEFINE T == Transcodes(MediaJobs)
           needs == [n \in T |-> Need(MediaJobs, n)]
           R == {needs[n] : n \in T}
           all == {BaseMemory} \cup R
<1>1. IsFiniteSet(T)
  <2>1. PICK m \in Nat : DOMAIN MediaJobs = 1 .. m
    BY JobsType DEF MemoryInv
  <2>2. 1 \in Int /\ m \in Int /\ T \in SUBSET (1 .. m)
    BY <2>1 DEF Transcodes
  <2> HIDE DEF T
  <2>3. IsFiniteSet(1 .. m)
    BY <2>2, FS_Interval
  <2> QED BY <2>2, <2>3, FS_Subset
<1>2. \A n \in T : needs[n] \in Nat /\ needs[n] = Pixels(MediaJobs[n]) * 128
                   /\ needs[n] = Need(MediaJobs, n)
  BY NeedType
<1>3. all = {BaseMemory} \cup {Pixels(MediaJobs[n]) * 128 : n \in T}
  BY <1>2
<1>4. JobMemory(MediaJobs) = Max(all)
  BY <1>3 DEF JobMemory
<1> HIDE DEF T
<1>5. needs \in Surjection(T, R)
  <2> HIDE DEF needs
  <2>1. needs = [n \in T |-> needs[n]]
    BY DEF needs
  <2> QED BY <2>1 DEF Surjection
<1> HIDE DEF needs
<1>6. IsFiniteSet(R) /\ R \in SUBSET Nat
  <2>1. R \in SUBSET Nat
    BY <1>2
  <2> HIDE DEF R
  <2> QED BY <1>1, <1>5, <2>1, FS_Surjection
<1>7. \A n \in T : needs[n] \in all
  OBVIOUS
<1> HIDE DEF R
<1>8. IsFiniteSet(all)
  <2>1. all = R \cup {BaseMemory}
    OBVIOUS
  <2> HIDE DEF all
  <2> QED BY <1>6, <2>1, FS_AddElement
<1>9. all \in SUBSET Int /\ all # {} /\ BaseMemory \in all /\ all \in SUBSET Nat
  BY <1>6 DEF BaseMemory
<1> HIDE DEF all
<1>10. Max(all) \in all /\ \A x \in all : x <= Max(all)
  BY <1>8, <1>9, FiniteMax
<1>11. Max(all) \in Nat \ {0}
  <2>1. Max(all) \in Nat /\ BaseMemory <= Max(all)
    BY <1>9, <1>10
  <2> QED BY <2>1 DEF BaseMemory
<1> QED
  BY <1>2, <1>4, <1>7, <1>10, <1>11 DEF T

LEMMA WorkersFit ==
  ASSUME MemoryInv
  PROVE  LET workers == WorkerCount(DataJobs, MediaJobs)
         IN  workers \in Int /\ workers <= Max({1, EditBudget \div JobMemory(MediaJobs)})
<1> DEFINE wished == IF edit.workers = NotGiven THEN 8 ELSE edit.workers
           threads == IF edit.codecThreads = NotGiven THEN 1 ELSE edit.codecThreads
           perJob == IF Transcodes(MediaJobs) = {} THEN 1 ELSE Max({2, threads + 1})
           cpuCap == IF AutomaticWorkers(MediaJobs) THEN Max({1, (machine.cpus * 3) \div 4})
                     ELSE Max({1, machine.cpus \div perJob})
           memoryCap == Max({1, EditBudget \div JobMemory(MediaJobs)})
           files == Max({1, Len(DataJobs), Len(MediaJobs)})
<1>1. /\ edit.workers \in Options \ {0} /\ edit.codecThreads \in Options \ {0}
      /\ machine.cpus \in Nat \ {0} /\ machine.memory \in Nat \ {0}
  BY EditTypes DEF MemoryInv
<1>2. wished \in Int /\ threads \in Nat
  BY <1>1 DEF Options
<1> HIDE DEF threads
<1>3. perJob \in Nat \ {0}
  <2>1. threads + 1 \in Int /\ 2 \in Int
    BY <1>2
  <2>2. Max({2, threads + 1}) = IF 2 >= threads + 1 THEN 2 ELSE threads + 1
    BY <2>1, MaxOfTwo
  <2> QED BY <1>2, <2>2
<1> HIDE DEF perJob
<1>4. cpuCap \in Int
  <2>1. (machine.cpus * 3) \div 4 \in Int /\ machine.cpus \div perJob \in Int /\ 1 \in Int
    BY <1>1, <1>3
  <2> QED BY <2>1, MaxOfTwo
<1>5. memoryCap \in Int
  <2>1. EditBudget \in Nat \ {0}
    <3>1. machine.memory \div 2 \in Int /\ 1 \in Int
      BY <1>1
    <3> QED BY <3>1, MaxOfTwo DEF EditBudget
  <2>2. EditBudget \div JobMemory(MediaJobs) \in Int /\ 1 \in Int
    BY <2>1, JobMemoryCovers
  <2> QED BY <2>2, MaxOfTwo
<1>6. files \in Int
  <2> DEFINE a == Len(DataJobs)
             b == Len(MediaJobs)
  <2>1. a \in Nat /\ b \in Nat
    BY JobsType DEF MemoryInv
  <2> HIDE DEF a, b
  <2>2. IsFiniteSet({1, a}) /\ IsFiniteSet({b})
    BY PairIsFinite, FS_Singleton
  <2>3. IsFiniteSet({1, a} \cup {b}) /\ {1, a} \cup {b} = {1, a, b}
    BY <2>2, FS_Union
  <2>4. {1, a, b} \in SUBSET Int /\ {1, a, b} # {} /\ IsFiniteSet({1, a, b})
    BY <2>1, <2>3
  <2>5. Max({1, a, b}) \in {1, a, b}
    BY <2>4, FiniteMax
  <2> QED BY <2>1, <2>5 DEF a, b
<1>7. WorkerCount(DataJobs, MediaJobs) = Min({wished, cpuCap, memoryCap, files})
  BY Zenon DEF WorkerCount, threads, perJob
<1> HIDE DEF wished, cpuCap, memoryCap, files
<1>8. /\ Min({wished, cpuCap, memoryCap, files}) \in Int
      /\ Min({wished, cpuCap, memoryCap, files}) <= memoryCap
  BY <1>2, <1>4, <1>5, <1>6, MinOfFour
<1> QED
  BY <1>7, <1>8 DEF memoryCap

LEMMA RunningFit == MemoryInv => EncodersFitMemory
<1> SUFFICES ASSUME MemoryInv, ~(Cardinality(running) <= 1)
             PROVE  LET encoders == {n \in running : work.media[n].mode = "transcode"}
                        needs == [n \in encoders |->
                          recording.pixels * Max({1, work.media[n].transform.scale}) * 128]
                    IN  SumFunctionOnSet(needs, encoders) <= EditBudget
  BY Zenon DEF EncodersFitMemory
<1> DEFINE encoders == {n \in running : work.media[n].mode = "transcode"}
           needs == [n \in encoders |->
                      recording.pixels * Max({1, work.media[n].transform.scale}) * 128]
           B == EditBudget
<1>1. /\ IsFiniteSet(running) /\ running # {} /\ Cardinality(running) \in Nat
      /\ Cardinality(running) > 1
  <2>1. IsFiniteSet(running)
    BY DEF MemoryInv
  <2>2. Cardinality(running) \in Nat
    BY <2>1, FS_CardinalityType
  <2>3. running # {}
    BY <2>2, FS_EmptySet
  <2> QED BY <2>1, <2>2, <2>3
<1>2. /\ Affordable(work) /\ running \subseteq DOMAIN work.media
      /\ Cardinality(running) <= work.workers
  BY <1>1 DEF MemoryInv
<1>3. PICK J \in Nat \ {0} :
        /\ \A n \in DOMAIN work.media : work.media[n].mode = "transcode" =>
             Need(work.media, n) \in Nat /\ Need(work.media, n) <= J
        /\ work.workers \in Int /\ work.workers <= Max({1, EditBudget \div J})
  BY <1>2 DEF Affordable
<1>4. \A n \in encoders : needs[n] = Need(work.media, n)
  BY DEF Need
<1> HIDE DEF needs
<1>5. J \in Nat \ {0} /\ \A n \in encoders : needs[n] \in Nat /\ needs[n] <= J
  BY <1>2, <1>3, <1>4
<1>6. B \in Nat
  <2>1. machine.memory \div 2 \in Int /\ 1 \in Int
    BY EditTypes DEF MemoryInv
  <2> QED BY <2>1, MaxOfTwo DEF EditBudget
<1> DEFINE W == work.workers
           Q == B \div J
<1>7. W \in Int /\ W <= Max({1, Q})
  BY <1>3
<1>8. IsFiniteSet(encoders) /\ Cardinality(encoders) \in Nat
      /\ Cardinality(encoders) <= Cardinality(running)
  <2>1. encoders \in SUBSET running
    OBVIOUS
  <2> HIDE DEF encoders
  <2> QED BY <1>1, <2>1, FS_Subset, FS_CardinalityType
<1> HIDE DEF B, encoders
<1>9. Q \in Nat /\ J * Q <= B
  BY <1>5, <1>6, Quotients
<1>10. Cardinality(encoders) <= Q
  <2> HIDE DEF Q
  <2>1. Max({1, Q}) = IF 1 >= Q THEN 1 ELSE Q
    BY <1>9, MaxOfTwo
  <2> QED BY <1>1, <1>2, <1>7, <1>8, <1>9, <2>1
<1>11. SumFunctionOnSet(needs, encoders) \in Nat
       /\ SumFunctionOnSet(needs, encoders) <= J * Cardinality(encoders)
  <2>1. J \in Nat /\ \A n \in encoders : needs[n] \in Nat /\ needs[n] <= J
    BY <1>5
  <2> QED BY <1>8, <2>1, SumBelow
<1>12. J * Cardinality(encoders) <= J * Q
  <2> DEFINE c == Cardinality(encoders)
             d == Q - c
  <2>1. c \in Nat /\ d \in Nat /\ Q = c + d /\ J \in Nat
    BY <1>5, <1>8, <1>9, <1>10
  <2> HIDE DEF c, d, Q
  <2>2. J * Q = J * c + J * d /\ J * d \in Nat /\ J * c \in Nat
    BY <2>1
  <2> QED BY <2>2 DEF c
<1>13. SumFunctionOnSet(needs, encoders) <= B
  <2> HIDE DEF Q
  <2>1. J * Cardinality(encoders) \in Nat /\ J * Q \in Nat
    BY <1>5, <1>8, <1>9
  <2> QED BY <1>6, <1>9, <1>11, <1>12, <2>1
<1> QED
  BY <1>13 DEF needs, encoders, B

LEMMA MemoryStart == EditorInit => MemoryInv
<1> SUFFICES ASSUME EditorInit PROVE MemoryInv
  OBVIOUS
<1>1. Count \in Nat
  <2>1. Len(dataset.meta) = Len(recording.lens)
    BY SourceLength DEF EditorInit
  <2> QED BY <2>1, EditTypes DEF EditorInit, Count
<1>2. IsFiniteSet({})
  BY FS_EmptySet
<1> QED
  BY <1>1, <1>2 DEF EditorInit, MemoryInv

LEMMA PlanIsAffordable == MemoryInv => Affordable(EditManifest)
<1> SUFFICES ASSUME MemoryInv PROVE Affordable(EditManifest)
  OBVIOUS
<1> DEFINE most == JobMemory(MediaJobs)
<1>1. most \in Nat \ {0}
      /\ \A n \in Transcodes(MediaJobs) : Need(MediaJobs, n) <= most
  BY JobMemoryCovers
<1>2. \A n \in Transcodes(MediaJobs) : Need(MediaJobs, n) \in Nat
  BY NeedType
<1>3. /\ WorkerCount(DataJobs, MediaJobs) \in Int
      /\ WorkerCount(DataJobs, MediaJobs) <= Max({1, EditBudget \div most})
  BY WorkersFit
<1>4. /\ EditManifest.media = MediaJobs
      /\ EditManifest.workers = WorkerCount(DataJobs, MediaJobs)
  BY DEF EditManifest
<1>5. \A n \in DOMAIN MediaJobs : MediaJobs[n].mode = "transcode" =>
        n \in Transcodes(MediaJobs)
  BY DEF Transcodes
<1> HIDE DEF most
<1> QED
  BY <1>1, <1>2, <1>3, <1>4, <1>5 DEF Affordable

LEMMA MemoryStep == MemoryInv /\ [EditorNext]_editorVars => MemoryInv'
<1> SUFFICES ASSUME MemoryInv, [EditorNext]_editorVars PROVE MemoryInv'
  OBVIOUS
<1>0. UNCHANGED <<recording, dataset, edit, machine>>
  BY Zenon DEF EditorNext, editorVars, EditRefuse, EditPlan, CloneFiles, EndData, StartMedia,
         RewriteShard, FinishMedia, MediaFails, EditFails, EditMetadata
<1>1. /\ recording' \in Recordings /\ edit' \in Edits /\ machine' \in Machines
      /\ Count' \in Nat
  BY <1>0 DEF MemoryInv, Count
<1>2. ASSUME UNCHANGED work PROVE Affordable(work) => Affordable(work)'
  BY <1>0, <1>2 DEF Affordable, Need, EditBudget
<1>3. CASE UNCHANGED <<work, running>> /\ (editing \in {"request", "refused"}
             <=> editing' \in {"request", "refused"})
  BY <1>1, <1>2, <1>3 DEF MemoryInv
<1>4. CASE EditPlan
  <2>1. work' = EditManifest /\ running' = {} /\ running = {}
    BY <1>4 DEF EditPlan, MemoryInv
  <2>2. Affordable(EditManifest)
    BY PlanIsAffordable
  <2>3. Affordable(work)'
    BY <1>0, <2>1, <2>2 DEF Affordable, Need, EditBudget
  <2> QED BY <1>1, <2>1, <2>3 DEF MemoryInv
<1>5. CASE StartMedia
  <2>1. PICK n \in Foremost(Changed \ (running \cup finished)) :
          running' = running \cup {n}
    BY <1>5 DEF StartMedia
  <2>2. n \in DOMAIN work.media /\ n \notin running
    BY <2>1 DEF Foremost, Changed
  <2>3. /\ work' = work /\ editing = "media" /\ editing' = editing
        /\ Cardinality(running) < work.workers
    BY <1>5 DEF StartMedia
  <2>4. /\ Affordable(work) /\ IsFiniteSet(running)
        /\ running \subseteq DOMAIN work.media
    BY <2>3 DEF MemoryInv
  <2>5. /\ IsFiniteSet(running') /\ Cardinality(running') = Cardinality(running) + 1
        /\ Cardinality(running) \in Nat
    <3>1. Cardinality(running) \in Nat
      BY <2>4, FS_CardinalityType
    <3> QED BY <2>1, <2>2, <2>4, <3>1, FS_AddElement
  <2>6. Cardinality(running') <= work.workers
    <3>1. work.workers \in Int
      BY <2>4 DEF Affordable
    <3> QED BY <2>3, <2>5, <3>1
  <2>7. running' \subseteq DOMAIN work.media
    BY <2>1, <2>2, <2>4
  <2> QED BY <1>1, <1>2, <2>3, <2>4, <2>5, <2>6, <2>7 DEF MemoryInv
<1>6. ASSUME NEW n, running' = running \ {n}, editing = "media",
             UNCHANGED <<work, editing>>
      PROVE  MemoryInv'
  <2>1. IsFiniteSet(running) /\ Affordable(work)
    BY <1>6 DEF MemoryInv
  <2>2. CASE running' = {}
    BY <1>1, <1>2, <1>6, <2>1, <2>2, FS_EmptySet DEF MemoryInv
  <2>3. CASE running' # {}
    <3>1. /\ running' \in SUBSET running /\ running # {}
          /\ running \subseteq DOMAIN work.media
          /\ Cardinality(running) <= work.workers
      BY <1>6, <2>3 DEF MemoryInv
    <3>2. IsFiniteSet(running') /\ Cardinality(running') <= Cardinality(running)
      BY <2>1, <3>1, FS_Subset
    <3>3. Cardinality(running) \in Nat /\ Cardinality(running') \in Nat
          /\ work.workers \in Int
      BY <2>1, <3>2, FS_CardinalityType DEF Affordable
    <3>4. Cardinality(running') <= work.workers
      BY <3>1, <3>2, <3>3
    <3> QED BY <1>1, <1>2, <1>6, <2>1, <3>1, <3>2, <3>4 DEF MemoryInv
  <2> QED BY <2>2, <2>3
<1>7. CASE EditRefuse \/ CloneFiles \/ EndData \/ EditFails \/ EditMetadata
           \/ (\E n \in 1 .. Count : RewriteShard(n)) \/ UNCHANGED editorVars
  BY <1>3, <1>7 DEF EditRefuse, CloneFiles, EndData, EditFails, EditMetadata,
       RewriteShard, editorVars
<1>8. CASE \E n \in 1 .. Count : FinishMedia(n) \/ MediaFails(n)
  BY <1>6, <1>8 DEF FinishMedia, MediaFails
<1> QED
  BY <1>4, <1>5, <1>7, <1>8 DEF EditorNext

(* However many media jobs an edit has, and whatever the machine: encoders *)
(* that work together stay within half of its memory, unless one works     *)
(* alone (_manifest counts the workers, edit_dataset starts them).         *)
THEOREM EncodersFitMemoryThm == EditorSpec => []EncodersFitMemory
<1> QED
  BY MemoryStart, MemoryStep, RunningFit, PTL DEF EditorSpec
-----------------------------------------------------------------------------
(* Files of an edit: what the source keeps in them, and where.             *)

(* A file holds the episodes from lo to before hi.                         *)
Runs(paths, n, lo, hi) ==
  \A i \in 1 .. n :
    /\ lo[i] \in 1 .. i /\ hi[i] \in i + 1 .. n + 1
    /\ \A j \in 1 .. n : paths[j] = paths[i] <=> lo[i] <= j /\ j < hi[i]

(* It holds their pieces one after the other.                              *)
Compact(file, a, b, lens, pieces) ==
  /\ file = [q \in 1 .. Offset(lens, b) - Offset(lens, a) |-> file[q]]
  /\ \A i \in a .. b - 1 : \A f \in 1 .. lens[i] :
       file[Offset(lens, i) - Offset(lens, a) + f] = pieces[i][f]

(* Pieces 1..n are kept in files, file by file in runs, each at its place. *)
Stored(files, paths, at, lens, pieces, n, lo, hi) ==
  /\ Runs(paths, n, lo, hi)
  /\ \A i \in 1 .. n : /\ at[i] = Offset(lens, i) - Offset(lens, lo[i])
                       /\ Compact(files[paths[i]], lo[i], hi[i], lens, pieces)

(* What the grouping of a backend makes of episodes.                       *)
LEMMA ShardsRun ==
  ASSUME NEW n \in Nat, NEW lens, NEW S, NEW contents, Fills(contents, lens, n, S),
         NEW groups, NEW first, Cuts(groups, first, n),
         NEW paths, paths = [i \in 1 .. n |-> Place(GroupOf(groups, i) - 1)]
  PROVE  LET lo == [i \in 1 .. n |-> first[GroupOf(groups, i)]]
             hi == [i \in 1 .. n |-> first[GroupOf(groups, i) + 1]]
         IN  /\ Runs(paths, n, lo, hi)
             /\ \A i \in 1 .. n :
                  Compact(Shards(groups, contents)[paths[i]], lo[i], hi[i], lens, contents)
<1> DEFINE own == [i \in 1 .. n |-> GroupOf(groups, i)]
           m == Len(groups)
           lo == [i \in 1 .. n |-> first[GroupOf(groups, i)]]
           hi == [i \in 1 .. n |-> first[GroupOf(groups, i) + 1]]
<1>1. m \in Nat /\ \A g \in 1 .. m + 1 : first[g] \in Nat \ {0}
  BY FirstGrows
<1>2. \A i \in 1 .. n : /\ own[i] \in 1 .. m
                        /\ lo[i] = first[own[i]] /\ hi[i] = first[own[i] + 1]
                        /\ lo[i] <= i /\ i < hi[i]
                        /\ \A g \in 1 .. m : first[g] <= i /\ i < first[g + 1] => g = own[i]
  BY GroupOfEpisode
<1>3. \A i \in 1 .. n : own[i] \in Nat \ {0} /\ paths[i] = Place(own[i] - 1)
  BY <1>1, <1>2
<1>4. \A i, j \in 1 .. n : paths[i] = paths[j] <=> own[i] = own[j]
  <2> TAKE i, j \in 1 .. n
  <2>1. own[i] - 1 \in Nat /\ own[j] - 1 \in Nat
    BY <1>3
  <2>2. Place(own[i] - 1) = Place(own[j] - 1) => own[i] - 1 = own[j] - 1
    BY <2>1, PlacesDiffer
  <2> QED BY <1>3, <2>2
<1>5. first[m + 1] = n + 1
  BY DEF Cuts, m
<1>6. \A g, h \in 1 .. m + 1 : g < h => first[g] < first[h]
  BY FirstGrows
<1> HIDE DEF own, m, lo, hi
<1>7. Runs(paths, n, lo, hi)
  <2> SUFFICES ASSUME NEW i \in 1 .. n
               PROVE  /\ lo[i] \in 1 .. i /\ hi[i] \in i + 1 .. n + 1
                      /\ \A j \in 1 .. n : paths[j] = paths[i] <=> lo[i] <= j /\ j < hi[i]
    BY DEF Runs
  <2>1. own[i] \in 1 .. m /\ own[i] + 1 \in 1 .. m + 1 /\ own[i] \in 1 .. m + 1
    BY <1>1, <1>2
  <2>2. lo[i] \in Nat \ {0} /\ hi[i] \in Nat
    BY <1>1, <1>2, <2>1
  <2>3. hi[i] <= n + 1
    <3>1. CASE own[i] + 1 = m + 1
      BY <1>2, <1>5, <2>2, <3>1
    <3>2. CASE own[i] + 1 # m + 1
      <4>1. own[i] + 1 < m + 1 /\ m + 1 \in 1 .. m + 1
        BY <1>1, <2>1, <3>2
      <4>2. first[own[i] + 1] < first[m + 1]
        BY <1>6, <2>1, <4>1
      <4> QED BY <1>2, <1>5, <2>2, <4>2
    <3> QED BY <3>1, <3>2
  <2>4. lo[i] <= i /\ i < hi[i]
    BY <1>2
  <2>5. ASSUME NEW j \in 1 .. n PROVE paths[j] = paths[i] <=> lo[i] <= j /\ j < hi[i]
    <3>1. own[j] = own[i] => lo[i] <= j /\ j < hi[i]
      <4>1. lo[j] <= j /\ j < hi[j]
        BY <1>2
      <4>2. own[j] = own[i] => lo[j] = lo[i] /\ hi[j] = hi[i]
        BY <1>2
      <4> QED BY <4>1, <4>2
    <3>2. lo[i] <= j /\ j < hi[i] => own[j] = own[i]
      <4>1. lo[i] = first[own[i]] /\ hi[i] = first[own[i] + 1]
        BY <1>2
      <4> QED BY <1>2, <2>1, <4>1
    <3> QED BY <1>4, <3>1, <3>2
  <2> QED BY <2>2, <2>3, <2>4, <2>5
<1>8. ASSUME NEW i \in 1 .. n
      PROVE  Compact(Shards(groups, contents)[paths[i]], lo[i], hi[i], lens, contents)
  <2> DEFINE file == Shards(groups, contents)[Place(own[i] - 1)]
             l == Offset(lens, hi[i]) - Offset(lens, lo[i])
  <2>1. own[i] \in 1 .. Len(groups)
    BY <1>2 DEF m
  <2>2. /\ file \in Seq(S)
        /\ Len(file) = Offset(lens, first[own[i] + 1]) - Offset(lens, first[own[i]])
        /\ \A k \in first[own[i]] .. first[own[i] + 1] - 1 : \A j \in 1 .. lens[k] :
             file[Offset(lens, k) - Offset(lens, first[own[i]]) + j] = contents[k][j]
    BY <2>1, ShardContents
  <2> HIDE DEF file
  <2>3. file = [q \in 1 .. Len(file) |-> file[q]]
    BY <2>2, LenProperties
  <2>4. Compact(file, first[own[i]], first[own[i] + 1], lens, contents)
    BY <2>2, <2>3 DEF Compact
  <2> QED BY <1>2, <1>3, <2>4 DEF file
<1> QED
  BY <1>7, <1>8 DEF lo, hi

(* In the v2.1 layout a run is one episode.                                *)
Alone(version, n, lo, hi) ==
  version = "v2.1" => \A i \in 1 .. n : lo[i] = i /\ hi[i] = i + 1

(* Where the packets of an episode begin in its file.                      *)
PacketStart(files, i) == IF files.version = "v2.1" THEN 0 ELSE files.meta[i].start

(* A written dataset, and where its episodes are.                          *)
RowsStored(files, n, lens, rows, lo, hi) ==
  /\ Stored(files.data, [i \in 1 .. n |-> DataFile(files, i)],
            [i \in 1 .. n |-> DataStart(files, i)], lens, rows, n, lo, hi)
  /\ Alone(files.version, n, lo, hi)

(* The packets of a directory are kept in runs.                            *)
PacketsStored(files, n, lens, packets, lo, hi) ==
  /\ Stored(files.video, [i \in 1 .. n |-> VideoFile(files, i)],
            [i \in 1 .. n |-> PacketStart(files, i)], lens, packets, n, lo, hi)
  /\ Alone(files.version, n, lo, hi)

(* A directory written in the v3.0 layout keeps rows and packets so.       *)
LEMMA ShardsAreStored ==
  ASSUME NEW n \in Nat, NEW view, NEW R, NEW P, IsView(view, R, P),
         Len(view.episodes) = n
  PROVE  LET w == WriteV30(view)
         IN  /\ \E lo, hi : RowsStored(w, n, Lens(view), Rows(view), lo, hi)
             /\ \E lo, hi : PacketsStored(w, n, Lens(view), Packets(view), lo, hi)
<1> DEFINE lens == Lens(view)
           rows == Rows(view)
           packets == Packets(view)
           dataGroups == Groups(lens, DataLimit)
           videoGroups == Groups(lens, VideoLimit)
           Elapsed(i) == SumFunctionOnSet(lens,
             {j \in ToSet(videoGroups[GroupOf(videoGroups, i)]) : j < i})
           w == WriteV30(view)
<1>2. /\ DOMAIN lens = 1 .. n /\ lens \in [1 .. n -> Nat]
      /\ Fills(rows, lens, n, R) /\ Fills(packets, lens, n, P)
  BY ViewFills
<1>4. /\ w.version = "v3.0"
      /\ w.meta = [i \in DOMAIN lens |->
           [data |-> Place(GroupOf(dataGroups, i) - 1),
            from |-> Offset(lens, i), length |-> lens[i],
            video |-> Place(GroupOf(videoGroups, i) - 1),
            start |-> Elapsed(i), end |-> Elapsed(i) + lens[i],
            stats |-> view.episodes[i].stats]]
      /\ w.data = Shards(dataGroups, rows)
      /\ w.video = Shards(videoGroups, packets)
  BY DEF WriteV30, Rows, Packets
<1> HIDE DEF rows, packets, lens, w, Elapsed, dataGroups, videoGroups
<1>5. DOMAIN w.meta = 1 .. n
      /\ \A i \in 1 .. n :
           /\ w.meta[i].data = Place(GroupOf(dataGroups, i) - 1)
           /\ w.meta[i].from = Offset(lens, i)
           /\ w.meta[i].video = Place(GroupOf(videoGroups, i) - 1)
           /\ w.meta[i].start = Elapsed(i)
  BY <1>2, <1>4
<1>6. \A lo, hi : Alone(w.version, n, lo, hi)
  BY <1>4 DEF Alone
<1>10. PICK first : Cuts(dataGroups, first, n)
  BY <1>2, GroupsShape, DatasetAssumption DEF dataGroups, DatasetAssumption
<1>11. PICK vfirst : Cuts(videoGroups, vfirst, n)
  BY <1>2, GroupsShape, DatasetAssumption DEF videoGroups, DatasetAssumption
<1>12. \E lo, hi : RowsStored(w, n, lens, rows, lo, hi)
  <2> DEFINE paths == [i \in 1 .. n |-> Place(GroupOf(dataGroups, i) - 1)]
             lo == [i \in 1 .. n |-> first[GroupOf(dataGroups, i)]]
             hi == [i \in 1 .. n |-> first[GroupOf(dataGroups, i) + 1]]
             at == [i \in 1 .. n |-> DataStart(w, i)]
  <2>1. /\ Runs(paths, n, lo, hi)
        /\ \A i \in 1 .. n :
             Compact(Shards(dataGroups, rows)[paths[i]], lo[i], hi[i], lens, rows)
    BY <1>2, <1>10, ShardsRun
  <2>2. paths = [i \in 1 .. n |-> DataFile(w, i)]
    BY <1>4, <1>5 DEF DataFile
  <2>3. \A i \in 1 .. n : paths[i] = w.meta[i].data
    BY <1>5
  <2> HIDE DEF paths, lo, hi
  <2>4. ASSUME NEW i \in 1 .. n PROVE at[i] = Offset(lens, i) - Offset(lens, lo[i])
    <3>1. /\ lo[i] \in 1 .. i /\ hi[i] \in i + 1 .. n + 1
          /\ \A j \in 1 .. n : paths[j] = paths[i] <=> lo[i] <= j /\ j < hi[i]
      BY <2>1 DEF Runs
    <3>2. lo[i] \in 1 .. n /\ lo[i] < hi[i]
      BY <3>1
    <3>3. LeadsFile(w.meta, i, lo[i])
      <4>1. w.meta[lo[i]].data = w.meta[i].data
        BY <2>3, <3>1, <3>2
      <4>2. ASSUME NEW k \in 1 .. lo[i] - 1 PROVE w.meta[k].data # w.meta[i].data
        <5>1. k \in 1 .. n /\ ~(lo[i] <= k)
          BY <3>2
        <5> QED BY <2>3, <3>1, <5>1
      <4> QED BY <4>1, <4>2 DEF LeadsFile
    <3>4. Base(w.meta, i) = w.meta[lo[i]].from
      BY <1>5, <3>2, <3>3, BaseIs
    <3> QED BY <1>4, <1>5, <3>2, <3>4 DEF DataStart
  <2>5. Stored(w.data, paths, at, lens, rows, n, lo, hi)
    <3> HIDE DEF at
    <3> QED BY <1>4, <2>1, <2>4 DEF Stored
  <2> QED BY <1>6, <2>2, <2>5 DEF RowsStored
<1>13. \E lo, hi : PacketsStored(w, n, lens, packets, lo, hi)
  <2> DEFINE paths == [i \in 1 .. n |-> Place(GroupOf(videoGroups, i) - 1)]
             lo == [i \in 1 .. n |-> vfirst[GroupOf(videoGroups, i)]]
             hi == [i \in 1 .. n |-> vfirst[GroupOf(videoGroups, i) + 1]]
             at == [i \in 1 .. n |-> PacketStart(w, i)]
  <2>1. /\ Runs(paths, n, lo, hi)
        /\ \A i \in 1 .. n :
             Compact(Shards(videoGroups, packets)[paths[i]], lo[i], hi[i], lens, packets)
    BY <1>2, <1>11, ShardsRun
  <2>2. paths = [i \in 1 .. n |-> VideoFile(w, i)]
    BY <1>4, <1>5 DEF VideoFile
  <2>3. ASSUME NEW i \in 1 .. n PROVE at[i] = Offset(lens, i) - Offset(lens, lo[i])
    <3> DEFINE g == GroupOf(videoGroups, i)
               a == vfirst[g]
    <3>1. /\ a \in 1 .. i
          /\ ToSet(videoGroups[g]) = a .. vfirst[g + 1] - 1 /\ i < vfirst[g + 1]
      BY <1>2, <1>11, ShardOfEpisode
    <3>2. vfirst[g + 1] \in Nat
      <4>1. g \in 1 .. Len(videoGroups)
        BY <1>11, GroupOfEpisode
      <4>2. /\ Len(videoGroups) \in Nat
            /\ \A h \in 1 .. Len(videoGroups) + 1 : vfirst[h] \in Nat \ {0}
        BY <1>11, FirstGrows
      <4>3. g + 1 \in 1 .. Len(videoGroups) + 1
        BY <4>1, <4>2
      <4> QED BY <4>2, <4>3
    <3>3. lo[i] = a
      OBVIOUS
    <3> HIDE DEF a, lo
    <3>4. {j \in ToSet(videoGroups[g]) : j < i} = a .. i - 1
      BY <3>1, <3>2
    <3>5. a \in 1 .. n + 1 /\ i \in 1 .. n + 1 /\ a <= i
      BY <3>1
    <3>6. SumFunctionOnSet(lens, a .. i - 1) = Offset(lens, i) - Offset(lens, a)
      BY <1>2, <3>5, OffsetProperties
    <3>7. Elapsed(i) = Offset(lens, i) - Offset(lens, a)
      BY <3>4, <3>6 DEF Elapsed, g
    <3> QED BY <1>4, <1>5, <3>3, <3>7 DEF PacketStart
  <2> HIDE DEF paths, lo, hi, at
  <2>5. Stored(w.video, paths, at, lens, packets, n, lo, hi)
    BY <1>4, <2>1, <2>3 DEF Stored
  <2>6. PacketsStored(w, n, lens, packets, lo, hi)
    BY <1>6, <2>2, <2>5 DEF PacketsStored, at
  <2> QED BY <2>6
<1> QED
  BY <1>12, <1>13 DEF w, lens, rows, packets

(* With a file of its own for every episode, each file is a run of one.    *)
LEMMA SingleRuns ==
  ASSUME NEW n \in Nat, NEW lens \in [1 .. n -> Nat], NEW pieces, NEW files,
         NEW paths, NEW at,
         \A i \in 1 .. n : /\ paths[i] = EpisodeFile(i - 1) /\ at[i] = 0
                           /\ files[paths[i]] = [f \in 1 .. lens[i] |-> pieces[i][f]]
  PROVE  \E lo, hi : Stored(files, paths, at, lens, pieces, n, lo, hi)
                     /\ Alone("v2.1", n, lo, hi)
<1> DEFINE lo == [i \in 1 .. n |-> i]
           hi == [i \in 1 .. n |-> i + 1]
<1>1. \A i, j \in 1 .. n : paths[i] = paths[j] => i = j
  <2> TAKE i, j \in 1 .. n
  <2>1. EpisodeFile(i - 1)[2] = i - 1 /\ EpisodeFile(j - 1)[2] = j - 1
    BY DEF EpisodeFile
  <2>2. paths[i] = EpisodeFile(i - 1) /\ paths[j] = EpisodeFile(j - 1)
    OBVIOUS
  <2>3. paths[i] = paths[j] => i - 1 = j - 1
    BY <2>1, <2>2, Zenon
  <2> QED BY <2>3
<1>2. Runs(paths, n, lo, hi)
  BY <1>1 DEF Runs
<1>3. Alone("v2.1", n, lo, hi)
  BY DEF Alone
<1>4. ASSUME NEW i \in 1 .. n
      PROVE  /\ at[i] = Offset(lens, i) - Offset(lens, lo[i])
             /\ Compact(files[paths[i]], lo[i], hi[i], lens, pieces)
  <2>1. lo[i] = i /\ hi[i] = i + 1 /\ lens[i] \in Nat
    OBVIOUS
  <2> HIDE DEF lo, hi
  <2>2. Offset(lens, i) \in Nat /\ Offset(lens, i + 1) = Offset(lens, i) + lens[i]
    <3>1. i \in 1 .. n + 1
      OBVIOUS
    <3> QED BY <3>1, OffsetProperties
  <2>3. Offset(lens, i + 1) - Offset(lens, i) = lens[i] /\ i .. i + 1 - 1 = {i}
        /\ Offset(lens, i) - Offset(lens, i) = 0
    BY <2>1, <2>2
  <2> DEFINE file == files[paths[i]]
  <2>4. file = [f \in 1 .. lens[i] |-> file[f]] /\ \A f \in 1 .. lens[i] : file[f] = pieces[i][f]
    OBVIOUS
  <2> HIDE DEF file
  <2>5. \A k \in i .. i + 1 - 1 : \A f \in 1 .. lens[k] :
          file[Offset(lens, k) - Offset(lens, i) + f] = pieces[k][f]
    <3> SUFFICES ASSUME NEW f \in 1 .. lens[i]
                 PROVE  file[Offset(lens, i) - Offset(lens, i) + f] = pieces[i][f]
      BY <2>3
    <3>1. 0 + f = f
      BY <2>1
    <3> QED BY <2>3, <2>4, <3>1
  <2>6. Compact(file, i, i + 1, lens, pieces)
    BY <2>3, <2>4, <2>5 DEF Compact
  <2> QED BY <2>1, <2>3, <2>6 DEF file
<1> HIDE DEF lo, hi
<1>5. Stored(files, paths, at, lens, pieces, n, lo, hi)
  BY <1>2, <1>4 DEF Stored
<1> QED
  BY <1>3, <1>5

(* A directory written in the v2.1 layout keeps rows and packets so.       *)
LEMMA FilesAreStored ==
  ASSUME NEW n \in Nat, NEW view, NEW R, NEW P, IsView(view, R, P),
         Len(view.episodes) = n
  PROVE  LET w == WriteV21(view)
         IN  /\ \E lo, hi : RowsStored(w, n, Lens(view), Rows(view), lo, hi)
             /\ \E lo, hi : PacketsStored(w, n, Lens(view), Packets(view), lo, hi)
<1> DEFINE lens == Lens(view)
           rows == Rows(view)
           packets == Packets(view)
           w == WriteV21(view)
           dataPaths == [i \in 1 .. n |-> DataFile(w, i)]
           dataAt == [i \in 1 .. n |-> DataStart(w, i)]
           videoPaths == [i \in 1 .. n |-> VideoFile(w, i)]
           videoAt == [i \in 1 .. n |-> PacketStart(w, i)]
           files == {EpisodeFile(i - 1) : i \in DOMAIN lens}
           Episode(file) == view.episodes[file[2] + 1]
<1>1. /\ lens \in [1 .. n -> Nat] /\ DOMAIN lens = 1 .. n
      /\ \A i \in 1 .. n : rows[i] = view.episodes[i].rows
                           /\ packets[i] = view.episodes[i].packets
      /\ Fills(rows, lens, n, R) /\ Fills(packets, lens, n, P)
  BY ViewFills
<1>2. /\ w.version = "v2.1"
      /\ w.data = [file \in files |-> Episode(file).rows]
      /\ w.video = [file \in files |-> Episode(file).packets]
  BY DEF WriteV21
<1>3. \A i \in 1 .. n : EpisodeFile(i - 1) \in files
                        /\ Episode(EpisodeFile(i - 1)) = view.episodes[i]
  <2> TAKE i \in 1 .. n
  <2>1. EpisodeFile(i - 1)[2] = i - 1
    BY DEF EpisodeFile
  <2>2. EpisodeFile(i - 1)[2] + 1 = i
    BY <2>1
  <2> QED BY <1>1, <2>2
<1> HIDE DEF lens, rows, packets, w, files, Episode
<1>4. \A i \in 1 .. n : /\ w.data[EpisodeFile(i - 1)] = rows[i]
                        /\ w.video[EpisodeFile(i - 1)] = packets[i]
  <2> TAKE i \in 1 .. n
  <2>1. EpisodeFile(i - 1) \in files /\ Episode(EpisodeFile(i - 1)) = view.episodes[i]
    BY <1>3
  <2>2. /\ w.data[EpisodeFile(i - 1)] = Episode(EpisodeFile(i - 1)).rows
        /\ w.video[EpisodeFile(i - 1)] = Episode(EpisodeFile(i - 1)).packets
    BY <1>2, <2>1
  <2> QED BY <1>1, <2>1, <2>2
<1>5. \A i \in 1 .. n : /\ rows[i] = [f \in 1 .. lens[i] |-> rows[i][f]]
                        /\ packets[i] = [f \in 1 .. lens[i] |-> packets[i][f]]
  <2> TAKE i \in 1 .. n
  <2>1. rows[i] \in Seq(R) /\ Len(rows[i]) = lens[i]
        /\ packets[i] \in Seq(P) /\ Len(packets[i]) = lens[i]
    BY <1>1 DEF Fills
  <2> QED BY <2>1, LenProperties
<1>6. \A i \in 1 .. n : /\ dataPaths[i] = EpisodeFile(i - 1) /\ dataAt[i] = 0
                        /\ videoPaths[i] = EpisodeFile(i - 1) /\ videoAt[i] = 0
  BY <1>2 DEF DataFile, VideoFile, DataStart, PacketStart
<1> HIDE DEF dataPaths, dataAt, videoPaths, videoAt
<1>7. \E lo, hi : Stored(w.data, dataPaths, dataAt, lens, rows, n, lo, hi)
                  /\ Alone("v2.1", n, lo, hi)
  <2> DEFINE held == w.data
  <2>1. \A i \in 1 .. n : /\ dataPaths[i] = EpisodeFile(i - 1) /\ dataAt[i] = 0
                          /\ held[dataPaths[i]] = [f \in 1 .. lens[i] |-> rows[i][f]]
    BY <1>4, <1>5, <1>6
  <2> HIDE DEF held
  <2>2. \E lo, hi : Stored(held, dataPaths, dataAt, lens, rows, n, lo, hi)
                   /\ Alone("v2.1", n, lo, hi)
    BY <1>1, <2>1, SingleRuns
  <2> QED BY <2>2 DEF held
<1>8. \E lo, hi : Stored(w.video, videoPaths, videoAt, lens, packets, n, lo, hi)
                  /\ Alone("v2.1", n, lo, hi)
  <2> DEFINE held == w.video
  <2>1. \A i \in 1 .. n : /\ videoPaths[i] = EpisodeFile(i - 1) /\ videoAt[i] = 0
                          /\ held[videoPaths[i]] = [f \in 1 .. lens[i] |-> packets[i][f]]
    BY <1>4, <1>5, <1>6
  <2> HIDE DEF held
  <2>2. \E lo, hi : Stored(held, videoPaths, videoAt, lens, packets, n, lo, hi)
                   /\ Alone("v2.1", n, lo, hi)
    BY <1>1, <2>1, SingleRuns
  <2> QED BY <2>2 DEF held
<1>9. \E lo, hi : RowsStored(w, n, lens, rows, lo, hi)
  BY <1>2, <1>7 DEF RowsStored, dataPaths, dataAt
<1>10. \E lo, hi : PacketsStored(w, n, lens, packets, lo, hi)
  BY <1>2, <1>8 DEF PacketsStored, videoPaths, videoAt
<1> QED
  BY <1>9, <1>10 DEF w, lens, rows, packets

(* Whatever the layout, what Write lays down is kept so.                   *)
LEMMA WrittenIsStored ==
  ASSUME NEW n \in Nat, NEW view, Presented(view, n), NEW version \in Versions
  PROVE  LET w == Write(version, view)
         IN  /\ w.version = version
             /\ \E lo, hi : RowsStored(w, n, Lens(view), Rows(view), lo, hi)
             /\ \E lo, hi : PacketsStored(w, n, Lens(view), Packets(view), lo, hi)
<1>1. PICK R, P : IsView(view, R, P) /\ Len(view.episodes) = n
  BY PresentedIsView
<1>2. CASE version = "v2.1"
  <2>1. Write(version, view) = WriteV21(view) /\ WriteV21(view).version = version
    BY <1>2 DEF Write, WriteV21
  <2> QED BY <1>1, <2>1, FilesAreStored
<1>3. CASE version = "v3.0"
  <2>1. Write(version, view) = WriteV30(view) /\ WriteV30(view).version = version
    BY <1>3 DEF Write, WriteV30
  <2> QED BY <1>1, <2>1, ShardsAreStored
<1> QED
  BY <1>2, <1>3 DEF Versions

(* The label recorded episode i carries.                                   *)
LabelOf(table, i) == Labels(table)[1 + (i % Cardinality(DOMAIN table))]

(* Row f of recorded episode i.                                            *)
RecordedRow(r, i, f) ==
  [episode |-> i - 1, index |-> Offset(r.lens, i) + f - 1, frame |-> f - 1,
   task |-> LabelOf(r.tasks, i), payload |-> <<i, f>>]

(* Packet f of recorded episode i.                                         *)
RecordedPacket(r, i, f) ==
  [frame |-> <<i, f>>, after |-> Predecessor(r, i, f), coded |-> "source"]

(* All rows, by episode.                                                   *)
RecordedRows(r) ==
  [i \in DOMAIN r.lens |-> [f \in 1 .. r.lens[i] |-> RecordedRow(r, i, f)]]

(* All packets, by episode.                                                *)
RecordedPackets(r) ==
  [i \in DOMAIN r.lens |-> [f \in 1 .. r.lens[i] |-> RecordedPacket(r, i, f)]]

(* The facts of a recording the later steps use.                           *)
LEMMA RecordingIs ==
  ASSUME NEW r \in Recordings
  PROVE  /\ Len(r.lens) \in Nat \ {0} /\ DOMAIN r.lens = 1 .. Len(r.lens)
         /\ r.lens \in [1 .. Len(r.lens) -> Nat \ {0}]
         /\ r.version \in Versions /\ IsTable(r.tasks)
         /\ \A i \in 1 .. Len(r.lens) : LabelOf(r.tasks, i) \in DOMAIN r.tasks
<1>1. r.lens \in Seq(Nat \ {0}) /\ Len(r.lens) \in Nat \ {0}
  BY EditTypes
<1>2. r.version \in Versions /\ IsTable(r.tasks)
  BY EditorAssumption DEF EditorAssumption, Versions
<1>3. DOMAIN r.lens = 1 .. Len(r.lens) /\ r.lens \in [1 .. Len(r.lens) -> Nat \ {0}]
  BY <1>1, LenProperties
<1> DEFINE c == Cardinality(DOMAIN r.tasks)
<1>4. DOMAIN r.tasks \in SUBSET Nat /\ IsFiniteSet(DOMAIN r.tasks) /\ DOMAIN r.tasks # {}
  BY <1>2 DEF IsTable
<1>5. c \in Nat \ {0}
  BY <1>4, FS_CardinalityType, FS_EmptySet
<1>6. Labels(r.tasks) \in [1 .. c -> DOMAIN r.tasks]
  BY <1>4, AscendingType DEF Labels
<1> HIDE DEF c
<1>7. \A i \in 1 .. Len(r.lens) : LabelOf(r.tasks, i) \in DOMAIN r.tasks
  <2> TAKE i \in 1 .. Len(r.lens)
  <2>1. i % c \in 0 .. c - 1
    BY <1>5
  <2>2. 1 + (i % c) \in 1 .. c
    BY <1>5, <2>1
  <2> QED BY <1>6, <2>2 DEF LabelOf, c
<1> QED
  BY <1>1, <1>2, <1>3, <1>7

(* The view a source is written from.                                      *)
LEMMA RecordedViewIs ==
  ASSUME NEW r \in Recordings
  PROVE  LET view == RecordedView(r)
             n == Len(r.lens)
         IN  /\ Presented(view, n) /\ Lens(view) = r.lens
             /\ Rows(view) = RecordedRows(r) /\ Packets(view) = RecordedPackets(r)
             /\ view.tasks = r.tasks /\ view.splits = r.splits
             /\ \A i \in 1 .. n : view.episodes[i].stats =
                  [index |-> Offset(r.lens, i), episode |-> i - 1,
                   task |-> LabelOf(r.tasks, i), video |-> "source"]
<1> DEFINE n == Len(r.lens)
           lens == r.lens
           plain == Recorded(r.lens, r.tasks, r.splits)
           view == RecordedView(r)
           Shown(i) ==
             [rows |-> plain.episodes[i].rows,
              packets |-> [f \in DOMAIN plain.episodes[i].packets |->
                [frame |-> <<i, f>>, after |-> Predecessor(r, i, f),
                 coded |-> "source"]],
              stats |-> [index |-> plain.episodes[i].rows[1].index, episode |-> i - 1,
                         task |-> plain.episodes[i].rows[1].task, video |-> "source"]]
<1>1. /\ n \in Nat \ {0} /\ DOMAIN lens = 1 .. n /\ lens \in [1 .. n -> Nat \ {0}]
      /\ \A i \in 1 .. n : Offset(lens, i) \in Nat
  <2>1. n \in Nat \ {0} /\ DOMAIN lens = 1 .. n /\ lens \in [1 .. n -> Nat \ {0}]
    BY RecordingIs
  <2>2. n \in Nat /\ lens \in [1 .. n -> Nat]
    BY <2>1
  <2> HIDE DEF n, lens
  <2>3. \A i \in 1 .. n + 1 : Offset(lens, i) \in Nat
    BY <2>2, OffsetProperties
  <2> QED BY <2>1, <2>3
<1>2. plain = [tasks |-> r.tasks, splits |-> r.splits, episodes |-> plain.episodes]
      /\ plain.tasks = r.tasks /\ plain.splits = r.splits
      /\ plain.episodes = [i \in 1 .. n |-> RecordedEpisode(i, lens, LabelOf(r.tasks, i))]
  BY <1>1 DEF Recorded, LabelOf
<1>3. ASSUME NEW i \in 1 .. n
      PROVE  /\ plain.episodes[i].rows = [f \in 1 .. lens[i] |-> RecordedRow(r, i, f)]
             /\ DOMAIN plain.episodes[i].packets = 1 .. lens[i]
  <2>1. plain.episodes[i] = RecordedEpisode(i, lens, LabelOf(r.tasks, i))
    BY <1>2
  <2> HIDE DEF plain
  <2> QED BY <2>1 DEF RecordedEpisode, RecordedRow
<1>4. /\ view.tasks = r.tasks /\ view.splits = r.splits
      /\ view = [tasks |-> r.tasks, splits |-> r.splits, episodes |-> view.episodes]
      /\ view.episodes = [i \in 1 .. n |-> Shown(i)]
  <2>1. view = [plain EXCEPT !.episodes = [i \in DOMAIN plain.episodes |-> Shown(i)]]
    BY Zenon DEF RecordedView
  <2>2. DOMAIN plain.episodes = 1 .. n
    BY <1>2
  <2> HIDE DEF plain, view, Shown
  <2> QED BY <1>2, <2>1, <2>2
<1> HIDE DEF plain, view, n
<1>5. ASSUME NEW i \in 1 .. n
      PROVE  /\ view.episodes[i].rows = [f \in 1 .. lens[i] |-> RecordedRow(r, i, f)]
             /\ view.episodes[i].packets = [f \in 1 .. lens[i] |-> RecordedPacket(r, i, f)]
             /\ view.episodes[i] = [rows |-> view.episodes[i].rows,
                                    packets |-> view.episodes[i].packets,
                                    stats |-> view.episodes[i].stats]
             /\ view.episodes[i].stats =
                  [index |-> Offset(lens, i), episode |-> i - 1,
                   task |-> LabelOf(r.tasks, i), video |-> "source"]
  <2>1. view.episodes[i] = Shown(i)
    BY <1>4
  <2>2. 1 \in 1 .. lens[i]
    BY <1>1
  <2>3. plain.episodes[i].rows[1] = RecordedRow(r, i, 1)
    BY <1>3, <2>2
  <2>4. /\ plain.episodes[i].rows[1].index = Offset(lens, i)
        /\ plain.episodes[i].rows[1].task = LabelOf(r.tasks, i)
    <3>1. Offset(lens, i) + 1 - 1 = Offset(lens, i)
      BY <1>1
    <3> QED BY <2>3, <3>1 DEF RecordedRow
  <2>5. view.episodes[i] =
          [rows |-> [f \in 1 .. lens[i] |-> RecordedRow(r, i, f)],
           packets |-> [f \in 1 .. lens[i] |-> RecordedPacket(r, i, f)],
           stats |-> [index |-> Offset(lens, i), episode |-> i - 1,
                      task |-> LabelOf(r.tasks, i), video |-> "source"]]
    BY <1>3, <2>1, <2>4 DEF RecordedPacket
  <2> QED BY <2>5
<1> HIDE DEF Shown
<1>6. DOMAIN view.episodes = 1 .. n
  BY <1>4
<1>7. Lens(view) = lens
  <2>1. \A i \in 1 .. n : Len(view.episodes[i].rows) = lens[i]
    <3> TAKE i \in 1 .. n
    <3> DEFINE s == view.episodes[i].rows
    <3>1. s = [f \in 1 .. lens[i] |-> s[f]] /\ lens[i] \in Nat
      BY <1>1, <1>5
    <3> HIDE DEF s
    <3>2. Len(s) = lens[i]
      BY <3>1, LenOfFunction
    <3> QED BY <3>2 DEF s
  <2>2. Lens(view) = [i \in 1 .. n |-> Len(view.episodes[i].rows)]
    BY <1>6 DEF Lens
  <2> QED BY <1>1, <2>1, <2>2
<1>8. Rows(view) = RecordedRows(r) /\ Packets(view) = RecordedPackets(r)
  <2>1. DOMAIN Lens(view) = 1 .. n
    BY <1>1, <1>7
  <2> QED BY <1>1, <1>5, <2>1 DEF Rows, Packets, RecordedRows, RecordedPackets
<1>9. ASSUME NEW i \in 1 .. n PROVE \E l \in Nat \ {0} : Framed(view.episodes[i], i, l)
  <2> DEFINE e == view.episodes[i]
  <2>1. \A f \in 1 .. lens[i] : IsRow(e.rows[f]) /\ e.rows[f].episode = i - 1
    <3> TAKE f \in 1 .. lens[i]
    <3>1. e.rows[f] = RecordedRow(r, i, f)
      BY <1>5
    <3> HIDE DEF e
    <3> QED BY <3>1 DEF IsRow, RecordedRow
  <2>2. /\ e.rows = [f \in 1 .. lens[i] |-> e.rows[f]]
        /\ e.packets = [f \in 1 .. lens[i] |-> e.packets[f]]
    BY <1>5
  <2>3. e = [rows |-> e.rows, packets |-> e.packets, stats |-> e.stats]
    BY <1>5
  <2>4. lens[i] \in Nat \ {0}
    BY <1>1
  <2> HIDE DEF e
  <2>5. Framed(e, i, lens[i])
    BY <2>1, <2>2, <2>3, Zenon DEF Framed
  <2> QED BY <2>4, <2>5 DEF e
<1>10. Presented(view, n)
  <2>1. view.episodes = [i \in 1 .. n |-> view.episodes[i]]
    BY <1>4
  <2>2. view = [tasks |-> view.tasks, splits |-> view.splits, episodes |-> view.episodes]
    BY <1>4
  <2> QED BY <1>9, <2>1, <2>2, Zenon DEF Presented
<1>11. \A i \in 1 .. n : view.episodes[i].stats =
         [index |-> Offset(lens, i), episode |-> i - 1,
          task |-> LabelOf(r.tasks, i), video |-> "source"]
  BY <1>5
<1> QED
  BY <1>4, <1>7, <1>8, <1>10, <1>11 DEF view, n

(* What is known of a source.                                              *)
SourceMeta(d, r) ==
  LET n == Len(r.lens)
  IN  /\ d.version = r.version /\ d.tasks = r.tasks /\ d.splits = r.splits
      /\ DOMAIN d.meta = 1 .. n /\ Len(d.meta) = n
      /\ \A i \in 1 .. n :
           /\ d.meta[i].length = r.lens[i]
           /\ d.meta[i].stats = [index |-> Offset(r.lens, i), episode |-> i - 1,
                                 task |-> LabelOf(r.tasks, i), video |-> "source"]

(* What the source of an edit holds, file by file.                         *)
LEMMA SourceIs ==
  ASSUME NEW r \in Recordings
  PROVE  LET d == Source(r)
             n == Len(r.lens)
         IN  /\ SourceMeta(d, r)
             /\ \E lo, hi : PacketsStored(d, n, r.lens, RecordedPackets(r), lo, hi)
             /\ r.labelled => \E lo, hi : RowsStored(d, n, r.lens, RecordedRows(r), lo, hi)
<1> DEFINE n == Len(r.lens)
           view == RecordedView(r)
           w == Write(r.version, view)
           d == Source(r)
<1>1. /\ n \in Nat /\ DOMAIN r.lens = 1 .. n /\ r.version \in Versions
  BY RecordingIs
<1>2. /\ Presented(view, n) /\ Lens(view) = r.lens
      /\ Rows(view) = RecordedRows(r) /\ Packets(view) = RecordedPackets(r)
      /\ view.tasks = r.tasks /\ view.splits = r.splits
      /\ \A i \in 1 .. n : view.episodes[i].stats =
           [index |-> Offset(r.lens, i), episode |-> i - 1,
            task |-> LabelOf(r.tasks, i), video |-> "source"]
  BY RecordedViewIs
<1>3. /\ w.version = r.version
      /\ \E lo, hi : RowsStored(w, n, r.lens, RecordedRows(r), lo, hi)
      /\ \E lo, hi : PacketsStored(w, n, r.lens, RecordedPackets(r), lo, hi)
  <2> HIDE DEF view, n
  <2>1. /\ w.version = r.version
        /\ \E lo, hi : RowsStored(w, n, Lens(view), Rows(view), lo, hi)
        /\ \E lo, hi : PacketsStored(w, n, Lens(view), Packets(view), lo, hi)
    BY <1>1, <1>2, WrittenIsStored
  <2> HIDE DEF w
  <2> QED BY <1>2, <2>1
<1>4. SourceMeta(w, r)
  <2> HIDE DEF view
  <2>1. /\ w.tasks = r.tasks /\ w.splits = r.splits /\ DOMAIN w.meta = 1 .. n
        /\ w.meta = [i \in 1 .. n |-> w.meta[i]]
        /\ \A i \in 1 .. n : /\ w.meta[i].length = r.lens[i]
                             /\ w.meta[i].stats = view.episodes[i].stats
    <3>1. CASE r.version = "v2.1"
      BY <1>1, <1>2, <3>1 DEF Write, WriteV21
    <3>2. CASE r.version # "v2.1"
      BY <1>1, <1>2, <3>2 DEF Write, WriteV30
    <3> QED BY <3>1, <3>2
  <2>2. Len(w.meta) = n
    <3> DEFINE m == w.meta
    <3>1. m = [i \in 1 .. n |-> m[i]]
      BY <2>1
    <3> HIDE DEF m
    <3> QED BY <1>1, <3>1, LenOfFunction DEF m
  <2> HIDE DEF w
  <2> QED BY <1>2, <1>3, <2>1, <2>2 DEF SourceMeta
<1>5. /\ d.version = w.version /\ d.tasks = w.tasks /\ d.splits = w.splits
      /\ d.meta = w.meta /\ d.video = w.video /\ (r.labelled => d = w)
  <2>1. CASE r.labelled
    BY <2>1 DEF Source
  <2>2. CASE ~r.labelled
    <3>1. \A x : /\ [w EXCEPT !.data = x].version = w.version
                 /\ [w EXCEPT !.data = x].tasks = w.tasks
                 /\ [w EXCEPT !.data = x].splits = w.splits
                 /\ [w EXCEPT !.data = x].meta = w.meta
                 /\ [w EXCEPT !.data = x].video = w.video
      <4>1. {"version", "tasks", "splits", "meta", "video"} \subseteq DOMAIN w
        BY DEF Write, WriteV21, WriteV30
      <4> HIDE DEF w
      <4> QED BY <4>1
    <3>2. \E x : d = [w EXCEPT !.data = x]
      BY <2>2, Zenon DEF Source
    <3> HIDE DEF w, d
    <3> QED BY <2>2, <3>1, <3>2, Zenon
  <2> QED BY <2>1, <2>2
<1> HIDE DEF w, d, view
<1>6. SourceMeta(d, r)
  BY <1>4, <1>5 DEF SourceMeta
<1>7. \E lo, hi : PacketsStored(d, n, r.lens, RecordedPackets(r), lo, hi)
  <2>1. /\ [i \in 1 .. n |-> VideoFile(d, i)] = [i \in 1 .. n |-> VideoFile(w, i)]
        /\ [i \in 1 .. n |-> PacketStart(d, i)] = [i \in 1 .. n |-> PacketStart(w, i)]
    BY <1>5 DEF VideoFile, PacketStart
  <2>2. \A lo, hi : PacketsStored(w, n, r.lens, RecordedPackets(r), lo, hi)
                      => PacketsStored(d, n, r.lens, RecordedPackets(r), lo, hi)
    BY <1>5, <2>1 DEF PacketsStored
  <2> QED BY <1>3, <2>2
<1>8. r.labelled => \E lo, hi : RowsStored(d, n, r.lens, RecordedRows(r), lo, hi)
  BY <1>3, <1>5
<1> QED
  BY <1>6, <1>7, <1>8 DEF d, n

(* A packet refers to the one before it in its file, or to none.           *)
LEMMA PredecessorIs ==
  ASSUME NEW r \in Recordings, NEW i \in 1 .. Len(r.lens), NEW f \in 1 .. r.lens[i]
  PROVE  \/ Predecessor(r, i, f) = Key
         \/ /\ r.codec # "mjpeg"
            /\ \/ f > 1 /\ Predecessor(r, i, f) = <<i, f - 1>>
               \/ /\ f = 1 /\ i > 1 /\ r.version = "v3.0"
                  /\ VideoFile(Source(r), i) = VideoFile(Source(r), i - 1)
                  /\ Predecessor(r, i, f) = <<i - 1, r.lens[i - 1]>>
<1> DEFINE n == Len(r.lens)
           lens == r.lens
           groups == Groups(r.lens, VideoLimit)
           g == GroupOf(groups, i)
           opens == \/ r.version = "v2.1" \/ r.aligned \/ groups[g][1] = i
<1>1. /\ n \in Nat /\ DOMAIN lens = 1 .. n /\ lens \in [1 .. n -> Nat \ {0}]
      /\ r.version \in Versions /\ lens \in [1 .. n -> Nat]
  BY RecordingIs
<1>2. Predecessor(r, i, f) =
        IF r.codec = "mjpeg" \/ (f = 1 /\ opens) THEN Key
        ELSE IF f = 1 THEN <<i - 1, lens[i - 1]>> ELSE <<i, f - 1>>
  BY DEF Predecessor
<1>3. f = 1 \/ f > 1
  BY <1>1
<1>4. CASE f = 1 /\ ~opens
  <2>1. r.version = "v3.0" /\ groups[g][1] # i
    BY <1>1, <1>4 DEF Versions
  <2> HIDE DEF groups
  <2>2. PICK first : Cuts(groups, first, n)
    <3> HIDE DEF n, lens
    <3>1. Groups(lens, VideoLimit) = groups
      BY DEF lens, groups
    <3>2. VideoLimit \in Nat
      BY DatasetAssumption DEF DatasetAssumption
    <3> QED BY <1>1, <3>1, <3>2, GroupsShape
  <2> HIDE DEF lens, n
  <2>3. /\ g \in 1 .. Len(groups) /\ first[g] <= i /\ i < first[g + 1]
        /\ \A j \in 1 .. n : \A h \in 1 .. Len(groups) :
             first[h] <= j /\ j < first[h + 1] => h = GroupOf(groups, j)
    <3>1. i \in 1 .. n
      BY DEF n
    <3> QED BY <1>1, <2>2, <3>1, GroupOfEpisode
  <2> HIDE DEF g
  <2>4. /\ Len(groups) \in Nat
        /\ \A h \in 1 .. Len(groups) + 1 : first[h] \in Nat \ {0}
    BY <1>1, <2>2, FirstGrows
  <2>5. first[g] \in Nat \ {0} /\ first[g + 1] \in Nat
    <3>1. g \in 1 .. Len(groups) + 1 /\ g + 1 \in 1 .. Len(groups) + 1
      BY <2>3, <2>4
    <3> QED BY <2>4, <3>1
  <2>6. groups[g][1] = first[g]
    <3>1. groups[g] = Span(first[g], first[g + 1])
      BY <2>2, <2>3 DEF Cuts
    <3>2. first[g] < first[g + 1]
      BY <2>3, <2>5
    <3>3. Span(first[g], first[g + 1])[1] = first[g] + 1 - 1
      <4>1. 1 \in 1 .. first[g + 1] - first[g]
        BY <2>5, <3>2
      <4> QED BY <4>1 DEF Span
    <3> QED BY <2>5, <3>1, <3>3
  <2>7. first[g] < i /\ i - 1 \in 1 .. n /\ i - 1 >= first[g] /\ i - 1 < first[g + 1] /\ i > 1
    <3>1. i \in 1 .. n
      BY DEF n
    <3> QED BY <1>1, <2>1, <2>3, <2>5, <2>6, <3>1
  <2>8. GroupOf(groups, i - 1) = g
    BY <2>3, <2>7
  <2>9. VideoFile(Source(r), i) = VideoFile(Source(r), i - 1)
    <3> DEFINE w == Write(r.version, RecordedView(r))
    <3>1. w.version = "v3.0"
          /\ \A j \in 1 .. n : w.meta[j].video = Place(GroupOf(groups, j) - 1)
      <4>1. w = WriteV30(RecordedView(r))
        BY <2>1 DEF Write
      <4>2. Lens(RecordedView(r)) = r.lens
        BY RecordedViewIs
      <4>3. DOMAIN r.lens = 1 .. n
        BY <1>1 DEF lens
      <4> HIDE DEF w
      <4> QED BY <4>1, <4>2, <4>3 DEF WriteV30, groups
    <3>2. Source(r).version = w.version /\ Source(r).meta = w.meta
      <4>1. CASE r.labelled
        BY <4>1 DEF Source
      <4>2. CASE ~r.labelled
        <5>1. {"version", "meta"} \subseteq DOMAIN w
          BY DEF Write, WriteV21, WriteV30
        <5>2. \E x : Source(r) = [w EXCEPT !.data = x]
          BY <4>2, Zenon DEF Source
        <5> HIDE DEF w
        <5> QED BY <5>1, <5>2
      <4> QED BY <4>1, <4>2
    <3> HIDE DEF w
    <3>3. i \in 1 .. n
      BY DEF n
    <3> QED BY <2>7, <2>8, <3>1, <3>2, <3>3 DEF VideoFile, g
  <2>10. f = 1 /\ r.codec = "mjpeg" => Predecessor(r, i, f) = Key
    BY <1>2
  <2> QED BY <1>2, <1>4, <2>1, <2>7, <2>9, <2>10 DEF lens
<1>5. CASE ~(f = 1 /\ ~opens)
  <2> HIDE DEF opens
  <2> QED BY <1>2, <1>3, <1>5
<1> QED BY <1>4, <1>5

-----------------------------------------------------------------------------
(* Jobs: the retained episodes divided by the files they lie in.           *)

(* Numbers in their order grow.                                            *)
LEMMA AscendingGrows ==
  ASSUME NEW S \in SUBSET Nat, IsFiniteSet(S),
         NEW k \in 1 .. Cardinality(S), NEW l \in 1 .. Cardinality(S), k < l
  PROVE  Ascending(S)[k] < Ascending(S)[l]
<1> DEFINE asc == Ascending(S)
           UpTo(n) == {m \in S : m <= n}
<1>1. Cardinality(S) \in Nat /\ asc \in [1 .. Cardinality(S) -> S]
  BY AscendingType
<1>2. \A n \in S : Cardinality(UpTo(n)) \in 1 .. Cardinality(S)
                   /\ asc[Cardinality(UpTo(n))] = n
  BY AscendingRank
<1>3. \A i, j \in 1 .. Cardinality(S) : asc[i] = asc[j] => i = j
  BY AscendingRank
<1> HIDE DEF asc
<1>4. asc[k] \in S /\ asc[l] \in S /\ asc[k] \in Nat /\ asc[l] \in Nat
  BY <1>1
<1>5. Cardinality(UpTo(asc[k])) = k /\ Cardinality(UpTo(asc[l])) = l
  BY <1>2, <1>3, <1>4
<1>6. asc[k] # asc[l]
  BY <1>1, <1>3
<1>7. CASE asc[l] < asc[k]
  <2>1. UpTo(asc[l]) \in SUBSET UpTo(asc[k])
    <3>1. ASSUME NEW m \in UpTo(asc[l]) PROVE m \in UpTo(asc[k])
      <4>1. m \in Nat /\ m \in S /\ m <= asc[l]
        OBVIOUS
      <4>2. m <= asc[k]
        BY <1>4, <1>7, <4>1
      <4> QED BY <4>1, <4>2
    <3> HIDE DEF UpTo
    <3> QED BY <3>1
  <2>2. UpTo(asc[k]) \in SUBSET S
    OBVIOUS
  <2> HIDE DEF UpTo
  <2>3. IsFiniteSet(UpTo(asc[k]))
    BY <2>2, FS_Subset
  <2>4. Cardinality(UpTo(asc[l])) <= Cardinality(UpTo(asc[k]))
    BY <2>1, <2>3, FS_Subset
  <2>5. k \in Nat /\ l \in Nat
    BY <1>1
  <2> QED BY <1>5, <2>4, <2>5
<1> QED
  BY <1>4, <1>6, <1>7 DEF asc

Rising(K, m, n) ==
  /\ K \in [1 .. m -> 1 .. n]
  /\ \A j, k \in 1 .. m : j < k => K[j] < K[k]

(* Of a run some episodes are kept: a run again.                           *)
LEMMA KeptRuns ==
  ASSUME NEW n \in Nat, NEW m \in Nat, NEW K, Rising(K, m, n),
         NEW paths, NEW lo, NEW hi, Runs(paths, n, lo, hi)
  PROVE  \E klo, khi : Runs([k \in 1 .. m |-> paths[K[k]]], m, klo, khi)
<1> DEFINE kept == [k \in 1 .. m |-> paths[K[k]]]
           Same(k) == {j \in 1 .. m : kept[j] = kept[k]}
           klo == [k \in 1 .. m |-> Min(Same(k))]
           khi == [k \in 1 .. m |-> Max(Same(k)) + 1]
<1>1. /\ K \in [1 .. m -> 1 .. n]
      /\ \A j, k \in 1 .. m : j < k => K[j] < K[k]
  BY DEF Rising
<1>2. \A i \in 1 .. n :
        /\ lo[i] \in 1 .. i /\ hi[i] \in i + 1 .. n + 1
        /\ \A j \in 1 .. n : paths[j] = paths[i] <=> lo[i] <= j /\ j < hi[i]
  BY DEF Runs
<1>3. ASSUME NEW k \in 1 .. m
      PROVE  /\ klo[k] \in 1 .. k /\ khi[k] \in k + 1 .. m + 1
             /\ \A j \in 1 .. m : kept[j] = kept[k] <=> klo[k] <= j /\ j < khi[k]
  <2> DEFINE a == Min(Same(k))
             b == Max(Same(k))
  <2>1. Same(k) \in SUBSET (1 .. m) /\ k \in Same(k)
    OBVIOUS
  <2>2. \A j \in Same(k) : kept[j] = kept[k]
    OBVIOUS
  <2>3. \A j \in 1 .. m : kept[j] = kept[k] => j \in Same(k)
    OBVIOUS
  <2> HIDE DEF Same
  <2>4. IsFiniteSet(Same(k)) /\ Same(k) \in SUBSET Int /\ Same(k) # {}
    <3>1. 1 \in Int /\ m \in Int
      OBVIOUS
    <3>2. IsFiniteSet(1 .. m)
      BY <3>1, FS_Interval
    <3>3. Same(k) \in SUBSET Int
      BY <2>1
    <3> QED BY <2>1, <3>2, <3>3, FS_Subset
  <2>5. a \in Same(k) /\ \A j \in Same(k) : a <= j
    BY <2>4, FiniteMin
  <2>6. b \in Same(k) /\ \A j \in Same(k) : j <= b
    BY <2>4, FiniteMax
  <2> HIDE DEF a, b
  <2>7. a \in 1 .. m /\ b \in 1 .. m /\ a <= k /\ k <= b
    BY <2>1, <2>5, <2>6
  <2>8. ASSUME NEW j \in 1 .. m, a <= j, j <= b PROVE kept[j] = kept[k]
    <3>1. kept[a] = kept[k] /\ kept[b] = kept[k]
      BY <2>2, <2>5, <2>6
    <3>2. /\ K[a] \in 1 .. n /\ K[b] \in 1 .. n /\ K[j] \in 1 .. n /\ K[k] \in 1 .. n
          /\ paths[K[a]] = paths[K[k]] /\ paths[K[b]] = paths[K[k]]
      BY <1>1, <2>7, <3>1
    <3> DEFINE l == lo[K[k]]
               h == hi[K[k]]
    <3>3. l <= K[a] /\ K[b] < h
      BY <1>2, <3>2
    <3>4. l \in Int /\ h \in Int
      BY <1>2, <3>2
    <3>5. K[a] <= K[j] /\ K[j] <= K[b]
      <4>1. a = j \/ a < j
        BY <2>7, <2>8
      <4>2. j = b \/ j < b
        BY <2>7, <2>8
      <4>3. K[a] <= K[j]
        BY <1>1, <2>7, <3>2, <4>1
      <4>4. K[j] <= K[b]
        BY <1>1, <2>7, <3>2, <4>2
      <4> QED BY <4>3, <4>4
    <3> HIDE DEF l, h
    <3>6. l <= K[j] /\ K[j] < h
      BY <3>2, <3>3, <3>4, <3>5
    <3>7. paths[K[j]] = paths[K[k]]
      BY <1>2, <3>2, <3>6 DEF l, h
    <3> QED BY <3>7
  <2>9. klo[k] = a /\ khi[k] = b + 1
    BY DEF a, b
  <2> HIDE DEF klo, khi, kept
  <2>10. ASSUME NEW j \in 1 .. m PROVE kept[j] = kept[k] <=> klo[k] <= j /\ j < khi[k]
    <3>1. kept[j] = kept[k] => a <= j /\ j <= b
      BY <2>3, <2>5, <2>6
    <3> QED BY <2>7, <2>8, <2>9, <3>1
  <2> QED BY <2>7, <2>9, <2>10
<1> HIDE DEF kept, klo, khi
<1>4. Runs(kept, m, klo, khi)
  BY <1>3, Zenon DEF Runs
<1> QED BY <1>4 DEF kept

(* The members of a run, in order.                                         *)
LEMMA RunIsSpan ==
  ASSUME NEW m \in Nat, NEW kept, NEW klo, NEW khi, Runs(kept, m, klo, khi),
         NEW k \in 1 .. m
  PROVE  Ascending({j \in 1 .. m : kept[j] = kept[k]}) = Span(klo[k], khi[k])
<1>1. /\ klo[k] \in 1 .. k /\ khi[k] \in k + 1 .. m + 1
      /\ \A j \in 1 .. m : kept[j] = kept[k] <=> klo[k] <= j /\ j < khi[k]
  BY DEF Runs
<1> DEFINE a == klo[k]
           b == khi[k] - klo[k]
<1>2. a \in Nat /\ b \in Nat /\ khi[k] = a + b
  BY <1>1
<1>3. {j \in 1 .. m : kept[j] = kept[k]} = a .. a + b - 1
  <2> HIDE DEF b
  <2> QED BY <1>1, <1>2
<1> HIDE DEF a, b
<1>4. Ascending(a .. a + b - 1) = [i \in 1 .. b |-> a + i - 1]
  BY <1>2, AscendingInterval
<1> QED BY <1>3, <1>4 DEF Span, a, b

(* The episodes of a job run from FirstOf to before EndOf.                 *)
FirstOf(job) == job.episodes[1]
EndOf(job) == job.episodes[1] + Len(job.episodes)

(* Jobs take one file each, and write to files of their own.               *)
TakesRun(job, kept, m, version) ==
  LET a == FirstOf(job)
      b == EndOf(job)
  IN  /\ a \in 1 .. m /\ b \in a + 1 .. m + 1 /\ job.episodes = Span(a, b)
      /\ \A k \in 1 .. m : kept[k] = job.source <=> a <= k /\ k < b
      /\ version = "v2.1" => b = a + 1 /\ job.output = EpisodeFile(a - 1)

(* Jobs divide the retained episodes, each the run of one file.            *)
SharedOut(jobs, kept, m, version) ==
  /\ \E c \in Nat : jobs = [x \in 1 .. c |-> jobs[x]]
  /\ \A x \in DOMAIN jobs : TakesRun(jobs[x], kept, m, version)
  /\ \A k \in 1 .. m : \E x \in DOMAIN jobs : jobs[x].source = kept[k]
  /\ \A x, y \in DOMAIN jobs : jobs[x].source = jobs[y].source => x = y
  /\ \A x, y \in DOMAIN jobs : jobs[x].output = jobs[y].output => x = y
  /\ version = "v3.0" => \A x \in DOMAIN jobs : jobs[x].output = Place(x - 1)

(* Jobs made of files, in their order.                                     *)
JobsOn(jobs, files, kept, m, version) ==
  /\ \E c \in Nat : jobs = [x \in 1 .. c |-> jobs[x]]
  /\ DOMAIN jobs = DOMAIN files
  /\ \A x \in DOMAIN jobs :
       /\ jobs[x].source = files[x]
       /\ jobs[x].episodes = Ascending({k \in 1 .. m : kept[k] = files[x]})
       /\ jobs[x].output = IF version = "v2.1" THEN EpisodeFile(Head(jobs[x].episodes) - 1)
                           ELSE Place(x - 1)

(* Where files hold one episode each, so do those that are retained.       *)
LEMMA KeptAlone ==
  ASSUME NEW n \in Nat, NEW m \in Nat, NEW K, Rising(K, m, n),
         NEW paths, NEW lo, NEW hi, Runs(paths, n, lo, hi),
         \A i \in 1 .. n : lo[i] = i /\ hi[i] = i + 1,
         NEW klo, NEW khi, Runs([k \in 1 .. m |-> paths[K[k]]], m, klo, khi),
         NEW k \in 1 .. m
  PROVE  klo[k] = k /\ khi[k] = k + 1
<1> DEFINE kept == [j \in 1 .. m |-> paths[K[j]]]
<1>1. /\ K \in [1 .. m -> 1 .. n]
      /\ \A i, j \in 1 .. m : i < j => K[i] < K[j]
  BY DEF Rising
<1>2. \A i, j \in 1 .. n : paths[j] = paths[i] => j = i
  <2> TAKE i, j \in 1 .. n
  <2>1. paths[j] = paths[i] => i <= j /\ j < i + 1
    BY DEF Runs
  <2> QED BY <2>1
<1>3. /\ klo[k] \in 1 .. k /\ khi[k] \in k + 1 .. m + 1
      /\ \A j \in 1 .. m : kept[j] = kept[k] <=> klo[k] <= j /\ j < khi[k]
  BY DEF Runs
<1>4. ASSUME NEW j \in 1 .. m, kept[j] = kept[k] PROVE j = k
  <2>1. K[j] = K[k]
    BY <1>1, <1>2, <1>4
  <2>2. ~(j < k) /\ ~(k < j)
    <3>1. K[j] \in 1 .. n /\ K[k] \in 1 .. n
      BY <1>1
    <3> QED BY <1>1, <2>1, <3>1
  <2> QED BY <2>2
<1> HIDE DEF kept
<1>5. klo[k] = k
  <2>1. klo[k] \in 1 .. m /\ klo[k] <= klo[k] /\ klo[k] < khi[k]
    BY <1>3
  <2> QED BY <1>3, <1>4, <2>1
<1>6. khi[k] = k + 1
  <2>1. khi[k] - 1 \in 1 .. m /\ klo[k] <= khi[k] - 1 /\ khi[k] - 1 < khi[k]
    BY <1>3
  <2>2. khi[k] - 1 = k
    BY <1>3, <1>4, <2>1
  <2> QED BY <1>3, <2>2
<1> QED
  BY <1>5, <1>6

(* Jobs made of the files in the order of first use divide the episodes.   *)
LEMMA JobsAreShared ==
  ASSUME NEW n \in Nat, NEW m \in Nat, NEW K, Rising(K, m, n),
         NEW paths, NEW lo, NEW hi, Runs(paths, n, lo, hi),
         NEW version \in Versions, Alone(version, n, lo, hi),
         NEW kept, kept = [k \in 1 .. m |-> paths[K[k]]],
         NEW files, Lists(files, kept, m),
         NEW jobs, JobsOn(jobs, files, kept, m, version)
  PROVE  SharedOut(jobs, kept, m, version)
<1>1. PICK klo, khi : Runs(kept, m, klo, khi)
  BY KeptRuns
<1>2. \A k \in 1 .. m :
        /\ klo[k] \in 1 .. k /\ khi[k] \in k + 1 .. m + 1
        /\ \A j \in 1 .. m : kept[j] = kept[k] <=> klo[k] <= j /\ j < khi[k]
  BY <1>1 DEF Runs
<1>3. /\ IsInjective(files)
      /\ \A x \in DOMAIN files : \E k \in 1 .. m : files[x] = kept[k]
      /\ \A k \in 1 .. m : \E x \in DOMAIN files : files[x] = kept[k]
  BY DEF Lists
<1>0. \E c \in Nat : jobs = [x \in 1 .. c |-> jobs[x]]
  BY DEF JobsOn
<1>4. /\ DOMAIN jobs = DOMAIN files
      /\ \A x \in DOMAIN jobs :
           /\ jobs[x].source = files[x]
           /\ jobs[x].episodes = Ascending({k \in 1 .. m : kept[k] = files[x]})
           /\ jobs[x].output = IF version = "v2.1"
                               THEN EpisodeFile(Head(jobs[x].episodes) - 1)
                               ELSE Place(x - 1)
  BY DEF JobsOn
<1>s. DOMAIN jobs = DOMAIN files /\ \A x \in DOMAIN files : jobs[x].source = files[x]
  BY <1>4
<1>5. ASSUME NEW x \in DOMAIN jobs, NEW k \in 1 .. m, files[x] = kept[k]
      PROVE  /\ jobs[x].episodes = Span(klo[k], khi[k])
             /\ FirstOf(jobs[x]) = klo[k] /\ EndOf(jobs[x]) = khi[k]
             /\ Head(jobs[x].episodes) = klo[k]
  <2>1. jobs[x].episodes = Ascending({j \in 1 .. m : kept[j] = kept[k]})
    BY SMTT(40), <1>4, <1>5
  <2>2. jobs[x].episodes = Span(klo[k], khi[k])
    BY <1>1, <2>1, RunIsSpan
  <2> DEFINE a == klo[k]
             b == khi[k]
  <2>3. a \in Nat /\ b \in Nat /\ a < b
    BY <1>2
  <2> HIDE DEF a, b
  <2>4. Len(Span(a, b)) = b - a /\ Span(a, b)[1] = a /\ Head(Span(a, b)) = a
    <3>1. /\ Span(a, b) \in Seq(Nat) /\ Len(Span(a, b)) = b - a
          /\ \A i \in 1 .. b - a : Span(a, b)[i] = a + i - 1
      BY <2>3, SpanProperties
    <3>2. 1 \in 1 .. b - a /\ a + 1 - 1 = a
      BY <2>3
    <3>3. Span(a, b)[1] = a
      BY <3>1, <3>2
    <3>4. Head(Span(a, b)) = Span(a, b)[1]
      <4> DEFINE s == Span(a, b)
      <4>1. s \in Seq(Nat) /\ Len(s) >= 1
        BY <2>3, <3>1
      <4> HIDE DEF s
      <4>2. Head(s) = s[1]
        BY <4>1
      <4> QED BY <4>2 DEF s
    <3> QED BY <3>1, <3>3, <3>4
  <2>5. a + (b - a) = b
    BY <2>3
  <2>6. jobs[x].episodes = Span(a, b)
    BY <2>2 DEF a, b
  <2>7. FirstOf(jobs[x]) = a /\ EndOf(jobs[x]) = b /\ Head(jobs[x].episodes) = a
    BY <2>4, <2>5, <2>6 DEF FirstOf, EndOf
  <2> QED BY <2>2, <2>7 DEF a, b
<1>6. ASSUME NEW x \in DOMAIN jobs PROVE TakesRun(jobs[x], kept, m, version)
  <2>1. PICK k \in 1 .. m : files[x] = kept[k]
    BY <1>3, <1>4
  <2>2. /\ jobs[x].episodes = Span(klo[k], khi[k])
        /\ FirstOf(jobs[x]) = klo[k] /\ EndOf(jobs[x]) = khi[k]
        /\ Head(jobs[x].episodes) = klo[k]
    BY <1>5, <2>1
  <2>3. klo[k] \in 1 .. m /\ khi[k] \in klo[k] + 1 .. m + 1
    BY <1>2
  <2>4. \A j \in 1 .. m : kept[j] = jobs[x].source <=> klo[k] <= j /\ j < khi[k]
    BY <1>2, <1>s, <2>1
  <2>5. version = "v2.1" => khi[k] = klo[k] + 1 /\ jobs[x].output = EpisodeFile(klo[k] - 1)
    <3> SUFFICES ASSUME version = "v2.1"
                 PROVE  khi[k] = klo[k] + 1 /\ jobs[x].output = EpisodeFile(klo[k] - 1)
      OBVIOUS
    <3>1. \A i \in 1 .. n : lo[i] = i /\ hi[i] = i + 1
      BY DEF Alone
    <3>2. klo[k] = k /\ khi[k] = k + 1
      BY <1>1, <3>1, KeptAlone
    <3>3. jobs[x].output = EpisodeFile(Head(jobs[x].episodes) - 1)
      BY <1>4
    <3> QED BY <2>2, <3>2, <3>3
  <2> DEFINE a == FirstOf(jobs[x])
             b == EndOf(jobs[x])
  <2>6. a = klo[k] /\ b = khi[k]
    BY <2>2
  <2>7. a \in 1 .. m /\ b \in a + 1 .. m + 1 /\ jobs[x].episodes = Span(a, b)
    BY <2>2, <2>3
  <2>8. \A j \in 1 .. m : kept[j] = jobs[x].source <=> a <= j /\ j < b
    BY <2>4, <2>6
  <2>9. version = "v2.1" => b = a + 1 /\ jobs[x].output = EpisodeFile(a - 1)
    BY <2>5, <2>6
  <2> QED BY <2>7, <2>8, <2>9, Zenon DEF TakesRun
<1>7. ASSUME NEW k \in 1 .. m
      PROVE  \E x \in DOMAIN jobs : jobs[x].source = kept[k]
  <2>1. PICK x \in DOMAIN files : files[x] = kept[k]
    BY <1>3
  <2>2. x \in DOMAIN jobs /\ jobs[x].source = files[x]
    BY <1>s
  <2> QED
    BY <2>1, <2>2
<1>8. \A x, y \in DOMAIN jobs : jobs[x].source = jobs[y].source => x = y
  BY <1>3, <1>s DEF IsInjective
<1>9. ASSUME NEW x \in DOMAIN jobs, NEW y \in DOMAIN jobs, jobs[x].output = jobs[y].output
      PROVE  x = y
  <2>1. CASE version = "v2.1"
    <3> DEFINE a == FirstOf(jobs[x])
               b == FirstOf(jobs[y])
    <3>1. /\ jobs[x].output = EpisodeFile(a - 1) /\ jobs[y].output = EpisodeFile(b - 1)
          /\ a \in 1 .. m /\ b \in 1 .. m
          /\ kept[a] = jobs[x].source <=> a <= a /\ a < EndOf(jobs[x])
          /\ kept[b] = jobs[y].source <=> b <= b /\ b < EndOf(jobs[y])
          /\ EndOf(jobs[x]) = a + 1 /\ EndOf(jobs[y]) = b + 1
      BY <1>6, <2>1 DEF TakesRun
    <3> HIDE DEF a, b
    <3>2. a - 1 = b - 1
      <4>1. EpisodeFile(a - 1)[2] = a - 1 /\ EpisodeFile(b - 1)[2] = b - 1
        BY DEF EpisodeFile
      <4> QED BY <1>9, <3>1, <4>1
    <3>3. a = b
      BY <3>1, <3>2
    <3>4. kept[a] = jobs[x].source /\ kept[b] = jobs[y].source
      BY <3>1
    <3> QED BY <1>8, <3>3, <3>4
  <2>2. CASE version # "v2.1"
    <3>1. PICK c \in Nat : jobs = [z \in 1 .. c |-> jobs[z]]
      BY <1>0
    <3>2. x \in 1 .. c /\ y \in 1 .. c
      BY <3>1
    <3>3. Place(x - 1) = Place(y - 1)
      BY <1>4, <1>9, <2>2
    <3>4. x - 1 \in Nat /\ y - 1 \in Nat
      BY <3>2
    <3>5. x - 1 = y - 1
      BY <3>3, <3>4, PlacesDiffer
    <3> QED BY <3>2, <3>5
  <2> QED BY <2>1, <2>2
<1>10. version = "v3.0" => \A x \in DOMAIN jobs : jobs[x].output = Place(x - 1)
  BY <1>4
<1> QED
  BY <1>0, <1>6, <1>7, <1>8, <1>9, <1>10, Zenon DEF SharedOut

-----------------------------------------------------------------------------
(* Streaming: rows of a shared file, batch by batch, come out whole.       *)

(* What a slice of a sequence holds.                                       *)
LEMMA PieceOf ==
  ASSUME NEW T, NEW file \in Seq(T), NEW a \in Nat, NEW c \in Nat, c <= Len(file)
  PROVE  LET s == SubSeq(file, a + 1, c)
         IN  /\ s \in Seq(T) /\ Len(s) = IF a <= c THEN c - a ELSE 0
             /\ DOMAIN s = 1 .. Len(s)
             /\ \A j \in 1 .. Len(s) : s[j] = file[a + j]
<1> DEFINE s == SubSeq(file, a + 1, c)
<1>1. a + 1 \in Int /\ c \in Int /\ Len(file) \in Nat
  BY LenProperties
<1>2. \A i \in a + 1 .. c : file[i] \in T
  <2> TAKE i \in a + 1 .. c
  <2>1. i \in 1 .. Len(file)
    BY <1>1
  <2> QED BY <2>1, ElementOfSeq
<1>3. /\ s \in Seq(T)
      /\ Len(s) = IF a + 1 <= c THEN c - (a + 1) + 1 ELSE 0
      /\ \A j \in 1 .. c - (a + 1) + 1 : s[j] = file[a + 1 + j - 1]
  BY <1>1, <1>2, SubSeqProperties
<1> HIDE DEF s
<1>4. Len(s) = IF a <= c THEN c - a ELSE 0
  BY <1>3
<1>5. ASSUME NEW j \in 1 .. Len(s) PROVE s[j] = file[a + j]
  <2>1. j \in 1 .. c - (a + 1) + 1 /\ a + 1 + j - 1 = a + j
    BY <1>4
  <2> QED BY <1>3, <2>1
<1>6. DOMAIN s = 1 .. Len(s)
  BY <1>3, LenProperties
<1> QED
  BY <1>3, <1>4, <1>5, <1>6 DEF s

(* The numbers from u on at which W holds are the first c of them.         *)
Stretch(W, u, G, c) ==
  /\ c \in Nat /\ W = u .. u + c - 1 /\ Cardinality(W) = c
  /\ c > 0 => u + c - 1 <= G

(* Of values that grow, those up to a limit come first.                    *)
LEMMA Cutoff ==
  ASSUME NEW G \in Nat, NEW val, \A x \in 1 .. G : val[x] \in Nat,
         \A x, y \in 1 .. G : x < y => val[x] <= val[y],
         NEW u \in Nat \ {0}, NEW t \in Nat,
         NEW W \in SUBSET (u .. G), \A x \in u .. G : x \in W <=> val[x] <= t
  PROVE  \E c : Stretch(W, u, G, c)
<1>0. u \in Nat /\ u >= 1
  OBVIOUS
<1>1. CASE W = {}
  <2>1. u .. u + 0 - 1 = {}
    OBVIOUS
  <2>2. Cardinality(W) = 0
    BY <1>1, FS_EmptySet
  <2>3. W = u .. u + 0 - 1
    BY <1>1, <2>1
  <2>4. ~(0 > 0) /\ 0 \in Nat
    OBVIOUS
  <2>5. Stretch(W, u, G, 0)
    BY <2>2, <2>3, <2>4 DEF Stretch
  <2> QED BY <2>5
<1>2. CASE W # {}
  <2> DEFINE p == Max(W)
             c == p - u + 1
  <2>1. IsFiniteSet(W) /\ W \in SUBSET Int
    <3>1. u \in Int /\ G \in Int
      OBVIOUS
    <3>2. IsFiniteSet(u .. G) /\ W \in SUBSET (u .. G)
      BY <3>1, FS_Interval
    <3>3. W \in SUBSET Int
      BY <3>1
    <3> QED BY <3>2, <3>3, FS_Subset
  <2>2. p \in W /\ \A x \in W : x <= p
    <3> QED BY <1>2, <2>1, FiniteMax
  <2>3. p \in u .. G /\ val[p] <= t
    BY <2>2
  <2> HIDE DEF p
  <2>4. c \in Nat /\ u + c - 1 = p
    BY <2>3
  <2>5. ASSUME NEW x \in u .. p PROVE x \in W
    <3>1. x \in 1 .. G /\ p \in 1 .. G /\ x \in u .. G
      BY <2>3
    <3>2. val[x] <= val[p]
      BY <2>3, <3>1
    <3>3. val[x] \in Nat /\ val[p] \in Nat
      BY <3>1
    <3>4. val[x] <= t
      BY <2>3, <3>2, <3>3
    <3> QED BY <3>1, <3>4
  <2>6. W \in SUBSET (u .. p)
    <3>1. \A x \in W : x \in u .. p
      BY <2>2, <2>3
    <3> QED BY <3>1
  <2>7. W = u .. p
    BY <2>5, <2>6
  <2>8. Cardinality(u .. p) = c
    <3>1. u \in Int /\ p \in Int /\ ~(u > p)
      BY <2>3
    <3>2. Cardinality(u .. p) = IF u > p THEN 0 ELSE p - u + 1
      BY <3>1, FS_Interval
    <3> QED BY <3>1, <3>2
  <2> HIDE DEF c
  <2>9. c \in Nat /\ W = u .. u + c - 1 /\ Cardinality(W) = c /\ u + c - 1 <= G
    BY <2>3, <2>4, <2>7, <2>8
  <2>10. Stretch(W, u, G, c)
    BY <2>9 DEF Stretch
  <2> QED BY <2>10
<1> QED
  BY <1>1, <1>2

(* A streamed row, with the episode it is of.                              *)
Mark(T) == [of: Nat, row: T]

(* Where the episodes of a job are in the rows it reads.                   *)
Streams(job, rows, from, len, G, T) ==
  /\ G \in Nat /\ rows \in Seq(T)
  /\ from \in [1 .. G -> Nat] /\ len \in [1 .. G -> Nat \ {0}]
  /\ Len(job.episodes) = G
  /\ \A x \in 1 .. G : /\ job.episodes[x] \in Nat
                       /\ DataStart(dataset, Kept[job.episodes[x]]) = from[x]
                       /\ NewLens[job.episodes[x]] = len[x]
                       /\ from[x] + len[x] <= Len(rows)
  /\ \A x, y \in 1 .. G : x < y => from[x] + len[x] <= from[y]

(* What a batch takes of episode x begins and ends here.                   *)
Begins(from, x, first) == IF from[x] >= first THEN from[x] ELSE first
Closes(from, len, x, last) ==
  IF from[x] + len[x] <= last THEN from[x] + len[x] ELSE last

(* What a batch takes of an episode.                                       *)
PartOf(s, job, rows, from, len, x, first, last, T) ==
  LET a == Begins(from, x, first)
      b == Closes(from, len, x, last)
  IN  /\ s \in Seq(Mark(T)) /\ Len(s) = IF a <= b THEN b - a ELSE 0
      /\ \A j \in 1 .. Len(s) : s[j] = [of |-> job.episodes[x], row |-> rows[a + j]]

(* The operators StreamBatch is made of, by name.                          *)
FromOf(job, n) == DataStart(dataset, Kept[job.episodes[n]])
ToOf(job, n) == FromOf(job, n) + NewLens[job.episodes[n]]
ReachedOf(job, u, last) ==
  LET Reached(n) == /\ FromOf(job, n) < last
                    /\ \A m \in u .. n - 1 : ToOf(job, m) <= last
  IN  {n \in u .. Len(job.episodes) : Reached(n)}
DoneOf(job, u, last) == {n \in ReachedOf(job, u, last) : ToOf(job, n) <= last}
Piece(job, rows, x, first, last) ==
  SubSeq(rows, Max({FromOf(job, x), first}) + 1, Min({ToOf(job, x), last}))
Marked(of, piece) == [f \in DOMAIN piece |-> [of |-> of, row |-> piece[f]]]

(* The episodes a batch reaches, and those it completes, follow the        *)
(* pointer.                                                                *)
Reaches(job, u, last, from, len, G, c, d) ==
  /\ c \in Nat /\ d \in Nat /\ d <= c
  /\ c > 0 => u + c - 1 <= G
  /\ \A x \in u .. G : from[x] < last <=> x < u + c
  /\ \A x \in u .. G : from[x] + len[x] <= last <=> x < u + d
  /\ ReachedOf(job, u, last) = u .. u + c - 1
  /\ Cardinality(ReachedOf(job, u, last)) = c
  /\ Cardinality(DoneOf(job, u, last)) = d

(* The episodes a batch reaches are c in a row, of which it ends d.        *)
LEMMA BatchReaches ==
  ASSUME NEW job, NEW rows, NEW from, NEW len, NEW G, NEW T,
         Streams(job, rows, from, len, G, T),
         NEW u \in Nat \ {0}, NEW last \in Nat
  PROVE  \E c, d : Reaches(job, u, last, from, len, G, c, d)
<1> DEFINE From(n) == FromOf(job, n)
           To(n) == ToOf(job, n)
           Reached(n) == From(n) < last /\ \A m \in u .. n - 1 : To(m) <= last
           reached == {n \in u .. Len(job.episodes) : Reached(n)}
           begins == [x \in 1 .. G |-> from[x] + 1]
           ends == [x \in 1 .. G |-> from[x] + len[x]]
           B == {x \in u .. G : begins[x] <= last}
           E == {x \in u .. G : ends[x] <= last}
           done == {n \in reached : To(n) <= last}
<1>1. /\ G \in Nat /\ Len(job.episodes) = G
      /\ \A x \in 1 .. G : from[x] \in Nat /\ len[x] \in Nat \ {0}
                           /\ From(x) = from[x] /\ To(x) = from[x] + len[x]
      /\ \A x, y \in 1 .. G : x < y => from[x] + len[x] <= from[y]
  BY DEF Streams, FromOf, ToOf
<1>2. \A x \in u .. G : x \in 1 .. G
  BY <1>1
<1>3. \A x \in 1 .. G : /\ begins[x] = from[x] + 1 /\ ends[x] = from[x] + len[x]
                        /\ begins[x] \in Nat /\ ends[x] \in Nat /\ from[x] \in Nat
                        /\ from[x] < ends[x] /\ len[x] > 0
  BY <1>1
<1>4. \A x, y \in 1 .. G : x < y => begins[x] <= begins[y] /\ ends[x] <= ends[y]
                                    /\ ends[x] < begins[y]
  BY <1>1, <1>3
<1> HIDE DEF begins, ends
<1>b. (\A x \in 1 .. G : begins[x] \in Nat)
      /\ \A x, y \in 1 .. G : x < y => begins[x] <= begins[y]
  BY <1>3, <1>4
<1>e. (\A x \in 1 .. G : ends[x] \in Nat)
      /\ \A x, y \in 1 .. G : x < y => ends[x] <= ends[y]
  BY <1>3, <1>4
<1>g. G \in Nat
  BY <1>1
<1>5. PICK c : Stretch(B, u, G, c)
  <2>1. B \in SUBSET (u .. G) /\ \A x \in u .. G : x \in B <=> begins[x] <= last
    OBVIOUS
  <2> HIDE DEF B
  <2> QED BY <1>b, <1>g, <2>1, Cutoff
<1>6. PICK d : Stretch(E, u, G, d)
  <2>1. E \in SUBSET (u .. G) /\ \A x \in u .. G : x \in E <=> ends[x] <= last
    OBVIOUS
  <2> HIDE DEF E
  <2> QED BY <1>e, <1>g, <2>1, Cutoff
<1>h. /\ c \in Nat /\ d \in Nat /\ B = u .. u + c - 1 /\ E = u .. u + d - 1
      /\ Cardinality(B) = c /\ Cardinality(E) = d
      /\ c > 0 => u + c - 1 <= G
      /\ d > 0 => u + d - 1 <= G
  <2> HIDE DEF B, E
  <2> QED BY <1>5, <1>6 DEF Stretch
<1>7. reached = B
  <2>1. ASSUME NEW x \in u .. G PROVE Reached(x) <=> begins[x] <= last
    <3>1. From(x) = from[x] /\ x \in 1 .. G /\ from[x] \in Nat
      BY <1>1, <1>2
    <3>2. From(x) < last <=> begins[x] <= last
      BY <1>3, <3>1
    <3>3. ASSUME begins[x] <= last, NEW m \in u .. x - 1 PROVE To(m) <= last
      <4>1. m \in 1 .. G /\ m < x
        <5>1. u \in Nat /\ u >= 1 /\ x \in Nat /\ x <= G
          BY <1>g
        <5> QED BY <1>g, <5>1
      <4>2. To(m) = ends[m] /\ ends[m] < begins[x]
        BY <1>1, <1>3, <1>4, <3>1, <4>1
      <4>3. ends[m] \in Nat /\ begins[x] \in Nat
        BY <1>3, <3>1, <4>1
      <4> QED BY <3>3, <4>2, <4>3
    <3> QED BY <3>2, <3>3
  <2>2. reached = {n \in u .. G : Reached(n)}
    BY <1>1
  <2> HIDE DEF reached, Reached
  <2> QED BY <2>1, <2>2
<1>8. done = E
  <2>1. \A x \in u .. G : To(x) <= last <=> ends[x] <= last
    BY <1>1, <1>2, <1>3
  <2>2. \A x \in u .. G : ends[x] <= last => begins[x] <= last
    BY <1>2, <1>3
  <2> HIDE DEF reached, To
  <2> QED BY <1>7, <2>1, <2>2
<1>9. ASSUME NEW x \in u .. G
      PROVE  /\ from[x] < last <=> x < u + c
             /\ from[x] + len[x] <= last <=> x < u + d
  <2>1. x \in B <=> begins[x] <= last
    OBVIOUS
  <2>2. x \in E <=> ends[x] <= last
    OBVIOUS
  <2>3. x \in u .. u + c - 1 <=> x < u + c
    BY <1>1, <1>h
  <2>4. x \in u .. u + d - 1 <=> x < u + d
    BY <1>1, <1>h
  <2>5. from[x] \in Nat /\ begins[x] = from[x] + 1 /\ ends[x] = from[x] + len[x]
    BY <1>2, <1>3
  <2> HIDE DEF B, E
  <2>6. from[x] < last <=> begins[x] <= last
    BY <2>5
  <2> QED BY <1>h, <2>1, <2>2, <2>3, <2>4, <2>5, <2>6
<1>10. d <= c
  <2>1. CASE d = 0
    BY <1>h, <2>1
  <2>2. CASE d # 0
    <3>1. u + d - 1 \in u .. u + d - 1 /\ u + d - 1 \in u .. G
      BY <1>h, <2>2
    <3>2. u + d - 1 \in E
      BY <1>h, <3>1
    <3>3. u + d - 1 \in B
      BY <1>7, <1>8, <3>2
    <3> HIDE DEF B
    <3>4. u + d - 1 \in u .. u + c - 1
      BY <1>h, <3>3
    <3> QED BY <1>h, <3>4
  <2> QED BY <2>1, <2>2
<1> HIDE DEF From, To, reached, B, E, done
<1>11. /\ reached = u .. u + c - 1 /\ Cardinality(reached) = c
       /\ Cardinality(done) = d
  BY <1>h, <1>7, <1>8
<1>12. reached = ReachedOf(job, u, last) /\ done = DoneOf(job, u, last)
  BY Zenon DEF reached, done, ReachedOf, DoneOf, From, To
<1>13. Reaches(job, u, last, from, len, G, c, d)
  BY <1>h, <1>9, <1>10, <1>11, <1>12 DEF Reaches
<1> QED
  BY <1>13

(* What a batch takes of an episode is the cut of its rows to the batch.   *)
LEMMA PartIs ==
  ASSUME NEW job, NEW rows, NEW from, NEW len, NEW G, NEW T,
         Streams(job, rows, from, len, G, T),
         NEW x \in 1 .. G, NEW first \in Nat, NEW last \in Nat, last <= Len(rows)
  PROVE  PartOf(Marked(job.episodes[x], Piece(job, rows, x, first, last)),
                job, rows, from, len, x, first, last, T)
<1> DEFINE From == FromOf(job, x)
           To == ToOf(job, x)
           a == Begins(from, x, first)
           b == Closes(from, len, x, last)
           piece == SubSeq(rows, a + 1, b)
           l == Len(piece)
           s == [f \in DOMAIN piece |-> [of |-> job.episodes[x], row |-> piece[f]]]
<1>1. /\ rows \in Seq(T) /\ from[x] \in Nat /\ len[x] \in Nat
      /\ From = from[x] /\ To = from[x] + len[x] /\ job.episodes[x] \in Nat
  BY DEF Streams, FromOf, ToOf
<1>2. Max({From, first}) = a /\ Min({To, last}) = b
  <2>1. from[x] \in Int /\ first \in Int /\ from[x] + len[x] \in Int /\ last \in Int
    BY <1>1
  <2>2. Max({from[x], first}) = IF from[x] >= first THEN from[x] ELSE first
    BY <2>1, MaxOfTwo
  <2>3. Min({from[x] + len[x], last})
          = IF from[x] + len[x] <= last THEN from[x] + len[x] ELSE last
    BY <2>1, MinOfTwo
  <2> QED BY <1>1, <2>2, <2>3, Zenon DEF Begins, Closes
<1>3. a \in Nat /\ b \in Nat /\ b <= last /\ b <= Len(rows)
  <2>1. Len(rows) \in Nat
    BY <1>1, LenProperties
  <2> QED BY <1>1, <2>1 DEF Begins, Closes
<1> HIDE DEF a, b
<1>4. /\ piece \in Seq(T) /\ Len(piece) = IF a <= b THEN b - a ELSE 0
      /\ DOMAIN piece = 1 .. Len(piece)
      /\ \A j \in 1 .. Len(piece) : piece[j] = rows[a + j]
  BY <1>1, <1>3, PieceOf
<1>5. l \in Nat
  BY <1>3, <1>4
<1> HIDE DEF piece
<1>6. s \in [1 .. l -> Mark(T)]
  <2>1. ASSUME NEW f \in 1 .. l PROVE [of |-> job.episodes[x], row |-> piece[f]] \in Mark(T)
    <3>1. piece[f] \in T
      BY <1>4, <2>1, ElementOfSeq
    <3> QED BY <1>1, <3>1 DEF Mark
  <2> HIDE DEF l
  <2>2. DOMAIN piece = 1 .. l
    BY <1>4 DEF l
  <2> QED BY <2>1, <2>2
<1>7. s \in Seq(Mark(T)) /\ Len(s) = l
  <2> HIDE DEF s, l
  <2> QED BY <1>5, <1>6, SeqOfFunction
<1>8. \A j \in 1 .. Len(s) : s[j] = [of |-> job.episodes[x], row |-> rows[a + j]]
  <2> TAKE j \in 1 .. Len(s)
  <2>1. j \in DOMAIN piece /\ piece[j] = rows[a + j]
    BY <1>4, <1>7
  <2> HIDE DEF l
  <2>2. s[j] = [of |-> job.episodes[x], row |-> piece[j]]
    BY <2>1
  <2> QED BY <2>1, <2>2
<1> HIDE DEF s
<1>9. PartOf(s, job, rows, from, len, x, first, last, T)
  BY <1>4, <1>7, <1>8 DEF PartOf, a, b, l
<1>10. piece = Piece(job, rows, x, first, last)
  BY <1>2 DEF piece, Piece
<1>11. s = Marked(job.episodes[x], piece)
  BY Zenon DEF s, Marked
<1> QED
  BY <1>9, <1>10, <1>11

(* The state of a stream.                                                  *)
Streaming(T) == [number: Nat \ {0}, rows: Seq(Mark(T))]

(* A batch completes d of the c episodes it reaches.                       *)
BatchOf(next, state, job, rows, from, len, G, T, first, last, c, d, parts) ==
  LET u == state.number
  IN  /\ c \in Nat /\ d \in Nat /\ d <= c
      /\ c > 0 => u + c - 1 <= G
      /\ \A x \in u .. G : from[x] < last <=> x < u + c
      /\ \A x \in u .. G : from[x] + len[x] <= last <=> x < u + d
      /\ parts \in Seq(Seq(Mark(T))) /\ Len(parts) = c
      /\ \A i \in 1 .. c :
           PartOf(parts[i], job, rows, from, len, u + i - 1, first, last, T)
      /\ next = [number |-> u + d, rows |-> state.rows \o FlattenSeq(parts)]

(* One batch appends the parts of the episodes it reaches and moves on.    *)
LEMMA BatchIs ==
  ASSUME NEW job, NEW rows, NEW from, NEW len, NEW G, NEW T,
         Streams(job, rows, from, len, G, T),
         NEW state \in Streaming(T), NEW first \in Nat, edit.batch \in Nat \ {0}
  PROVE  LET last == Min({first + edit.batch, Len(rows)})
             next == StreamBatch(job, rows, state, first)
         IN  /\ last \in Nat /\ last <= Len(rows)
             /\ last = IF first + edit.batch <= Len(rows) THEN first + edit.batch
                       ELSE Len(rows)
             /\ \E c, d, parts :
                  BatchOf(next, state, job, rows, from, len, G, T, first, last, c, d, parts)
             /\ next \in Streaming(T)
<1> DEFINE last == Min({first + edit.batch, Len(rows)})
           u == state.number
           reached == ReachedOf(job, u, last)
           done == DoneOf(job, u, last)
           MarkedAt(n) == Marked(job.episodes[n], Piece(job, rows, n, first, last))
           parts == [m \in 1 .. Cardinality(reached) |-> MarkedAt(u + m - 1)]
           next == StreamBatch(job, rows, state, first)
<1>1. u \in Nat \ {0} /\ state.rows \in Seq(Mark(T))
  BY DEF Streaming
<1>2. rows \in Seq(T) /\ Len(rows) \in Nat /\ G \in Nat
  BY LenProperties DEF Streams
<1>3. /\ last = IF first + edit.batch <= Len(rows) THEN first + edit.batch ELSE Len(rows)
      /\ last \in Nat /\ last <= Len(rows)
  <2>1. first + edit.batch \in Nat /\ first + edit.batch \in Int /\ Len(rows) \in Int
    BY <1>2
  <2>2. last = IF first + edit.batch <= Len(rows) THEN first + edit.batch ELSE Len(rows)
    BY <2>1, MinOfTwo
  <2> HIDE DEF last
  <2> QED BY <1>2, <2>1, <2>2
<1>4. next = [number |-> u + Cardinality(done),
              rows |-> state.rows \o FlattenSeq(parts)]
  BY Zenon DEF StreamBatch, ReachedOf, DoneOf, Marked, Piece, FromOf, ToOf
<1> HIDE DEF last, next
<1>5. PICK c, d : Reaches(job, u, last, from, len, G, c, d)
  <2> HIDE DEF u
  <2> QED BY <1>1, <1>3, BatchReaches
<1>h. /\ c \in Nat /\ d \in Nat /\ d <= c
      /\ c > 0 => u + c - 1 <= G
      /\ \A x \in u .. G : from[x] < last <=> x < u + c
      /\ \A x \in u .. G : from[x] + len[x] <= last <=> x < u + d
      /\ Cardinality(reached) = c /\ Cardinality(done) = d
  <2> HIDE DEF u
  <2> QED BY <1>5 DEF Reaches
<1>6. ASSUME NEW i \in 1 .. c
      PROVE  /\ parts[i] = MarkedAt(u + i - 1)
             /\ PartOf(parts[i], job, rows, from, len, u + i - 1, first, last, T)
  <2> HIDE DEF u
  <2>1. u + i - 1 \in 1 .. G
    <3>1. c > 0 /\ u + c - 1 <= G /\ u \in Nat /\ u >= 1
      BY <1>1, <1>h
    <3> QED BY <1>2, <1>h, <3>1
  <2> DEFINE x == u + i - 1
  <2>2. parts[i] = MarkedAt(x)
    <3> HIDE DEF reached, MarkedAt
    <3> QED BY <1>h
  <2> HIDE DEF x, parts
  <2>3. x \in 1 .. G
    BY <2>1 DEF x
  <2>4. PartOf(MarkedAt(x), job, rows, from, len, x, first, last, T)
    BY <1>3, <2>3, PartIs
  <2> HIDE DEF MarkedAt
  <2> QED BY <2>2, <2>4 DEF x
<1>7. parts \in Seq(Seq(Mark(T))) /\ Len(parts) = c
  <2>1. \A i \in 1 .. c : parts[i] \in Seq(Mark(T))
    <3> HIDE DEF parts
    <3> QED BY <1>6 DEF PartOf
  <2>2. parts = [i \in 1 .. c |-> parts[i]]
    <3> HIDE DEF reached, MarkedAt
    <3> QED BY <1>h
  <2> HIDE DEF parts
  <2>3. parts \in [1 .. c -> Seq(Mark(T))]
    BY <2>1, <2>2
  <2> QED BY <1>h, <2>3, SeqOfFunction
<1>8. next = [number |-> u + d, rows |-> state.rows \o FlattenSeq(parts)]
  BY <1>4, <1>h
<1> HIDE DEF parts, reached, MarkedAt
<1>9. \A i \in 1 .. c : PartOf(parts[i], job, rows, from, len, u + i - 1, first, last, T)
  BY <1>6
<1>10. BatchOf(next, state, job, rows, from, len, G, T, first, last, c, d, parts)
  <2>1. /\ c \in Nat /\ d \in Nat /\ d <= c
        /\ c > 0 => u + c - 1 <= G
        /\ \A x \in u .. G : from[x] < last <=> x < u + c
        /\ \A x \in u .. G : from[x] + len[x] <= last <=> x < u + d
    BY <1>h
  <2> QED BY <1>7, <1>8, <1>9, <2>1, Zenon DEF BatchOf
<1>11. next \in Streaming(T)
  <2>1. u + d \in Nat \ {0}
    <3> HIDE DEF u
    <3> QED BY <1>1, <1>h
  <2>2. FlattenSeq(parts) \in Seq(Mark(T))
    BY <1>7, FlattenType
  <2>3. state.rows \o FlattenSeq(parts) \in Seq(Mark(T))
    BY <1>1, <2>2, ConcatProperties
  <2> QED BY <1>8, <2>1, <2>3 DEF Streaming
<1> QED
  BY <1>3, <1>10, <1>11 DEF last, next

(* How many rows have been streamed after t of the file.                   *)
Got(from, len, G, u, t) ==
  Offset(len, u) + (IF u <= G /\ t > from[u] THEN t - from[u] ELSE 0)

(* After t rows: the pointer is on the first episode that is not complete, *)
(* and what was read of each is in its place.                              *)
StreamInv(state, job, rows, from, len, G, T, t) ==
  LET u == state.number
  IN  /\ state \in Streaming(T) /\ u \in 1 .. G + 1
      /\ \A x \in 1 .. G : x < u <=> from[x] + len[x] <= t
      /\ Len(state.rows) = Got(from, len, G, u, t)
      /\ \A x \in 1 .. G : \A f \in 1 .. len[x] : from[x] + f <= t =>
           state.rows[Offset(len, x) + f] = [of |-> job.episodes[x], row |-> rows[from[x] + f]]

(* A batch carries the invariant of the stream to the end of its rows.     *)
LEMMA BatchKeeps ==
  ASSUME NEW job, NEW rows, NEW from, NEW len, NEW G, NEW T,
         Streams(job, rows, from, len, G, T),
         NEW first \in Nat, NEW last \in Nat, first < last, last <= Len(rows),
         NEW state, StreamInv(state, job, rows, from, len, G, T, first),
         NEW next, next \in Streaming(T), NEW c, NEW d, NEW parts,
         BatchOf(next, state, job, rows, from, len, G, T, first, last, c, d, parts)
  PROVE  StreamInv(next, job, rows, from, len, G, T, last)
<1> DEFINE u == state.number
           no == [x \in 1 .. G + 1 |-> Offset(len, x)]
           had == state.rows
           more == FlattenSeq(parts)
           now == next.rows
           v == next.number
           a(x) == Begins(from, x, first)
           b(x) == Closes(from, len, x, last)
           S == Mark(T)
<1>1. /\ G \in Nat
      /\ \A x \in 1 .. G : /\ from[x] \in Nat /\ len[x] \in Nat /\ len[x] > 0
      /\ \A x, y \in 1 .. G : x < y => from[x] + len[x] <= from[y]
      /\ len \in [1 .. G -> Nat]
  <2>1. G \in Nat /\ from \in [1 .. G -> Nat] /\ len \in [1 .. G -> Nat \ {0}]
        /\ \A x, y \in 1 .. G : x < y => from[x] + len[x] <= from[y]
    BY DEF Streams
  <2> QED BY <2>1
<1>2. /\ \A x \in 1 .. G + 1 : no[x] \in Nat /\ no[x] = Offset(len, x)
      /\ \A x \in 1 .. G : no[x + 1] = no[x] + len[x]
      /\ \A x, y \in 1 .. G + 1 : x <= y => no[x] <= no[y]
      /\ no[1] = 0
  <2>1. /\ \A x \in 1 .. G + 1 : Offset(len, x) \in Nat
        /\ \A x \in 1 .. G : Offset(len, x + 1) = Offset(len, x) + len[x]
        /\ \A x, y \in 1 .. G + 1 : x <= y => Offset(len, x) <= Offset(len, y)
    BY <1>1, OffsetProperties
  <2>2. Offset(len, 1) = 0
    BY <1>1, PlacesAdd DEF Offset, PlaceOf
  <2> QED BY <1>1, <2>1, <2>2
<1>3. /\ u \in 1 .. G + 1 /\ had \in Seq(S) /\ Len(had) \in Nat
      /\ \A x \in 1 .. G : x < u <=> from[x] + len[x] <= first
      /\ Len(had) = no[u] + (IF u <= G /\ first > from[u] THEN first - from[u] ELSE 0)
      /\ \A x \in 1 .. G : \A f \in 1 .. len[x] : from[x] + f <= first =>
           had[no[x] + f] = [of |-> job.episodes[x], row |-> rows[from[x] + f]]
  <2>1. /\ state \in Streaming(T) /\ u \in 1 .. G + 1
        /\ \A x \in 1 .. G : x < u <=> from[x] + len[x] <= first
        /\ Len(had) = Got(from, len, G, u, first)
        /\ \A x \in 1 .. G : \A f \in 1 .. len[x] : from[x] + f <= first =>
             had[Offset(len, x) + f]
               = [of |-> job.episodes[x], row |-> rows[from[x] + f]]
    BY Zenon DEF StreamInv
  <2>2. had \in Seq(S)
    BY <2>1 DEF Streaming
  <2>3. \A x \in 1 .. G : no[x] = Offset(len, x)
    BY <1>1, <1>2
  <2>4. no[u] = Offset(len, u)
    BY <1>2, <2>1
  <2> HIDE DEF no, u, had, S
  <2>5. Len(had) \in Nat
    BY <2>2, LenProperties
  <2> QED BY <2>1, <2>2, <2>3, <2>4, <2>5 DEF Got
<1>4. /\ c \in Nat /\ d \in Nat /\ d <= c
      /\ c > 0 => u + c - 1 <= G
      /\ \A x \in u .. G : from[x] < last <=> x < u + c
      /\ \A x \in u .. G : from[x] + len[x] <= last <=> x < u + d
      /\ parts \in Seq(Seq(S)) /\ Len(parts) = c
      /\ \A i \in 1 .. c :
           PartOf(parts[i], job, rows, from, len, u + i - 1, first, last, T)
      /\ next = [number |-> u + d, rows |-> had \o more]
  BY Zenon DEF BatchOf
<1>5. v = u + d /\ now = had \o more
  BY <1>4
<1> HIDE DEF u, no, had, more, now, v, S
<1>n. /\ u \in Nat /\ u >= 1 /\ u <= G + 1 /\ c \in Nat /\ d \in Nat /\ G \in Nat
      /\ Len(had) \in Nat
  BY <1>1, <1>3, <1>4
<1>6. \A i \in 1 .. c : u + i - 1 \in u .. G /\ u + i - 1 \in 1 .. G
  BY <1>1, <1>3, <1>4
<1>7. ASSUME NEW x \in 1 .. G, u <= x, x < u + c
      PROVE  /\ a(x) \in Nat /\ b(x) \in Nat /\ a(x) < b(x)
             /\ from[x] <= a(x) /\ b(x) <= from[x] + len[x] /\ b(x) <= last
             /\ first <= a(x)
  <2>1. x \in u .. G /\ ~(x < u)
    BY <1>1, <1>3, <1>7
  <2>2. from[x] < last /\ ~(from[x] + len[x] <= first)
    BY <1>3, <1>4, <1>7, <2>1
  <2> QED BY <1>1, <2>2 DEF Begins, Closes
<1>8. ASSUME NEW i \in 1 .. c
      PROVE  /\ Len(parts[i]) = b(u + i - 1) - a(u + i - 1)
             /\ \A j \in 1 .. Len(parts[i]) :
                  parts[i][j] = [of |-> job.episodes[u + i - 1],
                                 row |-> rows[a(u + i - 1) + j]]
  <2> DEFINE x == u + i - 1
  <2>1. x \in 1 .. G /\ u <= x /\ x < u + c
    BY <1>n, <1>6
  <2>2. PartOf(parts[i], job, rows, from, len, x, first, last, T)
    BY <1>4
  <2> HIDE DEF x
  <2>3. a(x) \in Nat /\ b(x) \in Nat /\ a(x) < b(x)
    BY <1>7, <2>1
  <2>4. /\ Len(parts[i]) = IF a(x) <= b(x) THEN b(x) - a(x) ELSE 0
        /\ \A j \in 1 .. Len(parts[i]) :
             parts[i][j] = [of |-> job.episodes[x], row |-> rows[a(x) + j]]
    BY <2>2, Zenon DEF PartOf
  <2>5. Len(parts[i]) = b(x) - a(x)
    BY <2>3, <2>4
  <2> QED BY <2>4, <2>5 DEF x
<1> HIDE DEF a, b
(* Where each part begins in what the batch adds.                          *)
<1> DEFINE off == [i \in 1 .. c + 1 |->
                    IF i <= c THEN no[u + i - 1] + a(u + i - 1) - from[u + i - 1] - Len(had)
                    ELSE IF c = 0 THEN 0
                    ELSE no[u + c - 1] + b(u + c - 1) - from[u + c - 1] - Len(had)]
<1>9. c > 0 => /\ u \in 1 .. G /\ u < u + c
               /\ Len(had) = no[u] + a(u) - from[u] /\ Len(had) < no[u] + len[u]
  <2> SUFFICES ASSUME c > 0
               PROVE  /\ u \in 1 .. G /\ u < u + c
                      /\ Len(had) = no[u] + a(u) - from[u] /\ Len(had) < no[u] + len[u]
    OBVIOUS
  <2>1. u \in 1 .. G /\ u < u + c
    BY <1>1, <1>3, <1>4
  <2>2. a(u) = IF from[u] >= first THEN from[u] ELSE first
    BY DEF a, Begins
  <2>3. from[u] + len[u] > first
    BY <1>1, <1>3, <2>1
  <2>4. no[u] \in Nat /\ from[u] \in Nat /\ len[u] \in Nat /\ len[u] > 0
    BY <1>1, <1>2, <2>1
  <2>5. Len(had) = no[u] + (IF first > from[u] THEN first - from[u] ELSE 0)
    BY <1>1, <1>3, <2>1
  <2>6. Len(had) = no[u] + a(u) - from[u]
    BY <2>2, <2>4, <2>5
  <2>7. Len(had) < no[u] + len[u]
    BY <2>3, <2>4, <2>5
  <2> QED BY <2>1, <2>6, <2>7
<1>10. ASSUME NEW x \in 1 .. G, u < x, x < u + c
       PROVE  /\ a(x) = from[x] /\ x - 1 \in 1 .. G /\ u <= x - 1
              /\ b(x - 1) = from[x - 1] + len[x - 1]
              /\ Len(had) <= no[x]
  <2>1. x - 1 \in 1 .. G /\ u <= x - 1 /\ x - 1 < x /\ ~(x - 1 < u) /\ x \in u .. G
    BY <1>1, <1>3, <1>10
  <2>2. from[x - 1] + len[x - 1] <= from[x] /\ from[x] < last
        /\ ~(from[x - 1] + len[x - 1] <= first)
    BY <1>1, <1>3, <1>4, <1>10, <2>1
  <2>3. from[x] \in Nat /\ from[x - 1] \in Nat /\ len[x - 1] \in Nat
    BY <1>1, <2>1
  <2>4. a(x) = from[x]
    BY <2>2, <2>3 DEF a, Begins
  <2>5. b(x - 1) = from[x - 1] + len[x - 1]
    BY <2>2, <2>3 DEF b, Closes
  <2>6. Len(had) <= no[x]
    <3>1. c > 0
      BY <1>3, <1>4, <1>10
    <3>2. u + 1 \in 1 .. G + 1 /\ u + 1 <= x /\ x \in 1 .. G + 1 /\ u \in 1 .. G
      BY <1>1, <1>3, <1>10
    <3>3. no[u + 1] = no[u] + len[u] /\ no[u + 1] <= no[x]
      BY <1>2, <3>2
    <3>4. no[u + 1] \in Nat /\ no[x] \in Nat
      BY <1>2, <3>2
    <3> QED BY <1>3, <1>9, <3>1, <3>3, <3>4
  <2> QED BY <2>1, <2>4, <2>5, <2>6
<1>11. \A i \in 1 .. c : off[i] = no[u + i - 1] + a(u + i - 1) - from[u + i - 1] - Len(had)
  BY <1>4
<1>12. /\ c = 0 => off[c + 1] = 0
       /\ c > 0 => off[c + 1] = no[u + c - 1] + b(u + c - 1) - from[u + c - 1] - Len(had)
  BY <1>4
<1>t. off = [i \in 1 .. c + 1 |-> off[i]]
  OBVIOUS
<1> HIDE DEF off
<1>13. ASSUME NEW i \in 1 .. c
       PROVE  /\ off[i] \in Nat /\ off[i + 1] = off[i] + Len(parts[i])
              /\ i = 1 => off[i] = 0
  <2> DEFINE x == u + i - 1
  <2>1. x \in 1 .. G /\ u <= x /\ x < u + c /\ c > 0 /\ (x = u <=> i = 1)
        /\ x + 1 = u + (i + 1) - 1
    BY <1>n, <1>6
  <2>2. off[i] = no[x] + a(x) - from[x] - Len(had)
    BY <1>11
  <2>3. Len(parts[i]) = b(x) - a(x)
    BY <1>8
  <2>x. x = u + c - 1 <=> i = c
    BY <1>3, <1>4
  <2> HIDE DEF x
  <2>4. /\ a(x) \in Nat /\ b(x) \in Nat /\ a(x) < b(x) /\ from[x] <= a(x)
        /\ no[x] \in Nat /\ from[x] \in Nat /\ len[x] \in Nat
    BY <1>1, <1>2, <1>7, <2>1
  <2> DEFINE A == a(x)
             B == b(x)
             N == no[x]
             F == from[x]
             o == off[i]
             p == off[i + 1]
             h == Len(had)
  <2>8. /\ A \in Nat /\ B \in Nat /\ N \in Nat /\ F \in Nat /\ h \in Nat
        /\ o = N + A - F - h
    BY <1>n, <2>2, <2>4
  <2>6. off[i + 1] = off[i] + Len(parts[i])
    <3>1. CASE i = c
      <4>1. p = N + B - F - h
        BY <1>12, <2>1, <2>x, <3>1
      <4> HIDE DEF x, A, B, N, F, o, p, h
      <4>2. p = o + (B - A)
        BY <2>8, <4>1
      <4> QED BY <2>3, <4>2 DEF A, B, o, p
    <3>2. CASE i # c
      <4>1. i + 1 \in 1 .. c /\ x + 1 \in 1 .. G /\ u < x + 1 /\ x + 1 < u + c
        <5>1. i + 1 \in 1 .. c
          BY <1>4, <3>2
        <5>2. u + (i + 1) - 1 \in 1 .. G
          BY <1>6, <5>1
        <5> QED BY <1>n, <2>1, <5>1, <5>2 DEF x
      <4> DEFINE y == x + 1
      <4>2. p = no[y] + a(y) - from[y] - h
        BY <1>11, <2>1, <4>1
      <4>3. a(y) = from[y] /\ x = y - 1 /\ b(y - 1) = from[y - 1] + len[y - 1]
        BY <1>10, <2>1, <4>1
      <4>4. no[y] = N + len[x] /\ from[y] \in Nat /\ no[y] \in Nat /\ len[x] \in Nat
        BY <1>1, <1>2, <2>1, <4>1
      <4>5. B = F + len[x]
        BY <4>3
      <4> HIDE DEF x, y, A, B, N, F, o, p, h
      <4>6. p = N + len[x] - h
        BY <2>8, <4>2, <4>3, <4>4
      <4>7. p = o + (B - A)
        <5> DEFINE l == len[x]
        <5>1. l \in Nat /\ B = F + l /\ p = N + l - h
          BY <4>4, <4>5, <4>6
        <5> HIDE DEF l
        <5>2. B - A = F + l - A
          BY <2>8, <5>1
        <5>3. o + (B - A) = N + l - h
          BY <2>8, <5>1, <5>2
        <5> QED BY <5>1, <5>3
      <4> QED BY <2>3, <4>7 DEF A, B, o, p
    <3> QED BY <3>1, <3>2
  <2>5. CASE x = u
    <3>1. Len(had) = no[x] + a(x) - from[x]
      BY <1>9, <2>1, <2>5
    <3>2. off[i] = 0
      BY SMTT(40), <1>n, <2>2, <2>4, <3>1
    <3> QED BY <2>6, <3>2
  <2>7. CASE x # u
    <3>1. u < x
      BY <1>1, <1>3, <2>1, <2>7
    <3>2. a(x) = from[x] /\ Len(had) <= no[x]
      BY <1>10, <2>1, <3>1
    <3>3. off[i] = no[x] - Len(had)
      BY <1>3, <2>2, <2>4, <3>2
    <3> QED BY <1>3, <2>1, <2>4, <2>6, <2>7, <3>2, <3>3
  <2> QED BY <2>5, <2>6, <2>7
<1>14. Positions(off, parts, S)
  <2>1. \A i \in 1 .. c + 1 : off[i] \in Nat
    <3> SUFFICES ASSUME NEW i \in 1 .. c + 1 PROVE off[i] \in Nat
      OBVIOUS
    <3>1. CASE i \in 1 .. c
      BY <1>13, <3>1
    <3>2. CASE i = c + 1 /\ c = 0
      BY <1>12, <3>2
    <3>3. CASE i = c + 1 /\ c > 0
      <4>1. c \in 1 .. c /\ c + 1 = i
        BY <1>4, <3>3
      <4>2. off[c] \in Nat /\ off[i] = off[c] + Len(parts[c])
        BY <1>13, <4>1
      <4>3. Len(parts[c]) \in Nat
        <5>1. c \in 1 .. Len(parts) /\ parts \in Seq(Seq(S))
          BY <1>4, <4>1
        <5>2. parts[c] \in Seq(S)
          BY <5>1, ElementOfSeq
        <5> QED BY <5>2, LenProperties
      <4> QED BY <4>2, <4>3
    <3> QED BY <1>4, <3>1, <3>2, <3>3
  <2>2. off[1] = 0
    <3>1. CASE c = 0
      BY <1>12, <3>1
    <3>2. CASE c # 0
      <4>1. 1 \in 1 .. c
        BY <1>4, <3>2
      <4> QED BY <1>13, <4>1
    <3> QED BY <3>1, <3>2
  <2>3. off \in [1 .. c + 1 -> Nat]
    BY <1>t, <2>1
  <2> QED BY <1>4, <1>13, <2>2, <2>3 DEF Positions
<1>15. /\ more \in Seq(S) /\ Len(more) = off[c + 1] /\ off[c + 1] \in Nat
       /\ \A i \in 1 .. c : \A j \in 1 .. Len(parts[i]) :
            off[i] + j \in 1 .. off[c + 1] /\ more[off[i] + j] = parts[i][j]
  <2>1. /\ more \in Seq(S) /\ Len(more) = off[Len(parts) + 1]
        /\ \A i \in 1 .. Len(parts) : \A j \in 1 .. Len(parts[i]) :
             /\ off[i] + j \in 1 .. off[Len(parts) + 1]
             /\ more[off[i] + j] = parts[i][j]
    BY <1>14, FlattenAt DEF more
  <2>2. Len(more) \in Nat
    BY <2>1, LenProperties
  <2> QED BY <1>4, <2>1, <2>2
<1>16. /\ Len(now) = Len(had) + off[c + 1]
       /\ \A q \in 1 .. Len(had) : now[q] = had[q]
       /\ \A q \in 1 .. off[c + 1] : now[Len(had) + q] = more[q]
  <2>1. /\ Len(had \o more) = Len(had) + Len(more)
        /\ \A i \in 1 .. Len(had) + Len(more) : (had \o more)[i] =
             IF i <= Len(had) THEN had[i] ELSE more[i - Len(had)]
    BY <1>3, <1>15, ConcatProperties
  <2>2. \A q \in 1 .. Len(had) : (had \o more)[q] = had[q]
    BY <1>3, <1>15, <2>1
  <2>3. \A q \in 1 .. off[c + 1] : (had \o more)[Len(had) + q] = more[q]
    <3> TAKE q \in 1 .. off[c + 1]
    <3>1. Len(had) + q \in 1 .. Len(had) + Len(more) /\ ~(Len(had) + q <= Len(had))
          /\ Len(had) + q - Len(had) = q
      BY <1>3, <1>15
    <3> QED BY <2>1, <3>1
  <2> QED BY <1>5, <1>15, <2>1, <2>2, <2>3
<1>17. v \in 1 .. G + 1
  BY <1>1, <1>3, <1>4, <1>5
<1>18. ASSUME NEW x \in 1 .. G PROVE x < v <=> from[x] + len[x] <= last
  <2>1. CASE x < u
    <3>1. from[x] + len[x] <= first
      BY <1>3, <2>1
    <3> QED BY <1>1, <1>3, <1>4, <1>5, <2>1, <3>1
  <2>2. CASE ~(x < u)
    <3>1. x \in u .. G
      BY <1>1, <1>3, <2>2
    <3> QED BY <1>4, <1>5, <3>1
  <2> QED BY <2>1, <2>2
<1>19. Len(now) = Got(from, len, G, v, last)
  <2>0. no[v] = Offset(len, v) /\ no[v] \in Nat
    BY <1>2, <1>17
  <2> SUFFICES Len(now) = no[v] + (IF v <= G /\ last > from[v] THEN last - from[v] ELSE 0)
    BY <2>0 DEF Got
  <2>1. CASE c = 0
    <3>1. d = 0 /\ v = u /\ Len(now) = Len(had)
      BY <1>3, <1>4, <1>5, <1>12, <1>16, <2>1
    <3>2. ASSUME u <= G PROVE ~(last > from[u]) /\ ~(first > from[u])
      <4>1. u \in u .. G /\ u \in 1 .. G /\ ~(u < u + c)
        BY <1>1, <1>3, <2>1, <3>2
      <4>2. ~(from[u] < last) /\ from[u] \in Nat
        BY <1>1, <1>4, <4>1
      <4> QED BY <4>2
    <3> QED BY <1>3, <3>1, <3>2
  <2>2. CASE c > 0
    <3> DEFINE z == u + c - 1
    <3>1. /\ z \in u .. G /\ z \in 1 .. G /\ u <= z /\ z < u + c /\ z + 1 \in 1 .. G + 1
          /\ z + 1 = u + c
      BY <1>1, <1>3, <1>4, <2>2
    <3>2. Len(now) = no[z] + b(z) - from[z]
      <4>1. off[c + 1] = no[z] + b(z) - from[z] - Len(had)
        BY <1>12, <2>2
      <4> HIDE DEF z
      <4>2. no[z] \in Nat /\ b(z) \in Nat /\ from[z] \in Nat
        BY <1>1, <1>2, <1>7, <3>1
      <4> QED BY <1>3, <1>16, <4>1, <4>2
    <3> HIDE DEF z
    <3>3. no[z] \in Nat /\ b(z) \in Nat /\ from[z] \in Nat /\ len[z] \in Nat
          /\ no[z + 1] = no[z] + len[z] /\ from[z] < last
      <4>1. no[z] \in Nat /\ no[z + 1] = no[z] + len[z]
        BY <1>n, <1>2, <3>1
      <4>2. b(z) \in Nat /\ from[z] \in Nat /\ len[z] \in Nat
        BY <1>1, <1>7, <3>1
      <4>3. from[z] < last
        BY <1>4, <3>1
      <4> QED BY <4>1, <4>2, <4>3
    <3>4. CASE from[z] + len[z] <= last
      <4>1. z < u + d
        BY <1>4, <3>1, <3>4
      <4>2. v = z + 1
        BY <1>3, <1>4, <1>5, <3>1, <4>1
      <4>3. b(z) = from[z] + len[z]
        BY <3>4 DEF b, Closes
      <4>4. ASSUME v <= G PROVE ~(last > from[v])
        <5>1. v \in u .. G /\ v \in 1 .. G /\ ~(v < u + c)
          BY <1>1, <1>3, <3>1, <4>2, <4>4
        <5>2. ~(from[v] < last) /\ from[v] \in Nat
          BY <1>1, <1>4, <5>1
        <5> QED BY <5>2
      <4> QED BY <2>0, <3>2, <3>3, <4>2, <4>3, <4>4
    <3>5. CASE ~(from[z] + len[z] <= last)
      <4>1. ~(z < u + d)
        BY <1>4, <3>1, <3>5
      <4>2. v = z
        <5>1. CASE c = 1
          BY <1>3, <1>4, <1>5, <3>1, <4>1, <5>1
        <5>2. CASE c > 1
          <6>1. u < z
            BY <1>3, <1>4, <3>1, <5>2
          <6>2. /\ z - 1 \in 1 .. G /\ u <= z - 1 /\ z - 1 \in u .. G
                /\ b(z - 1) = from[z - 1] + len[z - 1]
            BY <1>1, <1>3, <1>10, <3>1, <6>1
          <6>3. z - 1 < u + c
            BY <1>3, <1>4, <3>1
          <6>4. b(z - 1) <= last
            BY <1>7, <6>2, <6>3
          <6>5. z - 1 < u + d
            BY <1>4, <6>2, <6>4
          <6> QED BY <1>3, <1>4, <1>5, <3>1, <4>1, <6>5
        <5> QED BY <1>4, <2>2, <5>1, <5>2
      <4>3. b(z) = last
        BY <3>5 DEF b, Closes
      <4>4. z <= G
        BY <1>1, <3>1
      <4> QED BY <2>0, <3>2, <3>3, <4>2, <4>3, <4>4
    <3> QED BY <3>4, <3>5
  <2> QED BY <1>4, <2>1, <2>2
<1>20. ASSUME NEW x \in 1 .. G, NEW f \in 1 .. len[x], from[x] + f <= last
       PROVE  now[Offset(len, x) + f] = [of |-> job.episodes[x], row |-> rows[from[x] + f]]
  <2>0. no[x] = Offset(len, x) /\ no[x] \in Nat /\ from[x] \in Nat /\ len[x] \in Nat
    BY <1>1, <1>2
  <2>1. CASE from[x] + f <= first
    <3>1. had[no[x] + f] = [of |-> job.episodes[x], row |-> rows[from[x] + f]]
      BY <1>3, <2>1
    <3>2. no[x] + f <= Len(had)
      <4>1. CASE x < u
        <5>1. x + 1 \in 1 .. G + 1 /\ x + 1 <= u /\ u \in 1 .. G + 1
          BY <1>1, <1>3, <4>1
        <5>2. no[x + 1] = no[x] + len[x] /\ no[x + 1] <= no[u] /\ no[u] \in Nat
          BY <1>2, <5>1
        <5>3. no[u] <= Len(had)
          <6>1. CASE u <= G
            <7>1. from[u] \in Nat
              BY <1>1, <5>1, <6>1
            <7> QED BY <1>3, <5>2, <7>1
          <6>2. CASE ~(u <= G)
            BY <1>3, <5>2, <6>2
          <6> QED BY <6>1, <6>2
        <5> QED BY <1>3, <2>0, <5>2, <5>3
      <4>2. CASE x = u
        BY SMTT(40), <1>1, <1>3, <2>0, <2>1, <4>2
      <4>3. CASE u < x
        <5>1. u \in 1 .. G
          BY <1>1, <1>3, <4>3
        <5>2. from[u] + len[u] <= from[x] /\ from[u] \in Nat /\ len[u] \in Nat
          BY <1>1, <4>3, <5>1
        <5>3. from[u] + len[u] <= first
          BY <2>0, <2>1, <5>2
        <5> QED BY <1>1, <1>3, <5>1, <5>3
      <4> QED BY <1>1, <1>3, <4>1, <4>2, <4>3
    <3>3. no[x] + f \in 1 .. Len(had)
      BY <1>3, <2>0, <3>2
    <3> QED BY <1>16, <2>0, <3>1, <3>3
  <2>2. CASE ~(from[x] + f <= first)
    <3>1. u <= x /\ x \in u .. G
      <4>1. ~(from[x] + len[x] <= first)
        BY <2>0, <2>2
      <4> QED BY <1>1, <1>3, <4>1
    <3>2. x < u + c
      BY <1>4, <1>20, <2>0, <3>1
    <3> DEFINE i == x - u + 1
               j == from[x] + f - a(x)
    <3>3. i \in 1 .. c /\ u + i - 1 = x
      BY <1>3, <1>4, <3>1, <3>2
    <3> HIDE DEF i
    <3>4. /\ a(x) \in Nat /\ b(x) \in Nat
          /\ Len(parts[i]) = b(x) - a(x)
          /\ \A k \in 1 .. Len(parts[i]) :
               parts[i][k] = [of |-> job.episodes[x], row |-> rows[a(x) + k]]
      BY <1>7, <1>8, <3>1, <3>2, <3>3
    <3>5. off[i] = no[x] + a(x) - from[x] - Len(had)
      BY <1>11, <3>3
    <3>6. a(x) = IF from[x] >= first THEN from[x] ELSE first
      BY DEF a, Begins
    <3>7. b(x) = IF from[x] + len[x] <= last THEN from[x] + len[x] ELSE last
      BY DEF b, Closes
    <3>8. j \in 1 .. Len(parts[i])
      <4>1. f \in Nat /\ f >= 1 /\ f <= len[x] /\ from[x] + f <= last
            /\ from[x] + f > first
        BY <1>20, <2>0, <2>2
      <4>2. j >= 1 /\ j \in Int
        BY <2>0, <3>4, <3>6, <4>1
      <4>3. j <= b(x) - a(x)
        BY <2>0, <3>4, <3>7, <4>1
      <4> HIDE DEF j
      <4> QED BY <3>4, <4>2, <4>3
    <3>9. a(x) + j = from[x] + f
      BY <2>0, <3>4
    <3>10. Len(had) + (off[i] + j) = no[x] + f
      BY SMTT(40), <1>3, <2>0, <3>4, <3>5
    <3> HIDE DEF j
    <3>11. off[i] + j \in 1 .. off[c + 1] /\ more[off[i] + j] = parts[i][j]
      BY <1>15, <3>3, <3>8
    <3>12. now[Len(had) + (off[i] + j)] = more[off[i] + j]
      BY <1>16, <3>11
    <3>13. parts[i][j] = [of |-> job.episodes[x], row |-> rows[a(x) + j]]
      BY <3>4, <3>8
    <3> QED BY <2>0, <3>9, <3>10, <3>11, <3>12, <3>13
  <2> QED BY <2>1, <2>2
<1> QED
  BY <1>17, <1>18, <1>19, <1>20 DEF StreamInv, v, now

(* The batches of a file, one after another.                               *)
BatchSteps(h, job, rows, B, T) ==
  /\ h \in [0 .. B -> Streaming(T)] /\ h[0] = [number |-> 1, rows |-> <<>>]
  /\ \A b \in 1 .. B : h[b] = StreamBatch(job, rows, h[b - 1], (b - 1) * edit.batch)

(* Streaming is one batch after the other.                                 *)
LEMMA BatchesInOrder ==
  ASSUME NEW job, NEW from, NEW len, NEW G, NEW T,
         Streams(job, dataset.data[job.source], from, len, G, T),
         edit.batch \in Nat \ {0}
  PROVE  LET rows == dataset.data[job.source]
             B == (Len(rows) + edit.batch - 1) \div edit.batch
         IN  /\ B \in Nat
             /\ \E h : BatchSteps(h, job, rows, B, T) /\ Streamed(job) = h[B].rows
<1> DEFINE rows == dataset.data[job.source]
           B == (Len(rows) + edit.batch - 1) \div edit.batch
<1>a. Streams(job, rows, from, len, G, T)
  OBVIOUS
<1>b. B \in Nat
  <2> DEFINE l == Len(rows)
  <2>1. l \in Nat
    BY <1>a, LenProperties DEF Streams
  <2> HIDE DEF l
  <2>2. l + edit.batch - 1 \in Nat
    BY <2>1
  <2> DEFINE a == l + edit.batch - 1
  <2> HIDE DEF a
  <2>3. a \div edit.batch \in Nat
    BY <2>2, Quotients DEF a
  <2> QED BY <2>3 DEF a, l
<1> HIDE DEF B, rows
<1> DEFINE indices == [b \in 1 .. B |-> b]
           D == 1 .. B
           St == Streaming(T)
           base == [number |-> 1, rows |-> <<>>]
           pick == [s \in SUBSET D |-> Max(s)]
           Op(x, y) == StreamBatch(job, rows, x, (y - 1) * edit.batch)
           f == [p \in St \X D |-> Op(p[1], indices[p[2]])]
           Step(g, s) == StreamBatch(job, rows, g[s \ {Max(s)}], (indices[Max(s)] - 1) * edit.batch)
           Fold == CHOOSE g : g = [s \in SUBSET DOMAIN indices |->
                                     IF s = {} THEN base ELSE Step(g, s)]
<1>1. /\ DOMAIN indices = D /\ (\A i \in D : indices[i] = i) /\ D \in SUBSET Nat
      /\ B \in Nat
  BY <1>b
<1>2. base \in St
  <2>1. <<>> \in Seq(Mark(T)) /\ 1 \in Nat \ {0}
    BY EmptySeq
  <2> QED BY <2>1 DEF Streaming
<1>0. \A x \in St, i \in D : Op(x, indices[i]) \in St
  <2> SUFFICES ASSUME NEW x \in St, NEW i \in D PROVE Op(x, i) \in St
    BY <1>1
  <2> DEFINE first == (i - 1) * edit.batch
  <2>1. first \in Nat
    <3>1. i - 1 \in Nat
      OBVIOUS
    <3> QED BY <3>1
  <2> HIDE DEF first
  <2>2. StreamBatch(job, rows, x, first) \in Streaming(T)
    BY <1>a, <2>1, BatchIs
  <2> QED BY <2>2 DEF first
<1>3. f \in [St \X D -> St]
  <2>1. \A x \in St, i \in D : Op(x, indices[i]) \in St
    BY <1>0
  <2> HIDE DEF St, D, Op, indices
  <2> QED BY <2>1
<1>4. Picks(pick, D) /\ TakesMax(pick, D, B)
  <2>1. TakesMax(pick, D, B)
    BY <1>1 DEF TakesMax
  <2> HIDE DEF pick, D
  <2> QED BY <2>1, MaxPicks
<1>5. PICK g \in [SUBSET D -> St] : Folds(g, f, pick, base, D, St)
  <2>1. IsFiniteSet(D)
    <3>1. 1 \in Int /\ B \in Int
      BY <1>1
    <3> QED BY <3>1, FS_Interval
  <2>2. Picks(pick, D)
    BY <1>4
  <2> HIDE DEF D, St, base, pick, f
  <2> QED BY <1>2, <1>3, <2>1, <2>2, FoldExists
<1>6. \A s \in SUBSET D : s # {} => pick[s] = Max(s) /\ pick[s] \in D
  BY <1>4 DEF Picks, TakesMax
<1>7. \A x, s : s \in SUBSET D /\ s # {} /\ x \in St =>
        f[<<x, pick[s]>>] = Op(x, indices[Max(s)])
  <2> TAKE x, s
  <2> HAVE s \in SUBSET D /\ s # {} /\ x \in St
  <2>1. <<x, pick[s]>> \in St \X D /\ pick[s] = Max(s) /\ pick[s] \in D
    BY <1>6
  <2> HIDE DEF St, D, pick, indices, Op
  <2> QED BY <2>1
<1> HIDE DEF f
<1>s. \A h, s : Step(h, s) = Op(h[s \ {Max(s)}], indices[Max(s)])
  OBVIOUS
<1> HIDE DEF Op, Step
<1>8. g = [s \in SUBSET DOMAIN indices |-> IF s = {} THEN base ELSE Step(g, s)]
  <2>1. ASSUME NEW s \in SUBSET D, s # {} PROVE g[s] = Step(g, s)
    <3>1. pick[s] \in D /\ g[s \ {pick[s]}] \in St /\ pick[s] = Max(s)
      BY <1>6, <2>1
    <3>2. g[s] = f[<<g[s \ {pick[s]}], pick[s]>>]
      BY <1>5, <2>1, <3>1 DEF Folds
    <3> HIDE DEF St, D, indices, pick
    <3> QED BY <1>7, <1>s, <2>1, <3>1, <3>2
  <2>2. g[{}] = base /\ DOMAIN indices = D
    BY <1>1, <1>5 DEF Folds
  <2> HIDE DEF D, St, base, indices
  <2> QED BY <1>5, <2>1, <2>2
<1>9. Fold = [s \in SUBSET DOMAIN indices |-> IF s = {} THEN base ELSE Step(Fold, s)]
  <2> HIDE DEF D, St, base, indices
  <2> QED BY <1>8, Zenon
<1>10. Folds(Fold, f, pick, base, D, St)
  <2>1. ASSUME NEW s \in SUBSET D, s # {}, Fold[s \ {pick[s]}] \in St
        PROVE  Fold[s] = f[<<Fold[s \ {pick[s]}], pick[s]>>]
    <3>1. Fold[s] = Step(Fold, s)
      <4>1. DOMAIN indices = D
        BY <1>1
      <4> HIDE DEF Fold, base, D, indices
      <4> QED BY <1>9, <2>1, <4>1
    <3>2. pick[s] = Max(s) /\ pick[s] \in D
      BY <1>6, <2>1
    <3> HIDE DEF Fold, St, D, indices, pick
    <3> QED BY <1>7, <1>s, <2>1, <3>1, <3>2
  <2>2. Fold[{}] = base
    <3> HIDE DEF D, Fold, base, indices
    <3> QED BY <1>9
  <2> HIDE DEF Fold, pick, St, D, base
  <2> QED BY <2>1, <2>2 DEF Folds
<1>11. PICK h : Steps(h, f, base, B, St) /\ Fold[D] = h[B]
  <2> HIDE DEF Fold, pick, St, base, D
  <2>1. StepsWithin(f, base, D, St)
    BY <1>2, <1>3 DEF StepsWithin
  <2> QED BY <1>4, <1>10, <2>1, FoldInOrder
<1>12. Streamed(job) = Fold[D].rows
  <2>1. Streamed(job) = Fold[DOMAIN indices].rows
    BY Zenon DEF FoldLeft, MapThenFoldSet, Step, Streamed, rows, B
  <2>2. DOMAIN indices = D
    BY <1>1
  <2> HIDE DEF Fold, D, indices
  <2> QED BY <2>1, <2>2
<1>13. \A i \in 1 .. B : h[i] = Op(h[i - 1], indices[i])
  <2> TAKE i \in 1 .. B
  <2>1. i - 1 \in 0 .. B
    BY <1>1
  <2>2. <<h[i - 1], i>> \in St \X D
    BY <1>11, <2>1 DEF Steps
  <2>3. h[i] = f[<<h[i - 1], i>>]
    BY <1>11 DEF Steps
  <2> HIDE DEF St, D, indices
  <2> QED BY <2>2, <2>3 DEF f
<1>14. BatchSteps(h, job, rows, B, T)
  <2>1. \A b \in 1 .. B : h[b] = StreamBatch(job, rows, h[b - 1], (b - 1) * edit.batch)
    BY <1>1, <1>13 DEF Op
  <2>2. h \in [0 .. B -> St] /\ h[0] = base
    BY <1>11 DEF Steps
  <2> QED BY <2>1, <2>2 DEF BatchSteps
<1> QED
  <2> HIDE DEF Fold, D, St
  <2>1. \E k : BatchSteps(k, job, rows, B, T) /\ Streamed(job) = k[B].rows
    BY <1>11, <1>12, <1>14
  <2> QED BY <1>b, <2>1 DEF rows, B

(* Batches end at the multiples of their size, the last at the end.        *)
LEMMA BatchBounds ==
  ASSUME NEW l \in Nat, NEW size \in Nat \ {0}
  PROVE  LET B == (l + size - 1) \div size
         IN  /\ \A b \in Nat : b * size \in Nat /\ (b + 1) * size = b * size + size
             /\ 0 * size = 0
             /\ \A b \in Nat : b < B => b * size < l
             /\ B * size >= l
<1> DEFINE a == l + size - 1
           B == a \div size
<1>1. a \in Nat
  OBVIOUS
<1> HIDE DEF a
<1>2. B \in Nat /\ size * B <= a /\ \A c \in Nat : size * c <= a => c <= B
  BY <1>1, Quotients
<1> HIDE DEF B
<1>3. ASSUME NEW b \in Nat PROVE b * size \in Nat /\ (b + 1) * size = b * size + size
  OBVIOUS
<1>4. 0 * size = 0
  OBVIOUS
<1>5. ASSUME NEW b \in Nat, b < B PROVE b * size < l
  <2> DEFINE e == B - (b + 1)
  <2>1. e \in Nat /\ B = (b + 1) + e
    BY <1>2, <1>5
  <2> HIDE DEF e
  <2>2. size * B = (b + 1) * size + e * size
    BY <2>1
  <2>3. e * size \in Nat /\ b * size \in Nat /\ (b + 1) * size = b * size + size
    BY <1>3, <2>1
  <2> DEFINE p == b * size
             q == e * size
             r == size * B
  <2>4. p \in Nat /\ q \in Nat /\ r = p + size + q /\ r <= a
    BY <1>2, <2>2, <2>3
  <2> HIDE DEF p, q, r
  <2>5. p < l
    BY <1>1, <2>4 DEF a
  <2> QED BY <2>5 DEF p
<1>6. B * size >= l
  <2> SUFFICES ASSUME ~(B * size >= l) PROVE FALSE
    OBVIOUS
  <2> DEFINE p == B * size
  <2>1. p \in Nat /\ (B + 1) * size = p + size /\ ~(p >= l)
    BY <1>2, <1>3
  <2>2. size * (B + 1) = (B + 1) * size
    BY <1>2
  <2> HIDE DEF p
  <2>3. p + size <= a
    BY <2>1 DEF a
  <2>4. size * (B + 1) <= a
    BY <2>1, <2>2, <2>3
  <2>5. B + 1 \in Nat /\ ~(B + 1 <= B)
    BY <1>2
  <2> QED BY <1>2, <2>4, <2>5
<1> QED
  BY <1>3, <1>4, <1>5, <1>6 DEF a, B

(* All rows of a job, in its order of episodes.                            *)
StreamedAs(out, job, rows, from, len, G, T) ==
  /\ out \in Seq(Mark(T)) /\ Len(out) = Offset(len, G + 1)
  /\ \A x \in 1 .. G : \A f \in 1 .. len[x] :
       out[Offset(len, x) + f] = [of |-> job.episodes[x], row |-> rows[from[x] + f]]

(* Streaming a file in batches is reading it episode by episode.           *)
LEMMA StreamedIs ==
  ASSUME NEW job, NEW from, NEW len, NEW G, NEW T,
         Streams(job, dataset.data[job.source], from, len, G, T),
         edit.batch \in Nat \ {0}
  PROVE  StreamedAs(Streamed(job), job, dataset.data[job.source], from, len, G, T)
<1> DEFINE rows == dataset.data[job.source]
           l == Len(rows)
           size == edit.batch
           B == (l + size - 1) \div size
           t(b) == IF b * size <= l THEN b * size ELSE l
<1>1. /\ Streams(job, rows, from, len, G, T) /\ size \in Nat \ {0}
      /\ G \in Nat /\ l \in Nat /\ len \in [1 .. G -> Nat]
      /\ \A x \in 1 .. G : from[x] \in Nat /\ len[x] \in Nat /\ len[x] > 0
                           /\ from[x] + len[x] <= l
  <2>1. Streams(job, rows, from, len, G, T)
    OBVIOUS
  <2> HIDE DEF rows
  <2>2. /\ rows \in Seq(T) /\ G \in Nat /\ from \in [1 .. G -> Nat]
        /\ len \in [1 .. G -> Nat \ {0}]
        /\ \A x \in 1 .. G : from[x] + len[x] <= l
    BY <2>1, Zenon DEF Streams
  <2>3. l \in Nat
    BY <2>2, LenProperties
  <2> HIDE DEF l
  <2> QED BY <2>1, <2>2, <2>3
<1>2. PICK h : B \in Nat /\ BatchSteps(h, job, rows, B, T) /\ Streamed(job) = h[B].rows
  BY BatchesInOrder
<1> HIDE DEF rows, l, size
<1>3. /\ \A b \in Nat : b * size \in Nat /\ (b + 1) * size = b * size + size
      /\ 0 * size = 0
      /\ \A b \in Nat : b < B => b * size < l
      /\ B * size >= l
  BY <1>1, BatchBounds
<1> HIDE DEF B
<1>4. /\ h \in [0 .. B -> Streaming(T)] /\ h[0] = [number |-> 1, rows |-> <<>>]
      /\ \A b \in 1 .. B : h[b] = StreamBatch(job, rows, h[b - 1], (b - 1) * size)
  BY <1>2, Zenon DEF BatchSteps, size
<1> DEFINE P(b) == StreamInv(h[b], job, rows, from, len, G, T, t(b))
           Good == {b \in Nat : b <= B => P(b)}
<1>5. P(0)
  <2>1. t(0) = 0
    BY <1>1, <1>3
  <2>2. Offset(len, 1) = 0
    BY <1>1, PlacesAdd DEF Offset, PlaceOf
  <2>3. Len(<<>>) = 0
    BY EmptySeq
  <2>4. h[0] \in Streaming(T) /\ h[0].number = 1 /\ h[0].rows = <<>>
    BY <1>2, <1>4
  <2>5. 1 \in 1 .. G + 1
    BY <1>1
  <2>6. \A x \in 1 .. G : x < 1 <=> from[x] + len[x] <= 0
    BY <1>1
  <2>7. Got(from, len, G, 1, 0) = 0
    <3>1. ~(1 <= G /\ 0 > from[1])
      BY <1>1
    <3> QED BY <2>2, <3>1 DEF Got
  <2>8. \A x \in 1 .. G : \A f \in 1 .. len[x] : ~(from[x] + f <= 0)
    BY <1>1
  <2> HIDE DEF t
  <2>9. StreamInv(h[0], job, rows, from, len, G, T, 0)
    BY <2>3, <2>4, <2>5, <2>6, <2>7, <2>8 DEF StreamInv
  <2> QED BY <2>1, <2>9
<1>6. ASSUME NEW b \in Nat, b + 1 <= B, P(b) PROVE P(b + 1)
  <2> DEFINE first == b * size
             last == t(b + 1)
             next == h[b + 1]
  <2>1. b < B /\ b \in 0 .. B /\ b + 1 \in 1 .. B /\ b + 1 - 1 = b
    BY <1>2, <1>6
  <2>2. first \in Nat /\ first < l /\ t(b) = first
    BY <1>1, <1>3, <2>1
  <2>3. next = StreamBatch(job, rows, h[b], first) /\ h[b] \in Streaming(T)
    BY <1>4, <2>1
  <2>4. last = IF first + size <= l THEN first + size ELSE l
    BY <1>3
  <2>5. P(b) <=> StreamInv(h[b], job, rows, from, len, G, T, first)
    BY <2>2
  <2>6. P(b + 1) <=> StreamInv(next, job, rows, from, len, G, T, last)
    OBVIOUS
  <2> HIDE DEF first, last, next, P, t
  <2>7. /\ Min({first + size, l}) = last
        /\ \E c, d, parts :
             BatchOf(next, h[b], job, rows, from, len, G, T, first, last, c, d, parts)
        /\ next \in Streaming(T)
    <3> DEFINE end == Min({first + size, l})
    <3>1. /\ end = IF first + size <= l THEN first + size ELSE l
          /\ \E c, d, parts :
               BatchOf(StreamBatch(job, rows, h[b], first), h[b], job, rows, from, len, G, T,
                       first, end, c, d, parts)
          /\ StreamBatch(job, rows, h[b], first) \in Streaming(T)
      BY <1>1, <2>2, <2>3, BatchIs DEF l, size
    <3> HIDE DEF end
    <3>2. end = last
      BY <2>4, <3>1
    <3> QED BY <2>3, <3>1, <3>2 DEF end
  <2>8. PICK c, d, parts :
          BatchOf(next, h[b], job, rows, from, len, G, T, first, last, c, d, parts)
    BY <2>7
  <2>9. last \in Nat /\ first < last /\ last <= l
    BY <1>1, <2>2, <2>4
  <2>10. StreamInv(h[b], job, rows, from, len, G, T, first)
    BY <1>6, <2>5
  <2>11. StreamInv(next, job, rows, from, len, G, T, last)
    BY <1>1, <2>2, <2>7, <2>8, <2>9, <2>10, BatchKeeps DEF l
  <2> QED BY <2>6, <2>11
<1> HIDE DEF P, t
<1>7. 0 \in Good /\ \A b \in Good : b + 1 \in Good
  <2>1. 0 \in Good
    BY <1>5
  <2>2. ASSUME NEW b \in Good PROVE b + 1 \in Good
    <3>1. b \in Nat /\ b + 1 \in Nat /\ (b <= B => P(b))
      OBVIOUS
    <3>2. b + 1 <= B => b <= B
      BY <1>2, <3>1
    <3>3. b + 1 <= B => P(b + 1)
      BY <1>6, <3>1, <3>2
    <3> QED BY <3>1, <3>3
  <2> HIDE DEF Good
  <2> QED BY <2>1, <2>2
<1>8. Good = Nat
  <2>1. Good \in SUBSET Nat
    OBVIOUS
  <2> HIDE DEF Good
  <2> QED BY <1>7, <2>1, SetInduction
<1>9. P(B)
  <2>1. B \in Good /\ B <= B
    BY <1>2, <1>8
  <2> QED BY <2>1
<1>10. t(B) = l
  BY <1>1, <1>2, <1>3 DEF t
<1> DEFINE u == h[B].number
           out == h[B].rows
<1>11. /\ h[B] \in Streaming(T) /\ u \in 1 .. G + 1
       /\ \A x \in 1 .. G : x < u <=> from[x] + len[x] <= l
       /\ Len(out) = Got(from, len, G, u, l)
       /\ \A x \in 1 .. G : \A f \in 1 .. len[x] : from[x] + f <= l =>
            out[Offset(len, x) + f] = [of |-> job.episodes[x], row |-> rows[from[x] + f]]
  <2>1. StreamInv(h[B], job, rows, from, len, G, T, l)
    BY <1>9, <1>10 DEF P
  <2> QED BY <2>1, Zenon DEF StreamInv
<1>12. out \in Seq(Mark(T))
  BY <1>11 DEF Streaming
<1> HIDE DEF u, out
<1>13. u = G + 1
  <2>1. CASE G = 0
    BY <1>11, <2>1
  <2>2. CASE G # 0
    <3>1. G \in 1 .. G
      BY <1>1, <2>2
    <3>2. G < u
      BY <1>1, <1>11, <3>1
    <3> QED BY <1>1, <1>11, <3>2
  <2> QED BY <2>1, <2>2
<1>14. Len(out) = Offset(len, G + 1)
  <2>1. ~(u <= G)
    BY <1>1, <1>13
  <2>2. Offset(len, G + 1) \in Nat
    <3>1. G + 1 \in 1 .. G + 1
      BY <1>1
    <3> QED BY <1>1, <3>1, OffsetProperties
  <2> QED BY <1>11, <1>13, <2>1, <2>2 DEF Got
<1>15. ASSUME NEW x \in 1 .. G, NEW f \in 1 .. len[x]
       PROVE  out[Offset(len, x) + f] = [of |-> job.episodes[x], row |-> rows[from[x] + f]]
  <2>1. from[x] + f <= l
    BY <1>1
  <2> QED BY <1>11, <2>1
<1> QED
  BY <1>2, <1>12, <1>14, <1>15 DEF out, rows, StreamedAs

-----------------------------------------------------------------------------
(* Shards: what is rewritten or cloned has the rows it should have.        *)

(* What an edit is given.                                                  *)
EditBase == recording \in Recordings /\ dataset = Source(recording) /\ edit \in Edits

(* What is kept of what was recorded.                                      *)
KeptFacts(n, m) ==
  /\ n \in Nat \ {0} /\ m \in Nat /\ Count = n /\ Len(dataset.meta) = n
  /\ DOMAIN dataset.meta = 1 .. n
  /\ n = Len(recording.lens) /\ recording.lens \in [1 .. n -> Nat \ {0}]
  /\ \A i \in 1 .. n : LengthOf(i) = recording.lens[i]
  /\ DOMAIN Kept = 1 .. m /\ Len(Kept) = m /\ Rising(Kept, m, n)
  /\ NewLens \in [1 .. m -> Nat \ {0}]
  /\ \A k \in 1 .. m : Kept[k] \in 1 .. n /\ NewLens[k] = recording.lens[Kept[k]]
  /\ dataset.version \in Versions /\ dataset.version = recording.version
  /\ edit.batch \in Nat \ {0}

(* The numbers of the retained episodes, from those of the source.         *)
LEMMA KeptFactsHold ==
  ASSUME EditBase
  PROVE  KeptFacts(Len(recording.lens), Len(Kept))
<1> DEFINE n == Len(recording.lens)
           m == Len(Kept)
           S == {i \in 1 .. Count : i - 1 \notin edit.delete}
<1>1. recording \in Recordings /\ edit \in Edits /\ dataset = Source(recording)
  BY DEF EditBase
<1>2. /\ n \in Nat \ {0} /\ recording.lens \in [1 .. n -> Nat \ {0}]
      /\ recording.version \in Versions
  BY <1>1, RecordingIs
<1>3. SourceMeta(dataset, recording)
  BY <1>1, SourceIs
<1>4. /\ dataset.version = recording.version /\ DOMAIN dataset.meta = 1 .. n
      /\ Len(dataset.meta) = n
      /\ \A i \in 1 .. n : dataset.meta[i].length = recording.lens[i]
  BY <1>3 DEF SourceMeta
<1>5. Count = n /\ \A i \in 1 .. n : LengthOf(i) = recording.lens[i]
  BY <1>4 DEF Count, LengthOf
<1> HIDE DEF n
<1>6. m \in Nat /\ DOMAIN Kept = 1 .. m /\ Kept \in [1 .. m -> 1 .. n]
  <2>1. Count \in Nat
    BY <1>2, <1>5
  <2> QED BY <1>5, <2>1, KeptType
<1> HIDE DEF m
<1>7. \A j, k \in 1 .. m : j < k => Kept[j] < Kept[k]
  <2>1. S \in SUBSET Nat /\ S \in SUBSET (1 .. Count) /\ Count \in Nat
    BY <1>2, <1>5
  <2>2. IsFiniteSet(1 .. Count)
    <3>1. 1 \in Int /\ Count \in Int
      BY <2>1
    <3> QED BY <3>1, FS_Interval
  <2>3. Kept = Ascending(S)
    BY DEF Kept
  <2> HIDE DEF S
  <2>4. IsFiniteSet(S)
    BY <2>1, <2>2, FS_Subset
  <2>5. Cardinality(S) \in Nat /\ Ascending(S) \in [1 .. Cardinality(S) -> S]
    BY <2>1, <2>4, AscendingType
  <2>6. Cardinality(S) = m
    <3>1. 1 .. Cardinality(S) = 1 .. m
      BY <1>6, <2>3, <2>5
    <3> QED BY <1>6, <2>5, <3>1
  <2> QED BY <2>1, <2>3, <2>4, <2>6, AscendingGrows
<1>8. NewLens \in [1 .. m -> Nat \ {0}]
      /\ \A k \in 1 .. m : Kept[k] \in 1 .. n /\ NewLens[k] = recording.lens[Kept[k]]
  <2>1. NewLens = [k \in 1 .. m |-> LengthOf(Kept[k])]
    BY <1>6 DEF NewLens
  <2>2. \A k \in 1 .. m : Kept[k] \in 1 .. n
    BY <1>6
  <2>3. \A k \in 1 .. m : LengthOf(Kept[k]) = recording.lens[Kept[k]]
                          /\ LengthOf(Kept[k]) \in Nat \ {0}
    BY <1>2, <1>5, <2>2
  <2> QED BY <2>1, <2>2, <2>3
<1>9. edit.batch \in Nat \ {0}
  BY <1>1, EditorAssumption DEF EditorAssumption
<1> QED
  BY <1>2, <1>4, <1>5, <1>6, <1>7, <1>8, <1>9 DEF KeptFacts, Rising, n, m

(* The file of each retained episode.                                      *)
KeptIn(paths) == [k \in 1 .. Len(Kept) |-> paths[Kept[k]]]

(* The rows a finished edit holds, episode by episode.                     *)
NewRows ==
  [k \in 1 .. Len(Kept) |->
    [f \in 1 .. NewLens[k] |-> EditRow(k, RecordedRow(recording, Kept[k], f))]]

(* The retained part of a source file follows its episodes.                *)
LEMMA SpansRise ==
  ASSUME NEW n \in Nat, NEW lens \in [1 .. n -> Nat \ {0}],
         NEW i \in 1 .. n, NEW j \in 1 .. n, i < j
  PROVE  /\ Offset(lens, i) \in Nat /\ Offset(lens, j) \in Nat
         /\ Offset(lens, i) + lens[i] <= Offset(lens, j)
<1>1. lens \in [1 .. n -> Nat]
  OBVIOUS
<1>2. i \in 1 .. n + 1 /\ i + 1 \in 1 .. n + 1 /\ j \in 1 .. n + 1 /\ i + 1 <= j
  OBVIOUS
<1>3. /\ Offset(lens, i) \in Nat /\ Offset(lens, j) \in Nat
      /\ Offset(lens, i + 1) = Offset(lens, i) + lens[i]
      /\ Offset(lens, i + 1) <= Offset(lens, j)
  BY <1>1, <1>2, OffsetProperties
<1> QED
  BY <1>3

(* The episodes from s to before e are in the file a job reads, and those  *)
(* of the job among them.                                                  *)
Holds(job, K, files, paths, at, lens, pieces, n, s, e) ==
  /\ s \in 1 .. n /\ e \in s + 1 .. n + 1
  /\ \A j \in 1 .. n : paths[j] = job.source <=> s <= j /\ j < e
  /\ \A k \in FirstOf(job) .. EndOf(job) - 1 :
       /\ s <= K[k] /\ K[k] < e
       /\ at[K[k]] = Offset(lens, K[k]) - Offset(lens, s)
  /\ Compact(files[job.source], s, e, lens, pieces)

(* The episodes of a job lie in the one run of its source file.            *)
LEMMA RunInFile ==
  ASSUME NEW n \in Nat, NEW lens, NEW files, NEW paths, NEW at, NEW pieces,
         NEW lo, NEW hi, Stored(files, paths, at, lens, pieces, n, lo, hi),
         NEW m \in Nat, NEW K, Rising(K, m, n),
         NEW kept, kept = [k \in 1 .. m |-> paths[K[k]]],
         NEW job, NEW version, TakesRun(job, kept, m, version)
  PROVE  \E s, e : Holds(job, K, files, paths, at, lens, pieces, n, s, e)
<1> DEFINE a == FirstOf(job)
           b == EndOf(job)
<1>1. /\ a \in 1 .. m /\ b \in a + 1 .. m + 1
      /\ \A k \in 1 .. m : kept[k] = job.source <=> a <= k /\ k < b
  BY DEF TakesRun
<1> HIDE DEF a, b
<1>2. \A k \in 1 .. m : K[k] \in 1 .. n /\ kept[k] = paths[K[k]]
  BY DEF Rising
<1>3. /\ Runs(paths, n, lo, hi)
      /\ \A i \in 1 .. n : /\ at[i] = Offset(lens, i) - Offset(lens, lo[i])
                           /\ Compact(files[paths[i]], lo[i], hi[i], lens, pieces)
  BY DEF Stored
<1>4. \A i \in 1 .. n :
        /\ lo[i] \in 1 .. i /\ hi[i] \in i + 1 .. n + 1
        /\ \A j \in 1 .. n : paths[j] = paths[i] <=> lo[i] <= j /\ j < hi[i]
  BY <1>3 DEF Runs
<1> DEFINE i == K[a]
           s == lo[i]
           e == hi[i]
<1>5. i \in 1 .. n /\ paths[i] = job.source
  BY <1>1, <1>2
<1> HIDE DEF i
<1>6. s \in 1 .. i /\ e \in i + 1 .. n + 1
      /\ \A j \in 1 .. n : paths[j] = job.source <=> s <= j /\ j < e
  BY <1>4, <1>5
<1>7. s \in 1 .. n /\ e \in s + 1 .. n + 1
  BY <1>5, <1>6
<1>8. ASSUME NEW k \in a .. b - 1
      PROVE  /\ s <= K[k] /\ K[k] < e
             /\ at[K[k]] = Offset(lens, K[k]) - Offset(lens, s)
  <2>1. k \in 1 .. m /\ a <= k /\ k < b
    BY <1>1
  <2> DEFINE j == K[k]
  <2>2. j \in 1 .. n /\ paths[j] = job.source
    BY <1>1, <1>2, <2>1
  <2> HIDE DEF j
  <2>3. s <= j /\ j < e
    BY <1>6, <2>2
  <2>4. lo[j] \in 1 .. n /\ lo[j] < hi[j] /\ lo[j] \in Nat /\ hi[j] \in Nat
    BY <1>4, <2>2
  <2>5. paths[lo[j]] = paths[j]
    BY <1>4, <2>2, <2>4
  <2>6. s <= lo[j]
    BY <1>6, <2>2, <2>4, <2>5
  <2>7. paths[s] = paths[j]
    <3>1. s <= s /\ s < e
      BY <1>7
    <3> QED
      BY <1>6, <1>7, <2>2, <3>1
  <2>8. lo[j] <= s
    BY <1>4, <1>7, <2>2, <2>7
  <2>9. lo[j] = s
    BY <1>7, <2>4, <2>6, <2>8
  <2> QED
    BY <1>3, <2>2, <2>3, <2>9 DEF j
<1>9. Compact(files[job.source], s, e, lens, pieces)
  BY <1>3, <1>5
<1>10. Holds(job, K, files, paths, at, lens, pieces, n, s, e)
  <2> HIDE DEF s, e
  <2> QED
    BY <1>6, <1>7, <1>8, <1>9 DEF Holds, a, b
<1> QED
  BY <1>10

(* The file is a sequence, and the ranges of the job lie in it in order.   *)
Ranges(job, K, file, at, lens, pieces) ==
  /\ file \in Seq(Range(file)) /\ DOMAIN file = 1 .. Len(file)
  /\ \A k \in FirstOf(job) .. EndOf(job) - 1 :
       /\ at[K[k]] \in Nat /\ lens[K[k]] \in Nat \ {0}
       /\ at[K[k]] + lens[K[k]] <= Len(file)
       /\ \A f \in 1 .. lens[K[k]] : file[at[K[k]] + f] = pieces[K[k]][f]
  /\ \A j, k \in FirstOf(job) .. EndOf(job) - 1 : j < k =>
       at[K[j]] + lens[K[j]] <= at[K[k]]

(* Their ranges are inside the file, in order and apart.                   *)
LEMMA RangesInFile ==
  ASSUME NEW n \in Nat, NEW lens \in [1 .. n -> Nat \ {0}],
         NEW files, NEW paths, NEW at, NEW pieces,
         NEW m \in Nat, NEW K, Rising(K, m, n),
         NEW job, FirstOf(job) \in 1 .. m, EndOf(job) \in FirstOf(job) + 1 .. m + 1,
         NEW s, NEW e, Holds(job, K, files, paths, at, lens, pieces, n, s, e)
  PROVE  /\ Ranges(job, K, files[job.source], at, lens, pieces)
         /\ Len(files[job.source]) = Offset(lens, e) - Offset(lens, s)
<1> DEFINE a == FirstOf(job)
           b == EndOf(job)
           file == files[job.source]
           l == Offset(lens, e) - Offset(lens, s)
           off == [i \in 1 .. n + 1 |-> Offset(lens, i)]
<1>1. a \in 1 .. m /\ b \in a + 1 .. m + 1
  OBVIOUS
<1>2. /\ s \in 1 .. n /\ e \in s + 1 .. n + 1
      /\ \A k \in a .. b - 1 : /\ s <= K[k] /\ K[k] < e
                               /\ at[K[k]] = Offset(lens, K[k]) - Offset(lens, s)
      /\ Compact(file, s, e, lens, pieces)
  BY DEF Holds
<1> HIDE DEF a, b
<1>3. lens \in [1 .. n -> Nat] /\ \A i \in 1 .. n : lens[i] \in Nat \ {0}
  OBVIOUS
<1>4. /\ \A i \in 1 .. n + 1 : off[i] \in Nat
      /\ \A i \in 1 .. n : off[i + 1] = off[i] + lens[i]
      /\ \A i, j \in 1 .. n + 1 : i <= j => off[i] <= off[j]
  <2>1. /\ \A i \in 1 .. n + 1 : Offset(lens, i) \in Nat
        /\ \A i \in 1 .. n : Offset(lens, i + 1) = Offset(lens, i) + lens[i]
        /\ \A i, j \in 1 .. n + 1 : i <= j => Offset(lens, i) <= Offset(lens, j)
    BY <1>3, OffsetProperties
  <2> QED
    BY <2>1
<1>5. s \in 1 .. n + 1 /\ e \in 1 .. n + 1 /\ s <= e
  BY <1>2
<1>6. l \in Nat /\ l = off[e] - off[s]
  BY <1>4, <1>5
<1>7. file = [q \in 1 .. l |-> file[q]]
  BY <1>2 DEF Compact
<1>8. Len(file) = l /\ file \in Seq(Range(file))
  <2> HIDE DEF file, l
  <2> QED
    BY <1>6, <1>7, LenOfFunction
<1>9. DOMAIN file = 1 .. Len(file)
  <2> HIDE DEF file, l
  <2> QED
    BY <1>7, <1>8
<1>10. ASSUME NEW k \in a .. b - 1
       PROVE  /\ K[k] \in 1 .. n /\ K[k] \in s .. e - 1
              /\ at[K[k]] = off[K[k]] - off[s]
  <2>1. k \in 1 .. m
    BY <1>1
  <2>2. K[k] \in 1 .. n
    BY <2>1 DEF Rising
  <2> QED
    BY <1>2, <2>2
<1> HIDE DEF off
<1>11. ASSUME NEW k \in a .. b - 1
       PROVE  /\ at[K[k]] \in Nat /\ lens[K[k]] \in Nat \ {0}
              /\ at[K[k]] + lens[K[k]] <= Len(file)
  <2> DEFINE j == K[k]
  <2>1. j \in 1 .. n /\ j \in s .. e - 1 /\ at[j] = off[j] - off[s]
    BY <1>10
  <2> HIDE DEF j
  <2>2. off[s] <= off[j] /\ off[j + 1] <= off[e] /\ off[j + 1] = off[j] + lens[j]
    <3>1. /\ j \in 1 .. n + 1 /\ j + 1 \in 1 .. n + 1 /\ s <= j /\ j + 1 <= e
      BY <1>2, <2>1
    <3> QED
      BY <1>4, <1>5, <2>1, <3>1
  <2>3. off[s] \in Nat /\ off[j] \in Nat /\ off[e] \in Nat /\ lens[j] \in Nat \ {0}
    BY <1>3, <1>4, <1>5, <2>1
  <2>4. at[j] \in Nat /\ at[j] + lens[j] <= off[e] - off[s]
    BY SMTT(40), <2>1, <2>2, <2>3
  <2> QED
    BY <1>6, <1>8, <2>3, <2>4 DEF j
<1>12. ASSUME NEW k \in a .. b - 1, NEW f \in 1 .. lens[K[k]]
       PROVE  file[at[K[k]] + f] = pieces[K[k]][f]
  <2>1. K[k] \in s .. e - 1 /\ at[K[k]] = Offset(lens, K[k]) - Offset(lens, s)
    BY <1>2, <1>10
  <2> QED
    BY <1>2, <2>1 DEF Compact
<1>13. ASSUME NEW j \in a .. b - 1, NEW k \in a .. b - 1, j < k
       PROVE  at[K[j]] + lens[K[j]] <= at[K[k]]
  <2>1. j \in 1 .. m /\ k \in 1 .. m
    BY <1>1
  <2>2. K[j] < K[k]
    BY <1>13, <2>1 DEF Rising
  <2> DEFINE p == K[j]
             q == K[k]
  <2>3. /\ p \in 1 .. n /\ q \in 1 .. n /\ p < q
        /\ at[p] = off[p] - off[s] /\ at[q] = off[q] - off[s]
    BY <1>10, <2>2
  <2> HIDE DEF p, q
  <2>4. /\ off[p + 1] = off[p] + lens[p] /\ off[p + 1] <= off[q]
        /\ off[p] \in Nat /\ off[q] \in Nat /\ off[s] \in Nat /\ lens[p] \in Nat
    BY <1>3, <1>4, <1>5, <2>3
  <2>5. at[p] + lens[p] <= at[q]
    <3> DEFINE op == off[p]
               oq == off[q]
               os == off[s]
               lp == lens[p]
    <3>1. op + lp <= oq /\ op \in Nat /\ oq \in Nat /\ os \in Nat /\ lp \in Nat
      BY <2>4
    <3>2. at[p] = op - os /\ at[q] = oq - os
      BY <2>3
    <3> HIDE DEF op, oq, os, lp
    <3>3. (op - os) + lp <= oq - os
      BY <3>1
    <3> QED
      BY <3>2, <3>3 DEF lp
  <2> QED
    BY <2>5 DEF p, q
<1>14. Ranges(job, K, file, at, lens, pieces)
  <2> HIDE DEF file
  <2> QED
    BY <1>8, <1>9, <1>11, <1>12, <1>13 DEF Ranges, a, b
<1> QED
  BY <1>8, <1>14

(* A part of the lengths, measured from where it begins.                   *)
Shifts(lens, a, part, l) ==
  \A x \in 1 .. l + 1 : /\ Offset(part, x) \in Nat
                       /\ Offset(lens, a + x - 1) = Offset(lens, a) + Offset(part, x)

(* Offsets within a part are those of the whole, shifted.                  *)
LEMMA PartShifts ==
  ASSUME NEW n \in Nat, NEW lens \in [1 .. n -> Nat],
         NEW l \in Nat, NEW a \in 1 .. n + 1, a + l <= n + 1,
         NEW part \in [1 .. l -> Nat], \A x \in 1 .. l : part[x] = lens[a + x - 1]
  PROVE  Shifts(lens, a, part, l)
<1> DEFINE o == a - 1
<1>1. /\ o \in Nat /\ o + l <= n /\ o + 1 = a
      /\ \A x \in 1 .. l + 1 : o + x = a + x - 1
  OBVIOUS
<1> HIDE DEF o
<1>2. \A x \in 1 .. l : lens[o + x] = part[x]
  <2>1. \A x \in 1 .. l : o + x = a + x - 1
    BY <1>1
  <2> QED
    BY <2>1
<1>3. \A x \in 1 .. l + 1 : Offset(lens, o + x) = Offset(lens, o + 1) + Offset(part, x)
  <2>1. o + l <= n /\ o \in Nat
    BY <1>1
  <2> QED
    BY <1>2, <2>1, OffsetShift, Zenon
<1>4. \A x \in 1 .. l + 1 : Offset(part, x) \in Nat
  BY OffsetProperties
<1> QED
  BY <1>1, <1>3, <1>4 DEF Shifts

(* Where the rows of a job are.                                            *)
LEMMA RowsHeld ==
  ASSUME EditBase,
         NEW lo, NEW hi, RowsStored(dataset, Len(recording.lens), recording.lens,
                                    RecordedRows(recording), lo, hi),
         NEW job, TakesRun(job, KeptIn(DataPaths), Len(Kept), dataset.version)
  PROVE  LET n == Len(recording.lens)
             at == [i \in 1 .. n |-> DataStart(dataset, i)]
         IN  \E s, e : Holds(job, Kept, dataset.data, DataPaths, at, recording.lens,
                            RecordedRows(recording), n, s, e)
<1> DEFINE n == Len(recording.lens)
           m == Len(Kept)
           lens == recording.lens
           paths == [i \in 1 .. n |-> DataFile(dataset, i)]
           at == [i \in 1 .. n |-> DataStart(dataset, i)]
           pieces == RecordedRows(recording)
           kept == KeptIn(DataPaths)
<1>1. n \in Nat \ {0} /\ m \in Nat /\ Count = n /\ Rising(Kept, m, n)
  BY KeptFactsHold DEF KeptFacts
<1>2. DataPaths = paths
  BY <1>1 DEF DataPaths
<1>3. Stored(dataset.data, paths, at, lens, pieces, n, lo, hi)
  BY DEF RowsStored
<1>4. kept = [k \in 1 .. m |-> paths[Kept[k]]]
  BY <1>2 DEF KeptIn
<1>5. TakesRun(job, kept, m, dataset.version)
  OBVIOUS
<1> HIDE DEF n, m, lens, paths, at, pieces, kept
<1>6. \E s, e : Holds(job, Kept, dataset.data, paths, at, lens, pieces, n, s, e)
  BY <1>1, <1>3, <1>4, <1>5, RunInFile
<1> QED
  BY <1>2, <1>6 DEF n, lens, at, pieces

(* The rows of a job that is written anew.                                 *)
LEMMA JobStreams ==
  ASSUME EditBase,
         NEW lo, NEW hi, RowsStored(dataset, Len(recording.lens), recording.lens,
                                    RecordedRows(recording), lo, hi),
         NEW job, TakesRun(job, KeptIn(DataPaths), Len(Kept), dataset.version)
  PROVE  LET a == FirstOf(job)
             G == EndOf(job) - a
             rows == dataset.data[job.source]
             from == [x \in 1 .. G |-> DataStart(dataset, Kept[a + x - 1])]
             len == [x \in 1 .. G |-> NewLens[a + x - 1]]
         IN  /\ Streams(job, rows, from, len, G, Range(rows))
             /\ \A x \in 1 .. G : \A f \in 1 .. len[x] :
                  rows[from[x] + f] = RecordedRow(recording, Kept[a + x - 1], f)
<1> DEFINE n == Len(recording.lens)
           m == Len(Kept)
           lens == recording.lens
           a == FirstOf(job)
           b == EndOf(job)
           G == b - a
           rows == dataset.data[job.source]
           paths == [i \in 1 .. n |-> DataFile(dataset, i)]
           at == [i \in 1 .. n |-> DataStart(dataset, i)]
           from == [x \in 1 .. G |-> DataStart(dataset, Kept[a + x - 1])]
           len == [x \in 1 .. G |-> NewLens[a + x - 1]]
           pieces == RecordedRows(recording)
<1>1. KeptFacts(n, m)
  BY KeptFactsHold
<1>2. /\ n \in Nat \ {0} /\ m \in Nat /\ Count = n /\ lens \in [1 .. n -> Nat \ {0}]
      /\ Rising(Kept, m, n) /\ NewLens \in [1 .. m -> Nat \ {0}]
      /\ \A k \in 1 .. m : Kept[k] \in 1 .. n /\ NewLens[k] = lens[Kept[k]]
  BY <1>1 DEF KeptFacts
<1>3. /\ a \in 1 .. m /\ b \in a + 1 .. m + 1 /\ job.episodes = Span(a, b)
  BY DEF TakesRun
<1>4. DataPaths = paths
  BY <1>2 DEF DataPaths
<1>6. \A i \in 1 .. n : at[i] = DataStart(dataset, i)
  OBVIOUS
<1>7. \A i \in 1 .. n : pieces[i] = [f \in 1 .. lens[i] |-> RecordedRow(recording, i, f)]
  BY <1>2 DEF RecordedRows
<1> HIDE DEF n, m, lens, a, b, paths, at, pieces
<1>8. PICK s, e : Holds(job, Kept, dataset.data, paths, at, lens, pieces, n, s, e)
  BY <1>4, RowsHeld DEF n, lens, at, pieces
<1>9. Ranges(job, Kept, rows, at, lens, pieces)
  BY <1>2, <1>3, <1>8, RangesInFile DEF a, b
<1>10. G \in Nat /\ \A x \in 1 .. G : a + x - 1 \in a .. b - 1 /\ a + x - 1 \in 1 .. m
  BY <1>3, <1>2
<1>11. /\ rows \in Seq(Range(rows))
       /\ \A k \in a .. b - 1 :
            /\ at[Kept[k]] \in Nat /\ lens[Kept[k]] \in Nat \ {0}
            /\ at[Kept[k]] + lens[Kept[k]] <= Len(rows)
            /\ \A f \in 1 .. lens[Kept[k]] : rows[at[Kept[k]] + f] = pieces[Kept[k]][f]
       /\ \A j, k \in a .. b - 1 : j < k => at[Kept[j]] + lens[Kept[j]] <= at[Kept[k]]
  BY <1>9 DEF Ranges, a, b
<1>12. Len(job.episodes) = G /\ \A x \in 1 .. G : job.episodes[x] = a + x - 1
  <2>1. a \in Nat /\ b \in Nat /\ a < b
    BY <1>2, <1>3
  <2>2. Len(Span(a, b)) = b - a /\ \A x \in 1 .. b - a : Span(a, b)[x] = a + x - 1
    BY <2>1, SpanProperties
  <2> QED
    BY <1>3, <2>2
<1> HIDE DEF rows, G
<1>13. \A x \in 1 .. G : /\ from[x] = at[Kept[a + x - 1]] /\ len[x] = lens[Kept[a + x - 1]]
                         /\ from[x] = DataStart(dataset, Kept[job.episodes[x]])
                         /\ len[x] = NewLens[job.episodes[x]]
  BY <1>2, <1>6, <1>10, <1>12
<1>14. from \in [1 .. G -> Nat] /\ len \in [1 .. G -> Nat \ {0}]
  <2>1. \A x \in 1 .. G : from[x] \in Nat /\ len[x] \in Nat \ {0}
    BY <1>10, <1>11, <1>13
  <2> QED
    BY <2>1
<1> HIDE DEF from, len
<1>15. ASSUME NEW x \in 1 .. G
       PROVE  /\ job.episodes[x] \in Nat /\ from[x] + len[x] <= Len(rows)
              /\ \A f \in 1 .. len[x] :
                   rows[from[x] + f] = RecordedRow(recording, Kept[a + x - 1], f)
  <2> DEFINE k == a + x - 1
  <2>1. k \in a .. b - 1 /\ k \in 1 .. m /\ k \in Nat /\ job.episodes[x] = k
        /\ from[x] = at[Kept[k]] /\ len[x] = lens[Kept[k]] /\ Kept[k] \in 1 .. n
    BY <1>2, <1>10, <1>12, <1>13
  <2> HIDE DEF k
  <2>2. \A f \in 1 .. lens[Kept[k]] : pieces[Kept[k]][f] = RecordedRow(recording, Kept[k], f)
    BY <1>7, <2>1
  <2>3. \A f \in 1 .. lens[Kept[k]] :
          rows[at[Kept[k]] + f] = RecordedRow(recording, Kept[k], f)
    BY <1>11, <2>1, <2>2
  <2>4. job.episodes[x] \in Nat /\ from[x] + len[x] <= Len(rows)
    BY <1>11, <2>1
  <2>5. \A f \in 1 .. len[x] : rows[from[x] + f] = RecordedRow(recording, Kept[k], f)
    BY <2>1, <2>3
  <2> QED
    BY <2>4, <2>5 DEF k
<1>16. ASSUME NEW x \in 1 .. G, NEW y \in 1 .. G, x < y
       PROVE  from[x] + len[x] <= from[y]
  <2>1. /\ a + x - 1 \in a .. b - 1 /\ a + y - 1 \in a .. b - 1
        /\ a + x - 1 < a + y - 1
    BY <1>3, <1>10, <1>16
  <2> QED
    BY <1>11, <1>13, <2>1
<1>17. Streams(job, rows, from, len, G, Range(rows))
  BY <1>10, <1>11, <1>12, <1>13, <1>14, <1>15, <1>16 DEF Streams
<1> QED
  BY <1>15, <1>17 DEF rows, from, len, G, a, b

(* What a shard is rewritten to.                                           *)
Rewritten(job) ==
  LET out == Streamed(job) IN [q \in DOMAIN out |-> EditRow(out[q].of, out[q].row)]

(* What is written anew holds the retained episodes, edited.               *)
LEMMA RewrittenIs ==
  ASSUME EditBase,
         NEW lo, NEW hi, RowsStored(dataset, Len(recording.lens), recording.lens,
                                    RecordedRows(recording), lo, hi),
         NEW job, TakesRun(job, KeptIn(DataPaths), Len(Kept), dataset.version)
  PROVE  Compact(Rewritten(job), FirstOf(job), EndOf(job), NewLens, NewRows)
<1> DEFINE m == Len(Kept)
           a == FirstOf(job)
           b == EndOf(job)
           G == b - a
           rows == dataset.data[job.source]
           from == [x \in 1 .. G |-> DataStart(dataset, Kept[a + x - 1])]
           len == [x \in 1 .. G |-> NewLens[a + x - 1]]
           out == Streamed(job)
           new == Rewritten(job)
<1>1. /\ m \in Nat /\ NewLens \in [1 .. m -> Nat \ {0}] /\ edit.batch \in Nat \ {0}
  BY KeptFactsHold DEF KeptFacts
<1>2. /\ a \in 1 .. m /\ b \in a + 1 .. m + 1 /\ job.episodes = Span(a, b)
  BY DEF TakesRun
<1>3. /\ Streams(job, rows, from, len, G, Range(rows))
      /\ \A x \in 1 .. G : \A f \in 1 .. len[x] :
           rows[from[x] + f] = RecordedRow(recording, Kept[a + x - 1], f)
  BY JobStreams
<1>4. /\ len \in [1 .. G -> Nat]
      /\ \A x \in 1 .. G + 1 : /\ Offset(len, x) \in Nat
                               /\ Offset(NewLens, a + x - 1) = Offset(NewLens, a) + Offset(len, x)
  <2>1. NewLens \in [1 .. m -> Nat] /\ G \in Nat /\ a \in 1 .. m + 1 /\ a + G <= m + 1
    BY <1>1, <1>2
  <2>2. \A x \in 1 .. G : a + x - 1 \in 1 .. m /\ len[x] = NewLens[a + x - 1]
    BY <1>1, <1>2
  <2>3. len \in [1 .. G -> Nat]
    BY <1>1, <2>2
  <2> HIDE DEF len, G, a
  <2>4. Shifts(NewLens, a, len, G)
    <3> HIDE DEF m
    <3> QED
      BY <1>1, <2>1, <2>2, <2>3, PartShifts
  <2> QED
    BY <2>3, <2>4 DEF Shifts
<1>5. \A x \in 1 .. G : job.episodes[x] = a + x - 1 /\ len[x] = NewLens[a + x - 1]
  <2>1. a \in Nat /\ b \in Nat /\ a < b
    BY <1>1, <1>2
  <2>2. \A x \in 1 .. b - a : Span(a, b)[x] = a + x - 1
    <3> HIDE DEF a, b
    <3> QED
      BY <2>1, SpanProperties
  <2> QED
    BY <1>2, <2>2
<1> HIDE DEF m, a, b, rows, from, len
<1>6. G \in Nat /\ G + 1 \in 1 .. G + 1 /\ a + (G + 1) - 1 = b
  BY <1>1, <1>2
<1>7. /\ out \in Seq(Mark(Range(rows))) /\ Len(out) = Offset(len, G + 1)
      /\ \A x \in 1 .. G : \A f \in 1 .. len[x] :
           out[Offset(len, x) + f] = [of |-> job.episodes[x], row |-> rows[from[x] + f]]
  <2> HIDE DEF G
  <2>1. Streams(job, dataset.data[job.source], from, len, G, Range(rows))
    BY <1>3 DEF rows
  <2>2. edit.batch \in Nat \ {0}
    BY <1>1
  <2>3. StreamedAs(out, job, rows, from, len, G, Range(rows))
    BY <2>1, <2>2, StreamedIs DEF rows
  <2> QED
    BY <2>3 DEF StreamedAs
<1> HIDE DEF G, out
<1>8. /\ Offset(NewLens, b) = Offset(NewLens, a) + Offset(len, G + 1)
      /\ Offset(len, G + 1) \in Nat
  BY <1>4, <1>6
<1>9. Offset(NewLens, a) \in Nat /\ \A k \in 1 .. m + 1 : Offset(NewLens, k) \in Nat
  <2>1. NewLens \in [1 .. m -> Nat] /\ a \in 1 .. m + 1
    BY <1>1, <1>2
  <2>2. \A k \in 1 .. m + 1 : Offset(NewLens, k) \in Nat
    BY <1>1, <2>1, OffsetProperties
  <2> QED
    BY <2>1, <2>2
<1>10. DOMAIN out = 1 .. Offset(NewLens, b) - Offset(NewLens, a)
  <2>1. Offset(NewLens, b) - Offset(NewLens, a) = Offset(len, G + 1)
    BY <1>8, <1>9
  <2> QED
    BY <1>7, <2>1
<1>11. new = [q \in 1 .. Offset(NewLens, b) - Offset(NewLens, a) |->
                EditRow(out[q].of, out[q].row)]
  BY <1>10 DEF Rewritten, out
<1>12. ASSUME NEW k \in a .. b - 1, NEW f \in 1 .. NewLens[k]
       PROVE  new[Offset(NewLens, k) - Offset(NewLens, a) + f] = NewRows[k][f]
  <2> DEFINE x == k - a + 1
             q == Offset(len, x) + f
  <2>1. x \in 1 .. G /\ k = a + x - 1 /\ x \in 1 .. G + 1 /\ k \in 1 .. m
        /\ x + 1 \in 1 .. G + 1
    BY <1>1, <1>2 DEF G
  <2>2. len[x] = NewLens[k] /\ job.episodes[x] = k
    BY <1>5, <2>1
  <2>3. NewLens[k] \in Nat /\ f \in Nat /\ f >= 1 /\ f <= NewLens[k]
    BY <1>1, <2>1
  <2>4. /\ Offset(len, x) \in Nat
        /\ Offset(NewLens, k) = Offset(NewLens, a) + Offset(len, x)
    BY <1>4, <2>1
  <2>5. Offset(NewLens, k) - Offset(NewLens, a) + f = q
    BY <1>9, <2>3, <2>4
  <2>6. q \in 1 .. Offset(len, G + 1)
    <3>1. Offset(len, x + 1) = Offset(len, x) + len[x] /\ Offset(len, x + 1) <= Offset(len, G + 1)
      <4> HIDE DEF x
      <4>1. /\ Offset(len, x + 1) = Offset(len, x) + len[x]
            /\ \A u, v \in 1 .. G + 1 : u <= v => Offset(len, u) <= Offset(len, v)
        BY <1>4, <1>6, <2>1, OffsetProperties
      <4>2. x + 1 <= G + 1
        BY <2>1
      <4> QED
        BY <1>6, <2>1, <4>1, <4>2
    <3>2. Offset(len, x + 1) \in Nat
      BY <1>4, <2>1
    <3> QED
      BY <1>8, <2>2, <2>3, <2>4, <3>1, <3>2
  <2>7. out[q] = [of |-> k, row |-> rows[from[x] + f]]
    BY <1>7, <2>1, <2>2
  <2>8. rows[from[x] + f] = RecordedRow(recording, Kept[k], f)
    BY <1>3, <2>1, <2>2
  <2>9. new[q] = EditRow(k, RecordedRow(recording, Kept[k], f))
    <3> HIDE DEF q, x, new
    <3>1. q \in 1 .. Offset(NewLens, b) - Offset(NewLens, a)
      BY <1>8, <1>9, <2>6
    <3> QED
      BY <1>11, <2>7, <2>8, <3>1
  <2>10. NewRows[k][f] = EditRow(k, RecordedRow(recording, Kept[k], f))
    BY <2>1 DEF NewRows, m
  <2> QED
    BY <2>5, <2>9, <2>10
<1>13. Compact(new, a, b, NewLens, NewRows)
  <2> HIDE DEF new
  <2>1. new = [q \in 1 .. Offset(NewLens, b) - Offset(NewLens, a) |-> new[q]]
    BY <1>11
  <2> QED
    BY <1>12, <2>1 DEF Compact
<1> QED
  BY <1>13 DEF a, b

(* A rising sequence that comes to k at k has missed nothing before.       *)
LEMMA RisingFixed ==
  ASSUME NEW m \in Nat, NEW n \in Nat, NEW K, Rising(K, m, n),
         NEW k \in 1 .. m, K[k] = k, NEW j \in 1 .. k
  PROVE  K[j] = j
<1> DEFINE P(d) == \A x \in 1 .. m : x + d <= m => K[x] + d <= K[x + d]
           Good == {d \in Nat : P(d)}
<1>1. /\ \A x \in 1 .. m : K[x] \in 1 .. n
      /\ \A x, y \in 1 .. m : x < y => K[x] < K[y]
  BY DEF Rising
<1>2. 0 \in Good
  BY <1>1
<1>3. ASSUME NEW d \in Good
      PROVE  d + 1 \in Good
  <2>1. ASSUME NEW x \in 1 .. m, x + (d + 1) <= m
        PROVE  K[x] + (d + 1) <= K[x + (d + 1)]
    <3> DEFINE y == x + d
               z == x + (d + 1)
    <3>1. d \in Nat /\ y \in 1 .. m /\ z \in 1 .. m /\ y < z
      BY <2>1
    <3>2. K[x] + d <= K[y]
      BY <3>1, <2>1
    <3>3. K[y] < K[z] /\ K[y] \in 1 .. n /\ K[z] \in 1 .. n /\ K[x] \in 1 .. n
      <4> HIDE DEF y, z
      <4> QED
        BY <1>1, <3>1
    <3> HIDE DEF y
    <3>4. K[x] + (d + 1) <= K[z]
      <4> HIDE DEF z
      <4> QED
        BY <3>1, <3>2, <3>3
    <3> QED
      BY <3>4
  <2> QED
    BY <2>1
<1>4. Good = Nat
  <2> HIDE DEF Good
  <2>1. Good \in SUBSET Nat
    BY DEF Good
  <2> QED
    BY <1>2, <1>3, <2>1, SetInduction
<1>5. \A x, y \in 1 .. m : x <= y => K[x] + (y - x) <= K[y]
  <2> SUFFICES ASSUME NEW x \in 1 .. m, NEW y \in 1 .. m, x <= y
               PROVE  K[x] + (y - x) <= K[y]
    OBVIOUS
  <2> DEFINE d == y - x
  <2>1. d \in Nat /\ x + d = y
    OBVIOUS
  <2> HIDE DEF d
  <2>2. P(d)
    BY <1>4, <2>1
  <2> QED
    BY <2>1, <2>2 DEF d
<1> HIDE DEF P, Good
<1>6. 1 \in 1 .. m /\ j \in 1 .. m
  OBVIOUS
<1>7. K[1] + (j - 1) <= K[j] /\ K[j] + (k - j) <= K[k]
  BY <1>5, <1>6
<1>8. K[1] \in Nat \ {0} /\ K[j] \in Nat
  BY <1>1, <1>6
<1> QED
  BY <1>7, <1>8

(* As long as nothing was deleted, episodes begin where they did.          *)
LEMMA SameOffset ==
  ASSUME EditBase, NEW k \in 1 .. Len(Kept) + 1, \A j \in 1 .. k - 1 : Kept[j] = j
  PROVE  Offset(NewLens, k) = Offset(recording.lens, k)
<1> DEFINE n == Len(recording.lens)
           m == Len(Kept)
           lens == recording.lens
<1>1. /\ n \in Nat \ {0} /\ m \in Nat /\ lens \in [1 .. n -> Nat \ {0}]
      /\ Rising(Kept, m, n) /\ NewLens \in [1 .. m -> Nat \ {0}]
      /\ \A i \in 1 .. m : Kept[i] \in 1 .. n /\ NewLens[i] = lens[Kept[i]]
  BY KeptFactsHold DEF KeptFacts
<1>2. k \in 1 .. m + 1 /\ k \in 1 .. n + 1
  <2>1. k \in 1 .. m + 1
    OBVIOUS
  <2> HIDE DEF m, n, lens
  <2>2. CASE k = 1
    BY <1>1, <2>2
  <2>3. CASE k # 1
    <3>1. k - 1 \in 1 .. m /\ k - 1 \in 1 .. k - 1
      BY <1>1, <2>1, <2>3
    <3>2. k - 1 \in 1 .. n
      BY <1>1, <3>1
    <3> QED
      BY <1>1, <2>1, <3>2
  <2> QED
    BY <2>1, <2>2, <2>3
<1> HIDE DEF n, m, lens
<1>3. Offset(NewLens, k) = Offset(lens, k)
  <2>1. NewLens \in [1 .. m -> Nat] /\ lens \in [1 .. n -> Nat] /\ n \in Nat
    BY <1>1
  <2>2. Offset(NewLens, 1) = 0 /\ Offset(lens, 1) = 0
    BY <1>1, <2>1, PlacesAdd DEF Offset, PlaceOf
  <2> DEFINE l == k - 1
             a == 1
             part == [x \in 1 .. l |-> lens[x]]
  <2>3. /\ l \in Nat /\ a \in 1 .. n + 1 /\ a \in 1 .. m + 1 /\ a + l <= n + 1 /\ a + l <= m + 1
        /\ k \in 1 .. l + 1 /\ a + k - 1 = k
    BY <1>1, <1>2
  <2>4. \A x \in 1 .. l : /\ a + x - 1 = x /\ x \in 1 .. n /\ x \in 1 .. m /\ x \in 1 .. k - 1
    BY <1>1, <1>2
  <2>5. part \in [1 .. l -> Nat]
    BY <2>1, <2>4
  <2>6. \A x \in 1 .. l : part[x] = lens[a + x - 1] /\ part[x] = NewLens[a + x - 1]
    BY <1>1, <2>4
  <2> HIDE DEF part, l
  <2>7. Shifts(lens, a, part, l)
    <3> HIDE DEF a
    <3> QED
      BY <2>1, <2>3, <2>5, <2>6, PartShifts
  <2>8. Shifts(NewLens, a, part, l)
    <3> HIDE DEF a
    <3> QED
      BY <1>1, <2>1, <2>3, <2>5, <2>6, PartShifts
  <2> QED
    BY <2>2, <2>3, <2>7, <2>8 DEF Shifts
<1> QED
  BY <1>3 DEF lens

(* A row that keeps its number, place and task is what it was.             *)
LEMMA RowUnchanged ==
  ASSUME EditBase, NEW k \in 1 .. Len(Kept), \A j \in 1 .. k : Kept[j] = j,
         "state" \notin edit.remove, Override(k) = NotGiven,
         NEW f \in 1 .. NewLens[k]
  PROVE  EditRow(k, RecordedRow(recording, k, f)) = RecordedRow(recording, k, f)
<1> DEFINE n == Len(recording.lens)
           m == Len(Kept)
           lens == recording.lens
<1>1. /\ n \in Nat \ {0} /\ m \in Nat /\ lens \in [1 .. n -> Nat \ {0}]
      /\ Rising(Kept, m, n) /\ NewLens \in [1 .. m -> Nat \ {0}]
      /\ \A i \in 1 .. m : Kept[i] \in 1 .. n /\ NewLens[i] = lens[Kept[i]]
  BY KeptFactsHold DEF KeptFacts
<1> HIDE DEF n, m, lens
<1>2. k \in 1 .. m /\ k \in 1 .. n
  <2>1. k \in 1 .. m /\ k \in 1 .. k
    BY <1>1 DEF m
  <2> QED
    BY <1>1, <2>1
<1>3. Offset(NewLens, k) = Offset(lens, k)
  <2>1. k \in 1 .. Len(Kept) + 1 /\ \A j \in 1 .. k - 1 : j \in 1 .. k
    BY <1>1, <1>2 DEF m
  <2> QED
    BY <2>1, SameOffset DEF lens
<1>4. NewStart(k) = Offset(lens, k) /\ Offset(lens, k) \in Nat
  <2>1. k \in 1 .. n + 1 /\ lens \in [1 .. n -> Nat] /\ n \in Nat
    BY <1>1, <1>2
  <2>2. Offset(lens, k) \in Nat
    BY <2>1, OffsetProperties
  <2> QED
    BY <1>3, <2>2 DEF NewStart
<1>5. f \in Nat /\ f >= 1
  BY <1>1, <1>2
<1> DEFINE row == RecordedRow(recording, k, f)
           o == Offset(lens, k)
           label == LabelOf(recording.tasks, k)
<1>6. row = [episode |-> k - 1, index |-> o + f - 1, frame |-> f - 1,
             task |-> label, payload |-> <<k, f>>]
  BY DEF RecordedRow, lens
<1> HIDE DEF row, o, label
<1>7. o + (f - 1) = o + f - 1 /\ NewStart(k) = o
  BY <1>4, <1>5 DEF o
<1>8. /\ row.frame = f - 1 /\ row.index = o + (f - 1) /\ row.episode = k - 1
      /\ row = [x \in DOMAIN row |-> row[x]]
      /\ {"episode", "index", "task", "payload"} \subseteq DOMAIN row
  BY <1>6, <1>7
<1>9. EditRow(k, row) =
        [row EXCEPT !.episode = row.episode, !.index = row.index,
                    !.task = @, !.payload = @]
  BY <1>7, <1>8 DEF EditRow
<1> HIDE DEF row
<1>10. EditRow(k, row) = row
  BY <1>8, <1>9
<1> QED
  BY <1>10 DEF row

(* A file of rows that is copied holds what it would be rewritten to.      *)
LEMMA UnchangedIs ==
  ASSUME EditBase,
         NEW lo, NEW hi, RowsStored(dataset, Len(recording.lens), recording.lens,
                                    RecordedRows(recording), lo, hi),
         NEW job, TakesRun(job, KeptIn(DataPaths), Len(Kept), dataset.version),
         ~Changes(job.source, job.episodes)
  PROVE  Compact(dataset.data[job.source], FirstOf(job), EndOf(job), NewLens, NewRows)
<1> DEFINE n == Len(recording.lens)
           m == Len(Kept)
           lens == recording.lens
           a == FirstOf(job)
           b == EndOf(job)
           file == dataset.data[job.source]
           at == [i \in 1 .. n |-> DataStart(dataset, i)]
           pieces == RecordedRows(recording)
<1>1. /\ n \in Nat \ {0} /\ m \in Nat /\ lens \in [1 .. n -> Nat \ {0}] /\ Count = n
      /\ Rising(Kept, m, n) /\ NewLens \in [1 .. m -> Nat \ {0}]
      /\ \A k \in 1 .. m : Kept[k] \in 1 .. n /\ NewLens[k] = lens[Kept[k]]
  BY KeptFactsHold DEF KeptFacts
<1>2. /\ a \in 1 .. m /\ b \in a + 1 .. m + 1 /\ job.episodes = Span(a, b)
  BY DEF TakesRun
<1>3. a \in Nat /\ b \in Nat /\ a < b /\ b - a \in Nat
  BY <1>1, <1>2
<1>4. /\ Len(job.episodes) = b - a /\ job.episodes \in Seq(Nat)
      /\ \A x \in 1 .. b - a : job.episodes[x] = a + x - 1
  <2> HIDE DEF a, b
  <2>1. /\ Span(a, b) \in Seq(Nat) /\ Len(Span(a, b)) = b - a
        /\ \A x \in 1 .. b - a : Span(a, b)[x] = a + x - 1
    BY <1>3, SpanProperties
  <2> QED
    BY <1>2, <2>1
<1>5. DOMAIN job.episodes = 1 .. b - a
  BY <1>4, LenProperties
<1>6. /\ Len(job.episodes) = Cardinality({i \in 1 .. Count : DataPaths[i] = job.source})
      /\ "state" \notin edit.remove
      /\ \A x \in DOMAIN job.episodes : /\ Override(job.episodes[x]) = NotGiven
                                        /\ job.episodes[x] = Kept[job.episodes[x]]
  BY Zenon DEF Changes
<1>7. PICK s, e : Holds(job, Kept, dataset.data, DataPaths, at, lens, pieces, n, s, e)
  BY RowsHeld
<1> HIDE DEF n, m, lens, a, b, file, at, pieces
<1>8. /\ s \in 1 .. n /\ e \in s + 1 .. n + 1
      /\ \A j \in 1 .. n : DataPaths[j] = job.source <=> s <= j /\ j < e
      /\ \A k \in a .. b - 1 : s <= Kept[k] /\ Kept[k] < e
      /\ Compact(file, s, e, lens, pieces)
  BY <1>7 DEF Holds, a, b, file
<1>9. b - a = e - s
  <2>1. {i \in 1 .. Count : DataPaths[i] = job.source} = s .. e - 1
    BY <1>1, <1>8
  <2>2. s \in Nat /\ e \in Nat /\ s < e
    BY <1>1, <1>8
  <2>3. Cardinality(s .. e - 1) = e - s
    BY <2>2, FS_Interval
  <2> QED
    BY <1>4, <1>6, <2>1, <2>3
<1>10. \A k \in a .. b - 1 : Kept[k] = k /\ Override(k) = NotGiven
  <2> SUFFICES ASSUME NEW k \in a .. b - 1
               PROVE  Kept[k] = k /\ Override(k) = NotGiven
    OBVIOUS
  <2> DEFINE x == k - a + 1
  <2>1. x \in 1 .. b - a /\ a + x - 1 = k
    BY <1>3
  <2> HIDE DEF x
  <2>2. job.episodes[x] = k
    BY <1>4, <2>1
  <2> QED
    BY <1>5, <1>6, <2>1, <2>2
<1>11. a = s /\ b = e
  <2>1. a \in a .. b - 1 /\ b - 1 \in a .. b - 1
    BY <1>3
  <2>2. s <= a /\ b - 1 < e
    BY <1>8, <1>10, <2>1
  <2>3. s \in Nat /\ e \in Nat
    BY <1>1, <1>8
  <2> QED
    BY <1>3, <1>9, <2>2, <2>3
<1>12. \A k \in a .. b - 1 : \A j \in 1 .. k : Kept[j] = j
  <2>1. \A k \in a .. b - 1 : k \in 1 .. m
    BY <1>1, <1>2
  <2> QED
    BY <1>1, <1>10, <2>1, RisingFixed
<1>13. \A k \in a .. b : Offset(NewLens, k) = Offset(lens, k)
  <2> SUFFICES ASSUME NEW k \in a .. b
               PROVE  Offset(NewLens, k) = Offset(lens, k)
    OBVIOUS
  <2>1. k \in 1 .. m + 1 /\ k \in Nat /\ k - 1 \in Nat
    BY <1>1, <1>2
  <2>2. \A j \in 1 .. k - 1 : Kept[j] = j
    <3>1. CASE k = a
      <4>1. \A j \in 1 .. k - 1 : j \in 1 .. a /\ a \in a .. b - 1
        BY <1>3, <3>1
      <4> QED
        BY <1>12, <4>1
    <3>2. CASE k # a
      <4>1. k - 1 \in a .. b - 1
        BY <1>3, <3>2
      <4> QED
        BY <1>12, <4>1
    <3> QED
      BY <3>1, <3>2
  <2> QED
    BY <2>1, <2>2, SameOffset DEF m, lens
<1>14. /\ file = [q \in 1 .. Offset(lens, b) - Offset(lens, a) |-> file[q]]
       /\ \A k \in a .. b - 1 : \A f \in 1 .. lens[k] :
            file[Offset(lens, k) - Offset(lens, a) + f] = pieces[k][f]
  BY <1>8, <1>11 DEF Compact
<1>15. ASSUME NEW k \in a .. b - 1, NEW f \in 1 .. NewLens[k]
       PROVE  file[Offset(NewLens, k) - Offset(NewLens, a) + f] = NewRows[k][f]
  <2>1. /\ k \in 1 .. m /\ k \in a .. b /\ a \in a .. b
    BY <1>1, <1>2
  <2>2. Kept[k] = k /\ lens[k] = NewLens[k] /\ k \in 1 .. n
    BY <1>1, <1>10, <2>1
  <2>3. file[Offset(NewLens, k) - Offset(NewLens, a) + f] = pieces[k][f]
    BY <1>13, <1>14, <2>1, <2>2
  <2>4. pieces[k][f] = RecordedRow(recording, k, f)
    BY <1>1, <2>2 DEF pieces, RecordedRows, lens
  <2>5. EditRow(k, RecordedRow(recording, k, f)) = RecordedRow(recording, k, f)
    BY <1>6, <1>10, <1>12, <2>1, RowUnchanged DEF m
  <2>6. NewRows[k][f] = EditRow(k, RecordedRow(recording, Kept[k], f))
    BY <2>1 DEF NewRows, m
  <2> QED
    BY <2>2, <2>3, <2>4, <2>5, <2>6
<1>16. file = [q \in 1 .. Offset(NewLens, b) - Offset(NewLens, a) |-> file[q]]
  <2>1. a \in a .. b /\ b \in a .. b
    BY <1>3
  <2>2. Offset(NewLens, b) - Offset(NewLens, a) = Offset(lens, b) - Offset(lens, a)
    BY <1>13, <2>1
  <2> QED
    BY <1>14, <2>2
<1> QED
  BY <1>15, <1>16 DEF Compact, a, b, file

-----------------------------------------------------------------------------
(* The manifest divides the retained episodes.                             *)

(* What is in order already is left alone.                                 *)
LEMMA SortedAlready ==
  ASSUME NEW n \in Nat, NEW seq, DOMAIN seq = 1 .. n, NEW keys,
         \A i \in 1 .. n : keys[i] \in Nat,
         \A i, j \in 1 .. n : i < j => keys[i] < keys[j]
  PROVE  SortedBy(seq, keys) = [k \in 1 .. n |-> seq[k]]
<1> DEFINE Rank(m) == Cardinality({j \in DOMAIN seq :
                        keys[j] < keys[m] \/ (keys[j] = keys[m] /\ j <= m)})
<1>1. ASSUME NEW m \in 1 .. n
      PROVE  Rank(m) = m
  <2> DEFINE S == {j \in DOMAIN seq : keys[j] < keys[m] \/ (keys[j] = keys[m] /\ j <= m)}
  <2>1. ASSUME NEW j \in 1 .. n
        PROVE  (keys[j] < keys[m] \/ (keys[j] = keys[m] /\ j <= m)) <=> j <= m
    <3>1. CASE j < m
      BY <3>1
    <3>2. CASE j = m
      BY <3>2
    <3>3. CASE m < j
      <4>1. keys[m] < keys[j] /\ keys[m] \in Nat /\ keys[j] \in Nat
        BY <3>3
      <4> QED
        BY <3>3, <4>1
    <3> QED
      BY <3>1, <3>2, <3>3
  <2>2. S = 1 .. m
    BY <2>1
  <2>3. Cardinality(1 .. m) = m
    BY FS_Interval
  <2> QED
    BY <2>2, <2>3
<1> HIDE DEF Rank
<1>2. \A k \in 1 .. n : (CHOOSE m \in DOMAIN seq : Rank(m) = k) = k
  BY <1>1
<1>3. SortedBy(seq, keys) = [k \in DOMAIN seq |-> seq[CHOOSE m \in DOMAIN seq : Rank(m) = k]]
  BY DEF SortedBy, Rank
<1> QED
  BY <1>2, <1>3

(* The jobs over the files of some kind, as the kept episodes use them.    *)
JobsFrom(jobs, paths) ==
  JobsOn(jobs, FilesOf(paths), KeptIn(paths), Len(Kept), dataset.version)

(* This holds of the jobs the editor makes of any layout in runs.          *)
LEMMA JobsFromAreShared ==
  ASSUME EditBase, NEW paths, NEW lo, NEW hi, Runs(paths, Len(recording.lens), lo, hi),
         Alone(dataset.version, Len(recording.lens), lo, hi),
         NEW jobs, JobsFrom(jobs, paths)
  PROVE  SharedOut(jobs, KeptIn(paths), Len(Kept), dataset.version)
<1> DEFINE n == Len(recording.lens)
           m == Len(Kept)
           kept == KeptIn(paths)
           version == dataset.version
           files == FilesOf(paths)
<1>1. /\ n \in Nat \ {0} /\ m \in Nat /\ DOMAIN Kept = 1 .. m
      /\ Rising(Kept, m, n) /\ version \in Versions
  BY KeptFactsHold DEF KeptFacts
<1>2. /\ Runs(paths, n, lo, hi) /\ Alone(version, n, lo, hi)
      /\ JobsOn(jobs, files, kept, m, version)
  BY DEF JobsFrom
<1>3. kept = [k \in 1 .. m |-> paths[Kept[k]]]
  BY DEF KeptIn
<1>4. files = Deduplicated(kept)
  BY <1>1, <1>3 DEF FilesOf
<1>5. DOMAIN kept = 1 .. m
  BY <1>3
<1> HIDE DEF n, m, kept, version, files
<1>6. Lists(files, kept, m)
  BY <1>1, <1>4, <1>5, DeduplicatedIs
<1>7. SharedOut(jobs, kept, m, version)
  BY <1>1, <1>2, <1>3, <1>6, JobsAreShared
<1> QED
  BY <1>7 DEF kept, m, version

(* The group of a file in terms of the retained paths.                     *)
LEMMA GroupInIs ==
  ASSUME EditBase, NEW paths, NEW path
  PROVE  GroupIn(paths, path) = Ascending({k \in 1 .. Len(Kept) : KeptIn(paths)[k] = path})
<1>1. DOMAIN Kept = 1 .. Len(Kept)
  BY KeptFactsHold DEF KeptFacts
<1>2. {k \in 1 .. Len(Kept) : KeptIn(paths)[k] = path} = {k \in DOMAIN Kept : paths[Kept[k]] = path}
  BY <1>1 DEF KeptIn
<1> QED
  BY <1>2 DEF GroupIn

(* The files of a plan are a sequence.                                     *)
LEMMA FilesAreListed ==
  ASSUME EditBase, NEW paths
  PROVE  \E c \in Nat : FilesOf(paths) = [x \in 1 .. c |-> FilesOf(paths)[x]]
<1> DEFINE kept == [k \in DOMAIN Kept |-> paths[Kept[k]]]
           m == Len(Kept)
<1>1. m \in Nat /\ DOMAIN kept = 1 .. m
  BY KeptFactsHold DEF KeptFacts
<1> HIDE DEF kept, m
<1>2. Lists(Deduplicated(kept), kept, m)
  BY <1>1, DeduplicatedIs
<1> QED
  BY <1>2 DEF Lists, FilesOf, kept

(* The data jobs of a manifest divide the retained episodes.               *)
LEMMA DataJobsAreShared ==
  ASSUME EditBase,
         NEW lo, NEW hi, RowsStored(dataset, Len(recording.lens), recording.lens,
                                    RecordedRows(recording), lo, hi)
  PROVE  /\ SharedOut(DataJobs, KeptIn(DataPaths), Len(Kept), dataset.version)
         /\ \A x \in DOMAIN DataJobs :
              DataJobs[x].rewrite = Changes(DataJobs[x].source, DataJobs[x].episodes)
<1> DEFINE n == Len(recording.lens)
           m == Len(Kept)
           kept == KeptIn(DataPaths)
           files == FilesOf(DataPaths)
           jobs == DataJobs
           version == dataset.version
           Group(x) == GroupIn(DataPaths, files[x])
<1>1. jobs = [x \in DOMAIN files |->
        [source |-> files[x], output |-> NewPlace(Group(x), x),
         episodes |-> Group(x), rewrite |-> Changes(files[x], Group(x))]]
  BY DEF DataJobs
<1>2. PICK c \in Nat : DOMAIN files = 1 .. c
  <2>1. PICK c \in Nat : files = [x \in 1 .. c |-> files[x]]
    BY FilesAreListed
  <2> QED
    BY <2>1
<1>3. \A x \in DOMAIN files : Group(x) = Ascending({k \in 1 .. m : kept[k] = files[x]})
  BY GroupInIs
<1>4. \A group, x : NewPlace(group, x) =
        IF version = "v2.1" THEN EpisodeFile(Head(group) - 1) ELSE Place(x - 1)
  BY DEF NewPlace
<1> HIDE DEF m, kept, files, jobs, version, Group
<1>5. \A x \in DOMAIN jobs :
        /\ jobs[x].source = files[x] /\ jobs[x].episodes = Group(x)
        /\ jobs[x].output = NewPlace(Group(x), x)
        /\ jobs[x].rewrite = Changes(files[x], Group(x))
  BY <1>1
<1>6. JobsOn(jobs, files, kept, m, version)
  <2>1. jobs = [x \in 1 .. c |-> jobs[x]] /\ DOMAIN jobs = DOMAIN files
    BY <1>1, <1>2
  <2>2. \A x \in DOMAIN jobs :
          /\ jobs[x].source = files[x]
          /\ jobs[x].episodes = Ascending({k \in 1 .. m : kept[k] = files[x]})
          /\ jobs[x].output = IF version = "v2.1" THEN EpisodeFile(Head(jobs[x].episodes) - 1)
                              ELSE Place(x - 1)
    BY <1>3, <1>4, <1>5, <2>1
  <2> QED
    BY <2>1, <2>2 DEF JobsOn
<1>7. Runs(DataPaths, n, lo, hi) /\ Alone(version, n, lo, hi)
  <2>1. DataPaths = [i \in 1 .. n |-> DataFile(dataset, i)]
    BY KeptFactsHold DEF DataPaths, KeptFacts
  <2> HIDE DEF n
  <2> QED
    BY <2>1 DEF RowsStored, Stored, n, version
<1>8. SharedOut(jobs, kept, m, version)
  BY <1>6, <1>7, JobsFromAreShared DEF JobsFrom, files, kept, m, version
<1> QED
  BY <1>5, <1>8 DEF jobs, kept, m, version

(* Where the packets of a job are.                                         *)
LEMMA PacketsHeld ==
  ASSUME EditBase,
         NEW lo, NEW hi, PacketsStored(dataset, Len(recording.lens), recording.lens,
                                       RecordedPackets(recording), lo, hi),
         NEW job, TakesRun(job, KeptIn(VideoPaths), Len(Kept), dataset.version)
  PROVE  LET n == Len(recording.lens)
             at == [i \in 1 .. n |-> VideoStart(i)]
         IN  \E s, e : Holds(job, Kept, dataset.video, VideoPaths, at, recording.lens,
                            RecordedPackets(recording), n, s, e)
<1> DEFINE n == Len(recording.lens)
           m == Len(Kept)
           lens == recording.lens
           paths == [i \in 1 .. n |-> VideoFile(dataset, i)]
           at == [i \in 1 .. n |-> VideoStart(i)]
           pieces == RecordedPackets(recording)
           kept == KeptIn(VideoPaths)
<1>1. n \in Nat \ {0} /\ m \in Nat /\ Count = n /\ Rising(Kept, m, n)
  BY KeptFactsHold DEF KeptFacts
<1>2. VideoPaths = paths
  BY <1>1 DEF VideoPaths
<1>3. Stored(dataset.video, paths, at, lens, pieces, n, lo, hi)
  BY DEF PacketsStored, PacketStart, VideoStart
<1>4. kept = [k \in 1 .. m |-> paths[Kept[k]]]
  BY <1>2 DEF KeptIn
<1>5. TakesRun(job, kept, m, dataset.version)
  OBVIOUS
<1> HIDE DEF n, m, lens, paths, at, pieces, kept
<1>6. \E s, e : Holds(job, Kept, dataset.video, paths, at, lens, pieces, n, s, e)
  BY <1>1, <1>3, <1>4, <1>5, RunInFile
<1> QED
  BY <1>2, <1>6 DEF n, lens, at, pieces

(* What a job of media was planned as.                                     *)
Partial(job) ==
  SumFunction([x \in DOMAIN job.episodes |-> NewLens[job.episodes[x]]])
    # Len(dataset.video[job.source])

(* Ranges, transform and mode are what the plan derives from the file.     *)
PlannedMedia(job) ==
  /\ job.ranges = [x \in DOMAIN job.episodes |-> VideoRange(job.episodes[x])]
  /\ job.transform = Transform(dataset.video[job.source], job.ranges, Partial(job))
  /\ job.mode = IF job.transform # NotGiven THEN "transcode"
                ELSE IF Partial(job) THEN "remux" ELSE "reuse"

(* Files hold the frames of episodes in their order.                       *)
LEMMA GroupIsSorted ==
  ASSUME EditBase,
         NEW lo, NEW hi, PacketsStored(dataset, Len(recording.lens), recording.lens,
                                       RecordedPackets(recording), lo, hi),
         NEW x \in DOMAIN FilesOf(VideoPaths)
  PROVE  LET used == GroupIn(VideoPaths, FilesOf(VideoPaths)[x])
         IN  /\ SortedBy(used, [p \in DOMAIN used |-> VideoStart(Kept[used[p]])]) = used
             /\ \E l \in Nat : DOMAIN used = 1 .. l
<1> DEFINE n == Len(recording.lens)
           m == Len(Kept)
           lens == recording.lens
           kept == KeptIn(VideoPaths)
           files == FilesOf(VideoPaths)
           version == dataset.version
           Group(y) == GroupIn(VideoPaths, files[y])
           jobs == [y \in DOMAIN files |->
                     [source |-> files[y], episodes |-> Group(y), output |-> NewPlace(Group(y), y)]]
           at == [i \in 1 .. n |-> VideoStart(i)]
           pieces == RecordedPackets(recording)
<1>1. /\ n \in Nat \ {0} /\ m \in Nat /\ lens \in [1 .. n -> Nat \ {0}] /\ Count = n
      /\ Rising(Kept, m, n)
      /\ \A k \in 1 .. m : Kept[k] \in 1 .. n
  BY KeptFactsHold DEF KeptFacts
<1>2. PICK c \in Nat : DOMAIN files = 1 .. c
  <2>1. PICK c \in Nat : files = [y \in 1 .. c |-> files[y]]
    BY FilesAreListed
  <2> QED
    BY <2>1
<1>3. \A y \in DOMAIN files : Group(y) = Ascending({k \in 1 .. m : kept[k] = files[y]})
  BY GroupInIs
<1>4. \A group, y : NewPlace(group, y) =
        IF version = "v2.1" THEN EpisodeFile(Head(group) - 1) ELSE Place(y - 1)
  BY DEF NewPlace
<1>5. Runs(VideoPaths, n, lo, hi) /\ Alone(version, n, lo, hi)
  <2>1. VideoPaths = [i \in 1 .. n |-> VideoFile(dataset, i)]
    BY <1>1 DEF VideoPaths
  <2> HIDE DEF n
  <2> QED
    BY <2>1 DEF PacketsStored, Stored, n, version
<1>6. x \in DOMAIN jobs /\ jobs[x].source = files[x] /\ jobs[x].episodes = Group(x)
  OBVIOUS
<1>7. JobsOn(jobs, files, kept, m, version)
  <2> HIDE DEF m, kept, files, version, Group
  <2>1. jobs = [y \in 1 .. c |-> jobs[y]] /\ DOMAIN jobs = DOMAIN files
    BY <1>2
  <2>2. \A y \in DOMAIN jobs :
          /\ jobs[y].source = files[y]
          /\ jobs[y].episodes = Ascending({k \in 1 .. m : kept[k] = files[y]})
          /\ jobs[y].output = IF version = "v2.1" THEN EpisodeFile(Head(jobs[y].episodes) - 1)
                              ELSE Place(y - 1)
    BY <1>3, <1>4, <2>1
  <2> QED
    BY <2>1, <2>2 DEF JobsOn
<1> DEFINE job == jobs[x]
<1> HIDE DEF jobs
<1>8. TakesRun(job, kept, m, version)
  <2>1. SharedOut(jobs, kept, m, version)
    BY <1>5, <1>7, JobsFromAreShared DEF JobsFrom
  <2> QED
    BY <1>6, <2>1 DEF SharedOut
<1> DEFINE a == FirstOf(job)
           b == EndOf(job)
<1> HIDE DEF job
<1>9. PICK s, e : Holds(job, Kept, dataset.video, VideoPaths, at, lens, pieces, n, s, e)
  BY <1>8, PacketsHeld
<1>10. /\ a \in 1 .. m /\ b \in a + 1 .. m + 1 /\ job.episodes = Span(a, b)
  BY <1>8 DEF TakesRun
<1>11. \A i \in 1 .. n : at[i] = VideoStart(i)
  OBVIOUS
<1> HIDE DEF n, m, lens, kept, files, version, Group, at, pieces
<1>12. Ranges(job, Kept, dataset.video[job.source], at, lens, pieces)
  BY <1>1, <1>9, <1>10, RangesInFile
<1> DEFINE used == Group(x)
           l == b - a
           keys == [p \in DOMAIN used |-> VideoStart(Kept[used[p]])]
<1>13. l \in Nat /\ used = Span(a, b)
  BY <1>1, <1>6, <1>10 DEF job
<1> HIDE DEF used
<1>14. /\ DOMAIN used = 1 .. l
       /\ \A p \in 1 .. l : /\ used[p] = a + p - 1 /\ used[p] \in a .. b - 1
                            /\ used[p] \in 1 .. m
       /\ used = [p \in 1 .. l |-> used[p]]
  BY <1>1, <1>10, <1>13 DEF Span
<1>15. \A p \in 1 .. l : keys[p] = at[Kept[used[p]]]
  BY <1>1, <1>11, <1>14
<1>16. \A k \in a .. b - 1 : at[Kept[k]] \in Nat /\ lens[Kept[k]] \in Nat \ {0}
  BY <1>12 DEF Ranges
<1>17. \A j, k \in a .. b - 1 : j < k => at[Kept[j]] + lens[Kept[j]] <= at[Kept[k]]
  BY <1>12 DEF Ranges
<1> HIDE DEF a, b, l, keys
<1>18. \A p \in 1 .. l : keys[p] \in Nat
  BY <1>14, <1>15, <1>16
<1>19. ASSUME NEW p \in 1 .. l, NEW q \in 1 .. l, p < q
       PROVE  keys[p] < keys[q]
  <2> DEFINE j == used[p]
             k == used[q]
  <2>1. j \in a .. b - 1 /\ k \in a .. b - 1 /\ keys[p] = at[Kept[j]] /\ keys[q] = at[Kept[k]]
    BY <1>14, <1>15
  <2>2. j < k
    <3>1. j = a + p - 1 /\ k = a + q - 1 /\ a \in Nat
      BY <1>1, <1>10, <1>14
    <3> QED
      BY <1>13, <1>19, <3>1
  <2> HIDE DEF j, k
  <2>3. at[Kept[j]] + lens[Kept[j]] <= at[Kept[k]]
    BY <1>17, <2>1, <2>2
  <2>4. at[Kept[j]] \in Nat /\ lens[Kept[j]] \in Nat \ {0} /\ at[Kept[k]] \in Nat
    BY <1>16, <2>1
  <2> QED
    BY <2>1, <2>3, <2>4
<1>20. SortedBy(used, keys) = [p \in 1 .. l |-> used[p]]
  <2>1. l \in Nat /\ DOMAIN used = 1 .. l
    BY <1>13, <1>14
  <2> QED
    BY <1>18, <1>19, <2>1, SortedAlready, Zenon
<1>21. SortedBy(used, keys) = used /\ DOMAIN used = 1 .. l
  BY <1>14, <1>20
<1> QED
  BY <1>13, <1>21 DEF used, keys, Group, files

(* So do its media jobs, each with the ranges and the mode it needs.       *)
LEMMA MediaJobsAreShared ==
  ASSUME EditBase, "camera" \notin edit.remove,
         NEW lo, NEW hi, PacketsStored(dataset, Len(recording.lens), recording.lens,
                                       RecordedPackets(recording), lo, hi)
  PROVE  /\ SharedOut(MediaJobs, KeptIn(VideoPaths), Len(Kept), dataset.version)
         /\ \A x \in DOMAIN MediaJobs : PlannedMedia(MediaJobs[x])
<1> DEFINE n == Len(recording.lens)
           m == Len(Kept)
           kept == KeptIn(VideoPaths)
           files == FilesOf(VideoPaths)
           version == dataset.version
           Group(x) == GroupIn(VideoPaths, files[x])
           Sort(used) == SortedBy(used, [p \in DOMAIN used |-> VideoStart(Kept[used[p]])])
           Reads(group) == [p \in DOMAIN group |-> VideoRange(group[p])]
           Part(x, group) == SumFunction([p \in DOMAIN group |-> NewLens[group[p]]])
                               # Len(dataset.video[files[x]])
           Made(x, group) == Transform(dataset.video[files[x]], Reads(group), Part(x, group))
           Job(x, group) ==
             [source |-> files[x], output |-> NewPlace(group, x), episodes |-> group,
              ranges |-> Reads(group), transform |-> Made(x, group),
              mode |-> IF Made(x, group) # NotGiven THEN "transcode"
                       ELSE IF Part(x, group) THEN "remux" ELSE "reuse"]
           jobs == MediaJobs
<1>1. jobs = [x \in DOMAIN files |-> Job(x, Sort(Group(x)))]
  BY DEF MediaJobs
<1>2. PICK c \in Nat : DOMAIN files = 1 .. c
  <2>1. PICK c \in Nat : files = [x \in 1 .. c |-> files[x]]
    BY FilesAreListed
  <2> QED
    BY <2>1
<1>3. \A x \in DOMAIN files : Group(x) = Ascending({k \in 1 .. m : kept[k] = files[x]})
  BY GroupInIs
<1>4. \A group, x : NewPlace(group, x) =
        IF version = "v2.1" THEN EpisodeFile(Head(group) - 1) ELSE Place(x - 1)
  BY DEF NewPlace
<1>5. \A x \in DOMAIN files : Sort(Group(x)) = Group(x)
  BY GroupIsSorted
<1> HIDE DEF Sort
<1>6. \A x \in DOMAIN jobs : x \in DOMAIN files /\ jobs[x] = Job(x, Group(x))
  <2> HIDE DEF Job, jobs, files, Group
  <2> QED
    BY <1>1, <1>5
<1>7. \A x, group : /\ Job(x, group).source = files[x] /\ Job(x, group).episodes = group
                    /\ Job(x, group).output = NewPlace(group, x)
  OBVIOUS
<1>8. \A x, group : PlannedMedia(Job(x, group))
  <2> SUFFICES ASSUME NEW x, NEW group
               PROVE  PlannedMedia(Job(x, group))
    OBVIOUS
  <2> DEFINE job == Job(x, group)
  <2>1. /\ job.source = files[x] /\ job.episodes = group /\ job.ranges = Reads(group)
        /\ job.transform = Made(x, group)
        /\ job.mode = IF Made(x, group) # NotGiven THEN "transcode"
                      ELSE IF Part(x, group) THEN "remux" ELSE "reuse"
    OBVIOUS
  <2>2. Partial(job) = Part(x, group)
    <3> HIDE DEF job
    <3> QED
      BY <2>1 DEF Partial
  <2>3. job.ranges = [p \in DOMAIN job.episodes |-> VideoRange(job.episodes[p])]
    <3> HIDE DEF job
    <3> QED
      BY <2>1
  <2>4. Made(x, group) = Transform(dataset.video[job.source], job.ranges, Partial(job))
    <3> HIDE DEF job, Part, Reads
    <3> QED
      BY <2>1, <2>2
  <2> HIDE DEF job, Made, Part
  <2> QED
    BY <2>1, <2>2, <2>3, <2>4 DEF PlannedMedia, job
<1>9. JobsOn(jobs, files, kept, m, version)
  <2> HIDE DEF m, kept, files, version, Group, Job, jobs
  <2>1. jobs = [x \in 1 .. c |-> jobs[x]] /\ DOMAIN jobs = DOMAIN files
    BY <1>1, <1>2
  <2>2. \A x \in DOMAIN jobs :
          /\ jobs[x].source = files[x]
          /\ jobs[x].episodes = Ascending({k \in 1 .. m : kept[k] = files[x]})
          /\ jobs[x].output = IF version = "v2.1" THEN EpisodeFile(Head(jobs[x].episodes) - 1)
                              ELSE Place(x - 1)
    BY <1>3, <1>4, <1>6, <1>7
  <2> QED
    BY <2>1, <2>2 DEF JobsOn
<1>10. Runs(VideoPaths, n, lo, hi) /\ Alone(version, n, lo, hi)
  <2>1. VideoPaths = [i \in 1 .. n |-> VideoFile(dataset, i)]
    BY KeptFactsHold DEF VideoPaths, KeptFacts
  <2> HIDE DEF n
  <2> QED
    BY <2>1 DEF PacketsStored, Stored, n, version
<1>11. SharedOut(jobs, kept, m, version)
  <2> HIDE DEF jobs, files, kept, m, version
  <2> QED
    BY <1>9, <1>10, JobsFromAreShared DEF JobsFrom, files, kept, m, version
<1>12. \A x \in DOMAIN jobs : PlannedMedia(jobs[x])
  <2> HIDE DEF jobs, Job
  <2> QED
    BY <1>6, <1>8
<1> QED
  BY <1>11, <1>12

-----------------------------------------------------------------------------
(* Tasks and splits.                                                       *)

(* Tables whose numbers leave no gap.                                      *)
Tables(V) == UNION {[0 .. c - 1 -> V] : c \in Nat}

(* A table that holds what another does, and a text.                       *)
Grows(next, table, text, V) ==
  /\ next \in Tables(V)
  /\ \A n \in DOMAIN table : n \in DOMAIN next /\ next[n] = table[n]
  /\ \E n \in DOMAIN next : next[n] = text

(* Adding a text keeps the labels that are there and finds the new one.    *)
LEMMA TaskAdded ==
  ASSUME NEW V, NEW table \in Tables(V), NEW text \in V
  PROVE  Grows(AddTask(table, text), table, text, V)
<1>1. PICK c \in Nat : table \in [0 .. c - 1 -> V]
  BY DEF Tables
<1>2. Cardinality(DOMAIN table) = c
  <2>1. DOMAIN table = 0 .. c - 1
    BY <1>1
  <2>2. Cardinality(0 .. c - 1) = c
    <3>1. 0 \in Int /\ c - 1 \in Int
      BY <1>1
    <3> QED
      BY <1>1, <3>1, FS_Interval
  <2> QED
    BY <2>1, <2>2
<1>3. CASE text \in Range(table)
  <2>1. AddTask(table, text) = table
    BY <1>3 DEF AddTask
  <2>2. \E n \in DOMAIN table : table[n] = text
    BY <1>3 DEF Range
  <2> QED
    BY <2>1, <2>2 DEF Grows
<1>4. CASE text \notin Range(table)
  <2> DEFINE next == AddTask(table, text)
  <2>1. next = [k \in DOMAIN table \cup {c} |-> IF k = c THEN text ELSE table[k]]
    BY <1>2, <1>4 DEF AddTask, Assign
  <2>2. DOMAIN table \cup {c} = 0 .. c
    BY <1>1
  <2>3. next \in [0 .. c -> V]
    <3>1. \A k \in 0 .. c : k # c => table[k] \in V
      BY <1>1
    <3> HIDE DEF next
    <3> QED
      BY <2>1, <2>2, <3>1
  <2>4. next \in Tables(V)
    <3>1. c + 1 \in Nat /\ (c + 1) - 1 = c
      BY <1>1
    <3>2. next \in [0 .. (c + 1) - 1 -> V]
      BY <2>3, <3>1
    <3> HIDE DEF next
    <3> QED
      BY <3>1, <3>2 DEF Tables
  <2>5. c \in DOMAIN next /\ next[c] = text
    BY <1>1, <2>1
  <2>6. \A n \in DOMAIN table : n \in DOMAIN next /\ next[n] = table[n]
    BY <1>1, <2>1
  <2> HIDE DEF next
  <2> QED
    BY <2>4, <2>5, <2>6 DEF Grows, next
<1> QED
  BY <1>3, <1>4

(* What a table holds after texts have been added, the first r of them.    *)
HoldsTexts(next, table, texts, r) ==
  /\ \A n \in DOMAIN table : n \in DOMAIN next /\ next[n] = table[n]
  /\ \A j \in 1 .. r : \E n \in DOMAIN next : next[n] = texts[j]

(* The same of a row of texts.                                             *)
LEMMA TasksAdded ==
  ASSUME NEW table, NEW texts, NEW R \in Nat, DOMAIN texts = 1 .. R,
         NEW U, table \in Tables(U)
  PROVE  LET next == AddTasks(table, texts)
         IN  /\ \E W : next \in Tables(W)
             /\ HoldsTexts(next, table, texts, R)
<1> DEFINE V == U \cup {texts[i] : i \in 1 .. R}
<1>a. /\ \A i \in 1 .. R : texts[i] \in V
      /\ table \in Tables(V) /\ R \in Nat /\ DOMAIN texts = 1 .. R
  <2>1. PICK c \in Nat : table \in [0 .. c - 1 -> U]
    BY DEF Tables
  <2>2. table \in [0 .. c - 1 -> V]
    BY <2>1
  <2> QED
    BY <2>2 DEF Tables
<1> HIDE DEF V
<1> DEFINE indices == texts
           D == 1 .. R
           St == Tables(V)
           base == table
           pick == [s \in SUBSET D |-> Max(s)]
           Op(x, y) == AddTask(x, y)
           f == [p \in St \X D |-> Op(p[1], indices[p[2]])]
           Step(g, s) == AddTask(g[s \ {Max(s)}], indices[Max(s)])
           Fold == CHOOSE g : g = [s \in SUBSET DOMAIN indices |->
                                     IF s = {} THEN base ELSE Step(g, s)]
<1>1. /\ DOMAIN indices = D /\ (\A i \in D : indices[i] = texts[i]) /\ D \in SUBSET Nat
      /\ R \in Nat
  BY <1>a
<1>2. base \in St
  BY <1>a DEF V
<1>0. \A x \in St, i \in D : Op(x, indices[i]) \in St
  <2> SUFFICES ASSUME NEW x \in St, NEW i \in D PROVE Op(x, indices[i]) \in St
    OBVIOUS
  <2>1. indices[i] \in V
    BY <1>a DEF V
  <2> HIDE DEF indices, D, V
  <2> QED BY <2>1, TaskAdded DEF Grows
<1>3. f \in [St \X D -> St]
  <2>1. \A x \in St, i \in D : Op(x, indices[i]) \in St
    BY <1>0
  <2> HIDE DEF St, D, Op, indices
  <2> QED BY <2>1
<1>4. Picks(pick, D) /\ TakesMax(pick, D, R)
  <2>1. TakesMax(pick, D, R)
    BY <1>1 DEF TakesMax
  <2> HIDE DEF pick, D
  <2> QED BY <2>1, MaxPicks
<1>5. PICK g \in [SUBSET D -> St] : Folds(g, f, pick, base, D, St)
  <2>1. IsFiniteSet(D)
    <3>1. 1 \in Int /\ R \in Int
      BY <1>1
    <3> QED BY <3>1, FS_Interval
  <2>2. Picks(pick, D)
    BY <1>4
  <2> HIDE DEF D, St, base, pick, f
  <2> QED BY <1>2, <1>3, <2>1, <2>2, FoldExists
<1>6. \A s \in SUBSET D : s # {} => pick[s] = Max(s) /\ pick[s] \in D
  BY <1>4 DEF Picks, TakesMax
<1>7. \A x, s : s \in SUBSET D /\ s # {} /\ x \in St =>
        f[<<x, pick[s]>>] = Op(x, indices[Max(s)])
  <2> TAKE x, s
  <2> HAVE s \in SUBSET D /\ s # {} /\ x \in St
  <2>1. <<x, pick[s]>> \in St \X D /\ pick[s] = Max(s) /\ pick[s] \in D
    BY <1>6
  <2> HIDE DEF St, D, pick, indices, Op
  <2> QED BY <2>1
<1> HIDE DEF f
<1>s. \A h, s : Step(h, s) = Op(h[s \ {Max(s)}], indices[Max(s)])
  OBVIOUS
<1> HIDE DEF Op, Step
<1>8. g = [s \in SUBSET DOMAIN indices |-> IF s = {} THEN base ELSE Step(g, s)]
  <2>1. ASSUME NEW s \in SUBSET D, s # {} PROVE g[s] = Step(g, s)
    <3>1. pick[s] \in D /\ g[s \ {pick[s]}] \in St /\ pick[s] = Max(s)
      BY <1>6, <2>1
    <3>2. g[s] = f[<<g[s \ {pick[s]}], pick[s]>>]
      BY <1>5, <2>1, <3>1 DEF Folds
    <3> HIDE DEF St, D, indices, pick
    <3> QED BY <1>7, <1>s, <2>1, <3>1, <3>2
  <2>2. g[{}] = base /\ DOMAIN indices = D
    BY <1>1, <1>5 DEF Folds
  <2> HIDE DEF D, St, base, indices
  <2> QED BY <1>5, <2>1, <2>2
<1>9. Fold = [s \in SUBSET DOMAIN indices |-> IF s = {} THEN base ELSE Step(Fold, s)]
  <2> HIDE DEF D, St, base, indices
  <2> QED BY <1>8, Zenon
<1>10. Folds(Fold, f, pick, base, D, St)
  <2>1. ASSUME NEW s \in SUBSET D, s # {}, Fold[s \ {pick[s]}] \in St
        PROVE  Fold[s] = f[<<Fold[s \ {pick[s]}], pick[s]>>]
    <3>1. Fold[s] = Step(Fold, s)
      <4>1. DOMAIN indices = D
        BY <1>1
      <4> HIDE DEF Fold, base, D, indices
      <4> QED BY <1>9, <2>1, <4>1
    <3>2. pick[s] = Max(s) /\ pick[s] \in D
      BY <1>6, <2>1
    <3> HIDE DEF Fold, St, D, indices, pick
    <3> QED BY <1>7, <1>s, <2>1, <3>1, <3>2
  <2>2. Fold[{}] = base
    <3> HIDE DEF D, Fold, base, indices
    <3> QED BY <1>9
  <2> HIDE DEF Fold, pick, St, D, base
  <2> QED BY <2>1, <2>2 DEF Folds
<1>11. PICK h : Steps(h, f, base, R, St) /\ Fold[D] = h[R]
  <2> HIDE DEF Fold, pick, St, base, D
  <2>1. StepsWithin(f, base, D, St)
    BY <1>2, <1>3 DEF StepsWithin
  <2> QED BY <1>4, <1>10, <2>1, FoldInOrder
<1>12. AddTasks(table, texts) = Fold[D]
  <2>1. AddTasks(table, texts) = Fold[DOMAIN indices]
    BY Zenon DEF FoldLeft, MapThenFoldSet, Step, AddTasks
  <2>2. DOMAIN indices = D
    BY <1>1
  <2> HIDE DEF Fold, D, indices
  <2> QED BY <2>1, <2>2
<1>13. \A i \in 1 .. R : h[i] = Op(h[i - 1], indices[i])
  <2> TAKE i \in 1 .. R
  <2>1. i - 1 \in 0 .. R
    BY <1>1
  <2>2. <<h[i - 1], i>> \in St \X D
    BY <1>11, <2>1 DEF Steps
  <2>3. h[i] = f[<<h[i - 1], i>>]
    BY <1>11 DEF Steps
  <2> HIDE DEF St, D, indices
  <2> QED BY <2>2, <2>3 DEF f
<1> DEFINE P(i) == HoldsTexts(h[i], table, texts, i)
           Good == {i \in Nat : i <= R => P(i)}
<1>14. /\ \A i \in 0 .. R : h[i] \in Tables(V)
       /\ h[0] = table
       /\ \A i \in 1 .. R : h[i] = AddTask(h[i - 1], texts[i])
  <2>1. \A i \in 1 .. R : h[i] = AddTask(h[i - 1], texts[i])
    BY <1>1, <1>13 DEF Op
  <2>2. h \in [0 .. R -> St] /\ h[0] = base
    BY <1>11 DEF Steps
  <2> QED BY <2>1, <2>2
<1>15. AddTasks(table, texts) = h[R]
  <2> HIDE DEF Fold, D, St
  <2> QED BY <1>11, <1>12
<1> HIDE DEF indices, D, St, base, pick, Fold
<1>16. 0 \in Good
  <2>1. \A j \in 1 .. 0 : FALSE
    OBVIOUS
  <2> QED BY <1>14, <2>1 DEF HoldsTexts
<1>17. ASSUME NEW i \in Good
       PROVE  i + 1 \in Good
  <2> SUFFICES ASSUME i + 1 <= R
               PROVE  P(i + 1)
    OBVIOUS
  <2>1. i \in 0 .. R /\ i + 1 \in 1 .. R /\ (i + 1) - 1 = i /\ P(i)
    BY <1>a
  <2>2. h[i + 1] = AddTask(h[i], texts[i + 1])
    BY <1>14, <2>1
  <2>3. texts[i + 1] \in V /\ h[i] \in Tables(V)
    BY <1>a, <1>14, <2>1
  <2>4. Grows(h[i + 1], h[i], texts[i + 1], V)
    BY <2>2, <2>3, TaskAdded
  <2>5. \A j \in 1 .. i + 1 : j \in 1 .. i \/ j = i + 1
    BY <2>1
  <2> QED
    BY <2>1, <2>4, <2>5 DEF HoldsTexts, Grows
<1>18. Good = Nat
  <2>1. Good \in SUBSET Nat
    OBVIOUS
  <2> HIDE DEF Good
  <2> QED BY <1>16, <1>17, <2>1, SetInduction
<1>19. P(R)
  BY <1>a, <1>18
<1> QED
  BY <1>a, <1>14, <1>15, <1>19

(* The tasks of the edited dataset: the old ones keep their numbers, and   *)
(* the number an episode is given is that of the text asked for.           *)
TasksHold ==
  /\ \A label \in DOMAIN dataset.tasks :
       label \in DOMAIN NewTasks /\ NewTasks[label] = dataset.tasks[label]
  /\ \A k \in 1 .. Len(Kept) :
       IF Kept[k] - 1 \in DOMAIN edit.retask
       THEN Override(k) # NotGiven /\ NewTasks[Override(k)] = edit.retask[Kept[k] - 1]
       ELSE Override(k) = NotGiven

(* Labels of the source keep their texts; a replaced task has a label.     *)
LEMMA NewTasksHold ==
  ASSUME EditBase, ~SparseLabels
  PROVE  TasksHold
<1> DEFINE table == dataset.tasks
           n == Len(recording.lens)
           m == Len(Kept)
           S == {i \in 1 .. Count : i - 1 \notin edit.delete /\ i - 1 \in DOMAIN edit.retask}
           R == Cardinality(S)
           texts == [j \in DOMAIN Retasked |-> edit.retask[Retasked[j] - 1]]
<1>1. n \in Nat \ {0} /\ m \in Nat /\ Count = n /\ DOMAIN Kept = 1 .. m
  BY KeptFactsHold DEF KeptFacts
<1>2. table \in Tables(Range(table))
  <2>1. recording \in Recordings /\ dataset = Source(recording)
    BY DEF EditBase
  <2>2. table = recording.tasks /\ IsTable(recording.tasks)
    BY <2>1, SourceIs, RecordingIs DEF SourceMeta
  <2> HIDE DEF table
  <2>3. /\ table = [label \in DOMAIN table |-> table[label]]
        /\ IsFiniteSet(DOMAIN table)
    BY <2>2 DEF IsTable
  <2>4. DOMAIN table = 0 .. Cardinality(DOMAIN table) - 1 /\ Cardinality(DOMAIN table) \in Nat
    BY <2>3, FS_CardinalityType DEF SparseLabels, table
  <2>5. table \in [DOMAIN table -> Range(table)]
    BY <2>3 DEF Range
  <2> QED
    BY <2>4, <2>5 DEF Tables
<1>3. S \in SUBSET Nat /\ IsFiniteSet(S) /\ S \subseteq 1 .. n
  <2>1. 1 .. n \in SUBSET Nat /\ S \subseteq 1 .. n
    BY <1>1
  <2>2. IsFiniteSet(1 .. n)
    BY <1>1, FS_Interval
  <2> QED
    BY <2>1, <2>2, FS_Subset
<1>4. /\ R \in Nat /\ DOMAIN Retasked = 1 .. R
      /\ \A i \in S : \E j \in 1 .. R : Retasked[j] = i
  <2>1. Retasked = Ascending(S)
    BY DEF Retasked
  <2> HIDE DEF S
  <2>2. Cardinality(S) \in Nat /\ Ascending(S) \in [1 .. Cardinality(S) -> S]
    BY <1>3, AscendingType
  <2>3. \A i \in S : \E j \in 1 .. Cardinality(S) : Ascending(S)[j] = i
    BY <1>3, AscendingRank
  <2> QED
    BY <2>1, <2>2, <2>3
<1>5. DOMAIN texts = 1 .. R /\ \A j \in 1 .. R : texts[j] = edit.retask[Retasked[j] - 1]
  BY <1>4
<1>6. NewTasks = AddTasks(table, texts)
  BY DEF NewTasks
<1> HIDE DEF table, texts, R
<1>7. (\E W : NewTasks \in Tables(W)) /\ HoldsTexts(NewTasks, table, texts, R)
  BY <1>2, <1>4, <1>5, <1>6, TasksAdded
<1>8. PICK c \in Nat : DOMAIN NewTasks = 0 .. c - 1
  BY <1>7 DEF Tables
<1>9. \A label \in DOMAIN table : label \in DOMAIN NewTasks /\ NewTasks[label] = table[label]
  BY <1>7 DEF HoldsTexts
<1>10. ASSUME NEW k \in 1 .. m
       PROVE  IF Kept[k] - 1 \in DOMAIN edit.retask
              THEN Override(k) # NotGiven /\ NewTasks[Override(k)] = edit.retask[Kept[k] - 1]
              ELSE Override(k) = NotGiven
  <2>1. CASE Kept[k] - 1 \notin DOMAIN edit.retask
    BY <2>1 DEF Override
  <2>2. CASE Kept[k] - 1 \in DOMAIN edit.retask
    <3> DEFINE text == edit.retask[Kept[k] - 1]
               T == {l \in DOMAIN NewTasks : NewTasks[l] = text}
    <3>1. Kept[k] \in S
      <4> DEFINE Q == {i \in 1 .. Count : i - 1 \notin edit.delete}
      <4>1. Q \in SUBSET Nat /\ IsFiniteSet(Q)
        <5>1. 1 .. n \in SUBSET Nat /\ Q \subseteq 1 .. n
          BY <1>1
        <5>2. IsFiniteSet(1 .. n)
          <6> HIDE DEF n
          <6>1. 1 \in Int /\ n \in Int
            BY <1>1
          <6> QED
            BY <6>1, FS_Interval
        <5> QED
          BY <5>1, <5>2, FS_Subset
      <4>2. Kept = Ascending(Q)
        BY DEF Kept
      <4> HIDE DEF Q
      <4>3. Kept[k] \in Q
        <5>1. Kept \in [1 .. Cardinality(Q) -> Q]
          BY <4>1, <4>2, AscendingType
        <5>2. k \in DOMAIN Kept
          BY <1>1
        <5> QED
          BY <5>1, <5>2
      <4> QED
        BY <2>2, <4>3 DEF Q
    <3>2. PICK j \in 1 .. R : Retasked[j] = Kept[k]
      BY <1>4, <3>1
    <3>3. \E l \in DOMAIN NewTasks : NewTasks[l] = texts[j]
      BY <1>7 DEF HoldsTexts
    <3>4. texts[j] = text
      BY <1>5, <3>2
    <3>5. T # {} /\ T \in SUBSET Int /\ T \subseteq 0 .. c - 1
      BY <1>8, <3>3, <3>4
    <3>6. IsFiniteSet(T)
      <4>1. 0 \in Int /\ c - 1 \in Int
        OBVIOUS
      <4>2. IsFiniteSet(0 .. c - 1)
        BY <4>1, FS_Interval
      <4> QED
        BY <3>5, <4>2, FS_Subset
    <3>7. Override(k) = Min(T)
      BY <2>2 DEF Override
    <3>8. Min(T) \in T
      <4> HIDE DEF T
      <4> QED
        BY <3>5, <3>6, FiniteMin
    <3>9. Override(k) \in 0 .. c - 1 /\ NewTasks[Override(k)] = text
      BY <3>5, <3>7, <3>8
    <3>10. Override(k) # NotGiven
      <4>1. Override(k) \in Nat
        BY <3>9
      <4> QED
        BY <4>1, OptionalAssumption DEF OptionalAssumption
    <3> QED
      BY <2>2, <3>9, <3>10
  <2> QED
    BY <2>1, <2>2
<1> QED
  BY <1>9, <1>10 DEF TasksHold, table, m

(* Retained episodes below some episode of the source come first.          *)
Under(t) == {k \in DOMAIN Kept : Kept[k] - 1 < t}

(* The retained episodes before a position are the first ones.             *)
LEMMA UnderIs ==
  ASSUME EditBase, NEW t \in Nat
  PROVE  Cardinality(Under(t)) \in Nat /\ Under(t) = 1 .. Cardinality(Under(t))
<1> DEFINE n == Len(recording.lens)
           m == Len(Kept)
           W == Under(t)
           val == Kept
           u == 1
<1>1. /\ n \in Nat \ {0} /\ m \in Nat /\ DOMAIN Kept = 1 .. m /\ Rising(Kept, m, n)
  BY KeptFactsHold DEF KeptFacts
<1> HIDE DEF n, m
<1>2. /\ \A x \in 1 .. m : val[x] \in Nat
      /\ \A x, y \in 1 .. m : x < y => val[x] < val[y]
  BY <1>1 DEF Rising
<1>3. \A x \in u .. m : x \in W <=> val[x] <= t
  BY <1>1, <1>2 DEF Under
<1>4. W \in SUBSET (u .. m)
  BY <1>1 DEF Under
<1>5. \A x, y \in 1 .. m : x < y => val[x] <= val[y]
  BY <1>2
<1>6. u \in Nat \ {0}
  OBVIOUS
<1> HIDE DEF W, val, u
<1>7. \E c : Stretch(W, u, m, c)
  BY <1>1, <1>2, <1>3, <1>4, <1>5, <1>6, Cutoff
<1>8. PICK c : c \in Nat /\ W = u .. u + c - 1 /\ Cardinality(W) = c
  BY <1>7 DEF Stretch
<1> QED
  BY <1>8 DEF u, W

(* Every split becomes the interval of what is left of it.                 *)
LEMMA SplitsHold ==
  ASSUME EditBase
  PROVE  /\ DOMAIN NewSplits = DOMAIN dataset.splits
         /\ \A name \in DOMAIN dataset.splits :
              Retained(dataset.splits[name]) = NewSplits[name][1] + 1 .. NewSplits[name][2]
<1>1. /\ DOMAIN NewSplits = DOMAIN dataset.splits
      /\ \A name \in DOMAIN dataset.splits :
           NewSplits[name] = <<Cardinality(Under(dataset.splits[name][1])),
                               Cardinality(Under(dataset.splits[name][2]))>>
  BY DEF NewSplits, Under
<1>2. \A name \in DOMAIN dataset.splits :
        /\ dataset.splits[name] \in Nat \X Nat
        /\ dataset.splits[name][1] <= dataset.splits[name][2]
  <2>1. recording \in Recordings /\ dataset = Source(recording)
    BY DEF EditBase
  <2>2. dataset.splits = recording.splits
    BY <2>1, SourceIs DEF SourceMeta
  <2> QED
    BY <2>1, <2>2, EditorAssumption DEF EditorAssumption
<1>3. ASSUME NEW name \in DOMAIN dataset.splits
      PROVE  Retained(dataset.splits[name]) = NewSplits[name][1] + 1 .. NewSplits[name][2]
  <2> DEFINE s == dataset.splits[name]
             x == s[1]
             y == s[2]
             p == Cardinality(Under(x))
             q == Cardinality(Under(y))
  <2>1. x \in Nat /\ y \in Nat /\ x <= y
    BY <1>2
  <2>2. NewSplits[name][1] = p /\ NewSplits[name][2] = q
    BY <1>1
  <2>3. Retained(s) = {k \in DOMAIN Kept : x <= Kept[k] - 1 /\ Kept[k] - 1 < y}
    BY DEF Retained
  <2> HIDE DEF s, x, y
  <2>4. p \in Nat /\ Under(x) = 1 .. p /\ q \in Nat /\ Under(y) = 1 .. q
    BY <2>1, UnderIs
  <2> HIDE DEF p, q
  <2>5. \A k \in DOMAIN Kept : Kept[k] \in Nat
    BY KeptFactsHold DEF KeptFacts
  <2>6. \A k \in DOMAIN Kept : x <= Kept[k] - 1 <=> ~(Kept[k] - 1 < x)
    BY <2>1, <2>5
  <2>7. {k \in DOMAIN Kept : x <= Kept[k] - 1 /\ Kept[k] - 1 < y} = Under(y) \ Under(x)
    BY <2>6 DEF Under
  <2>8. Under(x) \subseteq Under(y)
    BY <2>1, <2>5 DEF Under
  <2>9. (1 .. q) \ (1 .. p) = p + 1 .. q
    BY <2>4
  <2> QED
    BY <2>2, <2>3, <2>4, <2>7, <2>9 DEF s
<1> QED
  BY <1>1, <1>3

-----------------------------------------------------------------------------
(* The invariant of the edit, and that what it publishes is exact.         *)

(* The job that takes a retained episode.                                  *)
JobOf(jobs, k) == CHOOSE x \in DOMAIN jobs : Contains(jobs[x].episodes, k)

(* The job an episode is found in is the one that carries it.              *)
LEMMA JobOfIs ==
  ASSUME NEW jobs, NEW kept, NEW m \in Nat, NEW version, SharedOut(jobs, kept, m, version),
         NEW k \in 1 .. m
  PROVE  LET x == JobOf(jobs, k)
         IN  /\ x \in DOMAIN jobs /\ FirstOf(jobs[x]) <= k /\ k < EndOf(jobs[x])
             /\ TakesRun(jobs[x], kept, m, version)
             /\ \A y \in DOMAIN jobs :
                  FirstOf(jobs[y]) <= k /\ k < EndOf(jobs[y]) => y = x
<1>1. /\ \A x \in DOMAIN jobs : TakesRun(jobs[x], kept, m, version)
      /\ \E x \in DOMAIN jobs : jobs[x].source = kept[k]
      /\ \A x, y \in DOMAIN jobs : jobs[x].source = jobs[y].source => x = y
  BY DEF SharedOut
<1>2. \A x \in DOMAIN jobs :
        /\ FirstOf(jobs[x]) \in 1 .. m /\ EndOf(jobs[x]) \in FirstOf(jobs[x]) + 1 .. m + 1
        /\ jobs[x].episodes = Span(FirstOf(jobs[x]), EndOf(jobs[x]))
        /\ kept[k] = jobs[x].source <=> FirstOf(jobs[x]) <= k /\ k < EndOf(jobs[x])
  BY <1>1 DEF TakesRun
<1>3. ASSUME NEW x \in DOMAIN jobs
      PROVE  Contains(jobs[x].episodes, k) <=> FirstOf(jobs[x]) <= k /\ k < EndOf(jobs[x])
  <2> DEFINE a == FirstOf(jobs[x])
             b == EndOf(jobs[x])
  <2>1. a \in Nat /\ b \in Nat /\ a < b /\ jobs[x].episodes = Span(a, b)
    BY <1>2
  <2> HIDE DEF a, b
  <2>2. /\ Len(Span(a, b)) = b - a /\ Span(a, b) \in Seq(Nat)
        /\ \A i \in 1 .. b - a : Span(a, b)[i] = a + i - 1
    BY <2>1, SpanProperties
  <2>3. Contains(jobs[x].episodes, k) <=> \E i \in 1 .. b - a : a + i - 1 = k
    BY <2>1, <2>2 DEF Contains
  <2>4. a <= k /\ k < b => k - a + 1 \in 1 .. b - a /\ a + (k - a + 1) - 1 = k
    BY <2>1
  <2>5. \A i \in 1 .. b - a : a + i - 1 = k => a <= k /\ k < b
    BY <2>1
  <2> QED
    BY <2>3, <2>4, <2>5 DEF a, b
<1>4. PICK x \in DOMAIN jobs : kept[k] = jobs[x].source
  BY <1>1
<1>5. \A y \in DOMAIN jobs : FirstOf(jobs[y]) <= k /\ k < EndOf(jobs[y]) => y = x
  BY <1>1, <1>2, <1>4
<1>6. FirstOf(jobs[x]) <= k /\ k < EndOf(jobs[x])
  BY <1>2, <1>4
<1>7. JobOf(jobs, k) = x
  <2>1. Contains(jobs[x].episodes, k)
    BY <1>3, <1>6
  <2>2. \A y \in DOMAIN jobs : Contains(jobs[y].episodes, k) => y = x
    BY <1>3, <1>5
  <2> QED
    BY <2>1, <2>2 DEF JobOf
<1> QED
  BY <1>1, <1>5, <1>6, <1>7

(* The dataset that is published.                                          *)
EditedDataset ==
  [version |-> dataset.version, tasks |-> NewTasks, splits |-> NewSplits,
   meta |-> [k \in DOMAIN Kept |-> EditedRow(k)],
   data |-> staged.data, video |-> staged.video]

(* The file of a job is written, with the rows it should have.             *)
DataHeld(job) ==
  /\ job.output \in DOMAIN staged.data
  /\ Compact(staged.data[job.output], FirstOf(job), EndOf(job), NewLens, NewRows)

(* The data jobs of the manifest divide the retained episodes.             *)
DataDivided == SharedOut(work.data, KeptIn(DataPaths), Len(Kept), dataset.version)

(* The metadata of a row of the published dataset.                         *)
LEMMA EditedMeta ==
  ASSUME EditBase, edited = EditedDataset
  PROVE  /\ edited.version = dataset.version /\ edited.data = staged.data
         /\ edited.tasks = NewTasks /\ edited.splits = NewSplits
         /\ DOMAIN edited.meta = 1 .. Len(Kept)
         /\ \A k \in 1 .. Len(Kept) :
              /\ edited.meta[k].length = NewLens[k] /\ edited.meta[k].from = NewStart(k)
              /\ edited.meta[k].stats = EditedStats(k)
              /\ edited.meta[k].data = work.data[JobOf(work.data, k)].output
<1>1. DOMAIN Kept = 1 .. Len(Kept)
  BY KeptFactsHold DEF KeptFacts
<1>2. /\ edited.version = dataset.version /\ edited.data = staged.data
      /\ edited.tasks = NewTasks /\ edited.splits = NewSplits
      /\ edited.meta = [k \in 1 .. Len(Kept) |-> EditedRow(k)]
  BY <1>1 DEF EditedDataset
<1>3. \A k : /\ EditedRow(k).length = NewLens[k] /\ EditedRow(k).from = NewStart(k)
             /\ EditedRow(k).stats = EditedStats(k)
             /\ EditedRow(k).data = work.data[JobOf(work.data, k)].output
  BY DEF EditedRow, JobOf
<1> QED
  BY <1>2, <1>3

(* Every episode finds its rows in the published files.                    *)
LEMMA EditedRowsAre ==
  ASSUME EditBase, edited = EditedDataset, DataDivided,
         \A x \in DOMAIN work.data : DataHeld(work.data[x]),
         NEW k \in 1 .. Len(Kept)
  PROVE  RowsOf(edited, k) = NewRows[k]
<1> DEFINE m == Len(Kept)
           jobs == work.data
           kept == KeptIn(DataPaths)
           version == dataset.version
           x == JobOf(jobs, k)
           job == jobs[x]
           a == FirstOf(job)
           b == EndOf(job)
           file == staged.data[job.output]
           meta == edited.meta
           off == [i \in 1 .. m + 1 |-> Offset(NewLens, i)]
           piece == NewRows[k]
           l == off[b] - off[a]
<1>1. m \in Nat /\ NewLens \in [1 .. m -> Nat \ {0}] /\ version \in Versions
  BY KeptFactsHold DEF KeptFacts
<1>2. /\ SharedOut(jobs, kept, m, version)
      /\ \A y \in DOMAIN jobs : DataHeld(jobs[y])
  BY DEF DataDivided
<1>3. /\ edited.version = version /\ edited.data = staged.data /\ DOMAIN meta = 1 .. m
      /\ \A j \in 1 .. m : /\ meta[j].length = NewLens[j] /\ meta[j].from = Offset(NewLens, j)
                           /\ meta[j].data = jobs[JobOf(jobs, j)].output
  BY EditedMeta DEF NewStart
<1>4. piece = [f \in 1 .. NewLens[k] |-> NewRows[k][f]]
  <2>1. NewRows[k] = [f \in 1 .. NewLens[k] |-> EditRow(k, RecordedRow(recording, Kept[k], f))]
    BY DEF NewRows
  <2> QED
    BY <2>1
<1>5. \A y \in DOMAIN jobs : TakesRun(jobs[y], kept, m, version)
  BY <1>2 DEF SharedOut
<1>6. k \in 1 .. m
  OBVIOUS
<1> HIDE DEF m, jobs, kept, version, meta
<1>7. \A j \in 1 .. m :
        LET y == JobOf(jobs, j)
        IN  /\ y \in DOMAIN jobs /\ FirstOf(jobs[y]) <= j /\ j < EndOf(jobs[y])
            /\ TakesRun(jobs[y], kept, m, version)
            /\ \A z \in DOMAIN jobs :
                 FirstOf(jobs[z]) <= j /\ j < EndOf(jobs[z]) => z = y
  BY <1>1, <1>2, JobOfIs
<1>8. /\ x \in DOMAIN jobs /\ a <= k /\ k < b /\ TakesRun(job, kept, m, version)
  BY <1>6, <1>7
<1> HIDE DEF x
<1>9. a \in 1 .. m /\ b \in a + 1 .. m + 1
  BY <1>8 DEF TakesRun
<1>10. DataHeld(job)
  BY <1>2, <1>8
<1>11. /\ file = [q \in 1 .. l |-> file[q]]
       /\ \A f \in 1 .. NewLens[k] : file[off[k] - off[a] + f] = piece[f]
  <2>1. Compact(file, a, b, NewLens, NewRows)
    BY <1>10 DEF DataHeld
  <2>2. off[a] = Offset(NewLens, a) /\ off[b] = Offset(NewLens, b) /\ off[k] = Offset(NewLens, k)
    BY <1>1, <1>6, <1>9
  <2>3. k \in a .. b - 1
    BY <1>1, <1>8, <1>9
  <2> HIDE DEF off, a, b, file
  <2> QED
    BY <2>1, <2>2, <2>3 DEF Compact
<1>12. /\ \A i \in 1 .. m + 1 : off[i] \in Nat
       /\ off[k + 1] = off[k] + NewLens[k]
       /\ off[a] <= off[k] /\ off[k + 1] <= off[b]
  <2>1. NewLens \in [1 .. m -> Nat]
    BY <1>1
  <2>2. /\ \A i \in 1 .. m + 1 : Offset(NewLens, i) \in Nat
        /\ \A i \in 1 .. m : Offset(NewLens, i + 1) = Offset(NewLens, i) + NewLens[i]
        /\ \A i, j \in 1 .. m + 1 : i <= j => Offset(NewLens, i) <= Offset(NewLens, j)
    BY <1>1, <2>1, OffsetProperties
  <2>3. a \in 1 .. m + 1 /\ k \in 1 .. m + 1 /\ k + 1 \in 1 .. m + 1 /\ b \in 1 .. m + 1
        /\ a <= k /\ k + 1 <= b
    BY <1>1, <1>6, <1>8, <1>9
  <2> QED
    BY <1>6, <2>2, <2>3
<1> DEFINE at == off[k] - off[a]
<1>13. /\ l \in Nat /\ at \in Nat /\ NewLens[k] \in Nat \ {0} /\ at + NewLens[k] <= l
  <2> DEFINE oa == off[a]
             ob == off[b]
             ok == off[k]
             on == off[k + 1]
             c == NewLens[k]
  <2>1. oa \in Nat /\ ob \in Nat /\ ok \in Nat /\ on \in Nat /\ c \in Nat \ {0}
    <3>1. a \in 1 .. m + 1 /\ k \in 1 .. m + 1 /\ k + 1 \in 1 .. m + 1 /\ b \in 1 .. m + 1
      BY <1>1, <1>6, <1>8, <1>9
    <3>2. c \in Nat \ {0}
      BY <1>1, <1>6
    <3> HIDE DEF off, a, b
    <3> QED
      BY <1>12, <3>1, <3>2
  <2>2. on = ok + c /\ oa <= ok /\ on <= ob
    BY <1>12
  <2>3. l = ob - oa /\ at = ok - oa
    OBVIOUS
  <2> HIDE DEF oa, ob, ok, on, c, l, at
  <2>4. l \in Nat /\ at \in Nat /\ at + c <= l
    BY <2>1, <2>2, <2>3
  <2> QED
    BY <2>1, <2>4 DEF c
<1> HIDE DEF l, at
<1>14. Len(file) = l /\ file \in Seq(Range(file))
  <2> HIDE DEF file
  <2> QED
    BY <1>11, <1>13, LenOfFunction
<1>15. file \in Seq(Range(file) \cup Range(piece)) /\ piece \in Seq(Range(file) \cup Range(piece))
       /\ Len(piece) = NewLens[k]
  <2>1. Len(piece) = NewLens[k] /\ piece \in Seq(Range(piece))
    <3> HIDE DEF piece
    <3> DEFINE c == NewLens[k]
    <3>1. c \in Nat /\ piece = [f \in 1 .. c |-> piece[f]]
      BY <1>4, <1>13 DEF piece
    <3> HIDE DEF c
    <3>2. Len(piece) = c /\ piece \in Seq(Range(piece))
      BY <3>1, LenOfFunction
    <3> QED
      BY <3>2 DEF c
  <2> HIDE DEF file, piece
  <2> QED
    BY <1>14, <2>1
<1>16. /\ x \in DOMAIN jobs /\ JobOf(jobs, k) = x
  BY <1>8 DEF x
<1>17. CASE version = "v2.1"
  <2>1. b = a + 1 /\ job.output = EpisodeFile(a - 1)
    BY <1>8, <1>17 DEF TakesRun
  <2>2. a = k
    BY <1>8, <1>9, <1>6, <2>1
  <2>3. RowsOf(edited, k) = file
    BY <1>3, <1>17, <2>1, <2>2 DEF RowsOf, DataFile
  <2>4. at = 0 /\ l = NewLens[k]
    <3>0. k \in 1 .. m + 1 /\ NewLens[k] \in Nat
      BY <1>1, <1>6, <1>13
    <3>1. off[k] \in Nat /\ NewLens[k] \in Nat
      <4> HIDE DEF off
      <4> QED
        BY <1>12, <3>0
    <3>2. at = off[k] - off[k] /\ l = off[k + 1] - off[k]
      BY <2>1, <2>2 DEF at, l
    <3> QED
      BY <1>12, <3>1, <3>2
  <2>5. \A f \in 1 .. NewLens[k] : file[f] = piece[f]
    <3>1. \A f \in 1 .. NewLens[k] : file[at + f] = piece[f]
      BY <1>11 DEF at
    <3>2. \A f \in 1 .. NewLens[k] : at + f = f
      BY <1>13, <2>4
    <3> QED
      BY <3>1, <3>2
  <2>6. file = piece
    <3> DEFINE c == NewLens[k]
    <3>1. file = [q \in 1 .. c |-> file[q]]
      BY <1>11, <2>4
    <3>2. piece = [f \in 1 .. c |-> piece[f]]
      BY <1>4
    <3>3. \A f \in 1 .. c : file[f] = piece[f]
      BY <2>5
    <3> HIDE DEF file, piece, c
    <3> QED
      BY <3>1, <3>2, <3>3
  <2> QED
    BY <2>3, <2>6
<1>18. CASE version = "v3.0"
  <2> HIDE DEF file, piece, a, b
  <2>1. LeadsFile(meta, k, a)
    <3>1. JobOf(jobs, a) = x
      <4>1. a <= a /\ a < b
        BY <1>9
      <4> HIDE DEF job
      <4> QED
        BY <1>7, <1>8, <1>9, <4>1 DEF a, b, job
    <3>2. meta[a].data = meta[k].data
      BY <1>3, <1>6, <1>9, <1>16, <3>1
    <3>3. ASSUME NEW j \in 1 .. a - 1, meta[j].data = meta[k].data
          PROVE  FALSE
      <4> DEFINE y == JobOf(jobs, j)
      <4>1. j \in 1 .. m
        BY <1>9, <1>1
      <4>2. y \in DOMAIN jobs /\ FirstOf(jobs[y]) <= j
        BY <1>7, <4>1
      <4>3. meta[j].data = jobs[y].output /\ meta[k].data = jobs[x].output
        BY <1>3, <1>6, <1>16, <4>1
      <4> HIDE DEF y
      <4>4. y = x
        BY <1>2, <1>8, <3>3, <4>2, <4>3 DEF SharedOut
      <4>5. a <= j
        BY <4>2, <4>4 DEF a, job
      <4> QED
        BY <1>9, <4>5
    <3> QED
      BY <3>2, <3>3 DEF LeadsFile
  <2>2. Base(meta, k) = meta[a].from
    BY <1>1, <1>3, <1>6, <1>9, <2>1, BaseIs
  <2>3. DataStart(edited, k) = at
    <3>1. DataStart(edited, k) = meta[k].from - Base(meta, k)
      BY <1>3, <1>18 DEF DataStart, meta
    <3>2. meta[k].from = off[k] /\ meta[a].from = off[a]
      BY <1>3, <1>6, <1>9, <1>1
    <3> QED
      BY <2>2, <3>1, <3>2 DEF at
  <2>4. RowsOf(edited, k) = Slice(file, at, NewLens[k])
    <3>1. DataFile(edited, k) = job.output
      BY <1>3, <1>6, <1>16, <1>18 DEF DataFile, meta
    <3>2. edited.data[job.output] = file
      BY <1>3 DEF file
    <3>3. edited.meta[k].length = NewLens[k] /\ edited.version = "v3.0"
      BY <1>3, <1>6, <1>18 DEF meta
    <3> QED
      BY <2>3, <3>1, <3>2, <3>3 DEF RowsOf
  <2>5. Slice(file, at, NewLens[k]) = piece
    <3> DEFINE S == Range(file) \cup Range(piece)
    <3>1. file \in Seq(S) /\ piece \in Seq(S) /\ at \in Nat /\ Len(piece) > 0
          /\ at + Len(piece) <= Len(file)
      BY <1>13, <1>14, <1>15
    <3>2. \A j \in 1 .. Len(piece) : file[at + j] = piece[j]
      BY <1>11, <1>15 DEF at
    <3> HIDE DEF S
    <3>3. Slice(file, at, Len(piece)) = piece
      BY <3>1, <3>2, SliceAt
    <3> QED
      BY <1>15, <3>3
  <2> QED
    BY <2>4, <2>5 DEF piece
<1> QED
  BY <1>1, <1>17, <1>18 DEF Versions

(* A row of the published dataset, field by field.                         *)
LEMMA NewRowIs ==
  ASSUME EditBase, NEW k \in 1 .. Len(Kept), NEW f \in 1 .. NewLens[k]
  PROVE  NewRows[k][f] =
           [episode |-> k - 1, index |-> Offset(NewLens, k) + f - 1, frame |-> f - 1,
            task |-> IF Override(k) = NotGiven THEN LabelOf(recording.tasks, Kept[k])
                     ELSE Override(k),
            payload |-> IF "state" \in edit.remove THEN Removed ELSE <<Kept[k], f>>]
<1> DEFINE i == Kept[k]
           row == RecordedRow(recording, i, f)
           o == Offset(NewLens, k)
           old == Offset(recording.lens, i)
           label == LabelOf(recording.tasks, i)
           task == IF Override(k) = NotGiven THEN label ELSE Override(k)
           payload == IF "state" \in edit.remove THEN Removed ELSE <<i, f>>
<1>1. NewRows[k][f] = EditRow(k, row)
  BY KeptFactsHold DEF NewRows, KeptFacts
<1>2. o \in Nat /\ f \in Nat
  <2>1. /\ Len(Kept) \in Nat /\ NewLens \in [1 .. Len(Kept) -> Nat \ {0}]
    BY KeptFactsHold DEF KeptFacts
  <2>2. NewLens \in [1 .. Len(Kept) -> Nat] /\ k \in 1 .. Len(Kept) + 1 /\ f \in Nat
    BY <2>1
  <2> QED
    BY <2>1, <2>2, OffsetProperties
<1>3. row = [episode |-> i - 1, index |-> old + f - 1, frame |-> f - 1,
             task |-> label, payload |-> <<i, f>>]
  BY DEF RecordedRow
<1> HIDE DEF row, o, old
<1>4. NewStart(k) + row.frame = o + f - 1
  BY <1>2, <1>3 DEF NewStart, o
<1>5. EditRow(k, row) = [episode |-> k - 1, index |-> o + f - 1, frame |-> f - 1,
                         task |-> task, payload |-> payload]
  <2>1. row.task = label /\ row.payload = <<i, f>>
    BY <1>3
  <2>2. EditRow(k, row) = [row EXCEPT !.episode = k - 1, !.index = o + f - 1,
                                     !.task = task, !.payload = payload]
    <3> HIDE DEF label
    <3> QED
      BY <1>4, <2>1 DEF EditRow
  <2> DEFINE e == k - 1
             x == o + f - 1
             e0 == i - 1
             x0 == old + f - 1
             p0 == <<i, f>>
             g == f - 1
  <2>3. row = [episode |-> e0, index |-> x0, frame |-> g, task |-> label, payload |-> p0]
    BY <1>3
  <2> HIDE DEF task, payload, label, e, x, e0, x0, p0, g
  <2>4. [row EXCEPT !.episode = e, !.index = x, !.task = task, !.payload = payload] =
          [episode |-> e, index |-> x, frame |-> g, task |-> task,
           payload |-> payload]
    <3> DEFINE new == [row EXCEPT !.episode = e, !.index = x, !.task = task,
                                  !.payload = payload]
    <3>1. DOMAIN row = {"episode", "index", "frame", "task", "payload"}
      BY <2>3
    <3>2. row = [z \in DOMAIN row |-> row[z]]
      BY <2>3
    <3>3. DOMAIN new = DOMAIN row /\ new = [z \in DOMAIN row |-> new[z]]
      BY <3>2
    <3>4. /\ new.episode = e /\ new.index = x /\ new.frame = g
          /\ new.task = task /\ new.payload = payload
      BY <2>3, <3>1, <3>2
    <3> HIDE DEF new
    <3>5. new = [episode |-> e, index |-> x, frame |-> g, task |-> task,
                 payload |-> payload]
      BY <3>1, <3>3, <3>4
    <3> QED
      BY <3>5 DEF new
  <2> QED
    BY <2>2, <2>4 DEF e, x, g
<1> QED
  BY <1>1, <1>5 DEF o

(* The rows the request asks for.                                          *)
LEMMA WantedRowsAre ==
  ASSUME EditBase, ~SparseLabels, recording.labelled, NEW k \in 1 .. Len(Kept)
  PROVE  [f \in DOMAIN NewRows[k] |->
            [NewRows[k][f] EXCEPT !.task = NewTasks[@]]] = WantedRows(k)
<1> DEFINE i == Kept[k]
           rows == Read(dataset).episodes[i].rows
           label == LabelOf(recording.tasks, i)
           text == IF i - 1 \in DOMAIN edit.retask THEN edit.retask[i - 1]
                   ELSE dataset.tasks[label]
           task == IF Override(k) = NotGiven THEN label ELSE Override(k)
           l == NewLens[k]
<1>1. /\ recording \in Recordings /\ dataset = Source(recording)
      /\ i \in 1 .. Len(recording.lens) /\ l = recording.lens[i]
      /\ DOMAIN recording.lens = 1 .. Len(recording.lens)
  BY KeptFactsHold, RecordingIs DEF EditBase, KeptFacts
<1>2. rows = [f \in 1 .. l |-> RecordedRow(recording, i, f)]
  <2> DEFINE view == RecordedView(recording)
             n == Len(recording.lens)
  <2>1. /\ Presented(view, n) /\ Rows(view) = RecordedRows(recording)
        /\ Lens(view) = recording.lens
        /\ recording.version \in {"v2.1", "v3.0"} /\ n \in Nat
    BY <1>1, RecordedViewIs, RecordingIs DEF Versions
  <2>2. DOMAIN view.episodes = 1 .. n
    BY <2>1 DEF Presented
  <2>3. dataset = Write(recording.version, view)
    BY <1>1 DEF Source
  <2> HIDE DEF view
  <2>4. Read(dataset) = view
    BY <2>1, <2>3, WrittenIsRead
  <2>5. view.episodes[i].rows = RecordedRows(recording)[i]
    <3>1. Rows(view)[i] = view.episodes[i].rows
      BY <1>1, <2>1 DEF Rows
    <3> QED
      BY <2>1, <3>1
  <2> QED
    BY <1>1, <2>4, <2>5 DEF RecordedRows
<1>3. NewTasks[task] = text
  <2>1. TasksHold
    BY NewTasksHold
  <2>2. label \in DOMAIN dataset.tasks
    BY <1>1, SourceIs, RecordingIs DEF SourceMeta
  <2>3. IF i - 1 \in DOMAIN edit.retask
        THEN Override(k) # NotGiven /\ NewTasks[Override(k)] = edit.retask[i - 1]
        ELSE Override(k) = NotGiven
    BY <2>1, Zenon DEF TasksHold
  <2>4. NewTasks[label] = dataset.tasks[label]
    BY <2>1, <2>2 DEF TasksHold
  <2> HIDE DEF i, label
  <2> QED
    BY <2>3, <2>4
<1>4. DOMAIN NewRows[k] = 1 .. l
  BY KeptFactsHold DEF NewRows, KeptFacts
<1>5. ASSUME NEW f \in 1 .. l
      PROVE  [NewRows[k][f] EXCEPT !.task = NewTasks[@]] =
               [episode |-> k - 1, index |-> Offset(NewLens, k) + f - 1, frame |-> f - 1,
                task |-> text,
                payload |-> IF "state" \in edit.remove THEN Removed ELSE rows[f].payload]
  <2>1. rows[f].payload = <<i, f>>
    BY <1>2 DEF RecordedRow
  <2>2. NewRows[k][f] =
          [episode |-> k - 1, index |-> Offset(NewLens, k) + f - 1, frame |-> f - 1,
           task |-> task,
           payload |-> IF "state" \in edit.remove THEN Removed ELSE <<i, f>>]
    BY NewRowIs
  <2> HIDE DEF text, task, i, rows
  <2> QED
    BY <1>3, <2>1, <2>2
<1>6. WantedRows(k) = [f \in 1 .. l |->
        [episode |-> k - 1, index |-> Offset(NewLens, k) + f - 1, frame |-> f - 1,
         task |-> text,
         payload |-> IF "state" \in edit.remove THEN Removed ELSE rows[f].payload]]
  <2>1. DOMAIN rows = 1 .. l /\ \A f \in 1 .. l : rows[f].task = label
    BY <1>2 DEF RecordedRow
  <2>2. WantedRows(k) = [f \in DOMAIN rows |->
        [episode |-> k - 1, index |-> Offset(NewLens, k) + f - 1, frame |-> f - 1,
         task |-> IF i - 1 \in DOMAIN edit.retask THEN edit.retask[i - 1]
                  ELSE dataset.tasks[rows[f].task],
         payload |-> IF "state" \in edit.remove THEN Removed ELSE rows[f].payload]]
    BY DEF WantedRows
  <2> HIDE DEF rows, label, l, i
  <2> QED
    BY <2>1, <2>2 DEF text
<1> HIDE DEF text, rows, l
<1> QED
  BY <1>4, <1>5, <1>6

(* What the published dataset promises of its rows and splits.             *)
LEMMA ExactWhenHeld ==
  ASSUME EditBase, ~SparseLabels, edited = EditedDataset,
         recording.labelled =>
           DataDivided /\ \A x \in DOMAIN work.data : DataHeld(work.data[x])
  PROVE  EditIsExact
<1> SUFFICES ASSUME recording.labelled
             PROVE  LET rows == [k \in DOMAIN Kept |-> RowsOf(edited, k)]
                    IN  /\ \A k \in DOMAIN Kept :
                             [f \in DOMAIN rows[k] |->
                               [rows[k][f] EXCEPT !.task = edited.tasks[@]]] = WantedRows(k)
                        /\ \A name \in DOMAIN edited.splits :
                             Retained(dataset.splits[name]) =
                               edited.splits[name][1] + 1 .. edited.splits[name][2]
  BY Zenon DEF EditIsExact
<1>1. DOMAIN Kept = 1 .. Len(Kept)
  BY KeptFactsHold DEF KeptFacts
<1>2. edited.tasks = NewTasks /\ edited.splits = NewSplits
  BY EditedMeta
<1>3. ASSUME NEW k \in 1 .. Len(Kept)
      PROVE  [f \in DOMAIN RowsOf(edited, k) |->
               [RowsOf(edited, k)[f] EXCEPT !.task = edited.tasks[@]]] = WantedRows(k)
  <2>1. RowsOf(edited, k) = NewRows[k]
    BY EditedRowsAre
  <2>2. [f \in DOMAIN NewRows[k] |->
            [NewRows[k][f] EXCEPT !.task = NewTasks[@]]] = WantedRows(k)
    BY WantedRowsAre
  <2> QED
    BY <1>2, <2>1, <2>2
<1>4. \A name \in DOMAIN edited.splits :
        Retained(dataset.splits[name]) =
          edited.splits[name][1] + 1 .. edited.splits[name][2]
  BY <1>2, SplitsHold
<1> QED
  BY <1>1, <1>3, <1>4

(* What the data jobs of the manifest are, and what each of them writes.   *)
LEMMA DataPlan ==
  ASSUME EditBase, recording.labelled, work = EditManifest
  PROVE  /\ DataDivided
         /\ \A x \in DOMAIN work.data :
              LET job == work.data[x]
              IN  Compact(IF job.rewrite THEN Rewritten(job) ELSE dataset.data[job.source],
                          FirstOf(job), EndOf(job), NewLens, NewRows)
<1> DEFINE n == Len(recording.lens)
<1>1. recording \in Recordings /\ dataset = Source(recording)
  BY DEF EditBase
<1>2. PICK lo, hi : RowsStored(dataset, n, recording.lens, RecordedRows(recording), lo, hi)
  BY <1>1, SourceIs
<1>3. work.data = DataJobs
  BY DEF EditManifest
<1>4. /\ SharedOut(DataJobs, KeptIn(DataPaths), Len(Kept), dataset.version)
      /\ \A x \in DOMAIN DataJobs :
           DataJobs[x].rewrite = Changes(DataJobs[x].source, DataJobs[x].episodes)
  BY <1>2, DataJobsAreShared
<1>5. ASSUME NEW x \in DOMAIN work.data
      PROVE  LET job == work.data[x]
             IN  Compact(IF job.rewrite THEN Rewritten(job) ELSE dataset.data[job.source],
                         FirstOf(job), EndOf(job), NewLens, NewRows)
  <2> DEFINE job == work.data[x]
  <2>1. TakesRun(job, KeptIn(DataPaths), Len(Kept), dataset.version)
    BY <1>3, <1>4 DEF SharedOut
  <2>2. job.rewrite = Changes(job.source, job.episodes)
    BY <1>3, <1>4
  <2> HIDE DEF job
  <2>3. Compact(Rewritten(job), FirstOf(job), EndOf(job), NewLens, NewRows)
    BY <1>2, <2>1, RewrittenIs
  <2>4. ~Changes(job.source, job.episodes) =>
          Compact(dataset.data[job.source], FirstOf(job), EndOf(job), NewLens, NewRows)
    BY <1>2, <2>1, UnchangedIs
  <2> QED
    BY <2>2, <2>3, <2>4 DEF job
<1> QED
  BY <1>3, <1>4, <1>5 DEF DataDivided

(* Rows in a staged file, once its job has been done.                      *)
ExactInv ==
  /\ EditBase
  /\ editing \in {"request", "refused", "reuse"} => finished = {}
  /\ editing \notin {"request", "refused"} => work = EditManifest /\ ~Refused
  /\ recording.labelled /\ editing = "data" =>
       \A x \in DOMAIN work.data :
         ~work.data[x].rewrite \/ (x \in finished /\ ~faulted) => DataHeld(work.data[x])
  /\ recording.labelled /\ editing \in {"media", "done"} =>
       \A x \in DOMAIN work.data : DataHeld(work.data[x])
  /\ editing = "done" => edited = EditedDataset
  /\ {"data", "video"} \subseteq DOMAIN staged

(* The invariant holds at the start.                                       *)
LEMMA ExactStart == EditorInit => ExactInv
  BY DEF EditorInit, ExactInv, EditBase

(* An edit goes on with the request and the source it began with.          *)
LEMMA RequestStays ==
  ASSUME UNCHANGED <<recording, dataset, edit, machine>>
  PROVE  /\ EditBase' = EditBase /\ Refused' = Refused /\ Kept' = Kept
         /\ NewLens' = NewLens /\ NewRows' = NewRows /\ NewTasks' = NewTasks
         /\ NewSplits' = NewSplits
<1>1. Count' = Count /\ Kept' = Kept
  BY DEF Kept, Count
<1>2. NewLens' = NewLens
  BY <1>1 DEF NewLens, LengthOf
<1>3. NewTasks' = NewTasks /\ NewSplits' = NewSplits
  BY <1>1 DEF NewTasks, Retasked, NewSplits
<1>4. \A k : NewStart(k)' = NewStart(k) /\ Override(k)' = Override(k)
  BY <1>1, <1>2, <1>3 DEF NewStart, Override
<1>5. \A k, row : EditRow(k, row)' = EditRow(k, row)
  BY <1>4 DEF EditRow
<1>6. NewRows' = NewRows
  BY <1>1, <1>2, <1>5 DEF NewRows
<1>7. EditBase' = EditBase /\ Refused' = Refused
  BY <1>1 DEF EditBase, Refused, SparseLabels
<1> QED
  BY <1>1, <1>2, <1>3, <1>6, <1>7

(* The manifest does not change while the edit works on it.                *)
LEMMA ManifestStays ==
  ASSUME UNCHANGED <<recording, dataset, edit, machine>>
  PROVE  EditManifest' = EditManifest
<1>1. Count' = Count /\ Kept' = Kept /\ NewLens' = NewLens
  BY RequestStays DEF Count
<1>2. \A k : NewStart(k)' = NewStart(k) /\ Override(k)' = Override(k)
  <2>1. NewTasks' = NewTasks
    BY RequestStays
  <2> QED
    BY <1>1, <2>1 DEF NewStart, Override
<1>3. DataPaths' = DataPaths /\ VideoPaths' = VideoPaths
  BY <1>1 DEF DataPaths, VideoPaths
<1>4. DataJobs' = DataJobs
  <2>1. FilesOf(DataPaths)' = FilesOf(DataPaths)
    BY <1>1, <1>3 DEF FilesOf
  <2>2. \A path : GroupIn(DataPaths, path)' = GroupIn(DataPaths, path)
    BY <1>1, <1>3 DEF GroupIn
  <2>3. \A path, group : Changes(path, group)' = Changes(path, group)
    BY <1>1, <1>2, <1>3 DEF Changes
  <2>4. \A group, number : NewPlace(group, number)' = NewPlace(group, number)
    BY DEF NewPlace
  <2> QED
    BY <2>1, <2>2, <2>3, <2>4 DEF DataJobs
<1>5. MediaJobs' = MediaJobs
  <2>1. FilesOf(VideoPaths)' = FilesOf(VideoPaths)
    BY <1>1, <1>3 DEF FilesOf
  <2>2. \A path : GroupIn(VideoPaths, path)' = GroupIn(VideoPaths, path)
    BY <1>1, <1>3 DEF GroupIn
  <2>3. \A k : VideoRange(k)' = VideoRange(k) /\ VideoStart(k)' = VideoStart(k)
    BY <1>1 DEF VideoRange, VideoStart
  <2>4. \A group, number : NewPlace(group, number)' = NewPlace(group, number)
    BY DEF NewPlace
  <2>5. \A file, ranges, partial :
          Transform(file, ranges, partial)' = Transform(file, ranges, partial)
    BY DEF Transform, RemuxSafe
  <2> QED
    BY ZenonT(40), <1>1, <2>1, <2>2, <2>3, <2>4, <2>5 DEF MediaJobs
<1>6. \A k : ShiftedStats(k)' = ShiftedStats(k)
  BY <1>1, <1>2 DEF ShiftedStats, LengthOf
<1>7. WorkerCount(DataJobs, MediaJobs)' = WorkerCount(DataJobs, MediaJobs)
  BY <1>4, <1>5 DEF WorkerCount, AutomaticWorkers, Transcodes, JobMemory, EditBudget, Pixels
<1> QED
  BY <1>1, <1>4, <1>5, <1>6, <1>7 DEF EditManifest

(* A staged file that is not touched keeps its rows.                       *)
LEMMA HeldStays ==
  ASSUME UNCHANGED <<recording, dataset, edit, machine, work>>,
         NEW x, DataHeld(work.data[x]),
         LET p == work.data[x].output
         IN  p \in DOMAIN staged'.data /\ staged'.data[p] = staged.data[p]
  PROVE  DataHeld(work.data[x])'
<1>1. NewLens' = NewLens /\ NewRows' = NewRows /\ work' = work
  BY RequestStays
<1> QED
  BY <1>1 DEF DataHeld

(* Cloning the unchanged files keeps the invariant.                        *)
LEMMA CloningHolds ==
  ASSUME ExactInv, CloneFiles
  PROVE  ExactInv'
<1>1. /\ editing = "reuse" /\ editing' = "data" /\ finished = {} /\ finished' = {}
      /\ UNCHANGED <<recording, dataset, edit, machine, work>>
      /\ EditBase /\ work = EditManifest /\ ~Refused
  BY DEF ExactInv, CloneFiles
<1>2. EditBase' /\ ~Refused' /\ work' = EditManifest'
  BY <1>1, RequestStays, ManifestStays
<1>3. ASSUME recording.labelled, NEW x \in DOMAIN work.data, ~work.data[x].rewrite
      PROVE  DataHeld(work.data[x])'
  <2> DEFINE chosen == {y \in DOMAIN work.data : ~work.data[y].rewrite}
             job == work.data[x]
             p == job.output
             z == CHOOSE y \in chosen : work.data[y].output = p
  <2>1. /\ DataDivided
        /\ Compact(dataset.data[job.source], FirstOf(job), EndOf(job), NewLens, NewRows)
    BY <1>1, <1>3, DataPlan
  <2>2. x \in chosen
    BY <1>3
  <2>3. z = x
    <3>1. \A y \in chosen : work.data[y].output = p => y = x
      BY <2>1, <2>2 DEF DataDivided, SharedOut
    <3> QED
      BY <2>2, <3>1
  <2>4. staged'.data = Cloned(work.data, chosen, dataset.data)
    BY DEF CloneFiles
  <2>5. p \in DOMAIN staged'.data /\ staged'.data[p] = dataset.data[work.data[z].source]
    <3>1. p \in {work.data[y].output : y \in chosen}
      BY <2>2
    <3>2. Cloned(work.data, chosen, dataset.data) =
            [q \in {work.data[y].output : y \in chosen} |->
               dataset.data[work.data[CHOOSE y \in chosen : work.data[y].output = q].source]]
      BY Zenon DEF Cloned
    <3> HIDE DEF p, chosen
    <3> QED
      BY <2>4, <3>1, <3>2 DEF z
  <2> HIDE DEF z, p
  <2>6. p \in DOMAIN staged'.data /\ staged'.data[p] = dataset.data[job.source]
    BY <2>3, <2>5
  <2>7. NewLens' = NewLens /\ NewRows' = NewRows /\ work' = work
    BY <1>1, RequestStays
  <2> QED
    BY <2>1, <2>6, <2>7 DEF DataHeld, p
<1>4. \A x \in DOMAIN work'.data :
        (~work'.data[x].rewrite \/ (x \in finished' /\ ~faulted'))
          => (recording.labelled => DataHeld(work.data[x])')
  BY <1>1, <1>3
<1>5. {"data", "video"} \subseteq DOMAIN staged'
  BY DEF CloneFiles
<1> QED
  BY <1>1, <1>2, <1>4, <1>5 DEF ExactInv

(* A worker writes one file and leaves the others as they are.             *)
LEMMA RewritingHolds ==
  ASSUME ExactInv, NEW n, RewriteShard(n)
  PROVE  ExactInv'
<1>1. /\ editing = "data" /\ editing' = "data" /\ finished' = finished \cup {n}
      /\ n \in DOMAIN work.data /\ n \notin finished /\ work.data[n].rewrite
      /\ UNCHANGED <<recording, dataset, edit, machine, work>>
      /\ EditBase /\ work = EditManifest /\ ~Refused
  BY DEF ExactInv, RewriteShard
<1>2. EditBase' /\ ~Refused' /\ work' = EditManifest'
  BY <1>1, RequestStays, ManifestStays
<1> DEFINE job == work.data[n]
           p == job.output
           new == Rewritten(job)
<1> DEFINE old == staged.data
<1>3. \/ staged' = [staged EXCEPT !.data = Assign(@, p, new)] /\ faulted' = faulted
      \/ staged' = staged /\ faulted'
  <2>1. LET out == Streamed(job)
        IN  IF Agrees(job, out)
            THEN /\ staged' = [staged EXCEPT !.data = Assign(@, p,
                      [q \in DOMAIN out |-> EditRow(out[q].of, out[q].row)])]
                 /\ UNCHANGED faulted
            ELSE faulted' = TRUE /\ UNCHANGED staged
    BY Zenon DEF RewriteShard
  <2> QED
    BY <2>1, Zenon DEF Rewritten
<1>4. "data" \in DOMAIN staged
  BY DEF ExactInv
<1>5. ASSUME NEW q
      PROVE  /\ q = p /\ ~faulted' => q \in DOMAIN staged'.data /\ staged'.data[q] = new
             /\ q # p /\ q \in DOMAIN old =>
                  q \in DOMAIN staged'.data /\ staged'.data[q] = old[q]
  <2>1. CASE staged' = [staged EXCEPT !.data = Assign(@, p, new)] /\ faulted' = faulted
    <3>1. staged'.data = Assign(old, p, new)
      BY <1>4, <2>1
    <3> HIDE DEF p, new, old
    <3> QED
      BY <3>1 DEF Assign
  <2>2. CASE staged' = staged /\ faulted'
    BY <2>2
  <2> QED
    BY <1>3, <2>1, <2>2
<1>6. faulted => faulted'
  BY <1>3
<1>7. ASSUME recording.labelled, NEW x \in DOMAIN work.data,
             ~work.data[x].rewrite \/ (x \in finished' /\ ~faulted')
      PROVE  DataHeld(work.data[x])'
  <2>1. /\ DataDivided
        /\ \A y \in DOMAIN work.data :
             LET made == work.data[y]
             IN  Compact(IF made.rewrite THEN Rewritten(made) ELSE dataset.data[made.source],
                         FirstOf(made), EndOf(made), NewLens, NewRows)
    BY <1>1, <1>7, DataPlan
  <2>2. CASE x = n
    <3>1. Compact(new, FirstOf(job), EndOf(job), NewLens, NewRows)
      BY <1>1, <2>1
    <3>2. p \in DOMAIN staged'.data /\ staged'.data[p] = new
      BY <1>1, <1>5, <1>7, <2>2
    <3>3. NewLens' = NewLens /\ NewRows' = NewRows /\ work' = work
      BY <1>1, RequestStays
    <3> HIDE DEF new
    <3> QED
      BY <2>2, <3>1, <3>2, <3>3 DEF DataHeld, p
  <2>3. CASE x # n
    <3>1. ~work.data[x].rewrite \/ (x \in finished /\ ~faulted)
      BY <1>1, <1>6, <1>7, <2>3
    <3>2. DataHeld(work.data[x])
      BY <1>1, <1>7, <3>1 DEF ExactInv
    <3>3. work.data[x].output # p /\ work.data[x].output \in DOMAIN old
      BY <1>1, <2>1, <2>3, <3>2 DEF DataDivided, SharedOut, DataHeld
    <3>4. LET q == work.data[x].output
          IN  q \in DOMAIN staged'.data /\ staged'.data[q] = staged.data[q]
      BY <1>5, <3>3
    <3> HIDE DEF p, new, old
    <3> QED
      BY <1>1, <3>2, <3>4, HeldStays
  <2> QED
    BY <2>2, <2>3
<1>8. {"data", "video"} \subseteq DOMAIN staged'
  BY <1>3 DEF ExactInv
<1> QED
  BY <1>1, <1>2, <1>7, <1>8 DEF ExactInv

(* Steps that leave the staged rows alone.                                 *)
LEMMA RowsRemain ==
  ASSUME ExactInv, UNCHANGED <<recording, dataset, edit, machine, work>>,
         staged'.data = staged.data, DOMAIN staged' = DOMAIN staged, editing # "done", editing' # "done",
         editing \notin {"request", "refused"},
         \/ editing' = editing /\ editing # "data" /\ editing # "reuse"
         \/ editing = "data" /\ editing' = "media" /\ DataDone /\ ~faulted
  PROVE  ExactInv'
<1>1. EditBase /\ work = EditManifest /\ ~Refused
  BY DEF ExactInv
<1>2. EditBase' /\ ~Refused' /\ work' = EditManifest'
  BY <1>1, RequestStays, ManifestStays
<1>3. ASSUME recording.labelled, editing \in {"data", "media"},
             editing = "data" => DataDone /\ ~faulted, NEW x \in DOMAIN work.data
      PROVE  DataHeld(work.data[x])'
  <2>1. DataHeld(work.data[x])
    <3>1. CASE editing = "data"
      BY <1>3, <3>1 DEF ExactInv, DataDone
    <3>2. CASE editing = "media"
      BY <1>3, <3>2 DEF ExactInv
    <3> QED
      BY <1>3, <3>1, <3>2
  <2>2. LET p == work.data[x].output
        IN  p \in DOMAIN staged'.data /\ staged'.data[p] = staged.data[p]
    BY <2>1 DEF DataHeld
  <2> QED
    BY <2>1, <2>2, HeldStays
<1>4. recording.labelled /\ editing' \in {"media", "done"} =>
        \A x \in DOMAIN work'.data : DataHeld(work.data[x])'
  BY <1>3
<1> QED
  BY <1>1, <1>2, <1>4 DEF ExactInv

(* What is published is made of the request, the manifest and the files.   *)
LEMMA PublishedStays ==
  ASSUME UNCHANGED <<recording, dataset, edit, machine, work, staged>>
  PROVE  EditedDataset' = EditedDataset
<1>1. /\ Kept' = Kept /\ NewLens' = NewLens /\ NewTasks' = NewTasks
      /\ NewSplits' = NewSplits
  BY RequestStays
<1>2. \A k : NewStart(k)' = NewStart(k) /\ EditedStats(k)' = EditedStats(k)
  BY <1>1 DEF NewStart, EditedStats, Transcodes
<1>3. ASSUME NEW k PROVE EditedRow(k)' = EditedRow(k)
  <2>1. /\ work' = work /\ NewLens'[k] = NewLens[k] /\ NewStart(k)' = NewStart(k)
        /\ EditedStats(k)' = EditedStats(k)
    BY <1>1, <1>2
  <2> QED
    BY <2>1, Zenon DEF EditedRow
<1> QED
  BY <1>1, <1>3 DEF EditedDataset

(* Every step keeps the invariant.                                         *)
LEMMA ExactStep == ExactInv /\ [EditorNext]_editorVars => ExactInv'
<1> SUFFICES ASSUME ExactInv, [EditorNext]_editorVars PROVE ExactInv'
  OBVIOUS
<1>0. UNCHANGED <<recording, dataset, edit, machine>>
  BY Zenon DEF EditorNext, editorVars, EditRefuse, EditPlan, CloneFiles, EndData, StartMedia,
         RewriteShard, FinishMedia, MediaFails, EditFails, EditMetadata
<1>1. EditBase' = EditBase /\ EditManifest' = EditManifest /\ Refused' = Refused
  BY <1>0, RequestStays, ManifestStays
<1>2. CASE EditRefuse
  BY <1>1, <1>2 DEF EditRefuse, ExactInv
<1>3. CASE EditPlan
  BY <1>1, <1>3 DEF EditPlan, ExactInv
<1>4. CASE CloneFiles
  BY <1>4, CloningHolds
<1>5. CASE EndData
  BY <1>0, <1>5, RowsRemain DEF EndData
<1>6. CASE StartMedia
  BY <1>0, <1>6, RowsRemain DEF StartMedia
<1>7. ASSUME NEW n \in 1 .. Count, RewriteShard(n) \/ FinishMedia(n) \/ MediaFails(n)
      PROVE  ExactInv'
  <2>1. CASE RewriteShard(n)
    BY <2>1, RewritingHolds
  <2>2. CASE FinishMedia(n)
    <3>1. staged'.data = staged.data /\ editing = "media" /\ editing' = editing
          /\ work' = work /\ DOMAIN staged' = DOMAIN staged
      BY <2>2 DEF FinishMedia, ExactInv
    <3> QED
      BY <1>0, <3>1, RowsRemain
  <2>3. CASE MediaFails(n)
    <3>1. staged'.data = staged.data /\ editing = "media" /\ editing' = editing
          /\ work' = work /\ staged' = staged
      BY <2>3 DEF MediaFails
    <3> QED
      BY <1>0, <3>1, RowsRemain
  <2> QED
    BY <1>7, <2>1, <2>2, <2>3
<1>8. CASE EditFails
  BY <1>1, <1>8 DEF EditFails, ExactInv
<1>9. CASE EditMetadata
  <2>1. /\ editing = "media" /\ editing' = "done" /\ UNCHANGED <<work, staged>>
        /\ edited' = EditedDataset
    BY <1>9 DEF EditMetadata, EditedDataset
  <2>2. EditedDataset' = EditedDataset
    BY <1>0, <2>1, PublishedStays
  <2>3. ASSUME recording.labelled, NEW x \in DOMAIN work.data
        PROVE  DataHeld(work.data[x])'
    <3>1. DataHeld(work.data[x])
      BY <2>1, <2>3 DEF ExactInv
    <3>2. LET p == work.data[x].output
          IN  p \in DOMAIN staged'.data /\ staged'.data[p] = staged.data[p]
      BY <2>1, <3>1 DEF DataHeld
    <3> QED
      BY <1>0, <2>1, <3>1, <3>2, HeldStays
  <2> QED
    BY <1>0, <1>1, <2>1, <2>2, <2>3 DEF ExactInv
<1>10. CASE UNCHANGED editorVars
  <2>1. ASSUME NEW x, DataHeld(work.data[x]) PROVE DataHeld(work.data[x])'
    <3>1. LET p == work.data[x].output
          IN  p \in DOMAIN staged'.data /\ staged'.data[p] = staged.data[p]
      BY <1>10, <2>1 DEF DataHeld, editorVars
    <3> QED
      BY <1>10, <2>1, <3>1, HeldStays DEF editorVars
  <2>2. EditedDataset' = EditedDataset
    BY <1>10, PublishedStays DEF editorVars
  <2> QED
    BY <1>1, <1>10, <2>1, <2>2 DEF ExactInv, editorVars
<1> QED
  BY <1>2, <1>3, <1>4, <1>5, <1>6, <1>7, <1>8, <1>9, <1>10 DEF EditorNext

(* The invariant implies the property.                                     *)
LEMMA ExactResult == ExactInv => EditIsExact
<1> SUFFICES ASSUME ExactInv, editing = "done" PROVE EditIsExact
  BY DEF EditIsExact
<1>1. EditBase /\ work = EditManifest /\ ~SparseLabels /\ edited = EditedDataset
  BY DEF ExactInv, Refused
<1>2. recording.labelled =>
        DataDivided /\ \A x \in DOMAIN work.data : DataHeld(work.data[x])
  <2>1. recording.labelled => DataDivided
    BY <1>1, DataPlan
  <2> QED
    BY <2>1 DEF ExactInv
<1> QED
  BY <1>1, <1>2, ExactWhenHeld

(* An edit that is done reads exactly as the request says, however many    *)
(* episodes, files, workers and batches there are (edit_dataset).          *)
THEOREM EditIsExactThm == EditorSpec => []EditIsExact
<1> QED
  BY ExactStart, ExactStep, ExactResult, PTL DEF EditorSpec

-----------------------------------------------------------------------------
(* Ranges of a media job: joined, and the frames they select.              *)

(* One more range is read in one piece with the last, or on its own.       *)
Joined(seen, r) ==
  IF seen # <<>> /\ Last(seen)[2] = r[1]
  THEN Append(Front(seen), <<Last(seen)[1], r[2]>>) ELSE Append(seen, r)

(* Piece j is made of the ranges from p[j] to before p[j + 1], which touch. *)
Joins(pieces, p, at, off, r) ==
  /\ pieces \in Seq(Nat \X Nat)
  /\ p \in [1 .. Len(pieces) + 1 -> 1 .. r + 1]
  /\ p[1] = 1 /\ p[Len(pieces) + 1] = r + 1
  /\ \A j \in 1 .. Len(pieces) :
       /\ p[j] < p[j + 1] /\ pieces[j][1] = at[p[j]]
       /\ pieces[j][2] + off[p[j]] = at[p[j]] + off[p[j + 1]]
  /\ \A x \in 1 .. r : \E j \in 1 .. Len(pieces) :
       p[j] <= x /\ x < p[j + 1] /\ at[x] + off[p[j]] = at[p[j]] + off[x]

(* A range opens a piece of its own.                                       *)
LEMMA RangeOpens ==
  ASSUME NEW G \in Nat, NEW at \in [1 .. G -> Nat], NEW off \in [1 .. G + 1 -> Nat],
         NEW r \in 0 .. G - 1, NEW pieces, NEW p, Joins(pieces, p, at, off, r),
         NEW t \in Nat, t + off[r + 1] = at[r + 1] + off[r + 2]
  PROVE  \E q : Joins(Append(pieces, <<at[r + 1], t>>), q, at, off, r + 1)
<1> DEFINE c == Len(pieces)
           a == at[r + 1]
           new == <<a, t>>
           next == Append(pieces, new)
           q == [j \in 1 .. c + 2 |-> IF j = c + 2 THEN r + 2 ELSE p[j]]
<1>1. /\ pieces \in Seq(Nat \X Nat) /\ c \in Nat
      /\ p \in [1 .. c + 1 -> 1 .. r + 1] /\ p[1] = 1 /\ p[c + 1] = r + 1
      /\ \A j \in 1 .. c : /\ p[j] < p[j + 1] /\ pieces[j][1] = at[p[j]]
                           /\ pieces[j][2] + off[p[j]] = at[p[j]] + off[p[j + 1]]
      /\ \A x \in 1 .. r : \E j \in 1 .. c :
           p[j] <= x /\ x < p[j + 1] /\ at[x] + off[p[j]] = at[p[j]] + off[x]
  BY LenProperties DEF Joins
<1>2. r \in Nat /\ r + 1 \in 1 .. G /\ r + 2 \in 1 .. G + 1 /\ r + 1 \in 1 .. G + 1
  OBVIOUS
<1>3. a \in Nat /\ off[r + 1] \in Nat /\ off[r + 2] \in Nat /\ new \in Nat \X Nat
  BY <1>2
<1> HIDE DEF c, new
<1>4. /\ next \in Seq(Nat \X Nat) /\ Len(next) = c + 1
      /\ \A j \in 1 .. c : next[j] = pieces[j]
      /\ next[c + 1] = new
  BY <1>1, <1>3, AppendProperties DEF c
<1>5. /\ q \in [1 .. c + 2 -> 1 .. r + 2] /\ q[c + 2] = r + 2
      /\ \A j \in 1 .. c + 1 : q[j] = p[j]
  BY SMTT(40), <1>1, <1>2
<1> HIDE DEF next, q
<1>6. q[1] = 1 /\ q[c + 1] = r + 1
  BY <1>1, <1>5
<1>7. ASSUME NEW j \in 1 .. c + 1
      PROVE  /\ q[j] < q[j + 1] /\ next[j][1] = at[q[j]]
             /\ next[j][2] + off[q[j]] = at[q[j]] + off[q[j + 1]]
  <2>1. CASE j = c + 1
    <3>1. q[j] = r + 1 /\ q[j + 1] = r + 2 /\ next[j] = new
      BY <1>1, <1>4, <1>5, <1>6, <2>1
    <3> QED
      BY <1>2, <1>3, <3>1 DEF new
  <2>2. CASE j # c + 1
    <3>0. c \in Nat
      BY <1>1
    <3>1. j \in 1 .. c /\ j \in 1 .. c + 1 /\ j + 1 \in 1 .. c + 1
      BY <2>2, <3>0
    <3>2. q[j] = p[j] /\ q[j + 1] = p[j + 1] /\ next[j] = pieces[j]
      BY <1>4, <1>5, <3>1
    <3> QED
      BY <1>1, <3>1, <3>2
  <2> QED
    BY <2>1, <2>2
<1>8. ASSUME NEW x \in 1 .. r + 1
      PROVE  \E j \in 1 .. c + 1 :
               q[j] <= x /\ x < q[j + 1] /\ at[x] + off[q[j]] = at[q[j]] + off[x]
  <2>1. CASE x = r + 1
    <3>1. q[c + 1] = x /\ q[c + 1 + 1] = r + 2 /\ c + 1 \in 1 .. c + 1
      BY <1>1, <1>5, <1>6, <2>1
    <3>2. x <= x /\ x < r + 2
      BY <1>2, <2>1
    <3> QED
      BY <3>1, <3>2
  <2>2. CASE x # r + 1
    <3>1. x \in 1 .. r
      BY <1>2, <2>2
    <3>2. PICK j \in 1 .. c :
            p[j] <= x /\ x < p[j + 1] /\ at[x] + off[p[j]] = at[p[j]] + off[x]
      BY <1>1, <3>1
    <3>3. j \in 1 .. c + 1 /\ j + 1 \in 1 .. c + 1
      BY <1>1
    <3>4. q[j] = p[j] /\ q[j + 1] = p[j + 1]
      BY <1>5, <3>3
    <3> QED
      BY <3>2, <3>3, <3>4
  <2> QED
    BY <2>1, <2>2
<1>9. Joins(next, q, at, off, r + 1)
  <2>1. Len(next) + 1 = c + 2 /\ r + 1 + 1 = r + 2 /\ r + 1 \in Nat
    BY <1>1, <1>2, <1>4
  <2>2. q \in [1 .. Len(next) + 1 -> 1 .. r + 1 + 1] /\ q[Len(next) + 1] = r + 1 + 1
    BY <1>5, <2>1
  <2> QED
    BY <1>4, <1>6, <1>7, <1>8, <2>1, <2>2 DEF Joins
<1> QED
  BY <1>9 DEF next, new

(* A range goes on with the last piece.                                    *)
LEMMA RangeContinues ==
  ASSUME NEW G \in Nat, NEW at \in [1 .. G -> Nat], NEW off \in [1 .. G + 1 -> Nat],
         NEW r \in 0 .. G - 1, NEW pieces, NEW p, Joins(pieces, p, at, off, r),
         NEW t \in Nat, t + off[r + 1] = at[r + 1] + off[r + 2],
         pieces # <<>>, Last(pieces)[2] = at[r + 1]
  PROVE  \E q : Joins(Append(Front(pieces), <<Last(pieces)[1], t>>), q, at, off, r + 1)
<1> DEFINE c == Len(pieces)
           a == at[r + 1]
           last == Last(pieces)
           new == <<last[1], t>>
           front == Front(pieces)
           next == Append(front, new)
           q == [p EXCEPT ![c + 1] = r + 2]
<1>1. /\ pieces \in Seq(Nat \X Nat) /\ c \in Nat \ {0}
      /\ p \in [1 .. c + 1 -> 1 .. r + 1] /\ p[1] = 1 /\ p[c + 1] = r + 1
      /\ \A j \in 1 .. c : /\ p[j] < p[j + 1] /\ pieces[j][1] = at[p[j]]
                           /\ pieces[j][2] + off[p[j]] = at[p[j]] + off[p[j + 1]]
      /\ \A x \in 1 .. r : \E j \in 1 .. c :
           p[j] <= x /\ x < p[j + 1] /\ at[x] + off[p[j]] = at[p[j]] + off[x]
  <2>1. pieces \in Seq(Nat \X Nat)
    BY DEF Joins
  <2>2. c \in Nat \ {0}
    BY <2>1, EmptySeq
  <2> QED
    BY <2>1, <2>2 DEF Joins
<1>2. r \in Nat /\ r + 1 \in 1 .. G /\ r + 2 \in 1 .. G + 1 /\ r + 1 \in 1 .. G + 1
  OBVIOUS
<1>3. /\ a \in Nat /\ off[r + 1] \in Nat /\ off[r + 2] \in Nat /\ c \in 1 .. c
      /\ c \in 1 .. c + 1
  <2>1. c \in Nat \ {0}
    BY <1>1
  <2>2. c \in 1 .. c /\ c \in 1 .. c + 1
    BY <2>1
  <2> QED
    BY <1>2, <2>2
<1>4. last = pieces[c] /\ last[2] = a /\ pieces[c] \in Nat \X Nat
  BY <1>1, <1>3, ElementOfSeq DEF Last
<1>5. new \in Nat \X Nat /\ new[1] = last[1] /\ new[2] = t
  BY <1>4
<1> HIDE DEF c, new, last
<1>c. c \in Nat \ {0} /\ r \in Nat
  BY <1>1, <1>2
<1>6. /\ front \in Seq(Nat \X Nat) /\ Len(front) = c - 1
      /\ \A j \in 1 .. c - 1 : front[j] = pieces[j]
  <2>1. \A j \in 1 .. c - 1 : pieces[j] \in Nat \X Nat
    BY <1>1, ElementOfSeq DEF c
  <2>2. c - 1 \in Int /\ 1 \in Int /\ c - 1 \in Nat
    BY <1>1
  <2>3. /\ SubSeq(pieces, 1, c - 1) \in Seq(Nat \X Nat)
        /\ Len(SubSeq(pieces, 1, c - 1)) = IF 1 <= c - 1 THEN c - 1 - 1 + 1 ELSE 0
        /\ \A j \in 1 .. c - 1 - 1 + 1 : SubSeq(pieces, 1, c - 1)[j] = pieces[1 + j - 1]
    <3> DEFINE P == Nat \X Nat
    <3>1. \A j \in 1 .. c - 1 : pieces[j] \in P
      BY <2>1
    <3> HIDE DEF P
    <3> DEFINE d == c - 1
    <3>2. d \in Int /\ 1 \in Int /\ \A j \in 1 .. d : pieces[j] \in P
      BY <2>2, <3>1
    <3> HIDE DEF d
    <3>3. /\ SubSeq(pieces, 1, d) \in Seq(P)
          /\ Len(SubSeq(pieces, 1, d)) = IF 1 <= d THEN d - 1 + 1 ELSE 0
          /\ \A j \in 1 .. d - 1 + 1 : SubSeq(pieces, 1, d)[j] = pieces[1 + j - 1]
      BY SMTT(40), <3>2, SubSeqProperties
    <3> QED
      BY <3>3 DEF P, d
  <2>4. front = SubSeq(pieces, 1, c - 1)
    BY DEF Front, c
  <2> HIDE DEF front
  <2>5. \A j \in 1 .. c - 1 : j \in 1 .. c - 1 - 1 + 1 /\ 1 + j - 1 = j
    BY <2>2
  <2>6. Len(front) = c - 1
    BY SMTT(40), <2>2, <2>3, <2>4
  <2> QED
    BY <2>3, <2>4, <2>5, <2>6
<1> HIDE DEF front
<1>7. /\ next \in Seq(Nat \X Nat) /\ Len(next) = c
      /\ \A j \in 1 .. c - 1 : next[j] = pieces[j]
      /\ next[c] = new
  <2>1. /\ next \in Seq(Nat \X Nat) /\ Len(next) = Len(front) + 1
        /\ \A j \in 1 .. Len(front) : next[j] = front[j]
        /\ next[Len(front) + 1] = new
    <3> DEFINE P == Nat \X Nat
    <3>1. front \in Seq(P) /\ new \in P
      BY <1>5, <1>6
    <3> HIDE DEF P
    <3>2. /\ next \in Seq(P) /\ Len(next) = Len(front) + 1
          /\ \A j \in 1 .. Len(front) : next[j] = front[j]
          /\ next[Len(front) + 1] = new
      BY <3>1, AppendProperties
    <3> QED
      BY <3>2 DEF P
  <2>2. c - 1 + 1 = c
    BY <1>1
  <2> HIDE DEF next
  <2> QED
    BY <1>6, <2>1, <2>2
<1>8. /\ q \in [1 .. c + 1 -> 1 .. r + 2] /\ q[c + 1] = r + 2
      /\ \A j \in 1 .. c : q[j] = p[j]
  <2>1. c + 1 \in 1 .. c + 1 /\ r + 2 \in 1 .. r + 2 /\ 1 .. r + 1 \subseteq 1 .. r + 2
        /\ \A j \in 1 .. c : j \in 1 .. c + 1 /\ j # c + 1
    BY <1>c
  <2>2. p \in [1 .. c + 1 -> 1 .. r + 2]
    BY <1>1, <2>1
  <2> QED
    BY <2>1, <2>2
<1> HIDE DEF next, q
<1> DEFINE s == p[c]
<1>9. s \in 1 .. r + 1 /\ s < r + 1 /\ s \in 1 .. G
  <2>1. s \in 1 .. r + 1 /\ p[c + 1] = r + 1 /\ s < p[c + 1]
    BY <1>1, <1>3
  <2>2. s < r + 1
    BY <2>1
  <2> HIDE DEF s
  <2> QED
    BY <1>2, <2>1, <2>2
<1>10. at[s] \in Nat /\ off[s] \in Nat /\ last[1] = at[s] /\ a + off[s] = at[s] + off[r + 1]
  <2>1. s \in 1 .. G + 1
    BY <1>9
  <2>2. at[s] \in Nat /\ off[s] \in Nat
    BY <1>9, <2>1
  <2> QED
    BY <1>1, <1>3, <1>4, <2>2
<1>11. t + off[s] = at[s] + off[r + 2]
  <2> DEFINE x == off[s]
             y == at[s]
             z == off[r + 1]
             w == off[r + 2]
  <2>1. x \in Nat /\ y \in Nat /\ z \in Nat /\ w \in Nat /\ a \in Nat
        /\ a + x = y + z /\ t + z = a + w
    BY <1>3, <1>10
  <2> HIDE DEF x, y, z, w, a
  <2> QED
    <3>1. t + x = y + w
      BY <2>1
    <3> QED
      BY <3>1 DEF x, y, w
<1>12. q[1] = 1 /\ q[c] = s
  BY <1>1, <1>3, <1>8
<1> HIDE DEF s
<1>13. ASSUME NEW j \in 1 .. c
       PROVE  /\ q[j] < q[j + 1] /\ next[j][1] = at[q[j]]
              /\ next[j][2] + off[q[j]] = at[q[j]] + off[q[j + 1]]
  <2>1. CASE j = c
    <3>1. q[j] = s /\ q[j + 1] = r + 2 /\ next[j] = new
      BY <1>7, <1>8, <1>12, <2>1
    <3>2. s < r + 2
      BY <1>2, <1>9
    <3> QED
      BY <1>5, <1>10, <1>11, <3>1, <3>2
  <2>2. CASE j # c
    <3>1. j \in 1 .. c - 1 /\ j + 1 \in 1 .. c
      BY <1>1, <2>2
    <3>2. q[j] = p[j] /\ q[j + 1] = p[j + 1] /\ next[j] = pieces[j]
      BY <1>7, <1>8, <3>1
    <3> QED
      BY <1>1, <3>1, <3>2
  <2> QED
    BY <2>1, <2>2
<1>14. ASSUME NEW x \in 1 .. r + 1
       PROVE  \E j \in 1 .. c :
                q[j] <= x /\ x < q[j + 1] /\ at[x] + off[q[j]] = at[q[j]] + off[x]
  <2>1. CASE x = r + 1
    <3>1. s <= x /\ x < r + 2 /\ at[x] + off[s] = at[s] + off[x]
      BY <1>2, <1>9, <1>10, <2>1
    <3>2. q[c] = s /\ q[c + 1] = r + 2
      BY <1>8, <1>12
    <3> QED
      BY <1>3, <3>1, <3>2
  <2>2. CASE x # r + 1
    <3>1. x \in 1 .. r
      BY <1>2, <2>2
    <3>2. PICK j \in 1 .. c :
            p[j] <= x /\ x < p[j + 1] /\ at[x] + off[p[j]] = at[p[j]] + off[x]
      BY <1>1, <3>1
    <3>3. q[j] = p[j]
      BY <1>8
    <3>4. x < q[j + 1]
      <4>1. CASE j = c
        BY <1>2, <1>8, <3>1, <4>1
      <4>2. CASE j # c
        <5>1. j + 1 \in 1 .. c
          BY <1>1, <4>2
        <5> QED
          BY <1>8, <3>2, <5>1
      <4> QED
        BY <4>1, <4>2
    <3> QED
      BY <3>2, <3>3, <3>4
  <2> QED
    BY <2>1, <2>2
<1>15. Joins(next, q, at, off, r + 1)
  <2>1. r + 1 + 1 = r + 2
    BY <1>2
  <2>2. q \in [1 .. Len(next) + 1 -> 1 .. r + 1 + 1] /\ q[Len(next) + 1] = r + 1 + 1
    BY <1>7, <1>8, <2>1
  <2> QED
    BY <1>7, <1>12, <1>13, <1>14, <2>2 DEF Joins
<1> QED
  BY <1>15 DEF next, new, front, last

(* A joined sequence of ranges is one of pairs.                            *)
LEMMA JoinedType ==
  ASSUME NEW seen \in Seq(Nat \X Nat), NEW r \in Nat \X Nat
  PROVE  Joined(seen, r) \in Seq(Nat \X Nat)
<1> DEFINE P == Nat \X Nat
           last == Last(seen)
           front == Front(seen)
<1>1. CASE seen # <<>> /\ Last(seen)[2] = r[1]
  <2>1. Len(seen) \in Nat \ {0} /\ seen \in Seq(P)
    BY <1>1, EmptySeq
  <2>2. last \in P /\ \A k \in 1 .. Len(seen) - 1 : seen[k] \in P
    <3> HIDE DEF P
    <3> QED
      BY <2>1, ElementOfSeq DEF Last
  <2>3. <<last[1], r[2]>> \in P
    BY <2>2
  <2>4. front \in Seq(P)
    <3>1. 1 \in Int /\ Len(seen) - 1 \in Int
      BY <2>1
    <3> HIDE DEF P
    <3> QED
      BY <2>2, <3>1, SubSeqProperties DEF Front
  <2>5. Append(front, <<last[1], r[2]>>) \in Seq(P)
    <3> HIDE DEF P, front, last
    <3> QED
      BY <2>3, <2>4, AppendProperties
  <2> QED
    BY <1>1, <2>5 DEF Joined
<1>2. CASE ~(seen # <<>> /\ Last(seen)[2] = r[1])
  <2>1. Append(seen, r) \in Seq(P)
    BY AppendProperties
  <2> QED
    BY <1>2, <2>1 DEF Joined
<1> QED
  BY <1>1, <1>2

(* Ranges of a file, and where their frames will be.                       *)
RangesOf(ranges, at, off, G) ==
  /\ G \in Nat /\ at \in [1 .. G -> Nat] /\ off \in [1 .. G + 1 -> Nat]
  /\ DOMAIN ranges = 1 .. G
  /\ \A x \in 1 .. G : /\ ranges[x] \in Nat \X Nat /\ ranges[x][1] = at[x]
                        /\ ranges[x][2] + off[x] = at[x] + off[x + 1]

(* Ranges that touch are read in one piece.                                *)
LEMMA CoalescedJoins ==
  ASSUME NEW ranges, NEW at, NEW off, NEW G, RangesOf(ranges, at, off, G)
  PROVE  \E p : Joins(Coalesced(ranges), p, at, off, G)
<1> DEFINE indices == ranges
           D == 1 .. G
           St == Seq(Nat \X Nat)
           base == <<>>
           pick == [s \in SUBSET D |-> Max(s)]
           Op(x, y) == Joined(x, y)
           f == [p \in St \X D |-> Op(p[1], indices[p[2]])]
           Step(g, s) == Joined(g[s \ {Max(s)}], indices[Max(s)])
           Fold == CHOOSE g : g = [s \in SUBSET DOMAIN indices |->
                                     IF s = {} THEN base ELSE Step(g, s)]
<1>1. /\ DOMAIN indices = D /\ (\A i \in D : indices[i] = ranges[i]) /\ D \in SUBSET Nat
      /\ G \in Nat
  BY DEF RangesOf
<1>2. base \in St
  OBVIOUS
<1>0. \A x \in St, i \in D : Op(x, indices[i]) \in St
  <2> SUFFICES ASSUME NEW x \in St, NEW i \in D PROVE Op(x, indices[i]) \in St
    OBVIOUS
  <2>1. indices[i] \in Nat \X Nat
    BY DEF RangesOf
  <2> HIDE DEF indices, D
  <2> QED BY <2>1, JoinedType
<1>3. f \in [St \X D -> St]
  <2>1. \A x \in St, i \in D : Op(x, indices[i]) \in St
    BY <1>0
  <2> HIDE DEF St, D, Op, indices
  <2> QED BY <2>1
<1>4. Picks(pick, D) /\ TakesMax(pick, D, G)
  <2>1. TakesMax(pick, D, G)
    BY <1>1 DEF TakesMax
  <2> HIDE DEF pick, D
  <2> QED BY <2>1, MaxPicks
<1>5. PICK g \in [SUBSET D -> St] : Folds(g, f, pick, base, D, St)
  <2>1. IsFiniteSet(D)
    <3>1. 1 \in Int /\ G \in Int
      BY <1>1
    <3> QED BY <3>1, FS_Interval
  <2>2. Picks(pick, D)
    BY <1>4
  <2> HIDE DEF D, St, base, pick, f
  <2> QED BY <1>2, <1>3, <2>1, <2>2, FoldExists
<1>6. \A s \in SUBSET D : s # {} => pick[s] = Max(s) /\ pick[s] \in D
  BY <1>4 DEF Picks, TakesMax
<1>7. \A x, s : s \in SUBSET D /\ s # {} /\ x \in St =>
        f[<<x, pick[s]>>] = Op(x, indices[Max(s)])
  <2> TAKE x, s
  <2> HAVE s \in SUBSET D /\ s # {} /\ x \in St
  <2>1. <<x, pick[s]>> \in St \X D /\ pick[s] = Max(s) /\ pick[s] \in D
    BY <1>6
  <2> HIDE DEF St, D, pick, indices, Op
  <2> QED BY <2>1
<1> HIDE DEF f
<1>s. \A h, s : Step(h, s) = Op(h[s \ {Max(s)}], indices[Max(s)])
  OBVIOUS
<1> HIDE DEF Op, Step
<1>8. g = [s \in SUBSET DOMAIN indices |-> IF s = {} THEN base ELSE Step(g, s)]
  <2>1. ASSUME NEW s \in SUBSET D, s # {} PROVE g[s] = Step(g, s)
    <3>1. pick[s] \in D /\ g[s \ {pick[s]}] \in St /\ pick[s] = Max(s)
      BY <1>6, <2>1
    <3>2. g[s] = f[<<g[s \ {pick[s]}], pick[s]>>]
      BY <1>5, <2>1, <3>1 DEF Folds
    <3> HIDE DEF St, D, indices, pick
    <3> QED BY <1>7, <1>s, <2>1, <3>1, <3>2
  <2>2. g[{}] = base /\ DOMAIN indices = D
    BY <1>1, <1>5 DEF Folds
  <2> HIDE DEF D, St, base, indices
  <2> QED BY <1>5, <2>1, <2>2
<1>9. Fold = [s \in SUBSET DOMAIN indices |-> IF s = {} THEN base ELSE Step(Fold, s)]
  <2> HIDE DEF D, St, base, indices
  <2> QED BY <1>8, Zenon
<1>10. Folds(Fold, f, pick, base, D, St)
  <2>1. ASSUME NEW s \in SUBSET D, s # {}, Fold[s \ {pick[s]}] \in St
        PROVE  Fold[s] = f[<<Fold[s \ {pick[s]}], pick[s]>>]
    <3>1. Fold[s] = Step(Fold, s)
      <4>1. DOMAIN indices = D
        BY <1>1
      <4> HIDE DEF Fold, base, D, indices
      <4> QED BY <1>9, <2>1, <4>1
    <3>2. pick[s] = Max(s) /\ pick[s] \in D
      BY <1>6, <2>1
    <3> HIDE DEF Fold, St, D, indices, pick
    <3> QED BY <1>7, <1>s, <2>1, <3>1, <3>2
  <2>2. Fold[{}] = base
    <3> HIDE DEF D, Fold, base, indices
    <3> QED BY <1>9
  <2> HIDE DEF Fold, pick, St, D, base
  <2> QED BY <2>1, <2>2 DEF Folds
<1>11. PICK h : Steps(h, f, base, G, St) /\ Fold[D] = h[G]
  <2> HIDE DEF Fold, pick, St, base, D
  <2>1. StepsWithin(f, base, D, St)
    BY <1>2, <1>3 DEF StepsWithin
  <2> QED BY <1>4, <1>10, <2>1, FoldInOrder
<1>12. Coalesced(ranges) = Fold[D]
  <2>1. Coalesced(ranges) = Fold[DOMAIN indices]
    BY Zenon DEF FoldLeft, MapThenFoldSet, Step, Coalesced, Joined
  <2>2. DOMAIN indices = D
    BY <1>1
  <2> HIDE DEF Fold, D, indices
  <2> QED BY <2>1, <2>2
<1>13. \A i \in 1 .. G : h[i] = Op(h[i - 1], indices[i])
  <2> TAKE i \in 1 .. G
  <2>1. i - 1 \in 0 .. G
    BY <1>1
  <2>2. <<h[i - 1], i>> \in St \X D
    BY <1>11, <2>1 DEF Steps
  <2>3. h[i] = f[<<h[i - 1], i>>]
    BY <1>11 DEF Steps
  <2> HIDE DEF St, D, indices
  <2> QED BY <2>2, <2>3 DEF f
<1> DEFINE P(i) == \E p : Joins(h[i], p, at, off, i)
           Good == {i \in Nat : i <= G => P(i)}
<1>14. /\ h[0] = <<>>
       /\ \A i \in 1 .. G : h[i] = Joined(h[i - 1], ranges[i])
  <2>1. h[0] = <<>>
    BY <1>11 DEF Steps
  <2> QED
    BY <1>1, <1>13, <2>1 DEF Op
<1>15. Coalesced(ranges) = h[G]
  <2> HIDE DEF D, Fold
  <2> QED
    BY <1>11, <1>12
<1> HIDE DEF indices, D, St, base, pick, Fold
<1>r. /\ G \in Nat /\ at \in [1 .. G -> Nat] /\ off \in [1 .. G + 1 -> Nat]
      /\ \A x \in 1 .. G : /\ ranges[x] \in Nat \X Nat /\ ranges[x][1] = at[x]
                            /\ ranges[x][2] + off[x] = at[x] + off[x + 1]
  BY DEF RangesOf
<1>16. 0 \in Good
  <2> DEFINE p == [j \in 1 .. 1 |-> 1]
  <2>1. Joins(<<>>, p, at, off, 0)
    <3>1. <<>> \in Seq(Nat \X Nat) /\ Len(<<>>) = 0
      OBVIOUS
    <3>2. p \in [1 .. 0 + 1 -> 1 .. 0 + 1] /\ p[1] = 1 /\ p[0 + 1] = 0 + 1
      OBVIOUS
    <3> HIDE DEF p
    <3> QED
      BY <3>1, <3>2 DEF Joins
  <2> QED
    BY <1>14, <2>1
<1>17. ASSUME NEW i \in Good
       PROVE  i + 1 \in Good
  <2> SUFFICES ASSUME i + 1 <= G
               PROVE  P(i + 1)
    OBVIOUS
  <2>1. i \in Nat /\ i \in 0 .. G - 1 /\ i + 1 \in 1 .. G /\ i + 1 - 1 = i
        /\ i + 1 + 1 = i + 2
    BY <1>r
  <2>2. PICK p : Joins(h[i], p, at, off, i)
    BY <1>r, <2>1
  <2> DEFINE C == h[i]
             r == ranges[i + 1]
             t == r[2]
             a == at[i + 1]
  <2>3. h[i + 1] = Joined(C, r)
    BY <1>14, <2>1
  <2>4. r = <<a, t>> /\ t \in Nat /\ t + off[i + 1] = a + off[i + 2]
    <3> DEFINE x == i + 1
    <3>1. x \in 1 .. G /\ x + 1 = i + 2
      BY <2>1
    <3> HIDE DEF x
    <3>2. /\ ranges[x] \in Nat \X Nat /\ ranges[x][1] = at[x]
          /\ ranges[x][2] + off[x] = at[x] + off[x + 1]
      BY <1>r, <3>1
    <3>3. ranges[x] = <<ranges[x][1], ranges[x][2]>> /\ ranges[x][2] \in Nat
      BY <3>2
    <3> QED
      BY <3>1, <3>2, <3>3 DEF x
  <2>5. CASE C # <<>> /\ Last(C)[2] = a
    <3>1. \E q : Joins(Append(Front(C), <<Last(C)[1], t>>), q, at, off, i + 1)
      <4> HIDE DEF C, t
      <4> QED
        BY <1>r, <2>1, <2>2, <2>4, <2>5, RangeContinues DEF C
    <3>2. Joined(C, r) = Append(Front(C), <<Last(C)[1], t>>)
      <4> HIDE DEF C
      <4> QED
        BY <2>4, <2>5 DEF Joined
    <3> QED
      BY <2>3, <3>1, <3>2
  <2>6. CASE ~(C # <<>> /\ Last(C)[2] = a)
    <3>1. \E q : Joins(Append(C, <<a, t>>), q, at, off, i + 1)
      <4> HIDE DEF C, t
      <4> QED
        BY <1>r, <2>1, <2>2, <2>4, RangeOpens DEF C
    <3>2. Joined(C, r) = Append(C, <<a, t>>)
      <4>1. r[1] = a /\ r = <<a, t>>
        BY <2>4
      <4> HIDE DEF C, r, t, a
      <4> QED
        BY <2>6, <4>1 DEF Joined
    <3> QED
      BY <2>3, <3>1, <3>2
  <2> QED
    BY <2>5, <2>6
<1>18. Good = Nat
  <2> HIDE DEF P
  <2>1. Good \in SUBSET Nat
    OBVIOUS
  <2> HIDE DEF Good
  <2> QED
    BY <1>16, <1>17, <2>1, SetInduction
<1>19. P(G)
  BY <1>r, <1>18
<1> QED
  BY <1>15, <1>19

(* Frames of a file, range after range.                                    *)
Taken(frames, file, at, off, G, S) ==
  /\ frames \in Seq(S) /\ Len(frames) = off[G + 1]
  /\ \A x \in 1 .. G : \A f \in 1 .. off[x + 1] - off[x] :
       frames[off[x] + f] = file[at[x] + f]

(* Ranges inside a file, none of them empty.                               *)
Within(file, at, off, G, S) ==
  /\ file \in Seq(S) /\ off[1] = 0
  /\ \A x \in 1 .. G : /\ off[x] < off[x + 1]
                       /\ at[x] + (off[x + 1] - off[x]) <= Len(file)

(* The frames a row of ranges selects, one range after the other.          *)
SelectedFrom(file, ranges) ==
  FlattenSeq([n \in DOMAIN Coalesced(ranges) |->
    SubSeq(file, Coalesced(ranges)[n][1] + 1, Coalesced(ranges)[n][2])])

(* A cut of a file, frame by frame.                                        *)
LEMMA CutIs ==
  ASSUME NEW S, NEW file \in Seq(S), NEW x \in Nat, NEW l \in Nat \ {0},
         x + l <= Len(file)
  PROVE  LET s == SubSeq(file, x + 1, x + l)
         IN  s \in Seq(S) /\ Len(s) = l /\ \A i \in 1 .. l : s[i] = file[x + i]
<1> DEFINE u == x + 1
           w == x + l
           s == SubSeq(file, u, w)
<1>1. u \in Int /\ w \in Int /\ u <= w
  OBVIOUS
<1>2. \A i \in u .. w : file[i] \in S
  <2>1. \A i \in u .. w : i \in 1 .. Len(file)
    OBVIOUS
  <2> QED
    BY <2>1, ElementOfSeq
<1>3. w - u + 1 = l /\ \A i \in 1 .. l : u + i - 1 = x + i
  OBVIOUS
<1> HIDE DEF u, w
<1>4. /\ s \in Seq(S) /\ Len(s) = IF u <= w THEN w - u + 1 ELSE 0
      /\ \A i \in 1 .. w - u + 1 : s[i] = file[u + i - 1]
  BY <1>1, <1>2, SubSeqProperties
<1> HIDE DEF s
<1>5. s \in Seq(S) /\ Len(s) = l /\ \A i \in 1 .. l : s[i] = file[x + i]
  BY <1>1, <1>3, <1>4
<1> QED
  BY <1>5 DEF s, u, w

(* The pieces are the frames of the ranges, in their order.                *)
LEMMA SelectionIs ==
  ASSUME NEW S, NEW file, NEW ranges, NEW at, NEW off, NEW G,
         RangesOf(ranges, at, off, G), Within(file, at, off, G, S)
  PROVE  Taken(SelectedFrom(file, ranges), file, at, off, G, S)
<1> DEFINE C == Coalesced(ranges)
           c == Len(C)
           parts == [j \in DOMAIN C |-> SubSeq(file, C[j][1] + 1, C[j][2])]
<1>1. PICK p : Joins(C, p, at, off, G)
  BY CoalescedJoins
<1>2. /\ G \in Nat /\ at \in [1 .. G -> Nat] /\ off \in [1 .. G + 1 -> Nat]
      /\ file \in Seq(S) /\ off[1] = 0 /\ Len(file) \in Nat
      /\ \A x \in 1 .. G : /\ off[x] < off[x + 1]
                           /\ at[x] + (off[x + 1] - off[x]) <= Len(file)
  BY LenProperties DEF RangesOf, Within
<1>3. /\ C \in Seq(Nat \X Nat) /\ c \in Nat /\ DOMAIN C = 1 .. c
      /\ p \in [1 .. c + 1 -> 1 .. G + 1] /\ p[1] = 1 /\ p[c + 1] = G + 1
      /\ \A j \in 1 .. c : /\ p[j] < p[j + 1] /\ C[j][1] = at[p[j]]
                           /\ C[j][2] + off[p[j]] = at[p[j]] + off[p[j + 1]]
      /\ \A x \in 1 .. G : \E j \in 1 .. c :
           p[j] <= x /\ x < p[j + 1] /\ at[x] + off[p[j]] = at[p[j]] + off[x]
  BY <1>1, LenProperties DEF Joins
<1>4. \A j \in 1 .. c : C[j] \in Nat \X Nat
  BY <1>3, ElementOfSeq
<1> HIDE DEF C, c
<1>5. c \in Nat /\ G \in Nat
  BY <1>2, <1>3
<1>6. \A j, k \in 1 .. c + 1 : j < k => p[j] < p[k]
  <2>1. p \in [1 .. c + 1 -> Nat] /\ \A j \in 1 .. c : p[j] < p[j + 1]
    BY <1>3, <1>5
  <2> QED
    BY <1>5, <2>1, Growing
<1>7. \A x, y \in 1 .. G + 1 : x < y => off[x] < off[y]
  BY <1>2, Growing
(* The pieces touch throughout.                                            *)
<1>8. ASSUME NEW j \in 1 .. c, NEW x \in p[j] .. p[j + 1] - 1
      PROVE  x \in 1 .. G /\ at[x] + off[p[j]] = at[p[j]] + off[x]
  <2>1. j \in 1 .. c + 1 /\ j + 1 \in 1 .. c + 1
    BY <1>5
  <2>2. p[j] \in 1 .. G + 1 /\ p[j + 1] \in 1 .. G + 1
    BY <1>3, <2>1
  <2>3. x \in 1 .. G /\ p[j] <= x /\ x < p[j + 1]
    BY <1>5, <2>2
  <2>4. PICK k \in 1 .. c :
          p[k] <= x /\ x < p[k + 1] /\ at[x] + off[p[k]] = at[p[k]] + off[x]
    BY <1>3, <2>3
  <2>5. k \in 1 .. c + 1 /\ k + 1 \in 1 .. c + 1
    BY <1>5
  <2>6. p[k] \in 1 .. G + 1 /\ p[k + 1] \in 1 .. G + 1
    BY <1>3, <2>5
  <2>7. ~(k < j)
    <3> SUFFICES ASSUME k < j PROVE FALSE
      OBVIOUS
    <3>1. k + 1 = j \/ k + 1 < j
      BY <2>1, <2>5
    <3>2. p[k + 1] <= p[j]
      BY <1>6, <2>1, <2>2, <2>5, <2>6, <3>1
    <3> QED
      BY <2>2, <2>3, <2>4, <2>6, <3>2
  <2>8. ~(j < k)
    <3> SUFFICES ASSUME j < k PROVE FALSE
      OBVIOUS
    <3>1. j + 1 = k \/ j + 1 < k
      BY <2>1, <2>5
    <3>2. p[j + 1] <= p[k]
      BY <1>6, <2>1, <2>2, <2>5, <2>6, <3>1
    <3> QED
      BY <2>2, <2>3, <2>4, <2>6, <3>2
  <2>9. k = j
    BY <2>7, <2>8
  <2> QED
    BY <2>3, <2>4, <2>9
<1>9. ASSUME NEW j \in 1 .. c
      PROVE  /\ p[j] \in 1 .. G /\ p[j + 1] \in 1 .. G + 1 /\ p[j] < p[j + 1]
             /\ off[p[j]] \in Nat /\ off[p[j + 1]] \in Nat /\ at[p[j]] \in Nat
             /\ off[p[j]] < off[p[j + 1]]
             /\ at[p[j]] + (off[p[j + 1]] - off[p[j]]) <= Len(file)
  <2> DEFINE a == p[j]
             b == p[j + 1]
  <2>1. j \in 1 .. c + 1 /\ j + 1 \in 1 .. c + 1
    BY <1>5
  <2>2. a \in 1 .. G + 1 /\ b \in 1 .. G + 1 /\ a < b
    BY <1>3, <2>1
  <2>3. a \in 1 .. G /\ b - 1 \in 1 .. G /\ b - 1 \in a .. b - 1 /\ b - 1 + 1 = b
    BY <1>5, <2>2
  <2>4. at[b - 1] + off[a] = at[a] + off[b - 1]
    BY <1>8, <2>3
  <2> HIDE DEF a, b
  <2>5. /\ off[a] \in Nat /\ off[b] \in Nat /\ at[a] \in Nat /\ off[a] < off[b]
        /\ off[b - 1] \in Nat /\ at[b - 1] \in Nat
    <3>1. b - 1 \in 1 .. G + 1
      BY <1>5, <2>3
    <3> QED
      BY <1>2, <1>7, <2>2, <2>3, <3>1
  <2>6. at[b - 1] + (off[b] - off[b - 1]) <= Len(file)
    BY <1>2, <2>3
  <2>7. at[a] + (off[b] - off[a]) <= Len(file)
    <3> DEFINE v == at[b - 1]
               w == off[b - 1]
               x == off[a]
               y == off[b]
               z == at[a]
               l == Len(file)
    <3>1. /\ v \in Nat /\ w \in Nat /\ x \in Nat /\ y \in Nat /\ z \in Nat /\ l \in Nat
          /\ v + x = z + w /\ v + (y - w) <= l
      BY <1>2, <2>4, <2>5, <2>6
    <3> HIDE DEF v, w, x, y, z, l
    <3>2. z + (y - x) <= l
      BY <3>1
    <3> QED
      BY <3>2 DEF x, y, z, l
  <2> QED
    BY <2>2, <2>3, <2>5, <2>7 DEF a, b
<1> DEFINE poff == [j \in 1 .. c + 1 |-> off[p[j]]]
<1>10. ASSUME NEW j \in 1 .. c
       PROVE  /\ parts[j] \in Seq(S) /\ Len(parts[j]) = off[p[j + 1]] - off[p[j]]
              /\ \A q \in 1 .. off[p[j + 1]] - off[p[j]] : parts[j][q] = file[at[p[j]] + q]
  <2> DEFINE x == at[p[j]]
             l == off[p[j + 1]] - off[p[j]]
             y == C[j][2]
  <2>1. x \in Nat /\ l \in Nat \ {0} /\ x + l <= Len(file) /\ C[j][1] = x /\ y = x + l
    <3>1. C[j][2] \in Nat
      BY <1>4
    <3>2. C[j][1] = x /\ C[j][2] + off[p[j]] = x + off[p[j + 1]]
      BY <1>3
    <3> DEFINE u == off[p[j]]
               w == off[p[j + 1]]
    <3>3. /\ x \in Nat /\ u \in Nat /\ w \in Nat /\ u < w /\ x + (w - u) <= Len(file)
          /\ l = w - u /\ y + u = x + w /\ y \in Nat /\ Len(file) \in Nat
      BY <1>2, <1>9, <3>1, <3>2
    <3> HIDE DEF x, u, w, l, y
    <3>4. l \in Nat \ {0} /\ x + l <= Len(file) /\ y = x + l
      BY <3>3
    <3> QED
      BY <3>2, <3>3, <3>4
  <2>2. parts[j] = SubSeq(file, x + 1, x + l)
    BY <1>3, <2>1
  <2> HIDE DEF x, l, parts
  <2>7. parts[j] \in Seq(S) /\ Len(parts[j]) = l /\ \A i \in 1 .. l : parts[j][i] = file[x + i]
    BY <1>2, <2>1, <2>2, CutIs
  <2> QED
    BY <2>7 DEF x, l
<1>11. Positions(poff, parts, S)
  <2>1. parts \in [1 .. c -> Seq(S)]
    <3>1. parts = [j \in 1 .. c |-> parts[j]]
      BY <1>3
    <3> HIDE DEF parts
    <3> QED
      BY <1>10, <3>1
  <2>2. parts \in Seq(Seq(S)) /\ Len(parts) = c
    <3> HIDE DEF parts
    <3> QED
      BY <1>5, <2>1, SeqOfFunction
  <2>3. poff \in [1 .. c + 1 -> Nat] /\ poff[1] = 0
    <3>1. \A j \in 1 .. c + 1 : off[p[j]] \in Nat
      BY <1>2, <1>3
    <3>2. 1 \in 1 .. c + 1
      BY <1>5
    <3> QED
      BY <1>2, <1>3, <3>1, <3>2
  <2>4. ASSUME NEW j \in 1 .. c
        PROVE  poff[j + 1] = poff[j] + Len(parts[j])
    <3>1. j \in 1 .. c + 1 /\ j + 1 \in 1 .. c + 1
      BY <1>5
    <3>2. poff[j] = off[p[j]] /\ poff[j + 1] = off[p[j + 1]]
      BY <3>1
    <3> HIDE DEF parts, poff
    <3> QED
      BY <1>9, <1>10, <3>2
  <2> HIDE DEF parts, poff
  <2> QED
    BY <2>2, <2>3, <2>4 DEF Positions
<1> DEFINE frames == FlattenSeq(parts)
<1>12. /\ Len(parts) = c
       /\ frames \in Seq(S) /\ Len(frames) = poff[Len(parts) + 1]
       /\ \A k \in 1 .. Len(parts) : \A j \in 1 .. Len(parts[k]) :
            frames[poff[k] + j] = parts[k][j]
  <2>1. Len(parts) = c
    <3>1. parts = [j \in 1 .. c |-> parts[j]]
      BY <1>3
    <3> HIDE DEF parts
    <3> QED
      BY <1>5, <3>1, LenOfFunction
  <2> HIDE DEF parts, poff
  <2> QED
    BY <1>11, <2>1, FlattenAt
<1>13. SelectedFrom(file, ranges) = frames
  BY DEF SelectedFrom, C
<1>14. poff[c + 1] = off[G + 1] /\ \A j \in 1 .. c : poff[j] = off[p[j]]
  <2>1. c + 1 \in 1 .. c + 1 /\ \A j \in 1 .. c : j \in 1 .. c + 1
    BY <1>5
  <2>2. poff[c + 1] = off[p[c + 1]] /\ \A j \in 1 .. c : poff[j] = off[p[j]]
    BY <2>1
  <2> HIDE DEF poff
  <2> QED
    BY <1>3, <2>2
<1> HIDE DEF parts, poff, frames
<1>15. ASSUME NEW x \in 1 .. G, NEW f \in 1 .. off[x + 1] - off[x]
       PROVE  frames[off[x] + f] = file[at[x] + f]
  <2>1. PICK j \in 1 .. c :
          p[j] <= x /\ x < p[j + 1] /\ at[x] + off[p[j]] = at[p[j]] + off[x]
    BY <1>3
  <2> DEFINE a == p[j]
             b == p[j + 1]
  <2>2. a \in 1 .. G /\ b \in 1 .. G + 1 /\ a <= x /\ x < b
        /\ x \in 1 .. G + 1 /\ x + 1 \in 1 .. G + 1 /\ a \in 1 .. G + 1
    BY <1>5, <1>9, <2>1
  <2>3. x + 1 <= b /\ (x + 1 = b \/ x + 1 < b) /\ (a = x \/ a < x)
    BY <1>5, <2>2
  <2> HIDE DEF a, b
  <2>4. /\ off[a] \in Nat /\ off[b] \in Nat /\ off[x] \in Nat /\ off[x + 1] \in Nat
        /\ at[a] \in Nat /\ at[x] \in Nat /\ off[a] <= off[x] /\ off[x + 1] <= off[b]
    <3> DEFINE z == x + 1
    <3>1. z \in 1 .. G + 1 /\ z <= b /\ (z = b \/ z < b)
      BY <2>2, <2>3
    <3> HIDE DEF z
    <3>2. off[z] \in Nat /\ off[a] \in Nat /\ off[b] \in Nat /\ off[x] \in Nat
      BY <1>2, <2>2, <3>1
    <3>3. off[z] <= off[b] /\ off[a] <= off[x]
      <4>1. z = b \/ off[z] < off[b]
        BY <1>7, <2>2, <3>1
      <4>2. a = x \/ off[a] < off[x]
        BY <1>7, <2>2, <2>3
      <4> QED
        BY <3>2, <4>1, <4>2
    <3>4. at[a] \in Nat /\ at[x] \in Nat
      BY <1>2, <2>2
    <3> QED
      BY <3>2, <3>3, <3>4 DEF z
  <2> DEFINE q == off[x] - off[a] + f
  <2>5. q \in 1 .. off[b] - off[a] /\ off[a] + q = off[x] + f
    BY <2>4
  <2>6. at[a] + q = at[x] + f
    <3> DEFINE u == at[x]
               v == at[a]
               w == off[x]
               z == off[a]
    <3>1. u + z = v + w /\ u \in Nat /\ v \in Nat /\ w \in Nat /\ z \in Nat /\ f \in Int
      BY <2>1, <2>4 DEF a
    <3> HIDE DEF u, v, w, z
    <3>2. v + (w - z + f) = u + f
      BY <3>1
    <3> QED
      BY <3>2 DEF u, v, w, z
  <2> HIDE DEF q
  <2>7. frames[poff[j] + q] = parts[j][q]
    BY <1>10, <1>12, <2>5 DEF a, b
  <2>8. parts[j][q] = file[at[a] + q]
    BY <1>10, <2>5 DEF a, b
  <2>9. poff[j] = off[a]
    BY <1>14 DEF a
  <2> QED
    BY <2>5, <2>6, <2>7, <2>8, <2>9
<1> QED
  BY <1>12, <1>13, <1>14, <1>15 DEF Taken

-----------------------------------------------------------------------------
(* Ranges of a media job: read piece by piece, in order.                   *)

(* The packets of the retained episodes.                                   *)
NewPackets ==
  [k \in 1 .. Len(Kept) |->
    [f \in 1 .. NewLens[k] |-> RecordedPacket(recording, Kept[k], f)]]

(* The ranges a media job reads, and the packets in them.                  *)
LEMMA MediaRanges ==
  ASSUME EditBase,
         NEW lo, NEW hi, PacketsStored(dataset, Len(recording.lens), recording.lens,
                                       RecordedPackets(recording), lo, hi),
         NEW job, TakesRun(job, KeptIn(VideoPaths), Len(Kept), dataset.version),
         PlannedMedia(job)
  PROVE  LET a == FirstOf(job)
             G == EndOf(job) - a
             file == dataset.video[job.source]
             from == [x \in 1 .. G |-> VideoStart(Kept[a + x - 1])]
             len == [x \in 1 .. G |-> NewLens[a + x - 1]]
             off == [x \in 1 .. G + 1 |-> Offset(len, x)]
         IN  /\ G \in Nat /\ len \in [1 .. G -> Nat \ {0}]
             /\ RangesOf(job.ranges, from, off, G)
             /\ Within(file, from, off, G, Range(file))
             /\ \A x \in 1 .. G : job.ranges[x] = <<from[x], from[x] + len[x]>>
             /\ \A x \in 1 .. G : \A f \in 1 .. len[x] :
                  file[from[x] + f] = RecordedPacket(recording, Kept[a + x - 1], f)
<1> DEFINE n == Len(recording.lens)
           m == Len(Kept)
           lens == recording.lens
           a == FirstOf(job)
           b == EndOf(job)
           G == b - a
           rows == dataset.video[job.source]
           paths == [i \in 1 .. n |-> VideoFile(dataset, i)]
           at == [i \in 1 .. n |-> VideoStart(i)]
           from == [x \in 1 .. G |-> VideoStart(Kept[a + x - 1])]
           len == [x \in 1 .. G |-> NewLens[a + x - 1]]
           off == [x \in 1 .. G + 1 |-> Offset(len, x)]
           pieces == RecordedPackets(recording)
<1>1. KeptFacts(n, m)
  BY KeptFactsHold
<1>2. /\ n \in Nat \ {0} /\ m \in Nat /\ Count = n /\ lens \in [1 .. n -> Nat \ {0}]
      /\ Rising(Kept, m, n) /\ NewLens \in [1 .. m -> Nat \ {0}]
      /\ \A k \in 1 .. m : Kept[k] \in 1 .. n /\ NewLens[k] = lens[Kept[k]]
  BY <1>1 DEF KeptFacts
<1>3. /\ a \in 1 .. m /\ b \in a + 1 .. m + 1 /\ job.episodes = Span(a, b)
  BY DEF TakesRun
<1>4. VideoPaths = paths
  BY <1>2 DEF VideoPaths
<1>6. \A i \in 1 .. n : at[i] = VideoStart(i)
  OBVIOUS
<1>7. \A i \in 1 .. n : pieces[i] = [f \in 1 .. lens[i] |-> RecordedPacket(recording, i, f)]
  BY <1>2 DEF RecordedPackets
<1> HIDE DEF n, m, lens, a, b, paths, at, pieces
<1>8. PICK s, e : Holds(job, Kept, dataset.video, paths, at, lens, pieces, n, s, e)
  BY <1>4, PacketsHeld DEF n, lens, at, pieces
<1>9. Ranges(job, Kept, rows, at, lens, pieces)
  BY <1>2, <1>3, <1>8, RangesInFile DEF a, b
<1>10. G \in Nat /\ \A x \in 1 .. G : a + x - 1 \in a .. b - 1 /\ a + x - 1 \in 1 .. m
  BY <1>3, <1>2
<1>11. /\ rows \in Seq(Range(rows))
       /\ \A k \in a .. b - 1 :
            /\ at[Kept[k]] \in Nat /\ lens[Kept[k]] \in Nat \ {0}
            /\ at[Kept[k]] + lens[Kept[k]] <= Len(rows)
            /\ \A f \in 1 .. lens[Kept[k]] : rows[at[Kept[k]] + f] = pieces[Kept[k]][f]
       /\ \A j, k \in a .. b - 1 : j < k => at[Kept[j]] + lens[Kept[j]] <= at[Kept[k]]
  BY <1>9 DEF Ranges, a, b
<1>12. Len(job.episodes) = G /\ \A x \in 1 .. G : job.episodes[x] = a + x - 1
  <2>1. a \in Nat /\ b \in Nat /\ a < b
    BY <1>2, <1>3
  <2>2. Len(Span(a, b)) = b - a /\ \A x \in 1 .. b - a : Span(a, b)[x] = a + x - 1
    BY <2>1, SpanProperties
  <2> QED
    BY <1>3, <2>2
<1> HIDE DEF rows, G
<1>13. \A x \in 1 .. G : /\ from[x] = at[Kept[a + x - 1]] /\ len[x] = lens[Kept[a + x - 1]]
                         /\ from[x] = VideoStart(Kept[job.episodes[x]])
                         /\ len[x] = NewLens[job.episodes[x]]
  BY <1>2, <1>6, <1>10, <1>12
<1>14. from \in [1 .. G -> Nat] /\ len \in [1 .. G -> Nat \ {0}]
  <2>1. \A x \in 1 .. G : from[x] \in Nat /\ len[x] \in Nat \ {0}
    BY <1>10, <1>11, <1>13
  <2> QED
    BY <2>1
<1> HIDE DEF from, len
<1>15. ASSUME NEW x \in 1 .. G
       PROVE  /\ from[x] + len[x] <= Len(rows)
              /\ \A f \in 1 .. len[x] :
                   rows[from[x] + f] = RecordedPacket(recording, Kept[a + x - 1], f)
  <2> DEFINE k == a + x - 1
  <2>1. k \in a .. b - 1 /\ k \in 1 .. m /\ k \in Nat /\ job.episodes[x] = k
        /\ from[x] = at[Kept[k]] /\ len[x] = lens[Kept[k]] /\ Kept[k] \in 1 .. n
    BY <1>2, <1>10, <1>12, <1>13
  <2> HIDE DEF k
  <2>2. \A f \in 1 .. lens[Kept[k]] : pieces[Kept[k]][f] = RecordedPacket(recording, Kept[k], f)
    BY <1>7, <2>1
  <2>3. \A f \in 1 .. lens[Kept[k]] :
          rows[at[Kept[k]] + f] = RecordedPacket(recording, Kept[k], f)
    BY <1>11, <2>1, <2>2
  <2>4. from[x] + len[x] <= Len(rows)
    BY <1>11, <2>1
  <2>5. \A f \in 1 .. len[x] : rows[from[x] + f] = RecordedPacket(recording, Kept[k], f)
    BY <2>1, <2>3
  <2> QED
    BY <2>4, <2>5 DEF k
<1>16. /\ job.ranges = [x \in DOMAIN job.episodes |-> VideoRange(job.episodes[x])]
       /\ DOMAIN job.episodes = 1 .. G
  <2>1. a \in Nat /\ b \in Nat /\ a < b
    BY <1>2, <1>3
  <2>2. DOMAIN Span(a, b) = 1 .. b - a
    BY <2>1 DEF Span
  <2> QED
    BY <1>3, <2>2 DEF PlannedMedia, G
<1>17. ASSUME NEW x \in 1 .. G
       PROVE  job.ranges[x] = <<from[x], from[x] + len[x]>>
  <2>1. job.ranges[x] = VideoRange(job.episodes[x])
    BY <1>16
  <2> QED
    BY <1>13, <2>1 DEF VideoRange
<1>18. /\ off \in [1 .. G + 1 -> Nat] /\ off[1] = 0
       /\ \A x \in 1 .. G : off[x + 1] = off[x] + len[x]
  <2>1. len \in [1 .. G -> Nat]
    BY <1>14
  <2>2. /\ \A x \in 1 .. G + 1 : Offset(len, x) \in Nat
        /\ \A x \in 1 .. G : Offset(len, x + 1) = Offset(len, x) + len[x]
    BY <1>10, <2>1, OffsetProperties
  <2>4. Offset(len, 1) = 0
    BY <1>10, <2>1, PlacesAdd DEF Offset, PlaceOf
  <2>3. 1 \in 1 .. G + 1 /\ \A x \in 1 .. G : x \in 1 .. G + 1 /\ x + 1 \in 1 .. G + 1
    BY <1>10
  <2> QED
    BY <2>2, <2>3, <2>4
<1> HIDE DEF off
<1>19. ASSUME NEW x \in 1 .. G
       PROVE  /\ job.ranges[x] \in Nat \X Nat /\ job.ranges[x][1] = from[x]
              /\ job.ranges[x][2] + off[x] = from[x] + off[x + 1]
              /\ off[x] < off[x + 1]
              /\ from[x] + (off[x + 1] - off[x]) <= Len(rows)
  <2> DEFINE u == from[x]
             v == len[x]
             w == off[x]
             z == off[x + 1]
             l == Len(rows)
  <2>1. u \in Nat /\ v \in Nat \ {0} /\ w \in Nat /\ z = w + v /\ u + v <= l /\ l \in Nat
    <3>1. x \in 1 .. G + 1
      BY <1>10
    <3>2. l \in Nat
      BY <1>11, LenProperties
    <3> QED
      BY <1>14, <1>15, <1>18, <3>1, <3>2
  <2>2. job.ranges[x] = <<u, u + v>>
    BY <1>17
  <2> HIDE DEF u, v, w, z, l
  <2>3. u + v \in Nat /\ u + v + w = u + z /\ w < z /\ u + (z - w) <= l
    BY <2>1
  <2>4. job.ranges[x] \in Nat \X Nat /\ job.ranges[x][1] = u /\ job.ranges[x][2] = u + v
    BY <2>1, <2>2, <2>3
  <2> QED
    BY <2>3, <2>4 DEF u, w, z, l
<1>20. DOMAIN job.ranges = 1 .. G
  BY <1>16
<1>21. from \in [1 .. G -> Nat]
  BY <1>14
<1>22. RangesOf(job.ranges, from, off, G)
  BY <1>10, <1>18, <1>19, <1>20, <1>21 DEF RangesOf
<1>23. Within(rows, from, off, G, Range(rows))
  BY <1>11, <1>18, <1>19 DEF Within
<1> QED
  BY <1>10, <1>14, <1>15, <1>17, <1>22, <1>23 DEF rows, from, len, off, G, a, b

(* What is cut out for a job are the packets of its episodes, in order.    *)
LEMMA SelectedIs ==
  ASSUME EditBase,
         NEW lo, NEW hi, PacketsStored(dataset, Len(recording.lens), recording.lens,
                                    RecordedPackets(recording), lo, hi),
         NEW job, TakesRun(job, KeptIn(VideoPaths), Len(Kept), dataset.version),
         PlannedMedia(job)
  PROVE  Compact(Selected(job), FirstOf(job), EndOf(job), NewLens, NewPackets)
<1> DEFINE m == Len(Kept)
           a == FirstOf(job)
           b == EndOf(job)
           G == b - a
           rows == dataset.video[job.source]
           from == [x \in 1 .. G |-> VideoStart(Kept[a + x - 1])]
           len == [x \in 1 .. G |-> NewLens[a + x - 1]]
           off == [x \in 1 .. G + 1 |-> Offset(len, x)]
           new == Selected(job)
<1>1. /\ m \in Nat /\ NewLens \in [1 .. m -> Nat \ {0}]
  BY KeptFactsHold DEF KeptFacts
<1>2. /\ a \in 1 .. m /\ b \in a + 1 .. m + 1 /\ job.episodes = Span(a, b)
  BY DEF TakesRun
<1>3. /\ RangesOf(job.ranges, from, off, G)
      /\ Within(rows, from, off, G, Range(rows))
      /\ \A x \in 1 .. G : \A f \in 1 .. len[x] :
           rows[from[x] + f] = RecordedPacket(recording, Kept[a + x - 1], f)
  BY MediaRanges
<1>4. /\ len \in [1 .. G -> Nat]
      /\ \A x \in 1 .. G + 1 : /\ Offset(len, x) \in Nat
                               /\ Offset(NewLens, a + x - 1) = Offset(NewLens, a) + Offset(len, x)
  <2>1. NewLens \in [1 .. m -> Nat] /\ G \in Nat /\ a \in 1 .. m + 1 /\ a + G <= m + 1
    BY <1>1, <1>2
  <2>2. \A x \in 1 .. G : a + x - 1 \in 1 .. m /\ len[x] = NewLens[a + x - 1]
    BY <1>1, <1>2
  <2>3. len \in [1 .. G -> Nat]
    BY <1>1, <2>2
  <2> HIDE DEF len, G, a
  <2>4. Shifts(NewLens, a, len, G)
    <3> HIDE DEF m
    <3> QED
      BY <1>1, <2>1, <2>2, <2>3, PartShifts
  <2> QED
    BY <2>3, <2>4 DEF Shifts
<1>5. \A x \in 1 .. G : len[x] = NewLens[a + x - 1]
  OBVIOUS
<1> HIDE DEF m, a, b, rows, from, len
<1>6. G \in Nat /\ G + 1 \in 1 .. G + 1 /\ a + (G + 1) - 1 = b
  BY <1>1, <1>2
<1>7. /\ new \in Seq(Range(rows)) /\ Len(new) = Offset(len, G + 1)
      /\ \A x \in 1 .. G : \A f \in 1 .. len[x] :
           new[Offset(len, x) + f] = rows[from[x] + f]
  <2>1. /\ off[G + 1] = Offset(len, G + 1)
        /\ \A x \in 1 .. G : off[x] = Offset(len, x) /\ off[x + 1] - off[x] = len[x]
    <3>1. \A x \in 1 .. G : /\ off[x] = Offset(len, x) /\ off[x + 1] = Offset(len, x + 1)
                             /\ off[x] \in Nat
      BY <1>4, <1>6
    <3>2. off[G + 1] = Offset(len, G + 1)
      BY <1>6
    <3> HIDE DEF off
    <3>3. \A x \in 1 .. G : Offset(len, x + 1) = Offset(len, x) + len[x]
      <4> HIDE DEF G
      <4> QED
        BY <1>4, <1>6, OffsetProperties
    <3>4. \A x \in 1 .. G : len[x] \in Nat
      BY <1>4
    <3> QED
      BY <3>1, <3>2, <3>3, <3>4
  <2> HIDE DEF G, off
  <2>2. Taken(SelectedFrom(rows, job.ranges), rows, from, off, G, Range(rows))
    BY <1>3, SelectionIs
  <2>3. new = SelectedFrom(rows, job.ranges)
    BY DEF Selected, SelectedFrom, rows
  <2> HIDE DEF new
  <2>4. /\ new \in Seq(Range(rows)) /\ Len(new) = off[G + 1]
        /\ \A x \in 1 .. G : \A f \in 1 .. off[x + 1] - off[x] :
             new[off[x] + f] = rows[from[x] + f]
    BY <2>2, <2>3 DEF Taken
  <2> QED
    BY <2>1, <2>4
<1> HIDE DEF G, new, off
<1>8. /\ Offset(NewLens, b) = Offset(NewLens, a) + Offset(len, G + 1)
      /\ Offset(len, G + 1) \in Nat
  BY <1>4, <1>6
<1>9. Offset(NewLens, a) \in Nat /\ \A k \in 1 .. m + 1 : Offset(NewLens, k) \in Nat
  <2>1. NewLens \in [1 .. m -> Nat] /\ a \in 1 .. m + 1
    BY <1>1, <1>2
  <2>2. \A k \in 1 .. m + 1 : Offset(NewLens, k) \in Nat
    BY <1>1, <2>1, OffsetProperties
  <2> QED
    BY <2>1, <2>2
<1>10. new = [q \in 1 .. Offset(NewLens, b) - Offset(NewLens, a) |-> new[q]]
  <2>1. Offset(NewLens, b) - Offset(NewLens, a) = Offset(len, G + 1)
    BY <1>8, <1>9
  <2>2. new = [q \in 1 .. Len(new) |-> new[q]]
    BY <1>7
  <2> QED
    BY <1>7, <2>1, <2>2
<1>12. ASSUME NEW k \in a .. b - 1, NEW f \in 1 .. NewLens[k]
       PROVE  new[Offset(NewLens, k) - Offset(NewLens, a) + f] = NewPackets[k][f]
  <2> DEFINE x == k - a + 1
             q == Offset(len, x) + f
  <2>1. x \in 1 .. G /\ k = a + x - 1 /\ x \in 1 .. G + 1 /\ k \in 1 .. m
        /\ x + 1 \in 1 .. G + 1
    BY <1>1, <1>2 DEF G
  <2>2. len[x] = NewLens[k]
    BY <1>5, <2>1
  <2>3. NewLens[k] \in Nat /\ f \in Nat /\ f >= 1 /\ f <= NewLens[k]
    BY <1>1, <2>1
  <2>4. /\ Offset(len, x) \in Nat
        /\ Offset(NewLens, k) = Offset(NewLens, a) + Offset(len, x)
    BY <1>4, <2>1
  <2>5. Offset(NewLens, k) - Offset(NewLens, a) + f = q
    BY <1>9, <2>3, <2>4
  <2>6. new[q] = rows[from[x] + f]
    BY <1>7, <2>1, <2>2
  <2>7. rows[from[x] + f] = RecordedPacket(recording, Kept[k], f)
    BY <1>3, <2>1, <2>2
  <2>8. NewPackets[k][f] = RecordedPacket(recording, Kept[k], f)
    BY <2>1 DEF NewPackets, m
  <2> QED
    BY <2>5, <2>6, <2>7, <2>8
<1>13. Compact(new, a, b, NewLens, NewPackets)
  BY <1>10, <1>12 DEF Compact
<1> QED
  BY <1>13 DEF a, b, new

(* Every place of such a file is one of a piece.                           *)
LEMMA CompactCovers ==
  ASSUME NEW n \in Nat, NEW lens \in [1 .. n -> Nat],
         NEW a \in 1 .. n + 1, NEW b \in 1 .. n + 1,
         NEW q \in 1 .. Offset(lens, b) - Offset(lens, a)
  PROVE  \E i \in a .. b - 1 : \E f \in 1 .. lens[i] :
           q = Offset(lens, i) - Offset(lens, a) + f
<1> DEFINE off == [i \in 1 .. n + 1 |-> Offset(lens, i)]
<1>1. /\ \A i \in 1 .. n + 1 : off[i] \in Nat
      /\ \A i \in 1 .. n : off[i + 1] = off[i] + lens[i]
      /\ \A i, j \in 1 .. n + 1 : i <= j => off[i] <= off[j]
  <2>1. /\ \A i \in 1 .. n + 1 : Offset(lens, i) \in Nat
        /\ \A i \in 1 .. n : Offset(lens, i + 1) = Offset(lens, i) + lens[i]
        /\ \A i, j \in 1 .. n + 1 : i <= j => Offset(lens, i) <= Offset(lens, j)
    BY OffsetProperties
  <2> QED
    BY <2>1
<1>2. off[a] = Offset(lens, a) /\ off[b] = Offset(lens, b)
  OBVIOUS
<1>3. \A i \in 1 .. n + 1 : off[i] = Offset(lens, i)
  OBVIOUS
<1> HIDE DEF off
<1>4. q \in Nat /\ q >= 1 /\ off[a] + q <= off[b] /\ off[a] \in Nat /\ off[b] \in Nat
  <2> DEFINE u == off[a]
             v == off[b]
  <2>1. u \in Nat /\ v \in Nat /\ q \in 1 .. v - u
    BY <1>1, <1>2
  <2> HIDE DEF u, v
  <2>2. q \in Nat /\ q >= 1 /\ u + q <= v
    BY <2>1
  <2> QED
    BY <2>1, <2>2 DEF u, v
<1>5. a < b
  <2>1. b <= a => off[b] <= off[a]
    BY <1>1
  <2>2. ~(b <= a)
    BY <1>4, <2>1
  <2> QED
    BY <2>2
<1> DEFINE D == {i \in a .. b - 1 : off[i] < off[a] + q}
           i == Max(D)
<1>6. D \subseteq a .. b - 1 /\ a \in D
  BY <1>4, <1>5
<1>7. IsFiniteSet(D)
  <2> DEFINE v == b - 1
  <2>1. a \in Int /\ v \in Int
    OBVIOUS
  <2> HIDE DEF v
  <2>2. IsFiniteSet(a .. v)
    BY <2>1, FS_Interval
  <2> QED
    BY <1>6, <2>2, FS_Subset DEF v
<1>8. i \in D /\ \A j \in D : j <= i
  <2>1. D \subseteq Int /\ D # {}
    BY <1>6
  <2> HIDE DEF D
  <2> QED
    BY <1>7, <2>1, FiniteMax
<1>9. i \in a .. b - 1 /\ off[i] < off[a] + q
  BY <1>8
<1>10. i + 1 \in a .. b - 1 => ~(off[i + 1] < off[a] + q)
  <2> HIDE DEF i
  <2>1. i + 1 \in a .. b - 1 /\ off[i + 1] < off[a] + q => i + 1 \in D
    OBVIOUS
  <2>2. i \in Int
    BY <1>9
  <2>3. i + 1 \notin D
    BY <1>8, <2>2
  <2> QED
    BY <2>1, <2>3
<1> HIDE DEF D, i
<1>11. i \in 1 .. n /\ i + 1 \in 1 .. n + 1 /\ i \in 1 .. n + 1 /\ (i + 1 \in a .. b - 1 \/ i + 1 = b)
  BY <1>9
<1> DEFINE u == off[a]
           w == off[i]
           z == off[i + 1]
           f == u + q - w
<1>12. u \in Nat /\ w \in Nat /\ z \in Nat /\ z = w + lens[i] /\ u <= w /\ w < u + q
  <2>1. a <= i
    BY <1>9
  <2> QED
    BY <1>1, <1>9, <1>11, <2>1
<1>13. u + q <= z
  BY <1>4, <1>10, <1>11, <1>12
<1>14. lens[i] \in Nat
  BY <1>11
<1> HIDE DEF u, w, z
<1>15. f \in 1 .. lens[i] /\ q = w - u + f
  BY <1>4, <1>12, <1>13, <1>14
<1>16. w = Offset(lens, i) /\ u = Offset(lens, a)
  BY <1>2, <1>3, <1>11 DEF w, u
<1> QED
  BY <1>9, <1>15, <1>16

(* A packet needs none, or the one before it, which may be the last of the *)
(* episode before.                                                         *)
Follows(pieces, lens, a, i, f) ==
  LET after == pieces[i][f].after
  IN  \/ after = Key
      \/ f > 1 /\ pieces[i][f - 1].frame = after
      \/ f = 1 /\ i > a /\ pieces[i - 1][lens[i - 1]].frame = after

(* Then the file can be decoded from its beginning.                        *)
LEMMA CompactDecodes ==
  ASSUME NEW n \in Nat, NEW lens \in [1 .. n -> Nat \ {0}],
         NEW a \in 1 .. n + 1, NEW b \in 1 .. n + 1, NEW file, NEW pieces,
         Compact(file, a, b, lens, pieces),
         \A i \in a .. b - 1 : \A f \in 1 .. lens[i] : Follows(pieces, lens, a, i, f)
  PROVE  Decodes(file)
<1> DEFINE off == [i \in 1 .. n + 1 |-> Offset(lens, i)]
           l == Offset(lens, b) - Offset(lens, a)
<1>1. lens \in [1 .. n -> Nat]
  OBVIOUS
<1>2. /\ \A i \in 1 .. n + 1 : off[i] = Offset(lens, i) /\ off[i] \in Nat
      /\ \A i \in 1 .. n : off[i + 1] = off[i] + lens[i]
      /\ \A i, j \in 1 .. n + 1 : i <= j => off[i] <= off[j]
  <2>1. /\ \A i \in 1 .. n + 1 : Offset(lens, i) \in Nat
        /\ \A i \in 1 .. n : Offset(lens, i + 1) = Offset(lens, i) + lens[i]
        /\ \A i, j \in 1 .. n + 1 : i <= j => Offset(lens, i) <= Offset(lens, j)
    BY <1>1, OffsetProperties
  <2> QED
    BY <2>1
<1> HIDE DEF off
<1>3. /\ file = [q \in 1 .. l |-> file[q]]
      /\ \A i \in a .. b - 1 : \A f \in 1 .. lens[i] :
           file[off[i] - off[a] + f] = pieces[i][f]
  <2>1. \A i \in a .. b - 1 : i \in 1 .. n + 1
    OBVIOUS
  <2>2. a \in 1 .. n + 1
    OBVIOUS
  <2>3. \A i \in a .. b - 1 : off[i] = Offset(lens, i)
    BY <1>2, <2>1
  <2> QED
    BY <1>2, <2>2, <2>3 DEF Compact
<1>4. DOMAIN file = 1 .. l
  <2> HIDE DEF l
  <2> QED
    BY <1>3
<1>5. ASSUME NEW q \in 1 .. l
      PROVE  file[q].after = Key \/ (q > 1 /\ file[q - 1].frame = file[q].after)
  <2>0. PICK i \in a .. b - 1 : \E f \in 1 .. lens[i] : q = Offset(lens, i) - Offset(lens, a) + f
    BY <1>1, CompactCovers
  <2>1. PICK f \in 1 .. lens[i] : q = Offset(lens, i) - Offset(lens, a) + f
    BY <2>0
  <2>2. i \in 1 .. n /\ i \in Nat /\ i \in 1 .. n + 1 /\ a <= i /\ a \in Nat
    OBVIOUS
  <2>3. lens[i] \in Nat \ {0} /\ f \in Nat /\ f >= 1 /\ f <= lens[i]
    BY <2>2
  <2>4. off[i] \in Nat /\ off[a] \in Nat /\ off[a] <= off[i] /\ q = off[i] - off[a] + f
    BY <1>2, <2>1, <2>2
  <2>5. file[q] = pieces[i][f]
    BY <1>3, <2>4
  <2>6. Follows(pieces, lens, a, i, f)
    OBVIOUS
  <2> DEFINE u == off[a]
             w == off[i]
  <2>7. u \in Nat /\ w \in Nat /\ u <= w /\ q = w - u + f
    BY <2>4
  <2>8. CASE f > 1 /\ pieces[i][f - 1].frame = pieces[i][f].after
    <3>1. f - 1 \in 1 .. lens[i]
      BY <2>3, <2>8
    <3>2. file[w - u + (f - 1)] = pieces[i][f - 1]
      BY <1>3, <3>1
    <3> HIDE DEF u, w
    <3>3. q - 1 = w - u + (f - 1) /\ q > 1
      BY <2>3, <2>7, <2>8
    <3> QED
      BY <2>5, <2>8, <3>2, <3>3
  <2>9. CASE f = 1 /\ i > a /\ pieces[i - 1][lens[i - 1]].frame = pieces[i][f].after
    <3> DEFINE j == i - 1
               c == lens[j]
               v == off[j]
    <3>1. j \in a .. b - 1 /\ j \in 1 .. n /\ j \in 1 .. n + 1 /\ j + 1 = i /\ a <= j
      BY <2>2, <2>9
    <3> HIDE DEF j
    <3>2. c \in Nat \ {0} /\ v \in Nat /\ w = v + c /\ u <= v
      BY <1>2, <3>1
    <3>3. file[v - u + c] = pieces[j][c]
      <4>1. c \in 1 .. lens[j]
        BY <3>2
      <4> QED
        BY <1>3, <3>1, <4>1
    <3> HIDE DEF u, w, v, c
    <3>4. q - 1 = v - u + c /\ q > 1
      BY <2>7, <2>9, <3>2
    <3>5. pieces[j][c].frame = pieces[i][f].after
      BY <2>9 DEF j, c
    <3> QED
      BY <2>5, <3>3, <3>4, <3>5
  <2> QED
    BY <2>5, <2>6, <2>8, <2>9 DEF Follows
<1> QED
  BY <1>4, <1>5 DEF Decodes

-----------------------------------------------------------------------------
(* Packets a media job leaves: copied, remuxed or encoded.                 *)

(* Where a media job puts an episode, and who coded it.                    *)
PutAt(job, k) ==
  IF job.mode = "reuse" THEN VideoStart(Kept[k])
  ELSE Offset(NewLens, k) - Offset(NewLens, FirstOf(job))

CodedBy(job) == IF job.mode = "transcode" THEN "output" ELSE "source"

(* Episode k is in the file, frame by frame.                               *)
Carries(file, k, place, coded) ==
  /\ place \in Nat /\ place + NewLens[k] <= Len(file)
  /\ \A f \in 1 .. NewLens[k] :
       file[place + f].frame = <<Kept[k], f>> /\ file[place + f].coded = coded
  /\ coded = "output" => file[place + 1].after = Key
  /\ dataset.version = "v2.1" => place = 0 /\ Len(file) = NewLens[k]

Plays(job, file) ==
  /\ file \in Seq(Range(file)) /\ Decodes(file)
  /\ \A k \in FirstOf(job) .. EndOf(job) - 1 : Carries(file, k, PutAt(job, k), CodedBy(job))

(* A file that holds its episodes one after the other plays.               *)
LEMMA CompactPlays ==
  ASSUME EditBase,
         NEW job, TakesRun(job, KeptIn(VideoPaths), Len(Kept), dataset.version),
         job.mode # "reuse",
         NEW file, NEW pieces, Compact(file, FirstOf(job), EndOf(job), NewLens, pieces),
         Decodes(file),
         \A k \in FirstOf(job) .. EndOf(job) - 1 :
           /\ \A f \in 1 .. NewLens[k] :
                pieces[k][f].frame = <<Kept[k], f>> /\ pieces[k][f].coded = CodedBy(job)
           /\ CodedBy(job) = "output" => pieces[k][1].after = Key
  PROVE  Plays(job, file)
<1> DEFINE m == Len(Kept)
           a == FirstOf(job)
           b == EndOf(job)
           coded == CodedBy(job)
           off == [i \in 1 .. m + 1 |-> Offset(NewLens, i)]
           l == Offset(NewLens, b) - Offset(NewLens, a)
<1>1. m \in Nat /\ NewLens \in [1 .. m -> Nat \ {0}] /\ NewLens \in [1 .. m -> Nat]
  <2>1. m \in Nat /\ NewLens \in [1 .. m -> Nat \ {0}]
    BY KeptFactsHold DEF KeptFacts
  <2> QED
    BY <2>1
<1>2. /\ a \in 1 .. m /\ b \in a + 1 .. m + 1
      /\ dataset.version = "v2.1" => b = a + 1
  BY DEF TakesRun
<1>3. /\ \A i \in 1 .. m + 1 : off[i] = Offset(NewLens, i) /\ off[i] \in Nat
      /\ \A i \in 1 .. m : off[i + 1] = off[i] + NewLens[i]
      /\ \A i, j \in 1 .. m + 1 : i <= j => off[i] <= off[j]
  <2>1. /\ \A i \in 1 .. m + 1 : Offset(NewLens, i) \in Nat
        /\ \A i \in 1 .. m : Offset(NewLens, i + 1) = Offset(NewLens, i) + NewLens[i]
        /\ \A i, j \in 1 .. m + 1 : i <= j => Offset(NewLens, i) <= Offset(NewLens, j)
    <3> HIDE DEF m
    <3> QED
      BY <1>1, OffsetProperties
  <2> QED
    BY <1>1, <2>1
<1>4. /\ Compact(file, a, b, NewLens, pieces)
      /\ \A k \in a .. b - 1 :
           /\ \A f \in 1 .. NewLens[k] : pieces[k][f].frame = <<Kept[k], f>> /\ pieces[k][f].coded = coded
           /\ coded = "output" => pieces[k][1].after = Key
      /\ \A k : PutAt(job, k) = Offset(NewLens, k) - Offset(NewLens, a)
  BY DEF PutAt
<1> HIDE DEF m, a, b, coded, off
<1>5. a \in 1 .. m + 1 /\ b \in 1 .. m + 1 /\ a <= b
  BY <1>1, <1>2
<1>6. off[a] \in Nat /\ off[b] \in Nat /\ off[a] <= off[b] /\ l = off[b] - off[a]
  BY <1>3, <1>5
<1>7. l \in Nat
  BY <1>6
<1>8. file = [q \in 1 .. l |-> file[q]]
  BY <1>4 DEF Compact
<1> HIDE DEF l
<1>9. Len(file) = l /\ file \in Seq(Range(file))
  BY <1>7, <1>8, LenOfFunction
<1>10. ASSUME NEW k \in a .. b - 1
       PROVE  Carries(file, k, PutAt(job, k), coded)
  <2>1. k \in 1 .. m /\ k \in 1 .. m + 1 /\ k + 1 \in 1 .. m + 1 /\ a <= k /\ k + 1 <= b
    BY <1>1, <1>2
  <2> DEFINE u == off[a]
             w == off[k]
             z == off[k + 1]
             v == off[b]
             c == NewLens[k]
             place == PutAt(job, k)
  <2>2. /\ u \in Nat /\ w \in Nat /\ z \in Nat /\ v \in Nat /\ c \in Nat \ {0}
        /\ u <= w /\ z = w + c /\ z <= v /\ l = v - u /\ place = w - u
    <3>1. c \in Nat \ {0}
      BY <1>1, <2>1
    <3>2. place = Offset(NewLens, k) - Offset(NewLens, a)
      BY <1>4
    <3>3. Offset(NewLens, k) = off[k] /\ Offset(NewLens, a) = off[a]
      BY <1>3, <1>5, <2>1
    <3> HIDE DEF place
    <3> QED
      BY <1>3, <1>5, <1>6, <2>1, <3>1, <3>2, <3>3
  <2>3. \A f \in 1 .. c : file[place + f] = pieces[k][f]
    <3>1. \A f \in 1 .. NewLens[k] :
            file[Offset(NewLens, k) - Offset(NewLens, a) + f] = pieces[k][f]
      BY <1>4 DEF Compact
    <3>2. place = Offset(NewLens, k) - Offset(NewLens, a)
      BY <1>4
    <3> HIDE DEF place
    <3> QED
      BY <3>1, <3>2
  <2>4. dataset.version = "v2.1" => b = k + 1 /\ a = k
    BY <1>1, <1>2, <2>1
  <2>5. dataset.version = "v2.1" => z = v /\ u = w
    BY <2>4
  <2> HIDE DEF u, w, z, v, place
  <2>6. place \in Nat /\ place + c <= l /\ 1 \in 1 .. c
    BY <2>2
  <2>7. dataset.version = "v2.1" => place = 0 /\ l = c
    BY <2>2, <2>5
  <2>8. \A f \in 1 .. c : file[place + f].frame = <<Kept[k], f>> /\ file[place + f].coded = coded
    BY <1>4, <2>3
  <2>9. coded = "output" => file[place + 1].after = Key
    BY <1>4, <2>3, <2>6
  <2>10. Carries(file, k, place, coded)
    BY <1>9, <2>6, <2>7, <2>8, <2>9 DEF Carries
  <2> QED
    BY <2>10 DEF place
<1> QED
  BY <1>9, <1>10 DEF Plays, a, b, coded

(* What the packets of a recording are.                                    *)
LEMMA PacketIs ==
  ASSUME EditBase, NEW k \in 1 .. Len(Kept), NEW f \in 1 .. NewLens[k]
  PROVE  /\ NewPackets[k][f] = RecordedPacket(recording, Kept[k], f)
         /\ NewPackets[k][f].frame = <<Kept[k], f>>
         /\ NewPackets[k][f].coded = "source"
         /\ NewPackets[k][f].after = Predecessor(recording, Kept[k], f)
<1>1. NewPackets[k][f] = RecordedPacket(recording, Kept[k], f)
  BY DEF NewPackets
<1> QED
  BY <1>1 DEF RecordedPacket

(* What the mode of a job tells.                                           *)
LEMMA ModeIs ==
  ASSUME NEW job, PlannedMedia(job)
  PROVE  /\ job.mode \in {"reuse", "remux", "transcode"}
         /\ job.mode = "reuse" => ~Partial(job)
         /\ job.mode = "remux" =>
              \/ recording.codec = "mjpeg"
              \/ RemuxSafe(dataset.video[job.source], job.ranges)
<1> DEFINE file == dataset.video[job.source]
           made == Transform(file, job.ranges, Partial(job))
<1>1. /\ job.transform = made
      /\ job.mode = IF job.transform # NotGiven THEN "transcode"
                    ELSE IF Partial(job) THEN "remux" ELSE "reuse"
  BY DEF PlannedMedia
<1>2. job.mode \in {"reuse", "remux", "transcode"} /\ (job.mode = "reuse" => ~Partial(job))
  BY <1>1
<1>3. ASSUME job.mode = "remux"
      PROVE  recording.codec = "mjpeg" \/ RemuxSafe(file, job.ranges)
  <2>1. made = NotGiven /\ Partial(job)
    BY <1>1, <1>3
  <2>2. Fallback # NotGiven
    BY EditorAssumption
  <2>3. /\ edit.video = NotGiven
        /\ ~(/\ Partial(job) /\ recording.codec # "mjpeg"
             /\ ~(recording.codec = "h264" /\ RemuxSafe(file, job.ranges)))
    BY <2>1, <2>2 DEF Transform
  <2> QED
    BY <2>1, <2>3
<1> QED
  BY <1>2, <1>3

(* A file of the source can be decoded, whole.                             *)
LEMMA SourceDecodes ==
  ASSUME EditBase, NEW job, NEW at, NEW s, NEW e,
         Holds(job, Kept, dataset.video, VideoPaths, at, recording.lens,
               RecordedPackets(recording), Len(recording.lens), s, e)
  PROVE  Decodes(dataset.video[job.source])
<1> DEFINE n == Len(recording.lens)
           lens == recording.lens
           pieces == RecordedPackets(recording)
           file == dataset.video[job.source]
<1>1. /\ n \in Nat \ {0} /\ lens \in [1 .. n -> Nat \ {0}] /\ DOMAIN lens = 1 .. n
      /\ Count = n /\ recording \in Recordings /\ dataset = Source(recording)
  BY KeptFactsHold DEF KeptFacts, EditBase
<1>2. /\ s \in 1 .. n /\ e \in s + 1 .. n + 1
      /\ \A j \in 1 .. n : VideoPaths[j] = job.source <=> s <= j /\ j < e
      /\ Compact(file, s, e, lens, pieces)
  BY DEF Holds
<1>3. \A i \in 1 .. n : \A f \in 1 .. lens[i] :
        /\ pieces[i][f].frame = <<i, f>> /\ pieces[i][f].after = Predecessor(recording, i, f)
  BY <1>1 DEF RecordedPackets, RecordedPacket
<1>4. \A i \in 1 .. n : VideoPaths[i] = VideoFile(Source(recording), i)
  BY <1>1 DEF VideoPaths
<1>5. \A i \in 1 .. n : \A f \in 1 .. lens[i] :
        \/ Predecessor(recording, i, f) = Key
        \/ f > 1 /\ Predecessor(recording, i, f) = <<i, f - 1>>
        \/ /\ f = 1 /\ i > 1 /\ VideoPaths[i] = VideoPaths[i - 1]
           /\ Predecessor(recording, i, f) = <<i - 1, lens[i - 1]>>
  <2> TAKE i \in 1 .. n
  <2> TAKE f \in 1 .. lens[i]
  <2>1. \/ Predecessor(recording, i, f) = Key
        \/ f > 1 /\ Predecessor(recording, i, f) = <<i, f - 1>>
        \/ /\ f = 1 /\ i > 1
           /\ VideoFile(Source(recording), i) = VideoFile(Source(recording), i - 1)
           /\ Predecessor(recording, i, f) = <<i - 1, lens[i - 1]>>
    BY <1>1, PredecessorIs
  <2>2. i > 1 => i - 1 \in 1 .. n
    BY <1>1
  <2> QED
    BY <1>4, <2>1, <2>2
<1> HIDE DEF n, lens, pieces, file
<1>6. ASSUME NEW i \in s .. e - 1, NEW f \in 1 .. lens[i]
      PROVE  Follows(pieces, lens, s, i, f)
  <2>1. i \in 1 .. n /\ i \in Nat /\ s <= i /\ i < e
    BY <1>1, <1>2
  <2>2. lens[i] \in Nat \ {0}
    BY <1>1, <2>1
  <2>3. pieces[i][f].after = Predecessor(recording, i, f)
    BY <1>3, <2>1
  <2>4. CASE Predecessor(recording, i, f) = Key
    BY <2>3, <2>4 DEF Follows
  <2>5. CASE f > 1 /\ Predecessor(recording, i, f) = <<i, f - 1>>
    <3>1. f - 1 \in 1 .. lens[i]
      BY <2>2, <2>5
    <3>2. pieces[i][f - 1].frame = <<i, f - 1>>
      BY <1>3, <2>1, <3>1
    <3> QED
      BY <2>3, <2>5, <3>2 DEF Follows
  <2>6. CASE /\ f = 1 /\ i > 1 /\ VideoPaths[i] = VideoPaths[i - 1]
             /\ Predecessor(recording, i, f) = <<i - 1, lens[i - 1]>>
    <3>1. i - 1 \in 1 .. n
      BY <1>1, <2>1, <2>6
    <3>2. VideoPaths[i - 1] = job.source
      BY <1>2, <2>1, <2>6
    <3>3. s <= i - 1
      BY <1>2, <3>1, <3>2
    <3>4. i > s
      BY <1>2, <2>1, <3>3
    <3>5. lens[i - 1] \in 1 .. lens[i - 1]
      <4> DEFINE j == i - 1
      <4>1. j \in 1 .. n
        BY <3>1
      <4> HIDE DEF j
      <4>2. lens[j] \in Nat \ {0}
        BY <1>1, <4>1
      <4>3. lens[j] \in 1 .. lens[j]
        BY <4>2
      <4> QED
        BY <4>3 DEF j
    <3>6. pieces[i - 1][lens[i - 1]].frame = <<i - 1, lens[i - 1]>>
      BY <1>3, <3>1, <3>5
    <3> QED
      BY <2>3, <2>6, <3>4, <3>6 DEF Follows
  <2> QED
    BY <1>5, <2>1, <2>4, <2>5, <2>6
<1>7. n \in Nat /\ s \in 1 .. n + 1 /\ e \in 1 .. n + 1
  BY <1>1, <1>2
<1>8. Decodes(file)
  BY <1>1, <1>2, <1>6, <1>7, CompactDecodes
<1> QED
  BY <1>8 DEF file

(* The frames of a job of one episode.                                     *)
LEMMA OneEpisode ==
  ASSUME EditBase, NEW a \in 1 .. Len(Kept), NEW job, job.episodes = Span(a, a + 1)
  PROVE  SumFunction([x \in DOMAIN job.episodes |-> NewLens[job.episodes[x]]]) = NewLens[a]
<1> DEFINE part == [x \in DOMAIN job.episodes |-> NewLens[job.episodes[x]]]
           c == NewLens[a]
<1>1. c \in Nat
  <2>1. NewLens \in [1 .. Len(Kept) -> Nat \ {0}]
    BY KeptFactsHold DEF KeptFacts
  <2> QED
    BY <2>1
<1>2. DOMAIN job.episodes = 1 .. 1 /\ job.episodes[1] = a
  <2>1. a + 1 - a = 1 /\ a + 1 - 1 = a /\ a \in Nat
    OBVIOUS
  <2> QED
    BY <2>1 DEF Span
<1>3. part = [x \in 1 .. 1 |-> c]
  <2>1. \A x \in 1 .. 1 : x = 1
    OBVIOUS
  <2>2. \A x \in 1 .. 1 : NewLens[job.episodes[x]] = c
    BY <1>2, <2>1
  <2> HIDE DEF c
  <2> QED
    BY <1>2, <2>2
<1> HIDE DEF part, c
<1>4. part \in [1 .. 1 -> Nat] /\ DOMAIN part = 1 .. 1 /\ part[1] = c
  BY <1>1, <1>3
<1>5. Offset(part, 1 + 1) = Offset(part, 1) + part[1] /\ Offset(part, 1) = 0
  <2>1. 1 \in Nat /\ 1 \in 1 .. 1
    OBVIOUS
  <2>2. Offset(part, 1) = 0
    BY <1>4, <2>1, PlacesAdd DEF Offset, PlaceOf
  <2>3. Offset(part, 1 + 1) = Offset(part, 1) + part[1]
    BY <1>4, <2>1, OffsetProperties
  <2> QED
    BY <2>2, <2>3
<1>6. SumFunction(part) = Offset(part, 1 + 1)
  <2>1. 1 + 1 - 1 = 1
    OBVIOUS
  <2> QED
    BY <1>4, <2>1 DEF Offset, SumFunction
<1> QED
  BY <1>1, <1>4, <1>5, <1>6 DEF part, c

(* A file that is kept has every episode where its metadata says.          *)
LEMMA ReusePlays ==
  ASSUME EditBase,
         NEW lo, NEW hi, PacketsStored(dataset, Len(recording.lens), recording.lens,
                                       RecordedPackets(recording), lo, hi),
         NEW job, TakesRun(job, KeptIn(VideoPaths), Len(Kept), dataset.version),
         PlannedMedia(job), job.mode = "reuse"
  PROVE  Plays(job, dataset.video[job.source])
<1> DEFINE n == Len(recording.lens)
           m == Len(Kept)
           lens == recording.lens
           pieces == RecordedPackets(recording)
           at == [i \in 1 .. n |-> VideoStart(i)]
           file == dataset.video[job.source]
           a == FirstOf(job)
           b == EndOf(job)
<1>1. /\ n \in Nat \ {0} /\ m \in Nat /\ lens \in [1 .. n -> Nat \ {0}]
      /\ Rising(Kept, m, n) /\ NewLens \in [1 .. m -> Nat \ {0}]
      /\ \A k \in 1 .. m : Kept[k] \in 1 .. n /\ NewLens[k] = lens[Kept[k]]
  BY KeptFactsHold DEF KeptFacts
<1>2. /\ a \in 1 .. m /\ b \in a + 1 .. m + 1 /\ job.episodes = Span(a, b)
      /\ dataset.version = "v2.1" => b = a + 1
  BY DEF TakesRun
<1>3. PICK s, e : Holds(job, Kept, dataset.video, VideoPaths, at, lens, pieces, n, s, e)
  BY PacketsHeld
<1>4. Decodes(file)
  BY <1>3, SourceDecodes
<1>5. \A i \in 1 .. n : at[i] = VideoStart(i)
  OBVIOUS
<1>6. \A i \in 1 .. n : \A f \in 1 .. lens[i] :
        pieces[i][f].frame = <<i, f>> /\ pieces[i][f].coded = "source"
  <2>1. DOMAIN lens = 1 .. n
    BY <1>1
  <2> QED
    BY <2>1 DEF RecordedPackets, RecordedPacket
<1>7. ~Partial(job)
  BY ModeIs
<1>8. dataset.version = "v2.1" => Len(file) = NewLens[a]
  <2> SUFFICES ASSUME dataset.version = "v2.1" PROVE Len(file) = NewLens[a]
    OBVIOUS
  <2>1. a \in 1 .. Len(Kept) /\ job.episodes = Span(a, a + 1)
    BY <1>2
  <2> HIDE DEF a
  <2>2. SumFunction([x \in DOMAIN job.episodes |-> NewLens[job.episodes[x]]]) = NewLens[a]
    BY <2>1, OneEpisode
  <2> QED
    BY <1>7, <2>2 DEF Partial
<1>9. \A k \in a .. b - 1 : PutAt(job, k) = VideoStart(Kept[k])
  BY DEF PutAt
<1>10. CodedBy(job) = "source"
  BY DEF CodedBy
<1> HIDE DEF n, m, lens, pieces, at, a, b
<1>11. Ranges(job, Kept, file, at, lens, pieces)
  BY <1>1, <1>2, <1>3, RangesInFile DEF a, b
<1>12. /\ file \in Seq(Range(file))
       /\ \A k \in a .. b - 1 :
            /\ at[Kept[k]] \in Nat /\ at[Kept[k]] + lens[Kept[k]] <= Len(file)
            /\ \A f \in 1 .. lens[Kept[k]] : file[at[Kept[k]] + f] = pieces[Kept[k]][f]
  BY <1>11 DEF Ranges, a, b
<1> HIDE DEF file
<1>13. ASSUME NEW k \in a .. b - 1
       PROVE  Carries(file, k, PutAt(job, k), CodedBy(job))
  <2> DEFINE i == Kept[k]
             place == PutAt(job, k)
             c == NewLens[k]
  <2>1. k \in 1 .. m
    BY <1>1, <1>2
  <2>2. i \in 1 .. n /\ c = lens[i] /\ place = at[i]
    BY <1>1, <1>5, <1>9, <2>1
  <2>3. /\ at[i] \in Nat /\ at[i] + lens[i] <= Len(file)
        /\ \A f \in 1 .. lens[i] : file[at[i] + f] = pieces[i][f]
    BY <1>12
  <2>4. dataset.version = "v2.1" => place = 0 /\ Len(file) = c
    <3>1. dataset.version = "v2.1" => k = a
      BY <1>1, <1>2, <2>1
    <3>2. dataset.version = "v2.1" => VideoStart(Kept[k]) = 0
      BY DEF VideoStart
    <3> QED
      BY <1>8, <1>9, <3>1, <3>2
  <2>5. CodedBy(job) # "output"
    BY <1>10
  <2> HIDE DEF i, place, c
  <2>6. place \in Nat /\ place + c <= Len(file)
    BY <2>2, <2>3
  <2>7. \A f \in 1 .. c : file[place + f].frame = <<i, f>> /\ file[place + f].coded = CodedBy(job)
    BY <1>6, <1>10, <2>2, <2>3
  <2> QED
    BY <2>4, <2>5, <2>6, <2>7 DEF Carries, i, place, c
<1> QED
  BY <1>4, <1>12, <1>13 DEF Plays, a, b, file

(* A file that is cut without decoding begins its pieces where the decoder *)
(* can begin.                                                              *)
LEMMA RemuxPlays ==
  ASSUME EditBase,
         NEW lo, NEW hi, PacketsStored(dataset, Len(recording.lens), recording.lens,
                                       RecordedPackets(recording), lo, hi),
         NEW job, TakesRun(job, KeptIn(VideoPaths), Len(Kept), dataset.version),
         PlannedMedia(job), job.mode = "remux"
  PROVE  Plays(job, Selected(job))
<1> DEFINE m == Len(Kept)
           n == Len(recording.lens)
           a == FirstOf(job)
           b == EndOf(job)
           G == b - a
           file == dataset.video[job.source]
           from == [x \in 1 .. G |-> VideoStart(Kept[a + x - 1])]
           len == [x \in 1 .. G |-> NewLens[a + x - 1]]
<1>1. /\ m \in Nat /\ NewLens \in [1 .. m -> Nat \ {0}] /\ recording \in Recordings
      /\ n = Len(recording.lens)
      /\ \A k \in 1 .. m : Kept[k] \in 1 .. n /\ NewLens[k] = recording.lens[Kept[k]]
  BY KeptFactsHold DEF KeptFacts, EditBase
<1>2. a \in 1 .. m /\ b \in a + 1 .. m + 1
  BY DEF TakesRun
<1>3. Compact(Selected(job), a, b, NewLens, NewPackets)
  BY SelectedIs
<1>4. recording.codec = "mjpeg" \/ RemuxSafe(file, job.ranges)
  BY ModeIs
<1>5. /\ \A x \in 1 .. G : job.ranges[x] = <<from[x], from[x] + len[x]>>
      /\ \A x \in 1 .. G : \A f \in 1 .. len[x] :
           file[from[x] + f] = RecordedPacket(recording, Kept[a + x - 1], f)
      /\ DOMAIN job.ranges = 1 .. G
  BY MediaRanges DEF RangesOf
<1> HIDE DEF m, n, a, b, file
<1>6. \A k \in a .. b - 1 : k \in 1 .. m
  BY <1>1, <1>2
<1>7. \A k \in a .. b - 1 : \A f \in 1 .. NewLens[k] :
        /\ NewPackets[k][f].frame = <<Kept[k], f>> /\ NewPackets[k][f].coded = "source"
        /\ NewPackets[k][f].after = Predecessor(recording, Kept[k], f)
  BY <1>6, PacketIs DEF m
<1>8. ASSUME NEW k \in a .. b - 1, RemuxSafe(file, job.ranges)
      PROVE  NewPackets[k][1].after = Key
  <2> DEFINE x == k - a + 1
  <2>1. x \in 1 .. G /\ a + x - 1 = k
    BY <1>1, <1>2
  <2>2. k \in 1 .. m
    BY <1>6
  <2> HIDE DEF x
  <2>3. len[x] = NewLens[k] /\ NewLens[k] \in Nat \ {0}
    BY <1>1, <2>1, <2>2
  <2> HIDE DEF G, len, from
  <2>4. 1 \in 1 .. len[x] /\ 1 \in 1 .. NewLens[k]
    BY <2>3
  <2>5. file[from[x] + 1] = RecordedPacket(recording, Kept[k], 1)
    BY <1>5, <2>1, <2>4
  <2>6. file[job.ranges[x][1] + 1].after = Key /\ job.ranges[x][1] = from[x]
    BY <1>5, <1>8, <2>1 DEF RemuxSafe
  <2>7. NewPackets[k][1] = RecordedPacket(recording, Kept[k], 1)
    BY <2>2, <2>4, PacketIs DEF m
  <2> QED
    BY <2>5, <2>6, <2>7
<1>9. ASSUME NEW k \in a .. b - 1, NEW f \in 1 .. NewLens[k]
      PROVE  Follows(NewPackets, NewLens, a, k, f)
  <2> DEFINE i == Kept[k]
  <2>1. k \in 1 .. m /\ i \in 1 .. n /\ NewLens[k] = recording.lens[i] /\ NewLens[k] \in Nat \ {0}
    BY <1>1, <1>6
  <2>2. i \in 1 .. Len(recording.lens) /\ f \in 1 .. recording.lens[i]
    BY <1>1, <2>1
  <2>3. NewPackets[k][f].after = Predecessor(recording, i, f)
    BY <1>7
  <2> HIDE DEF i
  <2>4. \/ Predecessor(recording, i, f) = Key
        \/ /\ recording.codec # "mjpeg"
           /\ (f > 1 /\ Predecessor(recording, i, f) = <<i, f - 1>>) \/ f = 1
    BY <1>1, <2>2, PredecessorIs
  <2>5. CASE Predecessor(recording, i, f) = Key
    BY <2>3, <2>5 DEF Follows
  <2>6. CASE recording.codec # "mjpeg" /\ f > 1 /\ Predecessor(recording, i, f) = <<i, f - 1>>
    <3>1. f - 1 \in 1 .. NewLens[k]
      BY <2>1, <2>6
    <3>2. NewPackets[k][f - 1].frame = <<i, f - 1>>
      BY <1>7, <3>1 DEF i
    <3> QED
      BY <2>3, <2>6, <3>2 DEF Follows
  <2>7. CASE recording.codec # "mjpeg" /\ f = 1
    <3>1. NewPackets[k][1].after = Key
      BY <1>4, <1>8, <2>7
    <3> QED
      BY <2>7, <3>1 DEF Follows
  <2> QED
    BY <2>4, <2>5, <2>6, <2>7
<1>10. Decodes(Selected(job))
  <2>1. a \in 1 .. m + 1 /\ b \in 1 .. m + 1
    BY <1>1, <1>2
  <2> QED
    BY <1>1, <1>3, <1>9, <2>1, CompactDecodes
<1>11. CodedBy(job) = "source" /\ job.mode # "reuse"
  BY DEF CodedBy
<1> QED
  BY <1>3, <1>7, <1>10, <1>11, CompactPlays DEF a, b

(* A file that is encoded begins every episode anew.                       *)
LEMMA EncodedPlays ==
  ASSUME EditBase,
         NEW lo, NEW hi, PacketsStored(dataset, Len(recording.lens), recording.lens,
                                       RecordedPackets(recording), lo, hi),
         NEW job, TakesRun(job, KeptIn(VideoPaths), Len(Kept), dataset.version),
         PlannedMedia(job), job.mode = "transcode"
  PROVE  Plays(job, Encoded(job))
<1> DEFINE m == Len(Kept)
           a == FirstOf(job)
           b == EndOf(job)
           G == b - a
           l == Offset(NewLens, b) - Offset(NewLens, a)
           frames == Selected(job)
           file == Encoded(job)
           pieces == [k \in a .. b - 1 |-> [f \in 1 .. NewLens[k] |->
                       file[Offset(NewLens, k) - Offset(NewLens, a) + f]]]
           part == [x \in DOMAIN job.episodes |-> NewLens[job.episodes[x]]]
<1>1. m \in Nat /\ NewLens \in [1 .. m -> Nat \ {0}] /\ NewLens \in [1 .. m -> Nat]
  <2>1. m \in Nat /\ NewLens \in [1 .. m -> Nat \ {0}]
    BY KeptFactsHold DEF KeptFacts
  <2> QED
    BY <2>1
<1>2. a \in 1 .. m /\ b \in a + 1 .. m + 1 /\ job.episodes = Span(a, b)
  BY DEF TakesRun
<1>3. Compact(frames, a, b, NewLens, NewPackets)
  BY SelectedIs
<1>4. /\ frames = [q \in 1 .. l |-> frames[q]]
      /\ \A k \in a .. b - 1 : \A f \in 1 .. NewLens[k] :
           frames[Offset(NewLens, k) - Offset(NewLens, a) + f] = NewPackets[k][f]
  BY <1>3 DEF Compact
<1>5. DOMAIN frames = 1 .. l
  <2> HIDE DEF frames, l
  <2> QED
    BY <1>4
<1>6. file = [q \in 1 .. l |->
                [frame |-> frames[q].frame, coded |-> "output",
                 after |-> IF q = 1 \/ q \in Forced(job) \/ job.transform.codec = "mjpeg"
                           THEN Key ELSE frames[q - 1].frame]]
  <2> HIDE DEF l
  <2> QED
    BY <1>5 DEF Encoded
<1>7. \A q \in 1 .. l : /\ file[q].frame = frames[q].frame /\ file[q].coded = "output"
                        /\ \/ file[q].after = Key
                           \/ q # 1 /\ file[q].after = frames[q - 1].frame
                        /\ q \in Forced(job) => file[q].after = Key
  <2> HIDE DEF l, frames
  <2> QED
    BY <1>6
<1>8. DOMAIN file = 1 .. l /\ file = [q \in 1 .. l |-> file[q]]
  <2> HIDE DEF l, frames
  <2> QED
    BY <1>6
<1> HIDE DEF file, frames
<1>9. l \in Nat
  <2> DEFINE u == Offset(NewLens, a)
             w == Offset(NewLens, b)
  <2>1. a \in 1 .. m + 1 /\ b \in 1 .. m + 1 /\ a <= b
    BY <1>1, <1>2
  <2>2. u \in Nat /\ w \in Nat /\ u <= w
    <3> HIDE DEF a, b, m
    <3> QED
      BY <1>1, <2>1, OffsetProperties
  <2> HIDE DEF u, w
  <2>3. w - u \in Nat
    BY <2>2
  <2> QED
    BY <2>3 DEF u, w
<1>10. Decodes(file)
  <2> HIDE DEF l
  <2>1. ASSUME NEW q \in 1 .. l
        PROVE  file[q].after = Key \/ (q > 1 /\ file[q - 1].frame = file[q].after)
    <3>1. CASE file[q].after = Key
      BY <3>1
    <3>2. CASE q # 1 /\ file[q].after = frames[q - 1].frame
      <4>1. q > 1 /\ q - 1 \in 1 .. l
        BY <1>9, <3>2
      <4> QED
        BY <1>7, <3>2, <4>1
    <3> QED
      BY <1>7, <3>1, <3>2
  <2> QED
    BY <1>8, <2>1 DEF Decodes
<1>11. ASSUME NEW k \in a .. b - 1, NEW f \in 1 .. NewLens[k]
       PROVE  LET q == Offset(NewLens, k) - Offset(NewLens, a) + f
              IN  /\ q \in 1 .. l /\ file[q].frame = <<Kept[k], f>> /\ file[q].coded = "output"
                  /\ f = 1 => q \in Forced(job)
  <2> DEFINE x == k - a + 1
             u == Offset(NewLens, a)
             w == Offset(NewLens, k)
             z == Offset(NewLens, k + 1)
             v == Offset(NewLens, b)
             c == NewLens[k]
             q == w - u + f
  <2>1. /\ k \in 1 .. m /\ k \in 1 .. m + 1 /\ k + 1 \in 1 .. m + 1 /\ k + 1 <= b /\ a <= k
        /\ a \in 1 .. m + 1 /\ b \in 1 .. m + 1
    BY <1>1, <1>2
  <2>2. /\ u \in Nat /\ w \in Nat /\ z \in Nat /\ v \in Nat /\ u <= w /\ z <= v /\ z = w + c
        /\ c \in Nat
    <3> HIDE DEF a, b, m
    <3>1. c \in Nat
      BY <1>1, <2>1
    <3> QED
      BY <1>1, <2>1, <3>1, OffsetProperties
  <2>3. q \in 1 .. v - u
    <3>1. f \in Nat /\ f >= 1 /\ f <= c
      BY <2>2
    <3> HIDE DEF u, w, z, v, c
    <3> QED
      BY <2>2, <3>1
  <2>4. frames[q] = NewPackets[k][f]
    BY <1>4
  <2>5. NewPackets[k][f].frame = <<Kept[k], f>>
    BY <2>1, PacketIs
  <2>6. f = 1 => q \in Forced(job)
    <3>1. /\ G \in Nat /\ x \in 1 .. G /\ x \in 1 .. G + 1 /\ a + x - 1 = k /\ a + G <= m + 1
      BY <1>1, <1>2
    <3>2. /\ DOMAIN job.episodes = 1 .. G
          /\ \A y \in 1 .. G : job.episodes[y] = a + y - 1
      BY <1>2 DEF Span
    <3>3. /\ \A y \in 1 .. G : a + y - 1 \in 1 .. m
      BY <1>1, <1>2
    <3> HIDE DEF G, x
    <3>4. part = [y \in 1 .. G |-> NewLens[a + y - 1]]
      BY <3>2
    <3> HIDE DEF part
    <3>5. part \in [1 .. G -> Nat] /\ \A y \in 1 .. G : part[y] = NewLens[a + y - 1]
      BY <1>1, <3>3, <3>4
    <3>6. Shifts(NewLens, a, part, G)
      <4> HIDE DEF a, m
      <4> QED
        BY <1>1, <2>1, <3>1, <3>5, PartShifts
    <3>7. Offset(part, x) \in Nat /\ w = u + Offset(part, x)
      <4>1. /\ Offset(part, x) \in Nat
            /\ Offset(NewLens, a + x - 1) = Offset(NewLens, a) + Offset(part, x)
        BY <3>1, <3>6 DEF Shifts
      <4> QED
        BY <3>1, <4>1
    <3>8. x \in DOMAIN part
      BY <3>1, <3>5
    <3>9. Offset(part, x) + 1 \in Forced(job)
      BY <3>8 DEF Forced, part
    <3> HIDE DEF u, w
    <3>10. w - u + 1 = Offset(part, x) + 1
      BY <2>2, <3>7
    <3> QED
      BY <3>9, <3>10
  <2> HIDE DEF q
  <2>7. q \in 1 .. l /\ file[q].frame = <<Kept[k], f>> /\ file[q].coded = "output"
    BY <1>7, <2>3, <2>4, <2>5
  <2> QED
    BY <2>6, <2>7 DEF q
<1> HIDE DEF a, b, l
<1>12. \A k \in a .. b - 1 : \A f \in 1 .. NewLens[k] :
         pieces[k][f] = file[Offset(NewLens, k) - Offset(NewLens, a) + f]
  OBVIOUS
<1> HIDE DEF pieces
<1>13. Compact(file, a, b, NewLens, pieces)
  BY <1>8, <1>12 DEF Compact, l
<1>14. CodedBy(job) = "output" /\ job.mode # "reuse"
  BY DEF CodedBy
<1>15. ASSUME NEW k \in a .. b - 1
       PROVE  /\ \A f \in 1 .. NewLens[k] :
                   pieces[k][f].frame = <<Kept[k], f>> /\ pieces[k][f].coded = CodedBy(job)
              /\ pieces[k][1].after = Key
  <2>1. 1 \in 1 .. NewLens[k]
    <3>1. k \in 1 .. m
      BY <1>1, <1>2
    <3>2. NewLens[k] \in Nat \ {0}
      BY <1>1, <3>1
    <3> QED
      BY <3>2
  <2>2. \A f \in 1 .. NewLens[k] :
          pieces[k][f].frame = <<Kept[k], f>> /\ pieces[k][f].coded = CodedBy(job)
    BY <1>11, <1>12, <1>14
  <2> DEFINE q == Offset(NewLens, k) - Offset(NewLens, a) + 1
  <2>3. q \in 1 .. l /\ q \in Forced(job) /\ pieces[k][1] = file[q]
    BY <1>11, <1>12, <2>1
  <2> HIDE DEF q
  <2>4. pieces[k][1].after = Key
    BY <1>7, <2>3
  <2> QED
    BY <2>2, <2>4
<1> QED
  BY <1>10, <1>13, <1>14, <1>15, CompactPlays DEF a, b, file

-----------------------------------------------------------------------------
(* The invariant of the videos of an edit.                                 *)

(* What a media job leaves: a copy, pieces, or a new encoding.             *)
Filmed(job) ==
  IF job.mode = "reuse" THEN dataset.video[job.source]
  ELSE IF job.mode = "remux" THEN Selected(job) ELSE Encoded(job)

(* The file of a media job is written and plays what the job is for.       *)
VideoHeld(job) ==
  job.output \in DOMAIN staged.video /\ Plays(job, staged.video[job.output])

(* The media jobs of the manifest divide the retained episodes.            *)
VideoDivided == SharedOut(work.media, KeptIn(VideoPaths), Len(Kept), dataset.version)

(* What the media jobs of the manifest are, and what each of them makes.   *)
LEMMA MediaPlan ==
  ASSUME EditBase, "camera" \notin edit.remove, work = EditManifest
  PROVE  /\ VideoDivided
         /\ \A x \in DOMAIN work.media : /\ PlannedMedia(work.media[x])
                                         /\ Plays(work.media[x], Filmed(work.media[x]))
<1> DEFINE n == Len(recording.lens)
<1>1. recording \in Recordings /\ dataset = Source(recording)
  BY DEF EditBase
<1>2. PICK lo, hi :
        PacketsStored(dataset, n, recording.lens, RecordedPackets(recording), lo, hi)
  BY <1>1, SourceIs
<1>3. work.media = MediaJobs
  BY DEF EditManifest
<1>4. /\ SharedOut(MediaJobs, KeptIn(VideoPaths), Len(Kept), dataset.version)
      /\ \A x \in DOMAIN MediaJobs : PlannedMedia(MediaJobs[x])
  BY <1>2, MediaJobsAreShared
<1>5. ASSUME NEW x \in DOMAIN work.media
      PROVE  Plays(work.media[x], Filmed(work.media[x]))
  <2> DEFINE job == work.media[x]
  <2>1. TakesRun(job, KeptIn(VideoPaths), Len(Kept), dataset.version) /\ PlannedMedia(job)
    BY <1>3, <1>4 DEF SharedOut
  <2> HIDE DEF job
  <2>2. job.mode \in {"reuse", "remux", "transcode"}
    BY <2>1, ModeIs
  <2>3. ASSUME job.mode = "reuse" PROVE Plays(job, Filmed(job))
    <3>1. Plays(job, dataset.video[job.source])
      BY <1>2, <2>1, <2>3, ReusePlays
    <3> QED
      BY <2>3, <3>1 DEF Filmed
  <2>4. ASSUME job.mode = "remux" PROVE Plays(job, Filmed(job))
    <3>1. Plays(job, Selected(job))
      BY <1>2, <2>1, <2>4, RemuxPlays
    <3> QED
      BY <2>4, <3>1 DEF Filmed
  <2>5. ASSUME job.mode = "transcode" PROVE Plays(job, Filmed(job))
    <3>1. Plays(job, Encoded(job))
      BY <1>2, <2>1, <2>5, EncodedPlays
    <3> QED
      BY <2>5, <3>1 DEF Filmed
  <2>6. Plays(job, Filmed(job))
    BY <2>2, <2>3, <2>4, <2>5
  <2> QED
    BY <2>6 DEF job
<1> QED
  BY <1>3, <1>4, <1>5 DEF VideoDivided

(* Jobs whose file is there.                                               *)
Filming(x) ==
  \/ work.media[x].mode = "reuse" \/ editing = "done"
  \/ editing = "media" /\ x \in finished /\ ~faulted

(* Every staged video can be decoded, and holds its episodes where the     *)
(* metadata will say once its job is done.                                 *)
VideoInv ==
  "camera" \notin edit.remove =>
    /\ editing \in {"request", "refused", "reuse", "data"} => running = {}
    /\ editing = "media" => running \subseteq Changed
    /\ editing \in {"data", "media", "done"} =>
         /\ \A p \in DOMAIN staged.video : Decodes(staged.video[p])
         /\ \A x \in DOMAIN work.media : Filming(x) => VideoHeld(work.media[x])

(* The invariant holds at the start.                                       *)
LEMMA VideoStartHolds == EditorInit => VideoInv
  BY DEF EditorInit, VideoInv

(* What a job is to make does not change while the edit works.             *)
LEMMA PlaysStays ==
  ASSUME UNCHANGED <<recording, dataset, edit, machine>>
  PROVE  \A job, file : Plays(job, file)' = Plays(job, file)
<1>1. NewLens' = NewLens /\ Kept' = Kept
  BY RequestStays
<1>2. \A k : VideoStart(k)' = VideoStart(k)
  BY DEF VideoStart
<1>3. \A job, k : PutAt(job, k)' = PutAt(job, k)
  BY <1>1, <1>2 DEF PutAt
<1>4. \A file, k, place, coded : Carries(file, k, place, coded)' = Carries(file, k, place, coded)
  BY <1>1 DEF Carries
<1> QED
  BY <1>3, <1>4 DEF Plays

(* Files that are left alone.                                              *)
LEMMA FilmStays ==
  ASSUME UNCHANGED <<recording, dataset, edit, machine, work>>,
         NEW x, VideoHeld(work.media[x]),
         LET p == work.media[x].output
         IN  p \in DOMAIN staged'.video /\ staged'.video[p] = staged.video[p]
  PROVE  VideoHeld(work.media[x])'
<1>1. work' = work /\ \A job, file : Plays(job, file)' = Plays(job, file)
  BY PlaysStays
<1> QED
  BY <1>1 DEF VideoHeld

(* The files that are kept are there first.                                *)
LEMMA CloningFilms ==
  ASSUME ExactInv, VideoInv, CloneFiles
  PROVE  VideoInv'
<1> SUFFICES ASSUME "camera" \notin edit'.remove PROVE VideoInv'
  BY DEF VideoInv
<1>1. /\ editing = "reuse" /\ editing' = "data" /\ running = {} /\ running' = {}
      /\ UNCHANGED <<recording, dataset, edit, machine, work>>
      /\ "camera" \notin edit.remove /\ EditBase /\ work = EditManifest
  BY DEF ExactInv, VideoInv, CloneFiles
<1> DEFINE chosen == {y \in DOMAIN work.media : work.media[y].mode = "reuse"}
<1>2. staged'.video = Cloned(work.media, chosen, dataset.video)
  BY DEF CloneFiles
<1>3. /\ VideoDivided
      /\ \A x \in chosen : Plays(work.media[x], dataset.video[work.media[x].source])
  BY <1>1, MediaPlan DEF Filmed
<1>4. ASSUME NEW x \in chosen
      PROVE  /\ work.media[x].output \in DOMAIN staged'.video
             /\ staged'.video[work.media[x].output] = dataset.video[work.media[x].source]
  <2> DEFINE p == work.media[x].output
             z == CHOOSE y \in chosen : work.media[y].output = p
  <2>1. \A y \in chosen : work.media[y].output = p => y = x
    BY <1>3 DEF VideoDivided, SharedOut
  <2>2. z = x
    <3> HIDE DEF chosen
    <3> QED
      BY <2>1
  <2>3. p \in {work.media[y].output : y \in chosen}
    OBVIOUS
  <2>4. Cloned(work.media, chosen, dataset.video) =
          [q \in {work.media[y].output : y \in chosen} |->
             dataset.video[work.media[CHOOSE y \in chosen : work.media[y].output = q].source]]
    BY Zenon DEF Cloned
  <2>5. p \in DOMAIN staged'.video /\ staged'.video[p] = dataset.video[work.media[z].source]
    <3> HIDE DEF p, chosen
    <3> QED
      BY <1>2, <2>3, <2>4 DEF z
  <2> HIDE DEF z
  <2> QED
    BY <2>2, <2>5
<1>5. ASSUME NEW p \in DOMAIN staged'.video
      PROVE  Decodes(staged'.video[p])
  <2>1. DOMAIN staged'.video = {work.media[y].output : y \in chosen}
    <3> HIDE DEF chosen
    <3> QED
      BY <1>2 DEF Cloned
  <2>2. PICK x \in chosen : p = work.media[x].output
    BY <2>1
  <2>3. staged'.video[p] = dataset.video[work.media[x].source]
    BY <1>4, <2>2
  <2>4. Plays(work.media[x], dataset.video[work.media[x].source])
    BY <1>3
  <2> HIDE DEF chosen
  <2> QED
    BY <2>3, <2>4 DEF Plays
<1>6. ASSUME NEW x \in DOMAIN work'.media, Filming(x)'
      PROVE  VideoHeld(work.media[x])'
  <2>1. x \in chosen
    BY <1>1, <1>6 DEF Filming
  <2>2. Plays(work.media[x], staged'.video[work.media[x].output])
    BY <1>3, <1>4, <2>1
  <2>3. work' = work /\ \A job, file : Plays(job, file)' = Plays(job, file)
    BY <1>1, PlaysStays
  <2> QED
    BY <1>4, <2>1, <2>2, <2>3 DEF VideoHeld
<1> QED
  BY <1>1, <1>5, <1>6 DEF VideoInv

(* A worker makes one file and leaves the others as they are.              *)
LEMMA WorkerFilms ==
  ASSUME ExactInv, VideoInv, NEW n, FinishMedia(n)
  PROVE  VideoInv'
<1> SUFFICES ASSUME "camera" \notin edit'.remove PROVE VideoInv'
  BY DEF VideoInv
<1>1. /\ editing = "media" /\ editing' = "media" /\ finished' = finished \cup {n}
      /\ running' = running \ {n} /\ faulted' = faulted
      /\ UNCHANGED <<recording, dataset, edit, machine, work>>
      /\ n \in running /\ running \subseteq Changed
      /\ "camera" \notin edit.remove /\ EditBase /\ work = EditManifest
  BY DEF ExactInv, VideoInv, FinishMedia
<1> DEFINE job == work.media[n]
           p == job.output
           new == Filmed(job)
           old == staged.video
<1>2. /\ VideoDivided
      /\ \A x \in DOMAIN work.media : Plays(work.media[x], Filmed(work.media[x]))
  BY <1>1, MediaPlan
<1>3. n \in DOMAIN work.media /\ job.mode # "reuse"
  BY <1>1 DEF Changed
<1>4. staged'.video = Assign(old, p, new)
  <2>1. LET packets == IF job.mode = "remux" THEN Selected(job) ELSE Encoded(job)
        IN  staged' = [staged EXCEPT !.video = Assign(@, p, packets)]
    BY Zenon DEF FinishMedia
  <2>2. new = IF job.mode = "remux" THEN Selected(job) ELSE Encoded(job)
    BY <1>3 DEF Filmed
  <2>3. "video" \in DOMAIN staged
    BY DEF ExactInv
  <2> HIDE DEF job, p, new
  <2>4. staged' = [staged EXCEPT !.video = Assign(@, p, new)]
    BY <2>1, <2>2
  <2> QED
    BY <2>3, <2>4
<1>5. /\ p \in DOMAIN staged'.video /\ staged'.video[p] = new
      /\ \A q \in DOMAIN old : q # p => q \in DOMAIN staged'.video /\ staged'.video[q] = old[q]
      /\ \A q \in DOMAIN staged'.video : q = p \/ q \in DOMAIN old
  <2> HIDE DEF p, new, old
  <2> QED
    BY <1>4 DEF Assign
<1>6. Plays(job, new)
  BY <1>2, <1>3
<1>7. ASSUME NEW q \in DOMAIN staged'.video
      PROVE  Decodes(staged'.video[q])
  <2>1. CASE q = p
    <3>1. staged'.video[q] = new
      BY <1>5, <2>1
    <3> HIDE DEF new, job
    <3> QED
      BY <1>6, <3>1 DEF Plays
  <2>2. CASE q # p
    <3>1. q \in DOMAIN old /\ staged'.video[q] = old[q]
      BY <1>5, <2>2
    <3>2. Decodes(old[q])
      BY <1>1, <3>1 DEF VideoInv
    <3> HIDE DEF old
    <3> QED
      BY <3>1, <3>2
  <2> QED
    BY <2>1, <2>2
<1>8. ASSUME NEW x \in DOMAIN work.media, Filming(x)'
      PROVE  VideoHeld(work.media[x])'
  <2>1. CASE x = n
    <3>1. work' = work /\ \A j, file : Plays(j, file)' = Plays(j, file)
      BY <1>1, PlaysStays
    <3> HIDE DEF new
    <3> QED
      BY <1>5, <1>6, <2>1, <3>1 DEF VideoHeld
  <2>2. CASE x # n
    <3>1. Filming(x)
      BY <1>1, <1>8, <2>2 DEF Filming
    <3>2. VideoHeld(work.media[x])
      BY <1>1, <3>1 DEF VideoInv
    <3>3. work.media[x].output \in DOMAIN old /\ work.media[x].output # p
      BY <1>2, <1>3, <2>2, <3>2 DEF VideoHeld, VideoDivided, SharedOut
    <3>4. LET q == work.media[x].output
          IN  q \in DOMAIN staged'.video /\ staged'.video[q] = staged.video[q]
      BY <1>5, <3>3
    <3> HIDE DEF p, new, old, job
    <3> QED
      BY <1>1, <3>2, <3>4, FilmStays
  <2> QED
    BY <2>1, <2>2
<1>9. running' \subseteq Changed'
  BY <1>1 DEF Changed
<1> QED
  BY <1>1, <1>7, <1>8, <1>9 DEF VideoInv

(* Steps that leave the staged videos alone.                               *)
LEMMA FilmsRemain ==
  ASSUME ExactInv, VideoInv, UNCHANGED <<recording, dataset, edit, machine, work>>,
         staged'.video = staged.video,
         editing \in {"data", "media", "done"}, editing' \in {"data", "media", "done"},
         editing' = "data" => running' = {},
         editing' = "media" => running' \subseteq Changed,
         \A x : Filming(x)' => Filming(x) \/ (editing = "media" /\ ~faulted /\ Changed \subseteq finished)
  PROVE  VideoInv'
<1> SUFFICES ASSUME "camera" \notin edit'.remove PROVE VideoInv'
  BY DEF VideoInv
<1>1. /\ \A p \in DOMAIN staged.video : Decodes(staged.video[p])
      /\ \A x \in DOMAIN work.media : Filming(x) => VideoHeld(work.media[x])
  BY DEF VideoInv
<1>2. Changed' = Changed
  BY DEF Changed
<1>3. ASSUME NEW x \in DOMAIN work.media, Filming(x)'
      PROVE  VideoHeld(work.media[x])'
  <2>1. Filming(x)
    BY <1>3 DEF Filming, Changed
  <2>2. VideoHeld(work.media[x])
    BY <1>1, <2>1
  <2>3. LET p == work.media[x].output
        IN  p \in DOMAIN staged'.video /\ staged'.video[p] = staged.video[p]
    BY <2>2 DEF VideoHeld
  <2> QED
    BY <2>2, <2>3, FilmStays
<1>4. \A p \in DOMAIN staged'.video : Decodes(staged'.video[p])
  BY <1>1
<1> QED
  BY <1>2, <1>3, <1>4 DEF VideoInv

(* Every step keeps the invariant.                                         *)
LEMMA VideoStep == ExactInv /\ VideoInv /\ [EditorNext]_editorVars => VideoInv'
<1> SUFFICES ASSUME ExactInv, VideoInv, [EditorNext]_editorVars PROVE VideoInv'
  OBVIOUS
<1>0. UNCHANGED <<recording, dataset, edit, machine>>
  BY Zenon DEF EditorNext, editorVars, EditRefuse, EditPlan, CloneFiles, EndData, StartMedia,
         RewriteShard, FinishMedia, MediaFails, EditFails, EditMetadata
<1>1. CASE EditRefuse
  BY <1>0, <1>1 DEF EditRefuse, VideoInv
<1>2. CASE EditPlan
  BY <1>0, <1>2 DEF EditPlan, VideoInv
<1>3. CASE CloneFiles
  BY <1>3, CloningFilms
<1>4. CASE EndData
  <2>1. /\ editing = "data" /\ editing' = "media" /\ finished' = {} /\ running' = running
        /\ UNCHANGED <<work, staged>>
    BY <1>4 DEF EndData
  <2>2. "camera" \notin edit.remove => running = {}
    BY <2>1 DEF VideoInv
  <2>3. \A x : Filming(x)' => Filming(x)
    BY <2>1 DEF Filming
  <2>4. CASE "camera" \in edit.remove
    BY <1>0, <2>4 DEF VideoInv
  <2>5. CASE "camera" \notin edit.remove
    BY <1>0, <2>1, <2>2, <2>3, <2>5, FilmsRemain
  <2> QED
    BY <2>4, <2>5
<1>5. CASE StartMedia
  <2>1. /\ editing = "media" /\ editing' = "media" /\ UNCHANGED <<work, staged, finished, faulted>>
    BY <1>5 DEF StartMedia
  <2>2. running \subseteq Changed => running' \subseteq Changed
    BY <1>5 DEF StartMedia, Foremost
  <2>3. \A x : Filming(x)' => Filming(x)
    BY <2>1 DEF Filming
  <2>4. CASE "camera" \in edit.remove
    BY <1>0, <2>4 DEF VideoInv
  <2>5. CASE "camera" \notin edit.remove
    <3>1. running \subseteq Changed
      BY <2>1, <2>5 DEF VideoInv
    <3> QED
      BY <1>0, <2>1, <2>2, <2>3, <3>1, FilmsRemain
  <2> QED
    BY <2>4, <2>5
<1>6. ASSUME NEW n \in 1 .. Count, RewriteShard(n) \/ FinishMedia(n) \/ MediaFails(n)
      PROVE  VideoInv'
  <2>1. CASE RewriteShard(n)
    <3>1. /\ editing = "data" /\ editing' = "data" /\ running' = running /\ work' = work
      BY <2>1 DEF RewriteShard
    <3>2. staged'.video = staged.video
      <4>1. \/ staged' = staged
            \/ \E new : staged' = [staged EXCEPT !.data = new]
        BY <2>1, Zenon DEF RewriteShard
      <4>2. "video" \in DOMAIN staged
        BY DEF ExactInv
      <4> QED
        BY <4>1, <4>2
    <3>3. \A x : Filming(x)' => Filming(x)
      BY <3>1 DEF Filming
    <3>4. CASE "camera" \in edit.remove
      BY <1>0, <3>4 DEF VideoInv
    <3>5. CASE "camera" \notin edit.remove
      <4>1. running = {}
        BY <3>1, <3>5 DEF VideoInv
      <4> QED
        BY <1>0, <3>1, <3>2, <3>3, <4>1, FilmsRemain
    <3> QED
      BY <3>4, <3>5
  <2>2. CASE FinishMedia(n)
    BY <2>2, WorkerFilms
  <2>3. CASE MediaFails(n)
    <3>1. /\ editing = "media" /\ editing' = "media" /\ UNCHANGED <<work, staged>> /\ faulted'
          /\ running' \subseteq running
      BY <2>3 DEF MediaFails
    <3>2. \A x : Filming(x)' => Filming(x)
      BY <3>1 DEF Filming
    <3>3. CASE "camera" \in edit.remove
      BY <1>0, <3>3 DEF VideoInv
    <3>4. CASE "camera" \notin edit.remove
      <4>1. running' \subseteq Changed
        BY <3>1, <3>4 DEF VideoInv
      <4> QED
        BY <1>0, <3>1, <3>2, <4>1, FilmsRemain
    <3> QED
      BY <3>3, <3>4
  <2> QED
    BY <1>6, <2>1, <2>2, <2>3
<1>7. CASE EditFails
  BY <1>0, <1>7 DEF EditFails, VideoInv
<1>8. CASE EditMetadata
  <2>1. /\ editing = "media" /\ editing' = "done" /\ Changed \subseteq finished /\ ~faulted
        /\ UNCHANGED <<work, staged>>
    BY <1>8 DEF EditMetadata
  <2> QED
    BY <1>0, <2>1, FilmsRemain
<1>9. CASE UNCHANGED editorVars
  <2>1. /\ UNCHANGED <<work, staged, editing, finished, faulted, running>>
    BY <1>9 DEF editorVars
  <2>2. \A x : Filming(x)' => Filming(x)
    BY <2>1 DEF Filming
  <2>3. CASE editing \in {"data", "media", "done"} /\ "camera" \notin edit.remove
    <3>1. /\ editing = "data" => running = {}
          /\ editing = "media" => running \subseteq Changed
      BY <2>3 DEF VideoInv
    <3> QED
      BY <1>0, <2>1, <2>2, <2>3, <3>1, FilmsRemain
  <2>4. CASE ~(editing \in {"data", "media", "done"} /\ "camera" \notin edit.remove)
    BY <1>0, <2>1, <2>4 DEF VideoInv
  <2> QED
    BY <2>3, <2>4
<1> QED
  BY <1>1, <1>2, <1>3, <1>4, <1>5, <1>6, <1>7, <1>8, <1>9 DEF EditorNext

-----------------------------------------------------------------------------
(* What is published: the videos play the retained episodes, and the       *)
(* statistics are of the frames that are kept.                             *)

(* The place of an episode as the metadata of the edit says it.            *)
LEMMA LocationIs ==
  ASSUME EditBase,
         NEW lo, NEW hi, PacketsStored(dataset, Len(recording.lens), recording.lens,
                                       RecordedPackets(recording), lo, hi),
         NEW job, TakesRun(job, KeptIn(VideoPaths), Len(Kept), dataset.version),
         PlannedMedia(job), NEW k \in FirstOf(job) .. EndOf(job) - 1
  PROVE  Location(job, CHOOSE x \in DOMAIN job.episodes : job.episodes[x] = k) = PutAt(job, k)
<1> DEFINE m == Len(Kept)
           a == FirstOf(job)
           b == EndOf(job)
           G == b - a
           y == k - a + 1
           from == [x \in 1 .. G |-> VideoStart(Kept[a + x - 1])]
           len == [x \in 1 .. G |-> NewLens[a + x - 1]]
           off == [x \in 1 .. G + 1 |-> Offset(len, x)]
           part == [x \in DOMAIN job.ranges |-> job.ranges[x][2] - job.ranges[x][1]]
<1>1. m \in Nat /\ NewLens \in [1 .. m -> Nat]
  <2>1. m \in Nat /\ NewLens \in [1 .. m -> Nat \ {0}]
    BY KeptFactsHold DEF KeptFacts
  <2> QED
    BY <2>1
<1>2. a \in 1 .. m /\ b \in a + 1 .. m + 1 /\ job.episodes = Span(a, b)
  BY DEF TakesRun
<1>3. DOMAIN job.episodes = 1 .. G /\ \A x \in 1 .. G : job.episodes[x] = a + x - 1
  BY <1>2 DEF Span
<1>4. /\ G \in Nat /\ y \in 1 .. G /\ y \in 1 .. G + 1 /\ a + y - 1 = k
      /\ a \in 1 .. m + 1 /\ a + G <= m + 1
      /\ \A x \in 1 .. G : a + x - 1 \in 1 .. m /\ (a + x - 1 = k => x = y)
  BY SMTT(40), <1>1, <1>2
<1>5. /\ DOMAIN job.ranges = 1 .. G
      /\ \A x \in 1 .. G : /\ job.ranges[x] = <<from[x], from[x] + len[x]>>
                            /\ from[x] \in Nat
  <2>1. /\ RangesOf(job.ranges, from, off, G)
        /\ \A x \in 1 .. G : job.ranges[x] = <<from[x], from[x] + len[x]>>
    BY MediaRanges
  <2> HIDE DEF G, from, len, off
  <2>2. DOMAIN job.ranges = 1 .. G /\ from \in [1 .. G -> Nat]
    BY <2>1 DEF RangesOf
  <2> QED
    BY <2>1, <2>2
<1> HIDE DEF m, a, b, G, y
<1>6. (CHOOSE x \in DOMAIN job.episodes : job.episodes[x] = k) = y
  <2>1. y \in DOMAIN job.episodes /\ job.episodes[y] = k
    BY <1>3, <1>4
  <2>2. \A x \in DOMAIN job.episodes : job.episodes[x] = k => x = y
    BY <1>3, <1>4
  <2> QED
    BY <2>1, <2>2
<1>7. CASE job.mode = "reuse"
  <2>1. Location(job, y) = job.ranges[y][1]
    BY <1>7 DEF Location
  <2>2. job.ranges[y] = <<from[y], from[y] + len[y]>> /\ from[y] = VideoStart(Kept[k])
    BY <1>4, <1>5
  <2> HIDE DEF from, len
  <2>3. job.ranges[y][1] = VideoStart(Kept[k])
    BY <2>2
  <2>4. PutAt(job, k) = VideoStart(Kept[k])
    BY <1>7 DEF PutAt
  <2> QED
    BY <1>6, <2>1, <2>3, <2>4
<1>8. CASE job.mode # "reuse"
  <2>1. Location(job, y) = Offset(part, y)
    BY <1>8 DEF Location
  <2>2. ASSUME NEW x \in 1 .. G
        PROVE  job.ranges[x][2] - job.ranges[x][1] = NewLens[a + x - 1]
    <3> DEFINE u == from[x]
               c == NewLens[a + x - 1]
    <3>1. job.ranges[x] = <<u, u + c>>
      BY <1>5
    <3>2. u \in Nat /\ c \in Nat
      <4>1. a + x - 1 \in 1 .. m
        BY <1>4
      <4> QED
        BY <1>1, <1>5, <4>1
    <3> HIDE DEF u, c
    <3>3. (u + c) - u = c
      BY <3>2
    <3> QED
      BY <3>1, <3>3 DEF c
  <2>3. part = [x \in 1 .. G |-> NewLens[a + x - 1]]
    BY <1>5, <2>2
  <2> HIDE DEF part
  <2>4. part \in [1 .. G -> Nat] /\ \A x \in 1 .. G : part[x] = NewLens[a + x - 1]
    BY <1>1, <1>4, <2>3
  <2>5. Shifts(NewLens, a, part, G)
    BY <1>1, <1>4, <2>4, PartShifts
  <2>6. /\ Offset(part, y) \in Nat
        /\ Offset(NewLens, k) = Offset(NewLens, a) + Offset(part, y)
    <3>1. /\ Offset(part, y) \in Nat
          /\ Offset(NewLens, a + y - 1) = Offset(NewLens, a) + Offset(part, y)
      BY <1>4, <2>5 DEF Shifts
    <3> QED
      BY <1>4, <3>1
  <2>7. Offset(NewLens, a) \in Nat
    BY <1>1, <1>4, OffsetProperties
  <2>8. Offset(NewLens, k) - Offset(NewLens, a) = Offset(part, y)
    BY <2>6, <2>7
  <2> QED
    BY <1>6, <1>8, <2>1, <2>8 DEF PutAt, a
<1> QED
  BY <1>7, <1>8

(* Every episode finds its packets in the published files.                 *)
LEMMA EditedPacketsAre ==
  ASSUME EditBase, "camera" \notin edit.remove, work = EditManifest,
         edited = EditedDataset, \A x \in DOMAIN work.media : VideoHeld(work.media[x]),
         NEW k \in 1 .. Len(Kept)
  PROVE  LET job == work.media[JobOf(work.media, k)]
             file == staged.video[job.output]
         IN  /\ Carries(file, k, PutAt(job, k), CodedBy(job))
             /\ PacketsOf(edited, k) = [f \in 1 .. NewLens[k] |-> file[PutAt(job, k) + f]]
<1> DEFINE n == Len(recording.lens)
           m == Len(Kept)
           jobs == work.media
           kept == KeptIn(VideoPaths)
           version == dataset.version
           x == JobOf(jobs, k)
           job == jobs[x]
           a == FirstOf(job)
           b == EndOf(job)
           file == staged.video[job.output]
           place == PutAt(job, k)
           c == NewLens[k]
           mine == [f \in 1 .. c |-> file[place + f]]
<1>1. /\ m \in Nat /\ NewLens \in [1 .. m -> Nat \ {0}] /\ version \in Versions
      /\ DOMAIN Kept = 1 .. m
  BY KeptFactsHold DEF KeptFacts
<1>2. recording \in Recordings /\ dataset = Source(recording)
  BY DEF EditBase
<1>3. PICK lo, hi :
        PacketsStored(dataset, n, recording.lens, RecordedPackets(recording), lo, hi)
  BY <1>2, SourceIs
<1>4. SharedOut(jobs, kept, m, version) /\ \A y \in DOMAIN jobs : PlannedMedia(jobs[y])
  BY MediaPlan DEF VideoDivided
<1>5. k \in 1 .. m /\ \A y \in DOMAIN jobs : VideoHeld(jobs[y])
  OBVIOUS
<1>6. x \in DOMAIN jobs /\ a <= k /\ k < b /\ TakesRun(job, kept, m, version)
  <2> HIDE DEF m, jobs, kept, version
  <2> QED
    BY <1>1, <1>4, <1>5, JobOfIs
<1>7. a \in 1 .. m /\ b \in a + 1 .. m + 1
      /\ (version = "v2.1" => b = a + 1 /\ job.output = EpisodeFile(a - 1))
  BY <1>6 DEF TakesRun
<1>8. k \in a .. b - 1
  BY <1>5, <1>6, <1>7, <1>1
<1>9. PlannedMedia(job) /\ VideoHeld(job)
  BY <1>4, <1>5, <1>6
<1>10. Location(job, CHOOSE y \in DOMAIN job.episodes : job.episodes[y] = k) = place
  <2> HIDE DEF x
  <2> QED
    BY <1>3, <1>6, <1>8, <1>9, LocationIs
<1>11. Plays(job, file)
  BY <1>9 DEF VideoHeld
<1>12. file \in Seq(Range(file)) /\ Carries(file, k, place, CodedBy(job))
  BY <1>8, <1>11 DEF Plays
<1>13. /\ place \in Nat /\ place + c <= Len(file) /\ c \in Nat \ {0}
       /\ version = "v2.1" => place = 0 /\ Len(file) = c
  BY <1>1, <1>5, <1>12 DEF Carries
<1>14. /\ edited.version = version /\ edited.video = staged.video
       /\ edited.meta[k].video = job.output /\ edited.meta[k].start = place
       /\ edited.meta[k].end = place + c
  <2>1. work.media # <<>>
    BY <1>6
  <2> DEFINE row == EditedRow(k)
             start == Location(job, CHOOSE y \in DOMAIN job.episodes : job.episodes[y] = k)
  <2>2. row.video = job.output /\ row.start = start /\ row.end = start + c
    BY <2>1 DEF EditedRow, JobOf
  <2>3. edited.meta[k] = row /\ edited.version = version /\ edited.video = staged.video
    BY <1>1, <1>5 DEF EditedDataset
  <2> HIDE DEF row, start
  <2>4. start = place
    BY <1>10 DEF start
  <2> QED
    BY <2>2, <2>3, <2>4
<1>15. PacketsOf(edited, k) = mine
  <2>1. CASE version = "v2.1"
    <3>1. a = k
      BY <1>1, <1>5, <1>6, <1>7, <2>1
    <3>2. PacketsOf(edited, k) = file
      BY <1>7, <1>14, <2>1, <3>1 DEF PacketsOf, VideoFile
    <3> HIDE DEF file, place, c
    <3>3. place = 0 /\ Len(file) = c
      BY <1>13, <2>1
    <3>4. file = [f \in 1 .. c |-> file[f]]
      BY <1>12, <3>3
    <3>5. \A f \in 1 .. c : place + f = f
      BY <1>13, <3>3
    <3>6. mine = [f \in 1 .. c |-> file[f]]
      BY <3>5
    <3> QED
      BY <3>2, <3>4, <3>6
  <2>2. CASE version = "v3.0"
    <3>1. PacketsOf(edited, k) = Slice(file, place, c)
      <4>1. edited.version = "v3.0" /\ edited.version # "v2.1"
        BY <1>14, <2>2
      <4>2. VideoFile(edited, k) = job.output
        BY <1>14, <4>1 DEF VideoFile
      <4>3. edited.video[job.output] = file
        BY <1>14
      <4> DEFINE start == edited.meta[k].start
                 end == edited.meta[k].end
      <4>4. PacketsOf(edited, k) =
              Slice(edited.video[VideoFile(edited, k)], start, end - start)
        BY <4>1 DEF PacketsOf
      <4>5. start = place /\ end = place + c
        BY <1>14
      <4> HIDE DEF file, place, c, start, end
      <4>6. end - start = c
        BY <1>13, <4>5
      <4> QED
        BY <4>2, <4>3, <4>4, <4>5, <4>6, Zenon
    <3> HIDE DEF file, place, c
    <3>3. /\ mine \in Seq(Range(file)) /\ Len(mine) = c
          /\ \A f \in 1 .. c : mine[f] = file[place + f]
      <4>1. \A f \in 1 .. c : place + f \in 1 .. Len(file)
        BY <1>12, <1>13
      <4>2. \A f \in 1 .. c : file[place + f] \in Range(file)
        BY <1>12, <4>1, ElementOfSeq
      <4>3. mine \in [1 .. c -> Range(file)] /\ c \in Nat
        BY <1>13, <4>2
      <4>4. \A f \in 1 .. c : mine[f] = file[place + f]
        OBVIOUS
      <4> HIDE DEF mine
      <4> QED
        BY <4>3, <4>4, SeqOfFunction
    <3> HIDE DEF mine
    <3>4. Slice(file, place, Len(mine)) = mine
      <4> DEFINE S == Range(file)
      <4>1. /\ file \in Seq(S) /\ mine \in Seq(S) /\ Len(mine) > 0
            /\ place + Len(mine) <= Len(file) /\ place \in Nat
            /\ \A f \in 1 .. Len(mine) : file[place + f] = mine[f]
        BY <1>12, <1>13, <3>3
      <4> HIDE DEF S
      <4> QED
        BY <4>1, SliceAt
    <3> QED
      BY <3>1, <3>3, <3>4
  <2> QED
    BY <1>1, <2>1, <2>2 DEF Versions
<1> QED
  BY <1>12, <1>15

(* The invariants imply the property.                                      *)
LEMMA VideoResult == ExactInv /\ VideoInv => EditedVideoPlays
<1> SUFFICES ASSUME ExactInv, VideoInv, editing = "done", "camera" \notin edit.remove
             PROVE  EditedVideoPlays
  BY DEF EditedVideoPlays
<1>1. EditBase /\ work = EditManifest /\ edited = EditedDataset
  BY DEF ExactInv
<1>2. /\ \A p \in DOMAIN staged.video : Decodes(staged.video[p])
      /\ \A x \in DOMAIN work.media : VideoHeld(work.media[x])
  BY DEF VideoInv, Filming
<1>3. edited.video = staged.video
  BY <1>1 DEF EditedDataset
<1>4. ASSUME NEW k \in DOMAIN Kept
      PROVE  LET mine == PacketsOf(edited, k)
             IN  /\ [f \in DOMAIN mine |-> mine[f].frame] =
                      [f \in 1 .. NewLens[k] |-> <<Kept[k], f>>]
                 /\ mine[1].coded = "output" => mine[1].after = Key
  <2> DEFINE job == work.media[JobOf(work.media, k)]
             file == staged.video[job.output]
             place == PutAt(job, k)
             coded == CodedBy(job)
             c == NewLens[k]
             mine == PacketsOf(edited, k)
  <2>1. k \in 1 .. Len(Kept) /\ c \in Nat \ {0}
    BY <1>1, KeptFactsHold DEF KeptFacts
  <2>2. Carries(file, k, place, coded) /\ mine = [f \in 1 .. c |-> file[place + f]]
    BY <1>1, <1>2, <2>1, EditedPacketsAre
  <2>3. /\ \A f \in 1 .. c : file[place + f].frame = <<Kept[k], f>> /\ file[place + f].coded = coded
        /\ coded = "output" => file[place + 1].after = Key
    BY <2>2 DEF Carries
  <2> HIDE DEF file, place, coded, mine, c
  <2>4. [f \in DOMAIN mine |-> mine[f].frame] = [f \in 1 .. c |-> <<Kept[k], f>>]
    BY <2>2, <2>3
  <2>5. mine[1].coded = coded /\ mine[1] = file[place + 1]
    <3>1. 1 \in 1 .. c
      BY <2>1
    <3> QED
      BY <2>2, <2>3, <3>1
  <2> QED
    BY <2>3, <2>4, <2>5 DEF mine, c
<1> QED
  BY <1>2, <1>3, <1>4 DEF EditedVideoPlays

(* A finished edit plays: whichever files were copied, cut or encoded, all *)
(* of them can be decoded and every episode finds its frames where the     *)
(* metadata says, an encoded one beginning with a keyframe (edit_dataset,  *)
(* packet_remux_safe).                                                     *)
THEOREM EditedVideoPlaysThm == EditorSpec => []EditedVideoPlays
<1> QED
  BY ExactStart, ExactStep, VideoStartHolds, VideoStep, VideoResult, PTL DEF EditorSpec

(* The frames before an episode, added up.                                 *)
LEMMA FramesBefore ==
  ASSUME EditBase, NEW i \in 1 .. Count
  PROVE  /\ SumFunction([j \in 1 .. i - 1 |-> LengthOf(j)]) = Offset(recording.lens, i)
         /\ Offset(recording.lens, i) \in Nat
<1> DEFINE n == Len(recording.lens)
           lens == recording.lens
           l == i - 1
           a == 1
           part == [j \in 1 .. l |-> LengthOf(j)]
<1>1. /\ n \in Nat /\ Count = n /\ lens \in [1 .. n -> Nat \ {0}]
      /\ \A j \in 1 .. n : LengthOf(j) = lens[j]
  BY KeptFactsHold DEF KeptFacts
<1>2. lens \in [1 .. n -> Nat]
  BY <1>1
<1>3. /\ l \in Nat /\ l + 1 = i /\ a \in 1 .. n + 1 /\ a + l <= n + 1 /\ i \in 1 .. l + 1
      /\ a + i - 1 = i /\ i \in 1 .. n + 1
      /\ \A j \in 1 .. l : j \in 1 .. n /\ a + j - 1 = j
  BY <1>1
<1> HIDE DEF n, lens
<1>4. part \in [1 .. l -> Nat] /\ \A j \in 1 .. l : part[j] = lens[a + j - 1]
  <2>1. \A j \in 1 .. l : LengthOf(j) = lens[j] /\ lens[j] \in Nat
    BY <1>1, <1>2, <1>3
  <2> HIDE DEF l, a
  <2> QED
    BY <1>3, <2>1
<1>5. DOMAIN part = 1 .. i - 1
  OBVIOUS
<1> HIDE DEF part, l, a
<1>6. Shifts(lens, a, part, l)
  BY <1>1, <1>2, <1>3, <1>4, PartShifts
<1>7. /\ Offset(part, i) \in Nat
      /\ Offset(lens, a + i - 1) = Offset(lens, a) + Offset(part, i)
  BY <1>3, <1>6 DEF Shifts
<1>8. Offset(lens, a) = 0
  BY <1>1, <1>2, PlacesAdd DEF Offset, PlaceOf, a
<1>9. Offset(lens, i) = Offset(part, i)
  BY <1>3, <1>7, <1>8
<1>10. SumFunction(part) = Offset(part, i)
  BY <1>5 DEF Offset, SumFunction
<1> QED
  BY <1>7, <1>9, <1>10 DEF part, l, lens

(* The statistics of the manifest: index, episode and task are those of    *)
(* the rewritten rows, the pixels still those of the source.               *)
LEMMA ShiftedIs ==
  ASSUME EditBase, NEW k \in 1 .. Len(Kept)
  PROVE  LET stats == ShiftedStats(k)
         IN  /\ stats.index = Offset(NewLens, k) /\ stats.episode = k - 1
             /\ stats.task = (IF Override(k) = NotGiven THEN LabelOf(recording.tasks, Kept[k])
                              ELSE Override(k))
             /\ stats.video = "source" /\ "video" \in DOMAIN stats
<1> DEFINE n == Len(recording.lens)
           i == Kept[k]
           old == dataset.meta[i].stats
           from == SumFunction([j \in 1 .. i - 1 |-> LengthOf(j)])
           start == Offset(recording.lens, i)
           new == Offset(NewLens, k)
<1>1. /\ i \in 1 .. n /\ Count = n /\ recording \in Recordings /\ dataset = Source(recording)
      /\ Len(Kept) \in Nat /\ NewLens \in [1 .. Len(Kept) -> Nat \ {0}]
  BY KeptFactsHold DEF KeptFacts, EditBase
<1>2. old = [index |-> start, episode |-> i - 1, task |-> LabelOf(recording.tasks, i),
             video |-> "source"]
  BY <1>1, SourceIs DEF SourceMeta
<1>3. from = start /\ start \in Nat
  BY <1>1, FramesBefore
<1>4. new \in Nat
  <2>1. NewLens \in [1 .. Len(Kept) -> Nat] /\ k \in 1 .. Len(Kept) + 1
    BY <1>1
  <2> QED
    BY <1>1, <2>1, OffsetProperties
<1>5. ShiftedStats(k) = [old EXCEPT !.index = (@ + NewStart(k)) - from,
                                    !.episode = k - 1,
                                    !.task = IF Override(k) = NotGiven THEN @ ELSE Override(k)]
  BY Zenon DEF ShiftedStats
<1>6. NewStart(k) = new
  BY DEF NewStart
<1> HIDE DEF i, old, from, start, new
<1>7. (start + new) - from = new
  BY <1>3, <1>4
<1>8. /\ ShiftedStats(k).index = (start + new) - from
      /\ ShiftedStats(k).episode = k - 1
      /\ ShiftedStats(k).task = (IF Override(k) = NotGiven THEN LabelOf(recording.tasks, i)
                                 ELSE Override(k))
      /\ ShiftedStats(k).video = "source" /\ "video" \in DOMAIN ShiftedStats(k)
  BY <1>2, <1>5, <1>6
<1> QED
  BY <1>7, <1>8 DEF i, new

(* An episode is in an encoded file if its job is one that encodes.        *)
LEMMA EncodedIs ==
  ASSUME EditBase, VideoDivided, NEW k \in 1 .. Len(Kept)
  PROVE  (\E x \in Transcodes(work.media) : Contains(work.media[x].episodes, k))
           <=> CodedBy(work.media[JobOf(work.media, k)]) = "output"
<1> DEFINE m == Len(Kept)
           jobs == work.media
           kept == KeptIn(VideoPaths)
           version == dataset.version
           y == JobOf(jobs, k)
<1>1. m \in Nat /\ k \in 1 .. m
  BY KeptFactsHold DEF KeptFacts
<1>2. SharedOut(jobs, kept, m, version)
  BY DEF VideoDivided
<1>3. \A x \in DOMAIN jobs : TakesRun(jobs[x], kept, m, version)
  BY <1>2 DEF SharedOut
<1>4. ASSUME NEW x \in DOMAIN jobs
      PROVE  Contains(jobs[x].episodes, k) <=> FirstOf(jobs[x]) <= k /\ k < EndOf(jobs[x])
  <2> DEFINE a == FirstOf(jobs[x])
             b == EndOf(jobs[x])
  <2>1. a \in 1 .. m /\ b \in a + 1 .. m + 1 /\ jobs[x].episodes = Span(a, b)
    BY <1>3 DEF TakesRun
  <2>2. a \in Nat /\ b \in Nat /\ a < b
    BY <1>1, <2>1
  <2> HIDE DEF a, b
  <2>3. Len(Span(a, b)) = b - a /\ \A j \in 1 .. b - a : Span(a, b)[j] = a + j - 1
    BY <2>2, SpanProperties
  <2>4. a <= k /\ k < b => k - a + 1 \in 1 .. b - a /\ a + (k - a + 1) - 1 = k
    BY <1>1, <2>2
  <2>5. \A j \in 1 .. b - a : a + j - 1 = k => a <= k /\ k < b
    BY <1>1, <2>2
  <2>6. Contains(Span(a, b), k) <=> a <= k /\ k < b
    BY <2>3, <2>4, <2>5 DEF Contains
  <2> QED
    BY <2>1, <2>6 DEF a, b
<1>5. /\ y \in DOMAIN jobs /\ FirstOf(jobs[y]) <= k /\ k < EndOf(jobs[y])
      /\ \A z \in DOMAIN jobs : FirstOf(jobs[z]) <= k /\ k < EndOf(jobs[z]) => z = y
  <2> HIDE DEF m, jobs, kept, version
  <2> QED
    BY <1>1, <1>2, JobOfIs
<1>6. CodedBy(jobs[y]) = "output" <=> jobs[y].mode = "transcode"
  BY DEF CodedBy
<1> HIDE DEF jobs, y
<1>7. (\E x \in Transcodes(jobs) : Contains(jobs[x].episodes, k)) <=> jobs[y].mode = "transcode"
  BY <1>4, <1>5 DEF Transcodes
<1> QED
  BY <1>6, <1>7 DEF jobs, y

(* The invariants imply the property.                                      *)
LEMMA StatsResult == ExactInv /\ VideoInv => EditedStatsMatch
<1> SUFFICES ASSUME ExactInv, VideoInv, editing = "done", recording.labelled,
                    NEW k \in DOMAIN Kept
             PROVE  LET rows == RowsOf(edited, k)
                        stats == edited.meta[k].stats
                    IN  /\ stats.index = rows[1].index
                        /\ stats.episode = rows[1].episode
                        /\ stats.task = rows[1].task
                        /\ "camera" \notin edit.remove =>
                             stats.video = PacketsOf(edited, k)[1].coded
  BY DEF EditedStatsMatch
<1> DEFINE rows == RowsOf(edited, k)
           stats == edited.meta[k].stats
           shifted == ShiftedStats(k)
           encodes == \E x \in Transcodes(work.media) : Contains(work.media[x].episodes, k)
<1>1. EditBase /\ work = EditManifest /\ edited = EditedDataset
  BY DEF ExactInv
<1>2. k \in 1 .. Len(Kept) /\ NewLens[k] \in Nat \ {0} /\ 1 \in 1 .. NewLens[k]
      /\ Len(Kept) \in Nat /\ NewLens \in [1 .. Len(Kept) -> Nat]
  BY <1>1, KeptFactsHold DEF KeptFacts
<1>3. rows = NewRows[k]
  <2>1. DataDivided
    BY <1>1, DataPlan
  <2>2. \A x \in DOMAIN work.data : DataHeld(work.data[x])
    BY DEF ExactInv
  <2> QED
    BY <1>1, <1>2, <2>1, <2>2, EditedRowsAre
<1>4. stats = EditedStats(k)
  BY <1>1, <1>2, EditedMeta
<1>5. work.stats[k] = shifted
  BY <1>1 DEF EditManifest
<1>6. /\ shifted.index = Offset(NewLens, k) /\ shifted.episode = k - 1
      /\ shifted.task = (IF Override(k) = NotGiven THEN LabelOf(recording.tasks, Kept[k])
                         ELSE Override(k))
      /\ shifted.video = "source" /\ "video" \in DOMAIN shifted
  BY <1>1, <1>2, ShiftedIs
<1> HIDE DEF shifted
<1>7. /\ stats.index = shifted.index /\ stats.episode = shifted.episode
      /\ stats.task = shifted.task
      /\ "camera" \notin edit.remove => stats.video = IF encodes THEN "output" ELSE "source"
  <2>1. stats = IF "camera" \in edit.remove THEN [shifted EXCEPT !.video = Removed]
                ELSE IF encodes THEN [shifted EXCEPT !.video = "output"] ELSE shifted
    BY <1>4, <1>5, Zenon DEF EditedStats
  <2> HIDE DEF stats, encodes
  <2> QED
    BY <1>6, <2>1
<1>8. /\ rows[1].index = Offset(NewLens, k) + 1 - 1 /\ rows[1].episode = k - 1
      /\ rows[1].task = (IF Override(k) = NotGiven THEN LabelOf(recording.tasks, Kept[k])
                         ELSE Override(k))
  <2>1. NewRows[k][1] =
          [episode |-> k - 1, index |-> Offset(NewLens, k) + 1 - 1, frame |-> 1 - 1,
           task |-> IF Override(k) = NotGiven THEN LabelOf(recording.tasks, Kept[k])
                    ELSE Override(k),
           payload |-> IF "state" \in edit.remove THEN Removed ELSE <<Kept[k], 1>>]
    BY <1>1, <1>2, NewRowIs
  <2> HIDE DEF rows
  <2> QED
    BY <1>3, <2>1
<1>9. Offset(NewLens, k) + 1 - 1 = Offset(NewLens, k)
  <2>1. k \in 1 .. Len(Kept) + 1
    BY <1>2
  <2>2. Offset(NewLens, k) \in Nat
    BY <1>2, <2>1, OffsetProperties
  <2> QED
    BY <2>2
<1>10. ASSUME "camera" \notin edit.remove
       PROVE  stats.video = PacketsOf(edited, k)[1].coded
  <2> DEFINE job == work.media[JobOf(work.media, k)]
             file == staged.video[job.output]
             place == PutAt(job, k)
             mine == PacketsOf(edited, k)
  <2>1. \A x \in DOMAIN work.media : VideoHeld(work.media[x])
    BY <1>10 DEF VideoInv, Filming
  <2>2. /\ Carries(file, k, place, CodedBy(job))
        /\ mine = [f \in 1 .. NewLens[k] |-> file[place + f]]
    BY <1>1, <1>2, <1>10, <2>1, EditedPacketsAre
  <2>3. encodes <=> CodedBy(job) = "output"
    <3>1. VideoDivided
      BY <1>1, <1>10, MediaPlan
    <3> QED
      BY <1>1, <1>2, <3>1, EncodedIs
  <2>4. CodedBy(job) \in {"output", "source"}
    BY DEF CodedBy
  <2>5. stats.video = IF encodes THEN "output" ELSE "source"
    BY <1>7, <1>10
  <2> HIDE DEF file, place, mine, stats, encodes, job
  <2>6. mine[1] = file[place + 1] /\ file[place + 1].coded = CodedBy(job)
    BY <1>2, <2>2 DEF Carries
  <2>7. stats.video = mine[1].coded
    BY <2>3, <2>4, <2>5, <2>6
  <2> QED
    BY <2>7 DEF mine, stats
<1> HIDE DEF rows, stats
<1>11. /\ stats.index = rows[1].index /\ stats.episode = rows[1].episode
       /\ stats.task = rows[1].task
  BY <1>6, <1>7, <1>8, <1>9
<1> QED
  BY <1>10, <1>11 DEF rows, stats

(* The statistics a finished edit publishes for an episode are those of    *)
(* the rows and the video its files hold (edit_dataset, shifted_stats).    *)
THEOREM EditedStatsMatchThm == EditorSpec => []EditedStatsMatch
<1> QED
  BY ExactStart, ExactStep, VideoStartHolds, VideoStep, StatsResult, PTL DEF EditorSpec
=============================================================================
