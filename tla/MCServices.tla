----------------------------- MODULE MCServices ------------------------------
(***************************************************************************)
(* The components that share no state with one another, in one run: the    *)
(* initial state picks the component at work, the others stay as they are. *)
(***************************************************************************)
EXTENDS Planner, MergePlanner, Editor, Submission, ShardCache, Registry,
        PresetStore, Viewer, Reducer, MCMedia, FileServer

VARIABLE component

Components == {"planner", "merge planner", "editor", "submission", "shard cache",
               "registry", "preset store", "viewer", "reducer", "media",
               "file server"}

(* An idle component keeps one initial state. *)
Begins(name, value, values) == component = name \/ value = (CHOOSE v \in values : TRUE)

Init ==
  /\ component \in Components
  /\ ShardCacheInit /\ RegistryInit /\ PresetInit
  /\ PlannerInit /\ Begins("planner", asked, Requests)
  /\ MergePlannerInit /\ Begins("merge planner", merge, Merges)
  /\ EditorInit /\ Begins("editor", <<recording, edit, machine>>,
                         Recordings \X Edits \X Machines)
  /\ SubmissionInit /\ Begins("submission", call, Submissions)
  /\ ViewerInit /\ Begins("viewer", <<checkout, launch>>, Version \X Launches)
  /\ ReducerInit /\ Begins("reducer", video, Videos)
  /\ MediaInit /\ Begins("media", media, SplitJobs)
  /\ ServerInit /\ Begins("file server", <<header, method, stored>>,
                         Headers \X {"GET"} \X {0})

pools == <<submissionVars, cacheVars, registryVars, presetVars>>
planners == <<plannerVars, mergePlannerVars>>
players == <<viewerVars, reducerVars, mediaVars, serverVars>>

Next ==
  \/ /\ component = "planner" /\ PlannerNext
     /\ UNCHANGED <<component, mergePlannerVars, editorVars, pools, players>>
  \/ /\ component = "merge planner" /\ MergePlannerNext
     /\ UNCHANGED <<component, plannerVars, editorVars, pools, players>>
  \/ /\ component = "editor" /\ EditorNext
     /\ UNCHANGED <<component, planners, pools, players>>
  \/ /\ component = "submission" /\ SubmissionNext
     /\ UNCHANGED <<component, planners, editorVars, cacheVars, registryVars,
                    presetVars, players>>
  \/ /\ component = "shard cache" /\ ShardCacheNext
     /\ UNCHANGED <<component, planners, editorVars, submissionVars, registryVars,
                    presetVars, players>>
  \/ /\ component = "registry" /\ RegistryNext
     /\ UNCHANGED <<component, planners, editorVars, submissionVars, cacheVars,
                    presetVars, players>>
  \/ /\ component = "preset store" /\ PresetNext
     /\ UNCHANGED <<component, planners, editorVars, submissionVars, cacheVars,
                    registryVars, players>>
  \/ /\ component = "viewer" /\ ViewerNext
     /\ UNCHANGED <<component, planners, editorVars, pools, reducerVars, mediaVars,
                    serverVars>>
  \/ /\ component = "reducer" /\ ReducerNext
     /\ UNCHANGED <<component, planners, editorVars, pools, viewerVars, mediaVars,
                    serverVars>>
  \/ /\ component = "media" /\ MediaNext
     /\ UNCHANGED <<component, planners, editorVars, pools, viewerVars, reducerVars,
                    serverVars>>
  \/ /\ component = "file server" /\ ServerNext
     /\ UNCHANGED <<component, planners, editorVars, pools, viewerVars, reducerVars,
                    mediaVars>>

Spec == Init /\ [][Next]_<<component, planners, editorVars, pools, players>>
             /\ ReducerFairness
-----------------------------------------------------------------------------
N == NotGiven

Request(memory, network, target, encoding, workers, videos, data, calibrate) ==
  [cpus |-> 4, memory |-> memory, network |-> network, target |-> target,
   logical |-> <<40, 90, 40, 90>>, physical |-> <<30, 60, 30, 60>>,
   media |-> IF network THEN <<100, 100, 100, 100>> ELSE <<40, 100, 40, 100>>,
   encoding |-> encoding,
   codecThreads |-> 1, codecMemory |-> IF encoding THEN 400 ELSE 0,
   workers |-> workers, videoWorkers |-> videos, dataSize |-> data,
   videoSize |-> N, calibrate |-> calibrate, useCache |-> TRUE]
MCRequests ==
  {Request(m, FALSE, "v3.0", TRUE, N, N, N, TRUE) : m \in {1024, 1900}}
    \cup {Request(1900, TRUE, "v3.0", FALSE, N, N, N, TRUE)}
    \cup {Request(1900, FALSE, "v2.1", FALSE, w, 2, N, TRUE) : w \in {N, 2, 5}}
    \cup {Request(1900, FALSE, "v3.0", FALSE, 1, N, 64, c) : c \in BOOLEAN}

Merge(kind, cpus, network, memory, mib, data, auto) ==
  [call |-> kind, cpus |-> cpus, memory |-> memory, network |-> network,
   logical |-> [i \in 1 .. cpus |-> mib], physical |-> [i \in 1 .. cpus |-> 10],
   media |-> <<40, 50>>, rowBytes |-> 2048, dataWorkers |-> data, fileWorkers |-> N,
   auto |-> auto, useCache |-> kind = "merge"]
MCMerges ==
  {Merge("merge", 6, FALSE, m, s, N, TRUE) : m \in {1024, 1900}, s \in {20, 100}}
    \cup {Merge("plan", 6, FALSE, 1900, 20, d, a) : d \in {N, 13}, a \in BOOLEAN}
    \cup {Merge("merge", 12, TRUE, 1900, 20, N, TRUE)}

(* Sources: every v3.0 layout of four short episodes, and v2.1 with sound, *)
(* wrong labels or a table of tasks with a gap.                            *)
Recording(version, lens, codec, aligned, labelled, audio) ==
  [version |-> version, lens |-> lens, codec |-> codec, aligned |-> aligned,
   labelled |-> labelled, audio |-> audio, pixels |-> 1,
   tasks |-> (0 :> "push") @@ (1 :> "grasp"),
   splits |-> [train |-> <<0, 2>>, test |-> <<2, Len(lens)>>]]
MCRecordings ==
  {Recording("v3.0", <<2, 1, 2, 1>>, c, a, TRUE, FALSE) :
     c \in {"mjpeg", "h264", "av1"}, a \in BOOLEAN}
    \cup {Recording("v3.0", <<1, 2, 1, 2>>, "h264", a, TRUE, FALSE) : a \in BOOLEAN}
    \cup {Recording("v2.1", <<2, 1, 2>>, "h264", TRUE, s, ~s) : s \in BOOLEAN}
    \cup {Recording("v2.1", <<2, 1, 2>>, "h264", TRUE, FALSE, FALSE)}
    \cup {[Recording("v2.1", <<2, 1, 2>>, "h264", TRUE, TRUE, FALSE) EXCEPT
            !.tasks = (0 :> "push") @@ (2 :> "grasp")]}

Edit(delete, retask, remove, filter, workers, threads) ==
  [delete |-> delete, retask |-> retask, remove |-> remove, video |-> filter,
   workers |-> workers, codecThreads |-> threads, batch |-> 2]
Filter(codec, scale) == [codec |-> codec, scale |-> scale]
MCEdits ==
  {Edit(d, <<>>, {}, N, N, N) : d \in SUBSET (0 .. 3)}
    \cup {Edit({1}, (0 :> t), r, N, 1, N) :
            t \in {"push", "grasp", "place"}, r \in SUBSET {"state", "camera"}}
    \cup {Edit({0}, <<>>, {}, Filter(c, s), w, 1) :
            c \in {"libx264", "mjpeg"}, s \in {1, 4}, w \in {N, 3}}
    \cup {Edit({}, (i :> "place"), {}, N, N, N) : i \in {0, 3, 4}}
    \cup {Edit({0}, (0 :> "place"), {}, N, N, N),
          Edit({}, (2 :> "place"), {"camera"}, Filter("mjpeg", 1), N, N),
          Edit({0}, <<>>, {}, Filter("libx264", 4), N, N)}
MCMachines == {[cpus |-> 8, memory |-> m] : m \in {512, 2048}}

MCSubmissions ==
  {s \in [scheduler: {"local", "slurm", "kubernetes"}, parallel: {0, 2},
          cpus: {0, 1}, send: BOOLEAN] :
     /\ s.scheduler = "local" => s.cpus = 0 /\ s.send
     /\ s.parallel = 0 => s.cpus = 0 /\ s.send}

Provider(name, aliases) == [name |-> name, aliases |-> aliases]
Ref(enabled, kind, provider) ==
  [enabled |-> enabled, kind |-> kind, provider |-> provider]
MCBuiltins == <<Provider("lerobot", {"lr"}), Provider("hdf5", {})>>
MCApplicants == {Provider("mine", {"m"}), Provider("m", {"hdf5"}), Provider("x", {""})}
MCReferences ==
  <<Ref(TRUE, "entry", Provider("ros", {"m"})),
    Ref(FALSE, "config", Provider("hdf5", {})),
    Ref(TRUE, "config", Provider("zarr", {"z", "ros2"})),
    Ref(TRUE, "env", Provider("rlds", {"lr2"}))>>

Launch(force, setup, local, annotations, browser) ==
  [force |-> force, setup |-> setup, local |-> local,
   annotations |-> annotations, browser |-> browser]
MCLaunches == {Launch(f, TRUE, FALSE, FALSE, FALSE) : f \in BOOLEAN}
                \cup {Launch(FALSE, FALSE, TRUE, a, b) : a, b \in BOOLEAN}

MCVideos == [lengths: {<<1, 2>>, <<0>>, <<>>}, frames: 0 .. 4, messages: {0, 3},
             fails: BOOLEAN]

MCHeaders ==
  {h \in [kind: {"none", "range", "malformed"}, first: 0 .. 4 \cup {N},
          last: 0 .. 4 \cup {N}] : h.kind = "range" \/ (h.first = N /\ h.last = N)}
=============================================================================
